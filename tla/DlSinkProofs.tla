---------------------------- MODULE DlSinkProofs ----------------------------
(***************************************************************************)
(* Theorems about DlTask, for any set of jobs and any budget of retries,   *)
(* and about DlSink, for either kind of sink.  What the first part shows   *)
(* of a task holds with its sink.                                          *)
(***************************************************************************)
EXTENDS DlSink, SequenceTheorems, TLAPS

-----------------------------------------------------------------------------
(***************************************************************************)
(* The task.                                                               *)
(***************************************************************************)
\* What run_task may rely on when it obeys a verdict.
LEMMA TransitionSound ==
    ASSUME TypeOK, NEW out \in Outcomes
    PROVE  LET v == Transition(run, out) IN
           /\ v.do \in {"done", "resume", "restart", "fallback", "fail"}
           /\ v.do = "done" => off = job.size /\ clean /\ job.sound /\ ~cancel
           /\ v.do = "resume" => run.range
           /\ v.do \in {"resume", "restart"} => run.retries < RetryCount
           /\ v.do = "fallback" => run.range
           /\ v.do \in {"fallback", "fail"} => v.err \in Life!Errors \ {"Ok"}
<1> USE TaskAssumption DEF Life!Errors, Verdict, Retry
<1>1. CASE cancel
  BY <1>1 DEF Outcomes, Transition
<1>2. CASE ~cancel /\ conn.io
  BY <1>2 DEF Outcomes, Transition
<1>3. CASE ~cancel /\ ~conn.io /\ conn.bad # "No"
  BY <1>3 DEF Outcomes, Transition, TypeOK
<1>4. CASE out \in [kind : {"NetErr"}, err : {"Network", "Timeout"}]
  BY <1>4 DEF Transition, NetRetry, TypeOK
<1>5. CASE out \in [kind : {"HttpOk"}, resp : {conn.resp}, gate : BOOLEAN,
                    complete : {off = job.size}, crcOk : {clean /\ job.sound}] /\ ~cancel
  <2> DEFINE e == Flaw(run, out)
  <2>1. out.kind = "HttpOk" /\ Transition(run, out) = HttpVerdict(run, out)
    BY <1>5 DEF Transition
  <2>2. e \in {"Ok", "UnsupportedRange", "Network", "SizeMismatch", "CrcMismatch"}
    BY DEF Flaw
  <2>3. e = "Ok" => off = job.size /\ clean /\ job.sound
    BY <1>5 DEF Flaw
  <2>4. run.range \in BOOLEAN
    BY DEF TypeOK
  <2>5. CASE e = "Ok"
    <3>1. HttpVerdict(run, out) = Verdict("done", e)
      BY <2>4, <2>5 DEF HttpVerdict
    <3> QED BY <1>5, <2>1, <2>3, <2>5, <3>1
  <2>6. CASE run.range /\ e = "Network"
    <3>1. HttpVerdict(run, out) = NetRetry(run, e)
      BY <2>4, <2>6 DEF HttpVerdict
    <3> QED BY <2>1, <2>6, <3>1 DEF NetRetry
  <2>7. CASE run.range /\ e \notin {"Ok", "Network"}
    <3>1. HttpVerdict(run, out) = Verdict("fallback", e)
      BY <2>4, <2>7 DEF HttpVerdict
    <3> QED BY <2>1, <2>2, <2>7, <3>1
  <2>8. CASE ~run.range /\ e # "Ok"
    <3>1. HttpVerdict(run, out) = Retry(run, "restart", Verdict("fail", e))
      BY <2>4, <2>8 DEF HttpVerdict
    <3> QED BY <2>1, <2>2, <2>8, <3>1
  <2> QED BY <2>2, <2>4, <2>5, <2>6, <2>7, <2>8
<1> QED BY <1>1, <1>2, <1>3, <1>4, <1>5 DEF Outcomes

-----------------------------------------------------------------------------
\* A task in the queue satisfies the invariant (task.rs, TaskShared::new).
LEMMA InvInit == Init => TaskInv
<1> SUFFICES ASSUME Init PROVE TaskInv
  OBVIOUS
<1> USE TaskAssumption DEF Init, Life!Init, Life!Ended
<1>1. job.size \in Nat
  OBVIOUS
<1>2. TypeOK
  <2>1. file \in [Chunks -> {"none", "good", "bad"}]
    BY DEF Blank
  <2>2. conn \in [resp : {"None", "Partial", "Success", "Other"},
                 bad : {"No", "UnsupportedRange", "SizeMismatch"}, io : BOOLEAN]
    BY DEF NoConn
  <2>3. run \in [range : BOOLEAN, fallback : BOOLEAN, retries : 0 .. RetryCount]
    OBVIOUS
  <2>4. job \in Jobs /\ off \in 0 .. job.size /\ bytes \in 0 .. job.size
    BY <1>1
  <2>5. /\ state \in Life!States /\ err \in Life!Errors /\ cancel \in BOOLEAN /\ clean \in BOOLEAN
        /\ sink = "Closed" /\ pc = "queued" /\ attempts \in Nat
    BY DEF Life!States, Life!Errors
  <2> QED BY <2>1, <2>2, <2>3, <2>4, <2>5 DEF TypeOK
<1>3. AtPlaces /\ CrcTellsFile /\ FinishedIntact /\ FullFromZero /\ Spent /\ Life!EndTells
  BY <1>1 DEF AtPlaces, CrcTellsFile, FinishedIntact, FullFromZero, Spent, Life!EndTells
<1> QED BY <1>2, <1>3 DEF TaskInv

\* A sink that is rewound, or aborted, holds what a sink may hold.
LEMMA Rewound ==
    ASSUME TypeOK, job' = job, Rewind
    PROVE  /\ file' \in [Chunks' -> {"none", "good", "bad"}]
           /\ off' = 0 /\ bytes' = 0 /\ clean' = TRUE /\ off' \in 0 .. job'.size
BY TaskAssumption DEF TypeOK, Rewind, Blank, Chunks

\* Every step of the worker, or of a cancel, keeps the invariant.
LEMMA InvStep == TaskInv /\ [Next]_vars => TaskInv'
<1> SUFFICES ASSUME TaskInv, [Next]_vars PROVE TaskInv'
  OBVIOUS
<1> USE TaskAssumption DEF Life!Errors, Life!States, Life!Ended, Life!Init
<1>a. job.size \in Nat /\ job.full \in BOOLEAN /\ job.sound \in BOOLEAN
  BY DEF TaskInv, TypeOK
<1>1. CASE Take
  BY <1>1 DEF TaskInv, TypeOK, AtPlaces, CrcTellsFile, FinishedIntact, FullFromZero, Spent,
     Life!EndTells, Take, Goto, Chunks
<1>2. CASE Begin
  <2>1. TypeOK'
    BY <1>a, <1>2 DEF TaskInv, TypeOK, Begin, GiveUp, Goto, Blank, Chunks
  <2>2. AtPlaces' /\ FinishedIntact' /\ FullFromZero' /\ Spent' /\ Life!EndTells'
    BY <1>a, <1>2 DEF TaskInv, TypeOK, AtPlaces, FinishedIntact, FullFromZero, Spent,
       Life!EndTells, Begin, GiveUp, Goto
  <2>3. CrcTellsFile'
    BY <1>a, <1>2 DEF TaskInv, AtPlaces, CrcTellsFile, Begin, GiveUp, Goto
  <2> QED BY <2>1, <2>2, <2>3 DEF TaskInv
<1>3. CASE Empty
  BY <1>a, <1>3 DEF TaskInv, TypeOK, AtPlaces, CrcTellsFile, FinishedIntact, FullFromZero, Spent,
     Life!EndTells, Empty, GiveUp, Goto, Blank, Chunks
<1>4. CASE Connect
  <2>1. TypeOK'
    <3>1. conn' \in [resp : {"None", "Partial", "Success", "Other"},
                    bad : {"No", "UnsupportedRange", "SizeMismatch"}, io : BOOLEAN]
      BY <1>4 DEF Connect, NoConn
    <3> QED BY <1>4, <3>1 DEF TaskInv, TypeOK, Connect, Goto, Chunks, shared
  <2>2. AtPlaces' /\ FullFromZero' /\ Spent' /\ Life!EndTells'
    BY <1>4 DEF TaskInv, TypeOK, AtPlaces, FullFromZero, Spent, Life!EndTells, Connect, Goto,
       shared
  <2>3. CrcTellsFile' /\ FinishedIntact'
    BY <1>4 DEF TaskInv, CrcTellsFile, FinishedIntact, Connect, Goto, Chunks, shared
  <2> QED BY <2>1, <2>2, <2>3 DEF TaskInv
<1>5. CASE GiveUpCanceled
  BY <1>5 DEF TaskInv, TypeOK, AtPlaces, CrcTellsFile, FinishedIntact, FullFromZero, Spent,
     Life!EndTells, GiveUpCanceled, GiveUp, Goto, Blank, Chunks
<1>6. CASE Reject
  BY <1>6 DEF TaskInv, TypeOK, AtPlaces, CrcTellsFile, FinishedIntact, FullFromZero, Spent,
     Life!EndTells, Reject, Receiving, Chunks, shared
<1>7. CASE Receive
  <2>1. PICK v \in {"good", "bad"} :
          /\ file' = [file EXCEPT ![off] = v]
          /\ \/ /\ off' = off + 1 /\ bytes' = bytes + 1 /\ clean' = (clean /\ v = "good")
                /\ UNCHANGED conn
             \/ /\ v = "bad" /\ conn' = [conn EXCEPT !.io = TRUE]
                /\ UNCHANGED <<off, bytes, clean>>
    BY <1>7 DEF Receive
  <2>2. /\ pc = "perform" /\ off \in Chunks /\ off \in Nat /\ bytes = off /\ sink = "Open"
        /\ UNCHANGED <<job, state, err, cancel, sink, pc, run, attempts>>
    BY <1>a, <1>7 DEF TaskInv, TypeOK, AtPlaces, CrcTellsFile, Receive, Receiving, Overruns, Chunks
  <2>3. TypeOK'
    <3>1. file' \in [Chunks' -> {"none", "good", "bad"}]
      BY <2>1, <2>2 DEF TaskInv, TypeOK, Chunks
    <3>2. conn' \in [resp : {"None", "Partial", "Success", "Other"},
                    bad : {"No", "UnsupportedRange", "SizeMismatch"}, io : BOOLEAN]
      BY <2>1 DEF TaskInv, TypeOK
    <3>3. off' \in 0 .. job'.size /\ bytes' \in 0 .. job'.size /\ clean' \in BOOLEAN
      <4>1. off \in 0 .. job.size /\ off + 1 \in 0 .. job.size /\ clean \in BOOLEAN
        BY <1>a, <2>2 DEF TaskInv, TypeOK, Chunks
      <4> QED BY <2>1, <2>2, <4>1
    <3> QED BY <2>2, <3>1, <3>2, <3>3 DEF TaskInv, TypeOK
  <2>4. AtPlaces' /\ FinishedIntact' /\ FullFromZero' /\ Spent' /\ Life!EndTells'
    BY <2>2 DEF TaskInv, TypeOK, AtPlaces, FinishedIntact, FullFromZero, Spent, Life!EndTells
  <2>5. CrcTellsFile'
    <3>1. \A i \in 0 .. off - 1 : file'[i] = file[i]
      BY <2>1, <2>2 DEF TaskInv, TypeOK, Chunks
    <3>2. file'[off] = v
      BY <2>1, <2>2 DEF TaskInv, TypeOK, Chunks
    <3>3. clean <=> \A i \in 0 .. off - 1 : file[i] = "good"
      BY <2>2 DEF TaskInv, CrcTellsFile
    <3>4. CASE off' = off + 1 /\ bytes' = bytes + 1 /\ clean' = (clean /\ v = "good")
      <4>1. 0 .. off' - 1 = (0 .. off - 1) \cup {off}
        BY <2>2, <3>4
      <4>2. clean' <=> \A i \in 0 .. off' - 1 : file'[i] = "good"
        BY <3>1, <3>2, <3>3, <3>4, <4>1
      <4> QED BY <2>2, <3>4, <4>2 DEF CrcTellsFile
    <3>5. CASE UNCHANGED <<off, bytes, clean>>
      BY <2>2, <3>1, <3>3, <3>5 DEF CrcTellsFile
    <3> QED BY <2>1, <3>4, <3>5
  <2> QED BY <2>3, <2>4, <2>5 DEF TaskInv
<1>8. CASE PerformEnds
  <2>1. PICK out \in Outcomes : LET v == Transition(run, out) IN
          \/ /\ v.do = "done"
             /\ state' = "Verifying" /\ Goto("finish")
             /\ UNCHANGED <<err, sink, file, off, clean, bytes, run>>
          \/ v.do \in {"resume", "restart"} /\ BackOff(v.do)
          \/ v.do = "fallback" /\ Fallback(v.err)
          \/ v.do = "fail" /\ GiveUp(v.err) /\ UNCHANGED <<state, off, clean, bytes, run>>
    BY <1>8 DEF PerformEnds
  <2> DEFINE v == Transition(run, out)
  <2>2. /\ v.do = "done" => off = job.size /\ clean /\ job.sound /\ ~cancel
        /\ v.do = "resume" => run.range
        /\ v.do \in {"resume", "restart"} => run.retries < RetryCount
        /\ v.do = "fallback" => run.range
        /\ v.do \in {"fallback", "fail"} => v.err \in Life!Errors \ {"Ok"}
    BY TransitionSound DEF TaskInv
  <2>3. /\ pc = "perform" /\ conn' = NoConn /\ UNCHANGED <<job, cancel, attempts>>
        /\ state = "Running" /\ err = "Ok" /\ sink = "Open"
        /\ NoConn \in [resp : {"None", "Partial", "Success", "Other"},
                       bad : {"No", "UnsupportedRange", "SizeMismatch"}, io : BOOLEAN]
    BY <1>8 DEF PerformEnds, TaskInv, AtPlaces, NoConn
  <2> HIDE DEF v
  <2>4. CASE v.do = "done" /\ state' = "Verifying" /\ Goto("finish")
             /\ UNCHANGED <<err, sink, file, off, clean, bytes, run>>
    BY <1>a, <2>2, <2>3, <2>4 DEF TaskInv, TypeOK, AtPlaces, CrcTellsFile, FinishedIntact,
       FullFromZero, Spent, Life!EndTells, Goto, Chunks
  <2>5. CASE v.do \in {"resume", "restart"} /\ BackOff(v.do)
    BY <1>a, <2>2, <2>3, <2>5 DEF TaskInv, TypeOK, AtPlaces, CrcTellsFile, FinishedIntact,
       FullFromZero, Spent, Life!EndTells, BackOff, Goto, Chunks
  <2>6. CASE v.do = "fallback" /\ Fallback(v.err) /\ job.full
    <3>1. Rewind /\ pc' = "loop" /\ UNCHANGED <<err, sink, state>> /\ run' = Switch(run)
      BY <2>6 DEF Fallback, Goto
    <3>2. TypeOK'
      BY <1>a, <2>3, <3>1, Rewound DEF TaskInv, TypeOK, Switch
    <3>3. CrcTellsFile'
      BY <3>1 DEF CrcTellsFile, Rewind
    <3>4. AtPlaces' /\ FinishedIntact' /\ FullFromZero' /\ Spent' /\ Life!EndTells'
      BY <2>2, <2>3, <2>6, <3>1 DEF TaskInv, TypeOK, AtPlaces, FinishedIntact, FullFromZero, Spent,
         Life!EndTells, Rewind, Switch
    <3> QED BY <3>2, <3>3, <3>4 DEF TaskInv
  <2>7. CASE v.do = "fallback" /\ Fallback(v.err) /\ ~job.full
    <3>1. /\ GiveUp(v.err) /\ pc' = "end" /\ run' = Switch(run)
          /\ UNCHANGED <<state, off, clean, bytes>>
      BY <2>7 DEF Fallback, GiveUp, Goto
    <3>2. TypeOK'
      <4>1. file' \in [Chunks' -> {"none", "good", "bad"}]
        BY <2>3, <3>1 DEF TaskInv, TypeOK, GiveUp, Blank, Chunks
      <4>2. run' \in [range : BOOLEAN, fallback : BOOLEAN, retries : 0 .. RetryCount]
        BY <3>1 DEF TaskInv, TypeOK, Switch
      <4> QED BY <2>2, <2>3, <2>7, <3>1, <4>1, <4>2 DEF TaskInv, TypeOK, GiveUp
    <3>3. AtPlaces' /\ CrcTellsFile' /\ FinishedIntact' /\ FullFromZero' /\ Spent' /\ Life!EndTells'
      BY <2>2, <2>3, <2>7, <3>1 DEF TaskInv, TypeOK, AtPlaces, CrcTellsFile, FinishedIntact,
         FullFromZero, Spent, Life!EndTells, Switch, GiveUp
    <3> QED BY <3>2, <3>3 DEF TaskInv
  <2>8. CASE v.do = "fail" /\ GiveUp(v.err) /\ UNCHANGED <<state, off, clean, bytes, run>>
    BY <1>a, <2>2, <2>3, <2>8 DEF TaskInv, TypeOK, AtPlaces, CrcTellsFile, FinishedIntact,
       FullFromZero, Spent, Life!EndTells, GiveUp, Goto, Blank, Chunks
  <2> QED BY <2>1, <2>4, <2>5, <2>6, <2>7, <2>8 DEF v
<1>9. CASE BackoffEnds
  <2>1. /\ pc \in {"resume", "restart"} /\ pc' = "loop"
        /\ UNCHANGED <<job, state, err, cancel, sink, run, conn, attempts>>
    BY <1>9 DEF BackoffEnds, Goto
  <2>2. CASE Rewind
    <3>1. TypeOK'
      <4>1. TypeOK /\ job' = job
        BY <2>1 DEF TaskInv
      <4>2. file' \in [Chunks' -> {"none", "good", "bad"}]
        BY <2>2, <4>1, Rewound
      <4>3. /\ off' \in 0 .. job'.size /\ bytes' \in 0 .. job'.size /\ clean' \in BOOLEAN
        BY <2>2, <4>1, Rewound
      <4> QED BY <2>1, <4>1, <4>2, <4>3 DEF TypeOK
    <3>2. CrcTellsFile'
      BY <2>1, <2>2 DEF CrcTellsFile, Rewind
    <3>3. AtPlaces' /\ FinishedIntact' /\ FullFromZero' /\ Spent' /\ Life!EndTells'
      BY <2>1, <2>2 DEF TaskInv, TypeOK, AtPlaces, FinishedIntact, FullFromZero, Spent,
         Life!EndTells, Rewind
    <3> QED BY <3>1, <3>2, <3>3 DEF TaskInv
  <2>3. CASE UNCHANGED <<file, off, clean, bytes>> /\ (pc = "restart" => off = 0)
    BY <2>1, <2>3 DEF TaskInv, TypeOK, AtPlaces, CrcTellsFile, FinishedIntact, FullFromZero, Spent,
       Life!EndTells, Chunks
  <2> QED BY <1>9, <2>2, <2>3 DEF BackoffEnds, TaskInv, TypeOK
<1>10. CASE Finish
  BY <1>a, <1>10 DEF TaskInv, TypeOK, AtPlaces, CrcTellsFile, FinishedIntact, FullFromZero, Spent,
     Life!EndTells, Finish, GiveUp, Goto, Blank, Chunks
<1>11. CASE End
  BY <1>11 DEF TaskInv, TypeOK, AtPlaces, CrcTellsFile, FinishedIntact, FullFromZero, Spent,
     Life!EndTells, End, Goto, Chunks
<1>12. CASE Cancel
  BY <1>12 DEF TaskInv, TypeOK, AtPlaces, CrcTellsFile, FinishedIntact, FullFromZero, Spent,
     Life!EndTells, Cancel, Chunks
<1>13. CASE UNCHANGED vars
  BY <1>13 DEF TaskInv, TypeOK, AtPlaces, CrcTellsFile, FinishedIntact, FullFromZero, Spent,
     Life!EndTells, vars, shared, Chunks
<1> QED BY <1>1, <1>2, <1>3, <1>4, <1>5, <1>6, <1>7, <1>8, <1>9, <1>10, <1>11, <1>12, <1>13
     DEF Next, Work
-----------------------------------------------------------------------------
\* The invariant holds in every reachable state.
THEOREM TaskInvHolds == Spec => []TaskInv
<1>1. Init => TaskInv
  BY InvInit
<1>2. TaskInv /\ [Next]_vars => TaskInv'
  BY InvStep
<1> QED BY <1>1, <1>2, PTL DEF Spec

\* Done means the right file in the sink, whatever happened on the way
\* (worker.rs, run_task).
THEOREM DoneMeansIntact == Spec => []DoneIntact
<1>1. TaskInv => DoneIntact
  BY DEF TaskInv, DoneIntact, FinishedIntact, AtPlaces, Life!EndTells, Life!Ended
<1> QED BY <1>1, TaskInvHolds, PTL

\* The full source is asked for everything or not at all (worker.rs:366).
THEOREM FullIsWhole == Spec => []FullFromZero
<1>1. TaskInv => FullFromZero
  BY DEF TaskInv
<1> QED BY <1>1, TaskInvHolds, PTL

\* One budget of retries and one fallback bound the attempts (worker.rs transition).
THEOREM BudgetBoundsAttempts == Spec => []AttemptsBounded
<1>1. TaskInv => AttemptsBounded
  BY TaskAssumption DEF TaskInv, TypeOK, Spent, AttemptsBounded
<1> QED BY <1>1, TaskInvHolds, PTL

\* A worker keeps to the life that others rely on: every step of it is a step of
\* DlLife or changes nothing they see.
THEOREM TaskImplementsLife == Spec => ImplementsLife
<1>1. Init => Life!Init
  BY DEF Init
<1>2. TaskInv /\ [Next]_vars => [Life!Next]_(Life!vars)
  <2> SUFFICES ASSUME TaskInv, [Next]_vars PROVE Life!Next \/ UNCHANGED Life!vars
    OBVIOUS
  <2> USE DEF Life!Next, Life!vars, Life!Ended
  <2>1. CASE Take
    BY <2>1 DEF Take, Life!Take, TaskInv, AtPlaces, Life!Init
  <2>2. CASE Begin
    BY <2>2 DEF Begin, GiveUp, Life!Prepare, Life!GiveUp, Life!Errors, TaskInv, AtPlaces
  <2>3. CASE Empty
    BY <2>3 DEF Empty, GiveUp, Life!Finish, Life!GiveUp, Life!Errors, TaskInv, AtPlaces
  <2>4. CASE Connect \/ Reject \/ Receive \/ BackoffEnds \/ Cancel \/ UNCHANGED vars
    BY <2>4 DEF Connect, Reject, Receive, BackoffEnds, Cancel, vars, shared
  <2>5. CASE GiveUpCanceled
    BY <2>5 DEF GiveUpCanceled, GiveUp, Life!GiveUp, Life!Errors, TaskInv, AtPlaces
  <2>6. CASE PerformEnds
    <3>1. PICK out \in Outcomes : LET v == Transition(run, out) IN
            \/ /\ v.do = "done"
               /\ state' = "Verifying" /\ Goto("finish")
               /\ UNCHANGED <<err, sink, file, off, clean, bytes, run>>
            \/ v.do \in {"resume", "restart"} /\ BackOff(v.do)
            \/ v.do = "fallback" /\ Fallback(v.err)
            \/ v.do = "fail" /\ GiveUp(v.err) /\ UNCHANGED <<state, off, clean, bytes, run>>
      BY <2>6 DEF PerformEnds
    <3> DEFINE v == Transition(run, out)
    <3>2. v.do \in {"fallback", "fail"} => v.err \in Life!Errors \ {"Ok"}
      BY TransitionSound DEF TaskInv
    <3>3. state = "Running" /\ err = "Ok" /\ sink = "Open"
      BY <2>6 DEF PerformEnds, TaskInv, AtPlaces
    <3> HIDE DEF v
    <3>4. CASE v.do = "done" /\ state' = "Verifying" /\ UNCHANGED <<err, sink>>
      BY <3>3, <3>4 DEF Life!Verify
    <3>5. CASE UNCHANGED <<state, err, sink>>
      BY <3>5
    <3>6. CASE v.do \in {"fallback", "fail"} /\ GiveUp(v.err) /\ UNCHANGED state
      BY <3>2, <3>3, <3>6 DEF GiveUp, Life!GiveUp
    <3> QED BY <3>1, <3>4, <3>5, <3>6 DEF v, BackOff, Fallback
  <2>7. CASE Finish
    BY <2>7 DEF Finish, GiveUp, Life!Finish, Life!GiveUp, Life!Errors, TaskInv, AtPlaces
  <2>8. CASE End
    BY <2>8 DEF End, Life!End, TaskInv, AtPlaces
  <2> QED BY <2>1, <2>2, <2>3, <2>4, <2>5, <2>6, <2>7, <2>8 DEF Next, Work
<1> QED BY <1>1, <1>2, TaskInvHolds, PTL DEF Spec, ImplementsLife, Life!Spec

-----------------------------------------------------------------------------
(***************************************************************************)
(* The task with its sink.                                                 *)
(***************************************************************************)
Marks   == {"none", "good", "bad"}
Writers == [held : BOOLEAN, written : Nat, dirty : BOOLEAN, crc : Seq(Marks)]
Entries == [state : {"none", "downloading", "active", "other"}, crc : Seq(Marks)]

\* The writer of a vfs sink is there while the sink is open, and the entry is the
\* writer's while it is there, and the finished file's afterwards.
SinkInv ==
    /\ kind \in {"vfs", "file"} /\ registered \in BOOLEAN
    /\ writer \in Writers /\ entry \in Entries
    /\ ~Vfs => ~writer.held /\ entry = NoEntry
    /\ Vfs => (writer.held <=> sink = "Open")
    /\ writer.held <=> entry.state = "downloading"
    /\ entry.state = "active" <=> Vfs /\ sink = "Finished"
    /\ EntryVerifies

-----------------------------------------------------------------------------
(***************************************************************************)
(* Reading back.                                                           *)
(***************************************************************************)
LEMMA ReadBackType ==
    ASSUME TypeOK, NEW n \in 0 .. job.size
    PROVE  ReadBack(n) \in Seq(Marks) /\ Len(ReadBack(n)) = n
<1>1. job.size \in Nat /\ n \in Nat
  BY TaskAssumption DEF TypeOK
<1>2. \A i \in 1 .. n : file[i - 1] \in Marks
  BY <1>1 DEF TypeOK, Chunks, Marks
<1> QED BY <1>1, <1>2 DEF ReadBack

\* A chunk written behind the others is one more to read back.
LEMMA ReadBackGrows ==
    ASSUME TypeOK, NEW v \in Marks, off \in Chunks, file' = [file EXCEPT ![off] = v],
           NEW t, t = [i \in 1 .. off + 1 |-> file'[i - 1]]
    PROVE  Append(ReadBack(off), v) = t
<1>1. job.size \in Nat /\ off \in Nat
  BY TaskAssumption DEF TypeOK
<1>2. ReadBack(off) \in Seq(Marks) /\ Len(ReadBack(off)) = off
  BY ReadBackType DEF TypeOK
<1>3. /\ \A i \in 1 .. off : file'[i - 1] = file[i - 1] /\ file[i - 1] \in Marks
      /\ file'[off] = v
  BY <1>1 DEF TypeOK, Chunks, Marks
<1>4. /\ Append(ReadBack(off), v) \in Seq(Marks)
      /\ Len(Append(ReadBack(off), v)) = off + 1
      /\ \A i \in 1 .. off : Append(ReadBack(off), v)[i] = ReadBack(off)[i]
      /\ Append(ReadBack(off), v)[off + 1] = v
  BY <1>2, AppendProperties
<1>5. \A i \in 1 .. off + 1 : t[i] \in Marks
  BY <1>1, <1>3
<1>6. t \in Seq(Marks) /\ Len(t) = off + 1
  BY <1>1, <1>5
<1>7. \A i \in 1 .. off + 1 : Append(ReadBack(off), v)[i] = t[i]
  <2>1. \A i \in 1 .. off : ReadBack(off)[i] = file[i - 1]
    BY DEF ReadBack
  <2> QED BY <1>1, <1>3, <1>4, <2>1
<1> QED BY <1>4, <1>6, <1>7, SeqEqual

-----------------------------------------------------------------------------
(***************************************************************************)
(* What the calls on the sink do to the invariant.                         *)
(***************************************************************************)
LEMMA QuietKeeps ==
    ASSUME TypeOK, SinkInv, Quiet, UNCHANGED <<job, kind, registered>>,
           Vfs => UNCHANGED sink, off' \in {off, 0}
    PROVE  SinkInv'
<1>1. off \in Nat /\ (Vfs' <=> Vfs)
  BY TaskAssumption DEF TypeOK, Vfs
<1>2. CASE ~Vfs
  <2>1. writer' = writer /\ entry' = entry
    BY DEF Quiet
  <2> QED BY <1>1, <1>2, <2>1 DEF SinkInv, EntryVerifies, NoEntry
<1>3. CASE Vfs
  <2>1. /\ writer' = writer /\ entry' = entry /\ file' = file /\ sink' = sink
        /\ off' <= off
    BY <1>1, <1>3 DEF Quiet
  <2>2. writer.held => writer.written \in Nat /\ off <= writer.written
    BY DEF SinkInv, EntryVerifies, Writers
  <2>3. EntryVerifies'
    <3>1. off' \in Nat
      BY <1>1
    <3>2. writer.held => off' <= writer.written
      BY <1>1, <2>1, <2>2, <3>1
    <3> QED BY <2>1, <3>2 DEF SinkInv, EntryVerifies, ReadBack
  <2> QED BY <1>1, <1>3, <2>1, <2>3 DEF SinkInv
<1> QED BY <1>2, <1>3

LEMMA DropKeeps ==
    ASSUME TypeOK, SinkInv, DropWriter, UNCHANGED <<job, kind>>, registered' \in BOOLEAN,
           sink' # "Open", sink' = "Finished" <=> sink = "Finished"
    PROVE  SinkInv'
<1>1. writer' \in Writers /\ ~writer'.held
  <2>1. <<>> \in Seq(Marks)
    BY EmptySeq
  <2> QED BY <2>1 DEF DropWriter, NoWriter, Writers
<1>2. entry' \in Entries /\ entry'.state # "downloading" /\ (~Vfs => entry' = NoEntry)
  <2>1. NoEntry \in Entries
    BY EmptySeq DEF NoEntry, Entries
  <2> QED BY <2>1 DEF DropWriter, SinkInv, NoEntry
<1>3. Vfs' <=> Vfs
  BY DEF Vfs
<1>4. entry'.state = "active" <=> Vfs /\ sink' = "Finished"
  <2>1. CASE writer.held
    BY <2>1 DEF SinkInv, DropWriter, NoEntry
  <2>2. CASE ~writer.held
    BY <2>2 DEF SinkInv, DropWriter
  <2> QED BY <2>1, <2>2
<1>5. EntryVerifies'
  <2>1. entry'.state = "active" => entry' = entry /\ file' = file
    BY <1>4 DEF DropWriter, SinkInv
  <2>2. entry'.state = "active" => entry'.crc = [i \in 1 .. job'.size |-> file'[i - 1]]
    BY <2>1 DEF SinkInv, EntryVerifies, ReadBack
  <2> QED BY <1>1, <2>2 DEF EntryVerifies, ReadBack
<1> QED BY <1>1, <1>2, <1>3, <1>4, <1>5 DEF SinkInv

LEMMA CommitKeeps ==
    ASSUME TypeOK, SinkInv, Commit, Vfs, UNCHANGED <<job, kind, registered>>, sink' = "Finished"
    PROVE  SinkInv'
<1>1. job.size \in Nat
  BY TaskAssumption DEF TypeOK
<1>2. /\ writer' \in Writers /\ ~writer'.held
  <2>1. <<>> \in Seq(Marks)
    BY EmptySeq
  <2> QED BY <2>1 DEF Commit, NoWriter, Writers
<1>3. Seal = ReadBack(job.size) /\ ReadBack(job.size) \in Seq(Marks)
  <2>1. ReadBack(job.size) \in Seq(Marks)
    BY <1>1, ReadBackType
  <2> QED BY <2>1 DEF Seal, Commit, SinkInv, EntryVerifies
<1>4. entry' \in Entries /\ entry'.state = "active" /\ entry'.crc = ReadBack(job.size)
  BY <1>3 DEF Commit, Entries
<1>5. ReadBack(job.size)' = ReadBack(job.size)
  BY DEF ReadBack, Commit
<1>6. EntryVerifies'
  BY <1>2, <1>4, <1>5 DEF EntryVerifies
<1>7. Vfs'
  BY DEF Vfs
<1> QED BY <1>2, <1>4, <1>6, <1>7 DEF SinkInv

LEMMA PrepareKeeps ==
    ASSUME TypeOK, SinkInv, Prepare, UNCHANGED <<job, kind, registered, off>>,
           sink' = "Open", off = 0
    PROVE  SinkInv'
<1>1. Vfs' <=> Vfs
  BY DEF Vfs
<1>2. CASE ~Vfs
  BY <1>1, <1>2 DEF Prepare, SinkInv, EntryVerifies, NoEntry
<1>3. CASE Vfs
  <2>1. /\ writer' = [held |-> TRUE, written |-> 0, dirty |-> FALSE, crc |-> <<>>]
        /\ entry' = [state |-> "downloading", crc |-> <<>>]
    BY <1>3 DEF Prepare, NoWriter, NoEntry
  <2>2. <<>> \in Seq(Marks)
    BY EmptySeq
  <2>3. [i \in 1 .. 0 |-> file'[i - 1]] = <<>>
    BY SMT
  <2>4. EntryVerifies'
    BY <2>1, <2>3 DEF EntryVerifies, ReadBack
  <2> QED BY <1>1, <1>3, <2>1, <2>2, <2>4 DEF SinkInv, Writers, Entries
<1> QED BY <1>2, <1>3

\* A chunk written where the writer is, or behind it after a reset, or one that is
\* not stored: the crc is the file's, or given up.
LEMMA WriteKeeps ==
    ASSUME TypeOK, SinkInv, Vfs, writer.held, UNCHANGED <<job, kind, registered, sink, entry>>,
           off \in Chunks, NEW v \in Marks, NEW stored \in BOOLEAN, WriteAt(v, stored),
           file' = [file EXCEPT ![off] = v],
           off' = IF stored THEN off + 1 ELSE off
    PROVE  SinkInv'
<1> DEFINE dirty == writer.dirty \/ off < writer.written
<1>1. off \in Nat /\ job.size \in Nat /\ (Vfs' <=> Vfs)
  BY TaskAssumption DEF TypeOK, Vfs
<1>2. /\ writer \in Writers /\ writer.written \in Nat /\ off <= writer.written
      /\ writer.dirty \/ writer.crc = ReadBack(writer.written)
      /\ entry.state # "active"
  BY DEF SinkInv, EntryVerifies, Writers
<1>3. ~dirty => writer.written = off /\ writer.crc = ReadBack(off)
  BY <1>1, <1>2
<1>4. /\ writer'.held /\ writer'.dirty = dirty
      /\ writer'.crc = IF stored /\ ~dirty THEN Append(writer.crc, v) ELSE writer.crc
      /\ writer'.written = IF stored /\ writer.written < off + 1 THEN off + 1 ELSE writer.written
  BY <1>2 DEF WriteAt, Writers
<1>5. writer' \in Writers
  <2>1. Append(writer.crc, v) \in Seq(Marks)
    BY <1>2, AppendProperties DEF Writers
  <2>2. writer' = [held |-> writer'.held, written |-> writer'.written,
                   dirty |-> writer'.dirty, crc |-> writer'.crc]
    BY <1>2 DEF WriteAt, Writers
  <2>3. writer'.held \in BOOLEAN /\ writer'.written \in Nat /\ writer'.dirty \in BOOLEAN
    BY <1>1, <1>2, <1>4 DEF Writers
  <2>4. writer'.crc \in Seq(Marks)
    BY <1>2, <1>4, <2>1 DEF Writers
  <2> HIDE DEF dirty
  <2> QED BY <2>2, <2>3, <2>4 DEF Writers
<1>6. off' <= writer'.written
  BY <1>1, <1>2, <1>4
<1>7. ~dirty => writer'.crc = [i \in 1 .. writer'.written |-> file'[i - 1]]
  <2> SUFFICES ASSUME ~dirty
               PROVE  writer'.crc = [i \in 1 .. writer'.written |-> file'[i - 1]]
    OBVIOUS
  <2>1. CASE stored
    <3> DEFINE t == [i \in 1 .. off + 1 |-> file'[i - 1]]
    <3>1. Append(ReadBack(off), v) = t
      BY ReadBackGrows
    <3>2. writer'.written = off + 1 /\ writer'.crc = Append(ReadBack(off), v)
      BY <1>1, <1>3, <1>4, <2>1
    <3> QED BY <3>1, <3>2
  <2>2. CASE ~stored
    <3>1. \A i \in 1 .. off : file'[i - 1] = file[i - 1]
      BY <1>1 DEF TypeOK, Chunks
    <3>2. [i \in 1 .. off |-> file'[i - 1]] = ReadBack(off)
      BY <3>1 DEF ReadBack
    <3> QED BY <1>1, <1>3, <1>4, <2>2, <3>2
  <2> QED BY <2>1, <2>2
<1>8. EntryVerifies'
  BY <1>2, <1>4, <1>6, <1>7 DEF EntryVerifies, ReadBack
<1> QED BY <1>1, <1>4, <1>5, <1>8 DEF SinkInv

-----------------------------------------------------------------------------
\* A task in the queue has no writer (worker.rs, glue.rs).
LEMMA SinkInvInit == SinkInit => SinkInv
<1> SUFFICES ASSUME SinkInit PROVE SinkInv
  OBVIOUS
<1>1. <<>> \in Seq(Marks) /\ sink = "Closed"
  BY EmptySeq DEF SinkInit, Init, Life!Init
<1>2. writer = NoWriter /\ entry = NoEntry /\ kind \in {"vfs", "file"} /\ registered \in BOOLEAN
  BY KindsAssumption DEF SinkInit
<1> QED BY <1>1, <1>2 DEF SinkInv, NoWriter, NoEntry, Writers, Entries, EntryVerifies

\* Every step with the sink is a step of the task, or none of it.
LEMMA StepsOfTask == SinkNext => [Next]_vars
BY DEF SinkNext, SinkWork, SinkBegin, SinkEmpty, SinkReceive, SinkGiveUpCanceled, SinkPerformEnds,
   SinkBackoffEnds, SinkFinish, SinkCancel, Release, OtherTakes, OtherLeaves, Next, Work

LEMMA BeginKeeps ==
    ASSUME TaskInv, SinkInv, SinkBegin, UNCHANGED <<kind, registered>>
    PROVE  SinkInv'
<1> USE DEF TaskInv
<1>1. sink = "Closed" /\ off = 0 /\ UNCHANGED <<job, off>>
  BY DEF SinkBegin, Begin, AtPlaces
<1>2. CASE sink' = "Open" /\ Prepare
  BY <1>1, <1>2, PrepareKeeps
<1>3. CASE sink' = "Aborted" /\ DropWriter
  BY <1>1, <1>3, DropKeeps DEF SinkInv
<1>4. CASE sink' = "Closed" /\ Quiet
  BY <1>1, <1>4, QuietKeeps
<1> QED BY <1>2, <1>3, <1>4 DEF SinkBegin

LEMMA EmptyKeeps ==
    ASSUME TaskInv, SinkInv, SinkEmpty, UNCHANGED <<kind, registered>>
    PROVE  SinkInv'
<1> USE DEF TaskInv
<1>1. sink = "Open" /\ UNCHANGED <<job, off>>
  BY DEF SinkEmpty, Empty, AtPlaces
<1>2. CASE sink' = "Finished" /\ Vfs /\ Commit
  BY <1>1, <1>2, CommitKeeps
<1>3. CASE sink' = "Finished" /\ ~Vfs /\ Quiet
  BY <1>1, <1>3, QuietKeeps
<1>4. CASE sink' = "Aborted" /\ DropWriter
  BY <1>1, <1>4, DropKeeps DEF SinkInv
<1> QED BY <1>2, <1>3, <1>4 DEF SinkEmpty

LEMMA ReceiveKeeps ==
    ASSUME TaskInv, SinkInv, SinkReceive, UNCHANGED <<kind, registered>>
    PROVE  SinkInv'
<1> USE DEF TaskInv
<1>1. PICK v \in {"good", "bad"} :
         /\ file' = [file EXCEPT ![off] = v]
         /\ \/ off' = off + 1 /\ UNCHANGED conn
            \/ conn' = [conn EXCEPT !.io = TRUE] /\ UNCHANGED off
  BY DEF SinkReceive, Receive
<1>2. /\ sink = "Open" /\ ~conn.io /\ conn \in [resp : {"None", "Partial", "Success", "Other"},
                 bad : {"No", "UnsupportedRange", "SizeMismatch"}, io : BOOLEAN]
      /\ UNCHANGED <<job, sink>>
  BY DEF SinkReceive, Receive, Receiving, AtPlaces, TypeOK
<1>3. off \in Chunks
  BY TaskAssumption DEF SinkReceive, Receive, Overruns, Chunks, TypeOK
<1>4. file'[off] = v
  BY <1>1, <1>3 DEF TypeOK
<1>5. CASE ~Vfs
  BY <1>2, <1>5 DEF SinkReceive, SinkInv, EntryVerifies, Vfs, NoEntry
<1>6. CASE Vfs
  <2>1. writer.held
    BY <1>2, <1>6 DEF SinkInv
  <2>2. ~Refused
    <3>1. off \in Nat /\ writer.written \in Nat /\ off <= writer.written
      BY <1>3, <2>1, TaskAssumption DEF SinkInv, EntryVerifies, Writers, Chunks, TypeOK
    <3> QED BY <2>1, <3>1 DEF Refused
  <2>3. entry' = entry /\ WriteAt(v, ~conn'.io)
    BY <1>4, <1>6, <2>2 DEF SinkReceive
  <2>4. off' = IF ~conn'.io THEN off + 1 ELSE off
    BY <1>1, <1>2
  <2>5. conn'.io \in BOOLEAN
    BY <1>1, <1>2
  <2>6. v \in Marks
    BY DEF Marks
  <2> HIDE DEF TaskInv
  <2>7. TypeOK
    BY DEF TaskInv
  <2> QED BY <1>1, <1>2, <1>3, <1>6, <2>1, <2>3, <2>4, <2>5, <2>6, <2>7, WriteKeeps
<1> QED BY <1>5, <1>6

LEMMA PerformKeeps ==
    ASSUME TaskInv, SinkInv, SinkPerformEnds, UNCHANGED <<kind, registered>>
    PROVE  SinkInv'
<1> USE DEF TaskInv
<1>1. sink = "Open" /\ UNCHANGED job /\ sink' \in {sink, "Aborted"} /\ off' \in {off, 0}
  BY DEF SinkPerformEnds, PerformEnds, BackOff, Fallback, Rewind, GiveUp, AtPlaces
<1>2. CASE sink' = "Aborted"
  BY <1>1, <1>2, DropKeeps DEF SinkPerformEnds, SinkInv
<1>3. CASE sink' # "Aborted"
  BY <1>1, <1>3, QuietKeeps DEF SinkPerformEnds
<1> QED BY <1>2, <1>3

LEMMA FinishKeeps ==
    ASSUME TaskInv, SinkInv, SinkFinish, UNCHANGED <<kind, registered>>
    PROVE  SinkInv'
<1> USE DEF TaskInv
<1>1. sink = "Open" /\ UNCHANGED <<job, off>> /\ sink' \in {"Finished", "Aborted"}
  BY DEF SinkFinish, Finish, GiveUp, AtPlaces
<1>2. CASE sink' # "Finished"
  BY <1>1, <1>2, DropKeeps DEF SinkFinish, FinishFails, SinkInv
<1>3. CASE sink' = "Finished" /\ Vfs
  <2>1. Commit
    BY <1>3 DEF SinkFinish
  <2> QED BY <1>1, <1>3, <2>1, CommitKeeps
<1>4. CASE sink' = "Finished" /\ ~Vfs
  <2>1. Quiet
    BY <1>4 DEF SinkFinish
  <2> QED BY <1>1, <1>4, <2>1, QuietKeeps
<1> QED BY <1>1, <1>2, <1>3, <1>4

LEMMA OthersKeep ==
    ASSUME TaskInv, SinkInv, OtherTakes \/ OtherLeaves
    PROVE  SinkInv'
<1>1. /\ UNCHANGED <<vars, kind, registered, writer>>
      /\ entry' \in Entries /\ entry.state \in {"none", "other"} /\ entry'.state \in {"none", "other"}
      /\ ~Vfs => entry' = NoEntry
  <2>1. NoEntry \in Entries /\ NoEntry.state = "none" /\ NoEntry.crc \in Seq(Marks)
    BY EmptySeq DEF NoEntry, Entries
  <2>2. CASE OtherTakes
    <3>1. entry' = [state |-> "other", crc |-> NoEntry.crc]
      BY <2>2 DEF OtherTakes, NoEntry
    <3> QED BY <2>1, <2>2, <3>1 DEF OtherTakes, Entries
  <2>3. CASE OtherLeaves
    BY <2>1, <2>3 DEF OtherLeaves
  <2> QED BY <2>2, <2>3
<1> QED BY <1>1 DEF SinkInv, EntryVerifies, ReadBack, Vfs, vars, shared

LEMMA SinkInvStep == TaskInv /\ SinkInv /\ [SinkNext]_all => SinkInv'
<1> SUFFICES ASSUME TaskInv, SinkInv, [SinkNext]_all PROVE SinkInv'
  OBVIOUS
<1>a. TypeOK
  BY DEF TaskInv
<1>1. CASE UNCHANGED <<kind, registered>> /\ (Take \/ Connect \/ Reject \/ End)
                                        /\ UNCHANGED <<writer, entry>>
  <2>1. UNCHANGED <<job, sink, file, off>>
    BY <1>1 DEF Take, Connect, Reject, End, shared
  <2> QED BY <1>a, <1>1, <2>1, QuietKeeps DEF Quiet
<1>2. CASE UNCHANGED <<kind, registered>> /\ SinkBegin
  BY <1>2, BeginKeeps
<1>3. CASE UNCHANGED <<kind, registered>> /\ SinkEmpty
  BY <1>3, EmptyKeeps
<1>4. CASE UNCHANGED <<kind, registered>> /\ SinkReceive
  BY <1>4, ReceiveKeeps
<1>5. CASE UNCHANGED <<kind, registered>> /\ SinkGiveUpCanceled
  <2>1. /\ UNCHANGED job /\ sink = "Open" /\ sink' = "Aborted" /\ DropWriter
    BY <1>5 DEF SinkGiveUpCanceled, GiveUpCanceled, GiveUp, TaskInv, AtPlaces
  <2> QED BY <1>a, <1>5, <2>1, DropKeeps DEF SinkInv
<1>6. CASE UNCHANGED <<kind, registered>> /\ SinkPerformEnds
  BY <1>6, PerformKeeps
<1>7. CASE UNCHANGED <<kind, registered>> /\ SinkBackoffEnds
  <2>1. UNCHANGED <<job, sink>> /\ off' \in {off, 0} /\ Quiet
    BY <1>7 DEF SinkBackoffEnds, BackoffEnds, Rewind
  <2> QED BY <1>a, <1>7, <2>1, QuietKeeps
<1>8. CASE UNCHANGED <<kind, registered>> /\ SinkFinish
  BY <1>8, FinishKeeps
<1>9. CASE SinkCancel
  <2>1. UNCHANGED <<job, sink, file, off, sinkVars>>
    BY <1>9 DEF SinkCancel, Cancel
  <2> QED BY <1>a, <2>1, QuietKeeps DEF Quiet, sinkVars
<1>10. CASE Release
  <2>1. /\ UNCHANGED <<job, kind, sink>> /\ registered' \in BOOLEAN /\ DropWriter
        /\ sink # "Open"
    BY <1>10 DEF Release, vars, shared, TaskInv, Life!EndTells
  <2> QED BY <1>a, <2>1, DropKeeps
<1>11. CASE OtherTakes \/ OtherLeaves
  BY <1>11, OthersKeep
<1>12. CASE UNCHANGED all
  <2>1. UNCHANGED <<job, sink, file, off, sinkVars>>
    BY <1>12 DEF all, vars, shared
  <2> QED BY <1>a, <2>1, QuietKeeps DEF Quiet, sinkVars
<1> QED BY <1>1, <1>2, <1>3, <1>4, <1>5, <1>6, <1>7, <1>8, <1>9, <1>10, <1>11, <1>12
        DEF SinkNext, SinkWork

-----------------------------------------------------------------------------
(***************************************************************************)
(* The theorems.                                                           *)
(***************************************************************************)
\* With its sink a task is the task of DlTask: whatever the sink adds keeps its
\* theorems (worker.rs, sink.rs).
THEOREM SinkKeepsTask == SinkSpec => Spec
<1>1. SinkInit => Init
  BY DEF SinkInit
<1>2. [SinkNext]_all => [Next]_vars
  BY StepsOfTask DEF all
<1> QED BY <1>1, <1>2, PTL DEF SinkSpec, Spec

\* The writer and the entry belong together at every place of run_task.
LEMMA SinkInvHolds == SinkSpec => []SinkInv
<1>1. SinkInit => SinkInv
  BY SinkInvInit
<1>2. TaskInv /\ SinkInv /\ [SinkNext]_all => SinkInv'
  BY SinkInvStep
<1> QED BY <1>1, <1>2, SinkKeepsTask, TaskInvHolds, PTL DEF SinkSpec

\* What a committed entry says of its content is so, however often and from however
\* many sources the region was written (glue.rs:52, mod.rs:630).
THEOREM EntryAlwaysVerifies == SinkSpec => []EntryVerifies
<1>1. SinkInv => EntryVerifies
  BY DEF SinkInv
<1> QED BY <1>1, SinkInvHolds, PTL

\* A step touches no entry of somebody else.
LEMMA OthersSpared ==
    ASSUME TaskInv, SinkInv, SinkNext, entry.state = "other"
    PROVE  entry' = entry \/ UNCHANGED <<vars, registered>>
<1>1. ~writer.held
  BY DEF SinkInv
<1>2. CASE SinkWork
  <2>1. ~Commit /\ (Vfs => ~Prepare)
    BY <1>1 DEF Commit, Prepare
  <2>2. DropWriter \/ Quiet \/ (~Vfs /\ Prepare) => entry' = entry
    BY <1>1 DEF DropWriter, Quiet, Prepare
  <2> QED
    BY <1>2, <2>1, <2>2 DEF SinkWork, SinkBegin, SinkEmpty, SinkReceive, SinkGiveUpCanceled,
       SinkPerformEnds, SinkBackoffEnds, SinkFinish, FinishFails
<1>3. CASE SinkCancel \/ Release \/ OtherTakes \/ OtherLeaves
  BY <1>1, <1>3 DEF SinkCancel, sinkVars, Release, DropWriter, OtherTakes, OtherLeaves
<1> QED BY <1>2, <1>3 DEF SinkNext

\* However a task ends, nothing of it is left but the file of one that is Done, and
\* nothing of anybody else's is lost (sink.rs:3, mod.rs:701).
THEOREM SinkAlwaysClean == SinkSpec => SinkClean
<1>1. SinkInv' => (writer'.held <=> entry'.state = "downloading")
  BY DEF SinkInv
<1>2. TaskInv' /\ SinkInv' => (Vfs /\ pc' = "over" /\ kind' = kind =>
                                   (entry'.state = "active" <=> state' = "Done"))
  <2> SUFFICES ASSUME TaskInv', SinkInv', Vfs, pc' = "over", kind' = kind
               PROVE  entry'.state = "active" <=> state' = "Done"
    OBVIOUS
  <2>1. state' \in Life!Ended /\ (state' = "Done" <=> sink' = "Finished")
    BY DEF TaskInv, AtPlaces, Life!EndTells, Life!Ended
  <2> QED BY <2>1 DEF SinkInv, Vfs
<1>3. [SinkNext]_all => kind' = kind
  BY DEF SinkNext, SinkWork, SinkCancel, Release, OtherTakes, OtherLeaves, all, sinkVars
<1>4. TaskInv /\ SinkInv /\ [SinkNext]_all =>
         (entry.state = "other" => entry' = entry \/ UNCHANGED <<vars, registered>>)
  BY OthersSpared DEF all, sinkVars
<1>5. SinkSpec => []TaskInv
  BY SinkKeepsTask, TaskInvHolds
<1> QED BY <1>1, <1>2, <1>3, <1>4, <1>5, SinkInvHolds, PTL DEF SinkSpec, SinkClean
=============================================================================
