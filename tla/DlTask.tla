------------------------------- MODULE DlTask -------------------------------
(***************************************************************************)
(* One download task in the hands of a worker (dlmgr/worker.rs, run_task): *)
(* attempts over a range source that can be resumed, one fallback to a     *)
(* full source, a budget of retries shared by both, the write callback     *)
(* with its gates, and a cancel flag that any thread may set at any time.  *)
(* A file is counted in chunks, what one grant of the limiter lets the     *)
(* write callback store.                                                   *)
(***************************************************************************)
EXTENDS Integers

CONSTANTS
    Jobs,         (* the tasks: size in chunks; "full", whether there is a  *)
                  (* full_url; "sound", whether the right content has the   *)
                  (* crc the task was given                                 *)
    RetryCount    (* Shared.retry_count                                     *)

ASSUME TaskAssumption ==
    /\ Jobs \subseteq [size : Nat, full : BOOLEAN, sound : BOOLEAN]
    /\ RetryCount \in Nat

VARIABLES
    job,        (* the task                                                *)
    state, err, cancel, bytes,      (* TaskShared                          *)
    sink,       (* Closed, Open, Finished or Aborted                       *)
    file,       (* what the sink holds: chunks none, good or bad           *)
    pc,         (* where run_task is                                       *)
    off, clean, (* its offset, and whether all it took was good: its crc   *)
    run,        (* RunState                                                *)
    conn,       (* the attempt: the response, bad and io_err of WriteCtx   *)
    attempts    (* how many attempts were made                             *)

shared == <<state, err, cancel, bytes, sink>>
vars   == <<job, shared, file, pc, off, clean, run, conn, attempts>>

Chunks   == 0 .. job.size - 1
Blank    == [i \in Chunks |-> "none"]
NoConn   == [resp |-> "None", bad |-> "No", io |-> FALSE]
AtRest   == {"queued", "over"}

Life == INSTANCE DlLife

TypeOK ==
    /\ job \in Jobs
    /\ state \in Life!States /\ err \in Life!Errors
    /\ cancel \in BOOLEAN /\ bytes \in 0 .. job.size
    /\ sink \in {"Closed", "Open", "Finished", "Aborted"}
    /\ file \in [Chunks -> {"none", "good", "bad"}]
    /\ pc \in {"queued", "begin", "empty", "loop", "perform", "resume", "restart",
               "finish", "end", "over"}
    /\ off \in 0 .. job.size /\ clean \in BOOLEAN
    /\ run \in [range : BOOLEAN, fallback : BOOLEAN, retries : 0 .. RetryCount]
    /\ conn \in [resp : {"None", "Partial", "Success", "Other"},
                 bad : {"No", "UnsupportedRange", "SizeMismatch"}, io : BOOLEAN]
    /\ attempts \in Nat

Init ==
    /\ job \in Jobs
    /\ Life!Init /\ cancel = FALSE /\ bytes = 0
    /\ file = Blank
    /\ pc = "queued" /\ off = 0 /\ clean = TRUE
    /\ run = [range |-> TRUE, fallback |-> FALSE, retries |-> 0]
    /\ conn = NoConn /\ attempts = 0

-----------------------------------------------------------------------------
(***************************************************************************)
(* The verdict on an attempt (transition, net_retry): what to do next, and *)
(* the error to end with if it comes to that.                              *)
(***************************************************************************)
Verdict(do, e) == [do |-> do, err |-> e]

\* Again with the same source while the budget lasts, then as given.
Retry(st, how, otherwise) ==
    IF st.retries < RetryCount THEN Verdict(how, "Ok") ELSE otherwise

\* Mutant: the range source is resumed whatever the budget.
NetRetryFree(st, e) ==
    IF st.range THEN Verdict("resume", "Ok")
    ELSE Retry(st, "restart", Verdict("fail", e))

NetRetry(st, e) ==
    Retry(st, IF st.range THEN "resume" ELSE "restart",
          Verdict(IF st.range /\ ~st.fallback THEN "fallback" ELSE "fail", e))

\* The error a clean response leaves when it does not complete the file, "Ok" when
\* it does: Content-Range or Content-Length first, then the length, then the crc.
Flaw(st, out) ==
    IF st.range /\ out.resp # "Partial" THEN "UnsupportedRange"
    ELSE IF ~st.range /\ out.resp = "Other" THEN "Network"
    ELSE IF out.gate THEN "SizeMismatch"
    ELSE IF ~out.complete THEN "Network"
    ELSE IF ~out.crcOk THEN "CrcMismatch" ELSE "Ok"

\* A range response that is merely short counts as a dropped connection.
HttpVerdict(st, out) ==
    LET e == Flaw(st, out) IN
    CASE e = "Ok"                                -> Verdict("done", e)
      [] st.range /\ e = "Network"               -> NetRetry(st, e)
      [] st.range /\ e \notin {"Ok", "Network"} -> Verdict("fallback", e)
      [] OTHER -> Retry(st, "restart", Verdict("fail", e))

Transition(st, out) ==
    CASE out.kind = "Canceled"  -> Verdict("fail", "Canceled")
      [] out.kind = "SinkError" -> Verdict("fail", "Network")
      [] out.kind = "GateFail"  ->
            IF st.range /\ ~st.fallback THEN Verdict("fallback", out.err)
            ELSE Retry(st, "restart", Verdict("fail", out.err))
      [] out.kind = "NetErr"    -> NetRetry(st, out.err)
      [] OTHER                  -> HttpVerdict(st, out)

-----------------------------------------------------------------------------
(***************************************************************************)
(* run_task.                                                               *)
(***************************************************************************)
Goto(l) == pc' = l

\* sink.abort, which may fail to empty the file, and the first half of terminal.
GiveUp(e) ==
    /\ sink' = "Aborted" /\ file' \in {Blank, file} /\ err' = e
    /\ Goto("end")

Take ==
    /\ pc = "queued"
    /\ state' = "Running" /\ Goto("begin")
    /\ UNCHANGED <<job, err, cancel, bytes, sink, file, off, clean, run, conn, attempts>>

\* The sink may be gone, and prepare may fail.
Begin ==
    /\ pc = "begin"
    /\ bytes' = 0
    /\ \/ sink' = "Open" /\ err' = "Ok" /\ UNCHANGED file
          /\ Goto(IF job.size = 0 THEN "empty" ELSE "loop")
       \/ sink' = sink /\ err' = "Network" /\ UNCHANGED file /\ Goto("end")
       \/ GiveUp("Network")
    /\ UNCHANGED <<job, state, cancel, off, clean, run, conn, attempts>>

\* An empty file is not downloaded; finish may fail.
Empty ==
    /\ pc = "empty"
    /\ \/ job.sound /\ sink' = "Finished" /\ UNCHANGED <<err, file>> /\ Goto("end")
       \/ GiveUp("CrcMismatch")
    /\ UNCHANGED <<job, state, cancel, bytes, off, clean, run, conn, attempts>>

\* The flag is looked at before every attempt.
Connect ==
    /\ pc = "loop" /\ ~cancel
    /\ \E r \in {"None", "Partial", "Success", "Other"} : conn' = [NoConn EXCEPT !.resp = r]
    /\ attempts' = attempts + 1
    /\ Goto("perform")
    /\ UNCHANGED <<job, shared, file, off, clean, run>>

\* Mutant: a backoff that was canceled is not left.
GiveUpCanceledLate ==
    /\ pc = "loop" /\ cancel
    /\ GiveUp("Canceled")
    /\ UNCHANGED <<job, state, cancel, bytes, off, clean, run, conn, attempts>>

\* Nor is a backoff waited out once the flag is set.
GiveUpCanceled ==
    /\ pc \in {"loop", "resume", "restart"} /\ cancel
    /\ GiveUp("Canceled")
    /\ UNCHANGED <<job, state, cancel, bytes, off, clean, run, conn, attempts>>

Receiving == pc = "perform" /\ conn.resp # "None" /\ conn.bad = "No" /\ ~conn.io /\ ~cancel

\* The next chunk does not fit.
Overruns == off + 1 > job.size

\* write_cb finds the source wanting; nothing is stored.
Reject ==
    /\ Receiving
    /\ IF run.range /\ conn.resp # "Partial"
       THEN conn' = [conn EXCEPT !.bad = "UnsupportedRange"]
       ELSE Overruns /\ conn' = [conn EXCEPT !.bad = "SizeMismatch"]
    /\ UNCHANGED <<job, shared, file, pc, off, clean, run, attempts>>

\* write_cb stores a chunk, right or wrong, or fails to.
Receive ==
    /\ Receiving /\ (run.range => conn.resp = "Partial") /\ ~Overruns
    /\ \E v \in {"good", "bad"} :
          /\ file' = [file EXCEPT ![off] = v]
          /\ \/ /\ off' = off + 1 /\ bytes' = bytes + 1
                /\ clean' = (clean /\ v = "good")
                /\ UNCHANGED conn
             \/ /\ v = "bad" /\ conn' = [conn EXCEPT !.io = TRUE]
                /\ UNCHANGED <<off, bytes, clean>>
    /\ UNCHANGED <<job, state, err, cancel, sink, pc, run, attempts>>

\* What perform_attempt makes of an attempt, the flag before everything else.
Outcomes ==
    IF cancel THEN {[kind |-> "Canceled"]}
    ELSE IF conn.io THEN {[kind |-> "SinkError"]}
    ELSE IF conn.bad # "No" THEN {[kind |-> "GateFail", err |-> conn.bad]}
    ELSE [kind : {"NetErr"}, err : {"Network", "Timeout"}] \cup
         (IF conn.resp = "None" THEN {}
          ELSE [kind : {"HttpOk"}, resp : {conn.resp}, gate : BOOLEAN,
                complete : {off = job.size}, crcOk : {clean /\ job.sound}])

\* Mutant: the offset survives a restart.
RewindCrcOnly ==
    /\ file' \in {Blank, file}
    /\ clean' = TRUE /\ bytes' = 0 /\ UNCHANGED off

\* sink.reset, which may fail, or do nothing by design, without harm.
Rewind ==
    /\ file' \in {Blank, file}
    /\ off' = 0 /\ clean' = TRUE /\ bytes' = 0

\* The full source from now on.
Switch(st) == [st EXCEPT !.fallback = TRUE, !.range = FALSE]

\* Decision::Fallback.
Fallback(e) ==
    /\ run' = Switch(run)
    /\ IF job.full
       THEN Rewind /\ Goto("loop") /\ UNCHANGED <<err, sink>>
       ELSE GiveUp(e) /\ UNCHANGED <<off, clean, bytes>>
    /\ UNCHANGED state

\* Decision::Resume and RestartFromZero: off and the crc stay, for the moment.
BackOff(how) ==
    /\ run' = [run EXCEPT !.retries = @ + 1]
    /\ Goto(how)
    /\ UNCHANGED <<state, err, sink, file, off, clean, bytes>>

PerformEnds ==
    /\ pc = "perform"
    /\ \E out \in Outcomes : LET v == Transition(run, out) IN
          \/ /\ v.do = "done"
             /\ state' = "Verifying" /\ Goto("finish")
             /\ UNCHANGED <<err, sink, file, off, clean, bytes, run>>
          \/ v.do \in {"resume", "restart"} /\ BackOff(v.do)
          \/ v.do = "fallback" /\ Fallback(v.err)
          \/ v.do = "fail" /\ GiveUp(v.err) /\ UNCHANGED <<state, off, clean, bytes, run>>
    /\ conn' = NoConn
    /\ UNCHANGED <<job, cancel, attempts>>

\* Mutant: a restart forgets to start over.
BackoffEndsOnly ==
    /\ pc \in {"resume", "restart"} /\ ~cancel
    /\ UNCHANGED <<file, off, clean, bytes>>
    /\ Goto("loop")
    /\ UNCHANGED <<job, state, err, cancel, sink, run, conn, attempts>>

\* backoff_wait has passed; a restart starts over when anything was received.
BackoffEnds ==
    /\ pc \in {"resume", "restart"} /\ ~cancel
    /\ IF pc = "restart" /\ off > 0 THEN Rewind ELSE UNCHANGED <<file, off, clean, bytes>>
    /\ Goto("loop")
    /\ UNCHANGED <<job, state, err, cancel, sink, run, conn, attempts>>

\* Mutant: the task fails and leaves its sink open.
FinishLeaves ==
    /\ pc = "finish"
    /\ \/ sink' = "Finished" /\ UNCHANGED <<err, file>>
       \/ err' = "Network" /\ UNCHANGED <<sink, file>>
    /\ Goto("end")
    /\ UNCHANGED <<job, state, cancel, bytes, off, clean, run, conn, attempts>>

\* sink.finish.
Finish ==
    /\ pc = "finish"
    /\ \/ sink' = "Finished" /\ UNCHANGED <<err, file>> /\ Goto("end")
       \/ GiveUp("Network")
    /\ UNCHANGED <<job, state, cancel, bytes, off, clean, run, conn, attempts>>

\* The second half of terminal: the state, after the error.
End ==
    /\ pc = "end"
    /\ state' = IF sink = "Finished" THEN "Done"
                ELSE IF err = "Canceled" THEN "Canceled" ELSE "Failed"
    /\ Goto("over")
    /\ UNCHANGED <<job, err, cancel, bytes, sink, file, off, clean, run, conn, attempts>>

\* dlmgr_cancel or cancel_all finds the task running.
Cancel ==
    /\ ~cancel /\ cancel' = TRUE
    /\ UNCHANGED <<job, state, err, bytes, sink, file, pc, off, clean, run, conn, attempts>>

Work ==
    \/ Take \/ Begin \/ Empty \/ Connect \/ GiveUpCanceled \/ Reject \/ Receive
    \/ PerformEnds \/ BackoffEnds \/ Finish \/ End

Next == Work \/ Cancel

Spec     == Init /\ [][Next]_vars
FairSpec == Spec /\ WF_vars(Work)

-----------------------------------------------------------------------------
(***************************************************************************)
(* Properties.                                                             *)
(***************************************************************************)

\* Wherever its chunks came from, over whatever resumptions, fallbacks and failed
\* resets of the sink, a task is Done only with a sink that holds the right file,
\* every chunk of it, and with its progress at the end (worker.rs, run_task).
DoneIntact ==
    state = "Done" =>
        /\ sink = "Finished" /\ job.sound /\ bytes = job.size
        /\ \A i \in Chunks : file[i] = "good"

\* The crc carried over attempts is the crc of what the sink holds below the
\* offset, and progress is that offset.
CrcTellsFile ==
    pc \in {"loop", "perform", "resume", "restart", "finish"} =>
        /\ bytes = off
        /\ clean <=> \A i \in 0 .. off - 1 : file[i] = "good"

\* A request to the full source has no Range header, so nothing may be kept from
\* before it (worker.rs:366, HeaderList::build).
FullFromZero == pc = "loop" /\ ~run.range => off = 0

\* The retries are one budget for both sources and the fallback happens once: no
\* task makes more attempts than that (worker.rs transition, net_retry).
AttemptsBounded == attempts <= RetryCount + 2

\* What others may see of the task at each place, and what the worker has then.
AtPlaces ==
    /\ pc = "queued" => Life!Init
    /\ pc \in {"begin", "empty", "loop", "perform", "resume", "restart"} =>
          state = "Running" /\ err = "Ok"
    /\ pc \in {"queued", "begin"} =>
          /\ sink = "Closed" /\ off = 0 /\ clean /\ bytes = 0
          /\ run = [range |-> TRUE, fallback |-> FALSE, retries |-> 0]
    /\ pc \in {"empty", "loop", "perform", "resume", "restart", "finish"} => sink = "Open"
    /\ pc = "empty" => job.size = 0 /\ bytes = 0
    /\ pc = "resume" => run.range
    /\ pc = "finish" =>
          state = "Verifying" /\ err = "Ok" /\ off = job.size /\ clean /\ job.sound
    /\ pc = "end" =>
          /\ state \in {"Running", "Verifying"} /\ sink # "Open"
          /\ sink = "Finished" <=> err = "Ok"
    /\ pc = "over" <=> state \in Life!Ended

\* Only what is complete is finished.
FinishedIntact ==
    sink = "Finished" =>
        job.sound /\ bytes = job.size /\ \A i \in Chunks : file[i] = "good"

\* How many attempts were made at each place.
Spent ==
    LET switched == IF run.fallback THEN 1 ELSE 0 IN
    /\ run.range => ~run.fallback
    /\ pc \in {"queued", "begin", "empty"} => attempts = 0
    /\ pc \in {"loop", "resume", "restart"} => attempts <= run.retries + switched
    /\ attempts <= run.retries + switched + 1

\* The inductive invariant of the proofs.
TaskInv ==
    /\ TypeOK /\ AtPlaces
    /\ CrcTellsFile /\ FinishedIntact /\ FullFromZero /\ Spent /\ Life!EndTells

\* Others see no more of a task than the life they may rely on.
ImplementsLife == Life!Spec

\* Every task that is taken ends (under FairSpec).
EndsInTime == <>(pc = "over")
=============================================================================
