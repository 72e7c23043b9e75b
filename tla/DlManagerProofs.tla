-------------------------- MODULE DlManagerProofs --------------------------
(***************************************************************************)
(* Theorems about DlManager, for any numbers of hosts, workers, tasks and  *)
(* overlapping calls, any priorities and any set of tasks that may fail.   *)
(***************************************************************************)
EXTENDS DlManager, TLAPS

-----------------------------------------------------------------------------
(***************************************************************************)
(* What a step leaves as it is.                                            *)
(***************************************************************************)

\* A call goes to its next place.
LEMMA CallMoves ==
    ASSUME TypeOK, NEW h \in Hosts, NEW r \in HostStates, Becomes(h, r)
    PROVE  /\ host' \in [Hosts -> HostStates] /\ host'[h] = r
           /\ \A g \in Hosts \ {h} : host'[g] = host[g]
BY DEF TypeOK, Becomes

\* No task comes, and none changes.
SameTasks == UNCHANGED <<accepted, state, err, sink>>

\* Every task stays in the queue, with its call or with its worker, and a call that is
\* between error and state stays there.
SamePlaces ==
    /\ Queued' = Queued
    /\ \A w \in Workers, t \in Tasks : Runs(w, t)' <=> Runs(w, t)
    /\ \A h \in Hosts :
          /\ host'[h].todo = host[h].todo
          /\ host[h].todo # {} => /\ host'[h].at = "state" <=> host[h].at = "state"
                                  /\ host'[h].id = host[h].id

\* Places that stay still fit lives that stay.
LEMMA LifeFrame ==
    ASSUME TypeOK, LifeInv, SameTasks, SamePlaces
    PROVE  LifeInv'
<1>1. QueuedFresh'
  BY DEF LifeInv, QueuedFresh, SameTasks, SamePlaces
<1>2. MarkedLive'
  <2> SUFFICES ASSUME NEW h \in Hosts, NEW t \in host[h].todo
               PROVE  /\ state[t] = "Pending" /\ sink[t] = "Closed"
                      /\ err[t] = IF host'[h].at = "state" /\ host'[h].id = t
                                  THEN "Canceled" ELSE "Ok"
    BY DEF MarkedLive, SameTasks, SamePlaces
  <2> QED BY DEF LifeInv, MarkedLive, SamePlaces
<1>3. RunLive'
  BY DEF LifeInv, RunLive, SameTasks, SamePlaces
<1>4. NoneLost'
  <2>1. 1 .. accepted \subseteq Tasks
    BY ManagerAssumption DEF TypeOK, Tasks
  <2> QED BY <2>1 DEF LifeInv, NoneLost, SameTasks, SamePlaces
<1>5. EndsTell'
  BY DEF LifeInv, EndsTell, SameTasks, Life!EndTells, Life!Ended
<1> QED BY <1>1, <1>2, <1>3, <1>4, <1>5 DEF LifeInv

\* The same places are as good after the step.
LEMMA HoldFrame ==
    ASSUME HoldInv, UNCHANGED heap, live \subseteq live', SamePlaces
    PROVE  HoldInv'
BY DEF HoldInv, SamePlaces, Queued

\* What the reporter knows and has told stays true of them.
LEMMA ReportFrame ==
    ASSUME RoundInv, TellInv, SameTasks, UNCHANGED <<live, tick, told>>
    PROVE  RoundInv' /\ TellInv'
BY DEF RoundInv, TellInv, SameTasks

\* After a step, too, the end of a task is told once if the rest holds.
LEMMA ToldOnceFollows ==
    ASSUME LifeInv', TellInv'
    PROVE  ToldOnce'
<1> SUFFICES ASSUME NEW t \in Tasks, (told[t].times > 0)'
             PROVE  (/\ told[t].times = 1 /\ told[t].state = state[t] /\ told[t].err = err[t]
                     /\ t \notin Queued /\ \A w \in Workers : ~Runs(w, t))'
  BY DEF ToldOnce
<1>1. (state[t] \in Ended /\ told[t].times = 1 /\ told[t].state = state[t] /\ told[t].err = err[t])'
  BY DEF TellInv
<1> QED BY <1>1 DEF LifeInv, QueuedFresh, RunLive, Ended, Active

\* The ids in the queue.
LEMMA QueuedIds ==
    ASSUME TypeOK
    PROVE  /\ Queued \subseteq live /\ live \subseteq 1 .. accepted /\ 1 .. accepted \subseteq Tasks
           /\ \A t \in live : ~(t > accepted)
<1>1. Queued \subseteq live /\ live \subseteq 1 .. accepted /\ accepted \in 0 .. MaxTasks
  BY DEF TypeOK, Queued
<1>2. 1 .. accepted \subseteq Tasks /\ \A t \in 1 .. accepted : ~(t > accepted)
  BY <1>1, ManagerAssumption DEF Tasks
<1> QED BY <1>1, <1>2

LEMMA QueuedMore ==
    ASSUME NEW t, NEW p, heap' = heap \cup {[id |-> t, prio |-> p]}
    PROVE  Queued' = Queued \cup {t}
<1> DEFINE q == [id |-> t, prio |-> p]
<1>1. q.id = t
  OBVIOUS
<1> HIDE DEF q
<1>2. heap' = heap \cup {q}
  BY DEF q
<1> QED BY <1>1, <1>2 DEF Queued

-----------------------------------------------------------------------------
(***************************************************************************)
(* The host's calls.                                                       *)
(***************************************************************************)
\* A call that goes on without touching a task.
LEMMA MoveFrame ==
    ASSUME ManagerInv, NEW h \in Hosts, NEW r \in HostStates, Becomes(h, r),
           r.todo = host[h].todo,
           r.todo = {} \/ (r.id = host[h].id /\ r.at # "state" /\ host[h].at # "state"),
           UNCHANGED <<accepted, heap, live, state, err, sink, tick, told>>,
           \A w \in Workers, t \in Tasks : Runs(w, t)' <=> Runs(w, t)
    PROVE  HoldInv' /\ LifeInv' /\ RoundInv' /\ TellInv'
<1>1. SamePlaces
  BY CallMoves DEF ManagerInv, SamePlaces, Queued
<1>2. SameTasks
  BY DEF SameTasks
<1> QED BY <1>1, <1>2, LifeFrame, HoldFrame, ReportFrame DEF ManagerInv

\* A task comes, into the queue.
LEMMA EnqueueKeeps ==
    ASSUME ManagerInv, NEW h \in Hosts, NEW p \in Prios, Enqueue(h, p)
    PROVE  ManagerInv'
<1> DEFINE t == accepted + 1
           q == [id |-> t, prio |-> p]
           r == [InNoCall EXCEPT !.at = "notify"]
<1>1. /\ t \in Tasks /\ accepted' = t /\ live' = live \cup {t} /\ heap' = heap \cup {q}
      /\ UNCHANGED <<paused, shutdown, lives, worker, report, calm>>
  BY ManagerAssumption DEF Enqueue, ManagerInv, TypeOK, Tasks
<1>2. r \in HostStates /\ Becomes(h, r) /\ r.todo = {} /\ r.call = "none" /\ r.at = "notify"
  BY DEF Enqueue, Wakes, InNoCall, HostStates
<1>3. host[h].at = "idle" /\ host[h].todo = {} /\ ~shutdown
  BY DEF Enqueue, Idle, ManagerInv, HostInv
<1>4. /\ host' \in [Hosts -> HostStates] /\ host'[h] = r
      /\ \A g \in Hosts \ {h} : host'[g] = host[g]
  BY <1>2, CallMoves DEF ManagerInv
<1>5. /\ t \notin live /\ t \notin Queued /\ \A g \in Hosts : t \notin host[g].todo
      /\ \A w \in Workers : ~Runs(w, t)
  BY <1>1, QueuedIds DEF ManagerInv, TypeOK, HoldInv
<1>6. state[t] = "Pending" /\ err[t] = "Ok" /\ sink[t] = "Closed"
  BY <1>1 DEF ManagerInv, TypeOK, LifeInv, QueuedFresh
<1>7. Queued' = Queued \cup {t}
  BY <1>1, QueuedMore
<1> HIDE DEF r
<1>8. TypeOK'
  BY <1>1, <1>4 DEF ManagerInv, TypeOK, lives, report, Tasks
<1>9. HoldInv'
  BY <1>1, <1>2, <1>3, <1>4, <1>5, <1>7 DEF ManagerInv, HoldInv, Runs, Queued
<1>10. HostInv'
  BY <1>2, <1>4 DEF ManagerInv, HostInv
<1>11. LifeInv'
  <2>1. QueuedFresh'
    BY <1>1, <1>6, <1>7 DEF ManagerInv, TypeOK, LifeInv, QueuedFresh, lives, Tasks
  <2>2. MarkedLive'
    BY <1>1, <1>2, <1>4 DEF ManagerInv, LifeInv, MarkedLive, lives
  <2>3. RunLive'
    BY <1>1 DEF ManagerInv, LifeInv, RunLive, Runs, lives
  <2>4. NoneLost'
    <3>0. accepted \in Nat /\ accepted' = accepted + 1
      BY <1>1 DEF ManagerInv, TypeOK
    <3>1. \A s \in 1 .. accepted' : s \in 1 .. accepted \/ s = t
      BY <3>0
    <3>2. \A s \in Tasks, w \in Workers : Runs(w, s)' <=> Runs(w, s)
      BY <1>1 DEF Runs
    <3>3. \A g \in Hosts : host[g].todo \subseteq host'[g].todo
      BY <1>3, <1>4
    <3> QED BY <1>1, <1>7, <3>1, <3>2, <3>3, QueuedIds DEF ManagerInv, LifeInv, NoneLost, lives
  <2>5. EndsTell'
    BY <1>1 DEF ManagerInv, LifeInv, EndsTell, Life!EndTells, Life!Ended, lives
  <2> QED BY <2>1, <2>2, <2>3, <2>4, <2>5 DEF LifeInv
<1>12. RoundInv' /\ TellInv'
  BY <1>1, <1>5 DEF ManagerInv, TypeOK, RoundInv, TellInv, lives, report, Tasks
<1>13. CallInv'
  BY <1>1, <1>2, <1>3, <1>4 DEF ManagerInv, CallInv, Over, report
<1>14. LastInv'
  BY <1>1, <1>2, <1>3, <1>4 DEF ManagerInv, CallInv, LastInv, Over, report
<1>15. CalmInv'
  BY <1>1 DEF ManagerInv, CalmInv, Runs
<1> QED BY <1>8, <1>9, <1>10, <1>11, <1>12, <1>13, <1>14, <1>15, ToldOnceFollows DEF ManagerInv

\* A call takes a task from the queue,
LEMMA CancelKeeps ==
    ASSUME ManagerInv, NEW h \in Hosts, NEW c \in Tasks, Cancel(h, c)
    PROVE  ManagerInv'
<1> DEFINE r == [call |-> "cancel", at |-> "find", id |-> c, todo |-> Queued \cap {c}]
<1>1. /\ heap' = {q \in heap : q.id # c}
      /\ UNCHANGED <<accepted, paused, shutdown, live, lives, worker, report, calm>>
  BY DEF Cancel
<1>2. /\ r \in HostStates /\ Becomes(h, r) /\ r.todo = Queued \cap {c}
      /\ r.call = "cancel" /\ r.at = "find" /\ r.id = c
  BY DEF Cancel, HostStates
<1>3. host[h].at = "idle" /\ host[h].todo = {} /\ ~shutdown
  BY DEF Cancel, Idle, ManagerInv, HostInv
<1>4. /\ host' \in [Hosts -> HostStates] /\ host'[h] = r
      /\ \A g \in Hosts \ {h} : host'[g] = host[g]
  BY <1>2, CallMoves DEF ManagerInv
<1>5. Queued' = Queued \ {c} /\ heap' \subseteq heap
  BY <1>1 DEF Queued
<1>6. \A w \in Workers, s \in Tasks : Runs(w, s)' <=> Runs(w, s)
  BY <1>1 DEF Runs
<1> HIDE DEF r
<1>8. TypeOK'
  BY <1>1, <1>4, <1>5 DEF ManagerInv, TypeOK, lives, report, Tasks
<1>9. HoldInv'
  <2>1. \A g \in Hosts : host'[g].todo \subseteq live' \ Queued'
    BY <1>1, <1>2, <1>4, <1>5, QueuedIds DEF ManagerInv, HoldInv
  <2>2. \A g, k \in Hosts : g # k => host'[g].todo \cap host'[k].todo = {}
    BY <1>2, <1>4 DEF ManagerInv, HoldInv
  <2>3. \A w \in Workers, s \in Tasks : Runs(w, s) =>
          s \in live' \ Queued' /\ \A g \in Hosts : s \notin host'[g].todo
    BY <1>1, <1>2, <1>4, <1>5 DEF ManagerInv, HoldInv
  <2> QED BY <1>5, <1>6, <2>1, <2>2, <2>3 DEF ManagerInv, HoldInv
<1>10. HostInv'
  BY <1>2, <1>4 DEF ManagerInv, HostInv
<1>11. LifeInv'
  <2>1. QueuedFresh'
    BY <1>1, <1>5 DEF ManagerInv, LifeInv, QueuedFresh, lives
  <2>2. MarkedLive'
    BY <1>1, <1>2, <1>4, QueuedIds DEF ManagerInv, LifeInv, MarkedLive, QueuedFresh, lives
  <2>3. RunLive'
    BY <1>1, <1>6 DEF ManagerInv, LifeInv, RunLive, lives
  <2>4. NoneLost'
    BY <1>1, <1>2, <1>3, <1>4, <1>5, <1>6, QueuedIds DEF ManagerInv, LifeInv, NoneLost, lives
  <2>5. EndsTell'
    BY <1>1 DEF ManagerInv, LifeInv, EndsTell, Life!EndTells, Life!Ended, lives
  <2> QED BY <2>1, <2>2, <2>3, <2>4, <2>5 DEF LifeInv
<1>12. RoundInv' /\ TellInv'
  BY <1>1, ReportFrame DEF ManagerInv, SameTasks, lives, report
<1>13. CallInv'
  BY <1>1, <1>2, <1>3, <1>4 DEF ManagerInv, CallInv, Over, report
<1>14. LastInv'
  BY <1>1, <1>2, <1>3, <1>4 DEF ManagerInv, CallInv, LastInv, Over, report
<1>15. CalmInv'
  BY <1>1 DEF ManagerInv, CalmInv, Runs
<1> QED BY <1>8, <1>9, <1>10, <1>11, <1>12, <1>13, <1>14, <1>15, ToldOnceFollows DEF ManagerInv

\* or all of them.
LEMMA DrainKeeps ==
    ASSUME ManagerInv, NEW h \in Hosts, NEW c \in {"cancel_all", "shutdown"}, Drains(h, c),
           \/ c = "cancel_all" /\ Idle(h)
           \/ c = "shutdown" /\ host[h].at = "drain"
    PROVE  ManagerInv'
<1> DEFINE r == [call |-> c, at |-> IF heap = {} THEN "flag" ELSE "mark", id |-> 0, todo |-> Queued]
<1>1. /\ heap' = {}
      /\ UNCHANGED <<accepted, paused, shutdown, live, lives, worker, report, calm>>
  BY DEF Drains
<1>2. /\ r \in HostStates /\ Becomes(h, r) /\ r.todo = Queued
      /\ r.call = c /\ r.at = (IF heap = {} THEN "flag" ELSE "mark") /\ r.id = 0
  BY QueuedIds DEF Drains, HostStates, ManagerInv
<1>3. host[h].at \in {"idle", "drain"} /\ host[h].todo = {}
  BY DEF Idle, ManagerInv, HostInv
<1>a. /\ c = "cancel_all" => ~shutdown /\ host[h].at = "idle"
      /\ c = "shutdown" => host[h].call = "shutdown"
  BY DEF Idle, ManagerInv, CallInv
<1>4. /\ host' \in [Hosts -> HostStates] /\ host'[h] = r
      /\ \A g \in Hosts \ {h} : host'[g] = host[g]
  BY <1>2, CallMoves DEF ManagerInv
<1>5. Queued' = {} /\ (heap = {} => Queued = {})
  BY <1>1 DEF Queued
<1>6. \A w \in Workers, s \in Tasks : Runs(w, s)' <=> Runs(w, s)
  BY <1>1 DEF Runs
<1> HIDE DEF r
<1>8. TypeOK'
  BY <1>1, <1>4 DEF ManagerInv, TypeOK, lives, report, Tasks
<1>9. HoldInv'
  <2>1. \A g \in Hosts : host'[g].todo \subseteq live' \ Queued'
    BY <1>1, <1>2, <1>4, <1>5, QueuedIds DEF ManagerInv, HoldInv
  <2>2. \A g, k \in Hosts : g # k => host'[g].todo \cap host'[k].todo = {}
    BY <1>2, <1>4 DEF ManagerInv, HoldInv
  <2>3. \A w \in Workers, s \in Tasks : Runs(w, s) =>
          s \in live' \ Queued' /\ \A g \in Hosts : s \notin host'[g].todo
    BY <1>1, <1>2, <1>4, <1>5 DEF ManagerInv, HoldInv
  <2> QED BY <1>1, <1>6, <2>1, <2>2, <2>3 DEF ManagerInv, HoldInv
<1>10. HostInv'
  BY <1>2, <1>4, <1>5 DEF ManagerInv, HostInv
<1>11. LifeInv'
  <2>1. QueuedFresh'
    BY <1>1, <1>5 DEF ManagerInv, LifeInv, QueuedFresh, lives
  <2>2. MarkedLive'
    BY <1>1, <1>2, <1>4, QueuedIds DEF ManagerInv, LifeInv, MarkedLive, QueuedFresh, lives
  <2>3. RunLive'
    BY <1>1, <1>6 DEF ManagerInv, LifeInv, RunLive, lives
  <2>4. NoneLost'
    BY <1>1, <1>2, <1>3, <1>4, <1>5, <1>6, QueuedIds DEF ManagerInv, LifeInv, NoneLost, lives
  <2>5. EndsTell'
    BY <1>1 DEF ManagerInv, LifeInv, EndsTell, Life!EndTells, Life!Ended, lives
  <2> QED BY <2>1, <2>2, <2>3, <2>4, <2>5 DEF LifeInv
<1>12. RoundInv' /\ TellInv'
  BY <1>1, ReportFrame DEF ManagerInv, SameTasks, lives, report
<1>13. CallInv'
  BY <1>1, <1>2, <1>3, <1>a, <1>4 DEF ManagerInv, CallInv, Over, report
<1>14. LastInv'
  BY <1>1, <1>2, <1>3, <1>4 DEF ManagerInv, CallInv, LastInv, Over, report
<1>15. CalmInv'
  BY <1>1 DEF ManagerInv, CalmInv, Runs
<1> QED BY <1>8, <1>9, <1>10, <1>11, <1>12, <1>13, <1>14, <1>15, ToldOnceFollows DEF ManagerInv

\* Calls that are one step.
LEMMA SetPriorityKeeps ==
    ASSUME ManagerInv, NEW h \in Hosts, NEW c \in Tasks, NEW p \in Prios, SetPriority(h, c, p)
    PROVE  ManagerInv'
<1> DEFINE M(x) == IF x.id = c THEN [x EXCEPT !.prio = p] ELSE x
<1>1. /\ UNCHANGED <<accepted, paused, shutdown, live, lives, worker, host, report, calm>>
      /\ heap' = {M(x) : x \in heap}
  BY DEF SetPriority
<1>2. \A x \in heap : M(x).id = x.id /\ M(x) \in [id : live, prio : Prios]
  BY DEF ManagerInv, TypeOK
<1> HIDE DEF M
<1>3. /\ \A q \in heap' : \E x \in heap : q = M(x) /\ q.id = x.id /\ q \in [id : live, prio : Prios]
      /\ \A x \in heap : \E q \in heap' : q.id = x.id
  BY <1>1, <1>2
<1>4. Queued' = Queued
  BY <1>3 DEF Queued
<1>5. SamePlaces /\ SameTasks
  BY <1>1, <1>4 DEF SamePlaces, SameTasks, Runs, lives
<1>6. TypeOK'
  BY <1>1, <1>3 DEF ManagerInv, TypeOK, lives, report
<1>7. HoldInv'
  <2>1. \A q, x \in heap' : q.id = x.id => q = x
    BY <1>3 DEF ManagerInv, HoldInv
  <2> QED BY <1>1, <1>4, <1>5, <2>1 DEF ManagerInv, HoldInv, SamePlaces
<1>8. HostInv' /\ LastInv' /\ CalmInv'
  BY <1>1 DEF ManagerInv, HostInv, LastInv, CalmInv, Over, Runs, report
<1>9. CallInv'
  BY <1>1, <1>3 DEF ManagerInv, CallInv, Over, report
<1>10. LifeInv' /\ RoundInv' /\ TellInv'
  BY <1>1, <1>5, LifeFrame, ReportFrame DEF ManagerInv, report
<1> QED BY <1>6, <1>7, <1>8, <1>9, <1>10, ToldOnceFollows DEF ManagerInv

LEMMA PauseKeeps ==
    ASSUME ManagerInv, NEW h \in Hosts, Pause(h) \/ ActiveCountZero(h)
    PROVE  ManagerInv'
<1>1. /\ UNCHANGED <<accepted, heap, shutdown, live, lives, worker, host, report>>
      /\ \/ paused' = TRUE /\ calm' = calm
         \/ /\ paused /\ paused' = paused /\ calm' = TRUE
            /\ \A t \in live : state[t] \notin Active
  BY DEF Pause, ActiveCountZero, queue
<1>2. SamePlaces /\ SameTasks
  BY <1>1 DEF SamePlaces, SameTasks, Runs, Queued, lives
<1>3. TypeOK' /\ HostInv' /\ CallInv' /\ LastInv'
  BY <1>1 DEF ManagerInv, TypeOK, HostInv, CallInv, LastInv, Over, lives, report
<1>4. CalmInv'
  BY <1>1 DEF ManagerInv, CalmInv, HoldInv, LifeInv, RunLive, Runs
<1>5. HoldInv' /\ LifeInv' /\ RoundInv' /\ TellInv'
  BY <1>1, <1>2, HoldFrame, LifeFrame, ReportFrame DEF ManagerInv, report
<1> QED BY <1>3, <1>4, <1>5, ToldOnceFollows DEF ManagerInv

\* Calls that begin, or go on, without touching a task.
LEMMA ResumeKeeps ==
    ASSUME ManagerInv, NEW h \in Hosts, Resume(h)
    PROVE  ManagerInv'
<1> DEFINE r == [InNoCall EXCEPT !.at = "notify"]
<1>1. /\ r \in HostStates /\ Becomes(h, r)
      /\ r.todo = {} /\ r.call = "none" /\ r.at = "notify"
      /\ paused' = FALSE /\ calm' = FALSE
      /\ UNCHANGED <<accepted, heap, shutdown, live, lives, worker, report>>
  BY DEF Resume, Wakes, InNoCall, HostStates
<1>2. host[h].at = "idle" /\ host[h].todo = {} /\ ~shutdown
  BY DEF Resume, Idle, ManagerInv, HostInv
<1> HIDE DEF r
<1>3. /\ host' \in [Hosts -> HostStates] /\ host'[h] = r
      /\ \A g \in Hosts \ {h} : host'[g] = host[g]
  BY <1>1, CallMoves DEF ManagerInv
<1>4. HoldInv' /\ LifeInv' /\ RoundInv' /\ TellInv'
  BY <1>1, <1>2, MoveFrame DEF lives, report, Runs
<1>5. TypeOK'
  BY <1>1, <1>3 DEF ManagerInv, TypeOK, lives, report
<1>6. HostInv' /\ CallInv' /\ LastInv' /\ CalmInv'
  BY <1>1, <1>2, <1>3 DEF ManagerInv, HostInv, CallInv, LastInv, CalmInv, Over, report
<1> QED BY <1>4, <1>5, <1>6, ToldOnceFollows DEF ManagerInv

LEMMA ShutdownKeeps ==
    ASSUME ManagerInv, NEW h \in Hosts, Shutdown(h)
    PROVE  ManagerInv'
<1> DEFINE r == [InNoCall EXCEPT !.call = "shutdown", !.at = "drain"]
<1>1. /\ r \in HostStates /\ Becomes(h, r)
      /\ r.todo = {} /\ r.call = "shutdown" /\ r.at = "drain"
      /\ shutdown' = TRUE /\ paused' = FALSE /\ calm' = FALSE
      /\ UNCHANGED <<accepted, heap, live, lives, worker, report>>
  BY DEF Shutdown, InNoCall, HostStates
<1>2. host[h].todo = {} /\ ~shutdown /\ \A g \in Hosts : host[g].at = "idle"
  BY DEF Shutdown, Idle, ManagerInv, HostInv
<1> HIDE DEF r
<1>3. /\ host' \in [Hosts -> HostStates] /\ host'[h] = r
      /\ \A g \in Hosts \ {h} : host'[g] = host[g]
  BY <1>1, CallMoves DEF ManagerInv
<1>4. HoldInv' /\ LifeInv' /\ RoundInv' /\ TellInv'
  BY <1>1, <1>2, MoveFrame DEF lives, report, Runs
<1>5. TypeOK'
  BY <1>1, <1>3 DEF ManagerInv, TypeOK, lives, report
<1>6. HostInv' /\ CallInv' /\ LastInv' /\ CalmInv'
  BY <1>1, <1>2, <1>3 DEF ManagerInv, HostInv, CallInv, LastInv, CalmInv, Over, report
<1> QED BY <1>4, <1>5, <1>6, ToldOnceFollows DEF ManagerInv

LEMMA FindKeeps ==
    ASSUME ManagerInv, NEW h \in Hosts, Find(h)
    PROVE  ManagerInv'
<1>1. PICK r : /\ r \in HostStates /\ Becomes(h, r) /\ r.todo = host[h].todo
               /\ r.at \in {"idle", "mark", "notify"} /\ (r.at # "mark" => r.todo = {})
               /\ r.at = "mark" => r.id = host[h].id
               /\ r.call = "none" \/ (r.call = host[h].call /\ r.at = "mark")
  <2>1. host[h].at = "find" /\ host[h].todo \subseteq {host[h].id} /\ host[h].todo \subseteq live
        /\ host[h] \in HostStates
    BY DEF Find, ManagerInv, TypeOK, HostInv, HoldInv
  <2>2. CASE Becomes(h, InNoCall) /\ host[h].id \notin live
    BY <2>1, <2>2 DEF InNoCall, HostStates
  <2>3. CASE Goes(h, "mark")
    BY <2>1, <2>3 DEF Goes, HostStates
  <2>4. CASE Wakes(h) /\ host[h].id \notin host[h].todo
    BY <2>1, <2>4 DEF Wakes, InNoCall, HostStates
  <2> QED BY <2>2, <2>3, <2>4 DEF Find
<1>2. /\ host[h].at = "find" /\ cancel' \in [Tasks -> BOOLEAN]
      /\ UNCHANGED <<accepted, queue, live, state, err, sink, worker, report, calm>>
  <2>1. cancel \in [Tasks -> BOOLEAN] /\ host[h].id \in Tasks \cup {0}
    BY DEF ManagerInv, TypeOK, HostStates
  <2> QED BY <2>1 DEF Find
<1>3. /\ host' \in [Hosts -> HostStates] /\ host'[h] = r
      /\ \A g \in Hosts \ {h} : host'[g] = host[g]
  BY <1>1, CallMoves DEF ManagerInv
<1>4. HoldInv' /\ LifeInv' /\ RoundInv' /\ TellInv'
  BY <1>1, <1>2, MoveFrame DEF queue, report, Runs
<1>5. TypeOK'
  BY <1>1, <1>2, <1>3 DEF ManagerInv, TypeOK, queue, report
<1>6. HostInv' /\ CalmInv'
  BY <1>1, <1>2, <1>3 DEF ManagerInv, HostInv, CalmInv, queue, Runs
<1>7. CallInv' /\ LastInv'
  BY <1>1, <1>2, <1>3 DEF ManagerInv, CallInv, LastInv, Over, queue, report
<1> QED BY <1>4, <1>5, <1>6, <1>7, ToldOnceFollows DEF ManagerInv

LEMMA FlagKeeps ==
    ASSUME ManagerInv, NEW h \in Hosts, Flag(h)
    PROVE  ManagerInv'
<1>1. PICK r : /\ r \in HostStates /\ Becomes(h, r) /\ r.todo = {} /\ r.at = "notify"
               /\ r.call = "none" \/ (r.call = "shutdown" /\ r.call = host[h].call)
  <2> DEFINE r1 == [InNoCall EXCEPT !.call = "shutdown", !.at = "notify"]
             r2 == [InNoCall EXCEPT !.at = "notify"]
  <2>1. r1 \in HostStates /\ r1.todo = {} /\ r1.at = "notify" /\ r1.call = "shutdown"
    BY DEF InNoCall, HostStates
  <2>2. r2 \in HostStates /\ r2.todo = {} /\ r2.at = "notify" /\ r2.call = "none"
    BY DEF InNoCall, HostStates
  <2>3. (host[h].call = "shutdown" /\ Becomes(h, r1)) \/ Becomes(h, r2)
    BY DEF Flag, Wakes
  <2> HIDE DEF r1, r2
  <2> QED BY <2>1, <2>2, <2>3
<1>2. /\ host[h].at = "flag" /\ host[h].todo = {} /\ cancel' \in [Tasks -> BOOLEAN]
      /\ UNCHANGED <<accepted, queue, live, state, err, sink, worker, report, calm>>
  BY DEF Flag, ManagerInv, TypeOK, HostInv
<1>3. /\ host' \in [Hosts -> HostStates] /\ host'[h] = r
      /\ \A g \in Hosts \ {h} : host'[g] = host[g]
  BY <1>1, CallMoves DEF ManagerInv
<1>4. HoldInv' /\ LifeInv' /\ RoundInv' /\ TellInv'
  BY <1>1, <1>2, MoveFrame DEF queue, report, Runs
<1>5. TypeOK'
  BY <1>1, <1>2, <1>3 DEF ManagerInv, TypeOK, queue, report
<1>6. HostInv' /\ CalmInv'
  BY <1>1, <1>2, <1>3 DEF ManagerInv, HostInv, CalmInv, queue, Runs
<1>7. CallInv' /\ LastInv'
  BY <1>1, <1>2, <1>3 DEF ManagerInv, CallInv, LastInv, Over, queue, report
<1> QED BY <1>4, <1>5, <1>6, <1>7, ToldOnceFollows DEF ManagerInv

LEMMA NotifyKeeps ==
    ASSUME ManagerInv, NEW h \in Hosts, Notify(h)
    PROVE  ManagerInv'
<1>1. PICK r : /\ r \in HostStates /\ Becomes(h, r) /\ r.todo = {} /\ r.at \in {"idle", "join"}
               /\ r.at = "join" => r.call = "shutdown"
               /\ r.call = "none" \/ (r.call = "shutdown" /\ r.call = host[h].call)
  <2>1. host[h] \in HostStates /\ host[h].todo = {}
    BY DEF Notify, ManagerInv, TypeOK, HostInv
  <2> QED BY <2>1 DEF Notify, Goes, InNoCall, HostStates
<1>2. /\ host[h].at = "notify" /\ host[h].todo = {} /\ worker' = Woken
      /\ UNCHANGED <<accepted, queue, live, lives, report, calm>>
  BY DEF Notify, ManagerInv, HostInv
<1>3. /\ host' \in [Hosts -> HostStates] /\ host'[h] = r
      /\ \A g \in Hosts \ {h} : host'[g] = host[g]
  BY <1>1, CallMoves DEF ManagerInv
<1>4. /\ worker' \in [Workers -> [at : {"take", "wait", "run", "exit"}, id : Tasks \cup {0}]]
      /\ \A w \in Workers : /\ worker'[w].at = "run" <=> worker[w].at = "run"
                            /\ worker'[w].id = worker[w].id
                            /\ worker[w].at = "exit" => worker'[w].at = "exit"
  <2>1. \A w \in Workers : worker[w] \in [at : {"take", "wait", "run", "exit"}, id : Tasks \cup {0}]
    BY DEF ManagerInv, TypeOK
  <2> QED BY <1>2, <2>1 DEF Woken
<1>5. \A w \in Workers, t \in Tasks : Runs(w, t)' <=> Runs(w, t)
  BY <1>4 DEF Runs
<1>6. HoldInv' /\ LifeInv' /\ RoundInv' /\ TellInv'
  BY <1>1, <1>2, <1>5, MoveFrame DEF queue, lives, report
<1>7. TypeOK'
  BY <1>1, <1>2, <1>3, <1>4 DEF ManagerInv, TypeOK, queue, lives, report
<1>8. HostInv' /\ CalmInv'
  BY <1>1, <1>2, <1>3, <1>5 DEF ManagerInv, HostInv, CalmInv, queue
<1>9. CallInv' /\ LastInv'
  BY <1>1, <1>2, <1>3, <1>4 DEF ManagerInv, CallInv, LastInv, Over, queue, report
<1> QED BY <1>6, <1>7, <1>8, <1>9, ToldOnceFollows DEF ManagerInv

\* The last two places of a shutdown.
LEMMA JoinKeeps ==
    ASSUME ManagerInv, NEW h \in Hosts, Join(h) \/ Free(h)
    PROVE  ManagerInv'
<1> DEFINE r == [host[h] EXCEPT !.at = IF Join(h) THEN "stopped" ELSE "freed"]
<1>1. /\ host[h].at \in {"join", "stopped"} /\ host[h].todo = {} /\ host[h].call = "shutdown"
      /\ host[h] \in HostStates /\ \A w \in Workers : worker[w].at = "exit"
  BY DEF Join, Free, ManagerInv, TypeOK, HostInv, CallInv, Over
<1>2. /\ r \in HostStates /\ Becomes(h, r) /\ r.todo = {} /\ r.call = "shutdown"
      /\ r.at = "stopped" \/ (r.at = "freed" /\ tick.at = "exit")
  BY <1>1 DEF Join, Free, Goes, HostStates
<1>3. /\ stop' = TRUE \/ (stop' = stop /\ host[h].at = "stopped")
      /\ UNCHANGED <<accepted, queue, live, lives, worker, tick, told, calm>>
  BY DEF Join, Free, report
<1> HIDE DEF r
<1>4. /\ host' \in [Hosts -> HostStates] /\ host'[h] = r
      /\ \A g \in Hosts \ {h} : host'[g] = host[g]
  BY <1>2, CallMoves DEF ManagerInv
<1>5. HoldInv' /\ LifeInv' /\ RoundInv' /\ TellInv'
  BY <1>1, <1>2, <1>3, MoveFrame DEF queue, lives, Runs
<1>6. TypeOK'
  BY <1>2, <1>3, <1>4 DEF ManagerInv, TypeOK, queue, lives
<1>7. HostInv' /\ CalmInv'
  BY <1>2, <1>3, <1>4 DEF ManagerInv, HostInv, CalmInv, queue, Runs
<1>8. CallInv' /\ LastInv'
  <2>1. Over(h)'
    BY <1>2, <1>4 DEF Over
  <2> QED BY <1>1, <1>2, <1>3, <1>4, <2>1 DEF ManagerInv, CallInv, LastInv, Over, queue
<1> QED BY <1>5, <1>6, <1>7, <1>8, ToldOnceFollows DEF ManagerInv

\* Marking a task that a call has taken from the queue.
LEMMA MarkKeeps ==
    ASSUME ManagerInv, NEW h \in Hosts, NEW c \in Tasks, Mark(h, c)
    PROVE  ManagerInv'
<1> DEFINE r == [host[h] EXCEPT !.at = "state", !.id = c]
<1>1. /\ host[h].at = "mark" /\ c \in host[h].todo /\ host[h] \in HostStates
      /\ cancel' = [cancel EXCEPT ![c] = TRUE] /\ err' = [err EXCEPT ![c] = "Canceled"]
      /\ UNCHANGED <<accepted, queue, live, state, sink, worker, report, calm>>
  BY DEF Mark, ManagerInv, TypeOK
<1>2. /\ r \in HostStates /\ Becomes(h, r) /\ r.todo = host[h].todo /\ r.call = host[h].call
      /\ r.at = "state" /\ r.id = c
  BY <1>1 DEF Mark, HostStates
<1> HIDE DEF r
<1>3. /\ host' \in [Hosts -> HostStates] /\ host'[h] = r
      /\ \A g \in Hosts \ {h} : host'[g] = host[g]
  BY <1>2, CallMoves DEF ManagerInv
<1>4. /\ state[c] = "Pending" /\ sink[c] = "Closed" /\ c \in live /\ c \notin Queued
      /\ \A w \in Workers : ~Runs(w, c)
      /\ \A g \in Hosts \ {h} : c \notin host[g].todo
  BY <1>1 DEF ManagerInv, HoldInv, LifeInv, MarkedLive
<1>5. \A g \in Hosts : host'[g].todo = host[g].todo
  BY <1>2, <1>3
<1>6. /\ \A w \in Workers, t \in Tasks : Runs(w, t)' <=> Runs(w, t)
      /\ Queued' = Queued
  BY <1>1 DEF Runs, Queued, queue
<1>7. TypeOK'
  BY <1>1, <1>3 DEF ManagerInv, TypeOK, Errors, queue, report
<1>8. HoldInv'
  BY <1>1, <1>5, <1>6 DEF ManagerInv, HoldInv, queue
<1>9. HostInv'
  BY <1>1, <1>2, <1>3 DEF ManagerInv, HostInv
<1>10. \A t \in Tasks \ {c} : err'[t] = err[t]
  BY <1>1 DEF ManagerInv, TypeOK
<1>11. LifeInv'
  <2>1. QueuedFresh'
    <3>1. ~(c > accepted)
      BY <1>4, QueuedIds DEF ManagerInv
    <3> QED BY <1>1, <1>4, <1>6, <1>10, <3>1 DEF ManagerInv, LifeInv, QueuedFresh
  <2>2. MarkedLive'
    <3>1. \A t \in host[h].todo \ {c} : err[t] = "Ok"
      BY <1>1 DEF ManagerInv, LifeInv, MarkedLive
    <3>2. err'[c] = "Canceled"
      BY <1>1 DEF ManagerInv, TypeOK
    <3> QED BY <1>1, <1>2, <1>3, <1>4, <1>5, <1>10, <3>1, <3>2
        DEF ManagerInv, TypeOK, HostStates, LifeInv, MarkedLive
  <2>3. RunLive'
    BY <1>1, <1>4, <1>6, <1>10 DEF ManagerInv, LifeInv, RunLive
  <2>4. NoneLost'
    BY <1>1, <1>5, <1>6, QueuedIds DEF ManagerInv, LifeInv, NoneLost
  <2>5. EndsTell'
    BY <1>1, <1>4, <1>10 DEF ManagerInv, LifeInv, EndsTell, Life!EndTells, Life!Ended
  <2> QED BY <2>1, <2>2, <2>3, <2>4, <2>5 DEF LifeInv
<1>12. RoundInv'
  BY <1>1 DEF ManagerInv, RoundInv, report
<1>13. TellInv'
  BY <1>1, <1>4, <1>10 DEF ManagerInv, TellInv, Ended, report
<1>14. CallInv' /\ LastInv' /\ CalmInv'
  BY <1>1, <1>2, <1>3, <1>6 DEF ManagerInv, CallInv, LastInv, CalmInv, Over, queue, report
<1> QED BY <1>7, <1>8, <1>9, <1>11, <1>12, <1>13, <1>14, ToldOnceFollows DEF ManagerInv

\* The task ends.
LEMMA MarkStateKeeps ==
    ASSUME ManagerInv, NEW h \in Hosts, MarkState(h)
    PROVE  ManagerInv'
<1> DEFINE c == host[h].id
<1>1. /\ host[h].at = "state" /\ c \in host[h].todo /\ host[h] \in HostStates /\ c \in Tasks
      /\ state' = [state EXCEPT ![c] = "Canceled"]
      /\ UNCHANGED <<accepted, queue, live, err, cancel, sink, worker, report, calm>>
  BY DEF MarkState, ManagerInv, TypeOK, HostInv, HostStates
<1>2. PICK r : /\ r \in HostStates /\ Becomes(h, r) /\ r.todo = host[h].todo \ {c}
               /\ r.at \in {"notify", "flag", "mark"} /\ (r.at # "mark" => r.todo = {})
               /\ r.call = "none" \/ r.call = host[h].call
  <2> DEFINE rest == host[h].todo \ {c}
             r1 == [host[h] EXCEPT !.todo = rest, !.at = IF rest = {} THEN "flag" ELSE "mark"]
             r2 == [InNoCall EXCEPT !.at = "notify"]
  <2>1. /\ r1 \in HostStates /\ r1.todo = rest /\ r1.at = (IF rest = {} THEN "flag" ELSE "mark")
        /\ r1.call = host[h].call
    BY <1>1 DEF HostStates
  <2>2. r2 \in HostStates /\ r2.todo = {} /\ r2.at = "notify" /\ r2.call = "none"
    BY DEF InNoCall, HostStates
  <2>3. (rest = {} /\ Becomes(h, r2)) \/ Becomes(h, r1)
    BY DEF MarkState, Wakes
  <2> HIDE DEF r1, r2
  <2> QED BY <2>1, <2>2, <2>3
<1>3. /\ host' \in [Hosts -> HostStates] /\ host'[h] = r
      /\ \A g \in Hosts \ {h} : host'[g] = host[g]
  BY <1>2, CallMoves DEF ManagerInv
<1>4. /\ state[c] = "Pending" /\ sink[c] = "Closed" /\ err[c] = "Canceled"
      /\ c \in live /\ c \notin Queued
      /\ \A w \in Workers : ~Runs(w, c)
      /\ \A g \in Hosts \ {h} : c \notin host[g].todo
  BY <1>1 DEF ManagerInv, HoldInv, LifeInv, MarkedLive
<1>5. /\ \A g \in Hosts : host'[g].todo = host[g].todo \ {c}
      /\ \A g \in Hosts \ {h} : host'[g].todo = host[g].todo
  BY <1>2, <1>3, <1>4
<1>6. /\ \A w \in Workers, t \in Tasks : Runs(w, t)' <=> Runs(w, t)
      /\ Queued' = Queued
  BY <1>1 DEF Runs, Queued, queue
<1>7. state'[c] = "Canceled" /\ \A t \in Tasks \ {c} : state'[t] = state[t]
  BY <1>1 DEF ManagerInv, TypeOK
<1>8. TypeOK'
  BY <1>1, <1>3 DEF ManagerInv, TypeOK, States, Ended, queue, report
<1>9. HoldInv'
  BY <1>1, <1>5, <1>6 DEF ManagerInv, HoldInv, queue
<1>10. HostInv'
  BY <1>2, <1>3 DEF ManagerInv, HostInv
<1>11. LifeInv'
  <2>1. QueuedFresh'
    <3>1. ~(c > accepted)
      BY <1>4, QueuedIds DEF ManagerInv
    <3> QED BY <1>1, <1>4, <1>6, <1>7, <3>1 DEF ManagerInv, LifeInv, QueuedFresh
  <2>2. MarkedLive'
    <3> SUFFICES ASSUME NEW g \in Hosts, NEW t \in host'[g].todo
                 PROVE  /\ state'[t] = "Pending" /\ sink'[t] = "Closed"
                        /\ err'[t] = IF host'[g].at = "state" /\ host'[g].id = t
                                     THEN "Canceled" ELSE "Ok"
      BY DEF MarkedLive
    <3>1. t \in Tasks \ {c} /\ t \in host[g].todo
      BY <1>5 DEF ManagerInv, TypeOK, HostStates
    <3>2. CASE g = h
      BY <1>1, <1>2, <1>3, <1>7, <3>1, <3>2 DEF ManagerInv, LifeInv, MarkedLive
    <3>3. CASE g # h
      BY <1>1, <1>3, <1>7, <3>1, <3>3 DEF ManagerInv, LifeInv, MarkedLive
    <3> QED BY <3>2, <3>3
  <2>3. RunLive'
    BY <1>1, <1>4, <1>6, <1>7 DEF ManagerInv, LifeInv, RunLive
  <2>4. NoneLost'
    BY <1>1, <1>5, <1>6, <1>7, QueuedIds DEF ManagerInv, LifeInv, NoneLost, Ended
  <2>5. EndsTell'
    BY <1>1, <1>4, <1>7 DEF ManagerInv, LifeInv, EndsTell, Life!EndTells, Life!Ended
  <2> QED BY <2>1, <2>2, <2>3, <2>4, <2>5 DEF LifeInv
<1>12. RoundInv'
  <2>1. c \notin tick.retired /\ (tick.at = "call" /\ tick.seen \in Ended => tick.id # c)
    BY <1>4 DEF ManagerInv, RoundInv, Ended
  <2>2. tick.retired \subseteq Tasks /\ tick.todo \subseteq Tasks
    BY DEF ManagerInv, TypeOK, TickStates
  <2> QED BY <1>1, <1>7, <2>1, <2>2 DEF ManagerInv, RoundInv, report
<1>13. TellInv'
  BY <1>1, <1>4, <1>7 DEF ManagerInv, TellInv, Ended, report
<1>14. CallInv' /\ LastInv' /\ CalmInv'
  BY <1>1, <1>2, <1>3, <1>6 DEF ManagerInv, CallInv, LastInv, CalmInv, Over, queue, report
<1> QED BY <1>8, <1>9, <1>10, <1>11, <1>12, <1>13, <1>14, ToldOnceFollows DEF ManagerInv

-----------------------------------------------------------------------------
(***************************************************************************)
(* Workers.                                                                *)
(***************************************************************************)
\* A worker takes the first task of the queue.
LEMMA PopKeeps ==
    ASSUME ManagerInv, NEW w \in Workers, Pop(w)
    PROVE  ManagerInv'
<1>1. PICK q \in heap : /\ heap' = heap \ {q} /\ state' = [state EXCEPT ![q.id] = "Running"]
                        /\ Stands(w, "run", q.id)
  BY DEF Pop
<1> DEFINE c == q.id
<1>2. /\ worker[w].at = "take" /\ ~shutdown /\ ~paused
      /\ UNCHANGED <<accepted, paused, shutdown, live, err, cancel, sink, host, report, calm>>
  BY DEF Pop
<1>3. c \in Queued /\ c \in live /\ c \in Tasks /\ ~(c > accepted)
  <2>1. c \in Queued
    BY DEF Queued
  <2> HIDE DEF c
  <2> QED BY <2>1, QueuedIds DEF ManagerInv
<1>4. Queued' = Queued \ {c}
  BY <1>1 DEF Queued, ManagerInv, HoldInv
<1> HIDE DEF c
<1>5. /\ state[c] = "Pending" /\ err[c] = "Ok" /\ sink[c] = "Closed"
      /\ \A g \in Hosts : c \notin host[g].todo
      /\ \A v \in Workers : ~Runs(v, c)
  BY <1>3 DEF ManagerInv, HoldInv, LifeInv, QueuedFresh
<1>6. state'[c] = "Running" /\ \A t \in Tasks \ {c} : state'[t] = state[t]
  BY <1>1, <1>3 DEF c, ManagerInv, TypeOK
<1>7. /\ worker' \in [Workers -> [at : {"take", "wait", "run", "exit"}, id : Tasks \cup {0}]]
      /\ worker' = [worker EXCEPT ![w] = [at |-> "run", id |-> c]]
  BY <1>1, <1>3 DEF c, Stands, ManagerInv, TypeOK
<1>8. /\ Runs(w, c)' /\ \A t \in Tasks : Runs(w, t)' => t = c
      /\ \A v \in Workers \ {w}, t \in Tasks : Runs(v, t)' <=> Runs(v, t)
      /\ \A t \in Tasks : ~Runs(w, t)
  BY <1>2, <1>7 DEF Runs, ManagerInv, TypeOK
<1>9. TypeOK'
  BY <1>1, <1>2, <1>7 DEF c, ManagerInv, TypeOK, States, Active, report
<1>10. HoldInv'
  BY <1>1, <1>2, <1>3, <1>4, <1>5, <1>8 DEF ManagerInv, HoldInv
<1>11. HostInv'
  BY <1>2 DEF ManagerInv, HostInv
<1>12. LifeInv'
  <2>1. QueuedFresh'
    BY <1>2, <1>3, <1>4, <1>6 DEF ManagerInv, LifeInv, QueuedFresh
  <2>2. MarkedLive'
    BY <1>2, <1>5, <1>6 DEF ManagerInv, TypeOK, HostStates, LifeInv, MarkedLive
  <2>3. RunLive'
    BY <1>2, <1>5, <1>6, <1>8 DEF ManagerInv, LifeInv, RunLive, Active
  <2>4. NoneLost'
    BY <1>2, <1>4, <1>6, <1>8, QueuedIds DEF ManagerInv, LifeInv, NoneLost
  <2>5. EndsTell'
    BY <1>2, <1>6 DEF ManagerInv, LifeInv, EndsTell, Life!EndTells, Life!Ended
  <2> QED BY <2>1, <2>2, <2>3, <2>4, <2>5 DEF LifeInv
<1>13. RoundInv'
  <2>1. c \notin tick.retired /\ (tick.at = "call" /\ tick.seen \in Ended => tick.id # c)
    BY <1>5 DEF ManagerInv, RoundInv, Ended
  <2>2. tick.retired \subseteq Tasks /\ tick.todo \subseteq Tasks
    BY DEF ManagerInv, TypeOK, TickStates
  <2> QED BY <1>2, <1>6, <2>1, <2>2 DEF ManagerInv, RoundInv, report
<1>14. TellInv'
  BY <1>2, <1>5, <1>6 DEF ManagerInv, TellInv, Ended, report
<1>15. CallInv' /\ LastInv'
  <2>1. \A g \in Hosts : ~Over(g) /\ host[g].call # "shutdown"
    BY <1>2 DEF ManagerInv, CallInv, Over
  <2> QED BY <1>1, <1>2, <2>1 DEF ManagerInv, CallInv, LastInv, Over, report
<1>16. CalmInv'
  BY <1>2 DEF ManagerInv, CalmInv
<1> QED BY <1>9, <1>10, <1>11, <1>12, <1>13, <1>14, <1>15, <1>16, ToldOnceFollows DEF ManagerInv

\* A worker that has nothing to do, or is to stop.
LEMMA WaitKeeps ==
    ASSUME ManagerInv, NEW w \in Workers, Wait(w) \/ Exit(w)
    PROVE  ManagerInv'
<1>1. PICK l \in {"wait", "exit"} : worker' = [worker EXCEPT ![w] = [at |-> l, id |-> 0]]
  BY DEF Wait, Exit, Stands
<1>2. /\ worker[w].at = "take"
      /\ UNCHANGED <<accepted, queue, live, lives, host, report, calm>>
  BY DEF Wait, Exit
<1>3. worker' \in [Workers -> [at : {"take", "wait", "run", "exit"}, id : Tasks \cup {0}]]
  BY <1>1 DEF ManagerInv, TypeOK
<1>4. /\ worker'[w].at = l /\ \A v \in Workers \ {w} : worker'[v] = worker[v]
      /\ \A v \in Workers, t \in Tasks : Runs(v, t)' <=> Runs(v, t)
  BY <1>1, <1>2 DEF Runs, ManagerInv, TypeOK
<1>5. SamePlaces /\ SameTasks
  BY <1>2, <1>4 DEF SamePlaces, SameTasks, Queued, queue, lives
<1>6. TypeOK'
  BY <1>2, <1>3 DEF ManagerInv, TypeOK, queue, lives, report
<1>7. HoldInv' /\ LifeInv' /\ RoundInv' /\ TellInv'
  BY <1>2, <1>5, HoldFrame, LifeFrame, ReportFrame DEF ManagerInv, queue, report
<1>8. HostInv' /\ CallInv' /\ LastInv' /\ CalmInv'
  BY <1>2, <1>4 DEF ManagerInv, HostInv, CallInv, LastInv, CalmInv, Over, queue, report
<1> QED BY <1>6, <1>7, <1>8, ToldOnceFollows DEF ManagerInv

\* A worker at its task: only the task's life changes, and it does not end.
LEMMA WorkFrame ==
    ASSUME ManagerInv, NEW w \in Workers, NEW c \in Tasks, Runs(w, c),
           UNCHANGED <<accepted, queue, live, cancel, worker, host, report, calm>>,
           NEW s \in Active, NEW e \in Errors, NEW k \in {"Closed", "Open", "Finished", "Aborted"},
           state' = [state EXCEPT ![c] = s],
           err' = [err EXCEPT ![c] = e], sink' = [sink EXCEPT ![c] = k],
           k = "Closed" => s = "Running",
           k \in {"Open", "Finished"} => e = "Ok",
           k = "Aborted" => e # "Ok"
    PROVE  ManagerInv'
<1>1. /\ \A v \in Workers, t \in Tasks : Runs(v, t)' <=> Runs(v, t)
      /\ Queued' = Queued
  BY DEF Runs, Queued, queue
<1>2. /\ state'[c] = s /\ err'[c] = e /\ sink'[c] = k
      /\ \A t \in Tasks \ {c} : state'[t] = state[t] /\ err'[t] = err[t] /\ sink'[t] = sink[t]
  BY DEF ManagerInv, TypeOK
<1>3. /\ c \in live /\ c \notin Queued /\ state[c] \in Active /\ ~(c > accepted)
      /\ \A g \in Hosts : c \notin host[g].todo
  BY QueuedIds DEF ManagerInv, HoldInv, LifeInv, RunLive
<1>4. TypeOK'
  BY DEF ManagerInv, TypeOK, States, queue, report
<1>5. HoldInv' /\ HostInv' /\ CallInv' /\ LastInv' /\ CalmInv'
  <2>1. HoldInv'
    BY <1>1 DEF ManagerInv, HoldInv, queue
  <2> QED BY <1>1, <2>1 DEF ManagerInv, HostInv, CallInv, LastInv, CalmInv, Over, queue, report
<1>6. LifeInv'
  <2>1. QueuedFresh'
    BY <1>1, <1>2, <1>3 DEF ManagerInv, LifeInv, QueuedFresh
  <2>2. MarkedLive'
    BY <1>2, <1>3 DEF ManagerInv, TypeOK, HostStates, LifeInv, MarkedLive
  <2>3. RunLive'
    BY <1>1, <1>2 DEF ManagerInv, LifeInv, RunLive
  <2>4. NoneLost'
    <3>1. \A t \in 1 .. accepted : state[t] \in Ended => t # c
      BY <1>3 DEF Ended, Active
    <3> QED BY <1>1, <1>2, <3>1, QueuedIds DEF ManagerInv, LifeInv, NoneLost
  <2>5. EndsTell'
    BY <1>2 DEF ManagerInv, LifeInv, EndsTell, Life!EndTells, Life!Ended, Active
  <2> QED BY <2>1, <2>2, <2>3, <2>4, <2>5 DEF LifeInv
<1>7. RoundInv'
  <2>1. c \notin tick.retired /\ (tick.at = "call" /\ tick.seen \in Ended => tick.id # c)
    BY <1>3 DEF ManagerInv, RoundInv, Ended, Active
  <2>2. tick.retired \subseteq Tasks /\ tick.todo \subseteq Tasks
    BY DEF ManagerInv, TypeOK, TickStates
  <2> QED BY <1>2, <2>1, <2>2 DEF ManagerInv, RoundInv, report
<1>8. TellInv'
  BY <1>2, <1>3 DEF ManagerInv, TellInv, Ended, Active, report
<1> QED BY <1>4, <1>5, <1>6, <1>7, <1>8, ToldOnceFollows DEF ManagerInv

LEMMA PrepareKeeps ==
    ASSUME ManagerInv, NEW w \in Workers, NEW c \in Tasks, Prepare(w, c)
    PROVE  ManagerInv'
<1>1. /\ state' = [state EXCEPT ![c] = state[c]] /\ err' = [err EXCEPT ![c] = err[c]]
      /\ state[c] \in Active /\ err[c] = "Ok"
  BY DEF Prepare, ManagerInv, TypeOK, LifeInv, RunLive
<1> QED BY <1>1, WorkFrame DEF Prepare, Errors

LEMMA VerifyKeeps ==
    ASSUME ManagerInv, NEW w \in Workers, NEW c \in Tasks, Verify(w, c)
    PROVE  ManagerInv'
<1>1. /\ err' = [err EXCEPT ![c] = "Ok"] /\ sink' = [sink EXCEPT ![c] = "Open"]
  BY DEF Verify, ManagerInv, TypeOK, LifeInv, RunLive
<1> QED BY <1>1, WorkFrame DEF Verify, Active, Errors

LEMMA FinishKeeps ==
    ASSUME ManagerInv, NEW w \in Workers, NEW c \in Tasks, Finish(w, c)
    PROVE  ManagerInv'
<1>1. /\ state' = [state EXCEPT ![c] = state[c]] /\ err' = [err EXCEPT ![c] = "Ok"]
      /\ state[c] \in Active
  BY DEF Finish, ManagerInv, TypeOK, LifeInv, RunLive
<1> QED BY <1>1, WorkFrame DEF Finish, Errors

LEMMA GiveUpKeeps ==
    ASSUME ManagerInv, NEW w \in Workers, NEW c \in Tasks, GiveUp(w, c)
    PROVE  ManagerInv'
<1> DEFINE k == IF sink[c] = "Open" THEN "Aborted" ELSE "Closed"
<1>1. /\ state' = [state EXCEPT ![c] = state[c]] /\ sink' = [sink EXCEPT ![c] = k]
      /\ state[c] \in Active /\ (k = "Closed" => state[c] = "Running")
      /\ k \in {"Aborted", "Closed"}
  BY DEF GiveUp, ManagerInv, TypeOK, LifeInv, RunLive
<1>2. PICK e \in {"Network", "Canceled"} : err' = [err EXCEPT ![c] = e]
  BY DEF GiveUp
<1>3. Runs(w, c) /\ UNCHANGED <<accepted, queue, live, cancel, worker, host, report, calm>>
  BY DEF GiveUp
<1> HIDE DEF k
<1> QED BY <1>1, <1>2, <1>3, WorkFrame DEF Errors

\* The worker ends its task and has none.
LEMMA EndKeeps ==
    ASSUME ManagerInv, NEW w \in Workers, NEW c \in Tasks, End(w, c)
    PROVE  ManagerInv'
<1> DEFINE s == IF sink[c] = "Finished" THEN "Done"
                ELSE IF err[c] = "Canceled" THEN "Canceled" ELSE "Failed"
<1>1. /\ Runs(w, c) /\ state' = [state EXCEPT ![c] = s]
      /\ worker' = [worker EXCEPT ![w] = [at |-> "take", id |-> 0]]
      /\ UNCHANGED <<accepted, queue, live, err, cancel, sink, host, report, calm>>
  BY DEF End, Stands
<1>2. /\ s \in Ended /\ sink[c] # "Open"
      /\ (s = "Done" <=> sink[c] = "Finished") /\ (s = "Done" <=> err[c] = "Ok")
      /\ (s = "Canceled" <=> err[c] = "Canceled")
  BY DEF End, ManagerInv, TypeOK, Errors, LifeInv, RunLive, Ended
<1> HIDE DEF s
<1>3. state'[c] = s /\ \A t \in Tasks \ {c} : state'[t] = state[t]
  BY <1>1 DEF ManagerInv, TypeOK
<1>4. /\ c \in live /\ c \notin Queued /\ state[c] \in Active /\ ~(c > accepted)
      /\ \A g \in Hosts : c \notin host[g].todo
      /\ \A v \in Workers \ {w} : ~Runs(v, c)
  BY <1>1, QueuedIds DEF ManagerInv, HoldInv, LifeInv, RunLive
<1>5. /\ worker' \in [Workers -> [at : {"take", "wait", "run", "exit"}, id : Tasks \cup {0}]]
      /\ \A t \in Tasks : ~(Runs(w, t)')
      /\ \A v \in Workers \ {w}, t \in Tasks : Runs(v, t)' <=> Runs(v, t)
      /\ worker[w].at = "run" /\ \A v \in Workers \ {w} : worker'[v] = worker[v]
      /\ \A t \in Tasks : Runs(w, t) => t = c
  BY <1>1 DEF Runs, ManagerInv, TypeOK
<1>6. Queued' = Queued
  BY <1>1 DEF Queued, queue
<1>7. TypeOK'
  BY <1>1, <1>2, <1>5 DEF ManagerInv, TypeOK, States, queue, report
<1>8. HoldInv' /\ HostInv'
  BY <1>1, <1>5, <1>6 DEF ManagerInv, HoldInv, HostInv, queue
<1>9. LifeInv'
  <2>1. QueuedFresh'
    BY <1>1, <1>3, <1>4, <1>6 DEF ManagerInv, LifeInv, QueuedFresh
  <2>2. MarkedLive'
    BY <1>1, <1>3, <1>4 DEF ManagerInv, TypeOK, HostStates, LifeInv, MarkedLive
  <2>3. RunLive'
    BY <1>1, <1>3, <1>4, <1>5 DEF ManagerInv, LifeInv, RunLive
  <2>4. NoneLost'
    BY <1>1, <1>2, <1>3, <1>5, <1>6, QueuedIds DEF ManagerInv, LifeInv, NoneLost
  <2>5. EndsTell'
    BY <1>1, <1>2, <1>3 DEF ManagerInv, LifeInv, EndsTell, Life!EndTells, Life!Ended
  <2> QED BY <2>1, <2>2, <2>3, <2>4, <2>5 DEF LifeInv
<1>10. RoundInv'
  <2>1. c \notin tick.retired /\ (tick.at = "call" /\ tick.seen \in Ended => tick.id # c)
    BY <1>4 DEF ManagerInv, RoundInv, Ended, Active
  <2>2. tick.retired \subseteq Tasks /\ tick.todo \subseteq Tasks
    BY DEF ManagerInv, TypeOK, TickStates
  <2> QED BY <1>1, <1>3, <2>1, <2>2 DEF ManagerInv, RoundInv, report
<1>11. TellInv'
  BY <1>1, <1>3, <1>4 DEF ManagerInv, TellInv, Ended, Active, report
<1>12. CallInv' /\ LastInv'
  BY <1>1, <1>5 DEF ManagerInv, CallInv, LastInv, Over, queue, report
<1>13. CalmInv'
  BY <1>1, <1>5 DEF ManagerInv, CalmInv, queue
<1> QED BY <1>7, <1>8, <1>9, <1>10, <1>11, <1>12, <1>13, ToldOnceFollows DEF ManagerInv

-----------------------------------------------------------------------------
(***************************************************************************)
(* The reporter.                                                           *)
(***************************************************************************)
\* When it is told to stop, nothing goes on any more.
LEMMA StopEnds ==
    ASSUME ManagerInv, stop
    PROVE  \A t \in 1 .. accepted : state[t] \in Ended
<1>1. PICK h \in Hosts : Over(h)
  BY DEF ManagerInv, LastInv
<1>2. heap = {} /\ \A w \in Workers : worker[w].at = "exit"
  BY <1>1 DEF ManagerInv, CallInv, Over
<1>3. \A g \in Hosts : host[g].todo = {}
  BY <1>1 DEF ManagerInv, CallInv, HostInv, Over
<1>4. Queued = {} /\ \A w \in Workers, t \in Tasks : ~Runs(w, t)
  BY <1>2 DEF Queued, Runs
<1> QED BY <1>3, <1>4, QueuedIds DEF ManagerInv, LifeInv, NoneLost

\* A round in which no task changes.
LEMMA TickFrame ==
    ASSUME ManagerInv, UNCHANGED <<accepted, queue, lives, worker, host, stop, calm>>
    PROVE  /\ LifeInv' /\ HostInv' /\ CalmInv' /\ SamePlaces
           /\ (tick.at = "exit" => tick'.at = "exit") => CallInv'
<1>1. SamePlaces /\ SameTasks
  BY DEF SamePlaces, SameTasks, Runs, Queued, queue, lives
<1>2. LifeInv'
  BY <1>1, LifeFrame DEF ManagerInv
<1>3. HostInv' /\ CalmInv'
  BY DEF ManagerInv, HostInv, CalmInv, Runs, queue
<1>4. (tick.at = "exit" => tick'.at = "exit") => CallInv'
  BY DEF ManagerInv, CallInv, Over, queue
<1> QED BY <1>1, <1>2, <1>3, <1>4

\* A round begins with all tasks there are.
LEMMA TickKeeps ==
    ASSUME ManagerInv, Tick
    PROVE  ManagerInv'
<1> DEFINE r == [Asleep EXCEPT !.at = IF live = {} THEN "exit" ELSE "read",
                               !.todo = live, !.last = stop]
<1>1. /\ tick.at = "sleep" /\ (live # {} \/ stop) /\ tick' = r
      /\ UNCHANGED <<accepted, queue, live, lives, worker, host, stop, told, calm>>
  BY DEF Tick, Ticks
<1>2. /\ r.at = (IF live = {} THEN "exit" ELSE "read") /\ r.todo = live /\ r.last = stop
      /\ r.retired = {}
  BY DEF Asleep
<1>3. r \in TickStates
  <2>1. live \subseteq Tasks /\ stop \in BOOLEAN
    BY QueuedIds DEF ManagerInv, TypeOK
  <2> QED BY <2>1 DEF Asleep, TickStates, States
<1> HIDE DEF r
<1>4. TypeOK'
  BY <1>1, <1>2, <1>3 DEF ManagerInv, TypeOK, queue, lives
<1>5. HoldInv' /\ HostInv' /\ LifeInv' /\ CallInv' /\ CalmInv'
  BY <1>1, TickFrame, HoldFrame DEF ManagerInv, queue
<1>6. RoundInv'
  BY <1>1, <1>2 DEF ManagerInv, RoundInv
<1>7. TellInv'
  BY <1>1, <1>2 DEF ManagerInv, RoundInv, TellInv, lives
<1>8. LastInv'
  BY <1>1, <1>2 DEF ManagerInv, LastInv, Over
<1> QED BY <1>4, <1>5, <1>6, <1>7, <1>8, ToldOnceFollows DEF ManagerInv

\* In the last round every state read is an end.
LEMMA ReadStateKeeps ==
    ASSUME ManagerInv, NEW c \in Tasks, ReadState(c)
    PROVE  ManagerInv'
<1> DEFINE r == [tick EXCEPT !.at = "call", !.id = c, !.seen = state[c]]
<1>1. /\ tick.at = "read" /\ c \in tick.todo /\ tick' = r /\ tick \in TickStates /\ c \in live
      /\ state[c] \in States
      /\ UNCHANGED <<accepted, queue, live, lives, worker, host, stop, told, calm>>
  BY DEF ReadState, Ticks, ManagerInv, TypeOK
<1>2. /\ r \in TickStates /\ r.at = "call" /\ r.id = c /\ r.seen = state[c]
      /\ r.todo = tick.todo /\ r.retired = tick.retired /\ r.last = tick.last
  BY <1>1 DEF TickStates
<1> HIDE DEF r
<1>3. TypeOK'
  BY <1>1, <1>2 DEF ManagerInv, TypeOK, queue, lives
<1>4. HoldInv' /\ HostInv' /\ LifeInv' /\ CallInv' /\ CalmInv'
  BY <1>1, TickFrame, HoldFrame DEF ManagerInv, queue
<1>5. RoundInv' /\ TellInv'
  BY <1>1, <1>2 DEF ManagerInv, RoundInv, TellInv, lives
<1>6. LastInv'
  <2>1. stop => state[c] \in Ended
    BY <1>1, StopEnds, QueuedIds DEF ManagerInv
  <2> QED BY <1>1, <1>2, <2>1 DEF ManagerInv, LastInv, Over
<1> QED BY <1>3, <1>4, <1>5, <1>6, ToldOnceFollows DEF ManagerInv

\* An end is told of a task that is then retired, not before.
LEMMA ReportKeeps ==
    ASSUME ManagerInv, Report
    PROVE  ManagerInv'
<1> DEFINE c == tick.id
           rest == tick.todo \ {c}
           done == IF tick.seen \in Ended THEN tick.retired \cup {c} ELSE tick.retired
           r == [tick EXCEPT !.todo = rest, !.id = 0, !.seen = "Pending", !.retired = done,
                             !.at = IF rest = {} THEN "retire" ELSE "read"]
           end == [times |-> told[c].times + 1, state |-> tick.seen, err |-> err[c]]
<1>1. /\ tick.at = "call" /\ c \in tick.todo /\ tick' = r /\ tick \in TickStates
      /\ c \in live /\ live \subseteq Tasks /\ c \in Tasks /\ c \notin tick.retired
      /\ tick.seen \in Ended => state[c] = tick.seen
      /\ UNCHANGED <<accepted, queue, live, lives, worker, host, stop, calm>>
  BY QueuedIds DEF Report, Ticks, ManagerInv, TypeOK, RoundInv
<1>2. told' = IF tick.seen \in Ended THEN [told EXCEPT ![c] = end] ELSE told
  BY DEF Report
<1>3. /\ r \in TickStates /\ r.at = (IF rest = {} THEN "retire" ELSE "read")
      /\ r.todo = rest /\ r.retired = done /\ r.last = tick.last
  BY <1>1 DEF TickStates, States
<1>4. /\ told' \in [Tasks -> [times : Nat, state : States, err : Errors]]
      /\ \A t \in Tasks \ {c} : told'[t] = told[t]
      /\ tick.seen \in Ended => told'[c] = end
      /\ tick.seen \notin Ended => told'[c] = told[c]
  BY <1>1, <1>2 DEF ManagerInv, TypeOK, TickStates
<1>5. tick.seen \in Ended => told'[c].times = 1
  BY <1>1, <1>4, QueuedIds DEF ManagerInv, TellInv
<1>a. c \in 1 .. accepted /\ c <= accepted
  BY <1>1 DEF ManagerInv, TypeOK
<1> HIDE DEF r, c
<1>6. TypeOK'
  BY <1>1, <1>3, <1>4 DEF ManagerInv, TypeOK, queue, lives
<1>7. HoldInv' /\ HostInv' /\ LifeInv' /\ CallInv' /\ CalmInv'
  BY <1>1, TickFrame, HoldFrame DEF ManagerInv, queue
<1>8. RoundInv'
  BY <1>1, <1>3 DEF ManagerInv, RoundInv, lives
<1>9. TellInv'
  BY <1>1, <1>3, <1>4, <1>5, <1>a DEF ManagerInv, TellInv, lives
<1>10. LastInv'
  BY <1>1, <1>3 DEF ManagerInv, LastInv, Over
<1> QED BY <1>6, <1>7, <1>8, <1>9, <1>10, ToldOnceFollows DEF ManagerInv

\* What has left the tasks was nowhere any more.
LEMMA RetireKeeps ==
    ASSUME ManagerInv, Retire
    PROVE  ManagerInv'
<1> DEFINE r == [Asleep EXCEPT !.at = IF tick.last THEN "exit" ELSE "sleep"]
<1>1. /\ tick.at = "retire" /\ live' = live \ tick.retired /\ tick' = r
      /\ tick.todo = {} /\ tick.retired \subseteq live /\ live \subseteq Tasks
      /\ \A t \in tick.retired : state[t] \in Ended
      /\ UNCHANGED <<accepted, queue, lives, worker, host, stop, told, calm>>
  BY QueuedIds DEF Retire, Ticks, ManagerInv, TypeOK, RoundInv
<1>2. /\ r \in TickStates /\ r.at = (IF tick.last THEN "exit" ELSE "sleep")
      /\ r.todo = {} /\ r.retired = {} /\ r.last = FALSE
  BY DEF Asleep, TickStates, States
<1> HIDE DEF r
<1>3. SamePlaces
  BY <1>1, TickFrame
<1>4. \A t \in tick.retired : /\ t \notin Queued /\ \A w \in Workers : ~Runs(w, t)
                              /\ \A h \in Hosts : t \notin host[h].todo
  BY <1>1 DEF ManagerInv, LifeInv, QueuedFresh, MarkedLive, RunLive, Ended, Active
<1>5. TypeOK'
  <2>1. heap' \subseteq [id : live', prio : Prios]
    BY <1>1, <1>4 DEF ManagerInv, TypeOK, Queued, queue
  <2> QED BY <1>1, <1>2, <2>1 DEF ManagerInv, TypeOK, queue, lives
<1>6. HoldInv'
  BY <1>1, <1>3, <1>4 DEF ManagerInv, HoldInv, SamePlaces, queue
<1>7. HostInv' /\ LifeInv' /\ CallInv' /\ CalmInv'
  BY <1>1, TickFrame
<1>8. RoundInv'
  BY <1>2, <1>1 DEF RoundInv
<1>9. TellInv'
  BY <1>1, <1>2 DEF ManagerInv, TellInv, lives
<1>10. LastInv'
  BY <1>1, <1>2 DEF ManagerInv, LastInv, Over
<1> QED BY <1>5, <1>6, <1>7, <1>8, <1>9, <1>10, ToldOnceFollows DEF ManagerInv

-----------------------------------------------------------------------------
(***************************************************************************)
(* The manager.                                                            *)
(***************************************************************************)
\* A manager that was just started.
LEMMA InvInit == Init => ManagerInv
<1> SUFFICES ASSUME Init PROVE ManagerInv
  OBVIOUS
<1>1. TypeOK
  <2>1. InNoCall \in HostStates /\ Asleep \in TickStates
    BY DEF HostStates, TickStates, InNoCall, Asleep, States
  <2>2. Untold \in [times : Nat, state : States, err : Errors]
    BY DEF Untold, States, Errors
  <2>3. tick.todo \cup tick.retired \subseteq live /\ 0 \in 0 .. MaxTasks
    BY ManagerAssumption DEF Init, Asleep
  <2> QED BY <2>1, <2>2, <2>3 DEF Init, TypeOK, States, Errors
<1>2. Queued = {} /\ \A w \in Workers, t \in Tasks : ~Runs(w, t)
  BY DEF Init, Queued, Runs
<1>3. HoldInv /\ HostInv
  BY <1>2 DEF Init, HoldInv, HostInv, InNoCall
<1>4. LifeInv
  BY <1>2 DEF Init, LifeInv, QueuedFresh, MarkedLive, RunLive, NoneLost, EndsTell,
     Life!EndTells, Life!Ended, InNoCall
<1>5. RoundInv /\ LastInv /\ CalmInv /\ CallInv
  BY DEF Init, RoundInv, LastInv, CalmInv, CallInv, Over, Asleep, InNoCall
<1>6. TellInv /\ ToldOnce
  BY DEF Init, TellInv, ToldOnce, Untold, Tasks
<1> QED BY <1>1, <1>3, <1>4, <1>5, <1>6 DEF ManagerInv

\* Every call, every step of one, of a worker or of the reporter keeps the invariant.
LEMMA InvStep == ManagerInv /\ [Next]_vars => ManagerInv'
<1> SUFFICES ASSUME ManagerInv, [Next]_vars PROVE ManagerInv'
  OBVIOUS
<1>1. ASSUME NEW h \in Hosts, Call(h) PROVE ManagerInv'
  <2>1. CASE \E p \in Prios : Enqueue(h, p)
    BY <2>1, EnqueueKeeps
  <2>2. CASE \E c \in Tasks : Cancel(h, c)
    BY <2>2, CancelKeeps
  <2>3. CASE \E c \in Tasks, p \in Prios : SetPriority(h, c, p)
    BY <2>3, SetPriorityKeeps
  <2>4. CASE CancelAll(h)
    BY <2>4, DrainKeeps DEF CancelAll
  <2>5. CASE Pause(h) \/ ActiveCountZero(h)
    BY <2>5, PauseKeeps
  <2>6. CASE Resume(h)
    BY <2>6, ResumeKeeps
  <2>7. CASE Shutdown(h)
    BY <2>7, ShutdownKeeps
  <2> QED BY <1>1, <2>1, <2>2, <2>3, <2>4, <2>5, <2>6, <2>7 DEF Call
<1>2. ASSUME NEW h \in Hosts, HostStep(h) PROVE ManagerInv'
  <2>1. CASE Find(h)
    BY <2>1, FindKeeps
  <2>2. CASE \E c \in Tasks : Mark(h, c)
    BY <2>2, MarkKeeps
  <2>3. CASE MarkState(h)
    BY <2>3, MarkStateKeeps
  <2>4. CASE Flag(h)
    BY <2>4, FlagKeeps
  <2>5. CASE ShutdownDrain(h)
    BY <2>5, DrainKeeps DEF ShutdownDrain
  <2>6. CASE Notify(h)
    BY <2>6, NotifyKeeps
  <2>7. CASE Join(h) \/ Free(h)
    BY <2>7, JoinKeeps
  <2> QED BY <1>2, <2>1, <2>2, <2>3, <2>4, <2>5, <2>6, <2>7 DEF HostStep
<1>3. ASSUME NEW w \in Workers, WorkerStep(w) PROVE ManagerInv'
  <2>1. CASE Pop(w)
    BY <2>1, PopKeeps
  <2>2. CASE Wait(w) \/ Exit(w)
    BY <2>2, WaitKeeps
  <2>3. ASSUME NEW c \in Tasks,
               Prepare(w, c) \/ Verify(w, c) \/ Finish(w, c) \/ GiveUp(w, c) \/ End(w, c)
        PROVE  ManagerInv'
    BY <2>3, PrepareKeeps, VerifyKeeps, FinishKeeps, GiveUpKeeps, EndKeeps
  <2> QED BY <1>3, <2>1, <2>2, <2>3 DEF WorkerStep
<1>4. CASE Reporter
  BY <1>4, TickKeeps, ReadStateKeeps, ReportKeeps, RetireKeeps DEF Reporter
<1>5. CASE UNCHANGED vars
  <2>1. UNCHANGED <<accepted, heap, paused, shutdown, live, state, err, cancel, sink, worker, host,
                    stop, tick, told, calm>>
    BY <1>5 DEF vars, queue, lives, report
  <2>2. SamePlaces /\ SameTasks
    BY <2>1 DEF SamePlaces, SameTasks, Runs, Queued
  <2>3. TypeOK' /\ HostInv' /\ CallInv' /\ LastInv' /\ CalmInv'
    BY <2>1 DEF ManagerInv, TypeOK, HostInv, CallInv, LastInv, CalmInv, Over, Runs
  <2>4. HoldInv' /\ LifeInv' /\ RoundInv' /\ TellInv'
    BY <2>1, <2>2, HoldFrame, LifeFrame, ReportFrame DEF ManagerInv
  <2> QED BY <2>3, <2>4, ToldOnceFollows DEF ManagerInv
<1> QED BY <1>1, <1>2, <1>3, <1>4, <1>5 DEF Next

\* Whoever calls and whatever fails, the manager's state has its type, each task is in one
\* place that fits its life, and an end is told at most once, truly and last
\* (report.rs:45).
THEOREM ManagerInvHolds == Spec => []ManagerInv
BY InvInit, InvStep, PTL DEF Spec

\* When the manager is freed, every task it took was reported ended (mod.rs
\* dlmgr_shutdown; report.rs:36-39).
THEOREM FreedAfterAllTold == Spec => []FreedAllTold
<1>1. ManagerInv => FreedAllTold
  <2> SUFFICES ASSUME ManagerInv, NEW h \in Hosts, host[h].at = "freed", NEW t \in 1 .. accepted
               PROVE  told[t].times = 1
    BY DEF FreedAllTold
  <2>1. live = {} /\ t \in Tasks /\ t <= accepted
    BY QueuedIds DEF ManagerInv, TypeOK, CallInv, LastInv
  <2> QED BY <2>1 DEF ManagerInv, TellInv
<1> QED BY <1>1, ManagerInvHolds, PTL

\* A host that paused and counted nothing active has the sinks to itself (mod.rs:316).
THEOREM CalmIsIdle == Spec => []CalmMeansIdle
<1>1. ManagerInv => CalmMeansIdle
  <2> SUFFICES ASSUME ManagerInv, calm, NEW t \in Tasks
               PROVE  sink[t] # "Open" /\ \A w \in Workers : ~Runs(w, t)
    BY DEF CalmMeansIdle
  <2>1. \A w \in Workers : ~Runs(w, t)
    BY DEF ManagerInv, CalmInv
  <2>2. t > accepted \/ t \in 1 .. accepted
    BY DEF ManagerInv, TypeOK, Tasks
  <2>3. sink[t] # "Open"
    BY <2>1, <2>2 DEF ManagerInv, LifeInv, QueuedFresh, MarkedLive, NoneLost, EndsTell,
       Life!EndTells, Life!Ended, Ended
  <2> QED BY <2>1, <2>3
<1> QED BY <1>1, ManagerInvHolds, PTL

\* A step is one of a task's life, or leaves it alone.
LEMMA LifeStep ==
    ASSUME ManagerInv, [Next]_vars, NEW t \in Tasks
    PROVE  Life(t)!Next \/ UNCHANGED Life(t)!vars
<1> USE DEF Life!Next, Life!vars
<1>t. state \in [Tasks -> States] /\ err \in [Tasks -> Errors]
      /\ sink \in [Tasks -> {"Closed", "Open", "Finished", "Aborted"}]
  BY DEF ManagerInv, TypeOK
<1>1. CASE UNCHANGED <<state, err, sink>>
  BY <1>1
<1>2. ASSUME NEW h \in Hosts, NEW c \in Tasks, Mark(h, c)
      PROVE  Life(t)!Next \/ UNCHANGED Life(t)!vars
  <2>1. /\ state[c] = "Pending" /\ sink[c] = "Closed" /\ err[c] = "Ok"
        /\ err' = [err EXCEPT ![c] = "Canceled"] /\ UNCHANGED <<state, sink>>
    BY <1>2 DEF Mark, ManagerInv, LifeInv, MarkedLive
  <2> QED BY <1>t, <2>1 DEF Life!GiveUp, Life!Ended, Life!Errors
<1>3. ASSUME NEW h \in Hosts, MarkState(h)
      PROVE  Life(t)!Next \/ UNCHANGED Life(t)!vars
  <2> DEFINE c == host[h].id
  <2>1. /\ state[c] = "Pending" /\ sink[c] = "Closed" /\ err[c] = "Canceled"
        /\ state' = [state EXCEPT ![c] = "Canceled"] /\ UNCHANGED <<err, sink>>
    BY <1>3 DEF MarkState, ManagerInv, HostInv, LifeInv, MarkedLive
  <2> QED BY <1>t, <2>1 DEF Life!End, Life!Ended
<1>4. ASSUME NEW w \in Workers, Pop(w)
      PROVE  Life(t)!Next \/ UNCHANGED Life(t)!vars
  <2>1. PICK q \in heap : state' = [state EXCEPT ![q.id] = "Running"] /\ UNCHANGED <<err, sink>>
    BY <1>4 DEF Pop
  <2>2. q.id \in Queued /\ q.id \in Tasks
    BY QueuedIds DEF Queued, ManagerInv
  <2>3. state[q.id] = "Pending" /\ err[q.id] = "Ok"
    BY <2>2 DEF ManagerInv, LifeInv, QueuedFresh
  <2> QED BY <1>t, <2>1, <2>2, <2>3 DEF Life!Take
<1>5. ASSUME NEW w \in Workers, NEW c \in Tasks, Runs(w, c),
             Prepare(w, c) \/ Verify(w, c) \/ Finish(w, c) \/ GiveUp(w, c) \/ End(w, c)
      PROVE  Life(t)!Next \/ UNCHANGED Life(t)!vars
  <2>1. /\ state[c] \in Active /\ (sink[c] = "Closed" => state[c] = "Running")
        /\ sink[c] \in {"Open", "Finished"} => err[c] = "Ok"
        /\ sink[c] = "Aborted" => err[c] # "Ok"
    BY <1>5 DEF ManagerInv, LifeInv, RunLive
  <2>2. CASE Prepare(w, c)
    BY <1>t, <2>1, <2>2 DEF Prepare, Life!Prepare
  <2>3. CASE Verify(w, c)
    BY <1>t, <2>1, <2>3 DEF Verify, Life!Verify
  <2>4. CASE Finish(w, c)
    BY <1>t, <2>1, <2>4 DEF Finish, Life!Finish
  <2>5. CASE GiveUp(w, c)
    BY <1>t, <2>1, <2>5 DEF GiveUp, Active, Life!GiveUp, Life!Ended, Life!Errors
  <2>6. CASE End(w, c)
    BY <1>t, <2>1, <2>6 DEF End, Active, Errors, Life!End, Life!Ended
  <2> QED BY <1>5, <2>2, <2>3, <2>4, <2>5, <2>6
<1>6. ASSUME NEW h \in Hosts, Call(h) PROVE UNCHANGED <<state, err, sink>>
  BY <1>6 DEF Call, Enqueue, Cancel, SetPriority, CancelAll, Drains, Pause, Resume,
     ActiveCountZero, Shutdown, lives
<1>7. ASSUME NEW h \in Hosts,
             Find(h) \/ Flag(h) \/ ShutdownDrain(h) \/ Notify(h) \/ Join(h) \/ Free(h)
      PROVE  UNCHANGED <<state, err, sink>>
  BY <1>7 DEF Find, Flag, ShutdownDrain, Drains, Notify, Join, Free, lives
<1>8. CASE UNCHANGED vars \/ Reporter \/ \E w \in Workers : Wait(w) \/ Exit(w)
  <2>1. UNCHANGED <<state, err, sink>>
    BY <1>8 DEF vars, lives, Reporter, Tick, ReadState, Report, Retire, Wait, Exit
  <2> QED BY <2>1
<1>9. CASE \E h \in Hosts : Call(h) \/ HostStep(h)
  BY <1>1, <1>2, <1>3, <1>6, <1>7, <1>9 DEF HostStep
<1>10. CASE \E w \in Workers : WorkerStep(w)
  BY <1>4, <1>5, <1>8, <1>10 DEF WorkerStep, Prepare, Verify, Finish, GiveUp, End
<1> QED BY <1>8, <1>9, <1>10 DEF Next

\* Worker, cancel, cancel_all or shutdown: whoever gets at a task, it lives the one life
\* that DlLife allows (mod.rs mark_canceled, worker.rs terminal).
THEOREM TasksLiveOnce == Spec => LivesImplement
<1>1. Init => \A t \in Tasks : Life(t)!Init
  BY DEF Init, Life!Init
<1>2. ManagerInv /\ [Next]_vars => [\A t \in Tasks : Life(t)!Next \/ UNCHANGED Life(t)!vars]_vars
  BY LifeStep
<1> QED BY <1>1, <1>2, ManagerInvHolds, PTL DEF Spec, LivesImplement

=============================================================================
