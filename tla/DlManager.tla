----------------------------- MODULE DlManager -----------------------------
(***************************************************************************)
(* The download manager (dlmgr/mod.rs, worker.rs, report.rs): host threads *)
(* that call it, workers that wait on one condition variable, and the      *)
(* reporter.  Every action is one critical section, or one step between    *)
(* two of them.  What a worker does to a task in between is taken from     *)
(* DlLife, which DlTask implements.  The manager has been started.         *)
(***************************************************************************)
EXTENDS Naturals, FiniteSets

CONSTANTS
    MaxHosts, Workers,  (* threads                                         *)
    MaxTasks,           (* bound: tasks enqueued                           *)
    MaxCalls,           (* bound: calls under way at once, for each number *)
                        (* of tasks enqueued so far                        *)
    Prios,              (* priorities                                      *)
    Failing             (* the tasks that may fail                         *)

ASSUME ManagerAssumption ==
    /\ MaxHosts \in Nat /\ IsFiniteSet(Workers) /\ Workers # {}
    /\ MaxTasks \in Nat /\ MaxCalls \in [0 .. MaxTasks -> Nat] /\ Prios \subseteq Nat
    /\ Failing \subseteq 1 .. MaxTasks

Hosts == 1 .. MaxHosts
Tasks == 1 .. MaxTasks      (* the ids; they are also the order of arrival *)

VARIABLES
    accepted,                   (* next_task_id                            *)
    heap, paused, shutdown,     (* QueueState                              *)
    live,                       (* Shared.tasks                            *)
    state, err, cancel, sink,   (* of each task                            *)
    worker,                     (* of each worker: where it is, its task   *)
    host,                       (* of each host thread: the call it is in, *)
                                (* where, the task, those still to mark    *)
    stop,                       (* reporter_stop                           *)
    tick,                       (* the reporter: where it is, the snapshot *)
                                (* still to report, a task and its state,  *)
                                (* those to retire, whether it is the last *)
    told,                       (* how each task's end was reported        *)
    calm                        (* the host was told that nothing is       *)
                                (* active, and has not resumed since       *)

lives  == <<state, err, cancel, sink>>
queue  == <<heap, paused, shutdown>>
report == <<stop, tick, told>>
vars   == <<accepted, queue, live, lives, worker, host, report, calm>>

Life(t) == INSTANCE DlLife WITH state <- state[t], err <- err[t], sink <- sink[t]

Ended  == {"Done", "Failed", "Canceled"}
Active == {"Running", "Verifying"}
States == {"Pending"} \cup Active \cup Ended
Errors == {"Ok", "Network", "Canceled"}

Queued == {q.id : q \in heap}

InNoCall == [call |-> "none", at |-> "idle", id |-> 0, todo |-> {}]
Asleep   == [at |-> "sleep", todo |-> {}, id |-> 0, seen |-> "Pending",
             retired |-> {}, last |-> FALSE]
Untold   == [times |-> 0, state |-> "Pending", err |-> "Ok"]

HostStates ==
    [call : {"none", "cancel", "cancel_all", "shutdown"},
     at : {"idle", "drain", "find", "mark", "state", "flag", "notify", "join", "stopped", "freed"},
     id : Tasks \cup {0}, todo : SUBSET Tasks]

TickStates ==
    [at : {"sleep", "read", "call", "retire", "exit"}, todo : SUBSET Tasks,
     id : Tasks \cup {0}, seen : States, retired : SUBSET Tasks, last : BOOLEAN]

TypeOK ==
    /\ accepted \in 0 .. MaxTasks
    /\ live \subseteq 1 .. accepted /\ heap \subseteq [id : live, prio : Prios]
    /\ paused \in BOOLEAN /\ shutdown \in BOOLEAN /\ stop \in BOOLEAN /\ calm \in BOOLEAN
    /\ state \in [Tasks -> States] /\ err \in [Tasks -> Errors]
    /\ cancel \in [Tasks -> BOOLEAN]
    /\ sink \in [Tasks -> {"Closed", "Open", "Finished", "Aborted"}]
    /\ worker \in [Workers -> [at : {"take", "wait", "run", "exit"}, id : Tasks \cup {0}]]
    /\ host \in [Hosts -> HostStates]
    /\ tick \in TickStates /\ tick.todo \cup tick.retired \subseteq live
    /\ told \in [Tasks -> [times : Nat, state : States, err : Errors]]

Init ==
    /\ accepted = 0 /\ live = {} /\ heap = {}
    /\ paused = FALSE /\ shutdown = FALSE /\ stop = FALSE /\ calm = FALSE
    /\ state = [t \in Tasks |-> "Pending"] /\ err = [t \in Tasks |-> "Ok"]
    /\ cancel = [t \in Tasks |-> FALSE] /\ sink = [t \in Tasks |-> "Closed"]
    /\ worker = [w \in Workers |-> [at |-> "take", id |-> 0]]
    /\ host = [h \in Hosts |-> InNoCall]
    /\ tick = Asleep
    /\ told = [t \in Tasks |-> Untold]

-----------------------------------------------------------------------------
(***************************************************************************)
(* The host's calls.  Its threads are alike between calls: the first that  *)
(* is free makes the next one.  A host that shuts the manager down gives   *)
(* the handle up: no other call is under way then, and none comes after.   *)
(***************************************************************************)
Idle(h) ==
    /\ host[h].at = "idle" /\ \A g \in 1 .. h - 1 : host[g].at # "idle"
    /\ ~shutdown /\ Cardinality({g \in Hosts : host[g].at # "idle"}) < MaxCalls[accepted]

Becomes(h, r) == host' = [host EXCEPT ![h] = r]
Goes(h, l)   == Becomes(h, [host[h] EXCEPT !.at = l])
Wakes(h)     == Becomes(h, [InNoCall EXCEPT !.at = "notify"])

\* The lock of the tasks: cancel_all and shutdown take it for their first mark, where they
\* get an id, and have it to the last flag; all other uses of it are one step.
Locks(h)  == host[h].call \in {"cancel_all", "shutdown"} /\ host[h].id # 0
TasksFree == \A h \in Hosts : ~Locks(h)

\* Under the queue lock the task gets its id, its place among the tasks and in the
\* queue.
Enqueue(h, p) ==
    /\ Idle(h) /\ accepted < MaxTasks /\ TasksFree
    /\ LET t == accepted + 1 IN
          /\ accepted' = t /\ live' = live \cup {t}
          /\ heap' = heap \cup {[id |-> t, prio |-> p]}
    /\ Wakes(h)
    /\ UNCHANGED <<paused, shutdown, lives, worker, report, calm>>

\* remove_queued.
Cancel(h, t) ==
    /\ Idle(h) /\ t <= accepted
    /\ heap' = {q \in heap : q.id # t}
    /\ Becomes(h, [call |-> "cancel", at |-> "find", id |-> t, todo |-> Queued \cap {t}])
    /\ UNCHANGED <<accepted, paused, shutdown, live, lives, worker, report, calm>>

\* Mutant: a task that was not in the queue is ended like one that was.
FindMarks(h) ==
    /\ host[h].at = "find" /\ TasksFree
    /\ IF host[h].id \notin live THEN Becomes(h, InNoCall)
       ELSE Becomes(h, [host[h] EXCEPT !.at = "mark", !.todo = {host[h].id}])
    /\ UNCHANGED <<accepted, queue, live, lives, worker, report, calm>>

\* The task is looked up: retired, still to be marked, or with a worker.
Find(h) ==
    /\ host[h].at = "find" /\ TasksFree
    /\ LET t == host[h].id IN
          IF t \notin live THEN Becomes(h, InNoCall) /\ UNCHANGED cancel
          ELSE IF t \in host[h].todo THEN Goes(h, "mark") /\ UNCHANGED cancel
          ELSE Wakes(h) /\ cancel' = [cancel EXCEPT ![t] = @ \/ state[t] \notin Ended]
    /\ UNCHANGED <<accepted, queue, live, state, err, sink, worker, report, calm>>

\* mark_canceled: flag and error, then the state.
Mark(h, t) ==
    /\ host[h].at = "mark" /\ t \in host[h].todo
    /\ host[h].call = "cancel" \/ TasksFree \/ Locks(h)
    /\ cancel' = [cancel EXCEPT ![t] = TRUE] /\ err' = [err EXCEPT ![t] = "Canceled"]
    /\ Becomes(h, [host[h] EXCEPT !.at = "state", !.id = t])
    /\ UNCHANGED <<accepted, queue, live, state, sink, worker, report, calm>>

MarkState(h) ==
    /\ host[h].at = "state"
    /\ LET t == host[h].id
           rest == host[h].todo \ {t} IN
          /\ state' = [state EXCEPT ![t] = "Canceled"]
          /\ IF rest = {} /\ host[h].call = "cancel" THEN Wakes(h)
             ELSE Becomes(h, [host[h] EXCEPT !.todo = rest,
                                             !.at = IF rest = {} THEN "flag" ELSE "mark"])
    /\ UNCHANGED <<accepted, queue, live, err, cancel, sink, worker, report, calm>>

\* cancel_all takes the queue,
Drains(h, c) ==
    /\ heap' = {}
    /\ Becomes(h, [call |-> c, at |-> IF heap = {} THEN "flag" ELSE "mark",
                   id |-> 0, todo |-> Queued])
    /\ UNCHANGED <<accepted, paused, shutdown, live, lives, worker, report, calm>>

CancelAll(h) == Idle(h) /\ Drains(h, "cancel_all")

\* marks what was in the queue, and flags every task there is.  (A flag on a task that has
\* ended is never read, and not kept here.)
Flag(h) ==
    /\ host[h].at = "flag" /\ (TasksFree \/ Locks(h))
    /\ cancel' = [t \in Tasks |-> cancel[t] \/ (t \in live /\ state[t] \notin Ended)]
    /\ IF host[h].call = "shutdown"
       THEN Becomes(h, [InNoCall EXCEPT !.call = "shutdown", !.at = "notify"])
       ELSE Wakes(h)
    /\ UNCHANGED <<accepted, queue, live, state, err, sink, worker, report, calm>>

SetPriority(h, t, p) ==
    /\ Idle(h) /\ t \in Queued
    /\ heap' = {IF q.id = t THEN [q EXCEPT !.prio = p] ELSE q : q \in heap}
    /\ UNCHANGED <<accepted, paused, shutdown, live, lives, worker, host, report, calm>>

Pause(h) ==
    /\ Idle(h) /\ paused' = TRUE
    /\ UNCHANGED <<accepted, heap, shutdown, live, lives, worker, host, report, calm>>

Resume(h) ==
    /\ Idle(h) /\ paused' = FALSE /\ calm' = FALSE
    /\ Wakes(h)
    /\ UNCHANGED <<accepted, heap, shutdown, live, lives, worker, report>>

\* active_count returns 0 to a host that has paused dispatching.  It reads one state after
\* the other, which comes to one step as long as nobody resumes.
ActiveCountZero(h) ==
    /\ Idle(h) /\ paused /\ TasksFree /\ \A t \in live : state[t] \notin Active
    /\ calm' = TRUE
    /\ UNCHANGED <<accepted, queue, live, lives, worker, host, report>>

Shutdown(h) ==
    /\ Idle(h) /\ \A g \in Hosts : host[g].at = "idle"
    /\ shutdown' = TRUE /\ paused' = FALSE /\ calm' = FALSE
    /\ Becomes(h, [InNoCall EXCEPT !.call = "shutdown", !.at = "drain"])
    /\ UNCHANGED <<accepted, heap, live, lives, worker, report>>

ShutdownDrain(h) == host[h].at = "drain" /\ Drains(h, "shutdown")

Woken == [w \in Workers |->
             IF worker[w].at = "wait" THEN [worker[w] EXCEPT !.at = "take"] ELSE worker[w]]

\* Mutant: nobody is woken.
NotifyNone(h) ==
    /\ host[h].at = "notify"
    /\ IF host[h].call = "shutdown" THEN Goes(h, "join") ELSE Becomes(h, InNoCall)
    /\ UNCHANGED <<accepted, queue, live, lives, worker, report, calm>>

\* Every call that may give a worker something to do wakes them all at its end.
Notify(h) ==
    /\ host[h].at = "notify"
    /\ worker' = Woken
    /\ IF host[h].call = "shutdown" THEN Goes(h, "join") ELSE Becomes(h, InNoCall)
    /\ UNCHANGED <<accepted, queue, live, lives, report, calm>>

\* The workers are joined before the reporter is stopped.
Join(h) ==
    /\ host[h].at = "join" /\ \A w \in Workers : worker[w].at = "exit"
    /\ stop' = TRUE /\ Goes(h, "stopped")
    /\ UNCHANGED <<accepted, queue, live, lives, worker, tick, told, calm>>

Free(h) ==
    /\ host[h].at = "stopped" /\ tick.at = "exit"
    /\ Goes(h, "freed")
    /\ UNCHANGED <<accepted, queue, live, lives, worker, report, calm>>

HostStep(h) ==
    \/ Find(h) \/ (\E t \in Tasks : Mark(h, t)) \/ MarkState(h) \/ Flag(h)
    \/ ShutdownDrain(h) \/ Notify(h) \/ Join(h) \/ Free(h)

Call(h) ==
    \/ \E p \in Prios : Enqueue(h, p)
    \/ \E t \in Tasks : Cancel(h, t)
    \/ \E t \in Tasks, p \in Prios : SetPriority(h, t, p)
    \/ CancelAll(h) \/ Pause(h) \/ Resume(h) \/ ActiveCountZero(h) \/ Shutdown(h)

-----------------------------------------------------------------------------
(***************************************************************************)
(* Workers.                                                                *)
(***************************************************************************)
Stands(w, l, t) == worker' = [worker EXCEPT ![w] = [at |-> l, id |-> t]]

\* HeapTask's order: the higher priority, then the earlier arrival.
Before(q, r) == q.prio > r.prio \/ (q.prio = r.prio /\ q.id < r.id)
IsFirst(q)   == \A r \in heap \ {q} : Before(q, r)

\* Mutant: the task is Running only when its worker gets to it.
PopPending(w) ==
    /\ worker[w].at = "take" /\ ~shutdown /\ ~paused
    /\ \E q \in heap :
          /\ IsFirst(q) /\ heap' = heap \ {q}
          /\ Stands(w, "run", q.id)
    /\ UNCHANGED <<accepted, paused, shutdown, live, lives, host, report, calm>>

\* take_task: the task is Running before the queue lock is given back,
Pop(w) ==
    /\ worker[w].at = "take" /\ ~shutdown /\ ~paused
    /\ \E q \in heap :
          /\ IsFirst(q) /\ heap' = heap \ {q}
          /\ state' = [state EXCEPT ![q.id] = "Running"]
          /\ Stands(w, "run", q.id)
    /\ UNCHANGED <<accepted, paused, shutdown, live, err, cancel, sink, host, report, calm>>

\* or there is nothing to take,
Wait(w) ==
    /\ worker[w].at = "take" /\ ~shutdown /\ (paused \/ heap = {})
    /\ Stands(w, "wait", 0)
    /\ UNCHANGED <<accepted, queue, live, lives, host, report, calm>>

\* or nothing will be.
Exit(w) ==
    /\ worker[w].at = "take" /\ shutdown
    /\ Stands(w, "exit", 0)
    /\ UNCHANGED <<accepted, queue, live, lives, host, report, calm>>

\* What run_task does to its task, as far as others can see (DlTask has the rest):
\* it prepares the sink,
Runs(w, t) == worker[w].at = "run" /\ worker[w].id = t

Prepare(w, t) ==
    /\ Runs(w, t) /\ sink[t] = "Closed" /\ err[t] = "Ok"
    /\ sink' = [sink EXCEPT ![t] = "Open"]
    /\ UNCHANGED <<accepted, queue, live, state, err, cancel, worker, host, report, calm>>

\* has everything received,
Verify(w, t) ==
    /\ Runs(w, t) /\ sink[t] = "Open" /\ state[t] = "Running"
    /\ state' = [state EXCEPT ![t] = "Verifying"]
    /\ UNCHANGED <<accepted, queue, live, err, cancel, sink, worker, host, report, calm>>

\* finishes the sink, that of an empty file at once,
Finish(w, t) ==
    /\ Runs(w, t) /\ sink[t] = "Open"
    /\ sink' = [sink EXCEPT ![t] = "Finished"]
    /\ UNCHANGED <<accepted, queue, live, state, err, cancel, worker, host, report, calm>>

\* or gives up, aborting the sink if it was opened (one that fails to prepare is aborted
\* too, which is the same to others): as canceled only with the flag, and with one error
\* for all others,
GiveUp(w, t) ==
    /\ Runs(w, t) /\ sink[t] \in {"Closed", "Open"} /\ err[t] = "Ok"
    /\ \/ t \in Failing /\ err' = [err EXCEPT ![t] = "Network"]
       \/ /\ cancel[t] /\ sink[t] = "Open" /\ state[t] = "Running"
          /\ err' = [err EXCEPT ![t] = "Canceled"]
    /\ sink' = [sink EXCEPT ![t] = IF @ = "Open" THEN "Aborted" ELSE "Closed"]
    /\ UNCHANGED <<accepted, queue, live, state, cancel, worker, host, report, calm>>

\* and ends the task.
End(w, t) ==
    /\ Runs(w, t) /\ (sink[t] = "Finished" \/ err[t] # "Ok")
    /\ state' = [state EXCEPT ![t] = IF sink[t] = "Finished" THEN "Done"
                                     ELSE IF err[t] = "Canceled" THEN "Canceled" ELSE "Failed"]
    /\ Stands(w, "take", 0)
    /\ UNCHANGED <<accepted, queue, live, err, cancel, sink, host, report, calm>>

WorkerStep(w) ==
    \/ Pop(w) \/ Wait(w) \/ Exit(w)
    \/ \E t \in Tasks :
          Prepare(w, t) \/ Verify(w, t) \/ Finish(w, t) \/ GiveUp(w, t) \/ End(w, t)

-----------------------------------------------------------------------------
(***************************************************************************)
(* The reporter.                                                           *)
(***************************************************************************)
Ticks(r) == tick' = r

\* Mutant: the reporter stops without a last round.
TickStopping ==
    /\ tick.at = "sleep" /\ (live # {} \/ stop) /\ TasksFree
    /\ Ticks(IF stop THEN [Asleep EXCEPT !.at = "exit"]
             ELSE [Asleep EXCEPT !.at = "read", !.todo = live])
    /\ UNCHANGED <<accepted, queue, live, lives, worker, host, stop, told, calm>>

\* A round begins with a snapshot of the tasks; once stopped, it is the last.  With no
\* task it changes nothing.
Tick ==
    /\ tick.at = "sleep" /\ (live # {} \/ stop) /\ TasksFree
    /\ Ticks([Asleep EXCEPT !.at = IF live = {} THEN "exit" ELSE "read",
                            !.todo = live, !.last = stop])
    /\ UNCHANGED <<accepted, queue, live, lives, worker, host, stop, told, calm>>

\* The state of a task is read,
ReadState(t) ==
    /\ tick.at = "read" /\ t \in tick.todo
    /\ Ticks([tick EXCEPT !.at = "call", !.id = t, !.seen = state[t]])
    /\ UNCHANGED <<accepted, queue, live, lives, worker, host, stop, told, calm>>

\* and then its error.  The end of a task is always news to report_tick, which only
\* remembers states of tasks that go on; their progress is left out.
Report ==
    /\ tick.at = "call"
    /\ LET t    == tick.id
           s    == tick.seen
           rest == tick.todo \ {t} IN
          /\ told' = IF s \in Ended
                     THEN [told EXCEPT ![t] = [times |-> @.times + 1, state |-> s, err |-> err[t]]]
                     ELSE told
          /\ Ticks([tick EXCEPT !.todo = rest, !.id = 0, !.seen = "Pending",
                                !.retired = IF s \in Ended THEN @ \cup {t} ELSE @,
                                !.at = IF rest = {} THEN "retire" ELSE "read"])
    /\ UNCHANGED <<accepted, queue, live, lives, worker, host, stop, calm>>

\* Mutant: tasks stay when they were reported.
RetireNone ==
    /\ tick.at = "retire" /\ TasksFree
    /\ UNCHANGED live
    /\ Ticks([Asleep EXCEPT !.at = IF tick.last THEN "exit" ELSE "sleep"])
    /\ UNCHANGED <<accepted, queue, lives, worker, host, stop, told, calm>>

\* The round ends: what ended leaves the tasks.
Retire ==
    /\ tick.at = "retire" /\ TasksFree
    /\ live' = live \ tick.retired
    /\ Ticks([Asleep EXCEPT !.at = IF tick.last THEN "exit" ELSE "sleep"])
    /\ UNCHANGED <<accepted, queue, lives, worker, host, stop, told, calm>>

Reporter == Tick \/ (\E t \in Tasks : ReadState(t)) \/ Report \/ Retire

-----------------------------------------------------------------------------
Next ==
    \/ \E h \in Hosts : Call(h) \/ HostStep(h)
    \/ \E w \in Workers : WorkerStep(w)
    \/ Reporter

Spec == Init /\ [][Next]_vars

\* Threads run: a call that was begun goes on, so does a worker with work to do, an
\* attempt ends (DlTask), and the reporter wakes up again and again.
FairSpec ==
    /\ Spec /\ WF_vars(Reporter)
    /\ \A h \in Hosts : WF_vars(HostStep(h))
    /\ \A w \in Workers : WF_vars(WorkerStep(w))

-----------------------------------------------------------------------------
(***************************************************************************)
(* Properties.                                                             *)
(***************************************************************************)

\* Whoever touches a task - its worker, a cancel that found it in the queue, a
\* cancel_all, a shutdown - it lives one life: it ends once, in a state that stays,
\* with its sink closed and its error shown before (mod.rs mark_canceled, worker.rs
\* terminal).
LivesImplement ==
    /\ \A t \in Tasks : Life(t)!Init
    /\ [][\A t \in Tasks : Life(t)!Next \/ UNCHANGED Life(t)!vars]_vars

\* The reporter tells the end of a task once, in its final state and with the error
\* that belongs to it, and only when neither a worker nor the queue holds it any
\* more: the host may then release the sink (report.rs; mod.rs:383).
ToldOnce ==
    \A t \in Tasks : told[t].times > 0 =>
        /\ told[t].times = 1 /\ told[t].state = state[t] /\ told[t].err = err[t]
        /\ t \notin Queued /\ \A w \in Workers : ~Runs(w, t)

\* Where a task is, and that it is in one place only: in the queue, with a call that is
\* to mark it canceled, or with a worker.
HoldInv ==
    /\ \A q, r \in heap : q.id = r.id => q = r
    /\ \A h \in Hosts : host[h].todo \subseteq live \ Queued
    /\ \A h, g \in Hosts : h # g => host[h].todo \cap host[g].todo = {}
    /\ \A w \in Workers, t \in Tasks : Runs(w, t) =>
          /\ t \in live \ Queued /\ \A h \in Hosts : t \notin host[h].todo
          /\ \A v \in Workers : Runs(v, t) => v = w

\* Where a call is, and what it still has to mark.
HostInv ==
    \A h \in Hosts :
        /\ host[h].at \notin {"find", "mark", "state"} => host[h].todo = {}
        /\ host[h].at = "find" => host[h].todo \subseteq {host[h].id}
        /\ host[h].at = "state" => host[h].id \in host[h].todo

\* What the place of a task says of its life: in the queue it is as it came, a call
\* marks the error before the state, a worker's task is not at its end, and one that is
\* nowhere is.
QueuedFresh ==
    \A t \in Tasks : t \in Queued \/ t > accepted =>
        state[t] = "Pending" /\ err[t] = "Ok" /\ sink[t] = "Closed"

MarkedLive ==
    \A h \in Hosts : \A t \in host[h].todo :
        /\ state[t] = "Pending" /\ sink[t] = "Closed"
        /\ err[t] = IF host[h].at = "state" /\ host[h].id = t THEN "Canceled" ELSE "Ok"

RunLive ==
    \A w \in Workers, t \in Tasks : Runs(w, t) =>
        /\ state[t] \in Active /\ (sink[t] = "Closed" => state[t] = "Running")
        /\ sink[t] \in {"Open", "Finished"} => err[t] = "Ok"
        /\ sink[t] = "Aborted" => err[t] # "Ok"

NoneLost ==
    \A t \in 1 .. accepted :
        \/ t \in Queued \/ state[t] \in Ended
        \/ \E h \in Hosts : t \in host[h].todo
        \/ \E w \in Workers : Runs(w, t)

EndsTell == \A t \in Tasks : Life(t)!EndTells

LifeInv == QueuedFresh /\ MarkedLive /\ RunLive /\ NoneLost /\ EndsTell

\* What the reporter knows of a round, and what it has told.
RoundInv ==
    /\ tick.todo \cap tick.retired = {}
    /\ tick.at \in {"sleep", "exit"} => tick.todo = {} /\ tick.retired = {}
    /\ tick.at = "retire" => tick.todo = {}
    /\ tick.at = "call" =>
          tick.id \in tick.todo /\ (tick.seen \in Ended => state[tick.id] = tick.seen)
    /\ \A t \in tick.retired : state[t] \in Ended

TellInv ==
    \A t \in Tasks :
        /\ told[t].times = IF t <= accepted /\ t \notin live \ tick.retired THEN 1 ELSE 0
        /\ told[t].times > 0 =>
              state[t] \in Ended /\ told[t].state = state[t] /\ told[t].err = err[t]

\* What a shutdown has brought to an end at each of its places.
Over(h) == host[h].at \in {"stopped", "freed"}

CallInv ==
    \A h \in Hosts :
        /\ host[h].call = "shutdown" => shutdown /\ \A g \in Hosts \ {h} : host[g].at = "idle"
        /\ host[h].at \in {"drain", "join", "stopped", "freed"} => host[h].call = "shutdown"
        /\ host[h].call = "shutdown" /\ host[h].at # "drain" => heap = {}
        /\ Over(h) => \A w \in Workers : worker[w].at = "exit"
        /\ host[h].at = "freed" => tick.at = "exit"

LastInv ==
    /\ stop => \E h \in Hosts : Over(h)
    /\ tick.at = "exit" => stop /\ live = {}
    /\ tick.last => stop
    /\ tick.last /\ tick.at \in {"read", "call", "retire"} => live = tick.todo \cup tick.retired
    /\ tick.last /\ tick.at = "call" => tick.seen \in Ended

CalmInv == calm => paused /\ \A w \in Workers, t \in Tasks : ~Runs(w, t)

\* The state has its type, tasks are where they should be, and what the reporter has
\* told is true: the inductive invariant of DlManagerProofs, with the end of a task told
\* at most once, truly and last (report.rs:45).
ManagerInv ==
    /\ TypeOK /\ HoldInv /\ HostInv /\ LifeInv /\ RoundInv /\ TellInv
    /\ CallInv /\ LastInv /\ CalmInv /\ ToldOnce

\* No end goes untold: when the manager is freed every task it ever took was
\* reported (mod.rs dlmgr_shutdown; report.rs:36-39).
FreedAllTold ==
    \A h \in Hosts : host[h].at = "freed" => \A t \in 1 .. accepted : told[t].times = 1

\* A host that paused and then counted no active task has the store for itself: no
\* sink is open and no worker has a task until it resumes (mod.rs:316).
CalmMeansIdle ==
    calm => \A t \in Tasks : sink[t] # "Open" /\ \A w \in Workers : ~Runs(w, t)

\* Again and again the manager is paused or owes nothing: every task it accepted was
\* reported ended, and a shutdown has freed it.  No wake-up of a worker is lost, the
\* reporter forgets nothing, and shutdown does not deadlock (mod.rs:390).
Settles ==
    []<>(\/ paused
         \/ /\ \A t \in 1 .. accepted : told[t].times > 0
            /\ shutdown => \E h \in Hosts : host[h].at = "freed")
=============================================================================
