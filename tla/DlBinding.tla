----------------------------- MODULE DlBinding -----------------------------
(***************************************************************************)
(* The host's sessions with the native library: threads that initialise    *)
(* libcurl, take fd_sets, create managers and shut them down, each with a  *)
(* share of its own, and register callbacks, whose delegates the C#        *)
(* binding has to keep from the collector as long as native code may call  *)
(* them (DownloadManager.cs, dlmgr/mod.rs, report.rs, over Curlw).         *)
(*                                                                         *)
(* A manager is known by its address, which is free for the next manager   *)
(* as soon as dlmgr_shutdown has freed it.                                 *)
(***************************************************************************)
EXTENDS Curlw, FiniteSets

CONSTANTS
    Hosts,          (* threads                                             *)
    Addresses,      (* where managers are                                  *)
    MaxSessions, MaxManagers, MaxDelegates  (* bounds: how many there are  *)

ASSUME BindingAssumption ==
    IsFiniteSet(Hosts) /\ Nobody \notin Hosts /\ 0 \notin Addresses

VARIABLES
    host,           (* each thread: the step it is at, whether it has      *)
                    (* libcurl initialised, the pool it has loaded, its    *)
                    (* fd_set, its manager, a share and a delegate         *)
    manager,        (* each address: what is there                         *)
    reporter,       (* each manager's reporter and the callback it has read*)
    worker,         (* each manager's worker and the share its handle uses *)
    kept,           (* s_handleCallbacks                                   *)
    overtaken,      (* history: managers made where the entry of the last  *)
                    (* one had not been removed yet                        *)
    sessions, managers, delegates   (* how many there have been            *)

counts == <<sessions, managers, delegates>>
native == <<manager, reporter, worker, overtaken>>
vars   == <<curlwVars, host, native, kept, counts>>

NoSet     == <<0, 0>>
Outside   == [at |-> "idle", in |-> FALSE, ptr |-> 0, set |-> NoSet, mgr |-> 0,
              share |-> 0, cb |-> 0]
NoManager == [there |-> FALSE, share |-> 0, slot |-> 0]
NoThread  == [at |-> "none", cb |-> 0]
NoWorker  == [at |-> "none", share |-> 0]

Init ==
    /\ CurlwInit
    /\ host = [t \in Hosts |-> Outside]
    /\ manager = [a \in Addresses |-> NoManager]
    /\ reporter = [a \in Addresses |-> NoThread]
    /\ worker = [a \in Addresses |-> NoWorker]
    /\ kept = [a \in Addresses |-> {}] /\ overtaken = {}
    /\ sessions = 0 /\ managers = 0 /\ delegates = 0

At(t, step)   == host[t].at = step
Idle(t)       == At(t, "idle") /\ host[t].in
Becomes(t, r) == host' = [host EXCEPT ![t] = r]
Goto(t, step) == Becomes(t, [host[t] EXCEPT !.at = step])

-----------------------------------------------------------------------------
(***************************************************************************)
(* A thread's session: between its initialisation and its clean-up, which  *)
(* it calls when it has given everything back.                             *)
(***************************************************************************)
Enter(t) ==
    /\ At(t, "idle") /\ ~host[t].in
    /\ sessions < MaxSessions /\ sessions' = sessions + 1
    /\ GlobalInit
    /\ Becomes(t, [Outside EXCEPT !.in = TRUE])
    /\ UNCHANGED <<native, kept, managers, delegates>>

Leave(t) ==
    /\ Idle(t) /\ host[t].set = NoSet /\ host[t].mgr = 0
    /\ GlobalCleanup
    /\ Becomes(t, Outside)
    /\ UNCHANGED <<native, kept, counts>>

\* allocfds and freefds load the pointer to the pool, then use it.
LoadPool(t) ==
    /\ Idle(t)
    /\ Becomes(t, [host[t] EXCEPT !.at = IF host[t].set = NoSet THEN "alloc" ELSE "free",
                                  !.ptr = pool.it])
    /\ UNCHANGED <<curlwVars, native, kept, counts>>

AllocFds(t) ==
    /\ At(t, "alloc")
    /\ Allocate
    /\ Becomes(t, [host[t] EXCEPT !.at = "idle", !.ptr = 0, !.set = Allocated])
    /\ UNCHANGED <<native, kept, counts>>

FreeFds(t) ==
    /\ At(t, "free")
    /\ Deallocate(host[t].set)
    /\ Becomes(t, [host[t] EXCEPT !.at = "idle", !.ptr = 0, !.set = NoSet])
    /\ UNCHANGED <<native, kept, counts>>

-----------------------------------------------------------------------------
(***************************************************************************)
(* dlmgr_create and dlmgr_start.                                           *)
(***************************************************************************)
Create(t) ==
    /\ Idle(t) /\ host[t].mgr = 0
    /\ managers < MaxManagers /\ managers' = managers + 1
    /\ \E s \in Shares :
          /\ ShareInit(s)
          /\ Becomes(t, [host[t] EXCEPT !.at = "enable", !.share = s])
    /\ UNCHANGED <<native, kept, sessions, delegates>>

EnableDefaultLocks(t) ==
    /\ At(t, "enable")
    /\ \/ (AlreadyEnabled(host[t].share) \/ EnableLocks(host[t].share)) /\ Goto(t, "make")
       \/ EnableFails(host[t].share) /\ Goto(t, "cleanup")
    /\ UNCHANGED <<native, kept, counts>>

\* A thread that is about to drop what is kept for address a.
Removing(a) == {t \in Hosts : At(t, "remove") /\ host[t].mgr = a}

Make(t) ==
    /\ At(t, "make")
    /\ \E a \in Addresses :
          /\ ~manager[a].there
          /\ manager' = [manager EXCEPT ![a] =
                            [there |-> TRUE, share |-> host[t].share, slot |-> 0]]
          /\ Becomes(t, [host[t] EXCEPT !.at = "idle", !.mgr = a, !.share = 0])
          /\ overtaken' = IF Removing(a) # {} THEN overtaken \cup {a} ELSE overtaken
    /\ UNCHANGED <<curlwVars, reporter, worker, kept, counts>>

Start(t) ==
    /\ Idle(t) /\ host[t].mgr # 0 /\ reporter[host[t].mgr].at = "none"
    /\ reporter' = [reporter EXCEPT ![host[t].mgr] = [at |-> "sleep", cb |-> 0]]
    /\ worker' = [worker EXCEPT ![host[t].mgr] =
                     [at |-> "new", share |-> manager[host[t].mgr].share]]
    /\ UNCHANGED <<curlwVars, host, manager, overtaken, kept, counts>>

\* worker_loop: the worker configures its handle, or goes on without one.
Configure(a) ==
    /\ worker[a].at = "new"
    /\ \/ Attach(worker[a].share) /\ worker' = [worker EXCEPT ![a].at = "ready"]
       \/ UNCHANGED curlwVars /\ worker' = [worker EXCEPT ![a].at = "bare"]
    /\ UNCHANGED <<host, manager, reporter, overtaken, kept, counts>>

\* A host that shuts the manager at a down.
Joining(a) == \E t \in Hosts : At(t, "join") /\ host[t].mgr = a

\* The worker sees the shutdown, cleans its handle up and ends.
WorkerEnds(a) ==
    /\ Joining(a) /\ worker[a].at \in {"ready", "bare"}
    /\ IF worker[a].at = "ready" THEN Detach(worker[a].share) ELSE UNCHANGED curlwVars
    /\ worker' = [worker EXCEPT ![a] = NoWorker]
    /\ UNCHANGED <<host, manager, reporter, overtaken, kept, counts>>

-----------------------------------------------------------------------------
(***************************************************************************)
(* Callbacks: the delegate is kept, then native code is told; the reporter *)
(* reads the slot and calls what it has read later.                        *)
(***************************************************************************)
\* Mutant: one callback is kept for a manager, the last.
KeepAliveLast(a, d) == kept' = [kept EXCEPT ![a] = {d}]

KeepAlive(a, d) == kept' = [kept EXCEPT ![a] = @ \cup {d}]

SetCallback(t) ==
    /\ Idle(t) /\ host[t].mgr # 0
    /\ delegates < MaxDelegates /\ delegates' = delegates + 1
    /\ KeepAlive(host[t].mgr, delegates')
    /\ Becomes(t, [host[t] EXCEPT !.at = "set", !.cb = delegates'])
    /\ UNCHANGED <<curlwVars, native, sessions, managers>>

SetSlot(t) ==
    /\ At(t, "set")
    /\ manager' = [manager EXCEPT ![host[t].mgr].slot = host[t].cb]
    /\ Becomes(t, [host[t] EXCEPT !.at = "idle", !.cb = 0])
    /\ UNCHANGED <<curlwVars, reporter, worker, overtaken, kept, counts>>

\* A null callback clears the slot; what was kept stays.
ClearCallback(t) ==
    /\ Idle(t) /\ host[t].mgr # 0 /\ manager[host[t].mgr].slot # 0
    /\ manager' = [manager EXCEPT ![host[t].mgr].slot = 0]
    /\ UNCHANGED <<curlwVars, host, reporter, worker, overtaken, kept, counts>>

\* report_tick.
ReadSlot(a) ==
    /\ reporter[a].at = "sleep" /\ manager[a].slot # 0
    /\ reporter' = [reporter EXCEPT ![a] = [at |-> "call", cb |-> manager[a].slot]]
    /\ UNCHANGED <<curlwVars, host, manager, worker, overtaken, kept, counts>>

CallBack(a) ==
    /\ reporter[a].at = "call"
    /\ reporter' = [reporter EXCEPT ![a] = [at |-> "sleep", cb |-> 0]]
    /\ UNCHANGED <<curlwVars, host, manager, worker, overtaken, kept, counts>>

-----------------------------------------------------------------------------
(***************************************************************************)
(* dlmgr_shutdown: the reporter is joined, the share cleaned up, the       *)
(* manager freed; then the binding removes what it kept.  A create that    *)
(* failed cleans its share up too.                                         *)
(***************************************************************************)
Shutdown(t) ==
    /\ Idle(t) /\ host[t].mgr # 0
    /\ Becomes(t, [host[t] EXCEPT !.at = "join", !.share = manager[host[t].mgr].share])
    /\ UNCHANGED <<curlwVars, native, kept, counts>>

Join(t) ==
    /\ At(t, "join") /\ reporter[host[t].mgr].at # "call" /\ worker[host[t].mgr] = NoWorker
    /\ reporter' = [reporter EXCEPT ![host[t].mgr] = NoThread]
    /\ Goto(t, "cleanup")
    /\ UNCHANGED <<curlwVars, manager, worker, overtaken, kept, counts>>

Freed(t) == [host[t] EXCEPT !.at = IF host[t].mgr = 0 THEN "idle" ELSE "drop", !.share = 0]

\* dlmgr does not look at the result.
Cleanup(t) ==
    /\ At(t, "cleanup")
    /\ ShareCleanup(t, host[t].share)
    /\ Becomes(t, IF share[host[t].share].users = 0 THEN [host[t] EXCEPT !.at = "erase"] ELSE Freed(t))
    /\ UNCHANGED <<native, kept, counts>>

Erase(t) ==
    /\ At(t, "erase")
    /\ ShareErase(host[t].share)
    /\ Becomes(t, Freed(t))
    /\ UNCHANGED <<native, kept, counts>>

Drop(t) ==
    /\ At(t, "drop")
    /\ manager' = [manager EXCEPT ![host[t].mgr] = NoManager]
    /\ overtaken' = overtaken \ {host[t].mgr}
    /\ Goto(t, "remove")
    /\ UNCHANGED <<curlwVars, reporter, worker, kept, counts>>

Remove(t) ==
    /\ At(t, "remove")
    /\ kept' = [kept EXCEPT ![host[t].mgr] = {}]
    /\ Becomes(t, [host[t] EXCEPT !.at = "idle", !.mgr = 0])
    /\ UNCHANGED <<curlwVars, native, counts>>

Next ==
    \/ \E t \in Hosts :
          \/ Enter(t) \/ Leave(t) \/ LoadPool(t) \/ AllocFds(t) \/ FreeFds(t)
          \/ Create(t) \/ EnableDefaultLocks(t) \/ Make(t) \/ Start(t)
          \/ SetCallback(t) \/ SetSlot(t) \/ ClearCallback(t)
          \/ Shutdown(t) \/ Join(t) \/ Cleanup(t) \/ Erase(t) \/ Drop(t) \/ Remove(t)
    \/ \E a \in Addresses : ReadSlot(a) \/ CallBack(a) \/ Configure(a) \/ WorkerEnds(a)

Spec == Init /\ [][Next]_vars

-----------------------------------------------------------------------------
Steps == {"idle", "alloc", "free", "enable", "make", "set", "join", "cleanup", "erase",
          "drop", "remove"}

HostStates == [at : Steps, in : BOOLEAN, ptr : Nat, set : Nat \X Nat,
               mgr : Addresses \cup {0}, share : Shares \cup {0}, cb : Nat]

BindingTypeOK ==
    /\ inits \in Nat /\ curlInits \in Nat
    /\ pool \in [it : Nat, made : Nat, sets : Nat, free : Seq(Nat \X Nat)]
    /\ share \in [Shares -> [there : BOOLEAN, locking : BOOLEAN, user : Nat, users : Nat]]
    /\ locks \in [Shares -> Nat] /\ lockSets \in Nat
    /\ mapHolder \in Hosts \cup {Nobody}
    /\ host \in [Hosts -> HostStates]
    /\ manager \in [Addresses -> [there : BOOLEAN, share : Shares \cup {0}, slot : Nat]]
    /\ reporter \in [Addresses -> [at : {"none", "sleep", "call"}, cb : Nat]]
    /\ worker \in [Addresses -> [at : {"none", "new", "ready", "bare"},
                                 share : Shares \cup {0}]]
    /\ kept \in [Addresses -> SUBSET Nat] /\ overtaken \subseteq Addresses
    /\ delegates \in Nat

\* What goes with the step a thread is at.
Fits(h) ==
    /\ ~h.in => h = Outside
    /\ h.at = "alloc" => h.set = NoSet
    /\ h.at = "free" => h.set # NoSet
    /\ h.at \in {"set", "join", "drop", "remove"} => h.mgr # 0
    /\ h.at \in {"enable", "make"} => h.mgr = 0
    /\ h.share # 0 <=> h.at \in {"enable", "make", "join", "cleanup", "erase"}
    /\ h.mgr # 0 /\ h.share # 0 => h.share = manager[h.mgr].share

StepInv == \A t \in Hosts : Fits(host[t])

\* The sets that are out or free are of the pool there is.
PoolInv ==
    /\ pool.it # 0 <=> inits > 0
    /\ \A t \in Hosts : host[t].set # NoSet => host[t].set \in {pool.it} \X (1 .. pool.sets)
    /\ \A i \in 1 .. Len(pool.free) :
          /\ pool.free[i] \in {pool.it} \X (1 .. pool.sets)
          /\ \A j \in 1 .. Len(pool.free) : pool.free[i] = pool.free[j] => i = j

\* A manager is its host's until the host has dropped it, and so are its threads.
Owns(t, a) == host[t].mgr = a /\ ~At(t, "remove")

Manned(a) ==
    /\ manager[a].there => manager[a].share # 0 /\ (\E t \in Hosts : Owns(t, a))
    /\ ~manager[a].there => /\ manager[a] = NoManager /\ reporter[a] = NoThread
                            /\ worker[a] = NoWorker
    /\ worker[a].at # "none" => worker[a].share = manager[a].share
    /\ worker[a].at = "none" => worker[a] = NoWorker
    /\ reporter[a].at = "none" => reporter[a] = NoThread /\ worker[a] = NoWorker

OwnInv ==
    /\ \A t, u \in Hosts, a \in Addresses : Owns(t, a) /\ Owns(u, a) => t = u
    /\ \A a \in Addresses : Manned(a)
    /\ \A t \in Hosts, a \in Addresses : Owns(t, a) =>
          /\ manager[a].there
          /\ host[t].at \in {"cleanup", "erase", "drop"} =>
                reporter[a] = NoThread /\ worker[a] = NoWorker

\* A share is there for one thread: that of its manager, or the one that makes it.  It is
\* gone, and its address may be another's, while its lock set is erased.
Holding(t) ==
    IF At(t, "erase") \/ At(t, "drop") \/ At(t, "remove") THEN 0
    ELSE IF host[t].mgr # 0 THEN manager[host[t].mgr].share ELSE host[t].share

Locked(t) == Holding(t) # 0 /\ (host[t].mgr # 0 \/ At(t, "make"))

\* A handle uses the share.
InUse(s) == \E a \in Addresses : worker[a].at = "ready" /\ worker[a].share = s

\* Every share is some thread's, every lock set that of a share or of one that was, and
\* no two handles use one share.
Accounted(s) ==
    /\ share[s].there => \E t \in Hosts : Holding(t) = s
    /\ locks[s] # 0 => \E t \in Hosts : \/ (Locked(t) /\ Holding(t) = s)
                                       \/ (At(t, "erase") /\ host[t].share = s)
    /\ share[s].users = IF InUse(s) THEN 1 ELSE 0

ShareInv ==
    /\ \A t \in Hosts : At(t, "erase") <=> mapHolder = t
    /\ \A t, u \in Hosts : Holding(t) # 0 /\ Holding(t) = Holding(u) => t = u
    /\ \A t, u \in Hosts : At(t, "erase") /\ Holding(u) = host[t].share => At(u, "enable")
    /\ \A t \in Hosts : Holding(t) # 0 => share[Holding(t)].there
    /\ \A t \in Hosts : Locked(t) =>
          LET s == Holding(t) IN
          share[s].locking /\ locks[s] # 0 /\ share[s].user = locks[s]
    /\ \A s \in Shares : Accounted(s)

\* A delegate is kept from before native code has it, and lost with the entry of an
\* earlier manager only.
KeptInv ==
    /\ \A t \in Hosts : At(t, "set") /\ host[t].mgr \notin overtaken =>
          host[t].cb \in kept[host[t].mgr]
    /\ \A a \in Addresses : manager[a].there /\ a \notin overtaken => Removing(a) = {}

SetSafe(t) ==
    LET set == host[t].set IN
    /\ host[t].at \in {"alloc", "free"} => host[t].ptr = pool.it
    /\ set # NoSet =>
          /\ set[1] = pool.it
          /\ \A i \in 1 .. Len(pool.free) : pool.free[i] # set
          /\ \A u \in Hosts \ {t} : host[u].set # set

\* Threads that each initialise and clean up for themselves never see the pool of
\* another session: the pool a thread has loaded is the one there is, no set is
\* two threads' or free while it is used, and libcurl is initialised as often as
\* the wrapper thinks (curlw/mod.rs:180, platform.rs:144).
PoolSafe ==
    /\ inits = curlInits /\ inits = Cardinality({t \in Hosts : host[t].in})
    /\ \A t \in Hosts : SetSafe(t)

\* Whatever uses a share, a manager or the handle of one of its workers, finds it
\* there and locking, with a lock set that is still there, although libcurl may
\* hand its address out again before the old lock set is erased (curlw/mod.rs:952
\* "can't be seen out of sync"), and no share is left behind in a clean-up that
\* came before the last handle was gone (dlmgr/mod.rs:412).
LocksLive ==
    /\ \A a \in Addresses :
          LET s == manager[a].share IN
          /\ manager[a].there /\ ~(\E t \in Hosts : host[t].mgr = a /\ host[t].at \in {"erase", "drop"})
                => share[s].there /\ share[s].locking /\ locks[s] # 0 /\ share[s].user = locks[s]
          /\ worker[a].at = "ready" => manager[a].there /\ worker[a].share = s
    /\ \A s \in Shares : share[s].there =>
          \/ \E a \in Addresses : manager[a].there /\ manager[a].share = s
          \/ \E t \in Hosts : host[t].share = s

\* A delegate is kept as long as a manager may call it, over registrations,
\* replacements and clearings that race with the reporter, and no longer than the
\* manager: DownloadManager.cs:196 "MUST survive as long as it is registered".  A
\* manager made in the place of one whose entry was not removed yet is exempt: its
\* delegates are lost with that entry (DownloadManager.cs:145).
DelegatesKept ==
    \A a \in Addresses :
        /\ a \notin overtaken => {manager[a].slot, reporter[a].cb} \ {0} \subseteq kept[a]
        /\ ~manager[a].there /\ Removing(a) = {} => kept[a] = {}

\* The state has its type and everything its owner: each set, share, lock set, thread
\* and manager is one host's (curlw/mod.rs:180, 952; dlmgr/mod.rs:412).
BindingInv ==
    /\ BindingTypeOK /\ StepInv /\ PoolInv /\ PoolSafe /\ OwnInv /\ ShareInv
    /\ KeptInv /\ DelegatesKept
=============================================================================
