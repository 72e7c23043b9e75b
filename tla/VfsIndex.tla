------------------------------ MODULE VfsIndex ------------------------------
(***************************************************************************)
(* Who may touch the index when (vfs/mod.rs): writers that live between    *)
(* alloc and commit or abort, compactions that exclude them, the status    *)
(* and the done callback a compaction shows, and a client that enumerates  *)
(* in two calls under a generation.  Every action is one critical section  *)
(* of the inner lock or one step outside it.                               *)
(***************************************************************************)
EXTENDS Naturals, FiniteSets

CONSTANTS
    Names,        (* the names of files                                    *)
    Runs,         (* the compactions there may be, a thread each           *)
    OpenFails,    (* the names whose writer's own handle may fail to open  *)
    MaxGen        (* bound: changes of the index                           *)

ASSUME IndexAssumption ==
    /\ IsFiniteSet(Names) /\ IsFiniteSet(Runs)
    /\ OpenFails \subseteq Names /\ MaxGen \in Nat

States == {"none", "downloading", "active", "deleted", "bad"}

VARIABLES
    state,        (* of each name, "none" when it has no entry             *)
    gen,          (* the generation of the index                           *)
    writers,      (* Inner.writers                                         *)
    writer,       (* the writer of each name: none, its handle being       *)
                  (* opened, open, or written to the end                   *)
    compacting,   (* Inner.compacting                                      *)
    status,       (* CompactCtl.state                                      *)
    run,          (* where each compaction is                              *)
    dones,        (* how often each compaction's done callback was called  *)
    query         (* the client's enumeration                              *)

vars == <<state, gen, writers, writer, compacting, status, run, dones, query>>
compactVars == <<compacting, status, run, dones>>

Present(st) == {f \in Names : st[f] # "none"}
Idle == [step |-> "idle", gen |-> 0, asked |-> {}, got |-> [f \in Names |-> "none"]]

TypeOK ==
    /\ state \in [Names -> States]
    /\ gen \in Nat /\ writers \in Nat
    /\ writer \in [Names -> {"none", "opening", "open", "full"}]
    /\ compacting \in BOOLEAN
    /\ status \in {"idle", "scan", "move", "finalize"}
    /\ run \in [Runs -> {"new", "locked", "scan", "move", "finalize", "over",
                         "unlocked", "calling", "ended"}]
    /\ dones \in [Runs -> Nat]
    /\ query \in [step : {"idle", "asked", "checked", "read"}, gen : Nat,
                  asked : SUBSET Names, got : [Names -> States]]

Init ==
    /\ state = [f \in Names |-> "none"] /\ gen = 1
    /\ writers = 0 /\ writer = [f \in Names |-> "none"]
    /\ compacting = FALSE /\ status = "idle"
    /\ run = [r \in Runs |-> "new"] /\ dones = [r \in Runs |-> 0]
    /\ query = Idle

-----------------------------------------------------------------------------
(***************************************************************************)
(* Writers.                                                                *)
(***************************************************************************)
Bump == gen < MaxGen /\ gen' = gen + 1
Become(f, st) == state' = [state EXCEPT ![f] = st]
Writer(f, w)  == writer' = [writer EXCEPT ![f] = w]

\* alloc registers the entry and counts the writer; when the data file cannot be
\* grown both are undone in the same critical section.
Alloc(f) ==
    /\ ~compacting /\ state[f] \in {"none", "deleted"}
    /\ Bump
    /\ \/ Become(f, "downloading") /\ Writer(f, "opening") /\ writers' = writers + 1
       \/ Become(f, "none") /\ UNCHANGED <<writer, writers>>
    /\ UNCHANGED <<compactVars, query>>

\* ... then opens a handle of its own outside the lock, and undoes both in a
\* second critical section when that fails.
OpenHandle(f) ==
    /\ writer[f] = "opening"
    /\ Writer(f, "open")
    /\ UNCHANGED <<state, gen, writers, compactVars, query>>

\* Mutant: the writer is still counted.
OpenFailedCounted(f) ==
    /\ f \in OpenFails /\ writer[f] = "opening"
    /\ Become(f, "none") /\ Writer(f, "none")
    /\ UNCHANGED <<gen, writers, compactVars, query>>

OpenFailed(f) ==
    /\ f \in OpenFails /\ writer[f] = "opening"
    /\ Become(f, "none") /\ Writer(f, "none") /\ writers' = writers - 1
    /\ UNCHANGED <<gen, compactVars, query>>

WriteAll(f) ==
    /\ writer[f] = "open"
    /\ Writer(f, "full")
    /\ UNCHANGED <<state, gen, writers, compactVars, query>>

Committed(f) ==
    /\ writer[f] = "full" /\ ~compacting /\ state[f] = "downloading"
    /\ Bump
    /\ Become(f, "active") /\ Writer(f, "none") /\ writers' = writers - 1
    /\ UNCHANGED <<compactVars, query>>

\* Mutant: the entry goes under the same generation.
AbortedSilently(f) ==
    /\ writer[f] \in {"open", "full"}
    /\ Become(f, "none") /\ Writer(f, "none") /\ writers' = writers - 1
    /\ UNCHANGED <<gen, compactVars, query>>

\* abort, a commit that is refused, or the writer dropped.
Aborted(f) ==
    /\ writer[f] \in {"open", "full"}
    /\ Bump
    /\ Become(f, "none") /\ Writer(f, "none")
    /\ writers' = IF writers = 0 THEN 0 ELSE writers - 1
    /\ UNCHANGED <<compactVars, query>>

Delete(f) ==
    /\ ~compacting /\ state[f] = "active"
    /\ Bump
    /\ Become(f, "deleted")
    /\ UNCHANGED <<writers, writer, compactVars, query>>

-----------------------------------------------------------------------------
(***************************************************************************)
(* Compactions.                                                            *)
(***************************************************************************)
At(r, step, next) == run[r] = step /\ run' = [run EXCEPT ![r] = next]

CompactCall(r) ==
    /\ ~compacting /\ writers = 0
    /\ At(r, "new", "locked")
    /\ compacting' = TRUE
    /\ UNCHANGED <<state, gen, writers, writer, status, dones, query>>

\* start: the status says Scan, then the thread is spawned or cannot be.
CompactStart(r) ==
    /\ \/ At(r, "locked", "scan") /\ status' = "scan" /\ UNCHANGED compacting
       \/ At(r, "locked", "ended") /\ status' = "idle" /\ compacting' = FALSE
    /\ UNCHANGED <<state, gen, writers, writer, dones, query>>

\* Mutant: an error leaves the thread without unlocking or calling back.
ScanQuits(r) ==
    /\ \/ At(r, "scan", "move") /\ status' = "move"
       \/ At(r, "scan", "ended") /\ UNCHANGED status
    /\ UNCHANGED <<state, gen, writers, writer, compacting, dones, query>>

\* The index is persisted and planned; every step may end in an I/O error.
Scan(r) ==
    /\ \/ At(r, "scan", "move") /\ status' = "move"
       \/ At(r, "scan", "over") /\ UNCHANGED status
    /\ UNCHANGED <<state, gen, writers, writer, compacting, dones, query>>

\* Move over: the files whose data does not verify are marked Bad.
Move(r) ==
    /\ \/ /\ At(r, "move", "finalize") /\ status' = "finalize"
          /\ \E bad \in SUBSET {f \in Names : state[f] = "active"} :
                 state' = [f \in Names |-> IF f \in bad THEN "bad" ELSE state[f]]
       \/ At(r, "move", "over") /\ UNCHANGED <<status, state>>
    /\ UNCHANGED <<gen, writers, writer, compacting, dones, query>>

\* The new index is persisted and installed; a further round may follow.
Finalize(r) ==
    /\ \/ /\ At(r, "finalize", "over") \/ At(r, "finalize", "scan")
          /\ Bump
          /\ state' = [f \in Names |-> IF state[f] = "active" THEN "active" ELSE "none"]
       \/ At(r, "finalize", "over") /\ UNCHANGED <<gen, state>>
    /\ status' = IF run'[r] = "scan" THEN "scan" ELSE status
    /\ UNCHANGED <<writers, writer, compacting, dones, query>>

\* run unlocks the index, then sets the status, then calls the client.
Unlock(r) ==
    /\ At(r, "over", "unlocked")
    /\ compacting' = FALSE
    /\ UNCHANGED <<state, gen, writers, writer, status, dones, query>>

ShowIdle(r) ==
    /\ At(r, "unlocked", "calling")
    /\ status' = "idle"
    /\ UNCHANGED <<state, gen, writers, writer, compacting, dones, query>>

CallDone(r) ==
    /\ At(r, "calling", "ended")
    /\ dones' = [dones EXCEPT ![r] = @ + 1]
    /\ UNCHANGED <<state, gen, writers, writer, compacting, status, query>>

-----------------------------------------------------------------------------
(***************************************************************************)
(* A client's RefreshIndex: enumerate_query, then vfs_enumerate_read,      *)
(* which checks the generation twice, before and while it copies.          *)
(***************************************************************************)
Query ==
    /\ query.step \in {"idle", "read"} /\ ~compacting
    /\ query' = [step |-> "asked", gen |-> gen, asked |-> Present(state),
                 got |-> Idle.got]
    /\ UNCHANGED <<state, gen, writers, writer, compactVars>>

Fresh == ~compacting /\ gen = query.gen

Check ==
    /\ query.step = "asked"
    /\ query' = IF Fresh THEN [query EXCEPT !.step = "checked"] ELSE Idle
    /\ UNCHANGED <<state, gen, writers, writer, compactVars>>

Read ==
    /\ query.step = "checked"
    /\ query' = IF Fresh THEN [query EXCEPT !.step = "read", !.got = state] ELSE Idle
    /\ UNCHANGED <<state, gen, writers, writer, compactVars>>

CompactStep(r) == \/ CompactStart(r) \/ Scan(r) \/ Move(r) \/ Finalize(r)
                  \/ Unlock(r) \/ ShowIdle(r) \/ CallDone(r)

Next ==
    \/ \E f \in Names : \/ Alloc(f) \/ OpenHandle(f) \/ OpenFailed(f) \/ WriteAll(f)
                        \/ Committed(f) \/ Aborted(f) \/ Delete(f)
    \/ \E r \in Runs : CompactCall(r) \/ CompactStep(r)
    \/ Query \/ Check \/ Read

\* A compaction thread that was spawned runs.
Spec == Init /\ [][Next]_vars /\ \A r \in Runs : WF_vars(CompactStep(r))

-----------------------------------------------------------------------------
Downloading == {f \in Names : state[f] = "downloading"}
Working == {r \in Runs : run[r] \in {"locked", "scan", "move", "finalize", "over"}}

\* One for every live writer and for every entry still Downloading, whichever way
\* the writer ends.
WritersCounted ==
    /\ writers = Cardinality(Downloading)
    /\ \A f \in Names : writer[f] # "none" <=> state[f] = "downloading"

\* No writer can write while a compaction moves files, and no second one is at work.
CompactionAlone ==
    /\ Cardinality(Working) <= 1
    /\ compacting <=> Working # {}
    /\ compacting => \A f \in Names : writer[f] = "none"

\* The index is one party's: the count a compaction relies on is that of the writers
\* there are, over a rollback outside the first critical section (mod.rs:418), and
\* a compaction has the index to itself (mod.rs:586).
IndexInv == TypeOK /\ WritersCounted /\ CompactionAlone

\* An enumeration that succeeds gives the client the entries it made room for:
\* mod.rs:396 ("enumerate relies on it to invalidate the old generation").
EnumerationExact == query.step = "read" => Present(query.got) = query.asked

\* Vfs.cs:419 ("bumped by every index change ... compare with the value seen at last
\* RefreshIndex to detect changes"): a client whose generation is still the store's
\* knows every entry as it is.  Two changes keep the generation: the entry of a
\* handle that fails to open is taken back, and the Bad marks of a compaction that
\* fails afterwards stay.
GenerationTells ==
    query.step = "read" /\ ~compacting /\ query.gen = gen =>
        \A f \in Names \ OpenFails :
            \/ query.got[f] = state[f] /\ (f \in query.asked <=> state[f] # "none")
            \/ query.got[f] = "active" /\ state[f] = "bad"

\* Vfs.cs:303 ("poll CompactStatus()"): when no compaction is at work any more the
\* status is Idle again, however compactions ended and whatever their threads
\* still had to report when the next one began.
StatusSettles ==
    (\A r \in Runs : run[r] \in {"new", "calling", "ended"}) => status = "idle"

\* A compaction that was started calls back exactly once, and unlocks the index.
DoneOnce == \A r \in Runs : run[r] = "scan" ~> run[r] = "ended" /\ dones[r] = 1
=============================================================================
