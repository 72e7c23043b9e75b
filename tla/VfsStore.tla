------------------------------ MODULE VfsStore ------------------------------
(***************************************************************************)
(* The store as a whole: the in-memory index, the blocks of the data file, *)
(* the index file, threads that flush and the compaction thread, with   *)
(* I/O errors and crashes between any two steps (vfs/mod.rs, compact.rs).  *)
(*                                                                         *)
(* A download is identified by a number, its data by the blocks <<number,  *)
(* position>>; a crc verifies when every block read is the expected one.   *)
(* "file" is what reads of the data file return, "synced" what is certain  *)
(* to be on the disk: a crash leaves each block one or the other.          *)
(***************************************************************************)
EXTENDS VfsLayout, VfsDurable, FiniteSets

CONSTANTS
    Flushers,     (* the threads that call flush                           *)
    Compactor,    (* the vfs-compact thread                                *)
    Sizes,        (* the sizes of a download, in blocks                    *)
    Reserve,      (* reserve_extra of compact, in blocks                   *)
    MaxLogical,   (* bound: where the data of a download may end           *)
    MaxBlock,     (* bound: the blocks of the data file                    *)
    MaxDownloads, MaxCompactions, MaxRot, MaxFails, MaxCrashes  (* bounds  *)

ASSUME StoreAssumption ==
    /\ Compactor \notin Flushers
    /\ Sizes \subseteq Nat \ {0} /\ Reserve \in Nat
    /\ MaxBlock \in Nat /\ MaxLogical \in 0..MaxBlock /\ MaxDownloads \in Nat

Threads == Flushers \cup {Compactor}
Nobody  == "nobody"
ASSUME ThreadsAssumption == Nobody \notin Threads

Blocks  == 0..(MaxBlock - 1)
NoData  == <<0, 0>>     \* zeroes, as set_len leaves them

VARIABLES
    idx,           (* Inner.idx                                            *)
    written,       (* VfsWriter.written of the file being downloaded       *)
    compacting,    (* Inner.compacting                                     *)
    file, synced,  (* files.vfs, as read and as certainly on the disk      *)
    pc, snap,      (* each thread's next step and its image of the index   *)
    lock,          (* who is inside persist_image                          *)
    job,           (* the compaction's round: the plan, what is left, bad  *)
    downloads,     (* the downloads there have been                        *)
    rotten,        (* history: downloads whose data the disk has spoiled   *)
    deleted,       (* history: downloads deleted                           *)
    compactions, fails, crashes

header  == <<up, disk, pending>>
data    == <<file, synced>>
threads == <<pc, snap, lock, job>>
history == <<downloads, rotten, deleted, compactions>>
allVars == <<header, idx, written, compacting, data, threads, history, fails, crashes>>

-----------------------------------------------------------------------------
(***************************************************************************)
(* The index: a generation, the logical size and the entries, one a name.  *)
(***************************************************************************)
Entry(f, state, off, span, num) ==
    [name |-> f, state |-> state, off |-> off, span |-> span, num |-> num]

InState(index, state) == {e \in index.entries : e.state = state}
Active(index)         == InState(index, "active")
Named(index, f)       == {e \in index.entries : e.name = f}

\* An entry replaced or dropped; every change of the index bumps its generation.
Changed(out, in) ==
    idx' = [idx EXCEPT !.gen = @ + 1, !.entries = (@ \ out) \cup in]

LayoutOf(index) ==
    LET act == Active(index)
        the(f) == CHOOSE e \in act : e.name = f
        live == {e.name : e \in act} IN
    [live |-> live,
     off  |-> [f \in Files |-> IF f \in live THEN the(f).off ELSE 0],
     span |-> [f \in Files |-> IF f \in live THEN the(f).span ELSE 0],
     logical |-> index.logical]

\* The blocks of an entry hold its data in a copy of the data file.
Holds(copy, e) == \A i \in 0..(e.span - 1) : copy[e.off + i] = <<e.num, i>>

Extent(e) == e.off..(e.off + e.span - 1)

-----------------------------------------------------------------------------
Empty == [gen |-> 1, logical |-> 0, entries |-> {}]
ASSUME FirstAssumption == FirstImage = Empty

NoJob == [plan |-> StartPlan(LayoutOf(Empty)), left |-> {}, block |-> 0,
          bad |-> {}, final |-> FALSE]

StoreInit ==
    /\ DurableInit
    /\ idx = Empty /\ written = [f \in Files |-> 0] /\ compacting = FALSE
    /\ file = [b \in Blocks |-> NoData] /\ synced = file
    /\ pc = [t \in Threads |-> "idle"] /\ snap = [t \in Threads |-> Empty]
    /\ lock = Nobody /\ job = NoJob
    /\ downloads = 0 /\ rotten = {} /\ deleted = {}
    /\ compactions = 0 /\ fails = 0 /\ crashes = 0

-----------------------------------------------------------------------------
(***************************************************************************)
(* The index operations, each one critical section of the inner lock, and  *)
(* writes through the writer's own handle.                                 *)
(***************************************************************************)

\* Mutant: the logical end stays.
AllocStay(f, size) ==
    /\ up /\ ~compacting /\ downloads < MaxDownloads
    /\ \A e \in Named(idx, f) : e.state = "deleted"
    /\ idx.logical + size <= MaxLogical
    /\ downloads' = downloads + 1
    /\ idx' = [gen |-> idx.gen + 1, logical |-> idx.logical,
               entries |-> (idx.entries \ Named(idx, f)) \cup
                           {Entry(f, "downloading", idx.logical, size, downloads')}]
    /\ written' = [written EXCEPT ![f] = 0]
    /\ UNCHANGED <<header, compacting, data, threads, rotten, deleted, compactions,
                   fails, crashes>>

\* alloc: space is taken at the logical end; a Deleted entry is replaced.
Alloc(f, size) ==
    /\ up /\ ~compacting /\ downloads < MaxDownloads
    /\ \A e \in Named(idx, f) : e.state = "deleted"
    /\ idx.logical + size <= MaxLogical
    /\ downloads' = downloads + 1
    /\ idx' = [gen |-> idx.gen + 1, logical |-> idx.logical + size,
               entries |-> (idx.entries \ Named(idx, f)) \cup
                           {Entry(f, "downloading", idx.logical, size, downloads')}]
    /\ written' = [written EXCEPT ![f] = 0]
    /\ UNCHANGED <<header, compacting, data, threads, rotten, deleted, compactions,
                   fails, crashes>>

\* The data file cannot be extended or opened: the entry goes again, and with it the
\* Deleted entry it replaced; the logical end stays where it was taken to.
AllocFails(f, size) ==
    /\ up /\ ~compacting /\ fails < MaxFails /\ downloads < MaxDownloads
    /\ \A e \in Named(idx, f) : e.state = "deleted"
    /\ idx.logical + size <= MaxLogical
    /\ idx' = [gen |-> idx.gen + 1, logical |-> idx.logical + size,
               entries |-> idx.entries \ Named(idx, f)]
    /\ fails' = fails + 1
    /\ UNCHANGED <<header, written, compacting, data, threads, history, crashes>>

\* write_at, the next block of the file.
WriteAt(f) ==
    /\ up
    /\ \E e \in Named(idx, f) :
           /\ e.state = "downloading" /\ written[f] < e.span
           /\ file' = [file EXCEPT ![e.off + written[f]] = <<e.num, written[f]>>]
    /\ written' = [written EXCEPT ![f] = @ + 1]
    /\ UNCHANGED <<header, idx, compacting, synced, threads, history, fails, crashes>>

Commit(f) ==
    /\ up /\ ~compacting
    /\ \E e \in Named(idx, f) :
           /\ e.state = "downloading" /\ written[f] = e.span
           /\ Changed({e}, {[e EXCEPT !.state = "active"]})
    /\ written' = [written EXCEPT ![f] = 0]
    /\ UNCHANGED <<header, compacting, data, threads, history, fails, crashes>>

\* abort, or the writer dropped: the entry goes, its blocks are garbage.
Abort(f) ==
    /\ up
    /\ \E e \in Named(idx, f) : e.state = "downloading" /\ Changed({e}, {})
    /\ written' = [written EXCEPT ![f] = 0]
    /\ UNCHANGED <<header, compacting, data, threads, history, fails, crashes>>

Delete(f) ==
    /\ up /\ ~compacting
    /\ \E e \in Named(idx, f) :
           /\ e.state = "active"
           /\ Changed({e}, {[e EXCEPT !.state = "deleted"]})
           /\ deleted' = deleted \cup {e.num}
    /\ UNCHANGED <<header, written, compacting, data, threads, downloads, rotten,
                   compactions, fails, crashes>>

-----------------------------------------------------------------------------
(***************************************************************************)
(* flush, and the persists of a compaction: copy the index, sync the data  *)
(* file, write the index file.                                             *)
(***************************************************************************)
Goto(t, step) == pc' = [pc EXCEPT ![t] = step]

FlushCall(t) ==
    /\ up /\ ~compacting /\ pc[t] = "idle"
    /\ Goto(t, "called")
    /\ UNCHANGED <<header, idx, written, compacting, data, snap, lock, job, history,
                   fails, crashes>>

\* While a compaction plans it holds the inner lock.
Snapshot(t) ==
    /\ up /\ pc[t] = "called" /\ pc[Compactor] # "plan"
    /\ snap' = [snap EXCEPT ![t] = idx]
    /\ Goto(t, "snapped")
    /\ UNCHANGED <<header, idx, written, compacting, data, lock, job, history, fails, crashes>>

SyncData(t) ==
    /\ up /\ pc[t] = "snapped"
    /\ synced' = file
    /\ Goto(t, "synced")
    /\ UNCHANGED <<header, idx, written, compacting, file, snap, lock, job, history,
                   fails, crashes>>

PersistBegin(t) ==
    /\ pc[t] = "synced" /\ lock = Nobody
    /\ Begin(snap[t])
    /\ lock' = t
    /\ Goto(t, "persisting")
    /\ UNCHANGED <<idx, written, compacting, data, snap, job, history, fails, crashes>>

\* A flush returns and drops its image; the compaction thread needs its own still.
Drop(t) == snap' = IF t \in Flushers THEN [snap EXCEPT ![t] = Empty] ELSE snap

\* What a thread does when its persist is over.
Proceed(t) ==
    /\ Drop(t)
    /\ Goto(t, CASE t \in Flushers -> "idle"
                 [] t = Compactor /\ job.final -> "flipped"
                 [] OTHER -> "scan")

PersistEnd(t) ==
    /\ pc[t] = "persisting"
    /\ Complete(snap[t])
    /\ lock' = Nobody
    /\ Proceed(t)
    /\ UNCHANGED <<idx, written, compacting, data, job, history, fails, crashes>>

\* Mutant: an error ends the compaction thread with the index locked.
GiveUpLocked(t) ==
    /\ Goto(t, "idle") /\ Drop(t)
    /\ lock' = IF lock = t THEN Nobody ELSE lock

\* An error goes back to the caller: flush returns it, run ends the compaction.
GiveUp(t) ==
    /\ Goto(t, IF t \in Flushers THEN "idle" ELSE "over") /\ Drop(t)
    /\ lock' = IF lock = t THEN Nobody ELSE lock

PersistRefused(t) ==
    /\ up /\ pc[t] = "synced" /\ lock = Nobody
    /\ snap[t].gen < disk.gen
    /\ GiveUp(t)
    /\ UNCHANGED <<header, idx, written, compacting, data, job, history, fails, crashes>>

IoError(t) ==
    /\ up /\ fails < MaxFails
    /\ pc[t] \in {"snapped", "synced", "persisting", "move"}
    /\ fails' = fails + 1
    /\ GiveUp(t)
    /\ UNCHANGED <<header, idx, written, compacting, data, job, history, crashes>>

-----------------------------------------------------------------------------
(***************************************************************************)
(* The compaction thread: persist the index as it is, then plan, move,     *)
(* persist the new layout, cut the data file, install the new index.       *)
(***************************************************************************)
\* Mutant: the index is not persisted before files move.
CompactCallUnflushed ==
    /\ up /\ ~compacting /\ pc[Compactor] = "idle"
    /\ compactions < MaxCompactions /\ compactions' = compactions + 1
    /\ InState(idx, "downloading") = {}
    /\ compacting' = TRUE
    /\ job' = NoJob
    /\ Goto(Compactor, "scan")
    /\ UNCHANGED <<header, idx, written, data, snap, lock, downloads, rotten, deleted,
                   fails, crashes>>

CompactCall ==
    /\ up /\ ~compacting /\ pc[Compactor] = "idle"
    /\ compactions < MaxCompactions /\ compactions' = compactions + 1
    /\ InState(idx, "downloading") = {}
    /\ compacting' = TRUE
    /\ job' = NoJob
    /\ Goto(Compactor, "called")
    /\ UNCHANGED <<header, idx, written, data, snap, lock, downloads, rotten, deleted,
                   fails, crashes>>

Scan ==
    /\ up /\ pc[Compactor] = "scan"
    /\ job' = [NoJob EXCEPT !.plan = StartPlan(LayoutOf(idx))]
    /\ Goto(Compactor, "plan")
    /\ UNCHANGED <<header, idx, written, compacting, data, snap, lock, history, fails, crashes>>

\* One iteration of build_plan.
PlanFile(f) ==
    /\ up /\ pc[Compactor] = "plan"
    /\ IsNext(LayoutOf(idx), job.plan, f)
    /\ job' = [job EXCEPT !.plan = PlanStep(LayoutOf(idx), @, f)]
    /\ job'.plan.dataEnd <= MaxBlock
    /\ UNCHANGED <<header, idx, written, compacting, data, pc, snap, lock, history,
                   fails, crashes>>

StartMove ==
    /\ up /\ pc[Compactor] = "plan"
    /\ job.plan.placed = LayoutOf(idx).live
    /\ job' = [job EXCEPT !.left = job.plan.placed]
    /\ Goto(Compactor, "move")
    /\ UNCHANGED <<header, idx, written, compacting, data, snap, lock, history, fails, crashes>>

\* Files are moved in the order of the plan, which is that of their offsets.
Turn(e) ==
    /\ e.name \in job.left
    /\ \A g \in Active(idx) : g.name \in job.left => e.off <= g.off

\* copy_verified: the next block is read, and written if the file moves.
CopyBlock ==
    /\ up /\ pc[Compactor] = "move"
    /\ \E e \in Active(idx) :
           LET cell == file[e.off + job.block]
               last == job.block = e.span - 1
               to   == job.plan.target[e.name] IN
           /\ Turn(e)
           /\ file' = IF to = e.off THEN file ELSE [file EXCEPT ![to + job.block] = cell]
           /\ job' = [job EXCEPT !.block = IF last THEN 0 ELSE @ + 1,
                                 !.left  = IF last THEN @ \ {e.name} ELSE @,
                                 !.bad   = IF cell = <<e.num, job.block>> THEN @
                                           ELSE @ \cup {e.name}]
    /\ UNCHANGED <<header, idx, written, compacting, synced, pc, snap, lock, history,
                   fails, crashes>>

\* Mutant: files that stay in place are left out of the new index.
FinalizeMovedOnly ==
    /\ up /\ pc[Compactor] = "move" /\ job.left = {}
    /\ LET bad  == {e \in Active(idx) : e.name \in job.bad}
           keep == {[e EXCEPT !.off = job.plan.target[e.name]] :
                       e \in {g \in Active(idx) \ bad : job.plan.target[g.name] # g.off}}
           ends == {0} \cup {e.off + e.span : e \in keep} IN
       /\ idx' = [idx EXCEPT !.entries = (@ \ bad) \cup {[e EXCEPT !.state = "bad"] : e \in bad}]
       /\ \E n \in ends :
              /\ \A m \in ends : m <= n
              /\ snap' = [snap EXCEPT ![Compactor] =
                             [gen |-> idx.gen + 1, logical |-> n, entries |-> keep]]
    /\ synced' = file
    /\ job' = [job EXCEPT !.final = TRUE]
    /\ Goto(Compactor, "synced")
    /\ UNCHANGED <<header, written, compacting, file, lock, history, fails, crashes>>

\* Bad files are marked in the index, the copies are synced, and the image of the
\* new layout, without Deleted and Bad entries, is built.
Finalize ==
    /\ up /\ pc[Compactor] = "move" /\ job.left = {}
    /\ LET bad  == {e \in Active(idx) : e.name \in job.bad}
           keep == {[e EXCEPT !.off = job.plan.target[e.name]] : e \in Active(idx) \ bad}
           ends == {0} \cup {e.off + e.span : e \in keep} IN
       /\ idx' = [idx EXCEPT !.entries = (@ \ bad) \cup {[e EXCEPT !.state = "bad"] : e \in bad}]
       /\ \E n \in ends :
              /\ \A m \in ends : m <= n
              /\ snap' = [snap EXCEPT ![Compactor] =
                             [gen |-> idx.gen + 1, logical |-> n, entries |-> keep]]
    /\ synced' = file
    /\ job' = [job EXCEPT !.final = TRUE]
    /\ Goto(Compactor, "synced")
    /\ UNCHANGED <<header, written, compacting, file, lock, history, fails, crashes>>

\* The data file is cut after the flip, never before; an error is ignored.
Truncate ==
    /\ up /\ pc[Compactor] = "flipped"
    /\ \/ file' = [b \in Blocks |-> IF b < snap[Compactor].logical + Reserve
                                      THEN file[b] ELSE NoData]
       \/ UNCHANGED file
    /\ Goto(Compactor, "install")
    /\ UNCHANGED <<header, idx, written, compacting, synced, snap, lock, job, history,
                   fails, crashes>>

Install ==
    /\ up /\ pc[Compactor] = "install"
    /\ idx' = snap[Compactor]
    /\ Goto(Compactor, IF job.plan.excluded \/ job.bad # {} THEN "scan" ELSE "over")
    /\ UNCHANGED <<header, written, compacting, data, snap, lock, job, history, fails, crashes>>

\* run: the index is unlocked again.
CompactOver ==
    /\ up /\ pc[Compactor] = "over"
    /\ compacting' = FALSE
    /\ Goto(Compactor, "idle")
    /\ snap' = [snap EXCEPT ![Compactor] = Empty] /\ job' = NoJob
    /\ UNCHANGED <<header, idx, written, data, lock, history, fails, crashes>>

-----------------------------------------------------------------------------
\* The disk spoils a block of a file.
Rot ==
    /\ up /\ Cardinality(rotten) < MaxRot
    /\ \E e \in Active(idx) :
           /\ Holds(file, e) /\ Holds(synced, e)
           /\ file'   = [file EXCEPT ![e.off] = NoData]
           /\ synced' = [synced EXCEPT ![e.off] = NoData]
           /\ rotten' = rotten \cup {e.num}
    /\ UNCHANGED <<header, idx, written, compacting, threads, downloads, deleted,
                   compactions, fails, crashes>>

\* A crash: of the blocks not yet synced, any subset is on the disk.
Crash ==
    /\ crashes < MaxCrashes /\ crashes' = crashes + 1
    /\ Stop
    /\ \E lost \in SUBSET {b \in Blocks : file[b] # synced[b]} :
           file' = [b \in Blocks |-> IF b \in lost THEN synced[b] ELSE file[b]]
    /\ synced' = file'
    /\ pc' = [t \in Threads |-> "idle"] /\ snap' = [t \in Threads |-> Empty]
    /\ lock' = Nobody /\ job' = NoJob /\ compacting' = FALSE
    /\ idx' = Empty /\ written' = [f \in Files |-> 0]
    /\ UNCHANGED <<history, fails>>

\* open_paths: entries still Downloading are dropped, their blocks are garbage.
Open(img) ==
    /\ Recover(img)
    /\ idx' = [img EXCEPT !.entries = @ \ InState(img, "downloading")]
    /\ UNCHANGED <<written, compacting, data, threads, history, fails, crashes>>

StoreNext ==
    \/ \E f \in Files : \/ \E size \in Sizes : Alloc(f, size)
                        \/ WriteAt(f) \/ Commit(f) \/ Abort(f) \/ Delete(f)
    \/ \E t \in Flushers : FlushCall(t)
    \/ \E t \in Threads : \/ Snapshot(t) \/ SyncData(t) \/ PersistBegin(t)
                          \/ PersistEnd(t) \/ PersistRefused(t)
    \/ CompactCall \/ Scan \/ StartMove \/ CopyBlock \/ Finalize \/ Truncate \/ Install
    \/ \E f \in Files : PlanFile(f)
    \/ CompactOver \/ Rot \/ Crash
    \/ \E img \in {disk} \cup pending : Open(img)

\* With I/O errors as well as crashes.
FaultyNext ==
    \/ StoreNext
    \/ \E f \in Files, size \in Sizes : AllocFails(f, size)
    \/ \E t \in Threads : IoError(t)
FaultySpec == StoreInit /\ [][FaultyNext]_allVars

\* With any I/O error but the one after which disk and memory may disagree about the
\* layout: that of the persist that ends a round.
Flipping(t) == t = Compactor /\ job.final /\ pc[t] = "persisting"
SteadyNext  ==
    \/ StoreNext
    \/ \E f \in Files, size \in Sizes : AllocFails(f, size)
    \/ \E t \in Threads : ~Flipping(t) /\ IoError(t)
SteadySpec  == StoreInit /\ [][SteadyNext]_allVars

\* What the compaction thread does next; an I/O error is an outcome of its steps.
CompactorStep ==
    \/ Snapshot(Compactor) \/ SyncData(Compactor) \/ PersistBegin(Compactor)
    \/ PersistEnd(Compactor) \/ PersistRefused(Compactor) \/ IoError(Compactor)
    \/ Scan \/ (\E f \in Files : PlanFile(f)) \/ StartMove \/ CopyBlock \/ Finalize
    \/ Truncate \/ Install \/ CompactOver

-----------------------------------------------------------------------------
StateNames == {"active", "deleted", "downloading", "bad"}

\* compact.rs:165 ("the old header holds") and T2 ("the old index intact and the
\* data not damaged after reopening"): whatever index a crash may bring back, all
\* the files it calls Active have their data on the disk, in every state between
\* the steps of a compaction and of the flushes that race with it.
RecoverableIntact ==
    \A img \in {disk} \cup pending : \A e \in Active(img) :
        e.num \in rotten \/ (Holds(file, e) /\ Holds(synced, e))

\* No write, compaction, crash or recovery touches what an Active file is read from.
ReadsIntact ==
    up /\ ~compacting => \A e \in Active(idx) : e.num \in rotten \/ Holds(file, e)

\* The store's state has its type.
StoreTypeOK ==
    /\ \A e \in idx.entries :
           e.name \in Files /\ e.state \in StateNames /\ e.num \in 1..MaxDownloads
    /\ \A e, g \in idx.entries : e.name = g.name => e = g
    /\ UNION {Extent(e) : e \in idx.entries} \subseteq Blocks
    /\ job.plan \in PlanType
    /\ written \in [Files -> Nat] /\ compacting \in BOOLEAN
    /\ lock \in Threads \cup {Nobody}

\* No two entries share a block, the Deleted and Bad ones included, and all lie
\* below the logical size, where the next download is appended: neither the
\* excluded files of a round nor a late install ever put two files in one place,
\* and so what a client that is not refused reads of an Active file is its data.
StoreInv ==
    /\ StoreTypeOK
    /\ ReadsIntact
    /\ \A e, g \in idx.entries : e # g => Extent(e) \cap Extent(g) = {}
    /\ \A e \in idx.entries : e.off + e.span <= idx.logical

\* A file in the durable index leaves it only if a client deleted it or the disk
\* spoiled it: not by a compaction, a late flush, a crash or a recovery.
NothingFlushedLost ==
    [][\A e \in Active(disk) :
          \/ e.num \in deleted \cup rotten
          \/ \E g \in Active(disk') : g.name = e.name /\ g.num = e.num]_allVars

\* Every client is refused while a compaction runs: it always ends.
CompactionEnds == compacting ~> ~compacting
=============================================================================
