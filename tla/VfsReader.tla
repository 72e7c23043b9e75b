----------------------------- MODULE VfsReader -----------------------------
(***************************************************************************)
(* A session of the C# VfsReader over the store: the host thread keeps a   *)
(* copy of the index and a mapping of the data file, reads through them    *)
(* without asking the native side again, starts compactions and closes the *)
(* store, while download threads commit files, the data file grows and the *)
(* compaction thread moves, cuts and installs (Vfs.cs, vfs/mod.rs).        *)
(*                                                                         *)
(* The host follows the protocol Vfs.cs states: it releases the mapping    *)
(* before it starts a compaction, maps again only after a refresh, and     *)
(* disposes of the reader when no writer is outstanding.  Crashes are in   *)
(* VfsStore; here a session ends by a close and is opened again.           *)
(***************************************************************************)
EXTENDS VfsStore

CONSTANT Host         (* the host thread, one that flushes                 *)

ASSUME HostAssumption == Flushers = {Host}

None == [cap |-> 0, length |-> 0]  \* no mapping

VARIABLES
    handle,        (* "open", then "closing" in vfs_close, then "closed"   *)
    length,        (* the length of the data file, in blocks               *)
    index,         (* _index and _refreshedGen: the copy of the index      *)
    mapping,       (* _view.Capacity and _mappedPhysical                   *)
    statted,       (* EnsureMapping: what vfs_stat answered, until it maps *)
    mayMap,        (* protocol: no compaction since the last refresh       *)
    ensured,       (* history: EnsureMapping returned, since the refresh   *)
    closedWith     (* history: the Active entries when the store closed    *)

hostVars   == <<handle, index, mapping, statted, mayMap, ensured, closedWith>>
readerVars == <<hostVars, length>>

ReaderInit ==
    /\ StoreInit
    /\ handle = "open" /\ length = 0
    /\ index = Empty /\ mapping = None /\ statted = None
    /\ mayMap = FALSE /\ ensured = FALSE /\ closedWith = {}

\* The host is between two calls of the reader.
HostFree == up /\ handle = "open" /\ pc[Host] = "idle" /\ statted = None

-----------------------------------------------------------------------------
(***************************************************************************)
(* The data file's length: alloc extends it to the logical size, or fails  *)
(* to, a file that moves to its end extends it, truncate sets it, and      *)
(* open_paths fills it up.                                                 *)
(***************************************************************************)
GrowTo(n) == length' = IF length < n THEN n ELSE length

ReaderAlloc(f, size) ==
    /\ handle = "open" /\ Alloc(f, size)
    /\ GrowTo(idx'.logical)
    /\ UNCHANGED hostVars

\* set_len fails, or the open after it.
ReaderAllocFails(f, size) ==
    /\ handle = "open" /\ AllocFails(f, size)
    /\ GrowTo(idx'.logical) \/ UNCHANGED length
    /\ UNCHANGED hostVars

ReaderCopy ==
    /\ CopyBlock
    /\ \E e \in Active(idx) :
           LET to == job.plan.target[e.name] IN
           /\ Turn(e)
           /\ IF to = e.off THEN UNCHANGED length ELSE GrowTo(to + job.block + 1)
    /\ UNCHANGED hostVars

ReaderTruncate ==
    /\ Truncate
    /\ \/ /\ \A b \in Blocks : b >= snap[Compactor].logical + Reserve => file'[b] = NoData
          /\ length' = snap[Compactor].logical + Reserve
       \/ UNCHANGED <<file, length>>
    /\ UNCHANGED hostVars

\* The other calls of clients and of the download threads.
Client(f) ==
    /\ handle = "open"
    /\ WriteAt(f) \/ Commit(f) \/ Abort(f) \/ Delete(f)
    /\ UNCHANGED readerVars

Flush ==
    /\ HostFree /\ FlushCall(Host)
    /\ UNCHANGED readerVars

\* The native code's other steps, with the I/O errors of SteadyNext.
Native ==
    /\ \/ \E t \in Threads : \/ Snapshot(t) \/ SyncData(t) \/ PersistBegin(t)
                             \/ PersistEnd(t) \/ PersistRefused(t)
                             \/ ~Flipping(t) /\ IoError(t)
       \/ Scan \/ (\E f \in Files : PlanFile(f)) \/ StartMove
       \/ Finalize \/ Install \/ CompactOver
    /\ UNCHANGED readerVars

-----------------------------------------------------------------------------
(***************************************************************************)
(* VfsReader.                                                              *)
(***************************************************************************)
\* Mutant: the index may be read while a compaction runs.
RefreshIndexAlways ==
    /\ HostFree
    /\ index' = idx /\ mayMap' = TRUE /\ ensured' = FALSE
    /\ UNCHANGED <<allVars, handle, length, mapping, statted, closedWith>>

\* RefreshIndex: refused while a compaction runs, retried until one generation is
\* read whole.
RefreshIndex ==
    /\ HostFree /\ ~compacting
    /\ index' = idx /\ mayMap' = TRUE /\ ensured' = FALSE
    /\ UNCHANGED <<allVars, handle, length, mapping, statted, closedWith>>

\* Mutant: a mapping that is there is kept.
StatFirst ==
    /\ HostFree /\ mayMap /\ length > 0
    /\ IF mapping # None
         THEN ensured' = TRUE /\ UNCHANGED <<mapping, statted>>
         ELSE statted' = [cap |-> 0, length |-> length] /\ ensured' = FALSE /\ UNCHANGED mapping
    /\ UNCHANGED <<allVars, handle, length, index, mayMap, closedWith>>

\* EnsureMapping asks for the length; a mapping of that length is kept.
Stat ==
    /\ HostFree /\ mayMap /\ length > 0
    /\ IF mapping # None /\ mapping.length = length
         THEN ensured' = TRUE /\ UNCHANGED <<mapping, statted>>
         ELSE statted' = [cap |-> 0, length |-> length] /\ mapping' = None /\ ensured' = FALSE
    /\ UNCHANGED <<allVars, handle, length, index, mayMap, closedWith>>

\* Then it opens and maps the file, which may be longer by now.
Map ==
    /\ statted # None
    /\ mapping' = [cap |-> length, length |-> statted.length]
    /\ statted' = None /\ ensured' = TRUE
    /\ UNCHANGED <<allVars, handle, length, index, mayMap, closedWith>>

ReleaseMapping ==
    /\ HostFree /\ mapping # None
    /\ mapping' = None /\ ensured' = FALSE
    /\ UNCHANGED <<allVars, handle, length, index, statted, mayMap, closedWith>>

\* TryReadRaw hands out the place of e in the mapping.
TryReadRaw(e) ==
    /\ e.state = "active"
    /\ mapping # None /\ e.off + e.span <= mapping.cap

\* Compact, by a host that has released the mapping.
Compact ==
    /\ HostFree /\ mapping = None /\ CompactCall
    /\ mayMap' = FALSE /\ ensured' = FALSE
    /\ UNCHANGED <<handle, length, index, mapping, statted, closedWith>>

-----------------------------------------------------------------------------
(***************************************************************************)
(* Dispose and vfs_close: flush, which a running compaction refuses; that  *)
(* thread goes on with the store.                                          *)
(***************************************************************************)
Disposed ==
    /\ HostFree /\ InState(idx, "downloading") = {}
    /\ handle' = "closing"
    /\ index' = Empty /\ mapping' = None /\ mayMap' = FALSE /\ ensured' = FALSE
    /\ closedWith' = Active(idx)
    /\ UNCHANGED <<length, statted>>

\* Mutant: vfs_close does not flush.
DisposeOnly == Disposed /\ UNCHANGED allVars

Dispose ==
    /\ Disposed
    /\ FlushCall(Host) \/ (compacting /\ UNCHANGED allVars)

\* The flush is over, whatever its result, and the handle is gone.
Closed ==
    /\ handle = "closing" /\ pc[Host] = "idle"
    /\ handle' = "closed"
    /\ UNCHANGED <<allVars, length, index, mapping, statted, mayMap, ensured, closedWith>>

\* The process ends when the compaction thread has ended.
Exit ==
    /\ handle = "closed" /\ Stop
    /\ \A t \in Threads : pc[t] = "idle"
    /\ idx' = Empty /\ written' = [f \in Files |-> 0]
    /\ UNCHANGED <<compacting, data, threads, history, fails, crashes, readerVars>>

Reopen(img) ==
    /\ Open(img)
    /\ handle' = "open" /\ GrowTo(img.logical) /\ closedWith' = {}
    /\ UNCHANGED <<index, mapping, statted, mayMap, ensured>>

Spoil == Rot /\ UNCHANGED readerVars

ReaderNext ==
    \/ \E f \in Files : \/ Client(f)
                        \/ \E size \in Sizes : ReaderAlloc(f, size) \/ ReaderAllocFails(f, size)
    \/ Flush \/ Native \/ ReaderCopy \/ ReaderTruncate
    \/ RefreshIndex \/ Stat \/ Map \/ ReleaseMapping \/ Compact
    \/ Dispose \/ Closed \/ Exit \/ Spoil
    \/ \E img \in {disk} \cup pending : Reopen(img)

everything == <<allVars, readerVars>>

\* The native threads run, as in VfsStore; nothing forces the host or a client.
ReaderSpec ==
    /\ ReaderInit /\ [][ReaderNext]_everything
    /\ WF_everything((CompactorStep /\ Native) \/ ReaderCopy \/ ReaderTruncate)
    /\ WF_everything((PersistEnd(Host) \/ IoError(Host)) /\ Native)

-----------------------------------------------------------------------------
\* What TryReadRaw hands out, for as long as the mapping lives, is the data of the
\* file it was asked for and lies inside the data file: the host never sees a
\* block that a compaction moved or cut, nor one a writer still fills (Vfs.cs:23
\* "only Active entries are ever exposed").
ReaderSees ==
    \A e \in index.entries : TryReadRaw(e) =>
        /\ e.num \in rotten \/ Holds(file, e)
        /\ e.off + e.span <= length

\* A host that has refreshed and mapped, with no change of the index since, can
\* read every Active file, however the data file grew, shrank or was reopened
\* between its calls (Vfs.cs:355 "rebuilds it when the physical size changed").
ReaderFindsAll ==
    ensured /\ index.gen = idx.gen => \A e \in Active(idx) : TryReadRaw(e)

\* A session that ends without an I/O error keeps what was Active when it closed,
\* although a compaction that runs refuses the flush of vfs_close (mod.rs:763).
CloseKeeps ==
    handle = "closed" /\ fails = 0 /\ (\A t \in Threads : pc[t] = "idle") =>
        \A e \in closedWith :
            \/ e.num \in rotten
            \/ \E g \in Active(disk) : g.name = e.name /\ g.num = e.num
=============================================================================
