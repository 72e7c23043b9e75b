-------------------------- MODULE VfsReaderProofs --------------------------
(***************************************************************************)
(* Proofs about VfsReader, for any names, sizes, reserve and any bounds,   *)
(* over the proofs of VfsStoreProofs about the store the reader reads.     *)
(***************************************************************************)
EXTENDS VfsReader, VfsStoreProofs

-----------------------------------------------------------------------------
(***************************************************************************)
(* The inductive invariant of a session, beside that of the store.         *)
(***************************************************************************)
ReaderTypeInv ==
    /\ handle \in {"open", "closing", "closed"}
    /\ length \in Nat /\ fails \in Nat
    /\ Sound(index)
    /\ mapping \in [cap : Nat, length : Nat] /\ statted \in [cap : {0}, length : Nat]
    /\ mayMap \in BOOLEAN /\ ensured \in BOOLEAN

\* The host's protocol: with a mapping, or about to map, it has an index read since
\* the last compaction, and none runs; its flush is over when it starts one.
HostInv ==
    /\ ~up => handle = "closed"
    /\ mayMap => up /\ handle = "open" /\ ~compacting
    /\ mapping # None \/ statted # None => mayMap
    /\ ensured => mayMap /\ mapping # None
    /\ compacting => pc[Host] = "idle"

Within(img, n) == \A e \in img.entries : e.off + e.span <= n

\* What the host reads an index for is still there: no file of it has lost its place
\* to another file or to a download.
ViewInv ==
    mayMap =>
        /\ index.gen <= idx.gen /\ index.logical <= idx.logical
        /\ index.gen = idx.gen => index = idx
        /\ Within(index, length)
        /\ \A e \in Active(index) :
               /\ Kept(file, e)
               /\ \A g \in Active(idx) : e.num = g.num \/ Clear(e, g)
               /\ \A d \in Downloading(idx) : Clear(e, d)

\* The data file does not shrink under a mapping.
MapInv ==
    /\ mapping.length <= mapping.cap /\ mapping.cap <= length
    /\ statted.length <= length
    /\ ensured => Within(index, mapping.cap)

\* The data file holds every entry: of the index, of the layout that replaces it, and
\* what has been copied for that.
GrownInv ==
    up => /\ pc[Compactor] # "install" => Within(idx, length)
          /\ Turning => Within(snap[Compactor], length)
          /\ pc[Compactor] = "move" =>
                 \A e \in Active(idx) :
                     Read(e) = 0 \/ job.plan.target[e.name] + Read(e) <= length

\* A compaction persists the index it has, and every layout it installs.
FollowInv ==
    /\ \/ pc[Compactor] = "snapped"
       \/ pc[Compactor] \in {"synced", "persisting"} /\ ~job.final
       => snap[Compactor] = idx
    /\ pc[Compactor] \in {"scan", "plan", "move"} => disk = idx
    /\ fails = 0 /\ pc[Compactor] = "over" => disk = idx
    /\ Turning => \A e \in Active(idx) :
                      \E g \in Active(snap[Compactor]) : g.name = e.name /\ g.num = e.num

\* img has what was Active at the close.
Follows(img) ==
    \A e \in closedWith : \/ e.num \in rotten
                          \/ \E g \in Active(img) : g.name = e.name /\ g.num = e.num

CloseInv ==
    handle # "open" /\ fails = 0 =>
        /\ up /\ (compacting \/ pc[Host] # "idle") => Follows(idx)
        /\ ~compacting /\ pc[Host] = "idle" => Follows(disk)
        /\ up /\ Holding(Host) => snap[Host] = idx

ReaderInv ==
    ReaderTypeInv /\ HostInv /\ ViewInv /\ MapInv /\ GrownInv /\ FollowInv /\ CloseInv

-----------------------------------------------------------------------------
(***************************************************************************)
(* Lemmas.                                                                 *)
(***************************************************************************)
LEMMA HostIs ==
    /\ Host \in Threads /\ Host \in Flushers /\ Compactor \in Threads /\ Host # Compactor
    /\ \A t \in Threads : t = Host \/ t = Compactor
BY HostAssumption, StoreAssumption DEF Threads

LEMMA EmptySound == Sound(Empty) /\ Active(Empty) = {} /\ Empty.entries = {} /\ Empty.gen = 1
BY StoreAssumption DEF Sound, Empty, Image, Active, InState

LEMMA NoneIs ==
    /\ None.cap = 0 /\ None.length = 0
    /\ None \in [cap : {0}, length : Nat] /\ None \in [cap : Nat, length : Nat]
BY DEF None

LEMMA WithinMore ==
    ASSUME NEW img, Sound(img), NEW n \in Nat, NEW m \in Nat, n <= m, Within(img, n)
    PROVE  Within(img, m)
<1>. SUFFICES ASSUME NEW e \in img.entries
              PROVE  e.off + e.span <= m
  BY DEF Within
<1>1. e.off \in Nat /\ e.span \in Nat /\ e.off + e.span <= n
  BY ActiveEntry DEF Within
<1>2. e.off + e.span \in Nat
  BY <1>1
<1>. QED
  BY <1>1, <1>2

LEMMA WithinLogical ==
    ASSUME NEW img, Sound(img), NEW n \in Nat, img.logical <= n
    PROVE  Within(img, n)
<1>1. img.logical \in Nat /\ Within(img, img.logical)
  BY StoreAssumption DEF Sound, Image, Within
<1>. QED
  BY <1>1, WithinMore

\* The compaction runs, or the host is inside a persist, not both.
LEMMA OneRuns ==
    ASSUME Inv, ReaderInv
    PROVE  /\ compacting <=> pc[Compactor] # "idle"
           /\ compacting => pc[Host] = "idle" /\ ~Holding(Host)
           /\ ~compacting => ~Turning /\ ~Flipped
           /\ compacting => ~mayMap /\ mapping = None /\ statted = None /\ ~ensured
<1>1. compacting <=> pc[Compactor] # "idle"
  BY DEF Inv, ControlInv, CompactInv
<1>2. compacting => pc[Host] = "idle" /\ ~Holding(Host)
  BY DEF ReaderInv, HostInv, Holding
<1>3. ~compacting => ~Turning /\ ~Flipped
  BY <1>1 DEF Turning, Finalizing, Flipped
<1>4. compacting => ~mayMap /\ mapping = None /\ statted = None /\ ~ensured
  BY DEF ReaderInv, HostInv
<1>. QED
  BY <1>1, <1>2, <1>3, <1>4

\* Before its flip, the compaction and the flushes hold nothing older than the disk.
LEMMA NoneRefused ==
    ASSUME Inv, ReaderInv, up, NEW t \in Threads, pc[t] = "synced", snap[t].gen < disk.gen
    PROVE  t = Host /\ snap[t] # idx
<1>1. idx.gen \in Nat /\ disk.gen \in Nat /\ snap[t].gen \in Nat
  BY DEF Inv, TypeInv, Sound, Image
<1>2. ~Flipped
  BY OneRuns, HostIs DEF Flipped, Holding
<1>3. disk.gen <= idx.gen
  BY <1>2 DEF Inv, ControlInv, GenInv
<1>4. t = Compactor => snap[t].gen = idx.gen \/ snap[t].gen = idx.gen + 1
  BY DEF Inv, ControlInv, GenInv, Holding
<1>. QED
  BY <1>1, <1>3, <1>4, HostIs

-----------------------------------------------------------------------------
(***************************************************************************)
(* What a step leaves as it is keeps the part of the invariant about it.   *)
(***************************************************************************)
\* The store stays; the host does something.
LEMMA StoreStays ==
    ASSUME ReaderInv, UNCHANGED allVars, length' = length
    PROVE  GrownInv' /\ FollowInv'
<1>1. UNCHANGED <<up, idx, disk, pc, snap, job>> /\ fails' = fails
  BY DEF allVars, header, threads
<1>2. (Turning' <=> Turning) /\ \A e : Read(e)' = Read(e)
  BY <1>1 DEF Turning, Finalizing, Flipped, Read, Turn
<1>. QED
  BY <1>1, <1>2 DEF ReaderInv, GrownInv, FollowInv, Within

\* A host without a mapping sees nothing.
LEMMA UnmappedStays ==
    ASSUME ReaderTypeInv, ~mayMap', mapping' = None, statted' = None, ~ensured', length' \in Nat
    PROVE  ViewInv' /\ MapInv'
BY DEF ViewInv, MapInv, None

LEMMA CloseStays ==
    ASSUME ReaderInv, compacting, compacting', UNCHANGED <<up, idx, handle, closedWith, fails>>,
           rotten \subseteq rotten', pc'[Host] = pc[Host]
    PROVE  CloseInv'
<1>1. pc'[Host] = "idle" /\ ~Holding(Host)'
  BY DEF ReaderInv, HostInv, Holding
<1>2. Follows(idx) => Follows(idx)'
  BY DEF Follows
<1>. QED
  BY <1>1, <1>2 DEF ReaderInv, CloseInv

\* A step of the compaction.
LEMMA CompactionStays ==
    ASSUME ReaderInv, compacting, UNCHANGED <<up, hostVars, fails>>, length' \in Nat,
           compacting' \in BOOLEAN, pc'[Host] = pc[Host], GrownInv', FollowInv', CloseInv'
    PROVE  ReaderInv'
<1>1. UNCHANGED <<handle, index, mapping, statted, mayMap, ensured, closedWith>>
  BY DEF hostVars
<1>2. ~mayMap /\ mapping = None /\ statted = None /\ ~ensured
  BY DEF ReaderInv, HostInv
<1>3. ReaderTypeInv'
  BY <1>1 DEF ReaderInv, ReaderTypeInv
<1>4. HostInv'
  BY <1>1, <1>2 DEF ReaderInv, HostInv
<1>5. ViewInv' /\ MapInv'
  BY <1>1, <1>2, UnmappedStays DEF ReaderInv
<1>. QED
  BY <1>3, <1>4, <1>5 DEF ReaderInv

\* A step that leaves the index and the data file: of a flush, or of a persist of the
\* compaction.
LEMMA PersistStays ==
    ASSUME ReaderInv, up, UNCHANGED <<up, idx, file, rotten, compacting, job, readerVars>>,
           fails' \in Nat, compacting => pc'[Host] = "idle",
           pc'[Compactor] = "install" <=> pc[Compactor] = "install",
           pc'[Compactor] = "move" => pc[Compactor] = "move",
           Turning' => Turning /\ snap'[Compactor] = snap[Compactor],
           FollowInv', CloseInv'
    PROVE  ReaderInv'
<1>1. UNCHANGED <<handle, length, index, mapping, statted, mayMap, ensured, closedWith>>
  BY DEF readerVars, hostVars
<1>2. ReaderTypeInv'
  BY <1>1 DEF ReaderInv, ReaderTypeInv
<1>3. HostInv'
  BY <1>1 DEF ReaderInv, HostInv
<1>4. ViewInv'
  BY <1>1 DEF ReaderInv, ViewInv, Within, Kept
<1>5. MapInv'
  BY <1>1 DEF ReaderInv, MapInv, Within
<1>6. GrownInv'
  <2>1. \A e : Read(e)' = Read(e)
    BY DEF Read, Turn
  <2>. QED
    BY <1>1, <2>1 DEF ReaderInv, GrownInv, Within
<1>. QED
  BY <1>2, <1>3, <1>4, <1>5, <1>6 DEF ReaderInv

-----------------------------------------------------------------------------
(***************************************************************************)
(* Persists.                                                               *)
(***************************************************************************)
\* Whatever step of a persist t takes, nothing else of the store moves.
LEMMA PcGoes ==
    ASSUME Inv, NEW t \in Threads, NEW step, pc' = [pc EXCEPT ![t] = step]
    PROVE  \A u \in Threads : pc'[u] = IF u = t THEN step ELSE pc[u]
BY DEF Inv, TypeInv

LEMMA SnapshotReads ==
    ASSUME Inv, ReaderInv, NEW t \in Threads, Snapshot(t), UNCHANGED readerVars
    PROVE  ReaderInv'
<1>1. /\ up /\ pc[t] = "called" /\ snap' = [snap EXCEPT ![t] = idx]
      /\ pc' = [pc EXCEPT ![t] = "snapped"] /\ snap \in [Threads -> Image]
      /\ UNCHANGED <<up, idx, disk, file, rotten, compacting, job, fails, handle, closedWith>>
  BY DEF Snapshot, Goto, header, data, history, readerVars, hostVars, Inv, TypeInv
<1>2. \A u \in Threads : /\ pc'[u] = IF u = t THEN "snapped" ELSE pc[u]
                         /\ snap'[u] = IF u = t THEN idx ELSE snap[u]
  BY <1>1, PcGoes
<1>3. Turning' => Turning /\ snap'[Compactor] = snap[Compactor]
  BY <1>1, <1>2, HostIs DEF Turning, Finalizing, Flipped
<1>4. FollowInv'
  BY <1>1, <1>2, <1>3, HostIs DEF ReaderInv, FollowInv
<1>5. CloseInv'
  BY <1>1, <1>2, HostIs DEF ReaderInv, CloseInv, Follows, Holding
<1>. QED
  BY <1>1, <1>2, <1>3, <1>4, <1>5, OneRuns, HostIs, PersistStays DEF ReaderInv, ReaderTypeInv

LEMMA SyncDataReads ==
    ASSUME Inv, ReaderInv, NEW t \in Threads, SyncData(t), UNCHANGED readerVars
    PROVE  ReaderInv'
<1>1. /\ up /\ pc[t] = "snapped" /\ pc' = [pc EXCEPT ![t] = "synced"]
      /\ UNCHANGED <<up, idx, disk, file, rotten, compacting, snap, job, fails, handle, closedWith>>
  BY DEF SyncData, Goto, header, history, readerVars, hostVars
<1>2. \A u \in Threads : pc'[u] = IF u = t THEN "synced" ELSE pc[u]
  BY <1>1, PcGoes
<1>3. t = Compactor => ~job.final
  BY <1>1 DEF Inv, ControlInv, CompactInv
<1>4. Turning' => Turning
  BY <1>1, <1>2, <1>3, HostIs DEF Turning, Finalizing, Flipped
<1>5. FollowInv'
  BY <1>1, <1>2, <1>3, <1>4, HostIs DEF ReaderInv, FollowInv
<1>6. CloseInv'
  BY <1>1, <1>2, HostIs DEF ReaderInv, CloseInv, Follows, Holding
<1>. QED
  BY <1>1, <1>2, <1>4, <1>5, <1>6, OneRuns, HostIs, PersistStays DEF ReaderInv, ReaderTypeInv

LEMMA PersistBeginReads ==
    ASSUME Inv, ReaderInv, NEW t \in Threads, PersistBegin(t), UNCHANGED readerVars
    PROVE  ReaderInv'
<1>1. /\ up /\ pc[t] = "synced" /\ pc' = [pc EXCEPT ![t] = "persisting"]
      /\ UNCHANGED <<up, idx, disk, file, rotten, compacting, snap, job, fails, handle, closedWith>>
  BY DEF PersistBegin, Begin, Goto, data, history, readerVars, hostVars
<1>2. \A u \in Threads : pc'[u] = IF u = t THEN "persisting" ELSE pc[u]
  BY <1>1, PcGoes
<1>3. Turning' => Turning
  BY <1>1, <1>2, HostIs DEF Turning, Finalizing, Flipped
<1>4. FollowInv'
  BY <1>1, <1>2, <1>3, HostIs DEF ReaderInv, FollowInv
<1>5. CloseInv'
  BY <1>1, <1>2, HostIs DEF ReaderInv, CloseInv, Follows, Holding
<1>. QED
  BY <1>1, <1>2, <1>3, <1>4, <1>5, OneRuns, HostIs, PersistStays DEF ReaderInv, ReaderTypeInv

\* The image a closing host persists is the index as it was at the close.
LEMMA PersistEndReads ==
    ASSUME Inv, ReaderInv, NEW t \in Threads, PersistEnd(t), UNCHANGED readerVars
    PROVE  ReaderInv'
<1>. DEFINE step == CASE t \in Flushers -> "idle"
                      [] t = Compactor /\ job.final -> "flipped"
                      [] OTHER -> "scan"
<1>1. /\ up /\ pc[t] = "persisting" /\ pc' = [pc EXCEPT ![t] = step] /\ disk' = snap[t]
      /\ t = Compactor => snap' = snap
      /\ UNCHANGED <<up, idx, file, rotten, compacting, job, fails, handle, closedWith>>
  BY StoreAssumption DEF PersistEnd, Complete, Proceed, Drop, Goto, data, history, readerVars, hostVars
<1>2. \A u \in Threads : pc'[u] = IF u = t THEN step ELSE pc[u]
  BY <1>1, PcGoes
<1>3. /\ t = Host => step = "idle"
      /\ t = Compactor => step = IF job.final THEN "flipped" ELSE "scan"
  BY HostIs, StoreAssumption
<1>. HIDE DEF step
<1>4. CASE t = Host
  <2>1. ~compacting /\ pc[Compactor] = "idle" /\ pc'[Host] = "idle" /\ pc'[Compactor] = "idle"
    BY <1>1, <1>2, <1>3, <1>4, OneRuns, HostIs
  <2>2. ~Turning' /\ FollowInv'
    BY <2>1 DEF Turning, Finalizing, Flipped, FollowInv
  <2>3. CloseInv'
    <3>1. handle # "open" /\ fails = 0 => snap[Host] = idx /\ Follows(idx)
      BY <1>1, <1>4, <2>1 DEF ReaderInv, CloseInv, Holding
    <3>. QED
      BY <1>1, <1>4, <2>1, <3>1 DEF CloseInv, Follows, Holding
  <2>. QED
    BY <1>1, <2>1, <2>2, <2>3, PersistStays DEF ReaderInv, ReaderTypeInv
<1>5. CASE t = Compactor
  <2>1. compacting /\ pc[Host] = "idle" /\ pc'[Host] = "idle" /\ pc'[Compactor] = step
    BY <1>1, <1>2, <1>5, OneRuns, HostIs
  <2>2. Turning' => Turning /\ snap' = snap
    BY <1>1, <1>3, <1>5, <2>1 DEF Turning, Finalizing, Flipped
  <2>3. FollowInv'
    BY <1>1, <1>3, <1>5, <2>1, <2>2 DEF ReaderInv, FollowInv
  <2>4. CloseInv'
    BY <1>1, <2>1, CloseStays
  <2>. QED
    BY <1>1, <1>3, <1>5, <2>1, <2>2, <2>3, <2>4, PersistStays DEF ReaderInv, ReaderTypeInv
<1>. QED
  BY <1>4, <1>5, HostIs

LEMMA PersistRefusedReads ==
    ASSUME Inv, ReaderInv, NEW t \in Threads, PersistRefused(t), UNCHANGED readerVars
    PROVE  ReaderInv'
<1>1. t = Host /\ snap[t] # idx /\ up /\ pc[t] = "synced"
  BY NoneRefused DEF PersistRefused
<1>2. /\ pc' = [pc EXCEPT ![t] = "idle"]
      /\ UNCHANGED <<up, idx, disk, file, rotten, compacting, job, fails, handle, closedWith>>
  BY <1>1, HostIs DEF PersistRefused, GiveUp, Goto, header, data, history, readerVars, hostVars
<1>3. /\ ~compacting /\ pc[Compactor] = "idle" /\ pc'[Host] = "idle" /\ pc'[Compactor] = "idle"
  <2>1. \A u \in Threads : pc'[u] = IF u = t THEN "idle" ELSE pc[u]
    BY <1>2, PcGoes
  <2>2. ~compacting /\ pc[Compactor] = "idle"
    BY <1>1, OneRuns
  <2>. QED
    BY <1>1, <2>1, <2>2, HostIs
<1>4. ~Turning' /\ FollowInv'
  BY <1>3 DEF Turning, Finalizing, Flipped, FollowInv
<1>5. CloseInv'
  BY <1>1, <1>2 DEF ReaderInv, CloseInv, Holding
<1>. QED
  BY <1>1, <1>2, <1>3, <1>4, <1>5, PersistStays DEF ReaderInv, ReaderTypeInv

LEMMA IoErrorReads ==
    ASSUME Inv, ReaderInv, NEW t \in Threads, IoError(t), UNCHANGED readerVars
    PROVE  ReaderInv'
<1>. DEFINE step == IF t \in Flushers THEN "idle" ELSE "over"
<1>1. /\ up /\ pc' = [pc EXCEPT ![t] = step]
      /\ pc[t] \in {"snapped", "synced", "persisting", "move"} /\ fails' = fails + 1
      /\ t = Host => snap'[Compactor] = snap[Compactor]
      /\ UNCHANGED <<up, idx, disk, file, rotten, compacting, job, handle, closedWith>>
  BY HostIs DEF IoError, GiveUp, Drop, Goto, header, data, history, readerVars, hostVars, Inv, TypeInv
<1>. HIDE DEF step
<1>2. \A u \in Threads : pc'[u] = IF u = t THEN step ELSE pc[u]
  BY <1>1, PcGoes
<1>3. t = Compactor => step = "over"
  BY StoreAssumption DEF step
<1>4. t = Host => step = "idle"
  BY HostIs DEF step
<1>5. fails' \in Nat /\ fails' # 0
  BY <1>1 DEF ReaderInv, ReaderTypeInv
<1>6. Turning' => Turning /\ snap'[Compactor] = snap[Compactor]
  BY <1>1, <1>2, <1>3, HostIs DEF Turning, Finalizing, Flipped
<1>7. FollowInv'
  BY <1>1, <1>2, <1>3, <1>5, <1>6, HostIs DEF ReaderInv, FollowInv
<1>8. CloseInv'
  BY <1>5 DEF CloseInv
<1>. QED
  BY <1>1, <1>2, <1>3, <1>4, <1>5, <1>6, <1>7, <1>8, OneRuns, HostIs, PersistStays

-----------------------------------------------------------------------------
(***************************************************************************)
(* Steps of the compaction.                                                *)
(***************************************************************************)
LEMMA ScanReads ==
    ASSUME Inv, ReaderInv, Scan, UNCHANGED readerVars
    PROVE  ReaderInv'
<1>1. /\ up /\ pc[Compactor] = "scan" /\ pc' = [pc EXCEPT ![Compactor] = "plan"]
      /\ UNCHANGED <<up, idx, disk, rotten, compacting, fails, hostVars, handle, closedWith, length>>
  BY DEF Scan, Goto, header, history, readerVars, hostVars
<1>2. compacting /\ pc'[Host] = pc[Host] /\ pc'[Compactor] = "plan" /\ ~Turning'
  <2>1. \A u \in Threads : pc'[u] = IF u = Compactor THEN "plan" ELSE pc[u]
    BY <1>1, PcGoes, HostIs
  <2>. QED
    BY <1>1, <2>1, OneRuns, HostIs DEF Turning, Finalizing, Flipped
<1>3. GrownInv'
  BY <1>1, <1>2 DEF ReaderInv, GrownInv, Within
<1>4. FollowInv'
  BY <1>1, <1>2 DEF ReaderInv, FollowInv
<1>5. CloseInv'
  BY <1>1, <1>2, CloseStays
<1>. QED
  BY <1>1, <1>2, <1>3, <1>4, <1>5, CompactionStays DEF ReaderInv, ReaderTypeInv, Inv, TypeInv

LEMMA PlanFileReads ==
    ASSUME Inv, ReaderInv, NEW f \in Files, PlanFile(f), UNCHANGED readerVars
    PROVE  ReaderInv'
<1>1. /\ up /\ pc[Compactor] = "plan"
      /\ UNCHANGED <<up, idx, disk, pc, rotten, compacting, fails, hostVars, handle, closedWith, length>>
  BY DEF PlanFile, header, history, readerVars, hostVars
<1>2. compacting /\ ~Turning'
  BY <1>1, OneRuns DEF Turning, Finalizing, Flipped
<1>3. GrownInv'
  BY <1>1, <1>2 DEF ReaderInv, GrownInv, Within
<1>4. FollowInv'
  BY <1>1, <1>2 DEF ReaderInv, FollowInv
<1>5. CloseInv'
  BY <1>1, <1>2, CloseStays
<1>. QED
  BY <1>1, <1>2, <1>3, <1>4, <1>5, CompactionStays DEF ReaderInv, ReaderTypeInv, Inv, TypeInv

\* Nothing has been copied when the files begin to move.
LEMMA StartMoveReads ==
    ASSUME Inv, ReaderInv, StartMove, UNCHANGED readerVars
    PROVE  ReaderInv'
<1>1. /\ up /\ pc[Compactor] = "plan" /\ pc' = [pc EXCEPT ![Compactor] = "move"]
      /\ job.plan.placed = LayoutOf(idx).live /\ job' = [job EXCEPT !.left = job.plan.placed]
      /\ job \in JobType
      /\ UNCHANGED <<up, idx, disk, rotten, compacting, fails, hostVars, handle, closedWith, length>>
  BY DEF StartMove, Goto, header, history, readerVars, hostVars, Inv, TypeInv
<1>2. compacting /\ pc'[Host] = pc[Host] /\ pc'[Compactor] = "move" /\ ~Turning'
  <2>1. \A u \in Threads : pc'[u] = IF u = Compactor THEN "move" ELSE pc[u]
    <3>1. pc' = [pc EXCEPT ![Compactor] = "move"]
      BY <1>1
    <3>. QED
      BY <3>1, PcGoes, HostIs
  <2>. QED
    BY <1>1, <2>1, OneRuns, HostIs DEF Turning, Finalizing, Flipped
<1>3. job.block = 0 /\ job'.block = 0 /\ job'.left = LayoutOf(idx).live
  BY <1>1 DEF Inv, RoundInv, PlannedInv, JobType
<1>4. \A e \in Active(idx) : Read(e)' = 0
  <2>1. \A e \in Active(idx) : e.name \in job'.left
    BY <1>3, LayoutEntries DEF Inv, TypeInv
  <2>. QED
    BY <1>3, <2>1 DEF Read
<1>5. GrownInv'
  BY <1>1, <1>2, <1>4 DEF ReaderInv, GrownInv, Within, Active, InState
<1>6. FollowInv'
  BY <1>1, <1>2 DEF ReaderInv, FollowInv
<1>7. CloseInv'
  BY <1>1, <1>2, CloseStays
<1>. QED
  BY <1>1, <1>2, <1>5, <1>6, <1>7, CompactionStays DEF ReaderInv, ReaderTypeInv, Inv, TypeInv

\* The data file grows as far as a file is copied.
LEMMA CopyReads ==
    ASSUME Inv, ReaderInv, ReaderCopy
    PROVE  ReaderInv'
<1>1. /\ up /\ pc[Compactor] = "move" /\ CopyBlock /\ job'.plan = job.plan
      /\ UNCHANGED <<up, idx, disk, pc, snap, rotten, compacting, fails, hostVars, handle, closedWith>>
  BY DEF ReaderCopy, CopyBlock, header, history, hostVars, Inv, TypeInv, JobType
<1>2. PICK e \in Active(idx) :
          LET to == job.plan.target[e.name] IN
          /\ Turn(e)
          /\ IF to = e.off THEN UNCHANGED length ELSE GrowTo(to + job.block + 1)
  BY DEF ReaderCopy
<1>. DEFINE to == job.plan.target[e.name]
<1>3. compacting /\ ~Turning' /\ length \in Nat
  BY <1>1, OneRuns DEF Turning, Finalizing, Flipped, ReaderInv, ReaderTypeInv
<1>4. /\ to \in Nat /\ job.block \in Nat /\ e \in idx.entries /\ Sound(idx)
      /\ e.off \in Nat /\ e.span \in Nat /\ job.block < e.span
  BY <1>1, <1>2, MovingEntry, WhileMoving DEF Inv, RoundInv, MoveInv
<1>5. length' \in Nat /\ length <= length'
  BY <1>2, <1>3, <1>4 DEF GrowTo
<1>6. Within(idx, length) /\ Within(idx, length')
  BY <1>1, <1>3, <1>4, <1>5, WithinMore DEF ReaderInv, GrownInv
<1>7. to + (job.block + 1) <= length'
  <2>1. CASE to = e.off
    <3>1. e.off + e.span <= length /\ length' = length
      BY <1>2, <1>4, <1>6, <2>1 DEF Within
    <3>. QED
      BY <1>3, <1>4, <2>1, <3>1
  <2>2. CASE to # e.off
    BY <1>2, <1>3, <1>4, <2>2 DEF GrowTo
  <2>. QED
    BY <2>1, <2>2
<1>8. ASSUME NEW g \in Active(idx)
      PROVE  Read(g)' = 0 \/ job'.plan.target[g.name] + Read(g)' <= length'
  <2>1. Read(g)' = IF Turn(g) THEN job.block + 1 ELSE Read(g)
    BY <1>1, CopyBlockReads
  <2>2. /\ Read(g) \in Nat /\ job.plan.target[g.name] \in Nat
        /\ Read(g) = 0 \/ job.plan.target[g.name] + Read(g) <= length
    BY <1>1, MovingEntry DEF ReaderInv, GrownInv
  <2>3. Turn(g) => g = e
    BY <1>1, <1>2, OneTurn
  <2>. DEFINE tg == job.plan.target[g.name]
  <2>4. tg \in Nat /\ (Read(g) = 0 \/ tg + Read(g) <= length)
    BY <2>2
  <2>5. Turn(g) => tg + (job.block + 1) <= length'
    BY <1>7, <2>3
  <2>. HIDE DEF tg, to
  <2>6. ~Turn(g) => Read(g) = 0 \/ tg + Read(g) <= length'
    BY <1>3, <1>5, <2>2, <2>4
  <2>7. Read(g)' = 0 \/ tg + Read(g)' <= length'
    BY <2>1, <2>5, <2>6
  <2>. QED
    BY <1>1, <2>7 DEF tg
<1>9. GrownInv'
  BY <1>1, <1>3, <1>6, <1>8 DEF GrownInv, Within, Active, InState
<1>10. FollowInv'
  BY <1>1, <1>3 DEF ReaderInv, FollowInv
<1>11. CloseInv'
  BY <1>1, <1>3, CloseStays
<1>. QED
  BY <1>1, <1>3, <1>5, <1>9, <1>10, <1>11, CompactionStays DEF Inv, TypeInv

\* The files that stay Active are in the new layout, which the data file holds.
LEMMA FinalizeReads ==
    ASSUME Inv, ReaderInv, Finalize, UNCHANGED readerVars
    PROVE  ReaderInv'
<1>1. /\ up /\ pc[Compactor] = "move" /\ job.left = {}
      /\ pc' = [pc EXCEPT ![Compactor] = "synced"]
      /\ \A e \in Active(idx') : e \in Active(idx)
      /\ \A e \in Active(idx) : e \in Active(idx') \/ e.num \in rotten
      /\ \A e \in Active(idx') :
             \E h \in Active(snap'[Compactor]) : h.name = e.name /\ h.num = e.num
      /\ \A h \in idx'.entries : \E e \in idx.entries : h.off = e.off /\ h.span = e.span
      /\ \A h \in snap'[Compactor].entries :
             \E e \in Active(idx) : h.off = job.plan.target[e.name] /\ h.span = e.span
  BY FinalizeBuilds
<1>2. /\ UNCHANGED <<up, disk, rotten, compacting, fails, hostVars, handle, closedWith, length>>
      /\ job' = [job EXCEPT !.final = TRUE] /\ job \in JobType
  BY DEF Finalize, header, history, readerVars, hostVars, Inv, TypeInv
<1>3. job'.final = TRUE
  BY <1>2 DEF JobType
<1>4. compacting /\ pc'[Host] = pc[Host] /\ pc'[Compactor] = "synced" /\ pc[Host] = "idle"
  <2>1. \A u \in Threads : pc'[u] = IF u = Compactor THEN "synced" ELSE pc[u]
    <3>1. pc' = [pc EXCEPT ![Compactor] = "synced"]
      BY <1>1
    <3>. QED
      BY <3>1, PcGoes, HostIs
  <2>. QED
    BY <1>1, <2>1, OneRuns, HostIs
<1>5. GrownInv'
  <2>1. Within(idx, length)'
    BY <1>1, <1>2 DEF ReaderInv, GrownInv, Within
  <2>2. ASSUME NEW e \in Active(idx)
        PROVE  job.plan.target[e.name] + e.span <= length
    <3>1. Read(e) = e.span /\ e.span # 0
      BY <1>1, MovingEntry DEF Read
    <3>. QED
      BY <1>1, <3>1 DEF ReaderInv, GrownInv
  <2>3. Within(snap[Compactor], length)'
    BY <1>1, <1>2, <2>2 DEF Within
  <2>. QED
    BY <1>4, <2>1, <2>3 DEF GrownInv
<1>6. FollowInv'
  BY <1>1, <1>3, <1>4 DEF FollowInv
<1>7. CloseInv'
  <2>1. Follows(idx) => Follows(idx)'
    <3>. SUFFICES ASSUME Follows(idx), NEW e \in closedWith
                  PROVE  \/ e.num \in rotten
                         \/ \E g \in Active(idx') : g.name = e.name /\ g.num = e.num
      BY <1>2 DEF Follows
    <3>. QED
      BY <1>1 DEF Follows
  <2>. QED
    BY <1>2, <1>4, <2>1 DEF ReaderInv, CloseInv, Holding
<1>. QED
  BY <1>1, <1>2, <1>4, <1>5, <1>6, <1>7, CompactionStays DEF ReaderInv, ReaderTypeInv, Inv, TypeInv

\* The cut leaves what the new layout needs.
LEMMA TruncateReads ==
    ASSUME Inv, ReaderInv, ReaderTruncate
    PROVE  ReaderInv'
<1>1. /\ up /\ pc[Compactor] = "flipped" /\ pc' = [pc EXCEPT ![Compactor] = "install"]
      /\ UNCHANGED <<up, idx, disk, snap, job, rotten, compacting, fails, hostVars, handle, closedWith>>
      /\ length' = snap[Compactor].logical + Reserve \/ length' = length
  BY DEF ReaderTruncate, Truncate, Goto, header, history, hostVars
<1>2. compacting /\ pc'[Host] = pc[Host] /\ pc'[Compactor] = "install" /\ Turning
  <2>1. \A u \in Threads : pc'[u] = IF u = Compactor THEN "install" ELSE pc[u]
    BY <1>1, PcGoes, HostIs
  <2>. QED
    BY <1>1, <2>1, OneRuns, HostIs DEF Turning, Flipped
<1>3. Sound(snap[Compactor]) /\ snap[Compactor].logical \in Nat /\ Reserve \in Nat /\ length \in Nat
  BY StoreAssumption, HostIs DEF Inv, TypeInv, Sound, Image, ReaderInv, ReaderTypeInv
<1>4. length' \in Nat
  BY <1>1, <1>3
<1>5. Within(snap[Compactor], length')
  <2>1. CASE length' = snap[Compactor].logical + Reserve
    <3>1. snap[Compactor].logical <= length'
      BY <1>3, <2>1
    <3>. QED
      BY <1>3, <1>4, <3>1, WithinLogical
  <2>2. CASE length' = length
    BY <1>1, <1>2, <2>2 DEF ReaderInv, GrownInv
  <2>. QED
    BY <1>1, <2>1, <2>2
<1>6. GrownInv'
  BY <1>1, <1>2, <1>5 DEF GrownInv, Within
<1>7. FollowInv'
  BY <1>1, <1>2 DEF ReaderInv, FollowInv
<1>8. CloseInv'
  BY <1>1, <1>2, CloseStays
<1>. QED
  BY <1>1, <1>2, <1>4, <1>6, <1>7, <1>8, CompactionStays DEF Inv, TypeInv

LEMMA InstallReads ==
    ASSUME Inv, ReaderInv, Install, UNCHANGED readerVars
    PROVE  ReaderInv'
<1>. DEFINE step == IF job.plan.excluded \/ job.bad # {} THEN "scan" ELSE "over"
<1>1. /\ up /\ pc[Compactor] = "install" /\ pc' = [pc EXCEPT ![Compactor] = step]
      /\ idx' = snap[Compactor]
      /\ UNCHANGED <<up, disk, snap, job, rotten, compacting, fails, hostVars, handle, closedWith, length>>
  BY DEF Install, Goto, header, history, readerVars, hostVars
<1>2. step \in {"scan", "over"}
  OBVIOUS
<1>. HIDE DEF step
<1>3. /\ compacting /\ pc'[Host] = pc[Host] /\ pc'[Compactor] = step /\ Turning /\ ~Turning'
      /\ pc[Host] = "idle"
  <2>1. \A u \in Threads : pc'[u] = IF u = Compactor THEN step ELSE pc[u]
    BY <1>1, PcGoes, HostIs
  <2>. QED
    BY <1>1, <1>2, <2>1, OneRuns, HostIs DEF Turning, Flipped, Finalizing
<1>4. disk = snap[Compactor]
  BY <1>1 DEF Inv, ControlInv, GenInv, Flipped
<1>5. GrownInv'
  BY <1>1, <1>2, <1>3 DEF ReaderInv, GrownInv, Within
<1>6. FollowInv'
  BY <1>1, <1>2, <1>3, <1>4 DEF FollowInv
<1>7. CloseInv'
  <2>1. Follows(idx) => Follows(idx)'
    <3>. SUFFICES ASSUME Follows(idx), NEW e \in closedWith
                  PROVE  \/ e.num \in rotten
                         \/ \E g \in Active(snap[Compactor]) : g.name = e.name /\ g.num = e.num
      BY <1>1 DEF Follows
    <3>. QED
      BY <1>3 DEF Follows, ReaderInv, FollowInv
  <2>. QED
    BY <1>1, <1>3, <2>1 DEF ReaderInv, CloseInv, Holding
<1>. QED
  BY <1>1, <1>3, <1>5, <1>6, <1>7, CompactionStays DEF ReaderInv, ReaderTypeInv, Inv, TypeInv

\* A compaction that no I/O error ended leaves the index it installed on the disk.
LEMMA CompactOverReads ==
    ASSUME Inv, ReaderInv, CompactOver, UNCHANGED readerVars
    PROVE  ReaderInv'
<1>1. /\ up /\ pc[Compactor] = "over" /\ pc' = [pc EXCEPT ![Compactor] = "idle"]
      /\ compacting' = FALSE
      /\ UNCHANGED <<up, idx, disk, rotten, fails, hostVars, handle, closedWith, length>>
  BY DEF CompactOver, Goto, header, data, history, readerVars, hostVars
<1>2. /\ compacting /\ pc'[Host] = pc[Host] /\ pc'[Compactor] = "idle" /\ ~Turning'
      /\ pc[Host] = "idle"
  <2>1. \A u \in Threads : pc'[u] = IF u = Compactor THEN "idle" ELSE pc[u]
    BY <1>1, PcGoes, HostIs
  <2>. QED
    BY <1>1, <2>1, OneRuns, HostIs DEF Turning, Flipped, Finalizing
<1>3. GrownInv'
  BY <1>1, <1>2 DEF ReaderInv, GrownInv, Within
<1>4. FollowInv'
  BY <1>2 DEF FollowInv
<1>5. CloseInv'
  <2>1. handle # "open" /\ fails = 0 => disk = idx /\ Follows(idx)
    BY <1>1, <1>2 DEF ReaderInv, CloseInv, FollowInv
  <2>2. Follows(idx) /\ disk = idx => Follows(disk)'
    BY <1>1 DEF Follows
  <2>. QED
    BY <1>1, <1>2, <2>1, <2>2 DEF CloseInv, Holding
<1>. QED
  BY <1>1, <1>2, <1>3, <1>4, <1>5, CompactionStays DEF ReaderInv, ReaderTypeInv

-----------------------------------------------------------------------------
(***************************************************************************)
(* Clients, downloads, and the disk.                                       *)
(***************************************************************************)
\* Operations on the index take no place from what the host may read.
LEMMA IndexStepReads ==
    ASSUME Inv, ReaderInv, IndexStep, handle = "open", UNCHANGED hostVars,
           length' \in Nat, length <= length', fails' \in Nat, Within(idx', length')
    PROVE  ReaderInv'
<1>1. /\ UNCHANGED <<up, disk, compacting, pc, snap, job, file, rotten>>
      /\ UNCHANGED <<handle, index, mapping, statted, mayMap, ensured, closedWith>>
  BY DEF IndexStep, header, data, threads, hostVars
<1>2. /\ up /\ pc[Compactor] = "idle" /\ ~Turning'
      /\ Sound(idx) /\ Sound(idx') /\ Sound(index) /\ length \in Nat
      /\ idx.gen \in Nat /\ idx.logical \in Nat /\ index.gen \in Nat /\ index.logical \in Nat
      /\ idx'.gen = idx.gen + 1 /\ idx'.logical \in Nat /\ idx.logical <= idx'.logical
  BY <1>1, OneRuns, StoreAssumption DEF IndexStep, Inv, TypeInv, ReaderInv, ReaderTypeInv, Sound, Image,
     Turning, Finalizing, Flipped
<1>3. ReaderTypeInv' /\ HostInv'
  BY <1>1 DEF ReaderInv, ReaderTypeInv, HostInv
<1>4. ViewInv'
  <2>. SUFFICES ASSUME mayMap
                PROVE  /\ index.gen <= idx'.gen /\ index.logical <= idx'.logical
                       /\ index.gen # idx'.gen
                       /\ Within(index, length')
                       /\ \A e \in Active(index) :
                              /\ Kept(file, e)
                              /\ \A g \in Active(idx') : e.num = g.num \/ Clear(e, g)
                              /\ \A d \in Downloading(idx') : Clear(e, d)
    BY <1>1 DEF ViewInv, Within, Kept
  <2>1. index.gen <= idx.gen /\ index.logical <= idx.logical /\ Within(index, length)
    BY DEF ReaderInv, ViewInv
  <2>2. index.gen <= idx'.gen /\ index.logical <= idx'.logical /\ index.gen # idx'.gen
    BY <1>2, <2>1
  <2>3. Within(index, length')
    BY <1>2, <2>1, WithinMore
  <2>. SUFFICES ASSUME NEW e \in Active(index)
                PROVE  /\ Kept(file, e)
                       /\ \A g \in Active(idx') : e.num = g.num \/ Clear(e, g)
                       /\ \A d \in Downloading(idx') : Clear(e, d)
    BY <2>2, <2>3
  <2>4. /\ Kept(file, e)
        /\ \A g \in Active(idx) : e.num = g.num \/ Clear(e, g)
        /\ \A d \in Downloading(idx) : Clear(e, d)
    BY DEF ReaderInv, ViewInv
  <2>5. ASSUME NEW g \in Active(idx')
        PROVE  e.num = g.num \/ Clear(e, g)
    BY <2>4 DEF IndexStep, Clear, Apart
  <2>6. ASSUME NEW d \in Downloading(idx')
        PROVE  Clear(e, d)
    <3>1. CASE d \in Downloading(idx)
      BY <2>4, <3>1
    <3>2. CASE idx.logical <= d.off
      <4>1. /\ e.off \in Nat /\ e.span \in Nat /\ e.off + e.span <= index.logical
            /\ d.off \in Nat /\ d.span \in Nat
        BY <1>2, ActiveEntry DEF Active, Downloading, InState
      <4>2. e.off + e.span \in Nat
        BY <4>1
      <4>3. e.off + e.span <= d.off
        BY <1>2, <2>1, <3>2, <4>1, <4>2
      <4>. QED
        BY <4>1, <4>3 DEF Clear, Apart
    <3>. QED
      BY <3>1, <3>2 DEF IndexStep
  <2>. QED
    BY <2>4, <2>5, <2>6
<1>5. MapInv'
  <2>1. mapping.cap \in Nat /\ statted.length \in Nat
    BY DEF ReaderInv, ReaderTypeInv
  <2>2. mapping.cap <= length' /\ statted.length <= length'
    BY <1>2, <2>1 DEF ReaderInv, MapInv
  <2>. QED
    BY <1>1, <2>2 DEF ReaderInv, MapInv, Within
<1>6. GrownInv'
  BY <1>1, <1>2 DEF GrownInv, Within
<1>7. FollowInv' /\ CloseInv'
  BY <1>1, <1>2 DEF FollowInv, CloseInv
<1>. QED
  BY <1>3, <1>4, <1>5, <1>6, <1>7 DEF ReaderInv

LEMMA AllocReads ==
    ASSUME Inv, ReaderInv, NEW f \in Files, NEW size \in Sizes, ReaderAlloc(f, size)
    PROVE  ReaderInv'
<1>1. IndexStep /\ Sound(idx') /\ idx'.logical \in Nat
  BY AllocSteps, StoreAssumption DEF ReaderAlloc, IndexStep, Sound, Image
<1>2. fails' \in Nat /\ length \in Nat
  BY DEF ReaderAlloc, Alloc, ReaderInv, ReaderTypeInv
<1>3. length' \in Nat /\ length <= length' /\ idx'.logical <= length'
  BY <1>1, <1>2 DEF ReaderAlloc, GrowTo
<1>4. Within(idx', length')
  BY <1>1, <1>3, WithinLogical
<1>. QED
  BY <1>1, <1>2, <1>3, <1>4, IndexStepReads DEF ReaderAlloc

\* An operation that leaves every entry where it was, or takes it away.
LEMMA InPlaceReads ==
    ASSUME Inv, ReaderInv, IndexStep, handle = "open", UNCHANGED hostVars,
           length' \in Nat, length <= length', fails' \in Nat,
           \A e \in idx'.entries : \E g \in idx.entries : e.off = g.off /\ e.span = g.span
    PROVE  ReaderInv'
<1>1. /\ Sound(idx) /\ length \in Nat /\ up /\ pc[Compactor] = "idle"
  BY OneRuns DEF IndexStep, Inv, TypeInv, ReaderInv, ReaderTypeInv
<1>2. Within(idx, length)
  BY <1>1 DEF ReaderInv, GrownInv
<1>3. Within(idx, length')
  BY <1>1, <1>2, WithinMore
<1>4. Within(idx', length')
  BY <1>3 DEF Within
<1>. QED
  BY <1>4, IndexStepReads

LEMMA AllocFailsReads ==
    ASSUME Inv, ReaderInv, NEW f \in Files, NEW size \in Sizes, ReaderAllocFails(f, size)
    PROVE  ReaderInv'
<1>1. IndexStep /\ idx'.logical \in Nat
  BY AllocFailsSteps, StoreAssumption DEF ReaderAllocFails, IndexStep, Sound, Image
<1>2. fails' \in Nat /\ length \in Nat
  BY DEF ReaderAllocFails, AllocFails, ReaderInv, ReaderTypeInv
<1>3. length' \in Nat /\ length <= length'
  BY <1>1, <1>2 DEF ReaderAllocFails, GrowTo
<1>4. \A e \in idx'.entries : e \in idx.entries
  BY DEF ReaderAllocFails, AllocFails
<1>. QED
  BY <1>1, <1>2, <1>3, <1>4, InPlaceReads DEF ReaderAllocFails

LEMMA ChangedReads ==
    ASSUME Inv, ReaderInv, NEW f \in Files, Client(f), ~WriteAt(f)
    PROVE  ReaderInv'
<1>1. /\ handle = "open" /\ UNCHANGED hostVars /\ length' = length /\ length \in Nat
      /\ fails' \in Nat
  BY DEF Client, Commit, Abort, Delete, readerVars, ReaderInv, ReaderTypeInv
<1>2. IndexStep
  BY CommitSteps, AbortSteps, DeleteSteps DEF Client
<1>3. Sound(idx) /\ idx \in Image
  BY DEF Inv, TypeInv, Sound
<1>4. PICK e \in Named(idx, f), s \in StateNames :
          Changed({e}, {[e EXCEPT !.state = s]}) \/ Changed({e}, {})
  BY DEF Client, Commit, Abort, Delete, StateNames
<1>5. e \in idx.entries /\ e \in EntryType
  BY <1>3, <1>4, ActiveEntry DEF Named
<1>6. [e EXCEPT !.state = s].off = e.off /\ [e EXCEPT !.state = s].span = e.span
  BY <1>5 DEF EntryType
<1>7. \A g \in idx'.entries : g \in idx.entries \/ g = [e EXCEPT !.state = s]
  BY <1>3, <1>4 DEF Changed, Image
<1>8. \A g \in idx'.entries : \E h \in idx.entries : g.off = h.off /\ g.span = h.span
  BY <1>5, <1>6, <1>7
<1>. QED
  BY <1>1, <1>2, <1>8, InPlaceReads

\* What the host may read, but for the data: the entries, and what they are clear of.
LEMMA MayRead ==
    ASSUME ReaderInv, mayMap, NEW e \in Active(index)
    PROVE  /\ e \in EntryType /\ e.off \in Nat /\ e.span \in Nat /\ e.off + e.span <= MaxBlock
           /\ Kept(file, e)
           /\ \A g \in Active(idx) : e.num = g.num \/ Clear(e, g)
           /\ \A d \in Downloading(idx) : Clear(e, d)
<1>1. Sound(index) /\ e \in index.entries
  BY DEF ReaderInv, ReaderTypeInv, Active, InState
<1>2. /\ e \in EntryType /\ e.off \in Nat /\ e.span \in Nat
      /\ e.off + e.span <= index.logical /\ index.logical \in Nat /\ index.logical <= MaxBlock
  BY <1>1, ActiveEntry
<1>3. e.off + e.span \in Nat /\ MaxBlock \in Nat
  BY <1>2, StoreAssumption
<1>4. e.off + e.span <= MaxBlock
  BY <1>2, <1>3
<1>. QED
  BY <1>2, <1>4 DEF ReaderInv, ViewInv

\* The data file's blocks change, the index stays.
LEMMA DataStays ==
    ASSUME ReaderInv, UNCHANGED <<up, idx, disk, pc, snap, job, compacting, fails, readerVars>>,
           rotten \subseteq rotten',
           mayMap => \A e \in Active(index) : Kept(file, e)'
    PROVE  ReaderInv'
<1>1. UNCHANGED <<handle, length, index, mapping, statted, mayMap, ensured, closedWith>>
  BY DEF readerVars, hostVars
<1>2. ReaderTypeInv' /\ HostInv' /\ MapInv'
  BY <1>1 DEF ReaderInv, ReaderTypeInv, HostInv, MapInv, Within
<1>3. ViewInv'
  BY <1>1 DEF ReaderInv, ViewInv, Within, Kept
<1>4. (Turning' <=> Turning) /\ \A e : Read(e)' = Read(e)
  BY DEF Turning, Finalizing, Flipped, Read, Turn
<1>5. GrownInv' /\ FollowInv'
  BY <1>1, <1>4 DEF ReaderInv, GrownInv, FollowInv, Within
<1>6. \A img : Follows(img) => \A e \in closedWith : 
          \/ e.num \in rotten'
          \/ \E g \in Active(img) : g.name = e.name /\ g.num = e.num
  BY DEF Follows
<1>7. CloseInv'
  BY <1>1, <1>6 DEF ReaderInv, CloseInv, Follows, Holding
<1>. QED
  BY <1>2, <1>3, <1>5, <1>7 DEF ReaderInv

\* A writer fills blocks that no file the host may read lies on.
LEMMA WriteAtReads ==
    ASSUME Inv, ReaderInv, NEW f \in Files, WriteAt(f), UNCHANGED readerVars
    PROVE  ReaderInv'
<1>1. PICK d \in Named(idx, f) :
          /\ d.state = "downloading" /\ written[f] < d.span
          /\ file' = [file EXCEPT ![d.off + written[f]] = <<d.num, written[f]>>]
  BY DEF WriteAt
<1>2. /\ UNCHANGED <<up, idx, disk, pc, snap, job, compacting, fails>> /\ rotten' = rotten
      /\ written[f] \in Nat /\ file \in [Blocks -> Nat \X Nat]
      /\ d \in Downloading(idx) /\ d.off \in Nat /\ d.span \in Nat
  BY <1>1, ActiveEntry DEF WriteAt, header, threads, history, Inv, TypeInv, Named, Downloading, InState
<1>3. written[f] \in 0..(d.span - 1)
  BY <1>1, <1>2
<1>4. ASSUME mayMap, NEW e \in Active(index)
      PROVE  Kept(file, e)'
  <2>1. CASE e.num \in rotten
    BY <1>2, <2>1 DEF Kept
  <2>2. CASE Holds(file, e)
    <3>1. Holds([file EXCEPT ![d.off + written[f]] = <<d.num, written[f]>>], e)
      BY <1>2, <1>3, <1>4, <2>2, MayRead, HoldsElsewhere DEF Clear
    <3>. QED
      BY <1>1, <3>1 DEF Kept, Holds
  <2>. QED
    BY <1>4, <2>1, <2>2, MayRead DEF Kept
<1>. QED
  BY <1>2, <1>4, DataStays

LEMMA RotReads ==
    ASSUME Inv, ReaderInv, Rot, UNCHANGED readerVars
    PROVE  ReaderInv'
<1>1. PICK a \in Active(idx) :
          /\ file' = [file EXCEPT ![a.off] = NoData]
          /\ rotten' = rotten \cup {a.num}
  BY DEF Rot
<1>2. /\ UNCHANGED <<up, idx, disk, pc, snap, job, compacting, fails>>
      /\ file \in [Blocks -> Nat \X Nat] /\ a.off \in Nat /\ a.span \in Nat /\ a.span >= 1
  BY <1>1, ActiveEntry DEF Rot, header, threads, Inv, TypeInv, Active, InState
<1>3. 0 \in 0..(a.span - 1) /\ a.off + 0 = a.off
  BY <1>2
<1>4. ASSUME mayMap, NEW e \in Active(index)
      PROVE  Kept(file, e)'
  <2>1. CASE e.num \in rotten \/ e.num = a.num
    BY <1>1, <2>1 DEF Kept
  <2>2. CASE Holds(file, e) /\ Clear(e, a)
    <3>1. Holds([file EXCEPT ![a.off + 0] = NoData], e)
      BY <1>2, <1>3, <1>4, <2>2, MayRead, HoldsElsewhere DEF Clear
    <3>. QED
      BY <1>1, <1>3, <3>1 DEF Kept, Holds
  <2>. QED
    BY <1>1, <1>4, <2>1, <2>2, MayRead DEF Kept
<1>. QED
  BY <1>1, <1>2, <1>4, DataStays

-----------------------------------------------------------------------------
(***************************************************************************)
(* The host, between two calls or inside EnsureMapping.                    *)
(***************************************************************************)
LEMMA FlushReads ==
    ASSUME Inv, ReaderInv, Flush
    PROVE  ReaderInv'
<1>1. /\ up /\ ~compacting /\ handle = "open" /\ pc' = [pc EXCEPT ![Host] = "called"]
      /\ UNCHANGED <<up, idx, disk, file, rotten, compacting, snap, job, fails, readerVars, handle>>
  BY DEF Flush, HostFree, FlushCall, Goto, header, data, history, readerVars, hostVars
<1>2. pc[Compactor] = "idle" /\ pc'[Compactor] = "idle"
  BY <1>1, PcGoes, OneRuns, HostIs
<1>3. ~Turning' /\ FollowInv' /\ CloseInv'
  BY <1>1, <1>2 DEF Turning, Finalizing, Flipped, FollowInv, CloseInv
<1>. QED
  BY <1>1, <1>2, <1>3, PersistStays DEF ReaderInv, ReaderTypeInv

\* The host does something between two native calls: the store stays, and the parts
\* of the invariant about the host are shown for each step.
LEMMA HostStays ==
    ASSUME ReaderInv, UNCHANGED <<allVars, handle, length, closedWith>>,
           ReaderTypeInv', HostInv', ViewInv', MapInv'
    PROVE  ReaderInv'
<1>1. GrownInv' /\ FollowInv'
  BY StoreStays
<1>2. UNCHANGED <<up, idx, disk, pc, snap, compacting, fails, rotten>>
  BY DEF allVars, header, threads, history
<1>3. CloseInv'
  BY <1>2 DEF ReaderInv, CloseInv, Follows, Holding
<1>. QED
  BY <1>1, <1>3 DEF ReaderInv

\* The index of a store that no compaction has is one to read by.
LEMMA RefreshIndexReads ==
    ASSUME Inv, ReaderInv, RefreshIndex
    PROVE  ReaderInv'
<1>1. /\ up /\ handle = "open" /\ ~compacting /\ index' = idx /\ mayMap' = TRUE /\ ensured' = FALSE
      /\ UNCHANGED <<allVars, handle, length, mapping, statted, closedWith>>
      /\ UNCHANGED <<up, idx, file, rotten, pc, compacting, fails>>
  BY DEF RefreshIndex, HostFree, allVars, header, data, threads, history
<1>2. /\ pc[Compactor] = "idle" /\ ~Turning /\ idx \in Live /\ Sound(idx) /\ idx.gen \in Nat
      /\ idx.logical \in Nat
  BY <1>1, OneRuns, NoneNewer, StoreAssumption DEF Inv, TypeInv, Sound, Image
<1>3. ReaderTypeInv' /\ HostInv' /\ MapInv'
  BY <1>1, <1>2 DEF ReaderInv, ReaderTypeInv, HostInv, MapInv
<1>4. ASSUME NEW e \in Active(idx)
      PROVE  /\ Kept(file, e)
             /\ \A g \in Active(idx) : e.num = g.num \/ Clear(e, g)
             /\ \A d \in Downloading(idx) : Clear(e, d)
  <2>1. Kept(file, e)
    BY <1>2 DEF Inv, LiveInv, DataInv
  <2>2. \A g \in idx.entries : e = g \/ Clear(e, g)
    BY <1>2 DEF Sound, Active, InState
  <2>. QED
    BY <2>1, <2>2 DEF Active, Downloading, InState
<1>5. Within(idx, length) /\ idx.gen <= idx.gen /\ idx.logical <= idx.logical
  BY <1>1, <1>2 DEF ReaderInv, GrownInv
<1>6. ViewInv'
  BY <1>1, <1>4, <1>5 DEF ViewInv, Within, Kept
<1>. QED
  BY <1>1, <1>3, <1>6, HostStays

\* A mapping of the length the file has now is all of the file.
LEMMA StatReads ==
    ASSUME Inv, ReaderInv, Stat
    PROVE  ReaderInv'
<1>1. /\ up /\ handle = "open" /\ statted = None /\ mayMap /\ length \in Nat /\ length > 0
      /\ UNCHANGED <<allVars, handle, length, index, mayMap, closedWith>>
      /\ UNCHANGED <<up, idx, file, rotten, pc, compacting, fails>>
      /\ mapping.cap \in Nat /\ mapping.length <= mapping.cap /\ mapping.cap <= length
  BY DEF Stat, HostFree, allVars, header, data, threads, history, ReaderInv, ReaderTypeInv, MapInv
<1>2. ViewInv'
  BY <1>1 DEF ReaderInv, ViewInv, Within, Kept
<1>3. Within(index, length)
  BY <1>1 DEF ReaderInv, ViewInv
<1>4. CASE mapping # None /\ mapping.length = length
  <2>1. ensured' = TRUE /\ UNCHANGED <<mapping, statted>>
    BY <1>4 DEF Stat
  <2>2. mapping.cap = length
    BY <1>1, <1>4
  <2>3. ReaderTypeInv' /\ HostInv' /\ MapInv'
    BY <1>1, <1>3, <1>4, <2>1, <2>2 DEF ReaderInv, ReaderTypeInv, HostInv, MapInv, Within
  <2>. QED
    BY <1>1, <1>2, <2>3, HostStays
<1>5. CASE ~(mapping # None /\ mapping.length = length)
  <2>1. statted' = [cap |-> 0, length |-> length] /\ mapping' = None /\ ensured' = FALSE
    BY <1>5 DEF Stat
  <2>2. statted' \in [cap : {0}, length : Nat] /\ statted'.length = length /\ 0 <= length
    BY <1>1, <2>1
  <2>3. ReaderTypeInv' /\ HostInv'
    BY <1>1, <2>1, <2>2, NoneIs DEF ReaderInv, ReaderTypeInv, HostInv
  <2>4. MapInv'
    BY <1>1, <2>1, <2>2, NoneIs DEF MapInv
  <2>. QED
    BY <1>1, <1>2, <2>3, <2>4, HostStays
<1>. QED
  BY <1>4, <1>5

LEMMA MapReads ==
    ASSUME Inv, ReaderInv, Map
    PROVE  ReaderInv'
<1>1. /\ statted # None /\ statted' = None /\ ensured' = TRUE
      /\ mapping' = [cap |-> length, length |-> statted.length]
      /\ UNCHANGED <<allVars, handle, length, index, mayMap, closedWith>>
      /\ UNCHANGED <<up, idx, file, rotten, pc, compacting, fails>>
      /\ mayMap /\ length \in Nat /\ statted \in [cap : {0}, length : Nat]
      /\ statted.length <= length
  BY DEF Map, allVars, header, data, threads, history, ReaderInv, ReaderTypeInv, HostInv, MapInv
<1>2. length # 0
  <2>1. statted = [cap |-> 0, length |-> statted.length]
    BY <1>1
  <2>2. statted.length \in Nat /\ statted.length # 0
    BY <1>1, <2>1 DEF None
  <2>. QED
    BY <1>1, <2>2
<1>3. mapping' # None /\ mapping'.cap = length /\ mapping'.length = statted.length
  BY <1>1, <1>2 DEF None
<1>4. ReaderTypeInv' /\ HostInv'
  BY <1>1, <1>3 DEF ReaderInv, ReaderTypeInv, HostInv, None
<1>5. ViewInv'
  BY <1>1 DEF ReaderInv, ViewInv, Within, Kept
<1>6. MapInv'
  BY <1>1, <1>3 DEF ReaderInv, ViewInv, MapInv, Within, None
<1>. QED
  BY <1>1, <1>4, <1>5, <1>6, HostStays

LEMMA ReleaseMappingReads ==
    ASSUME Inv, ReaderInv, ReleaseMapping
    PROVE  ReaderInv'
<1>1. /\ mapping' = None /\ ensured' = FALSE
      /\ UNCHANGED <<allVars, handle, length, index, statted, mayMap, closedWith>>
      /\ UNCHANGED <<up, idx, file, rotten, pc, compacting, fails>>
      /\ length \in Nat
  BY DEF ReleaseMapping, allVars, header, data, threads, history, ReaderInv, ReaderTypeInv
<1>2. ReaderTypeInv' /\ HostInv'
  BY <1>1, NoneIs DEF ReaderInv, ReaderTypeInv, HostInv
<1>3. MapInv'
  BY <1>1, NoneIs DEF ReaderInv, MapInv
<1>4. ViewInv'
  BY <1>1 DEF ReaderInv, ViewInv, Within, Kept
<1>. QED
  BY <1>1, <1>2, <1>3, <1>4, HostStays

\* A compaction begins when the host has let go of the data file.
LEMMA CompactReads ==
    ASSUME Inv, ReaderInv, Compact
    PROVE  ReaderInv'
<1>1. /\ up /\ handle = "open" /\ pc[Host] = "idle" /\ statted = None /\ mapping = None
      /\ ~compacting /\ compacting' = TRUE /\ job' = NoJob
      /\ pc' = [pc EXCEPT ![Compactor] = "called"]
      /\ mayMap' = FALSE /\ ensured' = FALSE
      /\ UNCHANGED <<up, idx, disk, fails, handle, length, index, mapping, statted, closedWith>>
  BY DEF Compact, HostFree, CompactCall, Goto, header
<1>2. pc'[Compactor] = "called" /\ pc'[Host] = "idle" /\ pc[Compactor] = "idle" /\ ~Turning'
  <2>1. \A u \in Threads : pc'[u] = IF u = Compactor THEN "called" ELSE pc[u]
    <3>1. pc' = [pc EXCEPT ![Compactor] = "called"]
      BY <1>1
    <3>. QED
      BY <3>1, PcGoes, HostIs
  <2>. QED
    BY <1>1, <2>1, OneRuns, HostIs DEF Turning, Finalizing, Flipped
<1>3. ReaderTypeInv' /\ HostInv'
  BY <1>1, <1>2 DEF ReaderInv, ReaderTypeInv, HostInv
<1>4. ViewInv' /\ MapInv'
  BY <1>1, UnmappedStays DEF ReaderInv, ReaderTypeInv
<1>5. GrownInv' /\ FollowInv' /\ CloseInv'
  BY <1>1, <1>2 DEF ReaderInv, GrownInv, FollowInv, CloseInv, Within
<1>. QED
  BY <1>3, <1>4, <1>5 DEF ReaderInv

-----------------------------------------------------------------------------
(***************************************************************************)
(* A session ends and the next one begins.                                 *)
(***************************************************************************)
\* The store is closed with the index the flush will take, or that of a compaction.
LEMMA DisposeReads ==
    ASSUME Inv, ReaderInv, Dispose
    PROVE  ReaderInv'
<1>1. /\ up /\ handle = "open" /\ pc[Host] = "idle" /\ statted = None
      /\ handle' = "closing" /\ index' = Empty /\ mapping' = None /\ mayMap' = FALSE
      /\ ensured' = FALSE /\ closedWith' = Active(idx)
      /\ UNCHANGED <<length, statted>>
  BY DEF Dispose, Disposed, HostFree
<1>2. /\ UNCHANGED <<up, idx, disk, compacting, job, fails, snap>>
      /\ \/ ~compacting /\ pc' = [pc EXCEPT ![Host] = "called"]
         \/ compacting /\ pc' = pc
  BY DEF Dispose, FlushCall, Goto, allVars, header, threads
<1>3. /\ pc'[Compactor] = pc[Compactor] /\ ~Holding(Host)'
      /\ \/ compacting /\ pc'[Host] = "idle"
         \/ ~compacting /\ pc'[Host] = "called"
  BY <1>1, <1>2, PcGoes, HostIs DEF Holding
<1>4. ReaderTypeInv' /\ HostInv'
  BY <1>1, <1>2, <1>3, EmptySound DEF ReaderInv, ReaderTypeInv, HostInv, None
<1>5. ViewInv' /\ MapInv'
  BY <1>1, UnmappedStays DEF ReaderInv, ReaderTypeInv
<1>6. (Turning' <=> Turning) /\ \A e : Read(e)' = Read(e)
  BY <1>2, <1>3 DEF Turning, Finalizing, Flipped, Read, Turn
<1>7. GrownInv' /\ FollowInv'
  BY <1>1, <1>2, <1>3, <1>6 DEF ReaderInv, GrownInv, FollowInv, Within
<1>8. CloseInv'
  BY <1>1, <1>2, <1>3 DEF CloseInv, Follows
<1>. QED
  BY <1>4, <1>5, <1>7, <1>8 DEF ReaderInv

LEMMA ClosedReads ==
    ASSUME Inv, ReaderInv, Closed
    PROVE  ReaderInv'
<1>1. /\ handle = "closing" /\ handle' = "closed"
      /\ UNCHANGED <<allVars, length, index, mapping, statted, mayMap, ensured, closedWith>>
      /\ UNCHANGED <<up, idx, disk, pc, snap, compacting, fails, rotten>>
  BY DEF Closed, allVars, header, threads, history
<1>2. ~mayMap
  BY <1>1 DEF ReaderInv, HostInv
<1>3. ReaderTypeInv' /\ HostInv'
  BY <1>1, <1>2 DEF ReaderInv, ReaderTypeInv, HostInv
<1>4. ViewInv' /\ MapInv'
  BY <1>1, <1>2 DEF ReaderInv, ViewInv, MapInv, Within
<1>5. GrownInv' /\ FollowInv'
  BY <1>1, StoreStays
<1>6. CloseInv'
  BY <1>1 DEF ReaderInv, CloseInv, Follows, Holding
<1>. QED
  BY <1>3, <1>4, <1>5, <1>6 DEF ReaderInv

\* The process ends with every thread over; the disk is what the close left.
LEMMA ExitKeeps ==
    ASSUME Inv, ReaderInv, Exit
    PROVE  Inv' /\ ReaderInv'
<1>1. /\ up /\ up' = FALSE /\ handle = "closed" /\ \A t \in Threads : pc[t] = "idle"
      /\ idx' = Empty /\ written' = [f \in Files |-> 0]
      /\ UNCHANGED <<disk, pending, compacting, file, synced, pc, snap, lock, job>>
      /\ UNCHANGED <<rotten, deleted, downloads, fails>>
      /\ UNCHANGED <<handle, length, index, mapping, statted, mayMap, ensured, closedWith>>
  BY DEF Exit, Stop, data, threads, history, readerVars, hostVars
<1>2. /\ ~compacting /\ lock = Nobody /\ pc[Compactor] = "idle" /\ pc[Host] = "idle"
      /\ \A t \in Threads : ~Holding(t) /\ ~Holding(t)'
      /\ \A t \in Flushers : t \in Threads
  BY <1>1, OneRuns, HostIs DEF Holding, Inv, TypeInv, ControlInv, LockInv, Threads
<1>3. /\ Sound(Empty) /\ Active(Empty) = {} /\ Downloading(Empty) = {}
  BY EmptySound DEF Empty, Downloading, InState
<1>4. TypeInv'
  <2>1. written' \in [Files -> Nat]
    BY <1>1
  <2>. QED
    BY <1>1, <1>3, <2>1 DEF Inv, TypeInv
<1>5. ControlInv'
  <2>1. DownInv' /\ PendingInv'
    BY <1>1, <1>2 DEF DownInv, PendingInv
  <2>2. LockInv'
    BY <1>1 DEF Inv, ControlInv, LockInv
  <2>3. CompactInv'
    BY <1>1, <1>2 DEF CompactInv, Flipped
  <2>4. GenInv'
    BY <1>1, <1>2, HostIs DEF GenInv, Flipped, Finalizing
  <2>. QED
    BY <2>1, <2>2, <2>3, <2>4 DEF ControlInv
<1>6. Live' \subseteq Live /\ Live' \cap OnDisk' \subseteq OnDisk /\ Seen' \subseteq Live
  <2>1. \A a \in Images' : a = disk \/ a \in pending
    BY <1>1, <1>2, ImagesBecome
  <2>2. \A a \in Images' : a \in Images /\ a \in OnDisk
    BY <2>1, ImagesAre DEF OnDisk
  <2>. QED
    BY <1>1, <2>2 DEF Live, Seen
<1>7. OrderInv' /\ ApartInv' /\ IndexInv'
  BY <1>1, <1>3, <1>6, OrderFrame, ApartFrame, IndexFrame DEF Inv, LiveInv
<1>8. DataInv'
  BY <1>1, <1>6 DEF Inv, LiveInv, DataInv, Kept
<1>9. WriterInv' /\ RoundInv'
  BY <1>1, <1>2, <1>3 DEF WriterInv, RoundInv, PlannedInv, MoveInv
<1>10. Inv'
  BY <1>4, <1>5, <1>7, <1>8, <1>9 DEF Inv, LiveInv
<1>11. ReaderTypeInv' /\ HostInv' /\ MapInv'
  BY <1>1, <1>2 DEF ReaderInv, ReaderTypeInv, HostInv, MapInv, Within
<1>12. ViewInv' /\ GrownInv' /\ FollowInv'
  BY <1>1, <1>2 DEF ReaderInv, HostInv, ViewInv, GrownInv, FollowInv, Turning, Flipped, Finalizing
<1>13. CloseInv'
  BY <1>1, <1>2 DEF ReaderInv, CloseInv, Follows
<1>. QED
  BY <1>10, <1>11, <1>12, <1>13 DEF ReaderInv

\* The data file is filled up to what the index that is found needs.
LEMMA ReopenReads ==
    ASSUME Inv, ReaderInv, NEW img \in {disk} \cup pending, Reopen(img)
    PROVE  ReaderInv'
<1>1. /\ ~up /\ up' /\ handle' = "open" /\ closedWith' = {} /\ GrowTo(img.logical)
      /\ idx' = [img EXCEPT !.entries = @ \ InState(img, "downloading")]
      /\ UNCHANGED <<compacting, pc, snap, job, fails, index, mapping, statted, mayMap, ensured>>
  BY DEF Reopen, Open, Recover, threads
<1>2. /\ \A t \in Threads : pc[t] = "idle"
      /\ ~compacting /\ ~mayMap /\ mapping = None /\ statted = None /\ ~ensured
      /\ pc[Compactor] = "idle" /\ ~Turning'
  BY <1>1, HostIs DEF Inv, ControlInv, DownInv, ReaderInv, HostInv, Turning, Flipped, Finalizing
<1>3. Sound(img) /\ img \in Image /\ img.logical \in Nat /\ length \in Nat
  BY StoreAssumption DEF Inv, TypeInv, Sound, Image, ReaderInv, ReaderTypeInv
<1>4. length' \in Nat /\ img.logical <= length'
  BY <1>1, <1>3 DEF GrowTo
<1>5. Within(img, length')
  BY <1>3, <1>4, WithinLogical
<1>6. Within(idx', length')
  BY <1>1, <1>3, <1>5 DEF Within, Image
<1>7. ReaderTypeInv' /\ HostInv'
  BY <1>1, <1>2, <1>4 DEF ReaderInv, ReaderTypeInv, HostInv
<1>8. ViewInv' /\ MapInv'
  BY <1>1, <1>2, <1>4, UnmappedStays DEF ReaderInv
<1>9. GrownInv' /\ FollowInv' /\ CloseInv'
  BY <1>1, <1>2, <1>6 DEF GrownInv, FollowInv, CloseInv, Within
<1>. QED
  BY <1>7, <1>8, <1>9 DEF ReaderInv

-----------------------------------------------------------------------------
(***************************************************************************)
(* The theorems.                                                           *)
(***************************************************************************)
LEMMA ReaderInitKeeps == ReaderInit => Inv /\ ReaderInv
<1>. SUFFICES ASSUME ReaderInit
              PROVE  Inv /\ ReaderInv
  OBVIOUS
<1>1. Inv
  BY InitKeeps DEF ReaderInit
<1>2. /\ up /\ handle = "open" /\ length = 0 /\ index = Empty /\ mapping = None /\ statted = None
      /\ mayMap = FALSE /\ ensured = FALSE /\ closedWith = {}
      /\ idx = Empty /\ compacting = FALSE /\ fails = 0 /\ job = NoJob
      /\ \A t \in Threads : pc[t] = "idle"
  BY DEF ReaderInit, StoreInit, DurableInit
<1>3. ReaderTypeInv
  BY <1>2, EmptySound, NoneIs DEF ReaderTypeInv
<1>4. HostInv /\ MapInv
  BY <1>2, NoneIs DEF HostInv, MapInv
<1>5. ViewInv /\ GrownInv /\ FollowInv /\ CloseInv
  BY <1>2, EmptySound, HostIs
     DEF ViewInv, GrownInv, FollowInv, CloseInv, Within, Turning, Finalizing, Flipped
<1>. QED
  BY <1>1, <1>3, <1>4, <1>5 DEF ReaderInv

\* Every step of a session but its end is one of the store, or leaves the store.
LEMMA ReaderSteady ==
    ASSUME ReaderNext
    PROVE  Exit \/ [SteadyNext]_allVars
<1>1. ASSUME NEW f \in Files, Client(f)
      PROVE  SteadyNext
  BY <1>1 DEF Client, SteadyNext, StoreNext
<1>2. ASSUME NEW f \in Files, NEW size \in Sizes, ReaderAlloc(f, size) \/ ReaderAllocFails(f, size)
      PROVE  SteadyNext
  BY <1>2 DEF ReaderAlloc, ReaderAllocFails, SteadyNext, StoreNext
<1>3. CASE Flush
  BY <1>3, HostIs DEF Flush, SteadyNext, StoreNext
<1>4. CASE Native
  BY <1>4 DEF Native, SteadyNext, StoreNext
<1>5. CASE ReaderCopy \/ ReaderTruncate \/ Compact \/ Spoil
  BY <1>5 DEF ReaderCopy, ReaderTruncate, Compact, Spoil, SteadyNext, StoreNext
<1>6. CASE RefreshIndex \/ Stat \/ Map \/ ReleaseMapping \/ Closed
  BY <1>6 DEF RefreshIndex, Stat, Map, ReleaseMapping, Closed
<1>7. CASE Dispose
  BY <1>7, HostIs DEF Dispose, SteadyNext, StoreNext
<1>8. ASSUME NEW img \in {disk} \cup pending, Reopen(img)
      PROVE  SteadyNext
  BY <1>8 DEF Reopen, SteadyNext, StoreNext
<1>. QED
  BY <1>1, <1>2, <1>3, <1>4, <1>5, <1>6, <1>7, <1>8 DEF ReaderNext

LEMMA NativeReads ==
    ASSUME Inv, ReaderInv, Native
    PROVE  ReaderInv'
<1>1. ASSUME NEW t \in Threads,
             \/ Snapshot(t) \/ SyncData(t) \/ PersistBegin(t)
             \/ PersistEnd(t) \/ PersistRefused(t) \/ IoError(t)
      PROVE  ReaderInv'
  BY <1>1, SnapshotReads, SyncDataReads, PersistBeginReads, PersistEndReads, PersistRefusedReads,
     IoErrorReads DEF Native
<1>2. ASSUME NEW f \in Files, PlanFile(f)
      PROVE  ReaderInv'
  BY <1>2, PlanFileReads DEF Native
<1>3. CASE Scan \/ StartMove \/ Finalize \/ Install \/ CompactOver
  BY <1>3, ScanReads, StartMoveReads, FinalizeReads, InstallReads, CompactOverReads DEF Native
<1>. QED
  BY <1>1, <1>2, <1>3 DEF Native

LEMMA ReaderNextKeeps ==
    ASSUME Inv, ReaderInv, [ReaderNext]_everything
    PROVE  Inv' /\ ReaderInv'
<1>1. CASE UNCHANGED everything
  <2>1. UNCHANGED <<allVars, handle, length, index, mapping, statted, mayMap, ensured, closedWith>>
    BY <1>1 DEF everything, readerVars, hostVars
  <2>2. UNCHANGED <<up, idx, file, rotten, compacting, pc, fails>>
    BY <2>1 DEF allVars, header, data, threads, history
  <2>3. ReaderTypeInv' /\ HostInv' /\ ViewInv' /\ MapInv'
    BY <2>1, <2>2 DEF ReaderInv, ReaderTypeInv, HostInv, ViewInv, MapInv, Within, Kept
  <2>. QED
    BY <2>1, <2>3, StutterKeeps, HostStays
<1>2. CASE Exit
  BY <1>2, ExitKeeps
<1>3. CASE ReaderNext /\ ~Exit
  <2>1. Inv'
    BY <1>3, ReaderSteady, NextKeeps
  <2>2. ASSUME NEW f \in Files, Client(f)
        PROVE  ReaderInv'
    BY <2>2, WriteAtReads, ChangedReads DEF Client
  <2>3. ASSUME NEW f \in Files, NEW size \in Sizes, ReaderAlloc(f, size) \/ ReaderAllocFails(f, size)
        PROVE  ReaderInv'
    BY <2>3, AllocReads, AllocFailsReads
  <2>4. CASE Flush \/ Native \/ ReaderCopy \/ ReaderTruncate \/ Spoil
    BY <2>1, <2>4, FlushReads, NativeReads, CopyReads, TruncateReads, RotReads DEF Spoil
  <2>5. CASE RefreshIndex \/ Stat \/ Map \/ ReleaseMapping \/ Compact
    BY <2>1, <2>5, RefreshIndexReads, StatReads, MapReads, ReleaseMappingReads, CompactReads
  <2>6. CASE Dispose \/ Closed
    BY <2>1, <2>6, DisposeReads, ClosedReads
  <2>7. ASSUME NEW img \in {disk} \cup pending, Reopen(img)
        PROVE  ReaderInv'
    BY <2>7, ReopenReads
  <2>8. ReaderInv'
    BY <1>3, <2>2, <2>3, <2>4, <2>5, <2>6, <2>7 DEF ReaderNext
  <2>. QED
    BY <2>1, <2>8
<1>. QED
  BY <1>1, <1>2, <1>3

\* In every session, with the invariant of the store, that of the reader holds.
THEOREM ReaderInvHolds == ReaderSpec => [](Inv /\ ReaderInv)
<1>1. ReaderInit => Inv /\ ReaderInv
  BY ReaderInitKeeps
<1>2. Inv /\ ReaderInv /\ [ReaderNext]_everything => Inv' /\ ReaderInv'
  BY ReaderNextKeeps
<1>. QED
  BY <1>1, <1>2, PTL DEF ReaderSpec

\* For every store and every host that keeps to the protocol: what the reader hands
\* out of its mapping is the data of the file it was asked for and lies inside the
\* data file, whatever the downloads, the compactions, the disk and the other
\* sessions do meanwhile.
THEOREM HostReadsRight == ReaderSpec => []ReaderSees
<1>1. Inv /\ ReaderInv => ReaderSees
  <2>. SUFFICES ASSUME ReaderInv, NEW e \in index.entries, TryReadRaw(e)
                PROVE  (e.num \in rotten \/ Holds(file, e)) /\ e.off + e.span <= length
    BY DEF ReaderSees
  <2>1. /\ e \in Active(index) /\ mayMap /\ e.off + e.span <= mapping.cap
        /\ mapping.cap \in Nat /\ length \in Nat /\ mapping.cap <= length
    BY DEF TryReadRaw, Active, InState, ReaderInv, ReaderTypeInv, HostInv, MapInv
  <2>2. Kept(file, e) /\ e.off \in Nat /\ e.span \in Nat
    BY <2>1, MayRead
  <2>3. e.off + e.span \in Nat
    BY <2>2
  <2>4. e.off + e.span <= length
    BY <2>1, <2>3
  <2>. QED
    BY <2>2, <2>4 DEF Kept
<1>. QED
  BY <1>1, ReaderInvHolds, PTL

\* For every store and every such host: after a refresh and a mapping, and until the
\* index changes, every Active file can be read, however the data file grew, was cut
\* or was opened again between the calls.
THEOREM HostFindsAll == ReaderSpec => []ReaderFindsAll
<1>1. Inv /\ ReaderInv => ReaderFindsAll
  <2>. SUFFICES ASSUME ReaderInv, ensured, index.gen = idx.gen, NEW e \in Active(idx)
                PROVE  TryReadRaw(e)
    BY DEF ReaderFindsAll
  <2>1. mapping # None /\ index = idx /\ Within(index, mapping.cap)
    BY DEF ReaderInv, HostInv, ViewInv, MapInv
  <2>. QED
    BY <2>1 DEF TryReadRaw, Within, Active, InState
<1>. QED
  BY <1>1, ReaderInvHolds, PTL

\* For every store and every such host: a session that ends without an I/O error has
\* on the disk whatever was Active when it was closed, flushed by the close or by the
\* compaction that refused its flush.
THEOREM CloseLosesNothing == ReaderSpec => []CloseKeeps
<1>1. Inv /\ ReaderInv => CloseKeeps
  <2>. SUFFICES ASSUME Inv, ReaderInv, handle = "closed", fails = 0,
                       \A t \in Threads : pc[t] = "idle", NEW e \in closedWith
                PROVE  \/ e.num \in rotten
                       \/ \E g \in Active(disk) : g.name = e.name /\ g.num = e.num
    BY DEF CloseKeeps
  <2>1. ~compacting /\ pc[Host] = "idle"
    BY OneRuns, HostIs
  <2>. QED
    BY <2>1 DEF ReaderInv, CloseInv, Follows
<1>. QED
  BY <1>1, ReaderInvHolds, PTL
=============================================================================
