----------------------------- MODULE VfsPersist -----------------------------
(***************************************************************************)
(* How the index reaches the disk and comes back (vfs/mod.rs, compact.rs): *)
(* flush from any thread, the two kinds of persist a compaction makes, the *)
(* persist_lock and the watermark between them, I/O errors and crashes at  *)
(* every point, and the recovery of open_paths.                            *)
(*                                                                         *)
(* The in-memory index is an image: its generation, a version number that  *)
(* identifies its Active and Deleted files (each change makes a new one,   *)
(* also after a crash, when generations are used again), and the length    *)
(* build_region would give it.  A Downloading entry counts in the length   *)
(* only, since open_paths drops it, and so does a Bad mark.                *)
(***************************************************************************)
EXTENDS VfsHeader

CONSTANTS
    Flushers,     (* threads that call flush (or close, which flushes)     *)
    Compactor,    (* the vfs-compact thread                                *)
    Lens,         (* the lengths a region may have                         *)
    EmptyLen,     (* the shortest: that of a region without entries        *)
    Tears,        (* what a write cut short may leave: a subset of         *)
                  (* {"bad", "stuck", "sb"}, besides nothing and all of it *)
    MaxVer,       (* bound: changes of the index                           *)
    Faults        (* bound: the pairs <<I/O errors, crashes>> there may be *)

Persisters == Flushers \cup {Compactor}
Nobody     == "nobody"

ASSUME PersistAssumption ==
    /\ Compactor \notin Flushers
    /\ Nobody \notin Persisters
    /\ Lens \subseteq Nat /\ EmptyLen \in Lens /\ \A n \in Lens : EmptyLen <= n
    /\ MaxVer \in Nat /\ Faults \subseteq Nat \X Nat

VARIABLES
    sb, slots,         (* header.vfs                                       *)
    up,                (* a process has the store open                     *)
    mem,               (* the in-memory index                              *)
    compacting,        (* Inner.compacting                                 *)
    finalizing,        (* the compactor persists its new layout, not the   *)
                       (* flush it starts with                             *)
    wm,                (* persisted_gen                                    *)
    active, inactive,  (* RegionLayout; 0 for no inactive slot             *)
    pc, snap,          (* each persister's next step and its image         *)
    holder, dest,      (* who holds persist_lock and the slot it writes    *)
    ver,               (* the newest version there ever was                *)
    acked,             (* history: the image last known to be durable      *)
    maybe,             (* history: images whose persist has begun since    *)
    fails, crashes

fileVars   == <<sb, slots>>
layoutVars == <<wm, active, inactive>>
stepVars   == <<pc, snap, holder, dest>>
ghostVars  == <<acked, maybe>>
vars == <<fileVars, up, mem, compacting, finalizing, layoutVars, stepVars, ver,
          ghostVars, fails, crashes>>

TypeOK ==
    /\ sb \in Nat /\ slots \in Seq(Slot)
    /\ up \in BOOLEAN /\ compacting \in BOOLEAN /\ finalizing \in BOOLEAN
    /\ mem \in Image /\ wm \in Nat /\ active \in Nat /\ inactive \in Nat
    /\ pc \in [Persisters -> {"idle", "called", "snapped", "region", "sb",
                           "install", "moving"}]
    /\ snap \in [Persisters -> Image]
    /\ holder \in Persisters \cup {Nobody} /\ dest \in Nat
    /\ ver \in Nat /\ acked \in Image /\ maybe \subseteq Image
    /\ fails \in Nat /\ crashes \in Nat

-----------------------------------------------------------------------------
(***************************************************************************)
(* A fresh store: generation 1, an empty region right after the SuperBlock.*)
(***************************************************************************)
Fresh == [gen |-> 1, ver |-> 0, len |-> EmptyLen]

Init ==
    /\ sb = 1 /\ slots = <<Stored(Fresh, "ok")>>
    /\ up = TRUE /\ mem = Fresh /\ ver = 0
    /\ compacting = FALSE /\ finalizing = FALSE
    /\ wm = 1 /\ active = 1 /\ inactive = 0
    /\ pc = [t \in Persisters |-> "idle"] /\ snap = [t \in Persisters |-> Fresh]
    /\ holder = Nobody /\ dest = 0
    /\ acked = Fresh /\ maybe = {}
    /\ fails = 0 /\ crashes = 0

\* alloc, commit, abort or delete: the index changes and its generation with it.  (The
\* rollback of alloc leaves the generation, but takes out what open drops anyway.)
Mutate ==
    /\ up /\ ~compacting /\ ver < MaxVer
    /\ ver' = ver + 1
    /\ \E n \in Lens : mem' = [gen |-> mem.gen + 1, ver |-> ver', len |-> n]
    /\ UNCHANGED <<fileVars, up, compacting, finalizing, layoutVars, stepVars,
                   ghostVars, fails, crashes>>

-----------------------------------------------------------------------------
(***************************************************************************)
(* flush: the check for a running compaction and the snapshot are two      *)
(* critical sections of the inner lock, with a gap between them.           *)
(***************************************************************************)
Goto(t, step) == pc' = [pc EXCEPT ![t] = step]

FlushCall(t) ==
    /\ up /\ pc[t] = "idle" /\ ~compacting
    /\ Goto(t, "called")
    /\ UNCHANGED <<fileVars, up, mem, compacting, finalizing, layoutVars, snap, holder,
                   dest, ver, ghostVars, fails, crashes>>

\* flush_image copies the index, then fsyncs files.vfs outside the lock.
Snapshot(t) ==
    /\ up /\ pc[t] = "called"
    /\ snap' = [snap EXCEPT ![t] = mem]
    /\ Goto(t, "snapped")
    /\ UNCHANGED <<fileVars, up, mem, compacting, finalizing, layoutVars, holder, dest,
                   ver, ghostVars, fails, crashes>>

\* The persister returns: a compaction that fails gives up and unlocks the
\* index, as run does; a flush just returns.
Return(t) ==
    /\ Goto(t, "idle")
    /\ IF t = Compactor THEN compacting' = FALSE /\ finalizing' = FALSE
                        ELSE UNCHANGED <<compacting, finalizing>>

\* persist_image refuses an image older than the watermark (GenChanged).
Refuse(t) ==
    /\ up /\ pc[t] = "snapped" /\ holder = Nobody
    /\ snap[t].gen < wm
    /\ Return(t)
    /\ UNCHANGED <<fileVars, up, mem, layoutVars, snap, holder, dest, ver, ghostVars,
                   fails, crashes>>

\* Mutant: no watermark.
WriteRegionAny(t) ==
    /\ up /\ pc[t] = "snapped" /\ holder = Nobody
    /\ holder' = t
    /\ dest' = Dest(slots, inactive, snap[t])
    /\ maybe' = maybe \cup {snap[t]}
    /\ Goto(t, "region")
    /\ UNCHANGED <<fileVars, up, mem, compacting, finalizing, layoutVars, snap, ver,
                   acked, fails, crashes>>

\* ... otherwise it picks the slot and writes the region, not yet synced.
WriteRegion(t) ==
    /\ up /\ pc[t] = "snapped" /\ holder = Nobody
    /\ snap[t].gen >= wm
    /\ holder' = t
    /\ dest' = Dest(slots, inactive, snap[t])
    /\ maybe' = maybe \cup {snap[t]}
    /\ Goto(t, "region")
    /\ UNCHANGED <<fileVars, up, mem, compacting, finalizing, layoutVars, snap, ver,
                   acked, fails, crashes>>

\* The region is synced and the SuperBlock patched, not yet synced.
WriteSb(t) ==
    /\ up /\ pc[t] = "region"
    /\ slots' = Put(slots, dest, snap[t], "ok")
    /\ Goto(t, "sb")
    /\ UNCHANGED <<sb, up, mem, compacting, finalizing, layoutVars, snap, holder, dest,
                   ver, ghostVars, fails, crashes>>

\* Mutant: the slots do not change roles.
FlipNoSwap(t) ==
    /\ up /\ pc[t] = "sb"
    /\ sb' = snap[t].gen
    /\ active' = dest /\ wm' = snap[t].gen /\ UNCHANGED inactive
    /\ holder' = Nobody
    /\ acked' = snap[t] /\ maybe' = {}
    /\ Goto(t, IF t # Compactor THEN "idle"
               ELSE IF finalizing THEN "install" ELSE "moving")
    /\ UNCHANGED <<slots, up, mem, compacting, finalizing, snap, dest, ver, fails, crashes>>

\* The SuperBlock is synced: the slots change roles and the watermark advances.
Flip(t) ==
    /\ up /\ pc[t] = "sb"
    /\ sb' = snap[t].gen
    /\ inactive' = active /\ active' = dest /\ wm' = snap[t].gen
    /\ holder' = Nobody
    /\ acked' = snap[t] /\ maybe' = {}
    /\ Goto(t, IF t # Compactor THEN "idle"
               ELSE IF finalizing THEN "install" ELSE "moving")
    /\ UNCHANGED <<slots, up, mem, compacting, finalizing, snap, dest, ver, fails, crashes>>

-----------------------------------------------------------------------------
(***************************************************************************)
(* The compaction thread.  It persists the index as it is, then once per   *)
(* round the index with the new offsets, under the next generation; the    *)
(* index cannot change meanwhile, every writer being refused.              *)
(***************************************************************************)
CompactStart ==
    /\ up /\ pc[Compactor] = "idle" /\ ~compacting
    /\ compacting' = TRUE
    /\ Goto(Compactor, "called")
    /\ UNCHANGED <<fileVars, up, mem, finalizing, layoutVars, snap, holder, dest, ver,
                   ghostVars, fails, crashes>>

\* Scan and Move are over: the image of the new layout is built.
CompactRound ==
    /\ up /\ pc[Compactor] = "moving" /\ ver < MaxVer
    /\ finalizing' = TRUE
    /\ ver' = ver + 1
    /\ \E n \in Lens :
           snap' = [snap EXCEPT ![Compactor] = [gen |-> mem.gen + 1, ver |-> ver', len |-> n]]
    /\ Goto(Compactor, "snapped")
    /\ UNCHANGED <<fileVars, up, mem, compacting, layoutVars, holder, dest, ghostVars,
                   fails, crashes>>

\* Mutant: the new index keeps the generation of the old one.
InstallOldGen ==
    /\ up /\ pc[Compactor] = "install"
    /\ mem' = [snap[Compactor] EXCEPT !.gen = mem.gen]
    /\ Goto(Compactor, "moving")
    /\ UNCHANGED <<fileVars, up, compacting, finalizing, layoutVars, snap, holder, dest,
                   ver, ghostVars, fails, crashes>>

\* The new layout is durable: the index in memory is replaced.
Install ==
    /\ up /\ pc[Compactor] = "install"
    /\ mem' = snap[Compactor]
    /\ Goto(Compactor, "moving")
    /\ UNCHANGED <<fileVars, up, compacting, finalizing, layoutVars, snap, holder, dest,
                   ver, ghostVars, fails, crashes>>

\* The rounds are over, or Move met an I/O error.
CompactEnd ==
    /\ up /\ pc[Compactor] = "moving"
    /\ Return(Compactor)
    /\ UNCHANGED <<fileVars, up, mem, layoutVars, snap, holder, dest, ver, ghostVars,
                   fails, crashes>>

-----------------------------------------------------------------------------
(***************************************************************************)
(* An I/O error in a persist: what was being written may or may not be in  *)
(* the file, and layout and watermark stay as they were.                   *)
(***************************************************************************)
CutShort(t) ==
    \/ /\ pc[t] = "snapped" /\ UNCHANGED fileVars
    \/ /\ pc[t] = "region" /\ UNCHANGED sb
       /\ slots' \in AfterRegionWrite(slots, dest, snap[t], Tears)
    \/ /\ pc[t] = "sb" /\ UNCHANGED slots
       /\ sb' \in AfterSbWrite(sb, snap[t].gen, Tears)

IoError(t) ==
    /\ up
    /\ fails' = fails + 1 /\ <<fails', crashes>> \in Faults
    /\ CutShort(t)
    /\ Return(t)
    /\ holder' = IF holder = t THEN Nobody ELSE holder
    /\ UNCHANGED <<up, mem, layoutVars, snap, dest, ver, ghostVars, crashes>>

\* The process or the machine stops at any point.
Crash ==
    /\ up
    /\ crashes' = crashes + 1 /\ <<fails, crashes'>> \in Faults
    /\ up' = FALSE
    /\ IF holder = Nobody THEN UNCHANGED fileVars ELSE CutShort(holder)
    /\ UNCHANGED <<mem, compacting, finalizing, layoutVars, stepVars, ver, ghostVars, fails>>

\* open_paths.  The image it loads is what the new session builds on; dropping
\* the Downloading entries may shorten the next region.
Open ==
    /\ ~up
    /\ \E b \in DOMAIN slots :
           /\ IsBest(sb, slots, b)
           /\ active' = b
           /\ \E s \in 0..Len(slots) : IsSpare(slots, b, s) /\ inactive' = s
           /\ \E n \in {m \in Lens : m <= slots[b].len} :
                  mem' = [ImageOf(slots[b]) EXCEPT !.len = n]
           /\ wm' = slots[b].gen
           /\ acked' = ImageOf(slots[b]) /\ maybe' = {}
    /\ up' = TRUE /\ compacting' = FALSE /\ finalizing' = FALSE
    /\ pc' = [t \in Persisters |-> "idle"] /\ snap' = [t \in Persisters |-> Fresh]
    /\ holder' = Nobody /\ dest' = 0
    /\ UNCHANGED <<fileVars, ver, fails, crashes>>

Next ==
    \/ Mutate \/ CompactStart \/ CompactRound \/ Install \/ CompactEnd \/ Crash \/ Open
    \/ \E t \in Flushers : FlushCall(t)
    \/ \E t \in Persisters : \/ Snapshot(t) \/ Refuse(t) \/ WriteRegion(t)
                             \/ WriteSb(t) \/ Flip(t) \/ IoError(t)

Spec == Init /\ [][Next]_vars

-----------------------------------------------------------------------------
\* Double buffering (design 2.1): the slot of the last image known to be durable
\* is never written again before another one is, whatever fails or crashes; the
\* slot a persist writes is never the active one.
AckedIntact ==
    /\ active \in DOMAIN slots
    /\ slots[active] = Stored(acked, "ok")

\* Head comment of compact.rs ("before the flip the old header holds, after it the
\* new one") and acceptance of T1: the file behaves as one durable image that is
\* only ever replaced by a newer one whose persist has begun; the next open loads
\* that image, or one whose persist had begun since.
Durable == INSTANCE VfsDurable WITH FirstImage <- Fresh, disk <- acked, pending <- maybe
ImplementsDurable == Durable!DurableSpec

\* Acceptance of T1 ("what was flushed is intact"): what a returned flush made
\* durable is not replaced, at the next open, by an older state of the files.
FlushedSurvives ==
    ~up => \A b \in DOMAIN slots : IsBest(sb, slots, b) => slots[b].ver >= acked.ver

\* R07 and the comment of persist_image: within a session no persist, however
\* late, takes the durable index back to an older generation.
NoRegress ==
    [][up /\ up' => acked'.gen >= acked.gen /\ wm' >= wm]_vars

\* The watermark never locks flush out: when no compaction runs it is not ahead
\* of the index in memory, so a flush that races with nothing is accepted.
FlushAccepted == up /\ ~compacting => wm <= mem.gen

-----------------------------------------------------------------------------
(***************************************************************************)
(* The inductive invariant: who may be writing which slot, and how the     *)
(* generation of every image in flight relates to watermark and memory.    *)
(***************************************************************************)
Writing(t) == pc[t] \in {"region", "sb"}
InFlight(t) == pc[t] \in {"snapped", "region", "sb"}

LockInv ==
    /\ \A t \in Persisters : Writing(t) => holder = t
    /\ holder # Nobody => Writing(holder)

SlotInv ==
    /\ inactive \in 0..Len(slots) /\ inactive # active
    /\ holder # Nobody =>
          /\ dest \in 1..(Len(slots) + 1) /\ dest # active
          /\ pc[holder] = "sb" => /\ dest \in DOMAIN slots
                                 /\ slots[dest] = Stored(snap[holder], "ok")

WatermarkInv ==
    /\ wm = acked.gen
    /\ \A t \in Persisters : Writing(t) => snap[t].gen >= wm

CompactInv ==
    /\ compacting <=> pc[Compactor] # "idle"
    /\ finalizing => compacting /\ pc[Compactor] # "called"
    /\ finalizing /\ InFlight(Compactor) => snap[Compactor].gen = mem.gen + 1
    /\ pc[Compactor] = "install" =>
          finalizing /\ snap[Compactor].gen = mem.gen + 1 /\ wm = mem.gen + 1
    /\ \A t \in Flushers : pc[t] \in {"idle", "called", "snapped", "region", "sb"}

MemoryInv ==
    /\ \A t \in Persisters :
          InFlight(t) => snap[t].gen <= mem.gen \/ (t = Compactor /\ finalizing)
    /\ wm <= mem.gen \/ pc[Compactor] = "install"

PersistInv ==
    /\ TypeOK /\ AckedIntact /\ LockInv /\ SlotInv /\ WatermarkInv
    /\ up => CompactInv /\ MemoryInv
=============================================================================
