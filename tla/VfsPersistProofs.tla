-------------------------- MODULE VfsPersistProofs --------------------------
(***************************************************************************)
(* Theorems about VfsPersist, for any number of flushing threads, region   *)
(* lengths, changes, I/O errors and crashes: PersistInv is inductive, and  *)
(* double buffering and the watermark follow from it.  The second part     *)
(* refines VfsDurable: every step of a session does whatever the faults,   *)
(* and an open does for one crash, or when all that is persisted has one   *)
(* length.                                                                 *)
(***************************************************************************)
EXTENDS VfsPersist, TLAPS

\* An image stored in a slot is a slot, and reading it back gives the image.
LEMMA StoredType ==
    ASSUME NEW img \in Image, NEW state \in {"ok", "bad", "stuck"}
    PROVE  /\ Stored(img, state) \in Slot
           /\ ImageOf(Stored(img, state)) = img
  BY DEF Stored, Slot, Image, ImageOf

\* A slot that verifies is what storing its own image leaves.
LEMMA OkSlot ==
    ASSUME NEW slot \in Slot, slot.state = "ok"
    PROVE  ImageOf(slot) \in Image /\ Stored(ImageOf(slot), "ok") = slot
  BY DEF Stored, Slot, Image, ImageOf

\* Writing a region to slot d changes no other slot and loses none.
LEMMA PutFacts ==
    ASSUME NEW s \in Seq(Slot), NEW d \in 1..(Len(s) + 1), NEW img \in Image,
           NEW state \in {"ok", "bad", "stuck"}
    PROVE  /\ Put(s, d, img, state) \in Seq(Slot)
           /\ Len(s) <= Len(Put(s, d, img, state))
           /\ d \in DOMAIN Put(s, d, img, state)
           /\ Put(s, d, img, state)[d] = Stored(img, state)
           /\ \A i \in DOMAIN s : i # d => /\ i \in DOMAIN Put(s, d, img, state)
                                          /\ Put(s, d, img, state)[i] = s[i]
  <1>1. Stored(img, state) \in Slot
    BY StoredType
  <1>2. CASE d = Len(s) + 1
    BY <1>1, <1>2 DEF Put
  <1>3. CASE d # Len(s) + 1
    BY <1>1, <1>3 DEF Put
  <1> QED
    BY <1>2, <1>3

\* A region write cut short does not either.
LEMMA CutFacts ==
    ASSUME NEW s \in Seq(Slot), NEW d \in 1..(Len(s) + 1), NEW img \in Image,
           NEW after \in AfterRegionWrite(s, d, img, Tears)
    PROVE  /\ after \in Seq(Slot)
           /\ Len(s) <= Len(after)
           /\ \A i \in DOMAIN s : i # d => i \in DOMAIN after /\ after[i] = s[i]
  <1>1. \/ after = s
        \/ \E state \in {"ok", "bad", "stuck"} : after = Put(s, d, img, state)
    BY DEF AfterRegionWrite
  <1> QED
    BY <1>1, PutFacts

\* The slot a persist picks exists or is the next one, and is not the active one.
LEMMA DestFacts ==
    ASSUME NEW s \in Seq(Slot), NEW spare \in 0..Len(s), NEW act \in DOMAIN s,
           spare # act, NEW img
    PROVE  Dest(s, spare, img) \in 1..(Len(s) + 1) /\ Dest(s, spare, img) # act
  BY DEF Dest
-----------------------------------------------------------------------------
LEMMA InitInv == Init => PersistInv
  <1> SUFFICES ASSUME Init PROVE PersistInv
    OBVIOUS
  <1> USE PersistAssumption DEF Init
  <1>1. Fresh \in Image
    BY DEF Fresh, Image
  <1>2. Stored(Fresh, "ok") \in Slot
    BY <1>1, StoredType
  <1>3. TypeOK
    <2>1. slots \in Seq(Slot)
      BY <1>2
    <2>2. /\ pc \in [Persisters -> {"idle", "called", "snapped", "region", "sb",
                                   "install", "moving"}]
          /\ snap \in [Persisters -> Image]
      BY <1>1
    <2> QED
      BY <1>1, <2>1, <2>2 DEF TypeOK
  <1>4. AckedIntact /\ LockInv /\ SlotInv
    BY DEF AckedIntact, LockInv, SlotInv, Writing
  <1>5. WatermarkInv /\ CompactInv /\ MemoryInv
    BY DEF WatermarkInv, CompactInv, MemoryInv, Writing, InFlight, Fresh, Persisters, Nobody
  <1> QED
    BY <1>3, <1>4, <1>5 DEF PersistInv
-----------------------------------------------------------------------------
\* Whatever a write cut short leaves, the active slot is as it was.
LEMMA CutShortFacts ==
    ASSUME PersistInv, NEW t \in Persisters, CutShort(t)
    PROVE  /\ sb' \in Nat /\ slots' \in Seq(Slot) /\ Len(slots) <= Len(slots')
           /\ active \in DOMAIN slots' /\ slots'[active] = slots[active]
           /\ pc[t] # "region" => slots' = slots
           /\ holder # t => slots' = slots
           /\ InFlight(t)
  <1> USE DEF PersistInv, TypeOK, fileVars
  <1>1. CASE pc[t] = "snapped" /\ UNCHANGED fileVars
    BY <1>1 DEF AckedIntact, InFlight
  <1>2. CASE /\ pc[t] = "region" /\ UNCHANGED sb
             /\ slots' \in AfterRegionWrite(slots, dest, snap[t], Tears)
    <2>1. holder = t /\ holder # Nobody
      BY <1>2, PersistAssumption DEF LockInv, Writing
    <2>2. dest \in 1..(Len(slots) + 1) /\ dest # active /\ snap[t] \in Image
      BY <2>1 DEF SlotInv
    <2> QED
      <3>1. slots' \in Seq(Slot) /\ Len(slots) <= Len(slots')
        BY <1>2, <2>2, CutFacts
      <3>2. active \in DOMAIN slots' /\ slots'[active] = slots[active]
        BY <1>2, <2>2, CutFacts DEF AckedIntact
      <3> QED
        BY <1>2, <2>1, <3>1, <3>2 DEF InFlight
  <1>3. CASE /\ pc[t] = "sb" /\ UNCHANGED slots
             /\ sb' \in AfterSbWrite(sb, snap[t].gen, Tears)
    <2>1. snap[t] \in Image
      OBVIOUS
    <2>2. sb' \in Nat
      BY <1>3, <2>1 DEF AfterSbWrite, NoGen, Image
    <2> QED
      BY <1>3, <2>2 DEF AckedIntact, InFlight
  <1> QED
    BY <1>1, <1>2, <1>3 DEF CutShort

\* The index changes in memory: no persist is touched.
LEMMA MutateInv ==
    ASSUME PersistInv, Mutate
    PROVE  PersistInv'
  <1> USE PersistAssumption DEF PersistInv, Mutate, fileVars, layoutVars, stepVars, ghostVars
  <1>1. TypeOK'
    <2>1. ver' \in Nat /\ mem' \in Image
      BY DEF TypeOK, Image
    <2> QED
      BY <2>1 DEF TypeOK
  <1>2. AckedIntact' /\ LockInv' /\ SlotInv'
    BY DEF TypeOK, AckedIntact, LockInv, SlotInv, Writing, Persisters
  <1>3. WatermarkInv'
    BY DEF TypeOK, WatermarkInv, LockInv, Writing, Persisters, Image
  <1>4. (up => CompactInv /\ MemoryInv)'
    BY DEF TypeOK, CompactInv, MemoryInv, InFlight, Writing, Persisters, Image, LockInv, WatermarkInv
  <1> QED
    BY <1>1, <1>2, <1>3, <1>4 DEF PersistInv

\* flush enters.
LEMMA FlushCallInv ==
    ASSUME PersistInv, NEW t \in Flushers, FlushCall(t)
    PROVE  PersistInv'
  <1> USE PersistAssumption DEF PersistInv, FlushCall, Goto, fileVars, layoutVars, stepVars, ghostVars
  <1>1. TypeOK'
    BY DEF TypeOK, Image, Persisters
  <1>2. AckedIntact' /\ LockInv' /\ SlotInv'
    BY DEF TypeOK, AckedIntact, LockInv, SlotInv, Writing, Persisters
  <1>3. WatermarkInv'
    BY DEF TypeOK, WatermarkInv, LockInv, Writing, Persisters, Image
  <1>4. (up => CompactInv /\ MemoryInv)'
    BY DEF TypeOK, CompactInv, MemoryInv, InFlight, Writing, Persisters, Image, LockInv, WatermarkInv
  <1> QED
    BY <1>1, <1>2, <1>3, <1>4 DEF PersistInv

\* The image is copied: it is no newer than the index.
LEMMA SnapshotInv ==
    ASSUME PersistInv, NEW t \in Persisters, Snapshot(t)
    PROVE  PersistInv'
  <1> USE PersistAssumption DEF PersistInv, Snapshot, Goto, fileVars, layoutVars, stepVars, ghostVars
  <1>1. TypeOK'
    BY DEF TypeOK, Image, Persisters
  <1>2. AckedIntact' /\ LockInv' /\ SlotInv'
    BY DEF TypeOK, AckedIntact, LockInv, SlotInv, Writing, Persisters
  <1>3. WatermarkInv'
    BY DEF TypeOK, WatermarkInv, LockInv, Writing, Persisters, Image
  <1>4. (up => CompactInv /\ MemoryInv)'
    BY DEF TypeOK, CompactInv, MemoryInv, InFlight, Writing, Persisters, Image, LockInv, WatermarkInv
  <1> QED
    BY <1>1, <1>2, <1>3, <1>4 DEF PersistInv

\* A stale image is refused.
LEMMA RefuseInv ==
    ASSUME PersistInv, NEW t \in Persisters, Refuse(t)
    PROVE  PersistInv'
  <1> USE PersistAssumption DEF PersistInv, Refuse, Goto, Return, fileVars, layoutVars, stepVars, ghostVars
  <1>1. TypeOK'
    BY DEF TypeOK, Image, Persisters
  <1>2. AckedIntact' /\ LockInv' /\ SlotInv'
    BY DEF TypeOK, AckedIntact, LockInv, SlotInv, Writing, Persisters
  <1>3. WatermarkInv'
    BY DEF TypeOK, WatermarkInv, LockInv, Writing, Persisters, Image
  <1>4. (up => CompactInv /\ MemoryInv)'
    BY DEF TypeOK, CompactInv, MemoryInv, InFlight, Writing, Persisters, Image, LockInv, WatermarkInv
  <1> QED
    BY <1>1, <1>2, <1>3, <1>4 DEF PersistInv

\* The lock is taken and the slot picked: never the active one.
LEMMA WriteRegionInv ==
    ASSUME PersistInv, NEW t \in Persisters, WriteRegion(t)
    PROVE  PersistInv'
  <1> USE PersistAssumption DEF PersistInv, WriteRegion, Goto, fileVars, layoutVars, stepVars, ghostVars
  <1>0. dest' \in 1..(Len(slots) + 1) /\ dest' # active
    BY DestFacts DEF TypeOK, SlotInv, AckedIntact
  <1>1. TypeOK'
    <2>1. dest' \in Nat /\ maybe' \subseteq Image
      BY <1>0 DEF TypeOK
    <2> QED
      BY <2>1 DEF TypeOK
  <1>2. AckedIntact' /\ LockInv' /\ SlotInv'
    BY <1>0 DEF TypeOK, AckedIntact, LockInv, SlotInv, Writing, Persisters
  <1>3. WatermarkInv'
    BY DEF TypeOK, WatermarkInv, LockInv, Writing, Persisters, Image
  <1>4. (up => CompactInv /\ MemoryInv)'
    BY DEF TypeOK, CompactInv, MemoryInv, InFlight, Writing, Persisters, Image, LockInv, WatermarkInv
  <1> QED
    BY <1>1, <1>2, <1>3, <1>4 DEF PersistInv

\* The region is complete in its slot.
LEMMA WriteSbInv ==
    ASSUME PersistInv, NEW t \in Persisters, WriteSb(t)
    PROVE  PersistInv'
  <1> USE PersistAssumption DEF PersistInv, WriteSb, Goto, fileVars, layoutVars, stepVars, ghostVars
  <1>0. /\ holder = t /\ dest \in 1..(Len(slots) + 1) /\ dest # active
        /\ snap[t] \in Image
    BY DEF TypeOK, LockInv, SlotInv, Writing
  <1>p. /\ slots' \in Seq(Slot) /\ Len(slots) <= Len(slots')
        /\ dest \in DOMAIN slots' /\ slots'[dest] = Stored(snap[t], "ok")
        /\ \A i \in DOMAIN slots : i # dest => i \in DOMAIN slots' /\ slots'[i] = slots[i]
    <2>1. slots \in Seq(Slot) /\ slots' = Put(slots, dest, snap[t], "ok")
      BY DEF TypeOK
    <2> DEFINE written == Put(slots, dest, snap[t], "ok")
    <2> HIDE DEF PersistInv, WriteSb
    <2>2. /\ written \in Seq(Slot) /\ Len(slots) <= Len(written)
          /\ dest \in DOMAIN written /\ written[dest] = Stored(snap[t], "ok")
          /\ \A i \in DOMAIN slots : i # dest => i \in DOMAIN written /\ written[i] = slots[i]
      BY <1>0, <2>1, PutFacts
    <2>3. slots' = written
      BY <2>1
    <2> HIDE DEF written
    <2> QED
      BY <2>2, <2>3
  <1>a. active \in DOMAIN slots' /\ slots'[active] = slots[active]
    BY <1>0, <1>p DEF AckedIntact
  <1>1. TypeOK'
    BY <1>p, <1>a DEF TypeOK
  <1>2. AckedIntact' /\ LockInv' /\ SlotInv'
    <2>1. AckedIntact'
      BY <1>p, <1>a DEF AckedIntact
    <2>2. LockInv'
      BY <1>0 DEF TypeOK, LockInv, Writing
    <2>3. SlotInv'
      BY <1>p, <1>a, <1>0 DEF TypeOK, SlotInv
    <2> QED
      BY <2>1, <2>2, <2>3
  <1>3. WatermarkInv'
    BY DEF TypeOK, WatermarkInv, LockInv, Writing, Persisters, Image
  <1>4. (up => CompactInv /\ MemoryInv)'
    BY DEF TypeOK, CompactInv, MemoryInv, InFlight, Writing, Persisters, Image, LockInv, WatermarkInv
  <1> QED
    BY <1>1, <1>2, <1>3, <1>4 DEF PersistInv

\* The slots change roles.
LEMMA FlipInv ==
    ASSUME PersistInv, NEW t \in Persisters, Flip(t)
    PROVE  PersistInv'
  <1> USE PersistAssumption DEF PersistInv, Flip, Goto, fileVars, layoutVars, stepVars, ghostVars
  <1>1. TypeOK'
    BY DEF TypeOK, Image, Persisters
  <1>2. AckedIntact' /\ LockInv' /\ SlotInv'
    BY DEF TypeOK, AckedIntact, LockInv, SlotInv, Writing, Persisters
  <1>3. WatermarkInv'
    BY DEF TypeOK, WatermarkInv, LockInv, Writing, Persisters, Image
  <1>4. (up => CompactInv /\ MemoryInv)'
    BY DEF TypeOK, CompactInv, MemoryInv, InFlight, Writing, Persisters, Image, LockInv, WatermarkInv
  <1> QED
    BY <1>1, <1>2, <1>3, <1>4 DEF PersistInv

\* A compaction starts.
LEMMA CompactStartInv ==
    ASSUME PersistInv, CompactStart
    PROVE  PersistInv'
  <1> USE PersistAssumption DEF PersistInv, CompactStart, Goto, fileVars, layoutVars, stepVars, ghostVars
  <1>1. TypeOK'
    BY DEF TypeOK, Image, Persisters
  <1>2. AckedIntact' /\ LockInv' /\ SlotInv'
    BY DEF TypeOK, AckedIntact, LockInv, SlotInv, Writing, Persisters
  <1>3. WatermarkInv'
    BY DEF TypeOK, WatermarkInv, LockInv, Writing, Persisters, Image
  <1>4. (up => CompactInv /\ MemoryInv)'
    BY DEF TypeOK, CompactInv, MemoryInv, InFlight, Writing, Persisters, Image, LockInv, WatermarkInv
  <1> QED
    BY <1>1, <1>2, <1>3, <1>4 DEF PersistInv

\* A compaction has moved the files.
LEMMA CompactRoundInv ==
    ASSUME PersistInv, CompactRound
    PROVE  PersistInv'
  <1> USE PersistAssumption DEF PersistInv, CompactRound, Goto, fileVars, layoutVars, stepVars, ghostVars
  <1>0. ver' \in Nat /\ snap'[Compactor] \in Image
        /\ snap'[Compactor].gen = mem.gen + 1
        /\ \A t \in Flushers : snap'[t] = snap[t]
    BY DEF TypeOK, Image, Persisters
  <1>1. TypeOK'
    <2>1. PICK n \in Lens :
              snap' = [snap EXCEPT ![Compactor] = [gen |-> mem.gen + 1, ver |-> ver', len |-> n]]
      OBVIOUS
    <2>2. snap' \in [Persisters -> Image]
      BY <1>0, <2>1 DEF TypeOK, Image
    <2> QED
      BY <1>0, <2>2 DEF TypeOK
  <1>2. AckedIntact' /\ LockInv' /\ SlotInv'
    BY DEF TypeOK, AckedIntact, LockInv, SlotInv, Writing, Persisters
  <1>3. WatermarkInv'
    BY DEF TypeOK, WatermarkInv, LockInv, Writing, Persisters, Image
  <1>4. (up => CompactInv /\ MemoryInv)'
    <2>1. CompactInv'
      BY <1>0 DEF TypeOK, CompactInv, InFlight, Persisters
    <2>2. MemoryInv'
      BY <1>0 DEF TypeOK, MemoryInv, InFlight, Persisters
    <2> QED
      BY <2>1, <2>2
  <1> QED
    BY <1>1, <1>2, <1>3, <1>4 DEF PersistInv

\* A compaction installs the new index.
LEMMA InstallInv ==
    ASSUME PersistInv, Install
    PROVE  PersistInv'
  <1> USE PersistAssumption DEF PersistInv, Install, Goto, fileVars, layoutVars, stepVars, ghostVars
  <1>1. TypeOK'
    BY DEF TypeOK, Image, Persisters
  <1>2. AckedIntact' /\ LockInv' /\ SlotInv'
    BY DEF TypeOK, AckedIntact, LockInv, SlotInv, Writing, Persisters
  <1>3. WatermarkInv'
    BY DEF TypeOK, WatermarkInv, LockInv, Writing, Persisters, Image
  <1>4. (up => CompactInv /\ MemoryInv)'
    BY DEF TypeOK, CompactInv, MemoryInv, InFlight, Writing, Persisters, Image, LockInv, WatermarkInv
  <1> QED
    BY <1>1, <1>2, <1>3, <1>4 DEF PersistInv

\* A compaction ends.
LEMMA CompactEndInv ==
    ASSUME PersistInv, CompactEnd
    PROVE  PersistInv'
  <1> USE PersistAssumption DEF PersistInv, CompactEnd, Goto, Return, fileVars, layoutVars, stepVars, ghostVars
  <1>1. TypeOK'
    BY DEF TypeOK, Image, Persisters
  <1>2. AckedIntact' /\ LockInv' /\ SlotInv'
    BY DEF TypeOK, AckedIntact, LockInv, SlotInv, Writing, Persisters
  <1>3. WatermarkInv'
    BY DEF TypeOK, WatermarkInv, LockInv, Writing, Persisters, Image
  <1>4. (up => CompactInv /\ MemoryInv)'
    BY DEF TypeOK, CompactInv, MemoryInv, InFlight, Writing, Persisters, Image, LockInv, WatermarkInv
  <1> QED
    BY <1>1, <1>2, <1>3, <1>4 DEF PersistInv

\* A persist fails.
LEMMA IoErrorInv ==
    ASSUME PersistInv, NEW t \in Persisters, IoError(t)
    PROVE  PersistInv'
  <1> USE PersistAssumption DEF PersistInv, IoError, Goto, Return, fileVars, layoutVars, stepVars, ghostVars
  <1>0. /\ sb' \in Nat /\ slots' \in Seq(Slot) /\ Len(slots) <= Len(slots')
        /\ active \in DOMAIN slots' /\ slots'[active] = slots[active]
        /\ holder # t => slots' = slots
        /\ InFlight(t)
    BY CutShortFacts
  <1>1. TypeOK'
    <2>1. fails' \in Nat /\ holder' \in Persisters \cup {Nobody}
      BY DEF TypeOK
    <2>2. pc' \in [Persisters -> {"idle", "called", "snapped", "region", "sb",
                                 "install", "moving"}]
      BY DEF TypeOK
    <2> QED
      BY <1>0, <2>1, <2>2 DEF TypeOK
  <1>2. AckedIntact' /\ LockInv' /\ SlotInv'
    <2>1. AckedIntact'
      BY <1>0 DEF AckedIntact
    <2>2. LockInv'
      BY DEF TypeOK, LockInv, Writing
    <2>3. SlotInv'
      BY <1>0 DEF TypeOK, SlotInv, LockInv, Writing
    <2> QED
      BY <2>1, <2>2, <2>3
  <1>3. WatermarkInv'
    BY <1>0 DEF TypeOK, WatermarkInv, LockInv, Writing, Persisters, Image
  <1>4. (up => CompactInv /\ MemoryInv)'
    BY <1>0 DEF TypeOK, CompactInv, MemoryInv, InFlight, Writing, Persisters, Image, LockInv, WatermarkInv
  <1> QED
    BY <1>1, <1>2, <1>3, <1>4 DEF PersistInv

\* The process stops.
LEMMA CrashInv ==
    ASSUME PersistInv, Crash
    PROVE  PersistInv'
  <1> USE PersistAssumption DEF PersistInv, Crash, fileVars, layoutVars, stepVars, ghostVars
  <1>0. /\ sb' \in Nat /\ slots' \in Seq(Slot) /\ Len(slots) <= Len(slots')
        /\ active \in DOMAIN slots' /\ slots'[active] = slots[active]
        /\ holder # Nobody /\ pc[holder] = "sb" => slots' = slots
    BY CutShortFacts DEF TypeOK, AckedIntact
  <1>1. TypeOK'
    <2>1. crashes' \in Nat
      BY DEF TypeOK
    <2> QED
      BY <1>0, <2>1 DEF TypeOK
  <1>2. AckedIntact' /\ LockInv' /\ SlotInv'
    <2>1. AckedIntact' /\ LockInv'
      BY <1>0 DEF AckedIntact, LockInv, Writing
    <2>2. SlotInv'
      BY <1>0 DEF TypeOK, SlotInv
    <2> QED
      BY <2>1, <2>2
  <1>3. WatermarkInv'
    BY <1>0 DEF TypeOK, WatermarkInv, LockInv, Writing, Persisters, Image
  <1>4. (up => CompactInv /\ MemoryInv)'
    BY <1>0 DEF TypeOK, CompactInv, MemoryInv, InFlight, Writing, Persisters, Image, LockInv, WatermarkInv
  <1> QED
    BY <1>1, <1>2, <1>3, <1>4 DEF PersistInv

\* The store is opened again.
LEMMA OpenInv ==
    ASSUME PersistInv, Open
    PROVE  PersistInv'
  <1> USE PersistAssumption DEF PersistInv, fileVars
  <1>1. PICK b \in DOMAIN slots :
           /\ IsBest(sb, slots, b)
           /\ active' = b
           /\ \E s \in 0..Len(slots) : IsSpare(slots, b, s) /\ inactive' = s
           /\ \E n \in {m \in Lens : m <= slots[b].len} :
                  mem' = [ImageOf(slots[b]) EXCEPT !.len = n]
           /\ wm' = slots[b].gen
           /\ acked' = ImageOf(slots[b]) /\ maybe' = {}
    BY DEF Open
  <1>2. /\ slots[b] \in Slot /\ slots[b].state = "ok"
        /\ acked' \in Image /\ slots[b] = Stored(acked', "ok") /\ acked'.gen = slots[b].gen
    <2>1. slots[b] \in Slot /\ slots[b].state = "ok"
      BY <1>1 DEF TypeOK, IsBest, Parsed
    <2> QED
      BY <1>1, <2>1, OkSlot DEF ImageOf
  <1>3. mem' \in Image /\ mem'.gen = slots[b].gen
    BY <1>1, <1>2 DEF Image, ImageOf
  <1>4. Fresh \in Image
    BY DEF Fresh, Image
  <1>5. inactive' \in 0..Len(slots) /\ inactive' # b
    BY <1>1 DEF IsSpare, TypeOK
  <1>6. TypeOK'
    <2>1. snap' \in [Persisters -> Image]
      BY <1>4 DEF Open
    <2>2. pc' \in [Persisters -> {"idle", "called", "snapped", "region", "sb",
                                 "install", "moving"}]
      BY DEF Open
    <2>3. wm' \in Nat /\ active' \in Nat /\ inactive' \in Nat
      <3>1. DOMAIN slots \subseteq Nat /\ 0..Len(slots) \subseteq Nat
        BY DEF TypeOK
      <3> QED
        BY <1>1, <1>2, <1>5, <3>1 DEF Slot
    <2>4. UNCHANGED <<sb, slots, ver, fails, crashes>> /\ dest' = 0 /\ holder' = Nobody
          /\ up' \in BOOLEAN /\ compacting' \in BOOLEAN /\ finalizing' \in BOOLEAN
          /\ maybe' = {}
      BY <1>1 DEF Open
    <2> QED
      BY <1>2, <1>3, <2>1, <2>2, <2>3, <2>4 DEF TypeOK
  <1>7. AckedIntact' /\ LockInv' /\ SlotInv'
    BY <1>1, <1>2, <1>5 DEF Open, AckedIntact, LockInv, SlotInv, Writing
  <1>8. WatermarkInv' /\ CompactInv' /\ MemoryInv'
    BY <1>1, <1>2, <1>3 DEF Open, WatermarkInv, CompactInv, MemoryInv, Writing, InFlight,
                            Persisters, Image, TypeOK
  <1> QED
    BY <1>6, <1>7, <1>8
-----------------------------------------------------------------------------
LEMMA NextInv == PersistInv /\ [Next]_vars => PersistInv'
  <1> SUFFICES ASSUME PersistInv, [Next]_vars PROVE PersistInv'
    OBVIOUS
  <1>1. CASE UNCHANGED vars
    BY <1>1 DEF vars, fileVars, layoutVars, stepVars, ghostVars, PersistInv, TypeOK,
                AckedIntact, LockInv, SlotInv, WatermarkInv, CompactInv, MemoryInv,
                Writing, InFlight
  <1>2. CASE Next
    BY <1>2, MutateInv, FlushCallInv, SnapshotInv, RefuseInv, WriteRegionInv, WriteSbInv,
       FlipInv, CompactStartInv, CompactRoundInv, InstallInv, CompactEndInv, IoErrorInv,
       CrashInv, OpenInv DEF Next
  <1> QED
    BY <1>1, <1>2

\* The invariant of the persist protocol holds in every reachable state: who
\* holds the lock, which slot is written, and how generations relate.
THEOREM PersistInvHolds == Spec => []PersistInv
  BY InitInv, NextInv, PTL DEF Spec

\* Every variable of the persist protocol keeps its type.
THEOREM PersistTypeCorrect == Spec => []TypeOK
  <1>1. PersistInv => TypeOK
    BY DEF PersistInv
  <1> QED
    BY <1>1, PersistInvHolds, PTL

\* Double buffering (persist_image): no persist, I/O error or crash damages the
\* slot that holds the last index known to be durable.
THEOREM DoubleBuffering == Spec => []AckedIntact
  <1>1. PersistInv => AckedIntact
    BY DEF PersistInv
  <1> QED
    BY <1>1, PersistInvHolds, PTL

\* The watermark of persist_image: with any number of threads flushing, the
\* durable index never goes back to an older generation while the store is open.
THEOREM DurableNeverRegresses == Spec => NoRegress
  <1> DEFINE Step == up /\ up' => acked'.gen >= acked.gen /\ wm' >= wm
  <1>1. PersistInv /\ [Next]_vars => [Step]_vars
    <2> SUFFICES ASSUME PersistInv, Next, up, up'
                 PROVE  acked'.gen >= acked.gen /\ wm' >= wm
      OBVIOUS
    <2> USE DEF PersistInv, layoutVars, ghostVars
    <2>1. acked.gen \in Nat /\ wm \in Nat /\ wm = acked.gen
      BY DEF TypeOK, WatermarkInv, Image
    <2>2. CASE \E t \in Persisters : Flip(t)
      BY <2>1, <2>2 DEF Flip, WatermarkInv, TypeOK, Writing, Image
    <2>3. CASE UNCHANGED <<acked, wm>>
      BY <2>1, <2>3
    <2>4. (\E t \in Persisters : Flip(t)) \/ UNCHANGED <<acked, wm>>
      BY DEF Next, Mutate, CompactStart, CompactRound, Install, CompactEnd, Crash, Open,
             FlushCall, Snapshot, Refuse, WriteRegion, WriteSb, IoError
    <2> QED
      BY <2>2, <2>3, <2>4
  <1> QED
    BY <1>1, PersistInvHolds, PTL DEF Spec, NoRegress

\* The watermark never shuts flush out: while no compaction runs the index in
\* memory is at least as new as the watermark.
THEOREM FlushNeverShutOut == Spec => []FlushAccepted
  <1>1. PersistInv => FlushAccepted
    BY DEF PersistInv, FlushAccepted, CompactInv, MemoryInv
  <1> QED
    BY <1>1, PersistInvHolds, PTL

-----------------------------------------------------------------------------
(***************************************************************************)
(* Sessions without an I/O error: an image is told by its generation, and  *)
(* at most one persist has begun since the last that succeeded.            *)
(***************************************************************************)
\* What is persisted has one of the lengths in N.
Written(N) == \A t \in Persisters : InFlight(t) => snap[t].len \in N

\* After an open the index in memory may differ in length from the durable one of its
\* generation (Downloading entries are dropped).
OneImage(N) ==
    /\ \A t \in Persisters : InFlight(t) =>
           /\ snap[t].gen = mem.gen => snap[t] = mem
           /\ snap[t].gen = acked.gen => snap[t] = acked
           /\ \A u \in Persisters : InFlight(u) /\ snap[u].gen = snap[t].gen => snap[u] = snap[t]
    /\ acked.gen = mem.gen /\ mem.len \in N => acked = mem
    /\ pc[Compactor] = "install" => acked = snap[Compactor]
    /\ maybe = IF holder = Nobody THEN {} ELSE {snap[holder]}

\* The next open loads the durable image or one whose persist has begun since.
Recovers == \A b \in DOMAIN slots : IsBest(sb, slots, b) => ImageOf(slots[b]) \in {acked} \cup maybe

\* Generations start with 1, that of the empty index.
Present ==
    /\ acked.gen >= 1 /\ (acked.gen = 1 => acked = Fresh)
    /\ mem.gen >= 1 /\ (mem.gen = 1 => mem = Fresh)
    /\ \A t \in Persisters : snap[t].gen >= 1 /\ (snap[t].gen = 1 => snap[t] = Fresh)
    /\ \A i \in DOMAIN slots : slots[i].gen >= 1 /\ (slots[i].gen = 1 => ImageOf(slots[i]) = Fresh)

\* Up to the first crash no region is torn, and none is newer than the durable one but
\* the one that is written.
Untorn ==
    \A i \in DOMAIN slots :
        /\ slots[i].state = "ok"
        /\ slots[i].gen >= acked.gen => ImageOf(slots[i]) \in {acked} \cup maybe

OnceInv ==
    /\ fails = 0 /\ crashes \in {0, 1} /\ Present
    /\ up /\ crashes = 0 => OneImage(Nat) /\ sb = acked.gen /\ Untorn
    /\ ~up => crashes = 1 /\ Recovers

\* When what is persisted has length L there are at most two slots of that length, which
\* change roles, behind the empty region of the new file if that has another length.
\* First counts the slots before those of length L, Fixed the slots that are kept.
First(L) == IF L = EmptyLen THEN 0 ELSE 1
Fixed(L) == IF active <= First(L) THEN First(L) ELSE First(L) + 1

\* The slot of a persist is the one behind the kept ones, or the other of the two.
TwoSlots(L) ==
    /\ \A i \in DOMAIN slots : slots[i].state # "stuck"
    /\ \A i \in DOMAIN slots : i <= First(L) => slots[i] = Stored(Fresh, "ok")
    /\ \A i \in DOMAIN slots : i > First(L) => slots[i].len = L
    /\ Len(slots) <= Fixed(L) + 1
    /\ holder # Nobody => First(L) < dest /\ dest <= Fixed(L) + 1

Turns(L) ==
    /\ inactive > First(L) => Len(slots) = Fixed(L) + 1
    /\ inactive <= First(L) => Len(slots) = Fixed(L) \/ \E t \in Persisters : pc[t] = "sb"

\* A region that a crash left behind may be newer than the durable one while the
\* SuperBlock tells them apart, and is the next to be written over.
Behind ==
    \A i \in DOMAIN slots \ {active} : slots[i].state = "ok" =>
        \/ ImageOf(slots[i]) \in {acked} \cup maybe
        \/ slots[i].gen < acked.gen
        \/ /\ slots[i].gen > acked.gen /\ sb = acked.gen
           /\ \A t \in Persisters : pc[t] # "sb"

\* What a crash leaves: a SuperBlock that is torn or names a region, and regions told by
\* their generations.
Told ==
    /\ sb # NoGen => \E i \in DOMAIN slots : slots[i].state = "ok" /\ slots[i].gen = sb
    /\ \A i, j \in DOMAIN slots :
           slots[i].state = "ok" /\ slots[j].state = "ok" /\ slots[i].gen = slots[j].gen
             => slots[i] = slots[j]

SwapInv(L) ==
    /\ fails = 0 /\ Present /\ TwoSlots(L)
    /\ up => OneImage({L}) /\ sb \in {acked.gen, NoGen} /\ Behind /\ Turns(L)
    /\ ~up => Recovers /\ Told /\ \A img \in maybe : img.len = L
-----------------------------------------------------------------------------
(***************************************************************************)
(* The refinement of VfsDurable: every step but an open implements it,     *)
(* whatever the faults.                                                    *)
(***************************************************************************)
Begun == \A t \in Persisters : Writing(t) => snap[t] \in maybe

LEMMA BegunKept == PersistInv /\ Begun /\ [Next]_vars => Begun'
<1>. SUFFICES ASSUME PersistInv, Begun, [Next]_vars PROVE Begun'
  OBVIOUS
<1>. USE PersistAssumption DEF PersistInv, TypeOK, Begun, Writing, fileVars, layoutVars, stepVars,
                               ghostVars, Goto, Return
<1>1. CASE UNCHANGED vars
  BY <1>1 DEF vars
<1>2. CASE Mutate \/ CompactStart \/ CompactEnd \/ Install \/ \E t \in Flushers : FlushCall(t)
  BY <1>2 DEF Mutate, CompactStart, CompactEnd, Install, FlushCall, Persisters
<1>3. CASE CompactRound
  BY <1>3 DEF CompactRound, Persisters
<1>4. CASE \E t \in Persisters : Snapshot(t) \/ Refuse(t)
  BY <1>4 DEF Snapshot, Refuse
<1>5. CASE \E t \in Persisters : WriteRegion(t) \/ WriteSb(t)
  BY <1>5 DEF WriteRegion, WriteSb
<1>6. CASE \E t \in Persisters : Flip(t)
  <2>1. PICK t \in Persisters : Flip(t)
    BY <1>6
  <2>2. \A u \in Persisters : u # t => pc'[u] = pc[u] /\ ~Writing(u)
    BY <2>1 DEF Flip, LockInv
  <2>3. ~Writing(t)'
    BY <2>1 DEF Flip
  <2>. QED
    BY <2>1, <2>2, <2>3
<1>7. CASE \E t \in Persisters : IoError(t)
  BY <1>7 DEF IoError
<1>8. CASE Crash
  BY <1>8 DEF Crash
<1>9. CASE Open
  BY <1>9 DEF Open
<1>. QED
  BY <1>1, <1>2, <1>3, <1>4, <1>5, <1>6, <1>7, <1>8, <1>9 DEF Next

LEMMA BegunHolds == Spec => []Begun
<1>1. Init => Begun
  BY DEF Init, Begun, Writing
<1>. QED
  BY <1>1, BegunKept, PersistInvHolds, PTL DEF Spec

durableVars == <<up, acked, maybe>>

LEMMA StepImplements ==
    PersistInv /\ Begun /\ [Next]_vars => Open \/ [Durable!DurableNext]_durableVars
<1>. SUFFICES ASSUME PersistInv, Begun, [Next]_vars, ~Open
              PROVE  Durable!DurableNext \/ UNCHANGED durableVars
  BY DEF durableVars
<1>. USE DEF durableVars, fileVars, layoutVars, stepVars, ghostVars
<1>1. CASE UNCHANGED vars
  BY <1>1 DEF vars
<1>2. CASE Mutate \/ CompactStart \/ CompactEnd \/ Install \/ CompactRound
           \/ \E t \in Flushers : FlushCall(t)
  BY <1>2 DEF Mutate, CompactStart, CompactEnd, Install, CompactRound, FlushCall
<1>3. CASE \E t \in Persisters : Snapshot(t) \/ Refuse(t) \/ WriteSb(t) \/ IoError(t)
  BY <1>3 DEF Snapshot, Refuse, WriteSb, IoError
<1>4. ASSUME NEW t \in Persisters, WriteRegion(t)
      PROVE  Durable!DurableNext
  <2>1. Durable!Begin(snap[t])
    BY <1>4 DEF WriteRegion, Durable!Begin, PersistInv, WatermarkInv
  <2>2. snap[t] \in maybe'
    BY <1>4 DEF WriteRegion
  <2>. QED
    BY <2>1, <2>2 DEF Durable!DurableNext
<1>5. ASSUME NEW t \in Persisters, Flip(t)
      PROVE  Durable!DurableNext
  <2>1. snap[t] \in maybe
    BY <1>5 DEF Flip, Begun, Writing
  <2>2. Durable!Complete(snap[t])
    BY <1>5, <2>1 DEF Flip, Durable!Complete
  <2>. QED
    BY <2>1, <2>2 DEF Durable!DurableNext
<1>6. CASE Crash
  BY <1>6 DEF Crash, Durable!DurableNext, Durable!Stop
<1>. QED
  BY <1>1, <1>2, <1>3, <1>4, <1>5, <1>6 DEF Next

\* For every fault: whatever threads, compactions, I/O errors and crashes do to the
\* index file, they do what VfsDurable allows; only an open can break the promise.
THEOREM SessionsImplement == Spec => [][Open \/ [Durable!DurableNext]_durableVars]_vars
<1>1. PersistInv /\ Begun /\ [Next]_vars => [Open \/ [Durable!DurableNext]_durableVars]_vars
  BY StepImplements
<1>. QED
  BY <1>1, PersistInvHolds, BegunHolds, PTL DEF Spec

\* An open implements VfsDurable if it finds the durable image or one that was begun.
LEMMA OpenImplements == Recovers /\ Open => Durable!DurableNext
<1>. SUFFICES ASSUME Recovers, Open PROVE Durable!DurableNext
  OBVIOUS
<1>1. acked' \in {acked} \cup maybe /\ ~up /\ up' /\ maybe' = {}
  BY DEF Open, Recovers
<1>. QED
  BY <1>1 DEF Durable!DurableNext, Durable!Recover

-----------------------------------------------------------------------------
\* What goes on while a session lasts and no I/O fails.
WorkNext ==
    \/ Mutate \/ CompactStart \/ CompactRound \/ Install \/ CompactEnd
    \/ \E t \in Flushers : FlushCall(t)
    \/ \E t \in Persisters : \/ Snapshot(t) \/ Refuse(t) \/ WriteRegion(t)
                             \/ WriteSb(t) \/ Flip(t)

LEMMA NextIs == Next => WorkNext \/ Crash \/ Open \/ \E t \in Persisters : IoError(t)
  BY DEF Next, WorkNext

\* The steps that make no image and finish none.
LEMMA OneImageStays ==
    ASSUME NEW N, PersistInv, OneImage(N), UNCHANGED <<mem, acked, maybe, holder>>,
           \A t \in Persisters : InFlight(t)' => InFlight(t) /\ snap'[t] = snap[t],
           holder # Nobody => snap'[holder] = snap[holder],
           pc'[Compactor] = "install" => pc[Compactor] = "install" /\ snap'[Compactor] = snap[Compactor]
    PROVE  OneImage(N)'
<1>1. holder # Nobody => holder \in Persisters
  BY DEF PersistInv, TypeOK
<1>. QED
  BY <1>1 DEF OneImage

LEMMA OneImageKept ==
    ASSUME NEW N, PersistInv, OneImage(N), WorkNext, Written(N)'
    PROVE  OneImage(N)'
<1>. USE PersistAssumption DEF fileVars, layoutVars, stepVars, ghostVars, Goto, Return
<1>t. /\ mem \in Image /\ acked \in Image /\ snap \in [Persisters -> Image]
      /\ pc \in [Persisters -> {"idle", "called", "snapped", "region", "sb", "install", "moving"}]
      /\ Compactor \in Persisters /\ Flushers \subseteq Persisters
      /\ holder \in Persisters \cup {Nobody} /\ wm = acked.gen
      /\ \A i \in Image : i.gen \in Nat
  BY DEF PersistInv, TypeOK, WatermarkInv, Image, Persisters
<1>u. up
  BY DEF WorkNext, Mutate, CompactStart, CompactRound, Install, CompactEnd, FlushCall, Snapshot,
         Refuse, WriteRegion, WriteSb, Flip
<1>f. /\ \A t \in Persisters : InFlight(t) => snap[t].gen <= mem.gen \/ (t = Compactor /\ finalizing)
      /\ wm <= mem.gen \/ pc[Compactor] = "install"
      /\ compacting <=> pc[Compactor] # "idle"
      /\ finalizing => compacting
      /\ finalizing /\ InFlight(Compactor) => snap[Compactor].gen = mem.gen + 1
      /\ pc[Compactor] = "install" => snap[Compactor].gen = mem.gen + 1 /\ wm = mem.gen + 1
      /\ \A t \in Flushers : pc[t] \in {"idle", "called", "snapped", "region", "sb"}
  BY <1>u DEF PersistInv, CompactInv, MemoryInv
<1>l. \A t \in Persisters : Writing(t) => holder = t
  BY DEF PersistInv, LockInv
<1>1. CASE CompactStart \/ CompactEnd \/ \E t \in Flushers : FlushCall(t)
  <2>1. /\ UNCHANGED <<mem, acked, maybe, holder, snap>>
        /\ \A t \in Persisters : pc'[t] = pc[t] \/ pc'[t] \in {"called", "idle"}
    BY <1>1, <1>t DEF CompactStart, CompactEnd, FlushCall
  <2>. QED
    BY <2>1, <1>t, OneImageStays DEF InFlight
<1>2. CASE \E t \in Persisters : Refuse(t) \/ WriteSb(t)
  <2>1. /\ UNCHANGED <<mem, acked, maybe, holder, snap>>
        /\ \A t \in Persisters : pc'[t] = pc[t] \/ pc'[t] = "idle" \/ (pc[t] = "region" /\ pc'[t] = "sb")
    BY <1>2, <1>t DEF Refuse, WriteSb
  <2>. QED
    BY <2>1, <1>t, OneImageStays DEF InFlight
<1>3. CASE Mutate
  <2>1. mem'.gen = mem.gen + 1 /\ UNCHANGED <<pc, snap, acked, maybe, holder>> /\ ~compacting
    BY <1>3 DEF Mutate
  <2>2. \A t \in Persisters : InFlight(t) => snap[t].gen < mem'.gen
    BY <2>1, <1>t, <1>f
  <2>3. acked.gen < mem'.gen
    BY <2>1, <1>t, <1>f
  <2>. QED
    BY <2>1, <2>2, <2>3, <1>t DEF OneImage, InFlight
<1>4. ASSUME NEW t \in Persisters, Snapshot(t)
      PROVE  OneImage(N)'
  <2>1. /\ UNCHANGED <<mem, acked, maybe, holder>> /\ snap'[t] = mem
        /\ \A u \in Persisters \ {t} : pc'[u] = pc[u] /\ snap'[u] = snap[u]
        /\ pc'[t] = "snapped" /\ pc[t] = "called"
    BY <1>4, <1>t DEF Snapshot
  <2>2. holder # t
    BY <2>1, <1>t DEF PersistInv, LockInv, Writing
  <2>3. maybe' = IF holder' = Nobody THEN {} ELSE {snap'[holder']}
    BY <2>1, <2>2, <1>t DEF OneImage
  <2>4. \A u \in Persisters :
           InFlight(u)' => snap'[u] = mem \/ (u # t /\ InFlight(u) /\ snap'[u] = snap[u])
    BY <2>1 DEF InFlight
  <2>0. mem.len \in N
    BY <2>1 DEF Written, InFlight
  <2>5. /\ acked'.gen = mem'.gen => acked' = mem'
        /\ pc'[Compactor] = "install" => acked' = snap'[Compactor]
    BY <2>0, <2>1, <1>t DEF OneImage
  <2>6. \A u \in Persisters : InFlight(u)' =>
           /\ snap'[u].gen = mem'.gen => snap'[u] = mem'
           /\ snap'[u].gen = acked'.gen => snap'[u] = acked'
           /\ \A v \in Persisters : InFlight(v)' /\ snap'[v].gen = snap'[u].gen => snap'[v] = snap'[u]
    BY <2>1, <2>4, <2>5 DEF OneImage
  <2>. QED
    BY <2>3, <2>5, <2>6 DEF OneImage
<1>5. ASSUME NEW t \in Persisters, WriteRegion(t)
      PROVE  OneImage(N)'
  <2>1. /\ UNCHANGED <<mem, acked, snap>> /\ holder = Nobody /\ holder' = t
        /\ maybe' = maybe \cup {snap[t]} /\ pc[t] = "snapped" /\ pc'[t] = "region"
        /\ \A u \in Persisters \ {t} : pc'[u] = pc[u]
    BY <1>5, <1>t DEF WriteRegion
  <2>2. maybe' = {snap'[holder']} /\ holder' # Nobody
    BY <2>1 DEF OneImage
  <2>. QED
    BY <2>1, <2>2, <1>t DEF OneImage, InFlight
<1>6. ASSUME NEW t \in Persisters, Flip(t)
      PROVE  OneImage(N)'
  <2>1. /\ UNCHANGED <<mem, snap>> /\ acked' = snap[t] /\ maybe' = {} /\ holder' = Nobody
        /\ pc[t] = "sb" /\ pc'[t] \in {"idle", "install", "moving"}
        /\ pc'[t] = "install" => t = Compactor /\ finalizing
        /\ t = Compactor /\ finalizing => pc'[t] = "install"
        /\ \A u \in Persisters \ {t} : pc'[u] = pc[u]
    BY <1>6, <1>t DEF Flip
  <2>2. InFlight(t) /\ snap[t].gen >= wm
    BY <2>1 DEF InFlight, Writing, PersistInv, WatermarkInv
  <2>3. pc[Compactor] = "install" => t = Compactor
    BY <2>2, <1>t, <1>f
  <2>4. pc'[Compactor] = "install" => acked' = snap'[Compactor]
    BY <2>1, <2>3, <1>t
  <2>5. acked'.gen = mem'.gen => acked' = mem'
    BY <2>1, <2>2 DEF OneImage
  <2>6. \A u \in Persisters : InFlight(u)' => InFlight(u) /\ u # t
    BY <2>1 DEF InFlight
  <2>. QED
    BY <2>1, <2>2, <2>4, <2>5, <2>6, <1>t DEF OneImage
<1>7. CASE CompactRound
  <2>1. /\ UNCHANGED <<mem, acked, maybe, holder>> /\ pc[Compactor] = "moving"
        /\ pc'[Compactor] = "snapped" /\ snap'[Compactor].gen = mem.gen + 1
        /\ \A u \in Persisters \ {Compactor} : pc'[u] = pc[u] /\ snap'[u] = snap[u]
    BY <1>7, <1>t DEF CompactRound
  <2>2. \A u \in Persisters \ {Compactor} : InFlight(u) => snap[u].gen < mem.gen + 1
    BY <1>f, <1>t
  <2>3. acked.gen < mem.gen + 1
    BY <2>1, <1>f, <1>t
  <2>4. holder # Compactor
    BY <2>1, <1>t DEF PersistInv, LockInv, Writing
  <2>5. UNCHANGED maybe /\ (holder # Nobody => snap'[holder] = snap[holder])
    BY <2>1, <2>4, <1>t
  <2>6. maybe' = IF holder' = Nobody THEN {} ELSE {snap'[holder']}
    BY <2>1, <2>5 DEF OneImage
  <2>7. \A u \in Persisters : InFlight(u)' => u = Compactor \/ (InFlight(u) /\ snap'[u] = snap[u])
    BY <2>1 DEF InFlight
  <2>8. acked'.gen = mem'.gen /\ mem'.len \in N => acked' = mem'
    BY <2>1 DEF OneImage
  <2>9. pc'[Compactor] # "install" /\ mem'.gen # snap'[Compactor].gen
    BY <2>1, <1>t
  <2>10. \A u \in Persisters : InFlight(u)' =>
           /\ snap'[u].gen = mem'.gen => snap'[u] = mem'
           /\ snap'[u].gen = acked'.gen => snap'[u] = acked'
    BY <2>1, <2>3, <2>7, <2>9, <1>t DEF OneImage
  <2>11. \A u, v \in Persisters :
           InFlight(u)' /\ InFlight(v)' /\ snap'[v].gen = snap'[u].gen => snap'[v] = snap'[u]
    BY <2>1, <2>2, <2>7, <1>t DEF OneImage
  <2>. QED
    BY <2>6, <2>8, <2>9, <2>10, <2>11 DEF OneImage
<1>8. CASE Install
  <2>1. /\ UNCHANGED <<acked, maybe, holder, snap>> /\ mem' = snap[Compactor]
        /\ pc[Compactor] = "install" /\ pc'[Compactor] = "moving"
        /\ \A u \in Persisters \ {Compactor} : pc'[u] = pc[u]
    BY <1>8, <1>t DEF Install
  <2>2. \A u \in Persisters : InFlight(u)' => InFlight(u) /\ u # Compactor
    BY <2>1 DEF InFlight
  <2>3. \A u \in Persisters : InFlight(u)' => snap[u].gen < mem'.gen
    BY <2>1, <2>2, <1>f, <1>t
  <2>4. acked' = mem'
    BY <2>1 DEF OneImage
  <2>. QED
    BY <2>1, <2>2, <2>3, <2>4, <1>t DEF OneImage
<1>. QED
  BY <1>1, <1>2, <1>3, <1>4, <1>5, <1>6, <1>7, <1>8 DEF WorkNext
-----------------------------------------------------------------------------
(***************************************************************************)
(* What a write or a crash leaves in the file, and what an open finds.     *)
(***************************************************************************)
LEMMA PutOnly ==
    ASSUME NEW s \in Seq(Slot), NEW d \in 1..(Len(s) + 1), NEW img \in Image,
           NEW state \in {"ok", "bad", "stuck"}, NEW i \in DOMAIN Put(s, d, img, state)
    PROVE  \/ i = d /\ Put(s, d, img, state)[i] = Stored(img, state)
           \/ i \in DOMAIN s /\ i # d /\ Put(s, d, img, state)[i] = s[i]
<1>1. Stored(img, state) \in Slot
  BY StoredType
<1>2. CASE d = Len(s) + 1
  BY <1>1, <1>2 DEF Put
<1>3. CASE d # Len(s) + 1
  BY <1>1, <1>3 DEF Put
<1>. QED
  BY <1>2, <1>3

\* A writer has the lock and an image that may come to be durable.
LEMMA WriterIs ==
    ASSUME PersistInv, NEW t \in Persisters, Writing(t)
    PROVE  /\ holder = t /\ t # Nobody /\ snap[t] \in Image /\ snap[t].gen \in Nat
           /\ acked.gen \in Nat /\ acked.gen <= snap[t].gen /\ InFlight(t)
           /\ dest \in 1..(Len(slots) + 1) /\ dest # active
           /\ pc[t] = "sb" => dest \in DOMAIN slots /\ slots[dest] = Stored(snap[t], "ok")
<1>1. holder = t /\ t # Nobody
  BY PersistAssumption DEF PersistInv, LockInv
<1>2. snap[t] \in Image /\ snap[t].gen \in Nat /\ acked.gen \in Nat
  BY DEF PersistInv, TypeOK, Image
<1>3. acked.gen <= snap[t].gen /\ InFlight(t)
  BY DEF PersistInv, WatermarkInv, Writing, InFlight
<1>. QED
  BY <1>1, <1>2, <1>3 DEF PersistInv, SlotInv

\* The region that was being written when the process stopped.
Torn(i) ==
    /\ holder \in Persisters /\ Writing(holder) /\ pc[holder] = "region" /\ i = dest
    /\ \E state \in {"ok", "bad", "stuck"} :
           /\ slots'[i] = Stored(snap[holder], state)
           /\ state = "stuck" => "stuck" \in Tears /\ i = Len(slots) + 1

LEMMA CrashLeaves ==
    ASSUME PersistInv, Crash
    PROVE  /\ up /\ ~up' /\ UNCHANGED <<acked, maybe, pc, snap, holder, dest, mem, active, inactive, fails>>
           /\ active \in DOMAIN slots' /\ slots'[active] = slots[active]
           /\ slots' \in Seq(Slot)
           /\ \A i \in DOMAIN slots' : (i \in DOMAIN slots /\ slots'[i] = slots[i]) \/ Torn(i)
           /\ \/ sb' = sb
              \/ /\ holder \in Persisters /\ Writing(holder) /\ pc[holder] = "sb"
                 /\ slots' = slots /\ sb' \in {snap[holder].gen, NoGen}
<1>1. /\ up /\ ~up' /\ UNCHANGED <<acked, maybe, pc, snap, holder, dest, mem, active, inactive, fails>>
  BY DEF Crash, ghostVars, stepVars, layoutVars
<1>2. CASE holder = Nobody
  BY <1>1, <1>2 DEF Crash, fileVars, PersistInv, TypeOK, AckedIntact
<1>3. CASE holder # Nobody
  <2>1. holder \in Persisters /\ Writing(holder) /\ CutShort(holder) /\ slots \in Seq(Slot)
    BY <1>3 DEF Crash, PersistInv, TypeOK, LockInv
  <2>2. CASE pc[holder] = "sb"
    BY <1>1, <2>1, <2>2 DEF CutShort, AfterSbWrite, PersistInv, AckedIntact
  <2>3. CASE pc[holder] = "region"
    <3>1. sb' = sb /\ slots' \in AfterRegionWrite(slots, dest, snap[holder], Tears)
      BY <2>1, <2>3 DEF CutShort
    <3>2. active \in DOMAIN slots' /\ slots'[active] = slots[active] /\ slots' \in Seq(Slot)
      BY <2>1, CutShortFacts
    <3>3. \/ slots' = slots
          \/ \E state \in {"ok", "bad", "stuck"} :
                 /\ slots' = Put(slots, dest, snap[holder], state)
                 /\ state = "stuck" => "stuck" \in Tears /\ dest = Len(slots) + 1
      BY <3>1 DEF AfterRegionWrite
    <3>4. \A i \in DOMAIN slots' : (i \in DOMAIN slots /\ slots'[i] = slots[i]) \/ Torn(i)
      <4>1. CASE slots' = slots
        BY <4>1
      <4>2. ASSUME NEW state \in {"ok", "bad", "stuck"},
                   slots' = Put(slots, dest, snap[holder], state),
                   state = "stuck" => "stuck" \in Tears /\ dest = Len(slots) + 1,
                   NEW i \in DOMAIN slots'
            PROVE  (i \in DOMAIN slots /\ slots'[i] = slots[i]) \/ Torn(i)
        <5>1. snap[holder] \in Image /\ dest \in 1..(Len(slots) + 1)
          BY <2>1, WriterIs
        <5>2. \/ i = dest /\ slots'[i] = Stored(snap[holder], state)
              \/ i \in DOMAIN slots /\ slots'[i] = slots[i]
          BY <4>2, <5>1, <2>1, PutOnly
        <5>. QED
          BY <2>1, <2>3, <4>2, <5>2 DEF Torn
      <4>. QED
        BY <3>3, <4>1, <4>2
    <3>. QED
      BY <1>1, <3>1, <3>2, <3>4
  <2>. QED
    BY <2>1, <2>2, <2>3 DEF Writing
<1>. QED
  BY <1>2, <1>3

\* The slot an open takes is that of an image in D, if those that the SuperBlock names
\* are and, when it names none, all that are no older than one that is found.
LEMMA BestIs ==
    ASSUME NEW super \in Nat, NEW s \in Seq(Slot), NEW D, NEW a \in Parsed(s),
           \A i \in Parsed(s) : s[i].gen = super => ImageOf(s[i]) \in D,
           (\A i \in Parsed(s) : s[i].gen # super)
             => \A i \in Parsed(s) : s[i].gen >= s[a].gen => ImageOf(s[i]) \in D,
           NEW b, IsBest(super, s, b)
    PROVE  ImageOf(s[b]) \in D
<1>. DEFINE match == {i \in Parsed(s) : s[i].gen = super}
<1>1. b \in Parsed(s)
  BY DEF IsBest
<1>2. CASE match # {}
  BY <1>1, <1>2 DEF IsBest
<1>3. CASE match = {}
  <2>1. b # a => s[a].gen < s[b].gen \/ s[a].gen = s[b].gen
    BY <1>3 DEF IsBest
  <2>2. s[a] \in Slot /\ s[b] \in Slot
    BY <1>1 DEF Parsed, Scanned
  <2>3. s[b].gen >= s[a].gen
    BY <2>1, <2>2 DEF Slot
  <2>. QED
    BY <1>1, <1>3, <2>3
<1>. QED
  BY <1>2, <1>3

\* The images a session makes.
LEMMA PresentWork == PersistInv /\ Present /\ WorkNext =>
    /\ acked'.gen >= 1 /\ (acked'.gen = 1 => acked' = Fresh)
    /\ mem'.gen >= 1 /\ (mem'.gen = 1 => mem' = Fresh)
    /\ \A t \in Persisters : snap'[t].gen >= 1 /\ (snap'[t].gen = 1 => snap'[t] = Fresh)
<1>. SUFFICES ASSUME PersistInv, Present, WorkNext
              PROVE  /\ acked'.gen >= 1 /\ (acked'.gen = 1 => acked' = Fresh)
                     /\ mem'.gen >= 1 /\ (mem'.gen = 1 => mem' = Fresh)
                     /\ \A t \in Persisters : snap'[t].gen >= 1 /\ (snap'[t].gen = 1 => snap'[t] = Fresh)
  OBVIOUS
<1>. USE PersistAssumption DEF fileVars, layoutVars, stepVars, ghostVars
<1>t. mem.gen \in Nat /\ snap \in [Persisters -> Image] /\ Compactor \in Persisters
  BY DEF PersistInv, TypeOK, Image, Persisters
<1>1. CASE UNCHANGED <<acked, mem, snap>>
  BY <1>1 DEF Present
<1>2. CASE Mutate
  BY <1>2, <1>t DEF Mutate, Present
<1>3. CASE \E t \in Persisters : Snapshot(t) \/ Flip(t)
  BY <1>3, <1>t DEF Snapshot, Flip, Present
<1>4. CASE CompactRound \/ Install
  BY <1>4, <1>t DEF CompactRound, Install, Present
<1>5. \/ UNCHANGED <<acked, mem, snap>> \/ Mutate \/ CompactRound \/ Install
      \/ \E t \in Persisters : Snapshot(t) \/ Flip(t)
  BY DEF WorkNext, CompactStart, CompactEnd, FlushCall, Refuse, WriteRegion, WriteSb
<1>. QED
  BY <1>1, <1>2, <1>3, <1>4, <1>5

\* The regions of a file after one of them was written, or left torn.
LEMMA PresentPut ==
    ASSUME PersistInv, Present, NEW t \in Persisters, Writing(t), NEW state \in {"ok", "bad", "stuck"},
           slots' = Put(slots, dest, snap[t], state)
    PROVE  \A i \in DOMAIN slots' :
               slots'[i].gen >= 1 /\ (slots'[i].gen = 1 => ImageOf(slots'[i]) = Fresh)
<1>1. slots \in Seq(Slot)
  BY DEF PersistInv, TypeOK
<1>2. /\ snap[t] \in Image /\ dest \in 1..(Len(slots) + 1)
      /\ snap[t].gen >= 1 /\ (snap[t].gen = 1 => snap[t] = Fresh)
  BY WriterIs DEF Present
<1>3. \A i \in DOMAIN slots' :
         slots'[i] = Stored(snap[t], state) \/ (i \in DOMAIN slots /\ slots'[i] = slots[i])
  BY <1>1, <1>2, PutOnly
<1>4. ImageOf(Stored(snap[t], state)) = snap[t] /\ Stored(snap[t], state).gen = snap[t].gen
  BY <1>2, StoredType DEF Stored
<1>. QED
  BY <1>2, <1>3, <1>4 DEF Present

LEMMA PresentKept == PersistInv /\ Present /\ [Next]_vars => Present'
<1>. SUFFICES ASSUME PersistInv, Present, [Next]_vars PROVE Present'
  OBVIOUS
<1>. USE DEF fileVars, layoutVars, stepVars, ghostVars
<1>1. CASE UNCHANGED <<slots, acked, mem, snap>>
  BY <1>1 DEF Present
<1>2. CASE WorkNext
  <2>1. CASE UNCHANGED slots
    BY <1>2, <2>1, PresentWork DEF Present
  <2>2. ASSUME NEW t \in Persisters, WriteSb(t)
        PROVE  Present'
    <3>1. Writing(t) /\ slots' = Put(slots, dest, snap[t], "ok")
      BY <2>2 DEF WriteSb, Writing
    <3>. QED
      BY <1>2, <3>1, PresentWork, PresentPut DEF Present
  <2>3. UNCHANGED slots \/ \E t \in Persisters : WriteSb(t)
    BY <1>2 DEF WorkNext, Mutate, CompactStart, CompactRound, Install, CompactEnd, FlushCall, Snapshot,
                Refuse, WriteRegion, Flip
  <2>. QED
    BY <2>1, <2>2, <2>3
<1>3. ASSUME NEW t \in Persisters, CutShort(t), UNCHANGED <<acked, mem, snap>>
      PROVE  Present'
  <2>1. slots' = slots \/ \E state \in {"ok", "bad", "stuck"} :
                             Writing(t) /\ slots' = Put(slots, dest, snap[t], state)
    BY <1>3 DEF CutShort, AfterRegionWrite, Writing
  <2>. QED
    BY <1>1, <1>3, <2>1, PresentPut DEF Present
<1>4. CASE Crash
  <2>1. UNCHANGED <<acked, mem, snap>> /\ (UNCHANGED slots \/ (holder \in Persisters /\ CutShort(holder)))
    BY <1>4 DEF Crash, PersistInv, TypeOK
  <2>. QED
    BY <2>1, <1>1, <1>3
<1>5. ASSUME NEW t \in Persisters, IoError(t)
      PROVE  Present'
  BY <1>3, <1>5 DEF IoError
<1>6. CASE Open
  <2>1. PICK b \in DOMAIN slots :
           /\ acked' = ImageOf(slots[b])
           /\ \E n \in {m \in Lens : m <= slots[b].len} : mem' = [ImageOf(slots[b]) EXCEPT !.len = n]
    BY <1>6 DEF Open
  <2>2. slots' = slots /\ snap' = [t \in Persisters |-> Fresh]
    BY <1>6 DEF Open
  <2>3. PICK n \in Lens : n <= slots[b].len /\ mem' = [ImageOf(slots[b]) EXCEPT !.len = n]
    BY <2>1
  <2>4. slots[b].gen >= 1 /\ (slots[b].gen = 1 => ImageOf(slots[b]) = Fresh)
    BY DEF Present
  <2>5. ImageOf(slots[b]).gen = slots[b].gen /\ ImageOf(slots[b]).len = slots[b].len
        /\ mem'.gen = slots[b].gen
    BY <2>3 DEF ImageOf
  <2>6. slots[b].gen = 1 => n = EmptyLen
    BY <2>3, <2>4, <2>5, PersistAssumption DEF Fresh
  <2>7. slots[b].gen = 1 => mem' = Fresh
    BY <2>3, <2>4, <2>6 DEF Fresh
  <2>8. Fresh.gen = 1
    BY DEF Fresh
  <2>. QED
    BY <2>1, <2>2, <2>4, <2>5, <2>7, <2>8 DEF Present
<1>7. UNCHANGED <<slots, acked, mem, snap>> \/ WorkNext \/ Crash \/ Open \/ \E t \in Persisters : IoError(t)
  BY NextIs DEF vars
<1>. QED
  BY <1>1, <1>2, <1>4, <1>5, <1>6, <1>7
-----------------------------------------------------------------------------
(***************************************************************************)
(* One crash, whatever the lengths of regions and the way they are torn.   *)
(***************************************************************************)
OneCrash == Faults \subseteq {0} \X (0..1)

LEMMA OnceInit == Init => OnceInv
<1>. SUFFICES ASSUME Init PROVE OnceInv
  OBVIOUS
<1>1. /\ slots = <<Stored(Fresh, "ok")>> /\ acked = Fresh /\ sb = 1 /\ up /\ maybe = {}
      /\ holder = Nobody /\ mem = Fresh /\ fails = 0 /\ crashes = 0
      /\ \A t \in Persisters : pc[t] = "idle" /\ snap[t] = Fresh
  BY DEF Init
<1>2. slots[1] = Stored(Fresh, "ok") /\ DOMAIN slots = {1}
  BY <1>1
<1>3. Present /\ Untorn
  BY <1>1, <1>2 DEF Present, Untorn, Stored, Fresh, ImageOf
<1>4. OneImage(Nat)
  BY <1>1 DEF OneImage, InFlight, Persisters
<1>. QED
  BY <1>1, <1>3, <1>4 DEF OnceInv, Fresh

\* While the first session lasts.
LEMMA UntornKept ==
    PersistInv /\ OneImage(Nat) /\ sb = acked.gen /\ Untorn /\ WorkNext => Untorn' /\ sb' = acked'.gen
<1>. SUFFICES ASSUME PersistInv, OneImage(Nat), sb = acked.gen, Untorn, WorkNext
              PROVE  Untorn' /\ sb' = acked'.gen
  OBVIOUS
<1>. USE DEF fileVars, layoutVars, stepVars, ghostVars
<1>t. slots \in Seq(Slot) /\ acked.gen \in Nat
  BY DEF PersistInv, TypeOK, Image
<1>1. CASE UNCHANGED <<sb, slots, acked, maybe>>
  BY <1>1 DEF Untorn
<1>2. CASE \E t \in Persisters : WriteRegion(t)
  BY <1>2 DEF WriteRegion, Untorn
<1>3. ASSUME NEW t \in Persisters, WriteSb(t)
      PROVE  Untorn' /\ sb' = acked'.gen
  <2>1. Writing(t) /\ slots' = Put(slots, dest, snap[t], "ok") /\ UNCHANGED <<sb, acked, maybe>>
    BY <1>3 DEF WriteSb, Writing
  <2>2. /\ snap[t] \in Image /\ dest \in 1..(Len(slots) + 1) /\ holder = t /\ t # Nobody
    BY <2>1, WriterIs
  <2>3. \A i \in DOMAIN slots' : slots'[i] = Stored(snap[t], "ok") \/ (i \in DOMAIN slots /\ slots'[i] = slots[i])
    BY <2>1, <2>2, <1>t, PutOnly
  <2>4. maybe = {snap[t]}
    BY <2>2 DEF OneImage
  <2>5. ImageOf(Stored(snap[t], "ok")) = snap[t] /\ Stored(snap[t], "ok").state = "ok"
    BY <2>2, StoredType DEF Stored
  <2>. QED
    BY <2>1, <2>3, <2>4, <2>5 DEF Untorn
<1>4. ASSUME NEW t \in Persisters, Flip(t)
      PROVE  Untorn' /\ sb' = acked'.gen
  <2>1. Writing(t) /\ slots' = slots /\ acked' = snap[t] /\ sb' = snap[t].gen /\ maybe' = {}
    BY <1>4 DEF Flip, Writing
  <2>2. holder = t /\ t # Nobody /\ snap[t].gen \in Nat /\ acked.gen <= snap[t].gen /\ InFlight(t)
    BY <2>1, WriterIs
  <2>3. ASSUME NEW i \in DOMAIN slots, slots[i].gen >= snap[t].gen
        PROVE  ImageOf(slots[i]) = snap[t]
    <3>0. slots[i] \in Slot
      BY <1>t
    <3>1. slots[i].gen \in Nat
      BY <3>0 DEF Slot
    <3>2. ImageOf(slots[i]) \in {acked, snap[t]}
      BY <1>t, <2>2, <2>3, <3>1 DEF Untorn, OneImage
    <3>3. acked = ImageOf(slots[i]) => acked.gen = slots[i].gen
      BY DEF ImageOf
    <3>4. snap[t].gen = acked.gen => snap[t] = acked
      BY <2>2 DEF OneImage
    <3>. QED
      BY <1>t, <2>2, <2>3, <3>1, <3>2, <3>3, <3>4
  <2>. QED
    BY <2>1, <2>3 DEF Untorn
<1>5. \/ UNCHANGED <<sb, slots, acked, maybe>>
      \/ \E t \in Persisters : WriteRegion(t) \/ WriteSb(t) \/ Flip(t)
  BY DEF WorkNext, Mutate, CompactStart, CompactRound, Install, CompactEnd, FlushCall, Snapshot, Refuse
<1>. QED
  BY <1>1, <1>2, <1>3, <1>4, <1>5

\* The first crash leaves the durable image or the one that was being written.
LEMMA OnceRecovers ==
    PersistInv /\ Present /\ OneImage(Nat) /\ sb = acked.gen /\ Untorn /\ Crash => Recovers'
<1>. SUFFICES ASSUME PersistInv, Present, OneImage(Nat), sb = acked.gen, Untorn, Crash,
                     NEW b \in DOMAIN slots', IsBest(sb', slots', b)
              PROVE  ImageOf(slots'[b]) \in {acked} \cup maybe
  BY CrashLeaves DEF Recovers
<1>. DEFINE D == {acked} \cup maybe
<1>t. slots \in Seq(Slot) /\ acked \in Image /\ acked.gen \in Nat /\ acked.gen >= 1
  BY DEF PersistInv, TypeOK, Image, Present
<1>1. ASSUME NEW i \in DOMAIN slots', Torn(i)
      PROVE  /\ ImageOf(slots'[i]) \in D /\ slots'[i].gen >= 1
             /\ slots'[i].state = "stuck" => i = Len(slots) + 1
  <2>1. PICK state \in {"ok", "bad", "stuck"} :
            /\ slots'[i] = Stored(snap[holder], state)
            /\ state = "stuck" => i = Len(slots) + 1
    BY <1>1 DEF Torn
  <2>2. snap[holder] \in Image /\ snap[holder].gen >= 1 /\ maybe = {snap[holder]}
    BY <1>1, <1>t, WriterIs DEF Torn, OneImage
  <2>3. ImageOf(slots'[i]) = snap[holder]
    BY <2>1, <2>2, StoredType
  <2>. QED
    BY <2>1, <2>2, <2>3 DEF Stored
<1>2. \A i \in DOMAIN slots' : slots'[i].gen >= acked.gen => ImageOf(slots'[i]) \in D
  BY <1>1, CrashLeaves DEF Untorn
<1>3. \A i \in DOMAIN slots' : slots'[i].gen >= 1 /\ slots'[i].gen \in Nat
  <2>1. \A i \in DOMAIN slots' : slots'[i] \in Slot
    BY CrashLeaves
  <2>. QED
    BY <1>1, <2>1, CrashLeaves DEF Present, Slot
<1>4. sb' \in Nat /\ (sb' = NoGen \/ sb' >= acked.gen)
  <2>1. CASE sb' = sb
    BY <2>1, <1>t
  <2>2. CASE sb' # sb
    BY <2>2, <1>t, CrashLeaves, WriterIs DEF NoGen
  <2>. QED
    BY <2>1, <2>2
<1>5. active \in Parsed(slots') /\ slots'[active].gen = acked.gen
  <2>1. active \in DOMAIN slots /\ slots[active] = Stored(acked, "ok")
    BY DEF PersistInv, AckedIntact
  <2>2. active \in DOMAIN slots' /\ slots'[active] = slots[active]
    BY CrashLeaves
  <2>3. ASSUME NEW j \in 1..active, slots'[j].state = "stuck"
        PROVE  FALSE
    <3>1. j \in DOMAIN slots /\ j \in DOMAIN slots' /\ j # Len(slots) + 1
      BY <1>t, <2>1, <2>2, CrashLeaves
    <3>. QED
      BY <1>1, <2>3, <3>1, CrashLeaves DEF Untorn
  <2>. QED
    BY <2>1, <2>2, <2>3 DEF Parsed, Scanned, Stored
<1>6. \A i \in Parsed(slots') : slots'[i].gen = sb' => ImageOf(slots'[i]) \in D
  BY <1>2, <1>3, <1>4 DEF Parsed, Scanned, NoGen
<1>7. \A i \in Parsed(slots') : slots'[i].gen >= slots'[active].gen => ImageOf(slots'[i]) \in D
  BY <1>2, <1>5 DEF Parsed, Scanned
<1>8. slots' \in Seq(Slot)
  BY CrashLeaves
<1>9. ImageOf(slots'[b]) \in D
  <2>. HIDE DEF D
  <2>. QED
    BY <1>4, <1>5, <1>6, <1>7, <1>8, BestIs
<1>. QED
  BY <1>9

LEMMA OnceKept == OneCrash /\ PersistInv /\ OnceInv /\ [Next]_vars => OnceInv'
<1>. SUFFICES ASSUME OneCrash, PersistInv, OnceInv, [Next]_vars PROVE OnceInv'
  OBVIOUS
<1>0. Present'
  BY PresentKept DEF OnceInv
<1>1. CASE UNCHANGED vars
  BY <1>0, <1>1 DEF vars, fileVars, layoutVars, stepVars, ghostVars, OnceInv, OneImage, InFlight,
                    Untorn, Recovers, IsBest, Parsed, Scanned
<1>2. CASE WorkNext
  <2>1. up /\ up' /\ UNCHANGED <<fails, crashes>>
    BY <1>2 DEF WorkNext, Mutate, CompactStart, CompactRound, Install, CompactEnd, FlushCall, Snapshot,
                Refuse, WriteRegion, WriteSb, Flip
  <2>2. Written(Nat)'
    BY NextInv DEF PersistInv, TypeOK, Image, Written
  <2>3. crashes = 0 => OneImage(Nat)' /\ Untorn' /\ sb' = acked'.gen
    BY <1>2, <2>1, <2>2, OneImageKept, UntornKept DEF OnceInv
  <2>. QED
    BY <1>0, <2>1, <2>3 DEF OnceInv
<1>3. CASE Crash
  <2>1. crashes' \in {0, 1} /\ crashes' = crashes + 1 /\ up /\ ~up' /\ fails' = fails
    BY <1>3 DEF Crash, OneCrash
  <2>2. crashes = 0 /\ crashes' = 1
    BY <2>1 DEF OnceInv
  <2>. QED
    BY <1>0, <1>3, <2>1, <2>2, OnceRecovers DEF OnceInv
<1>4. CASE Open
  <2>1. ~up /\ up' /\ UNCHANGED <<fails, crashes>>
    BY <1>4 DEF Open
  <2>. QED
    BY <1>0, <2>1 DEF OnceInv
<1>5. CASE \E t \in Persisters : IoError(t)
  BY <1>5 DEF IoError, OneCrash, OnceInv
<1>. QED
  BY <1>1, <1>2, <1>3, <1>4, <1>5, NextIs

\* A process that stops once, at any point of any flush or compaction, with regions of
\* any lengths and writes torn in any way, finds the index that was durable or one that
\* was being made durable: the index file implements VfsDurable.
THEOREM OneCrashImplements == OneCrash => (Spec => ImplementsDurable)
<1>. SUFFICES ASSUME OneCrash PROVE Spec => ImplementsDurable
  OBVIOUS
<1>1. Spec => []OnceInv
  BY OnceInit, OnceKept, PersistInvHolds, PTL DEF Spec
<1>2. Init => Durable!DurableInit
  BY DEF Init, Durable!DurableInit
<1>3. PersistInv /\ Begun /\ OnceInv /\ [Next]_vars => [Durable!DurableNext]_<<up, acked, maybe>>
  BY StepImplements, OpenImplements DEF OnceInv, durableVars, Open
<1>. QED
  BY <1>1, <1>2, <1>3, PersistInvHolds, BegunHolds, PTL DEF Spec, ImplementsDurable, Durable!DurableSpec
-----------------------------------------------------------------------------
(***************************************************************************)
(* Any number of crashes, when the regions that are persisted have one     *)
(* length L and none of them is torn so that the scan stops.               *)
(***************************************************************************)
CrashesOnly == "stuck" \notin Tears /\ Faults \subseteq {0} \X Nat

LEMMA FirstIs ==
    ASSUME NEW L \in Lens
    PROVE  /\ L \in Nat /\ EmptyLen \in Nat /\ First(L) \in {0, 1} /\ Fixed(L) \in {First(L), First(L) + 1}
           /\ First(L) = 1 => EmptyLen < L
  BY PersistAssumption DEF First, Fixed

\* What the positions of the slots in use are.
LEMMA SlotsAre ==
    ASSUME NEW L \in Lens, PersistInv, TwoSlots(L), Present
    PROVE  /\ slots \in Seq(Slot) /\ DOMAIN slots = 1..Len(slots) /\ Len(slots) \in Nat
           /\ active \in DOMAIN slots /\ inactive \in 0..Len(slots) /\ inactive # active
           /\ acked \in Image /\ acked.gen \in Nat /\ acked.gen >= 1
           /\ slots[active].state = "ok" /\ slots[active].gen = acked.gen
           /\ ImageOf(slots[active]) = acked
           /\ \A i \in DOMAIN slots : i <= First(L) =>
                  ImageOf(slots[i]) = acked \/ slots[i].gen < acked.gen
<1>1. /\ slots \in Seq(Slot) /\ acked \in Image /\ active \in DOMAIN slots
      /\ slots[active] = Stored(acked, "ok") /\ inactive \in 0..Len(slots) /\ inactive # active
  BY DEF PersistInv, TypeOK, AckedIntact, SlotInv
<1>2. acked.gen \in Nat /\ acked.gen >= 1 /\ (acked.gen = 1 => acked = Fresh)
  BY <1>1 DEF Image, Present
<1>3. ImageOf(slots[active]) = acked
  BY <1>1, StoredType
<1>4. ASSUME NEW i \in DOMAIN slots, i <= First(L)
      PROVE  ImageOf(slots[i]) = acked \/ slots[i].gen < acked.gen
  <2>1. slots[i] = Stored(Fresh, "ok")
    BY <1>4 DEF TwoSlots
  <2>2. Fresh \in Image /\ Fresh.gen = 1
    BY PersistAssumption DEF Fresh, Image
  <2>3. ImageOf(slots[i]) = Fresh /\ slots[i].gen = 1
    <3>1. ImageOf(slots[i]) = Fresh
      BY <2>1, <2>2, StoredType
    <3>. QED
      BY <2>1, <2>2, <3>1 DEF Stored
  <2>. QED
    BY <1>2, <2>3
<1>5. DOMAIN slots = 1..Len(slots) /\ Len(slots) \in Nat
  BY <1>1
<1>6. slots[active].state = "ok" /\ slots[active].gen = acked.gen
  BY <1>1 DEF Stored
<1>. QED
  BY <1>1, <1>2, <1>3, <1>4, <1>5, <1>6

LEMMA SwapInit ==
    ASSUME NEW L \in Lens, Init
    PROVE  SwapInv(L)
<1>1. /\ slots = <<Stored(Fresh, "ok")>> /\ acked = Fresh /\ sb = 1 /\ up /\ maybe = {}
      /\ holder = Nobody /\ mem = Fresh /\ fails = 0 /\ active = 1 /\ inactive = 0
      /\ \A t \in Persisters : pc[t] = "idle" /\ snap[t] = Fresh
  BY DEF Init
<1>2. slots[1] = Stored(Fresh, "ok") /\ DOMAIN slots = {1} /\ Len(slots) = 1
  BY <1>1
<1>3. Fresh \in Image /\ Fresh.gen = 1 /\ Fresh.len = EmptyLen
  BY PersistAssumption DEF Fresh, Image
<1>4. ImageOf(slots[1]) = Fresh /\ slots[1].gen = 1 /\ slots[1].len = EmptyLen /\ slots[1].state = "ok"
  <2>1. ImageOf(slots[1]) = Fresh
    BY <1>2, <1>3, StoredType
  <2>. QED
    BY <1>2, <1>3, <2>1 DEF Stored
<1>5. Fixed(L) = 1
  BY <1>1 DEF Fixed, First
<1>6. TwoSlots(L) /\ Turns(L)
  BY <1>1, <1>2, <1>4, <1>5, FirstIs DEF TwoSlots, Turns, First
<1>7. Present /\ Behind
  BY <1>1, <1>2, <1>3, <1>4 DEF Present, Behind
<1>8. OneImage({L})
  BY <1>1, PersistAssumption DEF OneImage, InFlight, Persisters
<1>. QED
  BY <1>1, <1>3, <1>6, <1>7, <1>8 DEF SwapInv

\* The steps of a session that leave the file and the writer alone.
LEMMA SwapStays ==
    ASSUME NEW L, TwoSlots(L), Turns(L), Behind,
           UNCHANGED <<sb, slots, acked, maybe, active, inactive, holder, dest>>,
           \A t \in Persisters : pc'[t] = "sb" <=> pc[t] = "sb"
    PROVE  TwoSlots(L)' /\ Turns(L)' /\ Behind'
<1>1. TwoSlots(L)'
  BY DEF TwoSlots, Fixed
<1>2. Turns(L)' /\ Behind'
  BY DEF Turns, Behind, Fixed
<1>. QED
  BY <1>1, <1>2

LEMMA SwapWork ==
    ASSUME NEW L \in Lens, PersistInv, SwapInv(L), up, WorkNext, Written({L})
    PROVE  TwoSlots(L)' /\ Turns(L)' /\ Behind' /\ sb' \in {acked'.gen, NoGen}
<1>. USE DEF fileVars, layoutVars, stepVars, ghostVars, Goto, Return
<1>i. /\ TwoSlots(L) /\ Turns(L) /\ Behind /\ OneImage({L}) /\ sb \in {acked.gen, NoGen} /\ Present
  BY DEF SwapInv
<1>s. /\ slots \in Seq(Slot) /\ DOMAIN slots = 1..Len(slots) /\ Len(slots) \in Nat
      /\ active \in DOMAIN slots /\ inactive \in 0..Len(slots) /\ inactive # active
      /\ acked \in Image /\ acked.gen \in Nat /\ acked.gen >= 1
      /\ slots[active].state = "ok" /\ slots[active].gen = acked.gen
      /\ ImageOf(slots[active]) = acked
  BY <1>i, SlotsAre
<1>p. \A i \in DOMAIN slots : i <= First(L) => ImageOf(slots[i]) = acked \/ slots[i].gen < acked.gen
  BY <1>i, SlotsAre
<1>f. /\ First(L) \in {0, 1} /\ Fixed(L) \in {First(L), First(L) + 1}
      /\ First(L) = 1 => EmptyLen < L
      /\ active <= First(L) => Fixed(L) = First(L)
      /\ active > First(L) => Fixed(L) = First(L) + 1
      /\ L \in Nat /\ EmptyLen \in Nat
  BY <1>s, FirstIs DEF Fixed
<1>t. /\ pc \in [Persisters -> {"idle", "called", "snapped", "region", "sb", "install", "moving"}]
      /\ Compactor \in Persisters /\ Flushers \subseteq Persisters /\ Nobody \notin Persisters
  BY PersistAssumption DEF PersistInv, TypeOK, Persisters
<1>1. CASE CompactStart \/ CompactEnd \/ Install \/ Mutate \/ CompactRound
           \/ (\E t \in Flushers : FlushCall(t)) \/ (\E t \in Persisters : Snapshot(t) \/ Refuse(t))
  <2>1. /\ UNCHANGED <<sb, slots, acked, maybe, active, inactive, holder, dest>>
        /\ \A t \in Persisters : pc'[t] = "sb" <=> pc[t] = "sb"
    BY <1>1, <1>t DEF CompactStart, CompactEnd, Install, Mutate, CompactRound, FlushCall, Snapshot, Refuse
  <2>. QED
    BY <2>1, <1>i, SwapStays
<1>2. ASSUME NEW t \in Persisters, WriteRegion(t)
      PROVE  TwoSlots(L)' /\ Turns(L)' /\ Behind' /\ sb' \in {acked'.gen, NoGen}
  <2>1. /\ UNCHANGED <<sb, slots, acked, active, inactive>>
        /\ holder = Nobody /\ dest' = Dest(slots, inactive, snap[t])
        /\ maybe \subseteq maybe' /\ pc[t] = "snapped" /\ pc'[t] = "region"
        /\ \A u \in Persisters \ {t} : pc'[u] = pc[u]
    BY <1>2, <1>t DEF WriteRegion
  <2>2. \A u \in Persisters : pc[u] # "sb" /\ pc'[u] # "sb"
    BY <2>1, <1>t DEF PersistInv, LockInv, Writing
  <2>3. snap[t].len = L
    BY <2>1 DEF Written, InFlight
  <2>4. First(L) < dest' /\ dest' <= Fixed(L) + 1
    <3>1. CASE inactive > First(L)
      <4>1. slots[inactive].len = L /\ Len(slots) = Fixed(L) + 1
        BY <3>1, <1>i, <1>s, <1>f DEF TwoSlots, Turns
      <4>. QED
        BY <2>1, <2>3, <3>1, <4>1, <1>s, <1>f DEF Dest
    <3>2. CASE inactive <= First(L)
      <4>1. Len(slots) = Fixed(L)
        BY <3>2, <2>2, <1>i DEF Turns
      <4>2. inactive # 0 => slots[inactive].len = EmptyLen /\ EmptyLen < L
        BY <3>2, <1>i, <1>s, <1>f DEF TwoSlots, Stored, Fresh
      <4>3. dest' = Len(slots) + 1
        BY <2>1, <2>3, <4>2, <1>f DEF Dest
      <4>. QED
        BY <4>1, <4>3, <1>f
    <3>. QED
      BY <3>1, <3>2, <1>s, <1>f
  <2>5. TwoSlots(L)'
    BY <2>1, <2>4, <1>i DEF TwoSlots, Fixed
  <2>6. Turns(L)' /\ Behind'
    BY <2>1, <2>2, <1>i DEF Turns, Behind, Fixed
  <2>. QED
    BY <2>1, <2>5, <2>6, <1>i
<1>3. ASSUME NEW t \in Persisters, WriteSb(t)
      PROVE  TwoSlots(L)' /\ Turns(L)' /\ Behind' /\ sb' \in {acked'.gen, NoGen}
  <2>1. /\ UNCHANGED <<sb, acked, maybe, active, inactive, holder, dest>>
        /\ slots' = Put(slots, dest, snap[t], "ok") /\ Writing(t) /\ pc'[t] = "sb"
    BY <1>3, <1>t DEF WriteSb, Writing
  <2>2. /\ snap[t] \in Image /\ dest \in 1..(Len(slots) + 1) /\ dest # active
        /\ holder = t /\ t # Nobody /\ snap[t].len = L
    BY <2>1, WriterIs DEF Written
  <2>3. slots' \in Seq(Slot) /\ Len(slots) <= Len(slots') /\ dest \in DOMAIN slots'
    BY <2>1, <2>2, <1>s, PutFacts
  <2>4. \A i \in DOMAIN slots' : \/ i = dest /\ slots'[i] = Stored(snap[t], "ok")
                                 \/ i \in DOMAIN slots /\ i # dest /\ slots'[i] = slots[i]
    BY <2>1, <2>2, <1>s, PutOnly
  <2>5. First(L) < dest /\ dest <= Fixed(L) + 1 /\ Len(slots) <= Fixed(L) + 1
    BY <2>2, <1>i DEF TwoSlots
  <2>6. DOMAIN slots' = 1..Len(slots') /\ Len(slots') \in Nat
    BY <2>3
  <2>7. Len(slots') <= Fixed(L) + 1
    <3>1. Len(slots') > Fixed(L) + 1 => Len(slots') \in DOMAIN slots'
      BY <2>6, <1>f
    <3>. QED
      BY <2>4, <2>5, <2>6, <3>1, <1>s, <1>f
  <2>8. TwoSlots(L)'
    <3>1. Stored(snap[t], "ok").state = "ok" /\ Stored(snap[t], "ok").len = L
      BY <2>2 DEF Stored
    <3>2. ASSUME NEW i \in DOMAIN slots'
          PROVE  /\ slots'[i].state # "stuck"
                 /\ i <= First(L) => slots'[i] = Stored(Fresh, "ok")
                 /\ i > First(L) => slots'[i].len = L
      <4>1. CASE i = dest
        <5>1. slots'[i] = Stored(snap[t], "ok")
          BY <2>4, <4>1
        <5>2. ~(i <= First(L))
          BY <2>5, <2>2, <4>1, <1>f
        <5>. QED
          BY <3>1, <5>1, <5>2
      <4>2. CASE i # dest
        <5>1. i \in DOMAIN slots /\ slots'[i] = slots[i]
          BY <2>4, <4>2
        <5>. QED
          BY <5>1, <1>i DEF TwoSlots
      <4>. QED
        BY <4>1, <4>2
    <3>. QED
      BY <2>1, <2>5, <2>7, <3>2 DEF TwoSlots, Fixed
  <2>9. Turns(L)'
    BY <2>1, <2>3, <2>6, <2>7, <1>i, <1>f, <1>s DEF Turns, Fixed
  <2>10. Behind'
    <3>1. ASSUME NEW i \in DOMAIN slots' \ {active}
          PROVE  ImageOf(slots'[i]) \in {acked} \cup maybe \/ slots'[i].gen < acked.gen
      <4>1. CASE i = dest
        <5>1. slots'[i] = Stored(snap[t], "ok") /\ maybe = {snap[t]}
          BY <2>2, <2>4, <4>1, <1>i DEF OneImage
        <5>. QED
          BY <2>2, <5>1, StoredType
      <4>2. CASE i # dest
        <5>1. i \in DOMAIN slots /\ slots'[i] = slots[i]
          BY <2>4, <4>2
        <5>2. i <= First(L)
          BY <2>2, <2>5, <4>2, <5>1, <1>s, <1>f
        <5>. QED
          BY <5>1, <5>2, <1>p
      <4>. QED
        BY <4>1, <4>2
    <3>. QED
      BY <2>1, <3>1 DEF Behind
  <2>. QED
    BY <2>1, <2>8, <2>9, <2>10, <1>i
<1>4. ASSUME NEW t \in Persisters, Flip(t)
      PROVE  TwoSlots(L)' /\ Turns(L)' /\ Behind' /\ sb' \in {acked'.gen, NoGen}
  <2>1. /\ UNCHANGED slots /\ holder' = Nobody
        /\ sb' = snap[t].gen /\ acked' = snap[t] /\ maybe' = {}
        /\ inactive' = active /\ active' = dest /\ Writing(t) /\ pc[t] = "sb"
    BY <1>4, <1>t DEF Flip, Writing
  <2>2. /\ snap[t].gen \in Nat /\ acked.gen <= snap[t].gen /\ dest # active /\ dest \in DOMAIN slots
        /\ InFlight(t) /\ holder = t /\ t # Nobody
    BY <2>1, WriterIs
  <2>3. First(L) < dest /\ dest <= Fixed(L) + 1 /\ Len(slots) <= Fixed(L) + 1
    BY <2>2, <1>i DEF TwoSlots
  <2>4. Fixed(L)' = First(L) + 1
    BY <2>1, <2>2, <2>3, <1>f, <1>s DEF Fixed
  <2>5. Len(slots) = Fixed(L) + 1
    BY <2>2, <2>3, <1>f, <1>s
  <2>6. TwoSlots(L)'
    BY <2>1, <2>3, <2>4, <1>f, <1>i, <1>s DEF TwoSlots
  <2>7. Turns(L)'
    BY <2>1, <2>4, <2>5, <1>f, <1>s DEF Turns
  <2>8. Behind'
    <3>1. \A i \in DOMAIN slots \ {dest} : ImageOf(slots[i]) = acked \/ slots[i].gen < acked.gen
      <4>1. \A i \in DOMAIN slots \ {dest} : i = active \/ i <= First(L)
        BY <2>2, <2>3, <1>f, <1>s
      <4>. QED
        BY <4>1, <1>p, <1>s
    <3>2. acked.gen = snap[t].gen => acked = snap[t]
      BY <2>2, <1>i DEF OneImage
    <3>3. \A i \in DOMAIN slots : slots[i].gen \in Nat /\ ImageOf(slots[i]).gen = slots[i].gen
      <4>1. \A i \in DOMAIN slots : slots[i] \in Slot
        BY <1>s
      <4>. QED
        BY <4>1 DEF Slot, ImageOf
    <3>4. \A i \in DOMAIN slots \ {dest} : ImageOf(slots[i]) = snap[t] \/ slots[i].gen < snap[t].gen
      BY <2>2, <3>1, <3>2, <3>3, <1>s
    <3>. QED
      BY <2>1, <3>4 DEF Behind
  <2>. QED
    BY <2>1, <2>6, <2>7, <2>8
<1>. QED
  BY <1>1, <1>2, <1>3, <1>4 DEF WorkNext

LEMMA SwapCrash ==
    ASSUME NEW L \in Lens, CrashesOnly, PersistInv, SwapInv(L), Crash, Written({L})
    PROVE  TwoSlots(L)' /\ Recovers' /\ Told' /\ \A img \in maybe' : img.len = L
<1>. DEFINE D == {acked} \cup maybe
<1>c. up /\ ~up' /\ UNCHANGED <<acked, maybe, pc, snap, holder, dest, mem, active, inactive>>
  BY CrashLeaves
<1>i. /\ TwoSlots(L) /\ Behind /\ OneImage({L}) /\ sb \in {acked.gen, NoGen} /\ Present
  BY <1>c DEF SwapInv
<1>t. /\ slots \in Seq(Slot) /\ DOMAIN slots = 1..Len(slots) /\ Len(slots) \in Nat
      /\ active \in DOMAIN slots
      /\ acked \in Image /\ acked.gen \in Nat /\ acked.gen >= 1
      /\ slots[active].state = "ok" /\ slots[active].gen = acked.gen
      /\ ImageOf(slots[active]) = acked
  BY <1>i, SlotsAre
<1>f. /\ First(L) \in {0, 1} /\ Fixed(L) \in {First(L), First(L) + 1}
      /\ active <= First(L) => Fixed(L) = First(L)
      /\ active > First(L) => Fixed(L) = First(L) + 1
  BY <1>t, FirstIs DEF Fixed
<1>s. slots' \in Seq(Slot) /\ DOMAIN slots' = 1..Len(slots') /\ Len(slots') \in Nat
  BY CrashLeaves
<1>a. /\ active \in DOMAIN slots' /\ slots'[active] = slots[active]
      /\ slots'[active].state = "ok" /\ slots'[active].gen = acked.gen
      /\ ImageOf(slots'[active]) = acked
  BY <1>t, CrashLeaves
<1>0. Present'
  BY <1>i, PresentKept DEF Next
<1>m. \A img \in maybe : img.len = L
  <2>1. maybe # {} => holder \in Persisters /\ InFlight(holder) /\ maybe = {snap[holder]}
    BY <1>i DEF OneImage, PersistInv, TypeOK, LockInv, Writing, InFlight
  <2>. QED
    BY <2>1 DEF Written
\* A region that was being written.
<1>1. ASSUME NEW i \in DOMAIN slots', Torn(i)
      PROVE  /\ slots'[i].state # "stuck" /\ slots'[i].len = L /\ i # active
             /\ First(L) < i /\ i <= Fixed(L) + 1
             /\ ImageOf(slots'[i]) \in maybe /\ slots'[i].gen >= acked.gen
             /\ slots'[i].gen = acked.gen => ImageOf(slots'[i]) = acked
  <2>1. PICK state \in {"ok", "bad", "stuck"} :
            /\ slots'[i] = Stored(snap[holder], state)
            /\ state = "stuck" => "stuck" \in Tears
    BY <1>1 DEF Torn
  <2>2. /\ holder \in Persisters /\ Writing(holder) /\ i = dest
    BY <1>1 DEF Torn
  <2>3. /\ holder # Nobody /\ snap[holder] \in Image /\ acked.gen <= snap[holder].gen
        /\ InFlight(holder) /\ dest # active
    BY <2>2, WriterIs
  <2>4. ImageOf(slots'[i]) = snap[holder]
    BY <2>1, <2>3, StoredType
  <2>5. maybe = {snap[holder]} /\ (snap[holder].gen = acked.gen => snap[holder] = acked)
    BY <2>2, <2>3, <1>i DEF OneImage
  <2>6. First(L) < i /\ i <= Fixed(L) + 1 /\ snap[holder].len = L
    BY <2>2, <2>3, <1>i DEF TwoSlots, Written
  <2>7. state # "stuck"
    BY <2>1 DEF CrashesOnly
  <2>8. /\ slots'[i].state = state /\ slots'[i].len = snap[holder].len
        /\ slots'[i].gen = snap[holder].gen
    BY <2>1 DEF Stored
  <2>. QED
    BY <2>2, <2>3, <2>4, <2>5, <2>6, <2>7, <2>8, <1>t
<1>2. Len(slots') <= Fixed(L) + 1
  <2>1. Len(slots') > Fixed(L) + 1 => Len(slots') \in DOMAIN slots'
    BY <1>s, <1>f
  <2>2. Len(slots) <= Fixed(L) + 1
    BY <1>i DEF TwoSlots
  <2>3. \A i \in DOMAIN slots' : i \in DOMAIN slots \/ i <= Fixed(L) + 1
    BY <1>1, CrashLeaves
  <2>. QED
    BY <1>f, <1>s, <1>t, <2>1, <2>2, <2>3
<1>3. TwoSlots(L)'
  <2>1. ASSUME NEW i \in DOMAIN slots'
        PROVE  /\ slots'[i].state # "stuck"
               /\ i <= First(L) => slots'[i] = Stored(Fresh, "ok")
               /\ i > First(L) => slots'[i].len = L
    <3>1. CASE Torn(i)
      <4>1. ~(i <= First(L))
        BY <1>1, <1>f, <1>s, <3>1
      <4>. QED
        BY <1>1, <3>1, <4>1
    <3>2. CASE ~Torn(i)
      BY <3>2, <1>i, CrashLeaves DEF TwoSlots
    <3>. QED
      BY <3>1, <3>2
  <2>2. UNCHANGED <<holder, dest, active>>
    BY <1>c
  <2>3. holder # Nobody => First(L) < dest /\ dest <= Fixed(L) + 1
    BY <1>i DEF TwoSlots
  <2>. QED
    BY <1>2, <2>1, <2>2, <2>3 DEF TwoSlots, Fixed
<1>g. \A i \in DOMAIN slots' : /\ slots'[i] \in Slot /\ slots'[i].gen \in Nat /\ slots'[i].gen >= 1
                               /\ slots'[i].gen = 1 => ImageOf(slots'[i]) = Fresh
  <2>1. \A i \in DOMAIN slots' : slots'[i] \in Slot
    BY <1>s
  <2>2. \A i \in DOMAIN slots' : slots'[i].gen \in Nat
    BY <2>1 DEF Slot
  <2>. QED
    BY <1>0, <2>1, <2>2 DEF Present
<1>p. \A i \in DOMAIN slots' : slots'[i].state = "ok" => i \in Parsed(slots')
  <2>1. \A i \in DOMAIN slots' : slots'[i].state # "stuck"
    BY <1>3 DEF TwoSlots
  <2>. QED
    BY <2>1, <1>s DEF Parsed, Scanned
\* What the SuperBlock then tells: that of a region in place, or nothing.
<1>4. /\ \A i \in DOMAIN slots' : slots'[i].state = "ok" /\ slots'[i].gen = sb' => ImageOf(slots'[i]) \in D
      /\ (\A i \in Parsed(slots') : slots'[i].gen # sb')
           => \A i \in DOMAIN slots' : slots'[i].state = "ok" /\ slots'[i].gen >= acked.gen
                                         => ImageOf(slots'[i]) \in D
      /\ sb' # NoGen => \E i \in DOMAIN slots' : slots'[i].state = "ok" /\ slots'[i].gen = sb'
  <2>1. CASE sb' = sb
    <3>1. ASSUME NEW i \in DOMAIN slots', slots'[i].state = "ok", i # active
          PROVE  \/ ImageOf(slots'[i]) \in D
                 \/ slots'[i].gen < acked.gen
                 \/ slots'[i].gen > acked.gen /\ sb = acked.gen
      BY <1>1, <3>1, <1>i, CrashLeaves DEF Behind
    <3>2. sb' # acked.gen => sb' = NoGen /\ sb = NoGen
      BY <2>1, <1>i
    <3>3. (\A i \in Parsed(slots') : slots'[i].gen # sb') => sb' # acked.gen
      BY <1>a, <1>p
    <3>4. NoGen = 0
      BY DEF NoGen
    <3>. HIDE DEF D
    <3>5. acked \in D
      BY DEF D
    <3>. QED
      BY <1>a, <1>g, <1>t, <2>1, <3>1, <3>2, <3>3, <3>4, <3>5
  <2>2. CASE sb' # sb
    <3>1. /\ holder \in Persisters /\ Writing(holder) /\ pc[holder] = "sb"
          /\ slots' = slots /\ sb' \in {snap[holder].gen, NoGen}
      BY <2>2, CrashLeaves
    <3>2. /\ acked.gen <= snap[holder].gen /\ snap[holder].gen \in Nat
          /\ dest \in DOMAIN slots /\ slots[dest] = Stored(snap[holder], "ok")
      BY <3>1, WriterIs
    <3>3. ASSUME NEW i \in DOMAIN slots', slots'[i].state = "ok", i # active
          PROVE  ImageOf(slots'[i]) \in D \/ slots'[i].gen < acked.gen
      BY <3>1, <3>3, <1>i DEF Behind
    <3>4. NoGen = 0 /\ (sb' = 0 \/ sb' >= acked.gen)
      BY <3>1, <3>2 DEF NoGen
    <3>5. dest \in DOMAIN slots' /\ slots'[dest].state = "ok" /\ slots'[dest].gen = snap[holder].gen
      BY <3>1, <3>2 DEF Stored
    <3>. HIDE DEF D
    <3>6. acked \in D
      BY DEF D
    <3>7. sb' \in Nat
      BY <3>1, <3>2 DEF NoGen
    <3>8. sb' # NoGen => sb' = snap[holder].gen
      BY <3>1
    <3>9. \A i \in DOMAIN slots' : slots'[i].state = "ok" /\ slots'[i].gen >= acked.gen
                                     => ImageOf(slots'[i]) \in D
      BY <1>a, <1>g, <1>t, <3>3, <3>6
    <3>. QED
      BY <1>g, <1>t, <3>4, <3>5, <3>7, <3>8, <3>9
  <2>. QED
    BY <2>1, <2>2
<1>5. Recovers'
  <2>1. ASSUME NEW b \in DOMAIN slots', IsBest(sb', slots', b)
        PROVE  ImageOf(slots'[b]) \in D
    <3>. HIDE DEF D
    <3>1. sb' \in Nat
      BY CrashInv DEF PersistInv, TypeOK
    <3>2. active \in Parsed(slots')
      BY <1>a, <1>p
    <3>3. \A i \in Parsed(slots') : i \in DOMAIN slots' /\ slots'[i].state = "ok"
      BY DEF Parsed, Scanned
    <3>. QED
      BY <1>4, <1>a, <1>s, <2>1, <3>1, <3>2, <3>3, BestIs
  <2>. QED
    BY <1>c, <2>1 DEF Recovers
<1>6. ASSUME NEW i \in DOMAIN slots', slots'[i].state = "ok", slots'[i].gen = acked.gen
      PROVE  ImageOf(slots'[i]) = acked
  <2>1. CASE i = active
    BY <1>a, <2>1
  <2>2. CASE i # active
    <3>1. Torn(i) => ImageOf(slots'[i]) = acked
      BY <1>1, <1>6
    <3>2. ~Torn(i) => ImageOf(slots'[i]) \in D
      <4>1. ~Torn(i) => i \in DOMAIN slots \ {active} /\ slots'[i] = slots[i]
        BY <2>2, CrashLeaves
      <4>. QED
        BY <4>1, <1>6, <1>t, <1>i DEF Behind
    <3>3. ImageOf(slots'[i]) \in maybe => ImageOf(slots'[i]) = acked
      <4>1. maybe # {} => holder \in Persisters /\ holder # Nobody /\ maybe = {snap[holder]}
        BY <1>i DEF OneImage, PersistInv, TypeOK
      <4>2. holder \in Persisters /\ holder # Nobody => InFlight(holder)
        BY DEF PersistInv, LockInv, Writing, InFlight
      <4>3. ImageOf(slots'[i]).gen = acked.gen
        BY <1>6 DEF ImageOf
      <4>. QED
        BY <4>1, <4>2, <4>3, <1>i DEF OneImage
    <3>. QED
      BY <3>1, <3>2, <3>3
  <2>. QED
    BY <2>1, <2>2
<1>7. ASSUME NEW i \in DOMAIN slots', NEW j \in DOMAIN slots',
             slots'[i].state = "ok", slots'[j].state = "ok", slots'[i].gen = slots'[j].gen
      PROVE  slots'[i] = slots'[j]
  <2>0. \A k \in DOMAIN slots' : k <= First(L) => slots'[k].gen = 1
    BY <1>3 DEF TwoSlots, Stored, Fresh
  <2>1. \/ slots'[i].gen = 1 \/ i = j \/ i = active \/ j = active
    BY <1>2, <1>7, <1>s, <1>a, <1>f, <2>0
  <2>2. ImageOf(slots'[i]) = ImageOf(slots'[j])
    BY <2>1, <1>6, <1>7, <1>a, <1>g
  <2>. QED
    BY <2>2, <1>7, <1>g, OkSlot
<1>8. Told'
  BY <1>4, <1>7 DEF Told
<1>. QED
  BY <1>3, <1>5, <1>8, <1>m, <1>c

LEMMA SwapOpen ==
    ASSUME NEW L \in Lens, PersistInv, SwapInv(L), Open
    PROVE  TwoSlots(L)' /\ Turns(L)' /\ OneImage({L})' /\ Behind' /\ sb' \in {acked'.gen, NoGen}
<1>1. PICK b \in DOMAIN slots :
         /\ IsBest(sb, slots, b)
         /\ active' = b
         /\ \E s \in 0..Len(slots) : IsSpare(slots, b, s) /\ inactive' = s
         /\ \E n \in {m \in Lens : m <= slots[b].len} :
                mem' = [ImageOf(slots[b]) EXCEPT !.len = n]
         /\ acked' = ImageOf(slots[b]) /\ maybe' = {}
  BY DEF Open
<1>2. /\ ~up /\ up' /\ UNCHANGED <<sb, slots>> /\ holder' = Nobody
      /\ pc' = [t \in Persisters |-> "idle"] /\ snap' = [t \in Persisters |-> Fresh]
  BY DEF Open, fileVars
<1>3. TwoSlots(L) /\ Told /\ Present /\ Recovers /\ \A img \in maybe : img.len = L
  BY <1>2 DEF SwapInv
<1>t. /\ slots \in Seq(Slot) /\ DOMAIN slots = 1..Len(slots) /\ Len(slots) \in Nat /\ sb \in Nat
      /\ active \in DOMAIN slots /\ ImageOf(slots[active]) = acked
  BY <1>3, SlotsAre DEF PersistInv, TypeOK
<1>g. \A i \in DOMAIN slots : slots[i] \in Slot /\ slots[i].gen \in Nat /\ slots[i].gen >= 1
  <2>1. \A i \in DOMAIN slots : slots[i] \in Slot
    BY <1>t
  <2>. QED
    BY <2>1, <1>3 DEF Present, Slot
<1>f. /\ First(L) \in {0, 1} /\ Fixed(L) \in {First(L), First(L) + 1}
      /\ First(L) = 1 => EmptyLen < L
      /\ active <= First(L) => Fixed(L) = First(L)
      /\ active > First(L) => Fixed(L) = First(L) + 1
      /\ b <= First(L) => Fixed(L)' = First(L)
      /\ b > First(L) => Fixed(L)' = First(L) + 1
      /\ L \in Nat /\ EmptyLen \in Nat
  BY <1>t, <1>1, FirstIs DEF Fixed
<1>p. Scanned(slots) = DOMAIN slots
  BY <1>3, <1>t DEF Scanned, TwoSlots
<1>l. \A i \in DOMAIN slots : slots[i].len = IF i <= First(L) THEN EmptyLen ELSE L
  BY <1>3, <1>f, <1>t DEF TwoSlots, Stored, Fresh
\* The empty region is loaded again only while nothing else was made durable.
<1>4. b <= First(L) => active <= First(L)
  <2>1. ImageOf(slots[b]) \in {acked} \cup maybe
    BY <1>1, <1>3 DEF Recovers
  <2>2. ImageOf(slots[b]).len = slots[b].len /\ acked.len = slots[active].len
    BY <1>t DEF ImageOf
  <2>3. slots[b].len = slots[active].len \/ slots[b].len = L
    BY <2>1, <2>2, <1>3
  <2>. QED
    BY <2>3, <1>f, <1>l, <1>t
<1>5. OneImage({L})'
  <2>1. PICK n \in Lens : n <= slots[b].len /\ mem' = [ImageOf(slots[b]) EXCEPT !.len = n]
    BY <1>1
  <2>2. mem'.len = n /\ (n = slots[b].len => mem' = acked')
    BY <1>1, <2>1 DEF ImageOf
  <2>3. n = L => slots[b].len = L
    BY <2>1, <1>f, <1>l, <1>t
  <2>. QED
    BY <1>1, <1>2, <2>2, <2>3, PersistAssumption DEF OneImage, InFlight, Persisters
<1>6. Len(slots) <= Fixed(L)' + 1
  BY <1>3, <1>4, <1>f, <1>t DEF TwoSlots
<1>7. TwoSlots(L)'
  BY <1>2, <1>3, <1>6 DEF TwoSlots
<1>8. Turns(L)'
  <2>1. inactive' \in 0..Len(slots) /\ IsSpare(slots, b, inactive')
    BY <1>1
  <2>2. inactive' = 0 => Len(slots) = 1
    <3>1. inactive' = 0 => DOMAIN slots \ {b} = {}
      BY <2>1, <1>p, <1>t DEF IsSpare
    <3>. QED
      BY <3>1, <1>t
  <2>3. inactive' # 0 => /\ inactive' # b
                         /\ \A i \in DOMAIN slots \ {b, inactive'} : slots[i].len <= slots[inactive'].len
    <3>1. ASSUME inactive' # 0
          PROVE  /\ inactive' # b
                 /\ \A i \in DOMAIN slots \ {b, inactive'} :
                       slots[i].len < slots[inactive'].len \/ slots[i].len = slots[inactive'].len
      BY <2>1, <3>1, <1>p DEF IsSpare
    <3>. QED
      BY <3>1, <1>f, <1>l, <2>1
  <2>4. CASE inactive' = 0
    BY <2>2, <2>4, <1>2, <1>f, <1>t DEF Turns
  <2>5. CASE inactive' # 0 /\ inactive' <= First(L)
    <3>1. b > First(L)
      BY <2>1, <2>3, <2>5, <1>f, <1>t
    <3>2. \A i \in DOMAIN slots : i <= First(L) \/ i = b
      BY <2>1, <2>3, <2>5, <1>f, <1>l, <1>t
    <3>3. Len(slots) = First(L) + 1
      <4>1. Len(slots) \in DOMAIN slots /\ First(L) + 1 \in DOMAIN slots
        BY <3>1, <1>f, <1>t
      <4>. QED
        BY <3>1, <3>2, <4>1, <1>f, <1>t
    <3>. QED
      BY <2>1, <2>5, <3>1, <3>3, <1>2, <1>f DEF Turns
  <2>6. CASE inactive' > First(L)
    <3>1. Len(slots) = Fixed(L)' + 1
      BY <2>1, <2>3, <2>6, <1>6, <1>f, <1>t
    <3>. QED
      BY <2>1, <2>6, <3>1, <1>2, <1>f DEF Turns
  <2>. QED
    BY <2>1, <2>4, <2>5, <2>6, <1>f
<1>9. acked'.gen = slots[b].gen /\ slots[b].state = "ok"
  BY <1>1 DEF ImageOf, IsBest, Parsed
<1>10. sb # NoGen => sb = slots[b].gen
  <2>1. sb # NoGen => \E i \in Parsed(slots) : slots[i].gen = sb
    BY <1>3, <1>p DEF Told, Parsed
  <2>. QED
    BY <1>1, <2>1 DEF IsBest
<1>11. ASSUME NEW i \in DOMAIN slots, i # b, slots[i].state = "ok"
       PROVE  \/ ImageOf(slots[i]) = acked'
              \/ slots[i].gen < acked'.gen
              \/ slots[i].gen > acked'.gen /\ sb = acked'.gen
  <2>1. CASE slots[i].gen = slots[b].gen
    BY <1>1, <1>3, <1>9, <1>11, <2>1 DEF Told
  <2>2. CASE slots[i].gen # slots[b].gen /\ sb # NoGen
    BY <1>9, <1>10, <1>g, <2>2
  <2>3. CASE slots[i].gen # slots[b].gen /\ sb = NoGen
    <3>1. {k \in Parsed(slots) : slots[k].gen = sb} = {}
      BY <1>g, <2>3 DEF Parsed, Scanned, NoGen
    <3>2. i \in Parsed(slots) \ {b}
      BY <1>p, <1>11 DEF Parsed
    <3>. QED
      BY <1>1, <1>9, <2>3, <3>1, <3>2 DEF IsBest
  <2>. QED
    BY <2>1, <2>2, <2>3
<1>12. Behind'
  BY <1>1, <1>2, <1>11 DEF Behind
<1>. QED
  BY <1>2, <1>5, <1>7, <1>8, <1>9, <1>10, <1>12

LEMMA SwapKept ==
    ASSUME NEW L \in Lens, CrashesOnly, PersistInv, SwapInv(L), [Next]_vars, Written({L}), Written({L})'
    PROVE  SwapInv(L)'
<1>0. Present'
  BY PresentKept DEF SwapInv
<1>1. CASE UNCHANGED vars
  <2>1. UNCHANGED <<sb, slots, up, mem, active, inactive, pc, snap, holder, dest, acked, maybe, fails>>
    BY <1>1 DEF vars, fileVars, layoutVars, stepVars, ghostVars
  <2>2. /\ TwoSlots(L) => TwoSlots(L)'
        /\ Turns(L) => Turns(L)'
        /\ Told => Told'
        /\ Behind => Behind'
        /\ OneImage({L}) => OneImage({L})'
    BY <2>1 DEF TwoSlots, Turns, Fixed, Told, Behind, OneImage, InFlight
  <2>3. Recovers => Recovers'
    BY <2>1 DEF Recovers, IsBest, Parsed, Scanned
  <2>. QED
    BY <1>0, <2>1, <2>2, <2>3 DEF SwapInv
<1>2. CASE WorkNext
  <2>1. up /\ up' /\ UNCHANGED fails
    BY <1>2 DEF WorkNext, Mutate, CompactStart, CompactRound, Install, CompactEnd, FlushCall, Snapshot,
                Refuse, WriteRegion, WriteSb, Flip
  <2>. QED
    BY <1>0, <1>2, <2>1, OneImageKept, SwapWork DEF SwapInv
<1>3. CASE Crash
  BY <1>0, <1>3, SwapCrash, CrashLeaves DEF SwapInv
<1>4. CASE Open
  <2>1. ~up /\ up' /\ UNCHANGED fails
    BY <1>4 DEF Open
  <2>. QED
    BY <1>0, <1>4, <2>1, SwapOpen DEF SwapInv
<1>5. CASE \E t \in Persisters : IoError(t)
  BY <1>5 DEF IoError, CrashesOnly, SwapInv
<1>. QED
  BY <1>1, <1>2, <1>3, <1>4, <1>5, NextIs

\* A store whose regions have one length, whenever its index is persisted, survives any
\* number of crashes, at any point of any flush or compaction, with a torn SuperBlock or
\* region: the index file implements VfsDurable.
THEOREM OneLenImplements ==
    ASSUME NEW L \in Lens, CrashesOnly
    PROVE  Spec /\ []Written({L}) => ImplementsDurable
<1>1. Init => SwapInv(L)
  BY SwapInit
<1>2. PersistInv /\ SwapInv(L) /\ Written({L}) /\ Written({L})' /\ [Next]_vars => SwapInv(L)'
  BY SwapKept
<1>3. Spec /\ []Written({L}) => []SwapInv(L)
  BY <1>1, <1>2, PersistInvHolds, PTL DEF Spec
<1>4. Init => Durable!DurableInit
  BY DEF Init, Durable!DurableInit
<1>5. PersistInv /\ Begun /\ SwapInv(L) /\ [Next]_vars => [Durable!DurableNext]_<<up, acked, maybe>>
  BY StepImplements, OpenImplements DEF SwapInv, durableVars, Open
<1>. QED
  BY <1>3, <1>4, <1>5, PersistInvHolds, BegunHolds, PTL DEF Spec, ImplementsDurable, Durable!DurableSpec
=============================================================================
