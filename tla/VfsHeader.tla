----------------------------- MODULE VfsHeader -----------------------------
(***************************************************************************)
(* The index file header.vfs as open_paths reads it (vfs/format.rs and     *)
(* vfs/mod.rs): a SuperBlock that names a generation, followed by region   *)
(* slots that are found by scanning one after the other.                   *)
(*                                                                         *)
(* A slot is a record [gen, ver, len, state].  "ver" stands for what the   *)
(* region says of the Active and Deleted files, "len" for the length of    *)
(* the region, and "state" for what the scan finds at the slot:            *)
(*    "ok"     the region_crc and every entry_crc verify;                  *)
(*    "bad"    the region header is readable but its data does not verify; *)
(*    "stuck"  the end of the file, or bytes that are no region header:    *)
(*             scan_slot returns None and nothing behind them is found.    *)
(***************************************************************************)
EXTENDS Naturals, Sequences

NoGen == 0        \* read_sb: the SuperBlock does not verify

Image == [gen : Nat, ver : Nat, len : Nat]
Slot  == [gen : Nat, ver : Nat, len : Nat, state : {"ok", "bad", "stuck"}]

Stored(img, state) == [gen |-> img.gen, ver |-> img.ver, len |-> img.len, state |-> state]
ImageOf(slot)      == [gen |-> slot.gen, ver |-> slot.ver, len |-> slot.len]

\* The slots the sequential scan reaches.
Scanned(slots) ==
    {i \in DOMAIN slots : \A j \in 1..i : slots[j].state # "stuck"}

Parsed(slots) == {i \in Scanned(slots) : slots[i].state = "ok"}

\* Mutant: without a match the lowest generation is taken.
IsBestOldest(sb, slots, b) ==
    LET match == {i \in Parsed(slots) : slots[i].gen = sb} IN
    /\ b \in Parsed(slots)
    /\ IF match # {}
         THEN b \in match /\ \A i \in match : b <= i
         ELSE \A i \in Parsed(slots) \ {b} : slots[i].gen > slots[b].gen \/ b < i

\* The slot open_paths loads: the first whose generation is the SuperBlock's,
\* otherwise the first of the highest generation.
IsBest(sb, slots, b) ==
    LET match == {i \in Parsed(slots) : slots[i].gen = sb} IN
    /\ b \in Parsed(slots)
    /\ IF match # {}
         THEN b \in match /\ \A i \in match : b <= i
         ELSE \A i \in Parsed(slots) \ {b} :
                 \/ slots[i].gen < slots[b].gen
                 \/ slots[i].gen = slots[b].gen /\ b < i

\* The slot it keeps for the next persist: the last of the longest others, valid
\* or not; 0 when there is none.
IsSpare(slots, best, s) ==
    LET others == Scanned(slots) \ {best} IN
    \/ others = {} /\ s = 0
    \/ /\ s \in others
       /\ \A i \in others \ {s} :
              \/ slots[i].len < slots[s].len
              \/ slots[i].len = slots[s].len /\ i < s

\* Where persist_image puts a region: the spare slot if the length is the same,
\* otherwise a new slot at the end of the file.
Dest(slots, spare, img) ==
    IF spare # 0 /\ slots[spare].len = img.len THEN spare ELSE Len(slots) + 1

\* A region of img reaches slot d: a slot that exists is overwritten in place.
Put(slots, d, img, state) ==
    IF d = Len(slots) + 1 THEN Append(slots, Stored(img, state))
                          ELSE [slots EXCEPT ![d] = Stored(img, state)]

\* What the file may hold where a region was being written when the write was
\* cut short: nothing of it, all of it, a region that does not verify or, past
\* the old end of the file, a piece of one that stops the scan.
AfterRegionWrite(slots, d, img, tears) ==
    {slots, Put(slots, d, img, "ok")}
      \cup (IF "bad" \in tears THEN {Put(slots, d, img, "bad")} ELSE {})
      \cup (IF "stuck" \in tears /\ d = Len(slots) + 1
              THEN {Put(slots, d, img, "stuck")} ELSE {})

\* The same for the twelve bytes of the SuperBlock patch.
AfterSbWrite(sb, gen, tears) ==
    {sb, gen} \cup (IF "sb" \in tears THEN {NoGen} ELSE {})
=============================================================================
