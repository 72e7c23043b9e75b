----------------------------- MODULE VfsLayout -----------------------------
(***************************************************************************)
(* How a compaction decides where every file goes: build_plan              *)
(* (vfs/compact.rs), for layouts of files in the data file.                *)
(*                                                                         *)
(* Offsets, sizes and the logical size are counted in 4 KiB blocks: every  *)
(* offset the store hands out is a multiple of ALIGN and build_plan only   *)
(* uses align4k(size), here the span of the file.  A span is 0 for an      *)
(* empty file, which shares its offset with the next file allocated.       *)
(***************************************************************************)
EXTENDS Naturals

CONSTANTS
    Files,      (* the names of the Active entries                         *)
    Word        (* 2^64 in the code: unsigned subtraction wraps modulo it  *)

(***************************************************************************)
(* A layout: the Active files, where each of them lies, and the logical    *)
(* size, after which the next file is appended.                            *)
(***************************************************************************)
Layout == [live : SUBSET Files, off : [Files -> Nat],
           span : [Files -> Nat], logical : Nat]

(***************************************************************************)
(* Two extents of blocks that have no block in common.  An empty extent    *)
(* may touch another one but never lies strictly inside it.                *)
(***************************************************************************)
Apart(o1, s1, o2, s2) == o1 + s1 <= o2 \/ o2 + s2 <= o1

Legal(l) ==
    /\ \A f, g \in l.live : f # g => Apart(l.off[f], l.span[f], l.off[g], l.span[g])
    /\ \A f \in l.live : l.off[f] + l.span[f] <= l.logical

ASSUME WordAssumption == Word \in Nat

-----------------------------------------------------------------------------
(***************************************************************************)
(* The loop body of build_plan, for the next file f in offset order.       *)
(* "plan" holds the loop's locals: the cursor, the end of the data, the    *)
(* files already planned with the target of each, and excluded_any.        *)
(***************************************************************************)

StartPlan(l) == [cursor |-> 0, dataEnd |-> l.logical, placed |-> {},
                 target |-> l.off, excluded |-> FALSE]

\* The planned files that leave their place: their old extents stay Active in
\* the header on disk until it flips.
Moved(l, plan) == {f \in plan.placed : plan.target[f] # l.off[f]}

\* Mutant: the old extents of moved files are forgotten.
HitsMovedNever(l, plan, f) == FALSE

HitsMoved(l, plan, f) ==
    \E g \in Moved(l, plan) :
        /\ plan.cursor < l.off[g] + l.span[g]
        /\ l.off[g] < plan.cursor + l.span[f]

\* e.offset - cursor on u64: wraps when the cursor is past the offset.
Gap(l, plan, f) ==
    IF plan.cursor <= l.off[f] THEN l.off[f] - plan.cursor
                               ELSE (l.off[f] + Word) - plan.cursor

InPlace(l, plan, f)  == l.off[f] = plan.cursor
\* Mutant: the size of the hole is not checked.
IntoHoleTight(l, plan, f) == ~InPlace(l, plan, f) /\ ~HitsMoved(l, plan, f)

IntoHole(l, plan, f) == /\ ~InPlace(l, plan, f)
                        /\ ~HitsMoved(l, plan, f)
                        /\ Gap(l, plan, f) >= l.span[f]
ToEnd(l, plan, f)    == ~InPlace(l, plan, f) /\ ~IntoHole(l, plan, f)

\* Mutant: a file moved to the end does not advance it.
PlanStepStill(l, plan, f) ==
    LET end == ToEnd(l, plan, f) IN
    [cursor   |-> IF end THEN plan.cursor ELSE plan.cursor + l.span[f],
     dataEnd  |-> plan.dataEnd,
     placed   |-> plan.placed \cup {f},
     target   |-> [plan.target EXCEPT ![f] = IF end THEN plan.dataEnd ELSE plan.cursor],
     excluded |-> plan.excluded \/ (end /\ HitsMoved(l, plan, f))]

PlanStep(l, plan, f) ==
    LET end == ToEnd(l, plan, f) IN
    [cursor   |-> IF end THEN plan.cursor ELSE plan.cursor + l.span[f],
     dataEnd  |-> IF end THEN plan.dataEnd + l.span[f] ELSE plan.dataEnd,
     placed   |-> plan.placed \cup {f},
     target   |-> [plan.target EXCEPT ![f] = IF end THEN plan.dataEnd ELSE plan.cursor],
     excluded |-> plan.excluded \/ (end /\ HitsMoved(l, plan, f))]

\* Mutant: the files are not sorted.
IsNextAny(l, plan, f) == f \in l.live \ plan.placed

\* sort_by_key is stable, but the order of the entries of one offset is that of
\* the index vector, which swap_remove shuffles: any first file may be next.
IsNext(l, plan, f) ==
    /\ f \in l.live \ plan.placed
    /\ \A g \in l.live \ plan.placed : l.off[f] <= l.off[g]

(***************************************************************************)
(* The layout Finalize installs: the planned files without the bad ones,   *)
(* at their targets, and the logical size that ends after the last.        *)
(***************************************************************************)
Ends(l, plan, keep) == {0} \cup {plan.target[f] + l.span[f] : f \in keep}

Finalized(l, plan, keep, n) ==
    [live |-> keep, off |-> plan.target, span |-> l.span, logical |-> n]

-----------------------------------------------------------------------------
(***************************************************************************)
(* What is true of a plan p of the layout l, whole or in part.             *)
(***************************************************************************)
PlanType == [cursor : Nat, dataEnd : Nat, placed : SUBSET Files,
             target : [Files -> Nat], excluded : BOOLEAN]

\* A file that moves is written only where no file of the layout lies, its own
\* place included.
SparesSources(l, p) ==
    \A f \in Moved(l, p), g \in l.live :
        Apart(p.target[f], l.span[f], l.off[g], l.span[g])

KeepsApart(l, p) ==
    \A f, g \in p.placed :
        f # g => Apart(p.target[f], l.span[f], p.target[g], l.span[g])

\* No file with data that is still to be planned starts before the cursor.
CursorBehind(l, p) ==
    \A f \in l.live \ p.placed : l.off[f] < p.cursor => l.span[f] = 0

\* Where a target can be: below the cursor, which no file still to plan starts
\* before, or past the logical size, which no source reaches.
Frontier(l, p) ==
    /\ p.placed \subseteq l.live
    /\ p.cursor <= l.logical
    /\ l.logical <= p.dataEnd

TargetsBehindFrontier(l, p) ==
    \A f \in p.placed :
        /\ p.target[f] + l.span[f] <= p.dataEnd
        /\ \/ p.target[f] + l.span[f] <= p.cursor
           \/ l.logical <= p.target[f]

PlanSafe(l, p) ==
    /\ Frontier(l, p)
    /\ CursorBehind(l, p)
    /\ TargetsBehindFrontier(l, p)
    /\ SparesSources(l, p)
    /\ KeepsApart(l, p)
=============================================================================
