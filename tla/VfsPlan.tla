------------------------------ MODULE VfsPlan ------------------------------
(***************************************************************************)
(* The rounds of a compaction (vfs/compact.rs): build_plan gives each file *)
(* a target, the files are read, checked and copied, and the layout that   *)
(* results is planned again until nothing is left to gain.                 *)
(***************************************************************************)
EXTENDS VfsLayout

CONSTANTS
    Rotten,     (* the files whose data may fail the crc when it is copied *)
    Layouts,    (* the layouts a compaction may start from                 *)
    MaxRounds   (* the 8 of "for _ in 0..8" in compact_run                 *)

ASSUME LayoutsAssumption ==
    /\ Layouts \subseteq Layout
    /\ \A l \in Layouts : Legal(l)

ASSUME BoundsAssumption ==
    /\ Rotten \subseteq Files
    /\ MaxRounds \in Nat \ {0}

VARIABLES
    layout,     (* the index the round was planned from                    *)
    plan,       (* build_plan's locals                                     *)
    round,      (* the rounds completed                                    *)
    done        (* compact_run has returned Ok                             *)

vars == <<layout, plan, round, done>>

Init ==
    /\ layout \in Layouts
    /\ plan = StartPlan(layout)
    /\ round = 0
    /\ done = FALSE

\* One iteration of build_plan's loop.
Place(f) ==
    /\ ~done
    /\ IsNext(layout, plan, f)
    /\ plan' = PlanStep(layout, plan, f)
    /\ UNCHANGED <<layout, round, done>>

\* Mutant: the test for convergence is missing.
FinalizeRoundAgain(bad) ==
    /\ ~done
    /\ plan.placed = layout.live
    /\ bad \subseteq {f \in layout.live \cap Rotten : layout.span[f] > 0}
    /\ LET keep == layout.live \ bad IN
       \E n \in Ends(layout, plan, keep) :
           /\ \A f \in keep : plan.target[f] + layout.span[f] <= n
           /\ layout' = Finalized(layout, plan, keep, n)
    /\ plan' = StartPlan(layout')
    /\ round' = round + 1
    /\ done' = (round' = MaxRounds)

\* Every file has been read, and copied if it moves, and those whose data failed
\* the crc are dropped (an empty file has no data to fail it); compact_run goes
\* round again when a file was pushed to the end for want of a safe hole, or when
\* bad files left one.
FinalizeRound(bad) ==
    /\ ~done
    /\ plan.placed = layout.live
    /\ bad \subseteq {f \in layout.live \cap Rotten : layout.span[f] > 0}
    /\ LET keep == layout.live \ bad IN
       \E n \in Ends(layout, plan, keep) :
           /\ \A f \in keep : plan.target[f] + layout.span[f] <= n
           /\ layout' = Finalized(layout, plan, keep, n)
    /\ plan' = StartPlan(layout')
    /\ round' = round + 1
    /\ done' = ((~plan.excluded /\ bad = {}) \/ round' = MaxRounds)

Next ==
    \/ \E f \in Files : Place(f)
    \/ \E bad \in SUBSET layout.live : FinalizeRound(bad)

Spec == Init /\ [][Next]_vars

-----------------------------------------------------------------------------
\* The planner's state has its type.
TypeOK ==
    /\ layout \in Layout
    /\ plan \in PlanType
    /\ round \in Nat
    /\ done \in BOOLEAN

\* The rule crash safety rests on (compact.rs, head comment): before the header
\* flips, a file that moves is written only where no Active file lies, its own
\* old extent included, so a crash during Move finds every source intact.
TargetsSpareSources == SparesSources(layout, plan)

\* After the flip no two files share a block: the copies of one round never
\* overwrite one another, nor a file that stays in place.
TargetsApart == KeepsApart(layout, plan)

\* The layout a round installs is one the next alloc can append to and the next
\* round can start from: files apart, and all of them below the logical size.
LayoutLegal == Legal(layout)

\* e.offset - cursor wraps below zero for an empty file only, where build_plan
\* compares it with 0 and cannot go wrong; for any other file it is exact.
WrapsOnlyForEmpty == CursorBehind(layout, plan)

\* The 8 rounds are never used up (compact.rs:229 calls the limit a theoretical
\* defence): the exclusions and the bad files of a round always run out before.
ConvergesBeforeLimit == round < MaxRounds

\* The inductive invariant: what makes it inductive is where a target can be.
PlanInv ==
    /\ TypeOK
    /\ LayoutLegal
    /\ PlanSafe(layout, plan)
=============================================================================
