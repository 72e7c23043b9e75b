--------------------------- MODULE VfsStoreProofs ---------------------------
(***************************************************************************)
(* Proofs about VfsPlan, for every set of files, every set of legal        *)
(* layouts and every bound on the rounds; and, built on their lemmas about *)
(* plans, proofs about VfsStore, for any names, flushers, sizes, reserve   *)
(* and any bounds: any number of downloads, compactions, rotten blocks,    *)
(* crashes and I/O errors, but the error of the persist that ends a round, *)
(* which leaves disk and memory with different layouts (SteadySpec).       *)
(***************************************************************************)
EXTENDS VfsStore, VfsPlan, FiniteSetTheorems, TLAPS

-----------------------------------------------------------------------------
(***************************************************************************)
(* The planner.                                                            *)
(***************************************************************************)
\* What one iteration of build_plan's loop keeps true of the types.
LEMMA PlanStepType ==
    ASSUME NEW l \in Layout, NEW p \in PlanType, NEW f \in Files
    PROVE  PlanStep(l, p, f) \in PlanType
<1>1. l.off[f] \in Nat /\ l.span[f] \in Nat /\ l.logical \in Nat
  BY DEF Layout
<1>2. p.cursor \in Nat /\ p.dataEnd \in Nat /\ p.target \in [Files -> Nat]
      /\ p.placed \in SUBSET Files /\ p.excluded \in BOOLEAN
  BY DEF PlanType
<1>3. HitsMoved(l, p, f) \in BOOLEAN /\ ToEnd(l, p, f) \in BOOLEAN
  BY DEF HitsMoved, ToEnd
<1>. QED
  BY <1>1, <1>2, <1>3 DEF PlanStep, PlanType

\* The first plan of a round.
LEMMA StartPlanSafe ==
    ASSUME NEW l \in Layout
    PROVE  StartPlan(l) \in PlanType /\ PlanSafe(l, StartPlan(l))
<1>. DEFINE p == StartPlan(l)
<1>1. l.off \in [Files -> Nat] /\ l.logical \in Nat /\ l.live \subseteq Files
  BY DEF Layout
<1>2. /\ p.cursor = 0 /\ p.dataEnd = l.logical /\ p.placed = {} /\ p \in PlanType
  BY <1>1 DEF StartPlan, PlanType
<1>3. Frontier(l, p) /\ CursorBehind(l, p)
  BY <1>1, <1>2 DEF Frontier, CursorBehind
<1>. QED
  BY <1>2, <1>3 DEF PlanSafe, Moved, TargetsBehindFrontier, SparesSources, KeepsApart

\* One iteration of build_plan's loop keeps the plan safe: the three cases of
\* the target are in place, into the hole at the cursor, and past the data.
LEMMA PlanStepSafe ==
    ASSUME NEW l \in Layout, Legal(l), NEW p \in PlanType, PlanSafe(l, p),
           NEW f \in Files, IsNext(l, p, f)
    PROVE  PlanSafe(l, PlanStep(l, p, f))
<1>. DEFINE q == PlanStep(l, p, f)
            off == l.off
            span == l.span
            logical == l.logical
            T == q.target[f]
<1>2. q \in PlanType
  BY PlanStepType
<1>5. /\ off \in [Files -> Nat] /\ span \in [Files -> Nat] /\ logical \in Nat
      /\ l.live \subseteq Files
  BY DEF Layout
<1>6. /\ p.cursor \in Nat /\ p.dataEnd \in Nat /\ p.target \in [Files -> Nat]
      /\ p.placed \subseteq Files /\ p.excluded \in BOOLEAN
      /\ q.cursor \in Nat /\ q.dataEnd \in Nat /\ q.target \in [Files -> Nat]
  BY <1>2 DEF PlanType
<1>7. /\ f \in l.live /\ f \notin p.placed
      /\ \A g \in l.live \ p.placed : off[f] <= off[g]
  BY DEF IsNext
<1>8. /\ q.placed = p.placed \cup {f}
      /\ \A g \in p.placed : q.target[g] = p.target[g]
  BY <1>6, <1>7 DEF PlanStep
<1>9. \A g, h \in l.live : g # h => Apart(off[g], span[g], off[h], span[h])
  BY DEF Legal
<1>10. \A g \in l.live : off[g] + span[g] <= logical
  BY DEF Legal
<1>11. p.cursor <= logical /\ logical <= p.dataEnd
  BY DEF PlanSafe, Frontier
<1>12. \A g \in l.live \ p.placed : off[g] < p.cursor => span[g] = 0
  BY DEF PlanSafe, CursorBehind
<1>13. \A g \in p.placed :
          /\ p.target[g] + span[g] <= p.dataEnd
          /\ p.target[g] + span[g] <= p.cursor \/ logical <= p.target[g]
  BY DEF PlanSafe, TargetsBehindFrontier
\* The three cases, each as the numbers it leaves behind.
<1>14. \/ /\ T = p.cursor /\ T = off[f]
          /\ q.cursor = p.cursor + span[f] /\ q.dataEnd = p.dataEnd
       \/ /\ T = p.cursor /\ T # off[f]
          /\ ~HitsMoved(l, p, f)
          /\ T + span[f] <= off[f] \/ (off[f] < T /\ span[f] = 0)
          /\ q.cursor = p.cursor + span[f] /\ q.dataEnd = p.dataEnd
       \/ /\ T = p.dataEnd
          /\ q.cursor = p.cursor /\ q.dataEnd = p.dataEnd + span[f]
  <2>1. CASE InPlace(l, p, f)
    BY <2>1, <1>5, <1>6 DEF PlanStep, ToEnd, InPlace
  <2>2. CASE IntoHole(l, p, f)
    <3>1. /\ T = p.cursor /\ T # off[f] /\ ~HitsMoved(l, p, f)
          /\ q.cursor = p.cursor + span[f] /\ q.dataEnd = p.dataEnd
      BY <2>2, <1>5, <1>6 DEF PlanStep, ToEnd, IntoHole, InPlace
    <3>2. p.cursor + span[f] <= off[f] \/ (off[f] < p.cursor /\ span[f] = 0)
      <4>1. CASE off[f] < p.cursor
        BY <4>1, <1>7, <1>12
      <4>2. CASE ~(off[f] < p.cursor)
        <5>1. off[f] - p.cursor >= span[f]
          BY <4>2, <2>2, <1>5, <1>6 DEF IntoHole, Gap
        <5>. QED
          BY <5>1, <1>5, <1>6
      <4>. QED
        BY <4>1, <4>2
    <3>. QED
      BY <3>1, <3>2
  <2>3. CASE ToEnd(l, p, f)
    BY <2>3, <1>5, <1>6 DEF PlanStep
  <2>. QED
    BY <2>1, <2>2, <2>3 DEF ToEnd
<1>. HIDE DEF T
<1>15. T \in Nat
  BY <1>6 DEF T
<1>16. Frontier(l, q)
  <2>1. q.cursor <= logical
    <3>1. off[f] + span[f] <= logical
      BY <1>7, <1>10
    <3>. QED
      BY <3>1, <1>14, <1>11, <1>5, <1>6, <1>15
  <2>2. logical <= q.dataEnd
    BY <1>14, <1>11, <1>5, <1>6
  <2>3. q.placed \subseteq l.live
    BY <1>7, <1>8 DEF PlanSafe, Frontier
  <2>. QED
    BY <2>1, <2>2, <2>3 DEF Frontier
<1>17. CursorBehind(l, q)
  <2>. SUFFICES ASSUME NEW g \in l.live \ q.placed, off[g] < q.cursor
                PROVE  span[g] = 0
    BY DEF CursorBehind
  <2>1. g \in l.live \ p.placed /\ g # f
    BY <1>8
  <2>2. off[f] <= off[g]
    BY <2>1, <1>7
  <2>3. off[f] + span[f] <= off[g] \/ off[g] + span[g] <= off[f]
    BY <2>1, <1>7, <1>9 DEF Apart
  <2>4. off[g] < p.cursor => span[g] = 0
    BY <2>1, <1>12
  <2>5. off[f] \in Nat /\ span[f] \in Nat /\ off[g] \in Nat /\ span[g] \in Nat
    BY <1>5, <2>1
  <2>. QED
    BY <2>2, <2>3, <2>4, <2>5, <1>14, <1>6, <1>15
<1>18. TargetsBehindFrontier(l, q)
  <2>. SUFFICES ASSUME NEW g \in q.placed
                PROVE  /\ q.target[g] + span[g] <= q.dataEnd
                       /\ \/ q.target[g] + span[g] <= q.cursor
                          \/ logical <= q.target[g]
    BY DEF TargetsBehindFrontier
  <2>1. CASE g = f
    <3>1. span[f] \in Nat /\ q.cursor <= logical /\ logical <= q.dataEnd
      BY <1>16, <1>5 DEF Frontier
    <3>. QED
      BY <2>1, <3>1, <1>14, <1>11, <1>5, <1>6, <1>15 DEF T
  <2>2. CASE g # f
    <3>1. g \in p.placed /\ g \in Files /\ q.target[g] = p.target[g]
      BY <2>2, <1>8, <1>6
    <3>2. p.target[g] \in Nat /\ span[g] \in Nat /\ span[f] \in Nat
      BY <3>1, <1>5, <1>6
    <3>. QED
      BY <3>1, <3>2, <1>13, <1>14, <1>6
  <2>. QED
    BY <2>1, <2>2
<1>19. SparesSources(l, q)
  <2>. SUFFICES ASSUME NEW h \in q.placed, q.target[h] # off[h],
                       NEW g \in l.live
                PROVE  Apart(q.target[h], span[h], off[g], span[g])
    BY DEF SparesSources, Moved
  <2>1. CASE h # f
    <3>1. h \in Moved(l, p) /\ q.target[h] = p.target[h]
      BY <2>1, <1>8 DEF Moved
    <3>. QED
      BY <3>1 DEF PlanSafe, SparesSources
  <2>2. CASE h = f
    <3>1. /\ off[f] \in Nat /\ span[f] \in Nat /\ off[g] \in Nat /\ span[g] \in Nat
          /\ off[g] + span[g] <= logical /\ off[f] + span[f] <= logical
      BY <1>5, <1>7, <1>10
    <3>2. CASE T = p.dataEnd
      BY <3>1, <3>2, <2>2, <1>11, <1>5, <1>6 DEF Apart, T
    <3>3. CASE T = p.cursor /\ T # off[f]
               /\ ~HitsMoved(l, p, f)
               /\ (T + span[f] <= off[f] \/ (off[f] < T /\ span[f] = 0))
      <4>1. CASE g \in p.placed /\ p.target[g] # off[g]
        BY <4>1, <3>1, <3>3, <2>2, <1>5, <1>6 DEF Apart, T, HitsMoved, Moved
      <4>2. CASE g \in p.placed /\ p.target[g] = off[g]
        <5>1. \/ off[g] + span[g] <= p.cursor
              \/ logical <= off[g] /\ span[g] = 0
          BY <4>2, <3>1, <1>13, <1>5
        <5>. QED
          BY <5>1, <3>1, <3>3, <2>2, <1>11, <1>5, <1>6 DEF Apart, T
      <4>3. CASE g \notin p.placed
        <5>1. off[f] <= off[g] /\ (off[g] < p.cursor => span[g] = 0)
          BY <4>3, <1>7, <1>12
        <5>. QED
          BY <5>1, <3>1, <3>3, <2>2, <1>6 DEF Apart, T
      <4>. QED
        BY <4>1, <4>2, <4>3
    <3>. QED
      BY <3>2, <3>3, <2>2, <1>14 DEF T
  <2>. QED
    BY <2>1, <2>2
<1>20. KeepsApart(l, q)
  <2>1. ASSUME NEW g \in p.placed
        PROVE  /\ Apart(T, span[f], p.target[g], span[g])
               /\ Apart(p.target[g], span[g], T, span[f])
    <3>1. /\ g \in Files /\ span[g] \in Nat /\ p.target[g] \in Nat
          /\ span[f] \in Nat /\ off[f] \in Nat /\ off[f] + span[f] <= logical
      BY <2>1, <1>5, <1>6, <1>7, <1>10
    <3>. QED
      BY <2>1, <3>1, <1>11, <1>13, <1>14, <1>15, <1>5, <1>6 DEF Apart
  <2>. SUFFICES ASSUME NEW g \in q.placed, NEW h \in q.placed, g # h
                PROVE  Apart(q.target[g], span[g], q.target[h], span[h])
    BY DEF KeepsApart
  <2>2. CASE g = f
    BY <2>1, <2>2, <1>8 DEF T
  <2>3. CASE h = f
    BY <2>1, <2>3, <1>8 DEF T
  <2>4. CASE g # f /\ h # f
    BY <2>4, <1>8 DEF PlanSafe, KeepsApart
  <2>. QED
    BY <2>2, <2>3, <2>4
<1>. QED
  BY <1>16, <1>17, <1>18, <1>19, <1>20 DEF PlanSafe

\* So an iteration keeps the invariant.
LEMMA PlaceInv ==
    ASSUME PlanInv, NEW f \in Files, Place(f)
    PROVE  PlanInv'
<1>1. /\ layout \in Layout /\ plan \in PlanType /\ layout' = layout
      /\ round' = round /\ done' = done /\ plan' = PlanStep(layout, plan, f)
  BY DEF Place, PlanInv, TypeOK
<1>2. plan' \in PlanType
  BY <1>1, PlanStepType
<1>3. PlanSafe(layout, plan')
  BY <1>1, PlanStepSafe DEF PlanInv, LayoutLegal, Place
<1>. QED
  BY <1>1, <1>2, <1>3 DEF PlanInv, TypeOK, LayoutLegal

\* A round's Finalize keeps the invariant: the layout it installs is legal, and
\* the next round's plan starts from it.
LEMMA FinalizeRoundInv ==
    ASSUME PlanInv, NEW bad, FinalizeRound(bad)
    PROVE  PlanInv'
<1>. DEFINE keep == layout.live \ bad
<1>1. PICK n \in Ends(layout, plan, keep) :
          /\ \A f \in keep : plan.target[f] + layout.span[f] <= n
          /\ layout' = Finalized(layout, plan, keep, n)
  BY DEF FinalizeRound
<1>2. /\ layout \in Layout /\ plan \in PlanType /\ round \in Nat
      /\ plan.placed = layout.live
      /\ plan' = StartPlan(layout') /\ round' = round + 1 /\ done' \in BOOLEAN
  BY DEF FinalizeRound, PlanInv, TypeOK
<1>3. /\ layout.span \in [Files -> Nat] /\ layout.live \subseteq Files
      /\ plan.target \in [Files -> Nat]
  BY <1>2 DEF Layout, PlanType
<1>4. n \in Nat
  <2>. SUFFICES ASSUME NEW f \in keep
                PROVE  plan.target[f] + layout.span[f] \in Nat
    BY <1>1 DEF Ends
  <2>. QED
    BY <1>3
<1>5. layout' \in Layout
  BY <1>1, <1>3, <1>4 DEF Finalized, Layout
<1>6. Legal(layout')
  BY <1>1, <1>2 DEF Legal, Finalized, PlanInv, PlanSafe, KeepsApart
<1>7. plan' \in PlanType /\ PlanSafe(layout', plan')
  BY <1>2, <1>5, StartPlanSafe
<1>8. TypeOK'
  BY <1>2, <1>5, <1>7 DEF TypeOK
<1>. QED
  BY <1>6, <1>7, <1>8 DEF PlanInv, LayoutLegal

-----------------------------------------------------------------------------
\* Every state of every compaction satisfies the invariant.
THEOREM PlanInvHolds == Spec => []PlanInv
<1>1. Init => PlanInv
  <2>. SUFFICES ASSUME Init
                PROVE  PlanInv
    OBVIOUS
  <2>1. layout \in Layout /\ Legal(layout) /\ plan = StartPlan(layout)
    BY LayoutsAssumption DEF Init
  <2>2. plan \in PlanType /\ PlanSafe(layout, plan)
    BY <2>1, StartPlanSafe
  <2>3. TypeOK
    BY <2>1, <2>2 DEF Init, TypeOK
  <2>. QED
    BY <2>1, <2>2, <2>3 DEF PlanInv, LayoutLegal
<1>2. PlanInv /\ [Next]_vars => PlanInv'
  <2>. SUFFICES ASSUME PlanInv, [Next]_vars
                PROVE  PlanInv'
    OBVIOUS
  <2>1. CASE \E f \in Files : Place(f)
    BY <2>1, PlaceInv
  <2>2. CASE \E bad \in SUBSET layout.live : FinalizeRound(bad)
    BY <2>2, FinalizeRoundInv
  <2>3. CASE UNCHANGED vars
    <3>1. layout' = layout /\ plan' = plan /\ round' = round /\ done' = done
      BY <2>3 DEF vars
    <3>. QED
      BY <3>1 DEF PlanInv, TypeOK, LayoutLegal
  <2>. QED
    BY <2>1, <2>2, <2>3 DEF Next
<1>. QED
  BY <1>1, <1>2, PTL DEF Spec

\* The planner's state always has its type.
THEOREM PlanTypeCorrect == Spec => []TypeOK
<1>1. PlanInv => TypeOK
  BY DEF PlanInv
<1>. QED
  BY <1>1, PlanInvHolds, PTL

\* For every store, of any number of files: no round of any compaction ever
\* copies a file over blocks that the header on disk still calls Active.
THEOREM SourcesSpared == Spec => []TargetsSpareSources
<1>1. PlanInv => TargetsSpareSources
  BY DEF PlanInv, PlanSafe, TargetsSpareSources
<1>. QED
  BY <1>1, PlanInvHolds, PTL

\* No two files of a plan share a block, and so every layout a compaction
\* installs is one a later alloc, round or compaction may start from.
THEOREM LayoutsStayLegal == Spec => [](TargetsApart /\ LayoutLegal)
<1>1. PlanInv => TargetsApart /\ LayoutLegal
  BY DEF PlanInv, PlanSafe, TargetsApart
<1>. QED
  BY <1>1, PlanInvHolds, PTL

\* The unsigned subtraction of build_plan wraps for empty files only.
THEOREM SubtractionExact == Spec => []WrapsOnlyForEmpty
<1>1. PlanInv => WrapsOnlyForEmpty
  BY DEF PlanInv, PlanSafe, WrapsOnlyForEmpty
<1>. QED
  BY <1>1, PlanInvHolds, PTL

-----------------------------------------------------------------------------
(***************************************************************************)
(* The rounds of a compaction come to an end.                              *)
(*                                                                         *)
(* A round in which no file fails its crc leaves the files in two runs:    *)
(* one without a hole from the start of the data, and one past the old end, *)
(* for which the hole between them has room.  A round that starts from such *)
(* a layout pushes no file to the end.  So only bad files keep a compaction *)
(* going, and each can do so once.                                         *)
(***************************************************************************)
\* A plan as far as it goes: the files given a place at the cursor close up, and what
\* has been placed is no more than what lay before the next file.
EndsAt(l, p, x) == \E g \in p.placed : l.span[g] > 0 /\ p.target[g] + l.span[g] = x

ClosesUp(l, p) ==
    /\ p.cursor + p.dataEnd <= l.logical + l.logical
    /\ \A f \in l.live \ p.placed : l.span[f] > 0 => p.cursor + p.dataEnd <= l.logical + l.off[f]
    /\ p.cursor = 0 \/ EndsAt(l, p, p.cursor)
    /\ \A f \in p.placed :
           \/ l.logical <= p.target[f]
           \/ /\ p.target[f] + l.span[f] <= p.cursor
              /\ p.target[f] = 0 \/ EndsAt(l, p, p.target[f])

\* Two runs: without holes up to cut, and from top on, no longer than from cut to top.
TwoRuns(l, cut, top) ==
    /\ cut <= top /\ cut + l.logical <= top + top
    /\ \A f \in l.live :
           \/ top <= l.off[f]
           \/ /\ l.off[f] + l.span[f] <= cut
              /\ \/ l.off[f] = 0
                 \/ \E g \in l.live : l.span[g] > 0 /\ l.off[g] + l.span[g] = l.off[f]

\* A plan of such a layout, as far as it goes.
Fits(l, p, top) ==
    /\ ~p.excluded /\ p.cursor <= top
    /\ \A g \in p.placed : l.off[g] < top => l.off[g] + l.span[g] <= p.cursor
    /\ \A f \in l.live \ p.placed :
           l.span[f] > 0 /\ top <= l.off[f] => p.cursor + l.logical <= top + l.off[f]

InTwoRuns(l, p) == \E cut, top \in Nat : TwoRuns(l, cut, top) /\ Fits(l, p, top)

MostRounds == 2 * Cardinality(Rotten) + 2

RoundsInv ==
    /\ ClosesUp(layout, plan)
    /\ round <= MostRounds
    /\ ~done => LET left == 2 * Cardinality(layout.live \cap Rotten) IN
                \/ round + left + 2 <= MostRounds
                \/ round + left + 1 <= MostRounds /\ InTwoRuns(layout, plan)

\* What an iteration does to the numbers of a plan, at the cursor or at the end.
LEMMA PlanStepIs ==
    ASSUME NEW l \in Layout, NEW p \in PlanType, NEW f \in Files, f \notin p.placed
    PROVE  LET q == PlanStep(l, p, f) IN
           /\ q.placed = p.placed \cup {f} /\ \A g \in p.placed : q.target[g] = p.target[g]
           /\ q.cursor \in Nat /\ q.dataEnd \in Nat
           /\ \/ /\ ~ToEnd(l, p, f) /\ q.excluded = p.excluded /\ q.target[f] = p.cursor
                 /\ q.cursor = p.cursor + l.span[f] /\ q.dataEnd = p.dataEnd
              \/ /\ ToEnd(l, p, f) /\ q.excluded = (p.excluded \/ HitsMoved(l, p, f))
                 /\ q.target[f] = p.dataEnd
                 /\ q.cursor = p.cursor /\ q.dataEnd = p.dataEnd + l.span[f]
<1>. DEFINE q == PlanStep(l, p, f)
<1>1. /\ p.target \in [Files -> Nat] /\ p.placed \subseteq Files /\ p.excluded \in BOOLEAN
      /\ p.cursor \in Nat /\ p.dataEnd \in Nat /\ l.span[f] \in Nat
  BY DEF PlanType, Layout
<1>2. q.placed = p.placed \cup {f} /\ \A g \in p.placed : q.target[g] = p.target[g]
  BY <1>1 DEF PlanStep
<1>3. CASE ToEnd(l, p, f)
  BY <1>1, <1>2, <1>3 DEF PlanStep
<1>4. CASE ~ToEnd(l, p, f)
  BY <1>1, <1>2, <1>4 DEF PlanStep
<1>. QED
  BY <1>3, <1>4

\* The files still to plan lie one after the other.
LEMMA NextFirst ==
    ASSUME NEW l \in Layout, Legal(l), NEW p \in PlanType, NEW f \in Files, IsNext(l, p, f)
    PROVE  /\ l.off[f] \in Nat /\ l.span[f] \in Nat /\ l.logical \in Nat
           /\ f \in l.live /\ f \notin p.placed /\ l.off[f] + l.span[f] <= l.logical
           /\ \A g \in l.live : l.off[g] < l.off[f] => g \in p.placed
           /\ \A g \in l.live \ (p.placed \cup {f}) :
                  /\ l.off[g] \in Nat /\ l.off[f] <= l.off[g]
                  /\ l.span[g] > 0 => l.off[f] + l.span[f] <= l.off[g]
<1>1. /\ l.off[f] \in Nat /\ l.span[f] \in Nat /\ l.logical \in Nat /\ l.live \subseteq Files
      /\ f \in l.live /\ f \notin p.placed /\ l.off[f] + l.span[f] <= l.logical
  BY DEF Layout, Legal, IsNext
<1>2. ASSUME NEW g \in l.live
      PROVE  l.off[g] \in Nat /\ l.span[g] \in Nat
  BY DEF Layout
<1>3. \A g \in l.live : l.off[g] < l.off[f] => g \in p.placed
  BY <1>1, <1>2 DEF IsNext
<1>4. ASSUME NEW g \in l.live \ (p.placed \cup {f})
      PROVE  /\ l.off[f] <= l.off[g]
             /\ l.span[g] > 0 => l.off[f] + l.span[f] <= l.off[g]
  <2>1. l.off[f] <= l.off[g] /\ Apart(l.off[f], l.span[f], l.off[g], l.span[g])
    BY <1>1 DEF IsNext, Legal
  <2>. QED
    BY <1>1, <1>2, <2>1 DEF Apart
<1>. QED
  BY <1>1, <1>2, <1>3, <1>4

LEMMA PlanStepClosesUp ==
    ASSUME NEW l \in Layout, Legal(l), NEW p \in PlanType, PlanSafe(l, p), ClosesUp(l, p),
           NEW f \in Files, IsNext(l, p, f)
    PROVE  ClosesUp(l, PlanStep(l, p, f))
<1>. DEFINE q == PlanStep(l, p, f)
<1>1. /\ l.off[f] \in Nat /\ l.span[f] \in Nat /\ l.logical \in Nat
      /\ f \in l.live /\ f \notin p.placed /\ l.off[f] + l.span[f] <= l.logical
      /\ p.cursor \in Nat /\ p.dataEnd \in Nat /\ p.placed \subseteq Files
      /\ p.cursor <= l.logical /\ l.logical <= p.dataEnd
  BY NextFirst DEF PlanType, PlanSafe, Frontier
<1>2. /\ q.placed = p.placed \cup {f} /\ \A g \in p.placed : q.target[g] = p.target[g]
      /\ q.cursor \in Nat /\ q.dataEnd \in Nat
      /\ \/ /\ q.target[f] = p.cursor
            /\ q.cursor = p.cursor + l.span[f] /\ q.dataEnd = p.dataEnd
         \/ /\ q.target[f] = p.dataEnd
            /\ q.cursor = p.cursor /\ q.dataEnd = p.dataEnd + l.span[f]
  BY <1>1, PlanStepIs
<1>. HIDE DEF q
<1>3. p.cursor <= q.cursor /\ q.cursor + q.dataEnd = p.cursor + p.dataEnd + l.span[f]
  BY <1>1, <1>2
<1>4. q.cursor + q.dataEnd <= l.logical + l.logical
  BY <1>1, <1>3 DEF ClosesUp
<1>5. ASSUME NEW g \in l.live \ q.placed, l.span[g] > 0
      PROVE  q.cursor + q.dataEnd <= l.logical + l.off[g]
  <2>1. /\ l.off[g] \in Nat /\ l.off[f] <= l.off[g] /\ l.off[f] + l.span[f] <= l.off[g]
    BY <1>2, <1>5, NextFirst
  <2>2. p.cursor + p.dataEnd <= l.logical + l.off[g]
    BY <1>2, <1>5 DEF ClosesUp
  <2>3. l.span[f] > 0 => p.cursor + p.dataEnd <= l.logical + l.off[f]
    BY <1>1 DEF ClosesUp
  <2>. QED
    BY <1>1, <1>3, <2>1, <2>2, <2>3
\* What was closed up to is.
<1>6. ASSUME NEW x, EndsAt(l, p, x)
      PROVE  EndsAt(l, q, x)
  BY <1>2, <1>6 DEF EndsAt
<1>7. q.cursor = 0 \/ EndsAt(l, q, q.cursor)
  <2>1. CASE q.cursor = p.cursor
    BY <1>6, <2>1 DEF ClosesUp
  <2>2. CASE q.cursor # p.cursor
    <3>1. l.span[f] > 0 /\ q.target[f] + l.span[f] = q.cursor /\ f \in q.placed
      BY <1>1, <1>2, <2>2
    <3>. QED
      BY <3>1 DEF EndsAt
  <2>. QED
    BY <2>1, <2>2
<1>8. ASSUME NEW g \in q.placed
      PROVE  \/ l.logical <= q.target[g]
             \/ /\ q.target[g] + l.span[g] <= q.cursor
                /\ q.target[g] = 0 \/ EndsAt(l, q, q.target[g])
  <2>1. CASE g = f
    BY <1>1, <1>2, <1>6, <2>1 DEF ClosesUp
  <2>2. CASE g \in p.placed
    <3>1. q.target[g] = p.target[g] /\ p.target[g] \in Nat /\ l.span[g] \in Nat
      BY <1>1, <1>2, <2>2 DEF PlanType, Layout
    <3>. QED
      BY <1>1, <1>2, <1>3, <1>6, <2>2, <3>1 DEF ClosesUp
  <2>. QED
    BY <1>2, <2>1, <2>2
<1>9. ClosesUp(l, q)
  BY <1>4, <1>5, <1>7, <1>8 DEF ClosesUp
<1>. QED
  BY <1>9 DEF q

\* In a layout of two runs the next file is in place, or has room in the hole.
LEMMA PlanStepFits ==
    ASSUME NEW l \in Layout, Legal(l), NEW p \in PlanType, PlanSafe(l, p),
           NEW cut \in Nat, NEW top \in Nat, TwoRuns(l, cut, top), Fits(l, p, top),
           NEW f \in Files, IsNext(l, p, f)
    PROVE  Fits(l, PlanStep(l, p, f), top)
<1>. DEFINE q == PlanStep(l, p, f)
<1>1. /\ l.off[f] \in Nat /\ l.span[f] \in Nat /\ l.logical \in Nat /\ l.live \subseteq Files
      /\ f \in l.live /\ f \notin p.placed /\ l.off[f] + l.span[f] <= l.logical
      /\ p.cursor \in Nat /\ p.placed \subseteq l.live
      /\ p.cursor <= top /\ ~p.excluded /\ p.excluded \in BOOLEAN
  BY NextFirst DEF PlanType, PlanSafe, Frontier, Fits, Layout
<1>2. /\ q.placed = p.placed \cup {f} /\ q.cursor \in Nat
      /\ \/ ~ToEnd(l, p, f) /\ q.excluded = p.excluded /\ q.cursor = p.cursor + l.span[f]
         \/ ToEnd(l, p, f) /\ q.excluded = (p.excluded \/ HitsMoved(l, p, f)) /\ q.cursor = p.cursor
  BY <1>1, PlanStepIs
<1>. HIDE DEF q
<1>3. \A g \in l.live : l.off[g] \in Nat /\ l.span[g] \in Nat
  BY DEF Layout
\* The first run has been closed up so far.
<1>4. l.off[f] < top => l.off[f] <= p.cursor /\ l.off[f] + l.span[f] <= cut
  <2>. SUFFICES ASSUME l.off[f] < top
                PROVE  l.off[f] <= p.cursor /\ l.off[f] + l.span[f] <= cut
    OBVIOUS
  <2>1. /\ l.off[f] + l.span[f] <= cut
        /\ \/ l.off[f] = 0
           \/ \E g \in l.live : l.span[g] > 0 /\ l.off[g] + l.span[g] = l.off[f]
    BY <1>1 DEF TwoRuns
  <2>2. ASSUME NEW g \in l.live, l.span[g] > 0, l.off[g] + l.span[g] = l.off[f]
        PROVE  l.off[f] <= p.cursor
    <3>1. l.off[g] < l.off[f] /\ l.off[g] < top
      BY <1>1, <1>3, <2>2
    <3>2. g \in p.placed
      BY <3>1, NextFirst
    <3>. QED
      BY <2>2, <3>1, <3>2 DEF Fits
  <2>. QED
    BY <1>1, <2>1, <2>2
<1>5. l.off[f] < top /\ l.span[f] > 0 => l.off[f] = p.cursor
  BY <1>1, <1>4 DEF PlanSafe, CursorBehind
\* A file of the second run has room before it.
<1>6. top <= l.off[f] /\ l.span[f] > 0 => p.cursor + l.span[f] <= top
  BY <1>1 DEF Fits
<1>7. ASSUME ToEnd(l, p, f)
      PROVE  ~HitsMoved(l, p, f)
  <2>. SUFFICES ASSUME NEW g \in Moved(l, p), p.cursor < l.off[g] + l.span[g],
                       l.off[g] < p.cursor + l.span[f]
                PROVE  FALSE
    BY DEF HitsMoved
  <2>1. g \in p.placed /\ g \in l.live /\ l.off[g] \in Nat /\ l.span[g] \in Nat
    BY <1>1, <1>3 DEF Moved
  <2>2. top <= l.off[g]
    BY <1>1, <2>1 DEF Fits
  <2>3. l.off[f] # p.cursor
    BY <1>7 DEF ToEnd, InPlace
  <2>4. p.cursor + l.span[f] <= top
    BY <1>1, <1>5, <1>6, <2>3
  <2>. QED
    BY <1>1, <2>1, <2>2, <2>4
<1>8. ~q.excluded
  BY <1>1, <1>2, <1>7
\* One in its place, into the hole, or empty.
<1>9. /\ p.cursor <= q.cursor /\ q.cursor <= top
      /\ l.off[f] < top => l.off[f] + l.span[f] <= q.cursor
  <2>1. CASE l.span[f] = 0
    BY <1>1, <1>2, <1>4, <2>1
  <2>2. CASE l.span[f] > 0 /\ l.off[f] < top
    <3>1. ~ToEnd(l, p, f)
      BY <1>5, <2>2 DEF ToEnd, InPlace
    <3>2. cut <= top
      BY DEF TwoRuns
    <3>. QED
      BY <1>1, <1>2, <1>4, <1>5, <2>2, <3>1, <3>2
  <2>3. CASE l.span[f] > 0 /\ top <= l.off[f]
    BY <1>1, <1>2, <1>6, <2>3
  <2>. QED
    BY <1>1, <2>1, <2>2, <2>3
<1>10. ASSUME NEW g \in q.placed, l.off[g] < top
       PROVE  l.off[g] + l.span[g] <= q.cursor
  <2>1. CASE g = f
    BY <1>9, <1>10, <2>1
  <2>2. CASE g \in p.placed
    <3>1. l.off[g] + l.span[g] <= p.cursor /\ l.off[g] \in Nat /\ l.span[g] \in Nat
      BY <1>1, <1>3, <1>10, <2>2 DEF Fits
    <3>. QED
      BY <1>1, <1>2, <1>9, <3>1
  <2>. QED
    BY <1>2, <2>1, <2>2
<1>11. ASSUME NEW g \in l.live \ q.placed, l.span[g] > 0, top <= l.off[g]
       PROVE  q.cursor + l.logical <= top + l.off[g]
  <2>1. /\ l.off[g] \in Nat /\ l.off[f] <= l.off[g] /\ l.off[f] + l.span[f] <= l.off[g]
    BY <1>2, <1>11, NextFirst
  <2>2. p.cursor + l.logical <= top + l.off[g]
    BY <1>2, <1>11 DEF Fits
  <2>3. CASE l.span[f] = 0
    BY <1>1, <1>2, <2>2, <2>3
  <2>4. CASE l.span[f] > 0 /\ l.off[f] < top
    <3>1. q.cursor <= cut
      BY <1>1, <1>2, <1>4, <1>5, <2>4
    <3>2. cut + l.logical <= top + top
      BY DEF TwoRuns
    <3>. QED
      BY <1>1, <1>2, <1>11, <2>1, <3>1, <3>2
  <2>5. CASE l.span[f] > 0 /\ top <= l.off[f]
    <3>1. p.cursor + l.logical <= top + l.off[f]
      BY <1>1, <2>5 DEF Fits
    <3>. QED
      BY <1>1, <1>2, <2>1, <3>1
  <2>. QED
    BY <1>1, <2>3, <2>4, <2>5
<1>12. Fits(l, q, top)
  BY <1>8, <1>9, <1>10, <1>11 DEF Fits
<1>. QED
  BY <1>12 DEF q

\* A whole plan leaves a layout of two runs, if no file is left out.
LEMMA RoundTwoRuns ==
    ASSUME NEW l \in Layout, NEW p \in PlanType, PlanSafe(l, p), ClosesUp(l, p), p.placed = l.live,
           NEW n \in Ends(l, p, l.live), NEW m, m = Finalized(l, p, l.live, n), m \in Layout
    PROVE  InTwoRuns(m, StartPlan(m))
<1>1. /\ p.cursor \in Nat /\ p.dataEnd \in Nat /\ l.logical \in Nat /\ p.cursor <= l.logical
      /\ p.target \in [Files -> Nat] /\ l.span \in [Files -> Nat] /\ l.live \subseteq Files
  BY DEF PlanType, Layout, PlanSafe, Frontier
<1>2. m.live = l.live /\ m.off = p.target /\ m.span = l.span /\ m.logical = n
  BY DEF Finalized
<1>3. n \in Nat /\ n <= p.dataEnd
  BY <1>1 DEF Ends, PlanSafe, TargetsBehindFrontier
<1>4. p.cursor + n <= l.logical + l.logical
  BY <1>1, <1>3 DEF ClosesUp
<1>5. ASSUME NEW f \in l.live
      PROVE  \/ l.logical <= m.off[f]
             \/ /\ m.off[f] + m.span[f] <= p.cursor
                /\ \/ m.off[f] = 0
                   \/ \E g \in m.live : m.span[g] > 0 /\ m.off[g] + m.span[g] = m.off[f]
  BY <1>2 DEF ClosesUp, EndsAt
<1>6. TwoRuns(m, p.cursor, l.logical)
  BY <1>1, <1>2, <1>4, <1>5 DEF TwoRuns
<1>7. Fits(m, StartPlan(m), l.logical)
  <2>1. /\ ~StartPlan(m).excluded /\ StartPlan(m).cursor = 0 /\ StartPlan(m).placed = {}
    BY DEF StartPlan
  <2>2. ASSUME NEW f \in m.live, l.logical <= m.off[f]
        PROVE  n <= l.logical + m.off[f]
    BY <1>1, <1>2, <1>3, <1>4, <2>2
  <2>. QED
    BY <1>1, <1>2, <1>3, <2>1, <2>2 DEF Fits
<1>. QED
  BY <1>1, <1>6, <1>7 DEF InTwoRuns

LEMMA StartPlanClosesUp ==
    ASSUME NEW l \in Layout
    PROVE  ClosesUp(l, StartPlan(l))
BY DEF Layout, StartPlan, ClosesUp

LEMMA RottenLeft ==
    ASSUME IsFiniteSet(Rotten), NEW S
    PROVE  /\ IsFiniteSet(S \cap Rotten) /\ Cardinality(S \cap Rotten) \in Nat
           /\ Cardinality(Rotten) \in Nat /\ Cardinality(S \cap Rotten) <= Cardinality(Rotten)
BY FS_Subset, FS_CardinalityType

\* A round that finds bad files leaves fewer that may be.
LEMMA FewerRotten ==
    ASSUME IsFiniteSet(Rotten), NEW S, NEW bad, bad \subseteq S \cap Rotten, bad # {}
    PROVE  Cardinality((S \ bad) \cap Rotten) + 1 <= Cardinality(S \cap Rotten)
<1>. DEFINE A == (S \ bad) \cap Rotten
            B == S \cap Rotten
<1>1. IsFiniteSet(A) /\ IsFiniteSet(B) /\ Cardinality(A) \in Nat /\ Cardinality(B) \in Nat
  BY RottenLeft
<1>2. A \subseteq B /\ A # B
  OBVIOUS
<1>3. Cardinality(A) <= Cardinality(B) /\ Cardinality(A) # Cardinality(B)
  BY <1>1, <1>2, FS_Subset
<1>. QED
  BY <1>1, <1>3

LEMMA RoundsInvKept ==
    ASSUME IsFiniteSet(Rotten), PlanInv, PlanInv', RoundsInv, [Next]_vars
    PROVE  RoundsInv'
<1>. DEFINE Left == 2 * Cardinality(layout.live \cap Rotten)
<1>1. /\ layout \in Layout /\ Legal(layout) /\ plan \in PlanType /\ PlanSafe(layout, plan)
      /\ round \in Nat /\ Cardinality(layout.live \cap Rotten) \in Nat /\ MostRounds \in Nat
      /\ ClosesUp(layout, plan)
  BY RottenLeft DEF PlanInv, TypeOK, LayoutLegal, MostRounds, RoundsInv
<1>2. CASE UNCHANGED vars
  BY <1>2 DEF vars, RoundsInv
<1>3. ASSUME NEW f \in Files, Place(f)
      PROVE  RoundsInv'
  <2>1. /\ UNCHANGED <<layout, round, done>> /\ IsNext(layout, plan, f)
        /\ plan' = PlanStep(layout, plan, f)
    BY <1>3 DEF Place
  <2>2. ClosesUp(layout, plan')
    BY <1>1, <2>1, PlanStepClosesUp
  <2>3. InTwoRuns(layout, plan) => InTwoRuns(layout, plan')
    BY <1>1, <2>1, PlanStepFits DEF InTwoRuns
  <2>. QED
    BY <2>1, <2>2, <2>3 DEF RoundsInv
<1>4. ASSUME NEW bad \in SUBSET layout.live, FinalizeRound(bad)
      PROVE  RoundsInv'
  <2>. DEFINE keep == layout.live \ bad
  <2>1. /\ ~done /\ plan.placed = layout.live /\ bad \subseteq layout.live \cap Rotten
        /\ plan' = StartPlan(layout') /\ round' = round + 1 /\ layout' \in Layout
        /\ done' = ((~plan.excluded /\ bad = {}) \/ round' = MaxRounds)
    BY <1>4 DEF FinalizeRound, PlanInv, TypeOK
  <2>2. PICK n \in Ends(layout, plan, keep) : layout' = Finalized(layout, plan, keep, n)
    BY <1>4 DEF FinalizeRound
  <2>3. layout'.live = keep
    BY <2>2 DEF Finalized
  <2>4. ClosesUp(layout', plan')
    BY <2>1, StartPlanClosesUp
  <2>5. \/ round + Left + 2 <= MostRounds
        \/ round + Left + 1 <= MostRounds /\ InTwoRuns(layout, plan)
    BY <2>1 DEF RoundsInv
  <2>6. Left \in Nat
    BY <1>1
  <2>7. round' \in Nat /\ round' <= MostRounds
    BY <1>1, <2>1, <2>5, <2>6
  <2>8. CASE bad # {}
    <3>. DEFINE Now == 2 * Cardinality(keep \cap Rotten)
    <3>1. Now \in Nat /\ Now + 2 <= Left
      <4>1. Cardinality(keep \cap Rotten) \in Nat
        BY RottenLeft
      <4>2. Cardinality(keep \cap Rotten) + 1 <= Cardinality(layout.live \cap Rotten)
        BY <2>1, <2>8, FewerRotten
      <4>. QED
        BY <1>1, <4>1, <4>2
    <3>2. round' + Now + 2 <= MostRounds
      <4>. HIDE DEF Now, Left
      <4>. QED
        BY <1>1, <2>1, <2>5, <2>6, <3>1
    <3>. QED
      BY <2>3, <2>4, <2>7, <3>2 DEF RoundsInv, MostRounds
  <2>9. CASE bad = {} /\ plan.excluded
    <3>1. ~InTwoRuns(layout, plan)
      BY <2>9 DEF InTwoRuns, Fits
    <3>2. keep = layout.live
      BY <2>9
    <3>3. InTwoRuns(layout', plan')
      BY <1>1, <2>1, <2>2, <3>2, RoundTwoRuns
    <3>4. round' + Left + 1 <= MostRounds
      <4>. HIDE DEF Left
      <4>. QED
        BY <1>1, <2>1, <2>5, <2>6, <3>1
    <3>. QED
      BY <2>3, <2>4, <2>7, <3>2, <3>3, <3>4 DEF RoundsInv, MostRounds
  <2>10. CASE bad = {} /\ ~plan.excluded
    BY <2>1, <2>4, <2>7, <2>10 DEF RoundsInv, MostRounds
  <2>. QED
    BY <2>8, <2>9, <2>10
<1>. QED
  BY <1>2, <1>3, <1>4 DEF Next

\* For every store whose disk spoils finitely many files while it compacts: a
\* compaction takes at most two rounds, and two more for each bad file.
THEOREM RoundsBounded == IsFiniteSet(Rotten) => (Spec => [](round <= MostRounds))
<1>. SUFFICES ASSUME IsFiniteSet(Rotten)
              PROVE  Spec => [](round <= MostRounds)
  OBVIOUS
<1>1. Init => RoundsInv
  <2>. SUFFICES ASSUME Init
                PROVE  RoundsInv
    OBVIOUS
  <2>1. layout \in Layout /\ plan = StartPlan(layout) /\ round = 0
    BY LayoutsAssumption DEF Init
  <2>2. Cardinality(layout.live \cap Rotten) \in Nat /\ Cardinality(Rotten) \in Nat
        /\ Cardinality(layout.live \cap Rotten) <= Cardinality(Rotten)
    BY RottenLeft
  <2>. QED
    BY <2>1, <2>2, StartPlanClosesUp DEF RoundsInv, MostRounds
<1>2. PlanInv /\ PlanInv' /\ RoundsInv /\ [Next]_vars => RoundsInv'
  BY RoundsInvKept
<1>3. RoundsInv => round <= MostRounds
  BY DEF RoundsInv
<1>. QED
  BY <1>1, <1>2, <1>3, PlanInvHolds, PTL DEF Spec

\* So no compaction uses up its 8 rounds unless the disk spoils three files while it
\* runs, however many files there are and however they lie.
THEOREM ConvergesInTime ==
    IsFiniteSet(Rotten) /\ MostRounds < MaxRounds => (Spec => []ConvergesBeforeLimit)
<1>. SUFFICES ASSUME IsFiniteSet(Rotten), MostRounds < MaxRounds
              PROVE  Spec => []ConvergesBeforeLimit
  OBVIOUS
<1>1. PlanInv /\ round <= MostRounds => ConvergesBeforeLimit
  BY BoundsAssumption, RottenLeft DEF PlanInv, TypeOK, ConvergesBeforeLimit, MostRounds
<1>. QED
  BY <1>1, PlanInvHolds, RoundsBounded, PTL

-----------------------------------------------------------------------------
(***************************************************************************)
(* The inductive invariant: types.                                         *)
(***************************************************************************)
EntryType == [name : Files, state : StateNames, off : Nat, span : Nat \ {0},
              num : 1..MaxDownloads]
Image     == [gen : Nat, logical : 0..MaxBlock, entries : SUBSET EntryType]

Clear(e, g) == Apart(e.off, e.span, g.off, g.span)

\* An index one may go on with: entries apart, below the logical size.
Sound(img) ==
    /\ img \in Image
    /\ \A e, g \in img.entries : e.name = g.name => e = g
    /\ \A e, g \in img.entries : e # g => Clear(e, g)
    /\ \A e \in img.entries : e.off + e.span <= img.logical

FlushSteps   == {"idle", "called", "snapped", "synced", "persisting"}
CompactSteps == FlushSteps \cup {"scan", "plan", "move", "flipped", "install", "over"}
JobType == [plan : PlanType, left : SUBSET Files, block : Nat,
            bad : SUBSET Files, final : BOOLEAN]

TypeInv ==
    /\ up \in BOOLEAN /\ compacting \in BOOLEAN
    /\ Sound(idx) /\ Sound(disk)
    /\ \A img \in pending : Sound(img)
    /\ snap \in [Threads -> Image]
    /\ \A t \in Threads : Sound(snap[t])
    /\ file \in [Blocks -> Nat \X Nat] /\ synced \in [Blocks -> Nat \X Nat]
    /\ pc \in [Threads -> CompactSteps]
    /\ \A t \in Flushers : pc[t] \in FlushSteps
    /\ lock \in Threads \cup {Nobody}
    /\ written \in [Files -> Nat]
    /\ job \in JobType
    /\ downloads \in 0..MaxDownloads

-----------------------------------------------------------------------------
(***************************************************************************)
(* The inductive invariant: who is where, and how old the images are.      *)
(***************************************************************************)
Downloading(index) == InState(index, "downloading")

\* t has an image of the index that it may still persist.
Holding(t) == pc[t] \in {"snapped", "synced", "persisting"}

\* The compaction has the image of the new layout; it is durable; either.
Finalizing == job.final /\ pc[Compactor] \in {"synced", "persisting"}
Flipped    == pc[Compactor] \in {"flipped", "install"}
Turning    == Finalizing \/ Flipped

DownInv ==
    ~up => /\ \A t \in Threads : pc[t] = "idle"
           /\ lock = Nobody /\ ~compacting
           /\ idx = Empty /\ written = [f \in Files |-> 0]

\* The image of whoever is inside persist_image is pending, and so are those whose
\* persist has failed.
LockInv ==
    /\ \A img \in pending : img.gen >= disk.gen
    /\ up => \A t \in Threads : /\ pc[t] = "persisting" <=> lock = t
                                /\ lock = t => snap[t] \in pending

CompactInv ==
    /\ compacting <=> pc[Compactor] # "idle"
    /\ compacting => Downloading(idx) = {}
    /\ pc[Compactor] \in {"called", "snapped", "plan", "move"} => ~job.final
    /\ Flipped => job.final

\* Nobody holds an image newer than the index but a compaction that turns it,
\* and while files move the durable image is no older than the index.
GenInv ==
    /\ \A t \in Flushers : Holding(t) => snap[t].gen <= idx.gen
    /\ Holding(Compactor) => snap[Compactor].gen = IF job.final THEN idx.gen + 1 ELSE idx.gen
    /\ Flipped => disk = snap[Compactor] /\ disk.gen = idx.gen + 1
    /\ up /\ ~Flipped => disk.gen <= idx.gen
    /\ pc[Compactor] \in {"scan", "plan", "move"} \/ Finalizing => disk.gen = idx.gen

\* None is pending but the image of the new layout while it is persisted.
PendingInv ==
    up => \A a \in pending :
              a.gen <= idx.gen \/ (Flipping(Compactor) /\ a = snap[Compactor])

ControlInv == DownInv /\ LockInv /\ CompactInv /\ GenInv /\ PendingInv

-----------------------------------------------------------------------------
(***************************************************************************)
(* The inductive invariant: every image that may yet be read or recovered. *)
(***************************************************************************)
Held   == {snap[t] : t \in {u \in Threads : Holding(u)}}
OnDisk == {disk} \cup pending \cup
          {snap[t] : t \in {u \in Threads : pc[u] \in {"synced", "persisting"}}}
Images == (IF up THEN {idx} ELSE {}) \cup {disk} \cup pending \cup Held

\* What is older than the durable image is refused by its watermark.
Live == {img \in Images : img.gen >= disk.gen}

\* The files of a that b must have.
Succeeds(a, b) ==
    \A e \in Active(a) : \/ e.num \in deleted \cup rotten
                         \/ \E g \in Active(b) : g.name = e.name /\ g.num = e.num

Kept(copy, e) == e.num \in rotten \/ Holds(copy, e)

OrderInv == \A a, b \in Live : a.gen <= b.gen => Succeeds(a, b)

\* What the data file is read through now, or may be after a crash.
Seen == Live \cup (IF up THEN {idx} ELSE {})

\* A file that failed its crc in a round that then failed itself: the index calls it
\* Bad and may use its place, older images have it still.
Lapsed(e) == e.num \in rotten /\ e \notin Active(idx)

\* A file that moves is in two places, in two images; no other file is in either.
ApartInv ==
    /\ \A a, b \in Seen : \A e \in Active(a), g \in Active(b) :
           e.num = g.num \/ Lapsed(e) \/ Lapsed(g) \/ Clear(e, g)
    /\ up => \A a \in Live : \A e \in Active(a), d \in Downloading(idx) : Clear(e, d)

\* Only the image of a new layout is newer than the index: nothing is Downloading
\* in it.  Space is taken past all the other live files, and an image as new as the
\* index has no file the index has not.
IndexInv ==
    up => \A a \in Live :
              /\ a.gen > idx.gen => Downloading(a) = {}
              /\ a.gen <= idx.gen => \A e \in Active(a) : e.off + e.span <= idx.logical
              /\ a.gen = idx.gen => \A e \in Active(a) : e \in Active(idx) \/ Lapsed(e)

DataInv ==
    /\ \A a \in Live : \A e \in Active(a) : Kept(file, e)
    /\ \A a \in Live \cap OnDisk : \A e \in Active(a) : Kept(synced, e)

WriterInv ==
    \A d \in Downloading(idx) :
        /\ written[d.name] <= d.span
        /\ \A i \in 0..(written[d.name] - 1) : file[d.off + i] = <<d.num, i>>

LiveInv == OrderInv /\ ApartInv /\ IndexInv /\ DataInv /\ WriterInv

-----------------------------------------------------------------------------
(***************************************************************************)
(* The inductive invariant: a round of a compaction.                       *)
(***************************************************************************)
PlannedInv ==
    pc[Compactor] \in {"plan", "move"} =>
        /\ PlanSafe(LayoutOf(idx), job.plan)
        /\ job.plan.dataEnd <= MaxBlock
        /\ pc[Compactor] = "plan" => job.block = 0 /\ job.bad = {}

\* How many blocks of a file have been read.
Read(e) == IF e.name \notin job.left THEN e.span ELSE IF Turn(e) THEN job.block ELSE 0

Copied(e) ==
    \/ e.num \in rotten
    \/ \A i \in 0..(Read(e) - 1) : file[job.plan.target[e.name] + i] = <<e.num, i>>

MoveInv ==
    pc[Compactor] = "move" =>
        /\ job.plan.placed = LayoutOf(idx).live /\ job.left \subseteq job.plan.placed
        /\ \A e \in Active(idx) : /\ e.name \in job.bad => e.num \in rotten
                                  /\ Turn(e) => job.block < e.span
                                  /\ Copied(e)

RoundInv == PlannedInv /\ MoveInv

Inv == TypeInv /\ ControlInv /\ LiveInv /\ RoundInv

-----------------------------------------------------------------------------
(***************************************************************************)
(* Lemmas about entries, their blocks, and layouts.                        *)
(***************************************************************************)
\* Entries are compared by where they lie and by what they hold.
LEMMA ActiveEntry ==
    ASSUME NEW img, Sound(img), NEW e \in img.entries
    PROVE  /\ e \in EntryType /\ e.name \in Files /\ e.state \in StateNames
           /\ e.off \in Nat /\ e.span \in Nat /\ e.span >= 1 /\ e.num \in 1..MaxDownloads
           /\ img.gen \in Nat /\ img.logical \in Nat /\ img.logical <= MaxBlock
           /\ e.off + e.span <= img.logical
<1>1. img.entries \in SUBSET EntryType /\ img.gen \in Nat /\ img.logical \in 0..MaxBlock
  BY DEF Sound, Image
<1>2. e \in EntryType
  BY <1>1
<1>3. e.span \in Nat \ {0}
  BY <1>2 DEF EntryType
<1>. QED
  BY <1>1, <1>2, <1>3, StoreAssumption DEF EntryType, Sound

\* A block of one of two entries that are clear of each other is not the other's.
LEMMA ClearBlocks ==
    ASSUME NEW o1 \in Nat, NEW s1 \in Nat, NEW o2 \in Nat, NEW s2 \in Nat,
           Apart(o1, s1, o2, s2), NEW i \in 0..(s1 - 1), NEW j \in 0..(s2 - 1)
    PROVE  o1 + i # o2 + j
BY DEF Apart

LEMMA ClearFirst ==
    ASSUME NEW o1 \in Nat, NEW s1 \in Nat, NEW o2 \in Nat, NEW s2 \in Nat, s2 >= 1,
           Apart(o1, s1, o2, s2), NEW i \in 0..(s1 - 1)
    PROVE  o1 + i # o2
BY DEF Apart

LEMMA InBlocks ==
    ASSUME NEW o \in Nat, NEW s \in Nat, o + s <= MaxBlock, NEW k \in 0..(s - 1)
    PROVE  o + k \in Blocks
<1>1. MaxBlock \in Nat
  BY StoreAssumption
<1>2. k \in Nat /\ k <= s - 1
  OBVIOUS
<1>3. o + k \in Nat /\ o + k <= MaxBlock - 1
  BY <1>1, <1>2
<1>. QED
  BY <1>1, <1>3 DEF Blocks

\* A write elsewhere leaves the data of an entry where it is.
LEMMA HoldsElsewhere ==
    ASSUME NEW copy \in [Blocks -> Nat \X Nat], NEW e \in EntryType, Holds(copy, e),
           e.off + e.span <= MaxBlock,
           NEW o \in Nat, NEW s \in Nat, NEW i \in 0..(s - 1), NEW cell,
           Apart(e.off, e.span, o, s)
    PROVE  Holds([copy EXCEPT ![o + i] = cell], e)
<1>1. e.off \in Nat /\ e.span \in Nat
  BY DEF EntryType
<1>. SUFFICES ASSUME NEW k \in 0..(e.span - 1)
              PROVE  [copy EXCEPT ![o + i] = cell][e.off + k] = <<e.num, k>>
  BY DEF Holds
<1>2. e.off + k # o + i
  BY <1>1, ClearBlocks
<1>3. e.off + k \in Blocks
  BY <1>1, InBlocks
<1>4. copy[e.off + k] = <<e.num, k>>
  BY DEF Holds
<1>. QED
  BY <1>2, <1>3, <1>4

\* The layout of an index has its Active files where they are.
LEMMA LayoutEntries ==
    ASSUME NEW img, Sound(img)
    PROVE  /\ LayoutOf(img).live = {e.name : e \in Active(img)}
           /\ \A e \in Active(img) : /\ LayoutOf(img).off[e.name] = e.off
                                     /\ LayoutOf(img).span[e.name] = e.span
           /\ LayoutOf(img).logical = img.logical
<1>. DEFINE act == Active(img)
            the(f) == CHOOSE e \in act : e.name = f
            l == LayoutOf(img)
<1>1. \A e \in act : e \in img.entries /\ e.name \in Files
  BY ActiveEntry DEF Active, InState
<1>2. \A e \in act : the(e.name) = e
  <2>. SUFFICES ASSUME NEW e \in act
                PROVE  the(e.name) = e
    OBVIOUS
  <2>1. the(e.name) \in act /\ the(e.name).name = e.name
    OBVIOUS
  <2>. QED
    BY <2>1, <1>1 DEF Sound
<1>3. /\ l.live = {e.name : e \in act} /\ l.logical = img.logical
      /\ l.off = [f \in Files |-> IF f \in {e.name : e \in act} THEN the(f).off ELSE 0]
      /\ l.span = [f \in Files |-> IF f \in {e.name : e \in act} THEN the(f).span ELSE 0]
  BY DEF LayoutOf
<1>4. \A e \in act : e.name \in {g.name : g \in act}
  OBVIOUS
<1>5. \A e \in act : l.off[e.name] = the(e.name).off /\ l.span[e.name] = the(e.name).span
  <2>. HIDE DEF the, l, act
  <2>. QED
    BY <1>1, <1>3, <1>4
<1>6. \A e \in act : l.off[e.name] = e.off /\ l.span[e.name] = e.span
  <2>. HIDE DEF the, l, act
  <2>. QED
    BY <1>2, <1>5
<1>. QED
  BY <1>3, <1>6

\* A file of the layout is an Active entry.
LEMMA LiveEntry ==
    ASSUME NEW img, Sound(img), NEW f \in LayoutOf(img).live
    PROVE  \E e \in Active(img) : /\ e.name = f /\ e \in img.entries
                                  /\ LayoutOf(img).off[f] = e.off
                                  /\ LayoutOf(img).span[f] = e.span
BY LayoutEntries DEF Active, InState

LEMMA LayoutSound ==
    ASSUME NEW img, Sound(img)
    PROVE  LayoutOf(img) \in Layout /\ Legal(LayoutOf(img))
<1>. DEFINE l == LayoutOf(img)
            act == Active(img)
            the(f) == CHOOSE e \in act : e.name = f
<1>1. l.live \subseteq Files
  BY LiveEntry, ActiveEntry
<1>2. img.logical \in Nat
  BY StoreAssumption DEF Sound, Image
<1>3. /\ l = [live |-> {e.name : e \in act},
              off |-> [f \in Files |-> IF f \in {e.name : e \in act} THEN the(f).off ELSE 0],
              span |-> [f \in Files |-> IF f \in {e.name : e \in act} THEN the(f).span ELSE 0],
              logical |-> img.logical]
  BY DEF LayoutOf
<1>4. \A f \in {e.name : e \in act} : the(f).off \in Nat /\ the(f).span \in Nat
  <2>. SUFFICES ASSUME NEW e \in act
                PROVE  the(e.name).off \in Nat /\ the(e.name).span \in Nat
    OBVIOUS
  <2>1. the(e.name) \in act
    OBVIOUS
  <2>2. the(e.name) \in img.entries
    BY <2>1 DEF Active, InState
  <2>. QED
    BY <2>2, ActiveEntry
<1>5. l \in Layout
  <2>. HIDE DEF the
  <2>1. /\ l.off \in [Files -> Nat] /\ l.span \in [Files -> Nat]
    BY <1>3, <1>4
  <2>. QED
    BY <1>1, <1>2, <1>3, <2>1 DEF Layout
<1>6. Legal(l)
  <2>. HIDE DEF l
  <2>1. ASSUME NEW f \in l.live, NEW g \in l.live, f # g
        PROVE  Apart(l.off[f], l.span[f], l.off[g], l.span[g])
    <3>1. PICK e \in Active(img) : /\ e.name = f /\ e \in img.entries
                                   /\ l.off[f] = e.off /\ l.span[f] = e.span
      BY LiveEntry DEF l
    <3>2. PICK h \in Active(img) : /\ h.name = g /\ h \in img.entries
                                   /\ l.off[g] = h.off /\ l.span[g] = h.span
      BY LiveEntry DEF l
    <3>. QED
      BY <2>1, <3>1, <3>2 DEF Sound, Clear
  <2>2. ASSUME NEW f \in l.live
        PROVE  l.off[f] + l.span[f] <= l.logical
    <3>1. PICK e \in Active(img) : /\ e.name = f /\ e \in img.entries
                                   /\ l.off[f] = e.off /\ l.span[f] = e.span
      BY LiveEntry DEF l
    <3>. QED
      BY <3>1, <1>3 DEF Sound
  <2>. QED
    BY <2>1, <2>2 DEF Legal
<1>. QED
  BY <1>5, <1>6

\* What a safe plan means for the entries of the index it was made from.
LEMMA TargetsOfEntries ==
    ASSUME NEW img, Sound(img), NEW p \in PlanType, PlanSafe(LayoutOf(img), p),
           NEW e \in Active(img), e.name \in p.placed
    PROVE  /\ p.target[e.name] \in Nat /\ p.target[e.name] + e.span <= p.dataEnd
           /\ p.target[e.name] # e.off =>
                  \A g \in Active(img) : Apart(p.target[e.name], e.span, g.off, g.span)
           /\ \A g \in Active(img) : g.name \in p.placed /\ g # e =>
                  Apart(p.target[e.name], e.span, p.target[g.name], g.span)
<1>. DEFINE l == LayoutOf(img)
<1>1. /\ e \in img.entries /\ e.name \in Files /\ e.name \in l.live
      /\ l.off[e.name] = e.off /\ l.span[e.name] = e.span
  BY LayoutEntries, ActiveEntry DEF Active, InState
<1>2. \A g \in Active(img) : /\ g \in img.entries /\ g.name \in l.live
                             /\ l.off[g.name] = g.off /\ l.span[g.name] = g.span
  BY LayoutEntries DEF Active, InState
<1>. HIDE DEF l
<1>3. TargetsBehindFrontier(l, p) /\ SparesSources(l, p) /\ KeepsApart(l, p)
  BY DEF PlanSafe, l
<1>4. p.target[e.name] \in Nat
  BY <1>1 DEF PlanType
<1>5. p.target[e.name] + e.span <= p.dataEnd
  BY <1>1, <1>3 DEF TargetsBehindFrontier
<1>6. ASSUME p.target[e.name] # e.off, NEW g \in Active(img)
      PROVE  Apart(p.target[e.name], e.span, g.off, g.span)
  <2>1. e.name \in Moved(l, p)
    BY <1>1, <1>6 DEF Moved
  <2>. QED
    BY <2>1, <1>1, <1>2, <1>3 DEF SparesSources
<1>7. ASSUME NEW g \in Active(img), g.name \in p.placed, g # e
      PROVE  Apart(p.target[e.name], e.span, p.target[g.name], g.span)
  <2>1. g.name # e.name
    BY <1>1, <1>2, <1>7 DEF Sound
  <2>. QED
    BY <2>1, <1>1, <1>2, <1>3, <1>7 DEF KeepsApart
<1>. QED
  BY <1>4, <1>5, <1>6, <1>7

-----------------------------------------------------------------------------
(***************************************************************************)
(* Lemmas about the images there are, and frames: what keeps each part of  *)
(* the invariant.                                                          *)
(***************************************************************************)
LEMMA ImagesAre ==
    \A a : a \in Images <=> \/ up /\ a = idx
                            \/ a = disk \/ a \in pending
                            \/ \E t \in Threads : Holding(t) /\ a = snap[t]
BY DEF Images, Held

LEMMA ImagesBecome ==
    \A a : a \in Images' <=> \/ up' /\ a = idx'
                             \/ a = disk' \/ a \in pending'
                             \/ \E t \in Threads : Holding(t)' /\ a = snap'[t]
BY DEF Images, Held

LEMMA ImagesSound ==
    ASSUME TypeInv
    PROVE  \A a \in Images : Sound(a) /\ a.gen \in Nat
<1>1. \A a \in Images : Sound(a)
  BY ImagesAre DEF TypeInv
<1>. QED
  BY <1>1 DEF Sound, Image

LEMMA LiveEntries ==
    ASSUME Inv, NEW a \in Live, NEW e \in Active(a)
    PROVE  /\ Sound(a) /\ e \in a.entries /\ e \in EntryType
           /\ e.off \in Nat /\ e.span \in Nat /\ e.span >= 1 /\ e.off + e.span <= MaxBlock
<1>1. Sound(a) /\ e \in a.entries
  BY ImagesSound DEF Inv, Live, Active, InState
<1>2. /\ e \in EntryType /\ e.off \in Nat /\ e.span \in Nat /\ e.span >= 1
      /\ a.logical \in Nat /\ a.logical <= MaxBlock /\ e.off + e.span <= a.logical
  BY <1>1, ActiveEntry
<1>3. e.off + e.span \in Nat /\ MaxBlock \in Nat
  BY <1>2, StoreAssumption
<1>. QED
  BY <1>1, <1>2, <1>3

\* Outside the turn of a compaction no live image is newer than the index.
LEMMA NoneNewer ==
    ASSUME TypeInv, ControlInv, up, ~Turning
    PROVE  /\ \A a \in Images : a.gen <= idx.gen
           /\ idx \in Live /\ disk \in Live
           /\ disk.gen = idx.gen => \A a \in Live : a.gen = idx.gen
<1>1. \A t \in Threads : Holding(t) => snap[t].gen <= idx.gen
  <2>. SUFFICES ASSUME NEW t \in Threads, Holding(t)
                PROVE  snap[t].gen <= idx.gen
    OBVIOUS
  <2>1. CASE t \in Flushers
    BY <2>1 DEF ControlInv, GenInv
  <2>2. CASE t = Compactor
    <3>1. ~job.final
      BY <2>2 DEF Holding, Turning, Finalizing, ControlInv, CompactInv
    <3>2. snap[t].gen = idx.gen
      BY <2>2, <3>1 DEF ControlInv, GenInv
    <3>3. idx.gen \in Nat
      BY DEF TypeInv, Sound, Image
    <3>. QED
      BY <3>2, <3>3
  <2>. QED
    BY <2>1, <2>2 DEF Threads
<1>2. disk.gen <= idx.gen
  BY DEF Turning, ControlInv, GenInv
<1>3. \A a \in pending : a.gen <= idx.gen
  <2>. SUFFICES ASSUME NEW a \in pending
                PROVE  a.gen <= idx.gen
    OBVIOUS
  <2>1. ~Flipping(Compactor)
    BY DEF Flipping, Turning, Finalizing
  <2>. QED
    BY <2>1 DEF ControlInv, PendingInv
<1>4. idx.gen \in Nat /\ disk.gen \in Nat /\ idx \in Images /\ disk \in Images
  BY ImagesAre, ImagesSound
<1>5. \A a \in Images : a.gen <= idx.gen
  BY <1>1, <1>2, <1>3, <1>4, ImagesAre
<1>6. idx \in Live /\ disk \in Live
  BY <1>2, <1>4 DEF Live
<1>7. disk.gen = idx.gen => \A a \in Live : a.gen = idx.gen
  BY <1>4, <1>5, ImagesSound DEF Live
<1>. QED
  BY <1>5, <1>6, <1>7

\* A thread's step makes no image live that was not.
LEMMA LiveFrame ==
    ASSUME TypeInv, up, up', idx' = idx, disk' \in Images, disk'.gen >= disk.gen,
           \A a \in pending' : a \in Images,
           \A t \in Threads : Holding(t)' => \/ Holding(t) /\ snap'[t] = snap[t]
                                             \/ snap'[t] = idx
    PROVE  Live' \subseteq Live
<1>. SUFFICES ASSUME NEW a \in Live'
              PROVE  a \in Live
  OBVIOUS
<1>1. a \in Images' /\ a.gen >= disk'.gen
  BY DEF Live
<1>2. a \in Images
  BY <1>1, ImagesAre, ImagesBecome
<1>3. a.gen \in Nat /\ disk.gen \in Nat /\ disk'.gen \in Nat
  BY <1>2, ImagesAre, ImagesSound
<1>4. a.gen >= disk.gen
  BY <1>1, <1>3
<1>. QED
  BY <1>2, <1>4 DEF Live

\* What is live stays as it should be when nothing is written to where it lies.
LEMMA OrderFrame ==
    ASSUME OrderInv, Live' \subseteq Live, rotten \subseteq rotten', deleted \subseteq deleted'
    PROVE  OrderInv'
<1>. SUFFICES ASSUME NEW a \in Live', NEW b \in Live', a.gen <= b.gen, NEW e \in Active(a)
              PROVE  \/ e.num \in deleted' \cup rotten'
                     \/ \E g \in Active(b) : g.name = e.name /\ g.num = e.num
  BY DEF OrderInv, Succeeds
<1>. QED
  BY DEF OrderInv, Succeeds

LEMMA ApartFrame ==
    ASSUME ApartInv, Live' \subseteq Live, up' => up /\ idx' = idx, rotten \subseteq rotten',
           Active(idx') \subseteq Active(idx)
    PROVE  ApartInv'
<1>1. \A e : Lapsed(e) => Lapsed(e)'
  BY DEF Lapsed
<1>2. \A a, b \in Seen' : \A e \in Active(a), g \in Active(b) :
          e.num = g.num \/ Lapsed(e) \/ Lapsed(g) \/ Clear(e, g)
  BY DEF ApartInv, Seen
<1>3. up' => \A a \in Live' : \A e \in Active(a), d \in Downloading(idx') : Clear(e, d)
  BY DEF ApartInv
<1>. QED
  BY <1>1, <1>2, <1>3 DEF ApartInv

LEMMA IndexFrame ==
    ASSUME IndexInv, Live' \subseteq Live, up' => up /\ idx' = idx, rotten \subseteq rotten'
    PROVE  IndexInv'
BY DEF IndexInv, Lapsed

LEMMA WriterFrame ==
    ASSUME WriterInv, idx' = idx, written' = written, file' = file
    PROVE  WriterInv'
BY DEF WriterInv

LEMMA QuietKeeps ==
    ASSUME LiveInv, up, idx' = idx, written' = written, file' = file,
           rotten' = rotten, deleted' = deleted, Live' \subseteq Live,
           \/ synced' = file
           \/ synced' = synced /\ Live' \cap OnDisk' \subseteq OnDisk
    PROVE  LiveInv'
<1>1. OrderInv' /\ ApartInv' /\ IndexInv' /\ WriterInv'
  BY OrderFrame, ApartFrame, IndexFrame, WriterFrame DEF LiveInv
<1>2. \A a \in Live' : \A e \in Active(a) : Kept(file, e)
  BY DEF LiveInv, DataInv
<1>3. \A a \in Live' \cap OnDisk' : \A e \in Active(a) : Kept(synced', e)
  <2>1. CASE synced' = file
    BY <2>1, <1>2
  <2>2. CASE synced' = synced /\ Live' \cap OnDisk' \subseteq OnDisk
    BY <2>2 DEF LiveInv, DataInv
  <2>. QED
    BY <2>1, <2>2
<1>4. DataInv'
  BY <1>2, <1>3 DEF DataInv, Kept
<1>. QED
  BY <1>1, <1>4 DEF LiveInv

LEMMA RoundFrame ==
    ASSUME RoundInv, idx' = idx, file' = file, job' = job, rotten' = rotten,
           pc'[Compactor] \in {"plan", "move"} => pc'[Compactor] = pc[Compactor]
    PROVE  RoundInv'
BY DEF RoundInv, PlannedInv, MoveInv, Copied, Read, Turn

LEMMA LockFrame ==
    ASSUME LockInv, up, lock' = lock, pending' = pending, disk' = disk,
           \A u \in Threads : /\ pc'[u] = "persisting" <=> pc[u] = "persisting"
                              /\ pc[u] = "persisting" => snap'[u] = snap[u]
    PROVE  LockInv'
BY DEF LockInv

LEMMA PendingFrame ==
    ASSUME TypeInv, PendingInv, up' => up, idx'.gen \in Nat, idx'.gen >= idx.gen,
           \A a \in pending' : a \in pending,
           Flipping(Compactor) => Flipping(Compactor)' /\ snap'[Compactor] = snap[Compactor]
    PROVE  PendingInv'
<1>. SUFFICES ASSUME up', NEW a \in pending'
              PROVE  \/ a.gen <= idx'.gen
                     \/ Flipping(Compactor)' /\ a = snap'[Compactor]
  BY DEF PendingInv
<1>1. a \in pending /\ a.gen \in Nat /\ idx.gen \in Nat
  BY DEF TypeInv, Sound, Image
<1>. QED
  BY <1>1 DEF PendingInv

\* The types, for a step of a thread.
LEMMA ThreadTypes ==
    ASSUME TypeInv, NEW t \in Threads, NEW step, pc' = [pc EXCEPT ![t] = step],
           step \in FlushSteps \/ (t = Compactor /\ step \in CompactSteps),
           up' = up, idx' = idx, written' = written, downloads' = downloads, file' = file,
           compacting' \in BOOLEAN, synced' \in {file, synced},
           disk' = disk \/ disk' \in pending,
           \A a \in pending' : a \in pending \/ a = snap[t],
           snap' \in {snap, [snap EXCEPT ![t] = idx], [snap EXCEPT ![t] = Empty]},
           lock' \in {lock, t, Nobody}, job' \in JobType
    PROVE  TypeInv'
<1>1. Sound(Empty) /\ Empty \in Image
  BY StoreAssumption DEF Sound, Empty, Image
<1>2. idx \in Image
  BY DEF TypeInv, Sound
<1>3. snap' \in [Threads -> Image] /\ \A u \in Threads : Sound(snap'[u])
  BY <1>1, <1>2 DEF TypeInv
<1>4. Sound(disk') /\ \A a \in pending' : Sound(a)
  BY DEF TypeInv
<1>5. pc' \in [Threads -> CompactSteps] /\ \A u \in Flushers : pc'[u] \in FlushSteps
  BY StoreAssumption DEF TypeInv, CompactSteps, Threads
<1>6. lock' \in Threads \cup {Nobody} /\ synced' \in [Blocks -> Nat \X Nat]
  BY DEF TypeInv
<1>. QED
  BY <1>3, <1>4, <1>5, <1>6 DEF TypeInv

-----------------------------------------------------------------------------
(***************************************************************************)
(* Steps of threads that change neither the index nor the data file.       *)
(***************************************************************************)
LEMMA ThreadLive ==
    ASSUME TypeInv, LiveInv, up, up', idx' = idx, written' = written, file' = file,
           rotten' = rotten, deleted' = deleted,
           disk' = disk \/ disk' \in pending, disk'.gen >= disk.gen,
           \A a \in pending' : \/ a \in pending
                               \/ \E u \in Threads : pc[u] = "synced" /\ a = snap[u],
           \A u \in Threads : Holding(u)' => \/ Holding(u) /\ snap'[u] = snap[u]
                                             \/ snap'[u] = idx,
           \/ synced' = file
           \/ /\ synced' = synced
              /\ \A u \in Threads : pc'[u] \in {"synced", "persisting"} =>
                     pc[u] \in {"synced", "persisting"} /\ snap'[u] = snap[u]
    PROVE  LiveInv'
<1>1. \A u \in Threads : pc[u] = "synced" => Holding(u)
  BY DEF Holding
<1>2. disk' \in Images /\ \A a \in pending' : a \in Images
  BY <1>1, ImagesAre
<1>3. Live' \subseteq Live
  BY <1>2, LiveFrame
<1>4. CASE synced' = file
  BY <1>3, <1>4, QuietKeeps
<1>5. CASE /\ synced' = synced
           /\ \A u \in Threads : pc'[u] \in {"synced", "persisting"} =>
                  pc[u] \in {"synced", "persisting"} /\ snap'[u] = snap[u]
  <2>1. OnDisk' \subseteq OnDisk
    BY <1>5 DEF OnDisk
  <2>. QED
    BY <1>3, <1>5, <2>1, QuietKeeps
<1>. QED
  BY <1>4, <1>5

\* What a thread does to the index, the data and the history: nothing.
Same == UNCHANGED <<idx, written, file, rotten, deleted, downloads>>

LEMMA NoJobType == NoJob \in JobType
<1>1. Sound(Empty)
  BY StoreAssumption DEF Sound, Empty, Image
<1>2. StartPlan(LayoutOf(Empty)) \in PlanType
  BY <1>1, LayoutSound, StartPlanSafe
<1>. QED
  BY <1>2 DEF NoJob, JobType

\* Somebody who has an image has one that may still be persisted.
LEMMA InitKeeps ==
    ASSUME StoreInit
    PROVE  Inv
<1>1. Sound(Empty) /\ Active(Empty) = {} /\ Downloading(Empty) = {} /\ Empty \in Image
  BY StoreAssumption DEF Sound, Empty, Image, Active, Downloading, InState
<1>2. /\ up = TRUE /\ disk = Empty /\ pending = {} /\ idx = Empty
      /\ pc = [t \in Threads |-> "idle"] /\ snap = [t \in Threads |-> Empty]
      /\ job = NoJob /\ lock = Nobody /\ compacting = FALSE
  BY FirstAssumption DEF StoreInit, DurableInit
<1>3. TypeInv
  <2>1. /\ file \in [Blocks -> Nat \X Nat] /\ synced \in [Blocks -> Nat \X Nat]
        /\ written \in [Files -> Nat] /\ downloads \in 0..MaxDownloads
    BY StoreAssumption DEF StoreInit, NoData
  <2>2. /\ pc \in [Threads -> CompactSteps] /\ \A t \in Flushers : pc[t] \in FlushSteps
        /\ snap \in [Threads -> Image] /\ \A t \in Threads : Sound(snap[t])
    BY <1>1, <1>2 DEF Threads, CompactSteps, FlushSteps
  <2>. QED
    BY <1>1, <1>2, <2>1, <2>2, NoJobType DEF TypeInv
<1>4. pc[Compactor] = "idle" /\ \A t \in Threads : pc[t] = "idle"
  BY <1>2 DEF Threads
<1>5. ControlInv
  <2>1. LockInv
    BY <1>2, <1>4, ThreadsAssumption, <1>1 DEF LockInv, Image
  <2>2. CompactInv
    BY <1>1, <1>2, <1>4 DEF CompactInv, Flipped
  <2>3. GenInv
    BY <1>1, <1>2, <1>4 DEF GenInv, Holding, Flipped, Finalizing, Threads, Image
  <2>. QED
    BY <1>2, <2>1, <2>2, <2>3 DEF ControlInv, DownInv, PendingInv
<1>6. \A a \in Images : a = Empty
  BY <1>2, <1>4, ImagesAre DEF Holding
<1>7. (\A a \in Live : Active(a) = {} /\ Downloading(a) = {}) /\ (\A a \in Seen : Active(a) = {})
  BY <1>1, <1>2, <1>6 DEF Live, Seen
<1>8. LiveInv
  BY <1>1, <1>2, <1>7 DEF LiveInv, OrderInv, Succeeds, ApartInv, IndexInv, DataInv, WriterInv
<1>9. RoundInv
  BY <1>4 DEF RoundInv, PlannedInv, MoveInv
<1>. QED
  BY <1>3, <1>5, <1>8, <1>9 DEF Inv

LEMMA FlushCallKeeps ==
    ASSUME Inv, NEW t \in Flushers, FlushCall(t)
    PROVE  Inv'
<1>1. /\ t \in Threads /\ t # Compactor /\ up /\ pc[t] = "idle"
      /\ pc' = [pc EXCEPT ![t] = "called"] /\ pc \in [Threads -> CompactSteps]
      /\ UNCHANGED <<up, disk, pending, compacting, synced, snap, lock, job>> /\ Same
  BY StoreAssumption DEF Inv, TypeInv, FlushCall, Goto, Threads, header, data, history, Same
<1>2. \A u \in Threads : pc'[u] = IF u = t THEN "called" ELSE pc[u]
  BY <1>1
<1>3. pc'[Compactor] = pc[Compactor]
  BY <1>1, <1>2 DEF Threads
<1>4. TypeInv'
  BY <1>1, ThreadTypes DEF Inv, TypeInv, Same, FlushSteps
<1>5. ControlInv'
  <2>1. LockInv'
    BY <1>1, <1>2, LockFrame DEF Inv, ControlInv
  <2>2. CompactInv'
    BY <1>1, <1>3 DEF Inv, ControlInv, CompactInv, Same, Downloading, InState, Flipped
  <2>3. \A u \in Threads : Holding(u)' => Holding(u)
    BY <1>2 DEF Holding
  <2>4. GenInv'
    BY <1>1, <1>3, <2>3 DEF Inv, ControlInv, GenInv, Same, Flipped, Finalizing, Threads
  <2>5. PendingInv'
    BY <1>1, <1>3, PendingFrame DEF Inv, ControlInv, Flipping, Same, TypeInv, Sound, Image
  <2>. QED
    BY <1>1, <2>1, <2>2, <2>4, <2>5 DEF ControlInv, DownInv
<1>6. LiveInv'
  BY <1>1, <1>2, ThreadLive DEF Inv, Same, Holding, TypeInv, Sound, Image
<1>7. RoundInv'
  BY <1>1, <1>3, RoundFrame DEF Inv, Same
<1>. QED
  BY <1>4, <1>5, <1>6, <1>7 DEF Inv

LEMMA SnapshotKeeps ==
    ASSUME Inv, NEW t \in Threads, Snapshot(t)
    PROVE  Inv'
<1>1. /\ up /\ pc[t] = "called" /\ pc[Compactor] # "plan"
      /\ pc' = [pc EXCEPT ![t] = "snapped"] /\ pc \in [Threads -> CompactSteps]
      /\ snap' = [snap EXCEPT ![t] = idx] /\ snap \in [Threads -> Image]
      /\ UNCHANGED <<up, disk, pending, compacting, synced, lock, job>> /\ Same
  BY DEF Inv, TypeInv, Snapshot, Goto, header, data, history, Same
<1>2. \A u \in Threads : /\ pc'[u] = IF u = t THEN "snapped" ELSE pc[u]
                         /\ snap'[u] = IF u = t THEN idx ELSE snap[u]
  BY <1>1
<1>3. /\ Compactor \in Threads /\ idx.gen \in Nat /\ disk.gen \in Nat
      /\ t = Compactor \/ t \in Flushers
  BY DEF Threads, Inv, TypeInv, Sound, Image
<1>4. TypeInv'
  BY <1>1, ThreadTypes DEF Inv, TypeInv, Same, FlushSteps
<1>5. ControlInv'
  <2>1. LockInv'
    BY <1>1, <1>2, LockFrame DEF Inv, ControlInv
  <2>2. CompactInv'
    BY <1>1, <1>2, <1>3 DEF Inv, ControlInv, CompactInv, Same, Downloading, InState, Flipped
  <2>3. \A u \in Threads : u # t => (Holding(u)' <=> Holding(u)) /\ snap'[u] = snap[u]
    BY <1>2 DEF Holding
  <2>4. Finalizing' = Finalizing /\ Flipped' = Flipped /\ (t = Compactor => ~job.final /\ ~Flipped)
    BY <1>1, <1>2, <1>3 DEF Inv, ControlInv, CompactInv, Finalizing, Flipped
  <2>5. GenInv'
    <3>1. \A u \in Flushers : Holding(u)' => snap'[u].gen <= idx.gen
      BY <1>2, <1>3, <2>3 DEF Inv, ControlInv, GenInv, Threads
    <3>2. Holding(Compactor)' => snap'[Compactor].gen = IF job.final THEN idx.gen + 1 ELSE idx.gen
      BY <1>2, <1>3, <2>3, <2>4 DEF Inv, ControlInv, GenInv
    <3>3. pc'[Compactor] \in {"scan", "plan", "move"} => pc[Compactor] \in {"scan", "plan", "move"}
      BY <1>2, <1>3
    <3>4. Flipped => snap'[Compactor] = snap[Compactor]
      BY <1>2, <1>3, <2>4
    <3>. QED
      BY <1>1, <2>4, <3>1, <3>2, <3>3, <3>4 DEF Inv, ControlInv, GenInv, Same
  <2>6. PendingInv'
    <3>1. Flipping(Compactor) => Flipping(Compactor)' /\ snap'[Compactor] = snap[Compactor]
      BY <1>1, <1>2, <1>3 DEF Flipping
    <3>. QED
      BY <1>1, <1>3, <3>1, PendingFrame DEF Inv, ControlInv, Same
  <2>. QED
    BY <1>1, <2>1, <2>2, <2>5, <2>6 DEF ControlInv, DownInv
<1>6. LiveInv'
  <2>1. \A u \in Threads : Holding(u)' => (Holding(u) /\ snap'[u] = snap[u]) \/ snap'[u] = idx
    BY <1>2 DEF Holding
  <2>2. \A u \in Threads : pc'[u] \in {"synced", "persisting"} =>
            pc[u] \in {"synced", "persisting"} /\ snap'[u] = snap[u]
    BY <1>2
  <2>. QED
    BY <1>1, <1>3, <2>1, <2>2, ThreadLive DEF Inv, Same
<1>7. RoundInv'
  BY <1>1, <1>2, <1>3, RoundFrame DEF Inv, Same
<1>. QED
  BY <1>4, <1>5, <1>6, <1>7 DEF Inv

LEMMA SyncDataKeeps ==
    ASSUME Inv, NEW t \in Threads, SyncData(t)
    PROVE  Inv'
<1>1. /\ up /\ pc[t] = "snapped" /\ synced' = file
      /\ pc' = [pc EXCEPT ![t] = "synced"] /\ pc \in [Threads -> CompactSteps]
      /\ UNCHANGED <<up, disk, pending, compacting, snap, lock, job>> /\ Same
  BY DEF Inv, TypeInv, SyncData, Goto, header, history, Same
<1>2. \A u \in Threads : pc'[u] = IF u = t THEN "synced" ELSE pc[u]
  BY <1>1
<1>3. /\ Compactor \in Threads /\ disk.gen \in Nat
      /\ t = Compactor => ~job.final /\ ~Flipped
      /\ t = Compactor \/ t \in Flushers
  BY <1>1 DEF Threads, Inv, TypeInv, Sound, Image, ControlInv, CompactInv, Flipped
<1>4. TypeInv'
  BY <1>1, ThreadTypes DEF Inv, TypeInv, Same, FlushSteps
<1>5. Finalizing' = Finalizing /\ Flipped' = Flipped
  BY <1>1, <1>2, <1>3 DEF Finalizing, Flipped
<1>6. ControlInv'
  <2>1. LockInv'
    BY <1>1, <1>2, LockFrame DEF Inv, ControlInv
  <2>2. CompactInv'
    BY <1>1, <1>2, <1>3 DEF Inv, ControlInv, CompactInv, Same, Downloading, InState, Flipped
  <2>3. \A u \in Threads : Holding(u)' <=> Holding(u)
    BY <1>1, <1>2 DEF Holding
  <2>4. pc'[Compactor] \in {"scan", "plan", "move"} => pc[Compactor] \in {"scan", "plan", "move"}
    BY <1>2, <1>3
  <2>5. GenInv'
    BY <1>1, <1>3, <1>5, <2>3, <2>4 DEF Inv, ControlInv, GenInv, Same, Threads
  <2>6. PendingInv'
    <3>1. Flipping(Compactor) => Flipping(Compactor)' /\ snap'[Compactor] = snap[Compactor]
      BY <1>1, <1>2, <1>3 DEF Flipping
    <3>. QED
      BY <1>1, <3>1, PendingFrame DEF Inv, ControlInv, Same, TypeInv, Sound, Image
  <2>. QED
    BY <1>1, <2>1, <2>2, <2>5, <2>6 DEF ControlInv, DownInv
<1>7. LiveInv'
  <2>1. \A u \in Threads : Holding(u)' => Holding(u) /\ snap'[u] = snap[u]
    BY <1>1, <1>2 DEF Holding
  <2>. QED
    BY <1>1, <1>3, <2>1, ThreadLive DEF Inv, Same
<1>8. RoundInv'
  BY <1>1, <1>2, <1>3, RoundFrame DEF Inv, Same
<1>. QED
  BY <1>4, <1>6, <1>7, <1>8 DEF Inv

LEMMA PersistBeginKeeps ==
    ASSUME Inv, NEW t \in Threads, PersistBegin(t)
    PROVE  Inv'
<1>1. /\ up /\ pc[t] = "synced" /\ lock = Nobody /\ lock' = t
      /\ pending' = pending \cup {snap[t]} /\ snap[t].gen >= disk.gen
      /\ pc' = [pc EXCEPT ![t] = "persisting"] /\ pc \in [Threads -> CompactSteps]
      /\ UNCHANGED <<up, disk, synced, compacting, snap, job>> /\ Same
  BY DEF Inv, TypeInv, PersistBegin, Begin, Goto, data, history, Same
<1>2. \A u \in Threads : pc'[u] = IF u = t THEN "persisting" ELSE pc[u]
  BY <1>1
<1>3. Compactor \in Threads /\ disk.gen \in Nat
  BY <1>1 DEF Threads, Inv, TypeInv, Sound, Image
<1>4. TypeInv'
  BY <1>1, ThreadTypes DEF Inv, TypeInv, Same, FlushSteps
<1>5. Finalizing' = Finalizing /\ Flipped' = Flipped
  BY <1>1, <1>2, <1>3 DEF Finalizing, Flipped
<1>6. ControlInv'
  <2>1. \A u \in Threads : pc[u] # "persisting"
    BY <1>1, ThreadsAssumption DEF Inv, ControlInv, LockInv
  <2>2. LockInv'
    BY <1>1, <1>2, <2>1, ThreadsAssumption DEF Inv, ControlInv, LockInv
  <2>3. CompactInv'
    BY <1>1, <1>2, <1>3, <1>5 DEF Inv, ControlInv, CompactInv, Same, Downloading, InState
  <2>4. \A u \in Threads : Holding(u)' <=> Holding(u)
    BY <1>1, <1>2 DEF Holding
  <2>5. pc'[Compactor] \in {"scan", "plan", "move"} => pc[Compactor] \in {"scan", "plan", "move"}
    BY <1>2, <1>3
  <2>6. GenInv'
    BY <1>1, <1>3, <1>5, <2>4, <2>5 DEF Inv, ControlInv, GenInv, Same, Threads
  <2>7. PendingInv'
    <3>. SUFFICES ASSUME NEW a \in pending'
                  PROVE  a.gen <= idx.gen \/ (Flipping(Compactor)' /\ a = snap[Compactor])
      BY <1>1 DEF PendingInv, Same
    <3>1. a \in pending => a.gen <= idx.gen
      BY <1>1, <1>3, <2>1 DEF Inv, ControlInv, PendingInv, Flipping
    <3>2. t \in Flushers => snap[t].gen <= idx.gen
      BY <1>1 DEF Inv, ControlInv, GenInv, Holding
    <3>3. t = Compactor => snap[t].gen = idx.gen \/ Flipping(Compactor)'
      BY <1>1, <1>2, <1>3 DEF Inv, ControlInv, GenInv, Holding, Flipping
    <3>4. idx.gen \in Nat
      BY DEF Inv, TypeInv, Sound, Image
    <3>. QED
      BY <1>1, <3>1, <3>2, <3>3, <3>4 DEF Threads
  <2>. QED
    BY <1>1, <2>2, <2>3, <2>6, <2>7 DEF ControlInv, DownInv
<1>7. LiveInv'
  <2>1. \A u \in Threads : Holding(u)' => Holding(u) /\ snap'[u] = snap[u]
    BY <1>1, <1>2 DEF Holding
  <2>2. \A u \in Threads : pc'[u] \in {"synced", "persisting"} =>
            pc[u] \in {"synced", "persisting"} /\ snap'[u] = snap[u]
    BY <1>1, <1>2
  <2>3. \A a \in pending' : \/ a \in pending
                            \/ \E u \in Threads : pc[u] = "synced" /\ a = snap[u]
    BY <1>1
  <2>. QED
    BY <1>1, <1>3, <2>1, <2>2, <2>3, ThreadLive DEF Inv, Same
<1>8. RoundInv'
  BY <1>1, <1>2, <1>3, RoundFrame DEF Inv, Same
<1>. QED
  BY <1>4, <1>6, <1>7, <1>8 DEF Inv

\* Where a persist that is over leaves the thread.
LEMMA ProceedTo ==
    ASSUME NEW t \in Threads, Proceed(t), TypeInv
    PROVE  \E step : /\ pc' = [pc EXCEPT ![t] = step]
                     /\ \/ t \in Flushers /\ step = "idle" /\ snap' = [snap EXCEPT ![t] = Empty]
                        \/ t = Compactor /\ job.final /\ step = "flipped" /\ snap' = snap
                        \/ t = Compactor /\ ~job.final /\ step = "scan" /\ snap' = snap
<1>. DEFINE step == CASE t \in Flushers -> "idle"
                      [] t = Compactor /\ job.final -> "flipped"
                      [] OTHER -> "scan"
<1>1. pc' = [pc EXCEPT ![t] = step] /\ snap' = IF t \in Flushers THEN [snap EXCEPT ![t] = Empty] ELSE snap
  BY DEF Proceed, Drop, Goto
<1>2. CASE t \in Flushers
  <2>1. step = "idle"
    BY <1>2, StoreAssumption
  <2>. QED
    BY <1>1, <1>2, <2>1
<1>3. CASE t = Compactor
  <2>1. step = IF job.final THEN "flipped" ELSE "scan"
    BY <1>3, StoreAssumption
  <2>. QED
    BY <1>1, <1>3, <2>1, StoreAssumption
<1>. QED
  BY <1>2, <1>3 DEF Threads

LEMMA PersistEndKeeps ==
    ASSUME Inv, NEW t \in Threads, PersistEnd(t)
    PROVE  Inv'
<1>1. /\ up /\ pc[t] = "persisting" /\ lock' = Nobody
      /\ disk' = snap[t] /\ pending' = {} /\ snap[t] \in pending
      /\ UNCHANGED <<up, compacting, synced, job>> /\ Same
      /\ pc \in [Threads -> CompactSteps] /\ snap \in [Threads -> Image]
      /\ Proceed(t)
  BY DEF Inv, TypeInv, PersistEnd, Complete, data, history, Same
<1>2. PICK step : /\ pc' = [pc EXCEPT ![t] = step]
                  /\ \/ t \in Flushers /\ step = "idle" /\ snap' = [snap EXCEPT ![t] = Empty]
                     \/ t = Compactor /\ job.final /\ step = "flipped" /\ snap' = snap
                     \/ t = Compactor /\ ~job.final /\ step = "scan" /\ snap' = snap
  BY <1>1, ProceedTo DEF Inv
<1>3. /\ \A u \in Threads : pc'[u] = IF u = t THEN step ELSE pc[u]
      /\ \A u \in Threads : u # t => snap'[u] = snap[u]
      /\ snap'[Compactor] = snap[Compactor]
      /\ step \in {"idle", "flipped", "scan"}
      /\ t \in Flushers => t # Compactor /\ pc'[Compactor] = pc[Compactor]
      /\ Compactor \in Threads
  BY <1>1, <1>2, StoreAssumption DEF Threads
<1>4. /\ disk.gen \in Nat /\ idx.gen \in Nat /\ snap[t].gen \in Nat
      /\ snap[t].gen >= disk.gen
  BY <1>1 DEF Inv, TypeInv, Sound, Image, ControlInv, LockInv
<1>5. \A u \in Threads : (Holding(u)' => Holding(u) /\ u # t) /\ (pc'[u] # "persisting")
  <2>1. \A u \in Threads : pc[u] = "persisting" => u = t
    BY <1>1 DEF Inv, ControlInv, LockInv
  <2>. QED
    BY <1>1, <1>2, <1>3, <2>1 DEF Holding
<1>6. TypeInv'
  <2>1. step \in FlushSteps \/ (t = Compactor /\ step \in CompactSteps)
    BY <1>2 DEF FlushSteps, CompactSteps
  <2>. QED
    BY <1>1, <1>2, <2>1, ThreadTypes DEF Inv, TypeInv, Same
<1>7. t \in Flushers => snap[t].gen <= idx.gen
  BY <1>1 DEF Inv, ControlInv, GenInv, Holding
<1>8. t = Compactor => snap[t].gen = IF job.final THEN idx.gen + 1 ELSE idx.gen
  BY <1>1 DEF Inv, ControlInv, GenInv, Holding
<1>9. t \in Flushers => ~Flipped
  BY <1>4, <1>7 DEF Inv, ControlInv, GenInv
<1>10. ControlInv'
  <2>1. LockInv'
    <3>1. \A u \in Threads : pc'[u] # "persisting" /\ u # Nobody
      BY <1>5, ThreadsAssumption
    <3>. QED
      BY <1>1, <3>1 DEF LockInv
  <2>2. CompactInv'
    <3>1. t = Compactor => compacting /\ pc'[Compactor] = step
      BY <1>1, <1>3 DEF Inv, ControlInv, CompactInv
    <3>. QED
      BY <1>1, <1>2, <1>3, <3>1 DEF Inv, ControlInv, CompactInv, Same, Downloading, InState, Flipped
  <2>3. GenInv'
    <3>1. \A u \in Flushers : Holding(u)' => snap'[u].gen <= idx.gen
      BY <1>3, <1>5 DEF Threads, Inv, ControlInv, GenInv
    <3>2. Holding(Compactor)' => snap'[Compactor].gen = IF job.final THEN idx.gen + 1 ELSE idx.gen
      BY <1>3, <1>5 DEF Inv, ControlInv, GenInv
    <3>3. Flipped' => disk' = snap'[Compactor] /\ disk'.gen = idx.gen + 1
      BY <1>1, <1>2, <1>3, <1>8, <1>9 DEF Flipped
    <3>4. ~Flipped' => disk'.gen <= idx.gen
      BY <1>1, <1>2, <1>3, <1>4, <1>7, <1>8 DEF Flipped
    <3>5. pc'[Compactor] \in {"scan", "plan", "move"} \/ Finalizing' => disk'.gen = idx.gen
      <4>1. CASE t = Compactor
        BY <1>1, <1>2, <1>3, <1>8, <4>1, StoreAssumption DEF Finalizing
      <4>2. CASE t \in Flushers
        <5>1. Finalizing' = Finalizing
          BY <1>1, <1>3, <4>2 DEF Finalizing
        <5>. QED
          BY <1>1, <1>3, <1>4, <1>7, <4>2, <5>1 DEF Inv, ControlInv, GenInv
      <4>. QED
        BY <4>1, <4>2 DEF Threads
    <3>. QED
      BY <1>1, <3>1, <3>2, <3>3, <3>4, <3>5 DEF GenInv, Same
  <2>. QED
    BY <1>1, <2>1, <2>2, <2>3 DEF ControlInv, DownInv, PendingInv
<1>11. LiveInv'
  <2>1. \A u \in Threads : Holding(u)' => Holding(u) /\ snap'[u] = snap[u]
    BY <1>3, <1>5
  <2>2. \A u \in Threads : pc'[u] \in {"synced", "persisting"} =>
            pc[u] \in {"synced", "persisting"} /\ snap'[u] = snap[u]
    BY <1>2, <1>3, <1>5
  <2>. QED
    BY <1>1, <1>4, <2>1, <2>2, ThreadLive DEF Inv, Same
<1>12. RoundInv'
  BY <1>1, <1>2, <1>3, RoundFrame DEF Inv, Same
<1>. QED
  BY <1>6, <1>10, <1>11, <1>12 DEF Inv

\* A thread gives up: but for the persist that ends a round, disk and memory agree
\* about the layout, and the image that may have reached the disk stays pending.
LEMMA GiveUpKeeps ==
    ASSUME Inv, NEW t \in Threads, up, GiveUp(t), ~Flipping(t),
           pc[t] \in {"snapped", "synced", "persisting", "move"},
           UNCHANGED <<up, disk, pending, compacting, synced, job>>, Same
    PROVE  Inv'
<1>1. /\ pc \in [Threads -> CompactSteps] /\ snap \in [Threads -> Image]
      /\ pc' = [pc EXCEPT ![t] = IF t \in Flushers THEN "idle" ELSE "over"]
      /\ snap' = IF t \in Flushers THEN [snap EXCEPT ![t] = Empty] ELSE snap
      /\ lock' = IF lock = t THEN Nobody ELSE lock
  BY DEF Inv, TypeInv, GiveUp, Drop, Goto
<1>2. /\ \A u \in Threads : pc'[u] = IF u = t THEN IF t \in Flushers THEN "idle" ELSE "over"
                                              ELSE pc[u]
      /\ \A u \in Threads : u # t => snap'[u] = snap[u]
      /\ snap'[Compactor] = snap[Compactor]
      /\ t = Compactor \/ (t \in Flushers /\ t # Compactor /\ pc'[Compactor] = pc[Compactor])
      /\ Compactor \in Threads /\ Compactor \notin Flushers
  BY <1>1, StoreAssumption DEF Threads
<1>3. /\ disk.gen \in Nat /\ idx.gen \in Nat /\ snap[t].gen \in Nat
  BY DEF Inv, TypeInv, Sound, Image
<1>4. \A u \in Threads : Holding(u)' => Holding(u) /\ snap'[u] = snap[u]
  BY <1>2 DEF Holding
<1>5. TypeInv'
  <2>1. snap' \in {snap, [snap EXCEPT ![t] = Empty]} /\ lock' \in {lock, t, Nobody}
    BY <1>1
  <2>2. CASE t \in Flushers
    BY <1>1, <2>1, <2>2, ThreadTypes DEF Inv, TypeInv, Same, FlushSteps
  <2>3. CASE t = Compactor
    <3>1. pc' = [pc EXCEPT ![t] = "over"] /\ "over" \in CompactSteps
      BY <1>1, <1>2, <2>3 DEF CompactSteps
    <3>. QED
      BY <1>1, <1>2, <2>1, <2>3, <3>1, ThreadTypes DEF Inv, TypeInv, Same
  <2>. QED
    BY <1>2, <2>2, <2>3
<1>6. ControlInv'
  <2>1. LockInv'
    BY <1>1, <1>2, ThreadsAssumption DEF Inv, ControlInv, LockInv
  <2>2. CompactInv'
    BY <1>1, <1>2 DEF Inv, ControlInv, CompactInv, Same, Downloading, InState, Flipped
  <2>3. Flipped' = Flipped /\ (Finalizing' => Finalizing)
    BY <1>1, <1>2 DEF Flipped, Finalizing
  <2>4. pc'[Compactor] \in {"scan", "plan", "move"} => pc[Compactor] \in {"scan", "plan", "move"}
    BY <1>2
  <2>5. GenInv'
    <3>1. \A u \in Flushers : Holding(u)' => snap'[u].gen <= idx.gen
      BY <1>4 DEF Threads, Inv, ControlInv, GenInv
    <3>. QED
      BY <1>1, <1>2, <1>4, <2>3, <2>4, <3>1 DEF Inv, ControlInv, GenInv, Same
  <2>6. PendingInv'
    <3>1. Flipping(Compactor) => Flipping(Compactor)' /\ snap'[Compactor] = snap[Compactor]
      BY <1>1, <1>2 DEF Flipping
    <3>. QED
      BY <1>1, <1>3, <3>1, PendingFrame DEF Inv, ControlInv, Same
  <2>. QED
    BY <1>1, <2>1, <2>2, <2>5, <2>6 DEF ControlInv, DownInv
<1>7. LiveInv'
  <2>1. \A u \in Threads : pc'[u] \in {"synced", "persisting"} =>
            pc[u] \in {"synced", "persisting"} /\ snap'[u] = snap[u]
    BY <1>2
  <2>. QED
    BY <1>1, <1>3, <1>4, <2>1, ThreadLive DEF Inv, Same
<1>8. RoundInv'
  BY <1>1, <1>2, RoundFrame DEF Inv, Same
<1>. QED
  BY <1>5, <1>6, <1>7, <1>8 DEF Inv

LEMMA PersistRefusedKeeps ==
    ASSUME Inv, NEW t \in Threads, PersistRefused(t)
    PROVE  Inv'
BY GiveUpKeeps DEF PersistRefused, Flipping, header, data, history, Same

LEMMA IoErrorKeeps ==
    ASSUME Inv, NEW t \in Threads, IoError(t), ~Flipping(t)
    PROVE  Inv'
BY GiveUpKeeps DEF IoError, header, data, history, Same

-----------------------------------------------------------------------------
(***************************************************************************)
(* Steps of the compaction that change neither the index nor the data.     *)
(***************************************************************************)
\* What such a step keeps, whatever it does to its job.
LEMMA CompactorQuiet ==
    ASSUME Inv, NEW step, pc' = [pc EXCEPT ![Compactor] = step], up,
           step \in {"idle", "called", "plan", "move"},
           pc[Compactor] \in {"idle", "scan", "plan", "over"},
           UNCHANGED <<up, disk, pending, synced, lock>>, Same,
           snap' \in {snap, [snap EXCEPT ![Compactor] = Empty]},
           compacting' = (step # "idle"), job' \in JobType, ~job'.final,
           step \in {"plan", "move"} => pc[Compactor] \in {"scan", "plan"},
           step = "called" => Downloading(idx) = {}
    PROVE  TypeInv' /\ ControlInv' /\ LiveInv'
<1>1. pc \in [Threads -> CompactSteps] /\ Compactor \in Threads /\ snap \in [Threads -> Image]
  BY DEF Threads, Inv, TypeInv
<1>2. /\ \A u \in Threads : pc'[u] = IF u = Compactor THEN step ELSE pc[u]
      /\ \A u \in Threads : u # Compactor => snap'[u] = snap[u]
      /\ \A u \in Flushers : u \in Threads /\ u # Compactor
  BY <1>1, StoreAssumption DEF Threads
<1>3. \A u \in Threads : Holding(u)' <=> Holding(u) /\ u # Compactor
  BY <1>2 DEF Holding
<1>4. ~Turning /\ ~Turning' /\ ~Flipped /\ ~Flipped' /\ ~Finalizing'
  BY <1>1, <1>2 DEF Turning, Finalizing, Flipped
<1>5. TypeInv'
  <2>1. step \in CompactSteps
    BY DEF CompactSteps, FlushSteps
  <2>. QED
    BY <1>1, <2>1, ThreadTypes DEF Inv, TypeInv, Same
<1>6. ControlInv'
  <2>1. LockInv'
    BY <1>2, LockFrame DEF Inv, ControlInv
  <2>2. CompactInv'
    BY <1>1, <1>2, <1>4 DEF Inv, ControlInv, CompactInv, Same, Downloading, InState
  <2>3. GenInv'
    <3>1. \A u \in Flushers : Holding(u)' => snap'[u].gen <= idx.gen
      BY <1>2, <1>3 DEF Inv, ControlInv, GenInv
    <3>2. pc'[Compactor] \in {"scan", "plan", "move"} => pc[Compactor] \in {"scan", "plan", "move"}
      BY <1>1, <1>2
    <3>. QED
      BY <1>1, <1>3, <1>4, <3>1, <3>2 DEF Inv, ControlInv, GenInv, Same
  <2>4. PendingInv'
    <3>1. ~Flipping(Compactor)
      BY DEF Flipping
    <3>. QED
      BY <3>1, PendingFrame DEF Inv, ControlInv, Same, TypeInv, Sound, Image
  <2>. QED
    BY <2>1, <2>2, <2>3, <2>4 DEF ControlInv, DownInv
<1>7. LiveInv'
  <2>1. disk.gen \in Nat
    BY DEF Inv, TypeInv, Sound, Image
  <2>2. \A u \in Threads : Holding(u)' => Holding(u) /\ snap'[u] = snap[u]
    BY <1>2, <1>3
  <2>3. \A u \in Threads : pc'[u] \in {"synced", "persisting"} =>
            pc[u] \in {"synced", "persisting"} /\ snap'[u] = snap[u]
    BY <1>2
  <2>. QED
    BY <2>1, <2>2, <2>3, ThreadLive DEF Inv, Same
<1>. QED
  BY <1>5, <1>6, <1>7

LEMMA CompactCallKeeps ==
    ASSUME Inv, CompactCall
    PROVE  Inv'
<1>1. /\ up /\ pc[Compactor] = "idle" /\ pc' = [pc EXCEPT ![Compactor] = "called"]
      /\ UNCHANGED <<up, disk, pending, synced, lock, snap>> /\ Same
      /\ compacting' = TRUE /\ job' = NoJob /\ Downloading(idx) = {}
      /\ pc'[Compactor] = "called"
  BY DEF CompactCall, Goto, header, data, Same, Downloading, Inv, TypeInv, Threads
<1>2. job' \in JobType /\ ~job'.final
  BY <1>1, NoJobType DEF NoJob
<1>3. TypeInv' /\ ControlInv' /\ LiveInv'
  BY <1>1, <1>2, CompactorQuiet
<1>4. RoundInv'
  BY <1>1 DEF RoundInv, PlannedInv, MoveInv
<1>. QED
  BY <1>3, <1>4 DEF Inv

LEMMA CompactOverKeeps ==
    ASSUME Inv, CompactOver
    PROVE  Inv'
<1>1. /\ up /\ pc[Compactor] = "over" /\ pc' = [pc EXCEPT ![Compactor] = "idle"]
      /\ UNCHANGED <<up, disk, pending, synced, lock>> /\ Same
      /\ snap' = [snap EXCEPT ![Compactor] = Empty]
      /\ compacting' = FALSE /\ job' = NoJob
      /\ pc'[Compactor] = "idle"
  BY DEF CompactOver, Goto, header, data, history, Same, Inv, TypeInv, Threads
<1>2. job' \in JobType /\ ~job'.final
  BY <1>1, NoJobType DEF NoJob
<1>3. TypeInv' /\ ControlInv' /\ LiveInv'
  BY <1>1, <1>2, CompactorQuiet
<1>4. RoundInv'
  BY <1>1 DEF RoundInv, PlannedInv, MoveInv
<1>. QED
  BY <1>3, <1>4 DEF Inv

LEMMA ScanKeeps ==
    ASSUME Inv, Scan
    PROVE  Inv'
<1>1. /\ up /\ pc[Compactor] = "scan" /\ pc' = [pc EXCEPT ![Compactor] = "plan"]
      /\ UNCHANGED <<up, disk, pending, synced, lock, snap, compacting>> /\ Same
      /\ job' = [NoJob EXCEPT !.plan = StartPlan(LayoutOf(idx))]
      /\ pc'[Compactor] = "plan"
  BY DEF Scan, Goto, header, data, history, Same, Inv, TypeInv, Threads
<1>2. /\ Sound(idx) /\ compacting /\ LayoutOf(idx) \in Layout
      /\ StartPlan(LayoutOf(idx)) \in PlanType
      /\ PlanSafe(LayoutOf(idx), StartPlan(LayoutOf(idx)))
  BY <1>1, LayoutSound, StartPlanSafe DEF Inv, TypeInv, ControlInv, CompactInv
<1>3. /\ job' \in JobType /\ job'.final = FALSE /\ job'.block = 0 /\ job'.bad = {}
      /\ job'.plan = StartPlan(LayoutOf(idx))
  BY <1>1, <1>2 DEF NoJob, JobType
<1>4. TypeInv' /\ ControlInv' /\ LiveInv'
  BY <1>1, <1>2, <1>3, CompactorQuiet
<1>5. RoundInv'
  <2>1. job'.plan.dataEnd <= MaxBlock
    BY <1>2, <1>3, StoreAssumption DEF StartPlan, LayoutOf, Sound, Image
  <2>2. idx' = idx
    BY <1>1 DEF Same
  <2>3. PlanSafe(LayoutOf(idx), job.plan)'
    BY <1>2, <1>3, <2>2
  <2>. QED
    BY <1>1, <1>3, <2>1, <2>3 DEF RoundInv, PlannedInv, MoveInv
<1>. QED
  BY <1>4, <1>5 DEF Inv

LEMMA PlanFileKeeps ==
    ASSUME Inv, NEW f \in Files, PlanFile(f)
    PROVE  Inv'
<1>. DEFINE l == LayoutOf(idx)
            q == PlanStep(l, job.plan, f)
<1>1. /\ up /\ pc[Compactor] = "plan" /\ pc' = pc
      /\ UNCHANGED <<up, disk, pending, synced, lock, snap, compacting>> /\ Same
      /\ IsNext(l, job.plan, f) /\ job' = [job EXCEPT !.plan = q]
      /\ job'.plan.dataEnd <= MaxBlock
      /\ pc \in [Threads -> CompactSteps] /\ job \in JobType
  BY DEF PlanFile, header, data, history, Same, Inv, TypeInv
<1>2. /\ Sound(idx) /\ compacting /\ l \in Layout /\ Legal(l) /\ job.plan \in PlanType
      /\ PlanSafe(l, job.plan) /\ job.block = 0 /\ job.bad = {} /\ ~job.final
  BY <1>1, LayoutSound DEF Inv, TypeInv, ControlInv, CompactInv, RoundInv, PlannedInv, JobType
<1>. HIDE DEF l
<1>3. q \in PlanType /\ PlanSafe(l, q)
  BY <1>1, <1>2, PlanStepType, PlanStepSafe
<1>. HIDE DEF q
<1>4. /\ job' \in JobType /\ job'.final = FALSE /\ job'.block = 0 /\ job'.bad = {}
      /\ job'.plan = q
  BY <1>1, <1>2, <1>3 DEF JobType
<1>5. pc' = [pc EXCEPT ![Compactor] = "plan"] /\ pc'[Compactor] = "plan"
  BY <1>1 DEF Threads
<1>6. TypeInv' /\ ControlInv' /\ LiveInv'
  BY <1>1, <1>2, <1>4, <1>5, CompactorQuiet
<1>7. RoundInv'
  <2>1. idx' = idx
    BY <1>1 DEF Same
  <2>2. PlanSafe(LayoutOf(idx), job.plan)'
    BY <1>3, <1>4, <2>1 DEF l
  <2>. QED
    BY <1>1, <1>4, <1>5, <2>2 DEF RoundInv, PlannedInv, MoveInv
<1>. QED
  BY <1>6, <1>7 DEF Inv

LEMMA StartMoveKeeps ==
    ASSUME Inv, StartMove
    PROVE  Inv'
<1>1. /\ up /\ pc[Compactor] = "plan" /\ pc' = [pc EXCEPT ![Compactor] = "move"]
      /\ UNCHANGED <<up, disk, pending, synced, lock, snap, compacting>> /\ Same
      /\ job.plan.placed = LayoutOf(idx).live /\ job' = [job EXCEPT !.left = job.plan.placed]
      /\ pc'[Compactor] = "move" /\ job \in JobType
  BY DEF StartMove, Goto, header, data, history, Same, Inv, TypeInv, Threads
<1>2. /\ Sound(idx) /\ compacting /\ job.plan \in PlanType /\ job.plan.dataEnd <= MaxBlock
      /\ PlanSafe(LayoutOf(idx), job.plan) /\ job.block = 0 /\ job.bad = {} /\ ~job.final
  BY <1>1 DEF Inv, TypeInv, ControlInv, CompactInv, RoundInv, PlannedInv, JobType
<1>3. /\ job' \in JobType /\ job'.final = FALSE /\ job'.block = 0 /\ job'.bad = {}
      /\ job'.plan = job.plan /\ job'.left = job.plan.placed
  BY <1>1, <1>2 DEF JobType, PlanType
<1>4. TypeInv' /\ ControlInv' /\ LiveInv'
  BY <1>1, <1>2, <1>3, CompactorQuiet
<1>5. RoundInv'
  <2>1. idx' = idx
    BY <1>1 DEF Same
  <2>2. PlannedInv'
    <3>1. PlanSafe(LayoutOf(idx), job.plan)'
      BY <1>2, <1>3, <2>1
    <3>. QED
      BY <1>1, <1>2, <1>3, <3>1 DEF PlannedInv
  <2>3. ASSUME NEW e \in Active(idx)
        PROVE  e.span \in Nat /\ e.span >= 1 /\ e.name \in job.plan.placed
    BY <1>1, <1>2, ActiveEntry, LayoutEntries DEF Active, InState
  <2>4. \A e \in Active(idx) : Read(e)' = 0
    BY <1>3, <2>3 DEF Read
  <2>5. \A e \in Active(idx) : Copied(e)'
    BY <2>4 DEF Copied
  <2>6. (job.plan.placed = LayoutOf(idx).live)'
    BY <1>1, <1>3, <2>1
  <2>7. MoveInv'
    <3>1. \A e \in Active(idx)' : /\ e.name \in job'.bad => e.num \in rotten'
                                  /\ Turn(e)' => job'.block < e.span
                                  /\ Copied(e)'
      BY <1>3, <2>1, <2>3, <2>5 DEF Active, InState
    <3>. QED
      BY <1>3, <2>6, <3>1 DEF MoveInv
  <2>. QED
    BY <2>2, <2>7 DEF RoundInv
<1>. QED
  BY <1>4, <1>5 DEF Inv

-----------------------------------------------------------------------------
(***************************************************************************)
(* Operations on the index: none while a compaction runs.                  *)
(***************************************************************************)
\* The index grows a generation: what it calls Active was Active or is a complete
\* download, what it downloads was downloading or starts past all there was.
IndexStep ==
    /\ up /\ ~compacting /\ UNCHANGED <<header, compacting, data, threads, rotten>>
    /\ deleted \subseteq deleted' /\ downloads' \in 0..MaxDownloads
    /\ written' \in [Files -> Nat]
    /\ Sound(idx') /\ idx'.gen = idx.gen + 1 /\ idx.logical <= idx'.logical
    /\ \A e \in Active(idx) : \/ e.num \in deleted' \cup rotten'
                              \/ \E g \in Active(idx') : g.name = e.name /\ g.num = e.num
    /\ \A e \in Active(idx') : \/ e \in Active(idx)
                               \/ /\ Kept(file, e)
                                  /\ \E d \in Downloading(idx) : d.off = e.off /\ d.span = e.span
    /\ \A d \in Downloading(idx') : d \in Downloading(idx) \/ idx.logical <= d.off
    /\ \A e \in idx'.entries : \/ idx.logical <= e.off
                               \/ \E g \in idx.entries : e.off = g.off /\ e.span = g.span
    /\ WriterInv'

LEMMA IndexStepKeeps ==
    ASSUME Inv, IndexStep
    PROVE  Inv'
<1>. USE DEF IndexStep
<1>1. /\ UNCHANGED <<up, disk, pending, file, synced, pc, snap, lock, job>>
      /\ pc[Compactor] = "idle" /\ Compactor \in Threads
  BY DEF header, data, threads, Inv, ControlInv, CompactInv, Threads
<1>2. ~Turning /\ ~Flipped /\ ~Finalizing /\ \A u \in Threads : Holding(u)' <=> Holding(u)
  BY <1>1 DEF Turning, Flipped, Finalizing, Holding
<1>3. /\ \A a \in Images : a.gen <= idx.gen /\ a.gen \in Nat
      /\ idx \in Live /\ disk \in Live /\ idx.gen \in Nat /\ idx'.gen \in Nat
  BY <1>2, NoneNewer, ImagesSound DEF Inv, TypeInv, Sound, Image
<1>4. \A a \in Live' : a = idx' \/ (a \in Live /\ a.gen < idx'.gen)
  <2>. SUFFICES ASSUME NEW a \in Live', a # idx'
                PROVE  a \in Live /\ a.gen < idx'.gen
    OBVIOUS
  <2>1. a \in Images' /\ a.gen >= disk.gen
    BY <1>1 DEF Live
  <2>2. a \in Images
    BY <1>1, <1>2, <2>1, ImagesAre, ImagesBecome
  <2>3. a \in Live
    BY <2>1, <2>2 DEF Live
  <2>4. a.gen < idx'.gen
    BY <1>3, <2>2
  <2>. QED
    BY <2>3, <2>4
<1>5. \A a \in Live : a.gen <= idx.gen /\ a \in Images /\ a \in Seen
  BY <1>3 DEF Live, Seen
<1>6. TypeInv'
  BY <1>1 DEF Inv, TypeInv
<1>7. ControlInv'
  <2>1. LockInv'
    BY <1>1, LockFrame DEF Inv, ControlInv
  <2>2. CompactInv'
    BY <1>1 DEF Inv, ControlInv, CompactInv, Flipped
  <2>3. GenInv'
    <3>1. \A u \in Flushers : Holding(u)' => snap'[u].gen <= idx'.gen
      <4>. SUFFICES ASSUME NEW u \in Flushers, Holding(u)
                    PROVE  snap[u].gen <= idx'.gen
        BY <1>1, <1>2 DEF Threads
      <4>1. snap[u] \in Images /\ snap[u].gen <= idx.gen
        BY <1>3, ImagesAre DEF Threads
      <4>. QED
        BY <1>3, <4>1
    <3>2. disk.gen <= idx'.gen
      BY <1>3, <1>5
    <3>. QED
      BY <1>1, <1>2, <3>1, <3>2 DEF GenInv, Holding, Flipped, Finalizing
  <2>4. PendingInv'
    BY <1>1, <1>3, PendingFrame DEF Inv, ControlInv, Flipping
  <2>. QED
    BY <1>1, <2>1, <2>2, <2>3, <2>4 DEF ControlInv, DownInv
<1>8. OrderInv'
  <2>. SUFFICES ASSUME NEW a \in Live', NEW b \in Live', a.gen <= b.gen, NEW e \in Active(a)
                PROVE  \/ e.num \in deleted' \cup rotten'
                       \/ \E g \in Active(b) : g.name = e.name /\ g.num = e.num
    BY DEF OrderInv, Succeeds
  <2>1. CASE a = b
    BY <2>1
  <2>2. CASE a \in Live /\ b \in Live
    BY <2>2 DEF Inv, LiveInv, OrderInv, Succeeds
  <2>3. CASE a \in Live /\ b = idx'
    <3>1. \/ e.num \in deleted \cup rotten
          \/ \E g \in Active(idx) : g.name = e.name /\ g.num = e.num
      BY <1>3, <1>5, <2>3 DEF Inv, LiveInv, OrderInv, Succeeds
    <3>2. CASE e.num \in deleted \cup rotten
      BY <3>2
    <3>3. CASE \E g \in Active(idx) : g.name = e.name /\ g.num = e.num
      <4>1. PICK g \in Active(idx) : g.name = e.name /\ g.num = e.num
        BY <3>3
      <4>2. \/ g.num \in deleted' \cup rotten'
            \/ \E h \in Active(idx') : h.name = g.name /\ h.num = g.num
        OBVIOUS
      <4>. QED
        BY <2>3, <4>1, <4>2
    <3>. QED
      BY <3>1, <3>2, <3>3
  <2>4. CASE a = idx' /\ b \in Live /\ b.gen < idx'.gen
    BY <1>3, <1>5, <2>4
  <2>. QED
    BY <1>4, <2>1, <2>2, <2>3, <2>4
\* An entry of the new index lies where a live or a downloading one lies.
<1>9. ASSUME NEW b \in Live, NEW g \in Active(b), NEW e \in Active(idx')
      PROVE  e.num = g.num \/ Lapsed(g) \/ (Clear(e, g) /\ Clear(g, e))
  <2>1. CASE e \in Active(idx)
    BY <1>3, <1>5, <2>1 DEF Inv, LiveInv, ApartInv, Lapsed, Clear, Apart
  <2>2. CASE \E d \in Downloading(idx) : d.off = e.off /\ d.span = e.span
    <3>1. PICK d \in Downloading(idx) : d.off = e.off /\ d.span = e.span
      BY <2>2
    <3>2. Clear(g, d)
      BY DEF Inv, LiveInv, ApartInv
    <3>. QED
      BY <3>1, <3>2 DEF Clear, Apart
  <2>. QED
    BY <2>1, <2>2
<1>10. \A e, g \in idx'.entries : e = g \/ Clear(e, g)
  BY DEF Sound
<1>11. Active(idx') \subseteq idx'.entries /\ Downloading(idx') \subseteq idx'.entries
  BY DEF Active, Downloading, InState
\* What has lapsed is not where a download completes.
<1>11a. ASSUME NEW b \in Live, NEW g \in Active(b), Lapsed(g)
      PROVE  Lapsed(g)'
  <2>. SUFFICES ASSUME g \in Active(idx'), NEW d \in Downloading(idx),
                       d.off = g.off, d.span = g.span
                PROVE  FALSE
    BY <1>11a DEF Lapsed, Inv
  <2>1. Apart(g.off, g.span, g.off, g.span)
    BY DEF Inv, LiveInv, ApartInv, Clear
  <2>. QED
    BY <2>1, LiveEntries DEF Apart
<1>12. ApartInv'
  <2>1. \A a, b \in Seen' : \A e \in Active(a), g \in Active(b) :
            e.num = g.num \/ Lapsed(e)' \/ Lapsed(g)' \/ Clear(e, g)
    <3>. SUFFICES ASSUME NEW a \in Seen', NEW b \in Seen', NEW e \in Active(a), NEW g \in Active(b)
                  PROVE  e.num = g.num \/ Lapsed(e)' \/ Lapsed(g)' \/ Clear(e, g)
      OBVIOUS
    <3>1. CASE a = idx' /\ b = idx'
      BY <1>10, <1>11, <3>1
    <3>2. CASE a = idx' /\ b \in Live
      BY <1>9, <1>11a, <3>2
    <3>3. CASE a \in Live /\ b = idx'
      BY <1>9, <1>11a, <3>3
    <3>4. CASE a \in Live /\ b \in Live
      BY <1>5, <1>11a, <3>4 DEF Inv, LiveInv, ApartInv
    <3>. QED
      BY <1>4, <3>1, <3>2, <3>3, <3>4 DEF Seen
  <2>2. \A a \in Live' : \A e \in Active(a), d \in Downloading(idx') : Clear(e, d)
    <3>. SUFFICES ASSUME NEW a \in Live', NEW e \in Active(a), NEW d \in Downloading(idx')
                  PROVE  Clear(e, d)
      OBVIOUS
    <3>1. CASE a = idx'
      <4>1. e.state = "active" /\ d.state = "downloading"
        BY <3>1 DEF Active, Downloading, InState
      <4>. QED
        BY <1>10, <1>11, <3>1, <4>1
    <3>2. CASE a \in Live /\ d \in Downloading(idx)
      BY <3>2 DEF Inv, LiveInv, ApartInv
    <3>3. CASE a \in Live /\ idx.logical <= d.off
      <4>1. e.off + e.span <= idx.logical
        BY <1>5, <3>3 DEF Inv, LiveInv, IndexInv
      <4>2. /\ e.off \in Nat /\ e.span \in Nat /\ idx.logical \in Nat /\ d.off \in Nat
        <5>1. Sound(a) /\ e \in a.entries
          BY <1>5, <3>3, ImagesSound DEF Inv, Active, InState
        <5>. QED
          BY <1>11, <5>1, ActiveEntry, StoreAssumption DEF Inv, TypeInv, Sound, Image
      <4>3. e.off + e.span <= d.off
        BY <3>3, <4>1, <4>2
      <4>. QED
        BY <4>3 DEF Clear, Apart
    <3>. QED
      BY <1>4, <3>1, <3>2, <3>3
  <2>. QED
    BY <2>1, <2>2 DEF ApartInv
<1>13. IndexInv'
  <2>. SUFFICES ASSUME NEW a \in Live'
                PROVE  /\ ~(a.gen > idx'.gen)
                       /\ \A e \in Active(a) : e.off + e.span <= idx'.logical
                       /\ a.gen = idx'.gen => a = idx'
    BY DEF IndexInv
  <2>1. CASE a = idx'
    BY <1>3, <1>11, <2>1 DEF Sound
  <2>2. CASE a \in Live /\ a.gen < idx'.gen
    <3>1. ASSUME NEW e \in Active(a)
          PROVE  e.off + e.span <= idx'.logical
      <4>1. e.off + e.span <= idx.logical
        BY <1>5, <2>2 DEF Inv, LiveInv, IndexInv
      <4>2. e.off \in Nat /\ e.span \in Nat /\ idx.logical \in Nat /\ idx'.logical \in Nat
        <5>1. Sound(a) /\ e \in a.entries
          BY <1>5, <2>2, ImagesSound DEF Inv, Active, InState
        <5>. QED
          BY <5>1, ActiveEntry, StoreAssumption DEF Inv, TypeInv, Sound, Image
      <4>3. e.off + e.span \in Nat
        BY <4>2
      <4>. QED
        BY <4>1, <4>2, <4>3
    <3>2. a.gen # idx'.gen /\ ~(a.gen > idx'.gen)
      BY <1>3, <1>5, <2>2
    <3>. QED
      BY <3>1, <3>2
  <2>. QED
    BY <1>4, <2>1, <2>2
<1>14. DataInv'
  <2>1. \A a \in Live' : \A e \in Active(a) : Kept(file, e)
    <3>. SUFFICES ASSUME NEW a \in Live', NEW e \in Active(a)
                  PROVE  Kept(file, e)
      OBVIOUS
    <3>. QED
      BY <1>3, <1>4 DEF Inv, LiveInv, DataInv
  <2>2. \A a \in Live' \cap OnDisk' : a \in Live \cap OnDisk
    <3>. SUFFICES ASSUME NEW a \in Live', a \in OnDisk'
                  PROVE  a \in Live \cap OnDisk
      OBVIOUS
    <3>1. a \in OnDisk
      BY <1>1 DEF OnDisk
    <3>2. a \in Images
      BY <3>1, ImagesAre DEF OnDisk, Holding
    <3>3. a.gen <= idx.gen /\ a.gen \in Nat
      BY <1>3, <3>2
    <3>4. a # idx'
      BY <1>3, <3>3
    <3>. QED
      BY <1>4, <3>1, <3>4
  <2>3. \A a \in Live' \cap OnDisk' : \A e \in Active(a) : Kept(synced, e)
    BY <2>2 DEF Inv, LiveInv, DataInv
  <2>. QED
    BY <1>1, <2>1, <2>3 DEF DataInv, Kept
<1>15. RoundInv'
  BY <1>1 DEF RoundInv, PlannedInv, MoveInv
<1>. QED
  BY <1>6, <1>7, <1>8, <1>12, <1>13, <1>14, <1>15 DEF Inv, LiveInv

LEMMA AllocSteps ==
    ASSUME Inv, NEW f \in Files, NEW size \in Sizes, Alloc(f, size)
    PROVE  IndexStep
<1>. DEFINE new == Entry(f, "downloading", idx.logical, size, downloads')
            kept == idx.entries \ Named(idx, f)
            img == [gen |-> idx.gen + 1, logical |-> idx.logical + size, entries |-> kept \cup {new}]
<1>1. /\ up /\ ~compacting /\ UNCHANGED <<header, compacting, data, threads, rotten, deleted>>
      /\ downloads' = downloads + 1 /\ downloads < MaxDownloads
      /\ \A e \in Named(idx, f) : e.state = "deleted"
      /\ idx.logical + size <= MaxLogical /\ idx' = img
      /\ written' = [written EXCEPT ![f] = 0]
  BY DEF Alloc
<1>2. /\ Sound(idx) /\ downloads \in 0..MaxDownloads /\ written \in [Files -> Nat]
      /\ file' = file /\ idx.gen \in Nat /\ idx.logical \in Nat /\ idx.entries \subseteq EntryType
      /\ size \in Nat /\ size >= 1 /\ MaxLogical \in 0..MaxBlock /\ MaxBlock \in Nat /\ MaxDownloads \in Nat
  BY <1>1, StoreAssumption DEF Inv, TypeInv, data, Sound, Image
<1>3. downloads' \in 0..MaxDownloads /\ downloads' \in 1..MaxDownloads
  BY <1>1, <1>2
<1>4. /\ new.name = f /\ new.state = "downloading" /\ new.off = idx.logical
      /\ new.span = size /\ new.num = downloads' /\ new \in EntryType
  BY <1>2, <1>3 DEF Entry, EntryType, StateNames
<1>5. /\ img.gen = idx.gen + 1 /\ img.logical = idx.logical + size /\ img.entries = kept \cup {new}
  OBVIOUS
<1>. HIDE DEF new, img
<1>6. \A e \in kept : e \in idx.entries /\ e.name # f
  BY DEF Named
<1>7. \A e \in kept : Clear(e, new) /\ Clear(new, e)
  <2>. SUFFICES ASSUME NEW e \in kept
                PROVE  Clear(e, new) /\ Clear(new, e)
    OBVIOUS
  <2>1. e.off + e.span <= idx.logical
    BY <1>2, <1>6 DEF Sound
  <2>. QED
    BY <1>4, <2>1 DEF Clear, Apart
<1>8. Sound(img)
  <2>1. img \in Image
    <3>1. idx.logical + size \in 0..MaxBlock /\ idx.gen + 1 \in Nat
      BY <1>1, <1>2
    <3>2. kept \cup {new} \in SUBSET EntryType
      BY <1>2, <1>4, <1>6
    <3>3. ASSUME NEW c \in SUBSET EntryType
          PROVE  [gen |-> idx.gen + 1, logical |-> idx.logical + size, entries |-> c] \in Image
      BY <3>1 DEF Image
    <3>. QED
      BY <3>2, <3>3 DEF img
  <2>2. \A e, g \in img.entries : e.name = g.name => e = g
    BY <1>2, <1>4, <1>5, <1>6 DEF Sound
  <2>3. \A e, g \in img.entries : e # g => Clear(e, g)
    BY <1>2, <1>5, <1>6, <1>7 DEF Sound
  <2>4. \A e \in img.entries : e.off + e.span <= img.logical
    <3>1. \A e \in kept : e.off + e.span <= idx.logical /\ e.off \in Nat /\ e.span \in Nat
      BY <1>2, <1>6, ActiveEntry
    <3>2. \A e \in kept : e.off + e.span <= idx.logical + size
      <4>. SUFFICES ASSUME NEW e \in kept
                    PROVE  e.off + e.span <= idx.logical + size
        OBVIOUS
      <4>1. e.off + e.span \in Nat /\ e.off + e.span <= idx.logical
        BY <3>1
      <4>. QED
        BY <1>2, <4>1
    <3>3. idx.logical + size <= idx.logical + size
      BY <1>2
    <3>. QED
      BY <1>4, <1>5, <3>2, <3>3
  <2>. QED
    BY <2>1, <2>2, <2>3, <2>4 DEF Sound
<1>9. \A e \in Active(img) : e \in Active(idx)
  BY <1>4, <1>5, <1>6 DEF Active, InState
<1>10. \A e \in Active(idx) : e \in Active(img)
  BY <1>1, <1>5 DEF Active, InState, Named
<1>11. \A d \in Downloading(img) : d = new \/ (d \in Downloading(idx) /\ d.name # f)
  BY <1>5, <1>6 DEF Downloading, InState
<1>12. WriterInv'
  <2>. SUFFICES ASSUME NEW d \in Downloading(img)
                PROVE  /\ written'[d.name] <= d.span
                       /\ \A i \in 0..(written'[d.name] - 1) : file[d.off + i] = <<d.num, i>>
    BY <1>1, <1>2 DEF WriterInv
  <2>1. CASE d = new
    BY <1>1, <1>2, <1>4, <2>1
  <2>2. CASE d \in Downloading(idx) /\ d.name # f
    <3>1. d.name \in Files
      BY <1>2, <2>2, ActiveEntry DEF Downloading, InState
    <3>2. written'[d.name] = written[d.name]
      BY <1>1, <1>2, <2>2, <3>1
    <3>. QED
      BY <2>2, <3>2 DEF Inv, LiveInv, WriterInv
  <2>. QED
    BY <1>11, <2>1, <2>2
<1>13. idx.logical <= idx'.logical
  BY <1>1, <1>2, <1>5
<1>14. written' \in [Files -> Nat]
  BY <1>1, <1>2
<1>15. \A d \in Downloading(idx') : d \in Downloading(idx) \/ idx.logical <= d.off
  BY <1>1, <1>2, <1>4, <1>11
<1>16. \A e \in idx'.entries : \/ idx.logical <= e.off
                               \/ \E g \in idx.entries : e.off = g.off /\ e.span = g.span
  BY <1>1, <1>2, <1>4, <1>5, <1>6
<1>. QED
  BY <1>1, <1>3, <1>5, <1>8, <1>9, <1>10, <1>12, <1>13, <1>14, <1>15, <1>16 DEF IndexStep

\* An alloc that fails takes the place past the end and the Deleted entry.
LEMMA AllocFailsSteps ==
    ASSUME Inv, NEW f \in Files, NEW size \in Sizes, AllocFails(f, size)
    PROVE  IndexStep
<1>. DEFINE kept == idx.entries \ Named(idx, f)
            img == [gen |-> idx.gen + 1, logical |-> idx.logical + size, entries |-> kept]
<1>1. /\ up /\ ~compacting /\ UNCHANGED <<header, written, compacting, data, threads>>
      /\ UNCHANGED <<rotten, deleted, downloads>>
      /\ \A e \in Named(idx, f) : e.state = "deleted"
      /\ idx.logical + size <= MaxLogical /\ idx' = img
  BY DEF AllocFails, history
<1>2. /\ Sound(idx) /\ downloads \in 0..MaxDownloads /\ written \in [Files -> Nat]
      /\ file' = file /\ idx.gen \in Nat /\ idx.logical \in Nat /\ idx.entries \subseteq EntryType
      /\ size \in Nat /\ MaxLogical \in 0..MaxBlock /\ MaxBlock \in Nat
  BY <1>1, StoreAssumption DEF Inv, TypeInv, data, Sound, Image
<1>3. img.gen = idx.gen + 1 /\ img.logical = idx.logical + size /\ img.entries = kept
  OBVIOUS
<1>4. kept \subseteq idx.entries
  OBVIOUS
<1>5. Sound(img)
  <2>1. img \in Image
    <3>1. idx.logical + size \in 0..MaxBlock /\ idx.gen + 1 \in Nat
      BY <1>1, <1>2
    <3>2. kept \in SUBSET EntryType
      BY <1>2, <1>4
    <3>. QED
      BY <3>1, <3>2 DEF Image
  <2>2. \A e \in kept : e.off + e.span <= idx.logical + size
    <3>. SUFFICES ASSUME NEW e \in kept
                  PROVE  e.off + e.span <= idx.logical + size
      OBVIOUS
    <3>1. e.off \in Nat /\ e.span \in Nat /\ e.off + e.span <= idx.logical
      BY <1>2, <1>4, ActiveEntry
    <3>2. e.off + e.span \in Nat
      BY <3>1
    <3>. QED
      BY <1>2, <3>1, <3>2
  <2>. QED
    BY <1>2, <1>3, <1>4, <2>1, <2>2 DEF Sound
<1>. HIDE DEF img
<1>6. \A e : e \in Active(img) <=> e \in Active(idx)
  BY <1>1, <1>3 DEF Active, InState, Named
<1>7. \A d \in Downloading(img) : d \in Downloading(idx)
  BY <1>3, <1>4 DEF Downloading, InState
<1>8. WriterInv'
  BY <1>1, <1>2, <1>7 DEF Inv, LiveInv, WriterInv
<1>9. idx.logical <= idx'.logical
  BY <1>1, <1>2, <1>3
<1>. QED
  BY <1>1, <1>2, <1>3, <1>5, <1>6, <1>7, <1>8, <1>9 DEF IndexStep

\* An entry replaced by itself in another state.
LEMMA ReplacedSound ==
    ASSUME NEW img, Sound(img), NEW e \in img.entries, NEW s \in StateNames,
           NEW next, next = [img EXCEPT !.gen = @ + 1,
                                        !.entries = (@ \ {e}) \cup {[e EXCEPT !.state = s]}]
    PROVE  Sound(next)
<1>. DEFINE g == [e EXCEPT !.state = s]
<1>1. /\ next.gen = img.gen + 1 /\ next.logical = img.logical
      /\ next.entries = (img.entries \ {e}) \cup {g}
      /\ img.entries \subseteq EntryType
  BY DEF Sound, Image
<1>2. /\ g.name = e.name /\ g.off = e.off /\ g.span = e.span /\ g \in EntryType
  BY <1>1 DEF EntryType
<1>. HIDE DEF g
<1>3. next \in Image
  <2>1. (img.entries \ {e}) \cup {g} \subseteq EntryType
    BY <1>1, <1>2
  <2>2. img \in Image
    BY DEF Sound
  <2>3. next = [img EXCEPT !.gen = img.gen + 1, !.entries = (img.entries \ {e}) \cup {g}]
    BY DEF g
  <2>4. (img.entries \ {e}) \cup {g} \in SUBSET EntryType /\ img.gen + 1 \in Nat
    BY <2>1, <2>2 DEF Image
  <2>. QED
    BY <2>2, <2>3, <2>4 DEF Image
<1>4. \A a, b \in next.entries : a.name = b.name => a = b
  BY <1>1, <1>2 DEF Sound
<1>5. \A a, b \in next.entries : a # b => Clear(a, b)
  BY <1>1, <1>2 DEF Sound, Clear
<1>6. \A a \in next.entries : a.off + a.span <= next.logical
  BY <1>1, <1>2 DEF Sound
<1>. QED
  BY <1>3, <1>4, <1>5, <1>6 DEF Sound

LEMMA CommitSteps ==
    ASSUME Inv, NEW f \in Files, Commit(f)
    PROVE  IndexStep
<1>1. PICK e \in Named(idx, f) :
          /\ e.state = "downloading" /\ written[f] = e.span
          /\ Changed({e}, {[e EXCEPT !.state = "active"]})
  BY DEF Commit
<1>. DEFINE g == [e EXCEPT !.state = "active"]
<1>2. /\ up /\ ~compacting /\ UNCHANGED <<header, compacting, data, threads, history>>
      /\ UNCHANGED <<rotten, deleted, downloads, file>>
      /\ written' = [written EXCEPT ![f] = 0]
      /\ idx' = [idx EXCEPT !.gen = @ + 1, !.entries = (@ \ {e}) \cup {g}]
  BY <1>1 DEF Commit, Changed, history, data
<1>3. /\ Sound(idx) /\ downloads \in 0..MaxDownloads /\ written \in [Files -> Nat]
      /\ e \in idx.entries /\ e.name = f /\ idx.logical \in Nat
      /\ \A a, b \in idx.entries : a.name = b.name => a = b
      /\ idx \in Image
  BY <1>1, StoreAssumption DEF Inv, TypeInv, Named, Sound, Image
<1>4. /\ idx'.gen = idx.gen + 1 /\ idx'.logical = idx.logical
      /\ idx'.entries = (idx.entries \ {e}) \cup {g}
  BY <1>2, <1>3 DEF Image
<1>5. /\ e \in EntryType /\ g.name = e.name /\ g.off = e.off /\ g.span = e.span /\ g.num = e.num
      /\ g.state = "active" /\ "active" \in StateNames
  BY <1>3, ActiveEntry DEF EntryType, StateNames
<1>6. Sound(idx')
  BY <1>2, <1>3, <1>5, ReplacedSound
<1>. HIDE DEF g
\* All the blocks of the download are written.
<1>7. e \in Downloading(idx) /\ Holds(file, g)
  <2>1. e \in Downloading(idx)
    BY <1>1, <1>3 DEF Downloading, InState
  <2>. QED
    BY <1>1, <1>3, <1>5, <2>1 DEF Inv, LiveInv, WriterInv, Holds
<1>8. \A a \in Active(idx') : a \in Active(idx) \/ a = g
  BY <1>4 DEF Active, InState
<1>9. \A a \in Active(idx) : a \in Active(idx')
  BY <1>1, <1>4 DEF Active, InState
<1>10. \A d \in Downloading(idx') : d \in Downloading(idx) /\ d.name # f
  BY <1>3, <1>4, <1>5 DEF Downloading, InState
<1>11. WriterInv'
  <2>. SUFFICES ASSUME NEW d \in Downloading(idx')
                PROVE  /\ written'[d.name] <= d.span
                       /\ \A i \in 0..(written'[d.name] - 1) : file[d.off + i] = <<d.num, i>>
    BY <1>2 DEF WriterInv
  <2>1. d.name \in Files
    BY <1>3, <1>10, ActiveEntry DEF Downloading, InState
  <2>2. written'[d.name] = written[d.name]
    BY <1>2, <1>3, <1>10, <2>1
  <2>. QED
    BY <1>10, <2>2 DEF Inv, LiveInv, WriterInv
<1>12. written' \in [Files -> Nat] /\ idx.logical <= idx'.logical
  BY <1>2, <1>3, <1>4
<1>. QED
  BY <1>2, <1>3, <1>4, <1>5, <1>6, <1>7, <1>8, <1>9, <1>10, <1>11, <1>12 DEF IndexStep, Kept

LEMMA AbortSteps ==
    ASSUME Inv, NEW f \in Files, Abort(f)
    PROVE  IndexStep
<1>1. PICK e \in Named(idx, f) : e.state = "downloading" /\ Changed({e}, {})
  BY DEF Abort
<1>2. /\ up /\ UNCHANGED <<header, compacting, data, threads, history>>
      /\ UNCHANGED <<rotten, deleted, downloads, file>>
      /\ written' = [written EXCEPT ![f] = 0]
      /\ idx' = [idx EXCEPT !.gen = @ + 1, !.entries = @ \ {e}]
  BY <1>1 DEF Abort, Changed, history, data
<1>3. /\ Sound(idx) /\ downloads \in 0..MaxDownloads /\ written \in [Files -> Nat]
      /\ e \in idx.entries /\ e.name = f /\ idx.logical \in Nat
      /\ \A a, b \in idx.entries : a.name = b.name => a = b
      /\ idx \in Image
  BY <1>1, StoreAssumption DEF Inv, TypeInv, Named, Sound, Image
<1>4. ~compacting
  BY <1>1, <1>3 DEF Inv, ControlInv, CompactInv, Downloading, InState
<1>5. /\ idx'.gen = idx.gen + 1 /\ idx'.logical = idx.logical
      /\ idx'.entries = idx.entries \ {e}
  BY <1>2, <1>3 DEF Image
<1>6. Sound(idx')
  <2>1. idx' \in Image
    <3>1. idx.entries \ {e} \in SUBSET EntryType /\ idx.gen + 1 \in Nat
      BY <1>3 DEF Image
    <3>. QED
      BY <1>2, <1>3, <3>1 DEF Image
  <2>. QED
    BY <1>3, <1>5, <2>1 DEF Sound
<1>7. \A a : a \in Active(idx') <=> a \in Active(idx)
  BY <1>1, <1>5 DEF Active, InState
<1>8. \A d \in Downloading(idx') : d \in Downloading(idx) /\ d.name # f
  BY <1>3, <1>5 DEF Downloading, InState
<1>9. WriterInv'
  <2>. SUFFICES ASSUME NEW d \in Downloading(idx')
                PROVE  /\ written'[d.name] <= d.span
                       /\ \A i \in 0..(written'[d.name] - 1) : file[d.off + i] = <<d.num, i>>
    BY <1>2 DEF WriterInv
  <2>1. d.name \in Files
    BY <1>3, <1>8, ActiveEntry DEF Downloading, InState
  <2>2. written'[d.name] = written[d.name]
    BY <1>2, <1>3, <1>8, <2>1
  <2>. QED
    BY <1>8, <2>2 DEF Inv, LiveInv, WriterInv
<1>10. written' \in [Files -> Nat] /\ idx.logical <= idx'.logical
  BY <1>2, <1>3, <1>5
<1>. QED
  BY <1>2, <1>3, <1>4, <1>5, <1>6, <1>7, <1>8, <1>9, <1>10 DEF IndexStep

LEMMA DeleteSteps ==
    ASSUME Inv, NEW f \in Files, Delete(f)
    PROVE  IndexStep
<1>1. PICK e \in Named(idx, f) :
          /\ e.state = "active" /\ Changed({e}, {[e EXCEPT !.state = "deleted"]})
          /\ deleted' = deleted \cup {e.num}
  BY DEF Delete
<1>. DEFINE g == [e EXCEPT !.state = "deleted"]
<1>2. /\ up /\ ~compacting /\ UNCHANGED <<header, compacting, data, threads, rotten>>
      /\ UNCHANGED <<downloads, file, written>>
      /\ idx' = [idx EXCEPT !.gen = @ + 1, !.entries = (@ \ {e}) \cup {g}]
  BY <1>1 DEF Delete, Changed, data
<1>3. /\ Sound(idx) /\ downloads \in 0..MaxDownloads /\ written \in [Files -> Nat]
      /\ e \in idx.entries /\ e.name = f /\ idx.logical \in Nat /\ idx \in Image
  BY <1>1, StoreAssumption DEF Inv, TypeInv, Named, Sound, Image
<1>4. /\ idx'.gen = idx.gen + 1 /\ idx'.logical = idx.logical
      /\ idx'.entries = (idx.entries \ {e}) \cup {g}
  BY <1>2, <1>3 DEF Image
<1>5. /\ e \in EntryType /\ g.off = e.off /\ g.span = e.span
      /\ g.state = "deleted" /\ "deleted" \in StateNames
  BY <1>3, ActiveEntry DEF EntryType, StateNames
<1>6. Sound(idx')
  BY <1>2, <1>3, <1>5, ReplacedSound
<1>. HIDE DEF g
<1>7. \A a \in Active(idx') : a \in Active(idx)
  BY <1>4, <1>5 DEF Active, InState
<1>8. \A a \in Active(idx) : a.num \in deleted' \/ a \in Active(idx')
  BY <1>1, <1>4 DEF Active, InState
<1>9. \A d \in Downloading(idx') : d \in Downloading(idx)
  BY <1>4, <1>5 DEF Downloading, InState
<1>10. WriterInv'
  BY <1>2, <1>9 DEF Inv, LiveInv, WriterInv
<1>11. written' \in [Files -> Nat] /\ idx.logical <= idx'.logical /\ deleted \subseteq deleted'
       /\ downloads' \in 0..MaxDownloads
  BY <1>1, <1>2, <1>3, <1>4
<1>12. \A h \in idx'.entries : \/ idx.logical <= h.off
                               \/ \E k \in idx.entries : h.off = k.off /\ h.span = k.span
  BY <1>3, <1>4, <1>5
<1>. QED
  BY <1>2, <1>4, <1>6, <1>7, <1>8, <1>9, <1>10, <1>11, <1>12 DEF IndexStep

-----------------------------------------------------------------------------
(***************************************************************************)
(* A download writes where no file lies; the disk spoils a block.          *)
(***************************************************************************)
\* A step that leaves all images where they are.
LEMMA SameImages ==
    ASSUME UNCHANGED <<up, idx, disk, pending, pc, snap>>
    PROVE  /\ Live' = Live /\ OnDisk' = OnDisk /\ Seen' = Seen
           /\ Turning <=> pc[Compactor] \in {"flipped", "install"} \/ Finalizing
<1>1. Held' = Held
  BY DEF Held, Holding
<1>. QED
  BY <1>1 DEF Live, OnDisk, Seen, Images, Turning, Flipped

LEMMA WriteAtKeeps ==
    ASSUME Inv, NEW f \in Files, WriteAt(f)
    PROVE  Inv'
<1>1. PICK e \in Named(idx, f) :
          /\ e.state = "downloading" /\ written[f] < e.span
          /\ file' = [file EXCEPT ![e.off + written[f]] = <<e.num, written[f]>>]
  BY DEF WriteAt
<1>. DEFINE k == written[f]
<1>2. /\ up /\ written' = [written EXCEPT ![f] = k + 1]
      /\ UNCHANGED <<up, idx, disk, pending, pc, snap, lock, job, compacting, synced>>
      /\ UNCHANGED <<rotten, deleted, downloads>>
  BY DEF WriteAt, header, threads, history
<1>3. /\ Sound(idx) /\ e \in idx.entries /\ e.name = f /\ e \in Downloading(idx)
      /\ written \in [Files -> Nat] /\ file \in [Blocks -> Nat \X Nat] /\ k \in Nat
  BY <1>1 DEF Inv, TypeInv, Named, Downloading, InState
<1>4. /\ e \in EntryType /\ e.off \in Nat /\ e.span \in Nat /\ e.num \in 1..MaxDownloads
      /\ e.off + e.span <= idx.logical /\ idx.logical <= MaxBlock /\ idx.logical \in Nat
  BY <1>3, ActiveEntry
<1>. HIDE DEF k
<1>5. /\ k \in 0..(e.span - 1) /\ e.off + e.span <= MaxBlock
  <2>1. e.off + e.span \in Nat /\ MaxBlock \in Nat
    BY <1>4, StoreAssumption
  <2>. QED
    BY <1>1, <1>3, <1>4, <2>1 DEF k
<1>6. e.off + k \in Blocks /\ e.num \in Nat
  <2>1. e.off + k \in Blocks
    BY <1>4, <1>5, InBlocks
  <2>. QED
    BY <1>4, <2>1, StoreAssumption
<1>7. file' = [file EXCEPT ![e.off + k] = <<e.num, k>>]
  BY <1>1 DEF k
<1>8. ~compacting /\ pc[Compactor] = "idle"
  BY <1>3 DEF Inv, ControlInv, CompactInv
<1>9. TypeInv'
  <2>1. file' \in [Blocks -> Nat \X Nat]
    BY <1>3, <1>6, <1>7
  <2>2. written' \in [Files -> Nat]
    BY <1>2, <1>3
  <2>. QED
    BY <1>2, <2>1, <2>2 DEF Inv, TypeInv
<1>10. ControlInv'
  BY <1>2 DEF Inv, ControlInv, DownInv, LockInv, CompactInv, GenInv, PendingInv,
     Finalizing, Flipped, Flipping, Holding, Downloading, InState
<1>11. Live' = Live /\ OnDisk' = OnDisk /\ Turning' = Turning
  BY <1>2, SameImages DEF Turning, Finalizing, Flipped
<1>12. OrderInv' /\ ApartInv' /\ IndexInv'
  BY <1>2, <1>11, OrderFrame, ApartFrame, IndexFrame DEF Inv, LiveInv
<1>13. DataInv'
  <2>1. ASSUME NEW a \in Live, NEW g \in Active(a)
        PROVE  g.num \in rotten \/ Holds(file', g)
    <3>1. g.num \in rotten \/ Holds(file, g)
      BY DEF Inv, LiveInv, DataInv, Kept
    <3>2. Apart(g.off, g.span, e.off, e.span)
      BY <1>2, <1>3 DEF Inv, LiveInv, ApartInv, Clear
    <3>3. g \in EntryType /\ g.off + g.span <= MaxBlock
      BY LiveEntries
    <3>. QED
      BY <1>3, <1>4, <1>5, <1>7, <3>1, <3>2, <3>3, HoldsElsewhere
  <2>. QED
    BY <1>2, <1>11, <2>1 DEF Inv, LiveInv, DataInv, Kept
<1>14. WriterInv'
  <2>. SUFFICES ASSUME NEW d \in Downloading(idx)
                PROVE  /\ written'[d.name] <= d.span
                       /\ \A i \in 0..(written'[d.name] - 1) : file'[d.off + i] = <<d.num, i>>
    BY <1>2 DEF WriterInv
  <2>1. /\ d \in idx.entries /\ d.name \in Files /\ d.off \in Nat /\ d.span \in Nat
        /\ d.off + d.span <= MaxBlock
    <3>1. d \in idx.entries
      BY DEF Downloading, InState
    <3>2. /\ d.name \in Files /\ d.off \in Nat /\ d.span \in Nat /\ d.off + d.span <= idx.logical
      BY <1>3, <3>1, ActiveEntry
    <3>3. d.off + d.span \in Nat /\ MaxBlock \in Nat
      BY <3>2, StoreAssumption
    <3>. QED
      BY <1>4, <3>1, <3>2, <3>3
  <2>2. /\ written[d.name] <= d.span
        /\ \A i \in 0..(written[d.name] - 1) : file[d.off + i] = <<d.num, i>>
    BY DEF Inv, LiveInv, WriterInv
  <2>3. CASE d = e
    <3>1. written'[d.name] = k + 1 /\ written[d.name] = k
      BY <1>2, <1>3, <2>3 DEF k
    <3>2. ASSUME NEW i \in 0..k
          PROVE  file'[e.off + i] = <<e.num, i>>
      <4>1. CASE i = k
        BY <1>3, <1>6, <1>7, <4>1
      <4>2. CASE i # k
        <5>1. i \in 0..(k - 1) /\ i \in 0..(e.span - 1)
          BY <1>3, <1>4, <1>5, <4>2
        <5>2. e.off + i \in Blocks /\ e.off + i # e.off + k
          BY <1>3, <1>4, <1>5, <4>2, <5>1, InBlocks
        <5>3. file[e.off + i] = <<e.num, i>>
          BY <2>2, <2>3, <3>1, <5>1
        <5>. QED
          BY <1>3, <1>6, <1>7, <5>2, <5>3
      <4>. QED
        BY <4>1, <4>2
    <3>3. k + 1 <= e.span /\ (k + 1) - 1 = k
      BY <1>3, <1>4, <1>5
    <3>. QED
      BY <2>3, <3>1, <3>2, <3>3
  <2>4. CASE d # e
    <3>1. d.name # f /\ Apart(d.off, d.span, e.off, e.span)
      BY <1>3, <2>1, <2>4 DEF Sound, Clear
    <3>2. written'[d.name] = written[d.name] /\ written[d.name] \in Nat
      BY <1>2, <1>3, <2>1, <3>1
    <3>3. ASSUME NEW i \in 0..(written[d.name] - 1)
          PROVE  file'[d.off + i] = <<d.num, i>>
      <4>1. i \in 0..(d.span - 1)
        BY <2>1, <2>2, <3>2
      <4>2. d.off + i # e.off + k
        BY <1>4, <1>5, <2>1, <3>1, <4>1, ClearBlocks
      <4>3. d.off + i \in Blocks
        BY <2>1, <4>1, InBlocks
      <4>. QED
        BY <1>3, <1>6, <1>7, <2>2, <4>2, <4>3
    <3>. QED
      BY <2>2, <3>2, <3>3
  <2>. QED
    BY <2>3, <2>4
<1>15. RoundInv'
  BY <1>2, <1>8 DEF RoundInv, PlannedInv, MoveInv
<1>. QED
  BY <1>9, <1>10, <1>12, <1>13, <1>14, <1>15 DEF Inv, LiveInv

LEMMA RotKeeps ==
    ASSUME Inv, Rot
    PROVE  Inv'
<1>1. PICK e \in Active(idx) :
          /\ file' = [file EXCEPT ![e.off] = NoData]
          /\ synced' = [synced EXCEPT ![e.off] = NoData]
          /\ rotten' = rotten \cup {e.num}
  BY DEF Rot
<1>2. /\ UNCHANGED <<up, idx, disk, pending, pc, snap, lock, job, compacting, written>>
      /\ UNCHANGED <<deleted, downloads>>
  BY DEF Rot, header, threads
<1>3. /\ Sound(idx) /\ e \in idx.entries /\ e \in EntryType /\ e.off \in Nat /\ e.span \in Nat
      /\ e.span >= 1 /\ e.off + e.span <= idx.logical /\ idx.logical <= MaxBlock
      /\ file \in [Blocks -> Nat \X Nat] /\ synced \in [Blocks -> Nat \X Nat]
      /\ NoData \in Nat \X Nat /\ idx.logical \in Nat
  BY <1>1, ActiveEntry DEF Inv, TypeInv, Active, InState, NoData
\* There are Active files in the index only while the store is open.
<1>4. up
  BY <1>3 DEF Inv, ControlInv, DownInv, Empty
<1>5. 0 \in 0..(e.span - 1) /\ e.off + 0 = e.off /\ e.off + e.span <= MaxBlock
  <2>1. e.off + e.span \in Nat /\ MaxBlock \in Nat
    BY <1>3, StoreAssumption
  <2>. QED
    BY <1>3, <2>1
<1>6. e.off \in Blocks
  BY <1>3, <1>5, InBlocks
<1>7. TypeInv'
  <2>1. file' \in [Blocks -> Nat \X Nat] /\ synced' \in [Blocks -> Nat \X Nat]
    BY <1>1, <1>3, <1>6
  <2>. QED
    BY <1>2, <2>1 DEF Inv, TypeInv
<1>8. ControlInv'
  BY <1>2 DEF Inv, ControlInv, DownInv, LockInv, CompactInv, GenInv, PendingInv,
     Finalizing, Flipped, Flipping, Holding, Downloading, InState
<1>9. Live' = Live /\ OnDisk' = OnDisk /\ Turning' = Turning
  BY <1>2, SameImages DEF Turning, Finalizing, Flipped
<1>10. rotten \subseteq rotten' /\ e.num \in rotten'
  BY <1>1
<1>11. OrderInv' /\ ApartInv' /\ IndexInv'
  BY <1>2, <1>9, <1>10, OrderFrame, ApartFrame, IndexFrame DEF Inv, LiveInv
\* Another file does not lie on the block.
<1>12. ASSUME NEW a \in Live, NEW g \in Active(a), NEW copy \in [Blocks -> Nat \X Nat],
              Kept(copy, g)
       PROVE  g.num \in rotten' \/ Holds([copy EXCEPT ![e.off] = NoData], g)
  <2>1. CASE g.num \in rotten \/ g.num = e.num
    BY <1>10, <2>1
  <2>2. CASE g.num # e.num /\ g.num \notin rotten /\ Holds(copy, g)
    <3>1. idx \in Seen /\ a \in Seen
      BY <1>4 DEF Seen
    <3>2. Apart(g.off, g.span, e.off, e.span)
      BY <1>1, <2>2, <3>1 DEF Inv, LiveInv, ApartInv, Lapsed, Clear
    <3>3. g \in EntryType /\ g.off + g.span <= MaxBlock
      BY LiveEntries
    <3>4. Holds([copy EXCEPT ![e.off + 0] = NoData], g)
      BY <1>3, <1>5, <2>2, <3>2, <3>3, HoldsElsewhere
    <3>. QED
      BY <1>5, <3>4
  <2>. QED
    BY <1>12, <2>1, <2>2 DEF Kept
<1>13. DataInv'
  <2>1. \A a \in Live : \A g \in Active(a) : g.num \in rotten' \/ Holds(file', g)
    BY <1>1, <1>3, <1>12 DEF Inv, LiveInv, DataInv
  <2>2. \A a \in Live \cap OnDisk : \A g \in Active(a) : g.num \in rotten' \/ Holds(synced', g)
    BY <1>1, <1>3, <1>12 DEF Inv, LiveInv, DataInv
  <2>. QED
    BY <1>9, <2>1, <2>2 DEF DataInv, Kept
<1>14. WriterInv'
  <2>. SUFFICES ASSUME NEW d \in Downloading(idx), NEW i \in 0..(written[d.name] - 1)
                PROVE  file'[d.off + i] = <<d.num, i>>
    BY <1>2 DEF WriterInv, Inv, LiveInv
  <2>1. d \in idx.entries /\ d # e
    BY DEF Downloading, Active, InState
  <2>2. /\ d.name \in Files /\ d.off \in Nat /\ d.span \in Nat /\ d.off + d.span <= idx.logical
        /\ Apart(d.off, d.span, e.off, e.span)
    BY <1>3, <2>1, ActiveEntry DEF Sound, Clear
  <2>3. written[d.name] <= d.span /\ file[d.off + i] = <<d.num, i>> /\ written[d.name] \in Nat
    BY <2>2 DEF Inv, LiveInv, WriterInv, TypeInv
  <2>4. i \in 0..(d.span - 1)
    BY <2>2, <2>3
  <2>5. d.off + i # e.off
    BY <1>3, <2>2, <2>4, ClearFirst
  <2>6. d.off + i \in Nat
    BY <2>2, <2>4
  <2>7. d.off + d.span <= MaxBlock
    <3>1. d.off + d.span \in Nat /\ MaxBlock \in Nat
      BY <2>2, StoreAssumption
    <3>. QED
      BY <1>3, <2>2, <3>1
  <2>8. d.off + i \in Blocks
    BY <2>2, <2>4, <2>7, InBlocks
  <2>. QED
    BY <1>1, <1>3, <1>5, <1>6, <2>3, <2>5, <2>8
<1>15. RoundInv'
  <2>1. PlannedInv'
    BY <1>2 DEF Inv, RoundInv, PlannedInv
  <2>2. ASSUME pc[Compactor] = "move", NEW g \in Active(idx)
        PROVE  Copied(g)'
    <3>1. job.plan.placed = LayoutOf(idx).live /\ Copied(g) /\ (Turn(g) => job.block < g.span)
      BY <2>2 DEF Inv, RoundInv, MoveInv
    <3>2. /\ g \in idx.entries /\ g.name \in job.plan.placed /\ g.span \in Nat /\ g.off \in Nat
          /\ job.plan \in PlanType /\ PlanSafe(LayoutOf(idx), job.plan)
          /\ job.plan.dataEnd \in Nat /\ job.plan.dataEnd <= MaxBlock /\ job.block \in Nat
      BY <1>3, <2>2, <3>1, LayoutEntries, ActiveEntry
         DEF Active, InState, Inv, RoundInv, PlannedInv, TypeInv, JobType, PlanType
    <3>3. CASE g = e \/ g.num \in rotten
      BY <1>10, <3>3 DEF Copied
    <3>4. CASE g # e /\ \A i \in 0..(Read(g) - 1) : file[job.plan.target[g.name] + i] = <<g.num, i>>
      <4>. DEFINE to == job.plan.target[g.name]
      <4>1. /\ to \in Nat /\ to + g.span <= job.plan.dataEnd
            /\ to # g.off => Apart(to, g.span, e.off, e.span)
        BY <1>3, <3>2, TargetsOfEntries
      <4>2. Apart(to, g.span, e.off, e.span)
        BY <1>3, <3>2, <3>4, <4>1 DEF Sound, Clear
      <4>3. Read(g)' = Read(g) /\ Read(g) \in Nat /\ Read(g) <= g.span
        BY <1>2, <3>1, <3>2 DEF Read, Turn
      <4>4. to + g.span <= MaxBlock
        <5>1. to + g.span \in Nat /\ MaxBlock \in Nat
          BY <3>2, <4>1, StoreAssumption
        <5>. QED
          BY <3>2, <4>1, <5>1
      <4>. HIDE DEF to
      <4>5. ASSUME NEW i \in 0..(Read(g) - 1)
            PROVE  file'[to + i] = <<g.num, i>>
        <5>1. i \in 0..(g.span - 1)
          BY <3>2, <4>3
        <5>2. to + i # e.off
          BY <1>3, <3>2, <4>1, <4>2, <5>1, ClearFirst
        <5>3. to + i \in Blocks
          BY <3>2, <4>1, <4>4, <5>1, InBlocks
        <5>4. file[to + i] = <<g.num, i>>
          BY <3>4 DEF to
        <5>. QED
          BY <1>1, <1>3, <1>6, <5>2, <5>3, <5>4
      <4>6. \A i \in 0..(Read(g) - 1) : file'[job.plan.target[g.name] + i] = <<g.num, i>>
        BY <4>5 DEF to
      <4>. QED
        BY <1>2, <4>3, <4>6 DEF Copied
    <3>. QED
      BY <3>1, <3>3, <3>4 DEF Copied
  <2>3. MoveInv'
    BY <1>2, <1>10, <2>2 DEF Inv, RoundInv, MoveInv, Turn, Active, InState
  <2>. QED
    BY <2>1, <2>3 DEF RoundInv
<1>. QED
  BY <1>7, <1>8, <1>11, <1>13, <1>14, <1>15 DEF Inv, LiveInv

-----------------------------------------------------------------------------
(***************************************************************************)
(* The compaction copies a block.                                          *)
(***************************************************************************)
\* What is true while files move.
LEMMA WhileMoving ==
    ASSUME Inv, up, pc[Compactor] = "move"
    PROVE  /\ Sound(idx) /\ job \in JobType /\ job.plan \in PlanType /\ ~job.final /\ ~Turning
           /\ PlanSafe(LayoutOf(idx), job.plan)
           /\ job.plan.dataEnd \in Nat /\ job.plan.dataEnd <= MaxBlock
           /\ compacting /\ Downloading(idx) = {} /\ idx \in Live /\ idx.gen \in Nat
           /\ disk.gen = idx.gen
           /\ \A a \in Live : a.gen = idx.gen /\ \A e \in Active(a) : e \in Active(idx) \/ Lapsed(e)
           /\ lock # Compactor
<1>1. /\ Sound(idx) /\ job \in JobType /\ job.plan \in PlanType /\ job.plan.dataEnd \in Nat
      /\ idx.gen \in Nat
  BY DEF Inv, TypeInv, JobType, PlanType, Sound, Image
<1>2. /\ ~job.final /\ compacting /\ Downloading(idx) = {} /\ lock # Compactor
  BY DEF Inv, ControlInv, CompactInv, LockInv, Threads
<1>3. ~Turning /\ disk.gen = idx.gen
  BY DEF Inv, ControlInv, GenInv, Turning, Finalizing, Flipped
<1>4. idx \in Live /\ \A a \in Live : a.gen = idx.gen
  BY <1>3, NoneNewer DEF Inv
<1>5. \A a \in Live : \A e \in Active(a) : e \in Active(idx) \/ Lapsed(e)
  BY <1>4 DEF Inv, LiveInv, IndexInv
<1>. QED
  BY <1>1, <1>2, <1>3, <1>4, <1>5 DEF Inv, RoundInv, PlannedInv

\* Where a file is copied to, and how far it has come.
LEMMA MovingEntry ==
    ASSUME Inv, up, pc[Compactor] = "move", NEW e \in Active(idx)
    PROVE  /\ e \in idx.entries /\ e.name \in job.plan.placed /\ e.name \in Files
           /\ e \in EntryType /\ e.off \in Nat /\ e.span \in Nat /\ e.span >= 1
           /\ e.off + e.span <= MaxBlock /\ e.num \in Nat
           /\ job.plan.target[e.name] \in Nat
           /\ job.plan.target[e.name] + e.span <= MaxBlock
           /\ job.block \in Nat /\ Read(e) \in Nat /\ Read(e) <= e.span
<1>1. /\ Sound(idx) /\ job \in JobType /\ job.plan \in PlanType /\ idx \in Live
      /\ PlanSafe(LayoutOf(idx), job.plan)
      /\ job.plan.dataEnd \in Nat /\ job.plan.dataEnd <= MaxBlock
      /\ job.plan.placed = LayoutOf(idx).live
  BY WhileMoving DEF Inv, RoundInv, MoveInv
<1>2. /\ e \in idx.entries /\ e \in EntryType /\ e.off \in Nat /\ e.span \in Nat /\ e.span >= 1
      /\ e.off + e.span <= MaxBlock /\ e.name \in Files /\ e.name \in job.plan.placed
  BY <1>1, LiveEntries, LayoutEntries DEF EntryType
<1>3. job.plan.target[e.name] \in Nat /\ job.plan.target[e.name] + e.span <= job.plan.dataEnd
  BY <1>1, <1>2, TargetsOfEntries
<1>4. job.plan.target[e.name] + e.span <= MaxBlock
  <2>1. job.plan.target[e.name] + e.span \in Nat /\ MaxBlock \in Nat
    BY <1>2, <1>3, StoreAssumption
  <2>. QED
    BY <1>1, <1>3, <2>1
<1>5. job.block \in Nat /\ (Turn(e) => job.block < e.span)
  BY <1>1 DEF JobType, Inv, RoundInv, MoveInv
<1>6. Read(e) \in Nat /\ Read(e) <= e.span
  BY <1>2, <1>5 DEF Read
<1>7. e.num \in Nat
  BY <1>2, StoreAssumption DEF EntryType
<1>. QED
  BY <1>2, <1>3, <1>4, <1>5, <1>6, <1>7

\* One file at a time: no two Active files start at one block.
LEMMA OneTurn ==
    ASSUME Inv, up, pc[Compactor] = "move", NEW e \in Active(idx), NEW g \in Active(idx),
           Turn(e), Turn(g)
    PROVE  e = g
<1>1. /\ e.off \in Nat /\ g.off \in Nat /\ e.span \in Nat /\ g.span \in Nat
      /\ e.span >= 1 /\ g.span >= 1 /\ e \in idx.entries /\ g \in idx.entries
  BY MovingEntry
<1>2. e.off = g.off
  BY <1>1 DEF Turn
<1>3. ~Apart(e.off, e.span, g.off, g.span)
  BY <1>1, <1>2 DEF Apart
<1>. QED
  BY <1>1, <1>3 DEF Inv, TypeInv, Sound, Clear

\* A block is read of the file whose turn it is, of no other.
LEMMA CopyBlockReads ==
    ASSUME Inv, CopyBlock
    PROVE  \A g \in Active(idx) : Read(g)' = IF Turn(g) THEN job.block + 1 ELSE Read(g)
<1>1. PICK e \in Active(idx) :
          LET last == job.block = e.span - 1 IN
          /\ Turn(e)
          /\ job'.block = IF last THEN 0 ELSE job.block + 1
          /\ job'.left = IF last THEN job.left \ {e.name} ELSE job.left
  BY DEF CopyBlock, Inv, TypeInv, JobType
<1>. DEFINE last == job.block = e.span - 1
<1>2. up /\ pc[Compactor] = "move" /\ idx' = idx /\ Sound(idx)
  BY DEF CopyBlock, Inv, TypeInv
<1>3. /\ e \in idx.entries /\ e.span \in Nat /\ job.block \in Nat /\ job.block < e.span
      /\ e.name \in job.left
  BY <1>1, <1>2, MovingEntry DEF Inv, RoundInv, MoveInv, Turn
<1>. SUFFICES ASSUME NEW g \in Active(idx)
              PROVE  Read(g)' = IF Turn(g) THEN job.block + 1 ELSE Read(g)
  OBVIOUS
<1>4. g \in idx.entries /\ (g.name = e.name => g = e)
  BY <1>2, <1>3, MovingEntry DEF Sound
<1>5. Turn(g) => g = e
  BY <1>1, <1>2, OneTurn
<1>6. ~last => (Turn(g)' <=> Turn(g))
  BY <1>1, <1>2 DEF Turn, Active, InState
<1>7. CASE g = e
  <2>1. CASE last
    <3>1. e.name \notin job'.left /\ job.block + 1 = e.span
      BY <1>1, <1>3, <2>1
    <3>. QED
      BY <1>1, <1>7, <3>1 DEF Read
  <2>2. CASE ~last
    <3>1. e.name \in job'.left /\ Turn(e)' /\ job'.block = job.block + 1
      BY <1>1, <1>3, <1>6, <1>7, <2>2
    <3>. QED
      BY <1>1, <1>7, <3>1 DEF Read
  <2>. QED
    BY <2>1, <2>2
<1>8. CASE g # e
  <2>1. g.name # e.name /\ ~Turn(g) /\ (g.name \in job'.left <=> g.name \in job.left)
    BY <1>1, <1>4, <1>5, <1>8
  <2>2. CASE last
    BY <1>1, <2>1, <2>2 DEF Read
  <2>3. CASE ~last
    BY <1>6, <2>1, <2>3 DEF Read
  <2>. QED
    BY <2>2, <2>3
<1>. QED
  BY <1>7, <1>8

LEMMA CopyBlockKeeps ==
    ASSUME Inv, CopyBlock
    PROVE  Inv'
<1>1. PICK e \in Active(idx) :
          LET cell == file[e.off + job.block]
              last == job.block = e.span - 1
              to   == job.plan.target[e.name] IN
          /\ Turn(e)
          /\ file' = IF to = e.off THEN file ELSE [file EXCEPT ![to + job.block] = cell]
          /\ job' = [job EXCEPT !.block = IF last THEN 0 ELSE @ + 1,
                                !.left  = IF last THEN @ \ {e.name} ELSE @,
                                !.bad   = IF cell = <<e.num, job.block>> THEN @
                                          ELSE @ \cup {e.name}]
  BY DEF CopyBlock
<1>. DEFINE k    == job.block
            cell == file[e.off + k]
            last == k = e.span - 1
            to   == job.plan.target[e.name]
<1>2. /\ up /\ pc[Compactor] = "move" /\ Turn(e)
      /\ UNCHANGED <<up, idx, disk, pending, pc, snap, lock, compacting, synced, written>>
      /\ UNCHANGED <<rotten, deleted, downloads>>
  BY <1>1 DEF CopyBlock, header, history
<1>3. file' = IF to = e.off THEN file ELSE [file EXCEPT ![to + k] = cell]
  BY <1>1
<1>4. /\ job \in JobType /\ job'.plan = job.plan /\ job'.final = job.final
      /\ job'.block = IF last THEN 0 ELSE k + 1
      /\ job'.left = IF last THEN job.left \ {e.name} ELSE job.left
      /\ job'.bad = IF cell = <<e.num, k>> THEN job.bad ELSE job.bad \cup {e.name}
      /\ job' = [plan |-> job'.plan, left |-> job'.left, block |-> job'.block,
                 bad |-> job'.bad, final |-> job'.final]
  <2>1. job \in JobType
    BY DEF Inv, TypeInv
  <2>. QED
    BY <1>1, <2>1 DEF JobType
<1>5. /\ Sound(idx) /\ job.plan \in PlanType /\ ~job.final /\ ~Turning /\ idx \in Live
      /\ PlanSafe(LayoutOf(idx), job.plan) /\ job.plan.dataEnd <= MaxBlock
      /\ compacting /\ Downloading(idx) = {}
      /\ \A a \in Live : \A g \in Active(a) : g \in Active(idx) \/ Lapsed(g)
  BY <1>2, WhileMoving
<1>6. /\ job.plan.placed = LayoutOf(idx).live /\ job.left \subseteq job.plan.placed
      /\ \A g \in Active(idx) : /\ g.name \in job.bad => g.num \in rotten
                                /\ Turn(g) => k < g.span
                                /\ Copied(g)
  BY <1>2 DEF Inv, RoundInv, MoveInv
<1>7. /\ e \in idx.entries /\ e.name \in job.plan.placed /\ e.name \in Files
      /\ e \in EntryType /\ e.off \in Nat /\ e.span \in Nat /\ e.span >= 1
      /\ e.off + e.span <= MaxBlock /\ e.num \in Nat
      /\ to \in Nat /\ to + e.span <= MaxBlock /\ k \in Nat
  BY <1>2, MovingEntry
<1>8. k \in 0..(e.span - 1) /\ e.name \in job.left
  BY <1>2, <1>6, <1>7 DEF Turn
<1>9. to \in Nat /\ (to # e.off => \A g \in Active(idx) : Apart(to, e.span, g.off, g.span))
  BY <1>5, <1>7, TargetsOfEntries
<1>. HIDE DEF to, k
<1>10. e.off + k \in Blocks /\ to + k \in Blocks
  BY <1>7, <1>8, InBlocks
<1>11. file \in [Blocks -> Nat \X Nat] /\ cell \in Nat \X Nat
  BY <1>10 DEF Inv, TypeInv
<1>12. cell = <<e.num, k>> \/ e.num \in rotten
  <2>1. Kept(file, e)
    BY <1>5 DEF Inv, LiveInv, DataInv
  <2>. QED
    BY <1>8, <2>1 DEF Kept, Holds
<1>. HIDE DEF cell
<1>13. file'[to + k] = cell /\ \A b \in Blocks : b # to + k => file'[b] = file[b]
  <2>1. CASE to = e.off
    BY <1>3, <2>1 DEF cell
  <2>2. CASE to # e.off
    BY <1>3, <1>10, <1>11, <2>2
  <2>. QED
    BY <2>1, <2>2
<1>14. TypeInv'
  <2>1. file' \in [Blocks -> Nat \X Nat]
    BY <1>3, <1>10, <1>11
  <2>2. job' \in JobType
    <3>1. /\ job'.left \in SUBSET Files /\ job'.bad \in SUBSET Files /\ job'.block \in Nat
          /\ job'.final \in BOOLEAN /\ job'.plan \in PlanType
      BY <1>4, <1>5, <1>7 DEF JobType
    <3>. QED
      BY <1>4, <3>1 DEF JobType
  <2>. QED
    BY <1>2, <2>1, <2>2 DEF Inv, TypeInv
<1>15. ControlInv'
  BY <1>2, <1>4 DEF Inv, ControlInv, DownInv, LockInv, CompactInv, GenInv, PendingInv,
     Finalizing, Flipped, Flipping, Holding, Downloading, InState
<1>16. Live' = Live /\ OnDisk' = OnDisk /\ Turning' = Turning
  BY <1>2, <1>4, SameImages DEF Turning, Finalizing, Flipped
<1>17. OrderInv' /\ ApartInv' /\ IndexInv'
  BY <1>2, <1>16, OrderFrame, ApartFrame, IndexFrame DEF Inv, LiveInv
\* The copy lands where no live file is.
<1>18. DataInv'
  <2>1. ASSUME NEW a \in Live, NEW g \in Active(a)
        PROVE  g.num \in rotten \/ Holds(file', g)
    <3>1. g.num \in rotten \/ Holds(file, g)
      BY DEF Inv, LiveInv, DataInv, Kept
    <3>2. /\ g \in Active(idx) \/ g.num \in rotten
          /\ g \in EntryType /\ g.off + g.span <= MaxBlock
      BY <1>5, LiveEntries DEF Lapsed
    <3>3. CASE to = e.off
      BY <1>3, <3>1, <3>3
    <3>4. CASE to # e.off /\ g.num \notin rotten
      <4>1. Apart(g.off, g.span, to, e.span)
        BY <1>9, <3>2, <3>4 DEF Apart
      <4>2. file' = [file EXCEPT ![to + k] = cell]
        BY <1>3, <3>4
      <4>. QED
        BY <1>7, <1>8, <1>11, <3>1, <3>2, <4>1, <4>2, HoldsElsewhere
    <3>. QED
      BY <3>3, <3>4
  <2>. QED
    BY <1>2, <1>16, <2>1 DEF Inv, LiveInv, DataInv, Kept
<1>19. WriterInv'
  BY <1>2, <1>5 DEF WriterInv, Downloading, InState
<1>20. job'.plan = job.plan /\ PlannedInv'
  BY <1>2, <1>4 DEF Inv, RoundInv, PlannedInv
<1>21. ASSUME NEW g \in Active(idx)
       PROVE  /\ g.name \in job'.bad => g.num \in rotten
              /\ Turn(g)' => job'.block < g.span
              /\ Copied(g)'
  <2>1. /\ g \in idx.entries /\ g.span \in Nat /\ g.span >= 1 /\ g.off \in Nat
        /\ g.name \in job.plan.placed /\ g.num \in Nat
        /\ job.plan.target[g.name] \in Nat /\ job.plan.target[g.name] + g.span <= MaxBlock
        /\ Read(g) \in Nat /\ Read(g) <= g.span
    BY <1>2, MovingEntry
  <2>2. g.name = e.name => g = e
    BY <1>5, <1>7, <2>1 DEF Sound
  <2>3. g.name \in job'.bad => g.num \in rotten
    BY <1>4, <1>6, <1>12, <2>2
  <2>4. ~last => (Turn(g)' <=> Turn(g))
    BY <1>2, <1>4 DEF Turn, Active, InState
  <2>5. Turn(g) => g = e
    BY <1>2, OneTurn
  <2>6. Turn(g)' => job'.block < g.span
    <3>1. CASE last
      BY <1>4, <2>1, <3>1
    <3>2. CASE ~last
      <4>1. k + 1 < e.span
        BY <1>7, <1>8, <3>2
      <4>. QED
        BY <1>4, <2>4, <2>5, <3>2, <4>1
    <3>. QED
      BY <3>1, <3>2
  <2>7. CASE g = e
    <3>1. Read(e)' = k + 1
      BY <1>2, CopyBlockReads DEF k
    <3>2. Read(e) = k
      BY <1>2, <1>8 DEF Read, k
    <3>3. CASE e.num \in rotten
      BY <1>2, <2>3, <2>6, <2>7, <3>3 DEF Copied
    <3>4. CASE e.num \notin rotten
      <4>1. ASSUME NEW i \in 0..k
            PROVE  file'[to + i] = <<e.num, i>>
        <5>1. CASE i = k
          BY <1>12, <1>13, <3>4, <5>1
        <5>2. CASE i # k
          <6>1. i \in 0..(k - 1) /\ i \in 0..(e.span - 1) /\ to + i # to + k
            BY <1>7, <1>8, <5>2
          <6>2. file[to + i] = <<e.num, i>>
            BY <1>6, <2>7, <3>2, <3>4, <6>1 DEF Copied, to
          <6>3. to + i \in Blocks
            BY <1>7, <6>1, InBlocks
          <6>. QED
            BY <1>13, <6>1, <6>2, <6>3
        <5>. QED
          BY <5>1, <5>2
      <4>2. (k + 1) - 1 = k
        BY <1>7
      <4>3. \A i \in 0..(Read(e)' - 1) : file'[job'.plan.target[e.name] + i] = <<e.num, i>>
        BY <1>20, <3>1, <4>1, <4>2 DEF to
      <4>. QED
        BY <2>3, <2>6, <2>7, <4>3 DEF Copied
    <3>. QED
      BY <2>3, <2>6, <3>3, <3>4
  <2>8. CASE g # e
    <3>1. Read(g)' = Read(g)
      BY <2>5, <2>8, CopyBlockReads
    <3>2. Apart(job.plan.target[g.name], g.span, to, e.span)
      BY <1>5, <1>7, <2>1, <2>8, TargetsOfEntries DEF to
    <3>. DEFINE tg == job.plan.target[g.name]
    <3>3. tg \in Nat /\ tg + g.span <= MaxBlock /\ Apart(tg, g.span, to, e.span)
      BY <2>1, <3>2
    <3>4. g.num \notin rotten => \A i \in 0..(Read(g) - 1) : file[tg + i] = <<g.num, i>>
      BY <1>6 DEF Copied
    <3>. HIDE DEF tg
    <3>5. ASSUME g.num \notin rotten, NEW i \in 0..(Read(g) - 1)
          PROVE  file'[tg + i] = <<g.num, i>>
      <4>1. i \in 0..(g.span - 1)
        BY <2>1
      <4>2. tg + i # to + k
        BY <1>7, <1>8, <2>1, <3>3, <4>1, ClearBlocks
      <4>3. tg + i \in Blocks
        BY <2>1, <3>3, <4>1, InBlocks
      <4>. QED
        BY <1>13, <3>4, <3>5, <4>2, <4>3
    <3>6. g.num \in rotten \/ \A i \in 0..(Read(g)' - 1) : file'[job'.plan.target[g.name] + i] = <<g.num, i>>
      BY <1>20, <3>1, <3>5 DEF tg
    <3>7. Copied(g)'
      BY <1>2, <3>6 DEF Copied
    <3>. QED
      BY <2>3, <2>6, <3>7
  <2>. QED
    BY <2>7, <2>8
<1>22. MoveInv'
  <2>1. job'.left \subseteq job.plan.placed
    BY <1>4, <1>6
  <2>. QED
    BY <1>2, <1>6, <1>20, <1>21, <2>1 DEF MoveInv, Active, InState
<1>. QED
  BY <1>14, <1>15, <1>17, <1>18, <1>19, <1>20, <1>22 DEF Inv, LiveInv, RoundInv

-----------------------------------------------------------------------------
(***************************************************************************)
(* The compaction builds the image of the new layout.                      *)
(***************************************************************************)
\* What Finalize makes of the index: the files that failed their crc are Bad, the
\* others are in the new layout, at their targets.
LEMMA FinalizeBuilds ==
    ASSUME Inv, Finalize
    PROVE  /\ up /\ pc[Compactor] = "move" /\ job.left = {}
           /\ pc' = [pc EXCEPT ![Compactor] = "synced"]
           /\ \A e \in Active(idx') : e \in Active(idx)
           /\ \A e \in Active(idx) : e \in Active(idx') \/ e.num \in rotten
           /\ \A e \in Active(idx') :
                  \E h \in Active(snap'[Compactor]) : h.name = e.name /\ h.num = e.num
           /\ \A h \in idx'.entries : \E e \in idx.entries : h.off = e.off /\ h.span = e.span
           /\ \A h \in snap'[Compactor].entries :
                  \E e \in Active(idx) : h.off = job.plan.target[e.name] /\ h.span = e.span
<1>. DEFINE to(e) == job.plan.target[e.name]
            bad   == {e \in Active(idx) : e.name \in job.bad}
            spoilt == {[e EXCEPT !.state = "bad"] : e \in bad}
            keep  == {[e EXCEPT !.off = to(e)] : e \in Active(idx) \ bad}
<1>1. /\ up /\ pc[Compactor] = "move" /\ job.left = {}
      /\ pc' = [pc EXCEPT ![Compactor] = "synced"]
      /\ idx' = [idx EXCEPT !.entries = (@ \ bad) \cup spoilt]
  BY DEF Finalize, Goto
<1>2. \E n : snap' = [snap EXCEPT ![Compactor] =
                         [gen |-> idx.gen + 1, logical |-> n, entries |-> keep]]
  BY DEF Finalize
<1>3. Sound(idx) /\ idx \in Image /\ snap \in [Threads -> Image] /\ Compactor \in Threads
  BY DEF Inv, TypeInv, Sound, Threads
<1>4. idx'.entries = (idx.entries \ bad) \cup spoilt /\ snap'[Compactor].entries = keep
  BY <1>1, <1>2, <1>3 DEF Image
<1>5. \A e \in Active(idx) : e \in idx.entries /\ e \in EntryType /\ e.state = "active"
                             /\ to(e) \in Nat
  BY <1>1, MovingEntry DEF Active, InState
<1>6. \A e \in Active(idx) :
          LET h == [e EXCEPT !.off = to(e)] IN
          h.name = e.name /\ h.num = e.num /\ h.span = e.span /\ h.off = to(e) /\ h.state = "active"
  <2>. SUFFICES ASSUME NEW e \in Active(idx), NEW n \in Nat
                PROVE  LET h == [e EXCEPT !.off = n] IN
                       /\ h.name = e.name /\ h.num = e.num /\ h.span = e.span
                       /\ h.off = n /\ h.state = "active"
    BY <1>5
  <2>. QED
    BY <1>5 DEF EntryType
<1>7. \A e \in bad : LET h == [e EXCEPT !.state = "bad"] IN
                     h.off = e.off /\ h.span = e.span /\ h.state = "bad"
  BY <1>5 DEF EntryType
<1>8. \A e \in bad : e.num \in rotten /\ e \in idx.entries
  BY <1>1, <1>5 DEF Inv, RoundInv, MoveInv
<1>9. \A e : e \in Active(idx') <=> e \in Active(idx) /\ e \notin bad
  <2>1. \A h \in spoilt : h.state # "active"
    BY <1>7
  <2>2. \A e : e \in Active(idx) <=> e \in idx.entries /\ e.state = "active"
    BY DEF Active, InState
  <2>3. \A e : e \in Active(idx') <=> e \in idx'.entries /\ e.state = "active"
    BY DEF Active, InState
  <2>. HIDE DEF spoilt, bad
  <2>. QED
    BY <1>4, <2>1, <2>2, <2>3
<1>10. \A e \in Active(idx) \ bad :
           \E h \in Active(snap'[Compactor]) : h.name = e.name /\ h.num = e.num
  <2>. SUFFICES ASSUME NEW e \in Active(idx) \ bad
                PROVE  \E h \in Active(snap'[Compactor]) : h.name = e.name /\ h.num = e.num
    OBVIOUS
  <2>. DEFINE h == [e EXCEPT !.off = to(e)]
  <2>1. h \in keep /\ h.name = e.name /\ h.num = e.num /\ h.state = "active"
    BY <1>6
  <2>. HIDE DEF h, keep
  <2>. QED
    BY <1>4, <2>1 DEF Active, InState
<1>11. \A h \in idx'.entries : \E e \in idx.entries : h.off = e.off /\ h.span = e.span
  <2>1. \A h \in spoilt : \E e \in bad : h = [e EXCEPT !.state = "bad"]
    OBVIOUS
  <2>2. ASSUME NEW h \in spoilt
        PROVE  \E e \in idx.entries : h.off = e.off /\ h.span = e.span
    <3>1. PICK e \in bad : h = [e EXCEPT !.state = "bad"]
      BY <2>1
    <3>2. h.off = e.off /\ h.span = e.span /\ e \in idx.entries
      BY <1>7, <1>8, <3>1
    <3>. QED
      BY <3>2
  <2>. HIDE DEF spoilt, bad
  <2>. QED
    BY <1>4, <2>2
<1>12. \A h \in keep : \E e \in Active(idx) : h.off = to(e) /\ h.span = e.span
  BY <1>6
<1>. QED
  BY <1>1, <1>4, <1>8, <1>9, <1>10, <1>11, <1>12

LEMMA FinalizeKeeps ==
    ASSUME Inv, Finalize
    PROVE  Inv'
<1>. DEFINE to(e) == job.plan.target[e.name]
            bad   == {e \in Active(idx) : e.name \in job.bad}
            keep  == {[e EXCEPT !.off = to(e)] : e \in Active(idx) \ bad}
            ends  == {0} \cup {e.off + e.span : e \in keep}
            spoilt == {[e EXCEPT !.state = "bad"] : e \in bad}
            N     == snap'[Compactor]
<1>1. /\ up /\ pc[Compactor] = "move" /\ job.left = {}
      /\ pc' = [pc EXCEPT ![Compactor] = "synced"] /\ synced' = file
      /\ job' = [job EXCEPT !.final = TRUE]
      /\ UNCHANGED <<up, disk, pending, written, compacting, file, lock>>
      /\ UNCHANGED <<rotten, deleted, downloads>>
      /\ idx' = [idx EXCEPT !.entries = (@ \ bad) \cup spoilt]
  BY DEF Finalize, Goto, header, history
<1>2. PICK n \in ends :
          /\ \A m \in ends : m <= n
          /\ snap' = [snap EXCEPT ![Compactor] =
                         [gen |-> idx.gen + 1, logical |-> n, entries |-> keep]]
  BY DEF Finalize
<1>3. /\ Sound(idx) /\ job \in JobType /\ job.plan \in PlanType /\ ~job.final /\ ~Turning
      /\ PlanSafe(LayoutOf(idx), job.plan) /\ compacting /\ Downloading(idx) = {}
      /\ idx \in Live /\ idx.gen \in Nat /\ disk.gen = idx.gen /\ lock # Compactor
      /\ \A a \in Live : a.gen = idx.gen /\ \A e \in Active(a) : e \in Active(idx) \/ Lapsed(e)
  BY <1>1, WhileMoving
<1>4. /\ pc \in [Threads -> CompactSteps] /\ snap \in [Threads -> Image] /\ Compactor \in Threads
      /\ \A u \in Flushers : u \in Threads /\ u # Compactor
  BY StoreAssumption DEF Inv, TypeInv, Threads
<1>5. N = [gen |-> idx.gen + 1, logical |-> n, entries |-> keep]
  BY <1>2, <1>4
<1>6. N.gen = idx.gen + 1 /\ N.logical = n /\ N.entries = keep
  BY <1>5
<1>7. /\ \A u \in Threads : pc'[u] = IF u = Compactor THEN "synced" ELSE pc[u]
      /\ \A u \in Threads : u # Compactor => snap'[u] = snap[u]
  BY <1>1, <1>2, <1>4
<1>8. \A e \in Active(idx) :
          /\ e \in idx.entries /\ e.name \in job.plan.placed /\ e.state = "active"
          /\ e \in EntryType /\ e.off \in Nat /\ e.span \in Nat /\ e.span >= 1
          /\ to(e) \in Nat /\ to(e) + e.span <= MaxBlock
  BY <1>1, MovingEntry DEF Active, InState
\* The entries of the new layout are those of the index, in their new places.
<1>9. \A h \in keep : \E e \in Active(idx) \ bad :
          /\ h.name = e.name /\ h.num = e.num /\ h.span = e.span /\ h.off = to(e)
          /\ h.state = "active" /\ h \in EntryType /\ h = [e EXCEPT !.off = to(e)]
  <2>. SUFFICES ASSUME NEW e \in Active(idx) \ bad
                PROVE  LET h == [e EXCEPT !.off = to(e)] IN
                       /\ h.name = e.name /\ h.num = e.num /\ h.span = e.span /\ h.off = to(e)
                       /\ h.state = "active" /\ h \in EntryType
    OBVIOUS
  <2>1. e \in EntryType /\ e.state = "active" /\ to(e) \in Nat
    BY <1>8
  <2>. HIDE DEF to, bad
  <2>. QED
    BY <2>1 DEF EntryType
<1>10. \A e \in Active(idx) \ bad : \E h \in keep : h.name = e.name /\ h.num = e.num
  <2>. SUFFICES ASSUME NEW e \in Active(idx) \ bad
                PROVE  \E h \in keep : h.name = e.name /\ h.num = e.num
    OBVIOUS
  <2>1. [e EXCEPT !.off = to(e)] \in keep
    OBVIOUS
  <2>2. e \in EntryType
    BY <1>8
  <2>3. [e EXCEPT !.off = to(e)].name = e.name /\ [e EXCEPT !.off = to(e)].num = e.num
    BY <2>2 DEF EntryType
  <2>. QED
    BY <2>1, <2>3
<1>11. \A e \in bad : e \in Active(idx) /\ e.num \in rotten
  BY <1>1 DEF Inv, RoundInv, MoveInv
<1>12. \A h \in spoilt : \E e \in bad :
           /\ h.name = e.name /\ h.off = e.off /\ h.span = e.span
           /\ h.state = "bad" /\ h \in EntryType
  <2>. SUFFICES ASSUME NEW e \in bad
                PROVE  LET h == [e EXCEPT !.state = "bad"] IN
                       /\ h.name = e.name /\ h.off = e.off /\ h.span = e.span
                       /\ h.state = "bad" /\ h \in EntryType
    OBVIOUS
  <2>1. e \in EntryType
    BY <1>8, <1>11
  <2>. QED
    BY <2>1 DEF EntryType, StateNames
<1>13. \A h \in ends : h = 0 \/ \E g \in keep : h = g.off + g.span
  OBVIOUS
<1>14. \A h \in keep : h.off + h.span \in ends
  OBVIOUS
<1>15. \A e, g \in Active(idx) : e # g =>
           /\ e.name # g.name /\ Clear(e, g)
           /\ Apart(to(e), e.span, to(g), g.span)
           /\ Apart(to(e), e.span, g.off, g.span) /\ Apart(g.off, g.span, to(e), e.span)
  <2>. SUFFICES ASSUME NEW e \in Active(idx), NEW g \in Active(idx), e # g
                PROVE  /\ e.name # g.name /\ Clear(e, g)
                       /\ Apart(to(e), e.span, to(g), g.span)
                       /\ Apart(to(e), e.span, g.off, g.span) /\ Apart(g.off, g.span, to(e), e.span)
    OBVIOUS
  <2>1. e.name # g.name /\ Clear(e, g)
    BY <1>3, <1>8 DEF Sound
  <2>2. Apart(to(e), e.span, to(g), g.span)
    BY <1>3, <1>8, TargetsOfEntries
  <2>3. to(e) # e.off => Apart(to(e), e.span, g.off, g.span)
    BY <1>3, <1>8, TargetsOfEntries
  <2>4. Apart(to(e), e.span, g.off, g.span)
    BY <2>1, <2>3 DEF Clear
  <2>. QED
    BY <2>1, <2>2, <2>4 DEF Apart
<1>. HIDE DEF keep, ends, spoilt, to
<1>16. /\ idx'.gen = idx.gen /\ idx'.logical = idx.logical
       /\ idx'.entries = (idx.entries \ bad) \cup spoilt /\ idx \in Image
  BY <1>1, <1>3 DEF Sound, Image
<1>17. Sound(idx')
  <2>1. idx' \in Image
    <3>1. (idx.entries \ bad) \cup spoilt \in SUBSET EntryType
      BY <1>12, <1>16 DEF Image
    <3>. QED
      BY <1>1, <1>16, <3>1 DEF Image
  <2>2. \A h \in idx'.entries :
            \E e \in idx.entries : /\ h.name = e.name /\ h.off = e.off /\ h.span = e.span
                                   /\ \/ h = e /\ e \notin bad
                                      \/ h \in spoilt /\ e \in bad /\ h = [e EXCEPT !.state = "bad"]
    <3>1. \A h \in spoilt : \E e \in bad : h = [e EXCEPT !.state = "bad"]
      BY DEF spoilt
    <3>2. \A e \in bad : e \in idx.entries /\ e \in EntryType
      BY <1>8, <1>11
    <3>3. \A e \in bad : LET h == [e EXCEPT !.state = "bad"] IN
                         h.name = e.name /\ h.off = e.off /\ h.span = e.span
      BY <3>2 DEF EntryType
    <3>. QED
      BY <1>16, <3>1, <3>2, <3>3
  <2>. HIDE DEF bad
  <2>3. \A h, k \in idx'.entries : h.name = k.name => h = k
    BY <1>3, <2>2 DEF Sound
  <2>4. \A h, k \in idx'.entries : h # k => Clear(h, k)
    <3>. SUFFICES ASSUME NEW h \in idx'.entries, NEW k \in idx'.entries, h # k
                  PROVE  Clear(h, k)
      OBVIOUS
    <3>1. PICK e \in idx.entries : h.name = e.name /\ h.off = e.off /\ h.span = e.span
      BY <2>2
    <3>2. PICK g \in idx.entries : k.name = g.name /\ k.off = g.off /\ k.span = g.span
      BY <2>2
    <3>3. e # g
      BY <2>3, <3>1, <3>2
    <3>. QED
      BY <1>3, <3>1, <3>2, <3>3 DEF Sound, Clear
  <2>5. \A h \in idx'.entries : h.off + h.span <= idx'.logical
    BY <1>3, <1>16, <2>2 DEF Sound
  <2>. QED
    BY <2>1, <2>3, <2>4, <2>5 DEF Sound
<1>18. \A e : e \in Active(idx') <=> e \in Active(idx) /\ e \notin bad
  BY <1>12, <1>16 DEF Active, InState
<1>19. Downloading(idx') = {}
  <2>1. \A h \in spoilt : h.state # "downloading"
    BY <1>12
  <2>. QED
    BY <1>3, <1>16, <2>1 DEF Downloading, InState
<1>20. \A h : h \in Active(N) <=> h \in keep
  BY <1>6, <1>9 DEF Active, InState
<1>21. Downloading(N) = {}
  BY <1>6, <1>9 DEF Downloading, InState
<1>22. Sound(N)
  <2>1. n \in 0..MaxBlock
    BY <1>8, <1>9, <1>13, StoreAssumption
  <2>2. N \in Image
    <3>1. keep \in SUBSET EntryType /\ idx.gen + 1 \in Nat
      BY <1>3, <1>9
    <3>. QED
      BY <1>5, <2>1, <3>1 DEF Image
  <2>3. \A h, k \in keep : h.name = k.name => h = k
    BY <1>9, <1>15
  <2>4. \A h, k \in keep : h # k => Clear(h, k)
    <3>. SUFFICES ASSUME NEW h \in keep, NEW k \in keep, h # k
                  PROVE  Clear(h, k)
      OBVIOUS
    <3>1. PICK e \in Active(idx) \ bad : h.name = e.name /\ h.span = e.span /\ h.off = to(e)
      BY <1>9
    <3>2. PICK g \in Active(idx) \ bad : k.name = g.name /\ k.span = g.span /\ k.off = to(g)
      BY <1>9
    <3>3. e # g
      BY <2>3, <3>1, <3>2
    <3>. QED
      BY <1>15, <3>1, <3>2, <3>3 DEF Clear
  <2>5. \A h \in keep : h.off + h.span <= n
    BY <1>2, <1>14
  <2>. QED
    BY <1>6, <2>2, <2>3, <2>4, <2>5 DEF Sound
<1>. HIDE DEF N, bad
<1>23. TypeInv'
  <2>1. /\ job' \in JobType
        /\ pc' \in [Threads -> CompactSteps] /\ \A u \in Flushers : pc'[u] \in FlushSteps
    BY <1>1, <1>3, <1>4, <1>7 DEF JobType, CompactSteps, FlushSteps, Inv, TypeInv
  <2>2. snap' \in [Threads -> Image] /\ \A u \in Threads : Sound(snap'[u])
    <3>1. N \in Image
      BY <1>22 DEF Sound
    <3>2. snap' = [snap EXCEPT ![Compactor] = N]
      BY <1>2, <1>4, <1>5
    <3>3. snap' \in [Threads -> Image]
      BY <1>4, <3>1, <3>2
    <3>4. \A u \in Threads : Sound(snap'[u])
      BY <1>7, <1>22 DEF Inv, TypeInv, N
    <3>. QED
      BY <3>3, <3>4
  <2>. QED
    BY <1>1, <1>17, <2>1, <2>2 DEF Inv, TypeInv
<1>24. \A u \in Threads : Holding(u)' <=> u = Compactor \/ (u # Compactor /\ Holding(u))
  BY <1>7 DEF Holding
<1>25. job'.final = TRUE /\ pc'[Compactor] = "synced" /\ Turning' /\ Finalizing' /\ ~Flipped'
  BY <1>1, <1>3, <1>4, <1>7 DEF JobType, Turning, Finalizing, Flipped
<1>26. ControlInv'
  <2>1. LockInv'
    BY <1>1, <1>7, LockFrame DEF Inv, ControlInv
  <2>2. CompactInv'
    BY <1>1, <1>3, <1>19, <1>25 DEF CompactInv
  <2>3. GenInv'
    <3>1. \A u \in Flushers : Holding(u)' => snap'[u].gen <= idx'.gen
      BY <1>4, <1>7, <1>16, <1>24 DEF Inv, ControlInv, GenInv
    <3>2. snap'[Compactor].gen = idx.gen + 1 /\ disk.gen <= idx.gen
      BY <1>3, <1>6 DEF N
    <3>. QED
      BY <1>1, <1>3, <1>16, <1>25, <3>1, <3>2 DEF GenInv
  <2>4. PendingInv'
    <3>1. ~Flipping(Compactor)
      BY <1>1 DEF Flipping
    <3>. QED
      BY <1>1, <1>3, <1>16, <3>1, PendingFrame DEF Inv, ControlInv
  <2>. QED
    BY <1>1, <2>1, <2>2, <2>3, <2>4 DEF ControlInv, DownInv
<1>27. \A a \in Live' : a = idx' \/ a = N \/ a \in Live
  <2>. SUFFICES ASSUME NEW a \in Live', a # idx', a # N
                PROVE  a \in Live
    OBVIOUS
  <2>1. a \in Images' /\ a.gen >= disk.gen
    BY <1>1 DEF Live
  <2>2. a \in Images
    BY <1>1, <1>7, <1>24, <2>1, ImagesAre, ImagesBecome DEF N
  <2>. QED
    BY <2>1, <2>2 DEF Live
<1>28. idx' \in Live' /\ Seen' = Live'
  <2>1. idx' \in Images'
    BY <1>1, ImagesBecome
  <2>. QED
    BY <1>1, <1>3, <1>16, <2>1 DEF Live, Seen
\* Every live image has the files of the old index, but rotten or deleted ones.
<1>29. ASSUME NEW a \in Live', NEW g \in Active(a), ~(g.num \in rotten /\ g \notin Active(idx'))
       PROVE  \E e \in Active(idx) : /\ g.name = e.name /\ g.num = e.num /\ g.span = e.span
                                     /\ g.off = e.off \/ g.off = to(e)
  <2>1. CASE a = idx'
    BY <1>18, <2>1
  <2>2. CASE a = N
    BY <1>9, <1>20, <2>2
  <2>3. CASE a \in Live
    BY <1>3, <1>18, <1>29, <2>3 DEF Lapsed
  <2>. QED
    BY <1>27, <2>1, <2>2, <2>3
<1>30. ASSUME NEW b \in Live', NEW e \in Active(idx)
       PROVE  \/ e.num \in deleted \cup rotten
              \/ \E g \in Active(b) : g.name = e.name /\ g.num = e.num
  <2>1. CASE b = idx'
    BY <1>11, <1>18, <2>1
  <2>2. CASE b = N
    BY <1>10, <1>11, <1>20, <2>2
  <2>3. CASE b \in Live
    BY <1>3, <2>3 DEF Inv, LiveInv, OrderInv, Succeeds
  <2>. QED
    BY <1>27, <2>1, <2>2, <2>3
<1>31. OrderInv'
  <2>. SUFFICES ASSUME NEW a \in Live', NEW b \in Live', NEW e \in Active(a)
                PROVE  \/ e.num \in deleted \cup rotten
                       \/ \E g \in Active(b) : g.name = e.name /\ g.num = e.num
    BY <1>1 DEF OrderInv, Succeeds
  <2>1. CASE e.num \in rotten
    BY <2>1
  <2>2. CASE e.num \notin rotten
    <3>1. PICK g \in Active(idx) : e.name = g.name /\ e.num = g.num
      BY <1>29, <2>2
    <3>. QED
      BY <1>30, <3>1
  <2>. QED
    BY <2>1, <2>2
<1>32. ApartInv'
  <2>1. ASSUME NEW a \in Live', NEW b \in Live', NEW h \in Active(a), NEW k \in Active(b),
               ~Lapsed(h)', ~Lapsed(k)'
        PROVE  h.num = k.num \/ Clear(h, k)
    <3>. USE <1>1, <2>1 DEF Lapsed
    <3>1. PICK e \in Active(idx) : /\ h.name = e.name /\ h.num = e.num /\ h.span = e.span
                                   /\ h.off = e.off \/ h.off = to(e)
      BY <1>29
    <3>2. PICK g \in Active(idx) : /\ k.name = g.name /\ k.num = g.num /\ k.span = g.span
                                   /\ k.off = g.off \/ k.off = to(g)
      BY <1>29
    <3>3. CASE e = g
      BY <3>1, <3>2, <3>3
    <3>4. CASE e # g
      BY <1>15, <3>1, <3>2, <3>4 DEF Clear
    <3>. QED
      BY <3>3, <3>4
  <2>. QED
    BY <1>19, <1>28, <2>1 DEF ApartInv
<1>33. IndexInv'
  <2>1. \A a \in Live' : a.gen > idx'.gen => Downloading(a) = {}
    <3>. SUFFICES ASSUME NEW a \in Live', a.gen > idx'.gen
                  PROVE  Downloading(a) = {}
      OBVIOUS
    <3>1. a # idx' /\ a \notin Live
      BY <1>3, <1>16
    <3>. QED
      BY <1>21, <1>27, <3>1
  <2>2. ASSUME NEW a \in Live', a.gen <= idx'.gen, NEW e \in Active(a)
        PROVE  /\ e.off + e.span <= idx'.logical
               /\ e \in Active(idx') \/ Lapsed(e)'
    <3>1. a = idx' \/ a \in Live
      BY <1>3, <1>6, <1>16, <1>27, <2>2
    <3>2. CASE a = idx'
      BY <1>17, <3>2 DEF Sound, Active, InState
    <3>3. CASE a \in Live
      <4>1. a.gen = idx.gen /\ (e \in Active(idx) \/ Lapsed(e))
        BY <1>3, <3>3
      <4>2. e.off + e.span <= idx'.logical
        BY <1>1, <1>3, <1>16, <3>3, <4>1 DEF Inv, LiveInv, IndexInv
      <4>. QED
        BY <1>1, <1>11, <1>18, <4>1, <4>2 DEF Lapsed
    <3>. QED
      BY <3>1, <3>2, <3>3
  <2>3. \A a \in Live' : a.gen = idx'.gen => a.gen <= idx'.gen
    BY <1>3, <1>16
  <2>. QED
    BY <2>1, <2>2, <2>3 DEF IndexInv
<1>34. DataInv'
  <2>1. \A e \in Active(idx) : Kept(file, e)
    BY <1>3 DEF Inv, LiveInv, DataInv
  <2>2. \A h \in keep : Kept(file, h)
    <3>. SUFFICES ASSUME NEW h \in keep
                  PROVE  Kept(file, h)
      OBVIOUS
    <3>1. PICK e \in Active(idx) : h.num = e.num /\ h.span = e.span /\ h.off = to(e)
      BY <1>9
    <3>2. Copied(e) /\ Read(e) = e.span
      BY <1>1 DEF Inv, RoundInv, MoveInv, Read
    <3>. QED
      BY <3>1, <3>2 DEF Copied, Kept, Holds, to
  <2>3. \A a \in Live' : \A e \in Active(a) : Kept(file, e)
    <3>. SUFFICES ASSUME NEW a \in Live', NEW e \in Active(a)
                  PROVE  Kept(file, e)
      OBVIOUS
    <3>1. CASE a = N
      BY <1>20, <2>2, <3>1
    <3>2. CASE a = idx' \/ a \in Live
      BY <1>3, <1>18, <2>1, <3>2 DEF Lapsed, Kept
    <3>. QED
      BY <1>27, <3>1, <3>2
  <2>. QED
    BY <1>1, <2>3 DEF DataInv, Kept
<1>35. WriterInv'
  BY <1>19 DEF WriterInv
<1>36. RoundInv'
  BY <1>25 DEF RoundInv, PlannedInv, MoveInv
<1>. QED
  BY <1>23, <1>26, <1>31, <1>32, <1>33, <1>34, <1>35, <1>36 DEF Inv, LiveInv

-----------------------------------------------------------------------------
(***************************************************************************)
(* The new layout is durable: the data file is cut, the index replaced.    *)
(***************************************************************************)
\* Then nothing but the new layout may be read or recovered any more.
LEMMA WhileFlipped ==
    ASSUME Inv, up, Flipped
    PROVE  /\ Live = {disk} /\ disk = snap[Compactor] /\ disk.gen = idx.gen + 1
           /\ idx.gen \in Nat /\ Sound(disk) /\ Downloading(disk) = {}
           /\ compacting /\ Downloading(idx) = {} /\ lock # Compactor
           /\ \A u \in Threads : Holding(u) => snap[u].gen <= idx.gen
           /\ pending = {}
<1>1. /\ disk = snap[Compactor] /\ disk.gen = idx.gen + 1 /\ idx.gen \in Nat /\ Sound(disk)
  BY DEF Inv, TypeInv, ControlInv, GenInv, Sound, Image
<1>2. pc[Compactor] # "persisting" /\ ~Holding(Compactor) /\ Compactor \in Threads
  BY DEF Flipped, Holding, Threads
<1>3. compacting /\ Downloading(idx) = {} /\ lock # Compactor
  BY <1>2 DEF Flipped, Inv, ControlInv, CompactInv, LockInv
<1>4. \A u \in Threads : Holding(u) => snap[u].gen <= idx.gen
  BY <1>2 DEF Threads, Inv, ControlInv, GenInv
<1>5. pending = {}
  <2>. SUFFICES ASSUME NEW a \in pending
                PROVE  FALSE
    OBVIOUS
  <2>1. a.gen >= disk.gen /\ a.gen <= idx.gen
    BY <1>2 DEF Flipping, Inv, ControlInv, LockInv, PendingInv
  <2>2. a.gen \in Nat
    BY DEF Inv, TypeInv, Sound, Image
  <2>. QED
    BY <1>1, <2>1, <2>2
<1>6. \A a \in Images : a = disk \/ ~(a.gen >= disk.gen)
  <2>. SUFFICES ASSUME NEW a \in Images, a # disk
                PROVE  ~(a.gen >= disk.gen)
    OBVIOUS
  <2>1. a.gen \in Nat /\ a.gen <= idx.gen
    BY <1>1, <1>4, <1>5, ImagesAre, ImagesSound DEF Inv
  <2>. QED
    BY <1>1, <2>1
<1>7. disk \in Live
  BY <1>1, ImagesAre DEF Live
<1>8. Live = {disk}
  BY <1>6, <1>7 DEF Live
<1>9. disk.gen > idx.gen
  BY <1>1
<1>10. Downloading(disk) = {}
  BY <1>7, <1>9 DEF Inv, LiveInv, IndexInv
<1>. QED
  BY <1>1, <1>3, <1>4, <1>5, <1>8, <1>10

LEMMA TruncateKeeps ==
    ASSUME Inv, Truncate
    PROVE  Inv'
<1>. DEFINE end == snap[Compactor].logical + Reserve
<1>1. /\ up /\ pc[Compactor] = "flipped" /\ pc' = [pc EXCEPT ![Compactor] = "install"]
      /\ \/ file' = [b \in Blocks |-> IF b < end THEN file[b] ELSE NoData]
         \/ file' = file
      /\ UNCHANGED <<up, idx, disk, pending, snap, lock, job, compacting, synced, written>>
      /\ UNCHANGED <<rotten, deleted, downloads>>
  BY DEF Truncate, Goto, header, history
<1>2. /\ Flipped /\ Compactor \in Threads /\ pc \in [Threads -> CompactSteps]
      /\ \A u \in Flushers : u \in Threads /\ u # Compactor
  BY <1>1, StoreAssumption DEF Flipped, Threads, Inv, TypeInv
<1>3. /\ Live = {disk} /\ disk = snap[Compactor] /\ Sound(disk)
      /\ compacting /\ Downloading(idx) = {} /\ pending = {}
  BY <1>1, <1>2, WhileFlipped
<1>4. \A u \in Threads : pc'[u] = IF u = Compactor THEN "install" ELSE pc[u]
  BY <1>1, <1>2
<1>5. \A u \in Threads : Holding(u)' <=> Holding(u)
  BY <1>1, <1>4 DEF Holding
<1>6. pc'[Compactor] = "install" /\ Flipped' /\ Turning' /\ ~Finalizing'
  BY <1>2, <1>4 DEF Flipped, Turning, Finalizing
<1>7. Live' = Live /\ OnDisk' = OnDisk /\ Seen' = Seen
  <2>1. Held' = Held
    BY <1>1, <1>5 DEF Held
  <2>2. \A u \in Threads : pc'[u] \in {"synced", "persisting"} <=> pc[u] \in {"synced", "persisting"}
    BY <1>1, <1>4
  <2>. QED
    BY <1>1, <2>1, <2>2 DEF Live, OnDisk, Seen, Images
<1>8. TypeInv'
  <2>1. file' \in [Blocks -> Nat \X Nat]
    BY <1>1 DEF Inv, TypeInv, NoData
  <2>2. pc' \in [Threads -> CompactSteps] /\ \A u \in Flushers : pc'[u] \in FlushSteps
    BY <1>1, <1>2, <1>4 DEF Inv, TypeInv, CompactSteps
  <2>. QED
    BY <1>1, <2>1, <2>2 DEF Inv, TypeInv
<1>9. ControlInv'
  <2>1. LockInv'
    BY <1>1, <1>4, LockFrame DEF Inv, ControlInv
  <2>2. CompactInv'
    BY <1>1, <1>2, <1>3, <1>6 DEF Inv, ControlInv, CompactInv, Downloading, InState
  <2>3. GenInv'
    BY <1>1, <1>2, <1>5, <1>6 DEF Inv, ControlInv, GenInv
  <2>. QED
    BY <1>1, <1>3, <2>1, <2>2, <2>3 DEF ControlInv, DownInv, PendingInv
<1>10. OrderInv' /\ ApartInv' /\ IndexInv'
  BY <1>1, <1>7, OrderFrame, ApartFrame, IndexFrame DEF Inv, LiveInv
\* The cut is behind the end of the new layout.
<1>11. \A e \in Active(disk) : Kept(file, e) => Kept(file', e)
  <2>. SUFFICES ASSUME NEW e \in Active(disk), Holds(file, e), NEW i \in 0..(e.span - 1)
                PROVE  file'[e.off + i] = <<e.num, i>>
    BY <1>1 DEF Kept, Holds
  <2>1. /\ e.off \in Nat /\ e.span \in Nat /\ e.off + e.span <= disk.logical
        /\ e.off + e.span <= MaxBlock /\ disk.logical \in Nat
    <3>1. disk \in Live
      BY <1>3
    <3>2. e \in disk.entries /\ e.off \in Nat /\ e.span \in Nat /\ e.off + e.span <= MaxBlock
      BY <3>1, LiveEntries
    <3>. QED
      BY <1>3, <3>2, ActiveEntry
  <2>2. e.off + i \in Blocks /\ file[e.off + i] = <<e.num, i>>
    BY <2>1, InBlocks DEF Holds
  <2>3. e.off + i < end
    <3>1. e.off + i \in Nat /\ e.off + i < e.off + e.span /\ e.off + e.span \in Nat
      BY <2>1
    <3>2. end = disk.logical + Reserve /\ Reserve \in Nat
      BY <1>3, StoreAssumption
    <3>. QED
      BY <2>1, <3>1, <3>2
  <2>. HIDE DEF end
  <2>. QED
    BY <1>1, <2>2, <2>3
<1>12. DataInv'
  BY <1>1, <1>3, <1>7, <1>11 DEF Inv, LiveInv, DataInv, Kept
<1>13. WriterInv'
  BY <1>1, <1>3 DEF WriterInv, Downloading, InState
<1>14. RoundInv'
  BY <1>6 DEF RoundInv, PlannedInv, MoveInv
<1>. QED
  BY <1>8, <1>9, <1>10, <1>12, <1>13, <1>14 DEF Inv, LiveInv

\* An index that agrees with the only image there is.
LEMMA AloneLive ==
    ASSUME NEW img, Sound(img), Live' = {img} \/ Live' = {img, idx'}, Seen' \subseteq {img, idx'},
           up', Sound(idx'), \A e : e \in Active(idx') <=> e \in Active(img),
           idx'.gen = img.gen, idx'.logical = img.logical, Downloading(idx') = {},
           \A e \in Active(img) : e.num \in rotten' \/ (Holds(file', e) /\ Holds(synced', e))
    PROVE  LiveInv'
<1>1. img.gen \in Nat
  BY DEF Sound, Image
<1>2. \A a \in Live' \cup Seen' : \A e : e \in Active(a) <=> e \in Active(img)
  OBVIOUS
<1>3. OrderInv'
  BY <1>2 DEF OrderInv, Succeeds
<1>4. ApartInv'
  <2>1. \A e, g \in Active(img) : e.num = g.num \/ Clear(e, g)
    BY DEF Sound, Active, InState
  <2>. QED
    BY <1>2, <2>1 DEF ApartInv
<1>5. IndexInv'
  <2>1. \A e \in Active(img) : e.off + e.span <= img.logical
    BY DEF Sound, Active, InState
  <2>2. \A a \in Live' : a.gen = img.gen
    OBVIOUS
  <2>. QED
    BY <1>1, <1>2, <2>1, <2>2 DEF IndexInv
<1>6. DataInv'
  BY <1>2 DEF DataInv, Kept
<1>7. WriterInv'
  BY DEF WriterInv
<1>. QED
  BY <1>3, <1>4, <1>5, <1>6, <1>7 DEF LiveInv

LEMMA InstallKeeps ==
    ASSUME Inv, Install
    PROVE  Inv'
<1>. DEFINE step == IF job.plan.excluded \/ job.bad # {} THEN "scan" ELSE "over"
<1>1. /\ up /\ pc[Compactor] = "install" /\ pc' = [pc EXCEPT ![Compactor] = step]
      /\ idx' = snap[Compactor]
      /\ UNCHANGED <<up, disk, pending, snap, lock, job, compacting, file, synced, written>>
      /\ UNCHANGED <<rotten, deleted, downloads>>
  BY DEF Install, Goto, header, data, history
<1>2. step \in {"scan", "over"}
  OBVIOUS
<1>. HIDE DEF step
<1>3. /\ Flipped /\ Compactor \in Threads /\ pc \in [Threads -> CompactSteps]
      /\ \A u \in Flushers : u \in Threads /\ u # Compactor
  BY <1>1, StoreAssumption DEF Flipped, Threads, Inv, TypeInv
<1>4. /\ Live = {disk} /\ disk = snap[Compactor] /\ disk.gen = idx.gen + 1 /\ Sound(disk)
      /\ idx.gen \in Nat /\ Downloading(disk) = {} /\ pending = {} /\ compacting
      /\ \A u \in Threads : Holding(u) => snap[u].gen <= idx.gen
  BY <1>1, <1>3, WhileFlipped
<1>5. \A u \in Threads : pc'[u] = IF u = Compactor THEN step ELSE pc[u]
  BY <1>1, <1>3
<1>6. \A u \in Threads : Holding(u)' <=> Holding(u)
  BY <1>1, <1>2, <1>5 DEF Holding
<1>7. pc'[Compactor] = step /\ ~Flipped' /\ ~Finalizing' /\ ~Holding(Compactor)'
  BY <1>2, <1>3, <1>5 DEF Flipped, Finalizing, Holding
<1>8. idx' = disk /\ disk' = disk
  BY <1>1, <1>4
<1>9. Live' = {disk} /\ Seen' = {disk}
  <2>1. \A a \in Images' : a = disk \/ ~(a.gen >= disk.gen)
    <3>. SUFFICES ASSUME NEW a \in Images', a # disk
                  PROVE  ~(a.gen >= disk.gen)
      OBVIOUS
    <3>1. PICK u \in Threads : Holding(u) /\ a = snap[u]
      BY <1>1, <1>4, <1>6, <1>8, ImagesBecome
    <3>2. a.gen \in Nat /\ a.gen <= idx.gen
      BY <1>4, <3>1 DEF Inv, TypeInv, Sound, Image
    <3>. QED
      BY <1>4, <3>2
  <2>2. disk \in Images' /\ disk.gen \in Nat
    BY <1>4, <1>8, ImagesBecome DEF Sound, Image
  <2>3. Live' = {disk}
    BY <1>8, <2>1, <2>2 DEF Live
  <2>. QED
    BY <1>8, <2>3 DEF Seen
<1>10. TypeInv'
  <2>1. pc' \in [Threads -> CompactSteps] /\ \A u \in Flushers : pc'[u] \in FlushSteps
    BY <1>1, <1>2, <1>3, <1>5 DEF Inv, TypeInv, CompactSteps
  <2>. QED
    BY <1>1, <1>4, <1>8, <2>1 DEF Inv, TypeInv
<1>11. ControlInv'
  <2>1. LockInv'
    BY <1>1, <1>2, <1>3, <1>5, LockFrame DEF Inv, ControlInv
  <2>2. CompactInv'
    BY <1>1, <1>2, <1>4, <1>7, <1>8 DEF CompactInv
  <2>3. GenInv'
    <3>1. disk.gen \in Nat /\ idx.gen <= disk.gen
      BY <1>4
    <3>2. \A u \in Flushers : Holding(u)' => snap'[u].gen <= idx'.gen
      <4>. SUFFICES ASSUME NEW u \in Flushers, Holding(u)
                    PROVE  snap[u].gen <= disk.gen
        BY <1>1, <1>3, <1>6, <1>8
      <4>1. snap[u].gen \in Nat /\ snap[u].gen <= idx.gen
        BY <1>3, <1>4 DEF Inv, TypeInv, Sound, Image
      <4>. QED
        BY <1>4, <3>1, <4>1
    <3>. QED
      BY <1>7, <1>8, <3>1, <3>2 DEF GenInv
  <2>. QED
    BY <1>1, <1>4, <2>1, <2>2, <2>3 DEF ControlInv, DownInv, PendingInv
<1>12. LiveInv'
  <2>1. disk \in OnDisk
    BY DEF OnDisk
  <2>2. \A e \in Active(disk) : e.num \in rotten' \/ (Holds(file', e) /\ Holds(synced', e))
    BY <1>1, <1>4, <2>1 DEF Inv, LiveInv, DataInv, Kept
  <2>. QED
    BY <1>1, <1>4, <1>8, <1>9, <2>2, AloneLive
<1>13. RoundInv'
  BY <1>2, <1>7 DEF RoundInv, PlannedInv, MoveInv
<1>. QED
  BY <1>10, <1>11, <1>12, <1>13 DEF Inv

-----------------------------------------------------------------------------
(***************************************************************************)
(* A crash, and the next open.                                             *)
(***************************************************************************)
LEMMA CrashKeeps ==
    ASSUME Inv, Crash
    PROVE  Inv'
<1>1. PICK lost \in SUBSET {b \in Blocks : file[b] # synced[b]} :
          file' = [b \in Blocks |-> IF b \in lost THEN synced[b] ELSE file[b]]
  BY DEF Crash
<1>2. /\ up /\ up' = FALSE /\ disk' = disk /\ pending' = pending /\ synced' = file'
      /\ pc' = [t \in Threads |-> "idle"] /\ snap' = [t \in Threads |-> Empty]
      /\ lock' = Nobody /\ job' = NoJob /\ compacting' = FALSE
      /\ idx' = Empty /\ written' = [f \in Files |-> 0]
      /\ UNCHANGED <<rotten, deleted, downloads>>
  BY DEF Crash, Stop, history
<1>3. Sound(Empty) /\ Active(Empty) = {} /\ Downloading(Empty) = {} /\ Empty \in Image
  BY StoreAssumption DEF Sound, Empty, Image, Active, Downloading, InState
<1>4. \A t \in Threads : pc'[t] = "idle" /\ ~Holding(t)' /\ snap'[t] = Empty
  BY <1>2 DEF Holding
<1>5. Compactor \in Threads /\ \A t \in Flushers : t \in Threads
  BY DEF Threads
<1>6. TypeInv'
  <2>1. file' \in [Blocks -> Nat \X Nat]
    BY <1>1 DEF Inv, TypeInv
  <2>2. /\ pc' \in [Threads -> CompactSteps] /\ \A t \in Flushers : pc'[t] \in FlushSteps
        /\ snap' \in [Threads -> Image] /\ written' \in [Files -> Nat]
    BY <1>2, <1>3, <1>4, <1>5 DEF CompactSteps, FlushSteps
  <2>. QED
    BY <1>2, <1>3, <1>4, <2>1, <2>2, NoJobType DEF Inv, TypeInv
<1>7. ControlInv'
  <2>1. LockInv'
    BY <1>2 DEF Inv, ControlInv, LockInv
  <2>2. CompactInv'
    BY <1>2, <1>4, <1>5 DEF CompactInv, Flipped
  <2>3. GenInv'
    BY <1>2, <1>4, <1>5 DEF GenInv, Flipped, Finalizing
  <2>. QED
    BY <1>2, <1>4, <2>1, <2>2, <2>3 DEF ControlInv, DownInv, PendingInv
<1>8. Live' \subseteq Live /\ Live' \subseteq OnDisk /\ Seen' \subseteq Live
  <2>1. \A a \in Images' : a = disk \/ a \in pending
    BY <1>2, <1>4, ImagesBecome
  <2>2. \A a \in Images' : a \in Images /\ a \in OnDisk
    BY <2>1, ImagesAre DEF OnDisk
  <2>. QED
    BY <1>2, <2>2 DEF Live, Seen
<1>9. OrderInv' /\ ApartInv' /\ IndexInv'
  BY <1>2, <1>3, <1>8, OrderFrame, ApartFrame, IndexFrame DEF Inv, LiveInv
\* A block that both copies agree about is not lost.
<1>10. DataInv'
  <2>1. ASSUME NEW a \in Live', NEW e \in Active(a)
        PROVE  e.num \in rotten \/ Holds(file', e)
    <3>1. Kept(file, e) /\ Kept(synced, e)
      BY <1>8 DEF Inv, LiveInv, DataInv
    <3>2. CASE Holds(file, e) /\ Holds(synced, e)
      <4>1. e.off \in Nat /\ e.span \in Nat /\ e.off + e.span <= MaxBlock
        BY <1>8, LiveEntries
      <4>2. ASSUME NEW i \in 0..(e.span - 1)
            PROVE  file'[e.off + i] = <<e.num, i>>
        <5>1. e.off + i \in Blocks
          BY <4>1, InBlocks
        <5>2. file[e.off + i] = <<e.num, i>> /\ synced[e.off + i] = <<e.num, i>>
          BY <3>2 DEF Holds
        <5>. QED
          BY <1>1, <5>1, <5>2
      <4>. QED
        BY <4>2 DEF Holds
    <3>. QED
      BY <3>1, <3>2 DEF Kept
  <2>. QED
    BY <1>2, <2>1 DEF DataInv, Kept
<1>11. WriterInv'
  BY <1>2, <1>3 DEF WriterInv
<1>12. RoundInv'
  BY <1>4, <1>5 DEF RoundInv, PlannedInv, MoveInv
<1>. QED
  BY <1>6, <1>7, <1>9, <1>10, <1>11, <1>12 DEF Inv, LiveInv

LEMMA OpenKeeps ==
    ASSUME Inv, NEW img \in {disk} \cup pending, Open(img)
    PROVE  Inv'
<1>1. /\ ~up /\ up' /\ disk' = img /\ pending' = {}
      /\ idx' = [img EXCEPT !.entries = @ \ InState(img, "downloading")]
      /\ UNCHANGED <<written, compacting, file, synced, pc, snap, lock, job>>
      /\ UNCHANGED <<rotten, deleted, downloads>>
  BY DEF Open, Recover, data, threads, history
<1>2. /\ \A t \in Threads : pc[t] = "idle" /\ ~Holding(t)
      /\ lock = Nobody /\ ~compacting /\ Compactor \in Threads
      /\ \A t \in Flushers : t \in Threads
  BY <1>1 DEF Inv, ControlInv, DownInv, Holding, Threads
<1>3. Sound(img) /\ img \in Image /\ img.gen \in Nat /\ disk.gen \in Nat
  BY DEF Inv, TypeInv, Sound, Image
<1>4. /\ idx'.gen = img.gen /\ idx'.logical = img.logical
      /\ idx'.entries = img.entries \ InState(img, "downloading")
  BY <1>1, <1>3 DEF Image
<1>5. Sound(idx')
  <2>1. idx' \in Image
    <3>1. img.entries \ InState(img, "downloading") \in SUBSET EntryType
      BY <1>3 DEF Image
    <3>. QED
      BY <1>1, <1>3, <3>1 DEF Image
  <2>. QED
    BY <1>3, <1>4, <2>1 DEF Sound
<1>6. /\ \A e : e \in Active(idx') <=> e \in Active(img)
      /\ Downloading(idx') = {}
  BY <1>4 DEF Active, Downloading, InState
<1>7. img \in Live \cap OnDisk
  <2>1. img.gen >= disk.gen
    BY <1>3 DEF Inv, ControlInv, LockInv
  <2>. QED
    BY <2>1, ImagesAre DEF Live, OnDisk
<1>8. TypeInv'
  BY <1>1, <1>3, <1>5 DEF Inv, TypeInv
<1>9. ControlInv'
  <2>1. LockInv'
    BY <1>1, <1>2, ThreadsAssumption DEF LockInv
  <2>2. CompactInv'
    BY <1>1, <1>2 DEF CompactInv, Flipped
  <2>3. GenInv'
    BY <1>1, <1>2, <1>3, <1>4 DEF GenInv, Flipped, Finalizing, Holding
  <2>. QED
    BY <1>1, <2>1, <2>2, <2>3 DEF ControlInv, DownInv, PendingInv
<1>10. LiveInv'
  <2>1. \A a : a \in Images' <=> a = img \/ a = idx'
    BY <1>1, <1>2, ImagesBecome DEF Holding
  <2>2. Live' = {img, idx'} /\ Seen' = {img, idx'}
    <3>1. \A a \in Images' : a.gen >= disk'.gen
      <4>1. img.gen >= img.gen
        BY <1>3
      <4>. QED
        BY <1>1, <1>4, <2>1, <4>1
    <3>2. Live' = Images'
      BY <3>1 DEF Live
    <3>. QED
      BY <2>1, <3>2 DEF Seen
  <2>3. \A e \in Active(img) : e.num \in rotten' \/ (Holds(file', e) /\ Holds(synced', e))
    BY <1>1, <1>7 DEF Inv, LiveInv, DataInv, Kept
  <2>. QED
    BY <1>1, <1>3, <1>4, <1>5, <1>6, <2>2, <2>3, AloneLive
<1>11. RoundInv'
  BY <1>1, <1>2 DEF RoundInv, PlannedInv, MoveInv
<1>. QED
  BY <1>8, <1>9, <1>10, <1>11 DEF Inv

-----------------------------------------------------------------------------
(***************************************************************************)
(* The theorems.                                                           *)
(***************************************************************************)
LEMMA StutterKeeps ==
    ASSUME Inv, UNCHANGED allVars
    PROVE  Inv'
<1>1. /\ UNCHANGED <<up, idx, disk, pending, pc, snap, lock, job, compacting, written>>
      /\ UNCHANGED <<file, synced, rotten, deleted, downloads>>
  BY DEF allVars, header, data, threads, history
<1>2. TypeInv'
  BY <1>1 DEF Inv, TypeInv
<1>3. ControlInv'
  BY <1>1 DEF Inv, ControlInv, DownInv, LockInv, CompactInv, GenInv, PendingInv,
     Finalizing, Flipped, Flipping, Holding, Downloading, InState
<1>4. Live' = Live /\ OnDisk' = OnDisk /\ Turning' = Turning
  BY <1>1, SameImages DEF Turning, Finalizing, Flipped
<1>5. LiveInv'
  BY <1>1, <1>4, OrderFrame, ApartFrame, IndexFrame, WriterFrame DEF Inv, LiveInv, DataInv, Kept
<1>6. RoundInv'
  BY <1>1, RoundFrame DEF Inv
<1>. QED
  BY <1>2, <1>3, <1>5, <1>6 DEF Inv

LEMMA NextKeeps ==
    ASSUME Inv, [SteadyNext]_allVars
    PROVE  Inv'
<1>1. CASE UNCHANGED allVars
  BY <1>1, StutterKeeps
<1>2. ASSUME NEW f \in Files,
             \/ \E size \in Sizes : Alloc(f, size)
             \/ WriteAt(f) \/ Commit(f) \/ Abort(f) \/ Delete(f) \/ PlanFile(f)
      PROVE  Inv'
  BY <1>2, AllocSteps, CommitSteps, AbortSteps, DeleteSteps, IndexStepKeeps, WriteAtKeeps,
     PlanFileKeeps
<1>3. ASSUME NEW t \in Flushers, FlushCall(t)
      PROVE  Inv'
  BY <1>3, FlushCallKeeps
<1>4. ASSUME NEW t \in Threads,
             \/ Snapshot(t) \/ SyncData(t) \/ PersistBegin(t) \/ PersistEnd(t) \/ PersistRefused(t)
      PROVE  Inv'
  BY <1>4, SnapshotKeeps, SyncDataKeeps, PersistBeginKeeps, PersistEndKeeps, PersistRefusedKeeps
<1>5. CASE CompactCall \/ Scan \/ StartMove \/ CopyBlock \/ Finalize \/ Truncate \/ Install \/ CompactOver
  BY <1>5, CompactCallKeeps, ScanKeeps, StartMoveKeeps, CopyBlockKeeps, FinalizeKeeps,
     TruncateKeeps, InstallKeeps, CompactOverKeeps
<1>6. CASE Rot \/ Crash
  BY <1>6, RotKeeps, CrashKeeps
<1>7. ASSUME NEW img \in {disk} \cup pending, Open(img)
      PROVE  Inv'
  BY <1>7, OpenKeeps
<1>8. ASSUME NEW t \in Threads, ~Flipping(t), IoError(t)
      PROVE  Inv'
  BY <1>8, IoErrorKeeps
<1>9. ASSUME NEW f \in Files, NEW size \in Sizes, AllocFails(f, size)
      PROVE  Inv'
  BY <1>9, AllocFailsSteps, IndexStepKeeps
<1>. QED
  BY <1>1, <1>2, <1>3, <1>4, <1>5, <1>6, <1>7, <1>8, <1>9 DEF StoreNext, SteadyNext

\* The inductive invariant holds of the store with every failure but that of the flip.
THEOREM InvHolds == SteadySpec => []Inv
<1>1. StoreInit => Inv
  BY InitKeeps
<1>2. Inv /\ [SteadyNext]_allVars => Inv'
  BY NextKeeps
<1>. QED
  BY <1>1, <1>2, PTL DEF SteadySpec

\* What the invariant says of the index the clients use.
LEMMA InvStore ==
    ASSUME Inv
    PROVE  StoreInv
<1>1. /\ Sound(idx) /\ job.plan \in PlanType /\ written \in [Files -> Nat]
      /\ compacting \in BOOLEAN /\ lock \in Threads \cup {Nobody}
  BY DEF Inv, TypeInv, JobType
<1>2. \A e \in idx.entries :
          /\ e.name \in Files /\ e.state \in StateNames /\ e.num \in 1..MaxDownloads
          /\ e.off \in Nat /\ e.span \in Nat /\ e.span >= 1 /\ e.off + e.span <= idx.logical
          /\ e.off + e.span <= MaxBlock
  <2>. SUFFICES ASSUME NEW e \in idx.entries
                PROVE  /\ e.name \in Files /\ e.state \in StateNames /\ e.num \in 1..MaxDownloads
                       /\ e.off \in Nat /\ e.span \in Nat /\ e.span >= 1
                       /\ e.off + e.span <= idx.logical /\ e.off + e.span <= MaxBlock
    OBVIOUS
  <2>1. /\ e.name \in Files /\ e.state \in StateNames /\ e.num \in 1..MaxDownloads
        /\ e.off \in Nat /\ e.span \in Nat /\ e.span >= 1 /\ e.off + e.span <= idx.logical
        /\ idx.logical \in Nat /\ idx.logical <= MaxBlock
    BY <1>1, ActiveEntry
  <2>2. e.off + e.span \in Nat /\ MaxBlock \in Nat
    BY <2>1, StoreAssumption
  <2>3. e.off + e.span <= MaxBlock
    BY <2>1, <2>2
  <2>. QED
    BY <2>1, <2>3
<1>3. StoreTypeOK
  <2>1. UNION {Extent(e) : e \in idx.entries} \subseteq Blocks
    <3>. SUFFICES ASSUME NEW e \in idx.entries, NEW b \in Extent(e)
                  PROVE  b \in Blocks
      OBVIOUS
    <3>1. b \in e.off..(e.off + e.span - 1)
      BY DEF Extent
    <3>2. MaxBlock \in Nat
      BY StoreAssumption
    <3>. QED
      BY <1>2, <3>1, <3>2 DEF Blocks
  <2>. QED
    BY <1>1, <1>2, <2>1 DEF StoreTypeOK, Sound
<1>4. ReadsIntact
  <2>. SUFFICES ASSUME up, ~compacting, NEW e \in Active(idx)
                PROVE  e.num \in rotten \/ Holds(file, e)
    BY DEF ReadsIntact
  <2>1. ~Turning
    BY DEF Turning, Finalizing, Flipped, Inv, ControlInv, CompactInv
  <2>2. idx \in Live
    BY <2>1, NoneNewer DEF Inv
  <2>. QED
    BY <2>2 DEF Inv, LiveInv, DataInv, Kept
<1>5. \A e, g \in idx.entries : e # g => Extent(e) \cap Extent(g) = {}
  <2>. SUFFICES ASSUME NEW e \in idx.entries, NEW g \in idx.entries, e # g,
                       NEW b \in Extent(e), b \in Extent(g)
                PROVE  FALSE
    OBVIOUS
  <2>1. Apart(e.off, e.span, g.off, g.span)
    BY <1>1 DEF Sound, Clear
  <2>2. b \in e.off..(e.off + e.span - 1) /\ b \in g.off..(g.off + g.span - 1)
    BY DEF Extent
  <2>. QED
    BY <1>2, <2>1, <2>2 DEF Apart
<1>. QED
  BY <1>1, <1>2, <1>3, <1>4, <1>5 DEF StoreInv

\* For every store, however many downloads, compactions, flushes, rotten blocks, I/O
\* errors (but in the flip) and crashes: no two entries of the index share a block,
\* nothing lies past its logical size, and what a client that is not refused reads of
\* a file is its data.
THEOREM StoreCorrect == SteadySpec => []StoreInv
<1>1. Inv => StoreInv
  BY InvStore
<1>. QED
  BY <1>1, InvHolds, PTL

\* For every store: whatever index a crash between any two steps brings back, all
\* its Active files have their data on the disk, but for what the disk spoiled.
THEOREM CrashesRecover == SteadySpec => []RecoverableIntact
<1>1. Inv => RecoverableIntact
  <2>. SUFFICES ASSUME Inv, NEW img \in {disk} \cup pending, NEW e \in Active(img)
                PROVE  e.num \in rotten \/ (Holds(file, e) /\ Holds(synced, e))
    BY DEF RecoverableIntact
  <2>1. disk.gen \in Nat
    BY DEF Inv, TypeInv, Sound, Image
  <2>2. img \in Live \cap OnDisk
    BY <2>1, ImagesAre DEF Inv, ControlInv, LockInv, Live, OnDisk
  <2>. QED
    BY <2>2 DEF Inv, LiveInv, DataInv, Kept
<1>. QED
  BY <1>1, InvHolds, PTL

\* The durable image is only ever replaced by one whose persist has begun.
LEMMA DiskSteps ==
    ASSUME [SteadyNext]_allVars
    PROVE  disk' = disk \/ disk' \in pending
<1>1. ASSUME NEW f \in Files, NEW size \in Sizes, Alloc(f, size)
      PROVE  disk' = disk
  BY <1>1 DEF Alloc, header
<1>2. ASSUME NEW f \in Files,
             WriteAt(f) \/ Commit(f) \/ Abort(f) \/ Delete(f) \/ PlanFile(f)
      PROVE  disk' = disk
  BY <1>2 DEF WriteAt, Commit, Abort, Delete, PlanFile, header
<1>3. ASSUME NEW t \in Threads,
             FlushCall(t) \/ Snapshot(t) \/ SyncData(t) \/ PersistBegin(t) \/ PersistRefused(t)
      PROVE  disk' = disk
  BY <1>3 DEF FlushCall, Snapshot, SyncData, PersistBegin, Begin, PersistRefused, header
<1>4. ASSUME NEW t \in Threads, PersistEnd(t)
      PROVE  disk' \in pending
  BY <1>4 DEF PersistEnd, Complete
<1>5. CASE CompactCall \/ Scan \/ StartMove \/ CopyBlock \/ Finalize \/ Truncate \/ Install \/ CompactOver
  BY <1>5 DEF CompactCall, Scan, StartMove, CopyBlock, Finalize, Truncate, Install, CompactOver, header
<1>6. CASE Rot \/ Crash
  BY <1>6 DEF Rot, Crash, Stop, header
<1>7. ASSUME NEW img \in {disk} \cup pending, Open(img)
      PROVE  disk' = disk \/ disk' \in pending
  BY <1>7 DEF Open, Recover
<1>8. ASSUME NEW t \in Threads, IoError(t)
      PROVE  disk' = disk
  BY <1>8 DEF IoError, header
<1>9. CASE UNCHANGED allVars
  BY <1>9 DEF allVars, header
<1>10. ASSUME NEW f \in Files, NEW size \in Sizes, AllocFails(f, size)
       PROVE  disk' = disk
  BY <1>10 DEF AllocFails, header
<1>. QED
  BY <1>1, <1>2, <1>3, <1>4, <1>5, <1>6, <1>7, <1>8, <1>9, <1>10 DEF StoreNext, SteadyNext, Threads

\* For every store: a file in the durable index leaves it only if a client deleted
\* it or the disk spoiled it.
THEOREM FlushedStays == SteadySpec => NothingFlushedLost
<1>1. Inv /\ [SteadyNext]_allVars =>
          [\A e \in Active(disk) :
               \/ e.num \in deleted \cup rotten
               \/ \E g \in Active(disk') : g.name = e.name /\ g.num = e.num]_allVars
  <2>. SUFFICES ASSUME Inv, [SteadyNext]_allVars, NEW e \in Active(disk)
                PROVE  \/ e.num \in deleted \cup rotten
                       \/ \E g \in Active(disk') : g.name = e.name /\ g.num = e.num
    OBVIOUS
  <2>1. disk.gen \in Nat
    BY DEF Inv, TypeInv, Sound, Image
  <2>2. disk' \in Live /\ disk \in Live /\ disk.gen <= disk'.gen
    BY <2>1, DiskSteps, ImagesAre, ImagesSound DEF Inv, ControlInv, LockInv, Live
  <2>. QED
    BY <2>2 DEF Inv, LiveInv, OrderInv, Succeeds
<1>. QED
  BY <1>1, InvHolds, PTL DEF SteadySpec, NothingFlushedLost
=============================================================================
