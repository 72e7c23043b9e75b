---------------------------- MODULE DlRateProofs ----------------------------
(***************************************************************************)
(* The speed limiter keeps its invariant and implements the bucket of      *)
(* DlBucket, for any rates, any clock and any number of transfers.         *)
(***************************************************************************)
EXTENDS DlRate, FiniteSetTheorems, TLAPS

-----------------------------------------------------------------------------
(***************************************************************************)
(* Arithmetic.                                                             *)
(***************************************************************************)
LEMMA WholeBytes ==
    ASSUME NEW t \in Nat
    PROVE  /\ t \div Ticks \in Nat
           /\ (t \div Ticks) * Ticks <= t
<1>1. Ticks \in Nat /\ Ticks > 0
  BY RateAssumption
<1> QED
  BY <1>1, SMTT(60)

LEMMA Products ==
    ASSUME NEW m \in Nat, NEW n \in Nat
    PROVE  /\ m * n \in Nat
           /\ m > 0 => n <= m * n
           /\ (m + 1) * n = m * n + n
           /\ n * (m + 1) = n * m + n
           /\ n * m = m * n
BY SMTT(60)

LEMMA ProductsGrow ==
    ASSUME NEW m \in Nat, NEW n \in Nat, NEW k \in Nat, m <= n
    PROVE  m * k <= n * k
BY SMTT(60)

-----------------------------------------------------------------------------
(***************************************************************************)
(* The operations of a bucket: what each does to its level.                *)
(***************************************************************************)
Sound(b) == b \in Bucket /\ (b.rate > 0 => b.tokens <= Full(b.rate))

LEMMA TicksPositive == Ticks \in Nat /\ Ticks > 0
BY RateAssumption

LEMMA RefillFacts ==
    ASSUME NEW b, Sound(b)
    PROVE  /\ Sound(Refill(b))
           /\ Refill(b).rate = b.rate /\ Refill(b).age = 0
           /\ Level(b) \in Nat
           /\ b.rate > 0 => Level(b) <= Full(b.rate)
           /\ b.rate = 0 => Level(b) = b.tokens
<1>1. b \in Bucket /\ b.rate \in Nat /\ b.tokens \in Nat /\ b.age \in 0..Ticks
  BY DEF Sound, Bucket
<1>2. b.rate * b.age \in Nat /\ Full(b.rate) \in Nat
  BY <1>1, Products, TicksPositive DEF Full
<1>3. CASE b.rate = 0
  BY <1>1, <1>3, TicksPositive DEF Refill, Sound, Bucket, Level
<1>4. CASE b.rate # 0
  <2>1. Refill(b) = [rate |-> b.rate, age |-> 0,
                     tokens |-> Least(b.tokens + b.rate * b.age, Full(b.rate))]
    BY <1>1, <1>4 DEF Refill, Bucket
  <2>2. Least(b.tokens + b.rate * b.age, Full(b.rate)) \in 0..Full(b.rate)
    BY <1>1, <1>2 DEF Least
  <2> QED
    BY <1>1, <1>2, <1>4, <2>1, <2>2, TicksPositive DEF Sound, Bucket, Level
<1> QED
  BY <1>3, <1>4

\* A bucket that was just refilled holds its tokens.
LEMMA FreshLevel ==
    ASSUME NEW b, Sound(b), b.age = 0
    PROVE  Level(b) = b.tokens
<1>1. b \in Bucket /\ b.rate \in Nat /\ b.tokens \in Nat
  BY DEF Sound, Bucket
<1>2. b.rate * 0 = 0 /\ Full(b.rate) \in Nat
  BY <1>1, Products, TicksPositive DEF Full
<1> QED
  BY <1>1, <1>2 DEF Level, Refill, Least, Sound, Bucket

LEMMA SpareFacts ==
    ASSUME NEW b, Sound(b), NEW want \in Nat
    PROVE  /\ Spare(b, want) \in 0..want
           /\ b.rate > 0 => Spare(b, want) * Ticks <= Level(b)
<1>1. Level(b) \in Nat /\ Ticks \in Nat /\ b.rate \in Nat
  BY RefillFacts, TicksPositive DEF Sound, Bucket
<1>2. Level(b) \div Ticks \in Nat /\ (Level(b) \div Ticks) * Ticks <= Level(b)
  BY <1>1, WholeBytes
<1>3. CASE b.rate = 0
  BY <1>1, <1>3 DEF Spare
<1>4. CASE b.rate > 0
  <2>1. Spare(b, want) = Least(Level(b) \div Ticks, want)
    BY <1>4 DEF Spare, Level
  <2>2. Spare(b, want) \in 0..want /\ Spare(b, want) <= Level(b) \div Ticks
    BY <2>1, <1>2 DEF Least
  <2>3. Spare(b, want) * Ticks <= (Level(b) \div Ticks) * Ticks
    BY <1>1, <1>2, <2>2, ProductsGrow
  <2>4. Spare(b, want) * Ticks \in Nat /\ (Level(b) \div Ticks) * Ticks \in Nat
    BY <1>1, <1>2, <2>2, Products
  <2> QED
    BY <1>1, <1>2, <2>2, <2>3, <2>4
<1> QED
  BY <1>1, <1>3, <1>4

LEMMA TakeFacts ==
    ASSUME NEW b, Sound(b), NEW want \in Nat
    PROVE  /\ Sound(TryTake(b, want))
           /\ TryTake(b, want).rate = b.rate
           /\ Level(TryTake(b, want)) =
                 IF b.rate = 0 THEN Level(b) ELSE Level(b) - Spare(b, want) * Ticks
<1>1. /\ Sound(Refill(b)) /\ Refill(b).rate = b.rate /\ Refill(b).age = 0
      /\ Level(b) \in Nat /\ Level(b) = Refill(b).tokens
      /\ b.rate \in Nat
  BY RefillFacts DEF Sound, Bucket, Level
<1>2. /\ Spare(b, want) \in 0..want
      /\ b.rate > 0 => Spare(b, want) * Ticks <= Level(b)
  BY SpareFacts
<1>3. Spare(b, want) * Ticks \in Nat
  BY <1>2, TicksPositive, Products
<1>4. CASE want = 0
  <2>1. Spare(b, want) = 0
    BY <1>2, <1>4
  <2> QED
    BY <1>1, <1>4, <2>1, TicksPositive, Products DEF TryTake
<1>5. CASE want # 0
  <2> DEFINE rest == IF b.rate = 0 THEN Level(b) ELSE Level(b) - Spare(b, want) * Ticks
  <2>1. TryTake(b, want) = [Refill(b) EXCEPT !.tokens = rest]
    BY <1>1, <1>5 DEF TryTake
  <2>2. rest \in Nat /\ rest <= Level(b)
    BY <1>1, <1>2, <1>3
  <2>3. Sound(TryTake(b, want)) /\ TryTake(b, want).age = 0
        /\ TryTake(b, want).tokens = rest /\ TryTake(b, want).rate = b.rate
    <3> HIDE DEF rest
    <3>1. Refill(b) \in Bucket /\ (b.rate > 0 => Refill(b).tokens <= Full(b.rate))
      BY <1>1 DEF Sound
    <3>2. Full(b.rate) \in Nat
      BY <1>1, Products, TicksPositive DEF Full
    <3> QED
      BY <1>1, <2>1, <2>2, <3>1, <3>2 DEF Sound, Bucket
  <2> QED
    BY <2>3, FreshLevel
<1> QED
  BY <1>4, <1>5

LEMMA GiveBackFacts ==
    ASSUME NEW b, Sound(b), NEW n \in Nat
    PROVE  /\ Sound(GiveBack(b, n))
           /\ GiveBack(b, n).rate = b.rate
           /\ Level(GiveBack(b, n)) =
                 IF b.rate = 0 THEN Level(b) ELSE Least(Level(b) + n * Ticks, Full(b.rate))
<1>1. /\ Sound(Refill(b)) /\ Refill(b).rate = b.rate /\ Refill(b).age = 0
      /\ Level(b) \in Nat /\ Level(b) = Refill(b).tokens
      /\ b.rate \in Nat
  BY RefillFacts DEF Sound, Bucket, Level
<1>2. n * Ticks \in Nat /\ Full(b.rate) \in Nat
  BY <1>1, Products, TicksPositive DEF Full
<1> DEFINE more == IF b.rate = 0 THEN Level(b) ELSE Least(Level(b) + n * Ticks, Full(b.rate))
<1>3. GiveBack(b, n) = [Refill(b) EXCEPT !.tokens = more]
  BY <1>1 DEF GiveBack
<1>4. more \in Nat /\ (b.rate > 0 => more <= Full(b.rate))
  BY <1>1, <1>2 DEF Least
<1>5. /\ Sound(GiveBack(b, n)) /\ GiveBack(b, n).age = 0
      /\ GiveBack(b, n).tokens = more /\ GiveBack(b, n).rate = b.rate
  <2> HIDE DEF more
  <2> QED
    BY <1>1, <1>3, <1>4 DEF Sound, Bucket
<1> QED
  BY <1>5, FreshLevel

LEMMA SetRateFacts ==
    ASSUME NEW b, Sound(b), NEW r \in Nat
    PROVE  /\ Sound(SetRate(b, r))
           /\ SetRate(b, r).rate = r
           /\ Level(SetRate(b, r)) = IF r = 0 THEN Level(b) ELSE Least(Level(b), Full(r))
<1>1. /\ Sound(Refill(b)) /\ Refill(b).age = 0
      /\ Level(b) \in Nat /\ Level(b) = Refill(b).tokens
  BY RefillFacts DEF Level
<1>2. Full(r) \in Nat
  BY Products, TicksPositive DEF Full
<1> DEFINE cut == IF r = 0 THEN Level(b) ELSE Least(Level(b), Full(r))
<1>3. SetRate(b, r) = [Refill(b) EXCEPT !.rate = r, !.tokens = cut]
  BY <1>1 DEF SetRate
<1>4. cut \in Nat /\ (r > 0 => cut <= Full(r))
  BY <1>1, <1>2 DEF Least
<1>5. /\ Sound(SetRate(b, r)) /\ SetRate(b, r).age = 0
      /\ SetRate(b, r).tokens = cut /\ SetRate(b, r).rate = r
  <2> HIDE DEF cut
  <2> QED
    BY <1>1, <1>3, <1>4 DEF Sound, Bucket
<1> QED
  BY <1>5, FreshLevel

\* A tick raises the level by the rate, up to a second's worth.
LEMMA OlderFacts ==
    ASSUME NEW b, Sound(b)
    PROVE  /\ Sound(Older(b))
           /\ Older(b).rate = b.rate
           /\ Level(Older(b)) =
                 IF b.rate = 0 THEN Level(b) ELSE Least(Level(b) + b.rate, Full(b.rate))
<1>1. /\ b \in Bucket /\ b.rate \in Nat /\ b.tokens \in Nat /\ b.age \in 0..Ticks
      /\ b.rate > 0 => b.tokens <= Full(b.rate)
  BY DEF Sound, Bucket
<1>2. /\ Older(b) = [b EXCEPT !.age = Least(b.age + 1, Ticks)]
      /\ Least(b.age + 1, Ticks) \in 0..Ticks
  BY <1>1, TicksPositive DEF Older, Least
<1>3. Sound(Older(b)) /\ Older(b).rate = b.rate /\ Older(b).tokens = b.tokens
      /\ Older(b).age = Least(b.age + 1, Ticks)
  BY <1>1, <1>2 DEF Sound, Bucket
<1>4. CASE b.rate = 0
  BY <1>1, <1>3, <1>4, RefillFacts
<1>5. CASE b.rate # 0
  <2>1. /\ Level(b) = Least(b.tokens + b.rate * b.age, Full(b.rate))
        /\ Level(Older(b)) = Least(b.tokens + b.rate * Older(b).age, Full(b.rate))
    BY <1>1, <1>3, <1>5 DEF Level, Refill, Bucket, Sound
  <2>2. b.rate * b.age \in Nat /\ Full(b.rate) \in Nat /\ b.rate * Ticks = Full(b.rate)
    BY <1>1, Products, TicksPositive DEF Full
  <2>3. CASE b.age < Ticks
    <3>1. Older(b).age = b.age + 1
      BY <1>1, <1>3, <2>3, TicksPositive DEF Least
    <3>2. b.rate * Older(b).age = b.rate * b.age + b.rate
      BY <1>1, <3>1, Products
    <3> QED
      BY <1>1, <1>3, <1>5, <2>1, <2>2, <3>2 DEF Least
  <2>4. CASE b.age = Ticks
    <3>1. Older(b).age = Ticks
      BY <1>3, <2>4, TicksPositive DEF Least
    <3> QED
      BY <1>1, <1>3, <1>5, <2>1, <2>2, <2>4, <3>1 DEF Least
  <2> QED
    BY <1>1, <2>3, <2>4, TicksPositive
<1> QED
  BY <1>3, <1>4, <1>5

-----------------------------------------------------------------------------
(***************************************************************************)
(* The invariant.                                                          *)
(***************************************************************************)
Cells == [at : {"idle", "global", "task", "back", "sleep"}, want : Nat, took : Nat, got : Nat]
InHand(c) == c.got <= c.took /\ c.took <= c.want /\ (c.at # "back" => c.got = 0)

LEMMA InvParts ==
    RateInv <=>
        /\ Sound(global) /\ global.rate \in Rates
        /\ bucket \in [Transfers -> Bucket]
        /\ \A w \in Transfers : Sound(bucket[w]) /\ bucket[w].rate = TaskRate[w]
        /\ call \in [Transfers -> Cells] /\ \A w \in Transfers : InHand(call[w])
        /\ debt \in Nat
<1>1. (\A b \in {global} \cup {bucket[w] : w \in Transfers} :
           b.rate > 0 => b.tokens <= Full(b.rate))
      <=> /\ global.rate > 0 => global.tokens <= Full(global.rate)
          /\ \A w \in Transfers : bucket[w].rate > 0 => bucket[w].tokens <= Full(bucket[w].rate)
  OBVIOUS
<1> QED
  BY <1>1 DEF RateInv, TypeOK, Sound, Cells, InHand

LEMMA ReturnKeeps ==
    ASSUME RateInv, NEW w \in Transfers, NEW got \in Nat, Return(w, got)
    PROVE  /\ call' \in [Transfers -> Cells] /\ \A v \in Transfers : InHand(call'[v])
           /\ debt' \in Nat
<1>1. /\ call \in [Transfers -> Cells] /\ \A v \in Transfers : InHand(call[v])
      /\ debt \in Nat
  BY InvParts
<1>2. got * Ticks \in Nat
  BY TicksPositive, Products
<1> DEFINE cell == IF got > 0 THEN Idle ELSE Cell("sleep", call[w].want, 0, 0)
<1>3. cell \in Cells /\ InHand(cell)
  <2>1. cell = Idle \/ cell = Cell("sleep", call[w].want, 0, 0)
    OBVIOUS
  <2>2. call[w].want \in Nat
    BY <1>1 DEF Cells
  <2> HIDE DEF cell
  <2> QED
    BY <2>1, <2>2 DEF Idle, Cell, Cells, InHand
<1>4. call' = [call EXCEPT ![w] = cell]
  BY DEF Return, Becomes
<1>5. debt' = IF global.rate = 0 THEN 0 ELSE debt + got * Ticks
  BY DEF Return
<1> HIDE DEF cell
<1> QED
  BY <1>1, <1>2, <1>3, <1>4, <1>5

LEMMA BecomesKeeps ==
    ASSUME RateInv, NEW w \in Transfers, NEW cell \in Cells, InHand(cell), Becomes(w, cell)
    PROVE  call' \in [Transfers -> Cells] /\ \A v \in Transfers : InHand(call'[v])
BY InvParts DEF Becomes

LEMMA RateInvInit == Init => RateInv
<1> SUFFICES ASSUME Init PROVE RateInv
  OBVIOUS
<1>1. \A r \in Nat : Sound(New(r)) /\ New(r).rate = r
  <2> SUFFICES ASSUME NEW r \in Nat PROVE Sound(New(r)) /\ New(r).rate = r
    OBVIOUS
  <2>1. Full(r) \in Nat
    BY Products, TicksPositive DEF Full
  <2> QED
    BY <2>1, TicksPositive DEF Sound, Bucket, New
<1>2. Sound(global) /\ global.rate \in Rates
  BY <1>1, RateAssumption DEF Init
<1>3. /\ bucket \in [Transfers -> Bucket]
      /\ \A w \in Transfers : Sound(bucket[w]) /\ bucket[w].rate = TaskRate[w]
  <2>1. \A w \in Transfers : TaskRate[w] \in Nat /\ bucket[w] = New(TaskRate[w])
    BY RateAssumption DEF Init
  <2>2. \A w \in Transfers : New(TaskRate[w]) \in Bucket
    BY <1>1, <2>1 DEF Sound
  <2> QED
    BY <1>1, <2>1, <2>2 DEF Init
<1>4. call \in [Transfers -> Cells] /\ (\A w \in Transfers : InHand(call[w])) /\ debt \in Nat
  BY DEF Init, Idle, Cell, Cells, InHand
<1> QED
  BY <1>2, <1>3, <1>4, InvParts

LEMMA RateInvStep == RateInv /\ [Next]_vars => RateInv'
<1> SUFFICES ASSUME RateInv, [Next]_vars PROVE RateInv'
  OBVIOUS
<1>0. /\ Sound(global) /\ global.rate \in Rates
      /\ bucket \in [Transfers -> Bucket]
      /\ \A w \in Transfers : Sound(bucket[w]) /\ bucket[w].rate = TaskRate[w]
      /\ call \in [Transfers -> Cells] /\ \A w \in Transfers : InHand(call[w])
      /\ debt \in Nat
  BY InvParts
<1> DEFINE InvNext ==
        /\ Sound(global') /\ global'.rate \in Rates
        /\ bucket' \in [Transfers -> Bucket]
        /\ \A w \in Transfers : Sound(bucket'[w]) /\ bucket'[w].rate = TaskRate[w]
        /\ call' \in [Transfers -> Cells] /\ \A w \in Transfers : InHand(call'[w])
        /\ debt' \in Nat
<1>1. InvNext => RateInv'
  BY DEF RateInv, TypeOK, Sound, Cells, InHand
<1>2. ASSUME NEW w \in Transfers
      PROVE  call[w] \in Cells /\ InHand(call[w])
  BY <1>0, <1>2
<1>3. ASSUME NEW w \in Transfers, Acquire(w) PROVE InvNext
  <2>1. PICK n \in Wants : Becomes(w, Cell("global", n, 0, 0))
    BY <1>3 DEF Acquire
  <2>2. Cell("global", n, 0, 0) \in Cells
        /\ InHand(Cell("global", n, 0, 0))
    BY RateAssumption DEF Cell, Cells, InHand
  <2> QED
    BY <1>0, <1>3, <2>1, <2>2, BecomesKeeps DEF Acquire
<1>4. ASSUME NEW w \in Transfers, TakeGlobal(w) PROVE InvNext
  <2> DEFINE n == Spare(global, call[w].want)
  <2>1. call[w].want \in Nat /\ call[w].took \in Nat /\ call[w].got \in Nat
    BY <1>2 DEF Cells
  <2>2. n \in Nat /\ n <= call[w].want
    BY <1>0, <2>1, SpareFacts
  <2>3. Sound(global') /\ global'.rate \in Rates
    BY <1>0, <1>4, <2>1, TakeFacts DEF TakeGlobal
  <2>4. CASE TaskRate[w] = 0
    BY <1>0, <1>4, <2>2, <2>3, <2>4, ReturnKeeps DEF TakeGlobal
  <2>5. CASE TaskRate[w] # 0
    <3>1. /\ Becomes(w, Cell("task", call[w].want, n, 0))
          /\ UNCHANGED <<debt, bucket>>
      BY <1>4, <2>5 DEF TakeGlobal
    <3>2. Cell("task", call[w].want, n, 0) \in Cells
          /\ InHand(Cell("task", call[w].want, n, 0))
      <4> HIDE DEF n
      <4> QED
        BY <2>1, <2>2 DEF Cell, Cells, InHand
    <3> QED
      BY <1>0, <2>3, <3>1, <3>2, BecomesKeeps
  <2> QED
    BY <2>4, <2>5
<1>5. ASSUME NEW w \in Transfers, TakeTask(w) PROVE InvNext
  <2> DEFINE n == Spare(bucket[w], call[w].took)
  <2>1. call[w].want \in Nat /\ call[w].took \in Nat /\ call[w].took <= call[w].want
    BY <1>2 DEF Cells, InHand
  <2>2. n \in Nat /\ n <= call[w].took
    BY <1>0, <2>1, SpareFacts
  <2>3. /\ bucket' \in [Transfers -> Bucket]
        /\ \A v \in Transfers : Sound(bucket'[v]) /\ bucket'[v].rate = TaskRate[v]
    <3>1. bucket' = [bucket EXCEPT ![w] = TryTake(bucket[w], call[w].took)]
      BY <1>0, <1>5 DEF TakeTask
    <3>2. /\ Sound(TryTake(bucket[w], call[w].took))
          /\ TryTake(bucket[w], call[w].took).rate = TaskRate[w]
          /\ TryTake(bucket[w], call[w].took) \in Bucket
      BY <1>0, <2>1, TakeFacts DEF Sound
    <3> QED
      BY <1>0, <3>1, <3>2
  <2>4. CASE n < call[w].took
    <3>1. Becomes(w, Cell("back", call[w].want, call[w].took, n)) /\ UNCHANGED <<debt, global>>
      BY <1>5, <2>4 DEF TakeTask
    <3>2. Cell("back", call[w].want, call[w].took, n) \in Cells
          /\ InHand(Cell("back", call[w].want, call[w].took, n))
      BY <1>2, <2>1, <2>2 DEF Cell, Cells, InHand
    <3> QED
      BY <1>0, <2>3, <3>1, <3>2, BecomesKeeps
  <2>5. CASE ~(n < call[w].took)
    BY <1>0, <1>5, <2>2, <2>3, <2>5, ReturnKeeps DEF TakeTask
  <2> QED
    BY <2>4, <2>5
<1>6. ASSUME NEW w \in Transfers, Align(w) PROVE InvNext
  <2>1. call[w].got \in Nat /\ call[w].took - call[w].got \in Nat
    BY <1>2 DEF Cells, InHand
  <2>2. Sound(global') /\ global'.rate \in Rates
    BY <1>0, <1>6, <2>1, GiveBackFacts DEF Align
  <2> QED
    BY <1>0, <1>6, <2>1, <2>2, ReturnKeeps DEF Align
<1>7. ASSUME NEW w \in Transfers, Wake(w) PROVE InvNext
  <2>1. Cell("global", call[w].want, 0, 0) \in Cells /\ InHand(Cell("global", call[w].want, 0, 0))
    BY <1>2, <1>7 DEF Wake, Cell, Cells, InHand
  <2> QED
    BY <1>0, <1>7, <2>1, BecomesKeeps DEF Wake
<1>8. ASSUME NEW r \in Rates, SetGlobal(r) PROVE InvNext
  <2>1. Sound(global') /\ global'.rate \in Rates
    BY <1>0, <1>8, SetRateFacts, RateAssumption DEF SetGlobal
  <2> QED
    BY <1>0, <1>8, <2>1 DEF SetGlobal
<1>9. ASSUME Tick PROVE InvNext
  <2>1. Sound(global') /\ global'.rate \in Rates
    BY <1>0, <1>9, OlderFacts DEF Tick
  <2>2. /\ bucket' \in [Transfers -> Bucket]
        /\ \A w \in Transfers : Sound(bucket'[w]) /\ bucket'[w].rate = TaskRate[w]
    <3>1. bucket' = [w \in Transfers |-> Older(bucket[w])]
      BY <1>9 DEF Tick
    <3>2. \A w \in Transfers : /\ Sound(Older(bucket[w])) /\ Older(bucket[w]) \in Bucket
                              /\ Older(bucket[w]).rate = TaskRate[w]
      BY <1>0, OlderFacts DEF Sound
    <3> QED
      BY <3>1, <3>2
  <2>3. debt' \in Nat
    BY <1>0, <1>9 DEF Tick, Most, Sound, Bucket
  <2> QED
    BY <1>0, <1>9, <2>1, <2>2, <2>3 DEF Tick
<1>10. ASSUME UNCHANGED vars PROVE InvNext
  BY <1>0, <1>10 DEF vars
<1>11. ASSUME Next PROVE InvNext
  <2> HIDE DEF InvNext
  <2> QED
    BY <1>3, <1>4, <1>5, <1>6, <1>7, <1>8, <1>9, <1>11 DEF Next, Step
<1> HIDE DEF InvNext
<1>12. InvNext
  BY <1>10, <1>11
<1> QED
  BY <1>1, <1>12

\* Buckets never hold more than a second's quota nor less than nothing, and a call
\* never has more in hand than it asked for: rate.rs:56 subtracts what tokens.min
\* allows, rate.rs:74 gives back under the cap.
THEOREM RateInvHolds == Spec => []RateInv
BY RateInvInit, RateInvStep, PTL DEF Spec

-----------------------------------------------------------------------------
(***************************************************************************)
(* The global bucket implements the bucket of DlBucket.                    *)
(***************************************************************************)
\* A call that is going on asks for a block that curl handed over.
AskInv == \A w \in Transfers : ~At(w, "idle") => call[w].want \in Wants

LEMMA AskInvStep == RateInv /\ AskInv /\ [Next]_vars => AskInv'
<1> SUFFICES ASSUME RateInv, AskInv, [Next]_vars PROVE AskInv'
  OBVIOUS
<1>0. call \in [Transfers -> Cells]
  BY InvParts
<1>1. ASSUME NEW w \in Transfers, NEW cell, Becomes(w, cell),
             cell.at = "idle" \/ cell.want \in Wants
      PROVE  AskInv'
  BY <1>0, <1>1 DEF AskInv, At, Becomes
<1>2. ASSUME NEW w \in Transfers, NEW got, Return(w, got), ~At(w, "idle") PROVE AskInv'
  BY <1>1, <1>2 DEF AskInv, Return, Idle, Cell
<1>3. ASSUME NEW w \in Transfers, Acquire(w) PROVE AskInv'
  BY <1>1, <1>3 DEF Acquire, Cell
<1>4. ASSUME NEW w \in Transfers, TakeGlobal(w) \/ TakeTask(w) \/ Align(w) \/ Wake(w)
      PROVE  AskInv'
  <2>1. ~At(w, "idle")
    BY <1>4 DEF TakeGlobal, TakeTask, Align, Wake, At
  <2>2. call[w].want \in Wants
    BY <2>1 DEF AskInv
  <2>3. \/ \E got : Return(w, got)
        \/ \E at, took, got : Becomes(w, Cell(at, call[w].want, took, got))
    BY <1>4, Zenon DEF TakeGlobal, TakeTask, Align, Wake
  <2> QED
    BY <1>1, <1>2, <2>1, <2>2, <2>3 DEF Cell
<1>5. ASSUME UNCHANGED call PROVE AskInv'
  BY <1>5 DEF AskInv, At
<1> QED
  BY <1>3, <1>4, <1>5 DEF Next, Step, SetGlobal, Tick, vars

LEMMA AskInvInit == Init => AskInv
BY DEF Init, AskInv, At, Idle, Cell

\* What a step of a call changes of what it carries.
LEMMA CarriedChanges ==
    ASSUME RateInv, NEW w \in Transfers, NEW cell, Becomes(w, cell)
    PROVE  Carried' = [Carried EXCEPT
                          ![w] = IF cell.at \in {"task", "back"} THEN cell.took ELSE 0]
BY InvParts DEF Becomes, Carried

LEMMA ReturnEmpties ==
    ASSUME RateInv, NEW w \in Transfers, NEW got, Return(w, got)
    PROVE  /\ Carried' = [Carried EXCEPT ![w] = 0]
           /\ debt' = IF global.rate = 0 THEN 0 ELSE debt + got * Ticks
<1> DEFINE cell == IF got > 0 THEN Idle ELSE Cell("sleep", call[w].want, 0, 0)
<1>1. Becomes(w, cell) /\ debt' = IF global.rate = 0 THEN 0 ELSE debt + got * Ticks
  BY DEF Return
<1>2. cell.at \notin {"task", "back"}
  BY DEF Idle, Cell
<1> HIDE DEF cell
<1> QED
  BY <1>1, <1>2, CarriedChanges

LEMMA IdealInit == Init => Ideal!Init
<1> SUFFICES ASSUME Init PROVE Ideal!Init
  OBVIOUS
<1>1. PICK r \in Rates : global = New(r)
  BY DEF Init
<1>2. r \in Nat /\ Full(r) \in Nat
  BY RateAssumption, Products, TicksPositive DEF Full
<1>3. Sound(global) /\ global.age = 0 /\ global.rate = r /\ global.tokens = Full(r)
  BY <1>1, <1>2, TicksPositive DEF Sound, Bucket, New
<1>4. Level(global) = Full(r)
  BY <1>3, FreshLevel
<1>5. Carried = [w \in Transfers |-> 0] /\ debt = 0
  BY DEF Init, Carried, Idle, Cell
<1> QED
  BY <1>3, <1>4, <1>5 DEF Ideal!Init, Ideal!Full, Full

LEMMA IdealStep ==
    RateInv /\ AskInv /\ [Next]_vars
        => [Ideal!Next]_<<global.rate, Level(global), Carried, debt>>
<1> SUFFICES ASSUME RateInv, AskInv, [Next]_vars
             PROVE  Ideal!Next \/ UNCHANGED <<global.rate, Level(global), Carried, debt>>
  BY DEF Level
<1>0. /\ Sound(global) /\ global.rate \in Rates /\ global.rate \in Nat
      /\ Level(global) \in Nat /\ Full(global.rate) \in Nat
      /\ global.rate > 0 => Level(global) <= Full(global.rate)
      /\ debt \in Nat
  BY InvParts, RefillFacts, RateAssumption, Products, TicksPositive DEF Full
<1>1. ASSUME NEW w \in Transfers
      PROVE  /\ call[w] \in Cells /\ InHand(call[w])
             /\ call[w].want \in Nat /\ call[w].took \in Nat /\ call[w].got \in Nat
             /\ Carried \in [Transfers -> {Carried[v] : v \in Transfers}]
             /\ Carried[w] = IF call[w].at \in {"task", "back"} THEN call[w].took ELSE 0
  BY <1>1, InvParts DEF Cells, Carried
<1>2. ASSUME UNCHANGED <<global, call, debt>>
      PROVE  UNCHANGED <<global.rate, Level(global), Carried, debt>>
  BY <1>2 DEF Level, Refill, Carried
\* A step that moves nothing that is carried.
<1>3. ASSUME NEW w \in Transfers, NEW cell, Becomes(w, cell), UNCHANGED <<global, debt>>,
             (IF cell.at \in {"task", "back"} THEN cell.took ELSE 0) = Carried[w]
      PROVE  UNCHANGED <<global.rate, Level(global), Carried, debt>>
  <2>1. Carried' = [Carried EXCEPT ![w] = Carried[w]]
    BY <1>3, CarriedChanges
  <2>2. Carried' = Carried
    BY <1>1, <2>1
  <2> QED
    BY <1>3, <2>2 DEF Level, Refill
<1>4. ASSUME NEW w \in Transfers, Acquire(w) \/ Wake(w)
      PROVE  UNCHANGED <<global.rate, Level(global), Carried, debt>>
  <2>1. Carried[w] = 0
    BY <1>1, <1>4 DEF Acquire, Wake, At
  <2>2. PICK want : Becomes(w, Cell("global", want, 0, 0)) /\ UNCHANGED <<global, debt>>
    BY <1>4 DEF Acquire, Wake
  <2> QED
    BY <1>3, <2>1, <2>2 DEF Cell
<1>5. ASSUME NEW w \in Transfers, TakeGlobal(w) PROVE Ideal!Next
  <2> DEFINE n == Spare(global, call[w].want)
  <2>1. call[w].want \in Wants /\ Carried[w] = 0
    BY <1>1, <1>5 DEF TakeGlobal, At, AskInv
  <2>2. /\ n \in Nat /\ n * Ticks \in Nat
        /\ global.rate > 0 => n * Ticks <= Level(global)
        /\ global.rate = 0 => n = call[w].want
    BY <1>0, <1>1, SpareFacts, TicksPositive, Products DEF Spare
  <2>3. global' = TryTake(global, call[w].want)
    BY <1>5 DEF TakeGlobal
  <2>4. /\ global'.rate = global.rate
        /\ Level(global)' = IF global.rate = 0 THEN Level(global) ELSE Level(global) - n * Ticks
    BY <1>0, <1>1, <2>3, TakeFacts DEF Level
  <2>5. n \in Ideal!Grants /\ Ideal!Lower(n)
    <3>1. n <= n * Ticks
      BY <2>2, TicksPositive, Products
    <3>2. global.rate > 0 => n \in 0..Level(global) /\ n * Ticks <= Level(global)
      BY <1>0, <2>2, <3>1
    <3> HIDE DEF n
    <3> QED
      BY <1>0, <2>1, <2>2, <2>4, <3>2 DEF Ideal!Grants, Ideal!Lower
  <2>6. CASE TaskRate[w] = 0
    <3>1. Return(w, n)
      BY <1>5, <2>6 DEF TakeGlobal
    <3> HIDE DEF n
    <3>2. /\ Carried' = [Carried EXCEPT ![w] = 0]
          /\ debt' = IF global.rate = 0 THEN 0 ELSE debt + n * Ticks
      BY <3>1, ReturnEmpties
    <3>3. Carried' = Carried
      BY <1>1, <2>1, <3>2
    <3>4. Ideal!Pass(n)
      BY <3>2 DEF Ideal!Pass
    <3> QED
      BY <2>4, <2>5, <3>3, <3>4 DEF Ideal!Next, Ideal!Spend
  <2>7. CASE TaskRate[w] # 0
    <3>1. Becomes(w, Cell("task", call[w].want, n, 0)) /\ UNCHANGED debt
      BY <1>5, <2>7 DEF TakeGlobal
    <3> HIDE DEF n
    <3>2. Carried' = [Carried EXCEPT ![w] = n]
      BY <3>1, CarriedChanges DEF Cell
    <3>3. Ideal!Draw(w)
      BY <2>1, <2>4, <2>5, <3>1, <3>2 DEF Ideal!Draw
    <3> QED
      BY <3>3 DEF Ideal!Next
  <2> QED
    BY <2>6, <2>7
\* What is passed on and what goes back is what was carried.
<1>6. ASSUME NEW w \in Transfers, NEW got \in Nat, NEW n \in Nat, Return(w, got),
             Carried[w] = got + n, global'.rate = global.rate,
             Level(global)' = IF global.rate = 0 THEN Level(global)
                              ELSE Least(Level(global) + n * Ticks, Full(global.rate))
      PROVE  Ideal!Next
  <2>1. got \in 0..Carried[w] /\ Carried[w] - got = n
    BY <1>6
  <2>2. /\ Carried' = [Carried EXCEPT ![w] = 0]
        /\ debt' = IF global.rate = 0 THEN 0 ELSE debt + got * Ticks
    BY <1>6, ReturnEmpties
  <2>3. Level(global)' = IF global.rate = 0 THEN Level(global)
                         ELSE Ideal!Least(Level(global) + (Carried[w] - got) * Ticks,
                                          Ideal!Full(global.rate))
    BY <1>6, <2>1 DEF Ideal!Least, Ideal!Full, Least, Full
  <2>4. Ideal!Pass(got)
    BY <2>2 DEF Ideal!Pass
  <2>5. Ideal!Settle(w)
    BY <1>6, <2>1, <2>2, <2>3, <2>4 DEF Ideal!Settle
  <2> QED
    BY <2>5 DEF Ideal!Next
<1>7. ASSUME NEW w \in Transfers, TakeTask(w)
      PROVE  Ideal!Next \/ UNCHANGED <<global.rate, Level(global), Carried, debt>>
  <2> DEFINE n == Spare(bucket[w], call[w].took)
  <2>1. n \in Nat /\ n <= call[w].took
    BY <1>1, InvParts, SpareFacts
  <2>2. Carried[w] = call[w].took /\ UNCHANGED global
    BY <1>1, <1>7 DEF TakeTask, At
  <2>3. CASE n < call[w].took
    <3>1. Becomes(w, Cell("back", call[w].want, call[w].took, n)) /\ UNCHANGED debt
      BY <1>7, <2>3 DEF TakeTask
    <3> HIDE DEF n
    <3> QED
      BY <1>3, <2>2, <3>1 DEF Cell
  <2>4. CASE ~(n < call[w].took)
    <3>1. Return(w, n)
      BY <1>7, <2>4 DEF TakeTask
    <3>2. Carried[w] = n + 0
      BY <1>1, <2>1, <2>2, <2>4
    <3>3. Level(global)' = Level(global) /\ 0 * Ticks = 0
      BY <2>2, TicksPositive, Products DEF Level, Refill
    <3>4. Level(global)' = IF global.rate = 0 THEN Level(global)
                           ELSE Least(Level(global) + 0 * Ticks, Full(global.rate))
      BY <1>0, <3>3 DEF Least
    <3> HIDE DEF n
    <3> QED
      BY <1>6, <2>1, <2>2, <3>1, <3>2, <3>4
  <2> QED
    BY <2>3, <2>4
<1>8. ASSUME NEW w \in Transfers, Align(w) PROVE Ideal!Next
  <2> DEFINE n == call[w].took - call[w].got
  <2>1. n \in Nat /\ Carried[w] = call[w].got + n
    BY <1>1, <1>8 DEF InHand, Align, At
  <2>2. global' = GiveBack(global, n) /\ Return(w, call[w].got)
    BY <1>8 DEF Align
  <2> HIDE DEF n
  <2>3. /\ global'.rate = global.rate
        /\ Level(global)' = IF global.rate = 0 THEN Level(global)
                            ELSE Least(Level(global) + n * Ticks, Full(global.rate))
    BY <1>0, <2>1, <2>2, GiveBackFacts DEF Level
  <2> QED
    BY <1>1, <1>6, <2>1, <2>2, <2>3
<1>9. ASSUME NEW r \in Rates, SetGlobal(r) PROVE Ideal!Next
  <2>1. /\ global'.rate = r
        /\ Level(global)' = IF r = 0 THEN Level(global) ELSE Least(Level(global), Full(r))
    BY <1>0, <1>9, SetRateFacts, RateAssumption DEF SetGlobal, Level
  <2>2. debt' = 0 /\ Carried' = Carried
    BY <1>9 DEF SetGlobal, Carried
  <2> QED
    BY <2>1, <2>2 DEF Ideal!Next, Ideal!SetRate, Ideal!Least, Ideal!Full, Least, Full
<1>10. ASSUME Tick PROVE Ideal!Next
  <2>1. /\ global'.rate = global.rate
        /\ Level(global)' = IF global.rate = 0 THEN Level(global)
                            ELSE Least(Level(global) + global.rate, Full(global.rate))
    BY <1>0, <1>10, OlderFacts DEF Tick, Level
  <2>2. debt' = Ideal!Most(0, debt - global.rate) /\ Carried' = Carried
    BY <1>10 DEF Tick, Carried, Most, Ideal!Most
  <2> QED
    BY <2>1, <2>2 DEF Ideal!Next, Ideal!Flow, Ideal!Least, Ideal!Full, Least, Full
<1>11. CASE UNCHANGED vars
  BY <1>2, <1>11 DEF vars
<1> QED
  BY <1>4, <1>5, <1>7, <1>8, <1>9, <1>10, <1>11 DEF Next, Step

\* However transfers interleave their takes, alignments and sleeps, and whenever the
\* host sets the rate, the lazily refilled bucket is the one that fills with time, and
\* each call passes on or gives back just what it drew: rate.rs:106 makes no token out
\* of nothing and loses none but to the cap and to an unlimited rate.
THEOREM RateImplementsBucket == Spec => ImplementsBucket
<1>1. Init => RateInv /\ AskInv
  BY RateInvInit, AskInvInit
<1>2. RateInv /\ AskInv /\ [Next]_vars => RateInv' /\ AskInv'
  BY RateInvStep, AskInvStep
<1> QED
  BY <1>1, <1>2, IdealInit, IdealStep, PTL DEF Spec, ImplementsBucket, Ideal!Spec

-----------------------------------------------------------------------------
(***************************************************************************)
(* What passes in any stretch of time.  Between its two critical sections  *)
(* a call carries what it took of the global bucket: neither in the bucket *)
(* nor passed on.  What is carried is counted as a set with an element for *)
(* each byte.                                                              *)
(***************************************************************************)
Bytes(carried, most) == {p \in Transfers \X (1..most) : p[2] <= carried[p[1]]}

Largest(most) == most \in Wants /\ \A n \in Wants : n <= most

\* The tokens that are passed on, still there or on their way.
Outstanding(most) == debt + Level(global) + Cardinality(Bytes(Carried, most)) * Ticks
InHands(most)     == Cardinality(Transfers) * most * Ticks

WantInv   == \A w \in Transfers : call[w].want \in Wants \cup {0}
WindowInv ==
    /\ WantInv
    /\ global.rate > 0 =>
           \A most \in Wants : Largest(most) => Outstanding(most) <= Full(global.rate) + InHands(most)

LEMMA Distribute ==
    ASSUME NEW m \in Nat, NEW n \in Nat, NEW k \in Nat
    PROVE  (m + n) * k = m * k + n * k
BY SMTT(60)

LEMMA CountUpTo ==
    ASSUME NEW k \in Nat
    PROVE  IsFiniteSet(1..k) /\ Cardinality(1..k) = k
BY FS_Interval

\* One call carries another number of bytes.
LEMMA BytesChange ==
    ASSUME NEW most \in Nat, NEW w \in Transfers,
           NEW c \in [Transfers -> 0..most], NEW d \in [Transfers -> 0..most],
           \A v \in Transfers \ {w} : d[v] = c[v]
    PROVE  /\ IsFiniteSet(Bytes(c, most)) /\ Cardinality(Bytes(c, most)) \in Nat
           /\ IsFiniteSet(Bytes(d, most)) /\ Cardinality(Bytes(d, most)) \in Nat
           /\ Cardinality(Bytes(d, most)) + c[w] = Cardinality(Bytes(c, most)) + d[w]
<1> DEFINE own(k) == {w} \X (1..k)
           rest == {p \in Bytes(c, most) : p[1] # w}
<1>1. ASSUME NEW k \in 0..most
      PROVE  IsFiniteSet(own(k)) /\ Cardinality(own(k)) = k
  <2>1. IsFiniteSet(1..k) /\ Cardinality(1..k) = k
    <3>1. k \in Nat
      BY <1>1
    <3> QED
      BY <3>1, CountUpTo
  <2>2. IsFiniteSet({w}) /\ Cardinality({w}) = 1
    BY FS_Singleton
  <2> QED
    BY <1>1, <2>1, <2>2, FS_Product
<1>2. IsFiniteSet(Transfers \X (1..most))
  BY CountUpTo, FS_Product, RateAssumption
<1>3. rest \subseteq Transfers \X (1..most)
  BY DEF Bytes
<1>4. IsFiniteSet(rest) /\ Cardinality(rest) \in Nat
  BY <1>2, <1>3, FS_Subset, FS_CardinalityType
<1>5. c[w] \in 0..most /\ d[w] \in 0..most
  OBVIOUS
<1>6. ASSUME NEW f \in [Transfers -> 0..most], NEW k \in 0..most, f[w] = k,
             \A v \in Transfers \ {w} : f[v] = c[v]
      PROVE  /\ IsFiniteSet(Bytes(f, most)) /\ Cardinality(Bytes(f, most)) \in Nat
             /\ Cardinality(Bytes(f, most)) = Cardinality(rest) + k
  <2>1. Bytes(f, most) = rest \cup own(k)
    BY <1>6 DEF Bytes
  <2>2. rest \cap own(k) = {}
    OBVIOUS
  <2> HIDE DEF rest, own
  <2>3. IsFiniteSet(own(k)) /\ Cardinality(own(k)) = k
    BY <1>1
  <2>4. Cardinality(rest \cap own(k)) = 0
    BY <2>2, FS_EmptySet
  <2>5. /\ IsFiniteSet(rest \cup own(k))
        /\ Cardinality(rest \cup own(k)) =
              Cardinality(rest) + Cardinality(own(k)) - Cardinality(rest \cap own(k))
    BY <1>4, <2>3, FS_Union
  <2> QED
    BY <1>4, <2>1, <2>3, <2>4, <2>5
<1> HIDE DEF rest, own
<1>7. /\ IsFiniteSet(Bytes(c, most)) /\ Cardinality(Bytes(c, most)) \in Nat
      /\ Cardinality(Bytes(c, most)) = Cardinality(rest) + c[w]
  BY <1>5, <1>6
<1>8. /\ IsFiniteSet(Bytes(d, most)) /\ Cardinality(Bytes(d, most)) \in Nat
      /\ Cardinality(Bytes(d, most)) = Cardinality(rest) + d[w]
  BY <1>5, <1>6
<1> QED
  BY <1>4, <1>5, <1>7, <1>8

\* No call carries more than the largest block.
LEMMA BytesBound ==
    ASSUME NEW most \in Nat, NEW c
    PROVE  /\ Cardinality(Bytes(c, most)) \in Nat
           /\ Cardinality(Bytes(c, most)) * Ticks \in Nat
           /\ Cardinality(Bytes(c, most)) * Ticks <= InHands(most)
           /\ InHands(most) \in Nat
<1>1. IsFiniteSet(1..most) /\ Cardinality(1..most) = most
  BY CountUpTo
<1>2. /\ IsFiniteSet(Transfers \X (1..most))
      /\ Cardinality(Transfers \X (1..most)) = Cardinality(Transfers) * most
  BY <1>1, FS_Product, RateAssumption
<1>3. Bytes(c, most) \in SUBSET (Transfers \X (1..most))
  BY DEF Bytes
<1>4. /\ Cardinality(Bytes(c, most)) \in Nat
      /\ Cardinality(Bytes(c, most)) <= Cardinality(Transfers) * most
  BY <1>2, <1>3, FS_Subset, FS_CardinalityType
<1>5. Cardinality(Transfers) \in Nat /\ Cardinality(Transfers) * most \in Nat
  BY RateAssumption, FS_CardinalityType, Products
<1> QED
  BY <1>4, <1>5, TicksPositive, Products, ProductsGrow DEF InHands

\* A call that takes n tokens of the bucket, passes paid of them on and gives some
\* back, or none of this, leaves what is outstanding within bounds.
LEMMA Pays ==
    ASSUME RateInv, WindowInv, RateInv', global'.rate = global.rate,
           NEW w \in Transfers, NEW cell, Becomes(w, cell), cell \in Cells,
           cell.want \in Wants \cup {0},
           NEW before \in Nat, before = Carried[w],
           NEW after \in Nat,
           after = (IF cell.at \in {"task", "back"} THEN cell.took ELSE 0),
           global.rate > 0 =>
               debt' + Level(global)' + after * Ticks <= debt + Level(global) + before * Ticks
    PROVE  WindowInv'
<1>1. /\ call \in [Transfers -> Cells] /\ \A v \in Transfers : InHand(call[v])
      /\ Sound(global) /\ debt \in Nat /\ call' = [call EXCEPT ![w] = cell]
  BY InvParts DEF Becomes
<1>2. Sound(global') /\ debt' \in Nat /\ InHand(cell)
  <2>1. call'[w] = cell /\ InHand(call'[w])
    BY <1>1 DEF RateInv, InHand
  <2> QED
    BY <2>1 DEF RateInv, TypeOK, Sound
<1>3. Level(global) \in Nat /\ Level(global)' \in Nat /\ Level(global') = Level(global)'
  BY <1>1, <1>2, RefillFacts DEF Level
<1>4. WantInv'
  BY <1>1 DEF WindowInv, WantInv
<1>5. ASSUME NEW most \in Wants, Largest(most), global.rate > 0
      PROVE  Outstanding(most)' <= Full(global.rate) + InHands(most)
  <2>1. most \in Nat
    BY RateAssumption
  <2>2. \A v \in Transfers : call[v].took <= most /\ call[v].took \in Nat
    <3>1. \A v \in Transfers : /\ call[v].want <= most /\ call[v].took <= call[v].want
                              /\ call[v].took \in Nat /\ call[v].want \in Nat
      BY <1>1, <1>5, RateAssumption DEF WindowInv, WantInv, Largest, InHand, Cells
    <3> QED
      BY <3>1, <2>1
  <2>3. Carried \in [Transfers -> 0..most]
    BY <2>1, <2>2 DEF Carried
  <2>4. after \in 0..most
    <3>1. cell.took <= cell.want /\ cell.want <= most /\ cell.took \in Nat /\ cell.want \in Nat
      BY <1>2, <1>5, <2>1, RateAssumption DEF InHand, Largest, Cells
    <3> QED
      BY <3>1, <2>1
  <2>5. Carried' = [Carried EXCEPT ![w] = after]
    BY <1>1 DEF Carried
  <2> DEFINE m == Cardinality(Bytes(Carried, most))
             n == Cardinality(Bytes(Carried', most))
  <2>6. m \in Nat /\ n \in Nat /\ n + before = m + after
    <3> DEFINE c == Carried
               d == Carried'
    <3>1. c \in [Transfers -> 0..most] /\ d \in [Transfers -> 0..most]
          /\ (\A v \in Transfers \ {w} : d[v] = c[v]) /\ d[w] = after /\ c[w] = before
      BY <2>3, <2>4, <2>5
    <3> HIDE DEF c, d
    <3>2. /\ Cardinality(Bytes(c, most)) \in Nat /\ Cardinality(Bytes(d, most)) \in Nat
          /\ Cardinality(Bytes(d, most)) + c[w] = Cardinality(Bytes(c, most)) + d[w]
      BY <2>1, <3>1, BytesChange
    <3> QED
      BY <3>1, <3>2 DEF c, d
  <2>7. Outstanding(most) = debt + Level(global) + m * Ticks
        /\ Outstanding(most)' = debt' + Level(global)' + n * Ticks
    BY DEF Outstanding
  <2>8. Outstanding(most) <= Full(global.rate) + InHands(most)
    BY <1>5 DEF WindowInv
  <2>9. Full(global.rate) \in Nat /\ InHands(most) \in Nat
    BY <1>1, <2>1, BytesBound, TicksPositive, Products DEF Full, Sound, Bucket
  <2> HIDE DEF m, n
  <2>10. n * Ticks + before * Ticks = m * Ticks + after * Ticks
    <3>1. (n + before) * Ticks = n * Ticks + before * Ticks
      BY <2>6, Distribute, TicksPositive
    <3>2. (m + after) * Ticks = m * Ticks + after * Ticks
      BY <2>6, Distribute, TicksPositive
    <3> QED
      BY <2>6, <3>1, <3>2
  <2>11. /\ n * Ticks \in Nat /\ m * Ticks \in Nat
         /\ before * Ticks \in Nat /\ after * Ticks \in Nat
    BY <2>6, TicksPositive, Products
  <2> QED
    BY <1>1, <1>2, <1>3, <1>5, <2>7, <2>8, <2>9, <2>10, <2>11
<1>6. \A most : InHands(most)' = InHands(most) /\ Largest(most)' = Largest(most)
  BY DEF InHands, Largest
<1> QED
  BY <1>4, <1>5, <1>6 DEF WindowInv

LEMMA WindowInvStep == RateInv /\ RateInv' /\ WindowInv /\ [Next]_vars => WindowInv'
<1> SUFFICES ASSUME RateInv, RateInv', WindowInv, [Next]_vars PROVE WindowInv'
  OBVIOUS
<1>0. /\ Sound(global) /\ global.rate \in Nat /\ global.rate \in Rates
      /\ \A w \in Transfers : Sound(bucket[w])
      /\ Level(global) \in Nat /\ Full(global.rate) \in Nat
      /\ global.rate > 0 => Level(global) <= Full(global.rate)
      /\ debt \in Nat
  BY InvParts, RefillFacts, RateAssumption, Products, TicksPositive DEF Full
<1>1. ASSUME NEW w \in Transfers
      PROVE  /\ call[w] \in Cells /\ InHand(call[w])
             /\ call[w].want \in Nat /\ call[w].took \in Nat /\ call[w].got \in Nat
             /\ call[w].want \in Wants \cup {0}
  BY <1>1, InvParts DEF WindowInv, WantInv, Cells
\* Nothing is carried any more once acquire returns or sleeps.
<1>2. ASSUME NEW w \in Transfers, NEW got \in Nat, Return(w, got), global'.rate = global.rate,
             NEW before \in Nat, before = Carried[w],
             global.rate > 0 =>
                 debt + got * Ticks + Level(global)' <= debt + Level(global) + before * Ticks
      PROVE  WindowInv'
  <2> DEFINE cell == IF got > 0 THEN Idle ELSE Cell("sleep", call[w].want, 0, 0)
  <2>1. cell \in Cells /\ cell.want \in Wants \cup {0} /\ cell.at \notin {"task", "back"}
    BY <1>1 DEF Idle, Cell, Cells
  <2>2. Becomes(w, cell) /\ debt' = IF global.rate = 0 THEN 0 ELSE debt + got * Ticks
    BY <1>2 DEF Return
  <2> HIDE DEF cell
  <2>3. 0 * Ticks = 0 /\ Level(global)' \in Nat /\ got * Ticks \in Nat /\ before * Ticks \in Nat
    <3>1. Sound(global')
      BY InvParts DEF RateInv, TypeOK, Sound
    <3>2. Level(global') \in Nat /\ Level(global') = Level(global)'
      BY <3>1, RefillFacts DEF Level
    <3> QED
      BY <1>2, <3>2, TicksPositive, Products
  <2> QED
    BY <1>0, <1>2, <2>1, <2>2, <2>3, Pays
\* What was not carried is not carried now.
<1>a. ASSUME NEW w \in Transfers, NEW step, NEW n \in Wants \cup {0},
             Becomes(w, Cell(step, n, 0, 0)), step \in {"global", "sleep"},
             Carried[w] = 0, UNCHANGED <<global, debt>>
      PROVE  WindowInv'
  <2> DEFINE cell == Cell(step, n, 0, 0)
  <2>1. cell \in Cells /\ cell.want \in Wants \cup {0} /\ cell.at \notin {"task", "back"}
    BY <1>a, RateAssumption DEF Cell, Cells
  <2> HIDE DEF cell
  <2>2. 0 * Ticks = 0 /\ Level(global)' = Level(global) /\ debt' = debt
    BY <1>a, TicksPositive, Products DEF Level, Refill
  <2>3. Becomes(w, cell) /\ global'.rate = global.rate
    BY <1>a DEF cell
  <2> QED
    BY <1>0, <1>a, <2>1, <2>2, <2>3, Pays
<1>3. ASSUME NEW w \in Transfers, Acquire(w) PROVE WindowInv'
  <2>1. PICK n \in Wants : Becomes(w, Cell("global", n, 0, 0))
    BY <1>3 DEF Acquire
  <2>2. Carried[w] = 0 /\ UNCHANGED <<global, debt>>
    BY <1>3 DEF Acquire, At, Carried
  <2> QED
    BY <1>a, <2>1, <2>2
<1>4. ASSUME NEW w \in Transfers, TakeGlobal(w) PROVE WindowInv'
  <2> DEFINE n == Spare(global, call[w].want)
  <2>1. n \in Nat /\ n * Ticks \in Nat /\ n <= call[w].want
    BY <1>0, <1>1, SpareFacts, TicksPositive, Products
  <2>2. /\ global'.rate = global.rate
        /\ global.rate > 0 => Level(global)' = Level(global) - n * Ticks
    <3>1. global' = TryTake(global, call[w].want)
      BY <1>4 DEF TakeGlobal
    <3>2. /\ global'.rate = global.rate
          /\ Level(global)' = IF global.rate = 0 THEN Level(global)
                                                ELSE Level(global) - n * Ticks
      BY <1>0, <1>1, <3>1, TakeFacts DEF Level
    <3> QED
      BY <1>0, <3>2
  <2>3. Carried[w] = 0 /\ 0 * Ticks = 0
    BY <1>4, TicksPositive, Products DEF TakeGlobal, At, Carried
  <2>4. CASE TaskRate[w] = 0
    <3>1. Return(w, n)
      BY <1>4, <2>4 DEF TakeGlobal
    <3> HIDE DEF n
    <3> QED
      BY <1>0, <1>2, <2>1, <2>2, <2>3, <3>1
  <2>5. CASE TaskRate[w] # 0
    <3> DEFINE cell == Cell("task", call[w].want, n, 0)
    <3>1. Becomes(w, cell) /\ debt' = debt
      BY <1>4, <2>5 DEF TakeGlobal
    <3> HIDE DEF n
    <3>2. cell \in Cells /\ cell.want \in Wants \cup {0} /\ cell.at = "task" /\ cell.took = n
      BY <1>1, <2>1 DEF Cell, Cells
    <3> HIDE DEF cell
    <3> QED
      BY <1>0, <2>1, <2>2, <2>3, <3>1, <3>2, Pays
  <2> QED
    BY <2>4, <2>5
<1>5. ASSUME NEW w \in Transfers, TakeTask(w) PROVE WindowInv'
  <2> DEFINE n == Spare(bucket[w], call[w].took)
  <2>1. n \in Nat /\ n <= call[w].took
    BY <1>0, <1>1, SpareFacts
  <2>2. /\ Carried[w] = call[w].took /\ global' = global /\ call[w].took * Ticks \in Nat
        /\ Level(global)' = Level(global)
    BY <1>1, <1>5, TicksPositive, Products DEF TakeTask, At, Carried, Level, Refill
  <2>3. CASE n < call[w].took
    <3> DEFINE cell == Cell("back", call[w].want, call[w].took, n)
    <3>1. Becomes(w, cell) /\ debt' = debt
      BY <1>5, <2>3 DEF TakeTask
    <3> HIDE DEF n
    <3>2. /\ cell \in Cells /\ cell.want \in Wants \cup {0}
          /\ cell.at = "back" /\ cell.took = call[w].took
      BY <1>1, <2>1 DEF Cell, Cells
    <3> HIDE DEF cell
    <3> QED
      BY <1>0, <1>1, <2>2, <3>1, <3>2, Pays
  <2>4. CASE ~(n < call[w].took)
    <3>1. Return(w, n)
      BY <1>5, <2>4 DEF TakeTask
    <3>2. n = call[w].took
      BY <1>1, <2>1, <2>4
    <3> HIDE DEF n
    <3> QED
      BY <1>0, <1>1, <1>2, <2>2, <3>1, <3>2
  <2> QED
    BY <2>3, <2>4
<1>6. ASSUME NEW w \in Transfers, Align(w) PROVE WindowInv'
  <2> DEFINE n == call[w].took - call[w].got
             got == call[w].got
  <2>1. n \in Nat /\ got \in Nat /\ got + n = call[w].took
    BY <1>1 DEF InHand
  <2>2. Return(w, got) /\ global' = GiveBack(global, n) /\ Carried[w] = call[w].took
    BY <1>6 DEF Align, At, Carried
  <2> HIDE DEF n, got
  <2>3. /\ n * Ticks \in Nat /\ got * Ticks \in Nat
        /\ call[w].took * Ticks = got * Ticks + n * Ticks
    BY <2>1, TicksPositive, Products, Distribute
  <2>4. /\ global'.rate = global.rate
        /\ Level(global)' = IF global.rate = 0 THEN Level(global)
                            ELSE Least(Level(global) + n * Ticks, Full(global.rate))
    BY <1>0, <2>1, <2>2, GiveBackFacts DEF Level
  <2>5. global.rate > 0 => Level(global)' <= Level(global) + n * Ticks /\ Level(global)' \in Nat
    BY <1>0, <2>3, <2>4 DEF Least
  <2> QED
    BY <1>0, <1>1, <1>2, <2>1, <2>2, <2>3, <2>4, <2>5
<1>7. ASSUME NEW w \in Transfers, Wake(w) PROVE WindowInv'
  <2>1. /\ Becomes(w, Cell("global", call[w].want, 0, 0))
        /\ Carried[w] = 0 /\ UNCHANGED <<global, debt>>
    BY <1>7 DEF Wake, At, Carried
  <2> QED
    BY <1>1, <1>a, <2>1
\* Where nothing is owed, there is what the bucket holds and what is carried.
<1>b. ASSUME WantInv', Level(global)' \in Nat, Full(global'.rate) \in Nat,
             global'.rate > 0 => Level(global)' <= Full(global'.rate), debt' = 0
      PROVE  WindowInv'
  <2>1. ASSUME NEW most \in Wants, global'.rate > 0
        PROVE  Outstanding(most)' <= Full(global'.rate) + InHands(most)
    <3>1. most \in Nat
      BY RateAssumption
    <3> DEFINE m == Cardinality(Bytes(Carried', most)) * Ticks
    <3>2. m \in Nat /\ m <= InHands(most) /\ InHands(most) \in Nat
      BY <3>1, BytesBound
    <3>3. Outstanding(most)' = debt' + Level(global)' + m
      BY DEF Outstanding
    <3> HIDE DEF m
    <3> QED
      BY <1>b, <2>1, <3>2, <3>3
  <2>2. \A most : InHands(most)' = InHands(most)
    BY DEF InHands
  <2> QED
    BY <1>b, <2>1, <2>2 DEF WindowInv, Full
<1>8. ASSUME NEW r \in Rates, SetGlobal(r) PROVE WindowInv'
  <2>1. /\ global'.rate = r
        /\ Level(global)' = IF r = 0 THEN Level(global) ELSE Least(Level(global), Full(r))
    BY <1>0, <1>8, SetRateFacts, RateAssumption DEF SetGlobal, Level
  <2>2. r \in Nat /\ Full(r) \in Nat
    BY RateAssumption, Products, TicksPositive DEF Full
  <2>3. Level(global)' \in Nat /\ (r > 0 => Level(global)' <= Full(r))
    BY <1>0, <2>1, <2>2 DEF Least
  <2>4. debt' = 0 /\ WantInv'
    BY <1>8 DEF SetGlobal, WindowInv, WantInv
  <2> QED
    BY <1>b, <2>1, <2>2, <2>3, <2>4
<1>9. ASSUME Tick PROVE WindowInv'
  <2>1. /\ global'.rate = global.rate
        /\ Level(global)' = IF global.rate = 0 THEN Level(global)
                            ELSE Least(Level(global) + global.rate, Full(global.rate))
    BY <1>0, <1>9, OlderFacts DEF Tick, Level
  <2>2. /\ Level(global)' \in Nat /\ Full(global'.rate) \in Nat
        /\ global.rate > 0 => /\ Level(global)' <= Full(global.rate)
                              /\ Level(global)' <= Level(global) + global.rate
    BY <1>0, <2>1 DEF Least
  <2>3. debt' = Most(0, debt - global.rate) /\ call' = call
    BY <1>9 DEF Tick
  <2>4. WantInv' /\ Carried' = Carried
    BY <2>3 DEF WindowInv, WantInv, Carried
  <2>5. CASE debt <= global.rate
    <3>1. debt' = 0
      BY <1>0, <2>3, <2>5 DEF Most
    <3> QED
      BY <1>b, <2>1, <2>2, <2>4, <3>1
  <2>6. CASE debt > global.rate
    <3>1. debt' = debt - global.rate
      BY <1>0, <2>3, <2>6 DEF Most
    <3>2. ASSUME NEW most \in Wants, Largest(most), global.rate > 0
          PROVE  Outstanding(most)' <= Full(global.rate) + InHands(most)
      <4> DEFINE m == Cardinality(Bytes(Carried, most)) * Ticks
      <4>1. Outstanding(most) = debt + Level(global) + m
            /\ Outstanding(most)' = debt' + Level(global)' + m
        BY <2>4 DEF Outstanding, Bytes
      <4>2. m \in Nat /\ InHands(most) \in Nat
        BY BytesBound, RateAssumption
      <4>3. Outstanding(most) <= Full(global.rate) + InHands(most)
        BY <3>2 DEF WindowInv
      <4> HIDE DEF m
      <4> QED
        BY <1>0, <2>2, <3>1, <3>2, <4>1, <4>2, <4>3
    <3>3. \A most : InHands(most)' = InHands(most) /\ Largest(most)' = Largest(most)
      BY DEF InHands, Largest
    <3> QED
      BY <2>1, <2>4, <3>2, <3>3 DEF WindowInv
  <2> QED
    BY <1>0, <2>5, <2>6
<1>10. ASSUME UNCHANGED vars PROVE WindowInv'
  BY <1>10 DEF vars, WindowInv, WantInv, Outstanding, Carried, Largest, InHands, Level, Refill
<1> QED
  BY <1>3, <1>4, <1>5, <1>6, <1>7, <1>8, <1>9, <1>10 DEF Next, Step

LEMMA WindowInvInit == Init => WindowInv
<1> SUFFICES ASSUME Init PROVE WindowInv
  OBVIOUS
<1>1. WantInv /\ debt = 0
  BY DEF Init, WantInv, Idle, Cell
<1>2. RateInv
  BY RateInvInit
<1>3. Level(global) \in Nat /\ (global.rate > 0 => Level(global) <= Full(global.rate))
      /\ Full(global.rate) \in Nat
  BY <1>2, InvParts, RefillFacts, RateAssumption, Products, TicksPositive DEF Full
<1>4. ASSUME NEW most \in Wants, global.rate > 0
      PROVE  Outstanding(most) <= Full(global.rate) + InHands(most)
  <2> DEFINE m == Cardinality(Bytes(Carried, most)) * Ticks
  <2>1. m \in Nat /\ m <= InHands(most) /\ InHands(most) \in Nat
    BY BytesBound, RateAssumption
  <2>2. Outstanding(most) = debt + Level(global) + m
    BY DEF Outstanding
  <2> HIDE DEF m
  <2> QED
    BY <1>1, <1>3, <1>4, <2>1, <2>2
<1> QED
  BY <1>1, <1>4 DEF WindowInv

LEMMA WindowBounds == RateInv /\ WindowInv => AnyWindow
<1> SUFFICES ASSUME RateInv, WindowInv, global.rate > 0, NEW most \in Wants,
                    \A n \in Wants : n <= most
             PROVE  debt <= Full(global.rate) + Cardinality(Transfers) * most * Ticks
  BY DEF AnyWindow
<1> DEFINE m == Cardinality(Bytes(Carried, most)) * Ticks
<1>1. m \in Nat /\ InHands(most) \in Nat
  BY BytesBound, RateAssumption
<1>2. debt + Level(global) + m <= Full(global.rate) + InHands(most)
  BY DEF WindowInv, Largest, Outstanding
<1>3. debt \in Nat /\ Level(global) \in Nat /\ Full(global.rate) \in Nat
  BY InvParts, RefillFacts, RateAssumption, Products, TicksPositive DEF Full
<1> HIDE DEF m
<1> QED
  BY <1>1, <1>2, <1>3 DEF InHands

\* Whatever transfers do between their critical sections, and whenever the clock
\* ticks, what was passed on since the rate was set is within the rate, a second's
\* burst and one block for each transfer: rate.rs:1 asks for no more than the rate.
THEOREM EveryWindowBounded == Spec => []AnyWindow
BY WindowInvInit, WindowInvStep, WindowBounds, RateInvHolds, PTL DEF Spec
=============================================================================
