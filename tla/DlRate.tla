------------------------------- MODULE DlRate -------------------------------
(***************************************************************************)
(* The speed limiter (dlmgr/rate.rs): one bucket for all transfers and one *)
(* for each task that has a limit of its own, the acquire of the write     *)
(* callbacks, which takes from the first, aligns with the second and gives *)
(* the difference back in a critical section each, and a host that changes *)
(* the global rate at any time.                                            *)
(*                                                                         *)
(* Tokens are exact here, counted as in DlBucket.  A bucket keeps the time *)
(* since its last refill, up to the second after which it is full anyhow.  *)
(***************************************************************************)
EXTENDS Integers, FiniteSets

CONSTANTS
    Transfers,    (* the threads that are in a write callback              *)
    Ticks,        (* of the clock in a second                              *)
    Rates,        (* what set_global may be given; 0 is no limit           *)
    TaskRate,     (* task_bps of each transfer's task, 0 for no bucket     *)
    Wants         (* the sizes of the blocks curl hands over               *)

ASSUME RateAssumption ==
    /\ IsFiniteSet(Transfers)
    /\ Ticks \in Nat \ {0} /\ Rates \subseteq Nat
    /\ TaskRate \in [Transfers -> Nat]
    /\ Wants \subseteq Nat \ {0}

VARIABLES
    global,       (* SpeedLimiter.global                                   *)
    bucket,       (* the bucket of each task                               *)
    call,         (* each transfer's acquire: where it is, what it wants,  *)
                  (* what it took of the global bucket and of its own      *)
    debt          (* history: what was passed on and not yet paid by time  *)

vars == <<global, bucket, call, debt>>

Least(m, n) == IF m <= n THEN m ELSE n
Most(m, n)  == IF m >= n THEN m ELSE n
Full(r)     == r * Ticks

Bucket == [rate : Nat, tokens : Nat, age : 0..Ticks]
New(r) == [rate |-> r, tokens |-> Full(r), age |-> 0]

Cell(at, want, took, got) == [at |-> at, want |-> want, took |-> took, got |-> got]
Idle == Cell("idle", 0, 0, 0)

TypeOK ==
    /\ global \in Bucket /\ global.rate \in Rates
    /\ bucket \in [Transfers -> Bucket]
    /\ \A w \in Transfers : bucket[w].rate = TaskRate[w]
    /\ call \in [Transfers -> [at : {"idle", "global", "task", "back", "sleep"},
                               want : Nat, took : Nat, got : Nat]]
    /\ debt \in Nat

Init ==
    /\ \E r \in Rates : global = New(r)
    /\ bucket = [w \in Transfers |-> New(TaskRate[w])]
    /\ call = [w \in Transfers |-> Idle]
    /\ debt = 0

-----------------------------------------------------------------------------
(***************************************************************************)
(* TokenBucket, each operation one critical section of the bucket's lock.  *)
(***************************************************************************)

\* Mutant: only whole bytes are added, and the time of the rest is lost.
RefillWhole(b) ==
    IF b.rate = 0 THEN [b EXCEPT !.age = 0]
    ELSE [b EXCEPT !.tokens = Least(Ticks * ((@ + b.rate * b.age) \div Ticks), Full(b.rate)),
                   !.age = 0]

\* refill: nothing accrues while there is no limit.
Refill(b) ==
    IF b.rate = 0 THEN [b EXCEPT !.age = 0]
    ELSE [b EXCEPT !.tokens = Least(@ + b.rate * b.age, Full(b.rate)), !.age = 0]

\* Mutant: less than a byte is rounded up.
SpareUp(b, want) ==
    IF b.rate = 0 THEN want ELSE Least((Refill(b).tokens + Ticks - 1) \div Ticks, want)

\* The whole bytes a bucket can spare.
Spare(b, want) == IF b.rate = 0 THEN want ELSE Least(Refill(b).tokens \div Ticks, want)

\* try_take: a want of 0 does not even look at the bucket.
TryTake(b, want) ==
    IF want = 0 THEN b
    ELSE [Refill(b) EXCEPT !.tokens = IF b.rate = 0 THEN @ ELSE @ - Spare(b, want) * Ticks]

GiveBack(b, n) ==
    [Refill(b) EXCEPT !.tokens = IF b.rate = 0 THEN @ ELSE Least(@ + n * Ticks, Full(b.rate))]

\* Mutant: tokens saved up under a higher rate are kept.
SetRateKeeps(b, r) == [Refill(b) EXCEPT !.rate = r]

SetRate(b, r) ==
    [Refill(b) EXCEPT !.rate = r, !.tokens = IF r = 0 THEN @ ELSE Least(@, Full(r))]

-----------------------------------------------------------------------------
(***************************************************************************)
(* SpeedLimiter::acquire.                                                  *)
(***************************************************************************)
At(w, step)      == call[w].at = step
Becomes(w, cell) == call' = [call EXCEPT ![w] = cell]

\* What acquire returns is written to the sink; nothing means sleep and retry.
Return(w, got) ==
    /\ Becomes(w, IF got > 0 THEN Idle ELSE Cell("sleep", call[w].want, 0, 0))
    /\ debt' = IF global.rate = 0 THEN 0 ELSE debt + got * Ticks

Acquire(w) ==
    /\ At(w, "idle")
    /\ \E n \in Wants : Becomes(w, Cell("global", n, 0, 0))
    /\ UNCHANGED <<global, bucket, debt>>

TakeGlobal(w) ==
    /\ At(w, "global")
    /\ LET n == Spare(global, call[w].want) IN
       /\ global' = TryTake(global, call[w].want)
       /\ IF TaskRate[w] = 0
            THEN Return(w, n)
            ELSE Becomes(w, Cell("task", call[w].want, n, 0)) /\ UNCHANGED debt
    /\ UNCHANGED bucket

TakeTask(w) ==
    /\ At(w, "task")
    /\ LET n == Spare(bucket[w], call[w].took) IN
       /\ bucket' = [bucket EXCEPT ![w] = TryTake(@, call[w].took)]
       /\ IF n < call[w].took
            THEN Becomes(w, Cell("back", call[w].want, call[w].took, n)) /\ UNCHANGED debt
            ELSE Return(w, n)
    /\ UNCHANGED global

\* Mutant: everything that was taken is given back.
AlignAll(w) ==
    /\ At(w, "back")
    /\ global' = GiveBack(global, call[w].took)
    /\ Return(w, call[w].got)
    /\ UNCHANGED bucket

Align(w) ==
    /\ At(w, "back")
    /\ global' = GiveBack(global, call[w].took - call[w].got)
    /\ Return(w, call[w].got)
    /\ UNCHANGED bucket

Wake(w) ==
    /\ At(w, "sleep")
    /\ Becomes(w, Cell("global", call[w].want, 0, 0))
    /\ UNCHANGED <<global, bucket, debt>>

\* dlmgr_set_global_speed.
SetGlobal(r) ==
    /\ global' = SetRate(global, r)
    /\ debt' = 0
    /\ UNCHANGED <<bucket, call>>

Older(b) == [b EXCEPT !.age = Least(@ + 1, Ticks)]

Tick ==
    /\ global' = Older(global)
    /\ bucket' = [w \in Transfers |-> Older(bucket[w])]
    /\ debt' = Most(0, debt - global.rate)
    /\ UNCHANGED call

Step(w) == TakeGlobal(w) \/ TakeTask(w) \/ Align(w) \/ Wake(w)

Next ==
    \/ \E w \in Transfers : Acquire(w) \/ Step(w)
    \/ \E r \in Rates : SetGlobal(r)
    \/ Tick

Spec == Init /\ [][Next]_vars

\* A transfer inside acquire goes on, and time passes.
FairSpec == Spec /\ WF_vars(Tick) /\ \A w \in Transfers : WF_vars(Step(w))

-----------------------------------------------------------------------------
(***************************************************************************)
(* Properties.                                                             *)
(***************************************************************************)
\* What a bucket holds now, if it were refilled.
Level(b) == Refill(b).tokens

\* What a call took of the global bucket and neither passed on nor gave back yet.
Carried == [w \in Transfers |-> IF call[w].at \in {"task", "back"} THEN call[w].took ELSE 0]

\* The lazily refilled bucket is the bucket of DlBucket, and acquire settles what it
\* took between two critical sections to the byte: whenever a transfer takes, aligns
\* or is overtaken by set_rate, it gives back what it took and does not pass on, and
\* no more (rate.rs:66, "gives back what was taken in excess").
Ideal == INSTANCE DlBucket WITH Holders <- Transfers, rate <- global.rate,
                                level <- Level(global), held <- Carried, spent <- debt
ImplementsBucket == Ideal!Spec

\* Where a bucket is when its rate limits it, and what a call has in hand.
RateInv ==
    /\ TypeOK
    /\ \A b \in {global} \cup {bucket[w] : w \in Transfers} :
           b.rate > 0 => b.tokens <= Full(b.rate)
    /\ \A w \in Transfers :
           /\ call[w].got <= call[w].took /\ call[w].took <= call[w].want
           /\ call[w].at # "back" => call[w].got = 0

\* Over any stretch of time since the rate was set, the transfers together pass on
\* no more than the rate allows, one second's burst and the block each of them had
\* in hand (rate.rs:1 "the actual speed is the smaller of the two").
AnyWindow ==
    global.rate > 0 =>
        \A most \in Wants : (\A n \in Wants : n <= most) =>
            debt <= Full(global.rate) + Cardinality(Transfers) * most * Ticks

\* A transfer is not held up for good while no other gets anything either: once the
\* host leaves the rate alone, acquire returns, or others have theirs return again
\* and again.  (That its own wait is bounded by want/rate, as rate.rs:93 says, holds
\* for a transfer that is alone only.)
Returns(w) == ~At(w, "idle") /\ call'[w].at = "idle"
AcquireReturns ==
    <>[][global'.rate = global.rate]_vars =>
        \A w \in Transfers :
            []<>At(w, "idle") \/ \E v \in Transfers \ {w} : []<><<Returns(v)>>_vars
=============================================================================
