------------------------------ MODULE DlBucket ------------------------------
(***************************************************************************)
(* What a token bucket promises (dlmgr/rate.rs:11, "capacity one second's  *)
(* quota, refilled linearly with the time that passes"): a level that      *)
(* rises by the rate with every tick of the clock up to one second's worth *)
(* and that nothing is ever drawn from below zero, and tokens that are     *)
(* nowhere twice: what a holder drew is in its hand until it is passed on  *)
(* or given back, byte by byte.  Levels are counted in the part of a byte  *)
(* that a rate of one byte a second yields in a tick.                      *)
(***************************************************************************)
EXTENDS Integers

CONSTANTS
    Holders,      (* who draws                                             *)
    Wants,        (* how many bytes one may ask for                        *)
    Ticks,        (* of the clock in a second                              *)
    Rates         (* in bytes a second; 0 is no limit                      *)

VARIABLES
    rate, level,
    held,         (* the bytes each holder drew and did not settle yet     *)
    spent         (* what was passed on and not yet paid by time           *)

Least(m, n) == IF m <= n THEN m ELSE n
Most(m, n)  == IF m >= n THEN m ELSE n

\* The most a bucket holds: one second's quota.
Full(r) == r * Ticks

Init ==
    /\ rate \in Rates /\ level = Full(rate)
    /\ held = [h \in Holders |-> 0]
    /\ spent = 0

Flow ==
    /\ level' = IF rate = 0 THEN level ELSE Least(level + rate, Full(rate))
    /\ spent' = Most(0, spent - rate)
    /\ UNCHANGED <<rate, held>>

\* All that is asked for where there is no limit, else whole bytes that are there.
Grants == IF rate = 0 THEN Wants ELSE {n \in 0..level : n * Ticks <= level}

Lower(n) == level' = IF rate = 0 THEN level ELSE level - n * Ticks
Pass(n)  == spent' = IF rate = 0 THEN 0 ELSE spent + n * Ticks

\* The bytes stay in the holder's hand.
Draw(h) ==
    /\ held[h] = 0
    /\ \E n \in Grants : Lower(n) /\ held' = [held EXCEPT ![h] = n]
    /\ UNCHANGED <<rate, spent>>

\* The bytes are passed on at once.
Spend ==
    /\ \E n \in Grants : Lower(n) /\ Pass(n)
    /\ UNCHANGED <<rate, held>>

\* Of what it has in hand, a holder passes some on and gives just the rest back.
Settle(h) ==
    /\ \E n \in 0..held[h] :
           /\ Pass(n)
           /\ level' = IF rate = 0 THEN level
                       ELSE Least(level + (held[h] - n) * Ticks, Full(rate))
    /\ held' = [held EXCEPT ![h] = 0]
    /\ UNCHANGED rate

SetRate ==
    /\ rate' \in Rates
    /\ level' = IF rate' = 0 THEN level ELSE Least(level, Full(rate'))
    /\ spent' = 0
    /\ UNCHANGED held

Next == Flow \/ Spend \/ SetRate \/ \E h \in Holders : Draw(h) \/ Settle(h)

Spec == Init /\ [][Next]_<<rate, level, held, spent>>
=============================================================================
