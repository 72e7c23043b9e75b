---------------------------- MODULE MCDlManager ----------------------------
(* Instances of DlManager for TLC. *)
EXTENDS DlManager

CONSTANTS w1, w2

\* Two calls may overlap while at most one task was enqueued before.
OverlapWhileFew == [n \in 0 .. MaxTasks |-> IF n < 2 THEN 2 ELSE 1]
=============================================================================
