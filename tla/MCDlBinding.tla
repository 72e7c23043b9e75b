---------------------------- MODULE MCDlBinding ----------------------------
(* An instance of DlBinding for TLC. *)
EXTENDS DlBinding, TLC

CONSTANTS h1, h2, m1, m2, s1, s2

Symmetry == Permutations(Hosts) \cup Permutations(Addresses) \cup Permutations(Shares)
=============================================================================
