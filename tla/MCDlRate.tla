------------------------------ MODULE MCDlRate ------------------------------
(* Instances of DlRate for TLC. *)
EXTENDS DlRate

CONSTANTS t1, t2

\* One task has a limit of its own.
OneLimited == [w \in Transfers |-> IF w = t1 THEN 1 ELSE 0]
=============================================================================
