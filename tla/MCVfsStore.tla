----------------------------- MODULE MCVfsStore -----------------------------
(* Instances of VfsStore for TLC. *)
EXTENDS VfsStore, TLC

CONSTANTS a, b, c

MCWord == 1024
MCFirstImage == [gen |-> 1, logical |-> 0, entries |-> {}]

\* The disk spoils a block in runs without an I/O error or a crash.
RotAlone == rotten = {} \/ fails + crashes = 0

Symmetry == Permutations(Files)
=============================================================================
