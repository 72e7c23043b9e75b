----------------------------- MODULE MCVfsIndex -----------------------------
(* Instances of VfsIndex for TLC. *)
EXTENDS VfsIndex

CONSTANTS a, b, r1, r2
=============================================================================
