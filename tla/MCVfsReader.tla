---------------------------- MODULE MCVfsReader ----------------------------
(* An instance of VfsReader for TLC. *)
EXTENDS VfsReader

CONSTANT a

MCWord == 1024
MCFirstImage == [gen |-> 1, logical |-> 0, entries |-> {}]
=============================================================================
