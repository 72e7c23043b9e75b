----------------------------- MODULE VfsDurable -----------------------------
(***************************************************************************)
(* What the index file promises: a durable image that a persist replaces   *)
(* by a newer one, in two steps.  Between them, and after a persist that   *)
(* failed, a crash may leave either.  The persist protocol of VfsPersist   *)
(* implements it; VfsStore is built on it.                                 *)
(***************************************************************************)
EXTENDS Naturals

CONSTANT FirstImage   (* the image of a store that was just created *)

VARIABLES
    up,         (* a process has the store open                            *)
    disk,       (* the durable image: a record with a generation "gen"     *)
    pending     (* the images whose persist has begun since                *)

DurableInit == up = TRUE /\ disk = FirstImage /\ pending = {}

\* A persist begins: the watermark refuses an image older than the durable one.
Begin(img) ==
    /\ up /\ img.gen >= disk.gen
    /\ pending' = pending \cup {img}
    /\ UNCHANGED <<up, disk>>

\* It succeeds.
Complete(img) ==
    /\ up /\ img \in pending
    /\ disk' = img /\ pending' = {}
    /\ UNCHANGED up

\* The process or the machine stops; the next open finds one of the images.
Stop == up /\ up' = FALSE /\ UNCHANGED <<disk, pending>>

Recover(img) ==
    /\ ~up /\ img \in {disk} \cup pending
    /\ up' = TRUE /\ disk' = img /\ pending' = {}

DurableNext ==
    \/ \E img \in pending' : Begin(img)
    \/ \E img \in pending : Complete(img)
    \/ Stop
    \/ Recover(disk')

DurableSpec == DurableInit /\ [][DurableNext]_<<up, disk, pending>>
=============================================================================
