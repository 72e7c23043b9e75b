---------------------------- MODULE MCVfsPersist ----------------------------
(* Instances of VfsPersist for TLC. *)
EXTENDS VfsPersist, TLC

CONSTANTS f1, f2

\* Bounds on <<I/O errors, crashes>>.
ErrorAndCrash   == (0..1) \X (0..1)
ErrorOrCrashes  == ErrorAndCrash \cup ({0} \X (0..3))

\* Regions of several lengths, and writes cut short in any way, go with a single crash
\* and one index change fewer; with more faults than one crash, or the last index change,
\* lengths are equal and a torn region is one that the scan gets past.
OneLength ==
    /\ mem.len = EmptyLen
    /\ \A t \in Persisters : snap[t].len = EmptyLen
    /\ \A i \in DOMAIN slots : slots[i].len = EmptyLen /\ slots[i].state # "stuck"
    /\ sb # NoGen
Manageable == (ver < MaxVer /\ <<fails, crashes>> \in {0} \X (0..1)) \/ OneLength

Symmetry == Permutations({f1, f2})
=============================================================================
