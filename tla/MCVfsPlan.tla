----------------------------- MODULE MCVfsPlan -----------------------------
(***************************************************************************)
(* Instances of VfsPlan for TLC.  A layout is built from the hole before   *)
(* each file, the span of each file and the garbage after the last one,    *)
(* so that every legal arrangement within the bounds is an initial state.  *)
(***************************************************************************)
EXTENDS VfsPlan

CONSTANTS MaxFiles, MaxHole, MaxSpan, MaxTail

MCFiles == 1..MaxFiles
MCRotten == {1, 2}
MCWord  == 1024

LayoutOf(n, hole, span, tail) ==
    LET start[f \in 0..MaxFiles] ==
            IF f = 0 THEN 0
            ELSE LET g == f - 1 IN
                 start[g] + (IF g = 0 THEN 0 ELSE span[g]) + hole[f]
    IN [live |-> 1..n,
        off |-> [f \in MCFiles |-> IF f <= n THEN start[f] ELSE 0],
        span |-> span,
        logical |-> IF n = 0 THEN tail ELSE start[n] + span[n] + tail]

\* The files beyond the n live ones have neither hole nor span.
Up(n, max) == {h \in [MCFiles -> 0..max] : \A f \in MCFiles : f > n => h[f] = 0}

MCLayouts ==
    UNION {{LayoutOf(n, hole, span, tail) :
               hole \in Up(n, MaxHole), span \in Up(n, MaxSpan), tail \in 0..MaxTail} :
               n \in 0..MaxFiles}
=============================================================================
