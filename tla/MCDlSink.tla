------------------------------ MODULE MCDlSink ------------------------------
(* Instances of DlSink for TLC. *)
EXTENDS DlSink

CONSTANT MaxSize

AllJobs == [size : 0 .. MaxSize, full : BOOLEAN, sound : BOOLEAN]
=============================================================================
