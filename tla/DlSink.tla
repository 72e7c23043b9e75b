------------------------------- MODULE DlSink -------------------------------
(***************************************************************************)
(* The task of DlTask with the sink it writes to: a FileSink, or a writer  *)
(* of the vfs behind the glue (dlmgr/sink.rs, glue.rs, the VfsWriter of    *)
(* vfs/mod.rs).  Every step of the worker is the step of DlTask with what  *)
(* the calls on the sink's vtable do.                                      *)
(*                                                                         *)
(* A crc is the sequence of the chunks it was computed over.  For a vfs    *)
(* sink, "file" is the region that alloc reserved.                         *)
(***************************************************************************)
EXTENDS DlTask, Sequences

CONSTANT Kinds        (* of sinks: "vfs", "file"                           *)

ASSUME KindsAssumption == Kinds \subseteq {"vfs", "file"}

VARIABLES
    kind,         (* what the task's handle was registered for             *)
    registered,   (* the handle is in the registry                         *)
    writer,       (* VfsSinkCtx.writer                                     *)
    entry         (* the index entry of the file's name: nobody's, that of *)
                  (* somebody else, or the one of this writer              *)

sinkVars == <<kind, registered, writer, entry>>
all      == <<vars, sinkVars>>

NoWriter == [held |-> FALSE, written |-> 0, dirty |-> FALSE, crc |-> <<>>]
NoEntry  == [state |-> "none", crc |-> <<>>]

SinkInit ==
    /\ Init
    /\ kind \in Kinds /\ registered \in BOOLEAN
    /\ writer = NoWriter
    /\ entry = NoEntry

\* The crc that reading back the first n chunks gives.
ReadBack(n) == [i \in 1 .. n |-> file[i - 1]]

-----------------------------------------------------------------------------
(***************************************************************************)
(* The vtable.  What a FileSink does to its file is in DlTask already; the *)
(* region of a vfs sink is changed by writes alone: its reset does nothing.*)
(***************************************************************************)
Vfs == kind = "vfs"

Quiet == UNCHANGED <<writer, entry>> /\ (Vfs => UNCHANGED file)

\* prepare of a vfs sink is alloc, which refuses a name that is taken.
Prepare ==
    IF Vfs
      THEN /\ entry.state = "none"
           /\ entry' = [NoEntry EXCEPT !.state = "downloading"]
           /\ writer' = [NoWriter EXCEPT !.held = TRUE]
      ELSE UNCHANGED <<writer, entry>>

\* Mutant: the entry goes by its name, whoever's it is.
DropWriterByName ==
    /\ writer' = NoWriter
    /\ entry' = IF Vfs /\ entry.state # "active" THEN NoEntry ELSE entry
    /\ Vfs => UNCHANGED file

\* abort, or a writer dropped unfinished: its entry goes. Without a writer, nothing.
DropWriter ==
    /\ writer' = NoWriter
    /\ entry' = IF writer.held THEN NoEntry ELSE entry
    /\ Vfs => UNCHANGED file

\* Mutant: a rewrite goes on with the incremental crc.
WriteAtClean(v, stored) ==
    writer' = IF stored THEN [writer EXCEPT !.written = IF @ < off + 1 THEN off + 1 ELSE @,
                                            !.crc = Append(@, v)]
              ELSE writer

\* write_at of a chunk: a step back gives the incremental crc up; a failed write
\* leaves the rest as it was.
WriteAt(v, stored) ==
    LET dirty == writer.dirty \/ off < writer.written IN
    writer' = [writer EXCEPT
        !.dirty   = dirty,
        !.crc     = IF stored /\ ~dirty THEN Append(@, v) ELSE @,
        !.written = IF stored /\ @ < off + 1 THEN off + 1 ELSE @]

\* A jump is refused before anything is written.
Refused == ~writer.held \/ off > writer.written

\* The crc that commit records.
Seal == IF writer.dirty THEN ReadBack(job.size) ELSE writer.crc

Commit ==
    /\ writer.held /\ writer.written = job.size
    /\ entry' = [state |-> "active", crc |-> Seal]
    /\ writer' = NoWriter
    /\ UNCHANGED file

\* finish fails: not everything was written, or it cannot be read back; the writer
\* is dropped. A sync of a plain file may fail at any time.
FinishFails ==
    /\ Vfs => writer.dirty \/ ~writer.held \/ writer.written # job.size
    /\ DropWriter

-----------------------------------------------------------------------------
(***************************************************************************)
(* The worker's steps.                                                     *)
(***************************************************************************)
SinkBegin ==
    /\ Begin
    /\ \/ sink' = "Open" /\ registered /\ Prepare
       \/ sink' = "Aborted" /\ registered /\ DropWriter
       \/ sink' = "Closed" /\ ~registered /\ Quiet

\* An empty file is finished without a write, or aborted if it has a crc.
SinkEmpty ==
    /\ Empty
    /\ \/ sink' = "Finished" /\ IF Vfs THEN Commit ELSE Quiet
       \/ sink' = "Aborted" /\ (job.sound => FinishFails) /\ DropWriter

SinkReceive ==
    /\ Receive
    /\ IF ~Vfs THEN UNCHANGED <<writer, entry>>
       ELSE /\ UNCHANGED entry
            /\ IF Refused
                 THEN conn'.io /\ UNCHANGED <<writer, file>>
                 ELSE WriteAt(file'[off], ~conn'.io)

SinkGiveUpCanceled == GiveUpCanceled /\ DropWriter

SinkPerformEnds ==
    /\ PerformEnds
    /\ IF sink' = "Aborted" THEN DropWriter ELSE Quiet

SinkBackoffEnds == BackoffEnds /\ Quiet

SinkFinish ==
    /\ Finish
    /\ CASE sink' # "Finished" -> FinishFails
         [] sink' = "Finished" /\ Vfs -> Commit
         [] OTHER -> Quiet

SinkWork ==
    /\ UNCHANGED <<kind, registered>>
    /\ \/ (Take \/ Connect \/ Reject \/ End) /\ UNCHANGED <<writer, entry>>
       \/ SinkBegin \/ SinkEmpty \/ SinkReceive \/ SinkGiveUpCanceled
       \/ SinkPerformEnds \/ SinkBackoffEnds \/ SinkFinish

\* dlmgr_sink_release, which the host calls when the task has ended; the context is
\* freed, and a writer it still has.
Release ==
    /\ registered /\ state \in Life!Ended
    /\ registered' = FALSE
    /\ DropWriter
    /\ UNCHANGED <<vars, kind>>

\* Somebody else downloads a file of the same name, and deletes it.
OtherTakes ==
    /\ Vfs /\ entry.state = "none"
    /\ entry' = [NoEntry EXCEPT !.state = "other"]
    /\ UNCHANGED <<vars, kind, registered, writer>>

OtherLeaves ==
    /\ entry.state = "other"
    /\ entry' = NoEntry
    /\ UNCHANGED <<vars, kind, registered, writer>>

SinkCancel == Cancel /\ UNCHANGED sinkVars

SinkNext == SinkWork \/ SinkCancel \/ Release \/ OtherTakes \/ OtherLeaves

SinkSpec == SinkInit /\ [][SinkNext]_all /\ WF_all(SinkWork)

-----------------------------------------------------------------------------
\* A committed entry's crc is the crc of what its region holds, although retries
\* and fallbacks write the region again from its start, over what an attempt left
\* there, and the reset of the glue does nothing (glue.rs:52, mod.rs:630): a crc
\* that is not given up is that of every chunk written, and no attempt ever writes
\* past the end of what an earlier one wrote.
EntryVerifies ==
    /\ entry.state = "active" => entry.crc = ReadBack(job.size)
    /\ writer.held =>
          /\ off <= writer.written
          /\ writer.dirty \/ writer.crc = ReadBack(writer.written)

\* However a task ends, and whoever wants its name by then, nothing of it is left
\* but the file of a task that is Done: no writer that would refuse compactions,
\* no half file, no entry of somebody else lost (sink.rs:3, mod.rs:701).
SinkClean ==
    [][ /\ writer'.held <=> entry'.state = "downloading"
        /\ Vfs /\ pc' = "over" => (entry'.state = "active" <=> state' = "Done")
        /\ entry.state = "other" => entry' = entry \/ UNCHANGED <<vars, registered>> ]_all
=============================================================================
