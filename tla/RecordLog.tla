------------------------------ MODULE RecordLog ------------------------------
(***************************************************************************)
(* The append-only record log of persist_log.rs: frames that carry their   *)
(* length and hash, `append_frame` with its cut-back-and-retry rule, and   *)
(* `replay` with the truncation of the torn tail at boot.  The writer      *)
(* thread and the boot are the shell's; the codec's documentation states   *)
(* what they do.                                                           *)
(*                                                                         *)
(* A frame is the batch it encodes and whether all of it reached the file: *)
(* a frame with missing or foreign bytes fails its hash.                   *)
(***************************************************************************)
EXTENDS Option, Integers, Sequences

CONSTANTS
    MaxBatches,    \* bound: batches ever handed to the writer
    MaxLogFaults   \* bound: failed writes, failed cuts and crashes

\* An append: the batch, the length of the log before it, the attempt, and
\* whether that attempt failed.
Appends == [batch : Nat, prev : Nat, try : 1 .. 2, torn : BOOLEAN]

ASSUME LogAssumption == MaxBatches \in Nat /\ MaxLogFaults \in Nat /\ None \notin Appends

VARIABLES
    records,     \* the frames of records.log
    writing,     \* the append in progress, or None
    broken,      \* the writer was told to treat storage as failed
    taken,       \* batches taken from the core so far
    ackedFrames, \* batches whose append returned Ok
    logFaults

logVars == <<records, writing, broken, taken, ackedFrames, logFaults>>

LogInit ==
    /\ records = <<>> /\ writing = None /\ broken = FALSE
    /\ taken = 0 /\ ackedFrames = {} /\ logFaults = 0

LogFault == logFaults < MaxLogFaults /\ logFaults' = logFaults + 1

\* replay: the frames before the first one that is short or fails its hash.
ValidFrames(frames) ==
    CHOOSE n \in 0 .. Len(frames) :
        /\ \A i \in 1 .. n : frames[i].whole
        /\ n < Len(frames) => ~ frames[n + 1].whole

Replayed(frames) == {frames[i].batch : i \in 1 .. ValidFrames(frames)}

\* append_frame notes the length of the log and writes the frame.
TakeBatch ==
    /\ writing = None /\ ~ broken /\ taken < MaxBatches
    /\ taken' = taken + 1
    /\ writing' = [batch |-> taken + 1, prev |-> Len(records), try |-> 1, torn |-> FALSE]
    /\ UNCHANGED <<records, broken, ackedFrames, logFaults>>

AppendSynced ==
    /\ writing # None /\ ~ writing.torn
    /\ records' = Append(records, [batch |-> writing.batch, whole |-> TRUE])
    /\ ackedFrames' = ackedFrames \cup {writing.batch}
    /\ writing' = None
    /\ UNCHANGED <<broken, taken, logFaults>>

\* What a write that fails or is interrupted leaves behind: nothing, part of
\* the frame, or all of it without the sync.
LeftBehind(batch) ==
    {<<>>} \cup {<<[batch |-> batch, whole |-> w]>> : w \in BOOLEAN}

AppendFails ==
    /\ writing # None /\ ~ writing.torn
    /\ LogFault
    /\ \E rest \in LeftBehind(writing.batch) : records' = records \o rest
    /\ writing' = [writing EXCEPT !.torn = TRUE]
    /\ UNCHANGED <<broken, taken, ackedFrames>>

\* Faulty variant of CutBack: the failed write is retried where it stopped.
CutBackNothing ==
    /\ writing # None /\ writing.torn
    /\ UNCHANGED records
    /\ writing' = IF writing.try = 1 THEN [writing EXCEPT !.try = 2, !.torn = FALSE] ELSE None
    /\ broken' = (writing.try = 2)
    /\ UNCHANGED <<taken, ackedFrames, logFaults>>

\* The log is cut back to its length before the frame: after the first failure
\* the frame is retried, after the second the error is returned.
CutBack ==
    /\ writing # None /\ writing.torn
    /\ records' = SubSeq(records, 1, writing.prev)
    /\ writing' = IF writing.try = 1 THEN [writing EXCEPT !.try = 2, !.torn = FALSE] ELSE None
    /\ broken' = (writing.try = 2)
    /\ UNCHANGED <<taken, ackedFrames, logFaults>>

\* The cut fails too: the error is returned and nothing more is written.
CutFails ==
    /\ writing # None /\ writing.torn
    /\ LogFault
    /\ writing' = None /\ broken' = TRUE
    /\ UNCHANGED <<records, taken, ackedFrames>>

\* The process stops, perhaps in the middle of a write; the next boot replays
\* the log and cuts the torn tail off.
CrashAndBoot ==
    /\ LogFault
    /\ \E rest \in IF writing = None \/ writing.torn THEN {<<>>} ELSE LeftBehind(writing.batch) :
        LET found == records \o rest
        IN  records' = SubSeq(found, 1, ValidFrames(found))
    /\ writing' = None /\ broken' = FALSE
    /\ UNCHANGED <<taken, ackedFrames>>

LogNext ==
    \/ TakeBatch \/ AppendSynced \/ AppendFails \/ CutBack \/ CutFails \/ CrashAndBoot

LogSpec == LogInit /\ [][LogNext]_logVars

----------------------------------------------------------------------------
\* Shapes of the log and of the append in progress.
LogTypeOK ==
    /\ records \in Seq([batch : 1 .. MaxBatches, whole : BOOLEAN])
    /\ writing # None => writing \in Appends /\ writing.prev <= Len(records)
    /\ ackedFrames \subseteq 1 .. taken

\* A batch whose append returned is never lost: whatever writes, cuts and
\* crashes follow, a boot at any moment replays it, and replays no batch out of
\* order or twice.
AckedFramesAreReplayed ==
    /\ ackedFrames \subseteq Replayed(records)
    /\ \A i \in 1 .. ValidFrames(records) - 1 : records[i].batch < records[i + 1].batch
=============================================================================
