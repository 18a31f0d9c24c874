----------------------------- MODULE FileStore -----------------------------
(* The default store, src/llmtivo/store.py, for one cassette: a file of     *)
(* appended zstd frames and the temporary file of a compaction, at the      *)
(* granularity of system calls.  One operation runs at a time, as the       *)
(* recorder uses it (Recorder.tla models where it does not); any of them    *)
(* may fail half-way or die with the process, and the files stay.           *)
(*                                                                          *)
(* A file is the sequence of the lines in it; how lines are grouped in      *)
(* frames is left out.  A frame of which only a part was written is Torn.   *)
(* Of a line longer than a zstd block (128 KiB) the decoder may get the     *)
(* beginning out of such a frame: a Piece, which is no line.                *)
EXTENDS Positions, Sequences

CONSTANTS Lines,       \* the interactions, serialised
          Absent,      \* a file that does not exist
          Torn,        \* a frame of which only a part was written
          Piece,       \* the beginning of a line
          MaxFrames,   \* length of the file at which no append begins
          MaxFaults    \* failures and deaths

Content == Seq(Lines \cup {Piece, Torn})

ASSUME ContentAssumption ==
    /\ Torn \notin Lines /\ Piece \notin Lines /\ Torn # Piece
    /\ Absent \notin Content /\ Torn # Absent

ASSUME FaultsAssumption == MaxFrames \in Nat /\ MaxFaults \in Nat

VARIABLES file,    \* <name>.jsonl.zst
          jammed,  \* the decoder refuses what is behind the first torn frame
          tmp,     \* <name>.jsonl.tmp
          job,     \* the operation under way
          given,   \* history: the lines written whole ahead of any torn frame
         faults

vars == <<file, jammed, tmp, job, given, faults>>

Steps == {"idle", "opened", "written", "gathered", "staged"}

Decoded == Seq(Lines \cup {Piece})

NoJob == [step |-> "idle", lines |-> <<>>]

TypeOK ==
    /\ file \in Content \cup {Absent}
    /\ jammed \in BOOLEAN
    /\ tmp \in Decoded \cup {Absent, Torn}
    /\ job \in [step : Steps, lines : Decoded]
    /\ given \in Seq(Lines)
    /\ faults \in Nat

Init ==
    /\ file = Absent /\ jammed = FALSE /\ tmp = Absent
    /\ job = NoJob
    /\ given = <<>> /\ faults = 0

-----------------------------------------------------------------------------
(* Reading: the frames are decoded as one stream, and what follows a torn    *)
(* frame is taken for the rest of it.  As long as that rest is too short, or *)
(* missing, stream_reader returns what was in front, without an error.       *)

TornAt(f) == {i \in DOMAIN f : f[i] = Torn}
StopsAt(f) == {i \in DOMAIN f : f[i] \notin Lines}

Before(f, stops) == IF stops = {} THEN f ELSE SubSeq(f, 1, First(stops) - 1)

\* What read_lines returns, unless the decoder is jammed.
ReadLinesWithTail(f) == IF f = Absent THEN <<>> ELSE f
ReadLines(f) == IF f = Absent THEN <<>> ELSE Before(f, TornAt(f))

\* The lines at the front of a file.
LinesOf(f) == IF f = Absent THEN <<>> ELSE Before(f, StopsAt(f))

\* damaged: reading raises, or returns a piece, on which loading raises;
\* cut: the last frame is torn; short: lines were appended behind a torn one.
ConditionOf(f, jam) ==
    IF f = Absent \/ StopsAt(f) = {} THEN "sound"
    ELSE IF jam \/ ReadLines(f) # LinesOf(f) THEN "damaged"
    ELSE IF TornAt(f) = {Len(f)} THEN "cut"
    ELSE "short"

Condition == ConditionOf(file, jammed)

Readable == Condition # "damaged"

-----------------------------------------------------------------------------
(* append_line *)

Fault == faults < MaxFaults /\ faults' = faults + 1

\* The line is compressed and the file opened for appending, which creates it.
AppendOpen(line) ==
    /\ job.step = "idle"
    /\ file # Absent => Len(file) < MaxFrames
    /\ file' = IF file = Absent THEN <<>> ELSE file
    /\ job' = [step |-> "opened", lines |-> <<line>>]
    /\ UNCHANGED <<jammed, tmp, given, faults>>

\* Bytes behind a torn frame may be more than the decoder puts up with.
Lengthens(more) ==
    /\ file' = file \o more
    /\ jammed' \in IF TornAt(file) = {} THEN {FALSE} ELSE {jammed, TRUE}

AppendWrite ==
    /\ job.step = "opened"
    /\ Lengthens(job.lines)
    /\ job' = [job EXCEPT !.step = "written"]
    /\ given' = IF Condition = "sound" THEN given \o job.lines ELSE given
    /\ UNCHANGED <<tmp, faults>>

\* The file is closed and the append returns: its line is acknowledged.
AppendReturn ==
    /\ job.step = "written"
    /\ job' = NoJob
    /\ UNCHANGED <<file, jammed, tmp, given, faults>>

\* The disk fills up, or the process is killed, inside the write.
AppendTears ==
    /\ job.step = "opened"
    /\ Fault
    /\ \E part \in {<<Torn>>, <<Piece, Torn>>} :
           /\ TornAt(file) # {} => part = <<Torn>>
           /\ Lengthens(part)
    /\ job' = NoJob
    /\ UNCHANGED <<tmp, given>>

-----------------------------------------------------------------------------
(* delete *)

Delete ==
    /\ job.step = "idle"
    /\ file' = Absent /\ jammed' = FALSE
    /\ given' = <<>>
    /\ UNCHANGED <<tmp, job, faults>>

-----------------------------------------------------------------------------
(* compact: nothing to do for fewer than two lines; a jammed read raises *)

CompactRead ==
    /\ job.step = "idle"
    /\ ~ jammed /\ Len(ReadLines(file)) >= 2
    /\ job' = [step |-> "gathered", lines |-> ReadLines(file)]
    /\ UNCHANGED <<file, jammed, tmp, given, faults>>

\* Plausible slips: the tape is unlinked before the temporary file takes its
\* place, or the compacted frame is written over the tape itself.
CompactStageUnlinks ==
    /\ job.step = "gathered"
    /\ tmp' = job.lines
    /\ file' = Absent
    /\ job' = [job EXCEPT !.step = "staged"]
    /\ UNCHANGED <<jammed, given, faults>>

CompactStage ==
    /\ job.step = "gathered"
    /\ tmp' = job.lines
    /\ job' = [job EXCEPT !.step = "staged"]
    /\ UNCHANGED <<file, jammed, given, faults>>

CompactTearsInPlace ==
    /\ job.step = "gathered"
    /\ Fault
    /\ file' = <<Torn>>
    /\ job' = NoJob
    /\ UNCHANGED <<jammed, tmp, given>>

\* The same faults inside the write of the temporary file, which stays behind.
CompactTears ==
    /\ job.step = "gathered"
    /\ Fault
    /\ tmp' = Torn
    /\ job' = NoJob
    /\ UNCHANGED <<file, jammed, given>>

CompactReplace ==
    /\ job.step = "staged"
    /\ file' = tmp /\ jammed' = FALSE
    /\ tmp' = Absent
    /\ job' = NoJob
    /\ UNCHANGED <<given, faults>>

\* A death, or a failure that writes nothing, between two system calls; of an
\* append whose line is written, it leaves a whole line nobody was told of.
Interrupt ==
    /\ job.step # "idle"
    /\ Fault
    /\ job' = NoJob
    /\ UNCHANGED <<file, jammed, tmp, given>>

-----------------------------------------------------------------------------

Next ==
    \/ \E line \in Lines : AppendOpen(line)
    \/ AppendWrite \/ AppendReturn \/ AppendTears
    \/ Delete
    \/ CompactRead \/ CompactStage \/ CompactTears \/ CompactReplace
    \/ Interrupt

Spec == Init /\ [][Next]_vars

-----------------------------------------------------------------------------
(* Properties *)

\* Whatever fails or dies on the way, what a readable tape returns is exactly
\* the lines written whole ahead of any torn frame, in their order, returned
\* from or not: a compaction loses none, invents none, and brings back none of
\* a torn, strayed or deleted one.
GivenIsKept == Readable => ReadLines(file) = given

\* The store keeps the contract of Tape: every system call is one step of the
\* contract or none, and compaction is never visible except as a mending.
Contract == INSTANCE Tape WITH
    tape <- IF file = Absent THEN Absent ELSE LinesOf(file),
    condition <- Condition

KeepsContract == Contract!Spec

=============================================================================
