-------------------------------- MODULE Tape --------------------------------
(* What a store promises of one cassette (CassetteStore, src/llmtivo/store.py): *)
(* a list of lines that only grows, until it is deleted.  The promise has one  *)
(* limit.  An append that is cut short leaves the lines readable but the tape  *)
(* cut (or, of a long line, damaged: a piece of it reads as a line).  What is  *)
(* appended to a cut tape is lost: the tape falls short of it, in silence, or  *)
(* is damaged and no longer loads.  Compacting mends a cut or short tape; a    *)
(* damaged one can only be deleted.                                            *)
EXTENDS Naturals, Sequences

CONSTANTS Lines,   \* what is appended
          Absent   \* stands for a cassette that does not exist

VARIABLES tape,      \* the lines, in recorded order, or Absent
          condition  \* sound, cut, short or damaged

tapeState == <<tape, condition>>

Init == tape = Absent /\ condition = "sound"

\* A cassette exists from the moment its first append begins.
Create ==
    /\ tape = Absent
    /\ tape' = <<>>
    /\ UNCHANGED condition

AppendLine(line) ==
    /\ tape # Absent /\ condition = "sound"
    /\ tape' = Append(tape, line)
    /\ UNCHANGED condition

CutShort ==
    /\ tape # Absent /\ condition = "sound"
    /\ condition' \in {"cut", "damaged"}
    /\ UNCHANGED tape

\* An append to a torn tape: its line is swallowed, or the tape is damaged.
Stray ==
    /\ condition \in {"cut", "short"}
    /\ condition' \in {"short", "damaged"}
    /\ UNCHANGED tape

Mend ==
    /\ condition \in {"cut", "short"}
    /\ condition' = "sound"
    /\ UNCHANGED tape

Remove == tape' = Absent /\ condition' = "sound"

Next ==
    \/ Create
    \/ \E line \in Lines : AppendLine(line)
    \/ CutShort \/ Stray \/ Mend
    \/ Remove

Spec == Init /\ [][Next]_tapeState

=============================================================================
