----------------------------- MODULE MCRecorder -----------------------------
(* Small instances of Recorder for TLC. *)
EXTENDS Recorder, TLC

\* Callers and questions are interchangeable: nothing orders them.
Interchangeable == Permutations(Callers) \cup Permutations(Questions)


\* The same with a single caller.
InterchangeableQuestions == Permutations(Questions)

=============================================================================
