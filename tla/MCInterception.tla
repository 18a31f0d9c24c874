--------------------------- MODULE MCInterception ---------------------------
(* Small instances of Interception for TLC. *)
EXTENDS Interception, TLC

\* Neither workers nor coroutines are told apart.
Interchangeable == Permutations(Workers) \cup Permutations(Coroutines)

=============================================================================
