------------------------------ MODULE Cassette ------------------------------
(* The look-ups a recorder makes on a cassette: a sequence of interactions, *)
(* each with its ordinal, the fingerprint of the request it was recorded    *)
(* for and its response.  No look-up assumes that ordinals are distinct or  *)
(* sorted: the code scans the list.                                         *)
EXTENDS Positions, Sequences

\* Where the interaction recorded as call number n stands.
Holding(tape, n) == {i \in DOMAIN tape : tape[i].ordinal = n}

Has(tape, n) == Holding(tape, n) # {}

Get(tape, n) == tape[First(Holding(tape, n))]

UnservedForgotten(tape, served, q) ==
    {i \in DOMAIN tape : tape[i].fingerprint = q}

\* Where a recording of question q stands that this run has not served yet.
Unserved(tape, served, q) ==
    {i \in DOMAIN tape :
        tape[i].fingerprint = q /\ tape[i].ordinal \notin served}

\* Whether the tape can answer call n asking q: at that place or anywhere else.
AnswerableInPlace(tape, served, n, q) ==
    Has(tape, n) /\ First(Holding(tape, n)) \in Unserved(tape, served, q)

Answerable(tape, served, n, q) == Unserved(tape, served, q) # {}

\* The recording that answers call n asking q: the one at n if it answers q
\* and is unserved, otherwise the first unserved one that answers q.
ClaimedAnywhere(tape, served, n, q) ==
    tape[First(Unserved(tape, served, q))]

ClaimedUnchecked(tape, served, n, q) ==
    IF Has(tape, n) THEN Get(tape, n) ELSE tape[First(Unserved(tape, served, q))]

Claimed(tape, served, n, q) ==
    LET at == First(Holding(tape, n))
    IN  IF Has(tape, n) /\ at \in Unserved(tape, served, q)
        THEN tape[at]
        ELSE tape[First(Unserved(tape, served, q))]

=============================================================================
