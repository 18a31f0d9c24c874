-------------------------- MODULE PositionsProofs --------------------------
(* The first position of a scan exists, for sets of any size. *)
EXTENDS Positions, TLAPS, WellFoundedInduction

\* A set of positions that is not empty has a first one (the scans of
\* Cassette.get, Recorder._claim and the frame decoder stop at it).
LEMMA FirstIsLeast ==
    ASSUME NEW positions \in SUBSET Nat, positions # {}
    PROVE  /\ First(positions) \in positions
           /\ \A j \in positions : First(positions) <= j
<1> DEFINE less == OpToRel(<, Nat)
<1>1. IsWellFoundedOn(less, Nat)
  BY NatLessThanWellFounded
<1>2. \E i \in positions : \A j \in positions : ~ (<<j, i>> \in less)
  <2> HIDE DEF less
  <2> QED BY <1>1, WFMin
<1>3. ASSUME NEW i \in positions, NEW j \in positions, ~ (<<j, i>> \in less)
      PROVE  i <= j
  <2>1. i \in Nat /\ j \in Nat
    OBVIOUS
  <2>2. (j < i) => <<j, i>> \in less
    BY <2>1 DEF OpToRel
  <2> HIDE DEF less
  <2> QED BY <1>3, <2>1, <2>2
<1>4. \E i \in positions : \A j \in positions : i <= j
  BY <1>2, <1>3
<1> QED BY <1>4 DEF First

=============================================================================
