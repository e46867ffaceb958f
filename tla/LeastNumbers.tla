---------------------------- MODULE LeastNumbers ----------------------------
(***************************************************************************)
(* The least-number principle, from the library's facts about well-founded *)
(* relations: the proofs need it where the code takes the first of several. *)
(***************************************************************************)
EXTENDS WellFoundedInduction, TLAPS

Less == {p \in Nat \X Nat : p[1] < p[2]}

\* Every set of numbers that is not empty has a least one.
LEMMA LeastNumber ==
  ASSUME NEW S \in SUBSET Nat, S # {}
  PROVE  \E k \in S : \A j \in S : k <= j
  <1>1. OpToRel(<, Nat) = Less
    BY DEF OpToRel, Less
  <1>2. IsWellFoundedOn(Less, Nat)
    BY <1>1, NatLessThanWellFounded, Zenon
  <1>a. \E k \in S : \A j \in S : ~(<<j, k>> \in Less)
    BY <1>2, WFMin
  <1>3. PICK k \in S : \A j \in S : ~(<<j, k>> \in Less)
    BY <1>a
  <1>4. \A j \in S : ~(j < k)
    <2> SUFFICES ASSUME NEW j \in S PROVE ~(j < k)
      OBVIOUS
    <2>1. j \in Nat /\ k \in Nat
      OBVIOUS
    <2>2. j < k => <<j, k>> \in Less
      BY <2>1 DEF Less
    <2>3. QED BY <1>3, <2>2
  <1>5. QED BY <1>3, <1>4
=============================================================================
