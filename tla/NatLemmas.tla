----------------------------- MODULE NatLemmas -----------------------------
(***************************************************************************)
(* Facts about sets of natural numbers that the proofs of the components   *)
(* share.                                                                  *)
(***************************************************************************)
EXTENDS Naturals, WellFoundedInduction, TLAPS

\* A non-empty set of naturals has a least member.
LEMMA LeastMember ==
    ASSUME NEW S \in SUBSET Nat, S # {}
    PROVE  \E x \in S : \A y \in S : x <= y
<1>1. IsWellFoundedOn(OpToRel(<, Nat), Nat)
    BY NatLessThanWellFounded
<1>2. PICK x \in S : \A y \in S : ~(<<y, x>> \in OpToRel(<, Nat))
    BY <1>1, WFMin
<1>3. ASSUME NEW y \in S, y < x PROVE FALSE
    <2>1. <<y, x>> \in Nat \X Nat
        OBVIOUS
    <2>2. <<y, x>> \in OpToRel(<, Nat)
        BY <1>3, <2>1, Zenon DEF OpToRel
    <2> QED BY <1>2, <2>2
<1> QED BY <1>3

\* A non-empty set of naturals with an upper bound has a greatest member.
LEMMA GreatestMember ==
    ASSUME NEW n \in Nat, NEW S \in SUBSET (0 .. n), S # {}
    PROVE  \E x \in S : \A y \in S : y <= x
<1> DEFINE U == {m \in Nat : \A y \in S : y <= m}
<1>1. n \in U
    OBVIOUS
<1>2. PICK u \in U : \A m \in U : u <= m
    BY <1>1, LeastMember
<1>3. u \in S
    <2> SUFFICES ASSUME u \notin S PROVE FALSE
        OBVIOUS
    <2>1. \A y \in S : y <= u - 1 /\ y \in Nat
        BY <1>2
    <2>2. u - 1 \in Nat
        <3>1. PICK y \in S : TRUE
            OBVIOUS
        <3> QED BY <1>2, <2>1, <3>1
    <2>3. u - 1 \in U
        BY <2>1, <2>2
    <2> QED BY <1>2, <2>3
<1> QED BY <1>2, <1>3

\* Induction, for a set: a set of naturals that holds 0 and the successor of
\* each of its members is Nat.
LEMMA SetInduction ==
    ASSUME NEW S \in SUBSET Nat, 0 \in S, \A n \in S : n + 1 \in S
    PROVE  S = Nat
<1> SUFFICES ASSUME Nat \ S # {} PROVE FALSE
    OBVIOUS
<1>1. PICK x \in Nat \ S : \A y \in Nat \ S : x <= y
    BY LeastMember
<1>2. x - 1 \in S
    BY <1>1
<1> QED BY <1>1, <1>2
=============================================================================
