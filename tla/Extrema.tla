------------------------------- MODULE Extrema -------------------------------
(***************************************************************************)
(* What Min and Max of the community modules return.                       *)
(***************************************************************************)
EXTENDS FiniteSetsExt, WellFoundedInduction, TLAPS

\* A set of naturals has a least element.
LEMMA MinOfNaturals ==
    ASSUME NEW S \in SUBSET Nat, S # {}
    PROVE  Min(S) \in S /\ \A y \in S : Min(S) <= y
<1>1. PICK x \in S : \A y \in S : ~(<<y, x>> \in OpToRel(<, Nat))
  BY NatLessThanWellFounded, WFMin
<1>2. \A y \in S : x <= y
  <2>1. \A y \in S : ~(y < x)
    BY <1>1 DEF OpToRel
  <2>2. QED
    BY <2>1
<1>3. \E z \in S : \A y \in S : z =< y
  BY <1>2
<1>4. QED
  BY <1>3 DEF Min

\* A bounded one has a greatest.
LEMMA MaxOfNaturals ==
    ASSUME NEW S \in SUBSET Nat, S # {},
           NEW bound \in Nat, \A y \in S : y <= bound
    PROVE  Max(S) \in S /\ \A y \in S : y <= Max(S)
<1> DEFINE Distances == {bound - y : y \in S}
<1>1. \A y \in S : bound - y \in Nat
  OBVIOUS
<1>2. Distances \in SUBSET Nat
  BY <1>1
<1>3. Distances # {}
  OBVIOUS
<1>4. Min(Distances) \in Distances /\ \A d \in Distances : Min(Distances) <= d
  <2> HIDE DEF Distances
  <2>1. QED
    BY <1>2, <1>3, MinOfNaturals
<1>5. PICK x \in S : Min(Distances) = bound - x
  BY <1>4
<1>6. \A y \in S : x >= y
  <2> SUFFICES ASSUME NEW y \in S PROVE x >= y
    OBVIOUS
  <2>1. bound - y \in Distances
    OBVIOUS
  <2>2. bound - x <= bound - y
    BY <2>1, <1>4, <1>5
  <2>3. QED
    BY <2>2
<1>7. \E z \in S : \A y \in S : z >= y
  BY <1>6
<1>8. Max(S) \in S /\ \A y \in S : Max(S) >= y
  BY <1>7 DEF Max
<1>9. QED
  BY <1>8
=============================================================================
