------------------------------ MODULE CommonLemmas ------------------------------
(***************************************************************************)
(* What several modules need to know of the operators they are built from: *)
(* the number that an allocation returns, the least of some natural        *)
(* numbers, and a sequence that loses one of its elements.                 *)
(***************************************************************************)
EXTENDS NumberSet, SequencesExt, SequenceTheorems, WellFoundedInduction, TLAPS

(* The number allocate_numset_num returns is one it may return, and no
   object has it (util.cpp, allocate_numset_num). *)
LEMMA AllocatesFree ==
    ASSUME NEW used, NEW last \in Numbers, NEW i, Allocates(i, used, last)
    PROVE  i \in Numbers /\ i \notin used
<1> USE UintMaxAssumption DEF Numbers
<1>1. CASE Ahead(used, last) # {}
  BY <1>1 DEF Allocates, Least, Ahead
<1>2. CASE Ahead(used, last) = {}
  BY <1>2 DEF Allocates, Least, Wrapped
<1>3. QED BY <1>1, <1>2

(* A search that starts at 1 or later never meets 0. *)
LEMMA AllocatesPositive ==
    ASSUME NEW used, NEW last \in Numbers \ {0}, NEW i, Allocates(i, used, last)
    PROVE  i \in Numbers \ {0} /\ i \notin used
<1> USE UintMaxAssumption DEF Numbers
<1>1. CASE Ahead(used, last) # {}
  BY <1>1 DEF Allocates, Least, Ahead
<1>2. CASE Ahead(used, last) = {}
  BY <1>2 DEF Allocates, Least, Wrapped
<1>3. QED BY <1>1, <1>2

(* A set of places has a first one, as a search from the beginning finds it. *)
LEMMA MinIsLeast ==
    ASSUME NEW S \in SUBSET Nat, S # {}
    PROVE  Min(S) \in S /\ \A y \in S : Min(S) <= y
<1> DEFINE less == {p \in Nat \X Nat : p[1] < p[2]}
<1>1. IsWellFoundedOn(less, Nat)
  BY NatLessThanWellFounded DEF OpToRel
<1>2. PICK x \in S : \A y \in S : ~ (<<y, x>> \in less)
  BY <1>1, WFMin
<1>3. ASSUME NEW y \in S PROVE x <= y
  <2>1. x \in Nat /\ y \in Nat
    OBVIOUS
  <2>2. y < x => <<y, x>> \in less
    BY <2>1
  <2>3. QED BY <1>2, <2>1, <2>2
<1>4. QED BY <1>3 DEF Min

(* erase() of the element at a place: what was behind it moves up by one. *)
LEMMA RemoveAtShifts ==
    ASSUME NEW S, NEW s \in Seq(S), NEW i \in 1 .. Len(s)
    PROVE  /\ RemoveAt(s, i) \in Seq(S)
           /\ Len(RemoveAt(s, i)) = Len(s) - 1
           /\ \A j \in 1 .. Len(s) - 1 :
                 RemoveAt(s, i)[j] = IF j < i THEN s[j] ELSE s[j + 1]
<1> DEFINE before == SubSeq(s, 1, i - 1)
           after == SubSeq(s, i + 1, Len(s))
<1>1. Len(s) \in Nat
  OBVIOUS
<1>2. before \in Seq(S) /\ Len(before) = i - 1 /\ \A j \in 1 .. i - 1 : before[j] = s[j]
  BY <1>1
<1>3. /\ after \in Seq(S) /\ Len(after) = Len(s) - i
      /\ \A j \in 1 .. Len(s) - i : after[j] = s[i + j]
  BY <1>1
<1>4. RemoveAt(s, i) = before \o after
  BY DEF RemoveAt
<1> HIDE DEF before, after
<1>5. before \o after \in Seq(S) /\ Len(before \o after) = Len(s) - 1
  <2>1. Len(before \o after) = Len(before) + Len(after)
    BY <1>2, <1>3, ConcatProperties
  <2>2. before \o after \in Seq(S)
    BY <1>2, <1>3, ConcatProperties
  <2>3. QED BY <1>1, <1>2, <1>3, <2>1, <2>2
<1>6. ASSUME NEW j \in 1 .. Len(s) - 1
      PROVE  (before \o after)[j] = IF j < i THEN s[j] ELSE s[j + 1]
  <2>1. CASE j < i
    BY <1>1, <1>2, <1>3, <2>1
  <2>2. CASE ~ (j < i)
    <3>1. j - (i - 1) \in 1 .. Len(s) - i /\ i + (j - (i - 1)) = j + 1
      BY <1>1, <2>2
    <3>2. (before \o after)[j] = after[j - (i - 1)]
      BY <1>1, <1>2, <1>3, <2>2
    <3>3. QED BY <1>3, <2>2, <3>1, <3>2
  <2>3. QED BY <2>1, <2>2
<1>7. QED BY <1>4, <1>5, <1>6
=============================================================================
