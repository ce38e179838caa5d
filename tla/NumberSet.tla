------------------------------ MODULE NumberSet ------------------------------
(***************************************************************************)
(* The numbers that name tasks, accounts, sessions, virtual media and      *)
(* subscriptions (util.cpp, allocate_numset_num).  Each kind has a set of  *)
(* the numbers in use (numset) and the number handed out last              *)
(* (numset_num).  The search starts at the last number, not after it, and  *)
(* goes up; when it meets UINT_MAX it sets i to 0 and the loop's i++ makes  *)
(* it 1, so a search that has wrapped never looks at 0.                    *)
(***************************************************************************)
EXTENDS Integers

CONSTANT UintMax    \* UINT_MAX: the number the search skips

ASSUME UintMaxAssumption == UintMax \in Nat /\ UintMax > 1

\* What allocate_numset_num can return.
Numbers == 0 .. UintMax - 1

\* The free numbers met before the wrap, and those met after it.
Ahead(used, last) == {i \in last .. UintMax - 1 : i \notin used}
Wrapped(used) == {i \in 1 .. UintMax - 1 : i \notin used}

Least(i, S) == i \in S /\ \A j \in S : i <= j

\* i is the number allocate_numset_num returns.  No number is when both sets
\* are empty: the loop then never ends.
Allocates(i, used, last) ==
    IF Ahead(used, last) # {}
    THEN Least(i, Ahead(used, last))
    ELSE Least(i, Wrapped(used))
=============================================================================
