---------------------------- MODULE MCTaskManager ----------------------------
(***************************************************************************)
(* TaskManager on a small instance.                                        *)
(***************************************************************************)
EXTENDS TaskManager

CONSTANTS r1, r2, r3

MCRequests == {r1, r2, r3}
MCCategories == {"Systems"}
MCSymmetry == Permutations(MCRequests)
=============================================================================
