--------------------------- MODULE MCAccountService ---------------------------
(***************************************************************************)
(* AccountService on a small instance.                                     *)
(***************************************************************************)
EXTENDS AccountService

CONSTANT r1     \* the one custom role

MCUserNames == {"root", "admin"}
MCCustomRoles == {r1}
MCAskedRoles == {"ReadOnly", r1}
MCAsked == {"ConfigureComponents"}
MCTimeouts == {0, 1, 2}
MCToggles == BOOLEAN
MCNoToggles == {TRUE}
=============================================================================
