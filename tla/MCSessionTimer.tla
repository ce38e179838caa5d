---------------------------- MODULE MCSessionTimer ----------------------------
(***************************************************************************)
(* SessionTimer on small instances: logins, logouts and PATCHes are the    *)
(* model values the cfg gives.                                             *)
(***************************************************************************)
EXTENDS SessionTimer

CONSTANTS s1, s2, c1, p1

MCOneSession == {s1}
MCSessions == {s1, s2}
MCNone == {}
MCLogouts == {c1}
MCPatches == {p1}
MCTimeouts == {0, 1}
=============================================================================
