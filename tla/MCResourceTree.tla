----------------------------- MODULE MCResourceTree -----------------------------
(***************************************************************************)
(* ResourceTree on all of its paths but those that differ from another     *)
(* only in the names of members.                                           *)
(***************************************************************************)
EXTENDS ResourceTree

\* What a path does, without the names of the members.
Shape(p) == [i \in 1 .. Len(p) |-> [p[i] EXCEPT !.slot = p[i].slot = p[i].found,
                                                !.found = p[1].slot = "update_service"]]

MCPaths == {CHOOSE p \in AllPaths : Shape(p) = s : s \in {Shape(p) : p \in AllPaths}}
=============================================================================
