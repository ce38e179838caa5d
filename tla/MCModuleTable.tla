---------------------------- MODULE MCModuleTable ----------------------------
(***************************************************************************)
(* ModuleTable on a small instance.                                        *)
(***************************************************************************)
EXTENDS ModuleTable

CONSTANTS a1, a2, q1

MCAddresses == {a1, a2}
MCOneAddress == {a1}
MCRequests == {q1}

MCOneCollection == {"Systems"}
MCOneOrder == <<"Systems">>
MCCollections == {"Systems", "Chassis"}
MCAddOrder == <<"Systems", "Chassis">>
MCRemoveOrder == <<"Chassis", "Systems">>
=============================================================================
