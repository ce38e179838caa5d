------------------------------ MODULE ModuleTable ------------------------------
(***************************************************************************)
(* The table of the computing modules in the chassis (module_id_table) and *)
(* what is made of it.  The SSDP thread enters the modules that announce   *)
(* themselves, under the names CM1, CM2, ... in the order they are met,    *)
(* and adds their resources (show_ssdp_packet, add_new_bmc).  Every 20     *)
(* seconds the check thread asks every module of the table and takes out   *)
(* those that do not answer (module_check_handler).  Requests for a module *)
(* are passed on to the address of the table (do_task_bmc_post and others).*)
(* The table is a std::map that the three use without a lock.              *)
(*                                                                         *)
(* A step is one operation on the table, the collections or the table      *)
(* file, or one exchange with a module; a loop that only reads the table   *)
(* is one step too.  A module is named by its address, and the resource    *)
(* that stands for it in a collection by its name in the table.  A module  *)
(* that is up answers what it is asked, in the form it should.             *)
(***************************************************************************)
EXTENDS Integers, FiniteSets, Sequences, SequencesExt

CONSTANTS
    Addresses,      \* the addresses of the modules
    Blank,          \* the empty string, as an address
    Null,
    Collections,    \* Systems, Chassis and Managers
    AddOrder,       \* the order in which add_new_bmc goes through them
    RemoveOrder,    \* and that of module_check_handler
    Requests,       \* bound: the handlers that run at a time
    MaxModule,      \* bound: the greatest number in a name
    MaxMembers      \* bound: as many copies of a member are counted

\* n stands for "CMn".
Names == 1 .. MaxModule

ASSUME BoundAssumption == MaxModule \in Nat \ {0} /\ MaxMembers \in Nat \ {0}
ASSUME OrderAssumption ==
    /\ Collections # {}
    /\ AddOrder \in Seq(Collections) /\ ToSet(AddOrder) = Collections
    /\ RemoveOrder \in Seq(Collections) /\ ToSet(RemoveOrder) = Collections
ASSUME AddressAssumption == Blank \notin Addresses /\ Null \notin Addresses \cup {Blank}

VARIABLES
    running,        \* the server runs
    up,             \* the modules that are up
    table,          \* module_id_table
    file,           \* /conf/module/table.json
    exists,         \* the names g_record has a resource of, for every collection
    members,        \* how often a name is a member of a collection
    ssdp,           \* the SSDP thread
    check,          \* the check thread
    request         \* the handlers that pass a request on

tableVars == <<table, file>>
collectionVars == <<exists, members>>
vars == <<running, up, tableVars, collectionVars, ssdp, check, request>>

NoEntry == [n \in Names |-> Null]

SsdpIdle == [pc |-> "idle", addr |-> Null, name |-> 1, snap |-> NoEntry, at |-> 1]
CheckIdle == [pc |-> "sleep", name |-> 0, dead |-> <<>>, snap |-> NoEntry, at |-> 1]
RequestIdle == [pc |-> "idle", name |-> 1]

\* The first start.
Init ==
    /\ running = TRUE
    /\ up \in SUBSET Addresses
    /\ table = NoEntry
    /\ file = NoEntry
    /\ exists = [k \in Collections |-> {}]
    /\ members = [k \in Collections |-> [n \in Names |-> 0]]
    /\ ssdp = SsdpIdle
    /\ check = CheckIdle
    /\ request = [q \in Requests |-> RequestIdle]

-----------------------------------------------------------------------------
(* The modules: they are plugged in, started, stopped and pulled out.      *)

ModuleUp(a) ==
    /\ a \notin up
    /\ up' = up \cup {a}
    /\ UNCHANGED <<running, tableVars, collectionVars, ssdp, check, request>>

ModuleDown(a) ==
    /\ a \in up
    /\ up' = up \ {a}
    /\ UNCHANGED <<running, tableVars, collectionVars, ssdp, check, request>>

-----------------------------------------------------------------------------
(* The SSDP thread                                                         *)

SsdpAt(pc) == running /\ ssdp.pc = pc

\* A packet with the name CM1 and a location comes in.  Every module sends that
\* name; the search for the one it gets starts there.
Announce(a) ==
    /\ SsdpAt("idle")
    /\ a \in up
    /\ ssdp' = [SsdpIdle EXCEPT !.pc = "find", !.addr = a]
    /\ UNCHANGED <<running, up, tableVars, collectionVars, check, request>>

\* module_id_table.find(result_id)
Find ==
    /\ SsdpAt("find")
    /\ ssdp' = [ssdp EXCEPT !.pc = IF table[ssdp.name] = Null THEN "insert" ELSE "compare"]
    /\ UNCHANGED <<running, up, tableVars, collectionVars, check, request>>

\* What module_id_table[n] leaves in the table: [] makes an entry with an empty
\* address if there is none.
Looked(n) == IF table[n] = Null THEN [table EXCEPT ![n] = Blank] ELSE table

\* module_id_table[result_id] == addr_table: known by that name, or on to the next.
Compare ==
    LET n == ssdp.name IN
    /\ SsdpAt("compare")
    /\ table' = Looked(n)
    /\ ssdp' = IF table[n] = ssdp.addr \/ n = MaxModule
               THEN SsdpIdle
               ELSE [ssdp EXCEPT !.pc = "find", !.name = n + 1]
    /\ UNCHANGED <<running, up, file, collectionVars, check, request>>

\* insert does not replace an entry.
Insert ==
    LET n == ssdp.name IN
    /\ SsdpAt("insert")
    /\ table' = IF table[n] = Null THEN [table EXCEPT ![n] = ssdp.addr] ELSE table
    /\ ssdp' = [ssdp EXCEPT !.pc = "snapshot"]
    /\ UNCHANGED <<running, up, file, collectionVars, check, request>>

\* save_module_id: the loop over the table, and the file.
SsdpSnapshot ==
    /\ SsdpAt("snapshot")
    /\ ssdp' = [ssdp EXCEPT !.pc = "write", !.snap = table]
    /\ UNCHANGED <<running, up, tableVars, collectionVars, check, request>>

SsdpWrite ==
    /\ SsdpAt("write")
    /\ file' = ssdp.snap
    /\ ssdp' = [ssdp EXCEPT !.pc = "add", !.snap = NoEntry]
    /\ UNCHANGED <<running, up, table, collectionVars, check, request>>

\* One more copy of a member, as far as they are counted.
OneMore(copies) == IF copies < MaxMembers THEN copies + 1 ELSE copies

\* add_system, add_chassis, add_manager: a resource there is becomes a member
\* again; one there is not is made, and saved, of what the module tells.  If it
\* does not answer there is none.
Add ==
    LET n == ssdp.name
        k == AddOrder[ssdp.at]
    IN
    /\ SsdpAt("add")
    /\ IF n \in exists[k] \/ ssdp.addr \in up
       THEN /\ exists' = [exists EXCEPT ![k] = @ \cup {n}]
            /\ members' = [members EXCEPT ![k][n] = OneMore(@)]
       ELSE UNCHANGED collectionVars
    /\ ssdp' = IF ssdp.at < Len(AddOrder) THEN [ssdp EXCEPT !.at = @ + 1] ELSE SsdpIdle
    /\ UNCHANGED <<running, up, tableVars, check, request>>

-----------------------------------------------------------------------------
(* The check thread                                                        *)

CheckAt(pc) == running /\ check.pc = pc

Wake ==
    /\ CheckAt("sleep")
    /\ check' = [CheckIdle EXCEPT !.pc = "next"]
    /\ UNCHANGED <<running, up, tableVars, collectionVars, ssdp, request>>

\* The entry the iterator of the table is at next, if there is one.
NextEntry(n) ==
    /\ table[n] # Null
    /\ n > check.name
    /\ \A m \in check.name + 1 .. n - 1 : table[m] = Null

\* Faulty variants: a module is taken out although it answers, or is left in
\* although it does not.
AskAndList(n) ==
    /\ CheckAt("next")
    /\ NextEntry(n)
    /\ table[n] # Blank
    /\ check' = [check EXCEPT !.name = n, !.dead = Append(@, n)]
    /\ UNCHANGED <<running, up, tableVars, collectionVars, ssdp, request>>

AskOnly(n) ==
    /\ CheckAt("next")
    /\ NextEntry(n)
    /\ table[n] # Blank
    /\ check' = [check EXCEPT !.name = n]
    /\ UNCHANGED <<running, up, tableVars, collectionVars, ssdp, request>>

\* Another: the entry is erased at once, under the iterator.
AskAndErase(n) ==
    /\ CheckAt("next")
    /\ NextEntry(n)
    /\ table[n] # Blank
    /\ check' = [check EXCEPT
         !.name = n,
         !.dead = IF table[n] \in up THEN @ ELSE Append(@, n)]
    /\ table' = IF table[n] \in up THEN table ELSE [table EXCEPT ![n] = Null]
    /\ UNCHANGED <<running, up, file, collectionVars, ssdp, request>>

\* GET /redfish of the module the iterator is at; its entry can only be erased by
\* this thread.
Ask(n) ==
    /\ CheckAt("next")
    /\ NextEntry(n)
    /\ table[n] # Blank
    /\ check' = [check EXCEPT
         !.name = n,
         !.dead = IF table[n] \in up THEN @ ELSE Append(@, n)]
    /\ UNCHANGED <<running, up, tableVars, collectionVars, ssdp, request>>

\* A faulty variant: a check that finds every module up does not save the table.
CheckEndUnsaved ==
    /\ CheckAt("next")
    /\ ~ \E n \in Names : NextEntry(n)
    /\ check' = IF check.dead = <<>>
                THEN CheckIdle
                ELSE [check EXCEPT !.pc = "erase", !.name = 0]
    /\ UNCHANGED <<running, up, tableVars, collectionVars, ssdp, request>>

CheckEnd ==
    /\ CheckAt("next")
    /\ ~ \E n \in Names : NextEntry(n)
    /\ check' = [check EXCEPT !.pc = "erase", !.name = 0]
    /\ UNCHANGED <<running, up, tableVars, collectionVars, ssdp, request>>

Erase ==
    /\ CheckAt("erase")
    /\ check.dead # <<>>
    /\ table' = [table EXCEPT ![Head(check.dead)] = Null]
    /\ check' = [check EXCEPT !.pc = "member"]
    /\ UNCHANGED <<running, up, file, collectionVars, ssdp, request>>

\* A faulty variant: a member is taken off without looking whether there is one.
OneLessUnchecked(copies) == copies - 1

OneLess(copies) == IF copies > 0 THEN copies - 1 ELSE 0

\* remove_module_id_from_collection: the first member of the name goes.
RemoveMember ==
    LET n == Head(check.dead)
        k == RemoveOrder[check.at]
    IN
    /\ CheckAt("member")
    /\ members' = [members EXCEPT ![k][n] = OneLess(@)]
    /\ check' = IF check.at < Len(RemoveOrder)
                THEN [check EXCEPT !.at = @ + 1]
                ELSE [check EXCEPT !.pc = "erase", !.dead = Tail(@), !.at = 1]
    /\ UNCHANGED <<running, up, tableVars, exists, ssdp, request>>

CheckSnapshot ==
    /\ CheckAt("erase")
    /\ check.dead = <<>>
    /\ check' = [check EXCEPT !.pc = "write", !.snap = table]
    /\ UNCHANGED <<running, up, tableVars, collectionVars, ssdp, request>>

CheckWrite ==
    /\ CheckAt("write")
    /\ file' = check.snap
    /\ check' = CheckIdle
    /\ UNCHANGED <<running, up, table, collectionVars, ssdp, request>>

-----------------------------------------------------------------------------
(* Requests for a module                                                   *)

\* The handler of the listener looks whether the table has the module ...
Route(q, n) ==
    /\ running
    /\ request[q].pc = "idle"
    /\ table[n] # Null
    /\ request' = [request EXCEPT ![q] = [pc |-> "read", name |-> n]]
    /\ UNCHANGED <<running, up, tableVars, collectionVars, ssdp, check>>

\* ... and do_task_bmc_* reads the address, after it has waited for the body.
ReadAddress(q) ==
    /\ running
    /\ request[q].pc = "read"
    /\ table' = Looked(request[q].name)
    /\ request' = [request EXCEPT ![q] = RequestIdle]
    /\ UNCHANGED <<running, up, file, collectionVars, ssdp, check>>

-----------------------------------------------------------------------------
(* Crash and restart                                                       *)

Stop ==
    /\ running' = FALSE
    /\ table' = NoEntry
    /\ members' = [k \in Collections |-> [n \in Names |-> 0]]
    /\ ssdp' = SsdpIdle
    /\ check' = CheckIdle
    /\ request' = [q \in Requests |-> RequestIdle]
    /\ UNCHANGED <<up, file, exists>>

Crash == running /\ Stop

\* The constructor of http_client throws for an empty address, before the try
\* that catches what a request throws: the exception leaves the thread, which
\* terminates the program.
CheckTerminates(n) ==
    /\ CheckAt("next")
    /\ NextEntry(n)
    /\ table[n] = Blank
    /\ Stop

\* load_module_id; the resources come from their files, and each becomes a member
\* of its collection (dependency_injection).
Restart ==
    /\ ~running
    /\ running' = TRUE
    /\ table' = file
    /\ members' = [k \in Collections |-> [n \in Names |-> IF n \in exists[k] THEN 1 ELSE 0]]
    /\ UNCHANGED <<up, file, exists, ssdp, check, request>>

-----------------------------------------------------------------------------
Ssdp == Find \/ Compare \/ Insert \/ SsdpSnapshot \/ SsdpWrite \/ Add

Check ==
    \/ Wake
    \/ \E n \in Names : Ask(n) \/ CheckTerminates(n)
    \/ CheckEnd \/ Erase \/ RemoveMember \/ CheckSnapshot \/ CheckWrite

Handler(q) == (\E n \in Names : Route(q, n)) \/ ReadAddress(q)

Next ==
    \/ \E a \in Addresses : ModuleUp(a) \/ ModuleDown(a) \/ Announce(a)
    \/ Ssdp \/ Check
    \/ \E q \in Requests : Handler(q)
    \/ Crash \/ Restart

Spec == Init /\ [][Next]_vars

\* Both threads go on, and a module that is up announces itself again and again
\* (the SSDP thread asks for that every 3 seconds).  Nothing says that clients
\* send requests or that anybody starts the server again.
Fairness ==
    /\ WF_vars(Ssdp) /\ WF_vars(Check)
    /\ \A a \in Addresses : SF_vars(Announce(a))

FairSpec == Spec /\ Fairness

-----------------------------------------------------------------------------
(* Properties.                                                             *)

Entries == [Names -> Addresses \cup {Blank, Null}]

\* Every variable holds a value of its kind.
TypeOK ==
    /\ running \in BOOLEAN
    /\ up \subseteq Addresses
    /\ table \in Entries /\ file \in Entries
    /\ exists \in [Collections -> SUBSET Names]
    /\ members \in [Collections -> [Names -> 0 .. MaxMembers]]
    /\ ssdp \in [pc : {"idle", "find", "compare", "insert", "snapshot", "write", "add"},
                 addr : Addresses \cup {Null}, name : Names, snap : Entries,
                 at : 1 .. Len(AddOrder)]
    /\ check \in [pc : {"sleep", "next", "erase", "member", "write"},
                  name : 0 .. MaxModule, dead : Seq(Names), snap : Entries,
                  at : 1 .. Len(RemoveOrder)]
    /\ request \in [Requests -> [pc : {"idle", "read"}, name : Names]]

\* The check thread waits for the answers with the iterator in the table and the
\* list of the dead in its hands, while the SSDP thread and the handlers change
\* the table: the entry the iterator is at stays in the table, and every entry on
\* the list is still there, with the address of a module, until the check itself
\* takes it out.
CheckHoldsEntries ==
    /\ CheckAt("next") /\ check.name # 0 => table[check.name] # Null
    /\ CheckAt("next") \/ CheckAt("erase") =>
          \A n \in ToSet(check.dead) : table[n] \in Addresses

\* If the server no longer crashes, an entry of the table reaches the table file
\* or leaves the table.  The two threads save the table without a lock and an
\* older table can be written over a newer one; the check makes up for it.
FileCatchesUp ==
    <>[]running =>
        \A n \in Names, a \in Addresses :
            table[n] = a ~> file[n] = a \/ table[n] # a

\* If the server no longer crashes, a module that stays down leaves the table.
DownModuleLeaves ==
    \A a \in Addresses :
        <>[](running /\ a \notin up) => <>[](\A n \in Names : table[n] # a)

\* If the server no longer crashes, a module that stays up and announces itself
\* again and again is in the table in the end, and is not taken out any more, as
\* long as the bound on the names leaves one free.
UpModuleStays ==
    \A a \in Addresses :
        <>[](running /\ a \in up /\ \E n \in Names : table[n] \in {a, Null})
            => <>[](\E n \in Names : table[n] = a)

\* A module of the table that cannot be asked goes on the list of those to be
\* taken out, says the comment of module_check_handler: the check thread never
\* meets an entry it cannot go on from.  It is false: [] makes entries with an
\* empty address for modules that have just been taken out.
CheckGoesOn ==
    \A n \in Names : ~(CheckAt("next") /\ NextEntry(n) /\ table[n] = Blank)
=============================================================================
