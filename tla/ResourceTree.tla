------------------------------ MODULE ResourceTree ------------------------------
(***************************************************************************)
(* The tree of the CMM's own resources through crashes and restarts: what  *)
(* init_resource makes, loads, links and saves (init.cpp, record.cpp, the  *)
(* constructor of ServiceRoot in resource.hpp).                            *)
(*                                                                         *)
(* A behaviour follows one path of the tree, from the service root (node   *)
(* 0) to a leaf, and what a resource on it needs beside the path: every    *)
(* node has a file, an entry in g_record, and a place in the object above  *)
(* it.  A start runs in one thread before anything else does, so that a    *)
(* loop of it is a step; it goes through g_record, an unordered_map, in    *)
(* any order.                                                              *)
(***************************************************************************)
EXTENDS Integers, Sequences

CONSTANT Paths      \* the paths to follow: AllPaths or some of them

(***************************************************************************)
(* A child: the member of the object above that init_* puts it in, the one *)
(* dependency_injection finds for it, whether that is a vector it is added *)
(* to, whether init_* first looks whether the child is there, and what     *)
(* dependency_injection does when what is above has no class: its cast     *)
(* goes wrong, or it has looked at the type and leaves the child alone.    *)
(* Also whether saving what is above goes through it without looking       *)
(* whether it is there, what it is linked to beside what is above it, and  *)
(* the node above it where that is not the one before it on the path.      *)
(***************************************************************************)
Previous == -1

Child(slot) ==
    [slot |-> slot, found |-> slot, adds |-> FALSE, guarded |-> TRUE, bare |-> "undefined",
     entry |-> FALSE, walked |-> FALSE, needs |-> "nothing", from |-> Previous]

ServiceChild(slot) == Child(slot)
AccountServiceChild == [Child("account_service") EXCEPT !.bare = "skip"]
CollectionChild(slot) == [Child(slot) EXCEPT !.bare = "skip"]
\* The collections of the update service are told apart by their names, the wrong way round.
InventoryChild(slot, found) == [CollectionChild(slot) EXCEPT !.found = found]
MemberChild == [Child("members") EXCEPT !.adds = TRUE, !.guarded = FALSE]
GuardedMember == [MemberChild EXCEPT !.guarded = TRUE]
StorageChild == [MemberChild EXCEPT !.bare = "skip"]
\* A log entry is counted in the log service above its collection.
EntryChild == [MemberChild EXCEPT !.entry = TRUE]
ListChild(slot) == [Child(slot) EXCEPT !.walked = TRUE]
SingleChild(slot) == Child(slot)
\* The certificates of the first account and the location of certificates are made with
\* what is above them.
Unguarded(child) == [child EXCEPT !.guarded = FALSE]
\* A certificate is put in the location of certificates too, and an account is given its role:
\* they are the last node of their path, on a branch of its own.
Needing(child, what) == [child EXCEPT !.needs = what]
Beside(trunk, node, branch) == trunk \o <<[branch[1] EXCEPT !.from = node]>> \o Tail(branch)

(***************************************************************************)
(* The paths: what the constructor of the root makes, and under it init_*. *)
(***************************************************************************)
Under(top, rests) == {top \o rest : rest \in rests}

StoragePaths ==
    Under(<<StorageChild>>,
          {<<ListChild("controller"), MemberChild>>, <<CollectionChild("drives"), MemberChild>>,
           <<CollectionChild("volumes"), MemberChild>>})
LogPaths ==
    {<<CollectionChild("log_service"), MemberChild, CollectionChild("entry"), EntryChild>>}

SystemPaths ==
    Under(<<CollectionChild("system_collection"), MemberChild>>,
          Under(<<CollectionChild("storage")>>, StoragePaths)
          \cup {<<CollectionChild(c), MemberChild>> :
                   c \in {"processor", "memory", "simple_storage"}}
          \cup {<<CollectionChild("ethernet")>>, <<SingleChild("bios")>>}
          \cup LogPaths)

ThermalPaths ==
    Under(<<SingleChild("thermal")>>,
          {<<ListChild(l), MemberChild>> : l \in {"temperatures", "fans"}})
PowerPaths ==
    Under(<<SingleChild("power")>>,
          {<<ListChild(l), MemberChild>> : l \in {"power_control", "voltages", "power_supplies"}})
ChassisPaths ==
    Under(<<CollectionChild("chassis_collection"), GuardedMember>>,
          Under(<<CollectionChild("storage")>>, StoragePaths)
          \cup {<<CollectionChild("sensors"), GuardedMember>>}
          \cup ThermalPaths \cup PowerPaths \cup LogPaths)

ManagerPaths ==
    Under(<<CollectionChild("manager_collection"), GuardedMember>>,
          {<<CollectionChild("ethernet")>>, <<CollectionChild("virtual_media"), GuardedMember>>}
          \cup {<<SingleChild(s)>> : s \in {"network", "syslog", "radius"}}
          \cup LogPaths)

UpdatePaths ==
    Under(<<ServiceChild("update_service")>>,
          {<<InventoryChild("firmware_inventory", "software_inventory"), MemberChild>>,
           <<InventoryChild("software_inventory", "firmware_inventory"), MemberChild>>})
AccountPaths ==
    {Beside(<<AccountServiceChild, CollectionChild("account_collection"),
              Needing(MemberChild, "role")>>,
            1, <<CollectionChild("role_collection"), MemberChild>>),
     Beside(<<AccountServiceChild, CollectionChild("account_collection"), MemberChild,
              Unguarded(CollectionChild("certificates")), Needing(MemberChild, "location")>>,
            0, <<ServiceChild("certificate_service"),
                 Unguarded(SingleChild("certificate_location"))>>)}
ServicePaths ==
    {<<ServiceChild("task_service"), CollectionChild("task_collection")>>,
     <<ServiceChild("event_service"), CollectionChild("subscriptions")>>,
     <<ServiceChild("session_service"), CollectionChild("session_collection")>>}

AllPaths ==
    SystemPaths \cup ChassisPaths \cup ManagerPaths \cup UpdatePaths \cup AccountPaths
    \cup ServicePaths

Children == [slot : STRING, found : STRING, adds : BOOLEAN, guarded : BOOLEAN,
             bare : {"undefined", "skip"}, entry : BOOLEAN, walked : BOOLEAN,
             needs : {"nothing", "role", "location"}, from : {Previous, 0, 1}]

\* A path is not empty and has one branch at most; the root looks for all that is right below it,
\* and that is neither a log entry nor a list.
ASSUME PathAssumption ==
    \A p \in Paths :
        /\ p \in Seq(Children) /\ p # <<>> /\ p[1].from = Previous
        /\ \A i \in DOMAIN p :
              /\ p[i].from # Previous => \A j \in DOMAIN p : p[j].from = Previous \/ j = i
              /\ i = 1 \/ p[i].from = 0 => p[i].guarded
              /\ p[i].entry \/ p[i].walked =>
                    i > 1 /\ p[i].from = Previous /\ p[i].bare = "undefined"

\* An account is in a collection of the service, and beside it is the collection of the roles.
ASSUME RoleAssumption ==
    \A p \in Paths : \A i \in DOMAIN p :
        p[i].needs = "role" =>
            /\ i = 3 /\ p[3].bare = "undefined"
            /\ Len(p) = 5 /\ p[4].from = 1 /\ ~p[5].guarded
            /\ \A j \in DOMAIN p : p[j].needs # "location"

\* dependency_injection finds the member init_* has put a child in, but for the inventories.
ASSUME SlotAssumption ==
    \A p \in Paths :
        p[1].slot # "update_service" => \A i \in DOMAIN p : p[i].found = p[i].slot

VARIABLES
    path,       \* the path that is followed
    phase,      \* where the start is
    files,      \* of every node: "none", "torn" or "whole"
    record,     \* what g_record has for it: "none", "bare" (a Resource without a class), or an
                \* object, "first", "made" or "second" by when it was made
    links,      \* what the object above holds: the member and the object in it
    loaded,     \* dependency_object: the nodes and objects to link
    gone,       \* the nodes of which an object with a class is in gc
    held,       \* the role that the account holds, the certificates that their location holds:
                \* objects, or what is "bare", "deleted", or "null" and has a null entry
    named       \* whether the file of the account names a role

vars == <<path, phase, files, record, links, loaded, gone, held, named>>

Last == Len(path)
Nodes == 0 .. Last
Below == 1 .. Last
Up(i) == IF path[i].from = Previous THEN i - 1 ELSE path[i].from
\* The nodes from below the root down to i: those before a branch only as far as it starts.
Line(i) == {j \in 1 .. i : \A b \in j + 1 .. i : path[b].from = Previous \/ j <= path[b].from}
Top == {i \in Below : Up(i) = 0}
Need(what) == {i \in Below : path[i].needs = what}
Whole == {i \in Nodes : files[i] = "whole"}
Objects == {"first", "made", "second"}
Typed == {i \in Nodes : record[i] \in Objects}

NoRecord == [i \in Nodes |-> "none"]
NoLinks == [i \in Below |-> {}]

Init ==
    /\ path \in Paths
    /\ phase = "down"
    /\ files = [i \in Nodes |-> "none"]
    /\ record = NoRecord /\ links = NoLinks
    /\ loaded = {} /\ gone = {}
    /\ held = {} /\ named = TRUE

-----------------------------------------------------------------------------
(* record_load_json *)

\* Faulty variants: a file that cannot be read has no entry; the root makes everything.
FoundDropped(before) ==
    [i \in Nodes |-> IF files[i] # "whole" THEN "none"
                     ELSE IF i \in before THEN "first" ELSE "bare"]
MissingAll(entries) == Below

\* record_init_load makes a Resource for every file; those that were whole and have been
\* come to have their class.
Found(before) ==
    [i \in Nodes |-> IF files[i] = "none" THEN "none"
                     ELSE IF i \in before THEN "first" ELSE "bare"]

\* What the constructor of the root makes of what has these entries: all the way down, until it
\* meets one that it looks for and that has an entry.  What it does not look for is made again.
Missing(entries) ==
    {i \in Below : \A j \in Line(i) : path[j].guarded => entries[j] = "none"}

Hung(i, object) == {<<path[i].slot, object>>}

\* What comes of going to an entry: "dead" is a null pointer, "undefined" a cast to a class that
\* the object is not of.
Reached(entry, bare) ==
    CASE entry = "none" -> "dead"
      [] entry = "bare" -> bare
      [] OTHER -> "linked"

\* init_account_service puts the certificate it has made in the location that is there by then,
\* and gives the account the role that is there.
Beyond(made, rec) == IF Last \in made THEN "made" ELSE rec[Last]
Pushes(made, rec) ==
    IF made \cap Need("location") = {} THEN {} ELSE {Reached(Beyond(made, rec), "undefined")}
Given(made, rec) ==
    IF made \cap Need("role") # {} THEN {Beyond(made, rec)} \ {"none"}
    ELSE IF made \cap Need("location") # {} THEN {"made"} ELSE {}

\* What the constructor makes when the loop meets the root after the nodes of before.
MadeBy(rec) == IF 0 \in Whole THEN Missing(rec) ELSE {}

\* If the root has made something, g_record has grown under the loop, which may then skip any
\* entry and meet any a second time; an object that is met is read from its file again, as a new
\* object, and the old one is to be deleted.
Load ==
    /\ phase = "down"
    /\ phase' = "inject"
    /\ \E before \in SUBSET (Whole \ {0}) :
          LET rec == Found(before)
              rest == Whole \ ({0} \cup before)
              made == MadeBy(rec)
          IN /\ Pushes(made, rec) \subseteq {"linked"}
             /\ \E after \in IF made = {} THEN {rest} ELSE SUBSET (Whole \ {0}) :
                LET again == after \cap (before \cup made) IN
                   /\ record' = [i \in Nodes |->
                                   IF i = 0 THEN IF 0 \in Whole THEN "made" ELSE rec[0]
                                   ELSE IF i \in again THEN "second"
                                   ELSE IF i \in after THEN "first"
                                   ELSE IF i \in made THEN "made" ELSE rec[i]]
                   /\ links' = [i \in Below |->
                                   IF i \in made /\ Up(i) \notin after THEN Hung(i, "made") ELSE {}]
                   /\ loaded' = (before \cup (after \ made)) \X {"first"} \cup again \X {"second"}
                   /\ gone' = again
                   /\ held' = IF Need("location") # {} /\ Last \in after THEN {}
                              ELSE Given(made, rec)
    /\ UNCHANGED <<path, files, named>>

LoadFails ==
    /\ phase = "down"
    /\ \E before \in SUBSET (Whole \ {0}) :
          phase' \in Pushes(MadeBy(Found(before)), Found(before)) \ {"linked"}
    /\ UNCHANGED <<path, files, record, links, loaded, gone, held, named>>

-----------------------------------------------------------------------------
(* dependency_injection of every object that was read, then clear_gc. *)

\* What comes of linking node i to what is above it, to the log service above its collection, and
\* to the location of certificates.  That an account has no role does no harm here.
Outcome(i) ==
    {Reached(record[Up(i)], path[i].bare)}
    \cup (IF path[i].entry THEN {Reached(record[Up(Up(i))], path[i].bare)} ELSE {})
    \cup (IF path[i].needs = "location" THEN {Reached(record[Last], "undefined")} ELSE {})
Outcomes == UNION {Outcome(l[1]) : l \in loaded}

Linked(i) ==
    LET objects == {l[2] : l \in {l \in loaded : l[1] = i}}
        latest == IF "second" \in objects THEN "second" ELSE "first"
        slot == path[i].found
    IN IF objects = {} \/ Up(i) \notin Typed THEN links[i]
       ELSE IF path[i].adds THEN links[i] \cup ({slot} \X objects)
       ELSE {l \in links[i] : l[1] # slot} \cup {<<slot, latest>>}

\* Looking for a role that is not there leaves a null entry in g_record, also if another account
\* has been made since in the place of the one that was read.
RoleFound == IF named /\ record[Last] # "none" THEN record[Last] ELSE "null"
HeldLinked ==
    LET objects(what) == {l[2] : l \in {l \in loaded : path[l[1]].needs = what}}
    IN IF objects("role") = {} THEN held \cup objects("location")
       ELSE IF \E i \in Need("role") : record[i] = "made" THEN held \cup ({RoleFound} \cap {"null"})
       ELSE {RoleFound}

\* Of a node in gc the object that was read last is kept.
Kept(isGone, object) == IF isGone /\ object \in {"first", "made"} THEN "deleted" ELSE object

Inject ==
    /\ phase = "inject"
    /\ Outcomes \subseteq {"linked", "skip"}
    /\ links' = [i \in Below |-> {<<l[1], Kept(i \in gone, l[2])>> : l \in Linked(i)}]
    /\ held' = LET source == IF Need("role") # {} THEN {Last} ELSE Need("location")
               IN {Kept(source \cap gone # {}, object) : object \in HeldLinked}
    \* The destructor of a class takes the uri out of g_record, whatever is there by now.
    /\ record' = [i \in Nodes |-> IF i \in gone THEN "none" ELSE record[i]]
    /\ phase' = "init"
    /\ loaded' = {} /\ gone' = {}
    /\ UNCHANGED <<path, files, named>>

\* A faulty variant: what cannot be linked is thrown away.
InjectFailsAndDrops ==
    /\ phase = "inject"
    /\ phase' \in Outcomes \cap {"dead", "undefined"}
    /\ files' = [i \in Nodes |-> IF \E l \in loaded : l[1] = i /\ phase' \in Outcome(i)
                                 THEN "none" ELSE files[i]]
    /\ UNCHANGED <<path, record, links, loaded, gone, held, named>>

InjectFails ==
    /\ phase = "inject"
    /\ phase' \in Outcomes \cap {"dead", "undefined"}
    /\ UNCHANGED <<path, files, record, links, loaded, gone, held, named>>

-----------------------------------------------------------------------------
(* The rest of init_resource, and record_save_json. *)

MadeLast == IF record[0] = "none" THEN Missing(record) ELSE {}

MakeRoot ==
    /\ phase = "init"
    /\ Pushes(MadeLast, record) \subseteq {"linked"}
    /\ phase' = "save"
    /\ record' = [i \in Nodes |-> IF i \in MadeLast \/ (i = 0 /\ record[0] = "none")
                                  THEN "made" ELSE record[i]]
    /\ links' = [i \in Below |-> IF i \in MadeLast THEN Hung(i, "made")
                                 ELSE IF i \in Top /\ record[0] = "none" THEN {} ELSE links[i]]
    /\ held' = IF MadeLast \cap (Need("role") \cup Need("location")) = {} THEN held
               ELSE Given(MadeLast, record)
    /\ UNCHANGED <<path, files, loaded, gone, named>>

MakeRootFails ==
    /\ phase = "init"
    /\ phase' \in Pushes(MadeLast, record) \ {"linked"}
    /\ UNCHANGED <<path, files, record, links, loaded, gone, held, named>>

\* get_json goes through a list that is not there, or reads what has been deleted or has no class.
Doomed == {i \in Typed : \E c \in Below : Up(c) = i /\ path[c].walked /\ links[c] = {}}
Stray ==
    {i \in Typed : \E c \in Below : Up(c) = i /\ \E l \in links[c] : l[2] = "deleted"}
    \cup {i \in Typed \cap Need("role") : held \cap {"bare", "deleted"} # {}}
    \cup {i \in Typed : i = Last /\ Need("location") # {} /\ "deleted" \in held}
Savable == Typed \ (Doomed \cup Stray)

\* An account that was read keeps the name of its role; one that was made may have none.
NamedAfter(done) ==
    IF \E i \in done \cap Need("role") : record[i] = "made" THEN held \ {"null"} # {} ELSE named

\* What has no class has nothing to save, and its file stays what it is.
Save(done) ==
    /\ files' = [i \in Nodes |-> IF i \in done THEN "whole" ELSE files[i]]
    /\ named' = NamedAfter(done)

SaveAll ==
    /\ phase = "save"
    /\ Savable = Typed
    /\ Save(Typed)
    /\ phase' = "delete"
    /\ UNCHANGED <<path, record, links, loaded, gone, held>>

SaveFails ==
    /\ phase = "save"
    /\ \E done \in SUBSET Savable : Save(done)
    /\ \/ Doomed # {} /\ phase' = "dead"
       \/ Stray # {} /\ phase' = "undefined"
    /\ UNCHANGED <<path, record, links, loaded, gone, held>>

Orphans == {i \in Nodes : record[i] = "none" /\ files[i] # "none"}

DeleteOne ==
    /\ phase = "delete"
    /\ \E i \in Orphans : files' = [files EXCEPT ![i] = "none"]
    /\ UNCHANGED <<path, phase, record, links, loaded, gone, held, named>>

\* A faulty variant: files of which there is no resource any more stay.
DeleteNone ==
    /\ phase = "delete"
    /\ phase' = "run"
    /\ UNCHANGED <<path, files, record, links, loaded, gone, held, named>>

\* synchronize_dir_list reads all of g_record again, null entries too.
DeleteEnd ==
    /\ phase = "delete"
    /\ Orphans = {}
    /\ phase' = IF "null" \in held THEN "dead" ELSE "run"
    /\ UNCHANGED <<path, files, record, links, loaded, gone, held, named>>

-----------------------------------------------------------------------------
(* The program goes down. *)

Down ==
    /\ phase' = "down"
    /\ record' = NoRecord /\ links' = NoLinks
    /\ loaded' = {} /\ gone' = {} /\ held' = {}
    /\ UNCHANGED path

Crash ==
    /\ phase # "down"
    /\ UNCHANGED <<files, named>>
    /\ Down

\* In the middle of a save: some files are written, one may have been opened.
SaveCut ==
    /\ phase = "save"
    /\ \E done \in SUBSET Savable : \E open \in {{}} \cup {{i} : i \in Savable \ done} :
          /\ files' = [i \in Nodes |-> IF i \in done THEN "whole"
                                       ELSE IF i \in open THEN "torn" ELSE files[i]]
          /\ named' = NamedAfter(done)
    /\ Down

\* While a request saves one resource.
WriteCut ==
    /\ phase = "run"
    /\ \E i \in Typed : files' = [files EXCEPT ![i] = "torn"]
    /\ UNCHANGED named
    /\ Down

Next ==
    \/ Load \/ LoadFails \/ Inject \/ InjectFails \/ MakeRoot \/ MakeRootFails
    \/ SaveAll \/ SaveFails \/ DeleteOne \/ DeleteEnd
    \/ Crash \/ SaveCut \/ WriteCut

Spec == Init /\ [][Next]_vars

-----------------------------------------------------------------------------
\* Every variable has its type; once a start is through, what has a class has a whole file and
\* what has no entry has none.
TypeOK ==
    /\ path \in Seq(Children)
    /\ phase \in {"down", "inject", "init", "save", "delete", "run", "dead", "undefined"}
    /\ files \in [Nodes -> {"none", "torn", "whole"}]
    /\ record \in [Nodes -> {"none", "bare"} \cup Objects]
    /\ \A i \in Below : links[i] \subseteq {path[i].slot, path[i].found} \X (Objects \cup {"deleted"})
    /\ loaded \subseteq Below \X Objects /\ gone \subseteq Below
    /\ held \subseteq {"null", "bare", "deleted"} \cup Objects /\ named \in BOOLEAN
    /\ phase = "run" =>
          \A i \in Nodes : /\ i \in Typed => files[i] = "whole"
                           /\ record[i] = "none" => files[i] = "none"

\* If no file is missing, every resource whose own file and those above it are whole comes
\* back from a start in whatever order the entries were met: it has its class, and the object
\* above it holds it and nothing else, where init_* had put it.  Of the two inventories this
\* is not so: each comes back in the place of the other.
WholeComesBack ==
    (phase = "save" /\ \A i \in Nodes : files[i] # "none") =>
        \A i \in Below :
            (\A j \in {0} \cup Line(i) : files[j] = "whole")
                => /\ i \in Typed
                   /\ links[i] = {<<IF path[1].slot = "update_service" THEN path[i].found
                                    ELSE path[i].slot, record[i]>>}

\* A file is missing that a start goes to for a whole one: the one right above it, that of the
\* log service above a log entry, that of the location of certificates for a certificate.
LinkHole ==
    \E i \in Below :
        files[i] = "whole" /\ \/ files[Up(i)] = "none"
                              \/ path[i].entry /\ files[Up(Up(i))] = "none"
                              \/ path[i].needs = "location" /\ files[Last] = "none"

\* What is above a list is whole and the list is not.
ListHole == \E i \in Below : path[i].walked /\ files[Up(i)] = "whole" /\ files[i] # "whole"

\* A start dies on a null pointer only for one of four reasons: a file is missing that it goes to
\* for a whole one; a list was not read that saving the object above it goes through, as its file
\* is not whole or the loop has skipped it while the root was making something; the location of
\* certificates has no file and the first certificate is to be made; or the role of an account
\* has no file.  So a file that a crash has left half written
\* never does it alone, unless it is that of a list.
DeadHasHole ==
    phase = "dead" =>
        \/ LinkHole
        \/ \E i \in Below : /\ path[i].walked /\ Up(i) \in Typed
                            /\ record[i] \notin {"first", "second"}
                            /\ files[i] # "whole" \/ \E t \in Top : record[t] = "made"
        \/ files[Last] = "none" /\ Last \notin Missing(files)
           /\ Missing(files) \cap Need("location") # {}
        \/ Need("role") # {} /\ files[Last] = "none"

\* A start that has died where there is such a hole between the files dies again for good, if all
\* that is right below the root has a file, as nothing is then made: no later start comes to run,
\* in whatever order it meets the files and wherever its save is cut off.
DeadForGood ==
    [](phase = "dead" /\ (\A t \in Top : files[t] # "none") /\ (LinkHole \/ ListHole)
          => [](phase # "run"))
=============================================================================
