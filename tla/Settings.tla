-------------------------------- MODULE Settings --------------------------------
(***************************************************************************)
(* The life of one resource: it is made at the first start, on a request   *)
(* or as a copy of a module's, its file is written, PATCH requests change  *)
(* it (treat_uri_cmm_patch), the program goes down at any moment and       *)
(* starts again, and what is read from the file is the resource again      *)
(* (record_load_json, record_save_json, Resource::save_json).              *)
(*                                                                         *)
(* Members that no handler and no table treats together are independent:   *)
(* a behaviour follows a few members of the resource, its focus.  The      *)
(* requests come one at a time here; whether the resource hangs in its     *)
(* parents again is ResourceTree's matter.                                 *)
(***************************************************************************)
EXTENDS PatchHandlers

CONSTANT Groups     \* for some classes, sets of members to follow together

ASSUME GroupAssumption ==
    \A k \in DOMAIN Groups : k \in Kinds /\ \A g \in Groups[k] : g \subseteq DOMAIN Shown[k]

VARIABLES
    kind,       \* the class
    maker,      \* what made it: "init", "request" or "module"
    pc,         \* where the program is with it
    mem,        \* its members in memory; while the program is down, what they were
    file,       \* NoFile, Torn, or what its file has
    asked,      \* the body of the request under way
    answered,   \* the members when a client was last told of them
    saved       \* pc after the file is written

vars == <<kind, maker, pc, mem, file, asked, answered, saved>>

NoFile == [none |-> "blank"]
Torn == [torn |-> "blank"]
NotYet == [notYet |-> "blank"]
Whole == file \notin {NoFile, Torn}
Focus == DOMAIN mem
Nothing == [m \in {} |-> "a"]

Foci(k) ==
    {{m} : m \in DOMAIN Shown[k]} \cup (IF k \in DOMAIN Groups THEN Groups[k] ELSE {})

\* A faulty variant: no constructor gives its members a first value.
ConstructedBare(k, m) == "junk"

\* What a constructor leaves in a member that nothing gives a value.
Constructed(k, m) == IF m \in UnsetOf[k] THEN "junk" ELSE "blank"

Made(k, how, focus) ==
    [m \in focus |-> IF m \in Leaves(k, how) THEN Constructed(k, m)
                     ELSE IF how = "module" THEN "module" ELSE InitValue(m)]

Init ==
    /\ kind \in Kinds
    /\ maker \in Makers(kind)
    /\ mem \in {Made(kind, maker, f) : f \in Foci(kind)}
    /\ pc = "open" /\ saved = "run"
    /\ file = NoFile
    /\ asked = Nothing
    /\ answered = NotYet

-----------------------------------------------------------------------------
(* Resource::save_json: the file is emptied, then it has what the members are.  *)

Open ==
    /\ pc = "open"
    /\ file' = Torn
    /\ pc' = "write"
    /\ UNCHANGED <<kind, maker, mem, asked, answered, saved>>

\* After the first save, and after every start, clients can see the resource.
Write ==
    /\ pc = "write"
    /\ file' = mem
    /\ pc' = saved
    /\ answered' = IF saved = "run" THEN mem ELSE answered
    /\ UNCHANGED <<kind, maker, mem, asked, saved>>

-----------------------------------------------------------------------------
(* treat_uri_cmm_patch.  A PATCH for a resource of a module is passed on to the *)
(* module: its copy here has no handler.                                        *)

HasHandler == kind \in DOMAIN Patchable /\ maker # "module"

Bodies ==
    UNION {{b \in [ms -> {"a", "b", "bad"}] :
                \A m \in ms : b[m] = "bad" => CanBeBad(kind, m)} :
           ms \in SUBSET (Focus \cap Patchable[kind])}

\* A faulty variant: the answer goes out before the file is written.
PatchAcceptedUnsaved ==
    /\ pc = "run" /\ HasHandler
    /\ \E b \in Bodies :
          LET done == Patched(kind, mem, b) IN
          /\ done.ok
          /\ mem' = done.mem
          /\ asked' = b
    /\ pc' = "answer" /\ saved' = "answer"
    /\ UNCHANGED <<kind, maker, file, answered>>

\* The handler runs through; what it answers OK is saved first.
PatchAccepted ==
    /\ pc = "run" /\ HasHandler
    /\ \E b \in Bodies :
          LET done == Patched(kind, mem, b) IN
          /\ done.ok
          /\ mem' = done.mem
          /\ asked' = b
    /\ pc' = "open" /\ saved' = "answer"
    /\ UNCHANGED <<kind, maker, file, answered>>

\* An error answer: nothing is saved and nothing is undone.
PatchRefused ==
    /\ pc = "run" /\ HasHandler
    /\ \E b \in Bodies :
          LET done == Patched(kind, mem, b) IN
          /\ ~done.ok
          /\ mem' = done.mem
    /\ UNCHANGED <<kind, maker, pc, file, asked, answered, saved>>

\* success_reply, with what the resource is now.
Answer ==
    /\ pc = "answer"
    /\ pc' = "run"
    /\ answered' = mem
    /\ asked' = Nothing
    /\ UNCHANGED <<kind, maker, mem, file, saved>>

\* PATCH .../FanMode sets the reading of every fan of the chassis from its greatest reading,
\* which nothing ever sets, and saves the fan before it answers; an automatic mode sets none
\* that has no temperature sensor.
PatchFanMode ==
    /\ pc = "run" /\ kind = "Fan" /\ maker = "init"
    /\ mem' \in {mem, IF "Reading" \in Focus THEN [mem EXCEPT !["Reading"] = "junk"] ELSE mem}
    /\ pc' = "open" /\ saved' = "answer"
    /\ UNCHANGED <<kind, maker, file, asked, answered>>

\* A module that has gone is added again: what is known of its software is read into the
\* resource there is, and load_json adds to vectors.
AddModuleAgain ==
    /\ pc = "run" /\ kind = "SoftwareInventory" /\ maker = "module"
    /\ mem' = [m \in Focus |-> IF m = "UefiDevicePaths" THEN "both" ELSE "module"]
    /\ pc' = "open" /\ saved' = "run"
    /\ UNCHANGED <<kind, maker, file, asked, answered>>

-----------------------------------------------------------------------------
(* The program goes down and starts again. *)

Crash ==
    /\ pc # "down"
    /\ pc' = "down"
    /\ asked' = Nothing
    /\ UNCHANGED <<kind, maker, mem, file, answered, saved>>

\* A faulty variant: what is read goes where it was read from.
LoadedByKey(k, content) ==
    [key \in {Shown[k][m] : m \in DOMAIN content} |->
        IF key \in DOMAIN content THEN content[key] ELSE "other"]

\* load_json of the class, on what its constructor has made.
Loaded(k, content) ==
    [m \in DOMAIN content |->
        LET key == Shown[k][m] IN
        IF key = NotRead THEN Constructed(k, m)
        ELSE IF key \in DOMAIN content THEN content[key] ELSE "other"]

Load ==
    /\ pc = "down" /\ Whole /\ kind \notin MadeAnew
    /\ mem' = Loaded(kind, file)
    /\ pc' = "open" /\ saved' = "run"
    /\ UNCHANGED <<kind, maker, file, asked, answered>>

\* The service root whose file is whole and the message registry are made again.
MakeAnew ==
    /\ pc = "down" /\ kind \in MadeAnew
    /\ Whole \/ file = NoFile \/ kind = "MessageRegistry"
    /\ mem' = Made(kind, maker, Focus)
    /\ pc' = "open" /\ saved' = "run"
    /\ UNCHANGED <<kind, maker, file, asked, answered>>

\* A faulty variant: whoever made it, it is made again as at the first start.
MakeMissingAnyones ==
    /\ pc = "down" /\ file = NoFile /\ kind \notin MadeAnew
    /\ "init" \in Makers(kind)
    /\ mem' = Made(kind, "init", Focus)
    /\ pc' = "open" /\ saved' = "run"
    /\ UNCHANGED <<kind, maker, file, asked, answered>>

\* Without a file it is made again or not, as its parents are (ResourceTree).
MakeMissing ==
    /\ pc = "down" /\ file = NoFile /\ kind \notin MadeAnew
    /\ maker = "init"
    /\ mem' = Made(kind, maker, Focus)
    /\ pc' = "open" /\ saved' = "run"
    /\ UNCHANGED <<kind, maker, file, asked, answered>>

\* Of a torn file there is a Resource without a class, which has nothing to show and is not
\* saved; without a file there is nothing.
Lose ==
    /\ pc = "down"
    /\ \/ file = Torn /\ kind # "MessageRegistry"
       \/ file = NoFile /\ kind \notin MadeAnew
    /\ pc' = "lost"
    /\ UNCHANGED <<kind, maker, mem, file, asked, answered, saved>>

Next ==
    \/ Open \/ Write \/ PatchAccepted \/ PatchRefused \/ Answer \/ PatchFanMode
    \/ AddModuleAgain \/ Crash \/ Load \/ MakeAnew \/ MakeMissing \/ Lose

Spec == Init /\ [][Next]_vars

-----------------------------------------------------------------------------
\* A step that handles a request: refused, the program goes on with the next.
Patching == pc = "run" /\ pc' \in {"open", "run"} /\ HasHandler

Values == {"init", "module", "blank", "junk", "a", "b", "other", "both"}

\* Every variable has its type, and a file that is whole has the members followed.
TypeOK ==
    /\ kind \in Kinds /\ maker \in Makers(kind)
    /\ pc \in {"open", "write", "run", "answer", "down", "lost"}
    /\ saved \in {"run", "answer"}
    /\ Focus \in Foci(kind) /\ mem \in [Focus -> Values]
    /\ file \in {NoFile, Torn} \cup [Focus -> Values]
    /\ answered \in {NotYet} \cup [Focus -> Values]
    /\ DOMAIN asked \subseteq Focus

\* The members a class shows and does not get back from its file.
Forgotten == [
    NetworkProtocol |-> Inside("SSH", Switch) \cup Inside("VirtualMedia", Switch),
    Systems |-> {"BiosVersion"}, Drive |-> {"MediaType", "Identifiers"},
    SimpleStorage |-> {"Devices.FileSystem"}, PowerControl |-> {"PowerAllocatedWatts"},
    Certificate |-> {"Name"}] @@ [k \in Kinds |-> {}]

\* What a resource is after a restart on a whole file is one of two things, in all its
\* members: what clients were last told, or what it was when the program went down; never
\* some of each and never anything older.  The members above are the exceptions.
RestartKeeps ==
    [][Load => \E whole \in {answered, mem} \ {NotYet} :
                  \A m \in Focus \ Forgotten[kind] : mem'[m] = whole[m]]_vars

\* The members that are only taken on terms: those of a protocol or a password that is
\* looked at with its switch, and the version switches of SNMP.
OnTerms ==
    (DOMAIN SnmpMembers \cup DOMAIN NtpMembers \cup {"LDAP.Authentication"})
    \ {"SNMP.ProtocolEnabled", "NTP.ProtocolEnabled"}

\* An answer OK means that every value that was asked for and would do is there, however
\* many members were asked for at once: only the LDAP directory may be off again, for the
\* other that was asked for too.
AcceptedIsApplied ==
    pc = "answer" =>
        \A m \in DOMAIN asked \ OnTerms :
            \/ asked[m] \in {"bad", mem[m]}
            \/ m = "LDAP.ServiceEnabled" /\ asked["ActiveDirectory.ServiceEnabled"] = On

\* LDAP and the active directory are never both on, whatever switches come together and
\* wherever a handler stops: users are looked up in one directory.
OneDirectory ==
    ({"LDAP.ServiceEnabled", "ActiveDirectory.ServiceEnabled"} \subseteq Focus)
        => ~(mem["LDAP.ServiceEnabled"] = On /\ mem["ActiveDirectory.ServiceEnabled"] = On)

\* The least length of a password never passes the greatest, whether one of them is changed
\* or both, in memory and in the file.
PasswordLimitsOrdered ==
    \A held \in {mem, file} :
        ({MinLength, MaxLength} \subseteq DOMAIN held)
            => Length(MinLength, held[MinLength]) <= Length(MaxLength, held[MaxLength])

\* A request changes what belongs to the time servers only while they are used, and the
\* clock and the time zone only while they are not; a request that is refused for its date
\* has changed none of it.
ServersOrClock ==
    [][Patching /\ "NTP.ProtocolEnabled" \in Focus =>
        LET Changed(ms) == \E m \in ms \cap Focus : mem'[m] # mem[m]
            servers == Changed({"NTP.PrimaryNTPServer", "NTP.SecondaryNTPServer"})
            clock == Changed({"NTP.Date", "NTP.Time", "NTP.TimeZone"})
        IN /\ servers => mem'["NTP.ProtocolEnabled"] = On
           /\ clock => mem'["NTP.ProtocolEnabled"] = Off /\ pc' = "open"]_vars

\* A request that is refused has changed nothing, but for the account service, the network
\* protocol and the log services.
RefusedChangesNothing ==
    [][Patching /\ pc' = "run" =>
          mem' = mem \/ kind \in {"AccountService", "NetworkProtocol", "LogService"}]_vars

\* The members of a copy that are not the module's: what is not copied or not read back,
\* the watts read from another key, and the paths once the module has been added again.
CopyLoses == [
    Systems |-> {"Name", "BiosVersion"}, Storage |-> {"Name"}, StorageControllers |-> {"Name"},
    SoftwareInventory |-> {"UefiDevicePaths"}] @@ Forgotten

\* A copy of a module's resource tells of the module what the module tells, through crashes,
\* restarts and the module's coming again.
CopyTellsModule ==
    pc = "run" /\ maker = "module"
        => \A m \in Focus \ CopyLoses[kind] : mem[m] = "module"

\* The members that are shown though nothing has ever given them a value: the readings of
\* the chassis' own sensors, and a few others; after a restart two switches too.
Uninitialised ==
    [k \in {"Temperature", "Fan", "Voltage", "PowerSupply", "PowerControl"} |-> UnsetOf[k]]
    @@ [Role |-> {"IsPredefined"}, Certificate |-> {"KeyBitLength"},
        Memory |-> {"RankCount", "DataWidthBits", "BusWidthBits", "MemoryLocation"},
        NetworkProtocol |-> Forgotten["NetworkProtocol"]]
    @@ [k \in Kinds |-> {}]

\* Nothing else that a client is shown was left as the memory was, whoever made the resource
\* and however often it has been read from its file.
NothingUninitialised ==
    pc = "run" => \A m \in Focus : mem[m] = "junk" => m \in Uninitialised[kind]

-----------------------------------------------------------------------------
(* What the tables say of one another.  They have no parameters: what these name is *)
(* evaluated in full.                                                                *)

\* No member has the name of a mark, and what is not forgotten is read from where it is shown.
ASSUME ReadBackAssumption ==
    \A k \in Kinds :
        /\ {"none", "torn", "notYet", NotRead} \cap DOMAIN Shown[k] = {}
        /\ k \notin MadeAnew => \A m \in DOMAIN Shown[k] \ Forgotten[k] : Shown[k][m] = m

\* The account service is made with all its members; no other class has its limits or its
\* directories, and none but the network protocol has the switch of the time servers.
ASSUME HoldersAssumption ==
    /\ Leaves("AccountService", "init") \cup Forgotten["AccountService"] = {}
    /\ \A k \in Kinds :
          \/ MinLength \in DOMAIN Shown[k] \/ "LDAP.ServiceEnabled" \in DOMAIN Shown[k]
          => k = "AccountService" /\ Makers(k) = {"init"}
    /\ \A k \in Kinds : "NTP.ProtocolEnabled" \in DOMAIN Shown[k] => k = "NetworkProtocol"

\* A copy has what is not copied from the module among what it loses.
ASSUME CopyAssumption ==
    /\ \A k \in Kinds :
          "module" \in Makers(k) => Leaves(k, "module") \cup Forgotten[k] \subseteq CopyLoses[k]
    /\ "UefiDevicePaths" \in CopyLoses["SoftwareInventory"]

\* What nothing gives a value, when a resource is made or when it is read from its file.
ASSUME UnsetAssumption ==
    /\ "Reading" \in Uninitialised["Fan"]
    /\ \A k \in Kinds :
          /\ \A how \in Makers(k) : Leaves(k, how) \cap UnsetOf[k] \subseteq Uninitialised[k]
          /\ k \notin MadeAnew =>
                \A m \in DOMAIN Shown[k] :
                    IF Shown[k][m] = NotRead THEN m \in UnsetOf[k] => m \in Uninitialised[k]
                    ELSE Shown[k][m] \in Uninitialised[k] => m \in Uninitialised[k]
=============================================================================
