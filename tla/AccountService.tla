---------------------------- MODULE AccountService ----------------------------
(***************************************************************************)
(* Accounts, roles and sessions of the chassis manager: the resources the  *)
(* request handlers of task.cpp create, change and delete in g_record, the *)
(* timer task of every session, the json files the resources are saved to, *)
(* and the crash and restart that leave only those files.                  *)
(*                                                                         *)
(* One request is one step here: a handler that runs alone.  What happens  *)
(* when handlers and timer tasks interleave inside a request is the        *)
(* subject of SessionTimer.                                                *)
(*                                                                         *)
(* A resource is a record, or Null when g_record has no entry for its uri. *)
(* The collection a resource is a member of changes in the same handlers   *)
(* and has the same members, so it is not a variable of its own.  Account  *)
(* and Session hold two references: the uri of the object they refer to    *)
(* (role_id, account_id), which is what is saved, and a pointer to it      *)
(* (role, account).  The pointer is represented by roleLive and ownerLive: *)
(* FALSE once the object it points at is deleted.  What the code reads     *)
(* through such a pointer is undefined.                                    *)
(***************************************************************************)
EXTENDS NumberSet, FiniteSets

CONSTANTS
    UserNames,      \* the user names clients use, "root" and "admin" among them
    CustomRoles,    \* the RoleIds clients create
    AskedRoles,     \* bound: the RoleIds clients give to accounts
    Asked,          \* bound: the privileges clients give to roles
    Timeouts,       \* bound: the values clients PATCH into SessionTimeout
    Toggles,        \* bound: the values clients PATCH into ServiceEnabled
    InitTimeout,    \* SessionTimeout of a fresh installation
    MaxAccounts,    \* bound: how many accounts exist at a time
    Null

PredefinedRoles == {"Administrator", "Operator", "ReadOnly"}
RoleIds == PredefinedRoles \cup CustomRoles

Privileges == {"Login", "ConfigureManager", "ConfigureUsers", "ConfigureSelf",
               "ConfigureComponents"}

AccountIds == Numbers
SessionIds == Numbers \ {0}

Role == [predefined : BOOLEAN, privileges : SUBSET Privileges]
Account == [name : UserNames, role : RoleIds, roleLive : BOOLEAN]
Session == [owner : AccountIds, ownerLive : BOOLEAN, remain : Nat]

\* What the files hold: the uris of an object's references and no pointer.
AccountFile == [name : UserNames, role : RoleIds]
SessionFile == [owner : AccountIds]

ASSUME NameAssumption == {"root", "admin"} \subseteq UserNames
ASSUME TimeoutAssumption == Timeouts \subseteq Nat /\ InitTimeout \in Nat
ASSUME RoleAssumption ==
    /\ CustomRoles \cap PredefinedRoles = {}
    /\ AskedRoles \subseteq RoleIds
    /\ Asked \subseteq Privileges
    /\ Toggles \subseteq BOOLEAN
ASSUME NullAssumption ==
    Null \notin Role \cup Account \cup Session \cup AccountFile \cup SessionFile

VARIABLES
    proc,           \* "down", "loading" (inside init_resource) or "up"
    roles,          \* the Role objects of g_record
    accounts,       \* the Account objects of g_record
    sessions,       \* the Session objects of g_record
    accNums,        \* numset[ALLOCATE_ACCOUNT_NUM]
    accLast,        \* numset_num[ALLOCATE_ACCOUNT_NUM]
    sesNums,        \* numset[ALLOCATE_SESSION_NUM]
    sesLast,        \* numset_num[ALLOCATE_SESSION_NUM]
    accEnabled,     \* AccountService.service_enabled
    sesEnabled,     \* SessionService.service_enabled
    timeout,        \* SessionService.session_timeout
    disk            \* the json files

numVars == <<accNums, accLast, sesNums, sesLast>>
serviceVars == <<accEnabled, sesEnabled, timeout>>
vars == <<proc, roles, accounts, sessions, numVars, serviceVars, disk>>

Live(f) == {x \in DOMAIN f : f[x] # Null}
Remove(f, x) == [f EXCEPT ![x] = Null]

AccountImage(a) == IF a = Null THEN Null ELSE [name |-> a.name, role |-> a.role]
SessionImage(s) == IF s = Null THEN Null ELSE [owner |-> s.owner]

-----------------------------------------------------------------------------
(* The first start: init_account_service and init_session_service.         *)

InitPrivileges(r) ==
    CASE r = "Administrator" -> Privileges
      [] r = "Operator" -> {"Login", "ConfigureSelf", "ConfigureComponents"}
      [] r = "ReadOnly" -> {"Login", "ConfigureSelf"}

InitRoles == [r \in RoleIds |->
    IF r \in PredefinedRoles
    THEN [predefined |-> TRUE, privileges |-> InitPrivileges(r)]
    ELSE Null]

InitAccounts == [a \in AccountIds |->
    CASE a = 0 -> [name |-> "root", role |-> "Administrator", roleLive |-> TRUE]
      [] a = 1 -> [name |-> "admin", role |-> "Administrator", roleLive |-> TRUE]
      [] OTHER -> Null]

Init ==
    /\ proc = "up"
    /\ roles = InitRoles
    /\ accounts = InitAccounts
    /\ sessions = [s \in SessionIds |-> Null]
    /\ accNums = {0, 1}
    /\ accLast = 1
    /\ sesNums = {}
    /\ sesLast = 1
    /\ accEnabled = TRUE
    /\ sesEnabled = TRUE
    /\ timeout = InitTimeout
    /\ disk = [roles |-> InitRoles,
               accounts |-> [a \in AccountIds |-> AccountImage(InitAccounts[a])],
               sessions |-> [s \in SessionIds |-> Null],
               accEnabled |-> TRUE,
               sesEnabled |-> TRUE,
               timeout |-> InitTimeout]

-----------------------------------------------------------------------------
(* Who asks.  A request carries the token of a session; tokens are random  *)
(* and never repeat, so a token is named by its session.                   *)

\* is_session_valid: the token is that of a member of the session collection
\* with time left.
SessionValid(s) == sessions[s] # Null /\ sessions[s].remain > 0

\* What session->account->role->id == "Administrator" may give.
AdminSeen(s) ==
    LET owner == accounts[sessions[s].owner] IN
    IF sessions[s].ownerLive /\ owner # Null /\ owner.roleLive
    THEN {owner.role = "Administrator"}
    ELSE BOOLEAN

\* What session->account->id == <id of account a> may give.
SelfSeen(s, a) ==
    IF sessions[s].ownerLive THEN {sessions[s].owner = a} ELSE BOOLEAN

Admin(s) == SessionValid(s) /\ TRUE \in AdminSeen(s)

\* A faulty variant: the duplicate check is missing.
NameNeverUsed(n, others) == FALSE

NameUsed(n, others) == \E b \in others : accounts[b] # Null /\ accounts[b].name = n

-----------------------------------------------------------------------------
(* Requests on roles.                                                      *)

\* POST Roles with privileges P.  The constructor of Role leaves is_predefined unset, so what
\* it holds, and what the file says of it from then on, is arbitrary.
MakeRole(s, r, P) ==
    /\ proc = "up" /\ accEnabled
    /\ Admin(s)
    /\ roles[r] = Null
    /\ P # {}
    /\ \E predefined \in BOOLEAN :
         LET role == [predefined |-> predefined, privileges |-> P]
         IN /\ roles' = [roles EXCEPT ![r] = role]
            /\ disk' = [disk EXCEPT !.roles[r] = role]
    /\ UNCHANGED <<proc, accounts, sessions, numVars, serviceVars>>

\* PATCH Roles/<r> adds privileges P; it can take none away.
ModifyRole(s, r, P) ==
    /\ proc = "up" /\ accEnabled
    /\ Admin(s)
    /\ roles[r] # Null
    /\ LET role == [roles[r] EXCEPT !.privileges = @ \cup P]
       IN /\ roles' = [roles EXCEPT ![r] = role]
          /\ disk' = [disk EXCEPT !.roles[r] = role]
    /\ UNCHANGED <<proc, accounts, sessions, numVars, serviceVars>>

\* A faulty variant: is_predefined is not looked at.
RemoveAnyRole(s, r) ==
    /\ proc = "up" /\ accEnabled
    /\ Admin(s)
    /\ roles[r] # Null
    /\ roles' = Remove(roles, r)
    /\ disk' = [disk EXCEPT !.roles[r] = Null]
    /\ UNCHANGED <<proc, accounts, sessions, numVars, serviceVars>>

\* DELETE Roles/<r>.  The loop that should move the accounts of the role to
\* ReadOnly compares Account::role_id, a uri, with Role::id, the last
\* component of it; no account matches, and none is changed.
RemoveRole(s, r) ==
    /\ proc = "up" /\ accEnabled
    /\ Admin(s)
    /\ roles[r] # Null
    /\ ~roles[r].predefined
    /\ roles' = Remove(roles, r)
    /\ accounts' = [a \in AccountIds |->
         IF accounts[a] # Null /\ accounts[a].role = r
         THEN [accounts[a] EXCEPT !.roleLive = FALSE]
         ELSE accounts[a]]
    /\ disk' = [disk EXCEPT !.roles[r] = Null]
    /\ UNCHANGED <<proc, sessions, numVars, serviceVars>>

-----------------------------------------------------------------------------
(* Requests on accounts.                                                   *)

\* POST Accounts.  The password checks are left to the client: it may always
\* send a password the policy allows.
MakeAccount(n, r) ==
    /\ proc = "up" /\ accEnabled
    /\ Cardinality(Live(accounts)) < MaxAccounts
    /\ ~NameUsed(n, AccountIds)
    /\ roles[r] # Null
    /\ \E i \in AccountIds :
         /\ Allocates(i, accNums, accLast)
         /\ accNums' = accNums \cup {i}
         /\ accLast' = i
         /\ accounts' = [accounts EXCEPT ![i] = [name |-> n, role |-> r, roleLive |-> TRUE]]
         /\ disk' = [disk EXCEPT !.accounts[i] = [name |-> n, role |-> r]]
    /\ UNCHANGED <<proc, roles, sessions, sesNums, sesLast, serviceVars>>

\* PATCH Accounts/<a> with a UserName (n), a RoleId (r), or both; Null is a
\* member the body does not have.  Only the handlers of this request do not
\* look at service_enabled.  An administrator may change both, the owner the
\* name alone: the RoleId of anybody else is ignored.
ModifyAccount(s, a, n, r) ==
    /\ proc = "up"
    /\ accounts[a] # Null
    /\ SessionValid(s)
    /\ \E admin \in AdminSeen(s), self \in SelfSeen(s, a) :
         /\ admin \/ (self /\ r = Null)
         /\ n # Null \/ r # Null
    /\ r # Null => roles[r] # Null
    /\ n # Null => ~NameUsed(n, AccountIds \ {a})
    /\ LET acc == [name |-> IF n = Null THEN accounts[a].name ELSE n,
                   role |-> IF r = Null THEN accounts[a].role ELSE r,
                   roleLive |-> r # Null \/ accounts[a].roleLive]
       IN /\ accounts' = [accounts EXCEPT ![a] = acc]
          /\ disk' = [disk EXCEPT !.accounts[a] = AccountImage(acc)]
    /\ UNCHANGED <<proc, roles, sessions, numVars, serviceVars>>

\* A faulty variant: delete_resource runs before the object is deleted, finds
\* it in g_record and keeps the file.
RemoveAccountFileFirst(a) ==
    /\ proc = "up" /\ accEnabled
    /\ accounts[a] # Null
    /\ accNums' = accNums \ {a}
    /\ accounts' = Remove(accounts, a)
    /\ UNCHANGED <<proc, roles, sessions, accLast, sesNums, sesLast, serviceVars, disk>>

\* DELETE Accounts/<a>.  No session is looked at, neither the client's nor
\* those of the account: they keep a pointer to the deleted object.
RemoveAccount(a) ==
    /\ proc = "up" /\ accEnabled
    /\ accounts[a] # Null
    /\ accNums' = accNums \ {a}
    /\ accounts' = Remove(accounts, a)
    /\ sessions' = [s \in SessionIds |->
         IF sessions[s] # Null /\ sessions[s].owner = a
         THEN [sessions[s] EXCEPT !.ownerLive = FALSE]
         ELSE sessions[s]]
    /\ disk' = [disk EXCEPT !.accounts[a] = Null]
    /\ UNCHANGED <<proc, roles, accLast, sesNums, sesLast, serviceVars>>

\* PATCH AccountService.  A handler that gives up on a later member of the
\* body answers with an error and does not save what it has changed already.
PatchAccountService(enabled, complete) ==
    /\ proc = "up"
    /\ accEnabled' = enabled
    /\ disk' = IF complete THEN [disk EXCEPT !.accEnabled = enabled] ELSE disk
    /\ UNCHANGED <<proc, roles, accounts, sessions, numVars, sesEnabled, timeout>>

-----------------------------------------------------------------------------
(* Requests on sessions.                                                   *)

\* POST Sessions: the login of account a.
MakeSession(a) ==
    /\ proc = "up" /\ sesEnabled
    /\ accounts[a] # Null
    /\ \E i \in SessionIds :
         /\ Allocates(i, sesNums, sesLast)
         /\ sesNums' = sesNums \cup {i}
         /\ sesLast' = i
         /\ sessions' = [sessions EXCEPT
              ![i] = [owner |-> a, ownerLive |-> TRUE, remain |-> timeout]]
         /\ disk' = [disk EXCEPT !.sessions[i] = [owner |-> a]]
    /\ UNCHANGED <<proc, roles, accounts, accNums, accLast, serviceVars>>

\* DELETE Sessions: the logout.  It leaves the removal to the timer task.
RemoveSession(s) ==
    /\ proc = "up" /\ sesEnabled
    /\ SessionValid(s)
    /\ sessions' = [sessions EXCEPT ![s].remain = 0]
    /\ UNCHANGED <<proc, roles, accounts, numVars, serviceVars, disk>>

\* Faulty variants: running sessions keep their time, or start it again.
NotShortened(s, t) == sessions[s]

StartedAgain(s, t) ==
    IF sessions[s] # Null THEN [sessions[s] EXCEPT !.remain = t] ELSE Null

\* The time a session has left when SessionTimeout becomes t.
Shortened(s, t) ==
    IF sessions[s] # Null /\ sessions[s].remain > t
    THEN [sessions[s] EXCEPT !.remain = t]
    ELSE sessions[s]

\* PATCH SessionService: any SessionTimeout is accepted.
PatchSessionService(t, enabled) ==
    /\ proc = "up"
    /\ timeout' = t
    /\ sesEnabled' = enabled
    /\ sessions' = [s \in SessionIds |-> Shortened(s, t)]
    /\ disk' = [disk EXCEPT !.timeout = t, !.sesEnabled = enabled]
    /\ UNCHANGED <<proc, roles, accounts, numVars, accEnabled>>

\* A faulty variant: the timer counts down without looking.
SessionTickUnchecked(s) ==
    /\ proc = "up"
    /\ sessions[s] # Null
    /\ sessions' = [sessions EXCEPT ![s].remain = @ - 1]
    /\ UNCHANGED <<proc, roles, accounts, numVars, serviceVars, disk>>

\* The timer of a session fires every second and counts down.
SessionTick(s) ==
    /\ proc = "up"
    /\ SessionValid(s)
    /\ sessions' = [sessions EXCEPT ![s].remain = @ - 1]
    /\ UNCHANGED <<proc, roles, accounts, numVars, serviceVars, disk>>

\* A faulty variant: the number of the session stays in use.
SessionExpireKeepsNumber(s) ==
    /\ proc = "up"
    /\ sessions[s] # Null
    /\ sessions[s].remain = 0
    /\ sessions' = Remove(sessions, s)
    /\ disk' = [disk EXCEPT !.sessions[s] = Null]
    /\ UNCHANGED <<proc, roles, accounts, numVars, serviceVars>>

\* At zero the timer is not set again, and the continuation of the task
\* deletes the session.
SessionExpire(s) ==
    /\ proc = "up"
    /\ sessions[s] # Null
    /\ sessions[s].remain = 0
    /\ sessions' = Remove(sessions, s)
    /\ sesNums' = sesNums \ {s}
    /\ disk' = [disk EXCEPT !.sessions[s] = Null]
    /\ UNCHANGED <<proc, roles, accounts, accNums, accLast, sesLast, serviceVars>>

-----------------------------------------------------------------------------
(* Crash and restart.                                                      *)

\* The memory of a process that does not run.
MemoryLost ==
    /\ proc' = "down"
    /\ roles' = [r \in RoleIds |-> Null]
    /\ accounts' = [a \in AccountIds |-> Null]
    /\ sessions' = [s \in SessionIds |-> Null]
    /\ accNums' = {} /\ accLast' = 0
    /\ sesNums' = {} /\ sesLast' = 1
    /\ accEnabled' = FALSE /\ sesEnabled' = FALSE /\ timeout' = 0
    /\ UNCHANGED disk

Crash == proc # "down" /\ MemoryLost

\* record_load_json: an object for every file, then dependency_injection
\* resolves the references and puts the numbers in use back into the numsets.
\* A reference to a uri without a file becomes a null entry of g_record.
RecordLoadJson ==
    /\ proc = "down"
    /\ proc' = "loading"
    /\ roles' = disk.roles
    /\ accounts' = [a \in AccountIds |->
         IF disk.accounts[a] = Null THEN Null
         ELSE [name |-> disk.accounts[a].name,
               role |-> disk.accounts[a].role,
               roleLive |-> disk.roles[disk.accounts[a].role] # Null]]
    /\ sessions' = [s \in SessionIds |->
         IF disk.sessions[s] = Null THEN Null
         ELSE [owner |-> disk.sessions[s].owner,
               ownerLive |-> disk.accounts[disk.sessions[s].owner] # Null,
               remain |-> disk.timeout]]
    /\ accNums' = Live(disk.accounts) /\ accLast' = 0
    /\ sesNums' = Live(disk.sessions) /\ sesLast' = 1
    /\ accEnabled' = disk.accEnabled
    /\ sesEnabled' = disk.sesEnabled
    /\ timeout' = disk.timeout
    /\ UNCHANGED disk

\* The null entries that dependency_injection has made.
NullEntries ==
    {a \in Live(accounts) : ~accounts[a].roleLive}
      \cup {s \in Live(sessions) : ~sessions[s].ownerLive}

\* record_save_json at the end of init_resource skips null entries when it
\* writes the files, and dereferences them in synchronize_dir_list.
RecordSaveJson ==
    /\ proc = "loading"
    /\ NullEntries = {}
    /\ proc' = "up"
    /\ UNCHANGED <<roles, accounts, sessions, numVars, serviceVars, disk>>

RecordSaveJsonCrash ==
    /\ proc = "loading"
    /\ NullEntries # {}
    /\ MemoryLost

-----------------------------------------------------------------------------
Request ==
    \/ \E s \in SessionIds, r \in CustomRoles, P \in SUBSET Asked : MakeRole(s, r, P)
    \/ \E s \in SessionIds, r \in RoleIds, P \in SUBSET Asked : ModifyRole(s, r, P)
    \/ \E s \in SessionIds, r \in RoleIds : RemoveRole(s, r)
    \/ \E n \in UserNames, r \in AskedRoles : MakeAccount(n, r)
    \/ \E s \in SessionIds, a \in AccountIds,
          n \in UserNames \cup {Null}, r \in AskedRoles \cup {Null} : ModifyAccount(s, a, n, r)
    \/ \E a \in AccountIds : RemoveAccount(a)
    \/ \E enabled \in Toggles, complete \in BOOLEAN : PatchAccountService(enabled, complete)
    \/ \E a \in AccountIds : MakeSession(a)
    \/ \E s \in SessionIds : RemoveSession(s)
    \/ \E t \in Timeouts, enabled \in Toggles : PatchSessionService(t, enabled)

Timer == \E s \in SessionIds : SessionTick(s) \/ SessionExpire(s)

Restart == RecordLoadJson \/ RecordSaveJson \/ RecordSaveJsonCrash

Next == Request \/ Timer \/ Crash \/ Restart

Spec == Init /\ [][Next]_vars

\* Every session has a task of its own on the thread pool, whose timer fires
\* every second and whose continuation runs when the timer ends.
Fairness == \A s \in SessionIds : WF_vars(SessionTick(s)) /\ WF_vars(SessionExpire(s))

FairSpec == Spec /\ Fairness

-----------------------------------------------------------------------------
(* Properties.                                                             *)

DiskType ==
    [roles : [RoleIds -> Role \cup {Null}],
     accounts : [AccountIds -> AccountFile \cup {Null}],
     sessions : [SessionIds -> SessionFile \cup {Null}],
     accEnabled : BOOLEAN, sesEnabled : BOOLEAN, timeout : Nat]

\* Every variable holds a value of its kind.
TypeOK ==
    /\ proc \in {"down", "loading", "up"}
    /\ roles \in [RoleIds -> Role \cup {Null}]
    /\ accounts \in [AccountIds -> Account \cup {Null}]
    /\ sessions \in [SessionIds -> Session \cup {Null}]
    /\ accNums \subseteq AccountIds /\ accLast \in AccountIds
    /\ sesNums \subseteq SessionIds /\ sesLast \in SessionIds
    /\ accEnabled \in BOOLEAN /\ sesEnabled \in BOOLEAN /\ timeout \in Nat
    /\ disk \in DiskType

\* No two accounts have one UserName: make_account and modify_account look
\* for the name among the accounts that exist, and a restart brings back the
\* accounts of the files (make_session takes the first account of a name).
UserNamesUnique ==
    \A a, b \in Live(accounts) : accounts[a].name = accounts[b].name => a = b

\* The numbers in use are those of the objects in g_record, so that a new
\* account or session never takes the uri of one that exists.  The handlers,
\* the session timers and dependency_injection each keep their part of it.
NumbersTrackRecord ==
    /\ accNums = Live(accounts)
    /\ sesNums = Live(sessions)

\* Whatever the requests so far were, the files hold what memory holds, so
\* nothing that was answered with success is lost by a crash.  (Not so for
\* the AccountService resource itself: see PatchAccountService.)
FilesMirrorRecord ==
    proc # "down" =>
        /\ disk.roles = roles
        /\ \A a \in AccountIds : disk.accounts[a] = AccountImage(accounts[a])
        /\ \A s \in SessionIds : disk.sessions[s] = SessionImage(sessions[s])
        /\ disk.sesEnabled = sesEnabled
        /\ disk.timeout = timeout

\* No session has more time left than SessionTimeout, however often it is
\* changed while sessions run.
SessionWithinTimeout ==
    \A s \in Live(sessions) : sessions[s].remain <= timeout

\* The predefined roles are there for ever: make_account falls back on
\* ReadOnly, and remove_role reads it without a check.
PredefinedRolesStay ==
    \A r \in PredefinedRoles : disk.roles[r] # Null /\ disk.roles[r].predefined

\* A session that has been logged out or has expired stays so until it is
\* removed: no step of a running server gives it time again.
LogoutIsFinal ==
    [][\A s \in SessionIds :
         (sessions[s] # Null /\ sessions[s].remain = 0 /\ proc' = "up")
            => sessions'[s] = Null \/ sessions'[s].remain = 0]_vars

\* A session ends, whatever clients ask for, if from some time on the server
\* no longer crashes (a restart gives every session its full time again).
SessionsEnd ==
    <>[](proc = "up")
        => \A s \in SessionIds : sessions[s] # Null ~> sessions[s] = Null

\* The account service implements the directory it promises; the users and
\* the roles of the directory are those of the files.
Directory == INSTANCE UserDirectory WITH
    Ids <- AccountIds, Names <- UserNames, RoleNames <- RoleIds,
    Predefined <- PredefinedRoles, NoUser <- Null,
    users <- disk.accounts, known <- Live(disk.roles)

DirectorySpec == Directory!Spec

\* No entry of g_record is null when record_save_json writes them: it has a
\* branch for one that asks in the log what it is doing there.  It is false:
\* an account outlives its role and a session its account, and the restart
\* makes a null entry for the uri that has no file any more.
NoNullEntry == proc = "loading" => NullEntries = {}
=============================================================================
