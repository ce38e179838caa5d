------------------------ MODULE AccountService_proofs ------------------------
(***************************************************************************)
(* What AccountService promises for every set of names, roles and numbers. *)
(* Each safety property is an invariant that the ones before it help to    *)
(* prove: the types, the numbers in use, the files, the names, the         *)
(* timeout and the predefined roles.                                       *)
(***************************************************************************)
EXTENDS AccountService, TLAPS

(* The number allocate_numset_num returns is one it may return, and no
   object has it (util.cpp, allocate_numset_num). *)
LEMMA AllocatesFree ==
    ASSUME NEW used, NEW last \in Numbers, NEW i, Allocates(i, used, last)
    PROVE  i \in Numbers /\ i \notin used
<1> USE UintMaxAssumption DEF Numbers
<1>1. CASE Ahead(used, last) # {}
  BY <1>1 DEF Allocates, Least, Ahead
<1>2. CASE Ahead(used, last) = {}
  BY <1>2 DEF Allocates, Least, Wrapped
<1>3. QED BY <1>1, <1>2

(* The session numbers start at 1, so the search for one never meets 0. *)
LEMMA AllocatesSession ==
    ASSUME NEW used, NEW last \in SessionIds, NEW i, Allocates(i, used, last)
    PROVE  i \in SessionIds /\ i \notin used
<1> USE UintMaxAssumption DEF Numbers, SessionIds
<1>1. CASE Ahead(used, last) # {}
  BY <1>1 DEF Allocates, Least, Ahead
<1>2. CASE Ahead(used, last) = {}
  BY <1>2 DEF Allocates, Least, Wrapped
<1>3. QED BY <1>1, <1>2

LEMMA ImageTypes ==
    /\ \A a \in Account \cup {Null} : AccountImage(a) \in AccountFile \cup {Null}
    /\ \A a \in Account : a # Null /\ AccountImage(a) = [name |-> a.name, role |-> a.role]
    /\ \A s \in Session : s # Null /\ SessionImage(s) = [owner |-> s.owner]
    /\ AccountImage(Null) = Null /\ SessionImage(Null) = Null
    /\ \A r \in Role : r # Null
    /\ \A f \in AccountFile : f # Null
    /\ \A f \in SessionFile : f # Null
BY NullAssumption DEF Account, Session, AccountFile, SessionFile, AccountImage, SessionImage

-----------------------------------------------------------------------------
(* The memory of a process that is down has its types. *)
LEMMA MemoryLostType == TypeOK /\ MemoryLost => TypeOK'
<1> SUFFICES ASSUME TypeOK, MemoryLost PROVE TypeOK' OBVIOUS
<1>1. 0 \in AccountIds /\ 1 \in SessionIds
  BY UintMaxAssumption DEF AccountIds, SessionIds, Numbers
<1>2. QED BY <1>1 DEF TypeOK, MemoryLost

LEMMA InitType == Init => TypeOK
<1> SUFFICES ASSUME Init PROVE TypeOK OBVIOUS
<1>1. {0, 1} \subseteq AccountIds /\ 1 \in SessionIds
  BY UintMaxAssumption DEF AccountIds, SessionIds, Numbers
<1>2. InitRoles \in [RoleIds -> Role \cup {Null}]
  BY DEF InitRoles, InitPrivileges, Role, PredefinedRoles, Privileges
<1>3. InitAccounts \in [AccountIds -> Account \cup {Null}]
  BY NameAssumption DEF InitAccounts, Account, RoleIds, PredefinedRoles
<1>4. [a \in AccountIds |-> AccountImage(InitAccounts[a])]
         \in [AccountIds -> AccountFile \cup {Null}]
  BY <1>3, ImageTypes
<1>5. disk \in DiskType
  BY <1>2, <1>4, TimeoutAssumption DEF Init, DiskType
<1>6. QED BY <1>1, <1>2, <1>3, <1>5, TimeoutAssumption DEF Init, TypeOK

LEMMA StepType == TypeOK /\ [Next]_vars => TypeOK'
<1> SUFFICES ASSUME TypeOK, [Next]_vars PROVE TypeOK' OBVIOUS
<1> USE DEF TypeOK
<1>1. ASSUME NEW s \in SessionIds, NEW r \in CustomRoles, NEW P \in SUBSET Asked,
             MakeRole(s, r, P)
      PROVE  TypeOK'
  <2>1. PICK predefined \in BOOLEAN :
          /\ roles' = [roles EXCEPT ![r] = [predefined |-> predefined, privileges |-> P]]
          /\ disk' = [disk EXCEPT !.roles[r] = [predefined |-> predefined, privileges |-> P]]
    BY <1>1 DEF MakeRole
  <2>2. r \in RoleIds /\ [predefined |-> predefined, privileges |-> P] \in Role
    BY RoleAssumption DEF RoleIds, Role
  <2>3. disk' \in DiskType
    BY <2>1, <2>2 DEF DiskType
  <2>4. QED BY <1>1, <2>1, <2>2, <2>3 DEF MakeRole, numVars, serviceVars
<1>2. ASSUME NEW s \in SessionIds, NEW r \in RoleIds, NEW P \in SUBSET Asked,
             ModifyRole(s, r, P)
      PROVE  TypeOK'
  <2> DEFINE role == [roles[r] EXCEPT !.privileges = @ \cup P]
  <2>1. /\ roles' = [roles EXCEPT ![r] = role]
        /\ disk' = [disk EXCEPT !.roles[r] = role]
    BY <1>2 DEF ModifyRole
  <2>2. role \in Role
    BY <1>2, RoleAssumption DEF ModifyRole, Role
  <2> HIDE DEF role
  <2>3. disk' \in DiskType
    BY <2>1, <2>2 DEF DiskType
  <2>4. QED BY <1>2, <2>1, <2>2, <2>3 DEF ModifyRole, numVars, serviceVars
<1>3. ASSUME NEW s \in SessionIds, NEW r \in RoleIds, RemoveRole(s, r)
      PROVE  TypeOK'
  <2>1. accounts' \in [AccountIds -> Account \cup {Null}]
    BY <1>3, NullAssumption DEF RemoveRole, Account
  <2>2. disk' \in DiskType
    BY <1>3 DEF RemoveRole, DiskType
  <2>3. QED BY <1>3, <2>1, <2>2 DEF RemoveRole, Remove, numVars, serviceVars
<1>4. ASSUME NEW n \in UserNames, NEW r \in AskedRoles, MakeAccount(n, r)
      PROVE  TypeOK'
  <2>1. PICK i \in AccountIds :
          /\ Allocates(i, accNums, accLast)
          /\ accNums' = accNums \cup {i}
          /\ accLast' = i
          /\ accounts' = [accounts EXCEPT ![i] = [name |-> n, role |-> r, roleLive |-> TRUE]]
          /\ disk' = [disk EXCEPT !.accounts[i] = [name |-> n, role |-> r]]
    BY <1>4 DEF MakeAccount
  <2>2. /\ [name |-> n, role |-> r, roleLive |-> TRUE] \in Account
        /\ [name |-> n, role |-> r] \in AccountFile
    BY RoleAssumption DEF Account, AccountFile
  <2>3. disk' \in DiskType
    BY <2>1, <2>2 DEF DiskType
  <2>4. QED BY <1>4, <2>1, <2>2, <2>3 DEF MakeAccount, serviceVars
<1>5. ASSUME NEW s \in SessionIds, NEW a \in AccountIds,
             NEW n \in UserNames \cup {Null}, NEW r \in AskedRoles \cup {Null},
             ModifyAccount(s, a, n, r)
      PROVE  TypeOK'
  <2> DEFINE acc == [name |-> IF n = Null THEN accounts[a].name ELSE n,
                     role |-> IF r = Null THEN accounts[a].role ELSE r,
                     roleLive |-> r # Null \/ accounts[a].roleLive]
  <2>1. /\ accounts' = [accounts EXCEPT ![a] = acc]
        /\ disk' = [disk EXCEPT !.accounts[a] = AccountImage(acc)]
    BY <1>5 DEF ModifyAccount
  <2>2. acc \in Account
    BY <1>5, RoleAssumption DEF ModifyAccount, Account
  <2> HIDE DEF acc
  <2>3. AccountImage(acc) \in AccountFile \cup {Null}
    BY <2>2, ImageTypes
  <2>4. disk' \in DiskType
    BY <2>1, <2>3 DEF DiskType
  <2>5. QED BY <1>5, <2>1, <2>2, <2>4 DEF ModifyAccount, numVars, serviceVars
<1>6. ASSUME NEW a \in AccountIds, RemoveAccount(a)
      PROVE  TypeOK'
  <2>1. sessions' \in [SessionIds -> Session \cup {Null}]
    <3>1. \A x \in Session : [x EXCEPT !.ownerLive = FALSE] \in Session
      BY DEF Session
    <3>2. \A s \in SessionIds : sessions[s] \in Session \cup {Null}
      OBVIOUS
    <3>3. \A s \in SessionIds :
            (IF sessions[s] # Null /\ sessions[s].owner = a
             THEN [sessions[s] EXCEPT !.ownerLive = FALSE]
             ELSE sessions[s]) \in Session \cup {Null}
      BY <3>1, <3>2
    <3>4. QED BY <1>6, <3>3 DEF RemoveAccount
  <2>2. disk' \in DiskType
    BY <1>6 DEF RemoveAccount, DiskType
  <2>3. QED BY <1>6, <2>1, <2>2 DEF RemoveAccount, Remove, serviceVars
<1>7. ASSUME NEW enabled \in Toggles, NEW complete \in BOOLEAN,
             PatchAccountService(enabled, complete)
      PROVE  TypeOK'
  <2>1. enabled \in BOOLEAN
    BY RoleAssumption
  <2>2. disk' \in DiskType
    BY <1>7, <2>1 DEF PatchAccountService, DiskType
  <2>3. QED BY <1>7, <2>1, <2>2 DEF PatchAccountService, numVars
<1>8. ASSUME NEW a \in AccountIds, MakeSession(a)
      PROVE  TypeOK'
  <2>1. PICK i \in SessionIds :
          /\ sesNums' = sesNums \cup {i}
          /\ sesLast' = i
          /\ sessions' = [sessions EXCEPT
               ![i] = [owner |-> a, ownerLive |-> TRUE, remain |-> timeout]]
          /\ disk' = [disk EXCEPT !.sessions[i] = [owner |-> a]]
    BY <1>8 DEF MakeSession
  <2>2. /\ [owner |-> a, ownerLive |-> TRUE, remain |-> timeout] \in Session
        /\ [owner |-> a] \in SessionFile
    BY DEF Session, SessionFile
  <2>3. disk' \in DiskType
    BY <2>1, <2>2 DEF DiskType
  <2>4. QED BY <1>8, <2>1, <2>2, <2>3 DEF MakeSession, serviceVars
<1>9. ASSUME NEW s \in SessionIds, RemoveSession(s)
      PROVE  TypeOK'
  <2>1. sessions' \in [SessionIds -> Session \cup {Null}]
    BY <1>9 DEF RemoveSession, SessionValid, Session
  <2>2. QED BY <1>9, <2>1 DEF RemoveSession, numVars, serviceVars
<1>10. ASSUME NEW t \in Timeouts, NEW enabled \in Toggles, PatchSessionService(t, enabled)
       PROVE  TypeOK'
  <2>1. t \in Nat /\ enabled \in BOOLEAN
    BY TimeoutAssumption, RoleAssumption
  <2>2. sessions' \in [SessionIds -> Session \cup {Null}]
    BY <1>10, <2>1 DEF PatchSessionService, Shortened, Session
  <2>3. disk' \in DiskType
    BY <1>10, <2>1 DEF PatchSessionService, DiskType
  <2>4. QED BY <1>10, <2>1, <2>2, <2>3 DEF PatchSessionService, numVars
<1>11. ASSUME NEW s \in SessionIds, SessionTick(s)
       PROVE  TypeOK'
  <2>1. sessions' \in [SessionIds -> Session \cup {Null}]
    BY <1>11 DEF SessionTick, SessionValid, Session
  <2>2. QED BY <1>11, <2>1 DEF SessionTick, numVars, serviceVars
<1>12. ASSUME NEW s \in SessionIds, SessionExpire(s)
       PROVE  TypeOK'
  <2>1. disk' \in DiskType
    BY <1>12 DEF SessionExpire, DiskType
  <2>2. QED BY <1>12, <2>1 DEF SessionExpire, Remove, serviceVars
<1>13. ASSUME RecordLoadJson
       PROVE  TypeOK'
  <2>1. accounts' \in [AccountIds -> Account \cup {Null}]
    BY <1>13, ImageTypes DEF RecordLoadJson, DiskType, Account, AccountFile
  <2>2. sessions' \in [SessionIds -> Session \cup {Null}]
    BY <1>13, ImageTypes DEF RecordLoadJson, DiskType, Session, SessionFile
  <2>3. 0 \in AccountIds /\ 1 \in SessionIds
    BY UintMaxAssumption DEF AccountIds, SessionIds, Numbers
  <2>4. QED BY <1>13, <2>1, <2>2, <2>3 DEF RecordLoadJson, DiskType, Live
<1>14. CASE Crash
  BY <1>14, MemoryLostType DEF Crash
<1>15. CASE RecordSaveJson
  BY <1>15 DEF RecordSaveJson, numVars, serviceVars
<1>16. CASE RecordSaveJsonCrash
  BY <1>16, MemoryLostType DEF RecordSaveJsonCrash
<1>17. CASE UNCHANGED vars
  BY <1>17 DEF vars, numVars, serviceVars
<1>18. QED
  BY <1>1, <1>2, <1>3, <1>4, <1>5, <1>6, <1>7, <1>8, <1>9, <1>10, <1>11, <1>12,
     <1>13, <1>14, <1>15, <1>16, <1>17 DEF Next, Request, Timer, Restart

(* Every reachable state has its types: in particular no step of a session
   timer takes the time left below zero, as long as the check and the
   decrement of the timer are one step (util.cpp, set_session_timer). *)
THEOREM TypeCorrect == Spec => []TypeOK
BY InitType, StepType, PTL DEF Spec

-----------------------------------------------------------------------------
(* The numbers in use.                                                     *)

LEMMA InitNumbers == Init => NumbersTrackRecord
<1> SUFFICES ASSUME Init PROVE NumbersTrackRecord OBVIOUS
<1>1. {0, 1} \subseteq AccountIds
  BY UintMaxAssumption DEF AccountIds, Numbers
<1>2. InitAccounts \in [AccountIds -> Account \cup {Null}]
  BY InitType DEF Init, TypeOK
<1>3. \A a \in AccountIds : InitAccounts[a] # Null <=> a \in {0, 1}
  <2>1. \A a \in AccountIds : InitAccounts[a] =
          CASE a = 0 -> [name |-> "root", role |-> "Administrator", roleLive |-> TRUE]
            [] a = 1 -> [name |-> "admin", role |-> "Administrator", roleLive |-> TRUE]
            [] OTHER -> Null
    BY DEF InitAccounts
  <2>2. /\ [name |-> "root", role |-> "Administrator", roleLive |-> TRUE] \in Account
        /\ [name |-> "admin", role |-> "Administrator", roleLive |-> TRUE] \in Account
    BY NameAssumption DEF Account, RoleIds, PredefinedRoles
  <2>3. QED BY <2>1, <2>2, ImageTypes
<1>4. Live(accounts) = {0, 1}
  BY <1>1, <1>2, <1>3 DEF Init, Live
<1>5. Live(sessions) = {}
  BY DEF Init, Live
<1>6. QED BY <1>4, <1>5 DEF Init, NumbersTrackRecord

LEMMA StepNumbers == TypeOK /\ NumbersTrackRecord /\ [Next]_vars => NumbersTrackRecord'
<1> SUFFICES ASSUME TypeOK, NumbersTrackRecord, [Next]_vars PROVE NumbersTrackRecord'
  OBVIOUS
<1> USE DEF NumbersTrackRecord
<1>a. /\ accounts \in [AccountIds -> Account \cup {Null}]
      /\ sessions \in [SessionIds -> Session \cup {Null}]
  BY DEF TypeOK
<1>1. ASSUME NEW s \in SessionIds, NEW r \in CustomRoles, NEW P \in SUBSET Asked,
             MakeRole(s, r, P)
      PROVE  NumbersTrackRecord'
  BY <1>1 DEF MakeRole, numVars
<1>2. ASSUME NEW s \in SessionIds, NEW r \in RoleIds, NEW P \in SUBSET Asked,
             ModifyRole(s, r, P)
      PROVE  NumbersTrackRecord'
  BY <1>2 DEF ModifyRole, numVars
<1>3. ASSUME NEW s \in SessionIds, NEW r \in RoleIds, RemoveRole(s, r)
      PROVE  NumbersTrackRecord'
  <2>1. \A a \in AccountIds :
          accounts[a] # Null => [accounts[a] EXCEPT !.roleLive = FALSE] # Null
    <3>1. \A x \in Account : [x EXCEPT !.roleLive = FALSE] \in Account
      BY DEF Account
    <3>2. \A a \in AccountIds : accounts[a] # Null => accounts[a] \in Account
      BY <1>a
    <3>3. \A x \in Account : x # Null
      BY ImageTypes
    <3>4. QED BY <3>1, <3>2, <3>3
  <2>2. Live(accounts') = Live(accounts)
    BY <1>3, <1>a, <2>1 DEF RemoveRole, Live
  <2>3. QED BY <1>3, <2>2 DEF RemoveRole, numVars
<1>4. ASSUME NEW n \in UserNames, NEW r \in AskedRoles, MakeAccount(n, r)
      PROVE  NumbersTrackRecord'
  <2>1. [name |-> n, role |-> r, roleLive |-> TRUE] # Null
    BY RoleAssumption, ImageTypes DEF Account
  <2>2. QED BY <1>4, <1>a, <2>1 DEF MakeAccount, Live
<1>5. ASSUME NEW s \in SessionIds, NEW a \in AccountIds,
             NEW n \in UserNames \cup {Null}, NEW r \in AskedRoles \cup {Null},
             ModifyAccount(s, a, n, r)
      PROVE  NumbersTrackRecord'
  <2> DEFINE acc == [name |-> IF n = Null THEN accounts[a].name ELSE n,
                     role |-> IF r = Null THEN accounts[a].role ELSE r,
                     roleLive |-> r # Null \/ accounts[a].roleLive]
  <2>1. accounts[a] # Null /\ accounts' = [accounts EXCEPT ![a] = acc]
    BY <1>5 DEF ModifyAccount
  <2>2. acc # Null
    BY <2>1, <1>a, RoleAssumption, ImageTypes DEF Account
  <2> HIDE DEF acc
  <2>3. Live(accounts') = Live(accounts)
    BY <2>1, <2>2, <1>a DEF Live
  <2>4. QED BY <1>5, <2>3 DEF ModifyAccount, numVars
<1>6. ASSUME NEW a \in AccountIds, RemoveAccount(a)
      PROVE  NumbersTrackRecord'
  <2>1. \A s \in SessionIds :
          sessions[s] # Null => [sessions[s] EXCEPT !.ownerLive = FALSE] # Null
    <3>1. \A x \in Session : [x EXCEPT !.ownerLive = FALSE] \in Session
      BY DEF Session
    <3>2. \A s \in SessionIds : sessions[s] # Null => sessions[s] \in Session
      BY <1>a
    <3>3. \A x \in Session : x # Null
      BY ImageTypes
    <3>4. QED BY <3>1, <3>2, <3>3
  <2>2. Live(sessions') = Live(sessions)
    BY <1>6, <1>a, <2>1 DEF RemoveAccount, Live
  <2>3. QED BY <1>6, <1>a, <2>2 DEF RemoveAccount, Live, Remove
<1>7. ASSUME NEW enabled \in Toggles, NEW complete \in BOOLEAN,
             PatchAccountService(enabled, complete)
      PROVE  NumbersTrackRecord'
  BY <1>7 DEF PatchAccountService, numVars
<1>8. ASSUME NEW a \in AccountIds, MakeSession(a)
      PROVE  NumbersTrackRecord'
  <2>1. [owner |-> a, ownerLive |-> TRUE, remain |-> timeout] # Null
    BY ImageTypes DEF Session, TypeOK
  <2>2. QED BY <1>8, <1>a, <2>1 DEF MakeSession, Live
<1>9. ASSUME NEW s \in SessionIds, RemoveSession(s) \/ SessionTick(s)
      PROVE  NumbersTrackRecord'
  <2> DEFINE at(v) == [sessions[s] EXCEPT !.remain = v]
  <2>1. sessions[s] \in Session
    BY <1>9, <1>a DEF RemoveSession, SessionTick, SessionValid
  <2>2. at(0) # Null /\ at(sessions[s].remain - 1) # Null
    <3>1. at(0) \in Session
      BY <2>1 DEF Session
    <3>2. sessions[s].remain > 0
      BY <1>9 DEF RemoveSession, SessionTick, SessionValid
    <3>3. at(sessions[s].remain - 1) \in Session
      BY <2>1, <3>2 DEF Session
    <3>4. QED BY <3>1, <3>3, ImageTypes
  <2>3. \/ sessions' = [sessions EXCEPT ![s] = at(0)]
        \/ sessions' = [sessions EXCEPT ![s] = at(sessions[s].remain - 1)]
    BY <1>9 DEF RemoveSession, SessionTick
  <2> HIDE DEF at
  <2>4. Live(sessions') = Live(sessions)
    BY <1>a, <2>1, <2>2, <2>3, ImageTypes DEF Live
  <2>5. QED BY <1>9, <2>4 DEF RemoveSession, SessionTick, numVars
<1>10. ASSUME NEW t \in Timeouts, NEW enabled \in Toggles, PatchSessionService(t, enabled)
       PROVE  NumbersTrackRecord'
  <2>1. \A s \in SessionIds : Shortened(s, t) # Null <=> sessions[s] # Null
    BY <1>a, ImageTypes, TimeoutAssumption DEF Shortened, Session
  <2>2. Live(sessions') = Live(sessions)
    BY <1>10, <1>a, <2>1 DEF PatchSessionService, Live
  <2>3. QED BY <1>10, <2>2 DEF PatchSessionService, numVars
<1>11. ASSUME NEW s \in SessionIds, SessionExpire(s)
       PROVE  NumbersTrackRecord'
  BY <1>11, <1>a DEF SessionExpire, Live, Remove
<1>12. CASE RecordLoadJson
  <2> DEFINE acc(a) == [name |-> disk.accounts[a].name,
                        role |-> disk.accounts[a].role,
                        roleLive |-> disk.roles[disk.accounts[a].role] # Null]
  <2> DEFINE ses(s) == [owner |-> disk.sessions[s].owner,
                        ownerLive |-> disk.accounts[disk.sessions[s].owner] # Null,
                        remain |-> disk.timeout]
  <2>1. \A a \in AccountIds : disk.accounts[a] # Null => acc(a) # Null
    <3>1. disk.accounts \in [AccountIds -> AccountFile \cup {Null}]
      BY DEF TypeOK, DiskType
    <3>2. \A a \in AccountIds : disk.accounts[a] # Null => acc(a) \in Account
      BY <3>1 DEF Account, AccountFile
    <3>3. \A x \in Account : x # Null
      BY ImageTypes
    <3>4. QED BY <3>2, <3>3
  <2>2. \A s \in SessionIds : disk.sessions[s] # Null => ses(s) # Null
    BY ImageTypes DEF TypeOK, DiskType, Session, SessionFile
  <2>3. /\ accounts' = [a \in AccountIds |-> IF disk.accounts[a] = Null THEN Null ELSE acc(a)]
        /\ sessions' = [s \in SessionIds |-> IF disk.sessions[s] = Null THEN Null ELSE ses(s)]
    BY <1>12 DEF RecordLoadJson
  <2>4. DOMAIN disk.accounts = AccountIds /\ DOMAIN disk.sessions = SessionIds
    BY DEF TypeOK, DiskType
  <2> HIDE DEF acc, ses
  <2>5. Live(accounts') = Live(disk.accounts) /\ Live(sessions') = Live(disk.sessions)
    BY <2>1, <2>2, <2>3, <2>4 DEF Live
  <2>6. QED BY <1>12, <2>5 DEF RecordLoadJson
<1>13. CASE MemoryLost
  BY <1>13 DEF MemoryLost, Live
<1>14. CASE RecordSaveJson
  BY <1>14 DEF RecordSaveJson, numVars
<1>15. CASE UNCHANGED vars
  BY <1>15 DEF vars, numVars
<1>16. QED
  BY <1>1, <1>2, <1>3, <1>4, <1>5, <1>6, <1>7, <1>8, <1>9, <1>10, <1>11, <1>12,
     <1>13, <1>14, <1>15 DEF Next, Request, Timer, Restart, Crash, RecordSaveJsonCrash

(* The numbers in use are those of the objects there are, so no account and no
   session is given the uri of another: every handler that makes or deletes
   one, the session timers and the restart keep their part of it. *)
THEOREM NumbersCorrect == Spec => []NumbersTrackRecord
<1>1. Init /\ []TypeOK => NumbersTrackRecord
  BY InitNumbers
<1>2. QED BY InitNumbers, StepNumbers, TypeCorrect, PTL DEF Spec

-----------------------------------------------------------------------------
(* The files.                                                              *)

LEMMA InitFiles == Init => FilesMirrorRecord
BY ImageTypes DEF Init, FilesMirrorRecord

LEMMA StepFiles == TypeOK /\ FilesMirrorRecord /\ [Next]_vars => FilesMirrorRecord'
<1> SUFFICES ASSUME TypeOK, FilesMirrorRecord, [Next]_vars, proc' # "down"
             PROVE  FilesMirrorRecord'
  BY DEF FilesMirrorRecord
<1>a. /\ roles \in [RoleIds -> Role \cup {Null}]
      /\ accounts \in [AccountIds -> Account \cup {Null}]
      /\ sessions \in [SessionIds -> Session \cup {Null}]
      /\ disk \in DiskType
  BY DEF TypeOK
<1>b. proc # "down" =>
        /\ disk.roles = roles
        /\ \A a \in AccountIds : disk.accounts[a] = AccountImage(accounts[a])
        /\ \A s \in SessionIds : disk.sessions[s] = SessionImage(sessions[s])
        /\ disk.sesEnabled = sesEnabled
        /\ disk.timeout = timeout
  BY DEF FilesMirrorRecord
<1>1. ASSUME NEW s \in SessionIds, NEW r \in CustomRoles, NEW P \in SUBSET Asked,
             MakeRole(s, r, P)
      PROVE  FilesMirrorRecord'
  <2>1. PICK role : /\ roles' = [roles EXCEPT ![r] = role]
                    /\ disk' = [disk EXCEPT !.roles[r] = role]
    BY <1>1 DEF MakeRole
  <2>2. /\ disk'.roles = [disk.roles EXCEPT ![r] = role]
        /\ disk'.accounts = disk.accounts /\ disk'.sessions = disk.sessions
        /\ disk'.sesEnabled = disk.sesEnabled /\ disk'.timeout = disk.timeout
    BY <2>1, <1>a DEF DiskType
  <2>3. /\ proc # "down" /\ accounts' = accounts /\ sessions' = sessions
        /\ sesEnabled' = sesEnabled /\ timeout' = timeout
    BY <1>1 DEF MakeRole, serviceVars
  <2>4. disk'.roles = roles'
    BY <2>1, <2>2, <2>3, <1>b
  <2>5. QED
    BY <2>2, <2>3, <2>4, <1>b DEF FilesMirrorRecord, AccountImage, SessionImage
<1>2. ASSUME NEW s \in SessionIds, NEW r \in RoleIds, NEW P \in SUBSET Asked,
             ModifyRole(s, r, P)
      PROVE  FilesMirrorRecord'
  <2> DEFINE role == [roles[r] EXCEPT !.privileges = @ \cup P]
  <2>1. /\ roles' = [roles EXCEPT ![r] = role]
        /\ disk' = [disk EXCEPT !.roles[r] = role]
    BY <1>2 DEF ModifyRole
  <2> HIDE DEF role
  <2>2. QED
    BY <1>2, <2>1, <1>a, <1>b DEF ModifyRole, numVars, serviceVars, DiskType,
       FilesMirrorRecord, AccountImage, SessionImage
<1>3. ASSUME NEW s \in SessionIds, NEW r \in RoleIds, RemoveRole(s, r)
      PROVE  FilesMirrorRecord'
  <2>1. \A a \in AccountIds : AccountImage(accounts'[a]) = AccountImage(accounts[a])
    <3>1. \A x \in Account : LET y == [x EXCEPT !.roleLive = FALSE]
                             IN  /\ y \in Account
                                 /\ y.name = x.name /\ y.role = x.role
      BY DEF Account
    <3>2. \A x \in Account : AccountImage([x EXCEPT !.roleLive = FALSE]) = AccountImage(x)
      BY <3>1, ImageTypes
    <3>3. \A a \in AccountIds :
            \/ accounts'[a] = accounts[a]
            \/ /\ accounts[a] \in Account
               /\ accounts'[a] = [accounts[a] EXCEPT !.roleLive = FALSE]
      BY <1>3, <1>a DEF RemoveRole
    <3>4. QED BY <3>2, <3>3
  <2>2. disk'.accounts = disk.accounts /\ disk'.roles = roles' /\ disk'.sessions = disk.sessions
    BY <1>3, <1>a, <1>b DEF RemoveRole, Remove, DiskType
  <2>3. disk'.sesEnabled = disk.sesEnabled /\ disk'.timeout = disk.timeout
    BY <1>3, <1>a DEF RemoveRole, DiskType
  <2>4. QED
    BY <1>3, <2>1, <2>2, <2>3, <1>b DEF RemoveRole, serviceVars, FilesMirrorRecord,
       AccountImage, SessionImage
<1>4. ASSUME NEW n \in UserNames, NEW r \in AskedRoles, MakeAccount(n, r)
      PROVE  FilesMirrorRecord'
  <2> DEFINE acc == [name |-> n, role |-> r, roleLive |-> TRUE]
  <2>1. PICK i \in AccountIds :
          /\ accounts' = [accounts EXCEPT ![i] = acc]
          /\ disk' = [disk EXCEPT !.accounts[i] = [name |-> n, role |-> r]]
    BY <1>4 DEF MakeAccount
  <2>2. AccountImage(acc) = [name |-> n, role |-> r]
    <3>1. acc \in Account /\ acc.name = n /\ acc.role = r
      BY RoleAssumption DEF Account
    <3>2. QED BY <3>1, ImageTypes
  <2> HIDE DEF acc
  <2>3. QED
    BY <1>4, <2>1, <2>2, <1>a, <1>b DEF MakeAccount, serviceVars, DiskType,
       FilesMirrorRecord, AccountImage, SessionImage
<1>5. ASSUME NEW s \in SessionIds, NEW a \in AccountIds,
             NEW n \in UserNames \cup {Null}, NEW r \in AskedRoles \cup {Null},
             ModifyAccount(s, a, n, r)
      PROVE  FilesMirrorRecord'
  <2> DEFINE acc == [name |-> IF n = Null THEN accounts[a].name ELSE n,
                     role |-> IF r = Null THEN accounts[a].role ELSE r,
                     roleLive |-> r # Null \/ accounts[a].roleLive]
  <2>1. /\ accounts' = [accounts EXCEPT ![a] = acc]
        /\ disk' = [disk EXCEPT !.accounts[a] = AccountImage(acc)]
    BY <1>5 DEF ModifyAccount
  <2> HIDE DEF acc
  <2>2. /\ disk'.accounts = [disk.accounts EXCEPT ![a] = AccountImage(acc)]
        /\ disk'.roles = disk.roles /\ disk'.sessions = disk.sessions
        /\ disk'.sesEnabled = disk.sesEnabled /\ disk'.timeout = disk.timeout
    BY <2>1, <1>a DEF DiskType
  <2>3. /\ proc # "down" /\ roles' = roles /\ sessions' = sessions
        /\ sesEnabled' = sesEnabled /\ timeout' = timeout
    BY <1>5 DEF ModifyAccount, serviceVars
  <2>4. \A b \in AccountIds : disk'.accounts[b] = AccountImage(accounts'[b])
    <3>1. disk.accounts \in [AccountIds -> AccountFile \cup {Null}]
      BY <1>a DEF DiskType
    <3>2. ASSUME NEW b \in AccountIds
          PROVE  disk'.accounts[b] = AccountImage(accounts'[b])
      <4>1. CASE b = a
        BY <4>1, <3>1, <2>1, <2>2, <1>a
      <4>2. CASE b # a
        <5>1. disk'.accounts[b] = disk.accounts[b] /\ accounts'[b] = accounts[b]
          BY <4>2, <3>1, <2>1, <2>2, <1>a
        <5>2. QED BY <5>1, <2>3, <1>b
      <4>3. QED BY <4>1, <4>2
    <3>3. QED BY <3>2
  <2>5. QED
    BY <2>2, <2>3, <2>4, <1>b DEF FilesMirrorRecord, SessionImage
<1>6. ASSUME NEW a \in AccountIds, RemoveAccount(a)
      PROVE  FilesMirrorRecord'
  <2>1. \A s \in SessionIds : SessionImage(sessions'[s]) = SessionImage(sessions[s])
    <3>1. \A x \in Session : LET y == [x EXCEPT !.ownerLive = FALSE]
                             IN  y \in Session /\ y.owner = x.owner
      BY DEF Session
    <3>2. \A x \in Session : SessionImage([x EXCEPT !.ownerLive = FALSE]) = SessionImage(x)
      BY <3>1, ImageTypes
    <3>3. \A s \in SessionIds :
            \/ sessions'[s] = sessions[s]
            \/ /\ sessions[s] \in Session
               /\ sessions'[s] = [sessions[s] EXCEPT !.ownerLive = FALSE]
      BY <1>6, <1>a DEF RemoveAccount
    <3>4. QED BY <3>2, <3>3
  <2>2. /\ disk' = [disk EXCEPT !.accounts[a] = Null]
        /\ accounts' = [accounts EXCEPT ![a] = Null]
    BY <1>6 DEF RemoveAccount, Remove
  <2>3. \A b \in AccountIds : disk'.accounts[b] = AccountImage(accounts'[b])
    BY <1>6, <2>2, <1>a, <1>b, ImageTypes DEF RemoveAccount, DiskType, AccountImage
  <2>4. /\ disk'.roles = disk.roles /\ disk'.sessions = disk.sessions
        /\ disk'.sesEnabled = disk.sesEnabled /\ disk'.timeout = disk.timeout
    BY <2>2, <1>a DEF DiskType
  <2>5. QED
    BY <1>6, <2>1, <2>3, <2>4, <1>b DEF RemoveAccount, serviceVars, FilesMirrorRecord,
       AccountImage, SessionImage
<1>7. ASSUME NEW enabled \in Toggles, NEW complete \in BOOLEAN,
             PatchAccountService(enabled, complete)
      PROVE  FilesMirrorRecord'
  BY <1>7, <1>a, <1>b DEF PatchAccountService, numVars, DiskType, FilesMirrorRecord,
     AccountImage, SessionImage
<1>8. ASSUME NEW a \in AccountIds, MakeSession(a)
      PROVE  FilesMirrorRecord'
  <2> DEFINE ses == [owner |-> a, ownerLive |-> TRUE, remain |-> timeout]
  <2>1. PICK i \in SessionIds :
          /\ sessions' = [sessions EXCEPT ![i] = ses]
          /\ disk' = [disk EXCEPT !.sessions[i] = [owner |-> a]]
    BY <1>8 DEF MakeSession
  <2>2. SessionImage(ses) = [owner |-> a]
    <3>1. ses \in Session /\ ses.owner = a
      BY DEF Session, TypeOK
    <3>2. QED BY <3>1, ImageTypes
  <2> HIDE DEF ses
  <2>3. QED
    BY <1>8, <2>1, <2>2, <1>a, <1>b DEF MakeSession, serviceVars, DiskType,
       FilesMirrorRecord, AccountImage, SessionImage
<1>9. ASSUME NEW s \in SessionIds, RemoveSession(s) \/ SessionTick(s)
      PROVE  FilesMirrorRecord'
  <2>1. sessions[s] \in Session
    BY <1>9, <1>a DEF RemoveSession, SessionTick, SessionValid
  <2>2. PICK v : /\ v \in Nat
                 /\ sessions' = [sessions EXCEPT ![s] = [sessions[s] EXCEPT !.remain = v]]
    <3>1. CASE RemoveSession(s)
      <4>1. sessions' = [sessions EXCEPT ![s] = [sessions[s] EXCEPT !.remain = 0]]
        BY <3>1 DEF RemoveSession
      <4>2. QED BY <4>1
    <3>2. CASE SessionTick(s)
      <4>1. sessions' = [sessions EXCEPT ![s] =
                          [sessions[s] EXCEPT !.remain = sessions[s].remain - 1]]
        BY <3>2 DEF SessionTick
      <4>2. sessions[s].remain - 1 \in Nat
        BY <3>2, <2>1 DEF SessionTick, SessionValid, Session
      <4>3. QED BY <4>1, <4>2
    <3>3. QED BY <1>9, <3>1, <3>2
  <2>3. [sessions[s] EXCEPT !.remain = v] \in Session
    BY <2>1, <2>2 DEF Session
  <2>4. \A x \in SessionIds : SessionImage(sessions'[x]) = SessionImage(sessions[x])
    BY <2>1, <2>2, <2>3, <1>a, ImageTypes DEF Session, SessionImage
  <2>5. QED
    BY <1>9, <2>4, <1>b DEF RemoveSession, SessionTick, SessionValid, serviceVars,
       FilesMirrorRecord, AccountImage, SessionImage
<1>10. ASSUME NEW t \in Timeouts, NEW enabled \in Toggles, PatchSessionService(t, enabled)
       PROVE  FilesMirrorRecord'
  <2>1. \A x \in SessionIds : SessionImage(Shortened(x, t)) = SessionImage(sessions[x])
    BY <1>a, ImageTypes, TimeoutAssumption DEF Shortened, Session, SessionImage
  <2>2. \A x \in SessionIds : SessionImage(sessions'[x]) = SessionImage(sessions[x])
    BY <1>10, <2>1 DEF PatchSessionService
  <2>3. /\ disk'.roles = disk.roles /\ disk'.sessions = disk.sessions
        /\ disk'.accounts = disk.accounts
        /\ disk'.sesEnabled = enabled /\ disk'.timeout = t
    BY <1>10, <1>a DEF PatchSessionService, DiskType
  <2>4. QED
    BY <1>10, <2>2, <2>3, <1>b DEF PatchSessionService, FilesMirrorRecord,
       AccountImage, SessionImage
<1>11. ASSUME NEW s \in SessionIds, SessionExpire(s)
       PROVE  FilesMirrorRecord'
  <2>1. /\ disk' = [disk EXCEPT !.sessions[s] = Null]
        /\ sessions' = [sessions EXCEPT ![s] = Null]
    BY <1>11 DEF SessionExpire, Remove
  <2>2. \A x \in SessionIds : disk'.sessions[x] = SessionImage(sessions'[x])
    BY <1>11, <2>1, <1>a, <1>b, ImageTypes DEF SessionExpire, DiskType, SessionImage
  <2>3. /\ disk'.roles = disk.roles /\ disk'.accounts = disk.accounts
        /\ disk'.sesEnabled = disk.sesEnabled /\ disk'.timeout = disk.timeout
    BY <2>1, <1>a DEF DiskType
  <2>4. QED
    BY <1>11, <2>2, <2>3, <1>b DEF SessionExpire, serviceVars, FilesMirrorRecord,
       AccountImage, SessionImage
<1>12. CASE RecordLoadJson
  <2>1. \A a \in AccountIds : disk.accounts[a] = AccountImage(accounts'[a])
    <3> SUFFICES ASSUME NEW a \in AccountIds PROVE disk.accounts[a] = AccountImage(accounts'[a])
      OBVIOUS
    <3>1. CASE disk.accounts[a] = Null
      BY <1>12, <3>1, ImageTypes DEF RecordLoadJson
    <3>2. CASE disk.accounts[a] # Null
      <4>1. disk.accounts[a] \in AccountFile
        BY <3>2, <1>a DEF DiskType
      <4>2. accounts'[a] = [name |-> disk.accounts[a].name,
                            role |-> disk.accounts[a].role,
                            roleLive |-> disk.roles[disk.accounts[a].role] # Null]
        BY <1>12, <3>2 DEF RecordLoadJson
      <4>3. accounts'[a] \in Account
        BY <4>1, <4>2 DEF Account, AccountFile
      <4>4. QED BY <4>1, <4>2, <4>3, ImageTypes DEF AccountFile
    <3>3. QED BY <3>1, <3>2
  <2>2. \A s \in SessionIds : disk.sessions[s] = SessionImage(sessions'[s])
    <3> SUFFICES ASSUME NEW s \in SessionIds PROVE disk.sessions[s] = SessionImage(sessions'[s])
      OBVIOUS
    <3>1. CASE disk.sessions[s] = Null
      BY <1>12, <3>1, ImageTypes DEF RecordLoadJson
    <3>2. CASE disk.sessions[s] # Null
      <4>1. disk.sessions[s] \in SessionFile
        BY <3>2, <1>a DEF DiskType
      <4>2. sessions'[s] = [owner |-> disk.sessions[s].owner,
                            ownerLive |-> disk.accounts[disk.sessions[s].owner] # Null,
                            remain |-> disk.timeout]
        BY <1>12, <3>2 DEF RecordLoadJson
      <4>3. sessions'[s] \in Session
        BY <4>1, <4>2, <1>a DEF Session, SessionFile, DiskType
      <4>4. QED BY <4>1, <4>2, <4>3, ImageTypes DEF SessionFile
    <3>3. QED BY <3>1, <3>2
  <2>3. QED
    BY <1>12, <2>1, <2>2 DEF RecordLoadJson, FilesMirrorRecord, AccountImage, SessionImage
<1>13. CASE RecordSaveJson
  BY <1>13, <1>b DEF RecordSaveJson, numVars, serviceVars, FilesMirrorRecord,
     AccountImage, SessionImage
<1>14. CASE UNCHANGED vars
  BY <1>14, <1>b DEF vars, numVars, serviceVars, FilesMirrorRecord, AccountImage, SessionImage
<1>15. CASE MemoryLost
  BY <1>15 DEF MemoryLost
<1>16. QED
  BY <1>1, <1>2, <1>3, <1>4, <1>5, <1>6, <1>7, <1>8, <1>9, <1>10, <1>11, <1>12,
     <1>13, <1>14, <1>15 DEF Next, Request, Timer, Restart, Crash, RecordSaveJsonCrash

(* Whatever requests are answered, in whatever order with crashes and restarts,
   the files hold what memory holds: nothing answered with success is lost. *)
THEOREM FilesCorrect == Spec => []FilesMirrorRecord
BY InitFiles, StepFiles, TypeCorrect, PTL DEF Spec

-----------------------------------------------------------------------------
(* The names.  A restart brings the accounts of the files back, so while   *)
(* the server is down theirs have to be unique.                            *)

FileNamesUnique ==
    proc = "down" =>
    \A a, b \in AccountIds :
        /\ disk.accounts[a] # Null /\ disk.accounts[b] # Null
        /\ disk.accounts[a].name = disk.accounts[b].name
        => a = b

LEMMA NamesUniqueDef ==
    TypeOK => (UserNamesUnique <=>
        \A a, b \in AccountIds :
            /\ accounts[a] # Null /\ accounts[b] # Null
            /\ accounts[a].name = accounts[b].name
            => a = b)
BY DEF TypeOK, UserNamesUnique, Live

LEMMA FileNamesFromNames ==
    ASSUME TypeOK, FilesMirrorRecord, UserNamesUnique, proc # "down",
           NEW a \in AccountIds, NEW b \in AccountIds,
           disk.accounts[a] # Null, disk.accounts[b] # Null,
           disk.accounts[a].name = disk.accounts[b].name
    PROVE  a = b
<1>1. disk.accounts[a] = AccountImage(accounts[a]) /\ disk.accounts[b] = AccountImage(accounts[b])
  BY DEF FilesMirrorRecord
<1>2. accounts[a] # Null /\ accounts[b] # Null
  BY <1>1, ImageTypes
<1>3. accounts[a] \in Account /\ accounts[b] \in Account
  BY <1>2 DEF TypeOK
<1>4. accounts[a].name = disk.accounts[a].name /\ accounts[b].name = disk.accounts[b].name
  BY <1>1, <1>3, ImageTypes
<1>5. QED BY <1>2, <1>4, NamesUniqueDef

LEMMA InitNames == Init => UserNamesUnique /\ FileNamesUnique
<1> SUFFICES ASSUME Init PROVE UserNamesUnique /\ FileNamesUnique OBVIOUS
<1>1. \A a \in AccountIds : InitAccounts[a] =
        CASE a = 0 -> [name |-> "root", role |-> "Administrator", roleLive |-> TRUE]
          [] a = 1 -> [name |-> "admin", role |-> "Administrator", roleLive |-> TRUE]
          [] OTHER -> Null
  BY DEF InitAccounts
<1>2. \A a \in AccountIds : accounts[a] # Null =>
        \/ a = 0 /\ accounts[a].name = "root"
        \/ a = 1 /\ accounts[a].name = "admin"
  BY <1>1 DEF Init
<1>3. UserNamesUnique
  BY <1>2, NamesUniqueDef, InitType
<1>4. QED BY <1>3 DEF Init, FileNamesUnique

LEMMA StepNames ==
    TypeOK /\ TypeOK' /\ FilesMirrorRecord /\ UserNamesUnique /\ FileNamesUnique /\ [Next]_vars
      => UserNamesUnique' /\ FileNamesUnique'
<1> SUFFICES ASSUME TypeOK, TypeOK', FilesMirrorRecord, UserNamesUnique, FileNamesUnique,
                    [Next]_vars
             PROVE  UserNamesUnique' /\ FileNamesUnique'
  OBVIOUS
<1>a. \A a, b \in AccountIds :
        /\ accounts[a] # Null /\ accounts[b] # Null
        /\ accounts[a].name = accounts[b].name
        => a = b
  BY NamesUniqueDef
<1>b. accounts \in [AccountIds -> Account \cup {Null}]
  BY DEF TypeOK
<1>c. (\A a, b \in AccountIds :
         /\ accounts'[a] # Null /\ accounts'[b] # Null
         /\ accounts'[a].name = accounts'[b].name
         => a = b)
      => UserNamesUnique'
  BY DEF TypeOK, UserNamesUnique, Live
<1>1. ASSUME NEW n \in UserNames, NEW r \in AskedRoles, MakeAccount(n, r)
      PROVE  UserNamesUnique'
  <2>1. PICK i \in AccountIds :
          accounts' = [accounts EXCEPT ![i] = [name |-> n, role |-> r, roleLive |-> TRUE]]
    BY <1>1 DEF MakeAccount
  <2>2. \A b \in AccountIds : accounts[b] # Null => accounts[b].name # n
    BY <1>1 DEF MakeAccount, NameUsed
  <2>3. \A a \in AccountIds : accounts'[a] =
          IF a = i THEN [name |-> n, role |-> r, roleLive |-> TRUE] ELSE accounts[a]
    BY <2>1, <1>b
  <2>4. QED BY <2>2, <2>3, <1>a, <1>c
<1>2. ASSUME NEW s \in SessionIds, NEW a \in AccountIds,
             NEW n \in UserNames \cup {Null}, NEW r \in AskedRoles \cup {Null},
             ModifyAccount(s, a, n, r)
      PROVE  UserNamesUnique'
  <2> DEFINE acc == [name |-> IF n = Null THEN accounts[a].name ELSE n,
                     role |-> IF r = Null THEN accounts[a].role ELSE r,
                     roleLive |-> r # Null \/ accounts[a].roleLive]
  <2>1. \A b \in AccountIds : accounts'[b] = IF b = a THEN acc ELSE accounts[b]
    BY <1>2, <1>b DEF ModifyAccount
  <2>2. acc.name = accounts[a].name
          \/ \A b \in AccountIds \ {a} : accounts[b] # Null => accounts[b].name # acc.name
    BY <1>2 DEF ModifyAccount, NameUsed
  <2>3. accounts[a] # Null
    BY <1>2 DEF ModifyAccount
  <2> HIDE DEF acc
  <2>4. QED BY <2>1, <2>2, <2>3, <1>a, <1>c
<1>3. ASSUME NEW a \in AccountIds, RemoveAccount(a)
      PROVE  UserNamesUnique'
  <2>1. \A b \in AccountIds : accounts'[b] = IF b = a THEN Null ELSE accounts[b]
    BY <1>3, <1>b DEF RemoveAccount, Remove
  <2>2. QED BY <2>1, <1>a, <1>c
<1>4. ASSUME NEW s \in SessionIds, NEW r \in RoleIds, RemoveRole(s, r)
      PROVE  UserNamesUnique'
  <2>1. \A x \in Account : [x EXCEPT !.roleLive = FALSE].name = x.name
    BY DEF Account
  <2>2. \A b \in AccountIds :
          /\ accounts'[b] # Null => accounts[b] # Null
          /\ accounts'[b] # Null => accounts'[b].name = accounts[b].name
    BY <1>4, <1>b, <2>1 DEF RemoveRole
  <2>3. QED BY <2>2, <1>a, <1>c
<1>5. ASSUME RecordLoadJson
      PROVE  UserNamesUnique'
  <2>1. \A a \in AccountIds :
          /\ accounts'[a] # Null => disk.accounts[a] # Null
          /\ accounts'[a] # Null => accounts'[a].name = disk.accounts[a].name
    BY <1>5 DEF RecordLoadJson
  <2>2. \A a, b \in AccountIds :
          /\ accounts'[a] # Null /\ accounts'[b] # Null
          /\ accounts'[a].name = accounts'[b].name
          => a = b
    BY <1>5, <2>1 DEF FileNamesUnique, RecordLoadJson
  <2>3. QED BY <2>2, <1>c
<1>6. ASSUME MemoryLost
      PROVE  UserNamesUnique'
  <2>1. \A a \in AccountIds : accounts'[a] = Null
    BY <1>6 DEF MemoryLost
  <2>2. QED BY <2>1, <1>c
<1>7. ASSUME UNCHANGED accounts
      PROVE  UserNamesUnique'
  BY <1>7 DEF UserNamesUnique, Live
<1>8. ASSUME Next, ~RecordLoadJson, ~MemoryLost,
             ~\E n \in UserNames, r \in AskedRoles : MakeAccount(n, r),
             ~\E s \in SessionIds, a \in AccountIds,
                n \in UserNames \cup {Null}, r \in AskedRoles \cup {Null} : ModifyAccount(s, a, n, r),
             ~\E a \in AccountIds : RemoveAccount(a),
             ~\E s \in SessionIds, r \in RoleIds : RemoveRole(s, r)
      PROVE  UNCHANGED accounts
  <2>1. ASSUME NEW s \in SessionIds, NEW r, NEW P, MakeRole(s, r, P) \/ ModifyRole(s, r, P)
        PROVE  UNCHANGED accounts
    BY <2>1 DEF MakeRole, ModifyRole
  <2>2. ASSUME NEW e, NEW c, PatchAccountService(e, c) \/ PatchSessionService(e, c)
        PROVE  UNCHANGED accounts
    BY <2>2 DEF PatchAccountService, PatchSessionService
  <2>3. ASSUME NEW s, MakeSession(s) \/ RemoveSession(s) \/ SessionTick(s) \/ SessionExpire(s)
        PROVE  UNCHANGED accounts
    BY <2>3 DEF MakeSession, RemoveSession, SessionTick, SessionExpire
  <2>4. ASSUME RecordSaveJson
        PROVE  UNCHANGED accounts
    BY <2>4 DEF RecordSaveJson
  <2>5. CASE Request
    BY <1>8, <2>5, <2>1, <2>2, <2>3 DEF Request
  <2>6. CASE Timer
    BY <2>6, <2>3 DEF Timer
  <2>7. CASE Restart \/ Crash
    BY <1>8, <2>7, <2>4 DEF Restart, Crash, RecordSaveJsonCrash
  <2>8. QED BY <1>8, <2>5, <2>6, <2>7 DEF Next
<1>9. UserNamesUnique'
  BY <1>1, <1>2, <1>3, <1>4, <1>5, <1>6, <1>7, <1>8 DEF vars
<1>10. FileNamesUnique'
  <2>1. SUFFICES ASSUME proc' = "down"
                 PROVE  \A a, b \in AccountIds :
                          /\ disk'.accounts[a] # Null /\ disk'.accounts[b] # Null
                          /\ disk'.accounts[a].name = disk'.accounts[b].name
                          => a = b
    BY DEF FileNamesUnique
  <2>2. disk' = disk
    <3>1. ~Request
      <4>1. \A x, r, P : ~MakeRole(x, r, P) /\ ~ModifyRole(x, r, P) /\ ~RemoveRole(x, r)
        BY <2>1 DEF MakeRole, ModifyRole, RemoveRole
      <4>2. \A x, a, n, r : ~MakeAccount(n, r) /\ ~ModifyAccount(x, a, n, r)
        BY <2>1 DEF MakeAccount, ModifyAccount
      <4>3. \A a, e, c : ~RemoveAccount(a) /\ ~PatchAccountService(e, c)
        BY <2>1 DEF RemoveAccount, PatchAccountService
      <4>4. \A x, t, e : /\ ~MakeSession(x) /\ ~RemoveSession(x)
                         /\ ~PatchSessionService(t, e)
        BY <2>1 DEF MakeSession, RemoveSession, PatchSessionService
      <4>5. QED BY <4>1, <4>2, <4>3, <4>4 DEF Request
    <3>2. CASE Timer
      BY <2>1, <3>2 DEF Timer, SessionTick, SessionExpire
    <3>3. CASE Restart \/ Crash
      <4>1. ~RecordLoadJson /\ ~RecordSaveJson
        BY <2>1 DEF RecordLoadJson, RecordSaveJson
      <4>2. MemoryLost
        BY <3>3, <4>1 DEF Restart, Crash, RecordSaveJsonCrash
      <4>3. QED BY <4>2 DEF MemoryLost
    <3>4. CASE UNCHANGED vars
      BY <3>4 DEF vars
    <3>5. QED BY <3>1, <3>2, <3>3, <3>4 DEF Next
  <2>3. CASE proc = "down"
    BY <2>2, <2>3 DEF FileNamesUnique
  <2>4. CASE proc # "down"
    BY <2>2, <2>4, FileNamesFromNames
  <2>5. QED BY <2>3, <2>4
<1>11. QED BY <1>9, <1>10

(* No two accounts ever have one UserName: a new or changed name is looked for
   among the accounts there are, and a crash and restart bring back the
   accounts of the files, whose names differ because the files mirror memory. *)
THEOREM NamesCorrect == Spec => []UserNamesUnique
<1>1. Spec => [](UserNamesUnique /\ FileNamesUnique)
  BY InitNames, StepNames, TypeCorrect, FilesCorrect, PTL DEF Spec
<1>2. QED BY <1>1, PTL

-----------------------------------------------------------------------------
(* The time sessions have left.                                            *)

LEMMA TimeoutDef ==
    TypeOK => (SessionWithinTimeout <=>
        \A s \in SessionIds : sessions[s] # Null => sessions[s].remain <= timeout)
BY DEF TypeOK, SessionWithinTimeout, Live

LEMMA StepTimeout ==
    TypeOK /\ TypeOK' /\ SessionWithinTimeout /\ [Next]_vars => SessionWithinTimeout'
<1> SUFFICES ASSUME TypeOK, TypeOK', SessionWithinTimeout, [Next]_vars
             PROVE  SessionWithinTimeout'
  OBVIOUS
<1>a. \A s \in SessionIds : sessions[s] # Null => sessions[s].remain <= timeout
  BY TimeoutDef
<1>b. /\ sessions \in [SessionIds -> Session \cup {Null}]
      /\ sessions' \in [SessionIds -> Session \cup {Null}]
      /\ timeout \in Nat /\ timeout' \in Nat
  BY DEF TypeOK
<1>c. (\A s \in SessionIds : sessions'[s] # Null => sessions'[s].remain <= timeout')
      => SessionWithinTimeout'
  BY <1>b DEF SessionWithinTimeout, Live
<1>1. ASSUME UNCHANGED <<sessions, timeout>> PROVE SessionWithinTimeout'
  BY <1>1 DEF SessionWithinTimeout, Live
<1>2. ASSUME NEW a \in AccountIds, RemoveAccount(a) PROVE SessionWithinTimeout'
  <2>1. \A x \in Session : [x EXCEPT !.ownerLive = FALSE].remain = x.remain
    BY DEF Session
  <2>2. \A s \in SessionIds : sessions'[s] # Null =>
          sessions[s] # Null /\ sessions'[s].remain = sessions[s].remain
    BY <1>2, <1>b, <2>1 DEF RemoveAccount
  <2>3. timeout' = timeout
    BY <1>2 DEF RemoveAccount, serviceVars
  <2>4. QED BY <1>a, <1>c, <2>2, <2>3
<1>3. ASSUME NEW a \in AccountIds, MakeSession(a) PROVE SessionWithinTimeout'
  <2>1. PICK i \in SessionIds : sessions' = [sessions EXCEPT
          ![i] = [owner |-> a, ownerLive |-> TRUE, remain |-> timeout]]
    BY <1>3 DEF MakeSession
  <2>2. timeout' = timeout
    BY <1>3 DEF MakeSession, serviceVars
  <2>3. QED BY <1>a, <1>b, <1>c, <2>1, <2>2
<1>4. ASSUME NEW s \in SessionIds, RemoveSession(s) \/ SessionTick(s)
      PROVE  SessionWithinTimeout'
  <2>1. sessions[s] \in Session /\ sessions[s] # Null
    BY <1>4, <1>b DEF RemoveSession, SessionTick, SessionValid
  <2>2. \A x \in SessionIds : x # s => sessions'[x] = sessions[x]
    BY <1>4, <1>b DEF RemoveSession, SessionTick
  <2>3. \/ sessions'[s] = [sessions[s] EXCEPT !.remain = 0]
        \/ sessions'[s] = [sessions[s] EXCEPT !.remain = sessions[s].remain - 1]
    BY <1>4, <1>b DEF RemoveSession, SessionTick
  <2>4. sessions'[s].remain <= timeout
    BY <2>1, <2>3, <1>a, <1>b DEF Session
  <2>5. timeout' = timeout
    BY <1>4 DEF RemoveSession, SessionTick, serviceVars
  <2>6. QED BY <1>a, <1>c, <2>2, <2>4, <2>5
<1>5. ASSUME NEW t \in Timeouts, NEW enabled \in Toggles, PatchSessionService(t, enabled)
      PROVE  SessionWithinTimeout'
  <2>1. \A s \in SessionIds : Shortened(s, t) # Null => Shortened(s, t).remain <= t
    BY <1>b, TimeoutAssumption DEF Shortened, Session
  <2>2. timeout' = t /\ \A s \in SessionIds : sessions'[s] = Shortened(s, t)
    BY <1>5 DEF PatchSessionService
  <2>3. QED BY <1>c, <2>1, <2>2
<1>6. ASSUME NEW s \in SessionIds, SessionExpire(s) PROVE SessionWithinTimeout'
  <2>1. \A x \in SessionIds : sessions'[x] = IF x = s THEN Null ELSE sessions[x]
    BY <1>6, <1>b DEF SessionExpire, Remove
  <2>2. timeout' = timeout
    BY <1>6 DEF SessionExpire, serviceVars
  <2>3. QED BY <1>a, <1>c, <2>1, <2>2
<1>7. ASSUME RecordLoadJson PROVE SessionWithinTimeout'
  <2>1. \A s \in SessionIds : sessions'[s] # Null => sessions'[s].remain = disk.timeout
    BY <1>7 DEF RecordLoadJson
  <2>2. timeout' = disk.timeout
    BY <1>7 DEF RecordLoadJson
  <2>3. QED BY <1>b, <1>c, <2>1, <2>2
<1>8. ASSUME MemoryLost PROVE SessionWithinTimeout'
  <2>1. \A s \in SessionIds : sessions'[s] = Null
    BY <1>8 DEF MemoryLost
  <2>2. QED BY <1>c, <2>1
<1>9. ASSUME NEW s, NEW r, NEW P, MakeRole(s, r, P) \/ ModifyRole(s, r, P) \/ RemoveRole(s, r)
      PROVE  UNCHANGED <<sessions, timeout>>
  BY <1>9 DEF MakeRole, ModifyRole, RemoveRole, serviceVars
<1>10. ASSUME NEW s, NEW a, NEW n, NEW r, MakeAccount(n, r) \/ ModifyAccount(s, a, n, r)
       PROVE  UNCHANGED <<sessions, timeout>>
  BY <1>10 DEF MakeAccount, ModifyAccount, serviceVars
<1>11. ASSUME NEW e, NEW c, PatchAccountService(e, c)
       PROVE  UNCHANGED <<sessions, timeout>>
  BY <1>11 DEF PatchAccountService
<1>12. ASSUME RecordSaveJson PROVE UNCHANGED <<sessions, timeout>>
  BY <1>12 DEF RecordSaveJson, serviceVars
<1>13. QED
  BY <1>1, <1>2, <1>3, <1>4, <1>5, <1>6, <1>7, <1>8, <1>9, <1>10, <1>11, <1>12
     DEF Next, Request, Timer, Restart, Crash, RecordSaveJsonCrash, vars, serviceVars

(* No session has more time left than SessionTimeout: a new one starts with it,
   a shorter one shortens those that run, and a restart hands out what the
   file says and not what is left over. *)
THEOREM TimeoutCorrect == Spec => []SessionWithinTimeout
<1>1. Init => SessionWithinTimeout
  BY InitType, TimeoutDef DEF Init
<1>2. QED BY <1>1, StepTimeout, TypeCorrect, PTL DEF Spec

-----------------------------------------------------------------------------
(* The predefined roles.                                                   *)

LEMMA InitPredefined == Init => PredefinedRolesStay
<1> SUFFICES ASSUME Init, NEW r \in PredefinedRoles
             PROVE  disk.roles[r] # Null /\ disk.roles[r].predefined
  BY DEF PredefinedRolesStay
<1>1. disk.roles[r] = [predefined |-> TRUE, privileges |-> InitPrivileges(r)]
  BY DEF Init, InitRoles, RoleIds
<1>2. disk.roles[r] \in Role
  BY <1>1 DEF Role, InitPrivileges, PredefinedRoles, Privileges
<1>3. disk.roles[r] # Null
  BY <1>2, ImageTypes
<1>4. disk.roles[r].predefined = TRUE
  BY <1>1
<1>5. QED BY <1>3, <1>4

LEMMA StepPredefined ==
    TypeOK /\ FilesMirrorRecord /\ PredefinedRolesStay /\ [Next]_vars => PredefinedRolesStay'
<1> SUFFICES ASSUME TypeOK, FilesMirrorRecord, PredefinedRolesStay, [Next]_vars,
                    NEW q \in PredefinedRoles
             PROVE  disk'.roles[q] # Null /\ disk'.roles[q].predefined
  BY DEF PredefinedRolesStay
<1>a. /\ disk.roles[q] # Null /\ disk.roles[q].predefined
      /\ disk \in DiskType /\ q \in RoleIds
      /\ proc = "up" => disk.roles = roles
  BY DEF TypeOK, FilesMirrorRecord, PredefinedRolesStay, RoleIds
<1>1. ASSUME NEW s \in SessionIds, NEW r \in CustomRoles, NEW P \in SUBSET Asked,
             MakeRole(s, r, P)
      PROVE  disk'.roles[q] = disk.roles[q]
  <2>1. r # q
    BY RoleAssumption
  <2>2. QED BY <1>1, <1>a, <2>1 DEF MakeRole, DiskType
<1>2. ASSUME NEW s \in SessionIds, NEW r \in RoleIds, NEW P \in SUBSET Asked,
             ModifyRole(s, r, P)
      PROVE  disk'.roles[q] # Null /\ disk'.roles[q].predefined
  <2> DEFINE role == [roles[r] EXCEPT !.privileges = @ \cup P]
  <2>1. roles[r] \in Role
    BY <1>2 DEF ModifyRole, TypeOK
  <2>2. role \in Role /\ role.predefined = roles[r].predefined
    BY <2>1, RoleAssumption DEF Role
  <2>3. disk' = [disk EXCEPT !.roles[r] = role] /\ roles = disk.roles
    BY <1>2, <1>a DEF ModifyRole
  <2> HIDE DEF role
  <2>4. disk'.roles[q] = IF q = r THEN role ELSE disk.roles[q]
    BY <2>3, <1>a DEF DiskType
  <2>5. QED BY <2>2, <2>3, <2>4, <1>a, ImageTypes
<1>3. ASSUME NEW s \in SessionIds, NEW r \in RoleIds, RemoveRole(s, r)
      PROVE  disk'.roles[q] = disk.roles[q]
  <2>1. r # q
    BY <1>3, <1>a DEF RemoveRole
  <2>2. QED BY <1>3, <1>a, <2>1 DEF RemoveRole, DiskType
<1>4. ASSUME NEW s, NEW a, NEW n, NEW r,
             MakeAccount(n, r) \/ ModifyAccount(s, a, n, r) \/ RemoveAccount(a)
      PROVE  disk'.roles[q] = disk.roles[q]
  BY <1>4, <1>a DEF MakeAccount, ModifyAccount, RemoveAccount, DiskType
<1>5. ASSUME NEW e, NEW c, PatchAccountService(e, c) \/ PatchSessionService(e, c)
      PROVE  disk'.roles[q] = disk.roles[q]
  BY <1>5, <1>a DEF PatchAccountService, PatchSessionService, DiskType
<1>6. ASSUME NEW s, MakeSession(s) \/ RemoveSession(s) \/ SessionTick(s) \/ SessionExpire(s)
      PROVE  disk'.roles[q] = disk.roles[q]
  BY <1>6, <1>a DEF MakeSession, RemoveSession, SessionTick, SessionExpire, DiskType
<1>7. ASSUME RecordLoadJson \/ RecordSaveJson \/ MemoryLost \/ UNCHANGED vars
      PROVE  disk' = disk
  BY <1>7 DEF RecordLoadJson, RecordSaveJson, MemoryLost, vars
<1> DEFINE Kept(x) == x # Null /\ x.predefined
<1>8. Kept(disk.roles[q])
  BY <1>a
<1>9. ASSUME NEW s \in SessionIds, NEW r \in RoleIds, NEW P \in SUBSET Asked,
             ModifyRole(s, r, P)
      PROVE  Kept(disk'.roles[q])
  BY <1>2, <1>9
<1> HIDE DEF Kept
<1>10. Kept(disk'.roles[q])
  BY <1>8, <1>9, <1>1, <1>3, <1>4, <1>5, <1>6, <1>7
     DEF Next, Request, Timer, Restart, Crash, RecordSaveJsonCrash
<1>11. QED BY <1>10 DEF Kept

(* The predefined roles survive every request, crash and restart, although
   is_predefined of the roles clients make is arbitrary. *)
THEOREM PredefinedCorrect == Spec => []PredefinedRolesStay
BY InitPredefined, StepPredefined, TypeCorrect, FilesCorrect, PTL DEF Spec

-----------------------------------------------------------------------------
(* Logout.                                                                 *)

LEMMA StepLogout ==
    ASSUME TypeOK, NumbersTrackRecord, [Next]_vars,
           NEW s \in SessionIds, sessions[s] # Null, sessions[s].remain = 0, proc' = "up"
    PROVE  sessions'[s] = Null \/ sessions'[s].remain = 0
<1>a. sessions[s] \in Session /\ sessions \in [SessionIds -> Session \cup {Null}]
  BY DEF TypeOK
<1>1. ASSUME UNCHANGED sessions PROVE sessions'[s].remain = 0
  BY <1>1
<1>2. ASSUME NEW a \in AccountIds, RemoveAccount(a) PROVE sessions'[s].remain = 0
  BY <1>2, <1>a DEF RemoveAccount, Session
<1>3. ASSUME NEW a \in AccountIds, MakeSession(a) PROVE UNCHANGED <<sessions[s]>>
  <2>1. PICK i \in SessionIds :
          /\ Allocates(i, sesNums, sesLast)
          /\ sessions' = [sessions EXCEPT
               ![i] = [owner |-> a, ownerLive |-> TRUE, remain |-> timeout]]
    BY <1>3 DEF MakeSession
  <2>2. i \notin sesNums
    BY <2>1, AllocatesSession DEF TypeOK
  <2>3. s \in sesNums
    BY <1>a DEF NumbersTrackRecord, Live
  <2>4. QED BY <2>1, <2>2, <2>3, <1>a
<1>4. ASSUME NEW x \in SessionIds, RemoveSession(x) \/ SessionTick(x)
      PROVE  UNCHANGED <<sessions[s]>>
  BY <1>4, <1>a DEF RemoveSession, SessionTick, SessionValid
<1>5. ASSUME NEW t \in Timeouts, NEW enabled \in Toggles, PatchSessionService(t, enabled)
      PROVE  sessions'[s].remain = 0
  BY <1>5, <1>a, TimeoutAssumption DEF PatchSessionService, Shortened
<1>6. ASSUME NEW x \in SessionIds, SessionExpire(x)
      PROVE  sessions'[s] = Null \/ UNCHANGED <<sessions[s]>>
  BY <1>6, <1>a DEF SessionExpire, Remove
<1>7. ASSUME RecordLoadJson \/ MemoryLost PROVE FALSE
  BY <1>7 DEF RecordLoadJson, MemoryLost
<1>8. ASSUME NEW y, NEW r, NEW P, MakeRole(y, r, P) \/ ModifyRole(y, r, P) \/ RemoveRole(y, r)
      PROVE  UNCHANGED sessions
  BY <1>8 DEF MakeRole, ModifyRole, RemoveRole
<1>9. ASSUME NEW y, NEW a, NEW n, NEW r, MakeAccount(n, r) \/ ModifyAccount(y, a, n, r)
      PROVE  UNCHANGED sessions
  BY <1>9 DEF MakeAccount, ModifyAccount
<1>10. ASSUME NEW e, NEW c, PatchAccountService(e, c) \/ RecordSaveJson
       PROVE  UNCHANGED sessions
  BY <1>10 DEF PatchAccountService, RecordSaveJson
<1>11. QED
  BY <1>1, <1>2, <1>3, <1>4, <1>5, <1>6, <1>7, <1>8, <1>9, <1>10
     DEF Next, Request, Timer, Restart, Crash, RecordSaveJsonCrash, vars

(* A running server never gives time back to a session that has none: its
   number is in use until it is removed, so no login takes its place. *)
THEOREM LogoutCorrect == Spec => LogoutIsFinal
<1>1. TypeOK /\ NumbersTrackRecord /\ [Next]_vars =>
        [\A s \in SessionIds :
           (sessions[s] # Null /\ sessions[s].remain = 0 /\ proc' = "up")
             => sessions'[s] = Null \/ sessions'[s].remain = 0]_vars
  BY StepLogout
<1>2. QED BY <1>1, TypeCorrect, NumbersCorrect, PTL DEF Spec, LogoutIsFinal
=============================================================================
