------------------- MODULE AccountServiceDirectory_proofs -------------------
(***************************************************************************)
(* The account service implements UserDirectory: its first state is one of *)
(* the directory, and each of its steps adds, changes or removes one user  *)
(* or one role of the files, or leaves them alone.                         *)
(***************************************************************************)
EXTENDS AccountService_proofs

LEMMA DirectoryInit == Init => Directory!Init
<1> SUFFICES ASSUME Init PROVE Directory!Init OBVIOUS
<1>1. disk \in DiskType
  BY InitType DEF TypeOK
<1>2. disk.accounts \in [AccountIds -> Directory!User \cup {Null}]
  BY <1>1 DEF DiskType, Directory!User, AccountFile
<1>3. \A i, j \in AccountIds :
        disk.accounts[i] # Null /\ disk.accounts[j] # Null
          /\ disk.accounts[i].name = disk.accounts[j].name => i = j
  <2>1. proc # "down"
    BY DEF Init
  <2>2. QED BY <2>1, InitType, InitFiles, InitNames, FileNamesFromNames
<1>4. Live(disk.roles) = PredefinedRoles
  <2>1. disk.roles = InitRoles
    BY DEF Init
  <2>2. \A r \in RoleIds : InitRoles[r] # Null <=> r \in PredefinedRoles
    <3>1. \A r \in PredefinedRoles : InitRoles[r] # Null
      BY <2>1, InitPredefined DEF PredefinedRolesStay
    <3>2. \A r \in RoleIds \ PredefinedRoles : InitRoles[r] = Null
      BY DEF InitRoles
    <3>3. QED BY <3>1, <3>2 DEF RoleIds
  <2>3. DOMAIN disk.roles = RoleIds
    BY <2>1 DEF InitRoles
  <2>4. QED BY <2>1, <2>2, <2>3 DEF Live, RoleIds
<1>5. QED BY <1>2, <1>3, <1>4 DEF Directory!Init

(* What the files and memory have in common while requests are answered. *)
LEMMA UpFiles ==
    ASSUME TypeOK, FilesMirrorRecord, proc = "up"
    PROVE  /\ disk \in DiskType /\ disk.roles = roles
           /\ \A a \in AccountIds : disk.accounts[a] = AccountImage(accounts[a])
           /\ \A a \in AccountIds : disk.accounts[a] = Null <=> accounts[a] = Null
           /\ \A a \in AccountIds : accounts[a] # Null =>
                /\ disk.accounts[a].name = accounts[a].name
                /\ disk.accounts[a].role = accounts[a].role
           /\ DOMAIN disk.roles = RoleIds
<1>1. /\ disk \in DiskType /\ disk.roles = roles
      /\ \A a \in AccountIds : disk.accounts[a] = AccountImage(accounts[a])
  BY DEF TypeOK, FilesMirrorRecord
<1>2. \A a \in AccountIds : accounts[a] # Null => accounts[a] \in Account
  BY DEF TypeOK
<1>3. \A a \in AccountIds : accounts[a] # Null =>
        /\ disk.accounts[a] # Null
        /\ disk.accounts[a].name = accounts[a].name
        /\ disk.accounts[a].role = accounts[a].role
  <2> SUFFICES ASSUME NEW a \in AccountIds, accounts[a] # Null
               PROVE  /\ disk.accounts[a] # Null
                      /\ disk.accounts[a].name = accounts[a].name
                      /\ disk.accounts[a].role = accounts[a].role
    OBVIOUS
  <2>1. accounts[a] \in Account
    BY <1>2
  <2>2. disk.accounts[a] = [name |-> accounts[a].name, role |-> accounts[a].role]
    BY <1>1, <2>1, ImageTypes
  <2>3. disk.accounts[a] \in AccountFile
    BY <2>1, <2>2 DEF Account, AccountFile
  <2>4. QED BY <2>2, <2>3, ImageTypes
<1>4. \A a \in AccountIds : accounts[a] = Null => disk.accounts[a] = Null
  BY <1>1, ImageTypes
<1>5. QED BY <1>1, <1>3, <1>4 DEF DiskType

LEMMA DirectoryStep ==
    TypeOK /\ NumbersTrackRecord /\ FilesMirrorRecord /\ UserNamesUnique
      /\ PredefinedRolesStay /\ [Next]_vars
      => [Directory!Next]_(Directory!vars)
<1> SUFFICES ASSUME TypeOK, NumbersTrackRecord, FilesMirrorRecord, UserNamesUnique,
                    PredefinedRolesStay, [Next]_vars
             PROVE  Directory!Next \/ UNCHANGED <<disk.accounts, Live(disk.roles)>>
  BY DEF Directory!vars
<1>a. AskedRoles \subseteq RoleIds /\ CustomRoles \subseteq RoleIds
  BY RoleAssumption DEF RoleIds
<1>1. ASSUME NEW s \in SessionIds, NEW r \in CustomRoles, NEW P \in SUBSET Asked,
             MakeRole(s, r, P)
      PROVE  Directory!Next
  <2>1. PICK predefined \in BOOLEAN :
          disk' = [disk EXCEPT !.roles[r] = [predefined |-> predefined, privileges |-> P]]
    BY <1>1 DEF MakeRole
  <2>2. [predefined |-> predefined, privileges |-> P] \in Role
    BY RoleAssumption DEF Role
  <2>3. disk \in DiskType /\ r \in RoleIds
    BY <1>a DEF TypeOK
  <2>4. disk'.accounts = disk.accounts
    BY <2>1, <2>3 DEF DiskType
  <2>5. Live(disk'.roles) = Live(disk.roles) \cup {r}
    BY <2>1, <2>2, <2>3, ImageTypes DEF DiskType, Live
  <2>6. Directory!AddRole(r)
    BY <2>4, <2>5 DEF Directory!AddRole, Live
  <2>7. QED BY <2>3, <2>6 DEF Directory!Next
<1>2. ASSUME NEW s \in SessionIds, NEW r \in RoleIds, NEW P \in SUBSET Asked,
             ModifyRole(s, r, P)
      PROVE  UNCHANGED <<disk.accounts, Live(disk.roles)>>
  <2> DEFINE role == [roles[r] EXCEPT !.privileges = @ \cup P]
  <2>1. roles[r] \in Role /\ roles[r] # Null /\ proc = "up"
    BY <1>2 DEF ModifyRole, TypeOK
  <2>2. role # Null
    <3>1. role \in Role
      BY <2>1, RoleAssumption DEF Role
    <3>2. QED BY <3>1, ImageTypes
  <2>3. disk' = [disk EXCEPT !.roles[r] = role]
    BY <1>2 DEF ModifyRole
  <2> HIDE DEF role
  <2>4. disk'.accounts = disk.accounts
    BY <2>1, <2>3, UpFiles DEF DiskType
  <2>5. Live(disk'.roles) = Live(disk.roles)
    BY <2>1, <2>2, <2>3, UpFiles DEF DiskType, Live
  <2>6. QED BY <2>4, <2>5 DEF Live
<1>3. ASSUME NEW s \in SessionIds, NEW r \in RoleIds, RemoveRole(s, r)
      PROVE  Directory!Next
  <2>1. /\ disk' = [disk EXCEPT !.roles[r] = Null] /\ proc = "up"
        /\ ~roles[r].predefined
    BY <1>3 DEF RemoveRole
  <2>2. r \notin PredefinedRoles
    BY <2>1, UpFiles DEF PredefinedRolesStay
  <2>3. disk'.accounts = disk.accounts
    BY <2>1, UpFiles DEF DiskType
  <2>4. Live(disk'.roles) = Live(disk.roles) \ {r}
    BY <2>1, UpFiles DEF DiskType, Live
  <2>5. Directory!RemoveRole(r)
    BY <2>2, <2>3, <2>4 DEF Directory!RemoveRole, Live
  <2>6. QED BY <2>5 DEF Directory!Next
<1>4. ASSUME NEW n \in UserNames, NEW r \in AskedRoles, MakeAccount(n, r)
      PROVE  Directory!Next
  <2>1. PICK i \in AccountIds :
          /\ Allocates(i, accNums, accLast)
          /\ disk' = [disk EXCEPT !.accounts[i] = [name |-> n, role |-> r]]
    BY <1>4 DEF MakeAccount
  <2>2. proc = "up" /\ roles[r] # Null
    BY <1>4 DEF MakeAccount
  <2>3. disk.accounts[i] = Null
    <3>1. i \notin accNums
      BY <2>1, AllocatesFree DEF TypeOK, AccountIds
    <3>2. accounts[i] = Null
      BY <3>1 DEF TypeOK, NumbersTrackRecord, Live
    <3>3. QED BY <2>2, <3>2, UpFiles
  <2>4. Directory!NameFree(n, i)
    <3>1. \A j \in AccountIds : accounts[j] # Null => accounts[j].name # n
      BY <1>4 DEF MakeAccount, NameUsed
    <3>2. QED BY <2>2, <3>1, UpFiles DEF Directory!NameFree
  <2>5. r \in Live(disk.roles)
    BY <2>2, <1>a, UpFiles DEF Live
  <2>6. /\ disk'.accounts = [disk.accounts EXCEPT ![i] = [name |-> n, role |-> r]]
        /\ disk'.roles = disk.roles
    BY <2>1, <2>2, UpFiles DEF DiskType
  <2>7. Directory!AddUser(i, n, r)
    BY <2>3, <2>4, <2>5, <2>6 DEF Directory!AddUser, Live
  <2>8. QED BY <2>7, <1>a DEF Directory!Next
<1>5. ASSUME NEW s \in SessionIds, NEW a \in AccountIds,
             NEW n \in UserNames \cup {Null}, NEW r \in AskedRoles \cup {Null},
             ModifyAccount(s, a, n, r)
      PROVE  Directory!Next
  <2> DEFINE name == IF n = Null THEN accounts[a].name ELSE n
  <2> DEFINE role == IF r = Null THEN accounts[a].role ELSE r
  <2> DEFINE acc == [name |-> name, role |-> role, roleLive |-> r # Null \/ accounts[a].roleLive]
  <2>1. /\ proc = "up" /\ accounts[a] # Null
        /\ r # Null => roles[r] # Null
        /\ n # Null => ~NameUsed(n, AccountIds \ {a})
        /\ disk' = [disk EXCEPT !.accounts[a] = AccountImage(acc)]
    BY <1>5 DEF ModifyAccount
  <2>2. accounts[a] \in Account
    BY <2>1 DEF TypeOK
  <2>3. name \in UserNames /\ role \in RoleIds
    BY <2>2, <1>a DEF Account
  <2>4. acc \in Account
    BY <2>2, <2>3 DEF Account
  <2>5. acc.name = name /\ acc.role = role
    OBVIOUS
  <2>6. AccountImage(acc) = [name |-> name, role |-> role]
    <3> HIDE DEF acc
    <3>1. QED BY <2>4, <2>5, ImageTypes
  <2>7. disk.accounts[a] # Null /\ disk.accounts[a].name = accounts[a].name
          /\ disk.accounts[a].role = accounts[a].role
    BY <2>1, UpFiles
  <2>8. role = disk.accounts[a].role \/ role \in Live(disk.roles)
    BY <2>1, <2>7, <1>a, UpFiles DEF Live
  <2>9. Directory!NameFree(name, a)
    <3>1. CASE n = Null
      <4>1. \A j \in AccountIds \ {a} :
              disk.accounts[j] # Null => disk.accounts[j].name # accounts[a].name
        BY <2>1, <2>7, UpFiles, NamesUniqueDef
      <4>2. QED BY <3>1, <4>1 DEF Directory!NameFree
    <3>2. CASE n # Null
      BY <3>2, <2>1, UpFiles DEF Directory!NameFree, NameUsed
    <3>3. QED BY <3>1, <3>2
  <2> HIDE DEF name, role, acc
  <2>10. /\ disk'.accounts = [disk.accounts EXCEPT ![a] = [name |-> name, role |-> role]]
         /\ disk'.roles = disk.roles
    BY <2>1, <2>6, UpFiles DEF DiskType
  <2>11. Directory!ChangeUser(a, name, role)
    BY <2>7, <2>8, <2>9, <2>10 DEF Directory!ChangeUser, Live
  <2>12. QED BY <2>3, <2>11 DEF Directory!Next
<1>6. ASSUME NEW a \in AccountIds, RemoveAccount(a)
      PROVE  Directory!Next
  <2>1. disk' = [disk EXCEPT !.accounts[a] = Null] /\ proc = "up" /\ accounts[a] # Null
    BY <1>6 DEF RemoveAccount
  <2>2. disk'.accounts = [disk.accounts EXCEPT ![a] = Null] /\ disk'.roles = disk.roles
    BY <2>1, UpFiles DEF DiskType
  <2>3. Directory!RemoveUser(a)
    BY <2>1, <2>2, UpFiles DEF Directory!RemoveUser, Live
  <2>4. QED BY <2>3 DEF Directory!Next
<1>7. ASSUME NEW e, NEW c, PatchAccountService(e, c) \/ PatchSessionService(e, c)
      PROVE  UNCHANGED <<disk.accounts, disk.roles>>
  BY <1>7 DEF PatchAccountService, PatchSessionService, TypeOK, DiskType
<1>8. ASSUME NEW s, MakeSession(s) \/ RemoveSession(s) \/ SessionTick(s) \/ SessionExpire(s)
      PROVE  UNCHANGED <<disk.accounts, disk.roles>>
  BY <1>8 DEF MakeSession, RemoveSession, SessionTick, SessionExpire, TypeOK, DiskType
<1>9. ASSUME RecordLoadJson \/ RecordSaveJson \/ MemoryLost \/ UNCHANGED vars
      PROVE  UNCHANGED <<disk.accounts, disk.roles>>
  BY <1>9 DEF RecordLoadJson, RecordSaveJson, MemoryLost, vars
<1>10. ASSUME UNCHANGED <<disk.accounts, disk.roles>>
       PROVE  UNCHANGED <<disk.accounts, Live(disk.roles)>>
  BY <1>10 DEF Live
<1>11. QED
  BY <1>1, <1>2, <1>3, <1>4, <1>5, <1>6, <1>7, <1>8, <1>9, <1>10
     DEF Next, Request, Timer, Restart, Crash, RecordSaveJsonCrash

(* Seen through the files, every behaviour of the server, crashes and restarts
   included, is one of the directory: an answered request is never undone, a
   name belongs to one user and no user is given a role that is not there. *)
THEOREM DirectoryCorrect == Spec => DirectorySpec
<1>1. Init /\ [][Next]_vars => DirectorySpec
  BY DirectoryInit, DirectoryStep, TypeCorrect, NumbersCorrect, FilesCorrect,
     NamesCorrect, PredefinedCorrect, PTL DEF Spec, Directory!Spec, DirectorySpec
<1>2. QED BY <1>1 DEF Spec
=============================================================================
