---------------------------- MODULE UserDirectory ----------------------------
(***************************************************************************)
(* What the account service promises its clients: a directory of users and *)
(* roles that outlives the server.  A request adds, changes or removes one *)
(* user or one role at once and for good; a name belongs to one user; a    *)
(* user is only ever given a role that exists; the predefined roles stay.  *)
(* A crash, a restart and a session are no step of the directory.          *)
(***************************************************************************)
CONSTANTS Ids, Names, RoleNames, Predefined, NoUser

User == [name : Names, role : RoleNames]

VARIABLES
    users,      \* the user every id names, or NoUser
    known       \* the roles that exist

vars == <<users, known>>

Init ==
    /\ users \in [Ids -> User \cup {NoUser}]
    /\ \A i, j \in Ids :
         users[i] # NoUser /\ users[j] # NoUser /\ users[i].name = users[j].name => i = j
    /\ known = Predefined

NameFree(n, i) == \A j \in Ids \ {i} : users[j] # NoUser => users[j].name # n

AddUser(i, n, r) ==
    /\ users[i] = NoUser
    /\ NameFree(n, i)
    /\ r \in known
    /\ users' = [users EXCEPT ![i] = [name |-> n, role |-> r]]
    /\ UNCHANGED known

ChangeUser(i, n, r) ==
    /\ users[i] # NoUser
    /\ NameFree(n, i)
    /\ r = users[i].role \/ r \in known
    /\ users' = [users EXCEPT ![i] = [name |-> n, role |-> r]]
    /\ UNCHANGED known

RemoveUser(i) ==
    /\ users[i] # NoUser
    /\ users' = [users EXCEPT ![i] = NoUser]
    /\ UNCHANGED known

AddRole(r) ==
    /\ known' = known \cup {r}
    /\ UNCHANGED users

RemoveRole(r) ==
    /\ r \notin Predefined
    /\ known' = known \ {r}
    /\ UNCHANGED users

Next ==
    \/ \E i \in Ids, n \in Names, r \in RoleNames : AddUser(i, n, r) \/ ChangeUser(i, n, r)
    \/ \E i \in Ids : RemoveUser(i)
    \/ \E r \in RoleNames : AddRole(r) \/ RemoveRole(r)

Spec == Init /\ [][Next]_vars
=============================================================================
