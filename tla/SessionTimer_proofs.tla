-------------------------- MODULE SessionTimer_proofs --------------------------
(***************************************************************************)
(* What SessionTimer promises for any number of logins, logouts and        *)
(* PATCHes: every variable keeps its type, a session that shares its       *)
(* number with none keeps what its login gave it, and the files are those  *)
(* of g_record when nothing is under way.  None of the three is inductive. *)
(* Places says where a session can be while its login and its timer are    *)
(* where they are, and what an iterator leads to; Alone that whoever else  *)
(* had the number of an unshared session is gone; Own what such a session  *)
(* has at every place; Owed which step still owes the file of a number.    *)
(***************************************************************************)
EXTENDS SessionTimer, CommonLemmas

(* A session has a number once its login has allocated it, a timer once it is a member, and a
   valid iterator, which leads to a member of its number, between the search and the erase. *)
Places ==
    /\ \A s \in Sessions : login[s] # "none" => num[s] \in SessionIds
    /\ \A s \in Sessions : login[s] \notin {"save", "done"} => timer[s] = "none"
    /\ \A j \in DOMAIN members : login[members[j]] \in {"start", "save", "done"}
    /\ \A s \in Sessions : iter[s] # 0 =>
          /\ timer[s] \in {"delete", "erase"}
          /\ iter[s] \in DOMAIN members /\ num[members[iter[s]]] = num[s]

LogoutStates ==
    [pc : {"idle", "lookup", "write", "refused", "answered"},
     of : Sessions \cup {Null}, uri : SessionIds \cup {Null}]
PatchStates == [pc : {"idle", "look", "write", "done"}, to : 0 .. RemainMax, at : Nat]

(* What the statements of the two handlers make of where they are. *)
LEMMA PatchMoves ==
    ASSUME NEW x \in PatchStates
    PROVE  /\ x.at \in Nat /\ x.at + 1 \in Nat
           /\ \A at \in Nat : /\ [x EXCEPT !.at = at] \in PatchStates
                             /\ [x EXCEPT !.pc = "look", !.at = at] \in PatchStates
           /\ [x EXCEPT !.pc = "done"] \in PatchStates
           /\ [x EXCEPT !.pc = "write"] \in PatchStates
<1>1. x.at \in Nat
  BY DEF PatchStates
<1>2. x.at + 1 \in Nat
  BY <1>1
<1>3. /\ \A at \in Nat : /\ [x EXCEPT !.at = at] \in PatchStates
                        /\ [x EXCEPT !.pc = "look", !.at = at] \in PatchStates
      /\ [x EXCEPT !.pc = "done"] \in PatchStates
      /\ [x EXCEPT !.pc = "write"] \in PatchStates
  BY DEF PatchStates
<1>4. QED BY <1>1, <1>2, <1>3

LEMMA LogoutMoves ==
    ASSUME NEW x \in LogoutStates
    PROVE  /\ \A s \in Sessions : /\ [x EXCEPT !.pc = "lookup", !.of = s] \in LogoutStates
                                 /\ [x EXCEPT !.pc = "refused", !.of = s] \in LogoutStates
           /\ x.of \in Sessions \cup {Null} /\ x.uri \in SessionIds \cup {Null}
           /\ \A i \in SessionIds \cup {Null} :
                 [x EXCEPT !.pc = "write", !.uri = i] \in LogoutStates
           /\ [x EXCEPT !.pc = "answered"] \in LogoutStates
BY DEF LogoutStates

LEMMA InitTypes == Init => TypeOK /\ Places
<1> SUFFICES ASSUME Init PROVE TypeOK /\ Places OBVIOUS
<1> USE DEF Init
<1>1. 1 \in SessionIds
  BY UintMaxAssumption DEF SessionIds, Numbers
<1>2. logout \in [Logouts -> LogoutStates] /\ patch \in [Patches -> PatchStates]
  BY RemainAssumption DEF LogoutStates, PatchStates
<1>3. TypeOK
  <2>1. members \in Seq(Sessions)
    OBVIOUS
  <2>2. /\ remain \in [Sessions -> 0 .. RemainMax] /\ timeout \in 0 .. RemainMax
        /\ iter \in [Sessions -> Nat]
    BY RemainAssumption
  <2>3. QED BY <1>1, <1>2, <2>1, <2>2 DEF TypeOK, Timers, Logins, LogoutStates, PatchStates
<1>4. Places
  BY DEF Places
<1>5. QED BY <1>3, <1>4

(* The steps of each handler, and of the timer, keep the types. *)
LEMMA PatchTypes ==
    ASSUME TypeOK, NEW p \in Patches, Patch(p)
    PROVE  TypeOK'
<1>0. patch \in [Patches -> PatchStates]
  BY DEF TypeOK, PatchStates
<1> USE DEF recordVars, timerVars
<1>1. ASSUME NEW t \in Timeouts, PatchTimeout(p, t) PROVE TypeOK'
  BY <1>1, RemainAssumption DEF PatchTimeout, TypeOK
<1>2. CASE PatchLook(p)
  <2>1. patch' \in [Patches -> PatchStates]
    <3>0. patch[p] \in PatchStates
      BY <1>0
    <3>1. patch[p] \in PatchStates /\ patch[p].at + 1 \in Nat
      BY <3>0, PatchMoves
    <3>2. patch'[p] \in PatchStates
      <4>1. CASE patch[p].at > Len(members)
        BY <1>0, <1>2, <3>1, <4>1, PatchMoves DEF PatchLook
      <4>2. CASE ~ (patch[p].at > Len(members)) /\ remain[members[patch[p].at]] > patch[p].to
        BY <1>0, <1>2, <3>1, <4>2, PatchMoves DEF PatchLook
      <4>3. CASE ~ (patch[p].at > Len(members)) /\ ~ (remain[members[patch[p].at]] > patch[p].to)
        BY <1>0, <1>2, <3>1, <4>3, PatchMoves DEF PatchLook
      <4>4. QED BY <3>1, <4>1, <4>2, <4>3
    <3>3. QED BY <1>0, <1>2, <3>2 DEF PatchLook
  <2>2. QED BY <1>2, <2>1 DEF PatchLook, TypeOK, PatchStates
<1>3. CASE PatchWrite(p)
  <2>1. patch' \in [Patches -> PatchStates]
    <3>0. patch[p] \in PatchStates
      BY <1>0
    <3>1. patch[p] \in PatchStates /\ patch[p].at + 1 \in Nat
      BY <3>0, PatchMoves
    <3>2. [patch[p] EXCEPT !.pc = "look", !.at = patch[p].at + 1] \in PatchStates
      BY <3>1, PatchMoves
    <3>3. QED BY <1>0, <1>3, <3>2 DEF PatchWrite
  <2>2. remain' \in [Sessions -> 0 .. RemainMax]
    BY <1>0, <1>3 DEF PatchWrite, TypeOK, PatchStates
  <2>3. QED BY <1>3, <2>1, <2>2 DEF PatchWrite, TypeOK, PatchStates
<1>4. CASE PatchUndefined(p)
  BY <1>4 DEF PatchUndefined, Undefined, TypeOK
<1>5. QED BY <1>1, <1>2, <1>3, <1>4 DEF Patch

LEMMA LogoutTypes ==
    ASSUME TypeOK, NEW c \in Logouts, Logout(c)
    PROVE  TypeOK'
<1>0. logout \in [Logouts -> LogoutStates]
  BY DEF TypeOK, LogoutStates
<1> USE DEF recordVars, timerVars
<1>1. ASSUME NEW s \in Sessions, Check(c, s) PROVE TypeOK'
  <2>1. logout' \in [Logouts -> LogoutStates]
    BY <1>0, <1>1, LogoutMoves DEF Check
  <2>2. QED BY <1>1, <2>1 DEF Check, TypeOK, LogoutStates
<1>2. CASE Lookup(c)
  <2>1. \A s \in Sessions : num[s] \in SessionIds \cup {Null}
    BY DEF TypeOK
  <2>2. logout' \in [Logouts -> LogoutStates]
    <3>1. logout[c].of \in ToSet(members) => logout[c].of \in Sessions
      BY DEF ToSet, TypeOK
    <3>2. QED BY <1>0, <1>2, <2>1, <3>1, LogoutMoves DEF Lookup
  <2>3. QED BY <1>2, <2>2 DEF Lookup, TypeOK, LogoutStates
<1>3. CASE Write(c)
  <2>1. logout' \in [Logouts -> LogoutStates]
    BY <1>0, <1>3, LogoutMoves DEF Write
  <2>2. remain' \in [Sessions -> 0 .. RemainMax]
    BY <1>3, RemainAssumption DEF Write, TypeOK
  <2>3. QED BY <1>3, <2>1, <2>2 DEF Write, TypeOK, LogoutStates
<1>4. CASE LogoutUndefined(c)
  BY <1>4 DEF LogoutUndefined, Undefined, TypeOK
<1>5. QED BY <1>1, <1>2, <1>3, <1>4 DEF Logout

LEMMA LoginTypes ==
    ASSUME TypeOK, Places, NEW s \in Sessions, Login(s)
    PROVE  TypeOK'
<1> USE DEF TypeOK, recordVars, timerVars, Timers
<1>1. CASE FindNumber(s)
  <2>1. shared' \subseteq Sessions
    BY <1>1 DEF FindNumber, Holders
  <2>2. num' \in [Sessions -> SessionIds \cup {Null}] /\ login' \in [Sessions -> Logins]
    BY <1>1 DEF FindNumber, Logins
  <2>3. QED BY <1>1, <2>1, <2>2 DEF FindNumber
<1>2. CASE TakeNumber(s)
  BY <1>2 DEF TakeNumber, Places, Logins
<1>3. CASE New(s)
  BY <1>3 DEF New, Logins
<1>4. CASE AddMember(s)
  <2>0. patch \in [Patches -> PatchStates]
    BY DEF PatchStates
  <2>1. patch' \in [Patches -> PatchStates]
    <3>1. \A q \in Patches : [patch[q] EXCEPT !.at = 0] \in PatchStates
      BY <2>0, PatchMoves
    <3>2. QED BY <1>4, <2>0, <3>1 DEF AddMember
  <2>2. iter' \in [Sessions -> Nat] /\ login' \in [Sessions -> Logins]
    BY <1>4 DEF AddMember, Logins
  <2>3. members' \in Seq(Sessions)
    BY <1>4 DEF AddMember
  <2>4. QED BY <1>4, <2>1, <2>2, <2>3 DEF AddMember, PatchStates
<1>5. CASE Start(s)
  BY <1>5 DEF Start, Logins
<1>6. CASE SaveSession(s)
  <2>1. file' \in [SessionIds -> Sessions \cup {Null}] /\ login' \in [Sessions -> Logins]
    BY <1>6 DEF SaveSession, Places, Logins
  <2>2. QED BY <1>6, <2>1 DEF SaveSession
<1>7. CASE LoginUndefined(s)
  BY <1>7 DEF LoginUndefined, Undefined
<1>8. QED BY <1>1, <1>2, <1>3, <1>4, <1>5, <1>6, <1>7 DEF Login

(* The members behind the one that is erased move up by one. *)
LEMMA EraseShifts ==
    ASSUME TypeOK, Places, NEW s \in Sessions, Erase(s)
    PROVE  /\ iter[s] \in DOMAIN members /\ members' \in Seq(Sessions)
           /\ DOMAIN members' = 1 .. Len(members) - 1
           /\ \A j \in DOMAIN members' :
                 members'[j] = IF j < iter[s] THEN members[j] ELSE members[j + 1]
<1>1. members \in Seq(Sessions) /\ iter[s] \in 1 .. Len(members)
  BY DEF Erase, TypeOK, Places
<1>2. members' = RemoveAt(members, iter[s])
  BY DEF Erase
<1>3. /\ members' \in Seq(Sessions) /\ Len(members') = Len(members) - 1
      /\ \A j \in 1 .. Len(members) - 1 :
            members'[j] = IF j < iter[s] THEN members[j] ELSE members[j + 1]
  BY <1>1, <1>2, RemoveAtShifts
<1>4. QED BY <1>1, <1>3

LEMMA TaskTypes ==
    ASSUME TypeOK, Places, NEW s \in Sessions, Task(s)
    PROVE  TypeOK'
<1> USE DEF TypeOK, recordVars, timerVars, Timers
<1>1. CASE Fire(s)
  BY <1>1 DEF Fire
<1>2. CASE Count(s)
  <2>1. (remain[s] - 1) % (RemainMax + 1) \in 0 .. RemainMax
    BY RemainAssumption
  <2>2. QED BY <1>2, <2>1 DEF Count
<1>3. CASE Search(s)
  <2>1. iter' \in [Sessions -> Nat] /\ nums' \subseteq SessionIds
    BY <1>3 DEF Search
  <2>2. timer' \in [Sessions -> Timers]
    BY <1>3 DEF Search
  <2> HIDE DEF Timers
  <2>3. QED BY <1>3, <2>1, <2>2 DEF Search
<1>4. CASE Delete(s)
  <2>1. iter[s] \in DOMAIN members /\ members[iter[s]] \in Sessions
    BY <1>4 DEF Delete, Places
  <2>2. freed' \subseteq Sessions /\ timer' \in [Sessions -> Timers]
    BY <1>4, <2>1 DEF Delete
  <2>3. record' \in [SessionIds -> Sessions \cup {Null}]
    BY <1>4 DEF Delete
  <2> HIDE DEF Timers
  <2>4. QED BY <1>4, <2>2, <2>3 DEF Delete
<1>5. CASE Erase(s)
  <2>1. members' \in Seq(Sessions)
    BY <1>5, EraseShifts
  <2>2. patch \in [Patches -> PatchStates]
    BY DEF PatchStates
  <2>3. patch' \in [Patches -> PatchStates] /\ iter' \in [Sessions -> Nat]
    BY <1>5, <2>2, PatchMoves DEF Erase
  <2>4. QED BY <1>5, <2>1, <2>3 DEF Erase, PatchStates
<1>6. CASE Unlink(s)
  BY <1>6 DEF Unlink
<1>7. CASE TimerUndefined(s) \/ ContinuationUndefined(s)
  BY <1>7 DEF TimerUndefined, ContinuationUndefined, Undefined
<1>8. QED BY <1>1, <1>2, <1>3, <1>4, <1>5, <1>6, <1>7 DEF Task

LEMMA StepTypes == TypeOK /\ Places /\ [Next]_vars => TypeOK'
<1>1. ASSUME TypeOK, UNCHANGED vars PROVE TypeOK'
  BY <1>1 DEF TypeOK, vars, recordVars, timerVars
<1>2. QED BY <1>1, LoginTypes, TaskTypes, LogoutTypes, PatchTypes DEF Next

-----------------------------------------------------------------------------
(* The steps that touch none of what Places speaks of. *)
LEMMA PlacesStay ==
    ASSUME Places, UNCHANGED <<members, num, login, timerVars>>
    PROVE  Places'
BY DEF Places, timerVars

LEMMA StepPlaces == TypeOK /\ Places /\ [Next]_vars => Places'
<1> SUFFICES ASSUME TypeOK, Places, [Next]_vars PROVE Places' OBVIOUS
<1> USE DEF TypeOK, recordVars, timerVars, Timers
<1>1. ASSUME NEW s \in Sessions, FindNumber(s) PROVE Places'
  <2>1. PICK i \in SessionIds : num' = [num EXCEPT ![s] = i]
    BY <1>1 DEF FindNumber
  <2>2. /\ login[s] = "none" /\ login' = [login EXCEPT ![s] = "take"]
        /\ members' = members /\ timer' = timer /\ iter' = iter
    BY <1>1 DEF FindNumber
  <2>3. \A j \in DOMAIN members : members[j] \in Sessions /\ members[j] # s
    <3>1. \A j \in DOMAIN members : members[j] \in Sessions
      OBVIOUS
    <3>2. QED BY <2>2, <3>1 DEF Places
  <2>4. \A x \in Sessions : iter[x] # 0 => x # s
    BY <2>2 DEF Places
  <2> HIDE DEF TypeOK
  <2>5. /\ num \in [Sessions -> SessionIds \cup {Null}]
        /\ login \in [Sessions -> Logins]
    BY DEF TypeOK
  <2>6. QED BY <2>1, <2>2, <2>3, <2>4, <2>5 DEF Places
<1>2. ASSUME NEW s \in Sessions, TakeNumber(s) \/ New(s) PROVE Places'
  <2>1. /\ login'[s] \in {"new", "add"} /\ login[s] \notin {"start", "save", "done", "none"}
        /\ \A x \in Sessions \ {s} : login'[x] = login[x]
        /\ UNCHANGED <<members, num, timerVars>>
    BY <1>2 DEF TakeNumber, New, Logins
  <2> HIDE DEF TypeOK, recordVars, Timers
  <2>2. \A j \in DOMAIN members : members[j] \in Sessions
    BY DEF TypeOK
  <2>3. QED BY <2>1, <2>2 DEF Places
<1>3. ASSUME NEW s \in Sessions, AddMember(s) PROVE Places'
  <2> HIDE DEF TypeOK, recordVars, timerVars, Timers
  <2>1. /\ members \in Seq(Sessions) /\ members' = Append(members, s) /\ login[s] = "add"
        /\ login \in [Sessions -> Logins]
        /\ timer \in [Sessions -> Timers]
    BY <1>3 DEF AddMember, TypeOK
  <2>2. /\ DOMAIN members' = 1 .. Len(members) + 1 /\ members'[Len(members) + 1] = s
        /\ \A j \in DOMAIN members : members'[j] = members[j] /\ members[j] \in Sessions
    BY <2>1
  <2>3. \A x \in Sessions : iter'[x] \in {0, iter[x]}
    BY <1>3 DEF AddMember, TypeOK
  <2>4. login' = [login EXCEPT ![s] = "start"] /\ timer' = timer /\ num' = num
    BY <1>3 DEF AddMember
  <2>5. \A j \in DOMAIN members' : login'[members'[j]] \in {"start", "save", "done"}
    <3>1. ASSUME NEW j \in DOMAIN members' PROVE login'[members'[j]] \in {"start", "save", "done"}
      <4>1. CASE j \in DOMAIN members
        BY <2>1, <2>2, <2>4, <4>1 DEF Places
      <4>2. CASE j = Len(members) + 1
        BY <2>1, <2>2, <2>4, <4>2
      <4>3. QED BY <2>1, <2>2, <4>1, <4>2
    <3>2. QED BY <3>1
  <2>6. \A x \in Sessions : iter'[x] # 0 =>
          /\ timer'[x] \in {"delete", "erase"}
          /\ iter'[x] \in DOMAIN members' /\ num'[members'[iter'[x]]] = num'[x]
    BY <2>1, <2>2, <2>3, <2>4 DEF Places
  <2>7. QED BY <2>1, <2>4, <2>5, <2>6 DEF Places
<1>4. ASSUME NEW s \in Sessions, Start(s) \/ SaveSession(s) PROVE Places'
  <2>1. /\ login'[s] \in {"save", "done"} /\ login[s] # "none"
        /\ \A x \in Sessions \ {s} : login'[x] = login[x] /\ timer'[x] = timer[x]
        /\ timer'[s] = timer[s] \/ timer[s] = "none"
        /\ UNCHANGED <<members, num, iter>>
    BY <1>4 DEF Start, SaveSession, Places, Logins
  <2> HIDE DEF TypeOK, recordVars, timerVars, Timers
  <2>2. \A j \in DOMAIN members : members[j] \in Sessions
    BY DEF TypeOK
  <2>3. QED BY <2>1, <2>2 DEF Places
<1>5. ASSUME NEW s \in Sessions, Fire(s) \/ Count(s) PROVE Places'
  <2>1. /\ timer[s] \in {"wait", "count"}
        /\ \A x \in Sessions \ {s} : timer'[x] = timer[x]
        /\ UNCHANGED <<members, num, login, iter>>
    BY <1>5 DEF Fire, Count
  <2> HIDE DEF TypeOK, recordVars, timerVars, Timers
  <2>2. QED BY <2>1 DEF Places
<1>6. ASSUME NEW s \in Sessions, Search(s) PROVE Places'
  <2>1. PICK j \in DOMAIN members : num[members[j]] = num[s] /\ iter' = [iter EXCEPT ![s] = j]
    BY <1>6 DEF Search
  <2>2. /\ timer' = [timer EXCEPT ![s] = "delete"] /\ timer[s] = "search"
        /\ members' = members /\ num' = num /\ login' = login
    BY <1>6 DEF Search
  <2>3. \A x \in Sessions \ {s} : iter'[x] = iter[x] /\ timer'[x] = timer[x]
    BY <2>1, <2>2
  <2>4. timer'[s] = "delete" /\ iter'[s] = j
    BY <2>1, <2>2
  <2> HIDE DEF TypeOK, recordVars, timerVars, Timers
  <2>5. QED BY <2>1, <2>2, <2>3, <2>4 DEF Places
<1>7. ASSUME NEW s \in Sessions, Delete(s) PROVE Places'
  <2>1. /\ timer[s] = "delete" /\ timer'[s] = "erase"
        /\ \A x \in Sessions \ {s} : timer'[x] = timer[x]
        /\ UNCHANGED <<members, num, login, iter>>
    BY <1>7 DEF Delete
  <2> HIDE DEF TypeOK, recordVars, timerVars, Timers
  <2>2. QED BY <2>1 DEF Places
<1>8. ASSUME NEW s \in Sessions, Erase(s) PROVE Places'
  <2> HIDE DEF TypeOK, recordVars, timerVars, Timers
  <2>1. /\ iter[s] \in DOMAIN members /\ DOMAIN members' = 1 .. Len(members) - 1
        /\ \A j \in DOMAIN members' :
              members'[j] = IF j < iter[s] THEN members[j] ELSE members[j + 1]
    BY <1>8, EraseShifts
  <2>2. members \in Seq(Sessions) /\ iter \in [Sessions -> Nat] /\ timer \in [Sessions -> Timers]
    BY DEF TypeOK
  <2>3. /\ \A x \in Sessions : iter'[x] = IF iter[x] >= iter[s] THEN 0 ELSE iter[x]
        /\ timer' = [timer EXCEPT ![s] = "unlink"] /\ login' = login /\ num' = num
        /\ timer[s] = "erase"
    BY <1>8 DEF Erase
  <2>4. \A j \in DOMAIN members' : j \in DOMAIN members /\ j + 1 \in DOMAIN members
    BY <2>1, <2>2
  <2>5. \A x \in Sessions : iter'[x] # 0 =>
          /\ x # s /\ iter'[x] = iter[x] /\ iter[x] \in DOMAIN members'
          /\ members'[iter[x]] = members[iter[x]]
    BY <2>1, <2>2, <2>3 DEF Places
  <2>6. \A j \in DOMAIN members' : login'[members'[j]] \in {"start", "save", "done"}
    BY <2>1, <2>3, <2>4 DEF Places
  <2>7. QED BY <2>2, <2>3, <2>5, <2>6 DEF Places
<1>9. ASSUME NEW s \in Sessions, Unlink(s) PROVE Places'
  BY <1>9 DEF Unlink, Places
<1>10. ASSUME NEW s \in Sessions,
               LoginUndefined(s) \/ TimerUndefined(s) \/ ContinuationUndefined(s)
       PROVE  Places'
  BY <1>10, PlacesStay DEF LoginUndefined, TimerUndefined, ContinuationUndefined, Undefined
<1>11. ASSUME NEW c \in Logouts, Logout(c) PROVE Places'
  BY <1>11, PlacesStay DEF Logout, Check, Lookup, Write, LogoutUndefined, Undefined
<1>12. ASSUME NEW p \in Patches, Patch(p) PROVE Places'
  BY <1>12, PlacesStay DEF Patch, PatchTimeout, PatchLook, PatchWrite, PatchUndefined, Undefined
<1>13. CASE UNCHANGED vars
  BY <1>13, PlacesStay DEF vars
<1>14. QED
  BY <1>1, <1>2, <1>3, <1>4, <1>5, <1>6, <1>7, <1>8, <1>9, <1>10, <1>11, <1>12, <1>13
     DEF Next, Login, Task

(* Every variable keeps its type however logins, timers, continuations, logouts and PATCHes
   overlap (make_session, Session::start, remove_session, patch_session_service). *)
THEOREM TypeCorrect == Spec => []TypeOK
BY InitTypes, StepTypes, StepPlaces, PTL DEF Spec

-----------------------------------------------------------------------------
(* A session that is gone stays gone: nothing makes it a member again. *)
LEMMA GoneStays ==
    ASSUME TypeOK, Places, [Next]_vars, NEW x \in Sessions, Gone(x)
    PROVE  Gone(x)'
<1>0. /\ timer[x] = "done" /\ x \notin ToSet(members) /\ login[x] \in {"save", "done"}
      /\ timer \in [Sessions -> Timers] /\ members \in Seq(Sessions)
      /\ login \in [Sessions -> Logins]
  BY DEF Gone, Places, TypeOK
<1> USE DEF Gone, recordVars, timerVars
<1>1. ASSUME NEW s \in Sessions, Login(s) PROVE Gone(x)'
  <2>1. CASE AddMember(s)
    <3>1. x # s /\ members' = Append(members, s) /\ timer' = timer
      BY <1>0, <2>1 DEF AddMember
    <3>2. x \notin ToSet(members')
      BY <1>0, <3>1 DEF ToSet
    <3>3. QED BY <1>0, <3>1, <3>2
  <2>2. CASE Start(s)
    <3>1. x # s /\ members' = members /\ timer' = [timer EXCEPT ![s] = "wait"]
      BY <1>0, <2>2 DEF Start
    <3>2. QED BY <1>0, <3>1
  <2>3. CASE ~ AddMember(s) /\ ~ Start(s)
    BY <1>0, <1>1, <2>3
       DEF Login, FindNumber, TakeNumber, New, SaveSession, LoginUndefined, Undefined
  <2>4. QED BY <2>1, <2>2, <2>3
<1>2. ASSUME NEW s \in Sessions, Task(s) PROVE Gone(x)'
  <2>1. CASE Erase(s)
    <3>1. x # s /\ timer' = [timer EXCEPT ![s] = "unlink"]
      BY <1>0, <2>1 DEF Erase
    <3>2. \A j \in DOMAIN members' : \E k \in DOMAIN members : members'[j] = members[k]
      <4>1. /\ iter[s] \in DOMAIN members /\ DOMAIN members' = 1 .. Len(members) - 1
            /\ \A j \in DOMAIN members' :
                  members'[j] = IF j < iter[s] THEN members[j] ELSE members[j + 1]
        BY <2>1, EraseShifts
      <4>2. \A j \in DOMAIN members' : j \in DOMAIN members /\ j + 1 \in DOMAIN members
        BY <1>0, <4>1
      <4>3. QED BY <4>1, <4>2
    <3>3. x \notin ToSet(members')
      BY <1>0, <3>2 DEF ToSet
    <3>4. QED BY <1>0, <3>1, <3>3
  <2>2. CASE ~ Erase(s)
    <3>1. members' = members
      BY <1>2, <2>2
         DEF Task, Fire, Count, Search, Delete, Unlink, TimerUndefined, ContinuationUndefined,
             Undefined
    <3>2. timer'[x] = "done"
      BY <1>0, <1>2, <2>2
         DEF Task, Fire, Count, Search, Delete, Unlink, TimerUndefined, ContinuationUndefined,
             Undefined
    <3>3. QED BY <1>0, <3>1, <3>2
  <2>3. QED BY <2>1, <2>2
<1>3. ASSUME NEW c \in Logouts, Logout(c) PROVE Gone(x)'
  BY <1>0, <1>3 DEF Logout, Check, Lookup, Write, LogoutUndefined, Undefined
<1>4. ASSUME NEW p \in Patches, Patch(p) PROVE Gone(x)'
  BY <1>0, <1>4 DEF Patch, PatchTimeout, PatchLook, PatchWrite, PatchUndefined, Undefined
<1>5. CASE UNCHANGED vars
  BY <1>0, <1>5 DEF vars
<1>6. QED BY <1>1, <1>2, <1>3, <1>4, <1>5 DEF Next

(* Every other session of the number of one that is not shared is gone. *)
Alone ==
    \A s \in Sessions \ shared :
        login[s] # "none" /\ ~ Gone(s) =>
            \A x \in Sessions \ {s} : num[x] = num[s] => Gone(x)

LEMMA StepAlone == TypeOK /\ Places /\ Alone /\ [Next]_vars => Alone'
<1> SUFFICES ASSUME TypeOK, Places, Alone, [Next]_vars PROVE Alone' OBVIOUS
<1>0. \A x \in Sessions : Gone(x) => Gone(x)'
  BY GoneStays
<1>1. CASE \E s \in Sessions : FindNumber(s)
  <2>1. PICK s \in Sessions : FindNumber(s)
    BY <1>1
  <2>2. PICK i \in SessionIds :
          /\ num' = [num EXCEPT ![s] = i]
          /\ shared' = IF Holders(i) = {} THEN shared ELSE shared \cup Holders(i) \cup {s}
    BY <2>1 DEF FindNumber
  <2>3. /\ num \in [Sessions -> SessionIds \cup {Null}] /\ login \in [Sessions -> Logins]
        /\ login[s] = "none" /\ login' = [login EXCEPT ![s] = "take"]
        /\ timer' = timer /\ members' = members
    BY <2>1 DEF FindNumber, TypeOK, timerVars, recordVars
  <2>4. ASSUME NEW y \in Sessions \ shared', login'[y] # "none", ~ Gone(y)',
               NEW x \in Sessions \ {y}, num'[x] = num'[y]
        PROVE  Gone(x)'
    <3>1. y \notin shared /\ ~ Gone(y)
      BY <1>0, <2>2, <2>4
    <3>2. CASE x # s /\ y # s
      BY <1>0, <2>2, <2>3, <2>4, <3>1, <3>2 DEF Alone
    <3>3. CASE y = s
      <4>1. Holders(i) = {} /\ num[x] = i
        BY <2>2, <2>3, <2>4, <3>3
      <4>2. QED BY <1>0, <4>1 DEF Holders
    <3>4. CASE x = s
      <4>1. num[y] = i /\ y \in Holders(i)
        BY <2>2, <2>3, <2>4, <3>1, <3>4 DEF Holders
      <4>2. QED BY <2>2, <2>4, <4>1
    <3>5. QED BY <3>2, <3>3, <3>4
  <2>5. QED BY <2>4 DEF Alone
<1>2. CASE ~ \E s \in Sessions : FindNumber(s)
  <2>1. ASSUME NEW s \in Sessions, Login(s)
        PROVE  /\ num' = num /\ shared' = shared
               /\ \A x \in Sessions : login'[x] # "none" => login[x] # "none"
    BY <1>2, <2>1
       DEF Login, TakeNumber, New, AddMember, Start, SaveSession, LoginUndefined, Undefined, TypeOK
  <2>2. ASSUME NEW s \in Sessions, Task(s)
        PROVE  num' = num /\ shared' = shared /\ login' = login
    BY <2>2 DEF Task, Fire, Count, Search, Delete, Erase, Unlink, TimerUndefined,
                ContinuationUndefined, Undefined
  <2>3. ASSUME NEW c \in Logouts, Logout(c)
        PROVE  num' = num /\ shared' = shared /\ login' = login
    BY <2>3 DEF Logout, Check, Lookup, Write, LogoutUndefined, Undefined
  <2>4. ASSUME NEW p \in Patches, Patch(p)
        PROVE  num' = num /\ shared' = shared /\ login' = login
    BY <2>4 DEF Patch, PatchTimeout, PatchLook, PatchWrite, PatchUndefined, Undefined
  <2>5. /\ num' = num /\ shared' = shared
        /\ \A x \in Sessions : login'[x] # "none" => login[x] # "none"
    BY <2>1, <2>2, <2>3, <2>4 DEF Next, vars
  <2>6. QED BY <1>0, <2>5 DEF Alone
<1>3. QED BY <1>1, <1>2

(* What a session has of its own, and that it is freed by its own continuation. *)
Keeps(s) ==
    /\ HasNumber(s) => num[s] \in nums
    /\ login[s] \notin {"none", "take", "new"}
          /\ timer[s] \in {"none", "wait", "count", "search", "delete"} => record[num[s]] = s
    /\ login[s] = "done" /\ timer[s] # "done" => file[num[s]] = s
    /\ s \in freed => timer[s] \in {"erase", "unlink", "done"}
    /\ timer[s] \in {"erase", "unlink"} => s \in freed /\ record[num[s]] = Null

Own == \A s \in Sessions \ shared : Keeps(s)

(* A step that touches nothing of a session leaves it what it has. *)
LEMMA KeepsStays ==
    ASSUME NEW s \in Sessions, Keeps(s),
           num'[s] = num[s], login'[s] = login[s], timer'[s] = timer[s],
           num[s] \in nums => num[s] \in nums',
           record'[num[s]] = record[num[s]], file'[num[s]] = file[num[s]],
           s \in freed' <=> s \in freed
    PROVE  Keeps(s)'
BY DEF Keeps, HasNumber

LEMMA StepOwn == TypeOK /\ Places /\ Alone /\ Own /\ [Next]_vars => Own'
<1> SUFFICES ASSUME TypeOK, Places, Alone, Own, [Next]_vars,
                    NEW y \in Sessions, y \notin shared'
             PROVE  Keeps(y)'
  BY DEF Own
<1>0. /\ login \in [Sessions -> Logins] /\ timer \in [Sessions -> Timers]
      /\ num \in [Sessions -> SessionIds \cup {Null}]
      /\ record \in [SessionIds -> Sessions \cup {Null}]
      /\ file \in [SessionIds -> Sessions \cup {Null}]
      /\ \A j \in DOMAIN members : members[j] \in Sessions
  BY DEF TypeOK
<1>1. y \notin shared
  <2>1. ASSUME NEW s \in Sessions, FindNumber(s) PROVE y \notin shared
    BY <2>1 DEF FindNumber
  <2>2. ASSUME NEW s \in Sessions, Login(s), ~ FindNumber(s) PROVE y \notin shared
    BY <2>2 DEF Login, TakeNumber, New, AddMember, Start, SaveSession, LoginUndefined, Undefined
  <2>3. ASSUME NEW s \in Sessions, Task(s) PROVE y \notin shared
    BY <2>3 DEF Task, Fire, Count, Search, Delete, Erase, Unlink, TimerUndefined,
                ContinuationUndefined, Undefined
  <2>4. ASSUME NEW c \in Logouts, Logout(c) PROVE y \notin shared
    BY <2>4 DEF Logout, Check, Lookup, Write, LogoutUndefined, Undefined
  <2>5. ASSUME NEW p \in Patches, Patch(p) PROVE y \notin shared
    BY <2>5 DEF Patch, PatchTimeout, PatchLook, PatchWrite, PatchUndefined, Undefined
  <2>6. QED BY <2>1, <2>2, <2>3, <2>4, <2>5 DEF Next, vars
<1>2. Keeps(y)
  BY <1>1 DEF Own
<1>3. /\ login[y] # "none" => num[y] \in SessionIds
      /\ login[y] \notin {"save", "done"} => timer[y] = "none"
  BY DEF Places
<1>4. ASSUME NEW x \in Sessions, num[x] = num[y], timer[x] # "done" \/ x \in ToSet(members),
             timer[y] # "done", login[y] # "none"
      PROVE  x = y
  BY <1>1, <1>4 DEF Alone, Gone
<1>5. ASSUME NEW s \in Sessions, FindNumber(s) PROVE Keeps(y)'
  <2>1. /\ login[s] = "none" /\ login' = [login EXCEPT ![s] = "take"]
        /\ num'[y] = num[y] \/ y = s
        /\ UNCHANGED <<timer, nums, record, file, freed>>
    BY <1>0, <1>5 DEF FindNumber, recordVars, timerVars
  <2>2. CASE y = s
    BY <1>0, <1>2, <1>3, <2>1, <2>2 DEF Keeps, HasNumber
  <2>3. CASE y # s
    BY <1>0, <1>2, <2>1, <2>3, KeepsStays
  <2>4. QED BY <2>2, <2>3
<1>6. ASSUME NEW s \in Sessions, TakeNumber(s) PROVE Keeps(y)'
  <2>1. /\ login[s] = "take" /\ login' = [login EXCEPT ![s] = "new"]
        /\ nums' = nums \cup {num[s]}
        /\ UNCHANGED <<num, timer, record, file, freed>>
    BY <1>6 DEF TakeNumber, recordVars, timerVars
  <2>2. CASE y = s
    BY <1>0, <1>2, <1>3, <2>1, <2>2 DEF Keeps, HasNumber
  <2>3. CASE y # s
    BY <1>0, <1>2, <2>1, <2>3, KeepsStays
  <2>4. QED BY <2>2, <2>3
<1>7. ASSUME NEW s \in Sessions, New(s) PROVE Keeps(y)'
  <2>1. /\ login[s] = "new" /\ login' = [login EXCEPT ![s] = "add"]
        /\ record' = [record EXCEPT ![num[s]] = s]
        /\ UNCHANGED <<num, nums, timer, file, freed>>
    BY <1>7 DEF New, timerVars
  <2>2. timer[s] = "none" /\ num[s] \in SessionIds
    BY <2>1 DEF Places
  <2>3. CASE y = s
    BY <1>0, <1>2, <2>1, <2>2, <2>3 DEF Keeps, HasNumber
  <2>4. CASE y # s /\ (timer[y] = "done" \/ login[y] = "none")
    BY <1>0, <1>2, <1>3, <2>1, <2>4 DEF Keeps, HasNumber
  <2>5. CASE y # s /\ timer[y] # "done" /\ login[y] # "none"
    <3>1. num[y] # num[s]
      BY <1>4, <2>2, <2>5
    <3>2. QED BY <1>0, <1>2, <2>1, <2>5, <3>1, KeepsStays
  <2>6. QED BY <2>3, <2>4, <2>5
<1>8. ASSUME NEW s \in Sessions, AddMember(s) \/ Start(s) PROVE Keeps(y)'
  <2>1. /\ login[s] \in {"add", "start"} /\ timer[s] = "none"
        /\ login'[s] \in {"start", "save"} /\ timer'[s] \in {"none", "wait"}
        /\ \A x \in Sessions \ {s} : login'[x] = login[x] /\ timer'[x] = timer[x]
        /\ UNCHANGED <<num, nums, record, file, freed>>
    BY <1>0, <1>8 DEF AddMember, Start, Places, recordVars
  <2>2. CASE y = s
    BY <1>0, <1>2, <2>1, <2>2 DEF Keeps, HasNumber
  <2>3. CASE y # s
    BY <1>0, <1>2, <2>1, <2>3, KeepsStays
  <2>4. QED BY <2>2, <2>3
<1>9. ASSUME NEW s \in Sessions, SaveSession(s) PROVE Keeps(y)'
  <2>1. /\ login[s] = "save" /\ login' = [login EXCEPT ![s] = "done"] /\ s \notin freed
        /\ file' = IF record[num[s]] # Null THEN [file EXCEPT ![num[s]] = record[num[s]]] ELSE file
        /\ UNCHANGED <<num, nums, timer, record, freed>>
    BY <1>9 DEF SaveSession, timerVars
  <2>2. num[s] \in SessionIds /\ Null \notin Sessions
    BY <2>1, ObjectAssumption DEF Places
  <2>3. timer[y] \in Timers
    BY <1>0
  <2>4. CASE y = s
    <3>1. timer[y] \notin {"erase", "unlink"}
      BY <1>2, <2>1, <2>4 DEF Keeps
    <3>2. timer[y] # "done" => record[num[y]] = y
      BY <1>2, <2>1, <2>3, <2>4, <3>1 DEF Keeps, Timers
    <3>3. timer[y] # "done" => file'[num[y]] = y
      BY <1>0, <2>1, <2>2, <2>4, <3>2
    <3>4. QED BY <1>0, <1>2, <2>1, <2>4, <3>3 DEF Keeps, HasNumber
  <2>5. CASE y # s
    <3>1. login[y] = "done" /\ timer[y] # "done" => file'[num[y]] = y
      <4>1. SUFFICES ASSUME login[y] = "done", timer[y] # "done" PROVE file'[num[y]] = y
        OBVIOUS
      <4>2. file[num[y]] = y
        BY <1>2, <4>1 DEF Keeps
      <4>3. CASE num[y] # num[s] \/ record[num[s]] = Null
        BY <1>0, <2>1, <2>2, <4>2, <4>3
      <4>4. CASE num[y] = num[s] /\ record[num[s]] # Null
        <5>1. timer[y] \notin {"erase", "unlink"}
          BY <1>2, <4>4 DEF Keeps
        <5>2. QED BY <1>0, <1>2, <2>1, <2>2, <2>3, <4>1, <4>4, <5>1 DEF Keeps, Timers
      <4>5. QED BY <4>3, <4>4
    <3>2. QED BY <1>0, <1>2, <2>1, <2>5, <3>1 DEF Keeps, HasNumber
  <2>6. QED BY <2>4, <2>5
<1>10. ASSUME NEW s \in Sessions, Fire(s) \/ Count(s) PROVE Keeps(y)'
  <2>1. /\ timer[s] \in {"wait", "count"} /\ timer'[s] \in {"wait", "count", "search"}
        /\ \A x \in Sessions \ {s} : timer'[x] = timer[x]
        /\ UNCHANGED <<login, num, nums, record, file, freed>>
    BY <1>0, <1>10 DEF Fire, Count, recordVars
  <2>2. CASE y = s
    BY <1>0, <1>2, <2>1, <2>2 DEF Keeps, HasNumber
  <2>3. CASE y # s
    BY <1>0, <1>2, <2>1, <2>3, KeepsStays
  <2>4. QED BY <2>2, <2>3
<1>11. ASSUME NEW s \in Sessions, Search(s) PROVE Keeps(y)'
  <2>1. /\ timer[s] = "search" /\ timer' = [timer EXCEPT ![s] = "delete"]
        /\ nums' = nums \ {num[s]}
        /\ UNCHANGED <<login, num, record, file, freed>>
    BY <1>11 DEF Search, recordVars
  <2>2. CASE y = s
    BY <1>0, <1>2, <2>1, <2>2 DEF Keeps, HasNumber
  <2>3. CASE y # s /\ (timer[y] = "done" \/ login[y] = "none")
    BY <1>0, <1>2, <1>3, <2>1, <2>3 DEF Keeps, HasNumber
  <2>4. CASE y # s /\ timer[y] # "done" /\ login[y] # "none"
    <3>1. num[y] # num[s]
      BY <1>4, <2>1, <2>4
    <3>2. QED BY <1>0, <1>2, <2>1, <2>4, <3>1, KeepsStays
  <2>5. QED BY <2>2, <2>3, <2>4
<1>12. ASSUME NEW s \in Sessions, Delete(s) PROVE Keeps(y)'
  <2> DEFINE m == members[iter[s]]
  <2>1. /\ timer[s] = "delete" /\ timer' = [timer EXCEPT ![s] = "erase"]
        /\ freed' = freed \cup {m} /\ record' = [record EXCEPT ![num[m]] = Null]
        /\ UNCHANGED <<login, num, nums, file>>
    BY <1>12 DEF Delete
  <2>2. /\ m \in Sessions /\ m \in ToSet(members) /\ num[m] = num[s]
        /\ login[m] \in {"start", "save", "done"} /\ login[s] \in {"save", "done"}
        /\ num[s] \in SessionIds
    BY <1>0, <1>12, <2>1 DEF Delete, Places, ToSet
  <2> HIDE DEF m
  <2>3. CASE y = s
    <3>1. m = y
      BY <1>4, <2>1, <2>2, <2>3
    <3>2. QED BY <1>0, <1>2, <2>1, <2>2, <2>3, <3>1 DEF Keeps, HasNumber
  <2>4. CASE y # s /\ timer[y] = "done"
    BY <1>0, <1>2, <2>1, <2>4 DEF Keeps, HasNumber
  <2>5. CASE y # s /\ timer[y] # "done" /\ login[y] = "none"
    BY <1>0, <1>2, <1>3, <2>1, <2>2, <2>5 DEF Keeps, HasNumber
  <2>6. CASE y # s /\ timer[y] # "done" /\ login[y] # "none"
    <3>1. num[y] # num[s] /\ y # m
      BY <1>4, <2>1, <2>2, <2>6
    <3>2. QED BY <1>0, <1>2, <2>1, <2>2, <2>6, <3>1, KeepsStays
  <2>7. QED BY <2>3, <2>4, <2>5, <2>6
<1>13. ASSUME NEW s \in Sessions, Erase(s) PROVE Keeps(y)'
  <2>1. /\ timer[s] = "erase" /\ timer' = [timer EXCEPT ![s] = "unlink"]
        /\ UNCHANGED <<login, num, nums, record, file, freed>>
    BY <1>13 DEF Erase
  <2>2. CASE y = s
    BY <1>0, <1>2, <2>1, <2>2 DEF Keeps, HasNumber
  <2>3. CASE y # s
    BY <1>0, <1>2, <2>1, <2>3, KeepsStays
  <2>4. QED BY <2>2, <2>3
<1>14. ASSUME NEW s \in Sessions, Unlink(s) PROVE Keeps(y)'
  <2>1. /\ timer[s] = "unlink" /\ timer' = [timer EXCEPT ![s] = "done"]
        /\ file' = IF record[num[s]] = Null THEN [file EXCEPT ![num[s]] = Null] ELSE file
        /\ UNCHANGED <<login, num, nums, record, freed>>
    BY <1>14 DEF Unlink
  <2>2. num[s] \in SessionIds
    BY <2>1 DEF Places
  <2>3. CASE y = s
    BY <1>0, <1>2, <2>1, <2>3 DEF Keeps, HasNumber
  <2>4. CASE y # s /\ (timer[y] = "done" \/ login[y] = "none")
    BY <1>0, <1>2, <1>3, <2>1, <2>4 DEF Keeps, HasNumber
  <2>5. CASE y # s /\ timer[y] # "done" /\ login[y] # "none"
    <3>1. num[y] # num[s]
      BY <1>4, <2>1, <2>5
    <3>2. QED BY <1>0, <1>2, <2>1, <2>2, <2>5, <3>1, KeepsStays
  <2>6. QED BY <2>3, <2>4, <2>5
<1>15. ASSUME NEW s \in Sessions,
              LoginUndefined(s) \/ TimerUndefined(s) \/ ContinuationUndefined(s)
       PROVE  Keeps(y)'
  BY <1>2, <1>15, KeepsStays
     DEF LoginUndefined, TimerUndefined, ContinuationUndefined, Undefined, timerVars, recordVars
<1>16. ASSUME NEW c \in Logouts, Logout(c) PROVE Keeps(y)'
  BY <1>2, <1>16, KeepsStays
     DEF Logout, Check, Lookup, Write, LogoutUndefined, Undefined, timerVars, recordVars
<1>17. ASSUME NEW p \in Patches, Patch(p) PROVE Keeps(y)'
  BY <1>2, <1>17, KeepsStays
     DEF Patch, PatchTimeout, PatchLook, PatchWrite, PatchUndefined, Undefined, timerVars,
         recordVars
<1>18. CASE UNCHANGED vars
  BY <1>2, <1>18, KeepsStays DEF vars, timerVars, recordVars
<1>19. QED
  BY <1>5, <1>6, <1>7, <1>8, <1>9, <1>10, <1>11, <1>12, <1>13, <1>14, <1>15, <1>16, <1>17, <1>18
     DEF Next, Login, Task

(* However logins, expiries, logouts and PATCHes overlap, a session whose number no other
   session had at the same time keeps its number, its entry of g_record, its file and its memory
   until its own continuation takes them (allocate_numset_num, make_session, Session::start). *)
THEOREM UnsharedCorrect == Spec => []UnsharedSessionKept
<1>1. Init => Alone /\ Own
  BY DEF Init, Alone, Own, Keeps, HasNumber
<1>2. TypeOK /\ Places /\ Own => UnsharedSessionKept
  <2>1. ASSUME Places, NEW s \in Sessions, Keeps(s)
        PROVE  /\ HasNumber(s) => num[s] \in nums
               /\ timer[s] \in {"wait", "count", "search", "delete"} => record[num[s]] = s
               /\ login[s] = "done" /\ timer[s] # "done" => file[num[s]] = s
               /\ s \in freed => timer[s] \in {"erase", "unlink", "done"}
    BY <2>1 DEF Keeps, Places
  <2>2. QED BY <2>1 DEF Own, UnsharedSessionKept
<1>3. QED
  BY <1>1, <1>2, InitTypes, StepTypes, StepPlaces, StepAlone, StepOwn, PTL DEF Spec

-----------------------------------------------------------------------------

(* A file that is not that of the object in g_record is owed by a login that is about to save,
   one that g_record has nothing for by a continuation that is about to unlink. *)
Owed ==
    \A i \in SessionIds :
        /\ record[i] # Null /\ file[i] # record[i]
              => \E s \in Sessions : num[s] = i /\ login[s] \in {"add", "start", "save"}
        /\ record[i] = Null /\ file[i] # Null
              => \E s \in Sessions : num[s] = i /\ timer[s] \in {"erase", "unlink"}

(* Whoever owes a file still does after a step that leaves the files and g_record. *)
LEMMA OwedStays ==
    ASSUME Owed, UNCHANGED <<record, file>>,
           \A s \in Sessions : num[s] \in SessionIds =>
              /\ login[s] \in {"add", "start", "save"} =>
                    num'[s] = num[s] /\ login'[s] \in {"add", "start", "save"}
              /\ timer[s] \in {"erase", "unlink"} =>
                    num'[s] = num[s] /\ timer'[s] \in {"erase", "unlink"}
    PROVE  Owed'
BY DEF Owed

LEMMA StepOwed == TypeOK /\ Places /\ Owed /\ [Next]_vars => Owed'
<1> SUFFICES ASSUME TypeOK, Places, Owed, [Next]_vars PROVE Owed' OBVIOUS
<1>0. /\ login \in [Sessions -> Logins]
      /\ timer \in [Sessions -> Timers] /\ num \in [Sessions -> SessionIds \cup {Null}]
      /\ record \in [SessionIds -> Sessions \cup {Null}]
      /\ file \in [SessionIds -> Sessions \cup {Null}]
      /\ Null \notin Sessions
  BY ObjectAssumption DEF TypeOK
<1>1. ASSUME NEW s \in Sessions, FindNumber(s) \/ TakeNumber(s) PROVE Owed'
  <2>1. /\ login[s] \in {"none", "take"} /\ timer[s] = "none"
        /\ timer' = timer /\ record' = record /\ file' = file
    BY <1>1 DEF FindNumber, TakeNumber, recordVars, timerVars, Places
  <2>2. \A x \in Sessions \ {s} : num'[x] = num[x] /\ login'[x] = login[x]
    BY <1>0, <1>1 DEF FindNumber, TakeNumber
  <2>3. QED BY <1>0, <2>1, <2>2, OwedStays
<1>2. ASSUME NEW s \in Sessions, New(s) PROVE Owed'
  <2>1. /\ record' = [record EXCEPT ![num[s]] = s] /\ num[s] \in SessionIds
        /\ login' = [login EXCEPT ![s] = "add"] /\ timer' = timer /\ file' = file /\ num' = num
    BY <1>2 DEF New, timerVars, Places
  <2>2. QED BY <1>0, <2>1 DEF Owed
<1>3. ASSUME NEW s \in Sessions, AddMember(s) \/ Start(s) PROVE Owed'
  <2>1. /\ login'[s] \in {"start", "save"} /\ timer[s] = "none"
        /\ record' = record /\ file' = file /\ num' = num
    BY <1>0, <1>3 DEF AddMember, Start, Places, recordVars
  <2>2. \A x \in Sessions \ {s} : login'[x] = login[x] /\ timer'[x] = timer[x]
    BY <1>0, <1>3 DEF AddMember, Start
  <2>3. QED BY <1>0, <2>1, <2>2, OwedStays
<1>4. ASSUME NEW s \in Sessions, SaveSession(s) PROVE Owed'
  <2>1. /\ login[s] = "save" /\ login' = [login EXCEPT ![s] = "done"] /\ num[s] \in SessionIds
        /\ timer' = timer /\ record' = record /\ num' = num
        /\ file' = IF record[num[s]] # Null THEN [file EXCEPT ![num[s]] = record[num[s]]] ELSE file
    BY <1>4 DEF SaveSession, timerVars, Places
  <2>2. QED BY <1>0, <2>1 DEF Owed
<1>5. ASSUME NEW s \in Sessions, Delete(s) PROVE Owed'
  <2>1. /\ timer[s] = "delete" /\ timer' = [timer EXCEPT ![s] = "erase"]
        /\ record' = [record EXCEPT ![num[s]] = Null] /\ num[s] \in SessionIds
        /\ login' = login /\ file' = file /\ num' = num
    BY <1>5 DEF Delete, Places
  <2>2. QED BY <1>0, <2>1 DEF Owed
<1>6. ASSUME NEW s \in Sessions, Unlink(s) PROVE Owed'
  <2>1. /\ timer[s] = "unlink" /\ timer' = [timer EXCEPT ![s] = "done"] /\ num[s] \in SessionIds
        /\ login' = login /\ record' = record /\ num' = num
        /\ file' = IF record[num[s]] = Null THEN [file EXCEPT ![num[s]] = Null] ELSE file
    BY <1>6 DEF Unlink, Places
  <2>2. QED BY <1>0, <2>1 DEF Owed
<1>7. ASSUME NEW s \in Sessions, Fire(s) \/ Count(s) \/ Search(s) \/ Erase(s) PROVE Owed'
  <2>1. record' = record /\ file' = file /\ num' = num /\ login' = login
    BY <1>7 DEF Fire, Count, Search, Erase, recordVars
  <2>2. \A x \in Sessions : timer[x] \in {"erase", "unlink"} => timer'[x] \in {"erase", "unlink"}
    BY <1>0, <1>7 DEF Fire, Count, Search, Erase
  <2>3. QED BY <2>1, <2>2, OwedStays
<1>8. ASSUME NEW s \in Sessions,
              LoginUndefined(s) \/ TimerUndefined(s) \/ ContinuationUndefined(s)
      PROVE  Owed'
  BY <1>8, OwedStays
     DEF LoginUndefined, TimerUndefined, ContinuationUndefined, Undefined, timerVars, recordVars
<1>9. ASSUME NEW c \in Logouts, Logout(c) PROVE Owed'
  BY <1>9, OwedStays
     DEF Logout, Check, Lookup, Write, LogoutUndefined, Undefined, timerVars, recordVars
<1>10. ASSUME NEW p \in Patches, Patch(p) PROVE Owed'
  BY <1>10, OwedStays
     DEF Patch, PatchTimeout, PatchLook, PatchWrite, PatchUndefined, Undefined, timerVars,
         recordVars
<1>11. CASE UNCHANGED vars
  BY <1>11, OwedStays DEF vars, timerVars, recordVars
<1>12. QED
  BY <1>1, <1>2, <1>3, <1>4, <1>5, <1>6, <1>7, <1>8, <1>9, <1>10, <1>11 DEF Next, Login, Task

(* When no login and no removal is under way the session files are those of the sessions there
   are, also after a removal that a login of the same number overtook (delete_resource,
   resource_save_json). *)
THEOREM FilesCorrect == Spec => []FilesMirrorAtRest
<1>1. Init => Owed
  BY DEF Init, Owed
<1>2. ASSUME TypeOK, Owed, AtRest PROVE file = record
  <2>1. \A s \in Sessions :
          login[s] \notin {"add", "start", "save"} /\ timer[s] \notin {"erase", "unlink"}
    BY <1>2 DEF AtRest
  <2>2. \A i \in SessionIds : file[i] = record[i]
    BY <1>2, <2>1 DEF Owed
  <2>3. /\ record \in [SessionIds -> Sessions \cup {Null}]
        /\ file \in [SessionIds -> Sessions \cup {Null}]
    BY <1>2 DEF TypeOK
  <2>4. QED BY <2>2, <2>3
<1>3. TypeOK /\ Owed => FilesMirrorAtRest
  BY <1>2 DEF FilesMirrorAtRest
<1>4. QED BY <1>1, <1>3, InitTypes, StepTypes, StepPlaces, StepOwed, PTL DEF Spec
=============================================================================
