----------------------------- MODULE SessionTimer -----------------------------
(***************************************************************************)
(* The life of a session, statement by statement: the login handler that   *)
(* makes it (make_session), the timer that counts it down on a thread of   *)
(* its own (timer, Session::start), the continuation that removes it, the  *)
(* logout (remove_session) and the PATCH of SessionTimeout.  None of them  *)
(* takes a lock.  A step is what runs between two uses of what they share: *)
(* g_record, the members of the session collection, the numbers in use,    *)
(* the json files and the time a session has left.                         *)
(*                                                                         *)
(* A session is the heap object of one login, and so is its token.  One    *)
(* call of a container is one step; what two overlapping calls on a        *)
(* container do to it is not modelled.  The first use of freed memory, of  *)
(* an iterator a change of the vector has made invalid, or of a null       *)
(* pointer sets undefined: what happens after it may be anything, and is   *)
(* not followed.                                                           *)
(*                                                                         *)
(* Two logins can find the same free number before either takes it, so     *)
(* that two sessions have one number and one uri.  shared is a history     *)
(* variable: no step reads it, it tells which sessions that happened to.   *)
(***************************************************************************)
EXTENDS NumberSet, FiniteSets, Sequences, SequencesExt

CONSTANTS
    Sessions,       \* bound: the objects logins allocate
    Logouts,        \* bound: the clients that log out, once each
    Patches,        \* bound: the clients that PATCH SessionTimeout, once each
    Timeouts,       \* bound: the values they PATCH
    InitTimeout,
    RemainMax,      \* the greatest value of _remain_expires_time, an unsigned int
    Null

SessionIds == Numbers \ {0}

ASSUME RemainAssumption ==
    /\ RemainMax \in Nat \ {0}
    /\ InitTimeout \in 0 .. RemainMax
    /\ Timeouts \subseteq 0 .. RemainMax
ASSUME ObjectAssumption == Null \notin Sessions \cup SessionIds

VARIABLES
    record,         \* g_record: the object of every session uri
    members,        \* the members of the session collection, a vector
    nums, last,     \* numset and numset_num of ALLOCATE_SESSION_NUM
    file,           \* the object every session file was written from
    num,            \* Session::id
    remain,         \* Session::_remain_expires_time
    freed,          \* the objects that have been deleted
    timeout,        \* SessionService::session_timeout
    login,          \* where make_session is: "none", "take", "new", "add", "start",
                    \* "save", "done"
    timer,          \* where the task of a session is: "none", "wait", "count",
                    \* "search", "delete", "erase", "unlink", "done"
    iter,           \* its iterator into members, 0 when it is not valid
    logout,         \* where remove_session is, and for which session
    patch,          \* where patch_session_service is, its value and iterator
    undefined,      \* something undefined has happened
    shared          \* history: the sessions whose number another one had as well

timerVars == <<timer, iter>>
recordVars == <<record, members, file>>
vars == <<recordVars, nums, last, num, remain, freed, timeout, login, timerVars,
          logout, patch, undefined, shared>>

Init ==
    /\ record = [i \in SessionIds |-> Null]
    /\ members = <<>>
    /\ nums = {} /\ last = 1
    /\ file = [i \in SessionIds |-> Null]
    /\ num = [s \in Sessions |-> Null]
    /\ remain = [s \in Sessions |-> 0]
    /\ freed = {}
    /\ timeout = InitTimeout
    /\ login = [s \in Sessions |-> "none"]
    /\ timer = [s \in Sessions |-> "none"]
    /\ iter = [s \in Sessions |-> 0]
    /\ logout = [c \in Logouts |-> [pc |-> "idle", of |-> Null, uri |-> Null]]
    /\ patch = [p \in Patches |-> [pc |-> "idle", to |-> 0, at |-> 0]]
    /\ undefined = FALSE
    /\ shared = {}

Undefined ==
    /\ undefined' = TRUE
    /\ UNCHANGED <<recordVars, nums, last, num, remain, freed, timeout, login, timerVars,
                   logout, patch, shared>>

\* A loop over the members reads every one of them.
MembersFreed == freed \cap ToSet(members) # {}

-----------------------------------------------------------------------------
(* make_session                                                            *)

\* A session is gone when nothing of its removal is left to do.
Gone(s) == timer[s] = "done" /\ s \notin ToSet(members)

\* The sessions that have the number i, or are not yet done with it.
Holders(i) == {s \in Sessions : num[s] = i /\ ~Gone(s)}

\* allocate_numset_num searches for a free number ...
FindNumber(s) ==
    /\ ~undefined /\ login[s] = "none"
    /\ \E i \in SessionIds :
         /\ Allocates(i, nums, last)
         /\ num' = [num EXCEPT ![s] = i]
         /\ shared' = IF Holders(i) = {} THEN shared ELSE shared \cup Holders(i) \cup {s}
    /\ login' = [login EXCEPT ![s] = "take"]
    /\ UNCHANGED <<recordVars, nums, last, remain, freed, timeout, timerVars, logout, patch,
                   undefined>>

\* ... and puts the one it has found among those in use.
TakeNumber(s) ==
    /\ ~undefined /\ login[s] = "take"
    /\ nums' = nums \cup {num[s]}
    /\ last' = num[s]
    /\ login' = [login EXCEPT ![s] = "new"]
    /\ UNCHANGED <<recordVars, num, remain, freed, timeout, timerVars, logout, patch, undefined,
                   shared>>

\* The constructor enters the object in g_record.
New(s) ==
    /\ ~undefined /\ login[s] = "new"
    /\ record' = [record EXCEPT ![num[s]] = s]
    /\ remain' = [remain EXCEPT ![s] = timeout]
    /\ login' = [login EXCEPT ![s] = "add"]
    /\ UNCHANGED <<members, file, nums, last, num, freed, timeout, timerVars, logout, patch,
                   undefined, shared>>

\* push_back may move the vector, which makes every iterator invalid.
AddMember(s) ==
    /\ ~undefined /\ login[s] = "add"
    /\ members' = Append(members, s)
    /\ \E moved \in BOOLEAN :
         IF moved
         THEN /\ iter' = [x \in Sessions |-> 0]
              /\ patch' = [p \in Patches |-> [patch[p] EXCEPT !.at = 0]]
         ELSE UNCHANGED <<iter, patch>>
    /\ login' = [login EXCEPT ![s] = "start"]
    /\ UNCHANGED <<record, file, nums, last, num, remain, freed, timeout, timer, logout, undefined,
                   shared>>

\* Session::start, which reads the token by which its task could be cancelled.
Start(s) ==
    /\ ~undefined /\ login[s] = "start"
    /\ s \notin freed
    /\ timer' = [timer EXCEPT ![s] = "wait"]
    /\ login' = [login EXCEPT ![s] = "save"]
    /\ UNCHANGED <<recordVars, nums, last, num, remain, freed, timeout, iter, logout, patch,
                   undefined, shared>>

\* resource_save_json writes what g_record holds under the uri, if anything;
\* then the client gets its answer.
SaveSession(s) ==
    /\ ~undefined /\ login[s] = "save"
    /\ s \notin freed
    /\ file' = IF record[num[s]] # Null THEN [file EXCEPT ![num[s]] = record[num[s]]] ELSE file
    /\ login' = [login EXCEPT ![s] = "done"]
    /\ UNCHANGED <<record, members, nums, last, num, remain, freed, timeout, timerVars, logout,
                   patch, undefined, shared>>

\* A continuation, of a session of its number or its own, has freed the session
\* that its login goes on with.
LoginUndefined(s) ==
    /\ ~undefined /\ login[s] \in {"start", "save"}
    /\ s \in freed
    /\ Undefined

-----------------------------------------------------------------------------
(* The timer and the continuation of Session::start                        *)

\* A faulty variant: a timer that meets zero is set again.
FireForEver(s) ==
    /\ ~undefined /\ timer[s] = "wait"
    /\ s \notin freed
    /\ remain[s] > 0
    /\ timer' = [timer EXCEPT ![s] = "count"]
    /\ UNCHANGED <<recordVars, nums, last, num, remain, freed, timeout, login, iter, logout,
                   patch, undefined, shared>>

\* The timer looks at the time left ...
Fire(s) ==
    /\ ~undefined /\ timer[s] = "wait"
    /\ s \notin freed
    /\ timer' = [timer EXCEPT ![s] = IF remain[s] > 0 THEN "count" ELSE "search"]
    /\ UNCHANGED <<recordVars, nums, last, num, remain, freed, timeout, login, iter, logout,
                   patch, undefined, shared>>

\* A faulty variant: no unsigned arithmetic.
CountBelowZero(s) ==
    /\ ~undefined /\ timer[s] = "count"
    /\ s \notin freed
    /\ remain' = [remain EXCEPT ![s] = @ - 1]
    /\ timer' = [timer EXCEPT ![s] = "wait"]
    /\ UNCHANGED <<recordVars, nums, last, num, freed, timeout, login, iter, logout, patch,
                   undefined, shared>>

\* ... writes to the log, and then takes one from what is left by now.
Count(s) ==
    /\ ~undefined /\ timer[s] = "count"
    /\ s \notin freed
    /\ remain' = [remain EXCEPT ![s] = (@ - 1) % (RemainMax + 1)]
    /\ timer' = [timer EXCEPT ![s] = "wait"]
    /\ UNCHANGED <<recordVars, nums, last, num, freed, timeout, login, iter, logout, patch,
                   undefined, shared>>

\* A faulty variant: the ids are not compared.
SearchAny(s) ==
    /\ ~undefined /\ timer[s] = "search"
    /\ s \notin freed /\ ~MembersFreed
    /\ members # <<>>
    /\ iter' = [iter EXCEPT ![s] = 1]
    /\ nums' = nums \ {num[s]}
    /\ timer' = [timer EXCEPT ![s] = "delete"]
    /\ UNCHANGED <<recordVars, last, num, remain, freed, timeout, login, logout, patch,
                   undefined, shared>>

\* The continuation looks for the first member with its id, which is the session
\* itself or another one of its number, and gives the number back.  It does find
\* one: a session that is not freed is still a member.
Search(s) ==
    /\ ~undefined /\ timer[s] = "search"
    /\ s \notin freed /\ ~MembersFreed
    /\ \E j \in DOMAIN members :
         /\ num[members[j]] = num[s]
         /\ \A k \in 1 .. j - 1 : num[members[k]] # num[s]
         /\ iter' = [iter EXCEPT ![s] = j]
    /\ nums' = nums \ {num[s]}
    /\ timer' = [timer EXCEPT ![s] = "delete"]
    /\ UNCHANGED <<recordVars, last, num, remain, freed, timeout, login, logout, patch,
                   undefined, shared>>

\* delete(*iter): the destructor erases the uri from g_record, whatever
\* object it leads to.
Delete(s) ==
    /\ ~undefined /\ timer[s] = "delete"
    /\ iter[s] # 0
    /\ members[iter[s]] \notin freed
    /\ freed' = freed \cup {members[iter[s]]}
    /\ record' = [record EXCEPT ![num[members[iter[s]]]] = Null]
    /\ timer' = [timer EXCEPT ![s] = "erase"]
    /\ UNCHANGED <<members, file, nums, last, num, remain, timeout, login, iter, logout, patch,
                   undefined, shared>>

\* The iterators at and after the erased member become invalid.
Erase(s) ==
    /\ ~undefined /\ timer[s] = "erase"
    /\ iter[s] # 0
    /\ members' = RemoveAt(members, iter[s])
    /\ iter' = [x \in Sessions |-> IF iter[x] >= iter[s] THEN 0 ELSE iter[x]]
    /\ patch' = [p \in Patches |->
         IF patch[p].at >= iter[s] THEN [patch[p] EXCEPT !.at = 0] ELSE patch[p]]
    /\ timer' = [timer EXCEPT ![s] = "unlink"]
    /\ UNCHANGED <<record, file, nums, last, num, remain, freed, timeout, login, logout,
                   undefined, shared>>

\* A faulty variant: the file goes even if the uri has a session again.
UnlinkAlways(s) ==
    /\ ~undefined /\ timer[s] = "unlink"
    /\ file' = [file EXCEPT ![num[s]] = Null]
    /\ timer' = [timer EXCEPT ![s] = "done"]
    /\ UNCHANGED <<record, members, nums, last, num, remain, freed, timeout, login, iter, logout,
                   patch, undefined, shared>>

\* delete_resource removes the file if g_record has no object for the uri.
Unlink(s) ==
    /\ ~undefined /\ timer[s] = "unlink"
    /\ file' = IF record[num[s]] = Null THEN [file EXCEPT ![num[s]] = Null] ELSE file
    /\ timer' = [timer EXCEPT ![s] = "done"]
    /\ UNCHANGED <<record, members, nums, last, num, remain, freed, timeout, login, iter, logout,
                   patch, undefined, shared>>

\* The continuation of another session of its number has freed the session whose
\* time the timer counts.
TimerUndefined(s) ==
    /\ ~undefined /\ timer[s] \in {"wait", "count"}
    /\ s \in freed
    /\ Undefined

\* A continuation runs for a freed session, reads freed members in its search,
\* uses an iterator that is no longer valid, or deletes an object a second time.
ContinuationUndefined(s) ==
    /\ ~undefined
    /\ \/ timer[s] = "search" /\ (s \in freed \/ MembersFreed)
       \/ timer[s] = "delete" /\ (iter[s] # 0 => members[iter[s]] \in freed)
       \/ timer[s] = "erase" /\ iter[s] = 0
    /\ Undefined

-----------------------------------------------------------------------------
(* remove_session, for a client that holds the token of s                  *)

\* is_session_valid: the token is a member's, the uri is in g_record and there
\* is time left.
Valid(s) == s \in ToSet(members) /\ record[num[s]] # Null /\ remain[s] > 0

Check(c, s) ==
    /\ ~undefined /\ logout[c].pc = "idle"
    /\ login[s] = "done"
    /\ ~MembersFreed
    /\ logout' = [logout EXCEPT ![c] =
         [@ EXCEPT !.pc = IF Valid(s) THEN "lookup" ELSE "refused", !.of = s]]
    /\ UNCHANGED <<recordVars, nums, last, num, remain, freed, timeout, login, timerVars, patch,
                   undefined, shared>>

\* get_session_odata_id_by_token: "" when the token is no member's any more.
Lookup(c) ==
    LET s == logout[c].of IN
    /\ ~undefined /\ logout[c].pc = "lookup"
    /\ ~MembersFreed
    /\ logout' = [logout EXCEPT ![c] =
         [@ EXCEPT !.pc = "write", !.uri = IF s \in ToSet(members) THEN num[s] ELSE Null]]
    /\ UNCHANGED <<recordVars, nums, last, num, remain, freed, timeout, login, timerVars, patch,
                   undefined, shared>>

\* The object g_record holds under the uri has no time left from now on.
Write(c) ==
    LET uri == logout[c].uri IN
    /\ ~undefined /\ logout[c].pc = "write"
    /\ uri # Null
    /\ record[uri] # Null
    /\ remain' = [remain EXCEPT ![record[uri]] = 0]
    /\ logout' = [logout EXCEPT ![c].pc = "answered"]
    /\ UNCHANGED <<recordVars, nums, last, num, freed, timeout, login, timerVars, patch,
                   undefined, shared>>

\* A loop reads a freed member, or g_record has no object for the uri and makes
\* a null pointer, which is written through.
LogoutUndefined(c) ==
    /\ ~undefined
    /\ \/ /\ logout[c].pc \in {"idle", "lookup"}
          /\ \E s \in Sessions : login[s] = "done"
          /\ MembersFreed
       \/ /\ logout[c].pc = "write"
          /\ logout[c].uri # Null => record[logout[c].uri] = Null
    /\ Undefined

-----------------------------------------------------------------------------
(* patch_session_service                                                   *)

PatchTimeout(p, t) ==
    /\ ~undefined /\ patch[p].pc = "idle"
    /\ timeout' = t
    /\ patch' = [patch EXCEPT ![p] = [pc |-> "look", to |-> t, at |-> 1]]
    /\ UNCHANGED <<recordVars, nums, last, num, remain, freed, login, timerVars, logout,
                   undefined, shared>>

\* The loop ends, goes on to the next member, or is about to shorten this one.
PatchLook(p) ==
    LET at == patch[p].at IN
    /\ ~undefined /\ patch[p].pc = "look"
    /\ at # 0
    /\ at \in DOMAIN members => members[at] \notin freed
    /\ patch' = [patch EXCEPT ![p] =
         IF at > Len(members) THEN [@ EXCEPT !.pc = "done"]
         ELSE IF remain[members[at]] > @.to THEN [@ EXCEPT !.pc = "write"]
         ELSE [@ EXCEPT !.at = at + 1]]
    /\ UNCHANGED <<recordVars, nums, last, num, remain, freed, timeout, login, timerVars, logout,
                   undefined, shared>>

PatchWrite(p) ==
    LET at == patch[p].at IN
    /\ ~undefined /\ patch[p].pc = "write"
    /\ at # 0
    /\ members[at] \notin freed
    /\ remain' = [remain EXCEPT ![members[at]] = patch[p].to]
    /\ patch' = [patch EXCEPT ![p] = [@ EXCEPT !.pc = "look", !.at = at + 1]]
    /\ UNCHANGED <<recordVars, nums, last, num, freed, timeout, login, timerVars, logout,
                   undefined, shared>>

PatchUndefined(p) ==
    /\ ~undefined /\ patch[p].pc \in {"look", "write"}
    /\ patch[p].at # 0 => patch[p].at \in DOMAIN members /\ members[patch[p].at] \in freed
    /\ Undefined

-----------------------------------------------------------------------------
Login(s) ==
    \/ FindNumber(s) \/ TakeNumber(s)
    \/ New(s) \/ AddMember(s) \/ Start(s) \/ SaveSession(s)
    \/ LoginUndefined(s)

Task(s) ==
    \/ Fire(s) \/ Count(s)
    \/ Search(s) \/ Delete(s) \/ Erase(s) \/ Unlink(s)
    \/ TimerUndefined(s) \/ ContinuationUndefined(s)

Logout(c) == (\E s \in Sessions : Check(c, s)) \/ Lookup(c) \/ Write(c) \/ LogoutUndefined(c)

Patch(p) ==
    (\E t \in Timeouts : PatchTimeout(p, t)) \/ PatchLook(p) \/ PatchWrite(p) \/ PatchUndefined(p)

Next ==
    \/ \E s \in Sessions : Login(s) \/ Task(s)
    \/ \E c \in Logouts : Logout(c)
    \/ \E p \in Patches : Patch(p)

Spec == Init /\ [][Next]_vars

\* The timer of every session fires, and the thread pool runs its
\* continuation to the end.
Fairness == \A s \in Sessions : WF_vars(Task(s))

FairSpec == Spec /\ Fairness

-----------------------------------------------------------------------------
(* Properties.                                                             *)

Logins == {"none", "take", "new", "add", "start", "save", "done"}
Timers == {"none", "wait", "count", "search", "delete", "erase", "unlink", "done"}

\* Every variable holds a value of its kind.
TypeOK ==
    /\ record \in [SessionIds -> Sessions \cup {Null}]
    /\ members \in Seq(Sessions)
    /\ nums \subseteq SessionIds /\ last \in SessionIds
    /\ file \in [SessionIds -> Sessions \cup {Null}]
    /\ num \in [Sessions -> SessionIds \cup {Null}]
    /\ remain \in [Sessions -> 0 .. RemainMax]
    /\ freed \subseteq Sessions
    /\ timeout \in 0 .. RemainMax
    /\ login \in [Sessions -> Logins]
    /\ timer \in [Sessions -> Timers]
    /\ iter \in [Sessions -> Nat]
    /\ logout \in [Logouts -> [pc : {"idle", "lookup", "write", "refused", "answered"},
                               of : Sessions \cup {Null}, uri : SessionIds \cup {Null}]]
    /\ patch \in [Patches -> [pc : {"idle", "look", "write", "done"},
                              to : 0 .. RemainMax, at : Nat]]
    /\ undefined \in BOOLEAN
    /\ shared \subseteq Sessions

\* A session has its number from the moment its login takes it until its
\* continuation gives it back.
HasNumber(s) ==
    login[s] \notin {"none", "take"} /\ timer[s] \in {"none", "wait", "count", "search"}

\* However logins, expiries, logouts and PATCHes overlap, a session whose number no
\* other session had at the same time keeps what its login gave it, until its own
\* continuation takes it back: its number is in use, so that no later login is
\* given it, its uri leads to it, its file is there, and its memory is not freed
\* under its timer.
UnsharedSessionKept ==
    \A s \in Sessions \ shared :
        /\ HasNumber(s) => num[s] \in nums
        /\ timer[s] \in {"wait", "count", "search", "delete"} => record[num[s]] = s
        /\ login[s] = "done" /\ timer[s] # "done" => file[num[s]] = s
        /\ s \in freed => timer[s] \in {"erase", "unlink", "done"}

\* No login and no continuation is under way.
AtRest ==
    \A s \in Sessions : login[s] \in {"none", "done"}
                          /\ timer[s] \notin {"search", "delete", "erase", "unlink"}

\* Whenever no login and no removal is under way, the files are those of the
\* sessions in g_record: delete_resource and resource_save_json look whether the
\* uri is there, so that even a removal overtaken by a login of the same number,
\* and two sessions of one number that are removed in any order, leave no file
\* behind and take none away.  (Such a session may be left without entry and file.)
FilesMirrorAtRest == AtRest /\ ~undefined => file = record

\* A session that has started ends, even if a logout makes its time jump to
\* the greatest value (it then takes that long), and even if its continuation
\* meets that of another session, unless one of them uses what the other freed.
SessionEnds ==
    \A s \in Sessions : timer[s] = "wait" ~> timer[s] = "done" \/ undefined

\* The comment of remove_session says that it ends the session of the token:
\* once it has answered, the session has no time left.  It is false: a timer
\* that has seen the time before counts down from zero, and a PATCH that has
\* seen it before sets it to the new timeout.
LogoutEndsSession ==
    \A c \in Logouts :
        logout[c].pc = "answered" /\ logout[c].of \notin freed => remain[logout[c].of] = 0

\* get_session_odata_id_by_token may take it that the session exists, because
\* is_session_valid was asked before: what a logout is about to write to is in
\* g_record.  It is false: the session can expire in between, and the logout
\* then makes a null entry of g_record and writes through it.
LogoutFindsSession ==
    \A c \in Logouts :
        logout[c].pc = "write" =>
            /\ logout[c].uri # Null
            /\ record[logout[c].uri] # Null
=============================================================================
