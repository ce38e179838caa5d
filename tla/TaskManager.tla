------------------------------ MODULE TaskManager ------------------------------
(***************************************************************************)
(* What do_task_cmm_post, _patch and _delete (and their bmc twins) do with *)
(* every request: find the manager of its category, give it a task with a  *)
(* number of its own (work_before_request_process), list it, treat it, and *)
(* move it to the completed requests and close its task                    *)
(* (work_after_request_process).  Handlers run on a pool of threads and    *)
(* take no lock; a step is what runs between two uses of what they share.  *)
(* What treating a request does to other resources is not modelled here.   *)
(*                                                                         *)
(* A request is one call of a handler, and so is its Task object.  A       *)
(* Task_Manager is named by the request that made it.                      *)
(***************************************************************************)
EXTENDS NumberSet, FiniteSets, Sequences, SequencesExt

CONSTANTS
    Requests,       \* bound: the requests clients send
    Categories,     \* the categories their uris have
    MaxCrashes,     \* bound: how often the server crashes
    Null

TaskIds == Numbers \ {0}

\* The managers a request can make: one for its category, one for the completed.
Managers == Requests \X {"category", "completed"}

ASSUME RequestAssumption ==
    /\ Null \notin Requests \cup TaskIds \cup Managers
    /\ "completed" \notin Categories
ASSUME CrashAssumption == MaxCrashes \in Nat

VARIABLES
    pc,             \* where the handler of a request is
    category,       \* the category of its uri
    manager,        \* the managers category() and work_after return to it
    completed,
    task,           \* its task number, m_Request::task_number
    nums, last,     \* numset and numset_num of ALLOCATE_TASK_NUM
    taskMap,        \* task_map
    lists,          \* Task_Manager::list_request
    record,         \* g_record: the Task object of every task uri
    state,          \* Task::task_state
    file,           \* the task files: the object they were written from, its state
    crashes

mapVars == <<taskMap, lists>>
numVars == <<nums, last>>
vars == <<pc, category, manager, completed, task, numVars, mapVars, record, state, file, crashes>>

Init ==
    /\ pc = [r \in Requests |-> "sent"]
    /\ category = [r \in Requests |-> Null]
    /\ manager = [r \in Requests |-> Null]
    /\ completed = [r \in Requests |-> Null]
    /\ task = [r \in Requests |-> Null]
    /\ nums = {} /\ last = 1
    /\ taskMap = [c \in Categories \cup {"completed"} |-> Null]
    /\ lists = [m \in Managers |-> <<>>]
    /\ record = [i \in TaskIds |-> Null]
    /\ state = [r \in Requests |-> "New"]
    /\ file = [i \in TaskIds |-> Null]
    /\ crashes = 0

Goto(r, where) == pc' = [pc EXCEPT ![r] = where]

-----------------------------------------------------------------------------
\* category(): the manager of task_map, if there is one.  (A uri of no category
\* is answered at once and gets no task.)
Category(r, c) ==
    /\ pc[r] = "sent"
    /\ category' = [category EXCEPT ![r] = c]
    /\ manager' = [manager EXCEPT ![r] = taskMap[c]]
    /\ Goto(r, IF taskMap[c] = Null THEN "insert" ELSE "number")
    /\ UNCHANGED <<completed, task, numVars, mapVars, record, state, file, crashes>>

\* insert does not replace the manager another request has put there since: the
\* new one is then only known to its own request.
InsertManager(r) ==
    LET c == category[r] IN
    /\ pc[r] = "insert"
    /\ manager' = [manager EXCEPT ![r] = <<r, "category">>]
    /\ taskMap' = IF taskMap[c] = Null THEN [taskMap EXCEPT ![c] = <<r, "category">>] ELSE taskMap
    /\ Goto(r, "number")
    /\ UNCHANGED <<category, completed, task, numVars, lists, record, state, file, crashes>>

\* allocate_numset_num searches for a free number ...
FindNumber(r) ==
    /\ pc[r] = "number"
    /\ \E i \in TaskIds :
         /\ Allocates(i, nums, last)
         /\ task' = [task EXCEPT ![r] = i]
    /\ Goto(r, "take")
    /\ UNCHANGED <<category, manager, completed, numVars, mapVars, record, state, file, crashes>>

\* A faulty variant: the next search is to start one further, at UINT_MAX too.
TakeNumberPast(r) ==
    /\ pc[r] = "take"
    /\ nums' = nums \cup {task[r]}
    /\ last' = task[r] + 1
    /\ Goto(r, "new")
    /\ UNCHANGED <<category, manager, completed, task, mapVars, record, state, file, crashes>>

\* ... and puts the one it has found among those in use.
TakeNumber(r) ==
    /\ pc[r] = "take"
    /\ nums' = nums \cup {task[r]}
    /\ last' = task[r]
    /\ Goto(r, "new")
    /\ UNCHANGED <<category, manager, completed, task, mapVars, record, state, file, crashes>>

\* The constructor of Task enters the object in g_record.
NewTask(r) ==
    /\ pc[r] = "new"
    /\ record' = [record EXCEPT ![task[r]] = r]
    /\ Goto(r, "save")
    /\ UNCHANGED <<category, manager, completed, task, numVars, mapVars, state, file, crashes>>

\* What resource_save_json writes to the file of task i.
Saved(i) == [file EXCEPT ![i] = [task |-> record[i], state |-> state[record[i]]]]

SaveTask(r) ==
    /\ pc[r] = "save"
    /\ file' = Saved(task[r])
    /\ Goto(r, "list")
    /\ UNCHANGED <<category, manager, completed, task, numVars, mapVars, record, state, crashes>>

ListRequest(r) ==
    /\ pc[r] = "list"
    /\ lists' = [lists EXCEPT ![manager[r]] = Append(@, r)]
    /\ Goto(r, "treat")
    /\ UNCHANGED <<category, manager, completed, task, numVars, taskMap, record, state, file, crashes>>

\* treat_uri_cmm_* answers, with success or with an error.
Treat(r) ==
    /\ pc[r] = "treat"
    /\ Goto(r, "after")
    /\ UNCHANGED <<category, manager, completed, task, numVars, mapVars, record, state, file, crashes>>

\* It throws, for a body with a member of another type than it expects: the
\* listener answers, and work_after_request_process is never called.
Throw(r) ==
    /\ pc[r] = "treat"
    /\ Goto(r, "thrown")
    /\ UNCHANGED <<category, manager, completed, task, numVars, mapVars, record, state, file, crashes>>

FindCompleted(r) ==
    /\ pc[r] = "after"
    /\ completed' = [completed EXCEPT ![r] = taskMap["completed"]]
    /\ Goto(r, IF taskMap["completed"] = Null THEN "insertCompleted" ELSE "move")
    /\ UNCHANGED <<category, manager, task, numVars, mapVars, record, state, file, crashes>>

InsertCompleted(r) ==
    /\ pc[r] = "insertCompleted"
    /\ completed' = [completed EXCEPT ![r] = <<r, "completed">>]
    /\ taskMap' = IF taskMap["completed"] = Null
                  THEN [taskMap EXCEPT !["completed"] = <<r, "completed">>]
                  ELSE taskMap
    /\ Goto(r, "move")
    /\ UNCHANGED <<category, manager, task, numVars, lists, record, state, file, crashes>>

\* A faulty variant: every request of the number is taken off.
WithoutAnyNumber(list, i) == SelectSeq(list, LAMBDA q : task[q] # i)

\* The request that is taken off the list is the first one of the same number.
WithoutNumber(list, i) ==
    LET places == {j \in DOMAIN list : task[list[j]] = i}
    IN IF places = {} THEN list ELSE RemoveAt(list, Min(places))

Move(r) ==
    /\ pc[r] = "move"
    /\ lists' = [lists EXCEPT ![manager[r]] = WithoutNumber(@, task[r]),
                              ![completed[r]] = Append(@, r)]
    /\ Goto(r, "close")
    /\ UNCHANGED <<category, manager, completed, task, numVars, taskMap, record, state, file, crashes>>

\* A faulty variant: the closed task is not saved.
CloseUnsaved(r) ==
    LET t == record[task[r]] IN
    /\ pc[r] = "close"
    /\ state' = [state EXCEPT ![t] = "Completed"]
    /\ Goto(r, "answered")
    /\ UNCHANGED <<category, manager, completed, task, numVars, mapVars, record, file, crashes>>

\* The task that is closed is the one g_record has for the uri.
Close(r) ==
    LET t == record[task[r]] IN
    /\ pc[r] = "close"
    /\ state' = [state EXCEPT ![t] = "Completed"]
    /\ file' = [file EXCEPT ![task[r]] = [task |-> t, state |-> "Completed"]]
    /\ Goto(r, "answered")
    /\ UNCHANGED <<category, manager, completed, task, numVars, mapVars, record, crashes>>

\* A faulty variant: the numbers of the loaded tasks are not put back.
NumbersForgotten == {}

\* The numbers dependency_injection puts back: those of the task files.
NumbersRestored == {i \in TaskIds : file[i] # Null}

\* The server crashes and starts again: the handlers and task_map are gone, the
\* tasks come back from their files.  A request is lost unless it is answered.
CrashAndRestart ==
    /\ crashes < MaxCrashes
    /\ crashes' = crashes + 1
    /\ pc' = [r \in Requests |-> IF pc[r] \in {"sent", "answered"} THEN pc[r] ELSE "lost"]
    /\ taskMap' = [c \in DOMAIN taskMap |-> Null]
    /\ lists' = [m \in Managers |-> <<>>]
    /\ record' = [i \in TaskIds |-> IF file[i] = Null THEN Null ELSE file[i].task]
    /\ state' = [r \in Requests |->
         IF \E i \in TaskIds : file[i] = [task |-> r, state |-> "Completed"]
         THEN "Completed" ELSE "New"]
    /\ nums' = NumbersRestored
    /\ last' = 1
    /\ UNCHANGED <<category, manager, completed, task, file>>

-----------------------------------------------------------------------------
Before(r) ==
    \/ \E c \in Categories : Category(r, c)
    \/ InsertManager(r) \/ FindNumber(r) \/ TakeNumber(r) \/ NewTask(r) \/ SaveTask(r)
    \/ ListRequest(r)

After(r) == FindCompleted(r) \/ InsertCompleted(r) \/ Move(r) \/ Close(r)

Next ==
    \/ \E r \in Requests : Before(r) \/ Treat(r) \/ Throw(r) \/ After(r)
    \/ CrashAndRestart

Spec == Init /\ [][Next]_vars

-----------------------------------------------------------------------------
(* Properties.                                                             *)

Places == {"sent", "insert", "number", "take", "new", "save", "list", "treat", "after",
           "insertCompleted", "move", "close", "answered", "thrown", "lost"}

\* Every variable holds a value of its kind.
TypeOK ==
    /\ pc \in [Requests -> Places]
    /\ category \in [Requests -> Categories \cup {Null}]
    /\ manager \in [Requests -> Managers \cup {Null}]
    /\ completed \in [Requests -> Managers \cup {Null}]
    /\ task \in [Requests -> TaskIds \cup {Null}]
    /\ nums \subseteq TaskIds /\ last \in TaskIds
    /\ taskMap \in [Categories \cup {"completed"} -> Managers \cup {Null}]
    /\ lists \in [Managers -> Seq(Requests)]
    /\ record \in [TaskIds -> Requests \cup {Null}]
    /\ state \in [Requests -> {"New", "Completed"}]
    /\ file \in [TaskIds -> [task : Requests, state : {"New", "Completed"}] \cup {Null}]
    /\ crashes \in 0 .. MaxCrashes

\* The requests that a manager is still working on, and those it never gets
\* done with because treating them threw an exception.
Working(m) ==
    {r \in Requests :
        /\ manager[r] = m
        /\ pc[r] \in {"treat", "after", "insertCompleted", "move", "thrown"}}

\* Every request under way is on the list of a manager and every other is off
\* it, although they are taken off by a number that two requests may share, and
\* two managers of one category may be made.
ListsCountRequests ==
    \A m \in Requests \X {"category"} :
        Len(lists[m]) = Cardinality(Working(m))

\* The number of every task file is in use, before and after a restart, so that
\* no later request is ever given the number of a task there is.
NumbersCoverFiles == \A i \in TaskIds : file[i] # Null => i \in nums

\* The task of an answered request stays closed in its file, whatever crashes
\* and other requests follow, if no two requests had its number.
AnsweredTaskKept ==
    \A r \in Requests :
        /\ pc[r] = "answered"
        /\ \A q \in Requests \ {r} : task[q] # task[r]
        => file[task[r]] = [task |-> r, state |-> "Completed"]

\* A request has a task number of its own: the comment at the allocation calls
\* for a lock.  It is false, as there is none: two handlers find the same free
\* number before either has put it among those in use.
TaskNumbersDistinct ==
    \A r, q \in Requests :
        /\ pc[r] \in {"save", "list", "treat"} /\ pc[q] \in {"save", "list", "treat"}
        /\ task[r] = task[q]
        => r = q
=============================================================================
