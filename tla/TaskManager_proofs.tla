--------------------------- MODULE TaskManager_proofs ---------------------------
(***************************************************************************)
(* What TaskManager promises for any number of requests, categories and    *)
(* crashes.  A handler has no lock, so that two requests may have one task *)
(* number and one category two managers; the proofs say what still holds   *)
(* then.  Stage says what a handler has behind it where it is; Kept says   *)
(* which request an object and a file of a task belong to; Matched pairs   *)
(* the entries of a list with the requests under way, as an entry need not *)
(* be that of the request but only of one with its number.                 *)
(***************************************************************************)
EXTENDS TaskManager, CommonLemmas, FiniteSetTheorems

CategoryManagers == Requests \X {"category"}
CompletedManagers == Requests \X {"completed"}

\* Where a handler has no number yet, where it treats a request it has listed,
\* and where its task is in g_record.
Unnumbered == {"sent", "insert", "number"}
Listed == {"treat", "after", "insertCompleted", "move", "thrown"}
Recorded == {"save", "list", "treat", "after", "insertCompleted", "move", "close"}

Stage ==
    /\ \A r \in Requests :
          /\ pc[r] = "insert" => category[r] \in Categories
          /\ pc[r] \notin {"sent", "insert", "lost"} => manager[r] \in CategoryManagers
          /\ pc[r] \in Unnumbered => task[r] = Null
          /\ pc[r] \notin Unnumbered \cup {"lost"} => task[r] \in TaskIds
          /\ pc[r] \in {"move", "close"} => completed[r] \in CompletedManagers
          /\ pc[r] \in Recorded => record[task[r]] \in Requests
    /\ \A c \in Categories : taskMap[c] \in CategoryManagers \cup {Null}
    /\ taskMap["completed"] \in CompletedManagers \cup {Null}

(* A manager is of one kind, and nothing that has a name is Null. *)
LEMMA ManagerKinds ==
    /\ CategoryManagers \subseteq Managers /\ CompletedManagers \subseteq Managers
    /\ CategoryManagers \cap CompletedManagers = {}
    /\ \A r \in Requests : <<r, "category">> \in CategoryManagers
                           /\ <<r, "completed">> \in CompletedManagers
    /\ Null \notin Managers /\ Null \notin Requests /\ Null \notin TaskIds
    /\ "completed" \notin Categories
BY RequestAssumption DEF CategoryManagers, CompletedManagers, Managers

LEMMA InitTypes == Init => TypeOK /\ Stage
<1> SUFFICES ASSUME Init PROVE TypeOK /\ Stage OBVIOUS
<1> USE DEF Init
<1>1. last \in TaskIds
  BY UintMaxAssumption DEF TaskIds, Numbers
<1>2. lists \in [Managers -> Seq(Requests)]
  OBVIOUS
<1>3. crashes \in 0 .. MaxCrashes
  BY CrashAssumption
<1>4. TypeOK
  BY <1>1, <1>2, <1>3 DEF TypeOK, Places
<1>5. Stage
  BY ManagerKinds DEF Stage, Unnumbered, Recorded
<1>6. QED BY <1>4, <1>5

\* rest is the list without its entry p.
Lacks(rest, list, p) ==
    /\ rest \in Seq(Requests)
    /\ Len(rest) = Len(list) - 1
    /\ \A j \in 1 .. Len(list) - 1 : rest[j] = IF j < p THEN list[j] ELSE list[j + 1]

(* A list loses the first request of a number, if it has one, and else nothing
   (work_after_request_process). *)
LEMMA TakenOff ==
    ASSUME NEW list \in Seq(Requests), NEW i
    PROVE  \/ \E p \in DOMAIN list : task[list[p]] = i /\ Lacks(WithoutNumber(list, i), list, p)
           \/ /\ \A p \in DOMAIN list : task[list[p]] # i
              /\ WithoutNumber(list, i) = list
<1> DEFINE places == {j \in DOMAIN list : task[list[j]] = i}
<1>1. CASE places = {}
  BY <1>1 DEF WithoutNumber
<1>2. CASE places # {}
  <2>1. Min(places) \in places
    <3>1. places \in SUBSET Nat
      OBVIOUS
    <3>2. QED BY <1>2, <3>1, MinIsLeast
  <2>2. WithoutNumber(list, i) = RemoveAt(list, Min(places))
    BY <1>2 DEF WithoutNumber
  <2>3. Min(places) \in 1 .. Len(list) /\ task[list[Min(places)]] = i
    BY <2>1
  <2> HIDE DEF places
  <2>4. Lacks(WithoutNumber(list, i), list, Min(places))
    BY <2>2, <2>3, RemoveAtShifts DEF Lacks
  <2>5. QED BY <2>3, <2>4
<1>3. QED BY <1>1, <1>2

LEMMA WithoutNumberTypes ==
    ASSUME NEW list \in Seq(Requests), NEW i
    PROVE  /\ WithoutNumber(list, i) \in Seq(Requests)
           /\ \A j \in DOMAIN WithoutNumber(list, i) :
                 \E k \in DOMAIN list : WithoutNumber(list, i)[j] = list[k]
<1>1. ASSUME NEW p \in DOMAIN list, Lacks(WithoutNumber(list, i), list, p)
      PROVE  /\ WithoutNumber(list, i) \in Seq(Requests)
             /\ \A j \in DOMAIN WithoutNumber(list, i) :
                   \E k \in DOMAIN list : WithoutNumber(list, i)[j] = list[k]
  <2> DEFINE rest == WithoutNumber(list, i)
  <2>1. /\ rest \in Seq(Requests) /\ DOMAIN rest = 1 .. Len(list) - 1
        /\ \A j \in 1 .. Len(list) - 1 : rest[j] = IF j < p THEN list[j] ELSE list[j + 1]
    BY <1>1 DEF Lacks
  <2>2. \A j \in 1 .. Len(list) - 1 : j \in DOMAIN list /\ j + 1 \in DOMAIN list
    OBVIOUS
  <2> HIDE DEF rest
  <2>3. \A j \in DOMAIN rest : \E k \in DOMAIN list : rest[j] = list[k]
    BY <2>1, <2>2
  <2>4. QED BY <2>1, <2>3 DEF rest
<1>2. QED BY <1>1, TakenOff

(* Taking a request off one list and putting it on the other. *)
LEMMA MoveLists ==
    ASSUME TypeOK, Stage, NEW r \in Requests, Move(r)
    PROVE  /\ manager[r] \in CategoryManagers /\ completed[r] \in CompletedManagers
           /\ lists' \in [Managers -> Seq(Requests)]
           /\ lists'[manager[r]] = WithoutNumber(lists[manager[r]], task[r])
           /\ lists'[completed[r]] = Append(lists[completed[r]], r)
           /\ \A m \in Managers \ {manager[r], completed[r]} : lists'[m] = lists[m]
<1>1. /\ manager[r] \in CategoryManagers /\ completed[r] \in CompletedManagers
      /\ manager[r] \in Managers /\ completed[r] \in Managers /\ manager[r] # completed[r]
  BY ManagerKinds DEF Move, Stage
<1>2. lists \in [Managers -> Seq(Requests)]
  BY DEF TypeOK
<1>3. /\ WithoutNumber(lists[manager[r]], task[r]) \in Seq(Requests)
      /\ Append(lists[completed[r]], r) \in Seq(Requests)
  BY <1>1, <1>2, WithoutNumberTypes
<1> DEFINE without == WithoutNumber(lists[manager[r]], task[r])
           more == Append(lists[completed[r]], r)
<1>4. lists' = [lists EXCEPT ![manager[r]] = without, ![completed[r]] = more]
  BY <1>1, <1>2 DEF Move
<1> HIDE DEF without, more
<1>5. /\ \A m \in Managers \ {manager[r], completed[r]} : lists'[m] = lists[m]
      /\ lists'[manager[r]] = without /\ lists'[completed[r]] = more
      /\ DOMAIN lists' = Managers
  BY <1>1, <1>2, <1>4
<1>6. lists' \in [Managers -> Seq(Requests)]
  BY <1>1, <1>2, <1>3, <1>4 DEF without, more
<1>7. QED BY <1>1, <1>5, <1>6 DEF without, more

LEMMA StepTypes == TypeOK /\ Stage /\ [Next]_vars => TypeOK'
<1> SUFFICES ASSUME TypeOK, Stage, [Next]_vars PROVE TypeOK' OBVIOUS
<1> USE DEF TypeOK, mapVars, numVars, Goto, Places
<1>1. ASSUME NEW r \in Requests, NEW c \in Categories, Category(r, c) PROVE TypeOK'
  BY <1>1 DEF Category
<1>2. ASSUME NEW r \in Requests, InsertManager(r) PROVE TypeOK'
  BY <1>2, ManagerKinds DEF InsertManager, Stage
<1>3. ASSUME NEW r \in Requests, FindNumber(r) PROVE TypeOK'
  BY <1>3 DEF FindNumber
<1>4. ASSUME NEW r \in Requests, TakeNumber(r) PROVE TypeOK'
  <2>1. task[r] \in TaskIds
    BY <1>4 DEF TakeNumber, Stage, Unnumbered
  <2>2. QED BY <1>4, <2>1 DEF TakeNumber
<1>5. ASSUME NEW r \in Requests, NewTask(r) PROVE TypeOK'
  BY <1>5 DEF NewTask
<1>6. ASSUME NEW r \in Requests, SaveTask(r) PROVE TypeOK'
  <2>1. task[r] \in TaskIds /\ record[task[r]] \in Requests
    BY <1>6 DEF SaveTask, Stage, Unnumbered, Recorded
  <2>2. [task |-> record[task[r]], state |-> state[record[task[r]]]]
          \in [task : Requests, state : {"New", "Completed"}]
    BY <2>1
  <2>3. QED BY <1>6, <2>1, <2>2 DEF SaveTask, Saved
<1>7. ASSUME NEW r \in Requests, ListRequest(r) PROVE TypeOK'
  <2>1. lists' = [lists EXCEPT ![manager[r]] = Append(lists[manager[r]], r)]
    BY <1>7 DEF ListRequest
  <2>2. manager[r] \in Managers
    BY <1>7, ManagerKinds DEF ListRequest, Stage
  <2>3. Append(lists[manager[r]], r) \in Seq(Requests)
    BY <2>2
  <2>4. lists' \in [Managers -> Seq(Requests)]
    BY <2>1, <2>3
  <2>5. QED BY <1>7, <2>4 DEF ListRequest
<1>8. ASSUME NEW r \in Requests, Treat(r) \/ Throw(r) PROVE TypeOK'
  BY <1>8 DEF Treat, Throw
<1>9. ASSUME NEW r \in Requests, FindCompleted(r) PROVE TypeOK'
  BY <1>9 DEF FindCompleted
<1>10. ASSUME NEW r \in Requests, InsertCompleted(r) PROVE TypeOK'
  BY <1>10, ManagerKinds DEF InsertCompleted
<1>11. ASSUME NEW r \in Requests, Move(r) PROVE TypeOK'
  <2>1. lists' \in [Managers -> Seq(Requests)]
    BY <1>11, MoveLists
  <2>2. QED BY <1>11, <2>1 DEF Move
<1>12. ASSUME NEW r \in Requests, Close(r) PROVE TypeOK'
  <2>1. task[r] \in TaskIds /\ record[task[r]] \in Requests
    BY <1>12 DEF Close, Stage, Unnumbered, Recorded
  <2>2. QED BY <1>12, <2>1 DEF Close
<1>13. CASE CrashAndRestart
  <2>1. lists' \in [Managers -> Seq(Requests)]
    BY <1>13 DEF CrashAndRestart
  <2>2. pc' \in [Requests -> Places]
    BY <1>13 DEF CrashAndRestart
  <2>3. record' \in [TaskIds -> Requests \cup {Null}]
    BY <1>13 DEF CrashAndRestart
  <2>4. crashes' \in 0 .. MaxCrashes
    BY <1>13, CrashAssumption DEF CrashAndRestart
  <2>5. last' \in TaskIds /\ nums' \subseteq TaskIds
    BY <1>13, UintMaxAssumption DEF CrashAndRestart, NumbersRestored, TaskIds, Numbers
  <2>6. /\ state' \in [Requests -> {"New", "Completed"}]
        /\ taskMap' \in [Categories \cup {"completed"} -> Managers \cup {Null}]
    BY <1>13 DEF CrashAndRestart
  <2> HIDE DEF Places
  <2>7. QED BY <1>13, <2>1, <2>2, <2>3, <2>4, <2>5, <2>6 DEF CrashAndRestart
<1>14. CASE UNCHANGED vars
  BY <1>14 DEF vars
<1>15. QED
  BY <1>1, <1>2, <1>3, <1>4, <1>5, <1>6, <1>7, <1>8, <1>9, <1>10, <1>11, <1>12, <1>13, <1>14
     DEF Next, Before, After

-----------------------------------------------------------------------------
LEMMA StepStage == TypeOK /\ Stage /\ [Next]_vars => Stage'
<1> SUFFICES ASSUME TypeOK, Stage, [Next]_vars PROVE Stage' OBVIOUS
<1>0. /\ pc \in [Requests -> Places]
      /\ category \in [Requests -> Categories \cup {Null}]
      /\ manager \in [Requests -> Managers \cup {Null}]
      /\ completed \in [Requests -> Managers \cup {Null}]
      /\ task \in [Requests -> TaskIds \cup {Null}]
      /\ taskMap \in [Categories \cup {"completed"} -> Managers \cup {Null}]
      /\ record \in [TaskIds -> Requests \cup {Null}]
  BY DEF TypeOK
<1> USE DEF Stage, mapVars, numVars, Goto, Unnumbered, Recorded
<1>1. ASSUME NEW r \in Requests, NEW c \in Categories, Category(r, c) PROVE Stage'
  BY <1>0, <1>1 DEF Category
<1>2. ASSUME NEW r \in Requests, InsertManager(r) PROVE Stage'
  BY <1>0, <1>2, ManagerKinds DEF InsertManager
<1>3. ASSUME NEW r \in Requests, FindNumber(r) PROVE Stage'
  BY <1>0, <1>3 DEF FindNumber
<1>4. ASSUME NEW r \in Requests, TakeNumber(r) PROVE Stage'
  BY <1>0, <1>4 DEF TakeNumber
<1>5. ASSUME NEW r \in Requests, NewTask(r) PROVE Stage'
  BY <1>0, <1>5 DEF NewTask
<1>6. ASSUME NEW r \in Requests, SaveTask(r) PROVE Stage'
  BY <1>0, <1>6 DEF SaveTask
<1>7. ASSUME NEW r \in Requests, ListRequest(r) PROVE Stage'
  BY <1>0, <1>7 DEF ListRequest
<1>8. ASSUME NEW r \in Requests, Treat(r) \/ Throw(r) PROVE Stage'
  BY <1>0, <1>8 DEF Treat, Throw
<1>9. ASSUME NEW r \in Requests, FindCompleted(r) PROVE Stage'
  BY <1>0, <1>9 DEF FindCompleted
<1>10. ASSUME NEW r \in Requests, InsertCompleted(r) PROVE Stage'
  BY <1>0, <1>10, ManagerKinds DEF InsertCompleted
<1>11. ASSUME NEW r \in Requests, Move(r) PROVE Stage'
  BY <1>0, <1>11 DEF Move
<1>12. ASSUME NEW r \in Requests, Close(r) PROVE Stage'
  BY <1>0, <1>12 DEF Close
<1>13. CASE CrashAndRestart
  <2>1. \A x \in Requests : pc'[x] \in {"sent", "answered", "lost"}
                            /\ (pc'[x] \in {"sent", "answered"} => pc'[x] = pc[x])
    BY <1>0, <1>13 DEF CrashAndRestart
  <2>2. \A x \in DOMAIN taskMap : taskMap'[x] = Null
    BY <1>13 DEF CrashAndRestart
  <2>3. category' = category /\ manager' = manager /\ completed' = completed /\ task' = task
    BY <1>13 DEF CrashAndRestart
  <2>4. QED BY <1>0, <2>1, <2>2, <2>3
<1>14. CASE UNCHANGED vars
  BY <1>14 DEF vars
<1>15. QED
  BY <1>1, <1>2, <1>3, <1>4, <1>5, <1>6, <1>7, <1>8, <1>9, <1>10, <1>11, <1>12, <1>13, <1>14
     DEF Next, Before, After

(* Every variable keeps its type, through every overlap of the handlers and every crash. *)
THEOREM TypeCorrect == Spec => []TypeOK
BY InitTypes, StepTypes, StepStage, PTL DEF Spec

-----------------------------------------------------------------------------
(* A handler that goes on to write the file of its task has its number among those in use. *)
NumbersHeld == \A r \in Requests : pc[r] \in Recorded \cup {"new"} => task[r] \in nums

LEMMA StepNumbers ==
    TypeOK /\ Stage /\ NumbersHeld /\ NumbersCoverFiles /\ [Next]_vars
        => NumbersHeld' /\ NumbersCoverFiles'
<1> SUFFICES ASSUME TypeOK, Stage, NumbersHeld, NumbersCoverFiles, [Next]_vars
             PROVE  NumbersHeld' /\ NumbersCoverFiles'
  OBVIOUS
<1>0. /\ pc \in [Requests -> Places] /\ task \in [Requests -> TaskIds \cup {Null}]
      /\ file \in [TaskIds -> [task : Requests, state : {"New", "Completed"}] \cup {Null}]
  BY DEF TypeOK
<1> USE DEF NumbersHeld, NumbersCoverFiles, mapVars, numVars, Goto, Recorded
<1>1. ASSUME NEW r \in Requests, NEW c \in Categories, Category(r, c)
      PROVE  NumbersHeld' /\ NumbersCoverFiles'
  BY <1>0, <1>1 DEF Category
<1>2. ASSUME NEW r \in Requests, InsertManager(r) \/ FindNumber(r)
      PROVE  NumbersHeld' /\ NumbersCoverFiles'
  BY <1>0, <1>2 DEF InsertManager, FindNumber
<1>3. ASSUME NEW r \in Requests, TakeNumber(r) PROVE NumbersHeld' /\ NumbersCoverFiles'
  BY <1>0, <1>3 DEF TakeNumber
<1>4. ASSUME NEW r \in Requests, NewTask(r) \/ ListRequest(r) \/ Treat(r) \/ Throw(r)
      PROVE  NumbersHeld' /\ NumbersCoverFiles'
  BY <1>0, <1>4 DEF NewTask, ListRequest, Treat, Throw
<1>5. ASSUME NEW r \in Requests, SaveTask(r) PROVE NumbersHeld' /\ NumbersCoverFiles'
  BY <1>0, <1>5 DEF SaveTask, Saved
<1>6. ASSUME NEW r \in Requests, FindCompleted(r) \/ InsertCompleted(r) \/ Move(r)
      PROVE  NumbersHeld' /\ NumbersCoverFiles'
  BY <1>0, <1>6 DEF FindCompleted, InsertCompleted, Move
<1>7. ASSUME NEW r \in Requests, Close(r) PROVE NumbersHeld' /\ NumbersCoverFiles'
  BY <1>0, <1>7 DEF Close
<1>8. CASE CrashAndRestart
  BY <1>0, <1>8 DEF CrashAndRestart, NumbersRestored
<1>9. CASE UNCHANGED vars
  BY <1>9 DEF vars
<1>10. QED
  BY <1>1, <1>2, <1>3, <1>4, <1>5, <1>6, <1>7, <1>8, <1>9 DEF Next, Before, After

(* The number of every task file is in use, also after a restart, so that no request is given the
   number of a task there is (work_before_request_process, dependency_injection). *)
THEOREM NumbersCorrect == Spec => []NumbersCoverFiles
<1>1. Init => NumbersHeld /\ NumbersCoverFiles
  BY DEF Init, NumbersHeld, NumbersCoverFiles, Recorded
<1>2. QED BY <1>1, InitTypes, StepTypes, StepStage, StepNumbers, PTL DEF Spec

-----------------------------------------------------------------------------
(* The task g_record has for a number, and the one its file was written from, is that of a
   request that has the number. *)
Kept ==
    \A i \in TaskIds :
        /\ record[i] # Null => task[record[i]] = i
        /\ file[i] # Null => task[file[i].task] = i

(* The steps after which the tasks are as they were, in g_record and in the files. *)
LEMMA KeptStays ==
    ASSUME Kept, AnsweredTaskKept, UNCHANGED <<record, file, task>>,
           \A r \in Requests : pc'[r] = "answered" => pc[r] = "answered"
    PROVE  Kept' /\ AnsweredTaskKept'
BY DEF Kept, AnsweredTaskKept

LEMMA StepKept ==
    TypeOK /\ Stage /\ Kept /\ AnsweredTaskKept /\ [Next]_vars => Kept' /\ AnsweredTaskKept'
<1> SUFFICES ASSUME TypeOK, Stage, Kept, AnsweredTaskKept, [Next]_vars
             PROVE  Kept' /\ AnsweredTaskKept'
  OBVIOUS
<1> DEFINE Files == [task : Requests, state : {"New", "Completed"}]
<1>0. /\ pc \in [Requests -> Places] /\ task \in [Requests -> TaskIds \cup {Null}]
      /\ record \in [TaskIds -> Requests \cup {Null}]
      /\ state \in [Requests -> {"New", "Completed"}]
      /\ file \in [TaskIds -> Files \cup {Null}]
      /\ Null \notin TaskIds /\ Null \notin Requests
  BY ManagerKinds DEF TypeOK
<1>1. ASSUME NEW r \in Requests, NEW c \in Categories, Category(r, c)
      PROVE  Kept' /\ AnsweredTaskKept'
  BY <1>0, <1>1, KeptStays DEF Category, Goto
<1>2. ASSUME NEW r \in Requests,
             \/ InsertManager(r) \/ TakeNumber(r) \/ ListRequest(r) \/ Treat(r) \/ Throw(r)
             \/ FindCompleted(r) \/ InsertCompleted(r) \/ Move(r)
      PROVE  Kept' /\ AnsweredTaskKept'
  <2>1. /\ UNCHANGED <<record, file, task>>
        /\ \E p \in Places \ {"answered"} : pc' = [pc EXCEPT ![r] = p]
    BY <1>2 DEF InsertManager, TakeNumber, ListRequest, Treat, Throw, FindCompleted,
                InsertCompleted, Move, Goto, Places
  <2>2. \A x \in Requests : pc'[x] = "answered" => pc[x] = "answered"
    BY <1>0, <2>1
  <2>3. QED BY <2>1, <2>2, KeptStays
<1>3. ASSUME NEW r \in Requests, FindNumber(r) PROVE Kept' /\ AnsweredTaskKept'
  <2>1. PICK i \in TaskIds : task' = [task EXCEPT ![r] = i]
    BY <1>3 DEF FindNumber
  <2>2. /\ pc[r] = "number" /\ pc' = [pc EXCEPT ![r] = "take"] /\ task[r] = Null
        /\ record' = record /\ file' = file
    BY <1>3 DEF FindNumber, Goto, Stage, Unnumbered
  <2>3. \A x \in Requests \ {r} : task'[x] = task[x] /\ pc'[x] = pc[x]
    BY <2>1, <2>2
  <2>4. \A j \in TaskIds : /\ record[j] # Null => record[j] \in Requests \ {r}
                           /\ file[j] # Null => file[j].task \in Requests \ {r}
    BY <1>0, <2>2 DEF Kept
  <2>5. Kept'
    BY <2>2, <2>3, <2>4 DEF Kept
  <2>6. ASSUME NEW x \in Requests, pc'[x] = "answered",
               \A q \in Requests \ {x} : task'[q] # task'[x]
        PROVE  file'[task'[x]] = [task |-> x, state |-> "Completed"]
    <3>1. x # r /\ pc[x] = "answered" /\ task'[x] = task[x]
      BY <1>0, <2>2, <2>3, <2>6
    <3>2. task[x] \in TaskIds
      BY <3>1 DEF Stage, Unnumbered
    <3>3. \A q \in Requests \ {x} : task[q] # task[x]
      BY <1>0, <2>2, <2>3, <2>6, <3>1, <3>2
    <3>4. QED BY <2>2, <3>1, <3>3 DEF AnsweredTaskKept
  <2>7. QED BY <2>5, <2>6 DEF AnsweredTaskKept
<1>4. ASSUME NEW r \in Requests, NewTask(r) PROVE Kept' /\ AnsweredTaskKept'
  <2>1. /\ record' = [record EXCEPT ![task[r]] = r] /\ pc' = [pc EXCEPT ![r] = "save"]
        /\ file' = file /\ task' = task
    BY <1>4 DEF NewTask, Goto
  <2>2. QED BY <1>0, <2>1 DEF Kept, AnsweredTaskKept
<1>5. ASSUME NEW r \in Requests, SaveTask(r) PROVE Kept' /\ AnsweredTaskKept'
  <2> DEFINE t == record[task[r]]
  <2>1. /\ pc[r] = "save" /\ pc' = [pc EXCEPT ![r] = "list"] /\ record' = record /\ task' = task
        /\ file' = [file EXCEPT ![task[r]] = [task |-> t, state |-> state[t]]]
        /\ task[r] \in TaskIds /\ t \in Requests
    BY <1>5 DEF SaveTask, Saved, Goto, Stage, Unnumbered, Recorded
  <2>2. task[t] = task[r]
    BY <1>0, <2>1 DEF Kept
  <2> HIDE DEF t
  <2>3. \A i \in TaskIds \ {task[r]} : file'[i] = file[i]
    BY <1>0, <2>1
  <2>4. file'[task[r]].task = t
    BY <1>0, <2>1
  <2>5. Kept'
    BY <1>0, <2>1, <2>2, <2>3, <2>4 DEF Kept
  <2>6. ASSUME NEW x \in Requests, pc'[x] = "answered",
               \A q \in Requests \ {x} : task'[q] # task'[x]
        PROVE  file'[task'[x]] = [task |-> x, state |-> "Completed"]
    <3>1. x # r /\ pc[x] = "answered" /\ task[r] # task[x]
      BY <1>0, <2>1, <2>6
    <3>2. task[x] \in TaskIds
      BY <3>1 DEF Stage, Unnumbered
    <3>3. QED BY <2>1, <2>3, <2>6, <3>1, <3>2 DEF AnsweredTaskKept
  <2>7. QED BY <2>5, <2>6 DEF AnsweredTaskKept
<1>6. ASSUME NEW r \in Requests, Close(r) PROVE Kept' /\ AnsweredTaskKept'
  <2> DEFINE t == record[task[r]]
  <2>1. /\ pc[r] = "close" /\ pc' = [pc EXCEPT ![r] = "answered"] /\ record' = record
        /\ task' = task /\ file' = [file EXCEPT ![task[r]] = [task |-> t, state |-> "Completed"]]
        /\ task[r] \in TaskIds /\ t \in Requests
    BY <1>6 DEF Close, Goto, Stage, Unnumbered, Recorded
  <2>2. task[t] = task[r]
    BY <1>0, <2>1 DEF Kept
  <2> HIDE DEF t
  <2>3. \A i \in TaskIds \ {task[r]} : file'[i] = file[i]
    BY <1>0, <2>1
  <2>4. file'[task[r]] = [task |-> t, state |-> "Completed"]
    BY <1>0, <2>1
  <2>5. Kept'
    BY <1>0, <2>1, <2>2, <2>3, <2>4 DEF Kept
  <2>6. ASSUME NEW x \in Requests, pc'[x] = "answered",
               \A q \in Requests \ {x} : task'[q] # task'[x]
        PROVE  file'[task'[x]] = [task |-> x, state |-> "Completed"]
    <3>1. CASE x = r
      BY <2>1, <2>2, <2>4, <2>6, <3>1
    <3>2. CASE x # r
      <4>1. pc[x] = "answered" /\ task[r] # task[x]
        BY <1>0, <2>1, <2>6, <3>2
      <4>2. task[x] \in TaskIds
        BY <4>1 DEF Stage, Unnumbered
      <4>3. QED BY <2>1, <2>3, <2>6, <4>1, <4>2 DEF AnsweredTaskKept
    <3>3. QED BY <3>1, <3>2
  <2>7. QED BY <2>5, <2>6 DEF AnsweredTaskKept
<1>7. CASE CrashAndRestart
  <2>1. /\ file' = file /\ task' = task
        /\ record' = [i \in TaskIds |-> IF file[i] = Null THEN Null ELSE file[i].task]
        /\ \A x \in Requests : pc'[x] = "answered" => pc[x] = "answered"
    BY <1>7 DEF CrashAndRestart
  <2>2. Kept'
    BY <2>1 DEF Kept
  <2>3. QED BY <2>1, <2>2 DEF AnsweredTaskKept
<1>8. CASE UNCHANGED vars
  BY <1>8, KeptStays DEF vars
<1>9. QED
  BY <1>1, <1>2, <1>3, <1>4, <1>5, <1>6, <1>7, <1>8 DEF Next, Before, After

(* The task of an answered request stays closed in its file whatever follows, if the request did
   not share its number (work_after_request_process, dependency_injection). *)
THEOREM AnsweredCorrect == Spec => []AnsweredTaskKept
<1>1. Init => Kept /\ AnsweredTaskKept
  BY DEF Init, Kept, AnsweredTaskKept
<1>2. QED BY <1>1, InitTypes, StepTypes, StepStage, StepKept, PTL DEF Spec

-----------------------------------------------------------------------------
(* f pairs each entry of a list with a request that has the number of the entry. *)
Pairs(f, list, requests) ==
    /\ f \in [1 .. Len(list) -> requests]
    /\ \A j, k \in 1 .. Len(list) : f[j] = f[k] => j = k
    /\ \A r \in requests : \E j \in 1 .. Len(list) : f[j] = r
    /\ \A j \in 1 .. Len(list) : task[list[j]] = task[f[j]]

Matched ==
    \A m \in CategoryManagers :
        \E f \in [1 .. Len(lists[m]) -> Working(m)] : Pairs(f, lists[m], Working(m))

(* There are as many entries as requests they can be paired with. *)
LEMMA MatchedCounts == TypeOK /\ Matched => ListsCountRequests
<1> SUFFICES ASSUME TypeOK, Matched, NEW m \in Requests \X {"category"}
             PROVE  Len(lists[m]) = Cardinality(Working(m))
  BY DEF ListsCountRequests
<1>1. PICK f \in [1 .. Len(lists[m]) -> Working(m)] : Pairs(f, lists[m], Working(m))
  BY DEF Matched, CategoryManagers
<1>2. Len(lists[m]) \in Nat
  BY ManagerKinds DEF TypeOK, CategoryManagers
<1>3. f \in Bijection(1 .. Len(lists[m]), Working(m))
  BY <1>1 DEF Pairs, Bijection, Injection, Surjection, IsInjective
<1>4. ExistsBijection(1 .. Len(lists[m]), Working(m))
  BY <1>3 DEF ExistsBijection
<1>5. QED BY <1>2, <1>4, FS_CountingElements

(* The steps that leave the lists of the categories and who is on them. *)
LEMMA MatchedStays ==
    ASSUME TypeOK, Stage, Matched,
           \A m \in CategoryManagers : lists'[m] = lists[m] /\ Working(m)' = Working(m),
           \A x \in Requests : task[x] \in TaskIds => task'[x] = task[x]
    PROVE  Matched'
<1> SUFFICES ASSUME NEW m \in CategoryManagers
             PROVE  \E f \in [1 .. Len(lists'[m]) -> Working(m)'] :
                       Pairs(f, lists[m], Working(m))'
  BY DEF Matched
<1>1. PICK f \in [1 .. Len(lists[m]) -> Working(m)] : Pairs(f, lists[m], Working(m))
  BY DEF Matched
<1>2. lists[m] \in Seq(Requests) /\ lists'[m] = lists[m] /\ Working(m)' = Working(m)
  BY ManagerKinds DEF TypeOK
<1>3. \A j \in 1 .. Len(lists[m]) : f[j] \in Requests /\ task[f[j]] \in TaskIds
  BY <1>1 DEF Working, Stage, Unnumbered
<1>4. \A j \in 1 .. Len(lists[m]) : lists[m][j] \in Requests
  BY <1>2
<1>5. \A j \in 1 .. Len(lists[m]) : task'[lists[m][j]] = task'[f[j]]
  BY <1>1, <1>3, <1>4 DEF Pairs
<1>6. Pairs(f, lists[m], Working(m))'
  BY <1>1, <1>2, <1>5 DEF Pairs
<1>7. QED BY <1>2, <1>6

(* A request at the end of the list of its manager is paired with itself. *)
LEMMA ListRequestMatches ==
    ASSUME TypeOK, Stage, Matched, NEW r \in Requests, ListRequest(r)
    PROVE  Matched'
<1> SUFFICES ASSUME NEW m \in CategoryManagers
             PROVE  \E f \in [1 .. Len(lists'[m]) -> Working(m)'] :
                       Pairs(f, lists[m], Working(m))'
  BY DEF Matched
<1>0. /\ lists \in [Managers -> Seq(Requests)] /\ pc \in [Requests -> Places]
      /\ m \in Managers /\ lists[m] \in Seq(Requests)
  BY ManagerKinds DEF TypeOK
<1>1. /\ pc[r] = "list" /\ pc' = [pc EXCEPT ![r] = "treat"] /\ task' = task
      /\ lists' = [lists EXCEPT ![manager[r]] = Append(lists[manager[r]], r)]
      /\ manager' = manager
  BY DEF ListRequest, Goto
<1>2. PICK f \in [1 .. Len(lists[m]) -> Working(m)] : Pairs(f, lists[m], Working(m))
  BY DEF Matched
<1>3. CASE manager[r] # m
  <2>1. lists'[m] = lists[m] /\ Working(m)' = Working(m)
    BY <1>0, <1>1, <1>3 DEF Working
  <2>2. Pairs(f, lists[m], Working(m))'
    BY <1>1, <1>2, <2>1 DEF Pairs
  <2>3. QED BY <2>1, <2>2
<1>4. CASE manager[r] = m
  <2> DEFINE n == Len(lists[m])
             g == [j \in 1 .. n + 1 |-> IF j = n + 1 THEN r ELSE f[j]]
  <2>1. Working(m)' = Working(m) \cup {r} /\ r \notin Working(m)
    BY <1>0, <1>1, <1>4 DEF Working
  <2>2. lists'[m] = Append(lists[m], r)
    BY <1>0, <1>1, <1>4
  <2>3. /\ n \in Nat /\ Len(lists'[m]) = n + 1 /\ lists'[m][n + 1] = r
        /\ \A j \in 1 .. n : lists'[m][j] = lists[m][j]
    BY <1>0, <2>2
  <2>4. /\ \A j \in 1 .. n : f[j] \in Working(m) /\ task[lists[m][j]] = task[f[j]]
        /\ \A j, k \in 1 .. n : f[j] = f[k] => j = k
        /\ \A x \in Working(m) : \E j \in 1 .. n : f[j] = x
    BY <1>2 DEF Pairs
  <2> HIDE DEF n
  <2>5. 1 .. n + 1 = (1 .. n) \cup {n + 1} /\ n + 1 \notin 1 .. n
    BY <2>3
  <2>6. PICK h : h = g
    OBVIOUS
  <2>7. h \in [1 .. n + 1 -> Working(m)']
    BY <2>1, <2>4, <2>5, <2>6
  <2>8. \A j, k \in 1 .. n + 1 : h[j] = h[k] => j = k
    BY <2>1, <2>4, <2>5, <2>6
  <2>9. \A x \in Working(m)' : \E j \in 1 .. n + 1 : h[j] = x
    BY <2>1, <2>4, <2>5, <2>6
  <2>10. \A j \in 1 .. n + 1 : task'[lists'[m][j]] = task'[h[j]]
    BY <1>1, <2>3, <2>4, <2>5, <2>6
  <2>11. Pairs(h, lists[m], Working(m))'
    BY <2>3, <2>7, <2>8, <2>9, <2>10 DEF Pairs
  <2>12. QED BY <2>3, <2>7, <2>11
<1>5. QED BY <1>3, <1>4

(* The request that goes is paired with some entry of its number; the one that was paired with the
   entry that goes has that number too, and takes the place of the first. *)
LEMMA MoveMatches ==
    ASSUME TypeOK, Stage, Matched, NEW r \in Requests, Move(r)
    PROVE  Matched'
<1> SUFFICES ASSUME NEW m \in CategoryManagers
             PROVE  \E f \in [1 .. Len(lists'[m]) -> Working(m)'] :
                       Pairs(f, lists[m], Working(m))'
  BY DEF Matched
<1>0. /\ lists \in [Managers -> Seq(Requests)] /\ pc \in [Requests -> Places]
      /\ m \in Managers /\ lists[m] \in Seq(Requests)
  BY ManagerKinds DEF TypeOK
<1>1. /\ pc[r] = "move" /\ pc' = [pc EXCEPT ![r] = "close"] /\ task' = task
      /\ manager' = manager
  BY DEF Move, Goto
<1>2. PICK f \in [1 .. Len(lists[m]) -> Working(m)] : Pairs(f, lists[m], Working(m))
  BY DEF Matched
<1>3. CASE manager[r] # m
  <2>1. m # completed[r]
    BY MoveLists, ManagerKinds
  <2>2. lists'[m] = lists[m] /\ Working(m)' = Working(m)
    BY <1>0, <1>1, <1>3, <2>1, MoveLists DEF Working
  <2>3. Pairs(f, lists[m], Working(m))'
    BY <1>1, <1>2, <2>2 DEF Pairs
  <2>4. QED BY <2>2, <2>3
<1>4. CASE manager[r] = m
  <2> DEFINE n == Len(lists[m])
  <2>1. Working(m)' = Working(m) \ {r} /\ r \in Working(m)
    BY <1>0, <1>1, <1>4 DEF Working
  <2>2. lists'[m] = WithoutNumber(lists[m], task[r])
    BY <1>4, MoveLists
  <2>3. /\ f \in [1 .. n -> Working(m)]
        /\ \A j \in 1 .. n : task[lists[m][j]] = task[f[j]]
        /\ \A j, k \in 1 .. n : f[j] = f[k] => j = k
        /\ \A x \in Working(m) : \E j \in 1 .. n : f[j] = x
    BY <1>2 DEF Pairs
  <2>4. PICK k \in 1 .. n : f[k] = r
    BY <2>1, <2>3
  <2>5. k \in DOMAIN lists[m] /\ task[lists[m][k]] = task[r]
    BY <1>0, <2>3, <2>4
  <2>6. PICK p \in DOMAIN lists[m] :
          task[lists[m][p]] = task[r] /\ Lacks(WithoutNumber(lists[m], task[r]), lists[m], p)
    BY <1>0, <2>5, TakenOff
  <2>7. /\ n \in Nat /\ p \in 1 .. n /\ Len(lists'[m]) = n - 1
        /\ \A j \in 1 .. n - 1 : lists'[m][j] = IF j < p THEN lists[m][j] ELSE lists[m][j + 1]
    <3>1. n \in Nat /\ p \in 1 .. n
      BY <1>0
    <3>2. Lacks(lists'[m], lists[m], p)
      BY <2>2, <2>6
    <3>3. QED BY <3>1, <3>2 DEF Lacks
  <2> DEFINE old(j) == IF j < p THEN j ELSE j + 1
             g == [j \in 1 .. n - 1 |-> IF old(j) = k THEN f[p] ELSE f[old(j)]]
  <2> HIDE DEF n
  <2>8. /\ \A j \in 1 .. n - 1 : old(j) \in 1 .. n /\ old(j) # p
        /\ \A i, j \in 1 .. n - 1 : old(i) = old(j) => i = j
        /\ \A q \in (1 .. n) \ {p} : \E j \in 1 .. n - 1 : old(j) = q
    <3>1. \A j \in 1 .. n - 1 : old(j) \in 1 .. n /\ old(j) # p
      BY <2>7
    <3>2. \A i, j \in 1 .. n - 1 : old(i) = old(j) => i = j
      BY <2>7
    <3>3. ASSUME NEW q \in (1 .. n) \ {p} PROVE \E j \in 1 .. n - 1 : old(j) = q
      <4>1. CASE q < p
        <5>1. q \in 1 .. n - 1 /\ old(q) = q
          BY <2>7, <4>1
        <5>2. QED BY <5>1
      <4>2. CASE q > p
        <5>1. q - 1 \in 1 .. n - 1 /\ old(q - 1) = q
          BY <2>7, <4>2
        <5>2. QED BY <5>1
      <4>3. QED BY <2>7, <4>1, <4>2
    <3>4. QED BY <3>1, <3>2, <3>3
  <2>9. \A j \in 1 .. n - 1 : lists'[m][j] = lists[m][old(j)]
    BY <2>7
  <2> HIDE DEF old
  <2>10. PICK h : h = g
    OBVIOUS
  <2>11. h \in [1 .. n - 1 -> Working(m)']
    <3>1. ASSUME NEW j \in 1 .. n - 1 PROVE h[j] \in Working(m) \ {r}
      BY <2>3, <2>4, <2>7, <2>8, <2>10
    <3>2. QED BY <2>1, <2>10, <3>1
  <2>12. \A i, j \in 1 .. n - 1 : h[i] = h[j] => i = j
    <3>1. ASSUME NEW i \in 1 .. n - 1, NEW j \in 1 .. n - 1, h[i] = h[j] PROVE i = j
      BY <2>3, <2>4, <2>7, <2>8, <2>10, <3>1
    <3>2. QED BY <3>1
  <2>13. \A x \in Working(m)' : \E j \in 1 .. n - 1 : h[j] = x
    <3>1. ASSUME NEW x \in Working(m)' PROVE \E j \in 1 .. n - 1 : h[j] = x
      <4>1. PICK q \in 1 .. n : f[q] = x
        BY <2>1, <2>3
      <4>2. q # k
        BY <2>1, <2>4, <4>1
      <4>3. CASE q = p
        <5>1. PICK j \in 1 .. n - 1 : old(j) = k
          BY <2>8, <4>2, <4>3
        <5>2. h[j] = x
          BY <2>10, <4>1, <4>3, <5>1
        <5>3. QED BY <5>2
      <4>4. CASE q # p
        <5>1. PICK j \in 1 .. n - 1 : old(j) = q
          BY <2>8, <4>4
        <5>2. h[j] = x
          BY <2>10, <4>1, <4>2, <5>1
        <5>3. QED BY <5>2
      <4>5. QED BY <4>3, <4>4
    <3>2. QED BY <3>1
  <2>14. \A j \in 1 .. n - 1 : task'[lists'[m][j]] = task'[h[j]]
    <3>1. ASSUME NEW j \in 1 .. n - 1 PROVE task[lists[m][old(j)]] = task[h[j]]
      <4>1. CASE old(j) = k
        BY <2>3, <2>5, <2>6, <2>7, <2>10, <4>1
      <4>2. CASE old(j) # k
        BY <2>3, <2>8, <2>10, <4>2
      <4>3. QED BY <4>1, <4>2
    <3>2. QED BY <1>1, <2>9, <3>1
  <2>15. Pairs(h, lists[m], Working(m))'
    BY <2>7, <2>11, <2>12, <2>13, <2>14 DEF Pairs
  <2>16. QED BY <2>7, <2>11, <2>15
<1>5. QED BY <1>3, <1>4

LEMMA StepMatched == TypeOK /\ Stage /\ Matched /\ [Next]_vars => Matched'
<1> SUFFICES ASSUME TypeOK, Stage, Matched, [Next]_vars PROVE Matched' OBVIOUS
<1>0. pc \in [Requests -> Places] /\ task \in [Requests -> TaskIds \cup {Null}]
      /\ manager \in [Requests -> Managers \cup {Null}] /\ Null \notin TaskIds
  BY ManagerKinds DEF TypeOK
<1> USE DEF mapVars, numVars, Goto
<1>1. ASSUME NEW r \in Requests, pc[r] \notin Listed, NEW p \in Places \ Listed,
             pc' = [pc EXCEPT ![r] = p],
             \A x \in Requests \ {r} : manager'[x] = manager[x],
             UNCHANGED lists,
             \A x \in Requests : task[x] \in TaskIds => task'[x] = task[x]
      PROVE  Matched'
  <2>1. \A m \in CategoryManagers : Working(m)' = Working(m)
    BY <1>0, <1>1 DEF Working, Listed
  <2>2. QED BY <1>1, <2>1, MatchedStays
<1>2. ASSUME NEW r \in Requests, pc[r] \in Listed, NEW p \in Listed,
             pc' = [pc EXCEPT ![r] = p], UNCHANGED <<manager, lists, task>>
      PROVE  Matched'
  <2>1. \A m \in CategoryManagers : Working(m)' = Working(m)
    BY <1>0, <1>2 DEF Working, Listed
  <2>2. QED BY <1>2, <2>1, MatchedStays
<1>3. ASSUME NEW r \in Requests, NEW c \in Categories, Category(r, c) PROVE Matched'
  BY <1>0, <1>1, <1>3 DEF Category, Listed, Places
<1>4. ASSUME NEW r \in Requests, InsertManager(r) PROVE Matched'
  BY <1>0, <1>1, <1>4 DEF InsertManager, Listed, Places
<1>5. ASSUME NEW r \in Requests, FindNumber(r) PROVE Matched'
  <2>1. PICK i \in TaskIds : task' = [task EXCEPT ![r] = i]
    BY <1>5 DEF FindNumber
  <2>2. /\ pc[r] = "number" /\ pc' = [pc EXCEPT ![r] = "take"] /\ task[r] = Null
        /\ manager' = manager /\ lists' = lists
    BY <1>5 DEF FindNumber, Stage, Unnumbered
  <2>3. \A x \in Requests : task[x] \in TaskIds => task'[x] = task[x]
    BY <1>0, <2>1, <2>2
  <2>4. QED BY <1>1, <2>2, <2>3 DEF Listed, Places
<1>6. ASSUME NEW r \in Requests, TakeNumber(r) \/ NewTask(r) \/ SaveTask(r) \/ Close(r)
      PROVE  Matched'
  BY <1>0, <1>1, <1>6 DEF TakeNumber, NewTask, SaveTask, Close, Listed, Places
<1>7. ASSUME NEW r \in Requests, Treat(r) \/ Throw(r) \/ FindCompleted(r) \/ InsertCompleted(r)
      PROVE  Matched'
  BY <1>0, <1>2, <1>7 DEF Treat, Throw, FindCompleted, InsertCompleted, Listed
<1>8. CASE CrashAndRestart
  <2>1. \A m \in CategoryManagers : lists'[m] = <<>>
    BY <1>8, ManagerKinds DEF CrashAndRestart
  <2>2. \A m \in CategoryManagers : Working(m)' = {}
    BY <1>8 DEF CrashAndRestart, Working
  <2>3. ASSUME NEW m \in CategoryManagers
        PROVE  \E f \in [1 .. Len(lists'[m]) -> Working(m)'] : Pairs(f, lists[m], Working(m))'
    <3>1. lists'[m] = <<>> /\ Working(m)' = {} /\ Len(lists'[m]) = 0
      BY <2>1, <2>2
    <3>2. <<>> \in [1 .. 0 -> {}]
      OBVIOUS
    <3>3. Pairs(<<>>, lists[m], Working(m))'
      BY <3>1, <3>2 DEF Pairs
    <3>4. QED BY <3>1, <3>2, <3>3
  <2>4. QED BY <2>3 DEF Matched
<1>9. CASE UNCHANGED vars
  BY <1>9, MatchedStays DEF vars, Working
<1>10. QED
  BY <1>3, <1>4, <1>5, <1>6, <1>7, <1>8, <1>9, ListRequestMatches, MoveMatches
     DEF Next, Before, After

(* Every request under way is on the list of a manager, and no other: what is taken off is the
   first request of the number, which need not be the one that is done
   (work_before_request_process, work_after_request_process). *)
THEOREM ListsCorrect == Spec => []ListsCountRequests
<1>1. Init => Matched
  <2> SUFFICES ASSUME Init, NEW m \in CategoryManagers
               PROVE  \E f \in [1 .. Len(lists[m]) -> Working(m)] : Pairs(f, lists[m], Working(m))
    BY DEF Matched
  <2>1. lists[m] = <<>> /\ Working(m) = {} /\ Len(lists[m]) = 0
    BY ManagerKinds DEF Init, Working
  <2>2. <<>> \in [1 .. 0 -> {}]
    OBVIOUS
  <2>3. Pairs(<<>>, lists[m], Working(m))
    BY <2>1, <2>2 DEF Pairs
  <2>4. QED BY <2>1, <2>2, <2>3
<1>2. QED BY <1>1, InitTypes, StepTypes, StepStage, StepMatched, MatchedCounts, PTL DEF Spec
==============================================================================
