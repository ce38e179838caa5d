# A verification development of the chassis manager

The repository is the Redfish server of a chassis manager (CMM): a C++ program that keeps
the accounts, sessions, tasks and hardware resources of a server chassis, answers HTTPS
requests about them, finds the computing modules plugged into the chassis and passes
requests on to them. This directory models the parts of it in which state is shared or
outlives a request, checks them with TLC and proves properties of them with TLAPS.

The repository has no tests and hardly any documents; what is said here of intent is quoted
from comments, most of them Korean.

## 1. The system

One process. `main` (src/src/main.cpp) reads the HA settings, calls `init_resource`, opens
two listeners and starts three threads that never end. Requests are handled by the thread
pool of cpprest, several at a time. **Nothing takes a lock**: there is not a single mutex in
the program.

| Component | State | Operations | Talks to |
|---|---|---|---|
| Record (record.cpp, resource.*) | `g_record`: uri to object; one json file per object | `record_load_json`, `dependency_injection`, `record_save_json`, `resource_save_json`, `delete_resource` | everything |
| Number sets (util.cpp) | `numset`, `numset_num` for each kind of object | allocate, insert, delete | accounts, sessions, tasks, media, subscriptions |
| Account service (task.cpp, resource.*) | roles, accounts, policy, `service_enabled` | make/modify/remove account and role, patch service | sessions, record |
| Sessions (task.cpp, resource.cpp, util.cpp) | members, `_remain_expires_time`, `session_timeout` | login, logout, patch, timer, removal | accounts, record, one pool task each |
| Task manager (task.cpp) | `task_map`, lists of requests, Task objects | `category`, `work_before_request_process`, `work_after_request_process` | every POST, PATCH and DELETE |
| Module table (handler.cpp, chassis_controller.cpp, record.cpp) | `module_id_table`, its file, members of Systems, Chassis and Managers | discovery, health check, routing | the modules' own servers |
| SSDP (lssdp.cpp) | neighbour list, sockets | search, notify, parse, time out | module table |
| HTTP handlers (handler.cpp) | none of their own | routing of uris | task functions |
| Resource classes (resource.hpp, resource.cpp) | the members of each resource | constructors, `get_json`, `load_json`, `save_json` | record |
| Start-up (main.cpp, init.cpp) | the CMM's own resources | `init_resource`, `init_*`, the constructor of `ServiceRoot` | record |
| Module resources (chassis_controller.cpp) | copies of the modules' resources | `add_*`, `bring_*` | module table, record |
| Patch handlers, actions (task.cpp) | the resources they change | `patch_*`, `act_*` | hardware, modules |
| Events and subscriptions (eventservice.cpp) | destinations | subscribe, unsubscribe, send | remote listeners |
| Logs and readings (logservice.cpp) | log entries, a database | `generate_log`, `insert_reading_table` | sensors |
| Fans (fan.cpp), hardware access (smbus.cpp, hwcontrol.cpp) | pwm, a flag named `mutex` | control loop | i2c |
| Certificates, network, time (certificate.cpp, ethernetinterface.cpp, ntp.cpp) | files of the system | edit, generate, apply | openssl, shell |
| High availability (main.cpp, handler.cpp) | `ha_value` | heartbeat, settings | the other CMM |

What is hard here, and what makes each part correct:

* **Numbers name objects.** A number is the last part of a uri and so the name of the
  object, of its entry in `g_record` and of its file. It must be in use exactly as long as
  the object is there, through removals that overlap logins and through restarts.
* **Two references to one thing.** An account refers to its role, and a session to its
  account, by a pointer and by a uri. Removing a role or an account must leave neither
  behind; the pointer dangles until the next start and the uri from it on.
* **Files against memory.** Every object is saved as it changes; what was answered with
  success must survive a crash, and only that.
* **Timers.** A session is removed by a continuation on another thread; a logout only sets
  its time to zero. It must end, and stay ended.
* **Requests interleave** in the number sets, the map of task managers and the lists.
* **Modules come and go** while two threads and all requests use one table.

* **Many members, three places.** Each of some forty classes has its members set by a
  constructor and by one of three makers, shown by `get_json`, and read back by `load_json`;
  nothing ties the three lists together.
* **A PATCH of several members** checks and assigns one after the other; what it does when a
  later one will not do is decided by each handler for itself.
* **The tree is not saved**: a restart finds where a resource hangs from its uri and its type,
  and makes what it finds missing, in a loop over the very map it adds to.

The complete list, line by line, is `hazards` in PROJECT.json.

## 2. The modules

| Module | What it is | Built on |
|---|---|---|
| `NumberSet` | what `allocate_numset_num` returns | |
| `CommonLemmas` | lemmas about allocated numbers, the first place of a search and an erased element, proved | `NumberSet`, TLAPS |
| `AccountService` | accounts, roles, sessions, timers, files, crash and restart; a request is one step | `NumberSet` |
| `UserDirectory` | what the account service promises: users and roles that outlive the server | |
| `AccountService_proofs` | type correctness and seven properties, proved | `AccountService`, TLAPS |
| `AccountServiceDirectory_proofs` | `AccountService` implements `UserDirectory`, proved | `AccountService_proofs` |
| `SessionTimer` | login, timer, removal, logout and PATCH interleaved | `NumberSet` |
| `SessionTimer_proofs` | type correctness and two properties, proved | `SessionTimer`, `CommonLemmas` |
| `TaskManager` | the handling of requests as tasks, interleaved, with a crash | `NumberSet` |
| `TaskManager_proofs` | type correctness and three properties, proved | `TaskManager`, `CommonLemmas` |
| `ModuleTable` | discovery, health check, table file and routing, interleaved | |
| `ModuleTable_proofs` | type correctness and what the check thread may rely on, proved | `ModuleTable`, TLAPS |
| `ResourceKinds` | the members of every class: shown, read back, left unset | |
| `ResourceMakers` | which members `init_*`, the request handlers and `bring_*` leave unset | `ResourceKinds` |
| `PatchHandlers` | what the PATCH handlers do to the members asked for | `ResourceMakers` |
| `Settings` | one resource through making, PATCH, crash and restart | `PatchHandlers` |
| `Settings_proofs` | type correctness and eight properties, for any members followed together, proved | `Settings`, TLAPS |
| `ResourceTree` | one path of the CMM's tree through cut-off starts and saves | |
| `ResourceTree_proofs` | type correctness and three properties, for every tree, proved | `ResourceTree`, TLAPS |
| `MC...` | the constants of the runs | the module named |

A definition named after a function of the program stands for that function; `map` in
PROJECT.json gives the lines of each. Faulty variants of a definition stand right before it
and say so; they are used to show that a property notices the fault.

### AccountService

Objects are records, and `Null` is a uri without an object. A collection changes in the same
handlers as its members and has the same ones, so it is no variable. Of an account the model
keeps the name and the role, of a session the owner and the time left; tokens are random and
name their session. The pointers `Account::role` and `Session::account` are the flags
`roleLive` and `ownerLive`: what the program reads through a dangling pointer is undefined,
and `AdminSeen` and `SelfSeen` give every answer it may get. `Role::is_predefined` is not
initialised by the constructor; `MakeRole` chooses it freely.

`disk` holds what the json files hold: uris, no pointers. `RecordLoadJson` makes the objects,
resolves the references and puts the numbers back; `RecordSaveJson`, at the end of
`init_resource`, dereferences every entry, so that a null entry ends the process again.
A handler runs alone here. Passwords and their policy are left to the client, who may always
send a password that is allowed.

### SessionTimer

The same sessions, with a step for every use of `g_record`, the members, the numbers, the
files and the time left. `FindNumber` and `TakeNumber` are the two halves of
`allocate_numset_num`: two logins can find one number free, and their sessions then share a
number, a uri, an entry and a file. The search of a continuation goes by the number, so that it
may free the other session while that one's timer or login goes on with it (`TimerUndefined`,
`LoginUndefined`), and a session may be left without entry and file. No step reads `shared`, a
history variable: it tells which sessions this happened to. The members are a sequence, since the code keeps iterators into a
vector; an iterator that a change has made invalid is 0, and `push_back` may move the vector
or not. Objects are heap objects and `freed` holds those deleted. The first use of a freed
object, of an invalid iterator or of a null pointer sets `undefined` and ends the behaviour:
nothing could be said of what follows. The time left is an unsigned int and wraps. What two
overlapping calls on one standard container do to its inside is not modelled.

### TaskManager

A request is one call of a handler. `FindNumber` and `TakeNumber` are the two halves of
`allocate_numset_num`; `Category` and `InsertManager`, and `FindCompleted` and
`InsertCompleted`, those of finding or making a manager. `Throw` is an exception out of the
handling (a member of the body of another type than `as_string` or `as_bool` expects), which
skips `work_after_request_process`. The error paths that answer before a task is made
change nothing and are left out.

### ModuleTable

Two threads and the request handlers on one `std::map`. A module is its address; `n` stands
for the name `CMn`. `Find`, `Compare` and `Insert` are the search in `show_ssdp_packet`;
`Looked` is `module_id_table[...]`, which makes an empty entry for a name that is not there.
`Add` is `add_system`, `add_chassis` or `add_manager`: the whole reading of a module's
resource tree is one exchange, which succeeds if the module is up. `Ask` to `CheckWrite` are
one round of `module_check_handler`. The constructor of the client throws for an empty
address outside of any `try`, so `CheckTerminates` ends the process. Resources carry no data,
and a packet without a location changes nothing and is left out. The entry `CMM1` is skipped
by the check and never made by the search, and is left out too.

### ResourceKinds, ResourceMakers, PatchHandlers, Settings

A member is its json key. `ResourceKinds` has, for each class, a function from the members
that `get_json` shows to the keys `load_json` reads them from (`NotRead` if it does not), and
the members that no constructor gives a value. `ResourceMakers` has what each maker leaves as
the constructor made it. Values are the hand they come from: `init`, `module`, `a` or `b` from
a client, `blank` and `junk` from a constructor, `other` for what no one asked for.

`PatchHandlers` is the handlers as functions of the members and the body. Most are a sequence
of steps, one for each member; `wrong` says what the handler does about a value that will not
do. `Through` says of such a sequence which steps the handler comes to (`Reached`: none after
one it returns at) and what they give the members, rather than going through them one by one:
no member is in two steps, and it can be reasoned about without induction. The other handlers
are written out. A member of the wrong json type counts as not asked for, as
`get_value_from_json_key` has it.

`Settings` composes the three. A behaviour follows one resource of one class, made by one
maker, and a few of its members, its focus: every member alone, and the sets that a handler
treats together (`MCGroups`). This loses nothing the properties speak of, since a handler, a
constructor and `load_json` treat the members of different foci independently. `Open` and
`Write` are the two moments of a save between which a crash leaves a torn file; `PatchAccepted`
and `PatchRefused` are one handler with its two answers; `Load`, `MakeAnew`, `MakeMissing` and
`Lose` are what a start does with whole, torn and missing files. The assumptions at the end of
`Settings` say what its tables have to do with one another. `CHECK_DEADLOCK FALSE`: a
resource that is lost stays lost.

### ResourceTree

The paths are generated from the tables of `init_*` and the root's constructor: of each child
the member it is put in, the one `dependency_injection` puts it in, and whether `init_*` looks
first whether there is one. Nodes below the root hold files, entries of `g_record` and links.
A resource is not only linked to what is above it. A certificate is put in the location of
certificates as well, and an account gets its role: their paths have a branch (`Beside`), of
which the last node is that location or that role, and `held` is the link to it. `named` is
whether the file of the account names a role, as it does not if the account was made where
there was none. `walked` marks the lists that `get_json` of what is above them goes through
without looking whether they are there.

`Load` is the loop over `g_record`: the resources before the root (`before`) have their class
when the root's constructor runs, and if it makes anything the map grows under the loop, which
then meets any of the entries again, or never. `Reached` is what comes of going to an entry
that is missing (a null pointer), has no class (a cast to a class it is not of, or
nothing if the code looks at the type first) or has its class.
`Outcome` has every entry that `dependency_injection` goes to, `Pushes` the one that
`init_account_service` puts its certificate in (`LoadFails`, `MakeRootFails`). Looking for a
role that is not there leaves a null entry, which `record_save_json` skips and
`synchronize_dir_list`, in `DeleteEnd`, does not. `Inject` ends with `clear_gc`: the destructor of
an object that was read twice takes the entry of the newer one. `SaveFails` is a save that goes
through a null list (`Doomed`) or reads what was deleted or has no class (`Stray`). `SaveCut`,
`WriteCut` and `Crash` end the program during the saves and between the steps.
`phase = "undefined"` ends a behaviour, and so does `"dead"` until the next start.

## 3. What the runs show

| Run | Question | Result |
|---|---|---|
| `accounts` | do requests, expiry, crash and restart, in any order, keep names unique, numbers and files in step with the objects, the predefined roles there, and ended sessions ended? | yes |
| `accounts_live` | do sessions end; is the service the directory it promises? | yes |
| `accounts_null` | is no entry of `g_record` null when the files are written? | no |
| `sessions` | does a session whose number no other has keep number, uri, file and memory through interleaved logins and removals; are the files in step at rest, shared numbers or not; do sessions end? | yes |
| `sessions_logout` | has a session no time left once its logout is answered? | no |
| `sessions_lookup` | is the session a logout writes to there, after it was checked? | no |
| `tasks` | do lists, numbers and closed tasks survive interleaving and a crash? | yes |
| `tasks_numbers` | has each request a number of its own? | no |
| `modules` | does what the check thread holds while it waits stay in the table; does the table file catch up, do modules that are down leave and modules that are up stay? | yes |
| `modules_check` | can the check thread go on from every entry of the table? | no |
| `settings` | are accepted values applied and kept by a restart, in every class; do refusals change nothing, limits hold, copies tell what the module told? | yes, with the exceptions named in the definitions |
| `tree` | do resources come back to their places whatever the order; what makes a start die on a null pointer, and for good? | yes; four things, see below |

The disagreements in words:

* **Null entries** (`accounts_null`). `remove_role` means to move the accounts of the role to
  ReadOnly but compares a uri with an id, so it moves none; `remove_account` does not look at
  sessions. At the next start the reference resolves to a null entry, which
  `record_save_json` skips with a puzzled log message and `synchronize_dir_list` then
  dereferences. The files are unchanged by that, so every further start ends there.
* **Logout** (`sessions_logout`, `sessions_lookup`). The timer looks at the time and counts
  it down in two steps, and the logout writes zero in between: the counter wraps to the
  greatest value. And a session may expire between the check of its token and its use.
* **Task numbers** (`tasks_numbers`). The missing lock the comment at the allocation names. It
  is missing for the numbers of sessions, too; `UnsharedSessionKept` says what is left of a
  session's number there.
* **Module table** (`modules_check`). Reading the address of a module that is just being taken
  out leaves an empty entry, on which the next health check terminates the program.

What a start dies of, as `DeadHasHole` has it:

* the file of something is missing that a whole one is linked to: what is right above it, the
  log service above a log entry, the location of certificates for a certificate;
* a list of a Storage, a Thermal or a Power was not read, because a crash left half of its
  file, it has none, or the loop skipped it: the save of what is above goes through it. This is
  the one case in which a half-written file ends a start by itself;
* the location of certificates has no file and the first certificate is to be made;
* the role of an account has no file: a null entry, as in `accounts_null`.

The first two are for good (`DeadForGood`) if they are in the files and all that is right below
the root has a file: nothing is then made anew, and so no start comes to write the missing file.

Five passing properties of `settings` and one of `tree` name exceptions, and these are flaws
of the code, found when the property was first stated without them:

* `Forgotten`: the switches and ports of SSH and VirtualMedia and some members of systems,
  drives, storages and certificates are written and never read back; the allocated watts are
  read from the key of the available ones.
* `OnTerms`: the three version switches of SNMP are all written into the first; the others of
  these members are meant to be taken on terms.
* `Uninitialised`: readings and limits of the chassis' own fans, temperatures and supplies are
  shown as whatever the memory had, and a FanMode computes from them.
* `CopyLoses`: names of copied resources are not copied, and the UEFI paths of a module's
  software double when it is added again, although a comment says that only the content is
  updated (src/src/chassis_controller.cpp:1506).
* `WholeComesBack`: the two inventories of the update service are told apart by their names
  the wrong way round and come back swapped.
* `RefusedChangesNothing`: PATCH of the account service, the network protocol and the log
  services changes earlier members before it refuses a later one.

`FilesMirrorRecord` does not speak of the AccountService resource itself: a PATCH that gives
up on a later member has changed earlier ones without saving them. `ListsCountRequests`
counts the requests whose handling threw: they stay on the list for ever.

### Bounds

* `accounts`: 2 or 3 numbers, so that numbers run out, wrap and are given again; the
  names `root` and `admin`, a predefined and a client's role, two accounts at a time, three
  timeouts. That is enough for every pair of objects that refer to each other, for a number
  that is used again, and for a restart in each of those states.
* `sessions`: two sessions (a removal overtaken by a login needs two, and so does a shared
  number), two numbers, one logout, one PATCH, counters up to 2, so that they wrap: 482,623
  states.
* `tasks`: three requests of one category, enough numbers for all, one crash. Two requests
  race; the third meets what they leave. Categories do not share anything but the completed
  list, and so one is enough. Symmetry in the requests is sound: no property is temporal and
  nothing orders them.
* `modules`: one module, two names, two collections and one request at a time. The table then
  holds empty entries, a module under a later name and both threads at every step of each
  other. With one module a check has one entry at most to take out; `ChecksCorrect` is about any
  number. `modules_check` has two modules. `MaxModule` ends a search at
  the last name, and `MaxMembers` stops counting copies of a member.
* `settings`: every class, maker and focus; two good values and a bad one for each member, so
  that a change back and a refusal after a change both happen. Saves, crashes and restarts
  are unbounded.
* `tree`: every path, but of those that differ only in the names of members one; the longest
  has seven resources under the root, its branch included: 253,037 states. Files are lost in any combination by cuts of the first
  save and torn one at a time. Crashes and restarts are unbounded.

### Fairness

* `AccountService`: the timer of every session fires and its continuation runs
  (`WF` of `SessionTick` and `SessionExpire`), as each has a pool task of its own. Nothing is
  assumed of clients. `SessionsEnd` is under the condition that crashes stop, since a restart
  gives each session its full time.
* `SessionTimer`: `WF` of each session's task, for the same reason.
* `ModuleTable`: `WF` of each of the two threads, and `SF` of the announcements of a module
  that is up: the SSDP thread searches every three seconds and a module answers, but the
  thread may be busy when it does. Nothing is assumed of requests, of modules going up and
  down, or of anybody restarting the server.

`CHECK_DEADLOCK FALSE` is used where clients and requests are finite in number and the model
stops when all are served, and where undefined behaviour ends a behaviour. `AccountService`
and `ModuleTable` never stop and are checked for deadlock.

## 4. What is proved

Every property of the passing runs but liveness is proved, for every value of the constants
that meets the named assumptions:

* `NumberSet`: `UintMax` at least 2. `AccountService`: `root` and `admin` among the names,
  disjoint kinds of roles, natural timeouts, `Null` not a record.
* `SessionTimer`, `TaskManager`: natural bounds, `Null` apart from what it is no member of, and
  no category named like the list of completed tasks.
* `ModuleTable`: at least one name and one collection, and both orders go through all
  collections (`OrderAssumption`); the empty string is no module's address.
* `ResourceTree`: a path of any length and of any kinds of children, not empty and with one
  branch at most; the root looks for all that is right below it, and that is neither a log entry
  nor a list (`PathAssumption`). `RoleAssumption`: an account is the third on its path, and the
  collection of roles is on the branch beside it. `SlotAssumption`: only below the update service
  does `dependency_injection` look for another member than `init_*` has set.
* `Settings`: `GroupAssumption`: the members followed together are any the class shows. Its
  other four assumptions are about the tables, which have no parameters: what is read back is
  read under its own name (`ReadBackAssumption`), which class has the limits and the
  directories (`HoldersAssumption`), what a copy loses is among what is listed
  (`CopyAssumption`), and what nothing sets is listed (`UnsetAssumption`). They are closed
  formulas, which TLC evaluates in full in the run `settings`: there is no instance they are
  not checked on. They are not theorems because the tables are merged with `@@` and name
  members by joining strings, which the provers know nothing of. The proofs use them and
  never open a table.

| Module | Theorem | Property | Argument |
|---|---|---|---|
| `AccountService_proofs` | `TypeCorrect` | `TypeOK` | inductive as it stands; `AllocatesFree` and `AllocatesSession` bound what the allocation returns |
| | `NumbersCorrect` | `NumbersTrackRecord` | inductive with `TypeOK`, one step per action |
| | `FilesCorrect` | `FilesMirrorRecord` | inductive with `TypeOK`; `RecordLoadJson` needs that images of loaded files are the files |
| | `NamesCorrect` | `UserNamesUnique` | not inductive: while the server is down the accounts are gone, so the files must carry it. Strengthened with `FileNamesUnique`, which follows from `FilesMirrorRecord` while it runs |
| | `TimeoutCorrect` | `SessionWithinTimeout` | inductive with `TypeOK`; a PATCH shortens, a restart starts at the timeout of the file |
| | `PredefinedCorrect` | `PredefinedRolesStay` | needs `FilesMirrorRecord`: the role that is removed is judged in memory and deleted on disk |
| | `LogoutCorrect` | `LogoutIsFinal` | an action property, from `TypeOK` |
| `AccountServiceDirectory_proofs` | `DirectoryCorrect` | `DirectorySpec` | refinement: each request is one step of the directory on the files, and logins, timers, crash and restart are stutters; needs `NamesCorrect`, `NumbersCorrect` and `FilesCorrect` to see that memory, on which the code decides, agrees with the files the directory is read from |
| `SessionTimer_proofs` | `TypeCorrect` | `TypeOK` | with `Places`: where a session can be while its login and its timer are where they are, and that a valid iterator leads to a member of its number |
| | `UnsharedCorrect` | `UnsharedSessionKept` | with `Alone`: whoever else had the number of an unshared session is gone for good (`GoneStays`), so that no continuation's iterator leads to it but its own; and `Own`: what such a session has at every place of its login and timer |
| | `FilesCorrect` | `FilesMirrorAtRest` | holds with shared numbers too. It says nothing while a login or a removal is under way, and so cannot be inductive. `Owed` says who owes each file that is not as it should be; at rest nobody owes one, whichever session of the number pays |
| `TaskManager_proofs` | `TypeCorrect` | `TypeOK` | with `Stage`: what a handler has behind it at each place |
| | `NumbersCorrect` | `NumbersCoverFiles` | with `NumbersHeld`: a handler that goes on to write the file of its task has its number in use |
| | `AnsweredCorrect` | `AnsweredTaskKept` | with `Kept`: which request the object and the file of a task are of; a request that shares its number with none is the only one to write that file |
| | `ListsCorrect` | `ListsCountRequests` | counts cannot be followed through handlers that share numbers and take each other's entries off. `Matched` pairs the entries of a list with its requests under way, one to one, by number only; the count follows by counting a bijection |
| `ModuleTable_proofs` | `TypeCorrect` | `TypeOK` | with `Types`: an announcement has an address, and there is a first dead module while its members are removed |
| | `ChecksCorrect` | `CheckHoldsEntries` | with `Held`: the list is in the order of the table, so that no entry is listed twice and taking the first out leaves the others. `EntriesStay`: all others only put entries where there are none |
| `ResourceTree_proofs` | `TypeCorrect` | `TypeOK` | inductive as `Types` with `Saved`: what a start saves before it deletes and what it has deleted before it runs |
| | `DeadCorrect` | `DeadHasHole` | needs what a start has read and made, against the files it began with: `Read` (what is linked is whole, a missing entry is a missing file), `Rootless` (nothing was made if the root has no file), `Skips` (a whole file without a class was skipped, and then something was made), `Listed` (a list that was read is linked), and `Role` (when an account is made without a role, and when its null entry is there); together `Reasons` |
| | `DeadForGoodCorrect` | `DeadForGood` | a start that dies establishes `LinkStuck` or `ListStuck`: all below the root has a file and there is the hole. No step leaves them: `LoadAll` shows that a later start, in whatever order it meets the files, makes nothing and reads all that is whole, so that it meets the hole again, when it links or when it saves |
| | `WholeCorrect` | `WholeComesBack` | with `Once`: if no file is missing nothing is made, so the loop meets every entry once; and `Linkage`: what is whole up to the root is linked to what was read above it, and to nothing else |
| `Settings_proofs` | `TypeCorrect` | `TypeOK` | inductive; the handlers take members with their types to members with their types (`UnderWay`) |
| | `RestartCorrect` | `RestartKeeps` | with `Stored`: a whole file is what clients were last told or what the members are |
| | `DirectoryCorrect`, `LimitsCorrect`, `CopyCorrect`, `InitialisedCorrect` | `OneDirectory`, `PasswordLimitsOrdered`, `CopyTellsModule`, `NothingUninitialised` | together as `Lasting`: what is to hold of the members in memory holds of those in a whole file too, as the next start reads them |
| | `ServersCorrect` | `ServersOrClock` | no inductive invariant, but one lemma for each part of the handler of the network protocol, about the members it leaves alone |
| | `RefusedCorrect` | `RefusedChangesNothing` | a handler of the other classes either has taken nothing when it refuses or refuses nothing after it has taken one; one case for each class |
| | `AcceptedCorrect` | `AcceptedIsApplied` | with `Taking`: from the accepted body to the answer the members are what it asked for. That the handler makes them so is `Gives`, step by step through the handlers: what has been gone through is as asked for, and what follows leaves it so |

All inductive invariants were checked by TLC on the runs' instances before they were proved.

Only model-checked: liveness (`SessionsEnd`, `SessionEnds`, `FileCatchesUp`,
`DownModuleLeaves`, `UpModuleStays`), which is out of the provers' reach, as are `ENABLED` and
induction over recursive definitions; there are none of those here. The `violation` runs are
counterexamples and need no proof.

## 5. The plan

Done: `NumberSet`, `AccountService` with its abstract specification, `SessionTimer`,
`TaskManager`, `ModuleTable`, the resource classes, their makers and the PATCH handlers with
`Settings`, `ResourceTree`, and the proofs of all their safety properties. Next, in this order:

1. Proofs: abstract specifications that `TaskManager` and `SessionTimer` implement (a table of
   tasks that are open, then closed, then gone; a set of sessions that are made and end), by
   the pattern of `UserDirectory`.
2. `AccountRequests`: make, modify and remove account interleaved, against `UserDirectory`:
   which of its promises hold without the one-request-at-a-time assumption. The same for two
   PATCH requests on one resource, whose saves overlap.
3. `LogService`: the log that wraps, ClearLog, restart (which counts the entries again, also
   those written before the last wrap); the reading tables against an abstract log of the
   last entries, with the flag that is not always set.
4. `Neighbors`: the list of SSDP neighbours with its timeouts, and the parsing of packets;
   compose with `ModuleTable`, whose `Announce` it implements.
5. `VirtualMedia`, `Subscriptions`, `Certificates`: objects with numbers, by the pattern of
   `AccountService`, on `NumberSet`; the links of a module's copied resources in `ResourceTree`.
6. Pure algorithms: `insert_module_id`, `compare_first_position`, the validators of
   util.cpp, against definitions of what they should give, in one module.
7. `Fans` and `HighAvailability`: the loops with the shared flags.

## 6. Not modelled

`status` and `note` of each component in PROJECT.json say why. In short: code that edits
files of the operating system or drives registers keeps no state of its own; iniparser is
third-party; what the modules' own servers do is the environment. Of what is modelled: data
races inside a container (each call is one step), two requests that change one resource at a
time, half-written files in the modules before `Settings` and `ResourceTree` (each write is
one step there), in `ResourceTree` the links of sessions (src/src/record.cpp:1107 to 1112), since
`init_*` makes none (`AccountService` has them), a `CommunityStrings` that is not an array
(src/src/task.cpp:4368 throws outside of any `try`, and there is no answer), the bodies of
answers, and the handlers of GET, which change nothing but the counters
of the library.
