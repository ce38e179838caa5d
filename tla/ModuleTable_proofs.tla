--------------------------- MODULE ModuleTable_proofs ---------------------------
(***************************************************************************)
(* What ModuleTable promises for any number of modules, collections and    *)
(* requests: every variable keeps its type, and the entries the check      *)
(* thread relies on stay in the table while others change it.  The steps   *)
(* that need more than the types are the one that enters the address of    *)
(* an announcement and the one that takes the first dead module off the    *)
(* list: the states of the two threads say that there is one.              *)
(***************************************************************************)
EXTENDS ModuleTable, SequenceTheorems, TLAPS

SsdpStates ==
    {s \in [pc : {"idle", "find", "compare", "insert", "snapshot", "write", "add"},
            addr : Addresses \cup {Null}, name : Names, snap : Entries, at : 1 .. Len(AddOrder)] :
        s.pc # "idle" => s.addr \in Addresses}

CheckStates ==
    {c \in [pc : {"sleep", "next", "erase", "member", "write"}, name : 0 .. MaxModule,
            dead : Seq(Names), snap : Entries, at : 1 .. Len(RemoveOrder)] :
        c.pc = "member" => c.dead # <<>>}

RequestStates == [pc : {"idle", "read"}, name : Names]

(* The types, with what the states of the threads say of each other's parts. *)
Types ==
    /\ running \in BOOLEAN /\ up \subseteq Addresses
    /\ table \in Entries /\ file \in Entries
    /\ exists \in [Collections -> SUBSET Names]
    /\ members \in [Collections -> [Names -> 0 .. MaxMembers]]
    /\ ssdp \in SsdpStates /\ check \in CheckStates
    /\ request \in [Requests -> RequestStates]

(* There is a first name, and a first collection for each thread. *)
LEMMA Firsts ==
    /\ 1 \in Names /\ Names \subseteq 0 .. MaxModule /\ Names \subseteq Nat
    /\ Len(AddOrder) \in Nat /\ 1 \in 1 .. Len(AddOrder)
    /\ Len(RemoveOrder) \in Nat /\ 1 \in 1 .. Len(RemoveOrder)
    /\ NoEntry \in Entries
    /\ SsdpIdle \in SsdpStates /\ CheckIdle \in CheckStates /\ RequestIdle \in RequestStates
<1>1. 1 \in Names /\ Names \subseteq 0 .. MaxModule /\ Names \subseteq Nat
  BY BoundAssumption DEF Names
<1>2. Len(AddOrder) \in Nat /\ Len(RemoveOrder) \in Nat
  BY OrderAssumption
<1>3. Len(AddOrder) # 0 /\ Len(RemoveOrder) # 0
  BY OrderAssumption DEF ToSet
<1>4. 1 \in 1 .. Len(AddOrder) /\ 1 \in 1 .. Len(RemoveOrder)
  BY <1>2, <1>3
<1>5. NoEntry \in Entries
  BY DEF NoEntry, Entries
<1>6. SsdpIdle \in SsdpStates
  BY <1>1, <1>4, <1>5 DEF SsdpIdle, SsdpStates
<1>7. CheckIdle \in CheckStates
  BY <1>1, <1>4, <1>5, BoundAssumption DEF CheckIdle, CheckStates
<1>8. RequestIdle \in RequestStates
  BY <1>1 DEF RequestIdle, RequestStates
<1>9. QED BY <1>1, <1>2, <1>4, <1>5, <1>6, <1>7, <1>8

(* Where a statement of the SSDP thread or of the check thread leaves it. *)
LEMMA SsdpMoves ==
    ASSUME NEW s \in SsdpStates, s.pc # "idle"
    PROVE  /\ s.addr \in Addresses /\ s.name \in Names /\ s.snap \in Entries
           /\ s.at \in 1 .. Len(AddOrder)
           /\ \A p \in {"insert", "compare", "snapshot"} : [s EXCEPT !.pc = p] \in SsdpStates
           /\ \A n \in Names : [s EXCEPT !.pc = "find", !.name = n] \in SsdpStates
           /\ \A t \in Entries : [s EXCEPT !.pc = "write", !.snap = t] \in SsdpStates
           /\ \A t \in Entries : [s EXCEPT !.pc = "add", !.snap = t] \in SsdpStates
           /\ \A i \in 1 .. Len(AddOrder) : [s EXCEPT !.at = i] \in SsdpStates
BY DEF SsdpStates

LEMMA CheckMoves ==
    ASSUME NEW c \in CheckStates
    PROVE  /\ c.dead \in Seq(Names) /\ c.snap \in Entries /\ c.at \in 1 .. Len(RemoveOrder)
           /\ c.pc = "member" => c.dead # <<>>
           /\ c.dead # <<>> => [c EXCEPT !.pc = "member"] \in CheckStates
           /\ [c EXCEPT !.pc = "next"] \in CheckStates
           /\ [c EXCEPT !.pc = "erase", !.name = 0] \in CheckStates
           /\ \A n \in Names, d \in Seq(Names) :
                 c.pc = "next" => [c EXCEPT !.name = n, !.dead = d] \in CheckStates
           /\ \A i \in 1 .. Len(RemoveOrder) : [c EXCEPT !.at = i] \in CheckStates
           /\ \A i \in 1 .. Len(RemoveOrder), d \in Seq(Names) :
                 [c EXCEPT !.pc = "erase", !.dead = d, !.at = i] \in CheckStates
           /\ \A t \in Entries : [c EXCEPT !.pc = "write", !.snap = t] \in CheckStates
<1>1. Names \subseteq 0 .. MaxModule /\ 0 \in 0 .. MaxModule
  BY Firsts, BoundAssumption
<1>2. QED BY <1>1 DEF CheckStates

(* What [] and one entry more, or less, make of the table. *)
LEMMA Tables ==
    ASSUME NEW n \in Names, table \in Entries
    PROVE  /\ Looked(n) \in Entries
           /\ \A x \in Addresses \cup {Blank, Null} : [table EXCEPT ![n] = x] \in Entries
BY DEF Looked, Entries

(* What one copy of a member more, or less, makes of the members. *)
LEMMA Copies ==
    ASSUME Types, NEW k \in Collections, NEW n \in Names
    PROVE  /\ [members EXCEPT ![k][n] = OneMore(members[k][n])]
                 \in [Collections -> [Names -> 0 .. MaxMembers]]
           /\ [members EXCEPT ![k][n] = OneLess(members[k][n])]
                 \in [Collections -> [Names -> 0 .. MaxMembers]]
<1>1. members \in [Collections -> [Names -> 0 .. MaxMembers]]
  BY DEF Types
<1>2. members[k][n] \in 0 .. MaxMembers
  BY <1>1
<1>3. /\ OneMore(members[k][n]) \in 0 .. MaxMembers
      /\ OneLess(members[k][n]) \in 0 .. MaxMembers
  BY <1>2, BoundAssumption DEF OneMore, OneLess
<1>4. QED BY <1>1, <1>3

LEMMA InitTypes == Init => Types
<1> SUFFICES ASSUME Init PROVE Types OBVIOUS
<1> USE DEF Init
<1>1. members \in [Collections -> [Names -> 0 .. MaxMembers]]
  BY BoundAssumption
<1>2. QED BY <1>1, Firsts DEF Types

LEMMA SsdpTypes ==
    ASSUME Types, Ssdp
    PROVE  Types'
<1>0. /\ table \in Entries /\ ssdp \in SsdpStates
      /\ \A p : SsdpAt(p) => ssdp.pc = p
  BY DEF Types, SsdpAt
<1> USE DEF tableVars, collectionVars
<1>1. CASE Find
  <2>1. ssdp' \in SsdpStates
    BY <1>0, <1>1, SsdpMoves DEF Find
  <2>2. QED BY <1>1, <2>1 DEF Find, Types
<1>2. CASE Compare
  <2>1. ssdp.pc # "idle" /\ ssdp.name \in Names
    BY <1>0, <1>2, SsdpMoves DEF Compare
  <2>2. table' \in Entries
    BY <1>0, <1>2, <2>1, Tables DEF Compare
  <2>3. ssdp' \in SsdpStates
    <3>1. CASE table[ssdp.name] = ssdp.addr \/ ssdp.name = MaxModule
      BY <1>2, <3>1, Firsts DEF Compare
    <3>2. CASE ~ (table[ssdp.name] = ssdp.addr \/ ssdp.name = MaxModule)
      <4>1. ssdp.name + 1 \in Names
        BY <2>1, <3>2, BoundAssumption DEF Names
      <4>2. QED BY <1>0, <1>2, <2>1, <3>2, <4>1, SsdpMoves DEF Compare
    <3>3. QED BY <3>1, <3>2
  <2>4. QED BY <1>2, <2>2, <2>3 DEF Compare, Types
<1>3. CASE Insert
  <2>1. ssdp.pc # "idle" /\ ssdp.name \in Names /\ ssdp.addr \in Addresses
    BY <1>0, <1>3, SsdpMoves DEF Insert
  <2>2. table' \in Entries
    BY <1>0, <1>3, <2>1, Tables DEF Insert
  <2>3. ssdp' \in SsdpStates
    BY <1>0, <1>3, <2>1, SsdpMoves DEF Insert
  <2>4. QED BY <1>3, <2>2, <2>3 DEF Insert, Types
<1>4. CASE SsdpSnapshot
  <2>1. ssdp' \in SsdpStates
    BY <1>0, <1>4, SsdpMoves DEF SsdpSnapshot
  <2>2. QED BY <1>4, <2>1 DEF SsdpSnapshot, Types
<1>5. CASE SsdpWrite
  <2>1. ssdp' \in SsdpStates /\ file' \in Entries
    BY <1>0, <1>5, SsdpMoves, Firsts DEF SsdpWrite
  <2>2. QED BY <1>5, <2>1 DEF SsdpWrite, Types
<1>6. CASE Add
  <2> DEFINE n == ssdp.name
             k == AddOrder[ssdp.at]
  <2>1. ssdp.pc # "idle" /\ n \in Names /\ ssdp.at \in 1 .. Len(AddOrder)
    BY <1>0, <1>6, SsdpMoves DEF Add
  <2>2. k \in Collections
    BY <2>1, OrderAssumption
  <2>3. /\ exists' \in {exists, [exists EXCEPT ![k] = exists[k] \cup {n}]}
        /\ members' \in {members, [members EXCEPT ![k][n] = OneMore(members[k][n])]}
    BY <1>6 DEF Add
  <2> HIDE DEF n, k
  <2>4. members' \in [Collections -> [Names -> 0 .. MaxMembers]]
    <3>1. members \in [Collections -> [Names -> 0 .. MaxMembers]]
      BY DEF Types
    <3>2. [members EXCEPT ![k][n] = OneMore(members[k][n])]
             \in [Collections -> [Names -> 0 .. MaxMembers]]
      BY <2>1, <2>2, Copies
    <3>3. QED BY <2>3, <3>1, <3>2
  <2>5. exists' \in [Collections -> SUBSET Names]
    <3>1. exists \in [Collections -> SUBSET Names]
      BY DEF Types
    <3>2. [exists EXCEPT ![k] = exists[k] \cup {n}] \in [Collections -> SUBSET Names]
      BY <2>1, <2>2, <3>1
    <3>3. QED BY <2>3, <3>1, <3>2
  <2>6. ssdp' \in SsdpStates
    <3>1. CASE ssdp.at < Len(AddOrder)
      <4>1. ssdp.at + 1 \in 1 .. Len(AddOrder)
        BY <2>1, <3>1, Firsts
      <4>2. QED BY <1>0, <1>6, <2>1, <3>1, <4>1, SsdpMoves DEF Add
    <3>2. CASE ~ (ssdp.at < Len(AddOrder))
      BY <1>6, <3>2, Firsts DEF Add
    <3>3. QED BY <3>1, <3>2
  <2>7. QED BY <1>6, <2>4, <2>5, <2>6 DEF Add, Types
<1>7. QED BY <1>1, <1>2, <1>3, <1>4, <1>5, <1>6 DEF Ssdp

LEMMA StopTypes ==
    ASSUME Types, Stop
    PROVE  Types'
<1>1. members' \in [Collections -> [Names -> 0 .. MaxMembers]]
  BY BoundAssumption DEF Stop
<1>2. QED BY <1>1, Firsts DEF Stop, Types

LEMMA CheckTypes ==
    ASSUME Types, Check
    PROVE  Types'
<1>0. /\ table \in Entries /\ check \in CheckStates
      /\ \A p : CheckAt(p) => check.pc = p
  BY DEF Types, CheckAt
<1> USE DEF tableVars, collectionVars
<1>1. CASE Wake
  <2>1. check' \in CheckStates
    BY <1>1, Firsts, CheckMoves DEF Wake
  <2>2. QED BY <1>1, <2>1 DEF Wake, Types
<1>2. ASSUME NEW n \in Names, Ask(n) PROVE Types'
  <2>1. check.dead \in Seq(Names)
    BY <1>0, CheckMoves
  <2>2. Append(check.dead, n) \in Seq(Names)
    BY <2>1
  <2>3. check' \in CheckStates
    BY <1>0, <1>2, <2>1, <2>2, CheckMoves DEF Ask
  <2>4. QED BY <1>2, <2>3 DEF Ask, Types
<1>3. CASE CheckEnd
  <2>1. check' \in CheckStates
    BY <1>0, <1>3, CheckMoves DEF CheckEnd
  <2>2. QED BY <1>3, <2>1 DEF CheckEnd, Types
<1>4. CASE Erase
  <2>1. check.dead \in Seq(Names) /\ check.dead # <<>>
    BY <1>0, <1>4, CheckMoves DEF Erase
  <2>2. Head(check.dead) \in Names
    BY <2>1
  <2>3. table' \in Entries
    BY <1>0, <1>4, <2>2, Tables DEF Erase
  <2>4. check' \in CheckStates
    BY <1>0, <1>4, <2>1, CheckMoves DEF Erase
  <2>5. QED BY <1>4, <2>3, <2>4 DEF Erase, Types
<1>5. CASE RemoveMember
  <2> DEFINE n == Head(check.dead)
             k == RemoveOrder[check.at]
  <2>1. /\ check.dead \in Seq(Names) /\ check.dead # <<>> /\ check.at \in 1 .. Len(RemoveOrder)
    BY <1>0, <1>5, CheckMoves DEF RemoveMember
  <2>2. n \in Names /\ k \in Collections /\ Tail(check.dead) \in Seq(Names)
    BY <2>1, OrderAssumption
  <2>3. members' = [members EXCEPT ![k][n] = OneLess(members[k][n])]
    BY <1>5 DEF RemoveMember
  <2> HIDE DEF n, k
  <2>4. members' \in [Collections -> [Names -> 0 .. MaxMembers]]
    BY <2>2, <2>3, Copies
  <2>5. check' \in CheckStates
    <3>1. CASE check.at < Len(RemoveOrder)
      <4>1. check.at + 1 \in 1 .. Len(RemoveOrder)
        BY <2>1, <3>1, Firsts
      <4>2. QED BY <1>0, <1>5, <3>1, <4>1, CheckMoves DEF RemoveMember
    <3>2. CASE ~ (check.at < Len(RemoveOrder))
      BY <1>0, <1>5, <2>2, <3>2, Firsts, CheckMoves DEF RemoveMember
    <3>3. QED BY <3>1, <3>2
  <2>6. QED BY <1>5, <2>4, <2>5 DEF RemoveMember, Types
<1>6. CASE CheckSnapshot
  <2>1. check' \in CheckStates
    BY <1>0, <1>6, CheckMoves DEF CheckSnapshot
  <2>2. QED BY <1>6, <2>1 DEF CheckSnapshot, Types
<1>7. CASE CheckWrite
  <2>1. file' \in Entries /\ check' \in CheckStates
    BY <1>0, <1>7, CheckMoves, Firsts DEF CheckWrite
  <2>2. QED BY <1>7, <2>1 DEF CheckWrite, Types
<1>8. ASSUME NEW n \in Names, CheckTerminates(n) PROVE Types'
  BY <1>8, StopTypes DEF CheckTerminates
<1>9. QED BY <1>1, <1>2, <1>3, <1>4, <1>5, <1>6, <1>7, <1>8 DEF Check

LEMMA StepTypes == Types /\ [Next]_vars => Types'
<1> SUFFICES ASSUME Types, [Next]_vars PROVE Types'
  OBVIOUS
<1> USE DEF tableVars, collectionVars
<1>1. ASSUME NEW a \in Addresses, ModuleUp(a) \/ ModuleDown(a) PROVE Types'
  BY <1>1 DEF ModuleUp, ModuleDown, Types
<1>2. ASSUME NEW a \in Addresses, Announce(a) PROVE Types'
  <2>1. SsdpIdle \in SsdpStates
    BY Firsts
  <2>2. [SsdpIdle EXCEPT !.pc = "find", !.addr = a] \in SsdpStates
    BY <2>1 DEF SsdpStates
  <2>3. QED BY <1>2, <2>2 DEF Announce, Types
<1>3. ASSUME NEW q \in Requests, NEW n \in Names, Route(q, n) PROVE Types'
  <2>1. [pc |-> "read", name |-> n] \in RequestStates
    BY DEF RequestStates
  <2>2. QED BY <1>3, <2>1 DEF Route, Types
<1>4. ASSUME NEW q \in Requests, ReadAddress(q) PROVE Types'
  <2>1. request[q].name \in Names
    BY DEF Types, RequestStates
  <2>2. table' \in Entries
    BY <1>4, <2>1, Tables DEF ReadAddress, Types
  <2>3. QED BY <1>4, <2>2, Firsts DEF ReadAddress, Types
<1>5. CASE Restart
  <2>1. members' \in [Collections -> [Names -> 0 .. MaxMembers]]
    BY <1>5, BoundAssumption DEF Restart
  <2>2. QED BY <1>5, <2>1 DEF Restart, Types
<1>6. CASE UNCHANGED vars
  BY <1>6 DEF vars, Types
<1>7. QED
  BY <1>1, <1>2, <1>3, <1>4, <1>5, <1>6, SsdpTypes, CheckTypes, StopTypes DEF Next, Handler, Crash

(* Every variable keeps its type while the SSDP thread, the check thread and the handlers use the
   table without a lock, and the server crashes and starts again. *)
THEOREM TypeCorrect == Spec => []TypeOK
<1>1. Types => TypeOK
  BY DEF Types, TypeOK, SsdpStates, CheckStates, RequestStates
<1>2. QED BY <1>1, InitTypes, StepTypes, PTL DEF Spec

-----------------------------------------------------------------------------
(* What the check thread holds.  It never lists an entry twice, as it goes
   through the table in one direction; that, with what it has listed so far and
   where it stands, is what its steps need to know of each other.  All others
   only put entries where there are none. *)
Held ==
    /\ ~running => check = CheckIdle
    /\ check.pc = "next" /\ check.name # 0 => table[check.name] # Null
    /\ \A i \in 1 .. Len(check.dead) :
          /\ check.pc = "next" => check.dead[i] <= check.name
          /\ \A j \in 1 .. i - 1 : check.dead[j] < check.dead[i]
          /\ table[check.dead[i]] \in Addresses \/ (check.pc = "member" /\ i = 1)

(* What nobody but the check thread may do: touch an entry there is. *)
EntriesStay == \A n \in Names : table[n] # Null => table'[n] = table[n]

LEMMA IdleHolds ==
    ASSUME check = CheckIdle
    PROVE  Held
BY DEF Held, CheckIdle

LEMMA StayingHolds ==
    ASSUME Types, Held, EntriesStay, check' = check, running' = running
    PROVE  Held'
<1>1. check.dead \in Seq(Names) /\ check.name \in 0 .. MaxModule
  BY DEF Types, CheckStates
<1>2. check.name # 0 => check.name \in Names
  BY <1>1, BoundAssumption DEF Names
<1>3. check.pc = "next" /\ check.name # 0 => table'[check.name] # Null
  BY <1>2 DEF Held, EntriesStay
<1>4. ASSUME NEW i \in 1 .. Len(check.dead)
      PROVE  /\ check.pc = "next" => check.dead[i] <= check.name
             /\ \A j \in 1 .. i - 1 : check.dead[j] < check.dead[i]
             /\ table'[check.dead[i]] \in Addresses \/ (check.pc = "member" /\ i = 1)
  <2>1. check.dead[i] \in Names
    BY <1>1
  <2>2. table[check.dead[i]] \in Addresses => table'[check.dead[i]] \in Addresses
    BY <2>1, AddressAssumption DEF EntriesStay
  <2>3. QED BY <2>2 DEF Held
<1>5. QED BY <1>3, <1>4 DEF Held

(* [] leaves the entries there are as they are. *)
LEMMA LookedStays ==
    ASSUME Types, NEW n \in Names, table' = Looked(n)
    PROVE  EntriesStay
BY DEF Types, Entries, Looked, EntriesStay

LEMMA SsdpHolds ==
    ASSUME Types, Held, Ssdp
    PROVE  Held'
<1>1. check' = check /\ running' = running
  BY DEF Ssdp, Find, Compare, Insert, SsdpSnapshot, SsdpWrite, Add
<1>2. EntriesStay
  <2>1. CASE Compare
    <3>1. ssdp.name \in Names
      BY DEF Types, SsdpStates
    <3>2. QED BY <2>1, <3>1, LookedStays DEF Compare
  <2>2. CASE Insert
    <3>1. ssdp.name \in Names /\ table \in Entries
      BY DEF Types, SsdpStates
    <3>2. QED BY <2>2, <3>1 DEF Insert, EntriesStay, Entries
  <2>3. CASE table' = table
    BY <2>3 DEF EntriesStay
  <2>4. QED
    BY <2>1, <2>2, <2>3 DEF Ssdp, Find, SsdpSnapshot, SsdpWrite, Add, tableVars
<1>3. QED BY <1>1, <1>2, StayingHolds

(* The check thread asks the next module and lists it if it does not answer. *)
LEMMA AskHolds ==
    ASSUME Types, Held, NEW n \in Names, Ask(n)
    PROVE  Held'
<1> DEFINE d == check.dead
<1>1. /\ d \in Seq(Names) /\ check.name \in 0 .. MaxModule /\ table \in Entries
      /\ check \in CheckStates /\ Len(d) \in Nat
  BY DEF Types, CheckStates
<1>2. /\ check.pc = "next" /\ running /\ n > check.name /\ n \in Nat
      /\ table[n] # Null /\ table[n] # Blank /\ table' = table /\ running' = running
      /\ check' = [check EXCEPT !.name = n,
                     !.dead = IF table[n] \in up THEN d ELSE Append(d, n)]
  BY Firsts DEF Ask, NextEntry, CheckAt, tableVars
<1>3. table[n] \in Addresses
  BY <1>1, <1>2 DEF Entries
<1>4. check'.pc = "next" /\ check'.name = n /\ check'.dead \in {d, Append(d, n)}
  BY <1>1, <1>2 DEF CheckStates
<1>5. ASSUME NEW i \in 1 .. Len(d)
      PROVE  /\ d[i] \in Names /\ d[i] < n /\ table[d[i]] \in Addresses
             /\ \A j \in 1 .. i - 1 : d[j] < d[i]
  <2>0. d[i] \in Names
    BY <1>1
  <2>1. d[i] \in Nat
    BY <2>0, Firsts
  <2>2. d[i] <= check.name
    BY <1>2 DEF Held
  <2>3. table[d[i]] \in Addresses /\ \A j \in 1 .. i - 1 : d[j] < d[i]
    BY <1>2 DEF Held
  <2>4. QED BY <1>1, <1>2, <2>0, <2>1, <2>2, <2>3
<1>6. CASE check'.dead = d
  <2>1. \A i \in 1 .. Len(d) : d[i] <= n
    BY <1>2, <1>5, Firsts
  <2>2. QED BY <1>2, <1>4, <1>5, <1>6, <2>1 DEF Held
<1>7. CASE check'.dead = Append(d, n)
  <2>1. /\ Len(check'.dead) = Len(d) + 1 /\ check'.dead[Len(d) + 1] = n
        /\ \A i \in 1 .. Len(d) : check'.dead[i] = d[i]
    BY <1>1, <1>7, AppendProperties
  <2> HIDE DEF d
  <2>2. ASSUME NEW i \in 1 .. Len(check'.dead)
        PROVE  /\ check'.dead[i] <= n
               /\ \A j \in 1 .. i - 1 : check'.dead[j] < check'.dead[i]
               /\ table[check'.dead[i]] \in Addresses
    <3>1. CASE i \in 1 .. Len(d)
      <4>1. d[i] \in Names /\ d[i] < n /\ table[d[i]] \in Addresses
            /\ \A j \in 1 .. i - 1 : d[j] < d[i]
        BY <1>5, <3>1
      <4>2. d[i] <= n
        BY <1>2, <4>1, Firsts
      <4>3. \A j \in 1 .. i - 1 : j \in 1 .. Len(d)
        BY <1>1, <3>1
      <4>4. QED BY <2>1, <3>1, <4>1, <4>2, <4>3
    <3>2. CASE i = Len(d) + 1
      <4>1. i - 1 = Len(d)
        BY <1>1, <3>2
      <4>2. check'.dead[i] = n /\ n <= n
        BY <1>2, <2>1, <3>2
      <4>3. QED BY <1>3, <1>5, <2>1, <4>1, <4>2
    <3>3. QED BY <1>1, <2>1, <3>1, <3>2
  <2>3. QED BY <1>2, <1>4, <2>2 DEF Held
<1>8. QED BY <1>4, <1>6, <1>7

(* It takes the first of the list out of the table, and the others are other entries. *)
LEMMA EraseHolds ==
    ASSUME Types, Held, Erase
    PROVE  Held'
<1> DEFINE d == check.dead
<1>1. /\ d \in Seq(Names) /\ table \in Entries /\ check \in CheckStates /\ Len(d) \in Nat
  BY DEF Types, CheckStates
<1>2. /\ check.pc = "erase" /\ running /\ d # <<>> /\ running' = running
      /\ table' = [table EXCEPT ![d[1]] = Null] /\ check' = [check EXCEPT !.pc = "member"]
  BY DEF Erase, CheckAt
<1>3. check'.pc = "member" /\ check'.dead = d /\ running'
  BY <1>1, <1>2 DEF CheckStates
<1>4. ASSUME NEW i \in 1 .. Len(d)
      PROVE  /\ \A j \in 1 .. i - 1 : d[j] < d[i]
             /\ i # 1 => table'[d[i]] \in Addresses
  <2>1. \A j \in 1 .. i - 1 : d[j] < d[i]
    BY DEF Held
  <2>2. ASSUME i # 1 PROVE table'[d[i]] \in Addresses
    <3>1. 1 \in 1 .. i - 1 /\ d[1] \in Names /\ d[i] \in Names
      BY <1>1, <2>2
    <3>2. d[1] # d[i]
      <4>1. d[1] < d[i]
        BY <2>1, <3>1
      <4>2. d[1] \in Nat /\ d[i] \in Nat
        BY <3>1, Firsts
      <4>3. QED BY <4>1, <4>2
    <3>3. table[d[i]] \in Addresses
      BY <1>2 DEF Held
    <3>4. table'[d[i]] = table[d[i]]
      BY <1>1, <1>2, <3>1, <3>2 DEF Entries
    <3>5. QED BY <3>3, <3>4
  <2>3. QED BY <2>1, <2>2
<1>5. QED BY <1>3, <1>4 DEF Held

(* And it goes on to the next of the list. *)
LEMMA RemoveMemberHolds ==
    ASSUME Types, Held, RemoveMember
    PROVE  Held'
<1> DEFINE d == check.dead
<1>1. /\ d \in Seq(Names) /\ check \in CheckStates /\ Len(d) \in Nat
      /\ check.pc = "member" /\ d # <<>> /\ running /\ running' /\ table' = table
  BY DEF Types, CheckStates, RemoveMember, CheckAt, tableVars
<1>2. CASE check.at < Len(RemoveOrder)
  <2>1. check' = [check EXCEPT !.at = check.at + 1]
    BY <1>2 DEF RemoveMember
  <2>2. check'.pc = "member" /\ check'.dead = d
    BY <1>1, <2>1 DEF CheckStates
  <2>3. QED BY <1>1, <2>2 DEF Held
<1>3. CASE ~ (check.at < Len(RemoveOrder))
  <2>1. check' = [check EXCEPT !.pc = "erase", !.dead = Tail(d), !.at = 1]
    BY <1>3 DEF RemoveMember
  <2>2. check'.pc = "erase" /\ check'.dead = Tail(d)
    BY <1>1, <2>1 DEF CheckStates
  <2>3. Len(Tail(d)) = Len(d) - 1 /\ \A i \in 1 .. Len(Tail(d)) : Tail(d)[i] = d[i + 1]
    BY <1>1, HeadTailProperties
  <2> DEFINE t == Tail(d)
  <2> HIDE DEF t, d
  <2>4. ASSUME NEW i \in 1 .. Len(t)
        PROVE  /\ \A j \in 1 .. i - 1 : t[j] < t[i]
               /\ table[t[i]] \in Addresses
    <3>1. i + 1 \in 1 .. Len(d) /\ i + 1 # 1 /\ t[i] = d[i + 1]
      BY <1>1, <2>3 DEF t
    <3>2. /\ \A j \in 1 .. i : d[j] < d[i + 1]
          /\ table[d[i + 1]] \in Addresses
      BY <3>1 DEF Held, d
    <3>3. ASSUME NEW j \in 1 .. i - 1 PROVE t[j] = d[j + 1] /\ j + 1 \in 1 .. i
      BY <1>1, <2>3, <3>1 DEF t
    <3>4. QED BY <3>1, <3>2, <3>3
  <2>5. QED BY <1>1, <2>2, <2>4 DEF Held, t
<1>4. QED BY <1>2, <1>3

LEMMA CheckHolds ==
    ASSUME Types, Held, Check
    PROVE  Held'
<1>0. check \in CheckStates
  BY DEF Types
<1>1. CASE Wake
  <2>1. check' = [CheckIdle EXCEPT !.pc = "next"] /\ running'
    BY <1>1 DEF Wake, CheckAt
  <2>2. check'.name = 0 /\ check'.dead = <<>>
    BY <2>1 DEF CheckIdle
  <2>3. QED BY <2>1, <2>2 DEF Held
<1>2. CASE CheckEnd
  <2>1. check' = [check EXCEPT !.pc = "erase", !.name = 0] /\ running' /\ table' = table
        /\ check.pc = "next"
    BY <1>2 DEF CheckEnd, CheckAt, tableVars
  <2>2. check'.pc = "erase" /\ check'.dead = check.dead
    BY <1>0, <2>1 DEF CheckStates
  <2>3. QED BY <2>1, <2>2 DEF Held
<1>3. CASE CheckSnapshot
  <2>1. check' = [check EXCEPT !.pc = "write", !.snap = table] /\ running' /\ check.dead = <<>>
    BY <1>3 DEF CheckSnapshot, CheckAt
  <2>2. check'.pc = "write" /\ check'.dead = <<>>
    BY <1>0, <2>1 DEF CheckStates
  <2>3. QED BY <2>1, <2>2 DEF Held
<1>4. CASE CheckWrite
  BY <1>4 DEF CheckWrite, Held, CheckIdle
<1>5. ASSUME NEW n \in Names, CheckTerminates(n) PROVE Held'
  BY <1>5 DEF CheckTerminates, Stop, Held, CheckIdle
<1>6. QED
  BY <1>1, <1>2, <1>3, <1>4, <1>5, AskHolds, EraseHolds, RemoveMemberHolds DEF Check

LEMMA StepHolds == Types /\ Held /\ [Next]_vars => Held'
<1> SUFFICES ASSUME Types, Held, [Next]_vars PROVE Held'
  OBVIOUS
<1>1. ASSUME NEW a \in Addresses, ModuleUp(a) \/ ModuleDown(a) \/ Announce(a) PROVE Held'
  <2>1. table' = table /\ check' = check /\ running' = running
    BY <1>1 DEF ModuleUp, ModuleDown, Announce, tableVars
  <2>2. QED BY <2>1, StayingHolds DEF EntriesStay
<1>2. ASSUME NEW q \in Requests, Handler(q) PROVE Held'
  <2>1. request[q].name \in Names /\ table \in Entries
    BY DEF Types, RequestStates
  <2>2. EntriesStay
    BY <1>2, <2>1, LookedStays DEF Handler, Route, ReadAddress, EntriesStay, tableVars
  <2>3. check' = check /\ running' = running
    BY <1>2 DEF Handler, Route, ReadAddress
  <2>4. QED BY <2>2, <2>3, StayingHolds
<1>3. CASE Crash
  BY <1>3 DEF Crash, Stop, Held, CheckIdle
<1>4. CASE Restart
  BY <1>4 DEF Restart, Held, CheckIdle
<1>5. CASE UNCHANGED vars
  BY <1>5, StayingHolds DEF vars, tableVars, EntriesStay
<1>6. QED
  BY <1>1, <1>2, <1>3, <1>4, <1>5, SsdpHolds, CheckHolds DEF Next

(* While the check thread waits for the answers, the entry its iterator is at and the entries on
   its list stay in the table, whatever the SSDP thread and the handlers put into it. *)
THEOREM ChecksCorrect == Spec => []CheckHoldsEntries
<1>1. Types /\ Held => CheckHoldsEntries
  <2> SUFFICES ASSUME Types, Held PROVE CheckHoldsEntries
    OBVIOUS
  <2>1. check.dead \in Seq(Names)
    BY DEF Types, CheckStates
  <2>2. ASSUME NEW n \in ToSet(check.dead) PROVE \E i \in 1 .. Len(check.dead) : check.dead[i] = n
    BY <2>1 DEF ToSet
  <2>3. QED BY <2>2 DEF Held, CheckHoldsEntries, CheckAt
<1>2. Init => Held
  BY IdleHolds DEF Init
<1>3. QED BY <1>1, <1>2, InitTypes, StepTypes, StepHolds, PTL DEF Spec
=============================================================================
