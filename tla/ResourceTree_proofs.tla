-------------------------- MODULE ResourceTree_proofs --------------------------
(***************************************************************************)
(* What ResourceTree promises for every tree: paths of any length, with    *)
(* any kinds of children.  The types come first, and with them that the    *)
(* files of a started program are those of its resources.  Then what a     *)
(* start has read and made while it links and saves, against the files it  *)
(* began with: from that follows what a null pointer can come of.  Where   *)
(* the top of a path is there and a hole below it, no later start comes    *)
(* any further; if nothing is missing, what is whole comes back once and   *)
(* in its place.                                                           *)
(***************************************************************************)
EXTENDS ResourceTree, TLAPS

Phases == {"down", "inject", "init", "save", "delete", "run", "dead", "undefined"}
Entries == {"none", "bare"} \cup Objects
Pointers == {"null", "bare", "deleted"} \cup Objects

(* A path is a sequence of children, with a node above each of them. *)
LEMMA PathShape ==
    ASSUME path \in Paths
    PROVE  /\ path \in Seq(Children) /\ Len(path) \in Nat \ {0}
           /\ 0 \in Nodes /\ 1 \in Below /\ Last \in Below /\ path[1].from = Previous
           /\ \A i \in Below : /\ path[i] \in Children
                               /\ path[i].bare \in {"undefined", "skip"}
                               /\ i \in Nodes /\ i # 0 /\ Up(i) \in Nodes
                               /\ path[i].entry => Up(Up(i)) \in Nodes
                               /\ path[i].walked => i \notin Top /\ path[i].bare = "undefined"
<1>1. path \in Seq(Children) /\ path # <<>> /\ path[1].from = Previous
  BY PathAssumption
<1>2. Len(path) \in Nat \ {0} /\ DOMAIN path = Below
  BY <1>1 DEF Below, Last
<1>3. 0 \in Nodes /\ 1 \in Below /\ Last \in Below /\ \A i \in Below : i \in Nodes /\ i # 0
  BY <1>2 DEF Nodes, Below, Last
<1>4. \A i \in Below : path[i] \in Children
  BY <1>1, <1>2
<1>5. \A i \in Below : /\ path[i].bare \in {"undefined", "skip"}
                       /\ path[i].from \in {Previous, 0, 1}
  BY <1>4 DEF Children
<1>6. \A i \in Below : Up(i) \in Nodes
  BY <1>2, <1>3, <1>5 DEF Up, Nodes, Below, Last, Previous
<1>7. ASSUME NEW i \in Below, path[i].entry \/ path[i].walked
      PROVE  Up(i) \in Below /\ path[i].bare = "undefined"
  <2>1. i > 1 /\ path[i].from = Previous /\ path[i].bare = "undefined"
    BY <1>2, <1>7, PathAssumption
  <2>2. QED BY <1>2, <2>1 DEF Up, Below, Last
<1>8. QED BY <1>1, <1>2, <1>3, <1>4, <1>5, <1>6, <1>7 DEF Top

(* From each node the line goes up to one right below the root, which the root looks for. *)
LEMMA Lines ==
    ASSUME path \in Paths, NEW i \in Below
    PROVE  /\ Line(i) \subseteq Below /\ i \in Line(i)
           /\ Up(i) = 0 \/ Up(i) \in Line(i)
           /\ \E t \in Top : t \in Line(i) /\ Line(t) = {t} /\ path[t].guarded
<1>1. Len(path) \in Nat \ {0} /\ DOMAIN path = Below /\ Below = 1 .. Len(path)
  BY PathShape DEF Below, Last
<1>2. \A j \in Below : path[j].from \in {Previous, 0, 1}
  BY PathShape DEF Children
<1>3. \A j, k \in Below : path[j].from = Previous \/ path[k].from = Previous \/ j = k
  BY <1>1, PathAssumption
<1>4. path[1].from = Previous /\ path[1].guarded
      /\ \A j \in Below : path[j].from = 0 => path[j].guarded
  BY <1>1, PathAssumption
<1>5. Line(i) \subseteq Below /\ i \in Line(i)
  BY <1>1 DEF Line
<1>6. Up(i) = 0 \/ Up(i) \in Line(i)
  <2>1. CASE path[i].from = Previous
    <3>1. Up(i) = i - 1
      BY <2>1 DEF Up
    <3>2. CASE i = 1
      BY <3>1, <3>2
    <3>3. CASE i # 1
      BY <1>1, <2>1, <3>1, <3>3 DEF Line
    <3>4. QED BY <3>2, <3>3
  <2>2. CASE path[i].from = 0
    BY <2>2 DEF Up, Previous
  <2>3. CASE path[i].from = 1
    <3>1. Up(i) = 1 /\ i # 1
      BY <1>4, <2>3 DEF Up, Previous
    <3>2. \A b \in 1 + 1 .. i : path[b].from = Previous \/ 1 <= path[b].from
      BY <1>1, <1>3, <2>3 DEF Previous
    <3>3. QED BY <1>1, <3>1, <3>2 DEF Line
  <2>4. QED BY <1>2, <2>1, <2>2, <2>3
<1>7. CASE \E b \in 1 .. i : path[b].from = 0
  <2>1. PICK b \in 1 .. i : path[b].from = 0
    BY <1>7
  <2>2. b \in Below /\ b \in Top
    BY <1>1, <2>1 DEF Top, Up, Previous
  <2>3. b \in Line(i)
    BY <1>1, <1>3, <2>1, <2>2 DEF Line, Previous
  <2>4. Line(b) = {b}
    BY <1>1, <2>1, <2>2 DEF Line, Previous
  <2>5. QED BY <1>4, <1>5, <1>6, <2>1, <2>2, <2>3, <2>4
<1>8. CASE ~ \E b \in 1 .. i : path[b].from = 0
  <2>1. 1 \in Top
    BY <1>1, <1>4 DEF Top, Up
  <2>2. \A b \in 1 + 1 .. i : path[b].from = Previous \/ 1 <= path[b].from
    BY <1>1, <1>2, <1>8
  <2>3. 1 \in Line(i)
    BY <1>1, <2>2 DEF Line
  <2>4. Line(1) = {1}
    BY DEF Line
  <2>5. QED BY <1>4, <1>5, <1>6, <2>1, <2>3, <2>4
<1>9. QED BY <1>7, <1>8

(* What is made starts right below the root. *)
LEMMA TopMissing ==
    ASSUME path \in Paths, NEW entries, Missing(entries) # {}
    PROVE  \E t \in Top : t \in Missing(entries) /\ entries[t] = "none"
<1>1. PICK i \in Below : i \in Missing(entries)
  BY DEF Missing
<1>2. PICK t \in Top : t \in Line(i) /\ Line(t) = {t} /\ path[t].guarded
  BY Lines
<1>3. entries[t] = "none"
  BY <1>1, <1>2 DEF Missing
<1>4. QED BY <1>2, <1>3 DEF Missing, Top

(* What is missing among entries that are there for the same nodes is the same. *)
LEMMA SameMissing ==
    ASSUME path \in Paths, NEW a, NEW b, \A i \in Below : a[i] = "none" <=> b[i] = "none"
    PROVE  Missing(a) = Missing(b)
BY Lines DEF Missing

(* The path of an account: its service, its collection and itself, and beside them the collection
   of the roles and its role.                                                                    *)
LEMMA RoleShape ==
    ASSUME path \in Paths, Need("role") # {}
    PROVE  /\ Need("role") = {3} /\ Last = 5 /\ Below = 1 .. 5 /\ Top = {1}
           /\ Up(2) = 1 /\ Up(3) = 2 /\ Line(1) = {1} /\ Line(3) = {1, 2, 3} /\ Line(5) = {1, 4, 5}
           /\ path[1].guarded /\ path[3].bare = "undefined" /\ ~path[5].guarded
           /\ Need("location") = {}
<1>1. DOMAIN path = Below /\ Below = 1 .. Len(path)
  BY PathShape DEF Below, Last
<1>2. \A i \in Need("role") : i = 3
  BY <1>1, RoleAssumption DEF Need
<1>3. Need("role") = {3} /\ path[3].bare = "undefined"
      /\ Len(path) = 5 /\ path[4].from = 1 /\ ~path[5].guarded
  BY <1>1, <1>2, RoleAssumption DEF Need
<1>4. Below = 1 .. 5 /\ Last = 5
  BY <1>1, <1>3 DEF Last
<1>5. \A j \in 1 .. 5 : j # 4 => path[j].from = Previous
  BY <1>1, <1>3, <1>4, PathAssumption DEF Previous
<1>6. path[1].guarded
  BY <1>1, <1>4, PathAssumption
<1>7. Up(1) = 0 /\ Up(2) = 1 /\ Up(3) = 2 /\ Up(4) = 1 /\ Up(5) = 4
  BY <1>3, <1>5 DEF Up, Previous
<1>8. Top = {1}
  <2>1. \A j \in 1 .. 5 : j = 1 \/ j = 2 \/ j = 3 \/ j = 4 \/ j = 5
    OBVIOUS
  <2>2. QED BY <1>4, <1>7, <2>1 DEF Top
<1>9. Line(1) = {1} /\ Line(3) = {1, 2, 3}
  <2>1. \A b \in 2 .. 3 : path[b].from = Previous
    BY <1>5
  <2>2. QED BY <2>1 DEF Line
<1>10. Line(5) = {1, 4, 5}
  <2>1. \A j \in 1 .. 5 : j \in Line(5) <=> \A b \in j + 1 .. 5 : b # 4 \/ j <= 1
    BY <1>3, <1>5 DEF Line, Previous
  <2>2. Line(5) \subseteq 1 .. 5
    BY DEF Line
  <2>3. QED BY <2>1, <2>2
<1>11. Need("location") = {}
  BY <1>1, <1>3, RoleAssumption DEF Need
<1>12. QED BY <1>3, <1>4, <1>6, <1>7, <1>8, <1>9, <1>10, <1>11

-----------------------------------------------------------------------------
(* The types, without what is said of a program that runs. *)
Types ==
    /\ path \in Paths
    /\ phase \in Phases
    /\ files \in [Nodes -> {"none", "torn", "whole"}]
    /\ record \in [Nodes -> Entries]
    /\ \A i \in Below : links[i] \subseteq {path[i].slot, path[i].found} \X (Objects \cup {"deleted"})
    /\ loaded \subseteq Below \X Objects /\ gone \subseteq Below
    /\ held \subseteq Pointers /\ named \in BOOLEAN

LEMMA InitTypes == Init => Types
BY PathShape DEF Init, Types, Phases, Entries, NoRecord, NoLinks, Nodes, Below

LEMMA SamePath ==
    [Next]_vars => /\ path' = path /\ Last' = Last /\ Nodes' = Nodes /\ Below' = Below /\ Top' = Top
                   /\ Need("role")' = Need("role") /\ Need("location")' = Need("location")
<1> SUFFICES ASSUME [Next]_vars
             PROVE /\ path' = path /\ Last' = Last /\ Nodes' = Nodes /\ Below' = Below /\ Top' = Top
                   /\ Need("role")' = Need("role") /\ Need("location")' = Need("location")
  OBVIOUS
<1>1. path' = path
  BY DEF Next, vars, Load, LoadFails, Inject, InjectFails, MakeRoot, MakeRootFails, SaveAll,
         SaveFails, DeleteOne, DeleteEnd, Crash, SaveCut, WriteCut, Down
<1>2. QED BY <1>1 DEF Last, Nodes, Below, Top, Up, Need

(* What a start has read and made after the loop over g_record: in each case what the loop met
   before the root, and after it; and that it met all that is whole if the root made nothing.  *)
Entered(before, after, made) ==
    LET rec == Found(before)
        again == after \cap (before \cup made)
    IN /\ made = MadeBy(rec)
       /\ made = {} => after = Whole \ ({0} \cup before)
       /\ record' = [i \in Nodes |->
                       IF i = 0 THEN IF 0 \in Whole THEN "made" ELSE rec[0]
                       ELSE IF i \in again THEN "second"
                       ELSE IF i \in after THEN "first"
                       ELSE IF i \in made THEN "made" ELSE rec[i]]
       /\ links' = [i \in Below |->
                       IF i \in made /\ Up(i) \notin after THEN Hung(i, "made") ELSE {}]
       /\ loaded' = (before \cup (after \ made)) \X {"first"} \cup again \X {"second"}
       /\ gone' = again
       /\ held' = IF Need("location") # {} /\ Last \in after THEN {} ELSE Given(made, rec)

LEMMA LoadStep ==
    ASSUME Types, Load
    PROVE  /\ \E before, after \in SUBSET (Whole \ {0}), made \in SUBSET Below :
                 Entered(before, after, made)
           /\ phase' = "inject" /\ UNCHANGED <<path, files, named>>
<1>1. PICK before \in SUBSET (Whole \ {0}) :
        \E after \in IF MadeBy(Found(before)) = {} THEN {Whole \ ({0} \cup before)}
                     ELSE SUBSET (Whole \ {0}) :
           Entered(before, after, MadeBy(Found(before)))
  BY DEF Load, Entered
<1>2. PICK after \in IF MadeBy(Found(before)) = {} THEN {Whole \ ({0} \cup before)}
                     ELSE SUBSET (Whole \ {0}) :
           Entered(before, after, MadeBy(Found(before)))
  BY <1>1
<1>3. after \in SUBSET (Whole \ {0})
  BY <1>2
<1>4. MadeBy(Found(before)) \in SUBSET Below
  BY DEF MadeBy, Missing
<1>5. QED BY <1>2, <1>3, <1>4 DEF Load

LEMMA GivenPointers ==
    ASSUME Types, NEW made, NEW rec \in [Nodes -> Entries]
    PROVE  Given(made, rec) \subseteq {"bare"} \cup Objects
BY PathShape DEF Types, Given, Beyond, Entries, Objects

LEMMA FoundEntries ==
    ASSUME Types, NEW before
    PROVE  /\ Found(before) \in [Nodes -> {"none", "bare", "first"}]
           /\ \A i \in Nodes : Found(before)[i] = "none" <=> files[i] = "none"
BY DEF Found

LEMMA LoadTypes == Types /\ Load => Types'
<1> SUFFICES ASSUME Types, Load PROVE Types' OBVIOUS
<1>1. PICK before \in SUBSET (Whole \ {0}), after \in SUBSET (Whole \ {0}), made \in SUBSET Below :
        Entered(before, after, made)
  BY LoadStep
<1>2. Whole \ {0} \subseteq Below
  BY PathShape DEF Types, Whole, Nodes, Below, Last
<1>3. Found(before) \in [Nodes -> Entries]
  BY FoundEntries DEF Entries, Objects
<1>4. 0 \in Nodes
  BY PathShape DEF Types
<1>5. path' = path /\ files' = files /\ phase' = "inject" /\ named' = named
  BY LoadStep
<1>6. record' \in [Nodes -> Entries]
  BY <1>1, <1>3, <1>4 DEF Entered, Entries, Objects
<1>7. \A i \in Below : links'[i] \subseteq {path[i].slot, path[i].found} \X (Objects \cup {"deleted"})
  BY <1>1 DEF Entered, Hung, Objects
<1>8. loaded' \subseteq Below \X Objects /\ gone' \subseteq Below
  BY <1>1, <1>2 DEF Entered, Objects
<1>9. Nodes' = Nodes /\ Below' = Below
  BY <1>5 DEF Nodes, Below, Last
<1>10. held' \subseteq Pointers
  BY <1>1, <1>3, GivenPointers DEF Entered, Pointers
<1>11. QED BY <1>5, <1>6, <1>7, <1>8, <1>9, <1>10 DEF Types, Phases

LEMMA InjectTypes == Types /\ Inject => Types'
<1> SUFFICES ASSUME Types, Inject PROVE Types' OBVIOUS
<1>a. path' = path /\ Nodes' = Nodes /\ Below' = Below
  BY DEF Inject, Nodes, Below, Last
<1>1. \A object \in Objects, isGone \in BOOLEAN : Kept(isGone, object) \in Objects \cup {"deleted"}
  BY DEF Kept, Objects
<1>2. \A i \in Below : links'[i] \subseteq {path[i].slot, path[i].found} \X (Objects \cup {"deleted"})
  <2>1. ASSUME NEW i \in Below
        PROVE  Linked(i) \subseteq {path[i].slot, path[i].found} \X (Objects \cup {"deleted"})
    <3>1. {l[2] : l \in {l \in loaded : l[1] = i}} \subseteq Objects
      BY DEF Types
    <3>2. links[i] \subseteq {path[i].slot, path[i].found} \X (Objects \cup {"deleted"})
      BY DEF Types
    <3>3. QED BY <3>1, <3>2 DEF Linked, Objects
  <2>2. ASSUME NEW i \in Below, NEW l \in Linked(i)
        PROVE  <<l[1], Kept(i \in gone, l[2])>> \in
                   {path[i].slot, path[i].found} \X (Objects \cup {"deleted"})
    BY <2>1, <2>2 DEF Kept, Objects
  <2>3. QED BY <2>2 DEF Inject
<1>3. record' \in [Nodes -> Entries]
  BY DEF Inject, Types, Entries
<1>4. held' \subseteq Pointers
  <2>1. RoleFound \in Pointers
    BY PathShape DEF RoleFound, Types, Entries, Pointers
  <2>2. \A what : {l[2] : l \in {l \in loaded : path[l[1]].needs = what}} \subseteq Pointers
    BY DEF Types, Pointers
  <2>3. HeldLinked \subseteq Pointers
    BY <2>1, <2>2 DEF HeldLinked, Types
  <2>4. \A object \in Pointers, isGone \in BOOLEAN : Kept(isGone, object) \in Pointers
    BY DEF Kept, Pointers
  <2>5. QED BY <2>3, <2>4 DEF Inject
<1>5. QED BY <1>a, <1>2, <1>3, <1>4 DEF Inject, Types, Phases

LEMMA StepTypes == Types /\ [Next]_vars => Types'
<1> SUFFICES ASSUME Types, [Next]_vars PROVE Types' OBVIOUS
<1> USE DEF Phases
<1>a. path' = path /\ Nodes' = Nodes /\ Below' = Below
  BY SamePath
<1>1. CASE Load
  BY <1>1, LoadTypes
<1>2. CASE Inject
  BY <1>2, InjectTypes
<1>3. CASE LoadFails \/ InjectFails \/ MakeRootFails
  <2>1. \A made, rec : Pushes(made, rec) \subseteq {"dead", "undefined", "linked"}
    BY DEF Pushes, Reached
  <2>2. phase' \in {"dead", "undefined"}
    BY <1>3, <2>1 DEF LoadFails, InjectFails, MakeRootFails
  <2>3. QED BY <1>3, <1>a, <2>2 DEF LoadFails, InjectFails, MakeRootFails, Types
<1>4. CASE MakeRoot
  <2>1. record' \in [Nodes -> Entries]
    BY <1>4 DEF MakeRoot, Types, Entries, Objects
  <2>2. \A i \in Below :
           links'[i] \subseteq {path[i].slot, path[i].found} \X (Objects \cup {"deleted"})
    BY <1>4 DEF MakeRoot, Types, Hung, Objects
  <2>3. held' \subseteq Pointers
    BY <1>4, GivenPointers DEF MakeRoot, Types, Pointers
  <2>4. QED BY <1>4, <1>a, <2>1, <2>2, <2>3 DEF MakeRoot, Types
<1>5. \A done : NamedAfter(done) \in BOOLEAN
  BY DEF NamedAfter, Types
<1>6. CASE SaveAll
  BY <1>6, <1>a, <1>5 DEF SaveAll, Save, Types
<1>7. CASE SaveFails
  BY <1>7, <1>a, <1>5 DEF SaveFails, Save, Types
<1>8. CASE DeleteOne
  BY <1>8, <1>a DEF DeleteOne, Types
<1>9. CASE DeleteEnd
  BY <1>9, <1>a DEF DeleteEnd, Types
<1>10. ASSUME Down, files' \in [Nodes -> {"none", "torn", "whole"}], named' \in BOOLEAN PROVE Types'
  BY <1>10, <1>a DEF Down, Types, NoRecord, NoLinks, Entries
<1>11. CASE Crash
  BY <1>11, <1>10 DEF Crash, Types
<1>12. CASE SaveCut
  <2>1. files' \in [Nodes -> {"none", "torn", "whole"}] /\ named' \in BOOLEAN
    BY <1>5, <1>12 DEF SaveCut, Types
  <2>2. QED BY <1>10, <1>12, <2>1 DEF SaveCut
<1>13. CASE WriteCut
  <2>1. files' \in [Nodes -> {"none", "torn", "whole"}] /\ named' \in BOOLEAN
    BY <1>13 DEF WriteCut, Types
  <2>2. QED BY <1>10, <1>13, <2>1 DEF WriteCut
<1>14. CASE UNCHANGED vars
  BY <1>14, <1>a DEF vars, Types
<1>15. QED
  BY <1>1, <1>2, <1>3, <1>4, <1>6, <1>7, <1>8, <1>9, <1>11, <1>12, <1>13, <1>14 DEF Next

-----------------------------------------------------------------------------
(* The files of a program that has started: what has a class is saved, and  *)
(* in the end what has no entry has no file.                                *)
Saved ==
    /\ phase \in {"delete", "run"} => \A i \in Typed : files[i] = "whole"
    /\ phase = "run" => \A i \in Nodes : record[i] = "none" => files[i] = "none"

LEMMA StepSaved == Types /\ Saved /\ [Next]_vars => Saved'
<1> SUFFICES ASSUME Types, Saved, [Next]_vars PROVE Saved' OBVIOUS
<1>a. Nodes' = Nodes
  BY SamePath
<1>1. CASE SaveAll
  BY <1>1, <1>a DEF SaveAll, Save, Saved, Typed, Types
<1>2. CASE DeleteOne
  BY <1>2, <1>a DEF DeleteOne, Orphans, Saved, Typed, Types, Objects
<1>3. CASE DeleteEnd
  BY <1>3, <1>a DEF DeleteEnd, Orphans, Saved, Typed, Types
<1>4. CASE LoadFails \/ MakeRootFails
  <2>1. \A made, rec : Pushes(made, rec) \subseteq {"dead", "undefined", "linked"}
    BY DEF Pushes, Reached
  <2>2. QED BY <1>4, <2>1 DEF LoadFails, MakeRootFails, Saved
<1>5. CASE Load \/ Inject \/ InjectFails \/ MakeRoot \/ SaveFails \/ Crash \/ SaveCut \/ WriteCut
  BY <1>5 DEF Load, Inject, InjectFails, MakeRoot, SaveFails, Crash, SaveCut, WriteCut, Down, Saved
<1>6. CASE UNCHANGED vars
  BY <1>6, <1>a DEF vars, Saved, Typed
<1>7. QED BY <1>1, <1>2, <1>3, <1>4, <1>5, <1>6 DEF Next

(* Every variable keeps its type through starts, cuts and restarts, and a running program has a
   whole file for all that has a class and none for what has no entry (record_save_json). *)
THEOREM TypeCorrect == Spec => []TypeOK
<1>1. Init => Types /\ Saved
  BY InitTypes DEF Init, Saved
<1>2. Types /\ Saved /\ [Next]_vars => (Types /\ Saved)'
  BY StepTypes, StepSaved
<1>3. Types /\ Saved => TypeOK
  BY PathShape DEF Types, Saved, TypeOK, Phases, Entries, Pointers, Typed
<1>4. QED BY <1>1, <1>2, <1>3, PTL DEF Spec

-----------------------------------------------------------------------------
(* What a start has read and made, against its files: what has no entry has no file; what the root
   has made stays made where there is no whole file, and that is so of one right below the root;
   and if the root has made nothing then all that is whole was read, and once.                  *)
ReadAndMade(before, made) ==
    /\ \A i \in Nodes : /\ record'[i] = "none" => files[i] = "none"
                        /\ record'[i] = "bare" => files[i] # "none"
                        /\ files[i] = "none" /\ i \notin made => record'[i] = "none"
    /\ \A i \in Below : /\ record'[i] = "made" => i \in made
                        /\ record'[i] \in {"first", "second"} => \E l \in loaded' : l[1] = i
                        /\ i \in made /\ files[i] = "none" =>
                              record'[i] = "made" /\ i \notin gone'
    /\ \A l \in loaded' : files[l[1]] = "whole"
    /\ made = {} =>
          /\ gone' = {}
          /\ \A i \in Below : files[i] = "whole" =>
                record'[i] = "first" /\ \A x : <<i, x>> \in loaded' <=> x = "first"
    /\ made # {} =>
          /\ 0 \in Whole /\ made = Missing(Found(before)) /\ made = Missing(files)
          /\ \E t \in Top : t \in made /\ files[t] = "none"

LEMMA EnteredFacts ==
    ASSUME Types, NEW before \in SUBSET (Whole \ {0}), NEW after \in SUBSET (Whole \ {0}),
           NEW made \in SUBSET Below, Entered(before, after, made)
    PROVE  ReadAndMade(before, made)
<1>1. /\ Found(before) \in [Nodes -> {"none", "bare", "first"}]
      /\ \A i \in Nodes : Found(before)[i] = "none" <=> files[i] = "none"
  BY FoundEntries
<1>2. 0 \in Nodes /\ \A i \in Below : i \in Nodes /\ i # 0
  BY PathShape DEF Types
<1>3. ASSUME NEW i \in Nodes
      PROVE  /\ record'[i] = "none" => files[i] = "none"
             /\ record'[i] = "bare" => files[i] # "none"
             /\ files[i] = "none" /\ i \notin made => record'[i] = "none"
  <2>1. i \in Whole <=> files[i] = "whole"
    BY DEF Whole
  <2>2. QED BY <1>1, <2>1 DEF Entered
<1>4. \A i \in Below : record'[i] = "made" => i \in made
  BY <1>1, <1>2 DEF Entered
<1>5. ASSUME NEW i \in Below, record'[i] \in {"first", "second"}
      PROVE  \E l \in loaded' : l[1] = i
  <2>1. CASE i \in after \cap (before \cup made)
    BY <2>1, <<i, "second">> \in loaded' DEF Entered
  <2>2. CASE i \notin after \cap (before \cup made)
    <3>1. i \in before \cup (after \ made)
      BY <1>2, <1>5, <2>2 DEF Entered, Found
    <3>2. QED BY <3>1, <<i, "first">> \in loaded' DEF Entered
  <2>3. QED BY <2>1, <2>2
<1>6. ASSUME NEW i \in Below, i \in made, files[i] = "none"
      PROVE  record'[i] = "made" /\ i \notin gone'
  <2>1. i \notin after
    BY <1>6 DEF Whole
  <2>2. QED BY <1>2, <1>6, <2>1 DEF Entered
<1>7. \A l \in loaded' : files[l[1]] = "whole"
  BY DEF Entered, Whole
<1>8. ASSUME made = {}
      PROVE  /\ gone' = {}
             /\ \A i \in Below : files[i] = "whole" =>
                   record'[i] = "first" /\ \A x : <<i, x>> \in loaded' <=> x = "first"
  <2>1. /\ gone' = {} /\ after = Whole \ ({0} \cup before)
        /\ loaded' = (before \cup after) \X {"first"}
    BY <1>8 DEF Entered
  <2>2. ASSUME NEW i \in Below, files[i] = "whole"
        PROVE  record'[i] = "first" /\ \A x : <<i, x>> \in loaded' <=> x = "first"
    <3>1. i \in before \cup after
      BY <1>2, <2>1, <2>2 DEF Whole
    <3>2. record'[i] = "first"
      BY <1>2, <1>8, <2>1, <2>2, <3>1 DEF Entered, Found
    <3>3. QED BY <2>1, <3>1, <3>2
  <2>3. QED BY <2>1, <2>2
<1>9. ASSUME made # {}
      PROVE  /\ 0 \in Whole /\ made = Missing(Found(before)) /\ made = Missing(files)
             /\ \E t \in Top : t \in made /\ files[t] = "none"
  <2>1. 0 \in Whole /\ made = Missing(Found(before))
    BY <1>9 DEF Entered, MadeBy
  <2>2. made = Missing(files)
    BY <1>1, <1>2, <2>1, SameMissing DEF Types
  <2>3. QED BY <1>9, <2>1, <2>2, TopMissing DEF Types
<1>10. QED BY <1>3, <1>4, <1>5, <1>6, <1>7, <1>8, <1>9 DEF ReadAndMade

LEMMA LoadFacts ==
    ASSUME Types, Load
    PROVE  \E before, after \in SUBSET (Whole \ {0}), made \in SUBSET Below :
              Entered(before, after, made) /\ ReadAndMade(before, made)
<1>1. PICK before, after \in SUBSET (Whole \ {0}), made \in SUBSET Below :
        Entered(before, after, made)
  BY LoadStep
<1>2. ReadAndMade(before, made)
  BY <1>1, EnteredFacts
<1>3. QED BY <1>1, <1>2

(* While what was read is linked: what has no entry has no file, what is to be linked has a whole
   one, and all that has come back is to be linked.                                             *)
Read ==
    phase = "inject" =>
        /\ \A i \in Nodes : record[i] = "none" => files[i] = "none"
        /\ \A l \in loaded : files[l[1]] = "whole"
        /\ \A i \in Below : record[i] \in {"first", "second"} => \E l \in loaded : l[1] = i
        /\ "null" \notin held

(* If the root was not read, nothing is made until everything is linked. *)
Rootless ==
    phase \in {"inject", "init"} /\ record[0] = "none" =>
        /\ gone = {}
        /\ \A i \in Nodes : record[i] = "none" <=> files[i] = "none"
        /\ \A i \in Below : record[i] # "made"

(* What is whole was read, unless the root has made something; and then it has made one right
   below it.  What has no class has a file.                                                   *)
Skips ==
    phase \in {"inject", "init", "save"} =>
        /\ \/ \E t \in Top : t \notin gone /\ record[t] = "made"
           \/ /\ gone = {}
              /\ \A i \in Below : /\ record[i] # "made"
                                  /\ files[i] = "whole" => record[i] \in {"first", "second"}
        /\ \A i \in Nodes : record[i] = "bare" => files[i] # "none"

(* A list that has come back hangs where saving goes through it. *)
Listed ==
    phase \in {"init", "save"} =>
        \A i \in Below : path[i].walked /\ record[i] \in {"first", "second"} => links[i] # {}

LEMMA LoadReads == Types /\ Load => (Read /\ Rootless /\ Skips)'
<1> SUFFICES ASSUME Types, Load PROVE (Read /\ Rootless /\ Skips)' OBVIOUS
<1>1. PICK before, after \in SUBSET (Whole \ {0}), made \in SUBSET Below :
        Entered(before, after, made) /\ ReadAndMade(before, made)
  BY LoadFacts
<1>2. /\ files' = files /\ Nodes' = Nodes /\ Below' = Below /\ Top' = Top
      /\ path' = path /\ phase' = "inject"
  BY LoadStep, SamePath DEF Next
<1>3. "null" \notin held'
  <2>1. Given(made, Found(before)) \subseteq {"bare"} \cup Objects
    BY FoundEntries, GivenPointers DEF Entries, Objects
  <2>2. QED BY <1>1, <2>1 DEF Entered, Objects
<1>f. /\ \A i \in Nodes : /\ record'[i] = "none" => files[i] = "none"
                          /\ record'[i] = "bare" => files[i] # "none"
                          /\ files[i] = "none" /\ i \notin made => record'[i] = "none"
      /\ \A i \in Below : record'[i] = "made" => i \in made
      /\ made = {} =>
            gone' = {} /\ \A i \in Below : files[i] = "whole" => record'[i] = "first"
  BY <1>1 DEF ReadAndMade
<1>4. Read'
  BY <1>1, <1>2, <1>3 DEF ReadAndMade, Read
<1>5. Rootless'
  <2>1. ASSUME record'[0] = "none" PROVE made = {}
    <3>1. 0 \notin Whole
      BY <1>1, <2>1, PathShape DEF Entered, Types
    <3>2. QED BY <1>1, <3>1 DEF Entered, MadeBy
  <2>2. ASSUME made = {}
        PROVE  /\ gone' = {}
               /\ \A i \in Nodes : record'[i] = "none" <=> files[i] = "none"
               /\ \A i \in Below : record'[i] # "made"
    BY <1>f, <2>2
  <2>3. QED BY <1>2, <2>1, <2>2 DEF Rootless
<1>6. Skips'
  <2>1. CASE made = {}
    <3>1. /\ gone' = {}
          /\ \A i \in Below : /\ record'[i] # "made"
                              /\ files[i] = "whole" => record'[i] \in {"first", "second"}
          /\ \A i \in Nodes : record'[i] = "bare" => files[i] # "none"
      BY <1>f, <2>1
    <3>2. QED BY <1>2, <3>1 DEF Skips
  <2>2. CASE made # {}
    <3>1. PICK t \in Top : t \in made /\ files[t] = "none"
      BY <1>1, <2>2 DEF ReadAndMade
    <3>2. t \notin gone' /\ record'[t] = "made"
      BY <1>1, <3>1 DEF ReadAndMade, Top
    <3>3. QED BY <1>2, <1>f, <3>1, <3>2 DEF Skips
  <2>3. QED BY <2>1, <2>2
<1>7. QED BY <1>4, <1>5, <1>6

LEMMA StepReads ==
    Types /\ Read /\ Rootless /\ Skips /\ [Next]_vars => (Read /\ Rootless /\ Skips)'
<1> SUFFICES ASSUME Types, Read, Rootless, Skips, [Next]_vars PROVE (Read /\ Rootless /\ Skips)'
  OBVIOUS
<1>a. path' = path /\ Nodes' = Nodes /\ Below' = Below /\ Top' = Top
  BY SamePath
<1>1. CASE Load
  BY <1>1, LoadReads
<1>2. CASE Inject
  <2>1. /\ phase = "inject" /\ phase' = "init" /\ files' = files /\ gone' = {}
        /\ record' = [i \in Nodes |-> IF i \in gone THEN "none" ELSE record[i]]
    BY <1>2 DEF Inject
  <2>2. 0 \in Nodes /\ \A i \in Below : i \in Nodes /\ i # 0
    BY PathShape DEF Types
  <2>3. Rootless'
    <3>1. ASSUME record'[0] = "none"
          PROVE  record' = record /\ gone = {} /\ record[0] = "none"
      BY <2>1, <2>2, <3>1 DEF Types, Rootless
    <3>2. ASSUME record'[0] = "none"
          PROVE  /\ gone' = {}
                 /\ \A i \in Nodes : record'[i] = "none" <=> files'[i] = "none"
                 /\ \A i \in Below : record'[i] # "made"
      BY <2>1, <3>1, <3>2 DEF Rootless
    <3>3. QED BY <1>a, <3>2 DEF Rootless
  <2>4. Skips'
    <3>1. CASE \E t \in Top : t \notin gone /\ record[t] = "made"
      BY <1>a, <2>1, <2>2, <3>1 DEF Skips, Top
    <3>2. CASE ~ \E t \in Top : t \notin gone /\ record[t] = "made"
      <4>1. gone = {}
        BY <2>1, <3>2 DEF Skips
      <4>2. \A i \in Nodes : record'[i] = record[i]
        BY <2>1, <4>1
      <4>3. QED BY <1>a, <2>1, <2>2, <3>2, <4>2 DEF Skips
    <3>3. QED BY <3>1, <3>2
  <2>5. QED BY <2>1, <2>3, <2>4 DEF Read
<1>3. CASE MakeRoot
  <2>1. /\ phase = "init" /\ phase' = "save" /\ files' = files /\ gone' = gone
        /\ record' = [i \in Nodes |-> IF i \in MadeLast \/ (i = 0 /\ record[0] = "none")
                                      THEN "made" ELSE record[i]]
    BY <1>3 DEF MakeRoot
  <2>2. \A i \in Below : i \in Nodes /\ i # 0
    BY PathShape DEF Types
  <2>3. CASE MadeLast = {}
    <3>1. \A i \in Below : record'[i] = record[i]
      BY <2>1, <2>2, <2>3
    <3>2. QED BY <1>a, <2>1, <3>1 DEF Read, Rootless, Skips, Top
  <2>4. CASE MadeLast # {}
    <3>1. MadeLast = Missing(record) /\ gone = {}
      BY <2>1, <2>4 DEF MadeLast, Rootless
    <3>2. PICK t \in Top : t \in MadeLast
      BY <2>4, <3>1, TopMissing DEF Types
    <3>3. t \in Nodes /\ record'[t] = "made" /\ t \notin gone'
      BY <2>1, <2>2, <3>1, <3>2 DEF Top
    <3>4. QED BY <1>a, <2>1, <3>2, <3>3 DEF Read, Rootless, Skips
  <2>5. QED BY <2>3, <2>4
<1>4. CASE LoadFails \/ InjectFails \/ MakeRootFails
  <2>1. \A made, rec : Pushes(made, rec) \subseteq {"dead", "undefined", "linked"}
    BY DEF Pushes, Reached
  <2>2. QED
    BY <1>4, <2>1 DEF LoadFails, InjectFails, MakeRootFails, Read, Rootless, Skips
<1>5. CASE SaveAll \/ SaveFails \/ DeleteOne \/ DeleteEnd \/ Crash \/ SaveCut \/ WriteCut
  BY <1>5 DEF SaveAll, SaveFails, DeleteOne, DeleteEnd, Crash, SaveCut, WriteCut, Down, Read,
              Rootless, Skips
<1>6. CASE UNCHANGED vars
  BY <1>a, <1>6 DEF vars, Read, Rootless, Skips
<1>7. QED BY <1>1, <1>2, <1>3, <1>4, <1>5, <1>6 DEF Next

LEMMA StepListed == Types /\ Read /\ Listed /\ [Next]_vars => Listed'
<1> SUFFICES ASSUME Types, Read, Listed, [Next]_vars PROVE Listed' OBVIOUS
<1>a. path' = path /\ Below' = Below
  BY SamePath
<1>1. CASE Inject
  <2>1. ASSUME NEW i \in Below, path[i].walked, record'[i] \in {"first", "second"}
        PROVE  links'[i] # {}
    <3>1. i \in Nodes /\ path[i].bare = "undefined" /\ Up(i) \in Nodes
      BY <2>1, PathShape DEF Types
    <3>2. record[i] \in {"first", "second"}
      BY <1>1, <2>1, <3>1 DEF Inject
    <3>3. PICK l \in loaded : l[1] = i
      BY <1>1, <3>2 DEF Inject, Read
    <3>4. Up(i) \in Typed
      <4>1. Reached(record[Up(i)], "undefined") \in {"linked", "skip"}
        BY <1>1, <3>1, <3>3 DEF Inject, Outcomes, Outcome
      <4>2. QED BY <3>1, <4>1 DEF Reached, Typed, Types, Entries
    <3>5. PICK objects : objects = {k[2] : k \in {k \in loaded : k[1] = i}} /\ objects # {}
      BY <3>3
    <3>6. Linked(i) # {}
      <4>1. PICK latest :
              Linked(i) = IF path[i].adds THEN links[i] \cup ({path[i].found} \X objects)
                          ELSE {k \in links[i] : k[1] # path[i].found}
                               \cup {<<path[i].found, latest>>}
        BY <3>4, <3>5 DEF Linked
      <4>2. PICK object : object \in objects
        BY <3>5
      <4>3. <<path[i].found, object>> \in {path[i].found} \X objects
        BY <4>2
      <4>4. QED BY <4>1, <4>3
    <3>7. QED BY <1>1, <3>6 DEF Inject
  <2>2. QED BY <1>a, <2>1 DEF Listed
<1>2. CASE MakeRoot
  <2>1. ASSUME NEW i \in Below, path[i].walked, record'[i] \in {"first", "second"}
        PROVE  links'[i] # {}
    <3>1. i \in Nodes /\ i # 0 /\ i \notin Top
      BY <2>1, PathShape DEF Types
    <3>2. record[i] \in {"first", "second"} /\ phase = "init"
      BY <1>2, <2>1, <3>1 DEF MakeRoot
    <3>3. links[i] # {}
      BY <2>1, <3>2 DEF Listed
    <3>4. links'[i] = links[i] \/ links'[i] = Hung(i, "made")
      BY <1>2, <3>1 DEF MakeRoot
    <3>5. QED BY <3>3, <3>4 DEF Hung
  <2>2. QED BY <1>a, <2>1 DEF Listed
<1>3. CASE LoadFails \/ InjectFails \/ MakeRootFails
  <2>1. \A made, rec : Pushes(made, rec) \subseteq {"dead", "undefined", "linked"}
    BY DEF Pushes, Reached
  <2>2. QED BY <1>3, <2>1 DEF LoadFails, InjectFails, MakeRootFails, Listed
<1>4. CASE Load \/ SaveAll \/ SaveFails \/ DeleteOne \/ DeleteEnd \/ Crash \/ SaveCut \/ WriteCut
  BY <1>4 DEF Load, SaveAll, SaveFails, DeleteOne, DeleteEnd, Crash, SaveCut, WriteCut, Down,
              Listed
<1>5. CASE UNCHANGED vars
  BY <1>a, <1>5 DEF vars, Listed
<1>6. QED BY <1>1, <1>2, <1>3, <1>4, <1>5 DEF Next

-----------------------------------------------------------------------------
(* An account and its role.  The role is made with what is right below the  *)
(* root, unless that or the collection of the roles has an entry: then the  *)
(* root does not come to it.                                                *)
Barred(entries) == \E n \in {1, 4} : path[n].guarded /\ entries[n] # "none"

LEMMA RoleMissing ==
    ASSUME path \in Paths, Need("role") # {}, NEW entries
    PROVE  5 \in Missing(entries) <=> ~Barred(entries)
BY RoleShape DEF Missing, Barred

(* When the file of an account names no role, the role has no file and no start makes one: there
   was none when the account was made, and what kept the root from making it stays.            *)
Nameless ==
    Need("role") # {} /\ ~named =>
        /\ files[5] = "none" /\ Barred(files)
        /\ phase \in {"inject", "init", "save", "delete"} =>
              /\ record[5] = "none"
              /\ \E n \in {1, 4} : /\ path[n].guarded /\ record[n] # "none" /\ n \notin gone
                                   /\ phase = "delete" => files[n] # "none"

\* An account is made without a role where the root does not come to the role.
RoleLess ==
    phase \in {"inject", "init", "save"} /\ Need("role") # {}
    /\ record[3] = "made" /\ held \ {"null"} = {} =>
        /\ files[5] = "none" /\ record[5] = "none" /\ Barred(files)
        /\ record[1] = "made" /\ 1 \notin gone

\* An account has a null entry for its role only as long as that has no entry and no file.
RoleNull ==
    /\ phase \in {"init", "save", "delete"} /\ "null" \in held =>
          Need("role") # {} /\ record[5] = "none" /\ files[5] = "none"
    /\ phase = "init" /\ "null" \in held /\ record[0] = "none" => record[1] # "none"

Role == Nameless /\ RoleLess /\ RoleNull

(* What the root makes where there is no role. *)
LEMMA MadeRoleLess ==
    ASSUME path \in Paths, Need("role") # {}, NEW entries, NEW made, made = Missing(entries),
           3 \in made, Given(made, entries) = {}
    PROVE  entries[5] = "none" /\ 5 \notin made /\ Barred(entries)
<1>1. {Beyond(made, entries)} \ {"none"} = {}
  BY RoleShape DEF Given
<1>2. Beyond(made, entries) = "none"
  BY <1>1
<1>3. QED BY <1>2, RoleShape, RoleMissing DEF Beyond

LEMMA LoadRole == Types /\ Role /\ Load => Role'
<1> SUFFICES ASSUME Types, Role, Load PROVE Role' OBVIOUS
<1>a. phase' = "inject" /\ Need("role")' = Need("role")
  BY LoadStep, SamePath DEF Next
<1> SUFFICES ASSUME Need("role") # {} PROVE Nameless' /\ RoleLess'
  BY <1>a DEF Role, Nameless, RoleLess, RoleNull
<1>1. PICK before, after \in SUBSET (Whole \ {0}), made \in SUBSET Below :
        Entered(before, after, made) /\ ReadAndMade(before, made)
  BY LoadFacts
<1>2. /\ files' = files /\ named' = named /\ path' = path /\ phase' = "inject"
      /\ Need("role")' = Need("role")
  BY <1>a, LoadStep
<1>3. path \in Paths /\ Below = 1 .. 5 /\ 1 \in Nodes /\ 3 \in Nodes /\ 4 \in Nodes /\ 5 \in Nodes
  BY RoleShape, PathShape DEF Types
<1>4. /\ \A i \in Nodes : Found(before)[i] = "none" <=> files[i] = "none"
      /\ Barred(Found(before)) <=> Barred(files)
  BY <1>3, FoundEntries DEF Barred
<1>5. /\ \A i \in Nodes : /\ record'[i] = "none" => files[i] = "none"
                          /\ files[i] = "none" /\ i \notin made => record'[i] = "none"
      /\ \A i \in Below : /\ record'[i] = "made" => i \in made
                          /\ i \in made /\ files[i] = "none" => record'[i] = "made" /\ i \notin gone'
      /\ made = {} => gone' = {}
      /\ made # {} => /\ made = Missing(Found(before)) /\ made = Missing(files)
                      /\ \E t \in Top : t \in made /\ files[t] = "none"
  BY <1>1 DEF ReadAndMade
<1>6. ASSUME made # {} PROVE record'[1] = "made" /\ 1 \notin gone' /\ path[1].guarded
  <2>1. 1 \in made /\ files[1] = "none" /\ path[1].guarded
    BY <1>3, <1>5, <1>6, RoleShape
  <2>2. QED BY <1>3, <1>5, <2>1
<1>7. Nameless'
  <2>1. ASSUME ~named
        PROVE  /\ files[5] = "none" /\ Barred(files) /\ record'[5] = "none"
               /\ \E n \in {1, 4} : path[n].guarded /\ record'[n] # "none" /\ n \notin gone'
    <3>1. files[5] = "none" /\ Barred(files)
      BY <2>1 DEF Role, Nameless
    <3>2. 5 \notin made
      BY <1>3, <1>5, <3>1, RoleMissing
    <3>3. record'[5] = "none"
      BY <1>3, <1>5, <3>1, <3>2
    <3>4. CASE made = {}
      BY <1>3, <1>5, <3>1, <3>3, <3>4 DEF Barred
    <3>5. CASE made # {}
      BY <1>6, <3>1, <3>3, <3>5
    <3>6. QED BY <3>4, <3>5
  <2>2. Barred(files)' <=> Barred(files)
    BY <1>2 DEF Barred
  <2>3. QED BY <1>2, <2>1, <2>2 DEF Nameless
<1>8. RoleLess'
  <2>1. ASSUME record'[3] = "made", held' \ {"null"} = {}
        PROVE  /\ files[5] = "none" /\ record'[5] = "none" /\ Barred(files)
               /\ record'[1] = "made" /\ 1 \notin gone'
    <3>1. 3 \in made /\ made = Missing(Found(before))
      BY <1>3, <1>5, <2>1
    <3>2. held' = Given(made, Found(before))
      BY <1>1, <1>3, RoleShape DEF Entered
    <3>3. Given(made, Found(before)) \subseteq {"bare"} \cup Objects
      BY FoundEntries, GivenPointers DEF Entries, Objects
    <3>4. Given(made, Found(before)) = {}
      BY <2>1, <3>2, <3>3 DEF Objects
    <3>5. Found(before)[5] = "none" /\ 5 \notin made /\ Barred(Found(before))
      BY <1>3, <3>1, <3>4, MadeRoleLess
    <3>6. QED BY <1>3, <1>4, <1>5, <1>6, <3>1, <3>5
  <2>2. Barred(files)' <=> Barred(files)
    BY <1>2 DEF Barred
  <2>3. QED BY <1>2, <2>1, <2>2 DEF RoleLess
<1>9. QED BY <1>7, <1>8

LEMMA InjectRole == Types /\ Read /\ Rootless /\ Role /\ Inject => Role'
<1> SUFFICES ASSUME Types, Read, Rootless, Role, Inject PROVE Role' OBVIOUS
<1>1. /\ phase = "inject" /\ phase' = "init" /\ files' = files /\ named' = named
      /\ path' = path /\ gone' = {} /\ "null" \notin held
      /\ record' = [i \in Nodes |-> IF i \in gone THEN "none" ELSE record[i]]
  BY DEF Inject, Read
<1>2. Need("role")' = Need("role") /\ (Barred(files)' <=> Barred(files))
  BY <1>1 DEF Need, Below, Last, Barred
<1>3. \A object \in Pointers, isGone \in BOOLEAN :
         Kept(isGone, object) = "null" <=> object = "null"
  BY DEF Kept, Pointers, Objects
<1>4. RoleFound \in Pointers
  BY PathShape DEF RoleFound, Types, Entries, Pointers
<1>5. PICK loads : loads = [what \in {"role", "location"} |->
                               {l[2] : l \in {l \in loaded : path[l[1]].needs = what}}]
  OBVIOUS
<1>6. loads["role"] \subseteq Objects /\ loads["location"] \subseteq Objects
  BY <1>5 DEF Types
<1>7. HeldLinked = IF loads["role"] = {} THEN held \cup loads["location"]
                   ELSE IF \E i \in Need("role") : record[i] = "made"
                        THEN held \cup ({RoleFound} \cap {"null"}) ELSE {RoleFound}
  BY <1>5 DEF HeldLinked
<1>8. HeldLinked \subseteq Pointers
  BY <1>4, <1>6, <1>7 DEF Types, Pointers
<1>9. PICK isGone \in BOOLEAN : held' = {Kept(isGone, object) : object \in HeldLinked}
  BY DEF Inject
<1>10. "null" \in held' <=> "null" \in HeldLinked
  BY <1>3, <1>8, <1>9
<1>11. held' \ {"null"} = {} => HeldLinked \ {"null"} = {}
  BY <1>3, <1>8, <1>9
<1>12. ASSUME "null" \in held'
       PROVE  /\ Need("role") # {} /\ record[5] = "none" /\ files[5] = "none"
              /\ 3 \in {l[1] : l \in loaded}
  <2>1. loads["role"] # {} /\ RoleFound = "null"
    BY <1>1, <1>6, <1>7, <1>10, <1>12 DEF Objects
  <2>2. PICK l \in loaded : path[l[1]].needs = "role"
    BY <1>5, <2>1
  <2>3. l[1] \in Need("role")
    BY <2>2 DEF Need, Types
  <2>4. Last = 5 /\ 5 \in Nodes /\ l[1] = 3
    BY <2>3, RoleShape, PathShape DEF Types
  <2>5. record[5] \in Entries
    BY <2>4 DEF Types
  <2>6. record[5] = "none"
    <3>1. named => record[5] = "none"
      BY <2>1, <2>4, <2>5 DEF RoleFound, Entries, Objects
    <3>2. ~named => record[5] = "none"
      BY <1>1, <2>3 DEF Role, Nameless
    <3>3. QED BY <3>1, <3>2
  <2>7. QED BY <1>1, <2>3, <2>4, <2>6 DEF Read
<1>13. RoleNull'
  <2>1. ASSUME "null" \in held' PROVE record'[5] = "none"
    BY <1>1, <1>12, <2>1, RoleShape, PathShape DEF Types
  <2>2. ASSUME "null" \in held', record'[0] = "none" PROVE record'[1] # "none"
    <3>1. path \in Paths /\ Need("role") # {} /\ 0 \in Nodes /\ \A i \in Below : i # 0 /\ i \in Nodes
      BY <1>12, <2>2, PathShape DEF Types
    <3>2. record[0] = "none"
      BY <1>1, <2>2, <3>1 DEF Types
    <3>3. gone = {} /\ \A i \in Below : record[i] # "made"
      BY <1>1, <3>2 DEF Rootless
    <3>4. 1 \in Below /\ 2 \in Below /\ 3 \in Below /\ Up(2) = 1 /\ Up(3) = 2
          /\ path[3].bare = "undefined" /\ path[2].bare \in {"undefined", "skip"}
      BY <3>1, RoleShape, PathShape
    <3>5. PICK l \in loaded : l[1] = 3
      BY <1>12, <2>2
    <3>6. Reached(record[2], "undefined") \in {"linked", "skip"}
      <4>1. Outcome(3) \subseteq {"linked", "skip"}
        BY <3>5 DEF Inject, Outcomes
      <4>2. QED BY <3>4, <4>1 DEF Outcome
    <3>7. record[2] \in {"first", "second"}
      BY <3>1, <3>3, <3>4, <3>6 DEF Reached, Types, Entries, Objects
    <3>8. PICK k \in loaded : k[1] = 2
      BY <1>1, <3>4, <3>7 DEF Read
    <3>9. Reached(record[1], path[2].bare) \in {"linked", "skip"}
      BY <3>4, <3>8 DEF Inject, Outcomes, Outcome
    <3>10. record[1] # "none"
      BY <3>9 DEF Reached
    <3>11. QED BY <1>1, <3>1, <3>3, <3>4, <3>10
  <2>3. QED BY <1>1, <1>2, <1>12, <2>1, <2>2 DEF RoleNull
<1>14. Nameless'
  <2>1. ASSUME Need("role") # {}, ~named
        PROVE  /\ files[5] = "none" /\ Barred(files) /\ record'[5] = "none"
               /\ \E n \in {1, 4} : path[n].guarded /\ record'[n] # "none"
    <3>1. 1 \in Nodes /\ 4 \in Nodes /\ 5 \in Nodes
      BY <2>1, RoleShape, PathShape DEF Types
    <3>2. QED BY <1>1, <2>1, <3>1 DEF Role, Nameless
  <2>2. QED BY <1>1, <1>2, <2>1 DEF Nameless
<1>15. RoleLess'
  <2>1. ASSUME Need("role") # {}, record'[3] = "made", held' \ {"null"} = {}
        PROVE  /\ files[5] = "none" /\ record'[5] = "none" /\ Barred(files) /\ record'[1] = "made"
    <3>1. 1 \in Nodes /\ 3 \in Nodes /\ 5 \in Nodes /\ Need("role") = {3}
      BY <2>1, RoleShape, PathShape DEF Types
    <3>2. record[3] = "made"
      BY <1>1, <2>1, <3>1
    <3>3. held \ {"null"} = {}
      BY <1>7, <1>11, <2>1, <3>1, <3>2
    <3>4. QED BY <1>1, <2>1, <3>1, <3>2, <3>3 DEF Role, RoleLess
  <2>2. QED BY <1>1, <1>2, <2>1 DEF RoleLess
<1>16. QED BY <1>13, <1>14, <1>15 DEF Role

LEMMA MakeRole == Types /\ Rootless /\ Role /\ MakeRoot => Role'
<1> SUFFICES ASSUME Types, Rootless, Role, MakeRoot PROVE Role' OBVIOUS
<1>1. /\ phase = "init" /\ phase' = "save" /\ files' = files /\ named' = named
      /\ path' = path /\ gone' = gone
      /\ record' = [i \in Nodes |-> IF i \in MadeLast \/ (i = 0 /\ record[0] = "none")
                                    THEN "made" ELSE record[i]]
      /\ held' = IF MadeLast \cap (Need("role") \cup Need("location")) = {} THEN held
                 ELSE Given(MadeLast, record)
  BY DEF MakeRoot
<1>2. Need("role")' = Need("role") /\ (Barred(files)' <=> Barred(files))
  BY <1>1 DEF Need, Below, Last, Barred
<1>3. "null" \in held' => "null" \in held
  <2>1. "null" \notin Given(MadeLast, record)
    BY GivenPointers DEF Types, Objects
  <2>2. QED BY <1>1, <2>1
<1>4. CASE Need("role") = {}
  BY <1>1, <1>2, <1>3, <1>4 DEF Role, Nameless, RoleLess, RoleNull
<1>5. CASE Need("role") # {}
  <2>1. path \in Paths /\ 1 \in Nodes /\ 3 \in Nodes /\ 4 \in Nodes /\ 5 \in Nodes
        /\ 1 \in Below /\ 3 \in Below /\ 4 \in Below /\ 5 \in Below
    BY <1>5, RoleShape, PathShape DEF Types
  <2>2. Barred(record) => 5 \notin MadeLast
    BY <1>5, <2>1, RoleMissing DEF MadeLast
  <2>3. ASSUME MadeLast # {}
        PROVE  /\ record[0] = "none" /\ MadeLast = Missing(record)
               /\ record[3] # "made" /\ gone = {} /\ (Barred(record) <=> Barred(files))
               /\ \A i \in Nodes : record[i] = "none" <=> files[i] = "none"
               /\ 1 \in MadeLast /\ path[1].guarded /\ record[1] = "none"
    <3>1. record[0] = "none" /\ MadeLast = Missing(record)
      BY <2>3 DEF MadeLast
    <3>2. /\ record[3] # "made" /\ gone = {}
          /\ \A i \in Nodes : record[i] = "none" <=> files[i] = "none"
      BY <1>1, <2>1, <3>1 DEF Rootless
    <3>3. 1 \in MadeLast /\ record[1] = "none" /\ path[1].guarded
      BY <1>5, <2>1, <2>3, <3>1, TopMissing, RoleShape
    <3>4. QED BY <2>1, <3>1, <3>2, <3>3 DEF Barred
  <2>4. RoleNull'
    <3>1. ASSUME "null" \in held' PROVE record'[5] = "none" /\ files[5] = "none"
      <4>1. record[5] = "none" /\ files[5] = "none"
        BY <1>1, <1>3, <3>1 DEF Role, RoleNull
      <4>2. 5 \notin MadeLast
        <5>1. CASE MadeLast = {}
          BY <5>1
        <5>2. CASE MadeLast # {}
          BY <1>1, <1>3, <2>3, <3>1, <5>2 DEF Role, RoleNull
        <5>3. QED BY <5>1, <5>2
      <4>3. QED BY <1>1, <2>1, <4>1, <4>2
    <3>2. QED BY <1>1, <1>2, <1>5, <3>1 DEF RoleNull
  <2>5. Nameless'
    <3>1. ASSUME ~named
          PROVE  /\ files[5] = "none" /\ Barred(files) /\ record'[5] = "none"
                 /\ \E n \in {1, 4} : path[n].guarded /\ record'[n] # "none" /\ n \notin gone
      <4>1. /\ files[5] = "none" /\ Barred(files) /\ record[5] = "none"
            /\ \E n \in {1, 4} : path[n].guarded /\ record[n] # "none" /\ n \notin gone
        BY <1>1, <1>5, <3>1 DEF Role, Nameless
      <4>2. 5 \notin MadeLast
        BY <2>2, <4>1 DEF Barred
      <4>3. \A n \in {1, 4} : record[n] # "none" => record'[n] # "none"
        BY <1>1, <2>1
      <4>4. record'[5] = "none"
        BY <1>1, <2>1, <4>1, <4>2
      <4>5. QED BY <4>1, <4>3, <4>4
    <3>2. QED BY <1>1, <1>2, <3>1 DEF Nameless
  <2>6. RoleLess'
    <3>1. ASSUME record'[3] = "made", held' \ {"null"} = {}
          PROVE  /\ files[5] = "none" /\ record'[5] = "none" /\ Barred(files)
                 /\ record'[1] = "made" /\ 1 \notin gone
      <4>1. CASE MadeLast = {}
        <5>1. record[3] = "made" /\ held' = held /\ record'[5] = record[5]
              /\ record'[1] = record[1]
          BY <1>1, <2>1, <3>1, <4>1
        <5>2. QED BY <1>1, <1>5, <3>1, <5>1 DEF Role, RoleLess
      <4>2. CASE MadeLast # {}
        <5>1. 3 \in MadeLast
          BY <1>1, <2>1, <2>3, <3>1, <4>2
        <5>2. held' = Given(MadeLast, record)
          BY <1>1, <1>5, <5>1, RoleShape DEF Types
        <5>3. Given(MadeLast, record) = {}
          BY <3>1, <5>2, GivenPointers DEF Types, Objects
        <5>4. record[5] = "none" /\ 5 \notin MadeLast /\ Barred(record)
          BY <1>5, <2>1, <2>3, <4>2, <5>1, <5>3, MadeRoleLess
        <5>5. QED BY <1>1, <2>1, <2>3, <4>2, <5>4
      <4>3. QED BY <4>1, <4>2
    <3>2. QED BY <1>1, <1>2, <3>1 DEF RoleLess
  <2>7. QED BY <2>4, <2>5, <2>6 DEF Role
<1>6. QED BY <1>4, <1>5

\* What a save that may be cut leaves: what has no entry keeps its file as it is, and what has one
\* has a file at least if it had one.
LEMMA SaveRole ==
    ASSUME Types, Role, phase = "save", Need("role") # {},
           NEW done \in SUBSET Typed, named' = NamedAfter(done),
           \A i \in Nodes : /\ record[i] = "none" => files'[i] = files[i]
                            /\ files[i] # "none" => files'[i] # "none"
    PROVE  ~named' => /\ files'[5] = "none" /\ Barred(files') /\ record[5] = "none"
                      /\ \E n \in {1, 4} : path[n].guarded /\ record[n] # "none" /\ n \notin gone
<1>1. 1 \in Nodes /\ 4 \in Nodes /\ 5 \in Nodes /\ Need("role") = {3} /\ path[1].guarded
  BY RoleShape, PathShape DEF Types
<1>2. ASSUME files[5] = "none", Barred(files), record[5] = "none"
      PROVE  files'[5] = "none" /\ Barred(files')
  BY <1>1, <1>2 DEF Barred
<1>3. CASE \E i \in done \cap Need("role") : record[i] = "made"
  <2>1. ASSUME ~named'
        PROVE  /\ files[5] = "none" /\ record[5] = "none" /\ Barred(files)
               /\ record[1] = "made" /\ 1 \notin gone
    <3>1. record[3] = "made" /\ held \ {"null"} = {}
      BY <1>1, <1>3, <2>1 DEF NamedAfter
    <3>2. QED BY <3>1 DEF Role, RoleLess
  <2>2. QED BY <1>1, <1>2, <2>1
<1>4. CASE ~ \E i \in done \cap Need("role") : record[i] = "made"
  <2>1. named' = named
    BY <1>4 DEF NamedAfter
  <2>2. QED BY <1>2, <2>1 DEF Role, Nameless
<1>5. QED BY <1>3, <1>4

LEMMA StepRole ==
    Types /\ Saved /\ Read /\ Rootless /\ Skips /\ Role /\ [Next]_vars => Role'
<1> SUFFICES ASSUME Types, Saved, Read, Rootless, Skips, Role, [Next]_vars PROVE Role' OBVIOUS
<1>a. path' = path /\ Nodes' = Nodes /\ Need("role")' = Need("role")
  BY SamePath
<1>b. Need("role") # {} => 1 \in Nodes /\ 4 \in Nodes /\ 5 \in Nodes
  BY RoleShape, PathShape DEF Types
<1>c. Barred(files)' <=> Barred(files')
  BY <1>a DEF Barred
<1>1. CASE Load
  BY <1>1, LoadRole
<1>2. CASE Inject
  BY <1>2, InjectRole
<1>3. CASE MakeRoot
  BY <1>3, MakeRole
<1>4. ASSUME phase' \in {"down", "run", "dead", "undefined"},
             ~named' /\ Need("role") # {} => files'[5] = "none" /\ Barred(files')
      PROVE  Role'
  BY <1>a, <1>c, <1>4 DEF Role, Nameless, RoleLess, RoleNull
<1>5. ASSUME phase' \in {"down", "run", "dead", "undefined"}, UNCHANGED <<files, named>>
      PROVE  Role'
  <2>1. ~named' /\ Need("role") # {} => files'[5] = "none" /\ Barred(files')
    BY <1>5 DEF Role, Nameless
  <2>2. QED BY <1>4, <1>5, <2>1
<1>6. CASE LoadFails \/ InjectFails \/ MakeRootFails
  <2>1. \A made, rec : Pushes(made, rec) \subseteq {"dead", "undefined", "linked"}
    BY DEF Pushes, Reached
  <2>2. QED BY <1>5, <1>6, <2>1 DEF LoadFails, InjectFails, MakeRootFails
<1>7. CASE SaveAll
  <2>1. /\ phase = "save" /\ phase' = "delete" /\ named' = NamedAfter(Typed)
        /\ files' = [i \in Nodes |-> IF i \in Typed THEN "whole" ELSE files[i]]
        /\ UNCHANGED <<record, gone, held>>
    BY <1>7 DEF SaveAll, Save
  <2>2. \A i \in Nodes : /\ record[i] = "none" => files'[i] = files[i]
                         /\ files[i] # "none" => files'[i] # "none"
                         /\ record[i] # "none" => files'[i] # "none"
    BY <2>1 DEF Typed, Types, Entries, Objects, Skips
  <2>3. RoleNull'
    BY <1>a, <1>b, <2>1, <2>2 DEF Role, RoleNull
  <2>4. Nameless'
    <3>1. ASSUME Need("role") # {}, ~named'
          PROVE  /\ files'[5] = "none" /\ Barred(files') /\ record[5] = "none"
                 /\ \E n \in {1, 4} : path[n].guarded /\ record[n] # "none" /\ n \notin gone
      BY <2>1, <2>2, <3>1, SaveRole
    <3>2. QED BY <1>a, <1>b, <1>c, <2>1, <2>2, <3>1 DEF Nameless
  <2>5. QED BY <2>1, <2>3, <2>4 DEF Role, RoleLess
<1>8. CASE SaveFails \/ SaveCut
  <2>1. PICK done \in SUBSET Typed :
          /\ phase = "save" /\ named' = NamedAfter(done)
          /\ phase' \in {"dead", "undefined", "down"}
          /\ \A i \in Nodes : files'[i] = files[i] \/ (i \in Typed /\ files'[i] # "none")
    <3>1. Savable \subseteq Typed
      BY DEF Savable
    <3>2. CASE SaveFails
      <4>1. PICK done \in SUBSET Savable : Save(done)
        BY <3>2 DEF SaveFails
      <4>2. \A i \in Nodes : files'[i] = files[i] \/ (i \in Typed /\ files'[i] # "none")
        BY <3>1, <4>1 DEF Save
      <4>3. QED BY <3>1, <3>2, <4>1, <4>2 DEF SaveFails, Save
    <3>3. CASE SaveCut
      <4>1. PICK done \in SUBSET Savable : \E open \in {{}} \cup {{i} : i \in Savable \ done} :
              /\ files' = [i \in Nodes |-> IF i \in done THEN "whole"
                                           ELSE IF i \in open THEN "torn" ELSE files[i]]
              /\ named' = NamedAfter(done)
        BY <3>3 DEF SaveCut
      <4>2. \A i \in Nodes : files'[i] = files[i] \/ (i \in Typed /\ files'[i] # "none")
        BY <3>1, <4>1
      <4>3. QED BY <3>1, <3>3, <4>1, <4>2 DEF SaveCut, Down
    <3>4. QED BY <1>8, <3>2, <3>3
  <2>2. \A i \in Nodes : /\ record[i] = "none" => files'[i] = files[i]
                         /\ files[i] # "none" => files'[i] # "none"
    BY <2>1 DEF Typed, Objects
  <2>3. ~named' /\ Need("role") # {} => files'[5] = "none" /\ Barred(files')
    BY <2>1, <2>2, SaveRole
  <2>4. QED BY <1>4, <2>1, <2>3
<1>9. CASE DeleteOne
  <2>1. PICK i \in Orphans : files' = [files EXCEPT ![i] = "none"]
    BY <1>9 DEF DeleteOne
  <2>2. /\ phase = "delete" /\ phase' = "delete" /\ UNCHANGED <<record, gone, held, named>>
        /\ \A n \in Nodes : files[n] = "none" \/ record[n] # "none" => files'[n] = files[n]
    BY <1>9, <2>1 DEF DeleteOne, Orphans, Types
  <2>3. RoleNull'
    BY <1>a, <1>b, <2>2 DEF Role, RoleNull
  <2>4. Nameless'
    <3>1. ASSUME Need("role") # {}, ~named
          PROVE  /\ files'[5] = "none" /\ record[5] = "none"
                 /\ \E n \in {1, 4} : /\ path[n].guarded /\ record[n] # "none" /\ n \notin gone
                                      /\ files'[n] # "none"
      BY <1>b, <2>2, <3>1 DEF Role, Nameless
    <3>2. QED BY <1>a, <1>c, <2>2, <3>1 DEF Nameless, Barred
  <2>5. QED BY <2>2, <2>3, <2>4 DEF Role, RoleLess
<1>10. CASE DeleteEnd \/ Crash
  BY <1>5, <1>10 DEF DeleteEnd, Crash, Down
<1>11. CASE WriteCut
  <2>1. PICK i \in Typed : files' = [files EXCEPT ![i] = "torn"]
    BY <1>11 DEF WriteCut
  <2>2. files[i] = "whole" /\ phase' = "down" /\ named' = named
    BY <1>11 DEF WriteCut, Down, Saved
  <2>3. \A n \in Nodes : files'[n] = "none" <=> files[n] = "none"
    BY <2>1, <2>2 DEF Types
  <2>4. ~named /\ Need("role") # {} => files'[5] = "none" /\ Barred(files')
    BY <1>b, <2>3 DEF Role, Nameless, Barred
  <2>5. QED BY <1>4, <2>2, <2>4
<1>12. CASE UNCHANGED vars
  BY <1>a, <1>c, <1>12 DEF vars, Role, Nameless, RoleLess, RoleNull
<1>13. QED
  BY <1>1, <1>2, <1>3, <1>6, <1>7, <1>8, <1>9, <1>10, <1>11, <1>12 DEF Next

-----------------------------------------------------------------------------
(* What a start dies of. *)

\* The first certificate is to be put in a location that is not there.
LEMMA PushDead ==
    ASSUME path \in Paths, NEW made, NEW rec, made = {} \/ made = Missing(rec),
           "dead" \in Pushes(made, rec)
    PROVE  rec[Last] = "none" /\ Last \notin made /\ made \cap Need("location") # {}
           /\ made = Missing(rec)
BY DEF Pushes, Reached, Beyond

\* An entry is missing that is gone to for what was read.
LEMMA LinkDead ==
    ASSUME Types, "dead" \in Outcomes
    PROVE  \E l \in loaded : \/ record[Up(l[1])] = "none"
                             \/ path[l[1]].entry /\ record[Up(Up(l[1]))] = "none"
                             \/ path[l[1]].needs = "location" /\ record[Last] = "none"
<1>1. PICK l \in loaded : "dead" \in Outcome(l[1])
  BY DEF Outcomes
<1>2. path[l[1]].bare # "dead"
  BY PathShape DEF Types
<1>3. QED BY <1>1, <1>2 DEF Outcome, Reached

LEMMA StepDead ==
    Types /\ Read /\ Rootless /\ Skips /\ Listed /\ Role /\ DeadHasHole /\ [Next]_vars
        => DeadHasHole'
<1> SUFFICES ASSUME Types, Read, Rootless, Skips, Listed, Role, DeadHasHole, [Next]_vars,
                    phase' = "dead"
             PROVE  DeadHasHole'
  BY DEF DeadHasHole
<1>a. /\ path' = path /\ Nodes' = Nodes /\ Below' = Below /\ Top' = Top /\ Last' = Last
      /\ Need("role")' = Need("role") /\ Need("location")' = Need("location")
      /\ \A i \in Below : Up(i)' = Up(i) /\ Up(Up(i))' = Up(Up(i))
  BY SamePath DEF Up
<1>b. path \in Paths /\ Last \in Below /\ \A i \in Below : i \in Nodes
  BY PathShape DEF Types
<1>c. Missing(files)' = Missing(files')
  BY <1>a DEF Missing, Line
<1>1. ASSUME files' = files, NEW rec, NEW made, made = {} \/ made = Missing(rec),
             \A i \in Nodes : rec[i] = "none" <=> files[i] = "none", "dead" \in Pushes(made, rec)
      PROVE  DeadHasHole'
  <2>1. rec[Last] = "none" /\ Last \notin made /\ made \cap Need("location") # {}
        /\ made = Missing(rec)
    BY <1>b, <1>1, PushDead
  <2>2. made = Missing(files)
    BY <1>b, <1>1, <2>1, SameMissing
  <2>3. QED BY <1>a, <1>b, <1>c, <1>1, <2>1, <2>2 DEF DeadHasHole
<1>2. CASE LoadFails
  <2>1. PICK before \in SUBSET (Whole \ {0}) :
          "dead" \in Pushes(MadeBy(Found(before)), Found(before))
    BY <1>2 DEF LoadFails
  <2>2. files' = files
    BY <1>2 DEF LoadFails
  <2>3. \A i \in Nodes : Found(before)[i] = "none" <=> files[i] = "none"
    BY FoundEntries
  <2>4. MadeBy(Found(before)) = {} \/ MadeBy(Found(before)) = Missing(Found(before))
    BY DEF MadeBy
  <2>5. QED BY <1>1, <2>1, <2>2, <2>3, <2>4
<1>3. CASE MakeRootFails
  <2>1. phase = "init" /\ "dead" \in Pushes(MadeLast, record) /\ files' = files
    BY <1>3 DEF MakeRootFails
  <2>2. MadeLast = {} \/ MadeLast = Missing(record)
    BY DEF MadeLast
  <2>3. \A i \in Nodes : record[i] = "none" <=> files[i] = "none"
    <3>1. MadeLast # {}
      BY <2>1 DEF Pushes
    <3>2. QED BY <2>1, <3>1 DEF MadeLast, Rootless
  <2>4. QED BY <1>1, <2>1, <2>2, <2>3
<1>4. CASE InjectFails
  <2>1. phase = "inject" /\ "dead" \in Outcomes /\ files' = files
    BY <1>4 DEF InjectFails
  <2>2. PICK l \in loaded : \/ record[Up(l[1])] = "none"
                            \/ path[l[1]].entry /\ record[Up(Up(l[1]))] = "none"
                            \/ path[l[1]].needs = "location" /\ record[Last] = "none"
    BY <2>1, LinkDead
  <2>3. l[1] \in Below /\ files[l[1]] = "whole"
    BY <2>1 DEF Types, Read
  <2>4. \/ files[Up(l[1])] = "none"
        \/ path[l[1]].entry /\ files[Up(Up(l[1]))] = "none"
        \/ path[l[1]].needs = "location" /\ files[Last] = "none"
    BY <1>b, <2>1, <2>2, <2>3, PathShape DEF Types, Read
  <2>5. LinkHole
    BY <2>3, <2>4 DEF LinkHole
  <2>6. LinkHole'
    BY <1>a, <2>1, <2>5 DEF LinkHole
  <2>7. QED BY <2>6 DEF DeadHasHole
<1>5. CASE SaveFails
  <2>1. Doomed # {} /\ phase = "save" /\ record' = record
    BY <1>5 DEF SaveFails
  <2>2. PICK done \in SUBSET Savable :
          files' = [i \in Nodes |-> IF i \in done THEN "whole" ELSE files[i]]
    BY <1>5 DEF SaveFails, Save
  <2>3. PICK c \in Below : Up(c) \in Typed /\ path[c].walked /\ links[c] = {}
    BY <2>1 DEF Doomed
  <2>4. record[c] \notin {"first", "second"}
    BY <2>1, <2>3 DEF Listed
  <2>5. files'[c] # "whole" \/ \E t \in Top : record[t] = "made"
    <3>1. CASE \E t \in Top : record[t] = "made"
      BY <3>1
    <3>2. CASE ~ \E t \in Top : record[t] = "made"
      <4>1. record[c] # "made" /\ files[c] # "whole"
        BY <2>1, <2>4, <3>2 DEF Skips
      <4>2. c \notin done
        BY <2>4, <4>1 DEF Savable, Typed, Objects
      <4>3. QED BY <1>b, <2>2, <4>1, <4>2
    <3>3. QED BY <3>1, <3>2
  <2>6. Typed' = Typed
    BY <1>a, <2>1 DEF Typed
  <2>7. QED BY <1>a, <2>1, <2>3, <2>4, <2>5, <2>6 DEF DeadHasHole
<1>6. CASE DeleteEnd
  <2>1. phase = "delete" /\ "null" \in held /\ files' = files
    BY <1>6 DEF DeleteEnd
  <2>2. Need("role") # {} /\ files[Last] = "none"
    BY <1>b, <2>1, RoleShape DEF Role, RoleNull
  <2>3. QED BY <1>a, <2>1, <2>2 DEF DeadHasHole
<1>7. CASE UNCHANGED vars
  <2>1. phase = "dead" /\ files' = files /\ record' = record
    BY <1>7 DEF vars
  <2>2. /\ Missing(files)' = Missing(files) /\ Typed' = Typed /\ (LinkHole' <=> LinkHole)
    BY <1>a, <1>c, <2>1 DEF Typed, LinkHole
  <2>3. QED BY <1>a, <2>1, <2>2 DEF DeadHasHole
<1>8. QED
  BY <1>2, <1>3, <1>4, <1>5, <1>6, <1>7
     DEF Next, Load, Inject, MakeRoot, SaveAll, DeleteOne, Crash, SaveCut, WriteCut, Down

Reasons == Types /\ Saved /\ Read /\ Rootless /\ Skips /\ Listed /\ Role

LEMMA InitReasons == Init => Reasons
BY InitTypes DEF Init, Reasons, Saved, Read, Rootless, Skips, Listed, Role, Nameless, RoleLess,
                 RoleNull

LEMMA StepReasons == Reasons /\ [Next]_vars => Reasons'
BY StepTypes, StepSaved, StepReads, StepListed, StepRole DEF Reasons

(* A start dies on a null pointer only of a missing file that it goes to for a whole one, of a list
   that was not read, of a missing location of certificates where a certificate is made, or of a
   missing role (record_load_json, dependency_injection, init_account_service, get_json,
   synchronize_dir_list). *)
THEOREM DeadCorrect == Spec => []DeadHasHole
<1>1. Init => Reasons /\ DeadHasHole
  BY InitReasons DEF Init, DeadHasHole
<1>2. Reasons /\ DeadHasHole /\ [Next]_vars => (Reasons /\ DeadHasHole)'
  BY StepReasons, StepDead DEF Reasons
<1>3. QED BY <1>1, <1>2, PTL DEF Spec

-----------------------------------------------------------------------------
(* Holes that no start fills: all that is right below the root has its      *)
(* file, so that nothing is made.                                           *)
TopsThere == \A t \in Top : files[t] # "none"

\* No start comes further than linking, and it does not get through that.
LinkStuck ==
    /\ TopsThere /\ LinkHole
    /\ phase \in {"down", "inject", "dead", "undefined"}
    /\ phase = "inject" => "dead" \in Outcomes

\* No start comes further than saving: what is above the list is there and the list is not.
ListStuck ==
    /\ TopsThere
    /\ phase \in {"down", "inject", "init", "save", "dead", "undefined"}
    /\ \E i \in Below :
          /\ path[i].walked /\ files[Up(i)] = "whole" /\ files[i] # "whole"
          /\ phase \in {"inject", "init", "save"} =>
                /\ Up(i) \in Typed /\ links[i] = {} /\ i \notin Typed
                /\ gone = {} /\ \A t \in Top : record[t] # "none"
          /\ phase = "inject" => \A l \in loaded : l[1] # i

\* With all of the top there, a start has read every file, once, and made nothing.
LEMMA LoadAll ==
    ASSUME Types, Load, TopsThere
    PROVE  /\ gone' = {} /\ \A i \in Below : links'[i] = {}
           /\ \A i \in Nodes : record'[i] = "none" <=> files[i] = "none"
           /\ \A i \in Below : /\ record'[i] # "made"
                               /\ files[i] = "whole" =>
                                     record'[i] = "first" /\ \A x : <<i, x>> \in loaded' <=> x = "first"
                               /\ files[i] # "whole" =>
                                     i \notin Typed' /\ \A l \in loaded' : l[1] # i
<1>1. PICK before, after \in SUBSET (Whole \ {0}), made \in SUBSET Below :
        Entered(before, after, made) /\ ReadAndMade(before, made)
  BY LoadFacts
<1>2. made = {}
  <2>1. made # {} => \E t \in Top : files[t] = "none"
    BY <1>1 DEF ReadAndMade
  <2>2. QED BY <2>1 DEF TopsThere
<1>3. gone' = {} /\ \A i \in Below : links'[i] = {}
  BY <1>1, <1>2 DEF Entered
<1>4. /\ \A i \in Nodes : record'[i] = "none" <=> files[i] = "none"
      /\ \A i \in Below : /\ record'[i] # "made"
                          /\ record'[i] \in {"first", "second"} => \E l \in loaded' : l[1] = i
                          /\ files[i] = "whole" =>
                                record'[i] = "first" /\ \A x : <<i, x>> \in loaded' <=> x = "first"
      /\ \A l \in loaded' : files[l[1]] = "whole"
  <2>1. /\ \A i \in Nodes : /\ record'[i] = "none" => files[i] = "none"
                            /\ files[i] = "none" /\ i \notin made => record'[i] = "none"
        /\ \A i \in Below : /\ record'[i] = "made" => i \in made
                            /\ record'[i] \in {"first", "second"} => \E l \in loaded' : l[1] = i
        /\ made = {} =>
              \A i \in Below : files[i] = "whole" =>
                 record'[i] = "first" /\ \A x : <<i, x>> \in loaded' <=> x = "first"
        /\ \A l \in loaded' : files[l[1]] = "whole"
    BY <1>1 DEF ReadAndMade
  <2>2. QED BY <1>2, <2>1
<1>5. Nodes' = Nodes
  BY LoadStep DEF Nodes, Last
<1>6. \A i \in Below : files[i] # "whole" => i \notin Typed' /\ \A l \in loaded' : l[1] # i
  BY <1>4, <1>5 DEF Typed, Objects
<1>7. QED BY <1>3, <1>4, <1>6

LEMMA LoadLinkStuck == Types /\ LinkStuck /\ Load => "dead" \in Outcomes'
<1> SUFFICES ASSUME Types, LinkStuck, Load PROVE "dead" \in Outcomes' OBVIOUS
<1>1. PICK i \in Below :
        files[i] = "whole" /\ \/ files[Up(i)] = "none"
                              \/ path[i].entry /\ files[Up(Up(i))] = "none"
                              \/ path[i].needs = "location" /\ files[Last] = "none"
  BY DEF LinkStuck, LinkHole
<1>2. TopsThere
  BY DEF LinkStuck
<1>3. /\ \A n \in Nodes : files[n] = "none" => record'[n] = "none"
      /\ <<i, "first">> \in loaded'
  BY <1>1, <1>2, LoadAll
<1>4. \/ record'[Up(i)] = "none"
      \/ path[i].entry /\ record'[Up(Up(i))] = "none"
      \/ path[i].needs = "location" /\ record'[Last] = "none"
  BY <1>1, <1>3, PathShape DEF Types
<1>5. path' = path /\ Up(i)' = Up(i) /\ Up(Up(i))' = Up(Up(i)) /\ Last' = Last
  BY LoadStep DEF Up, Last
<1>6. "dead" \in Outcome(i)'
  BY <1>4, <1>5 DEF Outcome, Reached
<1>7. QED BY <1>3, <1>6 DEF Outcomes

LEMMA StepLinkStuck == Types /\ LinkStuck /\ [Next]_vars => LinkStuck'
<1> SUFFICES ASSUME Types, LinkStuck, [Next]_vars PROVE LinkStuck' OBVIOUS
<1>1. /\ path' = path /\ Below' = Below /\ Top' = Top /\ Last' = Last
      /\ \A i \in Below : Up(i)' = Up(i) /\ Up(Up(i))' = Up(Up(i))
  BY SamePath DEF Up
<1>2. ASSUME files' = files PROVE TopsThere' /\ LinkHole'
  BY <1>1, <1>2 DEF LinkStuck, TopsThere, LinkHole
<1>3. CASE Load
  BY <1>2, <1>3, LoadLinkStuck, LoadStep DEF LinkStuck
<1>4. CASE LoadFails \/ InjectFails
  <2>1. \A made, rec : Pushes(made, rec) \subseteq {"dead", "undefined", "linked"}
    BY DEF Pushes, Reached
  <2>2. QED BY <1>2, <1>4, <2>1 DEF LoadFails, InjectFails, LinkStuck
<1>5. CASE Crash
  BY <1>2, <1>5 DEF Crash, Down, LinkStuck
<1>6. CASE Inject \/ MakeRoot \/ MakeRootFails \/ SaveAll \/ SaveFails \/ DeleteOne \/ DeleteEnd
           \/ SaveCut \/ WriteCut
  BY <1>6 DEF Inject, MakeRoot, MakeRootFails, SaveAll, SaveFails, DeleteOne, DeleteEnd, SaveCut,
              WriteCut, LinkStuck
<1>7. CASE UNCHANGED vars
  <2>1. Outcomes' = Outcomes
    BY <1>7 DEF vars, Outcomes, Outcome, Up, Last
  <2>2. QED BY <1>2, <1>7, <2>1 DEF vars, LinkStuck
<1>8. QED BY <1>3, <1>4, <1>5, <1>6, <1>7 DEF Next

LEMMA StepListStuck == Types /\ ListStuck /\ [Next]_vars => ListStuck'
<1> SUFFICES ASSUME Types, ListStuck, [Next]_vars PROVE ListStuck' OBVIOUS
<1>a. /\ path' = path /\ Nodes' = Nodes /\ Below' = Below /\ Top' = Top
      /\ \A i \in Below : Up(i)' = Up(i)
  BY SamePath DEF Up
<1>b. 0 \in Nodes /\ \A i \in Below : i \in Nodes /\ i # 0 /\ Up(i) \in Nodes
                                      /\ path[i] \in Children
  BY PathShape DEF Types
<1>1. PICK i \in Below :
        /\ path[i].walked /\ files[Up(i)] = "whole" /\ files[i] # "whole"
        /\ phase \in {"inject", "init", "save"} =>
              /\ Up(i) \in Typed /\ links[i] = {} /\ i \notin Typed
              /\ gone = {} /\ \A t \in Top : record[t] # "none"
        /\ phase = "inject" => \A l \in loaded : l[1] # i
  BY DEF ListStuck
<1>2. i \notin Top /\ Up(i) \in Below
  <2>1. i \notin Top
    BY <1>1, PathShape DEF Types
  <2>2. QED BY <1>b, <2>1, PathShape DEF Top, Nodes, Below, Types
<1>3. ASSUME files' = files PROVE TopsThere' /\ files'[Up(i)] = "whole" /\ files'[i] # "whole"
  BY <1>a, <1>1, <1>3 DEF ListStuck, TopsThere
<1>4. CASE Load
  <2>1. TopsThere
    BY DEF ListStuck
  <2>2. /\ gone' = {} /\ links'[i] = {} /\ i \notin Typed' /\ record'[Up(i)] = "first"
        /\ (\A l \in loaded' : l[1] # i) /\ \A t \in Top : record'[t] # "none"
    BY <1>b, <1>1, <1>2, <1>4, <2>1, LoadAll DEF TopsThere, Top
  <2>3. Up(i) \in Typed'
    BY <1>a, <1>b, <2>2 DEF Typed, Objects
  <2>4. phase' = "inject" /\ files' = files
    BY <1>4, LoadStep
  <2>5. QED BY <1>a, <1>1, <1>3, <2>2, <2>3, <2>4 DEF ListStuck
<1>5. CASE Inject
  <2>1. /\ phase = "inject" /\ phase' = "init" /\ files' = files /\ gone' = {} /\ gone = {}
        /\ \A n \in Nodes : record'[n] = record[n]
    BY <1>1, <1>5 DEF Inject
  <2>2. links'[i] = {}
    <3>1. {l[2] : l \in {l \in loaded : l[1] = i}} = {}
      BY <1>1, <2>1
    <3>2. Linked(i) = {}
      BY <1>1, <2>1, <3>1 DEF Linked
    <3>3. QED BY <1>5, <3>2 DEF Inject
  <2>3. Typed' = Typed
    BY <1>a, <2>1 DEF Typed
  <2>4. \A t \in Top : record'[t] # "none"
    BY <1>b, <1>1, <2>1 DEF Top
  <2>5. QED BY <1>a, <1>1, <1>3, <2>1, <2>2, <2>3, <2>4 DEF ListStuck
<1>6. CASE MakeRoot
  <2>1. phase = "init" /\ phase' = "save" /\ files' = files /\ gone' = gone
    BY <1>6 DEF MakeRoot
  <2>2. MadeLast = {}
    BY <1>1, <2>1, TopMissing DEF MadeLast, Types
  <2>3. links'[i] = {} /\ \A n \in Below : record'[n] = record[n]
    BY <1>b, <1>1, <1>2, <1>6, <2>1, <2>2 DEF MakeRoot
  <2>4. Up(i) \in Typed' /\ i \notin Typed' /\ \A t \in Top : record'[t] # "none"
    BY <1>a, <1>b, <1>1, <1>2, <2>1, <2>3 DEF Typed, Top
  <2>5. QED BY <1>a, <1>1, <1>3, <2>1, <2>3, <2>4 DEF ListStuck
<1>7. phase = "save" => Up(i) \in Doomed /\ i \notin Savable /\ Up(i) \notin Savable
  BY <1>1 DEF Doomed, Savable
<1>8. ASSUME phase = "save", phase' \in {"dead", "undefined", "down"},
             \A n \in Nodes : files'[n] = files[n] \/ (n \in Savable /\ files'[n] # "none")
      PROVE  ListStuck'
  <2>1. files'[Up(i)] = "whole" /\ files'[i] # "whole"
    BY <1>b, <1>1, <1>7, <1>8
  <2>2. TopsThere'
    BY <1>a, <1>b, <1>8 DEF ListStuck, TopsThere, Top
  <2>3. QED BY <1>a, <1>1, <1>8, <2>1, <2>2 DEF ListStuck
<1>9. CASE SaveFails
  <2>1. PICK done \in SUBSET Savable : Save(done)
    BY <1>9 DEF SaveFails
  <2>2. \A n \in Nodes : files'[n] = files[n] \/ (n \in Savable /\ files'[n] # "none")
    BY <2>1 DEF Save
  <2>3. QED BY <1>8, <1>9, <2>2 DEF SaveFails
<1>10. CASE SaveCut
  <2>1. PICK done \in SUBSET Savable : \E open \in {{}} \cup {{n} : n \in Savable \ done} :
          files' = [n \in Nodes |-> IF n \in done THEN "whole"
                                    ELSE IF n \in open THEN "torn" ELSE files[n]]
    BY <1>10 DEF SaveCut
  <2>2. \A n \in Nodes : files'[n] = files[n] \/ (n \in Savable /\ files'[n] # "none")
    BY <2>1
  <2>3. QED BY <1>8, <1>10, <2>2 DEF SaveCut, Down
<1>11. CASE LoadFails \/ InjectFails \/ MakeRootFails
  <2>1. \A made, rec : Pushes(made, rec) \subseteq {"dead", "undefined", "linked"}
    BY DEF Pushes, Reached
  <2>2. QED BY <1>a, <1>1, <1>3, <1>11, <2>1 DEF LoadFails, InjectFails, MakeRootFails, ListStuck
<1>12. CASE Crash
  BY <1>a, <1>1, <1>3, <1>12 DEF Crash, Down, ListStuck
<1>13. CASE SaveAll \/ DeleteOne \/ DeleteEnd \/ WriteCut
  <2>1. ~SaveAll
    BY <1>1, <1>7 DEF SaveAll
  <2>2. QED BY <1>13, <2>1 DEF DeleteOne, DeleteEnd, WriteCut, ListStuck
<1>14. CASE UNCHANGED vars
  <2>1. Typed' = Typed
    BY <1>a, <1>14 DEF vars, Typed
  <2>2. QED BY <1>a, <1>1, <1>3, <1>14, <2>1 DEF vars, ListStuck
<1>15. QED
  BY <1>4, <1>5, <1>6, <1>9, <1>10, <1>11, <1>12, <1>13, <1>14 DEF Next

(* A start that has died with a hole between its files, while all that is right below the root has
   a file, is the first of starts that all die or come to what is undefined: a missing link lets
   none of them save, a missing list none of them save what is above it (init_resource,
   record_load_json, get_json). *)
THEOREM DeadForGoodCorrect == Spec => DeadForGood
<1>1. phase = "dead" /\ (\A t \in Top : files[t] # "none") /\ (LinkHole \/ ListHole)
        => LinkStuck \/ ListStuck
  BY DEF LinkStuck, ListStuck, TopsThere, ListHole
<1>2. Types /\ (LinkStuck \/ ListStuck) /\ [Next]_vars => (LinkStuck \/ ListStuck)'
  BY StepLinkStuck, StepListStuck
<1>3. LinkStuck \/ ListStuck => phase # "run"
  BY DEF LinkStuck, ListStuck
<1>4. Spec => []Types
  <2>1. Types /\ [Next]_vars => Types'
    BY StepTypes
  <2>2. QED BY <2>1, InitTypes, PTL DEF Spec
<1>5. QED BY <1>1, <1>2, <1>3, <1>4, PTL DEF Spec, DeadForGood

-----------------------------------------------------------------------------
(* If no file is missing, nothing is made: the loop meets every entry once, what was read is to be
   linked to what is read above it, and then hangs there alone.             *)
NoneMissing == \A i \in Nodes : files[i] # "none"

\* The files of i and of all above it are whole.
WholeTo(i) == \A j \in {0} \cup Line(i) : files[j] = "whole"

Once ==
    phase = "inject" /\ NoneMissing =>
        /\ gone = {} /\ \A i \in Nodes : record[i] # "none"
        /\ files[0] = "whole" => 0 \in Typed
        /\ \A i \in Below :
              /\ links[i] = {}
              /\ files[i] = "whole" =>
                    record[i] = "first" /\ \A x : <<i, x>> \in loaded <=> x = "first"

Linkage ==
    phase \in {"init", "save"} /\ NoneMissing =>
        /\ record[0] # "none"
        /\ \A i \in Below :
              WholeTo(i) => i \in Typed /\ links[i] = {<<path[i].found, record[i]>>}

LEMMA LoadOnce == Types /\ Load => Once'
<1> SUFFICES ASSUME Types, Load, NoneMissing' PROVE Once' BY DEF Once
<1>1. path' = path /\ files' = files /\ Nodes' = Nodes /\ Below' = Below
  BY LoadStep, SamePath DEF Next
<1>2. 0 \in Nodes /\ \A i \in Below : i \in Nodes
  BY PathShape DEF Types
<1>3. \A i \in Nodes : files[i] # "none"
  BY <1>1 DEF NoneMissing
<1>4. TopsThere
  BY <1>2, <1>3 DEF TopsThere, Top
<1>5. files[0] = "whole" => record'[0] = "made"
  BY <1>2 DEF Load, Whole
<1>6. QED BY <1>1, <1>2, <1>3, <1>4, <1>5, LoadAll DEF Once, Typed, Objects

(* What is linked when all above it is there. *)
LEMMA LinkedAlone ==
    ASSUME Types, phase = "inject", NoneMissing, Once, NEW i \in Below, WholeTo(i)
    PROVE  i \in Typed /\ Linked(i) = {<<path[i].found, record[i]>>}
<1>1. /\ i \in Nodes /\ Up(i) \in Nodes /\ files[0] = "whole"
      /\ files[i] = "whole" /\ files[Up(i)] = "whole" /\ (Up(i) = 0 \/ Up(i) \in Below)
  BY PathShape, Lines DEF Types, WholeTo
<1>2. links[i] = {} /\ record[i] = "first" /\ \A x : <<i, x>> \in loaded <=> x = "first"
  BY <1>1 DEF Once
<1>3. Up(i) \in Typed
  BY <1>1 DEF Once, Typed, Objects
<1> DEFINE objects == {l[2] : l \in {l \in loaded : l[1] = i}}
<1>4. objects = {"first"}
  <2>1. \A l \in loaded : l[1] = i => l[2] = "first"
    BY <1>2 DEF Types
  <2>2. "first" \in objects
    BY <1>2, <<i, "first">> \in loaded
  <2>3. \A x \in objects : x = "first"
    BY <2>1
  <2> HIDE DEF objects
  <2>4. QED BY <2>2, <2>3
<1>5. Linked(i) = IF objects = {} \/ Up(i) \notin Typed THEN links[i]
                  ELSE IF path[i].adds THEN links[i] \cup ({path[i].found} \X objects)
                  ELSE {l \in links[i] : l[1] # path[i].found}
                       \cup {<<path[i].found, IF "second" \in objects THEN "second" ELSE "first">>}
  BY DEF Linked
<1> HIDE DEF objects
<1>6. {path[i].found} \X objects = {<<path[i].found, "first">>}
  BY <1>4
<1>7. Linked(i) = {<<path[i].found, "first">>}
  BY <1>2, <1>3, <1>4, <1>5, <1>6
<1>8. QED BY <1>1, <1>2, <1>7 DEF Typed, Objects

LEMMA StepLinkage == Types /\ Once /\ Linkage /\ [Next]_vars => Once' /\ Linkage'
<1> SUFFICES ASSUME Types, Once, Linkage, [Next]_vars PROVE Once' /\ Linkage'
  OBVIOUS
<1>a. path' = path /\ Nodes' = Nodes /\ Below' = Below /\ \A i \in Below : Line(i)' = Line(i)
  BY SamePath DEF Line
<1>1. CASE Load
  BY <1>1, LoadOnce, LoadStep DEF Linkage
<1>2. CASE Inject
  <2>1. phase = "inject" /\ phase' = "init" /\ files' = files
    BY <1>2 DEF Inject
  <2>2. ASSUME NoneMissing'
        PROVE  /\ record'[0] # "none"
               /\ \A i \in Below : WholeTo(i)'
                     => i \in Typed' /\ links'[i] = {<<path[i].found, record'[i]>>}
    <3>1. NoneMissing /\ gone = {} /\ 0 \in Nodes /\ \A i \in Nodes : record[i] # "none"
      BY <1>a, <2>1, <2>2, PathShape DEF NoneMissing, Once, Types
    <3>2. record' = record
      BY <1>2, <3>1 DEF Inject, Types
    <3>3. ASSUME NEW i \in Below, WholeTo(i)'
          PROVE  i \in Typed' /\ links'[i] = {<<path[i].found, record'[i]>>}
      <4>1. WholeTo(i)
        BY <1>a, <2>1, <3>3 DEF WholeTo
      <4>2. i \in Typed /\ Linked(i) = {<<path[i].found, record[i]>>}
        BY <2>1, <3>1, <4>1, LinkedAlone
      <4>3. links'[i] = {<<l[1], Kept(i \in gone, l[2])>> : l \in Linked(i)}
        BY <1>2 DEF Inject
      <4>4. \A object : Kept(i \in gone, object) = object
        BY <3>1 DEF Kept
      <4>5. links'[i] = {<<path[i].found, record[i]>>}
        BY <4>2, <4>3, <4>4
      <4>6. QED BY <1>a, <3>2, <4>2, <4>5 DEF Typed
    <3>4. QED BY <3>1, <3>2, <3>3
  <2>3. QED BY <1>a, <2>1, <2>2 DEF Once, Linkage
<1>3. CASE MakeRoot
  <2>1. phase = "init" /\ phase' = "save" /\ files' = files
    BY <1>3 DEF MakeRoot
  <2>2. ASSUME NoneMissing' PROVE record' = record /\ \A i \in Below : links'[i] = links[i]
    <3>1. record[0] # "none"
      BY <1>a, <2>1, <2>2 DEF NoneMissing, Linkage
    <3>2. QED BY <1>3, <3>1 DEF MakeRoot, MadeLast, Types
  <2>3. QED BY <1>a, <2>1, <2>2 DEF Once, Linkage, NoneMissing, WholeTo, Typed
<1>4. CASE LoadFails \/ InjectFails \/ MakeRootFails
  <2>1. \A made, rec : Pushes(made, rec) \subseteq {"dead", "undefined", "linked"}
    BY DEF Pushes, Reached
  <2>2. QED BY <1>4, <2>1 DEF LoadFails, InjectFails, MakeRootFails, Once, Linkage
<1>5. CASE SaveAll \/ SaveFails \/ DeleteOne \/ DeleteEnd \/ Crash \/ SaveCut \/ WriteCut
  BY <1>5 DEF SaveAll, SaveFails, DeleteOne, DeleteEnd, Crash, SaveCut, WriteCut, Down, Once,
              Linkage
<1>6. CASE UNCHANGED vars
  BY <1>a, <1>6 DEF vars, Once, Linkage, NoneMissing, WholeTo, Typed
<1>7. QED BY <1>1, <1>2, <1>3, <1>4, <1>5, <1>6 DEF Next

(* Whatever the order in which a start meets the entries, if no file is missing every resource
   whose file and those above it are whole comes back, where init_* had put it and once; the
   inventories of the update service each in the place of the other (record_load_json,
   dependency_injection). *)
THEOREM WholeCorrect == Spec => []WholeComesBack
<1>1. Init => Types /\ Once /\ Linkage
  BY InitTypes DEF Init, Once, Linkage
<1>2. Types /\ Once /\ Linkage /\ [Next]_vars => (Types /\ Once /\ Linkage)'
  BY StepTypes, StepLinkage
<1>3. Types /\ Linkage => WholeComesBack
  <2> SUFFICES ASSUME Types, Linkage, phase = "save", \A i \in Nodes : files[i] # "none",
                      NEW i \in Below, \A j \in {0} \cup Line(i) : files[j] = "whole"
               PROVE  /\ i \in Typed
                      /\ links[i] = {<<IF path[1].slot = "update_service" THEN path[i].found
                                       ELSE path[i].slot, record[i]>>}
    BY DEF WholeComesBack
  <2>1. i \in Typed /\ links[i] = {<<path[i].found, record[i]>>}
    BY DEF Linkage, NoneMissing, WholeTo
  <2>2. path \in Paths /\ i \in DOMAIN path
    BY PathShape DEF Types, Below, Last
  <2>3. path[1].slot # "update_service" => path[i].found = path[i].slot
    BY <2>2, SlotAssumption
  <2>4. QED BY <2>1, <2>3
<1>4. QED BY <1>1, <1>2, <1>3, PTL DEF Spec
=============================================================================
