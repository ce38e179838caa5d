---------------------------- MODULE Settings_proofs ----------------------------
(***************************************************************************)
(* Proofs about Settings.  The tables of the classes stay closed: of them  *)
(* only what the assumptions of Settings say is used, and of a handler     *)
(* what it does to the members, for every set of members that is followed. *)
(***************************************************************************)
EXTENDS Settings, WellFoundedInduction, TLAPS

-----------------------------------------------------------------------------
(* The handlers.                                                               *)

\* What a handler can put in a member, whatever was there.
Puts == {"a", "b", "init", "blank", "other", "both"}

\* A handler under way on members F that were old when it started.
UnderWay(F, old) ==
    {s \in [mem : [F -> Values], ok : BOOLEAN, any : BOOLEAN, stopped : BOOLEAN] :
        \A m \in F : s.mem[m] \in Puts \cup {old[m]}}

\* A body for a resource of class k that names members of F.
Body(k, F, body) ==
    /\ DOMAIN body \subseteq F
    /\ \A m \in DOMAIN body :
          body[m] \in {"a", "b", "bad"} /\ (body[m] = "bad" => CanBeBad(k, m))

LEMMA InitValuePut ==
    ASSUME NEW m
    PROVE  InitValue(m) \in Puts
BY DEF InitValue, Puts, Off

LEMMA StartedUnderWay ==
    ASSUME NEW F, NEW mem0 \in [F -> Values]
    PROVE  /\ Started(mem0) \in UnderWay(F, mem0)
           /\ Started(mem0).mem = mem0
BY DEF Started, UnderWay

LEMMA StopUnderWay ==
    ASSUME NEW F, NEW old, NEW s \in UnderWay(F, old)
    PROVE  Stop(s) \in UnderWay(F, old)
BY DEF Stop, UnderWay

LEMMA SetUnderWay ==
    ASSUME NEW F, NEW old, NEW s \in UnderWay(F, old), NEW m, NEW v,
           m \in F => v \in Puts \cup {s.mem[m]}
    PROVE  /\ Set(s, m, v) \in UnderWay(F, old)
           /\ \A n \in F : Set(s, m, v).mem[n] = IF n = m THEN v ELSE s.mem[n]
           /\ Set(s, m, v).ok = s.ok /\ Set(s, m, v).stopped = s.stopped
BY DEF Set, UnderWay, Puts, Values

\* Of the members of M, all that were asked for are as they were asked for.
Applied(f, body, M) == \A m \in M \cap DOMAIN body : body[m] \in {"bad", f[m]}

\* From s to r the handler has gone on: it only answers OK if it has not returned.
GoesOn(F, old, s, r) ==
    /\ r \in UnderWay(F, old)
    /\ r.ok = TRUE => s.ok = TRUE
    /\ r.stopped = TRUE => s.stopped = TRUE \/ r.ok = FALSE
    /\ r.stopped = FALSE => s.stopped = FALSE

\* It has gone on and, unless it has returned, has given the members of M what was asked for.
Gives(F, old, s, r, body, M) ==
    GoesOn(F, old, s, r) /\ (r.stopped = FALSE => Applied(r.mem, body, M))

LEMMA GoesFurther ==
    ASSUME NEW F, NEW old, NEW s, NEW r, NEW q, GoesOn(F, old, s, r), GoesOn(F, old, r, q)
    PROVE  GoesOn(F, old, s, q)
BY DEF GoesOn, UnderWay

LEMMA SetGoesOn ==
    ASSUME NEW F, NEW old, NEW s \in UnderWay(F, old), NEW m, NEW v,
           m \in F => v \in Puts \cup {s.mem[m]}
    PROVE  GoesOn(F, old, s, Set(s, m, v))
BY SetUnderWay DEF GoesOn

LEMMA StopGoesOn ==
    ASSUME NEW F, NEW old, NEW s \in UnderWay(F, old)
    PROVE  /\ GoesOn(F, old, s, Stop(s))
           /\ Stop(s).mem = s.mem /\ Stop(s).stopped = TRUE
<1>1. Stop(s).mem = s.mem /\ Stop(s).ok = FALSE /\ Stop(s).stopped = TRUE
  BY DEF Stop, UnderWay
<1>2. QED BY <1>1, StopUnderWay DEF GoesOn

LEMMA HeldPut ==
    ASSUME NEW F, NEW old, NEW s \in UnderWay(F, old), NEW m
    PROVE  /\ m \in F => Held(s, m) = s.mem[m]
           /\ m \notin F => Held(s, m) = InitValue(m)
BY DEF Held, UnderWay

\* Through only puts values in members it was body for.
LEMMA ThroughUnderWay ==
    ASSUME NEW k, NEW F, NEW old, NEW s \in UnderWay(F, old), NEW body, Body(k, F, body),
           NEW steps
    PROVE  /\ Through(s, body, steps) \in UnderWay(F, old)
           /\ \A m \in F : (\A i \in DOMAIN steps : steps[i].member # m)
                               => Through(s, body, steps).mem[m] = s.mem[m]
<1> DEFINE reached == Reached(s, body, steps)
           taken == {step \in reached : body[step.member] # "bad"}
           mem1 == [m \in DOMAIN s.mem |->
                        IF \E step \in taken : step.member = m THEN body[m]
                        ELSE IF Step(m, "half") \in reached THEN "other" ELSE s.mem[m]]
           ok1 == s.ok /\ \A step \in reached \ taken : step.wrong = "skip"
           any1 == s.any \/ taken # {}
           stopped1 == s.stopped \/ \E step \in reached : Stops(body, step)
<1>1. Through(s, body, steps) = [mem |-> mem1, ok |-> ok1, any |-> any1, stopped |-> stopped1]
  BY DEF Through
<1>2. DOMAIN s.mem = F /\ s.mem \in [F -> Values] BY DEF UnderWay
<1>3. \A step \in reached : step.member \in DOMAIN body
                            /\ \E i \in DOMAIN steps : steps[i] = step
  BY DEF Reached
<1>4. \A m \in F : mem1[m] \in Puts \cup {s.mem[m]}
  BY <1>2, <1>3 DEF Body, Puts
<1>5. mem1 \in [F -> Values]
  BY <1>2, <1>4 DEF Puts, Values
<1>6. /\ ok1 \in BOOLEAN /\ any1 \in BOOLEAN /\ stopped1 \in BOOLEAN
  BY Zenon DEF UnderWay
<1>7. \A m \in F : mem1[m] \in Puts \cup {old[m]}
  BY <1>4 DEF UnderWay
<1>8. Through(s, body, steps) \in UnderWay(F, old)
  <2> HIDE DEF mem1, ok1, any1, stopped1
  <2> QED BY <1>1, <1>5, <1>6, <1>7 DEF UnderWay
<1>9. ASSUME NEW m \in F, \A i \in DOMAIN steps : steps[i].member # m
      PROVE  mem1[m] = s.mem[m]
  BY <1>2, <1>3, <1>9 DEF Step
<1>10. QED
  <2> HIDE DEF mem1, ok1, any1, stopped1
  <2> QED BY <1>1, <1>8, <1>9

\* Steps that nothing can stop, for their values always do or are left out without a word.
LEMMA ThroughSmooth ==
    ASSUME NEW s, NEW body, NEW steps, s.ok \in BOOLEAN, s.stopped \in BOOLEAN,
           \A i \in DOMAIN steps : steps[i].member \in DOMAIN body
               => body[steps[i].member] # "bad" \/ steps[i].wrong = "skip"
    PROVE  Through(s, body, steps).ok = s.ok /\ Through(s, body, steps).stopped = s.stopped
<1>1. \A step \in Reached(s, body, steps) : body[step.member] # "bad" \/ step.wrong = "skip"
  BY DEF Reached
<1>2. \A step \in Reached(s, body, steps) : ~Stops(body, step)
  BY <1>1 DEF Stops
<1>3. QED BY <1>1, <1>2 DEF Through

\* Members that are not checked cannot make a handler refuse.
LEMMA PlainSmooth ==
    ASSUME NEW k, k # "LogService", NEW F, NEW body, Body(k, F, body),
           NEW s, s.ok \in BOOLEAN, s.stopped \in BOOLEAN,
           NEW ms, \A i \in DOMAIN ms : ms[i] \notin Checked
    PROVE  /\ Through(s, body, Plain(ms)).ok = s.ok
           /\ Through(s, body, Plain(ms)).stopped = s.stopped
<1>1. \A i \in DOMAIN Plain(ms) : Plain(ms)[i].member = ms[i] /\ i \in DOMAIN ms
  BY DEF Plain, Step
<1>2. \A i \in DOMAIN Plain(ms) :
          Plain(ms)[i].member \in DOMAIN body => body[Plain(ms)[i].member] # "bad"
  BY <1>1 DEF Body, CanBeBad
<1>3. QED BY <1>2, ThroughSmooth

-----------------------------------------------------------------------------
(* patch_account_service.                                                      *)

Ldap == "LDAP.ServiceEnabled"
ActiveDirectory == "ActiveDirectory.ServiceEnabled"

LimitsOrdered(f) ==
    {MinLength, MaxLength} \subseteq DOMAIN f =>
        /\ f[MinLength] \in {"init", "a", "b"} /\ f[MaxLength] \in {"init", "a", "b"}
        /\ Length(MinLength, f[MinLength]) <= Length(MaxLength, f[MaxLength])

OneOn(f) ==
    {Ldap, ActiveDirectory} \subseteq DOMAIN f => ~(f[Ldap] = On /\ f[ActiveDirectory] = On)

\* The order of the limits survives what leaves both of them alone; so do the directories.
LEMMA LimitsApart ==
    ASSUME NEW F, NEW f \in [F -> Values], NEW g \in [F -> Values], LimitsOrdered(f),
           \A m \in F \cap {MinLength, MaxLength} : g[m] = f[m]
    PROVE  LimitsOrdered(g)
BY DEF LimitsOrdered

LEMMA DirectoriesApart ==
    ASSUME NEW F, NEW f \in [F -> Values], NEW g \in [F -> Values], OneOn(f),
           \A m \in F \cap {Ldap, ActiveDirectory} : g[m] = f[m]
    PROVE  OneOn(g)
BY DEF OneOn

\* The two limits are changed together or not at all.
LEMMA PatchLengthsOrders ==
    ASSUME NEW F, NEW old, NEW s \in UnderWay(F, old), NEW body, Body("AccountService", F, body)
    PROVE  LET r == PatchLengths(s, body)
           IN /\ r \in UnderWay(F, old)
              /\ LimitsOrdered(s.mem) => LimitsOrdered(r.mem)
              /\ \A m \in F \ {MinLength, MaxLength} : r.mem[m] = s.mem[m]
              /\ Gives(F, old, s, r, body, {MinLength, MaxLength})
<1> DEFINE ask == {MinLength, MaxLength} \cap DOMAIN body
           After(m) == IF m \in ask THEN body[m] ELSE Held(s, m)
           r == Set(s, MaxLength, After(MaxLength))
           q == Set(r, MinLength, After(MinLength))
<1> HIDE DEF r, q
<1>0. s.mem \in [F -> Values] BY DEF UnderWay
<1>1. CASE ask = {}
  <2>1. PatchLengths(s, body) = s BY <1>1 DEF PatchLengths
  <2>2. GoesOn(F, old, s, s) /\ Applied(s.mem, body, {MinLength, MaxLength})
    BY <1>1 DEF GoesOn, Applied
  <2>3. QED BY <2>1, <2>2 DEF Gives
<1>2. CASE \/ \E m \in ask : body[m] = "bad"
           \/ Length(MinLength, After(MinLength)) > Length(MaxLength, After(MaxLength))
  <2>1. CASE ask # {}
    <3>1. PatchLengths(s, body) = Stop(s) BY <1>2, <2>1 DEF PatchLengths
    <3>2. GoesOn(F, old, s, Stop(s)) /\ Stop(s).mem = s.mem /\ Stop(s).stopped = TRUE
      BY StopGoesOn
    <3>3. Gives(F, old, s, Stop(s), body, {MinLength, MaxLength}) BY <3>2 DEF Gives
    <3>4. QED BY <3>1, <3>2, <3>3, StopUnderWay
  <2>2. QED BY <1>1, <2>1
<1>3. CASE /\ ask # {} /\ \A m \in ask : body[m] # "bad"
           /\ ~(Length(MinLength, After(MinLength)) > Length(MaxLength, After(MaxLength)))
  <2>1. PatchLengths(s, body) = q BY <1>3 DEF PatchLengths, q, r
  <2>2. MinLength # MaxLength BY DEF MinLength, MaxLength
  <2>3. \A m \in {MinLength, MaxLength} \cap F :
            After(m) \in {"a", "b"} \/ After(m) = s.mem[m]
    <3>1. TAKE m \in {MinLength, MaxLength} \cap F
    <3>2. CASE m \in ask BY <1>3, <3>2 DEF Body
    <3>3. CASE m \notin ask BY <3>3, HeldPut
    <3>4. QED BY <3>2, <3>3
  <2>4. /\ r \in UnderWay(F, old)
        /\ \A n \in F : r.mem[n] = IF n = MaxLength THEN After(MaxLength) ELSE s.mem[n]
    <3> HIDE DEF After
    <3>1. MaxLength \in F => After(MaxLength) \in Puts \cup {s.mem[MaxLength]}
      BY <2>3 DEF Puts
    <3>2. QED BY <3>1, SetUnderWay DEF r
  <2>5. /\ q \in UnderWay(F, old)
        /\ \A n \in F : q.mem[n] = IF n = MinLength THEN After(MinLength) ELSE r.mem[n]
    <3> HIDE DEF After
    <3>1. MinLength \in F => After(MinLength) \in Puts \cup {r.mem[MinLength]}
      BY <2>2, <2>3, <2>4 DEF Puts
    <3>2. QED BY <2>4, <3>1, SetUnderWay DEF q
  <2>6. \A n \in F : q.mem[n] = IF n \in {MinLength, MaxLength} THEN After(n) ELSE s.mem[n]
    <3> HIDE DEF After
    <3> QED BY <2>2, <2>4, <2>5
  <2>7. DOMAIN q.mem = F BY <2>5 DEF UnderWay
  <2>8. ASSUME LimitsOrdered(s.mem) PROVE LimitsOrdered(q.mem)
    <3>1. SUFFICES ASSUME {MinLength, MaxLength} \subseteq F
                   PROVE  /\ q.mem[MinLength] \in {"init", "a", "b"}
                          /\ q.mem[MaxLength] \in {"init", "a", "b"}
                          /\ Length(MinLength, q.mem[MinLength]) <= Length(MaxLength, q.mem[MaxLength])
      BY <2>7 DEF LimitsOrdered
    <3>2. /\ s.mem[MinLength] \in {"init", "a", "b"}
          /\ s.mem[MaxLength] \in {"init", "a", "b"}
      BY <1>0, <2>8, <3>1 DEF LimitsOrdered
    <3>3. /\ q.mem[MinLength] = After(MinLength) /\ q.mem[MaxLength] = After(MaxLength)
      BY <2>6, <3>1
    <3>4. After(MinLength) \in {"init", "a", "b"} /\ After(MaxLength) \in {"init", "a", "b"}
      <4> HIDE DEF After
      <4> QED BY <2>3, <3>1, <3>2
    <3>5. \A m : \A v \in {"init", "a", "b"} : Length(m, v) \in Nat
      BY DEF Length
    <3>6. Length(MinLength, After(MinLength)) <= Length(MaxLength, After(MaxLength))
      <4> HIDE DEF After
      <4> QED BY <1>3, <3>4, <3>5
    <3>7. QED BY <3>3, <3>4, <3>6
  <2>9. Applied(q.mem, body, {MinLength, MaxLength})
    <3>1. \A n \in {MinLength, MaxLength} \cap DOMAIN body : n \in F /\ After(n) = body[n]
      BY DEF Body
    <3> HIDE DEF After
    <3>2. QED BY <2>6, <3>1 DEF Applied
  <2>10. GoesOn(F, old, s, q)
    <3>1. r.ok = s.ok /\ r.stopped = s.stopped /\ q.ok = r.ok /\ q.stopped = r.stopped
      BY DEF Set, UnderWay, r, q
    <3>2. QED BY <2>5, <3>1 DEF GoesOn
  <2>11. Gives(F, old, s, q, body, {MinLength, MaxLength}) BY <2>9, <2>10 DEF Gives
  <2>12. QED BY <2>1, <2>5, <2>6, <2>8, <2>11
<1>4. QED BY <1>1, <1>2, <1>3

\* What becomes of a switch and of the one that is not on with it.
Switched(F, s, r, body, this, that) ==
    /\ r.ok = s.ok /\ r.stopped = s.stopped
    /\ that \in F /\ ~(this \in DOMAIN body /\ body[this] = On) => r.mem[that] = s.mem[that]
    /\ this \in DOMAIN body => s.stopped = TRUE \/ r.mem[this] = body[this]

\* One directory that is turned on turns the other off.
LEMMA SwitchDirectorySwitches ==
    ASSUME NEW F, NEW old, NEW s \in UnderWay(F, old), NEW body, Body("AccountService", F, body),
           NEW this, NEW that, {this, that} = {Ldap, ActiveDirectory}
    PROVE  LET r == SwitchDirectory(s, body, this, that)
           IN /\ r \in UnderWay(F, old) /\ (OneOn(s.mem) => OneOn(r.mem))
              /\ \A m \in F \ {Ldap, ActiveDirectory} : r.mem[m] = s.mem[m]
              /\ Switched(F, s, r, body, this, that)
<1>1. CASE s.stopped \/ this \notin DOMAIN body
  <2>1. SwitchDirectory(s, body, this, that) = s BY <1>1 DEF SwitchDirectory
  <2>2. s.stopped \in BOOLEAN BY DEF UnderWay
  <2>3. Switched(F, s, s, body, this, that) BY <1>1, <2>2 DEF Switched
  <2>4. QED BY <2>1, <2>3
<1>2. CASE ~(s.stopped \/ this \notin DOMAIN body)
  <2> DEFINE q == IF body[this] = On THEN Set(s, that, Off) ELSE s
             r == Set(q, this, body[this])
  <2>1. SwitchDirectory(s, body, this, that) = r BY <1>2 DEF SwitchDirectory
  <2>2. this # that BY DEF Ldap, ActiveDirectory
  <2>3. this \in F /\ body[this] \in {"a", "b"}
    BY <1>2 DEF Body, CanBeBad, Checked, Ldap, ActiveDirectory, MinLength, MaxLength
  <2>4. /\ q \in UnderWay(F, old)
        /\ \A n \in F : q.mem[n] = IF n = that /\ body[this] = On THEN Off ELSE s.mem[n]
    <3>1. Off \in Puts BY DEF Off, Puts
    <3>2. CASE body[this] = On
      <4>1. Set(s, that, Off) \in UnderWay(F, old)
            /\ \A n \in F : Set(s, that, Off).mem[n] = IF n = that THEN Off ELSE s.mem[n]
        BY <3>1, SetUnderWay
      <4>2. QED BY <3>2, <4>1
    <3>3. CASE body[this] # On BY <3>3
    <3>4. QED BY <3>2, <3>3
  <2>5. /\ r \in UnderWay(F, old)
        /\ \A n \in F : r.mem[n] = IF n = this THEN body[this] ELSE q.mem[n]
    <3> HIDE DEF q
    <3>1. body[this] \in Puts BY <2>3 DEF Puts
    <3>2. QED BY <2>4, <3>1, SetUnderWay
  <2> HIDE DEF q, r
  <2>6. \A m \in F \ {Ldap, ActiveDirectory} : r.mem[m] = s.mem[m]
    BY <2>4, <2>5
  <2>7. DOMAIN r.mem = F /\ DOMAIN s.mem = F BY <2>5 DEF UnderWay
  <2>8. ASSUME OneOn(s.mem) PROVE OneOn(r.mem)
    <3>1. SUFFICES ASSUME {Ldap, ActiveDirectory} \subseteq F
                   PROVE  ~(r.mem[Ldap] = On /\ r.mem[ActiveDirectory] = On)
      BY <2>7 DEF OneOn
    <3>2. ~(s.mem[Ldap] = On /\ s.mem[ActiveDirectory] = On)
      BY <2>7, <2>8, <3>1 DEF OneOn
    <3>3. On # Off BY DEF On, Off
    <3>4. that \in F BY <3>1
    <3>5. r.mem[this] = body[this] /\ r.mem[that] = IF body[this] = On THEN Off ELSE s.mem[that]
      BY <2>2, <2>3, <2>4, <2>5, <3>4
    <3>6. ~(r.mem[this] = On /\ r.mem[that] = On) BY <3>3, <3>5
    <3>7. QED BY <3>6
  <2>9. r.ok = s.ok /\ r.stopped = s.stopped
    BY DEF Set, UnderWay, r, q
  <2>10. that \in F /\ body[this] # On => r.mem[that] = s.mem[that] BY <2>2, <2>4, <2>5
  <2>11. r.mem[this] = body[this] BY <2>3, <2>5
  <2>12. Switched(F, s, r, body, this, that) BY <1>2, <2>9, <2>10, <2>11 DEF Switched
  <2>13. QED BY <2>1, <2>5, <2>6, <2>8, <2>12
<1>3. QED BY <1>1, <1>2

\* The limits and the directories are left alone by what is done between and after them.
Apart == {MinLength, MaxLength, Ldap, ActiveDirectory}
Beside(F) == F \cap Apart

LEMMA PatchPasswordSetBeside ==
    ASSUME NEW F, NEW old, NEW s \in UnderWay(F, old), NEW body, Body("AccountService", F, body)
    PROVE  LET r == PatchPasswordSet(s, body)
           IN /\ r \in UnderWay(F, old)
              /\ \A m \in F \ {"LDAP.PasswordSet", "LDAP.Authentication"} : r.mem[m] = s.mem[m]
              /\ Gives(F, old, s, r, body, {"LDAP.PasswordSet"})
<1> DEFINE set == "LDAP.PasswordSet"
           auth == "LDAP.Authentication"
           r == Set(s, auth, body[auth])
<1>1. CASE s.stopped \/ set \notin DOMAIN body
  <2>1. PatchPasswordSet(s, body) = s BY <1>1 DEF PatchPasswordSet
  <2>2. s.stopped \in BOOLEAN BY DEF UnderWay
  <2>3. GoesOn(F, old, s, s) /\ (s.stopped = FALSE => Applied(s.mem, body, {set}))
    BY <1>1, <2>2 DEF GoesOn, Applied
  <2>4. QED BY <2>1, <2>3 DEF Gives
<1>2. CASE ~(s.stopped \/ set \notin DOMAIN body) /\ body[set] = Off
  <2>1. PatchPasswordSet(s, body) = Set(s, set, Off) BY <1>2 DEF PatchPasswordSet
  <2>2. Off \in Puts BY DEF Off, Puts
  <2>3. GoesOn(F, old, s, Set(s, set, Off)) BY <2>2, SetGoesOn
  <2>4. /\ Set(s, set, Off) \in UnderWay(F, old)
        /\ \A n \in F : Set(s, set, Off).mem[n] = IF n = set THEN Off ELSE s.mem[n]
    BY <2>2, SetUnderWay
  <2>5. Applied(Set(s, set, Off).mem, body, {set})
    <3>1. set \in F BY <1>2 DEF Body
    <3>2. Set(s, set, Off).mem[set] = body[set] BY <1>2, <2>4, <3>1
    <3>3. QED BY <3>2 DEF Applied
  <2>6. Gives(F, old, s, Set(s, set, Off), body, {set}) BY <2>3, <2>5 DEF Gives
  <2>7. QED BY <2>1, <2>4, <2>6
<1>3. CASE ~(s.stopped \/ set \notin DOMAIN body) /\ body[set] # Off /\ auth \notin DOMAIN body
  <2>1. PatchPasswordSet(s, body) = Stop(s) BY <1>3 DEF PatchPasswordSet
  <2>2. GoesOn(F, old, s, Stop(s)) /\ Stop(s).mem = s.mem /\ Stop(s).stopped = TRUE
    BY StopGoesOn
  <2>3. Gives(F, old, s, Stop(s), body, {set}) BY <2>2 DEF Gives
  <2>4. QED BY <2>1, <2>2, <2>3, StopUnderWay
<1>4. CASE ~(s.stopped \/ set \notin DOMAIN body) /\ body[set] # Off /\ auth \in DOMAIN body
  <2> DEFINE q == Set(r, set, On)
  <2>1. PatchPasswordSet(s, body) = q BY <1>4 DEF PatchPasswordSet
  <2>2. On \in Puts BY DEF On, Puts
  <2>3. body[auth] \in Puts /\ body[set] = On /\ set \in F
    BY <1>4 DEF Body, CanBeBad, Checked, Puts, On, Off, MinLength, MaxLength
  <2>4. /\ r \in UnderWay(F, old) /\ GoesOn(F, old, s, r)
        /\ \A n \in F : r.mem[n] = IF n = auth THEN body[auth] ELSE s.mem[n]
    BY <2>3, SetUnderWay, SetGoesOn
  <2> HIDE DEF r
  <2>5. /\ q \in UnderWay(F, old) /\ GoesOn(F, old, r, q)
        /\ \A n \in F : q.mem[n] = IF n = set THEN On ELSE r.mem[n]
    BY <2>2, <2>4, SetUnderWay, SetGoesOn
  <2> HIDE DEF q
  <2>6. GoesOn(F, old, s, q) BY <2>4, <2>5, GoesFurther
  <2>7. Applied(q.mem, body, {set}) BY <2>3, <2>5 DEF Applied
  <2>8. Gives(F, old, s, q, body, {set}) BY <2>6, <2>7 DEF Gives
  <2>9. QED BY <2>1, <2>4, <2>5, <2>8
<1>5. QED BY <1>1, <1>2, <1>3, <1>4

\* Steps that name neither leave both alone.
LEMMA ThroughBeside ==
    ASSUME NEW F, NEW old, NEW s \in UnderWay(F, old), NEW body, Body("AccountService", F, body),
           NEW steps,
           \A i \in DOMAIN steps :
               steps[i].member \notin Apart
    PROVE  /\ Through(s, body, steps) \in UnderWay(F, old)
           /\ \A m \in Beside(F) : Through(s, body, steps).mem[m] = s.mem[m]
<1>1. \A m \in Beside(F) : m \in F /\ \A i \in DOMAIN steps : steps[i].member # m
  BY DEF Beside
<1>2. /\ Through(s, body, steps) \in UnderWay(F, old)
      /\ \A m \in F : (\A i \in DOMAIN steps : steps[i].member # m)
                          => Through(s, body, steps).mem[m] = s.mem[m]
  BY ThroughUnderWay
<1>3. QED BY <1>1, <1>2

\* Both are kept where they agree with members for which they hold.
LEMMA BesideKeeps ==
    ASSUME NEW F, NEW old, NEW s \in UnderWay(F, old), NEW r \in UnderWay(F, old),
           \A m \in Beside(F) : r.mem[m] = s.mem[m]
    PROVE  (LimitsOrdered(s.mem) => LimitsOrdered(r.mem)) /\ (OneOn(s.mem) => OneOn(r.mem))
<1>1. s.mem \in [F -> Values] /\ r.mem \in [F -> Values] BY DEF UnderWay
<1>2. \A m \in F \cap {MinLength, MaxLength} : r.mem[m] = s.mem[m] BY DEF Beside, Apart
<1>3. \A m \in F \cap {Ldap, ActiveDirectory} : r.mem[m] = s.mem[m] BY DEF Beside, Apart
<1>4. QED BY <1>1, <1>2, <1>3, LimitsApart, DirectoriesApart

\* What every part of patch_account_service keeps.
Sound(F, old, s) ==
    /\ s \in UnderWay(F, old)
    /\ LimitsOrdered(old) => LimitsOrdered(s.mem)
    /\ OneOn(old) => OneOn(s.mem)

LEMMA SwitchDirectorySound ==
    ASSUME NEW F, NEW old, NEW s, Sound(F, old, s), NEW body, Body("AccountService", F, body),
           NEW this, NEW that, {this, that} = {Ldap, ActiveDirectory}
    PROVE  Sound(F, old, SwitchDirectory(s, body, this, that))
<1> DEFINE r == SwitchDirectory(s, body, this, that)
<1>1. /\ r \in UnderWay(F, old) /\ (OneOn(s.mem) => OneOn(r.mem))
      /\ \A m \in F \ {Ldap, ActiveDirectory} : r.mem[m] = s.mem[m]
  <2>1. s \in UnderWay(F, old) BY DEF Sound
  <2>2. QED BY <2>1, SwitchDirectorySwitches
<1> HIDE DEF r
<1>2. s.mem \in [F -> Values] /\ r.mem \in [F -> Values] BY <1>1 DEF Sound, UnderWay
<1>3. \A m \in F \cap {MinLength, MaxLength} : r.mem[m] = s.mem[m]
  BY <1>1 DEF MinLength, MaxLength, Ldap, ActiveDirectory
<1>4. LimitsOrdered(s.mem) => LimitsOrdered(r.mem) BY <1>2, <1>3, LimitsApart DEF Sound
<1>5. Sound(F, old, r) BY <1>1, <1>4 DEF Sound
<1>6. QED BY <1>5 DEF r

LEMMA ThroughSound ==
    ASSUME NEW F, NEW old, NEW s, Sound(F, old, s), NEW body, Body("AccountService", F, body),
           NEW steps,
           \A i \in DOMAIN steps :
               steps[i].member \notin Apart
    PROVE  Sound(F, old, Through(s, body, steps))
BY ThroughBeside, BesideKeeps DEF Sound

LEMMA PatchLdapSound ==
    ASSUME NEW F, NEW old, NEW s, Sound(F, old, s), NEW body, Body("AccountService", F, body)
    PROVE  Sound(F, old, PatchLdap(s, body))
<1> DEFINE switched == SwitchDirectory(s, body, "LDAP.ServiceEnabled",
                                       "ActiveDirectory.ServiceEnabled")
           set == PatchPasswordSet(switched, body)
           steps == <<Step("LDAP.ServiceAddresses", "stop"),
                      Step("LDAP.BaseDistinguishedNames", "half")>>
<1>1. Sound(F, old, switched)
  BY SwitchDirectorySound DEF Ldap, ActiveDirectory
<1> HIDE DEF switched
<1>2. Sound(F, old, set)
  <2>1. switched \in UnderWay(F, old) BY <1>1 DEF Sound
  <2>2. /\ set \in UnderWay(F, old)
        /\ \A m \in F \ {"LDAP.PasswordSet", "LDAP.Authentication"} :
              set.mem[m] = switched.mem[m]
    BY <2>1, PatchPasswordSetBeside
  <2> HIDE DEF set
  <2>3. \A m \in Beside(F) : set.mem[m] = switched.mem[m]
    BY <2>2 DEF Beside, Apart, MinLength, MaxLength, Ldap, ActiveDirectory
  <2>4. QED BY <1>1, <2>1, <2>2, <2>3, BesideKeeps DEF Sound
<1> HIDE DEF set
<1>3. \A i \in DOMAIN steps :
          steps[i].member \notin Apart
  BY DEF Step, Apart, MinLength, MaxLength, Ldap, ActiveDirectory
<1> HIDE DEF steps
<1>4. Sound(F, old, Through(set, body, steps)) BY <1>2, <1>3, ThroughSound
<1>5. QED BY <1>4 DEF PatchLdap, set, switched, steps

LEMMA PatchActiveDirectorySound ==
    ASSUME NEW F, NEW old, NEW s, Sound(F, old, s), NEW body, Body("AccountService", F, body)
    PROVE  Sound(F, old, PatchActiveDirectory(s, body))
<1> DEFINE switched == SwitchDirectory(s, body, "ActiveDirectory.ServiceEnabled",
                                       "LDAP.ServiceEnabled")
           steps == <<Step("ActiveDirectory.Port", "fail"),
                      Step("ActiveDirectory.ServiceAddresses", "half"),
                      Step("ActiveDirectory.Authentication", "never")>>
<1>1. Sound(F, old, switched)
  BY SwitchDirectorySound DEF Ldap, ActiveDirectory
<1> HIDE DEF switched
<1>2. \A i \in DOMAIN steps :
          steps[i].member \notin Apart
  BY DEF Step, Apart, MinLength, MaxLength, Ldap, ActiveDirectory
<1> HIDE DEF steps
<1>3. Sound(F, old, Through(switched, body, steps)) BY <1>1, <1>2, ThroughSound
<1>4. QED BY <1>3 DEF PatchActiveDirectory, switched, steps

\* The whole handler.
LEMMA PatchAccountServiceSound ==
    ASSUME NEW F, NEW old, NEW s, Sound(F, old, s), NEW body, Body("AccountService", F, body)
    PROVE  Sound(F, old, PatchAccountServiceMembers(s, body))
<1> DEFINE limits == PatchLengths(s, body)
           names == <<"ServiceEnabled", "AuthFailureLoggingThreshold",
                      "AccountLockoutThreshold", "AccountLockoutDuration",
                      "AccountLockoutCounterResetAfter", "AccountLockoutCounterResetEnabled">>
           plain == Through(limits, body, Plain(names))
<1>1. Sound(F, old, limits)
  <2>1. /\ limits \in UnderWay(F, old) /\ (LimitsOrdered(s.mem) => LimitsOrdered(limits.mem))
        /\ \A m \in F \ {MinLength, MaxLength} : limits.mem[m] = s.mem[m]
    <3>1. s \in UnderWay(F, old) BY DEF Sound
    <3>2. QED BY <3>1, PatchLengthsOrders
  <2> HIDE DEF limits
  <2>2. s.mem \in [F -> Values] /\ limits.mem \in [F -> Values] BY <2>1 DEF Sound, UnderWay
  <2>3. \A m \in F \cap {Ldap, ActiveDirectory} : limits.mem[m] = s.mem[m]
    BY <2>1 DEF MinLength, MaxLength, Ldap, ActiveDirectory
  <2>4. OneOn(s.mem) => OneOn(limits.mem) BY <2>2, <2>3, DirectoriesApart DEF Sound
  <2>5. QED BY <2>1, <2>4 DEF Sound
<1> HIDE DEF limits
<1>2. \A i \in DOMAIN Plain(names) :
          Plain(names)[i].member \notin Apart
  <2>1. \A i \in DOMAIN names : names[i] \notin Apart
    BY DEF Apart, MinLength, MaxLength, Ldap, ActiveDirectory
  <2> HIDE DEF names
  <2>2. QED BY <2>1 DEF Plain, Step
<1>3. Sound(F, old, plain) BY <1>1, <1>2, ThroughSound
<1> HIDE DEF plain
<1>4. Sound(F, old, PatchActiveDirectory(PatchLdap(plain, body), body))
  BY <1>3, PatchLdapSound, PatchActiveDirectorySound
<1>5. QED BY <1>4 DEF PatchAccountServiceMembers, plain, limits

-----------------------------------------------------------------------------
(* patch_network_protocol.                                                     *)

\* A value that is not checked is one that will do.
LEMMA UncheckedPut ==
    ASSUME NEW F, NEW body, Body("NetworkProtocol", F, body),
           NEW m \in DOMAIN body, m \notin Checked
    PROVE  body[m] \in Puts /\ body[m] # "bad"
BY DEF Body, CanBeBad, Puts

LEMMA NetworkThrough ==
    ASSUME NEW F, NEW old, NEW s \in UnderWay(F, old),
           NEW body, Body("NetworkProtocol", F, body), NEW steps
    PROVE  /\ Through(s, body, steps) \in UnderWay(F, old)
           /\ \A m \in F : (\A i \in DOMAIN steps : steps[i].member # m)
                               => Through(s, body, steps).mem[m] = s.mem[m]
<1>1. PICK k : Body(k, F, body) OBVIOUS
<1>2. QED BY <1>1, ThroughUnderWay

\* From s to r the handler has only touched members of M, and met nothing that will not do.
Smooth(F, old, s, r, M) ==
    /\ r \in UnderWay(F, old) /\ r.ok = s.ok /\ r.stopped = s.stopped
    /\ \A m \in F \ M : r.mem[m] = s.mem[m]

LEMMA SmoothOn ==
    ASSUME NEW F, NEW old, NEW s, NEW r, NEW q, NEW M, NEW N, NEW O,
           Smooth(F, old, s, r, M), Smooth(F, old, r, q, N), M \cup N \subseteq O
    PROVE  Smooth(F, old, s, q, O)
BY DEF Smooth

LEMMA SetSmooth ==
    ASSUME NEW F, NEW old, NEW s \in UnderWay(F, old), NEW m, NEW v,
           m \in F => v \in Puts \cup {s.mem[m]}
    PROVE  Smooth(F, old, s, Set(s, m, v), {m})
BY SetUnderWay DEF Smooth

LEMMA PlainTouches ==
    ASSUME NEW F, NEW old, NEW s \in UnderWay(F, old),
           NEW body, Body("NetworkProtocol", F, body),
           NEW ms, \A i \in DOMAIN ms : ms[i] \notin Checked
    PROVE  Smooth(F, old, s, Through(s, body, Plain(ms)), ToSet(ms))
<1> DEFINE r == Through(s, body, Plain(ms))
<1>1. s.ok \in BOOLEAN /\ s.stopped \in BOOLEAN BY DEF UnderWay
<1>2. r.ok = s.ok /\ r.stopped = s.stopped BY <1>1, PlainSmooth
<1>3. /\ r \in UnderWay(F, old)
      /\ \A m \in F : (\A i \in DOMAIN Plain(ms) : Plain(ms)[i].member # m)
                          => r.mem[m] = s.mem[m]
  BY NetworkThrough
<1>4. \A m \in F \ ToSet(ms) : \A i \in DOMAIN Plain(ms) : Plain(ms)[i].member # m
  BY DEF Plain, Step, ToSet
<1> HIDE DEF r
<1>5. Smooth(F, old, s, r, ToSet(ms)) BY <1>2, <1>3, <1>4 DEF Smooth
<1>6. QED BY <1>5 DEF r

LEMMA PatchVersionsSmooth ==
    ASSUME NEW F, NEW old, NEW s \in UnderWay(F, old),
           NEW body, Body("NetworkProtocol", F, body)
    PROVE  Smooth(F, old, s, PatchVersions(s, body), {Versions[1]})
<1> DEFINE ask == {i \in DOMAIN Versions : Versions[i] \in DOMAIN body}
<1>1. DOMAIN Versions = 1 .. 3 BY DEF Versions
<1>2. CASE ask = {} BY <1>2 DEF PatchVersions, Smooth
<1>3. CASE ask # {}
  <2>1. \E i \in ask : \A j \in ask : i >= j
    <3>1. ask \subseteq {1, 2, 3} BY <1>1
    <3> HIDE DEF ask
    <3>2. CASE 3 \in ask BY <3>1, <3>2
    <3>3. CASE 3 \notin ask /\ 2 \in ask BY <3>1, <3>3
    <3>4. CASE 3 \notin ask /\ 2 \notin ask
      <4>1. PICK i : i \in ask BY <1>3
      <4>2. \A j \in ask : j = 1 BY <3>1, <3>4
      <4>3. QED BY <4>1, <4>2
    <3>5. QED BY <3>2, <3>3, <3>4
  <2>2. Max(ask) \in ask
    <3> HIDE DEF ask
    <3> QED BY <2>1 DEF Max
  <2>3. Versions[Max(ask)] \in DOMAIN body /\ Max(ask) \in 1 .. 3 BY <1>1, <2>2
  <2>4. \A i \in 1 .. 3 : Versions[i] \notin Checked
    BY DEF Versions, Checked, MinLength, MaxLength
  <2>5. body[Versions[Max(ask)]] \in Puts
    <3> HIDE DEF ask
    <3> QED BY <2>3, <2>4, UncheckedPut
  <2>6. PatchVersions(s, body) = Set(s, Versions[1], body[Versions[Max(ask)]])
    BY <1>3 DEF PatchVersions
  <2> HIDE DEF ask
  <2>7. QED BY <2>5, <2>6, SetSmooth
<1>4. QED BY <1>2, <1>3

\* What of SNMP is looked at once it is on.
SnmpOptions == DOMAIN SnmpMembers \ {"SNMP.ProtocolEnabled"}

LEMMA PatchVersionMembersSmooth ==
    ASSUME NEW F, NEW old, NEW s \in UnderWay(F, old),
           NEW body, Body("NetworkProtocol", F, body)
    PROVE  Smooth(F, old, s, PatchVersionMembers(s, body), SnmpOptions)
<1> DEFINE wanted == SelectSeq(Versions, LAMBDA v : v \in DOMAIN body /\ body[v] = On)
           strings == "SNMP.CommunityStrings"
           community == <<"SNMP.HideCommunityStrings", "SNMP.CommunityAccessMode">>
           protocols == <<"SNMP.AuthenticationProtocol", "SNMP.EncryptionProtocol">>
           plain == Through(s, body, Plain(community))
           third == Through(s, body, Plain(protocols))
           value == IF Held(s, strings) = "init" THEN body[strings] ELSE "both"
<1>1. /\ \A i \in DOMAIN community : community[i] \notin Checked
      /\ \A i \in DOMAIN protocols : protocols[i] \notin Checked
      /\ ToSet(community) \subseteq SnmpOptions /\ ToSet(protocols) \subseteq SnmpOptions
      /\ strings \in SnmpOptions
  BY DEF Checked, MinLength, MaxLength, ToSet, SnmpOptions, SnmpMembers, Kept
<1>2. \/ PatchVersionMembers(s, body) \in {s, plain, third}
      \/ strings \in DOMAIN body /\ PatchVersionMembers(s, body) = Set(plain, strings, value)
  BY Zenon DEF PatchVersionMembers
<1>3. strings \in DOMAIN body => value \in Puts
  <2>1. ASSUME strings \in DOMAIN body PROVE body[strings] \in Puts
    BY <2>1, UncheckedPut DEF Checked, MinLength, MaxLength
  <2>2. QED BY <2>1 DEF Puts
<1> HIDE DEF community, protocols, value
<1>4. Smooth(F, old, s, plain, ToSet(community)) /\ Smooth(F, old, s, third, ToSet(protocols))
  BY <1>1, PlainTouches
<1> HIDE DEF plain, third
<1>5. strings \in DOMAIN body =>
          Smooth(F, old, plain, Set(plain, strings, value), {strings})
  BY <1>3, <1>4, SetSmooth DEF Smooth
<1>6. Smooth(F, old, s, s, {}) BY DEF Smooth
<1>7. /\ Smooth(F, old, s, s, SnmpOptions) /\ Smooth(F, old, s, plain, SnmpOptions)
      /\ Smooth(F, old, s, third, SnmpOptions)
      /\ strings \in DOMAIN body => Smooth(F, old, s, Set(plain, strings, value), SnmpOptions)
  BY <1>1, <1>4, <1>5, <1>6 DEF Smooth
<1>8. QED BY <1>2, <1>7

\* Whatever else is asked for of it, SNMP is as its switch says.
LEMMA PatchSnmpSmooth ==
    ASSUME NEW F, NEW old, NEW s \in UnderWay(F, old),
           NEW body, Body("NetworkProtocol", F, body)
    PROVE  /\ Smooth(F, old, s, PatchSnmp(s, body), DOMAIN SnmpMembers)
           /\ "SNMP.ProtocolEnabled" \in DOMAIN body
                => PatchSnmp(s, body).mem["SNMP.ProtocolEnabled"] = body["SNMP.ProtocolEnabled"]
<1> DEFINE switch == "SNMP.ProtocolEnabled"
           on == Set(s, switch, On)
           versions == PatchVersions(on, body)
           port == <<"SNMP.Port">>
           ports == Through(versions, body, Plain(port))
           last == PatchVersionMembers(ports, body)
           off == [s EXCEPT !.mem = [m \in DOMAIN @ |->
                                        IF m \in DOMAIN SnmpMembers THEN InitValue(m) ELSE @[m]]]
<1>0. switch \in DOMAIN SnmpMembers /\ SnmpOptions = DOMAIN SnmpMembers \ {switch}
  BY DEF SnmpMembers, Kept, SnmpOptions
<1>1. CASE switch \notin DOMAIN body BY <1>1 DEF PatchSnmp, Smooth
<1>2. CASE switch \in DOMAIN body /\ body[switch] = Off
  <2>1. PatchSnmp(s, body) = off BY <1>2 DEF PatchSnmp
  <2>2. off = [s EXCEPT !.mem = [m \in F |-> IF m \in DOMAIN SnmpMembers THEN InitValue(m)
                                              ELSE s.mem[m]]]
    BY DEF UnderWay
  <2>3. off \in UnderWay(F, old) BY <2>2, InitValuePut DEF UnderWay, Puts, Values
  <2>4. Smooth(F, old, s, off, DOMAIN SnmpMembers) BY <2>2, <2>3 DEF Smooth, UnderWay
  <2>5. switch \in F /\ InitValue(switch) = Off BY <1>2 DEF Body, InitValue, OffAtInit
  <2>6. off.mem[switch] = Off BY <1>0, <2>2, <2>5 DEF UnderWay
  <2>7. QED BY <1>2, <2>1, <2>4, <2>6
<1>3. CASE switch \in DOMAIN body /\ body[switch] # Off
  <2>1. PatchSnmp(s, body) = last BY <1>3 DEF PatchSnmp
  <2>2. body[switch] = On /\ switch \in F
    BY <1>3 DEF Body, CanBeBad, Checked, On, Off, MinLength, MaxLength
  <2>3. Smooth(F, old, s, on, {switch})
    <3>1. On \in Puts BY DEF On, Puts
    <3>2. QED BY <3>1, SetSmooth
  <2>4. on.mem[switch] = On BY <2>2 DEF Set, UnderWay
  <2> HIDE DEF on
  <2>5. Smooth(F, old, on, versions, SnmpOptions)
    <3>1. Smooth(F, old, on, versions, {Versions[1]}) BY <2>3, PatchVersionsSmooth DEF Smooth
    <3>2. Versions[1] \in SnmpOptions BY DEF Versions, SnmpOptions, SnmpMembers, Kept
    <3>3. QED BY <3>1, <3>2 DEF Smooth
  <2> HIDE DEF versions
  <2>6. Smooth(F, old, versions, ports, SnmpOptions)
    <3>1. \A i \in DOMAIN port : port[i] \notin Checked BY DEF Checked, MinLength, MaxLength
    <3>2. ToSet(port) \subseteq SnmpOptions BY DEF ToSet, SnmpOptions, SnmpMembers, Kept
    <3> HIDE DEF port
    <3>3. Smooth(F, old, versions, ports, ToSet(port))
      BY <2>5, <3>1, PlainTouches DEF Smooth
    <3>4. QED BY <3>2, <3>3 DEF Smooth
  <2> HIDE DEF ports
  <2>7. Smooth(F, old, ports, last, SnmpOptions)
    BY <2>6, PatchVersionMembersSmooth DEF Smooth
  <2> HIDE DEF last
  <2>8. Smooth(F, old, on, ports, SnmpOptions) BY <2>5, <2>6, SmoothOn
  <2>9. Smooth(F, old, on, last, SnmpOptions) BY <2>7, <2>8, SmoothOn
  <2>10. Smooth(F, old, s, last, DOMAIN SnmpMembers) BY <1>0, <2>3, <2>9, SmoothOn
  <2>11. last.mem[switch] = body[switch] BY <1>0, <2>2, <2>4, <2>9 DEF Smooth
  <2>12. QED BY <2>1, <2>10, <2>11
<1>4. QED BY <1>1, <1>2, <1>3

LEMMA PatchDateUnderWay ==
    ASSUME NEW F, NEW old, NEW s \in UnderWay(F, old),
           NEW body, Body("NetworkProtocol", F, body)
    PROVE  PatchDate(s, body) \in UnderWay(F, old)
<1> DEFINE dated == Set(s, "NTP.Date", "other")
<1>1. "other" \in Puts BY DEF Puts
<1>2. dated \in UnderWay(F, old) BY <1>1, SetUnderWay
<1>3. Set(dated, "NTP.Time", "other") \in UnderWay(F, old)
  <2> HIDE DEF dated
  <2> QED BY <1>1, <1>2, SetUnderWay
<1>4. PatchDate(s, body) \in {s, Stop(s), Set(dated, "NTP.Time", "other")}
  BY Zenon DEF PatchDate
<1>5. QED
  <2> HIDE DEF dated
  <2> QED BY <1>3, <1>4, StopUnderWay

LEMMA PatchZoneUnderWay ==
    ASSUME NEW F, NEW old, NEW s \in UnderWay(F, old),
           NEW body, Body("NetworkProtocol", F, body)
    PROVE  PatchZone(s, body) \in UnderWay(F, old)
<1> DEFINE zone == "NTP.TimeZone"
<1>1. CASE zone \notin DOMAIN body \/ body[zone] = Held(s, zone)
  BY <1>1, PatchDateUnderWay DEF PatchZone
<1>2. CASE ~(zone \notin DOMAIN body \/ body[zone] = Held(s, zone)) /\ body[zone] = "bad"
  BY <1>2, StopUnderWay DEF PatchZone
<1>3. CASE ~(zone \notin DOMAIN body \/ body[zone] = Held(s, zone)) /\ body[zone] # "bad"
  <2>1. body[zone] \in Puts BY <1>3 DEF Body, Puts
  <2>2. PatchZone(s, body) = Set(s, zone, body[zone]) BY <1>3 DEF PatchZone
  <2>3. QED BY <2>1, <2>2, SetUnderWay
<1>4. QED BY <1>1, <1>2, <1>3

LEMMA PatchNtpUnderWay ==
    ASSUME NEW F, NEW old, NEW s \in UnderWay(F, old),
           NEW body, Body("NetworkProtocol", F, body)
    PROVE  PatchNtp(s, body) \in UnderWay(F, old)
<1> DEFINE switch == "NTP.ProtocolEnabled"
           on == (IF switch \in DOMAIN body THEN body[switch] ELSE Held(s, switch)) = On
           r == IF on THEN PatchTimeServers(s, body) ELSE PatchZone(s, body)
           v == IF on THEN On ELSE Off
<1>1. r \in UnderWay(F, old)
  <2>1. PatchTimeServers(s, body) \in UnderWay(F, old)
    BY NetworkThrough DEF PatchTimeServers
  <2>2. QED BY <2>1, PatchZoneUnderWay
<1>2. Set(r, switch, v) \in UnderWay(F, old)
  <2>1. v \in Puts BY DEF On, Off, Puts
  <2> HIDE DEF r, v
  <2>2. QED BY <1>1, <2>1, SetUnderWay
<1>3. PatchNtp(s, body) \in {s, r, Set(r, switch, v)}
  BY Zenon DEF PatchNtp
<1>4. QED
  <2> HIDE DEF r, v
  <2> QED BY <1>1, <1>2, <1>3

\* What comes before the time servers touches nothing of them.
LEMMA BeforeNtp ==
    ASSUME NEW F, NEW old, NEW s \in UnderWay(F, old),
           NEW body, Body("NetworkProtocol", F, body)
    PROVE  LET described == Through(s, body, Plain(<<"Description">>))
           IN Smooth(F, old, s, PatchPorts(PatchSnmp(described, body), body),
                     {"Description"} \cup DOMAIN SnmpMembers \cup ToSet(Ports))
<1> DEFINE ms == <<"Description">>
           described == Through(s, body, Plain(ms))
           snmp == PatchSnmp(described, body)
           ports == PatchPorts(snmp, body)
<1>1. /\ \A i \in DOMAIN ms : ms[i] \notin Checked
      /\ ToSet(ms) = {"Description"}
  BY DEF Checked, MinLength, MaxLength, ToSet
<1> HIDE DEF ms
<1>2. Smooth(F, old, s, described, {"Description"}) BY <1>1, PlainTouches
<1> HIDE DEF described
<1>3. Smooth(F, old, described, snmp, DOMAIN SnmpMembers)
  BY <1>2, PatchSnmpSmooth DEF Smooth
<1> HIDE DEF snmp
<1>4. \A i \in DOMAIN Ports : Ports[i] \notin Checked
  BY DEF Ports, Checked, MinLength, MaxLength
<1>5. Smooth(F, old, snmp, ports, ToSet(Ports))
  BY <1>3, <1>4, PlainTouches DEF Smooth, PatchPorts
<1> HIDE DEF ports
<1>6. Smooth(F, old, s, snmp, {"Description"} \cup DOMAIN SnmpMembers)
  BY <1>2, <1>3, SmoothOn
<1>7. Smooth(F, old, s, ports, {"Description"} \cup DOMAIN SnmpMembers \cup ToSet(Ports))
  BY <1>5, <1>6, SmoothOn
<1>8. QED BY <1>7 DEF ports, snmp, described, ms

LEMMA PatchNetworkProtocolUnderWay ==
    ASSUME NEW F, NEW old, NEW s \in UnderWay(F, old),
           NEW body, Body("NetworkProtocol", F, body)
    PROVE  PatchNetworkProtocol(s, body) \in UnderWay(F, old)
<1> DEFINE ports == PatchPorts(PatchSnmp(Through(s, body, Plain(<<"Description">>)), body), body)
<1>1. ports \in UnderWay(F, old) BY BeforeNtp DEF Smooth
<1>2. PatchNtp(ports, body) \in UnderWay(F, old)
  <2> HIDE DEF ports
  <2> QED BY <1>1, PatchNtpUnderWay
<1>3. QED BY <1>2 DEF PatchNetworkProtocol

-----------------------------------------------------------------------------
(* The other handlers, and all of them.                                        *)

LEMMA TakenOnlyUnderWay ==
    ASSUME NEW F, NEW old, NEW s \in UnderWay(F, old)
    PROVE  TakenOnly(s) \in UnderWay(F, old)
BY DEF TakenOnly, UnderWay

LEMMA AllOrNoneUnderWay ==
    ASSUME NEW k, NEW F, NEW old, NEW s \in UnderWay(F, old), NEW body, Body(k, F, body), NEW ms
    PROVE  AllOrNone(s, body, ms) \in UnderWay(F, old)
<1>1. AllOrNone(s, body, ms) \in {Stop(s), Through(s, body, Plain(ms))}
  BY Zenon DEF AllOrNone
<1>2. QED BY <1>1, StopUnderWay, ThroughUnderWay

LEMMA PatchLogServiceUnderWay ==
    ASSUME NEW k, NEW F, NEW old, NEW s \in UnderWay(F, old), NEW body, Body(k, F, body)
    PROVE  PatchLogService(s, body) \in UnderWay(F, old)
<1> DEFINE r == Through(s, body, <<Step("ServiceEnabled", "never"),
                                   Step("DateTimeLocalOffset", "fail")>>)
<1>1. r \in UnderWay(F, old) BY ThroughUnderWay
<1>2. PatchLogService(s, body) \in {r, Through(r, body, <<Step("SyslogFilters", "half")>>)}
  BY Zenon DEF PatchLogService
<1> HIDE DEF r
<1>3. QED BY <1>1, <1>2, ThroughUnderWay

\* A handler leaves the members it does not put a value in as they were.
LEMMA PatchedUnderWay ==
    ASSUME NEW k \in DOMAIN Patchable, NEW F, NEW mem0 \in [F -> Values],
           NEW body, Body(k, F, body)
    PROVE  Patched(k, mem0, body) \in UnderWay(F, mem0)
<1> DEFINE s == Started(mem0)
<1>1. s \in UnderWay(F, mem0) BY StartedUnderWay
<1>2. k \in {"AccountService", "SessionService", "Manager", "NetworkProtocol", "SyslogService",
             "Systems", "Chassis", "PowerControl", "Drive", "EventService", "EventDestination",
             "LogService"}
  BY DEF Patchable
<1>3. \A steps : /\ Through(s, body, steps) \in UnderWay(F, mem0)
                 /\ TakenOnly(Through(s, body, steps)) \in UnderWay(F, mem0)
  BY <1>1, ThroughUnderWay, TakenOnlyUnderWay
<1>4. \A ms : AllOrNone(s, body, ms) \in UnderWay(F, mem0)
  BY <1>1, AllOrNoneUnderWay
<1>5. CASE k = "AccountService"
  <2>1. PatchAccountServiceMembers(s, body) \in UnderWay(F, mem0)
    <3>1. Sound(F, mem0, s)
      <4>1. s.mem = mem0 BY StartedUnderWay
      <4>2. QED BY <1>1, <4>1 DEF Sound
    <3> HIDE DEF s
    <3>2. QED BY <1>5, <3>1, PatchAccountServiceSound DEF Sound
  <2>2. QED BY <1>5, <2>1 DEF Patched
<1>6. CASE k = "NetworkProtocol"
  <2>1. PatchNetworkProtocol(s, body) \in UnderWay(F, mem0)
    BY <1>1, <1>6, PatchNetworkProtocolUnderWay
  <2>2. QED BY <1>6, <2>1 DEF Patched
<1>7. CASE k = "LogService"
  BY <1>1, <1>7, PatchLogServiceUnderWay DEF Patched
<1>8. CASE k = "EventService"
  BY <1>4, <1>8 DEF Patched, PatchEventService
<1>9. CASE k = "EventDestination"
  BY <1>4, <1>9 DEF Patched, PatchSubscription
<1>10. CASE k \in {"SessionService", "SyslogService", "Systems"}
  BY <1>3, <1>10 DEF Patched, PatchSessionServiceMembers, PatchSyslog, PatchSystem
<1>11. CASE k \in {"Manager", "Chassis", "PowerControl", "Drive"}
  BY <1>3, <1>11 DEF Patched, PatchManager, PatchChassis, PatchPowerControl, PatchDrive
<1>12. QED BY <1>2, <1>5, <1>6, <1>7, <1>8, <1>9, <1>10, <1>11

-----------------------------------------------------------------------------
(* The inductive invariants.                                                   *)

\* What is in a whole file is what clients were last told or what the members are, in all
\* that is not forgotten; it is what they were told while no request is under way, and what
\* they are when one is answered.
Stored ==
    /\ pc = "run" => file = answered
    /\ pc = "answer" => file = mem
    /\ Whole /\ kind \notin MadeAnew =>
          file = answered \/ \A m \in Focus \ Forgotten[kind] : file[m] = mem[m]

\* What lasts of a resource of class k that how has made: the limits are ordered and one
\* directory is on, what nothing gave a value is listed, and a copy tells of the module.
Fits(k, how, f) ==
    /\ LimitsOrdered(f) /\ OneOn(f)
    /\ \A m \in DOMAIN f : f[m] = "junk" => m \in Uninitialised[k]
    /\ how = "module" => \A m \in DOMAIN f \ CopyLoses[k] : f[m] = "module"

\* It does of the members in memory and of those in a whole file, whatever the program does.
Lasting == Fits(kind, maker, mem) /\ (Whole => Fits(kind, maker, file))

-----------------------------------------------------------------------------
(* Types.                                                                      *)

LEMMA BodiesBody ==
    ASSUME NEW b \in Bodies
    PROVE  Body(kind, Focus, b)
BY DEF Bodies, Body

LEMMA PatchedFocus ==
    ASSUME TypeOK, HasHandler, NEW b \in Bodies
    PROVE  /\ Patched(kind, mem, b) \in UnderWay(Focus, mem)
           /\ DOMAIN b \subseteq Focus
BY BodiesBody, PatchedUnderWay DEF TypeOK, HasHandler, Body

LEMMA MadeTyped ==
    ASSUME NEW k, NEW how, NEW focus
    PROVE  Made(k, how, focus) \in [focus -> Values]
<1>1. \A m : InitValue(m) \in Values BY InitValuePut DEF Puts, Values
<1>2. QED BY <1>1 DEF Made, Constructed, Values

LEMMA LoadedTyped ==
    ASSUME NEW k, NEW F, NEW content \in [F -> Values]
    PROVE  Loaded(k, content) \in [F -> Values]
BY DEF Loaded, Constructed, Values

\* What a step that leaves the class alone has to show.
LEMMA TypesKept ==
    ASSUME TypeOK, UNCHANGED <<kind, maker>>, mem' \in [Focus -> Values],
           pc' \in {"open", "write", "run", "answer", "down", "lost"},
           saved' \in {"run", "answer"},
           file' \in {NoFile, Torn} \cup [Focus -> Values],
           answered' \in {NotYet} \cup [Focus -> Values], DOMAIN asked' \subseteq Focus
    PROVE  TypeOK'
<1>1. Focus' = Focus BY DEF Focus
<1> HIDE DEF Focus
<1>2. QED BY <1>1 DEF TypeOK

LEMMA TypeInit == Init => TypeOK
<1> SUFFICES ASSUME Init PROVE TypeOK
  OBVIOUS
<1>1. PICK f \in Foci(kind) : mem = Made(kind, maker, f) BY DEF Init
<1>2. mem \in [f -> Values] /\ Focus = f BY <1>1, MadeTyped DEF Focus
<1>3. QED BY <1>1, <1>2 DEF Init, TypeOK, Nothing

LEMMA TypeStep == TypeOK /\ [Next]_vars => TypeOK'
<1> SUFFICES ASSUME TypeOK, [Next]_vars PROVE TypeOK'
  OBVIOUS
<1> USE DEF TypeOK
<1>1. CASE Open BY <1>1, TypesKept DEF Open
<1>2. CASE Write BY <1>2, TypesKept DEF Write
<1>3. CASE PatchAccepted
  <2>1. HasHandler BY <1>3 DEF PatchAccepted
  <2>2. PICK b \in Bodies : mem' = Patched(kind, mem, b).mem /\ asked' = b
    BY <1>3 DEF PatchAccepted
  <2>3. mem' \in [Focus -> Values] /\ DOMAIN asked' \subseteq Focus
    BY <2>1, <2>2, PatchedFocus DEF UnderWay
  <2>4. QED BY <1>3, <2>3, TypesKept DEF PatchAccepted
<1>4. CASE PatchRefused
  <2>1. HasHandler BY <1>4 DEF PatchRefused
  <2>2. PICK b \in Bodies : mem' = Patched(kind, mem, b).mem
    BY <1>4 DEF PatchRefused
  <2>3. mem' \in [Focus -> Values]
    BY <2>1, <2>2, PatchedFocus DEF UnderWay
  <2>4. QED BY <1>4, <2>3, TypesKept DEF PatchRefused
<1>5. CASE Answer BY <1>5, TypesKept DEF Answer, Nothing
<1>6. CASE PatchFanMode
  <2>1. mem' \in [Focus -> Values] BY <1>6 DEF PatchFanMode, Values
  <2>2. QED BY <1>6, <2>1, TypesKept DEF PatchFanMode
<1>7. CASE AddModuleAgain
  <2>1. mem' \in [Focus -> Values] BY <1>7 DEF AddModuleAgain, Values
  <2>2. QED BY <1>7, <2>1, TypesKept DEF AddModuleAgain
<1>8. CASE Crash BY <1>8, TypesKept DEF Crash, Nothing
<1>9. CASE Load
  <2>1. file \in [Focus -> Values] BY <1>9 DEF Load, Whole
  <2>2. mem' \in [Focus -> Values] BY <1>9, <2>1, LoadedTyped DEF Load
  <2>3. QED BY <1>9, <2>2, TypesKept DEF Load
<1>10. CASE MakeAnew BY <1>10, MadeTyped, TypesKept DEF MakeAnew
<1>11. CASE MakeMissing BY <1>11, MadeTyped, TypesKept DEF MakeMissing
<1>12. CASE Lose BY <1>12, TypesKept DEF Lose
<1>13. CASE UNCHANGED vars
  BY <1>13, TypesKept DEF vars
<1>14. QED
  BY <1>1, <1>2, <1>3, <1>4, <1>5, <1>6, <1>7, <1>8, <1>9, <1>10, <1>11, <1>12, <1>13 DEF Next

\* Whatever handles a resource, through crashes and starts: its members, its file and what
\* clients were told of it have their types, and are about the same members.
THEOREM TypeCorrect == Spec => []TypeOK
BY TypeInit, TypeStep, PTL DEF Spec

-----------------------------------------------------------------------------
(* What a restart keeps.                                                       *)

\* No file that is whole, and nothing a client was told, is mistaken for a mark.
LEMMA FocusShown ==
    ASSUME TypeOK
    PROVE  /\ kind \in Kinds /\ Focus \subseteq DOMAIN Shown[kind]
           /\ NotYet \notin [Focus -> Values]
           /\ NoFile \notin [Focus -> Values] /\ Torn \notin [Focus -> Values]
<1>1. kind \in Kinds /\ Focus \in Foci(kind) BY DEF TypeOK
<1> HIDE DEF Focus
<1>2. Focus \subseteq DOMAIN Shown[kind] BY <1>1, GroupAssumption DEF Foci
<1>3. {"none", "torn", "notYet"} \cap Focus = {} BY <1>1, <1>2, ReadBackAssumption
<1>4. DOMAIN NotYet = {"notYet"} /\ DOMAIN NoFile = {"none"} /\ DOMAIN Torn = {"torn"}
  BY DEF NotYet, NoFile, Torn
<1>5. QED BY <1>1, <1>2, <1>3, <1>4

\* What is read from a whole file is what it has, in all that is not forgotten.
LEMMA LoadedSame ==
    ASSUME NEW k \in Kinds \ MadeAnew, NEW content, DOMAIN content \subseteq DOMAIN Shown[k],
           NEW m \in DOMAIN content, m \notin Forgotten[k]
    PROVE  Loaded(k, content)[m] = content[m]
<1>1. Shown[k][m] = m /\ m # NotRead BY ReadBackAssumption
<1>2. QED BY <1>1 DEF Loaded

LEMMA LoadedFile ==
    ASSUME TypeOK, Whole, kind \notin MadeAnew
    PROVE  /\ DOMAIN file = Focus
           /\ \A m \in Focus \ Forgotten[kind] : Loaded(kind, file)[m] = file[m]
<1>1. DOMAIN file = Focus BY DEF TypeOK, Whole
<1>2. QED BY <1>1, FocusShown, LoadedSame

LEMMA StoredInit == Init => Stored
BY DEF Init, Stored, Whole

LEMMA StoredStep == TypeOK /\ Stored /\ [Next]_vars => Stored'
<1> SUFFICES ASSUME TypeOK, Stored, [Next]_vars PROVE Stored'
  OBVIOUS
<1> USE DEF Stored
<1>0. TypeOK' BY TypeStep
<1>1. CASE Open BY <1>1 DEF Open, Whole
<1>2. CASE Write
  <2>1. file' = mem /\ mem' = mem /\ pc' \in {"run", "answer"} /\ pc' = saved
    BY <1>2 DEF Write, TypeOK
  <2>2. pc' = "run" => answered' = mem BY <1>2, <2>1 DEF Write
  <2>3. QED BY <2>1, <2>2
<1>3. CASE PatchAccepted BY <1>3 DEF PatchAccepted, Whole
<1>4. CASE PatchRefused BY <1>4 DEF PatchRefused, Whole
<1>5. CASE Answer BY <1>5 DEF Answer, Whole
<1>6. CASE PatchFanMode BY <1>6 DEF PatchFanMode, Whole
<1>7. CASE AddModuleAgain BY <1>7 DEF AddModuleAgain, Whole
<1>8. CASE Crash BY <1>8 DEF Crash, Whole, Focus
<1>9. CASE Load
  <2>1. Whole /\ kind \notin MadeAnew /\ mem' = Loaded(kind, file) BY <1>9 DEF Load
  <2>2. \A m \in Focus \ Forgotten[kind] : mem'[m] = file[m] BY <2>1, LoadedFile
  <2>3. Focus' = Focus
    <3>1. DOMAIN file = Focus BY <2>1 DEF TypeOK, Whole
    <3>2. QED BY <2>1, <3>1 DEF Loaded, Focus
  <2>4. QED BY <1>9, <2>2, <2>3 DEF Load
<1>10. CASE MakeAnew BY <1>10 DEF MakeAnew
<1>11. CASE MakeMissing BY <1>11 DEF MakeMissing, Whole
<1>12. CASE Lose BY <1>12 DEF Lose, Whole, Focus
<1>13. CASE UNCHANGED vars BY <1>13 DEF vars, Whole, Focus
<1>14. QED
  BY <1>1, <1>2, <1>3, <1>4, <1>5, <1>6, <1>7, <1>8, <1>9, <1>10, <1>11, <1>12, <1>13 DEF Next

\* After a restart on a whole file a resource is, in all its members that are read back, what
\* clients were last told or what it was when the program went down; never a mixture: wherever
\* between a PATCH and its answer the program goes down, however often it does.
THEOREM RestartCorrect == Spec => RestartKeeps
<1>1. ASSUME TypeOK, Stored, Load
      PROVE  \E whole \in {answered, mem} \ {NotYet} :
                 \A m \in Focus \ Forgotten[kind] : mem'[m] = whole[m]
  <2>1. Whole /\ kind \notin MadeAnew /\ mem' = Loaded(kind, file) BY <1>1 DEF Load
  <2>2. \A m \in Focus \ Forgotten[kind] : mem'[m] = file[m] BY <1>1, <2>1, LoadedFile
  <2>3. file \in [Focus -> Values] /\ mem \in [Focus -> Values]
    BY <1>1, <2>1 DEF TypeOK, Whole
  <2>4. file # NotYet /\ mem # NotYet BY <1>1, <2>3, FocusShown
  <2>5. CASE file = answered BY <2>2, <2>4, <2>5
  <2>6. CASE \A m \in Focus \ Forgotten[kind] : file[m] = mem[m]
    BY <2>2, <2>4, <2>6
  <2>7. QED BY <1>1, <2>1, <2>5, <2>6 DEF Stored
<1>2. TypeOK /\ Stored /\ [Next]_vars =>
        [Load => \E whole \in {answered, mem} \ {NotYet} :
                    \A m \in Focus \ Forgotten[kind] : mem'[m] = whole[m]]_vars
  BY <1>1
<1>3. Spec => [](TypeOK /\ Stored)
  BY TypeInit, TypeStep, StoredInit, StoredStep, PTL DEF Spec
<1>4. QED BY <1>2, <1>3, PTL DEF Spec, RestartKeeps

-----------------------------------------------------------------------------
(* What lasts.                                                                 *)

\* No other class has the limits or the directories.
LEMMA OtherClasses ==
    ASSUME NEW k \in Kinds, k # "AccountService", NEW f, DOMAIN f \subseteq DOMAIN Shown[k]
    PROVE  LimitsOrdered(f) /\ OneOn(f)
BY HoldersAssumption DEF LimitsOrdered, OneOn, Ldap

LEMMA MadeFits ==
    ASSUME NEW k \in Kinds, NEW how \in Makers(k), NEW focus, focus \subseteq DOMAIN Shown[k]
    PROVE  Fits(k, how, Made(k, how, focus))
<1> DEFINE f == Made(k, how, focus)
<1>0. DOMAIN f = focus BY DEF Made
<1>1. \A m : InitValue(m) # "junk" BY InitValuePut DEF Puts
<1>2. ASSUME NEW m \in focus, f[m] = "junk" PROVE m \in Uninitialised[k]
  <2>1. m \in Leaves(k, how) /\ m \in UnsetOf[k] BY <1>1, <1>2 DEF Made, Constructed
  <2>2. QED BY <2>1, UnsetAssumption
<1>3. ASSUME how = "module", NEW m \in focus, m \notin CopyLoses[k] PROVE f[m] = "module"
  <2>1. m \notin Leaves(k, "module") BY <1>3, CopyAssumption
  <2>2. QED BY <1>3, <2>1 DEF Made
<1>4. LimitsOrdered(f) /\ OneOn(f)
  <2>1. CASE k # "AccountService"
    <3> HIDE DEF f
    <3> QED BY <1>0, <2>1, OtherClasses
  <2>2. CASE k = "AccountService"
    <3>1. MinLength \in focus \/ Ldap \in focus => how = "init" /\ Leaves(k, how) = {}
      BY <2>2, HoldersAssumption DEF Ldap
    <3>2. {MinLength, MaxLength} \subseteq focus => f[MinLength] = "init" /\ f[MaxLength] = "init"
      BY <3>1 DEF Made, InitValue, OffAtInit, MinLength, MaxLength
    <3>3. Length(MinLength, "init") = 6 /\ Length(MaxLength, "init") = 24
      BY DEF Length, MinLength, MaxLength
    <3>4. LimitsOrdered(f)
      <4> HIDE DEF f
      <4> QED BY <1>0, <3>2, <3>3 DEF LimitsOrdered
    <3>5. Ldap \in focus => f[Ldap] = "b"
      BY <3>1 DEF Made, InitValue, OffAtInit, Ldap, Off
    <3>6. OneOn(f)
      <4> HIDE DEF f
      <4> QED BY <1>0, <3>5 DEF OneOn, On
    <3>7. QED BY <3>4, <3>6
  <2>3. QED BY <2>1, <2>2
<1>5. QED
  <2> HIDE DEF f
  <2>1. Fits(k, how, f) BY <1>0, <1>2, <1>3, <1>4 DEF Fits
  <2>2. QED BY <2>1 DEF f

LEMMA LoadedFits ==
    ASSUME NEW k \in Kinds \ MadeAnew, NEW how \in Makers(k), NEW F, NEW content \in [F -> Values],
           F \subseteq DOMAIN Shown[k], Fits(k, how, content)
    PROVE  Fits(k, how, Loaded(k, content))
<1> DEFINE f == Loaded(k, content)
<1>0. DOMAIN f = F /\ DOMAIN content = F BY DEF Loaded
<1>1. \A m \in F \ Forgotten[k] : f[m] = content[m] BY LoadedSame
<1>2. ASSUME NEW m \in F, f[m] = "junk" PROVE m \in Uninitialised[k]
  <2> DEFINE key == Shown[k][m]
  <2>1. m \in DOMAIN Shown[k] OBVIOUS
  <2>2. CASE key = NotRead
    <3>1. m \in UnsetOf[k] BY <1>2, <2>2 DEF Loaded, Constructed
    <3>2. QED BY <2>1, <2>2, <3>1, UnsetAssumption
  <2>3. CASE key # NotRead
    <3>1. key \in F /\ content[key] = "junk" BY <1>2, <2>3 DEF Loaded
    <3>2. key \in Uninitialised[k] BY <1>0, <3>1 DEF Fits
    <3>3. QED BY <2>1, <2>3, <3>2, UnsetAssumption
  <2>4. QED BY <2>2, <2>3
<1>3. ASSUME how = "module", NEW m \in F, m \notin CopyLoses[k] PROVE f[m] = "module"
  <2>1. m \notin Forgotten[k] BY <1>3, CopyAssumption
  <2>2. content[m] = "module" BY <1>0, <1>3 DEF Fits
  <2>3. QED BY <1>1, <2>1, <2>2
<1>4. LimitsOrdered(f) /\ OneOn(f)
  <2>1. CASE k # "AccountService"
    <3> HIDE DEF f
    <3> QED BY <1>0, <2>1, OtherClasses
  <2>2. CASE k = "AccountService"
    <3>1. Forgotten[k] = {} BY <2>2, HoldersAssumption
    <3>2. \A m \in F : f[m] = content[m] BY <1>1, <3>1
    <3>3. f \in [F -> Values] BY LoadedTyped
    <3>4. LimitsOrdered(content) /\ OneOn(content) BY DEF Fits
    <3> HIDE DEF f
    <3>5. QED BY <3>2, <3>3, <3>4, LimitsApart, DirectoriesApart
  <2>3. QED BY <2>1, <2>2
<1>5. QED
  <2> HIDE DEF f
  <2>1. Fits(k, how, f) BY <1>0, <1>2, <1>3, <1>4 DEF Fits
  <2>2. QED BY <2>1 DEF f

\* A handler orders the limits and switches the directories as it was found.
LEMMA PatchedAccountService ==
    ASSUME NEW F, NEW mem0 \in [F -> Values], NEW body, Body("AccountService", F, body)
    PROVE  Sound(F, mem0, Patched("AccountService", mem0, body))
<1> DEFINE s == Started(mem0)
<1>1. Sound(F, mem0, s) BY StartedUnderWay DEF Sound
<1>2. Patched("AccountService", mem0, body) = PatchAccountServiceMembers(s, body) BY DEF Patched
<1> HIDE DEF s
<1>3. QED BY <1>1, <1>2, PatchAccountServiceSound

LEMMA PatchedFits ==
    ASSUME TypeOK, HasHandler, NEW b \in Bodies, Fits(kind, maker, mem)
    PROVE  /\ DOMAIN Patched(kind, mem, b).mem = Focus
           /\ Fits(kind, maker, Patched(kind, mem, b).mem)
<1> DEFINE f == Patched(kind, mem, b).mem
<1>1. Patched(kind, mem, b) \in UnderWay(Focus, mem) BY PatchedFocus
<1>2. f \in [Focus -> Values] /\ \A m \in Focus : f[m] \in Puts \cup {mem[m]}
  BY <1>1 DEF UnderWay
<1>3. LimitsOrdered(f) /\ OneOn(f)
  <2>1. CASE kind # "AccountService"
    <3> HIDE DEF f
    <3>1. DOMAIN f \subseteq DOMAIN Shown[kind] /\ kind \in Kinds BY <1>2, FocusShown
    <3>2. QED BY <2>1, <3>1, OtherClasses
  <2>2. CASE kind = "AccountService"
    <3>1. mem \in [Focus -> Values] BY DEF TypeOK
    <3>2. Body("AccountService", Focus, b) BY <2>2, BodiesBody
    <3>3. Sound(Focus, mem, Patched(kind, mem, b)) BY <2>2, <3>1, <3>2, PatchedAccountService
    <3>4. QED BY <3>3 DEF Sound, Fits
  <2>3. QED BY <2>1, <2>2
<1> HIDE DEF f
<1>4. \A m \in Focus : f[m] = "junk" => m \in Uninitialised[kind]
  BY <1>2 DEF Puts, Fits, Focus
<1>5. Fits(kind, maker, f) BY <1>2, <1>3, <1>4 DEF Fits, HasHandler
<1>6. QED BY <1>2, <1>5 DEF f

\* What a step that leaves the class alone has to show.
LEMMA LastingKept ==
    ASSUME Lasting, UNCHANGED <<kind, maker>>, Fits(kind, maker, mem'),
           file' \in {file, Torn, mem}
    PROVE  Lasting'
BY DEF Lasting, Whole

LEMMA LastingInit == Init => Lasting
<1> SUFFICES ASSUME Init PROVE Lasting
  OBVIOUS
<1>0. TypeOK BY TypeInit
<1>1. PICK f \in Foci(kind) : mem = Made(kind, maker, f) BY DEF Init
<1>2. f \subseteq DOMAIN Shown[kind]
  <2>1. f = Focus BY <1>1 DEF Made, Focus
  <2>2. QED BY <1>0, <2>1, FocusShown
<1>3. Fits(kind, maker, mem) BY <1>1, <1>2, MadeFits DEF Init
<1>4. QED BY <1>3 DEF Init, Lasting, Whole

LEMMA LastingStep == TypeOK /\ Lasting /\ [Next]_vars => Lasting'
<1> SUFFICES ASSUME TypeOK, Lasting, [Next]_vars PROVE Lasting'
  OBVIOUS
<1>0. /\ kind \in Kinds /\ maker \in Makers(kind) /\ Focus \subseteq DOMAIN Shown[kind]
      /\ mem \in [Focus -> Values] /\ Fits(kind, maker, mem)
  BY FocusShown DEF TypeOK, Lasting
<1>1. CASE Open BY <1>0, <1>1, LastingKept DEF Open
<1>2. CASE Write BY <1>0, <1>2, LastingKept DEF Write
<1>3. CASE PatchAccepted
  <2>1. HasHandler BY <1>3 DEF PatchAccepted
  <2>2. PICK b \in Bodies : mem' = Patched(kind, mem, b).mem BY <1>3 DEF PatchAccepted
  <2>3. Fits(kind, maker, mem') BY <1>0, <2>1, <2>2, PatchedFits
  <2>4. QED BY <1>3, <2>3, LastingKept DEF PatchAccepted
<1>4. CASE PatchRefused
  <2>1. HasHandler BY <1>4 DEF PatchRefused
  <2>2. PICK b \in Bodies : mem' = Patched(kind, mem, b).mem BY <1>4 DEF PatchRefused
  <2>3. Fits(kind, maker, mem') BY <1>0, <2>1, <2>2, PatchedFits
  <2>4. QED BY <1>4, <2>3, LastingKept DEF PatchRefused
<1>5. CASE Answer BY <1>0, <1>5, LastingKept DEF Answer
<1>6. CASE PatchFanMode
  <2>1. DOMAIN mem' = Focus /\ \A m \in Focus : mem'[m] = mem[m] \/ m = "Reading"
    BY <1>0, <1>6 DEF PatchFanMode
  <2>2. kind = "Fan" /\ maker = "init" BY <1>6 DEF PatchFanMode
  <2>3. \A m \in Focus : mem'[m] = "junk" => m \in Uninitialised[kind]
    <3>1. \A m \in Focus : mem[m] = "junk" => m \in Uninitialised[kind]
      BY <1>0 DEF Fits
    <3>2. QED BY <2>1, <2>2, <3>1, UnsetAssumption
  <2>4. LimitsOrdered(mem') /\ OneOn(mem') BY <1>0, <2>1, <2>2, OtherClasses
  <2>5. Fits(kind, maker, mem') BY <2>1, <2>2, <2>3, <2>4 DEF Fits
  <2>6. QED BY <1>6, <2>5, LastingKept DEF PatchFanMode
<1>7. CASE AddModuleAgain
  <2>1. /\ DOMAIN mem' = Focus
        /\ \A m \in Focus : mem'[m] = IF m = "UefiDevicePaths" THEN "both" ELSE "module"
    BY <1>7 DEF AddModuleAgain
  <2>2. kind = "SoftwareInventory" BY <1>7 DEF AddModuleAgain
  <2>3. LimitsOrdered(mem') /\ OneOn(mem') BY <1>0, <2>1, <2>2, OtherClasses
  <2>4. \A m \in Focus \ CopyLoses[kind] : mem'[m] = "module"
    BY <2>1, <2>2, CopyAssumption
  <2>5. Fits(kind, maker, mem') BY <2>1, <2>3, <2>4 DEF Fits
  <2>6. QED BY <1>7, <2>5, LastingKept DEF AddModuleAgain
<1>8. CASE Crash BY <1>0, <1>8, LastingKept DEF Crash
<1>9. CASE Load
  <2>1. Whole /\ kind \notin MadeAnew /\ mem' = Loaded(kind, file) BY <1>9 DEF Load
  <2>2. file \in [Focus -> Values] /\ Fits(kind, maker, file) BY <2>1 DEF TypeOK, Whole, Lasting
  <2>3. Fits(kind, maker, mem') BY <1>0, <2>1, <2>2, LoadedFits
  <2>4. QED BY <1>9, <2>3, LastingKept DEF Load
<1>10. CASE MakeAnew BY <1>0, <1>10, MadeFits, LastingKept DEF MakeAnew
<1>11. CASE MakeMissing BY <1>0, <1>11, MadeFits, LastingKept DEF MakeMissing
<1>12. CASE Lose BY <1>0, <1>12, LastingKept DEF Lose
<1>13. CASE UNCHANGED vars BY <1>0, <1>13, LastingKept DEF vars
<1>14. QED
  BY <1>1, <1>2, <1>3, <1>4, <1>5, <1>6, <1>7, <1>8, <1>9, <1>10, <1>11, <1>12, <1>13 DEF Next

LEMMA LastingAlways == Spec => [](TypeOK /\ Lasting)
BY TypeInit, TypeStep, LastingInit, LastingStep, PTL DEF Spec

\* LDAP and the active directory are never both on, whatever bodies are sent to the account
\* service, in whatever order its handler is left and the program goes down.
THEOREM DirectoryCorrect == Spec => []OneDirectory
<1>1. TypeOK /\ Lasting => OneDirectory
  BY DEF Lasting, Fits, OneOn, OneDirectory, Ldap, ActiveDirectory, Focus
<1>2. QED BY <1>1, LastingAlways, PTL

\* The least length of a password never passes the greatest, in memory and in the file.
THEOREM LimitsCorrect == Spec => []PasswordLimitsOrdered
<1>1. ASSUME TypeOK, Lasting PROVE PasswordLimitsOrdered
  <2>1. SUFFICES ASSUME NEW held \in {mem, file}, {MinLength, MaxLength} \subseteq DOMAIN held
                 PROVE  Length(MinLength, held[MinLength]) <= Length(MaxLength, held[MaxLength])
    BY DEF PasswordLimitsOrdered
  <2>2. LimitsOrdered(mem) /\ (Whole => LimitsOrdered(file)) BY <1>1 DEF Lasting, Fits
  <2>3. held = file => Whole
    BY <2>1 DEF Whole, NoFile, Torn, MinLength
  <2>4. QED BY <2>1, <2>2, <2>3 DEF LimitsOrdered
<1>2. QED BY <1>1, LastingAlways, PTL

\* A copy of a module's resource tells what the module tells, through crashes, starts and the
\* module's coming again.
THEOREM CopyCorrect == Spec => []CopyTellsModule
<1>1. TypeOK /\ Lasting => CopyTellsModule
  BY DEF Lasting, Fits, CopyTellsModule, Focus
<1>2. QED BY <1>1, LastingAlways, PTL

\* What no constructor, maker or file gives a value is among the members listed for its class,
\* however often a resource has been read from its file.
THEOREM InitialisedCorrect == Spec => []NothingUninitialised
<1>1. TypeOK /\ Lasting => NothingUninitialised
  BY DEF Lasting, Fits, NothingUninitialised, Focus
<1>2. QED BY <1>1, LastingAlways, PTL

-----------------------------------------------------------------------------
(* What a refused request changes.                                             *)

\* Steps that leave nothing half done have changed nothing when none has taken a value.
LEMMA ThroughNone ==
    ASSUME NEW F, NEW old, NEW s \in UnderWay(F, old), NEW body, NEW steps,
           \A i \in DOMAIN steps : steps[i].wrong # "half",
           ~Through(s, body, steps).any
    PROVE  Through(s, body, steps).mem = s.mem
<1> DEFINE taken == {step \in Reached(s, body, steps) : body[step.member] # "bad"}
<1>1. taken = {} BY DEF Through
<1>2. \A m : Step(m, "half") \notin Reached(s, body, steps) BY DEF Reached, Step
<1>3. Through(s, body, steps).mem = [m \in DOMAIN s.mem |-> s.mem[m]]
  <2> HIDE DEF taken
  <2>1. Through(s, body, steps).mem =
            [m \in DOMAIN s.mem |->
                IF \E step \in taken : step.member = m THEN body[m]
                ELSE IF Step(m, "half") \in Reached(s, body, steps) THEN "other" ELSE s.mem[m]]
    BY DEF Through, taken
  <2>2. QED BY <1>1, <1>2, <2>1
<1>4. QED BY <1>3 DEF UnderWay

\* So have steps of which only the first can stop, when that was why.
LEMMA ThroughFirst ==
    ASSUME NEW F, NEW old, NEW s \in UnderWay(F, old), s.ok, ~s.stopped, NEW body, NEW steps,
           \E n \in Nat : DOMAIN steps = 1 .. n,
           steps[1].wrong = "stop",
           \A i \in DOMAIN steps : steps[i].wrong # "half",
           \A i \in DOMAIN steps \ {1} :
               steps[i].member \in DOMAIN body => body[steps[i].member] # "bad",
           ~s.any,
           ~Through(s, body, steps).ok \/ ~Through(s, body, steps).any
    PROVE  Through(s, body, steps).mem = s.mem
<1>1. CASE Through(s, body, steps).ok
  BY <1>1, ThroughNone
<1>2. CASE ~Through(s, body, steps).ok
  <2>1. PICK step \in Reached(s, body, steps) : body[step.member] = "bad"
    BY <1>2 DEF Through
  <2>2. PICK i \in DOMAIN steps : step = steps[i] /\ step.member \in DOMAIN body
    BY DEF Reached
  <2>3. i = 1 BY <2>1, <2>2
  <2>4. Stops(body, steps[1]) BY <2>1, <2>2, <2>3 DEF Stops
  <2>5. \A j \in DOMAIN steps : steps[j] \in Reached(s, body, steps) => steps[j] = steps[1]
    <3>1. SUFFICES ASSUME NEW j \in DOMAIN steps, steps[j] \in Reached(s, body, steps)
                   PROVE  steps[j] = steps[1]
      OBVIOUS
    <3>2. PICK l \in DOMAIN steps : steps[j] = steps[l] /\ \A q \in 1 .. l - 1 : ~Stops(body, steps[q])
      BY <3>1 DEF Reached
    <3>3. l = 1 \/ 1 \in 1 .. l - 1 BY <3>2
    <3>4. QED BY <2>4, <3>2, <3>3
  <2>6. \A r \in Reached(s, body, steps) : body[r.member] = "bad"
    <3>1. \A r \in Reached(s, body, steps) : \E j \in DOMAIN steps : r = steps[j] BY DEF Reached
    <3>2. \A r \in Reached(s, body, steps) : r = steps[1] BY <2>5, <3>1
    <3>3. QED BY <2>1, <2>2, <2>3, <3>2
  <2>7. ~Through(s, body, steps).any
    BY <2>6 DEF Through
  <2>8. QED BY <2>7, ThroughNone
<1>3. QED BY <1>1, <1>2

LEMMA PlainTaken ==
    ASSUME NEW s, NEW body, s.ok \in BOOLEAN, s.stopped \in BOOLEAN,
           NEW ms, \A m \in ToSet(ms) \cap DOMAIN body : body[m] # "bad"
    PROVE  /\ Through(s, body, Plain(ms)).ok = s.ok
           /\ Through(s, body, Plain(ms)).stopped = s.stopped
<1>1. \A i \in DOMAIN Plain(ms) : Plain(ms)[i].member \in ToSet(ms)
  BY DEF Plain, Step, ToSet
<1>2. \A i \in DOMAIN Plain(ms) :
          Plain(ms)[i].member \in DOMAIN body => body[Plain(ms)[i].member] # "bad"
  BY <1>1
<1>3. QED BY <1>2, ThroughSmooth

\* The event service and its subscriptions take all members or none.
LEMMA AllOrNoneRefused ==
    ASSUME NEW F, NEW old, NEW s \in UnderWay(F, old), NEW body, NEW ms
    PROVE  AllOrNone(s, body, ms).mem = s.mem \/ AllOrNone(s, body, ms).ok = s.ok
<1> DEFINE ask == ToSet(ms) \cap DOMAIN body
<1>1. CASE ask = {} \/ \E m \in ask : body[m] = "bad"
  <2>1. AllOrNone(s, body, ms) = Stop(s) BY <1>1 DEF AllOrNone
  <2>2. QED BY <2>1 DEF Stop, UnderWay
<1>2. CASE ~(ask = {} \/ \E m \in ask : body[m] = "bad")
  <2>1. AllOrNone(s, body, ms) = Through(s, body, Plain(ms)) BY <1>2 DEF AllOrNone
  <2>2. s.ok \in BOOLEAN /\ s.stopped \in BOOLEAN BY DEF UnderWay
  <2>3. \A m \in ToSet(ms) \cap DOMAIN body : body[m] # "bad" BY <1>2
  <2>4. Through(s, body, Plain(ms)).ok = s.ok BY <2>2, <2>3, PlainTaken
  <2>5. QED BY <2>1, <2>4
<1>3. QED BY <1>1, <1>2

LEMMA PlainNone ==
    ASSUME NEW F, NEW old, NEW s \in UnderWay(F, old), NEW body, NEW ms,
           ~Through(s, body, Plain(ms)).any
    PROVE  Through(s, body, Plain(ms)).mem = s.mem
<1>1. \A i \in DOMAIN Plain(ms) : Plain(ms)[i].wrong # "half" BY DEF Plain, Step
<1>2. QED BY <1>1, ThroughNone

\* What those do that refuse nothing but a light, or nothing at all, after all of it.
LEMMA LightFirst ==
    ASSUME NEW k, k # "LogService", NEW F, NEW mem0 \in [F -> Values], NEW body, Body(k, F, body),
           NEW steps, \E n \in Nat : DOMAIN steps = 1 .. n,
           steps[1] = Step("IndicatorLED", "stop"),
           \A i \in DOMAIN steps \ {1} :
               steps[i].member \notin Checked /\ steps[i].wrong = "never",
           LET r == Through(Started(mem0), body, steps) IN ~r.ok \/ ~r.any
    PROVE  Through(Started(mem0), body, steps).mem = mem0
<1> DEFINE s == Started(mem0)
<1>1. s \in UnderWay(F, mem0) /\ s.ok /\ ~s.stopped /\ ~s.any /\ s.mem = mem0
  BY StartedUnderWay DEF Started
<1>2. /\ steps[1].wrong = "stop"
      /\ \A i \in DOMAIN steps : steps[i].wrong # "half"
  BY DEF Step
<1>3. \A i \in DOMAIN steps \ {1} :
          steps[i].member \in DOMAIN body => body[steps[i].member] # "bad"
  BY DEF Body, CanBeBad
<1>4. ~Through(s, body, steps).ok \/ ~Through(s, body, steps).any
  OBVIOUS
<1> HIDE DEF s
<1>5. Through(s, body, steps).mem = s.mem BY <1>1, <1>2, <1>3, <1>4, ThroughFirst
<1>6. QED BY <1>1, <1>5 DEF s

\* A handler that refuses for want of a member has taken none.
LEMMA TakenOnlyRefused ==
    ASSUME NEW F, NEW old, NEW r \in UnderWay(F, old), ~TakenOnly(r).ok
    PROVE  TakenOnly(r).mem = r.mem /\ (~r.ok \/ ~r.any)
BY DEF TakenOnly, UnderWay

LEMMA PlainRefused ==
    ASSUME NEW k, k # "LogService", NEW F, NEW mem0 \in [F -> Values], NEW body, Body(k, F, body),
           NEW ms, \A i \in DOMAIN ms : ms[i] \notin Checked,
           ~TakenOnly(Through(Started(mem0), body, Plain(ms))).ok
    PROVE  TakenOnly(Through(Started(mem0), body, Plain(ms))).mem = mem0
<1> DEFINE s == Started(mem0)
           r == Through(s, body, Plain(ms))
<1>1. s \in UnderWay(F, mem0) /\ s.mem = mem0 BY StartedUnderWay
<1>2. s.ok = TRUE /\ s.ok \in BOOLEAN /\ s.stopped \in BOOLEAN BY DEF Started
<1>3. ~TakenOnly(r).ok OBVIOUS
<1> HIDE DEF s
<1>4. r.ok = s.ok BY <1>2, PlainSmooth
<1>5. r \in UnderWay(F, mem0) BY <1>1, ThroughUnderWay
<1>6. ~r.any => r.mem = s.mem BY <1>1, PlainNone
<1> HIDE DEF r
<1>7. TakenOnly(r).mem = r.mem /\ (~r.ok \/ ~r.any) BY <1>3, <1>5, TakenOnlyRefused
<1>8. TakenOnly(r).mem = mem0 BY <1>1, <1>2, <1>4, <1>6, <1>7
<1>9. QED BY <1>8 DEF r, s

\* The classes whose handler may have changed something when it refuses.
Partly == {"AccountService", "NetworkProtocol", "LogService"}

LEMMA RefusedLeaves ==
    ASSUME NEW k \in DOMAIN Patchable \ Partly, NEW F, NEW mem0 \in [F -> Values],
           NEW body, Body(k, F, body), ~Patched(k, mem0, body).ok
    PROVE  Patched(k, mem0, body).mem = mem0
<1> DEFINE s == Started(mem0)
<1>1. /\ s \in UnderWay(F, mem0) /\ s.mem = mem0 /\ s.ok = TRUE
      /\ s.ok \in BOOLEAN /\ s.stopped \in BOOLEAN
  BY StartedUnderWay DEF Started
<1>2. k \in {"SessionService", "Manager", "SyslogService", "Systems", "Chassis", "PowerControl",
             "Drive", "EventService", "EventDestination"}
  BY DEF Patchable, Partly
<1>3. k # "LogService" BY <1>2
<1>4. \A steps : Through(s, body, steps) \in UnderWay(F, mem0)
  BY <1>1, ThroughUnderWay
<1>6. CASE k = "SessionService"
  <2> DEFINE ms == <<"SessionTimeout", "ServiceEnabled">>
  <2>1. \A i \in DOMAIN ms : ms[i] \notin Checked BY DEF Checked, MinLength, MaxLength
  <2>2. Patched(k, mem0, body) = Through(s, body, Plain(ms))
    BY <1>6 DEF Patched, PatchSessionServiceMembers
  <2> HIDE DEF ms, s
  <2>3. Through(s, body, Plain(ms)).ok = s.ok BY <1>1, <1>3, <2>1, PlainSmooth
  <2>4. QED BY <1>1, <2>2, <2>3
<1>7. CASE k = "SyslogService"
  <2> DEFINE steps == <<Step("EnableSyslog", "never"), Step("SyslogPortNumber", "skip"),
                        Step("SyslogServer", "skip")>>
  <2>1. Patched(k, mem0, body) = Through(s, body, steps) BY <1>7 DEF Patched, PatchSyslog
  <2>2. "EnableSyslog" \in DOMAIN body => body["EnableSyslog"] # "bad"
    BY <1>7 DEF Body, CanBeBad, Checked, MinLength, MaxLength
  <2>3. \A i \in DOMAIN steps : steps[i].member \in DOMAIN body
            => body[steps[i].member] # "bad" \/ steps[i].wrong = "skip"
    BY <2>2 DEF Step
  <2> HIDE DEF steps, s
  <2>4. Through(s, body, steps).ok = s.ok BY <1>1, <2>3, ThroughSmooth
  <2>5. QED BY <1>1, <2>1, <2>4
<1>8. CASE k = "Manager"
  <2> DEFINE ms == <<"Description", "DateTime", "DateTimeLocalOffset">>
  <2>1. \A i \in DOMAIN ms : ms[i] \notin Checked BY DEF Checked, MinLength, MaxLength
  <2>2. Patched(k, mem0, body) = TakenOnly(Through(s, body, Plain(ms)))
    BY <1>8 DEF Patched, PatchManager
  <2> HIDE DEF ms
  <2>3. QED BY <1>3, <2>1, <2>2, PlainRefused
<1>9. CASE k = "PowerControl"
  <2> DEFINE ms == <<"PowerLimit">>
  <2>1. \A i \in DOMAIN ms : ms[i] \notin Checked BY DEF Checked, MinLength, MaxLength
  <2>2. Patched(k, mem0, body) = TakenOnly(Through(s, body, Plain(ms)))
    BY <1>9 DEF Patched, PatchPowerControl
  <2> HIDE DEF ms
  <2>3. QED BY <1>3, <2>1, <2>2, PlainRefused
<1>10. CASE k = "Drive"
  <2> DEFINE ms == <<"AssetTag">>
  <2>1. \A i \in DOMAIN ms : ms[i] \notin Checked BY DEF Checked, MinLength, MaxLength
  <2>2. Patched(k, mem0, body) = TakenOnly(Through(s, body, Plain(ms)))
    BY <1>10 DEF Patched, PatchDrive
  <2> HIDE DEF ms
  <2>3. QED BY <1>3, <2>1, <2>2, PlainRefused
<1>11. CASE k = "Systems"
  <2> DEFINE steps == <<Step("IndicatorLED", "stop"), Step("Description", "never"),
                        Step("HostName", "never"), Step("AssetTag", "never"),
                        Step("Boot", "never")>>
  <2>1. Patched(k, mem0, body) = Through(s, body, steps) BY <1>11 DEF Patched, PatchSystem
  <2>2. DOMAIN steps = 1 .. 5 /\ steps[1] = Step("IndicatorLED", "stop") OBVIOUS
  <2>3. \A i \in DOMAIN steps \ {1} :
            steps[i].member \notin Checked /\ steps[i].wrong = "never"
    BY DEF Step, Checked, MinLength, MaxLength
  <2> HIDE DEF steps
  <2>4. ~Through(s, body, steps).ok BY <2>1
  <2>5. \E n \in Nat : DOMAIN steps = 1 .. n BY <2>2
  <2>6. Through(s, body, steps).mem = mem0 BY <1>3, <2>2, <2>3, <2>4, <2>5, LightFirst
  <2>7. QED BY <2>1, <2>6
<1>12. CASE k = "Chassis"
  <2> DEFINE steps == <<Step("IndicatorLED", "stop"), Step("AssetTag", "never"),
                        Step("Location", "never")>>
  <2>1. Patched(k, mem0, body) = TakenOnly(Through(s, body, steps))
    BY <1>12 DEF Patched, PatchChassis
  <2>2. DOMAIN steps = 1 .. 3 /\ steps[1] = Step("IndicatorLED", "stop") OBVIOUS
  <2>3. \A i \in DOMAIN steps \ {1} :
            steps[i].member \notin Checked /\ steps[i].wrong = "never"
    BY DEF Step, Checked, MinLength, MaxLength
  <2> HIDE DEF steps
  <2> DEFINE r == Through(s, body, steps)
  <2>4. r \in UnderWay(F, mem0) /\ ~TakenOnly(r).ok BY <1>4, <2>1
  <2> HIDE DEF r
  <2>5. TakenOnly(r).mem = r.mem /\ (~r.ok \/ ~r.any) BY <2>4, TakenOnlyRefused
  <2>6. \E n \in Nat : DOMAIN steps = 1 .. n BY <2>2
  <2>7. r = Through(Started(mem0), body, steps) BY DEF r
  <2>8. r.mem = mem0
    <3>1. LET t == Through(Started(mem0), body, steps) IN ~t.ok \/ ~t.any BY <2>5, <2>7
    <3>2. Through(Started(mem0), body, steps).mem = mem0
      BY <1>3, <2>2, <2>3, <2>6, <3>1, LightFirst
    <3>3. QED BY <2>7, <3>2
  <2>9. QED BY <2>1, <2>5, <2>8 DEF r
<1>13. CASE k = "EventService"
  BY <1>1, <1>13, AllOrNoneRefused DEF Patched, PatchEventService
<1>14. CASE k = "EventDestination"
  BY <1>1, <1>14, AllOrNoneRefused DEF Patched, PatchSubscription
<1>15. QED
  BY <1>2, <1>6, <1>7, <1>8, <1>9, <1>10, <1>11, <1>12, <1>13, <1>14

\* A request that is refused has changed nothing in memory, which no error answer undoes, but
\* for the three classes whose handlers go on after a member that will not do or meet one late.
THEOREM RefusedCorrect == Spec => RefusedChangesNothing
<1>1. ASSUME TypeOK, [Next]_vars, Patching, pc' = "run"
      PROVE  mem' = mem \/ kind \in Partly
  <2>1. pc = "run" /\ HasHandler BY <1>1 DEF Patching
  <2>2. CASE PatchRefused
    <3>1. PICK b \in Bodies : ~Patched(kind, mem, b).ok /\ mem' = Patched(kind, mem, b).mem
      BY <2>2 DEF PatchRefused
    <3>2. mem \in [Focus -> Values] /\ Body(kind, Focus, b) BY <1>1, BodiesBody DEF TypeOK
    <3>3. QED BY <2>1, <3>1, <3>2, RefusedLeaves DEF HasHandler
  <2>3. CASE ~PatchRefused
    BY <1>1, <2>1, <2>3 DEF Next, Open, Write, PatchAccepted, Answer, PatchFanMode,
       AddModuleAgain, Crash, Load, MakeAnew, MakeMissing, Lose, vars
  <2>4. QED BY <2>2, <2>3
<1>2. TypeOK /\ [Next]_vars =>
        [Patching /\ pc' = "run" =>
            mem' = mem \/ kind \in {"AccountService", "NetworkProtocol", "LogService"}]_vars
  BY <1>1 DEF Partly
<1>3. QED BY <1>2, TypeCorrect, PTL DEF Spec, RefusedChangesNothing

-----------------------------------------------------------------------------
(* The time servers or the clock.                                              *)

TimeServers == {"NTP.PrimaryNTPServer", "NTP.SecondaryNTPServer"}
Clock == {"NTP.Date", "NTP.Time", "NTP.TimeZone"}

\* The handler has set the clock, or returned before it touched anything of it.
Clocked(F, old, s, r) == Smooth(F, old, s, r, Clock) \/ (r.stopped /\ r.mem = s.mem)

\* Between f and g servers have only changed as they are used, and the clock as they are not.
OneOrOther(F, f, g, ok) ==
    /\ (\E m \in TimeServers \cap F : g[m] # f[m]) => g["NTP.ProtocolEnabled"] = On
    /\ (\E m \in Clock \cap F : g[m] # f[m]) => g["NTP.ProtocolEnabled"] = Off /\ ok = TRUE

LEMMA StopClocked ==
    ASSUME NEW F, NEW old, NEW s \in UnderWay(F, old)
    PROVE  Stop(s).stopped /\ Stop(s).mem = s.mem
BY DEF Stop, UnderWay

LEMMA PatchDateClocked ==
    ASSUME NEW F, NEW old, NEW s \in UnderWay(F, old), NEW body
    PROVE  Clocked(F, old, s, PatchDate(s, body))
<1> DEFINE dated == Set(s, "NTP.Date", "other")
           timed == Set(dated, "NTP.Time", "other")
<1>1. "other" \in Puts BY DEF Puts
<1>2. Smooth(F, old, s, dated, {"NTP.Date"}) BY <1>1, SetSmooth
<1> HIDE DEF dated
<1>3. Smooth(F, old, dated, timed, {"NTP.Time"}) BY <1>1, <1>2, SetSmooth DEF Smooth
<1> HIDE DEF timed
<1>4. Smooth(F, old, s, timed, Clock) BY <1>2, <1>3, SmoothOn DEF Clock
<1>5. Smooth(F, old, s, s, Clock) BY DEF Smooth
<1>6. PatchDate(s, body) \in {s, Stop(s), timed}
  BY Zenon DEF PatchDate, timed, dated
<1>7. QED BY <1>4, <1>5, <1>6, StopClocked DEF Clocked

LEMMA PatchZoneClocked ==
    ASSUME NEW F, NEW old, NEW s \in UnderWay(F, old),
           NEW body, Body("NetworkProtocol", F, body)
    PROVE  Clocked(F, old, s, PatchZone(s, body))
<1> DEFINE zone == "NTP.TimeZone"
<1>1. CASE zone \notin DOMAIN body \/ body[zone] = Held(s, zone)
  BY <1>1, PatchDateClocked DEF PatchZone
<1>2. CASE ~(zone \notin DOMAIN body \/ body[zone] = Held(s, zone)) /\ body[zone] = "bad"
  BY <1>2, StopClocked DEF PatchZone, Clocked
<1>3. CASE ~(zone \notin DOMAIN body \/ body[zone] = Held(s, zone)) /\ body[zone] # "bad"
  <2>1. body[zone] \in Puts BY <1>3 DEF Body, Puts
  <2>2. PatchZone(s, body) = Set(s, zone, body[zone]) BY <1>3 DEF PatchZone
  <2>3. Smooth(F, old, s, Set(s, zone, body[zone]), {zone}) BY <2>1, SetSmooth
  <2>4. Smooth(F, old, s, Set(s, zone, body[zone]), Clock) BY <2>3 DEF Smooth, Clock
  <2>5. QED BY <2>2, <2>4 DEF Clocked
<1>4. QED BY <1>1, <1>2, <1>3

LEMMA PatchTimeServersSmooth ==
    ASSUME NEW F, NEW old, NEW s \in UnderWay(F, old),
           NEW body, Body("NetworkProtocol", F, body)
    PROVE  Smooth(F, old, s, PatchTimeServers(s, body), TimeServers)
<1> DEFINE ms == <<"NTP.PrimaryNTPServer", "NTP.SecondaryNTPServer">>
<1>1. /\ \A i \in DOMAIN ms : ms[i] \notin Checked
      /\ ToSet(ms) = TimeServers
  BY DEF Checked, MinLength, MaxLength, ToSet, TimeServers
<1>2. PatchTimeServers(s, body) \in {s, Through(s, body, Plain(ms))}
  BY Zenon DEF PatchTimeServers
<1> HIDE DEF ms
<1>3. Smooth(F, old, s, Through(s, body, Plain(ms)), TimeServers) BY <1>1, PlainTouches
<1>4. QED BY <1>2, <1>3 DEF Smooth

LEMMA NtpOneOrOther ==
    ASSUME NEW F, NEW old, NEW s \in UnderWay(F, old), s.ok = TRUE, s.stopped = FALSE,
           NEW body, Body("NetworkProtocol", F, body), "NTP.ProtocolEnabled" \in F
    PROVE  OneOrOther(F, s.mem, PatchNtp(s, body).mem, PatchNtp(s, body).ok)
<1> DEFINE switch == "NTP.ProtocolEnabled"
           on == (IF switch \in DOMAIN body THEN body[switch] ELSE Held(s, switch)) = On
           v == IF on THEN On ELSE Off
           r == IF on THEN PatchTimeServers(s, body) ELSE PatchZone(s, body)
           q == Set(r, switch, v)
<1>1. v \in Puts BY DEF On, Off, Puts
<1>2. TimeServers \cap Clock = {} /\ switch \notin TimeServers \cup Clock
  BY DEF TimeServers, Clock
<1>3. CASE ~NtpMentioned(body) BY <1>3 DEF PatchNtp, OneOrOther
<1>4. CASE NtpMentioned(body) /\ on
  <2>1. r = PatchTimeServers(s, body) /\ v = On BY <1>4
  <2> HIDE DEF r, v
  <2>2. Smooth(F, old, s, r, TimeServers) BY <2>1, PatchTimeServersSmooth
  <2>3. r.stopped = FALSE BY <2>2 DEF Smooth
  <2>4. PatchNtp(s, body) = q BY <1>4, <2>3 DEF PatchNtp, r, v
  <2>5. \A n \in F : q.mem[n] = IF n = switch THEN v ELSE r.mem[n]
    BY <1>1, <2>2, SetUnderWay DEF Smooth
  <2> HIDE DEF q
  <2>6. \A m \in Clock \cap F : q.mem[m] = s.mem[m] BY <1>2, <2>2, <2>5 DEF Smooth
  <2>7. q.mem[switch] = On BY <2>1, <2>5
  <2>8. QED BY <2>4, <2>6, <2>7 DEF OneOrOther
<1>5. CASE NtpMentioned(body) /\ ~on
  <2>1. r = PatchZone(s, body) /\ v = Off BY <1>5
  <2> HIDE DEF r, v
  <2>2. Clocked(F, old, s, r) BY <2>1, PatchZoneClocked
  <2>3. CASE r.stopped
    <3>1. PatchNtp(s, body) = r BY <1>5, <2>3 DEF PatchNtp, r
    <3>2. ~Smooth(F, old, s, r, Clock) BY <2>3 DEF Smooth
    <3>3. r.mem = s.mem BY <2>2, <3>2 DEF Clocked
    <3>4. QED BY <3>1, <3>3 DEF OneOrOther
  <2>4. CASE ~r.stopped
    <3>1. Smooth(F, old, s, r, Clock) BY <2>2, <2>4 DEF Clocked
    <3>2. PatchNtp(s, body) = q BY <1>5, <2>4 DEF PatchNtp, r, v
    <3>3. /\ \A n \in F : q.mem[n] = IF n = switch THEN v ELSE r.mem[n]
          /\ q.ok = r.ok
      BY <1>1, <3>1, SetUnderWay DEF Smooth
    <3> HIDE DEF q
    <3>4. \A m \in TimeServers \cap F : q.mem[m] = s.mem[m] BY <1>2, <3>1, <3>3 DEF Smooth
    <3>5. q.mem[switch] = Off /\ q.ok = TRUE BY <2>1, <3>1, <3>3 DEF Smooth
    <3>6. QED BY <3>2, <3>4, <3>5 DEF OneOrOther
  <2>5. QED BY <2>3, <2>4
<1>6. QED BY <1>3, <1>4, <1>5

LEMMA NetworkOneOrOther ==
    ASSUME NEW F, NEW mem0 \in [F -> Values],
           NEW body, Body("NetworkProtocol", F, body), "NTP.ProtocolEnabled" \in F
    PROVE  LET r == Patched("NetworkProtocol", mem0, body) IN OneOrOther(F, mem0, r.mem, r.ok)
<1> DEFINE s == Started(mem0)
           p == PatchPorts(PatchSnmp(Through(s, body, Plain(<<"Description">>)), body), body)
<1>1. s \in UnderWay(F, mem0) /\ s.mem = mem0 BY StartedUnderWay
<1>2. s.ok = TRUE /\ s.stopped = FALSE BY DEF Started
<1>3. Patched("NetworkProtocol", mem0, body) = PatchNtp(p, body)
  BY DEF Patched, PatchNetworkProtocol
<1> HIDE DEF s
<1>4. Smooth(F, mem0, s, p, {"Description"} \cup DOMAIN SnmpMembers \cup ToSet(Ports))
  BY <1>1, BeforeNtp
<1> HIDE DEF p
<1>5. (TimeServers \cup Clock) \cap ({"Description"} \cup DOMAIN SnmpMembers \cup ToSet(Ports)) = {}
  BY DEF TimeServers, Clock, SnmpMembers, Kept, Ports, ToSet
<1>6. \A m \in (TimeServers \cup Clock) \cap F : p.mem[m] = mem0[m]
  BY <1>1, <1>4, <1>5 DEF Smooth
<1>7. p \in UnderWay(F, mem0) /\ p.ok = TRUE /\ p.stopped = FALSE BY <1>2, <1>4 DEF Smooth
<1>8. OneOrOther(F, p.mem, PatchNtp(p, body).mem, PatchNtp(p, body).ok)
  BY <1>7, NtpOneOrOther
<1>9. QED BY <1>3, <1>6, <1>8 DEF OneOrOther

\* A request changes the time servers only as they come into use or stay in it, and the clock
\* and the time zone only as they do not; refused for its date, it has changed none of these.
THEOREM ServersCorrect == Spec => ServersOrClock
<1> DEFINE Changed(ms) == \E m \in ms \cap Focus : mem'[m] # mem[m]
<1>1. ASSUME TypeOK, [Next]_vars, Patching, "NTP.ProtocolEnabled" \in Focus
      PROVE  /\ Changed(TimeServers) => mem'["NTP.ProtocolEnabled"] = On
             /\ Changed(Clock) => mem'["NTP.ProtocolEnabled"] = Off /\ pc' = "open"
  <2>1. pc = "run" /\ HasHandler BY <1>1 DEF Patching
  <2>2. kind = "NetworkProtocol" BY <1>1, FocusShown, HoldersAssumption
  <2>3. mem \in [Focus -> Values] BY <1>1 DEF TypeOK
  <2>4. CASE PatchAccepted
    <3>1. PICK b \in Bodies : mem' = Patched(kind, mem, b).mem BY <2>4 DEF PatchAccepted
    <3>2. Body("NetworkProtocol", Focus, b) BY <2>2, BodiesBody
    <3>3. pc' = "open" BY <2>4 DEF PatchAccepted
    <3>4. \E ok : OneOrOther(Focus, mem, mem', ok)
      BY <1>1, <2>2, <2>3, <3>1, <3>2, NetworkOneOrOther
    <3>5. QED BY <3>3, <3>4 DEF OneOrOther
  <2>5. CASE PatchRefused
    <3>1. PICK b \in Bodies : ~Patched(kind, mem, b).ok /\ mem' = Patched(kind, mem, b).mem
      BY <2>5 DEF PatchRefused
    <3>2. Body("NetworkProtocol", Focus, b) BY <2>2, BodiesBody
    <3>3. OneOrOther(Focus, mem, mem', Patched(kind, mem, b).ok)
      BY <1>1, <2>2, <2>3, <3>1, <3>2, NetworkOneOrOther
    <3>4. QED BY <3>1, <3>3 DEF OneOrOther
  <2>6. CASE ~PatchAccepted /\ ~PatchRefused
    <3>1. mem' = mem
      BY <1>1, <2>1, <2>2, <2>6 DEF Next, Open, Write, Answer, PatchFanMode, AddModuleAgain, Crash,
         Load, MakeAnew, MakeMissing, Lose, vars
    <3>2. QED BY <3>1
  <2>7. QED BY <2>4, <2>5, <2>6
<1>2. TypeOK /\ [Next]_vars =>
        [Patching /\ "NTP.ProtocolEnabled" \in Focus =>
            /\ Changed(TimeServers) => mem'["NTP.ProtocolEnabled"] = On
            /\ Changed(Clock) => mem'["NTP.ProtocolEnabled"] = Off /\ pc' = "open"]_vars
  BY <1>1
<1>3. QED BY <1>2, TypeCorrect, PTL DEF Spec, ServersOrClock, TimeServers, Clock

-----------------------------------------------------------------------------
(* What an accepted request has done.                                          *)

LEMMA ThroughGoesOn ==
    ASSUME NEW k, NEW F, NEW old, NEW s \in UnderWay(F, old), NEW body, Body(k, F, body),
           NEW steps
    PROVE  GoesOn(F, old, s, Through(s, body, steps))
<1> DEFINE r == Through(s, body, steps)
<1>1. r \in UnderWay(F, old) BY ThroughUnderWay
<1>2. s.ok \in BOOLEAN /\ s.stopped \in BOOLEAN BY DEF UnderWay
<1>3. r.ok = TRUE => s.ok = TRUE BY <1>2 DEF Through
<1>4. r.stopped = FALSE => s.stopped = FALSE BY <1>2 DEF Through
<1>5. ASSUME NEW step \in Reached(s, body, steps), Stops(body, step) PROVE r.ok = FALSE
  BY <1>5 DEF Through, Stops
<1>6. r.stopped = TRUE => s.stopped = TRUE \/ r.ok = FALSE
  <2>1. r.stopped = TRUE => s.stopped = TRUE \/ \E step \in Reached(s, body, steps) : Stops(body, step)
    BY <1>2 DEF Through
  <2>2. QED BY <1>5, <2>1
<1> HIDE DEF r
<1>7. GoesOn(F, old, s, r) BY <1>1, <1>3, <1>4, <1>6 DEF GoesOn
<1>8. QED BY <1>7 DEF r

\* Of the steps that stop there is a first one, and it is come to.
LEMMA FirstStop ==
    ASSUME NEW s, s.stopped = FALSE, NEW body, NEW steps, NEW n \in Nat, DOMAIN steps = 1 .. n,
           NEW i \in DOMAIN steps, Stops(body, steps[i])
    PROVE  \E step \in Reached(s, body, steps) : Stops(body, step)
<1> DEFINE less == {p \in Nat \X Nat : p[1] < p[2]}
           stopping == {j \in DOMAIN steps : Stops(body, steps[j])}
<1>1. IsWellFoundedOn(less, Nat)
  BY NatLessThanWellFounded DEF OpToRel
<1>2. stopping \in SUBSET Nat /\ stopping # {} OBVIOUS
<1>3. PICK j \in stopping : \A l \in stopping : ~(<<l, j>> \in less)
  <2> HIDE DEF less, stopping
  <2> QED BY <1>1, <1>2, WFMin
<1>4. \A l \in 1 .. j - 1 : ~Stops(body, steps[l])
  <2>1. SUFFICES ASSUME NEW l \in 1 .. j - 1, Stops(body, steps[l]) PROVE FALSE
    OBVIOUS
  <2>2. j \in 1 .. n BY <1>3
  <2>3. l \in DOMAIN steps /\ l \in Nat /\ j \in Nat /\ l < j BY <2>2
  <2>4. QED BY <1>3, <2>1, <2>3
<1>5. steps[j] \in Reached(s, body, steps) BY <1>3, <1>4 DEF Reached, Stops
<1>6. QED BY <1>3, <1>5

\* A step that is not about a member leaves it alone.
Named(steps) == {steps[i].member : i \in DOMAIN steps}

LEMMA ThroughLeaves ==
    ASSUME NEW k, NEW F, NEW old, NEW s \in UnderWay(F, old), NEW body, Body(k, F, body),
           NEW steps
    PROVE  \A m \in F \ Named(steps) : Through(s, body, steps).mem[m] = s.mem[m]
<1>1. /\ Through(s, body, steps) \in UnderWay(F, old)
      /\ \A n \in F : (\A i \in DOMAIN steps : steps[i].member # n)
                          => Through(s, body, steps).mem[n] = s.mem[n]
  BY ThroughUnderWay
<1>2. QED BY <1>1 DEF Named

\* Steps that none stopped have done all they were asked for.
LEMMA ThroughApplies ==
    ASSUME NEW k, NEW F, NEW old, NEW s \in UnderWay(F, old), NEW body, Body(k, F, body),
           NEW steps, NEW n \in Nat, DOMAIN steps = 1 .. n,
           Through(s, body, steps).stopped = FALSE,
           NEW M, Applied(s.mem, body, M), NEW N, N \subseteq M \cup Named(steps)
    PROVE  Applied(Through(s, body, steps).mem, body, N)
<1> DEFINE r == Through(s, body, steps)
<1>1. s.stopped = FALSE /\ \A step \in Reached(s, body, steps) : ~Stops(body, step)
  <2>1. s.stopped \in BOOLEAN BY DEF UnderWay
  <2>2. QED BY <2>1 DEF Through
<1>2. \A i \in DOMAIN steps : ~Stops(body, steps[i]) BY <1>1, FirstStop
<1>3. \A i \in DOMAIN steps : steps[i].member \in DOMAIN body
                              => steps[i] \in Reached(s, body, steps)
  BY <1>1, <1>2 DEF Reached
<1>4. DOMAIN s.mem = F /\ DOMAIN body \subseteq F BY DEF UnderWay, Body
<1>5. ASSUME NEW i \in DOMAIN steps, steps[i].member \in DOMAIN body,
             body[steps[i].member] # "bad"
      PROVE  r.mem[steps[i].member] = body[steps[i].member]
  BY <1>3, <1>4, <1>5 DEF Through
<1>6. \A m \in F \ Named(steps) : r.mem[m] = s.mem[m] BY ThroughLeaves
<1> HIDE DEF r
<1>7. ASSUME NEW m \in N \cap DOMAIN body PROVE body[m] \in {"bad", r.mem[m]}
  <2>1. CASE m \in Named(steps) BY <1>5, <2>1 DEF Named
  <2>2. CASE m \notin Named(steps)
    <3>1. m \in M BY <2>2
    <3>2. r.mem[m] = s.mem[m] BY <1>4, <1>6, <2>2
    <3>3. QED BY <3>1, <3>2 DEF Applied
  <2>3. QED BY <2>1, <2>2
<1>8. QED BY <1>7 DEF Applied, r

\* Each part of the handler gives what it is about, and takes back nothing but one directory.
LEMMA ThroughGives ==
    ASSUME NEW k, NEW F, NEW old, NEW body, Body(k, F, body), NEW s, NEW r, NEW M,
           Gives(F, old, s, r, body, M),
           NEW steps, NEW n \in Nat, DOMAIN steps = 1 .. n,
           NEW N, N \subseteq M \cup Named(steps)
    PROVE  Gives(F, old, s, Through(r, body, steps), body, N)
<1> DEFINE q == Through(r, body, steps)
<1>1. r \in UnderWay(F, old) /\ GoesOn(F, old, s, r) BY DEF Gives, GoesOn
<1>2. GoesOn(F, old, r, q) BY <1>1, ThroughGoesOn
<1>3. ASSUME q.stopped = FALSE PROVE Applied(q.mem, body, N)
  <2>1. r.stopped = FALSE BY <1>2, <1>3 DEF GoesOn
  <2>2. Applied(r.mem, body, M) BY <2>1 DEF Gives
  <2>3. QED BY <1>1, <1>3, <2>2, ThroughApplies
<1> HIDE DEF q
<1>4. GoesOn(F, old, s, q) BY <1>1, <1>2, GoesFurther
<1>5. Gives(F, old, s, q, body, N) BY <1>3, <1>4 DEF Gives
<1>6. QED BY <1>5 DEF q

LEMMA SwitchDirectoryGives ==
    ASSUME NEW F, NEW old, NEW body, Body("AccountService", F, body), NEW s, NEW r, NEW M,
           Gives(F, old, s, r, body, M),
           NEW this, NEW that, {this, that} = {Ldap, ActiveDirectory},
           NEW N, N \subseteq M \cup {this},
           that \in N => ~(this \in DOMAIN body /\ body[this] = On)
    PROVE  Gives(F, old, s, SwitchDirectory(r, body, this, that), body, N)
<1> DEFINE q == SwitchDirectory(r, body, this, that)
<1>1. r \in UnderWay(F, old) /\ GoesOn(F, old, s, r) BY DEF Gives, GoesOn
<1>2. /\ q \in UnderWay(F, old) /\ Switched(F, r, q, body, this, that)
      /\ \A m \in F \ {Ldap, ActiveDirectory} : q.mem[m] = r.mem[m]
  BY <1>1, SwitchDirectorySwitches
<1> HIDE DEF q
<1>3. GoesOn(F, old, r, q) BY <1>2 DEF GoesOn, Switched
<1>4. ASSUME q.stopped = FALSE, NEW m \in N \cap DOMAIN body PROVE body[m] \in {"bad", q.mem[m]}
  <2>1. r.stopped = FALSE BY <1>3, <1>4 DEF GoesOn
  <2>2. m \in M => body[m] \in {"bad", r.mem[m]} BY <2>1 DEF Gives, Applied
  <2>3. m \in F BY DEF Body
  <2>4. CASE m = this BY <1>2, <2>1, <2>4 DEF Switched
  <2>5. CASE m # this /\ m = that
    <3>1. q.mem[m] = r.mem[m] BY <1>2, <2>3, <2>5 DEF Switched
    <3>2. QED BY <2>2, <2>5, <3>1
  <2>6. CASE m # this /\ m # that
    <3>1. q.mem[m] = r.mem[m] BY <1>2, <2>3, <2>6
    <3>2. QED BY <2>2, <2>6, <3>1
  <2>7. QED BY <2>4, <2>5, <2>6
<1>5. GoesOn(F, old, s, q) BY <1>1, <1>3, GoesFurther
<1>6. Gives(F, old, s, q, body, N) BY <1>4, <1>5 DEF Gives, Applied
<1>7. QED BY <1>6 DEF q

LEMMA PatchPasswordSetGives ==
    ASSUME NEW F, NEW old, NEW body, Body("AccountService", F, body), NEW s, NEW r, NEW M,
           Gives(F, old, s, r, body, M), "LDAP.Authentication" \notin M
    PROVE  Gives(F, old, s, PatchPasswordSet(r, body), body, M \cup {"LDAP.PasswordSet"})
<1> DEFINE q == PatchPasswordSet(r, body)
           set == "LDAP.PasswordSet"
<1>1. r \in UnderWay(F, old) /\ GoesOn(F, old, s, r) BY DEF Gives, GoesOn
<1>2. /\ q \in UnderWay(F, old) /\ Gives(F, old, r, q, body, {set})
      /\ \A m \in F \ {set, "LDAP.Authentication"} : q.mem[m] = r.mem[m]
  BY <1>1, PatchPasswordSetBeside
<1> HIDE DEF q
<1>3. GoesOn(F, old, r, q) BY <1>2 DEF Gives
<1>4. ASSUME q.stopped = FALSE, NEW m \in (M \cup {set}) \cap DOMAIN body
      PROVE  body[m] \in {"bad", q.mem[m]}
  <2>1. r.stopped = FALSE BY <1>3, <1>4 DEF GoesOn
  <2>2. m \in M => body[m] \in {"bad", r.mem[m]} BY <2>1 DEF Gives, Applied
  <2>3. m \in F BY DEF Body
  <2>4. CASE m = set BY <1>2, <1>4, <2>4 DEF Gives, Applied
  <2>5. CASE m # set
    <3>1. q.mem[m] = r.mem[m] BY <1>2, <2>3, <2>5
    <3>2. QED BY <2>2, <2>5, <3>1
  <2>6. QED BY <2>4, <2>5
<1>5. GoesOn(F, old, s, q) BY <1>1, <1>3, GoesFurther
<1>6. Gives(F, old, s, q, body, M \cup {set}) BY <1>4, <1>5 DEF Gives, Applied
<1>7. QED BY <1>6 DEF q

\* What AcceptedIsApplied says of one body and one resource.
Taken(f, body) ==
    \A m \in DOMAIN body \ OnTerms :
        \/ body[m] \in {"bad", f[m]}
        \/ m = Ldap /\ ActiveDirectory \in DOMAIN body /\ body[ActiveDirectory] = On

LdapRest == {"LDAP.ServiceAddresses", "LDAP.BaseDistinguishedNames"}
ActiveDirectoryRest ==
    {"ActiveDirectory.Port", "ActiveDirectory.ServiceAddresses", "ActiveDirectory.Authentication"}
Limits == {MinLength, MaxLength}
BeforeDirectories == Limits \cup {"ServiceEnabled"} \cup Lockout

LEMMA PatchLdapGives ==
    ASSUME NEW F, NEW old, NEW body, Body("AccountService", F, body), NEW s, NEW r,
           Gives(F, old, s, r, body, BeforeDirectories)
    PROVE  Gives(F, old, s, PatchLdap(r, body), body,
                 BeforeDirectories \cup {Ldap, "LDAP.PasswordSet"} \cup LdapRest)
<1> DEFINE switched == SwitchDirectory(r, body, "LDAP.ServiceEnabled",
                                       "ActiveDirectory.ServiceEnabled")
           set == PatchPasswordSet(switched, body)
           steps == <<Step("LDAP.ServiceAddresses", "stop"),
                      Step("LDAP.BaseDistinguishedNames", "half")>>
           M == BeforeDirectories \cup {Ldap}
           N == M \cup {"LDAP.PasswordSet"}
<1>1. Gives(F, old, s, switched, body, M)
  <2>1. ActiveDirectory \notin M
    BY DEF BeforeDirectories, Limits, MinLength, MaxLength, Lockout, Ldap, ActiveDirectory
  <2> HIDE DEF M
  <2>2. M \subseteq BeforeDirectories \cup {Ldap} BY DEF M
  <2>3. Gives(F, old, s, SwitchDirectory(r, body, Ldap, ActiveDirectory), body, M)
    BY <2>1, <2>2, SwitchDirectoryGives
  <2>4. QED BY <2>3 DEF Ldap, ActiveDirectory
<1> HIDE DEF switched
<1>2. Gives(F, old, s, set, body, N)
  <2>1. "LDAP.Authentication" \notin M
    BY DEF BeforeDirectories, Limits, MinLength, MaxLength, Lockout, Ldap
  <2> HIDE DEF M
  <2>2. QED BY <1>1, <2>1, PatchPasswordSetGives
<1> HIDE DEF set, M, N
<1>3. DOMAIN steps = 1 .. 2 /\ LdapRest \subseteq Named(steps)
  <2>1. steps[1].member = "LDAP.ServiceAddresses" /\ steps[2].member = "LDAP.BaseDistinguishedNames"
        /\ DOMAIN steps = 1 .. 2
    BY DEF Step
  <2> HIDE DEF steps
  <2>2. QED BY <2>1 DEF LdapRest, Named
<1> HIDE DEF steps
<1>4. Gives(F, old, s, Through(set, body, steps), body, N \cup LdapRest)
  BY <1>2, <1>3, ThroughGives
<1>5. QED BY <1>4 DEF PatchLdap, N, M, set, switched, steps

\* Unless the active directory is turned on, which may turn the other off.
LEMMA PatchActiveDirectoryGives ==
    ASSUME NEW F, NEW old, NEW body, Body("AccountService", F, body), NEW s, NEW r, NEW M,
           Gives(F, old, s, r, body, M),
           NEW L, L \subseteq M, Ldap \in L => ~(ActiveDirectory \in DOMAIN body
                                                /\ body[ActiveDirectory] = On)
    PROVE  Gives(F, old, s, PatchActiveDirectory(r, body), body,
                 L \cup {ActiveDirectory} \cup ActiveDirectoryRest)
<1> DEFINE switched == SwitchDirectory(r, body, "ActiveDirectory.ServiceEnabled",
                                       "LDAP.ServiceEnabled")
           steps == <<Step("ActiveDirectory.Port", "fail"),
                      Step("ActiveDirectory.ServiceAddresses", "half"),
                      Step("ActiveDirectory.Authentication", "never")>>
           N == L \cup {ActiveDirectory}
<1>1. Gives(F, old, s, switched, body, N)
  <2>1. Ldap \in N => ~(ActiveDirectory \in DOMAIN body /\ body[ActiveDirectory] = On)
    BY DEF Ldap, ActiveDirectory
  <2>2. N \subseteq M \cup {ActiveDirectory} OBVIOUS
  <2> HIDE DEF N
  <2>3. Gives(F, old, s, SwitchDirectory(r, body, ActiveDirectory, Ldap), body, N)
    BY <2>1, <2>2, SwitchDirectoryGives
  <2>4. QED BY <2>3 DEF Ldap, ActiveDirectory
<1> HIDE DEF switched, N
<1>2. DOMAIN steps = 1 .. 3 /\ ActiveDirectoryRest \subseteq Named(steps)
  <2>1. /\ steps[1].member = "ActiveDirectory.Port"
        /\ steps[2].member = "ActiveDirectory.ServiceAddresses"
        /\ steps[3].member = "ActiveDirectory.Authentication"
        /\ DOMAIN steps = 1 .. 3
    BY DEF Step
  <2> HIDE DEF steps
  <2>2. QED BY <2>1 DEF ActiveDirectoryRest, Named
<1> HIDE DEF steps
<1>3. Gives(F, old, s, Through(switched, body, steps), body, N \cup ActiveDirectoryRest)
  BY <1>1, <1>2, ThroughGives
<1>4. QED BY <1>3 DEF PatchActiveDirectory, N, switched, steps

\* Members that are not checked are given one after the other.
LEMMA PlainNamed ==
    ASSUME NEW ms, NEW n \in Nat, DOMAIN ms = 1 .. n
    PROVE  DOMAIN Plain(ms) = 1 .. n /\ Named(Plain(ms)) = ToSet(ms)
BY DEF Plain, Named, Step, ToSet

LEMMA GivesNothing ==
    ASSUME NEW F, NEW old, NEW s \in UnderWay(F, old), NEW body
    PROVE  Gives(F, old, s, s, body, {})
BY DEF Gives, GoesOn, Applied

LEMMA PatchAccountServiceGives ==
    ASSUME NEW F, NEW old, NEW body, Body("AccountService", F, body), NEW s \in UnderWay(F, old),
           NEW L, L \subseteq BeforeDirectories \cup {Ldap, "LDAP.PasswordSet"} \cup LdapRest,
           Ldap \in L => ~(ActiveDirectory \in DOMAIN body /\ body[ActiveDirectory] = On)
    PROVE  Gives(F, old, s, PatchAccountServiceMembers(s, body), body,
                 L \cup {ActiveDirectory} \cup ActiveDirectoryRest)
<1> DEFINE limits == PatchLengths(s, body)
           names == <<"ServiceEnabled", "AuthFailureLoggingThreshold",
                      "AccountLockoutThreshold", "AccountLockoutDuration",
                      "AccountLockoutCounterResetAfter", "AccountLockoutCounterResetEnabled">>
           plain == Through(limits, body, Plain(names))
           ldap == PatchLdap(plain, body)
<1>1. Gives(F, old, s, limits, body, Limits) BY PatchLengthsOrders DEF Limits
<1> HIDE DEF limits
<1>2. DOMAIN names = 1 .. 6 /\ ToSet(names) = {"ServiceEnabled"} \cup Lockout
  BY DEF ToSet, Lockout
<1> HIDE DEF names
<1>3. Gives(F, old, s, plain, body, BeforeDirectories)
  <2>1. DOMAIN Plain(names) = 1 .. 6 /\ Named(Plain(names)) = ToSet(names) BY <1>2, PlainNamed
  <2>2. BeforeDirectories \subseteq Limits \cup Named(Plain(names))
    BY <1>2, <2>1 DEF BeforeDirectories
  <2>3. QED BY <1>1, <2>1, <2>2, ThroughGives
<1> HIDE DEF plain
<1>4. Gives(F, old, s, ldap, body,
            BeforeDirectories \cup {Ldap, "LDAP.PasswordSet"} \cup LdapRest)
  BY <1>3, PatchLdapGives
<1> HIDE DEF ldap
<1>5. Gives(F, old, s, PatchActiveDirectory(ldap, body), body,
            L \cup {ActiveDirectory} \cup ActiveDirectoryRest)
  BY <1>4, PatchActiveDirectoryGives
<1>6. QED BY <1>5 DEF PatchAccountServiceMembers, ldap, plain, names, limits

LEMMA GivenAtLast ==
    ASSUME NEW F, NEW old, NEW s, NEW r, NEW body, NEW M, Gives(F, old, s, r, body, M),
           s.stopped = FALSE, r.ok = TRUE
    PROVE  Applied(r.mem, body, M)
<1>1. r.stopped \in BOOLEAN /\ (r.stopped = TRUE => s.stopped = TRUE \/ r.ok = FALSE)
  BY DEF Gives, GoesOn, UnderWay
<1>2. r.stopped = FALSE BY <1>1
<1>3. QED BY <1>2 DEF Gives

LEMMA AccountServiceTakes ==
    ASSUME NEW F, NEW mem0 \in [F -> Values], NEW body, Body("AccountService", F, body),
           DOMAIN body \subseteq Patchable["AccountService"],
           Patched("AccountService", mem0, body).ok = TRUE
    PROVE  Taken(Patched("AccountService", mem0, body).mem, body)
<1> DEFINE s == Started(mem0)
           r == PatchAccountServiceMembers(s, body)
           on == ActiveDirectory \in DOMAIN body /\ body[ActiveDirectory] = On
           M == BeforeDirectories \cup {Ldap, "LDAP.PasswordSet"} \cup LdapRest
           L == IF on THEN M \ {Ldap} ELSE M
           N == L \cup {ActiveDirectory} \cup ActiveDirectoryRest
<1>1. s \in UnderWay(F, mem0) /\ s.stopped = FALSE BY StartedUnderWay DEF Started
<1>2. Patched("AccountService", mem0, body) = r BY DEF Patched
<1>3. r.ok = TRUE BY <1>2
<1> HIDE DEF s
<1>4. Gives(F, mem0, s, r, body, N)
  <2>1. L \subseteq M /\ (Ldap \in L => ~on) OBVIOUS
  <2> HIDE DEF L
  <2>2. QED BY <1>1, <2>1, PatchAccountServiceGives
<1> HIDE DEF r
<1>5. Applied(r.mem, body, N) BY <1>1, <1>3, <1>4, GivenAtLast
<1>6. ASSUME NEW m \in Patchable["AccountService"]
      PROVE  m \in N \cup OnTerms \/ (m = Ldap /\ on)
  <2>1. Patchable["AccountService"] =
            ({MinLength, MaxLength, "ServiceEnabled"} \cup Lockout \cup DOMAIN DirectoryMembers)
            \ {"LDAP.Port", "LDAP.AccountProviderType", "ActiveDirectory.AccountProviderType",
               "LDAP.SearchSettings"}
    BY DEF Patchable
  <2>2. m \in {MinLength, MaxLength, "ServiceEnabled"} \cup Lockout
              \cup {Ldap, "LDAP.PasswordSet", "LDAP.Authentication", ActiveDirectory}
              \cup LdapRest \cup ActiveDirectoryRest
    BY <1>6, <2>1 DEF DirectoryMembers, Kept, Ldap, ActiveDirectory, LdapRest, ActiveDirectoryRest
  <2>3. "LDAP.Authentication" \in OnTerms BY DEF OnTerms
  <2>4. QED BY <2>2, <2>3 DEF BeforeDirectories, Limits
<1> HIDE DEF N
<1>7. Taken(r.mem, body) BY <1>5, <1>6 DEF Taken, Applied
<1>8. QED BY <1>2, <1>7

\* What only touches other members gives what was given before.
LEMMA SmoothGives ==
    ASSUME NEW F, NEW old, NEW body, DOMAIN body \subseteq F, NEW s, NEW r, NEW M,
           Gives(F, old, s, r, body, M), NEW q, NEW T, Smooth(F, old, r, q, T),
           NEW N, \A m \in N \cap DOMAIN body : m \in M \ T \/ body[m] = q.mem[m]
    PROVE  Gives(F, old, s, q, body, N)
<1>1. GoesOn(F, old, s, r) BY DEF Gives
<1>2. GoesOn(F, old, r, q) BY DEF Smooth, GoesOn
<1>3. GoesOn(F, old, s, q) BY <1>1, <1>2, GoesFurther
<1>4. ASSUME q.stopped = FALSE, NEW m \in N \cap DOMAIN body PROVE body[m] \in {"bad", q.mem[m]}
  <2>1. CASE body[m] = q.mem[m] BY <2>1
  <2>2. CASE m \in M \ T
    <3>1. r.stopped = FALSE BY <1>2, <1>4 DEF GoesOn
    <3>2. body[m] \in {"bad", r.mem[m]} BY <2>2, <3>1 DEF Gives, Applied
    <3>3. q.mem[m] = r.mem[m] BY <2>2 DEF Smooth
    <3>4. QED BY <3>2, <3>3
  <2>3. QED BY <2>1, <2>2
<1>5. QED BY <1>3, <1>4 DEF Gives, Applied

LEMMA PatchDateGoesOn ==
    ASSUME NEW F, NEW old, NEW s \in UnderWay(F, old), NEW body
    PROVE  GoesOn(F, old, s, PatchDate(s, body))
<1> DEFINE dated == Set(s, "NTP.Date", "other")
           timed == Set(dated, "NTP.Time", "other")
<1>1. "other" \in Puts BY DEF Puts
<1>2. dated \in UnderWay(F, old) /\ GoesOn(F, old, s, dated) BY <1>1, SetUnderWay, SetGoesOn
<1> HIDE DEF dated
<1>3. GoesOn(F, old, dated, timed) BY <1>1, <1>2, SetGoesOn
<1> HIDE DEF timed
<1>4. GoesOn(F, old, s, timed) BY <1>2, <1>3, GoesFurther
<1>5. GoesOn(F, old, s, s) BY DEF GoesOn
<1>6. PatchDate(s, body) \in {s, Stop(s), timed}
  BY Zenon DEF PatchDate, timed, dated
<1>7. QED BY <1>4, <1>5, <1>6, StopGoesOn

LEMMA PatchZoneGoesOn ==
    ASSUME NEW F, NEW old, NEW s \in UnderWay(F, old),
           NEW body, Body("NetworkProtocol", F, body)
    PROVE  GoesOn(F, old, s, PatchZone(s, body))
<1> DEFINE zone == "NTP.TimeZone"
<1>1. CASE zone \notin DOMAIN body \/ body[zone] = Held(s, zone)
  BY <1>1, PatchDateGoesOn DEF PatchZone
<1>2. CASE ~(zone \notin DOMAIN body \/ body[zone] = Held(s, zone)) /\ body[zone] = "bad"
  BY <1>2, StopGoesOn DEF PatchZone
<1>3. CASE ~(zone \notin DOMAIN body \/ body[zone] = Held(s, zone)) /\ body[zone] # "bad"
  <2>1. body[zone] \in Puts BY <1>3 DEF Body, Puts
  <2>2. PatchZone(s, body) = Set(s, zone, body[zone]) BY <1>3 DEF PatchZone
  <2>3. QED BY <2>1, <2>2, SetGoesOn
<1>4. QED BY <1>1, <1>2, <1>3

\* Unless it has returned for a date or a zone, NTP is as its switch was asked for.
LEMMA PatchNtpGives ==
    ASSUME NEW F, NEW old, NEW body, Body("NetworkProtocol", F, body), NEW s, NEW p, NEW M,
           Gives(F, old, s, p, body, M),
           M \cap (TimeServers \cup Clock \cup {"NTP.ProtocolEnabled"}) = {}
    PROVE  Gives(F, old, s, PatchNtp(p, body), body, M \cup {"NTP.ProtocolEnabled"})
<1> DEFINE switch == "NTP.ProtocolEnabled"
           on == (IF switch \in DOMAIN body THEN body[switch] ELSE Held(p, switch)) = On
           v == IF on THEN On ELSE Off
           r == IF on THEN PatchTimeServers(p, body) ELSE PatchZone(p, body)
           q == Set(r, switch, v)
<1>0. p \in UnderWay(F, old) /\ GoesOn(F, old, s, p) BY DEF Gives, GoesOn
<1>1. v \in Puts BY DEF On, Off, Puts
<1>2. CASE ~NtpMentioned(body)
  <2>1. switch \notin DOMAIN body BY <1>2 DEF NtpMentioned, NtpMembers, Kept
  <2>2. PatchNtp(p, body) = p BY <1>2 DEF PatchNtp
  <2>3. Gives(F, old, s, p, body, M \cup {switch}) BY <2>1 DEF Gives, Applied
  <2>4. QED BY <2>2, <2>3
<1>3. CASE NtpMentioned(body)
  <2>1. /\ GoesOn(F, old, p, r)
        /\ r.stopped = TRUE \/ \A m \in F \ (TimeServers \cup Clock) : r.mem[m] = p.mem[m]
    <3>1. CASE on
      <4>1. r = PatchTimeServers(p, body) BY <3>1
      <4> HIDE DEF r
      <4>2. Smooth(F, old, p, r, TimeServers) BY <1>0, <4>1, PatchTimeServersSmooth
      <4>3. QED BY <4>2 DEF Smooth, GoesOn
    <3>2. CASE ~on
      <4>1. r = PatchZone(p, body) BY <3>2
      <4> HIDE DEF r
      <4>2. GoesOn(F, old, p, r) /\ Clocked(F, old, p, r)
        BY <1>0, <4>1, PatchZoneGoesOn, PatchZoneClocked
      <4>3. r.stopped \in BOOLEAN BY <4>2 DEF GoesOn, UnderWay
      <4>4. QED BY <4>2, <4>3 DEF Clocked, Smooth
    <3>3. QED BY <3>1, <3>2
  <2>2. v = body[switch] \/ switch \notin DOMAIN body
    BY DEF Body, CanBeBad, Checked, On, Off, MinLength, MaxLength
  <2>3. r.stopped \in BOOLEAN BY <2>1 DEF GoesOn, UnderWay
  <2>4. PatchNtp(p, body) = IF r.stopped THEN r ELSE q BY <1>3 DEF PatchNtp
  <2> HIDE DEF r, v
  <2>5. r \in UnderWay(F, old) /\ GoesOn(F, old, s, r) BY <1>0, <2>1, GoesFurther DEF GoesOn
  <2>6. /\ GoesOn(F, old, r, q) /\ q.stopped = r.stopped
        /\ \A n \in F : q.mem[n] = IF n = switch THEN v ELSE r.mem[n]
    BY <1>1, <2>5, SetUnderWay, SetGoesOn
  <2> HIDE DEF q
  <2>7. CASE r.stopped
    <3>1. PatchNtp(p, body) = r BY <2>4, <2>7
    <3>2. Gives(F, old, s, r, body, M \cup {switch}) BY <2>5, <2>7 DEF Gives
    <3>3. QED BY <3>1, <3>2
  <2>8. CASE ~r.stopped
    <3>1. PatchNtp(p, body) = q BY <2>4, <2>8
    <3>2. r.stopped = FALSE BY <2>3, <2>8
    <3>3. p.stopped = FALSE BY <2>1, <3>2 DEF GoesOn
    <3>4. GoesOn(F, old, s, q) BY <2>5, <2>6, GoesFurther
    <3>5. ASSUME NEW m \in (M \cup {switch}) \cap DOMAIN body PROVE body[m] \in {"bad", q.mem[m]}
      <4>1. m \in F BY DEF Body
      <4>2. CASE m = switch BY <2>2, <2>6, <4>1, <4>2
      <4>3. CASE m # switch
        <5>1. body[m] \in {"bad", p.mem[m]} BY <3>3, <4>3 DEF Gives, Applied
        <5>2. q.mem[m] = r.mem[m] BY <2>6, <4>1, <4>3
        <5>3. r.mem[m] = p.mem[m] BY <2>1, <3>2, <4>1, <4>3
        <5>4. QED BY <5>1, <5>2, <5>3
      <4>4. QED BY <4>2, <4>3
    <3>6. Gives(F, old, s, q, body, M \cup {switch}) BY <3>4, <3>5 DEF Gives, Applied
    <3>7. QED BY <3>1, <3>6
  <2>9. QED BY <2>7, <2>8
<1>4. QED BY <1>2, <1>3

LEMMA NetworkProtocolTakes ==
    ASSUME NEW F, NEW mem0 \in [F -> Values], NEW body, Body("NetworkProtocol", F, body),
           DOMAIN body \subseteq Patchable["NetworkProtocol"],
           Patched("NetworkProtocol", mem0, body).ok = TRUE
    PROVE  Taken(Patched("NetworkProtocol", mem0, body).mem, body)
<1> DEFINE s == Started(mem0)
           ms == <<"Description">>
           described == Through(s, body, Plain(ms))
           snmp == PatchSnmp(described, body)
           ports == PatchPorts(snmp, body)
           ntp == PatchNtp(ports, body)
           switch == "SNMP.ProtocolEnabled"
           M == {"Description", switch} \cup ToSet(Ports)
<1>1. s \in UnderWay(F, mem0) /\ s.stopped = FALSE BY StartedUnderWay DEF Started
<1>2. Patched("NetworkProtocol", mem0, body) = ntp BY DEF Patched, PatchNetworkProtocol
<1>3. ntp.ok = TRUE BY <1>2
<1>4. DOMAIN body \subseteq F BY DEF Body
<1> HIDE DEF s
<1>5. Gives(F, mem0, s, described, body, {"Description"})
  <2>1. DOMAIN ms = 1 .. 1 /\ ToSet(ms) = {"Description"} BY DEF ToSet
  <2> HIDE DEF ms
  <2>2. DOMAIN Plain(ms) = 1 .. 1 /\ Named(Plain(ms)) = {"Description"} BY <2>1, PlainNamed
  <2>3. Gives(F, mem0, s, s, body, {}) BY <1>1, GivesNothing
  <2>4. QED BY <2>2, <2>3, ThroughGives
<1> HIDE DEF described
<1>6. Gives(F, mem0, s, snmp, body, {"Description", switch})
  <2>1. described \in UnderWay(F, mem0) BY <1>5 DEF Gives, GoesOn
  <2>2. /\ Smooth(F, mem0, described, snmp, DOMAIN SnmpMembers)
        /\ switch \in DOMAIN body => snmp.mem[switch] = body[switch]
    BY <2>1, PatchSnmpSmooth
  <2>3. "Description" \notin DOMAIN SnmpMembers BY DEF SnmpMembers, Kept
  <2> HIDE DEF snmp
  <2>4. \A m \in {"Description", switch} \cap DOMAIN body :
            m \in {"Description"} \ DOMAIN SnmpMembers \/ body[m] = snmp.mem[m]
    BY <2>2, <2>3
  <2>5. QED BY <1>4, <1>5, <2>2, <2>4, SmoothGives
<1> HIDE DEF snmp
<1>7. Gives(F, mem0, s, ports, body, M)
  <2>1. DOMAIN Ports = 1 .. 10 BY DEF Ports
  <2>2. DOMAIN Plain(Ports) = 1 .. 10 /\ Named(Plain(Ports)) = ToSet(Ports)
    BY <2>1, PlainNamed
  <2>3. Gives(F, mem0, s, Through(snmp, body, Plain(Ports)), body, M)
    BY <1>6, <2>2, ThroughGives
  <2>4. QED BY <2>3 DEF PatchPorts
<1> HIDE DEF ports
<1>8. M \cap (TimeServers \cup Clock \cup {"NTP.ProtocolEnabled"}) = {}
  BY DEF TimeServers, Clock, Ports, ToSet
<1> HIDE DEF M
<1>9. Gives(F, mem0, s, ntp, body, M \cup {"NTP.ProtocolEnabled"})
  BY <1>7, <1>8, PatchNtpGives
<1> HIDE DEF ntp
<1>10. Applied(ntp.mem, body, M \cup {"NTP.ProtocolEnabled"})
  BY <1>1, <1>3, <1>9, GivenAtLast
<1>11. ASSUME NEW m \in DOMAIN body, m \notin OnTerms PROVE m \in M \cup {"NTP.ProtocolEnabled"}
  <2>1. m \in {"Description"} \cup DOMAIN NtpMembers \cup DOMAIN SnmpMembers \cup ToSet(Ports)
    BY DEF Patchable
  <2>2. m \in DOMAIN NtpMembers \cup DOMAIN SnmpMembers => m \in {switch, "NTP.ProtocolEnabled"}
    BY <1>11 DEF OnTerms
  <2>3. QED BY <2>1, <2>2 DEF M
<1>12. Taken(ntp.mem, body) BY <1>10, <1>11 DEF Taken, Applied
<1>13. QED BY <1>2, <1>12

\* The other handlers.
LEMMA ThroughTakes ==
    ASSUME NEW k, NEW F, NEW mem0 \in [F -> Values], NEW body, Body(k, F, body),
           NEW steps, NEW n \in Nat, DOMAIN steps = 1 .. n, DOMAIN body \subseteq Named(steps),
           NEW r, r = Through(Started(mem0), body, steps), r.ok = TRUE
    PROVE  Taken(r.mem, body)
<1> DEFINE s == Started(mem0)
<1>1. s \in UnderWay(F, mem0) /\ s.stopped = FALSE BY StartedUnderWay DEF Started
<1> HIDE DEF s
<1>2. Gives(F, mem0, s, s, body, {}) BY <1>1, GivesNothing
<1>3. Gives(F, mem0, s, Through(s, body, steps), body, Named(steps)) BY <1>2, ThroughGives
<1>4. r = Through(s, body, steps) BY DEF s
<1>5. Gives(F, mem0, s, r, body, Named(steps)) BY <1>3, <1>4
<1>6. Applied(r.mem, body, Named(steps)) BY <1>1, <1>5, GivenAtLast
<1>7. QED BY <1>6 DEF Applied, Taken

LEMMA TakenOnlyTakes ==
    ASSUME NEW k, NEW F, NEW mem0 \in [F -> Values], NEW body, Body(k, F, body),
           NEW steps, NEW n \in Nat, DOMAIN steps = 1 .. n, DOMAIN body \subseteq Named(steps),
           NEW q, q = TakenOnly(Through(Started(mem0), body, steps)), q.ok = TRUE
    PROVE  Taken(q.mem, body)
<1> DEFINE r == Through(Started(mem0), body, steps)
<1>1. r \in UnderWay(F, mem0) BY StartedUnderWay, ThroughUnderWay
<1>2. q = TakenOnly(r) OBVIOUS
<1> HIDE DEF r
<1>3. r.ok = TRUE /\ q.mem = r.mem BY <1>1, <1>2 DEF TakenOnly, UnderWay
<1>4. Taken(r.mem, body) BY <1>3, ThroughTakes DEF r
<1>5. QED BY <1>3, <1>4

LEMMA AllOrNoneTakes ==
    ASSUME NEW k, NEW F, NEW mem0 \in [F -> Values], NEW body, Body(k, F, body),
           NEW ms, NEW n \in Nat, DOMAIN ms = 1 .. n, DOMAIN body \subseteq ToSet(ms),
           NEW q, q = AllOrNone(Started(mem0), body, ms), q.ok = TRUE
    PROVE  Taken(q.mem, body)
<1> DEFINE s == Started(mem0)
<1>1. q \in {Stop(s), Through(s, body, Plain(ms))} BY Zenon DEF AllOrNone
<1>2. Stop(s).ok = FALSE BY DEF Stop, Started
<1>3. q = Through(s, body, Plain(ms)) BY <1>1, <1>2
<1>4. DOMAIN Plain(ms) = 1 .. n /\ Named(Plain(ms)) = ToSet(ms) BY PlainNamed
<1>5. QED BY <1>3, <1>4, ThroughTakes

\* Its filters are looked at last, and not after an offset that would not do.
LEMMA LogServiceTakes ==
    ASSUME NEW k, NEW F, NEW mem0 \in [F -> Values], NEW body, Body(k, F, body),
           DOMAIN body \subseteq {"ServiceEnabled", "DateTimeLocalOffset", "SyslogFilters"},
           PatchLogService(Started(mem0), body).ok = TRUE
    PROVE  Taken(PatchLogService(Started(mem0), body).mem, body)
<1> DEFINE s == Started(mem0)
           first == <<Step("ServiceEnabled", "never"), Step("DateTimeLocalOffset", "fail")>>
           filters == <<Step("SyslogFilters", "half")>>
           r == Through(s, body, first)
           q == Through(r, body, filters)
<1>1. s \in UnderWay(F, mem0) /\ s.stopped = FALSE BY StartedUnderWay DEF Started
<1>2. /\ DOMAIN first = 1 .. 2 /\ DOMAIN filters = 1 .. 1
      /\ first[1].member = "ServiceEnabled" /\ first[2].member = "DateTimeLocalOffset"
      /\ filters[1].member = "SyslogFilters"
  BY DEF Step
<1>3. PatchLogService(s, body) = IF r.ok THEN q ELSE r BY Zenon DEF PatchLogService
<1> HIDE DEF first, filters
<1>4. DOMAIN body \subseteq Named(first) \cup Named(filters) BY <1>2 DEF Named
<1>5. PatchLogService(s, body).ok = TRUE OBVIOUS
<1> HIDE DEF s
<1>6. Gives(F, mem0, s, s, body, {}) BY <1>1, GivesNothing
<1>7. Gives(F, mem0, s, r, body, Named(first)) BY <1>2, <1>6, ThroughGives
<1> HIDE DEF r
<1>8. Gives(F, mem0, s, q, body, Named(first) \cup Named(filters)) BY <1>2, <1>7, ThroughGives
<1> HIDE DEF q
<1>9. r.ok \in BOOLEAN BY <1>7 DEF Gives, GoesOn, UnderWay
<1>10. PatchLogService(s, body) = q BY <1>3, <1>5, <1>9
<1>11. q.ok = TRUE BY <1>5, <1>10
<1>12. Applied(q.mem, body, Named(first) \cup Named(filters)) BY <1>1, <1>8, <1>11, GivenAtLast
<1>13. Taken(q.mem, body) BY <1>4, <1>12 DEF Applied, Taken
<1>14. QED BY <1>10, <1>13 DEF s

LEMMA PatchedTakes ==
    ASSUME NEW k \in DOMAIN Patchable, NEW F, NEW mem0 \in [F -> Values],
           NEW body, Body(k, F, body), DOMAIN body \subseteq Patchable[k],
           Patched(k, mem0, body).ok = TRUE
    PROVE  Taken(Patched(k, mem0, body).mem, body)
<1> DEFINE s == Started(mem0)
           q == Patched(k, mem0, body)
<1>1. q.ok = TRUE OBVIOUS
<1>2. k \in {"AccountService", "SessionService", "Manager", "NetworkProtocol", "SyslogService",
             "Systems", "Chassis", "PowerControl", "Drive", "EventService", "EventDestination",
             "LogService"}
  BY DEF Patchable
<1>3. CASE k = "AccountService" BY <1>3, AccountServiceTakes
<1>4. CASE k = "NetworkProtocol" BY <1>4, NetworkProtocolTakes
<1>5. CASE k = "LogService"
  <2>1. DOMAIN body \subseteq {"ServiceEnabled", "DateTimeLocalOffset", "SyslogFilters"}
    BY <1>5 DEF Patchable
  <2>2. q = PatchLogService(s, body) BY <1>5 DEF Patched
  <2>3. QED BY <2>1, <2>2, LogServiceTakes
<1>6. CASE k = "SessionService"
  <2> DEFINE ms == <<"SessionTimeout", "ServiceEnabled">>
  <2>1. q = Through(s, body, Plain(ms)) BY <1>6 DEF Patched, PatchSessionServiceMembers
  <2>2. DOMAIN ms = 1 .. 2 /\ DOMAIN body \subseteq ToSet(ms) BY <1>6 DEF Patchable, ToSet
  <2> HIDE DEF ms, q, s
  <2>3. DOMAIN Plain(ms) = 1 .. 2 /\ DOMAIN body \subseteq Named(Plain(ms))
    BY <2>2, PlainNamed
  <2>4. Taken(q.mem, body) BY <1>1, <2>1, <2>3, ThroughTakes DEF s
  <2>5. QED BY <2>4 DEF q
<1>7. CASE k = "SyslogService"
  <2> DEFINE steps == <<Step("EnableSyslog", "never"), Step("SyslogPortNumber", "skip"),
                        Step("SyslogServer", "skip")>>
  <2>1. q = Through(s, body, steps) BY <1>7 DEF Patched, PatchSyslog
  <2>2. DOMAIN steps = 1 .. 3 /\ DOMAIN body \subseteq Named(steps)
    BY <1>7 DEF Patchable, Named, Step
  <2> HIDE DEF steps, q
  <2>3. Taken(q.mem, body) BY <1>1, <2>1, <2>2, ThroughTakes
  <2>4. QED BY <2>3 DEF q
<1>8. CASE k = "Systems"
  <2> DEFINE steps == <<Step("IndicatorLED", "stop"), Step("Description", "never"),
                        Step("HostName", "never"), Step("AssetTag", "never"),
                        Step("Boot", "never")>>
  <2>1. q = Through(s, body, steps) BY <1>8 DEF Patched, PatchSystem
  <2>2. DOMAIN steps = 1 .. 5 /\ DOMAIN body \subseteq Named(steps)
    BY <1>8 DEF Patchable, Named, Step
  <2> HIDE DEF steps, q
  <2>3. Taken(q.mem, body) BY <1>1, <2>1, <2>2, ThroughTakes
  <2>4. QED BY <2>3 DEF q
<1>9. CASE k = "Manager"
  <2> DEFINE ms == <<"Description", "DateTime", "DateTimeLocalOffset">>
  <2>1. q = TakenOnly(Through(s, body, Plain(ms))) BY <1>9 DEF Patched, PatchManager
  <2>2. DOMAIN ms = 1 .. 3 /\ DOMAIN body \subseteq ToSet(ms) BY <1>9 DEF Patchable, ToSet
  <2> HIDE DEF ms, q
  <2>3. DOMAIN Plain(ms) = 1 .. 3 /\ DOMAIN body \subseteq Named(Plain(ms))
    BY <2>2, PlainNamed
  <2>4. Taken(q.mem, body) BY <1>1, <2>1, <2>3, TakenOnlyTakes
  <2>5. QED BY <2>4 DEF q
<1>10. CASE k = "Chassis"
  <2> DEFINE steps == <<Step("IndicatorLED", "stop"), Step("AssetTag", "never"),
                        Step("Location", "never")>>
  <2>1. q = TakenOnly(Through(s, body, steps)) BY <1>10 DEF Patched, PatchChassis
  <2>2. DOMAIN steps = 1 .. 3 /\ DOMAIN body \subseteq Named(steps)
    BY <1>10 DEF Patchable, Named, Step
  <2> HIDE DEF steps, q
  <2>3. Taken(q.mem, body) BY <1>1, <2>1, <2>2, TakenOnlyTakes
  <2>4. QED BY <2>3 DEF q
<1>11. CASE k = "PowerControl"
  <2> DEFINE ms == <<"PowerLimit">>
  <2>1. q = TakenOnly(Through(s, body, Plain(ms))) BY <1>11 DEF Patched, PatchPowerControl
  <2>2. DOMAIN ms = 1 .. 1 /\ DOMAIN body \subseteq ToSet(ms) BY <1>11 DEF Patchable, ToSet
  <2> HIDE DEF ms, q
  <2>3. DOMAIN Plain(ms) = 1 .. 1 /\ DOMAIN body \subseteq Named(Plain(ms))
    BY <2>2, PlainNamed
  <2>4. Taken(q.mem, body) BY <1>1, <2>1, <2>3, TakenOnlyTakes
  <2>5. QED BY <2>4 DEF q
<1>12. CASE k = "Drive"
  <2> DEFINE ms == <<"AssetTag">>
  <2>1. q = TakenOnly(Through(s, body, Plain(ms))) BY <1>12 DEF Patched, PatchDrive
  <2>2. DOMAIN ms = 1 .. 1 /\ DOMAIN body \subseteq ToSet(ms) BY <1>12 DEF Patchable, ToSet
  <2> HIDE DEF ms, q
  <2>3. DOMAIN Plain(ms) = 1 .. 1 /\ DOMAIN body \subseteq Named(Plain(ms))
    BY <2>2, PlainNamed
  <2>4. Taken(q.mem, body) BY <1>1, <2>1, <2>3, TakenOnlyTakes
  <2>5. QED BY <2>4 DEF q
<1>13. CASE k = "EventService"
  <2> DEFINE ms == <<"DeliveryRetryAttempts", "DeliveryRetryIntervalSeconds", "ServiceEnabled">>
  <2>1. q = AllOrNone(s, body, ms) BY <1>13 DEF Patched, PatchEventService
  <2>2. DOMAIN ms = 1 .. 3 /\ DOMAIN body \subseteq ToSet(ms) BY <1>13 DEF Patchable, ToSet
  <2> HIDE DEF ms, q
  <2>3. Taken(q.mem, body) BY <1>1, <2>1, <2>2, AllOrNoneTakes
  <2>4. QED BY <2>3 DEF q
<1>14. CASE k = "EventDestination"
  <2> DEFINE ms == <<"Context", "DeliveryRetryPolicy">>
  <2>1. q = AllOrNone(s, body, ms) BY <1>14 DEF Patched, PatchSubscription
  <2>2. DOMAIN ms = 1 .. 2 /\ DOMAIN body \subseteq ToSet(ms) BY <1>14 DEF Patchable, ToSet
  <2> HIDE DEF ms, q
  <2>3. Taken(q.mem, body) BY <1>1, <2>1, <2>2, AllOrNoneTakes
  <2>4. QED BY <2>3 DEF q
<1>15. QED
  BY <1>2, <1>3, <1>4, <1>5, <1>6, <1>7, <1>8, <1>9, <1>10, <1>11, <1>12, <1>13, <1>14

\* While a request is under way, and only then, there is a body; it has been taken.
Taking ==
    /\ DOMAIN asked # {} => pc = "answer" \/ (pc \in {"open", "write"} /\ saved = "answer")
    /\ Taken(mem, asked)

LEMMA NothingTaken ==
    ASSUME NEW f, NEW body, DOMAIN body = {}
    PROVE  Taken(f, body)
BY DEF Taken

LEMMA TakingInit == Init => Taking
BY NothingTaken DEF Init, Taking, Nothing

LEMMA TakingStep == TypeOK /\ Taking /\ [Next]_vars => Taking'
<1> SUFFICES ASSUME TypeOK, Taking, [Next]_vars PROVE Taking'
  OBVIOUS
<1>1. CASE PatchAccepted
  <2>1. HasHandler BY <1>1 DEF PatchAccepted
  <2>2. PICK b \in Bodies : /\ Patched(kind, mem, b).ok /\ mem' = Patched(kind, mem, b).mem
                            /\ asked' = b
    BY <1>1 DEF PatchAccepted
  <2>3. Patched(kind, mem, b).ok = TRUE
    <3>1. Patched(kind, mem, b).ok \in BOOLEAN BY <2>1, PatchedFocus DEF UnderWay
    <3>2. QED BY <2>2, <3>1
  <2>4. Body(kind, Focus, b) /\ DOMAIN b \subseteq Patchable[kind]
    BY BodiesBody DEF Bodies
  <2>5. mem \in [Focus -> Values] /\ kind \in DOMAIN Patchable
    BY <2>1 DEF TypeOK, HasHandler
  <2>6. Taken(Patched(kind, mem, b).mem, b) BY <2>3, <2>4, <2>5, PatchedTakes
  <2>7. QED BY <1>1, <2>2, <2>6 DEF PatchAccepted, Taking
<1>2. CASE Open \/ UNCHANGED vars
  BY <1>2 DEF Open, vars, Taking, Taken
<1>3. CASE Write
  <2>1. saved = "answer" => pc' = "answer" BY <1>3 DEF Write
  <2>2. mem' = mem /\ asked' = asked /\ pc = "write" BY <1>3 DEF Write
  <2>3. QED BY <2>1, <2>2 DEF Taking, Taken
<1>4. CASE Answer \/ Crash
  <2>1. DOMAIN asked' = {} BY <1>4 DEF Answer, Crash, Nothing
  <2>2. QED BY <2>1, NothingTaken DEF Taking
<1>5. CASE PatchRefused \/ PatchFanMode \/ AddModuleAgain \/ Load \/ MakeAnew \/ MakeMissing
           \/ Lose
  <2>1. asked' = asked /\ pc \in {"run", "down"}
    BY <1>5 DEF PatchRefused, PatchFanMode, AddModuleAgain, Load, MakeAnew, MakeMissing, Lose
  <2>2. DOMAIN asked' = {} BY <2>1 DEF Taking
  <2>3. QED BY <2>2, NothingTaken DEF Taking
<1>6. QED BY <1>1, <1>2, <1>3, <1>4, <1>5 DEF Next

\* When a request is answered OK, everything it asked for that would do is there, whichever
\* members its body named together and whatever the handler did between: only of the two
\* directories may the one be off again for the other.
THEOREM AcceptedCorrect == Spec => []AcceptedIsApplied
<1>1. TypeOK /\ Taking => AcceptedIsApplied
  <2>1. SUFFICES ASSUME TypeOK, Taking PROVE AcceptedIsApplied
    OBVIOUS
  <2>2. Taken(mem, asked) BY <2>1 DEF Taking
  <2>3. QED BY <2>2 DEF Taken, AcceptedIsApplied, Ldap, ActiveDirectory
<1>2. QED BY <1>1, TypeInit, TypeStep, TakingInit, TakingStep, PTL DEF Spec
=============================================================================
