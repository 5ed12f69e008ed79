---------------------------- MODULE BoxLocksProofs ----------------------------
(***************************************************************************)
(* A proof about BoxLocks, for any number of queues, requests, operators   *)
(* and clean-ups: goroutines wait for each other in a circle only if a     *)
(* clean-up takes part, and with it an operator or a nested clean-up.      *)
(***************************************************************************)
EXTENDS BoxLocks, TLAPS

-----------------------------------------------------------------------------
(* What a goroutine holds, and which steps it may take with that.           *)

Steps == {"RLock", "RUnlock", "Lock", "Drain", "Unlock", "Set", "Restore"} \X Locks

\* A lock held for reading, claimed for writing, held for writing; and the mark of
\* a clean-up that has set the status.
Read(l)    == <<"R", l>>
Claimed(l) == <<"D", l>>
Written(l) == <<"W", l>>
Cleans     == <<"C", "serv">>
Marks      == {"R", "D", "W", "C"} \X Locks

Level(l) == IF l = "serv" THEN 0 ELSE IF l = "working" THEN 2 ELSE IF l = "paused" THEN 3 ELSE 1

\* Another lock than those held, and unless the clean-up goes on a later one.
Later(l, h) ==
    \A m \in h \ {Cleans} : m[2] # l /\ (Cleans \notin h => Level(m[2]) < Level(l))

Role(p) == IF p \in Clients THEN "client" ELSE IF p \in Operators THEN "operator" ELSE "cleaner"

\* A request takes every lock but the service's under the latter's read lock, a
\* clean-up takes them between its two changes of the status.
Allowed(r, st, h) ==
    \/ /\ st[1] = "RLock" /\ Later(st[2], h)
       /\ r = "client" => st[2] = "serv" \/ Read("serv") \in h
       /\ r = "cleaner" => st[2] # "serv" /\ Cleans \in h
    \/ /\ st[1] = "Lock" /\ Later(st[2], h)
       /\ r = "client" => st[2] # "serv" /\ Read("serv") \in h
       /\ r = "cleaner" => st[2] = "serv" \/ Cleans \in h
    \/ st[1] = "Drain" /\ Claimed(st[2]) \in h /\ Later(st[2], h \ {Claimed(st[2])})
    \/ st[1] = "RUnlock" /\ Read(st[2]) \in h /\ (st[2] = "serv" => h = {Read("serv")})
    \/ st[1] = "Unlock" /\ Written(st[2]) \in h
    \/ st = <<"Set", "serv">> /\ r = "cleaner" /\ h = {Written("serv")}
    \/ st = <<"Restore", "serv">> /\ r = "cleaner" /\ h = {Written("serv"), Cleans}

After(st, h) ==
    IF st[1] = "RLock"        THEN h \cup {Read(st[2])}
    ELSE IF st[1] = "RUnlock" THEN h \ {Read(st[2])}
    ELSE IF st[1] = "Lock"    THEN h \cup {Claimed(st[2])}
    ELSE IF st[1] = "Drain"   THEN (h \ {Claimed(st[2])}) \cup {Written(st[2])}
    ELSE IF st[1] = "Unlock"  THEN h \ {Written(st[2])}
    ELSE IF st[1] = "Set"     THEN h \cup {Cleans}
    ELSE h \ {Cleans}

\* A sequence of steps that leads from holding g to holding h.
Leads(r, s, g, h, t) ==
    /\ t \in [0..Len(s) -> SUBSET Marks]
    /\ t[0] = g /\ t[Len(s)] = h
    /\ \A i \in 1..Len(s) : Allowed(r, s[i], t[i - 1]) /\ t[i] = After(s[i], t[i - 1])
Legal(r, s, g, h) == s \in Seq(Steps) /\ \E t : Leads(r, s, g, h, t)

-----------------------------------------------------------------------------
(* Sequences. *)

\* No step changes nothing.
LEMMA LegalEmpty ==
    ASSUME NEW r, NEW h \in SUBSET Marks
    PROVE  Legal(r, <<>>, h, h)
<1> DEFINE t == [i \in 0..0 |-> h]
<1>1. Leads(r, <<>>, h, h, t)
  BY DEF Leads
<1> QED
  BY <1>1 DEF Legal

\* What is held after a step is a set of marks again.
LEMMA AfterMarks ==
    ASSUME NEW st \in Steps, NEW h \in SUBSET Marks
    PROVE  After(st, h) \in SUBSET Marks
<1>1. st[2] \in Locks /\ "serv" \in Locks
  BY DEF Steps, Locks
<1> QED
  BY <1>1 DEF After, Marks, Read, Claimed, Written, Cleans

\* One step that is allowed.
LEMMA LegalOne ==
    ASSUME NEW r, NEW st \in Steps, NEW h \in SUBSET Marks, Allowed(r, st, h)
    PROVE  Legal(r, <<st>>, h, After(st, h))
<1> DEFINE t == [i \in 0..1 |-> IF i = 0 THEN h ELSE After(st, h)]
<1>1. After(st, h) \in SUBSET Marks
  BY AfterMarks
<1>2. Len(<<st>>) = 1 /\ <<st>>[1] = st /\ <<st>> \in Seq(Steps)
  OBVIOUS
<1>3. t \in [0..1 -> SUBSET Marks] /\ t[0] = h /\ t[1] = After(st, h)
  BY <1>1
<1>4. Leads(r, <<st>>, h, After(st, h), t)
  BY <1>2, <1>3 DEF Leads
<1> QED
  BY <1>2, <1>4 DEF Legal

\* One sequence after the other.
LEMMA LegalConcat ==
    ASSUME NEW r, NEW s, NEW u, NEW g, NEW h, NEW k, Legal(r, s, g, h), Legal(r, u, h, k)
    PROVE  Legal(r, s \o u, g, k)
<1>1. PICK t : Leads(r, s, g, h, t)
  BY DEF Legal
<1>2. PICK v : Leads(r, u, h, k, v)
  BY DEF Legal
<1>3. /\ s \in Seq(Steps) /\ u \in Seq(Steps) /\ s \o u \in Seq(Steps)
      /\ Len(s) \in Nat /\ Len(u) \in Nat /\ Len(s \o u) = Len(s) + Len(u)
      /\ \A i \in 1..Len(s) : (s \o u)[i] = s[i]
      /\ \A i \in 1..Len(u) : (s \o u)[Len(s) + i] = u[i]
  BY DEF Legal
<1> DEFINE w == [i \in 0..(Len(s) + Len(u)) |-> IF i <= Len(s) THEN t[i] ELSE v[i - Len(s)]]
<1>4. w \in [0..(Len(s) + Len(u)) -> SUBSET Marks]
  BY <1>1, <1>2, <1>3 DEF Leads
<1>5. w[0] = g /\ w[Len(s) + Len(u)] = k
  <2>1. t[0] = g /\ t[Len(s)] = h /\ v[0] = h /\ v[Len(u)] = k
    BY <1>1, <1>2 DEF Leads
  <2>2. w[0] = g
    BY <1>3, <2>1
  <2>3. CASE Len(u) = 0
    BY <1>3, <2>1, <2>3
  <2>4. CASE Len(u) # 0
    BY <1>3, <2>1, <2>4
  <2> QED
    BY <2>2, <2>3, <2>4
<1>6. ASSUME NEW i \in 1..(Len(s) + Len(u))
      PROVE  Allowed(r, (s \o u)[i], w[i - 1]) /\ w[i] = After((s \o u)[i], w[i - 1])
  <2>1. CASE i <= Len(s)
    <3>1. (s \o u)[i] = s[i] /\ w[i] = t[i] /\ w[i - 1] = t[i - 1] /\ i \in 1..Len(s)
      BY <1>3, <2>1
    <3> QED
      BY <1>1, <3>1 DEF Leads
  <2>2. CASE i > Len(s)
    <3> DEFINE j == i - Len(s)
    <3>1. j \in 1..Len(u) /\ i = Len(s) + j
      BY <1>3, <2>2
    <3>2. (s \o u)[i] = u[j] /\ w[i] = v[j]
      BY <1>3, <2>2, <3>1
    <3>3. w[i - 1] = v[j - 1]
      <4>1. CASE j = 1
        BY <1>1, <1>2, <1>3, <3>1, <4>1 DEF Leads
      <4>2. CASE j # 1
        BY <1>3, <3>1, <4>2
      <4> QED
        BY <4>1, <4>2
    <3> QED
      BY <1>2, <3>1, <3>2, <3>3 DEF Leads
  <2> QED
    BY <1>3, <2>1, <2>2
<1>7. Leads(r, s \o u, g, k, w)
  BY <1>3, <1>4, <1>5, <1>6 DEF Leads
<1> QED
  BY <1>3, <1>7 DEF Legal

\* The first step is allowed, and the rest is legal after it.
LEMMA LegalTail ==
    ASSUME NEW r, NEW s, NEW g, NEW h, Legal(r, s, g, h), s # <<>>
    PROVE  /\ Head(s) \in Steps /\ g \in SUBSET Marks
           /\ Allowed(r, Head(s), g)
           /\ Legal(r, Tail(s), After(Head(s), g), h)
<1>1. PICK t : Leads(r, s, g, h, t)
  BY DEF Legal
<1>2. /\ s \in Seq(Steps) /\ Len(s) \in Nat \ {0} /\ Head(s) = s[1] /\ Head(s) \in Steps
      /\ Tail(s) \in Seq(Steps) /\ Len(Tail(s)) = Len(s) - 1
      /\ \A i \in 1..(Len(s) - 1) : Tail(s)[i] = s[i + 1]
  BY DEF Legal
<1> DEFINE v == [i \in 0..(Len(s) - 1) |-> t[i + 1]]
<1>3. Allowed(r, Head(s), g) /\ t[1] = After(Head(s), g) /\ g \in SUBSET Marks
  BY <1>1, <1>2 DEF Leads
<1>4. v \in [0..(Len(s) - 1) -> SUBSET Marks] /\ v[0] = t[1] /\ v[Len(s) - 1] = h
  BY <1>1, <1>2 DEF Leads
<1>5. ASSUME NEW i \in 1..(Len(s) - 1)
      PROVE  Allowed(r, Tail(s)[i], v[i - 1]) /\ v[i] = After(Tail(s)[i], v[i - 1])
  <2>1. Tail(s)[i] = s[i + 1] /\ v[i - 1] = t[i] /\ v[i] = t[i + 1] /\ i + 1 \in 1..Len(s)
    BY <1>2
  <2>2. Allowed(r, s[i + 1], t[(i + 1) - 1]) /\ t[i + 1] = After(s[i + 1], t[(i + 1) - 1])
    BY <1>1, <2>1 DEF Leads
  <2> QED
    BY <2>1, <2>2
<1>6. Leads(r, Tail(s), After(Head(s), g), h, v)
  BY <1>2, <1>3, <1>4, <1>5 DEF Leads
<1> QED
  BY <1>2, <1>3, <1>6 DEF Legal

\* Two steps are one and the other.
LEMMA PairOfSteps ==
    ASSUME NEW st \in Steps, NEW en \in Steps
    PROVE  <<st>> \o <<en>> = <<st, en>>
<1> DEFINE a == <<st>>
           b == <<en>>
           c == <<st, en>>
<1>1. /\ a \in Seq(Steps) /\ b \in Seq(Steps) /\ c \in Seq(Steps)
      /\ Len(a) = 1 /\ Len(b) = 1 /\ Len(c) = 2
      /\ a[1] = st /\ b[1] = en /\ c[1] = st /\ c[2] = en
  OBVIOUS
<1> HIDE DEF a, b, c
<1>2. a \o b \in Seq(Steps) /\ Len(a \o b) = 2 /\ (a \o b)[1] = st /\ (a \o b)[2] = en
  <2>1. /\ a \o b \in Seq(Steps) /\ Len(a \o b) = Len(a) + Len(b)
        /\ \A i \in 1..Len(a) : (a \o b)[i] = a[i]
        /\ \A i \in 1..Len(b) : (a \o b)[Len(a) + i] = b[i]
    <3>1. a \in Seq(Steps) /\ b \in Seq(Steps)
      BY <1>1
    <3> QED
      BY <3>1
  <2>2. (a \o b)[Len(a) + 1] = b[1]
    BY <1>1, <2>1
  <2> QED
    BY <1>1, <2>1, <2>2
<1>3. \A i \in 1..2 : (a \o b)[i] = c[i]
  BY <1>1, <1>2
<1>4. a \o b = c
  BY <1>1, <1>2, <1>3
<1> QED
  BY <1>4 DEF a, b, c

\* When nothing is left to do, what is held is what should be in the end.
LEMMA LegalDone == ASSUME NEW r, NEW g, NEW h, Legal(r, <<>>, g, h) PROVE g = h
BY DEF Legal, Leads

-----------------------------------------------------------------------------
(* The programs are legal. *)

\* The names of the locks differ.
LEMMA LocksApart ==
    /\ "serv" \in Locks /\ "working" \in Locks /\ "paused" \in Locks
    /\ Queues \subseteq Locks /\ Maps \subseteq Locks
    /\ \A l \in Locks : Level(l) \in 0..3
    /\ \A q \in Queues : q \notin {"serv", "working", "paused"} /\ Level(q) = 1
    /\ Level("serv") = 0 /\ Level("working") = 2 /\ Level("paused") = 3
    /\ \A m \in Maps : Level(m) > 1 /\ m # "serv"
BY LocksAssumption DEF LocksAssumption, Locks, Maps, Level

\* A lock taken for reading around a body that may hold it.
LEMMA ReadingLegal ==
    ASSUME NEW r, NEW l \in Locks, NEW body, NEW h \in SUBSET Marks,
           Later(l, h), r = "client" => l = "serv" \/ Read("serv") \in h,
           r = "cleaner" => l # "serv" /\ Cleans \in h,
           l = "serv" => h = {},
           Legal(r, body, h \cup {Read(l)}, h \cup {Read(l)})
    PROVE  Legal(r, Reading(l, body), h, h)
<1> DEFINE g == h \cup {Read(l)}
           take == <<"RLock", l>>
           give == <<"RUnlock", l>>
<1>1. take \in Steps /\ give \in Steps /\ g \in SUBSET Marks
  BY DEF Steps, Marks, Read
<1>2. Read(l) \notin h
  BY DEF Later, Read, Cleans
<1>3. Allowed(r, take, h) /\ After(take, h) = g
  BY DEF Allowed, After
<1>4. Allowed(r, give, g) /\ After(give, g) = h
  BY <1>2 DEF Allowed, After
<1>5. Legal(r, <<take>>, h, g)
  BY <1>1, <1>3, LegalOne
<1>6. Legal(r, <<give>>, g, h)
  BY <1>1, <1>4, LegalOne
<1>7. Legal(r, <<take>> \o body, h, g)
  BY <1>5, LegalConcat
<1>8. Legal(r, (<<take>> \o body) \o <<give>>, h, h)
  BY <1>6, <1>7, LegalConcat
<1> QED
  BY <1>8 DEF Reading

\* A lock taken for writing around such a body.
LEMMA WritingLegal ==
    ASSUME NEW r, NEW l \in Locks, NEW body, NEW h \in SUBSET Marks, NEW k \in SUBSET Marks,
           Later(l, h), r = "client" => l # "serv" /\ Read("serv") \in h,
           r = "cleaner" => l = "serv" \/ Cleans \in h,
           Written(l) \notin k, k = h \/ l = "serv",
           Legal(r, body, h \cup {Written(l)}, k \cup {Written(l)})
    PROVE  Legal(r, Writing(l, body), h, k)
<1> DEFINE g == h \cup {Claimed(l)}
           w == h \cup {Written(l)}
           v == k \cup {Written(l)}
           lock == <<"Lock", l>>
           drain == <<"Drain", l>>
           unlock == <<"Unlock", l>>
<1>1. /\ lock \in Steps /\ drain \in Steps /\ unlock \in Steps
      /\ g \in SUBSET Marks /\ w \in SUBSET Marks /\ v \in SUBSET Marks
  BY DEF Steps, Marks, Claimed, Written
<1>2. Claimed(l) \notin h /\ Written(l) \notin h
  BY DEF Later, Claimed, Written, Cleans
<1>3. Allowed(r, lock, h) /\ After(lock, h) = g
  BY DEF Allowed, After
<1>4. Allowed(r, drain, g) /\ After(drain, g) = w
  <2>1. g \ {Claimed(l)} = h /\ Claimed(l) \in g
    BY <1>2
  <2> QED
    BY <2>1 DEF Allowed, After
<1>5. Allowed(r, unlock, v) /\ After(unlock, v) = k
  BY DEF Allowed, After
<1>6. Legal(r, <<lock>>, h, g) /\ Legal(r, <<drain>>, g, w) /\ Legal(r, <<unlock>>, v, k)
  BY <1>1, <1>3, <1>4, <1>5, LegalOne
<1>7. Legal(r, <<lock>> \o <<drain>>, h, w)
  BY <1>6, LegalConcat
<1>8. <<lock>> \o <<drain>> = <<lock, drain>>
  BY <1>1, PairOfSteps
<1>9. Legal(r, <<lock, drain>> \o body, h, v)
  BY <1>7, <1>8, LegalConcat
<1>10. Legal(r, (<<lock, drain>> \o body) \o <<unlock>>, h, k)
  BY <1>6, <1>9, LegalConcat
<1> QED
  BY <1>10 DEF Writing

\* What is held leaves the maps, and to a request and a clean-up the locks in general,
\* free to be taken.
MapsFree(r, h) ==
    /\ \A m \in Maps : Later(m, h)
    /\ r = "client" => Read("serv") \in h
    /\ r = "cleaner" => Cleans \in h

\* Looking at a map.
LEMMA LookLegal ==
    ASSUME NEW r, NEW m \in Maps, NEW h \in SUBSET Marks, MapsFree(r, h)
    PROVE  Legal(r, Look(m), h, h)
<1>1. m \in Locks /\ m # "serv"
  BY LocksApart
<1>2. h \cup {Read(m)} \in SUBSET Marks
  BY <1>1 DEF Marks, Read
<1>3. Legal(r, <<>>, h \cup {Read(m)}, h \cup {Read(m)})
  BY <1>2, LegalEmpty
<1> QED
  BY <1>1, <1>3, ReadingLegal DEF Look, MapsFree

\* Changing one.
LEMMA ChangeLegal ==
    ASSUME NEW r, NEW m \in Maps, NEW h \in SUBSET Marks, MapsFree(r, h)
    PROVE  Legal(r, Change(m), h, h)
<1>1. m \in Locks /\ m # "serv"
  BY LocksApart
<1>2. h \cup {Written(m)} \in SUBSET Marks
  BY <1>1 DEF Marks, Written
<1>3. Legal(r, <<>>, h \cup {Written(m)}, h \cup {Written(m)})
  BY <1>2, LegalEmpty
<1>4. Written(m) \notin h
  BY DEF MapsFree, Later, Written, Cleans
<1> QED
  BY <1>1, <1>3, <1>4, WritingLegal DEF Change, MapsFree

\* Looking for a queue in the maps.
LEMMA LooksLegal ==
    ASSUME NEW r, NEW h \in SUBSET Marks, MapsFree(r, h), NEW s \in Looks
    PROVE  Legal(r, s, h, h)
<1>1. "working" \in Maps /\ "paused" \in Maps
  BY DEF Maps
<1>2. Legal(r, Look("working"), h, h) /\ Legal(r, Look("paused"), h, h)
  BY <1>1, LookLegal
<1>3. /\ Legal(r, Look("working") \o Look("paused"), h, h)
      /\ Legal(r, Look("paused") \o Look("working"), h, h)
  BY <1>2, LegalConcat
<1> QED
  BY <1>2, <1>3 DEF Looks

\* Moving a queue between the maps.
LEMMA ChangesLegal ==
    ASSUME NEW r, NEW h \in SUBSET Marks, MapsFree(r, h), NEW s \in Changes
    PROVE  Legal(r, s, h, h)
<1>1. \A m \in Maps : Legal(r, Change(m), h, h)
  BY ChangeLegal
<1>2. \A m, n \in Maps : Legal(r, Change(m) \o Change(n), h, h)
  BY <1>1, LegalConcat
<1>3. Legal(r, Nothing, h, h)
  BY LegalEmpty DEF Nothing
<1>4. \/ s = Nothing
      \/ \E m \in Maps : s = Change(m)
      \/ \E m, n \in Maps : s = Change(m) \o Change(n)
  BY DEF Changes
<1> QED
  BY <1>1, <1>2, <1>3, <1>4

\* No lock but the service's is held, and not by a clean-up.
Outside(r, h) ==
    /\ r \in {"client", "operator"}
    /\ h \subseteq {Read("serv")}
    /\ r = "client" => Read("serv") \in h

\* With a bucket taken then, the maps are free.
LEMMA InsideFree ==
    ASSUME NEW r, NEW q \in Queues, NEW h, Outside(r, h), NEW k \in {Read(q), Written(q)}
    PROVE  /\ h \in SUBSET Marks /\ h \cup {k} \in SUBSET Marks
           /\ Later(q, h) /\ MapsFree(r, h \cup {k}) /\ MapsFree(r, h) /\ k \notin h
BY LocksApart DEF Outside, MapsFree, Later, Read, Written, Cleans, Marks

\* What is done under a bucket's write lock.
LEMMA ExclusiveLegal ==
    ASSUME NEW r, NEW q \in Queues, NEW h, Outside(r, h), NEW s \in Exclusive(q)
    PROVE  Legal(r, s, h, h)
<1>1. PICK l \in Looks, c \in Changes : s = Writing(q, l \o c)
  BY DEF Exclusive
<1> DEFINE g == h \cup {Written(q)}
<1>2. /\ h \in SUBSET Marks /\ g \in SUBSET Marks
      /\ Later(q, h) /\ MapsFree(r, g) /\ Written(q) \notin h
  BY InsideFree
<1>3. Legal(r, l, g, g) /\ Legal(r, c, g, g)
  BY <1>2, LooksLegal, ChangesLegal
<1>4. Legal(r, l \o c, g, g)
  BY <1>3, LegalConcat
<1>5. q \in Locks /\ q # "serv" /\ (r = "client" => Read("serv") \in h) /\ r # "cleaner"
  BY LocksApart DEF Outside
<1> QED
  BY <1>1, <1>2, <1>4, <1>5, WritingLegal

\* What is done under a bucket's read lock.
LEMMA InsideLegal ==
    ASSUME NEW r, NEW q \in Queues, NEW h, Outside(r, h), NEW body,
           Legal(r, body, h \cup {Read(q)}, h \cup {Read(q)})
    PROVE  Legal(r, Reading(q, body), h, h)
<1>1. h \in SUBSET Marks /\ Later(q, h)
  BY InsideFree
<1>2. q \in Locks /\ q # "serv" /\ (r = "client" => Read("serv") \in h) /\ r # "cleaner"
  BY LocksApart DEF Outside
<1> QED
  BY <1>1, <1>2, ReadingLegal

\* The view of a request, found in working or not.
LEMMA ViewsLegal ==
    ASSUME NEW r, NEW q \in Queues, NEW h, Outside(r, h), NEW s \in Views(q)
    PROVE  Legal(r, s, h, h)
<1> DEFINE g == h \cup {Read(q)}
           k == g \cup {Read("working")}
           e == k \cup {Read("paused")}
<1>1. g \in SUBSET Marks /\ MapsFree(r, g)
  BY InsideFree
<1>2. k \in SUBSET Marks /\ e \in SUBSET Marks
  BY <1>1, LocksApart DEF Marks, Read
<1>3. Later("working", g) /\ (r = "client" => Read("serv") \in g) /\ r # "cleaner"
  BY <1>1 DEF MapsFree, Maps, Outside
<1>4. Later("paused", k) /\ (r = "client" => Read("serv") \in k)
  BY <1>1, LocksApart DEF MapsFree, Maps, Later, Read, Cleans, Outside
<1>5. Legal(r, Nothing, k, k) /\ Legal(r, Nothing, e, e)
  BY <1>2, LegalEmpty DEF Nothing
<1>6. Legal(r, Reading("working", Nothing), g, g)
  BY <1>1, <1>3, <1>5, LocksApart, ReadingLegal
<1>7. Legal(r, Reading("paused", Nothing), k, k)
  BY <1>2, <1>3, <1>4, <1>5, LocksApart, ReadingLegal
<1>8. Legal(r, Reading("working", Reading("paused", Nothing)), g, g)
  BY <1>1, <1>3, <1>7, LocksApart, ReadingLegal
<1> QED
  BY <1>6, <1>8, InsideLegal DEF Views

\* A request, whichever way it goes.
LEMMA RequestLegal ==
    ASSUME NEW q \in Queues, NEW s \in RequestPrograms(q)
    PROVE  Legal("client", s, {}, {})
<1> DEFINE h == {Read("serv")}
<1>1. Outside("client", h) /\ h \in SUBSET Marks /\ "serv" \in Locks
  BY LocksApart DEF Outside, Marks, Read
<1>2. /\ \A v \in Views(q) : Legal("client", v, h, h)
      /\ Legal("client", Look("working"), h, h)
  <2>1. MapsFree("client", h) /\ "working" \in Maps
    BY LocksApart DEF MapsFree, Later, Read, Maps
  <2> QED
    BY <1>1, <2>1, ViewsLegal, LookLegal
<1>3. \A x \in Exclusive(q) : Legal("client", x, h, h)
  BY <1>1, ExclusiveLegal
<1>4. \A v \in Views(q), x \in Exclusive(q) : Legal("client", v \o x, h, h)
  BY <1>2, <1>3, LegalConcat
<1>5. \A body : Legal("client", body, h, h) => Legal("client", Reading("serv", body), {}, {})
  <2> SUFFICES ASSUME NEW body, Legal("client", body, h, h)
               PROVE  Legal("client", Reading("serv", body), {}, {})
    OBVIOUS
  <2>1. Later("serv", {}) /\ {} \in SUBSET Marks /\ {} \cup {Read("serv")} = h
    BY DEF Later
  <2> QED
    BY <1>1, <2>1, ReadingLegal
<1>6. \/ s = Reading("serv", Look("working"))
      \/ \E v \in Views(q) : s = Reading("serv", v)
      \/ \E v \in Views(q), x \in Exclusive(q) : s = Reading("serv", v \o x)
  BY DEF RequestPrograms
<1> QED
  BY <1>2, <1>4, <1>5, <1>6

\* A call of an operator.
LEMMA OperatorLegal ==
    ASSUME NEW q \in Queues, NEW s \in OperatorPrograms(q)
    PROVE  Legal("operator", s, {}, {})
<1>1. Outside("operator", {}) /\ MapsFree("operator", {}) /\ {} \in SUBSET Marks
  BY DEF Outside, MapsFree, Later
<1>2. s \in Exclusive(q) => Legal("operator", s, {}, {})
  BY <1>1, ExclusiveLegal
<1>3. ASSUME NEW l \in Looks
      PROVE  Legal("operator", Reading(q, l), {}, {})
  <2>1. MapsFree("operator", {} \cup {Read(q)}) /\ {} \cup {Read(q)} \in SUBSET Marks
    BY <1>1, InsideFree
  <2>2. Legal("operator", l, {} \cup {Read(q)}, {} \cup {Read(q)})
    BY <2>1, LooksLegal
  <2> QED
    BY <1>1, <2>2, InsideLegal
<1>4. \A m \in Maps : Legal("operator", Look(m), {}, {})
  BY <1>1, LookLegal
<1>5. Legal("operator", Writing("serv", Nothing), {}, {})
  <2>1. "serv" \in Locks /\ Later("serv", {}) /\ {Written("serv")} \in SUBSET Marks
    BY LocksApart DEF Later, Marks, Written
  <2>2. Legal("operator", Nothing, {} \cup {Written("serv")}, {} \cup {Written("serv")})
    BY <2>1, LegalEmpty DEF Nothing
  <2> QED
    BY <1>1, <2>1, <2>2, WritingLegal
<1>6. \/ s \in Exclusive(q)
      \/ \E l \in Looks : s = Reading(q, l)
      \/ \E m \in Maps : s = Look(m)
      \/ s = Writing("serv", Nothing)
  BY Zenon DEF OperatorPrograms
<1> QED
  BY <1>2, <1>3, <1>4, <1>5, <1>6

\* A clean-up, which takes a map before a bucket in its middle.
LEMMA CleanLegal ==
    ASSUME NEW q \in Queues, NEW s \in CleanPrograms(q)
    PROVE  Legal("cleaner", s, {}, {})
<1> DEFINE r == "cleaner"
           c == {Cleans}
           w == {Written("serv")}
           b == {Written("serv"), Cleans}
<1>1. PICK m \in Maps :
        s = Writing("serv", <<<<"Set", "serv">>>>)
              \o Look(m) \o Reading(m, Reading(q, Nothing)) \o Writing(q, Change(m)) \o Look(m)
              \o Writing("serv", <<<<"Restore", "serv">>>>)
  BY Zenon DEF CleanPrograms
<1>2. /\ "serv" \in Locks /\ m \in Locks /\ q \in Locks /\ m # "serv" /\ m # q /\ q # "serv"
  BY LocksApart DEF Maps
<1>3. /\ {} \in SUBSET Marks /\ c \in SUBSET Marks /\ w \in SUBSET Marks /\ b \in SUBSET Marks
      /\ c \cup {Written("serv")} = b /\ {} \cup {Written("serv")} = w
      /\ Cleans # Written("serv")
  BY <1>2 DEF Marks, Cleans, Written
<1>4. /\ <<"Set", "serv">> \in Steps /\ <<"Restore", "serv">> \in Steps
      /\ Allowed(r, <<"Set", "serv">>, w) /\ After(<<"Set", "serv">>, w) = b
      /\ Allowed(r, <<"Restore", "serv">>, b) /\ After(<<"Restore", "serv">>, b) = w
  BY <1>2, <1>3 DEF Steps, Allowed, After
<1>5. Legal(r, <<<<"Set", "serv">>>>, w, b) /\ Legal(r, <<<<"Restore", "serv">>>>, b, w)
  BY <1>3, <1>4, LegalOne
<1>6. /\ Later("serv", {}) /\ Later("serv", c) /\ MapsFree(r, c)
      /\ Later(m, c) /\ Later(q, c \cup {Read(m)}) /\ Later(q, c)
      /\ MapsFree(r, c \cup {Written(q)})
  BY <1>2, LocksApart DEF Later, MapsFree, Read, Written, Cleans, Maps
<1>7. Legal(r, Writing("serv", <<<<"Set", "serv">>>>), {}, c)
  <2>1. Written("serv") \notin c
    BY <1>3
  <2> QED
    BY <1>2, <1>3, <1>5, <1>6, <2>1, WritingLegal
<1>8. Legal(r, Writing("serv", <<<<"Restore", "serv">>>>), c, {})
  BY <1>2, <1>3, <1>5, <1>6, WritingLegal
<1>9. Legal(r, Look(m), c, c)
  BY <1>3, <1>6, LookLegal
<1>10. Legal(r, Reading(m, Reading(q, Nothing)), c, c)
  <2> DEFINE g == c \cup {Read(m)}
             k == g \cup {Read(q)}
  <2>1. g \in SUBSET Marks /\ k \in SUBSET Marks
    BY <1>2, <1>3 DEF Marks, Read
  <2>2. Legal(r, Nothing, k, k)
    BY <2>1, LegalEmpty DEF Nothing
  <2>3. Legal(r, Reading(q, Nothing), g, g)
    BY <1>2, <1>6, <2>1, <2>2, ReadingLegal
  <2> QED
    BY <1>2, <1>3, <1>6, <2>3, ReadingLegal
<1>11. Legal(r, Writing(q, Change(m)), c, c)
  <2> DEFINE g == c \cup {Written(q)}
  <2>1. g \in SUBSET Marks /\ Written(q) \notin c
    BY <1>2, <1>3 DEF Marks, Written, Cleans
  <2>2. Legal(r, Change(m), g, g)
    BY <1>6, <2>1, ChangeLegal
  <2> QED
    BY <1>2, <1>3, <1>6, <2>1, <2>2, WritingLegal
<1> DEFINE s1 == Writing("serv", <<<<"Set", "serv">>>>)
           s2 == Look(m)
           s3 == Reading(m, Reading(q, Nothing))
           s4 == Writing(q, Change(m))
           s6 == Writing("serv", <<<<"Restore", "serv">>>>)
<1>12. s = s1 \o s2 \o s3 \o s4 \o s2 \o s6
  BY <1>1
<1>13. /\ Legal(r, s1, {}, c) /\ Legal(r, s2, c, c) /\ Legal(r, s3, c, c)
       /\ Legal(r, s4, c, c) /\ Legal(r, s6, c, {})
  BY <1>7, <1>8, <1>9, <1>10, <1>11
<1> HIDE DEF s1, s2, s3, s4, s6, r, c
<1>14. Legal(r, s1 \o s2, {}, c)
  BY <1>13, LegalConcat
<1>15. Legal(r, s1 \o s2 \o s3, {}, c)
  BY <1>13, <1>14, LegalConcat
<1>16. Legal(r, s1 \o s2 \o s3 \o s4, {}, c)
  BY <1>13, <1>15, LegalConcat
<1>17. Legal(r, s1 \o s2 \o s3 \o s4 \o s2, {}, c)
  BY <1>13, <1>16, LegalConcat
<1>18. Legal(r, s1 \o s2 \o s3 \o s4 \o s2 \o s6, {}, {})
  BY <1>13, <1>17, LegalConcat
<1> QED
  BY <1>12, <1>18 DEF r

-----------------------------------------------------------------------------
(* The invariant: what each goroutine holds agrees with the locks, and what  *)
(* it may still do is legal with that.                                       *)

Types ==
    /\ todo \in [Procs -> SUBSET Seq(Steps)]
    /\ readers \in [Locks -> SUBSET Procs]
    /\ writer \in [Locks -> Procs \cup {Nobody}]
    /\ cleaning \in BOOLEAN

Plans(held) == \A p \in Procs : \A s \in todo[p] : Legal(Role(p), s, held[p], {})

ReadersKnown(held) == \A p \in Procs, l \in Locks : p \in readers[l] <=> Read(l) \in held[p]

WritersKnown(held) ==
    \A p \in Procs, l \in Locks :
        /\ writer[l] = p <=> Claimed(l) \in held[p] \/ Written(l) \in held[p]
        /\ Written(l) \in held[p] => readers[l] = {} /\ Claimed(l) \notin held[p]

\* While a clean-up that is not nested is under way, the status says so, and every
\* other is nested.
CleanerKnown(held) ==
    \A p \in Procs : Cleans \in held[p] =>
        /\ p \in Cleaners
        /\ p \notin nested =>
             cleaning = TRUE /\ \A k \in Procs \ {p} : Cleans \in held[k] => k \in nested

\* A clean-up that has not set the status, or has put it back, holds no more than the
\* service's lock, and only for writing.
CleanersKept(held) ==
    \A p \in Cleaners :
        /\ Read("serv") \notin held[p]
        /\ Cleans \notin held[p] => held[p] \subseteq {Claimed("serv"), Written("serv")}

\* A request holds nothing without the service's read lock, and turns round when
\* the service is cleaning.
ClientsKept(held) ==
    \A p \in Clients : held[p] # {} =>
        /\ Read("serv") \in held[p]
        /\ cleaning = TRUE =>
             held[p] = {Read("serv")} /\ todo[p] = {<<<<"RUnlock", "serv">>>>}

Consistent(held) ==
    /\ held \in [Procs -> SUBSET Marks]
    /\ Plans(held) /\ ReadersKnown(held) /\ WritersKnown(held)
    /\ CleanerKnown(held) /\ CleanersKept(held) /\ ClientsKept(held)

IInv == Types /\ \E held : Consistent(held)

\* A goroutine that goes on with a step may take it.
LEMMA StepAllowed ==
    ASSUME NEW held, Consistent(held), NEW p \in Procs, NEW kind, NEW l, Step(p, kind, l)
    PROVE  /\ <<kind, l>> \in Steps
           /\ held[p] \in SUBSET Marks
           /\ Allowed(Role(p), <<kind, l>>, held[p])
           /\ After(<<kind, l>>, held[p]) \in SUBSET Marks
           /\ \A s \in Starting(p, kind, l) :
                 Legal(Role(p), Tail(s), After(<<kind, l>>, held[p]), {})
<1>1. \A s \in todo[p] : Legal(Role(p), s, held[p], {})
  BY DEF Consistent, Plans
<1>2. \A s \in Starting(p, kind, l) : s \in todo[p] /\ s # <<>> /\ Head(s) = <<kind, l>>
  BY DEF Starting
<1>3. \A s \in Starting(p, kind, l) :
        /\ <<kind, l>> \in Steps /\ held[p] \in SUBSET Marks
        /\ Allowed(Role(p), <<kind, l>>, held[p])
        /\ Legal(Role(p), Tail(s), After(<<kind, l>>, held[p]), {})
  BY <1>1, <1>2, LegalTail
<1>4. \E s : s \in Starting(p, kind, l)
  BY DEF Step
<1>5. <<kind, l>> \in Steps /\ held[p] \in SUBSET Marks
  BY <1>3, <1>4
<1> QED
  BY <1>3, <1>4, <1>5, AfterMarks

\* At the start nobody holds anything.
LEMMA Initially == Init => IInv
<1> SUFFICES ASSUME Init PROVE IInv
  OBVIOUS
<1> DEFINE held == [p \in Procs |-> {}]
<1>1. Types
  <2>1. {<<>>} \in SUBSET Seq(Steps)
    OBVIOUS
  <2> QED
    BY <2>1 DEF Init, Types
<1>2. Plans(held)
  <2>1. \A r : Legal(r, <<>>, {}, {})
    BY LegalEmpty
  <2> QED
    BY <2>1 DEF Plans, Init
<1>3. ReadersKnown(held) /\ CleanerKnown(held) /\ CleanersKept(held) /\ ClientsKept(held)
  BY DEF Init, ReadersKnown, CleanerKnown, CleanersKept, ClientsKept, Procs
<1>4. WritersKnown(held)
  BY LocksAssumption DEF LocksAssumption, Init, WritersKnown, Procs
<1>5. held \in [Procs -> SUBSET Marks]
  OBVIOUS
<1>6. Consistent(held)
  BY <1>2, <1>3, <1>4, <1>5 DEF Consistent
<1> QED
  BY <1>1, <1>6 DEF IInv

\* A goroutine that holds nothing when it calls.
LEMMA CallStep == ASSUME IInv, NEW p \in Procs, Call(p) PROVE IInv'
<1>1. PICK held : Consistent(held)
  BY DEF IInv
<1>2. PICK q \in Queues :
        todo' = [todo EXCEPT ![p] = CASE p \in Clients   -> RequestPrograms(q)
                                      [] p \in Operators -> OperatorPrograms(q)
                                      [] p \in Cleaners  -> CleanPrograms(q)]
  BY DEF Call
<1>3. held[p] = {}
  <2>1. Legal(Role(p), <<>>, held[p], {})
    BY <1>1 DEF Call, Idle, Consistent, Plans
  <2> QED
    BY <2>1, LegalDone
<1> DEFINE new == CASE p \in Clients   -> RequestPrograms(q)
                    [] p \in Operators -> OperatorPrograms(q)
                    [] p \in Cleaners  -> CleanPrograms(q)
<1>4. \A s \in new : Legal(Role(p), s, {}, {})
  <2>1. CASE p \in Clients
    <3>1. new = RequestPrograms(q) /\ Role(p) = "client"
      BY <2>1, LocksAssumption DEF LocksAssumption, Role
    <3> QED
      BY <3>1, RequestLegal
  <2>2. CASE p \in Operators
    <3>1. new = OperatorPrograms(q) /\ Role(p) = "operator"
      BY <2>2, LocksAssumption DEF LocksAssumption, Role
    <3> QED
      BY <3>1, OperatorLegal
  <2>3. CASE p \in Cleaners
    <3>1. new = CleanPrograms(q) /\ Role(p) = "cleaner"
      BY <2>3, LocksAssumption DEF LocksAssumption, Role
    <3> QED
      BY <3>1, CleanLegal
  <2> QED
    BY <2>1, <2>2, <2>3 DEF Procs
<1>5. \A s \in new : s \in Seq(Steps)
  BY <1>4 DEF Legal
<1> HIDE DEF new
<1>6. todo' = [todo EXCEPT ![p] = new]
  BY <1>2 DEF new
<1>7. UNCHANGED <<readers, writer, cleaning, nested>> /\ Types
  BY DEF Call, IInv
<1>8. Types'
  BY <1>5, <1>6, <1>7 DEF Types
<1>9. Plans(held)'
  BY <1>1, <1>3, <1>4, <1>6, <1>7 DEF Types, Plans, Consistent
<1>10. /\ ReadersKnown(held)' /\ WritersKnown(held)'
       /\ CleanerKnown(held)' /\ CleanersKept(held)'
  BY <1>1, <1>7 DEF ReadersKnown, WritersKnown, CleanerKnown, CleanersKept, Consistent
<1>11. ClientsKept(held)'
  <2>1. \A k \in Clients : held[k] # {} => k # p /\ k \in Procs
    BY <1>3 DEF Procs
  <2> QED
    BY <1>1, <1>6, <1>7, <2>1 DEF ClientsKept, Consistent, Types
<1>12. (held \in [Procs -> SUBSET Marks])'
  BY <1>1 DEF Consistent
<1>13. Consistent(held)'
  BY <1>9, <1>10, <1>11, <1>12 DEF Consistent
<1> QED
  BY <1>8, <1>13 DEF IInv

\* A step taken: the rest is legal with what is held after it.
LEMMA Advanced ==
    ASSUME Types, NEW held, Consistent(held), NEW p \in Procs, NEW kind, NEW l,
           Step(p, kind, l), Advance(p, kind, l),
           NEW new, new = [held EXCEPT ![p] = After(<<kind, l>>, held[p])]
    PROVE  /\ todo' \in [Procs -> SUBSET Seq(Steps)]
           /\ new \in [Procs -> SUBSET Marks]
           /\ Plans(new)'
           /\ new[p] = After(<<kind, l>>, held[p])
           /\ \A k \in Procs \ {p} : new[k] = held[k] /\ todo'[k] = todo[k]
<1>1. /\ After(<<kind, l>>, held[p]) \in SUBSET Marks
      /\ \A s \in Starting(p, kind, l) :
            Legal(Role(p), Tail(s), After(<<kind, l>>, held[p]), {})
  BY StepAllowed
<1>2. held \in [Procs -> SUBSET Marks]
  BY DEF Consistent
<1>3. /\ new \in [Procs -> SUBSET Marks]
      /\ new[p] = After(<<kind, l>>, held[p])
      /\ \A k \in Procs \ {p} : new[k] = held[k]
  BY <1>1, <1>2
<1> DEFINE rest == {Tail(s) : s \in Starting(p, kind, l)}
<1>4. \A s \in rest : Legal(Role(p), s, new[p], {})
  BY <1>1, <1>3
<1>5. rest \in SUBSET Seq(Steps)
  BY <1>4 DEF Legal
<1> HIDE DEF rest
<1>6. todo' = [todo EXCEPT ![p] = rest]
  BY DEF Advance, rest
<1>7. /\ todo' \in [Procs -> SUBSET Seq(Steps)]
      /\ todo'[p] = rest /\ \A k \in Procs \ {p} : todo'[k] = todo[k]
  BY <1>5, <1>6 DEF Types
<1>8. \A k \in Procs : \A s \in todo'[k] : Legal(Role(k), s, new[k], {})
  BY <1>3, <1>4, <1>7 DEF Consistent, Plans
<1> QED
  BY <1>3, <1>7, <1>8 DEF Plans

\* What the marks of one lock say of another.
LEMMA MarksApart ==
    /\ \A l, m : /\ Read(l) # Claimed(m) /\ Read(l) # Written(m) /\ Claimed(l) # Written(m)
                 /\ Read(l) # Cleans /\ Claimed(l) # Cleans /\ Written(l) # Cleans
                 /\ (Read(l) = Read(m) => l = m)
                 /\ (Claimed(l) = Claimed(m) => l = m)
                 /\ (Written(l) = Written(m) => l = m)
BY DEF Read, Claimed, Written, Cleans

\* What a clean-up holds after a step.
LEMMA CleanersStep ==
    ASSUME NEW held, Consistent(held), NEW p \in Procs, NEW kind, NEW l,
           Allowed(Role(p), <<kind, l>>, held[p]),
           NEW new, new[p] = After(<<kind, l>>, held[p]), \A k \in Procs \ {p} : new[k] = held[k]
    PROVE  CleanersKept(new)
<1> SUFFICES ASSUME NEW k \in Cleaners
             PROVE  /\ Read("serv") \notin new[k]
                    /\ Cleans \notin new[k] => new[k] \subseteq {Claimed("serv"), Written("serv")}
  BY DEF CleanersKept
<1>1. /\ k \in Procs /\ Read("serv") \notin held[k]
      /\ Cleans \notin held[k] => held[k] \subseteq {Claimed("serv"), Written("serv")}
  BY DEF Consistent, CleanersKept, Procs
<1>2. CASE k # p
  BY <1>1, <1>2
<1>3. CASE k = p
  <2>1. Role(k) = "cleaner"
    BY LocksAssumption DEF LocksAssumption, Role
  <2> DEFINE st == <<kind, l>>
  <2>2. st[1] = kind /\ st[2] = l
    OBVIOUS
  <2> HIDE DEF st
  <2>3. /\ Allowed("cleaner", st, held[k]) /\ new[k] = After(st, held[k])
    BY <1>3, <2>1 DEF st
  <2>4. CASE kind = "RLock"
    BY <1>1, <2>2, <2>3, <2>4, MarksApart DEF Allowed, After
  <2>5. CASE kind = "Lock"
    BY <1>1, <2>2, <2>3, <2>5, MarksApart DEF Allowed, After
  <2>6. CASE kind = "Drain"
    BY <1>1, <2>2, <2>3, <2>6, MarksApart DEF Allowed, After
  <2>7. CASE kind = "RUnlock" \/ kind = "Unlock"
    BY <1>1, <2>2, <2>3, <2>7, MarksApart DEF Allowed, After
  <2>8. CASE kind = "Set"
    BY <1>1, <2>2, <2>3, <2>8, MarksApart DEF Allowed, After
  <2>9. CASE kind = "Restore"
    BY <1>1, <2>2, <2>3, <2>9, MarksApart DEF Allowed, After
  <2> QED
    BY <2>2, <2>3, <2>4, <2>5, <2>6, <2>7, <2>8, <2>9 DEF Allowed
<1> QED
  BY <1>2, <1>3

\* A lock given back after reading.
LEMMA RUnlockStep ==
    ASSUME IInv, NEW p \in Procs, NEW l \in Locks, RUnlock(p, l) PROVE IInv'
<1>1. Types /\ Step(p, "RUnlock", l) /\ Advance(p, "RUnlock", l)
      /\ readers' = [readers EXCEPT ![l] = @ \ {p}] /\ writer' = writer /\ cleaning' = cleaning /\ nested' = nested
  BY DEF IInv, RUnlock
<1>2. PICK held : Consistent(held)
  BY DEF IInv
<1> DEFINE new == [held EXCEPT ![p] = After(<<"RUnlock", l>>, held[p])]
<1>3. /\ Allowed(Role(p), <<"RUnlock", l>>, held[p]) /\ held[p] \in SUBSET Marks
  BY <1>1, <1>2, StepAllowed
<1>4. Read(l) \in held[p] /\ (l = "serv" => held[p] = {Read("serv")})
  BY <1>3 DEF Allowed
<1>5. /\ todo' \in [Procs -> SUBSET Seq(Steps)]
      /\ new \in [Procs -> SUBSET Marks]
      /\ Plans(new)'
      /\ new[p] = After(<<"RUnlock", l>>, held[p])
      /\ \A k \in Procs \ {p} : new[k] = held[k] /\ todo'[k] = todo[k]
  BY <1>1, <1>2, Advanced
<1>6. new[p] = held[p] \ {Read(l)}
  BY <1>5 DEF After
<1> HIDE DEF new
<1>7. Types'
  BY <1>1, <1>5 DEF Types
<1>8. ReadersKnown(new)'
  BY <1>1, <1>2, <1>5, <1>6, MarksApart DEF ReadersKnown, Consistent, Types
<1>9. WritersKnown(new)'
  BY <1>1, <1>2, <1>5, <1>6, MarksApart DEF WritersKnown, Consistent, Types
<1>10. CleanerKnown(new)' /\ CleanersKept(new)'
  <2>1. \A k \in Procs : Cleans \in new[k] <=> Cleans \in held[k]
    BY <1>5, <1>6, MarksApart
  <2>2. CleanerKnown(new)'
    BY <1>1, <1>2, <2>1 DEF CleanerKnown, Consistent
  <2> QED
    BY <1>2, <1>3, <1>5, <2>2, CleanersStep
<1>11. ClientsKept(new)'
  <2> SUFFICES ASSUME NEW k \in Clients, new[k] # {}
               PROVE  /\ Read("serv") \in new[k]
                      /\ cleaning = TRUE =>
                           new[k] = {Read("serv")} /\ todo'[k] = {<<<<"RUnlock", "serv">>>>}
    BY <1>1 DEF ClientsKept
  <2>1. k \in Procs
    BY DEF Procs
  <2>2. CASE k # p
    BY <1>2, <1>5, <2>1, <2>2 DEF ClientsKept, Consistent
  <2>3. CASE k = p
    <3>1. l # "serv"
      BY <1>4, <1>6, <2>3
    <3>2. held[k] # {} /\ held[k] # {Read("serv")} /\ Read("serv") \in held[k]
      BY <1>2, <1>4, <2>3, <3>1, MarksApart DEF ClientsKept, Consistent
    <3> QED
      BY <1>2, <1>6, <2>3, <3>1, <3>2, MarksApart DEF ClientsKept, Consistent
  <2> QED
    BY <2>2, <2>3
<1>12. Consistent(new)'
  BY <1>5, <1>8, <1>9, <1>10, <1>11 DEF Consistent
<1> QED
  BY <1>7, <1>12 DEF IInv

\* A lock taken for reading; a request that finds the service cleaning turns round.
LEMMA RLockStep ==
    ASSUME IInv, NEW p \in Procs, NEW l \in Locks, RLock(p, l) PROVE IInv'
<1>1. /\ Types /\ Step(p, "RLock", l) /\ writer[l] = Nobody
      /\ readers' = [readers EXCEPT ![l] = @ \cup {p}] /\ writer' = writer /\ cleaning' = cleaning /\ nested' = nested
  BY DEF IInv, RLock
<1>2. PICK held : Consistent(held)
  BY DEF IInv
<1> DEFINE new == [held EXCEPT ![p] = After(<<"RLock", l>>, held[p])]
<1>3. /\ Allowed(Role(p), <<"RLock", l>>, held[p]) /\ held[p] \in SUBSET Marks
      /\ After(<<"RLock", l>>, held[p]) \in SUBSET Marks
  BY <1>1, <1>2, StepAllowed
<1>4. Later(l, held[p]) /\ (Role(p) = "client" => l = "serv" \/ Read("serv") \in held[p])
  BY <1>3 DEF Allowed
<1>5. /\ todo' \in [Procs -> SUBSET Seq(Steps)]
      /\ new \in [Procs -> SUBSET Marks]
      /\ Plans(new)'
      /\ new[p] = After(<<"RLock", l>>, held[p])
      /\ \A k \in Procs \ {p} : new[k] = held[k] /\ todo'[k] = todo[k]
      /\ p \in Clients /\ cleaning = TRUE =>
           new[p] = {Read("serv")} /\ todo'[p] = {<<<<"RUnlock", "serv">>>>}
  <2>1. CASE TurnedAway(p, l)
    <3> DEFINE back == <<<<"RUnlock", l>>>>
    <3>1. l = "serv" /\ p \in Clients /\ cleaning = TRUE /\ todo' = [todo EXCEPT ![p] = {back}]
      BY <1>1, <2>1 DEF TurnedAway, RLock, Types
    <3>2. held[p] = {}
      <4>1. Read("serv") \in held[p] => FALSE
        BY <1>4, <3>1 DEF Later, Read, Cleans
      <4> QED
        BY <1>2, <3>1, <4>1 DEF ClientsKept, Consistent
    <3>3. After(<<"RLock", l>>, held[p]) = {Read("serv")}
      BY <3>1, <3>2 DEF After
    <3>4. Legal(Role(p), back, {Read("serv")}, {})
      <4>1. <<"RUnlock", l>> \in Steps /\ {Read("serv")} \in SUBSET Marks
        BY <3>1 DEF Steps, Marks, Read
      <4>2. Allowed(Role(p), <<"RUnlock", l>>, {Read("serv")})
        BY <3>1 DEF Allowed
      <4>3. After(<<"RUnlock", l>>, {Read("serv")}) = {}
        BY <3>1 DEF After
      <4> QED
        BY <4>1, <4>2, <4>3, LegalOne
    <3>5. back \in Seq(Steps)
      BY <3>4 DEF Legal
    <3> HIDE DEF back
    <3>6. /\ todo' \in [Procs -> SUBSET Seq(Steps)] /\ todo'[p] = {back}
          /\ \A k \in Procs \ {p} : todo'[k] = todo[k]
      BY <1>1, <3>1, <3>5 DEF Types
    <3>7. /\ new \in [Procs -> SUBSET Marks] /\ new[p] = {Read("serv")}
          /\ \A k \in Procs \ {p} : new[k] = held[k]
      BY <1>2, <1>3, <3>3 DEF Consistent
    <3> HIDE DEF new
    <3>8. \A k \in Procs : \A s \in todo'[k] : Legal(Role(k), s, new[k], {})
      BY <1>2, <3>4, <3>6, <3>7 DEF Consistent, Plans
    <3>9. Plans(new)'
      BY <3>8 DEF Plans
    <3> QED
      BY <3>1, <3>3, <3>6, <3>7, <3>9 DEF back
  <2>2. CASE ~TurnedAway(p, l)
    <3>1. Advance(p, "RLock", l)
      BY <2>2 DEF RLock
    <3>2. p \in Clients /\ cleaning = TRUE => FALSE
      <4> SUFFICES ASSUME p \in Clients, cleaning = TRUE PROVE FALSE
        OBVIOUS
      <4>1. l # "serv" /\ Role(p) = "client"
        BY <2>2 DEF TurnedAway, Role
      <4>2. held[p] # {} /\ todo[p] = {<<<<"RUnlock", "serv">>>>}
        BY <1>2, <1>4, <4>1 DEF ClientsKept, Consistent
      <4>3. \A s \in todo[p] : Head(s) = <<"RUnlock", "serv">>
        BY <4>2
      <4>4. \E s \in todo[p] : Head(s) = <<"RLock", l>>
        BY <1>1 DEF Step, Starting
      <4> QED
        BY <4>3, <4>4
    <3>3. /\ todo' \in [Procs -> SUBSET Seq(Steps)]
          /\ new \in [Procs -> SUBSET Marks]
          /\ Plans(new)'
          /\ new[p] = After(<<"RLock", l>>, held[p])
          /\ \A k \in Procs \ {p} : new[k] = held[k] /\ todo'[k] = todo[k]
      BY <1>1, <1>2, <3>1, Advanced
    <3> HIDE DEF new
    <3> QED
      BY <3>2, <3>3
  <2> QED
    BY <2>1, <2>2
<1>6. new[p] = held[p] \cup {Read(l)}
  BY <1>5 DEF After
<1> HIDE DEF new
<1>7. Types'
  BY <1>1, <1>5 DEF Types
<1>8. ReadersKnown(new)'
  <2> SUFFICES ASSUME NEW k \in Procs, NEW m \in Locks
               PROVE  k \in readers'[m] <=> Read(m) \in new[k]
    BY DEF ReadersKnown
  <2>1. k \in readers[m] <=> Read(m) \in held[k]
    BY <1>2 DEF ReadersKnown, Consistent
  <2>2. readers'[m] = IF m = l THEN readers[m] \cup {p} ELSE readers[m]
    BY <1>1 DEF Types
  <2>3. Read(m) = Read(l) <=> m = l
    BY MarksApart
  <2>4. CASE k = p
    BY <1>6, <2>1, <2>2, <2>3, <2>4
  <2>5. CASE k # p
    BY <1>5, <2>1, <2>2, <2>5
  <2> QED
    BY <2>4, <2>5
<1>9. WritersKnown(new)'
  <2>1. \A k \in Procs : Written(l) \notin held[k]
    BY <1>1, <1>2, LocksAssumption DEF WritersKnown, Consistent, LocksAssumption, Procs
  <2> QED
    BY <1>1, <1>2, <1>5, <1>6, <2>1, MarksApart DEF WritersKnown, Consistent, Types
<1>10. CleanerKnown(new)' /\ CleanersKept(new)'
  <2>1. \A k \in Procs : Cleans \in new[k] <=> Cleans \in held[k]
    BY <1>5, <1>6, MarksApart
  <2>2. CleanerKnown(new)'
    BY <1>1, <1>2, <2>1 DEF CleanerKnown, Consistent
  <2> QED
    BY <1>2, <1>3, <1>5, <2>2, CleanersStep
<1>11. ClientsKept(new)'
  <2> SUFFICES ASSUME NEW k \in Clients, new[k] # {}
               PROVE  /\ Read("serv") \in new[k]
                      /\ cleaning = TRUE =>
                           new[k] = {Read("serv")} /\ todo'[k] = {<<<<"RUnlock", "serv">>>>}
    BY <1>1 DEF ClientsKept
  <2>1. k \in Procs
    BY DEF Procs
  <2>2. CASE k # p
    BY <1>2, <1>5, <2>1, <2>2 DEF ClientsKept, Consistent
  <2>3. CASE k = p
    <3>1. Read("serv") \in new[p]
      BY <1>4, <1>6, <2>3 DEF Role
    <3> QED
      BY <1>5, <2>3, <3>1
  <2> QED
    BY <2>2, <2>3
<1>12. Consistent(new)'
  BY <1>5, <1>8, <1>9, <1>10, <1>11 DEF Consistent
<1> QED
  BY <1>7, <1>12 DEF IInv

\* A lock claimed for writing.
LEMMA LockStep ==
    ASSUME IInv, NEW p \in Procs, NEW l \in Locks, Lock(p, l) PROVE IInv'
<1>1. /\ Types /\ Step(p, "Lock", l) /\ Advance(p, "Lock", l)
      /\ writer[l] = Nobody /\ writer' = [writer EXCEPT ![l] = p]
      /\ readers' = readers /\ cleaning' = cleaning /\ nested' = nested
  BY DEF IInv, Lock
<1>2. PICK held : Consistent(held)
  BY DEF IInv
<1> DEFINE new == [held EXCEPT ![p] = After(<<"Lock", l>>, held[p])]
<1>3. /\ Allowed(Role(p), <<"Lock", l>>, held[p]) /\ held[p] \in SUBSET Marks
  BY <1>1, <1>2, StepAllowed
<1>4. Later(l, held[p]) /\ (Role(p) = "client" => Read("serv") \in held[p])
  BY <1>3 DEF Allowed
<1>5. /\ todo' \in [Procs -> SUBSET Seq(Steps)]
      /\ new \in [Procs -> SUBSET Marks]
      /\ Plans(new)'
      /\ new[p] = After(<<"Lock", l>>, held[p])
      /\ \A k \in Procs \ {p} : new[k] = held[k] /\ todo'[k] = todo[k]
  BY <1>1, <1>2, Advanced
<1>6. new[p] = held[p] \cup {Claimed(l)}
  BY <1>5 DEF After
<1> HIDE DEF new
<1>7. Types'
  BY <1>1, <1>5 DEF Types
<1>8. ReadersKnown(new)'
  BY <1>1, <1>2, <1>5, <1>6, MarksApart DEF ReadersKnown, Consistent, Types
<1>9. WritersKnown(new)'
  <2> SUFFICES ASSUME NEW k \in Procs, NEW m \in Locks
               PROVE  /\ writer'[m] = k <=> Claimed(m) \in new[k] \/ Written(m) \in new[k]
                      /\ Written(m) \in new[k] => readers'[m] = {} /\ Claimed(m) \notin new[k]
    BY DEF WritersKnown
  <2>1. /\ writer[m] = k <=> Claimed(m) \in held[k] \/ Written(m) \in held[k]
        /\ Written(m) \in held[k] => readers[m] = {} /\ Claimed(m) \notin held[k]
    BY <1>2 DEF WritersKnown, Consistent
  <2>2. writer'[m] = IF m = l THEN p ELSE writer[m]
    BY <1>1 DEF Types
  <2>3. /\ m = l => writer[m] # k /\ Written(m) \notin held[k]
        /\ Claimed(m) = Claimed(l) <=> m = l
    BY <1>1, <2>1, MarksApart, LocksAssumption DEF LocksAssumption, Procs
  <2>4. CASE k = p
    BY <1>1, <1>4, <1>6, <2>1, <2>2, <2>3, <2>4, MarksApart
  <2>5. CASE k # p
    BY <1>1, <1>5, <2>1, <2>2, <2>3, <2>5
  <2> QED
    BY <2>4, <2>5
<1>10. CleanerKnown(new)' /\ CleanersKept(new)'
  <2>1. \A k \in Procs : Cleans \in new[k] <=> Cleans \in held[k]
    BY <1>5, <1>6, MarksApart
  <2>2. CleanerKnown(new)'
    BY <1>1, <1>2, <2>1 DEF CleanerKnown, Consistent
  <2> QED
    BY <1>2, <1>3, <1>5, <2>2, CleanersStep
<1>11. ClientsKept(new)'
  <2> SUFFICES ASSUME NEW k \in Clients, new[k] # {}
               PROVE  /\ Read("serv") \in new[k]
                      /\ cleaning = TRUE =>
                           new[k] = {Read("serv")} /\ todo'[k] = {<<<<"RUnlock", "serv">>>>}
    BY <1>1 DEF ClientsKept
  <2>1. k \in Procs
    BY DEF Procs
  <2>2. CASE k # p
    BY <1>2, <1>5, <2>1, <2>2 DEF ClientsKept, Consistent
  <2>3. CASE k = p
    <3>1. held[k] # {} /\ Read("serv") \in held[k]
      BY <1>4, <2>3 DEF Role
    <3>2. cleaning = TRUE => FALSE
      <4> SUFFICES ASSUME cleaning = TRUE PROVE FALSE
        OBVIOUS
      <4>1. todo[k] = {<<<<"RUnlock", "serv">>>>}
        BY <1>2, <3>1 DEF ClientsKept, Consistent
      <4>2. \A s \in todo[k] : Head(s) = <<"RUnlock", "serv">>
        BY <4>1
      <4>3. \E s \in todo[k] : Head(s) = <<"Lock", l>>
        BY <1>1, <2>3 DEF Step, Starting
      <4> QED
        BY <4>2, <4>3
    <3> QED
      BY <1>6, <2>3, <3>1, <3>2, MarksApart
  <2> QED
    BY <2>2, <2>3
<1>12. Consistent(new)'
  BY <1>5, <1>8, <1>9, <1>10, <1>11 DEF Consistent
<1> QED
  BY <1>7, <1>12 DEF IInv

\* A claimed lock whose readers are gone.
LEMMA DrainStep ==
    ASSUME IInv, NEW p \in Procs, NEW l \in Locks, Drain(p, l) PROVE IInv'
<1>1. /\ Types /\ Step(p, "Drain", l) /\ Advance(p, "Drain", l)
      /\ readers[l] = {} /\ readers' = readers
      /\ writer' = writer /\ cleaning' = cleaning /\ nested' = nested
  BY DEF IInv, Drain
<1>2. PICK held : Consistent(held)
  BY DEF IInv
<1> DEFINE new == [held EXCEPT ![p] = After(<<"Drain", l>>, held[p])]
<1>3. /\ Allowed(Role(p), <<"Drain", l>>, held[p]) /\ held[p] \in SUBSET Marks
  BY <1>1, <1>2, StepAllowed
<1>4. Claimed(l) \in held[p]
  BY <1>3 DEF Allowed
<1>5. /\ todo' \in [Procs -> SUBSET Seq(Steps)]
      /\ new \in [Procs -> SUBSET Marks]
      /\ Plans(new)'
      /\ new[p] = After(<<"Drain", l>>, held[p])
      /\ \A k \in Procs \ {p} : new[k] = held[k] /\ todo'[k] = todo[k]
  BY <1>1, <1>2, Advanced
<1>6. new[p] = (held[p] \ {Claimed(l)}) \cup {Written(l)}
  BY <1>5 DEF After
<1> HIDE DEF new
<1>7. Types'
  BY <1>1, <1>5 DEF Types
<1>8. ReadersKnown(new)'
  BY <1>1, <1>2, <1>5, <1>6, MarksApart DEF ReadersKnown, Consistent, Types
<1>9. WritersKnown(new)'
  <2> SUFFICES ASSUME NEW k \in Procs, NEW m \in Locks
               PROVE  /\ writer'[m] = k <=> Claimed(m) \in new[k] \/ Written(m) \in new[k]
                      /\ Written(m) \in new[k] => readers'[m] = {} /\ Claimed(m) \notin new[k]
    BY DEF WritersKnown
  <2>1. /\ writer[m] = k <=> Claimed(m) \in held[k] \/ Written(m) \in held[k]
        /\ Written(m) \in held[k] => readers[m] = {} /\ Claimed(m) \notin held[k]
    BY <1>2 DEF WritersKnown, Consistent
  <2>2. Claimed(m) = Claimed(l) <=> m = l
    BY MarksApart
  <2>3. Written(m) = Written(l) <=> m = l
    BY MarksApart
  <2>4. CASE k = p
    BY <1>1, <1>4, <1>6, <2>1, <2>2, <2>3, <2>4, MarksApart
  <2>5. CASE k # p
    BY <1>1, <1>5, <2>1, <2>2, <2>3, <2>5
  <2> QED
    BY <2>4, <2>5
<1>10. CleanerKnown(new)' /\ CleanersKept(new)'
  <2>1. \A k \in Procs : Cleans \in new[k] <=> Cleans \in held[k]
    BY <1>5, <1>6, MarksApart
  <2>2. CleanerKnown(new)'
    BY <1>1, <1>2, <2>1 DEF CleanerKnown, Consistent
  <2> QED
    BY <1>2, <1>3, <1>5, <2>2, CleanersStep
<1>11. ClientsKept(new)'
  <2> SUFFICES ASSUME NEW k \in Clients, new[k] # {}
               PROVE  /\ Read("serv") \in new[k]
                      /\ cleaning = TRUE =>
                           new[k] = {Read("serv")} /\ todo'[k] = {<<<<"RUnlock", "serv">>>>}
    BY <1>1 DEF ClientsKept
  <2>1. k \in Procs
    BY DEF Procs
  <2>2. CASE k # p
    BY <1>2, <1>5, <2>1, <2>2 DEF ClientsKept, Consistent
  <2>3. CASE k = p
    <3>1. held[k] # {} /\ Read("serv") \in held[k]
      BY <1>2, <1>4, <2>3 DEF ClientsKept, Consistent
    <3>2. cleaning = TRUE => FALSE
      <4> SUFFICES ASSUME cleaning = TRUE PROVE FALSE
        OBVIOUS
      <4>1. todo[k] = {<<<<"RUnlock", "serv">>>>}
        BY <1>2, <3>1 DEF ClientsKept, Consistent
      <4>2. \A s \in todo[k] : Head(s) = <<"RUnlock", "serv">>
        BY <4>1
      <4>3. \E s \in todo[k] : Head(s) = <<"Drain", l>>
        BY <1>1, <2>3 DEF Step, Starting
      <4> QED
        BY <4>2, <4>3
    <3> QED
      BY <1>6, <2>3, <3>1, <3>2, MarksApart
  <2> QED
    BY <2>2, <2>3
<1>12. Consistent(new)'
  BY <1>5, <1>8, <1>9, <1>10, <1>11 DEF Consistent
<1> QED
  BY <1>7, <1>12 DEF IInv

\* A lock given back after writing.
LEMMA UnlockStep ==
    ASSUME IInv, NEW p \in Procs, NEW l \in Locks, Unlock(p, l) PROVE IInv'
<1>1. /\ Types /\ Step(p, "Unlock", l) /\ Advance(p, "Unlock", l)
      /\ readers' = readers
      /\ writer' = [writer EXCEPT ![l] = Nobody] /\ cleaning' = cleaning /\ nested' = nested
  BY DEF IInv, Unlock
<1>2. PICK held : Consistent(held)
  BY DEF IInv
<1> DEFINE new == [held EXCEPT ![p] = After(<<"Unlock", l>>, held[p])]
<1>3. /\ Allowed(Role(p), <<"Unlock", l>>, held[p]) /\ held[p] \in SUBSET Marks
  BY <1>1, <1>2, StepAllowed
<1>4. Written(l) \in held[p]
  BY <1>3 DEF Allowed
<1>5. /\ todo' \in [Procs -> SUBSET Seq(Steps)]
      /\ new \in [Procs -> SUBSET Marks]
      /\ Plans(new)'
      /\ new[p] = After(<<"Unlock", l>>, held[p])
      /\ \A k \in Procs \ {p} : new[k] = held[k] /\ todo'[k] = todo[k]
  BY <1>1, <1>2, Advanced
<1>6. new[p] = held[p] \ {Written(l)}
  BY <1>5 DEF After
<1> HIDE DEF new
<1>7. Types'
  BY <1>1, <1>5 DEF Types
<1>8. ReadersKnown(new)'
  <2>1. \A k \in Procs, m \in Locks : Read(m) \in new[k] <=> Read(m) \in held[k]
    BY <1>5, <1>6, MarksApart
  <2> QED
    BY <1>1, <1>2, <2>1 DEF ReadersKnown, Consistent
<1>9. WritersKnown(new)'
  <2> SUFFICES ASSUME NEW k \in Procs, NEW m \in Locks
               PROVE  /\ writer'[m] = k <=> Claimed(m) \in new[k] \/ Written(m) \in new[k]
                      /\ Written(m) \in new[k] => readers'[m] = {} /\ Claimed(m) \notin new[k]
    BY DEF WritersKnown
  <2>1. /\ writer[m] = k <=> Claimed(m) \in held[k] \/ Written(m) \in held[k]
        /\ Written(m) \in held[k] => readers[m] = {} /\ Claimed(m) \notin held[k]
    BY <1>2 DEF WritersKnown, Consistent
  <2>2. writer'[m] = IF m = l THEN Nobody ELSE writer[m]
    BY <1>1 DEF Types
  <2>3. /\ k # Nobody
        /\ writer[l] = p /\ Claimed(l) \notin held[p]
        /\ Written(m) = Written(l) <=> m = l
    BY <1>2, <1>4, MarksApart, LocksAssumption
       DEF LocksAssumption, Procs, WritersKnown, Consistent
  <2>4. CASE k = p
    BY <1>1, <1>4, <1>6, <2>1, <2>2, <2>3, <2>4, MarksApart
  <2>5. CASE k # p
    BY <1>1, <1>5, <2>1, <2>2, <2>3, <2>5
  <2> QED
    BY <2>4, <2>5
<1>10. CleanerKnown(new)' /\ CleanersKept(new)'
  <2>1. \A k \in Procs : Cleans \in new[k] <=> Cleans \in held[k]
    BY <1>5, <1>6, MarksApart
  <2>2. CleanerKnown(new)'
    BY <1>1, <1>2, <2>1 DEF CleanerKnown, Consistent
  <2> QED
    BY <1>2, <1>3, <1>5, <2>2, CleanersStep
<1>11. ClientsKept(new)'
  <2> SUFFICES ASSUME NEW k \in Clients, new[k] # {}
               PROVE  /\ Read("serv") \in new[k]
                      /\ cleaning = TRUE =>
                           new[k] = {Read("serv")} /\ todo'[k] = {<<<<"RUnlock", "serv">>>>}
    BY <1>1 DEF ClientsKept
  <2>1. k \in Procs
    BY DEF Procs
  <2>2. CASE k # p
    BY <1>2, <1>5, <2>1, <2>2 DEF ClientsKept, Consistent
  <2>3. CASE k = p
    <3>1. held[k] # {} /\ Read("serv") \in held[k]
      BY <1>2, <1>4, <2>3 DEF ClientsKept, Consistent
    <3>2. cleaning = TRUE => FALSE
      <4> SUFFICES ASSUME cleaning = TRUE PROVE FALSE
        OBVIOUS
      <4>1. todo[k] = {<<<<"RUnlock", "serv">>>>}
        BY <1>2, <3>1 DEF ClientsKept, Consistent
      <4>2. \A s \in todo[k] : Head(s) = <<"RUnlock", "serv">>
        BY <4>1
      <4>3. \E s \in todo[k] : Head(s) = <<"Unlock", l>>
        BY <1>1, <2>3 DEF Step, Starting
      <4> QED
        BY <4>2, <4>3
    <3> QED
      BY <1>6, <2>3, <3>1, <3>2, MarksApart
  <2> QED
    BY <2>2, <2>3
<1>12. Consistent(new)'
  BY <1>5, <1>8, <1>9, <1>10, <1>11 DEF Consistent
<1> QED
  BY <1>7, <1>12 DEF IInv

\* The status set to Cleaning, when no request is under way, and restored.
LEMMA SetCleaningStep ==
    ASSUME IInv, NEW p \in Procs, SetCleaning(p) PROVE IInv'
<1>1. PICK kind \in {"Set", "Restore"} :
        /\ Step(p, kind, "serv") /\ Advance(p, kind, "serv")
        /\ readers' = readers /\ writer' = writer
        /\ kind = "Set" => cleaning' = TRUE /\ nested' = IF cleaning THEN nested \cup {p} ELSE nested
        /\ kind = "Restore" => cleaning' = (p \in nested) /\ nested' = nested \ {p}
  BY DEF SetCleaning
<1>2. PICK held : Consistent(held)
  BY DEF IInv
<1>3. Types
  BY DEF IInv
<1> DEFINE new == [held EXCEPT ![p] = After(<<kind, "serv">>, held[p])]
<1>4. Allowed(Role(p), <<kind, "serv">>, held[p]) /\ held[p] \in SUBSET Marks
  BY <1>1, <1>2, StepAllowed
<1>5. p \in Cleaners
  <2>1. Role(p) = "cleaner"
    BY <1>1, <1>4 DEF Allowed
  <2> QED
    BY <2>1 DEF Role, Procs
<1>6. /\ todo' \in [Procs -> SUBSET Seq(Steps)]
      /\ new \in [Procs -> SUBSET Marks]
      /\ Plans(new)'
      /\ new[p] = After(<<kind, "serv">>, held[p])
      /\ \A k \in Procs \ {p} : new[k] = held[k] /\ todo'[k] = todo[k]
  BY <1>1, <1>2, <1>3, Advanced
<1>7. /\ new[p] = IF kind = "Set" THEN held[p] \cup {Cleans} ELSE held[p] \ {Cleans}
      /\ Written("serv") \in held[p]
  BY <1>1, <1>4, <1>6 DEF After, Allowed
<1> HIDE DEF new
<1>8. Types'
  <2>1. cleaning' \in BOOLEAN
    <3>1. (p \in nested) \in BOOLEAN /\ TRUE \in BOOLEAN
      OBVIOUS
    <3>2. cleaning' = TRUE \/ cleaning' = (p \in nested)
      BY <1>1
    <3> QED
      BY <3>1, <3>2
  <2> QED
    BY <1>1, <1>3, <1>6, <2>1 DEF Types
<1>9. \A k \in Procs, m \in Locks : /\ Read(m) \in new[k] <=> Read(m) \in held[k]
                                    /\ Claimed(m) \in new[k] <=> Claimed(m) \in held[k]
                                    /\ Written(m) \in new[k] <=> Written(m) \in held[k]
  BY <1>6, <1>7, MarksApart
<1>10. ReadersKnown(new)'
  BY <1>1, <1>2, <1>9 DEF ReadersKnown, Consistent
<1>11. WritersKnown(new)'
  BY <1>1, <1>2, <1>9 DEF WritersKnown, Consistent
<1>12. CleanerKnown(new)' /\ CleanersKept(new)'
  <2>1. CleanersKept(new)
    BY <1>2, <1>4, <1>6, CleanersStep
  <2>2. CASE kind = "Set"
    <3>1. cleaning' = TRUE /\ nested' = IF cleaning THEN nested \cup {p} ELSE nested
      BY <1>1, <2>2
    <3>2. \A k \in Procs : Cleans \in new[k] <=> k = p \/ Cleans \in held[k]
      BY <1>6, <1>7, <2>2
    <3> QED
      BY <1>2, <1>3, <1>5, <2>1, <3>1, <3>2 DEF CleanerKnown, CleanersKept, Consistent, Types
  <2>3. CASE kind = "Restore"
    <3>1. cleaning' = (p \in nested) /\ nested' = nested \ {p}
      BY <1>1, <2>3
    <3>2. \A k \in Procs : Cleans \in new[k] <=> k # p /\ Cleans \in held[k]
      BY <1>6, <1>7, <2>3
    <3>3. Cleans \in held[p]
      BY <1>4, <2>3 DEF Allowed
    <3> QED
      BY <1>2, <1>3, <1>5, <2>1, <3>1, <3>2, <3>3 DEF CleanerKnown, CleanersKept, Consistent, Types
  <2> QED
    BY <1>1, <2>2, <2>3
<1>13. ClientsKept(new)'
  <2> SUFFICES ASSUME NEW k \in Clients, new[k] # {}
               PROVE  /\ Read("serv") \in new[k]
                      /\ cleaning' = TRUE =>
                           new[k] = {Read("serv")} /\ todo'[k] = {<<<<"RUnlock", "serv">>>>}
    BY DEF ClientsKept
  <2>1. k \in Procs /\ k # p
    BY <1>5, LocksAssumption DEF Procs, LocksAssumption
  <2>2. held[k] # {} /\ new[k] = held[k]
    BY <1>6, <2>1
  <2>3. Read("serv") \in held[k] /\ "serv" \in Locks
    BY <1>2, <2>2, LocksApart DEF ClientsKept, Consistent
  <2>4. readers["serv"] = {}
    BY <1>2, <1>7, <2>3 DEF WritersKnown, Consistent
  <2> QED
    BY <1>2, <2>1, <2>3, <2>4 DEF ReadersKnown, Consistent
<1>14. Consistent(new)'
  BY <1>6, <1>10, <1>11, <1>12, <1>13 DEF Consistent
<1> QED
  BY <1>8, <1>14 DEF IInv

\* The invariant is inductive.
LEMMA Invariant == Spec => []IInv
<1>1. ASSUME IInv, [Next]_vars PROVE IInv'
  <2>1. CASE UNCHANGED vars
    BY <1>1, <2>1
       DEF vars, IInv, Types, Consistent, Plans, ReadersKnown, WritersKnown, CleanerKnown, CleanersKept, ClientsKept
  <2>2. ASSUME NEW p \in Procs, Call(p) PROVE IInv'
    BY <1>1, <2>2, CallStep
  <2>3. ASSUME NEW p \in Procs, SetCleaning(p) PROVE IInv'
    BY <1>1, <2>3, SetCleaningStep
  <2>4. ASSUME NEW p \in Procs, NEW l \in Locks,
               RLock(p, l) \/ RUnlock(p, l) \/ Lock(p, l) \/ Drain(p, l) \/ Unlock(p, l)
        PROVE  IInv'
    BY <1>1, <2>4, RLockStep, RUnlockStep, LockStep, DrainStep, UnlockStep
  <2> QED
    BY <1>1, <2>1, <2>2, <2>3, <2>4 DEF Next
<1> QED
  BY Initially, <1>1, PTL DEF Spec

-----------------------------------------------------------------------------
(* No circle. *)

\* p waits for one of D: at a lock that one has or claims, or for that one to stop
\* reading.  The second is further on than the first.
Waits(D, p, n) ==
    \E l \in Locks, r \in D :
        \/ /\ (Step(p, "RLock", l) \/ Step(p, "Lock", l))
           /\ writer[l] = r /\ n = 2 * Level(l)
        \/ Step(p, "Drain", l) /\ r \in readers[l] /\ n = 2 * Level(l) + 1

\* The one waited for waits further on.
LEMMA Climb ==
    ASSUME NEW held, Consistent(held), NEW D \in SUBSET Procs,
           \A k \in D : Cleans \notin held[k],
           \A k \in D : \E n \in 0..7 : Waits(D, k, n),
           NEW p \in D, NEW n \in 0..7, Waits(D, p, n)
    PROVE  \E r \in D, i \in 0..7 : i > n /\ Waits(D, r, i)
<1>1. PICK l \in Locks, r \in D :
        \/ /\ (Step(p, "RLock", l) \/ Step(p, "Lock", l))
           /\ writer[l] = r /\ n = 2 * Level(l)
        \/ Step(p, "Drain", l) /\ r \in readers[l] /\ n = 2 * Level(l) + 1
  BY DEF Waits
<1>2. PICK i \in 0..7 : Waits(D, r, i)
  OBVIOUS
<1>3. PICK m \in Locks, u \in D :
        \/ /\ (Step(r, "RLock", m) \/ Step(r, "Lock", m))
           /\ writer[m] = u /\ i = 2 * Level(m)
        \/ Step(r, "Drain", m) /\ u \in readers[m] /\ i = 2 * Level(m) + 1
  BY <1>2 DEF Waits
<1>4. r \in Procs /\ Cleans \notin held[r] /\ Level(l) \in 0..3 /\ Level(m) \in 0..3
  BY LocksApart
<1>5. \/ n = 2 * Level(l) /\ (Claimed(l) \in held[r] \/ Written(l) \in held[r])
      \/ n = 2 * Level(l) + 1 /\ Read(l) \in held[r]
  BY <1>1, <1>4 DEF Consistent, WritersKnown, ReadersKnown
<1>6. \/ Later(m, held[r]) /\ i = 2 * Level(m)
      \/ Later(m, held[r] \ {Claimed(m)}) /\ i = 2 * Level(m) + 1
  <2>1. \A kind : Step(r, kind, m) => Allowed(Role(r), <<kind, m>>, held[r])
    BY <1>4, StepAllowed
  <2>2. Step(r, "RLock", m) => Later(m, held[r])
    BY <2>1 DEF Allowed
  <2>3. Step(r, "Lock", m) => Later(m, held[r])
    BY <2>1 DEF Allowed
  <2>4. Step(r, "Drain", m) => Later(m, held[r] \ {Claimed(m)})
    BY <2>1 DEF Allowed
  <2> QED
    BY <1>3, <2>2, <2>3, <2>4
<1>7. \A h : Later(m, h) /\ h \subseteq held[r] =>
         (Claimed(l) \in h \/ Written(l) \in h \/ Read(l) \in h => Level(l) < Level(m))
  BY <1>4, MarksApart DEF Later, Claimed, Written, Read
<1>8. i > n
  <2>1. CASE Later(m, held[r]) /\ i = 2 * Level(m)
    <3>1. Level(l) < Level(m)
      BY <1>5, <1>7, <2>1
    <3> QED
      BY <1>4, <1>5, <2>1, <3>1
  <2>2. CASE Later(m, held[r] \ {Claimed(m)}) /\ i = 2 * Level(m) + 1
    <3> DEFINE h == held[r] \ {Claimed(m)}
    <3>1. \/ l = m /\ n = 2 * Level(l)
          \/ Claimed(l) \in h \/ Written(l) \in h
          \/ Read(l) \in h
      BY <1>5, MarksApart
    <3>2. (l = m /\ n = 2 * Level(l)) \/ Level(l) < Level(m)
      BY <1>7, <2>2, <3>1
    <3> QED
      BY <1>4, <1>5, <2>2, <3>2
  <2> QED
    BY <1>6, <2>1, <2>2
<1> QED
  BY <1>2, <1>8

\* Where the locks are taken in order nobody waits in a circle.
LEMMA NoCircle ==
    ASSUME NEW held, Consistent(held), NEW D \in SUBSET Procs, D # {},
           \A k \in D : Cleans \notin held[k],
           \A k \in D : WaitsFor(k) \cap D # {}
    PROVE  FALSE
<1>1. \A k \in D : \E n \in 0..7 : Waits(D, k, n)
  <2> SUFFICES ASSUME NEW k \in D PROVE \E n \in 0..7 : Waits(D, k, n)
    OBVIOUS
  <2>1. PICK r \in D : r \in WaitsFor(k)
    OBVIOUS
  <2>2. PICK l \in Locks :
          \/ (Step(k, "RLock", l) \/ Step(k, "Lock", l)) /\ writer[l] = r
          \/ Step(k, "Drain", l) /\ r \in readers[l]
    BY <2>1 DEF WaitsFor
  <2>3. Level(l) \in 0..3
    BY LocksApart
  <2>4. 2 * Level(l) \in 0..7 /\ 2 * Level(l) + 1 \in 0..7
    BY <2>3
  <2>5. Waits(D, k, 2 * Level(l)) \/ Waits(D, k, 2 * Level(l) + 1)
    BY <2>2 DEF Waits
  <2> QED
    BY <2>4, <2>5
<1>2. \A p \in D, n \in 0..7 :
        Waits(D, p, n) => \E r \in D, i \in 0..7 : i > n /\ Waits(D, r, i)
  BY <1>1, Climb
<1> DEFINE None(n) == \A k \in D : ~Waits(D, k, n)
<1>3. ASSUME NEW n \in 0..7, \A i \in 0..7 : i > n => None(i) PROVE None(n)
  BY <1>2, <1>3
<1> HIDE DEF None
<1>4. None(7)
  BY <1>3
<1>5. None(6)
  BY <1>3, <1>4
<1>6. None(5)
  BY <1>3, <1>4, <1>5
<1>7. None(4)
  BY <1>3, <1>4, <1>5, <1>6
<1>8. None(3) /\ None(2) /\ None(1) /\ None(0)
  <2>1. None(3)
    BY <1>3, <1>4, <1>5, <1>6, <1>7
  <2>2. None(2)
    BY <1>3, <1>4, <1>5, <1>6, <1>7, <2>1
  <2>3. None(1)
    BY <1>3, <1>4, <1>5, <1>6, <1>7, <2>1, <2>2
  <2>4. None(0)
    BY <1>3, <1>4, <1>5, <1>6, <1>7, <2>1, <2>2, <2>3
  <2> QED
    BY <2>1, <2>2, <2>3, <2>4
<1>9. \A n \in 0..7 : None(n)
  BY <1>4, <1>5, <1>6, <1>7, <1>8
<1> QED
  BY <1>1, <1>9 DEF None

\* A request that the clean-up of the service has turned away waits for nobody.
LEMMA TurnedAwayWaitsNot ==
    ASSUME NEW held, Consistent(held), cleaning = TRUE, NEW p \in Clients, held[p] # {}
    PROVE  WaitsFor(p) = {}
<1>1. todo[p] = {<<<<"RUnlock", "serv">>>>}
  BY DEF Consistent, ClientsKept
<1>2. \A s \in todo[p] : Head(s) = <<"RUnlock", "serv">>
  BY <1>1
<1>3. \A l : ~Step(p, "RLock", l) /\ ~Step(p, "Lock", l) /\ ~Step(p, "Drain", l)
  <2> SUFFICES ASSUME NEW l, NEW kind \in {"RLock", "Lock", "Drain"}, Step(p, kind, l)
               PROVE  FALSE
    OBVIOUS
  <2>1. PICK s \in todo[p] : Head(s) = <<kind, l>>
    BY DEF Step, Starting
  <2> QED
    BY <1>2, <2>1
<1> QED
  BY <1>3 DEF WaitsFor

\* A goroutine that waits for one holds up some lock that one has.
LEMMA WaitedHolds ==
    ASSUME NEW held, Consistent(held), NEW p \in Procs, NEW r \in WaitsFor(p)
    PROVE  held[r] # {} /\ r # p
<1>1. PICK l \in Locks :
        \/ (Step(p, "RLock", l) \/ Step(p, "Lock", l)) /\ writer[l] = r
        \/ Step(p, "Drain", l) /\ r \in readers[l]
  BY DEF WaitsFor
<1>2. r \in Procs
  BY DEF WaitsFor
<1>3. \A kind : Step(p, kind, l) => Allowed(Role(p), <<kind, l>>, held[p])
  BY StepAllowed
<1>4. \/ Later(l, held[p]) /\ (Claimed(l) \in held[r] \/ Written(l) \in held[r])
      \/ Later(l, held[p] \ {Claimed(l)}) /\ Read(l) \in held[r]
  <2>1. Step(p, "RLock", l) \/ Step(p, "Lock", l) => Later(l, held[p])
    <3>1. Step(p, "RLock", l) => Later(l, held[p])
      BY <1>3 DEF Allowed
    <3>2. Step(p, "Lock", l) => Later(l, held[p])
      BY <1>3 DEF Allowed
    <3> QED
      BY <3>1, <3>2
  <2>2. Step(p, "Drain", l) => Later(l, held[p] \ {Claimed(l)})
    BY <1>3 DEF Allowed
  <2>3. writer[l] = r => Claimed(l) \in held[r] \/ Written(l) \in held[r]
    BY <1>2 DEF Consistent, WritersKnown
  <2>4. r \in readers[l] => Read(l) \in held[r]
    BY <1>2 DEF Consistent, ReadersKnown
  <2> QED
    BY <1>1, <2>1, <2>2, <2>3, <2>4
<1>5. \A h : Later(l, h) => Claimed(l) \notin h /\ Written(l) \notin h /\ Read(l) \notin h
  BY MarksApart DEF Later, Claimed, Written, Read
<1> QED
  BY <1>4, <1>5, MarksApart

\* A clean-up that waits to begin, or to put the status back, waits for requests.
LEMMA ClaimantWaits ==
    ASSUME NEW held, Consistent(held), NEW r \in Cleaners, Cleans \notin held[r], NEW k \in Cleaners,
           Claimed("serv") \in held[r] \/ Written("serv") \in held[r], k \in WaitsFor(r)
    PROVE  FALSE
<1>1. r \in Procs /\ k \in Procs /\ Role(r) = "cleaner"
  BY LocksAssumption DEF LocksAssumption, Procs, Role
<1>2. PICK l \in Locks :
        \/ (Step(r, "RLock", l) \/ Step(r, "Lock", l)) /\ writer[l] = k
        \/ Step(r, "Drain", l) /\ k \in readers[l]
  BY DEF WaitsFor
<1>3. \A kind : Step(r, kind, l) => Allowed("cleaner", <<kind, l>>, held[r])
  BY <1>1, StepAllowed
<1>4. ~Step(r, "RLock", l)
  BY <1>3 DEF Allowed
<1>5. ~Step(r, "Lock", l)
  <2> SUFFICES ASSUME Step(r, "Lock", l) PROVE FALSE
    OBVIOUS
  <2>1. l = "serv" /\ Later(l, held[r])
    BY <1>3 DEF Allowed
  <2> QED
    BY <2>1, MarksApart DEF Later, Claimed, Written
<1>6. Step(r, "Drain", l) => l = "serv"
  <2> SUFFICES ASSUME Step(r, "Drain", l) PROVE l = "serv"
    OBVIOUS
  <2>1. Claimed(l) \in held[r]
    BY <1>3 DEF Allowed
  <2> QED
    BY <2>1, MarksApart DEF Consistent, CleanersKept
<1>7. Read("serv") \in held[k]
  BY <1>1, <1>2, <1>4, <1>5, <1>6 DEF Consistent, ReadersKnown
<1> QED
  BY <1>7 DEF Consistent, CleanersKept

\* With any number of requests, operators, clean-ups and queues, and whatever the
\* operations find: goroutines wait for each other in a circle only if a clean-up is
\* among them, and an operator or a nested clean-up.  A request and a clean-up that is
\* not nested never tangle, although a clean-up takes a map before a bucket and a
\* request a bucket before a map.
THEOREM TangledCorrect == Spec => []TangledOnlyByCleaning
<1>1. ASSUME IInv PROVE TangledOnlyByCleaning
  <2>1. PICK held : Consistent(held)
    BY <1>1 DEF IInv
  <2> SUFFICES ASSUME NEW D \in Tangles,
                      D \cap Cleaners = {} \/ (D \cap Operators = {} /\ D \cap nested = {})
               PROVE  FALSE
    BY DEF TangledOnlyByCleaning
  <2>2. D \in SUBSET Procs /\ D # {} /\ \A k \in D : WaitsFor(k) \cap D # {}
    <3> DEFINE waits == [p \in Procs |-> WaitsFor(p)]
               waiting == {p \in Procs : waits[p] # {}}
    <3>1. D \in (SUBSET waiting) \ {{}} /\ \A k \in D : waits[k] \cap D # {}
      BY Zenon DEF Tangles
    <3>2. \A k \in Procs : waits[k] = WaitsFor(k)
      OBVIOUS
    <3>3. waiting \subseteq Procs
      OBVIOUS
    <3> HIDE DEF waits, waiting
    <3>4. D \in SUBSET Procs /\ D # {} /\ \A k \in D : waits[k] \cap D # {}
      BY <3>1, <3>3
    <3> QED
      BY <3>2, <3>4
  <2>3. CASE \A k \in D : Cleans \notin held[k]
    BY <2>1, <2>2, <2>3, NoCircle
  <2>4. CASE \E k \in D : Cleans \in held[k]
    <3>1. PICK k \in D : Cleans \in held[k]
      BY <2>4
    <3>2. k \in Procs /\ k \in Cleaners
      BY <2>1, <2>2, <3>1 DEF Consistent, CleanerKnown
    <3>3. D \cap Operators = {} /\ D \cap nested = {}
      BY <3>1, <3>2
    <3>4. cleaning = TRUE /\ \A r \in D \ {k} : Cleans \notin held[r]
      BY <2>1, <2>2, <3>1, <3>2, <3>3 DEF Consistent, CleanerKnown
    <3>5. ASSUME NEW u \in D, NEW r \in D, r \in WaitsFor(u), r # k
          PROVE  /\ r \in Cleaners /\ r # u
                 /\ Claimed("serv") \in held[r] \/ Written("serv") \in held[r]
      <4>1. held[r] # {} /\ r # u /\ r \in Procs
        BY <2>1, <2>2, <3>5, WaitedHolds
      <4>2. r \notin Clients
        BY <2>1, <2>2, <3>4, <4>1, TurnedAwayWaitsNot
      <4>3. r \in Cleaners
        BY <3>3, <3>5, <4>1, <4>2 DEF Procs
      <4> QED
        BY <2>1, <3>4, <3>5, <4>1, <4>3 DEF Consistent, CleanersKept
    <3>6. PICK r \in D : r \in WaitsFor(k)
      BY <2>2
    <3>7. /\ r \in Cleaners /\ r # k /\ r \in Procs
          /\ Claimed("serv") \in held[r] \/ Written("serv") \in held[r]
      BY <2>1, <2>2, <3>2, <3>5, <3>6, WaitedHolds
    <3>8. PICK u \in D : u \in WaitsFor(r)
      BY <2>2
    <3>9. u = k
      <4> SUFFICES ASSUME u # k PROVE FALSE
        OBVIOUS
      <4>1. /\ u # r /\ u \in Procs
            /\ Claimed("serv") \in held[u] \/ Written("serv") \in held[u]
        BY <2>2, <3>5, <3>8
      <4>2. "serv" \in Locks /\ WritersKnown(held)
        BY <2>1, LocksApart DEF Consistent
      <4>3. writer["serv"] = r /\ writer["serv"] = u
        BY <3>7, <4>1, <4>2 DEF WritersKnown
      <4> QED
        BY <4>1, <4>3
    <3> QED
      BY <2>1, <3>2, <3>4, <3>6, <3>7, <3>8, <3>9, ClaimantWaits
  <2> QED
    BY <2>3, <2>4
<1> QED
  BY Invariant, <1>1, PTL
=============================================================================
