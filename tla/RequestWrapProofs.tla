-------------------------- MODULE RequestWrapProofs --------------------------
(***************************************************************************)
(* Proofs about RequestWrap, for any clients, rules, netlocs and keys:     *)
(* what a request brings never gets into a rule, a wrapped request is the  *)
(* merge of what it came with and its two rules, and an answered change of *)
(* the rules applies.                                                      *)
(***************************************************************************)
EXTENDS RequestWrap, TLAPS

-----------------------------------------------------------------------------
(* The inductive invariant. *)

Ops == [kind : {"none", "save", "apply", "erase", "drop"}, netloc : Netlocs,
        rule : Rules \cup {Nothing}]

Types ==
    /\ hash \in [Netlocs -> Rules \cup {Nothing}]
    /\ matcher \in [Netlocs -> Rules \cup {Nothing}]
    /\ given \in [Rules -> SUBSET Fields]
    /\ maps \in [Owners -> [MetaKeys -> Owners \cup {Nothing}]]
    /\ pc \in [Clients -> {"idle", "merge", "root", "answer"}]
    /\ own \in [Clients -> SUBSET (Fields \cup {Enqtime})]
    /\ meta \in [Clients -> Owners]
    /\ nl \in [Clients -> Rules \cup {Nothing}]
    /\ root \in [Clients -> Rules \cup {Nothing}]
    /\ method \in [Clients -> Owners \cup {Nothing}]
    /\ body \in [Clients -> Owners \cup {Nothing}]
    /\ op \in Ops
    /\ phase \in {"load", "up"}
    /\ unread \subseteq Netlocs \cup Strays
    /\ nlc \in Netlocs \cup {Nothing}
    /\ faults \in 0..MaxFaults
    /\ added \subseteq Rules /\ roots \subseteq Rules
    /\ acked \in [Netlocs -> Rules \cup {Nothing}]
    /\ answer \in [Netlocs -> Answers]
    /\ phase = "load" => op = NoOp /\ \A c \in Clients : pc[c] = "idle"
    /\ phase = "up" => unread = {} /\ nlc = Nothing

\* The rules of the hash, of the matcher and of the call in progress.  No rule is
\* entered for two netlocs, as each Add brings its own; a netloc whose last call
\* was answered with a rule has that rule in Redis.
Rulebook ==
    /\ NotAdded \subseteq added
    /\ \A n \in Netlocs : {hash[n], matcher[n]} \subseteq added \cup {Nothing}
    /\ \A n \in Netlocs : hash[n] \notin Strays \cup {Default}
    /\ \A m, n \in Netlocs : hash[m] = hash[n] /\ hash[m] # Nothing => m = n
    /\ \A n \in Settled : hash[n] = acked[n]
    /\ op.kind = "none" => op = NoOp
    /\ op.kind # "none" => op.netloc \notin Settled
    /\ op.kind \in {"save", "apply"} =>
         /\ op.rule \in added \ NotAdded
         /\ op.rule \notin roots /\ \A n \in Netlocs : matcher[n] # op.rule
         /\ \A n \in Netlocs \ {op.netloc} : hash[n] # op.rule
    /\ op.kind \in {"erase", "drop"} => op.rule = Nothing
    /\ op.kind \in {"apply", "drop"} => hash[op.netloc] = op.rule

\* What Load has entered so far, and what the matcher has when it is done.
Matched ==
    /\ phase = "load" =>
         /\ \A n \in Netlocs : \/ matcher[n] \in {hash[n]} \cup Strays
                               \/ n \in unread /\ matcher[n] = Nothing
         /\ \A n \in unread \cap Netlocs : hash[n] # Nothing
         /\ \A r \in unread \cap Strays : r \notin roots /\ \A n \in Netlocs : matcher[n] # r
         /\ roots \subseteq {hash[Root]} \cup Strays
    /\ phase = "up" =>
         \A n \in Settled :
            \/ matcher[n] = acked[n]
            \/ matcher[n] \in Strays
            \/ n = Root /\ acked[n] = Nothing /\ matcher[n] = Default

\* A root's rule is never that of another netloc, so nothing is poured into it.
Rooted ==
    /\ roots \subseteq added
    /\ matcher[Root] \in roots \cup {Nothing}
    /\ \A n \in Netlocs \ {Root} : matcher[n] \notin roots
    /\ \A c \in Clients : nl[c] \notin roots /\ root[c] \in roots \cup {Nothing}
    /\ \A c \in Clients : {nl[c], root[c]} \subseteq added \cup {Nothing}
    /\ op.kind \in {"save", "apply"} => \A c \in Clients : nl[c] # op.rule

\* The map of a rule that was entered: its own values, and what roots poured in.
Right(r) ==
    /\ \A k \in Keys : maps[r][k] \in roots \cup (IF k \in given[r] THEN {r} ELSE {Nothing})
    /\ maps[r][Replace] \in roots \cup {r, Nothing}
    /\ maps[r][Enqtime] = Nothing /\ maps[r][Deqtime] = Nothing
Blank(r) == \A k \in MetaKeys : maps[r][k] = Nothing
Exact(r) == \A k \in MetaKeys : maps[r][k] = IF k \in given[r] THEN r ELSE Nothing

RuleMaps ==
    /\ \A r \in Rules : Right(r) \/ Blank(r)
    /\ \A r \in Rules \ added : Blank(r)
    /\ \A n \in Netlocs : matcher[n] # Nothing => Right(matcher[n])
    /\ \A c \in Clients : nl[c] # Nothing => Right(nl[c])
    /\ \A c \in Clients : meta[c] # c => Right(meta[c])
    /\ \A r \in roots : Exact(r)

\* Method or body after the netloc's rule was merged.
Filled(c, f) == IF f \in own[c]           THEN c
                ELSE IF f \in Gave(nl[c]) THEN nl[c]
                ELSE Nothing

Texts(c) ==
    /\ pc[c] = "idle" => method[c] = Nothing /\ body[c] = Nothing
    /\ pc[c] = "merge" => /\ method[c] = IF Method \in own[c] THEN c ELSE Nothing
                          /\ body[c] = IF Body \in own[c] THEN c ELSE Nothing
    /\ pc[c] = "root" => method[c] = Filled(c, Method) /\ body[c] = Filled(c, Body)
    /\ pc[c] = "answer" => TextsRight(c)

\* A request that keeps a map of its own.
Carries(c) == own[c] \cap (Keys \cup {Enqtime}) # {}

\* The value of a key in such a map when the root's rule is still to come.
KeyFilled(c, k) ==
    IF k \in own[c]            THEN maps[c][k] = c
    ELSE IF Replace \in own[c] THEN maps[c][k] = Nothing
    ELSE \/ maps[c][k] \in roots
         \/ maps[c][k] = IF k \in Gave(nl[c]) THEN nl[c] ELSE Nothing

\* Whose map a request has, and what is in it, at each step of Wrap.
Metas(c) ==
    /\ pc[c] = "idle" => meta[c] = c /\ nl[c] = Nothing /\ root[c] = Nothing
    /\ pc[c] = "merge" => /\ meta[c] = c /\ nl[c] # Nothing
                          /\ \A k \in MetaKeys : maps[c][k] = IF k \in own[c] THEN c ELSE Nothing
    /\ pc[c] = "root" => meta[c] \in {c, nl[c]}
    /\ meta[c] # c => meta[c] \in added /\ ~Carries(c)
    /\ pc[c] # "idle" /\ Enqtime \in own[c] => maps[c][Enqtime] # Nothing
    /\ pc[c] = "root" /\ Carries(c) => \A k \in Keys : KeyFilled(c, k)
    /\ pc[c] = "answer" /\ Carries(c) =>
         \A k \in Keys : IF k \in Gave(root[c]) THEN maps[c][k] = root[c] ELSE KeyFilled(c, k)

IInv ==
    /\ Types /\ Rulebook /\ Matched /\ Rooted /\ RuleMaps
    /\ \A c \in Clients : Texts(c) /\ Metas(c)

-----------------------------------------------------------------------------
(* The operators. *)

\* The reserved keys differ from each other and from the ordinary ones.
LEMMA KeysApart ==
    /\ Replace \in MetaKeys /\ Enqtime \in MetaKeys /\ Deqtime \in MetaKeys
    /\ Keys \subseteq MetaKeys /\ Keys \subseteq Fields
    /\ Replace \in Fields /\ Method \in Fields /\ Body \in Fields
    /\ Enqtime \notin Fields /\ Deqtime \notin Fields /\ Replace # Enqtime
    /\ Deqtime # Enqtime /\ Deqtime # Replace /\ Method # Body
    /\ Method # Enqtime /\ Body # Enqtime
    /\ Method \notin Keys /\ Body \notin Keys
    /\ Replace \notin Keys /\ Enqtime \notin Keys /\ Deqtime \notin Keys
BY WrapAssumption DEF WrapAssumption, MetaKeys, Fields, Replace, Enqtime, Deqtime, Method, Body

\* Whoever brings a field is its value, so a rule's new map is exact.
LEMMA BroughtRight ==
    ASSUME NEW who, NEW fields
    PROVE  /\ \A k \in MetaKeys : Brought(who, fields)[k] = IF k \in fields THEN who ELSE Nothing
           /\ who \in Owners => Brought(who, fields) \in [MetaKeys -> Owners \cup {Nothing}]
BY DEF Brought

\* An exact map is a right one: a rule brings no times.
LEMMA ExactRight ==
    ASSUME Types, NEW r \in Rules, Exact(r)
    PROVE  Right(r)
<1>1. given[r] \subseteq Fields
  BY DEF Types
<1> QED
  BY <1>1, KeysApart DEF Exact, Right

\* What Enter does: the rule's map is exact, and the others are kept.
LEMMA EnterWrites ==
    ASSUME Types, NEW n \in Netlocs, NEW r \in Rules, Enter(n, r), given' = given
    PROVE  /\ matcher' \in [Netlocs -> Rules \cup {Nothing}]
           /\ matcher'[n] = r /\ \A m \in Netlocs \ {n} : matcher'[m] = matcher[m]
           /\ maps' \in [Owners -> [MetaKeys -> Owners \cup {Nothing}]]
           /\ Exact(r)' /\ \A o \in Owners \ {r} : maps'[o] = maps[o]
           /\ roots' \subseteq Rules /\ roots \subseteq roots' /\ roots' \subseteq roots \cup {r}
           /\ n # Root => roots' = roots
           /\ n = Root => r \in roots'
<1>1. r \in Owners
  BY DEF Owners
<1>2. maps'[r] = Brought(r, given[r])
  BY <1>1 DEF Enter, Types
<1>3. Exact(r)'
  BY <1>2, BroughtRight DEF Exact
<1>4. maps' \in [Owners -> [MetaKeys -> Owners \cup {Nothing}]]
  BY <1>1, BroughtRight DEF Enter, Types
<1> QED
  BY <1>3, <1>4 DEF Enter, Types

\* A map that is not written stays what it was while roots are added.
LEMMA MapStays ==
    ASSUME NEW r \in Rules, maps'[r] = maps[r], given'[r] = given[r], roots \subseteq roots'
    PROVE  /\ Right(r) => Right(r)'
           /\ Blank(r) => Blank(r)'
           /\ Exact(r) => Exact(r)'
BY DEF Right, Blank, Exact

\* What is said of a request that a step does not touch stays true.
LEMMA ClientStays ==
    ASSUME IInv, NEW c \in Clients,
           pc'[c] = pc[c], own'[c] = own[c], meta'[c] = meta[c], nl'[c] = nl[c],
           root'[c] = root[c], method'[c] = method[c], body'[c] = body[c],
           maps'[c] = maps[c], roots \subseteq roots', added \subseteq added',
           \A r \in added : given'[r] = given[r]
    PROVE  Texts(c)' /\ Metas(c)'
<1>1. nl[c] \in added \cup {Nothing} /\ root[c] \in added \cup {Nothing}
  BY DEF IInv, Rooted
<1>2. Gave(nl[c])' = Gave(nl[c]) /\ Gave(root[c])' = Gave(root[c])
  BY <1>1 DEF Gave
<1>3. Texts(c) /\ Metas(c)
  BY DEF IInv
<1>4. Texts(c)'
  BY <1>2, <1>3 DEF Texts, Filled, TextsRight
<1>5. Carries(c)' = Carries(c)
  BY DEF Carries
<1>6. ASSUME NEW k \in Keys, KeyFilled(c, k)
      PROVE  KeyFilled(c, k)'
  BY <1>2, <1>6 DEF KeyFilled
<1>7. Metas(c)'
  BY <1>2, <1>3, <1>5, <1>6 DEF Metas
<1> QED
  BY <1>4, <1>7

-----------------------------------------------------------------------------
(* The start, and loading the rules. *)

\* The invariant holds when the process is started first.
LEMMA InitInvariant == Init => IInv
<1> SUFFICES ASSUME Init PROVE IInv
  OBVIOUS
<1> USE WrapAssumption
<1>1. PICK n \in Netlocs, r \in {Old, Nothing} :
        hash = [m \in Netlocs |-> IF m = n THEN r ELSE Nothing]
  BY DEF Init
<1>2. Types
  BY <1>1 DEF Answers, Init, Types, WrapAssumption, Ops, NoOp, ToAll, Empty, Owners, Stored, NotAdded
<1>3. Rulebook
  BY <1>1 DEF Init, Rulebook, WrapAssumption, NoOp, NotAdded
<1>4. Matched
  BY <1>1 DEF Init, Matched, WrapAssumption, Stored
<1>5. Rooted
  BY <1>1 DEF Init, Rooted, WrapAssumption, ToAll, NoOp
<1>6. \A q \in Rules : Blank(q)
  BY DEF Init, Blank, Empty, Owners
<1>7. RuleMaps
  BY <1>6 DEF Init, RuleMaps, ToAll
<1>8. ASSUME NEW c \in Clients PROVE Texts(c) /\ Metas(c)
  BY DEF Init, Texts, Metas, ToAll, Carries
<1> QED
  BY <1>2, <1>3, <1>4, <1>5, <1>7, <1>8 DEF IInv

\* A rule that is entered keeps the rules' maps right, whatever the requests are.
LEMMA EnterMaps ==
    ASSUME IInv, NEW n \in Netlocs, NEW r \in added, Enter(n, r),
           UNCHANGED <<given, added, nl, meta>>
    PROVE  RuleMaps'
<1>1. r \in Rules /\ Types /\ RuleMaps
  BY DEF IInv, Types
<1>2. /\ Exact(r)' /\ roots \subseteq roots' /\ roots' \subseteq roots \cup {r}
      /\ \A q \in Rules \ {r} : maps'[q] = maps[q]
      /\ matcher'[n] = r /\ \A m \in Netlocs \ {n} : matcher'[m] = matcher[m]
  BY <1>1, EnterWrites DEF Owners
<1>3. Right(r)'
  <2>1. given'[r] \subseteq Fields
    BY <1>1 DEF Types
  <2> QED
    BY <2>1, <1>1, <1>2, KeysApart DEF Exact, Right
<1>4. ASSUME NEW q \in Rules, q # r
      PROVE  (Right(q) => Right(q)') /\ (Blank(q) => Blank(q)') /\ (Exact(q) => Exact(q)')
  BY <1>2, <1>4, MapStays
<1>5. \A q \in Rules : (Right(q) => Right(q)') /\ (Right(q) \/ Blank(q) => Right(q)' \/ Blank(q)')
  BY <1>3, <1>4
<1>6. (\A m \in Netlocs : matcher[m] # Nothing => Right(matcher[m]))'
  <2>1. ASSUME NEW m \in Netlocs, matcher'[m] # Nothing, m # n
        PROVE  matcher'[m] \in Rules /\ Right(matcher[m])
    BY <1>1, <1>2, <2>1 DEF RuleMaps, Types
  <2> QED
    BY <1>2, <1>3, <1>5, <2>1 DEF Right
<1>7. \A q \in roots' : Exact(q)'
  BY <1>1, <1>2, <1>4 DEF RuleMaps, Types
<1>8. \A q \in Rules \ added : Blank(q)'
  BY <1>1, <1>4 DEF RuleMaps
<1>9. (\A c \in Clients : /\ nl[c] # Nothing => Right(nl[c])
                          /\ meta[c] # c => Right(meta[c]))'
  <2>1. ASSUME NEW c \in Clients PROVE meta[c] # c => meta[c] \in Rules
    BY DEF IInv, Metas, Types
  <2> QED
    BY <2>1, <1>1, <1>5 DEF RuleMaps, Types, Right
<1>10. \A q \in Rules : Right(q)' \/ Blank(q)'
  BY <1>1, <1>5 DEF RuleMaps
<1> QED
  BY <1>6, <1>7, <1>8, <1>9, <1>10 DEF RuleMaps

\* LoadPair, LoadStray and LoadEnd have this in common: nothing is wrapped yet.
LEMMA LoadKeeps ==
    ASSUME IInv, phase = "load",
           UNCHANGED <<hash, given, request, op, faults, added, acked, answer>>,
           roots \subseteq roots', \A c \in Clients : maps'[c] = maps[c]
    PROVE  \A c \in Clients : Texts(c)' /\ Metas(c)'
<1> SUFFICES ASSUME NEW c \in Clients PROVE Texts(c)' /\ Metas(c)'
  OBVIOUS
<1> QED
  BY ClientStays DEF request

\* The invariant is kept when the rule of a netloc is loaded.
LEMMA LoadPairKeeps ==
    ASSUME IInv, NEW n \in Netlocs, LoadPair(n)
    PROVE  IInv'
<1> USE WrapAssumption
<1>1. /\ Types /\ Rulebook /\ Matched /\ Rooted
      /\ op = NoOp /\ \A c \in Clients : pc[c] = "idle" /\ nl[c] = Nothing /\ root[c] = Nothing
  BY DEF IInv, Types, LoadPair, Metas
<1>2. /\ hash[n] \in added /\ hash[n] \in Rules /\ hash[n] \notin Strays /\ n \notin Rules
  BY <1>1 DEF Types, Rulebook, Matched, LoadPair, WrapAssumption
<1>3. /\ matcher' \in [Netlocs -> Rules \cup {Nothing}]
      /\ matcher'[n] = hash[n] /\ \A m \in Netlocs \ {n} : matcher'[m] = matcher[m]
      /\ maps' \in [Owners -> [MetaKeys -> Owners \cup {Nothing}]]
      /\ \A o \in Owners \ {hash[n]} : maps'[o] = maps[o]
      /\ roots' \subseteq Rules /\ roots \subseteq roots' /\ roots' \subseteq roots \cup {hash[n]}
      /\ n # Root => roots' = roots
      /\ n = Root => hash[n] \in roots'
  BY <1>1, <1>2, EnterWrites DEF LoadPair
<1>4. Types'
  BY <1>1, <1>3 DEF Types, LoadPair, request, NoOp
<1>5. Rulebook'
  BY <1>1, <1>2, <1>3 DEF Settled, Rulebook, LoadPair, NoOp
<1>6. Matched'
  BY <1>1, <1>2, <1>3 DEF Matched, LoadPair, Types, Rulebook, WrapAssumption
<1>7. Rooted'
  <2>1. /\ \A m \in Netlocs : matcher[m] \in {hash[m], Nothing} \cup Strays
        /\ roots \subseteq {hash[Root]} \cup Strays
    BY <1>1 DEF Matched, LoadPair
  <2>2. \A m \in Netlocs : hash[m] = hash[n] => m = n
    BY <1>1, <1>2 DEF Rulebook, WrapAssumption
  <2>3. UNCHANGED <<nl, root, op, added>>
    BY DEF LoadPair, request
  <2> QED
    BY <1>1, <1>2, <1>3, <2>1, <2>2, <2>3 DEF Rooted, Types, WrapAssumption, NoOp
<1>8. RuleMaps'
  BY <1>2, EnterMaps DEF LoadPair, request
<1>9. \A c \in Clients : Texts(c)' /\ Metas(c)'
  BY <1>3, <1>2, LoadKeeps DEF LoadPair, Owners, WrapAssumption
<1> QED
  BY <1>4, <1>5, <1>6, <1>7, <1>8, <1>9 DEF IInv

\* The invariant is kept when a rule under a key that is no netloc is loaded.
LEMMA LoadStrayKeeps ==
    ASSUME IInv, NEW r \in Strays, LoadStray(r)
    PROVE  IInv'
<1> USE WrapAssumption
<1>1. /\ Types /\ Rulebook /\ Matched /\ Rooted /\ RuleMaps
      /\ op = NoOp /\ \A c \in Clients : pc[c] = "idle" /\ nl[c] = Nothing /\ root[c] = Nothing
  BY DEF IInv, Types, LoadStray, Metas
<1>2. r \in added /\ r \in Rules /\ r \notin Netlocs
  BY <1>1 DEF Rulebook, NotAdded, WrapAssumption
<1>3. CASE nlc = Nothing
  <2>1. Types'
    BY <1>1, <1>3 DEF Types, LoadStray, request, NoOp
  <2>2. Rulebook' /\ Matched' /\ Rooted'
    BY <1>1, <1>2, <1>3 DEF Settled, Rulebook, Matched, Rooted, LoadStray, request, NoOp
  <2>3. \A q \in Rules : (Right(q)' <=> Right(q)) /\ (Blank(q)' <=> Blank(q))
                         /\ (Exact(q)' <=> Exact(q))
    BY <1>3 DEF LoadStray, Right, Blank, Exact
  <2>4. \A c \in Clients : meta[c] # c => meta[c] \in Rules
    BY DEF IInv, Metas, Types
  <2>5. RuleMaps'
    BY <1>1, <1>3, <2>3, <2>4 DEF RuleMaps, LoadStray, request, Types
  <2>6. \A c \in Clients : Texts(c)' /\ Metas(c)'
    BY <1>3, LoadKeeps DEF LoadStray
  <2> QED
    BY <2>1, <2>2, <2>5, <2>6 DEF IInv
<1>4. CASE nlc # Nothing
  <2>1. nlc \in Netlocs /\ Enter(nlc, r)
    BY <1>1, <1>4 DEF LoadStray, Types
  <2>2. /\ matcher' \in [Netlocs -> Rules \cup {Nothing}]
        /\ matcher'[nlc] = r /\ \A m \in Netlocs \ {nlc} : matcher'[m] = matcher[m]
        /\ maps' \in [Owners -> [MetaKeys -> Owners \cup {Nothing}]]
        /\ \A o \in Owners \ {r} : maps'[o] = maps[o]
        /\ roots' \subseteq Rules /\ roots \subseteq roots' /\ roots' \subseteq roots \cup {r}
        /\ nlc # Root => roots' = roots
        /\ nlc = Root => r \in roots'
    BY <1>1, <1>2, <2>1, EnterWrites DEF LoadStray
  <2>3. Types'
    BY <1>1, <2>2 DEF Types, LoadStray, request, NoOp
  <2>4. Rulebook'
    BY <1>1, <1>2, <2>1, <2>2 DEF Settled, Rulebook, LoadStray, NoOp
  <2>5. Matched'
    <3>1. /\ phase = "load" /\ phase' = "load" /\ hash' = hash /\ unread' = unread \ {r}
          /\ \A n \in Netlocs : \/ matcher[n] \in {hash[n]} \cup Strays
                                \/ n \in unread /\ matcher[n] = Nothing
          /\ \A n \in unread \cap Netlocs : hash[n] # Nothing
          /\ \A q \in unread \cap Strays : q \notin roots /\ \A n \in Netlocs : matcher[n] # q
          /\ roots \subseteq {hash[Root]} \cup Strays
      BY <1>1 DEF Matched, LoadStray
    <3> QED
      BY <1>2, <2>1, <2>2, <3>1 DEF Matched
  <2>6. Rooted'
    <3>1. r \notin roots /\ \A m \in Netlocs : matcher[m] # r
      BY <1>1, <1>2 DEF Matched, LoadStray
    <3>2. Nothing \notin roots'
      BY <2>2 DEF WrapAssumption
    <3>3. UNCHANGED <<nl, root, op, added>>
      BY DEF LoadStray, request
    <3> QED
      BY <1>1, <1>2, <2>1, <2>2, <3>1, <3>2, <3>3 DEF Rooted, NoOp
  <2>7. RuleMaps'
    BY <1>2, <2>1, EnterMaps DEF LoadStray, request
  <2>8. \A c \in Clients : Texts(c)' /\ Metas(c)'
    BY <2>2, <1>2, LoadKeeps DEF LoadStray, Owners, WrapAssumption
  <2> QED
    BY <2>3, <2>4, <2>5, <2>6, <2>7, <2>8 DEF IInv
<1> QED
  BY <1>3, <1>4

\* The rules' maps stay right in a step that writes none of them.
LEMMA MapsKept ==
    ASSUME IInv, \A r \in Rules : maps'[r] = maps[r],
           roots' = roots, added \subseteq added', \A r \in added : given'[r] = given[r],
           \A n \in Netlocs : matcher'[n] \in {matcher[n], Nothing},
           UNCHANGED <<nl, meta>>
    PROVE  RuleMaps'
<1>1. Types /\ Rulebook /\ Rooted /\ RuleMaps
  BY DEF IInv
<1>2. ASSUME NEW q \in added
      PROVE  (Right(q) => Right(q)') /\ (Blank(q) => Blank(q)') /\ (Exact(q) => Exact(q)')
  BY <1>1, MapStays DEF Types
<1>3. \A q \in Rules : Blank(q) => Blank(q)'
  BY DEF Blank
<1>4. (\A n \in Netlocs : matcher[n] # Nothing => Right(matcher[n]))'
  <2>1. ASSUME NEW n \in Netlocs, matcher'[n] # Nothing
        PROVE  matcher'[n] \in added /\ Right(matcher'[n])
    BY <1>1, <2>1 DEF RuleMaps, Rulebook
  <2> QED
    BY <1>2, <2>1 DEF Right
<1>5. (\A c \in Clients : /\ nl[c] # Nothing => Right(nl[c])
                          /\ meta[c] # c => Right(meta[c]))'
  <2>1. ASSUME NEW c \in Clients
        PROVE  /\ nl[c] # Nothing => nl[c] \in added /\ Right(nl[c])
               /\ meta[c] # c => meta[c] \in added /\ Right(meta[c])
    BY <1>1 DEF IInv, Metas, Rooted, RuleMaps
  <2> QED
    BY <1>2, <2>1 DEF Right
<1>6. \A q \in roots' : Exact(q)'
  BY <1>1, <1>2 DEF RuleMaps, Rooted
<1>7. \A q \in Rules : Right(q)' \/ Blank(q)'
  BY <1>1, <1>2, <1>3 DEF RuleMaps
<1>8. \A q \in Rules \ added' : Blank(q)'
  BY <1>1, <1>3 DEF RuleMaps
<1> QED
  BY <1>4, <1>5, <1>6, <1>7, <1>8 DEF RuleMaps

\* The invariant is kept between two pages of the hash.
LEMMA LoadPageKeeps ==
    ASSUME IInv, LoadPage
    PROVE  IInv'
<1>1. Types /\ Rulebook /\ Matched /\ Rooted
  BY DEF IInv
<1>2. Types'
  BY <1>1 DEF Types, LoadPage, request, history, NoOp
<1>3. Rulebook' /\ Matched' /\ Rooted'
  BY <1>1 DEF Settled, Rulebook, Matched, Rooted, LoadPage, request, history, NoOp
<1>4. RuleMaps'
  BY MapsKept DEF LoadPage, request, history
<1>5. \A c \in Clients : Texts(c)' /\ Metas(c)'
  BY LoadKeeps DEF LoadPage, history
<1> QED
  BY <1>2, <1>3, <1>4, <1>5 DEF IInv

\* The invariant is kept when the rules are loaded, and the root has its own.
LEMMA LoadEndKeeps ==
    ASSUME IInv, LoadEnd
    PROVE  IInv'
<1> USE WrapAssumption
<1>1. /\ Types /\ Rulebook /\ Matched /\ Rooted
      /\ op = NoOp /\ \A c \in Clients : pc[c] = "idle" /\ nl[c] = Nothing /\ root[c] = Nothing
  BY DEF IInv, Types, LoadEnd, Metas
<1>2. /\ Default \in added /\ Default \in Rules /\ Default \notin Strays /\ Default \notin Clients
      /\ Root \in Netlocs
  BY <1>1 DEF Rulebook, NotAdded, WrapAssumption
<1>3. CASE matcher[Root] # Nothing
  <2>1. Types'
    BY <1>1, <1>3 DEF Types, LoadEnd, request, NoOp
  <2>2. Rulebook' /\ Rooted'
    BY <1>1, <1>3 DEF Settled, Rulebook, Rooted, LoadEnd, request, NoOp
  <2>3. Matched'
    BY <1>1, <1>3 DEF Settled, Matched, Rulebook, LoadEnd
  <2>4. RuleMaps'
    BY <1>3, MapsKept DEF LoadEnd, request
  <2>5. \A c \in Clients : Texts(c)' /\ Metas(c)'
    BY <1>3, LoadKeeps DEF LoadEnd
  <2> QED
    BY <2>1, <2>2, <2>3, <2>4, <2>5 DEF IInv
<1>4. CASE matcher[Root] = Nothing
  <2>1. Enter(Root, Default)
    BY <1>4 DEF LoadEnd
  <2>2. /\ matcher' \in [Netlocs -> Rules \cup {Nothing}]
        /\ matcher'[Root] = Default
        /\ \A m \in Netlocs \ {Root} : matcher'[m] = matcher[m]
        /\ maps' \in [Owners -> [MetaKeys -> Owners \cup {Nothing}]]
        /\ \A o \in Owners \ {Default} : maps'[o] = maps[o]
        /\ roots' \subseteq Rules /\ roots \subseteq roots' /\ roots' \subseteq roots \cup {Default}
        /\ Default \in roots'
    BY <1>1, <1>2, <2>1, EnterWrites DEF LoadEnd
  <2>3. Types'
    BY <1>1, <2>2 DEF Types, LoadEnd, request, NoOp
  <2>4. Rulebook'
    BY <1>1, <1>2, <2>2 DEF Settled, Rulebook, LoadEnd, NoOp
  <2>5. Matched'
    <3>1. ASSUME NEW n \in Settled
          PROVE  \/ matcher'[n] = acked[n]
                 \/ matcher'[n] \in Strays
                 \/ n = Root /\ acked[n] = Nothing /\ matcher'[n] = Default
      BY <1>1, <1>2, <1>4, <2>2 DEF Settled, Matched, LoadEnd, Rulebook, WrapAssumption
    <3> QED
      BY <3>1 DEF Settled, Matched, LoadEnd
  <2>6. Rooted'
    <3>1. \A m \in Netlocs : matcher[m] # Default
      BY <1>1, <1>2 DEF Matched, LoadEnd, Rulebook, WrapAssumption
    <3>2. Nothing \notin roots'
      BY <2>2 DEF WrapAssumption
    <3>3. UNCHANGED <<nl, root, op, added>>
      BY DEF LoadEnd, request
    <3> QED
      BY <1>1, <1>2, <2>2, <3>1, <3>2, <3>3 DEF Rooted, NoOp
  <2>7. RuleMaps'
    BY <1>2, <2>1, EnterMaps DEF LoadEnd, request
  <2>8. \A c \in Clients : Texts(c)' /\ Metas(c)'
    BY <2>2, <1>2, LoadKeeps DEF LoadEnd, Owners
  <2> QED
    BY <2>3, <2>4, <2>5, <2>6, <2>7, <2>8 DEF IInv
<1> QED
  BY <1>3, <1>4

-----------------------------------------------------------------------------
(* Adding and deleting rules. *)

\* A call writes no map and touches no request until it applies.
LEMMA CallKeeps ==
    ASSUME IInv, UNCHANGED <<maps, request, roots>>, added \subseteq added',
           \A r \in added : given'[r] = given[r],
           \A n \in Netlocs : matcher'[n] \in {matcher[n], Nothing}
    PROVE  RuleMaps' /\ \A c \in Clients : Texts(c)' /\ Metas(c)'
<1>1. RuleMaps'
  BY MapsKept DEF request
<1>2. ASSUME NEW c \in Clients PROVE Texts(c)' /\ Metas(c)'
  BY ClientStays DEF request
<1> QED
  BY <1>1, <1>2

\* The invariant is kept when an Add begins.
LEMMA AddKeeps ==
    ASSUME IInv, NEW n \in Netlocs, Add(n)
    PROVE  IInv'
<1> USE WrapAssumption
<1>1. Types /\ Rulebook /\ Matched /\ Rooted
  BY DEF IInv
<1>2. PICK r \in Rules \ added, fields \in RuleShapes :
        /\ op' = [kind |-> "save", netloc |-> n, rule |-> r]
        /\ given' = [given EXCEPT ![r] = fields]
        /\ added' = added \cup {r}
  BY DEF Add
<1>3. fields \subseteq Fields
  BY DEF WrapAssumption
<1>4. Types'
  BY <1>1, <1>2, <1>3 DEF Answers, Types, Ops, Add, request, loading
<1>5. r # Nothing
  BY DEF WrapAssumption
<1>6. Rulebook'
  <2>1. op'.kind = "save" /\ op'.netloc = n /\ op'.rule = r
    BY <1>2
  <2>2. /\ r \in added' \ NotAdded /\ r \notin roots
        /\ \A m \in Netlocs : hash[m] # r /\ matcher[m] # r
    BY <1>1, <1>2, <1>5 DEF Rulebook, Rooted
  <2>3. UNCHANGED <<hash, matcher, roots, acked>> /\ Settled' = Settled \ {n}
    BY <1>1 DEF Add, Settled, Types
  <2> QED
    BY <1>1, <1>2, <2>1, <2>2, <2>3 DEF Rulebook
<1>7. Matched'
  BY <1>1 DEF Matched, Add, loading, Settled, Types
<1>8. Rooted'
  BY <1>1, <1>2, <1>5 DEF Rooted, Add, request
<1>9. RuleMaps' /\ \A c \in Clients : Texts(c)' /\ Metas(c)'
  BY <1>1, <1>2, CallKeeps DEF Add, Types
<1> QED
  BY <1>4, <1>6, <1>7, <1>8, <1>9 DEF IInv

\* The invariant is kept when a Delete begins.
LEMMA DeleteKeeps ==
    ASSUME IInv, NEW n \in Netlocs, Delete(n)
    PROVE  IInv'
<1>1. Types /\ Rulebook /\ Matched /\ Rooted
  BY DEF IInv
<1>2. Types'
  BY <1>1 DEF Types, Ops, Answers, Delete, request, loading
<1>3. Settled' = Settled \ {n}
  BY <1>1 DEF Delete, Settled, Types
<1>4. Rulebook' /\ Matched' /\ Rooted'
  BY <1>1, <1>3 DEF Rulebook, Matched, Rooted, Delete, NoOp, request, loading
<1>5. RuleMaps' /\ \A c \in Clients : Texts(c)' /\ Metas(c)'
  BY CallKeeps DEF Delete
<1> QED
  BY <1>2, <1>4, <1>5 DEF IInv

\* A call that has not got its answer yet, or gets another than the rule, settles nothing.
LEMMA SaveSettles ==
    ASSUME Types, Save, op.netloc \notin Settled
    PROVE  Settled' = Settled /\ answer' \in [Netlocs -> Answers]
<1>1. op.netloc \in Netlocs /\ answer[op.netloc] # "rule" /\ answer \in [Netlocs -> Answers]
  BY DEF Types, Ops, Settled
<1>2. \/ answer' = answer
      \/ answer' = [answer EXCEPT ![op.netloc] = "empty"]
      \/ answer' = [answer EXCEPT ![op.netloc] = "error"]
  BY DEF Save, Saves
<1>3. \A n \in Netlocs : answer'[n] = "rule" <=> answer[n] = "rule"
  BY <1>1, <1>2
<1> QED BY <1>1, <1>2, <1>3 DEF Settled, Answers

\* The invariant is kept by the Redis command of a call, answered or not.
LEMMA SaveKeeps ==
    ASSUME IInv, Save
    PROVE  IInv'
<1> USE WrapAssumption
<1>1. Types /\ Rulebook /\ Matched /\ Rooted
  BY DEF IInv
<1>2. /\ hash' \in {hash, [hash EXCEPT ![op.netloc] = op.rule]}
      /\ op' \in {NoOp, [op EXCEPT !.kind = IF @ = "save" THEN "apply" ELSE "drop"]}
      /\ op' # NoOp => hash' = [hash EXCEPT ![op.netloc] = op.rule]
      /\ faults' \in 0..MaxFaults
  BY <1>1 DEF Save, Saves, Fault, Types, WrapAssumption
<1>3. /\ op \in Ops /\ op.kind \in {"save", "erase"} /\ op.netloc \notin Settled
      /\ op.kind = "save" => op.rule \in added \ NotAdded
      /\ op.kind = "erase" => op.rule = Nothing
  BY <1>1 DEF Save, Types, Rulebook
<1>4. phase = "up"
  BY <1>1, <1>3 DEF Types, NoOp
<1>5. /\ op'.kind \in {"none", "apply", "drop"}
      /\ op'.kind = "none" => op' = NoOp
      /\ op'.kind # "none" => op'.netloc = op.netloc /\ op'.rule = op.rule
      /\ op'.kind = "apply" => op.kind = "save"
      /\ op'.kind = "drop" => op.kind = "erase"
      /\ op' \in Ops
  BY <1>2, <1>3 DEF NoOp, Ops, WrapAssumption
<1>6. Types'
  BY <1>1, <1>2, <1>3, <1>4, <1>5, SaveSettles DEF Types, Ops, Save, request, loading
<1>7. Rulebook'
  <2>1. /\ hash'[op.netloc] \in {hash[op.netloc], op.rule}
        /\ \A n \in Netlocs \ {op.netloc} : hash'[n] = hash[n]
        /\ op' # NoOp => hash'[op.netloc] = op.rule
    BY <1>1, <1>2, <1>3 DEF Types, Ops
  <2>2. op.rule \notin Strays \cup {Default} /\ op.rule \in added \cup {Nothing}
    BY <1>3 DEF NotAdded, WrapAssumption
  <2>3. \A n \in Netlocs \ {op.netloc} : op.rule # Nothing => hash[n] # op.rule
    BY <1>1, <1>3 DEF Rulebook
  <2>4. op.netloc \in Netlocs
    BY <1>3 DEF Ops
  <2>5. UNCHANGED <<added, matcher, acked, roots>> /\ Settled' = Settled
    BY <1>1, <1>3, SaveSettles DEF Save
  <2>6. \A n \in Netlocs : /\ {hash'[n], matcher'[n]} \subseteq added \cup {Nothing}
                           /\ hash'[n] \notin Strays \cup {Default}
                           /\ n \in Settled' => hash'[n] = acked[n]
    BY <1>1, <1>3, <2>1, <2>2, <2>5 DEF Rulebook
  <2>7. \A m, n \in Netlocs : hash'[m] = hash'[n] /\ hash'[m] # Nothing => m = n
    BY <1>1, <2>1, <2>3 DEF Rulebook
  <2>8. op'.kind \in {"save", "apply"} =>
         /\ op'.rule \in added \ NotAdded
         /\ op'.rule \notin roots /\ \A n \in Netlocs : matcher[n] # op'.rule
         /\ \A n \in Netlocs \ {op'.netloc} : hash'[n] # op'.rule
    BY <1>1, <1>3, <1>5, <2>1 DEF Rulebook
  <2>9. /\ op'.kind # "none" => op'.netloc \notin Settled'
        /\ op'.kind \in {"erase", "drop"} => op'.rule = Nothing
        /\ op'.kind \in {"apply", "drop"} => hash'[op'.netloc] = op'.rule
    BY <1>3, <1>5, <2>1, <2>5 DEF NoOp
  <2> QED
    BY <1>1, <1>5, <2>5, <2>6, <2>7, <2>8, <2>9 DEF Rulebook, Settled
<1>8. Matched'
  BY <1>1, <1>3, <1>4, SaveSettles DEF Matched, Save, loading
<1>9. Rooted'
  BY <1>1, <1>3, <1>5 DEF Rooted, Save, request
<1>10. RuleMaps' /\ \A c \in Clients : Texts(c)' /\ Metas(c)'
  BY CallKeeps DEF Save
<1> QED
  BY <1>6, <1>7, <1>8, <1>9, <1>10 DEF IInv

\* The invariant is kept when an added rule is entered and the Add answered.
LEMMA AddApplyKeeps ==
    ASSUME IInv, AddApply
    PROVE  IInv'
<1> USE WrapAssumption
<1>1. /\ Types /\ Rulebook /\ Matched /\ Rooted
      /\ op.kind = "apply" /\ phase = "up"
  BY DEF IInv, Types, AddApply, NoOp
<1>2. /\ op.netloc \in Netlocs /\ op.netloc \notin Settled
      /\ op.rule \in added \ NotAdded /\ op.rule \in Rules
      /\ op.rule \notin Clients /\ op.rule # Nothing
      /\ op.rule \notin roots /\ hash[op.netloc] = op.rule
  BY <1>1 DEF Types, Ops, Rulebook, WrapAssumption
<1>3. \A n \in Netlocs : matcher[n] # op.rule
  BY <1>1 DEF Rulebook
<1>4. /\ matcher' \in [Netlocs -> Rules \cup {Nothing}]
      /\ matcher'[op.netloc] = op.rule
      /\ \A m \in Netlocs \ {op.netloc} : matcher'[m] = matcher[m]
      /\ maps' \in [Owners -> [MetaKeys -> Owners \cup {Nothing}]]
      /\ \A o \in Owners \ {op.rule} : maps'[o] = maps[o]
      /\ roots' \subseteq Rules /\ roots \subseteq roots' /\ roots' \subseteq roots \cup {op.rule}
      /\ op.netloc # Root => roots' = roots
      /\ op.netloc = Root => op.rule \in roots'
  BY <1>1, <1>2, EnterWrites DEF AddApply, Answered
<1>5. /\ op' = NoOp /\ Settled' = Settled \cup {op.netloc} /\ Settled \subseteq Netlocs
      /\ answer' \in [Netlocs -> Answers]
      /\ acked'[op.netloc] = op.rule
      /\ \A n \in Netlocs \ {op.netloc} : acked'[n] = acked[n]
      /\ acked' \in [Netlocs -> Rules \cup {Nothing}]
      /\ UNCHANGED <<hash, given, request, loading, faults, added>>
  BY <1>1, <1>2 DEF AddApply, Answered, Types, Settled, Answers
<1>6. NoOp \in Ops /\ NoOp.kind = "none"
  BY DEF NoOp, Ops, WrapAssumption
<1>7. Types'
  BY <1>1, <1>4, <1>5, <1>6 DEF Types, request, loading
<1>8. Rulebook'
  <2>1. \A n \in Netlocs : {hash'[n], matcher'[n]} \subseteq added \cup {Nothing}
    BY <1>1, <1>2, <1>4, <1>5 DEF Rulebook
  <2>2. \A n \in Settled' : hash'[n] = acked'[n]
    BY <1>1, <1>2, <1>5 DEF Rulebook
  <2> QED
    BY <1>1, <1>5, <1>6, <2>1, <2>2 DEF Rulebook
<1>9. Matched'
  <2>1. ASSUME NEW n \in Settled'
        PROVE  \/ matcher'[n] = acked'[n]
               \/ matcher'[n] \in Strays
               \/ n = Root /\ acked'[n] = Nothing /\ matcher'[n] = Default
    BY <1>1, <1>4, <1>5 DEF Matched
  <2> QED
    BY <1>1, <1>5, <2>1 DEF Matched, loading
<1>10. Rooted'
  <2>1. \A c \in Clients : nl[c] # op.rule
    BY <1>1 DEF Rooted
  <2>2. UNCHANGED <<nl, root>>
    BY <1>5 DEF request
  <2>3. \A n \in Netlocs \ {Root} : matcher'[n] \notin roots'
    BY <1>1, <1>2, <1>3, <1>4 DEF Rooted
  <2>4. matcher'[Root] \in roots' \cup {Nothing}
    BY <1>1, <1>4 DEF Rooted, WrapAssumption
  <2> QED
    BY <1>1, <1>2, <1>4, <1>5, <1>6, <2>1, <2>2, <2>3, <2>4 DEF Rooted
<1>11. RuleMaps'
  BY <1>2, <1>5, EnterMaps DEF AddApply, request
<1>12. ASSUME NEW c \in Clients PROVE Texts(c)' /\ Metas(c)'
  BY <1>2, <1>4, <1>5, ClientStays DEF request, Owners
<1> QED
  BY <1>7, <1>8, <1>9, <1>10, <1>11, <1>12 DEF IInv

\* The invariant is kept when a deleted rule leaves the matcher.
LEMMA DeleteApplyKeeps ==
    ASSUME IInv, DeleteApply
    PROVE  IInv'
<1> USE WrapAssumption
<1>1. /\ Types /\ Rulebook /\ Matched /\ Rooted
      /\ op.kind = "drop" /\ phase = "up"
  BY DEF IInv, Types, DeleteApply, NoOp
<1>2. /\ op.netloc \in Netlocs /\ op.netloc \notin Settled
      /\ op.rule = Nothing /\ hash[op.netloc] = Nothing
  BY <1>1 DEF Types, Ops, Rulebook
<1>3. /\ matcher' \in [Netlocs -> Rules \cup {Nothing}]
      /\ matcher'[op.netloc] = Nothing
      /\ \A m \in Netlocs \ {op.netloc} : matcher'[m] = matcher[m]
  BY <1>1, <1>2 DEF DeleteApply, Types
<1>4. /\ op' = NoOp /\ Settled' = Settled \cup {op.netloc} /\ Settled \subseteq Netlocs
      /\ answer' \in [Netlocs -> Answers]
      /\ acked'[op.netloc] = Nothing
      /\ \A n \in Netlocs \ {op.netloc} : acked'[n] = acked[n]
      /\ acked' \in [Netlocs -> Rules \cup {Nothing}]
      /\ UNCHANGED <<hash, given, request, loading, faults, added, maps, roots>>
  BY <1>1, <1>2 DEF DeleteApply, Answered, Types, Settled, Answers
<1>5. NoOp \in Ops /\ NoOp.kind = "none"
  BY DEF NoOp, Ops, WrapAssumption
<1>6. Types'
  BY <1>1, <1>3, <1>4, <1>5 DEF Types, request, loading
<1>7. Rulebook'
  BY <1>1, <1>2, <1>3, <1>4, <1>5 DEF Rulebook
<1>8. Matched'
  <2>1. ASSUME NEW n \in Settled'
        PROVE  \/ matcher'[n] = acked'[n]
               \/ matcher'[n] \in Strays
               \/ n = Root /\ acked'[n] = Nothing /\ matcher'[n] = Default
    BY <1>1, <1>3, <1>4 DEF Matched
  <2> QED
    BY <1>1, <1>4, <2>1 DEF Matched, loading
<1>9. Rooted'
  <2>1. Nothing \notin roots
    BY <1>1 DEF Types, WrapAssumption
  <2> QED
    BY <1>1, <1>3, <1>4, <1>5, <2>1 DEF Rooted, request
<1>10. RuleMaps' /\ \A c \in Clients : Texts(c)' /\ Metas(c)'
  BY <1>2, <1>3, <1>4, CallKeeps
<1> QED
  BY <1>6, <1>7, <1>8, <1>9, <1>10 DEF IInv

-----------------------------------------------------------------------------
(* Requests. *)

\* What the steps of a request leave alone.
Apart == <<hash, matcher, given, op, loading, faults, history>>

\* The rules, and their relation to the matcher, as a request's step leaves them.
LEMMA RulesStay ==
    ASSUME IInv, UNCHANGED Apart, NEW c \in Clients, phase = "up",
           \A d \in Clients \ {c} : nl'[d] = nl[d] /\ root'[d] = root[d],
           nl'[c] \in {nl[c], Nothing} \cup {matcher[n] : n \in Netlocs \ {Root}},
           root'[c] \in {root[c], Nothing, matcher[Root]}
    PROVE  Rulebook' /\ Matched' /\ Rooted'
<1> USE WrapAssumption
<1>1. Types /\ Rulebook /\ Matched /\ Rooted
  BY DEF IInv
<1>2. Rulebook' /\ Matched'
  BY <1>1 DEF Settled, Rulebook, Matched, Apart, loading, history
<1>4. /\ Nothing \notin roots
      /\ op.kind \in {"save", "apply"} => op.rule # Nothing
  BY <1>1 DEF Types, Rulebook, WrapAssumption
<1>5. ASSUME NEW d \in Clients
      PROVE  /\ nl'[d] \notin roots /\ root'[d] \in roots \cup {Nothing}
             /\ {nl'[d], root'[d]} \subseteq added \cup {Nothing}
             /\ op.kind \in {"save", "apply"} => nl'[d] # op.rule
  <2>1. CASE d # c
    BY <1>1, <2>1 DEF Rooted
  <2>2. CASE d = c
    <3>1. Root \in Netlocs
      BY DEF WrapAssumption
    <3> QED
      BY <1>1, <1>4, <2>2, <3>1 DEF Rooted, Rulebook
  <2> QED
    BY <2>1, <2>2
<1>6. Rooted'
  BY <1>1, <1>5 DEF Rooted, Apart, history
<1> QED
  BY <1>2, <1>6

\* The rules' maps stay right in a step of a request that writes none of them.
LEMMA RequestMaps ==
    ASSUME IInv, UNCHANGED Apart, NEW c \in Clients,
           \A r \in Rules : maps'[r] = maps[r],
           \A d \in Clients \ {c} : nl'[d] = nl[d] /\ meta'[d] = meta[d],
           nl'[c] \in {nl[c], Nothing} \cup {matcher[n] : n \in Netlocs \ {Root}},
           meta'[c] \in {c, meta[c], nl[c], matcher[Root]} \ {Nothing}
    PROVE  RuleMaps'
<1> USE WrapAssumption
<1>1. Types /\ Rulebook /\ Rooted /\ RuleMaps
  BY DEF IInv
<1>2. UNCHANGED <<given, roots, added, matcher>>
  BY DEF Apart, history
<1>3. ASSUME NEW q \in Rules
      PROVE  (Right(q)' <=> Right(q)) /\ (Blank(q)' <=> Blank(q)) /\ (Exact(q)' <=> Exact(q))
  BY <1>2 DEF Right, Blank, Exact
<1>4. (\A n \in Netlocs : matcher[n] # Nothing => Right(matcher[n]))'
  <2>1. ASSUME NEW n \in Netlocs, matcher[n] # Nothing
        PROVE  matcher[n] \in Rules /\ Right(matcher[n])
    BY <1>1, <2>1 DEF RuleMaps, Types
  <2> QED
    BY <1>2, <1>3, <2>1 DEF Right
<1>5. \A d \in Clients : /\ nl'[d] # Nothing => nl'[d] \in Rules /\ Right(nl'[d])
                         /\ meta'[d] # d => meta'[d] \in Rules /\ Right(meta'[d])
  <2>1. /\ \A d \in Clients : /\ nl[d] # Nothing => nl[d] \in Rules /\ Right(nl[d])
                              /\ meta[d] # d => meta[d] \in Rules /\ Right(meta[d])
        /\ \A n \in Netlocs : matcher[n] # Nothing => matcher[n] \in Rules /\ Right(matcher[n])
        /\ Root \in Netlocs
    BY <1>1 DEF IInv, Metas, Types, RuleMaps, WrapAssumption
  <2> QED
    BY <2>1
<1>6. (\A d \in Clients : /\ nl[d] # Nothing => Right(nl[d])
                          /\ meta[d] # d => Right(meta[d]))'
  BY <1>3, <1>5 DEF Right
<1>7. (\A q \in roots' : Exact(q)') /\ (\A q \in Rules \ added' : Blank(q)')
  BY <1>1, <1>2, <1>3 DEF RuleMaps, Types
<1>8. \A q \in Rules : Right(q)' \/ Blank(q)'
  BY <1>1, <1>3 DEF RuleMaps
<1> QED
  BY <1>4, <1>6, <1>7, <1>8 DEF RuleMaps

\* The other requests are what they were after a step of one that writes no map
\* but its own or a rule's.
LEMMA OthersStay ==
    ASSUME IInv, UNCHANGED Apart, NEW c \in Clients,
           \A d \in Clients \ {c} :
              /\ pc'[d] = pc[d] /\ own'[d] = own[d] /\ meta'[d] = meta[d] /\ nl'[d] = nl[d]
              /\ root'[d] = root[d] /\ method'[d] = method[d] /\ body'[d] = body[d]
              /\ maps'[d] = maps[d]
    PROVE  \A d \in Clients \ {c} : Texts(d)' /\ Metas(d)'
<1> SUFFICES ASSUME NEW d \in Clients \ {c} PROVE Texts(d)' /\ Metas(d)'
  OBVIOUS
<1> QED
  BY ClientStays DEF Apart, history

\* The invariant is kept when a request comes and the rule of its netloc is taken.
LEMMA BeginKeeps ==
    ASSUME IInv, NEW c \in Clients, Begin(c)
    PROVE  IInv'
<1> USE WrapAssumption
<1>1. Types /\ Rulebook /\ Matched /\ Rooted /\ RuleMaps
  BY DEF IInv
<1>2. c \in Owners /\ c \notin Rules /\ c # Nothing /\ Root \in Netlocs
  BY DEF Owners, WrapAssumption
<1>3. PICK q \in Requests :
        /\ own' = [own EXCEPT ![c] = q.fields \cup (IF q.queued THEN {Enqtime} ELSE {})]
        /\ maps' = [maps EXCEPT ![c] =
             Brought(c, IF q.queued THEN Queued(q.fields) ELSE q.fields)]
        /\ method' = [method EXCEPT ![c] = IF Method \in q.fields THEN c ELSE Nothing]
        /\ body' = [body EXCEPT ![c] = IF Body \in q.fields THEN c ELSE Nothing]
  BY DEF Begin
<1>4. PICK r \in {matcher[n] : n \in Netlocs \ {Root}} \cup {Nothing} :
        /\ nl' = [nl EXCEPT ![c] = r]
        /\ pc' = [pc EXCEPT ![c] = IF r = Nothing THEN "root" ELSE "merge"]
  BY DEF Begin
<1>5. /\ phase = "up" /\ pc[c] = "idle" /\ UNCHANGED <<meta, root>> /\ UNCHANGED Apart
  BY DEF Begin, Apart
<1>6. q.fields \subseteq Fields
  BY DEF WrapAssumption
<1>7. r \in Rules \cup {Nothing}
  BY <1>1 DEF Types
<1>8. /\ own'[c] = q.fields \cup (IF q.queued THEN {Enqtime} ELSE {})
      /\ own' \in [Clients -> SUBSET (Fields \cup {Enqtime})]
      /\ maps'[c] = Brought(c, own'[c])
      /\ maps' \in [Owners -> [MetaKeys -> Owners \cup {Nothing}]]
  <2>1. own'[c] = q.fields \cup (IF q.queued THEN {Enqtime} ELSE {})
    BY <1>1, <1>3 DEF Types
  <2>2. own'[c] = IF q.queued THEN Queued(q.fields) ELSE q.fields
    BY <2>1 DEF Queued
  <2>3. maps'[c] = Brought(c, own'[c])
    BY <1>1, <1>2, <1>3, <2>2 DEF Types
  <2>4. own' \in [Clients -> SUBSET (Fields \cup {Enqtime})]
    BY <1>1, <1>3, <1>6 DEF Types
  <2>5. maps' \in [Owners -> [MetaKeys -> Owners \cup {Nothing}]]
    BY <1>1, <1>2, <1>3, BroughtRight DEF Types
  <2> QED
    BY <2>1, <2>3, <2>4, <2>5
<1>9. /\ \A k \in MetaKeys : maps'[c][k] = IF k \in own'[c] THEN c ELSE Nothing
      /\ method'[c] = IF Method \in own'[c] THEN c ELSE Nothing
      /\ body'[c] = IF Body \in own'[c] THEN c ELSE Nothing
      /\ nl'[c] = r /\ pc'[c] = IF r = Nothing THEN "root" ELSE "merge"
      /\ meta'[c] = c /\ root'[c] = Nothing
  <2>1. meta[c] = c /\ root[c] = Nothing
    BY <1>5 DEF IInv, Metas
  <2>2. \A k \in MetaKeys : maps'[c][k] = IF k \in own'[c] THEN c ELSE Nothing
    BY <1>8, BroughtRight
  <2>3. method'[c] = (IF Method \in q.fields THEN c ELSE Nothing)
        /\ body'[c] = (IF Body \in q.fields THEN c ELSE Nothing)
    BY <1>1, <1>3 DEF Types
  <2>4. (Method \in q.fields <=> Method \in own'[c]) /\ (Body \in q.fields <=> Body \in own'[c])
    BY <1>8, KeysApart
  <2>5. nl'[c] = r /\ pc'[c] = IF r = Nothing THEN "root" ELSE "merge"
    BY <1>1, <1>4 DEF Types
  <2> QED
    BY <1>5, <2>1, <2>2, <2>3, <2>4, <2>5
<1>10. \A d \in Clients \ {c} :
         /\ pc'[d] = pc[d] /\ own'[d] = own[d] /\ meta'[d] = meta[d] /\ nl'[d] = nl[d]
         /\ root'[d] = root[d] /\ method'[d] = method[d] /\ body'[d] = body[d]
         /\ maps'[d] = maps[d]
  BY <1>1, <1>3, <1>4, <1>5 DEF Types, Owners
<1>11. Types'
  <2>1. nl' \in [Clients -> Rules \cup {Nothing}]
        /\ pc' \in [Clients -> {"idle", "merge", "root", "answer"}]
    BY <1>1, <1>4, <1>7 DEF Types
  <2>2. /\ method' \in [Clients -> Owners \cup {Nothing}]
        /\ body' \in [Clients -> Owners \cup {Nothing}]
    BY <1>1, <1>2, <1>3 DEF Types
  <2> QED
    BY <1>1, <1>5, <1>8, <2>1, <2>2 DEF Types, Apart, loading, history
<1>12. Rulebook' /\ Matched' /\ Rooted'
  BY <1>4, <1>5, <1>9, <1>10, RulesStay
<1>13. RuleMaps'
  <2>1. \A o \in Rules : maps'[o] = maps[o]
    BY <1>1, <1>2, <1>3 DEF Types, Owners
  <2>2. meta'[c] \in {c, meta[c], nl[c], matcher[Root]} \ {Nothing}
    BY <1>2, <1>9
  <2> QED
    BY <1>4, <1>5, <1>9, <1>10, <2>1, <2>2, RequestMaps
<1>14. Texts(c)'
  BY <1>9, <1>2, <1>7 DEF Texts, Filled, Gave
<1>15. Metas(c)'
  <2>1. pc'[c] # "idle" /\ pc'[c] # "answer"
    BY <1>9
  <2>2. \A k \in Keys : k \in MetaKeys
    BY KeysApart
  <2>3. Enqtime \in own'[c] => maps'[c][Enqtime] # Nothing
    BY <1>2, <1>9, KeysApart
  <2>4. r = Nothing => \A k \in Keys : KeyFilled(c, k)'
    BY <1>9, <2>2 DEF KeyFilled, Gave
  <2> QED
    BY <1>2, <1>9, <2>1, <2>3, <2>4 DEF Metas
<1>16. \A d \in Clients \ {c} : Texts(d)' /\ Metas(d)'
  BY <1>5, <1>10, OthersStay
<1> QED
  BY <1>11, <1>12, <1>13, <1>14, <1>15, <1>16 DEF IInv

\* The new map is again one of values.
LEMMA PourTypes ==
    ASSUME Types, NEW r \in Owners, NEW m \in [MetaKeys -> Owners \cup {Nothing}],
           NEW force \in BOOLEAN
    PROVE  Pour(r, m, force) \in [MetaKeys -> Owners \cup {Nothing}]
BY DEF Types, Pour

\* mergeMethod and mergeBody concern the request alone.
LEMMA TextTypes ==
    ASSUME Types, NEW c \in Clients, NEW r \in Rules, NEW force \in BOOLEAN,
           MergeTexts(c, r, force)
    PROVE  /\ method' \in [Clients -> Owners \cup {Nothing}]
           /\ body' \in [Clients -> Owners \cup {Nothing}]
           /\ \A d \in Clients \ {c} : method'[d] = method[d] /\ body'[d] = body[d]
           /\ method'[c] = IF Method \in given[r] /\ (force \/ method[c] = Nothing)
                             THEN r ELSE method[c]
           /\ body'[c] = IF Body \in given[r] /\ body[c] = Nothing THEN r ELSE body[c]
<1>1. r \in Owners
  BY DEF Owners
<1> QED
  BY <1>1 DEF Types, MergeTexts

\* A request whose map is o's merges a rule's map.
Fill(c, o, r)     == o = meta[c] /\ MergeMeta(c, r, FALSE)
Override(c, o, r) == o = meta[c] /\ MergeMeta(c, r, TRUE)

\* The value of a key of o's map after that.
Completed(o, r, k) ==
    IF Replace \in Present(o)
      THEN IF k = Replace THEN Nothing ELSE maps[o][k]
    ELSE IF maps[r][k] # Nothing /\ maps[o][k] = Nothing THEN maps[r][k]
    ELSE maps[o][k]
Overridden(o, r, k) ==
    IF maps[r][k] # Nothing THEN maps[r][k]
    ELSE IF k = Replace THEN Nothing
    ELSE maps[o][k]

\* What mergeMeta writes, and where: either the request takes the rule's map for
\* its own, or the map it has, its own or its netloc's, is written.  The rule of a
\* netloc fills in what is missing, and nothing if the request says "_replace_".
LEMMA FillWrites ==
    ASSUME Types, NEW c \in Clients, NEW o \in Owners, NEW r \in Rules, Fill(c, o, r)
    PROVE  /\ meta' \in [Clients -> Owners]
           /\ maps' \in [Owners -> [MetaKeys -> Owners \cup {Nothing}]]
           /\ \A d \in Clients \ {c} : meta'[d] = meta[d]
           /\ \A w \in Owners \ {o} : maps'[w] = maps[w]
           /\ \/ Present(o) = {} /\ meta'[c] \in {o, r} /\ UNCHANGED maps
              \/ /\ Present(o) # {} /\ UNCHANGED meta
                 /\ \A k \in MetaKeys : maps'[o][k] = Completed(o, r, k)
<1> DEFINE m == maps[o]
           bare == [m EXCEPT ![Replace] = Nothing]
<1>1. r \in Owners /\ o = meta[c] /\ m \in [MetaKeys -> Owners \cup {Nothing}]
  BY DEF Owners, Types, Fill
<1>2. bare \in [MetaKeys -> Owners \cup {Nothing}]
      /\ \A k \in MetaKeys : bare[k] = IF k = Replace THEN Nothing ELSE m[k]
  BY <1>1
<1>3. CASE Present(o) = {} /\ meta' = [meta EXCEPT ![c] = IF Present(r) = {} THEN @ ELSE r]
           /\ UNCHANGED maps
  BY <1>1, <1>3 DEF Types
<1>4. CASE /\ Replace \in Present(o)
           /\ maps' = [maps EXCEPT ![o] = bare] /\ UNCHANGED meta
  <2>1. maps'[o] = bare
    BY <1>1, <1>4 DEF Types
  <2> QED
    BY <1>1, <1>2, <1>4, <2>1 DEF Types, Completed
<1>5. CASE /\ Present(o) # {} /\ Replace \notin Present(o)
           /\ maps' = [maps EXCEPT ![o] = Pour(r, m, FALSE)] /\ UNCHANGED meta
  <2>1. Pour(r, m, FALSE) \in [MetaKeys -> Owners \cup {Nothing}]
    BY <1>1, PourTypes
  <2>2. maps'[o] = Pour(r, m, FALSE)
    BY <1>1, <1>5 DEF Types
  <2>3. \A k \in MetaKeys : maps'[o][k] =
           IF maps[r][k] # Nothing /\ m[k] = Nothing THEN maps[r][k] ELSE m[k]
    BY <2>2 DEF Pour
  <2> QED
    BY <1>1, <1>5, <2>1, <2>2, <2>3 DEF Types, Completed
<1>6. CASE /\ Replace \in Present(o)
           /\ maps' = [maps EXCEPT ![o] = IF FALSE THEN Pour(r, bare, TRUE) ELSE bare]
           /\ UNCHANGED meta
  BY <1>4, <1>6
<1> QED
  BY <1>3, <1>5, <1>6 DEF MergeMeta, Fill

\* The root's rule overrides, and takes "_replace_" away likewise.
LEMMA ForceWrites ==
    ASSUME Types, NEW c \in Clients, NEW o \in Owners, NEW r \in Rules,
           Override(c, o, r)
    PROVE  /\ meta' \in [Clients -> Owners]
           /\ maps' \in [Owners -> [MetaKeys -> Owners \cup {Nothing}]]
           /\ \A d \in Clients \ {c} : meta'[d] = meta[d]
           /\ \A w \in Owners \ {o} : maps'[w] = maps[w]
           /\ \/ Present(o) = {} /\ meta'[c] \in {o, r} /\ UNCHANGED maps
              \/ /\ Present(o) # {} /\ UNCHANGED meta
                 /\ \A k \in MetaKeys : maps'[o][k] = Overridden(o, r, k)
<1> DEFINE m == maps[o]
           bare == [m EXCEPT ![Replace] = Nothing]
<1>1. r \in Owners /\ o = meta[c] /\ m \in [MetaKeys -> Owners \cup {Nothing}]
  BY DEF Owners, Types, Override
<1>2. bare \in [MetaKeys -> Owners \cup {Nothing}]
      /\ \A k \in MetaKeys : bare[k] = IF k = Replace THEN Nothing ELSE m[k]
  BY <1>1
<1>3. CASE Present(o) = {} /\ meta' = [meta EXCEPT ![c] = IF Present(r) = {} THEN @ ELSE r]
           /\ UNCHANGED maps
  BY <1>1, <1>3 DEF Types
<1>4. CASE /\ Replace \in Present(o)
           /\ maps' = [maps EXCEPT ![o] = Pour(r, bare, TRUE)] /\ UNCHANGED meta
  <2>1. Pour(r, bare, TRUE) \in [MetaKeys -> Owners \cup {Nothing}]
    BY <1>1, <1>2, PourTypes
  <2>2. maps'[o] = Pour(r, bare, TRUE)
    BY <1>1, <1>4 DEF Types
  <2>3. \A k \in MetaKeys : maps'[o][k] =
           IF maps[r][k] # Nothing THEN maps[r][k] ELSE bare[k]
    BY <2>2 DEF Pour
  <2> QED
    BY <1>1, <1>2, <1>4, <2>1, <2>2, <2>3 DEF Types, Overridden
<1>5. CASE /\ Present(o) # {} /\ Replace \notin Present(o)
           /\ maps' = [maps EXCEPT ![o] = Pour(r, m, TRUE)] /\ UNCHANGED meta
  <2>1. Pour(r, m, TRUE) \in [MetaKeys -> Owners \cup {Nothing}]
    BY <1>1, PourTypes
  <2>2. maps'[o] = Pour(r, m, TRUE)
    BY <1>1, <1>5 DEF Types
  <2>3. \A k \in MetaKeys : maps'[o][k] =
           IF maps[r][k] # Nothing THEN maps[r][k] ELSE m[k]
    BY <2>2 DEF Pour
  <2>4. \A k \in MetaKeys : k = Replace => m[k] = Nothing
    BY <1>5 DEF Present
  <2> QED
    BY <1>1, <1>5, <2>1, <2>2, <2>3, <2>4 DEF Types, Overridden
<1>6. CASE /\ Replace \in Present(o)
           /\ maps' = [maps EXCEPT ![o] = IF TRUE THEN Pour(r, bare, TRUE) ELSE bare]
           /\ UNCHANGED meta
  BY <1>4, <1>6
<1> QED
  BY <1>3, <1>5, <1>6 DEF MergeMeta, Override

\* The invariant is kept when the rule of the netloc is merged.
LEMMA MergeKeeps ==
    ASSUME IInv, NEW c \in Clients, Merge(c)
    PROVE  IInv'
<1> USE WrapAssumption
<1> DEFINE r == nl[c]
<1>1. Types /\ Rulebook /\ Matched /\ Rooted /\ RuleMaps /\ Texts(c) /\ Metas(c)
  BY DEF IInv
<1>2. c \in Owners /\ c \notin Rules /\ c # Nothing /\ Nothing \notin roots
  BY <1>1 DEF Owners, WrapAssumption, Types
<1>3. /\ pc[c] = "merge" /\ phase = "up" /\ UNCHANGED <<own, nl, root>> /\ UNCHANGED Apart
      /\ pc' = [pc EXCEPT ![c] = "root"]
  BY <1>1 DEF Merge, Apart, Types
<1>4. /\ meta[c] = c /\ r \in Rules /\ r # Nothing /\ r \in added /\ Right(r)
      /\ \A k \in MetaKeys : maps[c][k] = IF k \in own[c] THEN c ELSE Nothing
  BY <1>1, <1>3 DEF Metas, Types, RuleMaps, Rooted
<1>5. MergeTexts(c, r, FALSE) /\ MergeMeta(c, r, FALSE)
  BY DEF Merge
<1>6. /\ method' \in [Clients -> Owners \cup {Nothing}]
      /\ body' \in [Clients -> Owners \cup {Nothing}]
      /\ \A d \in Clients \ {c} : method'[d] = method[d] /\ body'[d] = body[d]
      /\ method'[c] = IF Method \in given[r] /\ method[c] = Nothing THEN r ELSE method[c]
      /\ body'[c] = IF Body \in given[r] /\ body[c] = Nothing THEN r ELSE body[c]
  BY <1>1, <1>4, <1>5, TextTypes
<1>7. /\ meta' \in [Clients -> Owners]
      /\ maps' \in [Owners -> [MetaKeys -> Owners \cup {Nothing}]]
      /\ \A d \in Clients \ {c} : meta'[d] = meta[d]
      /\ \A o \in Owners \ {c} : maps'[o] = maps[o]
      /\ \/ Present(c) = {} /\ meta'[c] \in {c, r} /\ UNCHANGED maps
         \/ /\ Present(c) # {} /\ meta'[c] = c
            /\ \A k \in MetaKeys : maps'[c][k] = Completed(c, r, k)
  <2>1. Fill(c, c, r)
    BY <1>4, <1>5 DEF Fill
  <2> QED
    BY <1>1, <1>2, <1>4, <2>1, FillWrites
<1>8. \A d \in Clients \ {c} : pc'[d] = pc[d] /\ maps'[d] = maps[d]
  BY <1>1, <1>2, <1>3, <1>7 DEF Types, Owners
<1>9. pc' \in [Clients -> {"idle", "merge", "root", "answer"}] /\ pc'[c] = "root"
  BY <1>1, <1>3 DEF Types
<1>10. Types'
  BY <1>1, <1>3, <1>6, <1>7, <1>9 DEF Types, Apart, loading, history
<1>11. Rulebook' /\ Matched' /\ Rooted'
  BY <1>3, RulesStay
<1>12. RuleMaps'
  <2>1. \A q \in Rules : maps'[q] = maps[q]
    BY <1>2, <1>7 DEF Owners
  <2>2. meta'[c] \in {c, meta[c], nl[c], matcher[Root]} \ {Nothing}
    BY <1>2, <1>4, <1>7
  <2> QED
    BY <1>3, <1>7, <2>1, <2>2, RequestMaps
<1>13. Texts(c)'
  <2>1. Gave(r) = given[r] /\ given' = given
    BY <1>3, <1>4 DEF Gave, Apart
  <2>2. /\ method[c] = IF Method \in own[c] THEN c ELSE Nothing
        /\ body[c] = IF Body \in own[c] THEN c ELSE Nothing
    BY <1>1, <1>3 DEF Texts
  <2>3. Filled(c, Method)' = Filled(c, Method) /\ Filled(c, Body)' = Filled(c, Body)
    BY <1>3, <2>1 DEF Filled, Gave
  <2>4. method'[c] = Filled(c, Method) /\ body'[c] = Filled(c, Body)
    BY <1>2, <1>6, <2>1, <2>2 DEF Filled
  <2> QED
    BY <1>9, <2>3, <2>4 DEF Texts
<1>14. Carries(c) => Present(c) # {}
  BY <1>2, <1>4, KeysApart DEF Carries, Present
<1>15. ASSUME Carries(c), NEW k \in Keys
       PROVE  KeyFilled(c, k)'
  <2>1. /\ k \in MetaKeys /\ k # Replace /\ Replace \in MetaKeys
        /\ Replace \in Present(c) <=> Replace \in own[c]
    BY <1>2, <1>4, KeysApart DEF Present
  <2>2. maps'[c][k] = IF Replace \in own[c] THEN maps[c][k]
                      ELSE IF maps[r][k] # Nothing /\ maps[c][k] = Nothing THEN maps[r][k]
                      ELSE maps[c][k]
    BY <1>7, <1>14, <1>15, <2>1 DEF Completed
  <2>3. maps[r][k] \in roots \cup (IF k \in given[r] THEN {r} ELSE {Nothing})
    BY <1>4 DEF Right
  <2>4. UNCHANGED <<own, nl, roots, given>> /\ Gave(r) = given[r]
    BY <1>3, <1>4 DEF Apart, history, Gave
  <2>5. Gave(nl[c])' = given[r]
    BY <2>4 DEF Gave
  <2>6. maps[c][k] = IF k \in own[c] THEN c ELSE Nothing
    BY <1>4, <2>1
  <2> QED
    BY <1>2, <1>4, <2>2, <2>3, <2>4, <2>5, <2>6 DEF KeyFilled
<1>16. Metas(c)'
  <2>1. UNCHANGED <<own, nl, added>> /\ Carries(c)' = Carries(c)
    BY <1>3 DEF Apart, history, Carries
  <2>2. meta'[c] # c => meta'[c] = r /\ ~Carries(c)
    BY <1>7, <1>14
  <2>3. Enqtime \in own[c] => maps'[c][Enqtime] # Nothing
    BY <1>2, <1>4, <1>7, KeysApart DEF Completed
  <2>4. meta'[c] \in {c, r}
    BY <1>7
  <2>5. /\ meta'[c] \in {c, nl'[c]}
        /\ meta'[c] # c => meta'[c] \in added' /\ ~Carries(c)'
        /\ Enqtime \in own'[c] => maps'[c][Enqtime] # Nothing
    BY <1>4, <2>1, <2>2, <2>3, <2>4
  <2> QED
    BY <1>9, <1>15, <2>1, <2>5 DEF Metas
<1>17. \A d \in Clients \ {c} : Texts(d)' /\ Metas(d)'
  BY <1>3, <1>6, <1>7, <1>8, OthersStay
<1> QED
  BY <1>10, <1>11, <1>12, <1>13, <1>16, <1>17 DEF IInv

\* A rule's map may be written, when it is no root's and stays right.
LEMMA WrittenRule ==
    ASSUME IInv, UNCHANGED Apart, UNCHANGED <<nl, meta>>,
           NEW w \in added \ roots, Right(w)', \A r \in Rules \ {w} : maps'[r] = maps[r]
    PROVE  RuleMaps'
<1>1. Types /\ Rulebook /\ Rooted /\ RuleMaps
  BY DEF IInv
<1>2. UNCHANGED <<given, roots, added, matcher, nl, meta>>
  BY DEF Apart, history
<1>3. ASSUME NEW q \in Rules, q # w
      PROVE  (Right(q)' <=> Right(q)) /\ (Blank(q)' <=> Blank(q)) /\ (Exact(q)' <=> Exact(q))
  BY <1>2, <1>3 DEF Right, Blank, Exact
<1>4. \A q \in Rules : Right(q) => Right(q)'
  BY <1>3
<1>5. (\A n \in Netlocs : matcher[n] # Nothing => Right(matcher[n]))'
  <2>1. ASSUME NEW n \in Netlocs, matcher[n] # Nothing
        PROVE  matcher[n] \in Rules /\ Right(matcher[n])
    BY <1>1, <2>1 DEF RuleMaps, Types
  <2> QED
    BY <1>2, <1>4, <2>1 DEF Right
<1>6. (\A d \in Clients : /\ nl[d] # Nothing => Right(nl[d])
                          /\ meta[d] # d => Right(meta[d]))'
  <2>1. ASSUME NEW d \in Clients
        PROVE  /\ nl[d] # Nothing => nl[d] \in Rules /\ Right(nl[d])
               /\ meta[d] # d => meta[d] \in Rules /\ Right(meta[d])
    BY <1>1 DEF IInv, Metas, Types, RuleMaps
  <2> QED
    BY <1>2, <1>4, <2>1 DEF Right
<1>7. (\A q \in roots' : Exact(q)') /\ (\A q \in Rules \ added' : Blank(q)')
  BY <1>1, <1>2, <1>3 DEF RuleMaps, Types
<1>8. \A q \in Rules : Right(q)' \/ Blank(q)'
  BY <1>1, <1>3 DEF RuleMaps
<1> QED
  BY <1>5, <1>6, <1>7, <1>8 DEF RuleMaps

\* The invariant is kept when the root's rule is merged.
LEMMA MergeRootKeeps ==
    ASSUME IInv, NEW c \in Clients, MergeRoot(c)
    PROVE  IInv'
<1> USE WrapAssumption
<1> DEFINE r == matcher[Root]
           o == meta[c]
<1>1. Types /\ Rulebook /\ Matched /\ Rooted /\ RuleMaps /\ Texts(c) /\ Metas(c)
  BY DEF IInv
<1>2. c \in Owners /\ c \notin Rules /\ c # Nothing /\ Nothing \notin roots /\ Root \in Netlocs
  BY <1>1 DEF Owners, WrapAssumption, Types
<1>3. /\ pc[c] = "root" /\ phase = "up" /\ UNCHANGED <<own, nl>> /\ UNCHANGED Apart
      /\ pc' = [pc EXCEPT ![c] = "answer"] /\ root' = [root EXCEPT ![c] = r]
  BY <1>1 DEF MergeRoot, Apart, Types
<1>4. r \in Rules \cup {Nothing} /\ o \in Owners /\ o \in {c, nl[c]}
  BY <1>1, <1>2, <1>3 DEF Types, Metas
<1>5. /\ pc' \in [Clients -> {"idle", "merge", "root", "answer"}] /\ pc'[c] = "answer"
      /\ root' \in [Clients -> Rules \cup {Nothing}] /\ root'[c] = r
      /\ \A d \in Clients \ {c} : pc'[d] = pc[d] /\ root'[d] = root[d]
  BY <1>1, <1>3, <1>4 DEF Types
<1>6. Rulebook' /\ Matched' /\ Rooted'
  BY <1>3, <1>5, RulesStay
<1>7. /\ UNCHANGED <<own, nl, given, roots, added>>
      /\ Gave(nl[c])' = Gave(nl[c]) /\ Gave(root[c])' = Gave(r) /\ Carries(c)' = Carries(c)
      /\ \A k : Filled(c, k)' = Filled(c, k)
  <2>1. UNCHANGED <<own, nl, given, roots, added>>
    BY <1>3 DEF Apart, history
  <2>2. Gave(nl[c])' = Gave(nl[c]) /\ Gave(root[c])' = Gave(r)
    BY <1>5, <2>1 DEF Gave
  <2> QED
    BY <2>1, <2>2 DEF Carries, Filled
<1>8. /\ method[c] = Filled(c, Method) /\ body[c] = Filled(c, Body)
      /\ nl[c] \in Rules \cup {Nothing}
  BY <1>1, <1>3 DEF Texts, Types
<1>9. Carries(c) => /\ o = c /\ Present(c) # {}
                    /\ \A k \in Keys : KeyFilled(c, k)
                    /\ Enqtime \in own[c] => maps[c][Enqtime] # Nothing
  <2>1. Carries(c) => /\ o = c /\ \A k \in Keys : KeyFilled(c, k)
                      /\ Enqtime \in own[c] => maps[c][Enqtime] # Nothing
    BY <1>1, <1>3 DEF Metas
  <2>2. ASSUME Carries(c) PROVE Present(c) # {}
    <3>1. PICK k \in Keys \cup {Enqtime} : k \in own[c]
      BY <2>2 DEF Carries
    <3>2. k \in MetaKeys /\ (k \in Keys => KeyFilled(c, k))
      BY <2>1, <2>2, KeysApart
    <3>3. maps[c][k] # Nothing
      BY <1>2, <2>1, <2>2, <3>1, <3>2 DEF KeyFilled
    <3> QED
      BY <3>2, <3>3 DEF Present
  <2> QED
    BY <2>1, <2>2
<1>10. CASE r = Nothing
  <2>1. UNCHANGED <<maps, meta, method, body>>
    BY <1>10 DEF MergeRoot
  <2>2. Types'
    BY <1>1, <1>3, <1>5, <2>1 DEF Types, Apart, loading, history
  <2>3. RuleMaps'
    BY <1>1, <1>3, <1>7, <2>1, MapsKept DEF Types, Apart, history
  <2>4. Gave(r) = {}
    BY <1>10 DEF Gave
  <2>5. Texts(c)'
    <3>1. TextsRight(c)'
      BY <1>2, <1>5, <1>7, <1>8, <1>10, <2>1, <2>4 DEF TextsRight, Filled
    <3> QED
      BY <1>5, <3>1 DEF Texts
  <2>6. \A k \in Keys : KeyFilled(c, k) => KeyFilled(c, k)'
    BY <1>7, <2>1 DEF KeyFilled
  <2>7. Metas(c)'
    BY <1>1, <1>5, <1>7, <1>9, <2>1, <2>4, <2>6 DEF Metas, Carries
  <2>8. \A d \in Clients \ {c} : Texts(d)' /\ Metas(d)'
    BY <1>3, <1>5, <2>1, OthersStay
  <2> QED
    BY <1>6, <2>2, <2>3, <2>5, <2>7, <2>8 DEF IInv
<1>11. CASE r # Nothing
  <2>1. MergeTexts(c, r, TRUE) /\ Override(c, o, r)
    BY <1>11 DEF MergeRoot, Override
  <2>2. r \in Rules /\ r \in roots /\ r \in added /\ Exact(r) /\ Gave(r) = given[r]
    BY <1>1, <1>4, <1>11 DEF Rooted, RuleMaps, Gave
  <2>3. /\ method' \in [Clients -> Owners \cup {Nothing}]
        /\ body' \in [Clients -> Owners \cup {Nothing}]
        /\ \A d \in Clients \ {c} : method'[d] = method[d] /\ body'[d] = body[d]
        /\ method'[c] = IF Method \in given[r] THEN r ELSE method[c]
        /\ body'[c] = IF Body \in given[r] /\ body[c] = Nothing THEN r ELSE body[c]
    BY <1>1, <2>1, <2>2, TextTypes
  <2>4. /\ meta' \in [Clients -> Owners]
        /\ maps' \in [Owners -> [MetaKeys -> Owners \cup {Nothing}]]
        /\ \A d \in Clients \ {c} : meta'[d] = meta[d]
        /\ \A w \in Owners \ {o} : maps'[w] = maps[w]
        /\ \/ Present(o) = {} /\ meta'[c] \in {o, r} /\ UNCHANGED maps
           \/ /\ Present(o) # {} /\ UNCHANGED meta
              /\ \A k \in MetaKeys : maps'[o][k] = Overridden(o, r, k)
    BY <1>1, <1>4, <2>1, <2>2, ForceWrites
  <2>5. Types'
    BY <1>1, <1>3, <1>5, <2>3, <2>4 DEF Types, Apart, loading, history
  <2>6. Texts(c)'
    <3>1. TextsRight(c)'
      BY <1>2, <1>5, <1>7, <1>8, <2>2, <2>3 DEF TextsRight, Filled, Gave
    <3> QED
      BY <1>5, <3>1 DEF Texts
  <2>7. o # c => o \in added \ roots /\ o \in Rules /\ Right(o) /\ ~Carries(c)
    BY <1>1, <1>4 DEF Metas, Rooted, RuleMaps, Types
  <2>8. \A k \in MetaKeys : Overridden(o, r, k) =
           IF k \in given[r] THEN r ELSE IF k = Replace THEN Nothing ELSE maps[o][k]
    BY <2>2, <1>11 DEF Exact, Overridden
  <2>9. \A d \in Clients \ {c} : Texts(d)' /\ Metas(d)'
    BY <1>2, <1>3, <1>4, <1>5, <2>3, <2>4, <2>7, OthersStay DEF Owners, WrapAssumption
  <2>10. RuleMaps'
    <3>1. CASE \A q \in Rules : maps'[q] = maps[q]
      <4>1. meta'[c] \in {c, meta[c], nl[c], matcher[Root]} \ {Nothing}
        BY <1>2, <1>4, <1>11, <2>4 DEF WrapAssumption, Owners
      <4> QED
        BY <1>3, <2>4, <3>1, <4>1, RequestMaps
    <3>2. CASE o # c /\ UNCHANGED meta /\ \A k \in MetaKeys : maps'[o][k] = Overridden(o, r, k)
      <4>1. \A k \in MetaKeys : maps'[o][k] =
              IF k \in given[r] THEN r ELSE IF k = Replace THEN Nothing ELSE maps[o][k]
        BY <2>8, <3>2
      <4>2. given[r] \subseteq Fields
        BY <1>1, <2>2 DEF Types
      <4>3. Right(o) /\ o \in added \ roots
        BY <2>7, <3>2
      <4>4. \A k \in Keys : maps'[o][k] \in roots \cup (IF k \in given[o] THEN {o} ELSE {Nothing})
        BY <2>2, <4>1, <4>3, KeysApart DEF Right
      <4>5. /\ maps'[o][Replace] \in roots \cup {o, Nothing}
            /\ maps'[o][Enqtime] = Nothing /\ maps'[o][Deqtime] = Nothing
        BY <2>2, <4>1, <4>2, <4>3, KeysApart DEF Right
      <4>6. UNCHANGED <<roots, given, nl, meta>>
        BY <1>7, <3>2
      <4>7. \E w \in added \ roots : Right(w)' /\ \A q \in Rules \ {w} : maps'[q] = maps[q]
        BY <2>4, <4>3, <4>4, <4>5, <4>6 DEF Right, Owners
      <4> QED
        BY <1>3, <4>6, <4>7, WrittenRule
    <3> QED
      BY <1>2, <2>4, <3>1, <3>2 DEF Owners
  <2>11. Metas(c)'
    <3>1. ASSUME Carries(c), NEW k \in Keys
          PROVE  IF k \in given[r] THEN maps'[c][k] = r ELSE KeyFilled(c, k)'
      <4>1. maps'[c][k] = IF k \in given[r] THEN r ELSE maps[c][k]
        BY <1>9, <2>4, <2>8, <3>1, KeysApart
      <4>2. KeyFilled(c, k)
        BY <1>9, <3>1
      <4> QED
        BY <1>7, <4>1, <4>2 DEF KeyFilled
    <3>2. Carries(c) /\ Enqtime \in own[c] => maps'[c][Enqtime] # Nothing
      BY <1>9, <1>11, <2>4, <2>8, KeysApart
    <3>3. Enqtime \in own[c] => Carries(c)
      BY DEF Carries
    <3>4. meta'[c] # c => meta'[c] \in added /\ ~Carries(c)
      BY <1>9, <2>2, <2>4, <2>7
    <3>5. /\ meta'[c] # c => meta'[c] \in added' /\ ~Carries(c)'
          /\ Enqtime \in own'[c] => maps'[c][Enqtime] # Nothing
      BY <1>7, <3>2, <3>3, <3>4
    <3>6. Carries(c)' => \A k \in Keys :
            IF k \in Gave(root[c])' THEN maps'[c][k] = root'[c] ELSE KeyFilled(c, k)'
      BY <1>5, <1>7, <2>2, <3>1
    <3> QED
      BY <1>5, <3>5, <3>6 DEF Metas
  <2> QED
    BY <1>6, <2>5, <2>6, <2>9, <2>10, <2>11 DEF IInv
<1> QED
  BY <1>10, <1>11

\* The invariant is kept when a wrapped request is answered: only a request that
\* came through a queue gets the time, and it has a map of its own.
LEMMA RespondKeeps ==
    ASSUME IInv, NEW c \in Clients, Respond(c)
    PROVE  IInv'
<1> USE WrapAssumption
<1> DEFINE o == meta[c]
<1>1. Types /\ Rulebook /\ Matched /\ Rooted /\ RuleMaps /\ Metas(c)
  BY DEF IInv
<1>2. c \in Owners /\ c \notin Rules /\ c # Nothing /\ o \in Owners
  BY <1>1 DEF Owners, WrapAssumption, Types
<1>3. /\ pc[c] = "answer" /\ phase = "up" /\ UNCHANGED Apart
      /\ pc' = [pc EXCEPT ![c] = "idle"] /\ own' = [own EXCEPT ![c] = {}]
      /\ meta' = [meta EXCEPT ![c] = c]
      /\ nl' = [nl EXCEPT ![c] = Nothing] /\ root' = [root EXCEPT ![c] = Nothing]
      /\ method' = [method EXCEPT ![c] = Nothing] /\ body' = [body EXCEPT ![c] = Nothing]
  BY <1>1 DEF Respond, Apart, Types
<1>4. PICK time \in Owners \cup {Nothing} :
        /\ maps' = [maps EXCEPT ![o][Deqtime] = time, ![c] = Empty]
        /\ o # c => time = maps[o][Deqtime]
  <2>1. PICK dequeued \in {FALSE, (Enqtime \in own[c])} :
          maps' = [maps EXCEPT ![o][Deqtime] = IF dequeued THEN c ELSE @, ![c] = Empty]
    BY DEF Respond
  <2>2. maps[o][Deqtime] \in Owners \cup {Nothing}
    BY <1>1, <1>2, KeysApart DEF Types
  <2>3. o # c => Enqtime \notin own[c]
    BY <1>1 DEF Metas, Carries
  <2>4. CASE dequeued
    <3>1. maps' = [maps EXCEPT ![o][Deqtime] = c, ![c] = Empty]
      BY <2>1, <2>4
    <3>2. o = c
      BY <2>3, <2>4
    <3> QED
      BY <1>2, <3>1, <3>2
  <2>5. CASE ~dequeued
    <3>1. maps' = [maps EXCEPT ![o][Deqtime] = maps[o][Deqtime], ![c] = Empty]
      BY <2>1, <2>5
    <3> QED
      BY <2>2, <3>1
  <2> QED
    BY <2>4, <2>5
<1>5. /\ maps'[c] = Empty
      /\ maps' \in [Owners -> [MetaKeys -> Owners \cup {Nothing}]]
      /\ \A w \in Owners \ {c} : maps'[w] = maps[w]
  <2>1. Empty \in [MetaKeys -> Owners \cup {Nothing}]
    BY DEF Empty
  <2>2. CASE o = c
    BY <1>1, <1>2, <1>4, <2>1, <2>2 DEF Types
  <2>3. CASE o # c
    <3>1. [maps[o] EXCEPT ![Deqtime] = maps[o][Deqtime]] = maps[o]
      BY <1>1, <1>2 DEF Types
    <3>2. maps' = [maps EXCEPT ![o] = maps[o], ![c] = Empty]
      BY <1>4, <2>3, <3>1
    <3> QED
      BY <1>1, <1>2, <2>1, <2>3, <3>2 DEF Types
  <2> QED
    BY <2>2, <2>3
<1>6. /\ pc' \in [Clients -> {"idle", "merge", "root", "answer"}] /\ pc'[c] = "idle"
      /\ own' \in [Clients -> SUBSET (Fields \cup {Enqtime})] /\ own'[c] = {}
      /\ meta' \in [Clients -> Owners] /\ meta'[c] = c
      /\ nl' \in [Clients -> Rules \cup {Nothing}] /\ nl'[c] = Nothing
      /\ root' \in [Clients -> Rules \cup {Nothing}] /\ root'[c] = Nothing
      /\ method' \in [Clients -> Owners \cup {Nothing}] /\ method'[c] = Nothing
      /\ body' \in [Clients -> Owners \cup {Nothing}] /\ body'[c] = Nothing
  BY <1>1, <1>2, <1>3 DEF Types
<1>7. \A d \in Clients \ {c} :
        /\ pc'[d] = pc[d] /\ own'[d] = own[d] /\ meta'[d] = meta[d] /\ nl'[d] = nl[d]
        /\ root'[d] = root[d] /\ method'[d] = method[d] /\ body'[d] = body[d]
        /\ maps'[d] = maps[d]
  BY <1>1, <1>3, <1>5 DEF Types, Owners
<1>8. Types'
  BY <1>1, <1>3, <1>5, <1>6 DEF Types, Apart, loading, history
<1>9. Rulebook' /\ Matched' /\ Rooted'
  BY <1>3, <1>6, <1>7, RulesStay
<1>10. RuleMaps'
  <2>1. \A q \in Rules : maps'[q] = maps[q]
    BY <1>2, <1>5 DEF Owners
  <2> QED
    BY <1>2, <1>3, <1>6, <1>7, <2>1, RequestMaps
<1>11. Texts(c)' /\ Metas(c)'
  BY <1>6 DEF Texts, Metas
<1>12. \A d \in Clients \ {c} : Texts(d)' /\ Metas(d)'
  BY <1>3, <1>7, OthersStay
<1> QED
  BY <1>8, <1>9, <1>10, <1>11, <1>12 DEF IInv

\* The invariant is kept when the process dies: only the hash outlives it.
LEMMA CrashKeeps ==
    ASSUME IInv, Crash
    PROVE  IInv'
<1> USE WrapAssumption
<1>1. Types /\ Rulebook
  BY DEF IInv
<1>2. NoOp \in Ops /\ NoOp.kind = "none"
  BY DEF NoOp, Ops, WrapAssumption
<1>3. /\ maps' \in [Owners -> [MetaKeys -> Owners \cup {Nothing}]]
      /\ \A w \in Owners : \A k \in MetaKeys : maps'[w][k] = Nothing
  BY DEF Crash, Empty
<1>4. /\ matcher' \in [Netlocs -> Rules \cup {Nothing}]
      /\ \A n \in Netlocs : matcher'[n] = Nothing
      /\ op' = NoOp /\ phase' = "load" /\ nlc' = Nothing /\ roots' = {}
      /\ unread' = Stored \cup Strays
      /\ UNCHANGED <<hash, given, added, acked, answer>> /\ Settled' = Settled
  BY DEF Crash, Settled
<1>5. /\ pc' \in [Clients -> {"idle", "merge", "root", "answer"}]
      /\ own' \in [Clients -> SUBSET (Fields \cup {Enqtime})]
      /\ meta' \in [Clients -> Owners]
      /\ nl' \in [Clients -> Rules \cup {Nothing}]
      /\ root' \in [Clients -> Rules \cup {Nothing}]
      /\ method' \in [Clients -> Owners \cup {Nothing}]
      /\ body' \in [Clients -> Owners \cup {Nothing}]
      /\ \A c \in Clients : /\ pc'[c] = "idle" /\ meta'[c] = c
                            /\ nl'[c] = Nothing /\ root'[c] = Nothing
                            /\ method'[c] = Nothing /\ body'[c] = Nothing /\ own'[c] = {}
  BY DEF Crash, ToAll, Owners
<1>6. faults' \in 0..MaxFaults
  BY <1>1 DEF Crash, Fault, Types, WrapAssumption
<1>7. Stored \subseteq Netlocs
  BY DEF Stored
<1>8. Types'
  BY <1>1, <1>2, <1>3, <1>4, <1>5, <1>6, <1>7 DEF Types
<1>9. Rulebook'
  BY <1>1, <1>2, <1>4 DEF Rulebook
<1>10. Matched'
  BY <1>4 DEF Matched, Stored, WrapAssumption
<1>11. Rooted'
  BY <1>2, <1>4, <1>5 DEF Rooted, WrapAssumption
<1>12. RuleMaps'
  BY <1>3, <1>4, <1>5 DEF RuleMaps, Blank, Owners
<1>13. ASSUME NEW c \in Clients PROVE Texts(c)' /\ Metas(c)'
  BY <1>5 DEF Texts, Metas
<1> QED
  BY <1>8, <1>9, <1>10, <1>11, <1>12, <1>13 DEF IInv

-----------------------------------------------------------------------------
(* The theorems. *)

\* Every step keeps the invariant.
LEMMA StepInvariant == IInv /\ [Next]_vars => IInv'
<1> SUFFICES ASSUME IInv, [Next]_vars PROVE IInv'
  OBVIOUS
<1>1. ASSUME NEW n \in Netlocs, LoadPair(n) \/ Add(n) \/ Delete(n) PROVE IInv'
  BY <1>1, LoadPairKeeps, AddKeeps, DeleteKeeps
<1>2. ASSUME NEW r \in Strays, LoadStray(r) PROVE IInv'
  BY <1>2, LoadStrayKeeps
<1>3. CASE LoadPage \/ LoadEnd \/ Save \/ AddApply \/ DeleteApply \/ Crash
  BY <1>3, LoadPageKeeps, LoadEndKeeps, SaveKeeps, AddApplyKeeps, DeleteApplyKeeps, CrashKeeps
<1>4. ASSUME NEW c \in Clients, Begin(c) \/ Merge(c) \/ MergeRoot(c) \/ Respond(c) PROVE IInv'
  BY <1>4, BeginKeeps, MergeKeeps, MergeRootKeeps, RespondKeeps
<1>5. CASE UNCHANGED vars
  <2>1. UNCHANGED <<Apart, maps, request>>
    BY <1>5 DEF vars, Apart
  <2>2. Types' /\ Rulebook' /\ Matched' /\ Rooted'
    BY <2>1 DEF Settled, IInv, Types, Rulebook, Matched, Rooted, Apart, request, loading, history
  <2>3. RuleMaps' /\ \A c \in Clients : Texts(c)' /\ Metas(c)'
    BY <2>1, CallKeeps DEF Apart, request, history
  <2> QED
    BY <2>2, <2>3 DEF IInv
<1> QED
  BY <1>1, <1>2, <1>3, <1>4, <1>5 DEF Next

\* The invariant holds in every behaviour.
LEMMA Invariant == Spec => []IInv
BY InitInvariant, StepInvariant, PTL DEF Spec

\* Every variable has its type, a request's meta is its own map or a rule's, and
\* nothing is wrapped or added before the rules are loaded.
THEOREM TypeCorrect == Spec => []TypeOK
<1>1. IInv => TypeOK
  <2> SUFFICES ASSUME IInv PROVE TypeOK
    OBVIOUS
  <2>1. Types
    BY DEF IInv
  <2>2. \A c \in Clients : meta[c] \in Rules \cup {c}
    BY <2>1 DEF IInv, Metas, Types
  <2>3. ASSUME NEW c \in Clients
        PROVE  method[c] \in Rules \cup {c, Nothing} /\ body[c] \in Rules \cup {c, Nothing}
    <3>1. /\ Texts(c) /\ pc[c] \in {"idle", "merge", "root", "answer"}
          /\ nl[c] \in Rules \cup {Nothing} /\ root[c] \in Rules \cup {Nothing}
      BY <2>1 DEF IInv, Types
    <3> QED
      BY <3>1 DEF Texts, Filled, TextsRight
  <2> QED
    BY <2>1, <2>2, <2>3 DEF TypeOK, Types, Ops
<1> QED
  BY <1>1, Invariant, PTL

\* Nothing of a request gets into the map of a rule, its times least of all, and
\* no rule shows up in another netloc's but the root's.
THEOREM TraceableCorrect == Spec => []RulesTraceable
<1>1. IInv => RulesTraceable
  <2> SUFFICES ASSUME IInv, NEW r \in Rules, Present(r) # {} PROVE Right(r)
    BY DEF RulesTraceable, Right
  <2>1. Right(r) \/ Blank(r)
    BY DEF IInv, RuleMaps
  <2> QED
    BY <2>1 DEF Present, Blank
<1> QED
  BY <1>1, Invariant, PTL

\* A wrapped request is the merge of what it came with and of its two rules,
\* whatever other requests, changes of rules and restarts came in between.
THEOREM WrapsCorrect == Spec => []WrapsRight
<1>1. IInv => WrapsRight
  <2> SUFFICES ASSUME IInv, NEW c \in Clients, pc[c] = "answer"
               PROVE  TextsRight(c) /\ OwnMetaRight(c)
    BY DEF WrapsRight, Wrapped
  <2>1. Texts(c) /\ Metas(c)
    BY DEF IInv
  <2>2. ASSUME Carries(c), NEW k \in Keys
        PROVE  /\ meta[c] = c
               /\ IF k \in Gave(root[c]) THEN maps[c][k] = root[c] ELSE KeyFilled(c, k)
    BY <2>1, <2>2 DEF Metas
  <2>3. OwnMetaRight(c)
    BY <2>2 DEF OwnMetaRight, KeyFilled, Carries
  <2> QED
    BY <2>1, <2>3 DEF Texts
<1> QED
  BY <1>1, Invariant, PTL

\* What an Add or Delete left whose answer names the rule is in Redis and in the
\* matcher, also after a restart, but for what a key that is no netloc may put in
\* its place; an Add that is answered 200 without a body is not among them.
THEOREM AckedCorrect == Spec => []AckedRulesApply
<1>1. IInv => AckedRulesApply
  BY DEF IInv, Rulebook, Matched, AckedRulesApply
<1> QED
  BY <1>1, Invariant, PTL

=============================================================================
