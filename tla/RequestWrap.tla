---------------------------- MODULE RequestWrap -----------------------------
(***************************************************************************)
(* RequestWrapper completes the requests that are taken from a queue with  *)
(* the configuration (a rule) of their netloc and with that of the root.   *)
(* Maps are references in Go: a request without meta gets the rule's own   *)
(* map, and whatever is then done to the request is done to the rule.      *)
(* Requests are wrapped without a lock, while rules are added and deleted; *)
(* the rules are kept in a Redis hash and loaded from it at the start.     *)
(*                                                                         *)
(* A value is represented by who brought it: the request's client or the   *)
(* rule.  Meta stands for headers and cookies too: they merge likewise, as *)
(* those of a request that is tried, without the times of a queued one.    *)
(***************************************************************************)
EXTENDS Naturals, FiniteSets

CONSTANTS
    Clients,       \* goroutines that wrap a request, queued or tried
    Rules,         \* rules: every Add brings one of its own
    Strays,        \* rules in the hash under a key that is no netloc
    Old,           \* the rule that the hash may have had for a netloc before
    Default,       \* DefaultRequestConfig, the root's rule if the hash has none
    DefaultFields, \* the fields of the rules that are not added
    Netlocs, Root, \* netlocs that have rules, RootNetloc among them
    Keys,          \* ordinary keys of meta
    Requests,      \* bound: what requests come with, and whether through a queue
    RuleShapes,    \* bound: the fields that added rules have
    Nothing,       \* nil, or no value
    MaxFaults      \* bound: failed Redis commands and crashes of the process

Replace == "_replace_"
Enqtime == "pod.enqtime"
Deqtime == "pod.deqtime"
Method  == "method"
Body    == "body"

MetaKeys == Keys \cup {Replace, Enqtime, Deqtime}
Fields   == Keys \cup {Replace, Method, Body}

ASSUME WrapAssumption ==
    /\ Strays \subseteq Rules
    /\ Old \in Rules \ Strays /\ Default \in Rules \ Strays /\ Old # Default
    /\ Root \in Netlocs
    /\ Keys \cap {Replace, Enqtime, Deqtime, Method, Body} = {}
    /\ Requests \subseteq [fields : SUBSET Fields, queued : BOOLEAN]
    /\ RuleShapes \subseteq SUBSET Fields /\ DefaultFields \in SUBSET Fields
    /\ Clients \cap Rules = {} /\ Netlocs \cap Rules = {}
    /\ Nothing \notin Clients \cup Rules \cup Netlocs
    /\ MaxFaults \in Nat

VARIABLES
    hash,      \* Redis: the rule of each netloc
    matcher,   \* RequestWrapper.matcher
    given,     \* the fields a rule was added with
    maps,      \* the meta maps: one of each rule, one of each client's request
    pc,        \* where each client's request is
    own,       \* the fields its request came with, the time if through a queue
    meta,      \* whose map Request.Meta is
    nl, root,  \* the rules of its netloc and of the root that Wrap has fetched
    method,    \* Request.Method
    body,      \* Request.Body
    op,        \* the call that holds the wrapper's lock
    phase,     \* "load" until the rules are loaded, then "up"
    unread,    \* pairs of the hash that HSCAN has still to return
    nlc,       \* the netloc that Load has read last
    faults,    \* failed commands and crashes so far
    added,     \* history: rules that were added once
    roots,     \* history: rules that were the root's since the start
    acked,     \* history: the rule of each netloc by the last call answered with it
    answer     \* history: how the last call on each netloc was answered

request == <<pc, own, meta, nl, root, method, body>>
loading == <<phase, unread, nlc>>
history == <<added, roots, acked, answer>>
vars == <<hash, matcher, given, maps, request, op, loading, faults, history>>

Owners == Rules \cup Clients
NoOp == [kind |-> "none", netloc |-> Root, rule |-> Nothing]
Empty == [k \in MetaKeys |-> Nothing]

\* Not yet or never; with the rule that was added or deleted; with nothing at all,
\* though the status code is 200; with an error.
Answers == {"pending", "rule", "empty", "error"}
Settled == {n \in Netlocs : answer[n] = "rule"}

\* The meta map of someone who came with these fields.
Brought(who, fields) == [k \in MetaKeys |-> IF k \in fields THEN who ELSE Nothing]

TypeOK ==
    /\ hash \in [Netlocs -> Rules \cup {Nothing}]
    /\ matcher \in [Netlocs -> Rules \cup {Nothing}]
    /\ given \in [Rules -> SUBSET Fields]
    /\ maps \in [Owners -> [MetaKeys -> Owners \cup {Nothing}]]
    /\ pc \in [Clients -> {"idle", "merge", "root", "answer"}]
    /\ own \in [Clients -> SUBSET (Fields \cup {Enqtime})]
    /\ \A c \in Clients : meta[c] \in Rules \cup {c}
    /\ nl \in [Clients -> Rules \cup {Nothing}]
    /\ root \in [Clients -> Rules \cup {Nothing}]
    /\ \A c \in Clients : method[c] \in Rules \cup {c, Nothing}
    /\ \A c \in Clients : body[c] \in Rules \cup {c, Nothing}
    /\ op \in [kind   : {"none", "save", "apply", "erase", "drop"},
               netloc : Netlocs,
               rule   : Rules \cup {Nothing}]
    /\ phase \in {"load", "up"}
    /\ unread \subseteq Netlocs \cup Strays
    /\ nlc \in Netlocs \cup {Nothing}
    /\ faults \in 0..MaxFaults
    /\ added \subseteq Rules
    /\ roots \subseteq Rules
    /\ acked \in [Netlocs -> Rules \cup {Nothing}]
    /\ answer \in [Netlocs -> Answers]
    \* Nothing is added or wrapped before the last rule is loaded.
    /\ phase = "load" => op = NoOp /\ \A c \in Clients : pc[c] = "idle"
    /\ phase = "up" => unread = {} /\ nlc = Nothing

NotAdded == Strays \cup {Old, Default}
Stored == {n \in Netlocs : hash[n] # Nothing}
ToAll(v) == [c \in Clients |-> v]

Init ==
    /\ pc = ToAll("idle") /\ own = ToAll({})
    /\ nl = ToAll(Nothing) /\ root = ToAll(Nothing)
    /\ method = ToAll(Nothing) /\ body = ToAll(Nothing)
    /\ meta = [c \in Clients |-> c]
    /\ maps = [o \in Owners |-> Empty]
    /\ matcher = [n \in Netlocs |-> Nothing]
    /\ op = NoOp
    /\ phase = "load" /\ nlc = Nothing
    /\ roots = {}
    /\ \E n \in Netlocs, r \in {Old, Nothing} :
         hash = [m \in Netlocs |-> IF m = n THEN r ELSE Nothing]
    /\ given = [r \in Rules |-> IF r \in NotAdded THEN DefaultFields ELSE {}]
    /\ unread = Stored \cup Strays
    /\ faults = 0
    /\ added = NotAdded
    /\ acked = hash
    /\ answer = [n \in Netlocs |-> "rule"]

-----------------------------------------------------------------------------
(* Load: HSCAN returns keys and values in turn, in any order, by pages.     *)

\* The rule of a netloc, as matcher.Load enters it.
Enter(n, r) ==
    /\ matcher' = [matcher EXCEPT ![n] = r]
    /\ maps' = [maps EXCEPT ![r] = Brought(r, given[r])]
    /\ roots' = IF n = Root THEN roots \cup {r} ELSE roots

LoadPair(n) ==
    /\ phase = "load"
    /\ n \in unread
    /\ nlc' = n
    /\ unread' = unread \ {n}
    /\ Enter(n, hash[n])
    /\ UNCHANGED <<hash, given, request, op, phase, faults, added, acked, answer>>

\* A key that is no netloc: nlc keeps the netloc before it, if the page had
\* one, and the value is taken for that netloc's.
LoadStray(r) ==
    /\ phase = "load"
    /\ r \in unread
    /\ unread' = unread \ {r}
    /\ IF nlc = Nothing THEN UNCHANGED <<matcher, maps, roots>> ELSE Enter(nlc, r)
    /\ UNCHANGED <<hash, given, request, op, phase, nlc, faults, added, acked, answer>>

LoadPage ==
    /\ phase = "load"
    /\ nlc # Nothing
    /\ nlc' = Nothing
    /\ UNCHANGED <<hash, matcher, given, maps, request, op, phase, unread, faults, history>>

\* Slip: the wrapper is up before the last page has come.
LoadEndEarly ==
    /\ phase = "load"
    /\ phase' = "up"
    /\ nlc' = Nothing
    /\ IF matcher[Root] = Nothing THEN Enter(Root, Default) ELSE UNCHANGED <<matcher, maps, roots>>
    /\ UNCHANGED <<hash, given, request, op, unread, faults, added, acked, answer>>

\* OnStart: a root that Redis does not have is taken from the process.
LoadEnd ==
    /\ phase = "load"
    /\ unread = {}
    /\ phase' = "up"
    /\ nlc' = Nothing
    /\ IF matcher[Root] = Nothing THEN Enter(Root, Default) ELSE UNCHANGED <<matcher, maps, roots>>
    /\ UNCHANGED <<hash, given, request, op, unread, faults, added, acked, answer>>

-----------------------------------------------------------------------------
(* Add and Delete.  The wrapper's lock keeps them apart from each other.    *)

Fault == faults < MaxFaults /\ faults' = faults + 1

Add(n) ==
    /\ phase = "up"
    /\ op = NoOp
    /\ \E r \in Rules \ added, fields \in RuleShapes :
         /\ op' = [kind |-> "save", netloc |-> n, rule |-> r]
         /\ given' = [given EXCEPT ![r] = fields]
         /\ added' = added \cup {r}
    /\ answer' = [answer EXCEPT ![n] = "pending"]
    /\ UNCHANGED <<hash, matcher, maps, request, loading, faults, roots, acked>>

\* A netloc without a rule is an error and changes nothing.
Delete(n) ==
    /\ phase = "up"
    /\ op = NoOp
    /\ matcher[n] # Nothing
    /\ op' = [kind |-> "erase", netloc |-> n, rule |-> Nothing]
    /\ answer' = [answer EXCEPT ![n] = "pending"]
    /\ UNCHANGED <<hash, matcher, given, maps, request, loading, faults, added, roots, acked>>

\* Slip: the rules in memory change whether or not Redis was changed.
SavesRegardless ==
    /\ op' = [op EXCEPT !.kind = IF @ = "save" THEN "apply" ELSE "drop"]
    /\ \/ hash' = [hash EXCEPT ![op.netloc] = op.rule] /\ UNCHANGED faults
       \/ Fault /\ UNCHANGED hash
    /\ UNCHANGED answer

\* HSet or HDel.  The command fails, or only its reply is lost, and the call ends.
\* A Delete is answered with the error.  AddRequestConfig takes it into a variable that
\* shadows the err it returns, so an Add is answered 200, like a success, without a
\* body.
Saves ==
    \/ /\ hash' = [hash EXCEPT ![op.netloc] = op.rule]
       /\ op' = [op EXCEPT !.kind = IF @ = "save" THEN "apply" ELSE "drop"]
       /\ UNCHANGED <<faults, answer>>
    \/ /\ Fault
       /\ hash' \in {hash, [hash EXCEPT ![op.netloc] = op.rule]}
       /\ op' = NoOp
       /\ answer' = [answer EXCEPT ![op.netloc] = IF op.kind = "save" THEN "empty" ELSE "error"]

Save ==
    /\ op.kind \in {"save", "erase"}
    /\ Saves
    /\ UNCHANGED <<matcher, given, maps, request, loading, added, roots, acked>>

\* matcher.Load or matcher.Delete, and the answer with the rule.
Answered ==
    /\ op' = NoOp
    /\ acked' = [acked EXCEPT ![op.netloc] = op.rule]
    /\ answer' = [answer EXCEPT ![op.netloc] = "rule"]
    /\ UNCHANGED <<hash, given, request, loading, faults, added>>

AddApply ==
    /\ op.kind = "apply"
    /\ Enter(op.netloc, op.rule)
    /\ Answered

DeleteApply ==
    /\ op.kind = "drop"
    /\ matcher' = [matcher EXCEPT ![op.netloc] = Nothing]
    /\ UNCHANGED <<maps, roots>>
    /\ Answered

-----------------------------------------------------------------------------
(* Wrap, and what Dequeue, View and TryRequestConfig do around it.          *)

Present(m) == {k \in MetaKeys : maps[m][k] # Nothing}

\* Slip: a request is queued as it came.
QueuedBare(fields) == fields

\* What a request has in a queue: enqueue gave it meta, if only the time.
Queued(fields) == fields \cup {Enqtime}

\* A request is popped from a queue or viewed in one, or comes in the body of
\* TryRequestConfig, and Wrap fetches the rule of its netloc.
Begin(c) ==
    /\ phase = "up"
    /\ pc[c] = "idle"
    /\ \E q \in Requests :
         /\ own' = [own EXCEPT ![c] = q.fields \cup (IF q.queued THEN {Enqtime} ELSE {})]
         /\ maps' = [maps EXCEPT ![c] =
              Brought(c, IF q.queued THEN Queued(q.fields) ELSE q.fields)]
         /\ method' = [method EXCEPT ![c] = IF Method \in q.fields THEN c ELSE Nothing]
         /\ body' = [body EXCEPT ![c] = IF Body \in q.fields THEN c ELSE Nothing]
    /\ \E r \in {matcher[n] : n \in Netlocs \ {Root}} \cup {Nothing} :
         /\ nl' = [nl EXCEPT ![c] = r]
         /\ pc' = [pc EXCEPT ![c] = IF r = Nothing THEN "root" ELSE "merge"]
    /\ UNCHANGED <<hash, matcher, given, meta, root, op, loading, faults, history>>

\* mergeMethod and mergeBody.
MergeTexts(c, r, force) ==
    /\ method' = [method EXCEPT ![c] =
         IF Method \in given[r] /\ (force \/ @ = Nothing) THEN r ELSE @]
    /\ body' = [body EXCEPT ![c] = IF Body \in given[r] /\ @ = Nothing THEN r ELSE @]

\* Slip: the rule of a netloc overrides too.
PourOver(r, m, force) ==
    [k \in MetaKeys |-> IF maps[r][k] # Nothing THEN maps[r][k] ELSE m[k]]

\* The range over a rule's meta.  It is one step: a write of another goroutine
\* that meets it is before it, after it, or noticed by Go and then a Crash.
Pour(r, m, force) ==
    [k \in MetaKeys |-> IF maps[r][k] # Nothing /\ (force \/ m[k] = Nothing)
                          THEN maps[r][k] ELSE m[k]]

\* mergeMeta.  A request without meta gets the rule's map, unless that is empty
\* too; "_replace_" in a request keeps the keys of its netloc's rule out, and is
\* taken away.
MergeMeta(c, r, force) ==
    LET m == maps[meta[c]]
        bare == [m EXCEPT ![Replace] = Nothing]
    IN  \/ /\ Present(meta[c]) = {}
           /\ meta' = [meta EXCEPT ![c] = IF Present(r) = {} THEN @ ELSE r]
           /\ UNCHANGED maps
        \/ /\ Replace \in Present(meta[c])
           /\ maps' = [maps EXCEPT ![meta[c]] = IF force THEN Pour(r, bare, TRUE) ELSE bare]
           /\ UNCHANGED meta
        \/ /\ Present(meta[c]) # {} /\ Replace \notin Present(meta[c])
           /\ maps' = [maps EXCEPT ![meta[c]] = Pour(r, m, force)]
           /\ UNCHANGED meta

Merge(c) ==
    /\ pc[c] = "merge"
    /\ pc' = [pc EXCEPT ![c] = "root"]
    /\ MergeTexts(c, nl[c], FALSE)
    /\ MergeMeta(c, nl[c], FALSE)
    /\ UNCHANGED <<hash, matcher, given, own, nl, root, op, loading, faults, history>>

\* Wrap fetches the root's rule and merges it.
MergeRoot(c) ==
    /\ pc[c] = "root"
    /\ pc' = [pc EXCEPT ![c] = "answer"]
    /\ root' = [root EXCEPT ![c] = matcher[Root]]
    /\ IF matcher[Root] = Nothing
         THEN UNCHANGED <<maps, meta, method, body>>
         ELSE MergeTexts(c, matcher[Root], TRUE) /\ MergeMeta(c, matcher[Root], TRUE)
    /\ UNCHANGED <<hash, matcher, given, own, nl, op, loading, faults, history>>

\* Dequeue writes the time into the request's meta, View and TryRequestConfig do
\* not; the response is written, and the request is gone.
Respond(c) ==
    /\ pc[c] = "answer"
    /\ pc' = [pc EXCEPT ![c] = "idle"]
    /\ own' = [own EXCEPT ![c] = {}]
    /\ \E dequeued \in {FALSE, (Enqtime \in own[c])} :
         maps' = [maps EXCEPT ![meta[c]][Deqtime] = IF dequeued THEN c ELSE @, ![c] = Empty]
    /\ meta' = [meta EXCEPT ![c] = c]
    /\ nl' = [nl EXCEPT ![c] = Nothing]
    /\ root' = [root EXCEPT ![c] = Nothing]
    /\ method' = [method EXCEPT ![c] = Nothing]
    /\ body' = [body EXCEPT ![c] = Nothing]
    /\ UNCHANGED <<hash, matcher, given, op, loading, faults, history>>

\* The process dies and starts again, as Go makes it when it notices that a map
\* is used by two goroutines of which one writes.  Only Redis keeps anything.
Crash ==
    /\ Fault
    /\ pc' = ToAll("idle") /\ own' = ToAll({})
    /\ nl' = ToAll(Nothing) /\ root' = ToAll(Nothing)
    /\ method' = ToAll(Nothing) /\ body' = ToAll(Nothing)
    /\ meta' = [c \in Clients |-> c]
    /\ maps' = [o \in Owners |-> Empty]
    /\ matcher' = [n \in Netlocs |-> Nothing]
    /\ op' = NoOp
    /\ phase' = "load" /\ nlc' = Nothing
    /\ unread' = Stored \cup Strays
    /\ roots' = {}
    /\ UNCHANGED <<hash, given, added, acked, answer>>

-----------------------------------------------------------------------------
Next ==
    \/ \E n \in Netlocs : LoadPair(n) \/ Add(n) \/ Delete(n)
    \/ \E r \in Strays : LoadStray(r)
    \/ LoadPage \/ LoadEnd \/ Save \/ AddApply \/ DeleteApply \/ Crash
    \/ \E c \in Clients :
         \/ Begin(c) \/ Merge(c) \/ MergeRoot(c) \/ Respond(c)

Spec == Init /\ [][Next]_vars

-----------------------------------------------------------------------------
(* Properties.                                                              *)

Wrapped(c) == pc[c] = "answer"

\* The fields that the rule of a request's netloc, or of the root, came with.
Gave(r) == IF r = Nothing THEN {} ELSE given[r]

\* Method and body of a wrapped request: the root's rule overrides a method,
\* and fills in a body after the netloc's rule did.
TextsRight(c) ==
    /\ method[c] = IF Method \in Gave(root[c])    THEN root[c]
                   ELSE IF Method \in own[c]      THEN c
                   ELSE IF Method \in Gave(nl[c]) THEN nl[c]
                   ELSE Nothing
    /\ body[c] = IF Body \in own[c]             THEN c
                 ELSE IF Body \in Gave(nl[c])   THEN nl[c]
                 ELSE IF Body \in Gave(root[c]) THEN root[c]
                 ELSE Nothing

\* A request that came with meta, as every one from a queue, leaves with a map of
\* its own in which the root overrides, its own values are kept, and the rule of
\* its netloc fills in the rest, unless the request says "_replace_".  What roots
\* left in the netloc's rule is the one exception.
OwnMetaRight(c) ==
    own[c] \cap (Keys \cup {Enqtime}) # {} =>
        \A k \in Keys :
            LET v == maps[meta[c]][k]
            IN  IF k \in Gave(root[c])   THEN v = root[c]
                ELSE IF k \in own[c]       THEN v = c
                ELSE IF Replace \in own[c] THEN v = Nothing
                ELSE \/ v \in roots
                     \/ v = IF k \in Gave(nl[c]) THEN nl[c] ELSE Nothing

\* However wraps, changes of rules and restarts interleave, a wrapped request is
\* the merge of what it came with, its netloc's rule and the root's.
WrapsRight == \A c \in Clients : Wrapped(c) => TextsRight(c) /\ OwnMetaRight(c)

\* Requests and rules share maps, yet nothing of a request reaches a rule, neither
\* its values nor its times, no rule shows up in another netloc's, except for the
\* root's, and a rule loses none of its keys but "_replace_".  It rests on
\* enqueue, which leaves no request without meta, and on each shared map being
\* handed out with nothing but the root's values written to it.
RulesTraceable ==
    \A r \in Rules : Present(r) # {} =>
        /\ \A k \in Keys : maps[r][k] \in roots \cup (IF k \in given[r] THEN {r} ELSE {Nothing})
        /\ maps[r][Replace] \in roots \cup {r, Nothing}
        /\ maps[r][Enqtime] = Nothing /\ maps[r][Deqtime] = Nothing

\* What an Add or Delete left whose answer names the rule is what Redis has and what
\* requests are wrapped with, also after a restart, until another call on the netloc
\* begins; a rule under a key that is no netloc may come instead of one that was
\* loaded just before it.  Of an Add that is answered 200 without a body nothing of
\* the kind is true: it may have been saved or not, and is not applied.
AckedRulesApply ==
    phase = "up" =>
        \A n \in Settled :
            /\ hash[n] = acked[n]
            /\ \/ matcher[n] = acked[n]
               \/ matcher[n] \in Strays
               \/ n = Root /\ acked[n] = Nothing /\ matcher[n] = Default

=============================================================================
