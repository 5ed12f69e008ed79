------------------------- MODULE GuardedConfigProofs -------------------------
(***************************************************************************)
(* Proofs about GuardedConfig, for any keys, values and callers and any    *)
(* size of the bus's queue: an answered change survives, and the guard's   *)
(* limit follows the configuration.                                        *)
(***************************************************************************)
EXTENDS GuardedConfig, TLAPS

-----------------------------------------------------------------------------
(* The inductive invariant. *)

\* A call that changes some keys.
Call == [kv : UNION {[ks -> Values] : ks \in SUBSET Keys}, left : SUBSET Keys,
         at : Keys \cup {Nothing}]

Types ==
    /\ stored \in [Keys -> Values] \cup {Nothing}
    /\ used \in 0..MaxUsed
    /\ conf \in [Keys -> Values]
    /\ pc \in [Setters -> {"idle", "save", "apply", "publish"}]
    /\ call \in [Setters -> Call]
    /\ queue \in Seq(Message) /\ Len(queue) <= QueueSize
    /\ max \in Values \cup {0}
    /\ memory \in 0..MaxUsed
    /\ reading \in 0..MaxUsed \cup {Nothing}
    /\ phase \in {"config", "guard", "up"}
    /\ faults \in 0..MaxFaults
    /\ crashes \in 0..MaxCrashes
    /\ acked \in [Keys -> Values]
    /\ doubtful \subseteq Keys

\* A caller of SetConfigs at its step: what it changes is doubtful, saved, and, but
\* for what is left, applied.
CallerAt(p) ==
    /\ call[p].left \subseteq DOMAIN call[p].kv
    /\ call[p].at \in call[p].left \cup {Nothing}
    /\ pc[p] # "idle" => DOMAIN call[p].kv \subseteq doubtful
    /\ pc[p] = "save" => call[p].left = DOMAIN call[p].kv
    /\ pc[p] \in {"apply", "publish"} =>
         /\ stored # Nothing
         /\ \A k \in DOMAIN call[p].kv : stored[k] = call[p].kv[k]
         /\ \A k \in DOMAIN call[p].kv \ call[p].left : conf[k] = call[p].kv[k]
    /\ pc[p] = "publish" =>
         /\ call[p].at \in call[p].left
         /\ conf[call[p].at] = call[p].kv[call[p].at]

\* Callers exclude each other, and nobody calls before the services are up.
Callers ==
    /\ \A p \in Setters : CallerAt(p)
    /\ \A p, r \in Setters : pc[p] # "idle" /\ pc[r] # "idle" => p = r
    /\ phase # "up" => queue = <<>> /\ \A p \in Setters : pc[p] = "idle"
    /\ phase = "config" => conf = [k \in Keys |-> Default]

IInv == Types /\ Callers /\ AckedSurvives /\ LimitFollows

\* Types and callers give every type of the run.
LEMMA TypesOK == Types /\ Callers => TypeOK
BY DEF Types, Callers, CallerAt, TypeOK, Call

\* A caller with nothing to do.
LEMMA NoCallType == NoCall \in Call /\ NoCall.left = {} /\ NoCall.at = Nothing /\ DOMAIN NoCall.kv = {}
<1>1. NoCall.kv \in [{} -> Values] /\ {} \in SUBSET Keys
  BY DEF NoCall
<1> QED BY <1>1 DEF NoCall, Call

\* A function from some of the keys.
LEMMA KvType ==
    ASSUME Types, NEW p \in Setters
    PROVE  /\ call[p] \in Call
           /\ DOMAIN call[p].kv \subseteq Keys
           /\ \A k \in DOMAIN call[p].kv : call[p].kv[k] \in Values
BY DEF Types, Call

-----------------------------------------------------------------------------
(* The steps of a caller. *)

\* Nobody is inside SetConfigs: a call begins, and its keys become doubtful.
LEMMA SetConfigsStep ==
    ASSUME IInv, NEW p \in Setters, SetConfigs(p)
    PROVE  IInv'
<1>1. Types /\ Callers /\ AckedSurvives /\ LimitFollows
  BY DEF IInv
<1>2. PICK ks \in SUBSET Keys : \E kv \in [ks -> Values] :
         /\ call' = [call EXCEPT ![p] = [kv   |-> [k \in Changed(kv) |-> kv[k]],
                                         left |-> Changed(kv),
                                         at   |-> Nothing]]
         /\ doubtful' = doubtful \cup Changed(kv)
  BY DEF SetConfigs
<1>3. PICK kv \in [ks -> Values] :
         /\ call' = [call EXCEPT ![p] = [kv   |-> [k \in Changed(kv) |-> kv[k]],
                                         left |-> Changed(kv),
                                         at   |-> Nothing]]
         /\ doubtful' = doubtful \cup Changed(kv)
  BY <1>2
<1> DEFINE new == [kv |-> [k \in Changed(kv) |-> kv[k]], left |-> Changed(kv), at |-> Nothing]
<1>4. Changed(kv) \subseteq ks /\ Changed(kv) \subseteq Keys
  BY DEF Changed
<1>5. new.kv \in [Changed(kv) -> Values]
  BY <1>4
<1>6. new \in Call
  BY <1>4, <1>5 DEF Call
<1>7. new.left = Changed(kv) /\ DOMAIN new.kv = Changed(kv) /\ new.at = Nothing
  OBVIOUS
<1>8. call' = [call EXCEPT ![p] = new]
  BY <1>3
<1> HIDE DEF new
<1>9. /\ phase = "up" /\ \A r \in Setters : pc[r] = "idle"
      /\ pc' = [pc EXCEPT ![p] = "save"]
      /\ UNCHANGED <<stored, used, conf, queue, max, memory, reading, phase, faults, crashes, acked>>
  BY DEF SetConfigs, Locked, guard, budget
<1>10. Types'
  BY <1>1, <1>3, <1>4, <1>6, <1>8, <1>9 DEF Types
<1>11. Callers'
  BY <1>1, <1>3, <1>7, <1>8, <1>9 DEF Types, Callers, CallerAt
<1>12. AckedSurvives'
  BY <1>1, <1>3, <1>9 DEF AckedSurvives
<1>13. LimitFollows'
  <2>1. ~LimitUnpublished /\ ~LimitUnpublished'
    BY <1>1, <1>9 DEF LimitUnpublished, Types
  <2> QED BY <1>1, <1>9, <2>1 DEF LimitFollows, AboutLimit
<1> QED BY <1>10, <1>11, <1>12, <1>13 DEF IInv

\* What a save writes.
LEMMA SavedType ==
    ASSUME Types, NEW p \in Setters
    PROVE  /\ Saved(call[p].kv) \in [Keys -> Values]
           /\ Saved(call[p].kv) # Nothing
           /\ \A k \in DOMAIN call[p].kv : Saved(call[p].kv)[k] = call[p].kv[k]
           /\ \A k \in Keys \ DOMAIN call[p].kv : Saved(call[p].kv)[k] = conf[k]
<1>1. Saved(call[p].kv) \in [Keys -> Values]
  BY KvType DEF Saved, Types
<1> QED BY <1>1, KvType, ConfigAssumption DEF Saved

\* A save that fails leaves Redis with the old or the new configuration, and the
\* keys of the call doubtful.
LEMMA SaveStep ==
    ASSUME IInv, NEW p \in Setters, Save(p)
    PROVE  IInv'
<1>1. Types /\ Callers /\ AckedSurvives /\ LimitFollows
  BY DEF IInv
<1>2. /\ pc[p] = "save" /\ \A r \in Setters : r # p => pc[r] = "idle"
      /\ DOMAIN call[p].kv \subseteq doubtful
      /\ phase = "up"
  BY <1>1 DEF Save, Callers, CallerAt
<1>3. UNCHANGED <<used, conf, queue, max, memory, reading, phase, acked, doubtful>>
  BY DEF Save, guard, history
<1>4. faults' \in 0..MaxFaults /\ crashes' \in 0..MaxCrashes
  BY <1>1, ConfigAssumption DEF Save, Fault, budget, Types
<1>5. stored' \in {stored, Saved(call[p].kv)}
  BY DEF Save, SaveOk, SaveFails
<1>6. /\ pc' \in {[pc EXCEPT ![p] = "idle"], [pc EXCEPT ![p] = "apply"]}
      /\ call' \in {call, [call EXCEPT ![p] = NoCall]}
      /\ pc'[p] = "apply" => call' = call /\ stored' = Saved(call[p].kv)
  BY <1>1 DEF Save, SaveOk, SaveFails, Types
<1>7. Types'
  BY <1>1, <1>3, <1>4, <1>5, <1>6, SavedType, NoCallType DEF Types
<1>8. AckedSurvives'
  BY <1>1, <1>2, <1>3, <1>5, SavedType DEF AckedSurvives, Types
<1>9. \A r \in Setters : CallerAt(r)'
  <2> SUFFICES ASSUME NEW r \in Setters PROVE CallerAt(r)'
    OBVIOUS
  <2>1. CASE r = p
    <3>1. call'[p] = call[p] \/ call'[p] = NoCall
      BY <1>1, <1>6 DEF Types
    <3>2. pc'[p] \in {"idle", "apply"}
      BY <1>1, <1>6 DEF Types
    <3>3. CASE pc'[p] = "apply"
      BY <1>1, <1>2, <1>3, <1>6, <2>1, <3>3, SavedType DEF Callers, CallerAt
    <3>4. CASE pc'[p] = "idle"
      BY <1>1, <2>1, <3>1, <3>4, NoCallType DEF Callers, CallerAt
    <3> QED BY <3>2, <3>3, <3>4
  <2>2. CASE r # p
    BY <1>1, <1>2, <1>6, <2>2 DEF Callers, CallerAt, Types
  <2> QED BY <2>1, <2>2
<1>10. Callers'
  BY <1>1, <1>2, <1>3, <1>6, <1>9 DEF Callers, Types
<1>11. LimitFollows'
  <2>1. ~LimitUnpublished /\ ~LimitUnpublished'
    BY <1>1, <1>2, <1>6 DEF LimitUnpublished, Types
  <2> QED BY <1>1, <1>3, <2>1 DEF LimitFollows, AboutLimit
<1> QED BY <1>7, <1>8, <1>10, <1>11 DEF IInv

\* One key of the call reaches the process's configuration.
LEMMA ApplyStep ==
    ASSUME IInv, NEW p \in Setters, Apply(p)
    PROVE  IInv'
<1>1. Types /\ Callers /\ AckedSurvives /\ LimitFollows
  BY DEF IInv
<1>2. /\ pc[p] = "apply" /\ \A r \in Setters : r # p => pc[r] = "idle"
      /\ CallerAt(p) /\ phase = "up"
  BY <1>1 DEF Apply, Callers
<1>3. PICK k \in call[p].left : /\ conf' = [conf EXCEPT ![k] = call[p].kv[k]]
                                /\ call' = [call EXCEPT ![p].at = k]
  BY DEF Apply
<1>4. /\ pc' = [pc EXCEPT ![p] = "publish"]
      /\ UNCHANGED <<stored, used, queue, max, memory, reading, phase, faults, crashes, acked, doubtful>>
  BY DEF Apply, guard, budget, history
<1>5. k \in DOMAIN call[p].kv /\ k \in Keys /\ call[p].kv[k] \in Values /\ k \in doubtful
  BY <1>1, <1>2, <1>3, KvType DEF CallerAt
<1>6. /\ call'[p] = [call[p] EXCEPT !.at = k]
      /\ \A r \in Setters : r # p => call'[r] = call[r]
  BY <1>1, <1>3 DEF Types
<1>7. /\ call'[p].kv = call[p].kv /\ call'[p].left = call[p].left /\ call'[p].at = k
      /\ call'[p] \in Call
  BY <1>1, <1>5, <1>6, KvType DEF Call
<1>8. Types'
  BY <1>1, <1>3, <1>4, <1>5, <1>7 DEF Types
<1>9. \A r \in Setters : CallerAt(r)'
  <2>1. CallerAt(p)'
    BY <1>1, <1>2, <1>3, <1>4, <1>5, <1>7, KvType DEF CallerAt, Types
  <2>2. ASSUME NEW r \in Setters, r # p PROVE CallerAt(r)'
    BY <1>1, <1>2, <1>4, <1>6, <2>2 DEF Callers, CallerAt, Types
  <2> QED BY <2>1, <2>2
<1>10. Callers'
  BY <1>1, <1>2, <1>4, <1>9 DEF Callers, Types
<1>11. AckedSurvives'
  BY <1>1, <1>3, <1>4, <1>5 DEF AckedSurvives, Types
<1>12. LimitFollows'
  <2>1. CASE k = Limit
    <3>1. LimitUnpublished'
      BY <1>1, <1>4, <1>7, <2>1 DEF LimitUnpublished, Types
    <3> QED BY <3>1 DEF LimitFollows
  <2>2. CASE k # Limit
    <3>1. ~LimitUnpublished /\ conf'[Limit] = conf[Limit]
      BY <1>1, <1>2, <1>3, <2>2, ConfigAssumption DEF LimitUnpublished, Types
    <3> QED BY <1>1, <1>4, <3>1 DEF LimitFollows, AboutLimit
  <2> QED BY <2>1, <2>2
<1> QED BY <1>8, <1>10, <1>11, <1>12 DEF IInv

\* Messages stay in order: a new one goes to the end.
LEMMA AppendLimit ==
    ASSUME queue \in Seq(Message), NEW message \in Message, queue' = Append(queue, message)
    PROVE  AboutLimit' = AboutLimit \cup (IF message.key = Limit THEN {Len(queue) + 1} ELSE {})
BY DEF AboutLimit

\* One key is published; with the last of them the call is answered.
LEMMA PublishStep ==
    ASSUME IInv, NEW p \in Setters, Publish(p)
    PROVE  IInv'
<1>1. Types /\ Callers /\ AckedSurvives /\ LimitFollows
  BY DEF IInv
<1>2. /\ pc[p] = "publish" /\ \A r \in Setters : r # p => pc[r] = "idle"
      /\ CallerAt(p) /\ phase = "up"
  BY <1>1 DEF Publish, Callers
<1> DEFINE c == call[p]
<1>3. /\ c \in Call /\ c.left \subseteq DOMAIN c.kv /\ DOMAIN c.kv \subseteq Keys
      /\ c.at \in c.left /\ conf[c.at] = c.kv[c.at]
      /\ \A k \in DOMAIN c.kv : stored[k] = c.kv[k] /\ c.kv[k] \in Values
      /\ \A k \in DOMAIN c.kv \ c.left : conf[k] = c.kv[k]
      /\ stored # Nothing
      /\ DOMAIN c.kv \subseteq doubtful
  BY <1>1, <1>2, KvType DEF CallerAt
<1>4. /\ queue' = Append(queue, Published(p)) /\ Len(queue) < QueueSize
      /\ UNCHANGED <<stored, used, conf, max, memory, reading, phase, faults, crashes>>
  BY DEF Publish, guard, budget
<1>5. Published(p) \in Message /\ Published(p).key = c.at /\ Published(p).value = conf[c.at]
  BY <1>1, <1>3 DEF Published, Message, Types
<1>6. \/ /\ c.left = {c.at}
         /\ pc' = [pc EXCEPT ![p] = "idle"]
         /\ call' = [call EXCEPT ![p] = NoCall]
         /\ acked' = [k \in Keys |-> IF k \in DOMAIN c.kv THEN c.kv[k] ELSE acked[k]]
         /\ doubtful' = doubtful \ DOMAIN c.kv
      \/ /\ pc' = [pc EXCEPT ![p] = "apply"]
         /\ call' = [call EXCEPT ![p].left = @ \ {c.at}, ![p].at = Nothing]
         /\ UNCHANGED <<acked, doubtful>>
  BY DEF Publish, Answered, history
<1> HIDE DEF c
<1>7. /\ queue' \in Seq(Message) /\ Len(queue') <= QueueSize
  BY <1>1, <1>4, <1>5, ConfigAssumption DEF Types
<1>8. /\ call'[p] \in Call
      /\ call' = [call EXCEPT ![p] = call'[p]]
      /\ CallerAt(p)'
      /\ pc' \in {[pc EXCEPT ![p] = "idle"], [pc EXCEPT ![p] = "apply"]}
  <2>1. CASE pc' = [pc EXCEPT ![p] = "idle"] /\ call' = [call EXCEPT ![p] = NoCall]
    BY <1>1, <2>1, NoCallType DEF Types, CallerAt
  <2>2. CASE /\ pc' = [pc EXCEPT ![p] = "apply"]
             /\ call' = [call EXCEPT ![p].left = @ \ {c.at}, ![p].at = Nothing]
             /\ UNCHANGED <<acked, doubtful>>
    <3>1. call'[p] = [c EXCEPT !.left = @ \ {c.at}, !.at = Nothing]
      BY <1>1, <2>2 DEF Types, c
    <3>2. /\ call'[p].kv = c.kv /\ call'[p].left = c.left \ {c.at} /\ call'[p].at = Nothing
          /\ call'[p] \in Call
      BY <1>3, <3>1 DEF Call
    <3>3. call' = [call EXCEPT ![p] = call'[p]]
      BY <1>1, <2>2 DEF Types
    <3>4. CallerAt(p)'
      BY <1>1, <1>3, <1>4, <2>2, <3>2 DEF Types, CallerAt
    <3> QED BY <2>2, <3>2, <3>3, <3>4
  <2> QED BY <1>6, <2>1, <2>2
<1>9. acked' \in [Keys -> Values] /\ doubtful' \subseteq Keys
  BY <1>1, <1>3, <1>6 DEF Types
<1>10. Types'
  BY <1>1, <1>4, <1>7, <1>8, <1>9 DEF Types
<1>11. Callers'
  <2>1. ASSUME NEW r \in Setters, r # p PROVE CallerAt(r)'
    BY <1>1, <1>2, <1>8, <2>1 DEF Callers, CallerAt, Types
  <2> QED BY <1>1, <1>2, <1>4, <1>8, <2>1 DEF Callers, Types
<1>12. AckedSurvives'
  <2>1. CASE UNCHANGED <<acked, doubtful>>
    BY <1>1, <1>4, <2>1 DEF AckedSurvives
  <2>2. CASE /\ c.left = {c.at}
             /\ acked' = [k \in Keys |-> IF k \in DOMAIN c.kv THEN c.kv[k] ELSE acked[k]]
             /\ doubtful' = doubtful \ DOMAIN c.kv
    <3>1. \A k \in DOMAIN c.kv : conf[k] = c.kv[k]
      BY <1>3, <2>2
    <3> QED BY <1>1, <1>3, <1>4, <2>2, <3>1 DEF AckedSurvives
  <2> QED BY <1>6, <2>1, <2>2
<1>13. LimitFollows'
  <2>1. ~LimitUnpublished'
    BY <1>1, <1>2, <1>8 DEF LimitUnpublished, Types
  <2>2. Len(queue) \in Nat /\ \A i \in AboutLimit : i \in 1..Len(queue)
    BY <1>1 DEF Types, AboutLimit
  <2>3. queue'[Len(queue) + 1] = Published(p) /\ \A i \in 1..Len(queue) : queue'[i] = queue[i]
    BY <1>1, <1>4, <1>5 DEF Types
  <2>4. CASE c.at = Limit
    <3>1. AboutLimit' = AboutLimit \cup {Len(queue) + 1}
      BY <1>1, <1>4, <1>5, <2>4, AppendLimit DEF Types
    <3>2. /\ Len(queue) + 1 \in AboutLimit' /\ \A j \in AboutLimit' : j <= Len(queue) + 1
          /\ queue'[Len(queue) + 1].value = conf'[Limit]
      BY <1>4, <1>5, <2>2, <2>3, <2>4, <3>1
    <3> QED BY <3>2 DEF LimitFollows
  <2>5. CASE c.at # Limit
    <3>1. AboutLimit' = AboutLimit
      BY <1>1, <1>4, <1>5, <2>5, AppendLimit DEF Types
    <3>2. ~LimitUnpublished
      BY <1>2, <2>5 DEF LimitUnpublished, c
    <3> QED BY <1>1, <1>2, <1>4, <2>2, <2>3, <3>1, <3>2 DEF LimitFollows
  <2> QED BY <2>4, <2>5
<1> QED BY <1>10, <1>11, <1>12, <1>13 DEF IInv

-----------------------------------------------------------------------------
(* The guard, the start and the crash. *)

\* The guard takes the oldest message; the last one about the limit stays the last.
LEMMA UpdateLimitStep ==
    ASSUME IInv, UpdateLimit
    PROVE  IInv'
<1>1. Types /\ Callers /\ AckedSurvives /\ LimitFollows
  BY DEF IInv
<1>2. /\ phase = "up" /\ queue # <<>> /\ max' = LimitAfter(Head(queue)) /\ queue' = Tail(queue)
      /\ UNCHANGED <<stored, used, conf, pc, call, memory, reading, phase, faults, crashes, acked,
                     doubtful>>
  BY DEF UpdateLimit, config, budget, history
<1>3. /\ Head(queue) \in Message /\ Head(queue) = queue[1] /\ Len(queue) \in Nat /\ Len(queue) >= 1
      /\ queue' \in Seq(Message) /\ Len(queue') = Len(queue) - 1
      /\ \A i \in 1..Len(queue') : queue'[i] = queue[i + 1]
  BY <1>1, <1>2 DEF Types
<1>4. max' \in Values \cup {0}
  BY <1>1, <1>2, <1>3 DEF LimitAfter, Message, Types
<1>5. Types'
  BY <1>1, <1>2, <1>3, <1>4, ConfigAssumption DEF Types
<1>6. Callers' /\ AckedSurvives'
  BY <1>1, <1>2 DEF Callers, CallerAt, AckedSurvives
<1>7. LimitFollows'
  <2> SUFFICES ASSUME ~LimitUnpublished'
               PROVE  \/ AboutLimit' = {} /\ max' = conf'[Limit]
                      \/ \E i \in AboutLimit' : /\ \A j \in AboutLimit' : j <= i
                                                /\ queue'[i].value = conf'[Limit]
    BY DEF LimitFollows
  <2>1. ~LimitUnpublished
    BY <1>2 DEF LimitUnpublished
  <2>2. \A i \in 1..Len(queue) - 1 : i \in AboutLimit' <=> i + 1 \in AboutLimit
    BY <1>3 DEF AboutLimit
  <2>3. AboutLimit' \subseteq 1..Len(queue) - 1 /\ AboutLimit \subseteq 1..Len(queue)
    BY <1>3 DEF AboutLimit
  <2>4. CASE AboutLimit = {}
    <3>1. AboutLimit' = {}
      BY <1>3, <2>2, <2>3, <2>4
    <3>2. max = conf[Limit]
      BY <1>1, <1>2, <2>1, <2>4 DEF LimitFollows
    <3>3. queue[1].key # Limit
      BY <1>3, <2>4 DEF AboutLimit
    <3> QED BY <1>2, <1>3, <3>1, <3>2, <3>3 DEF LimitAfter
  <2>5. CASE AboutLimit # {}
    <3>1. PICK i \in AboutLimit : (\A j \in AboutLimit : j <= i) /\ queue[i].value = conf[Limit]
      BY <1>1, <1>2, <2>1, <2>5 DEF LimitFollows
    <3>2. CASE i = 1
      <4>1. AboutLimit' = {}
        BY <1>3, <2>2, <2>3, <3>1, <3>2
      <4>2. queue[1].key = Limit
        BY <3>1, <3>2 DEF AboutLimit
      <4> QED BY <1>2, <1>3, <3>1, <3>2, <4>1, <4>2 DEF LimitAfter
    <3>3. CASE i # 1
      <4>1. i - 1 \in 1..Len(queue) - 1 /\ i - 1 \in AboutLimit'
        BY <1>3, <2>2, <2>3, <3>1, <3>3
      <4>2. \A j \in AboutLimit' : j <= i - 1
        BY <1>3, <2>2, <2>3, <3>1
      <4>3. queue'[i - 1].value = conf'[Limit]
        BY <1>2, <1>3, <2>3, <3>1, <4>1
      <4> QED BY <4>1, <4>2, <4>3
    <3> QED BY <3>2, <3>3
  <2> QED BY <2>4, <2>5
<1> QED BY <1>5, <1>6, <1>7 DEF IInv

\* The configuration is loaded, and the guard takes its limit from it.
LEMMA StartStep ==
    ASSUME IInv, Start
    PROVE  IInv'
<1>1. Types /\ Callers /\ AckedSurvives
  BY DEF IInv
<1>2. CASE LoadConfig
  <2>1. /\ phase = "config" /\ phase' = "guard"
        /\ conf' = IF stored = Nothing THEN conf ELSE stored
        /\ UNCHANGED <<stored, used, pc, call, queue, max, memory, reading, faults, crashes, acked,
                       doubtful>>
    BY <1>2 DEF LoadConfig, guard, budget, history
  <2>2. Types'
    BY <1>1, <2>1 DEF Types
  <2>3. Callers'
    BY <1>1, <2>1 DEF Callers, CallerAt
  <2>4. AckedSurvives'
    BY <1>1, <2>1 DEF AckedSurvives, Callers
  <2>5. LimitFollows'
    BY <2>1 DEF LimitFollows
  <2> QED BY <2>2, <2>3, <2>4, <2>5 DEF IInv
<1>3. CASE StartGuard
  <2>1. /\ phase = "guard" /\ phase' = "up" /\ max' = conf[Limit]
        /\ UNCHANGED <<stored, used, conf, pc, call, queue, memory, reading, faults, crashes, acked,
                       doubtful>>
    BY <1>3 DEF StartGuard, config, budget, history
  <2>2. Types'
    BY <1>1, <2>1, ConfigAssumption DEF Types
  <2>3. Callers' /\ AckedSurvives'
    BY <1>1, <2>1 DEF Callers, CallerAt, AckedSurvives
  <2>4. queue' = <<>> /\ AboutLimit' = {}
    BY <1>1, <2>1 DEF Callers, AboutLimit
  <2>5. LimitFollows'
    BY <2>1, <2>4 DEF LimitFollows
  <2> QED BY <2>2, <2>3, <2>5 DEF IInv
<1> QED BY <1>2, <1>3 DEF Start

\* What a process forgets when it ends.
LEMMA CrashStep ==
    ASSUME IInv, Crash
    PROVE  IInv'
<1>1. Types /\ AckedSurvives
  BY DEF IInv
<1>2. Types'
  BY <1>1, NoCallType, ConfigAssumption DEF Types, Crash, history
<1>3. Callers'
  BY NoCallType DEF Callers, CallerAt, Crash
<1>4. AckedSurvives' /\ LimitFollows'
  BY <1>1 DEF AckedSurvives, LimitFollows, Crash, history
<1> QED BY <1>2, <1>3, <1>4 DEF IInv

\* The poll and the memory touch nothing but the guard's reading.
LEMMA MemoryStep ==
    ASSUME IInv, Poll \/ MemoryMoves \/ UNCHANGED vars
    PROVE  IInv'
<1>1. Types /\ Callers /\ AckedSurvives /\ LimitFollows
  BY DEF IInv
<1>2. /\ UNCHANGED <<stored, conf, pc, call, queue, max, phase, faults, crashes, acked, doubtful>>
      /\ used' \in 0..MaxUsed /\ memory' \in 0..MaxUsed /\ reading' \in 0..MaxUsed \cup {Nothing}
  BY <1>1 DEF Types, Poll, PollRead, PollTell, MemoryMoves, vars, config, guard, budget, history
<1> QED BY <1>1, <1>2 DEF IInv, Types, Callers, CallerAt, AckedSurvives, LimitFollows, AboutLimit,
                          LimitUnpublished

-----------------------------------------------------------------------------
(* The theorems. *)

\* IInv holds initially and every step keeps it.
LEMMA Invariant == Spec => []IInv
<1>1. Init => IInv
  <2> SUFFICES ASSUME Init PROVE IInv
    OBVIOUS
  <2>1. Types
    BY NoCallType, ConfigAssumption DEF Init, Types
  <2>2. Callers
    BY NoCallType DEF Init, Callers, CallerAt
  <2>3. AckedSurvives /\ LimitFollows
    BY DEF Init, AckedSurvives, LimitFollows
  <2> QED BY <2>1, <2>2, <2>3 DEF IInv
<1>2. IInv /\ [Next]_vars => IInv'
  BY SetConfigsStep, SaveStep, ApplyStep, PublishStep, UpdateLimitStep, StartStep, CrashStep,
     MemoryStep DEF Next, Set
<1> QED BY <1>1, <1>2, PTL DEF Spec

\* The types hold; the bus's queue stays within its size.
THEOREM TypeCorrect == Spec => []TypeOK
<1>1. IInv => TypeOK
  BY TypesOK DEF IInv
<1> QED BY <1>1, Invariant, PTL

\* A change that was answered stays in force, and survives crashes, until a later
\* change of the same key is begun.
THEOREM AckedCorrect == Spec => []AckedSurvives
<1>1. IInv => AckedSurvives
  BY DEF IInv
<1> QED BY <1>1, Invariant, PTL

\* The guard's limit, or the last message on its way, is the configured limit,
\* except between a change of the limit and its message.
THEOREM LimitCorrect == Spec => []LimitFollows
<1>1. IInv => LimitFollows
  BY DEF IInv
<1> QED BY <1>1, Invariant, PTL

=============================================================================
