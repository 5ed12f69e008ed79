--------------------------- MODULE GuardedConfig ----------------------------
(***************************************************************************)
(* The online configuration and the guard that enforces one of its keys.   *)
(* RedisConfig.SetConfigs saves a change to Redis, then applies it to the  *)
(* process's configuration key by key and publishes each key on the        *)
(* message bus; the bus's goroutine hands the messages to                  *)
(* Guard.updateLimit one after another.  A task polls the memory that      *)
(* Redis uses.  Requests are admitted by what the guard has in memory.     *)
(***************************************************************************)
EXTENDS Integers, Sequences, FiniteSets

CONSTANTS
    Keys,        \* the online keys
    Limit,       \* "limit.redis.memory"
    Values,      \* values of a key
    Default,     \* value of every key in a process without an online configuration
    Setters,     \* goroutines that serve a change of the configuration
    Nothing,     \* no value: a key that Redis does not have, a reading not taken
    QueueSize,   \* size of a handler's queue on the message bus, 1024 in the code
    MaxUsed,     \* bound: memory that Redis uses
    MaxFaults,   \* bound: failed Redis commands
    MaxCrashes   \* bound: crashes of the process

ASSUME ConfigAssumption ==
    /\ Limit \in Keys
    /\ Values \subseteq Nat
    /\ Default \in Values
    /\ Nothing \notin Values \cup Nat \cup [Keys -> Values]
    /\ QueueSize \in Nat \ {0}
    /\ MaxUsed \in Nat
    /\ MaxFaults \in Nat
    /\ MaxCrashes \in Nat

VARIABLES
    stored,    \* Redis: the online configuration
    used,      \* Redis: the memory it uses
    conf,      \* Serv.conf
    pc,        \* where each setter is in SetConfigs
    call,      \* what a setter changes, what it has still to apply, and the key at hand
    queue,     \* messages to updateLimit: keys with values, oldest first
    max,       \* Guard.maxRedisMemory
    memory,    \* Guard.redisMemory
    reading,   \* what the polling task has read and not yet told the guard
    phase,     \* the service that starts next, or "up"
    faults,    \* failed Redis commands so far
    crashes,   \* crashes so far
    acked,     \* history: the value of each key in the last change that was answered
    doubtful   \* history: keys of changes that were begun since and not answered

config  == <<conf, pc, call>>
guard   == <<max, memory, reading>>
budget  == <<faults, crashes>>
history == <<acked, doubtful>>
vars == <<stored, used, config, queue, guard, phase, budget, history>>

NoCall == [kv |-> [k \in {} |-> Default], left |-> {}, at |-> Nothing]
Message == [key : Keys, value : Values]

TypeOK ==
    /\ stored \in [Keys -> Values] \cup {Nothing}
    /\ used \in 0..MaxUsed
    /\ conf \in [Keys -> Values]
    /\ pc \in [Setters -> {"idle", "save", "apply", "publish"}]
    /\ DOMAIN call = Setters
    /\ \A p \in Setters :
         /\ call[p].kv \in UNION {[ks -> Values] : ks \in SUBSET Keys}
         /\ call[p].left \subseteq DOMAIN call[p].kv
         /\ call[p].at \in call[p].left \cup {Nothing}
    /\ queue \in Seq(Message) /\ Len(queue) <= QueueSize
    /\ max \in Values \cup {0}
    /\ memory \in 0..MaxUsed
    /\ reading \in 0..MaxUsed \cup {Nothing}
    /\ phase \in {"config", "guard", "up"}
    /\ faults \in 0..MaxFaults
    /\ crashes \in 0..MaxCrashes
    /\ acked \in [Keys -> Values]
    /\ doubtful \subseteq Keys

-----------------------------------------------------------------------------
(* SetConfigs.  All of it runs under RedisConfig's lock.                    *)

Locked == \E p \in Setters : pc[p] # "idle"

\* The keys whose values differ from the process's; a call with a key that is
\* not online, or a value of another type, is refused and changes nothing.
Changed(kv) == {k \in DOMAIN kv : kv[k] # conf[k]}

SetConfigs(p) ==
    /\ phase = "up"
    /\ ~Locked
    /\ \E ks \in SUBSET Keys : \E kv \in [ks -> Values] :
         /\ Changed(kv) # {}
         /\ call' = [call EXCEPT ![p] = [kv   |-> [k \in Changed(kv) |-> kv[k]],
                                         left |-> Changed(kv),
                                         at   |-> Nothing]]
         /\ doubtful' = doubtful \cup Changed(kv)
    /\ pc' = [pc EXCEPT ![p] = "save"]
    /\ UNCHANGED <<stored, used, conf, queue, guard, phase, budget, acked>>

\* Slip: only what changes is saved, the other keys as they were at the start.
SavedChangeOnly(kv) == [k \in Keys |-> IF k \in DOMAIN kv THEN kv[k] ELSE Default]

\* What save writes: every online key, changed or not.
Saved(kv) == [k \in Keys |-> IF k \in DOMAIN kv THEN kv[k] ELSE conf[k]]

Fault == faults < MaxFaults /\ faults' = faults + 1 /\ UNCHANGED crashes

\* Slip: a save that failed leaves the lock taken.
SaveFailsLocked(p) ==
    /\ stored' \in {stored, Saved(call[p].kv)}
    /\ pc' = [pc EXCEPT ![p] = "apply"]
    /\ call' = [call EXCEPT ![p] = NoCall]

\* The command fails, or only its reply is lost; the caller gets the error.
SaveFails(p) ==
    /\ stored' \in {stored, Saved(call[p].kv)}
    /\ pc' = [pc EXCEPT ![p] = "idle"]
    /\ call' = [call EXCEPT ![p] = NoCall]

SaveOk(p) ==
    /\ stored' = Saved(call[p].kv)
    /\ pc' = [pc EXCEPT ![p] = "apply"]
    /\ UNCHANGED call

Save(p) ==
    /\ pc[p] = "save"
    /\ \/ SaveOk(p) /\ UNCHANGED budget
       \/ Fault /\ SaveFails(p)
    /\ UNCHANGED <<used, conf, queue, guard, phase, history>>

\* update, in the order of a range over a map.
Apply(p) ==
    /\ pc[p] = "apply"
    /\ \E k \in call[p].left :
         /\ conf' = [conf EXCEPT ![k] = call[p].kv[k]]
         /\ call' = [call EXCEPT ![p].at = k]
    /\ pc' = [pc EXCEPT ![p] = "publish"]
    /\ UNCHANGED <<stored, used, queue, guard, phase, budget, history>>

\* The caller gets its answer when the last key is published.
Answered(p) ==
    IF call[p].left = {call[p].at}
    THEN /\ pc' = [pc EXCEPT ![p] = "idle"]
         /\ call' = [call EXCEPT ![p] = NoCall]
         /\ acked' = [k \in Keys |-> IF k \in DOMAIN call[p].kv THEN call[p].kv[k] ELSE acked[k]]
         /\ doubtful' = doubtful \ DOMAIN call[p].kv
    ELSE /\ pc' = [pc EXCEPT ![p] = "apply"]
         /\ call' = [call EXCEPT ![p].left = @ \ {call[p].at}, ![p].at = Nothing]
         /\ UNCHANGED history

Published(p) == [key |-> call[p].at, value |-> conf[call[p].at]]

\* Slip: publishing does not wait for room.
PublishAnyway(p) ==
    /\ pc[p] = "publish"
    /\ queue' = Append(queue, Published(p))
    /\ Answered(p)
    /\ UNCHANGED <<stored, used, conf, guard, phase, budget>>

\* Publish waits while the handler's queue is full.
Publish(p) ==
    /\ pc[p] = "publish"
    /\ Len(queue) < QueueSize
    /\ queue' = Append(queue, Published(p))
    /\ Answered(p)
    /\ UNCHANGED <<stored, used, conf, guard, phase, budget>>

-----------------------------------------------------------------------------
(* The guard.                                                               *)

\* Slip: the key is not looked at.
LimitAfterAny(message) == message.value

\* The limit after a message to updateLimit.
LimitAfter(message) == IF message.key = Limit THEN message.value ELSE max

UpdateLimit ==
    /\ phase = "up"
    /\ queue # <<>>
    /\ max' = LimitAfter(Head(queue))
    /\ queue' = Tail(queue)
    /\ UNCHANGED <<stored, used, config, memory, reading, phase, budget, history>>

\* The task asks Redis for the memory it uses.  An error leaves everything as
\* it is, and the task asks again.
PollRead ==
    /\ phase = "up"
    /\ reading = Nothing
    /\ reading' = used
    /\ UNCHANGED <<stored, used, config, queue, max, memory, phase, budget, history>>

\* Slip: only a higher reading is told.
PollTellPeak ==
    /\ reading # Nothing
    /\ memory' = IF reading > memory THEN reading ELSE memory
    /\ reading' = Nothing
    /\ UNCHANGED <<stored, used, config, queue, max, phase, budget, history>>

\* updateRedisMemory.
PollTell ==
    /\ reading # Nothing
    /\ memory' = reading
    /\ reading' = Nothing
    /\ UNCHANGED <<stored, used, config, queue, max, phase, budget, history>>

\* Guard: is a request admitted?
Admits == ~(memory > max)

-----------------------------------------------------------------------------
(* Start, crash and Redis itself.                                           *)

\* RedisConfig.OnStart: without an online configuration the process keeps its own.
LoadConfig ==
    /\ phase = "config"
    /\ conf' = IF stored = Nothing THEN conf ELSE stored
    /\ phase' = "guard"
    /\ UNCHANGED <<stored, used, pc, call, queue, guard, budget, history>>

\* Guard.OnStart; the runner starts it after RedisConfig, and HTTP after it.
StartGuard ==
    /\ phase = "guard"
    /\ max' = conf[Limit]
    /\ phase' = "up"
    /\ UNCHANGED <<stored, used, config, queue, memory, reading, budget, history>>

\* The process ends and is started again.
Crash ==
    /\ crashes < MaxCrashes
    /\ crashes' = crashes + 1
    /\ conf' = [k \in Keys |-> Default]
    /\ pc' = [p \in Setters |-> "idle"]
    /\ call' = [p \in Setters |-> NoCall]
    /\ queue' = <<>>
    /\ max' = 0 /\ memory' = 0 /\ reading' = Nothing
    /\ phase' = "config"
    /\ UNCHANGED <<stored, used, faults, history>>

\* Requests come and go.
MemoryMoves ==
    /\ used' \in 0..MaxUsed
    /\ UNCHANGED <<stored, config, queue, guard, phase, budget, history>>

-----------------------------------------------------------------------------
Init ==
    /\ stored = Nothing
    /\ used = 0
    /\ conf = [k \in Keys |-> Default]
    /\ pc = [p \in Setters |-> "idle"]
    /\ call = [p \in Setters |-> NoCall]
    /\ queue = <<>>
    /\ max = 0 /\ memory = 0 /\ reading = Nothing
    /\ phase = "config"
    /\ faults = 0 /\ crashes = 0
    /\ acked = [k \in Keys |-> Default]
    /\ doubtful = {}

Set(p) == SetConfigs(p) \/ Save(p) \/ Apply(p) \/ Publish(p)
Poll == PollRead \/ PollTell
Start == LoadConfig \/ StartGuard

Next ==
    \/ \E p \in Setters : Set(p)
    \/ UpdateLimit
    \/ Poll
    \/ Start
    \/ Crash
    \/ MemoryMoves

Spec == Init /\ [][Next]_vars

\* Goroutines that are inside a call, the bus's goroutine and the polling task
\* are scheduled, and not every answer of Redis to the task is an error.
Fairness ==
    /\ \A p \in Setters : WF_vars(pc[p] # "idle" /\ Set(p))
    /\ WF_vars(UpdateLimit)
    /\ WF_vars(Poll)
    /\ WF_vars(Start)

FairSpec == Spec /\ Fairness

-----------------------------------------------------------------------------
(* Properties. *)

\* The messages about the limit that are on their way to the guard.
AboutLimit == {i \in 1..Len(queue) : queue[i].key = Limit}

\* A caller has changed the limit and has still to publish it.
LimitUnpublished == \E p \in Setters : pc[p] = "publish" /\ call[p].at = Limit

\* The guard enforces the configured limit as soon as nothing is under way, and
\* what is under way ends with the configured limit: no later change is
\* overtaken by an earlier one.
LimitFollows ==
    phase = "up" /\ ~LimitUnpublished =>
        \/ AboutLimit = {} /\ max = conf[Limit]
        \/ \E i \in AboutLimit : /\ \A j \in AboutLimit : j <= i
                                 /\ queue[i].value = conf[Limit]

\* A change that was answered stays in force, and survives crashes, until a later
\* change of the same key.
AckedSurvives ==
    \A k \in Keys \ doubtful :
        /\ phase # "config" => conf[k] = acked[k]
        /\ IF stored = Nothing THEN acked[k] = Default ELSE stored[k] = acked[k]

\* A call that changes the configuration returns.
SetsEnd == \A p \in Setters : pc[p] # "idle" ~> pc[p] = "idle"

\* Once the memory and the limit stay as they are, requests are admitted exactly
\* when the memory is within the limit.
GuardTracks ==
    \A u \in 0..MaxUsed, v \in Values :
        <>[](used = u /\ conf[Limit] = v) => <>[](Admits <=> u <= v)

=============================================================================
