----------------------------- MODULE QueueProofs -----------------------------
(***************************************************************************)
(* Proofs about Queue, for any sets of producers and consumers, any limit  *)
(* and any number of failures.                                             *)
(***************************************************************************)
EXTENDS Queue, FiniteSetTheorems, TLAPS

Procs == Producers \cup Consumers

-----------------------------------------------------------------------------
(* Types. *)

\* No step of enqueue breaks a type.
LEMMA EnqueueType ==
    ASSUME TypeOK, NEW p \in Producers, Enqueue(p)
    PROVE  TypeOK'
<1> USE QueueAssumption DEF Goto, TypeOK, ProducerPC, ConsumerPC
<1>1. CASE EnqBegin(p)
  BY <1>1 DEF EnqBegin, redis, history
<1>2. CASE EnqPush(p)
  BY <1>2 DEF EnqPush, Fault, counters
<1>3. CASE EnqCount(p)
  BY <1>3 DEF EnqCount, redis, counters, history
<1>4. CASE EnqGrow(p)
  BY <1>4 DEF EnqGrow, redis, counters, history
<1>5. CASE EnqLeave(p)
  BY <1>5 DEF EnqLeave, redis, history
<1> QED BY <1>1, <1>2, <1>3, <1>4, <1>5 DEF Enqueue

\* A recount, successful or not, keeps the type of everything but pc.
LEMMA RecountType ==
    ASSUME TypeOK, Recount \/ RecountFails
    PROVE  /\ rlist' \in Nat /\ rpaused' \in BOOLEAN /\ status' \in Statuses
           /\ qsize' \in Int /\ queuing' \in Int /\ dequeuing' \in Int
           /\ requestNum' \in Int /\ ticket' \in [Consumers -> Int]
           /\ lostPush' \in Nat /\ lostPop' \in Nat /\ faults' \in Nat
<1>1. CASE Recount
  BY <1>1 DEF Recount, TypeOK, Statuses, redis, counters
<1>2. CASE RecountFails
  BY <1>2 DEF RecountFails, Fault, TypeOK, redis, counters, history
<1> QED BY <1>1, <1>2

\* No step of Dequeue or of its trailing sync breaks a type.
LEMMA DequeueType ==
    ASSUME TypeOK, NEW c \in Consumers, Dequeue(c)
    PROVE  TypeOK'
<1> USE QueueAssumption DEF Goto, ProducerPC, ConsumerPC
<1>1. CASE DeqBegin(c)
  BY <1>1 DEF DeqBegin, redis, history, TypeOK
<1>2. CASE DeqAdmit(c)
  BY <1>2 DEF DeqAdmit, redis, counters, history, TypeOK
<1>3. CASE DeqPop(c)
  BY <1>3 DEF DeqPop, Fault, counters, TypeOK
<1>4. CASE DeqCount(c)
  BY <1>4 DEF DeqCount, redis, counters, history, TypeOK
<1>5. CASE DeqShrink(c)
  BY <1>5 DEF DeqShrink, redis, counters, history, TypeOK
<1>6. CASE DeqLeave(c)
  BY <1>6 DEF DeqLeave, redis, history, TypeOK
<1>7. CASE DeqSync(c)
  <2>1. Recount \/ RecountFails
    BY <1>7 DEF DeqSync
  <2>2. /\ pc' \in [Procs -> ProducerPC \cup ConsumerPC]
        /\ \A p \in Producers : pc'[p] \in ProducerPC
        /\ \A d \in Consumers : pc'[d] \in ConsumerPC
    BY <1>7 DEF DeqSync, TypeOK, Procs
  <2> QED BY <2>1, <2>2, RecountType DEF TypeOK, Procs
<1> QED BY <1>1, <1>2, <1>3, <1>4, <1>5, <1>6, <1>7 DEF Dequeue

\* Types are inductive.
LEMMA TypeStep == TypeOK /\ [Next]_vars => TypeOK'
<1> SUFFICES ASSUME TypeOK, [Next]_vars PROVE TypeOK'
  OBVIOUS
<1>1. ASSUME NEW p \in Producers, Enqueue(p) PROVE TypeOK'
  BY <1>1, EnqueueType
<1>2. ASSUME NEW c \in Consumers, Dequeue(c) PROVE TypeOK'
  BY <1>2, DequeueType
<1>3. CASE Sync
  <2>1. Recount \/ RecountFails
    BY <1>3 DEF Sync
  <2> QED BY <1>3, <2>1, RecountType DEF Sync, TypeOK
<1>4. ASSUME NEW erase \in BOOLEAN, Clear(erase) PROVE TypeOK'
  <2>1. rpaused' \in BOOLEAN
    BY <1>4 DEF Clear, TypeOK, redis
  <2>2. rlist' \in Nat /\ qsize' \in Int /\ requestNum' \in Int
    BY <1>4 DEF Clear, TypeOK, redis
  <2>3. lostPush' \in Nat /\ lostPop' \in Nat /\ faults' \in Nat
    BY <1>4 DEF Clear, Fault, TypeOK, history
  <2> QED BY <1>4, <2>1, <2>2, <2>3 DEF Clear, TypeOK, counters
<1>5. ASSUME NEW s \in Statuses, SetStatus(s) PROVE TypeOK'
  <2>1. rpaused' \in BOOLEAN
    BY <1>5 DEF SetStatus, TypeOK
  <2>2. status' \in Statuses /\ faults' \in Nat
    BY <1>5 DEF SetStatus, Fault, TypeOK
  <2> QED BY <1>5, <2>1, <2>2 DEF SetStatus, TypeOK, counters, history
<1>6. CASE UNCHANGED vars
  BY <1>6 DEF vars, redis, counters, history, TypeOK
<1> QED BY <1>1, <1>2, <1>3, <1>4, <1>5, <1>6 DEF Next

\* The invariant of types holds in every state.
THEOREM TypeCorrect == Spec => []TypeOK
<1>1. Init => TypeOK
  BY QueueAssumption DEF Init, TypeOK, Statuses, ProducerPC, ConsumerPC
<1> QED BY <1>1, TypeStep, PTL DEF Spec

-----------------------------------------------------------------------------
(* Counting goroutines. *)

\* Every set of goroutines that the invariants count is finite, in this state
\* and in the next.
LEMMA SetsFinite ==
    /\ IsFiniteSet(Queuing) /\ IsFiniteSet(Queuing')
    /\ IsFiniteSet(Dequeuing) /\ IsFiniteSet(Dequeuing')
    /\ IsFiniteSet(Admitted) /\ IsFiniteSet(Admitted')
    /\ \A l : IsFiniteSet(At(l)) /\ IsFiniteSet(At(l)')
<1>1. IsFiniteSet(Procs)
  BY QueueAssumption, FS_Union DEF Procs
<1>2. /\ Queuing \subseteq Procs /\ Queuing' \subseteq Procs
      /\ Dequeuing \subseteq Procs /\ Dequeuing' \subseteq Procs
      /\ Admitted \subseteq Procs /\ Admitted' \subseteq Procs
      /\ \A l : At(l) \subseteq Procs /\ At(l)' \subseteq Procs
  BY DEF Queuing, Dequeuing, Admitted, At, Procs
<1> QED BY <1>1, <1>2, FS_Subset

\* Moving a goroutine from label a to label b.
LEMMA AtMoves ==
    ASSUME TypeOK, NEW t \in Procs, NEW a, NEW b,
           a # b, b \in ProducerPC \cup ConsumerPC, pc[t] = a, Goto(t, b)
    PROVE  /\ Cardinality(At(a)') = Cardinality(At(a)) - 1
           /\ Cardinality(At(b)') = Cardinality(At(b)) + 1
           /\ \A l : l # a /\ l # b => At(l)' = At(l)
<1>1. pc' \in [Procs -> ProducerPC \cup ConsumerPC] /\ pc'[t] = b
  BY DEF TypeOK, Goto, Procs
<1>2. \A u \in Procs : u # t => pc'[u] = pc[u]
  BY DEF TypeOK, Goto, Procs
<1>3. At(a)' = At(a) \ {t} /\ t \in At(a)
  BY <1>1, <1>2 DEF At, Procs
<1>4. At(b)' = At(b) \cup {t} /\ t \notin At(b)
  BY <1>1, <1>2 DEF At, Procs
<1>5. \A l : l # a /\ l # b => At(l)' = At(l)
  BY <1>1, <1>2 DEF At, Procs
<1>6. Cardinality(At(a)') = Cardinality(At(a)) - 1
  BY <1>3, SetsFinite, FS_RemoveElement
<1>7. Cardinality(At(b)') = Cardinality(At(b)) + 1
  BY <1>4, SetsFinite, FS_AddElement
<1> QED BY <1>5, <1>6, <1>7

\* Cardinalities are natural numbers.
LEMMA CardsNat ==
    /\ Cardinality(Queuing) \in Nat /\ Cardinality(Dequeuing) \in Nat
    /\ Cardinality(Admitted) \in Nat
    /\ \A l : Cardinality(At(l)) \in Nat
  BY SetsFinite, FS_CardinalityType

-----------------------------------------------------------------------------
(* The counters of calls in progress. *)

\* The steps of enqueue keep the number of calls in progress exact: only the
\* first and the last of a call change it.
LEMMA EnqueueCounters ==
    ASSUME TypeOK, CountersMatch, NEW p \in Producers, Enqueue(p)
    PROVE  CountersMatch'
<1> USE QueueAssumption
<1>1. pc' = [pc EXCEPT ![p] = pc'[p]] /\ p \in Procs /\ p \notin Consumers
  BY DEF Enqueue, EnqBegin, EnqPush, EnqCount, EnqGrow, EnqLeave, Goto, TypeOK, Procs
<1>2. Dequeuing' = Dequeuing
  BY <1>1 DEF Dequeuing, TypeOK
<1>3. dequeuing' = dequeuing
  BY DEF Enqueue, EnqBegin, EnqPush, EnqCount, EnqGrow, EnqLeave, counters
<1>4. CASE EnqBegin(p)
  <2>1. p \notin Queuing /\ Queuing' = Queuing \cup {p}
    BY <1>4 DEF EnqBegin, Queuing, Goto, TypeOK
  <2>2. queuing' = queuing + 1
    BY <1>4 DEF EnqBegin
  <2> QED BY <2>1, <2>2, <1>2, <1>3, SetsFinite, FS_AddElement DEF CountersMatch
<1>5. CASE EnqPush(p) \/ EnqCount(p) \/ EnqGrow(p)
  <2>1. Queuing' = Queuing
    BY <1>5 DEF EnqPush, EnqCount, EnqGrow, Queuing, Goto, TypeOK
  <2>2. queuing' = queuing
    BY <1>5 DEF EnqPush, EnqCount, EnqGrow, counters
  <2> QED BY <2>1, <2>2, <1>2, <1>3 DEF CountersMatch
<1>6. CASE EnqLeave(p)
  <2>1. p \in Queuing /\ Queuing' = Queuing \ {p}
    BY <1>6 DEF EnqLeave, Queuing, Goto, TypeOK
  <2>2. queuing' = queuing - 1
    BY <1>6 DEF EnqLeave
  <2> QED BY <2>1, <2>2, <1>2, <1>3, SetsFinite, FS_RemoveElement DEF CountersMatch
<1> QED BY <1>4, <1>5, <1>6 DEF Enqueue

\* The steps of Dequeue keep the number of calls in progress exact.
LEMMA DequeueCounters ==
    ASSUME TypeOK, CountersMatch, NEW c \in Consumers, Dequeue(c)
    PROVE  CountersMatch'
<1> USE QueueAssumption
<1>1. pc' = [pc EXCEPT ![c] = pc'[c]] /\ c \in Procs /\ c \notin Producers
  BY DEF Dequeue, DeqBegin, DeqAdmit, DeqPop, DeqCount, DeqShrink, DeqLeave, DeqSync,
         Goto, TypeOK, Procs
<1>2. Queuing' = Queuing
  BY <1>1 DEF Queuing, TypeOK
<1>3. queuing' = queuing
  BY DEF Dequeue, DeqBegin, DeqAdmit, DeqPop, DeqCount, DeqShrink, DeqLeave, DeqSync,
         Recount, RecountFails, counters
<1>4. CASE DeqBegin(c)
  <2>1. c \notin Dequeuing /\ Dequeuing' = Dequeuing \cup {c}
    BY <1>4 DEF DeqBegin, Dequeuing, Goto, TypeOK
  <2>2. dequeuing' = dequeuing + 1
    BY <1>4 DEF DeqBegin
  <2> QED BY <2>1, <2>2, <1>2, <1>3, SetsFinite, FS_AddElement DEF CountersMatch
<1>5. CASE DeqAdmit(c) \/ DeqPop(c) \/ DeqCount(c) \/ DeqShrink(c) \/ DeqSync(c)
  <2>1. Dequeuing' = Dequeuing
    BY <1>5 DEF DeqAdmit, DeqPop, DeqCount, DeqShrink, DeqSync, Dequeuing, Goto, TypeOK
  <2>2. dequeuing' = dequeuing
    BY <1>5 DEF DeqAdmit, DeqPop, DeqCount, DeqShrink, DeqSync, Recount, RecountFails,
                counters
  <2> QED BY <2>1, <2>2, <1>2, <1>3 DEF CountersMatch
<1>6. CASE DeqLeave(c)
  <2>1. c \in Dequeuing /\ Dequeuing' = Dequeuing \ {c}
    BY <1>6 DEF DeqLeave, Dequeuing, Goto, TypeOK
  <2>2. dequeuing' = dequeuing - 1
    BY <1>6 DEF DeqLeave
  <2> QED BY <2>1, <2>2, <1>2, <1>3, SetsFinite, FS_RemoveElement DEF CountersMatch
<1> QED BY <1>4, <1>5, <1>6 DEF Dequeue

\* An operation that runs alone moves no goroutine.
LEMMA AloneCounters ==
    ASSUME CountersMatch,
           \/ Sync
           \/ \E erase \in BOOLEAN : Clear(erase)
           \/ \E s \in Statuses : SetStatus(s)
           \/ UNCHANGED vars
    PROVE  CountersMatch' /\ pc' = pc
<1>1. pc' = pc /\ queuing' = queuing /\ dequeuing' = dequeuing
  BY DEF Sync, Recount, RecountFails, Clear, SetStatus, counters, vars
<1> QED BY <1>1 DEF CountersMatch, Queuing, Dequeuing

-----------------------------------------------------------------------------
(* Admission. *)

\* The inductive form of admission: for every size a queue may shrink to.
EarlyFit ==
    /\ qsize >= 0
    /\ \A k \in Nat : (k >= qsize \/ k >= Limit) => Cardinality(Early(k)) <= k

\* The set of consumers that count for admission is finite, before and after.
LEMMA EarlyFinite ==
    \A k : /\ IsFiniteSet(Early(k)) /\ Cardinality(Early(k)) \in Nat
           /\ IsFiniteSet(Early(k)') /\ Cardinality(Early(k)') \in Nat
<1>1. \A k : Early(k) \subseteq Consumers /\ Early(k)' \subseteq Consumers
  BY DEF Early, Admitted
<1> QED BY <1>1, QueueAssumption, FS_Subset, FS_CardinalityType

\* Whatever only takes goroutines out of Early, while qsize stays or grows,
\* keeps the bound.
LEMMA EarlyShrinks ==
    ASSUME TypeOK, TypeOK', EarlyFit, qsize' >= qsize,
           \A k \in Nat : Early(k)' \subseteq Early(k)
    PROVE  EarlyFit'
<1>1. qsize' >= 0
  BY DEF EarlyFit, TypeOK
<1>2. ASSUME NEW k \in Nat, k >= qsize' \/ k >= Limit
      PROVE  Cardinality(Early(k)') <= k
  <2>1. k >= qsize \/ k >= Limit
    BY <1>2, QueueAssumption DEF TypeOK
  <2>2. Cardinality(Early(k)) <= k
    BY <2>1 DEF EarlyFit
  <2>3. Cardinality(Early(k)') <= Cardinality(Early(k))
    BY EarlyFinite, FS_Subset
  <2> QED BY <2>2, <2>3, EarlyFinite
<1> QED BY <1>1, <1>2 DEF EarlyFit

\* enqueue can only raise qsize, and it leaves the consumers alone.
LEMMA EnqueueEarly ==
    ASSUME TypeOK, TypeOK', EarlyFit, NEW p \in Producers, Enqueue(p)
    PROVE  EarlyFit'
<1>1. \A c \in Consumers : pc'[c] = pc[c] /\ ticket'[c] = ticket[c]
  BY QueueAssumption
     DEF Enqueue, EnqBegin, EnqPush, EnqCount, EnqGrow, EnqLeave, Goto, TypeOK
<1>2. \A k \in Nat : Early(k)' \subseteq Early(k)
  BY <1>1 DEF Early, Admitted
<1>3. qsize' >= qsize
  BY DEF Enqueue, EnqBegin, EnqPush, EnqCount, EnqGrow, EnqLeave, TypeOK
<1> QED BY <1>2, <1>3, EarlyShrinks

\* The steps of Dequeue: its ticket is the number of calls in progress, so at
\* most k consumers hold one of at most k, and a removal lowers qsize and the
\* number admitted together.
LEMMA DequeueEarly ==
    ASSUME TypeOK, TypeOK', CountersMatch, CountersMatch', EarlyFit,
           NEW c \in Consumers, Dequeue(c)
    PROVE  EarlyFit'
<1>1. CASE DeqBegin(c)
  <2>1. /\ dequeuing' = dequeuing + 1 /\ qsize' = qsize
        /\ ticket' = [ticket EXCEPT ![c] = dequeuing'] /\ pc' = [pc EXCEPT ![c] = "load"]
        /\ pc[c] = "idle"
    BY <1>1 DEF DeqBegin, Goto
  <2>2. ASSUME NEW k \in Nat, k >= qsize' \/ k >= Limit
        PROVE  Cardinality(Early(k)') <= k
    <3>1. CASE k >= dequeuing'
      \* Everybody in the call fits under the counter.
      <4>1. Early(k)' \subseteq Dequeuing'
        BY DEF Early, Admitted, Dequeuing
      <4>2. Cardinality(Early(k)') <= Cardinality(Dequeuing')
        BY <4>1, SetsFinite, FS_Subset
      <4>3. Cardinality(Dequeuing') = dequeuing'
        BY DEF CountersMatch
      <4> QED BY <3>1, <4>2, <4>3, EarlyFinite DEF TypeOK
    <3>2. CASE ~(k >= dequeuing')
      \* The newcomer's ticket is beyond k.
      <4>1. ticket'[c] > k
        BY <2>1, <3>2 DEF TypeOK
      <4>2. Early(k)' \subseteq Early(k)
        BY <2>1, <4>1 DEF Early, Admitted, TypeOK
      <4>3. Cardinality(Early(k)) <= k
        BY <2>1, <2>2 DEF EarlyFit
      <4> QED BY <4>2, <4>3, EarlyFinite, FS_Subset
    <3> QED BY <3>1, <3>2
  <2> QED BY <2>1, <2>2 DEF EarlyFit
<1>2. CASE DeqAdmit(c)
  <2>1. /\ pc[c] = "load" /\ qsize' = qsize
        /\ ticket' = [ticket EXCEPT ![c] = 0]
    BY <1>2 DEF DeqAdmit
  <2>2. CASE Admits(c) /\ Goto(c, "pop")
    \* Admitted from where it was already counted.
    <3>1. ASSUME NEW k \in Nat, k >= qsize' \/ k >= Limit
          PROVE  Cardinality(Early(k)') <= k
      <4>1. ticket[c] <= k
        BY <2>1, <2>2, <3>1, QueueAssumption DEF Admits, TypeOK
      <4>2. Early(k)' \subseteq Early(k)
        BY <2>1, <2>2, <4>1 DEF Early, Admitted, Goto, TypeOK
      <4>3. Cardinality(Early(k)) <= k
        BY <2>1, <3>1 DEF EarlyFit
      <4> QED BY <4>2, <4>3, EarlyFinite, FS_Subset
    <3> QED BY <2>1, <3>1 DEF EarlyFit
  <2>3. CASE Goto(c, "leave") \/ Goto(c, "leaveIdle")
    <3>1. \A k \in Nat : Early(k)' \subseteq Early(k)
      BY <2>1, <2>3 DEF Early, Admitted, Goto, TypeOK
    <3>2. qsize' >= qsize
      BY <2>1 DEF TypeOK
    <3> QED BY <3>1, <3>2, EarlyShrinks
  <2> QED BY <1>2, <2>2, <2>3 DEF DeqAdmit
<1>3. CASE DeqPop(c) \/ DeqCount(c) \/ DeqLeave(c)
  <2>1. qsize' = qsize /\ ticket' = ticket
    BY <1>3 DEF DeqPop, DeqCount, DeqLeave
  <2>2. \A k \in Nat : Early(k)' \subseteq Early(k)
    BY <1>3, <2>1 DEF DeqPop, DeqCount, DeqLeave, Early, Admitted, Goto, TypeOK
  <2> QED BY <2>1, <2>2, EarlyShrinks DEF TypeOK
<1>4. CASE DeqShrink(c)
  <2>1. /\ pc[c] = "shrink" /\ qsize' = qsize - 1 /\ ticket' = ticket
        /\ \A d \in Consumers : d # c => pc'[d] = pc[d]
        /\ pc'[c] \in {"leave", "leaveIdle"}
    BY <1>4 DEF DeqShrink, Goto, TypeOK
  <2>2. \A k \in Nat : c \in Early(k) /\ Early(k)' \subseteq Early(k) \ {c}
    BY <2>1 DEF Early, Admitted
  <2>3. \A k \in Nat : /\ Cardinality(Early(k) \ {c}) = Cardinality(Early(k)) - 1
                       /\ IsFiniteSet(Early(k) \ {c})
    BY <2>2, EarlyFinite, FS_RemoveElement
  <2>4. \A k \in Nat : Cardinality(Early(k)') <= Cardinality(Early(k)) - 1
    <3> SUFFICES ASSUME NEW k \in Nat
                 PROVE  Cardinality(Early(k)') <= Cardinality(Early(k)) - 1
      OBVIOUS
    <3>1. Cardinality(Early(k)') <= Cardinality(Early(k) \ {c})
      BY <2>2, <2>3, FS_Subset
    <3> QED BY <3>1, <2>3
  <2>5. qsize >= 1
    <3>1. Cardinality(Early(qsize)) >= 1 /\ qsize \in Nat
      BY <2>4, EarlyFinite DEF EarlyFit, TypeOK
    <3> QED BY <3>1, EarlyFinite DEF EarlyFit, TypeOK
  <2>6. ASSUME NEW k \in Nat, k >= qsize' \/ k >= Limit
        PROVE  Cardinality(Early(k)') <= k
    <3>1. CASE k >= qsize \/ k >= Limit
      BY <3>1, <2>4, EarlyFinite DEF EarlyFit
    <3>2. CASE k = qsize - 1
      <4>1. qsize \in Nat /\ Cardinality(Early(qsize)) <= qsize
        BY <2>5 DEF EarlyFit, TypeOK
      <4>2. Early(k)' \subseteq Early(qsize) \ {c}
        BY <2>1, <3>2, <4>1 DEF Early, Admitted, TypeOK
      <4>3. Cardinality(Early(k)') <= Cardinality(Early(qsize)) - 1
        <5>1. Cardinality(Early(k)') <= Cardinality(Early(qsize) \ {c})
          BY <4>1, <4>2, <2>3, FS_Subset
        <5> QED BY <4>1, <5>1, <2>3
      <4> QED BY <3>2, <4>1, <4>3, EarlyFinite DEF TypeOK
    <3> QED BY <2>1, <2>6, <3>1, <3>2, QueueAssumption DEF TypeOK
  <2> QED BY <2>1, <2>5, <2>6 DEF EarlyFit, TypeOK
<1>5. CASE DeqSync(c)
  <2>1. /\ LockFree /\ qsize' \in {qsize, rlist}
        /\ \A d \in Consumers : pc'[d] # "idle" => pc'[d] = pc[d]
    BY <1>5 DEF DeqSync, Recount, RecountFails, Goto, TypeOK
  <2>2. \A k \in Nat : Early(k)' = {}
    BY <2>1 DEF LockFree, Dequeuing, Early, Admitted, TypeOK
  <2>3. \A k \in Nat : Cardinality(Early(k)') = 0
    BY <2>2, FS_EmptySet
  <2> QED BY <2>1, <2>3 DEF EarlyFit, TypeOK
<1> QED BY <1>1, <1>2, <1>3, <1>4, <1>5 DEF Dequeue

\* Operations that run alone change qsize only while nobody is in Early.
LEMMA AloneEarly ==
    ASSUME TypeOK, TypeOK', EarlyFit, LockFree, pc' = pc, qsize' >= 0
    PROVE  EarlyFit'
<1>1. \A k \in Nat : Early(k)' = {}
  BY DEF LockFree, Dequeuing, Early, Admitted, TypeOK
<1> QED BY <1>1, FS_EmptySet DEF EarlyFit

-----------------------------------------------------------------------------
(* Accounting. *)

Booked == Accounting /\ StatsAgree

\* The labels between a Redis reply and the counter it belongs in.
Counted == {"countIn", "grow", "countOut", "shrink"}

\* A step between labels that no sum counts keeps the books.
LEMMA UncountedMove ==
    ASSUME TypeOK, Booked, NEW t \in Procs, NEW a, NEW b,
           a # b, b \in ProducerPC \cup ConsumerPC, pc[t] = a, Goto(t, b),
           a \notin Counted, b \notin Counted,
           rlist' + lostPop' + lostPush = rlist + lostPop + lostPush',
           rlist' \in Nat, lostPop' \in Nat, lostPush' \in Nat,
           qsize' = qsize, requestNum' = requestNum
    PROVE  Booked'
<1>1. /\ At("countIn")' = At("countIn") /\ At("grow")' = At("grow")
      /\ At("countOut")' = At("countOut") /\ At("shrink")' = At("shrink")
  <2>1. \A l : l # a /\ l # b => At(l)' = At(l)
    BY AtMoves
  <2> QED BY <2>1 DEF Counted
<1>2. Accounting'
  <2>1. /\ Cardinality(At("countIn")) \in Nat /\ Cardinality(At("grow")) \in Nat
        /\ Cardinality(At("countOut")) \in Nat /\ Cardinality(At("shrink")) \in Nat
    BY CardsNat
  <2>2. rlist \in Nat /\ lostPop \in Nat /\ lostPush \in Nat /\ qsize \in Int
    BY DEF TypeOK
  <2> HIDE DEF At
  <2> QED BY <1>1, <2>1, <2>2 DEF Booked, Accounting
<1>3. StatsAgree'
  BY <1>1 DEF Booked, StatsAgree
<1> QED BY <1>2, <1>3 DEF Booked

\* Every step of enqueue changes both sides of the books alike.
LEMMA EnqueueBooked ==
    ASSUME TypeOK, TypeOK', Booked, NEW p \in Producers, Enqueue(p)
    PROVE  Booked'
<1> USE DEF ProducerPC, ConsumerPC
<1>0. p \in Procs
  BY DEF Procs
<1>1. CASE EnqBegin(p)
  <2>1. /\ pc[p] = "idle" /\ (Goto(p, "push") \/ Goto(p, "leave"))
        /\ UNCHANGED <<rlist, lostPop, lostPush, qsize, requestNum>>
    BY <1>1 DEF EnqBegin, redis, history
  <2> QED BY <2>1, <1>0, UncountedMove DEF TypeOK, Counted
<1>2. CASE EnqPush(p)
  <2>1. /\ pc[p] = "push" /\ qsize' = qsize /\ requestNum' = requestNum
        /\ lostPop' = lostPop
    BY <1>2 DEF EnqPush
  <2>2. CASE rlist' = rlist + 1 /\ Goto(p, "countIn") /\ lostPush' = lostPush
    <3>1. /\ Cardinality(At("countIn")') = Cardinality(At("countIn")) + 1
          /\ \A l : l # "push" /\ l # "countIn" => At(l)' = At(l)
      BY <2>1, <2>2, <1>0, AtMoves
    <3> QED BY <2>1, <2>2, <3>1, CardsNat DEF Booked, Accounting, StatsAgree, TypeOK
  <2>3. CASE /\ Goto(p, "leave")
             /\ rlist' + lostPop' + lostPush = rlist + lostPop + lostPush'
    BY <2>1, <2>3, <1>0, UncountedMove DEF TypeOK, Counted
  <2> QED BY <1>2, <2>2, <2>3 DEF EnqPush, TypeOK
<1>3. CASE EnqCount(p)
  <2>1. /\ pc[p] = "countIn" /\ Goto(p, "grow") /\ requestNum' = requestNum + 1
        /\ UNCHANGED <<rlist, lostPop, lostPush, qsize>>
    BY <1>3 DEF EnqCount, redis, history
  <2>2. /\ Cardinality(At("countIn")') = Cardinality(At("countIn")) - 1
        /\ Cardinality(At("grow")') = Cardinality(At("grow")) + 1
        /\ \A l : l # "countIn" /\ l # "grow" => At(l)' = At(l)
    BY <2>1, <1>0, AtMoves
  <2> QED BY <2>1, <2>2, CardsNat DEF Booked, Accounting, StatsAgree, TypeOK
<1>4. CASE EnqGrow(p)
  <2>1. /\ pc[p] = "grow" /\ Goto(p, "leave") /\ qsize' = qsize + 1
        /\ UNCHANGED <<rlist, lostPop, lostPush, requestNum>>
    BY <1>4 DEF EnqGrow, redis, history
  <2>2. /\ Cardinality(At("grow")') = Cardinality(At("grow")) - 1
        /\ \A l : l # "grow" /\ l # "leave" => At(l)' = At(l)
    BY <2>1, <1>0, AtMoves
  <2> QED BY <2>1, <2>2, CardsNat DEF Booked, Accounting, StatsAgree, TypeOK
<1>5. CASE EnqLeave(p)
  <2>1. /\ pc[p] = "leave" /\ Goto(p, "idle")
        /\ UNCHANGED <<rlist, lostPop, lostPush, qsize, requestNum>>
    BY <1>5 DEF EnqLeave, redis, history
  <2> QED BY <2>1, <1>0, UncountedMove DEF TypeOK, Counted
<1> QED BY <1>1, <1>2, <1>3, <1>4, <1>5 DEF Enqueue

\* With no call in progress the sums are empty, so qsize is the list's length
\* up to lost replies.
LEMMA QuietBooks ==
    ASSUME LockFree, TypeOK
    PROVE  \A l \in {"push", "countIn", "grow", "pop", "countOut", "shrink"} :
             At(l) = {} /\ Cardinality(At(l)) = 0
<1>1. \A l \in {"push", "countIn", "grow", "pop", "countOut", "shrink"} : At(l) = {}
  BY DEF LockFree, Queuing, Dequeuing, At, TypeOK
<1> QED BY <1>1, FS_EmptySet

\* A recount that moves nobody into a call settles the books.
LEMMA RecountBooked ==
    ASSUME TypeOK, TypeOK', Booked, LockFree, LockFree', Recount \/ RecountFails
    PROVE  Booked'
<1>1. \A l \in {"countIn", "grow", "countOut", "shrink"} :
        Cardinality(At(l)) = 0 /\ Cardinality(At(l)') = 0
  BY QuietBooks, SetsFinite, FS_EmptySet
     DEF LockFree, Queuing, Dequeuing, At, TypeOK
<1>2. CASE Recount
  BY <1>1, <1>2 DEF Recount, redis, Booked, Accounting, StatsAgree, TypeOK
<1>3. CASE RecountFails
  BY <1>1, <1>3 DEF RecountFails, redis, history, Booked, Accounting, StatsAgree, TypeOK
<1> QED BY <1>2, <1>3

\* Every step of Dequeue changes both sides of the books alike.
LEMMA DequeueBooked ==
    ASSUME TypeOK, TypeOK', Booked, NEW c \in Consumers, Dequeue(c)
    PROVE  Booked'
<1> USE DEF ProducerPC, ConsumerPC
<1>0. c \in Procs
  BY DEF Procs
<1>1. CASE DeqBegin(c)
  <2>1. /\ pc[c] = "idle" /\ Goto(c, "load")
        /\ UNCHANGED <<rlist, lostPop, lostPush, qsize, requestNum>>
    BY <1>1 DEF DeqBegin, redis, history
  <2> QED BY <2>1, <1>0, UncountedMove DEF TypeOK, Counted
<1>2. CASE DeqAdmit(c)
  <2>1. /\ pc[c] = "load" /\ (Goto(c, "pop") \/ Goto(c, "leave") \/ Goto(c, "leaveIdle"))
        /\ UNCHANGED <<rlist, lostPop, lostPush, qsize, requestNum>>
    BY <1>2 DEF DeqAdmit, redis, history
  <2> QED BY <2>1, <1>0, UncountedMove DEF TypeOK, Counted
<1>3. CASE DeqPop(c)
  <2>1. /\ pc[c] = "pop" /\ qsize' = qsize /\ requestNum' = requestNum
        /\ lostPush' = lostPush
    BY <1>3 DEF DeqPop
  <2>2. CASE rlist' = rlist - 1 /\ Goto(c, "countOut") /\ lostPop' = lostPop
    <3>1. /\ Cardinality(At("countOut")') = Cardinality(At("countOut")) + 1
          /\ \A l : l # "pop" /\ l # "countOut" => At(l)' = At(l)
      BY <2>1, <2>2, <1>0, AtMoves
    <3> QED BY <2>1, <2>2, <3>1, CardsNat DEF Booked, Accounting, StatsAgree, TypeOK
  <2>3. CASE /\ Goto(c, "leave") \/ Goto(c, "leaveIdle")
             /\ rlist' + lostPop' + lostPush = rlist + lostPop + lostPush'
    <3>1. CASE Goto(c, "leave")
      BY <2>1, <2>3, <3>1, <1>0, UncountedMove DEF TypeOK, Counted
    <3>2. CASE Goto(c, "leaveIdle")
      BY <2>1, <2>3, <3>2, <1>0, UncountedMove DEF TypeOK, Counted
    <3> QED BY <2>3, <3>1, <3>2
  <2>4. CASE rlist = 0 /\ Goto(c, "leaveIdle") /\ UNCHANGED <<rlist, lostPop>>
    BY <2>1, <2>3, <2>4 DEF TypeOK
  <2>5. CASE rlist' = rlist - 1 /\ lostPop' = lostPop + 1 /\ Goto(c, "leave")
    BY <2>1, <2>3, <2>5 DEF TypeOK
  <2>6. CASE Goto(c, "leave") /\ UNCHANGED <<rlist, lostPop>>
    BY <2>1, <2>3, <2>6 DEF TypeOK
  <2> QED BY <1>3, <2>2, <2>4, <2>5, <2>6 DEF DeqPop
<1>4. CASE DeqCount(c)
  <2>1. /\ pc[c] = "countOut" /\ Goto(c, "shrink") /\ requestNum' = requestNum - 1
        /\ UNCHANGED <<rlist, lostPop, lostPush, qsize>>
    BY <1>4 DEF DeqCount, redis, history
  <2>2. /\ Cardinality(At("countOut")') = Cardinality(At("countOut")) - 1
        /\ Cardinality(At("shrink")') = Cardinality(At("shrink")) + 1
        /\ \A l : l # "countOut" /\ l # "shrink" => At(l)' = At(l)
    BY <2>1, <1>0, AtMoves
  <2> QED BY <2>1, <2>2, CardsNat DEF Booked, Accounting, StatsAgree, TypeOK
<1>5. CASE DeqShrink(c)
  <2>1. /\ pc[c] = "shrink" /\ qsize' = qsize - 1
        /\ UNCHANGED <<rlist, lostPop, lostPush, requestNum>>
    BY <1>5 DEF DeqShrink, redis, history
  <2>2. PICK b \in {"leave", "leaveIdle"} : Goto(c, b)
    BY <1>5 DEF DeqShrink
  <2>3. /\ Cardinality(At("shrink")') = Cardinality(At("shrink")) - 1
        /\ \A l : l # "shrink" /\ l # b => At(l)' = At(l)
    BY <2>1, <2>2, <1>0, AtMoves
  <2> QED BY <2>1, <2>2, <2>3, CardsNat DEF Booked, Accounting, StatsAgree, TypeOK
<1>6. CASE DeqLeave(c)
  <2>1. /\ \/ pc[c] = "leave" /\ Goto(c, "idle")
           \/ pc[c] = "leaveIdle" /\ Goto(c, "sync")
        /\ UNCHANGED <<rlist, lostPop, lostPush, qsize, requestNum>>
    BY <1>6 DEF DeqLeave, redis, history
  <2> QED BY <2>1, <1>0, UncountedMove DEF TypeOK, Counted
<1>7. CASE DeqSync(c)
  <2>1. LockFree /\ LockFree' /\ (Recount \/ RecountFails)
    BY <1>7, QueueAssumption DEF DeqSync, LockFree, Queuing, Dequeuing, Goto, TypeOK
  <2> QED BY <2>1, RecountBooked
<1> QED BY <1>1, <1>2, <1>3, <1>4, <1>5, <1>6, <1>7 DEF Dequeue

-----------------------------------------------------------------------------
(* The remaining parts of the inductive invariant. *)

\* A producer passes the limit's test only if the count, itself included, is
\* within the limit.
LEMMA EnqueueFit ==
    ASSUME TypeOK, TypeOK', CountersMatch', ProducersFit, NEW p \in Producers, Enqueue(p)
    PROVE  ProducersFit'
<1>1. \A d \in Producers : d # p => pc'[d] = pc[d]
  BY DEF Enqueue, EnqBegin, EnqPush, EnqCount, EnqGrow, EnqLeave, Goto, TypeOK
<1>2. /\ IsFiniteSet(AdmittedProducers)
      /\ Cardinality(AdmittedProducers) \in Nat /\ Cardinality(AdmittedProducers') \in Nat
  <2>1. AdmittedProducers \subseteq Producers /\ AdmittedProducers' \subseteq Producers
    BY DEF AdmittedProducers
  <2> QED BY <2>1, QueueAssumption, FS_Subset, FS_CardinalityType
<1>3. CASE EnqBegin(p) /\ queuing' <= Limit
  <2>1. AdmittedProducers' \subseteq Queuing'
    BY DEF AdmittedProducers, Queuing
  <2>2. Cardinality(AdmittedProducers') <= Cardinality(Queuing')
    BY <2>1, SetsFinite, FS_Subset
  <2>3. Cardinality(Queuing') = queuing'
    BY DEF CountersMatch
  <2> QED BY <1>2, <1>3, <2>2, <2>3, QueueAssumption
          DEF ProducersFit, AdmittedProducers, TypeOK
<1>4. CASE ~(EnqBegin(p) /\ queuing' <= Limit)
  <2>1. AdmittedProducers' \subseteq AdmittedProducers
    <3>1. pc'[p] \in {"push", "countIn", "grow"} => pc[p] \in {"push", "countIn", "grow"}
      BY <1>4, QueueAssumption DEF Enqueue, EnqBegin, EnqPush, EnqCount, EnqGrow, EnqLeave, Goto, TypeOK
    <3> QED BY <1>1, <3>1 DEF AdmittedProducers
  <2>2. Cardinality(AdmittedProducers') <= Cardinality(AdmittedProducers)
    BY <2>1, <1>2, FS_Subset
  <2> QED BY <1>2, <2>2, QueueAssumption DEF ProducersFit, AdmittedProducers
<1> QED BY <1>3, <1>4

\* Dequeue moves no producer.
LEMMA DequeueFit ==
    ASSUME TypeOK, ProducersFit, NEW c \in Consumers, Dequeue(c)
    PROVE  ProducersFit'
<1>1. \A p \in Producers : pc'[p] = pc[p]
  BY QueueAssumption
     DEF Dequeue, DeqBegin, DeqAdmit, DeqPop, DeqCount, DeqShrink, DeqLeave, DeqSync,
         Goto, TypeOK
<1>2. AdmittedProducers' = AdmittedProducers
  BY <1>1 DEF AdmittedProducers
<1> QED BY <1>2 DEF ProducersFit, AdmittedProducers

\* A call begins only while the queue is working, and none of its steps but
\* the sync, which waits for the lock, changes the status.
LEMMA CallsQuiet ==
    ASSUME TypeOK, PausedIsQuiet,
           (\E p \in Producers : Enqueue(p)) \/ (\E c \in Consumers : Dequeue(c))
    PROVE  PausedIsQuiet'
<1>1. CASE \E p \in Producers : Enqueue(p)
  <2>1. PICK p \in Producers : Enqueue(p)
    BY <1>1
  <2>2. status' = status /\ (EnqBegin(p) => status = "working")
    BY <2>1 DEF Enqueue, EnqBegin, EnqPush, EnqCount, EnqGrow, EnqLeave
  <2>3. ~EnqBegin(p) => p \in Queuing
    BY <2>1 DEF Enqueue, EnqPush, EnqCount, EnqGrow, EnqLeave, Queuing
  <2> QED BY <2>2, <2>3 DEF PausedIsQuiet, LockFree
<1>2. CASE \E c \in Consumers : Dequeue(c)
  <2>1. PICK c \in Consumers : Dequeue(c)
    BY <1>2
  <2>2. CASE DeqSync(c)
    BY <2>2, QueueAssumption
       DEF DeqSync, PausedIsQuiet, LockFree, Queuing, Dequeuing, Goto, TypeOK
  <2>3. CASE ~DeqSync(c)
    <3>1. status' = status /\ (DeqBegin(c) => status = "working")
      BY <2>1, <2>3 DEF Dequeue, DeqBegin, DeqAdmit, DeqPop, DeqCount, DeqShrink, DeqLeave
    <3>2. ~DeqBegin(c) => c \in Dequeuing
      BY <2>1, <2>3 DEF Dequeue, DeqAdmit, DeqPop, DeqCount, DeqShrink, DeqLeave, Dequeuing
    <3> QED BY <3>1, <3>2 DEF PausedIsQuiet, LockFree
  <2> QED BY <2>2, <2>3
<1> QED BY <1>1, <1>2

-----------------------------------------------------------------------------
(* The inductive invariant. *)

Inv == /\ TypeOK
       /\ CountersMatch
       /\ EarlyFit
       /\ Booked
       /\ ProducersFit
       /\ PausedIsQuiet

\* The inductive invariant holds of a queue that was just registered.
LEMMA InvInit == Init => Inv
<1> SUFFICES ASSUME Init PROVE Inv
  OBVIOUS
<1>1. TypeOK
  BY QueueAssumption DEF Init, TypeOK, Statuses, ProducerPC, ConsumerPC
<1>2. Queuing = {} /\ Dequeuing = {} /\ AdmittedProducers = {}
  BY DEF Init, Queuing, Dequeuing, AdmittedProducers
<1>3. CountersMatch /\ PausedIsQuiet /\ ProducersFit
  BY <1>2, FS_EmptySet, QueueAssumption
     DEF Init, CountersMatch, PausedIsQuiet, LockFree, ProducersFit, AdmittedProducers
<1>4. \A k \in Nat : Early(k) = {}
  BY DEF Init, Early, Admitted
<1>5. EarlyFit
  BY <1>1, <1>4, FS_EmptySet DEF EarlyFit, Init, TypeOK
<1>6. /\ Cardinality(At("countIn")) = 0 /\ Cardinality(At("grow")) = 0
      /\ Cardinality(At("countOut")) = 0 /\ Cardinality(At("shrink")) = 0
  BY <1>1, <1>2, QuietBooks DEF LockFree
<1>7. Booked
  BY <1>1, <1>6 DEF Booked, Accounting, StatsAgree, Init, TypeOK
<1> QED BY <1>1, <1>3, <1>5, <1>7 DEF Inv

\* What an operation that runs alone does to the books.
LEMMA AloneBooked ==
    ASSUME TypeOK, TypeOK', Booked, LockFree, LockFree',
           \/ Sync
           \/ \E erase \in BOOLEAN : Clear(erase)
           \/ \E s \in Statuses : SetStatus(s)
    PROVE  Booked' /\ (EarlyFit => qsize' >= 0)
<1>1. CASE Sync
  <2>1. Recount \/ RecountFails
    BY <1>1 DEF Sync
  <2>2. qsize' \in {qsize, rlist}
    BY <2>1 DEF Recount, RecountFails
  <2> QED BY <2>1, <2>2, RecountBooked DEF TypeOK, EarlyFit
<1>2. /\ Cardinality(At("countIn")) = 0 /\ Cardinality(At("grow")) = 0
      /\ Cardinality(At("countOut")) = 0 /\ Cardinality(At("shrink")) = 0
  BY QuietBooks
<1>3. pc' = pc => \A l : At(l)' = At(l)
  BY DEF At
<1>4. ASSUME NEW erase \in BOOLEAN, Clear(erase)
      PROVE  Booked' /\ (EarlyFit => qsize' >= 0)
  <2>1. pc' = pc
    BY <1>4 DEF Clear
  <2>2. \/ /\ rlist' = 0 /\ requestNum' = requestNum - qsize /\ qsize' = 0
           /\ lostPush' = 0 /\ lostPop' = 0
        \/ /\ rlist' = 0 /\ lostPop' = lostPop + rlist
           /\ UNCHANGED <<qsize, requestNum, lostPush>>
        \/ UNCHANGED <<rlist, qsize, requestNum, lostPush, lostPop>>
    BY <1>4 DEF Clear, redis, history
  <2> QED BY <1>2, <1>3, <2>1, <2>2 DEF Booked, Accounting, StatsAgree, TypeOK, EarlyFit
<1>5. ASSUME NEW s \in Statuses, SetStatus(s)
      PROVE  Booked' /\ (EarlyFit => qsize' >= 0)
  <2>1. pc' = pc /\ UNCHANGED <<rlist, qsize, requestNum, lostPush, lostPop>>
    BY <1>5 DEF SetStatus, history
  <2> QED BY <1>3, <2>1 DEF Booked, Accounting, StatsAgree, EarlyFit
<1> QED BY <1>1, <1>4, <1>5

\* Every step keeps the inductive invariant.
LEMMA InvNext == Inv /\ [Next]_vars => Inv'
<1> SUFFICES ASSUME Inv, [Next]_vars PROVE Inv'
  OBVIOUS
<1>1. TypeOK'
  BY TypeStep DEF Inv
<1>2. ASSUME NEW p \in Producers, Enqueue(p) PROVE Inv'
  <2>1. CountersMatch'
    BY <1>2, EnqueueCounters DEF Inv
  <2> QED BY <1>1, <1>2, <2>1, EnqueueEarly, EnqueueBooked, EnqueueFit, CallsQuiet DEF Inv
<1>3. ASSUME NEW c \in Consumers, Dequeue(c) PROVE Inv'
  <2>1. CountersMatch'
    BY <1>3, DequeueCounters DEF Inv
  <2> QED BY <1>1, <1>3, <2>1, DequeueEarly, DequeueBooked, DequeueFit, CallsQuiet DEF Inv
<1>4. CASE \/ Sync
           \/ \E erase \in BOOLEAN : Clear(erase)
           \/ \E s \in Statuses : SetStatus(s)
  <2>1. LockFree
    BY <1>4 DEF Sync, Clear, SetStatus
  <2>2. CountersMatch' /\ pc' = pc
    BY <1>4, AloneCounters DEF Inv
  <2>3. LockFree'
    BY <2>1, <2>2 DEF LockFree, Queuing, Dequeuing
  <2>4. Booked' /\ qsize' >= 0
    BY <1>1, <1>4, <2>1, <2>3, AloneBooked DEF Inv
  <2>5. EarlyFit'
    BY <1>1, <2>1, <2>2, <2>4, AloneEarly DEF Inv
  <2>6. ProducersFit' /\ PausedIsQuiet'
    BY <2>2, <2>3 DEF Inv, ProducersFit, AdmittedProducers, PausedIsQuiet
  <2> QED BY <1>1, <2>2, <2>4, <2>5, <2>6 DEF Inv
<1>5. CASE UNCHANGED vars
  BY <1>1, <1>5
     DEF Inv, vars, redis, counters, history, CountersMatch, Queuing, Dequeuing, EarlyFit,
         Early, Admitted, Booked, Accounting, StatsAgree, At, ProducersFit,
         AdmittedProducers, PausedIsQuiet,
         LockFree
<1> QED BY <1>2, <1>3, <1>4, <1>5 DEF Next

\* The inductive invariant holds in every state.
LEMMA Invariance == Spec => []Inv
  BY InvInit, InvNext, PTL DEF Spec

-----------------------------------------------------------------------------
(* What follows. *)

\* Calls in progress are counted exactly (incr/decr pairs of queue.go).
THEOREM CountersExact == Spec => []CountersMatch
<1>1. Inv => CountersMatch
  BY DEF Inv
<1> QED BY <1>1, Invariance, PTL

\* The bound on those who could pass bounds those who did.
LEMMA InvAdmitted == Inv => AdmittedFit
<1> SUFFICES ASSUME Inv PROVE AdmittedFit
  OBVIOUS
<1>1. qsize \in Nat /\ Limit \in Nat
  BY QueueAssumption DEF Inv, EarlyFit, TypeOK
<1>2. Cardinality(Early(qsize)) <= qsize /\ Cardinality(Early(Limit)) <= Limit
  BY <1>1 DEF Inv, EarlyFit
<1>3. /\ Cardinality(Admitted) <= Cardinality(Early(qsize))
      /\ Cardinality(Admitted) <= Cardinality(Early(Limit))
  BY EarlyFinite, FS_Subset DEF Early
<1> QED BY <1>1, <1>2, <1>3, EarlyFinite, CardsNat DEF AdmittedFit

\* Dequeue never admits more consumers than qsize or the limit allows, for any
\* number of consumers and any interleaving of its counter operations.
THEOREM AdmissionSafe == Spec => []Admission
<1>1. Inv => AdmissionHolds
  <2>1. 0..Cardinality(Consumers) \subseteq Nat
    BY QueueAssumption, FS_CardinalityType
  <2> QED BY <2>1 DEF Inv, EarlyFit, AdmissionHolds
<1>2. Inv => Admission
  BY <1>1, InvAdmitted DEF Admission
<1> QED BY <1>2, Invariance, PTL

\* enqueue never lets more than Limit producers past its test.
THEOREM ProducersBounded == Spec => []ProducersFit
<1>1. Inv => ProducersFit
  BY DEF Inv
<1> QED BY <1>1, Invariance, PTL

\* qsize, the statistics and the Redis list differ by exactly the calls in
\* progress and the lost replies.
THEOREM BooksBalance == Spec => []Books
<1>1. Inv => Books
  BY DEF Inv, Booked, Books
<1> QED BY <1>1, Invariance, PTL

\* The size of a union of two disjoint finite sets.
LEMMA DisjointUnion ==
    ASSUME NEW S, NEW T, IsFiniteSet(S), IsFiniteSet(T), S \cap T = {}
    PROVE  /\ IsFiniteSet(S \cup T)
           /\ Cardinality(S \cup T) = Cardinality(S) + Cardinality(T)
<1>1. Cardinality(S \cap T) = 0
  BY FS_EmptySet
<1> QED BY <1>1, FS_Union, FS_CardinalityType

\* Admission leaves room: what consumers wait for is in the list or was lost.
LEMMA InvCovered ==
    Inv => /\ Cardinality(At("pop")) <= rlist + lostPop
           /\ Cardinality(Admitted) < qsize => Cardinality(At("pop")) < rlist + lostPop
<1> SUFFICES ASSUME Inv
             PROVE  /\ Cardinality(At("pop")) <= rlist + lostPop
                    /\ Cardinality(Admitted) < qsize
                         => Cardinality(At("pop")) < rlist + lostPop
  OBVIOUS
<1>1. Admitted = (At("pop") \cup At("countOut")) \cup At("shrink")
  BY QueueAssumption DEF Inv, TypeOK, ProducerPC, ConsumerPC, Admitted, At
<1>2. /\ At("pop") \cap At("countOut") = {}
      /\ (At("pop") \cup At("countOut")) \cap At("shrink") = {}
  BY DEF At
<1>3. /\ IsFiniteSet(At("pop") \cup At("countOut"))
      /\ Cardinality(At("pop") \cup At("countOut"))
           = Cardinality(At("pop")) + Cardinality(At("countOut"))
  BY <1>2, SetsFinite, DisjointUnion
<1>4. Cardinality(Admitted) = Cardinality(At("pop") \cup At("countOut"))
                                + Cardinality(At("shrink"))
  BY <1>1, <1>2, <1>3, SetsFinite, DisjointUnion
<1>5. Cardinality(Admitted) <= qsize
  BY InvAdmitted DEF AdmittedFit
<1>6. /\ Cardinality(At("pop")) \in Nat /\ Cardinality(At("countOut")) \in Nat
      /\ Cardinality(At("shrink")) \in Nat /\ Cardinality(At("countIn")) \in Nat
      /\ Cardinality(At("grow")) \in Nat
  BY CardsNat
<1>7. rlist \in Nat /\ qsize \in Int /\ lostPush \in Nat /\ lostPop \in Nat
  BY DEF Inv, TypeOK
<1> QED BY <1>3, <1>4, <1>5, <1>6, <1>7 DEF Inv, Booked, Accounting

\* LPOP answers an admitted consumer with Nil only after a lost reply.
THEOREM EmptyPopMeansLoss == Spec => []NoEmptyPop
<1>1. Inv => NoEmptyPop
  BY InvCovered DEF NoEmptyPop, Inv, TypeOK
<1> QED BY <1>1, Invariance, PTL

\* Once a pause is answered no call is in progress and none begins.
THEOREM PauseQuiets == Spec => []PausedIsQuiet
<1>1. Inv => PausedIsQuiet
  BY DEF Inv
<1> QED BY <1>1, Invariance, PTL

-----------------------------------------------------------------------------
(* Refinement: the counters implement reservations. *)

\* A registered queue starts as a list with nothing reserved.
LEMMA RefineInit == Init => R!Init
<1> SUFFICES ASSUME Init PROVE R!Init
  OBVIOUS
<1>1. At("pop") = {}
  BY DEF Init, At
<1> QED BY <1>1, FS_EmptySet, QueueAssumption DEF Init, R!Init

\* A step of enqueue stores a request or changes nothing one can see.
LEMMA RefineEnqueue ==
    ASSUME Inv, NEW p \in Producers, Enqueue(p)
    PROVE  R!Put \/ UNCHANGED R!vars
<1>1. At("pop")' = At("pop")
  BY QueueAssumption
     DEF Enqueue, EnqBegin, EnqPush, EnqCount, EnqGrow, EnqLeave, Goto, At, Inv, TypeOK,
         ProducerPC
<1>2. lostPop' = lostPop
  BY DEF Enqueue, EnqBegin, EnqPush, EnqCount, EnqGrow, EnqLeave, history
<1>3. rlist' = rlist \/ rlist' = rlist + 1
  BY DEF Enqueue, EnqBegin, EnqPush, EnqCount, EnqGrow, EnqLeave, redis
<1> QED BY <1>1, <1>2, <1>3 DEF R!Put, R!vars

\* A step of Dequeue reserves, delivers, loses, cancels, misses, settles or
\* changes nothing one can see.
LEMMA RefineDequeue ==
    ASSUME Inv, Inv', NEW c \in Consumers, Dequeue(c)
    PROVE  R!Next \/ UNCHANGED R!vars
<1> USE DEF R!Next, R!vars
<1>0. c \in Procs /\ TypeOK /\ rlist \in Nat /\ lostPop \in Nat
      /\ Cardinality(At("pop")) \in Nat
  BY CardsNat DEF Procs, Inv, TypeOK
<1>1. CASE DeqAdmit(c)
  <2>1. pc[c] = "load" /\ UNCHANGED <<rlist, lostPop, qsize>>
    BY <1>1 DEF DeqAdmit, redis, history
  <2>2. CASE Goto(c, "pop")
    <3>1. Cardinality(At("pop")') = Cardinality(At("pop")) + 1
      BY <1>0, <2>1, <2>2, AtMoves DEF ConsumerPC
    <3>2. c \notin Admitted /\ Admitted' = Admitted \cup {c}
      BY <2>1, <2>2 DEF Admitted, Goto, Inv, TypeOK
    <3>3. Cardinality(Admitted') = Cardinality(Admitted) + 1
      BY <3>2, SetsFinite, FS_AddElement
    <3>4. Cardinality(Admitted') <= qsize'
      <4>1. AdmittedFit'
        BY InvAdmitted, PTL
      <4> QED BY <4>1 DEF AdmittedFit
    <3>5. Cardinality(Admitted) < qsize
      BY <2>1, <3>3, <3>4, CardsNat DEF Inv, TypeOK
    <3>6. Cardinality(At("pop")) < rlist + lostPop
      BY <3>5, InvCovered
    <3> QED BY <2>1, <3>1, <3>6 DEF R!Reserve
  <2>3. CASE Goto(c, "leave") \/ Goto(c, "leaveIdle")
    <3>1. At("pop")' = At("pop")
      BY <2>1, <2>3, <1>0, AtMoves DEF ConsumerPC
    <3> QED BY <2>1, <3>1
  <2> QED BY <1>1, <2>2, <2>3 DEF DeqAdmit
<1>2. CASE DeqPop(c)
  <2>1. pc[c] = "pop" /\ \E b \in {"countOut", "leave", "leaveIdle"} : Goto(c, b)
    BY <1>2 DEF DeqPop
  <2>2. /\ Cardinality(At("pop")') = Cardinality(At("pop")) - 1
        /\ Cardinality(At("pop")) > 0
    <3>1. PICK b \in {"countOut", "leave", "leaveIdle"} : Goto(c, b)
      BY <2>1
    <3>2. Cardinality(At("pop")') = Cardinality(At("pop")) - 1
      BY <2>1, <3>1, <1>0, AtMoves DEF ConsumerPC
    <3>3. Cardinality(At("pop")') \in Nat
      BY SetsFinite, FS_CardinalityType
    <3> QED BY <1>0, <3>2, <3>3
  <2>3. CASE rlist > 0 /\ rlist' = rlist - 1 /\ lostPop' = lostPop
    BY <2>2, <2>3 DEF R!Deliver
  <2>4. CASE rlist = 0 /\ UNCHANGED <<rlist, lostPop>>
    BY <1>0, <2>2, <2>4, InvCovered DEF R!Miss
  <2>5. CASE rlist > 0 /\ rlist' = rlist - 1 /\ lostPop' = lostPop + 1
    BY <2>2, <2>5 DEF R!Lose
  <2>6. CASE UNCHANGED <<rlist, lostPop>>
    BY <2>2, <2>6 DEF R!Cancel
  <2> QED BY <1>2, <2>3, <2>4, <2>5, <2>6 DEF DeqPop
<1>3. CASE DeqBegin(c) \/ DeqCount(c) \/ DeqShrink(c) \/ DeqLeave(c)
  <2>1. At("pop")' = At("pop")
    BY <1>3 DEF DeqBegin, DeqCount, DeqShrink, DeqLeave, Goto, At, Inv, TypeOK
  <2>2. UNCHANGED <<rlist, lostPop>>
    BY <1>3 DEF DeqBegin, DeqCount, DeqShrink, DeqLeave, redis, history
  <2> QED BY <2>1, <2>2
<1>4. CASE DeqSync(c)
  <2>1. LockFree /\ (Recount \/ RecountFails)
    BY <1>4 DEF DeqSync
  <2>2. LockFree'
    BY <1>4, <2>1, QueueAssumption DEF DeqSync, LockFree, Queuing, Dequeuing, Goto, Inv, TypeOK
  <2>3. Cardinality(At("pop")) = 0 /\ Cardinality(At("pop")') = 0
    <3>1. Cardinality(At("pop")) = 0
      BY <1>0, <2>1, QuietBooks
    <3>2. At("pop")' = {}
      BY <2>2 DEF LockFree, Queuing, Dequeuing, At
    <3> QED BY <3>1, <3>2, FS_EmptySet
  <2> QED BY <2>1, <2>3 DEF Recount, RecountFails, redis, history, R!Settle
<1> QED BY <1>1, <1>2, <1>3, <1>4 DEF Dequeue

\* A recount settles the debt and a clear wipes the list, with nothing reserved.
LEMMA RefineAlone ==
    ASSUME Inv,
           \/ Sync
           \/ \E erase \in BOOLEAN : Clear(erase)
           \/ \E s \in Statuses : SetStatus(s)
    PROVE  R!Next \/ UNCHANGED R!vars
<1> USE DEF R!Next, R!vars
<1>1. LockFree /\ pc' = pc
  BY DEF Sync, Clear, SetStatus
<1>2. /\ Cardinality(At("pop")) = 0
      /\ Cardinality(At("pop")') = Cardinality(At("pop"))
  BY <1>1, QuietBooks DEF At, Inv
<1>3. CASE Sync
  BY <1>2, <1>3 DEF Sync, Recount, RecountFails, redis, history, R!Settle
<1>4. ASSUME NEW erase \in BOOLEAN, Clear(erase) PROVE R!Next \/ UNCHANGED R!vars
  <2>1. \/ rlist' = 0 /\ lostPop' \in {0, lostPop + rlist}
        \/ UNCHANGED <<rlist, lostPop>>
    BY <1>4 DEF Clear, redis, history
  <2> QED BY <1>2, <2>1 DEF R!Wipe
<1>5. ASSUME NEW s \in Statuses, SetStatus(s) PROVE R!Next \/ UNCHANGED R!vars
  BY <1>2, <1>5 DEF SetStatus, history
<1> QED BY <1>3, <1>4, <1>5

\* A consumer is admitted only to a stored request nobody else was admitted to,
\* up to the removals whose reply was lost.
THEOREM QueueRefines == Spec => ImplementsReservedQueue
<1>1. Inv /\ Inv' /\ [Next]_vars => [R!Next]_(R!vars)
  <2> SUFFICES ASSUME Inv, Inv', [Next]_vars PROVE R!Next \/ UNCHANGED R!vars
    OBVIOUS
  <2>1. CASE UNCHANGED vars
    BY <2>1 DEF vars, redis, history, R!vars, At
  <2>2. CASE Next
    <3>1. CASE \E p \in Producers : Enqueue(p)
      BY <3>1, RefineEnqueue DEF R!Next
    <3>2. CASE \E c \in Consumers : Dequeue(c)
      BY <3>2, RefineDequeue
    <3> QED BY <2>2, <3>1, <3>2, RefineAlone DEF Next
  <2> QED BY <2>1, <2>2
<1> QED BY <1>1, RefineInit, Invariance, PTL DEF Spec, ImplementsReservedQueue, R!Spec

=============================================================================
