--------------------------- MODULE QueueBoxProofs ---------------------------
(***************************************************************************)
(* Proofs about QueueBox, for any finite set of queues, any clients, any   *)
(* number of clean-ups that overlap as they like, and any bounds.          *)
(***************************************************************************)
EXTENDS QueueBox, FiniteSetTheorems, TLAPS

\* The progress of a cleaner.
Progress == [step : CleanSteps, old : ServStatuses, del : BOOLEAN,
             todo : SUBSET QStatuses, class : QStatuses,
             batch : SUBSET Queues, at : Queues \cup {NoQueue},
             cleared : SUBSET Queues, failed : BOOLEAN,
             pausedCount : Nat]

-----------------------------------------------------------------------------
(* Types. *)

\* The invariant of types in three parts: the box with Redis and the history,
\* the clients and Load, and the cleaners.
BoxTypes ==
    /\ rlist \in [Queues -> Nat] /\ rpaused \subseteq Queues
    /\ statusQueues \in [QStatuses -> SUBSET Queues]
    /\ qstatus \in [Queues -> QStatuses]
    /\ qsize \in [Queues -> Int] /\ counted \in [Queues -> Int]
    /\ faults \in Nat /\ crashes \in Nat
    /\ abandoned \in [Queues -> Int]
    /\ dropped \subseteq Queues
    /\ muddled \in [Queues -> Nat] /\ pause \in [Queues -> Pauses]

ServTypes ==
    /\ serv \in ServStatuses
    /\ scan \subseteq Queues
    /\ phase \in {"lists", "paused", "done"}
    /\ pc \in [Clients -> Steps]
    /\ target \in [Clients -> Queues \cup {NoQueue}]
    /\ \A t \in Clients : pc[t] # "idle" => target[t] \in Queues

CleanerTypes ==
    /\ cl \in [Cleaners -> Progress]
    /\ \A k \in Cleaners : cl[k].step \in {"count", "zero"} => cl[k].at \in Queues

\* The types, part by part, before and after a step.
LEMMA TypeParts ==
    /\ TypeOK <=> BoxTypes /\ ServTypes /\ CleanerTypes
    /\ TypeOK' <=> BoxTypes' /\ ServTypes' /\ CleanerTypes'
BY DEF TypeOK, BoxTypes, ServTypes, CleanerTypes, Progress

\* What a sync, successful or not, does to the types of what it changes.
LEMMA SyncType ==
    ASSUME BoxTypes, NEW q \in Queues, SyncOk(q) \/ SyncFails
    PROVE  BoxTypes'
<1> USE DEF BoxTypes
<1>1. CASE SyncOk(q)
  <2>1. SyncedStatus(q) \in QStatuses
    BY DEF SyncedStatus, QStatuses
  <2> QED BY <1>1, <2>1 DEF SyncOk, SetMaps, Moved, Without, redis, budget
<1>2. CASE SyncFails
  BY <1>2 DEF SyncFails, Fault, redis, box, object, history
<1> QED BY <1>1, <1>2

\* No step of a request breaks a type.
LEMMA RequestType ==
    ASSUME TypeOK, NEW t \in Clients, Request(t)
    PROVE  TypeOK'
<1>1. BoxTypes /\ ServTypes /\ CleanerTypes
  BY TypeParts
<1>2. UNCHANGED cl
  BY DEF Request, Begin, EnqueueShared, NotWorking, EnqueueExclusive, EnqueueNew, EnqueuePaused,
         DequeueShared, DequeueTrailing, Proceed
<1>3. BoxTypes' /\ ServTypes'
  <2> USE <1>1
  <2>1. CASE \E q \in Queues, step \in {"shared", "dequeue"} : Begin(t, q, step)
    BY <2>1 DEF BoxTypes, ServTypes, Begin, Steps, redis, box, object, load, budget, history
  <2>2. CASE EnqueueShared(t)
    BY <2>2 DEF BoxTypes, ServTypes, EnqueueShared, NotWorking, Stored, StoredUnseen, NotStored,
                Fault, Proceed, Steps, redis, load, budget, history
  <2>3. CASE EnqueueExclusive(t)
    BY <2>3 DEF BoxTypes, ServTypes, EnqueueExclusive, EnqueueNew, EnqueuePaused, SyncFails,
                SetMaps, Moved, QStatuses, Stored, StoredUnseen, NotStored, Fault, Proceed, Steps,
                redis, box, object, load, budget, history
  <2>4. CASE DequeueShared(t)
    BY <2>4 DEF BoxTypes, ServTypes, DequeueShared, Fault, Proceed, Steps, redis, load, budget,
                history
  <2>5. CASE DequeueTrailing(t)
    <3>1. target[t] \in Queues
      BY <2>5 DEF ServTypes, DequeueTrailing
    <3>2. BoxTypes'
      BY <2>5, <3>1, SyncType DEF DequeueTrailing, BoxTypes, redis, box, object, budget, history
    <3>3. ServTypes'
      BY <2>5 DEF ServTypes, DequeueTrailing, Proceed, Steps, load
    <3> QED BY <3>2, <3>3
  <2> QED BY <2>1, <2>2, <2>3, <2>4, <2>5 DEF Request
<1> QED BY <1>1, <1>2, <1>3, TypeParts DEF CleanerTypes

\* No call of an operator breaks a type.
LEMMA OperateType ==
    ASSUME TypeOK, NEW q \in Queues, Operate(q)
    PROVE  TypeOK'
<1>1. BoxTypes /\ ServTypes /\ CleanerTypes
  BY TypeParts
<1>2. BoxTypes'
  <2>1. ASSUME NEW new \in QStatuses, SetStatus(q, new) PROVE BoxTypes'
    <3>1. pause' \in [Queues -> Pauses]
      BY <1>1, <2>1 DEF BoxTypes, SetStatus, PauseWritten, PauseRepeated, Pauses
    <3> QED BY <1>1, <2>1, <3>1 DEF BoxTypes, SetStatus, WithPaused, SetMaps, Moved, Fault, budget
  <2>2. CASE Sync(q)
    BY <1>1, <2>2, SyncType DEF Sync
  <2>3. CASE ClearQueue(q)
    BY <1>1, <2>3 DEF BoxTypes, ClearQueue, ClearOk, ClearFails, Fault, SetMaps, QStatuses, budget,
                      history
  <2>4. CASE DeleteQueue(q)
    BY <1>1, <2>4 DEF BoxTypes, DeleteQueue, ClearOk, ClearFails, Fault, SetMaps, QStatuses, Pauses,
                      budget
  <2> QED BY <2>1, <2>2, <2>3, <2>4 DEF Operate
<1>3. UNCHANGED <<serv, load, client, cl>>
  BY DEF Operate
<1> QED BY <1>1, <1>2, <1>3, TypeParts DEF ServTypes, CleanerTypes, load, client

\* A clean-up only changes the progress of its own cleaner.
LEMMA CleanMoves ==
    ASSUME TypeOK, NEW k \in Cleaners, Clean(k)
    PROVE  /\ cl' = [cl EXCEPT ![k] = cl'[k]]
           /\ \A j \in Cleaners : j # k => cl'[j] = cl[j]
<1>1. cl \in [Cleaners -> Progress]
  BY DEF TypeOK, Progress
<1>2. cl' = [cl EXCEPT ![k] = cl'[k]]
  <2> USE <1>1
  <2>1. CASE CleanClass(k)
    BY <2>1 DEF CleanClass
  <2>2. CASE CleanLoop(k)
    BY <2>2 DEF CleanLoop
  <2>3. CASE CleanIter(k)
    BY <2>3 DEF CleanIter
  <2>4. CASE CleanSweep(k)
    BY <2>4 DEF CleanSweep
  <2>5. CASE CleanCount(k)
    BY <2>5 DEF CleanCount
  <2>6. CASE CleanZero(k)
    BY <2>6 DEF CleanZero
  <2>7. CASE CleanUnlist(k)
    BY <2>7 DEF CleanUnlist
  <2>8. CASE CleanCheck(k)
    BY <2>8 DEF CleanCheck
  <2>9. CASE CleanEnd(k)
    BY <2>9 DEF CleanEnd
  <2> QED BY <2>1, <2>2, <2>3, <2>4, <2>5, <2>6, <2>7, <2>8, <2>9 DEF Clean
<1> QED BY <1>1, <1>2

\* The progress of a cleaner keeps its type.
LEMMA CleanerType ==
    ASSUME TypeOK, NEW k \in Cleaners, Clean(k)
    PROVE  /\ cl'[k] \in Progress
           /\ cl'[k].step \in {"count", "zero"} => cl'[k].at \in Queues
<1>1. cl \in [Cleaners -> Progress] /\ cl[k] \in Progress
  BY DEF TypeOK, Progress
<1>2. cl[k].step \in {"count", "zero"} => cl[k].at \in Queues
  BY Zenon DEF TypeOK
<1>3. cl[k].batch \subseteq Queues /\ cl[k].cleared \subseteq Queues
  BY <1>1 DEF Progress
<1>4. CASE CleanClass(k)
  <2>1. CASE cl' = [cl EXCEPT ![k].step = "end"]
    BY <1>1, <2>1 DEF Progress, CleanSteps
  <2>2. ASSUME NEW s \in cl[k].todo,
               cl' = [cl EXCEPT ![k].step = "loop", ![k].class = s, ![k].pausedCount = 0,
                                ![k].todo = @ \ {s}]
        PROVE  cl'[k] \in Progress /\ cl'[k].step = "loop"
    <3>1. cl'[k] = [cl[k] EXCEPT !.step = "loop", !.class = s, !.pausedCount = 0,
                                 !.todo = @ \ {s}]
      BY <1>1, <2>2
    <3> QED BY <1>1, <2>2, <3>1 DEF Progress, CleanSteps
  <2>3. cl' = [cl EXCEPT ![k].step = "end"] => cl'[k].step = "end"
    BY <1>1 DEF Progress
  <2> QED BY <1>4, <2>1, <2>2, <2>3 DEF CleanClass
<1>5. CASE CleanLoop(k)
  BY <1>1, <1>5 DEF CleanLoop, Progress, CleanSteps
<1>6. CASE CleanIter(k)
  <2>1. PICK b \in SUBSET Queues :
          cl'[k] = [cl[k] EXCEPT !.step = "sweep", !.batch = b, !.cleared = {}]
    BY <1>1, <1>6 DEF CleanIter, Batches, TypeOK, Progress
  <2> QED BY <1>1, <2>1 DEF Progress, CleanSteps
<1>7. CASE CleanSweep(k)
  <2>1. CASE cl' = [cl EXCEPT ![k].step = "unlist"]
    BY <1>1, <2>1 DEF Progress, CleanSteps
  <2>2. ASSUME NEW q \in cl[k].batch,
               cl' = [cl EXCEPT ![k].step = "count", ![k].at = q, ![k].batch = @ \ {q}]
        PROVE  cl'[k] \in Progress /\ cl'[k].at \in Queues
    <3>1. cl'[k] = [cl[k] EXCEPT !.step = "count", !.at = q, !.batch = @ \ {q}]
      BY <1>1, <2>2
    <3> QED BY <1>1, <1>3, <2>2, <3>1 DEF Progress, CleanSteps
  <2>3. CASE cl' = [cl EXCEPT ![k].step = "unlist", ![k].failed = TRUE, ![k].batch = {}]
    <3>1. cl'[k] = [cl[k] EXCEPT !.step = "unlist", !.failed = TRUE, !.batch = {}]
      BY <1>1, <2>3
    <3> QED BY <1>1, <3>1 DEF Progress, CleanSteps
  <2> QED BY <1>7, <2>1, <2>2, <2>3 DEF CleanSweep
<1>8. CASE CleanCount(k)
  BY <1>1, <1>2, <1>8 DEF CleanCount, Progress, CleanSteps
<1>9. CASE CleanZero(k)
  <2>1. cl[k].at \in Queues
    BY <1>2, <1>9 DEF CleanZero
  <2>2. cl'[k] = [cl[k] EXCEPT !.step = "sweep", !.at = NoQueue, !.cleared = @ \cup {cl[k].at}]
    BY <1>1, <1>9 DEF CleanZero
  <2>3. cl'[k].step = "sweep"
    BY <1>1, <2>2 DEF Progress
  <2>4. "sweep" \in CleanSteps /\ cl[k].cleared \cup {cl[k].at} \in SUBSET Queues
    BY <1>3, <2>1 DEF CleanSteps
  <2>5. cl'[k] \in Progress
    BY <1>1, <2>2, <2>4 DEF Progress
  <2> QED BY <2>3, <2>5
<1>10. CASE CleanUnlist(k)
  <2>1. ASSUME NEW q \in cl[k].cleared, cl' = [cl EXCEPT ![k].cleared = @ \ {q}],
               cl[k].step = "unlist"
        PROVE  cl'[k] \in Progress /\ cl'[k].step = "unlist"
    BY <1>1, <2>1 DEF Progress
  <2>2. ASSUME cl' = [cl EXCEPT ![k].step = "check", ![k].cleared = {}, ![k].pausedCount = Kept(k)]
        PROVE  cl'[k] \in Progress /\ cl'[k].step = "check"
    <3>1. cl'[k] = [cl[k] EXCEPT !.step = "check", !.cleared = {}, !.pausedCount = Kept(k)]
      BY <1>1, <2>2
    <3>2. Cardinality(cl[k].cleared) \in Nat
      BY <1>3, BoxAssumption, FS_Subset, FS_CardinalityType
    <3>3. Kept(k) \in Nat
      BY <1>1, <3>2 DEF Kept, Progress
    <3> QED BY <1>1, <3>1, <3>3 DEF Progress, CleanSteps
  <2> QED BY <1>10, <2>1, <2>2 DEF CleanUnlist
<1>11. CASE CleanCheck(k)
  BY <1>1, <1>11 DEF CleanCheck, Progress, CleanSteps
<1>12. CASE CleanEnd(k)
  BY <1>1, <1>12 DEF CleanEnd, IdleCleaner, Progress, CleanSteps, ServStatuses, QStatuses
<1> QED BY <1>4, <1>5, <1>6, <1>7, <1>8, <1>9, <1>10, <1>11, <1>12 DEF Clean

\* A sweep clears one queue, or tries to.
Swipe(k, q) ==
    /\ ClearOk(q, cl[k].del) \/ ClearFails(q, cl[k].del)
    /\ muddled' = IF Nested(k) THEN [muddled EXCEPT ![q] = @ + 1] ELSE muddled
    /\ pause' = IF cl[k].del THEN [pause EXCEPT ![q] = "revoked"] ELSE pause

\* What a step of a sweep does to Redis: it clears one queue of the batch, or
\* fails to, or finds the batch done.
LEMMA SweepShape ==
    ASSUME NEW k \in Cleaners, CleanSweep(k)
    PROVE  \/ \E q \in cl[k].batch : Swipe(k, q)
           \/ UNCHANGED <<redis, budget, muddled, pause>>
BY ZenonT(20) DEF CleanSweep, Swipe

\* The outcomes of the Redis commands of one such Clear.
LEMMA SweepEffect ==
    ASSUME NEW k \in Cleaners, NEW q \in cl[k].batch, Swipe(k, q)
    PROVE  /\ rlist' \in {rlist, [rlist EXCEPT ![q] = 0]}
           /\ rpaused' \in {rpaused, rpaused \ {q}}
           /\ UNCHANGED budget \/ Fault
           /\ muddled' \in {muddled, [muddled EXCEPT ![q] = @ + 1]}
           /\ pause' \in {pause, [pause EXCEPT ![q] = "revoked"]}
           /\ rpaused' = rpaused \/ pause' = [pause EXCEPT ![q] = "revoked"]
BY SMT DEF Swipe, ClearOk, ClearFails

\* No step of a clean-up breaks a type.
LEMMA CleanType ==
    ASSUME TypeOK, NEW k \in Cleaners, Clean(k)
    PROVE  TypeOK'
<1>1. BoxTypes /\ ServTypes /\ CleanerTypes
  BY TypeParts
<1>2. CleanerTypes'
  BY <1>1, CleanMoves, CleanerType DEF CleanerTypes
<1>3. /\ cl[k].step \in {"count", "zero"} => cl[k].at \in Queues
      /\ cl[k].batch \subseteq Queues /\ cl[k].cleared \subseteq Queues
      /\ cl[k].old \in ServStatuses /\ cl[k].class \in QStatuses
  BY <1>1 DEF CleanerTypes, Progress
<1>4. BoxTypes'
  <2> USE <1>1, <1>3 DEF BoxTypes
  <2>1. CASE CleanClass(k) \/ CleanLoop(k) \/ CleanIter(k) \/ CleanCheck(k)
    BY <2>1 DEF CleanClass, CleanLoop, CleanIter, CleanCheck, CleanerOnly, redis, box, object,
                budget, history
  <2>2. CASE CleanSweep(k)
    <3>1. ASSUME NEW q \in cl[k].batch, Swipe(k, q) PROVE BoxTypes'
      <4>1. /\ rlist' \in {rlist, [rlist EXCEPT ![q] = 0]}
            /\ rpaused' \in {rpaused, rpaused \ {q}}
            /\ UNCHANGED budget \/ Fault
            /\ muddled' \in {muddled, [muddled EXCEPT ![q] = @ + 1]}
            /\ pause' \in {pause, [pause EXCEPT ![q] = "revoked"]}
        BY <3>1, SweepEffect
      <4>2. UNCHANGED <<box, abandoned, dropped>>
        BY <2>2 DEF CleanSweep
      <4> QED BY <4>1, <4>2 DEF Fault, Pauses, box, object, budget
    <3>2. CASE UNCHANGED <<redis, budget, muddled, pause>>
      BY <2>2, <3>2 DEF CleanSweep, redis, budget, box, object
    <3> QED BY <2>2, <3>1, <3>2, SweepShape
  <2>3. CASE CleanCount(k)
    BY <2>3 DEF CleanCount, redis, object, budget, history
  <2>4. CASE CleanZero(k)
    BY <2>4 DEF CleanZero, redis, budget, history
  <2>5. CASE CleanUnlist(k)
    BY <2>5 DEF CleanUnlist, SetMaps, QStatuses, Pauses, redis, object, budget
  <2>6. CASE CleanEnd(k)
    BY <2>6 DEF CleanEnd, redis, box, object, budget, history
  <2> QED BY <2>1, <2>2, <2>3, <2>4, <2>5, <2>6 DEF Clean
<1>5. ServTypes'
  BY <1>1, <1>3 DEF ServTypes, Clean, CleanClass, CleanLoop, CleanIter, CleanCheck, CleanerOnly,
       CleanSweep, CleanCount, CleanZero, CleanUnlist, CleanEnd, load, client
<1> QED BY <1>2, <1>4, <1>5, TypeParts

\* A process that has just started has its types.
LEMMA EmptyType ==
    ASSUME TypeOK, Empty, faults' \in Nat, crashes' \in Nat
    PROVE  TypeOK'
<1>1. IdleCleaner \in Progress
  BY DEF IdleCleaner, Progress, CleanSteps, ServStatuses, QStatuses
<1>2. CleanerTypes'
  BY <1>1 DEF Empty, IdleCleaner, CleanerTypes
<1>3. BoxTypes'
  BY TypeParts DEF Empty, BoxTypes, QStatuses, Pauses, redis
<1>4. ServTypes'
  BY DEF Empty, ServTypes, ServStatuses, Steps
<1> QED BY <1>2, <1>3, <1>4, TypeParts

\* No step of Load breaks a type.
LEMMA LoadType ==
    ASSUME TypeOK, Load
    PROVE  TypeOK'
<1>1. BoxTypes /\ ServTypes /\ CleanerTypes
  BY TypeParts
<1>2. ASSUME NEW q \in Queues, LoadQueue(q) PROVE TypeOK'
  <2>1. BoxTypes'
    <3>1. CASE SyncOk(q)
      BY <1>1, <3>1, SyncType
    <3>2. CASE Skip(q)
      BY <1>1, <3>2 DEF BoxTypes, Skip, redis, box, object, budget
    <3> QED BY <1>2, <3>1, <3>2 DEF LoadQueue
  <2>2. ServTypes' /\ CleanerTypes'
    BY <1>1, <1>2 DEF ServTypes, CleanerTypes, LoadQueue, client, ServStatuses
  <2> QED BY <2>1, <2>2, TypeParts
<1>3. CASE LoadPaused
  BY <1>1, <1>3, TypeParts DEF BoxTypes, ServTypes, CleanerTypes, LoadPaused, redis, box, object,
                               client, budget, history
<1>4. CASE Start
  BY <1>1, <1>4, TypeParts DEF BoxTypes, ServTypes, CleanerTypes, Start, redis, box, object, client,
                               budget, history, ServStatuses
<1> QED BY <1>2, <1>3, <1>4 DEF Load

\* Types are inductive.
LEMMA TypeStep == TypeOK /\ [Next]_vars => TypeOK'
<1> SUFFICES ASSUME TypeOK, [Next]_vars PROVE TypeOK'
  OBVIOUS
<1>1. ASSUME NEW q \in Operated, Operate(q) PROVE TypeOK'
  BY <1>1, OperateType, BoxAssumption
<1>2. ASSUME NEW new \in QStatuses, Toggle(new) PROVE TypeOK'
  BY <1>2, TypeParts DEF BoxTypes, ServTypes, CleanerTypes, Toggle, QStatuses, ServStatuses, redis,
                         box, object, load, client, budget, history
<1>3. ASSUME NEW k \in Cleaners, NEW del \in BOOLEAN, CleanBegin(k, del) PROVE TypeOK'
  <2> DEFINE next == [IdleCleaner EXCEPT !.step = "class", !.old = serv, !.del = del,
                                         !.todo = QStatuses]
  <2>1. next \in Progress /\ next.step = "class"
    BY DEF TypeOK, IdleCleaner, Progress, CleanSteps, ServStatuses, QStatuses
  <2>2. cl' = [cl EXCEPT ![k] = next]
    BY <1>3 DEF CleanBegin
  <2> HIDE DEF next
  <2>3. CleanerTypes'
    BY <2>1, <2>2, TypeParts DEF CleanerTypes
  <2> QED BY <1>3, <2>3, TypeParts DEF BoxTypes, ServTypes, CleanBegin, ServStatuses, redis, box,
                                       object, load, client, budget, history
<1>4. CASE LoadFails \/ Crash
  BY <1>4, EmptyType DEF LoadFails, Crash, Fault, TypeOK
<1>5. CASE UNCHANGED vars
  BY <1>5, TypeParts DEF BoxTypes, ServTypes, CleanerTypes, vars, redis, box, object, load, client,
                         budget, history
<1> QED BY <1>1, <1>2, <1>3, <1>4, <1>5, RequestType, CleanType, LoadType DEF Next

\* The invariant of types holds in every state.
THEOREM TypeCorrect == Spec => []TypeOK
<1>1. Init => TypeOK
  <2> SUFFICES ASSUME Init PROVE TypeOK
    OBVIOUS
  <2>1. IdleCleaner \in Progress
    BY DEF IdleCleaner, Progress, CleanSteps, ServStatuses, QStatuses
  <2>2. cl \in [Cleaners -> Progress] /\ \A k \in Cleaners : cl[k].step = "idle"
    BY <2>1 DEF Init, IdleCleaner
  <2> QED BY <2>2, BoxAssumption DEF Init, TypeOK, Progress, QStatuses, ServStatuses, Steps, Pauses
<1> QED BY <1>1, TypeStep, PTL DEF Spec

-----------------------------------------------------------------------------
(* The maps and the objects agree. *)

\* A sync of one queue leaves it where its own status says, or unregistered and
\* empty.
LEMMA SyncCoherent ==
    ASSUME BoxTypes, Coherent, NEW q \in Queues, SyncOk(q)
    PROVE  Coherent'
BY DEF BoxTypes, Coherent, SyncOk, SyncedStatus, SetMaps, Moved, Without, Registered, Working,
       Paused, QStatuses, redis

\* No request registers a queue under another status than its own.
LEMMA RequestCoherent ==
    ASSUME TypeOK, Coherent, NEW t \in Clients, Request(t)
    PROVE  Coherent'
<1>1. BoxTypes /\ ServTypes
  BY TypeParts
<1>2. CASE \E q \in Queues, step \in {"shared", "dequeue"} : Begin(t, q, step)
  BY <1>2 DEF Coherent, Registered, Working, Paused, Begin, box, object
<1>3. CASE EnqueueShared(t)
  BY <1>1, <1>3 DEF BoxTypes, ServTypes, Coherent, Registered, Working, Paused, QStatuses,
                    EnqueueShared, NotWorking
<1>4. CASE EnqueueExclusive(t)
  BY <1>1, <1>4 DEF BoxTypes, ServTypes, Coherent, Registered, Working, Paused, QStatuses,
                    EnqueueExclusive, EnqueueNew, EnqueuePaused, SyncFails, SetMaps, Moved, box,
                    object
<1>5. CASE DequeueShared(t)
  BY <1>1, <1>5 DEF BoxTypes, ServTypes, Coherent, Registered, Working, Paused, QStatuses,
                    DequeueShared
<1>6. CASE DequeueTrailing(t)
  <2>1. target[t] \in Queues
    BY <1>1, <1>6 DEF ServTypes, DequeueTrailing
  <2>2. SyncOk(target[t]) \/ UNCHANGED box
    BY <1>6 DEF DequeueTrailing, SyncFails
  <2> QED BY <1>1, <2>1, <2>2, SyncCoherent DEF Coherent, Registered, Working, Paused, box, object
<1> QED BY <1>2, <1>3, <1>4, <1>5, <1>6 DEF Request

\* Nor does a call of an operator.
LEMMA OperateCoherent ==
    ASSUME TypeOK, Coherent, NEW q \in Queues, Operate(q)
    PROVE  Coherent'
<1>1. BoxTypes
  BY TypeParts
<1>2. ASSUME NEW new \in QStatuses, SetStatus(q, new) PROVE Coherent'
  BY <1>1, <1>2 DEF BoxTypes, Coherent, Registered, Working, Paused, QStatuses, SetStatus, SetMaps,
                    Moved
<1>3. CASE Sync(q)
  BY <1>1, <1>3, SyncCoherent DEF Sync, SyncFails, Coherent, Registered, Working, Paused, box, object
<1>4. CASE ClearQueue(q)
  BY <1>1, <1>4 DEF BoxTypes, Coherent, Registered, Working, Paused, QStatuses, ClearQueue, ClearOk,
                    ClearFails, SetMaps
<1>5. CASE DeleteQueue(q)
  BY <1>1, <1>5 DEF BoxTypes, Coherent, Registered, Working, Paused, QStatuses, DeleteQueue, ClearOk,
                    ClearFails, SetMaps
<1> QED BY <1>2, <1>3, <1>4, <1>5 DEF Operate

\* Nor does a clean-up, although it unregisters one queue at a time.
LEMMA CleanCoherent ==
    ASSUME TypeOK, Coherent, NEW k \in Cleaners, Clean(k)
    PROVE  Coherent'
<1>1. BoxTypes /\ CleanerTypes
  BY TypeParts
<1>2. /\ cl[k].step \in {"count", "zero"} => cl[k].at \in Queues
      /\ cl[k].cleared \subseteq Queues /\ cl[k].class \in QStatuses
  BY <1>1 DEF CleanerTypes, Progress
<1>3. CASE UNCHANGED <<statusQueues, object>>
  BY <1>3 DEF Coherent, Registered, Working, Paused, object
<1>4. CASE CleanZero(k)
  <2>1. cl[k].at \in Queues /\ qsize' = [qsize EXCEPT ![cl[k].at] = 0]
    BY <1>2, <1>4 DEF CleanZero
  <2>2. UNCHANGED <<statusQueues, qstatus>>
    BY <1>4 DEF CleanZero
  <2> QED BY <1>1, <2>1, <2>2 DEF BoxTypes, Coherent, Registered, Working, Paused
<1>5. CASE CleanUnlist(k)
  BY <1>1, <1>2, <1>5 DEF BoxTypes, Coherent, Registered, Working, Paused, QStatuses, CleanUnlist,
                          SetMaps, object
<1>6. CleanClass(k) \/ CleanLoop(k) \/ CleanIter(k) \/ CleanCheck(k) \/ CleanEnd(k)
        => UNCHANGED <<statusQueues, object>>
  BY DEF CleanClass, CleanLoop, CleanIter, CleanCheck, CleanEnd, CleanerOnly, box
<1>7. CleanSweep(k) \/ CleanCount(k) => UNCHANGED <<statusQueues, object>>
  BY DEF CleanSweep, CleanCount, box
<1> QED BY <1>3, <1>4, <1>5, <1>6, <1>7 DEF Clean

\* Coherence is inductive, given the types.
LEMMA CoherentStep == TypeOK /\ Coherent /\ [Next]_vars => Coherent'
<1> SUFFICES ASSUME TypeOK, Coherent, [Next]_vars PROVE Coherent'
  OBVIOUS
<1>1. ASSUME NEW q \in Operated, Operate(q) PROVE Coherent'
  BY <1>1, OperateCoherent, BoxAssumption
<1>2. CASE UNCHANGED box
  BY <1>2 DEF Coherent, Registered, Working, Paused, box, object
<1>3. ASSUME NEW q \in Queues, LoadQueue(q) PROVE Coherent'
  BY <1>2, <1>3, SyncCoherent, TypeParts DEF LoadQueue, Skip
<1>4. CASE Empty
  BY <1>4 DEF Empty, Coherent, Registered, Working, Paused, QStatuses
<1> QED BY <1>1, <1>2, <1>3, <1>4, RequestCoherent, CleanCoherent
        DEF Next, Toggle, CleanBegin, Load, LoadPaused, Start, LoadFails, Crash, vars

\* A queue is in at most one map, the one its own status names, and an object
\* that left the maps is as new.
THEOREM CoherentCorrect == Spec => []Coherent
<1>1. Init => Coherent
  BY DEF Init, Coherent, Registered, Working, Paused, QStatuses
<1> QED BY <1>1, CoherentStep, TypeCorrect, PTL DEF Spec

-----------------------------------------------------------------------------
(* An answered pause. *)

\* The invariant: a pause that Redis holds is in its set, and its queue is not among
\* the working ones, even while Load is rebuilding the maps; one answered without
\* a write has the queue among the paused ones; and an object that is paused is so
\* in Redis too, unless a resume or a deletion has been tried.
PauseKept ==
    \A q \in Queues :
        /\ pause[q] = "saved" => q \in rpaused /\ q \notin Working
        /\ pause[q] = "unsaved" => q \in Paused
        /\ qstatus[q] = "paused" => q \in rpaused \/ pause[q] \in {"revoked", "unsaved"}

\* A sync reads the Redis set before it decides on a map.
LEMMA SyncKeepsPause ==
    ASSUME BoxTypes, Coherent, PauseKept, NEW q \in Queues, SyncOk(q)
    PROVE  PauseKept'
BY DEF BoxTypes, Coherent, PauseKept, SyncOk, SyncedStatus, SetMaps, Moved, Without, Working, Paused,
       QStatuses, redis

\* A request registers a queue as working only after Redis said it is not paused.
LEMMA RequestKeepsPause ==
    ASSUME TypeOK, Coherent, PauseKept, NEW t \in Clients, Request(t)
    PROVE  PauseKept'
<1>1. BoxTypes /\ ServTypes
  BY TypeParts
<1>2. CASE UNCHANGED <<rpaused, statusQueues, qstatus, pause>>
  BY <1>2 DEF PauseKept, Working, Paused
<1>3. CASE EnqueueExclusive(t)
  <2>1. target[t] \in Queues
    BY <1>1, <1>3 DEF ServTypes, EnqueueExclusive
  <2>2. CASE EnqueueNew(t) /\ target[t] \notin Registered /\ target[t] \notin rpaused
    BY <1>1, <2>1, <2>2 DEF BoxTypes, Coherent, PauseKept, Registered, Working, Paused, QStatuses,
                            EnqueueNew, SetMaps, Moved, Stored, StoredUnseen, NotStored, redis
  <2>3. CASE EnqueuePaused(t) /\ target[t] \in rpaused
    BY <1>1, <2>1, <2>3 DEF BoxTypes, Coherent, PauseKept, Registered, Working, Paused, QStatuses,
                            EnqueuePaused, SetMaps, Moved, redis
  <2>4. CASE UNCHANGED <<redis, box, history>>
    BY <1>2, <2>4 DEF redis, box, object, history
  <2> QED BY <1>3, <2>2, <2>3, <2>4 DEF EnqueueExclusive, SyncFails
<1>4. CASE DequeueTrailing(t)
  <2>1. target[t] \in Queues
    BY <1>1, <1>4 DEF ServTypes, DequeueTrailing
  <2>2. SyncOk(target[t]) \/ UNCHANGED <<rpaused, statusQueues, qstatus, pause>>
    BY <1>4 DEF DequeueTrailing, SyncFails, redis, box, object, history
  <2> QED BY <1>1, <1>2, <2>1, <2>2, SyncKeepsPause
<1>5. ASSUME EnqueueShared(t) \/ DequeueShared(t)
      PROVE  UNCHANGED <<rpaused, statusQueues, qstatus, pause>>
  BY <1>5 DEF EnqueueShared, NotWorking, Stored, StoredUnseen, NotStored, DequeueShared, redis,
              history
<1>6. ASSUME NEW q \in Queues, NEW step, Begin(t, q, step)
      PROVE  UNCHANGED <<rpaused, statusQueues, qstatus, pause>>
  BY <1>6 DEF Begin, redis, box, object, history
<1> QED BY <1>2, <1>3, <1>4, <1>5, <1>6 DEF Request

\* The operator's calls revoke a pause before Redis forgets it, and only an object
\* that is paused is paused again without a write.
LEMMA OperateKeepsPause ==
    ASSUME TypeOK, Coherent, PauseKept, NEW q \in Queues, Operate(q)
    PROVE  PauseKept'
<1>1. BoxTypes
  BY TypeParts
<1>2. ASSUME NEW new \in QStatuses, SetStatus(q, new) PROVE PauseKept'
  <2>1. q \in Registered /\ (qstatus[q] = "paused" => q \in Paused)
    BY <1>2 DEF SetStatus, Coherent, Registered, Working, Paused, QStatuses
  <2>2. CASE /\ qstatus[q] = new /\ UNCHANGED <<rpaused, qstatus, statusQueues>>
             /\ pause' = IF new = "paused" THEN PauseRepeated(q) ELSE PauseWritten(q, new)
    BY <1>1, <2>1, <2>2 DEF BoxTypes, Coherent, PauseKept, Working, Paused, QStatuses, PauseRepeated,
                            PauseWritten, Pauses
  <2>3. CASE /\ qstatus[q] # new /\ rpaused' = WithPaused(q, new) /\ SetMaps(Moved(q, new))
             /\ qstatus' = [qstatus EXCEPT ![q] = new] /\ pause' = PauseWritten(q, new)
    BY <1>1, <2>1, <2>3 DEF BoxTypes, Coherent, PauseKept, Working, Paused, QStatuses, WithPaused,
                            PauseWritten, SetMaps, Moved
  <2>4. CASE /\ qstatus[q] # new /\ rpaused' \in {rpaused, WithPaused(q, new)}
             /\ pause' = IF new = "paused" THEN pause ELSE [pause EXCEPT ![q] = "revoked"]
             /\ UNCHANGED <<qstatus, statusQueues>>
    BY <1>1, <2>1, <2>4 DEF BoxTypes, Coherent, PauseKept, Working, Paused, QStatuses, WithPaused
  <2> QED BY <1>2, <2>2, <2>3, <2>4 DEF SetStatus
<1>3. CASE Sync(q)
  BY <1>1, <1>3, SyncKeepsPause DEF Sync, SyncFails, PauseKept, Working, Paused, redis, box, object,
                                    history
<1>4. CASE ClearQueue(q)
  BY <1>1, <1>4 DEF BoxTypes, Coherent, PauseKept, Working, Paused, QStatuses, ClearQueue, ClearOk,
                    ClearFails, SetMaps, history
<1>5. CASE DeleteQueue(q)
  BY <1>1, <1>5 DEF BoxTypes, Coherent, PauseKept, Working, Paused, QStatuses, DeleteQueue, ClearOk,
                    ClearFails, SetMaps
<1> QED BY <1>2, <1>3, <1>4, <1>5 DEF Operate

\* A clean-up erases a pause only where it deletes the queue.
LEMMA CleanKeepsPause ==
    ASSUME TypeOK, Coherent, PauseKept, NEW k \in Cleaners, Clean(k)
    PROVE  PauseKept'
<1>1. BoxTypes /\ CleanerTypes
  BY TypeParts
<1>2. CASE UNCHANGED <<rpaused, statusQueues, qstatus, pause>>
  BY <1>2 DEF PauseKept, Working, Paused
<1>3. CASE CleanSweep(k)
  <2>1. UNCHANGED <<statusQueues, qstatus>>
    BY <1>3 DEF CleanSweep, box, object
  <2>2. CASE UNCHANGED <<redis, budget, muddled, pause>>
    BY <1>2, <2>1, <2>2 DEF redis
  <2>3. ASSUME NEW q \in cl[k].batch, Swipe(k, q) PROVE PauseKept'
    <3>1. /\ rpaused' \in {rpaused, rpaused \ {q}}
          /\ pause' \in {pause, [pause EXCEPT ![q] = "revoked"]}
          /\ rpaused' = rpaused \/ pause' = [pause EXCEPT ![q] = "revoked"]
      BY <2>3, SweepEffect
    <3> QED BY <1>1, <2>1, <3>1 DEF BoxTypes, PauseKept, Working, Paused
  <2> QED BY <1>3, <2>2, <2>3, SweepShape
<1>4. CASE CleanUnlist(k)
  <2>1. rpaused' = rpaused /\ cl[k].class \in QStatuses /\ cl[k].cleared \subseteq Queues
    BY <1>1, <1>4 DEF CleanUnlist, CleanerTypes, Progress, redis
  <2>2. \/ UNCHANGED <<statusQueues, qstatus, pause>>
        \/ \E q \in cl[k].cleared :
             /\ statusQueues' = [statusQueues EXCEPT ![cl[k].class] = @ \ {q}]
             /\ IF q \in statusQueues[cl[k].class]
                THEN /\ qstatus' = [qstatus EXCEPT ![q] = "working"]
                     /\ pause' = [pause EXCEPT ![q] = IF @ = "saved" THEN @ ELSE "none"]
                ELSE UNCHANGED <<qstatus, pause>>
    BY <1>4 DEF CleanUnlist, SetMaps, object
  <2>3. CASE UNCHANGED <<statusQueues, qstatus, pause>>
    BY <1>2, <2>1, <2>3
  <2>4. ASSUME NEW q \in cl[k].cleared,
               statusQueues' = [statusQueues EXCEPT ![cl[k].class] = @ \ {q}],
               IF q \in statusQueues[cl[k].class]
               THEN /\ qstatus' = [qstatus EXCEPT ![q] = "working"]
                    /\ pause' = [pause EXCEPT ![q] = IF @ = "saved" THEN @ ELSE "none"]
               ELSE UNCHANGED <<qstatus, pause>>
        PROVE  PauseKept'
    <3>1. CASE q \in statusQueues[cl[k].class]
      BY <1>1, <2>1, <2>4, <3>1 DEF BoxTypes, PauseKept, Working, Paused, QStatuses
    <3>2. CASE q \notin statusQueues[cl[k].class]
      <4>1. statusQueues' = statusQueues
        BY <1>1, <2>1, <2>4, <3>2 DEF BoxTypes
      <4> QED BY <1>2, <2>1, <2>4, <3>2, <4>1
    <3> QED BY <3>1, <3>2
  <2> QED BY <2>2, <2>3, <2>4
<1>5. CleanClass(k) \/ CleanLoop(k) \/ CleanIter(k) \/ CleanCheck(k) \/ CleanEnd(k)
        => UNCHANGED <<rpaused, statusQueues, qstatus, pause>>
  BY DEF CleanClass, CleanLoop, CleanIter, CleanCheck, CleanEnd, CleanerOnly, redis, box, object,
         history
<1>6. CleanCount(k) \/ CleanZero(k) => UNCHANGED <<rpaused, statusQueues, qstatus, pause>>
  BY DEF CleanCount, CleanZero, redis, object, history
<1> QED BY <1>2, <1>3, <1>4, <1>5, <1>6 DEF Clean

\* The invariant is inductive, given the types and that maps and objects agree.
LEMMA PauseKeptStep == TypeOK /\ Coherent /\ PauseKept /\ [Next]_vars => PauseKept'
<1> SUFFICES ASSUME TypeOK, Coherent, PauseKept, [Next]_vars PROVE PauseKept'
  OBVIOUS
<1>1. ASSUME NEW q \in Operated, Operate(q) PROVE PauseKept'
  BY <1>1, OperateKeepsPause, BoxAssumption
<1>2. CASE UNCHANGED <<redis, box, pause>>
  BY <1>2 DEF PauseKept, Working, Paused, redis, box, object
<1>3. ASSUME NEW q \in Queues, LoadQueue(q) PROVE PauseKept'
  BY <1>2, <1>3, SyncKeepsPause, TypeParts DEF LoadQueue, Skip
<1>4. CASE Empty
  BY <1>4 DEF Empty, PauseKept, Working, Paused, QStatuses, redis
<1> QED BY <1>1, <1>2, <1>3, <1>4, RequestKeepsPause, CleanKeepsPause
        DEF Next, Toggle, CleanBegin, Load, LoadPaused, Start, LoadFails, Crash, vars, history

\* What an answered pause is worth is what the history says, in every state.
LEMMA PauseKeptCorrect == Spec => []PauseKept
<1>1. Init => PauseKept
  BY DEF Init, PauseKept
<1> QED BY <1>1, PauseKeptStep, TypeCorrect, CoherentCorrect, PTL DEF Spec

\* A pause that was answered holds until a resume or a deletion is attempted: in
\* Redis, through lost replies, syncs, clean-ups and crashes; one answered without
\* a write after such an attempt, as long as its Queue object lives.
THEOREM PauseCorrect == Spec => []PauseHolds
<1>1. Coherent /\ PauseKept => PauseHolds
  BY DEF Coherent, PauseKept, PauseHolds
<1> QED BY <1>1, PauseKeptCorrect, CoherentCorrect, PTL

\* A step in which a client moves leaves the list of its queue alone if the pause
\* of that queue was answered.
LEMMA UntouchedStep ==
    ASSUME TypeOK, Coherent, PauseKept, NEW u \in Clients, Request(u),
           NEW q \in Queues, pause[q] \in {"saved", "unsaved"},
           NEW t \in Clients, pc[t] # pc'[t], target[t] = q
    PROVE  rlist'[q] = rlist[q]
<1>1. BoxTypes /\ ServTypes
  BY TypeParts
<1>2. q \notin Working /\ (q \in rpaused \/ q \in Registered)
  BY DEF PauseKept, Coherent, Registered
<1>3. ASSUME NEW p \in Queues, NEW step, Begin(u, p, step) PROVE rlist'[q] = rlist[q]
  BY <1>3 DEF Begin, redis
<1>4. target[u] = q \/ \E p \in Queues, step \in Steps : Begin(u, p, step)
  BY <1>1 DEF ServTypes, Request, EnqueueShared, NotWorking, EnqueueExclusive, EnqueueNew,
              EnqueuePaused, DequeueShared, DequeueTrailing, Proceed, Steps
<1>5. CASE target[u] = q /\ EnqueueShared(u)
  BY <1>2, <1>5 DEF EnqueueShared, NotWorking, redis
<1>6. CASE target[u] = q /\ EnqueueExclusive(u)
  BY <1>2, <1>6 DEF EnqueueExclusive, EnqueuePaused, SyncFails, redis
<1>7. CASE target[u] = q /\ DequeueShared(u)
  BY <1>2, <1>7 DEF DequeueShared, redis
<1>8. CASE target[u] = q /\ DequeueTrailing(u)
  BY <1>8 DEF DequeueTrailing, SyncOk, SyncFails, redis
<1> QED BY <1>3, <1>4, <1>5, <1>6, <1>7, <1>8 DEF Request

\* No request is stored in, or taken from, the list of a queue whose pause was
\* answered, as long as that pause holds.
THEOREM UntouchedCorrect == Spec => PausedUntouched
<1> DEFINE Untouched ==
      \A q \in Queues :
          /\ {pause[q], pause'[q]} \subseteq {"saved", "unsaved"}
          /\ \E t \in Clients : pc[t] # pc'[t] /\ target[t] = q
          => rlist'[q] = rlist[q]
<1>1. ASSUME TypeOK, Coherent, PauseKept, [Next]_vars PROVE [Untouched]_vars
  <2>1. CASE UNCHANGED pc \/ UNCHANGED rlist
    BY <2>1
  <2>2. ASSUME NEW u \in Clients, Request(u) PROVE Untouched
    BY <1>1, <2>2, UntouchedStep
  <2>3. ASSUME NEW k \in Cleaners, Clean(k) PROVE UNCHANGED pc
    BY <2>3 DEF Clean, CleanClass, CleanLoop, CleanIter, CleanCheck, CleanerOnly, CleanSweep,
                CleanCount, CleanZero, CleanUnlist, CleanEnd, client
  <2>4. ASSUME NEW q \in Operated, Operate(q) PROVE UNCHANGED pc
    BY <2>4 DEF Operate, client
  <2> QED BY <1>1, <2>1, <2>2, <2>3, <2>4
          DEF Next, Toggle, CleanBegin, Load, LoadQueue, LoadPaused, Start, LoadFails, Crash, Empty,
              client, redis
<1> QED BY <1>1, TypeCorrect, CoherentCorrect, PauseKeptCorrect, PTL DEF Spec, PausedUntouched

-----------------------------------------------------------------------------
(* While a clean-up that is not nested runs no request does. *)

\* Until Load is done the service takes no request, no call to clean up, and its
\* status is the one Load gives it.
Loading ==
    phase # "done" =>
        /\ serv \in {"init", "preparing"}
        /\ \A t \in Clients : pc[t] = "idle"
        /\ \A k \in Cleaners : ~Busy(k)

\* Only CleanEnd changes the status of the service and the one found, and only it
\* ends a clean-up.
LEMMA CleanSteady ==
    ASSUME TypeOK, NEW k \in Cleaners, Clean(k)
    PROVE  /\ Busy(k)
           /\ UNCHANGED <<pc, target, phase, scan>>
           /\ CleanEnd(k) \/ (serv' = serv /\ cl'[k].old = cl[k].old)
<1>1. Busy(k)
  BY DEF Busy, Clean, CleanClass, CleanLoop, CleanIter, CleanCheck, CleanSweep, CleanCount, CleanZero,
         CleanUnlist, CleanEnd
<1>2. CleanEnd(k) => UNCHANGED <<pc, target, phase, scan>>
  BY DEF CleanEnd, client, load
<1>3. CleanClass(k) \/ CleanLoop(k) \/ CleanIter(k) \/ CleanCheck(k)
        => UNCHANGED <<pc, target, phase, scan, serv>>
  BY DEF CleanClass, CleanLoop, CleanIter, CleanCheck, CleanerOnly, client, load
<1>4. CleanSweep(k) \/ CleanCount(k) \/ CleanZero(k) \/ CleanUnlist(k)
        => UNCHANGED <<pc, target, phase, scan, serv>>
  BY DEF CleanSweep, CleanCount, CleanZero, CleanUnlist, client, load
<1>5. cl \in [Cleaners -> Progress]
  BY TypeParts DEF CleanerTypes
<1>6. CleanEnd(k) \/ cl'[k].old = cl[k].old
  <2>1. CASE CleanClass(k)
    <3>1. ASSUME NEW s, cl' = [cl EXCEPT ![k].step = "loop", ![k].class = s, ![k].pausedCount = 0,
                                         ![k].todo = @ \ {s}]
          PROVE  cl'[k].old = cl[k].old
      <4>1. cl'[k] = [cl[k] EXCEPT !.step = "loop", !.class = s, !.pausedCount = 0,
                                   !.todo = @ \ {s}]
        BY <1>5, <3>1
      <4> QED BY <1>5, <4>1 DEF Progress
    <3>2. cl' = [cl EXCEPT ![k].step = "end"] => cl'[k].old = cl[k].old
      BY <1>5 DEF Progress
    <3> QED BY <2>1, <3>1, <3>2 DEF CleanClass
  <2>2. CASE CleanLoop(k)
    BY <1>5, <2>2 DEF CleanLoop, Progress
  <2>3. CASE CleanIter(k)
    BY <1>5, <2>3 DEF CleanIter, Progress
  <2>4. CASE CleanCheck(k)
    BY <1>5, <2>4 DEF CleanCheck, Progress
  <2>5. CASE CleanSweep(k)
    <3>1. ASSUME NEW q, cl' = [cl EXCEPT ![k].step = "count", ![k].at = q, ![k].batch = @ \ {q}]
          PROVE  cl'[k].old = cl[k].old
      <4>1. cl'[k] = [cl[k] EXCEPT !.step = "count", !.at = q, !.batch = @ \ {q}]
        BY <1>5, <3>1
      <4> QED BY <1>5, <4>1 DEF Progress
    <3>2. CASE cl' = [cl EXCEPT ![k].step = "unlist"]
      BY <1>5, <3>2 DEF Progress
    <3>3. CASE cl' = [cl EXCEPT ![k].step = "unlist", ![k].failed = TRUE, ![k].batch = {}]
      <4>1. cl'[k] = [cl[k] EXCEPT !.step = "unlist", !.failed = TRUE, !.batch = {}]
        BY <1>5, <3>3
      <4> QED BY <1>5, <4>1 DEF Progress
    <3>4. \/ \E q : cl' = [cl EXCEPT ![k].step = "count", ![k].at = q, ![k].batch = @ \ {q}]
          \/ cl' = [cl EXCEPT ![k].step = "unlist"]
          \/ cl' = [cl EXCEPT ![k].step = "unlist", ![k].failed = TRUE, ![k].batch = {}]
      BY <2>5, Zenon DEF CleanSweep
    <3> QED BY <3>1, <3>2, <3>3, <3>4
  <2>6. CASE CleanCount(k)
    BY <1>5, <2>6 DEF CleanCount, Progress
  <2>7. CASE CleanZero(k)
    BY <1>5, <2>7 DEF CleanZero, Progress
  <2>8. CASE CleanUnlist(k)
    <3>1. ASSUME NEW q, cl' = [cl EXCEPT ![k].cleared = @ \ {q}] PROVE cl'[k].old = cl[k].old
      BY <1>5, <3>1 DEF Progress
    <3>2. CASE cl' = [cl EXCEPT ![k].step = "check", ![k].cleared = {}, ![k].pausedCount = Kept(k)]
      <4>1. cl'[k] = [cl[k] EXCEPT !.step = "check", !.cleared = {}, !.pausedCount = Kept(k)]
        BY <1>5, <3>2
      <4> QED BY <1>5, <4>1 DEF Progress
    <3> QED BY <2>8, <3>1, <3>2 DEF CleanUnlist
  <2> QED BY <2>1, <2>2, <2>3, <2>4, <2>5, <2>6, <2>7, <2>8 DEF Clean
<1>7. UNCHANGED <<pc, target, phase, scan>> /\ (CleanEnd(k) \/ serv' = serv)
  BY <1>2, <1>3, <1>4 DEF Clean
<1> QED BY <1>1, <1>6, <1>7

\* A request needs a working service to begin, and leaves the rest of it alone.
LEMMA RequestSteady ==
    ASSUME NEW t \in Clients, Request(t)
    PROVE  /\ pc[t] # "idle" \/ serv = "working"
           /\ UNCHANGED <<serv, phase, scan, cl>>
BY DEF Request, Begin, EnqueueShared, NotWorking, EnqueueExclusive, EnqueueNew, EnqueuePaused,
       DequeueShared, DequeueTrailing, Proceed, load

\* Every step keeps Loading.
LEMMA LoadingStep == TypeOK /\ Loading /\ [Next]_vars => Loading'
<1> SUFFICES ASSUME TypeOK, Loading, [Next]_vars PROVE Loading'
  OBVIOUS
<1>1. ASSUME NEW t \in Clients, Request(t) PROVE Loading'
  BY <1>1, RequestSteady DEF Loading
<1>2. ASSUME NEW k \in Cleaners, Clean(k) PROVE Loading'
  BY <1>2, CleanSteady DEF Loading
<1>3. CASE UNCHANGED <<serv, phase, client, cl>>
  BY <1>3 DEF Loading, Busy, client
<1>4. ASSUME NEW q \in Queues, LoadQueue(q) PROVE Loading'
  BY <1>4 DEF Loading, Busy, LoadQueue, client
<1>5. CASE LoadPaused
  BY <1>5 DEF Loading, Busy, LoadPaused, client
<1>6. CASE Empty
  BY <1>6 DEF Empty, Loading, Busy, IdleCleaner
<1>7. ASSUME NEW new \in QStatuses, Toggle(new) PROVE Loading'
  BY <1>7 DEF Loading, Busy, Toggle, WorkStatus, load
<1>8. ASSUME NEW k \in Cleaners, NEW del \in BOOLEAN, CleanBegin(k, del) PROVE Loading'
  BY <1>8 DEF Loading, CleanBegin, load
<1> QED BY <1>1, <1>2, <1>3, <1>4, <1>5, <1>6, <1>7, <1>8
        DEF Next, Operate, Load, Start, LoadFails, Crash, Loading, vars, load

\* Loading holds in every state.
LEMMA LoadingCorrect == Spec => []Loading
<1>1. Init => Loading
  BY DEF Init, Loading, Busy, IdleCleaner
<1> QED BY <1>1, LoadingStep, TypeCorrect, PTL DEF Spec

\* The end of one clean-up leaves the protection of another in place.
LEMMA EndExcludes ==
    ASSUME TypeOK, CleaningExcludes, NEW k \in Cleaners, CleanEnd(k)
    PROVE  CleaningExcludes'
<1>1. UNCHANGED pc /\ ~Busy(k)' /\ \A j \in Cleaners \ {k} : cl'[j] = cl[j]
  BY DEF CleanEnd, client, TypeOK, Busy, IdleCleaner
<1>2. ASSUME NEW j \in Cleaners \ {k}, Busy(j), ~Nested(j) PROVE serv' = "cleaning"
  <2>1. serv = "cleaning" /\ Nested(k)
    BY <1>2 DEF CleaningExcludes, CleanEnd, Busy
  <2> QED BY <2>1 DEF Nested, CleanEnd, CanSet
<1> QED BY <1>1, <1>2 DEF CleaningExcludes, Busy, Nested

\* Every step keeps clean-up and requests apart.
LEMMA ExcludesStep == TypeOK /\ Loading /\ CleaningExcludes /\ [Next]_vars => CleaningExcludes'
<1> SUFFICES ASSUME TypeOK, Loading, CleaningExcludes, [Next]_vars PROVE CleaningExcludes'
  OBVIOUS
<1>1. ASSUME NEW t \in Clients, Request(t) PROVE CleaningExcludes'
  <2>1. \A k \in Cleaners : Busy(k) => Nested(k)
    BY <1>1, RequestSteady DEF CleaningExcludes
  <2> QED BY <1>1, <2>1, RequestSteady DEF CleaningExcludes, Busy, Nested
<1>2. ASSUME NEW k \in Cleaners, Clean(k) PROVE CleaningExcludes'
  <2>1. CASE serv' = serv /\ cl'[k].old = cl[k].old
    BY <1>2, <2>1, CleanSteady, CleanMoves DEF CleaningExcludes, Busy, Nested
  <2> QED BY <1>2, <2>1, CleanSteady, EndExcludes
<1>3. CASE UNCHANGED <<serv, client, cl>>
  BY <1>3 DEF CleaningExcludes, Busy, Nested, client
<1>4. ASSUME NEW q \in Queues, LoadQueue(q) PROVE CleaningExcludes'
  BY <1>4 DEF Loading, Busy, CleaningExcludes, LoadQueue
<1>5. CASE Start
  BY <1>5 DEF Loading, Busy, CleaningExcludes, Start
<1>6. CASE Empty
  BY <1>6 DEF Empty, CleaningExcludes, Busy, IdleCleaner
<1>7. ASSUME NEW new \in QStatuses, Toggle(new) PROVE CleaningExcludes'
  BY <1>7 DEF CleaningExcludes, Busy, Nested, Toggle, WorkStatus
<1>8. ASSUME NEW k \in Cleaners, NEW del \in BOOLEAN, CleanBegin(k, del) PROVE CleaningExcludes'
  <2>1. cl \in [Cleaners -> Progress]
    BY TypeParts DEF CleanerTypes
  <2>2. /\ UNCHANGED pc /\ serv' = "cleaning" /\ \A t \in Clients : pc[t] = "idle"
        /\ cl'[k].old = serv /\ \A j \in Cleaners \ {k} : cl'[j] = cl[j]
    BY <1>8, <2>1 DEF CleanBegin, ServFree, client, IdleCleaner
  <2>3. serv # "cleaning" => \A j \in Cleaners : Busy(j) => Nested(j)
    BY DEF CleaningExcludes
  <2> QED BY <2>2, <2>3 DEF CleaningExcludes, Busy, Nested
<1> QED BY <1>1, <1>2, <1>3, <1>4, <1>5, <1>6, <1>7, <1>8
        DEF Next, Operate, Load, LoadPaused, LoadFails, Crash, vars

\* While a clean-up that is not nested runs, the status says Cleaning, no request is
\* in progress and every other clean-up is nested, whatever these, operators and
\* crashes do.
THEOREM ExcludesCorrect == Spec => []CleaningExcludes
<1>1. Init => CleaningExcludes
  BY DEF Init, CleaningExcludes, Busy, IdleCleaner
<1> QED BY <1>1, ExcludesStep, TypeCorrect, LoadingCorrect, PTL DEF Spec

-----------------------------------------------------------------------------
(* No request sits in a list that dequeue cannot reach. *)

\* What a clean-up that is not nested has cleared, and has still to unregister, is
\* empty in Redis.
SweptBy(k) ==
    /\ ~Busy(k) => cl[k].cleared = {}
    /\ ~Nested(k) =>
         /\ cl[k].step \in {"count", "zero"} => rlist[cl[k].at] = 0
         /\ \A q \in cl[k].cleared : rlist[q] = 0
Swept == \A k \in Cleaners : SweptBy(k)

\* A queue with requests is registered, or dropped, or Load has still to come to it.
Reachable ==
    \A q \in Queues : 
        rlist[q] > 0 => q \in Registered \cup dropped \cup (IF phase = "lists" THEN scan ELSE {})

\* While a clean-up that is not nested runs nobody serves a request.
LEMMA RequestAlone ==
    ASSUME CleaningExcludes, NEW t \in Clients, Request(t)
    PROVE  \A k \in Cleaners : Nested(k) \/ ~Busy(k)
BY RequestSteady DEF CleaningExcludes

\* The operator's calls add no request to a list.
LEMMA OperateLists ==
    ASSUME NEW q \in Queues, Operate(q)
    PROVE  rlist' \in {rlist, [rlist EXCEPT ![q] = 0]}
BY DEF Operate, SetStatus, Sync, SyncOk, SyncFails, ClearQueue, DeleteQueue, ClearOk, ClearFails, redis

\* Nor does a clean-up; where it moves to another queue, that one is empty.
LEMMA CleanLists ==
    ASSUME TypeOK, NEW k \in Cleaners, Clean(k)
    PROVE  \/ UNCHANGED rlist
           \/ \E q \in Queues : rlist' = [rlist EXCEPT ![q] = 0]
<1>1. CASE CleanSweep(k)
  <2>1. cl[k].batch \subseteq Queues
    BY TypeParts DEF CleanerTypes, Progress
  <2>2. ASSUME NEW q \in cl[k].batch, Swipe(k, q)
        PROVE  q \in Queues /\ rlist' \in {rlist, [rlist EXCEPT ![q] = 0]}
    BY <2>1, <2>2, SweepEffect
  <2> QED BY <1>1, <2>2, SweepShape DEF redis
<1>2. CleanClass(k) \/ CleanLoop(k) \/ CleanIter(k) \/ CleanCheck(k) \/ CleanEnd(k)
        => UNCHANGED rlist
  BY DEF CleanClass, CleanLoop, CleanIter, CleanCheck, CleanEnd, CleanerOnly, redis
<1>3. CleanCount(k) \/ CleanZero(k) \/ CleanUnlist(k) => UNCHANGED rlist
  BY DEF CleanCount, CleanZero, CleanUnlist, redis
<1> QED BY <1>1, <1>2, <1>3 DEF Clean

\* A sweep that goes on to count has just emptied the list.
LEMMA SweepEmpties ==
    ASSUME TypeOK, NEW k \in Cleaners, CleanSweep(k)
    PROVE  /\ cl'[k].cleared = cl[k].cleared
           /\ cl'[k].step \in {"count", "unlist"}
           /\ cl'[k].step = "count" => rlist'[cl'[k].at] = 0
<1>1. cl \in [Cleaners -> Progress] /\ rlist \in [Queues -> Nat] /\ cl[k].batch \subseteq Queues
  BY TypeParts DEF CleanerTypes, BoxTypes, Progress
<1>2. ASSUME NEW q \in cl[k].batch, rlist' = [rlist EXCEPT ![q] = 0],
             cl' = [cl EXCEPT ![k].step = "count", ![k].at = q, ![k].batch = @ \ {q}]
      PROVE  /\ cl'[k].cleared = cl[k].cleared /\ cl'[k].step = "count"
             /\ rlist'[cl'[k].at] = 0
  <2>1. cl'[k] = [cl[k] EXCEPT !.step = "count", !.at = q, !.batch = @ \ {q}]
    BY <1>1, <1>2
  <2> QED BY <1>1, <1>2, <2>1 DEF Progress
<1>3. ASSUME cl' = [cl EXCEPT ![k].step = "unlist"]
      PROVE  cl'[k].cleared = cl[k].cleared /\ cl'[k].step = "unlist"
  BY <1>1, <1>3 DEF Progress
<1>4. ASSUME cl' = [cl EXCEPT ![k].step = "unlist", ![k].failed = TRUE, ![k].batch = {}]
      PROVE  cl'[k].cleared = cl[k].cleared /\ cl'[k].step = "unlist"
  <2>1. cl'[k] = [cl[k] EXCEPT !.step = "unlist", !.failed = TRUE, !.batch = {}]
    BY <1>1, <1>4
  <2> QED BY <1>1, <2>1 DEF Progress
<1>5. \/ \E q \in cl[k].batch :
           /\ rlist' = [rlist EXCEPT ![q] = 0]
           /\ cl' = [cl EXCEPT ![k].step = "count", ![k].at = q, ![k].batch = @ \ {q}]
      \/ cl' = [cl EXCEPT ![k].step = "unlist"]
      \/ cl' = [cl EXCEPT ![k].step = "unlist", ![k].failed = TRUE, ![k].batch = {}]
  BY ZenonT(20) DEF CleanSweep, ClearOk
<1> QED BY <1>2, <1>3, <1>4, <1>5

\* The progress of a clean-up keeps Swept.
LEMMA CleanSweptBy ==
    ASSUME TypeOK, Swept, NEW k \in Cleaners, Clean(k)
    PROVE  SweptBy(k)'
<1>1. cl \in [Cleaners -> Progress] /\ rlist \in [Queues -> Nat]
  BY TypeParts DEF CleanerTypes, BoxTypes
<1>2. /\ cl[k].cleared \subseteq Queues
      /\ \A j \in Cleaners : cl[j].step \in {"count", "zero"} => cl[j].at \in Queues
  BY <1>1, TypeParts DEF CleanerTypes, Progress
<1>3. \A q \in Queues : rlist[q] = 0 => rlist'[q] = 0
  BY <1>1, CleanLists
<1>4. cl'[k].step # "idle" => (Nested(k) <=> Nested(k)')
  BY <1>1, CleanSteady DEF Nested, CleanEnd, IdleCleaner
<1>5. ASSUME cl'[k].cleared \subseteq cl[k].cleared, cl'[k].step # "idle",
             cl'[k].step \notin {"count", "zero"}
      PROVE  SweptBy(k)'
  BY <1>2, <1>3, <1>5, <1>4 DEF Swept, SweptBy, Busy
<1>6. CASE CleanClass(k)
  <2>1. CASE cl' = [cl EXCEPT ![k].step = "end"]
    BY <1>1, <1>5, <2>1 DEF Progress
  <2>2. ASSUME NEW s \in cl[k].todo,
               cl' = [cl EXCEPT ![k].step = "loop", ![k].class = s, ![k].pausedCount = 0,
                                ![k].todo = @ \ {s}]
        PROVE  SweptBy(k)'
    <3>1. cl'[k] = [cl[k] EXCEPT !.step = "loop", !.class = s, !.pausedCount = 0,
                                 !.todo = @ \ {s}]
      BY <1>1, <2>2
    <3>2. cl'[k].cleared = cl[k].cleared /\ cl'[k].step = "loop"
      BY <1>1, <3>1 DEF Progress
    <3> QED BY <1>5, <3>2
  <2> QED BY <1>6, <2>1, <2>2 DEF CleanClass
<1>7. CASE CleanLoop(k) \/ CleanCheck(k)
  <2>1. cl'[k].cleared = cl[k].cleared /\ cl'[k].step \in {"class", "iter", "end", "loop"}
    BY <1>1, <1>7 DEF CleanLoop, CleanCheck, Progress
  <2> QED BY <1>5, <2>1
<1>8. CASE CleanIter(k)
  <2>1. PICK b : cl' = [cl EXCEPT ![k].step = "sweep", ![k].batch = b, ![k].cleared = {}]
    BY <1>8 DEF CleanIter
  <2>2. cl'[k] = [cl[k] EXCEPT !.step = "sweep", !.batch = b, !.cleared = {}]
    BY <1>1, <2>1
  <2>3. cl'[k].step = "sweep" /\ cl'[k].cleared = {}
    BY <1>1, <2>2 DEF Progress
  <2> QED BY <1>5, <2>3
<1>9. CASE CleanSweep(k)
  BY <1>2, <1>3, <1>9, <1>4, SweepEmpties DEF Swept, SweptBy, Busy
<1>10. CASE CleanCount(k)
  <2>1. cl'[k].step = "zero" /\ cl'[k].at = cl[k].at /\ cl'[k].cleared = cl[k].cleared
    BY <1>1, <1>10 DEF CleanCount, Progress
  <2>2. cl[k].step = "count"
    BY <1>10 DEF CleanCount
  <2> QED BY <1>2, <1>3, <1>4, <2>1, <2>2 DEF Swept, SweptBy, Busy
<1>11. CASE CleanZero(k)
  <2>1. cl'[k] = [cl[k] EXCEPT !.step = "sweep", !.at = NoQueue, !.cleared = @ \cup {cl[k].at}]
    BY <1>1, <1>11 DEF CleanZero
  <2>2. cl'[k].step = "sweep" /\ cl'[k].cleared = cl[k].cleared \cup {cl[k].at}
    BY <1>1, <2>1 DEF Progress
  <2>3. cl[k].step = "zero"
    BY <1>11 DEF CleanZero
  <2> QED BY <1>2, <1>3, <1>4, <2>2, <2>3 DEF Swept, SweptBy, Busy
<1>12. CASE CleanUnlist(k)
  <2>1. ASSUME NEW q, cl' = [cl EXCEPT ![k].cleared = @ \ {q}] PROVE SweptBy(k)'
    BY <1>1, <1>5, <1>12, <2>1 DEF CleanUnlist, Progress
  <2>2. CASE cl' = [cl EXCEPT ![k].step = "check", ![k].cleared = {}, ![k].pausedCount = Kept(k)]
    <3>1. cl'[k] = [cl[k] EXCEPT !.step = "check", !.cleared = {}, !.pausedCount = Kept(k)]
      BY <1>1, <2>2
    <3>2. cl'[k].step = "check" /\ cl'[k].cleared = {}
      BY <1>1, <3>1 DEF Progress
    <3> QED BY <1>5, <3>2
  <2> QED BY <1>12, <2>1, <2>2 DEF CleanUnlist
<1>13. CASE CleanEnd(k)
  BY <1>1, <1>13 DEF CleanEnd, IdleCleaner, SweptBy, Busy
<1> QED BY <1>6, <1>7, <1>8, <1>9, <1>10, <1>11, <1>12, <1>13 DEF Clean

\* A step of one clean-up keeps what was swept, by it or by another, empty.
LEMMA CleanSwept ==
    ASSUME TypeOK, Swept, NEW k \in Cleaners, Clean(k)
    PROVE  Swept'
<1>1. ASSUME NEW j \in Cleaners, j # k PROVE SweptBy(j)'
  <2>1. cl'[j] = cl[j] /\ cl[j].cleared \subseteq Queues /\ rlist \in [Queues -> Nat]
    BY <1>1, CleanMoves, TypeParts DEF CleanerTypes, Progress, BoxTypes
  <2>2. cl[j].step \in {"count", "zero"} => cl[j].at \in Queues
    BY TypeParts DEF CleanerTypes
  <2> QED BY <2>1, <2>2, CleanLists DEF Swept, SweptBy, Busy, Nested
<1> QED BY <1>1, CleanSweptBy DEF Swept

\* Every step does.
LEMMA SweptStep == TypeOK /\ CleaningExcludes /\ Swept /\ [Next]_vars => Swept'
<1> SUFFICES ASSUME TypeOK, CleaningExcludes, Swept, [Next]_vars PROVE Swept'
  OBVIOUS
<1>1. /\ rlist \in [Queues -> Nat]
      /\ \A k \in Cleaners : cl[k].cleared \subseteq Queues
      /\ \A k \in Cleaners : cl[k].step \in {"count", "zero"} => cl[k].at \in Queues
  BY TypeParts DEF CleanerTypes, BoxTypes, Progress
<1>2. CASE UNCHANGED <<rlist, cl>>
  BY <1>2 DEF Swept, SweptBy, Busy, Nested
<1>3. ASSUME NEW t \in Clients, Request(t) PROVE Swept'
  BY <1>3, RequestAlone, RequestSteady DEF Swept, SweptBy, Busy, Nested
<1>4. ASSUME NEW q \in Operated, Operate(q) PROVE Swept'
  <2>1. rlist' \in {rlist, [rlist EXCEPT ![q] = 0]} /\ q \in Queues /\ UNCHANGED cl
    BY <1>4, OperateLists, BoxAssumption DEF Operate
  <2> QED BY <1>1, <2>1 DEF Swept, SweptBy, Busy, Nested
<1>5. ASSUME NEW k \in Cleaners, NEW del \in BOOLEAN, CleanBegin(k, del) PROVE Swept'
  BY <1>5 DEF Swept, SweptBy, Busy, Nested, CleanBegin, IdleCleaner, redis
<1>6. ASSUME NEW q \in Queues, LoadQueue(q) PROVE UNCHANGED <<rlist, cl>>
  BY <1>6 DEF LoadQueue, SyncOk, Skip, redis
<1>7. CASE Empty
  BY <1>7 DEF Empty, Swept, SweptBy, Busy, IdleCleaner
<1> QED BY <1>2, <1>3, <1>4, <1>5, <1>6, <1>7, CleanSwept
        DEF Next, Toggle, Load, LoadPaused, Start, LoadFails, Crash, vars, redis

\* What a clean-up that is not nested has swept stays empty until it unregisters it.
LEMMA SweptCorrect == Spec => []Swept
<1>1. Init => Swept
  BY DEF Init, Swept, SweptBy, Busy, IdleCleaner
<1> QED BY <1>1, SweptStep, TypeCorrect, ExcludesCorrect, PTL DEF Spec

\* A sync registers a queue that has requests.
LEMMA SyncReaches ==
    ASSUME BoxTypes, NEW q \in Queues, SyncOk(q)
    PROVE  /\ UNCHANGED rlist
           /\ dropped' = dropped \ {q}
           /\ \A p \in Queues \ {q} : p \in Registered <=> p \in Registered'
           /\ rlist[q] > 0 => q \in Registered'
BY DEF BoxTypes, SyncOk, SyncedStatus, SetMaps, Moved, Without, Registered, Working, Paused, QStatuses,
       redis

\* A request adds to the list of a registered queue, or of one it registers.
LEMMA RequestReaches ==
    ASSUME TypeOK, Reachable, NEW t \in Clients, Request(t)
    PROVE  Reachable'
<1>1. BoxTypes /\ ServTypes /\ UNCHANGED <<phase, scan>>
  BY TypeParts, RequestSteady
<1>2. ASSUME NEW q \in Queues, NEW step, Begin(t, q, step) PROVE Reachable'
  BY <1>2 DEF Reachable, Registered, Working, Paused, Begin, redis, box, history, load
<1>3. CASE EnqueueShared(t)
  BY <1>1, <1>3 DEF BoxTypes, ServTypes, Reachable, Registered, Working, Paused, EnqueueShared,
                    NotWorking, Stored, StoredUnseen, NotStored, redis, history
<1>4. CASE EnqueueExclusive(t)
  <2>1. target[t] \in Queues
    BY <1>1, <1>4 DEF ServTypes, EnqueueExclusive
  <2>2. CASE UNCHANGED <<redis, box, history>>
    BY <1>1, <2>2 DEF Reachable, Registered, Working, Paused, redis, box, history
  <2>3. CASE EnqueuePaused(t) \/ EnqueueNew(t)
    <3>1. /\ \A p \in Queues \ {target[t]} : 
               /\ p \in Registered => p \in Registered'
               /\ p \in dropped => p \in dropped'
               /\ rlist'[p] = rlist[p]
          /\ target[t] \in Registered'
      BY <1>1, <2>1, <2>3 DEF BoxTypes, EnqueuePaused, EnqueueNew, Stored, StoredUnseen, NotStored,
                              SetMaps, Moved, Registered, Working, Paused, QStatuses, redis
    <3> QED BY <1>1, <3>1 DEF Reachable
  <2> QED BY <1>4, <2>2, <2>3 DEF EnqueueExclusive, SyncFails, history
<1>5. CASE DequeueShared(t)
  BY <1>1, <1>5 DEF BoxTypes, ServTypes, Reachable, Registered, Working, Paused, DequeueShared, redis,
                    history
<1>6. CASE DequeueTrailing(t)
  <2>1. target[t] \in Queues
    BY <1>1, <1>6 DEF ServTypes, DequeueTrailing
  <2>2. CASE SyncOk(target[t])
    BY <1>1, <2>1, <2>2, SyncReaches DEF Reachable
  <2>3. CASE UNCHANGED <<redis, box, history>>
    BY <1>1, <2>3 DEF Reachable, Registered, Working, Paused, redis, box, history
  <2> QED BY <1>6, <2>2, <2>3 DEF DequeueTrailing, SyncFails, history
<1> QED BY <1>2, <1>3, <1>4, <1>5, <1>6 DEF Request

\* An operator's call unregisters an empty queue, or one that it then counts as
\* dropped.
LEMMA OperateReaches ==
    ASSUME TypeOK, Coherent, Reachable, NEW q \in Queues, Operate(q)
    PROVE  Reachable'
<1>1. BoxTypes /\ UNCHANGED <<phase, scan>>
  BY TypeParts DEF Operate, load
<1>2. ASSUME NEW new \in QStatuses, SetStatus(q, new) PROVE Reachable'
  BY <1>1, <1>2 DEF BoxTypes, Reachable, Registered, Working, Paused, QStatuses, SetStatus, SetMaps,
                    Moved
<1>3. CASE Sync(q)
  <2>1. CASE SyncOk(q)
    BY <1>1, <2>1, SyncReaches DEF Reachable
  <2>2. CASE SyncFails
    BY <1>1, <2>2 DEF SyncFails, Reachable, Registered, Working, Paused, redis, box, history
  <2> QED BY <1>3, <2>1, <2>2 DEF Sync
<1>4. CASE ClearQueue(q)
  BY <1>1, <1>4 DEF BoxTypes, Reachable, Registered, Working, Paused, QStatuses, ClearQueue, ClearOk,
                    ClearFails, SetMaps, history
<1>5. CASE DeleteQueue(q)
  BY <1>1, <1>5 DEF BoxTypes, Reachable, Registered, Working, Paused, QStatuses, DeleteQueue, ClearOk,
                    ClearFails, SetMaps
<1> QED BY <1>2, <1>3, <1>4, <1>5 DEF Operate

\* A clean-up unregisters only what it has swept, and a nested one drops it.
LEMMA CleanReaches ==
    ASSUME TypeOK, Swept, Reachable, NEW k \in Cleaners, Clean(k)
    PROVE  Reachable'
<1>1. BoxTypes /\ CleanerTypes /\ UNCHANGED <<phase, scan>>
  BY TypeParts, CleanSteady
<1>2. CleanUnlist(k) \/ dropped' = dropped
  BY DEF Clean, CleanClass, CleanLoop, CleanIter, CleanCheck, CleanerOnly, CleanSweep, CleanCount,
         CleanZero, CleanEnd, history
<1>3. CASE UNCHANGED <<statusQueues, dropped>>
  BY <1>1, <1>3, CleanLists DEF BoxTypes, Reachable, Registered, Working, Paused
<1>4. CASE CleanUnlist(k)
  <2>1. UNCHANGED rlist /\ cl[k].class \in QStatuses /\ cl[k].cleared \subseteq Queues
    BY <1>1, <1>4 DEF CleanUnlist, CleanerTypes, Progress, redis
  <2>2. ~Nested(k) => \A q \in cl[k].cleared : rlist[q] = 0
    BY DEF Swept, SweptBy
  <2>3. \/ UNCHANGED <<statusQueues, dropped>>
        \/ \E q \in cl[k].cleared :
             /\ statusQueues' = [statusQueues EXCEPT ![cl[k].class] = @ \ {q}]
             /\ IF q \in statusQueues[cl[k].class]
                THEN dropped' = IF Nested(k) THEN dropped \cup {q} ELSE dropped
                ELSE UNCHANGED dropped
    BY <1>4 DEF CleanUnlist, SetMaps
  <2>4. ASSUME NEW q \in cl[k].cleared,
               statusQueues' = [statusQueues EXCEPT ![cl[k].class] = @ \ {q}],
               IF q \in statusQueues[cl[k].class]
               THEN dropped' = IF Nested(k) THEN dropped \cup {q} ELSE dropped
               ELSE UNCHANGED dropped
        PROVE  Reachable'
    <3>1. CASE q \notin statusQueues[cl[k].class]
      <4>1. UNCHANGED <<statusQueues, dropped>>
        BY <1>1, <2>1, <2>4, <3>1 DEF BoxTypes
      <4> QED BY <1>3, <4>1
    <3>2. CASE q \in statusQueues[cl[k].class]
      <4>1. /\ dropped' \in {dropped, dropped \cup {q}}
            /\ rlist[q] > 0 => q \in dropped'
        BY <1>1, <2>1, <2>2, <2>4, <3>2 DEF BoxTypes
      <4>2. \A p \in Queues \ {q} : p \in Registered => p \in Registered'
        BY <1>1, <2>1, <2>4 DEF BoxTypes, Registered, Working, Paused, QStatuses
      <4> QED BY <1>1, <2>1, <4>1, <4>2 DEF Reachable
    <3> QED BY <3>1, <3>2
  <2> QED BY <1>3, <2>3, <2>4
<1>5. CleanClass(k) \/ CleanLoop(k) \/ CleanIter(k) \/ CleanCheck(k) \/ CleanEnd(k)
        => UNCHANGED statusQueues
  BY DEF CleanClass, CleanLoop, CleanIter, CleanCheck, CleanEnd, CleanerOnly, box
<1>6. CleanCount(k) \/ CleanZero(k) \/ CleanSweep(k) => UNCHANGED statusQueues
  BY DEF CleanCount, CleanZero, CleanSweep, box
<1> QED BY <1>2, <1>3, <1>4, <1>5, <1>6 DEF Clean

\* Every step keeps what Redis holds within reach.
LEMMA ReachableStep == TypeOK /\ Coherent /\ Swept /\ Reachable /\ [Next]_vars => Reachable'
<1> SUFFICES ASSUME TypeOK, Coherent, Swept, Reachable, [Next]_vars PROVE Reachable'
  OBVIOUS
<1>1. ASSUME NEW q \in Operated, Operate(q) PROVE Reachable'
  BY <1>1, OperateReaches, BoxAssumption
<1>2. CASE UNCHANGED <<redis, box, load, dropped>>
  BY <1>2 DEF Reachable, Registered, Working, Paused, redis, box, load
<1>3. ASSUME NEW q \in Queues, LoadQueue(q) PROVE Reachable'
  <2>1. phase' = phase /\ scan' = scan \ {q}
    BY <1>3 DEF LoadQueue
  <2>2. CASE SyncOk(q)
    BY <2>1, <2>2, TypeParts, SyncReaches DEF Reachable
  <2>3. CASE Skip(q)
    BY <2>1, <2>3 DEF Reachable, Registered, Working, Paused, Skip, redis, box
  <2> QED BY <1>3, <2>2, <2>3 DEF LoadQueue
<1>4. CASE LoadPaused
  BY <1>4 DEF LoadPaused, Reachable, Registered, Working, Paused, redis, box, history
<1>5. CASE Start
  BY <1>5 DEF Start, Reachable, Registered, Working, Paused, redis, box, history
<1>6. CASE Empty
  BY <1>6 DEF Empty, Reachable, redis
<1> QED BY <1>1, <1>2, <1>3, <1>4, <1>5, <1>6, RequestReaches, CleanReaches
        DEF Next, Toggle, CleanBegin, Load, LoadFails, Crash, vars, history

\* Once Load is done, every list that is not empty belongs to a registered queue,
\* or to one a failed DeleteQueue or a nested clean-up unregistered or Load could
\* not read back.
THEOREM ResidentCorrect == Spec => []Resident
<1>1. Init => Reachable
  BY DEF Init, Reachable
<1>2. Reachable => Resident
  BY DEF Reachable, Resident
<1> QED BY <1>1, <1>2, ReachableStep, TypeCorrect, CoherentCorrect, SweptCorrect, PTL DEF Spec

-----------------------------------------------------------------------------
(* The statistics. *)

Zeroing(q) == \E k \in Cleaners : cl[k].step = "zero" /\ cl[k].at = q

\* The steps after which the clean-up is not between the two steps of a Clear.
LEMMA CleanElsewhere ==
    ASSUME TypeOK, NEW k \in Cleaners,
           \/ CleanClass(k) \/ CleanLoop(k) \/ CleanIter(k) \/ CleanCheck(k) \/ CleanZero(k)
           \/ CleanUnlist(k)
    PROVE  cl'[k].step \notin {"count", "zero"}
<1>1. cl \in [Cleaners -> Progress]
  BY TypeParts DEF CleanerTypes
<1>2. CASE CleanClass(k)
  <2>1. ASSUME cl' = [cl EXCEPT ![k].step = "end"] PROVE cl'[k].step = "end"
    BY <1>1, <2>1 DEF Progress
  <2>2. ASSUME NEW s, cl' = [cl EXCEPT ![k].step = "loop", ![k].class = s, ![k].pausedCount = 0,
                                       ![k].todo = @ \ {s}]
        PROVE  cl'[k].step = "loop"
    <3>1. cl'[k] = [cl[k] EXCEPT !.step = "loop", !.class = s, !.pausedCount = 0,
                                 !.todo = @ \ {s}]
      BY <1>1, <2>2
    <3> QED BY <1>1, <3>1 DEF Progress
  <2> QED BY <1>2, <2>1, <2>2 DEF CleanClass
<1>3. CASE CleanLoop(k) \/ CleanCheck(k)
  BY <1>1, <1>3 DEF CleanLoop, CleanCheck, Progress
<1>4. CASE CleanIter(k)
  <2>1. PICK b : cl' = [cl EXCEPT ![k].step = "sweep", ![k].batch = b, ![k].cleared = {}]
    BY <1>4 DEF CleanIter
  <2>2. cl'[k] = [cl[k] EXCEPT !.step = "sweep", !.batch = b, !.cleared = {}]
    BY <1>1, <2>1
  <2> QED BY <1>1, <2>2 DEF Progress
<1>5. CASE CleanZero(k)
  <2>1. cl'[k] = [cl[k] EXCEPT !.step = "sweep", !.at = NoQueue, !.cleared = @ \cup {cl[k].at}]
    BY <1>1, <1>5 DEF CleanZero
  <2> QED BY <1>1, <2>1 DEF Progress
<1>6. CASE CleanUnlist(k)
  <2>1. ASSUME NEW q, cl' = [cl EXCEPT ![k].cleared = @ \ {q}] PROVE cl'[k].step = "unlist"
    BY <1>1, <1>6, <2>1 DEF CleanUnlist, Progress
  <2>2. ASSUME cl' = [cl EXCEPT ![k].step = "check", ![k].cleared = {}, ![k].pausedCount = Kept(k)]
        PROVE  cl'[k].step = "check"
    <3>1. cl'[k] = [cl[k] EXCEPT !.step = "check", !.cleared = {}, !.pausedCount = Kept(k)]
      BY <1>1, <2>2
    <3> QED BY <1>1, <3>1 DEF Progress
  <2> QED BY <1>6, <2>1, <2>2 DEF CleanUnlist
<1> QED BY <1>2, <1>3, <1>4, <1>5, <1>6

\* A nested clean-up has marked the queue it is clearing.
Marked == \A k \in Cleaners :
              Nested(k) /\ cl[k].step \in {"count", "zero"} => muddled[cl[k].at] > 0

\* What one step does to the clean-ups that clear a queue.
LEMMA MarkedStep == TypeOK /\ Marked /\ [Next]_vars => Marked'
<1> SUFFICES ASSUME TypeOK, Marked, [Next]_vars PROVE Marked'
  OBVIOUS
<1>1. BoxTypes /\ CleanerTypes /\ cl \in [Cleaners -> Progress]
  BY TypeParts DEF CleanerTypes
<1>2. CASE UNCHANGED <<cl, muddled>>
  BY <1>2 DEF Marked, Nested
<1>3. ASSUME NEW k \in Cleaners, Clean(k) PROVE Marked'
  <2>1. \A j \in Cleaners \ {k} : cl'[j] = cl[j]
    BY <1>3, CleanMoves
  <2>2. \A q \in Queues : muddled'[q] >= muddled[q]
    <3>1. CleanSweep(k) \/ muddled' = muddled
      BY <1>3 DEF Clean, CleanClass, CleanLoop, CleanIter, CleanCheck, CleanerOnly, CleanCount,
                  CleanZero, CleanUnlist, CleanEnd, history
    <3>2. ASSUME CleanSweep(k)
          PROVE  muddled' = muddled \/ \E q \in Queues : muddled' = [muddled EXCEPT ![q] = @ + 1]
      <4>1. cl[k].batch \subseteq Queues
        BY <1>1 DEF Progress
      <4> QED BY <3>2, <4>1, SweepShape, SweepEffect
    <3> QED BY <1>1, <3>1, <3>2 DEF BoxTypes
  <2>3. ASSUME Nested(k)', cl'[k].step \in {"count", "zero"} PROVE muddled'[cl'[k].at] > 0
    <3>1. ~CleanEnd(k) /\ Nested(k)
      BY <1>1, <1>3, <2>3, CleanSteady DEF Nested, CleanEnd, IdleCleaner
    <3>2. CASE CleanSweep(k)
      <4>1. cl'[k].step = "count"
        BY <2>3, <3>2, SweepEmpties
      <4>2. ASSUME NEW q \in cl[k].batch,
                   cl' = [cl EXCEPT ![k].step = "count", ![k].at = q, ![k].batch = @ \ {q}],
                   muddled' = [muddled EXCEPT ![q] = @ + 1]
            PROVE  muddled'[cl'[k].at] > 0
        <5>1. cl'[k] = [cl[k] EXCEPT !.step = "count", !.at = q, !.batch = @ \ {q}]
          BY <1>1, <4>2
        <5>2. cl'[k].at = q /\ q \in Queues
          BY <1>1, <5>1 DEF Progress
        <5> QED BY <1>1, <4>2, <5>2 DEF BoxTypes
      <4>3. /\ cl' = [cl EXCEPT ![k].step = "unlist"] => cl'[k].step = "unlist"
            /\ cl' = [cl EXCEPT ![k].step = "unlist", ![k].failed = TRUE, ![k].batch = {}]
                 => cl'[k].step = "unlist"
        <5>1. cl' = [cl EXCEPT ![k].step = "unlist", ![k].failed = TRUE, ![k].batch = {}]
                => cl'[k] = [cl[k] EXCEPT !.step = "unlist", !.failed = TRUE, !.batch = {}]
          BY <1>1
        <5> QED BY <1>1, <5>1 DEF Progress
      <4>4. \/ \E q \in cl[k].batch :
                 /\ cl' = [cl EXCEPT ![k].step = "count", ![k].at = q, ![k].batch = @ \ {q}]
                 /\ muddled' = [muddled EXCEPT ![q] = @ + 1]
            \/ cl' = [cl EXCEPT ![k].step = "unlist"]
            \/ cl' = [cl EXCEPT ![k].step = "unlist", ![k].failed = TRUE, ![k].batch = {}]
        BY <3>1, <3>2, ZenonT(20) DEF CleanSweep
      <4> QED BY <4>1, <4>2, <4>3, <4>4
    <3>3. CASE CleanCount(k)
      BY <1>1, <3>1, <3>3 DEF CleanCount, Progress, Marked, history
    <3>4. ASSUME CleanClass(k) \/ CleanLoop(k) \/ CleanIter(k) \/ CleanCheck(k) \/ CleanZero(k)
                   \/ CleanUnlist(k)
          PROVE  FALSE
      BY <2>3, <3>4, CleanElsewhere
    <3> QED BY <1>3, <3>1, <3>2, <3>3, <3>4 DEF Clean
  <2>4. ASSUME NEW j \in Cleaners \ {k}, Nested(j)', cl'[j].step \in {"count", "zero"}
        PROVE  muddled'[cl'[j].at] > 0
    <3>1. cl'[j] = cl[j] /\ cl[j].at \in Queues /\ muddled[cl[j].at] > 0
      BY <1>1, <2>1, <2>4 DEF CleanerTypes, Marked, Nested
    <3>2. muddled[cl[j].at] \in Nat /\ muddled'[cl[j].at] >= muddled[cl[j].at]
      BY <1>1, <2>2, <3>1 DEF BoxTypes
    <3>3. muddled'[cl[j].at] \in Nat
      BY <3>1, TypeStep, TypeParts DEF BoxTypes
    <3> QED BY <3>1, <3>2, <3>3
  <2> QED BY <2>3, <2>4 DEF Marked
<1>4. ASSUME NEW k \in Cleaners, NEW del \in BOOLEAN, CleanBegin(k, del) PROVE Marked'
  BY <1>1, <1>4 DEF Marked, Nested, CleanBegin, IdleCleaner, history
<1>5. CASE Empty
  BY <1>5 DEF Empty, Marked, IdleCleaner
<1>6. ASSUME NEW t \in Clients, Request(t) PROVE UNCHANGED <<cl, muddled>>
  BY <1>6 DEF Request, Begin, EnqueueShared, NotWorking, EnqueueExclusive, EnqueueNew, EnqueuePaused,
              DequeueShared, DequeueTrailing, SyncOk, SyncFails, Proceed, history
<1>7. ASSUME NEW q \in Operated, Operate(q) PROVE UNCHANGED <<cl, muddled>>
  BY <1>7 DEF Operate, SetStatus, Sync, SyncOk, SyncFails, ClearQueue, DeleteQueue, history
<1>8. ASSUME NEW q \in Queues, LoadQueue(q) PROVE UNCHANGED <<cl, muddled>>
  BY <1>8 DEF LoadQueue, SyncOk, Skip
<1> QED BY <1>2, <1>3, <1>4, <1>5, <1>6, <1>7, <1>8
        DEF Next, Toggle, Load, LoadPaused, Start, LoadFails, Crash, vars, history

\* A nested clean-up has marked the queue it is clearing, in every state.
LEMMA MarkedCorrect == Spec => []Marked
<1>1. Init => Marked
  BY DEF Init, Marked, IdleCleaner
<1> QED BY <1>1, MarkedStep, TypeCorrect, PTL DEF Spec

\* At most one clean-up is clearing a queue that no nested one has marked.
LEMMA OneClears ==
    ASSUME Marked, CleaningExcludes, NEW q \in Queues, muddled[q] = 0,
           NEW j \in Cleaners, cl[j].step \in {"count", "zero"}, cl[j].at = q,
           NEW k \in Cleaners, cl[k].step \in {"count", "zero"}, cl[k].at = q
    PROVE  j = k
BY DEF Marked, CleaningExcludes, Busy

\* Nor does a request meet one.
LEMMA RequestClears ==
    ASSUME Marked, CleaningExcludes, NEW t \in Clients, Request(t), NEW q \in Queues, muddled[q] = 0
    PROVE  ~Zeroing(q)
BY RequestAlone DEF Marked, Busy, Zeroing

\* A sync moves the difference of the sizes into the statistics.
LEMMA SyncBalances ==
    ASSUME BoxTypes, StatsBalance, NEW q \in Queues, SyncOk(q), UNCHANGED cl,
           muddled[q] = 0 => ~Zeroing(q)
    PROVE  StatsBalance'
<1>1. /\ qsize' = [qsize EXCEPT ![q] = rlist[q]] /\ UNCHANGED <<abandoned, muddled>>
      /\ counted' = [counted EXCEPT ![q] = @ + rlist[q] - qsize[q]]
  BY DEF SyncOk
<1> QED BY <1>1 DEF BoxTypes, StatsBalance, Zeroing

\* Requests add and take from the statistics what they add to and take from the
\* size of the queue; a new object's size is counted from nothing.
LEMMA RequestBalances ==
    ASSUME TypeOK, Coherent, CleaningExcludes, Marked, StatsBalance, NEW t \in Clients, Request(t)
    PROVE  StatsBalance'
<1>1. BoxTypes /\ ServTypes /\ UNCHANGED cl
  BY TypeParts, RequestSteady
<1>2. \A q \in Queues : muddled[q] = 0 => ~Zeroing(q) /\ counted[q] = abandoned[q] + qsize[q]
  BY RequestClears DEF StatsBalance, Zeroing
<1>3. ASSUME \A q \in Queues : muddled'[q] = 0 => counted'[q] = abandoned'[q] + qsize'[q],
             UNCHANGED muddled
      PROVE  StatsBalance'
  BY <1>1, <1>2, <1>3 DEF StatsBalance, Zeroing
<1>4. ASSUME NEW q \in Queues, NEW step, Begin(t, q, step) PROVE StatsBalance'
  BY <1>2, <1>3, <1>4 DEF Begin, box, object, history
<1>5. CASE EnqueueShared(t)
  BY <1>1, <1>2, <1>3, <1>5 DEF BoxTypes, ServTypes, EnqueueShared, NotWorking, history
<1>6. CASE EnqueueExclusive(t)
  BY <1>1, <1>2, <1>3, <1>6 DEF BoxTypes, ServTypes, Coherent, EnqueueExclusive, EnqueueNew,
                                EnqueuePaused, SyncFails, box, object, history
<1>7. CASE DequeueShared(t)
  BY <1>1, <1>2, <1>3, <1>7 DEF BoxTypes, ServTypes, DequeueShared, history
<1>8. CASE DequeueTrailing(t)
  <2>1. target[t] \in Queues
    BY <1>1, <1>8 DEF ServTypes, DequeueTrailing
  <2>2. CASE UNCHANGED <<box, history>>
    BY <1>2, <1>3, <2>2 DEF box, object, history
  <2> QED BY <1>1, <1>2, <1>8, <2>1, <2>2, SyncBalances DEF DequeueTrailing, SyncFails
<1> QED BY <1>4, <1>5, <1>6, <1>7, <1>8 DEF Request

\* An operator's call takes what it clears out of the statistics, or abandons it.
LEMMA OperateBalances ==
    ASSUME TypeOK, StatsBalance, NEW q \in Queues, Operate(q)
    PROVE  StatsBalance'
<1>1. BoxTypes /\ UNCHANGED cl /\ ~Zeroing(q)
  BY TypeParts DEF Operate, BucketFree, Zeroing
<1>2. ASSUME NEW new \in QStatuses, SetStatus(q, new) PROVE StatsBalance'
  BY <1>1, <1>2 DEF StatsBalance, SetStatus
<1>3. CASE Sync(q)
  BY <1>1, <1>3, SyncBalances DEF Sync, SyncFails, StatsBalance, box, object, history
<1>4. CASE ClearQueue(q)
  <2>1. /\ UNCHANGED <<abandoned, muddled>>
        /\ \/ UNCHANGED <<qsize, counted>>
           \/ /\ qsize' = [qsize EXCEPT ![q] = 0]
              /\ counted' = [counted EXCEPT ![q] = @ - qsize[q]]
    BY <1>4, Zenon DEF ClearQueue, history
  <2> QED BY <1>1, <2>1 DEF BoxTypes, StatsBalance, Zeroing
<1>5. CASE DeleteQueue(q)
  BY <1>1, <1>5 DEF BoxTypes, StatsBalance, Zeroing, DeleteQueue, ClearOk, ClearFails
<1> QED BY <1>2, <1>3, <1>4, <1>5 DEF Operate

\* A clean-up subtracts the size of a queue and then zeroes it; it unregisters the
\* queue while nobody is between these two steps.
LEMMA CleanBalances ==
    ASSUME TypeOK, CleaningExcludes, Marked, StatsBalance, NEW k \in Cleaners, Clean(k)
    PROVE  StatsBalance'
<1>1. BoxTypes /\ CleanerTypes
  BY TypeParts
<1>2. /\ cl[k].step \in {"count", "zero"} => cl[k].at \in Queues
      /\ cl \in [Cleaners -> Progress] /\ cl[k].cleared \subseteq Queues
  BY <1>1 DEF CleanerTypes, Progress
<1>3. \A j \in Cleaners \ {k} : cl'[j] = cl[j]
  BY CleanMoves
<1>4. ASSUME UNCHANGED <<counted, abandoned, qsize>>, cl[k].step # "zero", cl'[k].step # "zero",
             \A q \in Queues : muddled'[q] = 0 => muddled[q] = 0
      PROVE  StatsBalance'
  <2>1. \A q \in Queues : Zeroing(q) <=> Zeroing(q)'
    BY <1>3, <1>4 DEF Zeroing
  <2> QED BY <1>4, <2>1 DEF StatsBalance, Zeroing
<1>5. CASE CleanClass(k) \/ CleanLoop(k) \/ CleanIter(k) \/ CleanCheck(k)
  <2>1. cl[k].step # "zero" /\ UNCHANGED <<counted, abandoned, qsize, muddled>>
    BY <1>5 DEF CleanClass, CleanLoop, CleanIter, CleanCheck, CleanerOnly, box, object, history
  <2> QED BY <1>4, <1>5, <2>1, CleanElsewhere
<1>6. CASE CleanSweep(k)
  <2>1. cl[k].step = "sweep" /\ UNCHANGED <<counted, abandoned, qsize>>
    BY <1>6 DEF CleanSweep, box, object
  <2>2. \A q \in Queues : muddled'[q] = 0 => muddled[q] = 0
    <3>1. muddled' = muddled \/ \E q \in Queues : muddled' = [muddled EXCEPT ![q] = @ + 1]
      <4>1. cl[k].batch \subseteq Queues
        BY <1>2 DEF Progress
      <4> QED BY <1>6, <4>1, SweepShape, SweepEffect
    <3> QED BY <1>1, <3>1 DEF BoxTypes
  <2> QED BY <1>4, <1>6, <2>1, <2>2, SweepEmpties
<1>7. CASE CleanCount(k)
  <2>1. PICK z \in Queues : z = cl[k].at
    BY <1>2, <1>7 DEF CleanCount
  <2>2. cl'[k].step = "zero" /\ cl'[k].at = z
    BY <1>2, <1>7, <2>1 DEF CleanCount, Progress
  <2>3. /\ counted' = [counted EXCEPT ![z] = @ - qsize[z]]
        /\ cl[k].step = "count" /\ UNCHANGED <<abandoned, qsize, muddled>>
    BY <1>7, <2>1 DEF CleanCount, object, history
  <2>4. \A q \in Queues \ {z} : Zeroing(q) <=> Zeroing(q)'
    BY <1>3, <2>2, <2>3 DEF Zeroing
  <2>5. Zeroing(z)' /\ (muddled[z] = 0 => ~Zeroing(z))
    BY <1>2, <2>1, <2>2, <2>3, OneClears DEF Zeroing
  <2>6. ASSUME NEW q \in Queues, muddled'[q] = 0
        PROVE  counted'[q] = abandoned'[q] + (IF Zeroing(q)' THEN 0 ELSE qsize'[q])
    <3>1. counted[q] = abandoned[q] + (IF Zeroing(q) THEN 0 ELSE qsize[q])
      BY <2>3, <2>6 DEF StatsBalance, Zeroing
    <3>2. CASE q = z
      BY <1>1, <2>3, <2>5, <2>6, <3>1, <3>2 DEF BoxTypes
    <3>3. CASE q # z
      BY <1>1, <2>3, <2>4, <3>1, <3>3 DEF BoxTypes
    <3> QED BY <3>2, <3>3
  <2> QED BY <2>6 DEF StatsBalance, Zeroing
<1>8. CASE CleanZero(k)
  <2>1. PICK z \in Queues : z = cl[k].at
    BY <1>2, <1>8 DEF CleanZero
  <2>2. cl'[k] = [cl[k] EXCEPT !.step = "sweep", !.at = NoQueue, !.cleared = @ \cup {cl[k].at}]
    BY <1>2, <1>8 DEF CleanZero
  <2>3. cl'[k].step = "sweep"
    BY <1>2, <2>2 DEF Progress
  <2>4. /\ qsize' = [qsize EXCEPT ![z] = 0]
        /\ cl[k].step = "zero" /\ UNCHANGED <<abandoned, counted, muddled>>
    BY <1>8, <2>1 DEF CleanZero, history
  <2>5. \A q \in Queues \ {z} : Zeroing(q) <=> Zeroing(q)'
    BY <1>3, <2>1, <2>3, <2>4 DEF Zeroing
  <2>6. Zeroing(z)
    BY <2>1, <2>4 DEF Zeroing
  <2>7. ASSUME muddled[z] = 0, NEW j \in Cleaners, cl'[j].step = "zero", cl'[j].at = z PROVE FALSE
    <3>1. j # k /\ cl[j].step = "zero" /\ cl[j].at = z
      BY <1>3, <2>3, <2>7
    <3> QED BY <2>1, <2>4, <2>7, <3>1, OneClears
  <2>8. muddled[z] = 0 => ~Zeroing(z)'
    BY <2>7 DEF Zeroing
  <2>9. ASSUME NEW q \in Queues, muddled'[q] = 0
        PROVE  counted'[q] = abandoned'[q] + (IF Zeroing(q)' THEN 0 ELSE qsize'[q])
    <3>1. counted[q] = abandoned[q] + (IF Zeroing(q) THEN 0 ELSE qsize[q])
      BY <2>4, <2>9 DEF StatsBalance, Zeroing
    <3>2. CASE q = z
      BY <1>1, <2>4, <2>6, <2>8, <2>9, <3>1, <3>2 DEF BoxTypes
    <3>3. CASE q # z
      BY <1>1, <2>4, <2>5, <3>1, <3>3 DEF BoxTypes
    <3> QED BY <3>2, <3>3
  <2> QED BY <2>9 DEF StatsBalance, Zeroing
<1>9. CASE CleanUnlist(k)
  <2>1. cl[k].step = "unlist" /\ UNCHANGED <<counted, muddled>>
    BY <1>9 DEF CleanUnlist
  <2>2. cl'[k].step # "zero"
    BY <1>9, CleanElsewhere
  <2>3. \/ UNCHANGED <<qsize, abandoned>>
        \/ \E q \in cl[k].cleared : /\ BucketFree(q)
                                    /\ abandoned' = [abandoned EXCEPT ![q] = @ + qsize[q]]
                                    /\ qsize' = [qsize EXCEPT ![q] = 0]
    BY <1>9 DEF CleanUnlist, object
  <2>4. CASE UNCHANGED <<qsize, abandoned>>
    BY <1>4, <2>1, <2>2, <2>4
  <2>5. ASSUME NEW q \in cl[k].cleared, BucketFree(q), qsize' = [qsize EXCEPT ![q] = 0],
               abandoned' = [abandoned EXCEPT ![q] = @ + qsize[q]]
        PROVE  StatsBalance'
    <3>1. \A p \in Queues : Zeroing(p) <=> Zeroing(p)'
      BY <1>3, <2>1, <2>2 DEF Zeroing
    <3>2. ~Zeroing(q)
      BY <2>5 DEF BucketFree, Zeroing
    <3> QED BY <1>1, <1>2, <2>1, <2>5, <3>1, <3>2 DEF BoxTypes, StatsBalance, Zeroing
  <2> QED BY <2>3, <2>4, <2>5
<1>10. CASE CleanEnd(k)
  BY <1>2, <1>4, <1>10 DEF CleanEnd, IdleCleaner, box, object, history
<1> QED BY <1>5, <1>6, <1>7, <1>8, <1>9, <1>10 DEF Clean

\* Every step keeps the balance of the statistics and the sizes.
LEMMA BalanceStep ==
    ASSUME TypeOK, Coherent, Loading, CleaningExcludes, Marked, StatsBalance, [Next]_vars
    PROVE  StatsBalance'
<1>1. ASSUME NEW q \in Operated, Operate(q) PROVE StatsBalance'
  BY <1>1, OperateBalances, BoxAssumption
<1>2. CASE UNCHANGED <<box, cl, abandoned, muddled>>
  BY <1>2 DEF StatsBalance, box, object
<1>3. ASSUME NEW q \in Queues, LoadQueue(q) PROVE StatsBalance'
  <2>1. UNCHANGED cl /\ ~Zeroing(q)
    BY <1>3 DEF LoadQueue, Loading, Busy, Zeroing
  <2>2. CASE SyncOk(q)
    BY <2>1, <2>2, TypeParts, SyncBalances
  <2>3. CASE Skip(q)
    BY <1>2, <2>1, <2>3 DEF Skip
  <2> QED BY <1>3, <2>2, <2>3 DEF LoadQueue
<1>4. CASE Empty
  BY <1>4 DEF Empty, StatsBalance, IdleCleaner
<1>5. ASSUME NEW k \in Cleaners, NEW del \in BOOLEAN, CleanBegin(k, del) PROVE StatsBalance'
  <2>1. /\ cl[k].step # "zero" /\ cl'[k].step # "zero"
        /\ \A j \in Cleaners \ {k} : cl'[j] = cl[j]
    BY <1>5, TypeParts DEF CleanBegin, IdleCleaner, CleanerTypes
  <2>2. \A q \in Queues : Zeroing(q) <=> Zeroing(q)'
    BY <2>1 DEF Zeroing
  <2> QED BY <1>5, <2>2 DEF CleanBegin, StatsBalance, Zeroing, box, object, history
<1> QED BY <1>1, <1>2, <1>3, <1>4, <1>5, RequestBalances, CleanBalances
        DEF Next, Toggle, Load, LoadPaused, Start, LoadFails, Crash, vars, history

\* Stats.requestNum is the sum of the sizes of the queues, plus what failed deletions
\* abandoned, but for the queues that nested clean-ups cleared.
THEOREM BalanceCorrect == Spec => []StatsBalance
<1>1. Init => StatsBalance
  BY DEF Init, StatsBalance, IdleCleaner
<1>2. /\ TypeOK /\ Coherent /\ Loading /\ CleaningExcludes /\ Marked /\ StatsBalance /\ [Next]_vars
      => StatsBalance'
  BY BalanceStep
<1> QED BY <1>1, <1>2, TypeCorrect, CoherentCorrect, LoadingCorrect, ExcludesCorrect, MarkedCorrect,
           PTL DEF Spec

=============================================================================
