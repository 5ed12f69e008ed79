-------------------------------- MODULE Queue --------------------------------
(***************************************************************************)
(* One registered request queue of a pod (pod/queuebox/queue.go): a Redis  *)
(* list, the counters a Queue object keeps about it in memory, and the     *)
(* callers that share them.                                                *)
(*                                                                         *)
(* enqueue and Dequeue run under the read lock of the queue's bucket, so   *)
(* any number of them interleave; every atomic counter operation and every *)
(* Redis command of theirs is a step of its own.  Sync, Clear and SetStatus*)
(* run alone: under the write lock, or, for the Clear of a box-wide clean- *)
(* up, while the service admits no request.  The content of the list is    *)
(* abstracted to its length.                                               *)
(*                                                                         *)
(* A Redis command may fail with no effect, or take effect and lose its    *)
(* reply; the client sees the same error.  MaxFaults bounds how often, and *)
(* MaxLen how long producers make the list; neither is in the code.        *)
(***************************************************************************)
EXTENDS Integers, FiniteSets

CONSTANTS
    Producers,  \* goroutines that enqueue
    Consumers,  \* goroutines that dequeue
    Limit,      \* 198405: the most calls of one kind admitted at once
    MaxLen,     \* bound: producers stop when the list is this long
    MaxFaults   \* bound: how many Redis commands may fail

ASSUME QueueAssumption ==
    /\ IsFiniteSet(Producers)
    /\ IsFiniteSet(Consumers)
    /\ Producers \cap Consumers = {}
    /\ Limit \in Nat \ {0}
    /\ MaxLen \in Nat
    /\ MaxFaults \in Nat

VARIABLES
    rlist,       \* LLEN of the Redis list
    rpaused,     \* is the queue in the Redis set of paused queues?
    status,      \* Queue.status
    qsize,       \* Queue.qsize
    queuing,     \* Queue.queuing
    dequeuing,   \* Queue.dequeuing
    requestNum,  \* what the queue has added to Stats.requestNum
    pc,          \* where each goroutine is
    ticket,      \* the value incrDequeuing gave a consumer, 0 once it is used
    lostPush,    \* history: pushes whose reply was lost since the last recount
    lostPop,     \* history: removals whose reply was lost since then
    faults       \* failed Redis commands so far

redis   == <<rlist, rpaused>>
counters == <<queuing, dequeuing>>
history == <<lostPush, lostPop>>
vars == <<redis, status, qsize, counters, requestNum, pc, ticket, history, faults>>

Statuses == {"working", "paused"}
ProducerPC == {"idle", "push", "countIn", "grow", "leave"}
ConsumerPC == {"idle", "load", "pop", "countOut", "shrink", "leave", "leaveIdle", "sync"}

\* The goroutines at a label.
At(l) == {t \in Producers \cup Consumers : pc[t] = l}

\* Producers and consumers inside enqueue and Dequeue.
Queuing == {p \in Producers : pc[p] # "idle"}
Dequeuing == {c \in Consumers : pc[c] \notin {"idle", "sync"}}

\* Consumers past the admission test whose removal qsize does not show yet.
Admitted == {c \in Consumers : pc[c] \in {"pop", "countOut", "shrink"}}

\* Producers past the limit's test whose push qsize does not show yet.
AdmittedProducers == {p \in Producers : pc[p] \in {"push", "countIn", "grow"}}

\* Nobody holds the bucket's lock.
LockFree == Queuing = {} /\ Dequeuing = {}

Fault == faults < MaxFaults /\ faults' = faults + 1

Goto(t, l) == pc' = [pc EXCEPT ![t] = l]

-----------------------------------------------------------------------------
(* enqueue.  Callers reach it only for a queue in the working map. *)

\* Slip: the rejection returns without the deferred decrement.
EnqBeginLeaks(p) ==
    /\ pc[p] = "idle" /\ status = "working" /\ rlist + queuing < MaxLen
    /\ queuing' = queuing + 1
    /\ Goto(p, IF queuing' > Limit THEN "idle" ELSE "push")
    /\ UNCHANGED <<redis, status, qsize, dequeuing, requestNum, ticket, history, faults>>

\* Slip: the counter is tested before the increment.
EnqBeginTestsOld(p) ==
    /\ pc[p] = "idle" /\ status = "working" /\ rlist + queuing < MaxLen
    /\ queuing' = queuing + 1
    /\ Goto(p, IF queuing > Limit THEN "leave" ELSE "push")
    /\ UNCHANGED <<redis, status, qsize, dequeuing, requestNum, ticket, history, faults>>

\* incrQueuing and the test against the limit.
EnqBegin(p) ==
    /\ pc[p] = "idle"
    /\ status = "working"
    /\ rlist + queuing < MaxLen
    /\ queuing' = queuing + 1
    /\ Goto(p, IF queuing' > Limit THEN "leave" ELSE "push")
    /\ UNCHANGED <<redis, status, qsize, dequeuing, requestNum, ticket, history, faults>>

\* RPush or LPush; any error is swallowed by the shadowed err.
EnqPush(p) ==
    /\ pc[p] = "push"
    /\ \/ /\ rlist' = rlist + 1
          /\ Goto(p, "countIn")
          /\ UNCHANGED <<lostPush, faults>>
       \/ /\ Fault
          /\ rlist' = rlist + 1
          /\ lostPush' = lostPush + 1
          /\ Goto(p, "leave")
       \/ /\ Fault
          /\ Goto(p, "leave")
          /\ UNCHANGED <<rlist, lostPush>>
    /\ UNCHANGED <<rpaused, status, qsize, counters, requestNum, ticket, lostPop>>

\* updateInput, first half: Stats.UpdateInput.
EnqCount(p) ==
    /\ pc[p] = "countIn"
    /\ requestNum' = requestNum + 1
    /\ Goto(p, "grow")
    /\ UNCHANGED <<redis, status, qsize, counters, ticket, history, faults>>

\* updateInput, second half: incr.
EnqGrow(p) ==
    /\ pc[p] = "grow"
    /\ qsize' = qsize + 1
    /\ Goto(p, "leave")
    /\ UNCHANGED <<redis, status, counters, requestNum, ticket, history, faults>>

\* The deferred decrQueuing.
EnqLeave(p) ==
    /\ pc[p] = "leave"
    /\ queuing' = queuing - 1
    /\ Goto(p, "idle")
    /\ UNCHANGED <<redis, status, qsize, dequeuing, requestNum, ticket, history, faults>>

Enqueue(p) == EnqBegin(p) \/ EnqPush(p) \/ EnqCount(p) \/ EnqGrow(p) \/ EnqLeave(p)

-----------------------------------------------------------------------------
(* Dequeue, and the SyncQueue that xxDequeueRequest runs after it when the  *)
(* queue looks empty.                                                       *)

\* incrDequeuing.
DeqBegin(c) ==
    /\ pc[c] = "idle"
    /\ status = "working"
    /\ dequeuing' = dequeuing + 1
    /\ ticket' = [ticket EXCEPT ![c] = dequeuing']
    /\ Goto(c, "load")
    /\ UNCHANGED <<redis, status, qsize, queuing, requestNum, history, faults>>

\* Slips in the admission test: one too many, only a look at qsize, and credit
\* for pushes still in progress.
AdmitsOneMore(c) == ticket[c] <= qsize + 1 /\ ticket[c] <= Limit
AdmitsNonEmpty(c) == qsize > 0 /\ ticket[c] <= Limit
AdmitsOnCredit(c) == ticket[c] <= qsize + queuing /\ ticket[c] <= Limit

\* The admission test.
Admits(c) == ticket[c] <= qsize /\ ticket[c] <= Limit

\* QueueSize and the test; a caller rejected by an empty queue will sync it.
DeqAdmit(c) ==
    /\ pc[c] = "load"
    /\ ticket' = [ticket EXCEPT ![c] = 0]
    /\ \/ Admits(c) /\ Goto(c, "pop")
       \/ ~Admits(c) /\ qsize > 0 /\ Goto(c, "leave")
       \/ ~Admits(c) /\ qsize <= 0 /\ Goto(c, "leaveIdle")
    /\ UNCHANGED <<redis, status, qsize, counters, requestNum, history, faults>>

\* Slip: the Nil of an empty list is taken for a request.
DeqPopIgnoresNil(c) ==
    /\ pc[c] = "pop"
    /\ rlist' = IF rlist > 0 THEN rlist - 1 ELSE rlist
    /\ Goto(c, "countOut")
    /\ UNCHANGED <<rpaused, status, qsize, counters, requestNum, ticket, history, faults>>

\* Slip: a removal is assumed to succeed whatever Redis holds.
DeqPopTakesBlindly(c) ==
    /\ pc[c] = "pop"
    /\ rlist' = rlist - 1
    /\ Goto(c, "countOut")
    /\ UNCHANGED <<rpaused, status, qsize, counters, requestNum, ticket, history, faults>>

\* LPop.
DeqPop(c) ==
    /\ pc[c] = "pop"
    /\ \/ /\ rlist > 0
          /\ rlist' = rlist - 1
          /\ Goto(c, "countOut")
          /\ UNCHANGED <<lostPop, faults>>
       \/ /\ rlist = 0
          /\ Goto(c, "leaveIdle")
          /\ UNCHANGED <<rlist, lostPop, faults>>
       \/ /\ Fault
          /\ rlist > 0
          /\ rlist' = rlist - 1
          /\ lostPop' = lostPop + 1
          /\ Goto(c, "leave")
       \/ /\ Fault
          /\ Goto(c, "leave")
          /\ UNCHANGED <<rlist, lostPop>>
    /\ UNCHANGED <<rpaused, status, qsize, counters, requestNum, ticket, lostPush>>

\* updateOutput, first half: Stats.UpdateOutput.
DeqCount(c) ==
    /\ pc[c] = "countOut"
    /\ requestNum' = requestNum - 1
    /\ Goto(c, "shrink")
    /\ UNCHANGED <<redis, status, qsize, counters, ticket, history, faults>>

\* updateOutput, second half: decr; its result decides on the trailing sync.
DeqShrink(c) ==
    /\ pc[c] = "shrink"
    /\ qsize' = qsize - 1
    /\ Goto(c, IF qsize' <= 0 THEN "leaveIdle" ELSE "leave")
    /\ UNCHANGED <<redis, status, counters, requestNum, ticket, history, faults>>

\* Slip: deleteIdle is never acted on.
DeqLeaveUnsynced(c) ==
    /\ pc[c] \in {"leave", "leaveIdle"}
    /\ dequeuing' = dequeuing - 1
    /\ Goto(c, "idle")
    /\ UNCHANGED <<redis, status, qsize, queuing, requestNum, ticket, history, faults>>

\* The deferred decrDequeuing and the RUnlock after it.
DeqLeave(c) ==
    /\ pc[c] \in {"leave", "leaveIdle"}
    /\ dequeuing' = dequeuing - 1
    /\ Goto(c, IF pc[c] = "leave" THEN "idle" ELSE "sync")
    /\ UNCHANGED <<redis, status, qsize, queuing, requestNum, ticket, history, faults>>

\* Sync succeeds: both commands of the pipeline are answered.
Recount ==
    /\ qsize' = rlist
    /\ requestNum' = requestNum + (rlist - qsize)
    /\ status' = IF rpaused THEN "paused" ELSE status
    /\ lostPush' = 0
    /\ lostPop' = 0
    /\ UNCHANGED <<redis, counters, ticket, faults>>

\* Sync fails: it only reads, so nothing changes.
RecountFails ==
    /\ Fault
    /\ UNCHANGED <<redis, status, qsize, counters, requestNum, ticket, history>>

DeqSync(c) ==
    /\ pc[c] = "sync"
    /\ LockFree
    /\ Goto(c, "idle")
    /\ Recount \/ RecountFails

Dequeue(c) == \/ DeqBegin(c) \/ DeqAdmit(c) \/ DeqPop(c) \/ DeqCount(c)
              \/ DeqShrink(c) \/ DeqLeave(c) \/ DeqSync(c)

-----------------------------------------------------------------------------
(* Operations that run alone. *)

Sync ==
    /\ LockFree
    /\ Recount \/ RecountFails
    /\ UNCHANGED pc

\* The counters are reset only when every command was answered.
Clear(erase) ==
    /\ LockFree
    /\ \/ /\ rlist' = 0
          /\ rpaused' = (rpaused /\ ~erase)
          /\ requestNum' = requestNum - qsize
          /\ qsize' = 0
          /\ lostPush' = 0
          /\ lostPop' = 0
          /\ UNCHANGED faults
       \/ /\ Fault   \* after DEL, or after SREM
          /\ rlist' = 0
          /\ \/ UNCHANGED rpaused
             \/ erase /\ rpaused' = FALSE
          /\ lostPop' = lostPop + rlist
          /\ UNCHANGED <<qsize, requestNum, lostPush>>
       \/ /\ Fault   \* before DEL
          /\ UNCHANGED <<redis, qsize, requestNum, history>>
    /\ UNCHANGED <<status, counters, pc, ticket>>

\* Slip: the status is changed under the read lock.
SetStatusShared(newStatus) ==
    /\ status # newStatus
    /\ rpaused' = (newStatus = "paused")
    /\ status' = newStatus
    /\ UNCHANGED <<rlist, qsize, counters, requestNum, pc, ticket, history, faults>>

\* SADD or SREM first; Queue.status follows only when it was answered.
SetStatus(newStatus) ==
    /\ LockFree
    /\ status # newStatus
    /\ \/ /\ rpaused' = (newStatus = "paused")
          /\ status' = newStatus
          /\ UNCHANGED faults
       \/ /\ Fault
          /\ rpaused' \in {rpaused, newStatus = "paused"}
          /\ UNCHANGED status
    /\ UNCHANGED <<rlist, qsize, counters, requestNum, pc, ticket, history>>

-----------------------------------------------------------------------------
\* A queue is registered by a Sync of what Redis holds.
Init ==
    /\ rlist \in 0..MaxLen
    /\ rpaused \in BOOLEAN
    /\ status = IF rpaused THEN "paused" ELSE "working"
    /\ qsize = rlist
    /\ requestNum = rlist
    /\ queuing = 0
    /\ dequeuing = 0
    /\ pc = [t \in Producers \cup Consumers |-> "idle"]
    /\ ticket = [c \in Consumers |-> 0]
    /\ lostPush = 0
    /\ lostPop = 0
    /\ faults = 0

Next ==
    \/ \E p \in Producers : Enqueue(p)
    \/ \E c \in Consumers : Dequeue(c)
    \/ Sync
    \/ \E erase \in BOOLEAN : Clear(erase)
    \/ \E newStatus \in Statuses : SetStatus(newStatus)

Spec == Init /\ [][Next]_vars

\* A goroutine inside a call is scheduled until the call returns, and clients
\* keep asking for requests; nothing obliges a producer to come.
Fairness ==
    /\ \A p \in Producers : WF_vars(Enqueue(p) /\ pc[p] # "idle")
    /\ \A c \in Consumers : WF_vars(Dequeue(c))

FairSpec == Spec /\ Fairness

-----------------------------------------------------------------------------
(* Properties. *)

\* The variables keep the types the Go struct and the control flow give them.
TypeOK ==
    /\ rlist \in Nat
    /\ rpaused \in BOOLEAN
    /\ status \in Statuses
    /\ qsize \in Int
    /\ queuing \in Int
    /\ dequeuing \in Int
    /\ requestNum \in Int
    /\ pc \in [Producers \cup Consumers -> ProducerPC \cup ConsumerPC]
    /\ \A p \in Producers : pc[p] \in ProducerPC
    /\ \A c \in Consumers : pc[c] \in ConsumerPC
    /\ ticket \in [Consumers -> Int]
    /\ lostPush \in Nat
    /\ lostPop \in Nat
    /\ faults \in Nat

\* The counters of calls in progress are exact on every path out of a call,
\* rejections and errors included (the deferred decrements).
CountersMatch ==
    /\ queuing = Cardinality(Queuing)
    /\ dequeuing = Cardinality(Dequeuing)

\* Consumers whose removal qsize does not show, and those whose ticket would
\* admit them at a queue of size k.
Early(k) == Admitted \cup {c \in Consumers : pc[c] = "load" /\ ticket[c] <= k}

\* The unlocked test "dequeuing > qsize || dequeuing > Limit" never admits more
\* consumers than qsize or the limit, although both sides move between the
\* increment, the load and the comparison; so qsize never becomes negative.
\* The set of those that could still pass decides, not only those that did.
AdmissionHolds ==
    \A k \in 0..Cardinality(Consumers) :
        (k >= qsize \/ k >= Limit) => Cardinality(Early(k)) <= k

\* At most qsize consumers, and at most Limit, are between admission and decr.
AdmittedFit ==
    /\ Cardinality(Admitted) <= qsize
    /\ Cardinality(Admitted) <= Limit

Admission == AdmissionHolds /\ AdmittedFit

\* At most Limit producers are past the test in enqueue at once.
ProducersFit == Cardinality(AdmittedProducers) <= Limit

\* qsize differs from the Redis list by exactly the calls between their Redis
\* command and their counter update, and by the replies lost since a recount.
Accounting ==
    rlist + Cardinality(At("countOut")) + Cardinality(At("shrink")) + lostPop
      = qsize + Cardinality(At("countIn")) + Cardinality(At("grow")) + lostPush

\* The queue's share of Stats.requestNum runs ahead of qsize by the calls
\* between the two halves of updateInput and updateOutput, and by no others.
StatsAgree ==
    requestNum = qsize + Cardinality(At("grow")) - Cardinality(At("shrink"))

Books == Accounting /\ StatsAgree

\* An admitted consumer finds a request for it in the list unless the reply to
\* a removal was lost: LPOP then answers Nil only because of such a loss.
NoEmptyPop == lostPop = 0 => Cardinality(At("pop")) <= rlist

\* A queue that was paused in memory has no call in progress, so none returns
\* a request after the pause was answered.
PausedIsQuiet == status = "paused" => LockFree

\* The queue implements reservations of stored requests.
R == INSTANCE ReservedQueue WITH
        stored <- rlist, reserved <- Cardinality(At("pop")), debt <- lostPop

ImplementsReservedQueue == R!Spec

\* With producers gone and the queue working, one consumer that keeps calling
\* empties the list: lost replies leave qsize short of the list or beyond it,
\* and the trailing sync repairs both.
LoneConsumerDrains ==
    <>[][\A p \in Producers : ~EnqBegin(p)]_vars /\ <>[](status = "working")
      => <>[](rlist = 0)

=============================================================================
