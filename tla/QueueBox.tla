------------------------------ MODULE QueueBox ------------------------------
(***************************************************************************)
(* The box of all queues of a pod (pod/queuebox/queuebox.go): the two maps *)
(* of registered queues, the Redis lists and the Redis set of paused       *)
(* queues behind them, the statistics, and everything that moves a queue   *)
(* between them: requests, the operator's calls on one queue, the clean-up *)
(* of all queues, a crash, and the Load that rebuilds the box.             *)
(*                                                                         *)
(* A critical section of a bucket's lock is one step; what interleaves     *)
(* inside Dequeue and enqueue is the subject of module Queue.  A queue     *)
(* that is not registered has no Queue object; its entries in qstatus and  *)
(* qsize are those NewQueue would give it.                                 *)
(***************************************************************************)
EXTENDS Integers, FiniteSets, ServStatus

CONSTANTS
    Queues,      \* queue ids
    Operated,    \* the queues that operators call on
    Colons,      \* the number of colons in the text of each queue's id
    Clients,     \* goroutines that serve requests
    Cleaners,    \* goroutines that serve DELETE /queues/ and POST /queues/clear/
    BatchSize,   \* CLEAR_QUEUES_NUM
    NoQueue,     \* not a queue id
    MaxLen,      \* bound: clients stop filling a list at this length
    MaxFaults,   \* bound: failed Redis commands
    MaxCrashes,  \* bound: crashes of the process
    MaxNested    \* bound: nested clean-ups leave a queue they cleared so often

ASSUME BoxAssumption ==
    /\ IsFiniteSet(Queues)
    /\ Operated \subseteq Queues
    /\ Colons \in [Queues -> Nat]
    /\ NoQueue \notin Queues
    /\ BatchSize \in Nat \ {0}
    /\ MaxLen \in Nat
    /\ MaxFaults \in Nat
    /\ MaxCrashes \in Nat
    /\ MaxNested \in Nat

VARIABLES
    rlist,         \* Redis: the length of each queue's list
    rpaused,       \* Redis: the set of paused queues
    statusQueues,  \* QueueBox.statusQueues: the registered queues by status
    qstatus,       \* Queue.status
    qsize,         \* Queue.qsize
    counted,       \* what each queue has added to Stats.requestNum
    serv,          \* Serv.status
    scan,          \* Load: queues the present scan has still to return
    phase,         \* Load: "lists", then "paused", then "done"
    pc,            \* where each client is
    target,        \* the queue a client works on
    cl,            \* each cleaner's progress in ClearOrDeleteQueues
    faults,        \* failed Redis commands so far
    crashes,       \* crashes so far
    abandoned,     \* history: what dropped queues left in requestNum
    dropped,       \* history: queues that a DeleteQueue which failed, or a nested
                   \* clean-up, unregistered, or that Load skipped
    muddled,       \* history: how often nested clean-ups cleared each queue
    pause          \* history: what the last answered pause of each queue is worth

redis   == <<rlist, rpaused>>
object  == <<qstatus, qsize>>
box     == <<statusQueues, object, counted>>
load    == <<scan, phase>>
client  == <<pc, target>>
budget  == <<faults, crashes>>
history == <<abandoned, dropped, muddled, pause>>
vars == <<redis, box, serv, load, client, cl, budget, history>>

QStatuses == {"working", "paused"}
Steps == {"idle", "shared", "exclusive", "dequeue", "trailing"}
CleanSteps == {"idle", "class", "loop", "iter", "sweep", "count", "zero",
               "unlist", "check", "end"}

\* The history of a queue's pauses: the last answer was not a pause; it was one,
\* and Redis holds it; it was one, but a resume or a deletion has been tried since;
\* a further pause after that was answered without a write (queue.go:36).
Pauses == {"none", "saved", "revoked", "unsaved"}

IdleCleaner ==
    [step |-> "idle", old |-> "working", del |-> FALSE, todo |-> {}, class |-> "working",
     batch |-> {}, at |-> NoQueue, cleared |-> {}, failed |-> FALSE, pausedCount |-> 0]

Working == statusQueues["working"]
Paused  == statusQueues["paused"]
Registered == Working \cup Paused

Fault == faults < MaxFaults /\ faults' = faults + 1 /\ UNCHANGED crashes

\* Slip: the status changes without the lock.
ServUnlocked == TRUE

\* Nobody holds the service's read lock, so its status may change.
ServFree == \A t \in Clients : pc[t] = "idle"

\* A cleaner in Iter holds the read lock of the map it iterates over, and of the
\* bucket of the queue it is clearing.
Iterates(k, s) == cl[k].class = s /\ cl[k].step \in {"sweep", "count", "zero"}
BucketFree(q) == \A k \in Cleaners : cl[k].step \in {"count", "zero"} => cl[k].at # q

\* The maps change to m; those being iterated over cannot.
SetMaps(m) ==
    /\ statusQueues' = m
    /\ \A k \in Cleaners, s \in QStatuses : Iterates(k, s) => m[s] = statusQueues[s]

\* Slip: the queue stays in the map of its old status.
MovedKeepsOld(q, s) == [statusQueues EXCEPT ![s] = @ \cup {q}]

\* The maps with q registered under status s alone, or not at all.
Moved(q, s) == [x \in QStatuses |-> IF x = s THEN statusQueues[x] \cup {q}
                                             ELSE statusQueues[x] \ {q}]
Without(q) == [x \in QStatuses |-> statusQueues[x] \ {q}]

-----------------------------------------------------------------------------
(* Queue.Sync and the registration that syncQueue derives from it. *)

\* Slip: only the object's own status counts.
SyncedStatusFromMemory(q) == qstatus[q]

SyncedStatus(q) == IF q \in rpaused THEN "paused" ELSE qstatus[q]

\* Slip: the size read before the sync decides on the registration.
SyncOkOldSize(q) ==
    /\ qsize' = [qsize EXCEPT ![q] = rlist[q]]
    /\ counted' = [counted EXCEPT ![q] = @ + rlist[q] - qsize[q]]
    /\ qstatus' = [qstatus EXCEPT ![q] = SyncedStatus(q)]
    /\ SetMaps(IF qsize[q] > 0 \/ SyncedStatus(q) # "working"
               THEN Moved(q, SyncedStatus(q))
               ELSE Without(q))
    /\ dropped' = dropped \ {q}
    /\ UNCHANGED <<redis, budget, abandoned, muddled, pause>>

\* syncQueue, when Redis answers: an empty working queue is unregistered.
SyncOk(q) ==
    /\ qsize' = [qsize EXCEPT ![q] = rlist[q]]
    /\ counted' = [counted EXCEPT ![q] = @ + rlist[q] - qsize[q]]
    /\ qstatus' = [qstatus EXCEPT ![q] = SyncedStatus(q)]
    /\ SetMaps(IF rlist[q] > 0 \/ SyncedStatus(q) # "working"
               THEN Moved(q, SyncedStatus(q))
               ELSE Without(q))
    /\ dropped' = dropped \ {q}
    /\ UNCHANGED <<redis, budget, abandoned, muddled, pause>>

SyncFails == Fault /\ UNCHANGED <<redis, box, history>>

-----------------------------------------------------------------------------
(* Requests.  DoWithLockOnWorkStatus holds the service's read lock from     *)
(* Begin until the client is idle again.                                    *)

Begin(t, q, step) ==
    /\ pc[t] = "idle"
    /\ serv = "working"
    /\ pc' = [pc EXCEPT ![t] = step]
    /\ target' = [target EXCEPT ![t] = q]
    /\ UNCHANGED <<redis, box, serv, load, cl, budget, history>>

\* Slip: the retry does not know its queue any more.
ProceedForgets(t, step) ==
    /\ pc' = [pc EXCEPT ![t] = step]
    /\ target' = [target EXCEPT ![t] = NoQueue]
    /\ UNCHANGED <<serv, load, cl>>

\* The client goes on to step, or is done and forgets its queue.
Proceed(t, step) ==
    /\ pc' = [pc EXCEPT ![t] = step]
    /\ target' = IF step = "idle" THEN [target EXCEPT ![t] = NoQueue] ELSE target
    /\ UNCHANGED <<serv, load, cl>>

\* Queue.enqueue: stored and answered, stored and the answer lost, or refused.
Stored(q) ==
    /\ rlist' = [rlist EXCEPT ![q] = @ + 1]
    /\ UNCHANGED <<rpaused, budget>>
StoredUnseen(q) ==
    /\ Fault
    /\ rlist' = [rlist EXCEPT ![q] = @ + 1]
    /\ UNCHANGED rpaused
NotStored == Fault /\ UNCHANGED redis

\* Slip: a paused queue is treated like an unregistered one.
NotWorkingRetries(t) ==
    /\ target[t] \notin Working
    /\ Proceed(t, "exclusive")
    /\ UNCHANGED <<redis, qsize, counted, budget>>

\* A paused queue is refused; an unregistered one needs the write lock.
NotWorking(t) ==
    /\ target[t] \notin Working
    /\ Proceed(t, IF target[t] \in Paused THEN "idle" ELSE "exclusive")
    /\ UNCHANGED <<redis, qsize, counted, budget>>

\* enqueueRequest under the read lock.  A failed push leaves result and err nil,
\* so it falls through to the write lock like an unregistered queue.
EnqueueShared(t) ==
    /\ pc[t] = "shared"
    /\ LET q == target[t] IN
       \/ /\ q \in Working
          /\ Stored(q)
          /\ qsize' = [qsize EXCEPT ![q] = @ + 1]
          /\ counted' = [counted EXCEPT ![q] = @ + 1]
          /\ Proceed(t, "idle")
       \/ /\ q \in Working
          /\ StoredUnseen(q) \/ NotStored
          /\ Proceed(t, "exclusive")
          /\ UNCHANGED <<qsize, counted>>
       \/ NotWorking(t)
    /\ UNCHANGED <<statusQueues, qstatus, history>>

\* The new queue is synced, filled and registered under one write lock.
EnqueueNew(t) ==
    LET q == target[t] IN
    /\ \/ /\ Stored(q)
          /\ qsize' = [qsize EXCEPT ![q] = rlist[q] + 1]
          /\ counted' = [counted EXCEPT ![q] = @ + rlist[q] + 1]
       \/ /\ StoredUnseen(q) \/ NotStored
          /\ qsize' = [qsize EXCEPT ![q] = rlist[q]]
          /\ counted' = [counted EXCEPT ![q] = @ + rlist[q]]
    /\ SetMaps(Moved(q, "working"))
    /\ dropped' = dropped \ {q}
    /\ Proceed(t, "idle")
    /\ UNCHANGED <<qstatus, abandoned, muddled, pause>>

\* The queue turns out to be paused in Redis.
EnqueuePaused(t) ==
    LET q == target[t] IN
    /\ qstatus' = [qstatus EXCEPT ![q] = "paused"]
    /\ qsize' = [qsize EXCEPT ![q] = rlist[q]]
    /\ counted' = [counted EXCEPT ![q] = @ + rlist[q]]
    /\ SetMaps(Moved(q, "paused"))
    /\ dropped' = dropped \ {q}
    /\ Proceed(t, "idle")
    /\ UNCHANGED <<redis, budget, abandoned, muddled, pause>>

\* enqueueRequest under the write lock: somebody may have registered the queue
\* in between, and then everything starts over.
EnqueueExclusive(t) ==
    /\ pc[t] = "exclusive"
    /\ BucketFree(target[t])
    /\ \/ /\ target[t] \in Registered
          /\ Proceed(t, "shared")
          /\ UNCHANGED <<redis, box, budget, history>>
       \/ /\ target[t] \notin Registered
          /\ SyncFails
          /\ Proceed(t, "idle")
       \/ /\ target[t] \notin Registered
          /\ IF target[t] \in rpaused THEN EnqueuePaused(t) ELSE EnqueueNew(t)

\* xxDequeueRequest under the read lock.  A client may be turned away while the
\* queue is not empty when others dequeue from it at the same time.
DequeueShared(t) ==
    /\ pc[t] = "dequeue"
    /\ LET q == target[t] IN
       \/ /\ q \notin Working
          /\ Proceed(t, "idle")
          /\ UNCHANGED <<redis, qsize, counted, budget>>
       \/ /\ q \in Working
          /\ \/ qsize[q] <= 0 /\ Proceed(t, "trailing")
             \/ /\ qsize[q] > 0
                /\ \E u \in Clients \ {t} : pc[u] = "dequeue" /\ target[u] = q
                /\ Proceed(t, "idle")
             \/ qsize[q] > 0 /\ rlist[q] = 0 /\ Proceed(t, "trailing")
          /\ UNCHANGED <<redis, qsize, counted, budget>>
       \/ /\ q \in Working /\ qsize[q] > 0 /\ rlist[q] > 0
          /\ rlist' = [rlist EXCEPT ![q] = @ - 1]
          /\ qsize' = [qsize EXCEPT ![q] = @ - 1]
          /\ counted' = [counted EXCEPT ![q] = @ - 1]
          /\ Proceed(t, IF qsize[q] = 1 THEN "trailing" ELSE "idle")
          /\ UNCHANGED <<rpaused, budget>>
       \/ /\ q \in Working /\ qsize[q] > 0
          /\ Fault
          /\ \/ rlist[q] > 0 /\ rlist' = [rlist EXCEPT ![q] = @ - 1]
             \/ UNCHANGED rlist
          /\ Proceed(t, "idle")
          /\ UNCHANGED <<rpaused, qsize, counted>>
    /\ UNCHANGED <<statusQueues, qstatus, history>>

\* SyncQueue(qid, false), after the read lock was given up.
DequeueTrailing(t) ==
    /\ pc[t] = "trailing"
    /\ BucketFree(target[t])
    /\ \/ target[t] \in Registered /\ (SyncOk(target[t]) \/ SyncFails)
       \/ /\ target[t] \notin Registered
          /\ UNCHANGED <<redis, box, budget, history>>
    /\ Proceed(t, "idle")

Request(t) ==
    \/ \E q \in Queues : rlist[q] < MaxLen /\ Begin(t, q, "shared")
    \/ \E q \in Queues : Begin(t, q, "dequeue")
    \/ EnqueueShared(t)
    \/ EnqueueExclusive(t)
    \/ DequeueShared(t)
    \/ DequeueTrailing(t)

-----------------------------------------------------------------------------
(* The operator's calls on one queue, each under the bucket's write lock and *)
(* none of them held back by the status of the service.                     *)

\* What an answered pause is worth, by whether Redis was written; an answered
\* resume ends it.
PauseWritten(q, new) == [pause EXCEPT ![q] = IF new = "paused" THEN "saved" ELSE "none"]
PauseRepeated(q) == [pause EXCEPT ![q] = IF @ \in {"none", "saved"} THEN "saved" ELSE "unsaved"]

WithPaused(q, new) == IF new = "paused" THEN rpaused \cup {q} ELSE rpaused \ {q}

\* Slip: the queue stays in the map it was in.
SetStatusKeepsMap(q, new) ==
    /\ q \in Registered
    /\ qstatus[q] # new
    /\ rpaused' = WithPaused(q, new)
    /\ qstatus' = [qstatus EXCEPT ![q] = new]
    /\ pause' = PauseWritten(q, new)
    /\ UNCHANGED <<rlist, statusQueues, qsize, counted, budget, abandoned, dropped, muddled>>

\* SetStatus on a registered queue; Redis first, then the object and the maps.
\* A queue that has the status already is answered without a command to Redis.
SetStatus(q, new) ==
    /\ q \in Registered
    /\ \/ /\ qstatus[q] = new
          /\ pause' = IF new = "paused" THEN PauseRepeated(q) ELSE PauseWritten(q, new)
          /\ UNCHANGED <<rpaused, qstatus, statusQueues, budget>>
       \/ /\ qstatus[q] # new
          /\ rpaused' = WithPaused(q, new)
          /\ qstatus' = [qstatus EXCEPT ![q] = new]
          /\ SetMaps(Moved(q, new))
          /\ pause' = PauseWritten(q, new)
          /\ UNCHANGED budget
       \/ /\ qstatus[q] # new
          /\ Fault
          /\ rpaused' \in {rpaused, WithPaused(q, new)}
          /\ pause' = IF new = "paused" THEN pause ELSE [pause EXCEPT ![q] = "revoked"]
          /\ UNCHANGED <<qstatus, statusQueues>>
    /\ UNCHANGED <<rlist, qsize, counted, abandoned, dropped, muddled>>

\* SyncQueue(qid, true): an unregistered queue gets a new object first.
Sync(q) == SyncOk(q) \/ SyncFails

\* What Clear leaves in Redis when it fails: nothing done, the list deleted, or
\* the pause erased as well.
ClearFails(q, erase) ==
    /\ Fault
    /\ rlist' \in {rlist, [rlist EXCEPT ![q] = 0]}
    /\ rpaused' \in IF erase /\ rlist'[q] = 0 THEN {rpaused, rpaused \ {q}} ELSE {rpaused}

ClearOk(q, erase) ==
    /\ rlist' = [rlist EXCEPT ![q] = 0]
    /\ rpaused' = IF erase THEN rpaused \ {q} ELSE rpaused
    /\ UNCHANGED budget

ClearQueue(q) ==
    /\ q \in Registered
    /\ \/ /\ ClearOk(q, FALSE)
          /\ qsize' = [qsize EXCEPT ![q] = 0]
          /\ counted' = [counted EXCEPT ![q] = @ - qsize[q]]
          /\ SetMaps(IF qstatus[q] = "working" THEN [statusQueues EXCEPT !["working"] = @ \ {q}]
                                               ELSE statusQueues)
       \/ /\ ClearFails(q, FALSE)
          /\ UNCHANGED <<qsize, counted, statusQueues>>
    /\ UNCHANGED <<qstatus, history>>

\* The queue is unregistered whether or not Clear succeeded.
DeleteQueue(q) ==
    /\ q \in Registered
    /\ \/ /\ ClearOk(q, TRUE)
          /\ counted' = [counted EXCEPT ![q] = @ - qsize[q]]
          /\ UNCHANGED <<abandoned, dropped>>
       \/ /\ ClearFails(q, TRUE)
          /\ abandoned' = [abandoned EXCEPT ![q] = @ + qsize[q]]
          /\ dropped' = dropped \cup {q}
          /\ UNCHANGED counted
    /\ qsize' = [qsize EXCEPT ![q] = 0]
    /\ qstatus' = [qstatus EXCEPT ![q] = "working"]
    /\ SetMaps([statusQueues EXCEPT ![qstatus[q]] = @ \ {q}])
    /\ pause' = [pause EXCEPT ![q] = "none"]
    /\ UNCHANGED muddled

Operate(q) ==
    /\ phase = "done"
    /\ BucketFree(q)
    /\ \/ \E new \in QStatuses : SetStatus(q, new)
       \/ Sync(q)
       \/ ClearQueue(q)
       \/ DeleteQueue(q)
    /\ UNCHANGED <<serv, load, client, cl>>

\* Toggle, under the service's write lock.
Toggle(new) ==
    /\ ServFree
    /\ WorkStatus(serv)
    /\ serv # new
    /\ serv' = new
    /\ UNCHANGED <<redis, box, load, client, cl, budget, history>>

-----------------------------------------------------------------------------
(* ClearOrDeleteQueues.  Nothing makes a second call wait for a first one: it *)
(* finds the status Cleaning already, and is nested in the first.            *)

Busy(k) == cl[k].step # "idle"
Nested(k) == cl[k].old = "cleaning"

\* A step of cleaner k that touches nothing but its own progress.
CleanerOnly == UNCHANGED <<redis, box, serv, load, client, budget, history>>

\* SetStatus(Cleaning) waits for the requests in progress.
CleanBegin(k, del) ==
    /\ cl[k].step = "idle"
    /\ phase = "done"
    /\ ServFree
    /\ CanSet(serv, "cleaning")
    /\ serv' = "cleaning"
    /\ cl' = [cl EXCEPT ![k] = [IdleCleaner EXCEPT !.step = "class", !.old = serv,
                                                   !.del = del, !.todo = QStatuses]]
    /\ UNCHANGED <<redis, box, load, client, budget, history>>

\* The range over the map of statuses, in any order.
CleanClass(k) ==
    /\ cl[k].step = "class"
    /\ \/ /\ cl[k].todo = {}
          /\ cl' = [cl EXCEPT ![k].step = "end"]
       \/ \E s \in cl[k].todo :
            cl' = [cl EXCEPT ![k].step = "loop", ![k].class = s, ![k].pausedCount = 0,
                             ![k].todo = @ \ {s}]
    /\ CleanerOnly

\* for queues.Size() > 0
CleanLoop(k) ==
    /\ cl[k].step = "loop"
    /\ cl' = [cl EXCEPT ![k].step = IF statusQueues[cl[k].class] = {} THEN "class" ELSE "iter"]
    /\ CleanerOnly

\* Iter takes the map's read lock and the first BatchSize queues in slice order.
Batches(s) ==
    {b \in SUBSET statusQueues[s] :
        Cardinality(b) = IF Cardinality(statusQueues[s]) < BatchSize
                         THEN Cardinality(statusQueues[s]) ELSE BatchSize}

CleanIter(k) ==
    /\ cl[k].step = "iter"
    /\ \E b \in Batches(cl[k].class) :
         /\ Nested(k) => \A q \in b : muddled[q] < MaxNested
         /\ cl' = [cl EXCEPT ![k].step = "sweep", ![k].batch = b, ![k].cleared = {}]
    /\ CleanerOnly

\* Clear of one queue, first its Redis commands.
CleanSweep(k) ==
    /\ cl[k].step = "sweep"
    /\ \/ /\ cl[k].batch = {}
          /\ cl' = [cl EXCEPT ![k].step = "unlist"]
          /\ UNCHANGED <<redis, budget, muddled, pause>>
       \/ \E q \in cl[k].batch :
            /\ \/ /\ ClearOk(q, cl[k].del)
                  /\ cl' = [cl EXCEPT ![k].step = "count", ![k].at = q,
                                      ![k].batch = @ \ {q}]
               \/ /\ ClearFails(q, cl[k].del)
                  /\ cl' = [cl EXCEPT ![k].step = "unlist", ![k].failed = TRUE,
                                      ![k].batch = {}]
            /\ muddled' = IF Nested(k) THEN [muddled EXCEPT ![q] = @ + 1] ELSE muddled
            /\ pause' = IF cl[k].del THEN [pause EXCEPT ![q] = "revoked"] ELSE pause
    /\ UNCHANGED <<box, serv, load, client, abandoned, dropped>>

\* Slip: the statistics are left as they were.
CleanCountSkipped(k) ==
    /\ cl[k].step = "count"
    /\ cl' = [cl EXCEPT ![k].step = "zero"]
    /\ CleanerOnly

\* Then the statistics, if qsize is not 0 ...
CleanCount(k) ==
    /\ cl[k].step = "count"
    /\ counted' = [counted EXCEPT ![cl[k].at] = @ - qsize[cl[k].at]]
    /\ cl' = [cl EXCEPT ![k].step = "zero"]
    /\ UNCHANGED <<redis, statusQueues, object, serv, load, client, budget, history>>

\* ... and qsize.
CleanZero(k) ==
    /\ cl[k].step = "zero"
    /\ qsize' = [qsize EXCEPT ![cl[k].at] = 0]
    /\ cl' = [cl EXCEPT ![k].step = "sweep", ![k].at = NoQueue,
                        ![k].cleared = @ \cup {cl[k].at}]
    /\ UNCHANGED <<redis, statusQueues, qstatus, counted, serv, load, client, budget, history>>

Unlists(k) == cl[k].del \/ cl[k].class = "working"


\* pausedCount, with the queues of the last batch.
Kept(k) == cl[k].pausedCount + Cardinality(cl[k].cleared)

\* The cleared queues are unregistered one lock at a time, if they are in this
\* map still; nothing is unregistered while the other paused queues are kept.
CleanUnlist(k) ==
    /\ cl[k].step = "unlist"
    /\ \/ /\ Unlists(k)
          /\ \E q \in cl[k].cleared :
               /\ BucketFree(q)
               /\ SetMaps([statusQueues EXCEPT ![cl[k].class] = @ \ {q}])
               /\ cl' = [cl EXCEPT ![k].cleared = @ \ {q}]
               /\ IF q \in statusQueues[cl[k].class]
                  THEN /\ abandoned' = [abandoned EXCEPT ![q] = @ + qsize[q]]
                       /\ qsize' = [qsize EXCEPT ![q] = 0]
                       /\ qstatus' = [qstatus EXCEPT ![q] = "working"]
                       /\ dropped' = IF Nested(k) THEN dropped \cup {q} ELSE dropped
                       /\ pause' = [pause EXCEPT ![q] = IF @ = "saved" THEN @ ELSE "none"]
                  ELSE UNCHANGED <<abandoned, object, dropped, pause>>
       \/ /\ ~Unlists(k) \/ cl[k].cleared = {}
          /\ cl' = [cl EXCEPT ![k].step = "check", ![k].cleared = {},
                              ![k].pausedCount = Kept(k)]
          /\ UNCHANGED <<statusQueues, object, abandoned, dropped, pause>>
    /\ UNCHANGED <<redis, counted, serv, load, client, budget, muddled>>

\* goto END leaves both loops.
CleanCheck(k) ==
    /\ cl[k].step = "check"
    /\ cl' = [cl EXCEPT ![k].step =
                IF cl[k].failed \/ cl[k].pausedCount >= Cardinality(statusQueues[cl[k].class])
                THEN "end" ELSE "loop"]
    /\ CleanerOnly

\* The deferred SetStatus(oldStatus); its error is dropped.
CleanEnd(k) ==
    /\ cl[k].step = "end"
    /\ ServFree
    /\ serv' = IF CanSet(serv, cl[k].old) THEN cl[k].old ELSE serv
    /\ cl' = [cl EXCEPT ![k] = IdleCleaner]
    /\ UNCHANGED <<redis, box, load, client, budget, history>>

Clean(k) == \/ CleanClass(k) \/ CleanLoop(k) \/ CleanIter(k) \/ CleanSweep(k) \/ CleanCount(k)
            \/ CleanZero(k) \/ CleanUnlist(k) \/ CleanCheck(k) \/ CleanEnd(k)

-----------------------------------------------------------------------------
(* Start, Load and crash. *)

\* The box of a process that has just started.
Empty ==
    /\ statusQueues' = [s \in QStatuses |-> {}]
    /\ qstatus' = [q \in Queues |-> "working"]
    /\ qsize' = [q \in Queues |-> 0]
    /\ counted' = [q \in Queues |-> 0]
    /\ serv' = "init"
    /\ scan' = {q \in Queues : rlist[q] > 0}
    /\ phase' = "lists"
    /\ pc' = [t \in Clients |-> "idle"]
    /\ target' = [t \in Clients |-> NoQueue]
    /\ cl' = [k \in Cleaners |-> IdleCleaner]
    /\ abandoned' = [q \in Queues |-> 0]
    /\ dropped' = {}
    /\ muddled' = [q \in Queues |-> 0]
    /\ pause' = [q \in Queues |-> IF pause[q] = "saved" THEN "saved" ELSE "none"]
    /\ UNCHANGED redis

\* QueueIDFromString: host:port:scheme.  The colons of an IPv6 host make it something else.
Splits(q) == Colons[q] = 2

\* A key that is not the id of a queue is passed over with a warning.
Skip(q) ==
    /\ dropped' = dropped \cup {q}
    /\ UNCHANGED <<redis, box, budget, abandoned, muddled, pause>>

\* One queue of the scan: SetStatus(Preparing) and SyncQueue(qid, true).
LoadQueue(q) ==
    /\ phase # "done" /\ q \in scan
    /\ CanSet(serv, "preparing")
    /\ serv' = "preparing"
    /\ IF Splits(q) THEN SyncOk(q) ELSE Skip(q)
    /\ scan' = scan \ {q}
    /\ UNCHANGED <<phase, client, cl>>

\* A failed Load ends the process; it is started again.
LoadFails ==
    /\ phase # "done" /\ scan # {}
    /\ Fault
    /\ Empty

LoadPaused ==
    /\ phase = "lists" /\ scan = {}
    /\ phase' = "paused"
    /\ scan' = rpaused
    /\ UNCHANGED <<redis, box, serv, client, cl, budget, history>>

\* Serv.OnStart waits for the box.
Start ==
    /\ phase = "paused" /\ scan = {}
    /\ CanSet(serv, "preparing")
    /\ phase' = "done"
    /\ serv' = "working"
    /\ UNCHANGED <<redis, box, scan, client, cl, budget, history>>

Load == (\E q \in Queues : LoadQueue(q)) \/ LoadPaused \/ Start

Crash ==
    /\ crashes < MaxCrashes
    /\ crashes' = crashes + 1
    /\ UNCHANGED faults
    /\ Empty

-----------------------------------------------------------------------------
Init ==
    /\ rlist \in [Queues -> 0..MaxLen]
    /\ rpaused \in SUBSET Queues
    /\ statusQueues = [s \in QStatuses |-> {}]
    /\ qstatus = [q \in Queues |-> "working"]
    /\ qsize = [q \in Queues |-> 0]
    /\ counted = [q \in Queues |-> 0]
    /\ serv = "init"
    /\ scan = {q \in Queues : rlist[q] > 0}
    /\ phase = "lists"
    /\ pc = [t \in Clients |-> "idle"]
    /\ target = [t \in Clients |-> NoQueue]
    /\ cl = [k \in Cleaners |-> IdleCleaner]
    /\ faults = 0
    /\ crashes = 0
    /\ abandoned = [q \in Queues |-> 0]
    /\ dropped = {}
    /\ muddled = [q \in Queues |-> 0]
    /\ pause = [q \in Queues |-> "none"]

Next ==
    \/ \E t \in Clients : Request(t)
    \/ \E q \in Operated : Operate(q)
    \/ \E new \in QStatuses : Toggle(new)
    \/ \E k \in Cleaners, del \in BOOLEAN : CleanBegin(k, del)
    \/ \E k \in Cleaners : Clean(k)
    \/ Load
    \/ LoadFails
    \/ Crash

Spec == Init /\ [][Next]_vars

\* Goroutines that hold work are scheduled until it is done, and a process that
\* is starting goes on.  Clients and operators need not call at all.
Fairness ==
    /\ \A t \in Clients : WF_vars(pc[t] # "idle" /\ Request(t))
    /\ \A k \in Cleaners : WF_vars(Clean(k))
    /\ WF_vars(Load)

FairSpec == Spec /\ Fairness

-----------------------------------------------------------------------------
(* Properties. *)

TypeOK ==
    /\ rlist \in [Queues -> Nat]
    /\ rpaused \subseteq Queues
    /\ statusQueues \in [QStatuses -> SUBSET Queues]
    /\ qstatus \in [Queues -> QStatuses]
    /\ qsize \in [Queues -> Int]
    /\ counted \in [Queues -> Int]
    /\ serv \in ServStatuses
    /\ scan \subseteq Queues
    /\ phase \in {"lists", "paused", "done"}
    /\ pc \in [Clients -> Steps]
    /\ target \in [Clients -> Queues \cup {NoQueue}]
    /\ \A t \in Clients : pc[t] # "idle" => target[t] \in Queues
    /\ cl \in [Cleaners -> [step : CleanSteps, old : ServStatuses, del : BOOLEAN,
                            todo : SUBSET QStatuses, class : QStatuses,
                            batch : SUBSET Queues, at : Queues \cup {NoQueue},
                            cleared : SUBSET Queues, failed : BOOLEAN,
                            pausedCount : Nat]]
    /\ \A k \in Cleaners : cl[k].step \in {"count", "zero"} => cl[k].at \in Queues
    /\ faults \in Nat
    /\ crashes \in Nat
    /\ abandoned \in [Queues -> Int]
    /\ dropped \subseteq Queues
    /\ muddled \in [Queues -> Nat]
    /\ pause \in [Queues -> Pauses]

\* A queue is in at most one of the two maps, the one its own status names, and
\* an object that left the maps left nothing behind: whichever of requests,
\* operators, clean-ups and Load moved it last.
Coherent ==
    /\ Working \cap Paused = {}
    /\ \A q \in Queues, s \in QStatuses : q \in statusQueues[s] => qstatus[q] = s
    /\ \A q \in Queues \ Registered : qstatus[q] = "working" /\ qsize[q] = 0

\* Stats.requestNum is the sum of the sizes of the registered queues, but for
\* what a failed DeleteQueue abandoned, a Clear that is half way, and the queues
\* that a nested clean-up has cleared since the process started: Clear subtracts
\* qsize in two steps, and two clean-ups, or requests let in once the first has
\* ended, come between them.
StatsBalance ==
    \A q \in Queues : muddled[q] = 0 =>
        counted[q] = abandoned[q]
            + (IF \E k \in Cleaners : cl[k].step = "zero" /\ cl[k].at = q THEN 0 ELSE qsize[q])

\* Once Load is done, no request sits in a list that dequeue cannot reach,
\* except in queues that a failed DeleteQueue or a nested clean-up unregistered or
\* whose id Load could not read back, until the next enqueue or sync finds them
\* again.  A clean-up that is not nested unregisters nothing that holds requests,
\* however many others are nested in it.
Resident ==
    phase = "done" =>
        \A q \in Queues : rlist[q] > 0 => q \in Registered \cup dropped

\* A pause that was answered, and Redis written, holds until a resume or a deletion
\* is attempted, through lost replies, syncs, clean-ups and crashes: the queue never
\* gets back among the working ones.  A further pause after an attempt that failed
\* is answered without a write (queue.go:36): it holds too, but not beyond the life
\* of its Queue object, which a crash ends, or a clean-up that deletes it.
PauseHolds ==
    \A q \in Queues :
        /\ pause[q] = "saved" => q \in rpaused
        /\ pause[q] \in {"saved", "unsaved"} /\ phase = "done" => q \notin Working

\* While a clean-up that is not nested runs, the status says Cleaning, no request
\* is in progress, and every other clean-up is nested in it.  A nested one may run
\* on after the first has ended and put the old status back, without this
\* protection: nothing in ClearOrDeleteQueues makes the two wait for each other.
CleaningExcludes ==
    \A k \in Cleaners :
        Busy(k) /\ ~Nested(k) =>
            /\ serv = "cleaning"
            /\ \A t \in Clients : pc[t] = "idle"
            /\ \A j \in Cleaners \ {k} : Busy(j) => Nested(j)

\* The service is in Cleaning only while somebody cleans.
CleaningHasOwner == serv = "cleaning" => \E k \in Cleaners : cl[k].step # "idle"

\* No request is stored in, or taken from, a queue whose pause was answered, with
\* or without a write, until a resume or a deletion is attempted or, without a
\* write, the Queue object is gone.
PausedUntouched ==
    [][\A q \in Queues :
          /\ {pause[q], pause'[q]} \subseteq {"saved", "unsaved"}
          /\ \E t \in Clients : pc[t] # pc'[t] /\ target[t] = q
          => rlist'[q] = rlist[q]]_vars

\* A DELETE of all queues that met no error passed over no map that holds queues.
DeleteAllDeletes ==
    [][\A k \in Cleaners :
          CleanEnd(k) /\ cl[k].del /\ ~cl[k].failed
            => \A s \in cl[k].todo : statusQueues[s] = {}]_vars

\* Requests get on: unless there are none any more, one is answered again and
\* again.  A single one need not be: while others fill and drain its queue, the
\* retry of enqueueRequest can find the queue unregistered under the read lock and
\* registered under the write lock for ever; once no more requests begin, each of
\* those in progress ends.
RequestsEnd ==
    \/ <>[](\A t \in Clients : pc[t] = "idle")
    \/ []<><<\E t \in Clients : pc[t] # "idle" /\ pc'[t] = "idle">>_vars


=============================================================================
