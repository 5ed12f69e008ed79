------------------------------ MODULE BoxLocks ------------------------------
(***************************************************************************)
(* The locks of a pod and the order in which the operations of QueueBox    *)
(* take them: the service's RWMutex, the RWMutex of each queue's bucket    *)
(* (utils.BulkLock) and that of each of the two maps (slicemap.Map).       *)
(*                                                                         *)
(* An operation is a sequence of lock steps.  What it finds decides which  *)
(* of several sequences it takes; here it may take any, and the choice is  *)
(* made step by step.  Of the data only the service's status Cleaning and  *)
(* the status each clean-up found are kept: they are what separates        *)
(* requests from a clean-up, and what fails to separate two clean-ups.     *)
(***************************************************************************)
EXTENDS Naturals, Sequences, FiniteSets

CONSTANTS
    Queues,     \* queue ids; each has a bucket of its own
    Clients,    \* goroutines that enqueue and dequeue
    Operators,  \* goroutines that serve calls on one queue, views and Toggle
    Cleaners,   \* goroutines in ClearOrDeleteQueues
    Nobody      \* not a goroutine

ASSUME LocksAssumption ==
    /\ Queues \cap {"serv", "working", "paused"} = {}
    /\ Nobody \notin Clients \cup Operators \cup Cleaners
    /\ Clients \cap Operators = {} /\ Clients \cap Cleaners = {} /\ Operators \cap Cleaners = {}

VARIABLES
    todo,      \* the sequences of lock steps each goroutine may still take
    readers,   \* who holds each lock for reading
    writer,    \* who holds each lock for writing, or will when readers are gone
    cleaning,  \* Serv.status is Cleaning
    nested     \* cleaners that found Cleaning as the old status when they began

vars == <<todo, readers, writer, cleaning, nested>>

Procs == Clients \cup Operators \cup Cleaners
Maps == {"working", "paused"}
Locks == {"serv"} \cup Queues \cup Maps

-----------------------------------------------------------------------------
(* Programs. *)

Reading(l, body) == <<<<"RLock", l>>>> \o body \o <<<<"RUnlock", l>>>>
Writing(l, body) == <<<<"Lock", l>>, <<"Drain", l>>>> \o body \o <<<<"Unlock", l>>>>

Look(m) == Reading(m, <<>>)     \* Get, Size, an iteration without calls
Change(m) == Writing(m, <<>>)   \* Add, Delete
Nothing == <<>>

\* One map after another until the queue is found.
Looks == {Look("working"), Look("paused"),
          Look("working") \o Look("paused"), Look("paused") \o Look("working")}

\* What an operation under a bucket's write lock does to the maps.
Changes == {Nothing} \cup {Change(m) : m \in Maps} \cup {Change(m) \o Change(n) : m, n \in Maps}

\* The View of a request: found in working, or looked for in both.
Views(q) == {Reading(q, Reading("working", Nothing)),
             Reading(q, Reading("working", Reading("paused", Nothing)))}

\* Slip: the map is locked before the bucket.
ExclusiveMapFirst(q) ==
    {Writing(m, Writing(q, Nothing)) : m \in Maps} \cup {Writing(q, l) : l \in Looks}

\* SetStatus, SyncQueue, ClearQueue, DeleteQueue and the second half of requests.
Exclusive(q) == {Writing(q, l \o c) : l \in Looks, c \in Changes}

\* A request, its second half included, and Queues.  The retry of enqueueRequest
\* takes the same locks again under the same service lock.
RequestPrograms(q) ==
    {Reading("serv", Look("working"))} \cup {Reading("serv", v) : v \in Views(q)}
      \cup {Reading("serv", v \o x) : v \in Views(q), x \in Exclusive(q)}

\* Calls on one queue, QueueInfo and ViewQueue, views of a map, Toggle.
OperatorPrograms(q) ==
    Exclusive(q) \cup {Reading(q, l) : l \in Looks} \cup {Look(m) : m \in Maps}
      \cup {Writing("serv", Nothing)}

\* ClearOrDeleteQueues with a batch of one queue: Clear inside Iter, then the
\* deletion from the map.
CleanPrograms(q) ==
    {Writing("serv", <<<<"Set", "serv">>>>)
       \o Look(m) \o Reading(m, Reading(q, Nothing)) \o Writing(q, Change(m)) \o Look(m)
       \o Writing("serv", <<<<"Restore", "serv">>>>) : m \in Maps}

-----------------------------------------------------------------------------
(* Go's RWMutex: a writer excludes other writers as soon as it comes, and   *)
(* new readers too; then it waits for the readers there are.                *)

Idle(p) == <<>> \in todo[p]

\* The sequences of p that go on with a step, and p taking it.
Starting(p, kind, l) == {s \in todo[p] : s # <<>> /\ Head(s) = <<kind, l>>}
Step(p, kind, l) == Starting(p, kind, l) # {}
Advance(p, kind, l) == todo' = [todo EXCEPT ![p] = {Tail(s) : s \in Starting(p, kind, l)}]

Call(p) ==
    /\ Idle(p)
    /\ \E q \in Queues :
         todo' = [todo EXCEPT ![p] = CASE p \in Clients   -> RequestPrograms(q)
                                       [] p \in Operators -> OperatorPrograms(q)
                                       [] p \in Cleaners  -> CleanPrograms(q)]
    /\ UNCHANGED <<readers, writer, cleaning, nested>>

\* A request that finds the service cleaning goes no further.
TurnedAway(p, l) == l = "serv" /\ p \in Clients /\ cleaning

RLock(p, l) ==
    /\ Step(p, "RLock", l)
    /\ writer[l] = Nobody
    /\ readers' = [readers EXCEPT ![l] = @ \cup {p}]
    /\ IF TurnedAway(p, l) THEN todo' = [todo EXCEPT ![p] = {<<<<"RUnlock", l>>>>}]
                           ELSE Advance(p, "RLock", l)
    /\ UNCHANGED <<writer, cleaning, nested>>

RUnlock(p, l) ==
    /\ Step(p, "RUnlock", l)
    /\ readers' = [readers EXCEPT ![l] = @ \ {p}]
    /\ Advance(p, "RUnlock", l)
    /\ UNCHANGED <<writer, cleaning, nested>>

Lock(p, l) ==
    /\ Step(p, "Lock", l)
    /\ writer[l] = Nobody
    /\ writer' = [writer EXCEPT ![l] = p]
    /\ Advance(p, "Lock", l)
    /\ UNCHANGED <<readers, cleaning, nested>>

Drain(p, l) ==
    /\ Step(p, "Drain", l)
    /\ readers[l] = {}
    /\ Advance(p, "Drain", l)
    /\ UNCHANGED <<readers, writer, cleaning, nested>>

Unlock(p, l) ==
    /\ Step(p, "Unlock", l)
    /\ writer' = [writer EXCEPT ![l] = Nobody]
    /\ Advance(p, "Unlock", l)
    /\ UNCHANGED <<readers, cleaning, nested>>

\* Serv.setStatus to Cleaning and back to the old status, under the service's write
\* lock.  Cleaning may be set again while it is set, and is then the old status.
SetCleaning(p) ==
    /\ \/ /\ Step(p, "Set", "serv")
          /\ Advance(p, "Set", "serv")
          /\ cleaning' = TRUE
          /\ nested' = IF cleaning THEN nested \cup {p} ELSE nested
       \/ /\ Step(p, "Restore", "serv")
          /\ Advance(p, "Restore", "serv")
          /\ cleaning' = (p \in nested)
          /\ nested' = nested \ {p}
    /\ UNCHANGED <<readers, writer>>

-----------------------------------------------------------------------------
Init ==
    /\ todo = [p \in Procs |-> {<<>>}]
    /\ readers = [l \in Locks |-> {}]
    /\ writer = [l \in Locks |-> Nobody]
    /\ cleaning = FALSE
    /\ nested = {}

Next ==
    \E p \in Procs :
        \/ Call(p)
        \/ SetCleaning(p)
        \/ \E l \in Locks : \/ RLock(p, l) \/ RUnlock(p, l)
                            \/ Lock(p, l) \/ Drain(p, l) \/ Unlock(p, l)

Spec == Init /\ [][Next]_vars

-----------------------------------------------------------------------------
(* Properties. *)

\* Those that p may be waiting for.
WaitsFor(p) ==
    {r \in Procs : \E l \in Locks :
        \/ (Step(p, "RLock", l) \/ Step(p, "Lock", l)) /\ writer[l] = r
        \/ Step(p, "Drain", l) /\ r \in readers[l]}

\* The sets of goroutines of which each may be waiting for another of the set.
Tangles ==
    LET waits == [p \in Procs |-> WaitsFor(p)]
        waiting == {p \in Procs : waits[p] # {}}
    IN {D \in (SUBSET waiting) \ {{}} : \A p \in D : waits[p] \cap D # {}}

\* No goroutines ever wait for each other in a circle, so that every call on the
\* box returns and a clean-up gets to give the status back.
Untangled == Tangles = {}

\* Requests and operators order their locks (service, bucket, map, working before
\* paused), and the status keeps requests away from a clean-up until it gives the
\* status back.  So a circle needs a clean-up and, besides, an operator or a
\* clean-up nested in another: two clean-ups can wait for each other, and so can a
\* request and a nested clean-up that outlasted the one it was nested in.
TangledOnlyByCleaning ==
    \A D \in Tangles :
        /\ D \cap Cleaners # {}
        /\ D \cap Operators # {} \/ D \cap nested # {}

=============================================================================
