---------------------------- MODULE ReservedQueue ----------------------------
(***************************************************************************)
(* What a queue promises the consumers it admits, whatever the counters    *)
(* that implement it do (Queue.Dequeue, pod/queuebox/queue.go).  Admission *)
(* reserves one stored request.  Every reservation is backed by a stored   *)
(* request, except for as many as Redis removed without the pod learning   *)
(* of it (debt), so without debt a reservation is delivered, and nobody is *)
(* ever admitted on credit beyond the debt.                                *)
(***************************************************************************)
EXTENDS Naturals

VARIABLES stored,   \* requests in the list
          reserved, \* consumers admitted that have not removed their request
          debt      \* removals the pod has not learnt of

vars == <<stored, reserved, debt>>

Init == stored \in Nat /\ reserved = 0 /\ debt = 0

\* A request is stored.
Put == stored' = stored + 1 /\ UNCHANGED <<reserved, debt>>

\* A consumer is admitted only to a request nobody else was admitted to.
Reserve ==
    /\ reserved < stored + debt
    /\ reserved' = reserved + 1
    /\ UNCHANGED <<stored, debt>>

\* An admitted consumer gets its request.
Deliver ==
    /\ reserved > 0 /\ stored > 0
    /\ stored' = stored - 1
    /\ reserved' = reserved - 1
    /\ UNCHANGED debt

\* The request leaves the list and the answer is lost.
Lose ==
    /\ reserved > 0 /\ stored > 0
    /\ stored' = stored - 1
    /\ reserved' = reserved - 1
    /\ debt' = debt + 1

\* The removal fails and the request stays.
Cancel ==
    /\ reserved > 0
    /\ reserved' = reserved - 1
    /\ UNCHANGED <<stored, debt>>

\* An admitted consumer may find the list empty, but only on account of debt.
Miss ==
    /\ reserved > 0 /\ stored = 0 /\ debt > 0
    /\ reserved' = reserved - 1
    /\ UNCHANGED <<stored, debt>>

\* The books are made to agree with the list while nobody is admitted.
Settle == reserved = 0 /\ debt' = 0 /\ UNCHANGED <<stored, reserved>>

\* The list is deleted; if the answer is lost, what it held becomes debt.
Wipe ==
    /\ reserved = 0
    /\ stored' = 0
    /\ debt' \in {0, debt + stored}
    /\ UNCHANGED reserved

Next == \/ Put \/ Reserve \/ Deliver \/ Lose \/ Cancel \/ Miss \/ Settle \/ Wipe

Spec == Init /\ [][Next]_vars

=============================================================================
