-------------------------------- MODULE TopN --------------------------------
(***************************************************************************)
(* topNQueues: the k longest queues of one status, longest first.  A heap  *)
(* with the shortest queue on top takes every queue of the map and drops   *)
(* its top when it holds more than k; then it is emptied into the answer   *)
(* from the end.  Clients change the sizes while the heap compares them.   *)
(*                                                                         *)
(* A heap is a sequence: position 1 is the top, and the parent of position *)
(* j is j \div 2.  The heap belongs to one call, so its lock is left out.  *)
(***************************************************************************)
EXTENDS SliceMap, Sequences

CONSTANT QueueSizes \* bound: what QueueSize may return for each queue

ASSUME TopNAssumption == QueueSizes \subseteq [Items -> Nat]

\* less: the shorter queue is above.
Less(a, b, size) == size[a] < size[b]

Swap(h, i, j) == [h EXCEPT ![i] = h[j], ![j] = h[i]]

\* container/heap's up: the last element rises while it is less than its parent.
Up(h, size) ==
    LET rise[n \in 0..Len(h)] ==
          IF n = 0 THEN [heap |-> h, at |-> Len(h)]
          ELSE LET s == rise[n - 1]
                   parent == s.at \div 2
               IN IF s.at > 1 /\ Less(s.heap[s.at], s.heap[parent], size)
                    THEN [heap |-> Swap(s.heap, s.at, parent), at |-> parent]
                    ELSE s
    IN rise[Len(h)].heap

\* Slip: the left child is taken for the lesser one.
LeftChild(h, i, size) == 2 * i

LesserChild(h, i, size) ==
    IF 2 * i < Len(h) /\ Less(h[2 * i + 1], h[2 * i], size) THEN 2 * i + 1 ELSE 2 * i

\* container/heap's down: the top sinks while a child is less than it.
Down(h, size) ==
    LET sink[n \in 0..Len(h)] ==
          IF n = 0 THEN [heap |-> h, at |-> 1]
          ELSE LET s == sink[n - 1]
                   child == LesserChild(s.heap, s.at, size)
               IN IF 2 * s.at <= Len(h) /\ Less(s.heap[child], s.heap[s.at], size)
                    THEN [heap |-> Swap(s.heap, s.at, child), at |-> child]
                    ELSE s
    IN sink[Len(h)].heap

Top(h) == h[1]
Push(h, x, size) == Up(Append(h, x), size)

\* Pop: the last element takes the place of the top and sinks.
Popped(h, size) == Down(SubSeq(Swap(h, 1, Len(h)), 1, Len(h) - 1), size)

\* The queue is pushed, and the top is dropped when there are more than k.
Taken(h, x, k, size) ==
    LET pushed == Push(h, x, size)
    IN IF Len(pushed) > k THEN Popped(pushed, size) ELSE pushed

\* The queues of the answer.  The sizes are before[...] until n queues of the
\* iteration were pushed and after[...] from then on.
TopNQueues(k, before, after, n) ==
    LET built[i \in 0..maxIdx] ==
          IF i = 0 THEN <<>>
          ELSE Taken(built[i - 1], items[i - 1], k, IF i <= n THEN before ELSE after)
        full == built[maxIdx]
        left[i \in 0..Len(full)] == IF i = 0 THEN full ELSE Popped(left[i - 1], after)
    IN [i \in DOMAIN full |-> Top(left[Len(full) - i])]

-----------------------------------------------------------------------------
(* Properties. *)

Least(a, b) == IF a < b THEN a ELSE b
Listed(top) == {top[i] : i \in DOMAIN top}

\* Whatever happens to the sizes while the view is built, it names as many queues
\* as asked for, or all there are, and none twice.
ListsEnough(k, top) ==
    /\ Len(top) = Least(k, maxIdx)
    /\ Listed(top) \subseteq {items[i] : i \in 0..(maxIdx - 1)}
    /\ Cardinality(Listed(top)) = Len(top)

\* If the sizes stay as they are, the queues come in order and none that is left
\* out is longer than one that is listed.
ListsLongest(top, size) ==
    /\ \A i \in 2..Len(top) : size[top[i]] <= size[top[i - 1]]
    /\ \A i \in 0..(maxIdx - 1) :
         items[i] \in Listed(top) \/ \A x \in Listed(top) : size[items[i]] <= size[x]

\* The view of the longest queues, for every order the map may have them in, with
\* sizes that change once or not at all while it is built.
TopNRight ==
    \A k \in 1..(maxIdx + 1), before \in QueueSizes :
        /\ ListsLongest(TopNQueues(k, before, before, maxIdx), before)
        /\ \A after \in QueueSizes, n \in 0..maxIdx :
             ListsEnough(k, TopNQueues(k, before, after, n))

=============================================================================
