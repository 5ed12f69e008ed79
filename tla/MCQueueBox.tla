----------------------------- MODULE MCQueueBox -----------------------------
(* Model values and symmetry for checking QueueBox with TLC. *)
EXTENDS QueueBox, TLC

CONSTANTS q1, q2, t1, t2, k1, k2

MCQueues == {q1, q2}
MCOneQueue == {q1}
MCNone == {}
MCColons == [q \in Queues |-> IF q = q2 THEN 4 ELSE 2]
MCClients == {t1, t2}
MCOneClient == {t1}
MCOneCleaner == {k1}
MCTwoCleaners == {k1, k2}

CleanerSymmetry == Permutations(MCTwoCleaners)

=============================================================================
