----------------------------- MODULE MCBoxLocks -----------------------------
(* Model values and symmetry for checking BoxLocks with TLC. *)
EXTENDS BoxLocks, TLC

CONSTANTS q1, q2, t1, t2, o1, o2, k1, k2

MCQueues == {q1, q2}
MCOneQueue == {q1}
MCClients == {t1, t2}
MCOneClient == {t1}
MCOperators == {o1, o2}
MCOneOperator == {o1}
MCCleaners == {k1, k2}
MCOneCleaner == {k1}
MCNone == {}

Symmetry == Permutations(MCQueues) \cup Permutations(MCClients) \cup Permutations(MCOperators)
                \cup Permutations(MCCleaners)

=============================================================================
