------------------------------- MODULE MCQueue -------------------------------
(* Model values and symmetry for checking Queue with TLC. *)
EXTENDS Queue, TLC

CONSTANTS p1, p2, p3, c1, c2, c3

MCProducers == {p1, p2, p3}
MCConsumers == {c1, c2, c3}
MCOneProducer == {p1}
MCOneConsumer == {c1}

Symmetry == Permutations(MCProducers) \cup Permutations(MCConsumers)

=============================================================================
