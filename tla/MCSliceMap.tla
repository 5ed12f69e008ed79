----------------------------- MODULE MCSliceMap -----------------------------
(* Model values for checking SliceMap and TopN with TLC. *)
EXTENDS TopN

CONSTANTS i1, i2, i3, i4, i5, c1, c2

MCIds == {i1, i2, i3, i4, i5}
MCCopies == {c1, c2}

\* Sizes that differ, that are often the same, and that are in reverse order.
Rank == <<[id |-> i1, copy |-> c1], [id |-> i2, copy |-> c1], [id |-> i3, copy |-> c1],
          [id |-> i4, copy |-> c1], [id |-> i5, copy |-> c1], [id |-> i1, copy |-> c2],
          [id |-> i2, copy |-> c2], [id |-> i3, copy |-> c2], [id |-> i4, copy |-> c2],
          [id |-> i5, copy |-> c2]>>
RankOf(item) == CHOOSE n \in DOMAIN Rank : Rank[n] = item
MCQueueSizes ==
    {[item \in Items |-> RankOf(item) % 7], [item \in Items |-> 9 - (RankOf(item) % 7)]}

=============================================================================
