------------------------------ MODULE SliceMap ------------------------------
(***************************************************************************)
(* slicemap.Map, the map of queues of one status: a slice of items without *)
(* holes, for iterating, and the index of each id in it.  Every operation  *)
(* runs under the map's lock and is one step.  Calls that find nothing to  *)
(* do (an id that is there already, or is not there) return false and      *)
(* change nothing.                                                         *)
(***************************************************************************)
EXTENDS Integers, FiniteSets

CONSTANTS
    Ids,        \* ids of items
    Copies,     \* objects that may be made for one id
    Nil,        \* Go's nil
    MinShrink,  \* minShrinkSize, 1024 in the code
    Slack       \* the slice shrinks when more than maxIdx / Slack slots are free, 10 in the code

ASSUME SliceMapAssumption ==
    /\ MinShrink \in Nat
    /\ Slack \in Nat \ {0}
    /\ Nil \notin [id : Ids, copy : Copies]

VARIABLES
    items,   \* the slice: a function on 0 .. length-1
    length,  \* len(items)
    idxMap,  \* the index of each id there is
    maxIdx   \* how many items there are

vars == <<items, length, idxMap, maxIdx>>

Items == [id : Ids, copy : Copies]
ItemID(item) == item.id

Init ==
    /\ items = [i \in {} |-> Nil]
    /\ length = 0
    /\ idxMap = [id \in {} |-> 0]
    /\ maxIdx = 0

\* Slip: always append.
StoredBehind(item) ==
    [i \in DOMAIN items \cup {length} |-> IF i = length THEN item ELSE items[i]]

\* The slot behind the last item is reused or appended.
Stored(item) ==
    [i \in DOMAIN items \cup {maxIdx} |-> IF i = maxIdx THEN item ELSE items[i]]

\* Slip: nobody looks whether the id is there.
AddAgain(item) ==
    /\ idxMap' = [id \in DOMAIN idxMap \cup {ItemID(item)} |->
                    IF id = ItemID(item) THEN maxIdx ELSE idxMap[id]]
    /\ items' = Stored(item)
    /\ length' = IF maxIdx < length THEN length ELSE length + 1
    /\ maxIdx' = maxIdx + 1

\* Add, and GetOrAdd when its function returns an item.
Add(item) ==
    /\ ItemID(item) \notin DOMAIN idxMap
    /\ idxMap' = [id \in DOMAIN idxMap \cup {ItemID(item)} |->
                    IF id = ItemID(item) THEN maxIdx ELSE idxMap[id]]
    /\ items' = Stored(item)
    /\ length' = IF maxIdx < length THEN length ELSE length + 1
    /\ maxIdx' = maxIdx + 1

Cut(slots, n) == [i \in 0..(n - 1) |-> slots[i]]

\* Slip: the ratio is one of integers.
ShrinksByHalf(n) == n > MinShrink /\ length - n > 0 /\ (length - n) \div n > 0

\* Does delete shrink the slice when n items are left?
Shrinks(n) == n > MinShrink /\ length - n > 0 /\ Slack * (length - n) > n

\* Slip: the last item is moved and its old slot keeps it.
FilledTwice(idx, last) == [items EXCEPT ![idx] = IF idx = last THEN Nil ELSE items[last]]

\* The last item fills the hole and its own slot is cleared.
Filled(idx, last) == [items EXCEPT ![idx] = items[last], ![last] = Nil]

\* The index without id: the last item is now where id was.
Reindexed(id, last) ==
    [other \in DOMAIN idxMap \ {id} |->
        IF other = ItemID(items[last]) THEN idxMap[id] ELSE idxMap[other]]

\* Delete, and GetAndDelete when its function agrees.
Delete(id) ==
    LET last == maxIdx - 1
        rest == Filled(idxMap[id], last)
    IN /\ id \in DOMAIN idxMap
       /\ idxMap' = Reindexed(id, last)
       /\ maxIdx' = last
       /\ IF Shrinks(last) THEN items' = Cut(rest, last) /\ length' = last
                           ELSE items' = rest /\ length' = length

Shrink ==
    /\ maxIdx < length
    /\ items' = Cut(items, maxIdx)
    /\ length' = maxIdx
    /\ UNCHANGED <<idxMap, maxIdx>>

Next ==
    \/ \E item \in Items : Add(item)
    \/ \E id \in Ids : Delete(id)
    \/ Shrink

Spec == Init /\ [][Next]_vars

-----------------------------------------------------------------------------
(* Iterators: the indices an iteration visits, in order, when nothing stops *)
(* it.  All of them run under the map's read lock.                          *)

BaseIter == [i \in 1..maxIdx |-> i - 1]
ReverseIter == [i \in 1..maxIdx |-> maxIdx - i]

\* Slip: the end is not cut at the last item but at the slice.
SubIterOfSlice(start, n) ==
    LET end == IF start + n > length THEN length ELSE start + n
    IN [i \in 1..(end - start) |-> start + i - 1]

SubIter(start, n) ==
    LET end == IF start + n > maxIdx THEN maxIdx ELSE start + n
    IN IF start > maxIdx THEN <<>> ELSE [i \in 1..(end - start) |-> start + i - 1]

\* Go's remainder has the sign of the dividend.
Rem(a, b) == IF a >= 0 THEN a % b ELSE -((-a) % b)

\* Where a cyclic iteration that stands at cur begins.
Entry(cur) == LET r == Rem(cur, maxIdx) IN IF r < 0 THEN 0 - r ELSE r

Wrapped(cur) == IF cur + 1 >= maxIdx THEN 0 ELSE cur + 1

CycleStepIter(cur, steps) ==
    LET visit[i \in 1..steps] == IF i = 1 THEN Entry(cur) ELSE Wrapped(visit[i - 1])
    IN IF maxIdx <= 0 THEN <<>> ELSE visit

CycleIter(cur) == CycleStepIter(cur, maxIdx)

-----------------------------------------------------------------------------
(* Properties. *)

TypeOK ==
    /\ length \in Nat
    /\ maxIdx \in 0..length
    /\ items \in [0..(length - 1) -> Items \cup {Nil}]
    /\ idxMap \in [DOMAIN idxMap -> 0..(maxIdx - 1)]
    /\ DOMAIN idxMap \subseteq Ids

\* The index and the slice agree: every id is found where the index says, and
\* every slot below maxIdx holds the item of an id that is there.
Dense ==
    /\ \A id \in DOMAIN idxMap :
         items[idxMap[id]] \in Items /\ ItemID(items[idxMap[id]]) = id
    /\ \A i \in 0..(maxIdx - 1) :
         /\ items[i] \in Items
         /\ ItemID(items[i]) \in DOMAIN idxMap
         /\ idxMap[ItemID(items[i])] = i

\* The slots behind the last item keep nothing alive.
TailCleared == \A i \in maxIdx..(length - 1) : items[i] = Nil

Layout == Dense /\ TailCleared

\* The slice stays within 1/Slack of the items, or of MinShrink, whatever was
\* added and deleted ("Shrink to prevent slice increasing with no limit").
SlackBounded ==
    \/ Slack * length <= (Slack + 1) * maxIdx
    \/ Slack * length <= (Slack + 1) * (MinShrink + 1)

\* Iterations of the whole map visit every item once, and so do the pages of a
\* listing put together.
VisitsEachOnce(order) ==
    /\ DOMAIN order = 1..maxIdx
    /\ {order[i] : i \in DOMAIN order} = 0..(maxIdx - 1)

IteratorsComplete ==
    /\ VisitsEachOnce(BaseIter)
    /\ VisitsEachOnce(ReverseIter)
    /\ \A cur \in (-2 * maxIdx)..(2 * maxIdx) : VisitsEachOnce(CycleIter(cur))
    /\ \A n \in 1..(maxIdx + 1) :
         LET visits == {v \in (0..maxIdx) \X (1..n) : v[2] \in DOMAIN SubIter(v[1] * n, n)}
         IN /\ {SubIter(v[1] * n, n)[v[2]] : v \in visits} = 0..(maxIdx - 1)
            /\ Cardinality(visits) = maxIdx

\* The map of ids to items that the slice and the index represent.
Contents == [id \in DOMAIN idxMap |-> items[idxMap[id]]]

Map == INSTANCE ItemMap WITH stored <- Contents

\* A slice with an index is a map: nothing is lost, moved to another id or
\* replaced by a deletion, an addition or a shrink of other items.
ImplementsMap == Map!Spec

=============================================================================
