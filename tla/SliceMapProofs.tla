--------------------------- MODULE SliceMapProofs ---------------------------
(***************************************************************************)
(* Proofs about SliceMap: the slice and the index agree, the slice stays   *)
(* bounded, and together they implement a map, for any ids, any sizes at   *)
(* which the slice may shrink, and any sequence of calls.                  *)
(***************************************************************************)
EXTENDS SliceMap, FiniteSetTheorems, TLAPS

\* What the operations preserve together.
Inv == TypeOK /\ Dense /\ TailCleared /\ SlackBounded

\* The products that the bound on the slice compares.
LEMMA Products ==
    ASSUME NEW s \in Nat, NEW n \in Nat
    PROVE  /\ s * n \in Nat
           /\ s * n <= (s + 1) * n
           /\ (s + 1) * n <= (s + 1) * (n + 1)
           /\ (s + 1) * n = s * n + n
  <1>1. (s + 1) * n = s * n + n
      OBVIOUS
  <1>2. (s + 1) * (n + 1) = (s + 1) * n + (s + 1)
      OBVIOUS
  <1>3. s * n \in Nat
      OBVIOUS
  <1> QED
      BY <1>1, <1>2, <1>3

\* Multiplication is monotone.
LEMMA Monotone ==
    ASSUME NEW s \in Nat, NEW m \in Nat, NEW n \in Nat, m <= n
    PROVE  s * m <= s * n
  <1>1. PICK d \in Nat : n = m + d
      <2>1. n - m \in Nat /\ n = m + (n - m)
          OBVIOUS
      <2> QED
          BY <2>1
  <1>2. s * (m + d) = s * m + s * d
      OBVIOUS
  <1>3. s * d \in Nat /\ s * m \in Nat
      BY Products
  <1> QED
      BY <1>1, <1>2, <1>3

\* The invariant holds of the map that New returns.
LEMMA InvInit == Init => Inv
  <1> SUFFICES ASSUME Init PROVE Inv
      OBVIOUS
  <1> USE SliceMapAssumption DEF Init
  <1>1. TypeOK
      BY DEF TypeOK
  <1>2. Dense
      BY DEF Dense
  <1>3. TailCleared
      BY DEF TailCleared
  <1>4. SlackBounded
      BY DEF SlackBounded
  <1> QED
      BY <1>1, <1>2, <1>3, <1>4 DEF Inv

\* Add keeps the invariant, whether it appends or reuses a slot.
LEMMA AddKeepsInv ==
    ASSUME Inv, NEW item \in Items, Add(item)
    PROVE  Inv'
  <1> USE SliceMapAssumption DEF Inv
  <1>1. /\ length' \in Nat /\ maxIdx' = maxIdx + 1 /\ maxIdx' <= length'
        /\ DOMAIN items' = 0..(length' - 1)
      BY DEF Add, Stored, TypeOK
  <1>2. \A i \in 0..(length' - 1) : items'[i] = IF i = maxIdx THEN item ELSE items[i]
      BY <1>1 DEF Add, Stored, TypeOK
  <1>3. ItemID(item) \in Ids
      BY DEF Items, ItemID
  <1>4. TypeOK'
      BY <1>1, <1>2, <1>3 DEF TypeOK, Add, Stored
  <1>5. Dense'
      BY <1>1, <1>2, <1>3 DEF Dense, TypeOK, Add
  <1>6. TailCleared'
      BY <1>1, <1>2 DEF TailCleared, TypeOK, Add
  <1>7. SlackBounded'
    <2> USE DEF SlackBounded, TypeOK, Add
    <2>1. CASE maxIdx < length
      <3>1. length' = length /\ maxIdx' = maxIdx + 1
          BY <2>1
      <3>2. (Slack + 1) * maxIdx <= (Slack + 1) * (maxIdx + 1)
          BY Products
      <3>3. Slack * length \in Int /\ (Slack + 1) * maxIdx \in Int
            /\ (Slack + 1) * (maxIdx + 1) \in Int
          OBVIOUS
      <3> QED
          BY ONLY <3>1, <3>2, <3>3, SlackBounded DEF SlackBounded
    <2>2. CASE maxIdx = length
      <3>1. length' = maxIdx + 1 /\ maxIdx' = maxIdx + 1
          BY <2>2
      <3>2. Slack * (maxIdx + 1) <= (Slack + 1) * (maxIdx + 1)
          BY Products
      <3> QED
          BY ONLY <3>1, <3>2 DEF SlackBounded
    <2> QED
        BY <2>1, <2>2
  <1> QED
      BY <1>4, <1>5, <1>6, <1>7

\* What is left in the slice after a deletion, before it may shrink.
LEMMA FilledSlots ==
    ASSUME Inv, NEW id \in DOMAIN idxMap
    PROVE  LET idx  == idxMap[id]
               last == maxIdx - 1
           IN /\ idx \in 0..last
              /\ last \in 0..(length - 1)
              /\ Filled(idx, last) \in [0..(length - 1) -> Items \cup {Nil}]
              /\ Filled(idx, last)[last] = Nil
              /\ \A i \in 0..(length - 1) : i # last =>
                   Filled(idx, last)[i] = IF i = idx THEN items[last] ELSE items[i]
  BY SliceMapAssumption DEF Inv, TypeOK, Dense, Filled

\* Delete keeps the invariant, and every other id its item: the index that moved
\* with the last item is the only one that changes.
LEMMA DeleteKeepsInv ==
    ASSUME Inv, NEW id \in Ids, Delete(id)
    PROVE  /\ Inv'
           /\ \A other \in DOMAIN idxMap' : items'[idxMap'[other]] = items[idxMap[other]]
  <1> DEFINE idx  == idxMap[id]
             last == maxIdx - 1
             rest == Filled(idx, last)
  <1> USE SliceMapAssumption
  <1>1. id \in DOMAIN idxMap
      BY DEF Delete
  <1>2. /\ length \in Nat /\ maxIdx \in Nat /\ last \in Nat
        /\ idx \in 0..last
        /\ last \in 0..(length - 1)
        /\ rest \in [0..(length - 1) -> Items \cup {Nil}]
        /\ rest[last] = Nil
        /\ \A i \in 0..(length - 1) : i # last => rest[i] = IF i = idx THEN items[last] ELSE items[i]
    <2>1. length \in Nat /\ maxIdx \in Nat /\ idx \in 0..last
        BY <1>1 DEF Inv, TypeOK
    <2> QED
        BY <2>1, <1>1, FilledSlots
  <1>3. maxIdx' = last /\ idxMap' = Reindexed(id, last)
      BY DEF Delete
  <1>4. PICK len \in Nat : length' = len
      BY <1>2 DEF Delete, Inv, TypeOK
  <1>5. last <= len /\ len <= length
      BY <1>2, <1>4 DEF Delete
  <1>6. /\ items' \in [0..(len - 1) -> Items \cup {Nil}]
        /\ \A i \in 0..(len - 1) : items'[i] = rest[i]
    <2>1. CASE Shrinks(last)
      <3>1. len = last /\ items' = Cut(rest, last)
          BY <2>1, <1>4 DEF Delete
      <3> QED
          BY <3>1, <1>2 DEF Cut
    <2>2. CASE ~Shrinks(last)
      <3>1. len = length /\ items' = rest
          BY <2>2, <1>4 DEF Delete
      <3> QED
          BY <3>1, <1>2
    <2> QED
        BY <2>1, <2>2
  <1>7. /\ DOMAIN idxMap' = DOMAIN idxMap \ {id}
        /\ \A other \in DOMAIN idxMap' :
             idxMap'[other] = IF other = ItemID(items[last]) THEN idx ELSE idxMap[other]
      BY <1>3 DEF Reindexed
  <1>8. /\ items[last] \in Items
        /\ ItemID(items[last]) \in DOMAIN idxMap
        /\ idxMap[ItemID(items[last])] = last
      BY <1>2 DEF Inv, TypeOK, Dense
  <1>9. \A other \in DOMAIN idxMap' : idxMap'[other] \in 0..(last - 1)
    <2> SUFFICES ASSUME NEW other \in DOMAIN idxMap' PROVE idxMap'[other] \in 0..(last - 1)
        OBVIOUS
    <2>1. idxMap[other] # idx
        BY <1>1, <1>7 DEF Inv, Dense
    <2>2. CASE other = ItemID(items[last])
        BY <2>1, <2>2, <1>2, <1>7, <1>8
    <2>3. CASE other # ItemID(items[last])
      <3>1. idxMap[other] # last
          BY <2>3, <1>7 DEF Inv, Dense
      <3> QED
          BY <2>3, <3>1, <1>7, <1>2 DEF Inv, TypeOK
    <2> QED
        BY <2>2, <2>3
  <1>10. \A other \in DOMAIN idxMap' : items'[idxMap'[other]] = items[idxMap[other]]
    <2> SUFFICES ASSUME NEW other \in DOMAIN idxMap'
                 PROVE  items'[idxMap'[other]] = items[idxMap[other]]
        OBVIOUS
    <2>1. idxMap'[other] \in 0..(last - 1)
        BY <1>9
    <2>2. items'[idxMap'[other]] = rest[idxMap'[other]]
        BY <2>1, <1>2, <1>5, <1>6
    <2>3. CASE other = ItemID(items[last])
        BY <2>1, <2>2, <2>3, <1>2, <1>7, <1>8
    <2>4. CASE other # ItemID(items[last])
      <3>1. idxMap'[other] = idxMap[other] /\ idxMap[other] # idx
          BY <2>4, <1>1, <1>7 DEF Inv, Dense
      <3>2. rest[idxMap[other]] = items[idxMap[other]]
          BY <3>1, <2>1, <1>2
      <3> QED
          BY <3>1, <3>2, <2>2
    <2> QED
        BY <2>3, <2>4
  <1>11. TypeOK'
    <2>1. idxMap' \in [DOMAIN idxMap' -> 0..(maxIdx' - 1)]
        BY <1>3, <1>9 DEF Reindexed
    <2>2. DOMAIN idxMap' \subseteq Ids
        BY <1>7 DEF Inv, TypeOK
    <2>3. items' \in [0..(length' - 1) -> Items \cup {Nil}]
        BY <1>4, <1>6
    <2>4. length' \in Nat /\ maxIdx' \in 0..length'
      <3>1. last \in 0..len
          BY <1>2, <1>5
      <3> QED
          BY <3>1, <1>3, <1>4
    <2> QED
        BY <2>1, <2>2, <2>3, <2>4 DEF TypeOK
  <1>12. Dense'
    <2>1. ASSUME NEW other \in DOMAIN idxMap'
          PROVE  items'[idxMap'[other]] \in Items /\ ItemID(items'[idxMap'[other]]) = other
        BY <1>7, <1>10 DEF Inv, Dense
    <2>2. ASSUME NEW i \in 0..(last - 1)
          PROVE  /\ items'[i] \in Items
                 /\ ItemID(items'[i]) \in DOMAIN idxMap'
                 /\ idxMap'[ItemID(items'[i])] = i
      <3>1. i \in 0..(last - 1) /\ i \in 0..(maxIdx - 1) /\ items'[i] = rest[i]
          BY <1>2, <1>5, <1>6
      <3>2. CASE i = idx
        <4>1. items'[i] = items[last] /\ ItemID(items[last]) # id
            BY <3>1, <3>2, <1>2, <1>8
        <4> QED
            BY <4>1, <3>2, <1>7, <1>8
      <3>3. CASE i # idx
        <4>1. items'[i] = items[i]
            BY <3>1, <3>3, <1>2
        <4>2. /\ items[i] \in Items
              /\ ItemID(items[i]) \in DOMAIN idxMap
              /\ idxMap[ItemID(items[i])] = i
            BY <3>1 DEF Inv, Dense
        <4>3. ItemID(items[i]) # id /\ ItemID(items[i]) # ItemID(items[last])
            BY <4>2, <3>1, <3>3, <1>2, <1>8
        <4> QED
            BY <4>1, <4>2, <4>3, <1>7
      <3> QED
          BY <3>2, <3>3
    <2> QED
        BY <2>1, <2>2, <1>3 DEF Dense
  <1>13. TailCleared'
    <2> SUFFICES ASSUME NEW i \in last..(len - 1) PROVE items'[i] = Nil
        BY <1>3, <1>4 DEF TailCleared
    <2>1. items'[i] = rest[i] /\ i \in 0..(length - 1)
        BY <1>2, <1>5, <1>6
    <2>2. CASE i = last
        BY <2>1, <2>2, <1>2
    <2>3. CASE i # last
      <3>1. i \in maxIdx..(length - 1) /\ i # idx
          BY <2>1, <2>3, <1>2
      <3> QED
          BY <2>1, <2>3, <3>1, <1>2 DEF Inv, TailCleared
    <2> QED
        BY <2>2, <2>3
  <1>14. SlackBounded'
    <2>1. last \in Nat /\ maxIdx = last + 1 /\ length \in Nat
        BY <1>2 DEF Inv, TypeOK
    <2>2. CASE Shrinks(last)
      <3>1. length' = last
          BY <2>2 DEF Delete
      <3>2. Slack * last <= (Slack + 1) * last
          BY <2>1, Products
      <3> QED
          BY ONLY <3>1, <3>2, <1>3 DEF SlackBounded
    <2>3. CASE ~Shrinks(last) /\ last > MinShrink
      <3>1. length' = length
          BY <2>3 DEF Delete
      <3>2. length - last \in Nat /\ Slack * (length - last) <= last
        <4>1. CASE length - last > 0
            BY <2>1, <2>3, <4>1 DEF Shrinks
        <4>2. CASE length = last
            BY <2>1, <4>2
        <4> QED
            BY <4>1, <4>2, <2>1, <1>2
      <3>3. Slack * length = Slack * (length - last) + Slack * last
          BY <2>1
      <3>4. (Slack + 1) * last = Slack * last + last /\ Slack * last \in Nat
          BY <2>1, Products
      <3>5. Slack * (length - last) \in Int /\ Slack * length \in Int
          BY <2>1, <3>2
      <3>6. Slack * length <= (Slack + 1) * last
          BY ONLY <3>2, <3>3, <3>4, <3>5, <2>1
      <3> QED
          BY ONLY <3>1, <3>6, <1>3 DEF SlackBounded
    <2>4. CASE ~Shrinks(last) /\ last <= MinShrink
      <3>1. length' = length
          BY <2>4 DEF Delete
      <3>2. (Slack + 1) * maxIdx <= (Slack + 1) * (MinShrink + 1)
          BY <2>1, <2>4, Monotone
      <3>3. Slack * length \in Int /\ (Slack + 1) * maxIdx \in Int
            /\ (Slack + 1) * (MinShrink + 1) \in Int
          BY <2>1
      <3>4. Slack * length <= (Slack + 1) * (MinShrink + 1)
          BY <3>2, <3>3 DEF Inv, SlackBounded
      <3> QED
          BY ONLY <3>1, <3>4 DEF SlackBounded
    <2> QED
        BY <2>1, <2>2, <2>3, <2>4
  <1> QED
      BY <1>10, <1>11, <1>12, <1>13, <1>14 DEF Inv

\* Shrink cuts free slots only.
LEMMA ShrinkKeepsInv == Inv /\ Shrink => Inv'
  <1> SUFFICES ASSUME Inv, Shrink PROVE Inv'
      OBVIOUS
  <1> USE SliceMapAssumption DEF Inv, Shrink, Cut
  <1>1. TypeOK'
      BY DEF TypeOK
  <1>2. Dense'
      BY DEF TypeOK, Dense
  <1>3. TailCleared'
      BY DEF TypeOK, TailCleared
  <1>4. SlackBounded'
    <2>1. Slack * maxIdx <= (Slack + 1) * maxIdx
        BY Products DEF TypeOK
    <2> QED
        BY <2>1 DEF SlackBounded
  <1> QED
      BY <1>1, <1>2, <1>3, <1>4

\* Inv is inductive.
LEMMA InvStep == Inv /\ [Next]_vars => Inv'
  <1> SUFFICES ASSUME Inv, [Next]_vars PROVE Inv'
      OBVIOUS
  <1>1. CASE \E item \in Items : Add(item)
      BY <1>1, AddKeepsInv
  <1>2. CASE \E id \in Ids : Delete(id)
      BY <1>2, DeleteKeepsInv
  <1>3. CASE Shrink
      BY <1>3, ShrinkKeepsInv
  <1>4. CASE UNCHANGED vars
      BY <1>4 DEF vars, Inv, TypeOK, Dense, TailCleared, SlackBounded
  <1> QED
      BY <1>1, <1>2, <1>3, <1>4 DEF Next

\* Types, agreement of slice and index, cleared slots and the bound hold together.
THEOREM Invariance == Spec => []Inv
  <1> QED
      BY InvInit, InvStep, PTL DEF Spec

\* The types of the slice and the index hold in every state.
THEOREM TypeCorrect == Spec => []TypeOK
  <1>1. Inv => TypeOK
      BY DEF Inv
  <1> QED
      BY Invariance, <1>1, PTL

\* Slice and index agree, and free slots are cleared, after any calls.
THEOREM SliceDense == Spec => []Layout
  <1>1. Inv => Layout
      BY DEF Inv, Layout
  <1> QED
      BY Invariance, <1>1, PTL

\* The slice is bounded by the items there are, for any thresholds.
THEOREM SliceBounded == Spec => []SlackBounded
  <1>1. Inv => SlackBounded
      BY DEF Inv
  <1> QED
      BY Invariance, <1>1, PTL

-----------------------------------------------------------------------------
\* Adding an item puts it into the map and leaves the others where they are.
LEMMA AddPuts ==
    ASSUME Inv, NEW item \in Items, Add(item)
    PROVE  Map!Put(item)
  <1>1. DOMAIN Contents = DOMAIN idxMap /\ ItemID(item) \notin DOMAIN idxMap
      BY DEF Contents, Add
  <1>2. ASSUME NEW id \in DOMAIN idxMap'
        PROVE  items'[idxMap'[id]] = IF id = ItemID(item) THEN item ELSE Contents[id]
    <2>1. CASE id = ItemID(item)
        BY <2>1 DEF Add, Stored
    <2>2. CASE id # ItemID(item)
      <3>1. id \in DOMAIN idxMap /\ idxMap'[id] = idxMap[id]
          BY <1>2, <2>2 DEF Add
      <3>2. idxMap[id] \in DOMAIN items /\ idxMap[id] # maxIdx
          BY <3>1 DEF Inv, TypeOK
      <3> QED
          BY <2>2, <3>1, <3>2 DEF Add, Stored, Contents
    <2> QED
        BY <2>1, <2>2
  <1>3. DOMAIN idxMap' = DOMAIN idxMap \cup {ItemID(item)}
      BY DEF Add
  <1>4. Contents' = [id \in DOMAIN idxMap \cup {ItemID(item)} |->
                       IF id = ItemID(item) THEN item ELSE Contents[id]]
      BY <1>2, <1>3 DEF Contents
  <1> QED
      BY <1>1, <1>4 DEF Map!Put

\* Deleting an id takes it out of the map: the item that moves keeps its id.
LEMMA DeleteRemoves ==
    ASSUME Inv, NEW id \in Ids, Delete(id)
    PROVE  Map!Remove(id)
  <1>1. id \in DOMAIN Contents
      BY DEF Contents, Delete
  <1>2. DOMAIN idxMap' = DOMAIN idxMap \ {id}
      BY DEF Delete, Reindexed
  <1>3. ASSUME NEW other \in DOMAIN idxMap'
        PROVE  items'[idxMap'[other]] = items[idxMap[other]]
      BY DeleteKeepsInv
  <1>4. Contents' = [other \in DOMAIN idxMap \ {id} |-> Contents[other]]
      BY <1>2, <1>3 DEF Contents
  <1> QED
      BY <1>1, <1>4 DEF Map!Remove, Contents

\* Shrinking changes nothing that the map knows of.
LEMMA ShrinkStutters == Inv /\ Shrink => UNCHANGED Contents
  <1> SUFFICES ASSUME Inv, Shrink PROVE Contents' = Contents
      OBVIOUS
  <1>1. \A id \in DOMAIN idxMap : items'[idxMap[id]] = items[idxMap[id]]
      BY DEF Inv, TypeOK, Shrink, Cut
  <1>2. idxMap' = idxMap
      BY DEF Shrink
  <1> QED
      BY <1>1, <1>2 DEF Contents

\* The slice and its index implement a map of ids to items.
THEOREM SliceRefines == Spec => ImplementsMap
  <1>1. Init => Map!Init
      BY DEF Init, Map!Init, Contents
  <1>2. Inv /\ [Next]_vars => [Map!Next]_Contents
    <2> SUFFICES ASSUME Inv, [Next]_vars PROVE [Map!Next]_Contents
        OBVIOUS
    <2>1. ASSUME NEW item \in Items, Add(item) PROVE Map!Next
        BY <2>1, AddPuts DEF Map!Next
    <2>2. ASSUME NEW id \in Ids, Delete(id) PROVE Map!Next
      <3>1. Map!Remove(id) /\ id \in DOMAIN Contents
          BY <2>2, DeleteRemoves DEF Map!Remove
      <3> QED
          BY <3>1 DEF Map!Next
    <2>3. CASE Shrink
        BY <2>3, ShrinkStutters
    <2>4. CASE UNCHANGED vars
        BY <2>4 DEF vars, Contents
    <2> QED
        BY <2>1, <2>2, <2>3, <2>4 DEF Next
  <1> QED
      BY <1>1, <1>2, Invariance, PTL DEF Spec, ImplementsMap, Map!Spec

-----------------------------------------------------------------------------
(* Iterators.  What a recursive definition computes is shown for every length *)
(* by taking the least position at which it would be wrong.                   *)

\* Every set of naturals has a least element.
LEMMA LeastNatural ==
    ASSUME NEW T, T \subseteq Nat, T # {}
    PROVE  \E x \in T : \A y \in T : x <= y
  <1> DEFINE R == {ss \in Nat \X Nat : ss[1] < ss[2]}
  <1>1. IsWellFoundedOn(R, Nat)
      BY NatLessThanWellFounded, Zenon DEF OpToRel
  <1>2. \A x, y \in Nat : <<y, x>> \notin R => x <= y
      OBVIOUS
  <1> HIDE DEF R
  <1>3. \E x \in T : \A y \in T : ~(<<y, x>> \in R)
      BY <1>1, WFMin, Zenon
  <1> QED
      BY <1>2, <1>3

\* Division with remainder has one result.
LEMMA EuclidUnique ==
    ASSUME NEW n \in Nat \ {0}, NEW p \in Nat, NEW q \in Nat,
           NEW r \in 0..(n - 1), NEW s \in 0..(n - 1), p * n + r = q * n + s
    PROVE  p = q /\ r = s
  <1>1. ASSUME NEW a \in Nat, NEW b \in Nat, NEW u \in 0..(n - 1), NEW v \in 0..(n - 1),
               a < b
        PROVE  a * n + u < b * n + v
    <2>1. n * (a + 1) <= n * b
        BY <1>1, Monotone
    <2>2. n * (a + 1) = a * n + n /\ n * b = b * n
        OBVIOUS
    <2>3. a * n \in Nat /\ b * n \in Nat
        OBVIOUS
    <2> QED
        BY <2>1, <2>2, <2>3
  <1>2. ~(p < q) /\ ~(q < p)
    <2>1. p * n \in Nat /\ q * n \in Nat
        OBVIOUS
    <2> QED
        BY <1>1, <2>1
  <1> QED
      BY <1>2

\* Iterating forwards or backwards visits every item once.
LEMMA StraightVisits == TypeOK => VisitsEachOnce(BaseIter) /\ VisitsEachOnce(ReverseIter)
  <1> SUFFICES ASSUME TypeOK PROVE VisitsEachOnce(BaseIter) /\ VisitsEachOnce(ReverseIter)
      OBVIOUS
  <1>1. maxIdx \in Nat
      BY DEF TypeOK
  <1>2. \A v \in 0..(maxIdx - 1) :
          /\ v + 1 \in 1..maxIdx /\ BaseIter[v + 1] = v
          /\ maxIdx - v \in 1..maxIdx /\ ReverseIter[maxIdx - v] = v
      BY <1>1 DEF BaseIter, ReverseIter
  <1>3. /\ DOMAIN BaseIter = 1..maxIdx /\ DOMAIN ReverseIter = 1..maxIdx
        /\ \A i \in 1..maxIdx : /\ BaseIter[i] \in 0..(maxIdx - 1)
                                /\ ReverseIter[i] \in 0..(maxIdx - 1)
      BY <1>1 DEF BaseIter, ReverseIter
  <1> QED
      BY <1>2, <1>3 DEF VisitsEachOnce

\* Where a cycle begins is an item's place, however the cursor stands.
LEMMA EntryInside ==
    ASSUME TypeOK, maxIdx > 0, NEW cur \in Int
    PROVE  Entry(cur) \in 0..(maxIdx - 1)
  <1>1. maxIdx \in Nat \ {0}
      BY DEF TypeOK
  <1>2. \A a \in Nat : a % maxIdx \in 0..(maxIdx - 1)
      BY <1>1
  <1>3. CASE cur >= 0
      BY <1>1, <1>2, <1>3 DEF Entry, Rem
  <1>4. CASE cur < 0
    <2>1. -cur \in Nat
        BY <1>4
    <2>2. (-cur) % maxIdx \in 0..(maxIdx - 1)
        BY <1>2, <2>1
    <2>3. Rem(cur, maxIdx) = -((-cur) % maxIdx)
        BY <1>4 DEF Rem
    <2> QED
        BY <1>1, <2>2, <2>3 DEF Entry
  <1> QED
      BY <1>3, <1>4

\* A cycle visits, from its entry on, every item once.
LEMMA CycleVisits ==
    ASSUME TypeOK, NEW cur \in Int
    PROVE  VisitsEachOnce(CycleIter(cur))
  <1>1. maxIdx \in Nat
      BY DEF TypeOK
  <1>2. CASE maxIdx = 0
    <2>1. CycleIter(cur) = <<>>
        BY <1>2 DEF CycleIter, CycleStepIter
    <2> QED
        BY <1>2, <2>1 DEF VisitsEachOnce
  <1>3. CASE maxIdx > 0
    <2> DEFINE e == Entry(cur)
               F(v) == [i \in 1..maxIdx |-> IF i = 1 THEN e ELSE Wrapped(v[i - 1])]
               visit == CHOOSE v : v = F(v)
               place(i) == IF e + i - 1 < maxIdx THEN e + i - 1 ELSE e + i - 1 - maxIdx
               path == [i \in 1..maxIdx |-> place(i)]
    <2>1. e \in 0..(maxIdx - 1)
        BY <1>3, EntryInside
    <2>2. CycleIter(cur) = visit
      <3>1. CycleIter(cur) = IF maxIdx <= 0 THEN <<>> ELSE visit
          BY Zenon DEF CycleIter, CycleStepIter
      <3> HIDE DEF visit
      <3> QED
          BY <1>1, <1>3, <3>1
    <2>3. path = F(path)
      <3>1. ASSUME NEW i \in 1..maxIdx
            PROVE  place(i) = IF i = 1 THEN e ELSE Wrapped(path[i - 1])
        <4>1. CASE i = 1
            BY <1>1, <2>1, <4>1
        <4>2. CASE i # 1
          <5>1. i - 1 \in 1..maxIdx /\ path[i - 1] = place(i - 1)
              BY <1>1, <4>2
          <5> QED
              BY <1>1, <2>1, <4>2, <5>1 DEF Wrapped
        <4> QED
            BY <4>1, <4>2
      <3> QED
          BY <3>1
    <2>4. visit = F(visit)
      <3>1. \E v : v = F(v)
          BY <2>3
      <3> HIDE DEF F, path
      <3> QED
          BY <3>1
    <2>5. /\ DOMAIN visit = 1..maxIdx
          /\ visit[1] = e
          /\ \A i \in 2..maxIdx : visit[i] = Wrapped(visit[i - 1])
      <3> HIDE DEF visit
      <3> QED
          BY <1>1, <1>3, <2>4
    <2> HIDE DEF visit, F
    <2>6. \A i \in 1..maxIdx : visit[i] = place(i)
      <3> DEFINE T == {i \in 1..maxIdx : visit[i] # place(i)}
      <3> SUFFICES ASSUME T # {} PROVE FALSE
          OBVIOUS
      <3>1. PICK i \in T : \A j \in T : i <= j
        <4>1. T \subseteq Nat
            BY <1>1
        <4> HIDE DEF T
        <4> QED
            BY <4>1, LeastNatural
      <3>2. i # 1
          BY <1>1, <1>3, <2>1, <2>5
      <3>3. i - 1 \in 1..maxIdx /\ i - 1 \notin T /\ i \in 2..maxIdx
          BY <1>1, <3>1, <3>2
      <3>4. visit[i - 1] = place(i - 1) /\ visit[i] = Wrapped(visit[i - 1])
          BY <2>5, <3>3
      <3>5. visit[i] = place(i)
          BY <1>1, <2>1, <3>3, <3>4 DEF Wrapped
      <3> QED
          BY <3>1, <3>5
    <2>7. \A i \in 1..maxIdx : visit[i] \in 0..(maxIdx - 1)
        BY <1>1, <2>1, <2>6
    <2>8. \A v \in 0..(maxIdx - 1) : \E i \in 1..maxIdx : visit[i] = v
      <3> SUFFICES ASSUME NEW v \in 0..(maxIdx - 1) PROVE \E i \in 1..maxIdx : visit[i] = v
          OBVIOUS
      <3>1. CASE v >= e
        <4>1. v - e + 1 \in 1..maxIdx /\ place(v - e + 1) = v
            BY <1>1, <2>1, <3>1
        <4> QED
            BY <2>6, <4>1
      <3>2. CASE v < e
        <4>1. v - e + 1 + maxIdx \in 1..maxIdx /\ place(v - e + 1 + maxIdx) = v
            BY <1>1, <2>1, <3>2
        <4> QED
            BY <2>6, <4>1
      <3> QED
          BY <1>1, <2>1, <3>1, <3>2
    <2> QED
        BY <2>2, <2>5, <2>7, <2>8 DEF VisitsEachOnce
  <1> QED
      BY <1>1, <1>2, <1>3

\* A position of a page is visited when it is below maxIdx, and visits its place.
LEMMA PagePlaces ==
    ASSUME TypeOK, NEW n \in Nat \ {0}, NEW p \in 0..maxIdx, NEW j \in 1..n
    PROVE  /\ j \in DOMAIN SubIter(p * n, n) <=> p * n + j - 1 < maxIdx
           /\ j \in DOMAIN SubIter(p * n, n) => SubIter(p * n, n)[j] = p * n + j - 1
  <1> DEFINE start == p * n
             end == IF start + n > maxIdx THEN maxIdx ELSE start + n
  <1>1. maxIdx \in Nat /\ start \in Nat
      BY DEF TypeOK
  <1>2. SubIter(start, n) =
          IF start > maxIdx THEN <<>> ELSE [i \in 1..(end - start) |-> start + i - 1]
      BY DEF SubIter
  <1> HIDE DEF start
  <1>3. CASE start > maxIdx
    <2>1. DOMAIN SubIter(start, n) = {}
        BY <1>2, <1>3
    <2> QED
        BY <1>1, <1>3, <2>1 DEF start
  <1>4. CASE start <= maxIdx
    <2>1. SubIter(start, n) = [i \in 1..(end - start) |-> start + i - 1]
        BY <1>1, <1>2, <1>4
    <2>2. j \in 1..(end - start) <=> start + j - 1 < maxIdx
        BY <1>1, <1>4
    <2> QED
        BY <2>1, <2>2 DEF start
  <1> QED
      BY <1>1, <1>3, <1>4

\* The pages of a listing put together visit every item once.
LEMMA PagesVisit ==
    ASSUME TypeOK, NEW n \in Nat \ {0}
    PROVE  LET visits == {v \in (0..maxIdx) \X (1..n) : v[2] \in DOMAIN SubIter(v[1] * n, n)}
           IN /\ {SubIter(v[1] * n, n)[v[2]] : v \in visits} = 0..(maxIdx - 1)
              /\ Cardinality(visits) = maxIdx
  <1> DEFINE visits == {v \in (0..maxIdx) \X (1..n) : v[2] \in DOMAIN SubIter(v[1] * n, n)}
             place(v) == SubIter(v[1] * n, n)[v[2]]
             f == [v \in visits |-> place(v)]
  <1>1. maxIdx \in Nat
      BY DEF TypeOK
  <1>2. ASSUME NEW v \in visits
        PROVE  /\ v[1] \in 0..maxIdx /\ v[2] \in 1..n /\ v = <<v[1], v[2]>>
               /\ place(v) = v[1] * n + v[2] - 1 /\ v[1] * n \in Nat
               /\ place(v) \in 0..(maxIdx - 1)
    <2>1. /\ v[1] \in 0..maxIdx /\ v[2] \in 1..n /\ v = <<v[1], v[2]>>
          /\ v[2] \in DOMAIN SubIter(v[1] * n, n)
        OBVIOUS
    <2>2. place(v) = v[1] * n + v[2] - 1 /\ v[1] * n + v[2] - 1 < maxIdx
        BY <2>1, PagePlaces
    <2>3. v[1] * n \in Nat
        BY <1>1, <2>1
    <2> HIDE DEF place
    <2> QED
        BY <1>1, <2>1, <2>2, <2>3
  <1>3. ASSUME NEW i \in 0..(maxIdx - 1)
        PROVE  \E v \in visits : place(v) = i
    <2> DEFINE p == i \div n
               r == i % n
    <2>1. i \in Nat /\ i = p * n + r /\ r \in 0..(n - 1) /\ p \in 0..i
        BY <1>1
    <2> HIDE DEF p, r
    <2>2. p \in 0..maxIdx /\ r + 1 \in 1..n /\ p * n \in Nat
        BY <1>1, <2>1
    <2>3. p * n + (r + 1) - 1 = i /\ i < maxIdx
        BY <1>1, <2>1, <2>2
    <2>4. r + 1 \in DOMAIN SubIter(p * n, n) /\ SubIter(p * n, n)[r + 1] = i
        BY <2>2, <2>3, PagePlaces
    <2>5. <<p, r + 1>> \in visits /\ place(<<p, r + 1>>) = i
        BY <2>2, <2>4
    <2> QED
        BY <2>5
  <1>4. ASSUME NEW v \in visits, NEW w \in visits, place(v) = place(w)
        PROVE  v = w
    <2>1. /\ v[1] \in Nat /\ w[1] \in Nat
          /\ v[2] - 1 \in 0..(n - 1) /\ w[2] - 1 \in 0..(n - 1)
          /\ v[1] * n + (v[2] - 1) = w[1] * n + (w[2] - 1)
          /\ v[2] \in Int /\ w[2] \in Int
        BY <1>1, <1>2, <1>4
    <2>2. v[1] = w[1] /\ v[2] - 1 = w[2] - 1
        BY <2>1, EuclidUnique
    <2>3. v[2] = w[2]
        BY <2>1, <2>2
    <2> QED
        BY <1>2, <2>2, <2>3
  <1> HIDE DEF visits, place
  <1>5. {place(v) : v \in visits} = 0..(maxIdx - 1)
      BY <1>2, <1>3
  <1>6. f \in Bijection(visits, 0..(maxIdx - 1))
    <2>1. f \in [visits -> 0..(maxIdx - 1)]
        BY <1>2
    <2>2. f \in Injection(visits, 0..(maxIdx - 1))
        BY <1>4, <2>1 DEF Injection, IsInjective
    <2>3. f \in Surjection(visits, 0..(maxIdx - 1))
        BY <1>3, <2>1 DEF Surjection
    <2> QED
        BY <2>2, <2>3 DEF Bijection
  <1>7. Cardinality(visits) = maxIdx
    <2>1. f \in Injection(visits, 0..(maxIdx - 1)) /\ f \in Surjection(visits, 0..(maxIdx - 1))
        BY <1>6 DEF Bijection
    <2>2. IsFiniteSet(0..(maxIdx - 1)) /\ Cardinality(0..(maxIdx - 1)) = maxIdx
        BY <1>1, FS_Interval
    <2> HIDE DEF f
    <2> QED
        BY <2>1, <2>2, FS_Injection
  <1> QED
      BY <1>5, <1>7 DEF visits, place

\* Iterations of the whole map, cyclic ones from any cursor, and the pages of a
\* listing visit every item once, after any calls.
THEOREM IteratorsCorrect == Spec => []IteratorsComplete
  <1>1. TypeOK => IteratorsComplete
    <2> SUFFICES ASSUME TypeOK PROVE IteratorsComplete
        OBVIOUS
    <2>1. maxIdx \in Nat
        BY DEF TypeOK
    <2>2. \A cur \in (-2 * maxIdx)..(2 * maxIdx) : VisitsEachOnce(CycleIter(cur))
        BY <2>1, CycleVisits
    <2>3. \A n \in 1..(maxIdx + 1) : n \in Nat \ {0}
        BY <2>1
    <2> QED
        BY <2>2, <2>3, StraightVisits, PagesVisit, Zenon DEF IteratorsComplete
  <1> QED
      BY <1>1, TypeCorrect, PTL

=============================================================================
