----------------------------- MODULE TopNProofs -----------------------------
(***************************************************************************)
(* The k longest queues, proved for any map, any sizes and any k.  Up and  *)
(* Down are recursive functions of the number of rounds, so each is first  *)
(* shown to exist and to keep the places of its sequence; then that it     *)
(* keeps the heap but for one place, which a bounded number of rounds      *)
(* brings into order; then what Push, Pop and the two loops make of it.    *)
(***************************************************************************)
EXTENDS TopN, SliceMapProofs

-----------------------------------------------------------------------------
(* Recursive functions on an initial part of the naturals.                  *)

\* What holds of 0 and passes from each number to the next holds up to n.
LEMMA StepByStep ==
    ASSUME NEW n \in Nat, NEW T, 0 \in T, \A i \in 0..(n - 1) : i \in T => i + 1 \in T
    PROVE  \A i \in 0..n : i \in T
  <1> DEFINE R == {i \in 0..n : i \notin T}
  <1> SUFFICES ASSUME R # {} PROVE FALSE
      OBVIOUS
  <1>1. PICK i \in R : \A j \in R : i <= j
    <2>1. R \subseteq Nat
        OBVIOUS
    <2> HIDE DEF R
    <2> QED
        BY <2>1, LeastNatural
  <1>2. i # 0 /\ i - 1 \in 0..(n - 1) /\ i - 1 \notin R
      BY <1>1
  <1>3. (i - 1) + 1 = i
      BY <1>1
  <1> QED
      BY <1>1, <1>2, <1>3

\* v starts with a and goes on by g.
Recurs(v, n, S, a, g) ==
    /\ v \in [0..n -> S]
    /\ v[0] = a /\ \A i \in 1..n : v[i] = g[<<i, v[i - 1]>>]

\* A recursion that stays in a set has a solution.
LEMMA Recursion ==
    ASSUME NEW n \in Nat, NEW S, NEW a \in S, NEW g, g \in [(1..n) \X S -> S]
    PROVE  \E v : Recurs(v, n, S, a, g)
  <1> DEFINE T == {m \in 0..n : \E v \in [0..m -> S] :
                                  v[0] = a /\ \A i \in 1..m : v[i] = g[<<i, v[i - 1]>>]}
  <1>1. 0 \in T
    <2> DEFINE v == [i \in 0..0 |-> a]
    <2>1. v \in [0..0 -> S] /\ v[0] = a /\ \A i \in 1..0 : v[i] = g[<<i, v[i - 1]>>]
        OBVIOUS
    <2>2. 0 \in 0..n
        OBVIOUS
    <2> HIDE DEF v
    <2> QED
        BY <2>1, <2>2
  <1>2. ASSUME NEW m \in 0..(n - 1), m \in T PROVE m + 1 \in T
    <2>1. PICK v \in [0..m -> S] : v[0] = a /\ \A i \in 1..m : v[i] = g[<<i, v[i - 1]>>]
        BY <1>2
    <2> DEFINE w == [i \in 0..(m + 1) |-> IF i <= m THEN v[i] ELSE g[<<m + 1, v[m]>>]]
    <2>2. g[<<m + 1, v[m]>>] \in S
      <3>1. m + 1 \in 1..n /\ v[m] \in S
          OBVIOUS
      <3> QED
          BY <3>1
    <2>3. w \in [0..(m + 1) -> S] /\ w[0] = a
        BY <2>1, <2>2
    <2>4. ASSUME NEW i \in 1..(m + 1) PROVE w[i] = g[<<i, w[i - 1]>>]
      <3>1. CASE i <= m
        <4>1. w[i] = v[i] /\ w[i - 1] = v[i - 1] /\ i \in 1..m
            BY <3>1
        <4> QED
            BY <2>1, <4>1
      <3>2. CASE i = m + 1
        <4>1. w[i] = g[<<m + 1, v[m]>>] /\ w[i - 1] = v[m]
            BY <3>2
        <4> QED
            BY <3>2, <4>1
      <3> QED
          BY <3>1, <3>2
    <2> HIDE DEF w
    <2> QED
        BY <2>3, <2>4
  <1>3. n \in 0..n
      OBVIOUS
  <1>4. n \in T
    <2> HIDE DEF T
    <2> QED
        BY <1>1, <1>2, <1>3, StepByStep
  <1> QED
      BY <1>4 DEF Recurs

-----------------------------------------------------------------------------
(* Heaps.                                                                   *)

Distinct(h) == \A i, j \in 1..Len(h) : h[i] = h[j] => i = j

\* No queue is above a shorter one.
Ordered(h, size) == \A j \in 2..Len(h) : size[h[j \div 2]] <= size[h[j]]

\* The same queues in another order.
Permuted(h, g) ==
    /\ g \in Seq(Items) /\ Len(g) = Len(h)
    /\ Listed(g) = Listed(h)
    /\ Distinct(h) => Distinct(g)

\* The parent of a position.
LEMMA Halves ==
    \A j \in Nat : /\ j \div 2 \in Nat
                   /\ j = 2 * (j \div 2) \/ j = 2 * (j \div 2) + 1
OBVIOUS

\* Swapping two places.
LEMMA SwapPlaces ==
    ASSUME NEW h \in Seq(Items), NEW i \in 1..Len(h), NEW j \in 1..Len(h)
    PROVE  /\ Swap(h, i, j) \in Seq(Items) /\ Len(Swap(h, i, j)) = Len(h)
           /\ Swap(h, i, j)[i] = h[j] /\ Swap(h, i, j)[j] = h[i]
           /\ \A k \in 1..Len(h) : k # i /\ k # j => Swap(h, i, j)[k] = h[k]
BY DEF Swap

\* Swapping permutes.
LEMMA SwapPermutes ==
    ASSUME NEW h \in Seq(Items), NEW i \in 1..Len(h), NEW j \in 1..Len(h)
    PROVE  Permuted(h, Swap(h, i, j))
  <1> DEFINE g == Swap(h, i, j)
  <1>1. /\ g \in Seq(Items) /\ Len(g) = Len(h) /\ Len(h) \in Nat
        /\ g[i] = h[j] /\ g[j] = h[i]
        /\ \A k \in 1..Len(h) : k # i /\ k # j => g[k] = h[k]
        /\ DOMAIN g = 1..Len(h) /\ DOMAIN h = 1..Len(h)
    <2>1. /\ g \in Seq(Items) /\ Len(g) = Len(h)
          /\ g[i] = h[j] /\ g[j] = h[i]
          /\ \A k \in 1..Len(h) : k # i /\ k # j => g[k] = h[k]
        BY SwapPlaces
    <2> HIDE DEF g
    <2> QED
        BY <2>1
  <1> HIDE DEF g
  <1>2. Listed(g) = Listed(h)
    <2>1. \A k \in 1..Len(h) : \E m \in 1..Len(h) : g[k] = h[m]
        BY <1>1
    <2>2. \A k \in 1..Len(h) : \E m \in 1..Len(h) : h[k] = g[m]
        BY <1>1
    <2>3. Listed(g) = {g[k] : k \in 1..Len(h)} /\ Listed(h) = {h[k] : k \in 1..Len(h)}
        BY <1>1 DEF Listed
    <2>4. \A x : x \in Listed(g) <=> \E k \in 1..Len(h) : x = g[k]
        BY <2>3
    <2>5. \A x : x \in Listed(h) <=> \E k \in 1..Len(h) : x = h[k]
        BY <2>3
    <2>6. \A x : x \in Listed(g) => x \in Listed(h)
        BY <2>1, <2>4, <2>5
    <2>7. \A x : x \in Listed(h) => x \in Listed(g)
        BY <2>2, <2>4, <2>5
    <2> QED
        BY <2>6, <2>7
  <1>3. ASSUME Distinct(h) PROVE Distinct(g)
      BY <1>1, <1>3 DEF Distinct
  <1>4. Permuted(h, g)
      BY <1>1, <1>2, <1>3 DEF Permuted
  <1> QED
      BY <1>4 DEF g

\* One permutation after another.
LEMMA PermutedAgain ==
    ASSUME NEW h, NEW g, NEW k, Permuted(h, g), Permuted(g, k)
    PROVE  Permuted(h, k)
BY DEF Permuted

\* What a heap in the making and a place in it are.
Spots(n) == [heap : {g \in Seq(Items) : Len(g) = n}, at : 1..n]

\* The place is lower than the one above it, by this order.
Rises(s, size) == s.at > 1 /\ Less(s.heap[s.at], s.heap[s.at \div 2], size)
Risen(s, size) ==
    IF Rises(s, size) THEN [heap |-> Swap(s.heap, s.at, s.at \div 2), at |-> s.at \div 2] ELSE s

\* One of those below it is lower than it.
Sinks(s, size) ==
    /\ 2 * s.at <= Len(s.heap)
    /\ Less(s.heap[LesserChild(s.heap, s.at, size)], s.heap[s.at], size)
Sunk(s, size) ==
    LET child == LesserChild(s.heap, s.at, size)
    IN IF Sinks(s, size) THEN [heap |-> Swap(s.heap, s.at, child), at |-> child] ELSE s

\* The places above and below a place.
LEMMA Neighbours ==
    ASSUME NEW n \in Nat, NEW s \in Spots(n), NEW size
    PROVE  /\ s.heap \in Seq(Items) /\ Len(s.heap) = n /\ s.at \in 1..n
           /\ s.at > 1 => s.at \div 2 \in 1..n /\ s.at \div 2 < s.at
           /\ 2 * s.at <= n =>
                /\ LesserChild(s.heap, s.at, size) \in 1..n
                /\ LesserChild(s.heap, s.at, size) > s.at
                /\ LesserChild(s.heap, s.at, size) \in {2 * s.at, 2 * s.at + 1}
                /\ LesserChild(s.heap, s.at, size) \div 2 = s.at
  <1>1. s.heap \in Seq(Items) /\ Len(s.heap) = n /\ s.at \in 1..n
      BY DEF Spots
  <1>2. s.at > 1 => s.at \div 2 \in 1..n /\ s.at \div 2 < s.at
      BY <1>1, Halves
  <1>3. 2 * s.at <= n =>
          /\ LesserChild(s.heap, s.at, size) \in {2 * s.at, 2 * s.at + 1}
          /\ LesserChild(s.heap, s.at, size) <= n
      BY <1>1 DEF LesserChild
  <1>4. (2 * s.at) \div 2 = s.at /\ (2 * s.at + 1) \div 2 = s.at
      BY <1>1
  <1> DEFINE child == LesserChild(s.heap, s.at, size)
  <1>5. ASSUME 2 * s.at <= n PROVE child \in 1..n /\ child > s.at /\ child \div 2 = s.at
    <2>1. child \in {2 * s.at, 2 * s.at + 1} /\ child <= n
        BY <1>3, <1>5
    <2> HIDE DEF child
    <2> QED
        BY <1>1, <1>4, <2>1
  <1> QED
      BY <1>1, <1>2, <1>3, <1>5

\* A step up or down swaps two places of the heap or ends.
LEMMA RisenSunk ==
    ASSUME NEW n \in Nat, NEW s \in Spots(n), NEW size
    PROVE  /\ Risen(s, size) \in Spots(n) /\ Permuted(s.heap, Risen(s, size).heap)
           /\ Sunk(s, size) \in Spots(n) /\ Permuted(s.heap, Sunk(s, size).heap)
  <1>1. /\ s.heap \in Seq(Items) /\ Len(s.heap) = n /\ s.at \in 1..n
        /\ s.at > 1 => s.at \div 2 \in 1..n
        /\ 2 * s.at <= n => LesserChild(s.heap, s.at, size) \in 1..n
      BY Neighbours
  <1>2. Permuted(s.heap, s.heap)
      BY <1>1 DEF Permuted
  <1>3. \A i \in 1..n : /\ [heap |-> Swap(s.heap, s.at, i), at |-> i] \in Spots(n)
                        /\ Permuted(s.heap, Swap(s.heap, s.at, i))
    <2> SUFFICES ASSUME NEW i \in 1..n
                 PROVE  /\ [heap |-> Swap(s.heap, s.at, i), at |-> i] \in Spots(n)
                        /\ Permuted(s.heap, Swap(s.heap, s.at, i))
        OBVIOUS
    <2>1. Permuted(s.heap, Swap(s.heap, s.at, i))
        BY <1>1, SwapPermutes
    <2> QED
        BY <1>1, <2>1 DEF Spots, Permuted
  <1>4. Rises(s, size) => s.at \div 2 \in 1..n
      BY <1>1 DEF Rises
  <1>5. Sinks(s, size) => LesserChild(s.heap, s.at, size) \in 1..n
      BY <1>1 DEF Sinks
  <1> HIDE DEF Rises, Sinks
  <1>6. Risen(s, size) \in Spots(n) /\ Permuted(s.heap, Risen(s, size).heap)
      BY <1>2, <1>3, <1>4 DEF Risen
  <1>7. Sunk(s, size) \in Spots(n) /\ Permuted(s.heap, Sunk(s, size).heap)
      BY <1>2, <1>3, <1>5 DEF Sunk
  <1> QED
      BY <1>6, <1>7

\* What up computes: the heap after as many steps up as it has places.
LEMMA UpSteps ==
    ASSUME NEW h \in Seq(Items), h # <<>>, NEW size
    PROVE  \E v \in [0..Len(h) -> Spots(Len(h))] :
             /\ v[0] = [heap |-> h, at |-> Len(h)]
             /\ \A i \in 1..Len(h) : v[i] = Risen(v[i - 1], size)
             /\ Up(h, size) = v[Len(h)].heap
  <1> DEFINE start == [heap |-> h, at |-> Len(h)]
             F(v) == [n \in 0..Len(h) |->
                       IF n = 0 THEN start
                       ELSE LET s == v[n - 1]
                                parent == s.at \div 2
                            IN IF s.at > 1 /\ Less(s.heap[s.at], s.heap[parent], size)
                                 THEN [heap |-> Swap(s.heap, s.at, parent), at |-> parent]
                                 ELSE s]
             rise == CHOOSE v : v = F(v)
             S == Spots(Len(h))
  <1>1. Up(h, size) = rise[Len(h)].heap
      BY Zenon DEF Up
  <1>2. Len(h) \in Nat \ {0} /\ start \in S
      BY DEF Spots
  <1>3. \A v : F(v) = [n \in 0..Len(h) |-> IF n = 0 THEN start ELSE Risen(v[n - 1], size)]
      BY DEF Risen, Rises
  <1> HIDE DEF F, S, start
  <1>4. \A s \in S : Risen(s, size) \in S
      BY <1>2, RisenSunk DEF S
  <1>5. \E v : v = F(v)
    <2> DEFINE g == [p \in (1..Len(h)) \X S |-> Risen(p[2], size)]
    <2>1. g \in [(1..Len(h)) \X S -> S]
        BY <1>4
    <2>2. \A i \in 1..Len(h), s \in S : g[<<i, s>>] = Risen(s, size)
        OBVIOUS
    <2> HIDE DEF g
    <2>3. PICK v : Recurs(v, Len(h), S, start, g)
        BY <1>2, <2>1, Recursion
    <2>4. ASSUME NEW i \in 1..Len(h) PROVE v[i] = Risen(v[i - 1], size)
      <3>1. v[i - 1] \in S
          BY <1>2, <2>3 DEF Recurs
      <3> QED
          BY <2>2, <2>3, <3>1 DEF Recurs
    <2>5. v = [n \in 0..Len(h) |-> IF n = 0 THEN start ELSE Risen(v[n - 1], size)]
        BY <1>2, <2>3, <2>4 DEF Recurs
    <2> QED
        BY <1>3, <2>5
  <1>6. rise = F(rise)
      BY <1>5
  <1> HIDE DEF rise
  <1>7. /\ rise = [n \in 0..Len(h) |-> IF n = 0 THEN start ELSE Risen(rise[n - 1], size)]
      BY <1>3, <1>6
  <1>8. /\ DOMAIN rise = 0..Len(h) /\ rise[0] = start
        /\ \A i \in 1..Len(h) : rise[i] = Risen(rise[i - 1], size)
      BY <1>2, <1>7
  <1>9. \A i \in 0..Len(h) : rise[i] \in S
    <2> DEFINE T == {i \in 0..Len(h) : rise[i] \in S}
    <2>1. 0 \in T
        BY <1>2, <1>8
    <2>2. ASSUME NEW i \in 0..(Len(h) - 1), i \in T PROVE i + 1 \in T
      <3>1. i + 1 \in 1..Len(h) /\ (i + 1) - 1 = i /\ rise[i] \in S
          BY <1>2, <2>2
      <3> QED
          BY <1>4, <1>8, <3>1
    <2> HIDE DEF T
    <2>3. \A i \in 0..Len(h) : i \in T
        BY <1>2, <2>1, <2>2, StepByStep
    <2> QED
        BY <2>3 DEF T
  <1>10. rise \in [0..Len(h) -> S]
      BY <1>7, <1>8, <1>9
  <1> QED
      BY <1>1, <1>8, <1>10 DEF S, start

\* So does down.
LEMMA DownSteps ==
    ASSUME NEW h \in Seq(Items), h # <<>>, NEW size
    PROVE  \E v \in [0..Len(h) -> Spots(Len(h))] :
             /\ v[0] = [heap |-> h, at |-> 1]
             /\ \A i \in 1..Len(h) : v[i] = Sunk(v[i - 1], size)
             /\ Down(h, size) = v[Len(h)].heap
  <1> DEFINE start == [heap |-> h, at |-> 1]
             F(v) == [n \in 0..Len(h) |->
                       IF n = 0 THEN start
                       ELSE LET s == v[n - 1]
                                child == LesserChild(s.heap, s.at, size)
                            IN IF 2 * s.at <= Len(h) /\ Less(s.heap[child], s.heap[s.at], size)
                                 THEN [heap |-> Swap(s.heap, s.at, child), at |-> child]
                                 ELSE s]
             \* Of heaps of this length.
             G(s) == LET child == LesserChild(s.heap, s.at, size)
                     IN IF 2 * s.at <= Len(h) /\ Less(s.heap[child], s.heap[s.at], size)
                          THEN [heap |-> Swap(s.heap, s.at, child), at |-> child]
                          ELSE s
             sink == CHOOSE v : v = F(v)
             S == Spots(Len(h))
  <1>1. Down(h, size) = sink[Len(h)].heap
      BY Zenon DEF Down
  <1>2. Len(h) \in Nat \ {0} /\ start \in S
      BY DEF Spots
  <1>3. \A v : F(v) = [n \in 0..Len(h) |-> IF n = 0 THEN start ELSE G(v[n - 1])]
      OBVIOUS
  <1>4. \A s \in S : G(s) = Sunk(s, size) /\ Sunk(s, size) \in S
    <2> SUFFICES ASSUME NEW s \in S PROVE G(s) = Sunk(s, size) /\ Sunk(s, size) \in S
        OBVIOUS
    <2>1. Len(s.heap) = Len(h)
        BY DEF Spots
    <2> QED
        BY <1>2, <2>1, RisenSunk DEF Sunk, Sinks
  <1> HIDE DEF F, G, S, start
  <1>5. \E v : v = F(v)
    <2> DEFINE g == [p \in (1..Len(h)) \X S |-> Sunk(p[2], size)]
    <2>1. g \in [(1..Len(h)) \X S -> S]
        BY <1>4
    <2>2. \A i \in 1..Len(h), s \in S : g[<<i, s>>] = G(s)
        BY <1>4
    <2> HIDE DEF g
    <2>3. PICK v : Recurs(v, Len(h), S, start, g)
        BY <1>2, <2>1, Recursion
    <2>4. ASSUME NEW i \in 1..Len(h) PROVE v[i] = G(v[i - 1])
      <3>1. v[i - 1] \in S
          BY <1>2, <2>3 DEF Recurs
      <3> QED
          BY <2>2, <2>3, <3>1 DEF Recurs
    <2>5. v = [n \in 0..Len(h) |-> IF n = 0 THEN start ELSE G(v[n - 1])]
        BY <1>2, <2>3, <2>4 DEF Recurs
    <2> QED
        BY <1>3, <2>5
  <1>6. sink = F(sink)
      BY <1>5
  <1> HIDE DEF sink
  <1>7. /\ sink = [n \in 0..Len(h) |-> IF n = 0 THEN start ELSE G(sink[n - 1])]
      BY <1>3, <1>6
  <1>8. /\ DOMAIN sink = 0..Len(h) /\ sink[0] = start
        /\ \A i \in 1..Len(h) : sink[i] = G(sink[i - 1])
      BY <1>2, <1>7
  <1>9. \A i \in 0..Len(h) : sink[i] \in S
    <2> DEFINE T == {i \in 0..Len(h) : sink[i] \in S}
    <2>1. 0 \in T
        BY <1>2, <1>8
    <2>2. ASSUME NEW i \in 0..(Len(h) - 1), i \in T PROVE i + 1 \in T
      <3>1. i + 1 \in 1..Len(h) /\ (i + 1) - 1 = i /\ sink[i] \in S
          BY <1>2, <2>2
      <3> QED
          BY <1>4, <1>8, <3>1
    <2> HIDE DEF T
    <2>3. \A i \in 0..Len(h) : i \in T
        BY <1>2, <2>1, <2>2, StepByStep
    <2> QED
        BY <2>3 DEF T
  <1>10. sink \in [0..Len(h) -> S]
      BY <1>7, <1>8, <1>9
  <1>11. \A i \in 1..Len(h) : sink[i] = Sunk(sink[i - 1], size)
      BY <1>2, <1>4, <1>8, <1>9
  <1> QED
      BY <1>1, <1>8, <1>10, <1>11 DEF S, start

\* A heap in which only the queue at the place may be above a longer one's place, after
\* n steps up: those below the place are not shorter than the one above it.
Rising(s, size, n) ==
    /\ \A j \in 2..Len(s.heap) : j # s.at => size[s.heap[j \div 2]] <= size[s.heap[j]]
    /\ s.at > 1 => \A j \in 2..Len(s.heap) :
                     j \div 2 = s.at => size[s.heap[s.at \div 2]] <= size[s.heap[j]]
    /\ s.at + n <= Len(s.heap) \/ ~Rises(s, size)

\* The same on the way down: only those below the place may be shorter.
Sinking(s, size, n) ==
    /\ \A j \in 2..Len(s.heap) : j \div 2 # s.at => size[s.heap[j \div 2]] <= size[s.heap[j]]
    /\ s.at > 1 => \A j \in 2..Len(s.heap) :
                     j \div 2 = s.at => size[s.heap[s.at \div 2]] <= size[s.heap[j]]
    /\ s.at > n \/ ~Sinks(s, size)

\* The parents of a heap's places, and sizes of its queues.
LEMMA Parents ==
    ASSUME NEW h \in Seq(Items), NEW size \in [Items -> Nat]
    PROVE  /\ Len(h) \in Nat
           /\ \A j \in 2..Len(h) : j \div 2 \in 1..Len(h) /\ j \div 2 < j
           /\ \A j \in 1..Len(h) : size[h[j]] \in Nat
  <1>1. Len(h) \in Nat /\ \A j \in 1..Len(h) : h[j] \in Items
      OBVIOUS
  <1> QED
      BY <1>1, Halves

\* A step up.
LEMMA RisingStep ==
    ASSUME NEW L \in Nat, NEW s \in Spots(L), NEW size \in [Items -> Nat], NEW n \in Nat,
           Rising(s, size, n)
    PROVE  Rising(Risen(s, size), size, n + 1)
  <1>1. s.heap \in Seq(Items) /\ Len(s.heap) = L /\ s.at \in 1..L
      BY DEF Spots
  <1>2. CASE ~Rises(s, size)
    <2>1. Risen(s, size) = s
        BY <1>2 DEF Risen
    <2> QED
        BY <1>2, <2>1 DEF Rising
  <1>3. CASE Rises(s, size)
    <2> DEFINE g == s.heap
               a == s.at
               p == a \div 2
               u == Swap(g, a, p)
               t == [heap |-> u, at |-> p]
    <2>1. a \in 2..L /\ p \in 1..L /\ p < a /\ Risen(s, size) = t
        BY <1>1, <1>3, Neighbours DEF Risen, Rises
    <2>2. /\ u \in Seq(Items) /\ Len(u) = L /\ u[a] = g[p] /\ u[p] = g[a]
          /\ \A k \in 1..L : k # a /\ k # p => u[k] = g[k]
        BY <1>1, <2>1, SwapPlaces
    <2>3. /\ \A j \in 2..L : j \div 2 \in 1..L /\ j \div 2 < j
          /\ \A j \in 1..L : size[g[j]] \in Nat
        BY <1>1, Parents
    <2>4. size[g[a]] < size[g[p]]
        BY <1>3 DEF Rises, Less
    <2>5. /\ \A j \in 2..L : j # a => size[g[j \div 2]] <= size[g[j]]
          /\ \A j \in 2..L : j \div 2 = a => size[g[p]] <= size[g[j]]
        BY <1>1, <2>1 DEF Rising
    <2>6. a + n <= L
        BY <1>1, <1>3 DEF Rising
    <2> HIDE DEF u, g, a
    <2>7. ASSUME NEW j \in 2..L, j # p PROVE size[u[j \div 2]] <= size[u[j]]
      <3>1. CASE j = a
          BY <2>1, <2>2, <2>3, <2>4, <3>1
      <3>2. CASE j # a /\ j \div 2 = a
        <4>1. u[j \div 2] = g[p] /\ u[j] = g[j]
            BY <2>2, <2>7, <3>2
        <4>2. size[g[p]] <= size[g[j]]
            BY <2>5, <3>2
        <4> QED
            BY <4>1, <4>2
      <3>3. CASE j # a /\ j \div 2 = p
        <4>1. size[g[p]] <= size[g[j]] /\ u[j] = g[j] /\ u[j \div 2] = g[a]
            BY <2>2, <2>5, <2>7, <3>3
        <4>2. size[g[a]] \in Nat /\ size[g[p]] \in Nat /\ size[g[j]] \in Nat
            BY <2>1, <2>3
        <4> QED
            BY <2>4, <4>1, <4>2
      <3>4. CASE j # a /\ j \div 2 # a /\ j \div 2 # p
          BY <2>2, <2>3, <2>5, <2>7, <3>4
      <3> QED
          BY <3>1, <3>2, <3>3, <3>4
    <2>8. ASSUME p > 1, NEW j \in 2..L, j \div 2 = p PROVE size[u[p \div 2]] <= size[u[j]]
      <3>1. p \div 2 \in 1..L /\ p \div 2 < p /\ p \in 2..L
          BY <2>1, <2>3, <2>8
      <3>2. u[p \div 2] = g[p \div 2] /\ size[g[p \div 2]] <= size[g[p]]
        <4>1. p # a /\ p \div 2 # a /\ p \div 2 # p
            BY <2>1, <3>1
        <4>2. u[p \div 2] = g[p \div 2]
            BY <2>2, <3>1, <4>1
        <4>3. size[g[p \div 2]] <= size[g[p]]
            BY <2>5, <3>1, <4>1
        <4> QED
            BY <4>2, <4>3
      <3>3. CASE j = a
          BY <2>2, <3>2, <3>3
      <3>4. CASE j # a
        <4>1. u[j] = g[j] /\ size[g[p]] <= size[g[j]]
            BY <2>2, <2>3, <2>5, <2>8, <3>4
        <4>2. size[g[p \div 2]] \in Nat /\ size[g[p]] \in Nat /\ size[g[j]] \in Nat
            BY <2>1, <2>3, <3>1
        <4> QED
            BY <3>2, <4>1, <4>2
      <3> QED
          BY <3>3, <3>4
    <2>9. p + (n + 1) <= L
        BY <2>1, <2>6
    <2>10. t.heap = u /\ t.at = p /\ Len(u) = L
        BY <2>2
    <2> HIDE DEF t, p
    <2>11. Rising(t, size, n + 1)
        BY <2>7, <2>8, <2>9, <2>10 DEF Rising
    <2> QED
        BY <2>1, <2>11
  <1> QED
      BY <1>2, <1>3

\* A step down.
LEMMA SinkingStep ==
    ASSUME NEW L \in Nat, NEW s \in Spots(L), NEW size \in [Items -> Nat], NEW n \in Nat,
           Sinking(s, size, n)
    PROVE  Sinking(Sunk(s, size), size, n + 1)
  <1>1. s.heap \in Seq(Items) /\ Len(s.heap) = L /\ s.at \in 1..L
      BY DEF Spots
  <1>2. CASE ~Sinks(s, size)
    <2>1. Sunk(s, size) = s
        BY <1>2 DEF Sunk
    <2> QED
        BY <1>2, <2>1 DEF Sinking
  <1>3. CASE Sinks(s, size)
    <2> DEFINE g == s.heap
               a == s.at
               c == LesserChild(g, a, size)
               u == Swap(g, a, c)
               t == [heap |-> u, at |-> c]
    <2>1. 2 * a <= L
        BY <1>1, <1>3 DEF Sinks
    <2>2. /\ a \in 1..L /\ c \in 1..L /\ c > a /\ c \div 2 = a /\ Sunk(s, size) = t
          /\ c \in {2 * a, 2 * a + 1}
        BY <1>1, <1>3, <2>1, Neighbours DEF Sunk
    <2>3. /\ u \in Seq(Items) /\ Len(u) = L /\ u[a] = g[c] /\ u[c] = g[a]
          /\ \A k \in 1..L : k # a /\ k # c => u[k] = g[k]
        BY <1>1, <2>2, SwapPlaces
    <2>4. /\ \A j \in 2..L : j \div 2 \in 1..L /\ j \div 2 < j
          /\ \A j \in 1..L : size[g[j]] \in Nat
        BY <1>1, Parents
    <2>5. size[g[c]] < size[g[a]]
        BY <1>3 DEF Sinks, Less
    <2>6. /\ \A j \in 2..L : j \div 2 # a => size[g[j \div 2]] <= size[g[j]]
          /\ a > 1 => \A j \in 2..L : j \div 2 = a => size[g[a \div 2]] <= size[g[j]]
        BY <1>1 DEF Sinking
    <2>7. a > n
        BY <1>1, <1>3 DEF Sinking
    <2>8. ASSUME NEW j \in 2..L, j \div 2 = a PROVE size[g[c]] <= size[g[j]]
      <3>1. j = 2 * a \/ j = 2 * a + 1
          BY <2>8, Halves
      <3>2. size[g[2 * a]] \in Nat /\ size[g[c]] \in Nat /\ size[g[j]] \in Nat
          BY <2>1, <2>2, <2>4
      <3>3. CASE 2 * a < L /\ size[g[2 * a + 1]] < size[g[2 * a]]
        <4>1. c = 2 * a + 1
            BY <1>1, <3>3 DEF LesserChild, Less
        <4> QED
            BY <3>1, <3>2, <3>3, <4>1
      <3>4. CASE ~(2 * a < L /\ size[g[2 * a + 1]] < size[g[2 * a]])
        <4>1. c = 2 * a
            BY <1>1, <3>4 DEF LesserChild, Less
        <4> QED
            BY <2>2, <2>8, <3>1, <3>2, <3>4, <4>1
      <3> QED
          BY <3>3, <3>4
    <2> HIDE DEF u, g, a, c
    <2>10. ASSUME NEW j \in 2..L, j \div 2 # c PROVE size[u[j \div 2]] <= size[u[j]]
      <3>1. CASE j = c
          BY <2>2, <2>3, <2>4, <2>5, <3>1
      <3>2. CASE j # c /\ j \div 2 = a
        <4>1. j # a
            BY <2>4, <3>2
        <4> QED
            BY <2>2, <2>3, <2>8, <3>2, <4>1
      <3>3. CASE j = a
        <4>1. a > 1 /\ c \in 2..L /\ a \div 2 \in 1..L /\ a \div 2 < a
            BY <2>2, <2>4, <3>3
        <4>2. size[g[a \div 2]] <= size[g[c]]
            BY <2>2, <2>6, <4>1
        <4>3. u[a \div 2] = g[a \div 2]
            BY <2>2, <2>3, <4>1
        <4> QED
            BY <2>3, <3>3, <4>2, <4>3
      <3>4. CASE j # c /\ j # a /\ j \div 2 # a
          BY <2>3, <2>4, <2>6, <2>10, <3>4
      <3> QED
          BY <3>1, <3>2, <3>3, <3>4
    <2>11. ASSUME NEW j \in 2..L, j \div 2 = c PROVE size[u[c \div 2]] <= size[u[j]]
      <3>1. j # a /\ j # c
          BY <2>2, <2>4, <2>11
      <3>2. u[j] = g[j] /\ u[c \div 2] = g[c] /\ size[g[c]] <= size[g[j]]
        <4>1. u[j] = g[j]
            BY <2>3, <3>1
        <4>2. u[c \div 2] = g[c]
            BY <2>2, <2>3
        <4>3. size[g[c]] <= size[g[j]]
            BY <2>2, <2>6, <2>11
        <4> QED
            BY <4>1, <4>2, <4>3
      <3> QED
          BY <3>2
    <2>12. c > n + 1
        BY <2>2, <2>7
    <2>13. t.heap = u /\ t.at = c /\ Len(u) = L
        BY <2>3
    <2> HIDE DEF t
    <2>14. Sinking(t, size, n + 1)
        BY <2>10, <2>11, <2>12, <2>13 DEF Sinking
    <2> QED
        BY <2>2, <2>14
  <1> QED
      BY <1>2, <1>3

\* up permutes, and puts a heap in order that was but for its last queue.
LEMMA UpRight ==
    ASSUME NEW h \in Seq(Items), h # <<>>, NEW size
    PROVE  /\ Permuted(h, Up(h, size))
           /\ /\ size \in [Items -> Nat]
              /\ \A j \in 2..Len(h) : j # Len(h) => size[h[j \div 2]] <= size[h[j]]
              => Ordered(Up(h, size), size)
  <1> DEFINE L == Len(h)
  <1>1. L \in Nat \ {0}
      OBVIOUS
  <1>2. PICK v \in [0..L -> Spots(L)] :
          /\ v[0] = [heap |-> h, at |-> L]
          /\ \A i \in 1..L : v[i] = Risen(v[i - 1], size)
          /\ Up(h, size) = v[L].heap
      BY UpSteps
  <1>3. \A i \in 0..(L - 1) : v[i] \in Spots(L) /\ v[i + 1] = Risen(v[i], size)
    <2> SUFFICES ASSUME NEW i \in 0..(L - 1)
                 PROVE  v[i] \in Spots(L) /\ v[i + 1] = Risen(v[i], size)
        OBVIOUS
    <2>1. i + 1 \in 1..L /\ (i + 1) - 1 = i /\ i \in 0..L
        BY <1>1
    <2> QED
        BY <1>2, <2>1
  <1> HIDE DEF L
  <1>4. Permuted(h, v[L].heap)
    <2> DEFINE T == {i \in 0..L : Permuted(h, v[i].heap)}
    <2>1. 0 \in T
        BY <1>1, <1>2 DEF Permuted, L
    <2>2. ASSUME NEW i \in 0..(L - 1), i \in T PROVE i + 1 \in T
      <3>1. Permuted(h, v[i].heap) /\ Permuted(v[i].heap, v[i + 1].heap)
          BY <1>1, <1>3, <2>2, RisenSunk
      <3> QED
          BY <1>1, <3>1, PermutedAgain
    <2> HIDE DEF T
    <2>3. \A i \in 0..L : i \in T
        BY <1>1, <2>1, <2>2, StepByStep
    <2> QED
        BY <1>1, <2>3 DEF T
  <1>5. ASSUME size \in [Items -> Nat],
               \A j \in 2..L : j # L => size[h[j \div 2]] <= size[h[j]]
        PROVE  Ordered(v[L].heap, size)
    <2> DEFINE T == {i \in 0..L : Rising(v[i], size, i)}
    <2>1. 0 \in T
      <3>1. \A j \in 2..L : j \div 2 # L
          BY <1>1, Parents DEF L
      <3>2. v[0].heap = h /\ v[0].at = L /\ Len(h) = L
          BY <1>2 DEF L
      <3>3. Rising(v[0], size, 0)
          BY <1>1, <1>5, <3>1, <3>2 DEF Rising
      <3> QED
          BY <1>1, <3>3
    <2>2. ASSUME NEW i \in 0..(L - 1), i \in T PROVE i + 1 \in T
        BY <1>1, <1>3, <1>5, <2>2, RisingStep
    <2> HIDE DEF T
    <2>3. \A i \in 0..L : i \in T
        BY <1>1, <2>1, <2>2, StepByStep
    <2>4. Rising(v[L], size, L)
        BY <1>1, <2>3 DEF T
    <2> DEFINE g == v[L].heap
               a == v[L].at
    <2>5. v[L] \in Spots(L)
        BY <1>1, <1>2
    <2>6. g \in Seq(Items) /\ Len(g) = L /\ a \in 1..L
        BY <2>5 DEF Spots
    <2>7. ~Rises(v[L], size)
        BY <1>1, <2>4, <2>6 DEF Rising
    <2>8. ASSUME NEW j \in 2..L PROVE size[g[j \div 2]] <= size[g[j]]
      <3>1. CASE j # a
          BY <2>4, <2>6, <3>1 DEF Rising
      <3>2. CASE j = a
        <4>1. ~(size[g[a]] < size[g[a \div 2]])
            BY <2>6, <2>7, <3>2 DEF Rises, Less
        <4>2. size[g[a]] \in Nat /\ size[g[a \div 2]] \in Nat
            BY <1>5, <2>6, <3>2, Parents
        <4> QED
            BY <3>2, <4>1, <4>2
      <3> QED
          BY <3>1, <3>2
    <2> QED
        BY <2>6, <2>8 DEF Ordered
  <1> QED
      BY <1>2, <1>4, <1>5 DEF L

\* down has nothing to do in an empty heap.
LEMMA DownEmpty == \A size : Down(<<>>, size) = <<>>
  <1> SUFFICES ASSUME NEW size PROVE Down(<<>>, size) = <<>>
      OBVIOUS
  <1> DEFINE start == [heap |-> <<>>, at |-> 1]
             F(v) == [n \in 0..Len(<<>>) |->
                       IF n = 0 THEN start
                       ELSE LET s == v[n - 1]
                                child == LesserChild(s.heap, s.at, size)
                            IN IF 2 * s.at <= Len(<<>>) /\ Less(s.heap[child], s.heap[s.at], size)
                                 THEN [heap |-> Swap(s.heap, s.at, child), at |-> child]
                                 ELSE s]
             sink == CHOOSE v : v = F(v)
  <1>1. Down(<<>>, size) = sink[Len(<<>>)].heap
      BY Zenon DEF Down
  <1>2. Len(<<>>) = 0 /\ 0..0 = {0}
      OBVIOUS
  <1>3. \A v : F(v) = [n \in 0..0 |-> start]
      BY <1>2
  <1> HIDE DEF F
  <1>4. \E v : v = F(v)
      BY <1>3
  <1>5. sink = F(sink)
      BY <1>4
  <1> HIDE DEF sink
  <1>6. sink[0] = start
      BY <1>2, <1>3, <1>5
  <1> QED
      BY <1>1, <1>2, <1>6

\* down permutes, and puts a heap in order that was but for its top.
LEMMA DownRight ==
    ASSUME NEW h \in Seq(Items), NEW size
    PROVE  /\ Permuted(h, Down(h, size))
           /\ /\ size \in [Items -> Nat]
              /\ \A j \in 2..Len(h) : j \div 2 # 1 => size[h[j \div 2]] <= size[h[j]]
              => Ordered(Down(h, size), size)
  <1>1. CASE h = <<>>
    <2>1. Down(h, size) = h /\ Len(h) = 0
        BY <1>1, DownEmpty
    <2> QED
        BY <2>1 DEF Permuted, Ordered
  <1>2. CASE h # <<>>
    <2> DEFINE L == Len(h)
    <2>1. L \in Nat \ {0}
        BY <1>2
    <2>2. PICK v \in [0..L -> Spots(L)] :
            /\ v[0] = [heap |-> h, at |-> 1]
            /\ \A i \in 1..L : v[i] = Sunk(v[i - 1], size)
            /\ Down(h, size) = v[L].heap
        BY <1>2, DownSteps
    <2>3. \A i \in 0..(L - 1) : v[i] \in Spots(L) /\ v[i + 1] = Sunk(v[i], size)
      <3> SUFFICES ASSUME NEW i \in 0..(L - 1)
                   PROVE  v[i] \in Spots(L) /\ v[i + 1] = Sunk(v[i], size)
          OBVIOUS
      <3>1. i + 1 \in 1..L /\ (i + 1) - 1 = i /\ i \in 0..L
          BY <2>1
      <3> QED
          BY <2>2, <3>1
    <2> HIDE DEF L
    <2>4. Permuted(h, v[L].heap)
      <3> DEFINE T == {i \in 0..L : Permuted(h, v[i].heap)}
      <3>1. 0 \in T
          BY <2>1, <2>2 DEF Permuted, L
      <3>2. ASSUME NEW i \in 0..(L - 1), i \in T PROVE i + 1 \in T
        <4>1. Permuted(h, v[i].heap) /\ Permuted(v[i].heap, v[i + 1].heap)
            BY <2>1, <2>3, <3>2, RisenSunk
        <4> QED
            BY <2>1, <4>1, PermutedAgain
      <3> HIDE DEF T
      <3>3. \A i \in 0..L : i \in T
          BY <2>1, <3>1, <3>2, StepByStep
      <3> QED
          BY <2>1, <3>3 DEF T
    <2>5. ASSUME size \in [Items -> Nat],
                 \A j \in 2..L : j \div 2 # 1 => size[h[j \div 2]] <= size[h[j]]
          PROVE  Ordered(v[L].heap, size)
      <3> DEFINE T == {i \in 0..L : Sinking(v[i], size, i)}
      <3>1. 0 \in T
        <4>1. v[0].heap = h /\ v[0].at = 1 /\ Len(h) = L
            BY <2>2 DEF L
        <4>2. Sinking(v[0], size, 0)
            BY <2>5, <4>1 DEF Sinking
        <4> QED
            BY <2>1, <4>2
      <3>2. ASSUME NEW i \in 0..(L - 1), i \in T PROVE i + 1 \in T
          BY <2>1, <2>3, <2>5, <3>2, SinkingStep
      <3> HIDE DEF T
      <3>3. \A i \in 0..L : i \in T
          BY <2>1, <3>1, <3>2, StepByStep
      <3>4. Sinking(v[L], size, L) /\ v[L] \in Spots(L)
          BY <2>1, <2>2, <3>3 DEF T
      <3> DEFINE g == v[L].heap
                 a == v[L].at
                 c == LesserChild(g, a, size)
      <3>5. g \in Seq(Items) /\ Len(g) = L /\ a \in 1..L
          BY <3>4 DEF Spots
      <3>6. ~Sinks(v[L], size)
          BY <2>1, <3>4, <3>5 DEF Sinking
      <3>7. ASSUME NEW j \in 2..L PROVE size[g[j \div 2]] <= size[g[j]]
        <4>1. CASE j \div 2 # a
            BY <3>4, <3>5, <4>1 DEF Sinking
        <4>2. CASE j \div 2 = a
          <5>1. (j = 2 * a \/ j = 2 * a + 1) /\ 2 * a <= L
              BY <2>1, <3>5, <4>2, Halves
          <5>2. ~(size[g[c]] < size[g[a]])
              BY <3>5, <3>6, <5>1 DEF Sinks, Less
          <5>3. c \in 1..L /\ 2 * a \in 1..L
              BY <2>1, <3>4, <5>1, Neighbours
          <5>4. /\ size[g[c]] \in Nat /\ size[g[a]] \in Nat /\ size[g[j]] \in Nat
                /\ size[g[2 * a]] \in Nat
            <6>1. \A i \in 1..L : size[g[i]] \in Nat
                BY <2>5, <3>5, Parents
            <6>2. j \in 1..L
                BY <2>1
            <6> QED
                BY <3>5, <5>3, <6>1, <6>2
          <5>5. c = IF 2 * a < L /\ size[g[2 * a + 1]] < size[g[2 * a]] THEN 2 * a + 1 ELSE 2 * a
              BY <3>5 DEF LesserChild, Less
          <5> HIDE DEF c, g, a
          <5>6. size[g[c]] <= size[g[j]]
              BY <2>1, <5>1, <5>4, <5>5
          <5> QED
              BY <4>2, <5>2, <5>4, <5>6
        <4> QED
            BY <4>1, <4>2
      <3> QED
          BY <3>5, <3>7 DEF Ordered
    <2> QED
        BY <2>2, <2>4, <2>5 DEF L
  <1> QED
      BY <1>1, <1>2

\* The top of a heap is the shortest queue in it.
LEMMA TopLeast ==
    ASSUME NEW h \in Seq(Items), NEW size \in [Items -> Nat], Ordered(h, size)
    PROVE  \A j \in 1..Len(h) : size[h[1]] <= size[h[j]]
  <1> DEFINE R == {j \in 1..Len(h) : ~(size[h[1]] <= size[h[j]])}
  <1> SUFFICES ASSUME R # {} PROVE FALSE
      OBVIOUS
  <1>1. Len(h) \in Nat /\ \A j \in 1..Len(h) : size[h[j]] \in Nat
      BY Parents
  <1>2. PICK j \in R : \A i \in R : j <= i
    <2>1. R \subseteq Nat
        BY <1>1
    <2> HIDE DEF R
    <2> QED
        BY <2>1, LeastNatural
  <1>3. j \in 1..Len(h) /\ ~(size[h[1]] <= size[h[j]])
      OBVIOUS
  <1>4. j \in 2..Len(h)
      BY <1>1, <1>3
  <1>5. j \div 2 \in 1..Len(h) /\ j \div 2 < j
      BY <1>4, Parents
  <1>6. size[h[1]] <= size[h[j \div 2]]
      BY <1>1, <1>2, <1>5
  <1>7. size[h[j \div 2]] <= size[h[j]]
      BY <1>4 DEF Ordered
  <1>8. 1 \in 1..Len(h)
      BY <1>1, <1>3
  <1> QED
      BY <1>1, <1>3, <1>5, <1>6, <1>7, <1>8

\* Push adds one queue.
LEMMA PushRight ==
    ASSUME NEW h \in Seq(Items), NEW x \in Items, NEW size
    PROVE  /\ Push(h, x, size) \in Seq(Items)
           /\ Len(Push(h, x, size)) = Len(h) + 1
           /\ Listed(Push(h, x, size)) = Listed(h) \cup {x}
           /\ Distinct(h) /\ x \notin Listed(h) => Distinct(Push(h, x, size))
           /\ size \in [Items -> Nat] /\ Ordered(h, size) => Ordered(Push(h, x, size), size)
  <1> DEFINE m == Append(h, x)
             L == Len(h)
  <1>1. /\ L \in Nat /\ m \in Seq(Items) /\ Len(m) = L + 1 /\ m # <<>>
        /\ \A j \in 1..L : m[j] = h[j]
        /\ m[L + 1] = x
        /\ DOMAIN m = 1..(L + 1) /\ DOMAIN h = 1..L
      OBVIOUS
  <1> HIDE DEF m, L
  <1>2. Listed(m) = Listed(h) \cup {x}
    <2>1. \A y : y \in Listed(m) <=> \E j \in 1..(L + 1) : y = m[j]
        BY <1>1 DEF Listed
    <2>2. \A y : y \in Listed(h) <=> \E j \in 1..L : y = h[j]
        BY <1>1 DEF Listed
    <2>3. \A j \in 1..(L + 1) : j \in 1..L \/ j = L + 1
        BY <1>1
    <2>4. \A j \in 1..L : j \in 1..(L + 1)
        BY <1>1
    <2>5. L + 1 \in 1..(L + 1)
        BY <1>1
    <2>6. \A y : y \in Listed(m) => y \in Listed(h) \cup {x}
        BY <1>1, <2>1, <2>2, <2>3
    <2>7. \A y : y \in Listed(h) \cup {x} => y \in Listed(m)
        BY <1>1, <2>1, <2>2, <2>4, <2>5
    <2> QED
        BY <2>6, <2>7
  <1>3. ASSUME Distinct(h), x \notin Listed(h) PROVE Distinct(m)
    <2>1. \A j \in 1..L : h[j] # x
        BY <1>1, <1>3 DEF Listed
    <2>2. \A i, j \in 1..L : h[i] = h[j] => i = j
        BY <1>3 DEF Distinct, L
    <2>3. ASSUME NEW i \in 1..(L + 1), NEW j \in 1..(L + 1), m[i] = m[j] PROVE i = j
      <3>1. (i \in 1..L \/ i = L + 1) /\ (j \in 1..L \/ j = L + 1)
          BY <1>1
      <3> QED
          BY <1>1, <2>1, <2>2, <2>3, <3>1
    <2> QED
        BY <1>1, <2>3 DEF Distinct
  <1>4. Permuted(m, Up(m, size)) /\ Push(h, x, size) = Up(m, size)
      BY <1>1, UpRight DEF Push, m
  <1>5. ASSUME size \in [Items -> Nat], Ordered(h, size)
        PROVE  Ordered(Up(m, size), size)
    <2>1. ASSUME NEW j \in 2..Len(m), j # Len(m)
          PROVE  size[m[j \div 2]] <= size[m[j]]
      <3>1. j \in 2..L
          BY <1>1, <2>1
      <3>2. j \div 2 \in 1..L
          BY <3>1, Parents DEF L
      <3>3. size[h[j \div 2]] <= size[h[j]]
          BY <1>5, <3>1 DEF Ordered, L
      <3>4. m[j] = h[j] /\ m[j \div 2] = h[j \div 2]
          BY <1>1, <3>1, <3>2
      <3> QED
          BY <3>3, <3>4
    <2> QED
        BY <1>1, <1>5, <2>1, UpRight
  <1>6. Up(m, size) \in Seq(Items) /\ Len(Up(m, size)) = L + 1
        /\ Listed(Up(m, size)) = Listed(m) /\ (Distinct(m) => Distinct(Up(m, size)))
      BY <1>1, <1>4 DEF Permuted
  <1> QED
      BY <1>2, <1>3, <1>4, <1>5, <1>6 DEF L

\* Pop takes the top away.
LEMMA PoppedRight ==
    ASSUME NEW h \in Seq(Items), h # <<>>, NEW size
    PROVE  /\ Popped(h, size) \in Seq(Items)
           /\ Len(Popped(h, size)) = Len(h) - 1
           /\ Distinct(h) => Distinct(Popped(h, size)) /\ Listed(Popped(h, size)) = Listed(h) \ {h[1]}
           /\ size \in [Items -> Nat] /\ Ordered(h, size) => Ordered(Popped(h, size), size)
  <1> DEFINE L == Len(h)
             s == Swap(h, 1, L)
             m == SubSeq(s, 1, L - 1)
  <1>1. L \in Nat \ {0} /\ 1 \in 1..L /\ L \in 1..L /\ DOMAIN h = 1..L
      OBVIOUS
  <1>2. /\ s \in Seq(Items) /\ Len(s) = L /\ s[1] = h[L] /\ s[L] = h[1]
        /\ \A j \in 1..L : j # 1 /\ j # L => s[j] = h[j]
      BY <1>1, SwapPlaces
  <1> HIDE DEF s, L
  <1>3. /\ m \in Seq(Items) /\ Len(m) = L - 1 /\ DOMAIN m = 1..(L - 1)
        /\ \A j \in 1..(L - 1) : m[j] = s[j]
      BY <1>1, <1>2
  <1> HIDE DEF m
  <1>4. \A j \in 1..(L - 1) : j \in 1..L /\ j # L /\ m[j] = IF j = 1 THEN h[L] ELSE h[j]
      BY <1>1, <1>2, <1>3
  <1>5. ASSUME Distinct(h) PROVE Distinct(m) /\ Listed(m) = Listed(h) \ {h[1]}
    <2>1. \A i, j \in 1..L : h[i] = h[j] => i = j
        BY <1>5 DEF Distinct, L
    <2>2. ASSUME NEW i \in 1..(L - 1), NEW j \in 1..(L - 1), m[i] = m[j] PROVE i = j
        BY <1>1, <1>4, <2>1, <2>2
    <2>3. \A y : y \in Listed(m) <=> \E j \in 1..(L - 1) : y = m[j]
        BY <1>3 DEF Listed
    <2>4. \A y : y \in Listed(h) <=> \E j \in 1..L : y = h[j]
        BY <1>1 DEF Listed
    <2>5. ASSUME NEW y \in Listed(m) PROVE y \in Listed(h) \ {h[1]}
      <3>1. PICK j \in 1..(L - 1) : y = m[j]
          BY <2>3
      <3>2. \E i \in 1..L : i # 1 /\ y = h[i]
        <4>1. CASE j = 1
          <5>1. L # 1 /\ y = h[L]
              BY <1>1, <1>4, <3>1, <4>1
          <5> QED
              BY <1>1, <5>1
        <4>2. CASE j # 1
            BY <1>4, <3>1, <4>2
        <4> QED
            BY <4>1, <4>2
      <3> QED
          BY <1>1, <2>1, <2>4, <3>2
    <2>6. ASSUME NEW y \in Listed(h) \ {h[1]} PROVE y \in Listed(m)
      <3>1. PICK j \in 1..L : y = h[j] /\ j # 1
          BY <2>4
      <3>2. CASE j = L
        <4>1. 1 \in 1..(L - 1)
            BY <1>1, <3>1, <3>2
        <4>2. m[1] = y
            BY <1>4, <3>1, <3>2, <4>1
        <4> QED
            BY <2>3, <4>1, <4>2
      <3>3. CASE j # L
        <4>1. j \in 1..(L - 1)
            BY <1>1, <3>1, <3>3
        <4> QED
            BY <1>4, <2>3, <3>1, <4>1
      <3> QED
          BY <3>2, <3>3
    <2>7. Listed(m) = Listed(h) \ {h[1]}
        BY <2>5, <2>6
    <2> QED
        BY <1>3, <2>2, <2>7 DEF Distinct
  <1>6. Permuted(m, Down(m, size)) /\ Popped(h, size) = Down(m, size)
      BY <1>3, DownRight DEF Popped, m, s, L
  <1>7. ASSUME size \in [Items -> Nat], Ordered(h, size)
        PROVE  Ordered(Down(m, size), size)
    <2>1. ASSUME NEW j \in 2..Len(m), j \div 2 # 1
          PROVE  size[m[j \div 2]] <= size[m[j]]
      <3>1. j \in 2..L /\ j \in 1..(L - 1) /\ j # 1
          BY <1>1, <1>3
      <3>2. j \div 2 \in 1..(L - 1)
          BY <1>1, <3>1, Halves
      <3>3. size[h[j \div 2]] <= size[h[j]]
          BY <1>7, <3>1 DEF Ordered, L
      <3>4. m[j] = h[j] /\ m[j \div 2] = h[j \div 2]
          BY <1>4, <2>1, <3>1, <3>2
      <3> QED
          BY <3>3, <3>4
    <2> QED
        BY <1>3, <1>7, <2>1, DownRight
  <1>8. /\ Down(m, size) \in Seq(Items) /\ Len(Down(m, size)) = L - 1
        /\ Listed(Down(m, size)) = Listed(m) /\ (Distinct(m) => Distinct(Down(m, size)))
      BY <1>3, <1>6 DEF Permuted
  <1> QED
      BY <1>5, <1>6, <1>7, <1>8 DEF L

\* A queue taken into a heap of at most k: the shortest goes when there are too many.
LEMMA TakenRight ==
    ASSUME NEW k \in Nat \ {0}, NEW h \in Seq(Items), Len(h) <= k, NEW x \in Items, NEW size
    PROVE  /\ Taken(h, x, k, size) \in Seq(Items)
           /\ Len(Taken(h, x, k, size)) = IF Len(h) < k THEN Len(h) + 1 ELSE k
           /\ Distinct(h) /\ x \notin Listed(h) =>
                /\ Distinct(Taken(h, x, k, size))
                /\ Listed(Taken(h, x, k, size)) \subseteq Listed(h) \cup {x}
                /\ Len(h) < k => Listed(Taken(h, x, k, size)) = Listed(h) \cup {x}
                /\ size \in [Items -> Nat] /\ Ordered(h, size) =>
                     /\ Ordered(Taken(h, x, k, size), size)
                     /\ Len(h) = k => \E y \in Listed(h) \cup {x} :
                          /\ Listed(Taken(h, x, k, size)) = (Listed(h) \cup {x}) \ {y}
                          /\ \A z \in Listed(h) \cup {x} : size[y] <= size[z]
  <1> DEFINE p == Push(h, x, size)
             t == Taken(h, x, k, size)
  <1>1. /\ p \in Seq(Items) /\ Len(p) = Len(h) + 1 /\ Listed(p) = Listed(h) \cup {x}
        /\ Distinct(h) /\ x \notin Listed(h) => Distinct(p)
        /\ size \in [Items -> Nat] /\ Ordered(h, size) => Ordered(p, size)
      BY PushRight
  <1>2. Len(h) \in Nat /\ t = IF Len(p) > k THEN Popped(p, size) ELSE p
      BY DEF Taken
  <1> HIDE DEF p, t
  <1>3. CASE Len(h) < k
    <2>1. t = p
        BY <1>1, <1>2, <1>3
    <2> QED
        BY <1>1, <1>2, <1>3, <2>1 DEF t
  <1>4. CASE Len(h) = k
    <2>1. t = Popped(p, size) /\ p # <<>> /\ Len(p) = k + 1
        BY <1>1, <1>2, <1>4
    <2>2. /\ t \in Seq(Items) /\ Len(t) = Len(p) - 1
          /\ Distinct(p) => Distinct(t) /\ Listed(t) = Listed(p) \ {p[1]}
          /\ size \in [Items -> Nat] /\ Ordered(p, size) => Ordered(t, size)
        BY <1>1, <2>1, PoppedRight
    <2>3. p[1] \in Listed(p)
        BY <1>1, <2>1 DEF Listed
    <2>4. ASSUME size \in [Items -> Nat], Ordered(p, size)
          PROVE  \A z \in Listed(p) : size[p[1]] <= size[z]
      <3>1. \A j \in 1..Len(p) : size[p[1]] <= size[p[j]]
          BY <1>1, <2>4, TopLeast
      <3> QED
          BY <1>1, <3>1 DEF Listed
    <2>5. t \in Seq(Items) /\ Len(t) = k
        BY <1>1, <2>1, <2>2
    <2>6. ASSUME Distinct(h), x \notin Listed(h)
          PROVE  Distinct(t) /\ Listed(t) = (Listed(h) \cup {x}) \ {p[1]}
        BY <1>1, <2>2, <2>6
    <2>7. ASSUME size \in [Items -> Nat], Ordered(h, size)
          PROVE  Ordered(t, size) /\ \A z \in Listed(h) \cup {x} : size[p[1]] <= size[z]
        BY <1>1, <2>2, <2>4, <2>7
    <2>8. p[1] \in Listed(h) \cup {x}
        BY <1>1, <2>3
    <2>9. ~(Len(h) < k)
        BY <1>2, <1>4
    <2> HIDE <1>1, <1>2
    <2> QED
        BY <1>4, <2>5, <2>6, <2>7, <2>8, <2>9 DEF t
  <1> QED
      BY <1>2, <1>3, <1>4

\* A heap of at most k stays one.
LEMMA TakenHeap ==
    ASSUME NEW k \in Nat \ {0}, NEW h, h \in Seq(Items), Len(h) <= k, NEW x, x \in Items, NEW size
    PROVE  Taken(h, x, k, size) \in {g \in Seq(Items) : Len(g) <= k}
  <1>1. Taken(h, x, k, size) \in Seq(Items)
      BY TakenRight
  <1>2. Len(Taken(h, x, k, size)) = IF Len(h) < k THEN Len(h) + 1 ELSE k
      BY TakenRight
  <1>3. Len(h) \in Nat
      OBVIOUS
  <1> QED
      BY <1>1, <1>2, <1>3

\* Popping an empty heap, which topNQueues never does.
LEMMA PoppedEmpty == \A size : Popped(<<>>, size) \in Seq(Items)
  <1>1. SubSeq(Swap(<<>>, 1, Len(<<>>)), 1, Len(<<>>) - 1) = <<>>
      OBVIOUS
  <1>2. <<>> \in Seq(Items)
      OBVIOUS
  <1> QED
      BY <1>1, <1>2, DownEmpty DEF Popped

\* The heaps that topNQueues goes through: as the map's queues come, and as it is
\* emptied.
Built(k, before, after, n) ==
    CHOOSE v : v = [i \in 0..maxIdx |->
                      IF i = 0 THEN <<>>
                      ELSE Taken(v[i - 1], items[i - 1], k, IF i <= n THEN before ELSE after)]
Left(full, size) ==
    CHOOSE v : v = [i \in 0..Len(full) |-> IF i = 0 THEN full ELSE Popped(v[i - 1], size)]

\* The view in terms of these.
LEMMA ViewIs ==
    ASSUME NEW k, NEW before, NEW after, NEW n
    PROVE  LET full == Built(k, before, after, n)[maxIdx]
           IN TopNQueues(k, before, after, n) =
                [i \in DOMAIN full |-> Top(Left(full, after)[Len(full) - i])]
BY Zenon DEF TopNQueues, Built, Left

\* The items of the slice are queues, and no two places hold the same one.
LEMMA ItemsApart ==
    ASSUME TypeOK, Dense
    PROVE  /\ maxIdx \in Nat
           /\ \A i \in 0..(maxIdx - 1) : items[i] \in Items
           /\ \A i, j \in 0..(maxIdx - 1) : items[i] = items[j] => i = j
BY DEF TypeOK, Dense

\* The heap after each queue of the map.
LEMMA BuiltSteps ==
    ASSUME TypeOK, Dense, NEW k \in Nat \ {0}, NEW before, NEW after, NEW n
    PROVE  LET v == Built(k, before, after, n)
           IN /\ v[0] = <<>>
              /\ \A i \in 0..maxIdx : v[i] \in Seq(Items) /\ Len(v[i]) <= k
              /\ \A i \in 1..maxIdx :
                   v[i] = Taken(v[i - 1], items[i - 1], k, IF i <= n THEN before ELSE after)
  <1> DEFINE size(i) == IF i <= n THEN before ELSE after
             F(v) == [i \in 0..maxIdx |->
                        IF i = 0 THEN <<>> ELSE Taken(v[i - 1], items[i - 1], k, size(i))]
             v == Built(k, before, after, n)
             S == {h \in Seq(Items) : Len(h) <= k}
  <1>1. v = CHOOSE u : u = F(u)
      BY Zenon DEF Built
  <1>2. maxIdx \in Nat /\ \A i \in 1..maxIdx : items[i - 1] \in Items
      BY ItemsApart
  <1>3. ASSUME NEW i \in 1..maxIdx, NEW h \in S PROVE Taken(h, items[i - 1], k, size(i)) \in S
    <2>1. items[i - 1] \in Items /\ h \in Seq(Items) /\ Len(h) <= k /\ Len(h) \in Nat
        BY <1>2
    <2> HIDE DEF size
    <2> QED
        BY <2>1, TakenHeap
  <1>4. <<>> \in S
      OBVIOUS
  <1>5. \A u : F(u) = [i \in 0..maxIdx |->
                         IF i = 0 THEN <<>> ELSE Taken(u[i - 1], items[i - 1], k, size(i))]
      OBVIOUS
  <1> HIDE DEF v, F, S, size
  <1>6. \E u : u = F(u)
    <2> DEFINE g == [p \in (1..maxIdx) \X S |-> Taken(p[2], items[p[1] - 1], k, size(p[1]))]
    <2>1. g \in [(1..maxIdx) \X S -> S]
        BY <1>3
    <2>2. \A i \in 1..maxIdx, h \in S : g[<<i, h>>] = Taken(h, items[i - 1], k, size(i))
        OBVIOUS
    <2> HIDE DEF g
    <2>3. PICK u : Recurs(u, maxIdx, S, <<>>, g)
        BY <1>2, <1>4, <2>1, Recursion
    <2>4. ASSUME NEW i \in 1..maxIdx PROVE u[i] = Taken(u[i - 1], items[i - 1], k, size(i))
      <3>1. u[i - 1] \in S
          BY <1>2, <2>3 DEF Recurs
      <3> QED
          BY <2>2, <2>3, <3>1 DEF Recurs
    <2>5. u = [i \in 0..maxIdx |->
                 IF i = 0 THEN <<>> ELSE Taken(u[i - 1], items[i - 1], k, size(i))]
        BY <1>2, <2>3, <2>4 DEF Recurs
    <2> QED
        BY <1>5, <2>5
  <1>7. v = F(v)
      BY <1>1, <1>6
  <1>8. v = [i \in 0..maxIdx |->
               IF i = 0 THEN <<>> ELSE Taken(v[i - 1], items[i - 1], k, size(i))]
      BY <1>5, <1>7
  <1>9. v[0] = <<>> /\ \A i \in 1..maxIdx : v[i] = Taken(v[i - 1], items[i - 1], k, size(i))
      BY <1>2, <1>8
  <1>10. \A i \in 0..maxIdx : v[i] \in S
    <2> DEFINE T == {i \in 0..maxIdx : v[i] \in S}
    <2>1. 0 \in T
        BY <1>2, <1>4, <1>9
    <2>2. ASSUME NEW i \in 0..(maxIdx - 1), i \in T PROVE i + 1 \in T
      <3>1. i + 1 \in 1..maxIdx /\ (i + 1) - 1 = i /\ v[i] \in S /\ i + 1 \in 0..maxIdx
          BY <1>2, <2>2
      <3>2. v[i + 1] = Taken(v[(i + 1) - 1], items[(i + 1) - 1], k, size(i + 1))
          BY <1>9, <3>1
      <3>3. Taken(v[i], items[(i + 1) - 1], k, size(i + 1)) \in S
          BY <1>3, <3>1
      <3> QED
          BY <3>1, <3>2, <3>3
    <2> HIDE DEF T
    <2>3. \A i \in 0..maxIdx : i \in T
        BY <1>2, <2>1, <2>2, StepByStep
    <2> QED
        BY <2>3 DEF T
  <1> QED
      BY <1>9, <1>10 DEF v, S, size


\* Popping leaves a heap a heap.
LEMMA PoppedHeap ==
    ASSUME NEW h, h \in Seq(Items), NEW size
    PROVE  Popped(h, size) \in Seq(Items)
  <1>1. CASE h = <<>>
      BY <1>1, PoppedEmpty
  <1>2. CASE h # <<>>
      BY <1>2, PoppedRight
  <1> QED
      BY <1>1, <1>2

\* The heap as it is emptied, one queue at a time.
LEMMA LeftSteps ==
    ASSUME NEW full, full \in Seq(Items), NEW size
    PROVE  LET v == Left(full, size)
           IN /\ v[0] = full
              /\ \A i \in 0..Len(full) : v[i] \in Seq(Items) /\ Len(v[i]) = Len(full) - i
              /\ \A i \in 1..Len(full) : v[i] = Popped(v[i - 1], size)
  <1> DEFINE L == Len(full)
             F(v) == [i \in 0..L |-> IF i = 0 THEN full ELSE Popped(v[i - 1], size)]
             v == Left(full, size)
             S == Seq(Items)
  <1>1. v = CHOOSE u : u = F(u)
      BY Zenon DEF Left
  <1>2. L \in Nat
      OBVIOUS
  <1>3. ASSUME NEW h \in S PROVE Popped(h, size) \in S
      BY <1>3, PoppedHeap
  <1>4. full \in S
      OBVIOUS
  <1>5. \A u : F(u) = [i \in 0..L |-> IF i = 0 THEN full ELSE Popped(u[i - 1], size)]
      OBVIOUS
  <1> HIDE DEF v, F, S, L
  <1>6. \E u : u = F(u)
    <2> DEFINE g == [p \in (1..L) \X S |-> Popped(p[2], size)]
    <2>1. g \in [(1..L) \X S -> S]
        BY <1>3
    <2>2. \A i \in 1..L, h \in S : g[<<i, h>>] = Popped(h, size)
        OBVIOUS
    <2> HIDE DEF g
    <2>3. PICK u : Recurs(u, L, S, full, g)
        BY <1>2, <1>4, <2>1, Recursion
    <2>4. ASSUME NEW i \in 1..L PROVE u[i] = Popped(u[i - 1], size)
      <3>1. u[i - 1] \in S
          BY <1>2, <2>3 DEF Recurs
      <3> QED
          BY <2>2, <2>3, <3>1 DEF Recurs
    <2>5. u = [i \in 0..L |-> IF i = 0 THEN full ELSE Popped(u[i - 1], size)]
        BY <1>2, <2>3, <2>4 DEF Recurs
    <2> QED
        BY <1>5, <2>5
  <1>7. v = F(v)
      BY <1>1, <1>6
  <1>8. v = [i \in 0..L |-> IF i = 0 THEN full ELSE Popped(v[i - 1], size)]
      BY <1>5, <1>7
  <1>9. v[0] = full /\ \A i \in 1..L : v[i] = Popped(v[i - 1], size)
      BY <1>2, <1>8
  <1>10. \A i \in 0..L : v[i] \in Seq(Items) /\ Len(v[i]) = L - i
    <2> DEFINE T == {i \in 0..L : v[i] \in Seq(Items) /\ Len(v[i]) = L - i}
    <2>1. 0 \in T
      <3>1. v[0] \in Seq(Items) /\ Len(v[0]) = L - 0
          BY <1>2, <1>9 DEF L
      <3> QED
          BY <1>2, <3>1
    <2>2. ASSUME NEW i \in 0..(L - 1), i \in T PROVE i + 1 \in T
      <3>1. i + 1 \in 1..L /\ (i + 1) - 1 = i /\ i + 1 \in 0..L
          BY <1>2
      <3>2. v[i] \in Seq(Items) /\ Len(v[i]) = L - i
          BY <2>2
      <3>3. v[i] # <<>>
          BY <1>2, <3>2
      <3>4. Popped(v[i], size) \in Seq(Items) /\ Len(Popped(v[i], size)) = Len(v[i]) - 1
          BY <3>2, <3>3, PoppedRight
      <3>5. v[i + 1] = Popped(v[i], size)
          BY <1>9, <3>1
      <3>6. Len(v[i + 1]) = L - (i + 1)
          BY <1>2, <3>1, <3>2, <3>4, <3>5
      <3> QED
          BY <3>1, <3>4, <3>5, <3>6
    <2> HIDE DEF T
    <2>3. \A i \in 0..L : i \in T
        BY <1>2, <2>1, <2>2, StepByStep
    <2> QED
        BY <2>3 DEF T
  <1> QED
      BY <1>9, <1>10 DEF v, S, L


\* A heap of different queues, emptied: every queue once, and in order if it is a heap.
LEMMA Emptied ==
    ASSUME NEW full, full \in Seq(Items), Distinct(full), NEW size
    PROVE  LET v == Left(full, size)
               L == Len(full)
           IN /\ \A i \in 0..(L - 1) : v[i][1] \in Listed(full)
              /\ \A y \in Listed(full) : \E i \in 0..(L - 1) : y = v[i][1]
              /\ \A i, j \in 0..(L - 1) : v[i][1] = v[j][1] => i = j
              /\ size \in [Items -> Nat] /\ Ordered(full, size) =>
                   \A i \in 0..(L - 2) : size[v[i][1]] <= size[v[i + 1][1]]
  <1> DEFINE v == Left(full, size)
             L == Len(full)
  <1>1. /\ L \in Nat /\ v[0] = full
        /\ \A i \in 0..L : v[i] \in Seq(Items) /\ Len(v[i]) = L - i
        /\ \A i \in 1..L : v[i] = Popped(v[i - 1], size)
      BY LeftSteps
  <1> HIDE DEF v, L
  <1>2. ASSUME NEW i \in 0..(L - 1)
        PROVE  /\ i \in 0..L /\ i + 1 \in 0..L
               /\ v[i][1] \in Listed(v[i])
               /\ Distinct(v[i]) => /\ Distinct(v[i + 1])
                                    /\ Listed(v[i + 1]) = Listed(v[i]) \ {v[i][1]}
               /\ size \in [Items -> Nat] /\ Ordered(v[i], size) => Ordered(v[i + 1], size)
    <2>1. i \in 0..L /\ i + 1 \in 0..L /\ i + 1 \in 1..L /\ (i + 1) - 1 = i
        BY <1>1
    <2>2. v[i] \in Seq(Items) /\ Len(v[i]) = L - i /\ v[i + 1] = Popped(v[i], size)
        BY <1>1, <2>1
    <2>3. v[i] # <<>> /\ 1 \in DOMAIN v[i]
        BY <1>1, <2>2
    <2>4. v[i][1] \in Listed(v[i])
        BY <2>3 DEF Listed
    <2> QED
        BY <2>1, <2>2, <2>3, <2>4, PoppedRight
  <1>3. \A i \in 0..L : Distinct(v[i])
    <2> DEFINE T == {i \in 0..L : Distinct(v[i])}
    <2>1. 0 \in T
        BY <1>1
    <2>2. ASSUME NEW i \in 0..(L - 1), i \in T PROVE i + 1 \in T
        BY <1>2, <2>2
    <2> HIDE DEF T
    <2>3. \A i \in 0..L : i \in T
        BY <1>1, <2>1, <2>2, StepByStep
    <2> QED
        BY <2>3 DEF T
  <1>4. \A i \in 0..(L - 1) : Listed(v[i + 1]) = Listed(v[i]) \ {v[i][1]}
      BY <1>2, <1>3
  <1>5. \A j \in 0..L : /\ Listed(v[j]) \subseteq Listed(full)
                        /\ \A y \in Listed(full) : y \in Listed(v[j]) \/ \E i \in 0..(j - 1) : y = v[i][1]
                        /\ \A i \in 0..(j - 1) : v[i][1] \notin Listed(v[j])
    <2> DEFINE P(j) == /\ Listed(v[j]) \subseteq Listed(full)
                       /\ \A y \in Listed(full) : y \in Listed(v[j]) \/ \E i \in 0..(j - 1) : y = v[i][1]
                       /\ \A i \in 0..(j - 1) : v[i][1] \notin Listed(v[j])
               T == {j \in 0..L : P(j)}
    <2>1. 0 \in T
        BY <1>1
    <2>2. ASSUME NEW j \in 0..(L - 1), j \in T PROVE j + 1 \in T
      <3> HIDE DEF P
      <3>0. P(j) /\ j + 1 \in 0..L /\ (j + 1) - 1 = j
          BY <1>1, <2>2
      <3> USE DEF P
      <3>1. /\ P(j) /\ j + 1 \in 0..L /\ (j + 1) - 1 = j
            /\ Listed(v[j + 1]) = Listed(v[j]) \ {v[j][1]}
          BY <1>4, <3>0
      <3>2. \A i \in 0..(j - 1) : i \in 0..j
          BY <1>1
      <3>3. \A i \in 0..j : i = j \/ i \in 0..(j - 1)
          BY <1>1
      <3>4. Listed(v[j + 1]) \subseteq Listed(full)
          BY <3>1
      <3>5. \A y \in Listed(full) : y \in Listed(v[j + 1]) \/ \E i \in 0..j : y = v[i][1]
          BY <1>1, <3>1, <3>2
      <3>6. \A i \in 0..j : v[i][1] \notin Listed(v[j + 1])
          BY <3>1, <3>3
      <3> QED
          BY <3>1, <3>4, <3>5, <3>6
    <2> HIDE DEF T
    <2>3. \A j \in 0..L : j \in T
        BY <1>1, <2>1, <2>2, StepByStep
    <2> QED
        BY <2>3 DEF T
  <1>6. \A i \in 0..(L - 1) : v[i][1] \in Listed(full)
      BY <1>2, <1>5
  <1>7. \A y \in Listed(full) : \E i \in 0..(L - 1) : y = v[i][1]
    <2>1. L \in 0..L /\ v[L] \in Seq(Items) /\ Len(v[L]) = 0
        BY <1>1
    <2>2. Listed(v[L]) = {}
        BY <2>1 DEF Listed
    <2> QED
        BY <1>5, <2>1, <2>2
  <1>8. ASSUME NEW i \in 0..(L - 1), NEW j \in 0..(L - 1), i < j PROVE v[i][1] # v[j][1]
    <2>1. j \in 0..L /\ i \in 0..(j - 1)
        BY <1>1, <1>8
    <2> QED
        BY <1>2, <1>5, <2>1
  <1>9. \A i, j \in 0..(L - 1) : v[i][1] = v[j][1] => i = j
      BY <1>1, <1>8
  <1>10. ASSUME size \in [Items -> Nat], Ordered(full, size)
         PROVE  \A i \in 0..(L - 2) : size[v[i][1]] <= size[v[i + 1][1]]
    <2> DEFINE T == {i \in 0..L : Ordered(v[i], size)}
    <2>1. 0 \in T
        BY <1>1, <1>10
    <2>2. ASSUME NEW i \in 0..(L - 1), i \in T PROVE i + 1 \in T
        BY <1>2, <1>10, <2>2
    <2> HIDE DEF T
    <2>3. \A i \in 0..L : i \in T
        BY <1>1, <2>1, <2>2, StepByStep
    <2>4. ASSUME NEW i \in 0..(L - 2) PROVE size[v[i][1]] <= size[v[i + 1][1]]
      <3>1. i \in 0..L /\ i \in 0..(L - 1) /\ i + 1 \in 0..(L - 1)
          BY <1>1
      <3>2. v[i] \in Seq(Items) /\ Ordered(v[i], size)
          BY <1>1, <2>3, <3>1 DEF T
      <3>3. v[i + 1][1] \in Listed(v[i])
          BY <1>2, <1>4, <3>1
      <3>4. \A j \in 1..Len(v[i]) : size[v[i][1]] <= size[v[i][j]]
          BY <1>10, <3>2, TopLeast
      <3>5. PICK j \in 1..Len(v[i]) : v[i + 1][1] = v[i][j]
          BY <3>2, <3>3 DEF Listed
      <3> QED
          BY <3>4, <3>5
    <2> QED
        BY <2>4
  <1> QED
      BY <1>6, <1>7, <1>9, <1>10 DEF v, L


\* The longest of those seen stay when one more is seen and a shortest one goes.
LEMMA KeepLongest ==
    ASSUME NEW size, size \in [Items -> Nat], NEW A, A \subseteq Items, NEW B, B \subseteq Items,
           NEW x, x \in Items, NEW y \in A \cup {x},
           \A z \in A \cup {x} : size[y] <= size[z],
           \A b \in B : b \in A \/ \A a \in A : size[b] <= size[a]
    PROVE  \A b \in B \cup {x} : \/ b \in (A \cup {x}) \ {y}
                                 \/ \A a \in (A \cup {x}) \ {y} : size[b] <= size[a]
  <1>1. \A z \in A \cup B \cup {x} : size[z] \in Nat
      OBVIOUS
  <1>2. ASSUME NEW b \in B \cup {x}, b \notin (A \cup {x}) \ {y},
               NEW a \in (A \cup {x}) \ {y}
        PROVE  size[b] <= size[a]
    <2>1. CASE b = y
        BY <1>2, <2>1
    <2>2. CASE b # y
      <3>1. b \in B /\ b \notin A /\ b # x
          BY <1>2, <2>2
      <3>2. CASE a \in A
          BY <3>1, <3>2
      <3>3. CASE a = x
        <4>1. y \in A
            BY <3>3
        <4>2. size[b] <= size[y] /\ size[y] <= size[a]
            BY <3>1, <3>3, <4>1
        <4> QED
            BY <1>1, <4>2
      <3> QED
          BY <3>2, <3>3
    <2> QED
        BY <2>1, <2>2
  <1> QED
      BY <1>2

\* The first i queues of the map.
First(i) == {items[j] : j \in 0..(i - 1)}

\* The heap h after i queues, whatever their sizes were.
Holds(h, i, k) ==
    /\ Len(h) = Least(k, i)
    /\ Distinct(h)
    /\ Listed(h) \subseteq First(i)
    /\ Len(h) < k => Listed(h) = First(i)

\* The heap h after i queues when the sizes stay as they are.
HoldsLongest(h, i, size) ==
    /\ Ordered(h, size)
    /\ \A x \in First(i) : x \in Listed(h) \/ \A y \in Listed(h) : size[x] <= size[y]

\* One more queue of the map is taken.
LEMMA OneMore ==
    ASSUME TypeOK, Dense, NEW k \in Nat \ {0}, NEW i \in 0..(maxIdx - 1),
           NEW h, h \in Seq(Items), Holds(h, i, k), NEW size
    PROVE  /\ Holds(Taken(h, items[i], k, size), i + 1, k)
           /\ size \in [Items -> Nat] /\ HoldsLongest(h, i, size)
                => HoldsLongest(Taken(h, items[i], k, size), i + 1, size)
  <1> DEFINE x == items[i]
             t == Taken(h, x, k, size)
  <1>1. /\ x \in Items /\ i \in Nat /\ Len(h) \in Nat /\ Len(h) <= k
        /\ Len(h) = Least(k, i)
      BY ItemsApart DEF Holds, Least
  <1>2. x \notin First(i) /\ First(i + 1) = First(i) \cup {x} /\ First(i) \subseteq Items
    <2>1. maxIdx \in Nat /\ \A j \in 0..(i - 1) : j \in 0..(maxIdx - 1) /\ j # i
        BY ItemsApart
    <2>2. x \notin First(i) /\ First(i) \subseteq Items
        BY <2>1, ItemsApart DEF First
    <2>3. \A j : j \in 0..((i + 1) - 1) <=> j \in 0..(i - 1) \/ j = i
        OBVIOUS
    <2>4. First(i + 1) = First(i) \cup {x}
        BY <2>3, Zenon DEF First
    <2> QED
        BY <2>2, <2>4
  <1>3. /\ Distinct(h) /\ Listed(h) \subseteq First(i) /\ x \notin Listed(h)
        /\ Len(h) < k => Listed(h) = First(i)
      BY <1>2 DEF Holds
  <1> HIDE DEF x
  <1>4. Len(t) = IF Len(h) < k THEN Len(h) + 1 ELSE k
      BY <1>1, TakenRight
  <1>5. /\ Distinct(t)
        /\ Listed(t) \subseteq Listed(h) \cup {x}
        /\ Len(h) < k => Listed(t) = Listed(h) \cup {x}
      BY <1>1, <1>3, TakenRight
  <1>6. ASSUME size \in [Items -> Nat], Ordered(h, size)
        PROVE  /\ Ordered(t, size)
               /\ Len(h) = k => \E y \in Listed(h) \cup {x} :
                     /\ Listed(t) = (Listed(h) \cup {x}) \ {y}
                     /\ \A z \in Listed(h) \cup {x} : size[y] <= size[z]
    <2>1. Distinct(h) /\ x \notin Listed(h)
        BY <1>3
    <2>2. Ordered(t, size)
        BY <1>1, <1>6, <2>1, TakenRight
    <2>3. ASSUME Len(h) = k
          PROVE  \E y \in Listed(h) \cup {x} :
                     /\ Listed(t) = (Listed(h) \cup {x}) \ {y}
                     /\ \A z \in Listed(h) \cup {x} : size[y] <= size[z]
        BY <1>1, <1>6, <2>1, <2>3, TakenRight
    <2> QED
        BY <2>2, <2>3
  <1> HIDE DEF t
  <1>7. Holds(t, i + 1, k)
    <2>1. Len(t) = Least(k, i + 1)
        BY <1>1, <1>4 DEF Least
    <2>2. Listed(t) \subseteq First(i + 1)
        BY <1>2, <1>3, <1>5
    <2>3. Len(t) < k => Len(h) < k
        BY <1>1, <1>4
    <2>4. Len(t) < k => Listed(t) = First(i + 1)
        BY <1>2, <1>3, <1>5, <2>3
    <2> QED
        BY <1>5, <2>1, <2>2, <2>4 DEF Holds
  <1>8. ASSUME size \in [Items -> Nat], HoldsLongest(h, i, size)
        PROVE  HoldsLongest(t, i + 1, size)
    <2>1. Ordered(h, size)
        BY <1>8 DEF HoldsLongest
    <2>2. CASE Len(h) < k
      <3>1. Listed(t) = First(i + 1)
          BY <1>2, <1>3, <1>5, <2>2
      <3> QED
          BY <1>6, <1>8, <2>1, <3>1 DEF HoldsLongest
    <2>3. CASE Len(h) = k
      <3>1. PICK y \in Listed(h) \cup {x} :
                   /\ Listed(t) = (Listed(h) \cup {x}) \ {y}
                   /\ \A z \in Listed(h) \cup {x} : size[y] <= size[z]
          BY <1>6, <1>8, <2>1, <2>3
      <3>2. \A b \in First(i) : b \in Listed(h) \/ \A a \in Listed(h) : size[b] <= size[a]
          BY <1>8 DEF HoldsLongest
      <3>3. Listed(h) \subseteq Items
          BY <1>2, <1>3
      <3>4. \A b \in First(i) \cup {x} : \/ b \in (Listed(h) \cup {x}) \ {y}
                                         \/ \A a \in (Listed(h) \cup {x}) \ {y} : size[b] <= size[a]
          BY <1>1, <1>2, <1>8, <3>1, <3>2, <3>3, KeepLongest
      <3> QED
          BY <1>2, <1>6, <1>8, <2>1, <3>1, <3>4 DEF HoldsLongest
    <2> QED
        BY <1>1, <2>2, <2>3
  <1> QED
      BY <1>7, <1>8 DEF t, x

\* The heap when every queue of the map was taken.
LEMMA BuiltRight ==
    ASSUME TypeOK, Dense, NEW k \in Nat \ {0}, NEW before, NEW after, NEW n
    PROVE  LET full == Built(k, before, after, n)[maxIdx]
           IN /\ full \in Seq(Items)
              /\ Holds(full, maxIdx, k)
              /\ before \in [Items -> Nat] /\ n = maxIdx => HoldsLongest(full, maxIdx, before)
  <1> DEFINE v == Built(k, before, after, n)
             size(i) == IF i <= n THEN before ELSE after
  <1>1. /\ v[0] = <<>>
        /\ \A i \in 0..maxIdx : v[i] \in Seq(Items) /\ Len(v[i]) <= k
        /\ \A i \in 1..maxIdx : v[i] = Taken(v[i - 1], items[i - 1], k, size(i))
      BY BuiltSteps
  <1>2. maxIdx \in Nat
      BY ItemsApart
  <1> HIDE DEF v, size
  <1>3. ASSUME NEW i \in 0..(maxIdx - 1)
        PROVE  /\ i + 1 \in 1..maxIdx /\ i \in 0..maxIdx /\ i + 1 \in 0..maxIdx
               /\ v[i + 1] = Taken(v[i], items[i], k, size(i + 1))
    <2>1. i + 1 \in 1..maxIdx /\ i \in 0..maxIdx /\ i + 1 \in 0..maxIdx /\ (i + 1) - 1 = i
        BY <1>2
    <2>2. v[i + 1] = Taken(v[(i + 1) - 1], items[(i + 1) - 1], k, size(i + 1))
        BY <1>1, <2>1
    <2> QED
        BY <2>1, <2>2
  <1>4. Holds(<<>>, 0, k)
      BY DEF Holds, Least, Distinct, Listed, First
  <1>5. \A i \in 0..maxIdx : Holds(v[i], i, k)
    <2> DEFINE T == {i \in 0..maxIdx : Holds(v[i], i, k)}
    <2>1. 0 \in T
        BY <1>1, <1>2, <1>4
    <2>2. ASSUME NEW i \in 0..(maxIdx - 1), i \in T PROVE i + 1 \in T
      <3>1. v[i] \in Seq(Items) /\ Holds(v[i], i, k)
          BY <1>1, <1>3, <2>2
      <3>2. Holds(Taken(v[i], items[i], k, size(i + 1)), i + 1, k)
          BY <3>1, OneMore
      <3> QED
          BY <1>3, <3>2
    <2> HIDE DEF T
    <2>3. \A i \in 0..maxIdx : i \in T
        BY <1>2, <2>1, <2>2, StepByStep
    <2> QED
        BY <2>3 DEF T
  <1>6. ASSUME before \in [Items -> Nat], n = maxIdx
        PROVE  \A i \in 0..maxIdx : HoldsLongest(v[i], i, before)
    <2> DEFINE T == {i \in 0..maxIdx : HoldsLongest(v[i], i, before)}
    <2>1. 0 \in T
        BY <1>1, <1>2 DEF HoldsLongest, Ordered, First
    <2>2. ASSUME NEW i \in 0..(maxIdx - 1), i \in T PROVE i + 1 \in T
      <3>1. v[i] \in Seq(Items) /\ Holds(v[i], i, k) /\ HoldsLongest(v[i], i, before)
          BY <1>1, <1>3, <1>5, <2>2
      <3>2. size(i + 1) = before
          BY <1>3, <1>6 DEF size
      <3>3. HoldsLongest(Taken(v[i], items[i], k, before), i + 1, before)
          BY <1>6, <3>1, OneMore
      <3> QED
          BY <1>3, <3>2, <3>3
    <2> HIDE DEF T
    <2>3. \A i \in 0..maxIdx : i \in T
        BY <1>2, <2>1, <2>2, StepByStep
    <2> QED
        BY <2>3 DEF T
  <1>7. maxIdx \in 0..maxIdx
      BY <1>2
  <1> QED
      BY <1>1, <1>5, <1>6, <1>7 DEF v


\* The view names the queues of the heap, each once, and in order if it is a heap.
LEMMA ViewRight ==
    ASSUME TypeOK, Dense, NEW k \in Nat \ {0}, NEW before, NEW after, NEW n
    PROVE  LET full == Built(k, before, after, n)[maxIdx]
               top == TopNQueues(k, before, after, n)
           IN /\ Len(top) = Len(full)
              /\ Listed(top) = Listed(full)
              /\ Cardinality(Listed(top)) = Len(top)
              /\ after \in [Items -> Nat] /\ Ordered(full, after) =>
                   \A i \in 2..Len(top) : after[top[i]] <= after[top[i - 1]]
  <1> DEFINE full == Built(k, before, after, n)[maxIdx]
             top == TopNQueues(k, before, after, n)
             v == Left(full, after)
             L == Len(full)
             w(i) == v[i][1]
  <1>1. full \in Seq(Items) /\ Distinct(full)
      BY BuiltRight DEF Holds
  <1>2. top = [i \in DOMAIN full |-> Top(v[L - i])]
      BY ViewIs
  <1> HIDE DEF full, top
  <1>3. L \in Nat /\ DOMAIN full = 1..L
      BY <1>1
  <1>4. /\ \A i \in 0..(L - 1) : w(i) \in Listed(full)
        /\ \A y \in Listed(full) : \E i \in 0..(L - 1) : y = w(i)
        /\ \A i, j \in 0..(L - 1) : w(i) = w(j) => i = j
      BY <1>1, Emptied
  <1>5. ASSUME after \in [Items -> Nat], Ordered(full, after)
        PROVE  \A i \in 0..(L - 2) : after[w(i)] <= after[w(i + 1)]
      BY <1>1, <1>5, Emptied
  <1>6. top = [i \in 1..L |-> w(L - i)]
      BY <1>2, <1>3 DEF Top
  <1> HIDE DEF L, w
  <1>7. DOMAIN top = 1..L /\ Len(top) = L /\ \A i \in 1..L : top[i] = w(L - i)
      BY <1>3, <1>6
  <1>8. \A i \in 1..L : L - i \in 0..(L - 1)
      BY <1>3
  <1>9. Listed(top) = Listed(full)
    <2>1. \A y : y \in Listed(top) <=> \E i \in 1..L : y = top[i]
        BY <1>7 DEF Listed
    <2>2. ASSUME NEW y \in Listed(full) PROVE y \in Listed(top)
      <3>1. PICK i \in 0..(L - 1) : y = w(i)
          BY <1>4
      <3>2. L - i \in 1..L /\ L - (L - i) = i
          BY <1>3
      <3> QED
          BY <1>7, <2>1, <3>1, <3>2
    <2>3. ASSUME NEW y \in Listed(top) PROVE y \in Listed(full)
        BY <1>4, <1>7, <1>8, <2>1
    <2> QED
        BY <2>2, <2>3
  <1>10. Cardinality(Listed(top)) = L
    <2>1. \A i, j \in 1..L : top[i] = top[j] => i = j
        BY <1>3, <1>4, <1>7, <1>8
    <2>2. top \in [1..L -> Listed(top)] /\ \A y \in Listed(top) : \E i \in 1..L : top[i] = y
        BY <1>6, <1>7 DEF Listed
    <2>3. top \in Injection(1..L, Listed(top)) /\ top \in Surjection(1..L, Listed(top))
        BY <2>1, <2>2 DEF Injection, IsInjective, Surjection
    <2>4. IsFiniteSet(1..L) /\ Cardinality(1..L) = L
        BY <1>3, FS_Interval
    <2> QED
        BY <2>3, <2>4, FS_Surjection
  <1>11. ASSUME after \in [Items -> Nat], Ordered(full, after), NEW i \in 2..Len(top)
         PROVE  after[top[i]] <= after[top[i - 1]]
    <2>1. i \in 1..L /\ i - 1 \in 1..L /\ L - i \in 0..(L - 2) /\ L - (i - 1) = (L - i) + 1
        BY <1>3, <1>7
    <2> QED
        BY <1>5, <1>7, <1>11, <2>1
  <1> QED
      BY <1>7, <1>9, <1>10, <1>11 DEF L, full, top

\* topNQueues returns as many queues as asked for, or all, and none twice, whatever
\* the sizes do meanwhile; sizes that stay give the longest queues, in order.
THEOREM TopNCorrect == Spec => []TopNRight
  <1>1. TypeOK /\ Dense => TopNRight
    <2> SUFFICES ASSUME TypeOK, Dense PROVE TopNRight
        OBVIOUS
    <2>1. maxIdx \in Nat
        BY ItemsApart
    <2> SUFFICES ASSUME NEW k \in 1..(maxIdx + 1), NEW before \in QueueSizes
                 PROVE  /\ ListsLongest(TopNQueues(k, before, before, maxIdx), before)
                        /\ \A after \in QueueSizes, n \in 0..maxIdx :
                             ListsEnough(k, TopNQueues(k, before, after, n))
        BY DEF TopNRight
    <2>2. k \in Nat \ {0} /\ before \in [Items -> Nat]
        BY <2>1, TopNAssumption
    <2>3. {items[i] : i \in 0..(maxIdx - 1)} = First(maxIdx)
        BY DEF First
    <2>4. ListsLongest(TopNQueues(k, before, before, maxIdx), before)
      <3> DEFINE full == Built(k, before, before, maxIdx)[maxIdx]
                 top == TopNQueues(k, before, before, maxIdx)
      <3>1. HoldsLongest(full, maxIdx, before)
          BY <2>2, BuiltRight
      <3>2. Ordered(full, before)
          BY <3>1 DEF HoldsLongest
      <3>3. Listed(top) = Listed(full)
          BY <2>2, ViewRight
      <3>4. \A i \in 2..Len(top) : before[top[i]] <= before[top[i - 1]]
          BY <2>2, <3>2, ViewRight
      <3>5. \A i \in 0..(maxIdx - 1) : items[i] \in First(maxIdx)
          BY DEF First
      <3> HIDE DEF full, top
      <3>6. \A i \in 0..(maxIdx - 1) :
               items[i] \in Listed(top) \/ \A x \in Listed(top) : before[items[i]] <= before[x]
          BY <3>1, <3>3, <3>5 DEF HoldsLongest
      <3> QED
          BY <3>4, <3>6 DEF ListsLongest, top
    <2>5. ASSUME NEW after \in QueueSizes, NEW n \in 0..maxIdx
          PROVE  ListsEnough(k, TopNQueues(k, before, after, n))
      <3> DEFINE full == Built(k, before, after, n)[maxIdx]
                 top == TopNQueues(k, before, after, n)
      <3>1. Holds(full, maxIdx, k)
          BY <2>2, BuiltRight
      <3>2. Len(top) = Len(full) /\ Listed(top) = Listed(full) /\ Cardinality(Listed(top)) = Len(top)
          BY <2>2, ViewRight
      <3> HIDE DEF full, top
      <3> QED
          BY <2>3, <3>1, <3>2 DEF Holds, ListsEnough, top
    <2> QED
        BY <2>4, <2>5
  <1>2. Inv => TypeOK /\ Dense
      BY DEF Inv
  <1> QED
      BY <1>1, <1>2, Invariance, PTL
=============================================================================
