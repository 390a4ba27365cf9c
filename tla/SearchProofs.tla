---------------------------- MODULE SearchProofs ----------------------------
(***************************************************************************)
(* Theorems about module ShortestPaths: on any topology, with any delays   *)
(* and any links down, dijkstra() finds the shortest distances and the     *)
(* paths that prev holds have those lengths; shortest_path() finds a path  *)
(* with the fewest hops; with equal delays both give the same next hop.    *)
(* And about the tables of module Routing, for which the searches are run  *)
(* to their ends: they are complete, hold no cycle, and, with equal        *)
(* delays, do not depend on who computes them.                             *)
(***************************************************************************)
EXTENDS ShortestPaths, FiniteSetTheorems, SequenceTheorems, WellFoundedInduction, TLAPS

-----------------------------------------------------------------------------
(* Induction, without an operator: over a set of naturals.                 *)
LEMMA LeastNatural ==
    ASSUME NEW T, T \subseteq Nat, T # {}
    PROVE  \E m \in T : \A k \in T : m <= k
<1> DEFINE R == {ss \in Nat \X Nat : ss[1] < ss[2]}
<1>1. IsWellFoundedOn(R, Nat)
  BY NatLessThanWellFounded DEF OpToRel
<1>2. PICK m \in T : \A k \in T : ~ (<<k, m>> \in R)
  BY <1>1, WFMin
<1>3. ASSUME NEW k \in T PROVE m <= k
  <2>1. ~ (<<k, m>> \in R) /\ <<k, m>> \in Nat \X Nat
    BY <1>2
  <2>2. ~ (k < m)
    BY <2>1
  <2> QED
    BY <2>2
<1> QED
  BY <1>3

LEMMA Induction ==
    ASSUME NEW n \in Nat, NEW P, 0 \in P, \A k \in 0 .. n - 1 : k \in P => k + 1 \in P
    PROVE  0 .. n \subseteq P
<1> DEFINE T == {k \in 0 .. n : k \notin P}
<1>1. CASE T # {}
  <2>1. T \subseteq Nat
    OBVIOUS
  <2> HIDE DEF T
  <2>2. PICK m \in T : \A k \in T : m <= k
    BY <1>1, <2>1, LeastNatural
  <2>3. m \in 0 .. n /\ m \notin P /\ m # 0
    BY <2>2 DEF T
  <2>4. m - 1 \in 0 .. n - 1 /\ m - 1 \in 0 .. n /\ ~ (m <= m - 1) /\ (m - 1) + 1 = m
    BY <2>3
  <2>5. m - 1 \in P
    BY <2>2, <2>4 DEF T
  <2> QED
    BY <2>3, <2>4, <2>5
<1> QED
  BY <1>1

(* What a definition by recursion on k defines.                            *)
Steps(S) == [Nat -> [S -> S]]

Repeats(g, n, a, next) ==
    \A k \in 0 .. n : g[k] = IF k = 0 THEN a ELSE next[k][g[k - 1]]

LEMMA Iteration ==
    ASSUME NEW S, NEW a \in S, NEW n \in Nat, NEW next \in Steps(S)
    PROVE  \E g \in [0 .. n -> S] : Repeats(g, n, a, next)
<1> USE DEF Steps, Repeats
<1> DEFINE Good(m, g) == Repeats(g, m, a, next)
<1> DEFINE P == {m \in Nat : \E g \in [0 .. m -> S] : Good(m, g)}
<1>1. 0 \in P
  <2>1. [k \in 0 .. 0 |-> a] \in [0 .. 0 -> S] /\ Good(0, [k \in 0 .. 0 |-> a])
    OBVIOUS
  <2> QED
    BY <2>1
<1>2. ASSUME NEW m \in 0 .. n - 1, m \in P PROVE m + 1 \in P
  <2>1. PICK g \in [0 .. m -> S] : Good(m, g)
    BY <1>2
  <2> DEFINE h == [k \in 0 .. m + 1 |-> IF k = m + 1 THEN next[m + 1][g[m]] ELSE g[k]]
  <2>2. g[m] \in S /\ next[m + 1] \in [S -> S] /\ next[m + 1][g[m]] \in S
    OBVIOUS
  <2>3. h \in [0 .. m + 1 -> S]
    BY <2>2
  <2>4. ASSUME NEW k \in 0 .. m + 1 PROVE h[k] = IF k = 0 THEN a ELSE next[k][h[k - 1]]
    <3>1. CASE k = m + 1
      <4>1. k # 0 /\ k - 1 = m /\ m \in 0 .. m + 1 /\ m # m + 1
        BY <3>1
      <4> QED
        BY <3>1, <4>1
    <3>2. CASE k # m + 1
      <4>1. k \in 0 .. m /\ h[k] = g[k]
        BY <3>2
      <4>2. g[k] = IF k = 0 THEN a ELSE next[k][g[k - 1]]
        BY <2>1, <4>1
      <4>3. k # 0 => k - 1 \in 0 .. m /\ h[k - 1] = g[k - 1]
        BY <4>1
      <4> HIDE DEF h
      <4> QED
        BY <4>1, <4>2, <4>3
    <3> QED
      BY <3>1, <3>2
  <2>5. Good(m + 1, h)
    BY <2>4
  <2> HIDE DEF h
  <2> QED
    BY <2>3, <2>5
<1> HIDE DEF P
<1>3. \A k \in 0 .. n - 1 : k \in P => k + 1 \in P
  BY <1>2
<1>4. 0 .. n \subseteq P
  BY <1>1, <1>3, Induction
<1> QED
  BY <1>4 DEF P

(* What such a definition yields is of its type.                           *)
LEMMA IterationTyped ==
    ASSUME NEW S, NEW n \in Nat, NEW f, f = [k \in 0 .. n |-> f[k]], f[0] \in S,
           \A k \in 1 .. n : f[k - 1] \in S => f[k] \in S
    PROVE  f \in [0 .. n -> S]
<1> DEFINE P == {k \in 0 .. n : f[k] \in S}
<1>1. 0 \in P
  OBVIOUS
<1>2. ASSUME NEW k \in 0 .. n - 1, k \in P PROVE k + 1 \in P
  <2>1. k + 1 \in 1 .. n /\ (k + 1) - 1 = k /\ k + 1 \in 0 .. n
    OBVIOUS
  <2> QED
    BY <1>2, <2>1
<1> HIDE DEF P
<1>3. \A k \in 0 .. n - 1 : k \in P => k + 1 \in P
  BY <1>2
<1>4. 0 .. n \subseteq P
  BY <1>1, <1>3, Induction
<1>5. \A k \in 0 .. n : f[k] \in S
  BY <1>4 DEF P
<1> QED
  BY <1>5

-----------------------------------------------------------------------------
LEMMA NeighborsTyped ==
    ASSUME NEW up, up \subseteq Link, NEW u \in Node, NEW v \in Neighbors(u, up)
    PROVE  /\ v \in Node /\ u # v /\ {u, v} \in Link
           /\ {u, v} = {v, u} /\ u \in Neighbors(v, up)
<1>1. v \in Node /\ {u, v} \in Link /\ {u, v} \in up
  BY DEF Neighbors
<1>2. u # v
  <2> SUFFICES ASSUME u = v PROVE FALSE
    OBVIOUS
  <2>1. {u, v} = {u} /\ Cardinality({u, v}) = 2
    BY <1>1, TopologyAssumption
  <2>2. Cardinality({u}) = 1
    BY FS_Singleton
  <2> QED
    BY <2>1, <2>2
<1>3. {u, v} = {v, u}
  OBVIOUS
<1> QED
  BY <1>1, <1>2, <1>3 DEF Neighbors

-----------------------------------------------------------------------------
(* The reference distances, one round of relaxations after the other.      *)
Estimate == [Node -> Nat \cup {Infinite}]

LEMMA LeastIs ==
    ASSUME NEW S, S \subseteq Nat
    PROVE  /\ S = {} => Least(S) = Infinite
           /\ S # {} => Least(S) \in S /\ Least(S) # Infinite /\ \A y \in S : Least(S) <= y
<1>1. CASE S # {}
  <2>1. PICK m \in S : \A k \in S : m <= k
    BY <1>1, LeastNatural
  <2>2. Least(S) \in S /\ \A y \in S : Least(S) <= y
    BY <1>1, <2>1 DEF Least
  <2> QED
    BY <1>1, <2>2 DEF Infinite
<1> QED
  BY <1>1 DEF Least

LEMMA RelaxationIs ==
    ASSUME NEW cost \in [Link -> Nat], active \subseteq Link, NEW d \in Estimate, NEW v \in Node
    PROVE  /\ Relaxation(d, cost) \in Estimate
           /\ Relaxation(d, cost)[v] # Infinite =>
                \/ Relaxation(d, cost)[v] = d[v]
                \/ \E u \in Neighbors(v, active) :
                      d[u] # Infinite /\ Relaxation(d, cost)[v] = d[u] + cost[{u, v}]
           /\ d[v] # Infinite =>
                Relaxation(d, cost)[v] # Infinite /\ Relaxation(d, cost)[v] <= d[v]
           /\ \A u \in Neighbors(v, active) : d[u] # Infinite =>
                /\ Relaxation(d, cost)[v] # Infinite
                /\ Relaxation(d, cost)[v] <= d[u] + cost[{u, v}]
<1> DEFINE finite == {u \in Node : d[u] # Infinite}
           Via(w) == {d[u] + cost[{u, w}] : u \in finite \cap Neighbors(w, active)}
           Known(w) == Via(w) \cup ({d[w]} \ {Infinite})
<1>1. Relaxation(d, cost) = [w \in Node |-> Least(Known(w))]
  BY DEF Relaxation
<1>2. \A w \in Node : Known(w) \subseteq Nat
  <2> SUFFICES ASSUME NEW w \in Node, NEW x \in Known(w) PROVE x \in Nat
    OBVIOUS
  <2>1. CASE x \in Via(w)
    <3>1. PICK u \in finite \cap Neighbors(w, active) : x = d[u] + cost[{u, w}]
      BY <2>1
    <3>2. {u, w} = {w, u} /\ {w, u} \in Link
      BY DEF Neighbors
    <3>3. d[u] \in Nat /\ cost[{u, w}] \in Nat
      BY <3>2 DEF Estimate
    <3> QED
      BY <3>1, <3>3
  <2>2. CASE x \notin Via(w)
    BY <2>2 DEF Estimate
  <2> QED
    BY <2>1, <2>2
<1>3. \A u \in Neighbors(v, active) : d[u] # Infinite => d[u] + cost[{u, v}] \in Known(v)
  BY DEF Neighbors
<1>4. d[v] # Infinite => d[v] \in Known(v)
  OBVIOUS
<1>5. ASSUME NEW x \in Known(v)
      PROVE  \/ x = d[v]
             \/ \E u \in Neighbors(v, active) : d[u] # Infinite /\ x = d[u] + cost[{u, v}]
  OBVIOUS
<1> HIDE DEF Known
<1>6. ASSUME NEW w \in Node
      PROVE  /\ Known(w) = {} => Least(Known(w)) = Infinite
             /\ Known(w) # {} => /\ Least(Known(w)) \in Known(w)
                                 /\ Least(Known(w)) # Infinite
                                 /\ \A y \in Known(w) : Least(Known(w)) <= y
  BY <1>2, LeastIs
<1>7. Relaxation(d, cost) \in Estimate
  <2>1. \A w \in Node : Least(Known(w)) \in Nat \cup {Infinite}
    BY <1>2, <1>6
  <2> QED
    BY <1>1, <2>1 DEF Estimate
<1>8. Relaxation(d, cost)[v] = Least(Known(v))
  BY <1>1
<1> QED
  BY <1>3, <1>4, <1>5, <1>6, <1>7, <1>8

Rounds(round, n, src, cost) ==
    /\ round \in [0 .. n -> Estimate]
    /\ round[0] = [v \in Node |-> IF v = src THEN 0 ELSE Infinite]
    /\ \A k \in 1 .. n : round[k] = Relaxation(round[k - 1], cost)

LEMMA DistancesAre ==
    ASSUME NEW cost \in [Link -> Nat], active \subseteq Link, NEW src \in Node
    PROVE  /\ Cardinality(Node) - 1 \in Nat
           /\ \E round : /\ Rounds(round, Cardinality(Node) - 1, src, cost)
                         /\ Distances(src, cost) = round[Cardinality(Node) - 1]
<1>1. Cardinality(Node) \in Nat /\ Cardinality(Node) # 0
  BY TopologyAssumption, FS_CardinalityType, FS_EmptySet
<1>2. PICK n : n = Cardinality(Node) - 1
  OBVIOUS
<1>3. n \in Nat
  BY <1>1, <1>2
<1> DEFINE a == [v \in Node |-> IF v = src THEN 0 ELSE Infinite]
           next == [k \in Nat |-> [d \in Estimate |-> Relaxation(d, cost)]]
           round[k \in 0 .. n] == IF k = 0 THEN a ELSE Relaxation(round[k - 1], cost)
<1>4. a \in Estimate
  BY DEF Estimate
<1>5. next \in Steps(Estimate)
  <2>1. \A d \in Estimate : Relaxation(d, cost) \in Estimate
    BY RelaxationIs
  <2> QED
    BY <2>1 DEF Steps
<1>6. \A k \in Nat : \A d \in Estimate : next[k][d] = Relaxation(d, cost)
  OBVIOUS
<1>7. Distances(src, cost) = round[n]
  BY <1>2 DEF Distances
<1> HIDE DEF a, next, round
<1>8. PICK g \in [0 .. n -> Estimate] : Repeats(g, n, a, next)
  BY <1>3, <1>4, <1>5, Iteration
<1>9. \A k \in 0 .. n : k # 0 => k - 1 \in 0 .. n
  BY <1>3
<1>10. g = [k \in 0 .. n |-> IF k = 0 THEN a ELSE Relaxation(g[k - 1], cost)]
  BY <1>6, <1>8, <1>9 DEF Repeats
<1>11. round = [k \in 0 .. n |-> IF k = 0 THEN a ELSE Relaxation(round[k - 1], cost)]
  BY <1>10 DEF round
<1> HIDE DEF round
<1>12. round[0] = a /\ \A k \in 1 .. n : round[k] = Relaxation(round[k - 1], cost)
  BY <1>3, <1>11
<1>13. \A k \in 1 .. n : round[k - 1] \in Estimate => round[k] \in Estimate
  BY <1>12, RelaxationIs
<1>14. round \in [0 .. n -> Estimate]
  <2>1. round[0] \in Estimate /\ round = [k \in 0 .. n |-> round[k]]
    BY <1>4, <1>11, <1>12
  <2> QED
    BY <1>3, <1>13, <2>1, IterationTyped
<1> QED
  BY <1>2, <1>3, <1>7, <1>12, <1>14 DEF a, Rounds

(* What holds of the root and is kept along a link holds of any estimate.  *)
Closed(up, C, cost) ==
    \A u \in Node, x \in Nat : <<u, x>> \in C =>
        \A w \in Neighbors(u, up) : <<w, x + cost[{u, w}]>> \in C

LEMMA EstimatesClosed ==
    ASSUME NEW cost \in [Link -> Nat], active \subseteq Link, NEW src \in Node,
           NEW n \in Nat, NEW round, Rounds(round, n, src, cost),
           NEW C, <<src, 0>> \in C, Closed(active, C, cost)
    PROVE  \A k \in 0 .. n : \A w \in Node :
              round[k][w] # Infinite => <<w, round[k][w]>> \in C
<1> DEFINE P == {k \in 0 .. n : \A w \in Node :
                    round[k][w] # Infinite => <<w, round[k][w]>> \in C}
<1>1. 0 \in P
  <2>1. ASSUME NEW w \in Node, round[0][w] # Infinite PROVE <<w, round[0][w]>> \in C
    <3>1. w = src /\ round[0][w] = 0
      BY <2>1 DEF Rounds
    <3> QED
      BY <3>1
  <2> QED
    BY <2>1
<1>2. ASSUME NEW k \in 0 .. n - 1, k \in P PROVE k + 1 \in P
  <2>1. k + 1 \in 1 .. n /\ (k + 1) - 1 = k /\ k + 1 \in 0 .. n /\ k \in 0 .. n
    OBVIOUS
  <2>2. round[k + 1] = Relaxation(round[k], cost) /\ round[k] \in Estimate
    BY <2>1 DEF Rounds
  <2>3. ASSUME NEW w \in Node, round[k + 1][w] # Infinite PROVE <<w, round[k + 1][w]>> \in C
    <3>1. CASE round[k + 1][w] = round[k][w]
      BY <1>2, <2>3, <3>1
    <3>2. CASE \E u \in Neighbors(w, active) :
                  round[k][u] # Infinite /\ round[k + 1][w] = round[k][u] + cost[{u, w}]
      <4>1. PICK u \in Neighbors(w, active) :
                  round[k][u] # Infinite /\ round[k + 1][w] = round[k][u] + cost[{u, w}]
        BY <3>2
      <4>2. u \in Node /\ w \in Neighbors(u, active)
        BY NeighborsTyped
      <4>3. round[k][u] \in Nat /\ <<u, round[k][u]>> \in C
        BY <1>2, <2>2, <4>1, <4>2 DEF Estimate
      <4>4. <<w, round[k][u] + cost[{u, w}]>> \in C
        BY <4>2, <4>3 DEF Closed
      <4> QED
        BY <4>1, <4>4
    <3>3. Relaxation(round[k], cost)[w] # Infinite =>
            \/ Relaxation(round[k], cost)[w] = round[k][w]
            \/ \E u \in Neighbors(w, active) :
                  /\ round[k][u] # Infinite
                  /\ Relaxation(round[k], cost)[w] = round[k][u] + cost[{u, w}]
      BY <2>2, RelaxationIs
    <3> QED
      BY <2>2, <2>3, <3>1, <3>2, <3>3
  <2> QED
    BY <2>1, <2>3
<1> HIDE DEF P
<1>3. \A k \in 0 .. n - 1 : k \in P => k + 1 \in P
  BY <1>2
<1>4. 0 .. n \subseteq P
  BY <1>1, <1>3, Induction
<1> QED
  BY <1>4 DEF P

-----------------------------------------------------------------------------
(* The cost of a path, and of one with a node before it.                   *)
Walk(path) ==
    /\ path \in Seq(Node) /\ path # <<>>
    /\ \A k \in 1 .. Len(path) - 1 : {path[k], path[k + 1]} \in Link

Sums(sum, path, cost) ==
    /\ sum \in [0 .. Len(path) - 1 -> Nat] /\ sum[0] = 0
    /\ \A k \in 1 .. Len(path) - 1 : sum[k] = sum[k - 1] + cost[{path[k], path[k + 1]}]

LEMMA PathCostIs ==
    ASSUME NEW cost \in [Link -> Nat], NEW path, Walk(path)
    PROVE  \E sum : Sums(sum, path, cost) /\ PathCost(path, cost) = sum[Len(path) - 1]
<1>1. PICK n \in Nat : n = Len(path) - 1
  <2>1. PICK m \in Nat : m = Len(path) /\ m # 0
    <3>1. Len(path) \in Nat /\ Len(path) # 0
      <4>1. path \in Seq(Node) /\ path # <<>>
        BY DEF Walk
      <4> QED
        BY <4>1, EmptySeq, LenProperties
    <3> QED
      BY <3>1
  <2>2. m - 1 \in Nat
    BY <2>1
  <2> QED
    BY <2>1, <2>2
<1> DEFINE step(k) == IF k \in 1 .. n THEN cost[{path[k], path[k + 1]}] ELSE 0
           next == [k \in Nat |-> [x \in Nat |-> x + step(k)]]
           sum[k \in 0 .. n] == IF k = 0 THEN 0 ELSE sum[k - 1] + cost[{path[k], path[k + 1]}]
<1>2. \A k \in 1 .. n : cost[{path[k], path[k + 1]}] \in Nat
  BY <1>1 DEF Walk
<1>3. next \in Steps(Nat)
  <2>1. \A k \in Nat : step(k) \in Nat
    BY <1>2
  <2> HIDE DEF step
  <2> QED
    BY <2>1 DEF Steps
<1>4. \A k \in 1 .. n : \A x \in Nat : next[k][x] = x + cost[{path[k], path[k + 1]}]
  OBVIOUS
<1>5. PathCost(path, cost) = sum[n]
  BY <1>1 DEF PathCost
<1> HIDE DEF next, sum
<1>6. PICK g \in [0 .. n -> Nat] : Repeats(g, n, 0, next)
  BY <1>3, Iteration
<1>7. \A k \in 0 .. n : k # 0 => k \in 1 .. n /\ k - 1 \in 0 .. n
  OBVIOUS
<1>8. g = [k \in 0 .. n |-> IF k = 0 THEN 0 ELSE g[k - 1] + cost[{path[k], path[k + 1]}]]
  BY <1>4, <1>6, <1>7 DEF Repeats
<1>9. sum = [k \in 0 .. n |-> IF k = 0 THEN 0 ELSE sum[k - 1] + cost[{path[k], path[k + 1]}]]
  BY <1>8 DEF sum
<1>10. /\ sum[0] = 0 /\ sum = [k \in 0 .. n |-> sum[k]]
       /\ \A k \in 1 .. n : sum[k] = sum[k - 1] + cost[{path[k], path[k + 1]}]
  <2>1. \A k \in 0 .. n :
            sum[k] = IF k = 0 THEN 0 ELSE sum[k - 1] + cost[{path[k], path[k + 1]}]
    BY <1>9
  <2>2. sum = [k \in 0 .. n |-> sum[k]]
    BY <1>9
  <2>3. 0 \in 0 .. n /\ \A k \in 1 .. n : k \in 0 .. n /\ k # 0
    OBVIOUS
  <2> QED
    BY <2>1, <2>2, <2>3
<1>11. sum \in [0 .. n -> Nat]
  <2>1. ASSUME NEW k \in 1 .. n, sum[k - 1] \in Nat PROVE sum[k] \in Nat
    <3>1. PICK c \in Nat : c = cost[{path[k], path[k + 1]}]
      BY <1>2
    <3>2. sum[k] = sum[k - 1] + c
      BY <1>10, <3>1
    <3> QED
      BY <2>1, <3>2
  <2>2. \A k \in 1 .. n : sum[k - 1] \in Nat => sum[k] \in Nat
    BY <2>1
  <2>3. sum[0] \in Nat /\ sum = [k \in 0 .. n |-> sum[k]]
    BY <1>10
  <2> QED
    BY <2>2, <2>3, IterationTyped
<1> QED
  BY <1>1, <1>5, <1>10, <1>11 DEF Sums

LEMMA PathCostOfOne ==
    ASSUME NEW cost \in [Link -> Nat], NEW v \in Node
    PROVE  Walk(<<v>>) /\ PathCost(<<v>>, cost) = 0
<1>1. Walk(<<v>>) /\ Len(<<v>>) - 1 = 0
  BY DEF Walk
<1>2. PICK sum : Sums(sum, <<v>>, cost) /\ PathCost(<<v>>, cost) = sum[0]
  BY <1>1, PathCostIs
<1> QED
  BY <1>1, <1>2 DEF Sums

LEMMA PathCostStep ==
    ASSUME NEW cost \in [Link -> Nat], NEW path, Walk(path), NEW a \in Node,
           {a, path[1]} \in Link
    PROVE  /\ Walk(<<a>> \o path) /\ PathCost(path, cost) \in Nat
           /\ PathCost(<<a>> \o path, cost) = cost[{a, path[1]}] + PathCost(path, cost)
<1>1. PICK longer : longer = <<a>> \o path
  OBVIOUS
<1>2. PICK n \in Nat : n = Len(path) - 1
  <2>1. path \in Seq(Node) /\ path # <<>>
    BY DEF Walk
  <2>2. Len(path) \in Nat /\ Len(path) # 0
    BY <2>1, EmptySeq, LenProperties
  <2>3. Len(path) - 1 \in Nat
    BY <2>2
  <2> QED
    BY <2>3
<1>3. /\ longer \in Seq(Node) /\ Len(longer) = n + 2 /\ longer[1] = a
      /\ \A k \in 2 .. n + 2 : longer[k] = path[k - 1]
  <2>1. <<a>> \in Seq(Node) /\ path \in Seq(Node) /\ Len(path) = n + 1 /\ Len(<<a>>) = 1
    BY <1>2 DEF Walk
  <2>2. longer \in Seq(Node) /\ Len(longer) = n + 2 /\ longer[1] = a
    BY <1>1, <2>1, ConcatProperties
  <2>3. \A k \in 2 .. n + 2 : longer[k] = path[k - 1]
    BY <1>1, <2>1, ConcatProperties
  <2> QED
    BY <2>2, <2>3
<1>4. ASSUME NEW k \in 1 .. n
      PROVE  /\ longer[k + 1] = path[k] /\ longer[(k + 1) + 1] = path[k + 1]
             /\ {path[k], path[k + 1]} \in Link
  BY <1>2, <1>3 DEF Walk
<1>5. longer[1] = a /\ longer[1 + 1] = path[1]
  BY <1>3
<1>6. Walk(longer)
  <2>1. ASSUME NEW k \in 1 .. n + 1 PROVE {longer[k], longer[k + 1]} \in Link
    <3>1. CASE k = 1
      BY <1>5, <3>1
    <3>2. CASE k # 1
      <4>1. k - 1 \in 1 .. n /\ (k - 1) + 1 = k
        BY <3>2
      <4> QED
        BY <1>4, <4>1
    <3> QED
      BY <3>1, <3>2
  <2>2. Len(longer) - 1 = n + 1 /\ longer # <<>>
    BY <1>3
  <2> QED
    BY <1>3, <2>1, <2>2 DEF Walk
<1>7. PICK sum : Sums(sum, path, cost) /\ PathCost(path, cost) = sum[n]
  BY <1>2, PathCostIs
<1>8. PICK more : Sums(more, longer, cost) /\ PathCost(longer, cost) = more[n + 1]
  <2>1. Len(longer) - 1 = n + 1
    BY <1>3
  <2> QED
    BY <1>6, <2>1, PathCostIs
<1>9. PICK c \in Nat : c = cost[{a, path[1]}]
  OBVIOUS
<1>10. /\ sum \in [0 .. n -> Nat] /\ sum[0] = 0
       /\ \A k \in 1 .. n : sum[k] = sum[k - 1] + cost[{path[k], path[k + 1]}]
       /\ more[0] = 0
       /\ \A k \in 1 .. n + 1 : more[k] = more[k - 1] + cost[{longer[k], longer[k + 1]}]
  <2>1. Len(longer) - 1 = n + 1
    BY <1>3
  <2> QED
    BY <1>2, <1>7, <1>8, <2>1 DEF Sums
<1> DEFINE P == {k \in 0 .. n : more[k + 1] = c + sum[k]}
<1>11. 0 \in P
  <2>1. more[1] = more[0] + cost[{longer[1], longer[1 + 1]}]
    BY <1>10
  <2> QED
    BY <1>5, <1>9, <1>10, <2>1
<1>12. ASSUME NEW k \in 0 .. n - 1, k \in P PROVE k + 1 \in P
  <2>1. k + 1 \in 1 .. n /\ (k + 1) + 1 \in 1 .. n + 1 /\ (k + 1) - 1 = k
        /\ ((k + 1) + 1) - 1 = k + 1 /\ k + 1 \in 0 .. n /\ k \in 0 .. n
    OBVIOUS
  <2>2. PICK w \in Nat : w = cost[{path[k + 1], path[(k + 1) + 1]}]
    BY <1>4, <2>1
  <2>3. more[(k + 1) + 1] = more[k + 1] + w
    BY <1>4, <1>10, <2>1, <2>2
  <2>4. sum[k + 1] = sum[k] + w /\ sum[k] \in Nat
    BY <1>10, <2>1, <2>2
  <2> QED
    BY <1>12, <2>1, <2>3, <2>4
<1> HIDE DEF P
<1>13. \A k \in 0 .. n - 1 : k \in P => k + 1 \in P
  BY <1>12
<1>14. n \in P
  <2>1. 0 .. n \subseteq P
    BY <1>11, <1>13, Induction
  <2> QED
    BY <2>1
<1> QED
  BY <1>1, <1>6, <1>7, <1>8, <1>9, <1>10, <1>14 DEF P

-----------------------------------------------------------------------------
(* The tree a search leaves behind: every node but the root has a          *)
(* predecessor, of a lower rank, and its distance is that of the           *)
(* predecessor and the cost of the link between them.                      *)
Tree(up, V, root, prev, dist, cost, rank) ==
    /\ V \subseteq Node /\ root \in V /\ cost \in [Link -> Nat] /\ up \subseteq Link
    /\ dist \in [V -> Nat] /\ dist[root] = 0 /\ rank \in [V -> 0 .. Cardinality(Node) - 1]
    /\ DOMAIN prev = V \ {root}
    /\ \A v \in V \ {root} :
          /\ prev[v] \in V /\ v \in Neighbors(prev[v], up)
          /\ dist[v] = dist[prev[v]] + cost[{prev[v], v}] /\ rank[prev[v]] < rank[v]

(* A node of rank k has its estimate after k rounds.                       *)
LEMMA EstimatesReach ==
    ASSUME NEW V, NEW root, NEW prev, NEW dist, NEW cost, NEW rank,
           Tree(active, V, root, prev, dist, cost, rank),
           NEW n \in Nat, NEW round, Rounds(round, n, root, cost)
    PROVE  \A k \in 0 .. n : \A v \in V : rank[v] <= k =>
              round[k][v] # Infinite /\ round[k][v] <= dist[v]
<1> DEFINE Near(k) == {v \in V : v = root \/ rank[v] <= k}
           P == {k \in 0 .. n : \A v \in Near(k) :
                    round[k][v] # Infinite /\ round[k][v] <= dist[v]}
<1>1. /\ V \subseteq Node /\ cost \in [Link -> Nat] /\ active \subseteq Link
      /\ \A v \in V : dist[v] \in Nat /\ rank[v] \in Nat
      /\ dist[root] = 0 /\ root \in V
  BY DEF Tree
<1>2. \A v \in V \ {root} :
          /\ prev[v] \in V /\ v \in Neighbors(prev[v], active)
          /\ dist[v] = dist[prev[v]] + cost[{prev[v], v}] /\ rank[prev[v]] < rank[v]
  BY DEF Tree
<1>3. 0 \in P
  <2> SUFFICES ASSUME NEW v \in Near(0)
               PROVE  round[0][v] # Infinite /\ round[0][v] <= dist[v]
    OBVIOUS
  <2>1. v = root
    <3> SUFFICES ASSUME v # root PROVE FALSE
      OBVIOUS
    <3>1. prev[v] \in V /\ rank[prev[v]] < rank[v] /\ rank[v] <= 0
      BY <1>2
    <3> QED
      BY <1>1, <3>1
  <2>2. round[0][v] = 0 /\ dist[v] = 0 /\ v \in Node
    BY <1>1, <2>1 DEF Rounds
  <2> QED
    BY <2>2 DEF Infinite
<1>4. ASSUME NEW k \in 0 .. n - 1, k \in P PROVE k + 1 \in P
  <2>1. k + 1 \in 1 .. n /\ (k + 1) - 1 = k /\ k + 1 \in 0 .. n /\ k \in 0 .. n
    OBVIOUS
  <2>2. round[k + 1] = Relaxation(round[k], cost) /\ round[k] \in Estimate
        /\ round[k + 1] \in Estimate
    BY <2>1 DEF Rounds
  <2>3. \A v \in Near(k) : round[k][v] # Infinite /\ round[k][v] <= dist[v]
    BY <1>4
  <2>4. ASSUME NEW v \in Near(k + 1)
        PROVE  round[k + 1][v] # Infinite /\ round[k + 1][v] <= dist[v]
    <3>1. v \in V /\ v \in Node /\ dist[v] \in Nat
      BY <1>1
    <3>2. CASE v = root
      <4>1. v \in Near(k) /\ round[k][v] \in Nat /\ round[k][v] <= dist[v]
            /\ round[k][v] # Infinite
        BY <2>2, <2>3, <3>1, <3>2 DEF Estimate
      <4>2. round[k + 1][v] # Infinite /\ round[k + 1][v] <= round[k][v]
        BY <1>1, <2>2, <3>1, <4>1, RelaxationIs
      <4>3. round[k + 1][v] \in Nat
        BY <2>2, <3>1, <4>2 DEF Estimate
      <4> QED
        BY <3>1, <4>1, <4>2, <4>3
    <3>3. CASE v # root
      <4>1. PICK u \in V : u = prev[v]
        BY <1>2, <3>1, <3>3
      <4>2. u \in Near(k)
        <5>1. rank[u] < rank[v] /\ rank[v] <= k + 1 /\ rank[u] \in Nat /\ rank[v] \in Nat
          BY <1>1, <1>2, <3>1, <3>3, <4>1
        <5> QED
          BY <5>1
      <4>3. round[k][u] # Infinite /\ round[k][u] <= dist[u]
        BY <2>3, <4>2
      <4>4. v \in Neighbors(u, active) /\ dist[v] = dist[u] + cost[{u, v}]
        BY <1>2, <3>1, <3>3, <4>1
      <4>5. u \in Node /\ u \in Neighbors(v, active) /\ cost[{u, v}] \in Nat
        BY <1>1, <4>4, NeighborsTyped
      <4>6. round[k + 1][v] # Infinite /\ round[k + 1][v] <= round[k][u] + cost[{u, v}]
        <5>1. /\ Relaxation(round[k], cost)[v] # Infinite
              /\ Relaxation(round[k], cost)[v] <= round[k][u] + cost[{u, v}]
          BY <1>1, <2>2, <3>1, <4>3, <4>5, RelaxationIs
        <5> QED
          BY <2>2, <5>1
      <4>7. round[k + 1][v] \in Nat /\ round[k][u] \in Nat /\ dist[u] \in Nat
        BY <1>1, <2>2, <3>1, <4>3, <4>5, <4>6 DEF Estimate
      <4> QED
        BY <4>3, <4>4, <4>5, <4>6, <4>7
    <3> QED
      BY <3>2, <3>3
  <2> QED
    BY <2>1, <2>4
<1> HIDE DEF P
<1>5. \A k \in 0 .. n - 1 : k \in P => k + 1 \in P
  BY <1>4
<1>6. 0 .. n \subseteq P
  BY <1>3, <1>5, Induction
<1> QED
  BY <1>6 DEF P

(* Hence no node of a tree is nearer to the root than its distance there,  *)
(* if only no estimate is.                                                 *)
LEMMA TreeEstimates ==
    ASSUME NEW V, NEW root, NEW prev, NEW dist, NEW cost, NEW rank,
           Tree(active, V, root, prev, dist, cost, rank)
    PROVE  /\ Distances(root, cost) \in Estimate
           /\ \A v \in V :
                Distances(root, cost)[v] # Infinite /\ Distances(root, cost)[v] <= dist[v]
<1>1. cost \in [Link -> Nat] /\ active \subseteq Link /\ root \in Node
  BY DEF Tree
<1>2. PICK n \in Nat : n = Cardinality(Node) - 1
  BY <1>1, DistancesAre
<1>3. PICK round : Rounds(round, n, root, cost) /\ Distances(root, cost) = round[n]
  BY <1>1, <1>2, DistancesAre
<1>4. round[n] \in Estimate
  BY <1>3 DEF Rounds
<1>5. \A v \in V : rank[v] <= n
  BY <1>2 DEF Tree
<1>6. \A v \in V : rank[v] <= n => round[n][v] # Infinite /\ round[n][v] <= dist[v]
  BY <1>2, <1>3, EstimatesReach
<1> QED
  BY <1>3, <1>4, <1>5, <1>6

LEMMA DistancesClosed ==
    ASSUME NEW cost \in [Link -> Nat], active \subseteq Link, NEW src \in Node,
           NEW C, <<src, 0>> \in C, Closed(active, C, cost)
    PROVE  \A w \in Node :
              Distances(src, cost)[w] # Infinite => <<w, Distances(src, cost)[w]>> \in C
<1>1. PICK n \in Nat : n = Cardinality(Node) - 1
  BY DistancesAre
<1>2. PICK round : Rounds(round, n, src, cost) /\ Distances(src, cost) = round[n]
  BY <1>1, DistancesAre
<1>3. n \in 0 .. n
  OBVIOUS
<1> QED
  BY <1>2, <1>3, EstimatesClosed

(* Following prev back from a node: the cost of the way behind and the     *)
(* distance of the node ahead make up the node's distance.                 *)
Follows(path, v, V, root, prev) ==
    /\ path[Len(path)] = v
    /\ \A k \in 1 .. Len(path) - 1 :
          path[k + 1] \in V \ {root} /\ path[k] = prev[path[k + 1]]

Leads(path, v, V, root, prev, dist, cost) ==
    /\ Walk(path) /\ path[1] \in V /\ Follows(path, v, V, root, prev)
    /\ dist[v] = dist[path[1]] + PathCost(path, cost)

Behind(v, V, root, prev, dist, cost) ==
    {path \in Seq(Node) : Leads(path, v, V, root, prev, dist, cost)}

Longer(path, root, prev) == IF Head(path) = root THEN path ELSE <<prev[Head(path)]>> \o path

LEMMA OneStepBack ==
    ASSUME NEW up, NEW V, NEW root, NEW prev, NEW dist, NEW cost, NEW rank,
           Tree(up, V, root, prev, dist, cost, rank),
           NEW v \in V, NEW path \in Behind(v, V, root, prev, dist, cost), path[1] # root
    PROVE  /\ Longer(path, root, prev) \in Behind(v, V, root, prev, dist, cost)
           /\ Longer(path, root, prev)[1] = prev[path[1]] /\ prev[path[1]] \in V
           /\ rank[prev[path[1]]] < rank[path[1]]
<1>1. /\ Leads(path, v, V, root, prev, dist, cost) /\ Walk(path)
      /\ cost \in [Link -> Nat] /\ up \subseteq Link /\ V \subseteq Node
      /\ \A w \in V : dist[w] \in Nat
  BY DEF Tree, Behind, Leads
<1>2. path \in Seq(Node) /\ path # <<>>
  BY <1>1 DEF Walk
<1>3. PICK w \in V : w = path[1] /\ w = Head(path) /\ w # root
  BY <1>1, <1>2 DEF Leads
<1>4. PICK u \in V : u = prev[w]
  BY <1>3 DEF Tree
<1>5. /\ w \in Neighbors(u, up) /\ dist[w] = dist[u] + cost[{u, w}] /\ u \in Node
      /\ rank[u] < rank[w]
  BY <1>3, <1>4 DEF Tree
<1>6. {u, w} \in Link /\ cost[{u, w}] \in Nat
  BY <1>1, <1>5, NeighborsTyped
<1>7. PICK longer : longer = <<u>> \o path
  OBVIOUS
<1>8. Longer(path, root, prev) = longer
  BY <1>3, <1>4, <1>7 DEF Longer
<1>9. /\ Walk(longer) /\ PathCost(path, cost) \in Nat
      /\ PathCost(longer, cost) = cost[{u, w}] + PathCost(path, cost)
  BY <1>1, <1>3, <1>5, <1>6, <1>7, PathCostStep
<1>10. longer[1] = u
  BY <1>2, <1>5, <1>7
<1>11. dist[v] = dist[w] + PathCost(path, cost) /\ dist[u] \in Nat
  BY <1>1, <1>3 DEF Leads
<1>12. dist[v] = dist[u] + PathCost(longer, cost)
  BY <1>5, <1>6, <1>9, <1>11
<1>13. Follows(longer, v, V, root, prev)
  <2>1. PICK n \in Nat : n = Len(path) /\ n # 0
    BY <1>2
  <2>2. /\ Len(longer) = n + 1 /\ longer[1] = u
        /\ \A k \in 1 .. n : longer[k + 1] = path[k]
    BY <1>2, <1>5, <1>7, <2>1
  <2>3. /\ path[n] = v
        /\ \A k \in 1 .. n - 1 : path[k + 1] \in V \ {root} /\ path[k] = prev[path[k + 1]]
    BY <1>1, <2>1 DEF Leads, Follows
  <2>4. longer[n + 1] = v
    BY <2>1, <2>2, <2>3
  <2>5. ASSUME NEW k \in 1 .. n
        PROVE  longer[k + 1] \in V \ {root} /\ longer[k] = prev[longer[k + 1]]
    <3>1. CASE k = 1
      BY <1>3, <1>4, <2>2, <3>1
    <3>2. CASE k # 1
      <4>1. k - 1 \in 1 .. n - 1 /\ (k - 1) + 1 = k /\ k - 1 \in 1 .. n
        BY <3>2
      <4>2. longer[k] = path[k - 1] /\ longer[k + 1] = path[k]
        BY <2>2, <4>1
      <4> QED
        BY <2>3, <4>1, <4>2
    <3> QED
      BY <3>1, <3>2
  <2>6. Len(longer) - 1 = n
    BY <2>2
  <2> QED
    BY <2>2, <2>4, <2>5, <2>6 DEF Follows
<1>14. Leads(longer, v, V, root, prev, dist, cost) /\ longer \in Seq(Node)
  BY <1>9, <1>10, <1>12, <1>13 DEF Leads, Walk
<1> QED
  BY <1>3, <1>4, <1>5, <1>8, <1>10, <1>14 DEF Behind

FollowedBack(back, v, V, root, prev, dist, cost) ==
    /\ back \in [0 .. Cardinality(Node) -> Behind(v, V, root, prev, dist, cost)]
    /\ PathFromPrev(prev, root, v) = back[Cardinality(Node)] /\ back[0] = <<v>>
    /\ \A k \in 1 .. Cardinality(Node) : back[k] = Longer(back[k - 1], root, prev)

LEMMA BackIs ==
    ASSUME NEW up, NEW V, NEW root, NEW prev, NEW dist, NEW cost, NEW rank,
           Tree(up, V, root, prev, dist, cost, rank), NEW v \in V
    PROVE  /\ Cardinality(Node) \in Nat /\ Cardinality(Node) # 0
           /\ \E back : FollowedBack(back, v, V, root, prev, dist, cost)
<1> DEFINE B == Behind(v, V, root, prev, dist, cost)
<1>1. cost \in [Link -> Nat] /\ V \subseteq Node /\ dist[v] \in Nat
  BY DEF Tree
<1>2. Cardinality(Node) \in Nat /\ Cardinality(Node) # 0
  BY <1>1, TopologyAssumption, FS_CardinalityType, FS_EmptySet
<1>3. PICK n \in Nat : n = Cardinality(Node)
  BY <1>2
<1>4. <<v>> \in B
  <2>1. Walk(<<v>>) /\ PathCost(<<v>>, cost) = 0 /\ <<v>>[1] = v /\ <<v>> \in Seq(Node)
    BY <1>1, PathCostOfOne
  <2>2. dist[v] = dist[v] + 0
    BY <1>1
  <2>3. Follows(<<v>>, v, V, root, prev)
    BY DEF Follows
  <2> QED
    BY <2>1, <2>2, <2>3 DEF Behind, Leads
<1>5. ASSUME NEW path \in B PROVE Longer(path, root, prev) \in B
  <2>1. path[1] = Head(path)
    BY DEF Behind, Leads, Walk
  <2>2. CASE path[1] = root
    BY <2>1, <2>2 DEF Longer
  <2>3. CASE path[1] # root
    BY <2>3, OneStepBack
  <2> QED
    BY <2>2, <2>3
<1> DEFINE next == [k \in Nat |-> [path \in B |-> Longer(path, root, prev)]]
           back[k \in 0 .. n] ==
              IF k = 0 THEN <<v>>
              ELSE LET p == back[k - 1]
                   IN IF Head(p) = root THEN p ELSE <<prev[Head(p)]>> \o p
<1>6. next \in Steps(B)
  BY <1>5 DEF Steps
<1>7. \A k \in Nat : \A path \in B : next[k][path] = Longer(path, root, prev)
  OBVIOUS
<1>8. PathFromPrev(prev, root, v) = back[n]
  BY <1>3 DEF PathFromPrev
<1> HIDE DEF next, back, B
<1>9. PICK g \in [0 .. n -> B] : Repeats(g, n, <<v>>, next)
  BY <1>4, <1>6, Iteration
<1>10. \A k \in 0 .. n : k # 0 => k - 1 \in 0 .. n
  OBVIOUS
<1>11. g = [k \in 0 .. n |-> IF k = 0 THEN <<v>> ELSE Longer(g[k - 1], root, prev)]
  BY <1>7, <1>9, <1>10 DEF Repeats
<1>12. back = [k \in 0 .. n |-> IF k = 0 THEN <<v>> ELSE Longer(back[k - 1], root, prev)]
  BY <1>11 DEF back, Longer
<1>13. /\ back[0] = <<v>> /\ back = [k \in 0 .. n |-> back[k]]
       /\ \A k \in 1 .. n : back[k] = Longer(back[k - 1], root, prev)
  BY <1>12
<1>14. back \in [0 .. n -> B]
  <2>1. \A k \in 1 .. n : back[k - 1] \in B => back[k] \in B
    BY <1>5, <1>13
  <2>2. back[0] \in B /\ back = [k \in 0 .. n |-> back[k]]
    BY <1>4, <1>13
  <2> QED
    BY <2>1, <2>2, IterationTyped
<1> QED
  BY <1>2, <1>3, <1>8, <1>13, <1>14 DEF B, FollowedBack

(* The rank falls with every step back that has not come to the root.      *)
LEMMA TreePath ==
    ASSUME NEW up, NEW V, NEW root, NEW prev, NEW dist, NEW cost, NEW rank,
           Tree(up, V, root, prev, dist, cost, rank), NEW v \in V
    PROVE  /\ Walk(PathFromPrev(prev, root, v)) /\ Head(PathFromPrev(prev, root, v)) = root
           /\ PathCost(PathFromPrev(prev, root, v), cost) = dist[v]
           /\ Follows(PathFromPrev(prev, root, v), v, V, root, prev)
<1> DEFINE B == Behind(v, V, root, prev, dist, cost)
<1>1. /\ dist[root] = 0 /\ cost \in [Link -> Nat]
      /\ \A w \in V : dist[w] \in Nat /\ rank[w] \in 0 .. Cardinality(Node) - 1
  BY DEF Tree
<1>2. PICK n \in Nat : n = Cardinality(Node) /\ n # 0
  BY BackIs
<1>3. PICK back \in [0 .. n -> B] :
          /\ PathFromPrev(prev, root, v) = back[n] /\ back[0] = <<v>>
          /\ \A k \in 1 .. n : back[k] = Longer(back[k - 1], root, prev)
  <2>1. \E back : FollowedBack(back, v, V, root, prev, dist, cost)
    BY BackIs
  <2> QED
    BY <1>2, <2>1 DEF FollowedBack
<1>4. ASSUME NEW path \in B
      PROVE  /\ Head(path) = path[1] /\ Walk(path) /\ path[1] \in V
             /\ Follows(path, v, V, root, prev)
             /\ dist[v] = dist[path[1]] + PathCost(path, cost)
  <2>1. Leads(path, v, V, root, prev, dist, cost)
    BY DEF Behind
  <2>2. Walk(path)
    BY <2>1 DEF Leads
  <2>3. Head(path) = path[1]
    BY <2>2 DEF Walk
  <2> QED
    BY <2>1, <2>2, <2>3 DEF Leads
<1>5. ASSUME NEW path \in B, path[1] # root
      PROVE  /\ Longer(path, root, prev)[1] \in V
             /\ rank[Longer(path, root, prev)[1]] < rank[path[1]]
  BY <1>5, OneStepBack
<1> HIDE DEF B
<1> DEFINE P == {k \in 0 .. n : back[k][1] = root \/ rank[back[k][1]] + k < n}
<1>6. 0 \in P
  <2>1. rank[v] \in 0 .. n - 1 /\ <<v>>[1] = v
    BY <1>1, <1>2
  <2> QED
    BY <1>3, <2>1
<1>7. ASSUME NEW k \in 0 .. n - 1, k \in P PROVE k + 1 \in P
  <2>1. k + 1 \in 1 .. n /\ (k + 1) - 1 = k /\ k + 1 \in 0 .. n /\ k \in 0 .. n
    OBVIOUS
  <2>2. PICK p \in B : p = back[k]
    BY <2>1
  <2>3. PICK q \in B : q = back[k + 1]
    BY <2>1
  <2>4. q = Longer(p, root, prev)
    BY <1>3, <2>1, <2>2, <2>3
  <2>5. CASE p[1] = root
    <3>1. q = p
      BY <1>4, <2>4, <2>5 DEF Longer
    <3> QED
      BY <2>1, <2>3, <2>5, <3>1
  <2>6. CASE p[1] # root
    <3>1. rank[p[1]] + k < n
      BY <1>7, <2>2, <2>6
    <3>2. rank[q[1]] < rank[p[1]] /\ rank[q[1]] \in Nat /\ rank[p[1]] \in Nat
      <4>1. q[1] \in V /\ p[1] \in V
        BY <1>4
      <4> QED
        BY <1>1, <1>2, <1>5, <2>4, <2>6, <4>1
    <3>3. rank[q[1]] + (k + 1) < n
      BY <3>1, <3>2
    <3> QED
      BY <2>1, <2>3, <3>3
  <2> QED
    BY <2>5, <2>6
<1> HIDE DEF P
<1>8. \A k \in 0 .. n - 1 : k \in P => k + 1 \in P
  BY <1>7
<1>9. n \in P
  <2>1. 0 .. n \subseteq P
    BY <1>6, <1>8, Induction
  <2> QED
    BY <2>1
<1>10. PICK path \in B : path = back[n]
  OBVIOUS
<1>11. path[1] = root
  <2> SUFFICES ASSUME path[1] # root PROVE FALSE
    OBVIOUS
  <2>1. rank[path[1]] + n < n
    BY <1>9, <1>10 DEF P
  <2>2. rank[path[1]] \in Nat
    BY <1>1, <1>2, <1>4
  <2> QED
    BY <2>1, <2>2
<1>12. PathCost(path, cost) \in Nat
  <2>1. PICK sum : Sums(sum, path, cost) /\ PathCost(path, cost) = sum[Len(path) - 1]
    BY <1>1, <1>4, PathCostIs
  <2>2. Len(path) - 1 \in 0 .. Len(path) - 1
    BY <1>4 DEF Walk
  <2> QED
    BY <2>1, <2>2 DEF Sums
<1>13. dist[v] = 0 + PathCost(path, cost)
  BY <1>1, <1>4, <1>11
<1> QED
  BY <1>3, <1>4, <1>10, <1>11, <1>12, <1>13

-----------------------------------------------------------------------------
(* The invariant of Dijkstra's loop.                                       *)
Labelled(s) == DOMAIN s.dist
Waiting(s) == Labelled(s) \ s.visited

DijkstraTyped(s, up, delay, root) ==
    /\ delay \in [Link -> Nat] /\ up \subseteq Link /\ root \in Node
    /\ s = [dist |-> s.dist, prev |-> s.prev, visited |-> s.visited, pq |-> s.pq]
    /\ Labelled(s) \subseteq Node /\ s.dist \in [Labelled(s) -> Nat]
    /\ s.visited \subseteq Labelled(s)
    /\ \A e \in s.pq : e = <<e[1], e[2]>> /\ e[1] \in Nat /\ e[2] \in Labelled(s)

(* Every node labelled and not yet visited waits in the heap under its     *)
(* distance; what else is there is stale.                                  *)
HeapHolds(s) ==
    /\ \A e \in s.pq : s.dist[e[2]] <= e[1]
    /\ \A v \in Waiting(s) : <<s.dist[v], v>> \in s.pq

(* Nodes are visited in the order of their distances, and the links of a   *)
(* visited node are relaxed.                                               *)
VisitedFirst(s, up, delay) ==
    /\ \A u \in s.visited, v \in Waiting(s) : s.dist[u] <= s.dist[v]
    /\ \A u \in s.visited : \A v \in Neighbors(u, up) :
          v \in Labelled(s) /\ s.dist[v] <= s.dist[u] + delay[{u, v}]

(* prev leads to a node visited before, at the difference of the distances.*)
Rooted(s, up, delay, root) ==
    /\ root \in Labelled(s) /\ s.dist[root] = 0
    /\ DOMAIN s.prev = Labelled(s) \ {root}
    /\ \A v \in DOMAIN s.prev :
          /\ s.prev[v] \in s.visited /\ v \in Neighbors(s.prev[v], up)
          /\ s.dist[v] = s.dist[s.prev[v]] + delay[{s.prev[v], v}]

(* The order of the visits.                                                *)
Turns(s, root) ==
    {turn \in [s.visited -> 0 .. Cardinality(s.visited) - 1] :
        \A v \in s.visited \ {root} : turn[s.prev[v]] < turn[v]}

(* With the same positive weight on all links nodes of one distance are    *)
(* visited in the order of their numbers, and prev is the first of those   *)
(* that give a node its distance.                                          *)
Uniform(delay, w) == w \in Nat \ {0} /\ \A l \in Link : delay[l] = w

Ties(s, up, root, w) ==
    /\ \A u \in s.visited, v \in Waiting(s) : s.dist[u] = s.dist[v] => u < v
    /\ \A u \in s.visited : \A v \in Neighbors(u, up) \ {root} :
          s.dist[v] = s.dist[u] + w => s.prev[v] <= u
    /\ \A v \in Labelled(s) : \E m \in Nat : s.dist[v] = w * m

DijkstraHolds(s, up, delay, root) ==
    /\ DijkstraTyped(s, up, delay, root) /\ HeapHolds(s)
    /\ VisitedFirst(s, up, delay) /\ Rooted(s, up, delay, root)
    /\ \E turn \in Turns(s, root) : TRUE
    /\ \A w : Uniform(delay, w) => Ties(s, up, root, w)

DijkstraInv == DijkstraHolds(dij, active, weight, dst)

LEMMA InitDijkstra ==
    ASSUME NEW up, up \subseteq Link, NEW delay \in [Link -> Nat], NEW root \in Node,
           NEW s, s = DijkstraInit(root)
    PROVE  DijkstraHolds(s, up, delay, root)
<1>1. s = [dist |-> [v \in {root} |-> 0], prev |-> <<>>, visited |-> {}, pq |-> {<<0, root>>}]
  BY DEF DijkstraInit
<1>2. /\ s.dist = [v \in {root} |-> 0] /\ s.visited = {} /\ s.pq = {<<0, root>>}
      /\ DOMAIN s.prev = {} /\ s.dist[root] = 0
      /\ s = [dist |-> s.dist, prev |-> s.prev, visited |-> s.visited, pq |-> s.pq]
  BY <1>1
<1>3. Labelled(s) = {root} /\ Waiting(s) = {root}
  BY <1>2 DEF Labelled, Waiting
<1>4. DijkstraTyped(s, up, delay, root)
  <2>1. root \in Node /\ delay \in [Link -> Nat] /\ up \subseteq Link
    OBVIOUS
  <2>2. \A e \in s.pq : e = <<e[1], e[2]>> /\ e[1] \in Nat /\ e[2] \in Labelled(s)
    BY <1>2, <1>3
  <2>3. /\ Labelled(s) \subseteq Node /\ s.dist \in [Labelled(s) -> Nat]
        /\ s.visited \subseteq Labelled(s)
    BY <1>2, <1>3
  <2> QED
    BY <1>2, <2>1, <2>2, <2>3 DEF DijkstraTyped
<1>5. HeapHolds(s) /\ VisitedFirst(s, up, delay)
  BY <1>2, <1>3 DEF HeapHolds, VisitedFirst
<1>6. Rooted(s, up, delay, root)
  BY <1>2, <1>3 DEF Rooted
<1>7. \E turn \in Turns(s, root) : TRUE
  <2>1. [v \in {} |-> 0] \in Turns(s, root)
    BY <1>1 DEF Turns
  <2> QED
    BY <2>1
<1>8. ASSUME NEW w, Uniform(delay, w) PROVE Ties(s, up, root, w)
  <2>1. \A v \in Labelled(s) : s.dist[v] = w * 0
    BY <1>1, <1>3, <1>8 DEF Uniform
  <2>2. s.visited = {}
    BY <1>1
  <2> QED
    BY <2>1, <2>2 DEF Ties
<1> QED
  BY <1>4, <1>5, <1>6, <1>7, <1>8 DEF DijkstraHolds

(* The entry popped: no other comes before it.                             *)
Before(d, u, o) == d < o[1] \/ (d = o[1] /\ u <= o[2])

LEMMA TopOfHeap ==
    ASSUME NEW s, NEW up, NEW delay, NEW root, DijkstraTyped(s, up, delay, root), s.pq # {}
    PROVE  /\ HeapTop(s.pq) \in s.pq
           /\ \A o \in s.pq : /\ Before(HeapTop(s.pq)[1], HeapTop(s.pq)[2], o)
                              /\ HeapTop(s.pq)[1] <= o[1]
<1> DEFINE First == {e[1] : e \in s.pq}
<1>1. First \subseteq Nat /\ First # {}
  BY DEF DijkstraTyped
<1>2. PICK d \in First : \A k \in First : d <= k
  BY <1>1, LeastNatural
<1> DEFINE Second == {e[2] : e \in {e \in s.pq : e[1] = d}}
<1>3. Second \subseteq Nat /\ Second # {}
  BY TopologyAssumption DEF DijkstraTyped
<1>4. PICK u \in Second : \A k \in Second : u <= k
  BY <1>3, LeastNatural
<1>5. PICK e \in s.pq : e[1] = d /\ e[2] = u
  BY <1>4
<1>6. \A o \in s.pq : e[1] < o[1] \/ (e[1] = o[1] /\ e[2] <= o[2])
  <2> SUFFICES ASSUME NEW o \in s.pq PROVE e[1] < o[1] \/ (e[1] = o[1] /\ e[2] <= o[2])
    OBVIOUS
  <2>1. o[1] \in Nat /\ d \in Nat /\ d <= o[1]
    BY <1>1, <1>2
  <2>2. CASE o[1] = d
    BY <1>4, <1>5, <2>2
  <2> QED
    BY <1>5, <2>1, <2>2
<1>7. /\ HeapTop(s.pq) \in s.pq
      /\ \A o \in s.pq : \/ HeapTop(s.pq)[1] < o[1]
                         \/ HeapTop(s.pq)[1] = o[1] /\ HeapTop(s.pq)[2] <= o[2]
  BY <1>5, <1>6 DEF HeapTop
<1>8. \A o \in s.pq : o[1] \in Nat
  BY DEF DijkstraTyped
<1> QED
  BY <1>7, <1>8 DEF Before

-----------------------------------------------------------------------------
(* The nearest node waiting is visited.                                    *)
AfterVisit(s, delay, d, u, better) ==
    [dist |-> Updated(s.dist, [v \in better |-> d + delay[{u, v}]]),
     prev |-> SetPrev(s.prev, better, u),
     visited |-> s.visited \cup {u},
     pq |-> (s.pq \ {<<d, u>>}) \cup {<<d + delay[{u, v}], v>> : v \in better}]

(* A stale entry is dropped, or the nearest node waiting is visited.       *)
LEMMA PopPrepared ==
    ASSUME NEW s, NEW t, NEW up, NEW delay, NEW root,
           DijkstraHolds(s, up, delay, root), s.pq # {}, t = DijkstraStep(s, up, delay)
    PROVE  \E e \in s.pq : \E d \in Nat, u \in Labelled(s) :
              /\ e = <<d, u>> /\ \A o \in s.pq : d <= o[1] /\ Before(d, u, o)
              /\ \/ u \in s.visited /\ t = SkipVisited(s, e)
                 \/ /\ u \in Waiting(s) /\ s.dist[u] = d
                    /\ t = AfterVisit(s, delay, d, u, Relaxed(s, u, d, up, delay))
<1>1. DijkstraTyped(s, up, delay, root) /\ HeapHolds(s) /\ s.pq # {}
  BY DEF DijkstraHolds
<1>2. PICK e : e = HeapTop(s.pq)
  OBVIOUS
<1>3. e \in s.pq /\ \A o \in s.pq : e[1] <= o[1] /\ Before(e[1], e[2], o)
  BY <1>1, <1>2, TopOfHeap
<1>4. PICK d \in Nat, u \in Labelled(s) : e = <<d, u>>
  BY <1>1, <1>3 DEF DijkstraTyped
<1>5. e[1] = d /\ e[2] = u
  BY <1>4
<1>6. t = IF u \in s.visited THEN SkipVisited(s, e)
             ELSE AfterVisit(s, delay, d, u, Relaxed(s, u, d, up, delay))
  BY <1>2, <1>4, <1>5 DEF DijkstraStep, AfterVisit
<1>7. CASE u \in s.visited
  BY <1>3, <1>4, <1>5, <1>6, <1>7
<1>8. CASE u \notin s.visited
  <2>1. u \in Waiting(s)
    BY <1>8 DEF Waiting
  <2>2. <<s.dist[u], u>> \in s.pq /\ s.dist[u] <= d
    BY <1>1, <1>3, <1>5, <2>1 DEF HeapHolds
  <2>3. d <= s.dist[u]
    BY <1>3, <1>5, <2>2
  <2>4. s.dist[u] \in Nat
    BY <1>1 DEF DijkstraTyped
  <2>5. s.dist[u] = d
    BY <2>2, <2>3, <2>4
  <2> QED
    BY <1>3, <1>4, <1>5, <1>6, <1>8, <2>1, <2>5
<1> QED
  BY <1>7, <1>8

LEMMA SkipKeeps ==
    ASSUME NEW s, NEW t, NEW up, NEW delay, NEW root,
           DijkstraHolds(s, up, delay, root), NEW e \in s.pq, e[2] \in s.visited,
           t = SkipVisited(s, e)
    PROVE  DijkstraHolds(t, up, delay, root)
<1>1. DijkstraTyped(s, up, delay, root)
  BY DEF DijkstraHolds
<1>2. t = [dist |-> s.dist, prev |-> s.prev, visited |-> s.visited,
              pq |-> s.pq \ {e}]
  BY <1>1 DEF DijkstraTyped, SkipVisited
<1>3. /\ t.dist = s.dist /\ t.prev = s.prev /\ t.visited = s.visited
      /\ t.pq = s.pq \ {e} /\ Labelled(t) = Labelled(s) /\ Waiting(t) = Waiting(s)
  BY <1>2 DEF Labelled, Waiting
<1>4. DijkstraTyped(t, up, delay, root)
  BY <1>1, <1>2, <1>3 DEF DijkstraTyped
<1>5. HeapHolds(t)
  <2>1. ASSUME NEW v \in Waiting(s) PROVE <<s.dist[v], v>> \in s.pq \ {e}
    BY <2>1 DEF DijkstraHolds, HeapHolds, Waiting
  <2> QED
    BY <1>3, <2>1 DEF HeapHolds, DijkstraHolds
<1>6. VisitedFirst(t, up, delay) /\ Rooted(t, up, delay, root)
  BY <1>3 DEF DijkstraHolds, VisitedFirst, Rooted, Neighbors
<1>7. Turns(t, root) = Turns(s, root)
  BY <1>3 DEF Turns
<1>8. ASSUME NEW w, Uniform(delay, w) PROVE Ties(t, up, root, w)
  <2>1. Ties(s, up, root, w)
    BY <1>8 DEF DijkstraHolds, Uniform
  <2> QED
    BY <1>3, <2>1 DEF Ties, Neighbors
<1> QED
  BY <1>4, <1>5, <1>6, <1>7, <1>8 DEF DijkstraHolds

LEMMA VisitKeeps ==
    ASSUME NEW s, NEW t, NEW up, NEW delay, NEW root,
           DijkstraHolds(s, up, delay, root), NEW d \in Nat, NEW u \in Waiting(s), s.dist[u] = d,
           \A o \in s.pq : d <= o[1] /\ Before(d, u, o),
           NEW better, better = Relaxed(s, u, d, up, delay),
           t = AfterVisit(s, delay, d, u, better)
    PROVE  DijkstraHolds(t, up, delay, root)
<1> DEFINE cost == [v \in better |-> d + delay[{u, v}]]
<1>1. /\ DijkstraTyped(s, up, delay, root) /\ HeapHolds(s) /\ VisitedFirst(s, up, delay)
         /\ Rooted(s, up, delay, root)
      /\ u \in Labelled(s) /\ u \in Node /\ u \notin s.visited
  BY DEF DijkstraHolds, DijkstraTyped, Waiting
<1>2. \A v \in Neighbors(u, up) :
          v \in Node /\ u # v /\ delay[{u, v}] \in Nat /\ d + delay[{u, v}] \in Nat
  <2> SUFFICES ASSUME NEW v \in Neighbors(u, up)
               PROVE  v \in Node /\ u # v /\ delay[{u, v}] \in Nat
    OBVIOUS
  <2>1. v \in Node /\ u # v /\ {u, v} \in Link
    BY <1>1, NeighborsTyped DEF DijkstraTyped
  <2> QED
    BY <1>1, <2>1 DEF DijkstraTyped
<1>3. ASSUME NEW v \in better
      PROVE  /\ v \in Neighbors(u, up) /\ v \in Node /\ v # u /\ cost[v] \in Nat
             /\ d <= cost[v] /\ cost[v] = d + delay[{u, v}]
             /\ v \in Labelled(s) => cost[v] < s.dist[v]
             /\ v \notin s.visited /\ v # root
  <2>1. /\ v \in Neighbors(u, up)
        /\ v \in Labelled(s) => d + delay[{u, v}] < s.dist[v]
    BY DEF Relaxed, Labelled
  <2>2. v \in Node /\ u # v /\ delay[{u, v}] \in Nat /\ d <= d + delay[{u, v}]
    BY <1>2, <2>1
  <2>3. \A x \in Labelled(s) : s.dist[x] \in Nat
    BY <1>1 DEF DijkstraTyped
  <2>4. ASSUME v \in s.visited PROVE FALSE
    <3>1. s.dist[v] <= d /\ v \in Labelled(s)
      BY <1>1, <2>4 DEF VisitedFirst, DijkstraTyped
    <3> QED
      BY <2>1, <2>2, <2>3, <3>1
  <2>5. v # root
    BY <1>1, <2>1, <2>2 DEF Rooted
  <2> QED
    BY <1>2, <2>1, <2>2, <2>4, <2>5
<1>4. better \subseteq Node /\ DOMAIN cost = better
  BY <1>3
<1>5. \A v \in Neighbors(u, up) \ better :
          v \in Labelled(s) /\ s.dist[v] <= d + delay[{u, v}]
  <2> SUFFICES ASSUME NEW v \in Neighbors(u, up) \ better
               PROVE  v \in Labelled(s) /\ s.dist[v] <= d + delay[{u, v}]
    OBVIOUS
  <2>1. v \in Labelled(s) /\ ~ (d + delay[{u, v}] < s.dist[v])
    BY DEF Relaxed, Labelled
  <2>2. s.dist[v] \in Nat
    BY <1>1, <2>1 DEF DijkstraTyped
  <2>3. d + delay[{u, v}] \in Nat
    BY <1>2
  <2> QED
    BY <2>1, <2>2, <2>3
<1>6. /\ t.dist = Updated(s.dist, cost) /\ t.visited = s.visited \cup {u}
      /\ t.prev = SetPrev(s.prev, better, u)
      /\ t.pq = (s.pq \ {<<d, u>>}) \cup {<<d + delay[{u, v}], v>> : v \in better}
      /\ t = [dist |-> t.dist, prev |-> t.prev, visited |-> t.visited,
                 pq |-> t.pq]
  BY DEF AfterVisit
<1>7. /\ Labelled(t) = Labelled(s) \cup better
      /\ t.dist = [v \in Labelled(t) |-> IF v \in better THEN cost[v] ELSE s.dist[v]]
  BY <1>4, <1>6 DEF Labelled, Updated
<1>8. Waiting(t) = (Waiting(s) \ {u}) \cup better
  BY <1>1, <1>3, <1>6, <1>7 DEF Waiting
<1>9. /\ DOMAIN t.prev = DOMAIN s.prev \cup better
      /\ \A v \in DOMAIN t.prev : t.prev[v] = IF v \in better THEN u ELSE s.prev[v]
  BY <1>6 DEF SetPrev, Updated
<1>10. t.pq = (s.pq \ {<<d, u>>}) \cup {<<cost[v], v>> : v \in better}
  BY <1>6
<1> HIDE DEF cost
<1>11. /\ \A v \in better : t.dist[v] = cost[v] /\ v \in Labelled(t)
       /\ \A v \in Labelled(s) \ better : t.dist[v] = s.dist[v] /\ v \in Labelled(t)
       /\ \A v \in s.visited \cup {u} : v \in Labelled(s) \ better /\ t.dist[v] = s.dist[v]
       /\ \A v \in Labelled(s) : s.dist[v] \in Nat /\ t.dist[v] <= s.dist[v]
       /\ \A v \in Labelled(t) : t.dist[v] \in Nat
  <2>1. \A v \in Labelled(s) : s.dist[v] \in Nat /\ v \in Labelled(t)
    BY <1>1, <1>7 DEF DijkstraTyped
  <2>2. \A v \in s.visited \cup {u} : v \in Labelled(s) \ better
    BY <1>1, <1>3 DEF DijkstraTyped
  <2>3. /\ \A v \in better : t.dist[v] = cost[v] /\ v \in Labelled(t)
        /\ \A v \in Labelled(s) \ better : t.dist[v] = s.dist[v] /\ v \in Labelled(t)
    BY <1>7
  <2>4. \A v \in better : cost[v] \in Nat /\ (v \in Labelled(s) => cost[v] < s.dist[v])
    BY <1>3
  <2>5. ASSUME NEW v \in Labelled(s)
        PROVE  s.dist[v] \in Nat /\ t.dist[v] \in Nat /\ t.dist[v] <= s.dist[v]
    <3>1. CASE v \in better
      <4>1. t.dist[v] = cost[v] /\ cost[v] \in Nat /\ cost[v] < s.dist[v] /\ s.dist[v] \in Nat
        BY <2>1, <2>3, <2>4, <3>1
      <4> QED
        BY <4>1
    <3>2. CASE v \notin better
      BY <2>1, <2>3, <3>2
    <3> QED
      BY <3>1, <3>2
  <2>6. \A v \in Labelled(t) : t.dist[v] \in Nat
    BY <1>7, <2>3, <2>4, <2>5
  <2> QED
    BY <2>1, <2>2, <2>3, <2>5, <2>6
<1>12. DijkstraTyped(t, up, delay, root)
  <2>1. Labelled(t) \subseteq Node /\ t.dist \in [Labelled(t) -> Nat]
    BY <1>1, <1>4, <1>7, <1>11 DEF DijkstraTyped
  <2>2. t.visited \subseteq Labelled(t)
    BY <1>6, <1>7, <1>11
  <2>3. ASSUME NEW e \in t.pq PROVE e = <<e[1], e[2]>> /\ e[1] \in Nat /\ e[2] \in Labelled(t)
    <3>1. CASE e \in s.pq
      BY <1>1, <1>7, <3>1 DEF DijkstraTyped
    <3>2. CASE \E v \in better : e = <<cost[v], v>>
      <4>1. PICK v \in better : e = <<cost[v], v>>
        BY <3>2
      <4>2. cost[v] \in Nat /\ v \in Labelled(t)
        BY <1>3, <1>7
      <4> QED
        BY <4>1, <4>2
    <3> QED
      BY <1>10, <3>1, <3>2
  <2> QED
    BY <1>1, <1>6, <2>1, <2>2, <2>3 DEF DijkstraTyped
<1>13. HeapHolds(t)
  <2>1. ASSUME NEW e \in t.pq PROVE t.dist[e[2]] <= e[1]
    <3>1. CASE e \in s.pq
      <4>1. e[2] \in Labelled(s) /\ e[1] \in Nat /\ s.dist[e[2]] <= e[1]
        BY <1>1, <3>1 DEF DijkstraTyped, HeapHolds
      <4>2. s.dist[e[2]] \in Nat /\ t.dist[e[2]] <= s.dist[e[2]] /\ t.dist[e[2]] \in Nat
        BY <1>7, <1>11, <4>1
      <4> QED
        BY <4>1, <4>2
    <3>2. CASE \E v \in better : e = <<cost[v], v>>
      BY <1>3, <1>11, <3>2
    <3> QED
      BY <1>10, <3>1, <3>2
  <2>2. ASSUME NEW v \in Waiting(t) PROVE <<t.dist[v], v>> \in t.pq
    <3>1. CASE v \in better
      BY <1>10, <1>11, <3>1
    <3>2. CASE v \notin better
      <4>1. v \in Waiting(s) /\ v # u /\ v \in Labelled(s) \ better
        BY <1>8, <3>2 DEF Waiting
      <4>2. <<s.dist[v], v>> \in s.pq /\ <<s.dist[v], v>> # <<d, u>>
        BY <1>1, <4>1 DEF HeapHolds
      <4> QED
        BY <1>10, <1>11, <4>1, <4>2
    <3> QED
      BY <3>1, <3>2
  <2> QED
    BY <2>1, <2>2 DEF HeapHolds
<1>14. VisitedFirst(t, up, delay)
  <2>1. ASSUME NEW x \in t.visited, NEW v \in Waiting(t) PROVE t.dist[x] <= t.dist[v]
    <3>1. t.dist[x] = s.dist[x] /\ s.dist[x] <= d /\ s.dist[x] \in Nat
      BY <1>1, <1>6, <1>11 DEF VisitedFirst
    <3>2. d <= t.dist[v] /\ t.dist[v] \in Nat
      <4>1. CASE v \in better
        BY <1>3, <1>11, <4>1
      <4>2. CASE v \notin better
        <5>1. v \in Waiting(s) /\ v \in Labelled(s) \ better
          BY <1>8, <4>2 DEF Waiting
        <5>2. <<s.dist[v], v>> \in s.pq
          BY <1>1, <5>1 DEF HeapHolds
        <5>3. d <= <<s.dist[v], v>>[1]
          BY <5>2
        <5> QED
          BY <1>11, <5>1, <5>3
      <4> QED
        BY <4>1, <4>2
    <3> QED
      BY <3>1, <3>2
  <2>2. ASSUME NEW x \in t.visited, NEW v \in Neighbors(x, up)
        PROVE  v \in Labelled(t) /\ t.dist[v] <= t.dist[x] + delay[{x, v}]
    <3>1. t.dist[x] = s.dist[x] /\ x \in Node /\ s.dist[x] \in Nat
      BY <1>1, <1>6, <1>11 DEF DijkstraTyped
    <3>2. delay[{x, v}] \in Nat
      <4>1. {x, v} \in Link
        BY <1>1, <3>1, NeighborsTyped DEF DijkstraTyped
      <4> QED
        BY <1>1, <4>1 DEF DijkstraTyped
    <3>3. CASE x = u /\ v \in better
      BY <1>3, <1>11, <3>1, <3>3
    <3>4. CASE x = u /\ v \notin better
      BY <1>5, <1>11, <3>1, <3>4
    <3>5. CASE x # u
      <4>1. v \in Labelled(s) /\ s.dist[v] <= s.dist[x] + delay[{x, v}]
        BY <1>1, <1>6, <3>5 DEF VisitedFirst
      <4>2. s.dist[v] \in Nat /\ t.dist[v] <= s.dist[v] /\ v \in Labelled(t)
            /\ t.dist[v] \in Nat
        BY <1>7, <1>11, <4>1
      <4> QED
        BY <3>1, <3>2, <4>1, <4>2
    <3> QED
      BY <3>3, <3>4, <3>5
  <2>3. up = up /\ delay = delay
    OBVIOUS
  <2> QED
    BY <2>1, <2>2, <2>3 DEF VisitedFirst, Neighbors
<1>15. Rooted(t, up, delay, root)
  <2>1. root \in Labelled(t) /\ t.dist[root] = 0 /\ DOMAIN t.prev = Labelled(t) \ {root}
    <3>1. root \in Labelled(s) \ better /\ s.dist[root] = 0 /\ DOMAIN s.prev = Labelled(s) \ {root}
      BY <1>1, <1>3 DEF Rooted
    <3>2. root \in Labelled(t) /\ t.dist[root] = 0
      BY <1>11, <3>1
    <3>3. DOMAIN t.prev = (Labelled(s) \ {root}) \cup better /\ root \notin better
      BY <1>9, <3>1
    <3> QED
      BY <1>7, <3>2, <3>3
  <2>2. ASSUME NEW v \in DOMAIN t.prev
        PROVE  /\ t.prev[v] \in t.visited /\ v \in Neighbors(t.prev[v], up)
               /\ t.dist[v] = t.dist[t.prev[v]] + delay[{t.prev[v], v}]
    <3>1. CASE v \in better
      <4>1. t.prev[v] = u
        BY <1>9, <3>1
      <4> QED
        BY <1>3, <1>6, <1>11, <3>1, <4>1
    <3>2. CASE v \notin better
      <4>1. v \in DOMAIN s.prev /\ t.prev[v] = s.prev[v] /\ v \in Labelled(s) \ better
        BY <1>1, <1>9, <3>2 DEF Rooted
      <4>2. /\ s.prev[v] \in s.visited /\ v \in Neighbors(s.prev[v], up)
            /\ s.dist[v] = s.dist[s.prev[v]] + delay[{s.prev[v], v}]
        BY <1>1, <4>1 DEF Rooted
      <4> QED
        BY <1>6, <1>11, <4>1, <4>2
    <3> QED
      BY <3>1, <3>2
  <2>3. up = up /\ delay = delay /\ root = root
    OBVIOUS
  <2> QED
    BY <2>1, <2>2, <2>3 DEF Rooted, Neighbors
<1>16. \E turn \in Turns(t, root) : TRUE
  <2>1. PICK turn \in Turns(s, root) : TRUE
    BY DEF DijkstraHolds
  <2> DEFINE c == Cardinality(s.visited)
  <2>2. IsFiniteSet(s.visited) /\ c \in Nat
    BY <1>1, TopologyAssumption, FS_Subset, FS_CardinalityType DEF DijkstraTyped
  <2>3. Cardinality(t.visited) = c + 1
    <3>1. Cardinality(s.visited \cup {u}) = c + 1
      BY <1>1, <2>2, FS_AddElement
    <3> QED
      BY <1>6, <3>1
  <2> HIDE DEF c
  <2> DEFINE later == [v \in t.visited |-> IF v = u THEN c ELSE turn[v]]
  <2>4. turn \in [s.visited -> 0 .. c - 1]
    BY DEF Turns, c
  <2>5. later \in [t.visited -> 0 .. c]
    BY <1>6, <2>2, <2>4
  <2>6. ASSUME NEW v \in t.visited \ {root} PROVE later[t.prev[v]] < later[v]
    <3>1. v \in Labelled(s) /\ v \notin better /\ v \in DOMAIN s.prev
      BY <1>1, <1>6, <1>11 DEF Rooted
    <3>2. t.prev[v] = s.prev[v] /\ s.prev[v] \in s.visited
      BY <1>1, <1>9, <3>1 DEF Rooted
    <3>3. s.prev[v] # u /\ later[s.prev[v]] = turn[s.prev[v]] /\ turn[s.prev[v]] \in 0 .. c - 1
      BY <1>1, <1>6, <2>4, <3>2
    <3>4. CASE v = u
      BY <2>2, <3>2, <3>3, <3>4
    <3>5. CASE v # u
      BY <1>6, <3>2, <3>3, <3>5 DEF Turns
    <3> QED
      BY <3>4, <3>5
  <2>7. c = (c + 1) - 1 /\ root = root
    BY <2>2
  <2> HIDE DEF later
  <2>8. later \in Turns(t, root)
    BY <2>3, <2>5, <2>6, <2>7 DEF Turns
  <2> QED
    BY <2>8
<1>17. ASSUME NEW w, Uniform(delay, w) PROVE Ties(t, up, root, w)
  <2>1. w \in Nat /\ w > 0 /\ Ties(s, up, root, w) /\ \A l \in Link : delay[l] = w
    BY <1>17 DEF DijkstraHolds, Uniform
  <2>2. \A v \in better : cost[v] = d + w /\ d < d + w /\ t.dist[v] = d + w
    <3>1. ASSUME NEW v \in better PROVE cost[v] = d + w /\ t.dist[v] = d + w
      <4>1. {u, v} \in Link
        BY <1>1, <1>3, NeighborsTyped DEF DijkstraTyped
      <4> QED
        BY <1>3, <1>11, <2>1, <4>1
    <3> QED
      BY <2>1, <3>1
  <2>3. ASSUME NEW x \in t.visited, NEW v \in Waiting(t), t.dist[x] = t.dist[v]
        PROVE  x < v
    <3>1. t.dist[x] = s.dist[x] /\ s.dist[x] <= d /\ s.dist[x] \in Nat
      BY <1>1, <1>6, <1>11 DEF VisitedFirst
    <3>2. v \notin better
      <4> SUFFICES ASSUME v \in better PROVE FALSE
        OBVIOUS
      <4>1. t.dist[v] = d + w
        BY <2>2
      <4>2. t.dist[x] = d + w
        BY <2>3, <4>1
      <4> QED
        BY <2>1, <3>1, <4>2
    <3>3. v \in Waiting(s) /\ v # u /\ v \in Labelled(s) \ better /\ t.dist[v] = s.dist[v]
      BY <1>8, <1>11, <3>2 DEF Waiting
    <3>4. CASE x = u
      <4>1. <<d, v>> \in s.pq
        BY <1>1, <2>3, <3>1, <3>3, <3>4 DEF HeapHolds
      <4>2. Before(d, u, <<d, v>>)
        BY <4>1
      <4>3. u <= v /\ u \in Nat /\ v \in Nat
        <5>1. u <= v
          BY <4>2 DEF Before
        <5> QED
          BY <1>1, <3>3, <5>1, TopologyAssumption DEF DijkstraTyped
      <4> QED
        BY <3>3, <3>4, <4>3
    <3>5. CASE x # u
      <4>1. x \in s.visited
        BY <1>6, <2>3, <3>5
      <4>2. \A y \in s.visited, z \in Waiting(s) : s.dist[y] = s.dist[z] => y < z
        BY <2>1 DEF Ties
      <4>3. s.dist[x] = s.dist[v]
        BY <2>3, <3>1, <3>3, <4>1
      <4> QED
        BY <3>3, <4>1, <4>2, <4>3
    <3> QED
      BY <3>4, <3>5
  <2>4. ASSUME NEW x \in t.visited, NEW v \in Neighbors(x, up) \ {root},
               t.dist[v] = t.dist[x] + w
        PROVE  t.prev[v] <= x
    <3>1. t.dist[x] = s.dist[x] /\ s.dist[x] <= d /\ s.dist[x] \in Nat /\ x \in Nat
      <4>1. x \in Node
        BY <1>1, <1>6 DEF DijkstraTyped
      <4> QED
        BY <1>1, <1>6, <1>11, <4>1, TopologyAssumption DEF VisitedFirst
    <3>2. v \in Labelled(t)
      BY <1>14, <2>4 DEF VisitedFirst, Neighbors
    <3>3. CASE v \in better /\ x = u
      BY <1>9, <3>1, <3>3
    <3>4. CASE v \in better /\ x # u
      <4>1. v \in Labelled(s) /\ s.dist[v] <= s.dist[x] + delay[{x, v}]
        BY <1>1, <1>6, <3>4 DEF VisitedFirst
      <4>2. delay[{x, v}] = w
        <5>1. x \in Node
          BY <1>1, <1>6 DEF DijkstraTyped
        <5>2. {x, v} \in Link
          BY <1>1, <5>1, NeighborsTyped DEF DijkstraTyped
        <5> QED
          BY <2>1, <5>2
      <4>3. d + w < s.dist[v] /\ s.dist[v] \in Nat
        BY <1>3, <1>11, <2>2, <3>4, <4>1
      <4> QED
        BY <2>1, <3>1, <4>1, <4>2, <4>3
    <3>5. CASE v \notin better
      <4>1. /\ v \in Labelled(s) \ better /\ t.dist[v] = s.dist[v] /\ v # root
            /\ v \in DOMAIN s.prev /\ t.prev[v] = s.prev[v]
        BY <1>1, <1>7, <1>9, <1>11, <3>2, <3>5 DEF Rooted
      <4>2. CASE x # u
        BY <1>6, <2>1, <2>4, <3>1, <4>1, <4>2 DEF Ties
      <4>3. CASE x = u
        <5>1. PICK p \in s.visited : p = s.prev[v]
          BY <1>1, <4>1 DEF Rooted
        <5>2. v \in Neighbors(p, up) /\ s.dist[v] = s.dist[p] + delay[{p, v}]
          BY <1>1, <4>1, <5>1 DEF Rooted
        <5>3. p \in Node /\ p \in Labelled(s) /\ s.dist[p] \in Nat
          BY <1>1, <1>11, <5>1 DEF DijkstraTyped
        <5>4. {p, v} \in Link
          BY <1>1, <5>2, <5>3, NeighborsTyped DEF DijkstraTyped
        <5>5. s.dist[v] = s.dist[p] + w
          BY <2>1, <5>2, <5>4
        <5>6. s.dist[p] = s.dist[u]
          BY <2>1, <2>4, <3>1, <4>1, <4>3, <5>3, <5>5
        <5>7. p < u
          BY <2>1, <5>1, <5>6 DEF Ties
        <5>8. p \in Nat
          BY <5>3, TopologyAssumption
        <5> QED
          BY <3>1, <4>1, <4>3, <5>1, <5>7, <5>8
      <4> QED
        BY <4>2, <4>3
    <3> QED
      BY <3>3, <3>4, <3>5
  <2>5. ASSUME NEW v \in Labelled(t) PROVE \E m \in Nat : t.dist[v] = w * m
    <3>1. CASE v \in better
      <4>1. PICK m \in Nat : d = w * m
        BY <1>1, <2>1 DEF Ties
      <4>2. d + w = w * (m + 1) /\ m + 1 \in Nat
        BY <2>1, <4>1
      <4> QED
        BY <2>2, <3>1, <4>2
    <3>2. CASE v \notin better
      <4>1. v \in Labelled(s) /\ t.dist[v] = s.dist[v]
        BY <1>7, <1>11, <3>2
      <4> QED
        BY <2>1, <4>1 DEF Ties
    <3> QED
      BY <3>1, <3>2
  <2> QED
    BY <2>3, <2>4, <2>5 DEF Ties, Neighbors
<1> QED
  BY <1>12, <1>13, <1>14, <1>15, <1>16, <1>17 DEF DijkstraHolds

LEMMA DijkstraStepKeeps ==
    ASSUME NEW s, NEW up, NEW delay, NEW root,
           DijkstraHolds(s, up, delay, root), s.pq # {}
    PROVE  DijkstraHolds(DijkstraStep(s, up, delay), up, delay, root)
<1>1. PICK t : t = DijkstraStep(s, up, delay)
  OBVIOUS
<1>2. PICK e \in s.pq, d \in Nat, u \in Labelled(s) :
          /\ e = <<d, u>> /\ \A o \in s.pq : d <= o[1] /\ Before(d, u, o)
          /\ \/ u \in s.visited /\ t = SkipVisited(s, e)
             \/ /\ u \in Waiting(s) /\ s.dist[u] = d
                /\ t = AfterVisit(s, delay, d, u, Relaxed(s, u, d, up, delay))
  BY <1>1, PopPrepared
<1>3. CASE u \in s.visited /\ t = SkipVisited(s, e)
  <2>1. e[2] \in s.visited
    BY <1>2, <1>3
  <2> QED
    BY <1>1, <1>3, <2>1, SkipKeeps
<1>4. CASE /\ u \in Waiting(s) /\ s.dist[u] = d
           /\ t = AfterVisit(s, delay, d, u, Relaxed(s, u, d, up, delay))
  BY <1>1, <1>2, <1>4, VisitKeeps
<1> QED
  BY <1>2, <1>3, <1>4

(* dijkstra(): the invariant of its loop.                                  *)
THEOREM DijkstraInvIsInvariant == Spec => []DijkstraInv
<1>1. Init => DijkstraInv
  BY InputAssumption, InitDijkstra DEF Init, DijkstraInv
<1>2. ASSUME DijkstraInv, [Next]_vars PROVE DijkstraInv'
  <2>1. CASE DijkstraPop
    <3>1. /\ dij.pq # {} /\ dij' = DijkstraStep(dij, active, weight)
          /\ UNCHANGED <<weight, active, dst>>
      BY <2>1 DEF DijkstraPop
    <3>2. DijkstraHolds(DijkstraStep(dij, active, weight), active, weight, dst)
      BY <1>2, <3>1, DijkstraStepKeeps DEF DijkstraInv
    <3> QED
      BY <3>1, <3>2 DEF DijkstraInv
  <2>2. CASE BfsDequeue \/ UNCHANGED vars
    <3>1. UNCHANGED <<weight, active, dst, dij>>
      BY <2>2 DEF BfsDequeue, vars
    <3> QED
      BY <1>2, <3>1 DEF DijkstraInv
  <2> QED
    BY <1>2, <2>1, <2>2 DEF Next
<1> QED
  BY <1>1, <1>2, PTL DEF Spec

(* The nodes labelled are a tree: those waiting come after those visited.  *)
LEMMA DijkstraTree ==
    ASSUME NEW s, NEW up, NEW delay, NEW root, DijkstraHolds(s, up, delay, root)
    PROVE  \E rank : Tree(up, Labelled(s), root, s.prev, s.dist, delay, rank)
<1>1. /\ DijkstraTyped(s, up, delay, root) /\ Rooted(s, up, delay, root)
         /\ delay \in [Link -> Nat] /\ up \subseteq Link
      /\ Labelled(s) \subseteq Node /\ s.visited \subseteq Labelled(s)
      /\ s.dist \in [Labelled(s) -> Nat]
  BY DEF DijkstraHolds, DijkstraTyped
<1>2. PICK turn \in Turns(s, root) : TRUE
  BY DEF DijkstraHolds
<1>3. PICK c \in Nat, n \in Nat :
          /\ c = Cardinality(s.visited) /\ n = Cardinality(Node)
          /\ c <= n /\ (Waiting(s) # {} => c < n)
  <2>1. IsFiniteSet(Node) /\ s.visited \subseteq Node
    BY <1>1, TopologyAssumption
  <2>2. /\ Cardinality(s.visited) \in Nat /\ Cardinality(Node) \in Nat
        /\ Cardinality(s.visited) <= Cardinality(Node)
        /\ Cardinality(s.visited) = Cardinality(Node) => s.visited = Node
    BY <2>1, FS_Subset, FS_CardinalityType
  <2>3. Waiting(s) # {} => s.visited # Node
    BY <1>1 DEF Waiting
  <2> QED
    BY <2>2, <2>3
<1>4. /\ turn \in [s.visited -> 0 .. c - 1]
      /\ \A v \in s.visited \ {root} : turn[s.prev[v]] < turn[v]
  BY <1>3 DEF Turns
<1> DEFINE rank == [v \in Labelled(s) |-> IF v \in s.visited THEN turn[v] ELSE c]
<1>5. rank \in [Labelled(s) -> 0 .. n - 1]
  BY <1>1, <1>3, <1>4 DEF Waiting
<1>6. ASSUME NEW v \in Labelled(s) \ {root}
      PROVE  /\ s.prev[v] \in Labelled(s) /\ v \in Neighbors(s.prev[v], up)
             /\ s.dist[v] = s.dist[s.prev[v]] + delay[{s.prev[v], v}]
             /\ rank[s.prev[v]] < rank[v]
  <2>1. v \in DOMAIN s.prev
    BY <1>1 DEF Rooted
  <2>2. PICK u \in s.visited : u = s.prev[v]
    BY <1>1, <2>1 DEF Rooted
  <2>3. v \in Neighbors(u, up) /\ s.dist[v] = s.dist[u] + delay[{u, v}]
    BY <1>1, <2>1, <2>2 DEF Rooted
  <2>4. rank[u] = turn[u] /\ turn[u] \in 0 .. c - 1
    BY <1>1, <1>4
  <2>5. rank[u] < rank[v]
    BY <1>3, <1>4, <2>2, <2>4
  <2> HIDE DEF rank
  <2> QED
    BY <1>1, <2>2, <2>3, <2>5
<1> HIDE DEF rank
<1>7. Tree(up, Labelled(s), root, s.prev, s.dist, delay, rank)
  BY <1>1, <1>3, <1>5, <1>6 DEF Tree, Rooted
<1> QED
  BY <1>7

(* An estimate of a node's distance is no less than what dijkstra() found  *)
(* for it, or than what is waiting to be visited.                          *)
Covered(s) ==
    {p \in Node \X Nat :
        \/ p[1] \in s.visited /\ s.dist[p[1]] <= p[2]
        \/ \E y \in Waiting(s) : s.dist[y] <= p[2]}

LEMMA CoveredClosed ==
    ASSUME NEW s, NEW up, NEW delay, NEW root, DijkstraHolds(s, up, delay, root)
    PROVE  <<root, 0>> \in Covered(s) /\ Closed(up, Covered(s), delay)
<1>1. /\ DijkstraTyped(s, up, delay, root) /\ VisitedFirst(s, up, delay)
         /\ Rooted(s, up, delay, root) /\ up \subseteq Link
      /\ delay \in [Link -> Nat] /\ root \in Node
      /\ \A y \in Labelled(s) : s.dist[y] \in Nat
  BY DEF DijkstraHolds, DijkstraTyped
<1>2. <<root, 0>> \in Covered(s)
  <2>1. root \in Labelled(s) /\ s.dist[root] <= 0
    BY <1>1 DEF Rooted
  <2> QED
    BY <1>1, <2>1 DEF Covered, Waiting
<1>3. ASSUME NEW u \in Node, NEW x \in Nat, <<u, x>> \in Covered(s), NEW w \in Neighbors(u, up)
      PROVE  <<w, x + delay[{u, w}]>> \in Covered(s)
  <2>1. w \in Node /\ {u, w} \in Link
    BY <1>1, NeighborsTyped
  <2>2. PICK c \in Nat : c = delay[{u, w}]
    BY <1>1, <2>1
  <2>3. \/ u \in s.visited /\ s.dist[u] <= x
        \/ \E y \in Waiting(s) : s.dist[y] <= x
    BY <1>3 DEF Covered
  <2>4. CASE u \in s.visited /\ s.dist[u] <= x
    <3>1. w \in Labelled(s) /\ s.dist[w] <= s.dist[u] + c /\ u \in Labelled(s)
      BY <1>1, <2>2, <2>4 DEF VisitedFirst, DijkstraTyped
    <3>2. s.dist[w] <= x + c
      BY <1>1, <2>4, <3>1
    <3> QED
      BY <2>1, <2>2, <3>1, <3>2 DEF Covered, Waiting
  <2>5. CASE \E y \in Waiting(s) : s.dist[y] <= x
    <3>1. PICK y \in Waiting(s) : s.dist[y] <= x
      BY <2>5
    <3>2. s.dist[y] <= x + c
      BY <1>1, <3>1 DEF Waiting
    <3> QED
      BY <2>1, <2>2, <3>1, <3>2 DEF Covered
  <2> QED
    BY <2>3, <2>4, <2>5
<1> QED
  BY <1>2, <1>3 DEF Closed

LEMMA SettledFromInv == DijkstraInv => VisitedIsSettled
<1> SUFFICES ASSUME DijkstraHolds(dij, active, weight, dst) PROVE VisitedIsSettled
  BY DEF DijkstraInv
<1>1. /\ DijkstraTyped(dij, active, weight, dst) /\ HeapHolds(dij)
         /\ VisitedFirst(dij, active, weight)
      /\ dij.visited \subseteq Labelled(dij) /\ dij.visited \subseteq Node
      /\ \A v \in Labelled(dij) : dij.dist[v] \in Nat
      /\ weight \in [Link -> Nat] /\ active \subseteq Link /\ dst \in Node
  BY DEF DijkstraHolds, DijkstraTyped
<1>2. PICK ref : ref = Distances(dst, weight)
  OBVIOUS
<1>3. ref \in Estimate /\ \A v \in Labelled(dij) : ref[v] # Infinite /\ ref[v] <= dij.dist[v]
  BY <1>2, DijkstraTree, TreeEstimates
<1>4. \A w \in Node : ref[w] # Infinite => <<w, ref[w]>> \in Covered(dij)
  BY <1>1, <1>2, CoveredClosed, DistancesClosed
<1>5. ASSUME NEW v \in dij.visited PROVE dij.dist[v] = ref[v]
  <2>1. /\ ref[v] \in Nat /\ dij.dist[v] \in Nat /\ ref[v] <= dij.dist[v]
        /\ v \in Node /\ ref[v] # Infinite
    BY <1>1, <1>3 DEF Estimate
  <2>2. dij.dist[v] <= ref[v]
    <3>1. CASE \E y \in Waiting(dij) : dij.dist[y] <= ref[v]
      <4>1. PICK y \in Waiting(dij) : dij.dist[y] <= ref[v]
        BY <3>1
      <4>2. dij.dist[v] <= dij.dist[y] /\ dij.dist[y] \in Nat
        BY <1>1 DEF VisitedFirst, Waiting
      <4> QED
        BY <2>1, <4>1, <4>2
    <3> QED
      BY <1>4, <2>1, <3>1 DEF Covered
  <2> QED
    BY <2>1, <2>2
<1>6. ASSUME dij.pq = {} PROVE dij.visited = {v \in Node : ref[v] # Infinite}
  <2>1. Waiting(dij) = {}
    BY <1>1, <1>6 DEF HeapHolds
  <2>2. \A v \in Node : ref[v] # Infinite => v \in dij.visited
    BY <1>4, <2>1 DEF Covered
  <2> QED
    BY <1>1, <1>3, <2>2
<1> QED
  BY <1>2, <1>5, <1>6 DEF VisitedIsSettled

(* dijkstra(): the distance of a node that has been visited is right, and  *)
(* in the end the nodes that active links lead to are those visited.       *)
THEOREM DistancesAreShortest == Spec => []VisitedIsSettled
BY DijkstraInvIsInvariant, SettledFromInv, PTL

LEMMA TreeFromInv == DijkstraInv => TreeMatchesDistances
<1> SUFFICES ASSUME DijkstraHolds(dij, active, weight, dst) PROVE TreeMatchesDistances
  BY DEF DijkstraInv
<1>1. PICK rank : Tree(active, Labelled(dij), dst, dij.prev, dij.dist, weight, rank)
  BY DijkstraTree
<1>2. ASSUME NEW v \in Labelled(dij)
      PROVE  /\ Head(PathFromPrev(dij.prev, dst, v)) = dst
             /\ PathCost(PathFromPrev(dij.prev, dst, v), weight) = dij.dist[v]
  BY <1>1, TreePath
<1> QED
  BY <1>2 DEF TreeMatchesDistances, Labelled

(* dijkstra(): at every moment the path that prev holds to a node goes     *)
(* back to the root without a gap and costs the node's distance.           *)
THEOREM TreesAreShortest == Spec => []TreeMatchesDistances
BY DijkstraInvIsInvariant, TreeFromInv, PTL

-----------------------------------------------------------------------------
(* Every set of nodes can be sorted.                                       *)
Sorted(s, S) ==
    /\ s \in [1 .. Cardinality(S) -> S]
    /\ \A i, j \in 1 .. Cardinality(S) : i < j => s[i] < s[j]

LEMMA SortingExists ==
    ASSUME NEW n \in Nat
    PROVE  \A S \in SUBSET Node : Cardinality(S) = n => \E s : Sorted(s, S)
<1> DEFINE P == {k \in 0 .. n :
                    \A S \in SUBSET Node : Cardinality(S) = k => \E s : Sorted(s, S)}
<1>1. 0 \in P
  <2>1. ASSUME NEW S \in SUBSET Node, Cardinality(S) = 0 PROVE \E s : Sorted(s, S)
    <3>1. 1 .. Cardinality(S) = {} /\ <<>> \in [1 .. 0 -> S]
      BY <2>1
    <3> QED
      BY <2>1, <3>1 DEF Sorted
  <2> QED
    BY <2>1
<1>2. ASSUME NEW k \in 0 .. n - 1, k \in P PROVE k + 1 \in P
  <2>1. ASSUME NEW S \in SUBSET Node, Cardinality(S) = k + 1 PROVE \E s : Sorted(s, S)
    <3>1. IsFiniteSet(S) /\ S \subseteq Nat /\ S # {}
      <4>1. IsFiniteSet(S)
        BY TopologyAssumption, FS_Subset
      <4>2. Cardinality({}) = 0
        BY FS_EmptySet
      <4>3. S # {}
        <5> SUFFICES ASSUME S = {} PROVE FALSE
          OBVIOUS
        <5>1. Cardinality(S) = 0 /\ Cardinality(S) = k + 1
          BY <2>1, <4>2
        <5> QED
          BY <5>1
      <4> QED
        BY <4>1, <4>3, TopologyAssumption
    <3>2. PICK m \in S : \A x \in S : m <= x
      BY <3>1, LeastNatural
    <3>3. Cardinality(S \ {m}) = k
      <4>1. Cardinality(S \ {m}) = Cardinality(S) - 1
        BY <3>1, FS_RemoveElement
      <4> QED
        BY <2>1, <4>1
    <3>4. PICK s : Sorted(s, S \ {m})
      <4>1. S \ {m} \in SUBSET Node
        OBVIOUS
      <4> QED
        BY <1>2, <3>3, <4>1
    <3>5. /\ s \in [1 .. k -> S \ {m}]
          /\ \A i, j \in 1 .. k : i < j => s[i] < s[j]
      BY <3>3, <3>4 DEF Sorted
    <3>6. ASSUME NEW i \in 1 .. k PROVE s[i] \in S /\ s[i] \in Nat /\ m \in Nat /\ m < s[i]
      <4>1. PICK x \in S \ {m} : x = s[i]
        BY <3>5
      <4>2. x \in Nat /\ m \in Nat /\ m <= x /\ m # x
        BY <3>1, <3>2
      <4> QED
        BY <4>1, <4>2
    <3> DEFINE h == [i \in 1 .. k + 1 |-> IF i = 1 THEN m ELSE s[i - 1]]
    <3>7. h \in [1 .. k + 1 -> S]
      BY <3>6
    <3>8. ASSUME NEW i \in 1 .. k + 1, NEW j \in 1 .. k + 1, i < j PROVE h[i] < h[j]
      <4>1. j - 1 \in 1 .. k /\ h[j] = s[j - 1]
        BY <3>8
      <4>2. CASE i = 1
        BY <3>6, <4>1, <4>2
      <4>3. CASE i # 1
        <5>1. i - 1 \in 1 .. k /\ h[i] = s[i - 1] /\ i - 1 < j - 1
          BY <3>8, <4>3
        <5> HIDE DEF h
        <5> QED
          BY <3>5, <4>1, <5>1
      <4> QED
        BY <4>2, <4>3
    <3> HIDE DEF h
    <3> QED
      BY <2>1, <3>7, <3>8 DEF Sorted
  <2>2. k + 1 \in 0 .. n
    OBVIOUS
  <2> QED
    BY <2>1, <2>2
<1> HIDE DEF P
<1>3. \A k \in 0 .. n - 1 : k \in P => k + 1 \in P
  BY <1>2
<1>4. 0 .. n \subseteq P
  BY <1>1, <1>3, Induction
<1>5. n \in P
  BY <1>4
<1> QED
  BY <1>5 DEF P

LEMMA AscendingIs ==
    ASSUME NEW S, S \subseteq Node
    PROVE  /\ Cardinality(S) \in Nat /\ Len(Ascending(S)) = Cardinality(S)
           /\ Ascending(S) \in Seq(S)
           /\ \A i, j \in 1 .. Len(Ascending(S)) : i < j => Ascending(S)[i] < Ascending(S)[j]
           /\ \A v \in S : \E i \in 1 .. Len(Ascending(S)) : Ascending(S)[i] = v
<1>1. IsFiniteSet(S) /\ Cardinality(S) \in Nat
  BY TopologyAssumption, FS_Subset, FS_CardinalityType
<1>2. PICK n \in Nat : n = Cardinality(S)
  BY <1>1
<1>3. \E s : Sorted(s, S)
  BY <1>1, SortingExists
<1>4. PICK a : a = Ascending(S)
  OBVIOUS
<1>5. /\ a \in [1 .. n -> S]
      /\ \A i, j \in 1 .. n : i < j => a[i] < a[j]
  BY <1>2, <1>3, <1>4 DEF Ascending, Sorted
<1>6. a \in Seq(S) /\ Len(a) = n
  BY <1>5
<1>7. a \in Injection(1 .. n, S)
  <2>1. ASSUME NEW i \in 1 .. n, NEW j \in 1 .. n, a[i] = a[j] PROVE i = j
    <3>1. a[i] \in Nat /\ a[j] \in Nat
      BY <1>5, TopologyAssumption
    <3>2. ~ (i < j) /\ ~ (j < i)
      BY <1>5, <2>1, <3>1
    <3> QED
      BY <3>2
  <2>2. DOMAIN a = 1 .. n
    BY <1>5
  <2> QED
    BY <1>5, <2>1, <2>2 DEF Injection, IsInjective
<1>8. Cardinality(1 .. n) = n
  <2>1. 1 \in Int /\ n \in Int
    OBVIOUS
  <2> QED
    BY <2>1, FS_Interval
<1>9. a \in Surjection(1 .. n, S)
  BY <1>1, <1>2, <1>7, <1>8, FS_Injection
<1> QED
  BY <1>2, <1>4, <1>5, <1>6, <1>9 DEF Surjection

-----------------------------------------------------------------------------
(* The invariant of the breadth-first search, for the levels of its nodes. *)
Searching(s, src, goal) == goal \notin s.seen \/ goal = src

BfsTyped(s, up, src, goal) ==
    /\ up \subseteq Link /\ src \in Node /\ goal \in Node
    /\ s = [q |-> s.q, seen |-> s.seen, prev |-> s.prev]
    /\ s.seen \subseteq Node /\ s.q \in Seq(s.seen)

(* prev leads one level down.                                              *)
Levelled(s, up, src, level) ==
    /\ level \in [s.seen -> 0 .. Cardinality(s.seen) - 1]
    /\ src \in s.seen /\ level[src] = 0
    /\ DOMAIN s.prev = s.seen \ {src}
    /\ \A v \in s.seen \ {src} :
          /\ s.prev[v] \in s.seen /\ v \in Neighbors(s.prev[v], up)
          /\ level[v] = level[s.prev[v]] + 1

(* The queue is in the order of the levels, of which it holds two, the     *)
(* highest; the neighbours of a node that has left it have been seen.      *)
Queued(s, up, level) ==
    /\ \A i, j \in 1 .. Len(s.q) : i <= j => level[s.q[i]] <= level[s.q[j]]
    /\ s.q # <<>> => \A v \in s.seen : level[v] <= level[s.q[1]] + 1
    /\ \A u \in s.seen :
          \/ \E i \in 1 .. Len(s.q) : s.q[i] = u
          \/ \A v \in Neighbors(u, up) : v \in s.seen /\ level[v] <= level[u] + 1

-----------------------------------------------------------------------------
LEMMA HopCostTyped == HopCost \in [Link -> Nat] /\ \A l \in Link : HopCost[l] = 1
BY DEF HopCost

(* No estimate of a distance is below the levels, but for nodes beyond     *)
(* what is queued.                                                         *)
Passed(s, level) ==
    {p \in Node \X Nat :
        \/ p[1] \in s.seen /\ level[p[1]] <= p[2]
        \/ \E i \in 1 .. Len(s.q) : level[s.q[i]] + 1 <= p[2]}

LEMMA PassedClosed ==
    ASSUME NEW s, NEW up, NEW src, NEW goal,
           BfsTyped(s, up, src, goal), NEW level, Levelled(s, up, src, level), Queued(s, up, level)
    PROVE  <<src, 0>> \in Passed(s, level) /\ Closed(up, Passed(s, level), HopCost)
<1>1. /\ up \subseteq Link /\ src \in Node /\ s.seen \subseteq Node
      /\ \A i \in 1 .. Len(s.q) : s.q[i] \in s.seen
  BY DEF BfsTyped
<1>2. \A v \in s.seen : level[v] \in Nat
  <2>1. \A v \in s.seen : level[v] \in 0 .. Cardinality(s.seen) - 1
    BY DEF Levelled
  <2> QED
    BY <2>1
<1>3. <<src, 0>> \in Passed(s, level)
  BY <1>1 DEF Passed, Levelled
<1>4. ASSUME NEW u \in Node, NEW x \in Nat, <<u, x>> \in Passed(s, level),
             NEW w \in Neighbors(u, up)
      PROVE  <<w, x + HopCost[{u, w}]>> \in Passed(s, level)
  <2>1. w \in Node /\ HopCost[{u, w}] = 1
    BY <1>1, NeighborsTyped, HopCostTyped
  <2>2. CASE \E i \in 1 .. Len(s.q) : level[s.q[i]] + 1 <= x
    <3>1. PICK i \in 1 .. Len(s.q) : level[s.q[i]] + 1 <= x
      BY <2>2
    <3>2. level[s.q[i]] + 1 <= x + 1
      BY <1>1, <1>2, <3>1
    <3> QED
      BY <2>1, <3>2 DEF Passed
  <2>3. CASE u \in s.seen /\ level[u] <= x
    <3>1. CASE \E i \in 1 .. Len(s.q) : s.q[i] = u
      <4>1. PICK i \in 1 .. Len(s.q) : s.q[i] = u
        BY <3>1
      <4>2. level[s.q[i]] + 1 <= x + 1
        BY <1>2, <2>3, <4>1
      <4> QED
        BY <2>1, <4>2 DEF Passed
    <3>2. CASE w \in s.seen /\ level[w] <= level[u] + 1
      <4>1. level[w] <= x + 1
        BY <1>2, <2>3, <3>2
      <4> QED
        BY <2>1, <3>2, <4>1 DEF Passed
    <3> QED
      BY <2>3, <3>1, <3>2 DEF Queued
  <2> QED
    BY <1>4, <2>2, <2>3 DEF Passed
<1> QED
  BY <1>3, <1>4 DEF Closed

-----------------------------------------------------------------------------
(* A node is dequeued: fresh are its neighbours seen now.                  *)
Dequeued(s, t, up, goal, u, fresh) ==
    /\ s.q # <<>> /\ u = s.q[1] /\ u \in s.seen
    /\ fresh \subseteq Neighbors(u, up) \ s.seen /\ fresh \subseteq Node
    /\ t.seen = s.seen \cup fresh
    /\ DOMAIN t.prev = DOMAIN s.prev \cup fresh
    /\ \A v \in DOMAIN t.prev : t.prev[v] = IF v \in fresh THEN u ELSE s.prev[v]
    /\ t = [q |-> t.q, seen |-> t.seen, prev |-> t.prev]
    /\ \/ goal \in fresh /\ t.q = <<>>
       \/ /\ goal \notin fresh /\ fresh = Neighbors(u, up) \ s.seen
          /\ t.q = Tail(s.q) \o Ascending(fresh)

LEMMA DequeuePrepared ==
    ASSUME NEW s, NEW t, NEW up, NEW src, NEW goal, BfsTyped(s, up, src, goal),
           s.q # <<>>, t = BfsStep(s, up, goal)
    PROVE  \E u, fresh : Dequeued(s, t, up, goal, u, fresh)
<1>1. PICK u : u = Head(s.q)
  OBVIOUS
<1>2. s.q # <<>> /\ s.q \in Seq(s.seen) /\ u = s.q[1] /\ u \in s.seen
  BY <1>1 DEF BfsTyped
<1> DEFINE unseen == Neighbors(u, up) \ s.seen
<1>3. PICK fresh : fresh = IF goal \in unseen THEN {v \in unseen : v <= goal} ELSE unseen
  OBVIOUS
<1>4. t = [q |-> IF goal \in fresh THEN <<>> ELSE Enqueued(s.q, fresh),
              seen |-> Marked(s.seen, fresh),
              prev |-> Updated(s.prev, [v \in fresh |-> u])]
  BY <1>1, <1>3 DEF BfsStep
<1>5. /\ t.q = IF goal \in fresh THEN <<>> ELSE Enqueued(s.q, fresh)
      /\ t.seen = s.seen \cup fresh
      /\ t.prev = Updated(s.prev, [v \in fresh |-> u])
      /\ t = [q |-> t.q, seen |-> t.seen, prev |-> t.prev]
  BY <1>4 DEF Marked
<1>6. /\ DOMAIN t.prev = DOMAIN s.prev \cup fresh
      /\ \A v \in DOMAIN t.prev : t.prev[v] = IF v \in fresh THEN u ELSE s.prev[v]
  BY <1>5 DEF Updated
<1>7. fresh \subseteq unseen /\ fresh \subseteq Node
  BY <1>3 DEF Neighbors
<1>8. goal \notin fresh => fresh = unseen
  <2>1. CASE goal \in unseen
    <3>1. goal \in Nat
      BY TopologyAssumption DEF BfsTyped
    <3> QED
      BY <1>3, <2>1, <3>1
  <2> QED
    BY <1>3, <2>1
<1>9. Dequeued(s, t, up, goal, u, fresh)
  BY <1>2, <1>5, <1>6, <1>7, <1>8 DEF Dequeued, Enqueued
<1> QED
  BY <1>9

Deeper(s, level, u, fresh) ==
    [v \in s.seen \cup fresh |-> IF v \in fresh THEN level[u] + 1 ELSE level[v]]

(* What the new levels are, seen from the old ones.                        *)
Deepened(s, level, u, fresh, deeper) ==
    /\ \A v \in fresh : deeper[v] = level[u] + 1
    /\ \A v \in s.seen : v \notin fresh /\ deeper[v] = level[v] /\ level[v] \in Nat
    /\ u \in s.seen /\ level[u] \in Nat

LEMMA DeeperIs ==
    ASSUME NEW s, NEW t, NEW up, NEW src, NEW goal, NEW level,
           Levelled(s, up, src, level), NEW u, NEW fresh, Dequeued(s, t, up, goal, u, fresh)
    PROVE  Deepened(s, level, u, fresh, Deeper(s, level, u, fresh))
<1>1. \A v \in s.seen : level[v] \in 0 .. Cardinality(s.seen) - 1
  BY DEF Levelled
<1>2. u \in s.seen /\ \A v \in s.seen : v \notin fresh
  BY DEF Dequeued
<1> QED
  BY <1>1, <1>2 DEF Deeper, Deepened

LEMMA DequeueLevels ==
    ASSUME NEW s, NEW t, NEW up, NEW src, NEW goal,
           BfsTyped(s, up, src, goal), NEW level, Levelled(s, up, src, level), NEW u, NEW fresh,
           Dequeued(s, t, up, goal, u, fresh),
           NEW deeper, deeper = Deeper(s, level, u, fresh)
    PROVE  Levelled(t, up, src, deeper)
<1>2. /\ \A v \in fresh : deeper[v] = level[u] + 1
      /\ \A v \in s.seen : v \notin fresh /\ deeper[v] = level[v] /\ level[v] \in Nat
      /\ u \in s.seen /\ level[u] \in Nat
      /\ deeper = [v \in t.seen |-> deeper[v]]
  <2>1. t.seen = s.seen \cup fresh
    BY DEF Dequeued
  <2>2. deeper = [v \in t.seen |-> deeper[v]]
    BY <2>1 DEF Deeper
  <2>1a. Deepened(s, level, u, fresh, deeper)
    BY DeeperIs
  <2>3. \A v \in fresh : deeper[v] = level[u] + 1
    BY <2>1a DEF Deepened
  <2>4. \A v \in s.seen : v \notin fresh /\ deeper[v] = level[v] /\ level[v] \in Nat
    BY <2>1a DEF Deepened
  <2>5. u \in s.seen /\ level[u] \in Nat
    BY <2>1a DEF Deepened
  <2> QED
    BY <2>2, <2>3, <2>4, <2>5
<1>3. /\ t.seen = s.seen \cup fresh
      /\ DOMAIN t.prev = DOMAIN s.prev \cup fresh
      /\ \A v \in DOMAIN t.prev : t.prev[v] = IF v \in fresh THEN u ELSE s.prev[v]
      /\ fresh \subseteq Neighbors(u, up) \ s.seen /\ fresh \subseteq Node
  BY DEF Dequeued
<1>4. PICK c \in Nat, m \in Nat :
          /\ c = Cardinality(s.seen) /\ m = Cardinality(t.seen)
          /\ c <= m /\ (fresh # {} => c < m)
  <2>1. t.seen \subseteq Node /\ s.seen \subseteq t.seen
        /\ (fresh # {} => s.seen # t.seen)
    BY <1>3 DEF BfsTyped
  <2>2. IsFiniteSet(t.seen) /\ Cardinality(t.seen) \in Nat
    BY <2>1, TopologyAssumption, FS_Subset, FS_CardinalityType
  <2>3. /\ IsFiniteSet(s.seen) /\ Cardinality(s.seen) <= Cardinality(t.seen)
        /\ Cardinality(t.seen) = Cardinality(s.seen) => t.seen = s.seen
    BY <2>1, <2>2, FS_Subset
  <2>4. Cardinality(s.seen) \in Nat
    BY <2>3, FS_CardinalityType
  <2> QED
    BY <2>1, <2>2, <2>3, <2>4
<1>5. deeper \in [t.seen -> 0 .. m - 1]
  <2>1. ASSUME NEW v \in t.seen PROVE deeper[v] \in 0 .. m - 1
    <3>1. \A w \in s.seen : level[w] \in 0 .. c - 1
      BY <1>4 DEF Levelled
    <3>2. CASE v \in fresh
      <4>1. deeper[v] = level[u] + 1 /\ level[u] \in 0 .. c - 1 /\ c < m
        BY <1>2, <1>4, <3>1, <3>2
      <4> QED
        BY <4>1
    <3>3. CASE v \notin fresh
      <4>1. v \in s.seen /\ deeper[v] = level[v] /\ level[v] \in 0 .. c - 1
        BY <1>2, <1>3, <3>1, <3>3
      <4> QED
        BY <1>4, <4>1
    <3> QED
      BY <3>2, <3>3
  <2> QED
    BY <1>2, <2>1
<1>6. src \in t.seen /\ deeper[src] = 0 /\ DOMAIN t.prev = t.seen \ {src}
  <2>1. src \in s.seen /\ level[src] = 0 /\ DOMAIN s.prev = s.seen \ {src}
    BY DEF Levelled
  <2>2. src \notin fresh /\ deeper[src] = 0
    BY <1>2, <2>1
  <2>3. DOMAIN t.prev = (s.seen \ {src}) \cup fresh
    BY <1>3, <2>1
  <2>4. (s.seen \ {src}) \cup fresh = (s.seen \cup fresh) \ {src}
    BY <2>2
  <2> QED
    BY <1>3, <2>1, <2>2, <2>3, <2>4
<1>7. ASSUME NEW v \in t.seen \ {src}
      PROVE  /\ t.prev[v] \in t.seen /\ v \in Neighbors(t.prev[v], up)
             /\ deeper[v] = deeper[t.prev[v]] + 1
  <2>1. v \in DOMAIN t.prev
    BY <1>6
  <2>2. CASE v \in fresh
    <3>1. t.prev[v] = u
      BY <1>3, <2>1, <2>2
    <3> QED
      BY <1>2, <1>3, <2>2, <3>1
  <2>3. CASE v \notin fresh
    <3>1. v \in s.seen \ {src} /\ t.prev[v] = s.prev[v]
      BY <1>3, <2>1, <2>3
    <3>2. /\ s.prev[v] \in s.seen /\ v \in Neighbors(s.prev[v], up)
          /\ level[v] = level[s.prev[v]] + 1
      BY <3>1 DEF Levelled
    <3> QED
      BY <1>2, <1>3, <3>1, <3>2
  <2> QED
    BY <2>2, <2>3
<1> QED
  BY <1>4, <1>5, <1>6, <1>7 DEF Levelled, Neighbors

(* What is queued moves up, and what is fresh is queued behind it.         *)
Moved(s, t, n, m, asc, fresh) ==
    /\ Len(s.q) = n + 1 /\ Len(asc) = m
    /\ \A v \in fresh : \E i \in 1 .. m : asc[i] = v
    /\ \A i, j \in 1 .. m : i < j => asc[i] < asc[j]
    /\ t.q \in Seq(t.seen) /\ Len(t.q) = n + m
    /\ \A i \in 1 .. n : t.q[i] = s.q[i + 1] /\ s.q[i + 1] \in s.seen
    /\ \A i \in n + 1 .. n + m : t.q[i] = asc[i - n] /\ asc[i - n] \in fresh

LEMMA QueueMoves ==
    ASSUME NEW s, NEW t, NEW up, NEW src, NEW goal,
           BfsTyped(s, up, src, goal), NEW u, NEW fresh, Dequeued(s, t, up, goal, u, fresh),
           goal \notin fresh,
           NEW asc, asc = Ascending(fresh), NEW n \in Nat, n + 1 = Len(s.q),
           NEW m \in Nat, m = Len(asc)
    PROVE  Moved(s, t, n, m, asc, fresh)
<1>2. /\ s.q # <<>> /\ t.seen = s.seen \cup fresh /\ fresh \subseteq Node
      /\ t.q = Tail(s.q) \o Ascending(fresh)
  BY DEF Dequeued
<1>3. /\ asc \in Seq(fresh)
      /\ \A v \in fresh : \E i \in 1 .. Len(asc) : asc[i] = v
      /\ \A i, j \in 1 .. Len(asc) : i < j => asc[i] < asc[j]
  <2>1. fresh \subseteq Node
    BY <1>2
  <2>2. Ascending(fresh) \in Seq(fresh)
    BY <2>1, AscendingIs
  <2>3. \A v \in fresh : \E i \in 1 .. Len(Ascending(fresh)) : Ascending(fresh)[i] = v
    BY <2>1, AscendingIs
  <2>4. \A i, j \in 1 .. Len(Ascending(fresh)) :
           i < j => Ascending(fresh)[i] < Ascending(fresh)[j]
    BY <2>1, AscendingIs
  <2> QED
    BY <2>2, <2>3, <2>4
<1>4. Len(s.q) = n + 1 /\ Len(asc) = m
  OBVIOUS
<1>5. /\ t.q \in Seq(t.seen) /\ Len(t.q) = n + m
      /\ \A i \in 1 .. n : t.q[i] = s.q[i + 1] /\ s.q[i + 1] \in s.seen
      /\ \A i \in n + 1 .. n + m : t.q[i] = asc[i - n] /\ asc[i - n] \in fresh
  <2>1. s.q \in Seq(s.seen)
    BY DEF BfsTyped
  <2>2. /\ Tail(s.q) \in Seq(s.seen) /\ Len(Tail(s.q)) = n
        /\ \A i \in 1 .. n : Tail(s.q)[i] = s.q[i + 1]
    <3>1. /\ Tail(s.q) \in Seq(s.seen) /\ Len(Tail(s.q)) = Len(s.q) - 1
          /\ \A i \in 1 .. Len(Tail(s.q)) : Tail(s.q)[i] = s.q[i + 1]
      BY <1>2, <2>1, HeadTailProperties
    <3>2. Len(s.q) - 1 = n
      BY <1>4
    <3> QED
      BY <3>1, <3>2
  <2>3. PICK rest \in Seq(s.seen) : rest = Tail(s.q)
    BY <2>2
  <2>4. rest \in Seq(t.seen) /\ asc \in Seq(t.seen)
    <3>1. s.seen \subseteq t.seen /\ fresh \subseteq t.seen
      BY <1>2
    <3>2. \A S, T : S \subseteq T => Seq(S) \subseteq Seq(T)
      OBVIOUS
    <3>3. Seq(s.seen) \subseteq Seq(t.seen) /\ Seq(fresh) \subseteq Seq(t.seen)
      BY <3>1, <3>2
    <3> QED
      BY <1>3, <3>3
  <2>5. /\ rest \o asc \in Seq(t.seen) /\ Len(rest \o asc) = n + m
        /\ \A i \in 1 .. n + m : (rest \o asc)[i] = IF i <= n THEN rest[i] ELSE asc[i - n]
    <3>1. PICK S : S = t.seen
      OBVIOUS
    <3>2. rest \in Seq(S) /\ asc \in Seq(S)
      BY <2>4, <3>1
    <3>3. /\ rest \o asc \in Seq(S) /\ Len(rest \o asc) = Len(rest) + Len(asc)
          /\ \A i \in 1 .. Len(rest) + Len(asc) :
                (rest \o asc)[i] = IF i <= Len(rest) THEN rest[i] ELSE asc[i - Len(rest)]
      BY <3>2, ConcatProperties
    <3>4. Len(rest) = n /\ Len(asc) = m
      BY <1>4, <2>2, <2>3
    <3> QED
      BY <3>1, <3>3, <3>4
  <2>6. \A i \in 1 .. n : s.q[i + 1] \in s.seen
    BY <1>4, <2>1
  <2>7. \A i \in n + 1 .. n + m : i - n \in 1 .. m /\ asc[i - n] \in fresh
    BY <1>3, <1>4
  <2>8. t.q = rest \o asc
    BY <1>2, <1>3, <2>3
  <2>9. ASSUME NEW i \in 1 .. n PROVE t.q[i] = s.q[i + 1]
    <3>1. i \in 1 .. n + m /\ i <= n
      OBVIOUS
    <3> QED
      BY <2>2, <2>3, <2>5, <2>8, <3>1
  <2>10. ASSUME NEW i \in n + 1 .. n + m PROVE t.q[i] = asc[i - n]
    <3>1. i \in 1 .. n + m /\ ~ (i <= n)
      OBVIOUS
    <3> QED
      BY <2>5, <2>8, <3>1
  <2> QED
    BY <2>5, <2>6, <2>7, <2>8, <2>9, <2>10
<1> QED
  BY <1>3, <1>4, <1>5 DEF Moved

(* Nothing but the head leaves the queue.                                  *)
StaysQueued(s, t, n, m, fresh) ==
    /\ \A x \in fresh : \E i \in 1 .. n + m : t.q[i] = x
    /\ \A j \in 1 .. Len(s.q) : s.q[j] # s.q[1] => \E i \in 1 .. n + m : t.q[i] = s.q[j]

LEMMA StillQueued ==
    ASSUME NEW s, NEW t, NEW fresh, NEW n \in Nat, NEW m \in Nat, NEW asc,
           Moved(s, t, n, m, asc, fresh)
    PROVE  StaysQueued(s, t, n, m, fresh)
<1>1. ASSUME NEW x \in fresh PROVE \E i \in 1 .. n + m : t.q[i] = x
  <2>1. PICK i \in 1 .. m : asc[i] = x
    BY <1>1 DEF Moved
  <2>2. n + i \in n + 1 .. n + m /\ (n + i) - n = i /\ n + i \in 1 .. n + m
    OBVIOUS
  <2>3. t.q[n + i] = x
    BY <2>1, <2>2 DEF Moved
  <2> QED
    BY <2>2, <2>3
<1>2. ASSUME NEW j \in 1 .. Len(s.q), s.q[j] # s.q[1]
      PROVE  \E i \in 1 .. n + m : t.q[i] = s.q[j]
  <2>1. j \in 1 .. n + 1 /\ j # 1
    BY <1>2 DEF Moved
  <2>2. j - 1 \in 1 .. n /\ (j - 1) + 1 = j /\ j - 1 \in 1 .. n + m
    BY <2>1
  <2>3. t.q[j - 1] = s.q[j]
    BY <2>2 DEF Moved
  <2> QED
    BY <2>2, <2>3
<1> QED
  BY <1>1, <1>2 DEF StaysQueued

LEMMA DequeueMoves ==
    ASSUME NEW s, NEW t, NEW up, NEW src, NEW goal,
           BfsTyped(s, up, src, goal), NEW u, NEW fresh, Dequeued(s, t, up, goal, u, fresh),
           goal \notin fresh
    PROVE  \E n, m : n \in Nat /\ m \in Nat /\ Moved(s, t, n, m, Ascending(fresh), fresh)
<1>1. PICK asc : asc = Ascending(fresh)
  OBVIOUS
<1>2. s.q # <<>> /\ fresh \subseteq Node
  BY DEF Dequeued
<1>3. Len(s.q) \in Nat /\ Len(s.q) # 0
  BY <1>2 DEF BfsTyped
<1>4. PICK n \in Nat : n + 1 = Len(s.q)
  <2>1. Len(s.q) - 1 \in Nat /\ (Len(s.q) - 1) + 1 = Len(s.q)
    BY <1>3
  <2> QED
    BY <2>1
<1>5. PICK m \in Nat : m = Len(asc)
  <2>1. asc \in Seq(fresh)
    BY <1>1, <1>2, AscendingIs
  <2> QED
    BY <2>1
<1>6. Moved(s, t, n, m, asc, fresh)
  BY <1>1, <1>4, <1>5, QueueMoves
<1> QED
  BY <1>1, <1>6

LEMMA DequeueQueues ==
    ASSUME NEW s, NEW t, NEW up, NEW src, NEW goal,
           BfsTyped(s, up, src, goal), NEW level, Levelled(s, up, src, level), Queued(s, up, level),
           NEW u, NEW fresh, Dequeued(s, t, up, goal, u, fresh), NEW deeper,
           deeper = Deeper(s, level, u, fresh), goal \notin fresh
    PROVE  t.q \in Seq(t.seen) /\ Queued(t, up, deeper)
<1>0a. Deepened(s, level, u, fresh, deeper)
  BY DeeperIs
<1>1. /\ \A v \in fresh : deeper[v] = level[u] + 1
      /\ \A v \in s.seen : v \notin fresh /\ deeper[v] = level[v] /\ level[v] \in Nat
      /\ u \in s.seen /\ level[u] \in Nat
  BY <1>0a DEF Deepened
<1>2. /\ s.q # <<>> /\ u = s.q[1] /\ t.seen = s.seen \cup fresh
      /\ fresh \subseteq Neighbors(u, up) /\ fresh \subseteq Node
      /\ fresh = Neighbors(u, up) \ s.seen
      /\ t.q = Tail(s.q) \o Ascending(fresh)
  BY DEF Dequeued
<1>3. PICK n \in Nat, m \in Nat : Moved(s, t, n, m, Ascending(fresh), fresh)
  <2>1. PICK n, m : n \in Nat /\ m \in Nat /\ Moved(s, t, n, m, Ascending(fresh), fresh)
    BY DequeueMoves
  <2> QED
    BY <2>1
<1> DEFINE asc == Ascending(fresh)
<1>4. /\ Len(s.q) = n + 1 /\ Len(asc) = m
      /\ \A v \in fresh : \E i \in 1 .. m : asc[i] = v
  BY <1>3 DEF Moved
<1>5. /\ t.q \in Seq(t.seen) /\ Len(t.q) = n + m
      /\ \A i \in 1 .. n : t.q[i] = s.q[i + 1] /\ s.q[i + 1] \in s.seen
      /\ \A i \in n + 1 .. n + m : t.q[i] = asc[i - n] /\ asc[i - n] \in fresh
  BY <1>3 DEF Moved
<1>6. /\ \A i, j \in 1 .. n + 1 : i <= j => level[s.q[i]] <= level[s.q[j]]
      /\ \A v \in s.seen : level[v] <= level[u] + 1
  BY <1>2, <1>4 DEF Queued
<1>7. \A i \in 1 .. n : level[u] <= level[s.q[i + 1]]
  BY <1>2, <1>6
<1>8. \A i \in 1 .. n : deeper[t.q[i]] = level[s.q[i + 1]] /\ level[s.q[i + 1]] \in Nat
  BY <1>1, <1>5
<1>9. \A i \in n + 1 .. n + m : deeper[t.q[i]] = level[u] + 1
  BY <1>1, <1>5
<1>10. ASSUME NEW i \in 1 .. n + m, NEW j \in 1 .. n + m, i <= j
       PROVE  deeper[t.q[i]] <= deeper[t.q[j]]
  <2>1. CASE j <= n
    <3>1. i \in 1 .. n /\ j \in 1 .. n /\ i + 1 \in 1 .. n + 1 /\ j + 1 \in 1 .. n + 1
          /\ i + 1 <= j + 1
      BY <1>10, <2>1
    <3> QED
      BY <1>6, <1>8, <3>1
  <2>2. CASE ~ (j <= n) /\ i <= n
    <3>1. i \in 1 .. n /\ j \in n + 1 .. n + m
      BY <2>2
    <3>2. s.q[i + 1] \in s.seen
      BY <1>5, <3>1
    <3> QED
      BY <1>6, <1>8, <1>9, <3>1, <3>2
  <2>3. CASE ~ (i <= n)
    <3>1. i \in n + 1 .. n + m /\ j \in n + 1 .. n + m
      BY <1>10, <2>3
    <3> QED
      BY <1>1, <1>9, <3>1
  <2> QED
    BY <2>1, <2>2, <2>3
<1>11. ASSUME t.q # <<>>, NEW v \in t.seen PROVE deeper[v] <= deeper[t.q[1]] + 1
  <2>1. 1 \in 1 .. n + m
    BY <1>4, <1>5, <1>11
  <2>2. level[u] <= deeper[t.q[1]] /\ deeper[t.q[1]] \in Nat
    <3>1. CASE 1 <= n
      <4>1. 1 \in 1 .. n
        BY <3>1
      <4> QED
        BY <1>7, <1>8, <4>1
    <3>2. CASE ~ (1 <= n)
      <4>1. 1 \in n + 1 .. n + m
        BY <2>1, <3>2
      <4> QED
        BY <1>1, <1>9, <4>1
    <3> QED
      BY <3>1, <3>2
  <2>3. deeper[v] <= level[u] + 1 /\ deeper[v] \in Nat
    <3>1. CASE v \in fresh
      BY <1>1, <3>1
    <3>2. CASE v \in s.seen
      <4>1. deeper[v] = level[v] /\ level[v] \in Nat /\ level[v] <= level[u] + 1
        BY <1>1, <1>6, <3>2
      <4> QED
        BY <4>1
    <3> QED
      BY <1>2, <3>1, <3>2
  <2> QED
    BY <1>1, <2>2, <2>3
<1>0c. StaysQueued(s, t, n, m, fresh)
  BY <1>3, StillQueued
<1>12. ASSUME NEW x \in t.seen
       PROVE  \/ \E i \in 1 .. n + m : t.q[i] = x
              \/ \A v \in Neighbors(x, up) : v \in t.seen /\ deeper[v] <= deeper[x] + 1
  <2>1. CASE x \in fresh
    BY <2>1, <1>0c DEF StaysQueued
  <2>2. CASE x # u /\ \E i \in 1 .. Len(s.q) : s.q[i] = x
    <3>1. PICK j \in 1 .. Len(s.q) : s.q[j] = x
      BY <2>2
    <3>2. s.q[j] # s.q[1]
      BY <1>2, <2>2, <3>1
    <3>3. \A k \in 1 .. Len(s.q) : s.q[k] # s.q[1] =>
             \E i \in 1 .. n + m : t.q[i] = s.q[k]
      BY <1>0c DEF StaysQueued
    <3> QED
      BY <3>1, <3>2, <3>3
  <2>3. CASE x = u
    <3>1. ASSUME NEW v \in Neighbors(u, up) PROVE v \in t.seen /\ deeper[v] <= deeper[u] + 1
      <4>1. CASE v \in fresh
        <5>1. deeper[v] = level[u] + 1 /\ deeper[u] = level[u] /\ level[u] \in Nat
          BY <1>1, <4>1
        <5> QED
          BY <1>2, <4>1, <5>1
      <4>2. CASE v \in s.seen
        <5>1. deeper[v] = level[v] /\ level[v] <= level[u] + 1 /\ deeper[u] = level[u]
          BY <1>1, <1>6, <4>2
        <5> QED
          BY <1>2, <4>2, <5>1
      <4> QED
        BY <1>2, <4>1, <4>2
    <3> QED
      BY <2>3, <3>1
  <2>4. CASE x \in s.seen /\ x # u /\ ~ \E i \in 1 .. Len(s.q) : s.q[i] = x
    <3>1. \A v \in Neighbors(x, up) : v \in s.seen /\ level[v] <= level[x] + 1
      BY <2>4 DEF Queued
    <3> QED
      BY <1>1, <1>2, <2>4, <3>1
  <2> QED
    BY <1>2, <2>1, <2>2, <2>3, <2>4
<1> QED
  BY <1>5, <1>10, <1>11, <1>12 DEF Queued, Neighbors

(* dst is found no later than its distance allows: what is queued is not   *)
-----------------------------------------------------------------------------
(* With a cost of one for each link a path costs its hops.                 *)
LEMMA PathHops ==
    ASSUME NEW path, Walk(path)
    PROVE  PathCost(path, HopCost) = Len(path) - 1
<1>1. PICK n \in Nat : n = Len(path) - 1
  BY DEF Walk
<1>2. PICK sum : Sums(sum, path, HopCost) /\ PathCost(path, HopCost) = sum[n]
  BY <1>1, HopCostTyped, PathCostIs
<1> DEFINE P == {k \in 0 .. n : sum[k] = k}
<1>3. 0 \in P
  BY <1>2 DEF Sums
<1>4. ASSUME NEW k \in 0 .. n - 1, k \in P PROVE k + 1 \in P
  <2>1. k + 1 \in 1 .. n /\ (k + 1) - 1 = k /\ k + 1 \in 0 .. n
    OBVIOUS
  <2>2. HopCost[{path[k + 1], path[(k + 1) + 1]}] = 1
    BY <1>1, <2>1, HopCostTyped DEF Walk
  <2>3. sum[k + 1] = sum[k] + HopCost[{path[k + 1], path[(k + 1) + 1]}]
    BY <1>1, <1>2, <2>1 DEF Sums
  <2> QED
    BY <1>4, <2>1, <2>2, <2>3
<1> HIDE DEF P
<1>5. \A k \in 0 .. n - 1 : k \in P => k + 1 \in P
  BY <1>4
<1>6. 0 .. n \subseteq P
  BY <1>3, <1>5, Induction
<1>7. n \in P
  BY <1>6
<1> QED
  BY <1>1, <1>2, <1>7 DEF P

LEMMA BfsTree ==
    ASSUME NEW s, NEW up, NEW src, NEW goal,
           BfsTyped(s, up, src, goal), NEW level, Levelled(s, up, src, level)
    PROVE  Tree(up, s.seen, src, s.prev, level, HopCost, level)
<1>1. up \subseteq Link /\ s.seen \subseteq Node
  BY DEF BfsTyped
<1>2. level \in [s.seen -> Nat] /\ level \in [s.seen -> 0 .. Cardinality(Node) - 1]
  <2>1. /\ IsFiniteSet(s.seen) /\ Cardinality(s.seen) <= Cardinality(Node)
        /\ Cardinality(s.seen) \in Nat /\ Cardinality(Node) \in Nat
    BY <1>1, TopologyAssumption, FS_Subset, FS_CardinalityType
  <2>2. level \in [s.seen -> 0 .. Cardinality(s.seen) - 1]
    BY DEF Levelled
  <2> QED
    BY <2>1, <2>2
<1>3. ASSUME NEW v \in s.seen \ {src}
      PROVE  /\ s.prev[v] \in s.seen /\ v \in Neighbors(s.prev[v], up)
             /\ level[v] = level[s.prev[v]] + HopCost[{s.prev[v], v}]
             /\ level[s.prev[v]] < level[v]
  <2>1. PICK u \in s.seen : u = s.prev[v]
    BY DEF Levelled
  <2>2. v \in Neighbors(u, up) /\ level[v] = level[u] + 1
    BY <2>1 DEF Levelled
  <2>3. {u, v} \in Link
    BY <1>1, <2>2, NeighborsTyped
  <2>4. HopCost[{u, v}] = 1 /\ level[u] \in Nat
    BY <1>2, <2>3, HopCostTyped
  <2> QED
    BY <2>1, <2>2, <2>4
<1> QED
  BY <1>1, <1>2, <1>3, HopCostTyped DEF Tree, Levelled

-----------------------------------------------------------------------------
(* Ties in shortest_path(): the nodes of one level are queued in the order *)
(* of the first hops of their paths.                                       *)
NotAfter(a, h, b, g) == a < b \/ (a = b /\ h <= g)

LEMMA NotAfterOrders ==
    /\ \A a, h, b, g, c, f \in Nat :
          NotAfter(a, h, b, g) /\ NotAfter(b, g, c, f) => NotAfter(a, h, c, f)
    /\ \A a, h, b, g \in Nat : NotAfter(a, h, b, g) => NotAfter(a + 1, h, b + 1, g)
    /\ \A a, h \in Nat : NotAfter(a, h, a, h) /\ NotAfter(a, h, a + 1, h)
BY DEF NotAfter

(* There are n links on the way from x to v.                               *)
Hops(up, x, v, n) == \A C : (<<x, 0>> \in C /\ Closed(up, C, HopCost)) => <<v, n>> \in C

Hopped(s, src, hop) ==
    /\ hop \in [s.seen -> Nat] /\ hop[src] = 0
    /\ \A v \in s.seen \ {src} :
          hop[v] = IF s.prev[v] = src THEN v ELSE hop[s.prev[v]]

Ordered(s, up, src, level, hop) ==
    /\ \A i \in 1 .. Len(s.q) : s.q[i] = src => Len(s.q) = 1 /\ s.seen = {src}
    /\ \A i, j \in 1 .. Len(s.q) : i <= j =>
          NotAfter(level[s.q[i]], hop[s.q[i]], level[s.q[j]], hop[s.q[j]])
    /\ s.q # <<>> => \A v \in s.seen :
          NotAfter(level[v], hop[v], level[s.q[1]] + 1, hop[s.q[1]])
    /\ \A u \in s.seen \ {src} :
          \/ \E i \in 1 .. Len(s.q) : s.q[i] = u
          \/ \A v \in Neighbors(u, up) :
                NotAfter(level[v], hop[v], level[u] + 1, hop[u])

(* No way to the goal is shorter than its level, and none as short has a   *)
(* lower first hop.                                                        *)
Foremost(up, src, goal, level, hop) ==
    /\ \A n \in Nat : Hops(up, src, goal, n) => level[goal] <= n
    /\ \A h \in Neighbors(src, up), n \in Nat :
          Hops(up, h, goal, n) /\ n + 1 <= level[goal] => hop[goal] <= h

BfsHops(s, up, src, goal, level, hop) ==
    /\ Levelled(s, up, src, level) /\ Hopped(s, src, hop)
    /\ IF Searching(s, src, goal) THEN Queued(s, up, level) /\ Ordered(s, up, src, level, hop)
                    ELSE s.q = <<>> /\ Foremost(up, src, goal, level, hop)

FirstHops(s, up, src, goal) ==
    BfsTyped(s, up, src, goal) /\ \E level, hop : BfsHops(s, up, src, goal, level, hop)

FirstHopInv == FirstHops(bfs, active, node, dst)

LEMMA InitHops ==
    ASSUME NEW up, up \subseteq Link, NEW src \in Node, NEW goal \in Node,
           NEW s, s = BfsInit(src)
    PROVE  FirstHops(s, up, src, goal)
<1>1. s = [q |-> <<src>>, seen |-> {src}, prev |-> <<>>]
  BY DEF BfsInit
<1>2. BfsTyped(s, up, src, goal)
  BY <1>1 DEF BfsTyped
<1> DEFINE level == [v \in {src} |-> 0]
<1>3. Levelled(s, up, src, level) /\ Queued(s, up, level)
  <2>1. Cardinality({src}) = 1
    BY FS_Singleton
  <2>2. DOMAIN s.prev = {}
    BY <1>1
  <2>3. Levelled(s, up, src, level)
    BY <1>1, <2>1, <2>2 DEF Levelled
  <2>4. Queued(s, up, level)
    BY <1>1 DEF Queued
  <2> QED
    BY <2>3, <2>4
<1>4. Searching(s, src, goal)
  BY <1>1 DEF Searching
<1> DEFINE hop == [v \in {src} |-> 0]
<1>5. Hopped(s, src, hop)
  BY <1>1 DEF Hopped
<1>6. Ordered(s, up, src, level, hop)
  <2>1. /\ s.seen = {src} /\ Len(s.q) = 1 /\ s.q[1] = src
        /\ level[src] = 0 /\ hop[src] = 0
    BY <1>1, <1>3 DEF Levelled
  <2>2. NotAfter(0, 0, 0, 0) /\ NotAfter(0, 0, 0 + 1, 0)
    BY NotAfterOrders
  <2> HIDE DEF hop
  <2>3. \A i \in 1 .. Len(s.q) : i = 1
    BY <2>1
  <2> QED
    BY <2>1, <2>2, <2>3 DEF Ordered
<1> HIDE DEF level, hop
<1> QED
  BY <1>2, <1>3, <1>4, <1>5, <1>6 DEF FirstHops, BfsHops

Onward(s, src, hop, u, fresh) ==
    [v \in s.seen \cup fresh |->
        IF v \in fresh THEN IF u = src THEN v ELSE hop[u] ELSE hop[v]]

(* What the new first hops are, seen from the old ones.                    *)
Onwarded(s, src, hop, u, fresh, onward) ==
    /\ \A v \in fresh : (u = src => onward[v] = v) /\ (u # src => onward[v] = hop[u])
    /\ \A v \in s.seen : v \notin fresh /\ onward[v] = hop[v] /\ hop[v] \in Nat
    /\ u \in s.seen /\ hop[u] \in Nat
    /\ \A v \in fresh : v \in Nat

LEMMA OnwardIs ==
    ASSUME NEW s, NEW t, NEW up, NEW src, NEW goal, NEW hop,
           Hopped(s, src, hop), NEW u, NEW fresh, Dequeued(s, t, up, goal, u, fresh)
    PROVE  Onwarded(s, src, hop, u, fresh, Onward(s, src, hop, u, fresh))
<1>1. hop \in [s.seen -> Nat]
  BY DEF Hopped
<1>2. u \in s.seen /\ (\A v \in s.seen : v \notin fresh) /\ \A v \in fresh : v \in Nat
  BY TopologyAssumption DEF Dequeued
<1> QED
  BY <1>1, <1>2 DEF Onward, Onwarded

LEMMA DequeueHopped ==
    ASSUME NEW s, NEW t, NEW up, NEW src, NEW goal,
           BfsTyped(s, up, src, goal), NEW level, Levelled(s, up, src, level), NEW hop,
           Hopped(s, src, hop),
           NEW u, NEW fresh, Dequeued(s, t, up, goal, u, fresh), NEW onward,
           onward = Onward(s, src, hop, u, fresh)
    PROVE  Hopped(t, src, onward)
<1>0b. Onwarded(s, src, hop, u, fresh, onward)
  BY OnwardIs
<1>1. /\ \A v \in fresh : (u = src => onward[v] = v) /\ (u # src => onward[v] = hop[u])
      /\ \A v \in s.seen : v \notin fresh /\ onward[v] = hop[v]
      /\ \A v \in s.seen : hop[v] \in Nat
  BY <1>0b DEF Onwarded
<1>2. \A v \in fresh : v \in Nat
  BY <1>0b DEF Onwarded
<1>3. /\ t.seen = s.seen \cup fresh /\ u \in s.seen
      /\ DOMAIN t.prev = DOMAIN s.prev \cup fresh
      /\ \A v \in DOMAIN t.prev : t.prev[v] = IF v \in fresh THEN u ELSE s.prev[v]
  BY DEF Dequeued
<1>4. src \in s.seen /\ DOMAIN s.prev = s.seen \ {src}
      /\ \A v \in s.seen \ {src} : s.prev[v] \in s.seen
  BY DEF Levelled
<1>5. onward \in [t.seen -> Nat]
  <2>1. onward = [v \in t.seen |-> onward[v]]
    BY <1>3 DEF Onward
  <2>2. ASSUME NEW v \in t.seen PROVE onward[v] \in Nat
    BY <1>1, <1>2, <1>3
  <2> QED
    BY <2>1, <2>2
<1>6. onward[src] = 0
  BY <1>1, <1>4 DEF Hopped
<1>7. ASSUME NEW v \in t.seen \ {src}
      PROVE  onward[v] = IF t.prev[v] = src THEN v ELSE onward[t.prev[v]]
  <2>1. CASE v \in fresh
    <3>1. t.prev[v] = u /\ onward[u] = hop[u]
      BY <1>1, <1>3, <2>1
    <3> QED
      BY <1>1, <2>1, <3>1
  <2>2. CASE v \notin fresh
    <3>1. v \in s.seen \ {src} /\ t.prev[v] = s.prev[v] /\ s.prev[v] \in s.seen
      BY <1>3, <1>4, <2>2
    <3>2. hop[v] = IF s.prev[v] = src THEN v ELSE hop[s.prev[v]]
      BY <3>1 DEF Hopped
    <3> QED
      BY <1>1, <3>1, <3>2
  <2> QED
    BY <2>1, <2>2
<1> QED
  BY <1>5, <1>6, <1>7 DEF Hopped

LEMMA DequeueOrders ==
    ASSUME NEW s, NEW t, NEW up, NEW src, NEW goal,
           BfsTyped(s, up, src, goal), NEW level, Levelled(s, up, src, level), Queued(s, up, level),
           NEW hop, Hopped(s, src, hop), Ordered(s, up, src, level, hop),
           NEW u, NEW fresh, Dequeued(s, t, up, goal, u, fresh), NEW deeper,
           deeper = Deeper(s, level, u, fresh),
           NEW onward, onward = Onward(s, src, hop, u, fresh), goal \notin fresh
    PROVE  Ordered(t, up, src, deeper, onward)
<1>0a. Deepened(s, level, u, fresh, deeper)
  BY DeeperIs
<1>1. /\ \A v \in fresh : deeper[v] = level[u] + 1
      /\ \A v \in s.seen : v \notin fresh /\ deeper[v] = level[v] /\ level[v] \in Nat
      /\ u \in s.seen /\ level[u] \in Nat
  BY <1>0a DEF Deepened
<1>0b. Onwarded(s, src, hop, u, fresh, onward)
  BY OnwardIs
<1>2. /\ \A v \in fresh : (u = src => onward[v] = v) /\ (u # src => onward[v] = hop[u])
      /\ \A v \in s.seen : onward[v] = hop[v] /\ hop[v] \in Nat
      /\ hop[u] \in Nat /\ \A v \in fresh : v \in Nat
  BY <1>0b DEF Onwarded
<1>3. /\ s.q # <<>> /\ u = s.q[1] /\ t.seen = s.seen \cup fresh
      /\ fresh = Neighbors(u, up) \ s.seen
  BY DEF Dequeued
<1>4. PICK n \in Nat, m \in Nat : Moved(s, t, n, m, Ascending(fresh), fresh)
  <2>1. PICK n, m : n \in Nat /\ m \in Nat /\ Moved(s, t, n, m, Ascending(fresh), fresh)
    BY DequeueMoves
  <2> QED
    BY <2>1
<1> DEFINE asc == Ascending(fresh)
<1>5. /\ Len(s.q) = n + 1 /\ Len(t.q) = n + m
      /\ \A i \in 1 .. n : t.q[i] = s.q[i + 1] /\ s.q[i + 1] \in s.seen
      /\ \A i \in n + 1 .. n + m : t.q[i] \in fresh
  BY <1>4 DEF Moved
<1>6. ASSUME NEW i \in n + 1 .. n + m, NEW j \in n + 1 .. n + m, i <= j
      PROVE  t.q[i] \in Nat /\ t.q[j] \in Nat /\ t.q[i] <= t.q[j]
  <2>1. \A k, o \in 1 .. m : k < o => asc[k] < asc[o]
    BY <1>4 DEF Moved
  <2>2. t.q[i] = asc[i - n] /\ t.q[j] = asc[j - n]
    BY <1>4 DEF Moved
  <2>3. i - n \in 1 .. m /\ j - n \in 1 .. m /\ (i = j \/ i - n < j - n)
    BY <1>6
  <2>4. t.q[i] \in Nat /\ t.q[j] \in Nat
    BY <1>2, <1>5
  <2> QED
    BY <2>1, <2>2, <2>3, <2>4
<1>7. src \in s.seen /\ level[src] = 0 /\ hop[src] = 0
  BY DEF Levelled, Hopped
<1>8. \A i \in 1 .. Len(s.q) : s.q[i] = src => Len(s.q) = 1 /\ s.seen = {src}
  BY DEF Ordered
<1>9. ASSUME NEW i \in 1 .. n + m PROVE t.q[i] # src
  <2>1. CASE i <= n
    <3>1. i \in 1 .. n /\ i + 1 \in 1 .. Len(s.q) /\ Len(s.q) # 1
      BY <1>5, <2>1
    <3>2. t.q[i] = s.q[i + 1]
      BY <1>5, <3>1
    <3> QED
      BY <1>8, <3>1, <3>2
  <2>2. CASE ~ (i <= n)
    <3>1. i \in n + 1 .. n + m
      BY <2>2
    <3> QED
      BY <1>1, <1>5, <1>7, <3>1
  <2> QED
    BY <2>1, <2>2
<1>0c. StaysQueued(s, t, n, m, fresh)
  BY <1>4, StillQueued
<1>10. /\ \A x \in fresh : \E i \in 1 .. n + m : t.q[i] = x
       /\ \A k \in 1 .. Len(s.q) : s.q[k] # s.q[1] =>
             \E i \in 1 .. n + m : t.q[i] = s.q[k]
  BY <1>0c DEF StaysQueued
<1>11. CASE u = src
  <2>1. n = 0 /\ t.seen = {src} \cup fresh
    <3>1. 1 \in 1 .. Len(s.q)
      BY <1>5
    <3>2. Len(s.q) = 1 /\ s.seen = {src}
      BY <1>3, <1>8, <1>11, <3>1
    <3>3. n + 1 = 1
      BY <1>5, <3>2
    <3>4. n = 0
      BY <3>3
    <3> QED
      BY <1>3, <3>2, <3>4
  <2>2. \A v \in fresh : deeper[v] = 1 /\ onward[v] = v
    BY <1>1, <1>2, <1>7, <1>11
  <2>3. ASSUME NEW i \in 1 .. n + m, NEW j \in 1 .. n + m, i <= j
        PROVE  NotAfter(deeper[t.q[i]], onward[t.q[i]],
                        deeper[t.q[j]], onward[t.q[j]])
    <3>1. i \in n + 1 .. n + m /\ j \in n + 1 .. n + m
      BY <2>1
    <3>2. t.q[i] <= t.q[j] /\ t.q[i] \in fresh /\ t.q[j] \in fresh
      BY <1>5, <1>6, <2>3, <3>1
    <3> QED
      BY <2>2, <3>2 DEF NotAfter
  <2>4. ASSUME t.q # <<>>, NEW v \in t.seen
        PROVE  NotAfter(deeper[v], onward[v], deeper[t.q[1]] + 1, onward[t.q[1]])
    <3>1. 1 \in n + 1 .. n + m
      BY <1>4, <1>5, <2>1, <2>4 DEF Moved
    <3>2. deeper[t.q[1]] = 1
      BY <1>5, <2>2, <3>1
    <3>3. deeper[v] = 0 \/ deeper[v] = 1
      BY <1>1, <1>7, <2>1, <2>2
    <3> QED
      BY <3>2, <3>3 DEF NotAfter
  <2>5. ASSUME NEW x \in t.seen \ {src} PROVE \E i \in 1 .. n + m : t.q[i] = x
    BY <1>10, <2>1
  <2> QED
    BY <1>5, <1>9, <2>3, <2>4, <2>5 DEF Ordered
<1>12. CASE u # src
  <2>1. /\ \A i, j \in 1 .. n + 1 : i <= j =>
              NotAfter(level[s.q[i]], hop[s.q[i]], level[s.q[j]], hop[s.q[j]])
        /\ \A v \in s.seen : NotAfter(level[v], hop[v], level[u] + 1, hop[u])
    BY <1>3, <1>5 DEF Ordered
  <2>2. \A v \in fresh : deeper[v] = level[u] + 1 /\ onward[v] = hop[u]
    BY <1>1, <1>2, <1>12
  <2>3. \A i \in 1 .. n : /\ s.q[i + 1] \in s.seen
                          /\ deeper[t.q[i]] = level[s.q[i + 1]]
                          /\ onward[t.q[i]] = hop[s.q[i + 1]]
    BY <1>1, <1>2, <1>5
  <2>4. \A i \in n + 1 .. n + m : deeper[t.q[i]] = level[u] + 1 /\ onward[t.q[i]] = hop[u]
    BY <1>5, <2>2
  <2>5. level[u] + 1 \in Nat
    BY <1>1
  <2>6. ASSUME NEW i \in 1 .. n + m, NEW j \in 1 .. n + m, i <= j
        PROVE  NotAfter(deeper[t.q[i]], onward[t.q[i]],
                        deeper[t.q[j]], onward[t.q[j]])
    <3>1. CASE j <= n
      <4>1. i \in 1 .. n /\ j \in 1 .. n /\ i + 1 \in 1 .. n + 1 /\ j + 1 \in 1 .. n + 1
            /\ i + 1 <= j + 1
        BY <2>6, <3>1
      <4>2. NotAfter(level[s.q[i + 1]], hop[s.q[i + 1]],
                     level[s.q[j + 1]], hop[s.q[j + 1]])
        BY <2>1, <4>1
      <4> QED
        BY <2>3, <4>1, <4>2
    <3>2. CASE ~ (j <= n) /\ i <= n
      <4>1. i \in 1 .. n /\ j \in n + 1 .. n + m
        BY <3>2
      <4>2. NotAfter(level[s.q[i + 1]], hop[s.q[i + 1]], level[u] + 1, hop[u])
        BY <2>1, <2>3, <4>1
      <4> QED
        BY <2>3, <2>4, <4>1, <4>2
    <3>3. CASE ~ (i <= n)
      <4>1. i \in n + 1 .. n + m /\ j \in n + 1 .. n + m
        BY <2>6, <3>3
      <4>2. NotAfter(level[u] + 1, hop[u], level[u] + 1, hop[u])
        BY <1>2, <2>5, NotAfterOrders
      <4> QED
        BY <2>4, <4>1, <4>2
    <3> QED
      BY <3>1, <3>2, <3>3
  <2>7. ASSUME NEW v \in t.seen
        PROVE  NotAfter(deeper[v], onward[v], level[u] + 1, hop[u])
               /\ deeper[v] \in Nat /\ onward[v] \in Nat
    <3>1. CASE v \in fresh
      <4>1. deeper[v] = level[u] + 1 /\ onward[v] = hop[u] /\ hop[u] \in Nat
        BY <1>2, <2>2, <3>1
      <4>2. NotAfter(level[u] + 1, hop[u], level[u] + 1, hop[u])
        BY <2>5, <4>1, NotAfterOrders
      <4> QED
        BY <2>5, <4>1, <4>2
    <3>2. CASE v \in s.seen
      BY <1>1, <1>2, <2>1, <3>2
    <3> QED
      BY <1>3, <3>1, <3>2
  <2>8. ASSUME t.q # <<>>, NEW v \in t.seen
        PROVE  NotAfter(deeper[v], onward[v], deeper[t.q[1]] + 1, onward[t.q[1]])
    <3>1. n + m # 0
      <4>1. t.q \in Seq(t.seen)
        BY <1>4 DEF Moved
      <4> QED
        BY <1>5, <2>8, <4>1
    <3>2. PICK a \in Nat, h \in Nat :
             /\ a = deeper[t.q[1]] /\ h = onward[t.q[1]]
             /\ NotAfter(level[u] + 1, hop[u], a + 1, h)
      <4>1. CASE 1 <= n
        <5>1. 1 \in 1 .. n /\ 1 \in 1 .. n + 1 /\ 2 \in 1 .. n + 1 /\ 1 + 1 = 2 /\ 1 <= 2
          BY <4>1
        <5>2. PICK w \in s.seen : w = s.q[2]
          BY <2>3, <5>1
        <5>3. NotAfter(level[u], hop[u], level[w], hop[w])
          BY <1>3, <2>1, <5>1, <5>2
        <5>4. NotAfter(level[u] + 1, hop[u], level[w] + 1, hop[w])
          BY <1>1, <1>2, <5>3, NotAfterOrders
        <5>5. deeper[t.q[1]] = level[w] /\ onward[t.q[1]] = hop[w]
          BY <2>3, <5>1, <5>2
        <5> QED
          BY <1>1, <1>2, <5>4, <5>5
      <4>2. CASE ~ (1 <= n)
        <5>1. 1 \in n + 1 .. n + m
          BY <3>1, <4>2
        <5>2. deeper[t.q[1]] = level[u] + 1 /\ onward[t.q[1]] = hop[u]
          BY <2>4, <5>1
        <5>3. NotAfter(level[u] + 1, hop[u], (level[u] + 1) + 1, hop[u])
          BY <1>2, <2>5, NotAfterOrders
        <5> QED
          BY <1>2, <2>5, <5>2, <5>3
      <4> QED
        BY <4>1, <4>2
    <3>3. NotAfter(deeper[v], onward[v], a + 1, h)
      <4>1. PICK b \in Nat, g \in Nat : b = deeper[v] /\ g = onward[v]
        BY <2>7
      <4>2. PICK c \in Nat, f \in Nat : c = level[u] + 1 /\ f = hop[u]
        BY <1>2, <2>5
      <4>3. NotAfter(b, g, c, f) /\ NotAfter(c, f, a + 1, h) /\ a + 1 \in Nat
        BY <2>7, <3>2, <4>1, <4>2
      <4>4. NotAfter(b, g, a + 1, h)
        BY <4>3, NotAfterOrders
      <4> QED
        BY <4>1, <4>4
    <3> QED
      BY <3>2, <3>3
  <2>9. ASSUME NEW x \in t.seen \ {src}
        PROVE  \/ \E i \in 1 .. n + m : t.q[i] = x
               \/ \A v \in Neighbors(x, up) :
                     NotAfter(deeper[v], onward[v], deeper[x] + 1, onward[x])
    <3>1. CASE x \in fresh
      BY <1>10, <3>1
    <3>2. CASE x # u /\ \E i \in 1 .. Len(s.q) : s.q[i] = x
      <4>1. PICK k \in 1 .. Len(s.q) : s.q[k] = x
        BY <3>2
      <4>2. s.q[k] # s.q[1]
        BY <1>3, <3>2, <4>1
      <4> QED
        BY <1>10, <4>1, <4>2
    <3>3. CASE x = u
      <4>1. \A v \in Neighbors(u, up) : v \in t.seen
        BY <1>3
      <4>2. deeper[u] = level[u] /\ onward[u] = hop[u]
        BY <1>1, <1>2
      <4> QED
        BY <2>7, <3>3, <4>1, <4>2
    <3>4. CASE x \in s.seen /\ ~ \E i \in 1 .. Len(s.q) : s.q[i] = x
      <4>1. \A v \in Neighbors(x, up) : v \in s.seen
        BY <3>4 DEF Queued
      <4>2. \A v \in Neighbors(x, up) : NotAfter(level[v], hop[v], level[x] + 1, hop[x])
        BY <3>4 DEF Ordered
      <4>3. deeper[x] = level[x] /\ onward[x] = hop[x]
        BY <1>1, <1>2, <3>4
      <4> QED
        BY <1>1, <1>2, <4>1, <4>2, <4>3
    <3> QED
      BY <1>3, <3>1, <3>2, <3>3, <3>4
  <2> QED
    BY <1>5, <1>9, <2>6, <2>8, <2>9 DEF Ordered, Neighbors
<1> QED
  BY <1>11, <1>12

(* A way that begins with h comes past what is queued, no lower in order.  *)
Passing(s, level, hop, h) ==
    {p \in Node \X Nat :
        \/ p[1] \in s.seen /\ NotAfter(level[p[1]], hop[p[1]], p[2] + 1, h)
        \/ \E i \in 1 .. Len(s.q) :
              NotAfter(level[s.q[i]] + 1, hop[s.q[i]], p[2] + 1, h)}

LEMMA PassingClosed ==
    ASSUME NEW s, NEW up, NEW src, NEW goal,
           BfsTyped(s, up, src, goal), NEW level, Levelled(s, up, src, level), Queued(s, up, level),
           NEW hop, Hopped(s, src, hop), Ordered(s, up, src, level, hop), s.q # <<>>, s.q[1] # src,
           NEW h \in Neighbors(src, up)
    PROVE  <<h, 0>> \in Passing(s, level, hop, h) /\ Closed(up, Passing(s, level, hop, h), HopCost)
<1>1. /\ up \subseteq Link /\ src \in Node /\ s.seen \subseteq Node
      /\ \A i \in 1 .. Len(s.q) : s.q[i] \in s.seen
  BY DEF BfsTyped
<1>2. \A v \in s.seen : level[v] \in Nat /\ hop[v] \in Nat
  <2>1. \A v \in s.seen : level[v] \in 0 .. Cardinality(s.seen) - 1
    BY DEF Levelled
  <2>2. \A v \in s.seen : hop[v] \in Nat
    BY DEF Hopped
  <2> QED
    BY <2>1, <2>2
<1>3. src \in s.seen /\ level[src] = 0 /\ h \in Node /\ h \in Nat
  BY <1>1, NeighborsTyped, TopologyAssumption DEF Levelled
<1>4. \A w \in Neighbors(src, up) : w \in s.seen /\ level[w] <= 1
  <2>1. 1 \in 1 .. Len(s.q)
    BY DEF BfsTyped
  <2>2. ASSUME NEW i \in 1 .. Len(s.q) PROVE s.q[i] # src
    <3> SUFFICES ASSUME s.q[i] = src PROVE FALSE
      OBVIOUS
    <3>1. Len(s.q) = 1
      BY DEF Ordered
    <3> QED
      BY <2>1, <3>1
  <2>3. \A w \in Neighbors(src, up) : w \in s.seen /\ level[w] <= level[src] + 1
    BY <1>3, <2>2 DEF Queued
  <2> QED
    BY <1>3, <2>3
<1>5. NotAfter(level[h], hop[h], 1, h)
  <2>1. CASE level[h] = 1
    <3>1. h # src /\ h \in s.seen
      BY <1>3, <1>4, <2>1
    <3>2. s.prev[h] \in s.seen /\ level[h] = level[s.prev[h]] + 1
      BY <3>1 DEF Levelled
    <3>3. s.prev[h] = src
      <4> SUFFICES ASSUME s.prev[h] # src PROVE FALSE
        OBVIOUS
      <4>1. PICK w \in s.seen \ {src} : w = s.prev[h]
        BY <3>2
      <4>2. s.prev[w] \in s.seen /\ level[w] = level[s.prev[w]] + 1
        BY DEF Levelled
      <4>3. level[s.prev[w]] \in Nat
        BY <1>2, <4>2
      <4> QED
        BY <2>1, <3>2, <4>1, <4>2, <4>3
    <3>4. hop[h] = h
      BY <3>1, <3>3 DEF Hopped
    <3> QED
      BY <1>3, <2>1, <3>4 DEF NotAfter
  <2>2. CASE level[h] # 1
    <3>1. level[h] < 1
      BY <1>2, <1>4, <2>2
    <3> QED
      BY <3>1 DEF NotAfter
  <2> QED
    BY <2>1, <2>2
<1>6. <<h, 0>> \in Passing(s, level, hop, h)
  BY <1>3, <1>4, <1>5 DEF Passing
<1>7. ASSUME NEW u \in Node, NEW x \in Nat, <<u, x>> \in Passing(s, level, hop, h),
             NEW w \in Neighbors(u, up)
      PROVE  <<w, x + HopCost[{u, w}]>> \in Passing(s, level, hop, h)
  <2>1. w \in Node /\ HopCost[{u, w}] = 1 /\ x + 1 \in Nat
    <3>1. w \in Node /\ {u, w} \in Link
      BY <1>1, <1>7, NeighborsTyped
    <3> QED
      BY <3>1, HopCostTyped
  <2>2. SUFFICES \/ w \in s.seen /\ NotAfter(level[w], hop[w], (x + 1) + 1, h)
                 \/ \E i \in 1 .. Len(s.q) :
                       NotAfter(level[s.q[i]] + 1, hop[s.q[i]], (x + 1) + 1, h)
    BY <2>1 DEF Passing
  <2>3. CASE \E i \in 1 .. Len(s.q) :
                NotAfter(level[s.q[i]] + 1, hop[s.q[i]], x + 1, h)
    <3>1. PICK i \in 1 .. Len(s.q) : NotAfter(level[s.q[i]] + 1, hop[s.q[i]], x + 1, h)
      BY <2>3
    <3>2. level[s.q[i]] \in Nat
      BY <1>1, <1>2
    <3>3. NotAfter(level[s.q[i]] + 1, hop[s.q[i]], (x + 1) + 1, h)
      BY <3>1, <3>2 DEF NotAfter
    <3> QED
      BY <3>3
  <2>4. CASE u \in s.seen /\ NotAfter(level[u], hop[u], x + 1, h)
    <3>1. NotAfter(level[u] + 1, hop[u], (x + 1) + 1, h)
      BY <1>2, <1>3, <2>1, <2>4, NotAfterOrders
    <3>2. CASE \E i \in 1 .. Len(s.q) : s.q[i] = u
      BY <3>1, <3>2
    <3>3. CASE u = src
      <4>1. w \in s.seen /\ level[w] < (x + 1) + 1
        BY <1>2, <1>4, <3>3
      <4> QED
        BY <4>1 DEF NotAfter
    <3>4. CASE u # src /\ ~ \E i \in 1 .. Len(s.q) : s.q[i] = u
      <4>1. w \in s.seen
        BY <2>4, <3>4 DEF Queued
      <4>2. NotAfter(level[w], hop[w], level[u] + 1, hop[u])
        BY <2>4, <3>4 DEF Ordered
      <4>3. level[u] + 1 \in Nat /\ (x + 1) + 1 \in Nat
        BY <1>2, <2>4
      <4>4. PICK a \in Nat, g \in Nat, b \in Nat, f \in Nat, y \in Nat :
               /\ a = level[w] /\ g = hop[w] /\ b = level[u] + 1 /\ f = hop[u]
               /\ y = (x + 1) + 1
        BY <1>2, <2>4, <4>1, <4>3
      <4>5. NotAfter(a, g, b, f) /\ NotAfter(b, f, y, h)
        BY <3>1, <4>2, <4>4
      <4>6. NotAfter(a, g, y, h)
        BY <1>3, <4>5, NotAfterOrders
      <4> QED
        BY <4>1, <4>4, <4>6
    <3> QED
      BY <3>2, <3>3, <3>4
  <2> QED
    BY <1>7, <2>3, <2>4 DEF Passing
<1> QED
  BY <1>6, <1>7 DEF Closed

(* Being h takes no links, being anything else at least one.               *)
LEMMA NoHops ==
    ASSUME NEW up,
           up \subseteq Link, NEW h \in Node, NEW v, NEW n \in Nat, Hops(up, h, v, n), n = 0
    PROVE  v = h
<1> DEFINE C == {p \in Node \X Nat : p[1] = h \/ p[2] > 0}
<1>1. <<h, 0>> \in C
  OBVIOUS
<1>2. Closed(up, C, HopCost)
  <2>1. ASSUME NEW u \in Node, NEW x \in Nat, NEW w \in Neighbors(u, up)
        PROVE  <<w, x + HopCost[{u, w}]>> \in C
    <3>1. w \in Node /\ {u, w} \in Link
      BY <2>1, NeighborsTyped
    <3>2. HopCost[{u, w}] = 1
      BY <3>1, HopCostTyped
    <3> QED
      BY <3>1, <3>2
  <2> HIDE DEF C
  <2> QED
    BY <2>1 DEF Closed
<1>3. <<v, n>> \in C
  <2> HIDE DEF C
  <2> QED
    BY <1>1, <1>2 DEF Hops
<1> QED
  BY <1>3

LEMMA DequeueForemost ==
    ASSUME NEW s, NEW t, NEW up, NEW src, NEW goal,
           BfsTyped(s, up, src, goal), NEW level, Levelled(s, up, src, level),
           Queued(s, up, level), Searching(s, src, goal),
           NEW hop, Hopped(s, src, hop), Ordered(s, up, src, level, hop),
           NEW u, NEW fresh, Dequeued(s, t, up, goal, u, fresh), NEW deeper,
           deeper = Deeper(s, level, u, fresh),
           NEW onward, onward = Onward(s, src, hop, u, fresh), goal \in fresh
    PROVE  ~ Searching(t, src, goal) /\ t.q = <<>> /\ Foremost(up, src, goal, deeper, onward)
<1>1. /\ deeper[goal] = level[u] + 1 /\ level[u] \in Nat
      /\ \A v \in s.seen : v \notin fresh /\ level[v] \in Nat
  <2>1a. Deepened(s, level, u, fresh, deeper)
    BY DeeperIs
  <2>1. deeper[goal] = level[u] + 1
    BY <2>1a DEF Deepened
  <2>2. level[u] \in Nat /\ \A v \in s.seen : v \notin fresh /\ level[v] \in Nat
    BY <2>1a DEF Deepened
  <2> QED
    BY <2>1, <2>2
<1>2. /\ (u = src => onward[goal] = goal) /\ (u # src => onward[goal] = hop[u])
      /\ hop[u] \in Nat /\ \A v \in s.seen : hop[v] \in Nat
  <2>1b. Onwarded(s, src, hop, u, fresh, onward)
    BY OnwardIs
  <2>1. (u = src => onward[goal] = goal) /\ (u # src => onward[goal] = hop[u])
    BY <2>1b DEF Onwarded
  <2>2. hop[u] \in Nat /\ \A v \in s.seen : hop[v] \in Nat
    BY <2>1b DEF Onwarded
  <2> QED
    BY <2>1, <2>2
<1>3. /\ up \subseteq Link /\ src \in Node /\ goal \in Node
      /\ s.q # <<>> /\ u = s.q[1] /\ t.q = <<>> /\ t.seen = s.seen \cup fresh
      /\ \A i \in 1 .. Len(s.q) : s.q[i] \in s.seen
  BY DEF BfsTyped, Dequeued
<1>4. goal # src /\ goal \notin s.seen /\ level[src] = 0
  BY <1>1 DEF Levelled
<1>5. \A i \in 1 .. Len(s.q) :
         level[u] <= level[s.q[i]] /\ NotAfter(level[u], hop[u], level[s.q[i]], hop[s.q[i]])
  <2>1. 1 \in 1 .. Len(s.q) /\ \A i \in 1 .. Len(s.q) : 1 <= i
    BY <1>3 DEF BfsTyped
  <2>2. \A i \in 1 .. Len(s.q) : level[u] <= level[s.q[i]]
    BY <1>3, <2>1 DEF Queued
  <2>3. \A i \in 1 .. Len(s.q) : NotAfter(level[u], hop[u], level[s.q[i]], hop[s.q[i]])
    BY <1>3, <2>1 DEF Ordered
  <2> QED
    BY <2>2, <2>3
<1>6. ASSUME NEW n \in Nat, Hops(up, src, goal, n) PROVE deeper[goal] <= n
  <2>1. <<src, 0>> \in Passed(s, level) /\ Closed(up, Passed(s, level), HopCost)
    BY PassedClosed
  <2>2. <<goal, n>> \in Passed(s, level)
    BY <1>6, <2>1 DEF Hops
  <2>3. PICK i \in 1 .. Len(s.q) : level[s.q[i]] + 1 <= n
    BY <1>4, <2>2 DEF Passed
  <2>4. level[u] <= level[s.q[i]] /\ level[s.q[i]] \in Nat
    BY <1>1, <1>3, <1>5
  <2> QED
    BY <1>1, <2>3, <2>4
<1>7. ASSUME NEW h \in Neighbors(src, up), NEW n \in Nat,
             Hops(up, h, goal, n), n + 1 <= deeper[goal]
      PROVE  onward[goal] <= h
  <2>1. h \in Node /\ h \in Nat
    BY <1>3, NeighborsTyped, TopologyAssumption
  <2>2. CASE u = src
    <3>1. n = 0
      BY <1>1, <1>4, <1>7, <2>2
    <3>2. goal = h
      BY <1>3, <1>7, <2>1, <3>1, NoHops
    <3> QED
      BY <1>2, <2>1, <2>2, <3>2
  <2>3. CASE u # src
    <3>1. /\ <<h, 0>> \in Passing(s, level, hop, h)
          /\ Closed(up, Passing(s, level, hop, h), HopCost)
      BY <1>3, <2>3, PassingClosed
    <3>2. <<goal, n>> \in Passing(s, level, hop, h)
      BY <1>7, <3>1 DEF Hops
    <3>3. PICK i \in 1 .. Len(s.q) : NotAfter(level[s.q[i]] + 1, hop[s.q[i]], n + 1, h)
      BY <1>4, <3>2 DEF Passing
    <3>4. PICK w \in s.seen : w = s.q[i]
      BY <1>3
    <3>5. NotAfter(level[u] + 1, hop[u], level[w] + 1, hop[w])
      BY <1>1, <1>2, <1>5, <3>4, NotAfterOrders
    <3>6. level[u] + 1 \in Nat /\ level[w] \in Nat /\ hop[w] \in Nat
      BY <1>1, <1>2
    <3>7. hop[u] <= h
      <4>1. PICK a \in Nat, g \in Nat, b \in Nat, f \in Nat :
               a = level[u] /\ g = hop[u] /\ b = level[w] /\ f = hop[w]
        BY <1>1, <1>2, <3>6
      <4>2. NotAfter(a + 1, g, b + 1, f) /\ NotAfter(b + 1, f, n + 1, h) /\ n + 1 <= a + 1
        BY <1>1, <1>7, <3>3, <3>4, <3>5, <4>1
      <4>3. g <= h
        BY <2>1, <4>2 DEF NotAfter
      <4> QED
        BY <4>1, <4>3
    <3> QED
      BY <1>2, <2>3, <3>7
  <2> QED
    BY <2>2, <2>3
<1>8. ~ Searching(t, src, goal)
  BY <1>3, <1>4 DEF Searching
<1> QED
  BY <1>3, <1>6, <1>7, <1>8 DEF Foremost

LEMMA DequeueHops ==
    ASSUME NEW s, NEW up, NEW src, NEW goal, FirstHops(s, up, src, goal), s.q # <<>>,
           NEW t, t = BfsStep(s, up, goal)
    PROVE  FirstHops(t, up, src, goal)
<1>1. BfsTyped(s, up, src, goal) /\ s.q # <<>>
  BY DEF FirstHops
<1>2. PICK level, hop : BfsHops(s, up, src, goal, level, hop)
  BY DEF FirstHops
<1>3. /\ Levelled(s, up, src, level) /\ Hopped(s, src, hop)
      /\ Searching(s, src, goal) /\ Queued(s, up, level) /\ Ordered(s, up, src, level, hop)
  BY <1>1, <1>2 DEF BfsHops
<1>4. PICK u, fresh : Dequeued(s, t, up, goal, u, fresh)
  BY <1>1, DequeuePrepared
<1>5. PICK deeper : deeper = Deeper(s, level, u, fresh)
  OBVIOUS
<1>6. PICK onward : onward = Onward(s, src, hop, u, fresh)
  OBVIOUS
<1>7. Levelled(t, up, src, deeper)
  BY <1>1, <1>3, <1>4, <1>5, DequeueLevels
<1>8. Hopped(t, src, onward)
  BY <1>1, <1>3, <1>4, <1>6, DequeueHopped
<1>9. BfsTyped(t, up, src, goal)
  <2>1. /\ t.seen = s.seen \cup fresh /\ s.seen \subseteq Node /\ fresh \subseteq Node
        /\ t = [q |-> t.q, seen |-> t.seen, prev |-> t.prev]
        /\ up \subseteq Link /\ src \in Node /\ goal \in Node
        /\ goal \in fresh => t.q = <<>>
    BY <1>1, <1>4 DEF Dequeued, BfsTyped
  <2>2. t.q \in Seq(t.seen)
    <3>1. CASE goal \in fresh
      <4>1. t.q = <<>>
        BY <2>1, <3>1
      <4>2. <<>> \in Seq(t.seen)
        OBVIOUS
      <4> QED
        BY <4>1, <4>2
    <3>2. CASE goal \notin fresh
      <4>1. t.q \in Seq(t.seen) /\ Queued(t, up, deeper)
        BY <1>1, <1>3, <1>4, <1>5, <3>2, DequeueQueues
      <4> QED
        BY <4>1
    <3> QED
      BY <3>1, <3>2
  <2> QED
    BY <2>1, <2>2 DEF BfsTyped
<1>10. /\ t.seen = s.seen \cup fresh
       /\ goal \in fresh => ~ Searching(t, src, goal) /\ t.q = <<>>
          /\ Foremost(up, src, goal, deeper, onward)
  <2>1. goal \in fresh => ~ Searching(t, src, goal) /\ t.q = <<>>
          /\ Foremost(up, src, goal, deeper, onward)
    BY <1>1, <1>3, <1>4, <1>5, <1>6, DequeueForemost
  <2> QED
    BY <1>4, <2>1 DEF Dequeued
<1>11. goal \notin fresh => Searching(t, src, goal) /\ Queued(t, up, deeper)
         /\ Ordered(t, up, src, deeper, onward)
  <2>1. goal \notin fresh => Queued(t, up, deeper)
    BY <1>1, <1>3, <1>4, <1>5, DequeueQueues
  <2>2. goal \notin fresh => Ordered(t, up, src, deeper, onward)
    BY <1>1, <1>3, <1>4, <1>5, <1>6, DequeueOrders
  <2>3. goal \notin fresh => Searching(t, src, goal)
    BY <1>1, <1>3, <1>10 DEF Searching
  <2> QED
    BY <2>1, <2>2, <2>3
<1>12. BfsHops(t, up, src, goal, deeper, onward)
  BY <1>7, <1>8, <1>10, <1>11 DEF BfsHops
<1> QED
  BY <1>9, <1>12 DEF FirstHops

(* shortest_path: of the ways with the least number of hops it finds one   *)
(* with the lowest first hop.                                              *)
THEOREM FirstHopInvIsInvariant == Spec => []FirstHopInv
<1>1. Init => FirstHopInv
  BY InputAssumption, InitHops DEF Init, FirstHopInv
<1>2. ASSUME FirstHopInv, [Next]_vars PROVE FirstHopInv'
  <2>1. CASE BfsDequeue
    <3>1. /\ bfs.q # <<>> /\ bfs' = BfsStep(bfs, active, dst)
          /\ UNCHANGED <<active, node, dst>>
      BY <2>1 DEF BfsDequeue
    <3>2. PICK t : t = BfsStep(bfs, active, dst)
      OBVIOUS
    <3>3. FirstHops(t, active, node, dst)
      BY <1>2, <3>1, <3>2, DequeueHops DEF FirstHopInv
    <3> QED
      BY <3>1, <3>2, <3>3 DEF FirstHopInv
  <2>2. CASE DijkstraPop \/ UNCHANGED vars
    <3>1. UNCHANGED <<active, node, dst, bfs>>
      BY <2>2 DEF DijkstraPop, vars
    <3> QED
      BY <1>2, <3>1 DEF FirstHopInv
  <2> QED
    BY <1>2, <2>1, <2>2 DEF Next
<1> QED
  BY <1>1, <1>2, PTL DEF Spec

LEMMA ShortestFromInv == FirstHopInv => BfsIsShortest
<1> SUFFICES ASSUME FirstHops(bfs, active, node, dst), bfs.q = <<>>,
                    NEW hops, hops = Distances(node, HopCost)[dst]
             PROVE  IF hops = Infinite
                      THEN ~Reached(bfs.prev, node, dst)
                      ELSE Len(PathFromPrev(bfs.prev, node, dst)) = hops + 1
  BY DEF FirstHopInv, BfsIsShortest
<1>1. BfsTyped(bfs, active, node, dst) /\ dst \in Node /\ node \in Node /\ active \subseteq Link
  BY DEF FirstHops, BfsTyped
<1>2. PICK level, hop :
          Levelled(bfs, active, node, level) /\ BfsHops(bfs, active, node, dst, level, hop)
  BY DEF FirstHops, BfsHops
<1>3. /\ Tree(active, bfs.seen, node, bfs.prev, level, HopCost, level)
      /\ node \in bfs.seen /\ DOMAIN bfs.prev = bfs.seen \ {node} /\ level[node] = 0
  BY <1>1, <1>2, BfsTree DEF Levelled
<1>4. CASE dst \notin bfs.seen
  <2>1. dst # node /\ ~Reached(bfs.prev, node, dst) /\ Searching(bfs, node, dst)
    BY <1>3, <1>4 DEF Reached, Searching
  <2>2. Queued(bfs, active, level)
    BY <1>2, <2>1 DEF BfsHops
  <2>3. <<node, 0>> \in Passed(bfs, level) /\ Closed(active, Passed(bfs, level), HopCost)
    BY <1>1, <1>2, <2>2, PassedClosed
  <2>4. hops # Infinite => <<dst, hops>> \in Passed(bfs, level)
    BY <1>1, <2>3, HopCostTyped, DistancesClosed
  <2>5. <<dst, hops>> \notin Passed(bfs, level)
    BY <1>4 DEF Passed
  <2> QED
    BY <2>1, <2>4, <2>5
<1>5. CASE dst \in bfs.seen
  <2>1. hops # Infinite /\ hops <= level[dst]
    BY <1>3, <1>5, TreeEstimates
  <2>2. hops \in Nat /\ level[dst] \in Nat
    <3>1. Distances(node, HopCost) \in Estimate
      BY <1>3, TreeEstimates
    <3> QED
      BY <1>1, <1>3, <1>5, <2>1, <3>1 DEF Estimate, Tree
  <2>3. level[dst] <= hops
    <3>1. CASE dst = node
      BY <1>3, <2>2, <3>1
    <3>2. CASE dst # node
      <4>1. Foremost(active, node, dst, level, hop)
        BY <1>2, <1>5, <3>2 DEF BfsHops, Searching
      <4>2. Hops(active, node, dst, hops)
        <5> SUFFICES ASSUME NEW C, <<node, 0>> \in C, Closed(active, C, HopCost)
                     PROVE  <<dst, hops>> \in C
          BY DEF Hops
        <5> QED
          BY <1>1, <2>1, HopCostTyped, DistancesClosed
      <4> QED
        BY <2>2, <4>1, <4>2 DEF Foremost
    <3> QED
      BY <3>1, <3>2
  <2>4. PICK path : path = PathFromPrev(bfs.prev, node, dst)
    OBVIOUS
  <2>5. Walk(path) /\ PathCost(path, HopCost) = level[dst]
    BY <1>3, <1>5, <2>4, TreePath
  <2>6. PathCost(path, HopCost) = Len(path) - 1 /\ Len(path) \in Nat
    <3>1. Len(path) \in Nat
      BY <2>5 DEF Walk
    <3> QED
      BY <2>5, <3>1, PathHops
  <2>7. Len(path) = hops + 1
    BY <2>2, <2>1, <2>3, <2>5, <2>6
  <2> QED
    BY <2>1, <2>4, <2>7
<1> QED
  BY <1>4, <1>5

(* shortest_path: what it finds has the least number of hops, and it finds *)
(* a path whenever the nodes are connected by active links.                *)
THEOREM FewestHops == Spec => []BfsIsShortest
BY FirstHopInvIsInvariant, ShortestFromInv, PTL

-----------------------------------------------------------------------------
(* Both searches at their ends.                                            *)
LEMMA Multiples ==
    ASSUME NEW w \in Nat \ {0}
    PROVE  /\ \A k \in Nat : w * k \in Nat /\ w * (k + 1) = w * k + w
           /\ \A a, b \in Nat : w * a <= w * b => a <= b
<1>1. \A k \in Nat : w * k \in Nat /\ w * (k + 1) = w * k + w
  OBVIOUS
<1>2. ASSUME NEW a \in Nat, NEW b \in Nat, w * a <= w * b PROVE a <= b
  <2> SUFFICES ASSUME ~ (a <= b) PROVE FALSE
    OBVIOUS
  <2>1. PICK d \in Nat : a = b + (d + 1)
    <3>1. a - b - 1 \in Nat /\ a = b + ((a - b - 1) + 1)
      OBVIOUS
    <3> QED
      BY <3>1
  <2>2. w * a = w * b + w * (d + 1)
    BY <2>1
  <2>3. w * (d + 1) = w * d + w /\ w * d \in Nat /\ w * b \in Nat
    BY <1>1
  <2> QED
    BY <1>2, <2>2, <2>3
<1> QED
  BY <1>1, <1>2

LEMMA HopsStep ==
    ASSUME NEW up, up \subseteq Link, NEW y \in Node, NEW x \in Neighbors(y, up), NEW v,
           NEW m \in Nat, Hops(up, y, v, m)
    PROVE  Hops(up, x, v, m + 1)
<1> SUFFICES ASSUME NEW C, <<x, 0>> \in C, Closed(up, C, HopCost)
             PROVE  <<v, m + 1>> \in C
  BY DEF Hops
<1> DEFINE D == {p \in Node \X Nat : <<p[1], p[2] + 1>> \in C}
<1>1. x \in Node /\ y \in Neighbors(x, up) /\ HopCost[{x, y}] = 1
  <2>1. x \in Node /\ y \in Neighbors(x, up) /\ {x, y} \in Link
    BY NeighborsTyped DEF Neighbors
  <2> QED
    BY <2>1, HopCostTyped
<1>2. <<y, 0>> \in D
  <2>1. <<y, 0 + HopCost[{x, y}]>> \in C
    BY <1>1 DEF Closed
  <2> QED
    BY <1>1, <2>1
<1>3. Closed(up, D, HopCost)
  <2>1. ASSUME NEW u \in Node, NEW k \in Nat, <<u, k>> \in D, NEW w \in Neighbors(u, up)
        PROVE  <<w, k + HopCost[{u, w}]>> \in D
    <3>1. w \in Node /\ {u, w} \in Link
      BY <2>1, NeighborsTyped
    <3>2. HopCost[{u, w}] = 1
      BY <3>1, HopCostTyped
    <3>3. <<u, k + 1>> \in C /\ k + 1 \in Nat
      BY <2>1
    <3>4. <<w, (k + 1) + HopCost[{u, w}]>> \in C
      BY <3>3 DEF Closed
    <3> QED
      BY <3>1, <3>2, <3>4
  <2> HIDE DEF D
  <2> QED
    BY <2>1 DEF Closed
<1>4. <<v, m>> \in D
  <2> HIDE DEF D
  <2> QED
    BY <1>2, <1>3 DEF Hops
<1> QED
  BY <1>4

(* A node at m times the weight of a link is m links away.                 *)
LEMMA HopsBack ==
    ASSUME NEW s, NEW up, NEW delay, NEW root,
           DijkstraHolds(s, up, delay, root), NEW w, Uniform(delay, w), NEW n \in Nat
    PROVE  \A x \in Labelled(s) : s.dist[x] = w * n => Hops(up, x, root, n)
<1> DEFINE P == {k \in 0 .. n : \A x \in Labelled(s) : s.dist[x] = w * k => Hops(up, x, root, k)}
<1>1. /\ Labelled(s) \subseteq Node /\ s.visited \subseteq Labelled(s) /\ up \subseteq Link
      /\ \A x \in Labelled(s) : s.dist[x] \in Nat
  BY DEF DijkstraHolds, DijkstraTyped
<1>2. w \in Nat \ {0} /\ \A l \in Link : delay[l] = w
  BY DEF Uniform
<1>3. ASSUME NEW x \in Labelled(s) \ {root}
      PROVE  /\ s.prev[x] \in Labelled(s) /\ x \in Neighbors(s.prev[x], up)
             /\ s.dist[x] = s.dist[s.prev[x]] + w
  <2>1. /\ s.prev[x] \in s.visited /\ x \in Neighbors(s.prev[x], up)
        /\ s.dist[x] = s.dist[s.prev[x]] + delay[{s.prev[x], x}]
    BY DEF DijkstraHolds, Rooted
  <2>2. PICK y \in Labelled(s) : y = s.prev[x]
    BY <1>1, <2>1
  <2>3. {y, x} \in Link
    BY <1>1, <2>1, <2>2, NeighborsTyped
  <2> QED
    BY <1>2, <2>1, <2>2, <2>3
<1>4. 0 \in P
  <2>1. ASSUME NEW x \in Labelled(s), s.dist[x] = w * 0 PROVE Hops(up, x, root, 0)
    <3>1. x = root
      <4> SUFFICES ASSUME x # root PROVE FALSE
        OBVIOUS
      <4>1. s.dist[x] = s.dist[s.prev[x]] + w /\ s.dist[s.prev[x]] \in Nat
        BY <1>1, <1>3
      <4> QED
        BY <1>2, <2>1, <4>1
    <3> QED
      BY <3>1 DEF Hops
  <2> QED
    BY <2>1
<1>5. ASSUME NEW k \in 0 .. n - 1, k \in P PROVE k + 1 \in P
  <2>1. ASSUME NEW x \in Labelled(s), s.dist[x] = w * (k + 1) PROVE Hops(up, x, root, k + 1)
    <3>1. w * (k + 1) = w * k + w /\ w * k \in Nat
      BY <1>2, Multiples
    <3>2. x # root
      BY <1>2, <2>1, <3>1 DEF DijkstraHolds, Rooted
    <3>3. PICK y \in Labelled(s) : y = s.prev[x]
      BY <1>3, <3>2
    <3>4. x \in Neighbors(y, up) /\ s.dist[x] = s.dist[y] + w
      BY <1>3, <3>2, <3>3
    <3>5. s.dist[y] = w * k
      BY <1>1, <1>2, <2>1, <3>1, <3>4
    <3>6. Hops(up, y, root, k)
      BY <1>5, <3>5
    <3> QED
      BY <1>1, <3>4, <3>6, HopsStep
  <2> QED
    BY <2>1
<1> HIDE DEF P
<1>6. \A k \in 0 .. n - 1 : k \in P => k + 1 \in P
  BY <1>5
<1>7. 0 .. n \subseteq P
  BY <1>4, <1>6, Induction
<1>8. n \in P
  BY <1>7
<1> QED
  BY <1>8 DEF P

(* Along a path the search found all but its root have one first hop, and  *)
(* that is its second node.                                                *)
LEMMA SecondNode ==
    ASSUME NEW s, NEW up, NEW src, NEW goal,
           BfsTyped(s, up, src, goal), NEW level, Levelled(s, up, src, level), NEW hop,
           Hopped(s, src, hop),
           goal \in s.seen, goal # src,
           NEW path, path = PathFromPrev(s.prev, src, goal)
    PROVE  /\ Walk(path) /\ path[1] = src /\ Len(path) = level[goal] + 1
              /\ level[goal] \in Nat \ {0}
           /\ Follows(path, goal, s.seen, src, s.prev)
           /\ hop[goal] = path[2]
<1>1. Tree(up, s.seen, src, s.prev, level, HopCost, level) /\ level \in [s.seen -> Nat]
  BY BfsTree DEF Tree
<1>2. /\ Walk(path) /\ Head(path) = src /\ PathCost(path, HopCost) = level[goal]
      /\ Follows(path, goal, s.seen, src, s.prev)
  BY <1>1, TreePath
<1>3. Len(path) \in Nat /\ path[1] = src
  BY <1>2 DEF Walk
<1>4. level[goal] \in Nat /\ Len(path) = level[goal] + 1
  <2>1. level[goal] = Len(path) - 1
    BY <1>2, PathHops
  <2> QED
    BY <1>1, <1>3, <2>1
<1>5. PICK n \in Nat : n = level[goal]
  BY <1>4
<1>6. n # 0
  BY <1>2, <1>3, <1>4, <1>5 DEF Follows
<1>7. \A k \in 1 .. n : path[k + 1] \in s.seen \ {src} /\ path[k] = s.prev[path[k + 1]]
  <2>1. \A k \in 1 .. Len(path) - 1 :
           path[k + 1] \in s.seen \ {src} /\ path[k] = s.prev[path[k + 1]]
    BY <1>2 DEF Follows
  <2>2. Len(path) - 1 = n
    BY <1>4, <1>5
  <2> QED
    BY <2>1, <2>2
<1> DEFINE P == {k \in 0 .. n - 1 : hop[path[k + 2]] = path[2]}
<1>8. 0 \in P
  <2>1. path[1 + 1] \in s.seen \ {src} /\ path[1] = s.prev[path[1 + 1]]
    BY <1>6, <1>7
  <2>2. hop[path[2]] = path[2]
    BY <1>3, <2>1 DEF Hopped
  <2> QED
    BY <1>6, <2>2
<1>9. ASSUME NEW k \in 0 .. (n - 1) - 1, k \in P PROVE k + 1 \in P
  <2>1. k + 1 \in 1 .. n /\ k + 2 \in 1 .. n /\ (k + 1) + 1 = k + 2 /\ (k + 2) + 1 = (k + 1) + 2
        /\ k + 1 \in 0 .. n - 1
    BY <1>9
  <2>2. path[k + 2] # src
    BY <1>7, <2>1
  <2>3. path[(k + 1) + 2] \in s.seen \ {src} /\ path[k + 2] = s.prev[path[(k + 1) + 2]]
    BY <1>7, <2>1
  <2>4. hop[path[(k + 1) + 2]] = hop[path[k + 2]]
    BY <2>2, <2>3 DEF Hopped
  <2> QED
    BY <1>9, <2>1, <2>4
<1> HIDE DEF P
<1>10. \A k \in 0 .. (n - 1) - 1 : k \in P => k + 1 \in P
  BY <1>9
<1>11. n - 1 \in Nat /\ (n - 1) + 2 = n + 1
  BY <1>6
<1>12. 0 .. n - 1 \subseteq P
  BY <1>8, <1>10, <1>11, Induction
<1>13. hop[path[n + 1]] = path[2]
  <2>1. n - 1 \in P
    BY <1>11, <1>12
  <2> QED
    BY <1>11, <2>1 DEF P
<1>14. path[n + 1] = goal
  BY <1>2, <1>4, <1>5 DEF Follows
<1> QED
  BY <1>2, <1>3, <1>4, <1>5, <1>6, <1>13, <1>14

(* The controller's distances along that path grow by a link's weight at   *)
(* most with every step away from goal.                                     *)
LEMMA AlongPath ==
    ASSUME NEW s, NEW b, NEW up, NEW delay, NEW src, NEW goal,
           DijkstraHolds(s, up, delay, goal), BfsTyped(b, up, src, goal),
           Waiting(s) = {}, NEW w, Uniform(delay, w),
           NEW level, Levelled(b, up, src, level),
           NEW n \in Nat, NEW path, Walk(path), Len(path) = n + 1,
           Follows(path, goal, b.seen, src, b.prev)
    PROVE  \A k \in 0 .. n : /\ path[(n + 1) - k] \in Labelled(s)
                             /\ s.dist[path[(n + 1) - k]] <= w * k
<1> DEFINE P == {k \in 0 .. n : /\ path[(n + 1) - k] \in Labelled(s)
                                /\ s.dist[path[(n + 1) - k]] <= w * k}
<1>1. /\ Labelled(s) \subseteq Node /\ s.visited = Labelled(s) /\ up \subseteq Link
      /\ \A x \in Labelled(s) : s.dist[x] \in Nat
  BY DEF DijkstraHolds, DijkstraTyped, Waiting
<1>2. w \in Nat \ {0} /\ \A l \in Link : delay[l] = w
  BY DEF Uniform
<1>3. path[n + 1] = goal
      /\ \A k \in 1 .. n : path[k + 1] \in b.seen \ {src} /\ path[k] = b.prev[path[k + 1]]
  BY DEF Follows
<1>4. 0 \in P
  <2>1. goal \in Labelled(s) /\ s.dist[goal] = 0 /\ w * 0 = 0
    BY <1>2 DEF DijkstraHolds, Rooted
  <2> QED
    BY <1>3, <2>1
<1>5. ASSUME NEW k \in 0 .. n - 1, k \in P PROVE k + 1 \in P
  <2>1. PICK j \in 1 .. n : j = n - k
    OBVIOUS
  <2>2. j + 1 = (n + 1) - k /\ j = (n + 1) - (k + 1) /\ k + 1 \in 0 .. n
    BY <2>1
  <2>3. PICK v \in Labelled(s) : v = path[j + 1] /\ s.dist[v] <= w * k
    BY <1>5, <2>2
  <2>4. v \in b.seen \ {src} /\ path[j] = b.prev[v]
    BY <1>3, <2>3
  <2>5. PICK x : x = path[j]
    OBVIOUS
  <2>6. v \in Neighbors(x, up) /\ x \in Node
    <3>1. v \in Neighbors(b.prev[v], up) /\ b.prev[v] \in b.seen
      BY <2>4 DEF Levelled
    <3> QED
      BY <2>4, <2>5, <3>1 DEF BfsTyped
  <2>7. x \in Neighbors(v, up) /\ {v, x} \in Link
    BY <1>1, <2>6, NeighborsTyped DEF Neighbors
  <2>8. x \in Labelled(s) /\ s.dist[x] <= s.dist[v] + delay[{v, x}]
    BY <1>1, <2>7 DEF DijkstraHolds, VisitedFirst
  <2>9. delay[{v, x}] = w /\ w * (k + 1) = w * k + w /\ w * k \in Nat
    BY <1>2, <2>7, Multiples
  <2>10. s.dist[x] <= w * (k + 1)
    <3>1. s.dist[x] \in Nat /\ s.dist[v] \in Nat
      BY <1>1, <2>8
    <3> QED
      BY <1>2, <2>3, <2>8, <2>9, <3>1
  <2> QED
    BY <2>2, <2>5, <2>8, <2>10
<1> HIDE DEF P
<1>6. \A k \in 0 .. n - 1 : k \in P => k + 1 \in P
  BY <1>5
<1>7. 0 .. n \subseteq P
  BY <1>4, <1>6, Induction
<1> QED
  BY <1>7 DEF P

(* The two searches at their ends, with one delay on all links.            *)
LEMMA Agreement ==
    ASSUME NEW s, NEW b, NEW up, NEW delay, NEW src, NEW goal,
           DijkstraHolds(s, up, delay, goal), FirstHops(b, up, src, goal),
           s.pq = {}, src # goal, Reached(b.prev, src, goal),
           \A k, l \in Link : delay[k] = delay[l] /\ delay[k] > 0
    PROVE  PathFromPrev(b.prev, src, goal)[2] = s.prev[src]
<1>1. /\ Labelled(s) \subseteq Node /\ s.visited \subseteq Labelled(s)
         /\ up \subseteq Link
      /\ delay \in [Link -> Nat] /\ \A x \in Labelled(s) : s.dist[x] \in Nat
  BY DEF DijkstraHolds, DijkstraTyped
<1>2. Waiting(s) = {} /\ s.visited = Labelled(s)
  <2>1. Waiting(s) = {}
    BY DEF DijkstraHolds, HeapHolds
  <2> QED
    BY <1>1, <2>1 DEF Waiting
<1>3. BfsTyped(b, up, src, goal) /\ src \in Node /\ goal \in Node /\ b.seen \subseteq Node
  BY DEF FirstHops, BfsTyped
<1>4. PICK level, hop : BfsHops(b, up, src, goal, level, hop)
  BY DEF FirstHops
<1>5. Levelled(b, up, src, level) /\ Hopped(b, src, hop) /\ goal \in b.seen
  BY <1>4 DEF BfsHops, Levelled, Reached
<1>6. Foremost(up, src, goal, level, hop)
  BY <1>4, <1>5 DEF BfsHops, Searching
<1>7. PICK path : path = PathFromPrev(b.prev, src, goal)
  OBVIOUS
<1>8. /\ Walk(path) /\ path[1] = src /\ Len(path) = level[goal] + 1 /\ level[goal] \in Nat \ {0}
      /\ Follows(path, goal, b.seen, src, b.prev)
      /\ hop[goal] = path[2]
  BY <1>3, <1>5, <1>7, SecondNode
<1>9. PICK n \in Nat : level[goal] = n + 1
  <2>1. level[goal] - 1 \in Nat /\ level[goal] = (level[goal] - 1) + 1
    BY <1>8
  <2> QED
    BY <2>1
<1>10. PICK first \in Node : first = path[2] /\ {src, first} \in Link
  <2>1. 2 \in 1 .. Len(path) /\ 1 \in 1 .. Len(path) - 1 /\ 1 + 1 = 2
    BY <1>8, <1>9
  <2>2. path[2] \in Node
    BY <1>8, <2>1 DEF Walk
  <2>3. {path[1], path[1 + 1]} \in Link
    BY <1>8, <2>1 DEF Walk
  <2> QED
    BY <1>8, <2>1, <2>2, <2>3
<1>11. PICK w : Uniform(delay, w)
  <2>1. PICK w \in Nat : w = delay[{src, first}]
    BY <1>1, <1>10
  <2>2. \A l \in Link : delay[l] = w /\ w > 0
    BY <1>10, <2>1
  <2>3. Uniform(delay, w)
    BY <1>10, <2>2 DEF Uniform
  <2> QED
    BY <2>3
<1>12. w \in Nat \ {0} /\ (\A l \in Link : delay[l] = w) /\ Ties(s, up, goal, w)
  BY <1>11 DEF Uniform, DijkstraHolds
<1>13. PICK k \in Nat : k = n + 1
  OBVIOUS
<1>14. \A i \in 0 .. k : /\ path[(k + 1) - i] \in Labelled(s)
                         /\ s.dist[path[(k + 1) - i]] <= w * i
  <2>1. Len(path) = k + 1
    BY <1>8, <1>9, <1>13
  <2> QED
    BY <1>2, <1>3, <1>5, <1>8, <1>11, <2>1, AlongPath
<1>15. src \in Labelled(s) /\ s.dist[src] <= w * k
  <2>1. k \in 0 .. k /\ (k + 1) - k = 1
    OBVIOUS
  <2> QED
    BY <1>8, <1>14, <2>1
<1>16. first \in Labelled(s) /\ s.dist[first] <= w * n
  <2>1. n \in 0 .. k /\ (k + 1) - n = 2
    BY <1>13
  <2> QED
    BY <1>10, <1>14, <2>1
<1>17. first \in Neighbors(src, up) /\ src \in Neighbors(first, up)
  <2>1. 1 \in 1 .. Len(path) - 1 /\ 1 + 1 = 2
    BY <1>8, <1>9
  <2>2. first \in b.seen \ {src} /\ src = b.prev[first]
    BY <1>8, <1>10, <2>1 DEF Follows
  <2>3. first \in Neighbors(src, up)
    BY <1>5, <2>2 DEF Levelled
  <2> QED
    BY <1>1, <1>3, <2>3, NeighborsTyped DEF Neighbors
<1>18. PICK m \in Nat : s.dist[src] = w * m
  BY <1>12, <1>15 DEF Ties
<1>19. s.dist[src] = w * k
  <2>1. Hops(up, src, goal, m)
    BY <1>11, <1>15, <1>18, HopsBack
  <2>2. k <= m
    BY <1>6, <1>9, <1>13, <2>1 DEF Foremost
  <2>3. m <= k
    BY <1>12, <1>15, <1>18, Multiples
  <2>4. m = k
    BY <2>2, <2>3
  <2> QED
    BY <1>18, <2>4
<1>20. w * k = w * n + w /\ w * n \in Nat
  BY <1>12, <1>13, Multiples
<1>21. s.dist[src] = s.dist[first] + w
  <2>1. s.dist[src] <= s.dist[first] + delay[{first, src}]
    BY <1>2, <1>16, <1>17 DEF DijkstraHolds, VisitedFirst
  <2>2. delay[{first, src}] = w
    BY <1>1, <1>16, <1>17, <1>12, NeighborsTyped
  <2>3. s.dist[src] \in Nat /\ s.dist[first] \in Nat
    BY <1>1, <1>15, <1>16
  <2> QED
    BY <1>12, <1>16, <1>19, <1>20, <2>1, <2>2, <2>3
<1>22. s.prev[src] <= first
  <2>1. first \in s.visited /\ src \in Neighbors(first, up) \ {goal}
    BY <1>2, <1>16, <1>17
  <2> QED
    BY <1>12, <1>21, <2>1 DEF Ties
<1>23. PICK h \in Labelled(s) : h = s.prev[src] /\ src \in Neighbors(h, up)
                             /\ s.dist[src] = s.dist[h] + delay[{h, src}]
  <2>1. src \in DOMAIN s.prev
    BY <1>15 DEF DijkstraHolds, Rooted
  <2>2. /\ s.prev[src] \in s.visited /\ src \in Neighbors(s.prev[src], up)
        /\ s.dist[src] = s.dist[s.prev[src]] + delay[{s.prev[src], src}]
    BY <2>1 DEF DijkstraHolds, Rooted
  <2> QED
    BY <1>2, <2>2
<1>24. h \in Neighbors(src, up) /\ {h, src} \in Link /\ h \in Node
  <2>1. h \in Node /\ src \in Neighbors(h, up) /\ up \subseteq Link
    BY <1>1, <1>23
  <2> QED
    BY <2>1, NeighborsTyped
<1>25. s.dist[h] = w * n
  <2>1. s.dist[h] \in Nat /\ s.dist[src] = s.dist[h] + w
    BY <1>1, <1>12, <1>23, <1>24
  <2> QED
    BY <1>12, <1>19, <1>20, <2>1
<1>26. hop[goal] <= h
  <2>1. Hops(up, h, goal, n)
    BY <1>11, <1>23, <1>25, HopsBack
  <2>2. n + 1 <= level[goal]
    BY <1>9
  <2> QED
    BY <1>6, <1>24, <2>1, <2>2 DEF Foremost
<1>27. first = h
  <2>1. first \in Nat /\ h \in Nat
    BY <1>24, TopologyAssumption
  <2> QED
    BY <1>8, <1>10, <1>22, <1>23, <1>26, <2>1
<1> QED
  BY <1>7, <1>10, <1>23, <1>27

LEMMA AgreementFromInv == DijkstraInv /\ FirstHopInv => HomogeneousAgreement
<1> SUFFICES ASSUME DijkstraHolds(dij, active, weight, dst), FirstHops(bfs, active, node, dst),
                    Done, node # dst, Reached(bfs.prev, node, dst),
                    \A k, l \in Link : weight[k] = weight[l] /\ weight[k] > 0
             PROVE  PathFromPrev(bfs.prev, node, dst)[2] = dij.prev[node]
  BY DEF DijkstraInv, FirstHopInv, HomogeneousAgreement
<1>1. dij.pq = {}
  BY DEF Done
<1> QED
  BY <1>1, Agreement

(* dijkstra and shortest_path: with equal positive delays on all links the *)
(* controller and the nodes themselves choose the same next hop.           *)
THEOREM NextHopsAgree == Spec => []HomogeneousAgreement
BY DijkstraInvIsInvariant, FirstHopInvIsInvariant, AgreementFromInv, PTL

-----------------------------------------------------------------------------
(* The searches run to their ends by the functions of Routing.             *)
Further(s, up, goal) == IF s.q = <<>> THEN s ELSE BfsStep(s, up, goal)

BfsUpTo(run, n, up, src, goal) ==
    run = [k \in 0 .. n |-> IF k = 0 THEN BfsInit(src) ELSE Further(run[k - 1], up, goal)]

LEMMA BfsRun ==
    ASSUME NEW up, NEW src, NEW goal, NEW n \in Nat
    PROVE  \E run : BfsUpTo(run, n, up, src, goal)
<1> DEFINE P == {m \in 0 .. n : \E g : BfsUpTo(g, m, up, src, goal)}
<1>1. 0 \in P
  <2>1. PICK g : g = [k \in 0 .. 0 |-> BfsInit(src)]
    OBVIOUS
  <2>2. BfsUpTo(g, 0, up, src, goal)
    BY <2>1 DEF BfsUpTo
  <2> QED
    BY <2>2
<1>2. ASSUME NEW m \in 0 .. n - 1, m \in P PROVE m + 1 \in P
  <2>1. PICK g : BfsUpTo(g, m, up, src, goal)
    BY <1>2
  <2>2. PICK h : h = [k \in 0 .. m + 1 |-> IF k = m + 1 THEN Further(g[m], up, goal) ELSE g[k]]
    OBVIOUS
  <2>3. ASSUME NEW k \in 0 .. m + 1
        PROVE  h[k] = IF k = 0 THEN BfsInit(src) ELSE Further(h[k - 1], up, goal)
    <3>1. CASE k = m + 1
      <4>1. k # 0 /\ k - 1 = m /\ m \in 0 .. m + 1 /\ m # m + 1
        BY <3>1
      <4>2. h[m] = g[m] /\ h[m + 1] = Further(g[m], up, goal)
        BY <2>2, <4>1
      <4> QED
        BY <3>1, <4>1, <4>2
    <3>2. CASE k # m + 1
      <4>1. k \in 0 .. m /\ (k # 0 => k - 1 \in 0 .. m /\ k - 1 # m + 1 /\ k - 1 \in 0 .. m + 1)
        BY <3>2
      <4>2. g[k] = IF k = 0 THEN BfsInit(src) ELSE Further(g[k - 1], up, goal)
        BY <2>1, <4>1 DEF BfsUpTo
      <4>3. h[k] = g[k] /\ (k # 0 => h[k - 1] = g[k - 1])
        BY <2>2, <3>2, <4>1
      <4> QED
        BY <4>2, <4>3
    <3> QED
      BY <3>1, <3>2
  <2>4. BfsUpTo(h, m + 1, up, src, goal)
    BY <2>2, <2>3 DEF BfsUpTo
  <2>5. m + 1 \in 0 .. n
    OBVIOUS
  <2> QED
    BY <2>4, <2>5
<1> HIDE DEF P
<1>3. \A k \in 0 .. n - 1 : k \in P => k + 1 \in P
  BY <1>2
<1>4. n \in P
  <2>1. 0 .. n \subseteq P
    BY <1>1, <1>3, Induction
  <2> QED
    BY <2>1
<1> QED
  BY <1>4 DEF P

RunsToBfs(run, n, up, src, goal) ==
    /\ Bfs(up, src, goal) = run[n] /\ run[0] = BfsInit(src)
    /\ \A k \in 0 .. n - 1 : run[k + 1] = Further(run[k], up, goal)

LEMMA BfsRuns ==
    ASSUME NEW up, NEW src, NEW goal, NEW n \in Nat, n = Cardinality(Node)
    PROVE  \E run : RunsToBfs(run, n, up, src, goal)
<1> DEFINE run[k \in 0 .. n] ==
              IF k = 0 THEN BfsInit(src)
              ELSE LET s == run[k - 1]
                   IN IF s.q = <<>> THEN s ELSE BfsStep(s, up, goal)
<1>2. Bfs(up, src, goal) = run[n]
  BY DEF Bfs
<1> HIDE DEF run
<1>3. PICK g : BfsUpTo(g, n, up, src, goal)
  BY BfsRun
<1>4. run = [k \in 0 .. n |->
                IF k = 0 THEN BfsInit(src) ELSE Further(run[k - 1], up, goal)]
  BY <1>3 DEF run, Further, BfsUpTo
<1>5. run[0] = BfsInit(src)
  BY <1>4
<1>6. ASSUME NEW k \in 0 .. n - 1 PROVE run[k + 1] = Further(run[k], up, goal)
  <2>1. k + 1 \in 0 .. n /\ k + 1 # 0 /\ (k + 1) - 1 = k
    OBVIOUS
  <2> QED
    BY <1>4, <2>1
<1> QED
  BY <1>2, <1>5, <1>6 DEF RunsToBfs

(* Every node is queued once, so that the queue is empty before the steps  *)
(* run out.                                                                *)
LEMMA DequeueCounts ==
    ASSUME NEW s, NEW t, NEW up, NEW src, NEW goal, FirstHops(s, up, src, goal),
           s.q # <<>>, t = BfsStep(s, up, goal), t.q # <<>>
    PROVE  /\ Len(s.q) \in Nat /\ Len(t.q) \in Nat
           /\ Cardinality(s.seen) \in Nat /\ Cardinality(t.seen) \in Nat
           /\ Len(t.q) + 1 + Cardinality(s.seen) = Len(s.q) + Cardinality(t.seen)
<1>1. BfsTyped(s, up, src, goal)
  BY DEF FirstHops
<1>2. PICK u, fresh : Dequeued(s, t, up, goal, u, fresh)
  BY <1>1, DequeuePrepared
<1>3. /\ goal \notin fresh /\ t.seen = s.seen \cup fresh /\ fresh \cap s.seen = {}
      /\ fresh \subseteq Node /\ s.seen \subseteq Node
  BY <1>1, <1>2 DEF Dequeued, BfsTyped
<1>4. PICK n \in Nat, m \in Nat : Moved(s, t, n, m, Ascending(fresh), fresh)
  <2>1. PICK n, m : n \in Nat /\ m \in Nat /\ Moved(s, t, n, m, Ascending(fresh), fresh)
    BY <1>1, <1>2, <1>3, DequeueMoves
  <2> QED
    BY <2>1
<1>5. Len(s.q) = n + 1 /\ Len(t.q) = n + m /\ m = Cardinality(fresh)
  BY <1>3, <1>4, AscendingIs DEF Moved
<1>6. IsFiniteSet(fresh) /\ IsFiniteSet(s.seen)
  BY <1>3, TopologyAssumption, FS_Subset
<1>7. /\ IsFiniteSet(s.seen \cup fresh)
      /\ Cardinality(s.seen \cup fresh) =
            Cardinality(s.seen) + Cardinality(fresh) - Cardinality(s.seen \cap fresh)
  BY <1>6, FS_Union
<1>8. Cardinality(s.seen \cap fresh) = 0
  <2>1. s.seen \cap fresh = {}
    BY <1>3
  <2> QED
    BY <2>1, FS_EmptySet
<1>9. PICK a \in Nat : a = Cardinality(s.seen)
  BY <1>6, FS_CardinalityType
<1>10. PICK b \in Nat : b = Cardinality(t.seen) /\ b = Cardinality(s.seen \cup fresh)
  BY <1>3, <1>7, FS_CardinalityType
<1>11. b = a + m - 0
  BY <1>5, <1>7, <1>8, <1>9, <1>10
<1>12. PICK l \in Nat, o \in Nat : l = Len(s.q) /\ o = Len(t.q) /\ l = n + 1 /\ o = n + m
  <2>1. n + 1 \in Nat /\ n + m \in Nat
    OBVIOUS
  <2> QED
    BY <1>5, <2>1
<1>13. o + 1 + a = l + b
  BY <1>11, <1>12
<1> QED
  BY <1>9, <1>10, <1>12, <1>13

(* shortest_path() ends, and in the end all of its invariant holds.        *)
LEMMA BfsEnds ==
    ASSUME NEW up, up \subseteq Link, NEW src \in Node, NEW goal \in Node
    PROVE  FirstHops(Bfs(up, src, goal), up, src, goal) /\ Bfs(up, src, goal).q = <<>>
<1>1. PICK n \in Nat : n = Cardinality(Node)
  BY TopologyAssumption, FS_CardinalityType
<1>2. PICK run : /\ Bfs(up, src, goal) = run[n] /\ run[0] = BfsInit(src)
                 /\ \A k \in 0 .. n - 1 : run[k + 1] = Further(run[k], up, goal)
  <2>1. PICK run : RunsToBfs(run, n, up, src, goal)
    BY <1>1, BfsRuns
  <2> QED
    BY <2>1 DEF RunsToBfs
<1> DEFINE P == {k \in 0 .. n :
                    /\ FirstHops(run[k], up, src, goal)
                    /\ \/ run[k].q = <<>>
                       \/ k + Len(run[k].q) = Cardinality(run[k].seen)}
<1>3. 0 \in P
  <2>1. FirstHops(run[0], up, src, goal)
    BY <1>2, InitHops
  <2>2. run[0].q = <<src>> /\ run[0].seen = {src}
    BY <1>2 DEF BfsInit
  <2>3. Len(run[0].q) = 1 /\ Cardinality(run[0].seen) = 1
    BY <2>2, FS_Singleton
  <2>4. 0 + Len(run[0].q) = Cardinality(run[0].seen)
    BY <2>3
  <2> QED
    BY <2>1, <2>4
<1>4. ASSUME NEW k \in 0 .. n - 1, k \in P PROVE k + 1 \in P
  <2>1. PICK s : s = run[k]
    OBVIOUS
  <2>2. PICK t : t = run[k + 1]
    OBVIOUS
  <2>3. /\ FirstHops(s, up, src, goal) /\ k + 1 \in 0 .. n
        /\ t = IF s.q = <<>> THEN s ELSE BfsStep(s, up, goal)
        /\ s.q = <<>> \/ k + Len(s.q) = Cardinality(s.seen)
    BY <1>2, <1>4, <2>1, <2>2 DEF Further
  <2>4. CASE s.q = <<>>
    BY <2>2, <2>3, <2>4
  <2>5. CASE s.q # <<>>
    <3>1. t = BfsStep(s, up, goal) /\ k + Len(s.q) = Cardinality(s.seen)
      BY <2>3, <2>5
    <3>2. FirstHops(t, up, src, goal)
      BY <2>3, <2>5, <3>1, DequeueHops
    <3>3. t.q # <<>> => (k + 1) + Len(t.q) = Cardinality(t.seen)
      <4> SUFFICES ASSUME t.q # <<>> PROVE (k + 1) + Len(t.q) = Cardinality(t.seen)
        OBVIOUS
      <4>1. /\ Len(s.q) \in Nat /\ Len(t.q) \in Nat
            /\ Cardinality(s.seen) \in Nat /\ Cardinality(t.seen) \in Nat
            /\ Len(t.q) + 1 + Cardinality(s.seen) = Len(s.q) + Cardinality(t.seen)
        BY <2>3, <2>5, <3>1, DequeueCounts
      <4>2. PICK l \in Nat, o \in Nat, a \in Nat, b \in Nat :
               l = Len(s.q) /\ o = Len(t.q) /\ a = Cardinality(s.seen) /\ b = Cardinality(t.seen)
        BY <4>1
      <4>3. o + 1 + a = l + b /\ k + l = a
        BY <3>1, <4>1, <4>2
      <4>4. (k + 1) + o = b
        BY <4>3
      <4> QED
        BY <4>2, <4>4
    <3> QED
      BY <2>2, <2>3, <3>2, <3>3
  <2> QED
    BY <2>4, <2>5
<1> HIDE DEF P
<1>5. \A k \in 0 .. n - 1 : k \in P => k + 1 \in P
  BY <1>4
<1>6. n \in P
  <2>1. 0 .. n \subseteq P
    BY <1>3, <1>5, Induction
  <2> QED
    BY <2>1
<1>7. PICK s : s = run[n]
  OBVIOUS
<1>8. FirstHops(s, up, src, goal) /\ (s.q = <<>> \/ n + Len(s.q) = Cardinality(s.seen))
  BY <1>6, <1>7 DEF P
<1>9. s.q = <<>>
  <2> SUFFICES ASSUME s.q # <<>> PROVE FALSE
    OBVIOUS
  <2>1. s.seen \subseteq Node /\ s.q \in Seq(s.seen)
    BY <1>8 DEF FirstHops, BfsTyped
  <2>2. Cardinality(s.seen) \in Nat /\ Cardinality(s.seen) <= n
    BY <1>1, <2>1, TopologyAssumption, FS_Subset, FS_CardinalityType
  <2>3. Len(s.q) \in Nat /\ Len(s.q) # 0
    BY <2>1
  <2> QED
    BY <1>8, <2>2, <2>3
<1> QED
  BY <1>2, <1>7, <1>8, <1>9

-----------------------------------------------------------------------------
OneMore(s, up, delay) == IF s.pq = {} THEN s ELSE DijkstraStep(s, up, delay)

DijkstraUpTo(run, n, up, root, delay) ==
    run = [k \in 0 .. n |-> IF k = 0 THEN DijkstraInit(root) ELSE OneMore(run[k - 1], up, delay)]

LEMMA DijkstraRun ==
    ASSUME NEW up, NEW root, NEW delay, NEW n \in Nat
    PROVE  \E run : DijkstraUpTo(run, n, up, root, delay)
<1> DEFINE P == {m \in 0 .. n : \E g : DijkstraUpTo(g, m, up, root, delay)}
<1>1. 0 \in P
  <2>1. PICK g : g = [k \in 0 .. 0 |-> DijkstraInit(root)]
    OBVIOUS
  <2>2. DijkstraUpTo(g, 0, up, root, delay)
    BY <2>1 DEF DijkstraUpTo
  <2> QED
    BY <2>2
<1>2. ASSUME NEW m \in 0 .. n - 1, m \in P PROVE m + 1 \in P
  <2>1. PICK g : DijkstraUpTo(g, m, up, root, delay)
    BY <1>2
  <2>2. PICK h : h = [k \in 0 .. m + 1 |-> IF k = m + 1 THEN OneMore(g[m], up, delay) ELSE g[k]]
    OBVIOUS
  <2>3. ASSUME NEW k \in 0 .. m + 1
        PROVE  h[k] = IF k = 0 THEN DijkstraInit(root) ELSE OneMore(h[k - 1], up, delay)
    <3>1. CASE k = m + 1
      <4>1. k # 0 /\ k - 1 = m /\ m \in 0 .. m + 1 /\ m # m + 1
        BY <3>1
      <4>2. h[m] = g[m] /\ h[m + 1] = OneMore(g[m], up, delay)
        BY <2>2, <4>1
      <4> QED
        BY <3>1, <4>1, <4>2
    <3>2. CASE k # m + 1
      <4>1. k \in 0 .. m /\ (k # 0 => k - 1 \in 0 .. m /\ k - 1 # m + 1 /\ k - 1 \in 0 .. m + 1)
        BY <3>2
      <4>2. g[k] = IF k = 0 THEN DijkstraInit(root) ELSE OneMore(g[k - 1], up, delay)
        BY <2>1, <4>1 DEF DijkstraUpTo
      <4>3. h[k] = g[k] /\ (k # 0 => h[k - 1] = g[k - 1])
        BY <2>2, <3>2, <4>1
      <4> QED
        BY <4>2, <4>3
    <3> QED
      BY <3>1, <3>2
  <2>4. DijkstraUpTo(h, m + 1, up, root, delay)
    BY <2>2, <2>3 DEF DijkstraUpTo
  <2>5. m + 1 \in 0 .. n
    OBVIOUS
  <2> QED
    BY <2>4, <2>5
<1> HIDE DEF P
<1>3. \A k \in 0 .. n - 1 : k \in P => k + 1 \in P
  BY <1>2
<1>4. n \in P
  <2>1. 0 .. n \subseteq P
    BY <1>1, <1>3, Induction
  <2> QED
    BY <2>1
<1> QED
  BY <1>4 DEF P

RunsToDijkstra(run, n, up, root, delay) ==
    /\ Dijkstra(up, root, delay) = run[n] /\ run[0] = DijkstraInit(root)
    /\ \A k \in 0 .. n - 1 : run[k + 1] = OneMore(run[k], up, delay)

LEMMA DijkstraRuns ==
    ASSUME NEW up, NEW root, NEW delay, NEW n \in Nat, n = 2 * Cardinality(Link) + 1
    PROVE  \E run : RunsToDijkstra(run, n, up, root, delay)
<1> DEFINE run[k \in 0 .. n] ==
              IF k = 0 THEN DijkstraInit(root)
              ELSE LET s == run[k - 1]
                   IN IF s.pq = {} THEN s ELSE DijkstraStep(s, up, delay)
<1>2. Dijkstra(up, root, delay) = run[n]
  BY DEF Dijkstra
<1> HIDE DEF run
<1>3. PICK g : DijkstraUpTo(g, n, up, root, delay)
  BY DijkstraRun
<1>4. run = [k \in 0 .. n |->
                IF k = 0 THEN DijkstraInit(root) ELSE OneMore(run[k - 1], up, delay)]
  BY <1>3 DEF run, OneMore, DijkstraUpTo
<1>5. run[0] = DijkstraInit(root)
  BY <1>4
<1>6. ASSUME NEW k \in 0 .. n - 1 PROVE run[k + 1] = OneMore(run[k], up, delay)
  <2>1. k + 1 \in 0 .. n /\ k + 1 # 0 /\ (k + 1) - 1 = k
    OBVIOUS
  <2> QED
    BY <1>4, <2>1
<1> QED
  BY <1>2, <1>5, <1>6 DEF RunsToDijkstra

(* A link has two directions.                                              *)
Directed == {p \in Node \X Node : {p[1], p[2]} \in Link}

LEMMA DirectedCount ==
    /\ IsFiniteSet(Directed) /\ Cardinality(Directed) \in Nat
    /\ Cardinality(Link) \in Nat /\ Cardinality(Directed) <= 2 * Cardinality(Link)
<1>1. IsFiniteSet(Link) /\ Cardinality(Link) \in Nat
  <2>1. IsFiniteSet(SUBSET Node) /\ Link \subseteq SUBSET Node
    BY TopologyAssumption, FS_SUBSET
  <2> QED
    BY <2>1, FS_Subset, FS_CardinalityType
<1>2. IsFiniteSet({1, 2}) /\ Cardinality({1, 2}) = 2
  <2>1. IsFiniteSet({1}) /\ Cardinality({1}) = 1
    BY FS_Singleton
  <2>2. /\ IsFiniteSet({1} \cup {2})
        /\ Cardinality({1} \cup {2}) = IF 2 \in {1} THEN Cardinality({1}) ELSE Cardinality({1}) + 1
    BY <2>1, FS_AddElement
  <2>3. {1} \cup {2} = {1, 2} /\ 2 \notin {1}
    OBVIOUS
  <2> QED
    BY <2>1, <2>2, <2>3
<1>3. PICK T : T = Link \X {1, 2}
  OBVIOUS
<1>4. IsFiniteSet(T) /\ Cardinality(T) = Cardinality(Link) * 2
  BY <1>1, <1>2, <1>3, FS_Product
<1>5. PICK f : f = [p \in Directed |-> <<{p[1], p[2]}, IF p[1] < p[2] THEN 1 ELSE 2>>]
  OBVIOUS
<1>6. f \in [Directed -> T]
  BY <1>3, <1>5 DEF Directed
<1>7. ASSUME NEW p \in Directed, NEW o \in Directed, f[p] = f[o] PROVE p = o
  <2>1. PICK a \in Node, b \in Node : p = <<a, b>> /\ {a, b} \in Link
    <3>1. p \in Node \X Node /\ {p[1], p[2]} \in Link
      BY DEF Directed
    <3>2. PICK a \in Node, b \in Node : p = <<a, b>>
      BY <3>1
    <3> QED
      BY <3>1, <3>2
  <2>2. PICK c \in Node, e \in Node : o = <<c, e>> /\ {c, e} \in Link
    <3>1. o \in Node \X Node /\ {o[1], o[2]} \in Link
      BY DEF Directed
    <3>2. PICK c \in Node, e \in Node : o = <<c, e>>
      BY <3>1
    <3> QED
      BY <3>1, <3>2
  <2>3. f[p] = <<{a, b}, IF a < b THEN 1 ELSE 2>>
    BY <1>5, <2>1
  <2>4. f[o] = <<{c, e}, IF c < e THEN 1 ELSE 2>>
    BY <1>5, <2>2
  <2>5. {a, b} = {c, e} /\ (a < b <=> c < e)
    <3>1. PICK x, i : x = {a, b} /\ i = IF a < b THEN 1 ELSE 2
      OBVIOUS
    <3>2. PICK y, j : y = {c, e} /\ j = IF c < e THEN 1 ELSE 2
      OBVIOUS
    <3>3. <<x, i>> = <<y, j>>
      BY <1>7, <2>3, <2>4, <3>1, <3>2
    <3>4. x = y /\ i = j
      BY <3>3
    <3>5. a < b <=> c < e
      BY <3>1, <3>2, <3>4
    <3> QED
      BY <3>1, <3>2, <3>4, <3>5
  <2>6. a \in Nat /\ b \in Nat /\ c \in Nat /\ e \in Nat
    BY TopologyAssumption
  <2>7. a # b
    <3> SUFFICES ASSUME a = b PROVE FALSE
      OBVIOUS
    <3>1. {a, b} = {a} /\ Cardinality({a, b}) = 2
      BY <2>1, TopologyAssumption
    <3> QED
      BY <3>1, FS_Singleton
  <2>8. (a = c /\ b = e) \/ (a = e /\ b = c)
    BY <2>5, <2>7
  <2>9. ~ (a = e /\ b = c)
    BY <2>5, <2>6, <2>7
  <2> QED
    BY <2>1, <2>2, <2>8, <2>9
<1>8. f \in Injection(Directed, T)
  BY <1>6, <1>7 DEF Injection, IsInjective
<1>9. IsFiniteSet(Directed) /\ Cardinality(Directed) <= Cardinality(T)
  BY <1>4, <1>8, FS_Injection
<1>10. Cardinality(Directed) \in Nat
  BY <1>9, FS_CardinalityType
<1> QED
  BY <1>1, <1>4, <1>9, <1>10

(* The links of the nodes visited: what can have been pushed.              *)
Pushed(s, up) == {p \in Node \X Node : p[1] \in s.visited /\ p[2] \in Neighbors(p[1], up)}

LEMMA PushedCount ==
    ASSUME NEW s, NEW up, up \subseteq Link
    PROVE  /\ IsFiniteSet(Pushed(s, up)) /\ Cardinality(Pushed(s, up)) \in Nat
           /\ Cardinality(Pushed(s, up)) <= 2 * Cardinality(Link)
<1>1. Pushed(s, up) \subseteq Directed
  BY DEF Pushed, Directed, Neighbors
<1>2. /\ IsFiniteSet(Pushed(s, up)) /\ Cardinality(Pushed(s, up)) <= Cardinality(Directed)
  BY <1>1, DirectedCount, FS_Subset
<1>3. Cardinality(Pushed(s, up)) \in Nat
  BY <1>2, FS_CardinalityType
<1> QED
  BY <1>2, <1>3, DirectedCount

(* A pop takes an entry out; a visit pushes at most one for each link.     *)
LEMMA PopCounts ==
    ASSUME NEW s, NEW t, NEW up, NEW delay, NEW root, DijkstraHolds(s, up, delay, root),
           s.pq # {}, IsFiniteSet(s.pq), t = DijkstraStep(s, up, delay)
    PROVE  /\ IsFiniteSet(t.pq)
           /\ Cardinality(t.pq) + 1 + Cardinality(Pushed(s, up))
                 <= Cardinality(s.pq) + Cardinality(Pushed(t, up))
<1>1. PICK e \in s.pq, d \in Nat, u \in Labelled(s) :
          /\ e = <<d, u>> /\ \A o \in s.pq : d <= o[1] /\ Before(d, u, o)
          /\ \/ u \in s.visited /\ t = SkipVisited(s, e)
             \/ /\ u \in Waiting(s) /\ s.dist[u] = d
                /\ t = AfterVisit(s, delay, d, u, Relaxed(s, u, d, up, delay))
  BY PopPrepared
<1>2. up \subseteq Link /\ Labelled(s) \subseteq Node
  BY DEF DijkstraHolds, DijkstraTyped
<1>3. PICK rest : rest = s.pq \ {e}
  OBVIOUS
<1>4. PICK c \in Nat, r \in Nat :
          c = Cardinality(s.pq) /\ r = Cardinality(rest) /\ c = r + 1 /\ IsFiniteSet(rest)
  <2>1. IsFiniteSet(rest) /\ Cardinality(rest) = Cardinality(s.pq) - 1
    BY <1>3, FS_RemoveElement
  <2>2. Cardinality(s.pq) \in Nat /\ Cardinality(rest) \in Nat
    BY <2>1, FS_CardinalityType
  <2> QED
    BY <2>1, <2>2
<1>5. PICK a \in Nat : a = Cardinality(Pushed(s, up))
  BY <1>2, PushedCount
<1>6. CASE u \in s.visited /\ t = SkipVisited(s, e)
  <2>1. t.pq = rest /\ t.visited = s.visited
    BY <1>3, <1>6 DEF SkipVisited
  <2>2. Pushed(t, up) = Pushed(s, up)
    BY <2>1 DEF Pushed
  <2>3. r + 1 + a <= c + a
    BY <1>4
  <2> QED
    BY <1>4, <1>5, <2>1, <2>2, <2>3
<1>7. CASE /\ u \in Waiting(s)
           /\ t = AfterVisit(s, delay, d, u, Relaxed(s, u, d, up, delay))
  <2>1. PICK better : better = Relaxed(s, u, d, up, delay)
    OBVIOUS
  <2>2. PICK new : new = {<<d + delay[{u, v}], v>> : v \in better}
    OBVIOUS
  <2>3. t.pq = rest \cup new /\ t.visited = s.visited \cup {u}
    BY <1>1, <1>3, <1>7, <2>1, <2>2 DEF AfterVisit
  <2>4. PICK D : D = {p \in Node \X Node : p[1] = u /\ p[2] \in Neighbors(u, up)}
    OBVIOUS
  <2>5. Pushed(t, up) = Pushed(s, up) \cup D
    BY <2>3, <2>4 DEF Pushed
  <2>6. Pushed(s, up) \cap D = {}
    BY <1>7, <2>4 DEF Pushed, Waiting
  <2>7. IsFiniteSet(D) /\ IsFiniteSet(Pushed(s, up)) /\ IsFiniteSet(Pushed(t, up))
    <3>1. D \subseteq Pushed(t, up)
      BY <2>5
    <3> QED
      BY <1>2, <3>1, PushedCount, FS_Subset
  <2>8. PICK x \in Nat, b \in Nat :
            x = Cardinality(D) /\ b = Cardinality(Pushed(t, up)) /\ b = a + x
    <3>1. Cardinality(D) \in Nat /\ Cardinality(Pushed(t, up)) \in Nat
      BY <2>7, FS_CardinalityType
    <3>2. Cardinality(Pushed(s, up) \cup D) =
             Cardinality(Pushed(s, up)) + Cardinality(D) - Cardinality(Pushed(s, up) \cap D)
      BY <2>7, FS_Union
    <3>3. Cardinality(Pushed(s, up) \cap D) = 0
      BY <2>6, FS_EmptySet
    <3>4. PICK x \in Nat : x = Cardinality(D)
      BY <3>1
    <3>5. PICK b \in Nat : b = Cardinality(Pushed(t, up))
      BY <3>1
    <3>6. b = a + x - 0
      BY <1>5, <2>5, <3>2, <3>3, <3>4, <3>5
    <3> QED
      BY <3>4, <3>5, <3>6
  <2>9. PICK f : f = [o \in new |-> <<u, o[2]>>]
    OBVIOUS
  <2>10. \A v \in better : v \in Node /\ v \in Neighbors(u, up)
    BY <2>1 DEF Relaxed, Neighbors
  <2>11. ASSUME NEW o \in new
         PROVE  o = <<d + delay[{u, o[2]}], o[2]>> /\ o[2] \in better
    <3>1. PICK v \in better : o = <<d + delay[{u, v}], v>>
      BY <2>2
    <3>2. o[2] = v
      BY <3>1
    <3> QED
      BY <3>1, <3>2
  <2>12. f \in [new -> D]
    <3>1. ASSUME NEW o \in new PROVE <<u, o[2]>> \in D
      <4>1. o[2] \in Node /\ o[2] \in Neighbors(u, up) /\ u \in Node
        BY <1>2, <2>10, <2>11
      <4>2. PICK v \in Node : v = o[2]
        BY <4>1
      <4>3. <<u, v>> \in Node \X Node /\ <<u, v>>[1] = u /\ <<u, v>>[2] = v
        BY <4>1
      <4>4. <<u, v>> \in D
        BY <2>4, <4>1, <4>2, <4>3
      <4> QED
        BY <4>2, <4>4
    <3> QED
      BY <2>9, <3>1
  <2>13. ASSUME NEW o \in new, NEW i \in new, f[o] = f[i] PROVE o = i
    <3>1. <<u, o[2]>> = <<u, i[2]>>
      BY <2>9, <2>13
    <3>2. o[2] = i[2]
      BY <3>1
    <3> QED
      BY <2>11, <3>2
  <2>14. f \in Injection(new, D)
    BY <2>12, <2>13 DEF Injection, IsInjective
  <2>15. IsFiniteSet(new) /\ Cardinality(new) <= Cardinality(D)
    BY <2>7, <2>14, FS_Injection
  <2>16. PICK y \in Nat : y = Cardinality(new) /\ y <= x
    BY <2>8, <2>15, FS_CardinalityType
  <2>17. IsFiniteSet(rest \cap new)
    BY <1>4, FS_Subset
  <2>18. PICK z \in Nat : z = Cardinality(rest \cap new)
    BY <2>17, FS_CardinalityType
  <2>19. /\ IsFiniteSet(rest \cup new)
         /\ Cardinality(rest \cup new) =
               Cardinality(rest) + Cardinality(new) - Cardinality(rest \cap new)
    BY <1>4, <2>15, FS_Union
  <2>20. PICK w \in Nat : w = Cardinality(t.pq)
    BY <2>3, <2>19, FS_CardinalityType
  <2>21. w = r + y - z
    BY <1>4, <2>3, <2>16, <2>18, <2>19, <2>20
  <2>22. w + 1 + a <= c + b
    BY <1>4, <2>8, <2>16, <2>21
  <2> QED
    BY <1>4, <1>5, <2>3, <2>8, <2>19, <2>20, <2>22
<1> QED
  BY <1>1, <1>6, <1>7

(* dijkstra() ends, and in the end all of its invariant holds.             *)
LEMMA DijkstraEnds ==
    ASSUME NEW up, up \subseteq Link, NEW delay \in [Link -> Nat], NEW root \in Node
    PROVE  /\ DijkstraHolds(Dijkstra(up, root, delay), up, delay, root)
           /\ Dijkstra(up, root, delay).pq = {}
<1>1. PICK n \in Nat : n = 2 * Cardinality(Link) + 1
  BY DirectedCount
<1>2. PICK run : /\ Dijkstra(up, root, delay) = run[n] /\ run[0] = DijkstraInit(root)
                 /\ \A k \in 0 .. n - 1 : run[k + 1] = OneMore(run[k], up, delay)
  <2>1. PICK run : RunsToDijkstra(run, n, up, root, delay)
    BY <1>1, DijkstraRuns
  <2> QED
    BY <2>1 DEF RunsToDijkstra
<1> DEFINE P == {k \in 0 .. n :
                    /\ DijkstraHolds(run[k], up, delay, root)
                    /\ \/ run[k].pq = {}
                       \/ /\ IsFiniteSet(run[k].pq)
                          /\ k + Cardinality(run[k].pq) <= 1 + Cardinality(Pushed(run[k], up))}
<1>3. 0 \in P
  <2>1. PICK s : s = run[0]
    OBVIOUS
  <2>2. DijkstraHolds(s, up, delay, root)
    BY <1>2, <2>1, InitDijkstra
  <2>3. s.pq = {<<0, root>>}
    BY <1>2, <2>1 DEF DijkstraInit
  <2>4. IsFiniteSet(s.pq) /\ Cardinality(s.pq) = 1
    BY <2>3, FS_Singleton
  <2>5. PICK a \in Nat : a = Cardinality(Pushed(s, up))
    BY PushedCount
  <2>6. 0 + Cardinality(s.pq) <= 1 + Cardinality(Pushed(s, up))
    BY <2>4, <2>5
  <2> QED
    BY <2>1, <2>2, <2>4, <2>6
<1>4. ASSUME NEW k \in 0 .. n - 1, k \in P PROVE k + 1 \in P
  <2>1. PICK s : s = run[k]
    OBVIOUS
  <2>2. PICK t : t = run[k + 1]
    OBVIOUS
  <2>3. /\ DijkstraHolds(s, up, delay, root) /\ k + 1 \in 0 .. n
        /\ t = IF s.pq = {} THEN s ELSE DijkstraStep(s, up, delay)
        /\ s.pq = {} \/ /\ IsFiniteSet(s.pq)
                        /\ k + Cardinality(s.pq) <= 1 + Cardinality(Pushed(s, up))
    BY <1>2, <1>4, <2>1, <2>2 DEF OneMore
  <2>4. CASE s.pq = {}
    BY <2>2, <2>3, <2>4
  <2>5. CASE s.pq # {}
    <3>1. /\ t = DijkstraStep(s, up, delay) /\ IsFiniteSet(s.pq)
          /\ k + Cardinality(s.pq) <= 1 + Cardinality(Pushed(s, up))
      BY <2>3, <2>5
    <3>2. DijkstraHolds(t, up, delay, root)
      BY <2>3, <2>5, <3>1, DijkstraStepKeeps
    <3>3. /\ IsFiniteSet(t.pq)
          /\ Cardinality(t.pq) + 1 + Cardinality(Pushed(s, up))
                <= Cardinality(s.pq) + Cardinality(Pushed(t, up))
      BY <2>3, <2>5, <3>1, PopCounts
    <3>4. PICK a \in Nat, b \in Nat : a = Cardinality(s.pq) /\ b = Cardinality(t.pq)
      BY <3>1, <3>3, FS_CardinalityType
    <3>5. PICK c \in Nat, e \in Nat :
             c = Cardinality(Pushed(s, up)) /\ e = Cardinality(Pushed(t, up))
      BY PushedCount
    <3>6. k + a <= 1 + c /\ b + 1 + c <= a + e
      BY <3>1, <3>3, <3>4, <3>5
    <3>7. (k + 1) + b <= 1 + e
      BY <3>6
    <3> QED
      BY <2>2, <2>3, <3>2, <3>3, <3>4, <3>5, <3>7
  <2> QED
    BY <2>4, <2>5
<1> HIDE DEF P
<1>5. \A k \in 0 .. n - 1 : k \in P => k + 1 \in P
  BY <1>4
<1>6. n \in P
  <2>1. 0 .. n \subseteq P
    BY <1>3, <1>5, Induction
  <2> QED
    BY <2>1
<1>7. PICK s : s = run[n]
  OBVIOUS
<1>8. /\ DijkstraHolds(s, up, delay, root)
      /\ s.pq = {} \/ /\ IsFiniteSet(s.pq)
                      /\ n + Cardinality(s.pq) <= 1 + Cardinality(Pushed(s, up))
  BY <1>6, <1>7 DEF P
<1>9. s.pq = {}
  <2> SUFFICES ASSUME s.pq # {} PROVE FALSE
    OBVIOUS
  <2>1. PICK a \in Nat : a = Cardinality(s.pq)
    BY <1>8, FS_CardinalityType
  <2>2. PICK c \in Nat : c = Cardinality(Pushed(s, up)) /\ c <= 2 * Cardinality(Link)
    BY PushedCount
  <2>3. PICK l \in Nat : l = 2 * Cardinality(Link)
    BY DirectedCount
  <2>4. n + a <= 1 + c /\ c <= l /\ n = l + 1
    BY <1>1, <1>8, <2>1, <2>2, <2>3
  <2>5. a = 0
    BY <2>4
  <2> QED
    BY <1>8, <2>1, <2>5, FS_EmptySet
<1> QED
  BY <1>2, <1>7, <1>8, <1>9

-----------------------------------------------------------------------------
(* The tables.  What compute_routes() finds in the controller's trees.     *)
LEMMA PathEnds ==
    ASSUME NEW s, NEW up, NEW delay, NEW root, DijkstraHolds(s, up, delay, root),
           NEW v \in DOMAIN s.prev, NEW path, path = PathFromPrev(s.prev, root, v)
    PROVE  path[Len(path) - 1] = s.prev[v]
<1>1. PICK rank : Tree(up, Labelled(s), root, s.prev, s.dist, delay, rank)
  BY DijkstraTree
<1>2. v \in Labelled(s) /\ v # root
  BY DEF DijkstraHolds, Rooted
<1>3. Walk(path) /\ Head(path) = root /\ Follows(path, v, Labelled(s), root, s.prev)
  BY <1>1, <1>2, TreePath
<1>4. PICK m \in Nat : m = Len(path) /\ m # 0 /\ path[1] = root
  BY <1>3 DEF Walk
<1>5. path[m] = v
  BY <1>3, <1>4 DEF Follows
<1>6. m # 1
  BY <1>2, <1>4, <1>5
<1>7. PICK k \in 1 .. m - 1 : k = m - 1 /\ k + 1 = m
  <2>1. PICK k \in Nat : m = k + 1
    BY <1>4
  <2>2. k \in 1 .. m - 1 /\ k = m - 1
    BY <1>6, <2>1
  <2> QED
    BY <2>1, <2>2
<1>8. path[k] = s.prev[path[k + 1]]
  BY <1>3, <1>4, <1>7 DEF Follows
<1> QED
  BY <1>4, <1>5, <1>7, <1>8

LEMMA UpdatedEmpty ==
    ASSUME NEW D, NEW f, f = [d \in D |-> f[d]]
    PROVE  Updated(EmptyRoutes, f) = f
BY DEF Updated, EmptyRoutes

TreeEntries(up, destinations, delay, n) ==
    [d \in {d \in destinations \ {n} : n \in DOMAIN Dijkstra(up, d, delay).prev} |->
        Dijkstra(up, d, delay).prev[n]]

LEMMA ControllerEntries ==
    ASSUME NEW up, up \subseteq Link, NEW delay \in [Link -> Nat],
           NEW destinations, destinations \subseteq Node, NEW n \in Node,
           NEW table, table = ComputeRoutes(up, destinations, delay)
    PROVE  table[n] = TreeEntries(up, destinations, delay, n)
<1> DEFINE tree == [d \in destinations |-> Dijkstra(up, d, delay).prev]
           from(d) == LET path == PathFromPrev(tree[d], d, n) IN path[Len(path) - 1]
           D == {d \in destinations \ {n} : Reached(tree[d], d, n)}
           E == {d \in destinations \ {n} : n \in DOMAIN Dijkstra(up, d, delay).prev}
<1>1. table[n] = Updated(EmptyRoutes, [d \in D |-> from(d)])
  BY DEF ComputeRoutes
<1>2. table[n] = [d \in D |-> from(d)]
  <2>1. PICK f : f = [d \in D |-> from(d)]
    OBVIOUS
  <2>2. f = [d \in D |-> f[d]]
    BY <2>1
  <2>3. Updated(EmptyRoutes, f) = f
    BY <2>2, UpdatedEmpty
  <2> QED
    BY <1>1, <2>1, <2>3
<1>3. D = E
  BY DEF Reached
<1>4. ASSUME NEW d \in E PROVE from(d) = Dijkstra(up, d, delay).prev[n]
  <2>1. PICK s : s = Dijkstra(up, d, delay)
    OBVIOUS
  <2>2. DijkstraHolds(s, up, delay, d) /\ n \in DOMAIN s.prev
    BY <2>1, DijkstraEnds
  <2>3. PICK path : path = PathFromPrev(s.prev, d, n)
    OBVIOUS
  <2>4. path[Len(path) - 1] = s.prev[n]
    BY <2>2, <2>3, PathEnds
  <2>5. tree[d] = s.prev
    BY <2>1
  <2>6. from(d) = path[Len(path) - 1]
    BY <2>3, <2>5
  <2> QED
    BY <2>1, <2>4, <2>6
<1> HIDE DEF from, D, E
<1>5. table[n] = [d \in E |-> from(d)]
  BY <1>2, <1>3
<1>6. [d \in E |-> from(d)] = [d \in E |-> Dijkstra(up, d, delay).prev[n]]
  BY <1>4
<1> QED
  BY <1>5, <1>6 DEF E, TreeEntries

(* What the nodes find by their own searches.                              *)
SearchEntries(up, destinations, n) ==
    [d \in {d \in destinations \ {n} : d \in DOMAIN Bfs(up, n, d).prev} |->
        PathFromPrev(Bfs(up, n, d).prev, n, d)[2]]

LEMMA NodeEntries ==
    ASSUME NEW up, NEW destinations, NEW n \in Node,
           NEW table, table = BuildRoutesDistributed(up, destinations)
    PROVE  table[n] = SearchEntries(up, destinations, n)
<1> DEFINE D == {d \in destinations \ {n} : Reached(Bfs(up, n, d).prev, n, d)}
<1>1. table[n] = Updated(EmptyRoutes, [d \in D |-> BfsNextHop(up, n, d)])
  BY DEF BuildRoutesDistributed
<1>2. table[n] = [d \in D |-> BfsNextHop(up, n, d)]
  <2>1. PICK f : f = [d \in D |-> BfsNextHop(up, n, d)]
    OBVIOUS
  <2>2. f = [d \in D |-> f[d]]
    BY <2>1
  <2>3. Updated(EmptyRoutes, f) = f
    BY <2>2, UpdatedEmpty
  <2> QED
    BY <1>1, <2>1, <2>3
<1>3. D = {d \in destinations \ {n} : d \in DOMAIN Bfs(up, n, d).prev}
  BY DEF Reached
<1> QED
  BY <1>2, <1>3 DEF BfsNextHop, SearchEntries

-----------------------------------------------------------------------------
(* Next hops are neighbours over links that are up, and towards every      *)
(* destination there are ranks that descend along them: no packet that     *)
(* follows tables of one computation goes round.                           *)
FollowTrees(table, up, destinations) ==
    /\ \A n \in Node : \A d \in DOMAIN table[n] : {n, table[n][d]} \in up
    /\ \A d \in destinations : \E rank \in [Node -> 0 .. Cardinality(Node) - 1] :
          \A n \in Node : d \in DOMAIN table[n] => rank[table[n][d]] < rank[n]

(* compute_routes: the tables the controller computes for any destinations *)
(* over any links, delays and links down follow its search trees.          *)
THEOREM ControllerTablesFollowTrees ==
    ASSUME NEW up, up \subseteq Link, NEW delay \in [Link -> Nat],
           NEW destinations, destinations \subseteq Node
    PROVE  FollowTrees(ComputeRoutes(up, destinations, delay), up, destinations)
<1>1. PICK table : table = ComputeRoutes(up, destinations, delay)
  OBVIOUS
<1>2. ASSUME NEW n \in Node, NEW d \in DOMAIN table[n]
      PROVE  /\ d \in destinations \ {n} /\ n \in DOMAIN Dijkstra(up, d, delay).prev
             /\ table[n][d] = Dijkstra(up, d, delay).prev[n]
  <2>1. table[n] = TreeEntries(up, destinations, delay, n)
    BY <1>1, ControllerEntries
  <2> QED
    BY <1>2, <2>1 DEF TreeEntries
<1>3. ASSUME NEW d \in destinations
      PROVE  \E rank \in [Node -> 0 .. Cardinality(Node) - 1] :
                \A n \in Node : d \in DOMAIN table[n] =>
                    {n, table[n][d]} \in up /\ rank[table[n][d]] < rank[n]
  <2>1. PICK s : s = Dijkstra(up, d, delay)
    OBVIOUS
  <2>2. DijkstraHolds(s, up, delay, d)
    BY <2>1, DijkstraEnds
  <2>3. PICK height : Tree(up, Labelled(s), d, s.prev, s.dist, delay, height)
    BY <2>2, DijkstraTree
  <2>4. PICK c \in Nat : c = Cardinality(Node) /\ c # 0
    BY TopologyAssumption, FS_CardinalityType, FS_EmptySet
  <2>5. PICK rank : rank = [n \in Node |-> IF n \in Labelled(s) THEN height[n] ELSE 0]
    OBVIOUS
  <2>6. rank \in [Node -> 0 .. c - 1]
    BY <2>3, <2>4, <2>5 DEF Tree
  <2>7. ASSUME NEW n \in Node, d \in DOMAIN table[n]
        PROVE  {n, table[n][d]} \in up /\ rank[table[n][d]] < rank[n]
    <3>1. n \in DOMAIN s.prev /\ table[n][d] = s.prev[n]
      BY <1>2, <2>1, <2>7
    <3>2. n \in Labelled(s) \ {d}
      BY <2>3, <3>1 DEF Tree
    <3>3. PICK u \in Labelled(s) : u = s.prev[n]
      BY <2>3, <3>2 DEF Tree
    <3>4. n \in Neighbors(u, up) /\ height[u] < height[n] /\ u \in Node
      BY <2>3, <3>2, <3>3 DEF Tree
    <3>5. rank[u] = height[u] /\ rank[n] = height[n]
      BY <2>5, <3>2, <3>4
    <3>6. {n, u} = {u, n} /\ {u, n} \in up
      BY <3>4 DEF Neighbors
    <3> QED
      BY <3>1, <3>3, <3>4, <3>5, <3>6
  <2> QED
    BY <2>4, <2>6, <2>7
<1>4. \A n \in Node : \A d \in DOMAIN table[n] : {n, table[n][d]} \in up
  BY <1>2, <1>3
<1>5. ASSUME NEW d \in destinations
      PROVE  \E rank \in [Node -> 0 .. Cardinality(Node) - 1] :
                \A n \in Node : d \in DOMAIN table[n] => rank[table[n][d]] < rank[n]
  BY <1>3
<1> QED
  BY <1>1, <1>4, <1>5 DEF FollowTrees

(* A node's own search: from the second node of its path there is one hop  *)
(* less to go, and its path has the least number of them.                  *)
LEMMA NodeHop ==
    ASSUME NEW up, up \subseteq Link, NEW n \in Node, NEW d \in Node, n # d,
           NEW s, s = Bfs(up, n, d), d \in DOMAIN s.prev,
           NEW next, next = PathFromPrev(s.prev, n, d)[2]
    PROVE  /\ {n, next} \in up /\ next \in Node
           /\ \E m \in Nat : /\ m + 1 < Cardinality(Node) /\ Hops(up, next, d, m)
                             /\ \A k \in Nat : Hops(up, n, d, k) => m + 1 <= k
                             /\ Hops(up, n, d, m + 1)
<1>1. FirstHops(s, up, n, d)
  BY BfsEnds
<1>2. BfsTyped(s, up, n, d) /\ s.seen \subseteq Node
  BY <1>1 DEF FirstHops, BfsTyped
<1>3. PICK level, hop : BfsHops(s, up, n, d, level, hop)
  BY <1>1 DEF FirstHops
<1>4. Levelled(s, up, n, level) /\ Hopped(s, n, hop) /\ d \in s.seen
  BY <1>3 DEF BfsHops, Levelled
<1>5. Foremost(up, n, d, level, hop)
  BY <1>3, <1>4 DEF BfsHops, Searching
<1>6. PICK path : path = PathFromPrev(s.prev, n, d)
  OBVIOUS
<1>7. /\ Walk(path) /\ path[1] = n /\ Len(path) = level[d] + 1 /\ level[d] \in Nat \ {0}
      /\ Follows(path, d, s.seen, n, s.prev)
  BY <1>2, <1>4, <1>6, SecondNode
<1>8. PICK l \in Nat \ {0} : l = level[d] /\ Len(path) = l + 1
  BY <1>7
<1>9. \A k \in 1 .. l : path[k + 1] \in s.seen \ {n} /\ path[k] = s.prev[path[k + 1]]
  <2>1. Len(path) - 1 = l
    BY <1>8
  <2> QED
    BY <1>7, <2>1 DEF Follows
<1>10. ASSUME NEW k \in 1 .. l
       PROVE  /\ path[k] \in Node /\ path[k + 1] \in Node
              /\ path[k + 1] \in Neighbors(path[k], up) /\ path[k] \in Neighbors(path[k + 1], up)
  <2>1. PICK v \in s.seen \ {n} : v = path[k + 1] /\ path[k] = s.prev[v]
    BY <1>9
  <2>2. PICK u \in s.seen : u = s.prev[v] /\ v \in Neighbors(u, up)
    BY <1>4, <2>1 DEF Levelled
  <2>3. u \in Node /\ v \in Node /\ u \in Neighbors(v, up)
    BY <1>2, <2>2, NeighborsTyped
  <2> QED
    BY <2>1, <2>2, <2>3
<1> DEFINE P == {k \in 0 .. l : Hops(up, path[(l + 1) - k], d, k)}
<1>11. 0 \in P
  <2>1. path[(l + 1) - 0] = d
    BY <1>7, <1>8 DEF Follows
  <2>2. Hops(up, d, d, 0)
    BY DEF Hops
  <2> QED
    BY <2>1, <2>2
<1>12. ASSUME NEW k \in 0 .. l - 1, k \in P PROVE k + 1 \in P
  <2>1. PICK j \in 1 .. l : j = l - k /\ j + 1 = (l + 1) - k /\ j = (l + 1) - (k + 1)
    <3>1. l - k \in 1 .. l /\ (l - k) + 1 = (l + 1) - k /\ l - k = (l + 1) - (k + 1)
      OBVIOUS
    <3> QED
      BY <3>1
  <2>2. Hops(up, path[j + 1], d, k)
    BY <1>12, <2>1
  <2>3. /\ path[j + 1] \in Node /\ path[j] \in Neighbors(path[j + 1], up)
    BY <1>10
  <2>4. Hops(up, path[j], d, k + 1)
    BY <2>2, <2>3, HopsStep
  <2>5. k + 1 \in 0 .. l
    OBVIOUS
  <2> QED
    BY <2>1, <2>4, <2>5
<1> HIDE DEF P
<1>13. \A k \in 0 .. l - 1 : k \in P => k + 1 \in P
  BY <1>12
<1>14. 0 .. l \subseteq P
  BY <1>11, <1>13, Induction
<1>15. PICK m \in Nat : l = m + 1
  <2>1. l - 1 \in Nat /\ l = (l - 1) + 1
    OBVIOUS
  <2> QED
    BY <2>1
<1>16. Hops(up, path[2], d, m)
  <2>1. m \in 0 .. l /\ (l + 1) - m = 2
    BY <1>15
  <2> QED
    BY <1>14, <2>1 DEF P
<1>17. Hops(up, n, d, m + 1)
  <2>1. l \in 0 .. l /\ (l + 1) - l = 1
    OBVIOUS
  <2> QED
    BY <1>7, <1>14, <1>15, <2>1 DEF P
<1>18. {n, path[2]} \in up /\ path[2] \in Node
  <2>1. 1 \in 1 .. l /\ 1 + 1 = 2
    OBVIOUS
  <2>2. path[2] \in Neighbors(path[1], up) /\ path[2] \in Node
    BY <1>10, <2>1
  <2> QED
    BY <1>7, <2>2 DEF Neighbors
<1>19. m + 1 < Cardinality(Node)
  <2>1. level[d] \in 0 .. Cardinality(s.seen) - 1
    BY <1>4 DEF Levelled
  <2>2. PICK a \in Nat, b \in Nat : a = Cardinality(s.seen) /\ b = Cardinality(Node) /\ a <= b
    BY <1>2, TopologyAssumption, FS_Subset, FS_CardinalityType
  <2> QED
    BY <1>8, <1>15, <2>1, <2>2
<1>20. \A k \in Nat : Hops(up, n, d, k) => m + 1 <= k
  BY <1>5, <1>8, <1>15 DEF Foremost
<1> QED
  BY <1>6, <1>16, <1>17, <1>18, <1>19, <1>20

(* How far it is to go, if it is at all.                                   *)
HopsLeft(up, d, n) ==
    CHOOSE m \in Nat : Hops(up, n, d, m) /\ \A k \in Nat : Hops(up, n, d, k) => m <= k

LEMMA HopsLeftIs ==
    ASSUME NEW up, NEW d, NEW n, NEW l \in Nat, Hops(up, n, d, l)
    PROVE  /\ HopsLeft(up, d, n) \in Nat /\ Hops(up, n, d, HopsLeft(up, d, n))
           /\ \A k \in Nat : Hops(up, n, d, k) => HopsLeft(up, d, n) <= k
<1> DEFINE T == {k \in Nat : Hops(up, n, d, k)}
<1>1. T \subseteq Nat /\ T # {}
  OBVIOUS
<1>2. PICK m \in T : \A k \in T : m <= k
  BY <1>1, LeastNatural
<1>3. m \in Nat /\ Hops(up, n, d, m) /\ \A k \in Nat : Hops(up, n, d, k) => m <= k
  BY <1>2
<1> QED
  BY <1>3 DEF HopsLeft

(* build_routes_distributed: nodes that search for themselves choose next  *)
(* hops that fit together, since each comes one hop nearer.                *)
THEOREM NodeTablesFollowTrees ==
    ASSUME NEW up, up \subseteq Link, NEW destinations, destinations \subseteq Node
    PROVE  FollowTrees(BuildRoutesDistributed(up, destinations), up, destinations)
<1>1. PICK table : table = BuildRoutesDistributed(up, destinations)
  OBVIOUS
<1>2. ASSUME NEW n \in Node, NEW d \in DOMAIN table[n]
      PROVE  /\ d \in destinations /\ table[n][d] \in Node /\ {n, table[n][d]} \in up
             /\ \E m \in Nat : /\ m + 1 < Cardinality(Node) /\ Hops(up, table[n][d], d, m)
                               /\ \A k \in Nat : Hops(up, n, d, k) => m + 1 <= k
                               /\ Hops(up, n, d, m + 1)
  <2>1. table[n] = SearchEntries(up, destinations, n)
    BY <1>1, NodeEntries
  <2>2. /\ d \in destinations /\ d \in Node /\ n # d /\ d \in DOMAIN Bfs(up, n, d).prev
        /\ table[n][d] = PathFromPrev(Bfs(up, n, d).prev, n, d)[2]
    BY <1>2, <2>1 DEF SearchEntries
  <2>3. PICK s : s = Bfs(up, n, d)
    OBVIOUS
  <2>4. PICK next : next = PathFromPrev(s.prev, n, d)[2] /\ next = table[n][d]
    BY <2>2, <2>3
  <2>5. /\ {n, next} \in up /\ next \in Node
        /\ \E m \in Nat : /\ m + 1 < Cardinality(Node) /\ Hops(up, next, d, m)
                          /\ \A k \in Nat : Hops(up, n, d, k) => m + 1 <= k
                          /\ Hops(up, n, d, m + 1)
    BY <2>2, <2>3, <2>4, NodeHop
  <2> QED
    BY <2>2, <2>4, <2>5
<1>3. PICK c \in Nat : c = Cardinality(Node)
  BY TopologyAssumption, FS_CardinalityType
<1>4. ASSUME NEW d \in destinations
      PROVE  \E rank \in [Node -> 0 .. Cardinality(Node) - 1] :
                \A n \in Node : d \in DOMAIN table[n] => rank[table[n][d]] < rank[n]
  <2>1. c # 0
    BY <1>3, TopologyAssumption, FS_EmptySet
  <2>2. PICK rank : rank = [n \in Node |->
                       IF \E k \in Nat : Hops(up, n, d, k) /\ HopsLeft(up, d, n) < c
                         THEN HopsLeft(up, d, n) ELSE 0]
    OBVIOUS
  <2>3. rank \in [Node -> 0 .. c - 1]
    <3>1. ASSUME NEW n \in Node PROVE rank[n] \in 0 .. c - 1
      <4>1. CASE \E k \in Nat : Hops(up, n, d, k) /\ HopsLeft(up, d, n) < c
        <5>1. PICK k \in Nat : Hops(up, n, d, k)
          BY <4>1
        <5>2. HopsLeft(up, d, n) \in Nat
          BY <5>1, HopsLeftIs
        <5>3. rank[n] = HopsLeft(up, d, n) /\ HopsLeft(up, d, n) < c
          BY <2>2, <4>1
        <5> QED
          BY <5>2, <5>3
      <4>2. CASE ~ \E k \in Nat : Hops(up, n, d, k) /\ HopsLeft(up, d, n) < c
        <5>1. rank[n] = 0
          BY <2>2, <4>2
        <5> QED
          BY <2>1, <5>1
      <4> QED
        BY <4>1, <4>2
    <3> QED
      BY <2>2, <3>1
  <2>4. ASSUME NEW n \in Node, d \in DOMAIN table[n] PROVE rank[table[n][d]] < rank[n]
    <3>1. PICK next \in Node : next = table[n][d]
      BY <1>2, <2>4
    <3>2. PICK m \in Nat : /\ m + 1 < c /\ Hops(up, next, d, m) /\ Hops(up, n, d, m + 1)
                           /\ \A k \in Nat : Hops(up, n, d, k) => m + 1 <= k
      BY <1>2, <1>3, <2>4, <3>1
    <3>3. PICK a \in Nat : a = HopsLeft(up, d, next) /\ a <= m
      BY <3>2, HopsLeftIs
    <3>4. PICK b \in Nat : b = HopsLeft(up, d, n) /\ b <= m + 1 /\ m + 1 <= b
      <4>1. m + 1 \in Nat
        OBVIOUS
      <4>2. /\ HopsLeft(up, d, n) \in Nat /\ Hops(up, n, d, HopsLeft(up, d, n))
            /\ HopsLeft(up, d, n) <= m + 1
        BY <3>2, <4>1, HopsLeftIs
      <4> QED
        BY <3>2, <4>2
    <3>5. a < c /\ b < c /\ a < b
      BY <1>3, <3>2, <3>3, <3>4
    <3>6. rank[next] = a
      BY <2>2, <3>2, <3>3, <3>5
    <3>7. rank[n] = b
      BY <2>2, <3>2, <3>4, <3>5
    <3> QED
      BY <3>1, <3>5, <3>6, <3>7
  <2> QED
    BY <1>3, <2>3, <2>4
<1> QED
  BY <1>1, <1>2, <1>4 DEF FollowTrees

-----------------------------------------------------------------------------
(* There is a way from a to b over the links up: no set of nodes that      *)
(* holds the neighbours of all its members parts b from a.                 *)
Connected(up, a, b) ==
    \A C \in SUBSET Node : (a \in C /\ \A u \in C : Neighbors(u, up) \subseteq C) => b \in C

(* A node of a search tree and its root are connected, both ways.          *)
LEMMA TreeConnects ==
    ASSUME NEW up, NEW V, NEW root, NEW prev, NEW dist, NEW cost, NEW rank,
           Tree(up, V, root, prev, dist, cost, rank), NEW v \in V
    PROVE  Connected(up, root, v) /\ Connected(up, v, root)
<1>1. /\ V \subseteq Node /\ root \in V /\ up \subseteq Link
      /\ \A x \in V : rank[x] \in Nat
      /\ \A x \in V \ {root} :
            prev[x] \in V /\ x \in Neighbors(prev[x], up) /\ rank[prev[x]] < rank[x]
  <2>1. \A x \in V : rank[x] \in 0 .. Cardinality(Node) - 1
    BY DEF Tree
  <2>2. /\ V \subseteq Node /\ root \in V /\ up \subseteq Link
        /\ \A x \in V \ {root} :
              prev[x] \in V /\ x \in Neighbors(prev[x], up) /\ rank[prev[x]] < rank[x]
    BY DEF Tree
  <2>3. \A x \in V : rank[x] \in Nat
    BY <2>1
  <2> QED
    BY <2>2, <2>3
<1>2. ASSUME NEW C \in SUBSET Node, root \in C, \A u \in C : Neighbors(u, up) \subseteq C
      PROVE  v \in C
  <2> DEFINE T == {rank[x] : x \in V \ C}
  <2> SUFFICES ASSUME v \notin C PROVE FALSE
    OBVIOUS
  <2>1. T \subseteq Nat /\ T # {}
    BY <1>1
  <2>2. PICK m \in T : \A k \in T : m <= k
    BY <2>1, LeastNatural
  <2>3. PICK x \in V \ C : rank[x] = m
    BY <2>2
  <2>4. PICK y \in V : y = prev[x] /\ x \in Neighbors(y, up) /\ rank[y] < rank[x]
    BY <1>1, <1>2, <2>3
  <2>5. y \in C
    <3> SUFFICES ASSUME y \notin C PROVE FALSE
      OBVIOUS
    <3>1. m <= rank[y]
      BY <2>2
    <3> QED
      BY <1>1, <2>3, <2>4, <3>1
  <2> QED
    BY <1>2, <2>3, <2>4, <2>5
<1>3. ASSUME NEW C \in SUBSET Node, v \in C, \A u \in C : Neighbors(u, up) \subseteq C
      PROVE  root \in C
  <2> DEFINE T == {rank[x] : x \in V \cap C}
  <2> SUFFICES ASSUME root \notin C PROVE FALSE
    OBVIOUS
  <2>1. T \subseteq Nat /\ T # {}
    BY <1>1, <1>3
  <2>2. PICK m \in T : \A k \in T : m <= k
    BY <2>1, LeastNatural
  <2>3. PICK x \in V \cap C : rank[x] = m
    BY <2>2
  <2>4. PICK y \in V : y = prev[x] /\ x \in Neighbors(y, up) /\ rank[y] < rank[x]
    BY <1>1, <2>3
  <2>5. y \in Neighbors(x, up)
    BY <1>1, <2>4, NeighborsTyped
  <2>6. y \in C
    BY <1>3, <2>3, <2>5
  <2>7. m <= rank[y]
    BY <2>2, <2>6
  <2> QED
    BY <1>1, <2>3, <2>4, <2>7
<1> QED
  BY <1>2, <1>3 DEF Connected

(* A table has an entry for every destination that can be reached, and for *)
(* no other.                                                               *)
Complete(table, up, destinations) ==
    \A n \in Node : DOMAIN table[n] = {d \in destinations \ {n} : Connected(up, n, d)}

(* compute_routes: every node has a route to every destination connected   *)
(* with it, whatever the delays: the search visits all of a component.     *)
THEOREM ControllerTablesAreComplete ==
    ASSUME NEW up, up \subseteq Link, NEW delay \in [Link -> Nat],
           NEW destinations, destinations \subseteq Node
    PROVE  Complete(ComputeRoutes(up, destinations, delay), up, destinations)
<1>1. PICK table : table = ComputeRoutes(up, destinations, delay)
  OBVIOUS
<1>2. ASSUME NEW n \in Node, NEW d \in destinations \ {n}
      PROVE  n \in DOMAIN Dijkstra(up, d, delay).prev <=> Connected(up, n, d)
  <2>1. PICK s : s = Dijkstra(up, d, delay)
    OBVIOUS
  <2>2. DijkstraHolds(s, up, delay, d) /\ s.pq = {}
    BY <2>1, DijkstraEnds
  <2>3. PICK height : Tree(up, Labelled(s), d, s.prev, s.dist, delay, height)
    BY <2>2, DijkstraTree
  <2>4. DOMAIN s.prev = Labelled(s) \ {d} /\ d \in Labelled(s) /\ Labelled(s) \subseteq Node
    BY <2>3 DEF Tree
  <2>5. s.visited = Labelled(s)
    <3>1. Waiting(s) = {}
      BY <2>2 DEF DijkstraHolds, HeapHolds
    <3>2. s.visited \subseteq Labelled(s)
      BY <2>2 DEF DijkstraHolds, DijkstraTyped
    <3> QED
      BY <3>1, <3>2 DEF Waiting
  <2>6. \A u \in Labelled(s) : Neighbors(u, up) \subseteq Labelled(s)
    BY <2>2, <2>5 DEF DijkstraHolds, VisitedFirst
  <2>7. ASSUME Connected(up, n, d) PROVE n \in Labelled(s)
    <3> SUFFICES ASSUME n \notin Labelled(s) PROVE FALSE
      OBVIOUS
    <3>1. PICK C \in SUBSET Node : C = Node \ Labelled(s)
      OBVIOUS
    <3>2. ASSUME NEW u \in C, NEW v \in Neighbors(u, up) PROVE v \in C
      <4>1. v \in Node /\ u \in Neighbors(v, up)
        BY <3>1, NeighborsTyped
      <4> QED
        BY <2>6, <3>1, <4>1
    <3>3. n \in C /\ d \notin C
      BY <2>4, <3>1
    <3> QED
      BY <2>7, <3>2, <3>3 DEF Connected
  <2>8. ASSUME n \in Labelled(s) PROVE Connected(up, n, d)
    BY <2>3, <2>8, TreeConnects
  <2> QED
    BY <2>1, <2>4, <2>7, <2>8
<1>3. ASSUME NEW n \in Node
      PROVE  DOMAIN table[n] = {d \in destinations \ {n} : Connected(up, n, d)}
  <2>1. table[n] = TreeEntries(up, destinations, delay, n)
    BY <1>1, ControllerEntries
  <2>2. DOMAIN table[n] = {d \in destinations \ {n} : n \in DOMAIN Dijkstra(up, d, delay).prev}
    BY <2>1 DEF TreeEntries
  <2> QED
    BY <1>2, <2>2
<1> QED
  BY <1>1, <1>3 DEF Complete

(* build_routes_distributed: the search a node breaks off at its           *)
(* destination misses none it could reach.                                 *)
THEOREM NodeTablesAreComplete ==
    ASSUME NEW up, up \subseteq Link, NEW destinations, destinations \subseteq Node
    PROVE  Complete(BuildRoutesDistributed(up, destinations), up, destinations)
<1>1. PICK table : table = BuildRoutesDistributed(up, destinations)
  OBVIOUS
<1>2. ASSUME NEW n \in Node, NEW d \in destinations \ {n}
      PROVE  d \in DOMAIN Bfs(up, n, d).prev <=> Connected(up, n, d)
  <2>1. PICK s : s = Bfs(up, n, d)
    OBVIOUS
  <2>2. FirstHops(s, up, n, d) /\ s.q = <<>>
    BY <2>1, BfsEnds
  <2>3. PICK level, hop : BfsHops(s, up, n, d, level, hop)
    BY <2>2 DEF FirstHops
  <2>4. BfsTyped(s, up, n, d) /\ Levelled(s, up, n, level)
    BY <2>2, <2>3 DEF FirstHops, BfsHops
  <2>5. n \in s.seen /\ DOMAIN s.prev = s.seen \ {n} /\ s.seen \subseteq Node
    BY <2>4 DEF BfsTyped, Levelled
  <2>6. ASSUME Connected(up, n, d) PROVE d \in s.seen
    <3> SUFFICES ASSUME d \notin s.seen PROVE FALSE
      OBVIOUS
    <3>1. Queued(s, up, level)
      BY <2>3 DEF BfsHops, Searching
    <3>2. \A u \in s.seen : Neighbors(u, up) \subseteq s.seen
      BY <2>2, <3>1 DEF Queued
    <3> QED
      BY <2>5, <2>6, <3>2 DEF Connected
  <2>7. ASSUME d \in s.seen PROVE Connected(up, n, d)
    <3>1. Tree(up, s.seen, n, s.prev, level, HopCost, level)
      BY <2>4, BfsTree
    <3> QED
      BY <2>7, <3>1, TreeConnects
  <2> QED
    BY <2>1, <2>5, <2>6, <2>7
<1>3. ASSUME NEW n \in Node
      PROVE  DOMAIN table[n] = {d \in destinations \ {n} : Connected(up, n, d)}
  <2>1. table[n] = SearchEntries(up, destinations, n)
    BY <1>1, NodeEntries
  <2>2. DOMAIN table[n] = {d \in destinations \ {n} : d \in DOMAIN Bfs(up, n, d).prev}
    BY <2>1 DEF SearchEntries
  <2> QED
    BY <1>2, <2>2
<1> QED
  BY <1>1, <1>3 DEF Complete

(* With equal positive delays on all links the tables of the controller    *)
(* and those of the nodes themselves are the same, entry by entry: what    *)
(* the two control planes differ in is when they notice a change.          *)
THEOREM TablesAgree ==
    ASSUME NEW up, up \subseteq Link, NEW delay \in [Link -> Nat],
           \A k, l \in Link : delay[k] = delay[l] /\ delay[k] > 0,
           NEW destinations, destinations \subseteq Node
    PROVE  ComputeRoutes(up, destinations, delay) = BuildRoutesDistributed(up, destinations)
<1>1. PICK table, own : /\ table = ComputeRoutes(up, destinations, delay)
                        /\ own = BuildRoutesDistributed(up, destinations)
  OBVIOUS
<1>2. ASSUME NEW n \in Node PROVE table[n] = own[n]
  <2>1. table[n] = TreeEntries(up, destinations, delay, n)
    BY <1>1, ControllerEntries
  <2>2. own[n] = SearchEntries(up, destinations, n)
    BY <1>1, NodeEntries
  <2>3. DOMAIN table[n] = DOMAIN own[n]
    <3>1. Complete(table, up, destinations) /\ Complete(own, up, destinations)
      BY <1>1, ControllerTablesAreComplete, NodeTablesAreComplete
    <3> QED
      BY <3>1 DEF Complete
  <2>4. ASSUME NEW d \in DOMAIN table[n] PROVE table[n][d] = own[n][d]
    <3>1. PICK s, b : s = Dijkstra(up, d, delay) /\ b = Bfs(up, n, d)
      OBVIOUS
    <3>2. d \in destinations \ {n} /\ table[n][d] = s.prev[n]
      BY <2>1, <2>4, <3>1 DEF TreeEntries
    <3>3. d \in DOMAIN b.prev /\ own[n][d] = PathFromPrev(b.prev, n, d)[2]
      BY <2>2, <2>3, <2>4, <3>1 DEF SearchEntries
    <3>4. DijkstraHolds(s, up, delay, d) /\ s.pq = {}
      BY <3>1, <3>2, DijkstraEnds
    <3>5. FirstHops(b, up, n, d)
      BY <3>1, <3>2, BfsEnds
    <3>6. Reached(b.prev, n, d) /\ n # d
      BY <3>2, <3>3 DEF Reached
    <3>7. PathFromPrev(b.prev, n, d)[2] = s.prev[n]
      BY <3>4, <3>5, <3>6, Agreement
    <3> QED
      BY <3>2, <3>3, <3>7
  <2>5. table[n] = [d \in DOMAIN table[n] |-> table[n][d]]
    BY <2>1 DEF TreeEntries
  <2>6. own[n] = [d \in DOMAIN own[n] |-> own[n][d]]
    BY <2>2 DEF SearchEntries
  <2> QED
    BY <2>3, <2>4, <2>5, <2>6
<1>3. table = [n \in Node |-> table[n]]
  BY <1>1 DEF ComputeRoutes
<1>4. own = [n \in Node |-> own[n]]
  BY <1>1 DEF BuildRoutesDistributed
<1> QED
  BY <1>1, <1>2, <1>3, <1>4
=============================================================================
