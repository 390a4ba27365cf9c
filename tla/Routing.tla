------------------------------ MODULE Routing ------------------------------
(***************************************************************************)
(* Route computation over an undirected topology: the hop-count breadth-   *)
(* first search every node runs for itself under distributed control       *)
(* (topology.shortest_path), the delay-weighted Dijkstra the controller    *)
(* runs from every destination (controller.dijkstra), and the tables built *)
(* from them.  Each search is a state and a step on it, so that module     *)
(* ShortestPaths can look inside its loop and the engines can run it to    *)
(* the end.                                                                *)
(*                                                                         *)
(* Nodes are the numbers the code uses: both searches break ties with them.*)
(***************************************************************************)
EXTENDS Naturals, FiniteSets, Sequences, SequencesExt

CONSTANTS Node, Link

ASSUME TopologyAssumption ==
    /\ Node \subseteq Nat
    /\ IsFiniteSet(Node)
    /\ \A l \in Link : l \subseteq Node /\ Cardinality(l) = 2

Neighbors(u, up) == {v \in Node : {u, v} \in up}

Ascending(S) ==
    CHOOSE s \in [1 .. Cardinality(S) -> S] :
        \A i, j \in 1 .. Cardinality(S) : i < j => s[i] < s[j]

(* A dictionary after the assignments of another.                          *)
Updated(f, g) ==
    [x \in DOMAIN f \cup DOMAIN g |-> IF x \in DOMAIN g THEN g[x] ELSE f[x]]

(* The path a search tree holds: prev is followed back from dst to src.    *)
Reached(prev, src, dst) == dst = src \/ dst \in DOMAIN prev

PathFromPrev(prev, src, dst) ==
    LET back[k \in 0 .. Cardinality(Node)] ==
            IF k = 0 THEN <<dst>>
            ELSE LET p == back[k - 1]
                 IN IF Head(p) = src THEN p ELSE <<prev[Head(p)]>> \o p
    IN back[Cardinality(Node)]

(***************************************************************************)
(* topology.shortest_path: the loop body is one dequeued node.  The inner  *)
(* loop stops at dst and empties the queue.                                *)
(***************************************************************************)
BfsInit(src) == [q |-> <<src>>, seen |-> {src}, prev |-> <<>>]

(* Mutant: nodes are not marked as seen.                                   *)
Unmarked(seen, fresh) == seen

Enqueued(queue, fresh) == Tail(queue) \o Ascending(fresh)

Marked(seen, fresh) == seen \cup fresh

BfsStep(s, up, dst) ==
    LET u == Head(s.q)
        unseen == Neighbors(u, up) \ s.seen
        fresh == IF dst \in unseen THEN {v \in unseen : v <= dst} ELSE unseen
    IN [q |-> IF dst \in fresh THEN <<>> ELSE Enqueued(s.q, fresh),
        seen |-> Marked(s.seen, fresh),
        prev |-> Updated(s.prev, [v \in fresh |-> u])]

Bfs(up, src, dst) ==
    LET run[k \in 0 .. Cardinality(Node)] ==
            IF k = 0 THEN BfsInit(src)
            ELSE LET s == run[k - 1]
                 IN IF s.q = <<>> THEN s ELSE BfsStep(s, up, dst)
    IN run[Cardinality(Node)]

(***************************************************************************)
(* controller.dijkstra: the loop body is one entry popped from the heap.   *)
(* Entries are not removed when a better one is pushed; they are skipped   *)
(* when their node has been visited.                                       *)
(***************************************************************************)
DijkstraInit(src) ==
    [dist |-> [v \in {src} |-> 0], prev |-> <<>>, visited |-> {}, pq |-> {<<0, src>>}]

(* Mutant: the heap is ordered by node first.                              *)
HeapTopByNode(pq) ==
    CHOOSE e \in pq : \A o \in pq : e[2] < o[2] \/ (e[2] = o[2] /\ e[1] <= o[1])

HeapTop(pq) ==
    CHOOSE e \in pq : \A o \in pq : e[1] < o[1] \/ (e[1] = o[1] /\ e[2] <= o[2])

(* Mutant: an equal distance replaces the earlier one.                     *)
RelaxedOnTie(s, u, d, up, weight) ==
    {v \in Neighbors(u, up) : v \in DOMAIN s.dist => d + weight[{u, v}] <= s.dist[v]}

Relaxed(s, u, d, up, weight) ==
    {v \in Neighbors(u, up) : v \in DOMAIN s.dist => d + weight[{u, v}] < s.dist[v]}

(* Mutant: the first predecessor is kept.                                  *)
SetPrevOnce(prev, better, u) == Updated([v \in better |-> u], prev)

SetPrev(prev, better, u) == Updated(prev, [v \in better |-> u])

SkipVisited(s, top) == [s EXCEPT !.pq = @ \ {top}]

DijkstraStep(s, up, weight) ==
    LET top == HeapTop(s.pq)
        d == top[1]
        u == top[2]
        better == Relaxed(s, u, d, up, weight)
    IN IF u \in s.visited
         THEN SkipVisited(s, top)
         ELSE [dist |-> Updated(s.dist, [v \in better |-> d + weight[{u, v}]]),
               prev |-> SetPrev(s.prev, better, u),
               visited |-> s.visited \cup {u},
               pq |-> (s.pq \ {top}) \cup {<<d + weight[{u, v}], v>> : v \in better}]

Dijkstra(up, src, weight) ==
    LET run[k \in 0 .. 2 * Cardinality(Link) + 1] ==
            IF k = 0 THEN DijkstraInit(src)
            ELSE LET s == run[k - 1]
                 IN IF s.pq = {} THEN s ELSE DijkstraStep(s, up, weight)
    IN run[2 * Cardinality(Link) + 1]

(***************************************************************************)
(* Tables: destination -> next hop, without an entry for the node itself   *)
(* or for a destination it cannot reach.                                   *)
(***************************************************************************)
EmptyRoutes == <<>>

BfsNextHop(up, node, dst) == PathFromPrev(Bfs(up, node, dst).prev, node, dst)[2]

BuildRoutesDistributed(up, destinations) ==
    [n \in Node |->
        Updated(EmptyRoutes,
            [d \in {d \in destinations \ {n} : Reached(Bfs(up, n, d).prev, n, d)} |->
                BfsNextHop(up, n, d)])]

ComputeRoutes(up, destinations, weight) ==
    LET tree == [d \in destinations |-> Dijkstra(up, d, weight).prev]
    IN [n \in Node |->
          Updated(EmptyRoutes,
              [d \in {d \in destinations \ {n} : Reached(tree[d], d, n)} |->
                  LET path == PathFromPrev(tree[d], d, n) IN path[Len(path) - 1]])]

(***************************************************************************)
(* FIBs, keyed by the producer of a prefix: a list of next hops.  Flooding *)
(* and probabilistic forwarding list every active neighbour of a node that *)
(* can reach the producer.                                                 *)
(***************************************************************************)
ComputeFibs(up, producers, weight) ==
    LET table == ComputeRoutes(up, producers, weight)
    IN [n \in Node |-> [d \in DOMAIN table[n] |-> <<table[n][d]>>]]

RebuildFibs(up, producers, multipath) ==
    LET table == BuildRoutesDistributed(up, producers)
    IN [n \in Node |->
          [d \in DOMAIN table[n] |->
              IF multipath THEN Ascending(Neighbors(n, up)) ELSE <<table[n][d]>>]]
=============================================================================
