--------------------------- MODULE ShortestPaths ---------------------------
(***************************************************************************)
(* The two searches of module Routing run side by side on one topology,    *)
(* link state, and pair of nodes, one loop iteration per step, against     *)
(* reference definitions of distance.                                      *)
(***************************************************************************)
EXTENDS Routing, Integers

CONSTANTS
    Delays,   \* the propagation_delay_ms a link may have
    Pairs     \* the <<node, destination>> pairs looked at

ASSUME InputAssumption == Delays \subseteq Nat /\ Pairs \subseteq Node \X Node

VARIABLES
    weight,     \* what Dijkstra weighs each link with, its propagation_delay_ms
    active,     \* the active links
    node,   \* the node whose next hop is wanted
    dst,    \* the destination it is wanted for
    dij,    \* dijkstra(topo, dst)
    bfs     \* shortest_path(topo, node, dst)

vars == <<weight, active, node, dst, dij, bfs>>

Init ==
    /\ weight \in [Link -> Delays]
    /\ active \in SUBSET Link
    /\ \E p \in Pairs : node = p[1] /\ dst = p[2]
    /\ dij = DijkstraInit(dst)
    /\ bfs = BfsInit(node)

DijkstraPop ==
    /\ dij.pq # {}
    /\ dij' = DijkstraStep(dij, active, weight)
    /\ UNCHANGED <<weight, active, node, dst, bfs>>

BfsDequeue ==
    /\ dij.pq = {}    \* one search after the other
    /\ bfs.q # <<>>
    /\ bfs' = BfsStep(bfs, active, dst)
    /\ UNCHANGED <<weight, active, node, dst, dij>>

Done == dij.pq = {} /\ bfs.q = <<>>

Next == DijkstraPop \/ BfsDequeue

Spec == Init /\ [][Next]_vars

-----------------------------------------------------------------------------
(* Reference distances, by relaxing every link |Node|-1 times.             *)
Infinite == -1

Least(S) == IF S = {} THEN Infinite ELSE CHOOSE x \in S : \A y \in S : x <= y

Relaxation(d, cost) ==
    LET finite == {u \in Node : d[u] # Infinite}
        via(v) == {d[u] + cost[{u, v}] : u \in finite \cap Neighbors(v, active)}
    IN [v \in Node |-> Least(via(v) \cup ({d[v]} \ {Infinite}))]

Distances(src, cost) ==
    LET round[k \in 0 .. Cardinality(Node) - 1] ==
            IF k = 0 THEN [v \in Node |-> IF v = src THEN 0 ELSE Infinite]
            ELSE Relaxation(round[k - 1], cost)
    IN round[Cardinality(Node) - 1]

HopCost == [l \in Link |-> 1]

PathCost(path, cost) ==
    LET sum[k \in 0 .. Len(path) - 1] ==
            IF k = 0 THEN 0 ELSE sum[k - 1] + cost[{path[k], path[k + 1]}]
    IN sum[Len(path) - 1]

(* dijkstra(): when a node leaves the heap for the first time its distance *)
(* is final and right, although stale heap entries for it may remain; and  *)
(* in the end exactly the nodes that active links lead to have left it.    *)
VisitedIsSettled ==
    LET ref == Distances(dst, weight)
    IN /\ \A v \in dij.visited : dij.dist[v] = ref[v]
       /\ dij.pq = {} => dij.visited = {v \in Node : ref[v] # Infinite}

(* dijkstra(): a tentative distance is always the cost of the path that    *)
(* prev holds at that moment, so _path_from_prev never meets a gap.        *)
TreeMatchesDistances ==
    \A v \in DOMAIN dij.dist :
        LET path == PathFromPrev(dij.prev, dst, v)
        IN Head(path) = dst /\ PathCost(path, weight) = dij.dist[v]

(* shortest_path: the path found has the least number of hops, and there   *)
(* is one whenever the nodes are connected.                                *)
BfsIsShortest ==
    bfs.q = <<>> =>
        LET hops == Distances(node, HopCost)[dst]
        IN IF hops = Infinite
             THEN ~Reached(bfs.prev, node, dst)
             ELSE Len(PathFromPrev(bfs.prev, node, dst)) = hops + 1

(* With equal delays on all links the controller and the distributed nodes *)
(* choose the same next hop, ties included: SDN and distributed control    *)
(* then forward identically while no failure is being reacted to.          *)
HomogeneousAgreement ==
    Done /\ node # dst /\ Reached(bfs.prev, node, dst)
         /\ (\A k, l \in Link : weight[k] = weight[l] /\ weight[k] > 0)
      => PathFromPrev(bfs.prev, node, dst)[2] = dij.prev[node]
=============================================================================
