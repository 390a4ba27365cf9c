------------------------------- MODULE MCNDN -------------------------------
(***************************************************************************)
(* Small networks, workloads and failure schedules for the NDN engine.     *)
(***************************************************************************)
EXTENDS NDNProperties

S == INSTANCE Scenarios

(* A chain: 0 and 1 ask, 2 produces, node 1 is on the way of node 0.       *)
Chain == S!MakeLine(3)
Star == S!MakeTree(3, 2)
ThreeNodes == 0 .. 2

(* A triangle, with the producer behind node 1: copies of an Interest can  *)
(* run around in it.                                                       *)
Kite == {{0, 1}, {0, 3}, {1, 3}, {1, 2}}
KiteNode == 0 .. 3

(* All names are under one prefix.                                         *)
Two == [name \in Name |-> S!Producers(Cardinality(Node), 1, {0, 1})[1]]

R == INSTANCE Routing
NoEntry == R!EmptyRoutes

Unit == [l \in Link |-> 1]
Fibs == <<>> @@
    [f \in Forwarding |-> <<>> @@
        [up \in SUBSET Link |-> <<>> @@
            IF f = "sdn-centralized" THEN R!ComputeFibs(up, {2}, Unit)
                                     ELSE R!RebuildFibs(up, {2}, f # "best-route")]]
MCRoutes == Fibs

Lossless == [propagation |-> 1, processing |-> 0, queue_limit |-> 2, lossy |-> FALSE]
Lossy == [propagation |-> 1, processing |-> 0, queue_limit |-> 2, lossy |-> TRUE]

NoFailures == {<<>>}

Fails(l, t) == [at |-> t, link |-> l, up |-> FALSE]
Recovers(l, t) == [at |-> t, link |-> l, up |-> TRUE]

SingleEdge(links, starts, durations) ==
    {S!ParseFailures(l, t, t + d) : l \in links, t \in starts, d \in durations}

Workload(count, nodes, gaps) ==
    UNION {S!GenerateRequests(Name, count, nodes, gap) : gap \in gaps}

ChainRequests == Workload(3, {0, 1}, {1, 4})
ChainWorkloads == ChainRequests
(* Short and long failures, and a second one before the reaction to the    *)
(* first is in force.                                                      *)
ChainSchedules ==
    NoFailures \cup SingleEdge({{1, 2}}, {2}, {0, 1, 9})
      \cup {<<Fails({0, 1}, 1), Fails({1, 2}, 2), Recovers({0, 1}, 3)>>}

(* The producer may ask for its own name.                                  *)
FloodWorkloads == Workload(2, {0, 1, 2}, {2})
FloodSchedules == NoFailures \cup SingleEdge({{0, 1}, {1, 3}}, {3}, {0, 7})

(* Two consumers of one name behind node 0, a failure that is repaired     *)
(* before either of them retransmits.                                      *)
TransientWorkloads == Workload(2, {1}, {1, 2, 3})
TransientSchedules == SingleEdge({{0, 2}}, {1, 2}, {2})
=============================================================================
