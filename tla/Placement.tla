----------------------------- MODULE Placement -----------------------------
(***************************************************************************)
(* The SDN controller's cache placement: which names it tells which nodes  *)
(* to cache, from the popularity it sees in a leading part of the traffic. *)
(***************************************************************************)
LOCAL INSTANCE Integers
LOCAL INSTANCE FiniteSets
LOCAL INSTANCE Sequences
LOCAL INSTANCE SequencesExt

PlacementNodes(mode, producers, consumers, nodes) ==
    LET candidates == CASE mode = "near-consumer" -> consumers
                        [] mode = "hybrid" -> producers \cup consumers
                        [] OTHER -> producers
    IN SetToSortSeq(IF candidates = {} THEN nodes ELSE candidates, LAMBDA a, b : a < b)

(* Requests by start, equals in the order of the list.                     *)
Sooner(requests, i, j) ==
    \/ requests[i].start_ms < requests[j].start_ms
    \/ requests[i].start_ms = requests[j].start_ms /\ i < j

(* The leading `percent' of them, but one at least.                        *)
LearningWindow(requests, percent) ==
    LET share == (Len(requests) * percent) \div 100
        learn_n == IF share < 1 THEN 1 ELSE share
    IN {i \in DOMAIN requests :
          Cardinality({j \in DOMAIN requests : Sooner(requests, j, i)}) < learn_n}

(* Names by count; of equal counts the one that was asked for first.       *)
Outranks(requests, window, m, n) ==
    LET asked(name) == {i \in window : requests[i].name = name}
        count(name) == Cardinality(asked(name))
    IN \/ count(m) > count(n)
       \/ /\ count(m) = count(n)
          /\ \E i \in asked(m) : \A j \in asked(n) : Sooner(requests, i, j)

(* Mutant: every placement node is told the whole list.                    *)
PlacedEverywhere(rank, places) == ToSet(places)

PlacedOn(rank, places) == {places[(rank % Len(places)) + 1]}

(* coordinate_cache_placement, with what the engine hands it: the i-th of  *)
(* the top_k names goes to placement node i, in turn.                      *)
CacheDirectives(requests, percent, top_k, places, nodes) ==
    LET window == LearningWindow(requests, percent)
        popular == {requests[i].name : i \in window}
        rank(n) == Cardinality({m \in popular \ {n} : Outranks(requests, window, m, n)})
    IN [u \in nodes |->
          {n \in popular : rank(n) < top_k /\ u \in PlacedOn(rank(n), places)}]
=============================================================================
