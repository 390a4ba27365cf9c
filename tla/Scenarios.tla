----------------------------- MODULE Scenarios -----------------------------
(***************************************************************************)
(* What an experiment can be: the topologies, request lists, failures and  *)
(* roles of nodes the program generates.  A topology is its set of links   *)
(* over the nodes 0 .. n-1; random draws are sets of what can be drawn.    *)
(***************************************************************************)
LOCAL INSTANCE Integers
LOCAL INSTANCE FiniteSets
LOCAL INSTANCE Sequences
LOCAL INSTANCE SequencesExt
LOCAL INSTANCE FiniteSetsExt

MakeLine(n) == {{i, i + 1} : i \in 0 .. n - 2}

MakeTree(n, branching) ==
    {{(child - 1) \div Max({branching, 1}), child} : child \in 1 .. n - 1}

(* A ring, and extra_edges other links picked by the shuffle.              *)
MakeMesh(n, extra_edges) ==
    LET ring == MakeLine(n) \cup {{n - 1, 0}}
        candidates == kSubset(2, 0 .. n - 1) \ ring
        extra == Max({0, Min({extra_edges, Cardinality(candidates)})})
    IN {ring \cup more : more \in kSubset(extra, candidates)}

(* The link that fails, and the recovery if there is one.                  *)
ParseFailures(edge, fail, recover) ==
    <<[at |-> fail, link |-> edge, up |-> FALSE]>>
      \o IF recover > fail THEN <<[at |-> recover, link |-> edge, up |-> TRUE]>> ELSE <<>>

(* Consumers are the first nodes, but as many as there are prefixes stay   *)
(* free for the producers; on a small network no consumer may be left.     *)
Consumers(n, prefixes, consumer_count) == 0 .. Min({consumer_count, n - prefixes}) - 1

Producers(n, prefixes, consumers) ==
    LET candidates == SetToSortSeq((0 .. n - 1) \ consumers, LAMBDA a, b : a < b)
    IN [i \in 1 .. prefixes |-> candidates[((i - 1) % Len(candidates)) + 1]]

(* Any consumer may ask for any name at any turn, at a fixed rate.  (Of    *)
(* the workloads `shifted' draws some of these lists only.)                *)
GenerateRequests(names, requests, consumers, iat) ==
    {[i \in 1 .. requests |-> [consumer |-> who[i], name |-> what[i], start_ms |-> (i - 1) * iat]] :
        who \in [1 .. requests -> consumers], what \in [1 .. requests -> names]}
=============================================================================
