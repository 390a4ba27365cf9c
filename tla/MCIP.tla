-------------------------------- MODULE MCIP --------------------------------
(***************************************************************************)
(* The IP engine on a ring of four nodes: 0 and 3 ask, 2 produces.  Under  *)
(* central control one link is dear, so that the controller's trees are    *)
(* not those of the hop count.                                             *)
(***************************************************************************)
EXTENDS IPEngine, TLC

S == INSTANCE Scenarios

Ring == CHOOSE links \in S!MakeMesh(4, 0) : TRUE
RingNode == 0 .. 3
Two == [name \in Name |-> 2]
Ends == {0, 2, 3}

R == INSTANCE Routing WITH Node <- RingNode, Link <- Ring
NoEntry == R!EmptyRoutes

Delay == [l \in Ring |-> IF l = {0, 3} THEN 4 ELSE 1]
Tables == <<>> @@
    [f \in Forwarding |-> <<>> @@
        [up \in SUBSET Ring |-> <<>> @@
            IF f = "sdn-centralized" THEN R!ComputeRoutes(up, Ends, Delay)
                                     ELSE R!BuildRoutesDistributed(up, Ends)]]
IPRoutes == Tables

LossyLink == [propagation |-> 1, processing |-> 0, queue_limit |-> 1, lossy |-> TRUE]

IPWorkloads ==
    {list \in UNION {S!GenerateRequests(Name, 3, Ends, gap) : gap \in {0, 3}} :
        list[1].consumer = 0 /\ list[3].consumer = 3}

Toggles(links, times) == [at : times, link : links, up : BOOLEAN]
IPSchedules == UNION {[1 .. k -> Toggles({{0, 1}, {2, 3}}, {1, 4})] : k \in 0 .. 3}
=============================================================================
