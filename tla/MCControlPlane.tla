-------------------------- MODULE MCControlPlane ---------------------------
(***************************************************************************)
(* ControlPlane with the real route computation: a ring of four nodes with *)
(* one dear link, one destination.  Link {0, 1} is on the route of nodes   *)
(* 1 and 2, link {0, 3} is the dear way round, link {2, 3} carries node 3. *)
(***************************************************************************)
EXTENDS ControlPlane, TLC

S == INSTANCE Scenarios

MCNode == 0 .. 3
MCLink == CHOOSE links \in S!MakeMesh(4, 0) : TRUE
MCDelay == [l \in MCLink |-> IF l = {0, 3} THEN 4 ELSE 1]

R == INSTANCE Routing WITH Node <- MCNode, Link <- MCLink
EmptyRoutes == R!EmptyRoutes

MCTable == {R!EmptyRoutes} \cup [{0} -> MCNode]

(* TLC computes a constant definition once, but not one it puts in the    *)
(* place of a CONSTANT: hence two names.                                   *)
Tables == <<>> @@
    [f \in Forwarding |-> <<>> @@
        [up \in SUBSET MCLink |-> <<>> @@
            IF f = "sdn-centralized" THEN R!ComputeRoutes(up, {0}, MCDelay)
                                     ELSE R!BuildRoutesDistributed(up, {0})]]
MCRoutes == Tables

Toggles(links, times) == [at : times, link : links, up : BOOLEAN]

(* The failure lists of the engines' callers: any toggles, in any order.   *)
MCSchedules ==
    UNION {[1 .. k -> Toggles({{0, 1}, {0, 3}}, {1, 2, 4})] : k \in 0 .. 3}
=============================================================================
