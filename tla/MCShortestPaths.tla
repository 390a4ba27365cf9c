-------------------------- MODULE MCShortestPaths --------------------------
(***************************************************************************)
(* ShortestPaths on a ring of four nodes with a chord, every subset of it  *)
(* active, a zero, a cheap or a dear delay on each link.  The four pairs   *)
(* make every node a destination and put the chord at, near and away from  *)
(* the node that looks its next hop up.                                    *)
(***************************************************************************)
EXTENDS ShortestPaths

S == INSTANCE Scenarios

MCNode == 0 .. 3
MCLink == CHOOSE links \in S!MakeMesh(4, 1) : {0, 2} \in links
MCDelays == {0, 1, 3}
MCPairs == {<<0, 3>>, <<1, 2>>, <<3, 1>>, <<2, 0>>}
=============================================================================
