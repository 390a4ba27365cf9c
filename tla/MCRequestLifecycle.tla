------------------------- MODULE MCRequestLifecycle -------------------------
(* Up to two requests, which may overlap in any way within two lifetimes.  *)
EXTENDS RequestLifecycle

MCSpecs == [consumer : Consumer, name : Name, start_ms : 0 .. 4]
MCWorkloads == UNION {[1 .. k -> MCSpecs] : k \in 1 .. 2}
=============================================================================
