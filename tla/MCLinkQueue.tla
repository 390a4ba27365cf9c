---------------------------- MODULE MCLinkQueue ----------------------------
(***************************************************************************)
(* A lossy link for two packets, Data three times the size of an Interest  *)
(* and charged two ticks of verification.                                  *)
(***************************************************************************)
EXTENDS LinkQueue

MCClass == {"interest", "data"}
MCService == [c \in MCClass |-> IF c = "data" THEN 3 ELSE 1]
MCExtra == [c \in MCClass |-> IF c = "data" THEN 3 ELSE 1]
MCLink == [propagation |-> 2, processing |-> 0, queue_limit |-> 2, lossy |-> TRUE]
=============================================================================
