---------------------------- MODULE BoundedStore ----------------------------
(***************************************************************************)
(* What a cache promises, without its policy: what is held is bounded and  *)
(* directed, a lookup hits exactly what is held and fresh, and nothing     *)
(* appears or disappears but by a lookup of an expired name, an insertion  *)
(* or the eviction that makes room for one.                                *)
(***************************************************************************)
EXTENDS ContentStore

CONSTANTS Key, Settings, NoAnswer

VARIABLES
    settings,   \* capacity, ttl_ms, admit_threshold, allowed
    held,       \* [names held -> when they were inserted or refreshed]
    now,
    answer      \* what the last call returned, if it was a lookup

vars == <<settings, held, now, answer>>

Init ==
    /\ settings \in Settings
    /\ held = NoNames
    /\ now = 0
    /\ answer = NoAnswer

Get(k) ==
    LET found == Lookup(settings, held, k, now)
    IN /\ held' = found.held
       /\ answer' = [key |-> k, hit |-> found.hit]
       /\ UNCHANGED <<settings, now>>

Put(k) ==
    /\ held' \in Stores(settings, held, k, now)
    /\ answer' = NoAnswer
    /\ UNCHANGED <<settings, now>>

Elapse ==
    /\ now' > now
    /\ UNCHANGED <<settings, held, answer>>

Next == (\E k \in Key : Get(k) \/ Put(k)) \/ Elapse

Spec == Init /\ [][Next]_vars
=============================================================================
