---------------------------- MODULE ContentStore ----------------------------
(***************************************************************************)
(* What a lookup and an insertion do to a node's Content Store, whatever   *)
(* its policy: the part the five policies of cache.py have in common.      *)
(*                                                                         *)
(* A store `held' is a function from the names it holds to the time they   *)
(* were inserted or refreshed.  Its settings are a record                  *)
(*    [capacity, ttl_ms, admit_threshold, allowed]                         *)
(* in which ttl_ms = 0 stands for no TTL and allowed = {} for no directive.*)
(* The victim of an eviction is left open, and so is the refusal of a name *)
(* that has not been offered often enough.                                 *)
(***************************************************************************)
EXTENDS Integers, FiniteSets

NoNames == [k \in {} |-> 0]

Outdated(set, since, now) == set.ttl_ms > 0 /\ now - since >= set.ttl_ms

Dropped(held, k) == [n \in DOMAIN held \ {k} |-> held[n]]

(* get(): an expired entry is removed by the lookup that finds it.         *)
Lookup(set, held, k, now) ==
    IF k \notin DOMAIN held THEN [hit |-> FALSE, held |-> held]
    ELSE IF Outdated(set, held[k], now) THEN [hit |-> FALSE, held |-> Dropped(held, k)]
    ELSE [hit |-> TRUE, held |-> held]

(* The time kept for an entry; without a TTL none is.                      *)
Stamp(set, now) == IF set.ttl_ms > 0 THEN now ELSE 0

Storing(set, held, k, now) ==
    [n \in DOMAIN held \cup {k} |-> IF n = k THEN Stamp(set, now) ELSE held[n]]

(* Mutant: no eviction.                                                    *)
NeverEvicted(set, held) == {held}

Evicted(set, held) ==
    IF Cardinality(DOMAIN held) >= set.capacity
      THEN {Dropped(held, victim) : victim \in DOMAIN held}
      ELSE {held}

Directed(set, k) == set.allowed = {} \/ k \in set.allowed

(* put(): the stores that can result.  A full store makes room without a   *)
(* look at what has expired.                                               *)
Stores(set, held, k, now) ==
    (IF set.capacity = 0 \/ ~Directed(set, k) \/ set.admit_threshold > 1 THEN {held} ELSE {})
      \cup
    (IF set.capacity = 0 \/ ~Directed(set, k) THEN {}
     ELSE {Storing(set, rest, k, now) :
             rest \in IF k \in DOMAIN held THEN {held} ELSE Evicted(set, held)})
=============================================================================
