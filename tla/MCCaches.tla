------------------------------ MODULE MCCaches ------------------------------
(***************************************************************************)
(* Every policy with and without a TTL and an admission threshold, on more *)
(* names than fit; directives for the coordinated one.                     *)
(***************************************************************************)
EXTENDS Caches, TLC

With(policy, capacity, ttl, threshold, allowed) ==
    [policy |-> policy, capacity |-> capacity, ttl_ms |-> ttl,
     admit_threshold |-> threshold, allowed |-> allowed]

MCSettings ==
    {With(p, 2, ttl, 1, {}) : p \in Policies, ttl \in {0, 2}}
      \cup {With(p, 1, 2, 2, {}) : p \in Policies}
      \cup {With("sdn-coordinated", 2, 0, 1, names) : names \in SUBSET Key}
      \cup {With("lru", 0, 2, 1, {})}

KeySymmetry == Permutations(Key)
=============================================================================
