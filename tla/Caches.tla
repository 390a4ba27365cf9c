------------------------------- MODULE Caches -------------------------------
(***************************************************************************)
(* The Content Stores of cache.py: LRU, FIFO, LFU, Random and the          *)
(* SDN-coordinated LRU, with admission threshold and TTL.  Each action is  *)
(* one outcome of get() or put(); which structures exist depends on the    *)
(* policy:                                                                 *)
(*    order        the OrderedDict of LRU, and FIFO's _q: who was put at   *)
(*                 the end, and when (a key is in it once: Bookkeeping)    *)
(*    freq, age    the dictionaries of LFU                                 *)
(*    inserted_at  with a TTL only                                         *)
(***************************************************************************)
EXTENDS Integers, FiniteSets, Sequences, SequencesExt

CONSTANTS
    Key,
    Settings,    \* records [policy, capacity, ttl_ms, admit_threshold, allowed]
    MaxCalls,    \* bound on the calls of one behaviour
    Horizon,     \* bound on the clock
    NoAnswer

Policies == {"lru", "fifo", "lfu", "random", "sdn-coordinated"}

(* Only the coordinated store knows directives.                            *)
ASSUME SettingsAssumption ==
    /\ Settings \subseteq [policy : Policies, capacity : Nat, ttl_ms : Nat,
                           admit_threshold : Nat \ {0}, allowed : SUBSET Key]
    /\ \A set \in Settings : set.policy # "sdn-coordinated" => set.allowed = {}
ASSUME KeyAssumption == IsFiniteSet(Key)

VARIABLES
    settings,
    data,         \* the keys of _data
    order, freq, age, inserted_at,
    tick,         \* LFU's _tick
    seen,         \* _seen, the admission counter
    stats,        \* CacheStats
    now,          \* now_ms, the caller's clock
    log           \* history: the calls made, and what came of them

index == <<data, order, freq, age, inserted_at>>
vars == <<settings, index, tick, seen, stats, now, log>>

Ordered == settings.policy \in {"lru", "fifo", "sdn-coordinated"}
Recency == settings.policy \in {"lru", "sdn-coordinated"}
Lfu == settings.policy = "lfu"

Empty == [k \in {} |-> 0]

Init ==
    /\ settings \in Settings
    /\ data = {} /\ order = {} /\ freq = Empty /\ age = Empty /\ inserted_at = Empty
    /\ tick = 0
    /\ seen = [k \in Key |-> 0]
    /\ stats = [hits |-> 0, misses |-> 0, evictions |-> 0, admissions_rejected |-> 0]
    /\ now = 0
    /\ log = <<>>

-----------------------------------------------------------------------------
(* The structures.                                                         *)

Calls == Len(log)

Called(op, k, did, gone) ==
    /\ Calls < MaxCalls
    /\ log' = Append(log, [op |-> op, key |-> k, did |-> did, gone |-> gone])

(* Mutant: an entry is still good at the very end of its TTL.              *)
ExpiredLate(k) ==
    settings.ttl_ms > 0 /\ k \in DOMAIN inserted_at /\ now - inserted_at[k] > settings.ttl_ms

Expired(k) ==
    settings.ttl_ms > 0 /\ k \in DOMAIN inserted_at /\ now - inserted_at[k] >= settings.ttl_ms

Unlinked(gone) == {e \in order : e.key \notin gone}

(* Mutant: expiry leaves the key in FIFO's queue.                          *)
StillQueued(k) == IF settings.policy = "fifo" THEN order ELSE Unlinked({k})

Unqueued(k) == Unlinked({k})

Linked(links, k) == links \cup {[key |-> k, at |-> Calls]}

Cut(f, gone) == [k \in DOMAIN f \ gone |-> f[k]]

Set(f, k, v) == [n \in DOMAIN f \cup {k} |-> IF n = k THEN v ELSE f[n]]

(* _touch_insert_time *)
Touched(times, k) == IF settings.ttl_ms > 0 THEN Set(times, k, now) ELSE times

(* A hit or an update: to the end of the order, or one more use.           *)
Used(k) ==
    /\ order' = IF Recency THEN Linked(Unlinked({k}), k) ELSE order
    /\ freq' = IF Lfu THEN [freq EXCEPT ![k] = @ + 1] ELSE freq
    /\ age' = IF Lfu THEN [age EXCEPT ![k] = tick + 1] ELSE age
    /\ UNCHANGED data

Ticked == IF Lfu THEN tick + 1 ELSE tick

Earliest == {e \in order : \A d \in order : e.at <= d.at}

LessUsed(k, j) == freq[k] < freq[j] \/ (freq[k] = freq[j] /\ age[k] <= age[j])

(* Mutant: LFU by count, ties by any.                                      *)
VictimsByCount ==
    IF Ordered THEN {e.key : e \in Earliest}
    ELSE IF Lfu THEN {k \in data : \A j \in data : freq[k] <= freq[j]}
    ELSE data

Victims ==
    IF Ordered THEN {e.key : e \in Earliest}
    ELSE IF Lfu THEN {k \in data : \A j \in data : LessUsed(k, j)}
    ELSE data

-----------------------------------------------------------------------------
(* get()                                                                   *)

Miss(k) ==
    /\ k \notin data
    /\ stats' = [stats EXCEPT !.misses = @ + 1]
    /\ Called("get", k, "missed", {})
    /\ UNCHANGED <<settings, index, tick, seen, now>>

Expire(k) ==
    /\ k \in data /\ Expired(k)
    /\ data' = data \ {k}
    /\ order' = Unqueued(k)
    /\ freq' = Cut(freq, {k}) /\ age' = Cut(age, {k})
    /\ inserted_at' = Cut(inserted_at, {k})
    /\ stats' = [stats EXCEPT !.misses = @ + 1]
    /\ Called("get", k, "expired", {})
    /\ UNCHANGED <<settings, tick, seen, now>>

Hit(k) ==
    /\ k \in data /\ ~Expired(k)
    /\ Used(k)
    /\ tick' = Ticked
    /\ stats' = [stats EXCEPT !.hits = @ + 1]
    /\ Called("get", k, "hit", {})
    /\ UNCHANGED <<settings, inserted_at, seen, now>>

-----------------------------------------------------------------------------
(* put()                                                                   *)

Barred(k) ==
    \/ settings.capacity = 0
    \/ /\ settings.policy = "sdn-coordinated"
       /\ settings.allowed # {} /\ k \notin settings.allowed

Bar(k) ==
    /\ Barred(k)
    /\ Called("put", k, "barred", {})
    /\ UNCHANGED <<settings, index, tick, seen, stats, now>>

Seen(k) == seen' = [seen EXCEPT ![k] = @ + 1]

CanAdmit(k) == seen[k] + 1 >= settings.admit_threshold

Reject(k) ==
    /\ ~Barred(k) /\ ~CanAdmit(k)
    /\ Seen(k)
    /\ stats' = [stats EXCEPT !.admissions_rejected = @ + 1]
    /\ Called("put", k, "rejected", {})
    /\ UNCHANGED <<settings, index, tick, now>>

Update(k) ==
    /\ ~Barred(k) /\ CanAdmit(k) /\ k \in data
    /\ Seen(k)
    /\ Used(k)
    /\ tick' = Ticked
    /\ inserted_at' = Touched(inserted_at, k)
    /\ Called("put", k, "updated", {})
    /\ UNCHANGED <<settings, stats, now>>

Full == Cardinality(data) >= settings.capacity

Store(k, gone) ==
    /\ data' = (data \ gone) \cup {k}
    /\ order' = IF Ordered THEN Linked(Unlinked(gone), k) ELSE order
    /\ freq' = IF Lfu THEN Set(Cut(freq, gone), k, 1) ELSE freq
    /\ age' = IF Lfu THEN Set(Cut(age, gone), k, tick + 1) ELSE age
    /\ inserted_at' = Touched(Cut(inserted_at, gone), k)

Insert(k) ==
    /\ ~Barred(k) /\ CanAdmit(k) /\ k \notin data
    /\ Seen(k)
    /\ tick' = Ticked
    /\ \E gone \in IF Full THEN {{v} : v \in Victims} ELSE {{}} :
          /\ Store(k, gone)
          /\ stats' = [stats EXCEPT !.evictions = @ + Cardinality(gone)]
          /\ Called("put", k, "inserted", gone)
    /\ UNCHANGED <<settings, now>>

-----------------------------------------------------------------------------
Elapse ==
    /\ now < Horizon
    /\ now' = now + 1
    /\ UNCHANGED <<settings, index, tick, seen, stats, log>>

Call(k) == Miss(k) \/ Expire(k) \/ Hit(k) \/ Bar(k) \/ Reject(k) \/ Update(k) \/ Insert(k)

Next == (\E k \in Key : Call(k)) \/ Elapse

Spec == Init /\ [][Next]_vars

-----------------------------------------------------------------------------
(* The structures of a policy agree: what is ordered, counted or dated is  *)
(* what is held, once; the store is within its capacity and its directive; *)
(* and no key waits behind itself or shares its place.                     *)
Bookkeeping ==
    /\ data \subseteq Key /\ Cardinality(data) <= settings.capacity
    /\ \A k \in data : ~Barred(k)
    /\ {e.key : e \in order} = IF Ordered THEN data ELSE {}
    /\ \A d, e \in order : (d.key = e.key \/ d.at = e.at) => d = e
    /\ DOMAIN freq = (IF Lfu THEN data ELSE {}) /\ DOMAIN age = DOMAIN freq
    /\ \A j, k \in DOMAIN age : age[j] = age[k] => j = k
    /\ DOMAIN inserted_at = IF settings.ttl_ms > 0 THEN data ELSE {}
    /\ \A k \in DOMAIN inserted_at : inserted_at[k] <= now

(* Who is evicted, judged by the calls that were made and not by what the  *)
(* policy noted of them: the key unused for longest (LRU), the one that    *)
(* came in first whatever was refreshed since (FIFO), the one least used   *)
(* since it came in and of these the one unused for longest (LFU).         *)
Uses(calls, k) ==
    LET entry == CHOOSE i \in DOMAIN calls :
                    /\ calls[i].key = k /\ calls[i].did = "inserted"
                    /\ \A j \in DOMAIN calls :
                          j > i => ~(calls[j].key = k /\ calls[j].did = "inserted")
    IN {i \in DOMAIN calls : i >= entry /\ calls[i].key = k
                             /\ calls[i].did \in {"inserted", "updated", "hit"}}

Latest(indices) == CHOOSE i \in indices : \A j \in indices : j <= i
First(indices) == CHOOSE i \in indices : \A j \in indices : i <= j

RightVictim(calls, v, k) ==
    LET a == Uses(calls, v)
        b == Uses(calls, k)
    IN CASE Recency -> Latest(a) <= Latest(b)
         [] settings.policy = "fifo" -> First(a) <= First(b)
         [] Lfu -> \/ Cardinality(a) < Cardinality(b)
                   \/ Cardinality(a) = Cardinality(b) /\ Latest(a) <= Latest(b)
         [] OTHER -> TRUE

(* A store evicts when it is full and only then, and the right key.        *)
VictimByPolicy ==
    (log # <<>> /\ Last(log).did = "inserted") =>
        LET before == (data \ {Last(log).key}) \cup Last(log).gone
        IN /\ Last(log).gone = {} <=> Cardinality(before) < settings.capacity
           /\ \A v \in Last(log).gone, k \in before : RightVictim(Front(log), v, k)

HeldSince == [k \in data |-> IF settings.ttl_ms > 0 THEN inserted_at[k] ELSE 0]

Returned ==
    IF log = <<>> \/ Last(log).op = "put" THEN NoAnswer
    ELSE [key |-> Last(log).key, hit |-> Last(log).did = "hit"]

Abstract == INSTANCE BoundedStore WITH held <- HeldSince, answer <- Returned

(* Every policy implements BoundedStore: whatever the order of calls and   *)
(* the passing of time, a lookup hits exactly the names inserted, not      *)
(* evicted and fresh, and nothing else changes what is held.               *)
ImplementsStore == Abstract!Init /\ [][Abstract!Next]_(Abstract!vars)
=============================================================================
