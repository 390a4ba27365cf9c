---------------------------- MODULE CachesProofs ----------------------------
(***************************************************************************)
(* Theorems about module Caches, for any settings, keys and calls.         *)
(*                                                                         *)
(* Bookkeeping is not inductive: that no two keys share a place needs that *)
(* places are taken from counters (the number of calls, LFU's tick) that   *)
(* are beyond every place given so far.  Inv says that, one part for each  *)
(* structure.  VictimByPolicy needs besides that places, counts and ticks  *)
(* are what the log of the calls says: Remembered, at the end.             *)
(***************************************************************************)
EXTENDS Caches, FiniteSetTheorems, SequenceTheorems, TLAPS

CallRecord ==
    [op : {"get", "put"}, key : Key,
     did : {"missed", "expired", "hit", "barred", "rejected", "updated", "inserted"},
     gone : SUBSET Key]

Held ==
    /\ settings \in Settings
    /\ data \subseteq Key /\ Cardinality(data) <= settings.capacity
    /\ \A k \in data : ~Barred(k)
    /\ log \in Seq(CallRecord)

Queued ==
    /\ order \subseteq [key : Key, at : Nat]
    /\ \A e \in order : e.at < Calls
    /\ {e.key : e \in order} = IF Ordered THEN data ELSE {}
    /\ \A d, e \in order : (d.key = e.key \/ d.at = e.at) => d = e

Counted ==
    /\ tick \in Nat
    /\ DOMAIN freq = IF Lfu THEN data ELSE {}
    /\ DOMAIN age = DOMAIN freq
    /\ \A k \in DOMAIN age : age[k] \in Nat /\ age[k] <= tick
    /\ \A j, k \in DOMAIN age : age[j] = age[k] => j = k

Dated ==
    /\ now \in Nat
    /\ DOMAIN inserted_at = IF settings.ttl_ms > 0 THEN data ELSE {}
    /\ \A k \in DOMAIN inserted_at : inserted_at[k] \in Nat /\ inserted_at[k] <= now

Offered == seen \in [Key -> Nat]

Inv == Held /\ Queued /\ Counted /\ Dated /\ Offered

-----------------------------------------------------------------------------
LEMMA SettingsTyped ==
    ASSUME settings \in Settings
    PROVE  /\ settings.capacity \in Nat /\ settings.ttl_ms \in Nat
           /\ settings.admit_threshold \in Nat \ {0}
           /\ settings.policy # "sdn-coordinated" => settings.allowed = {}
BY SettingsAssumption

LEMMA CallLogged ==
    ASSUME Held, NEW k \in Key, NEW op \in {"get", "put"}, NEW gone \in SUBSET Key,
           NEW did \in {"missed", "expired", "hit", "barred", "rejected", "updated", "inserted"},
           Called(op, k, did, gone)
    PROVE  /\ log' \in Seq(CallRecord)
           /\ Calls' = Calls + 1 /\ Calls \in Nat
           /\ log'[Calls'] = [op |-> op, key |-> k, did |-> did, gone |-> gone]
BY DEF Held, Called, Calls, CallRecord

LEMMA VictimsHeld == ASSUME Inv PROVE Victims \subseteq data
BY DEF Inv, Queued, Victims, Earliest

(* What an insertion does to the set of keys.                              *)
LEMMA InsertFits ==
    ASSUME Held, NEW k \in Key, k \notin data, settings.capacity # 0,
           NEW gone \in SUBSET data, Full => Cardinality(gone) = 1
    PROVE  /\ (data \ gone) \cup {k} \subseteq Key
           /\ Cardinality((data \ gone) \cup {k}) <= settings.capacity
<1>1. settings.capacity \in Nat
  BY SettingsTyped DEF Held
<1>2. IsFiniteSet(data) /\ IsFiniteSet(gone)
  BY KeyAssumption, FS_Subset DEF Held
<1>3. IsFiniteSet(data \ gone) /\ Cardinality(data \ gone) = Cardinality(data) - Cardinality(gone)
  <2>1. data \cap gone = gone
    OBVIOUS
  <2> QED
    BY <1>2, <2>1, FS_Difference
<1>4. Cardinality((data \ gone) \cup {k}) = Cardinality(data \ gone) + 1
  BY <1>3, FS_AddElement
<1>5. Cardinality(data) \in Nat /\ Cardinality(gone) \in Nat
  BY <1>2, FS_CardinalityType
<1> QED
  BY <1>1, <1>3, <1>4, <1>5 DEF Held, Full

LEMMA HeldKept == ASSUME Inv, NEW k \in Key, Call(k) PROVE Held'
<1>1. CASE Miss(k)
  BY <1>1, CallLogged DEF Miss, index, Inv, Held, Barred
<1>2. CASE Expire(k)
  <2>1. IsFiniteSet(data) /\ Cardinality(data \ {k}) <= settings.capacity
    BY <1>2, KeyAssumption, SettingsTyped, FS_Subset, FS_RemoveElement, FS_CardinalityType
       DEF Inv, Held, Expire
  <2> QED
    BY <1>2, <2>1, CallLogged DEF Expire, Inv, Held, Barred
<1>3. CASE Hit(k)
  BY <1>3, CallLogged DEF Hit, Used, Inv, Held, Barred
<1>4. CASE Bar(k)
  BY <1>4, CallLogged DEF Bar, index, Inv, Held, Barred
<1>5. CASE Reject(k)
  BY <1>5, CallLogged DEF Reject, index, Inv, Held, Barred
<1>6. CASE Update(k)
  BY <1>6, CallLogged DEF Update, Used, Inv, Held, Barred
<1>7. CASE Insert(k)
  <2>1. PICK gone \in IF Full THEN {{v} : v \in Victims} ELSE {{}} :
           Store(k, gone) /\ Called("put", k, "inserted", gone)
    BY <1>7 DEF Insert
  <2>2. gone \in SUBSET data /\ (Full => Cardinality(gone) = 1)
    BY <2>1, VictimsHeld, FS_Singleton
  <2>3. gone \in SUBSET Key /\ settings.capacity # 0 /\ k \notin data /\ settings' = settings
    BY <1>7, <2>2 DEF Insert, Barred, Inv, Held
  <2>4. /\ (data \ gone) \cup {k} \subseteq Key
        /\ Cardinality((data \ gone) \cup {k}) <= settings.capacity
    BY <2>2, <2>3, InsertFits DEF Inv
  <2>5. \A n \in data' : ~Barred(n)'
    BY <1>7, <2>1, <2>3 DEF Insert, Store, Barred, Inv, Held
  <2> QED
    BY <2>1, <2>3, <2>4, <2>5, CallLogged DEF Inv, Held, Store
<1> QED
  BY <1>1, <1>2, <1>3, <1>4, <1>5, <1>6, <1>7 DEF Call

(* Moving or adding a key to the end of an order keeps it one.             *)
LEMMA LinkedQueue ==
    ASSUME Queued, Calls \in Nat, NEW k \in Key, NEW gone,
           k \in gone \/ k \notin {e.key : e \in order}
    PROVE  LET links == Linked(Unlinked(gone), k)
           IN /\ links \subseteq [key : Key, at : Nat]
              /\ \A e \in links : e.at < Calls + 1
              /\ {e.key : e \in links} = ({e.key : e \in order} \ gone) \cup {k}
              /\ \A d, e \in links : (d.key = e.key \/ d.at = e.at) => d = e
<1> DEFINE new == [key |-> k, at |-> Calls]
           links == Linked(Unlinked(gone), k)
<1>1. links = Unlinked(gone) \cup {new}
  BY DEF Linked
<1>2. /\ Unlinked(gone) \subseteq order
      /\ \A e \in Unlinked(gone) : e.key # k /\ e.at < Calls /\ e.at \in Nat
      /\ {e.key : e \in Unlinked(gone)} = {e.key : e \in order} \ gone
  BY DEF Unlinked, Queued
<1>3. new \in [key : Key, at : Nat] /\ new.key = k /\ new.at = Calls
  OBVIOUS
<1> HIDE DEF new, links
<1>4. links \subseteq [key : Key, at : Nat] /\ \A e \in links : e.at < Calls + 1
  BY <1>1, <1>2, <1>3 DEF Queued
<1>5. {e.key : e \in links} = ({e.key : e \in order} \ gone) \cup {k}
  BY <1>1, <1>2, <1>3
<1>6. ASSUME NEW d \in links, NEW e \in links, d.key = e.key \/ d.at = e.at PROVE d = e
  BY <1>1, <1>2, <1>3, <1>6 DEF Queued
<1> QED
  BY <1>4, <1>5, <1>6 DEF links

(* Removing keys keeps it one.                                             *)
LEMMA UnlinkedQueue ==
    ASSUME Queued, Calls \in Nat, NEW gone
    PROVE  /\ Unlinked(gone) \subseteq order
           /\ \A e \in Unlinked(gone) : e.at < Calls + 1
           /\ {e.key : e \in Unlinked(gone)} = {e.key : e \in order} \ gone
BY DEF Unlinked, Queued

LEMMA SameQueue ==
    ASSUME Inv, Calls \in Nat, Calls' = Calls + 1,
           UNCHANGED <<settings, order>>, Ordered => data' = data
    PROVE  Queued'
BY DEF Inv, Queued, Ordered

LEMMA QueuedKept == ASSUME Inv, NEW k \in Key, Call(k) PROVE Queued'
<1>1. Calls \in Nat /\ Calls' = Calls + 1 /\ settings' = settings
  <2>1. Calls \in Nat
    BY DEF Inv, Held, Calls
  <2>2. \E op, did, gone : Called(op, k, did, gone)
    BY DEF Call, Miss, Expire, Hit, Bar, Reject, Update, Insert
  <2>3. Calls' = Calls + 1
    BY <2>2 DEF Called, Calls, Inv, Held
  <2>4. settings' = settings
    BY DEF Call, Miss, Expire, Hit, Bar, Reject, Update, Insert
  <2> QED
    BY <2>1, <2>3, <2>4
<1>2. CASE Miss(k) \/ Bar(k) \/ Reject(k)
  BY <1>1, <1>2, SameQueue DEF Miss, Bar, Reject, index
<1>3. CASE Expire(k)
  <2>1. order' = Unlinked({k}) /\ data' = data \ {k}
    BY <1>3 DEF Expire, Unqueued
  <2> QED
    BY <1>1, <2>1, UnlinkedQueue DEF Inv, Queued, Ordered
<1>4. CASE (Hit(k) \/ Update(k)) /\ ~Recency
  BY <1>1, <1>4, SameQueue DEF Hit, Update, Used
<1>5. CASE (Hit(k) \/ Update(k)) /\ Recency
  <2>1. order' = Linked(Unlinked({k}), k) /\ data' = data /\ k \in data
    BY <1>5 DEF Hit, Update, Used
  <2>2. Ordered /\ Ordered'
    BY <1>1, <1>5 DEF Ordered, Recency
  <2>3. {e.key : e \in order'} = ({e.key : e \in order} \ {k}) \cup {k}
    BY <1>1, <2>1, LinkedQueue DEF Inv
  <2>4. {e.key : e \in order'} = data'
    BY <2>1, <2>2, <2>3 DEF Inv, Queued
  <2>5. /\ order' \subseteq [key : Key, at : Nat]
        /\ \A e \in order' : e.at < Calls + 1
        /\ \A d, e \in order' : (d.key = e.key \/ d.at = e.at) => d = e
    BY <1>1, <2>1, LinkedQueue DEF Inv
  <2> QED
    BY <1>1, <2>2, <2>4, <2>5 DEF Queued
<1>6. CASE Insert(k)
  <2>1. PICK gone : Store(k, gone) /\ k \notin data
    BY <1>6 DEF Insert
  <2>2. CASE ~Ordered
    BY <1>1, <2>1, <2>2, SameQueue DEF Store
  <2>3. CASE Ordered
    BY <1>1, <2>1, <2>3, LinkedQueue DEF Store, Inv, Queued, Ordered
  <2> QED
    BY <2>2, <2>3
<1> QED
  BY <1>2, <1>3, <1>4, <1>5, <1>6 DEF Call

-----------------------------------------------------------------------------
LEMMA SameCounts ==
    ASSUME Inv, UNCHANGED <<settings, freq, age, tick>>, Lfu => data' = data
    PROVE  Counted'
BY DEF Inv, Counted, Lfu

(* A key counted at the next tick does not share it.                       *)
LEMMA CountedKept == ASSUME Inv, NEW k \in Key, Call(k) PROVE Counted'
<1>1. settings' = settings
  BY DEF Call, Miss, Expire, Hit, Bar, Reject, Update, Insert
<1>2. CASE Miss(k) \/ Bar(k) \/ Reject(k)
  BY <1>1, <1>2, SameCounts DEF Miss, Bar, Reject, index
<1>3. CASE Expire(k)
  <2>1. /\ data' = data \ {k} /\ tick' = tick
        /\ freq' = Cut(freq, {k}) /\ age' = Cut(age, {k})
    BY <1>3 DEF Expire
  <2> QED
    BY <1>1, <2>1 DEF Inv, Counted, Lfu, Cut
<1>4. CASE Hit(k) \/ Update(k)
  <2>1. k \in data /\ Used(k) /\ tick' = Ticked
    BY <1>4 DEF Hit, Update
  <2>2. CASE ~Lfu
    BY <1>1, <2>1, <2>2, SameCounts DEF Used, Ticked
  <2>3. CASE Lfu
    BY <1>1, <2>1, <2>3 DEF Used, Ticked, Inv, Counted, Lfu
  <2> QED
    BY <2>2, <2>3
<1>5. CASE Insert(k)
  <2>1. PICK gone : Store(k, gone) /\ k \notin data /\ tick' = Ticked
    BY <1>5 DEF Insert
  <2>2. CASE ~Lfu
    BY <1>1, <2>1, <2>2, SameCounts DEF Store, Ticked
  <2>3. CASE Lfu
    BY <1>1, <2>1, <2>3 DEF Store, Ticked, Inv, Counted, Lfu, Cut, Set
  <2> QED
    BY <2>2, <2>3
<1> QED
  BY <1>2, <1>3, <1>4, <1>5 DEF Call

-----------------------------------------------------------------------------
(* An entry that is put is dated now.                                      *)
LEMMA TouchedDates ==
    ASSUME NEW times, NEW k, now \in Nat, settings.ttl_ms > 0,
           \A n \in DOMAIN times : times[n] \in Nat /\ times[n] <= now
    PROVE  /\ DOMAIN Touched(times, k) = DOMAIN times \cup {k}
           /\ \A n \in DOMAIN Touched(times, k) :
                 Touched(times, k)[n] \in Nat /\ Touched(times, k)[n] <= now
BY DEF Touched, Set

LEMMA DatedKept == ASSUME Inv, NEW k \in Key, Call(k) PROVE Dated'
<1>1. settings' = settings /\ now' = now
  BY DEF Call, Miss, Expire, Hit, Bar, Reject, Update, Insert
<1>2. CASE Miss(k) \/ Bar(k) \/ Reject(k) \/ Hit(k)
  BY <1>1, <1>2 DEF Miss, Bar, Reject, Hit, Used, index, Inv, Dated
<1>3. CASE Expire(k)
  BY <1>1, <1>3 DEF Expire, Cut, Inv, Dated
<1>4. CASE (Update(k) \/ Insert(k)) /\ settings.ttl_ms > 0
  <2>1. CASE Update(k)
    <3>1. data' = data /\ k \in data /\ inserted_at' = Touched(inserted_at, k)
      BY <2>1 DEF Update, Used
    <3> QED
      BY <1>1, <1>4, <3>1, TouchedDates DEF Inv, Dated
  <2>2. CASE Insert(k)
    <3>1. PICK gone : Store(k, gone)
      BY <2>2 DEF Insert
    <3> DEFINE kept == Cut(inserted_at, gone)
    <3>2. /\ DOMAIN kept = data \ gone
          /\ \A n \in DOMAIN kept : kept[n] \in Nat /\ kept[n] <= now
      BY <1>4 DEF Inv, Dated, Cut
    <3>3. data' = (data \ gone) \cup {k} /\ inserted_at' = Touched(kept, k)
      BY <3>1 DEF Store
    <3> HIDE DEF kept
    <3> QED
      BY <1>1, <1>4, <3>2, <3>3, TouchedDates DEF Inv, Dated
  <2> QED
    BY <1>4, <2>1, <2>2
<1>5. CASE (Update(k) \/ Insert(k)) /\ ~(settings.ttl_ms > 0)
  <2>1. inserted_at' = inserted_at \/ \E gone : inserted_at' = Cut(inserted_at, gone)
    BY <1>5 DEF Update, Insert, Store, Touched
  <2> QED
    BY <1>1, <1>5, <2>1 DEF Inv, Dated, Cut
<1> QED
  BY <1>2, <1>3, <1>4, <1>5 DEF Call

LEMMA OfferedKept == ASSUME Inv, NEW k \in Key, Call(k) PROVE Offered'
BY DEF Call, Miss, Expire, Hit, Bar, Reject, Update, Insert, Seen, Inv, Offered

-----------------------------------------------------------------------------
LEMMA InitInv == Init => Inv
<1> SUFFICES ASSUME Init PROVE Inv
  OBVIOUS
<1>1. Held
  BY SettingsTyped, FS_EmptySet DEF Init, Held
<1>2. Queued
  BY DEF Init, Queued, Calls
<1>3. Counted
  BY DEF Init, Counted, Empty
<1>4. Dated /\ Offered
  BY DEF Init, Dated, Offered, Empty
<1> QED
  BY <1>1, <1>2, <1>3, <1>4 DEF Inv

LEMMA NextInv == Inv /\ [Next]_vars => Inv'
<1> SUFFICES ASSUME Inv, [Next]_vars PROVE Inv'
  OBVIOUS
<1>1. CASE \E k \in Key : Call(k)
  BY <1>1, HeldKept, QueuedKept, CountedKept, DatedKept, OfferedKept DEF Inv
<1>2. CASE Elapse
  BY <1>2 DEF Elapse, index, Inv, Held, Queued, Counted, Dated, Offered, Barred, Ordered, Lfu, Calls
<1>3. CASE UNCHANGED vars
  BY <1>3 DEF vars, index, Inv, Held, Queued, Counted, Dated, Offered, Barred, Ordered, Lfu, Calls
<1> QED
  BY <1>1, <1>2, <1>3 DEF Next

THEOREM InvIsInvariant == Spec => []Inv
BY InitInv, NextInv, PTL DEF Spec

(* Bookkeeping: whatever the calls, the clock and the policy, the          *)
(* dictionary, the queue, the counters and the times of a cache of         *)
(* cache.py name the same keys, within capacity and directive.             *)
THEOREM StructuresAgree == Spec => []Bookkeeping
<1>1. Inv => Bookkeeping
  BY DEF Inv, Held, Queued, Counted, Dated, Bookkeeping
<1> QED
  BY <1>1, InvIsInvariant, PTL

-----------------------------------------------------------------------------
(* Every policy is a BoundedStore.                                         *)

LEMMA ReturnLogged ==
    ASSUME Held, NEW k \in Key, NEW op \in {"get", "put"}, NEW gone \in SUBSET Key,
           NEW did \in {"missed", "expired", "hit", "barred", "rejected", "updated", "inserted"},
           Called(op, k, did, gone)
    PROVE  Returned' = IF op = "put" THEN NoAnswer ELSE [key |-> k, hit |-> did = "hit"]
<1>1. /\ log' # <<>>
      /\ log'[Len(log')] = [op |-> op, key |-> k, did |-> did, gone |-> gone]
  BY DEF Called, Held
<1>2. Last(log)' = [op |-> op, key |-> k, did |-> did, gone |-> gone]
  BY <1>1 DEF Last
<1>3. Last(log)'.op = op /\ Last(log)'.key = k /\ Last(log)'.did = did
  BY <1>2
<1> QED
  BY <1>1, <1>3 DEF Returned

(* The abstract store counts as this one does.                             *)
LEMMA SameCardinality == \A S : Abstract!Cardinality(S) = Cardinality(S)
BY DEF Abstract!Cardinality, Cardinality

LEMMA SameHeld ==
    ASSUME UNCHANGED <<settings, data, inserted_at>> PROVE HeldSince' = HeldSince
BY DEF HeldSince

LEMMA ExpiredIsOutdated ==
    ASSUME Inv, NEW k \in data
    PROVE  Expired(k) <=> Abstract!Outdated(settings, HeldSince[k], now)
BY DEF Inv, Dated, Expired, Abstract!Outdated, HeldSince

(* get() is the abstract Get.                                              *)
LEMMA GetRefines ==
    ASSUME Inv, NEW k \in Key, Miss(k) \/ Expire(k) \/ Hit(k)
    PROVE  Abstract!Get(k)
<1>1. DOMAIN HeldSince = data /\ settings' = settings /\ now' = now
  BY DEF HeldSince, Miss, Expire, Hit
<1>2. CASE Miss(k)
  <2>1. HeldSince' = HeldSince /\ Returned' = [key |-> k, hit |-> FALSE] /\ k \notin data
    BY <1>2, SameHeld, ReturnLogged DEF Miss, index, Inv
  <2> QED
    BY <1>1, <2>1 DEF Abstract!Get, Abstract!Lookup
<1>3. CASE Expire(k)
  <2>1. k \in data /\ Expired(k) /\ Returned' = [key |-> k, hit |-> FALSE]
    BY <1>3, ReturnLogged DEF Expire, Inv
  <2>2. HeldSince' = Abstract!Dropped(HeldSince, k)
    BY <1>3 DEF Expire, Cut, HeldSince, Abstract!Dropped, Inv, Dated
  <2> QED
    BY <1>1, <2>1, <2>2, ExpiredIsOutdated DEF Abstract!Get, Abstract!Lookup
<1>4. CASE Hit(k)
  <2>1. k \in data /\ ~Expired(k) /\ Returned' = [key |-> k, hit |-> TRUE]
    BY <1>4, ReturnLogged DEF Hit, Inv
  <2>2. HeldSince' = HeldSince
    BY <1>4, SameHeld DEF Hit, Used
  <2> QED
    BY <1>1, <2>1, <2>2, ExpiredIsOutdated DEF Abstract!Get, Abstract!Lookup
<1> QED
  BY <1>2, <1>3, <1>4

(* put() is the abstract Put: nothing, an update, or an insertion after an *)
(* eviction if the store is full.                                          *)
LEMMA PutRefines ==
    ASSUME Inv, NEW k \in Key, Bar(k) \/ Reject(k) \/ Update(k) \/ Insert(k)
    PROVE  Abstract!Put(k)
<1>1. /\ DOMAIN HeldSince = data /\ UNCHANGED <<settings, now>> /\ Returned' = NoAnswer
  <2>1. UNCHANGED <<settings, now>> /\ DOMAIN HeldSince = data
    BY DEF HeldSince, Bar, Reject, Update, Insert
  <2>2. CASE Bar(k) \/ Reject(k) \/ Update(k)
    BY <2>1, <2>2, ReturnLogged DEF Bar, Reject, Update, Inv
  <2>3. CASE Insert(k)
    <3>1. PICK gone \in IF Full THEN {{v} : v \in Victims} ELSE {{}} :
             Called("put", k, "inserted", gone)
      BY <2>3 DEF Insert
    <3>2. gone \in SUBSET Key
      BY <3>1, VictimsHeld DEF Inv, Held
    <3> QED
      BY <2>1, <3>1, <3>2, ReturnLogged DEF Inv
  <2> QED
    BY <2>1, <2>2, <2>3
<1>2. SUFFICES HeldSince' \in Abstract!Stores(settings, HeldSince, k, now)
  BY <1>1 DEF Abstract!Put
<1>3. settings \in Settings
  BY DEF Inv, Held
<1>4. CASE Bar(k) \/ Reject(k)
  <2>1. HeldSince' = HeldSince
    BY <1>4, SameHeld DEF Bar, Reject, index
  <2>2. CASE Bar(k)
    BY <2>1, <2>2 DEF Bar, Barred, Abstract!Stores, Abstract!Directed
  <2>3. CASE Reject(k)
    <3>1. settings.admit_threshold > 1
      BY <2>3, <1>3, SettingsTyped DEF Reject, CanAdmit, Inv, Offered
    <3> QED
      BY <2>1, <3>1 DEF Abstract!Stores
  <2> QED
    BY <1>4, <2>2, <2>3
<1>5. ASSUME ~Barred(k) PROVE settings.capacity # 0 /\ Abstract!Directed(settings, k)
  BY <1>3, <1>5, SettingsTyped DEF Barred, Abstract!Directed
<1>6. CASE Update(k)
  <2>1. k \in data /\ data' = data /\ ~Barred(k) /\ inserted_at' = Touched(inserted_at, k)
    BY <1>6 DEF Update, Used
  <2>2. HeldSince' = Abstract!Storing(settings, HeldSince, k, now)
    BY <1>1, <2>1 DEF HeldSince, Touched, Set, Abstract!Storing, Abstract!Stamp, Inv, Dated
  <2> QED
    BY <1>1, <1>5, <2>1, <2>2 DEF Abstract!Stores
<1>7. CASE Insert(k)
  <2>1. PICK gone \in IF Full THEN {{v} : v \in Victims} ELSE {{}} : Store(k, gone)
    BY <1>7 DEF Insert
  <2> DEFINE rest == [n \in data \ gone |-> HeldSince[n]]
  <2>2. rest \in Abstract!Evicted(settings, HeldSince)
    <3>1. CASE Full
      <4>1. PICK v \in data : gone = {v}
        BY <2>1, <3>1, VictimsHeld
      <4>2. rest = Abstract!Dropped(HeldSince, v)
        BY <1>1, <4>1 DEF Abstract!Dropped
      <4> QED
        BY <1>1, <3>1, <4>2, SameCardinality DEF Full, Abstract!Evicted
    <3>2. CASE ~Full
      <4>1. rest = HeldSince
        BY <2>1, <3>2 DEF HeldSince
      <4> QED
        BY <1>1, <3>2, <4>1, SameCardinality DEF Full, Abstract!Evicted
    <3> QED
      BY <3>1, <3>2
  <2>3. HeldSince' = Abstract!Storing(settings, rest, k, now)
    BY <1>1, <2>1 DEF Store, HeldSince, Touched, Set, Cut, Abstract!Storing, Abstract!Stamp, Inv, Dated
  <2>4. k \notin data /\ ~Barred(k)
    BY <1>7 DEF Insert
  <2> HIDE DEF rest
  <2> QED
    BY <1>1, <1>5, <2>2, <2>3, <2>4 DEF Abstract!Stores
<1> QED
  BY <1>4, <1>6, <1>7

(* ImplementsStore: each of the five policies of cache.py behaves as a     *)
(* bounded store to its caller, whatever it keeps to choose its victims.   *)
THEOREM PoliciesImplementStore == Spec => ImplementsStore
<1>1. Init => Abstract!Init
  BY DEF Init, Abstract!Init, HeldSince, Abstract!NoNames, Returned
<1>2. Inv /\ [Next]_vars => [Abstract!Next]_(Abstract!vars)
  <2> SUFFICES ASSUME Inv, [Next]_vars PROVE [Abstract!Next]_(Abstract!vars)
    OBVIOUS
  <2>1. CASE \E k \in Key : Call(k)
    BY <2>1, GetRefines, PutRefines DEF Call, Abstract!Next
  <2>2. CASE Elapse
    <3>1. now' > now /\ settings' = settings /\ HeldSince' = HeldSince /\ Returned' = Returned
      BY <2>2, SameHeld DEF Elapse, index, Returned, Inv, Dated
    <3> QED
      BY <3>1 DEF Abstract!Elapse, Abstract!Next
  <2>3. CASE UNCHANGED vars
    BY <2>3, SameHeld DEF vars, index, Returned, Abstract!vars
  <2> QED
    BY <2>1, <2>2, <2>3 DEF Next
<1> QED
  BY <1>1, <1>2, InvIsInvariant, PTL DEF Spec, ImplementsStore

-----------------------------------------------------------------------------
(* The victims.  What the policies note of their keys (places, counts and  *)
(* ticks) is the history of the calls, which VictimByPolicy judges by.     *)

Entered(calls, k, e) ==
    /\ e \in DOMAIN calls /\ calls[e].key = k /\ calls[e].did = "inserted"
    /\ \A j \in DOMAIN calls : j > e => ~(calls[j].key = k /\ calls[j].did = "inserted")

LastOf(uses, l) == l \in uses /\ \A j \in uses : j <= l
FirstOf(uses, f) == f \in uses /\ \A j \in uses : f <= j

(* A key that is held came in, and was used since then;                    *)
Known(k) ==
    /\ \E e \in DOMAIN log : Entered(log, k, e)
    /\ \E l \in Uses(log, k) : LastOf(Uses(log, k), l)

(* the call that gave a key its place is its last use, or (FIFO) its first;*)
Placed(e) ==
    IF Recency THEN LastOf(Uses(log, e.key), e.at + 1)
    ELSE settings.policy = "fifo" => FirstOf(Uses(log, e.key), e.at + 1)

(* and LFU counts the uses, and ticks in the order of the last ones.       *)
Ticks(j, k) ==
    \A x, y \in DOMAIN log :
        LastOf(Uses(log, j), x) /\ LastOf(Uses(log, k), y) /\ age[j] <= age[k] => x <= y

Remembered ==
    /\ \A k \in data : Known(k)
    /\ \A e \in order : Placed(e)
    /\ Lfu => /\ \A k \in data : freq[k] = Cardinality(Uses(log, k))
              /\ \A j, k \in data : Ticks(j, k)

UseKinds == {"inserted", "updated", "hit"}

LEMMA EnteredOnce ==
    ASSUME NEW calls \in Seq(CallRecord), NEW k, NEW e, Entered(calls, k, e)
    PROVE  Uses(calls, k) =
             {i \in DOMAIN calls : i >= e /\ calls[i].key = k /\ calls[i].did \in UseKinds}
<1> DEFINE P(i) == /\ calls[i].key = k /\ calls[i].did = "inserted"
                   /\ \A j \in DOMAIN calls :
                         j > i => ~(calls[j].key = k /\ calls[j].did = "inserted")
           entry == CHOOSE i \in DOMAIN calls : P(i)
<1>1. e \in DOMAIN calls /\ P(e) /\ DOMAIN calls \subseteq Int
  BY DEF Entered
<1>2. entry \in DOMAIN calls /\ P(entry)
  BY <1>1
<1>3. Uses(calls, k) =
        {i \in DOMAIN calls : i >= entry /\ calls[i].key = k /\ calls[i].did \in UseKinds}
  BY DEF Uses, UseKinds
<1> HIDE DEF entry
<1>4. entry = e
  BY <1>1, <1>2
<1> QED
  BY <1>3, <1>4

LEMMA UsesTyped ==
    ASSUME NEW calls \in Seq(CallRecord), NEW k
    PROVE  Uses(calls, k) \subseteq 1 .. Len(calls) /\ IsFiniteSet(Uses(calls, k))
<1>1. Uses(calls, k) \subseteq 1 .. Len(calls)
  BY DEF Uses
<1>2. IsFiniteSet(1 .. Len(calls))
  BY FS_Interval
<1> QED
  BY <1>1, <1>2, FS_Subset

LEMMA LatestIs ==
    ASSUME NEW uses \in SUBSET Nat, NEW l, LastOf(uses, l) PROVE Latest(uses) = l
<1> DEFINE latest == CHOOSE i \in uses : \A j \in uses : j <= i
<1>1. l \in uses /\ \A j \in uses : j <= l
  BY DEF LastOf
<1>2. latest \in uses /\ \A j \in uses : j <= latest
  BY <1>1
<1>3. latest = Latest(uses)
  BY DEF Latest
<1> HIDE DEF latest
<1>4. l <= latest /\ latest <= l /\ l \in Nat /\ latest \in Nat
  BY <1>1, <1>2
<1> QED
  BY <1>3, <1>4

LEMMA FirstIs ==
    ASSUME NEW uses \in SUBSET Nat, NEW f, FirstOf(uses, f) PROVE First(uses) = f
<1> DEFINE first == CHOOSE i \in uses : \A j \in uses : i <= j
<1>1. f \in uses /\ \A j \in uses : f <= j
  BY DEF FirstOf
<1>2. first \in uses /\ \A j \in uses : first <= j
  BY <1>1
<1>3. first = First(uses)
  BY DEF First
<1> HIDE DEF first
<1>4. f <= first /\ first <= f /\ f \in Nat /\ first \in Nat
  BY <1>1, <1>2
<1> QED
  BY <1>3, <1>4

(* What a call adds to the uses of a key.                                  *)
LEMMA UsesSame ==
    ASSUME NEW calls \in Seq(CallRecord), NEW c \in CallRecord, NEW k, NEW e,
           Entered(calls, k, e), c.key # k \/ c.did \notin UseKinds
    PROVE  /\ Entered(Append(calls, c), k, e)
           /\ Uses(Append(calls, c), k) = Uses(calls, k)
<1> DEFINE more == Append(calls, c)
<1>1. /\ more \in Seq(CallRecord) /\ DOMAIN more = DOMAIN calls \cup {Len(calls) + 1}
      /\ DOMAIN calls = 1 .. Len(calls) /\ Len(calls) \in Nat
      /\ \A i \in DOMAIN calls : more[i] = calls[i]
      /\ more[Len(calls) + 1] = c
  BY AppendProperties
<1> HIDE DEF more
<1>2. Entered(more, k, e)
  BY <1>1 DEF Entered, UseKinds
<1>3. /\ Uses(calls, k) = {i \in DOMAIN calls : i >= e /\ calls[i].key = k /\ calls[i].did \in UseKinds}
      /\ Uses(more, k) = {i \in DOMAIN more : i >= e /\ more[i].key = k /\ more[i].did \in UseKinds}
  BY <1>1, <1>2, EnteredOnce
<1>4. Uses(more, k) = Uses(calls, k)
  BY <1>1, <1>3
<1> QED
  BY <1>2, <1>4 DEF more

LEMMA UsesMore ==
    ASSUME NEW calls \in Seq(CallRecord), NEW c \in CallRecord, NEW k, NEW e,
           Entered(calls, k, e), c.key = k, c.did \in {"updated", "hit"}
    PROVE  /\ Entered(Append(calls, c), k, e)
           /\ Uses(Append(calls, c), k) = Uses(calls, k) \cup {Len(calls) + 1}
<1> DEFINE more == Append(calls, c)
<1>1. /\ more \in Seq(CallRecord) /\ DOMAIN more = DOMAIN calls \cup {Len(calls) + 1}
      /\ DOMAIN calls = 1 .. Len(calls) /\ Len(calls) \in Nat
      /\ \A i \in DOMAIN calls : more[i] = calls[i]
      /\ more[Len(calls) + 1] = c
  BY AppendProperties
<1> HIDE DEF more
<1>2. Entered(more, k, e) /\ Len(calls) + 1 >= e
  BY <1>1 DEF Entered
<1>3. c.did \in UseKinds
  BY DEF UseKinds
<1>4. /\ Uses(calls, k) = {i \in DOMAIN calls : i >= e /\ calls[i].key = k /\ calls[i].did \in UseKinds}
      /\ Uses(more, k) = {i \in DOMAIN more : i >= e /\ more[i].key = k /\ more[i].did \in UseKinds}
  BY <1>1, <1>2, EnteredOnce
<1> QED
  BY <1>1, <1>2, <1>3, <1>4 DEF more

LEMMA UsesNew ==
    ASSUME NEW calls \in Seq(CallRecord), NEW c \in CallRecord, NEW k,
           c.key = k, c.did = "inserted"
    PROVE  /\ Entered(Append(calls, c), k, Len(calls) + 1)
           /\ Uses(Append(calls, c), k) = {Len(calls) + 1}
<1> DEFINE more == Append(calls, c)
<1>1. /\ more \in Seq(CallRecord) /\ DOMAIN more = 1 .. Len(calls) + 1
      /\ Len(calls) \in Nat
      /\ more[Len(calls) + 1] = c
  BY AppendProperties
<1> HIDE DEF more
<1>2. Entered(more, k, Len(calls) + 1)
  BY <1>1 DEF Entered
<1>3. c.did \in UseKinds
  BY DEF UseKinds
<1>4. Uses(more, k) = {i \in DOMAIN more : i >= Len(calls) + 1 /\ more[i].key = k /\ more[i].did \in UseKinds}
  BY <1>1, <1>2, EnteredOnce
<1> QED
  BY <1>1, <1>2, <1>3, <1>4 DEF more

(* A call, as it changes the history of one key.                           *)
Logs(c) == c \in CallRecord /\ log \in Seq(CallRecord) /\ log' = Append(log, c)

LEMMA SameHistory ==
    ASSUME NEW c, Logs(c), NEW k, Known(k), c.key # k \/ c.did \notin UseKinds
    PROVE  Known(k)' /\ Uses(log', k) = Uses(log, k)
<1>1. PICK e \in DOMAIN log : Entered(log, k, e)
  BY DEF Known
<1>2. Entered(log', k, e) /\ Uses(log', k) = Uses(log, k)
  BY <1>1, UsesSame DEF Logs
<1>3. e \in DOMAIN log'
  BY <1>2 DEF Entered
<1> QED
  BY <1>2, <1>3 DEF Known

LEMMA UsedHistory ==
    ASSUME NEW c, Logs(c), NEW k, Known(k), c.key = k, c.did \in {"updated", "hit"}
    PROVE  /\ Known(k)' /\ Uses(log', k) = Uses(log, k) \cup {Calls + 1}
           /\ LastOf(Uses(log', k), Calls + 1)
<1>1. PICK e \in DOMAIN log : Entered(log, k, e)
  BY DEF Known
<1>2. Entered(log', k, e) /\ Uses(log', k) = Uses(log, k) \cup {Calls + 1}
  BY <1>1, UsesMore DEF Logs, Calls
<1>3. e \in DOMAIN log'
  BY <1>2 DEF Entered
<1>4. Uses(log, k) \subseteq 1 .. Calls /\ Calls \in Nat
  BY UsesTyped DEF Logs, Calls
<1>5. LastOf(Uses(log', k), Calls + 1)
  BY <1>2, <1>4 DEF LastOf
<1>6. Calls + 1 \in Uses(log', k)
  BY <1>2
<1> QED
  BY <1>2, <1>3, <1>5, <1>6 DEF Known

LEMMA NewHistory ==
    ASSUME NEW c, Logs(c), NEW k, c.key = k, c.did = "inserted"
    PROVE  /\ Known(k)' /\ Uses(log', k) = {Calls + 1}
           /\ LastOf(Uses(log', k), Calls + 1) /\ FirstOf(Uses(log', k), Calls + 1)
<1>1. Entered(log', k, Calls + 1) /\ Uses(log', k) = {Calls + 1} /\ Calls \in Nat
  <2>1. c \in CallRecord /\ log \in Seq(CallRecord) /\ log' = Append(log, c) /\ Calls = Len(log)
    BY DEF Logs, Calls
  <2>2. Entered(Append(log, c), k, Len(log) + 1) /\ Uses(Append(log, c), k) = {Len(log) + 1}
    BY <2>1, UsesNew
  <2> QED
    BY <2>1, <2>2
<1>2. LastOf(Uses(log', k), Calls + 1) /\ FirstOf(Uses(log', k), Calls + 1)
  BY <1>1 DEF LastOf, FirstOf
<1>3. Calls + 1 \in DOMAIN log' /\ Calls + 1 \in Uses(log', k)
  BY <1>1 DEF Entered
<1> QED
  BY <1>1, <1>2, <1>3 DEF Known

(* The order, when k takes its place at the end, and when nobody does.     *)
LEMMA PlacedSame ==
    ASSUME NEW e, Placed(e), settings' = settings, Uses(log', e.key) = Uses(log, e.key)
    PROVE  Placed(e)'
BY DEF Placed, Recency

LEMMA LinkedPlaced ==
    ASSUME NEW k, NEW gone, settings' = settings, Inv, Remembered,
           order' = Linked(Unlinked(gone), k),
           \A e \in Unlinked(gone) : e.key # k,
           \A n \in data : n # k => Uses(log', n) = Uses(log, n),
           IF Recency THEN LastOf(Uses(log', k), Calls + 1)
           ELSE settings.policy = "fifo" => FirstOf(Uses(log', k), Calls + 1)
    PROVE  \A e \in order' : Placed(e)'
<1>1. ASSUME NEW e \in Unlinked(gone) PROVE Placed(e)'
  <2>1. e \in order /\ e.key \in data /\ e.key # k
    BY DEF Unlinked, Inv, Queued
  <2> QED
    BY <2>1, PlacedSame DEF Remembered
<1>2. PICK new : new = [key |-> k, at |-> Calls]
  OBVIOUS
<1>3. order' = Unlinked(gone) \cup {new}
  BY <1>2 DEF Linked
<1>4. Placed(new)'
  BY <1>2 DEF Placed, Recency
<1> QED
  BY <1>1, <1>3, <1>4

(* LFU's ticks, when k takes the next one.                                 *)
LEMMA TicksKept ==
    ASSUME Inv, Remembered, Lfu, NEW c, Logs(c), NEW k, age'[k] = tick + 1,
           LastOf(Uses(log', k), Calls + 1), data' \ {k} \subseteq data,
           \A n \in data' : n # k => Uses(log', n) = Uses(log, n) /\ age'[n] = age[n]
    PROVE  \A j, n \in data' : Ticks(j, n)'
<1> SUFFICES ASSUME NEW j \in data', NEW n \in data', NEW x \in DOMAIN log', NEW y \in DOMAIN log',
                    LastOf(Uses(log', j), x), LastOf(Uses(log', n), y), age'[j] <= age'[n]
             PROVE  x <= y
  BY DEF Ticks
<1>1. Calls \in Nat /\ DOMAIN log' = 1 .. Calls + 1 /\ DOMAIN log = 1 .. Calls
  BY AppendProperties DEF Logs, Calls
<1>2. \A m \in data : Uses(log, m) \subseteq DOMAIN log
  BY UsesTyped, <1>1 DEF Logs
<1>3. \A m \in data : age[m] \in Nat /\ age[m] <= tick /\ tick \in Nat
  BY DEF Inv, Counted
<1>4. CASE n = k
  BY <1>1, <1>4 DEF LastOf
<1>5. CASE n # k /\ j = k
  BY <1>3, <1>5
<1>6. CASE n # k /\ j # k
  <2>1. j \in data /\ n \in data /\ Ticks(j, n)
    BY <1>6 DEF Remembered
  <2>2. LastOf(Uses(log, j), x) /\ LastOf(Uses(log, n), y) /\ age[j] <= age[n]
    BY <1>6
  <2>3. x \in DOMAIN log /\ y \in DOMAIN log
    BY <1>2, <2>1, <2>2 DEF LastOf
  <2> QED
    BY <2>1, <2>2, <2>3 DEF Ticks
<1> QED
  BY <1>4, <1>5, <1>6

(* A call that uses no key leaves the history of all as it is.             *)
LEMMA UnusedRemembers ==
    ASSUME Inv, Remembered, NEW c, Logs(c), c.did \notin UseKinds, settings' = settings,
           data' \subseteq data, order' \subseteq order,
           Lfu => \A n \in data' : freq'[n] = freq[n] /\ age'[n] = age[n]
    PROVE  Remembered'
<1>1. \A n \in data : Known(n)' /\ Uses(log', n) = Uses(log, n)
  BY SameHistory DEF Remembered
<1>2. ASSUME NEW e \in order' PROVE Placed(e)'
  <2>1. e \in order /\ e.key \in data
    BY <1>2 DEF Inv, Queued
  <2> QED
    BY <1>1, <2>1, PlacedSame DEF Remembered
<1>3. ASSUME Lfu, NEW n \in data' PROVE freq'[n] = Cardinality(Uses(log', n))
  BY <1>1, <1>3 DEF Remembered
<1>4. ASSUME Lfu, NEW j \in data', NEW n \in data' PROVE Ticks(j, n)'
  <2>1. j \in data /\ n \in data /\ Ticks(j, n)
    BY <1>4 DEF Remembered
  <2>2. Uses(log, j) \subseteq DOMAIN log /\ Uses(log, n) \subseteq DOMAIN log
    BY UsesTyped DEF Logs
  <2>3. Uses(log', j) = Uses(log, j) /\ Uses(log', n) = Uses(log, n)
        /\ age'[j] = age[j] /\ age'[n] = age[n]
    BY <1>1, <1>4, <2>1
  <2> QED
    BY <2>1, <2>2, <2>3 DEF Ticks, LastOf
<1> QED
  BY <1>1, <1>2, <1>3, <1>4 DEF Remembered, Lfu

(* A hit or an update.                                                     *)
LEMMA UsedRemembers ==
    ASSUME Inv, Remembered, NEW k \in data, NEW c, Logs(c), c.key = k,
           c.did \in {"updated", "hit"}, settings' = settings, Used(k)
    PROVE  Remembered'
<1>1. ASSUME NEW n \in data, n # k PROVE Known(n)' /\ Uses(log', n) = Uses(log, n)
  BY <1>1, SameHistory DEF Remembered
<1>2. /\ Known(k)' /\ Uses(log', k) = Uses(log, k) \cup {Calls + 1}
      /\ LastOf(Uses(log', k), Calls + 1)
  BY UsedHistory DEF Remembered
<1>3. Uses(log, k) \subseteq 1 .. Calls /\ IsFiniteSet(Uses(log, k)) /\ Calls \in Nat
  BY UsesTyped DEF Logs, Calls
<1>4. data' = data
  BY DEF Used
<1>5. \A e \in order' : Placed(e)'
  <2>1. CASE Recency
    <3>1. order' = Linked(Unlinked({k}), k) /\ \A e \in Unlinked({k}) : e.key # k
      BY <2>1 DEF Used, Unlinked
    <3> QED
      BY <1>1, <1>2, <2>1, <3>1, LinkedPlaced
  <2>2. CASE ~ Recency
    <3> SUFFICES ASSUME NEW e \in order PROVE Placed(e)'
      BY <2>2 DEF Used
    <3>1. e.key \in data /\ Placed(e)
      BY DEF Inv, Queued, Remembered
    <3>2. CASE e.key # k
      BY <1>1, <3>1, <3>2, PlacedSame
    <3>3. CASE e.key = k
      BY <1>2, <1>3, <2>2, <3>1, <3>3 DEF Placed, FirstOf, Recency
    <3> QED
      BY <3>2, <3>3
  <2> QED
    BY <2>1, <2>2
<1>6. ASSUME Lfu
      PROVE  /\ \A n \in data : freq'[n] = Cardinality(Uses(log', n))
             /\ \A j, n \in data : Ticks(j, n)'
  <2>1. /\ freq' = [freq EXCEPT ![k] = @ + 1] /\ age' = [age EXCEPT ![k] = tick + 1]
        /\ DOMAIN freq = data /\ DOMAIN age = data
    BY <1>6 DEF Used, Inv, Counted
  <2>2. Cardinality(Uses(log', k)) = Cardinality(Uses(log, k)) + 1
    <3>1. Calls + 1 \notin Uses(log, k)
      BY <1>3
    <3> QED
      BY <1>2, <1>3, <3>1, FS_AddElement
  <2>3. ASSUME NEW n \in data PROVE freq'[n] = Cardinality(Uses(log', n))
    <3>1. freq[n] = Cardinality(Uses(log, n))
      BY <1>6 DEF Remembered
    <3> QED
      BY <1>1, <2>1, <2>2, <3>1
  <2>4. age'[k] = tick + 1 /\ \A n \in data : n # k => age'[n] = age[n]
    BY <2>1
  <2>5. \A j, n \in data : Ticks(j, n)'
    BY <1>1, <1>2, <1>4, <1>6, <2>4, TicksKept
  <2> QED
    BY <2>3, <2>5
<1> QED
  BY <1>1, <1>2, <1>4, <1>5, <1>6 DEF Remembered, Lfu

(* An insertion.                                                           *)
LEMMA NewRemembers ==
    ASSUME Inv, Remembered, NEW k \in Key, k \notin data, NEW gone, NEW c, Logs(c), c.key = k,
           c.did = "inserted", settings' = settings, Store(k, gone)
    PROVE  Remembered'
<1>1. ASSUME NEW n \in data, n # k PROVE Known(n)' /\ Uses(log', n) = Uses(log, n)
  BY <1>1, SameHistory DEF Remembered
<1>2. /\ Known(k)' /\ Uses(log', k) = {Calls + 1}
      /\ LastOf(Uses(log', k), Calls + 1) /\ FirstOf(Uses(log', k), Calls + 1)
  BY NewHistory
<1>3. data' = (data \ gone) \cup {k}
  BY DEF Store
<1>4. \A e \in order' : Placed(e)'
  <2>1. CASE Ordered
    <3>1. order' = Linked(Unlinked(gone), k) /\ \A e \in Unlinked(gone) : e.key # k
      BY <2>1 DEF Store, Unlinked, Inv, Queued
    <3> QED
      BY <1>1, <1>2, <3>1, LinkedPlaced
  <2>2. CASE ~ Ordered
    BY <2>2 DEF Store, Inv, Queued
  <2> QED
    BY <2>1, <2>2
<1>5. ASSUME Lfu
      PROVE  /\ \A n \in data' : freq'[n] = Cardinality(Uses(log', n))
             /\ \A j, n \in data' : Ticks(j, n)'
  <2>1. /\ freq' = Set(Cut(freq, gone), k, 1) /\ age' = Set(Cut(age, gone), k, tick + 1)
        /\ DOMAIN freq = data /\ DOMAIN age = data
    BY <1>5 DEF Store, Inv, Counted
  <2>2. /\ freq'[k] = 1 /\ age'[k] = tick + 1
        /\ \A n \in data' : n # k => n \in data /\ freq'[n] = freq[n] /\ age'[n] = age[n]
    BY <1>3, <2>1 DEF Set, Cut
  <2>3. Cardinality(Uses(log', k)) = 1
    BY <1>2, FS_Singleton
  <2>4. ASSUME NEW n \in data' PROVE freq'[n] = Cardinality(Uses(log', n))
    <3>1. n # k => freq[n] = Cardinality(Uses(log, n))
      BY <1>5, <2>2 DEF Remembered
    <3> QED
      BY <1>1, <2>2, <2>3, <3>1
  <2>5. \A j, n \in data' : Ticks(j, n)'
    BY <1>1, <1>2, <1>3, <1>5, <2>2, TicksKept
  <2> QED
    BY <2>4, <2>5
<1> QED
  BY <1>1, <1>2, <1>3, <1>4, <1>5 DEF Remembered, Lfu

LEMMA CallLogs ==
    ASSUME Held, NEW k \in Key, NEW op \in {"get", "put"}, NEW gone \in SUBSET Key,
           NEW did \in {"missed", "expired", "hit", "barred", "rejected", "updated", "inserted"},
           Called(op, k, did, gone)
    PROVE  Logs([op |-> op, key |-> k, did |-> did, gone |-> gone])
BY DEF Held, Called, Logs, CallRecord

LEMMA CallRemembers == ASSUME Inv, Remembered, NEW k \in Key, Call(k) PROVE Remembered'
<1> DEFINE c(op, did, gone) == [op |-> op, key |-> k, did |-> did, gone |-> gone]
<1>1. \A op, did, gone : c(op, did, gone).key = k /\ c(op, did, gone).did = did
  OBVIOUS
<1>2. Held
  BY DEF Inv
<1> HIDE DEF c
<1>3. CASE Miss(k) \/ Bar(k) \/ Reject(k)
  <2>1. PICK op \in {"get", "put"}, did \in {"missed", "barred", "rejected"} :
           Called(op, k, did, {}) /\ UNCHANGED <<settings, index>>
    BY <1>3 DEF Miss, Bar, Reject
  <2>2. Logs(c(op, did, {})) /\ c(op, did, {}).did \notin UseKinds
    BY <1>1, <1>2, <2>1, CallLogs DEF UseKinds, c
  <2> QED
    BY <2>1, <2>2, UnusedRemembers DEF index
<1>4. CASE Expire(k)
  <2>1. Logs(c("get", "expired", {})) /\ c("get", "expired", {}).did \notin UseKinds
    BY <1>1, <1>2, <1>4, CallLogs DEF Expire, UseKinds, c
  <2>2. settings' = settings /\ data' \subseteq data /\ order' \subseteq order
    BY <1>4 DEF Expire, Unqueued, Unlinked
  <2>3. Lfu => \A n \in data' : freq'[n] = freq[n] /\ age'[n] = age[n]
    BY <1>4 DEF Expire, Cut, Inv, Counted
  <2> QED
    BY <2>1, <2>2, <2>3, UnusedRemembers
<1>5. CASE Hit(k) \/ Update(k)
  <2>1. PICK op \in {"get", "put"}, did \in {"hit", "updated"} :
           Called(op, k, did, {}) /\ settings' = settings /\ Used(k) /\ k \in data
    BY <1>5 DEF Hit, Update
  <2>2. Logs(c(op, did, {})) /\ c(op, did, {}).did \in {"hit", "updated"} /\ c(op, did, {}).key = k
    BY <1>1, <1>2, <2>1, CallLogs DEF c
  <2> QED
    BY <2>1, <2>2, UsedRemembers
<1>6. CASE Insert(k)
  <2>1. PICK gone \in SUBSET data :
           Called("put", k, "inserted", gone) /\ settings' = settings /\ Store(k, gone) /\ k \notin data
    BY <1>6, VictimsHeld DEF Insert
  <2>2. gone \in SUBSET Key
    BY <1>2 DEF Held
  <2>3. Logs(c("put", "inserted", gone)) /\ c("put", "inserted", gone).did = "inserted"
        /\ c("put", "inserted", gone).key = k
    BY <1>1, <1>2, <2>1, <2>2, CallLogs DEF c
  <2> QED
    BY <2>1, <2>3, NewRemembers
<1> QED
  BY <1>3, <1>4, <1>5, <1>6 DEF Call

(* Whom the policy picks is whom the history condemns.                     *)
LEMMA VictimIsRight ==
    ASSUME Inv, Remembered, NEW v \in Victims, NEW n \in data
    PROVE  RightVictim(log, v, n)
<1>1. \A m : Uses(log, m) \in SUBSET Nat
  BY UsesTyped DEF Inv, Held
<1>2. CASE Ordered
  <2>1. PICK e \in order, d \in order :
           e.key = v /\ d.key = n /\ e.at <= d.at /\ e.at \in Nat /\ d.at \in Nat
    <3>1. PICK e \in Earliest : e.key = v
      BY <1>2 DEF Victims
    <3>2. PICK d \in order : d.key = n
      BY <1>2 DEF Inv, Queued
    <3>3. e \in order /\ e.at <= d.at /\ e.at \in Nat /\ d.at \in Nat
      BY <3>1, <3>2 DEF Earliest, Inv, Queued
    <3> QED
      BY <3>1, <3>2, <3>3
  <2>2. Placed(e) /\ Placed(d)
    BY DEF Remembered
  <2>3. CASE Recency
    <3>1. LastOf(Uses(log, v), e.at + 1) /\ LastOf(Uses(log, n), d.at + 1)
      BY <2>1, <2>2, <2>3 DEF Placed
    <3>2. Latest(Uses(log, v)) = e.at + 1 /\ Latest(Uses(log, n)) = d.at + 1
      BY <1>1, <3>1, LatestIs
    <3>3. Latest(Uses(log, v)) <= Latest(Uses(log, n))
      BY <2>1, <3>2
    <3>4. ~ Lfu /\ settings.policy # "fifo"
      BY <2>3 DEF Recency, Lfu
    <3> QED
      BY <2>3, <3>3, <3>4, Zenon DEF RightVictim
  <2>4. CASE ~ Recency
    <3>1. settings.policy = "fifo" /\ ~ Lfu
      BY <1>2, <2>4 DEF Ordered, Recency, Lfu
    <3>2. FirstOf(Uses(log, v), e.at + 1) /\ FirstOf(Uses(log, n), d.at + 1)
      BY <2>1, <2>2, <2>4, <3>1 DEF Placed
    <3>3. First(Uses(log, v)) = e.at + 1 /\ First(Uses(log, n)) = d.at + 1
      BY <1>1, <3>2, FirstIs
    <3> QED
      BY <2>1, <2>4, <3>1, <3>3 DEF RightVictim
  <2> QED
    BY <2>3, <2>4
<1>3. CASE Lfu
  <2>1. ~ Ordered /\ ~ Recency /\ settings.policy # "fifo"
    BY <1>3 DEF Lfu, Ordered, Recency
  <2>2. v \in data /\ LessUsed(v, n)
    BY <1>3, <2>1 DEF Victims
  <2>3. /\ freq[v] = Cardinality(Uses(log, v)) /\ freq[n] = Cardinality(Uses(log, n))
        /\ Ticks(v, n)
    BY <1>3, <2>2 DEF Remembered
  <2>4. freq[v] = freq[n] /\ age[v] <= age[n] => Latest(Uses(log, v)) <= Latest(Uses(log, n))
    <3>1. PICK x \in Uses(log, v) : LastOf(Uses(log, v), x)
      BY <2>2 DEF Remembered, Known
    <3>2. PICK y \in Uses(log, n) : LastOf(Uses(log, n), y)
      BY DEF Remembered, Known
    <3>3. Latest(Uses(log, v)) = x /\ Latest(Uses(log, n)) = y
      BY <1>1, <3>1, <3>2, LatestIs
    <3>4. x \in DOMAIN log /\ y \in DOMAIN log
      BY UsesTyped DEF Inv, Held
    <3> QED
      BY <2>3, <3>1, <3>2, <3>3, <3>4 DEF Ticks
  <2> QED
    <3>1. \/ Cardinality(Uses(log, v)) < Cardinality(Uses(log, n))
          \/ /\ Cardinality(Uses(log, v)) = Cardinality(Uses(log, n))
             /\ Latest(Uses(log, v)) <= Latest(Uses(log, n))
      BY <2>2, <2>3, <2>4 DEF LessUsed
    <3> QED
      BY <1>3, <2>1, <3>1, Zenon DEF RightVictim
<1>4. CASE ~ Ordered /\ ~ Lfu
  BY <1>4 DEF RightVictim, Ordered, Recency
<1> QED
  BY <1>2, <1>3, <1>4

LEMMA CallEvicts == ASSUME Inv, Remembered, NEW k \in Key, Call(k) PROVE VictimByPolicy'
<1>1. Held /\ log \in Seq(CallRecord)
  BY DEF Inv, Held
<1>2. ASSUME NEW c, Logs(c) PROVE Last(log') = c /\ Front(log') = log /\ log' # <<>>
  <2>1. /\ log' \in Seq(CallRecord) /\ Len(log') = Len(log) + 1 /\ log'[Len(log')] = c
        /\ \A i \in 1 .. Len(log) : log'[i] = log[i]
    BY <1>2, AppendProperties DEF Logs
  <2>2. SubSeq(log', 1, Len(log)) = log
    BY <1>1, <2>1
  <2> QED
    BY <2>1, <2>2 DEF Last, Front
<1>3. CASE ~ Insert(k)
  <2>1. PICK op \in {"get", "put"},
             did \in {"missed", "expired", "hit", "barred", "rejected", "updated"} :
           Called(op, k, did, {})
    BY <1>3 DEF Call, Miss, Expire, Hit, Bar, Reject, Update
  <2> DEFINE c == [op |-> op, key |-> k, did |-> did, gone |-> {}]
  <2>2. Logs(c)
    BY <1>1, <2>1, CallLogs
  <2>3. Last(log').did # "inserted"
    BY <1>2, <2>2
  <2> QED
    BY <2>3 DEF VictimByPolicy
<1>4. CASE Insert(k)
  <2>1. PICK gone \in IF Full THEN {{v} : v \in Victims} ELSE {{}} :
           Called("put", k, "inserted", gone) /\ settings' = settings /\ Store(k, gone) /\ k \notin data
    BY <1>4 DEF Insert
  <2>2. gone \subseteq data /\ gone \subseteq Key /\ gone \subseteq Victims
        /\ (gone = {} <=> ~ Full)
    BY <1>1, <2>1, VictimsHeld DEF Held
  <2> DEFINE c == [op |-> "put", key |-> k, did |-> "inserted", gone |-> gone]
  <2>3. Logs(c)
    BY <1>1, <2>1, <2>2, CallLogs
  <2>4. Last(log') = c /\ Front(log') = log
    BY <1>2, <2>3
  <2>5. (data' \ {k}) \cup gone = data
    BY <2>1, <2>2 DEF Store
  <2>6. ~ Full <=> Cardinality(data) < settings.capacity
    BY SettingsTyped, KeyAssumption, FS_Subset, FS_CardinalityType DEF Inv, Held, Full
  <2>7. PICK calls : calls = log
    OBVIOUS
  <2>8. \A v \in gone, n \in data : RightVictim(calls, v, n)
    BY <2>2, <2>7, VictimIsRight
  <2>9. \A v \in gone, n \in data : RightVictim(calls, v, n)'
    BY <2>1, <2>8 DEF RightVictim, Recency, Lfu
  <2>10. Last(log').key = k /\ Last(log').gone = gone
    BY <2>4
  <2> HIDE DEF c
  <2> SUFFICES /\ gone = {} <=> Cardinality(data) < settings.capacity
               /\ \A v \in gone, n \in data : RightVictim(calls, v, n)'
    BY <2>1, <2>4, <2>5, <2>7, <2>10 DEF VictimByPolicy
  <2> QED
    BY <2>2, <2>6, <2>9
<1> QED
  BY <1>3, <1>4

LEMMA RememberedKept ==
    Inv /\ Remembered /\ VictimByPolicy /\ [Next]_vars => Remembered' /\ VictimByPolicy'
<1> SUFFICES ASSUME Inv, Remembered, VictimByPolicy, [Next]_vars
             PROVE  Remembered' /\ VictimByPolicy'
  OBVIOUS
<1>1. CASE \E k \in Key : Call(k)
  BY <1>1, CallRemembers, CallEvicts
<1>2. CASE Elapse \/ UNCHANGED vars
  <2>1. UNCHANGED <<settings, data, order, freq, age, log>>
    BY <1>2 DEF Elapse, vars, index
  <2>2. Remembered'
    BY <2>1 DEF Remembered, Known, Placed, Recency, Lfu, Ticks
  <2>3. VictimByPolicy'
    BY <2>1 DEF VictimByPolicy, RightVictim, Recency, Lfu
  <2> QED
    BY <2>2, <2>3
<1> QED
  BY <1>1, <1>2 DEF Next

(* VictimByPolicy: what the caches of cache.py note of their keys, the     *)
(* OrderedDict, the queue, the counts and the ticks, picks the victim that *)
(* the history of the calls picks, through expiries, updates, refused and  *)
(* repeated insertions; and only a full store evicts.                      *)
THEOREM VictimsAreRight == Spec => []VictimByPolicy
<1>1. Init => Remembered /\ VictimByPolicy
  BY DEF Init, Remembered, Empty, VictimByPolicy
<1> QED
  BY <1>1, RememberedKept, InvIsInvariant, PTL DEF Spec
=============================================================================
