-------------------------- MODULE LinkQueueProofs --------------------------
(***************************************************************************)
(* One link serves one packet at a time and bounds what each one waits,    *)
(* for all classes of packets, link parameters and traffic.                *)
(***************************************************************************)
EXTENDS LinkQueue, FiniteSetTheorems, TLAPS

(* What is known of a packet on the link.                                  *)
OnTime(p) ==
    /\ p.id < offered
    /\ p.departs <= busy
    /\ p.sent <= now
    /\ now <= p.arrives
    /\ p.arrives = p.departs + LinkRecord.propagation + LinkRecord.processing + Extra[p.class]

Numbered == \A p, q \in flying : p.id = q.id => p = q

IInv ==
    /\ TypeOK
    /\ \A p \in flying : OnTime(p)
    /\ Numbered
    /\ OneInService
    /\ BusyIsEarned
    /\ WaitBound

-----------------------------------------------------------------------------
(* The link's parameters.                                                  *)
LEMMA Parameters ==
    /\ LinkRecord.propagation \in Nat
    /\ LinkRecord.processing \in Nat
    /\ LinkRecord.queue_limit \in Nat
    /\ \A c \in Class : Service[c] \in Nat /\ Service[c] > 0 /\ Extra[c] \in Nat
BY ClassAssumption, LinkAssumption

(* A traversal succeeds only as the last case of traverse().               *)
LEMMA TraverseResult ==
    ASSUME NEW c \in Class, NEW lost \in BOOLEAN, NEW result,
           result = Traverse(LinkRecord, active, busy, now, Service[c], Extra[c], lost)
    PROVE  /\ result.ok \in BOOLEAN
           /\ ~result.ok => result.busy = busy
           /\ result.ok =>
                /\ Wait(busy, now) <= LinkRecord.queue_limit * Service[c]
                /\ result.busy = now + Wait(busy, now) + Service[c]
                /\ result.arrival = now + LinkRecord.propagation + Service[c]
                                      + Wait(busy, now) + LinkRecord.processing + Extra[c]
BY DEF Traverse, Refused, Lost, Admits, Departure, Arrival

(* What the packet waited, and its own transmission.                       *)
LEMMA ServiceTimesAddUp ==
    ASSUME NEW s \in Nat
    PROVE  /\ LinkRecord.queue_limit * s \in Nat
           /\ (LinkRecord.queue_limit + 1) * s = LinkRecord.queue_limit * s + s
           /\ s * LinkRecord.queue_limit = LinkRecord.queue_limit * s
BY Parameters, Z3

LEMMA InitIInv == Init => IInv
BY DEF Init, IInv, TypeOK, Numbered, OneInService, BusyIsEarned, WaitBound

(* An accepted packet goes behind all others.                              *)
LEMMA AcceptStep ==
    ASSUME IInv, NEW c \in Class, NEW result, result.ok,
           Wait(busy, now) <= LinkRecord.queue_limit * Service[c],
           result.busy = now + Wait(busy, now) + Service[c],
           result.arrival = now + LinkRecord.propagation + Service[c]
                              + Wait(busy, now) + LinkRecord.processing + Extra[c],
           flying' = flying \cup {[id |-> offered, class |-> c, sent |-> now,
                                   departs |-> result.busy, arrives |-> result.arrival]},
           busy' = result.busy, offered' = offered + 1, UNCHANGED <<now, active>>
    PROVE  IInv'
<1>1. PICK new : /\ new = [id |-> offered, class |-> c, sent |-> now,
                           departs |-> result.busy, arrives |-> result.arrival]
                 /\ flying' = flying \cup {new}
  OBVIOUS
<1>2. /\ now \in Nat /\ busy \in Nat /\ offered \in Nat /\ active \in BOOLEAN
      /\ flying \subseteq Packet
      /\ Wait(busy, now) \in Nat /\ busy <= now + Wait(busy, now)
  BY DEF IInv, TypeOK, Wait
<1>3. /\ new.id = offered /\ new.class = c /\ new.sent = now
      /\ new.departs = busy' /\ new.arrives = result.arrival
  BY <1>1
<1>4. busy' = now + Wait(busy, now) + Service[c] /\ busy' \in Nat /\ busy < busy' /\ now < busy'
  BY <1>2, Parameters
<1>5. result.arrival \in Nat
  BY <1>2, Parameters
<1>6. TypeOK'
  <2>1. new \in Packet
    BY <1>1, <1>2, <1>4, <1>5 DEF Packet
  <2> QED BY <2>1, <1>1, <1>2, <1>4 DEF TypeOK
<1>7. \A p \in flying' : OnTime(p)'
  <2> SUFFICES ASSUME NEW p \in flying' PROVE OnTime(p)'
    OBVIOUS
  <2>1. CASE p \in flying
    BY <2>1, <1>2, <1>4 DEF OnTime, IInv, Packet
  <2>2. CASE p = new
    BY <2>2, <1>2, <1>3, <1>4, Parameters DEF OnTime
  <2> QED BY <2>1, <2>2, <1>1
<1>8. OneInService'
  <2> SUFFICES ASSUME NEW p \in flying', NEW q \in flying', p.id < q.id
               PROVE  p.departs + Service[q.class] <= q.departs
    BY DEF OneInService
  <2>1. CASE p \in flying /\ q \in flying
    BY <2>1 DEF IInv, OneInService
  <2>2. CASE p \in flying /\ q = new
    <3>1. p.departs <= busy /\ p.departs \in Nat
      BY <2>2, <1>2 DEF IInv, OnTime, Packet
    <3> QED BY <3>1, <2>2, <1>2, <1>3, <1>4, Parameters
  <2>3. CASE p = new
    <3>1. \A o \in flying : o.id \in Nat /\ o.id < offered
      BY <1>2 DEF IInv, OnTime, Packet
    <3> QED BY <3>1, <2>3, <1>1, <1>2, <1>3
  <2> QED BY <2>1, <2>2, <2>3, <1>1
<1>9. BusyIsEarned'
  BY <1>1, <1>3 DEF BusyIsEarned
<1>11. Numbered'
  <2>1. \A o \in flying : o.id < offered
    BY DEF IInv, OnTime
  <2> QED BY <2>1, <1>1, <1>2, <1>3 DEF IInv, Numbered, Packet
<1>10. WaitBound'
  <2> SUFFICES ASSUME NEW p \in flying'
               PROVE  p.departs - p.sent <= (LinkRecord.queue_limit + 1) * Service[p.class]
    BY DEF WaitBound
  <2>1. CASE p \in flying
    BY <2>1 DEF IInv, WaitBound
  <2>2. CASE p = new
    <3>1. PICK m : m = LinkRecord.queue_limit * Service[c]
      OBVIOUS
    <3>2. m \in Nat /\ (LinkRecord.queue_limit + 1) * Service[c] = m + Service[c]
      BY <3>1, Parameters, ServiceTimesAddUp
    <3>3. p.departs - p.sent = Wait(busy, now) + Service[c]
      BY <2>2, <1>2, <1>3, <1>4, Parameters
    <3>4. p.departs - p.sent <= m + Service[c]
      BY <3>1, <3>2, <3>3, <1>2, Parameters
    <3> QED BY <3>2, <3>4, <2>2, <1>3
  <2> QED BY <2>1, <2>2, <1>1
<1> QED BY <1>6, <1>7, <1>8, <1>9, <1>10, <1>11 DEF IInv

LEMMA SendStep ==
    ASSUME IInv, NEW c \in Class, Send(c)
    PROVE  IInv'
<1>0. PICK lost \in BOOLEAN :
        LET result == Traverse(LinkRecord, active, busy, now, Service[c], Extra[c], lost)
        IN /\ busy' = result.busy
           /\ flying' = IF result.ok
                          THEN flying \cup {[id |-> offered, class |-> c, sent |-> now,
                                             departs |-> result.busy, arrives |-> result.arrival]}
                          ELSE flying
           /\ offered' = offered + 1
           /\ UNCHANGED <<now, active>>
  BY DEF Send
<1>1. PICK result :
        /\ result = Traverse(LinkRecord, active, busy, now, Service[c], Extra[c], lost)
        /\ busy' = result.busy
        /\ flying' = IF result.ok
                       THEN flying \cup {[id |-> offered, class |-> c, sent |-> now,
                                          departs |-> result.busy, arrives |-> result.arrival]}
                       ELSE flying
        /\ offered' = offered + 1
        /\ UNCHANGED <<now, active>>
  BY <1>0
<1>2. CASE result.ok
  BY <1>1, <1>2, TraverseResult, AcceptStep
<1>3. CASE ~result.ok
  <2>1. busy' = busy /\ flying' = flying /\ offered' = offered + 1 /\ UNCHANGED <<now, active>>
    BY <1>1, <1>3, TraverseResult
  <2>2. TypeOK'
    BY <2>1 DEF IInv, TypeOK
  <2>3. \A p \in flying' : OnTime(p)'
    BY <2>1 DEF IInv, OnTime, TypeOK, Packet
  <2> QED BY <2>1, <2>2, <2>3 DEF IInv, Numbered, OneInService, BusyIsEarned, WaitBound
<1> QED BY <1>2, <1>3

(* A packet arrives after it has departed, and is not the one in service.  *)
LEMMA ArriveStep ==
    ASSUME IInv, Arrive
    PROVE  IInv'
<1>1. PICK p \in flying : /\ \A o \in flying \ {p} :
                                p.arrives < o.arrives \/ (p.arrives = o.arrives /\ p.id < o.id)
                          /\ now' = p.arrives /\ flying' = flying \ {p}
                          /\ UNCHANGED <<active, busy, offered>>
  BY DEF Arrive
<1>2. p \in Packet /\ flying \subseteq Packet /\ TypeOK
  BY <1>1 DEF IInv, TypeOK
<1>3. p.departs \in Nat /\ p.arrives \in Nat /\ p.departs <= p.arrives
  <2>1. p.arrives = p.departs + LinkRecord.propagation + LinkRecord.processing + Extra[p.class]
    BY <1>1 DEF IInv, OnTime
  <2>2. p.class \in Class /\ p.departs \in Nat /\ p.arrives \in Nat
    BY <1>2 DEF Packet
  <2> QED BY <2>1, <2>2, Parameters
<1>4. TypeOK'
  BY <1>1, <1>2, <1>3 DEF TypeOK
<1>5. \A o \in flying' : OnTime(o)'
  <2>1. \A o \in flying : p.arrives <= o.arrives
    BY <1>1, <1>2 DEF Packet
  <2>2. now <= now' /\ now \in Nat
    BY <1>1, <1>2 DEF IInv, OnTime, TypeOK
  <2>3. \A o \in flying : o.sent \in Nat /\ o.sent <= now
    BY <1>2 DEF IInv, OnTime, Packet
  <2> QED BY <2>1, <2>2, <2>3, <1>1, <1>3 DEF IInv, OnTime
<1>6. Numbered' /\ OneInService' /\ WaitBound'
  BY <1>1 DEF IInv, Numbered, OneInService, WaitBound
<1>7. BusyIsEarned'
  <2> SUFFICES ASSUME busy > p.arrives PROVE \E o \in flying \ {p} : o.departs = busy
    BY <1>1 DEF BusyIsEarned
  <2>1. now <= p.arrives /\ now \in Nat /\ busy \in Nat
    BY <1>1, <1>2 DEF IInv, OnTime, TypeOK
  <2>2. p.departs # busy /\ busy > now
    BY <2>1, <1>3
  <2> QED BY <2>2 DEF IInv, BusyIsEarned
<1> QED BY <1>4, <1>5, <1>6, <1>7 DEF IInv

LEMMA StepIInv == IInv /\ [Next]_vars => IInv'
<1> SUFFICES ASSUME IInv, [Next]_vars PROVE IInv'
  OBVIOUS
<1>1. CASE \E c \in Class : Send(c)
  BY <1>1, SendStep
<1>2. CASE Arrive
  BY <1>2, ArriveStep
<1>3. CASE SetLinkActive
  <2>1. TypeOK'
    BY <1>3 DEF IInv, TypeOK, SetLinkActive
  <2>2. \A p \in flying' : OnTime(p)'
    BY <1>3 DEF IInv, OnTime, SetLinkActive
  <2> QED
    BY <1>3, <2>1, <2>2 DEF IInv, Numbered, OneInService, BusyIsEarned, WaitBound, SetLinkActive
<1>4. CASE Elapse
  <2>1. PICK t \in now .. Horizon : /\ \A p \in flying : t <= p.arrives
                                    /\ now' = t
                                    /\ UNCHANGED <<active, busy, flying, offered>>
    BY <1>4 DEF Elapse
  <2>2. TypeOK' /\ now <= now'
    BY <2>1, BoundAssumption DEF IInv, TypeOK
  <2>3. \A p \in flying' : OnTime(p)'
    BY <2>1, <2>2, BoundAssumption DEF IInv, OnTime, TypeOK, Packet
  <2>4. BusyIsEarned'
    BY <2>1, <2>2, BoundAssumption DEF IInv, BusyIsEarned, TypeOK
  <2> QED BY <2>1, <2>2, <2>3, <2>4 DEF IInv, Numbered, OneInService, WaitBound
<1>5. CASE UNCHANGED vars
  BY <1>5 DEF IInv, TypeOK, OnTime, Numbered, OneInService, BusyIsEarned, WaitBound, vars
<1> QED BY <1>1, <1>2, <1>3, <1>4, <1>5 DEF Next

(* The link's invariant.                                                   *)
THEOREM Inductive == Spec => []IInv
BY InitIInv, StepIInv, PTL DEF Spec

-----------------------------------------------------------------------------
(* Every variable keeps its type.                                          *)
THEOREM TypeCorrect == Spec => []TypeOK
<1>1. IInv => TypeOK
  BY DEF IInv
<1> QED BY <1>1, Inductive, PTL

(* Transmissions never overlap, whatever sizes are mixed.                  *)
THEOREM OneAtATime == Spec => []OneInService
<1>1. IInv => OneInService
  BY DEF IInv
<1> QED BY <1>1, Inductive, PTL

(* Packets refused or lost never occupy the link.                          *)
THEOREM BusyForAReason == Spec => []BusyIsEarned
<1>1. IInv => BusyIsEarned
  BY DEF IInv
<1> QED BY <1>1, Inductive, PTL

(* Queueing delay is bounded by queue_limit service times.                 *)
THEOREM WaitIsBounded == Spec => []WaitBound
<1>1. IInv => WaitBound
  BY DEF IInv
<1> QED BY <1>1, Inductive, PTL

(* Packets of a class stay in order.                                       *)
THEOREM OrderKept == Spec => []OvertakenOnlyInProcessing
<1>1. IInv => OvertakenOnlyInProcessing
  <2> SUFFICES ASSUME IInv, NEW p \in flying, NEW q \in flying,
                      p.id < q.id, q.arrives <= p.arrives
               PROVE  Extra[q.class] + Service[q.class] <= Extra[p.class]
    BY DEF OvertakenOnlyInProcessing
  <2>1. p \in Packet /\ q \in Packet
    BY DEF IInv, TypeOK
  <2>2. /\ p.class \in Class /\ q.class \in Class
        /\ p.departs \in Nat /\ q.departs \in Nat
    BY <2>1 DEF Packet
  <2>3. p.departs + Service[q.class] <= q.departs
    BY DEF IInv, OneInService
  <2>4. /\ p.arrives = p.departs + LinkRecord.propagation + LinkRecord.processing + Extra[p.class]
        /\ q.arrives = q.departs + LinkRecord.propagation + LinkRecord.processing + Extra[q.class]
    BY DEF IInv, OnTime
  <2> QED BY <2>2, <2>3, <2>4, Parameters
<1> QED BY <1>1, Inductive, PTL

-----------------------------------------------------------------------------
(* Division, as the smallest and largest number in each slot of size s.    *)
LEMMA Slots ==
    ASSUME NEW x \in Nat, NEW s \in Nat, s > 0
    PROVE  /\ x \div s \in Nat
           /\ s * (x \div s) <= x
           /\ x < s * (x \div s) + s
<1>1. x = s * (x \div s) + (x % s)
  BY SMT
<1>2. x % s \in 0 .. s - 1
  BY SMT
<1>3. x \div s \in Nat
  BY SMT
<1>4. s * (x \div s) \in Int
  BY <1>3, Z3
<1> QED BY <1>1, <1>2, <1>3, <1>4

(* Numbers a slot apart are in different slots; one below the end of slot  *)
(* n is in slot n at most.                                                 *)
LEMMA SlotsApart ==
    ASSUME NEW x \in Nat, NEW y \in Nat, NEW s \in Nat, s > 0, x + s <= y
    PROVE  x \div s # y \div s
<1>1. SUFFICES ASSUME x \div s = y \div s PROVE FALSE
  OBVIOUS
<1>2. PICK k : k = s * (x \div s)
  OBVIOUS
<1>3. k <= x /\ y < k + s /\ k \in Int
  <2>1. k \in Int
    BY <1>2, Slots, Z3
  <2> QED BY <1>1, <1>2, <2>1, Slots
<1> QED BY <1>3

LEMMA SlotBound ==
    ASSUME NEW x \in Nat, NEW s \in Nat, s > 0, NEW n \in Nat, x < s * n + s
    PROVE  x \div s \in 0 .. n
<1>1. x \div s \in Nat /\ s * (x \div s) <= x
  BY Slots
<1>2. SUFFICES ASSUME x \div s > n PROVE FALSE
  BY <1>1
<1>3. PICK k \in Nat : k = x \div s
  BY <1>1
<1>4. s * (n + 1) <= s * k
  BY <1>2, <1>3, Z3
<1>5. s * (n + 1) = s * n + s
  BY Z3
<1>6. s * n \in Int /\ s * k \in Int
  BY <1>3, Z3
<1> QED BY <1>1, <1>3, <1>4, <1>5, <1>6

(* The number of slots.                                                    *)
LEMMA UpTo ==
    ASSUME NEW n \in Nat
    PROVE  IsFiniteSet(0 .. n) /\ Cardinality(0 .. n) = n + 1
<1>1. \A a, b \in Int :
        IsFiniteSet(a .. b) /\ Cardinality(a .. b) = IF a > b THEN 0 ELSE b - a + 1
  BY FS_Interval
<1>2. 0 \in Int /\ n \in Int /\ ~(0 > n) /\ n - 0 + 1 = n + 1
  OBVIOUS
<1> QED BY <1>1, <1>2

(* Of one class at most queue_limit packets wait behind the one in service: *)
(* their departures are a service time apart and none is further off than  *)
(* the wait allows.                                                        *)
THEOREM QueueIsBounded == Spec => []QueueLimit
<1>1. IInv => QueueLimit
  <2> SUFFICES ASSUME IInv, NEW c \in Class
               PROVE  Cardinality({p \in flying : p.class = c /\ p.departs > now})
                        <= LinkRecord.queue_limit + 1
    BY DEF QueueLimit
  <2> DEFINE Waiting == {p \in flying : p.class = c /\ p.departs > now}
             s == Service[c]
             slot == [p \in Waiting |-> (p.departs - now - 1) \div s]
  <2>1. s \in Nat /\ s > 0 /\ LinkRecord.queue_limit \in Nat /\ now \in Nat
    BY Parameters DEF IInv, TypeOK
  <2>2. \A p \in Waiting : /\ p.departs \in Nat /\ p.sent \in Nat /\ p.id \in Nat
                           /\ p.departs - now - 1 \in Nat
    BY <2>1 DEF IInv, TypeOK, Packet
  <2>3. \A p \in Waiting : slot[p] \in 0 .. LinkRecord.queue_limit
    <3> SUFFICES ASSUME NEW p \in Waiting
                 PROVE  (p.departs - now - 1) \div s \in 0 .. LinkRecord.queue_limit
      OBVIOUS
    <3>1. p.sent <= now /\ p.departs - p.sent <= (LinkRecord.queue_limit + 1) * s
      BY DEF IInv, OnTime, WaitBound
    <3>2. PICK m : m = LinkRecord.queue_limit * s
      OBVIOUS
    <3>3. /\ m \in Nat /\ (LinkRecord.queue_limit + 1) * s = m + s
          /\ s * LinkRecord.queue_limit = m
      BY <3>2, <2>1, ServiceTimesAddUp
    <3>4. p.departs - now - 1 < m + s
      BY <3>1, <3>3, <2>1, <2>2
    <3>5. p.departs - now - 1 < s * LinkRecord.queue_limit + s
      BY <3>3, <3>4
    <3>6. PICK x \in Nat : x = p.departs - now - 1
      BY <2>2
    <3> HIDE DEF s, Waiting
    <3> QED BY <3>5, <3>6, <2>1, SlotBound
  <2>4. \A p, q \in Waiting : slot[p] = slot[q] => p = q
    <3>1. \A p, q \in Waiting : p.id < q.id => slot[p] # slot[q]
      <4> SUFFICES ASSUME NEW p \in Waiting, NEW q \in Waiting, p.id < q.id
                   PROVE  (p.departs - now - 1) \div s # (q.departs - now - 1) \div s
        OBVIOUS
      <4>1. p.departs + s <= q.departs
        BY DEF IInv, OneInService
      <4>2. PICK x \in Nat, y \in Nat : x = p.departs - now - 1 /\ y = q.departs - now - 1
        BY <2>2
      <4>3. x + s <= y
        BY <4>1, <4>2, <2>1, <2>2
      <4> HIDE DEF s, Waiting
      <4> QED BY <4>2, <4>3, <2>1, SlotsApart
    <3>2. \A p, q \in Waiting : p.id = q.id => p = q
      BY DEF IInv, Numbered
    <3> HIDE DEF slot
    <3> QED BY <3>1, <3>2, <2>2
  <2>5. slot \in Injection(Waiting, 0 .. LinkRecord.queue_limit)
    BY <2>3, <2>4 DEF Injection, IsInjective
  <2>6. /\ IsFiniteSet(0 .. LinkRecord.queue_limit)
        /\ Cardinality(0 .. LinkRecord.queue_limit) = LinkRecord.queue_limit + 1
    <3>1. PICK n \in Nat : n = LinkRecord.queue_limit
      BY <2>1
    <3>2. IsFiniteSet(0 .. n) /\ Cardinality(0 .. n) = n + 1
      BY <3>1, UpTo
    <3> QED BY <3>1, <3>2
  <2> HIDE DEF slot
  <2> QED BY <2>5, <2>6, FS_Injection
<1> QED BY <1>1, Inductive, PTL
=============================================================================
