--------------------------- MODULE IPEngineProofs ---------------------------
(***************************************************************************)
(* The IP engine for every network, workload, failure list and RTT: no     *)
(* packet is lost uncounted or sent twice, the heap keeps its order, and   *)
(* the routing tables implement ControlPlane, whose properties follow.     *)
(***************************************************************************)
EXTENDS IPEngine, FiniteSetTheorems, SequenceTheorems, TLAPS

Counters == {"completed_requests", "dropped_interests", "dropped_data", "interest_tx",
             "data_tx", "queue_drops", "random_loss_drops"}
Endings == {"completed_requests", "dropped_interests", "dropped_data"}

Ended(s) == s["completed_requests"] + s["dropped_interests"] + s["dropped_data"]

(* What packets and counters say together.                                 *)
Accounts ==
    /\ requests \in Workloads
    /\ stats \in [Counters -> Nat]
    /\ IsFiniteSet(Packets)
    /\ OnePacketPerRequest

-----------------------------------------------------------------------------
(* Counting an ending, and counting anything else.                         *)
LEMMA CountEnding ==
    ASSUME NEW s \in [Counters -> Nat], NEW field \in Endings
    PROVE  Count(s, field) \in [Counters -> Nat] /\ Ended(Count(s, field)) = Ended(s) + 1
BY DEF Counters, Endings, Ended, Count

LEMMA CountOther ==
    ASSUME NEW s \in [Counters -> Nat], NEW field \in Counters \ Endings
    PROVE  Count(s, field) \in [Counters -> Nat] /\ Ended(Count(s, field)) = Ended(s)
BY DEF Counters, Endings, Ended, Count

(* What a packet of a request is bound for.                                *)
BoundFor(p) ==
    p.dst = IF p.phase = "request" THEN OwnerOf[requests[p.req].name]
                                   ELSE requests[p.req].consumer

(* The accounts, in terms of the sum of the endings.                       *)
LEMMA AllAccounted ==
    ASSUME Accounts
    PROVE  Ended(stats) \in Nat /\ Cardinality(Packets) + Ended(stats) = Len(requests)
<1>1. Cardinality(Packets) \in Nat
  BY FS_CardinalityType DEF Accounts
<1>2. /\ stats.completed_requests \in Nat
      /\ stats.dropped_interests \in Nat
      /\ stats.dropped_data \in Nat
  BY DEF Accounts, Counters
<1>3. Cardinality(Packets) + stats.completed_requests + stats.dropped_interests
        + stats.dropped_data = Len(requests)
  BY DEF Accounts, OnePacketPerRequest
<1> QED
  BY <1>1, <1>2, <1>3 DEF Ended

LEMMA AccountsAgain ==
    ASSUME requests' \in Workloads, stats' \in [Counters -> Nat], IsFiniteSet(Packets'),
           Cardinality(Packets') + Ended(stats') = Len(requests'),
           \A a, b \in Packets' : a.req = b.req => a = b,
           \A a \in Packets' : BoundFor(a)'
    PROVE  Accounts'
<1>1. Cardinality(Packets') \in Nat
  BY FS_CardinalityType
<1>2. /\ stats'.completed_requests \in Nat
      /\ stats'.dropped_interests \in Nat
      /\ stats'.dropped_data \in Nat
  BY DEF Counters
<1>3. Cardinality(Packets') + stats'.completed_requests + stats'.dropped_interests
        + stats'.dropped_data = Len(requests')
  BY <1>1, <1>2 DEF Ended
<1> QED
  BY <1>3 DEF Accounts, OnePacketPerRequest, BoundFor

(* One member of a set takes the place of another.                         *)
LEMMA Replaced ==
    ASSUME NEW S, IsFiniteSet(S), NEW e \in S, NEW p, p \notin S \ {e}
    PROVE  /\ IsFiniteSet((S \ {e}) \cup {p})
           /\ Cardinality((S \ {e}) \cup {p}) = Cardinality(S)
<1>1. Cardinality(S) \in Nat
  BY FS_CardinalityType
<1>2. IsFiniteSet(S \ {e}) /\ Cardinality(S \ {e}) = Cardinality(S) - 1
  BY FS_RemoveElement
<1>3. /\ IsFiniteSet((S \ {e}) \cup {p})
      /\ Cardinality((S \ {e}) \cup {p}) = Cardinality(S \ {e}) + 1
  BY <1>2, FS_AddElement
<1> QED
  BY <1>1, <1>2, <1>3

(* The three things a step can do to the packets of the network.           *)
LEMMA PacketEnds ==
    ASSUME Accounts, NEW e \in Packets, q' = q \ {e}, UNCHANGED requests,
           stats' \in [Counters -> Nat], Ended(stats') = Ended(stats) + 1
    PROVE  Accounts'
<1>1. Packets' = Packets \ {e}
  BY DEF Packets
<1>2. IsFiniteSet(Packets) /\ Cardinality(Packets) \in Nat
  BY FS_CardinalityType DEF Accounts
<1>3. IsFiniteSet(Packets') /\ Cardinality(Packets') = Cardinality(Packets) - 1
  BY <1>1, <1>2, FS_RemoveElement
<1>4. Ended(stats) \in Nat /\ Cardinality(Packets) + Ended(stats) = Len(requests)
  BY AllAccounted
<1>5. Cardinality(Packets') + Ended(stats') = Len(requests')
  BY <1>2, <1>3, <1>4
<1>6. \A a, b \in Packets' : a.req = b.req => a = b
  BY <1>1 DEF Accounts, OnePacketPerRequest
<1>7. \A a \in Packets' : BoundFor(a)'
  BY <1>1 DEF Accounts, OnePacketPerRequest, BoundFor
<1> QED
  BY <1>3, <1>5, <1>6, <1>7, AccountsAgain DEF Accounts

LEMMA PacketGoesOn ==
    ASSUME Accounts, NEW e \in Packets, UNCHANGED requests,
           NEW p, p.kind = "packet", p.req = e.req, BoundFor(p), q' = (q \ {e}) \cup {p},
           stats' \in [Counters -> Nat], Ended(stats') = Ended(stats)
    PROVE  Accounts'
<1>1. Packets' = (Packets \ {e}) \cup {p}
  BY DEF Packets
<1>2. p \notin Packets \ {e}
  BY DEF Accounts, OnePacketPerRequest
<1>3. IsFiniteSet(Packets)
  BY DEF Accounts
<1>4. IsFiniteSet(Packets') /\ Cardinality(Packets') = Cardinality(Packets)
  BY <1>1, <1>2, <1>3, Replaced
<1>5. Cardinality(Packets') + Ended(stats') = Len(requests')
  BY <1>4, AllAccounted
<1>6. \A a, b \in Packets' : a.req = b.req => a = b
  BY <1>1 DEF Accounts, OnePacketPerRequest
<1>7. \A a \in Packets' : BoundFor(a)'
  BY <1>1 DEF Accounts, OnePacketPerRequest, BoundFor
<1> QED
  BY <1>4, <1>5, <1>6, <1>7, AccountsAgain DEF Accounts

LEMMA NoPacketTouched ==
    ASSUME Accounts, Packets' = Packets, UNCHANGED <<requests, stats>>
    PROVE  Accounts'
BY DEF Accounts, OnePacketPerRequest

-----------------------------------------------------------------------------
LEMMA InitAccounts == Init => Accounts
<1> SUFFICES ASSUME Init PROVE Accounts
  OBVIOUS
<1> DEFINE first(r) == IPPacketEvent(requests[r].start_ms, r - 1, r, OwnerOf[requests[r].name],
                                     requests[r].consumer, 0, "request")
<1>1. PICK failures \in Schedules : q = InitialEvents(requests, failures)
  BY DEF Init
<1>2. Packets = {first(r) : r \in DOMAIN requests}
  <2>1. \A r \in DOMAIN requests : first(r).kind = "packet"
    BY DEF IPPacketEvent
  <2>2. \A i \in DOMAIN failures : ToggleEvent(failures[i], Len(requests) + i - 1, i).kind # "packet"
    BY DEF ToggleEvent
  <2>3. q = {first(r) : r \in DOMAIN requests}
              \cup {ToggleEvent(failures[i], Len(requests) + i - 1, i) : i \in DOMAIN failures}
    BY <1>1 DEF InitialEvents
  <2> HIDE DEF first
  <2> QED
    BY <2>1, <2>2, <2>3 DEF Packets
<1>3. requests \in Seq([consumer : Node, name : Name, start_ms : Nat])
  BY InputAssumption DEF Init
<1>4. Len(requests) \in Nat /\ DOMAIN requests = 1 .. Len(requests)
  BY <1>3
<1>5. IsFiniteSet(DOMAIN requests) /\ Cardinality(DOMAIN requests) = Len(requests)
  <2>1. 1 \in Int /\ Len(requests) \in Int
    BY <1>4
  <2>2. /\ IsFiniteSet(1 .. Len(requests))
        /\ Cardinality(1 .. Len(requests)) = IF 1 > Len(requests) THEN 0 ELSE Len(requests) - 1 + 1
    BY <2>1, FS_Interval
  <2> QED
    BY <1>4, <2>2
<1>6. \A r \in DOMAIN requests : first(r).req = r /\ BoundFor(first(r))
  BY DEF IPPacketEvent, BoundFor
<1>7. ExistsBijection(DOMAIN requests, Packets)
  <2> DEFINE f == [r \in DOMAIN requests |-> first(r)]
  <2>1. f \in [DOMAIN requests -> Packets]
    BY <1>2
  <2>2. \A a, b \in DOMAIN requests : f[a] = f[b] => a = b
    BY <1>6
  <2>3. \A p \in Packets : \E r \in DOMAIN requests : f[r] = p
    BY <1>2
  <2> HIDE DEF f
  <2> QED
    BY <2>1, <2>2, <2>3 DEF ExistsBijection, Bijection, Injection, Surjection, IsInjective
<1>8. IsFiniteSet(Packets) /\ Cardinality(Packets) = Len(requests)
  BY <1>5, <1>7, FS_Bijection
<1>9. stats \in [Counters -> Nat] /\ Ended(stats) = 0
  BY DEF Init, Counters, Ended
<1>10. \A a, b \in Packets : a.req = b.req => a = b
  BY <1>2, <1>6
<1>11. \A e \in Packets : BoundFor(e)
  BY <1>2, <1>6
<1>12. Cardinality(Packets) + Ended(stats) = Len(requests)
  BY <1>4, <1>8, <1>9
<1>13. requests \in Workloads
  BY DEF Init
<1> HIDE DEF first
<1> QED
  BY <1>8, <1>9, <1>10, <1>11, <1>12, <1>13
     DEF Accounts, OnePacketPerRequest, BoundFor, Ended, Counters

(* One packet is handled: it ends and is counted, or goes on as one.       *)
LEMMA PacketAccounts ==
    ASSUME Accounts, NEW e \in q, Packet(e)
    PROVE  Accounts'
<1>1. e \in Packets /\ UNCHANGED requests
  BY DEF Packet, Popped, Packets
<1>2. stats \in [Counters -> Nat] /\ BoundFor(e)
  BY <1>1 DEF Accounts, OnePacketPerRequest, BoundFor
<1>3. DropCounter(e) \in Endings
  BY DEF DropCounter, Endings
<1>4. CASE TurnAround(e)
  <2> DEFINE p == IPPacketEvent(e.t, seq, e.req, requests[e.req].consumer, e.at, e.hops, "response")
  <2>1. p.kind = "packet" /\ p.req = e.req /\ BoundFor(p)
    BY DEF IPPacketEvent, BoundFor
  <2>2. q' = (q \ {e}) \cup {p} /\ stats' = stats
    BY <1>4 DEF TurnAround
  <2> HIDE DEF p
  <2> QED
    BY <1>1, <1>2, <2>1, <2>2, PacketGoesOn
<1>5. CASE Completed(e)
  <2>1. q' = q \ {e} /\ stats' = Count(stats, "completed_requests")
    BY <1>5 DEF Completed
  <2> QED
    BY <1>1, <1>2, <2>1, CountEnding, PacketEnds DEF Endings
<1>6. CASE NoRoute(e)
  <2>1. q' = q \ {e} /\ stats' = Count(stats, DropCounter(e))
    BY <1>6 DEF NoRoute
  <2> QED
    BY <1>1, <1>2, <1>3, <2>1, CountEnding, PacketEnds
<1>7. ASSUME NEW result, DropOnLink(e, result) PROVE Accounts'
  <2> DEFINE s == Count(stats, DropCounter(e))
  <2> DEFINE why == IF result.reason = "random_loss" THEN "random_loss_drops" ELSE "queue_drops"
  <2>1. q' = q \ {e} /\ stats' = Count(s, why)
    BY <1>7 DEF DropOnLink
  <2>2. s \in [Counters -> Nat] /\ Ended(s) = Ended(stats) + 1
    BY <1>2, <1>3, CountEnding
  <2>3. why \in Counters \ Endings
    BY DEF Counters, Endings
  <2> HIDE DEF s, why
  <2>4. stats' \in [Counters -> Nat] /\ Ended(stats') = Ended(s)
    BY <2>1, <2>2, <2>3, CountOther
  <2> QED
    BY <1>1, <2>1, <2>2, <2>4, PacketEnds
<1>8. ASSUME NEW result, Transmit(e, result) PROVE Accounts'
  <2> DEFINE v == routes[e.at][e.dst]
  <2> DEFINE p == IPPacketEvent(result.arrival, seq, e.req, e.dst, v, e.hops + 1, e.phase)
  <2> DEFINE sent == IF e.phase = "request" THEN "interest_tx" ELSE "data_tx"
  <2>1. q' = (q \ {e}) \cup {p} /\ stats' = Count(stats, sent)
    BY <1>8 DEF Transmit, Sent
  <2>2. p.kind = "packet" /\ p.req = e.req /\ BoundFor(p)
    BY <1>2 DEF IPPacketEvent, BoundFor
  <2>3. sent \in Counters \ Endings
    BY DEF Counters, Endings
  <2> HIDE DEF p, sent
  <2>4. stats' \in [Counters -> Nat] /\ Ended(stats') = Ended(stats)
    BY <1>2, <2>1, <2>3, CountOther
  <2> QED
    BY <1>1, <2>1, <2>2, <2>4, PacketGoesOn
<1> QED
  BY <1>4, <1>5, <1>6, <1>7, <1>8 DEF Packet

LEMMA AccountsStep == Accounts /\ [Next]_vars => Accounts'
<1> SUFFICES ASSUME Accounts, [Next]_vars PROVE Accounts'
  OBVIOUS
<1>1. ASSUME NEW e \in q, Toggle(e) PROVE Accounts'
  <2>1. Packets' = Packets
    BY <1>1 DEF Toggle, Popped, PushRoutes, BuildRoutes, Handled, Packets, ApplyEvent
  <2> QED
    BY <1>1, <2>1, NoPacketTouched DEF Toggle
<1>2. ASSUME NEW e \in q, RoutesApply(e) PROVE Accounts'
  <2>1. Packets' = Packets
    BY <1>2 DEF RoutesApply, Popped, Packets
  <2> QED
    BY <1>2, <2>1, NoPacketTouched DEF RoutesApply
<1>3. CASE UNCHANGED vars
  BY <1>3, NoPacketTouched DEF vars, Packets
<1> QED
  BY <1>1, <1>2, <1>3, PacketAccounts DEF Next

(* Whatever links, queues and tables do, a request is one packet until it  *)
(* is completed or counted as dropped.                                     *)
THEOREM OneAndCounted == Spec => []OnePacketPerRequest
<1>1. Accounts => OnePacketPerRequest
  BY DEF Accounts
<1> QED
  BY <1>1, InitAccounts, AccountsStep, PTL DEF Spec

-----------------------------------------------------------------------------
(* The heap.  Events are told apart by their numbers and none lies in the  *)
(* past; toggles keep the order of the failure list, pushed tables that of *)
(* the pushes, and every toggle was numbered before every push.            *)
ToggleEvents == {e \in q : e.kind = "toggle"}
ApplyEvents == {e \in q : e.kind = "routes_apply"}

Ordered ==
    /\ \A e \in q : e.t \in Nat /\ e.seq \in Nat /\ now <= e.t /\ e.seq < seq
    /\ \A a, b \in q : a.seq = b.seq => a = b

ControlOrder ==
    /\ \A e \in ToggleEvents : e.link \in Link /\ e.idx \in Nat
    /\ \A a, b \in ToggleEvents : a.seq < b.seq <=> a.idx < b.idx
    /\ \A e \in ApplyEvents : e.n \in Nat /\ e.n < cstats.fib_pushes
    /\ \A a, b \in ApplyEvents : a.seq < b.seq <=> a.n < b.n
    /\ \A a \in ToggleEvents, b \in ApplyEvents : a.seq < b.seq

Directed == {l \in Node \X Node : {l[1], l[2]} \in Link}

Typed ==
    /\ forwarding \in Forwarding
    /\ active \subseteq Link
    /\ busy \in [Directed -> Nat]
    /\ seq \in Nat /\ now \in Nat /\ cstats.fib_pushes \in Nat

Heap == Typed /\ Ordered /\ ControlOrder

-----------------------------------------------------------------------------
(* Popping an event, alone or with one new event in its place.             *)
LEMMA PopKeepsOrder ==
    ASSUME Typed, Ordered, NEW e \in q, \A o \in q \ {e} : Before(e, o), now' = e.t,
           q' = q \ {e}, seq' = seq
    PROVE  Ordered' /\ now' \in Nat
BY DEF Typed, Ordered, Before

LEMMA PushKeepsOrder ==
    ASSUME Typed, Ordered, NEW e \in q, \A o \in q \ {e} : Before(e, o), now' = e.t,
           NEW p, p.t \in Nat, e.t <= p.t, p.seq = seq, q' = (q \ {e}) \cup {p}, seq' = seq + 1
    PROVE  Ordered' /\ now' \in Nat /\ seq' \in Nat
BY DEF Typed, Ordered, Before

LEMMA FewerControlEvents ==
    ASSUME ControlOrder, ToggleEvents' \subseteq ToggleEvents, ApplyEvents' \subseteq ApplyEvents,
           cstats'.fib_pushes = cstats.fib_pushes
    PROVE  ControlOrder'
BY DEF ControlOrder

LEMMA PushKeepsControlOrder ==
    ASSUME Heap, NEW p, p.seq = seq, p.n = cstats.fib_pushes,
           ToggleEvents' \subseteq ToggleEvents, ApplyEvents' = ApplyEvents \cup {p},
           cstats'.fib_pushes = cstats.fib_pushes + 1
    PROVE  ControlOrder'
<1>1. \A e \in ToggleEvents \cup ApplyEvents : e.seq \in Nat /\ e.seq < seq
  BY DEF Heap, Ordered, ToggleEvents, ApplyEvents
<1>2. seq \in Nat /\ cstats.fib_pushes \in Nat
  BY DEF Heap, Typed
<1>3. \A e \in ApplyEvents : e.n \in Nat /\ e.n < cstats.fib_pushes
  BY DEF Heap, ControlOrder
<1>4. \A a, b \in ApplyEvents' : a.seq < b.seq <=> a.n < b.n
  BY <1>1, <1>2, <1>3 DEF Heap, ControlOrder
<1> QED
  BY <1>1, <1>2, <1>3, <1>4 DEF Heap, ControlOrder

(* A packet that is sent arrives later, over a link that is there.         *)
LEMMA Sending ==
    ASSUME Typed, NEW u, NEW v, NEW t \in Nat, NEW service \in Nat, NEW lost \in BOOLEAN,
           NEW result, result = Traverse(LinkRecord, {u, v} \in active, busy[<<u, v>>], t,
                                         service, ProcessingDelay, lost),
           result.ok
    PROVE  /\ <<u, v>> \in Directed
           /\ result.arrival \in Nat /\ t <= result.arrival
           /\ result.busy \in Nat
<1>1. {u, v} \in active
  BY DEF Traverse, Refused
<1>2. <<u, v>> \in Directed
  BY <1>1, NetworkAssumption DEF Typed, Directed
<1>3. busy[<<u, v>>] \in Nat
  BY <1>2 DEF Typed
<1>4. /\ result.arrival = Arrival(LinkRecord, busy[<<u, v>>], t, service, ProcessingDelay)
      /\ result.busy = Departure(busy[<<u, v>>], t, service)
  BY <1>1 DEF Traverse, Refused, Lost
<1>5. /\ LinkRecord.propagation \in Nat /\ LinkRecord.processing \in Nat
      /\ ProcessingDelay \in Nat
  BY NetworkAssumption, ParameterAssumption
<1>6. Wait(busy[<<u, v>>], t) \in Nat
  BY <1>3 DEF Wait
<1> QED
  BY <1>2, <1>4, <1>5, <1>6 DEF Arrival, Departure

-----------------------------------------------------------------------------
LEMMA InitHeap == Init => Heap
<1> SUFFICES ASSUME Init PROVE Heap
  OBVIOUS
<1> DEFINE first(r) == IPPacketEvent(requests[r].start_ms, r - 1, r, OwnerOf[requests[r].name],
                                     requests[r].consumer, 0, "request")
<1>1. PICK failures \in Schedules : /\ q = InitialEvents(requests, failures)
                                    /\ seq = Len(requests) + Len(failures)
  BY DEF Init
<1> DEFINE later(i) == ToggleEvent(failures[i], Len(requests) + i - 1, i)
<1> DEFINE Request == [consumer : Node, name : Name, start_ms : Nat]
<1> DEFINE Failure == [at : Nat, link : Link, up : BOOLEAN]
<1>0. /\ \A r \in Request : r.start_ms \in Nat
      /\ \A f \in Failure : f.at \in Nat /\ f.link \in Link
  OBVIOUS
<1>2. requests \in Seq(Request) /\ failures \in Seq(Failure)
  BY InputAssumption DEF Init
<1> HIDE DEF Request, Failure
<1>3. /\ Len(requests) \in Nat /\ DOMAIN requests = 1 .. Len(requests)
      /\ Len(failures) \in Nat /\ DOMAIN failures = 1 .. Len(failures)
  BY <1>2
<1>4. q = {first(r) : r \in DOMAIN requests} \cup {later(i) : i \in DOMAIN failures}
  BY <1>1 DEF InitialEvents
<1>5. \A r \in DOMAIN requests :
         first(r).kind = "packet" /\ first(r).t \in Nat /\ first(r).seq = r - 1
  <2>1. \A r \in DOMAIN requests : requests[r].start_ms \in Nat
    BY <1>2, <1>0
  <2> QED
    BY <2>1 DEF IPPacketEvent
<1>6. \A i \in DOMAIN failures :
         /\ later(i).kind = "toggle" /\ later(i).t \in Nat /\ later(i).seq = Len(requests) + i - 1
         /\ later(i).idx = i /\ later(i).link \in Link
  <2>1. \A i \in DOMAIN failures : failures[i].at \in Nat /\ failures[i].link \in Link
    BY <1>2, <1>0
  <2> QED
    BY <2>1 DEF ToggleEvent
<1>7. now = 0 /\ seq = Len(requests) + Len(failures) /\ cstats.fib_pushes = 0
  BY <1>1 DEF Init
<1> HIDE DEF first, later
<1>8. Ordered
  BY <1>3, <1>4, <1>5, <1>6, <1>7 DEF Ordered
<1>9. /\ ToggleEvents = {later(i) : i \in DOMAIN failures}
      /\ ApplyEvents = {}
  BY <1>4, <1>5, <1>6 DEF ToggleEvents, ApplyEvents
<1>10. ControlOrder
  BY <1>3, <1>6, <1>9 DEF ControlOrder
<1>11. Typed
  BY <1>3, <1>7 DEF Typed, Directed, Init
<1> QED
  BY <1>8, <1>10, <1>11 DEF Heap

LEMMA ToggleHeap ==
    ASSUME Heap, NEW e \in q, Toggle(e)
    PROVE  Heap'
<1> DEFINE new == Routes(SetLinkActive(e))
<1>1. /\ e \in ToggleEvents /\ now' = e.t
      /\ \A o \in q \ {e} : Before(e, o)
  BY DEF Toggle, Popped, ToggleEvents
<1>2. active' \subseteq Link /\ UNCHANGED <<forwarding, busy>>
  BY <1>1 DEF Toggle, SetLinkActive, Heap, Typed, ControlOrder
<1>3. CASE BuildRoutes(e, new)
  <2>1. q' = q \ {e} /\ UNCHANGED <<seq, cstats>>
    BY <1>3 DEF BuildRoutes, Handled
  <2>2. Ordered' /\ now' \in Nat
    BY <1>1, <2>1, PopKeepsOrder DEF Heap
  <2>3. ControlOrder'
    BY <2>1, FewerControlEvents DEF Heap, ToggleEvents, ApplyEvents
  <2> QED
    BY <1>2, <2>1, <2>2, <2>3 DEF Heap, Typed, Directed
<1>4. CASE PushRoutes(e, new)
  <2> DEFINE delay == ControlDelay({n \in Node : last[n] # new[n]})
  <2> DEFINE p == ApplyEvent(e.t + delay, seq, cstats.fib_pushes, new, delay)
  <2>1. /\ q' = (q \ {e}) \cup {p}
        /\ seq' = seq + 1 /\ cstats'.fib_pushes = cstats.fib_pushes + 1
    BY <1>4 DEF PushRoutes
  <2>2. delay \in Nat /\ e.t \in Nat
    BY ParameterAssumption DEF ControlDelay, Heap, Ordered
  <2>3. /\ p.kind = "routes_apply" /\ p.t = e.t + delay /\ p.seq = seq
        /\ p.n = cstats.fib_pushes
    BY DEF ApplyEvent
  <2> HIDE DEF delay, p, new
  <2>4. p.t \in Nat /\ e.t <= p.t
    BY <2>2, <2>3
  <2>5. Ordered' /\ now' \in Nat /\ seq' \in Nat
    BY <1>1, <2>1, <2>3, <2>4, PushKeepsOrder DEF Heap
  <2>6. ToggleEvents' \subseteq ToggleEvents /\ ApplyEvents' = ApplyEvents \cup {p}
    BY <1>1, <2>1, <2>3 DEF ToggleEvents, ApplyEvents
  <2>7. ControlOrder'
    BY <2>1, <2>3, <2>6, PushKeepsControlOrder
  <2> QED
    BY <1>2, <2>1, <2>5, <2>7 DEF Heap, Typed, Directed
<1> QED
  BY <1>3, <1>4 DEF Toggle

LEMMA RoutesApplyHeap ==
    ASSUME Heap, NEW e \in q, RoutesApply(e)
    PROVE  Heap'
<1>1. /\ now' = e.t /\ q' = q \ {e} /\ UNCHANGED <<seq, active, forwarding, busy, cstats>>
      /\ \A o \in q \ {e} : Before(e, o)
  BY DEF RoutesApply, Popped
<1>2. Ordered' /\ now' \in Nat
  BY <1>1, PopKeepsOrder DEF Heap
<1>3. ControlOrder'
  BY <1>1, FewerControlEvents DEF Heap, ToggleEvents, ApplyEvents
<1> QED
  BY <1>1, <1>2, <1>3 DEF Heap, Typed, Directed

(* A packet handled is gone, or one packet not earlier takes its place.    *)
LEMMA PacketOnHeap ==
    ASSUME Heap, NEW e \in q, Packet(e)
    PROVE  /\ \/ q' = q \ {e} /\ seq' = seq
              \/ \E p : /\ p.kind = "packet" /\ p.t \in Nat /\ e.t <= p.t /\ p.seq = seq
                        /\ q' = (q \ {e}) \cup {p} /\ seq' = seq + 1
           /\ busy' \in [Directed -> Nat]
<1>1. e.t \in Nat /\ busy \in [Directed -> Nat]
  BY DEF Heap, Typed, Ordered
<1>2. CASE TurnAround(e)
  <2> DEFINE p == IPPacketEvent(e.t, seq, e.req, requests[e.req].consumer, e.at, e.hops, "response")
  <2>1. p.kind = "packet" /\ p.t = e.t /\ p.seq = seq
    BY DEF IPPacketEvent
  <2>2. q' = (q \ {e}) \cup {p} /\ seq' = seq + 1 /\ busy' = busy
    BY <1>2 DEF TurnAround
  <2>3. p.t \in Nat /\ e.t <= p.t
    BY <1>1, <2>1
  <2> HIDE DEF p
  <2> QED
    BY <1>1, <2>1, <2>2, <2>3
<1>3. CASE Completed(e) \/ NoRoute(e)
  BY <1>1, <1>3 DEF Completed, NoRoute
<1>4. ASSUME NEW result, DropOnLink(e, result)
      PROVE  q' = q \ {e} /\ seq' = seq /\ busy' \in [Directed -> Nat]
  BY <1>1, <1>4 DEF DropOnLink
<1>5. ASSUME NEW lost \in BOOLEAN, Transmit(e, Traversal(e, lost))
      PROVE  /\ \E p : /\ p.kind = "packet" /\ p.t \in Nat /\ e.t <= p.t /\ p.seq = seq
                       /\ q' = (q \ {e}) \cup {p} /\ seq' = seq + 1
             /\ busy' \in [Directed -> Nat]
  <2> DEFINE v == routes[e.at][e.dst]
  <2> DEFINE result == Traversal(e, lost)
  <2> DEFINE p == IPPacketEvent(result.arrival, seq, e.req, e.dst, v, e.hops + 1, e.phase)
  <2> DEFINE service == IF e.phase = "request" THEN RequestService ELSE DataService
  <2>1. service \in Nat
    BY ParameterAssumption
  <2>2. result = Traverse(LinkRecord, {e.at, v} \in active, busy[<<e.at, v>>], e.t, service,
                          ProcessingDelay, lost)
    BY DEF Traversal
  <2>3. /\ result.ok /\ q' = (q \ {e}) \cup {p} /\ seq' = seq + 1
        /\ busy' = [busy EXCEPT ![<<e.at, v>>] = result.busy]
    BY <1>5 DEF Transmit, Sent
  <2>4. p.kind = "packet" /\ p.t = result.arrival /\ p.seq = seq
    BY DEF IPPacketEvent
  <2> HIDE DEF p, v, result, service
  <2>5. /\ result.arrival \in Nat /\ e.t <= result.arrival
        /\ result.busy \in Nat
    BY <1>1, <2>1, <2>2, <2>3, Sending DEF Heap
  <2> QED
    BY <1>1, <2>3, <2>4, <2>5
<1>6. CASE \E lost \in BOOLEAN :
              DropOnLink(e, Traversal(e, lost)) \/ Transmit(e, Traversal(e, lost))
  <2>1. PICK lost \in BOOLEAN :
              DropOnLink(e, Traversal(e, lost)) \/ Transmit(e, Traversal(e, lost))
    BY <1>6
  <2>2. CASE DropOnLink(e, Traversal(e, lost))
    BY <2>2, <1>4
  <2>3. CASE Transmit(e, Traversal(e, lost))
    BY <2>3, <1>5
  <2> QED
    BY <2>1, <2>2, <2>3
<1>7. \/ TurnAround(e) \/ Completed(e) \/ NoRoute(e)
      \/ \E lost \in BOOLEAN :
            DropOnLink(e, Traversal(e, lost)) \/ Transmit(e, Traversal(e, lost))
  <2>1. (IF LinkRecord.lossy THEN BOOLEAN ELSE {FALSE}) \subseteq BOOLEAN
    OBVIOUS
  <2> QED
    BY <2>1 DEF Packet
<1> QED
  BY <1>2, <1>3, <1>6, <1>7

LEMMA PacketHeap ==
    ASSUME Heap, NEW e \in q, Packet(e)
    PROVE  Heap'
<1>1. /\ e.kind = "packet" /\ now' = e.t
      /\ \A o \in q \ {e} : Before(e, o)
      /\ UNCHANGED <<forwarding, active, cstats>>
  BY DEF Packet, Popped, control
<1>2. CASE q' = q \ {e} /\ seq' = seq
  <2>1. Ordered' /\ now' \in Nat
    BY <1>1, <1>2, PopKeepsOrder DEF Heap
  <2>2. ControlOrder'
    BY <1>1, <1>2, FewerControlEvents DEF Heap, ToggleEvents, ApplyEvents
  <2> QED
    BY <1>1, <1>2, <2>1, <2>2, PacketOnHeap DEF Heap, Typed, Directed
<1>3. CASE \E p : /\ p.kind = "packet" /\ p.t \in Nat /\ e.t <= p.t /\ p.seq = seq
                  /\ q' = (q \ {e}) \cup {p} /\ seq' = seq + 1
  <2>1. PICK p : /\ p.kind = "packet" /\ p.t \in Nat /\ e.t <= p.t /\ p.seq = seq
                 /\ q' = (q \ {e}) \cup {p} /\ seq' = seq + 1
    BY <1>3
  <2>2. Ordered' /\ now' \in Nat /\ seq' \in Nat
    BY <1>1, <2>1, PushKeepsOrder DEF Heap
  <2>3. ControlOrder'
    BY <1>1, <2>1, FewerControlEvents DEF Heap, ToggleEvents, ApplyEvents
  <2> QED
    BY <1>1, <2>2, <2>3, PacketOnHeap DEF Heap, Typed, Directed
<1> QED
  BY <1>2, <1>3, PacketOnHeap

LEMMA HeapStep == Heap /\ [Next]_vars => Heap'
<1> SUFFICES ASSUME Heap, [Next]_vars PROVE Heap'
  OBVIOUS
<1>1. CASE UNCHANGED vars
  BY <1>1 DEF vars, Heap, Typed, Ordered, ControlOrder, ToggleEvents, ApplyEvents, Directed
<1> QED
  BY <1>1, ToggleHeap, RoutesApplyHeap, PacketHeap DEF Next

(* The heap never has to compare two events by more than time and number,  *)
(* and never runs backwards.                                               *)
THEOREM HeapIsOrdered == Spec => []Ordered
<1>1. Heap => Ordered
  BY DEF Heap
<1> QED
  BY <1>1, InitHeap, HeapStep, PTL DEF Spec

-----------------------------------------------------------------------------
(* How far a packet can go.  On a leg, between two changes of the tables,  *)
(* its rank descends with every hop; a turn around or a change of tables   *)
(* gives it a new rank, and the changes to come are events of the heap.    *)
Farthest == Cardinality(Node) - 1

Ranks(table, d) ==
    {rank \in [Node -> 0 .. Farthest] :
        \A n \in Node : d \in DOMAIN table[n] => rank[table[n][d]] < rank[n]}

Computed(f, table) == \E up \in SUBSET Link : table = RoutesOf[f][up]

Changes == {e \in q : e.kind # "packet"}

Leg(e) == IF e.phase = "request" THEN 1 ELSE 2

(* The packet has made no more hops than the descents behind it allow,     *)
(* with left of the changes of the tables still to come.                   *)
OnItsWay(e, table, total, left) ==
    /\ e.at \in Node /\ e.hops \in Nat
    /\ \E rank \in Ranks(table, e.dst) :
          e.hops + rank[e.at] <= (Leg(e) + total - left) * Farthest

Paths(total) ==
    /\ IsFiniteSet(Changes) /\ Cardinality(Changes) <= total
    /\ Computed(forwarding, routes)
    /\ \A e \in ApplyEvents : Computed(forwarding, e.table)
    /\ \A e \in Packets : e.req \in DOMAIN requests
    /\ \A e \in Packets : OnItsWay(e, routes, total, Cardinality(Changes))

LEMMA FarthestIsNatural ==
    ASSUME NEW n \in Node
    PROVE  Farthest \in Nat
<1>1. Cardinality(Node) \in Nat
  BY NetworkAssumption, FS_CardinalityType
<1>2. Cardinality(Node) # 0
  BY NetworkAssumption, FS_EmptySet
<1> QED
  BY <1>1, <1>2 DEF Farthest

(* A descent more is worth the greatest rank.                              *)
LEMMA OneMoreDescent ==
    ASSUME NEW hops \in Nat, NEW rank \in Nat, NEW descents \in Int, NEW m \in Nat,
           hops + rank <= descents * m, NEW other \in 0 .. m
    PROVE  hops + other <= (descents + 1) * m
<1>1. (descents + 1) * m = descents * m + m
  OBVIOUS
<1> QED
  BY <1>1

LEMMA FewerDescents ==
    ASSUME NEW a \in Int, NEW b \in Int, a <= b, NEW m \in Nat
    PROVE  a * m <= b * m
<1>1. (b - a) * m >= 0
  OBVIOUS
<1>2. (b - a) * m = b * m - a * m
  OBVIOUS
<1> QED
  BY <1>1, <1>2

LEMMA ComputedIsRanked ==
    ASSUME NEW f \in Forwarding, NEW table, Computed(f, table), NEW d \in Destinations
    PROVE  \E rank \in Ranks(table, d) : TRUE
<1>1. PICK up \in SUBSET Link : table = RoutesOf[f][up]
  BY DEF Computed
<1> QED
  BY <1>1, TreeAssumption DEF Ranks, Farthest

LEMMA BoundForDestination ==
    ASSUME Accounts, NEW r \in DOMAIN requests
    PROVE  /\ requests[r].consumer \in Destinations /\ requests[r].consumer \in Node
           /\ OwnerOf[requests[r].name] \in Destinations
<1> DEFINE Request == [consumer : Node, name : Name, start_ms : Nat]
<1>1. \A request \in Request : request.consumer \in Node
  OBVIOUS
<1>2. requests \in Workloads /\ requests \in Seq(Request)
  BY InputAssumption DEF Accounts
<1> HIDE DEF Request
<1>3. requests[r] \in Request
  BY <1>2
<1>4. {requests[r].consumer, OwnerOf[requests[r].name]} \subseteq Destinations
  BY <1>2, DestinationAssumption
<1> QED
  BY <1>1, <1>3, <1>4

LEMMA DestinationKnown ==
    ASSUME Accounts, NEW e \in Packets, e.req \in DOMAIN requests
    PROVE  e.dst \in Destinations
BY BoundForDestination DEF Accounts, OnePacketPerRequest

(* With other tables, or bound elsewhere, a packet has a descent more.     *)
LEMMA OtherDescent ==
    ASSUME NEW f \in Forwarding, NEW old, NEW new, Computed(f, new),
           NEW total \in Nat, NEW left \in Int, NEW less \in Int,
           NEW e, OnItsWay(e, old, total, left),
           NEW p, p.at = e.at, p.hops = e.hops, p.dst \in Destinations,
           Leg(p) - less = Leg(e) - left + 1
    PROVE  OnItsWay(p, new, total, less)
<1>1. e.at \in Node /\ e.hops \in Nat
  BY DEF OnItsWay
<1>2. PICK rank \in Ranks(old, e.dst) :
            e.hops + rank[e.at] <= (Leg(e) + total - left) * Farthest
  BY DEF OnItsWay
<1>3. PICK other \in Ranks(new, p.dst) : TRUE
  BY ComputedIsRanked
<1>4. rank[e.at] \in 0 .. Farthest /\ other[e.at] \in 0 .. Farthest /\ Farthest \in Nat
  BY <1>1, FarthestIsNatural DEF Ranks
<1>5. Leg(e) \in Nat /\ Leg(p) \in Nat
  BY DEF Leg
<1>6. e.hops + other[e.at] <= ((Leg(e) + total - left) + 1) * Farthest
  <2>1. Leg(e) + total - left \in Int /\ rank[e.at] \in Nat
    BY <1>4, <1>5
  <2> QED
    BY <1>1, <1>2, <1>4, <2>1, OneMoreDescent
<1>7. (Leg(e) + total - left) + 1 = Leg(p) + total - less
  BY <1>5
<1> QED
  BY <1>1, <1>3, <1>6, <1>7 DEF OnItsWay

LEMMA InitPaths ==
    ASSUME NEW total \in Nat, \A s \in Schedules : Len(s) <= total, Init
    PROVE  Paths(total)
<1> DEFINE first(r) == IPPacketEvent(requests[r].start_ms, r - 1, r, OwnerOf[requests[r].name],
                                     requests[r].consumer, 0, "request")
<1>1. PICK failures \in Schedules : q = InitialEvents(requests, failures)
  BY DEF Init
<1> DEFINE later(i) == ToggleEvent(failures[i], Len(requests) + i - 1, i)
<1>2. q = {first(r) : r \in DOMAIN requests} \cup {later(i) : i \in DOMAIN failures}
  BY <1>1 DEF InitialEvents
<1>3. /\ \A r \in DOMAIN requests :
            /\ first(r).kind = "packet" /\ first(r).req = r /\ first(r).hops = 0
            /\ first(r).at = requests[r].consumer /\ first(r).phase = "request"
      /\ \A i \in DOMAIN failures : later(i).kind = "toggle" /\ later(i).idx = i
  BY DEF IPPacketEvent, ToggleEvent
<1> HIDE DEF first, later
<1>4. Len(failures) \in Nat /\ DOMAIN failures = 1 .. Len(failures) /\ Len(failures) <= total
  BY InputAssumption
<1>5. Changes = {later(i) : i \in DOMAIN failures} /\ ApplyEvents = {}
      /\ Packets = {first(r) : r \in DOMAIN requests}
  BY <1>2, <1>3 DEF Changes, ApplyEvents, Packets
<1>6. IsFiniteSet(Changes) /\ Cardinality(Changes) = Len(failures)
  <2>1. IsFiniteSet(DOMAIN failures) /\ Cardinality(DOMAIN failures) = Len(failures)
    <3>1. 1 \in Int /\ Len(failures) \in Int
      BY <1>4
    <3>2. /\ IsFiniteSet(1 .. Len(failures))
          /\ Cardinality(1 .. Len(failures)) = IF 1 > Len(failures) THEN 0 ELSE Len(failures) - 1 + 1
      BY <3>1, FS_Interval
    <3> QED
      BY <1>4, <3>2
  <2> DEFINE f == [i \in DOMAIN failures |-> later(i)]
  <2>2. ExistsBijection(DOMAIN failures, Changes)
    <3>1. f \in [DOMAIN failures -> Changes]
      BY <1>5
    <3>2. \A a, b \in DOMAIN failures : f[a] = f[b] => a = b
      BY <1>3
    <3>3. \A p \in Changes : \E i \in DOMAIN failures : f[i] = p
      BY <1>5
    <3> HIDE DEF f
    <3> QED
      BY <3>1, <3>2, <3>3 DEF ExistsBijection, Bijection, Injection, Surjection, IsInjective
  <2> QED
    BY <2>1, <2>2, FS_Bijection
<1>7. Computed(forwarding, routes)
  BY DEF Init, Computed, Routes
<1>8. forwarding \in Forwarding /\ Accounts
  BY InitAccounts DEF Init
<1>9. \A e \in Packets : e.req \in DOMAIN requests
  BY <1>3, <1>5
<1>10. ASSUME NEW e \in Packets PROVE OnItsWay(e, routes, total, Cardinality(Changes))
  <2>1. e.req \in DOMAIN requests /\ e.at = requests[e.req].consumer /\ e.hops = 0 /\ Leg(e) = 1
    BY <1>3, <1>5 DEF Leg
  <2>2. e.at \in Node /\ e.dst \in Destinations
    BY <1>8, <2>1, BoundForDestination, DestinationKnown
  <2>3. PICK rank \in Ranks(routes, e.dst) : TRUE
    BY <1>7, <1>8, <2>2, ComputedIsRanked
  <2>4. rank[e.at] \in 0 .. Farthest /\ Farthest \in Nat
    BY <2>2, FarthestIsNatural DEF Ranks
  <2>5. 1 * Farthest <= (1 + total - Len(failures)) * Farthest
    <3>1. 1 + total - Len(failures) \in Int /\ 1 <= 1 + total - Len(failures)
      BY <1>4
    <3> QED
      BY <2>4, <3>1, FewerDescents
  <2>6. e.hops + rank[e.at] <= (Leg(e) + total - Cardinality(Changes)) * Farthest
    BY <1>6, <2>1, <2>4, <2>5
  <2> QED
    BY <2>1, <2>2, <2>3, <2>6 DEF OnItsWay
<1> QED
  BY <1>4, <1>5, <1>6, <1>7, <1>9, <1>10 DEF Paths

LEMMA PathsTyped ==
    ASSUME NEW total \in Nat, Heap, Paths(total)
    PROVE  /\ forwarding \in Forwarding
           /\ IsFiniteSet(Changes) /\ Cardinality(Changes) \in Nat
           /\ Cardinality(Changes) <= total
BY FS_CardinalityType DEF Paths, Heap, Typed

(* A change of the tables: one change less to come.                        *)
LEMMA TablesChange ==
    ASSUME NEW total \in Nat, Accounts, Heap, Paths(total), NEW e \in Changes,
           q' = q \ {e}, UNCHANGED <<requests, forwarding>>, Computed(forwarding, routes')
    PROVE  Paths(total)'
<1>1. Changes' = Changes \ {e} /\ Packets' = Packets /\ ApplyEvents' \subseteq ApplyEvents
  BY DEF Changes, Packets, ApplyEvents
<1>2. /\ IsFiniteSet(Changes') /\ Cardinality(Changes') = Cardinality(Changes) - 1
      /\ Cardinality(Changes) \in Nat /\ Cardinality(Changes) <= total
      /\ forwarding \in Forwarding
  BY <1>1, PathsTyped, FS_RemoveElement
<1>3. \A p \in Packets : p.req \in DOMAIN requests
  BY DEF Paths
<1>4. ASSUME NEW p \in Packets PROVE OnItsWay(p, routes', total, Cardinality(Changes'))
  <2>1. OnItsWay(p, routes, total, Cardinality(Changes)) /\ p.dst \in Destinations
    BY <1>3, DestinationKnown DEF Paths
  <2>2. Leg(p) - Cardinality(Changes') = Leg(p) - Cardinality(Changes) + 1
    BY <1>2 DEF Leg
  <2> QED
    BY <1>2, <2>1, <2>2, OtherDescent
<1>5. Cardinality(Changes') <= total
  BY <1>2
<1>6. \A a \in ApplyEvents' : Computed(forwarding', a.table)
  BY <1>1 DEF Paths
<1> QED
  BY <1>1, <1>2, <1>3, <1>4, <1>5, <1>6 DEF Paths

LEMMA TogglePaths ==
    ASSUME NEW total \in Nat, Accounts, Heap, Paths(total), NEW e \in q, Toggle(e)
    PROVE  Paths(total)'
<1> DEFINE new == Routes(SetLinkActive(e))
<1>1. /\ e \in Changes /\ e.kind = "toggle" /\ e.link \in Link
      /\ UNCHANGED <<requests, forwarding>>
  BY DEF Toggle, Popped, Changes, ToggleEvents, Heap, ControlOrder
<1>2. Computed(forwarding, new)
  <2>1. SetLinkActive(e) \in SUBSET Link
    BY <1>1 DEF SetLinkActive, Heap, Typed
  <2> QED
    BY <2>1 DEF Computed, Routes
<1>3. CASE BuildRoutes(e, new)
  <2>1. q' = q \ {e} /\ routes' = new
    BY <1>3 DEF BuildRoutes, RoutesBuilt, Handled
  <2> QED
    BY <1>1, <1>2, <2>1, TablesChange
<1>4. CASE PushRoutes(e, new)
  <2> DEFINE delay == ControlDelay({n \in Node : last[n] # new[n]})
  <2> DEFINE p == ApplyEvent(e.t + delay, seq, cstats.fib_pushes, new, delay)
  <2>1. q' = (q \ {e}) \cup {p} /\ routes' = routes
    BY <1>4 DEF PushRoutes
  <2>2. p.kind = "routes_apply" /\ p.seq = seq /\ p.table = new
    BY DEF ApplyEvent
  <2> HIDE DEF new, p, delay
  <2>3. /\ Changes' = (Changes \ {e}) \cup {p} /\ Packets' = Packets
        /\ ApplyEvents' = ApplyEvents \cup {p}
    BY <1>1, <2>1, <2>2 DEF Changes, Packets, ApplyEvents
  <2>4. p \notin Changes \ {e}
    BY <2>2 DEF Heap, Ordered, Typed, Changes
  <2>5. IsFiniteSet(Changes') /\ Cardinality(Changes') = Cardinality(Changes)
    BY <1>1, <2>3, <2>4, PathsTyped, Replaced
  <2> QED
    BY <1>1, <1>2, <2>1, <2>2, <2>3, <2>5 DEF Paths
<1> QED
  BY <1>3, <1>4 DEF Toggle

LEMMA RoutesApplyPaths ==
    ASSUME NEW total \in Nat, Accounts, Heap, Paths(total), NEW e \in q, RoutesApply(e)
    PROVE  Paths(total)'
<1>1. /\ e \in Changes /\ e \in ApplyEvents
      /\ q' = q \ {e} /\ routes' = e.table /\ UNCHANGED <<requests, forwarding>>
  BY DEF RoutesApply, Popped, Changes, ApplyEvents, Installed
<1>2. Computed(forwarding, routes')
  BY <1>1 DEF Paths
<1> QED
  BY <1>1, <1>2, TablesChange

LEMMA PacketLeaves ==
    ASSUME NEW total \in Nat, Paths(total), NEW e \in Packets, q' = q \ {e},
           UNCHANGED <<requests, forwarding, routes>>
    PROVE  Paths(total)'
<1>1. Changes' = Changes /\ Packets' \subseteq Packets /\ ApplyEvents' = ApplyEvents
  BY DEF Changes, Packets, ApplyEvents
<1> QED
  BY <1>1 DEF Paths

LEMMA PacketMoves ==
    ASSUME NEW total \in Nat, Paths(total), NEW e \in Packets,
           NEW p, p.kind = "packet", p.req = e.req, q' = (q \ {e}) \cup {p},
           OnItsWay(p, routes, total, Cardinality(Changes)),
           UNCHANGED <<requests, forwarding, routes>>
    PROVE  Paths(total)'
<1>1. /\ Changes' = Changes /\ ApplyEvents' = ApplyEvents
      /\ Packets' = (Packets \ {e}) \cup {p}
  BY DEF Changes, Packets, ApplyEvents
<1> QED
  BY <1>1 DEF Paths

(* A packet that turns around has its second descent before it; one that   *)
(* is sent is a hop farther and at least one rank lower.                   *)
LEMMA PacketPaths ==
    ASSUME NEW total \in Nat, Accounts, Heap, Paths(total), NEW e \in q, Packet(e)
    PROVE  Paths(total)'
<1>1. e \in Packets /\ UNCHANGED <<requests, forwarding, routes>>
  BY DEF Packet, Popped, Packets, control
<1>2. /\ e.req \in DOMAIN requests /\ e.dst \in Destinations /\ forwarding \in Forwarding
      /\ OnItsWay(e, routes, total, Cardinality(Changes)) /\ Computed(forwarding, routes)
      /\ Cardinality(Changes) \in Nat
  BY <1>1, DestinationKnown, PathsTyped DEF Paths
<1>3. CASE TurnAround(e)
  <2> DEFINE p == IPPacketEvent(e.t, seq, e.req, requests[e.req].consumer, e.at, e.hops, "response")
  <2>1. /\ p.kind = "packet" /\ p.req = e.req /\ p.at = e.at /\ p.hops = e.hops
        /\ p.dst = requests[e.req].consumer /\ Leg(p) = 2
    BY DEF IPPacketEvent, Leg
  <2>2. Leg(e) = 1 /\ q' = (q \ {e}) \cup {p}
    BY <1>3 DEF TurnAround, Leg
  <2> HIDE DEF p
  <2>3. p.dst \in Destinations
    BY <1>2, <2>1, BoundForDestination
  <2>4. Leg(p) - Cardinality(Changes) = Leg(e) - Cardinality(Changes) + 1
    BY <1>2, <2>1, <2>2
  <2>5. OnItsWay(p, routes, total, Cardinality(Changes))
    BY <1>2, <2>1, <2>3, <2>4, OtherDescent
  <2> QED
    BY <1>1, <2>1, <2>2, <2>5, PacketMoves
<1>4. CASE Completed(e) \/ NoRoute(e)
  BY <1>1, <1>4, PacketLeaves DEF Completed, NoRoute
<1>5. ASSUME NEW result, DropOnLink(e, result) PROVE Paths(total)'
  BY <1>1, <1>5, PacketLeaves DEF DropOnLink
<1>6. ASSUME NEW lost, Transmit(e, Traversal(e, lost)), e.dst \in DOMAIN routes[e.at]
      PROVE  Paths(total)'
  <2> DEFINE v == routes[e.at][e.dst]
  <2> DEFINE result == Traversal(e, lost)
  <2> DEFINE p == IPPacketEvent(result.arrival, seq, e.req, e.dst, v, e.hops + 1, e.phase)
  <2>1. result.ok /\ q' = (q \ {e}) \cup {p}
    BY <1>6 DEF Transmit, Sent
  <2>2. /\ p.kind = "packet" /\ p.req = e.req /\ p.at = v /\ p.hops = e.hops + 1
        /\ p.dst = e.dst /\ Leg(p) = Leg(e)
    BY DEF IPPacketEvent, Leg
  <2>3. {e.at, v} \in active
    BY <2>1 DEF Traversal, Traverse, Refused
  <2> HIDE DEF p, result
  <2>4. e.at \in Node /\ v \in Node /\ e.hops \in Nat
    BY <1>2, <2>3, NetworkAssumption DEF Heap, Typed, OnItsWay
  <2>5. PICK rank \in Ranks(routes, e.dst) :
            e.hops + rank[e.at] <= (Leg(e) + total - Cardinality(Changes)) * Farthest
    BY <1>2 DEF OnItsWay
  <2>6. rank[v] \in Nat /\ rank[e.at] \in Nat /\ rank[v] < rank[e.at]
    BY <1>6, <2>4, <2>5 DEF Ranks, Farthest
  <2>7. (Leg(e) + total - Cardinality(Changes)) * Farthest \in Int
    BY <1>2, <2>4, FarthestIsNatural DEF Leg
  <2>8. p.hops + rank[p.at] <= (Leg(p) + total - Cardinality(Changes)) * Farthest
    BY <2>2, <2>4, <2>5, <2>6, <2>7
  <2>9. OnItsWay(p, routes, total, Cardinality(Changes))
    BY <2>2, <2>4, <2>5, <2>8 DEF OnItsWay
  <2> QED
    BY <1>1, <2>1, <2>2, <2>9, PacketMoves
<1> QED
  BY <1>3, <1>4, <1>5, <1>6 DEF Packet

LEMMA PathsStep ==
    ASSUME NEW total \in Nat, Accounts, Heap, Paths(total), [Next]_vars
    PROVE  Paths(total)'
<1>1. CASE UNCHANGED vars
  <2>1. /\ Changes' = Changes /\ Packets' = Packets /\ ApplyEvents' = ApplyEvents
        /\ UNCHANGED <<requests, forwarding, routes>>
    BY <1>1 DEF vars, Changes, Packets, ApplyEvents
  <2> QED
    BY <2>1 DEF Paths
<1> QED
  BY <1>1, TogglePaths, RoutesApplyPaths, PacketPaths DEF Next

LEMMA PathsAreShort ==
    ASSUME NEW s \in Schedules, \A other \in Schedules : Len(other) <= Len(s),
           Accounts, Heap, Paths(Len(s))
    PROVE  HopsBounded
<1> DEFINE changes == Max({Len(other) : other \in Schedules})
<1>1. Len(s) \in Nat /\ \A other \in Schedules : Len(other) \in Nat
  BY InputAssumption
<1>2. changes = Len(s)
  BY <1>1 DEF Max
<1>3. ASSUME NEW e \in Packets
      PROVE  e.hops <= (2 + Len(s)) * (Cardinality(Node) - 1)
  <2>1. OnItsWay(e, routes, Len(s), Cardinality(Changes)) /\ Cardinality(Changes) \in Nat
    BY <1>1, PathsTyped DEF Paths
  <2>2. PICK rank \in Ranks(routes, e.dst) :
            e.hops + rank[e.at] <= (Leg(e) + Len(s) - Cardinality(Changes)) * Farthest
    BY <2>1 DEF OnItsWay
  <2>3. e.hops \in Nat /\ rank[e.at] \in Nat /\ Farthest \in Nat
    BY <2>1, FarthestIsNatural DEF OnItsWay, Ranks
  <2>4. Leg(e) + Len(s) - Cardinality(Changes) \in Int
        /\ Leg(e) + Len(s) - Cardinality(Changes) <= 2 + Len(s)
    BY <1>1, <2>1 DEF Leg
  <2>5. (Leg(e) + Len(s) - Cardinality(Changes)) * Farthest <= (2 + Len(s)) * Farthest
    BY <1>1, <2>3, <2>4, FewerDescents
  <2>6. /\ (Leg(e) + Len(s) - Cardinality(Changes)) * Farthest \in Int
        /\ (2 + Len(s)) * Farthest \in Int
    BY <1>1, <2>3, <2>4
  <2>7. e.hops <= (2 + Len(s)) * Farthest
    BY <2>2, <2>3, <2>5, <2>6
  <2> QED
    BY <2>7 DEF Farthest
<1> QED
  BY <1>2, <1>3 DEF HopsBounded

(* No packet goes round for ever, although none has a hop limit: whatever  *)
(* the network, the tables and the failures, the hops of a request and its *)
(* answer are limited by the number of changes in the longest failure list *)
(* (which is there: without one no number limits them all).                *)
THEOREM PathsAreBounded ==
    ASSUME NEW s \in Schedules, \A other \in Schedules : Len(other) <= Len(s)
    PROVE  Spec => []HopsBounded
<1>1. Len(s) \in Nat
  BY InputAssumption
<1>2. Init => Paths(Len(s))
  BY <1>1, InitPaths
<1>3. Accounts /\ Heap /\ Paths(Len(s)) /\ [Next]_vars => Paths(Len(s))'
  BY <1>1, PathsStep
<1>4. Accounts /\ Heap /\ Paths(Len(s)) => HopsBounded
  BY PathsAreShort
<1> QED
  BY <1>2, <1>3, <1>4, InitAccounts, AccountsStep, InitHeap, HeapStep, PTL DEF Spec

-----------------------------------------------------------------------------
(* The routing tables implement ControlPlane.                              *)
ToggleOf(e) == [at |-> e.t, idx |-> e.idx, link |-> e.link, up |-> e.up]
ApplyOf(e) == [at |-> e.t, n |-> e.n, table |-> e.table, delay |-> e.delay]

AbstractToggles == {ToggleOf(e) : e \in ToggleEvents}
AbstractApplies == {ApplyOf(e) : e \in ApplyEvents}

(* An event is known by its place in the list, or its push.                *)
LEMMA ToldApart ==
    ASSUME Heap
    PROVE  /\ \A a, b \in ToggleEvents : a.idx = b.idx => a = b
           /\ \A a, b \in ApplyEvents : a.n = b.n => a = b
<1>1. /\ \A a, b \in q : a.seq \in Nat /\ b.seq \in Nat /\ (a.seq = b.seq => a = b)
      /\ ToggleEvents \subseteq q /\ ApplyEvents \subseteq q
  BY DEF Heap, Ordered, ToggleEvents, ApplyEvents
<1>2. /\ \A e \in ToggleEvents : e.idx \in Nat
      /\ \A e \in ApplyEvents : e.n \in Nat
      /\ \A a, b \in ToggleEvents : a.seq < b.seq <=> a.idx < b.idx
      /\ \A a, b \in ApplyEvents : a.seq < b.seq <=> a.n < b.n
  BY DEF Heap, ControlOrder
<1> QED
  BY <1>1, <1>2

LEMMA SameCardinality ==
    ASSUME NEW S
    PROVE  Control!Cardinality(S) = Cardinality(S)
BY DEF Control!Cardinality, Cardinality

(* The first event of the heap is the first of its kind.                   *)
LEMMA FirstToggle ==
    ASSUME Heap, NEW e \in ToggleEvents, \A o \in q \ {e} : Before(e, o)
    PROVE  Control!NextToggle(ToggleOf(e))
<1>1. \A o \in ToggleEvents \ {e} : e.t < o.t \/ (e.t = o.t /\ e.idx < o.idx)
  BY DEF Heap, ControlOrder, Before, ToggleEvents
<1>2. \A p \in ApplyEvents : e.t <= p.t
  BY DEF Heap, Ordered, Before, ToggleEvents, ApplyEvents
<1>3. \A o \in AbstractToggles \ {ToggleOf(e)} : Control!ToggleBefore(ToggleOf(e), o)
  BY <1>1 DEF AbstractToggles, ToggleOf, Control!ToggleBefore
<1>4. \A p \in AbstractApplies : ToggleOf(e).at <= p.at
  BY <1>2 DEF AbstractApplies, ApplyOf, ToggleOf
<1> QED
  BY <1>3, <1>4 DEF Control!NextToggle, AbstractToggles, AbstractApplies, ToggleEvents,
                    ApplyEvents, ToggleOf, ApplyOf

LEMMA FirstApply ==
    ASSUME Heap, NEW e \in ApplyEvents, \A o \in q \ {e} : Before(e, o)
    PROVE  Control!NextApply(ApplyOf(e))
<1>1. \A o \in ApplyEvents \ {e} : e.t < o.t \/ (e.t = o.t /\ e.n < o.n)
  BY DEF Heap, ControlOrder, Before, ApplyEvents
<1>2. \A o \in ToggleEvents : e.t < o.t
  <2> SUFFICES ASSUME NEW o \in ToggleEvents PROVE e.t < o.t
    OBVIOUS
  <2>1. o \in q \ {e} /\ o.t \in Nat /\ e.t \in Nat /\ o.seq \in Nat /\ e.seq \in Nat
    BY DEF Heap, Ordered, ToggleEvents, ApplyEvents
  <2>2. o.seq < e.seq
    BY DEF Heap, ControlOrder
  <2> QED
    BY <2>1, <2>2 DEF Before
<1>3. \A o \in AbstractApplies \ {ApplyOf(e)} : Control!ApplyBefore(ApplyOf(e), o)
  BY <1>1 DEF AbstractApplies, ApplyOf, Control!ApplyBefore
<1>4. \A o \in AbstractToggles : ApplyOf(e).at < o.at
  BY <1>2 DEF AbstractToggles, ApplyOf, ToggleOf
<1> QED
  BY <1>3, <1>4 DEF Control!NextApply, AbstractToggles, AbstractApplies, ToggleEvents,
                    ApplyEvents, ToggleOf, ApplyOf

(* The mapping of the instance, by its parts.                              *)
LEMMA Mapping ==
    /\ {[at |-> e.t, idx |-> e.idx, link |-> e.link, up |-> e.up] : e \in {e \in q : e.kind = "toggle"}}
         = AbstractToggles
    /\ {[at |-> e.t, n |-> e.n, table |-> e.table, delay |-> e.delay]
          : e \in {e \in q : e.kind = "routes_apply"}} = AbstractApplies
BY DEF AbstractToggles, AbstractApplies, ToggleEvents, ApplyEvents, ToggleOf, ApplyOf

LEMMA ToggleMaps ==
    ASSUME Heap, NEW e \in q, Toggle(e)
    PROVE  Control!Toggle
<1> DEFINE new == Routes(SetLinkActive(e))
<1>1. /\ e \in ToggleEvents /\ now' = e.t /\ active' = SetLinkActive(e)
      /\ \A o \in q \ {e} : Before(e, o)
      /\ forwarding' = forwarding
  BY DEF Toggle, Popped, ToggleEvents
<1>2. Control!NextToggle(ToggleOf(e)) /\ ToggleOf(e) \in AbstractToggles
  BY <1>1, FirstToggle DEF AbstractToggles
<1>3. \A o \in ToggleEvents : ToggleOf(o) = ToggleOf(e) => o = e
  BY <1>1, ToldApart DEF ToggleOf
<1>4. ToggleOf(e).at = e.t /\ Control!SetLinkActive(ToggleOf(e)) = SetLinkActive(e)
  BY DEF ToggleOf, SetLinkActive, Control!SetLinkActive
<1>5. Control!Routes(SetLinkActive(e)) = new /\ (Control!Centralized <=> Centralized)
  BY DEF Routes, Control!Routes, Centralized, Control!Centralized
<1>6. CASE Centralized
  <2> DEFINE changed == {n \in Node : last[n] # new[n]}
  <2> DEFINE p == ApplyEvent(e.t + ControlDelay(changed), seq, cstats.fib_pushes, new,
                             ControlDelay(changed))
  <2>1. PushRoutes(e, new)
    BY <1>6 DEF Toggle
  <2>2. q' = (q \ {e}) \cup {p} /\ last' = new /\ routes' = routes
    BY <2>1 DEF PushRoutes
  <2>3. p.kind = "routes_apply" /\ e.kind = "toggle"
    BY <1>1 DEF ApplyEvent, ToggleEvents
  <2>4. ToggleEvents' = ToggleEvents \ {e} /\ ApplyEvents' = ApplyEvents \cup {p}
    <3> HIDE DEF p
    <3> QED
      BY <2>2, <2>3 DEF ToggleEvents, ApplyEvents
  <2>5. AbstractToggles' = AbstractToggles \ {ToggleOf(e)}
    <3> HIDE DEF p
    <3> QED
      BY <1>1, <1>3, <2>4 DEF AbstractToggles
  <2>6. Control!Changed(new) = changed /\ Control!Delay(new) = ControlDelay(changed)
    BY DEF Control!Changed, Control!Delay, ControlDelay
  <2>7. ApplyOf(p) = Control!Pushed(new, e.t)
    BY <2>6 DEF ApplyOf, ApplyEvent, Control!Pushed
  <2>8. AbstractApplies' = AbstractApplies \cup {Control!Pushed(new, e.t)}
    <3> HIDE DEF p
    <3> QED
      BY <2>4, <2>7 DEF AbstractApplies
  <2>9. cstats' = Control!PushStats(new)
    <3>1. Control!Cardinality(changed) = Cardinality(changed)
      BY SameCardinality
    <3> QED
      BY <2>1, <2>6, <3>1 DEF PushRoutes, Control!PushStats
  <2>10. Control!Push(new, e.t)
    <3> HIDE DEF new, changed, p
    <3> QED
      BY <2>2, <2>8, <2>9, Mapping DEF Control!Push, Control!Remember, AbstractApplies,
           ApplyEvents, ApplyOf
  <2> QED
    <3> HIDE DEF new, changed, p
    <3> QED
      BY <1>1, <1>2, <1>4, <1>5, <1>6, <2>5, <2>10, Mapping
         DEF Control!Toggle, AbstractToggles, ToggleEvents, ToggleOf
<1>7. CASE ~Centralized
  <2>1. q' = q \ {e} /\ routes' = new /\ UNCHANGED <<last, cstats>>
    BY <1>7 DEF Toggle, BuildRoutes, RoutesBuilt, Handled
  <2>2. ToggleEvents' = ToggleEvents \ {e} /\ ApplyEvents' = ApplyEvents
    BY <1>1, <2>1 DEF ToggleEvents, ApplyEvents
  <2>3. AbstractToggles' = AbstractToggles \ {ToggleOf(e)}
    BY <1>1, <1>3, <2>2 DEF AbstractToggles
  <2>4. AbstractApplies' = AbstractApplies
    BY <2>2 DEF AbstractApplies
  <2>5. Control!RebuildLocally(new)
    <3> HIDE DEF new
    <3> QED
      BY <2>1, <2>4 DEF Control!RebuildLocally, AbstractApplies, ApplyEvents, ApplyOf
  <2> QED
    <3> HIDE DEF new
    <3> QED
      BY <1>1, <1>2, <1>4, <1>5, <1>7, <2>3, <2>5
         DEF Control!Toggle, AbstractToggles, ToggleEvents, ToggleOf
<1> QED
  BY <1>6, <1>7

LEMMA RoutesApplyMaps ==
    ASSUME Heap, NEW e \in q, RoutesApply(e)
    PROVE  Control!Apply
<1>1. /\ e \in ApplyEvents /\ now' = e.t /\ q' = q \ {e} /\ routes' = e.table
      /\ \A o \in q \ {e} : Before(e, o)
      /\ UNCHANGED <<forwarding, active, last, cstats>>
  BY DEF RoutesApply, Popped, ApplyEvents, Installed
<1>2. Control!NextApply(ApplyOf(e)) /\ ApplyOf(e) \in AbstractApplies
  BY <1>1, FirstApply DEF AbstractApplies
<1>3. \A o \in ApplyEvents : ApplyOf(o) = ApplyOf(e) => o = e
  BY <1>1, ToldApart DEF ApplyOf
<1>4. ApplyEvents' = ApplyEvents \ {e} /\ ToggleEvents' = ToggleEvents
  BY <1>1 DEF ToggleEvents, ApplyEvents
<1>5. AbstractApplies' = AbstractApplies \ {ApplyOf(e)}
  BY <1>1, <1>3, <1>4 DEF AbstractApplies
<1>6. AbstractToggles' = AbstractToggles
  BY <1>4 DEF AbstractToggles
<1>7. ApplyOf(e).at = e.t /\ ApplyOf(e).table = e.table
  BY DEF ApplyOf
<1> QED
  BY <1>1, <1>2, <1>5, <1>6, <1>7
     DEF Control!Apply, AbstractToggles, AbstractApplies, ToggleEvents, ApplyEvents, ToggleOf,
         ApplyOf

LEMMA PacketMaps ==
    ASSUME Heap, NEW e \in q, Packet(e), now' \in Nat, Horizon \in Nat, now' <= Horizon
    PROVE  Control!Elapse
<1>1. /\ e.kind = "packet" /\ now' = e.t
      /\ \A o \in q \ {e} : Before(e, o)
      /\ UNCHANGED <<forwarding, active, routes, last, cstats>>
  BY DEF Packet, Popped, control
<1>2. now \in Nat /\ now <= e.t /\ e.t \in Nat /\ \A o \in q : e.t <= o.t
  BY <1>1 DEF Heap, Typed, Ordered, Before
<1>3. now' \in now .. Horizon
  BY <1>1, <1>2
<1>4. ToggleEvents' = ToggleEvents /\ ApplyEvents' = ApplyEvents
  <2>1. CASE q' = q \ {e}
    BY <1>1, <2>1 DEF ToggleEvents, ApplyEvents
  <2>2. CASE \E p : p.kind = "packet" /\ q' = (q \ {e}) \cup {p}
    BY <1>1, <2>2 DEF ToggleEvents, ApplyEvents
  <2> QED
    BY <2>1, <2>2, PacketOnHeap
<1>5. AbstractToggles' = AbstractToggles /\ AbstractApplies' = AbstractApplies
  BY <1>4 DEF AbstractToggles, AbstractApplies
<1>6. \A o \in AbstractToggles \cup AbstractApplies : now' <= o.at
  BY <1>1, <1>2 DEF AbstractToggles, AbstractApplies, ToggleEvents, ApplyEvents, ToggleOf, ApplyOf
<1> QED
  BY <1>1, <1>3, <1>5, <1>6
     DEF Control!Elapse, AbstractToggles, AbstractApplies, ToggleEvents, ApplyEvents, ToggleOf,
         ApplyOf

LEMMA ControlStep ==
    ASSUME Heap, [Next]_vars, Horizon \in Nat, now' <= Horizon
    PROVE  [Control!Next]_(Control!vars)
<1>1. CASE UNCHANGED vars
  BY <1>1 DEF vars, Control!vars
<1>2. now' \in Nat
  BY HeapStep DEF Heap, Typed
<1> QED
  BY <1>1, <1>2, ToggleMaps, RoutesApplyMaps, PacketMaps DEF Next, Control!Next

LEMMA ControlInit == Init => Control!Init
<1> SUFFICES ASSUME Init PROVE Control!Init
  OBVIOUS
<1>1. PICK failures \in Schedules : q = InitialEvents(requests, failures)
  BY DEF Init
<1> DEFINE first(r) == IPPacketEvent(requests[r].start_ms, r - 1, r, OwnerOf[requests[r].name],
                                     requests[r].consumer, 0, "request")
<1> DEFINE later(i) == ToggleEvent(failures[i], Len(requests) + i - 1, i)
<1> DEFINE abstract(i) ==
             [at |-> failures[i].at, idx |-> i, link |-> failures[i].link, up |-> failures[i].up]
<1>2. q = {first(r) : r \in DOMAIN requests} \cup {later(i) : i \in DOMAIN failures}
  BY <1>1 DEF InitialEvents
<1>3. /\ \A r \in DOMAIN requests : first(r).kind = "packet"
      /\ \A i \in DOMAIN failures : later(i).kind = "toggle" /\ ToggleOf(later(i)) = abstract(i)
  BY DEF IPPacketEvent, ToggleEvent, ToggleOf
<1> HIDE DEF first, later, abstract
<1>4. ToggleEvents = {later(i) : i \in DOMAIN failures} /\ ApplyEvents = {}
  BY <1>2, <1>3 DEF ToggleEvents, ApplyEvents
<1>5. AbstractToggles = {abstract(i) : i \in DOMAIN failures}
  BY <1>3, <1>4 DEF AbstractToggles
<1>6. AbstractApplies = {}
  BY <1>4 DEF AbstractApplies
<1>7. cstats = [fib_pushes |-> 0, control_messages_tx |-> Control!BootstrapMessages,
                reconvergence_events |-> 0, total_reconvergence_ms |-> 0]
  BY SameCardinality
     DEF Init, Control!BootstrapMessages, Control!Provisioned, Control!Routes, Routes,
         Centralized, Control!Centralized
<1>8. /\ forwarding \in Forwarding /\ active = Link /\ now = 0
      /\ last = Control!Provisioned /\ routes = Control!Provisioned
  BY DEF Init, Control!Provisioned, Control!Routes, Routes
<1>9. {[at |-> e.t, idx |-> e.idx, link |-> e.link, up |-> e.up] : e \in {e \in q : e.kind = "toggle"}}
        = {[at |-> failures[i].at, idx |-> i, link |-> failures[i].link, up |-> failures[i].up]
             : i \in DOMAIN failures}
  BY <1>5, Mapping DEF abstract
<1> QED
  BY <1>6, <1>7, <1>8, <1>9, Mapping DEF Control!Init

(* With any amount of traffic in between, toggles are handled and tables   *)
(* installed as ControlPlane says.  (ControlPlane's clock stops at         *)
(* Horizon, so the theorem speaks of behaviours that end before it, for    *)
(* every Horizon.)                                                         *)
THEOREM TablesImplementControlPlane ==
    ASSUME Horizon \in Nat
    PROVE  Spec /\ [](now <= Horizon) => ImplementsControlPlane
<1>1. Heap /\ [Next]_vars /\ (now <= Horizon)' => [Control!Next]_(Control!vars)
  BY ControlStep
<1> QED
  BY <1>1, ControlInit, InitHeap, HeapStep, PTL DEF Spec, ImplementsControlPlane

-----------------------------------------------------------------------------
(* What is proved of ControlPlane therefore holds of the IP engine.        *)
CP == INSTANCE ControlPlaneProofs WITH
    Table <- TablesInUse, installed <- routes, stats <- cstats,
    toggles <- {[at |-> e.t, idx |-> e.idx, link |-> e.link, up |-> e.up]
                : e \in {e \in q : e.kind = "toggle"}},
    pending <- {[at |-> e.t, n |-> e.n, table |-> e.table, delay |-> e.delay]
                : e \in {e \in q : e.kind = "routes_apply"}}

(* The assumptions ControlPlane makes hold here.                           *)
LEMMA ControlAssumptions ==
    ASSUME Horizon \in Nat
    PROVE  /\ CP!IsFiniteSet(Node)
           /\ EmptyTable \in TablesInUse
           /\ RoutesOf \in [Forwarding -> [SUBSET Link -> [Node -> TablesInUse]]]
           /\ Rtt \in Nat /\ Horizon \in Nat
           /\ Schedules \subseteq Seq(CP!FailureEventSpec)
<1>1. \A f \in Forwarding, up \in SUBSET Link, n \in Node : RoutesOf[f][up][n] \in TablesInUse
  BY DEF TablesInUse
<1>2. RoutesOf \in [Forwarding -> [SUBSET Link -> [Node -> TablesInUse]]]
  <2> HIDE DEF TablesInUse
  <2>1. RoutesOf = [f \in Forwarding |->
                     [up \in SUBSET Link |-> [n \in Node |-> RoutesOf[f][up][n]]]]
    BY NetworkAssumption
  <2>2. \A f \in Forwarding, up \in SUBSET Link : RoutesOf[f][up] \in [Node -> TablesInUse]
    <3> SUFFICES ASSUME NEW f \in Forwarding, NEW up \in SUBSET Link
                 PROVE  RoutesOf[f][up] \in [Node -> TablesInUse]
      OBVIOUS
    <3>1. RoutesOf[f] = [u \in SUBSET Link |-> [n \in Node |-> RoutesOf[f][u][n]]]
      BY <2>1
    <3>2. RoutesOf[f][up] = [n \in Node |-> RoutesOf[f][up][n]]
      BY <3>1
    <3> QED
      BY <1>1, <3>2
  <2>3. \A f \in Forwarding : RoutesOf[f] \in [SUBSET Link -> [Node -> TablesInUse]]
    BY <2>1, <2>2
  <2> QED
    BY <2>1, <2>3
<1>3. EmptyTable \in TablesInUse
  BY DEF TablesInUse
<1>4. CP!IsFiniteSet(Node)
  BY NetworkAssumption DEF CP!IsFiniteSet, IsFiniteSet
<1> QED
  BY <1>2, <1>3, <1>4, ParameterAssumption, InputAssumption DEF CP!FailureEventSpec

LEMMA SameControl ==
    /\ Control!Init <=> CP!Init
    /\ [Control!Next]_(Control!vars) <=> [CP!Next]_(CP!vars)
<1>1. Control!Toggle <=> CP!Toggle
  BY DEF Control!Toggle, CP!Toggle, Control!NextToggle, CP!NextToggle, Control!ToggleBefore,
         CP!ToggleBefore, Control!Centralized, CP!Centralized, Control!Push, CP!Push,
         Control!Pushed, CP!Pushed, Control!Delay, CP!Delay, Control!Changed, CP!Changed,
         Control!Remember, CP!Remember, Control!PushStats, CP!PushStats, Control!RebuildLocally,
         CP!RebuildLocally, Control!Routes, CP!Routes, Control!SetLinkActive, CP!SetLinkActive,
         Control!Cardinality, CP!Cardinality
<1>2. Control!Apply <=> CP!Apply
  BY DEF Control!Apply, CP!Apply, Control!NextApply, CP!NextApply, Control!ApplyBefore,
         CP!ApplyBefore
<1>3. Control!Elapse <=> CP!Elapse
  BY DEF Control!Elapse, CP!Elapse
<1>4. Control!Init <=> CP!Init
  BY DEF Control!Init, CP!Init, Control!BootstrapMessages, CP!BootstrapMessages,
         Control!Provisioned, CP!Provisioned, Control!Routes, CP!Routes, Control!Centralized,
         CP!Centralized, Control!Cardinality, CP!Cardinality
<1> QED
  BY <1>1, <1>2, <1>3, <1>4 DEF Control!Next, CP!Next, Control!vars, CP!vars

LEMMA ControlKept ==
    ASSUME Horizon \in Nat
    PROVE  Spec /\ [](now <= Horizon) => []CP!IInv
<1>1. Heap /\ [Next]_vars /\ (now <= Horizon)' => [CP!Next]_(CP!vars)
  BY ControlStep, SameControl
<1>2. Init => CP!Init
  BY ControlInit, SameControl
<1>3. CP!Init => CP!IInv
  BY ControlAssumptions, CP!InitIInv
<1>4. CP!IInv /\ [CP!Next]_(CP!vars) => CP!IInv'
  BY ControlAssumptions, CP!ToggleStep, CP!ApplyStep, CP!ElapseStep, CP!StutterStep DEF CP!Next
<1> QED
  BY <1>1, <1>2, <1>3, <1>4, InitHeap, HeapStep, PTL DEF Spec

(* While packets are forwarded with stale tables the right ones are on     *)
(* their way, due within one RTT and not to be overtaken; with no push in  *)
(* flight the tables are those of the topology.                            *)
THEOREM StalenessIsBounded ==
    ASSUME Horizon \in Nat
    PROVE  Spec /\ [](now <= Horizon) => [](CP!BoundedStaleness /\ CP!Converged)
<1>1. CP!IInv => CP!BoundedStaleness /\ CP!Converged
  BY ControlAssumptions, CP!StaleIsPending, CP!QuietIsConverged
<1> QED
  BY <1>1, ControlKept, PTL

(* A dead next hop is a sign of tables in flight.                          *)
THEOREM DeadHopsArePassing ==
    ASSUME Horizon \in Nat
    PROVE  Spec /\ [](now <= Horizon) => []DeadHopsOnlyWhileStale
<1>1. Heap /\ CP!Converged => DeadHopsOnlyWhileStale
  <2> SUFFICES ASSUME Heap, CP!Converged, ApplyEvents = {}, NEW n \in Node
               PROVE  \A d \in DOMAIN routes[n] : {n, routes[n][d]} \in active
    BY DEF DeadHopsOnlyWhileStale, ApplyEvents
  <2>1. routes = RoutesOf[forwarding][active]
    BY DEF CP!Converged, CP!Current, CP!Routes, ApplyEvents
  <2>2. forwarding \in Forwarding /\ active \in SUBSET Link
    BY DEF Heap, Typed
  <2> QED
    BY <2>1, <2>2, RoutingAssumption
<1> QED
  BY <1>1, StalenessIsBounded, InitHeap, HeapStep, PTL DEF Spec

(* ControllerStats adds up, whatever the traffic: a push that changes      *)
(* something costs one RTT and up to one message per node, nothing else    *)
(* costs anything.                                                         *)
THEOREM ControlIsPaidFor ==
    ASSUME Horizon \in Nat
    PROVE  Spec /\ [](now <= Horizon) => []CP!ControlCost
<1>1. Heap /\ [Next]_vars /\ (now <= Horizon)' => [CP!Next]_(CP!vars)
  BY ControlStep, SameControl
<1>2. Init => CP!ControlCost
  BY ControlInit, SameControl, ControlAssumptions, CP!CostInit
<1>3. CP!IInv /\ CP!ControlCost /\ [CP!Next]_(CP!vars) => CP!ControlCost'
  BY ControlAssumptions, CP!CostKept
<1> QED
  BY <1>1, <1>2, <1>3, ControlKept, InitHeap, HeapStep, PTL DEF Spec
=============================================================================
