----------------------------- MODULE NDNProofs -----------------------------
(***************************************************************************)
(* The NDN engine for every network, strategy, workload, failure list and  *)
(* parameter: the heap keeps its order, PITs and Content Stores keep their *)
(* bounds and directives, no Interest is answered twice, copies of an      *)
(* Interest do not multiply, a lone request's retransmissions leave their  *)
(* consumer, and the consumers and the FIBs implement RequestLifecycle and *)
(* ControlPlane, whose properties follow.                                  *)
(***************************************************************************)
EXTENDS NDNProperties, FiniteSetTheorems, SequenceTheorems, TLAPS

Directions == {l \in Node \X Node : {l[1], l[2]} \in Link}

Tallies == {"completed_requests", "timed_out_requests", "retransmissions"}
Counters == Tallies \cup
    {"interest_tx", "data_tx", "dropped_interests", "dropped_data", "queue_drops",
     "random_loss_drops", "pit_overflow_drops", "cache_hits", "producer_serves",
     "verification_failures", "cache_directives_pushed"}

Fibs == {RoutesOf[f][up] : f \in Forwarding, up \in SUBSET Link}

Face == Node \cup {Local}

-----------------------------------------------------------------------------
(* The heap.  Packets are under way for a request that has been sent, and  *)
(* never ask a name's owner to pass its own Data on.                       *)
Owner(e) == OwnerOf[NameOf(e)]

Request == [consumer : Node, name : Name, start_ms : Nat]

PacketOK(e) ==
    /\ e.req \in DOMAIN requests /\ requests[e.req] \in Request
    /\ e.at \in Node /\ e.prev \in Face
    /\ requests[e.req].start_ms <= e.t

EventOK(e) ==
    /\ e.t \in Nat /\ e.seq \in Nat
    /\ e.kind \in {"interest", "data", "timeout", "toggle", "fib_apply"}
    /\ e.kind = "interest" => PacketOK(e) /\ e.prev # Owner(e)
    /\ e.kind = "data" => PacketOK(e) /\ e.at # Owner(e)
    /\ e.kind = "timeout" => e.req \in DOMAIN requests /\ requests[e.req].start_ms <= e.t
    /\ e.kind = "toggle" => e.link \in Link /\ e.idx \in Nat
    /\ e.kind = "fib_apply" => e.table \in Fibs /\ e.n \in Nat

Ordered ==
    /\ seq \in Nat /\ now \in Nat
    /\ \A e \in q : EventOK(e) /\ now <= e.t /\ e.seq < seq
    /\ \A a, b \in q : a.seq = b.seq => a = b

First(e) == \A o \in q \ {e} : Before(e, o)

(* Handling e leaves the events `new' in its place.                        *)
Replaces(e, new, heap, counter) ==
    /\ heap = (q \ {e}) \cup new
    /\ counter \in Nat /\ seq <= counter
    /\ \A p \in new : /\ p.t \in Nat /\ e.t <= p.t
                      /\ p.seq \in Nat /\ seq <= p.seq /\ p.seq < counter
    /\ \A a, b \in new : a.seq = b.seq => a = b

LEMMA OrderKept ==
    ASSUME Ordered, NEW e \in q, First(e), now' = e.t, UNCHANGED requests,
           NEW new, Replaces(e, new, q', seq'), \A p \in new : EventOK(p)
    PROVE  Ordered'
<1>1. \A p \in q' : EventOK(p) /\ e.t <= p.t /\ p.seq < seq'
  BY DEF Ordered, Replaces, First, Before, EventOK
<1>2. \A p \in q' : EventOK(p)'
  BY <1>1 DEF EventOK, PacketOK, Owner, NameOf
<1>3. \A a, b \in q' : a.seq = b.seq => a = b
  BY DEF Ordered, Replaces, EventOK
<1>4. seq' \in Nat /\ now' \in Nat
  BY DEF Ordered, Replaces, EventOK
<1> QED
  BY <1>1, <1>2, <1>3, <1>4 DEF Ordered

-----------------------------------------------------------------------------
(* Sending.                                                                *)
Links ==
    /\ active \subseteq Link
    /\ busy \in [Directions -> Nat]
    /\ stats \in [Counters -> Nat]

IsPacket(packet) ==
    /\ packet.service \in Nat /\ packet.extra \in Nat
    /\ \/ /\ packet.kind = "interest"
          /\ packet.tx = "interest_tx" /\ packet.dropped = "dropped_interests"
       \/ /\ packet.kind = "data"
          /\ packet.tx = "data_tx" /\ packet.dropped = "dropped_data"

LEMMA Packets ==
    /\ IsPacket(InterestPacket) /\ InterestPacket.kind = "interest"
    /\ \A verified : IsPacket(DataPacket(verified)) /\ DataPacket(verified).kind = "data"
BY ParameterAssumption DEF IsPacket, InterestPacket, DataPacket, Counters, Tallies

(* A packet that is accepted arrives later, over a link that is there.     *)
LEMMA Accepted ==
    ASSUME Links, NEW e, e.t \in Nat, NEW packet, IsPacket(packet), NEW v, NEW lost,
           Crossing(e, packet, v, lost).ok
    PROVE  /\ <<e.at, v>> \in Directions
           /\ Crossing(e, packet, v, lost).arrival \in Nat
           /\ e.t <= Crossing(e, packet, v, lost).arrival
           /\ Crossing(e, packet, v, lost).busy \in Nat
<1> DEFINE b == busy[<<e.at, v>>]
<1>1. {e.at, v} \in active
  BY DEF Crossing, Traverse, Refused
<1>2. <<e.at, v>> \in Directions
  BY <1>1, NetworkAssumption DEF Links, Directions
<1>3. b \in Nat
  BY <1>2 DEF Links
<1>4. /\ Crossing(e, packet, v, lost).arrival
           = Arrival(LinkRecord, b, e.t, packet.service, packet.extra)
      /\ Crossing(e, packet, v, lost).busy = Departure(b, e.t, packet.service)
  BY <1>1 DEF Crossing, Traverse, Refused, Lost
<1>5. LinkRecord.propagation \in Nat /\ LinkRecord.processing \in Nat
  BY NetworkAssumption
<1>6. packet.service \in Nat /\ packet.extra \in Nat
  BY DEF IsPacket
<1>7. Wait(b, e.t) \in Nat
  BY <1>3 DEF Wait
<1> HIDE DEF b
<1> QED
  BY <1>2, <1>4, <1>5, <1>6, <1>7 DEF Arrival, Departure

(* The turn of an accepted packet: how many were accepted before it.       *)
LEMMA Turns ==
    ASSUME NEW S, IsFiniteSet(S), S \subseteq Nat, NEW i \in S
    PROVE  LET turn(k) == Cardinality({j \in S : j < k})
           IN /\ turn(i) \in Nat /\ turn(i) < Cardinality(S)
              /\ \A k \in S : turn(i) = turn(k) => i = k
<1> DEFINE below(k) == {j \in S : j < k}
<1>0. \A T : T \subseteq S => IsFiniteSet(T)
  BY FS_Subset
<1>1. \A k \in S : /\ IsFiniteSet(below(k)) /\ Cardinality(below(k)) \in Nat
                   /\ Cardinality(below(k)) <= Cardinality(S)
                   /\ Cardinality(below(k)) # Cardinality(S)
  <2> TAKE k \in S
  <2>1. below(k) \subseteq S /\ below(k) # S
    OBVIOUS
  <2> QED
    BY <2>1, FS_Subset, FS_CardinalityType
<1>2. \A j, k \in S : j < k => Cardinality(below(j)) < Cardinality(below(k))
  <2> TAKE j, k \in S
  <2> HAVE j < k
  <2>1. \A x \in S : x < j => x < k
    OBVIOUS
  <2>2. j \in below(k) /\ j \notin below(j)
    OBVIOUS
  <2>3. below(j) \subseteq below(k) /\ below(j) # below(k)
    BY <2>1, <2>2
  <2> HIDE DEF below
  <2> QED
    BY <2>3, <1>1, FS_Subset
<1>3. Cardinality(S) \in Nat
  BY FS_CardinalityType
<1> HIDE DEF below
<1>4. \A k \in S : Cardinality(below(i)) = Cardinality(below(k)) => i = k
  BY <1>1, <1>2
<1>5. Cardinality(below(i)) \in Nat /\ Cardinality(below(i)) < Cardinality(S)
  BY <1>1, <1>3
<1> QED
  BY <1>4, <1>5 DEF below

(* What a handler that sends counts leaves the requests' tallies alone.    *)
Sending(s, t, a, b, c, d) ==
    \/ t = [s EXCEPT !["interest_tx"] = @ + a, !["dropped_interests"] = @ + b,
                     !["random_loss_drops"] = @ + c, !["queue_drops"] = @ + d]
    \/ t = [s EXCEPT !["data_tx"] = @ + a, !["dropped_data"] = @ + b,
                     !["random_loss_drops"] = @ + c, !["queue_drops"] = @ + d]

LEMMA Counting ==
    ASSUME NEW s \in [Counters -> Nat], NEW a \in Nat, NEW b \in Nat, NEW c \in Nat, NEW d \in Nat,
           NEW t, Sending(s, t, a, b, c, d)
    PROVE  t \in [Counters -> Nat] /\ \A field \in Tallies : t[field] = s[field]
<1>1. t = [field \in Counters |-> t[field]]
  BY DEF Sending
<1>2. \A field \in Counters : t[field] \in Nat
  BY DEF Sending, Counters, Tallies
<1>3. \A field \in Tallies : t[field] = s[field]
  BY DEF Sending, Counters, Tallies
<1> QED
  BY <1>1, <1>2, <1>3

Sequenced(hops) == DOMAIN hops \subseteq Nat /\ IsFiniteSet(DOMAIN hops)

LEMMA OneHop ==
    ASSUME NEW v
    PROVE  Sequenced(<<v>>) /\ DOMAIN <<v>> = {1}
<1>1. DOMAIN <<v>> = 1 .. 1
  OBVIOUS
<1>2. 1 .. 1 = {1}
  OBVIOUS
<1>3. IsFiniteSet({1})
  BY FS_Singleton
<1> QED
  BY <1>1, <1>2, <1>3 DEF Sequenced

LEMMA SendReplaces ==
    ASSUME Ordered, Links, NEW e \in q, NEW packet, IsPacket(packet),
           NEW hops, Sequenced(hops), NEW lost,
           NEW net, net.q = q \ {e}, net.seq = seq, net.stats \in [Counters -> Nat],
           NEW out, out = Send(net, e, packet, hops, lost)
    PROVE  /\ \E new : /\ Replaces(e, new, out.q, out.seq)
                       /\ \A p \in new : /\ p.kind = packet.kind /\ p.req = e.req
                                         /\ p.prev = e.at /\ p.at \in Node
                                         /\ \E i \in DOMAIN hops : p.at = hops[i]
           /\ out.busy \in [Directions -> Nat]
           /\ out.stats \in [Counters -> Nat]
           /\ \A field \in Tallies : out.stats[field] = net.stats[field]
<1> DEFINE crossing == [i \in DOMAIN hops |-> Crossing(e, packet, hops[i], lost)]
           accepted == {i \in DOMAIN hops : crossing[i].ok}
           refused == DOMAIN hops \ accepted
           unlucky == {i \in refused : crossing[i].reason = "random_loss"}
           turn(i) == Cardinality({j \in accepted : j < i})
           sent(i) == PacketEvent(crossing[i].arrival, seq + turn(i), e, hops[i], packet)
           new == {sent(i) : i \in accepted}
<1>1. e.t \in Nat /\ seq \in Nat
  BY DEF Ordered, EventOK
<1>2. \A i \in accepted : /\ <<e.at, hops[i]>> \in Directions
                          /\ crossing[i].arrival \in Nat /\ e.t <= crossing[i].arrival
                          /\ crossing[i].busy \in Nat
  BY <1>1, Accepted
<1>3. /\ IsFiniteSet(accepted) /\ Cardinality(accepted) \in Nat
      /\ IsFiniteSet(refused) /\ Cardinality(refused) \in Nat
      /\ IsFiniteSet(unlucky) /\ Cardinality(unlucky) \in Nat
      /\ Cardinality(refused \ unlucky) \in Nat
  <2> HIDE DEF crossing
  <2>1. \A T : T \subseteq DOMAIN hops => IsFiniteSet(T) /\ Cardinality(T) \in Nat
    BY FS_Subset, FS_CardinalityType DEF Sequenced
  <2> QED
    BY <2>1
<1>4. \A i \in accepted : /\ turn(i) \in Nat /\ turn(i) < Cardinality(accepted)
                          /\ \A k \in accepted : turn(i) = turn(k) => i = k
  <2> HIDE DEF crossing
  <2>1. accepted \subseteq Nat
    BY DEF Sequenced
  <2> HIDE DEF accepted
  <2> QED
    BY <1>3, <2>1, Turns
<1>5. \A i \in accepted :
         /\ sent(i).t = crossing[i].arrival /\ sent(i).seq = seq + turn(i)
         /\ sent(i).kind = packet.kind /\ sent(i).req = e.req
         /\ sent(i).prev = e.at /\ sent(i).at = hops[i]
  <2> HIDE DEF crossing, turn
  <2> QED
    BY DEF PacketEvent, InterestEvent, DataEvent, IsPacket
<1>6. out.q = (q \ {e}) \cup new /\ out.seq = seq + Cardinality(accepted)
  BY DEF Send
<1>7. out.busy \in [Directions -> Nat]
  <2>1. out.busy = [l \in Directions |->
                      IF \E i \in accepted : l = <<e.at, hops[i]>>
                        THEN Crossing(e, packet, l[2], lost).busy ELSE busy[l]]
    BY DEF Send, Links
  <2>2. \A l \in Directions, i \in accepted :
           l = <<e.at, hops[i]>> => Crossing(e, packet, l[2], lost).busy \in Nat
    BY <1>2
  <2>3. \A l \in Directions : busy[l] \in Nat
    BY DEF Links
  <2> HIDE DEF accepted
  <2> QED
    BY <2>1, <2>2, <2>3
<1>8. /\ out.stats \in [Counters -> Nat]
      /\ \A field \in Tallies : out.stats[field] = net.stats[field]
  <2>1. out.stats = [net.stats EXCEPT ![packet.tx] = @ + Cardinality(accepted),
                                      ![packet.dropped] = @ + Cardinality(refused),
                                      !.random_loss_drops = @ + Cardinality(unlucky),
                                      !.queue_drops = @ + Cardinality(refused \ unlucky)]
    BY DEF Send
  <2> DEFINE a == Cardinality(accepted)
             b == Cardinality(refused)
             c == Cardinality(unlucky)
             d == Cardinality(refused \ unlucky)
  <2>2. a \in Nat /\ b \in Nat /\ c \in Nat /\ d \in Nat
    BY <1>3
  <2> HIDE DEF a, b, c, d
  <2> DEFINE s == net.stats
             t == out.stats
  <2>3. s \in [Counters -> Nat]
    OBVIOUS
  <2>4. Sending(s, t, a, b, c, d)
    <3>1. CASE packet.tx = "interest_tx" /\ packet.dropped = "dropped_interests"
      BY <2>1, <3>1 DEF a, b, c, d, Sending
    <3>2. CASE packet.tx = "data_tx" /\ packet.dropped = "dropped_data"
      BY <2>1, <3>2 DEF a, b, c, d, Sending
    <3> QED
      BY <3>1, <3>2 DEF IsPacket
  <2> HIDE DEF s, t
  <2>5. t \in [Counters -> Nat] /\ \A field \in Tallies : t[field] = s[field]
    BY <2>2, <2>3, <2>4, Counting
  <2> QED
    BY <2>5 DEF s, t
<1>9. Replaces(e, new, out.q, out.seq)
  <2> HIDE DEF crossing, accepted, turn, sent
  <2>1. \A p \in new : /\ p.t \in Nat /\ e.t <= p.t
                       /\ p.seq \in Nat /\ seq <= p.seq /\ p.seq < out.seq
    <3> SUFFICES ASSUME NEW i \in accepted
                 PROVE  /\ sent(i).t \in Nat /\ e.t <= sent(i).t
                        /\ sent(i).seq \in Nat /\ seq <= sent(i).seq /\ sent(i).seq < out.seq
      OBVIOUS
    <3>1. turn(i) \in Nat /\ turn(i) < Cardinality(accepted)
      BY <1>4
    <3>2. sent(i).t = crossing[i].arrival /\ sent(i).seq = seq + turn(i)
      BY <1>5
    <3>3. crossing[i].arrival \in Nat /\ e.t <= crossing[i].arrival
      BY <1>2
    <3> QED
      BY <1>1, <1>3, <1>6, <3>1, <3>2, <3>3
  <2>2. \A a, b \in new : a.seq = b.seq => a = b
    BY <1>1, <1>4, <1>5
  <2> QED
    BY <1>1, <1>3, <1>6, <2>1, <2>2 DEF Replaces
<1>10. \A p \in new : /\ p.kind = packet.kind /\ p.req = e.req
                      /\ p.prev = e.at /\ p.at \in Node
                      /\ \E i \in DOMAIN hops : p.at = hops[i]
  <2>1. \A i \in accepted : hops[i] \in Node /\ i \in DOMAIN hops
    BY <1>2 DEF Directions
  <2> HIDE DEF crossing, accepted, turn, sent
  <2> QED
    BY <1>5, <2>1
<1> HIDE DEF new
<1> QED
  BY <1>7, <1>8, <1>9, <1>10
-----------------------------------------------------------------------------
(* What handling a packet does to the heap, the links and the consumers.   *)
Traffic(e) ==
    \E new : /\ Replaces(e, new, q', seq')
             /\ \A p \in new : EventOK(p) /\ p.kind \in {"interest", "data"} /\ p.prev = e.at

(* Nobody is answered; the request of e is answered.                       *)
Silent == rs' = rs /\ \A field \in Tallies : stats'[field] = stats[field]

Answered(e) ==
    /\ ~rs[e.req].completed
    /\ rs' = [rs EXCEPT ![e.req].completed = TRUE]
    /\ stats'["completed_requests"] = stats["completed_requests"] + 1
    /\ \A field \in Tallies \ {"completed_requests"} : stats'[field] = stats[field]

Effect(e) ==
    /\ Traffic(e)
    /\ busy' \in [Directions -> Nat] /\ stats' \in [Counters -> Nat]
    /\ Silent \/ Answered(e)

LEMMA Counted ==
    ASSUME NEW s \in [Counters -> Nat], NEW field \in Counters
    PROVE  /\ Count(s, field) \in [Counters -> Nat]
           /\ Count(s, field)[field] = s[field] + 1
           /\ \A other \in Counters \ {field} : Count(s, field)[other] = s[other]
BY DEF Count

(* The packet is consumed and nothing is sent; or something is.            *)
LEMMA Consumed ==
    ASSUME Ordered, Links, NEW e \in q, NEW net, SetNet(net),
           net.q = q \ {e}, net.seq = seq, net.busy = busy, net.stats \in [Counters -> Nat]
    PROVE  /\ Traffic(e) /\ stats' = net.stats
           /\ busy' \in [Directions -> Nat] /\ stats' \in [Counters -> Nat]
<1>1. Replaces(e, {}, q', seq')
  BY DEF Ordered, SetNet, Replaces
<1> QED
  BY <1>1 DEF Traffic, SetNet, Links

LEMMA Sent ==
    ASSUME Ordered, Links, NEW e \in q, PacketOK(e), NEW packet, IsPacket(packet),
           NEW hops, Sequenced(hops), NEW lost,
           packet.kind = "interest" => e.at # Owner(e),
           packet.kind = "data" => \A i \in DOMAIN hops : hops[i] # Owner(e),
           NEW net, net.q = q \ {e}, net.seq = seq, net.stats \in [Counters -> Nat],
           SetNet(Send(net, e, packet, hops, lost))
    PROVE  /\ Traffic(e)
           /\ busy' \in [Directions -> Nat] /\ stats' \in [Counters -> Nat]
           /\ \A field \in Tallies : stats'[field] = net.stats[field]
<1> DEFINE out == Send(net, e, packet, hops, lost)
<1>1. q' = out.q /\ seq' = out.seq /\ busy' = out.busy /\ stats' = out.stats
  BY DEF SetNet
<1> HIDE DEF out
<1>2. PICK new : /\ Replaces(e, new, out.q, out.seq)
                 /\ \A p \in new : /\ p.kind = packet.kind /\ p.req = e.req
                                   /\ p.prev = e.at /\ p.at \in Node
                                   /\ \E i \in DOMAIN hops : p.at = hops[i]
  BY SendReplaces DEF out
<1>3. /\ out.busy \in [Directions -> Nat] /\ out.stats \in [Counters -> Nat]
      /\ \A field \in Tallies : out.stats[field] = net.stats[field]
  BY SendReplaces DEF out
<1>4. \A p \in new : EventOK(p) /\ p.kind \in {"interest", "data"} /\ p.prev = e.at
  <2> SUFFICES ASSUME NEW p \in new
               PROVE  EventOK(p) /\ p.kind \in {"interest", "data"} /\ p.prev = e.at
    OBVIOUS
  <2>1. /\ p.kind = packet.kind /\ p.req = e.req /\ p.prev = e.at /\ p.at \in Node
        /\ p.t \in Nat /\ e.t <= p.t /\ p.seq \in Nat
    BY <1>2 DEF Replaces
  <2>2. Owner(p) = Owner(e) /\ p.kind \in {"interest", "data"}
    BY <2>1 DEF Owner, NameOf, IsPacket
  <2>3. requests[p.req].start_ms <= p.t
    <3>1. requests[e.req].start_ms <= e.t /\ e.t \in Nat /\ requests[e.req].start_ms \in Nat
      BY DEF PacketOK, Request, Ordered, EventOK
    <3> QED
      BY <2>1, <3>1
  <2>4. PacketOK(p)
    BY <2>1, <2>3 DEF PacketOK, Face
  <2>5. p.kind = "interest" => p.prev # Owner(p)
    BY <2>1, <2>2
  <2>6. p.kind = "data" => p.at # Owner(p)
    BY <1>2, <2>1, <2>2
  <2> QED
    BY <2>1, <2>2, <2>4, <2>5, <2>6 DEF EventOK
<1> QED
  BY <1>1, <1>2, <1>3, <1>4 DEF Traffic

LEMMA AnswerEffect ==
    ASSUME Ordered, Links, NEW e \in q, PacketOK(e), e.prev # Owner(e), ~rs[e.req].completed,
           NEW counter \in {"cache_hits", "producer_serves"}, Answer(e, counter)
    PROVE  Effect(e)
<1> DEFINE s == Count(stats, counter)
<1>1. /\ s \in [Counters -> Nat] /\ \A field \in Tallies : s[field] = stats[field]
  <2>1. counter \in Counters \ Tallies /\ Tallies \subseteq Counters
    BY DEF Counters, Tallies
  <2>2. stats \in [Counters -> Nat]
    BY DEF Links
  <2>3. /\ s \in [Counters -> Nat]
        /\ \A other \in Counters \ {counter} : s[other] = stats[other]
    BY <2>1, <2>2, Counted
  <2> QED
    BY <2>1, <2>3
<1>2. Net(e).q = q \ {e} /\ Net(e).seq = seq /\ Net(e).busy = busy /\ Net(e).stats = stats
  BY DEF Net
<1>3. CASE e.prev = Local
  <2> DEFINE net == [Net(e) EXCEPT !.stats = Count(Count(@, counter), "completed_requests")]
             t == Count(s, "completed_requests")
  <2>1. SetNet(net) /\ CompleteRequest(e.req)
    BY <1>3 DEF Answer
  <2>2. net.q = q \ {e} /\ net.seq = seq /\ net.busy = busy /\ net.stats = t
    BY DEF Net
  <2>3. /\ t \in [Counters -> Nat]
        /\ t["completed_requests"] = s["completed_requests"] + 1
        /\ \A field \in Counters \ {"completed_requests"} : t[field] = s[field]
    <3>1. "completed_requests" \in Counters
      BY DEF Counters, Tallies
    <3> HIDE DEF s
    <3> QED
      BY <1>1, <3>1, Counted
  <2> HIDE DEF net, t, s
  <2>4. /\ Traffic(e) /\ stats' = t
        /\ busy' \in [Directions -> Nat] /\ stats' \in [Counters -> Nat]
    BY <2>1, <2>2, <2>3, Consumed
  <2>5. Answered(e)
    BY <1>1, <2>1, <2>3, <2>4 DEF Answered, CompleteRequest, Counters, Tallies
  <2> QED
    BY <2>4, <2>5 DEF Effect
<1>4. CASE e.prev # Local
  <2> DEFINE net == [Net(e) EXCEPT !.stats = Count(@, counter)]
  <2>1. PICK verified \in Verdicts, lost \in Losses({e.prev}) :
              SetNet(Send(net, e, DataPacket(verified), <<e.prev>>, lost))
    BY <1>4 DEF Answer
  <2>2. rs' = rs
    BY <1>4 DEF Answer
  <2>3. net.q = q \ {e} /\ net.seq = seq /\ net.stats = s
    BY DEF Net
  <2>4. Sequenced(<<e.prev>>) /\ DOMAIN <<e.prev>> = {1}
    BY OneHop
  <2>5. \A i \in DOMAIN <<e.prev>> : <<e.prev>>[i] # Owner(e)
    BY <2>4
  <2>6. IsPacket(DataPacket(verified)) /\ DataPacket(verified).kind = "data"
    BY Packets
  <2> HIDE DEF net, s
  <2>7. /\ Traffic(e)
        /\ busy' \in [Directions -> Nat] /\ stats' \in [Counters -> Nat]
        /\ \A field \in Tallies : stats'[field] = net.stats[field]
    BY <1>1, <2>1, <2>3, <2>4, <2>5, <2>6, Sent
  <2> QED
    BY <1>1, <2>2, <2>3, <2>7 DEF Effect, Silent
<1> QED
  BY <1>3, <1>4

-----------------------------------------------------------------------------
(* Content Stores.                                                         *)
StoreOK(n, held) ==
    /\ held \in [DOMAIN held -> Nat] /\ DOMAIN held \subseteq Name
    /\ IsFiniteSet(DOMAIN held) /\ Cardinality(DOMAIN held) <= CacheSize
    /\ \A name \in DOMAIN held : OwnerOf[name] # n
    /\ allowed[n] # {} => DOMAIN held \subseteq allowed[n]

LEMMA SameSize ==
    ASSUME NEW S
    PROVE  CS!Cardinality(S) = Cardinality(S)
BY DEF CS!Cardinality, Cardinality

LEMMA FewerNames ==
    ASSUME NEW n, NEW held, StoreOK(n, held), NEW k
    PROVE  /\ StoreOK(n, CS!Dropped(held, k))
           /\ DOMAIN CS!Dropped(held, k) = DOMAIN held \ {k}
           /\ k \in DOMAIN held => Cardinality(DOMAIN CS!Dropped(held, k)) + 1 <= CacheSize
<1> DEFINE less == CS!Dropped(held, k)
<1>1. DOMAIN less = DOMAIN held \ {k} /\ less \in [DOMAIN less -> Nat]
  BY DEF StoreOK, CS!Dropped
<1>2. /\ IsFiniteSet(DOMAIN less)
      /\ Cardinality(DOMAIN less) =
           IF k \in DOMAIN held THEN Cardinality(DOMAIN held) - 1 ELSE Cardinality(DOMAIN held)
  BY <1>1, FS_RemoveElement DEF StoreOK
<1>3. Cardinality(DOMAIN held) \in Nat /\ CacheSize \in Nat
  BY FS_CardinalityType, ParameterAssumption DEF StoreOK
<1> HIDE DEF less
<1> QED
  BY <1>1, <1>2, <1>3 DEF StoreOK, less

LEMMA StoreAfterLookup ==
    ASSUME NEW n, NEW held, StoreOK(n, held), NEW k, NEW t
    PROVE  StoreOK(n, CS!Lookup(Settings(n), held, k, t).held)
<1> DEFINE new == CS!Lookup(Settings(n), held, k, t).held
<1>1. new = held \/ new = CS!Dropped(held, k)
  BY DEF CS!Lookup
<1>2. StoreOK(n, CS!Dropped(held, k))
  BY FewerNames
<1> HIDE DEF new
<1>3. StoreOK(n, new)
  BY <1>1, <1>2
<1> QED
  BY <1>3 DEF new

LEMMA StoreAfterPut ==
    ASSUME NEW n, NEW held, StoreOK(n, held), NEW k \in Name, OwnerOf[k] # n, NEW t \in Nat,
           NEW new \in CS!Stores(Settings(n), held, k, t)
    PROVE  StoreOK(n, new)
<1> DEFINE set == Settings(n)
<1>1. set.capacity = CacheSize /\ set.allowed = allowed[n]
  BY DEF Settings
<1>2. CacheSize \in Nat /\ Cardinality(DOMAIN held) \in Nat
  BY FS_CardinalityType, ParameterAssumption DEF StoreOK
<1>3. CASE new = held
  BY <1>3
<1>4. CASE /\ set.capacity # 0 /\ CS!Directed(set, k)
           /\ \E rest \in IF k \in DOMAIN held THEN {held} ELSE CS!Evicted(set, held) :
                 new = CS!Storing(set, rest, k, t)
  <2>1. PICK rest \in IF k \in DOMAIN held THEN {held} ELSE CS!Evicted(set, held) :
                 new = CS!Storing(set, rest, k, t)
    BY <1>4
  <2>2. /\ StoreOK(n, rest)
        /\ k \in DOMAIN rest \/ Cardinality(DOMAIN rest) + 1 <= CacheSize
    <3>1. CASE k \in DOMAIN held
      BY <2>1, <3>1
    <3>2. CASE k \notin DOMAIN held /\ Cardinality(DOMAIN held) >= CacheSize
      <4>1. PICK victim \in DOMAIN held : rest = CS!Dropped(held, victim)
        BY <1>1, <2>1, <3>2, SameSize DEF CS!Evicted
      <4> QED
        BY <4>1, FewerNames
    <3>3. CASE k \notin DOMAIN held /\ ~(Cardinality(DOMAIN held) >= CacheSize)
      <4>1. rest = held
        BY <1>1, <2>1, <3>3, SameSize DEF CS!Evicted
      <4> QED
        BY <1>2, <3>3, <4>1
    <3> QED
      BY <3>1, <3>2, <3>3
  <2>3. /\ DOMAIN new = DOMAIN rest \cup {k}
        /\ new \in [DOMAIN new -> Nat]
    BY <2>1, <2>2 DEF CS!Storing, CS!Stamp, StoreOK
  <2>4. /\ IsFiniteSet(DOMAIN rest) /\ Cardinality(DOMAIN rest) \in Nat
        /\ Cardinality(DOMAIN rest) <= CacheSize
    BY <2>2, FS_CardinalityType DEF StoreOK
  <2>5. /\ IsFiniteSet(DOMAIN new)
        /\ Cardinality(DOMAIN new) = IF k \in DOMAIN rest THEN Cardinality(DOMAIN rest)
                                                          ELSE Cardinality(DOMAIN rest) + 1
    BY <2>3, <2>4, FS_AddElement
  <2>6. Cardinality(DOMAIN new) <= CacheSize
    BY <2>2, <2>4, <2>5
  <2>7. allowed[n] # {} => k \in allowed[n]
    BY <1>1, <1>4 DEF CS!Directed
  <2> QED
    BY <2>2, <2>3, <2>5, <2>6, <2>7 DEF StoreOK
<1> QED
  BY <1>3, <1>4 DEF CS!Stores

-----------------------------------------------------------------------------
(* Pending Interest Tables.                                                *)
TableOK(table, t) ==
    /\ DOMAIN table \subseteq Name
    /\ IsFiniteSet(DOMAIN table) /\ Cardinality(DOMAIN table) <= PitCapacity
    /\ \A name \in DOMAIN table :
          /\ table[name] \in [faces : SUBSET Face, expiry : Nat]
          /\ table[name].expiry <= t + Lifetime
          /\ OwnerOf[name] \notin table[name].faces

LEMMA FewerEntries ==
    ASSUME NEW table, NEW t \in Nat, TableOK(table, t), NEW later \in Nat, t <= later,
           NEW S, S \subseteq DOMAIN table
    PROVE  TableOK(Restrict(table, S), later)
<1>1. DOMAIN Restrict(table, S) = S /\ \A name \in S : Restrict(table, S)[name] = table[name]
  BY DEF Restrict
<1>2. IsFiniteSet(S) /\ Cardinality(S) \in Nat /\ Cardinality(S) <= Cardinality(DOMAIN table)
  BY FS_Subset, FS_CardinalityType DEF TableOK
<1>3. Cardinality(DOMAIN table) \in Nat /\ PitCapacity \in Nat /\ Lifetime \in Nat
  BY FS_CardinalityType, ParameterAssumption DEF TableOK
<1>4. Cardinality(S) <= PitCapacity
  BY <1>2, <1>3 DEF TableOK
<1>5. \A name \in S : table[name].expiry <= later + Lifetime
  BY <1>3 DEF TableOK
<1> QED
  BY <1>1, <1>2, <1>4, <1>5 DEF TableOK

LEMMA TableAfterPurge ==
    ASSUME NEW u, TableOK(pit[u], now), now \in Nat, NEW t \in Nat, now <= t
    PROVE  TableOK(Purged(u, t), t)
BY FewerEntries DEF Purged

LEMMA TableAfterPop ==
    ASSUME NEW u, TableOK(pit[u], now), now \in Nat, NEW t \in Nat, now <= t, NEW name
    PROVE  TableOK(PitPopped(u, name), t)
BY FewerEntries DEF PitPopped

LEMMA TableAfterMerge ==
    ASSUME NEW e, e.prev \in Face, e.t \in Nat, e.prev # Owner(e),
           NEW table, TableOK(table, e.t), Pending(table, e)
    PROVE  TableOK([table EXCEPT ![NameOf(e)] = Refreshed(@, e)], e.t)
<1> DEFINE name == NameOf(e)
           old == table[name]
           entry == Refreshed(old, e)
<1>1. /\ old \in [faces : SUBSET Face, expiry : Nat] /\ old.expiry <= e.t + Lifetime
      /\ OwnerOf[name] \notin old.faces
  BY DEF TableOK, Pending
<1>2. Lifetime \in Nat
  BY ParameterAssumption
<1>3. entry.faces = old.faces \cup {e.prev}
      /\ entry.expiry = LaterOf(old.expiry, e.t + Lifetime)
      /\ entry = [faces |-> entry.faces, expiry |-> entry.expiry]
  BY DEF Refreshed
<1>4. entry.expiry \in Nat /\ entry.expiry <= e.t + Lifetime
  <2> HIDE DEF entry
  <2> QED
    BY <1>1, <1>2, <1>3 DEF LaterOf
<1>5. entry.faces \subseteq Face /\ OwnerOf[name] \notin entry.faces
  BY <1>1, <1>3 DEF Owner
<1>6. entry \in [faces : SUBSET Face, expiry : Nat]
  BY <1>3, <1>4, <1>5
<1> HIDE DEF entry
<1> QED
  BY <1>4, <1>5, <1>6 DEF TableOK, entry

LEMMA TableAfterEntry ==
    ASSUME NEW e, e.prev \in Face, e.t \in Nat, e.prev # Owner(e), NameOf(e) \in Name,
           NEW table, TableOK(table, e.t), ~Pending(table, e), ~PitFull(table)
    PROVE  TableOK(Inserted(table, e), e.t)
<1> DEFINE name == NameOf(e)
           entry == [faces |-> {e.prev}, expiry |-> e.t + Lifetime]
           new == Inserted(table, e)
<1>1. /\ DOMAIN new = DOMAIN table \cup {name} /\ new[name] = entry
      /\ \A other \in DOMAIN table : new[other] = table[other]
  BY DEF Pending, Inserted
<1>2. Lifetime \in Nat /\ PitCapacity \in Nat
  BY ParameterAssumption
<1>3. IsFiniteSet(DOMAIN table) /\ Cardinality(DOMAIN table) \in Nat
  BY FS_CardinalityType DEF TableOK
<1>4. /\ IsFiniteSet(DOMAIN new) /\ Cardinality(DOMAIN new) = Cardinality(DOMAIN table) + 1
  BY <1>1, <1>3, FS_AddElement DEF Pending
<1>5. Cardinality(DOMAIN new) <= PitCapacity
  BY <1>2, <1>3, <1>4 DEF PitFull
<1>6. /\ entry \in [faces : SUBSET Face, expiry : Nat] /\ entry.expiry <= e.t + Lifetime
      /\ OwnerOf[name] \notin entry.faces
  BY <1>2 DEF Owner
<1> HIDE DEF new, entry, name
<1>7. TableOK(new, e.t)
  BY <1>1, <1>4, <1>5, <1>6 DEF TableOK, name
<1> QED
  BY <1>7 DEF new, entry, name

-----------------------------------------------------------------------------
(* The nodes, and what handling a packet does to one of them.              *)
Nodes ==
    /\ allowed \in [Node -> SUBSET Name]
    /\ \A m, n \in Node : m # n => allowed[m] \cap allowed[n] = {}
    /\ DOMAIN cs = Node /\ DOMAIN pit = Node
    /\ \A n \in Node : StoreOK(n, cs[n]) /\ TableOK(pit[n], now)

LEMMA NodesKept ==
    ASSUME Nodes, Ordered, NEW e \in q, now' = e.t, UNCHANGED allowed,
           DOMAIN cs' = Node, DOMAIN pit' = Node,
           \A n \in Node : cs'[n] = cs[n] \/ StoreOK(n, cs'[n]),
           \A n \in Node : pit'[n] = pit[n] \/ TableOK(pit'[n], e.t)
    PROVE  Nodes'
<1>1. now \in Nat /\ e.t \in Nat /\ now <= e.t
  BY DEF Ordered, EventOK
<1>2. \A n \in Node : TableOK(pit[n], e.t)
  <2>1. Lifetime \in Nat
    BY ParameterAssumption
  <2> QED
    BY <1>1, <2>1 DEF Nodes, TableOK
<1>3. \A n \in Node : TableOK(pit'[n], e.t)
  BY <1>2
<1>4. \A n \in Node : TableOK(pit[n], now)'
  BY <1>3 DEF TableOK
<1>5. \A n \in Node : StoreOK(n, cs'[n])
  BY DEF Nodes
<1>6. \A n \in Node : StoreOK(n, cs[n])'
  BY <1>5 DEF StoreOK
<1> QED
  BY <1>4, <1>6 DEF Nodes

LEMMA OneNodeKept ==
    ASSUME Nodes, Ordered, NEW e \in q, now' = e.t, UNCHANGED allowed, e.at \in Node,
           NEW held, StoreOK(e.at, held), cs' = [cs EXCEPT ![e.at] = held],
           NEW table, TableOK(table, e.t), pit' = [pit EXCEPT ![e.at] = table]
    PROVE  Nodes'
<1>1. DOMAIN cs' = Node /\ DOMAIN pit' = Node
  BY DEF Nodes
<1>2. \A n \in Node : cs'[n] = cs[n] \/ StoreOK(n, cs'[n])
  BY DEF Nodes
<1>3. \A n \in Node : pit'[n] = pit[n] \/ TableOK(pit'[n], e.t)
  BY DEF Nodes
<1> QED
  BY <1>1, <1>2, <1>3, NodesKept

LEMMA StoreKept ==
    ASSUME Nodes, Ordered, NEW e \in q, now' = e.t, UNCHANGED <<allowed, pit>>, e.at \in Node,
           NEW held, StoreOK(e.at, held), cs' = [cs EXCEPT ![e.at] = held]
    PROVE  Nodes'
<1>1. DOMAIN cs' = Node /\ DOMAIN pit' = Node
  BY DEF Nodes
<1>2. \A n \in Node : cs'[n] = cs[n] \/ StoreOK(n, cs'[n])
  BY DEF Nodes
<1> QED
  BY <1>1, <1>2, NodesKept

LEMMA NodesUntouched ==
    ASSUME Nodes, Ordered, NEW e \in q, now' = e.t, UNCHANGED <<allowed, pit, cs>>
    PROVE  Nodes'
BY NodesKept DEF Nodes

-----------------------------------------------------------------------------
(* Next hops are places of a FIB entry.                                    *)
LEMMA PartSequenced ==
    ASSUME NEW hops, Sequenced(hops), NEW S, S \subseteq DOMAIN hops
    PROVE  Sequenced(Restrict(hops, S))
<1>1. DOMAIN Restrict(hops, S) = S
  BY DEF Restrict
<1> QED
  BY <1>1, FS_Subset DEF Sequenced

LEMMA HopsSequenced ==
    ASSUME fib \in Fibs, NEW u \in Node, NEW name, NEW hops \in NextHopChoices(u, name)
    PROVE  Sequenced(hops)
<1> DEFINE entry == IF OwnerOf[name] \in DOMAIN fib[u] THEN fib[u][OwnerOf[name]] ELSE <<>>
           usable == ActiveHops(entry, u)
<1>1. entry \in Seq(Node)
  <2>1. PICK f \in Forwarding, up \in SUBSET Link : fib = RoutesOf[f][up]
    BY DEF Fibs
  <2> QED
    BY <2>1, FibAssumption
<1>2. Sequenced(entry)
  <2>1. DOMAIN entry = 1 .. Len(entry) /\ Len(entry) \in Nat
    BY <1>1
  <2> DEFINE n == Len(entry)
  <2> HIDE DEF entry
  <2>2. n \in Nat /\ DOMAIN entry = 1 .. n
    BY <2>1
  <2> HIDE DEF n
  <2>3. IsFiniteSet(1 .. n)
    BY <2>2, FS_Interval
  <2> QED
    BY <2>2, <2>3 DEF Sequenced
<1>3. Sequenced(usable)
  <2> HIDE DEF entry
  <2> QED
    BY <1>2, PartSequenced DEF ActiveHops
<1>4. hops = <<>> \/ hops = usable \/ \E v : hops = <<v>>
  <2> HIDE DEF usable
  <2> QED
    BY DEF NextHopChoices, usable
<1>5. Sequenced(<<>>)
  BY FS_EmptySet DEF Sequenced
<1> QED
  BY <1>3, <1>4, <1>5, OneHop

LEMMA OnwardSequenced ==
    ASSUME NEW hops, Sequenced(hops), NEW e
    PROVE  Sequenced(Onward(hops, e))
BY PartSequenced DEF Onward

-----------------------------------------------------------------------------
(* An Interest is handled.                                                 *)
LEMMA InterestStep ==
    ASSUME Ordered, Links, Nodes, fib \in Fibs, NEW e \in q, Interest(e)
    PROVE  Effect(e) /\ Nodes'
<1>1. /\ e.kind = "interest" /\ now' = e.t
      /\ UNCHANGED <<requests, allowed>>
  BY DEF Interest, Popped, control
<1>2. PacketOK(e) /\ e.prev # Owner(e) /\ e.t \in Nat /\ now \in Nat /\ now <= e.t
  BY <1>1 DEF Ordered, EventOK
<1>3. e.at \in Node /\ e.prev \in Face /\ NameOf(e) \in Name
  BY <1>2 DEF PacketOK, Request, NameOf
<1>4. TableOK(pit[e.at], now) /\ TableOK(Purged(e.at, e.t), e.t)
  BY <1>2, <1>3, TableAfterPurge DEF Nodes
<1>5. StoreOK(e.at, Found(e).held)
  BY <1>3, StoreAfterLookup DEF Nodes, Found
<1>6. Net(e).q = q \ {e} /\ Net(e).seq = seq /\ Net(e).busy = busy /\ Net(e).stats = stats
  BY DEF Net
<1>7. CASE OfResolved(e)
  <2>1. SetNet(Net(e)) /\ rs' = rs /\ UNCHANGED <<pit, cs>>
    BY <1>7 DEF OfResolved
  <2>2. /\ Traffic(e) /\ stats' = stats
        /\ busy' \in [Directions -> Nat] /\ stats' \in [Counters -> Nat]
    BY <1>6, <2>1, Consumed DEF Links
  <2>3. Nodes'
    BY <1>1, <2>1, NodesUntouched
  <2> QED
    BY <2>1, <2>2, <2>3 DEF Effect, Silent
<1> DEFINE table == Purged(e.at, e.t)
<1>8. ASSUME ~rs[e.req].completed, cs' = [cs EXCEPT ![e.at] = Found(e).held],
             CacheHit(e) \/ ProducerServe(e)
      PROVE  Effect(e) /\ Nodes'
  <2>1. pit' = [pit EXCEPT ![e.at] = table]
    BY <1>8 DEF CacheHit, ProducerServe
  <2>2. Nodes'
    BY <1>1, <1>3, <1>4, <1>5, <1>8, <2>1, OneNodeKept
  <2>3. \E counter \in {"cache_hits", "producer_serves"} : Answer(e, counter)
    BY <1>8 DEF CacheHit, ProducerServe
  <2>4. Effect(e)
    BY <1>2, <1>8, <2>3, AnswerEffect
  <2> QED
    BY <2>2, <2>4
<1>9. ASSUME cs' = [cs EXCEPT ![e.at] = Found(e).held], Aggregate(e)
      PROVE  Effect(e) /\ Nodes'
  <2>1. /\ pit' = [pit EXCEPT ![e.at] = [table EXCEPT ![NameOf(e)] = Refreshed(@, e)]]
        /\ SetNet(Net(e)) /\ rs' = rs /\ Pending(table, e)
    BY <1>9 DEF Aggregate
  <2>2. TableOK([table EXCEPT ![NameOf(e)] = Refreshed(@, e)], e.t)
    BY <1>2, <1>3, <1>4, <2>1, TableAfterMerge
  <2>3. Nodes'
    <3> DEFINE new == [table EXCEPT ![NameOf(e)] = Refreshed(@, e)]
    <3>1. TableOK(new, e.t) /\ pit' = [pit EXCEPT ![e.at] = new]
      BY <2>1, <2>2
    <3> HIDE DEF new
    <3> QED
      BY <1>1, <1>3, <1>5, <1>9, <3>1, OneNodeKept
  <2>4. /\ Traffic(e) /\ stats' = stats
        /\ busy' \in [Directions -> Nat] /\ stats' \in [Counters -> Nat]
    BY <1>6, <2>1, Consumed DEF Links
  <2> QED
    BY <2>1, <2>3, <2>4 DEF Effect, Silent
<1>10. ASSUME cs' = [cs EXCEPT ![e.at] = Found(e).held], PitOverflow(e) \/ NoNextHop(e)
       PROVE  Effect(e) /\ Nodes'
  <2> DEFINE s == IF PitOverflow(e)
                    THEN Count(Count(stats, "pit_overflow_drops"), "dropped_interests")
                    ELSE Count(stats, "dropped_interests")
             net == [Net(e) EXCEPT !.stats = s]
  <2>1. /\ pit' = [pit EXCEPT ![e.at] = table]
        /\ SetNet(net) /\ rs' = rs
    BY <1>6, <1>10 DEF PitOverflow, NoNextHop, Net
  <2>2. Nodes'
    BY <1>1, <1>3, <1>4, <1>5, <1>10, <2>1, OneNodeKept
  <2>3. s \in [Counters -> Nat] /\ \A field \in Tallies : s[field] = stats[field]
    <3>1. /\ "pit_overflow_drops" \in Counters \ Tallies
          /\ "dropped_interests" \in Counters \ Tallies /\ Tallies \subseteq Counters
      BY DEF Counters, Tallies
    <3>2. \A t \in [Counters -> Nat], f \in Counters \ Tallies :
             /\ Count(t, f) \in [Counters -> Nat]
             /\ \A field \in Tallies : Count(t, f)[field] = t[field]
      BY <3>1, Counted
    <3>3. stats \in [Counters -> Nat]
      BY DEF Links
    <3> QED
      BY <3>1, <3>2, <3>3
  <2>4. net.q = q \ {e} /\ net.seq = seq /\ net.busy = busy /\ net.stats = s
    BY DEF Net
  <2> HIDE DEF net, s
  <2>5. /\ Traffic(e) /\ stats' = s
        /\ busy' \in [Directions -> Nat] /\ stats' \in [Counters -> Nat]
    BY <2>1, <2>3, <2>4, Consumed
  <2> QED
    BY <2>1, <2>2, <2>3, <2>5 DEF Effect, Silent
<1>11. ASSUME cs' = [cs EXCEPT ![e.at] = Found(e).held], Forward(e)
       PROVE  Effect(e) /\ Nodes'
  <2>1. /\ pit' = [pit EXCEPT ![e.at] = Inserted(table, e)]
        /\ rs' = rs /\ ~Pending(table, e) /\ ~PitFull(table) /\ e.at # Owner(e)
    BY <1>11 DEF Forward, Miss, Owner
  <2>2. Nodes'
    BY <1>1, <1>2, <1>3, <1>4, <1>5, <1>11, <2>1, TableAfterEntry, OneNodeKept
  <2>3. PICK hops \in NextHopChoices(e.at, NameOf(e)) :
           \E lost : SetNet(Send(Net(e), e, InterestPacket, Onward(hops, e), lost))
    BY <1>11 DEF Forward
  <2>4. PICK lost : SetNet(Send(Net(e), e, InterestPacket, Onward(hops, e), lost))
    BY <2>3
  <2>5. Sequenced(Onward(hops, e))
    BY <1>3, HopsSequenced, OnwardSequenced
  <2> DEFINE way == Onward(hops, e)
             packet == InterestPacket
             net == Net(e)
  <2>6. /\ IsPacket(packet) /\ packet.kind = "interest"
        /\ net.q = q \ {e} /\ net.seq = seq /\ net.stats = stats
        /\ stats \in [Counters -> Nat]
        /\ Sequenced(way) /\ SetNet(Send(net, e, packet, way, lost))
    BY <1>6, <2>4, <2>5, Packets DEF Links
  <2> HIDE DEF way, packet, net
  <2>7. /\ Traffic(e)
        /\ busy' \in [Directions -> Nat] /\ stats' \in [Counters -> Nat]
        /\ \A field \in Tallies : stats'[field] = stats[field]
    BY <1>2, <2>1, <2>6, Sent
  <2> QED
    BY <2>1, <2>2, <2>7 DEF Effect, Silent
<1> QED
  BY <1>7, <1>8, <1>9, <1>10, <1>11 DEF Interest

(* A Data packet is handled.  A node's faces for a name do not include the *)
(* way to its owner, so Data never arrives where it was made.              *)
LEMMA FacesSequenced ==
    ASSUME NEW faces, faces \subseteq Face, NEW order \in SetToSeqs(faces \ {Local})
    PROVE  Sequenced(order) /\ \A i \in DOMAIN order : order[i] \in faces
<1> DEFINE S == faces \ {Local}
           n == Cardinality(S)
<1>1. order \in [1 .. n -> S]
  BY DEF SetToSeqs
<1>2. S \subseteq Node
  BY DEF Face
<1>3. IsFiniteSet(S)
  BY <1>2, FS_Subset, NetworkAssumption
<1> HIDE DEF S
<1>4. n \in Nat
  BY <1>3, FS_CardinalityType
<1> HIDE DEF n
<1>5. IsFiniteSet(1 .. n)
  BY <1>4, FS_Interval
<1>6. DOMAIN order = 1 .. n /\ \A i \in DOMAIN order : order[i] \in S
  BY <1>1
<1>7. Sequenced(order)
  BY <1>4, <1>5, <1>6 DEF Sequenced
<1> QED
  BY <1>6, <1>7 DEF S

(* Data that is counted as delivered completes its request.                *)
LEMMA DeliveredCounts ==
    ASSUME Links, NEW e, NEW faces
    PROVE  LET s == Delivered(e, faces).stats
           IN /\ Delivered(e, faces).q = q \ {e} /\ Delivered(e, faces).seq = seq
              /\ s \in [Counters -> Nat]
              /\ IF Local \in faces /\ e.at = requests[e.req].consumer
                   THEN /\ s["completed_requests"] = stats["completed_requests"] + 1
                        /\ \A field \in Tallies \ {"completed_requests"} : s[field] = stats[field]
                   ELSE \A field \in Tallies : s[field] = stats[field]
<1> DEFINE s == Delivered(e, faces).stats
<1>1. Net(e).q = q \ {e} /\ Net(e).seq = seq /\ Net(e).stats = stats
  BY DEF Net
<1>2. Delivered(e, faces).q = q \ {e} /\ Delivered(e, faces).seq = seq
  BY DEF Delivered, Net
<1>3. stats \in [Counters -> Nat]
  BY DEF Links
<1>4. /\ "completed_requests" \in Tallies /\ Tallies \subseteq Counters
      /\ "dropped_data" \in Counters \ Tallies
  BY DEF Counters, Tallies
<1>5. CASE Local \notin faces
  <2>1. s = stats
    BY <1>1, <1>5 DEF Delivered
  <2> QED
    BY <1>2, <1>3, <1>5, <2>1
<1>6. CASE Local \in faces /\ e.at = requests[e.req].consumer
  <2>1. s = Count(stats, "completed_requests")
    BY <1>6 DEF Delivered, Net
  <2> HIDE DEF s
  <2>2. /\ s \in [Counters -> Nat]
        /\ s["completed_requests"] = stats["completed_requests"] + 1
        /\ \A field \in Tallies \ {"completed_requests"} : s[field] = stats[field]
    BY <1>3, <1>4, <2>1, Counted
  <2> QED
    BY <1>2, <1>6, <2>2 DEF s
<1>7. CASE Local \in faces /\ e.at # requests[e.req].consumer
  <2>1. s = Count(stats, "dropped_data")
    BY <1>7 DEF Delivered, Net
  <2> HIDE DEF s
  <2>2. s \in [Counters -> Nat] /\ \A field \in Tallies : s[field] = stats[field]
    BY <1>3, <1>4, <2>1, Counted
  <2> QED
    BY <1>2, <1>7, <2>2 DEF s
<1> QED
  BY <1>5, <1>6, <1>7

LEMMA SatisfyEffect ==
    ASSUME Ordered, Links, Nodes, NEW e \in q, PacketOK(e), ~rs[e.req].completed, Satisfy(e)
    PROVE  Effect(e)
<1> DEFINE faces == pit[e.at][NameOf(e)].faces
           net == Delivered(e, faces)
           packet == DataPacket(e.verified)
<1>1. faces \subseteq Face /\ Owner(e) \notin faces
  BY DEF PacketOK, Nodes, TableOK, Satisfy, Owner
<1>2. PICK order \in SetToSeqs(faces \ {Local}) :
        \E lost : SetNet(Send(net, e, packet, order, lost))
  BY DEF Satisfy
<1>3. PICK lost : SetNet(Send(net, e, packet, order, lost))
  BY <1>2
<1>4. IF Local \in faces /\ e.at = requests[e.req].consumer
        THEN CompleteRequest(e.req) ELSE rs' = rs
  BY DEF Satisfy
<1> HIDE DEF faces
<1>5. /\ Sequenced(order) /\ \A i \in DOMAIN order : order[i] # Owner(e)
  BY <1>1, FacesSequenced
<1>6. IsPacket(packet) /\ packet.kind = "data"
  BY Packets
<1>7. /\ net.q = q \ {e} /\ net.seq = seq /\ net.stats \in [Counters -> Nat]
      /\ IF Local \in faces /\ e.at = requests[e.req].consumer
           THEN /\ net.stats["completed_requests"] = stats["completed_requests"] + 1
                /\ \A field \in Tallies \ {"completed_requests"} : net.stats[field] = stats[field]
           ELSE \A field \in Tallies : net.stats[field] = stats[field]
  BY DeliveredCounts
<1> HIDE DEF net, packet
<1>8. /\ Traffic(e)
      /\ busy' \in [Directions -> Nat] /\ stats' \in [Counters -> Nat]
      /\ \A field \in Tallies : stats'[field] = net.stats[field]
  BY <1>3, <1>5, <1>6, <1>7, Sent
<1>9. Silent \/ Answered(e)
  <2>1. CASE Local \in faces /\ e.at = requests[e.req].consumer
    <3>1. "completed_requests" \in Tallies
      BY DEF Tallies
    <3> QED
      BY <1>4, <1>7, <1>8, <2>1, <3>1 DEF Answered, CompleteRequest
  <2>2. CASE ~(Local \in faces /\ e.at = requests[e.req].consumer)
    BY <1>4, <1>7, <1>8, <2>2 DEF Silent
  <2> QED
    BY <2>1, <2>2
<1> QED
  BY <1>8, <1>9 DEF Effect

LEMMA UnsolicitedEffect ==
    ASSUME Ordered, Links, NEW e \in q, ~rs[e.req].completed, Unsolicited(e)
    PROVE  Effect(e)
<1> DEFINE field == IF e.at = requests[e.req].consumer THEN "completed_requests"
                                                      ELSE "dropped_data"
           s == Count(stats, field)
           net == [Net(e) EXCEPT !.stats = s]
<1>1. SetNet(net)
  BY DEF Unsolicited, Net
<1>2. net.q = q \ {e} /\ net.seq = seq /\ net.busy = busy /\ net.stats = s
  BY DEF Net
<1>3. /\ "completed_requests" \in Tallies /\ Tallies \subseteq Counters
      /\ "dropped_data" \in Counters \ Tallies
  BY DEF Counters, Tallies
<1>4. /\ s \in [Counters -> Nat] /\ s[field] = stats[field] + 1
      /\ \A other \in Counters \ {field} : s[other] = stats[other]
  BY <1>3, Counted DEF Links
<1> HIDE DEF net, s
<1>5. /\ Traffic(e) /\ stats' = s
      /\ busy' \in [Directions -> Nat] /\ stats' \in [Counters -> Nat]
  BY <1>1, <1>2, <1>4, Consumed
<1>6. CASE e.at = requests[e.req].consumer
  <2>1. CompleteRequest(e.req)
    BY <1>6 DEF Unsolicited
  <2>2. Answered(e)
    BY <1>3, <1>4, <1>5, <1>6, <2>1 DEF Answered, CompleteRequest
  <2> QED
    BY <1>5, <2>2 DEF Effect
<1>7. CASE e.at # requests[e.req].consumer
  <2>1. rs' = rs
    BY <1>7 DEF Unsolicited
  <2>2. Silent
    BY <1>3, <1>4, <1>5, <1>7, <2>1 DEF Silent
  <2> QED
    BY <1>5, <2>2 DEF Effect
<1> QED
  BY <1>6, <1>7

LEMMA DataStep ==
    ASSUME Ordered, Links, Nodes, NEW e \in q, Data(e)
    PROVE  Effect(e) /\ Nodes'
<1>1. /\ e.kind = "data" /\ now' = e.t
      /\ UNCHANGED <<requests, allowed>>
  BY DEF Data, Popped, control
<1>2. PacketOK(e) /\ e.at # Owner(e) /\ e.t \in Nat /\ now \in Nat /\ now <= e.t
  BY <1>1 DEF Ordered, EventOK
<1>3. e.at \in Node /\ NameOf(e) \in Name
  BY <1>2 DEF PacketOK, Request, NameOf
<1>4. ASSUME NEW net, SetNet(net), rs' = rs, UNCHANGED <<pit, cs>>,
             net.q = q \ {e}, net.seq = seq, net.busy = busy,
             net.stats \in [Counters -> Nat],
             \A field \in Tallies : net.stats[field] = stats[field]
      PROVE  Effect(e) /\ Nodes'
  <2>1. /\ Traffic(e) /\ stats' = net.stats
        /\ busy' \in [Directions -> Nat] /\ stats' \in [Counters -> Nat]
    BY <1>4, Consumed
  <2>2. Nodes'
    BY <1>1, <1>4, NodesUntouched
  <2> QED
    BY <1>4, <2>1, <2>2 DEF Effect, Silent
<1>5. CASE OfResolved(e)
  <2>1. SetNet(Net(e)) /\ rs' = rs /\ UNCHANGED <<pit, cs>>
    BY <1>5 DEF OfResolved
  <2>2. Net(e).q = q \ {e} /\ Net(e).seq = seq /\ Net(e).busy = busy /\ Net(e).stats = stats
    BY DEF Net
  <2> QED
    BY <1>4, <2>1, <2>2 DEF Links
<1>6. CASE DropUnverified(e)
  <2> DEFINE s == Count(stats, "verification_failures")
             net == [Net(e) EXCEPT !.stats = s]
  <2>1. SetNet(net) /\ rs' = rs /\ UNCHANGED <<pit, cs>>
    BY <1>6 DEF DropUnverified, Net
  <2>2. net.q = q \ {e} /\ net.seq = seq /\ net.busy = busy /\ net.stats = s
    BY DEF Net
  <2>3. "verification_failures" \in Counters \ Tallies /\ Tallies \subseteq Counters
    BY DEF Counters, Tallies
  <2>4. s \in [Counters -> Nat] /\ \A field \in Tallies : s[field] = stats[field]
    BY <2>3, Counted DEF Links
  <2> HIDE DEF net, s
  <2> QED
    BY <1>4, <2>1, <2>2, <2>4
<1>7. ASSUME ~rs[e.req].completed, Satisfy(e) \/ Unsolicited(e),
             NEW held \in CS!Stores(Settings(e.at), cs[e.at], NameOf(e), e.t),
             cs' = [cs EXCEPT ![e.at] = held]
      PROVE  Effect(e) /\ Nodes'
  <2>1. Effect(e)
    BY <1>2, <1>7, SatisfyEffect, UnsolicitedEffect
  <2>2. StoreOK(e.at, held)
    <3>1. StoreOK(e.at, cs[e.at]) /\ OwnerOf[NameOf(e)] # e.at
      BY <1>2, <1>3 DEF Nodes, Owner
    <3> QED
      BY <1>2, <1>3, <1>7, <3>1, StoreAfterPut
  <2>3. CASE Satisfy(e)
    <3>1. pit' = [pit EXCEPT ![e.at] = PitPopped(e.at, NameOf(e))]
      BY <2>3 DEF Satisfy
    <3>2. TableOK(PitPopped(e.at, NameOf(e)), e.t)
      BY <1>2, <1>3, TableAfterPop DEF Nodes
    <3>3. Nodes'
      BY <1>1, <1>3, <1>7, <2>2, <3>1, <3>2, OneNodeKept
    <3> QED
      BY <2>1, <3>3
  <2>4. CASE Unsolicited(e)
    <3>1. pit' = pit
      BY <2>4 DEF Unsolicited
    <3>2. Nodes'
      BY <1>1, <1>3, <1>7, <2>2, <3>1, StoreKept
    <3> QED
      BY <2>1, <3>2
  <2> QED
    BY <1>7, <2>3, <2>4
<1> QED
  BY <1>5, <1>6, <1>7 DEF Data

-----------------------------------------------------------------------------
(* The whole invariant.  A request has one timer at most; toggles keep the *)
(* order of the failure list, pushed FIBs that of the pushes, and every    *)
(* toggle was numbered before every push.                                  *)
Timeouts == OfKind("timeout")
ToggleEvents == OfKind("toggle")
ApplyEvents == OfKind("fib_apply")

RequestState == [completed : BOOLEAN, attempts : Nat, current_attempt : Nat]

Requesting ==
    /\ requests \in Workloads
    /\ requests \in Seq(Request)
    /\ rs \in [DOMAIN requests -> RequestState]
    /\ \A a, b \in Timeouts : a.req = b.req => a = b

ControlOrder ==
    /\ \A a, b \in ToggleEvents : a.seq < b.seq <=> a.idx < b.idx
    /\ \A e \in ApplyEvents : e.n < cstats.fib_pushes
    /\ \A a, b \in ApplyEvents : a.seq < b.seq <=> a.n < b.n
    /\ \A a \in ToggleEvents, b \in ApplyEvents : a.seq < b.seq

Routed ==
    /\ forwarding \in Forwarding
    /\ fib \in Fibs
    /\ cstats.fib_pushes \in Nat
    /\ ControlOrder

IInv == Ordered /\ Links /\ Nodes /\ Requesting /\ Routed

LEMMA PoppedFirst ==
    ASSUME NEW e \in q, NEW kind, Popped(e, kind)
    PROVE  e \in OfKind(kind) /\ e.kind = kind /\ First(e) /\ now' = e.t
BY DEF Popped, First, OfKind

LEMMA FewerControlEvents ==
    ASSUME Routed, ToggleEvents' \subseteq ToggleEvents, ApplyEvents' \subseteq ApplyEvents,
           cstats'.fib_pushes = cstats.fib_pushes, forwarding' = forwarding, fib' \in Fibs
    PROVE  Routed'
BY DEF Routed, ControlOrder

(* A packet is handled.                                                    *)
LEMMA PacketsOnly ==
    ASSUME NEW e \in q, e.kind \in {"interest", "data"}, Traffic(e)
    PROVE  Timeouts' = Timeouts /\ ToggleEvents' = ToggleEvents /\ ApplyEvents' = ApplyEvents
<1>1. PICK new : /\ q' = (q \ {e}) \cup new
                 /\ \A p \in new : p.kind \in {"interest", "data"}
  BY DEF Traffic, Replaces
<1> QED
  BY <1>1 DEF Timeouts, ToggleEvents, ApplyEvents, OfKind

LEMMA PacketStep ==
    ASSUME IInv, NEW e \in q, Interest(e) \/ Data(e)
    PROVE  IInv' /\ Effect(e)
<1>1. /\ e.kind \in {"interest", "data"} /\ First(e) /\ now' = e.t
      /\ UNCHANGED <<requests, forwarding, allowed, active, fib, last, cstats>>
  BY PoppedFirst DEF Interest, Data, control
<1>2. Effect(e) /\ Nodes'
  BY InterestStep, DataStep DEF IInv, Routed
<1>3. Ordered'
  <2>1. PICK new : Replaces(e, new, q', seq') /\ \A p \in new : EventOK(p)
    BY <1>2 DEF Effect, Traffic
  <2> QED
    BY <1>1, <2>1, OrderKept DEF IInv
<1>4. Links'
  BY <1>1, <1>2 DEF Effect, Links, Directions, IInv
<1>5. Timeouts' = Timeouts /\ ToggleEvents' = ToggleEvents /\ ApplyEvents' = ApplyEvents
  BY <1>1, <1>2, PacketsOnly DEF Effect
<1>6. Requesting'
  <2>1. rs' \in [DOMAIN requests -> RequestState]
    <3>1. rs \in [DOMAIN requests -> RequestState]
      BY DEF IInv, Requesting
    <3>2. CASE rs' = rs
      BY <3>1, <3>2
    <3>3. CASE rs' = [rs EXCEPT ![e.req].completed = TRUE]
      BY <3>1, <3>3 DEF RequestState
    <3> QED
      BY <1>2, <3>2, <3>3 DEF Effect, Silent, Answered
  <2> QED
    BY <1>1, <1>5, <2>1 DEF IInv, Requesting
<1>7. Routed'
  BY <1>1, <1>5, FewerControlEvents DEF IInv, Routed
<1> QED
  BY <1>2, <1>3, <1>4, <1>6, <1>7 DEF IInv

(* A timeout.                                                              *)
LEMMA TimeoutStep ==
    ASSUME IInv, NEW e \in q, Timeout(e)
    PROVE  IInv'
<1>1. /\ e \in Timeouts /\ e.kind = "timeout" /\ First(e) /\ now' = e.t
      /\ UNCHANGED <<requests, forwarding, allowed, active, fib, last, cstats, pit, cs, busy>>
  BY PoppedFirst DEF Timeout, Timeouts, control
<1>2. /\ e.req \in DOMAIN requests /\ requests[e.req].start_ms <= e.t /\ e.t \in Nat
      /\ seq \in Nat
  BY <1>1 DEF IInv, Ordered, EventOK
<1>3. requests[e.req] \in Request
  <2> DEFINE Element == Request
  <2>1. requests \in Seq(Element)
    BY DEF IInv, Requesting
  <2> HIDE DEF Element
  <2>2. requests[e.req] \in Element
    BY <1>2, <2>1
  <2> QED
    BY <2>2 DEF Element
<1>4. /\ rs \in [DOMAIN requests -> RequestState] /\ stats \in [Counters -> Nat]
      /\ \A a, b \in Timeouts : a.req = b.req => a = b
  BY DEF IInv, Links, Requesting
<1>5. Nodes'
  BY <1>1, NodesUntouched DEF IInv
<1>6. ASSUME NEW new, Replaces(e, new, q', seq'), \A p \in new : EventOK(p),
             rs' \in [DOMAIN requests -> RequestState], stats' \in [Counters -> Nat],
             \A p \in new : p.kind \in {"interest", "timeout"} /\ p.req = e.req,
             \A a, b \in new : a.kind = "timeout" /\ b.kind = "timeout" => a = b
      PROVE  IInv'
  <2>1. Ordered'
    BY <1>1, <1>6, OrderKept DEF IInv
  <2>2. Links'
    BY <1>1, <1>6 DEF IInv, Links, Directions
  <2>3. q' = (q \ {e}) \cup new
    BY <1>6 DEF Replaces
  <2>4. Requesting'
    <3>1. \A a, b \in Timeouts' : a.req = b.req => a = b
      BY <1>1, <1>4, <1>6, <2>3 DEF Timeouts, OfKind
    <3> QED
      BY <1>1, <1>6, <3>1 DEF IInv, Requesting
  <2>5. ToggleEvents' = ToggleEvents /\ ApplyEvents' = ApplyEvents
    BY <1>1, <1>6, <2>3 DEF ToggleEvents, ApplyEvents, OfKind
  <2>6. Routed'
    BY <1>1, <2>5, FewerControlEvents DEF IInv, Routed
  <2> QED
    BY <1>5, <2>1, <2>2, <2>4, <2>6 DEF IInv
<1>7. CASE StaleTimeout(e) \/ GiveUp(e)
  <2>1. Replaces(e, {}, q', seq')
    BY <1>2, <1>7 DEF StaleTimeout, GiveUp, Replaces
  <2>2. rs' \in [DOMAIN requests -> RequestState] /\ stats' \in [Counters -> Nat]
    <3>1. CASE StaleTimeout(e)
      BY <1>4, <3>1 DEF StaleTimeout
    <3>2. CASE GiveUp(e)
      <4>1. /\ rs' = [rs EXCEPT ![e.req].completed = TRUE]
            /\ stats' = Count(stats, "timed_out_requests")
        BY <3>2 DEF GiveUp, Count
      <4>2. "timed_out_requests" \in Counters
        BY DEF Counters, Tallies
      <4>3. rs' \in [DOMAIN requests -> RequestState]
        BY <1>4, <4>1 DEF RequestState
      <4> QED
        BY <1>4, <4>1, <4>2, <4>3, Counted
    <3> QED
      BY <1>7, <3>1, <3>2
  <2> QED
    BY <1>6, <2>1, <2>2
<1>8. CASE Retransmit(e)
  <2> DEFINE i == InterestEvent(e.t, seq, e.req, requests[e.req].consumer, Local)
             w == TimeoutEvent(e.t + Lifetime, seq + 1, e.req, rs[e.req].current_attempt + 1)
             new == {i, w}
  <2>1. /\ rs' = [rs EXCEPT ![e.req].attempts = @ + 1, ![e.req].current_attempt = @ + 1]
        /\ stats' = Count(stats, "retransmissions")
        /\ q' = (q \ {e}) \cup new /\ seq' = seq + 2
    BY <1>8 DEF Retransmit, Reissued, Count
  <2>2. /\ i.kind = "interest" /\ i.t = e.t /\ i.seq = seq /\ i.req = e.req
        /\ i.at = requests[e.req].consumer /\ i.prev = Local
        /\ w.kind = "timeout" /\ w.t = e.t + Lifetime /\ w.seq = seq + 1 /\ w.req = e.req
    BY DEF InterestEvent, TimeoutEvent
  <2>3. Lifetime \in Nat
    BY ParameterAssumption
  <2>4. requests[e.req].consumer \in Node /\ requests[e.req].start_ms \in Nat
        /\ OwnerOf[requests[e.req].name] \in Node /\ Local \notin Node
    BY <1>3, NetworkAssumption DEF Request
  <2> HIDE DEF i, w
  <2>5. Replaces(e, new, q', seq')
    BY <1>2, <2>1, <2>2, <2>3 DEF Replaces
  <2>6. EventOK(i)
    <3>1. PacketOK(i)
      BY <1>2, <1>3, <2>2, <2>4 DEF PacketOK, Face
    <3>2. i.prev # Owner(i)
      BY <2>2, <2>4 DEF Owner, NameOf
    <3> QED
      BY <1>2, <2>2, <3>1, <3>2 DEF EventOK
  <2>7. EventOK(w)
    <3>1. w.t \in Nat /\ requests[w.req].start_ms <= w.t
      BY <1>2, <2>2, <2>3, <2>4
    <3> QED
      BY <1>2, <2>2, <3>1 DEF EventOK
  <2>8. rs' \in [DOMAIN requests -> RequestState]
    BY <1>2, <1>4, <2>1 DEF RequestState
  <2>9. stats' \in [Counters -> Nat]
    <3>1. "retransmissions" \in Counters
      BY DEF Counters, Tallies
    <3> QED
      BY <1>4, <2>1, <3>1, Counted
  <2> QED
    BY <1>6, <2>2, <2>5, <2>6, <2>7, <2>8, <2>9
<1> QED
  BY <1>7, <1>8 DEF Timeout

(* A toggle, and the installation of FIBs.                                 *)
LEMMA RoutesAreFibs ==
    ASSUME Routed, Links, NEW e, e.link \in Link
    PROVE  SetLinkActive(e) \subseteq Link /\ Routes(SetLinkActive(e)) \in Fibs
<1>1. forwarding \in Forwarding
  BY DEF Routed
<1>2. SetLinkActive(e) \subseteq Link
  BY DEF Links, SetLinkActive
<1>3. RoutesOf[forwarding][SetLinkActive(e)] \in Fibs
  BY <1>1, <1>2 DEF Fibs
<1> QED
  BY <1>2, <1>3 DEF Routes

LEMMA PushKeepsControlOrder ==
    ASSUME Ordered, Routed, NEW p, p.seq = seq, p.n = cstats.fib_pushes,
           ToggleEvents' \subseteq ToggleEvents, ApplyEvents' = ApplyEvents \cup {p},
           cstats'.fib_pushes = cstats.fib_pushes + 1, UNCHANGED <<forwarding, fib>>
    PROVE  Routed'
<1>1. \A e \in ToggleEvents \cup ApplyEvents : e.seq \in Nat /\ e.seq < seq
  BY DEF Ordered, EventOK, ToggleEvents, ApplyEvents, OfKind
<1>2. seq \in Nat /\ cstats.fib_pushes \in Nat
  BY DEF Ordered, Routed
<1>3. \A e \in ApplyEvents : e.n \in Nat /\ e.n < cstats.fib_pushes
  BY DEF Ordered, EventOK, ApplyEvents, OfKind, Routed, ControlOrder
<1>4. \A a, b \in ApplyEvents' : a.seq < b.seq <=> a.n < b.n
  BY <1>1, <1>2, <1>3 DEF Routed, ControlOrder
<1>5. ControlOrder'
  BY <1>1, <1>2, <1>3, <1>4 DEF Routed, ControlOrder
<1> QED
  BY <1>2, <1>5 DEF Routed

(* Events of the control plane leave requests and nodes alone.             *)
LEMMA ControlEvent ==
    ASSUME IInv, NEW e \in q, First(e), now' = e.t,
           UNCHANGED <<requests, rs, allowed, pit, cs, busy, stats>>,
           e.kind \in {"toggle", "fib_apply"}, active' \subseteq Link,
           NEW new, Replaces(e, new, q', seq'),
           \A p \in new : EventOK(p) /\ p.kind = "fib_apply",
           Routed'
    PROVE  IInv'
<1>1. Ordered'
  BY OrderKept DEF IInv
<1>2. Links'
  BY DEF IInv, Links, Directions
<1>3. Nodes'
  BY NodesUntouched DEF IInv
<1>4. Timeouts' = Timeouts
  BY DEF Timeouts, OfKind, Replaces
<1>5. Requesting'
  BY <1>4 DEF IInv, Requesting
<1> QED
  BY <1>1, <1>2, <1>3, <1>5 DEF IInv

LEMMA ToggleStep ==
    ASSUME IInv, NEW e \in q, Toggle(e)
    PROVE  IInv'
<1> DEFINE routes == Routes(SetLinkActive(e))
<1>1. /\ e \in ToggleEvents /\ e.kind = "toggle" /\ First(e) /\ now' = e.t
      /\ UNCHANGED <<forwarding, requests, rs, allowed, pit, cs, busy, stats>>
      /\ active' = SetLinkActive(e)
  BY PoppedFirst DEF Toggle, ToggleEvents, consumers
<1>2. e.t \in Nat /\ e.link \in Link /\ seq \in Nat /\ cstats.fib_pushes \in Nat
  BY <1>1 DEF IInv, Ordered, EventOK, Routed
<1>3. active' \subseteq Link /\ routes \in Fibs
  BY <1>1, <1>2, RoutesAreFibs DEF IInv
<1>4. CASE RebuildFibs(e, routes)
  <2>1. q' = q \ {e} /\ fib' = routes /\ UNCHANGED <<seq, cstats>>
    BY <1>4 DEF RebuildFibs
  <2>2. Replaces(e, {}, q', seq')
    BY <1>2, <2>1 DEF Replaces
  <2>3. ToggleEvents' \subseteq ToggleEvents /\ ApplyEvents' \subseteq ApplyEvents
    BY <2>1 DEF ToggleEvents, ApplyEvents, OfKind
  <2>4. Routed'
    BY <1>1, <1>3, <2>1, <2>3, FewerControlEvents DEF IInv
  <2> QED
    BY <1>1, <1>3, <2>2, <2>4, ControlEvent
<1>5. CASE PushFibs(e, routes)
  <2> DEFINE changed == {n \in Node : last[n] # routes[n]}
             delay == IF changed = {} THEN 0 ELSE Rtt
             p == ApplyEvent(Due(e, delay), seq, cstats.fib_pushes, routes, delay)
  <2>1. /\ q' = (q \ {e}) \cup {p} /\ seq' = seq + 1
        /\ cstats'.fib_pushes = cstats.fib_pushes + 1 /\ fib' = fib
    BY <1>5 DEF PushFibs
  <2>2. delay \in Nat
    BY ParameterAssumption
  <2>3. /\ p.kind = "fib_apply" /\ p.t = e.t + delay /\ p.seq = seq
        /\ p.n = cstats.fib_pushes /\ p.table = routes
    BY DEF ApplyEvent, Due
  <2> HIDE DEF delay, p, routes
  <2>4. p.t \in Nat /\ e.t <= p.t
    BY <1>2, <2>2, <2>3
  <2>5. Replaces(e, {p}, q', seq')
    BY <1>2, <2>1, <2>3, <2>4 DEF Replaces
  <2>6. EventOK(p)
    BY <1>2, <1>3, <2>3, <2>4 DEF EventOK
  <2>7. ToggleEvents' \subseteq ToggleEvents /\ ApplyEvents' = ApplyEvents \cup {p}
    BY <1>1, <2>1, <2>3 DEF ToggleEvents, ApplyEvents, OfKind
  <2>8. Routed'
    BY <1>1, <2>1, <2>3, <2>7, PushKeepsControlOrder DEF IInv
  <2> QED
    BY <1>1, <1>3, <2>3, <2>5, <2>6, <2>8, ControlEvent
<1> QED
  BY <1>4, <1>5 DEF Toggle

LEMMA FibApplyStep ==
    ASSUME IInv, NEW e \in q, FibApply(e)
    PROVE  IInv'
<1>1. /\ e.kind = "fib_apply" /\ First(e) /\ now' = e.t
      /\ UNCHANGED <<forwarding, requests, rs, allowed, active, pit, cs, busy, stats>>
      /\ q' = q \ {e} /\ fib' = e.table /\ UNCHANGED <<seq, cstats>>
  BY PoppedFirst DEF FibApply, consumers
<1>2. e.table \in Fibs /\ seq \in Nat
  BY <1>1 DEF IInv, Ordered, EventOK
<1>3. Replaces(e, {}, q', seq')
  BY <1>1, <1>2 DEF Replaces
<1>4. ToggleEvents' \subseteq ToggleEvents /\ ApplyEvents' \subseteq ApplyEvents
  BY <1>1 DEF ToggleEvents, ApplyEvents, OfKind
<1>5. Routed'
  BY <1>1, <1>2, <1>4, FewerControlEvents DEF IInv
<1>6. active' \subseteq Link
  BY <1>1 DEF IInv, Links
<1> QED
  BY <1>1, <1>3, <1>5, <1>6, ControlEvent

LEMMA StutterStep ==
    ASSUME IInv, UNCHANGED vars
    PROVE  IInv'
<1> USE DEF vars
<1>1. OfKind("timeout")' = OfKind("timeout") /\ ToggleEvents' = ToggleEvents
      /\ ApplyEvents' = ApplyEvents
  BY DEF OfKind, ToggleEvents, ApplyEvents
<1>2. Ordered'
  BY DEF IInv, Ordered, EventOK, PacketOK, Owner, NameOf
<1>3. Links'
  BY DEF IInv, Links, Directions
<1>4. Nodes'
  BY DEF IInv, Nodes, StoreOK, TableOK
<1>5. Requesting'
  BY <1>1 DEF IInv, Requesting, Timeouts
<1>6. Routed'
  BY <1>1 DEF IInv, Routed, ControlOrder
<1> QED
  BY <1>2, <1>3, <1>4, <1>5, <1>6 DEF IInv

LEMMA NextKeepsIInv == IInv /\ [Next]_vars => IInv'
BY ToggleStep, FibApplyStep, TimeoutStep, PacketStep, StutterStep DEF Next

-----------------------------------------------------------------------------
(* The start of the engine.                                                *)
LEMMA DirectivesApart ==
    ASSUME requests \in Seq(Request)
    PROVE  /\ CacheDirectives \in [Node -> SUBSET Name]
           /\ \A m, n \in Node : m # n => CacheDirectives[m] \cap CacheDirectives[n] = {}
<1>1. CASE CacheTopK = 0
  BY <1>1 DEF CacheDirectives
<1>2. CASE CacheTopK # 0
  <2> DEFINE places == P!PlacementNodes(CachePlacement, Owners, Consumers, Node)
             directives == P!CacheDirectives(requests, LearnPercent, CacheTopK, places, Node)
             window == P!LearningWindow(requests, LearnPercent)
             popular == {requests[i].name : i \in window}
  <2>1. CacheDirectives = directives
    BY <1>2 DEF CacheDirectives
  <2>2. window \subseteq DOMAIN requests
    BY DEF P!LearningWindow
  <2>3. \A i \in DOMAIN requests : requests[i].name \in Name
    <3> DEFINE Element == Request
    <3>1. \A x \in Element : x.name \in Name
      BY DEF Request
    <3>2. requests \in Seq(Element)
      OBVIOUS
    <3> HIDE DEF Element
    <3> QED
      BY <3>1, <3>2
  <2> HIDE DEF window
  <2>4. popular \subseteq Name
    BY <2>2, <2>3
  <2> HIDE DEF places
  <2>5. directives \in [Node -> SUBSET Name]
    BY <2>4 DEF P!CacheDirectives, window
  <2>6. \A m, n \in Node : \A name : name \in directives[m] /\ name \in directives[n] => m = n
    BY DEF P!CacheDirectives, P!PlacedOn
  <2> QED
    BY <2>1, <2>5, <2>6
<1> QED
  BY <1>1, <1>2

LEMMA InitStats ==
    ASSUME Init
    PROVE  stats \in [Counters -> Nat]
<1> DEFINE told == {p \in Node \X Name : p[2] \in allowed[p[1]]}
<1>1. IsFiniteSet(told) /\ Cardinality(told) \in Nat
  <2>1. IsFiniteSet(Node \X Name)
    BY FS_Product, NetworkAssumption
  <2>2. told \subseteq Node \X Name
    OBVIOUS
  <2> HIDE DEF told
  <2> QED
    BY <2>1, <2>2, FS_Subset, FS_CardinalityType
<1>2. stats = [ZeroStats EXCEPT !.cache_directives_pushed = Cardinality(told)]
  BY DEF Init
<1> HIDE DEF told
<1> DEFINE n == Cardinality(told)
<1>3. n \in Nat /\ stats = [ZeroStats EXCEPT !["cache_directives_pushed"] = n]
  BY <1>1, <1>2
<1> HIDE DEF n
<1>4. ZeroStats \in [Counters -> Nat]
  BY DEF ZeroStats, Counters, Tallies
<1> QED
  BY <1>3, <1>4

LEMMA InitHeap ==
    ASSUME Init
    PROVE  /\ Ordered /\ ControlOrder
           /\ \A a, b \in Timeouts : a.req = b.req => a = b
<1>1. PICK failures \in Schedules : /\ q = InitialEvents(requests, failures)
                                    /\ seq = 2 * Len(requests) + Len(failures)
  BY DEF Init
<1> DEFINE first(r) == InterestEvent(requests[r].start_ms, 2 * r - 2, r, requests[r].consumer, Local)
           timer(r) == TimeoutEvent(requests[r].start_ms + Lifetime, 2 * r - 1, r, 0)
           toggle(i) == ToggleEvent(failures[i], 2 * Len(requests) + i - 1, i)
           Element == Request
           Failure == [at : Nat, link : Link, up : BOOLEAN]
           n == Len(requests)
           m == Len(failures)
<1>2. /\ requests \in Seq(Element) /\ failures \in Seq(Failure)
  BY InputAssumption DEF Init, Request
<1>3. /\ \A x \in Element : x.start_ms \in Nat /\ x.consumer \in Node /\ x.name \in Name
      /\ \A x \in Failure : x.at \in Nat /\ x.link \in Link
  BY DEF Request
<1>4. \A x : x \in Element <=> x \in Request
  OBVIOUS
<1> HIDE DEF Element, Failure
<1>5. /\ n \in Nat /\ DOMAIN requests = 1 .. n
      /\ m \in Nat /\ DOMAIN failures = 1 .. m
  BY <1>2
<1>6. /\ \A r \in 1 .. n : /\ requests[r] \in Request /\ requests[r].start_ms \in Nat
                           /\ requests[r].consumer \in Node /\ requests[r].name \in Name
      /\ \A i \in 1 .. m : failures[i].at \in Nat /\ failures[i].link \in Link
  BY <1>2, <1>3, <1>4, <1>5
<1>7. q = {first(r) : r \in 1 .. n} \cup {timer(r) : r \in 1 .. n} \cup {toggle(i) : i \in 1 .. m}
  BY <1>1, <1>5 DEF InitialEvents
<1>8. now = 0 /\ seq = 2 * n + m
  BY <1>1 DEF Init
<1>9. \A r \in 1 .. n :
         /\ first(r).kind = "interest" /\ first(r).t = requests[r].start_ms
         /\ first(r).seq = 2 * r - 2 /\ first(r).req = r
         /\ first(r).at = requests[r].consumer /\ first(r).prev = Local
         /\ timer(r).kind = "timeout" /\ timer(r).t = requests[r].start_ms + Lifetime
         /\ timer(r).seq = 2 * r - 1 /\ timer(r).req = r
  BY DEF InterestEvent, TimeoutEvent
<1>10. \A i \in 1 .. m :
         /\ toggle(i).kind = "toggle" /\ toggle(i).t = failures[i].at
         /\ toggle(i).seq = 2 * n + i - 1 /\ toggle(i).idx = i /\ toggle(i).link = failures[i].link
  BY DEF ToggleEvent
<1>11. Lifetime \in Nat /\ Local \notin Node /\ \A name \in Name : OwnerOf[name] \in Node
  BY ParameterAssumption, NetworkAssumption
<1> HIDE DEF first, timer, toggle, n, m
<1>12. \A r \in 1 .. n : EventOK(first(r)) /\ EventOK(timer(r))
  <2> SUFFICES ASSUME NEW r \in 1 .. n PROVE EventOK(first(r)) /\ EventOK(timer(r))
    OBVIOUS
  <2>1. /\ first(r).t \in Nat /\ first(r).seq \in Nat
        /\ timer(r).t \in Nat /\ timer(r).seq \in Nat /\ requests[r].start_ms <= timer(r).t
    <3>1. first(r).seq = 2 * r - 2 /\ timer(r).seq = 2 * r - 1 /\ r \in Nat /\ r >= 1
      BY <1>5, <1>9
    <3>2. /\ first(r).t = requests[r].start_ms /\ timer(r).t = requests[r].start_ms + Lifetime
          /\ requests[r].start_ms \in Nat
      BY <1>6, <1>9
    <3> QED
      BY <1>11, <3>1, <3>2
  <2>2. PacketOK(first(r))
    BY <1>5, <1>6, <1>9 DEF PacketOK, Face
  <2>3. first(r).prev # Owner(first(r))
    BY <1>6, <1>9, <1>11 DEF Owner, NameOf
  <2> QED
    BY <1>5, <1>9, <2>1, <2>2, <2>3 DEF EventOK
<1>13. \A i \in 1 .. m : EventOK(toggle(i))
  BY <1>5, <1>6, <1>10 DEF EventOK
<1>14. \A e \in q : EventOK(e) /\ now <= e.t
  BY <1>7, <1>8, <1>12, <1>13 DEF EventOK
<1>15. /\ \A r \in 1 .. n : /\ first(r).seq = 2 * r - 2 /\ first(r).seq < 2 * n
                            /\ timer(r).seq = 2 * r - 1 /\ timer(r).seq < 2 * n
       /\ \A i \in 1 .. m : 2 * n <= toggle(i).seq /\ toggle(i).seq < 2 * n + m
  BY <1>5, <1>9, <1>10
<1>16. \A e \in q : e.seq < seq
  <2> SUFFICES ASSUME NEW e \in q PROVE e.seq < seq
    OBVIOUS
  <2>1. CASE \E r \in 1 .. n : e = first(r) \/ e = timer(r)
    BY <1>5, <1>8, <1>15, <2>1
  <2>2. CASE \E i \in 1 .. m : e = toggle(i)
    BY <1>8, <1>15, <2>2
  <2> QED
    BY <1>7, <2>1, <2>2
<1>17. \A a, b \in q : a.seq = b.seq => a = b
  <2>1. \A r, s \in 1 .. n : /\ first(r).seq = first(s).seq => r = s
                             /\ timer(r).seq = timer(s).seq => r = s
                             /\ first(r).seq # timer(s).seq
    BY <1>5, <1>15
  <2>2. \A i, j \in 1 .. m : toggle(i).seq = toggle(j).seq => i = j
    BY <1>5, <1>10
  <2>3. \A r \in 1 .. n, i \in 1 .. m : first(r).seq # toggle(i).seq /\ timer(r).seq # toggle(i).seq
    <3> SUFFICES ASSUME NEW r \in 1 .. n, NEW i \in 1 .. m
                 PROVE  first(r).seq # toggle(i).seq /\ timer(r).seq # toggle(i).seq
      OBVIOUS
    <3>1. /\ first(r).seq \in Int /\ first(r).seq < 2 * n
          /\ timer(r).seq \in Int /\ timer(r).seq < 2 * n
      BY <1>5, <1>15
    <3>2. toggle(i).seq \in Int /\ 2 * n <= toggle(i).seq
      BY <1>5, <1>10, <1>15
    <3> QED
      BY <1>5, <3>1, <3>2
  <2> QED
    BY <1>7, <2>1, <2>2, <2>3
<1>18. Ordered
  BY <1>5, <1>8, <1>14, <1>16, <1>17 DEF Ordered
<1>19. /\ Timeouts = {timer(r) : r \in 1 .. n}
       /\ ToggleEvents = {toggle(i) : i \in 1 .. m}
       /\ ApplyEvents = {}
  BY <1>7, <1>9, <1>10 DEF Timeouts, ToggleEvents, ApplyEvents, OfKind
<1>20. ControlOrder
  BY <1>5, <1>10, <1>19 DEF ControlOrder
<1>21. \A a, b \in Timeouts : a.req = b.req => a = b
  BY <1>9, <1>19
<1> QED
  BY <1>18, <1>20, <1>21

LEMMA InitIInv == Init => IInv
<1> SUFFICES ASSUME Init PROVE IInv
  OBVIOUS
<1>1. requests \in Workloads /\ requests \in Seq(Request)
  BY InputAssumption DEF Init, Request
<1>2. Links
  <2>1. stats \in [Counters -> Nat]
    BY InitStats
  <2> QED
    BY <2>1 DEF Init, Links, Directions
<1>3. Nodes
  <2>1. IsFiniteSet({}) /\ Cardinality({}) = 0
    BY FS_EmptySet
  <2>2. \A n \in Node : cs[n] = CS!NoNames /\ pit[n] = <<>>
    BY DEF Init
  <2>3. CacheSize \in Nat /\ PitCapacity \in Nat
    BY ParameterAssumption
  <2>4. \A n \in Node : StoreOK(n, cs[n]) /\ TableOK(pit[n], now)
    <3> DEFINE none == CS!NoNames
               bare == <<>>
    <3>1. DOMAIN none = {} /\ none \in [DOMAIN none -> Nat] /\ DOMAIN bare = {}
      BY DEF CS!NoNames
    <3>2. \A n \in Node : cs[n] = none /\ pit[n] = bare
      BY <2>2
    <3> HIDE DEF none, bare
    <3>3. \A n \in Node : StoreOK(n, none)
      BY <2>1, <2>3, <3>1 DEF StoreOK
    <3>4. TableOK(bare, now)
      BY <2>1, <2>3, <3>1 DEF TableOK
    <3> QED
      BY <3>2, <3>3, <3>4
  <2>5. allowed = CacheDirectives /\ DOMAIN cs = Node /\ DOMAIN pit = Node
    BY DEF Init
  <2> QED
    BY <1>1, <2>4, <2>5, DirectivesApart DEF Nodes
<1>4. Requesting
  <2>1. rs \in [DOMAIN requests -> RequestState]
    BY DEF Init, RequestState
  <2> QED
    BY <1>1, <2>1, InitHeap DEF Requesting
<1>5. Routed
  <2>1. forwarding \in Forwarding /\ fib = RoutesOf[forwarding][Link] /\ cstats.fib_pushes = 0
    BY DEF Init, Routes
  <2>2. fib \in Fibs
    BY <2>1 DEF Fibs
  <2> QED
    BY <2>1, <2>2, InitHeap DEF Routed
<1> QED
  BY <1>2, <1>3, <1>4, <1>5, InitHeap DEF IInv

-----------------------------------------------------------------------------
THEOREM AlwaysIInv == Spec => []IInv
BY InitIInv, NextKeepsIInv, PTL DEF Spec

(* Every variable keeps its type, on whatever network.                     *)
THEOREM TypeCorrect == Spec => []TypeOK
<1>1. IInv => TypeOK
  <2> SUFFICES ASSUME IInv PROVE TypeOK
    OBVIOUS
  <2>1. \A e \in q : e.t \in Nat /\ e.seq \in Nat
    BY DEF IInv, Ordered, EventOK
  <2>2. \A e \in OfKind("interest") \cup OfKind("data") :
           e.req \in DOMAIN requests /\ e.at \in Node /\ e.prev \in Node \cup {Local}
    BY DEF IInv, Ordered, EventOK, PacketOK, Face, OfKind
  <2>3. \A p \in Entries : pit[p[1]][p[2]] \in [faces : SUBSET (Node \cup {Local}), expiry : Nat]
    BY DEF IInv, Nodes, TableOK, Face, Entries
  <2>4. \A n \in Node : cs[n] \in [DOMAIN cs[n] -> Nat] /\ DOMAIN cs[n] \subseteq Name
    BY DEF IInv, Nodes, StoreOK
  <2>5. \A l \in DOMAIN busy : busy[l] \in Nat
    BY DEF IInv, Links
  <2>6. \A field \in DOMAIN stats : stats[field] \in Nat
    BY DEF IInv, Links
  <2> QED
    BY <2>1, <2>2, <2>3, <2>4, <2>5, <2>6
       DEF TypeOK, IInv, Requesting, RequestState, Links, Nodes
<1> QED
  BY <1>1, AlwaysIInv, PTL

(* The heap never has to compare two events by more than time and number,  *)
(* and never runs backwards.                                               *)
THEOREM HeapIsOrdered == Spec => []HeapWellFormed
<1>1. IInv => HeapWellFormed
  BY DEF IInv, Ordered, HeapWellFormed
<1> QED
  BY <1>1, AlwaysIInv, PTL

(* No node ever holds more pending Interests than its capacity, and none   *)
(* for longer than a lifetime after the last Interest merged into it.      *)
THEOREM PitIsBounded == Spec => []PitBounded
<1>1. IInv => PitBounded
  BY DEF IInv, Nodes, TableOK, PitBounded, Entries
<1> QED
  BY <1>1, AlwaysIInv, PTL

(* A Content Store keeps to its capacity and directive, never holds its    *)
(* own node's names, and shares none with another directed store.          *)
THEOREM CacheKeepsToDirective == Spec => []CacheWithinDirective
<1>1. IInv => CacheWithinDirective
  <2> SUFFICES ASSUME IInv PROVE CacheWithinDirective
    OBVIOUS
  <2>1. \A n \in Node : /\ Cardinality(DOMAIN cs[n]) <= CacheSize
                        /\ \A name \in DOMAIN cs[n] : OwnerOf[name] # n
                        /\ allowed[n] # {} => DOMAIN cs[n] \subseteq allowed[n]
    BY DEF IInv, Nodes, StoreOK
  <2>2. \A m, n \in Node : m # n => allowed[m] \cap allowed[n] = {}
    BY DEF IInv, Nodes
  <2> QED
    BY <2>1, <2>2 DEF CacheWithinDirective
<1> QED
  BY <1>1, AlwaysIInv, PTL

-----------------------------------------------------------------------------
(* Flow balance.  An Interest on its way and a face remembered in a PIT    *)
(* are answers owed; an Interest sent over a link adds one, Data sent over *)
(* a link settles one.                                                     *)
Asking == InFlight("interest")

Owing == {o \in Node \X Name \X Node :
            o[2] \in DOMAIN pit[o[1]] /\ o[3] \in pit[o[1]][o[2]].faces}

Balanced ==
    /\ IsFiniteSet(Asking)
    /\ stats["data_tx"] + Cardinality(Asking) + Cardinality(Owing) <= stats["interest_tx"]

LEMMA OwingFinite == IsFiniteSet(Owing)
<1> DEFINE triples == (Node \X Name) \X Node
           f == [o \in Owing |-> <<<<o[1], o[2]>>, o[3]>>]
<1>1. IsFiniteSet(triples)
  BY FS_Product, NetworkAssumption
<1>2. f \in Injection(Owing, triples)
  <2>1. \A o \in Owing : f[o] \in triples
    BY DEF Owing
  <2>2. \A a, b \in Owing : f[a] = f[b] => a = b
    <3> SUFFICES ASSUME NEW a \in Owing, NEW b \in Owing, f[a] = f[b] PROVE a = b
      OBVIOUS
    <3>1. a = <<a[1], a[2], a[3]>> /\ b = <<b[1], b[2], b[3]>>
      BY DEF Owing
    <3>2. a[1] = b[1] /\ a[2] = b[2] /\ a[3] = b[3]
      OBVIOUS
    <3> QED
      BY <3>1, <3>2
  <2> HIDE DEF triples
  <2> QED
    BY <2>1, <2>2, Zenon DEF Injection, IsInjective
<1> QED
  BY <1>1, <1>2, FS_Injection

(* What is taken out of a set and put into it changes its size by no more. *)
LEMMA Exchanged ==
    ASSUME NEW S, IsFiniteSet(S), NEW A, A \subseteq S, NEW N, IsFiniteSet(N),
           NEW T, T \subseteq (S \ A) \cup N
    PROVE  /\ IsFiniteSet(T) /\ Cardinality(T) \in Nat /\ Cardinality(S) \in Nat
           /\ Cardinality(A) \in Nat /\ Cardinality(N) \in Nat
           /\ Cardinality(T) + Cardinality(A) <= Cardinality(S) + Cardinality(N)
<1>1. IsFiniteSet(A) /\ S \cap A = A
  BY FS_Subset
<1>2. IsFiniteSet(S \ A) /\ Cardinality(S \ A) = Cardinality(S) - Cardinality(A)
  <2>1. /\ IsFiniteSet(S \ A)
        /\ Cardinality(S \ A) = Cardinality(S) - Cardinality(S \cap A)
    BY <1>1, FS_Difference
  <2> QED
    BY <1>1, <2>1
<1> DEFINE U == (S \ A) \cup N
           I == (S \ A) \cap N
<1>3. /\ IsFiniteSet(U) /\ IsFiniteSet(I)
      /\ Cardinality(U) = Cardinality(S \ A) + Cardinality(N) - Cardinality(I)
  BY <1>2, FS_Union, FS_Intersection
<1>4. IsFiniteSet(T) /\ Cardinality(T) <= Cardinality(U)
  BY <1>3, FS_Subset
<1> HIDE DEF U, I
<1>5. /\ Cardinality(S) \in Nat /\ Cardinality(A) \in Nat /\ Cardinality(N) \in Nat
      /\ Cardinality(I) \in Nat /\ Cardinality(U) \in Nat /\ Cardinality(T) \in Nat
  BY <1>1, <1>3, <1>4, FS_CardinalityType
<1> QED
  BY <1>2, <1>3, <1>4, <1>5

(* The books of a step: the Interests A leave the links and N enter them,  *)
(* the faces O are forgotten and `more' are remembered.                    *)
LEMMA Books ==
    ASSUME Balanced, stats \in [Counters -> Nat], stats' \in [Counters -> Nat],
           NEW A, A \subseteq Asking, NEW N, IsFiniteSet(N),
           Asking' \subseteq (Asking \ A) \cup N,
           NEW O, O \subseteq Owing, NEW more, IsFiniteSet(more),
           Owing' \subseteq (Owing \ O) \cup more,
           stats'["data_tx"] + Cardinality(N) + Cardinality(more) + stats["interest_tx"]
             <= stats["data_tx"] + Cardinality(A) + Cardinality(O) + stats'["interest_tx"]
    PROVE  Balanced'
<1>1. IsFiniteSet(Asking) /\ IsFiniteSet(Owing)
  BY OwingFinite DEF Balanced
<1>2. /\ IsFiniteSet(Asking') /\ Cardinality(Asking') \in Nat /\ Cardinality(Asking) \in Nat
      /\ Cardinality(A) \in Nat /\ Cardinality(N) \in Nat
      /\ Cardinality(Asking') + Cardinality(A) <= Cardinality(Asking) + Cardinality(N)
  BY <1>1, Exchanged
<1>3. /\ Cardinality(Owing') \in Nat /\ Cardinality(Owing) \in Nat
      /\ Cardinality(O) \in Nat /\ Cardinality(more) \in Nat
      /\ Cardinality(Owing') + Cardinality(O) <= Cardinality(Owing) + Cardinality(more)
  BY <1>1, Exchanged
<1>4. /\ stats["data_tx"] \in Nat /\ stats["interest_tx"] \in Nat
      /\ stats'["data_tx"] \in Nat /\ stats'["interest_tx"] \in Nat
  BY DEF Counters
<1>5. stats["data_tx"] + Cardinality(Asking) + Cardinality(Owing) <= stats["interest_tx"]
  BY DEF Balanced
<1>6. stats'["data_tx"] + Cardinality(Asking') + Cardinality(Owing') <= stats'["interest_tx"]
  BY <1>2, <1>3, <1>4, <1>5
<1> QED
  BY <1>2, <1>6 DEF Balanced

(* A step that sends nothing and remembers nothing.                        *)
LEMMA NothingSent ==
    ASSUME Balanced, stats \in [Counters -> Nat], stats' \in [Counters -> Nat],
           Asking' \subseteq Asking, Owing' \subseteq Owing,
           stats'["data_tx"] = stats["data_tx"], stats'["interest_tx"] = stats["interest_tx"]
    PROVE  Balanced'
<1>1. IsFiniteSet({}) /\ Cardinality({}) = 0
  BY FS_EmptySet
<1>2. stats["data_tx"] \in Nat /\ stats["interest_tx"] \in Nat
  BY DEF Counters
<1> QED
  BY <1>1, <1>2, Books

(* Sending adds the packets `new' to the heap and counts a of them, of at  *)
(* most as many as there are hops.                                         *)
Adds(net, out, packet, hops, new, a) ==
    /\ out.q = net.q \cup new
    /\ IsFiniteSet(new) /\ a \in Nat
    /\ Cardinality(new) <= a /\ a <= Cardinality(DOMAIN hops)
    /\ \A p \in new : p.kind = packet.kind
    /\ out.stats[packet.tx] = net.stats[packet.tx] + a
    /\ \A field \in {"interest_tx", "data_tx"} \ {packet.tx} : out.stats[field] = net.stats[field]

LEMMA SendBooks ==
    ASSUME NEW e, NEW packet, IsPacket(packet), NEW hops, Sequenced(hops), NEW lost,
           NEW net, net.stats \in [Counters -> Nat],
           NEW out, out = Send(net, e, packet, hops, lost)
    PROVE  \E new, a : Adds(net, out, packet, hops, new, a)
<1> DEFINE crossing == [i \in DOMAIN hops |-> Crossing(e, packet, hops[i], lost)]
           accepted == {i \in DOMAIN hops : crossing[i].ok}
           refused == DOMAIN hops \ accepted
           unlucky == {i \in refused : crossing[i].reason = "random_loss"}
           turn(i) == Cardinality({j \in accepted : j < i})
           sent == [i \in accepted |->
                      PacketEvent(crossing[i].arrival, net.seq + turn(i), e, hops[i], packet)]
           new == {sent[i] : i \in accepted}
           a == Cardinality(accepted)
<1>1. IsFiniteSet(DOMAIN hops) /\ accepted \subseteq DOMAIN hops
  BY DEF Sequenced
<1>2. IsFiniteSet(accepted) /\ a \in Nat /\ a <= Cardinality(DOMAIN hops)
  <2> HIDE DEF accepted
  <2> QED
    BY <1>1, FS_Subset, FS_CardinalityType
<1>3. /\ out.q = net.q \cup new
      /\ out.stats = [net.stats EXCEPT ![packet.tx] = @ + Cardinality(accepted),
                                      ![packet.dropped] = @ + Cardinality(refused),
                                      !.random_loss_drops = @ + Cardinality(unlucky),
                                      !.queue_drops = @ + Cardinality(refused \ unlucky)]
  BY DEF Send
<1>4. \A i \in accepted : sent[i].kind = packet.kind
  BY DEF PacketEvent, InterestEvent, DataEvent, IsPacket
<1>5. IsFiniteSet(new) /\ Cardinality(new) <= a
  <2>1. sent \in Surjection(accepted, new)
    <3> HIDE DEF accepted
    <3>1. sent \in [accepted -> new] /\ \A p \in new : \E i \in accepted : sent[i] = p
      OBVIOUS
    <3> HIDE DEF sent, new
    <3> QED
      BY <3>1, Zenon DEF Surjection
  <2> HIDE DEF sent, new, accepted
  <2> QED
    BY <1>2, <2>1, FS_Surjection
<1>6. /\ out.stats[packet.tx] = net.stats[packet.tx] + a
      /\ \A field \in {"interest_tx", "data_tx"} \ {packet.tx} :
            out.stats[field] = net.stats[field]
  <2> DEFINE b == Cardinality(refused)
             c == Cardinality(unlucky)
             d == Cardinality(refused \ unlucky)
             s == net.stats
  <2>1. out.stats = [s EXCEPT ![packet.tx] = @ + a, ![packet.dropped] = @ + b,
                              !["random_loss_drops"] = @ + c, !["queue_drops"] = @ + d]
    BY <1>3
  <2>2. s \in [Counters -> Nat]
    OBVIOUS
  <2> HIDE DEF a, b, c, d, s
  <2>3. CASE packet.tx = "interest_tx" /\ packet.dropped = "dropped_interests"
    BY <2>1, <2>2, <2>3 DEF s, Counters
  <2>4. CASE packet.tx = "data_tx" /\ packet.dropped = "dropped_data"
    BY <2>1, <2>2, <2>4 DEF s, Counters
  <2> QED
    BY <2>3, <2>4 DEF IsPacket
<1>7. \A p \in new : p.kind = packet.kind
  <2> HIDE DEF sent, accepted
  <2> QED
    BY <1>4
<1> HIDE DEF new, a, accepted, sent
<1>8. Adds(net, out, packet, hops, new, a)
  BY <1>2, <1>3, <1>5, <1>6, <1>7 DEF Adds
<1> QED
  BY <1>8

(* The table remembers no more faces than node u does, but for more.         *)
NoMoreThan(u, table, more) ==
    \A name \in DOMAIN table, f \in Node :
       f \in table[name].faces =>
          \/ name \in DOMAIN pit[u] /\ f \in pit[u][name].faces
          \/ <<u, name, f>> \in more

LEMMA OwingAt ==
    ASSUME DOMAIN pit = Node, NEW u \in Node, NEW table, pit' = [pit EXCEPT ![u] = table],
           NEW more, NoMoreThan(u, table, more)
    PROVE  Owing' \subseteq Owing \cup more
<1> SUFFICES ASSUME NEW o \in Owing' PROVE o \in Owing \cup more
  OBVIOUS
<1>1. /\ o[1] \in Node /\ o[2] \in Name /\ o[3] \in Node /\ o = <<o[1], o[2], o[3]>>
      /\ o[2] \in DOMAIN pit'[o[1]] /\ o[3] \in pit'[o[1]][o[2]].faces
  BY DEF Owing
<1>2. CASE o[1] = u
  <2>1. pit'[o[1]] = table
    BY <1>2
  <2>2. \/ o[2] \in DOMAIN pit[u] /\ o[3] \in pit[u][o[2]].faces
        \/ <<u, o[2], o[3]>> \in more
    BY <1>1, <2>1 DEF NoMoreThan
  <2> QED
    BY <1>1, <1>2, <2>2 DEF Owing
<1>3. CASE o[1] # u
  <2>1. pit'[o[1]] = pit[o[1]]
    BY <1>1, <1>3
  <2> QED
    BY <1>1, <2>1 DEF Owing
<1> QED
  BY <1>2, <1>3

LEMMA PurgeForgets ==
    ASSUME NEW u, NEW t, NEW name \in DOMAIN Purged(u, t)
    PROVE  name \in DOMAIN pit[u] /\ Purged(u, t)[name] = pit[u][name]
BY DEF Purged, Restrict

LEMMA OwingPurged ==
    ASSUME DOMAIN pit = Node, NEW u \in Node, NEW t, pit' = [pit EXCEPT ![u] = Purged(u, t)]
    PROVE  Owing' \subseteq Owing
<1> DEFINE table == Purged(u, t)
<1>1. \A name \in DOMAIN table : name \in DOMAIN pit[u] /\ table[name] = pit[u][name]
  BY PurgeForgets
<1> HIDE DEF table
<1>2. pit' = [pit EXCEPT ![u] = table]
  BY DEF table
<1> DEFINE none == {}
<1>3. \A o : o \notin none
  OBVIOUS
<1> HIDE DEF none
<1>4. NoMoreThan(u, table, none)
  BY <1>1 DEF NoMoreThan
<1>5. Owing' \subseteq Owing \cup none
  BY <1>2, <1>4, OwingAt
<1> QED
  BY <1>3, <1>5

(* The face an Interest came in by, unless the consumer's own.             *)
FaceOf(e) == IF e.prev = Local THEN {} ELSE {<<e.at, NameOf(e), e.prev>>}

LEMMA OwingMerged ==
    ASSUME DOMAIN pit = Node, NEW e, e.at \in Node, Pending(Purged(e.at, e.t), e),
           pit' = [pit EXCEPT ![e.at] =
                     [Purged(e.at, e.t) EXCEPT ![NameOf(e)] = Refreshed(@, e)]]
    PROVE  Owing' \subseteq Owing \cup FaceOf(e)
<1> DEFINE table == Purged(e.at, e.t)
           new == [table EXCEPT ![NameOf(e)] = Refreshed(@, e)]
<1>1. \A name \in DOMAIN table : name \in DOMAIN pit[e.at] /\ table[name] = pit[e.at][name]
  BY PurgeForgets
<1>2. DOMAIN new = DOMAIN table /\ NameOf(e) \in DOMAIN table
  BY DEF Pending
<1> HIDE DEF table
<1>3. NoMoreThan(e.at, new, FaceOf(e))
  <2> SUFFICES ASSUME NEW name \in DOMAIN new, NEW f \in Node, f \in new[name].faces,
                      ~(name \in DOMAIN pit[e.at] /\ f \in pit[e.at][name].faces)
               PROVE  <<e.at, name, f>> \in FaceOf(e)
    BY DEF NoMoreThan
  <2>1. name = NameOf(e)
    BY <1>1, <1>2
  <2>2. new[name].faces = table[name].faces \cup {e.prev}
    BY <1>2, <2>1 DEF Refreshed
  <2>3. f = e.prev /\ Local \notin Node
    BY <1>1, <1>2, <2>1, <2>2, NetworkAssumption
  <2> QED
    BY <2>1, <2>3 DEF FaceOf
<1>4. pit' = [pit EXCEPT ![e.at] = new]
  BY DEF table
<1> HIDE DEF new
<1> QED
  BY <1>3, <1>4, OwingAt

LEMMA OwingInserted ==
    ASSUME DOMAIN pit = Node, NEW e, e.at \in Node,
           pit' = [pit EXCEPT ![e.at] = Inserted(Purged(e.at, e.t), e)]
    PROVE  Owing' \subseteq Owing \cup FaceOf(e)
<1> DEFINE table == Purged(e.at, e.t)
           new == Inserted(table, e)
<1>1. \A name \in DOMAIN table : name \in DOMAIN pit[e.at] /\ table[name] = pit[e.at][name]
  BY PurgeForgets
<1> HIDE DEF table
<1>2. /\ DOMAIN new = DOMAIN table \cup {NameOf(e)}
      /\ new[NameOf(e)].faces = {e.prev}
      /\ \A name \in DOMAIN table \ {NameOf(e)} : new[name] = table[name]
  BY DEF Inserted
<1> HIDE DEF new
<1>3. NoMoreThan(e.at, new, FaceOf(e))
  <2> SUFFICES ASSUME NEW name \in DOMAIN new, NEW f \in Node, f \in new[name].faces,
                      ~(name \in DOMAIN pit[e.at] /\ f \in pit[e.at][name].faces)
               PROVE  <<e.at, name, f>> \in FaceOf(e)
    BY DEF NoMoreThan
  <2>1. name = NameOf(e)
    BY <1>1, <1>2
  <2>2. f = e.prev /\ Local \notin Node
    BY <1>2, <2>1, NetworkAssumption
  <2> QED
    BY <2>1, <2>2 DEF FaceOf
<1>4. pit' = [pit EXCEPT ![e.at] = new]
  BY DEF new, table
<1> QED
  BY <1>3, <1>4, OwingAt

(* The answers a PIT entry owes its neighbours, which go with it.          *)
OwedBy(u, name) == {<<u, name, f>> : f \in pit[u][name].faces \ {Local}}

LEMMA OwingPopped ==
    ASSUME Nodes, NEW u \in Node, NEW name \in DOMAIN pit[u],
           pit' = [pit EXCEPT ![u] = PitPopped(u, name)]
    PROVE  /\ OwedBy(u, name) \subseteq Owing
           /\ Owing' \subseteq Owing \ OwedBy(u, name)
           /\ Cardinality(OwedBy(u, name)) = Cardinality(pit[u][name].faces \ {Local})
<1> DEFINE faces == pit[u][name].faces \ {Local}
           owed == OwedBy(u, name)
<1>1. name \in Name /\ faces \subseteq Node /\ DOMAIN pit = Node
  BY DEF Nodes, TableOK, Face
<1>2. owed = {<<u, name, f>> : f \in faces}
  BY DEF OwedBy
<1>3. owed \subseteq Owing
  BY <1>1, <1>2 DEF Owing
<1>4. Owing' \subseteq Owing
  <2> DEFINE table == PitPopped(u, name)
             none == {}
  <2>1. \A other \in DOMAIN table : other \in DOMAIN pit[u] /\ table[other] = pit[u][other]
    BY DEF PitPopped, Restrict
  <2> HIDE DEF table
  <2>2. pit' = [pit EXCEPT ![u] = table]
    BY DEF table
  <2>3. \A o : o \notin none
    OBVIOUS
  <2> HIDE DEF none
  <2>4. NoMoreThan(u, table, none)
    BY <2>1 DEF NoMoreThan
  <2>5. Owing' \subseteq Owing \cup none
    BY <1>1, <2>2, <2>4, OwingAt
  <2> QED
    BY <2>3, <2>5
<1>5. \A o \in owed : o \notin Owing'
  <2>1. pit'[u] = PitPopped(u, name) /\ name \notin DOMAIN PitPopped(u, name)
    BY <1>1 DEF PitPopped, Restrict
  <2>2. \A o \in Owing' : ~(o[1] = u /\ o[2] = name)
    BY <2>1 DEF Owing
  <2>3. \A o \in owed : o[1] = u /\ o[2] = name
    BY <1>2
  <2> QED
    BY <2>2, <2>3
<1>6. Cardinality(owed) = Cardinality(faces)
  <2> DEFINE f == [x \in faces |-> <<u, name, x>>]
  <2>1. IsFiniteSet(faces)
    BY <1>1, FS_Subset, NetworkAssumption
  <2> HIDE DEF faces, owed
  <2>2. f \in [faces -> owed] /\ (\A x, y \in faces : f[x] = f[y] => x = y)
        /\ \A o \in owed : \E x \in faces : f[x] = o
    BY <1>2
  <2> HIDE DEF f
  <2>3. f \in Surjection(faces, owed) /\ f \in Injection(faces, owed)
    BY <2>2, Zenon DEF Surjection, Injection, IsInjective
  <2>4. ExistsBijection(faces, owed)
    BY <2>3, Zenon DEF ExistsBijection, Bijection
  <2> QED
    BY <2>1, <2>4, FS_Bijection
<1> QED
  BY <1>3, <1>4, <1>5, <1>6

(* Each handler balances its books.                                        *)
LEMMA AskingAfter ==
    ASSUME NEW e \in q, NEW new, q' = (q \ {e}) \cup new
    PROVE  /\ Asking' \subseteq (Asking \ {e}) \cup new
           /\ (\A p \in new : p.kind # "interest" \/ p.prev = Local) => Asking' \subseteq Asking \ {e}
BY DEF Asking, InFlight, OfKind

LEMMA AskingFewer ==
    ASSUME NEW e \in q, q' = q \ {e}
    PROVE  Asking' \subseteq Asking \ {e}
BY DEF Asking, InFlight, OfKind

(* The Interest handled was an answer owed; so is the face it leaves.      *)
Asked(e) == Asking \cap {e}

LEMMA OneOwed ==
    ASSUME NEW e \in q, e.kind = "interest"
    PROVE  /\ Asked(e) \subseteq Asking /\ Asking \ {e} = Asking \ Asked(e)
           /\ IsFiniteSet(FaceOf(e)) /\ Cardinality(FaceOf(e)) = Cardinality(Asked(e))
           /\ e.prev # Local => Cardinality(Asked(e)) = 1
           /\ Cardinality(Asked(e)) \in Nat
<1>1. IsFiniteSet({}) /\ Cardinality({}) = 0
  BY FS_EmptySet
<1>2. \A x : IsFiniteSet({x}) /\ Cardinality({x}) = 1
  BY FS_Singleton
<1>3. Asked(e) = IF e.prev = Local THEN {} ELSE {e}
  BY DEF Asked, Asking, InFlight, OfKind
<1>4. Asked(e) \subseteq Asking /\ Asking \ {e} = Asking \ Asked(e)
  BY DEF Asked
<1>5. CASE e.prev = Local
  <2>1. FaceOf(e) = {} /\ Asked(e) = {}
    BY <1>3, <1>5 DEF FaceOf
  <2>2. /\ IsFiniteSet(FaceOf(e)) /\ Cardinality(FaceOf(e)) = 0
        /\ Cardinality(Asked(e)) = 0
    BY <1>1, <2>1
  <2> QED
    BY <1>4, <1>5, <2>2
<1>6. CASE e.prev # Local
  <2>1. FaceOf(e) = {<<e.at, NameOf(e), e.prev>>} /\ Asked(e) = {e}
    BY <1>3, <1>6 DEF FaceOf
  <2>2. /\ IsFiniteSet(FaceOf(e)) /\ Cardinality(FaceOf(e)) = 1
        /\ Cardinality(Asked(e)) = 1
    BY <1>2, <2>1
  <2> QED
    BY <1>4, <2>2
<1> QED
  BY <1>5, <1>6

(* Counting anything but packets sent.                                     *)
LEMMA NotSent ==
    ASSUME NEW s \in [Counters -> Nat],
           NEW field \in Counters \ {"interest_tx", "data_tx"}
    PROVE  /\ Count(s, field) \in [Counters -> Nat]
           /\ Count(s, field)["interest_tx"] = s["interest_tx"]
           /\ Count(s, field)["data_tx"] = s["data_tx"]
BY DEF Count, Counters

LEMMA OtherCounters ==
    {"completed_requests", "timed_out_requests", "retransmissions", "cache_hits", "producer_serves",
     "pit_overflow_drops", "dropped_interests", "dropped_data", "verification_failures"}
      \subseteq Counters \ {"interest_tx", "data_tx"}
BY DEF Counters, Tallies

LEMMA AnswerBooks ==
    ASSUME Balanced, Links, stats' \in [Counters -> Nat], NEW e \in q, e.kind = "interest",
           NEW counter \in {"cache_hits", "producer_serves"}, Answer(e, counter),
           Owing' \subseteq Owing
    PROVE  Balanced'
<1> DEFINE s == Count(stats, counter)
<1>1. stats \in [Counters -> Nat]
  BY DEF Links
<1>2. /\ s \in [Counters -> Nat]
      /\ s["interest_tx"] = stats["interest_tx"] /\ s["data_tx"] = stats["data_tx"]
  BY <1>1, NotSent, OtherCounters
<1>3. Net(e).q = q \ {e} /\ Net(e).stats = stats
  BY DEF Net
<1>4. CASE e.prev = Local
  <2> DEFINE net == [Net(e) EXCEPT !.stats = Count(Count(@, counter), "completed_requests")]
             t == Count(s, "completed_requests")
  <2>1. SetNet(net) /\ net.q = q \ {e} /\ net.stats = t
    BY <1>4 DEF Answer, Net
  <2> HIDE DEF s
  <2>2. t["interest_tx"] = s["interest_tx"] /\ t["data_tx"] = s["data_tx"]
    BY <1>2, NotSent, OtherCounters
  <2>3. q' = q \ {e} /\ stats' = t
    BY <2>1 DEF SetNet
  <2>4. Asking' \subseteq Asking
    BY <2>3, AskingFewer
  <2> QED
    BY <1>1, <1>2, <2>2, <2>3, <2>4, NothingSent
<1>5. CASE e.prev # Local
  <2> DEFINE net == [Net(e) EXCEPT !.stats = Count(@, counter)]
             hops == <<e.prev>>
  <2>1. PICK verified \in Verdicts, lost \in Losses({e.prev}) :
              SetNet(Send(net, e, DataPacket(verified), hops, lost))
    BY <1>5 DEF Answer
  <2>2. net.q = q \ {e} /\ net.stats = s
    BY DEF Net
  <2>3. Sequenced(hops) /\ Cardinality(DOMAIN hops) = 1
    BY OneHop, FS_Singleton
  <2> DEFINE packet == DataPacket(verified)
             out == Send(net, e, packet, hops, lost)
  <2>4. IsPacket(packet) /\ packet.kind = "data" /\ packet.tx = "data_tx"
    BY Packets DEF DataPacket
  <2>5. q' = out.q /\ stats' = out.stats
    BY <2>1 DEF SetNet
  <2> HIDE DEF net, s, packet, hops
  <2>6. PICK new, a : Adds(net, out, packet, hops, new, a)
    BY <1>2, <2>2, <2>3, <2>4, SendBooks
  <2> HIDE DEF out
  <2>7. Asking' \subseteq Asking \ {e}
    BY <2>2, <2>4, <2>5, <2>6, AskingAfter DEF Adds
  <2>8. /\ stats'["data_tx"] = stats["data_tx"] + a /\ stats'["interest_tx"] = stats["interest_tx"]
        /\ a <= 1
    BY <1>2, <2>2, <2>3, <2>4, <2>5, <2>6 DEF Adds
  <2>9. /\ Asked(e) \subseteq Asking /\ Asking \ {e} = Asking \ Asked(e)
        /\ Cardinality(Asked(e)) = 1
    BY <1>5, OneOwed
  <2>10. IsFiniteSet({}) /\ Cardinality({}) = 0
    BY FS_EmptySet
  <2>11. stats["data_tx"] \in Nat /\ stats["interest_tx"] \in Nat
    BY <1>1 DEF Counters
  <2> DEFINE none == {}
  <2>12. /\ Asking' \subseteq (Asking \ Asked(e)) \cup none
         /\ none \subseteq Owing /\ Owing' \subseteq (Owing \ none) \cup none
    BY <2>7, <2>9
  <2>13. IsFiniteSet(none) /\ Cardinality(none) = 0
    BY <2>10
  <2> HIDE DEF none
  <2>14. stats'["data_tx"] + Cardinality(none) + Cardinality(none) + stats["interest_tx"]
           <= stats["data_tx"] + Cardinality(Asked(e)) + Cardinality(none) + stats'["interest_tx"]
    BY <2>6, <2>8, <2>9, <2>11, <2>13 DEF Adds
  <2> QED
    BY <1>1, <2>9, <2>12, <2>13, <2>14, Books
<1> QED
  BY <1>4, <1>5

(* An Interest that leaves its face behind.                                *)
LEMMA FaceBooks ==
    ASSUME Balanced, Links, stats' \in [Counters -> Nat], NEW e \in q, e.kind = "interest",
           NEW new, IsFiniteSet(new), NEW a \in Nat, Cardinality(new) <= a,
           q' = (q \ {e}) \cup new, Owing' \subseteq Owing \cup FaceOf(e),
           stats'["data_tx"] = stats["data_tx"],
           stats'["interest_tx"] = stats["interest_tx"] + a
    PROVE  Balanced'
<1>1. stats \in [Counters -> Nat] /\ stats["data_tx"] \in Nat /\ stats["interest_tx"] \in Nat
  BY DEF Links, Counters
<1>2. /\ Asked(e) \subseteq Asking /\ Asking \ {e} = Asking \ Asked(e)
      /\ IsFiniteSet(FaceOf(e)) /\ Cardinality(FaceOf(e)) = Cardinality(Asked(e))
      /\ Cardinality(Asked(e)) \in Nat
  BY OneOwed
<1>3. Asking' \subseteq (Asking \ Asked(e)) \cup new
  BY <1>2, AskingAfter
<1> DEFINE none == {}
<1>4. none \subseteq Owing /\ Owing' \subseteq (Owing \ none) \cup FaceOf(e)
  OBVIOUS
<1>5. Cardinality(none) = 0 /\ Cardinality(new) \in Nat
  BY FS_EmptySet, FS_CardinalityType
<1> HIDE DEF none
<1>6. stats'["data_tx"] + Cardinality(new) + Cardinality(FaceOf(e)) + stats["interest_tx"]
        <= stats["data_tx"] + Cardinality(Asked(e)) + Cardinality(none) + stats'["interest_tx"]
  BY <1>1, <1>2, <1>5
<1> QED
  BY <1>1, <1>2, <1>3, <1>4, <1>6, Books

LEMMA InterestBooks ==
    ASSUME IInv, Balanced, stats' \in [Counters -> Nat], NEW e \in q, Interest(e)
    PROVE  Balanced'
<1>1. e.kind = "interest" /\ PacketOK(e)
  BY DEF Interest, Popped, IInv, Ordered, EventOK
<1>2. e.at \in Node /\ DOMAIN pit = Node /\ Links /\ stats \in [Counters -> Nat]
  BY <1>1 DEF PacketOK, IInv, Nodes, Links
<1>3. Net(e).q = q \ {e} /\ Net(e).stats = stats
  BY DEF Net
<1> DEFINE table == Purged(e.at, e.t)
<1>4. CASE OfResolved(e)
  <2>1. q' = q \ {e} /\ stats' = stats /\ pit' = pit
    BY <1>3, <1>4 DEF OfResolved, SetNet
  <2>2. Asking' \subseteq Asking /\ Owing' \subseteq Owing
    BY <2>1, AskingFewer DEF Owing
  <2> QED
    BY <1>2, <2>1, <2>2, NothingSent
<1>5. CASE CacheHit(e) \/ ProducerServe(e)
  <2>1. pit' = [pit EXCEPT ![e.at] = table]
        /\ \E counter \in {"cache_hits", "producer_serves"} : Answer(e, counter)
    BY <1>5 DEF CacheHit, ProducerServe
  <2>2. Owing' \subseteq Owing
    BY <1>2, <2>1, OwingPurged
  <2> QED
    BY <1>1, <1>2, <2>1, <2>2, AnswerBooks
<1>6. CASE Aggregate(e)
  <2>1. /\ pit' = [pit EXCEPT ![e.at] = [table EXCEPT ![NameOf(e)] = Refreshed(@, e)]]
        /\ Pending(table, e) /\ q' = q \ {e} /\ stats' = stats
    BY <1>3, <1>6 DEF Aggregate, SetNet
  <2>2. Owing' \subseteq Owing \cup FaceOf(e)
    BY <1>2, <2>1, OwingMerged
  <2> DEFINE none == {}
  <2>3. /\ IsFiniteSet(none) /\ Cardinality(none) <= 0 /\ q' = (q \ {e}) \cup none
    BY <2>1, FS_EmptySet
  <2> HIDE DEF none
  <2>4. stats'["interest_tx"] = stats["interest_tx"] + 0
    BY <1>2, <2>1 DEF Counters
  <2> QED
    BY <1>1, <1>2, <2>1, <2>2, <2>3, <2>4, FaceBooks
<1>7. CASE PitOverflow(e) \/ NoNextHop(e)
  <2> DEFINE s == Count(stats, "pit_overflow_drops")
  <2>1. /\ pit' = [pit EXCEPT ![e.at] = table] /\ q' = q \ {e}
        /\ stats' = Count(s, "dropped_interests") \/ stats' = Count(stats, "dropped_interests")
    BY <1>3, <1>7 DEF PitOverflow, NoNextHop, Net, SetNet
  <2>2. /\ s \in [Counters -> Nat]
        /\ s["interest_tx"] = stats["interest_tx"] /\ s["data_tx"] = stats["data_tx"]
    BY <1>2, NotSent, OtherCounters
  <2> HIDE DEF s
  <2>3. stats'["interest_tx"] = stats["interest_tx"] /\ stats'["data_tx"] = stats["data_tx"]
    BY <1>2, <2>1, <2>2, NotSent, OtherCounters
  <2>4. Asking' \subseteq Asking /\ Owing' \subseteq Owing
    BY <1>2, <2>1, AskingFewer, OwingPurged
  <2> QED
    BY <1>2, <2>3, <2>4, NothingSent
<1>8. CASE Forward(e)
  <2>1. pit' = [pit EXCEPT ![e.at] = Inserted(table, e)]
    BY <1>8 DEF Forward
  <2>2. PICK hops \in NextHopChoices(e.at, NameOf(e)) :
           \E lost : SetNet(Send(Net(e), e, InterestPacket, Onward(hops, e), lost))
    BY <1>8 DEF Forward
  <2>3. PICK lost : SetNet(Send(Net(e), e, InterestPacket, Onward(hops, e), lost))
    BY <2>2
  <2> DEFINE way == Onward(hops, e)
             packet == InterestPacket
             net == Net(e)
             out == Send(net, e, packet, way, lost)
  <2>4. Sequenced(way)
    BY <1>2, HopsSequenced, OnwardSequenced DEF IInv, Routed
  <2>5. IsPacket(packet) /\ packet.tx = "interest_tx"
    BY Packets DEF InterestPacket
  <2>6. q' = out.q /\ stats' = out.stats /\ net.stats = stats /\ net.q = q \ {e}
    BY <1>3, <2>3 DEF SetNet
  <2> HIDE DEF way, packet, net
  <2>7. PICK new, a : Adds(net, out, packet, way, new, a)
    BY <1>2, <2>4, <2>5, <2>6, SendBooks
  <2> HIDE DEF out
  <2>8. Owing' \subseteq Owing \cup FaceOf(e)
    BY <1>2, <2>1, OwingInserted
  <2>9. /\ q' = (q \ {e}) \cup new /\ stats'["data_tx"] = stats["data_tx"]
        /\ stats'["interest_tx"] = stats["interest_tx"] + a
    BY <2>5, <2>6, <2>7 DEF Adds
  <2> QED
    BY <1>1, <1>2, <2>7, <2>8, <2>9, FaceBooks DEF Adds
<1> QED
  BY <1>4, <1>5, <1>6, <1>7, <1>8 DEF Interest

LEMMA SatisfyBooks ==
    ASSUME Nodes, Links, Balanced, stats' \in [Counters -> Nat], NEW e \in q, PacketOK(e),
           Satisfy(e)
    PROVE  Balanced'
<1> DEFINE name == NameOf(e)
           faces == pit[e.at][name].faces
           n == Cardinality(faces \ {Local})
           owed == OwedBy(e.at, name)
           packet == DataPacket(e.verified)
           net == Delivered(e, faces)
<1>1. /\ name \in DOMAIN pit[e.at] /\ e.at \in Node
      /\ pit' = [pit EXCEPT ![e.at] = PitPopped(e.at, name)]
  BY DEF Satisfy, PacketOK
<1>2. owed \subseteq Owing /\ Owing' \subseteq Owing \ owed /\ Cardinality(owed) = n
  BY <1>1, OwingPopped
<1>3. PICK order \in SetToSeqs(faces \ {Local}) :
        \E lost : SetNet(Send(net, e, packet, order, lost))
  BY DEF Satisfy
<1>4. PICK lost : SetNet(Send(net, e, packet, order, lost))
  BY <1>3
<1>5. IsPacket(packet) /\ packet.kind = "data" /\ packet.tx = "data_tx"
  BY Packets DEF DataPacket
<1>6. faces \subseteq Face
  BY <1>1 DEF Nodes, TableOK
<1>7. Sequenced(order) /\ Cardinality(DOMAIN order) = n /\ n \in Nat
  <2> DEFINE S == faces \ {Local}
  <2>1. IsFiniteSet(S)
    BY <1>6, FS_Subset, NetworkAssumption DEF Face
  <2>2. order \in [1 .. n -> S]
    BY DEF SetToSeqs
  <2>3. n \in Nat
    BY <2>1, FS_CardinalityType
  <2>4. DOMAIN order = 1 .. n
    BY <2>2
  <2> HIDE DEF n, S
  <2>5. Cardinality(1 .. n) = n
    BY <2>3, FS_Interval
  <2>6. Sequenced(order)
    BY <1>6, FacesSequenced
  <2> QED
    BY <2>3, <2>4, <2>5, <2>6
<1>8. stats \in [Counters -> Nat] /\ stats["data_tx"] \in Nat /\ stats["interest_tx"] \in Nat
  BY DEF Links, Counters
<1>9. /\ net.q = q \ {e} /\ net.stats \in [Counters -> Nat]
      /\ net.stats["interest_tx"] = stats["interest_tx"] /\ net.stats["data_tx"] = stats["data_tx"]
  <2>1. /\ net.q = q \ {e}
        /\ net.stats \in {stats, Count(stats, "completed_requests"), Count(stats, "dropped_data")}
    BY DEF Delivered, Net
  <2>2. \A field \in {"completed_requests", "dropped_data"} :
           LET s == Count(stats, field)
           IN /\ s \in [Counters -> Nat]
              /\ s["interest_tx"] = stats["interest_tx"] /\ s["data_tx"] = stats["data_tx"]
    BY <1>8, NotSent, OtherCounters
  <2> HIDE DEF net
  <2> QED
    BY <1>8, <2>1, <2>2
<1> DEFINE out == Send(net, e, packet, order, lost)
<1>10. q' = out.q /\ stats' = out.stats
  BY <1>4 DEF SetNet
<1> HIDE DEF packet, net, n, owed
<1>11. PICK new, a : Adds(net, out, packet, order, new, a)
  BY <1>5, <1>7, <1>9, SendBooks
<1> HIDE DEF out
<1>12. Asking' \subseteq Asking \ {e}
  BY <1>5, <1>9, <1>10, <1>11, AskingAfter DEF Adds
<1>13. /\ stats'["data_tx"] = stats["data_tx"] + a /\ stats'["interest_tx"] = stats["interest_tx"]
       /\ a \in Nat /\ a <= n
  BY <1>5, <1>7, <1>9, <1>10, <1>11 DEF Adds
<1> DEFINE none == {}
<1>14. /\ none \subseteq Asking /\ Asking' \subseteq (Asking \ none) \cup none
       /\ Owing' \subseteq (Owing \ owed) \cup none
  BY <1>2, <1>12
<1>15. IsFiniteSet(none) /\ Cardinality(none) = 0
  BY FS_EmptySet
<1> HIDE DEF none
<1>16. stats'["data_tx"] + Cardinality(none) + Cardinality(none) + stats["interest_tx"]
         <= stats["data_tx"] + Cardinality(none) + Cardinality(owed) + stats'["interest_tx"]
  BY <1>2, <1>7, <1>8, <1>13, <1>15
<1> QED
  BY <1>2, <1>8, <1>14, <1>15, <1>16, Books

LEMMA DataBooks ==
    ASSUME IInv, Balanced, stats' \in [Counters -> Nat], NEW e \in q, Data(e)
    PROVE  Balanced'
<1>1. e.kind = "data" /\ PacketOK(e)
  BY DEF Data, Popped, IInv, Ordered, EventOK
<1>2. Nodes /\ Links /\ stats \in [Counters -> Nat]
  BY DEF IInv, Links
<1>3. Net(e).q = q \ {e} /\ Net(e).stats = stats
  BY DEF Net
<1>4. ASSUME pit' = pit, q' = q \ {e},
             \/ stats' = stats
             \/ \E field \in Counters \ {"interest_tx", "data_tx"} : stats' = Count(stats, field)
      PROVE  Balanced'
  <2>1. stats'["interest_tx"] = stats["interest_tx"] /\ stats'["data_tx"] = stats["data_tx"]
    BY <1>2, <1>4, NotSent
  <2>2. Asking' \subseteq Asking /\ Owing' \subseteq Owing
    BY <1>4, AskingFewer DEF Owing
  <2> QED
    BY <1>2, <2>1, <2>2, NothingSent
<1>5. CASE OfResolved(e)
  BY <1>3, <1>4, <1>5 DEF OfResolved, SetNet
<1>6. CASE DropUnverified(e)
  <2>1. pit' = pit /\ q' = q \ {e} /\ stats' = Count(stats, "verification_failures")
    BY <1>6 DEF DropUnverified, SetNet, Net
  <2> QED
    BY <1>4, <2>1, OtherCounters
<1>7. CASE Satisfy(e)
  BY <1>1, <1>2, <1>7, SatisfyBooks
<1>8. CASE Unsolicited(e)
  <2>1. /\ pit' = pit /\ q' = q \ {e}
        /\ stats' \in {Count(stats, "completed_requests"), Count(stats, "dropped_data")}
    BY <1>8 DEF Unsolicited, SetNet, Net
  <2> QED
    BY <1>4, <2>1, OtherCounters
<1> QED
  BY <1>5, <1>6, <1>7, <1>8 DEF Data

(* A retransmission comes from its consumer: no neighbour waits for it.    *)
LEMMA TimeoutBooks ==
    ASSUME Links, Balanced, stats' \in [Counters -> Nat], NEW e \in q, Timeout(e)
    PROVE  Balanced'
<1>1. stats \in [Counters -> Nat] /\ pit' = pit
  BY DEF Links, Timeout
<1>2. /\ stats' \in {stats, Count(stats, "retransmissions"), Count(stats, "timed_out_requests")}
      /\ q' = q \ {e} \/ q' = (q \ {e}) \cup Reissued(e)
  BY DEF Timeout, StaleTimeout, Retransmit, GiveUp, Count
<1>3. stats'["interest_tx"] = stats["interest_tx"] /\ stats'["data_tx"] = stats["data_tx"]
  BY <1>1, <1>2, NotSent, OtherCounters
<1>4. \A p \in Reissued(e) : p.kind # "interest" \/ p.prev = Local
  BY DEF Reissued, InterestEvent, TimeoutEvent
<1>5. Asking' \subseteq Asking
  BY <1>2, <1>4, AskingFewer, AskingAfter
<1>6. Owing' \subseteq Owing
  BY <1>1 DEF Owing
<1> QED
  BY <1>1, <1>3, <1>5, <1>6, NothingSent

LEMMA ControlBooks ==
    ASSUME Links, Balanced, NEW e \in q, Toggle(e) \/ FibApply(e)
    PROVE  Balanced'
<1>1. stats' = stats /\ pit' = pit /\ stats \in [Counters -> Nat]
  BY DEF Links, Toggle, FibApply
<1>2. q' = q \ {e} \/ \E p : p.kind = "fib_apply" /\ q' = (q \ {e}) \cup {p}
  BY DEF Toggle, FibApply, PushFibs, RebuildFibs, ApplyEvent
<1>3. Asking' \subseteq Asking
  BY <1>2 DEF Asking, InFlight, OfKind
<1>4. Owing' \subseteq Owing
  BY <1>1 DEF Owing
<1> QED
  BY <1>1, <1>3, <1>4, NothingSent

LEMMA InitBalanced == Init => Balanced
<1> SUFFICES ASSUME Init PROVE Balanced
  OBVIOUS
<1>1. Asking = {}
  BY DEF Init, InitialEvents, Asking, InFlight, OfKind, InterestEvent, TimeoutEvent, ToggleEvent
<1>2. Owing = {}
  BY DEF Init, Owing
<1>3. stats["data_tx"] = 0 /\ stats["interest_tx"] = 0
  BY DEF Init, ZeroStats
<1>4. IsFiniteSet({}) /\ Cardinality({}) = 0
  BY FS_EmptySet
<1> QED
  BY <1>1, <1>2, <1>3, <1>4 DEF Balanced

LEMMA NextBalances == IInv /\ Balanced /\ [Next]_vars /\ IInv' => Balanced'
<1> SUFFICES ASSUME IInv, Balanced, [Next]_vars, IInv' PROVE Balanced'
  OBVIOUS
<1>1. Links /\ stats' \in [Counters -> Nat]
  BY DEF IInv, Links
<1>2. CASE UNCHANGED vars
  BY <1>2 DEF vars, Balanced, Asking, Owing, InFlight, OfKind
<1>3. ASSUME NEW e \in q, Toggle(e) \/ FibApply(e) \/ Timeout(e) \/ Interest(e) \/ Data(e)
      PROVE  Balanced'
  BY <1>1, <1>3, ControlBooks, TimeoutBooks, InterestBooks, DataBooks
<1> QED
  BY <1>2, <1>3 DEF Next

LEMMA BalancedMeansFlow == Balanced => FlowBalance
<1> DEFINE owed == {<<p[1], p[2], f>> : p \in Entries, f \in Node}
           faces == {o \in owed : o[3] \in pit[o[1]][o[2]].faces}
<1>1. faces = Owing
  <2>1. \A o \in faces : o \in Owing
    BY DEF Entries, Owing
  <2>2. \A o \in Owing : o \in faces
    <3> SUFFICES ASSUME NEW o \in Owing PROVE o \in faces
      OBVIOUS
    <3>1. o = <<o[1], o[2], o[3]>> /\ o[1] \in Node /\ o[2] \in Name /\ o[3] \in Node
          /\ o[2] \in DOMAIN pit[o[1]] /\ o[3] \in pit[o[1]][o[2]].faces
      BY DEF Owing
    <3> DEFINE p == <<o[1], o[2]>>
    <3>2. p \in Entries /\ p[1] = o[1] /\ p[2] = o[2]
      BY <3>1 DEF Entries
    <3>3. o \in owed
      BY <3>1, <3>2
    <3> QED
      BY <3>1, <3>3
  <2> QED
    BY <2>1, <2>2
<1>2. FlowBalance <=> stats["data_tx"] + Cardinality(InFlight("interest")) + Cardinality(faces)
                        <= stats["interest_tx"]
  BY DEF FlowBalance
<1> HIDE DEF faces
<1> QED
  BY <1>1, <1>2 DEF Balanced, Asking

(* Flow balance, for every network, strategy and workload: the Data sent   *)
(* over links, the Interests on their way and the faces the PITs remember  *)
(* are never more than the Interests sent over links, so that no Interest  *)
(* is answered twice (flow of _process_interest and _process_data).        *)
THEOREM FlowIsBalanced == Spec => []FlowBalance
<1>1. Init => Balanced
  BY InitBalanced
<1>2. IInv /\ Balanced /\ [Next]_vars /\ IInv' => Balanced'
  BY NextBalances
<1>3. Balanced => FlowBalance
  BY BalancedMeansFlow
<1> QED
  BY <1>1, <1>2, <1>3, AlwaysIInv, PTL DEF Spec

-----------------------------------------------------------------------------
(* No storm.  Each issue of a request may cross every link once each way:  *)
(* that is its credit.  A node forwards an Interest against the credit of  *)
(* its request at that node, which is spent while the entry made for it is *)
(* pending or once the answer is in the node's store.                      *)
Away(u) == {d \in Directions : d[1] = u}

LEMMA DirectionsFinite ==
    /\ IsFiniteSet(Link) /\ IsFiniteSet(Directions)
    /\ Cardinality(Link) \in Nat /\ Cardinality(Directions) \in Nat
    /\ Cardinality(Directions) <= 2 * Cardinality(Link)
<1> DEFINE End(l) == CHOOSE x \in l : TRUE
           side(d) == IF d[1] = End({d[1], d[2]}) THEN 1 ELSE 2
           f == [d \in Directions |-> <<{d[1], d[2]}, side(d)>>]
           sides == 1 .. 2
<1>1. IsFiniteSet(Link)
  <2>1. IsFiniteSet(SUBSET Node) /\ Link \subseteq SUBSET Node
    BY NetworkAssumption, FS_SUBSET
  <2> QED
    BY <2>1, FS_Subset
<1>2. IsFiniteSet(sides) /\ Cardinality(sides) = 2
  <2>1. PICK n \in Nat : n = 2
    OBVIOUS
  <2>2. IsFiniteSet(1 .. n) /\ Cardinality(1 .. n) = n
    BY FS_Interval
  <2> QED
    BY <2>1, <2>2
<1>3. \A d \in Directions : f[d] \in Link \X sides
  BY DEF Directions
<1>4. \A a, b \in Directions : f[a] = f[b] => a = b
  <2> SUFFICES ASSUME NEW a \in Directions, NEW b \in Directions, f[a] = f[b] PROVE a = b
    OBVIOUS
  <2>1. {a[1], a[2]} = {b[1], b[2]} /\ side(a) = side(b)
    OBVIOUS
  <2> DEFINE l == {a[1], a[2]}
             x == End(l)
  <2>2. side(a) = (IF a[1] = x THEN 1 ELSE 2) /\ side(b) = (IF b[1] = x THEN 1 ELSE 2)
    BY <2>1
  <2>3. x \in l
    OBVIOUS
  <2> HIDE DEF x, side
  <2>4. a[1] = b[1] /\ a[2] = b[2]
    BY <2>1, <2>2, <2>3
  <2> QED
    BY <2>4 DEF Directions
<1>5. f \in Injection(Directions, Link \X sides)
  <2>1. f \in [Directions -> Link \X sides]
    BY <1>3
  <2> HIDE DEF f, sides
  <2> QED
    BY <1>4, <2>1, Zenon DEF Injection, IsInjective
<1> HIDE DEF f, sides
<1>6. /\ IsFiniteSet(Link \X sides)
      /\ Cardinality(Link \X sides) = Cardinality(Link) * 2
  BY <1>1, <1>2, FS_Product
<1>7. IsFiniteSet(Directions) /\ Cardinality(Directions) <= Cardinality(Link \X sides)
  BY <1>5, <1>6, FS_Injection
<1>8. Cardinality(Link) \in Nat /\ Cardinality(Directions) \in Nat
  BY <1>1, <1>7, FS_CardinalityType
<1> QED
  BY <1>1, <1>6, <1>7, <1>8

-----------------------------------------------------------------------------
(* Timers and Interests of one request keep their distance: an Interest is *)
(* issued no more than a lifetime before the timer, and if both are due at *)
(* once the timer comes first.                                             *)
Asks(p, o) == p.kind = "interest" /\ p.req = o.req

Pace(p, o, time) ==
    /\ o.t <= p.t + Lifetime
    /\ p.t = o.t => o.seq < p.seq
    /\ p.t < o.t \/ p.t < time + Lifetime

Paced ==
    /\ \A r \in DOMAIN requests : ~rs[r].completed =>
          \E o \in Timeouts : o.req = r /\ o.attempt = rs[r].current_attempt
    /\ \A o \in Timeouts, p \in q : Asks(p, o) => Pace(p, o, now)

(* An Interest arrives within a lifetime.                                  *)
LEMMA ArrivesSoon ==
    ASSUME QuickLinks, Links, NEW e, e.t \in Nat, NEW v, NEW lost,
           Crossing(e, InterestPacket, v, lost).ok
    PROVE  Crossing(e, InterestPacket, v, lost).arrival < e.t + Lifetime
<1> DEFINE b == busy[<<e.at, v>>]
<1>1. {e.at, v} \in active /\ Admits(b, e.t, InterestService, LinkRecord.queue_limit)
  BY DEF Crossing, Traverse, Refused, Lost, InterestPacket
<1>2. b \in Nat
  BY <1>1, NetworkAssumption DEF Links, Directions
<1>3. Crossing(e, InterestPacket, v, lost).arrival
        = Arrival(LinkRecord, b, e.t, InterestService, ProcessingDelay)
  BY <1>1 DEF Crossing, Traverse, Refused, Lost, InterestPacket
<1> DEFINE w == Wait(b, e.t)
           room == LinkRecord.queue_limit * InterestService
<1>4. w \in Nat /\ w <= room
  BY <1>1, <1>2 DEF Wait, Admits
<1>5. /\ LinkRecord.propagation \in Nat /\ LinkRecord.processing \in Nat
      /\ LinkRecord.queue_limit \in Nat /\ InterestService \in Nat
      /\ ProcessingDelay \in Nat /\ Lifetime \in Nat
  BY NetworkAssumption, ParameterAssumption
<1>6. room \in Nat /\ (LinkRecord.queue_limit + 1) * InterestService = room + InterestService
  BY <1>5
<1>7. Crossing(e, InterestPacket, v, lost).arrival
        = e.t + LinkRecord.propagation + InterestService + w + LinkRecord.processing + ProcessingDelay
  BY <1>3 DEF Arrival
<1> HIDE DEF w, room
<1>8. room + InterestService + LinkRecord.propagation + LinkRecord.processing + ProcessingDelay < Lifetime
  BY <1>6 DEF QuickLinks
<1> QED
  BY <1>4, <1>5, <1>6, <1>7, <1>8

LEMMA QuickMeansLater == QuickLinks => Lifetime > 0
<1>1. /\ LinkRecord.propagation \in Nat /\ LinkRecord.processing \in Nat
      /\ LinkRecord.queue_limit \in Nat /\ InterestService \in Nat
      /\ ProcessingDelay \in Nat /\ Lifetime \in Nat
  BY NetworkAssumption, ParameterAssumption
<1>2. (LinkRecord.queue_limit + 1) * InterestService \in Nat
  BY <1>1
<1> QED
  BY <1>1, <1>2 DEF QuickLinks

(* A step that keeps the timers and adds no Interests but copies of e.     *)
Copy(p, e) ==
    /\ e.kind = "interest" /\ p.req = e.req
    /\ p.seq \in Nat /\ seq <= p.seq
    /\ p.t \in Nat /\ e.t <= p.t /\ p.t < e.t + Lifetime

(* No request is taken up again, and none is retransmitted.                *)
Settles ==
    \A r \in DOMAIN requests : ~rs'[r].completed =>
       ~rs[r].completed /\ rs'[r].current_attempt = rs[r].current_attempt

LEMMA EffectSettles ==
    ASSUME Requesting, NEW e, e.req \in DOMAIN requests, Effect(e)
    PROVE  Settles
<1>1. rs \in [DOMAIN requests -> RequestState]
  BY DEF Requesting
<1>2. CASE rs' = rs
  BY <1>2 DEF Settles
<1>3. CASE rs' = [rs EXCEPT ![e.req].completed = TRUE]
  BY <1>1, <1>3 DEF Settles, RequestState
<1> QED
  BY <1>2, <1>3 DEF Effect, Silent, Answered

LEMMA PaceKept ==
    ASSUME Ordered, Paced, NEW e \in q, now' = e.t, UNCHANGED requests,
           Timeouts' = Timeouts, Settles,
           \A p \in q' : p \in q \/ (p.kind = "interest" => Copy(p, e))
    PROVE  Paced'
<1>1. /\ now \in Nat /\ e.t \in Nat /\ now <= e.t /\ seq \in Nat /\ e.seq < seq /\ e.seq \in Nat
      /\ Lifetime \in Nat
  BY ParameterAssumption DEF Ordered, EventOK
<1>2. \A r \in DOMAIN requests' : ~rs'[r].completed =>
         \E o \in Timeouts' : o.req = r /\ o.attempt = rs'[r].current_attempt
  BY DEF Paced, Settles
<1>3. ASSUME NEW o \in Timeouts, NEW p \in q', Asks(p, o) PROVE Pace(p, o, e.t)
  <2>1. o \in q /\ o.t \in Nat /\ o.seq \in Nat /\ o.seq < seq
    BY DEF Timeouts, OfKind, Ordered, EventOK
  <2>2. CASE p \in q
    <3>1. Pace(p, o, now) /\ p.t \in Nat
      BY <1>3, <2>2 DEF Paced, Ordered, EventOK
    <3> QED
      BY <1>1, <2>1, <3>1 DEF Pace
  <2>3. CASE Copy(p, e)
    <3>1. Pace(e, o, now)
      BY <1>3, <2>3 DEF Paced, Asks, Copy
    <3> QED
      BY <1>1, <2>1, <2>3, <3>1 DEF Pace, Copy
  <2> QED
    BY <1>3, <2>2, <2>3 DEF Asks
<1>4. \A o \in Timeouts', p \in q' : Asks(p, o) => Pace(p, o, now')
  BY <1>3
<1> QED
  BY <1>2, <1>4 DEF Paced, Asks, Pace

LEMMA TimeoutPaced ==
    ASSUME QuickLinks, IInv, Paced, NEW e \in q, Timeout(e)
    PROVE  Paced'
<1>1. /\ e \in Timeouts /\ e.kind = "timeout" /\ First(e) /\ now' = e.t /\ UNCHANGED requests
  BY PoppedFirst DEF Timeout, Timeouts
<1>2. /\ now \in Nat /\ e.t \in Nat /\ now <= e.t /\ e.req \in DOMAIN requests
      /\ Lifetime \in Nat /\ Lifetime > 0
  BY <1>1, ParameterAssumption, QuickMeansLater DEF IInv, Ordered, EventOK
<1>3. rs \in [DOMAIN requests -> RequestState] /\ \A a, b \in Timeouts : a.req = b.req => a = b
  BY DEF IInv, Requesting
<1>4. ASSUME NEW p \in q, NEW o \in Timeouts, Asks(p, o) PROVE Pace(p, o, e.t)
  <2>1. o.t \in Nat /\ p.t \in Nat /\ Pace(p, o, now)
    BY <1>4 DEF IInv, Ordered, EventOK, Timeouts, OfKind, Paced
  <2> QED
    BY <1>2, <2>1 DEF Pace
<1>5. CASE q' = q \ {e}
  <2>1. Timeouts' = Timeouts \ {e}
    BY <1>5 DEF Timeouts, OfKind
  <2>2. \A o \in Timeouts', p \in q' : Asks(p, o) => Pace(p, o, now')
    BY <1>1, <1>4, <1>5, <2>1
  <2>3. ASSUME NEW r \in DOMAIN requests, ~rs'[r].completed
        PROVE  \E o \in Timeouts' : o.req = r /\ o.attempt = rs'[r].current_attempt
    <3>1. StaleTimeout(e) \/ GiveUp(e)
      <4>1. ~Retransmit(e)
        <5> SUFFICES ASSUME Retransmit(e) PROVE FALSE
          OBVIOUS
        <5> DEFINE o == TimeoutEvent(e.t + Lifetime, seq + 1, e.req, rs[e.req].current_attempt + 1)
        <5>1. o \in q' /\ o.seq = seq + 1 /\ seq \in Nat
          BY DEF Retransmit, Reissued, TimeoutEvent, IInv, Ordered
        <5>2. o \in q /\ o.seq < seq
          BY <1>5, <5>1 DEF IInv, Ordered
        <5> HIDE DEF o
        <5> QED
          BY <5>1, <5>2
      <4> QED
        BY <4>1 DEF Timeout
    <3>2. /\ ~rs[r].completed /\ rs'[r] = rs[r]
          /\ r # e.req \/ Ignored(e)
      BY <1>2, <1>3, <2>3, <3>1 DEF StaleTimeout, GiveUp, RequestState
    <3>3. PICK o \in Timeouts : o.req = r /\ o.attempt = rs[r].current_attempt
      BY <3>2 DEF Paced
    <3>4. o # e
      BY <3>2, <3>3 DEF Ignored
    <3> QED
      BY <2>1, <3>2, <3>3, <3>4
  <2> QED
    BY <1>1, <2>2, <2>3 DEF Paced, Asks, Pace
<1>6. CASE Retransmit(e)
  <2> DEFINE i == InterestEvent(e.t, seq, e.req, requests[e.req].consumer, Local)
             k == TimeoutEvent(e.t + Lifetime, seq + 1, e.req, rs[e.req].current_attempt + 1)
  <2>1. q' = (q \ {e}) \cup {i, k}
    BY <1>6 DEF Retransmit, Reissued
  <2>2. /\ i.kind = "interest" /\ i.t = e.t /\ i.req = e.req
        /\ k.kind = "timeout" /\ k.t = e.t + Lifetime /\ k.req = e.req
        /\ k.attempt = rs[e.req].current_attempt + 1
    BY DEF InterestEvent, TimeoutEvent
  <2> HIDE DEF i, k
  <2>3. Timeouts' = (Timeouts \ {e}) \cup {k}
    BY <2>1, <2>2 DEF Timeouts, OfKind
  <2>4. ASSUME NEW o \in Timeouts', NEW p \in q', Asks(p, o) PROVE Pace(p, o, e.t)
    <3>1. CASE o = k
      <4>1. CASE p = i
        BY <1>2, <2>2, <3>1, <4>1 DEF Pace
      <4>2. CASE p \in q /\ p # e
        <5>1. Asks(p, e) /\ p.t \in Nat
          BY <2>2, <2>4, <3>1, <4>2 DEF Asks, IInv, Ordered, EventOK
        <5>2. e.t <= p.t /\ Pace(p, e, now)
          BY <1>1, <1>2, <4>2, <5>1 DEF First, Before, Paced
        <5> QED
          BY <1>2, <2>2, <3>1, <5>1, <5>2 DEF Pace
      <4> QED
        BY <2>1, <2>2, <2>4, <4>1, <4>2 DEF Asks
    <3>2. CASE o # k
      <4>1. o \in Timeouts /\ o # e /\ o.req # e.req
        BY <1>1, <1>3, <2>3, <3>2
      <4>2. p \in q
        BY <2>1, <2>2, <2>4, <4>1 DEF Asks
      <4> QED
        BY <1>4, <2>4, <4>1, <4>2
    <3> QED
      BY <3>1, <3>2
  <2>5. ASSUME NEW r \in DOMAIN requests, ~rs'[r].completed
        PROVE  \E o \in Timeouts' : o.req = r /\ o.attempt = rs'[r].current_attempt
    <3>1. CASE r = e.req
      <4>1. rs'[r].current_attempt = rs[r].current_attempt + 1
        BY <1>2, <1>3, <1>6, <3>1 DEF Retransmit, RequestState
      <4> QED
        BY <2>2, <2>3, <3>1, <4>1
    <3>2. CASE r # e.req
      <4>1. rs'[r] = rs[r]
        BY <1>3, <1>6, <3>2 DEF Retransmit
      <4>2. PICK o \in Timeouts : o.req = r /\ o.attempt = rs[r].current_attempt
        BY <2>5, <4>1 DEF Paced
      <4> QED
        BY <2>3, <3>2, <4>1, <4>2
    <3> QED
      BY <3>1, <3>2
  <2> QED
    BY <1>1, <2>4, <2>5 DEF Paced, Asks, Pace
<1> QED
  BY <1>5, <1>6 DEF Timeout, StaleTimeout, GiveUp

-----------------------------------------------------------------------------
(* The credits, and what is left of them.                                  *)
Kept(u, name, t) == name \in DOMAIN pit[u] /\ pit[u][name].expiry >= t

Credited(r, u) ==
    /\ ~rs[r].completed
    /\ requests[r].name \notin DOMAIN cs[u]
    /\ \E o \in Timeouts : o.req = r /\ o.t > now /\ ~Kept(u, requests[r].name, o.t)

Credit == {c \in (DOMAIN requests) \X Directions : Credited(c[1], c[2][1])}

Issues == Len(requests) + stats["retransmissions"]

Spent ==
    stats["interest_tx"] + Cardinality(Credit) <= Issues * Cardinality(Directions)

Undirected == \A u \in Node : allowed[u] = {}

StormInv == AnswersKept /\ QuickLinks => Paced /\ Undirected /\ Spent

(* Pending entries and answers that are not forgotten when the clock is t. *)
Memory(t) ==
    \A u \in Node :
       /\ DOMAIN cs[u] \subseteq DOMAIN cs'[u]
       /\ \A name \in DOMAIN pit[u] : pit[u][name].expiry > t =>
             \/ name \in DOMAIN cs'[u]
             \/ /\ name \in DOMAIN pit'[u] /\ pit'[u][name].expiry \in Nat
                /\ pit'[u][name].expiry >= pit[u][name].expiry

LEMMA RequestsFinite ==
    ASSUME Requesting
    PROVE  /\ DOMAIN requests = 1 .. Len(requests) /\ Len(requests) \in Nat
           /\ IsFiniteSet(DOMAIN requests) /\ Cardinality(DOMAIN requests) = Len(requests)
<1>1. DOMAIN requests = 1 .. Len(requests) /\ Len(requests) \in Nat
  <2> DEFINE S == Request
  <2>1. requests \in Seq(S)
    BY DEF Requesting
  <2> HIDE DEF S
  <2> QED
    BY <2>1
<1>2. PICK n \in Nat : n = Len(requests)
  BY <1>1
<1>3. IsFiniteSet(1 .. n) /\ Cardinality(1 .. n) = n
  BY FS_Interval
<1> QED
  BY <1>1, <1>2, <1>3

LEMMA CreditFinite ==
    ASSUME Requesting
    PROVE  IsFiniteSet(Credit) /\ Cardinality(Credit) \in Nat
<1> DEFINE all == (DOMAIN requests) \X Directions
<1>1. IsFiniteSet(all)
  BY RequestsFinite, DirectionsFinite, FS_Product
<1>2. Credit \subseteq all
  BY DEF Credit
<1> HIDE DEF all
<1> QED
  BY <1>1, <1>2, FS_Subset, FS_CardinalityType

(* Time passes, requests are resolved, entries are remembered: no credit is *)
(* given.                                                                  *)
LEMMA CreditsFall ==
    ASSUME Ordered, Nodes, now' \in Nat, now <= now', UNCHANGED requests,
           Settles, Memory(now'), Timeouts' \subseteq Timeouts
    PROVE  Credit' \subseteq Credit
<1>1. ASSUME NEW r \in DOMAIN requests, NEW u \in Node, Credited(r, u)' PROVE Credited(r, u)
  <2> DEFINE name == requests[r].name
  <2>1. ~rs[r].completed
    BY <1>1 DEF Credited, Settles
  <2>2. name \notin DOMAIN cs'[u] /\ name \notin DOMAIN cs[u]
    BY <1>1 DEF Credited, Memory
  <2>3. PICK o \in Timeouts' : o.req = r /\ o.t > now' /\ ~Kept(u, name, o.t)'
    BY <1>1 DEF Credited, Kept
  <2>4. o \in Timeouts /\ o.t \in Nat /\ now \in Nat
    BY <2>3 DEF Ordered, EventOK, Timeouts, OfKind
  <2>5. ~Kept(u, name, o.t)
    <3> SUFFICES ASSUME Kept(u, name, o.t) PROVE FALSE
      OBVIOUS
    <3>1. name \in DOMAIN pit[u] /\ pit[u][name].expiry >= o.t /\ pit[u][name].expiry \in Nat
      BY DEF Kept, Nodes, TableOK
    <3>2. pit[u][name].expiry > now'
      BY <2>3, <2>4, <3>1
    <3>3. /\ name \in DOMAIN pit'[u] /\ pit'[u][name].expiry \in Nat
          /\ pit'[u][name].expiry >= pit[u][name].expiry
      BY <2>2, <3>1, <3>2 DEF Memory
    <3>4. pit'[u][name].expiry >= o.t
      BY <2>4, <3>1, <3>3
    <3> QED
      BY <2>3, <3>3, <3>4 DEF Kept
  <2>6. o.t > now
    BY <2>3, <2>4
  <2> HIDE DEF name
  <2> QED
    BY <2>1, <2>2, <2>3, <2>4, <2>5, <2>6 DEF Credited, name
<1> SUFFICES ASSUME NEW c \in Credit' PROVE c \in Credit
  OBVIOUS
<1>2. c \in (DOMAIN requests) \X Directions /\ Credited(c[1], c[2][1])'
  BY DEF Credit, Directions, Credited
<1>3. c[1] \in DOMAIN requests /\ c[2][1] \in Node
  BY <1>2 DEF Directions
<1>4. Credited(c[1], c[2][1])
  BY <1>1, <1>2, <1>3
<1> QED
  BY <1>2, <1>4 DEF Credit

LEMMA MemoryAt ==
    ASSUME Nodes, NEW t, NEW u \in Node,
           \A n \in Node \ {u} : pit'[n] = pit[n] /\ cs'[n] = cs[n],
           DOMAIN cs[u] \subseteq DOMAIN cs'[u],
           \A name \in DOMAIN pit[u] : pit[u][name].expiry > t =>
              \/ name \in DOMAIN cs'[u]
              \/ /\ name \in DOMAIN pit'[u] /\ pit'[u][name].expiry \in Nat
                 /\ pit'[u][name].expiry >= pit[u][name].expiry
    PROVE  Memory(t)
<1>1. ASSUME NEW n \in Node \ {u}, NEW name \in DOMAIN pit[n]
      PROVE  /\ name \in DOMAIN pit'[n] /\ pit'[n][name].expiry \in Nat
             /\ pit'[n][name].expiry >= pit[n][name].expiry
  <2>1. pit[n][name].expiry \in Nat
    BY DEF Nodes, TableOK
  <2> QED
    BY <2>1
<1> QED
  BY <1>1 DEF Memory

LEMMA IssuesCounted ==
    ASSUME Requesting, Links
    PROVE  Issues \in Nat /\ Issues * Cardinality(Directions) \in Nat
<1>1. stats["retransmissions"] \in Nat
  BY DEF Links, Counters, Tallies
<1>2. Issues \in Nat /\ Cardinality(Directions) \in Nat
  BY <1>1, RequestsFinite, DirectionsFinite DEF Issues
<1> QED
  BY <1>2

(* A step that sends no Interest over a link.                              *)
LEMMA SpentKept ==
    ASSUME Spent, Requesting, UNCHANGED requests, Credit' \subseteq Credit,
           Links, stats'["interest_tx"] = stats["interest_tx"],
           stats'["retransmissions"] = stats["retransmissions"]
    PROVE  Spent'
<1>1. IsFiniteSet(Credit) /\ Cardinality(Credit) \in Nat
  BY CreditFinite
<1>2. Cardinality(Credit') \in Nat /\ Cardinality(Credit') <= Cardinality(Credit)
  BY <1>1, FS_Subset, FS_CardinalityType
<1>3. Issues' = Issues /\ Directions' = Directions
  BY DEF Issues, Directions
<1>4. Issues * Cardinality(Directions) \in Nat /\ stats["interest_tx"] \in Nat
  <2>1. stats["interest_tx"] \in Nat
    BY DEF Links, Counters
  <2> QED
    BY <2>1, IssuesCounted
<1> QED
  BY <1>1, <1>2, <1>3, <1>4 DEF Spent

(* The stores when answers are kept.                                       *)
LEMMA NothingOutdated ==
    ASSUME AnswersKept, NEW u, NEW held, NEW k, NEW t
    PROVE  /\ CS!Lookup(Settings(u), held, k, t).held = held
           /\ CS!Lookup(Settings(u), held, k, t).hit <=> k \in DOMAIN held
<1>1. \A since : ~CS!Outdated(Settings(u), since, t)
  BY DEF CS!Outdated, Settings, AnswersKept
<1> QED
  BY <1>1 DEF CS!Lookup

LEMMA AnswerStored ==
    ASSUME AnswersKept, Undirected, NEW u \in Node, NEW held, StoreOK(u, held), NEW k \in Name,
           NEW t, NEW new \in CS!Stores(Settings(u), held, k, t)
    PROVE  DOMAIN new = DOMAIN held \cup {k}
<1> DEFINE set == Settings(u)
<1>1. /\ set.capacity = CacheSize /\ set.allowed = {} /\ ~(set.admit_threshold > 1)
  BY ParameterAssumption DEF Settings, Undirected, AnswersKept
<1>2. /\ IsFiniteSet(Name) /\ Cardinality(Name) \in Nat
      /\ CacheSize >= Cardinality(Name) /\ CacheSize \in Nat
  BY NetworkAssumption, ParameterAssumption, FS_CardinalityType DEF AnswersKept
<1>3. k \notin DOMAIN held => Cardinality(DOMAIN held) \in Nat /\ Cardinality(DOMAIN held) < Cardinality(Name)
  <2> SUFFICES ASSUME k \notin DOMAIN held
               PROVE  Cardinality(DOMAIN held) \in Nat /\ Cardinality(DOMAIN held) < Cardinality(Name)
    OBVIOUS
  <2>1. DOMAIN held \subseteq Name
    BY DEF StoreOK
  <2>2. /\ Cardinality(DOMAIN held) \in Nat /\ Cardinality(DOMAIN held) <= Cardinality(Name)
        /\ Cardinality(DOMAIN held) # Cardinality(Name)
    BY <1>2, <2>1, FS_Subset, FS_CardinalityType
  <2> QED
    BY <1>2, <2>2
<1>4. Cardinality(Name) > 0
  <2>1. Cardinality(Name) # 0
    BY <1>2, FS_EmptySet
  <2> QED
    BY <1>2, <2>1
<1>5. CS!Directed(set, k) /\ set.capacity # 0
  BY <1>1, <1>2, <1>4 DEF CS!Directed
<1>6. k \notin DOMAIN held => CS!Evicted(set, held) = {held}
  BY <1>1, <1>2, <1>3, SameSize DEF CS!Evicted
<1>7. new = CS!Storing(set, held, k, t)
  BY <1>1, <1>5, <1>6 DEF CS!Stores
<1> QED
  BY <1>7 DEF CS!Storing

(* Nothing is sent but Data.                                               *)
Quiet ==
    /\ stats'["interest_tx"] = stats["interest_tx"]
    /\ \A p \in q' : p \in q \/ p.kind # "interest"

LEMMA DataIsQuiet ==
    ASSUME NEW e, NEW packet, IsPacket(packet), packet.kind = "data",
           NEW hops, Sequenced(hops), NEW lost,
           NEW net, net.q = q \ {e}, net.stats \in [Counters -> Nat],
           net.stats["interest_tx"] = stats["interest_tx"],
           SetNet(Send(net, e, packet, hops, lost))
    PROVE  Quiet
<1> DEFINE out == Send(net, e, packet, hops, lost)
<1>1. q' = out.q /\ stats' = out.stats
  BY DEF SetNet
<1>2. PICK new, a : Adds(net, out, packet, hops, new, a)
  <2> HIDE DEF out
  <2>1. out = Send(net, e, packet, hops, lost)
    BY DEF out
  <2> QED
    BY <2>1, SendBooks
<1> HIDE DEF out
<1>3. packet.tx = "data_tx"
  BY DEF IsPacket
<1> QED
  BY <1>1, <1>2, <1>3 DEF Adds, Quiet

LEMMA AnswerIsQuiet ==
    ASSUME Links, NEW e \in q, NEW counter \in {"cache_hits", "producer_serves"},
           Answer(e, counter)
    PROVE  Quiet
<1> DEFINE s == Count(stats, counter)
<1>1. stats \in [Counters -> Nat]
  BY DEF Links
<1>2. s \in [Counters -> Nat] /\ s["interest_tx"] = stats["interest_tx"]
  BY <1>1, NotSent, OtherCounters
<1>3. CASE e.prev = Local
  <2> DEFINE t == Count(s, "completed_requests")
  <2>1. q' = q \ {e} /\ stats' = t
    BY <1>3 DEF Answer, Net, SetNet
  <2> HIDE DEF s
  <2>2. t["interest_tx"] = s["interest_tx"]
    BY <1>2, NotSent, OtherCounters
  <2> QED
    BY <1>2, <2>1, <2>2 DEF Quiet
<1>4. CASE e.prev # Local
  <2> DEFINE net == [Net(e) EXCEPT !.stats = Count(@, counter)]
             hops == <<e.prev>>
  <2>1. PICK verified \in Verdicts, lost \in Losses({e.prev}) :
              SetNet(Send(net, e, DataPacket(verified), hops, lost))
    BY <1>4 DEF Answer
  <2>2. net.q = q \ {e} /\ net.stats = s
    BY DEF Net
  <2>3. Sequenced(hops)
    BY OneHop
  <2> DEFINE packet == DataPacket(verified)
  <2>4. IsPacket(packet) /\ packet.kind = "data"
    BY Packets
  <2> HIDE DEF net, s, packet, hops
  <2>5. SetNet(Send(net, e, packet, hops, lost))
    BY <2>1 DEF packet
  <2> QED
    BY <1>2, <2>2, <2>3, <2>4, <2>5, DataIsQuiet
<1> QED
  BY <1>3, <1>4

LEMMA InterestIsQuiet ==
    ASSUME Links, NEW e \in q, Interest(e), ~Forward(e)
    PROVE  Quiet
<1>1. stats \in [Counters -> Nat]
  BY DEF Links
<1>2. Net(e).q = q \ {e} /\ Net(e).stats = stats
  BY DEF Net
<1>3. CASE OfResolved(e) \/ Aggregate(e)
  BY <1>2, <1>3 DEF OfResolved, Aggregate, SetNet, Quiet
<1>4. CASE CacheHit(e) \/ ProducerServe(e)
  BY <1>4, AnswerIsQuiet DEF CacheHit, ProducerServe
<1>5. CASE PitOverflow(e) \/ NoNextHop(e)
  <2> DEFINE s == Count(stats, "pit_overflow_drops")
  <2>1. /\ q' = q \ {e}
        /\ stats' = Count(s, "dropped_interests") \/ stats' = Count(stats, "dropped_interests")
    BY <1>2, <1>5 DEF PitOverflow, NoNextHop, Net, SetNet
  <2>2. s \in [Counters -> Nat] /\ s["interest_tx"] = stats["interest_tx"]
    BY <1>1, NotSent, OtherCounters
  <2> HIDE DEF s
  <2>3. stats'["interest_tx"] = stats["interest_tx"]
    BY <1>1, <2>1, <2>2, NotSent, OtherCounters
  <2> QED
    BY <2>1, <2>3 DEF Quiet
<1> QED
  BY <1>3, <1>4, <1>5 DEF Interest

LEMMA DataStepIsQuiet ==
    ASSUME Nodes, Links, NEW e \in q, PacketOK(e), Data(e)
    PROVE  Quiet
<1>1. stats \in [Counters -> Nat]
  BY DEF Links
<1>2. Net(e).q = q \ {e} /\ Net(e).stats = stats
  BY DEF Net
<1>3. CASE OfResolved(e)
  BY <1>2, <1>3 DEF OfResolved, SetNet, Quiet
<1>4. CASE DropUnverified(e) \/ Unsolicited(e)
  <2>1. /\ q' = q \ {e}
        /\ stats' \in {Count(stats, "verification_failures"), Count(stats, "completed_requests"),
                       Count(stats, "dropped_data")}
    BY <1>4 DEF DropUnverified, Unsolicited, SetNet, Net
  <2>2. stats'["interest_tx"] = stats["interest_tx"]
    BY <1>1, <2>1, NotSent, OtherCounters
  <2> QED
    BY <2>1, <2>2 DEF Quiet
<1>5. CASE Satisfy(e)
  <2> DEFINE faces == pit[e.at][NameOf(e)].faces
             packet == DataPacket(e.verified)
             net == Delivered(e, faces)
  <2>1. PICK order \in SetToSeqs(faces \ {Local}) :
          \E lost : SetNet(Send(net, e, packet, order, lost))
    BY <1>5 DEF Satisfy
  <2>2. PICK lost : SetNet(Send(net, e, packet, order, lost))
    BY <2>1
  <2>3. IsPacket(packet) /\ packet.kind = "data"
    BY Packets
  <2>4. faces \subseteq Face
    BY <1>5 DEF Satisfy, PacketOK, Nodes, TableOK
  <2>5. Sequenced(order)
    BY <2>4, FacesSequenced
  <2>6. /\ net.q = q \ {e} /\ net.stats \in [Counters -> Nat]
        /\ net.stats["interest_tx"] = stats["interest_tx"]
    <3>1. /\ net.q = q \ {e}
          /\ net.stats \in {stats, Count(stats, "completed_requests"), Count(stats, "dropped_data")}
      BY DEF Delivered, Net
    <3> QED
      BY <1>1, <3>1, NotSent, OtherCounters
  <2> HIDE DEF packet, net
  <2> QED
    BY <2>2, <2>3, <2>5, <2>6, DataIsQuiet
<1> QED
  BY <1>3, <1>4, <1>5 DEF Data

(* What a node forwards: one copy at most per link that leaves it, each to *)
(* arrive within a lifetime.                                               *)
LEMMA AwayFinite ==
    ASSUME NEW u
    PROVE  Away(u) \subseteq Directions /\ IsFiniteSet(Away(u)) /\ Cardinality(Away(u)) \in Nat
BY DirectionsFinite, FS_Subset, FS_CardinalityType DEF Away

LEMMA CopiesSent ==
    ASSUME QuickLinks, Links, NEW e, e.kind = "interest", e.t \in Nat, seq \in Nat,
           NEW hops, Sequenced(hops), \A i, j \in DOMAIN hops : hops[i] = hops[j] => i = j,
           NEW lost, NEW net, net.q = q \ {e}, net.seq = seq, net.stats = stats,
           NEW out, out = Send(net, e, InterestPacket, hops, lost)
    PROVE  /\ \A p \in out.q : p \in q \/ Copy(p, e)
           /\ \E a \in Nat : /\ a <= Cardinality(Away(e.at))
                             /\ out.stats["interest_tx"] = stats["interest_tx"] + a
<1> DEFINE packet == InterestPacket
           crossing == [i \in DOMAIN hops |-> Crossing(e, packet, hops[i], lost)]
           accepted == {i \in DOMAIN hops : crossing[i].ok}
           refused == DOMAIN hops \ accepted
           unlucky == {i \in refused : crossing[i].reason = "random_loss"}
           turn(i) == Cardinality({j \in accepted : j < i})
           sent(i) == PacketEvent(crossing[i].arrival, seq + turn(i), e, hops[i], packet)
           way == [i \in accepted |-> <<e.at, hops[i]>>]
           a == Cardinality(accepted)
<1>1. IsFiniteSet(accepted) /\ a \in Nat /\ accepted \subseteq Nat
  <2>1. accepted \subseteq DOMAIN hops
    OBVIOUS
  <2> HIDE DEF accepted
  <2> QED
    BY <2>1, FS_Subset, FS_CardinalityType DEF Sequenced
<1>2. \A i \in accepted : Crossing(e, packet, hops[i], lost).ok
                          /\ crossing[i].arrival = Crossing(e, packet, hops[i], lost).arrival
  OBVIOUS
<1>3. \A i \in accepted : /\ <<e.at, hops[i]>> \in Directions
                          /\ crossing[i].arrival \in Nat /\ e.t <= crossing[i].arrival
                          /\ crossing[i].arrival < e.t + Lifetime
  <2> HIDE DEF crossing, accepted, packet
  <2> QED
    BY <1>2, Accepted, ArrivesSoon, Packets DEF packet
<1>4. a <= Cardinality(Away(e.at))
  <2> HIDE DEF accepted
  <2>1. way \in [accepted -> Away(e.at)]
    BY <1>3 DEF Away
  <2>2. accepted \subseteq DOMAIN hops
    BY DEF accepted
  <2>3. \A i, j \in accepted : way[i] = way[j] => i = j
    BY <2>2
  <2> HIDE DEF way
  <2>4. way \in Injection(accepted, Away(e.at))
    BY <2>1, <2>3, Zenon DEF Injection, IsInjective
  <2> QED
    BY <1>1, <2>4, AwayFinite, FS_Injection
<1>5. \A i \in accepted : turn(i) \in Nat
  <2> HIDE DEF accepted
  <2>1. \A i \in accepted : {j \in accepted : j < i} \subseteq accepted
    OBVIOUS
  <2> QED
    BY <1>1, <2>1, FS_Subset, FS_CardinalityType
<1>6. \A i \in accepted : Copy(sent(i), e)
  <2> SUFFICES ASSUME NEW i \in accepted PROVE Copy(sent(i), e)
    OBVIOUS
  <2> HIDE DEF crossing, accepted, turn
  <2>1. /\ sent(i).t = crossing[i].arrival /\ sent(i).seq = seq + turn(i)
        /\ sent(i).req = e.req
    BY DEF PacketEvent, InterestEvent, InterestPacket
  <2>2. PICK n \in Nat : n = turn(i)
    BY <1>5
  <2>3. sent(i).seq \in Nat /\ seq <= sent(i).seq
    <3>1. sent(i).seq = seq + n
      BY <2>1, <2>2
    <3> HIDE DEF sent
    <3> QED
      BY <3>1
  <2>4. /\ sent(i).t \in Nat /\ e.t <= sent(i).t /\ sent(i).t < e.t + Lifetime
    BY <1>3, <2>1
  <2> HIDE DEF sent
  <2> QED
    BY <2>1, <2>3, <2>4 DEF Copy
<1>7. /\ out.q = (q \ {e}) \cup {sent(i) : i \in accepted}
      /\ out.stats = [stats EXCEPT !["interest_tx"] = @ + a,
                                   !["dropped_interests"] = @ + Cardinality(refused),
                                   !["random_loss_drops"] = @ + Cardinality(unlucky),
                                   !["queue_drops"] = @ + Cardinality(refused \ unlucky)]
  BY DEF Send, InterestPacket
<1> HIDE DEF a, accepted, sent, refused, unlucky
<1>8. out.stats["interest_tx"] = stats["interest_tx"] + a
  BY <1>7 DEF Links, Counters
<1>9. \A p \in out.q : p \in q \/ Copy(p, e)
  BY <1>6, <1>7
<1>10. a \in Nat /\ a <= Cardinality(Away(e.at))
  BY <1>1, <1>4 DEF a
<1> QED
  BY <1>8, <1>9, <1>10

(* A FIB entry names no node twice, and nor do the hops taken from it.     *)
Distinct(hops) == \A i, j \in DOMAIN hops : hops[i] = hops[j] => i = j

LEMMA DistinctHops ==
    ASSUME fib \in Fibs, NEW e, e.at \in Node, NEW hops \in NextHopChoices(e.at, NameOf(e))
    PROVE  Distinct(Onward(hops, e))
<1> DEFINE u == e.at
           name == NameOf(e)
           entry == IF OwnerOf[name] \in DOMAIN fib[u] THEN fib[u][OwnerOf[name]] ELSE <<>>
           usable == ActiveHops(entry, u)
<1>1. Distinct(entry)
  <2>1. PICK f \in Forwarding, up \in SUBSET Link : fib = RoutesOf[f][up]
    BY DEF Fibs
  <2>2. CASE OwnerOf[name] \in DOMAIN fib[u]
    BY <2>1, <2>2, FibAssumption DEF Distinct
  <2>3. CASE OwnerOf[name] \notin DOMAIN fib[u]
    BY <2>3 DEF Distinct
  <2> QED
    BY <2>2, <2>3
<1>2. \A way, S : Distinct(way) /\ S \subseteq DOMAIN way => Distinct(Restrict(way, S))
  BY DEF Distinct, Restrict
<1>3. Distinct(usable)
  <2> HIDE DEF entry
  <2> QED
    BY <1>1, <1>2 DEF ActiveHops
<1>4. hops = <<>> \/ hops = usable \/ \E v : hops = <<v>>
  <2> HIDE DEF usable
  <2> QED
    BY DEF NextHopChoices, usable
<1>5. Distinct(<<>>) /\ \A v : Distinct(<<v>>)
  BY OneHop DEF Distinct
<1> HIDE DEF usable
<1>6. Distinct(hops)
  BY <1>3, <1>4, <1>5
<1> QED
  BY <1>2, <1>6 DEF Onward

(* Purging forgets what has expired and nothing else; an answer that       *)
(* satisfies an entry stays in the store.                                  *)
LEMMA InterestRemembers ==
    ASSUME AnswersKept, Nodes, NEW e, e.at \in Node, e.t \in Nat, Interest(e)
    PROVE  Memory(e.t)
<1> DEFINE u == e.at
           table == Purged(u, e.t)
           name == NameOf(e)
<1>1. \A k \in DOMAIN pit[u] : pit[u][k].expiry \in Nat
  BY DEF Nodes, TableOK
<1>2. \A k \in DOMAIN pit[u] : pit[u][k].expiry > e.t =>
         k \in DOMAIN table /\ table[k] = pit[u][k]
  BY DEF Purged, Restrict
<1>3. \A k \in DOMAIN table : k \in DOMAIN pit[u] /\ table[k] = pit[u][k]
  BY DEF Purged, Restrict
<1>4. Found(e).held = cs[u]
  BY NothingOutdated DEF Found
<1> HIDE DEF table
<1>5. ASSUME NEW new, pit' = [pit EXCEPT ![u] = new], cs' = [cs EXCEPT ![u] = Found(e).held],
             \A k \in DOMAIN table : /\ k \in DOMAIN new /\ new[k].expiry \in Nat
                                     /\ new[k].expiry >= table[k].expiry
      PROVE  Memory(e.t)
  <2>1. pit'[u] = new /\ \A n \in Node \ {u} : pit'[n] = pit[n]
    BY <1>5 DEF Nodes
  <2>2. cs'[u] = cs[u] /\ \A n \in Node \ {u} : cs'[n] = cs[n]
    BY <1>4, <1>5 DEF Nodes
  <2>3. \A k \in DOMAIN pit[u] : pit[u][k].expiry > e.t =>
           /\ k \in DOMAIN pit'[u] /\ pit'[u][k].expiry \in Nat
           /\ pit'[u][k].expiry >= pit[u][k].expiry
    BY <1>2, <1>5, <2>1
  <2> QED
    BY <2>1, <2>2, <2>3, MemoryAt
<1>6. CASE OfResolved(e)
  <2>1. UNCHANGED <<pit, cs>>
    BY <1>6 DEF OfResolved
  <2>2. \A k \in DOMAIN pit[u] : pit[u][k].expiry >= pit[u][k].expiry
    BY <1>1
  <2> QED
    BY <1>1, <2>1, <2>2, MemoryAt
<1>7. \A k \in DOMAIN table : table[k].expiry \in Nat /\ table[k].expiry >= table[k].expiry
  BY <1>1, <1>3
<1>8. ASSUME cs' = [cs EXCEPT ![u] = Found(e).held],
             CacheHit(e) \/ ProducerServe(e) \/ PitOverflow(e) \/ NoNextHop(e)
      PROVE  Memory(e.t)
  <2>1. pit' = [pit EXCEPT ![u] = table]
    BY <1>8 DEF CacheHit, ProducerServe, PitOverflow, NoNextHop, table
  <2> QED
    BY <1>5, <1>7, <1>8, <2>1
<1>9. ASSUME cs' = [cs EXCEPT ![u] = Found(e).held], Aggregate(e)
      PROVE  Memory(e.t)
  <2> DEFINE new == [table EXCEPT ![name] = Refreshed(@, e)]
  <2>1. pit' = [pit EXCEPT ![u] = new]
    BY <1>9 DEF Aggregate, table
  <2>2. \A k \in DOMAIN table : /\ k \in DOMAIN new /\ new[k].expiry \in Nat
                                /\ new[k].expiry >= table[k].expiry
    <3> SUFFICES ASSUME NEW k \in DOMAIN table
                 PROVE  /\ k \in DOMAIN new /\ new[k].expiry \in Nat
                        /\ new[k].expiry >= table[k].expiry
      OBVIOUS
    <3>1. CASE k = name
      <4>1. new[k].expiry = LaterOf(table[k].expiry, e.t + Lifetime) /\ k \in DOMAIN new
        BY <3>1 DEF Refreshed
      <4>2. Lifetime \in Nat /\ table[k].expiry \in Nat
        BY <1>7, ParameterAssumption
      <4> QED
        BY <4>1, <4>2 DEF LaterOf
    <3>2. CASE k # name
      BY <1>7, <3>2
    <3> QED
      BY <3>1, <3>2
  <2> HIDE DEF new
  <2> QED
    BY <1>5, <1>9, <2>1, <2>2
<1>10. ASSUME cs' = [cs EXCEPT ![u] = Found(e).held], Forward(e)
       PROVE  Memory(e.t)
  <2> DEFINE new == Inserted(table, e)
  <2>1. pit' = [pit EXCEPT ![u] = new] /\ name \notin DOMAIN table
    BY <1>10 DEF Forward, table, Pending
  <2>2. \A k \in DOMAIN table : k \in DOMAIN new /\ new[k] = table[k]
    BY <2>1 DEF Inserted
  <2> HIDE DEF new
  <2> QED
    BY <1>5, <1>7, <1>10, <2>1, <2>2
<1> QED
  BY <1>6, <1>8, <1>9, <1>10 DEF Interest

LEMMA DataRemembers ==
    ASSUME AnswersKept, Undirected, Nodes, NEW e, PacketOK(e), Data(e)
    PROVE  Memory(e.t)
<1> DEFINE u == e.at
           name == NameOf(e)
<1>1. u \in Node /\ name \in Name
  BY DEF PacketOK, Request, NameOf
<1>2. \A k \in DOMAIN pit[u] : pit[u][k].expiry \in Nat /\ pit[u][k].expiry >= pit[u][k].expiry
  <2>1. \A k \in DOMAIN pit[u] : pit[u][k].expiry \in Nat
    BY <1>1 DEF Nodes, TableOK
  <2> QED
    BY <2>1
<1>3. CASE UNCHANGED <<pit, cs>>
  BY <1>1, <1>2, <1>3, MemoryAt
<1>4. ASSUME NEW held \in CS!Stores(Settings(u), cs[u], name, e.t),
             cs' = [cs EXCEPT ![u] = held], Satisfy(e) \/ Unsolicited(e)
      PROVE  Memory(e.t)
  <2>1. StoreOK(u, cs[u])
    BY <1>1 DEF Nodes
  <2>2. DOMAIN held = DOMAIN cs[u] \cup {name}
    <3> DEFINE old == cs[u]
    <3>1. StoreOK(u, old) /\ held \in CS!Stores(Settings(u), old, name, e.t)
      BY <1>4, <2>1
    <3> HIDE DEF u, name, old
    <3>2. DOMAIN held = DOMAIN old \cup {name}
      BY <1>1, <3>1, AnswerStored
    <3> QED
      BY <3>2 DEF old
  <2>3. cs'[u] = held /\ \A n \in Node \ {u} : cs'[n] = cs[n]
    BY <1>1, <1>4 DEF Nodes
  <2>4. pit' = pit \/ pit' = [pit EXCEPT ![u] = PitPopped(u, name)]
    BY <1>4 DEF Satisfy, Unsolicited
  <2>5. \A n \in Node \ {u} : pit'[n] = pit[n]
    BY <1>1, <2>4 DEF Nodes
  <2>6. \A k \in DOMAIN pit[u] : k = name \/ (k \in DOMAIN pit'[u] /\ pit'[u][k] = pit[u][k])
    BY <1>1, <2>4 DEF Nodes, PitPopped, Restrict
  <2> QED
    BY <1>1, <1>2, <2>2, <2>3, <2>5, <2>6, MemoryAt
<1>5. CASE OfResolved(e) \/ DropUnverified(e)
  BY <1>3, <1>5 DEF OfResolved, DropUnverified
<1> QED
  BY <1>4, <1>5 DEF Data

-----------------------------------------------------------------------------
(* Forwarding spends the credits of its request at its node.               *)
LEMMA ForwardSpends ==
    ASSUME AnswersKept, QuickLinks, IInv, Paced, Spent, NEW e \in q, Interest(e),
           ~rs[e.req].completed, Forward(e)
    PROVE  Spent' /\ \A p \in q' : p \in q \/ Copy(p, e)
<1> DEFINE u == e.at
           r == e.req
           A == {r} \X Away(u)
<1>0. PICK name : name = NameOf(e)
  OBVIOUS
<1>1. /\ e.kind = "interest" /\ First(e) /\ now' = e.t /\ UNCHANGED <<requests, fib>>
      /\ cs' = [cs EXCEPT ![u] = Found(e).held]
  BY PoppedFirst DEF Interest, control, Forward, OfResolved
<1>2. /\ PacketOK(e) /\ e.t \in Nat /\ now \in Nat /\ now <= e.t /\ seq \in Nat
      /\ r \in DOMAIN requests /\ u \in Node /\ name = requests[r].name
  BY <1>0, <1>1 DEF IInv, Ordered, EventOK, PacketOK, NameOf
<1>3. Lifetime \in Nat
  BY ParameterAssumption
<1>4. Memory(e.t)
  BY <1>1, <1>2, InterestRemembers DEF IInv
<1>5. Effect(e)
  BY PacketStep
<1>6. Silent
  <2>1. rs' = rs
    BY DEF Forward
  <2> QED
    BY <1>2, <1>5, <2>1 DEF Effect, Answered, IInv, Requesting, RequestState
<1>7. Timeouts' = Timeouts
  BY <1>1, <1>5, PacketsOnly DEF Effect
<1>8. Credit' \subseteq Credit
  <2>1. Settles
    BY <1>2, <1>5, EffectSettles DEF IInv
  <2> QED
    BY <1>1, <1>2, <1>4, <1>7, <2>1, CreditsFall DEF IInv
<1>9. PICK o \in Timeouts : o.req = r
  BY <1>2 DEF Paced
<1>10. o \in q /\ o.t \in Nat /\ o.seq \in Nat /\ e.seq \in Nat /\ o.kind = "timeout"
  BY DEF Timeouts, OfKind, IInv, Ordered, EventOK
<1>11. e.t < o.t /\ o.t <= e.t + Lifetime
  <2>1. Pace(e, o, now)
    BY <1>1, <1>9 DEF Paced, Asks
  <2>2. Before(e, o)
    BY <1>1, <1>10 DEF First
  <2> QED
    BY <1>2, <1>10, <2>1, <2>2 DEF Pace, Before
<1>12. Credited(r, u)
  <2>1. name \notin DOMAIN cs[u]
    <3>1. ~Found(e).hit
      BY DEF Forward, Miss
    <3> QED
      BY <1>0, <3>1, NothingOutdated DEF Found
  <2>2. ~Kept(u, name, o.t)
    <3> SUFFICES ASSUME Kept(u, name, o.t) PROVE FALSE
      OBVIOUS
    <3>1. pit[u][name].expiry \in Nat
      BY <1>2 DEF Kept, IInv, Nodes, TableOK
    <3>2. name \in DOMAIN pit[u] /\ pit[u][name].expiry > e.t
      BY <1>2, <1>10, <1>11, <3>1 DEF Kept
    <3> QED
      BY <1>0, <3>2 DEF Forward, Pending, Purged, Restrict
  <2>3. o.t > now
    BY <1>2, <1>10, <1>11
  <2> QED
    BY <1>2, <1>9, <2>1, <2>2, <2>3 DEF Credited
<1>13. A \subseteq Credit
  BY <1>2, <1>12 DEF Credit, Away
<1>14. Credit' \cap A = {}
  <2> SUFFICES ASSUME NEW c \in Credit', c \in A PROVE FALSE
    OBVIOUS
  <2>1. Credited(r, u)'
    BY <1>1 DEF Credit, Away, Credited
  <2>2. PICK p \in Timeouts' : p.req = r /\ p.t > now' /\ ~Kept(u, name, p.t)'
    <3>1. requests'[r].name = name
      BY <1>1, <1>2
    <3> HIDE DEF u, r
    <3> QED
      BY <2>1, <3>1 DEF Credited, Kept
  <2>3. p = o
    BY <1>7, <1>9, <2>2 DEF IInv, Requesting
  <2>4. pit'[u] = Inserted(Purged(u, e.t), e)
    BY <1>2 DEF Forward, IInv, Nodes
  <2>5. name \in DOMAIN pit'[u] /\ pit'[u][name].expiry = e.t + Lifetime
    BY <1>0, <2>4 DEF Inserted
  <2>6. ~Kept(u, name, o.t)'
    BY <2>2, <2>3
  <2>7. pit'[u][name].expiry >= o.t
    BY <1>2, <1>3, <1>10, <1>11, <2>5
  <2> QED
    BY <2>5, <2>6, <2>7 DEF Kept
<1>15. IsFiniteSet(A) /\ Cardinality(A) = Cardinality(Away(u))
  <2>1. IsFiniteSet({r}) /\ Cardinality({r}) = 1 /\ IsFiniteSet(Away(u)) /\ Cardinality(Away(u)) \in Nat
    BY FS_Singleton, AwayFinite
  <2>2. IsFiniteSet(A) /\ Cardinality(A) = Cardinality({r}) * Cardinality(Away(u))
    BY <2>1, FS_Product
  <2> QED
    BY <2>1, <2>2
<1>16. /\ Cardinality(Credit') \in Nat /\ Cardinality(Credit) \in Nat
       /\ Cardinality(Credit') + Cardinality(Away(u)) <= Cardinality(Credit)
  <2>1. IsFiniteSet({}) /\ Cardinality({}) = 0 /\ IsFiniteSet(Credit)
    BY FS_EmptySet, CreditFinite DEF IInv
  <2>2. Credit' \subseteq (Credit \ A) \cup {}
    BY <1>8, <1>14
  <2> HIDE DEF A
  <2>3. /\ Cardinality(Credit') \in Nat /\ Cardinality(Credit) \in Nat /\ Cardinality(A) \in Nat
        /\ Cardinality(Credit') + Cardinality(A) <= Cardinality(Credit) + Cardinality({})
    BY <1>13, <2>1, <2>2, Exchanged
  <2> QED
    BY <1>15, <2>1, <2>3
<1>17. PICK hops \in NextHopChoices(u, NameOf(e)) :
          \E lost : SetNet(Send(Net(e), e, InterestPacket, Onward(hops, e), lost))
  BY DEF Forward
<1>17a. PICK lost : SetNet(Send(Net(e), e, InterestPacket, Onward(hops, e), lost))
  BY <1>17
<1> DEFINE net == Net(e)
           way == Onward(hops, e)
           out == Send(net, e, InterestPacket, way, lost)
<1>18. net.q = q \ {e} /\ net.seq = seq /\ net.stats = stats
  BY DEF Net
<1>19. Sequenced(way) /\ Distinct(way)
  BY <1>2, HopsSequenced, OnwardSequenced, DistinctHops DEF IInv, Routed
<1>20. q' = out.q /\ stats' = out.stats
  BY <1>17a DEF SetNet
<1> HIDE DEF net, way
<1>21. /\ \A p \in out.q : p \in q \/ Copy(p, e)
       /\ \E a \in Nat : /\ a <= Cardinality(Away(e.at))
                         /\ out.stats["interest_tx"] = stats["interest_tx"] + a
  BY <1>1, <1>2, <1>18, <1>19, CopiesSent DEF Distinct, IInv
<1> HIDE DEF out
<1>22. PICK a \in Nat : /\ a <= Cardinality(Away(u))
                       /\ stats'["interest_tx"] = stats["interest_tx"] + a
  BY <1>20, <1>21
<1>23. Spent'
  <2>1. stats["interest_tx"] \in Nat /\ stats'["retransmissions"] = stats["retransmissions"]
    BY <1>6 DEF IInv, Links, Counters, Silent, Tallies
  <2>2. Issues' = Issues /\ Directions' = Directions
    BY <1>1, <2>1 DEF Issues, Directions
  <2>3. Issues * Cardinality(Directions) \in Nat
    BY IssuesCounted DEF IInv
  <2>4. Cardinality(Away(u)) \in Nat
    BY AwayFinite
  <2> HIDE DEF u
  <2> QED
    BY <1>16, <1>22, <2>1, <2>2, <2>3, <2>4 DEF Spent
<1> QED
  BY <1>20, <1>21, <1>23

(* The steps of the engine.                                                *)
LEMMA PacketPays ==
    ASSUME AnswersKept, QuickLinks, IInv, Paced, Undirected, Spent,
           NEW e \in q, Interest(e) \/ Data(e)
    PROVE  Paced' /\ Undirected' /\ Spent'
<1>1. /\ e.kind \in {"interest", "data"} /\ now' = e.t /\ UNCHANGED <<requests, allowed>>
      /\ Interest(e) => e.kind = "interest"
  BY PoppedFirst DEF Interest, Data, control
<1>2. /\ PacketOK(e) /\ e.at \in Node /\ e.req \in DOMAIN requests
      /\ e.t \in Nat /\ now \in Nat /\ now <= e.t
  BY <1>1 DEF IInv, Ordered, EventOK, PacketOK
<1>3. Effect(e)
  BY PacketStep
<1>4. Timeouts' = Timeouts
  BY <1>1, <1>3, PacketsOnly DEF Effect
<1>5. Settles
  BY <1>2, <1>3, EffectSettles DEF IInv
<1>6. Memory(e.t)
  BY <1>2, InterestRemembers, DataRemembers DEF IInv
<1>7. Credit' \subseteq Credit
  BY <1>1, <1>2, <1>4, <1>5, <1>6, CreditsFall DEF IInv
<1>8. stats'["retransmissions"] = stats["retransmissions"]
  BY <1>3 DEF Effect, Silent, Answered, Tallies
<1>9. /\ Spent' 
      /\ \A p \in q' : p \in q \/ (p.kind = "interest" => Copy(p, e))
  <2>1. CASE Quiet
    <3>1. Spent'
      BY <1>1, <1>7, <1>8, <2>1, SpentKept DEF Quiet, IInv
    <3> QED
      BY <2>1, <3>1 DEF Quiet
  <2>2. CASE Interest(e) /\ rs[e.req].completed
    <3>1. q' = q \ {e} /\ stats' = stats
      BY <2>2 DEF Interest, OfResolved, SetNet, Net
    <3> QED
      BY <2>1, <3>1 DEF Quiet
  <2>3. CASE Interest(e) /\ ~rs[e.req].completed /\ Forward(e)
    BY <2>3, ForwardSpends
  <2>4. CASE Interest(e) /\ ~Forward(e)
    BY <2>1, <2>4, InterestIsQuiet DEF IInv
  <2>5. CASE Data(e)
    BY <1>2, <2>1, <2>5, DataStepIsQuiet DEF IInv
  <2> QED
    BY <2>2, <2>3, <2>4, <2>5
<1>10. Paced'
  BY <1>1, <1>4, <1>5, <1>9, PaceKept DEF IInv
<1>11. Undirected'
  BY <1>1 DEF Undirected
<1> QED
  BY <1>9, <1>10, <1>11

LEMMA ControlPays ==
    ASSUME IInv, Paced, Undirected, Spent, NEW e \in q, Toggle(e) \/ FibApply(e)
    PROVE  Paced' /\ Undirected' /\ Spent'
<1>1. /\ now' = e.t /\ UNCHANGED <<requests, rs, allowed, pit, cs, stats>>
      /\ e.kind \in {"toggle", "fib_apply"}
  BY DEF Toggle, FibApply, consumers, Popped
<1>2. q' = q \ {e} \/ \E p : p.kind = "fib_apply" /\ q' = (q \ {e}) \cup {p}
  BY DEF Toggle, FibApply, PushFibs, RebuildFibs, ApplyEvent
<1>3. Timeouts' = Timeouts
  BY <1>1, <1>2 DEF Timeouts, OfKind
<1>4. Settles
  BY <1>1 DEF Settles
<1>5. e.t \in Nat /\ now \in Nat /\ now <= e.t
  BY DEF IInv, Ordered, EventOK
<1>6. Memory(e.t)
  <2>1. \A u \in Node : \A k \in DOMAIN pit[u] :
           pit[u][k].expiry \in Nat /\ pit[u][k].expiry >= pit[u][k].expiry
    <3>1. \A u \in Node : \A k \in DOMAIN pit[u] : pit[u][k].expiry \in Nat
      BY DEF IInv, Nodes, TableOK
    <3> QED
      BY <3>1
  <2> QED
    BY <1>1, <2>1 DEF Memory
<1>7. Credit' \subseteq Credit
  BY <1>1, <1>3, <1>4, <1>5, <1>6, CreditsFall DEF IInv
<1>8. Spent'
  BY <1>1, <1>7, SpentKept DEF IInv
<1>9. \A p \in q' : p \in q \/ (p.kind = "interest" => Copy(p, e))
  BY <1>2
<1>10. Paced'
  BY <1>1, <1>3, <1>4, <1>9, PaceKept DEF IInv
<1> QED
  BY <1>1, <1>8, <1>10 DEF Undirected

(* A retransmission is one more issue of its request, and one more credit  *)
(* on every link each way.                                                 *)
LEMMA TimeoutPays ==
    ASSUME QuickLinks, IInv, Paced, Undirected, Spent, NEW e \in q, Timeout(e)
    PROVE  Paced' /\ Undirected' /\ Spent'
<1> DEFINE r == e.req
           N == {r} \X Directions
<1>1. /\ now' = e.t /\ UNCHANGED <<requests, allowed, pit, cs>> /\ e.kind = "timeout"
  BY PoppedFirst DEF Timeout, control
<1>2. Paced'
  BY TimeoutPaced
<1>3. /\ r \in DOMAIN requests /\ e.t \in Nat /\ now \in Nat /\ now <= e.t
  BY <1>1 DEF IInv, Ordered, EventOK
<1>4. \A u \in Node : \A k \in DOMAIN pit[u] :
         pit[u][k].expiry \in Nat /\ pit[u][k].expiry >= pit[u][k].expiry
  <2>1. \A u \in Node : \A k \in DOMAIN pit[u] : pit[u][k].expiry \in Nat
    BY DEF IInv, Nodes, TableOK
  <2> QED
    BY <2>1
<1>5. Memory(e.t)
  BY <1>1, <1>4 DEF Memory
<1>6. stats \in [Counters -> Nat] /\ rs \in [DOMAIN requests -> RequestState]
  BY DEF IInv, Links, Requesting
<1>7. CASE StaleTimeout(e) \/ GiveUp(e)
  <2>1. /\ q' = q \ {e}
        /\ rs' = rs \/ rs' = [rs EXCEPT ![r].completed = TRUE]
        /\ stats' = stats \/ stats' = Count(stats, "timed_out_requests")
    BY <1>7 DEF StaleTimeout, GiveUp, Count
  <2>2. Settles
    BY <1>6, <2>1 DEF Settles, RequestState
  <2>3. Timeouts' \subseteq Timeouts
    BY <2>1 DEF Timeouts, OfKind
  <2>4. Credit' \subseteq Credit
    BY <1>1, <1>3, <1>5, <2>2, <2>3, CreditsFall DEF IInv
  <2>5. /\ stats'["interest_tx"] = stats["interest_tx"]
        /\ stats'["retransmissions"] = stats["retransmissions"]
    BY <1>6, <2>1 DEF Count, Counters, Tallies
  <2> QED
    BY <1>1, <1>2, <2>4, <2>5, SpentKept DEF IInv, Undirected
<1>8. CASE Retransmit(e)
  <2>1. stats' = [stats EXCEPT !["retransmissions"] = @ + 1] /\ q' = (q \ {e}) \cup Reissued(e)
    BY <1>8 DEF Retransmit
  <2>2. /\ stats'["interest_tx"] = stats["interest_tx"]
        /\ stats'["retransmissions"] = stats["retransmissions"] + 1
    BY <1>6, <2>1 DEF Counters, Tallies
  <2>3. \A o \in Timeouts' : o \in Timeouts \/ o.req = r
    BY <2>1 DEF Reissued, InterestEvent, TimeoutEvent, Timeouts, OfKind
  <2>4. \A s \in DOMAIN requests \ {r} : rs'[s] = rs[s]
    BY <1>6, <1>8 DEF Retransmit
  <2>5. ASSUME NEW s \in DOMAIN requests, s # r, NEW u \in Node, Credited(s, u)'
        PROVE  Credited(s, u)
    <3>1. PICK o \in Timeouts' : o.req = s /\ o.t > now' /\ ~Kept(u, requests[s].name, o.t)'
      BY <1>1, <2>5 DEF Credited, Kept
    <3>2. o \in Timeouts /\ o.t \in Nat
      BY <2>3, <2>5, <3>1 DEF Timeouts, OfKind, IInv, Ordered, EventOK
    <3>3. o.t > now /\ ~Kept(u, requests[s].name, o.t)
      BY <1>1, <1>3, <3>1, <3>2 DEF Kept
    <3> QED
      BY <1>1, <2>4, <2>5, <3>1, <3>2, <3>3 DEF Credited
  <2>6. Credit' \subseteq (Credit \ {}) \cup N
    <3> SUFFICES ASSUME NEW c \in Credit', c \notin N PROVE c \in Credit
      OBVIOUS
    <3>1. /\ c \in (DOMAIN requests) \X Directions /\ Credited(c[1], c[2][1])'
      BY <1>1 DEF Credit, Directions, Credited
    <3>2. c[1] # r /\ c[1] \in DOMAIN requests /\ c[2][1] \in Node
      BY <3>1 DEF Directions
    <3>3. Credited(c[1], c[2][1])
      BY <2>5, <3>1, <3>2
    <3> QED
      BY <3>1, <3>3 DEF Credit
  <2>7. PICK d \in Nat : d = Cardinality(Directions)
    BY DirectionsFinite
  <2>8. IsFiniteSet(N) /\ Cardinality(N) = d
    <3>1. IsFiniteSet({r}) /\ Cardinality({r}) = 1
      BY FS_Singleton
    <3>2. IsFiniteSet(N) /\ Cardinality(N) = 1 * d
      BY <2>7, <3>1, DirectionsFinite, FS_Product
    <3> QED
      BY <3>2
  <2>9. /\ Cardinality(Credit') \in Nat /\ Cardinality(Credit) \in Nat
        /\ Cardinality(Credit') <= Cardinality(Credit) + d
    <3>1. IsFiniteSet({}) /\ Cardinality({}) = 0 /\ IsFiniteSet(Credit)
      BY FS_EmptySet, CreditFinite DEF IInv
    <3> HIDE DEF N
    <3>2. /\ Cardinality(Credit') \in Nat /\ Cardinality(Credit) \in Nat
          /\ Cardinality(Credit') + Cardinality({}) <= Cardinality(Credit) + Cardinality(N)
      BY <2>6, <3>1, <2>8, Exchanged
    <3> QED
      BY <2>8, <3>1, <3>2
  <2>10. Issues' = Issues + 1 /\ Issues \in Nat /\ Directions' = Directions
    <3>1. Issues \in Nat /\ Len(requests) \in Nat /\ stats["retransmissions"] \in Nat
      BY <1>6, IssuesCounted, RequestsFinite DEF IInv, Counters, Tallies
    <3> QED
      BY <1>1, <2>2, <3>1 DEF Issues, Directions
  <2>11. PICK i \in Nat : i = Issues
    BY <2>10
  <2>12. (i + 1) * d = i * d + d /\ i * d \in Nat
    OBVIOUS
  <2>13. stats["interest_tx"] \in Nat /\ stats["interest_tx"] + Cardinality(Credit) <= i * d
    BY <1>6, <2>7, <2>11 DEF Spent, Counters
  <2>14. stats'["interest_tx"] + Cardinality(Credit') <= (i + 1) * d
    BY <2>2, <2>9, <2>12, <2>13
  <2>15. Spent'
    BY <2>7, <2>10, <2>11, <2>14 DEF Spent
  <2> QED
    BY <1>1, <1>2, <2>15 DEF Undirected
<1> QED
  BY <1>7, <1>8 DEF Timeout

LEMMA InitPaid == Init /\ AnswersKept /\ QuickLinks => Paced /\ Undirected /\ Spent
<1> SUFFICES ASSUME Init, AnswersKept, QuickLinks PROVE Paced /\ Undirected /\ Spent
  OBVIOUS
<1>1. IInv
  BY InitIInv
<1>2. PICK failures \in Schedules : q = InitialEvents(requests, failures)
  BY DEF Init
<1> DEFINE ask(r) == InterestEvent(requests[r].start_ms, 2 * r - 2, r, requests[r].consumer, Local)
           timer(r) == TimeoutEvent(requests[r].start_ms + Lifetime, 2 * r - 1, r, 0)
<1>3. /\ \A r \in DOMAIN requests : timer(r) \in Timeouts /\ timer(r).req = r /\ timer(r).attempt = 0
      /\ \A o \in Timeouts : o.req \in DOMAIN requests /\ o.t = requests[o.req].start_ms + Lifetime
      /\ \A p \in q : p.kind = "interest" => p.t = requests[p.req].start_ms
  BY <1>2 DEF InitialEvents, InterestEvent, TimeoutEvent, ToggleEvent, Timeouts, OfKind
<1>4. \A r \in DOMAIN requests : requests[r].start_ms \in Nat
  <2> DEFINE S == Request
  <2>1. requests \in Seq(S) /\ \A x \in S : x.start_ms \in Nat
    BY <1>1 DEF IInv, Requesting, Request
  <2> HIDE DEF S
  <2> QED
    BY <2>1
<1>4a. \A r \in DOMAIN requests : rs[r].current_attempt = 0
  BY DEF Init
<1>5. now = 0 /\ Lifetime \in Nat /\ Lifetime > 0
  BY QuickMeansLater, ParameterAssumption DEF Init
<1>6. Paced
  <2>1. ASSUME NEW o \in Timeouts, NEW p \in q, Asks(p, o) PROVE Pace(p, o, now)
    <3>1. /\ p.t = requests[o.req].start_ms /\ o.t = requests[o.req].start_ms + Lifetime
          /\ requests[o.req].start_ms \in Nat
      BY <1>3, <1>4, <2>1 DEF Asks
    <3> QED
      BY <1>5, <3>1 DEF Pace
  <2> HIDE DEF timer
  <2> QED
    BY <1>3, <1>4a, <2>1 DEF Paced
<1>7. Undirected
  BY DEF Init, Undirected, CacheDirectives, AnswersKept
<1>8. Spent
  <2>1. stats["interest_tx"] = 0 /\ stats["retransmissions"] = 0
    BY DEF Init, ZeroStats
  <2>2. Len(requests) \in Nat /\ Issues = Len(requests)
    BY <1>1, <2>1, RequestsFinite DEF IInv, Issues
  <2> DEFINE all == (DOMAIN requests) \X Directions
  <2>3. IsFiniteSet(all) /\ Cardinality(all) = Len(requests) * Cardinality(Directions)
    BY <1>1, RequestsFinite, DirectionsFinite, FS_Product DEF IInv
  <2>4. Credit \subseteq all
    BY DEF Credit
  <2> HIDE DEF all
  <2>5. Cardinality(Credit) \in Nat /\ Cardinality(Credit) <= Cardinality(all)
    BY <2>3, <2>4, FS_Subset, FS_CardinalityType
  <2> QED
    BY <2>1, <2>2, <2>3, <2>5 DEF Spent
<1> QED
  BY <1>6, <1>7, <1>8

LEMMA NextKeepsStorm == IInv /\ StormInv /\ [Next]_vars => StormInv'
<1> SUFFICES ASSUME IInv, StormInv, [Next]_vars, AnswersKept, QuickLinks
             PROVE  Paced' /\ Undirected' /\ Spent'
  BY DEF StormInv, AnswersKept, QuickLinks
<1>1. Paced /\ Undirected /\ Spent
  BY DEF StormInv
<1>2. CASE UNCHANGED vars
  <2>1. Timeouts' = Timeouts
    BY <1>2 DEF vars, Timeouts, OfKind
  <2>2. Paced' /\ Undirected'
    BY <1>1, <1>2, <2>1 DEF vars, Paced, Pace, Asks, Undirected
  <2>3. Credit' = Credit
    BY <1>2, <2>1 DEF vars, Credit, Credited, Kept, Directions
  <2>4. Spent'
    BY <1>1, <1>2, <2>3 DEF vars, Spent, Issues, Directions
  <2> QED
    BY <2>2, <2>4
<1>3. ASSUME NEW e \in q, Toggle(e) \/ FibApply(e) \/ Timeout(e) \/ Interest(e) \/ Data(e)
      PROVE  Paced' /\ Undirected' /\ Spent'
  BY <1>1, <1>3, ControlPays, TimeoutPays, PacketPays
<1> QED
  BY <1>2, <1>3 DEF Next

LEMMA PaidMeansNoStorm == IInv /\ StormInv => NoStorm
<1> SUFFICES ASSUME IInv, StormInv, AnswersKept, QuickLinks
             PROVE  stats["interest_tx"] <= (Len(requests) + stats["retransmissions"]) * 2 * Cardinality(Link)
  BY DEF NoStorm
<1>1. Spent
  BY DEF StormInv
<1>2. PICK i \in Nat : i = Issues
  BY IssuesCounted DEF IInv
<1>3. PICK d \in Nat, l \in Nat : d = Cardinality(Directions) /\ l = Cardinality(Link) /\ d <= 2 * l
  BY DirectionsFinite
<1>4. stats["interest_tx"] \in Nat /\ Cardinality(Credit) \in Nat
  BY CreditFinite DEF IInv, Links, Counters
<1>5. stats["interest_tx"] <= i * d
  <2>1. i * d \in Nat
    OBVIOUS
  <2> QED
    BY <1>1, <1>2, <1>3, <1>4, <2>1 DEF Spent
<1>6. i * d <= i * 2 * l
  <2>1. PICK k \in Nat : 2 * l = d + k
    <3>1. 2 * l - d \in Nat /\ 2 * l = d + (2 * l - d)
      BY <1>3
    <3> QED
      BY <3>1
  <2>2. i * 2 * l = i * (2 * l) /\ i * (d + k) = i * d + i * k /\ i * k \in Nat /\ i * d \in Nat
    OBVIOUS
  <2> QED
    BY <2>1, <2>2
<1>7. i * d \in Nat /\ i * 2 * l \in Nat
  OBVIOUS
<1>8. stats["interest_tx"] <= i * 2 * l
  BY <1>4, <1>5, <1>6, <1>7
<1> QED
  BY <1>2, <1>3, <1>8 DEF Issues

(* No broadcast storm, for every network, strategy, workload, failure list *)
(* and parameter, as long as answers are kept and links are quick: the     *)
(* copies that cross links are never more than if every issue of a request *)
(* crossed each link once each way (the pending entries, and the store     *)
(* that is asked first, in _process_interest).                             *)
THEOREM StormIsBounded == Spec => []NoStorm
<1>1. Init => StormInv
  BY InitPaid DEF StormInv
<1>2. IInv /\ StormInv /\ [Next]_vars => StormInv'
  BY NextKeepsStorm
<1>3. IInv /\ StormInv => NoStorm
  BY PaidMeansNoStorm
<1> QED
  BY <1>1, <1>2, <1>3, AlwaysIInv, PTL DEF Spec

-----------------------------------------------------------------------------
(* The consumer's own Interests.  The timeout of one is due a lifetime     *)
(* after it was issued; and an entry at the consumer that only such a      *)
(* request keeps has expired by then, and by the next issue.               *)
Issued == {e \in OfKind("interest") : e.prev = Local}

Sole(r) ==
    \A o \in DOMAIN requests \ {r} :
        ~(requests[o].name = requests[r].name /\ requests[o].consumer = requests[r].consumer)

Unshared(u, name) == name \in DOMAIN pit[u] /\ pit[u][name].faces \subseteq {Local}

Timed(i, o) == o.t = i.t + Lifetime /\ i.seq < o.seq

Outlived(p) ==
    LET u == requests[p.req].consumer
        name == requests[p.req].name
    IN Sole(p.req) /\ Unshared(u, name) => pit[u][name].expiry <= p.t

Issuing ==
    /\ \A i \in Issued : i.at = requests[i.req].consumer
    /\ \A i, j \in Issued : i.req = j.req => i = j
    /\ \A i \in Issued, o \in Timeouts : i.req = o.req => Timed(i, o)
    /\ \A p \in Issued \cup Timeouts : Outlived(p)

LEMMA RequestFields ==
    ASSUME Requesting, NEW r \in DOMAIN requests
    PROVE  requests[r] \in Request /\ requests[r].consumer \in Node /\ requests[r].name \in Name
<1> DEFINE Element == Request
<1>1. requests \in Seq(Element)
  BY DEF Requesting
<1> HIDE DEF Element
<1>2. requests[r] \in Element
  BY <1>1
<1> QED
  BY <1>2 DEF Element, Request

(* A step that adds neither issues nor timers, and changes no entry but    *)
(* that of the Interest it handles.                                        *)
Inherited(u, name) ==
    Unshared(u, name) /\ pit'[u][name].expiry = pit[u][name].expiry

Started(e, u, name) ==
    /\ e \in Issued /\ e.at = u /\ NameOf(e) = name
    /\ \/ pit'[u][name].expiry = e.t + Lifetime
       \/ /\ Unshared(u, name)
          /\ pit'[u][name].expiry = LaterOf(pit[u][name].expiry, e.t + Lifetime)

LEMMA IssuingKept ==
    ASSUME IInv, Issuing, NEW e \in q, UNCHANGED requests,
           Issued' \subseteq Issued \ {e}, Timeouts' \subseteq Timeouts,
           \A u \in Node, name \in Name :
              Unshared(u, name)' => Inherited(u, name) \/ Started(e, u, name)
    PROVE  Issuing'
<1>1. ASSUME NEW p \in Issued' \cup Timeouts' PROVE Outlived(p)'
  <2> DEFINE u == requests[p.req].consumer
             name == requests[p.req].name
  <2>1. p \in Issued \cup Timeouts /\ p \in q /\ p.t \in Nat /\ p.req \in DOMAIN requests
    BY DEF Issued, Timeouts, OfKind, IInv, Ordered, EventOK, PacketOK
  <2>2. u \in Node /\ name \in Name
    BY <2>1, RequestFields DEF IInv
  <2>3. Sole(p.req)' <=> Sole(p.req)
    BY DEF Sole
  <2> SUFFICES ASSUME Sole(p.req), Unshared(u, name)' PROVE pit'[u][name].expiry <= p.t
    BY <2>3 DEF Outlived
  <2>4. Unshared(u, name) => pit[u][name].expiry <= p.t
    BY <2>1 DEF Issuing, Outlived
  <2>5. CASE Inherited(u, name)
    BY <2>4, <2>5 DEF Inherited
  <2>6. CASE Started(e, u, name)
    <3>1. /\ e \in Issued /\ e.req \in DOMAIN requests
          /\ requests[e.req].consumer = u /\ requests[e.req].name = name
      BY <2>6 DEF Started, Issuing, NameOf, Issued, OfKind, IInv, Ordered, EventOK, PacketOK
    <3>2. e.req = p.req
      BY <3>1 DEF Sole
    <3>3. p \in Timeouts
      BY <3>1, <3>2 DEF Issuing
    <3>4. p.t = e.t + Lifetime
      BY <3>1, <3>2, <3>3 DEF Issuing, Timed
    <3> DEFINE old == pit[u][name].expiry
               new == pit'[u][name].expiry
    <3>5. new = p.t \/ (old <= p.t /\ new = IF old >= p.t THEN old ELSE p.t)
      BY <2>4, <2>6, <3>4 DEF Started, LaterOf
    <3> HIDE DEF old, new
    <3>6. new <= p.t
      BY <2>1, <3>5
    <3> QED
      BY <3>6 DEF new
  <2> QED
    BY <2>2, <2>5, <2>6
<1>2. /\ \A i \in Issued' : i.at = requests'[i.req].consumer
      /\ \A i, j \in Issued' : i.req = j.req => i = j
  BY DEF Issuing
<1>3. \A i \in Issued', o \in Timeouts' : i.req = o.req => Timed(i, o)'
  BY DEF Issuing, Timed
<1> QED
  BY <1>1, <1>2, <1>3 DEF Issuing

(* What an entry at the node of an Interest holds afterwards.              *)
LEMMA InterestStarts ==
    ASSUME Nodes, NEW e \in q, e.at \in Node, e.prev \in Face, e.kind = "interest", Interest(e),
           NEW u \in Node, NEW name, Unshared(u, name)'
    PROVE  Inherited(u, name) \/ Started(e, u, name)
<1> DEFINE table == Purged(e.at, e.t)
<1>1. \A k \in DOMAIN table : k \in DOMAIN pit[e.at] /\ table[k] = pit[e.at][k]
  BY DEF Purged, Restrict
<1> HIDE DEF table
<1>2. CASE pit'[u] = pit[u]
  BY <1>2 DEF Unshared, Inherited
<1>3. e.prev = Local => e \in Issued
  BY DEF Issued, OfKind
<1>4. ASSUME NEW new, pit' = [pit EXCEPT ![e.at] = new], u = e.at,
             name \in DOMAIN table, new[name] = table[name]
      PROVE  Inherited(u, name)
  BY <1>1, <1>4 DEF Nodes, Unshared, Inherited
<1>5. ASSUME NEW new, pit' = [pit EXCEPT ![e.at] = new], u = e.at
      PROVE  pit'[u] = new /\ name \in DOMAIN new /\ new[name].faces \subseteq {Local}
  BY <1>5 DEF Nodes, Unshared
<1>6. CASE u # e.at
  <2>1. pit'[u] = pit[u]
    <3>1. pit' = pit \/ \E new : pit' = [pit EXCEPT ![e.at] = new]
      BY DEF Interest, OfResolved, CacheHit, ProducerServe, Aggregate, PitOverflow, NoNextHop,
             Forward
    <3> QED
      BY <1>6, <3>1 DEF Nodes
  <2> QED
    BY <1>2, <2>1
<1>7. CASE OfResolved(e)
  BY <1>2, <1>7 DEF OfResolved
<1>8. CASE /\ u = e.at
           /\ CacheHit(e) \/ ProducerServe(e) \/ PitOverflow(e) \/ NoNextHop(e)
  <2>1. pit' = [pit EXCEPT ![e.at] = table]
    BY <1>8 DEF CacheHit, ProducerServe, PitOverflow, NoNextHop, table
  <2> QED
    BY <1>4, <1>5, <1>8, <2>1
<1>9. CASE u = e.at /\ Aggregate(e)
  <2> DEFINE new == [table EXCEPT ![NameOf(e)] = Refreshed(@, e)]
  <2>1. pit' = [pit EXCEPT ![e.at] = new] /\ NameOf(e) \in DOMAIN table
    BY <1>9 DEF Aggregate, Pending, table
  <2>2. DOMAIN new = DOMAIN table
    OBVIOUS
  <2>3. name \in DOMAIN table /\ pit'[u] = new /\ new[name].faces \subseteq {Local}
    BY <1>5, <1>9, <2>1, <2>2
  <2>4. CASE name # NameOf(e)
    <3>1. new[name] = table[name]
      BY <2>4
    <3> HIDE DEF new
    <3> QED
      BY <1>4, <1>9, <2>1, <2>3, <3>1
  <2>5. CASE name = NameOf(e)
    <3>1. /\ new[name].faces = table[name].faces \cup {e.prev}
          /\ new[name].expiry = LaterOf(table[name].expiry, e.t + Lifetime)
      BY <2>1, <2>5 DEF Refreshed
    <3> HIDE DEF new
    <3>2. e.prev = Local /\ table[name].faces \subseteq {Local}
      BY <2>3, <3>1
    <3>3. Unshared(u, name) /\ pit'[u][name].expiry = LaterOf(pit[u][name].expiry, e.t + Lifetime)
      BY <1>1, <1>9, <2>3, <3>1, <3>2 DEF Unshared
    <3> QED
      BY <1>3, <1>9, <2>5, <3>2, <3>3 DEF Started
  <2> QED
    BY <2>4, <2>5
<1>10. CASE u = e.at /\ Forward(e)
  <2> DEFINE new == Inserted(table, e)
  <2>1. pit' = [pit EXCEPT ![e.at] = new]
    BY <1>10 DEF Forward, table
  <2>2. pit'[u] = new /\ name \in DOMAIN new /\ new[name].faces \subseteq {Local}
    BY <1>5, <1>10, <2>1
  <2>3. CASE name # NameOf(e)
    <3>1. name \in DOMAIN table /\ new[name] = table[name]
      BY <2>2, <2>3 DEF Inserted
    <3> HIDE DEF new
    <3> QED
      BY <1>4, <1>10, <2>1, <3>1
  <2>4. CASE name = NameOf(e)
    <3>1. new[name].faces = {e.prev} /\ new[name].expiry = e.t + Lifetime
      BY <2>2, <2>4 DEF Inserted
    <3> HIDE DEF new
    <3>2. e.prev = Local /\ pit'[u][name].expiry = e.t + Lifetime
      BY <2>2, <3>1
    <3> QED
      BY <1>3, <1>10, <2>4, <3>2 DEF Started
  <2> QED
    BY <2>3, <2>4
<1> QED
  BY <1>6, <1>7, <1>8, <1>9, <1>10 DEF Interest

LEMMA DataStarts ==
    ASSUME Nodes, NEW e \in q, e.at \in Node, Data(e), NEW u \in Node, NEW name, Unshared(u, name)'
    PROVE  Inherited(u, name)
<1>1. pit' = pit \/ pit' = [pit EXCEPT ![e.at] = PitPopped(e.at, NameOf(e))]
  BY DEF Data, OfResolved, DropUnverified, Satisfy, Unsolicited
<1>2. name \in DOMAIN pit'[u] => name \in DOMAIN pit[u] /\ pit'[u][name] = pit[u][name]
  BY <1>1 DEF Nodes, PitPopped, Restrict
<1> QED
  BY <1>2 DEF Unshared, Inherited

LEMMA PacketIssuing ==
    ASSUME IInv, Issuing, NEW e \in q, Interest(e) \/ Data(e)
    PROVE  Issuing'
<1>1. e.kind \in {"interest", "data"} /\ UNCHANGED requests
  BY PoppedFirst DEF Interest, Data
<1>2. e.at \in Node /\ e.prev \in Face /\ e.seq < seq /\ e.seq \in Nat /\ seq \in Nat
  BY <1>1 DEF IInv, Ordered, EventOK, PacketOK
<1>3. Effect(e)
  BY PacketStep
<1>4. Timeouts' = Timeouts
  BY <1>1, <1>3, PacketsOnly DEF Effect
<1>5. Issued' \subseteq Issued \ {e}
  <2>1. PICK new : /\ q' = (q \ {e}) \cup new
                   /\ \A p \in new : p.prev = e.at
    BY <1>3 DEF Effect, Traffic, Replaces
  <2>2. e.at # Local
    BY <1>2, NetworkAssumption
  <2> QED
    BY <2>1, <2>2 DEF Issued, OfKind
<1>6. Interest(e) => e.kind = "interest"
  BY PoppedFirst DEF Interest
<1>7. \A u \in Node, name \in Name : Unshared(u, name)' => Inherited(u, name) \/ Started(e, u, name)
  BY <1>2, <1>6, InterestStarts, DataStarts DEF IInv
<1> QED
  BY <1>1, <1>4, <1>5, <1>7, IssuingKept

(* A retransmission is the only issue of its request: the one before was   *)
(* handled a lifetime ago.                                                 *)
LEMMA TimeoutIssuing ==
    ASSUME IInv, Issuing, NEW e \in q, Timeout(e)
    PROVE  Issuing'
<1>1. /\ e \in Timeouts /\ e.kind = "timeout" /\ First(e)
      /\ UNCHANGED <<requests, pit>>
  BY PoppedFirst DEF Timeout, Timeouts, control
<1>2. e.t \in Nat /\ e.seq \in Nat /\ seq \in Nat /\ e.seq < seq /\ e.req \in DOMAIN requests
  BY <1>1 DEF IInv, Ordered, EventOK
<1>3. Lifetime \in Nat
  BY ParameterAssumption
<1>4. \A u \in Node, name \in Name : Unshared(u, name)' => Inherited(u, name)
  BY <1>1 DEF Unshared, Inherited
<1>5. CASE q' = q \ {e}
  <2>1. Issued' \subseteq Issued \ {e} /\ Timeouts' \subseteq Timeouts
    BY <1>5 DEF Issued, Timeouts, OfKind
  <2> QED
    BY <1>1, <1>4, <2>1, IssuingKept
<1>6. CASE Retransmit(e)
  <2> DEFINE i == InterestEvent(e.t, seq, e.req, requests[e.req].consumer, Local)
             w == TimeoutEvent(e.t + Lifetime, seq + 1, e.req, rs[e.req].current_attempt + 1)
  <2>1. q' = (q \ {e}) \cup {i, w}
    BY <1>6 DEF Retransmit, Reissued
  <2>2. /\ i.kind = "interest" /\ i.t = e.t /\ i.seq = seq /\ i.req = e.req
        /\ i.at = requests[e.req].consumer /\ i.prev = Local
        /\ w.kind = "timeout" /\ w.t = e.t + Lifetime /\ w.seq = seq + 1 /\ w.req = e.req
    BY DEF InterestEvent, TimeoutEvent
  <2> HIDE DEF i, w
  <2>3. Issued' = Issued \cup {i} /\ Timeouts' = (Timeouts \ {e}) \cup {w}
    BY <1>1, <2>1, <2>2 DEF Issued, Timeouts, OfKind
  <2>4. \A j \in Issued : j.req # e.req
    <3> SUFFICES ASSUME NEW j \in Issued, j.req = e.req PROVE FALSE
      OBVIOUS
    <3>1. e.t = j.t + Lifetime /\ j.seq < e.seq
      BY <1>1 DEF Issuing, Timed
    <3>2. j \in q \ {e} /\ j.t \in Nat /\ j.seq \in Nat
      BY <1>1 DEF Issued, OfKind, IInv, Ordered, EventOK
    <3>3. Before(e, j)
      BY <1>1, <3>2 DEF First
    <3> QED
      BY <1>2, <1>3, <3>1, <3>2, <3>3 DEF Before
  <2>5. \A o \in Timeouts \ {e} : o.req # e.req
    BY <1>1 DEF IInv, Requesting
  <2>6. \A j \in Issued', o \in Timeouts' : j.req = o.req => Timed(j, o)'
    <3> SUFFICES ASSUME NEW j \in Issued', NEW o \in Timeouts', j.req = o.req PROVE Timed(j, o)
      BY DEF Timed
    <3>1. CASE j = i /\ o = w
      BY <1>2, <2>2, <3>1 DEF Timed
    <3>2. CASE j \in Issued /\ o \in Timeouts \ {e}
      BY <3>2 DEF Issuing
    <3> QED
      BY <2>2, <2>3, <2>4, <2>5, <3>1, <3>2
  <2>7. ASSUME NEW p \in Issued' \cup Timeouts' PROVE Outlived(p)'
    <3> DEFINE u == requests[p.req].consumer
               name == requests[p.req].name
    <3>1. Outlived(p)' <=> (Sole(p.req) /\ Unshared(u, name) => pit[u][name].expiry <= p.t)
      BY <1>1 DEF Outlived, Sole, Unshared
    <3>2. CASE p \in Issued \cup Timeouts
      BY <3>1, <3>2 DEF Issuing, Outlived
    <3>3. CASE p \in {i, w}
      <4>1. p.req = e.req /\ p.t \in Nat /\ e.t <= p.t
        BY <1>2, <1>3, <2>2, <3>3
      <4>2. Sole(p.req) /\ Unshared(u, name) => pit[u][name].expiry <= e.t
        BY <1>1, <4>1 DEF Issuing, Outlived
      <4>3. Unshared(u, name) => pit[u][name].expiry \in Nat
        <5>1. u \in Node
          BY <1>2, <4>1, RequestFields DEF IInv
        <5> QED
          BY <5>1 DEF Unshared, IInv, Nodes, TableOK
      <4> QED
        BY <1>2, <3>1, <4>1, <4>2, <4>3
    <3> QED
      BY <2>3, <3>2, <3>3
  <2>8. \A j, k \in Issued' : j.req = k.req => j = k
    BY <2>2, <2>3, <2>4 DEF Issuing
  <2>9. \A j \in Issued' : j.at = requests'[j.req].consumer
    BY <1>1, <2>2, <2>3 DEF Issuing
  <2> QED
    BY <2>6, <2>7, <2>8, <2>9 DEF Issuing
<1> QED
  BY <1>5, <1>6 DEF Timeout, StaleTimeout, GiveUp

LEMMA ControlIssuing ==
    ASSUME IInv, Issuing, NEW e \in q, Toggle(e) \/ FibApply(e)
    PROVE  Issuing'
<1>1. UNCHANGED <<requests, pit>> /\ e.kind \in {"toggle", "fib_apply"}
  BY DEF Toggle, FibApply, consumers, Popped
<1>2. q' = q \ {e} \/ \E p : p.kind = "fib_apply" /\ q' = (q \ {e}) \cup {p}
  BY DEF Toggle, FibApply, PushFibs, RebuildFibs, ApplyEvent
<1>3. Issued' \subseteq Issued \ {e} /\ Timeouts' \subseteq Timeouts
  BY <1>1, <1>2 DEF Issued, Timeouts, OfKind
<1>4. \A u \in Node, name \in Name : Unshared(u, name)' => Inherited(u, name)
  BY <1>1 DEF Unshared, Inherited
<1> QED
  BY <1>1, <1>3, <1>4, IssuingKept

LEMMA InitIssuing == Init => Issuing
<1> SUFFICES ASSUME Init PROVE Issuing
  OBVIOUS
<1>1. IInv
  BY InitIInv
<1>2. PICK failures \in Schedules : q = InitialEvents(requests, failures)
  BY DEF Init
<1>3. \A r \in DOMAIN requests : r \in Nat /\ requests[r].consumer \in Node
  <2>1. DOMAIN requests \subseteq Nat
    BY <1>1 DEF IInv, Requesting
  <2> QED
    BY <1>1, <2>1, RequestFields DEF IInv
<1>4. /\ \A i \in Issued : /\ i.req \in DOMAIN requests /\ i.t = requests[i.req].start_ms
                           /\ i.seq = 2 * i.req - 2 /\ i.at = requests[i.req].consumer
      /\ \A o \in Timeouts : /\ o.req \in DOMAIN requests
                             /\ o.t = requests[o.req].start_ms + Lifetime
                             /\ o.seq = 2 * o.req - 1
  BY <1>2 DEF InitialEvents, InterestEvent, TimeoutEvent, ToggleEvent, Timeouts, Issued, OfKind
<1>5. \A i, j \in Issued : i.req = j.req => i = j
  BY <1>1, <1>4 DEF IInv, Ordered, Issued, OfKind
<1>6. \A i \in Issued, o \in Timeouts : i.req = o.req => Timed(i, o)
  BY <1>3, <1>4 DEF Timed
<1>7. \A p \in Issued \cup Timeouts : Outlived(p)
  <2>1. \A u \in Node : \A name : ~Unshared(u, name)
    BY DEF Init, Unshared
  <2> QED
    BY <1>3, <1>4, <2>1 DEF Outlived
<1> QED
  BY <1>4, <1>5, <1>6, <1>7 DEF Issuing

LEMMA NextKeepsIssuing == IInv /\ Issuing /\ [Next]_vars => Issuing'
<1> SUFFICES ASSUME IInv, Issuing, [Next]_vars PROVE Issuing'
  OBVIOUS
<1>1. CASE UNCHANGED vars
  BY <1>1 DEF vars, Issuing, Issued, Timeouts, OfKind, Timed, Outlived, Sole, Unshared
<1> QED
  BY <1>1, PacketIssuing, TimeoutIssuing, ControlIssuing DEF Next

-----------------------------------------------------------------------------
(* What is sent is counted, and what is refused.                           *)
LEMMA SendCounts ==
    ASSUME Links, NEW e, NEW hops, Sequenced(hops), DOMAIN hops # {}, NEW lost,
           NEW net, net.stats = stats
    PROVE  Send(net, e, InterestPacket, hops, lost).stats # stats
<1> DEFINE crossing == [i \in DOMAIN hops |-> Crossing(e, InterestPacket, hops[i], lost)]
           accepted == {i \in DOMAIN hops : crossing[i].ok}
           refused == DOMAIN hops \ accepted
           unlucky == {i \in refused : crossing[i].reason = "random_loss"}
           a == Cardinality(accepted)
           b == Cardinality(refused)
           out == Send(net, e, InterestPacket, hops, lost)
<1>1. /\ accepted \subseteq DOMAIN hops
      /\ out.stats = [stats EXCEPT !["interest_tx"] = @ + a, !["dropped_interests"] = @ + b,
                                   !["random_loss_drops"] = @ + Cardinality(unlucky),
                                   !["queue_drops"] = @ + Cardinality(refused \ unlucky)]
  BY DEF Send, InterestPacket
<1> HIDE DEF accepted, unlucky, out
<1>2. \A S : S \subseteq DOMAIN hops =>
         /\ IsFiniteSet(S) /\ Cardinality(S) \in Nat /\ (Cardinality(S) = 0 <=> S = {})
  BY FS_Subset, FS_CardinalityType, FS_EmptySet DEF Sequenced
<1>3. a \in Nat /\ b \in Nat /\ (a # 0 \/ b # 0)
  <2>1. accepted # {} \/ refused # {}
    OBVIOUS
  <2> QED
    BY <1>1, <1>2, <2>1
<1> HIDE DEF a, b, refused
<1>4. /\ out.stats["interest_tx"] = stats["interest_tx"] + a
      /\ out.stats["dropped_interests"] = stats["dropped_interests"] + b
      /\ stats["interest_tx"] \in Nat /\ stats["dropped_interests"] \in Nat
  BY <1>1 DEF Links, Counters
<1>5. out.stats # stats
  BY <1>3, <1>4
<1> QED
  BY <1>5 DEF out

(* All the ways there are lead on from the consumer.                       *)
LEMMA WaysOn ==
    ASSUME fib \in Fibs, NEW e, e.at \in Node, e.prev = Local,
           NEW hops \in NextHopChoices(e.at, NameOf(e)) \ {<<>>}
    PROVE  DOMAIN Onward(hops, e) # {}
<1> DEFINE u == e.at
           name == NameOf(e)
           entry == IF OwnerOf[name] \in DOMAIN fib[u] THEN fib[u][OwnerOf[name]] ELSE <<>>
           usable == ActiveHops(entry, u)
<1>1. entry \in Seq(Node)
  <2>1. PICK f \in Forwarding, up \in SUBSET Link : fib = RoutesOf[f][up]
    BY DEF Fibs
  <2> QED
    BY <2>1, FibAssumption
<1>2. /\ \A i \in DOMAIN usable : usable[i] # Local
      /\ usable = [i \in DOMAIN usable |-> usable[i]]
  <2>1. \A i \in DOMAIN entry : entry[i] \in Node
    BY <1>1
  <2> HIDE DEF entry
  <2> QED
    BY <2>1, NetworkAssumption DEF ActiveHops, Restrict
<1>3. hops = usable \/ \E v : hops = <<v>>
  <2> HIDE DEF usable
  <2> QED
    BY DEF NextHopChoices, usable
<1>4. CASE \E v : hops = <<v>>
  <2>1. DOMAIN hops = {1} /\ Cardinality({1}) = 1
    BY <1>4, OneHop, FS_Singleton
  <2>2. Onward(hops, e) = hops
    BY <2>1 DEF Onward
  <2> QED
    BY <2>1, <2>2
<1>5. CASE hops = usable
  <2>1. DOMAIN hops # {}
    <3> HIDE DEF usable
    <3> SUFFICES ASSUME DOMAIN hops = {} PROVE hops = <<>>
      OBVIOUS
    <3>1. DOMAIN <<>> = {}
      OBVIOUS
    <3>2. hops = [i \in DOMAIN hops |-> hops[i]]
      BY <1>2, <1>5
    <3> QED
      BY <3>1, <3>2
  <2>2. {i \in DOMAIN hops : hops[i] # e.prev} = DOMAIN hops
    BY <1>2, <1>5
  <2> HIDE DEF usable
  <2> QED
    BY <2>1, <2>2 DEF Onward, Restrict
<1> QED
  BY <1>3, <1>4, <1>5

LEMMA AloneProceeds ==
    ASSUME IInv, Issuing, NEW e \in q, Interest(e), Alone(e)
    PROVE  stats' # stats
<1>1. e.kind = "interest" /\ e \in Issued /\ e.prev = Local /\ ~rs[e.req].completed
  BY PoppedFirst DEF Interest, Alone, Issued, OfKind
<1>2. e.at \in Node /\ e.t \in Nat /\ e.at = requests[e.req].consumer
  BY <1>1 DEF IInv, Ordered, EventOK, PacketOK, Issuing
<1>3. stats \in [Counters -> Nat]
  BY DEF IInv, Links
<1>4. \A field \in Counters : Count(stats, field) # stats
  <2> SUFFICES ASSUME NEW field \in Counters PROVE Count(stats, field) # stats
    OBVIOUS
  <2>1. Count(stats, field)[field] = stats[field] + 1 /\ stats[field] \in Nat
    BY <1>3, Counted
  <2> QED
    BY <2>1
<1>5. CASE CacheHit(e) \/ ProducerServe(e)
  <2>1. PICK counter \in {"cache_hits", "producer_serves"} : Answer(e, counter)
    BY <1>5 DEF CacheHit, ProducerServe
  <2>2. stats' = Count(Count(stats, counter), "completed_requests")
    BY <1>1, <2>1 DEF Answer, SetNet, Net
  <2>3. counter \in Counters /\ "completed_requests" \in Counters /\ counter # "completed_requests"
    BY DEF Counters, Tallies
  <2>4. stats'[counter] = stats[counter] + 1 /\ stats[counter] \in Nat
    BY <1>3, <2>2, <2>3, Counted
  <2> QED
    BY <2>4
<1>6. CASE PitOverflow(e)
  <2>1. stats' = Count(Count(stats, "pit_overflow_drops"), "dropped_interests")
    BY <1>6 DEF PitOverflow, SetNet, Net
  <2>2. "pit_overflow_drops" \in Counters /\ "dropped_interests" \in Counters
    BY DEF Counters, Tallies
  <2>3. stats'["pit_overflow_drops"] = stats["pit_overflow_drops"] + 1
        /\ stats["pit_overflow_drops"] \in Nat
    BY <1>3, <2>1, <2>2, Counted
  <2> QED
    BY <2>3
<1>7. CASE NoNextHop(e)
  <2>1. stats' = Count(stats, "dropped_interests") /\ "dropped_interests" \in Counters
    BY <1>7 DEF NoNextHop, SetNet, Net, Counters
  <2> QED
    BY <1>4, <2>1
<1>8. CASE Forward(e)
  <2>1. PICK hops \in NextHopChoices(e.at, NameOf(e)) \ {<<>>} :
           \E lost : SetNet(Send(Net(e), e, InterestPacket, Onward(hops, e), lost))
    BY <1>8 DEF Forward
  <2>2. PICK lost : SetNet(Send(Net(e), e, InterestPacket, Onward(hops, e), lost))
    BY <2>1
  <2>3. Sequenced(Onward(hops, e)) /\ DOMAIN Onward(hops, e) # {}
    BY <1>1, <1>2, <2>1, HopsSequenced, OnwardSequenced, WaysOn DEF IInv, Routed
  <2> DEFINE way == Onward(hops, e)
             net == Net(e)
  <2>4. /\ Sequenced(way) /\ DOMAIN way # {} /\ net.stats = stats
        /\ stats' = Send(net, e, InterestPacket, way, lost).stats
    BY <2>2, <2>3 DEF SetNet, Net
  <2> HIDE DEF way, net
  <2> QED
    BY <2>4, SendCounts DEF IInv
<1>9. ~Aggregate(e)
  <2> SUFFICES ASSUME Aggregate(e) PROVE FALSE
    OBVIOUS
  <2> DEFINE u == e.at
             name == NameOf(e)
  <2>1. name \in DOMAIN pit[u] /\ pit[u][name].expiry > e.t
    BY DEF Aggregate, Pending, Purged, Restrict
  <2>2. Unshared(u, name)
    BY <2>1 DEF Alone, Unshared
  <2>3. Sole(e.req)
    BY <1>2 DEF Alone, Sole, NameOf
  <2>4. pit[u][name].expiry <= e.t
    BY <1>1, <1>2, <2>2, <2>3 DEF Issuing, Outlived, NameOf
  <2>5. pit[u][name].expiry \in Nat
    BY <1>2, <2>1 DEF IInv, Nodes, TableOK
  <2> QED
    BY <1>2, <2>1, <2>4, <2>5
<1> QED
  BY <1>1, <1>5, <1>6, <1>7, <1>8, <1>9 DEF Interest, OfResolved

(* A retransmission leaves its consumer although the PIT entry of the      *)
(* Interest before it expires at that very instant: the purge in           *)
(* _process_interest drops what expires now, and nobody else's Interest    *)
(* has refreshed the entry.                                                *)
THEOREM LoneInterestsProceed == Spec => LoneInterestProceeds
<1> DEFINE Proceeds == \A e \in OfKind("interest") \ q' : Alone(e) => stats' # stats
<1>1. IInv /\ Issuing /\ [Next]_vars => [Proceeds]_vars
  <2> SUFFICES ASSUME IInv, Issuing, Next, NEW e \in OfKind("interest") \ q', Alone(e)
               PROVE  stats' # stats
    OBVIOUS
  <2>1. PICK o \in q : Toggle(o) \/ FibApply(o) \/ Timeout(o) \/ Interest(o) \/ Data(o)
    BY DEF Next
  <2>2. e \in q /\ e.kind = "interest"
    BY DEF OfKind
  <2>3. q \ {o} \subseteq q'
    <3>1. CASE Interest(o) \/ Data(o)
      BY <3>1, PacketStep DEF Effect, Traffic, Replaces
    <3>2. CASE Timeout(o)
      BY <3>2 DEF Timeout, StaleTimeout, Retransmit, GiveUp
    <3>3. CASE Toggle(o) \/ FibApply(o)
      BY <3>3 DEF Toggle, FibApply, PushFibs, RebuildFibs
    <3> QED
      BY <2>1, <3>1, <3>2, <3>3
  <2>4. o = e
    BY <2>2, <2>3
  <2>5. Interest(e)
    BY <2>1, <2>2, <2>4, PoppedFirst DEF Toggle, FibApply, Timeout, Data
  <2> QED
    BY <2>2, <2>5, AloneProceeds
<1>2. Init => Issuing
  BY InitIssuing
<1>3. IInv /\ Issuing /\ [Next]_vars => Issuing'
  BY NextKeepsIssuing
<1>4. Spec => [][Proceeds]_vars
  BY <1>1, <1>2, <1>3, AlwaysIInv, PTL DEF Spec
<1> QED
  BY <1>4 DEF LoneInterestProceeds

-----------------------------------------------------------------------------
(* The consumers implement RequestLifecycle.                               *)
TimerOf(e) == [at |-> e.t, req |-> e.req, attempt |-> e.attempt]
Timers == {TimerOf(e) : e \in Timeouts}

Tally(s) == [completed_requests |-> s.completed_requests,
             timed_out_requests |-> s.timed_out_requests,
             retransmissions |-> s.retransmissions]

(* The mapping of the instance, by its parts.                              *)
LEMMA TimerMapping ==
    {[at |-> e.t, req |-> e.req, attempt |-> e.attempt] : e \in OfKind("timeout")} = Timers
BY DEF Timers, TimerOf, Timeouts

(* A packet answers its request, or time passes.                           *)
LEMMA PacketIsAnswer ==
    ASSUME IInv, NEW e \in q, Interest(e) \/ Data(e), Horizon \in Nat, now' <= Horizon
    PROVE  Lifecycle!Next
<1>1. /\ e.kind \in {"interest", "data"} /\ First(e) /\ now' = e.t /\ requests' = requests
  BY PoppedFirst DEF Interest, Data
<1>2. Effect(e) /\ Timeouts' = Timeouts
  BY <1>1, PacketStep, PacketsOnly DEF Effect
<1>3. /\ e.t \in Nat /\ now \in Nat /\ now <= e.t /\ \A o \in q : e.t <= o.t
      /\ e.req \in DOMAIN requests /\ requests[e.req].start_ms <= e.t
  BY <1>1 DEF IInv, Ordered, EventOK, PacketOK, First, Before
<1>4. Timers' = Timers
  BY <1>2 DEF Timers, TimerOf
<1>5. e.t \in now .. Horizon
  BY <1>1, <1>3
<1>6. \A o \in Timers : e.t <= o.at
  BY <1>3 DEF Timers, TimerOf, Timeouts, OfKind
<1>7. Lifecycle!Reach(e.t)
  BY <1>1, <1>3, <1>6, TimerMapping DEF Lifecycle!Reach
<1>8. CASE Silent
  <2>1. rs' = rs /\ Tally(stats') = Tally(stats)
    BY <1>8 DEF Silent, Tally, Tallies
  <2>2. Lifecycle!Elapse(e.t)
    BY <1>1, <1>4, <1>7, <2>1, TimerMapping DEF Lifecycle!Elapse, Tally, Timers, TimerOf, Timeouts
  <2> QED
    BY <1>5, <2>2 DEF Lifecycle!Next
<1>9. CASE Answered(e)
  <2>1. /\ ~rs[e.req].completed
        /\ rs' = [rs EXCEPT ![e.req].completed = TRUE]
        /\ Tally(stats') = [Tally(stats) EXCEPT !.completed_requests = @ + 1]
    BY <1>9 DEF Answered, Tally, Tallies
  <2>2. Lifecycle!Complete(e.req, e.t)
    BY <1>1, <1>3, <1>4, <1>7, <2>1, TimerMapping
       DEF Lifecycle!Complete, Lifecycle!Closed, Tally, Timers, TimerOf, Timeouts
  <2> QED
    BY <1>3, <1>5, <2>2 DEF Lifecycle!Next
<1> QED
  BY <1>2, <1>8, <1>9 DEF Effect

(* A timeout is the abstract one.                                          *)
LEMMA TimeoutMaps ==
    ASSUME IInv, NEW e \in q, Timeout(e)
    PROVE  Lifecycle!Timeout
<1> DEFINE w == TimerOf(e)
<1>1. /\ e \in Timeouts /\ e.kind = "timeout" /\ First(e) /\ now' = e.t /\ requests' = requests
  BY PoppedFirst DEF Timeout, Timeouts
<1>2. /\ e.t \in Nat /\ now \in Nat /\ now <= e.t /\ \A o \in q : e.t <= o.t
  BY <1>1 DEF IInv, Ordered, EventOK, First, Before
<1>3. /\ w \in Timers /\ w.at = e.t /\ w.req = e.req /\ w.attempt = e.attempt
  BY <1>1 DEF Timers, TimerOf
<1>4. \A o \in Timers : e.t <= o.at
  BY <1>2 DEF Timers, TimerOf, Timeouts, OfKind
<1>5. Lifecycle!Pop(w)
  BY <1>1, <1>2, <1>3, <1>4, TimerMapping DEF Lifecycle!Pop
<1>6. \A o \in Timeouts \ {e} : o.req # e.req /\ TimerOf(o) # w
  <2>1. \A o \in Timeouts \ {e} : o.req # e.req
    BY <1>1 DEF IInv, Requesting
  <2> QED
    BY <2>1 DEF TimerOf
<1>7. Lifecycle!Ignored(w) <=> Ignored(e)
  BY <1>3 DEF Lifecycle!Ignored, Ignored
<1>8. ASSUME Timeouts' = Timeouts \ {e} PROVE Timers' = Timers \ {w}
  BY <1>1, <1>6, <1>8 DEF Timers
<1> HIDE DEF w
<1>9. CASE StaleTimeout(e)
  <2>1. Ignored(e) /\ q' = q \ {e} /\ UNCHANGED <<rs, stats>>
    BY <1>9 DEF StaleTimeout
  <2>2. Timers' = Timers \ {w}
    <3>1. Timeouts' = Timeouts \ {e}
      BY <2>1 DEF Timeouts, OfKind
    <3> QED
      BY <1>8, <3>1
  <2>3. Lifecycle!StaleTimeout(w)
    BY <1>1, <1>5, <1>7, <2>1, <2>2, TimerMapping
       DEF Lifecycle!StaleTimeout, Timers, TimerOf, Timeouts
  <2> QED
    BY <1>3, <2>3, TimerMapping DEF Lifecycle!Timeout
<1>10. CASE GiveUp(e)
  <2>1. /\ ~Ignored(e) /\ ~(rs[e.req].attempts < MaxRetransmissions)
        /\ rs' = [rs EXCEPT ![e.req].completed = TRUE]
        /\ q' = q \ {e}
    <3>1. rs[e.req].attempts \in Nat /\ MaxRetransmissions \in Nat
      <4>1. e.req \in DOMAIN requests
        BY <1>1 DEF IInv, Ordered, EventOK
      <4> QED
        BY <4>1, ParameterAssumption DEF IInv, Requesting, RequestState
    <3> QED
      BY <1>10, <3>1 DEF GiveUp
  <2>2. Tally(stats') = [Tally(stats) EXCEPT !.timed_out_requests = @ + 1]
    <3>1. stats' = [stats EXCEPT !.timed_out_requests = @ + 1] /\ stats \in [Counters -> Nat]
      BY <1>10 DEF GiveUp, IInv, Links
    <3> QED
      BY <3>1 DEF Tally, Counters, Tallies
  <2>3. Timers' = Timers \ {w}
    <3>1. Timeouts' = Timeouts \ {e}
      BY <2>1 DEF Timeouts, OfKind
    <3> QED
      BY <1>8, <3>1
  <2>4. Lifecycle!GiveUp(w)
    BY <1>1, <1>3, <1>5, <1>7, <2>1, <2>2, <2>3, TimerMapping
       DEF Lifecycle!GiveUp, Lifecycle!AttemptsLeft, Tally, Timers, TimerOf, Timeouts
  <2> QED
    BY <1>3, <2>4, TimerMapping DEF Lifecycle!Timeout
<1>11. CASE Retransmit(e)
  <2> DEFINE i == InterestEvent(e.t, seq, e.req, requests[e.req].consumer, Local)
             p == TimeoutEvent(e.t + Lifetime, seq + 1, e.req, rs[e.req].current_attempt + 1)
             again == Lifecycle!TimeoutOf(e.req, rs[e.req].current_attempt + 1, e.t)
  <2>1. /\ ~Ignored(e) /\ rs[e.req].attempts < MaxRetransmissions
        /\ rs' = [rs EXCEPT ![e.req].attempts = @ + 1, ![e.req].current_attempt = @ + 1]
        /\ q' = (q \ {e}) \cup {i, p}
    BY <1>11 DEF Retransmit, Reissued
  <2>2. i.kind = "interest" /\ p.kind = "timeout" /\ TimerOf(p) = again
    BY DEF InterestEvent, TimeoutEvent, TimerOf, Lifecycle!TimeoutOf
  <2>3. Tally(stats') = [Tally(stats) EXCEPT !.retransmissions = @ + 1]
    <3>1. stats' = [stats EXCEPT !.retransmissions = @ + 1] /\ stats \in [Counters -> Nat]
      BY <1>11 DEF Retransmit, IInv, Links
    <3> QED
      BY <3>1 DEF Tally, Counters, Tallies
  <2> HIDE DEF i, p, again
  <2>4. Timeouts' = (Timeouts \ {e}) \cup {p}
    BY <2>1, <2>2 DEF Timeouts, OfKind
  <2>5. Timers' = (Timers \ {w}) \cup {again}
    <3>1. {TimerOf(o) : o \in Timeouts \ {e}} = Timers \ {w}
      BY <1>1, <1>6 DEF Timers, w
    <3> QED
      BY <2>2, <2>4, <3>1 DEF Timers
  <2>6. Timers' = Lifecycle!Rearmed(w)
    BY <1>3, <2>5, TimerMapping DEF Lifecycle!Rearmed, again
  <2>7. rs' = Lifecycle!NextAttempt(w.req)
    BY <1>3, <2>1 DEF Lifecycle!NextAttempt
  <2>8. Lifecycle!Retransmit(w)
    BY <1>1, <1>3, <1>5, <1>7, <2>1, <2>3, <2>6, <2>7, TimerMapping
       DEF Lifecycle!Retransmit, Lifecycle!AttemptsLeft, Tally, Timers, TimerOf, Timeouts
  <2> QED
    BY <1>3, <2>8, TimerMapping DEF Lifecycle!Timeout
<1> QED
  BY <1>9, <1>10, <1>11 DEF Timeout

(* The control plane leaves the consumers alone.                           *)
LEMMA ControlIsElapse ==
    ASSUME IInv, NEW e \in q, Toggle(e) \/ FibApply(e), Horizon \in Nat, now' <= Horizon
    PROVE  Lifecycle!Next
<1>1. /\ e.kind \in {"toggle", "fib_apply"} /\ First(e) /\ now' = e.t
      /\ UNCHANGED <<requests, rs, stats>>
  BY PoppedFirst DEF Toggle, FibApply, consumers
<1>2. q' = q \ {e} \/ \E p : p.kind = "fib_apply" /\ q' = (q \ {e}) \cup {p}
  BY DEF Toggle, PushFibs, RebuildFibs, FibApply, ApplyEvent
<1>3. Timers' = Timers
  <2>1. Timeouts' = Timeouts
    BY <1>1, <1>2 DEF Timeouts, OfKind
  <2> QED
    BY <2>1 DEF Timers
<1>4. /\ e.t \in Nat /\ now \in Nat /\ now <= e.t /\ \A o \in q : e.t <= o.t
  BY <1>1 DEF IInv, Ordered, EventOK, First, Before
<1>5. \A o \in Timers : e.t <= o.at
  BY <1>4 DEF Timers, TimerOf, Timeouts, OfKind
<1>6. Lifecycle!Elapse(e.t)
  BY <1>1, <1>3, <1>4, <1>5, TimerMapping
     DEF Lifecycle!Elapse, Lifecycle!Reach, Timers, TimerOf, Timeouts
<1>7. e.t \in now .. Horizon
  BY <1>1, <1>4
<1> QED
  BY <1>6, <1>7 DEF Lifecycle!Next

LEMMA LifecycleStep ==
    ASSUME IInv, [Next]_vars, Horizon \in Nat, now' <= Horizon
    PROVE  [Lifecycle!Next]_(Lifecycle!vars)
<1>1. CASE UNCHANGED vars
  <2>1. Timers' = Timers
    BY <1>1 DEF vars, Timers, Timeouts, OfKind
  <2> QED
    BY <1>1, <2>1, TimerMapping DEF vars, Lifecycle!vars, Timers, TimerOf, Timeouts
<1> QED
  BY <1>1, PacketIsAnswer, TimeoutMaps, ControlIsElapse DEF Next, Lifecycle!Next

LEMMA LifecycleInit == Init => Lifecycle!Init
<1> SUFFICES ASSUME Init PROVE Lifecycle!Init
  OBVIOUS
<1>1. PICK failures \in Schedules : q = InitialEvents(requests, failures)
  BY DEF Init
<1> DEFINE first(r) == InterestEvent(requests[r].start_ms, 2 * r - 2, r, requests[r].consumer, Local)
           timer(r) == TimeoutEvent(requests[r].start_ms + Lifetime, 2 * r - 1, r, 0)
           toggle(i) == ToggleEvent(failures[i], 2 * Len(requests) + i - 1, i)
           abstract(r) == Lifecycle!TimeoutOf(r, 0, requests[r].start_ms)
<1>2. q = {first(r) : r \in DOMAIN requests} \cup {timer(r) : r \in DOMAIN requests}
            \cup {toggle(i) : i \in DOMAIN failures}
  BY <1>1 DEF InitialEvents
<1>3. /\ \A r \in DOMAIN requests : /\ first(r).kind = "interest" /\ timer(r).kind = "timeout"
                                    /\ TimerOf(timer(r)) = abstract(r)
      /\ \A i \in DOMAIN failures : toggle(i).kind = "toggle"
  BY DEF InterestEvent, TimeoutEvent, ToggleEvent, TimerOf, Lifecycle!TimeoutOf
<1> HIDE DEF first, timer, toggle, abstract
<1>4. Timeouts = {timer(r) : r \in DOMAIN requests}
  BY <1>2, <1>3 DEF Timeouts, OfKind
<1>5. Timers = {abstract(r) : r \in DOMAIN requests}
  BY <1>3, <1>4 DEF Timers
<1>6. Tally(stats) = [completed_requests |-> 0, timed_out_requests |-> 0, retransmissions |-> 0]
  BY DEF Init, ZeroStats, Tally
<1> QED
  BY <1>5, <1>6, TimerMapping DEF Init, Lifecycle!Init, Tally, abstract

(* Whatever the network does with its packets, a request is answered at    *)
(* most once, and retransmitted or given up at its own timeouts only.      *)
(* (RequestLifecycle's clock stops at Horizon, so the theorem speaks of    *)
(* behaviours that end before it, for every Horizon.)                      *)
THEOREM ConsumersImplementLifecycle ==
    ASSUME Horizon \in Nat
    PROVE  Spec /\ [](now <= Horizon) => ImplementsLifecycle
<1>1. IInv /\ [Next]_vars /\ (now <= Horizon)' => [Lifecycle!Next]_(Lifecycle!vars)
  BY LifecycleStep
<1> QED
  BY <1>1, LifecycleInit, AlwaysIInv, PTL DEF Spec, ImplementsLifecycle

-----------------------------------------------------------------------------
(* The FIBs implement ControlPlane.                                        *)
ToggleOf(e) == [at |-> e.t, idx |-> e.idx, link |-> e.link, up |-> e.up]
ApplyOf(e) == [at |-> e.t, n |-> e.n, table |-> e.table, delay |-> e.delay]

AbstractToggles == {ToggleOf(e) : e \in ToggleEvents}
AbstractApplies == {ApplyOf(e) : e \in ApplyEvents}

LEMMA ControlMapping ==
    /\ {[at |-> e.t, idx |-> e.idx, link |-> e.link, up |-> e.up] : e \in OfKind("toggle")}
         = AbstractToggles
    /\ {[at |-> e.t, n |-> e.n, table |-> e.table, delay |-> e.delay]
          : e \in OfKind("fib_apply")} = AbstractApplies
BY DEF AbstractToggles, AbstractApplies, ToggleEvents, ApplyEvents, ToggleOf, ApplyOf

(* An event is known by its place in the list, or its push.                *)
LEMMA ToldApart ==
    ASSUME IInv
    PROVE  /\ \A a, b \in ToggleEvents : a.idx = b.idx => a = b
           /\ \A a, b \in ApplyEvents : a.n = b.n => a = b
<1>1. /\ \A a, b \in q : a.seq \in Nat /\ b.seq \in Nat /\ (a.seq = b.seq => a = b)
      /\ ToggleEvents \subseteq q /\ ApplyEvents \subseteq q
  BY DEF IInv, Ordered, EventOK, ToggleEvents, ApplyEvents, OfKind
<1>2. /\ \A e \in ToggleEvents : e.idx \in Nat
      /\ \A e \in ApplyEvents : e.n \in Nat
  BY DEF IInv, Ordered, EventOK, ToggleEvents, ApplyEvents, OfKind
<1>3. /\ \A a, b \in ToggleEvents : a.seq < b.seq <=> a.idx < b.idx
      /\ \A a, b \in ApplyEvents : a.seq < b.seq <=> a.n < b.n
  BY DEF IInv, Routed, ControlOrder
<1> QED
  BY <1>1, <1>2, <1>3

LEMMA SameCardinality ==
    ASSUME NEW S
    PROVE  Control!Cardinality(S) = Cardinality(S)
BY DEF Control!Cardinality, Cardinality

(* The first event of the heap is the first of its kind.                   *)
LEMMA FirstToggle ==
    ASSUME IInv, NEW e \in ToggleEvents, First(e)
    PROVE  Control!NextToggle(ToggleOf(e))
<1>1. \A o \in ToggleEvents \ {e} : e.t < o.t \/ (e.t = o.t /\ e.idx < o.idx)
  BY DEF IInv, Routed, ControlOrder, First, Before, ToggleEvents, OfKind
<1>2. \A p \in ApplyEvents : e.t <= p.t
  BY DEF IInv, Ordered, EventOK, First, Before, ToggleEvents, ApplyEvents, OfKind
<1>3. \A o \in AbstractToggles \ {ToggleOf(e)} : Control!ToggleBefore(ToggleOf(e), o)
  BY <1>1 DEF AbstractToggles, ToggleOf, Control!ToggleBefore
<1>4. \A p \in AbstractApplies : ToggleOf(e).at <= p.at
  BY <1>2 DEF AbstractApplies, ApplyOf, ToggleOf
<1> QED
  BY <1>3, <1>4, ControlMapping
     DEF Control!NextToggle, AbstractToggles, AbstractApplies, ToggleEvents, ApplyEvents,
         ToggleOf, ApplyOf

LEMMA FirstApply ==
    ASSUME IInv, NEW e \in ApplyEvents, First(e)
    PROVE  Control!NextApply(ApplyOf(e))
<1>1. \A o \in ApplyEvents \ {e} : e.t < o.t \/ (e.t = o.t /\ e.n < o.n)
  BY DEF IInv, Routed, ControlOrder, First, Before, ApplyEvents, OfKind
<1>2. \A o \in ToggleEvents : e.t < o.t
  <2> SUFFICES ASSUME NEW o \in ToggleEvents PROVE e.t < o.t
    OBVIOUS
  <2>1. o \in q \ {e} /\ o.t \in Nat /\ e.t \in Nat /\ o.seq \in Nat /\ e.seq \in Nat
    BY DEF IInv, Ordered, EventOK, ToggleEvents, ApplyEvents, OfKind
  <2>2. o.seq < e.seq
    BY DEF IInv, Routed, ControlOrder
  <2> QED
    BY <2>1, <2>2 DEF First, Before
<1>3. \A o \in AbstractApplies \ {ApplyOf(e)} : Control!ApplyBefore(ApplyOf(e), o)
  BY <1>1 DEF AbstractApplies, ApplyOf, Control!ApplyBefore
<1>4. \A o \in AbstractToggles : ApplyOf(e).at < o.at
  BY <1>2 DEF AbstractToggles, ApplyOf, ToggleOf
<1> QED
  BY <1>3, <1>4, ControlMapping
     DEF Control!NextApply, AbstractToggles, AbstractApplies, ToggleEvents, ApplyEvents,
         ToggleOf, ApplyOf

LEMMA ToggleMaps ==
    ASSUME IInv, NEW e \in q, Toggle(e)
    PROVE  Control!Toggle
<1> DEFINE new == Routes(SetLinkActive(e))
<1>1. /\ e \in ToggleEvents /\ First(e) /\ now' = e.t /\ active' = SetLinkActive(e)
      /\ e.kind = "toggle" /\ forwarding' = forwarding
  BY PoppedFirst DEF Toggle, ToggleEvents
<1>2. Control!NextToggle(ToggleOf(e)) /\ ToggleOf(e) \in AbstractToggles
  BY <1>1, FirstToggle DEF AbstractToggles
<1>3. \A o \in ToggleEvents : ToggleOf(o) = ToggleOf(e) => o = e
  BY <1>1, ToldApart DEF ToggleOf
<1>4. ToggleOf(e).at = e.t /\ Control!SetLinkActive(ToggleOf(e)) = SetLinkActive(e)
  BY DEF ToggleOf, SetLinkActive, Control!SetLinkActive
<1>5. Control!Routes(SetLinkActive(e)) = new /\ (Control!Centralized <=> Centralized)
  BY DEF Routes, Control!Routes, Centralized, Control!Centralized
<1>6. CASE Centralized
  <2> DEFINE changed == {n \in Node : last[n] # new[n]}
             delay == IF changed = {} THEN 0 ELSE Rtt
             p == ApplyEvent(Due(e, delay), seq, cstats.fib_pushes, new, delay)
  <2>1. PushFibs(e, new)
    BY <1>6 DEF Toggle
  <2>2. q' = (q \ {e}) \cup {p} /\ last' = new /\ fib' = fib
    BY <2>1 DEF PushFibs
  <2>3. p.kind = "fib_apply"
    BY DEF ApplyEvent
  <2>4. ToggleEvents' = ToggleEvents \ {e} /\ ApplyEvents' = ApplyEvents \cup {p}
    <3> HIDE DEF p
    <3> QED
      BY <1>1, <2>2, <2>3 DEF ToggleEvents, ApplyEvents, OfKind
  <2>5. AbstractToggles' = AbstractToggles \ {ToggleOf(e)}
    <3> HIDE DEF p
    <3> QED
      BY <1>1, <1>3, <2>4 DEF AbstractToggles
  <2>6. Control!Changed(new) = changed /\ Control!Delay(new) = delay
    BY DEF Control!Changed, Control!Delay
  <2>7. ApplyOf(p) = Control!Pushed(new, e.t)
    BY <2>6 DEF ApplyOf, ApplyEvent, Due, Control!Pushed
  <2>8. AbstractApplies' = AbstractApplies \cup {Control!Pushed(new, e.t)}
    <3> HIDE DEF p
    <3> QED
      BY <2>4, <2>7 DEF AbstractApplies
  <2>9. cstats' = Control!PushStats(new)
    <3>1. Control!Cardinality(changed) = Cardinality(changed)
      BY SameCardinality
    <3> QED
      BY <2>1, <2>6, <3>1 DEF PushFibs, Control!PushStats
  <2>10. Control!Push(new, e.t)
    <3> HIDE DEF new, changed, delay, p
    <3> QED
      BY <2>2, <2>8, <2>9, ControlMapping
         DEF Control!Push, Control!Remember, AbstractApplies, ApplyEvents, ApplyOf
  <2> HIDE DEF new, changed, delay, p
  <2> QED
    BY <1>1, <1>2, <1>4, <1>5, <1>6, <2>5, <2>10, ControlMapping
       DEF Control!Toggle, AbstractToggles, ToggleEvents, ToggleOf
<1>7. CASE ~Centralized
  <2>1. q' = q \ {e} /\ fib' = new /\ UNCHANGED <<last, cstats>>
    BY <1>7 DEF Toggle, RebuildFibs
  <2>2. ToggleEvents' = ToggleEvents \ {e} /\ ApplyEvents' = ApplyEvents
    BY <1>1, <2>1 DEF ToggleEvents, ApplyEvents, OfKind
  <2>3. AbstractToggles' = AbstractToggles \ {ToggleOf(e)}
    BY <1>1, <1>3, <2>2 DEF AbstractToggles
  <2>4. AbstractApplies' = AbstractApplies
    BY <2>2 DEF AbstractApplies
  <2> HIDE DEF new
  <2>5. Control!RebuildLocally(new)
    BY <2>1, <2>4, ControlMapping
       DEF Control!RebuildLocally, AbstractApplies, ApplyEvents, ApplyOf
  <2> QED
    BY <1>1, <1>2, <1>4, <1>5, <1>7, <2>3, <2>5, ControlMapping
       DEF Control!Toggle, AbstractToggles, ToggleEvents, ToggleOf
<1> QED
  BY <1>6, <1>7

LEMMA FibApplyMaps ==
    ASSUME IInv, NEW e \in q, FibApply(e)
    PROVE  Control!Apply
<1>1. /\ e \in ApplyEvents /\ First(e) /\ now' = e.t /\ e.kind = "fib_apply"
      /\ q' = q \ {e} /\ fib' = e.table
      /\ UNCHANGED <<forwarding, active, last, cstats>>
  BY PoppedFirst DEF FibApply, ApplyEvents
<1>2. Control!NextApply(ApplyOf(e)) /\ ApplyOf(e) \in AbstractApplies
  BY <1>1, FirstApply DEF AbstractApplies
<1>3. \A o \in ApplyEvents : ApplyOf(o) = ApplyOf(e) => o = e
  BY <1>1, ToldApart DEF ApplyOf
<1>4. ApplyEvents' = ApplyEvents \ {e} /\ ToggleEvents' = ToggleEvents
  BY <1>1 DEF ToggleEvents, ApplyEvents, OfKind
<1>5. AbstractApplies' = AbstractApplies \ {ApplyOf(e)}
  BY <1>1, <1>3, <1>4 DEF AbstractApplies
<1>6. AbstractToggles' = AbstractToggles
  BY <1>4 DEF AbstractToggles
<1>7. ApplyOf(e).at = e.t /\ ApplyOf(e).table = e.table
  BY DEF ApplyOf
<1> QED
  BY <1>1, <1>2, <1>5, <1>6, <1>7, ControlMapping
     DEF Control!Apply, AbstractToggles, AbstractApplies, ToggleEvents, ApplyEvents, ToggleOf,
         ApplyOf

(* Packets and timeouts are time that passes.                              *)
LEMMA OthersElapse ==
    ASSUME IInv, NEW e \in q, Timeout(e) \/ Interest(e) \/ Data(e),
           Horizon \in Nat, now' <= Horizon
    PROVE  Control!Elapse
<1>1. /\ e.kind \in {"timeout", "interest", "data"} /\ First(e) /\ now' = e.t
      /\ UNCHANGED <<forwarding, active, fib, last, cstats>>
  BY PoppedFirst DEF Timeout, Interest, Data, control
<1>2. now \in Nat /\ now <= e.t /\ e.t \in Nat /\ \A o \in q : e.t <= o.t
  BY <1>1 DEF IInv, Ordered, EventOK, First, Before
<1>3. now' \in now .. Horizon
  BY <1>1, <1>2
<1>4. ToggleEvents' = ToggleEvents /\ ApplyEvents' = ApplyEvents
  <2>1. CASE Interest(e) \/ Data(e)
    <3>1. e.kind \in {"interest", "data"} /\ Traffic(e)
      BY <2>1, PacketStep, PoppedFirst DEF Effect, Interest, Data
    <3> QED
      BY <3>1, PacketsOnly
  <2>2. CASE Timeout(e)
    <3>1. /\ q \ {e} \subseteq q'
          /\ \A p \in q' : p \in q \ {e} \/ p.kind \in {"interest", "timeout"}
      <4>1. CASE StaleTimeout(e) \/ GiveUp(e)
        BY <4>1 DEF StaleTimeout, GiveUp
      <4>2. CASE Retransmit(e)
        <5>1. \A p \in Reissued(e) : p.kind \in {"interest", "timeout"}
          BY DEF Reissued, InterestEvent, TimeoutEvent
        <5> QED
          BY <4>2, <5>1 DEF Retransmit
      <4> QED
        BY <2>2, <4>1, <4>2 DEF Timeout
    <3> QED
      BY <1>1, <3>1 DEF ToggleEvents, ApplyEvents, OfKind
  <2> QED
    BY <2>1, <2>2
<1>5. AbstractToggles' = AbstractToggles /\ AbstractApplies' = AbstractApplies
  BY <1>4 DEF AbstractToggles, AbstractApplies
<1>6. \A o \in AbstractToggles \cup AbstractApplies : now' <= o.at
  BY <1>1, <1>2
     DEF AbstractToggles, AbstractApplies, ToggleEvents, ApplyEvents, OfKind, ToggleOf, ApplyOf
<1> QED
  BY <1>1, <1>3, <1>5, <1>6, ControlMapping
     DEF Control!Elapse, AbstractToggles, AbstractApplies, ToggleEvents, ApplyEvents, ToggleOf,
         ApplyOf

LEMMA ControlStep ==
    ASSUME IInv, [Next]_vars, Horizon \in Nat, now' <= Horizon
    PROVE  [Control!Next]_(Control!vars)
<1>1. CASE UNCHANGED vars
  BY <1>1 DEF vars, Control!vars, OfKind
<1> QED
  BY <1>1, ToggleMaps, FibApplyMaps, OthersElapse DEF Next, Control!Next

LEMMA ControlInit == Init => Control!Init
<1> SUFFICES ASSUME Init PROVE Control!Init
  OBVIOUS
<1>1. PICK failures \in Schedules : q = InitialEvents(requests, failures)
  BY DEF Init
<1> DEFINE first(r) == InterestEvent(requests[r].start_ms, 2 * r - 2, r, requests[r].consumer, Local)
           timer(r) == TimeoutEvent(requests[r].start_ms + Lifetime, 2 * r - 1, r, 0)
           toggle(i) == ToggleEvent(failures[i], 2 * Len(requests) + i - 1, i)
           abstract(i) ==
             [at |-> failures[i].at, idx |-> i, link |-> failures[i].link, up |-> failures[i].up]
<1>2. q = {first(r) : r \in DOMAIN requests} \cup {timer(r) : r \in DOMAIN requests}
            \cup {toggle(i) : i \in DOMAIN failures}
  BY <1>1 DEF InitialEvents
<1>3. /\ \A r \in DOMAIN requests : first(r).kind = "interest" /\ timer(r).kind = "timeout"
      /\ \A i \in DOMAIN failures : toggle(i).kind = "toggle" /\ ToggleOf(toggle(i)) = abstract(i)
  BY DEF InterestEvent, TimeoutEvent, ToggleEvent, ToggleOf
<1> HIDE DEF first, timer, toggle, abstract
<1>4. ToggleEvents = {toggle(i) : i \in DOMAIN failures} /\ ApplyEvents = {}
  BY <1>2, <1>3 DEF ToggleEvents, ApplyEvents, OfKind
<1>5. AbstractToggles = {abstract(i) : i \in DOMAIN failures}
  BY <1>3, <1>4 DEF AbstractToggles
<1>6. AbstractApplies = {}
  BY <1>4 DEF AbstractApplies
<1>7. cstats = [fib_pushes |-> 0, control_messages_tx |-> Control!BootstrapMessages,
                reconvergence_events |-> 0, total_reconvergence_ms |-> 0]
  BY SameCardinality
     DEF Init, Control!BootstrapMessages, Control!Provisioned, Control!Routes, Routes,
         Centralized, Control!Centralized
<1>8. /\ forwarding \in Forwarding /\ active = Link /\ now = 0
      /\ last = Control!Provisioned /\ fib = Control!Provisioned
  BY DEF Init, Control!Provisioned, Control!Routes, Routes
<1>9. {[at |-> e.t, idx |-> e.idx, link |-> e.link, up |-> e.up] : e \in OfKind("toggle")}
        = {[at |-> failures[i].at, idx |-> i, link |-> failures[i].link, up |-> failures[i].up]
             : i \in DOMAIN failures}
  BY <1>5, ControlMapping DEF abstract
<1> QED
  BY <1>6, <1>7, <1>8, <1>9, ControlMapping DEF Control!Init

(* With any amount of traffic in between, toggles are handled and FIBs     *)
(* installed as ControlPlane says, before any Horizon.                     *)
THEOREM FibsImplementControlPlane ==
    ASSUME Horizon \in Nat
    PROVE  Spec /\ [](now <= Horizon) => ImplementsControlPlane
<1>1. IInv /\ [Next]_vars /\ (now <= Horizon)' => [Control!Next]_(Control!vars)
  BY ControlStep
<1> QED
  BY <1>1, ControlInit, AlwaysIInv, PTL DEF Spec, ImplementsControlPlane

-----------------------------------------------------------------------------
(* What is proved of RequestLifecycle therefore holds of the NDN engine.   *)
RL == INSTANCE RequestLifecycleProofs WITH
    Consumer <- Node,
    timeouts <- {[at |-> e.t, req |-> e.req, attempt |-> e.attempt] : e \in OfKind("timeout")},
    tally <- [completed_requests |-> stats.completed_requests,
              timed_out_requests |-> stats.timed_out_requests,
              retransmissions |-> stats.retransmissions]

(* The assumptions RequestLifecycle makes hold here.                       *)
LEMMA LifecycleAssumptions ==
    ASSUME Horizon \in Nat
    PROVE  /\ Workloads \subseteq Seq(RL!RequestSpec)
           /\ Lifetime \in Nat /\ MaxRetransmissions \in Nat /\ Horizon \in Nat
BY ParameterAssumption, InputAssumption DEF RL!RequestSpec

LEMMA SameLifecycle ==
    /\ Lifecycle!Init <=> RL!Init
    /\ [Lifecycle!Next]_(Lifecycle!vars) <=> [RL!Next]_(RL!vars)
<1>1. \A r, t : Lifecycle!Complete(r, t) <=> RL!Complete(r, t)
  BY DEF Lifecycle!Complete, RL!Complete, Lifecycle!Reach, RL!Reach, Lifecycle!Closed, RL!Closed
<1>2. \A t : Lifecycle!Elapse(t) <=> RL!Elapse(t)
  BY DEF Lifecycle!Elapse, RL!Elapse, Lifecycle!Reach, RL!Reach
<1>3. Lifecycle!Timeout <=> RL!Timeout
  <2>1. \A e : Lifecycle!Pop(e) <=> RL!Pop(e)
    BY DEF Lifecycle!Pop, RL!Pop
  <2>2. \A e : Lifecycle!Ignored(e) <=> RL!Ignored(e)
    BY DEF Lifecycle!Ignored, RL!Ignored
  <2>3. \A e : Lifecycle!StaleTimeout(e) <=> RL!StaleTimeout(e)
    BY <2>1, <2>2 DEF Lifecycle!StaleTimeout, RL!StaleTimeout
  <2>4. \A e : Lifecycle!GiveUp(e) <=> RL!GiveUp(e)
    BY <2>1, <2>2 DEF Lifecycle!GiveUp, RL!GiveUp, Lifecycle!AttemptsLeft, RL!AttemptsLeft
  <2>5. \A e : Lifecycle!Retransmit(e) <=> RL!Retransmit(e)
    BY <2>1, <2>2
       DEF Lifecycle!Retransmit, RL!Retransmit, Lifecycle!AttemptsLeft, RL!AttemptsLeft,
           Lifecycle!NextAttempt, RL!NextAttempt, Lifecycle!Rearmed, RL!Rearmed,
           Lifecycle!TimeoutOf, RL!TimeoutOf
  <2> QED
    BY <2>3, <2>4, <2>5 DEF Lifecycle!Timeout, RL!Timeout
<1>4. Lifecycle!Init <=> RL!Init
  BY DEF Lifecycle!Init, RL!Init, Lifecycle!TimeoutOf, RL!TimeoutOf
<1> QED
  BY <1>1, <1>2, <1>3, <1>4 DEF Lifecycle!Next, RL!Next, Lifecycle!vars, RL!vars

LEMMA LifecycleKept ==
    ASSUME Horizon \in Nat
    PROVE  Spec /\ [](now <= Horizon) => []RL!IInv
<1>1. IInv /\ [Next]_vars /\ (now <= Horizon)' => [RL!Next]_(RL!vars)
  BY LifecycleStep, SameLifecycle
<1>2. Init => RL!Init
  BY LifecycleInit, SameLifecycle
<1>3. RL!Init => RL!IInv
  BY LifecycleAssumptions, RL!InitIInv
<1>4. RL!IInv /\ [RL!Next]_(RL!vars) => RL!IInv'
  BY LifecycleAssumptions, RL!StepIInv
<1> QED
  BY <1>1, <1>2, <1>3, <1>4, AlwaysIInv, PTL DEF Spec

(* Whatever the network does: a request is open no longer than its         *)
(* retransmissions last, counted once as completed or timed out, and has   *)
(* exactly one timeout ahead while it is open.                             *)
THEOREM RequestsMeetDeadlines ==
    ASSUME Horizon \in Nat
    PROVE  Spec /\ [](now <= Horizon)
             => [](RL!DeadlineHolds /\ RL!ResolvedOnce /\ RL!OneLiveTimeout)
<1>1. RL!IInv => RL!DeadlineHolds /\ RL!ResolvedOnce /\ RL!OneLiveTimeout
  <2>1. RL!IInv => RL!DeadlineHolds
    BY LifecycleAssumptions, RL!WithinDeadline
  <2>2. RL!IInv => RL!ResolvedOnce /\ RL!OneLiveTimeout
    BY DEF RL!IInv
  <2> QED
    BY <2>1, <2>2
<1> QED
  BY <1>1, LifecycleKept, PTL

(* No request is given up before the end of its last attempt, and nothing  *)
(* that is still under way touches a request that is resolved.             *)
THEOREM ResolutionsAreFinal ==
    ASSUME Horizon \in Nat
    PROVE  Spec /\ [](now <= Horizon) => RL!GivenUpAtDeadline /\ RL!ResolutionIsFinal
<1>1. IInv /\ [Next]_vars /\ (now <= Horizon)' => [RL!Next]_(RL!vars)
  BY LifecycleStep, SameLifecycle
<1>2. RL!IInv /\ [RL!Next]_(RL!vars) => [RL!GivesUpInTime]_(RL!vars)
  BY LifecycleAssumptions, RL!GiveUpStepInTime
<1>3. RL!IInv /\ [RL!Next]_(RL!vars) => [RL!LeavesResolved]_(RL!vars)
  BY LifecycleAssumptions, RL!ResolvedLeftAlone
<1> QED
  BY <1>1, <1>2, <1>3, LifecycleKept, AlwaysIInv, PTL
     DEF Spec, RL!GivenUpAtDeadline, RL!ResolutionIsFinal

-----------------------------------------------------------------------------
(* And so does what is proved of ControlPlane.                             *)
CP == INSTANCE ControlPlaneProofs WITH
    Table <- TablesInUse, installed <- fib, stats <- cstats,
    toggles <- {[at |-> e.t, idx |-> e.idx, link |-> e.link, up |-> e.up]
                : e \in OfKind("toggle")},
    pending <- {[at |-> e.t, n |-> e.n, table |-> e.table, delay |-> e.delay]
                : e \in OfKind("fib_apply")}

(* The assumptions ControlPlane makes hold here.                           *)
LEMMA ControlAssumptions ==
    ASSUME Horizon \in Nat
    PROVE  /\ CP!IsFiniteSet(Node)
           /\ EmptyTable \in TablesInUse
           /\ RoutesOf \in [Forwarding -> [SUBSET Link -> [Node -> TablesInUse]]]
           /\ Rtt \in Nat /\ Horizon \in Nat
           /\ Schedules \subseteq Seq(CP!FailureEventSpec)
<1>1. \A f \in Forwarding, up \in SUBSET Link, n \in Node : RoutesOf[f][up][n] \in TablesInUse
  BY DEF TablesInUse
<1>2. RoutesOf \in [Forwarding -> [SUBSET Link -> [Node -> TablesInUse]]]
  <2> HIDE DEF TablesInUse
  <2>1. RoutesOf = [f \in Forwarding |->
                     [up \in SUBSET Link |-> [n \in Node |-> RoutesOf[f][up][n]]]]
    BY NetworkAssumption
  <2>2. \A f \in Forwarding, up \in SUBSET Link : RoutesOf[f][up] \in [Node -> TablesInUse]
    <3> SUFFICES ASSUME NEW f \in Forwarding, NEW up \in SUBSET Link
                 PROVE  RoutesOf[f][up] \in [Node -> TablesInUse]
      OBVIOUS
    <3>1. RoutesOf[f] = [u \in SUBSET Link |-> [n \in Node |-> RoutesOf[f][u][n]]]
      BY <2>1
    <3>2. RoutesOf[f][up] = [n \in Node |-> RoutesOf[f][up][n]]
      BY <3>1
    <3> QED
      BY <1>1, <3>2
  <2>3. \A f \in Forwarding : RoutesOf[f] \in [SUBSET Link -> [Node -> TablesInUse]]
    BY <2>1, <2>2
  <2> QED
    BY <2>1, <2>3
<1>3. EmptyTable \in TablesInUse
  BY DEF TablesInUse
<1>4. CP!IsFiniteSet(Node)
  BY NetworkAssumption DEF CP!IsFiniteSet, IsFiniteSet
<1> QED
  BY <1>2, <1>3, <1>4, ParameterAssumption, InputAssumption DEF CP!FailureEventSpec

LEMMA SameControl ==
    /\ Control!Init <=> CP!Init
    /\ [Control!Next]_(Control!vars) <=> [CP!Next]_(CP!vars)
<1>1. Control!Toggle <=> CP!Toggle
  BY DEF Control!Toggle, CP!Toggle, Control!NextToggle, CP!NextToggle, Control!ToggleBefore,
         CP!ToggleBefore, Control!Centralized, CP!Centralized, Control!Push, CP!Push,
         Control!Pushed, CP!Pushed, Control!Delay, CP!Delay, Control!Changed, CP!Changed,
         Control!Remember, CP!Remember, Control!PushStats, CP!PushStats, Control!RebuildLocally,
         CP!RebuildLocally, Control!Routes, CP!Routes, Control!SetLinkActive, CP!SetLinkActive,
         Control!Cardinality, CP!Cardinality
<1>2. Control!Apply <=> CP!Apply
  BY DEF Control!Apply, CP!Apply, Control!NextApply, CP!NextApply, Control!ApplyBefore,
         CP!ApplyBefore
<1>3. Control!Elapse <=> CP!Elapse
  BY DEF Control!Elapse, CP!Elapse
<1>4. Control!Init <=> CP!Init
  BY DEF Control!Init, CP!Init, Control!BootstrapMessages, CP!BootstrapMessages,
         Control!Provisioned, CP!Provisioned, Control!Routes, CP!Routes, Control!Centralized,
         CP!Centralized, Control!Cardinality, CP!Cardinality
<1> QED
  BY <1>1, <1>2, <1>3, <1>4 DEF Control!Next, CP!Next, Control!vars, CP!vars

LEMMA ControlKept ==
    ASSUME Horizon \in Nat
    PROVE  Spec /\ [](now <= Horizon) => []CP!IInv
<1>1. IInv /\ [Next]_vars /\ (now <= Horizon)' => [CP!Next]_(CP!vars)
  BY ControlStep, SameControl
<1>2. Init => CP!Init
  BY ControlInit, SameControl
<1>3. CP!Init => CP!IInv
  BY ControlAssumptions, CP!InitIInv
<1>4. CP!IInv /\ [CP!Next]_(CP!vars) => CP!IInv'
  BY ControlAssumptions, CP!ToggleStep, CP!ApplyStep, CP!ElapseStep, CP!StutterStep DEF CP!Next
<1> QED
  BY <1>1, <1>2, <1>3, <1>4, AlwaysIInv, PTL DEF Spec

(* While Interests are forwarded with stale FIBs the right ones are on     *)
(* their way, due within one RTT and not to be overtaken; with no push in  *)
(* flight the FIBs are those of the topology.                              *)
THEOREM StalenessIsBounded ==
    ASSUME Horizon \in Nat
    PROVE  Spec /\ [](now <= Horizon) => [](CP!BoundedStaleness /\ CP!Converged)
<1>1. CP!IInv => CP!BoundedStaleness /\ CP!Converged
  BY ControlAssumptions, CP!StaleIsPending, CP!QuietIsConverged
<1> QED
  BY <1>1, ControlKept, PTL
=============================================================================
