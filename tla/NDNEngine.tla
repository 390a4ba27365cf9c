----------------------------- MODULE NDNEngine -----------------------------
(***************************************************************************)
(* ndn_fetch_event_driven: consumers, routers and producers around one     *)
(* heap of events.  Each action is one event popped from it: a link        *)
(* toggle, the installation of pushed FIBs, a consumer's timeout, an       *)
(* Interest or a Data packet at a node.                                    *)
(*                                                                         *)
(* Random draws (loss, invalid data, the probabilistic strategy) and the   *)
(* order of a set's elements are left open.  A FIB is keyed by the         *)
(* producer a prefix belongs to.  A node's Content Store is the abstract   *)
(* ContentStore that every policy of cache.py implements (see Caches).     *)
(***************************************************************************)
EXTENDS LinkTiming, Integers, FiniteSets, Sequences, SequencesExt

CONSTANTS
    Node, Link,          \* nodes and undirected links
    Name, OwnerOf,       \* names, and [Name -> Node], _find_owner
    Workloads,           \* request lists, of [consumer, name, start_ms]
    Schedules,           \* failure lists, of [at, link, up]
    Forwarding,          \* the strategies, values of cfg.forwarding
    RoutesOf,            \* [Forwarding -> [SUBSET Link -> [Node -> FIB]]]
    EmptyTable,          \* the FIB without an entry
    Lifetime, MaxRetransmissions, PitCapacity, Rtt,
    CacheSize, CacheTtl, AdmitThreshold,   \* of the Content Stores; TTL 0 is none
    CacheTopK, CachePlacement, LearnPercent,   \* sdn-coordinated; top_k 0 is off
    LinkRecord,          \* the links' parameters, see LinkTiming
    InterestService, DataService,   \* transmission times
    ProcessingDelay, VerificationDelay,
    VerifyData, InvalidRate,        \* verify_data, invalid_data_rate > 0
    Horizon                         \* bound on the clock of the abstract specifications

Local == -1    \* the consumer's own face

ASSUME ForwardingAssumption ==
    Forwarding \subseteq {"best-route", "sdn-centralized", "flooding", "probabilistic"}
ASSUME ParameterAssumption ==
    /\ {Lifetime, MaxRetransmissions, PitCapacity, Rtt, LearnPercent} \subseteq Nat
    /\ {CacheSize, CacheTtl, AdmitThreshold, CacheTopK} \subseteq Nat
    /\ {InterestService, DataService} \subseteq Nat \ {0}
    /\ {ProcessingDelay, VerificationDelay} \subseteq Nat
    /\ {VerifyData, InvalidRate} \subseteq BOOLEAN
ASSUME NetworkAssumption ==
    /\ IsFiniteSet(Node) /\ IsFiniteSet(Name) /\ Local \notin Node
    /\ \A l \in Link : l \subseteq Node
    /\ LinkRecord \in [propagation : Nat, processing : Nat, queue_limit : Nat, lossy : BOOLEAN]
    /\ OwnerOf \in [Name -> Node]
    /\ RoutesOf = [f \in Forwarding |->
                     [up \in SUBSET Link |-> [n \in Node |-> RoutesOf[f][up][n]]]]
(* No FIB entry names a next hop twice.                                    *)
ASSUME FibAssumption ==
    \A f \in Forwarding, up \in SUBSET Link, n \in Node :
        \A owner \in DOMAIN RoutesOf[f][up][n] :
            LET hops == RoutesOf[f][up][n][owner]
            IN hops \in Seq(Node) /\ \A i, j \in DOMAIN hops : hops[i] = hops[j] => i = j
ASSUME InputAssumption ==
    /\ Workloads \subseteq Seq([consumer : Node, name : Name, start_ms : Nat])
    /\ Schedules \subseteq Seq([at : Nat, link : Link, up : BOOLEAN])

VARIABLES
    forwarding, \* cfg.forwarding, fixed for the run
    requests,   \* the request list
    rs,         \* request_states
    q,          \* the heap
    seq,        \* itertools.count()
    active,     \* the links that are up
    fib,        \* NodeState.fib of every node
    last,       \* SDNController._last_fibs
    cstats,     \* ControllerStats
    pit,        \* NodeState.pit of every node
    allowed,    \* the directive of each node's Content Store; {} admits all
    cs,         \* each node's Content Store: when the names it holds were put
    busy,       \* LinkQueue.busy_until_ms of every directed link
    stats,      \* RunStats
    now         \* time of the last event popped

vars == <<forwarding, requests, rs, q, seq, active, fib, last, cstats, allowed, pit, cs, busy, stats, now>>
control == <<forwarding, allowed, active, fib, last, cstats>>
consumers == <<requests, rs>>

CS == INSTANCE ContentStore
P == INSTANCE Placement

Centralized == forwarding = "sdn-centralized"

Routes(up) == RoutesOf[forwarding][up]

-----------------------------------------------------------------------------
(* The heap, and the start of the engine.                                  *)

Before(a, b) == a.t < b.t \/ (a.t = b.t /\ a.seq < b.seq)

Popped(e, kind) ==
    /\ e.kind = kind
    /\ \A o \in q \ {e} : Before(e, o)
    /\ now' = e.t

InterestEvent(t, n, r, at, prev) ==
    [t |-> t, seq |-> n, kind |-> "interest", req |-> r, at |-> at, prev |-> prev]
DataEvent(t, n, r, at, prev, verified) ==
    [t |-> t, seq |-> n, kind |-> "data", req |-> r, at |-> at, prev |-> prev,
     verified |-> verified]
TimeoutEvent(t, n, r, attempt) ==
    [t |-> t, seq |-> n, kind |-> "timeout", req |-> r, attempt |-> attempt]
ToggleEvent(f, n, i) ==
    [t |-> f.at, seq |-> n, kind |-> "toggle", idx |-> i, link |-> f.link, up |-> f.up]
ApplyEvent(t, n, p, table, delay) ==
    [t |-> t, seq |-> n, kind |-> "fib_apply", n |-> p, table |-> table, delay |-> delay]

InitialEvents(reqs, failures) ==
    {InterestEvent(reqs[r].start_ms, 2 * r - 2, r, reqs[r].consumer, Local) : r \in DOMAIN reqs}
      \cup {TimeoutEvent(reqs[r].start_ms + Lifetime, 2 * r - 1, r, 0) : r \in DOMAIN reqs}
      \cup {ToggleEvent(failures[i], 2 * Len(reqs) + i - 1, i) : i \in DOMAIN failures}

ZeroStats ==
    [completed_requests |-> 0, timed_out_requests |-> 0, retransmissions |-> 0,
     interest_tx |-> 0, data_tx |-> 0, dropped_interests |-> 0, dropped_data |-> 0,
     queue_drops |-> 0, random_loss_drops |-> 0, pit_overflow_drops |-> 0,
     cache_hits |-> 0, producer_serves |-> 0, verification_failures |-> 0,
     cache_directives_pushed |-> 0]

Owners == {OwnerOf[name] : name \in Name}
Consumers == {requests[r].consumer : r \in DOMAIN requests}

CacheDirectives ==
    IF CacheTopK = 0 THEN [u \in Node |-> {}]
    ELSE P!CacheDirectives(requests, LearnPercent, CacheTopK,
                           P!PlacementNodes(CachePlacement, Owners, Consumers, Node), Node)

Init ==
    /\ forwarding \in Forwarding
    /\ requests \in Workloads
    /\ rs = [r \in DOMAIN requests |->
               [completed |-> FALSE, attempts |-> 0, current_attempt |-> 0]]
    /\ \E failures \in Schedules :
          /\ q = InitialEvents(requests, failures)
          /\ seq = 2 * Len(requests) + Len(failures)
    /\ active = Link
    /\ fib = Routes(Link)
    /\ last = Routes(Link)
    /\ cstats = [fib_pushes |-> 0, reconvergence_events |-> 0, total_reconvergence_ms |-> 0,
                 control_messages_tx |->
                   IF Centralized
                     THEN Cardinality({n \in Node : Routes(Link)[n] # EmptyTable})
                     ELSE 0]
    /\ pit = [n \in Node |-> <<>>]
    /\ allowed = CacheDirectives
    /\ cs = [n \in Node |-> CS!NoNames]
    /\ busy = [l \in {l \in Node \X Node : {l[1], l[2]} \in Link} |-> 0]
    /\ stats = [ZeroStats EXCEPT !.cache_directives_pushed =
                  Cardinality({p \in Node \X Name : p[2] \in allowed[p[1]]})]
    /\ now = 0

-----------------------------------------------------------------------------
(* `toggle' and `fib_apply' events: the control plane.                     *)

SetLinkActive(e) == IF e.up THEN active \cup {e.link} ELSE active \ {e.link}

(* Mutant: scheduled at the delay, not at now + delay.                     *)
DueAtDelay(e, delay) == delay

Due(e, delay) == e.t + delay

PushFibs(e, new) ==
    LET changed == {n \in Node : last[n] # new[n]}
        delay == IF changed = {} THEN 0 ELSE Rtt
    IN /\ last' = new
       /\ cstats' =
            [fib_pushes |-> cstats.fib_pushes + 1,
             control_messages_tx |-> cstats.control_messages_tx + Cardinality(changed),
             reconvergence_events |->
                 cstats.reconvergence_events + (IF changed = {} THEN 0 ELSE 1),
             total_reconvergence_ms |-> cstats.total_reconvergence_ms + delay]
       /\ q' = (q \ {e}) \cup {ApplyEvent(Due(e, delay), seq, cstats.fib_pushes, new, delay)}
       /\ seq' = seq + 1
       /\ UNCHANGED fib

RebuildFibs(e, new) ==
    /\ fib' = new
    /\ q' = q \ {e}
    /\ UNCHANGED <<seq, last, cstats>>

Toggle(e) ==
    /\ Popped(e, "toggle")
    /\ active' = SetLinkActive(e)
    /\ IF Centralized THEN PushFibs(e, Routes(SetLinkActive(e)))
                      ELSE RebuildFibs(e, Routes(SetLinkActive(e)))
    /\ UNCHANGED <<forwarding, consumers, allowed, pit, cs, busy, stats>>

FibApply(e) ==
    /\ Popped(e, "fib_apply")
    /\ fib' = e.table
    /\ q' = q \ {e}
    /\ UNCHANGED <<forwarding, consumers, allowed, seq, active, last, cstats, pit, cs, busy, stats>>

-----------------------------------------------------------------------------
(* `timeout' events: the consumers.                                        *)

Ignored(e) == rs[e.req].completed \/ e.attempt # rs[e.req].current_attempt

(* Mutants: no new timer; both events under one sequence number; the       *)
(* Interest's node and face swapped.                                       *)
ReissuedUntimed(e) ==
    {InterestEvent(e.t, seq, e.req, requests[e.req].consumer, Local)}

ReissuedTogether(e) ==
    {InterestEvent(e.t, seq, e.req, requests[e.req].consumer, Local),
     TimeoutEvent(e.t + Lifetime, seq, e.req, rs[e.req].current_attempt + 1)}

ReissuedSwapped(e) ==
    {InterestEvent(e.t, seq, e.req, Local, requests[e.req].consumer),
     TimeoutEvent(e.t + Lifetime, seq + 1, e.req, rs[e.req].current_attempt + 1)}

Reissued(e) ==
    {InterestEvent(e.t, seq, e.req, requests[e.req].consumer, Local),
     TimeoutEvent(e.t + Lifetime, seq + 1, e.req, rs[e.req].current_attempt + 1)}

StaleTimeout(e) ==
    /\ Ignored(e)
    /\ q' = q \ {e}
    /\ UNCHANGED <<rs, seq, stats>>

Retransmit(e) ==
    /\ ~Ignored(e)
    /\ rs[e.req].attempts < MaxRetransmissions
    /\ rs' = [rs EXCEPT ![e.req].attempts = @ + 1, ![e.req].current_attempt = @ + 1]
    /\ stats' = [stats EXCEPT !.retransmissions = @ + 1]
    /\ q' = (q \ {e}) \cup Reissued(e)
    /\ seq' = seq + 2

GiveUp(e) ==
    /\ ~Ignored(e)
    /\ rs[e.req].attempts >= MaxRetransmissions
    /\ rs' = [rs EXCEPT ![e.req].completed = TRUE]
    /\ stats' = [stats EXCEPT !.timed_out_requests = @ + 1]
    /\ q' = q \ {e}
    /\ UNCHANGED seq

Timeout(e) ==
    /\ Popped(e, "timeout")
    /\ StaleTimeout(e) \/ Retransmit(e) \/ GiveUp(e)
    /\ UNCHANGED <<requests, control, pit, cs, busy>>

-----------------------------------------------------------------------------
(* Sending.  What a handler sends is accumulated in a record of the heap,  *)
(* its counter, the links' queues and the statistics.                      *)

(* Mutant: the event is looked at and stays on the heap.                   *)
NetUnpopped(e) == [q |-> q, seq |-> seq, busy |-> busy, stats |-> stats]

Net(e) == [q |-> q \ {e}, seq |-> seq, busy |-> busy, stats |-> stats]

SetNet(net) ==
    q' = net.q /\ seq' = net.seq /\ busy' = net.busy /\ stats' = net.stats

Count(s, field) == [s EXCEPT ![field] = @ + 1]

InterestPacket ==
    [kind |-> "interest", service |-> InterestService, extra |-> ProcessingDelay,
     tx |-> "interest_tx", dropped |-> "dropped_interests"]

DataPacket(verified) ==
    [kind |-> "data", service |-> DataService,
     extra |-> ProcessingDelay + (IF VerifyData THEN VerificationDelay ELSE 0),
     tx |-> "data_tx", dropped |-> "dropped_data", verified |-> verified]

Crossing(e, packet, v, lost) ==
    Traverse(LinkRecord, {e.at, v} \in active, busy[<<e.at, v>>], e.t,
             packet.service, packet.extra, v \in lost)

PacketEvent(t, n, e, v, packet) ==
    IF packet.kind = "interest" THEN InterestEvent(t, n, e.req, v, e.at)
                                ELSE DataEvent(t, n, e.req, v, e.at, packet.verified)

(* forward_interest or forward_data to each of the hops in turn.  No two   *)
(* share a link, so they share nothing but the counter of the heap.        *)
Send(net, e, packet, hops, lost) ==
    LET crossing == [i \in DOMAIN hops |-> Crossing(e, packet, hops[i], lost)]
        accepted == {i \in DOMAIN hops : crossing[i].ok}
        refused == DOMAIN hops \ accepted
        unlucky == {i \in refused : crossing[i].reason = "random_loss"}
        turn(i) == Cardinality({j \in accepted : j < i})
    IN [q |-> net.q \cup {PacketEvent(crossing[i].arrival, net.seq + turn(i), e, hops[i], packet)
                            : i \in accepted},
        seq |-> net.seq + Cardinality(accepted),
        busy |-> [l \in DOMAIN busy |->
                    IF \E i \in accepted : l = <<e.at, hops[i]>>
                      THEN Crossing(e, packet, l[2], lost).busy ELSE busy[l]],
        stats |-> [net.stats EXCEPT ![packet.tx] = @ + Cardinality(accepted),
                                    ![packet.dropped] = @ + Cardinality(refused),
                                    !.random_loss_drops = @ + Cardinality(unlucky),
                                    !.queue_drops = @ + Cardinality(refused \ unlucky)]]

(* The draws a handler makes: which packets are lost, is the Data invalid. *)
Losses(faces) == IF LinkRecord.lossy THEN SUBSET faces ELSE {{}}

Verdicts == IF VerifyData /\ InvalidRate THEN BOOLEAN ELSE {TRUE}

CompleteRequest(r) == rs' = [rs EXCEPT ![r].completed = TRUE]

-----------------------------------------------------------------------------
(* `interest' events.                                                      *)

NameOf(e) == requests[e.req].name

(* Mutant: an entry that expires now still counts.                         *)
PurgedLate(u, t) == Restrict(pit[u], {n \in DOMAIN pit[u] : pit[u][n].expiry >= t})

Purged(u, t) == Restrict(pit[u], {n \in DOMAIN pit[u] : pit[u][n].expiry > t})

(* The hops of a FIB entry whose links are up, at their places in it.      *)
ActiveHops(hops, u) == Restrict(hops, {i \in DOMAIN hops : {u, hops[i]} \in active})

NextHopChoices(u, name) ==
    LET hops == IF OwnerOf[name] \in DOMAIN fib[u] THEN fib[u][OwnerOf[name]] ELSE <<>>
        usable == ActiveHops(hops, u)
    IN IF usable = <<>> THEN {<<>>}
       ELSE IF forwarding = "flooding" THEN {usable}
       ELSE IF forwarding = "probabilistic" THEN {<<v>> : v \in ToSet(usable)}
       ELSE {<<usable[Min(DOMAIN usable)]>>}

(* A cached copy or the producer's own: to the consumer here, or back.     *)
Answer(e, counter) ==
    IF e.prev = Local
      THEN /\ CompleteRequest(e.req)
           /\ SetNet([Net(e) EXCEPT !.stats = Count(Count(@, counter), "completed_requests")])
      ELSE /\ \E verified \in Verdicts, lost \in Losses({e.prev}) :
                 SetNet(Send([Net(e) EXCEPT !.stats = Count(@, counter)],
                             e, DataPacket(verified), <<e.prev>>, lost))
           /\ UNCHANGED rs

Settings(u) ==
    [capacity |-> CacheSize, ttl_ms |-> CacheTtl, admit_threshold |-> AdmitThreshold,
     allowed |-> allowed[u]]

Found(e) == CS!Lookup(Settings(e.at), cs[e.at], NameOf(e), e.t)

CacheHit(e) ==
    /\ Found(e).hit
    /\ Answer(e, "cache_hits")
    /\ pit' = [pit EXCEPT ![e.at] = Purged(e.at, e.t)]

ProducerServe(e) ==
    /\ ~Found(e).hit
    /\ e.at = OwnerOf[NameOf(e)]
    /\ Answer(e, "producer_serves")
    /\ pit' = [pit EXCEPT ![e.at] = Purged(e.at, e.t)]

Miss(e) == ~Found(e).hit /\ e.at # OwnerOf[NameOf(e)]

LaterOf(a, b) == IF a >= b THEN a ELSE b

Refreshed(entry, e) ==
    [faces |-> entry.faces \cup {e.prev}, expiry |-> LaterOf(entry.expiry, e.t + Lifetime)]

(* Mutant: an Interest is never seen as pending.                           *)
NeverPending(table, e) == FALSE

Pending(table, e) == NameOf(e) \in DOMAIN table

Aggregate(e) ==
    LET table == Purged(e.at, e.t)
    IN /\ Miss(e)
       /\ Pending(table, e)
       /\ pit' = [pit EXCEPT ![e.at] = [table EXCEPT ![NameOf(e)] = Refreshed(@, e)]]
       /\ SetNet(Net(e))
       /\ UNCHANGED rs

(* Mutant: one entry more than the capacity.                               *)
PitOverfull(table) == Cardinality(DOMAIN table) > PitCapacity

PitFull(table) == Cardinality(DOMAIN table) >= PitCapacity

PitOverflow(e) ==
    LET table == Purged(e.at, e.t)
    IN /\ Miss(e)
       /\ ~Pending(table, e)
       /\ PitFull(table)
       /\ pit' = [pit EXCEPT ![e.at] = table]
       /\ SetNet([Net(e) EXCEPT
            !.stats = Count(Count(@, "pit_overflow_drops"), "dropped_interests")])
       /\ UNCHANGED rs

NoNextHop(e) ==
    LET table == Purged(e.at, e.t)
    IN /\ Miss(e)
       /\ ~Pending(table, e)
       /\ ~PitFull(table)
       /\ NextHopChoices(e.at, NameOf(e)) = {<<>>}
       /\ pit' = [pit EXCEPT ![e.at] = table]
       /\ SetNet([Net(e) EXCEPT !.stats = Count(@, "dropped_interests")])
       /\ UNCHANGED rs

(* Not back where it came from, unless that is the only way.               *)
Onward(hops, e) ==
    IF Cardinality(DOMAIN hops) > 1
      THEN Restrict(hops, {i \in DOMAIN hops : hops[i] # e.prev}) ELSE hops

Inserted(table, e) ==
    [name \in DOMAIN table \cup {NameOf(e)} |->
       IF name = NameOf(e) THEN [faces |-> {e.prev}, expiry |-> e.t + Lifetime]
                           ELSE table[name]]

Forward(e) ==
    LET table == Purged(e.at, e.t)
    IN /\ Miss(e)
       /\ ~Pending(table, e)
       /\ ~PitFull(table)
       /\ \E hops \in NextHopChoices(e.at, NameOf(e)) \ {<<>>} :
             \E lost \in Losses(ToSet(Onward(hops, e))) :
                SetNet(Send(Net(e), e, InterestPacket, Onward(hops, e), lost))
       /\ pit' = [pit EXCEPT ![e.at] = Inserted(table, e)]
       /\ UNCHANGED rs

OfResolved(e) ==
    /\ rs[e.req].completed
    /\ SetNet(Net(e))
    /\ UNCHANGED <<rs, pit, cs>>

Interest(e) ==
    /\ Popped(e, "interest")
    /\ \/ OfResolved(e)
       \/ /\ ~rs[e.req].completed
          /\ \/ CacheHit(e)
             \/ ProducerServe(e)
             \/ Aggregate(e)
             \/ PitOverflow(e)
             \/ NoNextHop(e)
             \/ Forward(e)
          /\ cs' = [cs EXCEPT ![e.at] = Found(e).held]
    /\ UNCHANGED <<requests, control>>

-----------------------------------------------------------------------------
(* `data' events.                                                          *)

DropUnverified(e) ==
    /\ VerifyData /\ ~e.verified
    /\ SetNet([Net(e) EXCEPT !.stats = Count(@, "verification_failures")])
    /\ UNCHANGED <<rs, pit, cs>>

(* To every face of the PIT entry; to the consumer only if the Data is of  *)
(* its own request.                                                        *)
Delivered(e, faces) ==
    IF Local \notin faces THEN Net(e)
    ELSE [Net(e) EXCEPT !.stats = Count(@, IF e.at = requests[e.req].consumer
                                             THEN "completed_requests" ELSE "dropped_data")]

(* Mutant: the entry stays when it has been satisfied.                     *)
PitKept(u, name) == pit[u]

PitPopped(u, name) == Restrict(pit[u], DOMAIN pit[u] \ {name})

Satisfy(e) ==
    LET faces == pit[e.at][NameOf(e)].faces
    IN /\ NameOf(e) \in DOMAIN pit[e.at]
       /\ \E order \in SetToSeqs(faces \ {Local}), lost \in Losses(faces \ {Local}) :
             SetNet(Send(Delivered(e, faces), e, DataPacket(e.verified), order, lost))
       /\ IF Local \in faces /\ e.at = requests[e.req].consumer
            THEN CompleteRequest(e.req) ELSE UNCHANGED rs
       /\ pit' = [pit EXCEPT ![e.at] = PitPopped(e.at, NameOf(e))]

(* No entry (expired, or satisfied before): good for this consumer only.   *)
Unsolicited(e) ==
    /\ NameOf(e) \notin DOMAIN pit[e.at]
    /\ UNCHANGED pit
    /\ IF e.at = requests[e.req].consumer
         THEN /\ CompleteRequest(e.req)
              /\ SetNet([Net(e) EXCEPT !.stats = Count(@, "completed_requests")])
         ELSE /\ SetNet([Net(e) EXCEPT !.stats = Count(@, "dropped_data")])
              /\ UNCHANGED rs

Data(e) ==
    /\ Popped(e, "data")
    /\ \/ OfResolved(e)
       \/ /\ ~rs[e.req].completed
          /\ \/ DropUnverified(e)
             \/ /\ ~VerifyData \/ e.verified
                /\ \E held \in CS!Stores(Settings(e.at), cs[e.at], NameOf(e), e.t) :
                      cs' = [cs EXCEPT ![e.at] = held]
                /\ Satisfy(e) \/ Unsolicited(e)
    /\ UNCHANGED <<requests, control>>

-----------------------------------------------------------------------------
Next ==
    \E e \in q : Toggle(e) \/ FibApply(e) \/ Timeout(e) \/ Interest(e) \/ Data(e)

(* `while q': the loop runs until the heap is empty.                       *)
Spec == Init /\ [][Next]_vars /\ WF_vars(Next)
=============================================================================
