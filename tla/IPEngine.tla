------------------------------ MODULE IPEngine ------------------------------
(***************************************************************************)
(* ip_fetch_event_driven: one packet per request travels hop by hop along  *)
(* whatever routing table each node has at the time, to the owner and back *)
(* to the consumer.  Nothing is sent again, and a packet carries no hop    *)
(* limit.  The heap and the links are those of the NDN engine.             *)
(***************************************************************************)
EXTENDS LinkTiming, Integers, FiniteSets, Sequences, FiniteSetsExt

CONSTANTS
    Node, Link, Name,
    OwnerOf,         \* [Name -> Node], _find_owner
    Workloads,       \* request lists, of [consumer, name, start_ms]
    Schedules,       \* failure lists, of [at, link, up]
    Forwarding,      \* values of cfg.forwarding
    Destinations,    \* every producer and every consumer of a workload
    RoutesOf,        \* [Forwarding -> [SUBSET Link -> [Node -> routing table]]], towards Destinations
    EmptyTable,
    Rtt, ProcessingDelay, RequestService, DataService,
    LinkRecord,      \* the links' parameters, see LinkTiming
    Horizon          \* bound on the clock of ControlPlane

ASSUME ParameterAssumption ==
    /\ Forwarding \subseteq {"distributed", "sdn-centralized"}
    /\ {Rtt, ProcessingDelay} \subseteq Nat
    /\ {RequestService, DataService} \subseteq Nat \ {0}
ASSUME DestinationAssumption ==
    \A w \in Workloads : \A r \in DOMAIN w : {w[r].consumer, OwnerOf[w[r].name]} \subseteq Destinations

ASSUME NetworkAssumption ==
    /\ IsFiniteSet(Node)
    /\ \A l \in Link : l \subseteq Node
    /\ LinkRecord \in [propagation : Nat, processing : Nat, queue_limit : Nat, lossy : BOOLEAN]
    /\ RoutesOf = [f \in Forwarding |->
                     [up \in SUBSET Link |-> [n \in Node |-> RoutesOf[f][up][n]]]]
(* No table sends a packet over a link that it was told is down.           *)
ASSUME RoutingAssumption ==
    \A f \in Forwarding, up \in SUBSET Link, n \in Node :
        \A d \in DOMAIN RoutesOf[f][up][n] : {n, RoutesOf[f][up][n][d]} \in up
(* Towards a destination the tables computed together follow one tree: the *)
(* nodes have ranks that descend along the next hops.  SearchProofs proves *)
(* this and the above of what either control plane computes (FollowTrees). *)
ASSUME TreeAssumption ==
    \A f \in Forwarding, up \in SUBSET Link, d \in Destinations :
        \E rank \in [Node -> 0 .. Cardinality(Node) - 1] :
            \A n \in Node : d \in DOMAIN RoutesOf[f][up][n] =>
                rank[RoutesOf[f][up][n][d]] < rank[n]
ASSUME InputAssumption ==
    /\ Workloads \subseteq Seq([consumer : Node, name : Name, start_ms : Nat])
    /\ Schedules \subseteq Seq([at : Nat, link : Link, up : BOOLEAN])

VARIABLES
    forwarding, \* cfg.forwarding, fixed for the run
    requests,   \* the request list
    q, seq,     \* the heap and its counter
    active,     \* the links that are up
    routes,     \* node_routes
    last,       \* SDNController._last_routes
    cstats,     \* ControllerStats
    busy,       \* LinkQueue.busy_until_ms of every directed link
    stats,      \* RunStats
    now         \* time of the last event popped

vars == <<forwarding, requests, q, seq, active, routes, last, cstats, busy, stats, now>>
control == <<forwarding, active, routes, last, cstats>>

Centralized == forwarding = "sdn-centralized"

Routes(up) == RoutesOf[forwarding][up]

Before(a, b) == a.t < b.t \/ (a.t = b.t /\ a.seq < b.seq)

Popped(e, kind) ==
    /\ e.kind = kind
    /\ \A o \in q \ {e} : Before(e, o)
    /\ now' = e.t

IPPacketEvent(t, n, r, dst, at, hops, phase) ==
    [t |-> t, seq |-> n, kind |-> "packet", req |-> r, dst |-> dst, at |-> at,
     hops |-> hops, phase |-> phase]
ToggleEvent(f, n, i) ==
    [t |-> f.at, seq |-> n, kind |-> "toggle", idx |-> i, link |-> f.link, up |-> f.up]
ApplyEvent(t, n, p, table, delay) ==
    [t |-> t, seq |-> n, kind |-> "routes_apply", n |-> p, table |-> table, delay |-> delay]

InitialEvents(reqs, failures) ==
    {IPPacketEvent(reqs[r].start_ms, r - 1, r, OwnerOf[reqs[r].name], reqs[r].consumer, 0, "request")
       : r \in DOMAIN reqs}
      \cup {ToggleEvent(failures[i], Len(reqs) + i - 1, i) : i \in DOMAIN failures}

Init ==
    /\ forwarding \in Forwarding
    /\ requests \in Workloads
    /\ \E failures \in Schedules :
          /\ q = InitialEvents(requests, failures)
          /\ seq = Len(requests) + Len(failures)
    /\ active = Link
    /\ routes = Routes(Link)
    /\ last = Routes(Link)
    /\ cstats = [fib_pushes |-> 0, reconvergence_events |-> 0, total_reconvergence_ms |-> 0,
                 control_messages_tx |->
                   IF Centralized
                     THEN Cardinality({n \in Node : Routes(Link)[n] # EmptyTable})
                     ELSE 0]
    /\ busy = [l \in {l \in Node \X Node : {l[1], l[2]} \in Link} |-> 0]
    /\ stats = [completed_requests |-> 0, dropped_interests |-> 0, dropped_data |-> 0,
                interest_tx |-> 0, data_tx |-> 0, queue_drops |-> 0, random_loss_drops |-> 0]
    /\ now = 0

-----------------------------------------------------------------------------
(* `toggle' and `routes_apply' events.                                     *)

SetLinkActive(e) == IF e.up THEN active \cup {e.link} ELSE active \ {e.link}

(* Mutant: the tables are in force when push_routes returns.               *)
NoDelay(changed) == 0

ControlDelay(changed) == IF changed = {} THEN 0 ELSE Rtt

PushRoutes(e, new) ==
    LET changed == {n \in Node : last[n] # new[n]}
        delay == ControlDelay(changed)
    IN /\ last' = new
       /\ cstats' =
            [fib_pushes |-> cstats.fib_pushes + 1,
             control_messages_tx |-> cstats.control_messages_tx + Cardinality(changed),
             reconvergence_events |->
                 cstats.reconvergence_events + (IF changed = {} THEN 0 ELSE 1),
             total_reconvergence_ms |-> cstats.total_reconvergence_ms + delay]
       /\ q' = (q \ {e}) \cup {ApplyEvent(e.t + delay, seq, cstats.fib_pushes, new, delay)}
       /\ seq' = seq + 1
       /\ UNCHANGED routes

(* Mutant: the tables are left as they were.                               *)
RoutesKept(new) == routes' = routes

RoutesBuilt(new) == routes' = new

(* Mutant: the event is looked at and stays on the heap.                   *)
Unpopped(e) == q

Handled(e) == q \ {e}

BuildRoutes(e, new) ==
    /\ RoutesBuilt(new)
    /\ q' = Handled(e)
    /\ UNCHANGED <<seq, last, cstats>>

Toggle(e) ==
    /\ Popped(e, "toggle")
    /\ active' = SetLinkActive(e)
    /\ IF Centralized THEN PushRoutes(e, Routes(SetLinkActive(e)))
                      ELSE BuildRoutes(e, Routes(SetLinkActive(e)))
    /\ UNCHANGED <<forwarding, requests, busy, stats>>

(* Mutant: the loop over the nodes begins one too late.                    *)
InstalledButFirst(table) == [table EXCEPT ![Min(Node)] = routes[Min(Node)]]

Installed(table) == table

RoutesApply(e) ==
    /\ Popped(e, "routes_apply")
    /\ routes' = Installed(e.table)
    /\ q' = q \ {e}
    /\ UNCHANGED <<forwarding, requests, seq, active, last, cstats, busy, stats>>

-----------------------------------------------------------------------------
(* `packet' events.                                                        *)

Count(s, field) == [s EXCEPT ![field] = @ + 1]

DropCounter(e) == IF e.phase = "request" THEN "dropped_interests" ELSE "dropped_data"

TurnAround(e) ==
    /\ e.at = e.dst
    /\ e.phase = "request"
    /\ q' = (q \ {e}) \cup
              {IPPacketEvent(e.t, seq, e.req, requests[e.req].consumer, e.at, e.hops, "response")}
    /\ seq' = seq + 1
    /\ UNCHANGED <<busy, stats>>

Completed(e) ==
    /\ e.at = e.dst
    /\ e.phase = "response"
    /\ q' = q \ {e}
    /\ stats' = Count(stats, "completed_requests")
    /\ UNCHANGED <<seq, busy>>

NoRoute(e) ==
    /\ e.at # e.dst
    /\ e.dst \notin DOMAIN routes[e.at]
    /\ q' = q \ {e}
    /\ stats' = Count(stats, DropCounter(e))
    /\ UNCHANGED <<seq, busy>>

(* One traversal of the link to the next hop, of a packet that is lost or  *)
(* not by chance.                                                          *)
Traversal(e, lost) ==
    LET next_hop == routes[e.at][e.dst]
    IN Traverse(LinkRecord, {e.at, next_hop} \in active, busy[<<e.at, next_hop>>], e.t,
                IF e.phase = "request" THEN RequestService ELSE DataService,
                ProcessingDelay, lost)

DropOnLink(e, result) ==
    /\ ~result.ok
    /\ q' = q \ {e}
    /\ stats' = Count(Count(stats, DropCounter(e)),
                      IF result.reason = "random_loss" THEN "random_loss_drops" ELSE "queue_drops")
    /\ UNCHANGED <<seq, busy>>

(* Mutant: the packet stays at its node as well.                           *)
SentCopy(e, result, v) ==
    q \cup {IPPacketEvent(result.arrival, seq, e.req, e.dst, v, e.hops + 1, e.phase)}

Sent(e, result, v) ==
    (q \ {e}) \cup
      {IPPacketEvent(result.arrival, seq, e.req, e.dst, v, e.hops + 1, e.phase)}

Transmit(e, result) ==
    LET next_hop == routes[e.at][e.dst]
    IN /\ result.ok
       /\ q' = Sent(e, result, next_hop)
       /\ seq' = seq + 1
       /\ busy' = [busy EXCEPT ![<<e.at, next_hop>>] = result.busy]
       /\ stats' = Count(stats, IF e.phase = "request" THEN "interest_tx" ELSE "data_tx")

Packet(e) ==
    /\ Popped(e, "packet")
    /\ \/ TurnAround(e)
       \/ Completed(e)
       \/ NoRoute(e)
       \/ /\ e.at # e.dst
          /\ e.dst \in DOMAIN routes[e.at]
          /\ \E lost \in IF LinkRecord.lossy THEN BOOLEAN ELSE {FALSE} :
                DropOnLink(e, Traversal(e, lost)) \/ Transmit(e, Traversal(e, lost))
    /\ UNCHANGED <<requests, control>>

Next == \E e \in q : Toggle(e) \/ RoutesApply(e) \/ Packet(e)

(* `while q': the loop runs until the heap is empty.                       *)
Spec == Init /\ [][Next]_vars /\ WF_vars(Next)

-----------------------------------------------------------------------------
Packets == {e \in q : e.kind = "packet"}

(* A request has exactly one packet, bound for the owner of the name or,   *)
(* as a response, for the consumer who asked; it ends in exactly one way,  *)
(* completed, or dropped and counted.                                      *)
OnePacketPerRequest ==
    /\ \A a, b \in Packets : a.req = b.req => a = b
    /\ Cardinality(Packets) + stats.completed_requests + stats.dropped_interests
         + stats.dropped_data = Len(requests)
    /\ \A e \in Packets :
          e.dst = IF e.phase = "request" THEN OwnerOf[requests[e.req].name]
                                         ELSE requests[e.req].consumer

(* No endless loop although packets have no hop limit: on each leg, between *)
(* two changes of the tables, a packet follows one tree.                   *)
HopsBounded ==
    LET changes == Max({Len(s) : s \in Schedules})
    IN \A e \in Packets : e.hops <= (2 + changes) * (Cardinality(Node) - 1)

(* A next hop over a dead link is a sign of tables in flight: there is     *)
(* none under distributed control, and none once the last push is          *)
(* installed.                                                              *)
DeadHopsOnlyWhileStale ==
    {e \in q : e.kind = "routes_apply"} = {} =>
        \A n \in Node : \A d \in DOMAIN routes[n] : {n, routes[n][d]} \in active

(* The engine returns.                                                     *)
EngineReturns == <>(q = {})

(* The routing tables implement ControlPlane.                              *)
TablesInUse ==
    {EmptyTable} \cup {RoutesOf[f][up][n] : f \in Forwarding, up \in SUBSET Link, n \in Node}

Control == INSTANCE ControlPlane WITH
    Table <- TablesInUse, installed <- routes, stats <- cstats,
    toggles <- {[at |-> e.t, idx |-> e.idx, link |-> e.link, up |-> e.up]
                : e \in {e \in q : e.kind = "toggle"}},
    pending <- {[at |-> e.t, n |-> e.n, table |-> e.table, delay |-> e.delay]
                : e \in {e \in q : e.kind = "routes_apply"}}

(* Toggles are handled and pushed tables installed in the order and at the *)
(* times ControlPlane says, with any amount of traffic in between.         *)
ImplementsControlPlane == Control!Init /\ [][Control!Next]_(Control!vars)
=============================================================================
