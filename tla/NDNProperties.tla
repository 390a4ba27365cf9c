--------------------------- MODULE NDNProperties ---------------------------
(***************************************************************************)
(* What the NDN engine promises, and the two abstract specifications it    *)
(* implements: RequestLifecycle for its consumers, ControlPlane for its    *)
(* forwarding tables.                                                      *)
(***************************************************************************)
EXTENDS NDNEngine

OfKind(kind) == {e \in q : e.kind = kind}

InFlight(kind) == {e \in OfKind(kind) : e.prev # Local}

Entries == {p \in Node \X Name : p[2] \in DOMAIN pit[p[1]]}

(* Every variable holds what the code keeps in it. *)
TypeOK ==
    /\ requests \in Workloads
    /\ rs \in [DOMAIN requests -> [completed : BOOLEAN, attempts : Nat, current_attempt : Nat]]
    /\ \A e \in q : e.t \in Nat /\ e.seq \in Nat
    /\ \A e \in OfKind("interest") \cup OfKind("data") :
          e.req \in DOMAIN requests /\ e.at \in Node /\ e.prev \in Node \cup {Local}
    /\ active \subseteq Link
    /\ \A p \in Entries : pit[p[1]][p[2]] \in [faces : SUBSET (Node \cup {Local}), expiry : Nat]
    /\ allowed \in [Node -> SUBSET Name]
    /\ \A n \in Node : cs[n] \in [DOMAIN cs[n] -> Nat] /\ DOMAIN cs[n] \subseteq Name
    /\ \A l \in DOMAIN busy : busy[l] \in Nat
    /\ \A field \in DOMAIN stats : stats[field] \in Nat

(* The heap never compares two events by their payload, which Python could *)
(* not order, and never runs backwards.                                    *)
HeapWellFormed ==
    /\ \A a, b \in q : a.seq = b.seq => a = b
    /\ \A e \in q : now <= e.t /\ e.seq < seq

(* NDN's flow balance: every Data sent over a link answers an Interest     *)
(* that came over it, and the answers still owed (Interests on their way,  *)
(* faces remembered in a PIT) are backed by one each: no Interest is       *)
(* answered twice.                                                         *)
FlowBalance ==
    LET owed == {<<p[1], p[2], f>> : p \in Entries, f \in Node}
        faces == {o \in owed : o[3] \in pit[o[1]][o[2]].faces}
    IN stats.data_tx + Cardinality(InFlight("interest")) + Cardinality(faces)
         <= stats.interest_tx

(* The PIT of a node never holds more than pit_capacity entries, and none  *)
(* outlives the last Interest merged into it by more than a lifetime.      *)
PitBounded ==
    /\ \A n \in Node : Cardinality(DOMAIN pit[n]) <= PitCapacity
    /\ \A p \in Entries : pit[p[1]][p[2]].expiry <= now + Lifetime

(* An Interest that its consumer issues for a name no other request of     *)
(* this node asks for, while no face but the consumer's waits for it.      *)
Alone(e) ==
    /\ e.prev = Local /\ ~rs[e.req].completed
    /\ \A r \in DOMAIN requests \ {e.req} :
          ~(requests[r].name = NameOf(e) /\ requests[r].consumer = e.at)
    /\ NameOf(e) \in DOMAIN pit[e.at] => pit[e.at][NameOf(e)].faces \subseteq {Local}

(* Such an Interest is never swallowed by the PIT entry its own request    *)
(* left behind, although it leaves at the very instant that entry expires: *)
(* it is answered, sent, or counted as dropped.                            *)
LoneInterestProceeds ==
    [][\A e \in OfKind("interest") \ q' : Alone(e) => stats' # stats]_vars

(* An answer stays in every Content Store it passes.                       *)
AnswersKept ==
    CacheSize >= Cardinality(Name) /\ CacheTtl = 0 /\ AdmitThreshold <= 1 /\ CacheTopK = 0

(* No Interest spends a lifetime on one link, waiting for it included.     *)
QuickLinks ==
    (LinkRecord.queue_limit + 1) * InterestService + LinkRecord.propagation
      + LinkRecord.processing + ProcessingDelay < Lifetime

(* No broadcast storm, although Interests carry neither a hop limit nor a  *)
(* nonce: a copy that comes back meets the pending entry or the cached     *)
(* answer, and copies cross no more links in all than if every issue of a  *)
(* request crossed each link once each way.  Without the answer in the     *)
(* caches a copy that comes behind it is forwarded again; a copy that is   *)
(* under way for a lifetime can outlive the entries meant for it.          *)
NoStorm ==
    AnswersKept /\ QuickLinks =>
        stats.interest_tx <= (Len(requests) + stats.retransmissions) * 2 * Cardinality(Link)

(* A Content Store holds at most cache_size names, all of which its        *)
(* directive admits, and never those its own node produces.  Between nodes *)
(* that have a directive no name is cached twice: the controller's plan    *)
(* keeps copies apart, however traffic flows.                              *)
CacheWithinDirective ==
    /\ \A n \in Node :
          /\ Cardinality(DOMAIN cs[n]) <= CacheSize
          /\ \A name \in DOMAIN cs[n] : OwnerOf[name] # n
    /\ LET directed == {n \in Node : allowed[n] # {}}
       IN \A n \in directed :
             /\ DOMAIN cs[n] \subseteq allowed[n]
             /\ \A m \in directed \ {n} : DOMAIN cs[m] \cap DOMAIN cs[n] = {}

(* The engine returns: whatever is lost, refused or sent in circles, the   *)
(* heap empties.                                                           *)
EngineReturns == <>(q = {})

-----------------------------------------------------------------------------
(* The consumers implement RequestLifecycle.                               *)
Lifecycle == INSTANCE RequestLifecycle WITH
    Consumer <- Node,
    timeouts <- {[at |-> e.t, req |-> e.req, attempt |-> e.attempt] : e \in OfKind("timeout")},
    tally <- [completed_requests |-> stats.completed_requests,
              timed_out_requests |-> stats.timed_out_requests,
              retransmissions |-> stats.retransmissions]

(* Each request is answered at most once, retransmitted and given up at    *)
(* its own timeouts only, whatever its packets meet in the network.        *)
ImplementsLifecycle == Lifecycle!Init /\ [][Lifecycle!Next]_(Lifecycle!vars)

(* The FIBs a node can be given.                                           *)
TablesInUse ==
    {EmptyTable} \cup {RoutesOf[f][up][n] : f \in Forwarding, up \in SUBSET Link, n \in Node}

(* The forwarding tables implement ControlPlane.                           *)
Control == INSTANCE ControlPlane WITH
    Table <- TablesInUse, installed <- fib, stats <- cstats,
    toggles <- {[at |-> e.t, idx |-> e.idx, link |-> e.link, up |-> e.up]
                : e \in OfKind("toggle")},
    pending <- {[at |-> e.t, n |-> e.n, table |-> e.table, delay |-> e.delay]
                : e \in OfKind("fib_apply")}

(* Toggles are handled and pushed tables installed in the order and at the *)
(* times ControlPlane says, with any amount of traffic in between.         *)
ImplementsControlPlane == Control!Init /\ [][Control!Next]_(Control!vars)

-----------------------------------------------------------------------------
(* "retransmission recovers delivery during transient failure": on links   *)
(* that lose nothing by chance, and with failures repaired before any      *)
(* request's last attempt, no request is given up in a network that is     *)
(* whole again, links and FIBs.                                            *)
Whole == OfKind("toggle") = {} /\ active = Link /\ fib = Routes(Link)

RetransmissionRecovers ==
    [][Whole => stats'.timed_out_requests = stats.timed_out_requests]_vars
=============================================================================
