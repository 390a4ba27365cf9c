---------------------------- MODULE ControlPlane ----------------------------
(***************************************************************************)
(* The forwarding-table pipeline that both data planes share: a link       *)
(* toggle, the recomputation it triggers, and the installation of the new  *)
(* tables.                                                                 *)
(*                                                                         *)
(* Distributed control (best-route, and plain IP) recomputes and installs  *)
(* in the toggle handler itself.  Centralized control (SDNController)      *)
(* compares the new tables with the last ones it pushed, charges one       *)
(* control message per node that changed, and schedules their installation *)
(* as an event of the engine's heap, `delay' later.                        *)
(*                                                                         *)
(* What a table says is left to RoutesOf, the route computation of each    *)
(* way of forwarding as a function of the set of links that are up; module *)
(* Routing defines it.                                                     *)
(***************************************************************************)
EXTENDS Naturals, FiniteSets, Sequences

CONSTANTS
    Node,         \* routers
    Link,         \* undirected links; a toggle acts on both directions
    Table,        \* what one node's FIB or routing table may be
    EmptyTable,   \* the table without an entry
    Forwarding,   \* the ways of forwarding, values of cfg.forwarding
    RoutesOf,     \* [Forwarding -> [SUBSET Link -> [Node -> Table]]]
    Rtt,          \* control_rtt_ms, in ticks
    Schedules,    \* the failure lists the engine may be called with
    Horizon       \* bound on the clock (TLC only)

FailureEventSpec == [at : Nat, link : Link, up : BOOLEAN]

ASSUME NodeAssumption == IsFiniteSet(Node)
ASSUME TableAssumption ==
    /\ EmptyTable \in Table
    /\ RoutesOf \in [Forwarding -> [SUBSET Link -> [Node -> Table]]]
ASSUME TimeAssumption == Rtt \in Nat /\ Horizon \in Nat
ASSUME ScheduleAssumption == Schedules \subseteq Seq(FailureEventSpec)

VARIABLES
    forwarding, \* cfg.forwarding, fixed for the run
    active,     \* the links that are up
    toggles,    \* toggle events still in the heap; idx is their place in the list
    pending,    \* fib_apply / routes_apply events in the heap, in push order by n
    last,       \* SDNController._last_fibs / _last_routes
    installed,  \* the tables the nodes forward with
    stats,      \* ControllerStats
    now         \* time of the last event popped

vars == <<forwarding, active, toggles, pending, last, installed, stats, now>>

Centralized == forwarding = "sdn-centralized"

Routes(up) == RoutesOf[forwarding][up]

ToggleEvent == [at : Nat, idx : Nat, link : Link, up : BOOLEAN]
ApplyEvent == [at : Nat, n : Nat, table : [Node -> Table], delay : Nat]
ControllerStats == [fib_pushes : Nat, control_messages_tx : Nat,
                    reconvergence_events : Nat, total_reconvergence_ms : Nat]

(***************************************************************************)
(* Heap order.  Every toggle is pushed before the loop starts, so its      *)
(* sequence number is below that of any apply event: on a tie in time the  *)
(* toggle is popped first.                                                 *)
(***************************************************************************)
ToggleBefore(a, b) == a.at < b.at \/ (a.at = b.at /\ a.idx < b.idx)
ApplyBefore(a, b) == a.at < b.at \/ (a.at = b.at /\ a.n < b.n)

NextToggle(e) ==
    /\ \A o \in toggles \ {e} : ToggleBefore(e, o)
    /\ \A p \in pending : e.at <= p.at

NextApply(p) ==
    /\ \A o \in pending \ {p} : ApplyBefore(p, o)
    /\ \A e \in toggles : p.at < e.at

(***************************************************************************)
(* Starting the engine: tables are provisioned from the initial topology,  *)
(* charged as messages to the nodes that get a non-empty one but not as a  *)
(* reconvergence.                                                          *)
(***************************************************************************)
Provisioned == Routes(Link)

BootstrapMessages ==
    IF Centralized THEN Cardinality({n \in Node : Provisioned[n] # EmptyTable}) ELSE 0

Init ==
    /\ forwarding \in Forwarding
    /\ active = Link
    /\ \E s \in Schedules :
          toggles = {[at |-> s[i].at, idx |-> i, link |-> s[i].link, up |-> s[i].up]
                     : i \in DOMAIN s}
    /\ pending = {}
    /\ last = Provisioned
    /\ installed = Provisioned
    /\ stats = [fib_pushes |-> 0, control_messages_tx |-> BootstrapMessages,
                reconvergence_events |-> 0, total_reconvergence_ms |-> 0]
    /\ now = 0

(***************************************************************************)
(* push_fibs and push_routes: selective push with the RTT charged on any   *)
(* change.  `last' is what was pushed, whether or not it is installed yet. *)
(***************************************************************************)
SetLinkActive(e) == IF e.up THEN active \cup {e.link} ELSE active \ {e.link}

(* Mutant: compare with what is installed instead of what was pushed.      *)
ChangedSinceInstall(new) == {n \in Node : installed[n] # new[n]}

Changed(new) == {n \in Node : last[n] # new[n]}

(* Mutants: the RTT is charged on every push; twice.                       *)
DelayAlways(new) == Rtt
DelayTwice(new) == IF Changed(new) = {} THEN 0 ELSE 2 * Rtt

Delay(new) == IF Changed(new) = {} THEN 0 ELSE Rtt

PushStats(new) ==
    [fib_pushes |-> stats.fib_pushes + 1,
     control_messages_tx |-> stats.control_messages_tx + Cardinality(Changed(new)),
     reconvergence_events |->
         stats.reconvergence_events + (IF Changed(new) = {} THEN 0 ELSE 1),
     total_reconvergence_ms |-> stats.total_reconvergence_ms + Delay(new)]

(* Mutant: the pair push_fibs returns is installed as if it were the       *)
(* tables.                                                                 *)
PushedPair(new, t) ==
    [at |-> t + Delay(new), n |-> stats.fib_pushes,
     table |-> <<new, Delay(new)>>, delay |-> Delay(new)]

Pushed(new, t) ==
    [at |-> t + Delay(new), n |-> stats.fib_pushes, table |-> new, delay |-> Delay(new)]

(* Mutant: the tables pushed are not remembered.                           *)
RememberNothing(new) == last' = last

Remember(new) == last' = new

Push(new, t) ==
    /\ pending' = pending \cup {Pushed(new, t)}
    /\ Remember(new)
    /\ stats' = PushStats(new)
    /\ UNCHANGED installed

RebuildLocally(new) ==
    /\ installed' = new
    /\ UNCHANGED <<pending, last, stats>>

(***************************************************************************)
(* A `toggle' event.                                                       *)
(***************************************************************************)
Toggle ==
    \E e \in toggles :
        /\ NextToggle(e)
        /\ toggles' = toggles \ {e}
        /\ now' = e.at
        /\ active' = SetLinkActive(e)
        /\ IF Centralized
             THEN Push(Routes(SetLinkActive(e)), e.at)
             ELSE RebuildLocally(Routes(SetLinkActive(e)))
        /\ UNCHANGED forwarding

(***************************************************************************)
(* A `fib_apply' / `routes_apply' event.                                   *)
(***************************************************************************)
Apply ==
    \E p \in pending :
        /\ NextApply(p)
        /\ pending' = pending \ {p}
        /\ now' = p.at
        /\ installed' = p.table
        /\ UNCHANGED <<forwarding, active, toggles, last, stats>>

(***************************************************************************)
(* Data-plane events popped from the same heap: time passes, never beyond  *)
(* an event of the control plane.                                          *)
(***************************************************************************)
Elapse ==
    /\ \E t \in now .. Horizon :
          /\ \A e \in toggles \cup pending : t <= e.at
          /\ now' = t
    /\ UNCHANGED <<forwarding, active, toggles, pending, last, installed, stats>>

Next == Toggle \/ Apply \/ Elapse

Spec == Init /\ [][Next]_vars /\ WF_vars(Toggle \/ Apply)

-----------------------------------------------------------------------------
(* Every variable holds what the code keeps in it. *)
TypeOK ==
    /\ forwarding \in Forwarding
    /\ active \in SUBSET Link
    /\ toggles \in SUBSET ToggleEvent
    /\ pending \in SUBSET ApplyEvent
    /\ last \in [Node -> Table]
    /\ installed \in [Node -> Table]
    /\ stats \in ControllerStats
    /\ now \in Nat

(* The tables the network ought to be using now. *)
Current == Routes(active)

(* push_fibs: what the controller believes it last pushed is what the      *)
(* current topology calls for, so a comparison against it is sound.        *)
LastIsCurrent == Centralized => last = Current

(* The event loop: once no apply event is in the heap, the nodes forward   *)
(* with the routes of the current topology, however toggles and applies    *)
(* interleaved.                                                            *)
Converged == pending = {} => installed = Current

(* While the nodes' tables are stale, the right tables are in flight, due  *)
(* within one RTT, and no apply event comes after them: an older table can *)
(* be installed over a newer one for a while, never for good.  Distributed *)
(* control has nothing in flight and so is never stale at all.             *)
BoundedStaleness ==
    installed # Current =>
        \E p \in pending :
            /\ p.table = Current
            /\ p.at <= now + Rtt
            /\ \A o \in pending \ {p} : ApplyBefore(o, p)

(* No event of the control plane is scheduled in the past of the heap.     *)
NoEventInThePast == \A e \in toggles \cup pending : now <= e.at

(* ControllerStats: a push that changes nothing costs nothing, a push that *)
(* changes something costs exactly one RTT and a message to between one    *)
(* and all nodes; distributed control costs nothing at all.                *)
ControlCost ==
    LET messages == stats.control_messages_tx - BootstrapMessages
    IN /\ stats.total_reconvergence_ms = stats.reconvergence_events * Rtt
       /\ stats.reconvergence_events <= messages
       /\ messages <= stats.reconvergence_events * Cardinality(Node)
       /\ stats.reconvergence_events <= stats.fib_pushes
       /\ ~Centralized => stats.fib_pushes = 0

(* "nodes keep forwarding on the stale table until the control-RTT         *)
(* elapses": the tables in use change only by an apply event that was      *)
(* scheduled a full RTT ahead.                                             *)
InstallAfterRtt ==
    [][installed' # installed =>
         \E p \in pending : NextApply(p) /\ p.delay = Rtt /\ installed' = p.table]_vars

(* Once the failure schedule is exhausted the nodes' tables become and     *)
(* stay those of the final topology.                                       *)
EventuallyConverged == <>[](installed = Current)
=============================================================================
