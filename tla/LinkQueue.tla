----------------------------- MODULE LinkQueue -----------------------------
(***************************************************************************)
(* One directed link under any traffic: packets of several classes (an     *)
(* Interest is small, Data is large and may be charged verification time)  *)
(* are offered at any moment, the link goes down and comes back, and       *)
(* packets on it arrive in the order of the engine's heap.                 *)
(***************************************************************************)
EXTENDS LinkTiming, FiniteSets

CONSTANTS
    Class,       \* packet classes
    Service,     \* [Class -> transmission time]
    Extra,       \* [Class -> protocol processing charged at the far end]
    LinkRecord,  \* the link's parameters
    MaxSent,     \* bound: packets offered (TLC only)
    Horizon      \* bound on the clock (TLC only)

ASSUME ClassAssumption ==
    /\ Service \in [Class -> Nat \ {0}]
    /\ Extra \in [Class -> Nat]
ASSUME LinkAssumption ==
    LinkRecord \in [propagation : Nat, processing : Nat, queue_limit : Nat, lossy : BOOLEAN]
ASSUME BoundAssumption == MaxSent \in Nat /\ Horizon \in Nat

VARIABLES
    now,
    active,   \* Link.active
    busy,     \* LinkQueue.busy_until_ms
    flying,   \* packets accepted and not yet arrived
    offered   \* packets offered so far, numbering them

vars == <<now, active, busy, flying, offered>>

Packet == [id : Nat, class : Class, sent : Nat, departs : Nat, arrives : Nat]

Init ==
    /\ now = 0
    /\ active \in BOOLEAN
    /\ busy = 0
    /\ flying = {}
    /\ offered = 0

Send(c) ==
    /\ offered < MaxSent
    /\ offered' = offered + 1
    /\ \E lost \in IF LinkRecord.lossy THEN BOOLEAN ELSE {FALSE} :
          LET result == Traverse(LinkRecord, active, busy, now, Service[c], Extra[c], lost)
          IN /\ busy' = result.busy
             /\ flying' =
                  IF result.ok
                    THEN flying \cup {[id |-> offered, class |-> c, sent |-> now,
                                       departs |-> result.busy, arrives |-> result.arrival]}
                    ELSE flying
    /\ UNCHANGED <<now, active>>

Arrive ==
    \E p \in flying :
        /\ \A o \in flying \ {p} : p.arrives < o.arrives \/ (p.arrives = o.arrives /\ p.id < o.id)
        /\ now' = p.arrives
        /\ flying' = flying \ {p}
        /\ UNCHANGED <<active, busy, offered>>

(* set_link_active: the queue is not touched, nor what is on the wire.     *)
SetLinkActive ==
    /\ active' = ~active
    /\ UNCHANGED <<now, busy, flying, offered>>

(* Another event of the heap is popped.                                    *)
Elapse ==
    /\ \E t \in now .. Horizon :
          /\ \A p \in flying : t <= p.arrives
          /\ now' = t
    /\ UNCHANGED <<active, busy, flying, offered>>

Next == (\E c \in Class : Send(c)) \/ Arrive \/ SetLinkActive \/ Elapse

Spec == Init /\ [][Next]_vars

-----------------------------------------------------------------------------
(* Every variable holds what the code keeps in it. *)
TypeOK ==
    /\ now \in Nat
    /\ active \in BOOLEAN
    /\ busy \in Nat
    /\ flying \in SUBSET Packet
    /\ offered \in Nat

(* "at most one packet is in service at a time": the transmissions of two  *)
(* packets of any size never overlap and follow the order of acceptance.   *)
OneInService ==
    \A p, q \in flying : p.id < q.id => p.departs + Service[q.class] <= q.departs

(* The link is busy only on account of packets it accepted: a packet lost, *)
(* refused, or offered while the link was down reserved nothing.           *)
BusyIsEarned == busy > now => \E p \in flying : p.departs = busy

(* An accepted packet waits at most queue_limit of its own service times.  *)
WaitBound ==
    \A p \in flying :
        p.departs - p.sent <= (LinkRecord.queue_limit + 1) * Service[p.class]

(* Of each class at most queue_limit packets wait behind the one in        *)
(* service, whatever other traffic shares the link.                        *)
QueueLimit ==
    \A c \in Class :
        Cardinality({p \in flying : p.class = c /\ p.departs > now})
            <= LinkRecord.queue_limit + 1

(* Packets of one class arrive in the order they were sent; a packet can   *)
(* overtake another only by what that one is charged more at the far end.  *)
OvertakenOnlyInProcessing ==
    \A p, q \in flying :
        p.id < q.id /\ q.arrives <= p.arrives
            => Extra[q.class] + Service[q.class] <= Extra[p.class]
=============================================================================
