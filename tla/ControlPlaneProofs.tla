------------------------- MODULE ControlPlaneProofs -------------------------
(***************************************************************************)
(* The control plane converges, for every topology, route computation,     *)
(* failure schedule and RTT.                                               *)
(***************************************************************************)
EXTENDS ControlPlane, FiniteSetTheorems, TLAPS

(* What the heap guarantees of the events in it.                           *)
HeapInv ==
    /\ NoEventInThePast
    /\ \A p \in pending : p.at <= now + Rtt
    /\ \A p \in pending : p.n < stats.fib_pushes
    /\ \A p, o \in pending : p.n = o.n => p = o

(* The newest tables are the last ones the heap will yield, or are already *)
(* installed.                                                              *)
IsLatest(p) == p.table = last /\ \A o \in pending \ {p} : ApplyBefore(o, p)

LatestInv ==
    /\ pending = {} => installed = last
    /\ pending # {} => \E p \in pending : IsLatest(p)

IInv ==
    /\ TypeOK
    /\ LastIsCurrent
    /\ HeapInv
    /\ Centralized => LatestInv
    /\ ~Centralized => pending = {} /\ installed = Current

-----------------------------------------------------------------------------
(* A set of nodes has a size.                                              *)
LEMMA NodesHaveSize ==
    ASSUME NEW S, S \subseteq Node
    PROVE  Cardinality(S) \in Nat
BY NodeAssumption, FS_Subset, FS_CardinalityType

(* Routes of any topology are tables for all nodes.                        *)
LEMMA RoutesType ==
    ASSUME forwarding \in Forwarding, NEW up \in SUBSET Link
    PROVE  Routes(up) \in [Node -> Table]
BY TableAssumption DEF Routes

(* A push without a change pushes what was pushed last.                    *)
LEMMA NoChangeSameTables ==
    ASSUME NEW new \in [Node -> Table], last \in [Node -> Table], Changed(new) = {}
    PROVE  new = last
<1>1. \A n \in Node : last[n] = new[n]
  BY DEF Changed
<1> QED BY <1>1

LEMMA InitIInv == Init => IInv
<1> SUFFICES ASSUME Init PROVE IInv
  OBVIOUS
<1>1. PICK s \in Schedules :
        toggles = {[at |-> s[i].at, idx |-> i, link |-> s[i].link, up |-> s[i].up]
                   : i \in DOMAIN s}
  BY DEF Init
<1>2. s \in Seq(FailureEventSpec)
  BY ScheduleAssumption
<1>3. toggles \in SUBSET ToggleEvent
  <2>1. \A i \in DOMAIN s : i \in Nat /\ s[i] \in FailureEventSpec
    BY <1>2
  <2> QED BY <1>1, <2>1 DEF ToggleEvent, FailureEventSpec
<1>4. BootstrapMessages \in Nat
  BY NodesHaveSize DEF BootstrapMessages
<1>5. Provisioned \in [Node -> Table]
  BY RoutesType DEF Provisioned, Init
<1>6. TypeOK
  BY <1>3, <1>4, <1>5 DEF TypeOK, Init, ControllerStats
<1>7. HeapInv
  BY <1>3 DEF HeapInv, NoEventInThePast, Init, ToggleEvent
<1> QED
  BY <1>6, <1>7 DEF IInv, LastIsCurrent, LatestInv, Current, Init, Provisioned

-----------------------------------------------------------------------------
(* The event a push schedules, and its place among the others.             *)
LEMMA PushStep ==
    ASSUME IInv, Centralized, NEW new \in [Node -> Table],
           NEW e \in toggles, NextToggle(e), Push(new, e.at),
           now' = e.at, toggles' = toggles \ {e}
    PROVE  /\ pending' \in SUBSET ApplyEvent
           /\ stats' \in ControllerStats
           /\ HeapInv'
           /\ LatestInv'
<1>0. PICK a : /\ a = Pushed(new, e.at)
               /\ a = [at |-> e.at + Delay(new), n |-> stats.fib_pushes,
                       table |-> new, delay |-> Delay(new)]
  BY DEF Pushed
<1>1. /\ e.at \in Nat
      /\ Rtt \in Nat
      /\ now \in Nat
      /\ stats.fib_pushes \in Nat
      /\ pending \subseteq ApplyEvent
      /\ toggles \subseteq ToggleEvent
      /\ last \in [Node -> Table]
  BY TimeAssumption DEF IInv, TypeOK, ToggleEvent, ControllerStats
<1>2. Delay(new) \in Nat /\ Delay(new) <= Rtt
  BY <1>1 DEF Delay
<1>3. pending' = pending \cup {a} /\ last' = new /\ installed' = installed
  BY <1>0 DEF Push, Remember
<1>4. stats' \in ControllerStats /\ stats'.fib_pushes = stats.fib_pushes + 1
  <2>1. Cardinality(Changed(new)) \in Nat
    BY NodesHaveSize DEF Changed
  <2>2. stats \in ControllerStats /\ stats' = PushStats(new)
    BY DEF Push, IInv, TypeOK
  <2> QED BY <2>1, <2>2, <1>2 DEF ControllerStats, PushStats
<1>5. a \in ApplyEvent
  BY <1>0, <1>1, <1>2 DEF ApplyEvent
<1>6. pending' \in SUBSET ApplyEvent
  BY <1>1, <1>3, <1>5
<1>7. /\ now <= e.at
      /\ \A p \in pending : e.at <= p.at
      /\ \A o \in toggles \ {e} : e.at <= o.at
  BY <1>1 DEF IInv, HeapInv, NoEventInThePast, NextToggle, ToggleBefore, ToggleEvent
<1>8. \A p \in pending : /\ p.at \in Nat /\ p.n \in Nat
                         /\ p.at <= now + Rtt
                         /\ p.n < stats.fib_pushes
  BY <1>1 DEF IInv, HeapInv, ApplyEvent
<1>9. HeapInv'
  <2>1. NoEventInThePast'
    BY <1>0, <1>1, <1>2, <1>3, <1>7 DEF NoEventInThePast
  <2>2. \A p \in pending' : p.at <= now' + Rtt
    BY <1>0, <1>1, <1>2, <1>3, <1>7, <1>8
  <2>3. \A p \in pending' : p.n < stats'.fib_pushes
    BY <1>0, <1>1, <1>3, <1>4, <1>8
  <2>4. \A p, o \in pending' : p.n = o.n => p = o
    BY <1>0, <1>1, <1>3, <1>8 DEF IInv, HeapInv
  <2> QED BY <2>1, <2>2, <2>3, <2>4 DEF HeapInv
<1>10. \E p \in pending' : IsLatest(p)'
  <2>1. CASE \A p \in pending : p.at <= a.at
    <3>1. \A p \in pending : ApplyBefore(p, a)
      BY <2>1, <1>0, <1>1, <1>2, <1>8 DEF ApplyBefore
    <3>2. IsLatest(a)'
      BY <3>1, <1>0, <1>3 DEF IsLatest, ApplyBefore
    <3> QED BY <3>2, <1>3
  <2>2. CASE \E p \in pending : ~(p.at <= a.at)
    <3>1. Changed(new) = {}
      BY <2>2, <1>0, <1>1, <1>2, <1>7, <1>8 DEF Delay
    <3>2. new = last
      BY <3>1, <1>1, NoChangeSameTables
    <3>3. PICK m \in pending : IsLatest(m)
      BY <2>2 DEF IInv, LatestInv
    <3>4. PICK p \in pending : ~(p.at <= a.at)
      BY <2>2
    <3>5. p = m \/ ApplyBefore(p, m)
      BY <3>3 DEF IsLatest
    <3>6. a.at < m.at
      BY <3>4, <3>5, <1>0, <1>1, <1>2, <1>8 DEF ApplyBefore
    <3>7. IsLatest(m)'
      BY <3>2, <3>3, <3>6, <1>3 DEF IsLatest, ApplyBefore
    <3> QED BY <3>7, <1>3
  <2> QED BY <2>1, <2>2
<1> QED
  BY <1>3, <1>4, <1>6, <1>9, <1>10 DEF LatestInv

LEMMA ToggleStep == IInv /\ Toggle => IInv'
<1> SUFFICES ASSUME IInv, Toggle PROVE IInv'
  OBVIOUS
<1>1. PICK e \in toggles :
        /\ NextToggle(e)
        /\ toggles' = toggles \ {e}
        /\ now' = e.at
        /\ active' = SetLinkActive(e)
        /\ IF Centralized
             THEN Push(Routes(SetLinkActive(e)), e.at)
             ELSE RebuildLocally(Routes(SetLinkActive(e)))
        /\ forwarding' = forwarding
  BY DEF Toggle
<1> DEFINE new == Routes(SetLinkActive(e))
<1>2. /\ e \in ToggleEvent
      /\ toggles' \in SUBSET ToggleEvent
      /\ now' \in Nat
      /\ forwarding' \in Forwarding
  BY <1>1 DEF IInv, TypeOK, ToggleEvent
<1>3. active' \in SUBSET Link
  BY <1>1, <1>2 DEF SetLinkActive, IInv, TypeOK, ToggleEvent
<1>4. new \in [Node -> Table] /\ new = Current' /\ Centralized' = Centralized
  BY <1>1, <1>3, RoutesType DEF Current, Routes, Centralized, IInv, TypeOK
<1> HIDE DEF new
<1>5. CASE Centralized
  <2>1. Push(new, e.at)
    BY <1>1, <1>5 DEF new
  <2>2. /\ pending' \in SUBSET ApplyEvent
        /\ stats' \in ControllerStats
        /\ HeapInv'
        /\ LatestInv'
    BY <2>1, <1>1, <1>4, <1>5, PushStep
  <2>3. last' = new /\ installed' = installed
    BY <2>1 DEF Push, Remember
  <2>4. TypeOK'
    BY <1>2, <1>3, <1>4, <2>2, <2>3 DEF TypeOK, IInv
  <2> QED BY <2>2, <2>3, <2>4, <1>4, <1>5 DEF IInv, LastIsCurrent
<1>6. CASE ~Centralized
  <2>1. installed' = new /\ UNCHANGED <<pending, last, stats>>
    BY <1>1, <1>6 DEF RebuildLocally, new
  <2>2. TypeOK'
    BY <2>1, <1>2, <1>3, <1>4 DEF TypeOK, IInv
  <2>3. HeapInv'
    <3>1. \A o \in toggles \ {e} : e.at <= o.at
      BY <1>1, <1>2 DEF NextToggle, ToggleBefore, ToggleEvent, IInv, TypeOK
    <3> QED BY <3>1, <2>1, <1>1, <1>6 DEF HeapInv, NoEventInThePast, IInv
  <2> QED BY <2>1, <2>2, <2>3, <1>4, <1>6 DEF IInv, LastIsCurrent
<1> QED BY <1>5, <1>6

LEMMA ApplyStep == IInv /\ Apply => IInv'
<1> SUFFICES ASSUME IInv, Apply PROVE IInv'
  OBVIOUS
<1>1. PICK p \in pending :
        /\ NextApply(p)
        /\ pending' = pending \ {p}
        /\ now' = p.at
        /\ installed' = p.table
        /\ UNCHANGED <<forwarding, active, toggles, last, stats>>
  BY DEF Apply
<1>2. Centralized
  BY <1>1 DEF IInv
<1>3. /\ pending \subseteq ApplyEvent
      /\ toggles \subseteq ToggleEvent
      /\ now \in Nat
      /\ Rtt \in Nat
  BY TimeAssumption DEF IInv, TypeOK
<1>4. TypeOK'
  BY <1>1, <1>3 DEF IInv, TypeOK, ApplyEvent
<1>5. HeapInv'
  <2>1. \A o \in pending' : p.at <= o.at
    BY <1>1, <1>3 DEF NextApply, ApplyBefore, ApplyEvent
  <2>2. \A t \in toggles' : p.at <= t.at
    BY <1>1, <1>3 DEF NextApply, ToggleEvent, ApplyEvent
  <2>3. now <= p.at
    BY DEF IInv, HeapInv, NoEventInThePast
  <2>4. \A o \in pending' : o.at <= now' + Rtt
    BY <1>1, <1>3, <2>3 DEF IInv, HeapInv, ApplyEvent
  <2> QED BY <2>1, <2>2, <2>4, <1>1 DEF IInv, HeapInv, NoEventInThePast
<1>6. PICK m \in pending : IsLatest(m)
  BY <1>2 DEF IInv, LatestInv
<1>7. LatestInv'
  <2>1. CASE m = p
    <3>1. \A o \in pending \ {p} : ApplyBefore(o, p) /\ ApplyBefore(p, o)
      BY <2>1, <1>1, <1>6 DEF IsLatest, NextApply
    <3>2. pending' = {}
      BY <3>1, <1>1, <1>3 DEF ApplyBefore, ApplyEvent
    <3> QED BY <3>2, <2>1, <1>1, <1>6 DEF LatestInv, IsLatest
  <2>2. CASE m # p
    <3>1. m \in pending' /\ IsLatest(m)'
      BY <2>2, <1>1, <1>6 DEF IsLatest, ApplyBefore
    <3> QED BY <3>1 DEF LatestInv
  <2> QED BY <2>1, <2>2
<1> QED
  BY <1>1, <1>2, <1>4, <1>5, <1>7 DEF IInv, LastIsCurrent, Current, Routes, Centralized

LEMMA ElapseStep == IInv /\ Elapse => IInv'
<1> SUFFICES ASSUME IInv, Elapse PROVE IInv'
  OBVIOUS
<1>1. PICK t \in now .. Horizon :
        (\A e \in toggles \cup pending : t <= e.at) /\ now' = t
  BY DEF Elapse
<1>2. UNCHANGED <<forwarding, active, toggles, pending, last, installed, stats>>
  BY DEF Elapse
<1>3. now \in Nat /\ t \in Nat /\ now <= t /\ Rtt \in Nat /\ pending \subseteq ApplyEvent
  BY TimeAssumption DEF IInv, TypeOK
<1>4. TypeOK'
  BY <1>1, <1>2, <1>3 DEF IInv, TypeOK
<1>5. HeapInv'
  BY <1>1, <1>2, <1>3 DEF IInv, HeapInv, NoEventInThePast, ApplyEvent
<1> QED
  BY <1>2, <1>4, <1>5
  DEF IInv, LastIsCurrent, Current, Routes, Centralized, LatestInv, IsLatest, ApplyBefore

LEMMA StutterStep == IInv /\ UNCHANGED vars => IInv'
BY DEF IInv, vars, TypeOK, LastIsCurrent, Current, Routes, Centralized, HeapInv, NoEventInThePast,
       LatestInv, IsLatest, ApplyBefore

(* The part of the specification that the invariants need.                 *)
Safety == Init /\ [][Next]_vars

(* IInv is an invariant: every event of the loop preserves it.             *)
THEOREM Inductive == Safety => []IInv
<1>1. IInv /\ [Next]_vars => IInv'
  BY ToggleStep, ApplyStep, ElapseStep, StutterStep DEF Next
<1> QED BY InitIInv, <1>1, PTL DEF Safety

(* What the invariant says of stale tables.                                *)
LEMMA QuietIsConverged == IInv => Converged
BY DEF IInv, Converged, LatestInv, LastIsCurrent

LEMMA StaleIsPending == IInv => BoundedStaleness
<1> SUFFICES ASSUME IInv, installed # Current
             PROVE  \E p \in pending :
                       /\ p.table = Current
                       /\ p.at <= now + Rtt
                       /\ \A o \in pending \ {p} : ApplyBefore(o, p)
  BY DEF BoundedStaleness
<1>1. Centralized /\ last = Current
  BY DEF IInv, LastIsCurrent
<1>2. PICK p \in pending : IsLatest(p)
  BY <1>1 DEF IInv, LatestInv
<1>3. p.at <= now + Rtt
  BY DEF IInv, HeapInv
<1> QED BY <1>1, <1>2, <1>3 DEF IsLatest

(* ControllerStats adds up: what a push costs is what the counters grow by. *)
LEMMA CostStep == IInv /\ ControlCost /\ Next => ControlCost'
<1> SUFFICES ASSUME IInv, ControlCost, Next PROVE ControlCost'
  OBVIOUS
<1>1. /\ Rtt \in Nat
      /\ Cardinality(Node) \in Nat
      /\ BootstrapMessages \in Nat
      /\ stats \in ControllerStats
  BY TimeAssumption, NodesHaveSize DEF IInv, TypeOK, BootstrapMessages
<1>2. BootstrapMessages' = BootstrapMessages /\ Centralized' = Centralized
  <2>1. forwarding' = forwarding
    BY DEF Next, Toggle, Apply, Elapse
  <2> QED BY <2>1 DEF BootstrapMessages, Provisioned, Routes, Centralized
<1>3. CASE UNCHANGED stats
  BY <1>2, <1>3 DEF ControlCost
<1>4. ASSUME NEW e \in toggles, Centralized,
             Push(Routes(SetLinkActive(e)), e.at)
      PROVE  ControlCost'
  <2> DEFINE new == Routes(SetLinkActive(e))
             c == Cardinality(Changed(new))
             r == stats.reconvergence_events
             m == stats.control_messages_tx - BootstrapMessages
  <2>1. stats' = PushStats(new)
    BY <1>4 DEF Push
  <2>2. Changed(new) \subseteq Node /\ IsFiniteSet(Changed(new))
    BY NodeAssumption, FS_Subset DEF Changed
  <2>3. c \in Nat /\ c <= Cardinality(Node) /\ (c = 0 <=> Changed(new) = {})
    BY <2>2, NodeAssumption, NodesHaveSize, FS_Subset, FS_EmptySet
  <2>4. /\ r \in Nat
        /\ m \in Int
        /\ stats.fib_pushes \in Nat
        /\ stats.total_reconvergence_ms = r * Rtt
        /\ r <= m
        /\ m <= r * Cardinality(Node)
        /\ r <= stats.fib_pushes
    BY <1>1 DEF ControlCost, ControllerStats
  <2>5. /\ (r + 1) * Rtt = r * Rtt + Rtt
        /\ (r + 1) * Cardinality(Node) = r * Cardinality(Node) + Cardinality(Node)
        /\ r * Cardinality(Node) \in Nat
    BY <1>1, <2>4
  <2>6. CASE Changed(new) = {}
    <3>1. /\ stats'.fib_pushes = stats.fib_pushes + 1
          /\ stats'.control_messages_tx = stats.control_messages_tx
          /\ stats'.reconvergence_events = r
          /\ stats'.total_reconvergence_ms = r * Rtt
      BY <2>1, <2>3, <2>4, <2>5, <2>6, <1>1 DEF PushStats, Delay, ControllerStats
    <3> QED BY <3>1, <2>4, <1>2, <1>4 DEF ControlCost
  <2>7. CASE Changed(new) # {}
    <3>1. /\ stats'.fib_pushes = stats.fib_pushes + 1
          /\ stats'.control_messages_tx = stats.control_messages_tx + c
          /\ stats'.reconvergence_events = r + 1
          /\ stats'.total_reconvergence_ms = r * Rtt + Rtt
      BY <2>1, <2>4, <2>7 DEF PushStats, Delay
    <3>2. stats'.control_messages_tx - BootstrapMessages = m + c
      BY <3>1, <2>3, <1>1 DEF ControllerStats
    <3>3. c >= 1
      BY <2>3, <2>7
    <3> HIDE DEF c, m, r
    <3>4. r + 1 <= m + c /\ m + c <= r * Cardinality(Node) + Cardinality(Node)
      BY <3>3, <2>3, <2>4, <2>5, <1>1
    <3> QED BY <3>1, <3>2, <3>4, <2>4, <2>5, <1>2, <1>4 DEF ControlCost
  <2> QED BY <2>6, <2>7
<1>5. UNCHANGED stats \/ \E e \in toggles : Centralized /\ Push(Routes(SetLinkActive(e)), e.at)
  BY TimeAssumption DEF Next, Toggle, Apply, Elapse, RebuildLocally
<1> QED BY <1>3, <1>4, <1>5

-----------------------------------------------------------------------------
(* Every variable keeps its type.                                          *)
THEOREM TypeCorrect == Spec => []TypeOK
<1>1. IInv => TypeOK
  BY DEF IInv
<1> QED BY <1>1, Inductive, PTL DEF Spec, Safety

(* push_fibs/push_routes always compares with the tables of the topology   *)
(* as it was before the toggle, so no change is missed.                    *)
THEOREM LastPushIsCurrent == Spec => []LastIsCurrent
<1>1. IInv => LastIsCurrent
  BY DEF IInv
<1> QED BY <1>1, Inductive, PTL DEF Spec, Safety

(* No apply event left in the heap means that nodes use current routes.    *)
THEOREM Convergence == Spec => []Converged
BY QuietIsConverged, Inductive, PTL DEF Spec, Safety

(* Stale tables are repaired within one RTT, for good.                     *)
THEOREM StalenessIsBounded == Spec => []BoundedStaleness
BY StaleIsPending, Inductive, PTL DEF Spec, Safety

LEMMA CostInit == Init => ControlCost
<1> SUFFICES ASSUME Init PROVE ControlCost
  OBVIOUS
<1>1. BootstrapMessages \in Nat /\ Cardinality(Node) \in Nat /\ Rtt \in Nat
  BY TimeAssumption, NodesHaveSize DEF BootstrapMessages
<1> QED BY <1>1 DEF Init, ControlCost

LEMMA CostKept == IInv /\ ControlCost /\ [Next]_vars => ControlCost'
<1>1. ControlCost /\ UNCHANGED vars => ControlCost'
  BY DEF ControlCost, vars, BootstrapMessages, Provisioned, Routes, Centralized
<1> QED BY <1>1, CostStep

(* The cost reported for centralized control is exact: an RTT for every    *)
(* push that changed something, between one and |Node| messages for it.    *)
THEOREM CostIsAccounted == Spec => []ControlCost
BY CostInit, CostKept, Inductive, PTL DEF Spec, Safety

(* No event of the control plane is scheduled in the past.                 *)
THEOREM EventsLieAhead == Spec => []NoEventInThePast
<1>1. IInv => NoEventInThePast
  BY DEF IInv, HeapInv
<1> QED BY <1>1, Inductive, PTL DEF Spec, Safety
=============================================================================
