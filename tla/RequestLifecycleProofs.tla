----------------------- MODULE RequestLifecycleProofs -----------------------
(***************************************************************************)
(* A request is resolved once, by its deadline, for every request list,    *)
(* lifetime and number of retransmissions.                                 *)
(***************************************************************************)
EXTENDS RequestLifecycle, FiniteSetTheorems, TLAPS

(* No timeout is overdue: time moves from one event of the heap to the     *)
(* next.                                                                   *)
NoTimeoutOverdue == \A e \in timeouts : now <= e.at

IInv ==
    /\ TypeOK
    /\ OneLiveTimeout
    /\ NoTimeoutOverdue
    /\ ResolvedOnce

-----------------------------------------------------------------------------
(* A request list is indexed by naturals, finitely many of them.           *)
LEMMA RequestsAreFinite ==
    ASSUME requests \in Workloads
    PROVE  /\ DOMAIN requests \subseteq Nat
           /\ IsFiniteSet(DOMAIN requests)
           /\ \A r \in DOMAIN requests : requests[r].start_ms \in Nat
<1>1. requests \in Seq(RequestSpec)
  BY WorkloadAssumption
<1>2. DOMAIN requests = 1 .. Len(requests) /\ Len(requests) \in Nat
  BY <1>1
<1>3. IsFiniteSet(1 .. Len(requests))
  BY <1>2, FS_Interval
<1>4. \A r \in DOMAIN requests : requests[r] \in RequestSpec
  BY <1>1
<1> QED BY <1>2, <1>3, <1>4 DEF RequestSpec

(* The resolved requests can be counted.                                   *)
LEMMA ResolvedIsFinite ==
    ASSUME requests \in Workloads
    PROVE  IsFiniteSet(Resolved) /\ Cardinality(Resolved) \in Nat
BY RequestsAreFinite, FS_Subset, FS_CardinalityType DEF Resolved

(* Attempts times the lifetime, and one lifetime more.                     *)
LEMMA LifetimesAddUp ==
    ASSUME NEW a \in Nat
    PROVE  /\ a * Lifetime \in Nat
           /\ (a + 1) * Lifetime = a * Lifetime + Lifetime
BY LifetimeAssumption, Z3

LEMMA LifetimesMonotone ==
    ASSUME NEW a \in Nat, NEW b \in Nat, a <= b
    PROVE  a * Lifetime <= b * Lifetime
<1>1. (b - a) * Lifetime >= 0
  BY LifetimeAssumption, Z3
<1>2. (b - a) * Lifetime = b * Lifetime - a * Lifetime
  BY LifetimeAssumption, Z3
<1>3. a * Lifetime \in Int /\ b * Lifetime \in Int
  BY LifetimeAssumption, Z3
<1> QED BY <1>1, <1>2, <1>3

(* Closing an unresolved request adds it to the resolved ones.             *)
LEMMA ClosingResolvesOne ==
    ASSUME TypeOK, NEW r \in DOMAIN requests, ~rs[r].completed,
           rs' = [rs EXCEPT ![r].completed = TRUE], requests' = requests
    PROVE  Cardinality(Resolved') = Cardinality(Resolved) + 1
<1>1. r \notin Resolved
  BY DEF Resolved
<1>2. Resolved' = Resolved \cup {r}
  BY DEF Resolved, TypeOK, RequestState
<1> QED BY <1>1, <1>2, ResolvedIsFinite, FS_AddElement DEF TypeOK

-----------------------------------------------------------------------------
LEMMA InitIInv == Init => IInv
<1> SUFFICES ASSUME Init PROVE IInv
  OBVIOUS
<1>0. requests \in Workloads
  BY DEF Init
<1>1. \A r \in DOMAIN requests : r \in Nat /\ requests[r].start_ms \in Nat
  BY <1>0, RequestsAreFinite
<1>2. timeouts \in SUBSET TimeoutEvent
  BY <1>1, LifetimeAssumption DEF Init, TimeoutEvent, TimeoutOf
<1>3. TypeOK
  BY <1>0, <1>2 DEF Init, TypeOK, RequestState, Tally
<1>4. \A r \in DOMAIN requests : Timer(r) = TimeoutOf(r, 0, requests[r].start_ms)
  <2> SUFFICES ASSUME NEW r \in DOMAIN requests
               PROVE  Timer(r) = TimeoutOf(r, 0, requests[r].start_ms)
    OBVIOUS
  <2>1. rs[r].attempts = 0
    BY DEF Init
  <2>2. 0 * Lifetime = 0
    BY LifetimeAssumption
  <2>3. requests[r].start_ms + 0 * Lifetime = requests[r].start_ms
    BY <2>2, <1>1
  <2> QED BY <2>1, <2>3 DEF Timer
<1>5. OneLiveTimeout
  <2>1. \A r \in DOMAIN requests :
          rs[r].attempts = 0 /\ rs[r].current_attempt = 0 /\ Timer(r) \in timeouts
    BY <1>4 DEF Init
  <2>2. \A e \in timeouts : \E r \in DOMAIN requests : e = Timer(r) /\ e.req = r
    BY <1>4 DEF Init, TimeoutOf
  <2> QED BY <2>1, <2>2, LifetimeAssumption DEF OneLiveTimeout
<1>6. NoTimeoutOverdue
  BY <1>2 DEF Init, NoTimeoutOverdue, TimeoutEvent
<1>7. ResolvedOnce
  <2>1. Resolved = {}
    BY DEF Init, Resolved
  <2> QED BY <2>1, FS_EmptySet DEF Init, ResolvedOnce
<1> QED BY <1>3, <1>5, <1>6, <1>7 DEF IInv

-----------------------------------------------------------------------------
(* Facts about any timeout in the heap.                                    *)
LEMMA TimeoutFacts ==
    ASSUME IInv, NEW e \in timeouts
    PROVE  /\ e.req \in DOMAIN requests
           /\ e = Timer(e.req)
           /\ e.at \in Nat
           /\ e.at = requests[e.req].start_ms + rs[e.req].attempts * Lifetime + Lifetime
           /\ e.attempt = rs[e.req].attempts
           /\ now <= e.at
<1>1. e.req \in DOMAIN requests /\ e = Timer(e.req)
  BY DEF IInv, OneLiveTimeout
<1>2. e.at \in Nat
  BY DEF IInv, TypeOK, TimeoutEvent
<1>3. now <= e.at
  BY DEF IInv, NoTimeoutOverdue
<1>4. PICK r : r = e.req
  OBVIOUS
<1>5. e = [at |-> requests[r].start_ms + rs[r].attempts * Lifetime + Lifetime,
           req |-> r, attempt |-> rs[r].attempts]
  BY <1>1, <1>4 DEF Timer, TimeoutOf
<1> QED BY <1>1, <1>2, <1>3, <1>4, <1>5

(* The timer of a request depends on its attempts only.                    *)
LEMMA TimerKept ==
    ASSUME NEW r, requests' = requests, rs'[r].attempts = rs[r].attempts
    PROVE  Timer(r)' = Timer(r)
BY DEF Timer, TimeoutOf

(* Answers.                                                                *)
LEMMA CompleteStep ==
    ASSUME IInv, NEW r \in DOMAIN requests, NEW t \in Nat, Complete(r, t)
    PROVE  IInv'
<1>1. /\ ~rs[r].completed
      /\ rs' = [rs EXCEPT ![r].completed = TRUE]
      /\ requests' = requests /\ timeouts' = timeouts
      /\ tally' = [tally EXCEPT !.completed_requests = @ + 1]
      /\ now' = t
      /\ \A e \in timeouts : t <= e.at
  BY DEF Complete, Closed, Reach
<1>2. TypeOK
  BY DEF IInv
<1>3. \A p \in DOMAIN requests :
        /\ rs'[p].attempts = rs[p].attempts
        /\ rs'[p].current_attempt = rs[p].current_attempt
        /\ rs[p].completed => rs'[p].completed
  BY <1>1, <1>2 DEF TypeOK, RequestState
<1>4. TypeOK'
  <2>1. rs' \in [DOMAIN requests -> RequestState]
    BY <1>1, <1>2 DEF TypeOK, RequestState
  <2>2. tally' \in Tally
    BY <1>1, <1>2 DEF TypeOK, Tally
  <2> QED BY <2>1, <2>2, <1>1, <1>2 DEF TypeOK
<1>5. OneLiveTimeout'
  <2>1. \A p \in DOMAIN requests : Timer(p)' = Timer(p)
    BY <1>1, <1>3, TimerKept
  <2> QED BY <2>1, <1>1, <1>3 DEF IInv, OneLiveTimeout
<1>6. NoTimeoutOverdue'
  BY <1>1 DEF NoTimeoutOverdue
<1>7. ResolvedOnce'
  <2>1. Cardinality(Resolved') = Cardinality(Resolved) + 1
    BY <1>1, <1>2, ClosingResolvesOne
  <2>2. /\ tally'.completed_requests = tally.completed_requests + 1
        /\ tally'.timed_out_requests = tally.timed_out_requests
        /\ tally.completed_requests \in Nat /\ tally.timed_out_requests \in Nat
    BY <1>1, <1>2 DEF TypeOK, Tally
  <2> QED BY <2>1, <2>2 DEF IInv, ResolvedOnce
<1> QED BY <1>4, <1>5, <1>6, <1>7 DEF IInv

(* Time passes.                                                            *)
LEMMA ElapseStep ==
    ASSUME IInv, NEW t \in Nat, Elapse(t)
    PROVE  IInv'
<1>1. /\ UNCHANGED <<requests, rs, timeouts, tally>> /\ now' = t
      /\ \A e \in timeouts : t <= e.at
  BY DEF Elapse, Reach
<1>2. TypeOK'
  BY <1>1 DEF IInv, TypeOK
<1>3. OneLiveTimeout'
  BY <1>1, TimerKept DEF IInv, OneLiveTimeout
<1>4. NoTimeoutOverdue'
  BY <1>1 DEF NoTimeoutOverdue
<1>5. ResolvedOnce'
  BY <1>1 DEF IInv, ResolvedOnce, Resolved
<1> QED BY <1>2, <1>3, <1>4, <1>5 DEF IInv

(* A timeout of a resolved request.                                        *)
LEMMA StaleTimeoutStep ==
    ASSUME IInv, NEW e \in timeouts, StaleTimeout(e)
    PROVE  IInv'
<1>1. /\ UNCHANGED <<requests, rs, tally>> /\ now' = e.at
      /\ timeouts' = timeouts \ {e}
      /\ \A o \in timeouts : e.at <= o.at
      /\ Ignored(e)
  BY DEF StaleTimeout, Pop
<1>2. e.req \in DOMAIN requests /\ e.attempt = rs[e.req].attempts /\ e.at \in Nat
  BY TimeoutFacts
<1>3. rs[e.req].completed
  BY <1>1, <1>2 DEF Ignored, IInv, OneLiveTimeout
<1>4. TypeOK'
  BY <1>1, <1>2 DEF IInv, TypeOK
<1>5. OneLiveTimeout'
  <2>1. \A p \in DOMAIN requests : Timer(p)' = Timer(p)
    BY <1>1, TimerKept
  <2>2. \A p \in DOMAIN requests : ~rs[p].completed => Timer(p) # e
    BY <1>3 DEF Timer, TimeoutOf
  <2> QED BY <2>1, <2>2, <1>1 DEF IInv, OneLiveTimeout
<1>6. NoTimeoutOverdue'
  BY <1>1 DEF NoTimeoutOverdue
<1>7. ResolvedOnce'
  BY <1>1 DEF IInv, ResolvedOnce, Resolved
<1> QED BY <1>4, <1>5, <1>6, <1>7 DEF IInv

(* The next attempt: its timer replaces the one that fired.                *)
LEMMA RetransmitStep ==
    ASSUME IInv, NEW e \in timeouts, Retransmit(e)
    PROVE  IInv'
<1>0. PICK r : r = e.req
  OBVIOUS
<1>1. PICK new : /\ new = TimeoutOf(r, rs[r].current_attempt + 1, e.at)
                 /\ timeouts' = (timeouts \ {e}) \cup {new}
  BY <1>0 DEF Retransmit, Rearmed
<1>2. /\ requests' = requests /\ now' = e.at
      /\ rs' = [rs EXCEPT ![r].attempts = @ + 1, ![r].current_attempt = @ + 1]
      /\ tally' = [tally EXCEPT !.retransmissions = @ + 1]
      /\ \A o \in timeouts : e.at <= o.at
      /\ rs[r].attempts < MaxRetransmissions
  BY <1>0 DEF Retransmit, NextAttempt, AttemptsLeft, Pop
<1>3. /\ r \in DOMAIN requests /\ e = Timer(r) /\ e.at \in Nat
      /\ e.at = requests[r].start_ms + rs[r].attempts * Lifetime + Lifetime
  BY <1>0, TimeoutFacts
<1>4. /\ rs[r].attempts \in Nat /\ rs[r].current_attempt = rs[r].attempts
      /\ rs \in [DOMAIN requests -> RequestState]
      /\ r \in Nat /\ requests[r].start_ms \in Nat
  BY <1>3, RequestsAreFinite DEF IInv, TypeOK, RequestState, OneLiveTimeout
<1>5. /\ rs' \in [DOMAIN requests -> RequestState]
      /\ rs'[r].attempts = rs[r].attempts + 1
      /\ rs'[r].current_attempt = rs[r].attempts + 1
      /\ \A p \in DOMAIN requests \ {r} : rs'[p] = rs[p]
      /\ \A p \in DOMAIN requests : rs'[p].completed = rs[p].completed
  BY <1>2, <1>3, <1>4 DEF RequestState
<1>6. /\ new.at = e.at + Lifetime /\ new.req = r /\ new.attempt = rs[r].attempts + 1
      /\ new \in TimeoutEvent
  BY <1>1, <1>3, <1>4, LifetimeAssumption DEF TimeoutOf, TimeoutEvent
<1>7. TypeOK'
  <2>1. tally' \in Tally
    BY <1>2 DEF IInv, TypeOK, Tally
  <2>2. timeouts' \in SUBSET TimeoutEvent
    BY <1>1, <1>6 DEF IInv, TypeOK
  <2> QED BY <2>1, <2>2, <1>2, <1>3, <1>5 DEF IInv, TypeOK
<1>8. OneLiveTimeout'
  <2>1. \A p \in DOMAIN requests \ {r} : Timer(p)' = Timer(p)
    BY <1>2, <1>5, TimerKept
  <2>2. Timer(r)' = new
    <3>1. (rs[r].attempts + 1) * Lifetime = rs[r].attempts * Lifetime + Lifetime
      BY <1>4, LifetimesAddUp
    <3>2. Timer(r)' = TimeoutOf(r, rs[r].attempts + 1,
                                requests[r].start_ms + rs[r].attempts * Lifetime + Lifetime)
      <4>1. requests[r].start_ms + (rs[r].attempts + 1) * Lifetime
              = requests[r].start_ms + rs[r].attempts * Lifetime + Lifetime
        <5>1. rs[r].attempts * Lifetime \in Nat
          BY <1>4, LifetimesAddUp
        <5>2. \A x, y, z \in Nat : requests[r].start_ms + (x + y) = requests[r].start_ms + x + y
          BY <1>4
        <5> QED BY <3>1, <5>1, <5>2, LifetimeAssumption
      <4> QED BY <4>1, <1>2, <1>5 DEF Timer, TimeoutOf
    <3> QED BY <3>2, <1>1, <1>3, <1>4
  <2>3. \A p \in DOMAIN requests \ {r} : Timer(p) # e
    BY <1>3 DEF Timer, TimeoutOf
  <2>4. \A o \in timeouts \ {e} : o.req \in DOMAIN requests \ {r} /\ o = Timer(o.req)
    BY <1>3 DEF IInv, OneLiveTimeout
  <2>5. \A o \in timeouts' : o.req \in DOMAIN requests /\ o = Timer(o.req)'
    BY <2>1, <2>2, <2>4, <1>1, <1>3, <1>6
  <2>6. rs'[r].attempts <= MaxRetransmissions
    BY <1>2, <1>4, <1>5, LifetimeAssumption
  <2>7. \A p \in DOMAIN requests :
          /\ rs'[p].current_attempt = rs'[p].attempts
          /\ rs'[p].attempts <= MaxRetransmissions
          /\ ~rs'[p].completed => Timer(p)' \in timeouts'
    <3> SUFFICES ASSUME NEW p \in DOMAIN requests
                 PROVE  /\ rs'[p].current_attempt = rs'[p].attempts
                        /\ rs'[p].attempts <= MaxRetransmissions
                        /\ ~rs'[p].completed => Timer(p)' \in timeouts'
      OBVIOUS
    <3>1. CASE p = r
      BY <3>1, <2>2, <2>6, <1>1, <1>5
    <3>2. CASE p # r
      BY <3>2, <2>1, <2>3, <1>1, <1>5 DEF IInv, OneLiveTimeout
    <3> QED BY <3>1, <3>2
  <2> QED BY <2>5, <2>7, <1>2 DEF OneLiveTimeout
<1>9. NoTimeoutOverdue'
  BY <1>1, <1>2, <1>3, <1>6, LifetimeAssumption DEF NoTimeoutOverdue
<1>10. ResolvedOnce'
  <2>1. Resolved' = Resolved
    BY <1>2, <1>5 DEF Resolved
  <2>2. /\ tally'.completed_requests = tally.completed_requests
        /\ tally'.timed_out_requests = tally.timed_out_requests
    BY <1>2 DEF IInv, TypeOK, Tally
  <2> QED BY <2>1, <2>2 DEF IInv, ResolvedOnce
<1> QED BY <1>7, <1>8, <1>9, <1>10 DEF IInv

(* The last timeout.                                                       *)
LEMMA GiveUpStep ==
    ASSUME IInv, NEW e \in timeouts, GiveUp(e)
    PROVE  IInv'
<1>0. PICK r : r = e.req
  OBVIOUS
<1>1. /\ rs' = [rs EXCEPT ![r].completed = TRUE]
      /\ requests' = requests /\ now' = e.at
      /\ timeouts' = timeouts \ {e}
      /\ tally' = [tally EXCEPT !.timed_out_requests = @ + 1]
      /\ \A o \in timeouts : e.at <= o.at
      /\ ~rs[r].completed
  BY <1>0 DEF GiveUp, Pop, Ignored
<1>2. r \in DOMAIN requests /\ e = Timer(r) /\ e.at \in Nat /\ TypeOK
  BY <1>0, TimeoutFacts DEF IInv
<1>3. /\ rs'[r].completed
      /\ rs' \in [DOMAIN requests -> RequestState]
      /\ \A p \in DOMAIN requests : /\ rs'[p].attempts = rs[p].attempts
                                    /\ rs'[p].current_attempt = rs[p].current_attempt
      /\ \A p \in DOMAIN requests \ {r} : rs'[p] = rs[p]
  BY <1>1, <1>2 DEF TypeOK, RequestState
<1>4. TypeOK'
  <2>1. tally' \in Tally
    BY <1>1, <1>2 DEF TypeOK, Tally
  <2> QED BY <2>1, <1>1, <1>2, <1>3 DEF TypeOK
<1>5. OneLiveTimeout'
  <2>1. \A p \in DOMAIN requests : Timer(p)' = Timer(p)
    BY <1>1, <1>3, TimerKept
  <2>2. \A p \in DOMAIN requests \ {r} : Timer(p) # e
    BY <1>2 DEF Timer, TimeoutOf
  <2> QED BY <2>1, <2>2, <1>1, <1>3 DEF IInv, OneLiveTimeout
<1>6. NoTimeoutOverdue'
  BY <1>1 DEF NoTimeoutOverdue
<1>7. ResolvedOnce'
  <2>1. Cardinality(Resolved') = Cardinality(Resolved) + 1
    BY <1>1, <1>2, ClosingResolvesOne
  <2>2. /\ tally'.timed_out_requests = tally.timed_out_requests + 1
        /\ tally'.completed_requests = tally.completed_requests
        /\ tally.completed_requests \in Nat /\ tally.timed_out_requests \in Nat
    BY <1>1, <1>2 DEF TypeOK, Tally
  <2> QED BY <2>1, <2>2 DEF IInv, ResolvedOnce
<1> QED BY <1>4, <1>5, <1>6, <1>7 DEF IInv

LEMMA StepIInv == IInv /\ [Next]_vars => IInv'
<1> SUFFICES ASSUME IInv, [Next]_vars PROVE IInv'
  OBVIOUS
<1>0. now .. Horizon \subseteq Nat
  BY LifetimeAssumption DEF IInv, TypeOK
<1>1. CASE \E r \in DOMAIN requests, t \in now .. Horizon : Complete(r, t)
  BY <1>0, <1>1, CompleteStep
<1>2. CASE \E t \in now .. Horizon : Elapse(t)
  BY <1>0, <1>2, ElapseStep
<1>3. CASE Timeout
  <2>1. PICK e \in timeouts : StaleTimeout(e) \/ Retransmit(e) \/ GiveUp(e)
    BY <1>3 DEF Timeout
  <2> QED BY <2>1, StaleTimeoutStep, RetransmitStep, GiveUpStep
<1>4. CASE UNCHANGED vars
  <2>1. TypeOK'
    BY <1>4 DEF IInv, TypeOK, vars
  <2>2. OneLiveTimeout'
    BY <1>4, TimerKept DEF IInv, OneLiveTimeout, vars
  <2>3. NoTimeoutOverdue' /\ ResolvedOnce'
    BY <1>4 DEF IInv, NoTimeoutOverdue, ResolvedOnce, Resolved, vars
  <2> QED BY <2>1, <2>2, <2>3 DEF IInv
<1> QED BY <1>1, <1>2, <1>3, <1>4 DEF Next

(* The consumers' invariant.                                               *)
THEOREM Inductive == Spec => []IInv
BY InitIInv, StepIInv, PTL DEF Spec

-----------------------------------------------------------------------------
(* Every variable keeps its type.                                          *)
THEOREM TypeCorrect == Spec => []TypeOK
<1>1. IInv => TypeOK
  BY DEF IInv
<1> QED BY <1>1, Inductive, PTL

(* A request is counted once, as completed or as timed out.                *)
THEOREM CountedOnce == Spec => []ResolvedOnce
<1>1. IInv => ResolvedOnce
  BY DEF IInv
<1> QED BY <1>1, Inductive, PTL

(* An unresolved request has one timeout in the heap, of its current       *)
(* attempt; no request has two.                                            *)
THEOREM OneTimeout == Spec => []OneLiveTimeout
<1>1. IInv => OneLiveTimeout
  BY DEF IInv
<1> QED BY <1>1, Inductive, PTL

(* The deadline of a request, and the timer of one not resolved.           *)
LEMMA TimerBeforeDeadline ==
    ASSUME IInv, NEW r \in DOMAIN requests
    PROVE  /\ DeadlineOf(r) = requests[r].start_ms + MaxRetransmissions * Lifetime + Lifetime
           /\ MaxRetransmissions * Lifetime \in Nat
           /\ rs[r].attempts * Lifetime \in Nat
           /\ requests[r].start_ms \in Nat
           /\ rs[r].attempts * Lifetime <= MaxRetransmissions * Lifetime
<1>1. rs[r].attempts \in Nat /\ rs[r].attempts <= MaxRetransmissions
  BY DEF IInv, TypeOK, RequestState, OneLiveTimeout
<1>2. requests[r].start_ms \in Nat
  BY RequestsAreFinite DEF IInv, TypeOK
<1>3. MaxRetransmissions \in Nat /\ Lifetime \in Nat
  BY LifetimeAssumption
<1>4. /\ MaxRetransmissions * Lifetime \in Nat
      /\ (MaxRetransmissions + 1) * Lifetime = MaxRetransmissions * Lifetime + Lifetime
  BY <1>3, LifetimesAddUp
<1>5. rs[r].attempts * Lifetime \in Nat
  BY <1>1, LifetimesAddUp
<1>6. rs[r].attempts * Lifetime <= MaxRetransmissions * Lifetime
  BY <1>1, <1>3, LifetimesMonotone
<1>7. DeadlineOf(r) = requests[r].start_ms + (MaxRetransmissions * Lifetime + Lifetime)
  BY <1>4 DEF DeadlineOf
<1>8. \A x, y \in Nat : requests[r].start_ms + (x + y) = requests[r].start_ms + x + y
  BY <1>2
<1> QED BY <1>2, <1>3, <1>4, <1>5, <1>6, <1>7, <1>8

(* The timer of an open request is due before its deadline.                *)
LEMMA WithinDeadline == IInv => DeadlineHolds
<1> SUFFICES ASSUME IInv, NEW r \in DOMAIN requests, ~rs[r].completed
             PROVE  now <= DeadlineOf(r)
  BY DEF DeadlineHolds
<1>1. PICK e \in timeouts : e = Timer(r)
  BY DEF IInv, OneLiveTimeout
<1>2. e.req = r
  BY <1>1 DEF Timer, TimeoutOf
<1>3. /\ e.at = requests[r].start_ms + rs[r].attempts * Lifetime + Lifetime
      /\ now <= e.at
  BY <1>2, TimeoutFacts
<1>4. PICK a, m : a = rs[r].attempts * Lifetime /\ m = MaxRetransmissions * Lifetime
  OBVIOUS
<1>5. /\ DeadlineOf(r) = requests[r].start_ms + m + Lifetime
      /\ m \in Nat /\ a \in Nat /\ a <= m /\ requests[r].start_ms \in Nat
  BY <1>4, TimerBeforeDeadline
<1> QED BY <1>3, <1>4, <1>5, LifetimeAssumption DEF IInv, TypeOK

(* No request is open after its deadline.                                  *)
THEOREM ResolvedByDeadline == Spec => []DeadlineHolds
BY WithinDeadline, Inductive, PTL

(* Only a timeout of the last attempt gives a request up.                  *)
LEMMA GiveUpStepInTime ==
    ASSUME IInv, Next
    PROVE  GivesUpInTime
<1> SUFFICES ASSUME NEW r \in DOMAIN requests,
                    ~rs[r].completed, rs'[r].completed,
                    tally'.timed_out_requests > tally.timed_out_requests
             PROVE  now' = DeadlineOf(r) /\ rs[r].attempts = MaxRetransmissions
  BY DEF GivesUpInTime
<1>1. tally \in Tally /\ rs \in [DOMAIN requests -> RequestState]
  BY DEF IInv, TypeOK
<1>2. PICK e \in timeouts : GiveUp(e)
  <2>1. ~(\E p \in DOMAIN requests, t \in now .. Horizon : Complete(p, t))
    BY <1>1 DEF Complete, Tally
  <2>2. ~(\E t \in now .. Horizon : Elapse(t))
    BY <1>1 DEF Elapse, Tally
  <2>3. \A e \in timeouts : ~StaleTimeout(e) /\ ~Retransmit(e)
    BY <1>1 DEF StaleTimeout, Retransmit, Tally
  <2> QED BY <2>1, <2>2, <2>3 DEF Next, Timeout
<1>3. e.req = r
  BY <1>1, <1>2 DEF GiveUp
<1>4. /\ now' = e.at
      /\ ~(rs[r].attempts < MaxRetransmissions)
  BY <1>2, <1>3 DEF GiveUp, Pop, AttemptsLeft
<1>5. rs[r].attempts = MaxRetransmissions
  BY <1>1, <1>4, LifetimeAssumption DEF IInv, OneLiveTimeout, RequestState
<1>6. e.at = requests[r].start_ms + rs[r].attempts * Lifetime + Lifetime
  BY <1>3, TimeoutFacts
<1>7. DeadlineOf(r) = requests[r].start_ms + MaxRetransmissions * Lifetime + Lifetime
  BY TimerBeforeDeadline
<1> QED BY <1>4, <1>5, <1>6, <1>7

(* A request is given up at its deadline, after all its retransmissions.   *)
THEOREM NeverGivenUpEarly == Spec => GivenUpAtDeadline
<1>1. IInv /\ [Next]_vars => [GivesUpInTime]_vars
  BY GiveUpStepInTime
<1> QED BY <1>1, Inductive, PTL DEF Spec, GivenUpAtDeadline

(* No step touches a resolved request.                                    *)
LEMMA ResolvedLeftAlone ==
    ASSUME IInv, Next
    PROVE  LeavesResolved
<1> SUFFICES ASSUME NEW r \in Resolved PROVE rs'[r] = rs[r]
  BY DEF LeavesResolved
<1>0. r \in DOMAIN requests /\ rs[r].completed /\ rs \in [DOMAIN requests -> RequestState]
  BY DEF Resolved, IInv, TypeOK
<1>1. CASE \E p \in DOMAIN requests, t \in now .. Horizon : Complete(p, t)
  BY <1>0, <1>1 DEF Complete, Closed
<1>2. CASE \E t \in now .. Horizon : Elapse(t)
  BY <1>2 DEF Elapse
<1>3. CASE Timeout
  <2>1. PICK e \in timeouts : StaleTimeout(e) \/ Retransmit(e) \/ GiveUp(e)
    BY <1>3 DEF Timeout
  <2>2. CASE StaleTimeout(e)
    BY <2>2 DEF StaleTimeout
  <2>3. CASE Retransmit(e)
    BY <1>0, <2>3 DEF Retransmit, NextAttempt, Ignored
  <2>4. CASE GiveUp(e)
    BY <1>0, <2>4 DEF GiveUp, Ignored
  <2> QED BY <2>1, <2>2, <2>3, <2>4
<1> QED BY <1>1, <1>2, <1>3 DEF Next

(* Late answers and late timeouts leave a resolved request alone.          *)
THEOREM ResolutionStays == Spec => ResolutionIsFinal
<1>1. IInv /\ [Next]_vars => [LeavesResolved]_vars
  BY ResolvedLeftAlone
<1> QED BY <1>1, Inductive, PTL DEF Spec, ResolutionIsFinal
=============================================================================
