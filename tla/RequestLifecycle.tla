-------------------------- MODULE RequestLifecycle --------------------------
(***************************************************************************)
(* What an NDN consumer promises for each request, whatever the network    *)
(* does with its Interests: RequestState, and the `timeout' events of the  *)
(* engine's heap.  A request is answered at some moment, or retransmitted  *)
(* at a timeout, or given up at its last one.  Module NDNEngine implements *)
(* this one; here the answer may come at any time.                         *)
(*                                                                         *)
(* A completed request's later packets, and timeouts of an attempt that is *)
(* no longer the current one, change nothing.                              *)
(***************************************************************************)
EXTENDS Naturals, FiniteSets, Sequences

CONSTANTS
    Consumer,            \* nodes that issue requests
    Name,                \* what they ask for
    Workloads,           \* the request lists the engine may be called with
    Lifetime,            \* interest_lifetime_ms
    MaxRetransmissions,  \* max_retransmissions
    Horizon              \* bound on the clock (TLC only)

RequestSpec == [consumer : Consumer, name : Name, start_ms : Nat]

ASSUME WorkloadAssumption == Workloads \subseteq Seq(RequestSpec)
ASSUME LifetimeAssumption ==
    Lifetime \in Nat /\ MaxRetransmissions \in Nat /\ Horizon \in Nat

VARIABLES
    requests,   \* the request list; a request is its index
    rs,         \* request_states
    timeouts,   \* `timeout' events in the heap
    tally,      \* the counters of RunStats about requests
    now         \* time of the last event popped

vars == <<requests, rs, timeouts, tally, now>>

RequestState == [completed : BOOLEAN, attempts : Nat, current_attempt : Nat]
TimeoutEvent == [at : Nat, req : Nat, attempt : Nat]
Tally == [completed_requests : Nat, timed_out_requests : Nat, retransmissions : Nat]

TimeoutOf(r, attempt, t) == [at |-> t + Lifetime, req |-> r, attempt |-> attempt]

Init ==
    /\ requests \in Workloads
    /\ rs = [r \in DOMAIN requests |->
               [completed |-> FALSE, attempts |-> 0, current_attempt |-> 0]]
    /\ timeouts = {TimeoutOf(r, 0, requests[r].start_ms) : r \in DOMAIN requests}
    /\ tally = [completed_requests |-> 0, timed_out_requests |-> 0, retransmissions |-> 0]
    /\ now = 0

(***************************************************************************)
(* Packets.  An answer is counted once, and only for a request that has    *)
(* not been resolved; other packets leave the consumers alone.             *)
(***************************************************************************)
Reach(t) ==
    /\ t >= now
    /\ \A e \in timeouts : t <= e.at
    /\ now' = t

(* Mutant: an answer is counted without closing the request.               *)
NotClosed(r) == rs

Closed(r) == [rs EXCEPT ![r].completed = TRUE]

Complete(r, t) ==
    /\ ~rs[r].completed
    /\ requests[r].start_ms <= t
    /\ Reach(t)
    /\ rs' = Closed(r)
    /\ tally' = [tally EXCEPT !.completed_requests = @ + 1]
    /\ UNCHANGED <<requests, timeouts>>

Elapse(t) ==
    /\ Reach(t)
    /\ UNCHANGED <<requests, rs, timeouts, tally>>

(***************************************************************************)
(* A `timeout' event.                                                      *)
(***************************************************************************)
Ignored(e) == rs[e.req].completed \/ e.attempt # rs[e.req].current_attempt

(* Mutants: one attempt too many; attempts are counted down.               *)
OneMoreLeft(r) == rs[r].attempts <= MaxRetransmissions
CountedDown(r) == [rs EXCEPT ![r].attempts = @ - 1, ![r].current_attempt = @ + 1]

AttemptsLeft(r) == rs[r].attempts < MaxRetransmissions

NextAttempt(r) == [rs EXCEPT ![r].attempts = @ + 1, ![r].current_attempt = @ + 1]

(* Mutants: no new timeout; one for the attempt that just ended.           *)
NotRearmed(e) == timeouts \ {e}
RearmedSameAttempt(e) ==
    (timeouts \ {e}) \cup {TimeoutOf(e.req, rs[e.req].current_attempt, e.at)}

Rearmed(e) ==
    (timeouts \ {e}) \cup {TimeoutOf(e.req, rs[e.req].current_attempt + 1, e.at)}

Pop(e) ==
    /\ e \in timeouts
    /\ now <= e.at
    /\ \A o \in timeouts : e.at <= o.at
    /\ now' = e.at

StaleTimeout(e) ==
    /\ Pop(e)
    /\ Ignored(e)
    /\ timeouts' = timeouts \ {e}
    /\ UNCHANGED <<requests, rs, tally>>

Retransmit(e) ==
    /\ Pop(e)
    /\ ~Ignored(e)
    /\ AttemptsLeft(e.req)
    /\ rs' = NextAttempt(e.req)
    /\ timeouts' = Rearmed(e)
    /\ tally' = [tally EXCEPT !.retransmissions = @ + 1]
    /\ UNCHANGED requests

GiveUp(e) ==
    /\ Pop(e)
    /\ ~Ignored(e)
    /\ ~AttemptsLeft(e.req)
    /\ rs' = [rs EXCEPT ![e.req].completed = TRUE]
    /\ timeouts' = timeouts \ {e}
    /\ tally' = [tally EXCEPT !.timed_out_requests = @ + 1]
    /\ UNCHANGED requests

Timeout == \E e \in timeouts : StaleTimeout(e) \/ Retransmit(e) \/ GiveUp(e)

Next ==
    \/ \E r \in DOMAIN requests, t \in now .. Horizon : Complete(r, t)
    \/ \E t \in now .. Horizon : Elapse(t)
    \/ Timeout

Spec == Init /\ [][Next]_vars /\ WF_vars(Timeout)

-----------------------------------------------------------------------------
(* Every variable holds what the code keeps in it. *)
TypeOK ==
    /\ requests \in Workloads
    /\ rs \in [DOMAIN requests -> RequestState]
    /\ timeouts \in SUBSET TimeoutEvent
    /\ tally \in Tally
    /\ now \in Nat

Resolved == {r \in DOMAIN requests : rs[r].completed}

DeadlineOf(r) == requests[r].start_ms + (MaxRetransmissions + 1) * Lifetime

(* RunStats: every resolved request is counted once, as completed or as    *)
(* timed out, although both its answer and its timeout may come.           *)
ResolvedOnce ==
    tally.completed_requests + tally.timed_out_requests = Cardinality(Resolved)

(* The timer of a request.  Its attempts are the current one; an unresolved *)
(* request has a timeout in the heap, a lifetime after the attempt was     *)
(* sent; and no request ever has another, so the comparison of attempts    *)
(* in the handler discards nothing that the completed flag does not.       *)
Timer(r) ==
    TimeoutOf(r, rs[r].attempts, requests[r].start_ms + rs[r].attempts * Lifetime)

OneLiveTimeout ==
    /\ \A r \in DOMAIN requests :
          /\ rs[r].current_attempt = rs[r].attempts
          /\ rs[r].attempts <= MaxRetransmissions
          /\ ~rs[r].completed => Timer(r) \in timeouts
    /\ \A e \in timeouts : e.req \in DOMAIN requests /\ e = Timer(e.req)

(* interest_lifetime_ms and max_retransmissions bound a request's life.    *)
DeadlineHolds == \A r \in DOMAIN requests : rs[r].completed \/ now <= DeadlineOf(r)

(* A request is given up only at the end of its last attempt, never early. *)
GivesUpInTime ==
    \A r \in DOMAIN requests :
        ~rs[r].completed /\ rs'[r].completed
            /\ tally'.timed_out_requests > tally.timed_out_requests
        => now' = DeadlineOf(r) /\ rs[r].attempts = MaxRetransmissions

GivenUpAtDeadline == [][GivesUpInTime]_vars

(* Once resolved, a request is left alone by late answers and timeouts.    *)
LeavesResolved == \A r \in Resolved : rs'[r] = rs[r]

ResolutionIsFinal == [][LeavesResolved]_vars

(* No request hangs.                                                       *)
AllResolved == <>(Resolved = DOMAIN requests)
=============================================================================
