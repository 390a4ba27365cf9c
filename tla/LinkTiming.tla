---------------------------- MODULE LinkTiming -----------------------------
(***************************************************************************)
(* core/timing.py: what one traversal of a directed link costs, and whether *)
(* it happens at all.  Both data planes call it for every hop.  Time is in *)
(* ticks; a service time is at least one (the code's 1e-6 floor keeps it   *)
(* positive).                                                              *)
(*                                                                         *)
(* A link is a record [propagation, processing, queue_limit, lossy]; what  *)
(* it remembers between packets is the time it is busy until.              *)
(***************************************************************************)
EXTENDS Naturals

Wait(busy, now) == IF busy > now THEN busy - now ELSE 0

(* Mutant: one packet more than the limit.                                 *)
AdmitsOneMore(busy, now, service, limit) == Wait(busy, now) <= (limit + 1) * service

Admits(busy, now, service, limit) == Wait(busy, now) <= limit * service

(* Mutant: a packet leaves as if the link were idle.                       *)
DepartureWhenIdle(busy, now, service) == now + service

Departure(busy, now, service) == now + Wait(busy, now) + service

(* Mutants: the backlog is not charged to the packet; or charged twice.    *)
ArrivalUnqueued(link, busy, now, service, extra) ==
    now + link.propagation + service + link.processing + extra

Arrival(link, busy, now, service, extra) ==
    now + link.propagation + service + Wait(busy, now) + link.processing + extra

Refused(reason, busy, now) ==
    [ok |-> FALSE, reason |-> reason, arrival |-> now, busy |-> busy]

(* Mutant: link time is reserved before the packet is lost.                *)
ReservedThenLost(link, busy, now, service) ==
    Refused("random_loss", Departure(busy, now, service), now)

Lost(link, busy, now, service) == Refused("random_loss", busy, now)

(***************************************************************************)
(* LinkTimingModel.traverse: down, then lost, then no room, then sent.     *)
(* `lost' is the outcome of the loss draw, FALSE on a link without loss.   *)
(***************************************************************************)
Traverse(link, active, busy, now, service, extra, lost) ==
    IF ~active THEN Refused("link_down", busy, now)
    ELSE IF lost THEN Lost(link, busy, now, service)
    ELSE IF ~Admits(busy, now, service, link.queue_limit)
      THEN Refused("queue_full", busy, now)
    ELSE [ok |-> TRUE, reason |-> "none",
          arrival |-> Arrival(link, busy, now, service, extra),
          busy |-> Departure(busy, now, service)]
=============================================================================
