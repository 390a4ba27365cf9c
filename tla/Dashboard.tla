----------------------------- MODULE Dashboard -----------------------------
(***************************************************************************)
(* Browser pages that submit simulations and poll for them (app.js), the   *)
(* routes of app.py that serve them, and the job store behind.             *)
(*                                                                         *)
(* A page does one thing at a time: it posts the form, waits for the timer *)
(* of the next poll, has a status request under way, or is being taken to  *)
(* the job's view.  Requests can fail on the way (Blip, PostFails), the    *)
(* server can restart.                                                     *)
(***************************************************************************)
EXTENDS Sweep, FiniteSets

CONSTANTS
    Page,          \* open pages
    Forms,         \* what can be filled in on each page, see Sweep
    Malformed,     \* forms whose numbers do not parse
    MaxJobs, MaxCreated, MaxRestarts,
    MaxBlips       \* bound on the polls that fail

(* The numbers of a form parse, its architectures are checkboxes, and no   *)
(* list of combinations is empty.                                          *)
ASSUME FormsAssumption ==
    \A p \in Page : Forms[p] \ Malformed \subseteq
        [nodes : Int, consumer_count : Int, forwarding : STRING, forwardings : Seq(STRING),
         architectures : SUBSET ArchitectureChoices, others : Nat \ {0}]

ASSUME MaxCombosAssumption == MaxCombos \in Nat

VARIABLES
    jobs, step, store, order, lost, restarts,   \* JobManager
    page,      \* the state of each page
    blips

Submitted == {BuildArgs(form) : form \in (UNION {Forms[p] : p \in Page}) \ Malformed}
Outcomes == [args \in Submitted |-> Execute(args)]

J == INSTANCE JobManager WITH
    Args <- Submitted, Outcome <- Outcomes, NoResult <- None

manager == <<jobs, step, store, order, lost, restarts>>
vars == <<manager, page, blips>>

(* at: what the page does; job: the one it polls; status and error: the    *)
(* answer read so far; shown and result: what the user sees in the end.    *)
Idle == [at |-> "idle", form |-> <<>>, job |-> 0, status |-> "none", error |-> NoError,
         shown |-> "form", result |-> None]

Init ==
    /\ J!Init
    /\ page = [p \in Page |-> Idle]
    /\ blips = 0

Goes(p, from, to) ==
    /\ page[p].at = from
    /\ page' = [page EXCEPT ![p].at = to]

-----------------------------------------------------------------------------
(* The form: /run/async and its answer.                                    *)

Submit(p, form) ==
    /\ page[p].at = "idle"
    /\ page' = [page EXCEPT ![p] = [Idle EXCEPT !.at = "posting", !.form = form]]
    /\ UNCHANGED <<manager, blips>>

RunAsync(p) ==
    /\ page[p].at = "posting" /\ page[p].form \notin Malformed
    /\ J!Create(BuildArgs(page[p].form))
    /\ page' = [page EXCEPT ![p].at = "posted", ![p].job = J!Created + 1]
    /\ UNCHANGED blips

Accepted(p) ==
    /\ Goes(p, "posted", "polling")
    /\ UNCHANGED <<manager, blips>>

(* The answer that was being read is done with.                            *)
Turns(p, to) ==
    page' = [page EXCEPT ![p].at = to, ![p].status = "none", ![p].error = NoError]

(* failAsync(): an alert, and the form again.                              *)
Alerts(p, message) ==
    page' = [page EXCEPT ![p] = [Idle EXCEPT !.shown = message, !.form = page[p].form,
                                             !.job = page[p].job]]

(* A number that does not parse, or the network; the job, if it was        *)
(* created, goes on without its page.                                      *)
PostFails(p) ==
    /\ \/ page[p].at = "posting" /\ page[p].form \in Malformed /\ UNCHANGED blips
       \/ page[p].at \in {"posting", "posted"} /\ blips < MaxBlips /\ blips' = blips + 1
    /\ Alerts(p, "could not start")
    /\ UNCHANGED manager

-----------------------------------------------------------------------------
(* The poll: /jobs/<id>/status reads the Job field by field, the status    *)
(* before the error.                                                       *)

Known(p) == page[p].job \in store

JobStatus(p) ==
    /\ page[p].at = "polling"
    /\ page' = IF Known(p)
                 THEN [page EXCEPT ![p].at = "reading", ![p].status = jobs[page[p].job].status]
                 ELSE [page EXCEPT ![p].at = "answered", ![p].status = "not_found"]
    /\ UNCHANGED <<manager, blips>>

JobError(p) ==
    /\ page[p].at = "reading"
    /\ page' = [page EXCEPT ![p].at = "answered", ![p].error = jobs[page[p].job].error]
    /\ UNCHANGED <<manager, blips>>

PollAnswered(p) ==
    /\ page[p].at = "answered"
    /\ CASE page[p].status = "not_found" -> Alerts(p, "not found")
         [] page[p].status = "failed" ->
              Alerts(p, IF page[p].error = NoError THEN "Simulation failed." ELSE page[p].error)
         [] page[p].status = "completed" -> Turns(p, "navigating")
         [] OTHER -> Turns(p, "waiting")
    /\ UNCHANGED <<manager, blips>>

(* Mutant: a poll that failed is the last one.                             *)
GivesUp == "lost"

Retries == "waiting"

Blip(p) ==
    /\ page[p].at \in {"polling", "reading", "answered"}
    /\ blips < MaxBlips
    /\ blips' = blips + 1
    /\ Turns(p, Retries)
    /\ UNCHANGED manager

Timer(p) ==
    /\ Goes(p, "waiting", "polling")
    /\ UNCHANGED <<manager, blips>>

(* /jobs/<id>/view: the result, or that the job is no longer available.    *)
JobView(p) ==
    /\ page[p].at = "navigating"
    /\ IF Known(p) /\ jobs[page[p].job].status = "completed"
         THEN page' = [page EXCEPT ![p].at = "idle", ![p].shown = "result",
                                  ![p].result = jobs[page[p].job].result]
         ELSE Alerts(p, "no longer available")
    /\ UNCHANGED <<manager, blips>>

(* The server restarts under requests that it is answering.                *)
Restart ==
    /\ J!Restart
    /\ page' = [p \in Page |->
                  IF page[p].at = "reading"
                    THEN [page[p] EXCEPT !.at = Retries, !.status = "none"] ELSE page[p]]
    /\ UNCHANGED blips

-----------------------------------------------------------------------------
Work == (\E i \in 1 .. J!Created : J!Work(i)) /\ UNCHANGED <<page, blips>>

Serve(p) ==
    RunAsync(p) \/ Accepted(p) \/ JobStatus(p) \/ JobError(p) \/ PollAnswered(p)
      \/ Timer(p) \/ JobView(p)

Next ==
    \/ \E p \in Page : (\E form \in Forms[p] : Submit(p, form))
                         \/ PostFails(p) \/ Serve(p) \/ Blip(p)
    \/ Work
    \/ Restart

(* Threads are scheduled, requests answered and timers fire; nobody has to *)
(* submit, fail or restart.                                                *)
Spec == Init /\ [][Next]_vars /\ WF_vars(Work) /\ \A p \in Page : WF_vars(Serve(p))

-----------------------------------------------------------------------------
PublishedWhole == J!PublishedWhole

Wanted(p) == Outcomes[BuildArgs(page[p].form)]

(* What a page ends with is true of its own submission: a result is that   *)
(* of the form it submitted; "not found" and "no longer available" mean    *)
(* that max_jobs newer jobs have come or the server has restarted; and a   *)
(* failure is reported of a sweep that cannot be run, never of another.    *)
HonestOutcome ==
    \A p \in Page : page[p].at = "idle" =>
        CASE page[p].shown \in {"form", "could not start"} -> TRUE
          [] page[p].shown = "result" ->
               page[p].result = Wanted(p).result /\ Wanted(p).error = NoError
          [] page[p].shown \in {"not found", "no longer available"} ->
               page[p].job <= lost \/ J!Created - page[p].job >= MaxJobs
          [] OTHER -> /\ Wanted(p).error # NoError
                      /\ page[p].shown \in {Wanted(p).error, "Simulation failed."}

(* Every page that polls gets to an end: a result, an error, or the news   *)
(* that its job is gone, also when the job is evicted or the server        *)
(* restarts while it is polled.                                            *)
PollingEnds ==
    \A p \in Page :
        page[p].at \notin {"idle", "posting", "posted"} ~> page[p].at = "idle"

(* A sweep runs and shows what was asked for: with the strategies left to  *)
(* the program and a base strategy that is not SDN's, every requested      *)
(* architecture has its rows and its trace and no other has; and never     *)
(* more configurations run than were estimated and allowed.                *)
SweepCoversRequest ==
    \A i \in 1 .. J!Created :
        LET args == jobs[i].args
            asked == IF args.architectures = {} THEN {"ip", "ndn"} ELSE args.architectures
        IN jobs[i].result.exists =>
             /\ (args.forwardings = <<>> /\ args.forwarding # SdnCentralized) =>
                   jobs[i].result.rows = asked /\ jobs[i].result.trace_architectures = asked
             /\ Cardinality(Executed(args)) * args.others <= jobs[i].combos_done
             /\ jobs[i].combos_done <= MaxCombos

(* "surfaced to the poller, not lost": a status answer that says `failed'  *)
(* says why.                                                               *)
FailureIsReported ==
    \A p \in Page :
        page[p].at = "answered" /\ page[p].status = "failed" => page[p].error # NoError
=============================================================================
