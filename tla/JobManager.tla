---------------------------- MODULE JobManager ----------------------------
(***************************************************************************)
(* The in-memory job store of webapp/jobs.py and the threads that run the  *)
(* jobs of /run/async.  The store is changed under its lock, hence in one  *)
(* step; a worker assigns the fields of its Job one at a time and without  *)
(* the lock, hence each assignment is a step, which readers see between.   *)
(*                                                                         *)
(* Jobs are numbered in the order of creation.  A Job outlives its removal *)
(* from the store, as long as its thread or a reader refers to it.  The    *)
(* fields that only feed the progress line (stage and times) are left out. *)
(***************************************************************************)
EXTENDS Integers, Sequences

CONSTANTS
    Args,              \* the arguments a job can be created with
    Outcome,           \* [Args -> [result, error, combos, traces]], what _execute returns
    NoResult, NoError, \* the values of a field that is None
    MaxJobs,           \* max_jobs
    MaxCreated,        \* bound on the jobs of a behaviour
    MaxRestarts        \* bound on the restarts of the process

VARIABLES
    jobs,      \* every Job created
    step,      \* where the thread of each is
    store,     \* _jobs, the ids in it
    order,     \* _order
    lost,      \* jobs up to this one were lost in a restart
    restarts

jobVars == <<jobs, step, store, order, lost, restarts>>

Job(args) ==
    [args |-> args, status |-> "queued", combos_done |-> 0, traces |-> {},
     result |-> NoResult, error |-> NoError]

Init ==
    /\ jobs = <<>> /\ step = <<>>
    /\ store = {} /\ order = <<>>
    /\ lost = 0 /\ restarts = 0

Created == Len(jobs)

(* Mutant: the store is kept one below its limit.                          *)
ExcessAtLimit(ids) == IF Len(ids) >= MaxJobs THEN 1 + Len(ids) - MaxJobs ELSE 0

(* `while len(_order) > max_jobs': how many of the oldest have to go.      *)
Excess(ids) == IF Len(ids) > MaxJobs THEN Len(ids) - MaxJobs ELSE 0

(* create() and run_in_background(); nobody else knows the id in between.  *)
Create(args) ==
    LET ids == Append(order, Created + 1)
    IN /\ Created < MaxCreated
       /\ jobs' = Append(jobs, Job(args))
       /\ step' = Append(step, "thread")
       /\ order' = SubSeq(ids, Excess(ids) + 1, Len(ids))
       /\ store' = (store \cup {Created + 1}) \ {ids[k] : k \in 1 .. Excess(ids)}
       /\ UNCHANGED <<lost, restarts>>

-----------------------------------------------------------------------------
(* The thread of job i: _runner around _target.                            *)

Assign(i, from, to, field, value) ==
    /\ step[i] = from
    /\ step' = [step EXCEPT ![i] = to]
    /\ jobs' = [jobs EXCEPT ![i] = [@ EXCEPT ![field] = value]]
    /\ UNCHANGED <<store, order, lost, restarts>>

Answer(i) == Outcome[jobs[i].args]

Start(i) == Assign(i, "thread", "running", "status", "running")
CountCombos(i) == Assign(i, "running", "counted", "combos_done", Answer(i).combos)
KeepTraces(i) ==
    Assign(i, "counted", IF Answer(i).error = NoError THEN "returned" ELSE "raised",
           "traces", Answer(i).traces)

(* Mutant: the job is completed before its result is there.                *)
PublishEarly(i) == Assign(i, "returned", "published", "status", "completed")

Publish(i) == Assign(i, "returned", "published", "result", Answer(i).result)
Complete(i) == Assign(i, "published", "ended", "status", "completed")

Fail(i) == Assign(i, "raised", "failed", "status", "failed")
KeepError(i) == Assign(i, "failed", "ended", "error", Answer(i).error)

Work(i) ==
    \/ Start(i) \/ CountCombos(i) \/ KeepTraces(i)
    \/ Publish(i) \/ Complete(i)
    \/ Fail(i) \/ KeepError(i)

(* The process restarts: nothing is persisted, daemon threads die.         *)
Restart ==
    /\ restarts < MaxRestarts
    /\ restarts' = restarts + 1
    /\ store' = {} /\ order' = <<>>
    /\ lost' = Created
    /\ step' = [i \in 1 .. Created |-> "killed"]
    /\ UNCHANGED jobs

Next ==
    \/ \E args \in Args : Create(args)
    \/ \E i \in 1 .. Created : Work(i)
    \/ Restart

Spec == Init /\ [][Next]_jobVars

-----------------------------------------------------------------------------
(* A job that reads `completed' is published whole, although the thread    *)
(* assigns its fields one by one and the routes read them without a lock:  *)
(* result, traces and count are there, they are those of its own           *)
(* arguments, and there was no error.                                      *)
PublishedWhole ==
    \A i \in 1 .. Created : jobs[i].status = "completed" =>
        /\ Answer(i).error = NoError
        /\ jobs[i].result = Answer(i).result
        /\ jobs[i].traces = Answer(i).traces
        /\ jobs[i].combos_done = Answer(i).combos

(* The store holds the newest jobs, up to max_jobs of them, and the        *)
(* insertion order names the same ones, oldest first.                      *)
StoreKeepsNewest ==
    LET kept == Created - lost
    IN /\ Len(order) = IF kept <= MaxJobs THEN kept ELSE MaxJobs
       /\ \A k \in 1 .. Len(order) : order[k] = Created - Len(order) + k
       /\ store = (Created - Len(order) + 1) .. Created
=============================================================================
