-------------------------- MODULE DashboardProofs ---------------------------
(***************************************************************************)
(* First the job store and its threads: what JobManager's steps preserve,  *)
(* for any number of jobs and restarts.  The dashboard runs its jobs as    *)
(* JobManager says, whatever its pages do, so this holds of the whole.     *)
(* From it follows what the pages show in the end, and, of the arguments   *)
(* alone, that a sweep covers what its form asked for.                     *)
(***************************************************************************)
EXTENDS Dashboard, FiniteSetTheorems, SequenceTheorems, TLAPS

(* What the fields of a Job can hold.                                      *)
Statuses == {"queued", "running", "completed", "failed"}
Counts == {0} \cup {Outcomes[args].combos : args \in Submitted}
TraceSets == {{}} \cup {Outcomes[args].traces : args \in Submitted}
Results == {None} \cup {Outcomes[args].result : args \in Submitted}
Errors == {NoError} \cup {Outcomes[args].error : args \in Submitted}

JobRecord ==
    [args : Submitted, status : Statuses, combos_done : Counts, traces : TraceSets,
     result : Results, error : Errors]

JobSteps ==
    {"thread", "running", "counted", "returned", "published",
     "raised", "failed", "ended", "killed"}

JobsTyped ==
    /\ jobs \in Seq(JobRecord)
    /\ step \in [1 .. J!Created -> JobSteps]

(* What a thread has assigned when it is at a step; a thread that a        *)
(* restart has killed left its job as it was at one of them.               *)
Assigned(i) ==
    LET job == jobs[i]
        at == step[i]
        answered == job.combos_done = J!Answer(i).combos /\ job.traces = J!Answer(i).traces
    IN /\ job.status = "completed" =>
            answered /\ job.result = J!Answer(i).result /\ J!Answer(i).error = NoError
       /\ at \in {"counted", "returned", "published"} => job.combos_done = J!Answer(i).combos
       /\ at \in {"returned", "published"} =>
            job.traces = J!Answer(i).traces /\ J!Answer(i).error = NoError
       /\ at = "published" => job.result = J!Answer(i).result
       /\ job.result # None =>
            answered /\ job.result = J!Answer(i).result /\ J!Answer(i).error = NoError
       /\ job.status = "failed" \/ at \in {"raised", "failed"} => J!Answer(i).error # NoError
       /\ job.error \in {NoError, J!Answer(i).error}
       /\ at \in {"thread", "running", "counted", "returned", "raised"} =>
            job.status # "completed"

JobsInv == JobsTyped /\ \A i \in 1 .. J!Created : Assigned(i)

-----------------------------------------------------------------------------
(* A step of a thread changes one field of its own job.                    *)
LEMMA AssignTyped ==
    ASSUME JobsTyped, NEW i \in 1 .. J!Created, NEW from, NEW to \in JobSteps,
           NEW field \in DOMAIN jobs[i], NEW value, J!Assign(i, from, to, field, value),
           [jobs[i] EXCEPT ![field] = value] \in JobRecord
    PROVE  /\ JobsTyped'
           /\ J!Created' = J!Created
           /\ jobs'[i] = [jobs[i] EXCEPT ![field] = value]
           /\ step'[i] = to
           /\ \A k \in 1 .. J!Created : k # i => jobs'[k] = jobs[k] /\ step'[k] = step[k]
<1>1. jobs' = [jobs EXCEPT ![i] = [jobs[i] EXCEPT ![field] = value]]
  BY DEF J!Assign
<1>2. jobs' \in Seq(JobRecord) /\ Len(jobs') = Len(jobs)
  BY <1>1, ExceptSeq DEF JobsTyped, J!Created
<1>3. jobs'[i] = [jobs[i] EXCEPT ![field] = value]
      /\ \A k \in 1 .. J!Created : k # i => jobs'[k] = jobs[k]
  BY <1>1 DEF JobsTyped, J!Created
<1> QED
  BY <1>2, <1>3 DEF JobsTyped, J!Created, J!Assign

(* The other jobs are untouched, so the invariant is kept if it is for i.  *)
LEMMA AssignKeeps ==
    ASSUME JobsInv, NEW i \in 1 .. J!Created, NEW from, NEW to \in JobSteps,
           NEW field \in DOMAIN jobs[i], NEW value, J!Assign(i, from, to, field, value),
           [jobs[i] EXCEPT ![field] = value] \in JobRecord, Assigned(i)'
    PROVE  JobsInv'
<1>1. JobsTyped' /\ J!Created' = J!Created
      /\ \A k \in 1 .. J!Created : k # i => jobs'[k] = jobs[k] /\ step'[k] = step[k]
  BY AssignTyped DEF JobsInv
<1>2. ASSUME NEW k \in 1 .. J!Created, k # i PROVE Assigned(k)'
  BY <1>1, <1>2 DEF JobsInv, Assigned, J!Answer
<1> QED
  BY <1>1, <1>2 DEF JobsInv

(* One step per assignment of the thread.                                  *)
LEMMA WorkKeeps == ASSUME JobsInv, NEW i \in 1 .. J!Created, J!Work(i) PROVE JobsInv'
<1>1. jobs[i] \in JobRecord /\ Assigned(i)
  BY DEF JobsInv, JobsTyped, J!Created
<1>2. J!Answer(i).combos \in Counts /\ J!Answer(i).traces \in TraceSets
      /\ J!Answer(i).result \in Results /\ J!Answer(i).error \in Errors
  BY <1>1 DEF J!Answer, JobRecord, Counts, TraceSets, Results, Errors
<1>3. CASE J!Start(i)
  <2>1. [jobs[i] EXCEPT !["status"] = "running"] \in JobRecord
    BY <1>1, <1>2 DEF JobRecord, Statuses
  <2>2. jobs'[i] = [jobs[i] EXCEPT !["status"] = "running"] /\ step'[i] = "running"
    BY <1>1, <1>3, <2>1, AssignTyped DEF J!Start, JobsInv, JobSteps, JobRecord
  <2>3. Assigned(i)'
    BY <1>1, <1>3, <2>2 DEF Assigned, J!Answer, JobRecord, J!Start, J!Assign
  <2> QED
    BY <1>1, <1>3, <2>1, <2>3, AssignKeeps DEF J!Start, JobSteps, JobRecord
<1>4. CASE J!CountCombos(i)
  <2>1. [jobs[i] EXCEPT !["combos_done"] = J!Answer(i).combos] \in JobRecord
    BY <1>1, <1>2 DEF JobRecord, Statuses
  <2>2. jobs'[i] = [jobs[i] EXCEPT !["combos_done"] = J!Answer(i).combos] /\ step'[i] = "counted"
    BY <1>1, <1>4, <2>1, AssignTyped DEF J!CountCombos, JobsInv, JobSteps, JobRecord
  <2>3. Assigned(i)'
    BY <1>1, <1>4, <2>2 DEF Assigned, J!Answer, JobRecord, J!CountCombos, J!Assign
  <2> QED
    BY <1>1, <1>4, <2>1, <2>3, AssignKeeps DEF J!CountCombos, JobSteps, JobRecord
<1>5. CASE J!KeepTraces(i)
  <2>1. [jobs[i] EXCEPT !["traces"] = J!Answer(i).traces] \in JobRecord
    BY <1>1, <1>2 DEF JobRecord, Statuses
  <2>2. jobs'[i] = [jobs[i] EXCEPT !["traces"] = J!Answer(i).traces]
        /\ step'[i] = (IF J!Answer(i).error = NoError THEN "returned" ELSE "raised")
    BY <1>1, <1>5, <2>1, AssignTyped DEF J!KeepTraces, JobsInv, JobSteps, JobRecord
  <2>3. Assigned(i)'
    BY <1>1, <1>5, <2>2 DEF Assigned, J!Answer, JobRecord, J!KeepTraces, J!Assign
  <2> QED
    BY <1>1, <1>5, <2>1, <2>3, AssignKeeps DEF J!KeepTraces, JobSteps, JobRecord
<1>6. CASE J!Publish(i)
  <2>1. [jobs[i] EXCEPT !["result"] = J!Answer(i).result] \in JobRecord
    BY <1>1, <1>2 DEF JobRecord, Statuses
  <2>2. jobs'[i] = [jobs[i] EXCEPT !["result"] = J!Answer(i).result] /\ step'[i] = "published"
    BY <1>1, <1>6, <2>1, AssignTyped DEF J!Publish, JobsInv, JobSteps, JobRecord
  <2>3. Assigned(i)'
    BY <1>1, <1>6, <2>2 DEF Assigned, J!Answer, JobRecord, J!Publish, J!Assign
  <2> QED
    BY <1>1, <1>6, <2>1, <2>3, AssignKeeps DEF J!Publish, JobSteps, JobRecord
<1>7. CASE J!Complete(i)
  <2>1. [jobs[i] EXCEPT !["status"] = "completed"] \in JobRecord
    BY <1>1, <1>2 DEF JobRecord, Statuses
  <2>2. jobs'[i] = [jobs[i] EXCEPT !["status"] = "completed"] /\ step'[i] = "ended"
    BY <1>1, <1>7, <2>1, AssignTyped DEF J!Complete, JobsInv, JobSteps, JobRecord
  <2>3. Assigned(i)'
    BY <1>1, <1>7, <2>2 DEF Assigned, J!Answer, JobRecord, J!Complete, J!Assign
  <2> QED
    BY <1>1, <1>7, <2>1, <2>3, AssignKeeps DEF J!Complete, JobSteps, JobRecord
<1>8. CASE J!Fail(i)
  <2>1. [jobs[i] EXCEPT !["status"] = "failed"] \in JobRecord
    BY <1>1, <1>2 DEF JobRecord, Statuses
  <2>2. jobs'[i] = [jobs[i] EXCEPT !["status"] = "failed"] /\ step'[i] = "failed"
    BY <1>1, <1>8, <2>1, AssignTyped DEF J!Fail, JobsInv, JobSteps, JobRecord
  <2>3. Assigned(i)'
    BY <1>1, <1>8, <2>2 DEF Assigned, J!Answer, JobRecord, J!Fail, J!Assign
  <2> QED
    BY <1>1, <1>8, <2>1, <2>3, AssignKeeps DEF J!Fail, JobSteps, JobRecord
<1>9. CASE J!KeepError(i)
  <2>1. [jobs[i] EXCEPT !["error"] = J!Answer(i).error] \in JobRecord
    BY <1>1, <1>2 DEF JobRecord, Statuses
  <2>2. jobs'[i] = [jobs[i] EXCEPT !["error"] = J!Answer(i).error] /\ step'[i] = "ended"
    BY <1>1, <1>9, <2>1, AssignTyped DEF J!KeepError, JobsInv, JobSteps, JobRecord
  <2>3. Assigned(i)'
    BY <1>1, <1>9, <2>2 DEF Assigned, J!Answer, JobRecord, J!KeepError, J!Assign
  <2> QED
    BY <1>1, <1>9, <2>1, <2>3, AssignKeeps DEF J!KeepError, JobSteps, JobRecord
<1> QED
  BY <1>3, <1>4, <1>5, <1>6, <1>7, <1>8, <1>9 DEF J!Work

(* A new job is added after the others, which stay as they are.            *)
LEMMA CreateAppends ==
    ASSUME JobsTyped, NEW args \in Submitted, J!Create(args)
    PROVE  /\ jobs' \in Seq(JobRecord) /\ J!Created' = J!Created + 1 /\ J!Created \in Nat
           /\ jobs'[J!Created + 1] = J!Job(args)
           /\ \A k \in 1 .. J!Created : jobs'[k] = jobs[k]
<1>1. J!Job(args) \in JobRecord
  BY DEF J!Job, JobRecord, Statuses, Counts, TraceSets, Results, Errors
<1> QED
  BY <1>1 DEF JobsTyped, J!Create, J!Created

LEMMA CreateKeepsJobs == ASSUME JobsInv, NEW args \in Submitted, J!Create(args) PROVE JobsInv'
<1>1. /\ jobs' \in Seq(JobRecord) /\ J!Created' = J!Created + 1 /\ J!Created \in Nat
      /\ jobs'[J!Created + 1] = J!Job(args)
      /\ \A k \in 1 .. J!Created : jobs'[k] = jobs[k]
  BY CreateAppends DEF JobsInv
<1>2. /\ step' \in [1 .. J!Created + 1 -> JobSteps]
      /\ step'[J!Created + 1] = "thread"
      /\ \A k \in 1 .. J!Created : step'[k] = step[k]
  <2>1. step \in Seq(JobSteps) /\ Len(step) = J!Created
    BY <1>1, IsASeq DEF JobsInv, JobsTyped
  <2>2. step' \in Seq(JobSteps) /\ Len(step') = J!Created + 1
    BY <2>1, AppendProperties DEF J!Create, JobSteps
  <2>3. step' \in [1 .. J!Created + 1 -> JobSteps]
    BY <2>2, LenProperties
  <2>4. step' = Append(step, "thread") /\ "thread" \in JobSteps
    BY DEF J!Create, JobSteps
  <2> QED
    BY <2>1, <2>3, <2>4, AppendProperties
<1>3. ASSUME NEW k \in 1 .. J!Created PROVE Assigned(k)'
  BY <1>1, <1>2, <1>3 DEF JobsInv, Assigned, J!Answer
<1>4. ASSUME NEW k, k = J!Created + 1 PROVE Assigned(k)'
  BY <1>1, <1>2, <1>4 DEF Assigned, J!Answer, J!Job
<1> QED
  BY <1>1, <1>2, <1>3, <1>4 DEF JobsInv, JobsTyped

LEMMA RestartKeepsJobs == ASSUME JobsInv, J!Restart PROVE JobsInv'
BY DEF JobsInv, JobsTyped, Assigned, J!Answer, J!Restart, J!Created, JobSteps

THEOREM JobsInvIsInvariant == J!Spec => []JobsInv
<1>1. J!Init => JobsInv
  BY DEF J!Init, JobsInv, JobsTyped, J!Created
<1>2. JobsInv /\ [J!Next]_(J!jobVars) => JobsInv'
  <2> SUFFICES ASSUME JobsInv, [J!Next]_(J!jobVars) PROVE JobsInv'
    OBVIOUS
  <2>1. CASE \E args \in Submitted : J!Create(args)
    BY <2>1, CreateKeepsJobs
  <2>2. CASE \E i \in 1 .. J!Created : J!Work(i)
    BY <2>2, WorkKeeps
  <2>3. CASE J!Restart
    BY <2>3, RestartKeepsJobs
  <2>4. CASE UNCHANGED J!jobVars
    BY <2>4 DEF J!jobVars, JobsInv, JobsTyped, Assigned, J!Answer, J!Created
  <2> QED
    BY <2>1, <2>2, <2>3, <2>4 DEF J!Next
<1> QED
  BY <1>1, <1>2, PTL DEF J!Spec

-----------------------------------------------------------------------------
(* The store; only Create and Restart change it.                           *)
StoreInv ==
    /\ order \in Seq(Nat) /\ J!Created \in Nat /\ lost \in 0 .. J!Created
    /\ J!StoreKeepsNewest

LEMMA CreateKeepsStore ==
    ASSUME MaxJobs \in Nat, StoreInv, jobs \in Seq(JobRecord), NEW args, J!Create(args)
    PROVE  StoreInv'
<1> DEFINE ids == Append(order, J!Created + 1)
           excess == J!Excess(ids)
<1>1. /\ ids \in Seq(Nat) /\ Len(ids) = Len(order) + 1
      /\ \A k \in 1 .. Len(ids) : ids[k] = J!Created + 1 - Len(ids) + k
  <2>1. order \in Seq(Nat) /\ Len(order) \in Nat /\ J!Created \in Nat
        /\ \A k \in 1 .. Len(order) : order[k] = J!Created - Len(order) + k
    BY LenProperties DEF StoreInv, J!StoreKeepsNewest
  <2>2. /\ ids \in Seq(Nat) /\ Len(ids) = Len(order) + 1
        /\ ids[Len(order) + 1] = J!Created + 1
        /\ \A k \in 1 .. Len(order) : ids[k] = order[k]
    BY <2>1, AppendProperties
  <2> QED
    BY <2>1, <2>2
<1>2. J!Created' = J!Created + 1
  BY DEF J!Create, J!Created
<1>3. excess = IF J!Created - lost < MaxJobs THEN 0 ELSE 1
  BY <1>1 DEF J!Excess, StoreInv, J!StoreKeepsNewest
<1>4. excess \in 0 .. Len(ids) /\ Len(ids) \in Nat
  BY <1>1, <1>3 DEF StoreInv, J!StoreKeepsNewest
<1> HIDE DEF ids, excess
<1>5. /\ order' \in Seq(Nat) /\ Len(order') = Len(ids) - excess
      /\ \A k \in 1 .. Len(order') : order'[k] = ids[excess + k]
  <2>1. order' = SubSeq(ids, excess + 1, Len(ids))
    BY DEF J!Create, ids, excess
  <2> QED
    BY <2>1, <1>1, <1>4
<1>6. store' = (store \cup {J!Created + 1}) \ {ids[k] : k \in 1 .. excess}
  BY DEF J!Create, ids, excess
<1>7. Len(order') = IF J!Created + 1 - lost <= MaxJobs THEN J!Created + 1 - lost ELSE MaxJobs
  BY <1>1, <1>3, <1>5 DEF StoreInv, J!StoreKeepsNewest
<1>8. \A k \in 1 .. Len(order') : order'[k] = J!Created + 1 - Len(order') + k
  BY <1>1, <1>4, <1>5 DEF StoreInv
<1>9. store' = (J!Created + 1 - Len(order') + 1) .. (J!Created + 1)
  <2>1. store \cup {J!Created + 1} = (J!Created + 2 - Len(ids)) .. (J!Created + 1)
    BY <1>1 DEF StoreInv, J!StoreKeepsNewest
  <2>2. {ids[k] : k \in 1 .. excess}
          = (J!Created + 2 - Len(ids)) .. (J!Created + 1 - Len(ids) + excess)
    <3>1. CASE excess = 0
      BY <3>1, <1>1, <1>4 DEF StoreInv
    <3>2. CASE excess = 1
      BY <3>2, <1>1, <1>4 DEF StoreInv
    <3> QED
      BY <3>1, <3>2, <1>3
  <2>3. \A low, high, n \in Int :
           n \in 0 .. high - low + 1 =>
             (low .. high) \ (low .. low - 1 + n) = low + n .. high
    OBVIOUS
  <2>4. PICK low, high \in Int : low = J!Created + 2 - Len(ids) /\ high = J!Created + 1
    <3>1. J!Created + 2 - Len(ids) \in Int /\ J!Created + 1 \in Int
      BY <1>4 DEF StoreInv
    <3> QED
      BY <3>1, Zenon
  <2>5. store' = (low .. high) \ (low .. low - 1 + excess)
    BY <2>1, <2>2, <2>4, <1>4, <1>6 DEF StoreInv
  <2>6. excess \in Int /\ excess \in 0 .. high - low + 1
    BY <2>4, <1>4 DEF StoreInv
  <2>7. store' = low + excess .. high
    BY <2>3, <2>5, <2>6
  <2> QED
    BY <2>4, <2>7, <1>4, <1>5 DEF StoreInv
<1>10. lost' = lost /\ lost \in 0 .. (J!Created + 1)
  BY DEF J!Create, StoreInv
<1>11. J!StoreKeepsNewest'
  <2>1. Len(order') = IF J!Created' - lost' <= MaxJobs THEN J!Created' - lost' ELSE MaxJobs
    BY <1>2, <1>7, <1>10 DEF J!Created
  <2>2. \A k \in 1 .. Len(order') : order'[k] = J!Created' - Len(order') + k
    BY <1>2, <1>8 DEF J!Created
  <2>3. store' = (J!Created' - Len(order') + 1) .. J!Created'
    BY <1>2, <1>9 DEF J!Created
  <2> QED
    BY <2>1, <2>2, <2>3 DEF J!StoreKeepsNewest
<1> QED
  BY <1>2, <1>5, <1>10, <1>11 DEF StoreInv

(* The store, with the types its proof needs: create() under the lock, and *)
(* a restart that empties it, are all that touches _jobs and _order.       *)
THEOREM StoreInvIsInvariant ==
    ASSUME MaxJobs \in Nat
    PROVE  J!Spec => []StoreInv
<1>1. J!Init => StoreInv
  BY DEF J!Init, StoreInv, J!StoreKeepsNewest, J!Created
<1>2. JobsInv /\ JobsInv' /\ StoreInv /\ [J!Next]_(J!jobVars) => StoreInv'
  <2> SUFFICES ASSUME JobsInv, JobsInv', StoreInv, [J!Next]_(J!jobVars) PROVE StoreInv'
    OBVIOUS
  <2>1. CASE \E args \in Submitted : J!Create(args)
    BY <2>1, CreateKeepsStore DEF JobsInv, JobsTyped
  <2>2. CASE \E i \in 1 .. J!Created : J!Work(i)
    <3>1. /\ UNCHANGED <<order, store, lost>>
          /\ J!Created' = J!Created
      <4>1. PICK i \in 1 .. J!Created : J!Work(i)
        BY <2>2
      <4>2. UNCHANGED <<order, store, lost>>
            /\ \E field, value : jobs' = [jobs EXCEPT ![i] = [@ EXCEPT ![field] = value]]
        BY <4>1 DEF J!Work, J!Start, J!CountCombos, J!KeepTraces, J!Publish,
               J!Complete, J!Fail, J!KeepError, J!Assign
      <4> QED
        BY <4>1, <4>2 DEF JobsInv, JobsTyped, J!Created
    <3> QED
      BY <3>1 DEF StoreInv, J!StoreKeepsNewest
  <2>3. CASE J!Restart
    BY <2>3 DEF J!Restart, StoreInv, J!StoreKeepsNewest, J!Created
  <2>4. CASE UNCHANGED J!jobVars
    BY <2>4 DEF J!jobVars, StoreInv, J!StoreKeepsNewest, J!Created
  <2> QED
    BY <2>1, <2>2, <2>3, <2>4 DEF J!Next
<1> QED
  BY <1>1, <1>2, JobsInvIsInvariant, PTL DEF J!Spec

(* A poller may act on an answer it read a while ago: a Job that read       *)
(* completed stays so, and keeps the arguments it was created with, at     *)
(* every step of every thread and over a restart (jobs.py keeps the Job of *)
(* whoever refers to it).                                                  *)
THEOREM DoneIsDone ==
    ASSUME JobsInv, [J!Next]_(J!jobVars), NEW i \in 1 .. J!Created
    PROVE  /\ J!Created <= J!Created' /\ i \in 1 .. J!Created'
           /\ jobs'[i].args = jobs[i].args
           /\ jobs[i].status = "completed" => jobs'[i].status = "completed"
<1>1. jobs \in Seq(JobRecord) /\ J!Created \in Nat /\ jobs[i] \in JobRecord
  BY DEF JobsInv, JobsTyped, J!Created
<1>2. CASE \E args \in Submitted : J!Create(args)
  <2>1. PICK args \in Submitted : J!Create(args)
    BY <1>2
  <2> QED
    BY <1>1, <2>1, CreateAppends DEF JobsInv
<1>3. ASSUME NEW k \in 1 .. J!Created, NEW from, NEW to, NEW field, NEW value,
             J!Assign(k, from, to, field, value),
             field # "args",
             field = "status" /\ k = i => value = "completed" \/ jobs[i].status # "completed"
      PROVE  /\ J!Created' = J!Created /\ jobs'[i].args = jobs[i].args
             /\ jobs[i].status = "completed" => jobs'[i].status = "completed"
  <2>1. jobs' = [jobs EXCEPT ![k] = [jobs[k] EXCEPT ![field] = value]]
    BY <1>3 DEF J!Assign
  <2>2. J!Created' = J!Created /\ (k # i => jobs'[i] = jobs[i])
        /\ (k = i => jobs'[i] = [jobs[i] EXCEPT ![field] = value])
    BY <1>1, <2>1 DEF J!Created
  <2> QED
    BY <1>1, <1>3, <2>2 DEF JobRecord
<1>4. ASSUME NEW k \in 1 .. J!Created, J!Work(k)
      PROVE  /\ J!Created' = J!Created /\ jobs'[i].args = jobs[i].args
             /\ jobs[i].status = "completed" => jobs'[i].status = "completed"
  <2>1. step[k] \in {"thread", "raised"} => jobs[k].status # "completed"
    BY DEF JobsInv, Assigned
  <2>2. CASE J!Start(k) \/ J!Fail(k)
    BY <1>3, <2>1, <2>2 DEF J!Start, J!Fail, J!Assign
  <2>3. CASE J!Complete(k)
    BY <1>3, <2>3 DEF J!Complete
  <2>4. CASE J!CountCombos(k) \/ J!KeepTraces(k) \/ J!Publish(k) \/ J!KeepError(k)
    BY <1>3, <2>4 DEF J!CountCombos, J!KeepTraces, J!Publish, J!KeepError
  <2> QED
    BY <1>4, <2>2, <2>3, <2>4 DEF J!Work
<1>5. CASE J!Restart \/ UNCHANGED J!jobVars
  BY <1>1, <1>5 DEF J!Restart, J!jobVars, J!Created
<1> QED
  BY <1>1, <1>2, <1>4, <1>5 DEF J!Next

-----------------------------------------------------------------------------
Fields == {"at", "form", "job", "status", "error", "shown", "result"}
Shaped(r) == r = [field \in Fields |-> r[field]]

Posting ==
    /\ page = [p \in Page |-> page[p]]
    /\ \A p \in Page : Shaped(page[p]) /\ (page[p].at = "posting" => page[p].form \in Forms[p])

-----------------------------------------------------------------------------
(* A step of one page that does not begin a submission.                    *)
LEMMA OnePage ==
    ASSUME Posting, NEW p \in Page, NEW r, page' = [page EXCEPT ![p] = r],
           Shaped(r), r.at # "posting"
    PROVE  Posting'
BY DEF Posting

LEMMA PageMoves ==
    ASSUME Posting, NEW p \in Page, NEW to, to # "posting",
           page' = [page EXCEPT ![p].at = to]
    PROVE  Posting'
<1> DEFINE r == [page[p] EXCEPT !.at = to]
<1>1. page' = [page EXCEPT ![p] = r]
  OBVIOUS
<1>2. Shaped(r) /\ r.at = to
  BY DEF Posting, Shaped, Fields
<1> QED
  BY <1>1, <1>2, OnePage

LEMMA PageTurns ==
    ASSUME Posting, NEW p \in Page, NEW to, to # "posting", Turns(p, to)
    PROVE  Posting'
<1> DEFINE r == [page[p] EXCEPT !.at = to, !.status = "none", !.error = NoError]
<1>1. page' = [page EXCEPT ![p] = r]
  BY DEF Turns
<1>2. Shaped(r) /\ r.at = to
  BY DEF Posting, Shaped, Fields
<1> QED
  BY <1>1, <1>2, OnePage

LEMMA PageAlerts ==
    ASSUME Posting, NEW p \in Page, NEW message, Alerts(p, message)
    PROVE  Posting'
<1> DEFINE r == [Idle EXCEPT !.shown = message, !.form = page[p].form, !.job = page[p].job]
<1>1. page' = [page EXCEPT ![p] = r]
  BY DEF Alerts
<1>2. Shaped(r) /\ r.at = "idle"
  BY DEF Idle, Shaped, Fields
<1> QED
  BY <1>1, <1>2, OnePage

(* What the server answers moves a page on, and never to a submission.     *)
LEMMA ServeKeeps ==
    ASSUME Posting, NEW p \in Page, Serve(p)
    PROVE  Posting'
<1>1. CASE RunAsync(p)
  <2> DEFINE r == [page[p] EXCEPT !.at = "posted", !.job = J!Created + 1]
  <2>1. page' = [page EXCEPT ![p] = r]
    BY <1>1 DEF RunAsync
  <2>2. Shaped(r) /\ r.at = "posted"
    BY DEF Posting, Shaped, Fields
  <2> QED
    BY <2>1, <2>2, OnePage
<1>2. CASE Accepted(p) \/ Timer(p)
  <2>1. page' = [page EXCEPT ![p].at = "polling"]
    BY <1>2 DEF Accepted, Timer, Goes
  <2>2. "polling" # "posting"
    OBVIOUS
  <2> QED
    BY <2>1, <2>2, PageMoves
<1>3. CASE JobStatus(p)
  <2> DEFINE r(to, status) == [page[p] EXCEPT !.at = to, !.status = status]
  <2>1. \/ page' = [page EXCEPT ![p] = r("reading", jobs[page[p].job].status)]
        \/ page' = [page EXCEPT ![p] = r("answered", "not_found")]
    BY <1>3 DEF JobStatus
  <2>2. \A to, status : Shaped(r(to, status)) /\ r(to, status).at = to
    BY DEF Posting, Shaped, Fields
  <2> HIDE DEF r
  <2>3. "reading" # "posting" /\ "answered" # "posting"
    OBVIOUS
  <2> QED
    BY <2>1, <2>2, <2>3, OnePage
<1>4. CASE JobError(p)
  <2> DEFINE r == [page[p] EXCEPT !.at = "answered", !.error = jobs[page[p].job].error]
  <2>1. page' = [page EXCEPT ![p] = r]
    BY <1>4 DEF JobError
  <2>2. Shaped(r) /\ r.at = "answered"
    BY DEF Posting, Shaped, Fields
  <2> QED
    BY <2>1, <2>2, OnePage
<1>5. CASE PollAnswered(p)
  <2>1. \/ \E message : Alerts(p, message)
        \/ Turns(p, "navigating") \/ Turns(p, "waiting")
    BY <1>5 DEF PollAnswered
  <2>2. "navigating" # "posting" /\ "waiting" # "posting"
    OBVIOUS
  <2> QED
    BY <2>1, <2>2, PageAlerts, PageTurns
<1>6. CASE JobView(p)
  <2> DEFINE r == [page[p] EXCEPT !.at = "idle", !.shown = "result",
                                  !.result = jobs[page[p].job].result]
  <2>1. page' = [page EXCEPT ![p] = r] \/ Alerts(p, "no longer available")
    BY <1>6 DEF JobView
  <2>2. Shaped(r) /\ r.at = "idle"
    BY DEF Posting, Shaped, Fields
  <2> QED
    BY <2>1, <2>2, OnePage, PageAlerts
<1> QED
  BY <1>1, <1>2, <1>3, <1>4, <1>5, <1>6 DEF Serve

LEMMA RestartKeepsPosting == ASSUME Posting, Restart PROVE Posting'
<1> DEFINE r(p) == IF page[p].at = "reading"
                     THEN [page[p] EXCEPT !.at = Retries, !.status = "none"] ELSE page[p]
<1>1. page' = [p \in Page |-> r(p)]
  BY DEF Restart
<1>2. \A p \in Page : Shaped(r(p)) /\ (r(p).at = "posting" => page[p].at = "posting" /\ r(p) = page[p])
  BY DEF Posting, Shaped, Fields, Retries
<1> QED
  BY <1>1, <1>2 DEF Posting

LEMMA PostingKept == Posting /\ [Next]_vars => Posting'
<1> SUFFICES ASSUME Posting, [Next]_vars PROVE Posting'
  OBVIOUS
<1>1. ASSUME NEW p \in Page, NEW form \in Forms[p], Submit(p, form) PROVE Posting'
  <2> DEFINE r == [Idle EXCEPT !.at = "posting", !.form = form]
  <2>1. page' = [page EXCEPT ![p] = r]
    BY <1>1 DEF Submit
  <2>2. Shaped(r) /\ r.form = form
    BY DEF Idle, Shaped, Fields
  <2> HIDE DEF r
  <2> QED
    BY <1>1, <2>1, <2>2 DEF Posting
<1>2. ASSUME NEW p \in Page, PostFails(p) \/ Blip(p) PROVE Posting'
  BY <1>2, PageAlerts, PageTurns DEF PostFails, Blip, Retries
<1>3. ASSUME NEW p \in Page, Serve(p) PROVE Posting'
  BY <1>3, ServeKeeps
<1>4. CASE Work \/ UNCHANGED vars
  BY <1>4 DEF Work, vars, Posting
<1>5. CASE Restart
  BY <1>5, RestartKeepsPosting
<1> QED
  BY <1>1, <1>2, <1>3, <1>4, <1>5 DEF Next

-----------------------------------------------------------------------------
(* A form that parses is submitted as one of the arguments of JobManager.  *)
LEMMA RunAsyncCreates ==
    ASSUME NEW p \in Page, Posting, RunAsync(p)
    PROVE  /\ BuildArgs(page[p].form) \in Submitted
           /\ J!Create(BuildArgs(page[p].form))
<1>1. page[p].form \in (UNION {Forms[o] : o \in Page}) \ Malformed
  BY DEF RunAsync, Posting
<1>2. BuildArgs(page[p].form) \in Submitted
  BY <1>1 DEF Submitted
<1>3. J!Create(BuildArgs(page[p].form))
  BY DEF RunAsync
<1> QED
  BY <1>2, <1>3

LEMMA StepsAsJobManager == Posting /\ [Next]_vars => [J!Next]_(J!jobVars)
<1> SUFFICES ASSUME Posting, [Next]_vars PROVE [J!Next]_(J!jobVars)
  OBVIOUS
<1>1. ASSUME NEW p \in Page, Serve(p) PROVE J!Next \/ UNCHANGED manager
  BY <1>1, RunAsyncCreates
  DEF J!Next, Serve, Accepted, JobStatus, JobError, PollAnswered, Timer, JobView
<1>2. CASE Work
  BY <1>2 DEF Work, J!Next
<1>3. CASE Restart
  BY <1>3 DEF Restart, J!Next
<1>4. ASSUME NEW p \in Page, (\E form \in Forms[p] : Submit(p, form)) \/ PostFails(p) \/ Blip(p)
      PROVE  UNCHANGED manager
  BY <1>4 DEF Submit, PostFails, Blip
<1>5. CASE UNCHANGED vars
  BY <1>5 DEF vars, manager, J!jobVars
<1> QED
  BY <1>1, <1>2, <1>3, <1>4, <1>5 DEF Next, manager, J!jobVars

(* The dashboard implements JobManager: pages, polls, lost requests and    *)
(* restarts do to the job store and its threads only what it allows.       *)
THEOREM ImplementsJobManager == Spec => J!Spec
<1>1. Init => Posting /\ J!Init
  BY DEF Init, Posting, Shaped, Fields, Idle
<1> QED
  BY <1>1, PostingKept, StepsAsJobManager, PTL DEF Spec, J!Spec

(* PublishedWhole: a reader that finds a job completed finds all of its    *)
(* answer, whatever the interleaving of _target's unlocked assignments     *)
(* (jobs.py, app.py) with creations, evictions, restarts and the pages.    *)
THEOREM CompletedIsWhole == Spec => []PublishedWhole
<1>1. JobsInv => PublishedWhole
  BY DEF JobsInv, Assigned, PublishedWhole, J!PublishedWhole
<1> QED
  BY <1>1, ImplementsJobManager, JobsInvIsInvariant, PTL

(* StoreKeepsNewest: create()'s eviction keeps exactly the newest max_jobs *)
(* jobs since the last restart, dictionary and insertion order agreeing.   *)
THEOREM NewestAreKept ==
    ASSUME MaxJobs \in Nat
    PROVE  Spec => []J!StoreKeepsNewest
<1>1. StoreInv => J!StoreKeepsNewest
  BY DEF StoreInv
<1> QED
  BY <1>1, ImplementsJobManager, StoreInvIsInvariant, PTL

-----------------------------------------------------------------------------
(* What a page knows of its job.  r is the state of a page, js are the     *)
(* jobs and l is what a restart has lost of them.                          *)
Waits == {"posted", "polling", "reading", "answered", "waiting", "navigating"}

Hopes(r) == Outcomes[BuildArgs(r.form)]

Gone(r, js, l) == r.job <= l \/ Len(js) - r.job >= MaxJobs

(* An answer is read in two steps and acted upon in a third, with threads, *)
(* evictions and restarts in between: what was read must stay true.        *)
Informed(r, js, l) ==
    /\ r.at \in Waits \cup {"idle", "posting"}
    /\ r.at \in Waits => r.job \in 1 .. Len(js) /\ js[r.job].args = BuildArgs(r.form)
    /\ r.at \in {"reading", "answered"} =>
         /\ r.status = "failed" => Hopes(r).error # NoError
         /\ r.status = "completed" => js[r.job].status = "completed"
    /\ r.at = "reading" => r.status # "not_found"
    /\ r.at = "answered" =>
         /\ r.status = "failed" => r.error \in {NoError, Hopes(r).error}
         /\ r.status = "not_found" => Gone(r, js, l)
    /\ r.at = "navigating" => js[r.job].status = "completed"

Honest(r, js, l) ==
    r.at = "idle" =>
        \/ r.shown \in {"form", "could not start"}
        \/ r.shown = "result" /\ r.result = Hopes(r).result /\ Hopes(r).error = NoError
        \/ /\ r.shown \in {"not found", "no longer available"}
           /\ r.job \in 1 .. Len(js) /\ Gone(r, js, l)
        \/ /\ r.shown \in {Hopes(r).error, "Simulation failed."} \ {NoError}
           /\ Hopes(r).error # NoError
           /\ r.shown \notin {"result", "not found", "no longer available"}

Told(r, js, l) == Informed(r, js, l) /\ Honest(r, js, l)

PagesTold == \A p \in Page : Told(page[p], jobs, lost)

(* What a page needs of the job store,                                     *)
Answerable ==
    /\ Len(jobs) \in Nat /\ lost \in 0 .. Len(jobs)
    /\ \A i \in 1 .. Len(jobs) :
         /\ jobs[i].status # "not_found" /\ jobs[i].args \in Submitted
         /\ jobs[i].status = "completed" =>
              jobs[i].result = Outcomes[jobs[i].args].result
              /\ Outcomes[jobs[i].args].error = NoError
         /\ jobs[i].status = "failed" => Outcomes[jobs[i].args].error # NoError
         /\ jobs[i].error \in {NoError, Outcomes[jobs[i].args].error}
         /\ i \notin store => i <= lost \/ Len(jobs) - i >= MaxJobs

(* and of a step of it.                                                    *)
GoesOn(js, l, newJs, newL) ==
    /\ Len(js) \in Nat /\ Len(newJs) \in Nat /\ Len(js) <= Len(newJs)
    /\ l \in Int /\ newL \in Int /\ l <= newL
    /\ \A i \in 1 .. Len(js) :
         /\ newJs[i].args = js[i].args
         /\ js[i].status = "completed" => newJs[i].status = "completed"

LEMMA IsAnswerable ==
    ASSUME MaxJobs \in Nat, JobsInv, StoreInv
    PROVE  Answerable
<1>1. Len(jobs) \in Nat /\ lost \in 0 .. Len(jobs)
  BY DEF StoreInv, J!Created
<1>2. ASSUME NEW i \in 1 .. Len(jobs)
      PROVE  /\ jobs[i].status # "not_found" /\ jobs[i].args \in Submitted
             /\ jobs[i].status = "completed" =>
                  jobs[i].result = Outcomes[jobs[i].args].result
                  /\ Outcomes[jobs[i].args].error = NoError
             /\ jobs[i].status = "failed" => Outcomes[jobs[i].args].error # NoError
             /\ jobs[i].error \in {NoError, Outcomes[jobs[i].args].error}
  <2>1. Assigned(i) /\ jobs[i] \in JobRecord
    BY <1>2 DEF JobsInv, JobsTyped, J!Created
  <2>2. jobs[i].args \in Submitted /\ jobs[i].status \in Statuses
    BY <2>1 DEF JobRecord
  <2> QED
    BY <2>1, <2>2 DEF Assigned, J!Answer, Statuses
<1>3. ASSUME NEW i \in 1 .. Len(jobs), i \notin store
      PROVE  i <= lost \/ Len(jobs) - i >= MaxJobs
  BY <1>1, <1>3 DEF StoreInv, J!StoreKeepsNewest, J!Created
<1> QED
  BY <1>1, <1>2, <1>3 DEF Answerable

LEMMA JobsGoOn ==
    ASSUME JobsInv, StoreInv, StoreInv', [J!Next]_(J!jobVars)
    PROVE  GoesOn(jobs, lost, jobs', lost')
<1>1. /\ Len(jobs) \in Nat /\ lost \in 0 .. Len(jobs)
      /\ Len(jobs') \in Nat /\ lost' \in 0 .. Len(jobs')
  BY DEF StoreInv, J!Created
<1>2. lost' \in {lost, Len(jobs)}
  BY DEF J!Next, J!Create, J!Work, J!Start, J!CountCombos, J!KeepTraces,
         J!Publish, J!Complete, J!Fail, J!KeepError, J!Assign, J!Restart,
         J!Created, J!jobVars
<1>3. \A i \in 1 .. J!Created :
         /\ jobs'[i].args = jobs[i].args
         /\ jobs[i].status = "completed" => jobs'[i].status = "completed"
  BY DoneIsDone
<1>4. Len(jobs) <= Len(jobs')
  <2>1. CASE Len(jobs) = 0
    BY <2>1, <1>1
  <2>2. CASE 1 \in 1 .. J!Created
    <3>1. J!Created <= J!Created'
      BY <2>2, DoneIsDone
    <3> QED
      BY <3>1 DEF J!Created
  <2> QED
    BY <2>1, <2>2, <1>1 DEF J!Created
<1> QED
  BY <1>1, <1>2, <1>3, <1>4 DEF GoesOn, J!Created

(* A page that does nothing is still rightly informed,                     *)
LEMMA StillTold ==
    ASSUME MaxJobs \in Nat, NEW js, NEW l, NEW newJs, NEW newL, GoesOn(js, l, newJs, newL),
           NEW r, Told(r, js, l)
    PROVE  Told(r, newJs, newL)
<1>1. /\ Len(js) \in Nat /\ Len(newJs) \in Nat /\ Len(js) <= Len(newJs)
      /\ l \in Int /\ newL \in Int /\ l <= newL
      /\ r.job \in 1 .. Len(js) =>
           /\ newJs[r.job].args = js[r.job].args
           /\ js[r.job].status = "completed" => newJs[r.job].status = "completed"
  BY DEF GoesOn
<1>2. r.job \in 1 .. Len(js) =>
         r.job \in 1 .. Len(newJs) /\ (Gone(r, js, l) => Gone(r, newJs, newL))
  BY <1>1 DEF Gone
<1> QED
  BY <1>1, <1>2 DEF Told, Informed, Honest, Waits

(* and so are all if the one that does something is.                       *)
LEMMA OneTold ==
    ASSUME MaxJobs \in Nat, Posting, PagesTold, GoesOn(jobs, lost, jobs', lost'), NEW p \in Page, NEW r,
           page' = [page EXCEPT ![p] = r], Told(r, jobs', lost')
    PROVE  PagesTold'
<1>1. ASSUME NEW o \in Page, o # p PROVE Told(page'[o], jobs', lost')
  <2>1. page'[o] = page[o] /\ Told(page[o], jobs, lost)
    BY <1>1 DEF Posting, PagesTold
  <2> QED
    BY <2>1, StillTold
<1>2. page'[p] = r
  BY DEF Posting
<1> QED
  BY <1>1, <1>2 DEF PagesTold

(* A failed sweep says why in words of its own.                            *)
LEMMA ErrorsAreWords ==
    ASSUME NEW args \in Submitted
    PROVE  Outcomes[args].error \in
               {"too many configurations", "need at least one consumer", NoError}
<1>1. Outcomes[args] = Execute(args)
  BY DEF Outcomes
<1>2. ASSUME NEW empty \in BOOLEAN, NEW result, NEW traces
      PROVE  (IF EstimateCombos(args) > MaxCombos
                THEN [result |-> None, error |-> "too many configurations",
                      combos |-> EstimateCombos(args), traces |-> {}]
              ELSE IF empty THEN [result |-> None, error |-> "need at least one consumer",
                      combos |-> EstimateCombos(args), traces |-> {}]
              ELSE [result |-> result, error |-> NoError,
                    combos |-> EstimateCombos(args), traces |-> traces]).error \in
               {"too many configurations", "need at least one consumer", NoError}
  OBVIOUS
<1> QED
  BY <1>1, <1>2, Zenon DEF Execute

(* An alert is honest if its words are true of the page.                   *)
LEMMA AlertTells ==
    ASSUME MaxJobs \in Nat, Posting, PagesTold, GoesOn(jobs, lost, jobs', lost'),
           UNCHANGED <<jobs, lost>>, NEW p \in Page, NEW message, Alerts(p, message),
           \/ message = "could not start"
           \/ /\ message \in {"not found", "no longer available"}
              /\ page[p].job \in 1 .. Len(jobs) /\ Gone(page[p], jobs, lost)
           \/ /\ message \in {Hopes(page[p]).error, "Simulation failed."} \ {NoError}
              /\ Hopes(page[p]).error # NoError
              /\ Hopes(page[p]).error \notin {"result", "not found", "no longer available"}
    PROVE  PagesTold'
<1> DEFINE r == [Idle EXCEPT !.shown = message, !.form = page[p].form, !.job = page[p].job]
<1>1. /\ page' = [page EXCEPT ![p] = r]
      /\ r.at = "idle" /\ r.shown = message /\ r.form = page[p].form /\ r.job = page[p].job
  BY DEF Alerts, Idle
<1> HIDE DEF r
<1>2. Told(r, jobs, lost)
  BY <1>1 DEF Told, Informed, Honest, Waits, Hopes, Gone
<1> QED
  BY <1>1, <1>2, OneTold

(* Done with an answer, a page waits, or goes to see a job that is done.   *)
LEMMA TurnTells ==
    ASSUME MaxJobs \in Nat, Posting, PagesTold, GoesOn(jobs, lost, jobs', lost'),
           UNCHANGED <<jobs, lost>>, NEW p \in Page, page[p].at \in Waits,
           NEW to \in {"waiting", "navigating"}, Turns(p, to),
           to = "navigating" => jobs[page[p].job].status = "completed"
    PROVE  PagesTold'
<1> DEFINE r == [page[p] EXCEPT !.at = to, !.status = "none", !.error = NoError]
<1>1. /\ page' = [page EXCEPT ![p] = r]
      /\ r.at = to /\ r.form = page[p].form /\ r.job = page[p].job
  BY DEF Turns, Posting, Shaped, Fields
<1> HIDE DEF r
<1>2. Told(page[p], jobs, lost)
  BY DEF PagesTold
<1>3. Told(r, jobs, lost)
  BY <1>1, <1>2 DEF Told, Informed, Honest, Waits
<1> QED
  BY <1>1, <1>3, OneTold

(* The poll and the form, one step each.                                   *)
LEMMA RunAsyncTells ==
    ASSUME MaxJobs \in Nat, Posting, PagesTold, JobsInv, GoesOn(jobs, lost, jobs', lost'),
           NEW p \in Page, RunAsync(p)
    PROVE  PagesTold'
<1> DEFINE args == BuildArgs(page[p].form)
           r == [page[p] EXCEPT !.at = "posted", !.job = J!Created + 1]
<1>1. page' = [page EXCEPT ![p] = r]
  BY DEF RunAsync
<1>2. args \in Submitted /\ J!Create(args)
  BY RunAsyncCreates
<1>3. Len(jobs') = Len(jobs) + 1 /\ Len(jobs) \in Nat /\ jobs'[Len(jobs) + 1].args = args
  <2>1. J!Created' = J!Created + 1 /\ J!Created \in Nat
        /\ jobs'[J!Created + 1] = J!Job(args)
    BY <1>2, CreateAppends DEF JobsInv
  <2> QED
    BY <2>1 DEF J!Created, J!Job
<1>4. r.at = "posted" /\ r.job = Len(jobs) + 1 /\ r.form = page[p].form
  BY DEF Posting, Shaped, Fields, J!Created
<1> HIDE DEF r
<1>5. Told(r, jobs', lost')
  BY <1>3, <1>4 DEF Told, Informed, Honest, Waits, Hopes
<1> QED
  BY <1>1, <1>5, OneTold

LEMMA PollTells ==
    ASSUME MaxJobs \in Nat, Posting, PagesTold, Answerable, GoesOn(jobs, lost, jobs', lost'),
           NEW p \in Page, UNCHANGED <<jobs, lost>>,
           JobStatus(p) \/ JobError(p) \/ PollAnswered(p) \/ JobView(p)
    PROVE  PagesTold'
<1> DEFINE job == jobs[page[p].job]
<1>1. Told(page[p], jobs, lost)
  BY DEF PagesTold
<1>2. page[p].at \in Waits =>
         /\ page[p].job \in 1 .. Len(jobs) /\ job.args = BuildArgs(page[p].form)
         /\ job.status # "not_found" /\ job.args \in Submitted
         /\ job.status = "completed" =>
              job.result = Hopes(page[p]).result /\ Hopes(page[p]).error = NoError
         /\ job.status = "failed" => Hopes(page[p]).error # NoError
         /\ job.error \in {NoError, Hopes(page[p]).error}
         /\ ~ Known(p) => Gone(page[p], jobs, lost)
  BY <1>1 DEF Told, Informed, Answerable, Hopes, Known, Gone
<1>3. CASE JobStatus(p)
  <2>1. page[p].at = "polling" /\ page[p].at \in Waits
    BY <1>3 DEF JobStatus, Waits
  <2>2. CASE Known(p)
    <3> DEFINE r == [page[p] EXCEPT !.at = "reading", !.status = job.status]
    <3>1. /\ r.at = "reading" /\ r.status = job.status /\ r.job = page[p].job
          /\ r.form = page[p].form /\ page' = [page EXCEPT ![p] = r]
      BY <1>3, <2>2 DEF Posting, Shaped, Fields, JobStatus
    <3> HIDE DEF r
    <3>2. Told(r, jobs, lost)
      BY <1>2, <2>1, <3>1 DEF Told, Informed, Honest, Waits, Hopes
    <3> QED
      BY <3>1, <3>2, OneTold
  <2>3. CASE ~ Known(p)
    <3> DEFINE r == [page[p] EXCEPT !.at = "answered", !.status = "not_found"]
    <3>1. /\ r.at = "answered" /\ r.status = "not_found" /\ r.job = page[p].job
          /\ r.form = page[p].form /\ page' = [page EXCEPT ![p] = r]
      BY <1>3, <2>3 DEF Posting, Shaped, Fields, JobStatus
    <3> HIDE DEF r
    <3>2. Told(r, jobs, lost)
      BY <1>2, <2>1, <2>3, <3>1 DEF Told, Informed, Honest, Waits, Hopes, Gone
    <3> QED
      BY <3>1, <3>2, OneTold
  <2> QED
    BY <2>2, <2>3
<1>4. CASE JobError(p)
  <2> DEFINE r == [page[p] EXCEPT !.at = "answered", !.error = job.error]
  <2>1. /\ r.at = "answered" /\ r.error = job.error /\ r.status = page[p].status
        /\ r.job = page[p].job /\ r.form = page[p].form
        /\ page[p].at = "reading" /\ page' = [page EXCEPT ![p] = r]
    BY <1>4 DEF Posting, Shaped, Fields, JobError
  <2> HIDE DEF r, job
  <2> QED
    BY <1>1, <1>2, <2>1, OneTold DEF Told, Informed, Honest, Waits, Hopes, Gone
<1>5. CASE PollAnswered(p)
  <2>1. page[p].at = "answered" /\ page[p].at \in Waits
    BY <1>5 DEF PollAnswered, Waits
  <2>2. CASE page[p].status = "not_found"
    <3>1. Alerts(p, "not found")
      BY <1>5, <2>2 DEF PollAnswered
    <3> QED
      BY <1>1, <1>2, <2>1, <2>2, <3>1, AlertTells DEF Told, Informed, Gone
  <2>3. CASE page[p].status = "failed"
    <3>1. Alerts(p, IF page[p].error = NoError THEN "Simulation failed." ELSE page[p].error)
      BY <1>5, <2>3 DEF PollAnswered
    <3>2. Hopes(page[p]).error # NoError /\ page[p].error \in {NoError, Hopes(page[p]).error}
      BY <1>1, <2>1, <2>3 DEF Told, Informed
    <3>3. Hopes(page[p]).error \in
             {"too many configurations", "need at least one consumer", NoError}
      BY <1>2, <2>1, ErrorsAreWords DEF Hopes
    <3> DEFINE message == IF page[p].error = NoError THEN "Simulation failed." ELSE page[p].error
    <3>4. Alerts(p, message) /\ message \in {Hopes(page[p]).error, "Simulation failed."} \ {NoError}
          /\ Hopes(page[p]).error \notin {"result", "not found", "no longer available"}
      BY <3>1, <3>2, <3>3 DEF NoError
    <3> HIDE DEF message
    <3> QED
      BY <3>2, <3>4, AlertTells
  <2>4. CASE page[p].status \notin {"not_found", "failed"}
    <3>1. PICK to \in {"waiting", "navigating"} :
             Turns(p, to) /\ (to = "navigating" => page[p].status = "completed")
      BY <1>5, <2>4 DEF PollAnswered
    <3>2. to = "navigating" => job.status = "completed"
      BY <1>1, <2>1, <3>1 DEF Told, Informed
    <3> QED
      BY <2>1, <3>1, <3>2, TurnTells
  <2> QED
    BY <2>2, <2>3, <2>4
<1>6. CASE JobView(p)
  <2>1. page[p].at = "navigating" /\ page[p].at \in Waits /\ job.status = "completed"
    BY <1>1, <1>6 DEF JobView, Waits, Told, Informed
  <2>2. CASE Known(p)
    <3> DEFINE r == [page[p] EXCEPT !.at = "idle", !.shown = "result", !.result = job.result]
    <3>1. /\ r.at = "idle" /\ r.shown = "result" /\ r.result = job.result
          /\ r.form = page[p].form /\ page' = [page EXCEPT ![p] = r]
      BY <1>6, <2>1, <2>2 DEF Posting, Shaped, Fields, JobView
    <3> HIDE DEF r, job
    <3>2. Told(r, jobs, lost)
      BY <1>2, <2>1, <3>1 DEF Told, Informed, Honest, Waits, Hopes
    <3> QED
      BY <3>1, <3>2, OneTold
  <2>3. CASE ~ Known(p)
    <3>1. Alerts(p, "no longer available")
      BY <1>6, <2>3 DEF JobView
    <3>2. page[p].job \in 1 .. Len(jobs) /\ Gone(page[p], jobs, lost)
      BY <1>2, <2>1, <2>3
    <3> QED
      BY <3>1, <3>2, AlertTells
  <2> QED
    BY <2>2, <2>3
<1> QED
  BY <1>3, <1>4, <1>5, <1>6

LEMMA MovesTell ==
    ASSUME MaxJobs \in Nat, Posting, PagesTold, GoesOn(jobs, lost, jobs', lost'),
           NEW p \in Page, UNCHANGED <<jobs, lost>>,
           Accepted(p) \/ Timer(p) \/ Blip(p) \/ PostFails(p)
             \/ \E form \in Forms[p] : Submit(p, form)
    PROVE  PagesTold'
<1>1. Told(page[p], jobs, lost)
  BY DEF PagesTold
<1>2. CASE Accepted(p) \/ Timer(p)
  <2> DEFINE r == [page[p] EXCEPT !.at = "polling"]
  <2>1. /\ page' = [page EXCEPT ![p] = r] /\ page[p].at \in Waits
        /\ r.at = "polling" /\ r.form = page[p].form /\ r.job = page[p].job
    BY <1>2 DEF Accepted, Timer, Goes, Posting, Shaped, Fields, Waits
  <2> HIDE DEF r
  <2>2. Told(r, jobs, lost)
    BY <1>1, <2>1 DEF Told, Informed, Honest, Waits
  <2> QED
    BY <2>1, <2>2, OneTold
<1>3. CASE Blip(p)
  BY <1>3, TurnTells DEF Blip, Retries, Waits
<1>4. CASE PostFails(p)
  BY <1>4, AlertTells DEF PostFails
<1>5. CASE \E form \in Forms[p] : Submit(p, form)
  <2>1. PICK form \in Forms[p] : Submit(p, form)
    BY <1>5
  <2> DEFINE r == [Idle EXCEPT !.at = "posting", !.form = form]
  <2>2. page' = [page EXCEPT ![p] = r] /\ r.at = "posting"
    BY <2>1 DEF Submit, Idle
  <2> HIDE DEF r
  <2>3. Told(r, jobs, lost)
    BY <2>2 DEF Told, Informed, Honest, Waits
  <2> QED
    BY <2>2, <2>3, OneTold
<1> QED
  BY <1>2, <1>3, <1>4, <1>5

LEMMA RestartTells ==
    ASSUME MaxJobs \in Nat, Posting, PagesTold, GoesOn(jobs, lost, jobs', lost'), Restart
    PROVE  PagesTold'
<1> SUFFICES ASSUME NEW p \in Page PROVE Told(page'[p], jobs', lost')
  BY DEF PagesTold
<1>1. Told(page[p], jobs, lost)
  BY DEF PagesTold
<1>2. CASE page[p].at = "reading"
  <2> DEFINE r == [page[p] EXCEPT !.at = Retries, !.status = "none"]
  <2>1. /\ page'[p] = r /\ page[p].at \in Waits
        /\ r.at = "waiting" /\ r.form = page[p].form /\ r.job = page[p].job
    BY <1>2 DEF Restart, Retries, Posting, Shaped, Fields, Waits
  <2> HIDE DEF r
  <2>2. Told(r, jobs, lost)
    BY <1>1, <2>1 DEF Told, Informed, Honest, Waits
  <2> QED
    BY <2>1, <2>2, StillTold
<1>3. CASE page[p].at # "reading"
  <2>1. page'[p] = page[p]
    BY <1>3 DEF Restart
  <2> QED
    BY <1>1, <2>1, StillTold
<1> QED
  BY <1>2, <1>3

LEMMA PagesKeptTold ==
    ASSUME MaxJobs \in Nat, Posting, PagesTold, JobsInv, Answerable,
           GoesOn(jobs, lost, jobs', lost'), [Next]_vars
    PROVE  PagesTold'
<1>1. ASSUME NEW p \in Page, Serve(p) PROVE PagesTold'
  <2>1. CASE RunAsync(p)
    BY <2>1, RunAsyncTells
  <2>2. CASE JobStatus(p) \/ JobError(p) \/ PollAnswered(p) \/ JobView(p)
    <3>1. UNCHANGED <<jobs, lost>>
      BY <2>2 DEF JobStatus, JobError, PollAnswered, JobView, manager
    <3> QED
      BY <2>2, <3>1, PollTells
  <2>3. CASE Accepted(p) \/ Timer(p)
    <3>1. UNCHANGED <<jobs, lost>>
      BY <2>3 DEF Accepted, Timer, manager
    <3> QED
      BY <2>3, <3>1, MovesTell
  <2> QED
    BY <1>1, <2>1, <2>2, <2>3 DEF Serve
<1>2. ASSUME NEW p \in Page, Blip(p) \/ PostFails(p) \/ \E form \in Forms[p] : Submit(p, form)
      PROVE  PagesTold'
  <2>1. UNCHANGED <<jobs, lost>>
    BY <1>2 DEF Blip, PostFails, Submit, manager
  <2> QED
    BY <1>2, <2>1, MovesTell
<1>3. CASE Work \/ UNCHANGED vars
  <2>1. page' = page
    BY <1>3 DEF Work, vars
  <2> QED
    BY <2>1, StillTold DEF PagesTold
<1>4. CASE Restart
  BY <1>4, RestartTells
<1> QED
  BY <1>1, <1>2, <1>3, <1>4 DEF Next

(* HonestOutcome: a page's last word is true of its own submission,        *)
(* although /jobs/<id>/status reads the Job field by field, app.js acts on *)
(* what it read a while ago, and jobs are finished, evicted and lost in    *)
(* between.                                                                *)
THEOREM OutcomesAreHonest ==
    ASSUME MaxJobs \in Nat
    PROVE  Spec => []HonestOutcome
<1>1. Init => Posting /\ PagesTold
  <2> SUFFICES ASSUME Init PROVE Posting /\ PagesTold
    OBVIOUS
  <2>1. Posting
    BY DEF Init, Posting, Shaped, Fields, Idle
  <2>2. \A p \in Page : page[p].at = "idle" /\ page[p].shown = "form"
    BY DEF Init, Idle
  <2> QED
    BY <2>1, <2>2 DEF PagesTold, Told, Informed, Honest, Waits
<1>2. /\ Posting /\ PagesTold /\ JobsInv /\ StoreInv /\ StoreInv'
      /\ [J!Next]_(J!jobVars) /\ [Next]_vars
      => PagesTold'
  BY IsAnswerable, JobsGoOn, PagesKeptTold
<1>3. Spec => []JobsInv /\ []StoreInv /\ [][J!Next]_(J!jobVars)
  BY ImplementsJobManager, JobsInvIsInvariant, StoreInvIsInvariant, PTL DEF J!Spec
<1>4. PagesTold => HonestOutcome
  <2> SUFFICES ASSUME PagesTold, NEW p \in Page, page[p].at = "idle"
               PROVE  CASE page[p].shown \in {"form", "could not start"} -> TRUE
                        [] page[p].shown = "result" ->
                             page[p].result = Wanted(p).result /\ Wanted(p).error = NoError
                        [] page[p].shown \in {"not found", "no longer available"} ->
                             page[p].job <= lost \/ J!Created - page[p].job >= MaxJobs
                        [] OTHER -> /\ Wanted(p).error # NoError
                                    /\ page[p].shown \in {Wanted(p).error, "Simulation failed."}
    BY DEF HonestOutcome
  <2>1. Honest(page[p], jobs, lost) /\ Wanted(p) = Hopes(page[p]) /\ J!Created = Len(jobs)
    BY DEF PagesTold, Told, Wanted, Hopes, J!Created
  <2> QED
    BY <2>1 DEF Honest, Gone
<1> QED
  BY <1>1, <1>2, <1>3, <1>4, PostingKept, PTL DEF Spec

-----------------------------------------------------------------------------
(* What a sweep of one submission covers.                                  *)
Requests ==
    [nodes : Int, consumer_count : Int, forwarding : STRING, forwardings : Seq(STRING),
     architectures : SUBSET ArchitectureChoices, others : Nat \ {0}]

Asked(args) == IF args.architectures = {} THEN {"ip", "ndn"} ELSE args.architectures

LEMMA SubmittedIsTyped ==
    ASSUME NEW args \in Submitted
    PROVE  /\ args.forwardings \in Seq(STRING) /\ args.architectures \in SUBSET ArchitectureChoices
           /\ args.others \in Nat
<1>1. PICK form \in (UNION {Forms[p] : p \in Page}) \ Malformed : args = BuildArgs(form)
  BY DEF Submitted
<1>2. form \in Requests
  BY <1>1, FormsAssumption DEF Requests
<1>3. /\ args.forwardings = form.forwardings /\ args.architectures = form.architectures
      /\ args.others = form.others
  BY <1>1, <1>2 DEF BuildArgs, Requests
<1> QED
  BY <1>2, <1>3 DEF Requests

(* The strategies that are run, when none are listed.                      *)
LEMMA ForwardingsNeeded ==
    ASSUME NEW args, args.architectures \in SUBSET ArchitectureChoices, args.forwardings = <<>>
    PROVE  /\ Forwardings(args) =
                IF args.architectures = {} THEN <<args.forwarding>>
                ELSE IF NeedsBase(args) /\ args.forwarding # SdnCentralized
                  THEN IF NeedsSdn(args) THEN <<args.forwarding, SdnCentralized>>
                       ELSE <<args.forwarding>>
                ELSE <<SdnCentralized>>
           /\ args.architectures # {} => NeedsBase(args) \/ NeedsSdn(args)
<1>1. args.architectures # {} => NeedsBase(args) \/ NeedsSdn(args)
  BY DEF NeedsBase, NeedsSdn, ArchitectureChoices
<1> DEFINE if_needed(f) == IF f \in NeededForwardings(args) THEN <<f>> ELSE <<>>
<1>2. args.architectures # {} =>
        Forwardings(args) =
          (IF args.forwarding = SdnCentralized THEN <<>> ELSE if_needed(args.forwarding))
            \o if_needed(SdnCentralized)
  BY DEF Forwardings
<1>3. args.architectures = {} => Forwardings(args) = <<args.forwarding>>
  BY DEF Forwardings
<1>4. ASSUME NEW f, NEW g
      PROVE  /\ <<f>> \o <<g>> = <<f, g>> /\ <<f>> \o <<>> = <<f>>
             /\ <<>> \o <<g>> = <<g>> /\ <<>> \o <<>> = <<>>
  <2>1. <<f>> \in Seq({f, g}) /\ <<g>> \in Seq({f, g})
    OBVIOUS
  <2>2. <<>> \in Seq({f, g})
    OBVIOUS
  <2>3. <<f>> \o <<g>> = <<f, g>>
    <3>1. /\ <<f>> \o <<g>> \in Seq({f, g}) /\ Len(<<f>> \o <<g>>) = 2
          /\ (<<f>> \o <<g>>)[1] = f /\ (<<f>> \o <<g>>)[2] = g
      BY <2>1, ConcatProperties
    <3>2. <<f, g>> \in Seq({f, g}) /\ Len(<<f, g>>) = 2 /\ <<f, g>>[1] = f /\ <<f, g>>[2] = g
      OBVIOUS
    <3>3. \A i \in 1 .. 2 : i = 1 \/ i = 2
      OBVIOUS
    <3> QED
      BY <3>1, <3>2, <3>3, SeqEqual
  <2> QED
    BY <2>1, <2>2, <2>3, ConcatEmptySeq
<1>5. /\ if_needed(SdnCentralized) =
           IF NeedsSdn(args) \/ (NeedsBase(args) /\ args.forwarding = SdnCentralized)
             THEN <<SdnCentralized>> ELSE <<>>
      /\ args.forwarding # SdnCentralized =>
           if_needed(args.forwarding) = IF NeedsBase(args) THEN <<args.forwarding>> ELSE <<>>
  <2>1. /\ SdnCentralized \in NeededForwardings(args) <=>
             NeedsSdn(args) \/ (NeedsBase(args) /\ args.forwarding = SdnCentralized)
        /\ args.forwarding # SdnCentralized =>
             (args.forwarding \in NeededForwardings(args) <=> NeedsBase(args))
    BY DEF NeededForwardings
  <2> QED
    BY <2>1
<1> HIDE DEF if_needed
<1> QED
  BY <1>1, <1>2, <1>3, <1>4, <1>5

LEMMA AsManyAsEstimated ==
    ASSUME NEW args, args.forwardings \in Seq(STRING), args.others \in Nat,
           args.architectures \in SUBSET ArchitectureChoices
    PROVE  /\ Cardinality(Executed(args)) * args.others <= EstimateCombos(args)
           /\ EstimateCombos(args) \in Nat
<1> DEFINE n == Len(Forwardings(args))
           factor == IF args.forwardings # <<>> THEN Len(args.forwardings)
                     ELSE IF args.architectures = {} THEN 1
                     ELSE One(NeedsBase(args)) + One(NeedsSdn(args))
<1>1. n \in Nat /\ factor \in Nat /\ n <= factor /\ DOMAIN Forwardings(args) = 1 .. n
  <2>1. CASE args.forwardings # <<>>
    BY <2>1 DEF Forwardings
  <2>2. CASE args.forwardings = <<>>
    <3>1. One(NeedsBase(args)) \in {0, 1} /\ (NeedsBase(args) => One(NeedsBase(args)) = 1)
          /\ One(NeedsSdn(args)) \in {0, 1} /\ (NeedsSdn(args) => One(NeedsSdn(args)) = 1)
      BY DEF One
    <3>2. args.architectures # {} => factor = One(NeedsBase(args)) + One(NeedsSdn(args))
      BY <2>2
    <3>3. CASE args.architectures = {}
      <4>1. Forwardings(args) = <<args.forwarding>> /\ factor = 1
        BY <2>2, <3>3, ForwardingsNeeded
      <4> QED
        BY <4>1
    <3>4. CASE args.architectures # {} /\ NeedsBase(args) /\ args.forwarding # SdnCentralized
               /\ NeedsSdn(args)
      <4>1. Forwardings(args) = <<args.forwarding, SdnCentralized>>
        BY <2>2, <3>4, ForwardingsNeeded
      <4>2. One(NeedsBase(args)) = 1 /\ One(NeedsSdn(args)) = 1
        BY <3>1, <3>4, Zenon
      <4> HIDE DEF factor
      <4>3. factor = 2
        <5>1. factor = One(NeedsBase(args)) + One(NeedsSdn(args))
          BY <3>4, <3>2, Zenon
        <5> QED
          BY <4>2, <5>1
      <4>4. Forwardings(args) \in Seq({args.forwarding, SdnCentralized})
            /\ Len(Forwardings(args)) = 2
        BY <4>1
      <4>5. n = 2 /\ DOMAIN Forwardings(args) = 1 .. n
        BY <4>4
      <4> HIDE DEF n
      <4> QED
        BY <4>3, <4>5
    <3>5. CASE args.architectures # {} /\ ~ (NeedsBase(args) /\ args.forwarding # SdnCentralized
                                             /\ NeedsSdn(args))
      <4>1. PICK f : Forwardings(args) = <<f>>
        BY <2>2, <3>5, ForwardingsNeeded, Zenon
      <4>2. NeedsBase(args) \/ NeedsSdn(args)
        BY <2>2, <3>5, ForwardingsNeeded
      <4>3. factor \in {1, 2}
        BY <2>2, <3>1, <3>5, <4>2
      <4> QED
        BY <4>1, <4>3
    <3> QED
      BY <3>3, <3>4, <3>5
  <2> QED
    BY <2>1, <2>2
<1>2. EstimateCombos(args) = args.others * factor
  BY DEF EstimateCombos
<1> HIDE DEF n, factor
<1>3. IsFiniteSet(Executed(args)) /\ Cardinality(Executed(args)) \in Nat
      /\ Cardinality(Executed(args)) <= n
  <2>1. Executed(args) \subseteq 1 .. n
    BY <1>1 DEF Executed
  <2>2. IsFiniteSet(1 .. n) /\ Cardinality(1 .. n) = n
    BY <1>1, FS_Interval
  <2> QED
    BY <2>1, <2>2, FS_Subset, FS_CardinalityType
<1>4. ASSUME NEW a \in Nat, NEW b \in Nat, NEW c \in Nat, a <= b
      PROVE  a * c <= c * b /\ c * b \in Nat
  BY <1>4
<1> QED
  BY <1>1, <1>2, <1>3, <1>4

LEMMA RowsAndTraces ==
    ASSUME NEW args, args.architectures \in SUBSET ArchitectureChoices,
           args.forwardings = <<>>, args.forwarding # SdnCentralized
    PROVE  Rows(args) = Asked(args) /\ Traces(args) = Asked(args)
<1> DEFINE F == Forwardings(args)
<1>1. CASE args.architectures = {}
  <2>1. F = <<args.forwarding>>
    BY <1>1, ForwardingsNeeded
  <2>2. Requested(args, ArchitecturesOf(args.forwarding)) = {"ip", "ndn"}
    BY <1>1 DEF Requested, ArchitecturesOf
  <2>3. Executed(args) = {1}
    BY <2>1, <2>2 DEF Executed
  <2> QED
    BY <1>1, <2>1, <2>2, <2>3 DEF Rows, Traces, Asked
<1>2. CASE args.architectures # {}
  <2> DEFINE ran(f) == args.architectures \cap ArchitecturesOf(f)
  <2>1. Rows(args) = UNION {ran(F[i]) : i \in DOMAIN F}
    BY <1>2 DEF Rows, Executed, Requested
  <2>2. ArchitecturesOf(SdnCentralized) = {"ip_sdn", "ndn_sdn"}
        /\ ArchitecturesOf(args.forwarding) = {"ip", "ndn"}
    BY DEF ArchitecturesOf
  <2>3. CASE NeedsBase(args) /\ NeedsSdn(args)
    <3>1. F = <<args.forwarding, SdnCentralized>>
      BY <1>2, <2>3, ForwardingsNeeded
    <3>2. DOMAIN F = {1, 2} /\ F[1] = args.forwarding /\ F[2] = SdnCentralized
      BY <3>1
    <3>3. Rows(args) = ran(args.forwarding) \cup ran(SdnCentralized)
      BY <2>1, <3>2
    <3> QED
      BY <1>2, <2>2, <3>1, <3>3 DEF Traces, Asked, ArchitectureChoices
  <2>4. CASE NeedsBase(args) /\ ~ NeedsSdn(args)
    <3>1. F = <<args.forwarding>>
      BY <1>2, <2>4, ForwardingsNeeded
    <3>2. Rows(args) = ran(args.forwarding)
      BY <2>1, <3>1
    <3> QED
      BY <1>2, <2>2, <2>4, <3>1, <3>2 DEF Traces, Asked, ArchitectureChoices, NeedsSdn
  <2>5. CASE ~ NeedsBase(args)
    <3>1. F = <<SdnCentralized>>
      BY <1>2, <2>5, ForwardingsNeeded
    <3>2. Rows(args) = ran(SdnCentralized)
      BY <2>1, <3>1
    <3> QED
      BY <1>2, <2>2, <2>5, <3>1, <3>2 DEF Traces, Asked, ArchitectureChoices, NeedsBase
  <2> QED
    BY <2>3, <2>4, <2>5
<1> QED
  BY <1>1, <1>2

(* _execute returns a result only if it has run.                           *)
LEMMA ResultOfARun ==
    ASSUME NEW args, Execute(args).result.exists
    PROVE  /\ ~ (EstimateCombos(args) > MaxCombos)
           /\ Execute(args).combos = EstimateCombos(args)
           /\ Execute(args).result.rows = Rows(args)
           /\ Execute(args).result.trace_architectures = Traces(args)
<1> DEFINE empty == S!Consumers(args.nodes, PrefixCount, args.consumer_count) = {}
           failed(error) == [result |-> None, error |-> error, combos |-> EstimateCombos(args),
                             traces |-> {}]
           ran == [result |-> [exists |-> TRUE, rows |-> Rows(args),
                               trace_architectures |-> Traces(args)],
                   error |-> NoError, combos |-> EstimateCombos(args), traces |-> Traces(args)]
<1>1. Execute(args) = IF EstimateCombos(args) > MaxCombos THEN failed("too many configurations")
                      ELSE IF empty THEN failed("need at least one consumer")
                      ELSE ran
  BY Zenon DEF Execute
<1> HIDE DEF empty
<1>2. \A error : ~ failed(error).result.exists
  BY DEF None
<1>3. /\ ran.combos = EstimateCombos(args) /\ ran.result.rows = Rows(args)
      /\ ran.result.trace_architectures = Traces(args)
  OBVIOUS
<1> HIDE DEF failed, ran
<1>4. Execute(args) = ran /\ ~ (EstimateCombos(args) > MaxCombos)
  BY <1>1, <1>2, Zenon
<1> QED
  BY <1>3, <1>4

(* SweepCoversRequest: what run_sweep (cli.py) runs is what _estimate_combos *)
(* (app.py) counted, and it gives every architecture that was asked for.   *)
THEOREM RequestsAreCovered == Spec => []SweepCoversRequest
<1>1. JobsInv => SweepCoversRequest
  <2> SUFFICES ASSUME JobsInv, NEW i \in 1 .. Len(jobs), jobs[i].result.exists
               PROVE  LET args == jobs[i].args
                      IN /\ (args.forwardings = <<>> /\ args.forwarding # SdnCentralized) =>
                              /\ jobs[i].result.rows = Asked(args)
                              /\ jobs[i].result.trace_architectures = Asked(args)
                         /\ Cardinality(Executed(args)) * args.others <= jobs[i].combos_done
                         /\ jobs[i].combos_done <= MaxCombos
    BY DEF SweepCoversRequest, Asked, J!Created
  <2> DEFINE args == jobs[i].args
  <2>1. Assigned(i) /\ args \in Submitted
    <3>1. Assigned(i) /\ jobs[i] \in JobRecord
      BY DEF JobsInv, JobsTyped, J!Created
    <3> QED
      BY <3>1 DEF JobRecord
  <2>2. jobs[i].result # None
    BY DEF None
  <2>3. jobs[i].result = Execute(args).result /\ jobs[i].combos_done = Execute(args).combos
    BY <2>1, <2>2 DEF Assigned, J!Answer, Outcomes
  <2> HIDE DEF args
  <2>4. /\ ~ (EstimateCombos(args) > MaxCombos)
        /\ jobs[i].combos_done = EstimateCombos(args)
        /\ jobs[i].result.rows = Rows(args)
        /\ jobs[i].result.trace_architectures = Traces(args)
    BY <2>3, ResultOfARun
  <2>5. /\ args.forwardings \in Seq(STRING) /\ args.others \in Nat
        /\ args.architectures \in SUBSET ArchitectureChoices
    BY <2>1, SubmittedIsTyped
  <2>6. /\ Cardinality(Executed(args)) * args.others <= EstimateCombos(args)
        /\ EstimateCombos(args) <= MaxCombos
    BY <2>4, <2>5, AsManyAsEstimated, MaxCombosAssumption
  <2>7. (args.forwardings = <<>> /\ args.forwarding # SdnCentralized) =>
          Rows(args) = Asked(args) /\ Traces(args) = Asked(args)
    BY <2>5, RowsAndTraces
  <2> QED
    BY <2>4, <2>6, <2>7 DEF args
<1> QED
  BY <1>1, ImplementsJobManager, JobsInvIsInvariant, PTL
=============================================================================
