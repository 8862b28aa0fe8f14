-------------------------- MODULE MemoryJobsProofs --------------------------
(***************************************************************************)
(* Proofs about the memory-job queue, for any tasks, processes, projects   *)
(* and payloads, any batch size, any max_attempts and any receipt limit.   *)
(* A reader should start from IInv: TypeOK, OneLeasePerProject,            *)
(* PendingCanBeClaimed and ReceiptMeansApplied are not inductive without   *)
(* what a worker or an abandoned thread knows at each await (Fit).  The    *)
(* action properties and the refinement of JobLifecycle rest on what any   *)
(* step can do to the files (FileStep).                                    *)
(***************************************************************************)
EXTENDS MemoryJobs, TLAPS

\* A job file that the queue can have written, or none
Fits(j) ==
  /\ j \in Job
  /\ j.st = "none" => j.ext = NoPayload /\ j.con = NoPayload
  /\ j.st = "pending" => j.attempts < MaxAttempts
  /\ j.st = "processing" => j.attempts > 0

JobsFit == jobs \in [Task -> Job] /\ \A t \in Task : Fits(jobs[t])

\* The first n - 1 decisions that w applies are in the memory store
AppliedBelow(w, n, store) ==
  \A i \in 1..Candidates : i < n => <<w.job, w.ext, w.con, i>> \in store

\* What a worker, or a thread it left behind, has reached at its await
Fit(w, store) ==
  /\ w \in Worker
  /\ w.pc = "claim" => w.left > 0
  /\ w.pc \notin {"idle", "claim"} => w.job \in Task
  /\ w.pc \in {"announce", "extract", "saveExt", "consolidate", "saveCon"} =>
       w.next = 1
  /\ w.pc \in {"apply", "complete"} => w.ext \in Payload /\ w.con \in Payload
  /\ w.pc = "apply" => AppliedBelow(w, w.next, store)
  /\ w.pc = "complete" => AppliedBelow(w, Candidates + 1, store)

WorkersFit ==
  /\ worker \in [Proc -> Worker]
  /\ detached \in [Proc -> SUBSET Worker]
  /\ \A p \in Proc : /\ Fit(worker[p], applied)
                     /\ \A w \in detached[p] : Fit(w, applied)

StoreFits ==
  /\ receipts \subseteq Task
  /\ applied \subseteq (Task \X Payload \X Payload \X (1..Candidates))
  /\ ReceiptMeansApplied

ProcessesFit ==
  alive \subseteq Proc /\ enabled \subseteq Proc /\ faults \in 0..MaxFaults

IInv == JobsFit /\ OneLeasePerProject /\ WorkersFit /\ StoreFits /\ ProcessesFit

-----------------------------------------------------------------------------
(* Job files.                                                               *)

\* Every operation that ends a lease writes a job that fits and is not leased.
LEMMA LeaseEnds ==
  ASSUME NEW j, Fits(j), j.st = "processing", NEW reset \in BOOLEAN
  PROVE  /\ Fits(RecoverStale(j)) /\ RecoverStale(j).st # "processing"
         /\ Fits(FailJob(j, TRUE, reset))
         /\ FailJob(j, TRUE, reset).st # "processing"
         /\ Fits(ReleasedJob(j)) /\ ReleasedJob(j).st # "processing"
<1>1. /\ j \in Job /\ j.attempts \in 1..MaxAttempts
      /\ j.attempts - 1 \in 0..MaxAttempts /\ j.attempts - 1 < MaxAttempts
  BY NumberAssumption DEF Fits, Job
<1>2. /\ Terminal(j) \in Job /\ Terminal(j).st = "failed"
  BY <1>1 DEF Terminal, Job
<1>3. /\ ResetPending(j) \in Job /\ ResetPending(j).st = "pending"
      /\ ResetPending(j).attempts = j.attempts
  BY <1>1 DEF ResetPending, Job
<1>4. Fits(RecoverStale(j)) /\ RecoverStale(j).st # "processing"
  BY <1>1, <1>2, <1>3, NumberAssumption DEF RecoverStale, Fits
<1>5. Fits(ReleasedJob(j)) /\ ReleasedJob(j).st # "processing"
  <2>1. ReleasedJob(j) = [ResetPending(j) EXCEPT !.attempts = j.attempts - 1]
    BY <1>1, <1>3 DEF ReleasedJob
  <2>2. QED
    BY <1>1, <1>3, <2>1 DEF Fits, Job
<1>6. Fits(FailJob(j, TRUE, reset)) /\ FailJob(j, TRUE, reset).st # "processing"
  <2> DEFINE con == IF reset THEN NoPayload ELSE j.con
             r == [j EXCEPT !.con = con]
  <2>1. con \in Payload \cup {NoPayload}
    BY <1>1 DEF Job
  <2> HIDE DEF con
  <2>2. r \in Job /\ r.attempts = j.attempts
    BY <1>1, <2>1 DEF Job
  <2>3. FailJob(j, TRUE, reset) =
          IF j.attempts < MaxAttempts
          THEN [ResetPending(r) EXCEPT !.delayed = TRUE] ELSE Terminal(r)
    BY DEF FailJob, con
  <2> HIDE DEF r
  <2>4. Terminal(r) \in Job /\ Terminal(r).st = "failed"
    BY <2>2 DEF Terminal, Job
  <2>5. /\ [ResetPending(r) EXCEPT !.delayed = TRUE] \in Job
        /\ [ResetPending(r) EXCEPT !.delayed = TRUE].st = "pending"
        /\ [ResetPending(r) EXCEPT !.delayed = TRUE].attempts = j.attempts
    BY <2>2 DEF ResetPending, Job
  <2>6. QED
    BY <2>3, <2>4, <2>5 DEF Fits
<1>7. QED
  BY <1>4, <1>5, <1>6

\* No file, and the file of a new job
LEMMA NewJobsFit ==
  /\ Fits(NoJob) /\ NoJob.st = "none"
  /\ Fits(FreshJob) /\ FreshJob.st = "pending"
<1>1. /\ NoJob \in Job /\ NoJob.st = "none"
      /\ NoJob.ext = NoPayload /\ NoJob.con = NoPayload
  BY NumberAssumption DEF NoJob, Job
<1>2. FreshJob \in Job /\ FreshJob.st = "pending" /\ FreshJob.attempts = 0
  BY <1>1 DEF FreshJob, NoJob, Job
<1>3. QED
  BY <1>1, <1>2, NumberAssumption DEF Fits

\* Files that fit and lease nothing that was not leased
Quiet(f) ==
  /\ f \in [Task -> Job]
  /\ \A t \in Task : /\ Fits(f[t])
                     /\ f[t].st = "processing" => jobs[t].st = "processing"

\* A change of one file is quiet when the file is.
LEMMA UpdateIsQuiet ==
  ASSUME JobsFit, NEW t \in Task, NEW j, Fits(j),
         j.st = "processing" => jobs[t].st = "processing"
  PROVE  Quiet([jobs EXCEPT ![t] = j])
<1>1. j \in Job
  BY DEF Fits
<1>2. QED
  BY <1>1 DEF JobsFit, Quiet

\* So is a scan.
LEMMA ScanIsQuiet ==
  ASSUME JobsFit, NEW pr
  PROVE  Quiet(Scanned(pr))
<1>1. ASSUME NEW t \in Task
      PROVE  /\ Fits(Scanned(pr)[t])
             /\ Scanned(pr)[t].st = "processing" =>
                  Scanned(pr)[t] = jobs[t]
  BY LeaseEnds, NewJobsFit DEF JobsFit, Scanned
<1>2. Scanned(pr) \in [Task -> Job]
  BY <1>1 DEF Scanned, Fits
<1>3. QED
  BY <1>1, <1>2 DEF Quiet

\* A quiet change keeps the files fit and a project's lease the only one.
LEMMA QuietKeepsJobs ==
  ASSUME JobsFit, OneLeasePerProject, Quiet(jobs')
  PROVE  JobsFit' /\ OneLeasePerProject'
BY DEF JobsFit, OneLeasePerProject, Quiet, Fits

\* A claim too: it happens only where nothing is leased.
LEMMA ClaimKeepsJobs ==
  ASSUME JobsFit, OneLeasePerProject, NEW p \in Proc, NEW t \in Task,
         ClaimJob(p, t)
  PROVE  JobsFit' /\ OneLeasePerProject'
<1> DEFINE pr == HomeOf[p]
           f == Scanned(pr)
           n == f[t].attempts + 1
           j == [f[t] EXCEPT !.st = "processing", !.attempts = n,
                             !.owner = p, !.expired = FALSE]
<1>1. Quiet(f)
  BY ScanIsQuiet
<1>2. /\ ProjectOf[t] = pr /\ f[t].st = "pending"
      /\ \A u \in Task : ProjectOf[u] = pr => f[u].st # "processing"
  BY DEF ClaimJob, Ready
<1>3. jobs' = [f EXCEPT ![t] = j]
  BY <1>1 DEF ClaimJob, Quiet
<1> HIDE DEF f
<1>4. f[t] \in Job /\ n \in 0..MaxAttempts /\ n > 0
  BY <1>1, <1>2, NumberAssumption DEF Quiet, Fits, Job
<1> HIDE DEF n
<1>5. Fits(j)
  BY <1>4 DEF Fits, Job
<1> HIDE DEF j
<1>6. JobsFit'
  BY <1>1, <1>3, <1>5 DEF Quiet, JobsFit, Fits
<1>7. OneLeasePerProject'
  <2> SUFFICES ASSUME NEW u \in Task, NEW v \in Task,
                      jobs'[u].st = "processing", jobs'[v].st = "processing",
                      ProjectOf[u] = ProjectOf[v]
               PROVE  u = v
    BY DEF OneLeasePerProject
  <2>1. CASE u = t \/ v = t
    BY <1>1, <1>2, <1>3, <2>1 DEF Quiet
  <2>2. CASE u # t /\ v # t
    BY <1>1, <1>3, <2>2 DEF Quiet, OneLeasePerProject
  <2>3. QED
    BY <2>1, <2>2
<1>8. QED
  BY <1>6, <1>7

\* The operations of a lease holder on its file are quiet.
LEMMA OwnerIsQuiet ==
  ASSUME JobsFit, NEW p \in Proc, NEW t \in Task, Owned(p, t)
  PROVE  /\ \A e, c \in Payload \cup {NoPayload} :
              Checkpoint(p, t, e, c) => Quiet(jobs')
         /\ Complete(p, t) => Quiet(jobs')
         /\ \A reset \in BOOLEAN : Fail(p, t, reset) => Quiet(jobs')
<1>1. Fits(jobs[t]) /\ jobs[t].st = "processing" /\ jobs[t] \in Job
  BY DEF JobsFit, Owned
<1>2. ASSUME NEW e \in Payload \cup {NoPayload},
             NEW c \in Payload \cup {NoPayload}, Checkpoint(p, t, e, c)
      PROVE  Quiet(jobs')
  <2> DEFINE ext == IF e = NoPayload THEN jobs[t].ext ELSE e
             con == IF c = NoPayload THEN jobs[t].con ELSE c
             j == [jobs[t] EXCEPT !.ext = ext, !.con = con, !.expired = FALSE]
  <2>1. ext \in Payload \cup {NoPayload} /\ con \in Payload \cup {NoPayload}
    BY <1>1 DEF Job
  <2>2. jobs' = [jobs EXCEPT ![t] = j]
    BY <1>1, <1>2 DEF Checkpoint, JobsFit, Job
  <2> HIDE DEF ext, con
  <2>3. Fits(j) /\ j.st = "processing"
    BY <1>1, <2>1 DEF Fits, Job
  <2> HIDE DEF j
  <2>4. QED
    BY <1>1, <2>2, <2>3, UpdateIsQuiet
<1>3. Complete(p, t) => Quiet(jobs')
  BY NewJobsFit, UpdateIsQuiet DEF Complete
<1>4. ASSUME NEW reset \in BOOLEAN, Fail(p, t, reset)
      PROVE  Quiet(jobs')
  <2> DEFINE j == FailJob(jobs[t], TRUE, reset)
  <2>1. jobs' = [jobs EXCEPT ![t] = j]
    BY <1>4 DEF Fail
  <2>2. Fits(j) /\ j.st # "processing"
    BY <1>1, LeaseEnds
  <2> HIDE DEF j
  <2>3. QED
    BY <2>1, <2>2, UpdateIsQuiet
<1>5. QED
  BY <1>2, <1>3, <1>4

\* A release is quiet whoever holds the lease.
LEMMA ReleaseIsQuiet ==
  ASSUME JobsFit, NEW p \in Proc, NEW t \in Task, Release(p, t)
  PROVE  Quiet(jobs')
<1>1. CASE Owned(p, t)
  <2> DEFINE j == ReleasedJob(jobs[t])
  <2>1. Fits(j) /\ j.st # "processing"
    BY <1>1, LeaseEnds DEF JobsFit, Owned
  <2>2. jobs' = [jobs EXCEPT ![t] = j]
    BY <1>1 DEF Release
  <2> HIDE DEF j
  <2>3. QED
    BY <2>1, <2>2, UpdateIsQuiet
<1>2. CASE ~Owned(p, t)
  BY <1>2 DEF Release, JobsFit, Quiet
<1>3. QED
  BY <1>1, <1>2

\* A file nobody touches stays as it is.
LEMMA UnchangedIsQuiet == JobsFit /\ UNCHANGED jobs => Quiet(jobs')
BY DEF JobsFit, Quiet

-----------------------------------------------------------------------------
(* Workers and the threads they leave behind.                               *)

\* What a worker has reached stays reached: the store only grows.
LEMMA FitGrows ==
  ASSUME NEW w, NEW store, NEW larger, Fit(w, store), store \subseteq larger
  PROVE  Fit(w, larger)
BY DEF Fit, AppliedBelow

\* A worker between two batches
LEMMA IdleFits ==
  /\ Idle \in Worker
  /\ \A store : Fit(Idle, store)
<1>1. Idle \in Worker
  BY NumberAssumption DEF Idle, Worker, ThreadOps, QueueOps
<1>2. QED
  BY <1>1 DEF Fit, Idle

\* A worker about to claim the next job of its batch
LEMMA ClaimingFits ==
  ASSUME NEW store, NEW n \in 1..BatchSize
  PROVE  Fit([Idle EXCEPT !.pc = "claim", !.left = n], store)
<1> DEFINE w == [Idle EXCEPT !.pc = "claim", !.left = n]
<1>1. n \in 0..BatchSize /\ n > 0
  BY NumberAssumption
<1>2. w \in Worker /\ w.pc = "claim" /\ w.left = n
  BY <1>1, IdleFits DEF Worker, ThreadOps, QueueOps
<1>3. QED
  BY <1>1, <1>2 DEF Fit

\* process_pending goes on to the next job or stops
LEMMA NextJobFits ==
  ASSUME NEW store, NEW p \in Proc, worker[p] \in Worker
  PROVE  Fit(NextJob(p), store)
<1>1. worker[p].left # 0 => worker[p].left \in 1..BatchSize
  BY NumberAssumption DEF Worker
<1>2. QED
  BY <1>1, IdleFits, ClaimingFits DEF NextJob

\* A worker that gives its job back
LEMMA ReleasingFits ==
  ASSUME NEW store, NEW t \in Task
  PROVE  Fit([Idle EXCEPT !.pc = "release", !.job = t], store)
<1> DEFINE w == [Idle EXCEPT !.pc = "release", !.job = t]
<1>1. w \in Worker /\ w.pc = "release" /\ w.job = t
  BY IdleFits DEF Worker, ThreadOps, QueueOps
<1>2. QED
  BY <1>1 DEF Fit

\* A worker whose job raised
LEMMA RaisedFits ==
  ASSUME NEW store, NEW w, Fit(w, store), w.pc \notin {"idle", "claim"},
         NEW reset \in BOOLEAN
  PROVE  Fit([w EXCEPT !.pc = "fail", !.reset = reset], store)
<1>1. [w EXCEPT !.pc = "fail", !.reset = reset] \in Worker
  BY DEF Fit, Worker, ThreadOps, QueueOps
<1>2. QED
  BY <1>1 DEF Fit, Worker

\* A worker that resumes its job from the checkpoints it holds
LEMMA ResumedFits ==
  ASSUME NEW store, NEW w, w \in Worker, w.job \in Task, w.next = 1
  PROVE  Fit([w EXCEPT !.pc = StageOf(w.ext, w.con)], store)
<1> DEFINE pc == StageOf(w.ext, w.con)
           v == [w EXCEPT !.pc = pc]
<1>1. /\ pc \in {"extract", "consolidate", "apply"}
      /\ pc = "apply" => w.ext \in Payload /\ w.con \in Payload
  BY DEF StageOf, Worker
<1> HIDE DEF pc
<1>2. /\ v \in Worker /\ v.pc = pc /\ v.job = w.job /\ v.next = 1
      /\ v.ext = w.ext /\ v.con = w.con
  BY <1>1 DEF Worker, ThreadOps, QueueOps
<1> HIDE DEF v
<1>3. AppliedBelow(v, 1, store)
  BY NumberAssumption DEF AppliedBelow
<1>4. Fit(v, store)
  BY <1>1, <1>2, <1>3 DEF Fit
<1>5. QED
  BY <1>4 DEF v, pc

\* Nothing but what follows is asked of a step for WorkersFit: the worker that
\* moves is fit, and only its former self is left behind.
LEMMA MoveKeepsWorkers ==
  ASSUME WorkersFit, NEW p \in Proc, NEW w, Fit(w, applied'),
         worker' = [worker EXCEPT ![p] = w],
         applied \subseteq applied',
         \/ UNCHANGED detached
         \/ detached' = [detached EXCEPT ![p] = @ \cup {worker[p]}]
         \/ detached' = [detached EXCEPT ![p] = {}]
  PROVE  WorkersFit'
<1>1. worker' \in [Proc -> Worker]
  BY DEF WorkersFit, Fit
<1>2. \A q \in Proc : Fit(worker'[q], applied')
  BY FitGrows DEF WorkersFit
<1>3. /\ detached' \in [Proc -> SUBSET Worker]
      /\ \A q \in Proc : detached'[q] \subseteq detached[q] \cup {worker[q]}
  BY DEF WorkersFit
<1>4. \A q \in Proc : \A v \in detached'[q] : Fit(v, applied')
  BY <1>3, FitGrows DEF WorkersFit
<1>5. QED
  BY <1>1, <1>2, <1>3, <1>4 DEF WorkersFit

\* A step that moves no worker
LEMMA StayKeepsWorkers ==
  ASSUME WorkersFit, UNCHANGED worker, applied \subseteq applied',
         \/ UNCHANGED detached
         \/ \E p \in Proc : \E w \in detached[p] :
              detached' = [detached EXCEPT ![p] = @ \ {w}]
  PROVE  WorkersFit'
<1>1. /\ detached' \in [Proc -> SUBSET Worker]
      /\ \A q \in Proc : detached'[q] \subseteq detached[q]
  BY DEF WorkersFit
<1>2. QED
  BY <1>1, FitGrows DEF WorkersFit

-----------------------------------------------------------------------------
(* Every step of a process keeps the job files fit and the lease unique.    *)

\* An operation on the job that w, a worker or a thread, holds
LEMMA HolderKeepsJobs ==
  ASSUME JobsFit, OneLeasePerProject, NEW p \in Proc, NEW w, w \in Worker,
         w.job \in Task,
         \/ Owned(p, w.job) /\ SaveOf(p, w)
         \/ Owned(p, w.job) /\ Complete(p, w.job)
         \/ Owned(p, w.job) /\ Fail(p, w.job, w.reset)
         \/ Release(p, w.job)
         \/ UNCHANGED jobs
  PROVE  JobsFit' /\ OneLeasePerProject'
<1>1. /\ w.ext \in Payload \cup {NoPayload} /\ w.con \in Payload \cup {NoPayload}
      /\ w.reset \in BOOLEAN
  BY DEF Worker
<1>2. Quiet(jobs')
  BY <1>1, OwnerIsQuiet, ReleaseIsQuiet, UnchangedIsQuiet DEF SaveOf
<1>3. QED
  BY <1>2, QuietKeepsJobs

\* Whatever a process does, its workers, threads and death included.
LEMMA StepKeepsJobs ==
  ASSUME IInv, NEW p \in Proc, ProcStep(p)
  PROVE  JobsFit' /\ OneLeasePerProject'
<1>1. JobsFit /\ OneLeasePerProject
  BY DEF IInv
<1>2. /\ worker[p] \in Worker
      /\ worker[p].pc \notin {"idle", "claim"} => worker[p].job \in Task
      /\ \A w \in detached[p] : /\ w \in Worker
                                /\ w.pc \notin {"idle", "claim"} => w.job \in Task
  BY DEF IInv, WorkersFit, Fit
<1>3. ClaimNothing(p) => JobsFit' /\ OneLeasePerProject'
  BY <1>1, ScanIsQuiet, QuietKeepsJobs DEF ClaimNothing
<1>4. \A t \in Task : ClaimJob(p, t) => JobsFit' /\ OneLeasePerProject'
  BY <1>1, ClaimKeepsJobs
<1>5. CASE Claim(p)
  BY <1>3, <1>4, <1>5 DEF Claim
<1>6. CASE Announce(p) \/ Extract(p) \/ Consolidate(p) \/ Apply(p)
  BY <1>1, <1>6, UnchangedIsQuiet, QuietKeepsJobs
  DEF Announce, Extract, Consolidate, Apply
<1>7. CASE Save(p)
  BY <1>1, <1>2, <1>7, HolderKeepsJobs DEF Save, At
<1>8. CASE CompleteJob(p)
  BY <1>1, <1>2, <1>8, HolderKeepsJobs DEF CompleteJob, At
<1>9. CASE FailCurrent(p)
  BY <1>1, <1>2, <1>9, HolderKeepsJobs DEF FailCurrent, At
<1>10. CASE ReleaseClaimed(p)
  BY <1>1, <1>2, <1>10, HolderKeepsJobs DEF ReleaseClaimed, At
<1>11. CASE StartWorker(p) \/ Stop(p) \/ Enable(p) \/ LockTimeout(p) \/ Crash(p)
  BY <1>1, <1>11, UnchangedIsQuiet, QuietKeepsJobs
  DEF StartWorker, Stop, Enable, LockTimeout, Crash
<1>12. ASSUME NEW w \in detached[p], Detached(p, w)
       PROVE  JobsFit' /\ OneLeasePerProject'
  <2>1. CASE w.pc = "claim"
    BY <1>3, <1>4, <1>12, <2>1 DEF Detached
  <2>2. CASE w.pc # "claim"
    <3>1. w \in Worker /\ (w.pc # "idle" => w.job \in Task)
      BY <1>2, <2>2
    <3>2. /\ w.pc # "idle"
          /\ \/ Owned(p, w.job) /\ SaveOf(p, w)
             \/ Owned(p, w.job) /\ Complete(p, w.job)
             \/ Owned(p, w.job) /\ Fail(p, w.job, w.reset)
             \/ Release(p, w.job)
             \/ UNCHANGED jobs
      BY <1>12, <2>2 DEF Detached
    <3>3. QED
      BY <1>1, <3>1, <3>2, HolderKeepsJobs
  <2>3. QED
    BY <2>1, <2>2
<1>13. CASE CrashInComplete(p)
  <2>1. worker[p].job \in Task
    BY <1>2, <1>13 DEF CrashInComplete, At
  <2>2. Quiet(jobs')
    BY <1>1, <1>13, <2>1, NewJobsFit, UpdateIsQuiet, UnchangedIsQuiet
    DEF CrashInComplete
  <2>3. QED
    BY <1>1, <2>2, QuietKeepsJobs
<1>14. ASSUME NEW t \in Task, Enqueue(p, t)
       PROVE  JobsFit' /\ OneLeasePerProject'
  <2>1. Quiet(jobs')
    BY <1>1, <1>14, NewJobsFit, UpdateIsQuiet, UnchangedIsQuiet DEF Enqueue
  <2>2. QED
    BY <1>1, <2>1, QuietKeepsJobs
<1>15. ASSUME NEW t \in Task, Stats(p, t)
       PROVE  JobsFit' /\ OneLeasePerProject'
  <2> DEFINE j == RecoverStale(jobs[t])
  <2>1. Fits(j) /\ j.st # "processing"
    BY <1>1, <1>15, LeaseEnds DEF Stats, JobsFit
  <2>2. Quiet([jobs EXCEPT ![t] = j])
    BY <1>1, <2>1, UpdateIsQuiet
  <2>3. QED
    BY <1>1, <1>15, <2>2, QuietKeepsJobs DEF Stats
<1>16. QED
  BY <1>5, <1>6, <1>7, <1>8, <1>9, <1>10, <1>11, <1>12, <1>13, <1>14, <1>15
  DEF ProcStep, WorkerStep

\* So does time.
LEMMA ClockKeepsJobs ==
  ASSUME IInv, NEW t \in Task, Clock(t)
  PROVE  JobsFit' /\ OneLeasePerProject'
<1>1. JobsFit /\ OneLeasePerProject /\ Fits(jobs[t]) /\ jobs[t] \in Job
  BY DEF IInv, JobsFit
<1>2. CASE LeaseExpires(t)
  <2> DEFINE j == [jobs[t] EXCEPT !.expired = TRUE]
  <2>1. Fits(j) /\ j.st = jobs[t].st /\ jobs' = [jobs EXCEPT ![t] = j]
    BY <1>1, <1>2 DEF LeaseExpires, Fits, Job
  <2> HIDE DEF j
  <2>2. QED
    BY <1>1, <2>1, UpdateIsQuiet, QuietKeepsJobs
<1>3. CASE RetryIsDue(t)
  <2> DEFINE j == [jobs[t] EXCEPT !.delayed = FALSE]
  <2>1. Fits(j) /\ j.st = jobs[t].st /\ jobs' = [jobs EXCEPT ![t] = j]
    BY <1>1, <1>3 DEF RetryIsDue, Fits, Job
  <2> HIDE DEF j
  <2>2. QED
    BY <1>1, <2>1, UpdateIsQuiet, QuietKeepsJobs
<1>4. QED
  BY <1>2, <1>3 DEF Clock

-----------------------------------------------------------------------------
(* Every step keeps workers, threads and the memory store fit.              *)

\* Applying a decision records it and brings the worker one decision further.
LEMMA ApplyFits ==
  ASSUME NEW w, Fit(w, applied), w.pc = "apply", NEW store,
         store = applied \cup {Applying(w)}, NEW pc, NEW next,
         pc = (IF w.next = Candidates THEN "complete" ELSE "apply"),
         next = (IF w.next = Candidates THEN w.next ELSE w.next + 1)
  PROVE  Fit([w EXCEPT !.pc = pc, !.next = next], store)
<1> DEFINE v == [w EXCEPT !.pc = pc, !.next = next]
<1>1. /\ w \in Worker /\ w.next \in 1..Candidates /\ w.job \in Task
      /\ w.ext \in Payload /\ w.con \in Payload
  BY DEF Fit, Worker
<1>2. AppliedBelow(w, w.next + 1, store)
  <2> SUFFICES ASSUME NEW i \in 1..Candidates, i < w.next + 1
               PROVE  <<w.job, w.ext, w.con, i>> \in store
    BY DEF AppliedBelow
  <2>1. CASE i = w.next
    BY <2>1 DEF Applying
  <2>2. CASE i < w.next
    BY <2>2 DEF Fit, AppliedBelow
  <2>3. QED
    BY <1>1, <2>1, <2>2, NumberAssumption
<1>3. /\ pc \in {"complete", "apply"} /\ next \in 1..Candidates
      /\ pc = "apply" => next = w.next + 1
      /\ pc = "complete" => w.next = Candidates
  BY <1>1, NumberAssumption
<1>4. /\ v \in Worker /\ v.pc = pc /\ v.job = w.job /\ v.next = next
      /\ v.ext = w.ext /\ v.con = w.con
  BY <1>1, <1>3 DEF Worker, ThreadOps, QueueOps
<1> HIDE DEF v
<1>5. /\ pc = "apply" => AppliedBelow(v, next, store)
      /\ pc = "complete" => AppliedBelow(v, Candidates + 1, store)
  BY <1>2, <1>3, <1>4 DEF AppliedBelow
<1>6. Fit(v, store)
  BY <1>1, <1>3, <1>4, <1>5 DEF Fit
<1>7. QED
  BY <1>6 DEF v

\* After any step every worker and abandoned thread has reached what it says.
LEMMA StepKeepsWorkers ==
  ASSUME IInv, NEW p \in Proc, ProcStep(p)
  PROVE  WorkersFit'
<1> DEFINE w == worker[p]
<1>1. /\ WorkersFit /\ JobsFit /\ Fit(w, applied) /\ w \in Worker
      /\ worker \in [Proc -> Worker] /\ w.reset \in BOOLEAN
  BY DEF IInv, WorkersFit, Fit, Worker
<1>2. CASE Claim(p)
  <2>1. applied' = applied /\ UNCHANGED detached
    BY <1>2 DEF Claim
  <2>2. CASE Become(p, Idle)
    BY <1>1, <2>1, <2>2, IdleFits, MoveKeepsWorkers DEF Become
  <2>3. ASSUME NEW t \in Task,
               Become(p, [Idle EXCEPT
                 !.pc = IF worker[p].stop THEN "release" ELSE "announce",
                 !.job = t, !.ext = jobs[t].ext, !.con = jobs[t].con,
                 !.left = worker[p].left - 1])
        PROVE  WorkersFit'
    <3> DEFINE pc == IF w.stop THEN "release" ELSE "announce"
               left == w.left - 1
               v == [Idle EXCEPT !.pc = pc, !.job = t, !.ext = jobs[t].ext,
                                 !.con = jobs[t].con, !.left = left]
    <3>1. pc \in {"release", "announce"} /\ left \in 0..BatchSize
      <4>1. w.pc = "claim"
        BY <1>2 DEF Claim, At
      <4>2. w.left \in 0..BatchSize /\ w.left > 0
        BY <1>1, <4>1 DEF Fit, Worker
      <4>3. QED
        BY <4>2, NumberAssumption
    <3>2. /\ jobs[t].ext \in Payload \cup {NoPayload}
          /\ jobs[t].con \in Payload \cup {NoPayload}
      BY <1>1 DEF JobsFit, Job
    <3> HIDE DEF pc, left
    <3>3. v \in Worker /\ v.pc = pc /\ v.job = t /\ v.next = 1
      <4>1. Idle \in Worker /\ Idle.next = 1
        BY IdleFits DEF Idle
      <4>2. QED
        BY <3>1, <3>2, <4>1 DEF Worker, ThreadOps, QueueOps
    <3>4. worker' = [worker EXCEPT ![p] = v]
      BY <2>3 DEF Become, pc, left
    <3> HIDE DEF v
    <3>5. Fit(v, applied')
      BY <3>1, <3>3 DEF Fit
    <3>6. QED
      BY <1>1, <2>1, <3>4, <3>5, MoveKeepsWorkers
  <2>4. QED
    BY <1>2, <2>2, <2>3 DEF Claim
<1>3. CASE Announce(p)
  <2> DEFINE v == [w EXCEPT !.pc = StageOf(w.ext, w.con)]
  <2>1. Fit(v, applied')
    BY <1>1, <1>3, ResumedFits DEF Announce, At, Fit
  <2>2. worker' = [worker EXCEPT ![p] = v]
    BY <1>1, <1>3 DEF Announce, Goto
  <2>3. QED
    BY <1>1, <1>3, <2>1, <2>2, MoveKeepsWorkers DEF Announce
<1>4. ASSUME NEW reset \in BOOLEAN, Raise(p, reset), applied' = applied,
             UNCHANGED detached, w.pc \notin {"idle", "claim"}
      PROVE  WorkersFit'
  <2> DEFINE v == [w EXCEPT !.pc = "fail", !.reset = reset]
  <2>1. Fit(v, applied')
    BY <1>1, <1>4, RaisedFits
  <2>2. worker' = [worker EXCEPT ![p] = v]
    BY <1>1, <1>4 DEF Raise
  <2>3. QED
    BY <1>1, <1>4, <2>1, <2>2, MoveKeepsWorkers
<1>5. CASE Extract(p)
  <2>1. ASSUME NEW e \in Payload,
               worker' = [worker EXCEPT ![p].pc = "saveExt", ![p].ext = e]
        PROVE  WorkersFit'
    <3> DEFINE v == [w EXCEPT !.pc = "saveExt", !.ext = e]
    <3>1. v \in Worker /\ v.pc = "saveExt" /\ v.job = w.job /\ v.next = w.next
      BY <1>1 DEF Worker, ThreadOps, QueueOps
    <3>2. worker' = [worker EXCEPT ![p] = v]
      BY <1>1, <2>1
    <3> HIDE DEF v
    <3>3. Fit(v, applied')
      BY <1>1, <1>5, <3>1 DEF Extract, At, Fit
    <3>4. QED
      BY <1>1, <1>5, <3>2, <3>3, MoveKeepsWorkers DEF Extract
  <2>2. QED
    BY <1>4, <1>5, <2>1 DEF Extract, At
<1>6. CASE Consolidate(p)
  <2>1. ASSUME NEW c \in Payload,
               worker' = [worker EXCEPT ![p].pc = "saveCon", ![p].con = c]
        PROVE  WorkersFit'
    <3> DEFINE v == [w EXCEPT !.pc = "saveCon", !.con = c]
    <3>1. v \in Worker /\ v.pc = "saveCon" /\ v.job = w.job /\ v.next = w.next
      BY <1>1 DEF Worker, ThreadOps, QueueOps
    <3>2. worker' = [worker EXCEPT ![p] = v]
      BY <1>1, <2>1
    <3> HIDE DEF v
    <3>3. Fit(v, applied')
      BY <1>1, <1>6, <3>1 DEF Consolidate, At, Fit
    <3>4. QED
      BY <1>1, <1>6, <3>2, <3>3, MoveKeepsWorkers DEF Consolidate
  <2>2. QED
    BY <1>4, <1>6, <2>1 DEF Consolidate, At
<1>7. CASE Save(p)
  <2>1. CASE Goto(p, StageOf(w.ext, w.con))
    <3> DEFINE v == [w EXCEPT !.pc = StageOf(w.ext, w.con)]
    <3>1. Fit(v, applied')
      BY <1>1, <1>7, ResumedFits DEF Save, At, Fit
    <3>2. worker' = [worker EXCEPT ![p] = v]
      BY <1>1, <2>1 DEF Goto
    <3>3. QED
      BY <1>1, <1>7, <3>1, <3>2, MoveKeepsWorkers DEF Save
  <2>2. QED
    BY <1>4, <1>7, <2>1 DEF Save, At
<1>8. CASE Apply(p)
  <2>1. ASSUME applied' = applied \cup {Applying(w)},
               worker' = [worker EXCEPT
                 ![p].pc = IF w.next = Candidates THEN "complete" ELSE "apply",
                 ![p].next = IF w.next = Candidates THEN @ ELSE @ + 1]
        PROVE  WorkersFit'
    <3> DEFINE pc == IF w.next = Candidates THEN "complete" ELSE "apply"
               next == IF w.next = Candidates THEN w.next ELSE w.next + 1
               v == [w EXCEPT !.pc = pc, !.next = next]
    <3>1. Fit(v, applied')
      BY <1>1, <1>8, <2>1, ApplyFits DEF Apply, At
    <3>2. worker' = [worker EXCEPT ![p] = v]
      BY <1>1, <2>1
    <3>3. UNCHANGED detached /\ applied \subseteq applied'
      BY <1>8, <2>1 DEF Apply
    <3> HIDE DEF v
    <3>4. QED
      BY <1>1, <3>1, <3>2, <3>3, MoveKeepsWorkers
  <2>2. QED
    BY <1>4, <1>8, <2>1 DEF Apply, At
<1>9. CASE CompleteJob(p)
  <2>1. CASE Become(p, NextJob(p))
    BY <1>1, <1>9, <2>1, NextJobFits, MoveKeepsWorkers DEF CompleteJob, Become
  <2>2. QED
    BY <1>4, <1>9, <2>1 DEF CompleteJob, At
<1>10. CASE FailCurrent(p)
  <2>1. Become(p, NextJob(p)) \/ Become(p, Idle)
    BY <1>10 DEF FailCurrent
  <2>2. QED
    BY <1>1, <1>10, <2>1, NextJobFits, IdleFits, MoveKeepsWorkers
    DEF FailCurrent, Become
<1>11. CASE ReleaseClaimed(p)
  BY <1>1, <1>11, IdleFits, MoveKeepsWorkers DEF ReleaseClaimed, Become
<1>12. CASE StartWorker(p)
  <2>1. BatchSize \in 1..BatchSize
    BY NumberAssumption
  <2>2. QED
    BY <1>1, <1>12, <2>1, ClaimingFits, MoveKeepsWorkers
    DEF StartWorker, Become
<1>13. CASE Stop(p)
  <2>1. /\ applied' = applied
        /\ \/ UNCHANGED detached
           \/ detached' = [detached EXCEPT ![p] = @ \cup {worker[p]}]
    BY <1>13 DEF Stop, CancelWorker, LeaveThread
  <2>2. CASE UNCHANGED <<worker, detached>>
    BY <1>1, <2>1, <2>2, StayKeepsWorkers
  <2>3. CASE w.pc \in {"claim", "release"}
             /\ worker' = [worker EXCEPT ![p].stop = TRUE]
    <3> DEFINE v == [w EXCEPT !.stop = TRUE]
    <3>1. Fit(v, applied')
      BY <1>1, <2>1, <2>3 DEF Fit, Worker
    <3>2. worker' = [worker EXCEPT ![p] = v]
      BY <1>1, <2>3
    <3>3. QED
      BY <1>1, <2>1, <3>1, <3>2, MoveKeepsWorkers
  <2>4. CASE Become(p, Idle)
    BY <1>1, <2>1, <2>4, IdleFits, MoveKeepsWorkers DEF Become
  <2>5. CASE w.pc \notin {"idle", "claim"} /\ ToRelease(p)
    BY <1>1, <2>1, <2>5, ReleasingFits, MoveKeepsWorkers, ZenonT(80)
    DEF ToRelease, Become, Fit
  <2>6. QED
    BY <1>13, <2>2, <2>3, <2>4, <2>5 DEF Stop, CancelWorker
<1>14. CASE Enable(p)
  BY <1>1, <1>14, StayKeepsWorkers DEF Enable
<1>15. ASSUME NEW v \in detached[p], Detached(p, v)
       PROVE  WorkersFit'
  BY <1>1, <1>15, StayKeepsWorkers DEF Detached
<1>16. CASE LockTimeout(p)
  <2>1. CASE Become(p, Idle)
    BY <1>1, <1>16, <2>1, IdleFits, MoveKeepsWorkers DEF LockTimeout, Become
  <2>2. QED
    BY <1>4, <1>16, <2>1 DEF LockTimeout
<1>17. CASE Crash(p) \/ CrashInComplete(p)
  BY <1>1, <1>17, IdleFits, MoveKeepsWorkers DEF Crash, CrashInComplete, Die
<1>18. CASE \E t \in Task : Enqueue(p, t) \/ Stats(p, t)
  BY <1>1, <1>18, StayKeepsWorkers DEF Enqueue, Stats
<1>19. QED
  BY <1>2, <1>3, <1>5, <1>6, <1>7, <1>8, <1>9, <1>10, <1>11, <1>12, <1>13,
     <1>14, <1>15, <1>16, <1>17, <1>18
  DEF ProcStep, WorkerStep

\* A receipt is written only by a worker or thread that has applied every
\* decision of its job.
LEMMA CompleteKeepsStore ==
  ASSUME StoreFits, NEW w, Fit(w, applied), w.pc = "complete",
         receipts' \subseteq receipts \cup {w.job}, applied' = applied
  PROVE  StoreFits'
<1>1. w.job \in Task /\ w.ext \in Payload /\ w.con \in Payload
  BY DEF Fit
<1>2. \A i \in 1..Candidates : <<w.job, w.ext, w.con, i>> \in applied
  BY NumberAssumption DEF Fit, AppliedBelow
<1>3. QED
  BY <1>1, <1>2 DEF StoreFits, ReceiptMeansApplied

\* A decision is applied only by a worker or thread that is fit to.
LEMMA ApplyKeepsStore ==
  ASSUME StoreFits, NEW w, Fit(w, applied), w.pc = "apply",
         applied' = applied \cup {Applying(w)}, receipts' = receipts
  PROVE  StoreFits'
<1>1. Applying(w) \in Task \X Payload \X Payload \X (1..Candidates)
  BY DEF Fit, Applying, Worker
<1>2. QED
  BY <1>1 DEF StoreFits, ReceiptMeansApplied

\* After any step receipts still promise only what is in the store.
LEMMA StepKeepsStore ==
  ASSUME IInv, NEW p \in Proc, ProcStep(p)
  PROVE  StoreFits'
<1>1. /\ StoreFits /\ Fit(worker[p], applied)
      /\ \A w \in detached[p] : Fit(w, applied)
  BY DEF IInv, WorkersFit
<1>2. UNCHANGED <<receipts, applied>> => StoreFits'
  BY <1>1 DEF StoreFits, ReceiptMeansApplied
<1>3. ASSUME NEW t, PruneReceipts(t)
      PROVE  receipts' \subseteq receipts \cup {t}
  BY <1>3 DEF PruneReceipts
<1>4. CASE CompleteJob(p)
  BY <1>1, <1>2, <1>3, <1>4, CompleteKeepsStore DEF CompleteJob, Complete, At
<1>5. CASE Apply(p)
  BY <1>1, <1>2, <1>5, ApplyKeepsStore DEF Apply, At
<1>6. ASSUME NEW w \in detached[p], Detached(p, w)
      PROVE  StoreFits'
  <2>1. CASE w.pc = "complete"
    BY <1>1, <1>2, <1>3, <1>6, <2>1, CompleteKeepsStore DEF Detached, Complete
  <2>2. CASE w.pc = "apply"
    BY <1>1, <1>6, <2>2, ApplyKeepsStore DEF Detached
  <2>3. CASE w.pc \notin {"complete", "apply"}
    BY <1>2, <1>6, <2>3 DEF Detached
  <2>4. QED
    BY <2>1, <2>2, <2>3
<1>7. CASE CrashInComplete(p)
  BY <1>1, <1>7, CompleteKeepsStore DEF CrashInComplete, Die, At
<1>8. CASE \/ Claim(p) \/ Announce(p) \/ Extract(p) \/ Consolidate(p) \/ Save(p)
           \/ FailCurrent(p) \/ ReleaseClaimed(p) \/ StartWorker(p) \/ Stop(p)
           \/ Enable(p) \/ LockTimeout(p) \/ Crash(p)
           \/ \E t \in Task : Enqueue(p, t) \/ Stats(p, t)
  BY <1>2, <1>8
  DEF Claim, Announce, Extract, Consolidate, Save, FailCurrent, ReleaseClaimed,
      StartWorker, Stop, Enable, LockTimeout, Crash, Die, Enqueue, Stats
<1>9. QED
  BY <1>4, <1>5, <1>6, <1>7, <1>8 DEF ProcStep, WorkerStep

\* The bookkeeping of processes and of injected faults.
LEMMA StepKeepsProcesses ==
  ASSUME IInv, NEW p \in Proc, ProcStep(p)
  PROVE  ProcessesFit'
<1>1. ProcessesFit
  BY DEF IInv
<1>2. CASE Stop(p) \/ LockTimeout(p)
  <2>1. faults' \in 0..MaxFaults
    <3>1. faults < MaxFaults /\ faults' = faults + 1
      BY <1>2 DEF Stop, LockTimeout
    <3>2. QED
      BY <1>1, <3>1, NumberAssumption DEF ProcessesFit
  <2>2. alive' = alive /\ enabled' \subseteq enabled
    BY <1>2 DEF Stop, LockTimeout
  <2>3. QED
    BY <1>1, <2>1, <2>2 DEF ProcessesFit
<1>3. CASE Enable(p)
  BY <1>1, <1>3 DEF ProcessesFit, Enable
<1>4. CASE Crash(p) \/ CrashInComplete(p)
  BY <1>1, <1>4 DEF ProcessesFit, Crash, CrashInComplete, Die
<1>5. CASE \/ WorkerStep(p) \/ StartWorker(p)
           \/ \E w \in detached[p] : Detached(p, w)
           \/ \E t \in Task : Enqueue(p, t) \/ Stats(p, t)
  <2>1. UNCHANGED <<alive, enabled, faults>>
    BY <1>5
    DEF WorkerStep, Claim, Announce, Extract, Consolidate, Save, Apply,
        CompleteJob, FailCurrent, ReleaseClaimed, StartWorker, Detached,
        Enqueue, Stats
  <2>2. QED
    BY <1>1, <2>1, SMTT(60) DEF ProcessesFit
<1>6. QED
  BY <1>2, <1>3, <1>4, <1>5 DEF ProcStep

-----------------------------------------------------------------------------
(* The theorems.                                                            *)

\* The invariant holds of an empty queue.
LEMMA InitInv == Init => IInv
<1> SUFFICES ASSUME Init PROVE IInv
  OBVIOUS
<1>1. JobsFit /\ OneLeasePerProject
  <2>1. NoJob \in Job
    BY NewJobsFit DEF Fits
  <2>2. QED
    BY <2>1, NewJobsFit DEF Init, JobsFit, OneLeasePerProject
<1>2. WorkersFit
  BY IdleFits DEF Init, WorkersFit
<1>3. StoreFits /\ ProcessesFit
  BY NumberAssumption DEF Init, StoreFits, ReceiptMeansApplied, ProcessesFit
<1>4. QED
  BY <1>1, <1>2, <1>3 DEF IInv

\* Every step of a process and of time keeps it.
LEMMA NextInv == IInv /\ [Next]_vars => IInv'
<1> SUFFICES ASSUME IInv, [Next]_vars
             PROVE  IInv'
  OBVIOUS
<1>1. ASSUME NEW p \in Proc, ProcStep(p)
      PROVE  IInv'
  BY <1>1, StepKeepsJobs, StepKeepsWorkers, StepKeepsStore, StepKeepsProcesses
  DEF IInv
<1>2. ASSUME NEW t \in Task, Clock(t)
      PROVE  IInv'
  <2>1. UNCHANGED <<receipts, applied, alive, enabled, worker, detached, faults>>
    BY <1>2 DEF Clock, LeaseExpires, RetryIsDue
  <2>2. WorkersFit' /\ StoreFits' /\ ProcessesFit'
    BY <2>1 DEF IInv, WorkersFit, StoreFits, ReceiptMeansApplied, ProcessesFit
  <2>3. QED
    BY <1>2, <2>2, ClockKeepsJobs DEF IInv
<1>3. CASE UNCHANGED vars
  BY <1>3 DEF vars, IInv, JobsFit, OneLeasePerProject, WorkersFit, StoreFits,
     ReceiptMeansApplied, ProcessesFit
<1>4. QED
  BY <1>1, <1>2, <1>3 DEF Next

\* IInv holds of every schedule of processes, faults and time.
THEOREM Invariance == Spec => []IInv
BY InitInv, NextInv, PTL DEF Spec

\* The types, for every instance.
THEOREM TypeCorrect == Spec => []TypeOK
<1>1. IInv => TypeOK
  BY DEF IInv, JobsFit, WorkersFit, StoreFits, ProcessesFit, TypeOK
<1>2. QED
  BY <1>1, Invariance, PTL

\* However many processes share a queue and whatever dies, expires or is left
\* behind, a project never has two leased jobs.
THEOREM AlwaysOneLeasePerProject == Spec => []OneLeasePerProject
<1>1. IInv => OneLeasePerProject
  BY DEF IInv
<1>2. QED
  BY <1>1, Invariance, PTL

\* Every job that waits has an attempt left, so that max_attempts holds on
\* the books whatever sends a job back to the queue.
THEOREM PendingCanAlwaysBeClaimed == Spec => []PendingCanBeClaimed
<1>1. IInv => PendingCanBeClaimed
  BY DEF IInv, JobsFit, Fits, PendingCanBeClaimed
<1>2. QED
  BY <1>1, Invariance, PTL

\* No receipt exists before the memories it promises are in the store, also
\* when a thread of a cancelled worker wrote it.
THEOREM ReceiptAlwaysMeansApplied == Spec => []ReceiptMeansApplied
<1>1. IInv => ReceiptMeansApplied
  BY DEF IInv, StoreFits
<1>2. QED
  BY <1>1, Invariance, PTL

-----------------------------------------------------------------------------
(* What a step does to the job files and the receipts, by who makes it.     *)

Scans(p) ==
  /\ jobs' = Scanned(HomeOf[p]) \/ \E t \in Task : ClaimJob(p, t)
  /\ receipts' = receipts

\* The process moves on, or a thread it left behind is through
MovesOn(p) == worker'[p] # worker[p] \/ detached'[p] # detached[p]

\* The holder of a lease writes its file
Writes(p, t) ==
  /\ Owned(p, t) /\ MovesOn(p) /\ receipts' = receipts
  /\ \E j : /\ Fits(j) /\ j.st # "none"
            /\ jobs[t].ext # NoPayload => j.ext # NoPayload
            /\ \/ jobs[t].con # NoPayload => j.con # NoPayload
               \/ FailsAsStale(p, t)
            /\ jobs' = [jobs EXCEPT ![t] = j]

\* The holder of a lease completes its job, and may die over it
Completes(p, t) ==
  /\ Owned(p, t) /\ MovesOn(p) /\ t \in receipts'
  /\ jobs' \in {jobs, [jobs EXCEPT ![t] = NoJob]}
  /\ receipts' = receipts \cup {t} \/ PruneReceipts(t)

Accepts(t) ==
  /\ receipts' = receipts
  /\ \/ t \in receipts /\ jobs' = [jobs EXCEPT ![t] = NoJob]
     \/ t \notin receipts /\ jobs[t].st = "none" /\ jobs' = [jobs EXCEPT ![t] = FreshJob]

Recovers(t) ==
  /\ jobs[t].st = "processing" /\ LeaseIsStale(jobs[t]) /\ receipts' = receipts
  /\ jobs' = [jobs EXCEPT ![t] = RecoverStale(jobs[t])]

FileStep ==
  \/ UNCHANGED <<jobs, receipts>>
  \/ \E p \in Proc : Scans(p) \/ \E t \in Task : Writes(p, t) \/ Completes(p, t)
  \/ \E t \in Task : Accepts(t) \/ Recovers(t) \/ (Clock(t) /\ receipts' = receipts)

\* The operations of a lease holder keep the file and what was extracted, and
\* what was decided unless a decision is stale.
LEMMA HolderWrites ==
  ASSUME JobsFit, NEW p \in Proc, NEW w \in Worker, w.job \in Task,
         w = worker[p] \/ w \in detached[p],
         Owned(p, w.job), MovesOn(p), receipts' = receipts,
         \/ SaveOf(p, w)
         \/ w.pc = "fail" /\ Fail(p, w.job, w.reset)
         \/ Release(p, w.job)
  PROVE  Writes(p, w.job)
<1> DEFINE t == w.job
           j0 == jobs[t]
<1>1. /\ Fits(j0) /\ j0.st = "processing" /\ j0 \in Job
      /\ w.ext \in Payload \cup {NoPayload} /\ w.con \in Payload \cup {NoPayload}
      /\ w.reset \in BOOLEAN
  BY DEF JobsFit, Owned, Worker
<1>2. ASSUME NEW e \in Payload \cup {NoPayload}, NEW c \in Payload \cup {NoPayload},
             Checkpoint(p, t, e, c)
      PROVE  Writes(p, t)
  <2> DEFINE ext == IF e = NoPayload THEN j0.ext ELSE e
             con == IF c = NoPayload THEN j0.con ELSE c
             j == [j0 EXCEPT !.ext = ext, !.con = con, !.expired = FALSE]
  <2>1. /\ ext \in Payload \cup {NoPayload} /\ con \in Payload \cup {NoPayload}
        /\ j0.ext # NoPayload => ext # NoPayload
        /\ j0.con # NoPayload => con # NoPayload
    BY <1>1 DEF Job
  <2>2. jobs' = [jobs EXCEPT ![t] = j]
    BY <1>1, <1>2 DEF Checkpoint, JobsFit, Job
  <2> HIDE DEF ext, con
  <2>3. Fits(j) /\ j.st = "processing" /\ j.ext = ext /\ j.con = con
    BY <1>1, <2>1 DEF Fits, Job
  <2> HIDE DEF j
  <2>4. QED
    BY <2>1, <2>2, <2>3 DEF Writes
<1>3. CASE w.pc = "fail" /\ Fail(p, t, w.reset)
  <2> DEFINE j == FailJob(j0, TRUE, w.reset)
  <2>1. jobs' = [jobs EXCEPT ![t] = j]
    BY <1>3 DEF Fail
  <2>2. Fits(j) /\ j.st # "none"
    BY <1>1, LeaseEnds DEF FailJob, ResetPending, Terminal, Job
  <2>3. j.ext = j0.ext /\ (~w.reset => j.con = j0.con)
    BY <1>1 DEF FailJob, ResetPending, Terminal, Job
  <2>4. w.reset => FailsAsStale(p, t)
    BY <1>3 DEF FailsAsStale
  <2> HIDE DEF j
  <2>5. QED
    BY <2>1, <2>2, <2>3, <2>4 DEF Writes
<1>4. CASE Release(p, t)
  <2> DEFINE j == ReleasedJob(j0)
  <2>1. jobs' = [jobs EXCEPT ![t] = j]
    BY <1>4 DEF Release
  <2>2. Fits(j) /\ j.st = "pending" /\ j.ext = j0.ext /\ j.con = j0.con
    BY <1>1, LeaseEnds DEF ReleasedJob, ResetPending, Job
  <2> HIDE DEF j
  <2>3. QED
    BY <2>1, <2>2 DEF Writes
<1>5. QED
  BY <1>1, <1>2, <1>3, <1>4 DEF SaveOf

\* A thread that is through, and a worker that goes on, has moved.
LEMMA ThreadMoves ==
  ASSUME WorkersFit, NEW p \in Proc, NEW w \in detached[p], Detached(p, w)
  PROVE  MovesOn(p)
BY DEF Detached, MovesOn, WorkersFit

\* A worker whose program counter changes has moved on.
LEMMA WorkerMoves ==
  ASSUME WorkersFit, NEW p \in Proc, NEW v, worker' = [worker EXCEPT ![p] = v],
         v.pc # worker[p].pc
  PROVE  MovesOn(p)
BY DEF MovesOn, WorkersFit

\* Every step of a process does one of a few things to the files.
LEMMA StepsOnFiles ==
  ASSUME IInv, NEW p \in Proc, ProcStep(p)
  PROVE  FileStep
<1> DEFINE w == worker[p]
<1>1. /\ WorkersFit /\ JobsFit /\ w \in Worker /\ worker \in [Proc -> Worker]
      /\ w.pc \notin {"idle", "claim"} => w.job \in Task
      /\ \A v \in detached[p] : /\ v \in Worker
                                /\ v.pc \notin {"idle", "claim"} => v.job \in Task
  BY DEF IInv, WorkersFit, Fit
<1>2. UNCHANGED <<jobs, receipts>> => FileStep
  BY DEF FileStep
<1>3. \A t \in Task : Writes(p, t) \/ Completes(p, t) => FileStep
  BY DEF FileStep
<1>4. CASE Claim(p)
  <2>1. Scans(p)
    BY <1>4 DEF Claim, Scans, ClaimNothing
  <2>2. QED
    BY <2>1 DEF FileStep
<1>5. CASE Save(p)
  <2>1. CASE Owned(p, w.job) /\ SaveOf(p, w) /\ Goto(p, StageOf(w.ext, w.con))
    <3> DEFINE v == [w EXCEPT !.pc = StageOf(w.ext, w.con)]
    <3>1. v.pc \in {"extract", "consolidate", "apply"}
      BY <1>1 DEF StageOf, Worker
    <3>2. w.pc \in {"saveExt", "saveCon"} /\ receipts' = receipts
      BY <1>5 DEF Save, At
    <3>3. worker' = [worker EXCEPT ![p] = v]
      BY <1>1, <2>1 DEF Goto
    <3>4. MovesOn(p)
      BY <1>1, <3>1, <3>2, <3>3, WorkerMoves
    <3>5. Writes(p, w.job)
      BY <1>1, <2>1, <3>2, <3>4, HolderWrites
    <3>6. QED
      BY <1>1, <1>3, <3>2, <3>5
  <2>2. QED
    BY <1>2, <1>5, <2>1 DEF Save
<1>6. NextJob(p).pc \in {"idle", "claim"} /\ Idle.pc = "idle"
  BY DEF NextJob, Idle
<1>7. CASE FailCurrent(p)
  <2>1. CASE Owned(p, w.job) /\ Fail(p, w.job, w.reset) /\ Become(p, NextJob(p))
    <3>1. w.pc = "fail" /\ receipts' = receipts
      BY <1>7 DEF FailCurrent, At
    <3>2. MovesOn(p)
      BY <1>1, <1>6, <2>1, <3>1, WorkerMoves DEF Become
    <3>3. QED
      BY <1>1, <1>3, <2>1, <3>1, <3>2, HolderWrites
  <2>2. QED
    BY <1>2, <1>7, <2>1 DEF FailCurrent
<1>8. CASE ReleaseClaimed(p)
  <2>1. w.pc = "release" /\ receipts' = receipts /\ MovesOn(p)
    BY <1>1, <1>6, <1>8, WorkerMoves DEF ReleaseClaimed, At, Become
  <2>2. CASE Owned(p, w.job)
    BY <1>1, <1>3, <1>8, <2>1, <2>2, HolderWrites DEF ReleaseClaimed
  <2>3. CASE ~Owned(p, w.job)
    BY <1>2, <1>8, <2>3 DEF ReleaseClaimed, Release
  <2>4. QED
    BY <2>2, <2>3
<1>9. ASSUME NEW t, PruneReceipts(t)
      PROVE  t \in receipts'
  BY <1>9 DEF PruneReceipts
<1>10. CASE CompleteJob(p)
  <2>1. CASE Owned(p, w.job) /\ Complete(p, w.job) /\ Become(p, NextJob(p))
    <3>1. w.pc = "complete"
      BY <1>10 DEF CompleteJob, At
    <3>2. MovesOn(p)
      BY <1>1, <1>6, <2>1, <3>1, WorkerMoves DEF Become
    <3>3. Completes(p, w.job)
      BY <1>9, <2>1, <3>2 DEF Complete, Completes
    <3>4. QED
      BY <1>1, <1>3, <3>1, <3>3
  <2>2. QED
    BY <1>2, <1>10, <2>1 DEF CompleteJob
<1>11. CASE CrashInComplete(p)
  <2>1. w.pc = "complete" /\ Owned(p, w.job)
    BY <1>11 DEF CrashInComplete, At
  <2>2. MovesOn(p)
    BY <1>1, <1>6, <1>11, <2>1, WorkerMoves DEF CrashInComplete, Die
  <2>3. Completes(p, w.job)
    BY <1>11, <2>1, <2>2 DEF CrashInComplete, Completes
  <2>4. QED
    BY <1>1, <1>3, <2>1, <2>3
<1>12. ASSUME NEW v \in detached[p], Detached(p, v)
       PROVE  FileStep
  <2>1. MovesOn(p)
    BY <1>1, <1>12, ThreadMoves
  <2>2. CASE v.pc = "claim"
    <3>1. Scans(p)
      BY <1>12, <2>2 DEF Detached, Scans, ClaimNothing
    <3>2. QED
      BY <3>1 DEF FileStep
  <2>3. CASE v.pc \in {"saveExt", "saveCon", "fail", "release"}
    <3>1. v.job \in Task /\ v \in Worker /\ receipts' = receipts
      BY <1>1, <1>12, <2>3 DEF Detached
    <3>2. CASE Owned(p, v.job)
      <4>1. \/ SaveOf(p, v)
            \/ v.pc = "fail" /\ Fail(p, v.job, v.reset)
            \/ Release(p, v.job)
        BY <1>12, <2>3, <3>2 DEF Detached
      <4>2. Writes(p, v.job)
        BY <1>1, <2>1, <3>1, <3>2, <4>1, HolderWrites
      <4>3. QED
        BY <1>3, <3>1, <4>2
    <3>3. CASE ~Owned(p, v.job)
      BY <1>2, <1>12, <2>3, <3>1, <3>3 DEF Detached, Release
    <3>4. QED
      BY <3>2, <3>3
  <2>4. CASE v.pc = "complete"
    <3>1. CASE Owned(p, v.job)
      <4>1. Complete(p, v.job) /\ v.job \in Task
        BY <1>1, <1>12, <2>4, <3>1 DEF Detached
      <4>2. Completes(p, v.job)
        BY <1>9, <2>1, <3>1, <4>1 DEF Complete, Completes
      <4>3. QED
        BY <1>3, <4>1, <4>2
    <3>2. CASE ~Owned(p, v.job)
      BY <1>2, <1>12, <2>4, <3>2 DEF Detached
    <3>3. QED
      BY <3>1, <3>2
  <2>5. CASE v.pc = "apply"
    BY <1>2, <1>12, <2>5 DEF Detached
  <2>6. QED
    BY <1>12, <2>2, <2>3, <2>4, <2>5 DEF Detached
<1>13. ASSUME NEW t \in Task, Enqueue(p, t)
       PROVE  FileStep
  <2>1. receipts' = receipts
    BY <1>13 DEF Enqueue
  <2>2. Accepts(t) \/ jobs' = jobs
    BY <1>13, <2>1 DEF Enqueue, Accepts
  <2>3. QED
    BY <1>2, <2>1, <2>2 DEF FileStep
<1>14. ASSUME NEW t \in Task, Stats(p, t)
       PROVE  FileStep
  <2>1. Recovers(t)
    BY <1>14 DEF Stats, Recovers
  <2>2. QED
    BY <2>1 DEF FileStep
<1>15. CASE \/ Announce(p) \/ Extract(p) \/ Consolidate(p) \/ Apply(p)
            \/ StartWorker(p) \/ Stop(p) \/ Enable(p) \/ LockTimeout(p) \/ Crash(p)
  BY <1>2, <1>15
  DEF Announce, Extract, Consolidate, Apply, StartWorker, Stop, Enable, LockTimeout, Crash
<1>16. QED
  BY <1>4, <1>5, <1>7, <1>8, <1>10, <1>11, <1>12, <1>13, <1>14, <1>15
  DEF ProcStep, WorkerStep

\* So does every step, also of time and of threads left behind.
LEMMA AllStepsOnFiles ==
  ASSUME IInv, [Next]_vars
  PROVE  FileStep
<1>1. \A t \in Task : Clock(t) => FileStep
  BY DEF Clock, LeaseExpires, RetryIsDue, FileStep
<1>2. UNCHANGED vars => FileStep
  BY DEF vars, FileStep
<1>3. QED
  BY <1>1, <1>2, StepsOnFiles DEF Next

\* What a scan makes of one file.
LEMMA ScannedFile ==
  ASSUME JobsFit, NEW pr, NEW t \in Task
  PROVE  \/ Scanned(pr)[t] = jobs[t] /\ (ProjectOf[t] = pr => t \notin receipts \/ jobs[t].st = "none")
         \/ Scanned(pr)[t] = NoJob /\ t \in receipts
         \/ /\ Scanned(pr)[t] = RecoverStale(jobs[t]) /\ t \notin receipts
            /\ ProjectOf[t] = pr /\ jobs[t].st = "processing" /\ LeaseIsStale(jobs[t])
BY DEF Scanned

\* What a claim makes of the files: the claimed one was waiting, or waits again.
LEMMA ClaimedFile ==
  ASSUME JobsFit, NEW p \in Proc, NEW t \in Task, ClaimJob(p, t)
  PROVE  /\ t \notin receipts /\ jobs'[t].st = "processing"
         /\ jobs'[t].ext = Scanned(HomeOf[p])[t].ext
         /\ jobs'[t].con = Scanned(HomeOf[p])[t].con
         /\ Scanned(HomeOf[p])[t].st = "pending" /\ ProjectOf[t] = HomeOf[p]
         /\ \A u \in Task \ {t} : jobs'[u] = Scanned(HomeOf[p])[u]
<1> DEFINE f == Scanned(HomeOf[p])
<1>1. /\ ProjectOf[t] = HomeOf[p] /\ f[t].st = "pending"
      /\ jobs' = [f EXCEPT ![t].st = "processing", ![t].attempts = @ + 1,
                           ![t].owner = p, ![t].expired = FALSE]
  BY DEF ClaimJob, Ready
<1>2. f \in [Task -> Job]
  BY ScanIsQuiet DEF Quiet
<1>3. t \notin receipts
  BY <1>1, ScannedFile, NewJobsFit
<1>4. QED
  BY <1>1, <1>2, <1>3 DEF Job

\* A stale lease ends in the queue or in failure, with both checkpoints.
LEMMA RecoveredFile ==
  ASSUME JobsFit, NEW t \in Task, jobs[t].st = "processing"
  PROVE  /\ RecoverStale(jobs[t]).st \in {"pending", "failed"}
         /\ RecoverStale(jobs[t]).ext = jobs[t].ext
         /\ RecoverStale(jobs[t]).con = jobs[t].con
BY DEF JobsFit, RecoverStale, ResetPending, Terminal, Job

\* A file with both checkpoints of another keeps them.
KeepsBoth(j, k) ==
  /\ j.ext # NoPayload => k.ext # NoPayload
  /\ j.con # NoPayload => k.con # NoPayload

\* Checkpoints are kept: no step of any process drops what was extracted before
\* the file of the job is removed, nor what was decided unless its holder found
\* a decision stale (jobs.checkpoint, _reset_pending, _fail).
THEOREM CheckpointsAlwaysSurvive == Spec => CheckpointsSurvive
<1> DEFINE Keeps == \A t \in Task : jobs'[t].st # "none" =>
                      /\ jobs[t].ext # NoPayload => jobs'[t].ext # NoPayload
                      /\ jobs[t].con # NoPayload /\ jobs'[t].con = NoPayload =>
                           \E p \in Proc : FailsAsStale(p, t)
           Saves(t) == jobs'[t].st # "none" => KeepsBoth(jobs[t], jobs'[t])
<1>1. ASSUME IInv, [Next]_vars
      PROVE  Keeps
  <2>1. JobsFit /\ FileStep /\ \A t \in Task : jobs[t] \in Job /\ Fits(jobs[t])
    BY <1>1, AllStepsOnFiles DEF IInv, JobsFit
  <2> HIDE DEF Saves
  <2>a. (\A t \in Task : Saves(t)) => Keeps
    BY DEF Saves, KeepsBoth
  <2>b. ASSUME NEW t \in Task, jobs'[t] = jobs[t] \/ jobs'[t].st = "none"
        PROVE  Saves(t)
    BY <2>b DEF Saves, KeepsBoth
  <2>2. ASSUME NEW p \in Proc, Scans(p)
        PROVE  Keeps
    <3> DEFINE f == Scanned(HomeOf[p])
    <3>1. \A t \in Task : f[t].st # "none" => KeepsBoth(jobs[t], f[t])
      BY <2>1, ScannedFile, RecoveredFile, NewJobsFit DEF KeepsBoth
    <3>2. ASSUME NEW c \in Task, ClaimJob(p, c), NEW t \in Task
          PROVE  Saves(t)
      BY <2>1, <3>1, <3>2, ClaimedFile DEF Saves, KeepsBoth
    <3>3. ASSUME jobs' = f, NEW t \in Task
          PROVE  Saves(t)
      BY <3>1, <3>3 DEF Saves
    <3>4. QED
      BY <2>2, <2>a, <3>2, <3>3 DEF Scans
  <2>3. ASSUME NEW p \in Proc, NEW c \in Task, Writes(p, c)
        PROVE  Keeps
    <3>1. PICK j : /\ jobs[c].ext # NoPayload => j.ext # NoPayload
                   /\ \/ jobs[c].con # NoPayload => j.con # NoPayload
                      \/ FailsAsStale(p, c)
                   /\ jobs' = [jobs EXCEPT ![c] = j]
      BY <2>3 DEF Writes
    <3>2. jobs'[c] = j /\ \A t \in Task \ {c} : jobs'[t] = jobs[t]
      BY <2>1, <3>1 DEF JobsFit
    <3>3. QED
      BY <3>1, <3>2
  <2>4. ASSUME NEW p \in Proc, NEW c \in Task, Completes(p, c), NEW t \in Task
        PROVE  Saves(t)
    BY <2>1, <2>4, <2>b, NewJobsFit DEF Completes, JobsFit
  <2>5. ASSUME NEW c \in Task, Accepts(c), NEW t \in Task
        PROVE  Saves(t)
    <3>1. CASE jobs[t].st = "none"
      BY <2>1, <3>1 DEF Fits, Saves, KeepsBoth
    <3>2. CASE jobs[t].st # "none"
      BY <2>1, <2>5, <2>b, <3>2, NewJobsFit DEF Accepts, JobsFit
    <3>3. QED
      BY <3>1, <3>2
  <2>6. ASSUME NEW c \in Task, Recovers(c), NEW t \in Task
        PROVE  Saves(t)
    BY <2>1, <2>6, <2>b, RecoveredFile DEF Recovers, JobsFit, Saves, KeepsBoth
  <2>7. ASSUME NEW c \in Task, Clock(c), NEW t \in Task
        PROVE  Saves(t)
    BY <2>1, <2>7 DEF Clock, LeaseExpires, RetryIsDue, JobsFit, Job, Saves, KeepsBoth
  <2>8. (UNCHANGED jobs) => \A t \in Task : Saves(t)
    BY <2>b
  <2>9. QED
    BY <2>1, <2>a, <2>2, <2>3, <2>4, <2>5, <2>6, <2>7, <2>8 DEF FileStep
<1>2. IInv /\ [Next]_vars => [Keeps]_vars
  BY <1>1
<1>3. QED
  BY <1>2, Invariance, PTL DEF Spec, CheckpointsSurvive

\* A lease that is neither expired nor orphaned is touched by its holder alone
\* (jobs._claim, jobs._owned_job).
THEOREM NobodyEverStealsALiveLease == Spec => NobodyStealsALiveLease
<1> DEFINE Respects ==
      \A t \in Task : \A p \in alive :
       /\ Owned(p, t) /\ ~jobs[t].expired
       /\ jobs'[t] # jobs[t] /\ ~jobs'[t].expired
       => \/ worker'[p] # worker[p]
          \/ detached'[p] # detached[p]
          \/ t \in receipts
<1>1. ASSUME IInv, [Next]_vars
      PROVE  Respects
  <2> SUFFICES ASSUME NEW t \in Task, NEW p \in alive,
                      Owned(p, t), ~jobs[t].expired, jobs'[t] # jobs[t],
                      ~jobs'[t].expired, t \notin receipts
               PROVE  MovesOn(p)
    BY DEF MovesOn
  <2>1. /\ JobsFit /\ FileStep /\ p \in Proc /\ jobs[t].st = "processing"
        /\ jobs[t].owner = p /\ ~LeaseIsStale(jobs[t]) /\ jobs[t] \in Job
    BY <1>1, AllStepsOnFiles DEF IInv, ProcessesFit, Owned, LeaseIsStale, JobsFit
  <2>2. ASSUME NEW q \in Proc, Scans(q)
        PROVE  FALSE
    <3>1. Scanned(HomeOf[q])[t] = jobs[t]
      BY <2>1, ScannedFile
    <3>2. ASSUME NEW c \in Task, ClaimJob(q, c)
          PROVE  jobs'[t] = Scanned(HomeOf[q])[t]
      BY <2>1, <3>1, <3>2, ClaimedFile
    <3>3. QED
      BY <2>2, <3>1, <3>2 DEF Scans
  <2>3. ASSUME NEW q \in Proc, NEW u \in Task, Writes(q, u) \/ Completes(q, u)
        PROVE  MovesOn(p)
    <3>1. u = t
      BY <2>1, <2>3 DEF Writes, Completes, JobsFit
    <3>2. q = p
      BY <2>1, <2>3, <3>1 DEF Writes, Completes, Owned
    <3>3. QED
      BY <2>3, <3>2 DEF Writes, Completes
  <2>4. ASSUME NEW u \in Task, Accepts(u) \/ Recovers(u) \/ Clock(u)
        PROVE  FALSE
    <3>1. u = t
      BY <2>1, <2>4 DEF Accepts, Recovers, Clock, LeaseExpires, RetryIsDue, JobsFit
    <3>2. QED
      BY <2>1, <2>4, <3>1 DEF Accepts, Recovers, Clock, LeaseExpires, RetryIsDue, JobsFit, Job
  <2>5. QED
    BY <2>1, <2>2, <2>3, <2>4 DEF FileStep
<1>2. IInv /\ [Next]_vars => [Respects]_vars
  BY <1>1
<1>3. QED
  BY <1>2, Invariance, PTL DEF Spec, NobodyStealsALiveLease

\* Once the receipt is there the job is never claimed again, also when the
\* process died before it could remove the file (jobs._claim).
THEOREM CompletedIsNeverClaimedAgain == Spec => CompletedIsNeverReclaimed
<1> DEFINE Stays == \A t \in receipts : jobs'[t].st = "processing" => jobs[t].st = "processing"
<1>1. ASSUME IInv, [Next]_vars
      PROVE  Stays
  <2>1. /\ JobsFit /\ FileStep /\ receipts \subseteq Task
        /\ \A t \in Task : jobs[t] \in Job
    BY <1>1, AllStepsOnFiles DEF IInv, StoreFits, JobsFit
  <2>2. ASSUME NEW p \in Proc, Scans(p)
        PROVE  Stays
    <3>1. \A t \in Task : Scanned(HomeOf[p])[t].st = "processing" => jobs[t].st = "processing"
      BY <2>1, ScanIsQuiet DEF Quiet
    <3>2. ASSUME NEW c \in Task, ClaimJob(p, c)
          PROVE  Stays
      BY <2>1, <3>1, <3>2, ClaimedFile
    <3>3. QED
      BY <2>1, <2>2, <3>1, <3>2 DEF Scans
  <2>3. ASSUME NEW p \in Proc, NEW t \in Task, Writes(p, t) \/ Completes(p, t)
        PROVE  Stays
    BY <2>1, <2>3, NewJobsFit DEF Writes, Completes, Owned, JobsFit
  <2>4. ASSUME NEW t \in Task, Accepts(t) \/ Recovers(t)
        PROVE  Stays
    BY <2>1, <2>4, NewJobsFit, RecoveredFile DEF Accepts, Recovers, JobsFit
  <2>5. ASSUME NEW t \in Task, Clock(t)
        PROVE  Stays
    BY <2>1, <2>5 DEF Clock, LeaseExpires, RetryIsDue, JobsFit, Job
  <2>6. QED
    BY <2>1, <2>2, <2>3, <2>4, <2>5 DEF FileStep
<1>2. IInv /\ [Next]_vars => [Stays]_vars
  BY <1>1
<1>3. QED
  BY <1>2, Invariance, PTL DEF Spec, CompletedIsNeverReclaimed

-----------------------------------------------------------------------------
(* The queue implements the life of a job, but for the receipts it prunes.  *)

\* What may become of a job in one step
Later == [none |-> {"none", "open"}, open |-> {"open", "completed", "failed"},
          completed |-> {"completed"}, failed |-> {"failed"}]
Becomes(t) == Status(t)' \in Later[Status(t)]
Remains(t) == Status(t)' = Status(t)

LifeStep == [Lifecycle!Next]_([t \in Task |-> Status(t)])

\* A step that moves one job on and leaves the others is a step of its life.
LEMMA OneJobMoves ==
  ASSUME NEW t \in Task, Becomes(t), \A u \in Task \ {t} : Remains(u),
         Status(t) \in DOMAIN Later
  PROVE  LifeStep
<1> DEFINE s == [u \in Task |-> Status(u)]
           s1 == [u \in Task |-> Status(u)']
<1>1. s' = s1 /\ LifeStep = [Lifecycle!Next]_s
  BY DEF LifeStep
<1>2. CASE Remains(t)
  <2>1. \A u \in Task : Status(u)' = Status(u)
    BY <1>2 DEF Remains
  <2>2. s1 = s
    BY <2>1
  <2>3. QED
    BY <1>1, <2>2
<1>3. CASE ~Remains(t)
  <2>1. s1 = [s EXCEPT ![t] = Status(t)'] /\ s[t] = Status(t)
    BY DEF Remains
  <2>2. \/ Status(t) = "none" /\ Status(t)' = "open"
        \/ Status(t) = "open" /\ Status(t)' = "completed"
        \/ Status(t) = "open" /\ Status(t)' = "failed"
    BY <1>3 DEF Becomes, Remains, Later
  <2>3. Lifecycle!Accept(t) \/ Lifecycle!Finish(t) \/ Lifecycle!GiveUp(t)
    BY <2>1, <2>2
       DEF Lifecycle!Accept, Lifecycle!Finish, Lifecycle!GiveUp, Lifecycle!Move
  <2>4. QED
    BY <1>1, <2>3 DEF Lifecycle!Next
<1>4. QED
  BY <1>2, <1>3

\* What a job and its receipt say is one of four.
LEMMA StatusType ==
  ASSUME JobsFit, NEW t \in Task
  PROVE  Status(t) \in {"none", "open", "completed", "failed"}
BY DEF JobsFit, Job, Status

\* A job whose file did not change, or only in what the status does not tell.
LEMMA SameFile ==
  ASSUME NEW t \in Task, receipts' = receipts,
         \/ jobs'[t].st = jobs[t].st
         \/ {jobs'[t].st, jobs[t].st} \subseteq {"pending", "processing"}
         \/ t \in receipts
  PROVE  Remains(t)
BY DEF Remains, Status

\* Every step that prunes no receipt is a step of the life cycle, or none.
LEMMA StepImplements ==
  ASSUME IInv, [Next]_vars, receipts \subseteq receipts'
  PROVE  LifeStep
<1>1. /\ JobsFit /\ OneLeasePerProject /\ FileStep /\ receipts \subseteq receipts'
      /\ \A t \in Task : jobs[t] \in Job /\ Status(t) \in DOMAIN Later
  BY AllStepsOnFiles, StatusType DEF IInv, JobsFit, Later
<1>2. ASSUME NEW t \in Task, Becomes(t), \A u \in Task \ {t} : Remains(u)
      PROVE  LifeStep
  BY <1>1, <1>2, OneJobMoves
<1>3. ASSUME \A u \in Task : Remains(u)
      PROVE  LifeStep
  <2>1. [u \in Task |-> Status(u)'] = [u \in Task |-> Status(u)]
    BY <1>3 DEF Remains
  <2>2. QED
    BY <2>1 DEF LifeStep
<1>4. ASSUME NEW t \in Task, receipts' = receipts,
             \A u \in Task \ {t} : jobs'[u] = jobs[u]
      PROVE  \A u \in Task \ {t} : Remains(u)
  BY <1>4, SameFile
<1>5. ASSUME NEW p \in Proc, Scans(p)
      PROVE  LifeStep
  <2> DEFINE pr == HomeOf[p]
             f == Scanned(pr)
             Stale(t) == /\ f[t] = RecoverStale(jobs[t]) /\ t \notin receipts
                         /\ ProjectOf[t] = pr /\ jobs[t].st = "processing"
  <2>1. receipts' = receipts
    BY <1>5 DEF Scans
  <2>2. ASSUME NEW u \in Task, ~Stale(u)
        PROVE  f[u].st = jobs[u].st \/ u \in receipts
    BY <1>1, <2>2, ScannedFile
  <2>3. ASSUME NEW u \in Task, Stale(u)
        PROVE  f[u].st \in {"pending", "failed"} /\ jobs[u].st = "processing"
               /\ u \notin receipts
    BY <1>1, <2>3, RecoveredFile
  <2>4. ASSUME NEW u \in Task
        PROVE  \/ jobs'[u] = f[u]
               \/ f[u].st = "pending" /\ jobs'[u].st = "processing" /\ u \notin receipts
    BY <1>1, <1>5, ClaimedFile DEF Scans
  <2>5. ASSUME NEW u \in Task, ~Stale(u)
        PROVE  Remains(u)
    BY <2>1, <2>2, <2>4, <2>5, SameFile
  <2>6. ASSUME NEW u \in Task, Stale(u)
        PROVE  Becomes(u)
    BY <2>1, <2>3, <2>4, <2>6 DEF Becomes, Status, Later
  <2>7. ASSUME NEW t \in Task, Stale(t), NEW u \in Task \ {t}
        PROVE  ~Stale(u)
    BY <1>1, <2>7 DEF OneLeasePerProject
  <2> HIDE DEF Stale
  <2>8. QED
    BY <1>2, <1>3, <2>5, <2>6, <2>7
<1>6. ASSUME NEW p \in Proc, NEW t \in Task, Writes(p, t)
      PROVE  LifeStep
  <2>1. receipts' = receipts /\ \A u \in Task \ {t} : jobs'[u] = jobs[u]
    BY <1>1, <1>6 DEF Writes, JobsFit
  <2>2. /\ jobs[t].st = "processing"
        /\ jobs'[t].st \in {"pending", "processing", "failed"}
    BY <1>1, <1>6 DEF Writes, Owned, JobsFit, Fits, Job
  <2>3. Becomes(t)
    BY <2>1, <2>2 DEF Becomes, Status, Later
  <2>4. QED
    BY <1>2, <1>4, <2>1, <2>3
<1>7. ASSUME NEW p \in Proc, NEW t \in Task, Completes(p, t)
      PROVE  LifeStep
  <2>1. /\ receipts' \subseteq receipts \cup {t} /\ t \in receipts'
        /\ \A u \in Task \ {t} : jobs'[u] = jobs[u]
        /\ jobs[t].st = "processing"
    BY <1>1, <1>7 DEF Completes, PruneReceipts, Owned, JobsFit
  <2>2. \A u \in Task \ {t} : Remains(u)
    BY <1>1, <2>1 DEF Remains, Status
  <2>3. Becomes(t)
    BY <2>1 DEF Becomes, Status, Later
  <2>4. QED
    BY <1>2, <2>2, <2>3
<1>8. ASSUME NEW t \in Task, Accepts(t)
      PROVE  LifeStep
  <2>1. receipts' = receipts /\ \A u \in Task \ {t} : jobs'[u] = jobs[u]
    BY <1>1, <1>8 DEF Accepts, JobsFit
  <2>2. Becomes(t)
    <3>1. CASE t \in receipts
      BY <2>1, <3>1 DEF Becomes, Status, Later
    <3>2. CASE t \notin receipts
      <4>1. jobs[t].st = "none" /\ jobs'[t].st = "pending"
        BY <1>1, <1>8, <3>2, NewJobsFit DEF Accepts, JobsFit
      <4>2. QED
        BY <2>1, <3>2, <4>1 DEF Becomes, Status, Later
    <3>3. QED
      BY <3>1, <3>2
  <2>3. QED
    BY <1>2, <1>4, <2>1, <2>2
<1>9. ASSUME NEW t \in Task, Recovers(t)
      PROVE  LifeStep
  <2>1. /\ receipts' = receipts /\ \A u \in Task \ {t} : jobs'[u] = jobs[u]
        /\ jobs[t].st = "processing" /\ jobs'[t].st \in {"pending", "failed"}
    BY <1>1, <1>9, RecoveredFile DEF Recovers, JobsFit
  <2>2. Becomes(t)
    BY <2>1 DEF Becomes, Status, Later
  <2>3. QED
    BY <1>2, <1>4, <2>1, <2>2
<1>10. ASSUME NEW t \in Task, Clock(t), receipts' = receipts
       PROVE  LifeStep
  <2>1. \A u \in Task : jobs'[u].st = jobs[u].st
    BY <1>1, <1>10 DEF Clock, LeaseExpires, RetryIsDue, JobsFit, Job
  <2>2. QED
    BY <1>3, <1>10, <2>1, SameFile
<1>11. CASE UNCHANGED <<jobs, receipts>>
  BY <1>3, <1>11, SameFile
<1>12. QED
  BY <1>1, <1>5, <1>6, <1>7, <1>8, <1>9, <1>10, <1>11 DEF FileStep

\* A job is completed, receipt_limit receipts are left, and nothing else moves
\* but the completed jobs whose receipts went.
PruningStep ==
  /\ Cardinality(receipts') = ReceiptLimit
  /\ \E t \in Task :
       /\ Becomes(t) /\ Status(t)' = "completed"
       /\ \A u \in Task \ {t} : Remains(u) \/ u \in receipts \ receipts'

\* Only a completion prunes.
LEMMA PrunesAtTheLimit ==
  ASSUME IInv, FileStep, ~(receipts \subseteq receipts')
  PROVE  PruningStep
<1>1. PICK p \in Proc, t \in Task : Completes(p, t) /\ PruneReceipts(t)
  BY DEF FileStep, Scans, Completes, Writes, Accepts, Recovers
<1>2. /\ t \in receipts' /\ receipts' \subseteq receipts \cup {t}
      /\ Cardinality(receipts') = ReceiptLimit
  BY <1>1 DEF PruneReceipts
<1>3. jobs[t].st = "processing" /\ \A u \in Task \ {t} : jobs'[u] = jobs[u]
  BY <1>1 DEF Completes, Owned, IInv, JobsFit
<1>4. Becomes(t) /\ Status(t)' = "completed"
  BY <1>2, <1>3 DEF Becomes, Status, Later
<1>5. \A u \in Task \ {t} : Remains(u) \/ u \in receipts \ receipts'
  BY <1>2, <1>3 DEF Remains, Status
<1>6. QED
  BY <1>2, <1>4, <1>5 DEF PruningStep

\* A job is accepted once and settled once.  Whatever processes, threads, leases
\* and crashes do, for any number of tasks and any receipt_limit, a step of the
\* queue is a step of the life of one job; when it prunes receipts besides, it
\* is the completion of a job at the limit, and the queue forgets nothing but
\* completed jobs (jobs.enqueue, _claim, _complete, _fail).
LivesUnlessPruned ==
  /\ Lifecycle!Init
  /\ [][IF receipts \subseteq receipts' THEN LifeStep ELSE PruningStep]_vars

THEOREM QueueImplementsLifecycle == Spec => LivesUnlessPruned
<1> DEFINE Step == IF receipts \subseteq receipts' THEN LifeStep ELSE PruningStep
<1>1. Init => Lifecycle!Init
  <2>1. ASSUME Init, NEW t \in Task
        PROVE  Status(t) = "none"
    BY <2>1, NewJobsFit DEF Init, Status
  <2>2. QED
    BY <2>1 DEF Lifecycle!Init
<1>2. IInv /\ [Next]_vars => [Step]_vars
  BY StepImplements, AllStepsOnFiles, PrunesAtTheLimit
<1>3. QED
  BY <1>1, <1>2, Invariance, PTL DEF Spec, LivesUnlessPruned
=============================================================================
