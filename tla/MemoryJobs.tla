----------------------------- MODULE MemoryJobs -----------------------------
(***************************************************************************)
(* The durable queue of memory-extraction jobs and the workers that drain  *)
(* it: memory/jobs.py (FileMemoryJobQueue) and the worker half of          *)
(* memory/service.py (MemoryService.process_pending, _process_job).        *)
(*                                                                         *)
(* Every session owns one MemoryService, hence one owner id and at most    *)
(* one worker task; `Proc` stands for a process with its session.  A queue *)
(* operation runs in a thread under a per-user cross-process lock, so it   *)
(* is one atomic step; what interleaves is everything between two          *)
(* operations.  Cancelling the worker task does not stop a thread that     *)
(* already runs: the thread stays behind in `detached` and takes its turn  *)
(* at the lock later.  A process that dies takes its worker and its        *)
(* threads with it; its job files and receipts remain.                     *)
(***************************************************************************)
EXTENDS Naturals, FiniteSets

CONSTANTS
  Task,          \* completed tasks, ordered by ended_at
  Proc,          \* process incarnations; a dead one never returns
  Project,       \* the projects (MemoryIdentity) of one user
  ProjectOf,     \* the project a task was run in
  HomeOf,        \* the project a process works in
  Payload,       \* what a model pass may return (extraction, decisions)
  Candidates,    \* how many extracted memories a job has
  MaxAttempts,   \* max_attempts
  BatchSize,     \* max_jobs of one process_pending call
  ReceiptLimit,  \* receipt_limit
  MaxFaults,     \* bound: stops, lock timeouts and failures injected
  NoProc, NoPayload, NoTask

ASSUME TaskAssumption == Task \subseteq Nat
ASSUME PlaceAssumption == /\ ProjectOf \in [Task -> Project]
                          /\ HomeOf \in [Proc -> Project]
ASSUME NumberAssumption == /\ Candidates \in Nat \ {0}
                           /\ MaxAttempts \in Nat \ {0}
                           /\ BatchSize \in Nat \ {0}
                           /\ ReceiptLimit \in Nat \ {0}
                           /\ MaxFaults \in Nat
ASSUME NoneAssumption == NoProc \notin Proc /\ NoPayload \notin Payload
                         /\ NoTask \notin Task

VARIABLES
  jobs,      \* job files: Task -> job record (st = "none": no file)
  receipts,  \* tasks whose completion receipt is on disk
  applied,   \* memory-store operations applied, by source hash
  alive,     \* processes that run
  enabled,   \* processes whose memory service is switched on
  worker,    \* Proc -> the worker task's local state
  detached,  \* Proc -> threads whose awaiting task was cancelled
  faults     \* faults injected so far

vars == <<jobs, receipts, applied, alive, enabled, worker, detached, faults>>

-----------------------------------------------------------------------------
(* Job files.  The stage field is not kept: _process_job resumes from the  *)
(* payloads that are present.  `expired` is "lease_expires_at <= now",     *)
(* `delayed` is "next_attempt_at > now".                                   *)

Job == [st : {"none", "pending", "processing", "failed"},
        attempts : 0..MaxAttempts,
        owner : Proc \cup {NoProc},
        expired : BOOLEAN,
        delayed : BOOLEAN,
        ext : Payload \cup {NoPayload},
        con : Payload \cup {NoPayload}]

NoJob == [st |-> "none", attempts |-> 0, owner |-> NoProc, expired |-> FALSE,
          delayed |-> FALSE, ext |-> NoPayload, con |-> NoPayload]

FreshJob == [NoJob EXCEPT !.st = "pending"]

\* Mutant: requeueing forgets what was decided
ResetPendingFresh(j) == [j EXCEPT !.st = "pending", !.owner = NoProc,
                                  !.expired = FALSE, !.con = NoPayload]

\* _reset_pending; next_attempt_at is already None in a processing job
ResetPending(j) == [j EXCEPT !.st = "pending", !.owner = NoProc,
                             !.expired = FALSE]

\* Mutant: a job without attempts left is deleted
TerminalDeleted(j) == NoJob

Terminal(j) == [j EXCEPT !.st = "failed", !.owner = NoProc,
                         !.expired = FALSE, !.delayed = FALSE]

LeaseIsStale(j) == j.owner \notin alive \/ j.expired

RecoverStale(j) ==
  IF j.attempts >= MaxAttempts THEN Terminal(j) ELSE ResetPending(j)

\* The files of project pr after the first loop of _claim
Scanned(pr) ==
  [t \in Task |->
     IF ProjectOf[t] # pr \/ jobs[t].st = "none" THEN jobs[t]
     ELSE IF t \in receipts THEN NoJob
     ELSE IF jobs[t].st = "processing" /\ LeaseIsStale(jobs[t])
          THEN RecoverStale(jobs[t])
          ELSE jobs[t]]

Owned(p, t) == jobs[t].st = "processing" /\ jobs[t].owner = p

-----------------------------------------------------------------------------
(* Effects of the queue operations on the files, run by process p.         *)

\* Mutant: a valid lease does not hold back the other jobs
ReadyBesideLease(pr) ==
  LET file == Scanned(pr) IN
  {t \in Task : ProjectOf[t] = pr /\ file[t].st = "pending" /\ ~file[t].delayed}

\* The scanned jobs of pr that may be claimed now: none while a lease is held
Ready(pr) ==
  LET file == Scanned(pr) IN
  IF \E t \in Task : ProjectOf[t] = pr /\ file[t].st = "processing"
  THEN {}
  ELSE {t \in Task : /\ ProjectOf[t] = pr
                     /\ file[t].st = "pending"
                     /\ ~file[t].delayed}

ClaimJob(p, t) ==
  /\ t \in Ready(HomeOf[p])
  /\ \A u \in Ready(HomeOf[p]) : t <= u
  /\ jobs' = [Scanned(HomeOf[p]) EXCEPT
                ![t].st = "processing", ![t].attempts = @ + 1,
                ![t].owner = p, ![t].expired = FALSE]

ClaimNothing(p) ==
  /\ Ready(HomeOf[p]) = {}
  /\ jobs' = Scanned(HomeOf[p])

Checkpoint(p, t, e, c) ==
  jobs' = [jobs EXCEPT
             ![t].ext = IF e = NoPayload THEN @ ELSE e,
             ![t].con = IF c = NoPayload THEN @ ELSE c,
             ![t].expired = FALSE]

\* Which of the older receipts goes first depends on file times: any may
PruneReceipts(t) ==
  LET all == receipts \cup {t} IN
  IF Cardinality(all) <= ReceiptLimit THEN receipts' = all
  ELSE \E keep \in SUBSET all : /\ t \in keep
                                /\ Cardinality(keep) = ReceiptLimit
                                /\ receipts' = keep

Complete(p, t) ==
  /\ jobs' = [jobs EXCEPT ![t] = NoJob]
  /\ PruneReceipts(t)

FailJob(j, retryable, reset) ==
  LET r == [j EXCEPT !.con = IF reset THEN NoPayload ELSE @] IN
  IF retryable /\ j.attempts < MaxAttempts
  THEN [ResetPending(r) EXCEPT !.delayed = TRUE]
  ELSE Terminal(r)

\* The service always fails a job as retryable
Fail(p, t, reset) == jobs' = [jobs EXCEPT ![t] = FailJob(@, TRUE, reset)]

\* A release gives the attempt back
ReleasedJob(j) ==
  [ResetPending(j) EXCEPT !.attempts = IF j.attempts = 0 THEN 0 ELSE @ - 1]

Release(p, t) ==
  jobs' = IF Owned(p, t) THEN [jobs EXCEPT ![t] = ReleasedJob(@)] ELSE jobs

-----------------------------------------------------------------------------
(* The worker task.  pc names what it awaits: a queue operation (claim,     *)
(* saveExt, saveCon, complete, fail, release), a model pass (extract,       *)
(* consolidate), a memory-store write (apply) or the statistics it          *)
(* publishes right after a claim (announce).  `stop` is a cancellation the  *)
(* task has absorbed behind a shield.                                       *)

QueueOps == {"claim", "saveExt", "saveCon", "complete", "fail", "release"}
ThreadOps == QueueOps \cup {"apply"}

Worker == [pc : ThreadOps \cup {"idle", "announce", "extract", "consolidate"},
           job : Task \cup {NoTask},
           ext : Payload \cup {NoPayload},
           con : Payload \cup {NoPayload},
           next : 1..Candidates,
           left : 0..BatchSize,
           stop : BOOLEAN,
           reset : BOOLEAN]

Idle == [pc |-> "idle", job |-> NoTask, ext |-> NoPayload, con |-> NoPayload,
         next |-> 1, left |-> 0, stop |-> FALSE, reset |-> FALSE]

Become(p, w) == worker' = [worker EXCEPT ![p] = w]
Goto(p, pc) == worker' = [worker EXCEPT ![p].pc = pc]
At(p, pc) == p \in alive /\ worker[p].pc = pc

\* The while condition of process_pending
NextJob(p) ==
  IF worker[p].left = 0 \/ p \notin enabled
  THEN Idle
  ELSE [Idle EXCEPT !.pc = "claim", !.left = worker[p].left]

\* An exception in _process_job is handed to queue.fail
Raise(p, reset) ==
  worker' = [worker EXCEPT ![p].pc = "fail", ![p].reset = reset]

\* Mutant: a job with both checkpoints counts as applied
StageOfSaved(ext, con) ==
  CASE ext = NoPayload -> "extract"
    [] ext # NoPayload /\ con = NoPayload -> "consolidate"
    [] ext # NoPayload /\ con # NoPayload -> "complete"

\* Where _process_job goes next, by the checkpoints it holds
StageOf(ext, con) ==
  CASE ext = NoPayload -> "extract"
    [] ext # NoPayload /\ con = NoPayload -> "consolidate"
    [] ext # NoPayload /\ con # NoPayload -> "apply"

Init ==
  /\ jobs = [t \in Task |-> NoJob]
  /\ receipts = {}
  /\ applied = {}
  /\ alive = Proc
  /\ enabled = Proc
  /\ worker = [p \in Proc |-> Idle]
  /\ detached = [p \in Proc |-> {}]
  /\ faults = 0

-----------------------------------------------------------------------------
(* after_task, _start_worker and the statistics read by every caller.       *)

Enqueue(p, t) ==
  /\ p \in alive /\ p \in enabled
  /\ HomeOf[p] = ProjectOf[t]
  /\ jobs' = IF t \in receipts THEN [jobs EXCEPT ![t] = NoJob]
             ELSE IF jobs[t].st = "none" THEN [jobs EXCEPT ![t] = FreshJob]
             ELSE jobs
  /\ UNCHANGED <<receipts, applied, alive, enabled, worker, detached, faults>>

StartWorker(p) ==
  /\ At(p, "idle") /\ p \in enabled
  /\ Become(p, [Idle EXCEPT !.pc = "claim", !.left = BatchSize])
  /\ UNCHANGED <<jobs, receipts, applied, alive, enabled, detached, faults>>

\* _stats rewrites a stale job without looking at its receipt.  One file at a
\* time: this also covers a process that dies half way through a scan.
Stats(p, t) ==
  /\ p \in alive /\ HomeOf[p] = ProjectOf[t]
  /\ jobs[t].st = "processing" /\ LeaseIsStale(jobs[t])
  /\ jobs' = [jobs EXCEPT ![t] = RecoverStale(@)]
  /\ UNCHANGED <<receipts, applied, alive, enabled, worker, detached, faults>>

-----------------------------------------------------------------------------
(* process_pending and _process_job, one action per await.                  *)

Claim(p) ==
  /\ At(p, "claim")
  /\ \/ /\ ClaimNothing(p)
        /\ Become(p, Idle)
     \/ \E t \in Task :
          /\ ClaimJob(p, t)
          /\ Become(p, [Idle EXCEPT
                          !.pc = IF worker[p].stop THEN "release" ELSE "announce",
                          !.job = t, !.ext = jobs[t].ext, !.con = jobs[t].con,
                          !.left = worker[p].left - 1])
  /\ UNCHANGED <<receipts, applied, alive, enabled, detached, faults>>

Announce(p) ==
  /\ At(p, "announce")
  /\ Goto(p, StageOf(worker[p].ext, worker[p].con))
  /\ UNCHANGED <<jobs, receipts, applied, alive, enabled, detached, faults>>

Extract(p) ==
  /\ At(p, "extract")
  /\ \/ \E e \in Payload : worker' = [worker EXCEPT ![p].pc = "saveExt", ![p].ext = e]
     \/ Raise(p, FALSE)
  /\ UNCHANGED <<jobs, receipts, applied, alive, enabled, detached, faults>>

Consolidate(p) ==
  /\ At(p, "consolidate")
  /\ \/ \E c \in Payload : worker' = [worker EXCEPT ![p].pc = "saveCon", ![p].con = c]
     \/ Raise(p, FALSE)
  /\ UNCHANGED <<jobs, receipts, applied, alive, enabled, detached, faults>>

\* Each checkpoint writes the payload its pass produced, and only that one
SaveOf(p, w) ==
  IF w.pc = "saveExt" THEN Checkpoint(p, w.job, w.ext, NoPayload)
                      ELSE Checkpoint(p, w.job, NoPayload, w.con)

Save(p) ==
  LET w == worker[p] IN
  /\ At(p, "saveExt") \/ At(p, "saveCon")
  /\ \/ /\ Owned(p, w.job)
        /\ SaveOf(p, w)
        /\ Goto(p, StageOf(w.ext, w.con))
     \/ /\ ~Owned(p, w.job)                 \* "memory job lease was lost"
        /\ Raise(p, FALSE) /\ UNCHANGED jobs
  /\ UNCHANGED <<receipts, applied, alive, enabled, detached, faults>>

\* What store.apply leaves behind: its source hash, once
Applying(w) == <<w.job, w.ext, w.con, w.next>>

Apply(p) ==
  LET w == worker[p] IN
  /\ At(p, "apply")
  /\ \/ /\ applied' = applied \cup {Applying(w)}
        /\ worker' = [worker EXCEPT
                        ![p].pc = IF w.next = Candidates THEN "complete" ELSE "apply",
                        ![p].next = IF w.next = Candidates THEN @ ELSE @ + 1]
     \/ /\ Raise(p, TRUE) /\ UNCHANGED applied   \* the decision's target changed
  /\ UNCHANGED <<jobs, receipts, alive, enabled, detached, faults>>

CompleteJob(p) ==
  LET w == worker[p] IN
  /\ At(p, "complete")
  /\ \/ /\ Owned(p, w.job)
        /\ Complete(p, w.job)
        /\ Become(p, NextJob(p))
     \/ /\ ~Owned(p, w.job)
        /\ Raise(p, FALSE) /\ UNCHANGED <<jobs, receipts>>
  /\ UNCHANGED <<applied, alive, enabled, detached, faults>>

\* A lost lease makes queue.fail raise too: the worker task ends with it
FailCurrent(p) ==
  LET w == worker[p] IN
  /\ At(p, "fail")
  /\ \/ /\ Owned(p, w.job)
        /\ Fail(p, w.job, w.reset)
        /\ Become(p, NextJob(p))
     \/ /\ ~Owned(p, w.job)
        /\ Become(p, Idle) /\ UNCHANGED jobs
  /\ UNCHANGED <<receipts, applied, alive, enabled, detached, faults>>

ReleaseClaimed(p) ==
  /\ At(p, "release")
  /\ Release(p, worker[p].job)
  /\ Become(p, Idle)
  /\ UNCHANGED <<receipts, applied, alive, enabled, detached, faults>>

-----------------------------------------------------------------------------
(* Cancellation: request_stop when the user switches memory or automatic    *)
(* extraction off, close, and the cancellation of a prompt that drains.     *)

\* The awaited thread runs on, unless the pool had not started it yet
LeaveThread(p) ==
  \/ detached' = [detached EXCEPT ![p] = @ \cup {worker[p]}]
  \/ UNCHANGED detached

ToRelease(p) == Become(p, [Idle EXCEPT !.pc = "release", !.job = worker[p].job])

CancelWorker(p) ==
  LET w == worker[p] IN
  \/ /\ w.pc = "idle"
     /\ UNCHANGED <<worker, detached>>
  \/ /\ w.pc \in {"claim", "release"} /\ ~w.stop      \* shielded once
     /\ worker' = [worker EXCEPT ![p].stop = TRUE]
     /\ UNCHANGED detached
  \/ /\ w.pc \in {"claim", "release"} /\ w.stop       \* not twice
     /\ Become(p, Idle)
     /\ LeaveThread(p)
  \/ /\ w.pc = "announce"             \* outside the try that releases
     /\ Become(p, Idle)
     /\ UNCHANGED detached
  \/ /\ w.pc \in {"extract", "consolidate"}
     /\ ToRelease(p)
     /\ UNCHANGED detached
  \/ /\ w.pc \in {"saveExt", "saveCon", "apply", "complete"}
     /\ ToRelease(p)
     /\ LeaveThread(p)
  \/ /\ w.pc = "fail"                 \* inside the handler: not released
     /\ Become(p, Idle)
     /\ LeaveThread(p)

\* Switching off cancels the worker task, but not a drain of before_task, which
\* ends at its next loop test; that drain is cancelled with its prompt, and a
\* closing session cancels its worker without switching anything off
Stop(p) ==
  /\ p \in alive /\ faults < MaxFaults
  /\ faults' = faults + 1
  /\ \/ enabled' = enabled \ {p} /\ CancelWorker(p)
     \/ enabled' = enabled \ {p} /\ UNCHANGED <<worker, detached>>
     \/ UNCHANGED enabled /\ CancelWorker(p)
  /\ UNCHANGED <<jobs, receipts, applied, alive>>

Enable(p) ==
  /\ p \in alive \ enabled
  /\ enabled' = enabled \cup {p}
  /\ UNCHANGED <<jobs, receipts, applied, alive, worker, detached, faults>>

\* A thread nobody awaits any more gets the lock
Detached(p, w) ==
  /\ p \in alive /\ w \in detached[p]
  /\ detached' = [detached EXCEPT ![p] = @ \ {w}]
  /\ \/ /\ w.pc = "claim"
        /\ ClaimNothing(p) \/ \E t \in Task : ClaimJob(p, t)
        /\ UNCHANGED <<receipts, applied>>
     \/ /\ w.pc \in {"saveExt", "saveCon"}
        /\ IF Owned(p, w.job) THEN SaveOf(p, w) ELSE UNCHANGED jobs
        /\ UNCHANGED <<receipts, applied>>
     \/ /\ w.pc = "apply"
        /\ applied' = applied \cup {Applying(w)}
        /\ UNCHANGED <<jobs, receipts>>
     \/ /\ w.pc = "complete"
        /\ IF Owned(p, w.job) THEN Complete(p, w.job)
                              ELSE UNCHANGED <<jobs, receipts>>
        /\ UNCHANGED applied
     \/ /\ w.pc = "fail"
        /\ IF Owned(p, w.job) THEN Fail(p, w.job, w.reset) ELSE UNCHANGED jobs
        /\ UNCHANGED <<receipts, applied>>
     \/ /\ w.pc = "release"
        /\ Release(p, w.job)
        /\ UNCHANGED <<receipts, applied>>
  /\ UNCHANGED <<alive, enabled, worker, faults>>

-----------------------------------------------------------------------------
(* Lock timeouts, the death of a process, and time.                         *)

\* _CrossProcessLock gives up: a claim, failure or release ends the worker,
\* an operation inside _process_job is handed to queue.fail
LockTimeout(p) ==
  /\ p \in alive /\ faults < MaxFaults
  /\ faults' = faults + 1
  /\ \/ /\ worker[p].pc \in {"claim", "fail", "release"}
        /\ Become(p, Idle)
     \/ /\ worker[p].pc \in {"saveExt", "saveCon", "apply", "complete"}
        /\ Raise(p, FALSE)
  /\ UNCHANGED <<jobs, receipts, applied, alive, enabled, detached>>

Die(p) ==
  /\ alive' = alive \ {p}
  /\ worker' = [worker EXCEPT ![p] = Idle]
  /\ detached' = [detached EXCEPT ![p] = {}]
  /\ UNCHANGED <<applied, enabled, faults>>

Crash(p) ==
  /\ p \in alive
  /\ Die(p)
  /\ UNCHANGED <<jobs, receipts>>

\* _complete has written the receipt and not yet removed the job file, or has
\* not yet pruned the receipts
CrashInComplete(p) ==
  /\ At(p, "complete") /\ Owned(p, worker[p].job)
  /\ receipts' = receipts \cup {worker[p].job}
  /\ jobs' \in {jobs, [jobs EXCEPT ![worker[p].job] = NoJob]}
  /\ Die(p)

LeaseExpires(t) ==
  /\ jobs[t].st = "processing" /\ ~jobs[t].expired
  /\ jobs' = [jobs EXCEPT ![t].expired = TRUE]
  /\ UNCHANGED <<receipts, applied, alive, enabled, worker, detached, faults>>

RetryIsDue(t) ==
  /\ jobs[t].st = "pending" /\ jobs[t].delayed
  /\ jobs' = [jobs EXCEPT ![t].delayed = FALSE]
  /\ UNCHANGED <<receipts, applied, alive, enabled, worker, detached, faults>>

WorkerStep(p) ==
  \/ Claim(p) \/ Announce(p) \/ Extract(p) \/ Consolidate(p) \/ Save(p)
  \/ Apply(p) \/ CompleteJob(p) \/ FailCurrent(p) \/ ReleaseClaimed(p)

ProcStep(p) ==
  \/ WorkerStep(p)
  \/ StartWorker(p)
  \/ Stop(p) \/ Enable(p)
  \/ \E w \in detached[p] : Detached(p, w)
  \/ LockTimeout(p) \/ Crash(p) \/ CrashInComplete(p)
  \/ \E t \in Task : Enqueue(p, t) \/ Stats(p, t)

Clock(t) == LeaseExpires(t) \/ RetryIsDue(t)

Next == (\E p \in Proc : ProcStep(p)) \/ (\E t \in Task : Clock(t))

Spec == Init /\ [][Next]_vars

\* Model passes return, threads get the lock, time passes, and users keep
\* starting tasks: before_task drains the queue, after_task starts the worker.
\* Nobody has to switch memory back on, and no process has to die.
Fairness ==
  /\ \A p \in Proc : /\ WF_vars(WorkerStep(p))
                     /\ WF_vars(StartWorker(p))
                     /\ WF_vars(\E w \in detached[p] : Detached(p, w))
  /\ \A t \in Task : WF_vars(Clock(t))

FairSpec == Spec /\ Fairness

-----------------------------------------------------------------------------
(* Properties.                                                              *)

\* Types, and the bounds that name them.
TypeOK ==
  /\ jobs \in [Task -> Job]
  /\ receipts \subseteq Task
  /\ applied \subseteq (Task \X Payload \X Payload \X (1..Candidates))
  /\ alive \subseteq Proc /\ enabled \subseteq Proc
  /\ worker \in [Proc -> Worker]
  /\ detached \in [Proc -> SUBSET Worker]
  /\ faults \in 0..MaxFaults

\* "Preserve per-identity ordering: a second worker may not claim a later job
\* while an earlier lease is still valid": whatever dies, expires or is left
\* behind in a cancelled thread, a project never has two leased jobs.
OneLeasePerProject ==
  \A t, u \in Task :
    /\ jobs[t].st = "processing" /\ jobs[u].st = "processing"
    /\ ProjectOf[t] = ProjectOf[u]
    => t = u

\* Every way back to the queue (a failed pass, a stale lease, a release after
\* cancellation) leaves an attempt for the claim that follows, so no schedule
\* runs a job more than max_attempts times on the books.
PendingCanBeClaimed ==
  \A t \in Task : /\ jobs[t].st = "pending" => jobs[t].attempts < MaxAttempts
                  /\ jobs[t].st = "processing" => jobs[t].attempts > 0

\* A completion receipt is the durable promise that the job's memories are in
\* the store: it never exists before every decision of one consolidation of
\* the job was applied, also when a thread of a cancelled worker wrote it.
ReceiptMeansApplied ==
  \A t \in receipts :
    \E e, c \in Payload : \A i \in 1..Candidates : <<t, e, c, i>> \in applied

\* A lease that is neither expired nor orphaned is touched only by the process
\* that holds it, by its worker or one of its detached threads.
NobodyStealsALiveLease ==
  [][\A t \in Task : \A p \in alive :
       /\ Owned(p, t) /\ ~jobs[t].expired
       /\ jobs'[t] # jobs[t] /\ ~jobs'[t].expired
       => \/ worker'[p] # worker[p]
          \/ detached'[p] # detached[p]
          \/ t \in receipts]_vars

\* Once the receipt is written the job is never claimed again, even when the
\* process died before it could remove the job file.
CompletedIsNeverReclaimed ==
  [][\A t \in receipts : jobs'[t].st = "processing" => jobs[t].st = "processing"]_vars

\* The receipt directory is shared by all projects of a user: every completion
\* leaves at most receipt_limit receipts, its own among them, also after a
\* crash that left more.
CompletionPrunes ==
  [][\A t \in receipts' \ receipts :
       alive' = alive => Cardinality(receipts') <= ReceiptLimit]_vars

\* The holder of a job, or a thread it left behind, fails it because a decision
\* no longer fits the record it was made about
FailsAsStale(p, t) ==
  /\ Owned(p, t)
  /\ \E w \in {worker[p]} \cup detached[p] : w.pc = "fail" /\ w.job = t /\ w.reset

\* Checkpoints are kept: as long as a job has its file, no release, retry,
\* recovery or late thread drops what was extracted for it, and what was decided
\* about it is dropped only when its holder found a decision stale.
CheckpointsSurvive ==
  [][\A t \in Task : jobs'[t].st # "none" =>
       /\ jobs[t].ext # NoPayload => jobs'[t].ext # NoPayload
       /\ jobs[t].con # NoPayload /\ jobs'[t].con = NoPayload =>
            \E p \in Proc : FailsAsStale(p, t)]_vars

\* With time passing, every queued job is settled: completed, or failed after
\* max_attempts, unless no process of its project runs with memory switched on.
EveryJobSettles ==
  \A t \in Task :
    jobs[t].st \in {"pending", "processing"} ~>
      \/ jobs[t].st \in {"none", "failed"}
      \/ \A p \in alive \cap enabled : HomeOf[p] # ProjectOf[t]

\* What test_disabling_auto_extract_releases_running_job asserts: switching
\* automatic extraction off leaves no job of this process in "processing".
StoppedWorkerHoldsNoLease ==
  \A p \in alive \ enabled :
    worker[p].pc = "idle" /\ detached[p] = {} => \A t \in Task : ~Owned(p, t)

\* Enqueue(t) is repeated by callers; the abstract status of a task's job
Status(t) == IF t \in receipts THEN "completed"
             ELSE IF jobs[t].st \in {"pending", "processing"} THEN "open"
             ELSE jobs[t].st

Lifecycle == INSTANCE JobLifecycle WITH status <- [t \in Task |-> Status(t)]

\* The queue implements the life of a job: accepted once, settled once.
ImplementsLifecycle == Lifecycle!Spec
=============================================================================
