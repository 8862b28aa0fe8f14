# TLA+ models of the coding agent

This directory holds TLA+ models of the parts of the coding agent whose
correctness depends on the order of things: TLC configurations that check them
on small instances, and TLAPS proofs of what matters most for every instance.
Paths below are relative to the repository root; `app`, `core`, `llm`, `tui`
and `desktop` stand for `packages/app/src/coding_agent`,
`packages/core/src/agent_core`, `packages/llm/src/agent_llm`,
`packages/tui/src/agent_tui` and `apps/desktop/src`.

To reproduce, in this directory: `tlc -workers 2 -config PlanMode.cfg
MCPlanMode.tla` (any run of `PROJECT.json`), `tlapm AgentLoopProofs.tla` (any
module of proofs).
`PROJECT.json` maps every definition to the lines it models, lists the hazards
line by line with the properties that cover them, and names for every property
a plausible wrong version of the code that violates it.

## 1. Inventory

| component | state | operations | hard behaviour |
|---|---|---|---|
| Memory job queue, `app/memory/jobs.py` | one JSON file per job, one receipt per completed job, all of a user under one directory and one cross-process lock | enqueue, claim, checkpoint, complete, fail, release, stats | several processes, leases that expire, process death between two file operations, threads that outlive the task that awaited them, receipts shared between projects and pruned |
| Memory worker, `app/memory/service.py` | one worker task per session, its claimed job and checkpoints | start, drain, cancel, close | cancellation at every await, lost leases, lock timeouts |
| Memory store, `app/memory/store.py`, `conflicts.py`, `consolidator.py` | event log, snapshot, conflict groups, applied hashes | apply, resolve, remember, forget, clear | torn writes, replay against snapshot, decisions about records that moved, at-least-once jobs |
| Plan State reducer, `app/core/plan_mode.py` | none: a fold over a session branch | `reduce_plan_state` | any file content: crashes, other versions, edits |
| Plan Mode, `app/core/agent_session.py` | the cached Plan State, the live run id, the question future, processing flag | enter, cancel, answer, submit, execute, hand off, abort, new session | host controls between any two awaits of a run, failed appends, crashes |
| Agent loop, `core/agent_loop.py`, `agent.py`, `app/core/retry.py` | transcript, queues, abort signal, attempts | prompt, steer, follow up, abort, tool batches, retry | parallel tools, steering and abort during tools, cancellation absorbed by tools, backoff, swallowed persistence failures |
| Provider streams, `llm/api/*`, `llm/event_stream.py`, `llm/models.py` | message under construction, event queues, producer tasks | push, end, iterate, close | interleaved fragments, texts that come twice, failure or cancellation between any two of producer, driver and reader |
| Session store, `core/session/*` | an append-only JSONL tree, a write buffer, a leaf pointer | append, flush, branch, reopen, upgrade | buffering until the first reply, partial writes, torn lines |
| Compaction, `core/compaction_orchestrator.py` | summary in flight | compact, check | a branch that changes during a summary, abort, cuts between call and result |
| Subagents, `app/core/subagents.py` | live tasks, recorded snapshots | spawn, wait, cancel, reconcile | ownership by branch, restart, cancel before start |
| Desktop host, `app/desktop/runtime.py`, `__main__.py` | open session, run, approvals, archive flags | RPC requests | requests handled aside while others hold the lock, graceful and hard stops |
| Side conversations, `app/desktop/side_conversations.py` | conversations and their files | open, send, approve, stop, close | the policy of a parent that changes, capacity, a stop before the start, crashes |
| Interactive terminal mode, `app/modes/interactive/interactive_mode.py` | editor slot, flags, cards, prompts | submit, keys, selectors, approvals | two threads, components that replace each other in one slot |
| Terminal renderer, `tui/tui.py` | what was drawn, viewport, cursor rows | request, render, resize, stop | relative moves on a terminal that scrolls |
| Desktop window, `desktop/renderer` | timeline, busy flags, frame queue | reduce events, apply snapshots | answers that overtake events, runs that are replaced, batching |
| Credentials and settings, `app/core/credentials.py`, `settings.py`, `providers.py`, `app/cli/main.py` | two files of a user, a copy in each process | load, save, login, logout, set, start | whole files written from copies that are stale, writes that fail, values that are refused after they were set |
| Lists and dialogs, `tui/components/select_list.py`, `app/modes/interactive/components` | rows, highlight, window, filter, what a dialog is about | move, type, choose, submit, cancel | filters and wrapping at the edges, lines that run beneath an open dialog |
| Tools, web search, other widgets | little or none | I/O | outside, except for permissions |

How they interact. A prompt of `AgentSession` first drains the memory queue and
retrieves memories, then runs the agent loop. The loop reads the stream of a
provider through the retry wrapper and appends messages to the session branch;
the tools of Plan Mode append questions and revisions through `AgentSession`;
host controls (terminal or desktop) append mode changes, answers and runs.
After each of these the session replays its branch through the reducer and
gives the loop the tools of the new state. Compaction replaces the live
transcript by what the branch now says, subagents record themselves on it. A
finished task, and a confirmed plan, become a job of the memory queue, whose
worker applies what it extracts to the memory store. The terminal mode and the
desktop host drive one session each; the host tells the window what happens as
events on the pipe that also carries its answers.

What makes each correct. The queue: jobs of a project run one at a time, at
most `max_attempts` times, and are settled once. The store: the log is the
truth, jobs apply once, what the user said stands. The reducer: no file makes a
plan executable that was not submitted in one piece, and damage blocks until
the user leaves. Plan Mode: its live operations never write what the reducer
rejects, authorizations are on disk before they act, a handoff names a complete
child. The loop: every call has its one result behind it, input reaches the run
it was given to, nothing starts after a stop. Streams: a message that is done
is what was sent, and nobody waits for ever. The session: it reopens as it was,
summaries and live context fit the active branch. The hosts: archived sessions
are quiet, conversations obey the parent, one component takes the keys, nothing
runs that was not allowed, views come to show what there is. The shared files:
a key belongs to the provider it was typed for, the settings can always be
loaded, a save undoes nothing that its process had seen; a list shows what Enter
would take.

## 2. Modules

| module | models |
|---|---|
| `MemoryJobs` (`JobLifecycle`) | the queue's files and the workers of several processes (abstract: a job is accepted once and settled once) |
| `MemoryStore` | one scope of the memory, its jobs, the user's commands |
| `PlanReducer`, `PlanReplay` | `reduce_plan_state` as operators, and its fold as a state machine over arbitrary entries |
| `PlanMode` | `AgentSession`, agent loop and session file around the reducer |
| `AgentLoop` | turns, batches, queues, retry, stops |
| `ProviderStream` (`MessageStream`) | one request to a provider, from the server's pieces to the reader (abstract: the contract of the events) |
| `SessionLog`, `BranchWork` | the entry tree, its file and its leaf; prompts, compaction, subagents and the user upon it |
| `DesktopHost` | the RPC host, its run, its side conversations |
| `InteractiveMode` | the terminal interface on its two threads |
| `TuiRender` | the renderer on a model of a terminal |
| `UserFiles`, `SelectList`, `Terminals` | `auth.json` and `settings.json` with the copies of all processes; lists; terminals that start, switch models, log in and out and change settings |
| `Timeline`, `DesktopView` | the timeline reducer; the window over it and what the host publishes |
| `MC...` | instances for TLC |
| `MemoryJobsProofs`, `MemoryStoreProofs`, `PlanModeProofs` (`PlanReplay` too), `AgentLoopProofs`, `BranchWorkProofs` (`SessionLog` too), `DesktopHostProofs`, `InteractiveModeProofs`, `TerminalsProofs` | proofs about the modules they are named after, section 5 |

`PlanMode` and `PlanReplay` both EXTEND `PlanReducer`: the state that live
operations are checked against is computed by the very operators the proofs are
about. `BranchWork` extends `SessionLog`, `DesktopView` extends `Timeline`,
`Terminals` extends `UserFiles` and `SelectList`.
`MemoryJobs` instantiates `JobLifecycle`, and `ProviderStream` instantiates
`MessageStream`, whose specifications are properties of their runs. Between the
other components the models meet at an abstraction of the neighbour, named in
each header: `DesktopHost` and `InteractiveMode` know of a run only the stages
the host can see, `DesktopView` of the host only what it publishes.

Operators whose comment says "Mutant" are not part of the models. Each is a
plausible wrong version of the definition after it; `PROJECT.json` names the
property that fails when the definition is replaced by it.

In all modules Python code between two awaits is one step, as is a call that
runs under a lock; a step that may fail or die half way has one outcome for
each place where it can.

**MemoryJobs.** `jobs` is the directory of job files (`st = "none"`: no file),
`receipts` the receipt directory, `applied` what `store.apply` left behind.
`worker[p]` is the worker task of process `p`: its `pc` names what it awaits.
`CancelWorker` says what a cancellation does at each await; where the awaited
thread runs on it goes to `detached[p]` and takes its turn at the lock later,
with the job copy it had. `CrashInComplete` dies between receipt, unlink and
pruning. Time is two bits of a job: its lease has expired, its retry is not yet
due. Left out: damaged job files, legacy extractors.

**MemoryStore.** `log` is the event file with torn fragments, `snapshot` the
YAML beside it, `jobs` the worker's decisions between their model calls,
`command` what the user asked for. A transaction is one step that may fail
before, between or after its two writes. `Replay` is `_apply_event` folded over
the log, written beside `Resolve` as the code has it. A fragment may end within a character, and then no read
decodes the file until a write has repaired it. A decision names the record it
is about, under whatever key, and is validated again, or made anew, when a job
resumes; the hash of what it applies is made of the decided words (`ByJob`).
`Splitting` are the values with a Unicode line separator; the run takes none
(section 6).

**PlanReducer, PlanReplay.** Ids and contents are opaque. A tool call stands
for the title and Markdown it carries, a digest for the tuple it is computed
from (the hash is taken to be injective), the position of an entry for its id.
`Step` is one iteration of the loop. Left out: schema-0 revisions,
`legacy_candidate`, rules on lengths and headers, duplicate entry ids, which
block before the loop starts.

**PlanMode.** `file[s]` is the active branch of session `s` with the number of
entries that are on disk; `plan` the cached `_plan_state`, which a flush that
raises behind an append (`CommitRaises`) leaves behind the branch until the
next replay, except where `execute_plan` syncs it (`StartRaises`); `run` the prompt or
Plan run in progress. Host controls are actions with the guards of the code; a
run goes through retrieval, model, tools, question, settling, and every control
may come in between. Tool results are not entries (the reducer skips them);
error and aborted replies carry no calls; `/tree` goes back along the branch; a
child session of which only part was written is not modelled.

**AgentLoop.** `run` is the run with its stage, signal and batch, `stream` the
attempt that is read and what was seen of it, `call` each tool. The
subscribers of the application do not await, so events are delivered in the
step that emits them. Parallel execution is in the code but not used by the
application; both modes are checked.

**ProviderStream.** `server` is what was said, `reply` the message under
construction, `inner` and `outer` the two event streams with their producers,
`seen` what the reader heard, rebuilt from the events alone. One event of the
server carries one piece; the responses endpoint leaves out the deltas of all
texts and thoughts or of none; `MaxLag` bounds unread events.

**SessionLog, BranchWork.** `mem` is a SessionManager, `disk` its file with
what is synced; `ctx` the transcript of the agent, `turn`, `comp` and `live` a
prompt, a compaction and the subagents in flight. Each call of the manager is
the set of its outcomes. A loss of power keeps what was synced and any prefix
of the rest. Token estimates are a weight per type of message.

**DesktopHost.** `serial` is what the handler that holds the lock is doing,
`stops` who waits for the run and how patiently, `run` the stage of the run,
`chat[c]` a side conversation with its task, its file and, as history, what
became of its last run. Which tool needs an approval is any choice.

**InteractiveMode.** `reading` is the key the reader thread dispatches and the
component it goes to, `tree`, `current` and `focus` the slot above the footer,
`section`, `responding` and `locked` the flags of coroutines in flight. A
handler on the reader thread is a step; what it hands to the loop comes later,
what it spawns without a loop never (section 6).

**TuiRender.** `tui` is what the renderer believes, `term` the terminal, which
clamps moves and scrolls. A line is its text and its width.

**UserFiles, SelectList, Terminals.** `disk` is what a reader finds in the two
files, entry by entry: a provider with its key, a field with its value; `copy`
what each process has in memory; `behind` and `unsaved` are histories that say
where the two differ and why. A write is atomic, since the code replaces the
file by a rename, and fails as a whole. A key carries the provider in whose
dialog it was typed. `dialog` is what has replaced the editor, with its list as
`SelectList` computes it; `hears` whether the reader thread is alive. Lines that
were submitted earlier run beneath an open dialog, so a login may end in a
session that uses another provider than when the dialog was opened. Fields
without a bearing on others, environment variables by name, and `--api-key`
(one process pins it, the file is not read) are left out.

**Timeline, DesktopView.** Events wait in a queue for the next frame, answers
take effect at once. A text is the number of its deltas. `Drawn` assumes that
nobody acts faster than a start is answered and the next frame drawn.

## 3. Runs

Users need not type and bounds end every run, so deadlock is not checked.

| run | instance | shows | states, time |
|---|---|---|---|
| `MemoryJobs` | 2 jobs, 1 project, 2 processes, 1 stop or timeout, crashes, 2 attempts | leases, receipts, checkpoints, refinement of `JobLifecycle` | 714k, 60-100 s |
| `PlanReplay` | 6 entries out of about 150, well formed or not, 2 ids | the reducer | 50k, 6 s |
| `PlanMode` | 2 sessions, 6 entries, 2 ids, 1 fault | planning to settling, questions, handoff, `/tree`, aborts, appends and flushes that raise | 427k, 90-150 s |
| `BranchWork` | 5 entries, 1 subagent, 2 files, 2 moves of the user, 1 fault | session, summaries, live context, tasks | 141k, 55 s |
| `AgentLoop` | batches of up to 2 calls, 1 retry, 2 prompts, 2 inputs | answers, input, stops | 444k, 80 s |
| `MemoryStore` | 1 key and 1 memory that names none, 2 values, 2 kinds, 1 job, 4 events, 1 fault | log, snapshot, conflicts, a job or a command that decides anew | 709k, 80 s |
| `DesktopHost` | 2 sessions, 1 conversation, 2 moves, 1 fault | archive, conversations, stops | 125k, 40 s |
| `InteractiveMode` | 1 subagent, 2 submitted lines | slot, cards, approvals | 1.8M, 70-175 s |
| `DesktopView` | 2 sessions, 2 runs, 1 message and 1 compaction each, 2 events a frame | view, messages, approvals, busy flags | 281k, 100 s |
| `TuiRender` | 3 lines, 2 widths, 2 heights, 1 resize | screen, cursor, exit, requests | 502k, 40 s |
| `ProviderStream` | both protocols, a text, a thought, 2 calls in up to 2 pieces | message, contract, release | 507k, 75 s |
| `Terminals` | 2 processes, 2 providers, 3 models, 1 old id, 2 saves that may fail, lists of 2 rows, 1 dialog at a time | keys, settings, lists, saves | 157k, 46 s |

Why the bounds are enough. Two jobs and two processes are what a conflict about
a lease or an order takes; two attempts let a job be retried and be exhausted;
`ReceiptLimit` is 2, so no receipt is pruned: once one is pruned the queue
forgets that a task was completed and would accept it again, which
`JobLifecycle` does not `JobLifecycle` does not allow (section 5 has the theorem for any limit). Plan
Mode needs eight entries to complete one
plan; `PlanMode.cfg` has six, which reaches every action and all but the last
step of that scenario, and the instance with seven (1.7M states, 200 s) passes
as well. Four events of a memory let a value be learned, contradicted,
settled and forgotten, or a job apply twice with somebody else in between; two
jobs, which meet only in the log, are left to the theorems. Two calls of a batch and two fragments of one call give
every interleaving that can mix them up. A resize, a line too many and a
terminal of one or two rows bring each branch of the redraw. `BranchWork` with
six entries (755k states) and `ProviderStream` with one unread event, or with
two pieces for every call, pass as well.

`Terminals`: a copy becomes stale with the first save of the other process and
shows it with the second; each field is given one value that the other fields
accept or refuse depending on what was set before; five rows in a window of two
let the highlight leave it at either end. Dialogs of two processes touch only at
the files, so one at a time loses no step of those. The processes are
interchangeable.

Fairness. `AgentLoop!LiveSpec`: the loop and its tasks go on, timers fire; no
provider and no tool owes an answer. `DesktopHost!LiveSpec`: the host's own
steps and its kills come, an agent that was told to stop ends, a cancelled
conversation ends; nothing is assumed of tools, of users or of a conversation
nobody stops. `DesktopView!LiveSpec`: frames are drawn, the agent goes on,
requests are answered. `ProviderStream!LiveSpec`: only the event loop; neither
the server nor the credentials owe anything. The other runs check safety only.
`MemoryJobs!FairSpec` assumes workers, threads, time and the start of a worker
at every prompt.

## 4. Properties

Checked by the runs, each with a mutant:

* Queue: `OneLeasePerProject`, `ReceiptMeansApplied`, `CheckpointsSurvive`,
  `ImplementsLifecycle`. Store: `SnapshotIsReplay`, `JobsApplyOnce`,
  `ForgottenStaysForgotten`, `ExplicitStands`.
* Reducer: `ConfirmableIsIntact`, `ExecutionIsOwned`, `NoRunStartsTwice`,
  `BlockedUntilUserExit`. Plan Mode: `LiveOpsNeverPoison` (the guards of the
  live operations imply those of the reducer, while the cache follows), `AuthorizationIsDurable`,
  `CacheIsProjection`, `DevelopmentStaysOutOfPlanMode`, `HandoffIsComplete`.
* Loop: `CallsAreAnswered`, `InputReachesItsRun`, `WorkStartsOnlyIfWanted`,
  `StoppedRunsEnd`. Streams: `MessageIsWhatWasSent`, `ImplementsProtocol`,
  `EveryReadEnds`.
* Session: `SessionIsSound`, `SummariesFitTheirBranch`, `LiveContextIsBranch`,
  `EndedTasksStayEnded`.
* Host: `ArchivedIsQuiet`, `UnfinishedIsUncertain`, `ChatsObeyTheParent`,
  `RequestsEnd`. Terminal: `OnePlaceForInput`, `TheChatSettles`,
  `NothingRunsUnallowed`, `FramesShowTheDocument` (`ScreenShowsTheLines`,
  `ExitLeavesTheScreen`, `ChangesAreDrawn`, `CursorFollowsItsMarker`). Window:
  `ViewShowsTheSession` (`ViewSettles`, `EachMessageOnce`, `ApprovalsCanBeGiven`,
  `BatchingChangesNothing`), `BusyEnds`.
* Files and dialogs: `TerminalsAreSound` (`KeysAreTheirProviders`,
  `SettingsFileLoads`, `HighlightIsShown`), `SavesChangeOneEntry`.

Each is stated in words above its definition. The modules define more, which
hold on the same instances and are proved in part (section 5) but are not part
of a run, to keep the runs short: the type invariants; `PendingCanBeClaimed`,
`NobodyStealsALiveLease`, `CompletedIsNeverReclaimed`, `CompletionPrunes`,
`EveryJobSettles` (one job, `FairSpec`); `PhaseFitsMode`, `QuestionFitsPhase`,
`RevisionsGrow`; `LiveRunIsExecuting`, `UncertainWaitsForUser`,
`CrashKeepsThePlan`, `WrittenSurvives`; `LaunchedTasksAreRecorded`, `ForcedLinesStay`;
`RunsEndWholly`; `OnlyTheTailIsTorn`; `RunsAreReported`, `SearchesAreGranted`,
`PermissionsStandDuringWork`; `RespondingCoversTheRun`; `DeltasTellTheMessage`.
`EscapeInterrupts` is stated in `InteractiveMode` and does not hold (section 6).

## 5. Proofs

TLAPS proves these for every value of the constants. The only assumptions are
the named ASSUMEs of the modules (bounds are natural numbers, model values of
different kinds differ), which TLC evaluates on every run. Each specification
has an inductive invariant (`IInv`; `ReplayIInv`, `TerminalsInv`; `PlanMode` has
`UInv`, `PInv` and `DInv` beside it, `BranchWork` has `BInv`), checked with TLC before it was proved; `Init => IInv`
and `IInv /\ [Next]_vars => IInv'` have one lemma per action or per class of
actions, safety follows from `IInv`, action properties from `IInv` and one more
look at the actions.

| module | proved of the specification |
|---|---|
| `PlanModeProofs`, of `PlanReplay` | all its properties: `ConfirmableIsIntact`, `ExecutionIsOwned`, `NoRunStartsTwice`, `BlockedUntilUserExit`, `RevisionsGrow`, `PhaseFitsMode`, `QuestionFitsPhase`, `TypeOK` |
| `PlanModeProofs`, of `PlanMode` | `AuthorizationIsDurable`, `WrittenSurvives`, `LiveOpsNeverPoison`, `CacheIsProjection`, `DevelopmentStaysOutOfPlanMode`, `HandoffIsComplete`, `LiveRunIsExecuting` |
| `MemoryJobsProofs` | `OneLeasePerProject`, `ReceiptMeansApplied`, `PendingCanBeClaimed`, `CheckpointsSurvive`, `NobodyStealsALiveLease`, `CompletedIsNeverReclaimed`, `TypeOK`, and that the queue implements `JobLifecycle` but for the receipts it prunes (`LivesUnlessPruned`) |
| `MemoryStoreProofs` | `SnapshotIsReplay`, `ForgottenStaysForgotten`, `ExplicitStands`; of `JobsApplyOnce` that no operation is applied twice (`OperationsApplyOnce`); `OnlyTheTailIsTorn` if no value holds a line separator |
| `DesktopHostProofs` | `ArchivedIsQuiet`, `UnfinishedIsUncertain`, `ChatsObeyTheParent`, `SearchesAreGranted`, `PermissionsStandDuringWork`, `TypeOK` |
| `InteractiveModeProofs` | `OnePlaceForInput`, `TheChatSettles`, `NothingRunsUnallowed`, `RespondingCoversTheRun`, `TypeOK` |
| `BranchWorkProofs` | `SessionIsSound`, `SummariesFitTheirBranch`, `LiveContextIsBranch`, `EndedTasksStayEnded`, `LaunchedTasksAreRecorded`, `ForcedLinesStay` |
| `AgentLoopProofs` | `CallsAreAnswered`, `InputReachesItsRun`, `WorkStartsOnlyIfWanted`, `RunsEndWholly`, `TypeOK` |
| `TerminalsProofs` | `TerminalsAreSound`, `SavesChangeOneEntry` |

*Reducer.* Whatever entries a branch holds, in whatever number, the fold keeps
a revision that was accepted intact while its episode lasts and a run that is
projected as executing the run of that revision; the properties alone say
nothing of the states between submission and confirmation.

*Plan Mode.* An append may raise, or succeed and be followed by a flush that
raises, so neither that every entry is on the disk nor that the cache is what
the branch says is true at all times; the invariant says when they are. What
has reached the disk stays there: each file operation but `/tree`, half a write
and recovery included, keeps it (`Keeps`), and a session that is started anew,
by a handoff, `/new` or a restart, had nothing to lose (`UInv`). That is
`WrittenSurvives`.

What authorizes anything is on the disk before it is acted upon (`DInv`): a
control sets a run or an answer only behind a flush that returned, which writes
the whole branch; from there a plain append keeps it so (`StaysFull`), a failed
write cannot hide an entry in a file that was written through, and the
controls whose flush may raise are refused while a run is live or an answer
waits to be read (`FreeOwes`, `NoQuestionLeft`). A question that waits was
flushed before there was a future for it and stays where it is. That is
`AuthorizationIsDurable`.

That the program writes nothing its reducer rejects is a matter of the Plan
State. The fold is a recursive function over the branch; `Folds` says which
function it is, and that there is one follows by induction over the numbers up to the
length of a branch, which in turn follows from the pigeonhole theorem of the
library: a set of naturals that is not empty has a least element
(`LeastElement`, `Induction`). From there on `After`, what was read of a branch
after n entries, is used like a variable that each entry updates. The invariant
`PInv` says of every session that its branch is `Sound`: its entries name only ids
that were handed out, and no entry in front of a diagnostic has blocked. One
more entry keeps that if it is valid for the Plan State of the branch
(`AppendsSound`). What a control checked is the cached Plan State, so the
cache must be what the branch says, or say that the branch is blocked, in which
case only an exit is written; otherwise a plan is drafted or asked about and a
flush has raised (`Attuned`). In that one case the next control may write what
the branch rejects (section 6), and `LiveOpsNeverPoison` says nothing of it:
the invariant is proved once with clean branches, from a cache that follows, and
once without. It is what it says
under the run of this process, which reads as executing where a reopened branch
reads as uncertain: the two differ in the phase alone (`Owns`), and no other
branch knows of the run (`NowhereElse`), so a handoff or a new session changes
nothing for the sessions that are left. That revisions have the next number,
questions and runs new ids, and answers the question that waits, is then what
`submit_plan`, `ask_plan_question`, `answer_plan_question` and
`execute_current_plan` check themselves. An entry that says the plan was
handed over is written by no step but a handoff whose child was written and
flushed (`OnlyHandoffsTell`), and that child is the review of what the cache,
hence the branch, said (`ReviewSound`): that is `HandoffIsComplete`. Who holds the tools of development is
kept out of Plan Mode (`Tooled`) because no control enters it during a turn.

*Store.* A transaction leaves the events as they are, whatever it fails at, or adds
one; all that has to be shown of it is that this one may come next
(`Admitted`): its hash is not among those applied, its time is not earlier, and
`Resolve` made it of what was loaded. That what was loaded is the replay of the
log, and that the snapshot is the replay of a part of it, goes over the replay
as a recursive function, unfolded like the fold of a branch. `OperationsApplyOnce` then needs that the
hashes applied are those of the events (`HeldFits`), and that a hash which was applied is not applied again; when a
job may apply a second, different operation is checked by TLC. The other two speak of the
log, `Resolve` of what is held: that a key which was buried and did not come back has a
tombstone that is as late (`BuriedFits`), and that what the user said is held or
stands among rivals of which one is the user's (`SpokenFits`), relates the two.

*Queue.* A claim is made only for a project without a lease, and every other
step only drops leases: that is `OneLeasePerProject`. `ReceiptMeansApplied`
needs to know, for every worker and every thread that outlived one, how many
decisions it has applied (`Fit`); it survives interleaving because `applied`
only grows. The action properties share one classification of all steps by what
they do to the files (`FileStep`). The refinement maps a job to what its file
and its receipt say. A queue that prunes a receipt forgets
that the task was done (section 3), so for any number of tasks and any limit
the theorem is `LivesUnlessPruned`: a step that keeps the receipts is a step of
`JobLifecycle`, and one that prunes is the completion of one job at the limit,
and forgets nothing but completed jobs. It uses `OneLeasePerProject`, without which one scan
of the directory could settle two jobs in one step.

*Host.* `ArchivedIsQuiet` and `UnfinishedIsUncertain` are inductive together
with what the file of a conversation says while it works (`ChatsFit`), with the
stages of a switch of session during which there is no run (`StagesFit`) and
with what was asked of whom and granted (`GrantsFit`).

*Terminal mode.* The slot keeps its invariant on either thread, alone. Nothing
runs unallowed because who asks stands at its gate (`AskFits`), because at most
one coroutine drives the session and so no second run can pass the gate of the
first (`SectionFits`), and because a key that is still being dispatched can
answer only the prompt that was open when it was read (`PromptsFit`).

*Loop.* The invariant equates what was heard behind the last prompt, what waits
in the two queues and what the host accepted (`InputFits`), each of them
without repetition; a run that is done has empty queues, so the rest follows by
counting. Results stay behind their calls because what is appended is always
either one reply or all the results of the reply at the end (`Fits`,
`TranscriptFits`). That nothing seen is attempted again needs what is known
during a delay (`StreamFits`), the status of a run what its last reply said
while its calls were executed (`LastFits`). What
`repair_incomplete_tool_calls` makes of a transcript is followed message by
message, by induction: it is whole at any moment if the calls that are still
open were closed then (`Whole`), a result that comes answers the first open
call because no result stands on its own (`Attached`, `LeftOpen`), and takes the
place of its stand-in, so all results of the transcript are shown and in order.

*Session.* The first half of `BranchWorkProofs` has, for each call of the
manager, the lemma that every one of its outcomes leaves manager and file in step, adds one entry or
none and only lets the file grow; it holds whatever entries say, so the work
upon a session is proved about without looking into the calls again. A
session opened from or forked from any sound history is sound
(`HistoryAssumption`). That a record which ends a task is the task's last is
inductive only because what is ended in the entries is done in this process
too, because a crash forgets the tasks and writes no such record, and because
new tasks have no record yet; that a live task is on the disk, only because a
file that was left is never the session's again.

The second half is about branches. `Ancestry` and `Picked` are recursive
functions; that each is the one it claims to be, and what it yields, follows by
induction over the entries (`AncestryFits`, `PickedFits`), so a branch is known
to end in its leaf, to hold no entry twice, to have branches as its first parts,
and not to change with later entries (`BranchFits`, `BranchBefore`). The
invariant `BInv` then says four things that need each other. Every summary in
memory fits its branch; every summary in the file does, since a crash leaves a
first part of the session (`FileFits`); the summary being written fits the
branch it was asked for, which stays what it was when the user moves away with
`/tree` (`SummaryIsDue`, `DueStays`); and what is written of the transcript is
in the context of the active branch, in its order (`Shows`). What
`prepare_compaction` proposes fits because the previous summary did and the cut
is an entry behind it which is no tool result (`PrepareFits`), what a pivot
proposes because it keeps nothing (`PivotFits`). A message that was written lengthens the context
by one and otherwise leaves it (`ContextWith`), so the transcript need be
rebuilt only where the code does it. What a session is opened or forked from is
assumed to fit too (`SummaryAssumption`): it was written by this program. That
its leaf entries have a target (`LeavesFit`) is what the one caller of
`set_leaf_id` (`interactive_mode.py:1290`) guarantees.

*Files and dialogs.* That a save changes one entry is a matter of one step only
if the copy it writes is known to be the file elsewhere: `InStep` says so of
every process that runs, up to what `behind` and `unsaved` name, and every save,
failed save and new start keeps it (`FilesInv`). That a save changes no second
field needs that the copy is already migrated (`Current`), so that validation
finds nothing to replace, except under a new default provider. The settings can
be loaded because a save validates all of what it writes, whatever was refused
before and stayed in memory; keys stay with their providers because no handler
moves an entry (`Tagged`), and a dialog knows its provider (`Names`). For the
lists the window is shown to be around the highlight and within the rows
(`WellPlaced`), for any number of rows and any size of the window
(`ScreensInv`).

Only model-checked: liveness (`StoppedRunsEnd`, `RequestsEnd`, `BusyEnds`,
`EveryReadEnds`, `EveryJobSettles`), which needs ENABLED;
`ImplementsProtocol` and `MessageIsWhatWasSent`, which concatenate pieces;
`DesktopView` and `TuiRender`, whose properties are statements about layouts and
sequences of deltas.

## 6. Disagreements and observations

`EscapeInterrupts` does not hold: given as the one PROPERTY of
`InteractiveMode.cfg`, TLC refutes it within seconds. `_spawn`
(`app/modes/interactive/interactive_mode.py:303`) closes the coroutine it is
given when the calling thread has no event loop, and keys are dispatched on the
reader thread of the terminal, which has none: Esc aborts nothing, although
line 2403 calls it "the real interrupt key". `test_interrupt.py:66` calls the
handler inside a loop. Answers to plan questions and the choices of the plan
menu are lost in the same way.

Seen while modelling; the models do what the code does.

* Queue. A stop between the claim and the `try` that releases the job
  (`service.py:210`) leaves it leased until the lease runs out, though
  `test_disabling_auto_extract_releases_running_job` expects it pending
  (`StoppedWorkerHoldsNoLease` states that).
* Plan Mode. Cancelling a question that was asked together with another call
  lets the run go on to a further request (`CancelledQuestionEndsTheRun`,
  against `test_plan_lifecycle.py:681`). A Plan run whose task is cancelled
  inside a tool is recorded as completed (`InterruptedRunNeverSettles`, against
  `docs/specs/plan-mode.md:37`). `enter_plan_mode` failing half way out of
  `recovery_error` makes the next one append a second exit, which blocks the
  session again while the call returns normally (`EnterStartsAnEpisode`).
  A flush that raises behind a question, an answer or a revision
  (`agent_session.py:886`, `930`, `995`) leaves the entry in the branch and the
  cached Plan State as it was; only `execute_plan` syncs it. Answering again
  then writes a second answer, and asking or submitting again in the same turn
  a second question or revision: the reducer rejects it and the session is in
  `recovery_error`, a second question with a future that nobody can answer.
* Store. `store.py:552` splits lines at U+2028, U+2029 and U+0085, which
  `store.py:494` writes unescaped: a value with one of them makes the scope
  unreadable. A candidate of another kind turns an explicit memory into a
  conflict; settling keeps the kind of the first rival. `forget` reads and
  buries in two transactions. An append torn within a character of several
  bytes makes every read fail (`UnicodeDecodeError`, `store.py:552`), and
  `remember`, `forget`, `clear` and the jobs read first; only a transaction
  that was past its read repairs the file. A job that dies between
  its write and its completion and finds its target gone decides anew and,
  because the hash is one of the decided words (`service.py:57`), may write a
  second event; so may a reinforcement that settled a conflict of two kinds for
  the other kind.
* Session. A failed header upgrade leaves the new version in memory only; a
  header whose first write fails half way locks the file out for good
  (`WritesAreNeverLockedOut`, against the comment at `session_manager.py:509`);
  truncating after a failed append may drop what another process appended; a
  retried prompt writes the user's message again; after a crash results may be
  separated from their calls in the live transcript
  (`ResultsFollowTheirCalls`), which the repair before a request mends.
* Loop. A factory that raises inside `retrying_stream` leaves the run waiting
  until it is aborted (`retry.py:64`); in parallel mode a cancelled task drops
  the results of tools that had finished; input accepted during a batch that
  terminates the run is dropped by `_finish_run`.
* Streams. `Models.stream` passes an iterator to `lazy_stream`, so the
  provider's stream is not tracked and a request goes on after an abort
  (`event_stream.py:198`, against the docstring at line 57). A completions
  stream cut off without a finish reason is `done`, "stop"; an empty reply or one that fails
  at once ends without a `start`, which the contract of `types.py:251` asks for:
  `MessageStream` requires it, and `ImplementsProtocol` names this one exception
  (`EndsUnstarted`: nothing was said, no event came before); a failure in the middle leaves calls unfinished.
* Desktop host. An abort during retrieval or capture reaches no agent; opening
  a session that is missing stops the run and leaves no session open; an
  approval acknowledged during cleanup has no effect; a run aborted during
  automatic compaction only loses the compaction.
* Terminal mode. Two lines submitted quickly: the second is dropped though the
  editor was cleared; `/tree` posted before a message leaves the picker mounted
  during the run; a subagent's prompt may be displaced by a selector and is
  denied after 120 s; the slot is swapped on two threads without a lock.
* Window. A host that exits during a run leaves the window busy; a snapshot
  taken while a message streams makes it vanish until it ends; an answer that
  overtakes queued events can show a message twice until the next snapshot;
  Stop does nothing while the run compacts.
* Files. Whoever saves writes a whole file from a copy read at its start: the
  login, logout or setting of another terminal since then is undone
  (`credentials.py:32`, `settings.py:70`; `SavesChangeOneEntry` says how far).
  A setting that `set_value` refuses stays in memory: it makes later changes
  fail, or is written with one that makes it valid. A logout whose write fails
  is reported as if no key had been stored, and takes effect with the next save.
  `/settings default_provider` accepts any name, and with an unknown one the
  next start ends in an error; `--provider` with a session or setting of
  another provider's model does too. Threads of a process share the name of the
  temporary file.
* Dialogs. `_save_key_for` and `set_model` raise on the reader thread, where
  `_read_loop` takes an `OSError` for the end of input: after a key that could
  not be written the dialog stays and no key is heard again. An empty key goes
  back to the editor where Esc would go back to the list of providers.
* Renderer. A full redraw that scrolls ignores the cursor marker until the next
  frame; a resize there and back within one frame is not redrawn; the lines
  `tui.py:666-678` cannot be reached.

## 7. Not modelled, and what is left

Not modelled: the `!` command of the terminal, the built-in tools (any result), web search, memory retrieval,
parsing of arguments, print mode, editing of text, Markdown, usage reports,
attachments and the workbench: I/O or pure layout. Whole-program liveness
across components is not composed: each module is fair on its own.

Left to prove: `ProviderStream` as an implementation of `MessageStream`, as far
as it does not concatenate pieces.
