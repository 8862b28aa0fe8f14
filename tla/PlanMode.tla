------------------------------ MODULE PlanMode ------------------------------
(***************************************************************************)
(* Plan Mode in a running AgentSession (core/agent_session.py): the host   *)
(* controls that enter, cancel, answer, execute and hand off a plan, the   *)
(* prompt that drives the model through its tools meanwhile, and the       *)
(* session branch they write, over crashes and failed writes.              *)
(*                                                                         *)
(* Python code between two awaits is one step.  A run awaits the memory    *)
(* service (extract, retrieve), the model (model), each tool (tools), the  *)
(* user (question) and compaction or memory at its end (settle); every     *)
(* host control may come in between.                                       *)
(***************************************************************************)
EXTENDS PlanReducer, FiniteSets, Functions

CONSTANTS
  Deferred,    \* question_behavior = "deferred"
  Batches,     \* the tool-call batches a model may answer with
  Calls,       \* the tool-call ids a provider gives to submit_plan
  BranchPoints, \* the entries a user goes back to with /tree
  MaxIds,      \* bound: ids handed out, of all kinds together
  First,       \* the session the program starts with
  MaxLog,      \* bound: entries of a branch of that session
  MaxLater,    \* bound: entries of a branch of a later session
  MaxPlain,    \* bound: user messages and other entries of a branch
               \* that say nothing of plans
  MaxFaults    \* bound: crashes and failed writes

ASSUME BatchAssumption ==
  /\ Deferred \in BOOLEAN
  /\ Batches \subseteq Seq({"observe", "develop", "ask", "submit"})
ASSUME BoundAssumption ==
  /\ MaxIds \in Nat /\ 1..MaxIds \subseteq Id
  /\ Calls \subseteq Id
  /\ BranchPoints \subseteq Nat \ {0}
  /\ MaxLog \in Nat
  /\ First \in SessionId /\ MaxLater \in 0..MaxLog
  /\ MaxPlain \in Nat
  /\ MaxFaults \in Nat
ASSUME WaitingAssumption == None \notin {"pending", "answered", "cancelled"}

VARIABLES
  file,      \* SessionId -> the branch in memory and what of it is on disk
  attached,  \* the session this process works in
  plan,      \* _plan_state, as last synchronised with the branch
  run,       \* the prompt or Plan run in progress
  ids,       \* ids handed out
  faults     \* faults injected

vars == <<file, attached, plan, run, ids, faults>>

-----------------------------------------------------------------------------
(* The session file: buffered until the first assistant message, written   *)
(* through afterwards (SessionManager._commit, _persist_buffer, flush).    *)

Unused == [used |-> FALSE, parent |-> None, log |-> <<>>, flushed |-> FALSE,
           durable |-> 0]
Blank(parent) == [Unused EXCEPT !.used = TRUE, !.parent = parent]

Flushed(f) == [f EXCEPT !.flushed = TRUE, !.durable = Len(f.log)]

WritesThrough(f, e) ==
  f.flushed \/ (e.type = "message" /\ e.role = "assistant")

Written(f, e) ==
  LET g == [f EXCEPT !.log = Append(@, e)] IN
  IF WritesThrough(f, e) THEN Flushed(g) ELSE g

\* What a write that raises leaves: part of what was not on the disk may have
\* reached it
FailedWrites(f) ==
  {f} \cup {[f EXCEPT !.flushed = TRUE, !.durable = d] :
              d \in f.durable .. Len(f.log)}

\* What is found on disk after a crash, perhaps ending in a torn line
Recovered(f, torn) ==
  LET kept == SubSeq(f.log, 1, f.durable) \o (IF torn THEN <<Issue>> ELSE <<>>)
  IN IF f.flushed THEN [f EXCEPT !.log = kept, !.durable = Len(kept)]
                  ELSE [Unused EXCEPT !.used = TRUE]

Current == file[attached]
Room(n) ==
  Len(Current.log) + n <= IF attached = First THEN MaxLog ELSE MaxLater
UserMessage == Message("user", None, FALSE, TRUE)
Plain == Cardinality({i \in DOMAIN Current.log : Current.log[i] \in {Other, UserMessage}})
Fault == faults < MaxFaults /\ faults' = faults + 1

\* What _sync_plan_state projects from a branch
Projection(f, live) ==
  LET s == ReducePlanState(f.log, f.parent, live) IN
  [mode |-> s.mode, phase |-> s.phase, plan |-> s.plan, latest |-> s.latest,
   question |-> s.question, run |-> s.run, review |-> s.review,
   target |-> s.target]

SyncPlanState(live) == plan' = Projection(file'[attached], live)

Commit(e) == file' = [file EXCEPT ![attached] = Written(@, e)]

WriteRaises(f) ==
  /\ Fault
  /\ \E g \in FailedWrites(f) : file' = [file EXCEPT ![attached] = g]

\* An append that raises takes its entry back; a buffered one cannot raise
AppendRaises == Current.flushed /\ WriteRaises(Current)

\* An authorization boundary: append, then flush
CommitNow(e) ==
  /\ file' = [file EXCEPT ![attached] = Flushed(Written(@, e))]
  /\ UNCHANGED faults

\* The entry is appended and the flush behind it raises: it stays on the branch,
\* on the disk or not
FlushRaises(e) == WriteRaises([Current EXCEPT !.log = Append(@, e)])

CommitRaises(e) == AppendRaises \/ FlushRaises(e)

-----------------------------------------------------------------------------
(* The run.  `exec` is _active_plan_run_id; `tools` the profile the agent    *)
(* loop last adopted; `todo` the calls left of a reply; `call` the id of its *)
(* submit_plan call and `sole` that it is the only call of a complete reply; *)
(* `turn` what the results so far say of the next turn; `stop` the stop      *)
(* reason of the last reply of a Plan run; `future` _question_future.        *)

Kinds == {"observe", "develop", "ask", "submit"}

Run0 == [pc |-> "idle", exec |-> None, tools |-> {}, todo |-> <<>>,
         call |-> None, sole |-> FALSE, turn |-> "last", stop |-> None,
         abort |-> FALSE, planAbort |-> FALSE, future |-> None,
         steer |-> FALSE]

\* _is_processing, and an Agent run that can still be aborted or steered
AgentRuns == run.pc \in {"model", "tools", "question"}
Processing == AgentRuns \/ run.pc \in {"retrieve", "settle"}
\* Mutant: a control only waits for the Plan run, not for a prompt
FreeOfPlanRuns == run.exec = None

Free == ~Processing /\ run.exec = None

EffectiveTools(p) ==
  IF p.phase \in {"uncertain", "recovery_error"} THEN {}
  ELSE IF p.mode # "plan" THEN {"observe", "develop"}
  ELSE IF p.phase # "drafting" THEN {}
  ELSE {"observe", "ask", "submit"}

\* _before_tool_call and enforce_plan_tool_policy
PolicyBlocks(kind) ==
  /\ plan.mode = "plan" \/ plan.phase \in {"uncertain", "recovery_error"}
  /\ \/ plan.phase # "drafting"
     \/ kind = "develop"
     \/ kind = "submit" /\ ~run.sole

Init ==
  /\ attached = First
  /\ file = [s \in SessionId |-> IF s = First THEN Blank(None) ELSE Unused]
  /\ plan = Projection(Blank(None), None)
  /\ run = Run0
  /\ ids = 0
  /\ faults = 0

-----------------------------------------------------------------------------
(* Host controls.                                                           *)

MayEnter == plan.mode # "plan" \/ plan.phase = "recovery_error"

\* Leaving recovery_error takes two appends, either of which may raise
EnterPlanMode ==
  LET blocked == plan.phase = "recovery_error"
      exit == ModeChange("default", plan.plan, "user", None)
      left == IF blocked THEN Written(Current, exit) ELSE Current
  IN
  /\ Free /\ MayEnter
  /\ Room(2) /\ ids < MaxIds
  /\ ids' = ids + 1
  /\ \/ /\ file' = [file EXCEPT ![attached] =
                      Written(left, ModeChange("plan", ids + 1, "user", None))]
        /\ SyncPlanState(None)
        /\ UNCHANGED faults
     \/ AppendRaises /\ UNCHANGED plan
     \/ /\ blocked /\ left.flushed /\ WriteRaises(left)
        /\ UNCHANGED plan
  /\ UNCHANGED <<attached, run>>

\* The future is cancelled before the entry is appended
CancelPlanMode ==
  LET awaited == run.future = "pending"
      after == [run EXCEPT !.future = IF awaited THEN "cancelled" ELSE @]
  IN
  /\ run.exec = None
  /\ Processing => run.future # None
  /\ plan.mode = "plan" \/ plan.phase = "uncertain"
  /\ plan.plan # None \/ plan.phase = "recovery_error"
  /\ Room(1)
  /\ \/ /\ Commit(ModeChange("default", plan.plan, "user", None))
        /\ SyncPlanState(None)
        /\ run' = after
        /\ UNCHANGED faults
     \/ AppendRaises /\ run' = after /\ UNCHANGED plan
  /\ UNCHANGED <<attached, ids>>

\* Without a waiting future the answer becomes a prompt, which is refused
\* while another prompt is being processed.  When the flush raises, the answer
\* is on the branch and Plan State still waits for it.
AnswerPlanQuestion ==
  LET answer == Answer(plan.plan, plan.question) IN
  /\ plan.mode = "plan" /\ plan.question # None
  /\ Room(1)
  /\ \/ /\ CommitNow(answer)
        /\ SyncPlanState(run.exec)
        /\ run' = IF run.future = "pending" THEN [run EXCEPT !.future = "answered"]
                  ELSE IF Processing THEN run
                  ELSE [Run0 EXCEPT !.pc = "retrieve"]
     \/ CommitRaises(answer) /\ UNCHANGED <<plan, run>>
  /\ UNCHANGED <<attached, ids>>

\* The caller confirms some revision it was shown
Confirms(token) ==
  /\ plan.mode = "plan" /\ plan.phase = "ready"
  /\ token = Token(plan.latest)

Owning(id) == [Run0 EXCEPT !.pc = "extract", !.exec = id]

\* Mutant: the run is owned before its start is on the disk
StartRaisesOwned(e) ==
  FlushRaises(e) /\ SyncPlanState(e.run) /\ run' = Owning(e.run)

\* Mutant: the branch is not replayed after the flush has raised
StartRaisesUnseen(e) == FlushRaises(e) /\ UNCHANGED <<plan, run>>

\* A durable `started` may exist, but this process has not acquired the run
StartRaises(e) == FlushRaises(e) /\ SyncPlanState(None) /\ UNCHANGED run

ExecutePlan(token) ==
  LET started == Run("started", token, ids + 1) IN
  /\ Free /\ Confirms(token)
  /\ Room(1) /\ ids < MaxIds
  /\ ids' = ids + 1
  /\ \/ /\ CommitNow(started)
        /\ SyncPlanState(ids + 1)
        /\ run' = Owning(ids + 1)
     \/ AppendRaises /\ UNCHANGED <<plan, run>>
     \/ StartRaises(started)
  /\ UNCHANGED attached

Attach(s) ==
  /\ attached' = s
  /\ run' = Run0
  /\ plan' = Projection(file'[s], None)

\* Mutant: the child is left in the write buffer
ReviewBuffered(origin, latest) ==
  Written(Written(Blank(origin),
                  ModeChange("plan", latest.plan, "handoff", origin)),
          Revision(latest.plan, latest.number, latest.call, latest.source, origin))

Draft(origin, latest) ==
  LET mode == ModeChange("plan", latest.plan, "handoff", origin)
      copy == Revision(latest.plan, latest.number, latest.call, latest.source,
                       origin)
  IN Written(Written(Blank(origin), mode), copy)

Review(origin, latest) == Flushed(Draft(origin, latest))

\* The child is durable before the source records the handoff: a failure or a
\* crash before that leaves the source ready and an unfinished handoff behind,
\* of the child what reached the disk
HandoffPlan(token, s) ==
  LET child == [file EXCEPT ![s] = Review(attached, plan.latest)]
      handed == ModeChange("default", plan.plan, "handoff", s)
  IN
  /\ Free /\ Confirms(token)
  /\ plan.review = None
  /\ ~file[s].used /\ Room(1)
  /\ \/ /\ file' = [child EXCEPT ![attached] = Written(Flushed(@), handed)]
        /\ UNCHANGED faults
        /\ \/ Attach(s)
           \/ /\ SyncPlanState(None)
              /\ UNCHANGED <<attached, run>>
     \/ /\ Fault
        /\ \/ \E f \in FailedWrites(Draft(attached, plan.latest)) :
                file' = [file EXCEPT ![s] = Recovered(f, FALSE)]
           \/ \E f \in FailedWrites(Current) : file' = [child EXCEPT ![attached] = f]
        /\ UNCHANGED <<attached, plan, run>>
     \/ /\ Fault
        /\ file' = [child EXCEPT ![attached] = Recovered(@, FALSE)]
        /\ \E t \in SessionId : file'[t].flushed /\ Attach(t)
  /\ UNCHANGED ids

\* has_meaningful_activity: more than mode switches
Meaningful(f) ==
  \E i \in DOMAIN f.log : f.log[i].type \notin {"mode", "issue"}

NewSession(s) ==
  /\ Free
  /\ ~file[s].used
  /\ \/ /\ file' = [file EXCEPT ![attached] = IF Meaningful(@) THEN Flushed(@) ELSE @,
                                ![s] = Blank(None)]
        /\ Attach(s)
        /\ UNCHANGED faults
     \/ Meaningful(Current) /\ WriteRaises(Current) /\ UNCHANGED <<attached, plan, run>>
  /\ UNCHANGED ids

\* The storage diagnostics behind the n-th entry
IssuesAfter(log, n) ==
  LET issues == {i \in n + 1 .. Len(log) : log[i].type = "issue"}
  IN [k \in 1 .. Cardinality(issues) |-> Issue]

\* /tree: back to the n-th entry of the branch; storage diagnostics stay
SwitchBranch(n) ==
  LET kept == SubSeq(Current.log, 1, n) \o IssuesAfter(Current.log, n)
      back == [Current EXCEPT !.log = kept]
  IN
  /\ run.pc = "idle"
  /\ n < Len(Current.log) /\ Current.log[n].type # "issue"
  /\ \/ /\ file' = [file EXCEPT ![attached] =
                      IF Current.flushed THEN Flushed(back) ELSE back]
        /\ SyncPlanState(run.exec)
        /\ UNCHANGED faults
     \/ AppendRaises /\ UNCHANGED plan
  /\ UNCHANGED <<attached, run, ids>>

\* Model switches, session names, the record of a ! command: at any time
AppendOther ==
  /\ Room(1)
  /\ Plain < MaxPlain
  /\ \/ Commit(Other) /\ UNCHANGED faults
     \/ AppendRaises
  /\ UNCHANGED <<attached, plan, run, ids>>

-----------------------------------------------------------------------------
(* prompt and the agent loop under it.                                      *)

\* The Agent swallows a failed append: the branch then lacks the message
AgentAppends(e) ==
  /\ Room(1)
  /\ \/ Commit(e) /\ UNCHANGED faults
     \/ WritesThrough(Current, e) /\ WriteRaises(Current)

\* A user message is persisted, Plan State follows, and the loop adopts the
\* tools of the new state
NextRequest(r) ==
  /\ Plain < MaxPlain
  /\ AgentAppends(UserMessage)
  /\ SyncPlanState(r.exec)
  /\ run' = [r EXCEPT !.pc = "model", !.tools = EffectiveTools(plan'),
                      !.todo = <<>>, !.steer = FALSE]

Prompt ==
  /\ Free
  /\ plan.phase \notin {"uncertain", "recovery_error"}
  /\ ~(plan.mode = "plan" /\ plan.question # None)
  /\ run' = [Run0 EXCEPT !.pc = "retrieve"]
  /\ UNCHANGED <<file, attached, plan, ids, faults>>

\* _plan_status of a finished run
Status ==
  IF run.planAbort \/ run.stop = "aborted" THEN "aborted"
  ELSE IF run.stop \in {None, "error", "length"} THEN "failed"
  ELSE "completed"

\* Live ownership ends even when the terminal entry cannot be written
FinishPlanRun(status) ==
  LET ended == Run(status, Token(plan.latest), run.exec) IN
  /\ Room(1)
  /\ CommitNow(ended) \/ CommitRaises(ended)
  /\ run' = Run0
  /\ SyncPlanState(None)

Begin ==
  /\ \/ run.pc = "retrieve" /\ NextRequest(run)
     \/ run.pc = "extract" /\ ~run.planAbort /\ NextRequest(run)
     \/ run.pc = "extract"
          /\ FinishPlanRun(IF run.planAbort THEN "aborted" ELSE "failed")
  /\ UNCHANGED <<attached, ids>>

\* A reply: its stop reason and its calls.  Providers may repeat a call id; a
\* message without a submit_plan call says nothing more to the reducer.
AssistantMessage(call, sole) ==
  Message("assistant", call, sole, call = None \/ sole)

Reply(stop, batch, call) ==
  LET sole == call # None /\ Len(batch) = 1 /\ stop = "stop"
      ends == stop \in {"error", "aborted"}
  IN
  /\ (call # None) <=> "submit" \in Range(batch)
  /\ AgentAppends(AssistantMessage(call, sole))
  /\ SyncPlanState(run.exec)
  /\ run' = [run EXCEPT !.pc = IF ends THEN "settle" ELSE "tools",
                        !.stop = IF run.exec = None THEN None ELSE stop,
                        !.todo = batch, !.call = call, !.sole = sole,
                        !.turn = IF batch = <<>> THEN "last" ELSE "ended"]

\* A reply that is complete when the abort arrives wins over it
Model ==
  /\ run.pc = "model"
  /\ \/ run.abort /\ Reply("aborted", <<>>, None)
     \/ \E batch \in Batches, stop \in {"stop", "length"},
          call \in {None} \cup Calls : Reply(stop, batch, call)
     \/ Reply("error", <<>>, None)
  /\ UNCHANGED <<attached, ids>>

\* An abort, or a batch whose every result ends the turn, ends the run and
\* leaves queued messages behind.  (The tool-result messages, which the
\* reducer skips, are left out.)
EndTurn ==
  /\ run.pc = "tools" /\ run.todo = <<>>
  /\ LET next == [run EXCEPT !.call = None, !.sole = FALSE, !.turn = "last"] IN
     IF run.abort \/ run.turn = "ended" \/ (run.turn = "last" /\ ~run.steer)
     THEN /\ run' = [next EXCEPT !.pc = "settle", !.tools = {}, !.steer = FALSE]
          /\ UNCHANGED <<file, plan, faults>>
     ELSE IF run.steer THEN NextRequest(next)
     ELSE run' = [next EXCEPT !.pc = "model"] /\ UNCHANGED <<file, plan, faults>>
  /\ UNCHANGED <<attached, ids>>

Done(ends) ==
  [run EXCEPT !.todo = Tail(@), !.turn = IF ends THEN @ ELSE "goes on"]

\* An aborted, unknown or blocked call, and a call whose tool raises
Refused == run' = Done(FALSE) /\ UNCHANGED <<file, plan, ids, faults>>

\* A tool whose write raises: its call fails, and Plan State does not follow
Ask ==
  LET question == Question(plan.plan, ids + 1) IN
  /\ plan.mode = "plan" /\ plan.phase = "drafting" /\ plan.question = None
  /\ Room(1) /\ ids < MaxIds
  /\ ids' = ids + 1
  /\ \/ /\ CommitNow(question)
        /\ SyncPlanState(None)
        /\ run' = IF Deferred THEN Done(TRUE)
                  ELSE [run EXCEPT !.pc = "question", !.future = "pending"]
     \/ CommitRaises(question) /\ run' = Done(FALSE) /\ UNCHANGED plan

\* Mutant: the message with the call is somewhere on the branch
SourceIsThere ==
  \E i \in DOMAIN Current.log :
    /\ Current.log[i].type = "message" /\ Current.log[i].role = "assistant"
    /\ Current.log[i].submit = run.call

\* _validate_submit_source_message: the call is that of the last entry, and
\* has not been submitted before
SourceIsValid ==
  LET log == Current.log
      last == log[Len(log)]
  IN
  /\ \A i \in DOMAIN log :
       log[i].type = "revision" /\ log[i].call = run.call => log[i].origin # None
  /\ log # <<>>
  /\ last.type = "message" /\ last.role = "assistant"
  /\ last.submit = run.call /\ last.alone /\ last.complete

Entered(log) == Cardinality({i \in DOMAIN log : log[i].type # "issue"})

SubmitPlan ==
  LET number == IF plan.latest = None THEN 1 ELSE plan.latest.number + 1
      revision == Revision(plan.plan, number, run.call, Entered(Current.log), None)
  IN
  /\ plan.mode = "plan" /\ plan.phase = "drafting"
  /\ SourceIsValid
  /\ Room(1)
  /\ \/ CommitNow(revision) /\ SyncPlanState(None) /\ run' = Done(TRUE)
     \/ CommitRaises(revision) /\ run' = Done(FALSE) /\ UNCHANGED plan
  /\ UNCHANGED ids

CanRun(kind) == ~run.abort /\ kind \in run.tools /\ ~PolicyBlocks(kind)

Tool ==
  /\ run.pc = "tools" /\ run.todo # <<>>
  /\ LET kind == Head(run.todo) IN
     \/ Refused
     \/ CanRun(kind) /\ kind = "develop"
          /\ run' = Done(FALSE) /\ UNCHANGED <<file, plan, ids, faults>>
     \/ CanRun(kind) /\ kind = "ask" /\ Ask
     \/ CanRun(kind) /\ kind = "submit" /\ SubmitPlan
  /\ UNCHANGED attached

\* asyncio.wait over the future and the abort signal
QuestionReturns ==
  /\ run.pc = "question"
  /\ run.future # "pending" \/ run.abort
  /\ run' = [Done(run.future # "answered") EXCEPT !.pc = "tools", !.future = None]
  /\ UNCHANGED <<file, attached, plan, ids, faults>>

Settle ==
  /\ run.pc = "settle"
  /\ IF run.exec = None
     THEN run' = Run0 /\ UNCHANGED <<file, plan, faults>>
     ELSE \E status \in {Status, "failed"} : FinishPlanRun(status)
  /\ UNCHANGED <<attached, ids>>

-----------------------------------------------------------------------------
(* Interruptions.                                                           *)

\* abort reaches the Agent only while it runs
Abort ==
  /\ run.pc # "idle"
  /\ run' = [run EXCEPT !.planAbort = @ \/ plan.phase = "executing",
                        !.abort = @ \/ AgentRuns]
  /\ UNCHANGED <<file, attached, plan, ids, faults>>

Steer ==
  /\ AgentRuns /\ ~run.abort
  /\ Plain < MaxPlain
  /\ run' = [run EXCEPT !.steer = TRUE]
  /\ UNCHANGED <<file, attached, plan, ids, faults>>

\* The task that drives the run is cancelled.  A tool that runs absorbs the
\* cancellation: its call fails and the abort signal is set.
CancelTask ==
  /\ \/ /\ run.pc \in {"tools", "question"} /\ run.todo # <<>>
        /\ run' = [Done(FALSE) EXCEPT !.pc = "tools", !.future = None,
                                      !.abort = TRUE]
        /\ UNCHANGED <<file, plan, faults>>
     \/ /\ run.pc \notin {"idle", "question"}
        /\ IF run.exec = None
           THEN run' = Run0 /\ UNCHANGED <<file, plan, faults>>
           ELSE FinishPlanRun("aborted")
  /\ UNCHANGED <<attached, ids>>

\* The process dies; a new one opens a session that is on disk, or a new one
Crash ==
  /\ Fault
  /\ \E torn \in BOOLEAN, s \in SessionId :
       LET found == [file EXCEPT ![attached] = Recovered(@, torn)] IN
       /\ torn => Room(1)
       /\ \/ found[s].flushed /\ file' = found
          \/ ~file[s].used /\ file' = [found EXCEPT ![s] = Blank(None)]
       /\ Attach(s)
  /\ UNCHANGED ids

Revised(log) == {i \in DOMAIN log : log[i].type = "revision"}
Tokens ==
  UNION {{Token(file[s].log[i]) : i \in Revised(file[s].log)} : s \in SessionId}

HostStep ==
  \/ EnterPlanMode \/ CancelPlanMode \/ AnswerPlanQuestion
  \/ \E token \in Tokens : ExecutePlan(token)
  \/ \E token \in Tokens, s \in SessionId : HandoffPlan(token, s)
  \/ \E s \in SessionId : NewSession(s)
  \/ \E n \in BranchPoints : SwitchBranch(n)
  \/ AppendOther \/ Prompt \/ Abort \/ Steer \/ CancelTask

RunStep ==
  Begin \/ Model \/ Tool \/ EndTurn \/ QuestionReturns \/ Settle

Next == HostStep \/ RunStep \/ Crash

Spec == Init /\ [][Next]_vars

-----------------------------------------------------------------------------
(* Properties.                                                              *)

Files == [used : BOOLEAN, parent : MaybeSession, log : Seq(Entries),
          flushed : BOOLEAN, durable : 0..MaxLog]

Projections ==
  [mode : {"default", "plan"},
   phase : {"idle", "drafting", "awaiting_answer", "ready", "cancelled",
            "executing", "uncertain", "settled", "failed", "aborted",
            "recovery_error"},
   plan : MaybeId, latest : Revisions \cup {None}, question : MaybeId,
   run : Runs \cup {None}, review : MaybeSession, target : MaybeSession]

RunStates ==
  [pc : {"idle", "extract", "retrieve", "model", "tools", "question", "settle"},
   exec : MaybeId, tools : SUBSET Kinds, todo : Seq(Kinds), call : MaybeId,
   sole : BOOLEAN, turn : {"last", "ended", "goes on"},
   stop : {None, "stop", "length", "error", "aborted"},
   abort : BOOLEAN, planAbort : BOOLEAN,
   future : {None, "pending", "answered", "cancelled"}, steer : BOOLEAN]

\* Types, and the bounds that name them.
TypeOK ==
  /\ file \in [SessionId -> Files]
  /\ \A s \in SessionId : file[s].durable <= Len(file[s].log)
  /\ attached \in SessionId
  /\ plan \in Projections
  /\ run \in RunStates
  /\ ids \in 0..MaxIds
  /\ faults \in 0..MaxFaults

Damaged(log) == \E i \in DOMAIN log : log[i].type = "issue"

\* No part of a branch, up to a damaged line, is rejected by the reducer.
Accepted(f) ==
  \A n \in 0 .. Len(f.log) :
    LET part == SubSeq(f.log, 1, n) IN
    ~Damaged(part) =>
      ReducePlanState(part, f.parent, None).phase # "recovery_error"

\* The cached Plan State is what reopening the branch would project, or blocks.
Follows == plan = Projection(Current, run.exec) \/ plan.phase = "recovery_error"

\* The guards of the live operations are at least as strict as the reducer's:
\* whatever the order of controls, tools, steering, crashes and failed writes,
\* while the cached Plan State is what the branch says, no step leaves a session
\* that replays to recovery_error unless a line of its file is damaged.
LiveOpsNeverPoison ==
  [][Follows /\ (\A s \in SessionId : Accepted(file[s]))
     => \A s \in SessionId : Accepted(file'[s])]_vars

\* "Execution writes and flushes plan_run: started before enabling Default
\* tools": while a Plan run is live or a question has been answered, all of the
\* branch is on the disk, and while a question is waited for, that question,
\* unless the branch has rejected it; whatever append or flush raises, a boundary
\* that may not be there is not acted upon.
AuthorizationIsDurable ==
  /\ run.exec # None \/ run.future = "answered" =>
       Current.durable = Len(Current.log)
  /\ run.future = "pending" =>
       \/ plan.phase = "recovery_error"
       \/ \E i \in 1 .. Current.durable :
            Current.log[i] = Question(plan.plan, plan.question)

\* What has reached the disk leaves its branch only when the user goes back
\* behind it with /tree, whatever fails, crashes or is written meanwhile.
WrittenSurvives ==
  [][\A s \in SessionId : \A i \in 1 .. file[s].durable :
       \/ i \in 1 .. file'[s].durable /\ file'[s].log[i] = file[s].log[i]
       \/ \E n \in BranchPoints : n < i /\ SwitchBranch(n)]_vars

\* The process that confirmed a plan owns the run exactly as long as it is
\* projected as executing, under the revision that was confirmed.
LiveRunIsExecuting ==
  /\ (run.exec # None) <=> (plan.phase = "executing")
  /\ run.exec # None => plan.run = Run("started", Token(plan.latest), run.exec)

\* A flush that raises behind a question, an answer or a revision leaves the
\* cached Plan State behind the branch until a message or a control replays it.
\* That happens only while a plan is drafted or a question waits: in every phase
\* in which a plan may be confirmed, carried out or settled, or development goes on,
\* the cached Plan State is what reopening the branch would project.
CacheIsProjection ==
  plan.phase \in {"drafting", "awaiting_answer", "recovery_error"}
    \/ plan = Projection(Current, run.exec)

\* The agent loop keeps the tool profile it adopted at the last user message.
\* However controls, branches and runs interleave, a loop that still holds the
\* development tools never finds itself in Plan Mode or with a plan unresolved.
DevelopmentStaysOutOfPlanMode ==
  "develop" \in run.tools =>
    plan.mode = "default" /\ plan.phase # "uncertain"

\* "If a later process finds started without a live owner, it projects
\* uncertain and requires explicit user action": unless the user cancels it,
\* starts another plan, or goes to another branch or session, it stays so.
UncertainWaitsForUser ==
  [][/\ plan.phase = "uncertain" /\ attached' = attached
     /\ Len(Current.log) <= Len(file'[attached].log)
     /\ ~Damaged(file'[attached].log)
     => plan'.phase \in {"uncertain", "cancelled"} \/ plan'.plan # plan.plan]_vars

\* What a crash may change of a plan: a run that was executing becomes
\* uncertain, a torn line blocks, a session never written is gone.  A plan
\* waiting for an answer or a confirmation still waits.
CrashKeepsThePlan ==
  [][/\ faults' # faults /\ run' = Run0 /\ attached' = attached
     /\ ~Damaged(file'[attached].log) /\ run.exec # None
     => plan'.phase = "uncertain" /\ plan'.latest = plan.latest]_vars

\* When a source session comes to say that its plan was handed to a child, the
\* child is already on disk in full, knows its source, and asks its user to review
\* the very revision that the user of the source saw; and no plan under review is
\* handed off again.
HandedInFull(s) ==
  LET after == file'[s].log
      handed == after[Len(after)]
      p == Projection(file'[s], None)
      child == file'[handed.related]
      c == Projection(child, None)
  IN
  /\ Len(after) > Len(file[s].log)
  /\ handed.type = "mode" /\ handed.mode = "default" /\ handed.reason = "handoff"
  => /\ p.target = handed.related /\ p.review = None
     /\ child.flushed /\ child.durable = Len(child.log) /\ child.parent = s
     /\ c.phase = "ready" /\ c.review = s /\ c.latest.digest = p.latest.digest

HandoffIsComplete == [][\A s \in SessionId : HandedInFull(s)]_vars

\* What test_live_question_can_be_cancelled_through_desktop_rpc_without_
\* default_continuation asserts: once the user cancels a live question, the
\* run makes no further request (unless the user steers it, which brings the
\* development tools back).
CancelledQuestionEndsTheRun ==
  run.pc = "model" /\ plan.phase = "cancelled" => "ask" \notin run.tools

\* "clients project `completed` as `settled`", which means that "the Agent
\* execution turn ended normally": an interrupted run never settles.
InterruptedRunNeverSettles ==
  [][run.exec # None /\ run.abort /\ run'.exec = None
     => plan'.phase # "settled"]_vars

\* "uncertain / recovery_error: ... start a new Plan Episode": entering Plan
\* Mode, when it does not raise, leaves a session that is drafting.
EnterStartsAnEpisode ==
  [][LET log == file'[attached].log IN
     /\ Len(log) > Len(Current.log)
     /\ log[Len(log)].type = "mode" /\ log[Len(log)].mode = "plan"
     => plan'.phase = "drafting"]_vars
=============================================================================
