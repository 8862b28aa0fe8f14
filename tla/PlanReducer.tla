----------------------------- MODULE PlanReducer -----------------------------
(***************************************************************************)
(* reduce_plan_state (core/plan_mode.py): the pure fold that rebuilds Plan *)
(* State from the entries of one session branch.  An entry that does not   *)
(* fit the state it meets blocks the session (recovery_error) until an     *)
(* explicit user exit; a storage diagnostic (`issue`) blocks it too.       *)
(*                                                                         *)
(* Ids, titles and Markdown are opaque.  A submit_plan call stands for the *)
(* content it carries, and a digest for the tuple it is computed from: the *)
(* hash is taken to be injective.  Legacy schema-0 revisions and the       *)
(* legacy_candidate hint are left out.                                     *)
(***************************************************************************)
EXTENDS Integers, Sequences

CONSTANTS
  Id,         \* plan, question, run and tool-call ids
  SessionId,
  None        \* Python's None

ASSUME IdAssumption == None \notin Id \cup SessionId

-----------------------------------------------------------------------------
(* Entries of a branch.                                                    *)

Digest(plan, number, content) == <<plan, number, content>>

Message(role, submit, alone, complete) ==
  [type |-> "message", role |-> role, submit |-> submit, alone |-> alone,
   complete |-> complete]
ModeChange(mode, plan, reason, related) ==
  [type |-> "mode", mode |-> mode, plan |-> plan, reason |-> reason,
   related |-> related]
Question(plan, q) == [type |-> "question", plan |-> plan, question |-> q]
Answer(plan, q) == [type |-> "answer", plan |-> plan, question |-> q]
Revision(plan, number, call, source, origin) ==
  [type |-> "revision", plan |-> plan, number |-> number, call |-> call,
   digest |-> Digest(plan, number, call), source |-> source, origin |-> origin]
Run(status, token, run) ==
  [type |-> "run", status |-> status, token |-> token, run |-> run]
Other == [type |-> "other"]     \* model changes, subagent tasks, names
Issue == [type |-> "issue"]     \* a line that could not be read

\* Everything a line may say, whether or not the program would write it
MaybeId == Id \cup {None}
MaybeSession == SessionId \cup {None}
Digests == MaybeId \X Int \X MaybeId
Messages == [type : {"message"}, role : {"user", "assistant", "toolResult"},
             submit : MaybeId, alone : BOOLEAN, complete : BOOLEAN]
ModeChanges == [type : {"mode"}, mode : {"plan", "default"}, plan : MaybeId,
                reason : {"user", "handoff"}, related : MaybeSession]
Questions == [type : {"question"}, plan : MaybeId, question : Id]
Answers == [type : {"answer"}, plan : MaybeId, question : Id]
Revisions == [type : {"revision"}, plan : MaybeId, number : Int,
              call : MaybeId, digest : Digests, source : Int,
              origin : MaybeSession]
Runs == [type : {"run"}, status : {"started", "completed", "failed", "aborted"},
         token : MaybeId \X Int \X Digests, run : MaybeId]
Entries == Messages \cup ModeChanges \cup Questions \cup Answers
             \cup Revisions \cup Runs \cup {Other, Issue}

ASSUME NoneAssumption == None \notin Entries

\* What confirmation names: planId + revision + digest
Token(revision) == <<revision.plan, revision.number, revision.digest>>

-----------------------------------------------------------------------------
(* Plan State, with what the fold remembers on the side.  `last` is the    *)
(* previous entry and `len` its position, which stands for its id.         *)

InitialState ==
  [mode |-> "default", phase |-> "idle", plan |-> None, latest |-> None,
   question |-> None, run |-> None, blocked |-> FALSE, review |-> None,
   target |-> None, plans |-> {}, questions |-> {}, runs |-> {}, calls |-> {},
   last |-> None, len |-> 0]

Block(s) == [s EXCEPT !.mode = "plan", !.phase = "recovery_error",
                      !.question = None, !.blocked = TRUE]

\* In plan mode, `review` is the handoff origin of the episode
ValidModeChange(s, e) ==
  IF e.mode = "plan"
  THEN /\ e.plan # None
       /\ e.plan \notin s.plans
       /\ s.phase # "executing"
       /\ s.mode # "plan"
  ELSE /\ \/ s.mode = "plan" /\ s.phase \in {"drafting", "awaiting_answer", "ready"}
          \/ s.phase = "uncertain"
       /\ e.plan = s.plan

ValidRelation(s, e, parent) ==
  IF e.reason = "handoff"
  THEN /\ e.related # None
       /\ IF e.mode = "plan" THEN e.related = parent ELSE s.phase = "ready"
  ELSE e.related = None

ValidQuestion(s, e) ==
  /\ s.mode = "plan" /\ s.phase = "drafting"
  /\ e.plan = s.plan
  /\ s.question = None
  /\ <<e.plan, e.question>> \notin s.questions

ValidAnswer(s, e) ==
  /\ s.mode = "plan" /\ s.phase = "awaiting_answer"
  /\ e.plan = s.plan
  /\ s.question # None /\ e.question = s.question

IsHandoffCopy(s, e) ==
  s.latest = None /\ e.origin # None /\ e.origin = s.review

\* The entry just before must be the message whose only call submitted it
ValidSource(s, e) ==
  /\ e.source = s.len
  /\ s.last # None
  /\ s.last.type = "message"
  /\ s.last.role = "assistant"
  /\ s.last.complete /\ s.last.alone
  /\ s.last.submit = e.call

NumberFits(s, e) ==
  \/ e.number = (IF s.latest = None THEN 1 ELSE s.latest.number + 1)
  \/ IsHandoffCopy(s, e)

\* Mutant: a digest only has to be there
DigestIsThere(e) == e.digest # <<>>

DigestFits(e) == e.digest = Digest(e.plan, e.number, e.call)

ValidRevision(s, e) ==
  /\ s.mode = "plan" /\ s.phase = "drafting"
  /\ e.plan = s.plan
  /\ e.number >= 1
  /\ NumberFits(s, e)
  /\ e.call # None /\ e.call \notin s.calls
  /\ IF e.origin = None THEN ValidSource(s, e) ELSE IsHandoffCopy(s, e)
  /\ DigestFits(e)

\* Mutant: a run id may start twice
IsAnyRun(s, e) == e.run # None

IsNewRun(s, e) == e.run # None /\ e.run \notin s.runs

ValidRun(s, e) ==
  IF e.status = "started"
  THEN /\ s.mode = "plan" /\ s.phase = "ready"
       /\ s.latest # None /\ e.token = Token(s.latest)
       /\ IsNewRun(s, e)
  ELSE /\ s.phase \in {"executing", "uncertain"}
       /\ s.latest # None
       /\ s.run # None /\ s.run.status = "started"
       /\ <<e.token, e.run>> = <<s.run.token, s.run.run>>

Valid(s, e, parent) ==
  /\ e.type = "mode" => ValidModeChange(s, e) /\ ValidRelation(s, e, parent)
  /\ e.type = "question" => ValidQuestion(s, e)
  /\ e.type = "answer" => ValidAnswer(s, e)
  /\ e.type = "revision" => ValidRevision(s, e)
  /\ e.type = "run" => ValidRun(s, e)
  /\ e.type # "issue"

-----------------------------------------------------------------------------
(* What an accepted entry does.                                            *)

\* A user message reopens a ready plan
OnMessage(s, e) ==
  IF s.mode = "plan" /\ s.phase = "ready" /\ e.role = "user"
  THEN [s EXCEPT !.phase = "drafting"] ELSE s

\* A new episode forgets everything but the ids already used
OnModeChange(s, e) ==
  IF e.mode = "plan"
  THEN [InitialState EXCEPT
          !.mode = "plan", !.phase = "drafting", !.plan = e.plan,
          !.review = e.related, !.plans = s.plans \cup {e.plan},
          !.questions = s.questions, !.runs = s.runs, !.calls = s.calls]
  ELSE [s EXCEPT
          !.mode = "default",
          !.phase = IF s.plan = None THEN "idle" ELSE "cancelled",
          !.question = None,
          !.target = e.related]

OnQuestion(s, e) ==
  [s EXCEPT !.phase = "awaiting_answer", !.question = e.question,
            !.questions = @ \cup {<<e.plan, e.question>>}]

OnAnswer(s, e) == [s EXCEPT !.phase = "drafting", !.question = None]

OnRevision(s, e) ==
  [s EXCEPT !.phase = "ready", !.latest = e, !.question = None,
            !.calls = IF e.origin = None THEN @ \cup {e.call} ELSE @]

\* Mutant: a started run counts as live wherever it is replayed
StartedPhaseLive(e, live) == "executing"

\* Executing only while this runtime owns the run; otherwise uncertain
StartedPhase(e, live) ==
  IF live # None /\ e.run = live THEN "executing" ELSE "uncertain"

OnRun(s, e, live) ==
  IF e.status = "started"
  THEN [s EXCEPT !.mode = "default", !.question = None, !.run = e,
                 !.runs = @ \cup {e.run}, !.phase = StartedPhase(e, live)]
  ELSE [s EXCEPT !.mode = "default", !.run = e,
                 !.phase = IF e.status = "completed" THEN "settled" ELSE e.status]

Accept(s, e, live) ==
  CASE e.type = "message"  -> OnMessage(s, e)
    [] e.type = "mode"     -> OnModeChange(s, e)
    [] e.type = "question" -> OnQuestion(s, e)
    [] e.type = "answer"   -> OnAnswer(s, e)
    [] e.type = "revision" -> OnRevision(s, e)
    [] e.type = "run"      -> OnRun(s, e, live)
    [] OTHER               -> s

\* Mutant: any exit unblocks, of whatever episode
IsAnyExit(s, e) == e.type = "mode" /\ e.mode = "default"

\* A blocked session listens to one entry only: the user's exit from the
\* episode it was blocked in
IsRecoveryExit(s, e) ==
  /\ e.type = "mode" /\ e.mode = "default" /\ e.reason = "user"
  /\ e.plan = s.plan

Recover(s, e) ==
  IF IsRecoveryExit(s, e)
  THEN [s EXCEPT !.mode = "default", !.question = None, !.blocked = FALSE,
                 !.phase = IF s.plan = None THEN "idle" ELSE "cancelled"]
  ELSE s

Step(s, e, parent, live) ==
  LET t == IF s.blocked /\ e.type # "issue" THEN Recover(s, e)
           ELSE IF Valid(s, e, parent) THEN Accept(s, e, live)
           ELSE Block(s)
  IN IF e.type = "issue" THEN t ELSE [t EXCEPT !.last = e, !.len = s.len + 1]

\* The fold, as a function of how many entries have been read
ReducePlanState(entries, parent, live) ==
  LET reduced[n \in 0..Len(entries)] ==
        IF n = 0 THEN InitialState
        ELSE Step(reduced[n - 1], entries[n], parent, live)
  IN reduced[Len(entries)]
=============================================================================
