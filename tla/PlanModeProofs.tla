--------------------------- MODULE PlanModeProofs ---------------------------
(***************************************************************************)
(* Proofs about Plan State and Plan Mode: whatever entries a branch holds, *)
(* and whatever the order of controls, tools, replies, failed writes and   *)
(* crashes, for any sessions, batches, ids and bounds.  In parts:          *)
(*                                                                         *)
(* Plan State is well formed after any step of the fold (WellFormed,       *)
(* ReplayIInv), damaged and foreign files included: all of PlanReplay.     *)
(*                                                                         *)
(* Sessions and runs fit (IInv): what is on the disk is a part of the      *)
(* branch, and a Plan run has its session written through.                 *)
(*                                                                         *)
(* What is on the disk stays there: whatever Keeps a branch loses none of  *)
(* it, all file operations but /tree do, failed ones included, and a       *)
(* session that the program starts anew has nothing to lose (UInv).        *)
(*                                                                         *)
(* The program writes nothing that its own reducer rejects while its       *)
(* cached Plan State follows the branch (PInv; with "clean" for that claim *)
(* and with "any" for the rest).  For this the fold is unfolded (After)    *)
(* and followed entry by entry: a branch is Sound, the cache is Attuned to *)
(* it, which allows it to lag behind an append whose flush has raised, a   *)
(* run in progress is known to no other branch and leaves its own          *)
(* uncertain (Owns, NowhereElse), and the tools of development are with a  *)
(* run outside Plan Mode (Tooled).  A reader should start from PInv and    *)
(* from SyncedP, what _sync_plan_state makes of it.                        *)
(*                                                                         *)
(* What authorizes anything is on the disk before it is acted upon (DInv): *)
(* a branch that is all on the disk stays so unless an append is followed  *)
(* by a flush that raises, and a control whose flush may raise is refused  *)
(* while a Plan run is live or an answer waits to be read.                 *)
(*                                                                         *)
(* A session comes to say that its plan was handed over (Told) only in the *)
(* step that has written the whole child before.                           *)
(***************************************************************************)
EXTENDS PlanMode, PlanReplay, FiniteSetTheorems, TLAPS

-----------------------------------------------------------------------------
(* Plan State, as reduce_plan_state folds it.                               *)

Confirmed == {"ready", "executing", "uncertain", "settled", "failed", "aborted"}

\* A revision that belongs to the episode and carries its own digest
Intact(s) ==
  /\ s.plan # None
  /\ s.latest.plan = s.plan
  /\ s.latest.number >= 1
  /\ s.latest.digest = Digest(s.plan, s.latest.number, s.latest.call)

\* A run started for the latest revision
Started(s) ==
  /\ s.run # None
  /\ s.run.status = "started"
  /\ s.run.token = Token(s.latest)
  /\ s.run.run \in s.runs

WellFormed(s, live) ==
  /\ s.mode = "plan" <=>
       s.phase \in {"drafting", "awaiting_answer", "ready", "recovery_error"}
  /\ s.phase = "recovery_error" <=> s.blocked
  /\ (s.question # None) <=> (s.phase = "awaiting_answer")
  /\ s.question # None => <<s.plan, s.question>> \in s.questions
  /\ s.phase \in {"drafting", "awaiting_answer"} => s.plan # None
  /\ s.phase \in Confirmed => s.latest # None
  /\ s.latest # None => Intact(s)
  /\ s.phase \in {"executing", "uncertain"} => Started(s)
  /\ s.phase = "executing" => live # None /\ s.run.run = live

\* The inductive invariant of a replay.
ReplayIInv == ReplayTypeOK /\ WellFormed(state, Live)

-----------------------------------------------------------------------------
(* Types.                                                                   *)

\* The type of an entry tells its kind.
LEMMA EntryKinds ==
  ASSUME NEW e \in Entries
  PROVE  /\ e # None
         /\ e.type = "message" => e \in Messages
         /\ e.type = "mode" => e \in ModeChanges
         /\ e.type = "question" => e \in Questions
         /\ e.type = "answer" => e \in Answers
         /\ e.type = "revision" => e \in Revisions
         /\ e.type = "run" => e \in Runs
BY NoneAssumption DEF Entries, Messages, ModeChanges, Questions, Answers,
   Revisions, Runs, Other, Issue

-----------------------------------------------------------------------------
(* Every way Plan State may change keeps it a well-formed Plan State.       *)

\* Plan State starts idle.
LEMMA InitialWellFormed ==
  ASSUME NEW live
  PROVE  InitialState \in PlanState /\ WellFormed(InitialState, live)
<1>1. InitialState \in PlanState
  BY DEF InitialState, PlanState, Phases, MaybeId, MaybeSession
<1>2. WellFormed(InitialState, live)
  BY DEF InitialState, WellFormed, Confirmed
<1>3. QED
  BY <1>1, <1>2

\* Blocking: Plan Mode, no question, and the plan left as it was.
LEMMA BlockWellFormed ==
  ASSUME NEW live, NEW s \in PlanState, WellFormed(s, live)
  PROVE  Block(s) \in PlanState /\ WellFormed(Block(s), live)
<1>1. Block(s) \in PlanState
  BY ZenonT(80) DEF Block, PlanState, Phases, MaybeId
<1>2. WellFormed(Block(s), live)
  BY DEF Block, PlanState, WellFormed, Confirmed, Intact
<1>3. QED
  BY <1>1, <1>2

\* The exit from a blocked state: Default Mode, idle or cancelled.
LEMMA RecoverWellFormed ==
  ASSUME NEW live, NEW s \in PlanState, WellFormed(s, live), NEW e
  PROVE  Recover(s, e) \in PlanState /\ WellFormed(Recover(s, e), live)
<1> DEFINE phase == IF s.plan = None THEN "idle" ELSE "cancelled"
           t == [s EXCEPT !.mode = "default", !.question = None,
                          !.blocked = FALSE, !.phase = phase]
<1>1. phase \in Phases /\ phase \in {"idle", "cancelled"}
  BY DEF Phases
<1>2. Recover(s, e) \in {s, t}
  BY DEF Recover
<1> HIDE DEF phase
<1>3. t \in PlanState
  BY <1>1 DEF PlanState, MaybeId
<1>4. WellFormed(t, live)
  BY <1>1 DEF PlanState, WellFormed, Confirmed, Intact
<1>5. QED
  BY <1>2, <1>3, <1>4

\* A user message reopens a plan that is ready.
LEMMA MessageWellFormed ==
  ASSUME NEW live, NEW s \in PlanState, WellFormed(s, live), NEW e \in Messages
  PROVE  OnMessage(s, e) \in PlanState /\ WellFormed(OnMessage(s, e), live)
<1> DEFINE t == [s EXCEPT !.phase = "drafting"]
<1>1. CASE s.phase = "ready" /\ OnMessage(s, e) = t
  <2>1. t \in PlanState
    BY DEF PlanState, Phases
  <2>2. WellFormed(t, live)
    BY <1>1 DEF PlanState, WellFormed, Confirmed, Intact
  <2>3. QED
    BY <1>1, <2>1, <2>2
<1>2. CASE OnMessage(s, e) = s
  BY <1>2
<1>3. QED
  BY <1>1, <1>2 DEF OnMessage

\* An accepted switch to Plan Mode begins an episode; one to Default ends it.
LEMMA ModeChangeWellFormed ==
  ASSUME NEW live, NEW s \in PlanState, WellFormed(s, live), NEW e \in ModeChanges,
         ValidModeChange(s, e)
  PROVE  OnModeChange(s, e) \in PlanState /\ WellFormed(OnModeChange(s, e), live)
<1>1. CASE e.mode = "plan"
  <2> DEFINE plans == s.plans \cup {e.plan}
             t == [InitialState EXCEPT
                     !.mode = "plan", !.phase = "drafting", !.plan = e.plan,
                     !.review = e.related, !.plans = plans,
                     !.questions = s.questions, !.runs = s.runs,
                     !.calls = s.calls]
  <2>1. e.plan \in Id /\ e.related \in MaybeSession
    BY <1>1 DEF ValidModeChange, ModeChanges, MaybeId
  <2>2. plans \in SUBSET Id
    BY <2>1 DEF PlanState
  <2>3. OnModeChange(s, e) = t
    BY <1>1 DEF OnModeChange
  <2> HIDE DEF plans
  <2>4. t \in PlanState
    BY <2>1, <2>2, InitialWellFormed, ZenonT(80) DEF PlanState, Phases, MaybeId
  <2>5. WellFormed(t, live)
    BY <2>1, IdAssumption DEF InitialState, WellFormed, Confirmed
  <2>6. QED
    BY <2>3, <2>4, <2>5
<1>2. CASE e.mode # "plan"
  <2> DEFINE phase == IF s.plan = None THEN "idle" ELSE "cancelled"
             t == [s EXCEPT !.mode = "default", !.phase = phase,
                            !.question = None, !.target = e.related]
  <2>1. phase \in Phases /\ phase \in {"idle", "cancelled"}
    BY DEF Phases
  <2>2. OnModeChange(s, e) = t
    BY <1>2 DEF OnModeChange
  <2>3. ~s.blocked
    BY <1>2 DEF ValidModeChange, WellFormed
  <2> HIDE DEF phase
  <2>4. t \in PlanState
    BY <2>1 DEF PlanState, ModeChanges, MaybeId
  <2>5. WellFormed(t, live)
    BY <2>1, <2>3 DEF PlanState, WellFormed, Confirmed, Intact
  <2>6. QED
    BY <2>2, <2>4, <2>5
<1>3. QED
  BY <1>1, <1>2

\* An accepted question is the pending one.
LEMMA QuestionWellFormed ==
  ASSUME NEW live, NEW s \in PlanState, WellFormed(s, live), NEW e \in Questions,
         ValidQuestion(s, e)
  PROVE  OnQuestion(s, e) \in PlanState /\ WellFormed(OnQuestion(s, e), live)
<1> DEFINE asked == s.questions \cup {<<e.plan, e.question>>}
           t == [s EXCEPT !.phase = "awaiting_answer",
                          !.question = e.question, !.questions = asked]
<1>1. e.plan \in MaybeId /\ e.question \in Id
  BY DEF Questions
<1>2. asked \in SUBSET (MaybeId \X Id) /\ <<e.plan, e.question>> \in asked
  BY <1>1 DEF PlanState
<1>3. OnQuestion(s, e) = t
  BY DEF OnQuestion
<1>4. e.plan = s.plan /\ s.phase = "drafting" /\ s.mode = "plan"
  BY DEF ValidQuestion
<1> HIDE DEF asked
<1>5. t \in PlanState
  BY <1>1, <1>2, ZenonT(80) DEF PlanState, Phases, MaybeId
<1>6. WellFormed(t, live)
  BY <1>1, <1>2, <1>4, IdAssumption
  DEF PlanState, WellFormed, Confirmed, Intact
<1>7. QED
  BY <1>3, <1>5, <1>6

\* An accepted answer leaves no question pending.
LEMMA AnswerWellFormed ==
  ASSUME NEW live, NEW s \in PlanState, WellFormed(s, live), NEW e, ValidAnswer(s, e)
  PROVE  OnAnswer(s, e) \in PlanState /\ WellFormed(OnAnswer(s, e), live)
<1>1. OnAnswer(s, e) \in PlanState
  BY DEF OnAnswer, PlanState, Phases, MaybeId
<1>2. WellFormed(OnAnswer(s, e), live)
  BY DEF OnAnswer, ValidAnswer, PlanState, WellFormed, Confirmed, Intact
<1>3. QED
  BY <1>1, <1>2

\* An accepted revision is intact and becomes the one to confirm.
LEMMA RevisionWellFormed ==
  ASSUME NEW live, NEW s \in PlanState, WellFormed(s, live), NEW e \in Revisions,
         e # None, ValidRevision(s, e)
  PROVE  OnRevision(s, e) \in PlanState /\ WellFormed(OnRevision(s, e), live)
<1> DEFINE calls == IF e.origin = None THEN s.calls \cup {e.call} ELSE s.calls
           t == [s EXCEPT !.phase = "ready", !.latest = e,
                          !.question = None, !.calls = calls]
<1>1. e.call \in Id
  BY DEF ValidRevision, Revisions, MaybeId
<1>2. calls \in SUBSET Id
  BY <1>1 DEF PlanState
<1>3. OnRevision(s, e) = t
  BY DEF OnRevision
<1>4. s.plan # None /\ s.mode = "plan" /\ s.phase = "drafting" /\ ~s.blocked
  BY DEF ValidRevision, WellFormed
<1>5. /\ e.plan = s.plan /\ e.number >= 1
      /\ e.digest = Digest(s.plan, e.number, e.call)
  BY DEF ValidRevision, DigestFits
<1> HIDE DEF calls
<1>6. t \in PlanState
  BY <1>2 DEF PlanState, Phases, MaybeId
<1>7. WellFormed(t, live)
  BY <1>4, <1>5 DEF PlanState, WellFormed, Confirmed, Intact
<1>8. QED
  BY <1>3, <1>6, <1>7

\* An accepted start owns the latest revision; an accepted end resolves it.
LEMMA RunWellFormed ==
  ASSUME NEW live, NEW s \in PlanState, WellFormed(s, live), NEW e \in Runs, e # None,
         ValidRun(s, e)
  PROVE  OnRun(s, e, live) \in PlanState /\ WellFormed(OnRun(s, e, live), live)
<1>1. CASE e.status = "started"
  <2> DEFINE phase == StartedPhase(e, live)
             runs == s.runs \cup {e.run}
             t == [s EXCEPT !.mode = "default", !.question = None, !.run = e,
                            !.runs = runs, !.phase = phase]
  <2>1. /\ phase \in {"executing", "uncertain"} /\ phase \in Phases
        /\ phase = "executing" => live # None /\ e.run = live
    BY DEF StartedPhase, Phases
  <2>2. e.run \in Id
    BY <1>1 DEF ValidRun, IsNewRun, Runs, MaybeId
  <2>3. runs \in SUBSET Id /\ e.run \in runs
    BY <2>2 DEF PlanState
  <2>4. OnRun(s, e, live) = t
    BY <1>1 DEF OnRun
  <2>5. s.latest # None /\ e.token = Token(s.latest) /\ ~s.blocked
    BY <1>1 DEF ValidRun, WellFormed
  <2> HIDE DEF phase, runs
  <2>6. t \in PlanState
    BY <2>1, <2>3 DEF PlanState, MaybeId
  <2>7. Intact(t)
    BY <2>5 DEF PlanState, WellFormed, Intact
  <2>8. Started(t)
    BY <1>1, <2>3, <2>5 DEF PlanState, Started
  <2>9. WellFormed(t, live)
    BY <2>1, <2>5, <2>7, <2>8 DEF PlanState, WellFormed, Confirmed
  <2>10. QED
    BY <2>4, <2>6, <2>9
<1>2. CASE e.status # "started"
  <2> DEFINE phase == IF e.status = "completed" THEN "settled" ELSE e.status
             t == [s EXCEPT !.mode = "default", !.run = e, !.phase = phase]
  <2>1. phase \in {"settled", "failed", "aborted"} /\ phase \in Phases
    BY <1>2 DEF Runs, Phases
  <2>2. OnRun(s, e, live) = t
    BY <1>2 DEF OnRun
  <2>3. s.latest # None /\ s.question = None /\ ~s.blocked
    BY <1>2 DEF ValidRun, WellFormed
  <2> HIDE DEF phase
  <2>4. t \in PlanState
    BY <2>1 DEF PlanState
  <2>5. WellFormed(t, live)
    BY <2>1, <2>3 DEF PlanState, WellFormed, Confirmed, Intact
  <2>6. QED
    BY <2>2, <2>4, <2>5
<1>3. QED
  BY <1>1, <1>2

\* So an accepted entry, of whatever kind, leads to a well-formed Plan State.
LEMMA AcceptWellFormed ==
  ASSUME NEW live, NEW s \in PlanState, WellFormed(s, live), NEW e \in Entries, NEW p,
         Valid(s, e, p)
  PROVE  Accept(s, e, live) \in PlanState /\ WellFormed(Accept(s, e, live), live)
<1>1. CASE e.type = "message"
  BY <1>1, EntryKinds, MessageWellFormed DEF Accept
<1>2. CASE e.type = "mode"
  BY <1>2, EntryKinds, ModeChangeWellFormed DEF Accept, Valid
<1>3. CASE e.type = "question"
  BY <1>3, EntryKinds, QuestionWellFormed DEF Accept, Valid
<1>4. CASE e.type = "answer"
  BY <1>4, AnswerWellFormed DEF Accept, Valid
<1>5. CASE e.type = "revision"
  BY <1>5, EntryKinds, RevisionWellFormed DEF Accept, Valid
<1>6. CASE e.type = "run"
  BY <1>6, EntryKinds, RunWellFormed DEF Accept, Valid
<1>7. CASE e.type \notin {"message", "mode", "question", "answer", "revision", "run"}
  BY <1>7 DEF Accept
<1>8. QED
  BY <1>1, <1>2, <1>3, <1>4, <1>5, <1>6, <1>7

-----------------------------------------------------------------------------
(* The step of the fold.                                                    *)

\* What one entry makes of Plan State, before its place is recorded
Outcome(s, e, parent, live) ==
  IF s.blocked /\ e.type # "issue" THEN Recover(s, e)
  ELSE IF Valid(s, e, parent) THEN Accept(s, e, live)
  ELSE Block(s)

\* A step is its outcome, with the entry remembered as the last one read.
LEMMA StepOutcome ==
  ASSUME NEW parent, NEW live, NEW s, NEW e
  PROVE  Step(s, e, parent, live) =
           IF e.type = "issue" THEN Outcome(s, e, parent, live)
           ELSE [Outcome(s, e, parent, live) EXCEPT !.last = e, !.len = s.len + 1]
BY DEF Step, Outcome

\* Every entry, fitting or not, leads to a well-formed Plan State.
LEMMA OutcomeWellFormed ==
  ASSUME NEW parent, NEW live, NEW s \in PlanState, WellFormed(s, live), NEW e \in Entries
  PROVE  Outcome(s, e, parent, live) \in PlanState /\ WellFormed(Outcome(s, e, parent, live), live)
<1>1. CASE s.blocked /\ e.type # "issue"
  BY <1>1, RecoverWellFormed DEF Outcome
<1>2. CASE ~(s.blocked /\ e.type # "issue") /\ Valid(s, e, parent)
  BY <1>2, AcceptWellFormed DEF Outcome
<1>3. CASE ~(s.blocked /\ e.type # "issue") /\ ~Valid(s, e, parent)
  BY <1>3, BlockWellFormed DEF Outcome
<1>4. QED
  BY <1>1, <1>2, <1>3

\* Recording the place of an entry changes nothing that WellFormed speaks of.
LEMMA StepWellFormed ==
  ASSUME NEW parent, NEW live, NEW s \in PlanState, WellFormed(s, live), NEW e \in Entries
  PROVE  Step(s, e, parent, live) \in PlanState
         /\ WellFormed(Step(s, e, parent, live), live)
<1> DEFINE t == Outcome(s, e, parent, live)
           u == [t EXCEPT !.last = e, !.len = s.len + 1]
<1>1. t \in PlanState /\ WellFormed(t, live)
  BY OutcomeWellFormed
<1>2. Step(s, e, parent, live) \in {t, u}
  BY StepOutcome
<1> HIDE DEF t
<1>3. s.len + 1 \in Nat
  BY DEF PlanState
<1>4. u \in PlanState
  BY <1>1, <1>3 DEF PlanState
<1>5. WellFormed(u, live)
  BY <1>1 DEF PlanState, WellFormed, Confirmed, Intact, Started
<1>6. QED
  BY <1>1, <1>2, <1>4, <1>5

\* The invariant holds of the state nothing has been read into.
LEMMA ReplayInitInv == ReplayInit => ReplayIInv
BY InitialWellFormed, MaxEntriesAssumption DEF ReplayInit, ReplayIInv, ReplayTypeOK

\* Reading one more entry keeps it.
LEMMA ReplayNextInv == ReplayIInv /\ [ReplayNext]_replayVars => ReplayIInv'
<1> SUFFICES ASSUME ReplayIInv, [ReplayNext]_replayVars
             PROVE  ReplayIInv'
  OBVIOUS
<1>1. ASSUME NEW e \in Entry, Replay(e)
      PROVE  ReplayIInv'
  <2>1. e \in Entries
    BY EntryAssumption
  <2>2. state' \in PlanState /\ WellFormed(state, Live)'
    BY <1>1, <2>1, StepWellFormed DEF ReplayIInv, ReplayTypeOK, Replay
  <2>3. read' \in 0..MaxEntries
    BY <1>1, MaxEntriesAssumption DEF ReplayIInv, ReplayTypeOK, Replay
  <2>4. QED
    BY <2>2, <2>3 DEF ReplayIInv, ReplayTypeOK
<1>2. CASE UNCHANGED replayVars
  BY <1>2 DEF ReplayIInv, ReplayTypeOK, replayVars
<1>3. QED
  BY <1>1, <1>2 DEF ReplayNext

\* ReplayIInv holds of every branch that can be read.
THEOREM ReplayInvariance == ReplaySpec => []ReplayIInv
BY ReplayInitInv, ReplayNextInv, PTL DEF ReplaySpec

\* The types of Plan State, for every set of ids, sessions, numbers and entries.
THEOREM ReplayTypeCorrect == ReplaySpec => []ReplayTypeOK
<1>1. ReplayIInv => ReplayTypeOK
  BY DEF ReplayIInv
<1>2. QED
  BY <1>1, ReplayInvariance, PTL

\* Whatever was persisted, Plan Mode's tool policy is on exactly in the phases
\* that plan, wait or are blocked.
THEOREM PhaseAlwaysFitsMode == ReplaySpec => []PhaseFitsMode
<1>1. ReplayIInv => PhaseFitsMode
  BY DEF ReplayIInv, WellFormed, PhaseFitsMode
<1>2. QED
  BY <1>1, ReplayInvariance, PTL

\* A question is pending exactly while its answer is awaited.
THEOREM QuestionAlwaysFitsPhase == ReplaySpec => []QuestionFitsPhase
<1>1. ReplayIInv => QuestionFitsPhase
  BY DEF ReplayIInv, WellFormed, QuestionFitsPhase
<1>2. QED
  BY <1>1, ReplayInvariance, PTL

\* No branch, however damaged or edited, projects a plan that can be confirmed
\* or was started whose digest is not that of its content.
THEOREM ConfirmableIsAlwaysIntact == ReplaySpec => []ConfirmableIsIntact
<1>1. ReplayIInv => ConfirmableIsIntact
  BY DEF ReplayIInv, WellFormed, Confirmed, Intact, ConfirmableIsIntact
<1>2. QED
  BY <1>1, ReplayInvariance, PTL

\* No branch projects a run in progress that this runtime does not own, or a
\* run of anything but the latest revision.
THEOREM ExecutionIsAlwaysOwned == ReplaySpec => []ExecutionIsOwned
<1>1. ReplayIInv => ExecutionIsOwned
  BY DEF ReplayIInv, WellFormed, Started, ExecutionIsOwned
<1>2. QED
  BY <1>1, ReplayInvariance, PTL

-----------------------------------------------------------------------------
(* What one more entry may never do.                                        *)

\* Recording the place of an entry leaves the other fields alone.
LEMMA StepFields ==
  ASSUME NEW parent, NEW live, NEW s \in PlanState, WellFormed(s, live), NEW e \in Entries
  PROVE  /\ Step(s, e, parent, live).mode = Outcome(s, e, parent, live).mode
         /\ Step(s, e, parent, live).phase = Outcome(s, e, parent, live).phase
         /\ Step(s, e, parent, live).plan = Outcome(s, e, parent, live).plan
         /\ Step(s, e, parent, live).latest = Outcome(s, e, parent, live).latest
         /\ Step(s, e, parent, live).run = Outcome(s, e, parent, live).run
         /\ Step(s, e, parent, live).blocked = Outcome(s, e, parent, live).blocked
         /\ e.type # "issue" => Step(s, e, parent, live).last = e
<1> DEFINE t == Outcome(s, e, parent, live)
<1>1. t \in PlanState
  BY OutcomeWellFormed
<1>2. Step(s, e, parent, live) = IF e.type = "issue" THEN t
                     ELSE [t EXCEPT !.last = e, !.len = s.len + 1]
  BY StepOutcome
<1> HIDE DEF t
<1>3. QED
  BY <1>1, <1>2 DEF PlanState, t

\* An entry changes the run of an episode to itself, or drops it.
LEMMA OutcomeRun ==
  ASSUME NEW parent, NEW live, NEW s \in PlanState, NEW e \in Entries
  PROVE  \/ Outcome(s, e, parent, live).run \in {s.run, None}
         \/ /\ Outcome(s, e, parent, live).run = e
            /\ e.type = "run" /\ ValidRun(s, e)
<1>1. Recover(s, e).run = s.run /\ Block(s).run = s.run
  BY DEF Recover, Block, PlanState
<1>2. ASSUME Valid(s, e, parent), e.type # "run"
      PROVE  Accept(s, e, live).run \in {s.run, None}
  BY <1>2 DEF Accept, OnMessage, OnModeChange, OnQuestion, OnAnswer,
     OnRevision, InitialState, PlanState
<1>3. ASSUME Valid(s, e, parent), e.type = "run"
      PROVE  Accept(s, e, live).run = e /\ ValidRun(s, e)
  BY <1>3 DEF Accept, Valid, OnRun, PlanState
<1>4. QED
  BY <1>1, <1>2, <1>3 DEF Outcome

\* An entry changes the latest revision to itself, or drops it.
LEMMA OutcomeLatest ==
  ASSUME NEW parent, NEW live, NEW s \in PlanState, NEW e \in Entries
  PROVE  \/ Outcome(s, e, parent, live).latest \in {s.latest, None}
         \/ /\ Outcome(s, e, parent, live).latest = e
            /\ e.type = "revision" /\ ValidRevision(s, e)
<1>1. Recover(s, e).latest = s.latest /\ Block(s).latest = s.latest
  BY DEF Recover, Block, PlanState
<1>2. ASSUME Valid(s, e, parent), e.type # "revision"
      PROVE  Accept(s, e, live).latest \in {s.latest, None}
  BY <1>2 DEF Accept, OnMessage, OnModeChange, OnQuestion, OnAnswer,
     OnRun, InitialState, PlanState
<1>3. ASSUME Valid(s, e, parent), e.type = "revision"
      PROVE  Accept(s, e, live).latest = e /\ ValidRevision(s, e)
  BY <1>3 DEF Accept, Valid, OnRevision, PlanState
<1>4. QED
  BY <1>1, <1>2, <1>3 DEF Outcome

\* A run id that has been started is not started again.
THEOREM NoRunEverStartsTwice == ReplaySpec => NoRunStartsTwice
<1> DEFINE P == \A r \in state.runs :
                  /\ state'.run # None
                  /\ state'.run.status = "started" /\ state'.run.run = r
                  => state'.run = state.run
<1>1. ReplayIInv /\ [ReplayNext]_replayVars => [P]_replayVars
  <2> SUFFICES ASSUME ReplayIInv, NEW e \in Entry, Replay(e) PROVE P
    BY DEF ReplayNext
  <2>1. state \in PlanState /\ WellFormed(state, Live) /\ e \in Entries
    BY EntryAssumption DEF ReplayIInv, ReplayTypeOK
  <2>2. state'.run = Outcome(state, e, Parent, Live).run
    BY <2>1, StepFields DEF Replay
  <2>3. CASE state'.run \in {state.run, None}
    BY <2>3
  <2>4. CASE state'.run = e /\ ValidRun(state, e)
    BY <2>4 DEF ValidRun, IsNewRun
  <2>5. QED
    BY <2>1, <2>2, <2>3, <2>4, OutcomeRun
<1>2. QED
  BY <1>1, ReplayInvariance, PTL DEF ReplaySpec, NoRunStartsTwice

\* A blocked session is unblocked only by the user's exit from that episode.
THEOREM AlwaysBlockedUntilUserExit == ReplaySpec => BlockedUntilUserExit
<1> DEFINE P == state.blocked /\ ~state'.blocked =>
                  /\ state'.mode = "default"
                  /\ state'.phase \in {"idle", "cancelled"}
                  /\ state'.last.type = "mode" /\ state'.last.reason = "user"
                  /\ state'.last.plan = state.plan
<1>1. ReplayIInv /\ [ReplayNext]_replayVars => [P]_replayVars
  <2> SUFFICES ASSUME ReplayIInv, NEW e \in Entry, Replay(e),
                      state.blocked, ~state'.blocked
               PROVE  /\ state'.mode = "default"
                      /\ state'.phase \in {"idle", "cancelled"}
                      /\ state'.last.type = "mode"
                      /\ state'.last.reason = "user"
                      /\ state'.last.plan = state.plan
    BY DEF ReplayNext
  <2>1. state \in PlanState /\ WellFormed(state, Live) /\ e \in Entries
    BY EntryAssumption DEF ReplayIInv, ReplayTypeOK
  <2>2. /\ state'.blocked = Outcome(state, e, Parent, Live).blocked
        /\ state'.mode = Outcome(state, e, Parent, Live).mode
        /\ state'.phase = Outcome(state, e, Parent, Live).phase
        /\ e.type # "issue" => state'.last = e
    BY <2>1, StepFields DEF Replay
  <2>3. Block(state).blocked
    BY <2>1 DEF Block, PlanState
  <2>4. e.type # "issue"
    BY <2>2, <2>3 DEF Outcome, Valid
  <2>5. Outcome(state, e, Parent, Live) = Recover(state, e) /\ IsRecoveryExit(state, e)
    BY <2>2, <2>4 DEF Outcome, Recover
  <2>6. /\ Recover(state, e).mode = "default"
        /\ Recover(state, e).phase \in {"idle", "cancelled"}
    BY <2>1, <2>5 DEF Recover, PlanState
  <2>7. QED
    BY <2>2, <2>4, <2>5, <2>6 DEF IsRecoveryExit
<1>2. QED
  BY <1>1, ReplayInvariance, PTL DEF ReplaySpec, BlockedUntilUserExit

\* Within an episode, revision numbers follow each other.
THEOREM RevisionsAlwaysGrow == ReplaySpec => RevisionsGrow
<1> DEFINE P == /\ state.latest # None /\ state'.latest # None
                /\ state.latest.plan = state'.latest.plan
                /\ state'.latest # state.latest
                => state'.latest.number = state.latest.number + 1
<1>1. ReplayIInv /\ [ReplayNext]_replayVars => [P]_replayVars
  <2> SUFFICES ASSUME ReplayIInv, NEW e \in Entry, Replay(e) PROVE P
    BY DEF ReplayNext
  <2>1. state \in PlanState /\ WellFormed(state, Live) /\ e \in Entries
    BY EntryAssumption DEF ReplayIInv, ReplayTypeOK
  <2>2. state'.latest = Outcome(state, e, Parent, Live).latest
    BY <2>1, StepFields DEF Replay
  <2>3. CASE state'.latest \in {state.latest, None}
    BY <2>3
  <2>4. CASE state'.latest = e /\ ValidRevision(state, e)
    BY <2>4 DEF ValidRevision, NumberFits, IsHandoffCopy
  <2>5. QED
    BY <2>1, <2>2, <2>3, <2>4, OutcomeLatest
<1>2. QED
  BY <1>1, ReplayInvariance, PTL DEF ReplaySpec, RevisionsGrow

-----------------------------------------------------------------------------
(* The session branches.                                                    *)

\* Files whose entries are from S.
FilesOf(S) == [used : BOOLEAN, parent : MaybeSession, log : Seq(S),
               flushed : BOOLEAN, durable : Nat]

\* What is on the disk is a part of the branch.
FitsIn(f, S) ==
  /\ f \in FilesOf(S) /\ f.durable <= Len(f.log)
  /\ ~f.flushed => f.durable = 0
Fits(f) == \E S : FitsIn(f, S)

\* Every session's file fits.
AllFit(files) ==
  /\ files = [s \in SessionId |-> files[s]]
  /\ \A s \in SessionId : Fits(files[s])

\* A Plan run has its session written through, extraction is of a Plan run, and
\* a question is a call that is not done.
RunStands(r, f) ==
  /\ r \in RunStates
  /\ r.exec # None => f.flushed
  /\ r.pc = "extract" => r.exec # None
  /\ r.pc = "question" => r.todo # <<>>

\* The inductive invariant.
IInv ==
  /\ AllFit(file) /\ RunStands(run, file[attached])
  /\ attached \in SessionId /\ ids \in 0 .. MaxIds

\* A sequence over a set is one over a larger set.
LEMMA Widens ==
  ASSUME NEW S, NEW T, S \subseteq T, NEW s \in Seq(S)
  PROVE  s \in Seq(T)
OBVIOUS

\* A sequence with one more element.
LEMMA Appending ==
  ASSUME NEW S, NEW s \in Seq(S), NEW e \in S, NEW t, t = Append(s, e)
  PROVE  /\ t \in Seq(S) /\ Len(t) = Len(s) + 1 /\ Len(s) \in Nat
         /\ \A i \in 1 .. Len(s) : t[i] = s[i]
         /\ t[Len(s) + 1] = e
OBVIOUS

\* The first n of a sequence.
LEMMA Parts ==
  ASSUME NEW S, NEW s \in Seq(S), NEW n \in Nat, n <= Len(s), NEW t, t = SubSeq(s, 1, n)
  PROVE  /\ t \in Seq(S) /\ Len(t) = n
         /\ \A i \in 1 .. n : t[i] = s[i]
OBVIOUS

\* Two sequences in a row.
LEMMA Concatenation ==
  ASSUME NEW S, NEW t \in Seq(S), NEW u \in Seq(S), NEW v, v = t \o u
  PROVE  /\ v \in Seq(S) /\ Len(v) = Len(t) + Len(u)
         /\ Len(t) \in Nat /\ Len(u) \in Nat
         /\ \A i \in 1 .. Len(t) : v[i] = t[i]
         /\ \A j \in 1 .. Len(u) : v[Len(t) + j] = u[j]
OBVIOUS

-----------------------------------------------------------------------------
\* A flush writes all, whatever it was before.
LEMMA FlushedFits ==
  ASSUME NEW S, NEW f \in FilesOf(S), NEW g, g = Flushed(f)
  PROVE  FitsIn(g, S) /\ g.flushed /\ g.log = f.log /\ Fits(g)
<1> DEFINE n == Len(f.log)
<1>1. n \in Nat /\ f.log \in Seq(S)
  BY DEF FilesOf
<1>2. g = [f EXCEPT !.flushed = TRUE, !.durable = n]
  BY DEF Flushed
<1>3. n = Len(f.log)
  OBVIOUS
<1> HIDE DEF n
<1>4. g \in FilesOf(S) /\ g.flushed /\ g.log = f.log /\ g.durable = n
  BY <1>1, <1>2 DEF FilesOf
<1>5. FitsIn(g, S)
  BY <1>1, <1>3, <1>4 DEF FitsIn
<1>6. QED
  BY <1>4, <1>5 DEF Fits

\* The entry is in the branch, and not forced to the disk unless written through.
Longer(f, e) == [f EXCEPT !.log = Append(f.log, e)]

\* One more entry fits without being written.
LEMMA LongerFits ==
  ASSUME NEW S, NEW f, FitsIn(f, S), NEW e, NEW T, T = S \cup {e},
         NEW g, g = Longer(f, e)
  PROVE  FitsIn(g, T) /\ g.flushed = f.flushed /\ Fits(g)
<1> DEFINE s == f.log
           t == Append(s, e)
<1>1. f \in FilesOf(S) /\ s \in Seq(S) /\ e \in T /\ S \subseteq T
  BY DEF FitsIn, FilesOf
<1>2. s \in Seq(T)
  BY <1>1, Widens
<1>3. t \in Seq(T) /\ Len(t) = Len(s) + 1 /\ Len(s) \in Nat
  BY <1>1, <1>2, Appending
<1>4. g = [f EXCEPT !.log = t] /\ s = f.log
  BY DEF Longer
<1> HIDE DEF s, t
<1>5. /\ g \in FilesOf(T) /\ g.flushed = f.flushed /\ g.durable = f.durable /\ g.log = t
  BY <1>1, <1>3, <1>4 DEF FilesOf
<1>6. f.durable <= Len(s) /\ f.durable \in Nat /\ (~f.flushed => f.durable = 0)
  BY <1>1, <1>4 DEF FitsIn, FilesOf
<1>7. f.durable <= Len(t)
  BY <1>3, <1>6
<1>8. FitsIn(g, T)
  BY <1>5, <1>6, <1>7 DEF FitsIn
<1>9. QED
  BY <1>5, <1>8 DEF Fits

\* So does what is appended.
LEMMA WrittenFits ==
  ASSUME NEW f, Fits(f), NEW e, NEW g, g = Written(f, e)
  PROVE  /\ Fits(g)
         /\ f.flushed => g.flushed
         /\ \E S : g \in FilesOf(S)
<1>1. PICK S : FitsIn(f, S)
  BY DEF Fits
<1> DEFINE T == S \cup {e}
           h == Longer(f, e)
<1>2. FitsIn(h, T) /\ h.flushed = f.flushed
  BY <1>1, LongerFits
<1>3. g = Flushed(h) \/ (g = h /\ ~f.flushed)
  BY DEF Written, Longer, WritesThrough
<1> HIDE DEF T, h
<1>4. CASE g = Flushed(h)
  <2>1. h \in FilesOf(T)
    BY <1>2 DEF FitsIn
  <2>2. FitsIn(g, T) /\ g.flushed /\ Fits(g)
    BY <2>1, <1>4, FlushedFits
  <2>3. g \in FilesOf(T)
    BY <2>2 DEF FitsIn
  <2>4. QED
    BY <2>2, <2>3
<1>5. CASE g = h /\ ~f.flushed
  <2>1. FitsIn(g, T) /\ g \in FilesOf(T)
    BY <1>2, <1>5 DEF FitsIn
  <2>2. QED
    BY <1>5, <2>1 DEF Fits
<1>6. QED
  BY <1>3, <1>4, <1>5

\* Appending and flushing fits for every entry.
LEMMA WrittenNowFits ==
  ASSUME NEW f, Fits(f), NEW e, NEW g, g = Flushed(Written(f, e))
  PROVE  Fits(g) /\ g.flushed
<1> DEFINE h == Written(f, e)
<1>1. PICK S : h \in FilesOf(S)
  BY WrittenFits
<1>2. g = Flushed(h)
  OBVIOUS
<1> HIDE DEF h
<1>3. QED
  BY <1>1, <1>2, FlushedFits

\* A failed write leaves a fitting file.
LEMMA FailedWritesFit ==
  ASSUME NEW f, Fits(f), NEW g \in FailedWrites(f)
  PROVE  Fits(g) /\ (f.flushed => g.flushed)
<1>1. PICK S : FitsIn(f, S)
  BY DEF Fits
<1>2. CASE g = f
  BY <1>2
<1>3. CASE g # f
  <2>1. PICK d \in f.durable .. Len(f.log) : g = [f EXCEPT !.flushed = TRUE, !.durable = d]
    BY <1>3 DEF FailedWrites
  <2>2. f \in FilesOf(S) /\ f.log \in Seq(S) /\ Len(f.log) \in Nat /\ f.durable \in Nat
    BY <1>1 DEF FitsIn, FilesOf
  <2>3. d \in Nat /\ f.durable <= d /\ d <= Len(f.log)
    BY <2>2
  <2>4. g \in FilesOf(S) /\ g.flushed /\ g.log = f.log /\ g.durable = d
    BY <2>1, <2>2, <2>3 DEF FilesOf
  <2>5. FitsIn(g, S)
    BY <2>3, <2>4 DEF FitsIn
  <2>6. QED
    BY <2>4, <2>5 DEF Fits
<1>4. QED
  BY <1>2, <1>3

\* What a write of one more entry leaves when it raises: the entry was taken back,
\* or stays on the branch, on the disk or not.
Raised(f, e) == FailedWrites(f) \cup FailedWrites(Longer(f, e))

\* Both fit.
LEMMA RaisedFits ==
  ASSUME NEW f, Fits(f), NEW e, NEW g \in Raised(f, e)
  PROVE  Fits(g) /\ (f.flushed => g.flushed)
<1>1. PICK S : FitsIn(f, S)
  BY DEF Fits
<1> DEFINE h == Longer(f, e)
<1>2. Fits(h) /\ h.flushed = f.flushed
  BY <1>1, LongerFits
<1>3. g \in FailedWrites(f) \/ g \in FailedWrites(h)
  BY DEF Raised
<1> HIDE DEF h
<1>4. QED
  BY <1>2, <1>3, FailedWritesFit

\* A control or a tool that raises leaves one of them.
LEMMA RaisingWrites ==
  ASSUME NEW e, AppendRaises \/ FlushRaises(e) \/ CommitRaises(e)
  PROVE  \E g \in Raised(Current, e) : file' = [file EXCEPT ![attached] = g]
BY DEF AppendRaises, FlushRaises, CommitRaises, WriteRaises, Raised, Longer

\* A file that is not there, or new, fits.
LEMMA UnusedFits ==
  ASSUME NEW parent \in MaybeSession
  PROVE  Fits(Unused) /\ Fits(Blank(parent)) /\ Fits([Unused EXCEPT !.used = TRUE])
<1> DEFINE S == {Issue}
           s == <<>>
           f == Unused
           g == Blank(parent)
           h == [Unused EXCEPT !.used = TRUE]
<1>1. s \in Seq(S) /\ Len(s) = 0
  OBVIOUS
<1>2. None \in MaybeSession
  BY DEF MaybeSession
<1>3. f = [used |-> FALSE, parent |-> None, log |-> s, flushed |-> FALSE, durable |-> 0]
  BY DEF Unused
<1> HIDE DEF s, S
<1>4. f \in FilesOf(S) /\ ~f.flushed /\ f.log = s /\ f.durable = 0
  BY <1>1, <1>2, <1>3 DEF FilesOf
<1>5. g = [f EXCEPT !.used = TRUE, !.parent = parent]
  BY DEF Blank
<1>6. h = [f EXCEPT !.used = TRUE]
  OBVIOUS
<1> HIDE DEF f, g, h
<1>7. g \in FilesOf(S) /\ ~g.flushed /\ g.log = s /\ g.durable = 0
  BY <1>4, <1>5 DEF FilesOf
<1>8. h \in FilesOf(S) /\ ~h.flushed /\ h.log = s /\ h.durable = 0
  BY <1>4, <1>6 DEF FilesOf
<1>9. FitsIn(f, S) /\ FitsIn(g, S) /\ FitsIn(h, S)
  BY <1>1, <1>4, <1>7, <1>8 DEF FitsIn
<1>10. Fits(f) /\ Fits(g) /\ Fits(h)
  BY <1>9 DEF Fits
<1>11. QED
  BY <1>10 DEF f, g, h

\* What is on disk after a crash, with the line that was torn.
LEMMA RecoveredFits ==
  ASSUME NEW f, Fits(f), NEW torn \in BOOLEAN, NEW g, g = Recovered(f, torn)
  PROVE  Fits(g)
<1>1. PICK S : FitsIn(f, S)
  BY DEF Fits
<1> DEFINE s == f.log
           n == f.durable
           T == S \cup {Issue}
           t == SubSeq(s, 1, n)
           u == IF torn THEN <<Issue>> ELSE <<>>
           v == t \o u
           k == Len(v)
<1>2. /\ f \in FilesOf(S) /\ s \in Seq(S) /\ n \in Nat /\ n <= Len(s)
      /\ S \subseteq T /\ Issue \in T
  BY <1>1 DEF FitsIn, FilesOf
<1>3. t = SubSeq(s, 1, n) /\ v = t \o u /\ k = Len(v)
  OBVIOUS
<1>4. u \in Seq(T) /\ \A j \in 1 .. Len(u) : u[j] = Issue
  <2>1. CASE torn
    BY <2>1, <1>2
  <2>2. CASE ~torn
    <3>1. <<>> \in Seq(T) /\ Len(<<>>) = 0
      OBVIOUS
    <3>2. QED
      BY <2>2, <3>1
  <2>3. QED
    BY <2>1, <2>2
<1>5. g = IF f.flushed THEN [f EXCEPT !.log = v, !.durable = k] ELSE [Unused EXCEPT !.used = TRUE]
  BY DEF Recovered
<1> HIDE DEF s, n, T, t, u, v, k
<1>6. s \in Seq(T)
  BY <1>2, Widens
<1>7. t \in Seq(T) /\ Len(t) = n /\ \A i \in 1 .. n : t[i] = s[i]
  BY <1>2, <1>3, <1>6, Parts
<1>8. /\ v \in Seq(T) /\ Len(v) = n + Len(u) /\ Len(u) \in Nat
  BY <1>3, <1>4, <1>7, Concatenation
<1>9. CASE f.flushed
  <2>1. g = [f EXCEPT !.log = v, !.durable = k]
    BY <1>5, <1>9
  <2>3. k \in Nat /\ k = Len(v) /\ v \in Seq(T)
    BY <1>2, <1>3, <1>8
  <2>6. f.used \in BOOLEAN /\ f.parent \in MaybeSession
    BY <1>2 DEF FilesOf
  <2>7. f \in FilesOf(S)
    BY <1>2
  <2>2. g \in FilesOf(T) /\ g.log = v /\ g.durable = k /\ g.flushed
    BY <1>9, <2>1, <2>3, <2>6, <2>7 DEF FilesOf
  <2>4. FitsIn(g, T)
    BY <2>2, <2>3 DEF FitsIn
  <2>5. QED
    BY <2>4 DEF Fits
<1>10. CASE ~f.flushed
  BY <1>5, <1>10, UnusedFits DEF MaybeSession
<1>11. QED
  BY <1>9, <1>10

\* The diagnostics behind an entry are diagnostics.
LEMMA IssuesFit ==
  ASSUME NEW S, NEW log \in Seq(S), NEW n \in Nat, NEW u, u = IssuesAfter(log, n)
  PROVE  u \in Seq({Issue}) /\ Len(u) \in Nat /\ \A j \in 1 .. Len(u) : u[j] = Issue
<1> DEFINE issues == {i \in n + 1 .. Len(log) : log[i].type = "issue"}
           c == Cardinality(issues)
<1>1. IsFiniteSet(n + 1 .. Len(log)) /\ issues \in SUBSET (n + 1 .. Len(log))
  BY FS_Interval
<1>2. IsFiniteSet(issues)
  BY <1>1, FS_Subset
<1>3. c \in Nat
  BY <1>2, FS_CardinalityType
<1>4. u = [k \in 1 .. c |-> Issue]
  BY DEF IssuesAfter
<1> HIDE DEF issues, c
<1>5. QED
  BY <1>3, <1>4

\* A branch that was left keeps what was forced of the part it shares.
\* The branch that /tree goes back to, in memory and with what is written of it.
Back(f, n) ==
  [f EXCEPT !.log = SubSeq(f.log, 1, n) \o IssuesAfter(f.log, n)]
Switched(f, n) == IF f.flushed THEN Flushed(Back(f, n)) ELSE Back(f, n)

\* Going back in a branch leaves it fit.
LEMMA SwitchedFits ==
  ASSUME NEW f, Fits(f), NEW n \in Nat, n < Len(f.log), NEW g, g = Switched(f, n)
  PROVE  Fits(g) /\ (f.flushed => g.flushed)
<1>1. PICK S : FitsIn(f, S)
  BY DEF Fits
<1> DEFINE s == f.log
           T == S \cup {Issue}
           t == SubSeq(s, 1, n)
           u == IssuesAfter(s, n)
           v == t \o u
           b == Back(f, n)
<1>2. /\ f \in FilesOf(S) /\ s \in Seq(S) /\ n \in Nat /\ n < Len(s)
      /\ S \subseteq T /\ {Issue} \subseteq T
  BY <1>1 DEF FitsIn, FilesOf
<1>3. t = SubSeq(s, 1, n) /\ v = t \o u /\ u = IssuesAfter(s, n)
  OBVIOUS
<1>15. b = [f EXCEPT !.log = v]
  BY DEF Back
<1>16. g = IF f.flushed THEN Flushed(b) ELSE b
  BY DEF Switched
<1>13. f.durable \in Nat /\ (~f.flushed => f.durable = 0)
  BY <1>1 DEF FitsIn, FilesOf
<1> HIDE DEF s, T, t, u, v, b
<1>4. u \in Seq({Issue}) /\ Len(u) \in Nat
  BY <1>2, <1>3, IssuesFit
<1>5. u \in Seq(T) /\ s \in Seq(T)
  BY <1>2, <1>4, Widens
<1>6. t \in Seq(T) /\ Len(t) = n
  BY <1>2, <1>3, <1>5, Parts
<1>7. v \in Seq(T) /\ Len(v) \in Nat
  BY <1>3, <1>5, <1>6, Concatenation
<1>8. b \in FilesOf(T) /\ b.flushed = f.flushed /\ b.durable = f.durable /\ b.log = v
  BY <1>2, <1>7, <1>15 DEF FilesOf
<1>9. CASE f.flushed
  BY <1>8, <1>9, <1>16, FlushedFits
<1>10. CASE ~f.flushed
  <2>1. FitsIn(b, T)
    BY <1>7, <1>8, <1>10, <1>13 DEF FitsIn
  <2>2. QED
    BY <1>10, <1>16, <2>1 DEF Fits
<1>11. QED
  BY <1>9, <1>10

\* The child of a handoff before it is written.
LEMMA DraftFits ==
  ASSUME NEW origin \in SessionId, NEW latest
  PROVE  Fits(Draft(origin, latest))
<1> DEFINE mode == ModeChange("plan", latest.plan, "handoff", origin)
           copy == Revision(latest.plan, latest.number, latest.call, latest.source, origin)
           f == Blank(origin)
           g == Written(f, mode)
<1>1. Fits(f)
  BY UnusedFits DEF MaybeSession
<1>2. Draft(origin, latest) = Written(g, copy)
  BY DEF Draft
<1> HIDE DEF mode, copy, f
<1>3. Fits(g)
  BY <1>1, WrittenFits
<1> HIDE DEF g
<1>4. QED
  BY <1>2, <1>3, WrittenFits

\* The child of a handoff is written and fits.
LEMMA ReviewFits ==
  ASSUME NEW origin \in SessionId, NEW latest
  PROVE  Fits(Review(origin, latest)) /\ Review(origin, latest).flushed
<1> DEFINE f == Draft(origin, latest)
<1>1. Fits(f)
  BY DraftFits
<1>2. PICK S : f \in FilesOf(S)
  BY <1>1 DEF Fits, FitsIn
<1>3. Review(origin, latest) = Flushed(f)
  BY DEF Review
<1> HIDE DEF f
<1>4. QED
  BY <1>2, <1>3, FlushedFits

-----------------------------------------------------------------------------
\* A step changes the branch of the attached session, or nothing on it.
LEMMA BranchStep ==
  ASSUME IInv, attached' = attached, NEW g, Fits(g),
         file' = [file EXCEPT ![attached] = g],
         RunStands(run', g), ids' \in 0 .. MaxIds
  PROVE  IInv'
<1>1. /\ file = [s \in SessionId |-> file[s]] /\ attached \in SessionId
      /\ \A s \in SessionId : Fits(file[s])
  BY DEF IInv, AllFit
<1>2. /\ file' = [s \in SessionId |-> file'[s]] /\ file'[attached] = g
      /\ \A s \in SessionId : s # attached => file'[s] = file[s]
  BY <1>1
<1>3. AllFit(file')
  BY <1>1, <1>2 DEF AllFit
<1>4. QED
  BY <1>1, <1>2, <1>3 DEF IInv

\* A step that leaves all files alone.
LEMMA QuietStep ==
  ASSUME IInv, attached' = attached, file' = file,
         RunStands(run', file[attached]), ids' \in 0 .. MaxIds
  PROVE  IInv'
<1>1. AllFit(file')
  BY DEF IInv, AllFit
<1>2. QED
  BY <1>1 DEF IInv

\* That nothing runs fits every file.
LEMMA Run0Fits ==
  /\ Run0 \in RunStates /\ Run0.exec = None /\ Run0.pc = "idle"
  /\ \A f : RunStands(Run0, f)
<1> DEFINE todo == <<>>
<1>1. todo \in Seq(Kinds)
  OBVIOUS
<1>2. Run0 = [pc |-> "idle", exec |-> None, tools |-> {}, todo |-> todo,
              call |-> None, sole |-> FALSE, turn |-> "last", stop |-> None,
              abort |-> FALSE, planAbort |-> FALSE, future |-> None,
              steer |-> FALSE]
  BY DEF Run0
<1> HIDE DEF todo
<1>3. Run0 \in RunStates /\ Run0.exec = None /\ Run0.pc = "idle"
  BY <1>1, <1>2 DEF RunStates, MaybeId
<1>4. QED
  BY <1>3 DEF RunStands

\* Another session is attached, and nothing runs.
LEMMA AttachStep ==
  ASSUME IInv, NEW s \in SessionId, attached' = s, run' = Run0, AllFit(file'),
         ids' \in 0 .. MaxIds
  PROVE  IInv'
BY Run0Fits DEF IInv

\* What the invariant says of the attached session.
LEMMA AttachedFits ==
  ASSUME IInv
  PROVE  Fits(Current) /\ RunStands(run, Current) /\ attached \in SessionId
BY DEF IInv, AllFit, Current

\* A run keeps standing while its session stays written through.
LEMMA RunStandsOn ==
  ASSUME NEW r, NEW f, RunStands(r, f), NEW g, f.flushed => g.flushed
  PROVE  RunStands(r, g)
BY DEF RunStands

\* A setting or a name is appended.
LEMMA AppendOtherStep ==
  ASSUME IInv, AppendOther
  PROVE  IInv'
<1>1. /\ \E g \in {Written(Current, Other)} \cup Raised(Current, Other) :
           file' = [file EXCEPT ![attached] = g]
      /\ UNCHANGED <<attached, run, ids>>
  BY RaisingWrites DEF AppendOther, Commit, Current
<1>2. PICK g \in {Written(Current, Other)} \cup Raised(Current, Other) :
        file' = [file EXCEPT ![attached] = g]
  BY <1>1
<1>3. Fits(Current) /\ RunStands(run, Current) /\ ids' \in 0 .. MaxIds
  BY <1>1, AttachedFits DEF IInv
<1>4. Fits(g) /\ (Current.flushed => g.flushed)
  BY <1>2, <1>3, WrittenFits, RaisedFits
<1>5. RunStands(run', g)
  BY <1>1, <1>3, <1>4, RunStandsOn
<1>6. QED
  BY <1>1, <1>2, <1>3, <1>4, <1>5, BranchStep

\* The Agent appends a message, or fails to.
LEMMA AgentAppendsFits ==
  ASSUME IInv, NEW e, AgentAppends(e)
  PROVE  \E g : /\ file' = [file EXCEPT ![attached] = g] /\ Fits(g)
                /\ Current.flushed => g.flushed
<1>1. Fits(Current)
  BY AttachedFits
<1>2. CASE Commit(e)
  <2> DEFINE g == Written(Current, e)
  <2>1. Fits(g) /\ (Current.flushed => g.flushed)
    BY <1>1, WrittenFits
  <2>2. file' = [file EXCEPT ![attached] = g]
    BY <1>2 DEF Commit, Current
  <2> HIDE DEF g
  <2>3. QED
    BY <2>1, <2>2
<1>3. CASE \E f \in FailedWrites(Current) : file' = [file EXCEPT ![attached] = f]
  BY <1>1, <1>3, FailedWritesFit
<1>4. QED
  BY <1>2, <1>3 DEF AgentAppends, WriteRaises

\* A control that only records something in the branch, or raises.
LEMMA RecordStep ==
  ASSUME IInv, NEW e, NEW g \in {Written(Current, e)} \cup Raised(Current, e),
         file' = [file EXCEPT ![attached] = g], attached' = attached,
         run' \in RunStates, run'.exec = run.exec, run'.pc = run.pc,
         run'.todo = run.todo, ids' \in 0 .. MaxIds
  PROVE  IInv'
<1>1. Fits(g) /\ (Current.flushed => g.flushed)
  BY AttachedFits, WrittenFits, RaisedFits
<1>2. RunStands(run', g)
  BY <1>1, AttachedFits DEF RunStands
<1>3. QED
  BY <1>1, <1>2, BranchStep

\* A boundary is appended and flushed, whatever the run becomes.
LEMMA BoundaryStep ==
  ASSUME IInv, NEW e, CommitNow(e), attached' = attached, run' \in RunStates,
         run'.pc = "extract" => run'.exec # None,
         run'.pc = "question" => run'.todo # <<>>, ids' \in 0 .. MaxIds
  PROVE  IInv'
<1> DEFINE g == Flushed(Written(Current, e))
<1>1. Fits(g) /\ g.flushed
  BY AttachedFits, WrittenNowFits
<1>2. file' = [file EXCEPT ![attached] = g]
  BY DEF CommitNow, Current
<1> HIDE DEF g
<1>3. RunStands(run', g)
  BY <1>1 DEF RunStands
<1>4. QED
  BY <1>1, <1>2, <1>3, BranchStep

\* A boundary is appended and its flush raises: no Plan run begins.
LEMMA RaisedStep ==
  ASSUME IInv, NEW e, CommitRaises(e) \/ AppendRaises \/ FlushRaises(e),
         attached' = attached, run' \in RunStates,
         run'.exec \in {run.exec, None},
         run'.pc = "extract" => run'.exec # None,
         run'.pc = "question" => run'.todo # <<>>, ids' \in 0 .. MaxIds
  PROVE  IInv'
<1>1. PICK g \in Raised(Current, e) : file' = [file EXCEPT ![attached] = g]
  BY RaisingWrites
<1>2. Fits(g) /\ (Current.flushed => g.flushed)
  BY <1>1, AttachedFits, RaisedFits
<1>3. RunStands(run', g)
  BY <1>2, AttachedFits DEF RunStands
<1>4. QED
  BY <1>1, <1>2, <1>3, BranchStep

\* The user enters Plan Mode, perhaps out of recovery, perhaps half way.
LEMMA EnterStep ==
  ASSUME IInv, EnterPlanMode
  PROVE  IInv'
<1> DEFINE exit == ModeChange("default", plan.plan, "user", None)
           enter == ModeChange("plan", ids + 1, "user", None)
           left == IF plan.phase = "recovery_error" THEN Written(Current, exit) ELSE Current
           entered == Written(left, enter)
<1>1. /\ UNCHANGED <<attached, run>> /\ ids < MaxIds /\ ids' = ids + 1
      /\ \E g \in {entered} \cup FailedWrites(Current) \cup FailedWrites(left) :
           file' = [file EXCEPT ![attached] = g]
  BY DEF EnterPlanMode, AppendRaises, WriteRaises, Current
<1>2. Fits(Current) /\ RunStands(run, Current)
  BY AttachedFits
<1> HIDE DEF exit, enter
<1>4. Fits(left) /\ (Current.flushed => left.flushed)
  BY <1>2, WrittenFits
<1> HIDE DEF left
<1>5. Fits(entered) /\ (left.flushed => entered.flushed)
  BY <1>4, WrittenFits
<1> HIDE DEF entered
<1>6. PICK g \in {entered} \cup FailedWrites(Current) \cup FailedWrites(left) :
        file' = [file EXCEPT ![attached] = g]
  BY <1>1
<1>7. Fits(g) /\ (Current.flushed => g.flushed)
  BY <1>2, <1>4, <1>5, <1>6, FailedWritesFit
<1>8. RunStands(run', g)
  BY <1>1, <1>2, <1>7, RunStandsOn
<1>9. ids' \in 0 .. MaxIds
  BY <1>1, BoundAssumption DEF IInv
<1>10. QED
  BY <1>1, <1>6, <1>7, <1>8, <1>9, BranchStep

\* The user cancels the plan, and the question it waits for.
LEMMA CancelStep ==
  ASSUME IInv, CancelPlanMode
  PROVE  IInv'
<1> DEFINE e == ModeChange("default", plan.plan, "user", None)
<1>1. /\ attached' = attached /\ ids' = ids
      /\ run' = [run EXCEPT !.future = IF run.future = "pending" THEN "cancelled"
                                       ELSE run.future]
      /\ \E g \in {Written(Current, e)} \cup Raised(Current, e) :
           file' = [file EXCEPT ![attached] = g]
  BY RaisingWrites DEF CancelPlanMode, Commit, Current
<1> HIDE DEF e
<1>3. RunStands(run, Current) /\ run \in RunStates /\ ids' \in 0 .. MaxIds
  BY <1>1, AttachedFits DEF IInv, RunStands
<1>4. /\ run' \in RunStates /\ run'.exec = run.exec /\ run'.pc = run.pc
      /\ run'.todo = run.todo
  BY <1>1, <1>3 DEF RunStates
<1>5. QED
  BY <1>1, <1>3, <1>4, RecordStep

\* The user answers, to a live question or with a prompt, or the answer raises.
LEMMA AnswerStep ==
  ASSUME IInv, AnswerPlanQuestion
  PROVE  IInv'
<1> DEFINE e == Answer(plan.plan, plan.question)
<1>1. /\ attached' = attached /\ ids' = ids
      /\ CommitNow(e) \/ (CommitRaises(e) /\ run' = run)
      /\ \/ run' = [run EXCEPT !.future = "answered"]
         \/ run' = run
         \/ run' = [Run0 EXCEPT !.pc = "retrieve"]
  BY DEF AnswerPlanQuestion
<1> HIDE DEF e
<1>2. RunStands(run, Current) /\ run \in RunStates /\ ids' \in 0 .. MaxIds
  BY <1>1, AttachedFits DEF IInv, RunStands
<1>3. /\ run' \in RunStates
      /\ \/ run'.exec = run.exec /\ run'.pc = run.pc /\ run'.todo = run.todo
         \/ run'.pc = "retrieve"
  BY <1>1, <1>2, Run0Fits, ZenonT(80) DEF RunStates
<1>4. /\ run'.pc = "extract" => run'.exec # None
      /\ run'.pc = "question" => run'.todo # <<>>
  BY <1>2, <1>3 DEF RunStands
<1>5. QED
  BY <1>1, <1>2, <1>3, <1>4, BoundaryStep, RaisedStep

\* The user confirms a revision, and its run owns the session, unless its start
\* raises.
LEMMA ExecuteStep ==
  ASSUME IInv, NEW token, ExecutePlan(token)
  PROVE  IInv'
<1> DEFINE e == Run("started", token, ids + 1)
<1>1. /\ attached' = attached /\ ids' = ids + 1 /\ ids < MaxIds
      /\ \/ CommitNow(e) /\ run' = [Run0 EXCEPT !.pc = "extract", !.exec = ids + 1]
         \/ (AppendRaises \/ FlushRaises(e)) /\ run' = run
  BY DEF ExecutePlan, StartRaises, Owning
<1> HIDE DEF e
<1>2. ids \in 0 .. MaxIds /\ MaxIds \in Nat /\ 1 .. MaxIds \subseteq Id /\ None \notin Id
  BY BoundAssumption, IdAssumption DEF IInv
<1>3. ids' \in 0 .. MaxIds /\ ids + 1 \in Id /\ ids + 1 # None
  BY <1>1, <1>2
<1>4. CASE CommitNow(e) /\ run' = [Run0 EXCEPT !.pc = "extract", !.exec = ids + 1]
  <2>1. run' \in RunStates /\ run'.pc = "extract" /\ run'.exec # None
    BY <1>3, <1>4, Run0Fits DEF RunStates, MaybeId
  <2>2. QED
    BY <1>1, <1>3, <1>4, <2>1, BoundaryStep
<1>5. CASE (AppendRaises \/ FlushRaises(e)) /\ run' = run
  <2>1. RunStands(run, Current)
    BY AttachedFits
  <2>2. QED
    BY <1>1, <1>3, <1>5, <2>1, RaisedStep DEF RunStands
<1>6. QED
  BY <1>1, <1>4, <1>5

\* One file is replaced by a fitting one.
LEMMA Updated ==
  ASSUME NEW files, AllFit(files), NEW s \in SessionId, NEW g, Fits(g),
         NEW others, others = [files EXCEPT ![s] = g]
  PROVE  AllFit(others) /\ others[s] = g
BY DEF AllFit

\* When no Plan run and no question is live, the run fits every file.
LEMMA Idles ==
  ASSUME IInv, run.exec = None, run.pc # "question"
  PROVE  \A f : RunStands(run, f)
BY AttachedFits DEF RunStands

\* The plan is handed to a child, or only half of it is.
LEMMA HandoffStep ==
  ASSUME IInv, NEW token, NEW s \in SessionId, HandoffPlan(token, s)
  PROVE  IInv'
<1> DEFINE draft == Draft(attached, plan.latest)
           review == Review(attached, plan.latest)
           child == [file EXCEPT ![s] = review]
           handed == ModeChange("default", plan.plan, "handoff", s)
           a == child[attached]
           done == Written(Flushed(a), handed)
           crashed == Recovered(a, FALSE)
<1>1. /\ run.exec = None /\ run.pc # "question" /\ ids' = ids
      /\ \/ /\ file' = [child EXCEPT ![attached] = done]
            /\ Attach(s) \/ UNCHANGED <<attached, run>>
         \/ /\ \E f \in FailedWrites(draft) : file' = [file EXCEPT ![s] = Recovered(f, FALSE)]
            /\ UNCHANGED <<attached, run>>
         \/ /\ \E f \in FailedWrites(Current) : file' = [child EXCEPT ![attached] = f]
            /\ UNCHANGED <<attached, run>>
         \/ /\ file' = [child EXCEPT ![attached] = crashed]
            /\ \E t \in SessionId : Attach(t)
  BY DEF HandoffPlan, Free, Processing, AgentRuns
<1>2. AllFit(file) /\ attached \in SessionId /\ ids' \in 0 .. MaxIds /\ Fits(Current)
  BY <1>1, AttachedFits DEF IInv
<1>3. Fits(review) /\ Fits(draft)
  BY <1>2, ReviewFits, DraftFits
<1> HIDE DEF review, draft
<1>4. AllFit(child)
  BY <1>2, <1>3, Updated
<1> HIDE DEF child
<1>5. Fits(a)
  BY <1>2, <1>4 DEF AllFit
<1> HIDE DEF handed, a
<1>7. Fits(Flushed(a))
  <2>1. PICK S : a \in FilesOf(S)
    BY <1>5 DEF Fits, FitsIn
  <2>2. QED
    BY <2>1, FlushedFits
<1>8. Fits(done)
  BY <1>7, WrittenFits
<1>9. Fits(crashed)
  BY <1>5, RecoveredFits
<1> HIDE DEF done, crashed
<1>6. \A f \in FailedWrites(draft) : Fits(Recovered(f, FALSE))
  BY <1>3, FailedWritesFit, RecoveredFits
<1>14. \A f \in FailedWrites(Current) : Fits(f)
  BY <1>2, FailedWritesFit
<1>10. AllFit(file')
  <2>1. CASE file' = [child EXCEPT ![attached] = done]
    BY <1>2, <1>4, <1>8, <2>1, Updated
  <2>2. CASE \E f \in FailedWrites(draft) : file' = [file EXCEPT ![s] = Recovered(f, FALSE)]
    <3>1. PICK f \in FailedWrites(draft) : file' = [file EXCEPT ![s] = Recovered(f, FALSE)]
      BY <2>2
    <3>2. QED
      BY <1>2, <1>6, <3>1, Updated
  <2>3. CASE \E f \in FailedWrites(Current) : file' = [child EXCEPT ![attached] = f]
    <3>1. PICK f \in FailedWrites(Current) : file' = [child EXCEPT ![attached] = f]
      BY <2>3
    <3>2. QED
      BY <1>2, <1>4, <1>14, <3>1, Updated
  <2>4. CASE file' = [child EXCEPT ![attached] = crashed]
    BY <1>2, <1>4, <1>9, <2>4, Updated
  <2>5. QED
    BY <1>1, <2>1, <2>2, <2>3, <2>4
<1>11. CASE UNCHANGED <<attached, run>>
  BY <1>1, <1>2, <1>10, <1>11, Idles DEF IInv
<1>12. CASE \E t \in SessionId : Attach(t)
  BY <1>2, <1>10, <1>12, AttachStep DEF Attach
<1>13. QED
  BY <1>1, <1>11, <1>12

\* The session is left and a new one begins, unless leaving it raises.
LEMMA NewSessionStep ==
  ASSUME IInv, NEW s \in SessionId, NewSession(s)
  PROVE  IInv'
<1> DEFINE left == IF Meaningful(Current) THEN Flushed(Current) ELSE Current
           one == [file EXCEPT ![attached] = left]
<1>1. /\ \/ file' = [file EXCEPT ![attached] = left, ![s] = Blank(None)] /\ Attach(s)
         \/ /\ \E g \in FailedWrites(Current) : file' = [file EXCEPT ![attached] = g]
            /\ UNCHANGED <<attached, run>>
      /\ ids' = ids
  BY DEF NewSession, Current, WriteRaises
<1>2. AllFit(file) /\ attached \in SessionId /\ ids' \in 0 .. MaxIds /\ Fits(Current)
  BY <1>1, AttachedFits DEF IInv
<1>3. Fits(left)
  <2>1. PICK S : Current \in FilesOf(S)
    BY <1>2 DEF Fits, FitsIn
  <2>2. QED
    BY <1>2, <2>1, FlushedFits
<1> HIDE DEF left
<1>4. AllFit(one)
  BY <1>2, <1>3, Updated
<1>5. CASE file' = [file EXCEPT ![attached] = left, ![s] = Blank(None)] /\ Attach(s)
  <2>1. file' = [one EXCEPT ![s] = Blank(None)]
    BY <1>5
  <2>2. Fits(Blank(None))
    BY UnusedFits DEF MaybeSession
  <2> HIDE DEF one
  <2>3. AllFit(file')
    BY <1>4, <2>1, <2>2, Updated
  <2>4. QED
    BY <1>2, <1>5, <2>3, AttachStep DEF Attach
<1>6. CASE /\ \E g \in FailedWrites(Current) : file' = [file EXCEPT ![attached] = g]
           /\ UNCHANGED <<attached, run>>
  <2>1. PICK g \in FailedWrites(Current) : file' = [file EXCEPT ![attached] = g]
    BY <1>6
  <2>2. Fits(g) /\ (Current.flushed => g.flushed)
    BY <1>2, <2>1, FailedWritesFit
  <2>3. RunStands(run', g)
    BY <1>6, <2>2, AttachedFits, RunStandsOn
  <2>4. QED
    BY <1>2, <1>6, <2>1, <2>2, <2>3, BranchStep
<1>7. QED
  BY <1>1, <1>5, <1>6

\* The user goes back in the branch.
LEMMA SwitchStep ==
  ASSUME IInv, NEW n \in BranchPoints, SwitchBranch(n)
  PROVE  IInv'
<1> DEFINE h == Switched(Current, n)
<1>1. /\ \E g \in {h} \cup FailedWrites(Current) : file' = [file EXCEPT ![attached] = g]
      /\ n < Len(Current.log) /\ UNCHANGED <<attached, run, ids>>
  BY DEF SwitchBranch, Switched, Back, Current, AppendRaises, WriteRaises
<1>2. n \in Nat
  BY BoundAssumption
<1>3. Fits(h) /\ (Current.flushed => h.flushed)
  BY <1>1, <1>2, AttachedFits, SwitchedFits
<1> HIDE DEF h
<1>4. PICK g \in {h} \cup FailedWrites(Current) : file' = [file EXCEPT ![attached] = g]
  BY <1>1
<1>5. Fits(g) /\ (Current.flushed => g.flushed)
  BY <1>3, <1>4, AttachedFits, FailedWritesFit
<1>6. RunStands(run', g) /\ ids' \in 0 .. MaxIds
  BY <1>1, <1>5, AttachedFits, RunStandsOn DEF IInv
<1>7. QED
  BY <1>1, <1>4, <1>5, <1>6, BranchStep

\* The process dies, and another one starts.
LEMMA CrashStep ==
  ASSUME IInv, Crash
  PROVE  IInv'
<1>1. PICK torn \in BOOLEAN, s \in SessionId :
        LET found == [file EXCEPT ![attached] = Recovered(Current, torn)] IN
        /\ file' = found \/ file' = [found EXCEPT ![s] = Blank(None)]
        /\ Attach(s)
  BY DEF Crash, Current
<1> DEFINE left == Recovered(Current, torn)
           found == [file EXCEPT ![attached] = left]
<1>2. AllFit(file) /\ attached \in SessionId /\ ids' \in 0 .. MaxIds /\ Fits(Current)
  BY AttachedFits DEF IInv, Crash
<1>3. Fits(left)
  BY <1>2, RecoveredFits
<1> HIDE DEF left
<1>4. AllFit(found)
  BY <1>2, <1>3, Updated
<1>5. file' = found \/ file' = [found EXCEPT ![s] = Blank(None)]
  BY <1>1 DEF left
<1>6. Fits(Blank(None))
  BY UnusedFits DEF MaybeSession
<1> HIDE DEF found
<1>7. AllFit(file')
  BY <1>4, <1>5, <1>6, Updated
<1>8. QED
  BY <1>1, <1>2, <1>7, AttachStep DEF Attach

-----------------------------------------------------------------------------
\* The user prompts.
LEMMA PromptStep ==
  ASSUME IInv, Prompt
  PROVE  IInv'
<1>1. /\ run' = [Run0 EXCEPT !.pc = "retrieve"]
      /\ UNCHANGED <<file, attached, ids>>
  BY DEF Prompt
<1>2. /\ run' \in RunStates /\ run'.exec = None /\ run'.pc = "retrieve"
  BY <1>1, Run0Fits DEF RunStates
<1>3. RunStands(run', Current) /\ ids' \in 0 .. MaxIds
  BY <1>1, <1>2 DEF RunStands, IInv
<1>4. QED
  BY <1>1, <1>3, QuietStep DEF Current

\* The terminal entry of a Plan run, or what it leaves when it raises.
LEMMA FinishStep ==
  ASSUME IInv, run.exec # None, NEW status, FinishPlanRun(status),
         UNCHANGED <<attached, ids>>
  PROVE  IInv'
<1> DEFINE e == Run(status, Token(plan.latest), run.exec)
<1>1. run' = Run0 /\ (CommitNow(e) \/ CommitRaises(e)) /\ attached' = attached
  BY DEF FinishPlanRun
<1> HIDE DEF e
<1>2. ids' \in 0 .. MaxIds
  BY DEF IInv
<1>3. QED
  BY <1>1, <1>2, Run0Fits, BoundaryStep, RaisedStep

\* The tools of every state are tools.
LEMMA EffectiveToolsAreTools ==
  ASSUME NEW p
  PROVE  EffectiveTools(p) \subseteq Kinds
BY DEF EffectiveTools, Kinds

\* What the Agent appends, with the run it leads to.
LEMMA AgentStep ==
  ASSUME IInv, NEW e, AgentAppends(e),
         UNCHANGED <<attached, ids>>, run' \in RunStates, run'.exec = run.exec,
         run'.pc \notin {"extract", "question"}
  PROVE  IInv'
<1>1. PICK g : /\ file' = [file EXCEPT ![attached] = g] /\ Fits(g)
               /\ Current.flushed => g.flushed
  BY AgentAppendsFits
<1>2. RunStands(run', g) /\ ids' \in 0 .. MaxIds
  BY <1>1, AttachedFits DEF RunStands, IInv
<1>3. QED
  BY <1>1, <1>2, BranchStep

\* A user message is appended and the loop adopts the tools.
LEMMA NextRequestStep ==
  ASSUME IInv, NEW r \in RunStates, r.exec = run.exec, NextRequest(r),
         UNCHANGED <<attached, ids>>
  PROVE  IInv'
<1> DEFINE tools == EffectiveTools(plan')
           todo == <<>>
<1>1. AgentAppends(UserMessage)
  BY DEF NextRequest
<1>2. run' = [r EXCEPT !.pc = "model", !.tools = tools, !.todo = todo, !.steer = FALSE]
  BY DEF NextRequest
<1>3. tools \in SUBSET Kinds
  BY EffectiveToolsAreTools
<1>4. todo \in Seq(Kinds)
  OBVIOUS
<1> HIDE DEF tools, todo
<1>5. run' \in RunStates /\ run'.exec = run.exec /\ run'.pc = "model"
  BY <1>2, <1>3, <1>4 DEF RunStates
<1>6. QED
  BY <1>1, <1>5, AgentStep

\* A run makes its first request, or a Plan run fails before it.
LEMMA BeginStep ==
  ASSUME IInv, Begin
  PROVE  IInv'
<1>1. run \in RunStates /\ (run.pc = "extract" => run.exec # None)
  BY AttachedFits DEF RunStands
<1>2. UNCHANGED <<attached, ids>>
  BY DEF Begin
<1>3. CASE NextRequest(run)
  BY <1>1, <1>2, <1>3, NextRequestStep
<1>4. CASE /\ run.pc = "extract"
           /\ FinishPlanRun(IF run.planAbort THEN "aborted" ELSE "failed")
  BY <1>1, <1>2, <1>4, FinishStep
<1>5. QED
  BY <1>3, <1>4 DEF Begin

\* A reply is appended.
LEMMA ReplyStep ==
  ASSUME IInv, NEW stop \in {"stop", "length", "error", "aborted"},
         NEW batch \in Seq(Kinds), NEW call \in MaybeId, Reply(stop, batch, call),
         UNCHANGED <<attached, ids>>
  PROVE  IInv'
<1> DEFINE sole == call # None /\ Len(batch) = 1 /\ stop = "stop"
           e == AssistantMessage(call, sole)
           pc == IF stop \in {"error", "aborted"} THEN "settle" ELSE "tools"
           last == IF run.exec = None THEN None ELSE stop
           turn == IF batch = <<>> THEN "last" ELSE "ended"
<1>1. AgentAppends(e)
  BY DEF Reply
<1>2. run' = [run EXCEPT !.pc = pc, !.stop = last, !.todo = batch, !.call = call,
                         !.sole = sole, !.turn = turn]
  BY DEF Reply
<1>3. /\ pc \in {"settle", "tools"} /\ last \in {None, "stop", "length", "error", "aborted"}
      /\ turn \in {"last", "ended"}
  OBVIOUS
<1>4. sole \in BOOLEAN
  OBVIOUS
<1> HIDE DEF sole, e, pc, last, turn
<1>6. run \in RunStates
  BY AttachedFits DEF RunStands
<1>7. run' \in RunStates /\ run'.exec = run.exec /\ run'.pc = pc
  BY <1>2, <1>3, <1>4, <1>6 DEF RunStates
<1>8. QED
  BY <1>1, <1>3, <1>7, AgentStep

\* The model replies, fails or is aborted.
LEMMA ModelStep ==
  ASSUME IInv, Model
  PROVE  IInv'
<1>1. UNCHANGED <<attached, ids>>
  BY DEF Model
<1> DEFINE none == <<>>
<1>2. none \in Seq(Kinds)
  OBVIOUS
<1>3. Batches \subseteq Seq(Kinds)
  BY BatchAssumption DEF Kinds
<1>4. Calls \subseteq MaybeId /\ None \in MaybeId
  BY BoundAssumption DEF MaybeId
<1>5. \/ Reply("aborted", none, None)
      \/ \E batch \in Batches, stop \in {"stop", "length"}, call \in {None} \cup Calls :
           Reply(stop, batch, call)
      \/ Reply("error", none, None)
  BY DEF Model
<1> HIDE DEF none
<1>6. QED
  BY <1>1, <1>2, <1>3, <1>4, <1>5, ReplyStep

\* A step that leaves the branch alone and the run where it was, or further on.
LEMMA RunOnlyStep ==
  ASSUME IInv, UNCHANGED <<file, attached, ids>>, run' \in RunStates,
         run'.exec = run.exec, run'.pc = "extract" => run.pc = "extract",
         run'.pc = "question" => run'.todo # <<>>
  PROVE  IInv'
<1>1. RunStands(run', Current) /\ ids' \in 0 .. MaxIds
  BY AttachedFits DEF RunStands, IInv
<1>2. QED
  BY <1>1, QuietStep DEF Current

\* A turn ends, and perhaps the run.
LEMMA EndTurnStep ==
  ASSUME IInv, EndTurn
  PROVE  IInv'
<1> DEFINE next == [run EXCEPT !.call = None, !.sole = FALSE, !.turn = "last"]
<1>1. run \in RunStates /\ UNCHANGED <<attached, ids>>
  BY AttachedFits DEF RunStands, EndTurn
<1>2. /\ \/ /\ run' = [next EXCEPT !.pc = "settle", !.tools = {}, !.steer = FALSE]
            /\ file' = file
         \/ NextRequest(next)
         \/ run' = [next EXCEPT !.pc = "model"] /\ file' = file
  BY DEF EndTurn
<1>3. next \in RunStates /\ next.exec = run.exec
  BY <1>1 DEF RunStates, MaybeId
<1> HIDE DEF next
<1>4. CASE NextRequest(next)
  BY <1>1, <1>3, <1>4, NextRequestStep
<1>5. CASE /\ run' = [next EXCEPT !.pc = "settle", !.tools = {}, !.steer = FALSE]
           /\ file' = file
  <2>1. run' \in RunStates /\ run'.exec = run.exec /\ run'.pc = "settle"
    BY <1>3, <1>5 DEF RunStates
  <2>2. QED
    BY <1>1, <1>5, <2>1, RunOnlyStep
<1>6. CASE run' = [next EXCEPT !.pc = "model"] /\ file' = file
  <2>1. run' \in RunStates /\ run'.exec = run.exec /\ run'.pc = "model"
    BY <1>3, <1>6 DEF RunStates
  <2>2. QED
    BY <1>1, <1>6, <2>1, RunOnlyStep
<1>7. QED
  BY <1>2, <1>4, <1>5, <1>6

\* A sequence without its first element.
LEMMA TailOfSeq ==
  ASSUME NEW S, NEW s \in Seq(S), s # <<>>
  PROVE  Tail(s) \in Seq(S)
OBVIOUS

\* A call that is done leaves the rest of its batch.
LEMMA DoneStands ==
  ASSUME run \in RunStates, run.todo # <<>>, NEW ends \in BOOLEAN
  PROVE  Done(ends) \in RunStates /\ Done(ends).exec = run.exec /\ Done(ends).pc = run.pc
<1> DEFINE todo == run.todo
           rest == Tail(todo)
           turn == IF ends THEN run.turn ELSE "goes on"
<1>1. todo \in Seq(Kinds) /\ todo # <<>> /\ run.turn \in {"last", "ended", "goes on"}
  BY DEF RunStates
<1>2. rest \in Seq(Kinds)
  <2> HIDE DEF todo
  <2>1. QED
    BY <1>1, TailOfSeq
<1>3. turn \in {"last", "ended", "goes on"}
  BY <1>1
<1>4. Done(ends) = [run EXCEPT !.todo = rest, !.turn = turn]
  BY DEF Done
<1> HIDE DEF rest, turn
<1>5. QED
  BY <1>2, <1>3, <1>4 DEF RunStates

\* The model asks: the question is on the disk, and its call not done; or the
\* call fails.
LEMMA AskStep ==
  ASSUME IInv, run.pc = "tools", run.todo # <<>>, Ask, attached' = attached
  PROVE  IInv'
<1> DEFINE e == Question(plan.plan, ids + 1)
<1>1. /\ ids < MaxIds /\ ids' = ids + 1
      /\ \/ /\ CommitNow(e)
            /\ run' = Done(TRUE) \/ run' = [run EXCEPT !.pc = "question", !.future = "pending"]
         \/ CommitRaises(e) /\ run' = Done(FALSE)
  BY DEF Ask
<1> HIDE DEF e
<1>2. run \in RunStates /\ ids' \in 0 .. MaxIds
  BY <1>1, AttachedFits, BoundAssumption DEF RunStands, IInv
<1>3. CASE CommitNow(e) /\ run' = Done(TRUE)
  BY <1>1, <1>2, <1>3, DoneStands, BoundaryStep
<1>4. CASE CommitNow(e) /\ run' = [run EXCEPT !.pc = "question", !.future = "pending"]
  <2>1. run' \in RunStates /\ run'.pc = "question" /\ run'.todo = run.todo
    BY <1>2, <1>4 DEF RunStates
  <2>2. QED
    BY <1>1, <1>2, <1>4, <2>1, BoundaryStep
<1>5. CASE CommitRaises(e) /\ run' = Done(FALSE)
  BY <1>1, <1>2, <1>5, DoneStands, RaisedStep
<1>6. QED
  BY <1>1, <1>3, <1>4, <1>5

\* The model submits a revision, or its call fails.
LEMMA SubmitStep ==
  ASSUME IInv, run.pc = "tools", run.todo # <<>>, SubmitPlan, attached' = attached
  PROVE  IInv'
<1>1. /\ \E e : \/ CommitNow(e) /\ run' = Done(TRUE)
                \/ CommitRaises(e) /\ run' = Done(FALSE)
      /\ ids' = ids
  BY DEF SubmitPlan
<1>2. run \in RunStates /\ ids' \in 0 .. MaxIds
  BY <1>1, AttachedFits DEF RunStands, IInv
<1>3. QED
  BY <1>1, <1>2, DoneStands, BoundaryStep, RaisedStep

\* A call is refused, or runs.
LEMMA ToolStep ==
  ASSUME IInv, Tool
  PROVE  IInv'
<1>1. /\ run.pc = "tools" /\ run.todo # <<>> /\ attached' = attached
      /\ run \in RunStates
  BY AttachedFits DEF Tool, RunStands
<1>2. CASE run' = Done(FALSE) /\ UNCHANGED <<file, ids>>
  BY <1>1, <1>2, DoneStands, RunOnlyStep
<1>3. CASE Ask
  BY <1>1, <1>3, AskStep
<1>4. CASE SubmitPlan
  BY <1>1, <1>4, SubmitStep
<1>5. QED
  BY <1>2, <1>3, <1>4 DEF Tool, Refused

\* A question is answered, cancelled or aborted.
LEMMA QuestionReturnsStep ==
  ASSUME IInv, QuestionReturns
  PROVE  IInv'
<1> DEFINE ends == run.future # "answered"
           d == Done(ends)
<1>1. /\ run.pc = "question" /\ UNCHANGED <<file, attached, ids>>
      /\ run' = [d EXCEPT !.pc = "tools", !.future = None]
  BY DEF QuestionReturns
<1>2. run \in RunStates /\ run.todo # <<>>
  BY <1>1, AttachedFits DEF RunStands
<1>3. d \in RunStates /\ d.exec = run.exec
  BY <1>2, DoneStands
<1> HIDE DEF d
<1>4. run' \in RunStates /\ run'.exec = run.exec /\ run'.pc = "tools"
  BY <1>1, <1>3 DEF RunStates
<1>5. QED
  BY <1>1, <1>4, RunOnlyStep

\* A run ends, a Plan run with its last entry.
LEMMA SettleStep ==
  ASSUME IInv, Settle
  PROVE  IInv'
<1>1. UNCHANGED <<attached, ids>>
  BY DEF Settle
<1>2. CASE run.exec = None
  <2>1. run' = Run0 /\ file' = file
    BY <1>2 DEF Settle
  <2>2. QED
    BY <1>1, <1>2, <2>1, Run0Fits, RunOnlyStep
<1>3. CASE run.exec # None
  BY <1>1, <1>3, FinishStep DEF Settle
<1>4. QED
  BY <1>2, <1>3

\* The user aborts.
LEMMA AbortStep ==
  ASSUME IInv, Abort
  PROVE  IInv'
<1> DEFINE planAbort == run.planAbort \/ plan.phase = "executing"
           abort == run.abort \/ AgentRuns
<1>1. /\ run' = [run EXCEPT !.planAbort = planAbort, !.abort = abort]
      /\ UNCHANGED <<file, attached, ids>>
  BY DEF Abort
<1>2. run \in RunStates /\ (run.pc = "question" => run.todo # <<>>)
  BY AttachedFits DEF RunStands
<1>3. planAbort \in BOOLEAN /\ abort \in BOOLEAN
  OBVIOUS
<1> HIDE DEF planAbort, abort
<1>4. /\ run' \in RunStates /\ run'.exec = run.exec /\ run'.pc = run.pc
      /\ run'.todo = run.todo
  BY <1>1, <1>2, <1>3 DEF RunStates
<1>5. QED
  BY <1>1, <1>2, <1>4, RunOnlyStep

\* The user steers.
LEMMA SteerStep ==
  ASSUME IInv, Steer
  PROVE  IInv'
<1>1. run' = [run EXCEPT !.steer = TRUE] /\ UNCHANGED <<file, attached, ids>>
  BY DEF Steer
<1>2. run \in RunStates /\ (run.pc = "question" => run.todo # <<>>)
  BY AttachedFits DEF RunStands
<1>3. /\ run' \in RunStates /\ run'.exec = run.exec /\ run'.pc = run.pc
      /\ run'.todo = run.todo
  BY <1>1, <1>2 DEF RunStates
<1>4. QED
  BY <1>1, <1>2, <1>3, RunOnlyStep

\* The task that drives the run is cancelled.
LEMMA CancelTaskStep ==
  ASSUME IInv, CancelTask
  PROVE  IInv'
<1> DEFINE d == Done(FALSE)
<1>1. UNCHANGED <<attached, ids>> /\ run \in RunStates
  BY AttachedFits DEF CancelTask, RunStands
<1>2. CASE /\ run.todo # <<>> /\ file' = file
           /\ run' = [d EXCEPT !.pc = "tools", !.future = None, !.abort = TRUE]
  <2>1. d \in RunStates /\ d.exec = run.exec
    BY <1>1, <1>2, DoneStands
  <2> HIDE DEF d
  <2>2. run' \in RunStates /\ run'.exec = run.exec /\ run'.pc = "tools"
    BY <1>2, <2>1 DEF RunStates
  <2>3. QED
    BY <1>1, <1>2, <2>2, RunOnlyStep
<1>3. CASE run.exec = None /\ run' = Run0 /\ file' = file
  BY <1>1, <1>3, Run0Fits, RunOnlyStep
<1>4. CASE run.exec # None /\ FinishPlanRun("aborted")
  BY <1>1, <1>4, FinishStep
<1>5. QED
  BY <1>2, <1>3, <1>4 DEF CancelTask

-----------------------------------------------------------------------------
\* At the start there is one new session.
LEMMA InitIInv == Init => IInv
<1> SUFFICES ASSUME Init PROVE IInv
  OBVIOUS
<1>1. /\ attached = First /\ run = Run0 /\ ids = 0
      /\ file = [s \in SessionId |-> IF s = First THEN Blank(None) ELSE Unused]
  BY DEF Init
<1>2. Fits(Unused) /\ Fits(Blank(None))
  BY UnusedFits DEF MaybeSession
<1>3. AllFit(file)
  BY <1>1, <1>2 DEF AllFit
<1>4. QED
  BY <1>1, <1>3, Run0Fits, BoundAssumption DEF IInv

\* Every control of the user keeps the invariant.
LEMMA HostKeepsIInv == IInv /\ HostStep => IInv'
<1> SUFFICES ASSUME IInv, HostStep PROVE IInv'
  OBVIOUS
<1>1. CASE \E token \in Tokens : ExecutePlan(token)
  BY <1>1, ExecuteStep
<1>2. CASE \E token \in Tokens, s \in SessionId : HandoffPlan(token, s)
  BY <1>2, HandoffStep
<1>3. CASE \E s \in SessionId : NewSession(s)
  BY <1>3, NewSessionStep
<1>4. CASE \E n \in BranchPoints : SwitchBranch(n)
  BY <1>4, SwitchStep
<1>5. QED
  BY <1>1, <1>2, <1>3, <1>4, EnterStep, CancelStep, AnswerStep, AppendOtherStep,
     PromptStep, AbortStep, SteerStep, CancelTaskStep DEF HostStep

\* So does every step of a run.
LEMMA RunKeepsIInv == IInv /\ RunStep => IInv'
BY BeginStep, ModelStep, ToolStep, EndTurnStep, QuestionReturnsStep, SettleStep
   DEF RunStep

\* So does every step, and no step.
LEMMA NextKeepsIInv == IInv /\ [Next]_vars => IInv'
<1> SUFFICES ASSUME IInv, [Next]_vars PROVE IInv'
  OBVIOUS
<1>1. CASE UNCHANGED vars
  <2>1. UNCHANGED <<file, attached, ids, run>>
    BY <1>1 DEF vars
  <2>2. QED
    BY <2>1, QuietStep DEF IInv
<1>2. CASE Next
  BY <1>2, HostKeepsIInv, RunKeepsIInv, CrashStep DEF Next
<1>3. QED
  BY <1>1, <1>2

\* Every file fits and the run in progress fits the attached one, through all
\* controls of AgentSession, its runs, failed writes and crashes.
THEOREM Invariance == Spec => []IInv
BY InitIInv, NextKeepsIInv, PTL DEF Spec


-----------------------------------------------------------------------------
\* What is on the disk of a branch stays in its place and on the disk, and a session
\* that is used stays used.
Keeps(f, g) ==
  /\ f.used => g.used
  /\ \A i \in 1 .. f.durable : i \in 1 .. g.durable /\ g.log[i] = f.log[i]

\* The attached session is in use, and one that is not has said nothing.
UnusedEmpty(files) ==
  \A s \in SessionId : ~files[s].used => files[s].log = <<>> /\ ~files[s].flushed
UInv == file[attached].used /\ UnusedEmpty(file)

\* No file loses what was on the disk.
AllKeep(files, others) == \A s \in SessionId : Keeps(files[s], others[s])

\* Two steps that keep what is on the disk keep it together.
LEMMA KeepsCompose ==
  ASSUME NEW f, NEW g, NEW h, Keeps(f, g), Keeps(g, h)
  PROVE  Keeps(f, h)
BY DEF Keeps

\* What is not used has nothing to keep.
LEMMA EmptyKeeps ==
  ASSUME NEW f, ~f.used, Fits(f), ~f.flushed, NEW g
  PROVE  Keeps(f, g)
<1>1. f.durable = 0
  BY DEF Fits, FitsIn
<1>2. QED
  BY <1>1 DEF Keeps

\* A flush loses nothing.
LEMMA FlushedKeeps ==
  ASSUME NEW S, NEW f, FitsIn(f, S), NEW g, g = Flushed(f)
  PROVE  Keeps(f, g)
<1> DEFINE n == Len(f.log)
<1>1. f \in FilesOf(S) /\ n \in Nat /\ f.durable \in Nat /\ f.durable <= n
  BY DEF FitsIn, FilesOf
<1>2. g = [f EXCEPT !.flushed = TRUE, !.durable = n]
  BY DEF Flushed
<1> HIDE DEF n
<1>3. g.log = f.log /\ g.durable = n /\ g.used = f.used
  BY <1>1, <1>2 DEF FilesOf
<1>4. QED
  BY <1>1, <1>3 DEF Keeps

\* One more entry loses nothing either.
LEMMA LongerKeeps ==
  ASSUME NEW S, NEW f, FitsIn(f, S), NEW e, NEW g, g = Longer(f, e)
  PROVE  Keeps(f, g)
<1> DEFINE s == f.log
           T == S \cup {e}
           t == Append(s, e)
<1>1. s \in Seq(S) /\ e \in T /\ S \subseteq T /\ f \in FilesOf(S)
  BY DEF FitsIn, FilesOf
<1>2. s \in Seq(T)
  BY <1>1, Widens
<1>3. Len(s) \in Nat /\ \A i \in 1 .. Len(s) : t[i] = s[i]
  BY <1>1, <1>2, Appending
<1>4. g = [f EXCEPT !.log = t] /\ s = f.log
  BY DEF Longer
<1>5. f.durable \in Nat /\ f.durable <= Len(s)
  BY <1>1, <1>4 DEF FitsIn, FilesOf
<1> HIDE DEF s, T, t
<1>6. g.log = t /\ g.used = f.used /\ g.durable = f.durable
  BY <1>1, <1>4 DEF FilesOf
<1>7. \A i \in 1 .. f.durable : i \in 1 .. Len(s)
  BY <1>3, <1>5
<1>8. QED
  BY <1>3, <1>4, <1>6, <1>7 DEF Keeps

\* Nor does an append, written through or not.
LEMMA WrittenKeeps ==
  ASSUME NEW f, Fits(f), NEW e, NEW g, g = Written(f, e)
  PROVE  Keeps(f, g)
<1>1. PICK S : FitsIn(f, S)
  BY DEF Fits
<1> DEFINE T == S \cup {e}
           h == Longer(f, e)
<1>2. FitsIn(h, T)
  BY <1>1, LongerFits
<1>3. Keeps(f, h)
  BY <1>1, LongerKeeps
<1>4. g = Flushed(h) \/ g = h
  BY DEF Written, Longer
<1> HIDE DEF T, h
<1>5. QED
  BY <1>2, <1>3, <1>4, FlushedKeeps, KeepsCompose

\* Nor an append and a flush.
LEMMA WrittenNowKeeps ==
  ASSUME NEW f, Fits(f), NEW e, NEW g, g = Flushed(Written(f, e))
  PROVE  Keeps(f, g)
<1> DEFINE h == Written(f, e)
<1>1. PICK S : FitsIn(h, S)
  BY WrittenFits DEF Fits
<1>2. Keeps(f, h)
  BY WrittenKeeps
<1>3. g = Flushed(h)
  OBVIOUS
<1> HIDE DEF h
<1>4. QED
  BY <1>1, <1>2, <1>3, FlushedKeeps, KeepsCompose

\* Nor a write that fails.
LEMMA FailedWritesKeep ==
  ASSUME NEW f, Fits(f), NEW g \in FailedWrites(f)
  PROVE  Keeps(f, g)
<1>1. PICK S : FitsIn(f, S)
  BY DEF Fits
<1>2. f \in FilesOf(S) /\ f.durable \in Nat /\ Len(f.log) \in Nat
  BY <1>1 DEF FitsIn, FilesOf
<1>3. CASE g = f
  BY <1>3 DEF Keeps
<1>4. CASE g # f
  <2>1. PICK d \in f.durable .. Len(f.log) : g = [f EXCEPT !.flushed = TRUE, !.durable = d]
    BY <1>4 DEF FailedWrites
  <2>2. g.log = f.log /\ g.used = f.used /\ g.durable = d
    BY <1>2, <2>1 DEF FilesOf
  <2>3. d \in Nat /\ f.durable <= d
    BY <1>2
  <2>4. QED
    BY <1>2, <2>2, <2>3 DEF Keeps
<1>5. QED
  BY <1>3, <1>4

\* Nor one that raises.
LEMMA RaisedKeep ==
  ASSUME NEW f, Fits(f), NEW e, NEW g \in Raised(f, e)
  PROVE  Keeps(f, g)
<1>1. PICK S : FitsIn(f, S)
  BY DEF Fits
<1> DEFINE h == Longer(f, e)
<1>2. Fits(h) /\ Keeps(f, h)
  BY <1>1, LongerFits, LongerKeeps
<1>3. g \in FailedWrites(f) \/ g \in FailedWrites(h)
  BY DEF Raised
<1> HIDE DEF h
<1>4. QED
  BY <1>2, <1>3, FailedWritesKeep, KeepsCompose

\* Nor a crash.
LEMMA RecoveredKeeps ==
  ASSUME NEW f, Fits(f), NEW torn \in BOOLEAN, NEW g, g = Recovered(f, torn)
  PROVE  Keeps(f, g)
<1>1. PICK S : FitsIn(f, S)
  BY DEF Fits
<1> DEFINE s == f.log
           n == f.durable
           T == S \cup {Issue}
           t == SubSeq(s, 1, n)
           u == IF torn THEN <<Issue>> ELSE <<>>
           v == t \o u
           k == Len(v)
           none == [Unused EXCEPT !.used = TRUE]
<1>2. /\ f \in FilesOf(S) /\ s \in Seq(S) /\ n \in Nat /\ n <= Len(s)
      /\ S \subseteq T /\ Issue \in T
  BY <1>1 DEF FitsIn, FilesOf
<1>3. t = SubSeq(s, 1, n) /\ v = t \o u /\ s = f.log /\ n = f.durable /\ k = Len(v)
  OBVIOUS
<1>4. u \in Seq(T)
  <2>1. CASE torn
    BY <2>1, <1>2
  <2>2. CASE ~torn
    <3>1. <<>> \in Seq(T)
      OBVIOUS
    <3>2. QED
      BY <2>2, <3>1
  <2>3. QED
    BY <2>1, <2>2
<1>5. g = IF f.flushed THEN [f EXCEPT !.log = v, !.durable = k] ELSE none
  BY DEF Recovered
<1>6. none.used
  BY DEF Unused
<1>8. ~f.flushed => n = 0
  BY <1>1 DEF FitsIn
<1> HIDE DEF s, n, T, t, u, v, k, none
<1>9. s \in Seq(T)
  BY <1>2, Widens
<1>10. t \in Seq(T) /\ Len(t) = n /\ \A i \in 1 .. n : t[i] = s[i]
  BY <1>2, <1>3, <1>9, Parts
<1>11. /\ Len(v) = Len(t) + Len(u) /\ Len(u) \in Nat
       /\ \A i \in 1 .. Len(t) : v[i] = t[i]
  BY <1>3, <1>4, <1>10, Concatenation
<1>12. k = n + Len(u) /\ \A i \in 1 .. n : v[i] = s[i]
  BY <1>3, <1>10, <1>11
<1>13. CASE f.flushed
  <2>1. g = [f EXCEPT !.log = v, !.durable = k]
    BY <1>5, <1>13
  <2>2. g.log = v /\ g.used = f.used /\ g.durable = k
    BY <1>2, <2>1 DEF FilesOf
  <2>3. \A i \in 1 .. n : i \in 1 .. k /\ v[i] = s[i]
    BY <1>2, <1>11, <1>12
  <2>4. QED
    BY <1>3, <2>2, <2>3 DEF Keeps
<1>14. CASE ~f.flushed
  <2>1. g = none /\ n = 0
    BY <1>5, <1>8, <1>14
  <2>2. QED
    BY <1>3, <1>6, <2>1 DEF Keeps
<1>15. QED
  BY <1>13, <1>14

\* One file is replaced by a used one that keeps what was on the disk.
LEMMA UpdatedKeeps ==
  ASSUME NEW files, AllFit(files), UnusedEmpty(files), NEW s \in SessionId, NEW g,
         g.used, files[s].used => Keeps(files[s], g),
         NEW others, others = [files EXCEPT ![s] = g]
  PROVE  AllKeep(files, others) /\ UnusedEmpty(others) /\ others[s].used
<1>1. /\ files = [t \in SessionId |-> files[t]]
      /\ \A t \in SessionId : t # s => others[t] = files[t]
      /\ others[s] = g /\ Fits(files[s])
  BY DEF AllFit
<1>2. UnusedEmpty(others) /\ others[s].used
  BY <1>1 DEF UnusedEmpty
<1>3. Keeps(files[s], g)
  BY <1>1, EmptyKeeps DEF UnusedEmpty
<1>4. \A t \in SessionId : Keeps(files[t], others[t])
  BY <1>1, <1>3 DEF Keeps
<1>5. QED
  BY <1>2, <1>4 DEF AllKeep

\* The attached file changes, and keeps what was on the disk.
LEMMA OneFileKeeps ==
  ASSUME IInv, UInv, attached' = attached, NEW g, Keeps(Current, g),
         file' = [file EXCEPT ![attached] = g]
  PROVE  AllKeep(file, file') /\ UInv'
<1>1. /\ AllFit(file) /\ attached \in SessionId /\ g.used
      /\ UnusedEmpty(file) /\ Keeps(file[attached], g)
  BY DEF IInv, UInv, Current, Keeps
<1>2. AllKeep(file, file') /\ UnusedEmpty(file') /\ file'[attached].used
  BY <1>1, UpdatedKeeps
<1>3. QED
  BY <1>2 DEF UInv

\* Or no file changes.
LEMMA NoFileKeeps ==
  ASSUME UInv, attached' = attached, file' = file
  PROVE  AllKeep(file, file') /\ UInv'
BY DEF UInv, AllKeep, Keeps, UnusedEmpty

\* An entry that says that a plan was handed to another session.
HandsOver(e) == e.type = "mode" /\ e.mode = "default" /\ e.reason = "handoff"

\* What the program writes into the attached session alone, or fails to.
Writes ==
  \/ file' = file
  \/ \E e : ~HandsOver(e) /\ (Commit(e) \/ CommitNow(e) \/ AgentAppends(e))
  \/ \E e : ~HandsOver(e) /\ (CommitRaises(e) \/ AppendRaises \/ FlushRaises(e))

\* They keep what is on the disk.
LEMMA WritesKeep ==
  ASSUME IInv, UInv, attached' = attached, Writes
  PROVE  AllKeep(file, file') /\ UInv'
<1>1. Fits(Current)
  BY AttachedFits
<1>2. CASE file' = file
  BY <1>2, NoFileKeeps
<1>3. ASSUME NEW e, Commit(e) PROVE AllKeep(file, file') /\ UInv'
  <2> DEFINE g == Written(Current, e)
  <2>1. Keeps(Current, g)
    BY <1>1, WrittenKeeps
  <2>2. file' = [file EXCEPT ![attached] = g]
    BY <1>3 DEF Commit, Current
  <2> HIDE DEF g
  <2>3. QED
    BY <2>1, <2>2, OneFileKeeps
<1>4. ASSUME NEW e, CommitNow(e) PROVE AllKeep(file, file') /\ UInv'
  <2> DEFINE g == Flushed(Written(Current, e))
  <2>1. Keeps(Current, g)
    BY <1>1, WrittenNowKeeps
  <2>2. file' = [file EXCEPT ![attached] = g]
    BY <1>4 DEF CommitNow, Current
  <2> HIDE DEF g
  <2>3. QED
    BY <2>1, <2>2, OneFileKeeps
<1>5. ASSUME NEW e, AgentAppends(e) PROVE AllKeep(file, file') /\ UInv'
  <2>1. CASE Commit(e)
    BY <1>3, <2>1
  <2>2. CASE \E g \in FailedWrites(Current) : file' = [file EXCEPT ![attached] = g]
    BY <1>1, <2>2, FailedWritesKeep, OneFileKeeps
  <2>3. QED
    BY <1>5, <2>1, <2>2 DEF AgentAppends, WriteRaises
<1>6. ASSUME NEW e, CommitRaises(e) \/ AppendRaises \/ FlushRaises(e)
      PROVE  AllKeep(file, file') /\ UInv'
  BY <1>1, <1>6, RaisingWrites, RaisedKeep, OneFileKeeps
<1>7. QED
  BY <1>2, <1>3, <1>4, <1>5, <1>6 DEF Writes

\* Steps compose over all files.
LEMMA AllKeepCompose ==
  ASSUME NEW a, NEW b, NEW c, AllKeep(a, b), AllKeep(b, c)
  PROVE  AllKeep(a, c)
BY KeepsCompose DEF AllKeep

\* Only a handoff says so.
LEMMA Speaking ==
  /\ \A m, p, r : ~HandsOver(ModeChange(m, p, "user", r)) /\ ~HandsOver(ModeChange("plan", p, r, m))
  /\ \A a, b : ~HandsOver(Answer(a, b)) /\ ~HandsOver(Question(a, b)) /\ ~HandsOver(AssistantMessage(a, b))
  /\ \A a, b, c : ~HandsOver(Run(a, b, c))
  /\ \A a, b, c, d, e : ~HandsOver(Revision(a, b, c, d, e))
  /\ ~HandsOver(Other) /\ ~HandsOver(UserMessage) /\ ~HandsOver(Issue)
BY DEF HandsOver, ModeChange, Answer, Question, AssistantMessage, Message, Run, Revision,
   Other, UserMessage, Issue

\* The actions that write into the attached session alone.
LEMMA PlainHostSteps ==
  ASSUME \/ CancelPlanMode \/ AnswerPlanQuestion \/ AppendOther \/ Prompt
         \/ Abort \/ Steer \/ CancelTask \/ \E token \in Tokens : ExecutePlan(token)
  PROVE  attached' = attached /\ Writes
<1>1. CASE CancelPlanMode
  BY <1>1, Speaking DEF CancelPlanMode, Writes
<1>2. CASE AnswerPlanQuestion
  BY <1>2, Speaking DEF AnswerPlanQuestion, Writes
<1>3. CASE AppendOther
  BY <1>3, Speaking DEF AppendOther, Writes
<1>4. CASE Prompt \/ Abort \/ Steer
  BY <1>4 DEF Prompt, Abort, Steer, Writes
<1>5. CASE CancelTask
  BY <1>5, Speaking DEF CancelTask, FinishPlanRun, Writes
<1>6. CASE \E token \in Tokens : ExecutePlan(token)
  BY <1>6, Speaking DEF ExecutePlan, StartRaises, Writes
<1>7. QED
  BY <1>1, <1>2, <1>3, <1>4, <1>5, <1>6

\* All steps of a run are of that kind.
LEMMA RunSteps ==
  ASSUME RunStep
  PROVE  attached' = attached /\ Writes
<1>1. CASE Begin
  BY <1>1, Speaking DEF Begin, NextRequest, FinishPlanRun, Writes
<1>2. CASE Model
  <2>1. ASSUME NEW stop, NEW batch, NEW call, Reply(stop, batch, call) PROVE Writes
    <3>1. PICK sole : AgentAppends(AssistantMessage(call, sole))
      BY <2>1 DEF Reply
    <3>2. ~HandsOver(AssistantMessage(call, sole))
      BY Speaking
    <3>3. QED
      BY <3>1, <3>2 DEF Writes
  <2>2. QED
    BY <1>2, <2>1 DEF Model
<1>3. CASE Tool
  BY <1>3, Speaking DEF Tool, Refused, Ask, SubmitPlan, Writes
<1>4. CASE EndTurn
  BY <1>4, Speaking DEF EndTurn, NextRequest, Writes
<1>5. CASE QuestionReturns
  BY <1>5 DEF QuestionReturns, Writes
<1>6. CASE Settle
  BY <1>6, Speaking DEF Settle, FinishPlanRun, Writes
<1>7. QED
  BY <1>1, <1>2, <1>3, <1>4, <1>5, <1>6 DEF RunStep

\* Entering Plan Mode appends once or twice, and may raise at either.
LEMMA EnterKeeps ==
  ASSUME IInv, UInv, EnterPlanMode
  PROVE  AllKeep(file, file') /\ UInv'
<1> DEFINE exit == ModeChange("default", plan.plan, "user", None)
           enter == ModeChange("plan", ids + 1, "user", None)
           left == IF plan.phase = "recovery_error" THEN Written(Current, exit) ELSE Current
           entered == Written(left, enter)
<1>1. /\ attached' = attached
      /\ \E g \in {entered} \cup FailedWrites(Current) \cup FailedWrites(left) :
           file' = [file EXCEPT ![attached] = g]
  BY DEF EnterPlanMode, AppendRaises, WriteRaises, Current
<1>2. Fits(Current) /\ Keeps(Current, Current)
  BY AttachedFits DEF Keeps
<1> HIDE DEF exit, enter
<1>4. Fits(left) /\ Keeps(Current, left)
  BY <1>2, WrittenFits, WrittenKeeps
<1> HIDE DEF left
<1>5. Keeps(Current, entered)
  BY <1>4, WrittenKeeps, KeepsCompose
<1> HIDE DEF entered
<1>6. PICK g \in {entered} \cup FailedWrites(Current) \cup FailedWrites(left) :
        file' = [file EXCEPT ![attached] = g]
  BY <1>1
<1>7. Keeps(Current, g)
  BY <1>2, <1>4, <1>5, <1>6, FailedWritesKeep, KeepsCompose
<1>8. QED
  BY <1>1, <1>6, <1>7, OneFileKeeps

\* The child of a handoff is in use, before it is written and after.
LEMMA ReviewIsUsed ==
  ASSUME NEW origin \in SessionId, NEW latest
  PROVE  Draft(origin, latest).used /\ Review(origin, latest).used
<1> DEFINE mode == ModeChange("plan", latest.plan, "handoff", origin)
           copy == Revision(latest.plan, latest.number, latest.call, latest.source, origin)
           f == Blank(origin)
           g == Written(f, mode)
           h == Draft(origin, latest)
<1>1. Fits(f) /\ f.used
  BY UnusedFits DEF MaybeSession, Blank, Unused
<1>2. h = Written(g, copy)
  BY DEF Draft
<1> HIDE DEF mode, copy, f
<1>3. Fits(g) /\ Keeps(f, g)
  BY <1>1, WrittenFits, WrittenKeeps
<1> HIDE DEF g
<1>4. Keeps(g, h) /\ h.used /\ Fits(h)
  BY <1>1, <1>2, <1>3, WrittenKeeps, WrittenFits DEF Keeps
<1>5. Review(origin, latest) = Flushed(h)
  BY DEF Review
<1> HIDE DEF h
<1>6. PICK S : FitsIn(h, S)
  BY <1>4 DEF Fits
<1>7. Keeps(h, Flushed(h))
  BY <1>6, FlushedKeeps
<1>8. QED
  BY <1>4, <1>5, <1>7 DEF Keeps, h

\* A handoff writes a session that was not used, and into the source.
LEMMA HandoffKeeps ==
  ASSUME IInv, UInv, NEW token, NEW s \in SessionId, HandoffPlan(token, s)
  PROVE  AllKeep(file, file') /\ UInv'
<1> DEFINE draft == Draft(attached, plan.latest)
           review == Review(attached, plan.latest)
           child == [file EXCEPT ![s] = review]
           handed == ModeChange("default", plan.plan, "handoff", s)
           a == child[attached]
           done == Written(Flushed(a), handed)
           crashed == Recovered(a, FALSE)
<1>1. /\ ~file[s].used
      /\ \/ /\ file' = [child EXCEPT ![attached] = done]
            /\ attached' = s \/ attached' = attached
         \/ /\ \E f \in FailedWrites(draft) : file' = [file EXCEPT ![s] = Recovered(f, FALSE)]
            /\ attached' = attached
         \/ /\ \E f \in FailedWrites(Current) : file' = [child EXCEPT ![attached] = f]
            /\ attached' = attached
         \/ /\ file' = [child EXCEPT ![attached] = crashed]
            /\ attached' \in SessionId /\ file'[attached'].flushed
  BY DEF HandoffPlan, Attach
<1>2. /\ AllFit(file) /\ attached \in SessionId /\ UnusedEmpty(file)
      /\ file[attached].used /\ Fits(Current) /\ Current = file[attached]
  BY AttachedFits DEF IInv, UInv, Current
<1>3. Fits(review) /\ review.used /\ Fits(draft) /\ draft.used
  BY <1>2, ReviewFits, DraftFits, ReviewIsUsed
<1> HIDE DEF review, draft
<1>4. AllFit(child) /\ AllKeep(file, child) /\ UnusedEmpty(child) /\ child[s].used
  BY <1>1, <1>2, <1>3, Updated, UpdatedKeeps
<1>14. a = Current
  BY <1>1, <1>2 DEF AllFit
<1> HIDE DEF child
<1>5. Fits(a) /\ a.used
  BY <1>2, <1>4 DEF AllFit, AllKeep, Keeps
<1>6. a = child[attached]
  OBVIOUS
<1> HIDE DEF a, handed
<1>7. Fits(Flushed(a)) /\ Keeps(a, Flushed(a))
  <2>1. PICK S : a \in FilesOf(S) /\ FitsIn(a, S)
    BY <1>5 DEF Fits, FitsIn
  <2>2. QED
    BY <2>1, FlushedFits, FlushedKeeps
<1>8. Keeps(a, done) /\ done.used
  BY <1>5, <1>7, WrittenKeeps, KeepsCompose DEF Keeps
<1>9. Keeps(a, crashed) /\ crashed.used
  BY <1>5, RecoveredKeeps DEF Keeps
<1> HIDE DEF done, crashed
<1>10. CASE file' = [child EXCEPT ![attached] = done] /\ (attached' = s \/ attached' = attached)
  <2>1. AllKeep(child, file') /\ UnusedEmpty(file')
    BY <1>2, <1>4, <1>6, <1>8, <1>10, UpdatedKeeps
  <2>2. file'[s].used /\ file'[attached].used
    BY <1>2, <1>4, <2>1 DEF AllKeep, Keeps
  <2>3. QED
    BY <1>4, <1>10, <2>1, <2>2, AllKeepCompose DEF UInv
<1>11. CASE /\ \E f \in FailedWrites(draft) : file' = [file EXCEPT ![s] = Recovered(f, FALSE)]
            /\ attached' = attached
  <2>1. PICK f \in FailedWrites(draft) : file' = [file EXCEPT ![s] = Recovered(f, FALSE)]
    BY <1>11
  <2>2. Fits(f) /\ f.used
    BY <1>3, FailedWritesFit, FailedWritesKeep DEF Keeps
  <2>3. Recovered(f, FALSE).used
    BY <2>2, RecoveredKeeps DEF Keeps
  <2>4. AllKeep(file, file') /\ UnusedEmpty(file')
    BY <1>1, <1>2, <2>1, <2>3, UpdatedKeeps
  <2>5. QED
    BY <1>2, <1>11, <2>4 DEF UInv, AllKeep, Keeps
<1>15. CASE /\ \E f \in FailedWrites(Current) : file' = [child EXCEPT ![attached] = f]
            /\ attached' = attached
  <2>1. PICK f \in FailedWrites(Current) : file' = [child EXCEPT ![attached] = f]
    BY <1>15
  <2>2. Keeps(a, f) /\ f.used
    BY <1>2, <1>5, <1>14, FailedWritesKeep DEF Keeps
  <2>3. AllKeep(child, file') /\ UnusedEmpty(file') /\ file'[attached].used
    BY <1>2, <1>4, <1>6, <2>1, <2>2, UpdatedKeeps
  <2>4. QED
    BY <1>4, <1>15, <2>3, AllKeepCompose DEF UInv
<1>12. CASE /\ file' = [child EXCEPT ![attached] = crashed]
            /\ attached' \in SessionId /\ file'[attached'].flushed
  <2>1. AllKeep(child, file') /\ UnusedEmpty(file')
    BY <1>2, <1>4, <1>6, <1>9, <1>12, UpdatedKeeps
  <2>2. file'[attached'].used
    BY <1>12, <2>1 DEF UnusedEmpty
  <2>3. QED
    BY <1>4, <2>1, <2>2, AllKeepCompose DEF UInv
<1>13. QED
  BY <1>1, <1>10, <1>11, <1>12, <1>15

\* So does /new.
LEMMA NewSessionKeeps ==
  ASSUME IInv, UInv, NEW s \in SessionId, NewSession(s)
  PROVE  AllKeep(file, file') /\ UInv'
<1> DEFINE left == IF Meaningful(Current) THEN Flushed(Current) ELSE Current
           one == [file EXCEPT ![attached] = left]
<1>1. /\ ~file[s].used
      /\ \/ file' = [file EXCEPT ![attached] = left, ![s] = Blank(None)] /\ attached' = s
         \/ /\ \E g \in FailedWrites(Current) : file' = [file EXCEPT ![attached] = g]
            /\ attached' = attached
  BY DEF NewSession, Current, Attach, WriteRaises
<1>2. /\ AllFit(file) /\ attached \in SessionId /\ UnusedEmpty(file)
      /\ file[attached].used /\ Fits(Current) /\ s # attached
  BY <1>1, AttachedFits DEF IInv, UInv
<1>3. Fits(left) /\ Keeps(Current, left) /\ left.used
  <2>1. PICK S : Current \in FilesOf(S) /\ FitsIn(Current, S)
    BY <1>2 DEF Fits, FitsIn
  <2>2. Keeps(Current, Current) /\ Keeps(Current, Flushed(Current))
    BY <2>1, FlushedKeeps DEF Keeps
  <2>3. Fits(left) /\ Keeps(Current, left)
    BY <1>2, <2>1, <2>2, FlushedFits
  <2>4. QED
    BY <1>2, <2>3 DEF Keeps, Current
<1> HIDE DEF left
<1>4. AllFit(one) /\ AllKeep(file, one) /\ UnusedEmpty(one)
  BY <1>2, <1>3, Updated, UpdatedKeeps DEF Current
<1>5. one[s] = file[s]
  BY <1>1, <1>2 DEF AllFit
<1>6. Blank(None).used
  BY DEF Blank, Unused
<1>7. CASE file' = [file EXCEPT ![attached] = left, ![s] = Blank(None)] /\ attached' = s
  <2>1. file' = [one EXCEPT ![s] = Blank(None)]
    BY <1>7
  <2> HIDE DEF one
  <2>2. AllKeep(one, file') /\ UnusedEmpty(file') /\ file'[s].used
    BY <1>1, <1>4, <1>5, <1>6, <2>1, UpdatedKeeps
  <2>3. QED
    BY <1>4, <1>7, <2>2, AllKeepCompose DEF UInv
<1>8. CASE /\ \E g \in FailedWrites(Current) : file' = [file EXCEPT ![attached] = g]
           /\ attached' = attached
  BY <1>2, <1>8, FailedWritesKeep, OneFileKeeps
<1>9. QED
  BY <1>1, <1>7, <1>8

\* And a crash.
LEMMA CrashKeeps ==
  ASSUME IInv, UInv, Crash
  PROVE  AllKeep(file, file') /\ UInv'
<1>1. PICK torn \in BOOLEAN, s \in SessionId :
        LET found == [file EXCEPT ![attached] = Recovered(Current, torn)] IN
        /\ \/ found[s].flushed /\ file' = found
           \/ ~file[s].used /\ file' = [found EXCEPT ![s] = Blank(None)]
        /\ attached' = s
  BY DEF Crash, Current, Attach
<1> DEFINE left == Recovered(Current, torn)
           found == [file EXCEPT ![attached] = left]
<1>2. /\ AllFit(file) /\ attached \in SessionId /\ UnusedEmpty(file)
      /\ file[attached].used /\ Fits(Current)
  BY AttachedFits DEF IInv, UInv
<1>3. Fits(left) /\ Keeps(Current, left) /\ left.used
  <2>1. Fits(left) /\ Keeps(Current, left)
    BY <1>2, RecoveredFits, RecoveredKeeps
  <2>2. QED
    BY <1>2, <2>1 DEF Keeps, Current
<1>4. /\ \/ found[s].flushed /\ file' = found
         \/ ~file[s].used /\ file' = [found EXCEPT ![s] = Blank(None)]
      /\ attached' = s
  BY <1>1
<1> HIDE DEF left
<1>5. AllFit(found) /\ AllKeep(file, found) /\ UnusedEmpty(found)
  BY <1>2, <1>3, Updated, UpdatedKeeps DEF Current
<1>6. ~file[s].used => found[s] = file[s]
  BY <1>2 DEF AllFit
<1>7. Blank(None).used
  BY DEF Blank, Unused
<1> HIDE DEF found
<1>8. CASE found[s].flushed /\ file' = found
  BY <1>4, <1>5, <1>8 DEF UInv, UnusedEmpty
<1>9. CASE ~file[s].used /\ file' = [found EXCEPT ![s] = Blank(None)]
  <2>1. AllKeep(found, file') /\ UnusedEmpty(file') /\ file'[s].used
    BY <1>5, <1>6, <1>7, <1>9, UpdatedKeeps
  <2>2. QED
    BY <1>4, <1>5, <2>1, AllKeepCompose DEF UInv
<1>10. QED
  BY <1>4, <1>8, <1>9

\* Going back keeps what is on the disk up to there.
LEMMA SwitchedKeeps ==
  ASSUME NEW f, Fits(f), NEW n \in Nat, n < Len(f.log), NEW g, g = Switched(f, n)
  PROVE  /\ g.used = f.used
         /\ \A i \in 1 .. f.durable : i <= n => i \in 1 .. g.durable /\ g.log[i] = f.log[i]
<1>1. PICK S : FitsIn(f, S)
  BY DEF Fits
<1> DEFINE s == f.log
           T == S \cup {Issue}
           t == SubSeq(s, 1, n)
           u == IssuesAfter(s, n)
           v == t \o u
           b == Back(f, n)
<1>2. /\ f \in FilesOf(S) /\ s \in Seq(S) /\ n \in Nat /\ n < Len(s)
      /\ S \subseteq T /\ {Issue} \subseteq T /\ f.durable \in Nat
  BY <1>1 DEF FitsIn, FilesOf
<1>3. t = SubSeq(s, 1, n) /\ v = t \o u /\ u = IssuesAfter(s, n) /\ s = f.log
  OBVIOUS
<1>4. b = [f EXCEPT !.log = v]
  BY DEF Back
<1>5. g = IF f.flushed THEN Flushed(b) ELSE b
  BY DEF Switched
<1>14. ~f.flushed => f.durable = 0
  BY <1>1 DEF FitsIn
<1> HIDE DEF s, T, t, u, v, b
<1>6. u \in Seq({Issue})
  BY <1>2, <1>3, IssuesFit
<1>7. u \in Seq(T) /\ s \in Seq(T)
  BY <1>2, <1>6, Widens
<1>8. t \in Seq(T) /\ Len(t) = n /\ \A i \in 1 .. n : t[i] = s[i]
  BY <1>2, <1>3, <1>7, Parts
<1>9. /\ v \in Seq(T) /\ Len(v) = Len(t) + Len(u) /\ Len(u) \in Nat
      /\ \A i \in 1 .. Len(t) : v[i] = t[i]
  BY <1>3, <1>7, <1>8, Concatenation
<1>10. \A i \in 1 .. n : i \in 1 .. Len(v) /\ v[i] = s[i]
  BY <1>2, <1>8, <1>9
<1>11. b \in FilesOf(T) /\ b.log = v /\ b.used = f.used
  BY <1>2, <1>4, <1>9 DEF FilesOf
<1>12. g.log = v /\ g.used = f.used /\ (f.flushed => g.durable = Len(v))
  <2>1. Flushed(b).log = b.log
    BY <1>11, FlushedFits
  <2>2. Flushed(b).used = b.used /\ Flushed(b).durable = Len(b.log)
    BY <1>11 DEF Flushed, FilesOf
  <2>3. QED
    BY <1>5, <1>11, <2>1, <2>2
<1>13. \A i \in 1 .. f.durable : i <= n => i \in 1 .. n /\ f.flushed
  BY <1>2, <1>14
<1>15. QED
  BY <1>3, <1>10, <1>12, <1>13

\* What a step may do to what is on the disk of a branch.
Survive(s) ==
  \A i \in 1 .. file[s].durable :
    \/ i \in 1 .. file'[s].durable /\ file'[s].log[i] = file[s].log[i]
    \/ \E n \in BranchPoints : n < i /\ SwitchBranch(n)

\* /tree takes away what is behind the entry it goes back to, and no more.
LEMMA SwitchSurvives ==
  ASSUME IInv, UInv, NEW n \in BranchPoints, SwitchBranch(n)
  PROVE  (\A s \in SessionId : Survive(s)) /\ UInv'
<1> DEFINE g == Switched(Current, n)
<1>1. /\ \/ file' = [file EXCEPT ![attached] = g]
         \/ \E h \in FailedWrites(Current) : file' = [file EXCEPT ![attached] = h]
      /\ n < Len(Current.log) /\ attached' = attached
  BY DEF SwitchBranch, Switched, Back, Current, AppendRaises, WriteRaises
<1>2. n \in Nat
  BY BoundAssumption
<1>3. /\ g.used = Current.used
      /\ \A i \in 1 .. Current.durable : i <= n => i \in 1 .. g.durable /\ g.log[i] = Current.log[i]
  BY <1>1, <1>2, AttachedFits, SwitchedKeeps
<1> HIDE DEF g
<1>4. CASE file' = [file EXCEPT ![attached] = g]
  <2>1. /\ file = [s \in SessionId |-> file[s]] /\ attached \in SessionId
        /\ \A s \in SessionId : s # attached => file'[s] = file[s]
        /\ file'[attached] = g
    BY <1>4 DEF IInv, AllFit
  <2>2. UInv'
    BY <1>1, <1>3, <2>1 DEF UInv, UnusedEmpty, Current
  <2>3. ASSUME NEW s \in SessionId PROVE Survive(s)
    <3>1. CASE s # attached
      BY <2>1, <3>1 DEF Survive
    <3>2. CASE s = attached
      <4>1. PICK S : FitsIn(Current, S)
        BY AttachedFits DEF Fits
      <4>2. Current.durable \in Nat
        BY <4>1 DEF FitsIn, FilesOf
      <4>3. \A i \in 1 .. Current.durable : i <= n \/ n < i
        BY <1>2, <4>2
      <4>4. QED
        BY <1>3, <2>1, <3>2, <4>3 DEF Survive, Current
    <3>3. QED
      BY <3>1, <3>2
  <2>4. QED
    BY <2>2, <2>3
<1>5. CASE \E h \in FailedWrites(Current) : file' = [file EXCEPT ![attached] = h]
  <2>1. PICK h \in FailedWrites(Current) : file' = [file EXCEPT ![attached] = h]
    BY <1>5
  <2>2. Keeps(Current, h)
    BY <2>1, AttachedFits, FailedWritesKeep
  <2>3. AllKeep(file, file') /\ UInv'
    BY <1>1, <2>1, <2>2, OneFileKeeps
  <2>4. QED
    BY <2>3 DEF AllKeep, Keeps, Survive
<1>6. QED
  BY <1>1, <1>4, <1>5

\* A step that keeps all that is on the disk lets it survive.
LEMMA KeptSurvives ==
  ASSUME AllKeep(file, file'), NEW s \in SessionId
  PROVE  Survive(s)
BY DEF AllKeep, Keeps, Survive

\* Every step lets them survive.
LEMMA NextSurvives ==
  ASSUME IInv, UInv, [Next]_vars
  PROVE  (\A s \in SessionId : Survive(s)) /\ UInv'
<1>1. CASE \E n \in BranchPoints : SwitchBranch(n)
  BY <1>1, SwitchSurvives
<1>2. CASE EnterPlanMode
  BY <1>2, EnterKeeps, KeptSurvives
<1>3. CASE \E token \in Tokens, s \in SessionId : HandoffPlan(token, s)
  BY <1>3, HandoffKeeps, KeptSurvives
<1>4. CASE \E s \in SessionId : NewSession(s)
  BY <1>4, NewSessionKeeps, KeptSurvives
<1>5. CASE Crash
  BY <1>5, CrashKeeps, KeptSurvives
<1>6. CASE RunStep
  BY <1>6, RunSteps, WritesKeep, KeptSurvives
<1>7. CASE \/ CancelPlanMode \/ AnswerPlanQuestion \/ AppendOther \/ Prompt
           \/ Abort \/ Steer \/ CancelTask \/ \E token \in Tokens : ExecutePlan(token)
  BY <1>7, PlainHostSteps, WritesKeep, KeptSurvives
<1>8. CASE UNCHANGED vars
  BY <1>8, NoFileKeeps, KeptSurvives DEF vars
<1>9. QED
  BY <1>1, <1>2, <1>3, <1>4, <1>5, <1>6, <1>7, <1>8 DEF Next, HostStep

\* At the start the first session is used, and nothing else.
LEMMA InitUInv == Init => UInv
<1> SUFFICES ASSUME Init PROVE UInv
  OBVIOUS
<1>1. /\ attached = First /\ First \in SessionId
      /\ file = [s \in SessionId |-> IF s = First THEN Blank(None) ELSE Unused]
  BY BoundAssumption DEF Init
<1>2. Blank(None).used /\ Unused.log = <<>> /\ ~Unused.flushed
  BY DEF Blank, Unused
<1>3. QED
  BY <1>1, <1>2 DEF UInv, UnusedEmpty

\* _commit, _persist_buffer, flush, read_entries and the controls of AgentSession:
\* whatever raises or crashes, only the user takes what has reached the disk off its
\* branch, and only what is behind the entry chosen with /tree.
THEOREM WrittenAlwaysSurvives == Spec => WrittenSurvives
<1>1. IInv /\ UInv /\ [Next]_vars => UInv'
  BY NextSurvives
<1>2. Spec => []UInv
  BY <1>1, InitUInv, Invariance, PTL DEF Spec
<1>3. IInv /\ UInv /\ [Next]_vars =>
        [\A s \in SessionId : \A i \in 1 .. file[s].durable :
           \/ i \in 1 .. file'[s].durable /\ file'[s].log[i] = file[s].log[i]
           \/ \E n \in BranchPoints : n < i /\ SwitchBranch(n)]_vars
  BY NextSurvives DEF Survive
<1>4. QED
  BY <1>2, <1>3, Invariance, PTL DEF Spec, WrittenSurvives


-----------------------------------------------------------------------------
(* Induction: a set of natural numbers has a least element.  If it had     *)
(* none, m |-> m - 1 would map a finite set one to one into a part of it.  *)
(* (Stated in MemoryStoreProofs too, for the replay of the log.)           *)

\* A set of natural numbers that is not empty has a least element.
LEMMA LeastElement ==
  ASSUME NEW T, T \subseteq Nat, T # {}
  PROVE  \E x \in T : \A y \in T : x <= y
<1>1. SUFFICES ASSUME \A x \in T : \E y \in T : y < x
               PROVE  FALSE
  OBVIOUS
<1>2. PICK n \in T : TRUE
  OBVIOUS
<1> DEFINE U == {m \in 0 .. n : \E y \in T : y <= m}
           f == [m \in U |-> m - 1]
<1>3. IsFiniteSet(U) /\ Cardinality(U) \in Nat
  <2>1. IsFiniteSet(0 .. n)
    BY <1>2, FS_Interval
  <2>2. IsFiniteSet(U)
    BY <2>1, FS_Subset
  <2>3. QED
    BY <2>2, FS_CardinalityType
<1>4. n \in U
  BY <1>2
<1>5. IsFiniteSet(U \ {n}) /\ Cardinality(U \ {n}) = Cardinality(U) - 1
  BY <1>3, <1>4, FS_RemoveElement
<1>6. \A m \in U : m - 1 \in U \ {n}
  <2>1. TAKE m \in U
  <2>2. PICK y \in T : y <= m
    OBVIOUS
  <2>3. PICK z \in T : z < y
    BY <1>1
  <2>4. QED
    BY <2>2, <2>3, <1>2
<1>7. f \in [U -> U \ {n}]
  BY <1>6
<1>8. PICK x, y \in U : x # y /\ f[x] = f[y]
  <2>1. Cardinality(U \ {n}) < Cardinality(U)
    BY <1>3, <1>5
  <2> HIDE DEF U, f
  <2>2. QED
    BY <1>3, <1>5, <1>7, <2>1, FS_PigeonHole
<1>9. QED
  BY <1>8

\* What holds of 0 and of n + 1 when it holds of n, holds of every number.
LEMMA Induction ==
  ASSUME NEW S, 0 \in S, \A n \in Nat : n \in S => n + 1 \in S
  PROVE  Nat \subseteq S
<1>1. SUFFICES ASSUME Nat \ S # {}
               PROVE  FALSE
  OBVIOUS
<1>2. PICK x \in Nat \ S : \A y \in Nat \ S : x <= y
  BY <1>1, LeastElement
<1>3. x - 1 \in Nat /\ x - 1 \in S
  BY <1>2
<1>4. QED
  BY <1>2, <1>3

-----------------------------------------------------------------------------
(* The fold unfolded: what reduce_plan_state has read of a branch after so *)
(* many entries.                                                           *)

\* f is the fold over the first n entries.
IsFold(f, log, parent, live, n) ==
  f = [i \in 0 .. n |-> IF i = 0 THEN InitialState
                        ELSE Step(f[i - 1], log[i], parent, live)]

\* Plan State after n entries.
After(log, parent, live, n) == (CHOOSE f : IsFold(f, log, parent, live, n))[n]

\* There is a fold over any number of entries.
LEMMA FoldExists ==
  ASSUME NEW log, NEW parent, NEW live
  PROVE  \A n \in Nat : \E f : IsFold(f, log, parent, live, n)
<1> DEFINE Of(f, n) == IsFold(f, log, parent, live, n)
           S == {n \in Nat : \E f : Of(f, n)}
<1>1. 0 \in S
  <2>1. Of([i \in 0 .. 0 |-> InitialState], 0)
    BY DEF IsFold
  <2>2. QED
    BY <2>1
<1>2. \A n \in Nat : n \in S => n + 1 \in S
  <2>1. SUFFICES ASSUME NEW n \in Nat, NEW f, Of(f, n)
                 PROVE  \E g : Of(g, n + 1)
    OBVIOUS
  <2> DEFINE g == [i \in 0 .. n + 1 |->
                     IF i = n + 1 THEN Step(f[n], log[i], parent, live) ELSE f[i]]
  <2>2. \A i \in 0 .. n + 1 :
          g[i] = IF i = 0 THEN InitialState ELSE Step(g[i - 1], log[i], parent, live)
    <3>1. TAKE i \in 0 .. n + 1
    <3>2. CASE i = n + 1
      BY <3>2
    <3>3. CASE i \in 0 .. n
      <4>1. g[i] = f[i] /\ (i # 0 => g[i - 1] = f[i - 1])
        BY <3>3
      <4>2. f[i] = IF i = 0 THEN InitialState ELSE Step(f[i - 1], log[i], parent, live)
        BY <2>1, <3>3 DEF IsFold
      <4> HIDE DEF g
      <4>3. QED
        BY <4>1, <4>2
    <3>4. QED
      BY <3>2, <3>3
  <2>3. Of(g, n + 1)
    BY <2>2 DEF IsFold
  <2>4. QED
    BY <2>3
<1> HIDE DEF Of
<1>3. QED
  BY <1>1, <1>2, Induction DEF Of

\* f starts with nothing read, and goes on by steps.
Folds(f, log, parent, live, n) ==
  /\ f[0] = InitialState
  /\ \A i \in 1 .. n : f[i] = Step(f[i - 1], log[i], parent, live)

\* So does a fold.
LEMMA FoldSteps ==
  ASSUME NEW log, NEW parent, NEW live, NEW n \in Nat, NEW f,
         IsFold(f, log, parent, live, n)
  PROVE  Folds(f, log, parent, live, n)
<1> DEFINE F(i) == IF i = 0 THEN InitialState ELSE Step(f[i - 1], log[i], parent, live)
<1>1. f = [i \in 0 .. n |-> F(i)]
  BY DEF IsFold
<1> HIDE DEF F
<1>2. \A i \in 0 .. n : f[i] = F(i)
  BY <1>1
<1>3. QED
  BY <1>2 DEF F, Folds

\* Plan State after some entries is that of a fold that goes so far.
LEMMA AfterIs ==
  ASSUME NEW log, NEW parent, NEW live, NEW n \in Nat
  PROVE  \E f : Folds(f, log, parent, live, n) /\ After(log, parent, live, n) = f[n]
<1> DEFINE f == CHOOSE g : IsFold(g, log, parent, live, n)
<1>1. IsFold(f, log, parent, live, n)
  BY FoldExists
<1>2. After(log, parent, live, n) = f[n]
  BY DEF After
<1> HIDE DEF f
<1>3. Folds(f, log, parent, live, n)
  BY <1>1, FoldSteps
<1>4. QED
  BY <1>2, <1>3

\* Folds over branches that begin alike begin alike.
LEMMA FoldsAgree ==
  ASSUME NEW log, NEW other, NEW parent, NEW live, NEW n \in Nat, NEW m \in Nat,
         NEW k \in Nat, NEW f, NEW g, k <= n, k <= m,
         \A i \in 1 .. k : log[i] = other[i],
         Folds(f, log, parent, live, n), Folds(g, other, parent, live, m)
  PROVE  f[k] = g[k]
<1> DEFINE S == {i \in Nat : i <= k => f[i] = g[i]}
<1>1. 0 \in S
  BY DEF Folds
<1>2. \A i \in Nat : i \in S => i + 1 \in S
  <2>1. SUFFICES ASSUME NEW i \in Nat, f[i] = g[i], i + 1 <= k
                 PROVE  f[i + 1] = g[i + 1]
    OBVIOUS
  <2>2. PICK j \in Nat : j = i + 1
    OBVIOUS
  <2>3. j \in 1 .. n /\ j \in 1 .. m /\ j \in 1 .. k /\ j - 1 = i
    BY <2>1, <2>2
  <2>4. f[j] = Step(f[i], log[j], parent, live)
    BY <2>3 DEF Folds
  <2>5. g[j] = Step(g[i], other[j], parent, live)
    BY <2>3 DEF Folds
  <2>6. QED
    BY <2>1, <2>2, <2>3, <2>4, <2>5
<1> HIDE DEF S
<1>3. k \in S
  BY <1>1, <1>2, Induction
<1>4. QED
  BY <1>3 DEF S

\* Before any entry, and after one more.
LEMMA AfterNone ==
  ASSUME NEW log, NEW parent, NEW live
  PROVE  After(log, parent, live, 0) = InitialState
BY AfterIs DEF Folds

\* What is read of one more entry is one more step of the fold.
LEMMA AfterOneMore ==
  ASSUME NEW log, NEW parent, NEW live, NEW n \in Nat, NEW m, m = n + 1
  PROVE  After(log, parent, live, m) = Step(After(log, parent, live, n), log[m], parent, live)
<1>1. PICK f : Folds(f, log, parent, live, n) /\ After(log, parent, live, n) = f[n]
  BY AfterIs
<1>2. m \in Nat /\ n <= m /\ n <= n /\ m \in 1 .. m /\ m - 1 = n
  OBVIOUS
<1>3. PICK g : Folds(g, log, parent, live, m) /\ After(log, parent, live, m) = g[m]
  BY <1>2, AfterIs
<1>4. \A i \in 1 .. n : log[i] = log[i]
  OBVIOUS
<1>5. f[n] = g[n]
  BY <1>1, <1>2, <1>3, <1>4, FoldsAgree, SMTT(60)
<1>6. g[m] = Step(g[m - 1], log[m], parent, live)
  BY <1>2, <1>3 DEF Folds
<1>7. QED
  BY <1>1, <1>2, <1>3, <1>5, <1>6

\* What is projected from a branch is Plan State after all its entries.
LEMMA ReduceIsAfter ==
  ASSUME NEW log, NEW parent, NEW live, Len(log) \in Nat
  PROVE  ReducePlanState(log, parent, live) = After(log, parent, live, Len(log))
BY DEF ReducePlanState, After, IsFold

\* Branches that begin alike are read alike.
LEMMA AfterAlike ==
  ASSUME NEW log, NEW other, NEW parent, NEW live, NEW n \in Nat,
         \A i \in 1 .. n : log[i] = other[i]
  PROVE  After(log, parent, live, n) = After(other, parent, live, n)
<1>1. PICK f : Folds(f, log, parent, live, n) /\ After(log, parent, live, n) = f[n]
  BY AfterIs
<1>2. PICK g : Folds(g, other, parent, live, n) /\ After(other, parent, live, n) = g[n]
  BY AfterIs
<1>3. n <= n
  OBVIOUS
<1>4. f[n] = g[n]
  BY <1>1, <1>2, <1>3, FoldsAgree, SMTT(60)
<1>5. QED
  BY <1>1, <1>2, <1>4

\* What holds before any entry, and after an entry when it held before, holds
\* after every one of n entries.
LEMMA UpTo ==
  ASSUME NEW n \in Nat, NEW S, 0 \in S,
         \A i \in 0 .. n - 1 : i \in S => i + 1 \in S
  PROVE  n \in S
<1> DEFINE T == {i \in Nat : i <= n => i \in S}
<1>1. 0 \in T
  OBVIOUS
<1>2. \A i \in Nat : i \in T => i + 1 \in T
  OBVIOUS
<1> HIDE DEF T
<1>3. n \in T
  BY <1>1, <1>2, Induction
<1>4. QED
  BY <1>3 DEF T

-----------------------------------------------------------------------------
(* What is so of Plan State after any branch.                              *)

\* The fields of a step are those of its outcome.
LEMMA StepSets ==
  ASSUME NEW parent, NEW live, NEW s \in PlanState, WellFormed(s, live), NEW e \in Entries
  PROVE  /\ Step(s, e, parent, live).plans = Outcome(s, e, parent, live).plans
         /\ Step(s, e, parent, live).questions = Outcome(s, e, parent, live).questions
         /\ Step(s, e, parent, live).runs = Outcome(s, e, parent, live).runs
         /\ Step(s, e, parent, live).calls = Outcome(s, e, parent, live).calls
         /\ e.type # "issue" => /\ Step(s, e, parent, live).last = e
                                /\ Step(s, e, parent, live).len = s.len + 1
<1> DEFINE t == Outcome(s, e, parent, live)
<1>1. t \in PlanState
  BY OutcomeWellFormed
<1>2. Step(s, e, parent, live) = IF e.type = "issue" THEN t
                     ELSE [t EXCEPT !.last = e, !.len = s.len + 1]
  BY StepOutcome
<1> HIDE DEF t
<1>3. QED
  BY <1>1, <1>2 DEF PlanState, t

\* It is well formed.
LEMMA AfterWellFormed ==
  ASSUME NEW log, NEW parent, NEW live, NEW n \in Nat,
         \A i \in 1 .. n : log[i] \in Entries
  PROVE  After(log, parent, live, n) \in PlanState
         /\ WellFormed(After(log, parent, live, n), live)
<1> DEFINE A(i) == After(log, parent, live, i)
           S == {i \in Nat : A(i) \in PlanState /\ WellFormed(A(i), live)}
<1>1. 0 \in S
  <2>1. A(0) = InitialState
    BY AfterNone
  <2> HIDE DEF A
  <2>2. QED
    BY <2>1, InitialWellFormed
<1>2. \A i \in 0 .. n - 1 : i \in S => i + 1 \in S
  <2>1. SUFFICES ASSUME NEW i \in 0 .. n - 1, A(i) \in PlanState, WellFormed(A(i), live),
                        NEW j, j = i + 1
                 PROVE  j \in Nat /\ A(j) \in PlanState /\ WellFormed(A(j), live)
    OBVIOUS
  <2>2. j \in Nat /\ i \in Nat /\ log[j] \in Entries
    BY <2>1
  <2>3. A(j) = Step(A(i), log[j], parent, live)
    BY <2>1, <2>2, AfterOneMore
  <2> HIDE DEF A
  <2>4. QED
    BY <2>1, <2>2, <2>3, StepWellFormed
<1> HIDE DEF S
<1>3. n \in S
  BY <1>1, <1>2, UpTo
<1>4. QED
  BY <1>3 DEF S

\* Which run is live does not matter to a branch that has none of that id.
LEMMA AfterOfOthers ==
  ASSUME NEW log, NEW parent, NEW live, NEW n \in Nat,
         \A i \in 1 .. n : log[i].type = "run" => log[i].run # live
  PROVE  After(log, parent, live, n) = After(log, parent, None, n)
<1> DEFINE A(i) == After(log, parent, live, i)
           B(i) == After(log, parent, None, i)
           S == {i \in Nat : A(i) = B(i)}
<1>1. 0 \in S
  BY AfterNone
<1>2. \A i \in 0 .. n - 1 : i \in S => i + 1 \in S
  <2>1. SUFFICES ASSUME NEW i \in 0 .. n - 1, A(i) = B(i), NEW j, j = i + 1
                 PROVE  j \in Nat /\ A(j) = B(j)
    OBVIOUS
  <2>2. j \in Nat /\ i \in Nat /\ j \in 1 .. n
    BY <2>1
  <2>3. /\ A(j) = Step(A(i), log[j], parent, live)
        /\ B(j) = Step(B(i), log[j], parent, None)
    BY <2>1, <2>2, AfterOneMore
  <2>4. log[j].type = "run" => log[j].run # live
    BY <2>2
  <2> HIDE DEF A, B
  <2>5. Accept(A(i), log[j], live) = Accept(A(i), log[j], None)
    BY <2>4 DEF Accept, OnRun, StartedPhase
  <2>6. Step(A(i), log[j], parent, live) = Step(A(i), log[j], parent, None)
    BY <2>5 DEF Step
  <2>7. QED
    BY <2>1, <2>2, <2>3, <2>6
<1> HIDE DEF S
<1>3. n \in S
  BY <1>1, <1>2, UpTo
<1>4. QED
  BY <1>3 DEF S

\* Without diagnostics, `last` and `len` are the last entry and its position.
LEMMA AfterPlace ==
  ASSUME NEW log, NEW parent, NEW live, NEW n \in Nat,
         \A i \in 1 .. n : log[i] \in Entries /\ log[i].type # "issue"
  PROVE  /\ After(log, parent, live, n).len = n
         /\ n # 0 => After(log, parent, live, n).last = log[n]
<1> DEFINE A(i) == After(log, parent, live, i)
           S == {i \in Nat : A(i).len = i /\ (i # 0 => A(i).last = log[i])}
<1>1. 0 \in S
  <2>1. A(0) = InitialState
    BY AfterNone
  <2> HIDE DEF A
  <2>2. QED
    BY <2>1 DEF InitialState
<1>2. \A i \in 0 .. n - 1 : i \in S => i + 1 \in S
  <2>1. SUFFICES ASSUME NEW i \in 0 .. n - 1, A(i).len = i, NEW j, j = i + 1
                 PROVE  j \in Nat /\ A(j).len = j /\ A(j).last = log[j]
    OBVIOUS
  <2>2. /\ j \in Nat /\ i \in Nat /\ log[j] \in Entries /\ log[j].type # "issue"
        /\ \A h \in 1 .. i : log[h] \in Entries
    BY <2>1
  <2>3. A(j) = Step(A(i), log[j], parent, live)
    BY <2>1, <2>2, AfterOneMore
  <2>4. A(i) \in PlanState /\ WellFormed(A(i), live)
    BY <2>2, AfterWellFormed
  <2> HIDE DEF A
  <2>5. A(j).last = log[j] /\ A(j).len = A(i).len + 1
    BY <2>2, <2>3, <2>4, StepSets
  <2>6. QED
    BY <2>1, <2>2, <2>5
<1> HIDE DEF S
<1>3. n \in S
  BY <1>1, <1>2, UpTo
<1>4. QED
  BY <1>3 DEF S

\* An entry names ids that have been handed out: k of them have been.
Names(e, k) ==
  /\ e.type = "mode" /\ e.mode = "plan" => e.plan \in 1 .. k
  /\ e.type = "question" => e.question \in 1 .. k
  /\ e.type = "run" => e.run \in 1 .. k

\* So does Plan State, and a revision has a call.
Known(s, k) ==
  /\ s.plan # None => s.plan \in 1 .. k
  /\ \A p \in s.plans : p \in 1 .. k
  /\ \A q \in s.questions : q[2] \in 1 .. k
  /\ \A r \in s.runs : r \in 1 .. k
  /\ s.latest # None => s.latest.call # None

\* Nothing that was accepted names what the entry does not.
LEMMA OutcomeKnown ==
  ASSUME NEW parent, NEW live, NEW s \in PlanState, NEW e \in Entries, NEW k,
         Known(s, k), Names(e, k)
  PROVE  Known(Outcome(s, e, parent, live), k)
<1>1. Known(Recover(s, e), k) /\ Known(Block(s), k)
  BY DEF Recover, Block, PlanState, Known
<1>2. ASSUME Valid(s, e, parent), e.type = "mode", e.mode = "plan"
      PROVE  Known(Accept(s, e, live), k)
  <2>1. e \in ModeChanges
    BY <1>2, EntryKinds
  <2>2. /\ OnModeChange(s, e).plan = e.plan /\ OnModeChange(s, e).latest = None
        /\ OnModeChange(s, e).plans = s.plans \cup {e.plan}
        /\ OnModeChange(s, e).questions = s.questions /\ OnModeChange(s, e).runs = s.runs
    BY <1>2 DEF OnModeChange, InitialState
  <2>3. Accept(s, e, live) = OnModeChange(s, e)
    BY <1>2 DEF Accept
  <2>4. e.plan \in 1 .. k
    BY <1>2 DEF Names
  <2>5. QED
    BY <2>2, <2>3, <2>4 DEF Known
<1>3. ASSUME Valid(s, e, parent), e.type = "mode", e.mode # "plan"
      PROVE  Known(Accept(s, e, live), k)
  BY <1>3 DEF Accept, OnModeChange, PlanState, Known
<1>4. ASSUME Valid(s, e, parent), e.type = "question"
      PROVE  Known(Accept(s, e, live), k)
  <2>1. e.question \in 1 .. k
    BY <1>4 DEF Names
  <2>2. Accept(s, e, live) = OnQuestion(s, e)
    BY <1>4 DEF Accept
  <2>3. /\ OnQuestion(s, e).plan = s.plan /\ OnQuestion(s, e).latest = s.latest
        /\ OnQuestion(s, e).plans = s.plans /\ OnQuestion(s, e).runs = s.runs
        /\ OnQuestion(s, e).questions = s.questions \cup {<<e.plan, e.question>>}
    BY DEF OnQuestion, PlanState
  <2>4. <<e.plan, e.question>>[2] = e.question
    OBVIOUS
  <2>5. QED
    BY <2>1, <2>2, <2>3, <2>4 DEF Known
<1>5. ASSUME Valid(s, e, parent), e.type = "revision"
      PROVE  Known(Accept(s, e, live), k)
  <2>1. e.call # None
    BY <1>5 DEF Valid, ValidRevision
  <2>2. Accept(s, e, live) = OnRevision(s, e)
    BY <1>5 DEF Accept
  <2>3. /\ OnRevision(s, e).plan = s.plan /\ OnRevision(s, e).latest = e
        /\ OnRevision(s, e).plans = s.plans /\ OnRevision(s, e).runs = s.runs
        /\ OnRevision(s, e).questions = s.questions
    BY DEF OnRevision, PlanState
  <2>4. QED
    BY <2>1, <2>2, <2>3 DEF Known
<1>6. ASSUME Valid(s, e, parent), e.type = "run"
      PROVE  Known(Accept(s, e, live), k)
  <2>1. e.run \in 1 .. k
    BY <1>6 DEF Names
  <2>2. Accept(s, e, live) = OnRun(s, e, live)
    BY <1>6 DEF Accept
  <2>3. /\ OnRun(s, e, live).plan = s.plan /\ OnRun(s, e, live).latest = s.latest
        /\ OnRun(s, e, live).plans = s.plans
        /\ OnRun(s, e, live).runs \in {s.runs, s.runs \cup {e.run}}
        /\ OnRun(s, e, live).questions = s.questions
    BY DEF OnRun, PlanState
  <2>4. QED
    BY <2>1, <2>2, <2>3 DEF Known
<1>7. ASSUME Valid(s, e, parent), e.type \notin {"mode", "question", "revision", "run"}
      PROVE  Known(Accept(s, e, live), k)
  BY <1>7 DEF Accept, OnMessage, OnAnswer, PlanState, Known
<1>8. QED
  BY <1>1, <1>2, <1>3, <1>4, <1>5, <1>6, <1>7 DEF Outcome

\* Plan State after a branch names what its entries name.
LEMMA AfterKnown ==
  ASSUME NEW log, NEW parent, NEW live, NEW n \in Nat, NEW k,
         \A i \in 1 .. n : log[i] \in Entries /\ Names(log[i], k)
  PROVE  Known(After(log, parent, live, n), k)
<1> DEFINE A(i) == After(log, parent, live, i)
           S == {i \in Nat : Known(A(i), k)}
<1>1. 0 \in S
  <2>1. A(0) = InitialState
    BY AfterNone
  <2> HIDE DEF A
  <2>2. QED
    BY <2>1 DEF InitialState, Known
<1>2. \A i \in 0 .. n - 1 : i \in S => i + 1 \in S
  <2>1. SUFFICES ASSUME NEW i \in 0 .. n - 1, Known(A(i), k), NEW j, j = i + 1
                 PROVE  j \in Nat /\ Known(A(j), k)
    OBVIOUS
  <2>2. /\ j \in Nat /\ i \in Nat /\ log[j] \in Entries /\ Names(log[j], k)
        /\ \A h \in 1 .. i : log[h] \in Entries
    BY <2>1
  <2>3. A(j) = Step(A(i), log[j], parent, live)
    BY <2>1, <2>2, AfterOneMore
  <2>4. A(i) \in PlanState /\ WellFormed(A(i), live)
    BY <2>2, AfterWellFormed
  <2> HIDE DEF A
  <2> DEFINE t == Outcome(A(i), log[j], parent, live)
  <2>5. Known(t, k)
    BY <2>1, <2>2, <2>4, OutcomeKnown
  <2>6. /\ A(j).plan = t.plan /\ A(j).latest = t.latest /\ A(j).plans = t.plans
        /\ A(j).questions = t.questions /\ A(j).runs = t.runs
    BY <2>2, <2>3, <2>4, StepFields, StepSets
  <2> HIDE DEF t
  <2>7. QED
    BY <2>2, <2>5, <2>6 DEF Known
<1> HIDE DEF S
<1>3. n \in S
  BY <1>1, <1>2, UpTo
<1>4. QED
  BY <1>3 DEF S

\* An entry adds at most its own call to the calls that were submitted.
LEMMA OutcomeCalls ==
  ASSUME NEW parent, NEW live, NEW s \in PlanState, NEW e \in Entries
  PROVE  \A c \in Outcome(s, e, parent, live).calls :
           c \in s.calls \/ (e.type = "revision" /\ e.origin = None /\ e.call = c)
<1>1. Recover(s, e).calls = s.calls /\ Block(s).calls = s.calls
  BY DEF Recover, Block, PlanState
<1>2. ASSUME e.type # "revision" PROVE Accept(s, e, live).calls = s.calls
  BY <1>2 DEF Accept, OnMessage, OnModeChange, OnQuestion, OnAnswer, OnRun,
     InitialState, PlanState
<1>3. ASSUME e.type = "revision"
      PROVE  Accept(s, e, live).calls =
               IF e.origin = None THEN s.calls \cup {e.call} ELSE s.calls
  BY <1>3 DEF Accept, OnRevision, PlanState
<1>4. QED
  BY <1>1, <1>2, <1>3 DEF Outcome

\* The calls of Plan State were submitted on the branch.
LEMMA AfterCalls ==
  ASSUME NEW log, NEW parent, NEW live, NEW n \in Nat,
         \A i \in 1 .. n : log[i] \in Entries
  PROVE  \A c \in After(log, parent, live, n).calls : \E i \in 1 .. n :
           log[i].type = "revision" /\ log[i].origin = None /\ log[i].call = c
<1> DEFINE A(i) == After(log, parent, live, i)
           Of(c, i) == log[i].type = "revision" /\ log[i].origin = None /\ log[i].call = c
           S == {i \in Nat : \A c \in A(i).calls : \E h \in 1 .. i : Of(c, h)}
<1>1. 0 \in S
  <2>1. A(0) = InitialState
    BY AfterNone
  <2> HIDE DEF A, Of
  <2>2. QED
    BY <2>1 DEF InitialState
<1>2. \A i \in 0 .. n - 1 : i \in S => i + 1 \in S
  <2>1. SUFFICES ASSUME NEW i \in 0 .. n - 1, NEW j, j = i + 1, NEW c \in A(j).calls,
                        \A d \in A(i).calls : \E h \in 1 .. i : Of(d, h)
                 PROVE  \E h \in 1 .. j : Of(c, h)
    OBVIOUS
  <2>2. /\ j \in Nat /\ i \in Nat /\ log[j] \in Entries
        /\ \A h \in 1 .. i : log[h] \in Entries
    BY <2>1
  <2>3. A(j) = Step(A(i), log[j], parent, live)
    BY <2>1, <2>2, AfterOneMore
  <2>4. A(i) \in PlanState /\ WellFormed(A(i), live)
    BY <2>2, AfterWellFormed
  <2> HIDE DEF A
  <2>5. A(j).calls = Outcome(A(i), log[j], parent, live).calls
    BY <2>2, <2>3, <2>4, StepSets
  <2>6. c \in A(i).calls \/ Of(c, j)
    BY <2>1, <2>2, <2>4, <2>5, OutcomeCalls
  <2> HIDE DEF Of
  <2>7. QED
    BY <2>1, <2>2, <2>6
<1> HIDE DEF S
<1>3. n \in S
  BY <1>1, <1>2, UpTo
<1>4. QED
  BY <1>3 DEF S

-----------------------------------------------------------------------------
(* Branches that are never rejected.                                       *)

\* Plan State after the whole branch of a file.
Whole(f, live) == After(f.log, f.parent, live, Len(f.log))

Undamaged(f) == \A i \in 1 .. Len(f.log) : f.log[i].type # "issue"

\* No entry before a diagnostic has ever blocked.
Clean(f) ==
  \A n \in 0 .. Len(f.log) :
    (\A i \in 1 .. n : f.log[i].type # "issue") => ~After(f.log, f.parent, None, n).blocked

\* No entry has blocked, and no diagnostic.
Unhurt(f) == \A n \in 0 .. Len(f.log) : ~After(f.log, f.parent, None, n).blocked

\* A branch of entries that name what has been handed out; a clean one, if c says so.
Sound(f, k, c) ==
  /\ Len(f.log) \in Nat
  /\ \A i \in 1 .. Len(f.log) : f.log[i] \in Entries /\ Names(f.log[i], k)
  /\ c = "clean" => Clean(f)

\* What is so of Plan State after such a branch.
LEMMA WholeFits ==
  ASSUME NEW f, NEW k, NEW c, Sound(f, k, c), NEW live
  PROVE  /\ Whole(f, live) \in PlanState /\ WellFormed(Whole(f, live), live)
         /\ Known(Whole(f, live), k)
         /\ Undamaged(f) =>
              /\ Whole(f, live).len = Len(f.log)
              /\ Len(f.log) # 0 => Whole(f, live).last = f.log[Len(f.log)]
         /\ c = "clean" /\ Undamaged(f) => Unhurt(f)
         /\ Unhurt(f) => ~Whole(f, None).blocked
<1>1. /\ Len(f.log) \in Nat
      /\ \A i \in 1 .. Len(f.log) : f.log[i] \in Entries /\ Names(f.log[i], k)
      /\ c = "clean" => Clean(f)
  BY DEF Sound
<1>2. Whole(f, live) \in PlanState /\ WellFormed(Whole(f, live), live)
  BY <1>1, AfterWellFormed DEF Whole
<1>3. Known(Whole(f, live), k)
  BY <1>1, AfterKnown DEF Whole
<1>4. ASSUME Undamaged(f)
      PROVE  /\ Whole(f, live).len = Len(f.log)
             /\ Len(f.log) # 0 => Whole(f, live).last = f.log[Len(f.log)]
  <2>1. \A i \in 1 .. Len(f.log) : f.log[i] \in Entries /\ f.log[i].type # "issue"
    BY <1>1, <1>4 DEF Undamaged
  <2>2. QED
    BY <1>1, <2>1, AfterPlace DEF Whole
<1>5. c = "clean" /\ Undamaged(f) => Unhurt(f)
  BY <1>1 DEF Clean, Undamaged, Unhurt
<1>6. Unhurt(f) => ~Whole(f, None).blocked
  BY <1>1 DEF Unhurt, Whole
<1>7. QED
  BY <1>2, <1>3, <1>4, <1>5, <1>6

\* What is sound stays so when more ids are handed out.
LEMMA SoundOn ==
  ASSUME NEW f, NEW k \in Nat, NEW c, NEW m \in Nat, k <= m, Sound(f, k, c)
  PROVE  Sound(f, m, c)
BY DEF Sound, Names

\* Whatever leaves branch and parent alone.
LEMMA SoundSame ==
  ASSUME NEW f, NEW g, g.log = f.log, g.parent = f.parent, NEW k, NEW c
  PROVE  /\ Sound(f, k, c) => Sound(g, k, c)
         /\ \A live : Whole(g, live) = Whole(f, live)
         /\ Undamaged(g) <=> Undamaged(f)
         /\ Unhurt(g) <=> Unhurt(f)
BY DEF Sound, Clean, Whole, Undamaged, Unhurt

\* An accepted entry does not block.
LEMMA AcceptUnblocked ==
  ASSUME NEW s \in PlanState, NEW e, NEW live, ~s.blocked
  PROVE  ~Accept(s, e, live).blocked
BY DEF Accept, OnMessage, OnModeChange, OnQuestion, OnAnswer, OnRevision, OnRun,
   InitialState, PlanState

\* g is the branch of f with one more entry.
OneMore(g, f, e) ==
  /\ Len(f.log) \in Nat /\ Len(g.log) = Len(f.log) + 1 /\ g.parent = f.parent
  /\ \A i \in 1 .. Len(f.log) : g.log[i] = f.log[i]
  /\ g.log[Len(f.log) + 1] = e

\* One more entry, which is valid unless the branch is damaged, or need not be.
LEMMA SoundLonger ==
  ASSUME NEW f, NEW g, NEW e \in Entries, NEW k, NEW c, OneMore(g, f, e),
         Sound(f, k, c), Names(e, k),
         c = "clean" /\ Undamaged(f) => Valid(Whole(f, None), e, f.parent)
  PROVE  /\ Sound(g, k, c)
         /\ \A live : Whole(g, live) = Step(Whole(f, live), e, f.parent, live)
         /\ ~Undamaged(f) => ~Undamaged(g)
         /\ ~Unhurt(f) => ~Unhurt(g)
<1>0. PICK n \in Nat, m \in Nat :
        /\ n = Len(f.log) /\ m = n + 1 /\ m = Len(g.log) /\ g.parent = f.parent
        /\ \A i \in 1 .. n : g.log[i] = f.log[i]
        /\ g.log[m] = e
  <2>1. Len(f.log) \in Nat /\ Len(f.log) + 1 \in Nat
    BY DEF OneMore
  <2>2. PICK n \in Nat : n = Len(f.log)
    BY <2>1
  <2>3. PICK m \in Nat : m = n + 1
    OBVIOUS
  <2>4. QED
    BY <2>2, <2>3 DEF OneMore
<1>1. /\ \A i \in 1 .. n : f.log[i] \in Entries /\ Names(f.log[i], k)
      /\ c = "clean" => Clean(f)
  BY <1>0 DEF Sound
<1>2. ASSUME NEW live, NEW j \in 0 .. n
      PROVE  After(g.log, f.parent, live, j) = After(f.log, f.parent, live, j)
  <2>1. j \in Nat /\ \A i \in 1 .. j : g.log[i] = f.log[i]
    BY <1>0
  <2>2. QED
    BY <2>1, AfterAlike
<1>3. ASSUME NEW live PROVE Whole(g, live) = Step(Whole(f, live), e, f.parent, live)
  <2>1. After(g.log, f.parent, live, m) =
          Step(After(g.log, f.parent, live, n), g.log[m], f.parent, live)
    BY <1>0, AfterOneMore
  <2>2. n \in 0 .. n
    OBVIOUS
  <2>3. QED
    BY <1>2, <1>0, <2>1, <2>2 DEF Whole
<1>4. \A i \in 1 .. m : g.log[i] \in Entries /\ Names(g.log[i], k)
  BY <1>1, <1>0
<1>5. ~Undamaged(f) => ~Undamaged(g)
  BY <1>0 DEF Undamaged
<1>8. ~Unhurt(f) => ~Unhurt(g)
  <2>1. SUFFICES ASSUME NEW j \in 0 .. n, After(f.log, f.parent, None, j).blocked
                 PROVE  ~Unhurt(g)
    BY <1>0 DEF Unhurt
  <2>2. After(g.log, g.parent, None, j).blocked /\ j \in 0 .. Len(g.log)
    BY <1>0, <1>2, <2>1
  <2>3. QED
    BY <2>2 DEF Unhurt
<1>6. ASSUME c = "clean" PROVE Clean(g)
  <2>1. SUFFICES ASSUME NEW j \in 0 .. m, \A i \in 1 .. j : g.log[i].type # "issue"
                 PROVE  ~After(g.log, f.parent, None, j).blocked
    BY <1>0 DEF Clean
  <2>2. CASE j \in 0 .. n
    <3>1. \A i \in 1 .. j : f.log[i].type # "issue"
      BY <1>0, <2>1, <2>2
    <3>2. ~After(f.log, f.parent, None, j).blocked
      BY <1>1, <1>0, <1>6, <2>2, <3>1 DEF Clean
    <3>3. QED
      BY <1>2, <2>2, <3>2
  <2>3. CASE j = m
    <3>1. Undamaged(f) /\ e.type # "issue"
      BY <1>0, <2>1, <2>3 DEF Undamaged
    <3> DEFINE s == Whole(f, None)
    <3>2. s \in PlanState /\ WellFormed(s, None) /\ ~s.blocked
      BY <1>6, <3>1, WholeFits
    <3>3. Valid(s, e, f.parent)
      BY <1>6, <3>1
    <3>4. After(g.log, f.parent, None, j) = Step(s, e, f.parent, None)
      BY <1>3, <1>0, <2>3 DEF Whole
    <3> HIDE DEF s
    <3>5. Step(s, e, f.parent, None).blocked = Accept(s, e, None).blocked
      BY <3>1, <3>2, <3>3, StepFields DEF Outcome
    <3>6. QED
      BY <3>2, <3>4, <3>5, AcceptUnblocked
  <2>4. QED
    BY <1>0, <2>2, <2>3
<1>7. QED
  BY <1>3, <1>4, <1>5, <1>6, <1>8, <1>0 DEF Sound

\* v is the first n of s, and diagnostics behind them.
Damages(v, s, n) ==
  /\ Len(v) \in Nat /\ n <= Len(v)
  /\ \A i \in 1 .. n : v[i] = s[i]
  /\ \A i \in 1 .. Len(v) : n < i => v[i] = Issue

\* What is left of a branch, with diagnostics behind it.
LEMMA SoundPart ==
  ASSUME NEW f, NEW g, NEW k, NEW c, NEW n \in Nat, n <= Len(f.log), g.parent = f.parent,
         Damages(g.log, f.log, n), Sound(f, k, c)
  PROVE  Sound(g, k, c)
<1>0. /\ Len(g.log) \in Nat /\ n <= Len(g.log)
      /\ \A i \in 1 .. n : g.log[i] = f.log[i]
      /\ \A i \in 1 .. Len(g.log) : n < i => g.log[i] = Issue
  BY DEF Damages
<1>1. /\ \A i \in 1 .. Len(f.log) : f.log[i] \in Entries /\ Names(f.log[i], k)
      /\ c = "clean" => Clean(f)
      /\ Len(f.log) \in Nat
  BY DEF Sound
<1>2. Issue \in Entries /\ Names(Issue, k) /\ Issue.type = "issue"
  BY DEF Entries, Names, Issue
<1>3. \A i \in 1 .. Len(g.log) : g.log[i] \in Entries /\ Names(g.log[i], k)
  <2>1. TAKE i \in 1 .. Len(g.log)
  <2>2. CASE i \in 1 .. n
    BY <1>0, <1>1, <2>2
  <2>3. CASE n < i
    BY <1>0, <1>2, <2>3
  <2>4. QED
    BY <1>0, <2>2, <2>3
<1>4. ASSUME c = "clean" PROVE Clean(g)
  <2>1. SUFFICES ASSUME NEW j \in 0 .. Len(g.log), \A i \in 1 .. j : g.log[i].type # "issue"
                 PROVE  ~After(g.log, f.parent, None, j).blocked
    BY DEF Clean
  <2>2. j <= n
    <3>1. SUFFICES ASSUME n < j PROVE FALSE
      BY <1>0
    <3>2. j \in 1 .. j /\ j \in 1 .. Len(g.log)
      BY <1>0, <3>1
    <3>3. QED
      BY <1>0, <1>2, <2>1, <3>1, <3>2
  <2>3. j \in 0 .. Len(f.log) /\ j \in Nat /\ \A i \in 1 .. j : g.log[i] = f.log[i]
    BY <1>0, <1>1, <2>2
  <2>4. ~After(f.log, f.parent, None, j).blocked
    BY <1>1, <1>4, <2>1, <2>3 DEF Clean
  <2>5. QED
    BY <2>3, <2>4, AfterAlike
<1>5. QED
  BY <1>0, <1>3, <1>4 DEF Sound

-----------------------------------------------------------------------------
(* The file operations keep a branch sound.                                *)

\* What a flush and an append make of a branch.
LEMMA FlushedBranch ==
  ASSUME NEW S, NEW f \in FilesOf(S)
  PROVE  /\ Flushed(f).log = f.log /\ Flushed(f).parent = f.parent
         /\ Flushed(f) \in FilesOf(S)
<1> DEFINE n == Len(f.log)
<1>1. n \in Nat
  BY DEF FilesOf
<1>2. Flushed(f) = [f EXCEPT !.flushed = TRUE, !.durable = n]
  BY DEF Flushed
<1> HIDE DEF n
<1>3. QED
  BY <1>1, <1>2 DEF FilesOf

\* A branch with one more entry.
LEMMA LongerBranch ==
  ASSUME NEW S, NEW f \in FilesOf(S), NEW e
  PROVE  OneMore(Longer(f, e), f, e) /\ Longer(f, e) \in FilesOf(S \cup {e})
<1> DEFINE s == f.log
           t == Append(s, e)
           T == S \cup {e}
<1>1. s \in Seq(S) /\ e \in T /\ S \subseteq T
  BY DEF FilesOf
<1>2. s \in Seq(T)
  BY <1>1, Widens
<1>3. /\ t \in Seq(T) /\ Len(t) = Len(s) + 1 /\ Len(s) \in Nat
      /\ \A i \in 1 .. Len(s) : t[i] = s[i]
      /\ t[Len(s) + 1] = e
  BY <1>1, <1>2, Appending
<1>4. Longer(f, e) = [f EXCEPT !.log = t] /\ s = f.log
  BY DEF Longer
<1> HIDE DEF s, t, T
<1>5. Longer(f, e).log = t /\ Longer(f, e).parent = f.parent /\ Longer(f, e) \in FilesOf(T)
  BY <1>3, <1>4 DEF FilesOf
<1>6. QED
  BY <1>3, <1>4, <1>5 DEF T, OneMore

\* The ways an entry comes onto a branch.
Appends(f, e) == {Written(f, e), Flushed(Written(f, e)), Written(Flushed(f), e)}

\* However an entry comes onto a branch, it is the one more entry.
LEMMA AppendsBranch ==
  ASSUME NEW f, Fits(f), NEW e, NEW g \in Appends(f, e)
  PROVE  OneMore(g, f, e)
<1>1. PICK S : f \in FilesOf(S)
  BY DEF Fits, FitsIn
<1> DEFINE h == Flushed(f)
           T == S \cup {e}
           a == Longer(f, e)
           b == Longer(h, e)
<1>2. h \in FilesOf(S) /\ h.log = f.log /\ h.parent = f.parent
  BY <1>1, FlushedBranch
<1>3. Written(f, e) \in {a, Flushed(a)} /\ Written(h, e) \in {b, Flushed(b)}
  BY DEF Written, Longer
<1> HIDE DEF h
<1>4. OneMore(a, f, e) /\ a \in FilesOf(T)
  BY <1>1, LongerBranch
<1>6. OneMore(b, h, e) /\ b \in FilesOf(T)
  BY <1>2, LongerBranch
<1> HIDE DEF a, b, T
<1>7. /\ Flushed(a).log = a.log /\ Flushed(a).parent = a.parent /\ Flushed(a) \in FilesOf(T)
      /\ Flushed(b).log = b.log /\ Flushed(b).parent = b.parent
  BY <1>4, <1>6, FlushedBranch
<1> DEFINE c == Flushed(a)
<1>8. Flushed(c).log = c.log /\ Flushed(c).parent = c.parent
  BY <1>7, FlushedBranch
<1>9. g \in {a, c, Flushed(c), b, Flushed(b)}
  BY <1>3 DEF Appends, h
<1> HIDE DEF c
<1>10. (g.log = a.log /\ g.parent = a.parent) \/ (g.log = b.log /\ g.parent = b.parent)
  BY <1>7, <1>8, <1>9 DEF c
<1>11. QED
  BY <1>2, <1>4, <1>6, <1>10 DEF OneMore

\* An entry that is valid, unless the branch is damaged, keeps it sound.
LEMMA AppendsSound ==
  ASSUME NEW f, Fits(f), NEW e \in Entries, NEW g \in Appends(f, e), NEW k, NEW c, Sound(f, k, c),
         Names(e, k), c = "clean" /\ Undamaged(f) => Valid(Whole(f, None), e, f.parent)
  PROVE  /\ Sound(g, k, c)
         /\ \A live : Whole(g, live) = Step(Whole(f, live), e, f.parent, live)
         /\ ~Undamaged(f) => ~Undamaged(g)
         /\ ~Unhurt(f) => ~Unhurt(g)
BY AppendsBranch, SoundLonger

\* A flush changes nothing of it, nor does a failed write.
LEMMA FlushedSound ==
  ASSUME NEW f, Fits(f), NEW g, g = Flushed(f) \/ g \in FailedWrites(f), NEW k, NEW c
  PROVE  /\ Sound(f, k, c) => Sound(g, k, c)
         /\ \A live : Whole(g, live) = Whole(f, live)
         /\ Undamaged(g) <=> Undamaged(f)
         /\ Unhurt(g) <=> Unhurt(f)
         /\ g.log = f.log
<1>1. PICK S : f \in FilesOf(S)
  BY DEF Fits, FitsIn
<1>2. g.log = f.log /\ g.parent = f.parent
  <2>1. CASE g = Flushed(f)
    BY <1>1, <2>1, FlushedBranch
  <2>2. CASE g = f
    BY <2>2
  <2>3. CASE \E d : g = [f EXCEPT !.flushed = TRUE, !.durable = d]
    BY <1>1, <2>3 DEF FilesOf
  <2>4. QED
    BY <2>1, <2>2, <2>3 DEF FailedWrites
<1>3. QED
  BY <1>2, SoundSame

\* What a write that raises leaves is sound too, if the entry was valid.
LEMMA RaisedSound ==
  ASSUME NEW f, Fits(f), NEW e \in Entries, NEW g \in Raised(f, e), NEW k, NEW c, Sound(f, k, c),
         Names(e, k), c = "clean" /\ Undamaged(f) => Valid(Whole(f, None), e, f.parent)
  PROVE  Sound(g, k, c)
<1> DEFINE h == Longer(f, e)
<1>1. PICK S : f \in FilesOf(S) /\ FitsIn(f, S)
  BY DEF Fits, FitsIn
<1>2. OneMore(h, f, e)
  BY <1>1, LongerBranch
<1>3. Fits(h)
  BY <1>1, LongerFits
<1>4. g \in FailedWrites(f) \/ g \in FailedWrites(h)
  BY DEF Raised
<1> HIDE DEF h
<1>5. Sound(h, k, c)
  BY <1>2, SoundLonger
<1>6. QED
  BY <1>3, <1>4, <1>5, FlushedSound

\* A session with nothing in it.
LEMMA BlankSound ==
  ASSUME NEW f, f.log = <<>>, NEW k, NEW c
  PROVE  Sound(f, k, c) /\ Undamaged(f) /\ \A live : Whole(f, live) = InitialState
<1>1. Len(f.log) = 0
  OBVIOUS
<1>2. ASSUME NEW live PROVE Whole(f, live) = InitialState
  BY <1>1, AfterNone DEF Whole
<1>3. ASSUME NEW n \in 0 .. 0 PROVE ~After(f.log, f.parent, None, n).blocked
  <2>1. n = 0
    OBVIOUS
  <2>2. QED
    BY <2>1, AfterNone DEF InitialState
<1>4. Undamaged(f)
  BY <1>1 DEF Undamaged
<1>5. QED
  BY <1>1, <1>2, <1>3, <1>4 DEF Sound, Clean

\* Sessions that are not used, or new, have no entries.
LEMMA NothingInIt ==
  ASSUME NEW parent
  PROVE  /\ Unused.log = <<>> /\ Blank(parent).log = <<>> /\ Blank(parent).parent = parent
         /\ [Unused EXCEPT !.used = TRUE].log = <<>>
BY DEF Unused, Blank

\* What comes of the first part of a branch and some diagnostics.
LEMMA PartDamages ==
  ASSUME NEW S, Issue \in S, NEW s \in Seq(S), NEW n \in Nat, n <= Len(s),
         NEW u \in Seq(S), \A j \in 1 .. Len(u) : u[j] = Issue,
         NEW v, v = SubSeq(s, 1, n) \o u
  PROVE  Damages(v, s, n) /\ v \in Seq(S)
<1> DEFINE t == SubSeq(s, 1, n)
           m == Len(u)
<1>1. t \in Seq(S) /\ Len(t) = n /\ \A i \in 1 .. n : t[i] = s[i]
  BY Parts
<1>2. v = t \o u
  OBVIOUS
<1> HIDE DEF t
<1>3. /\ v \in Seq(S) /\ Len(v) = Len(t) + Len(u) /\ Len(u) \in Nat
      /\ \A i \in 1 .. Len(t) : v[i] = t[i]
      /\ \A j \in 1 .. Len(u) : v[Len(t) + j] = u[j]
  BY <1>1, <1>2, Concatenation
<1>4. /\ m \in Nat /\ Len(v) = n + m
      /\ \A i \in 1 .. n : v[i] = s[i]
      /\ \A j \in 1 .. m : v[n + j] = Issue
  BY <1>1, <1>3
<1> HIDE DEF m
<1>5. ASSUME NEW i \in 1 .. n + m, n < i PROVE v[i] = Issue
  <2> DEFINE j == i - n
  <2>1. j \in 1 .. m /\ n + j = i
    BY <1>4, <1>5
  <2> HIDE DEF j
  <2>2. v[n + j] = Issue
    BY <1>4, <2>1
  <2>3. QED
    BY <2>1, <2>2
<1>6. n + m \in Nat /\ n <= n + m
  BY <1>4
<1>7. QED
  BY <1>3, <1>4, <1>5, <1>6 DEF Damages

\* What is found after a crash is sound, and what /tree leaves.
LEMMA RecoveredSound ==
  ASSUME NEW f, Fits(f), NEW torn \in BOOLEAN, NEW g, g = Recovered(f, torn), NEW k, NEW c,
         Sound(f, k, c)
  PROVE  Sound(g, k, c)
<1>1. PICK S : FitsIn(f, S)
  BY DEF Fits
<1> DEFINE s == f.log
           n == f.durable
           T == S \cup {Issue}
           u == IF torn THEN <<Issue>> ELSE <<>>
           v == SubSeq(s, 1, n) \o u
           m == Len(v)
<1>2. /\ f \in FilesOf(S) /\ s \in Seq(S) /\ n \in Nat /\ n <= Len(s)
      /\ S \subseteq T /\ Issue \in T
  BY <1>1 DEF FitsIn, FilesOf
<1>3. v = SubSeq(s, 1, n) \o u /\ s = f.log
  OBVIOUS
<1>4. u \in Seq(T) /\ \A j \in 1 .. Len(u) : u[j] = Issue
  <2>1. CASE torn
    BY <2>1, <1>2
  <2>2. CASE ~torn
    <3>1. <<>> \in Seq(T) /\ Len(<<>>) = 0
      OBVIOUS
    <3>2. QED
      BY <2>2, <3>1
  <2>3. QED
    BY <2>1, <2>2
<1>5. g = IF f.flushed THEN [f EXCEPT !.log = v, !.durable = m] ELSE [Unused EXCEPT !.used = TRUE]
  BY DEF Recovered
<1> HIDE DEF s, n, T, u, v, m
<1>6. s \in Seq(T)
  BY <1>2, Widens
<1>7. Damages(v, s, n)
  BY <1>2, <1>3, <1>4, <1>6, PartDamages
<1>9. CASE f.flushed
  <2>1. g.log = v /\ g.parent = f.parent
    BY <1>2, <1>5, <1>9 DEF FilesOf
  <2>2. QED
    BY <1>2, <1>3, <1>7, <2>1, SoundPart
<1>10. CASE ~f.flushed
  BY <1>5, <1>10, NothingInIt, BlankSound
<1>11. QED
  BY <1>9, <1>10

\* /tree leaves a sound branch sound.
LEMMA SwitchedSound ==
  ASSUME NEW f, Fits(f), NEW n \in Nat, n < Len(f.log), NEW g, g = Switched(f, n), NEW k, NEW c,
         Sound(f, k, c)
  PROVE  Sound(g, k, c)
<1>1. PICK S : FitsIn(f, S)
  BY DEF Fits
<1> DEFINE s == f.log
           T == S \cup {Issue}
           u == IssuesAfter(s, n)
           v == SubSeq(s, 1, n) \o u
           b == Back(f, n)
<1>2. /\ f \in FilesOf(S) /\ s \in Seq(S) /\ n \in Nat /\ n < Len(s)
      /\ S \subseteq T /\ {Issue} \subseteq T
  BY <1>1 DEF FitsIn, FilesOf
<1>3. v = SubSeq(s, 1, n) \o u /\ u = IssuesAfter(s, n) /\ s = f.log
  OBVIOUS
<1>4. b = [f EXCEPT !.log = v]
  BY DEF Back
<1>5. g = IF f.flushed THEN Flushed(b) ELSE b
  BY DEF Switched
<1> HIDE DEF s, T, u, v, b
<1>6. u \in Seq({Issue}) /\ Len(u) \in Nat /\ \A j \in 1 .. Len(u) : u[j] = Issue
  BY <1>2, <1>3, IssuesFit
<1>7. u \in Seq(T) /\ s \in Seq(T) /\ Issue \in T
  BY <1>2, <1>6, Widens
<1>14. n <= Len(s)
  BY <1>2
<1>8. Damages(v, s, n) /\ v \in Seq(T)
  BY <1>3, <1>6, <1>7, <1>14, PartDamages
<1>10. b \in FilesOf(T) /\ b.log = v /\ b.parent = f.parent
  BY <1>2, <1>4, <1>8 DEF FilesOf
<1>11. g.log = v /\ g.parent = f.parent
  BY <1>5, <1>10, FlushedBranch
<1>15. QED
  BY <1>3, <1>8, <1>11, <1>14, SoundPart

-----------------------------------------------------------------------------
(* What _sync_plan_state shows of a branch.                                *)

\* The fields of Plan State that are shown.
View(s) ==
  [mode |-> s.mode, phase |-> s.phase, plan |-> s.plan, latest |-> s.latest,
   question |-> s.question, run |-> s.run, review |-> s.review,
   target |-> s.target]

\* A projection is the view of the whole branch.
LEMMA ProjectionIsView ==
  ASSUME NEW f, Len(f.log) \in Nat, NEW live
  PROVE  Projection(f, live) = View(Whole(f, live))
BY ReduceIsAfter DEF Projection, View, Whole

\* A step shows what its outcome shows.
LEMMA StepView ==
  ASSUME NEW parent, NEW live, NEW s \in PlanState, WellFormed(s, live), NEW e \in Entries
  PROVE  View(Step(s, e, parent, live)) = View(Outcome(s, e, parent, live))
<1> DEFINE t == Outcome(s, e, parent, live)
<1>1. t \in PlanState
  BY OutcomeWellFormed
<1>2. Step(s, e, parent, live) = IF e.type = "issue" THEN t
                     ELSE [t EXCEPT !.last = e, !.len = s.len + 1]
  BY StepOutcome
<1> HIDE DEF t
<1>3. View(Step(s, e, parent, live)) = View(t)
  BY <1>1, <1>2 DEF PlanState, View
<1>4. QED
  BY <1>3 DEF t

\* An entry that is not about plans, or that a plan does not wait for, shows
\* nothing.
LEMMA QuietView ==
  ASSUME NEW parent, NEW live, NEW s \in PlanState, WellFormed(s, live), NEW e \in Entries,
         \/ e.type = "other"
         \/ e.type = "message" /\ (e.role # "user" \/ s.mode # "plan")
  PROVE  View(Step(s, e, parent, live)) = View(s)
<1>1. Valid(s, e, parent) /\ Accept(s, e, live) = s /\ Recover(s, e) = s
  BY DEF Valid, Accept, OnMessage, Recover, IsRecoveryExit
<1>2. Outcome(s, e, parent, live) = s
  BY <1>1 DEF Outcome
<1>3. QED
  BY <1>2, StepView

\* The child of a handoff begins with entries that its parent accounts for.
LEMMA ReviewSound ==
  ASSUME NEW origin \in SessionId, NEW latest \in Revisions, NEW k \in Nat, NEW c,
         latest.plan \in 1 .. k, latest.plan # None, latest.number >= 1, latest.call # None
  PROVE  /\ Sound(Draft(origin, latest), k, c) /\ Sound(Review(origin, latest), k, c)
         /\ LET s == Whole(Review(origin, latest), None) IN
            /\ s.phase = "ready" /\ s.review = origin /\ s.latest.plan = latest.plan
            /\ s.latest.digest = Digest(latest.plan, latest.number, latest.call)
<1> DEFINE mode == ModeChange("plan", latest.plan, "handoff", origin)
           copy == Revision(latest.plan, latest.number, latest.call, latest.source, origin)
           f == Blank(origin)
           g == Written(f, mode)
           s == Step(InitialState, mode, origin, None)
           d == Draft(origin, latest)
<1>1. Fits(f) /\ f.parent = origin /\ f.log = <<>>
  BY UnusedFits, NothingInIt DEF MaybeSession
<1>2. d = Written(g, copy) /\ Review(origin, latest) = Flushed(d) /\ Fits(d)
  BY DraftFits DEF Review, Draft
<1>3. /\ mode \in ModeChanges /\ mode.type = "mode" /\ mode.mode = "plan"
      /\ mode.plan = latest.plan /\ mode.reason = "handoff" /\ mode.related = origin
  BY DEF ModeChange, ModeChanges, Revisions, MaybeSession
<1>4. /\ copy \in Revisions /\ copy.type = "revision"
      /\ copy.plan = latest.plan /\ copy.number = latest.number /\ copy.call = latest.call
      /\ copy.digest = Digest(latest.plan, latest.number, latest.call)
      /\ copy.origin = origin
  BY DEF Revision, Revisions, MaybeSession, Digests, Digest
<1>5. mode \in Entries /\ copy \in Entries
  BY <1>3, <1>4 DEF Entries
<1>6. Names(mode, k) /\ Names(copy, k)
  BY <1>3, <1>4 DEF Names
<1>7. origin # None
  BY IdAssumption
<1>8. g \in Appends(f, mode) /\ d \in Appends(g, copy)
  BY <1>2 DEF Appends
<1> HIDE DEF mode, copy, f, d
<1>10. Sound(f, k, c) /\ Whole(f, None) = InitialState
  BY <1>1, BlankSound
<1>11. Valid(InitialState, mode, origin)
  BY <1>3, <1>7 DEF Valid, ValidModeChange, ValidRelation, InitialState
<1>12. Fits(g)
  BY <1>1, WrittenFits
<1> HIDE DEF g
<1>13. Sound(g, k, c) /\ Whole(g, None) = s /\ g.parent = origin
  <2>1. /\ Sound(g, k, c)
        /\ \A live : Whole(g, live) = Step(Whole(f, live), mode, f.parent, live)
    BY <1>1, <1>5, <1>6, <1>8, <1>10, <1>11, AppendsSound
  <2>2. g.parent = f.parent
    BY <1>1, <1>8, AppendsBranch DEF OneMore
  <2>3. QED
    BY <1>1, <1>10, <2>1, <2>2
<1>14. /\ s.mode = "plan" /\ s.phase = "drafting" /\ s.plan = latest.plan
       /\ s.latest = None /\ s.review = origin /\ s.calls = {}
  <2> DEFINE t == OnModeChange(InitialState, mode)
  <2>1. Accept(InitialState, mode, None) = t
    BY <1>3 DEF Accept
  <2>2. s = [t EXCEPT !.last = mode, !.len = InitialState.len + 1]
    BY <1>3, <1>11, <2>1 DEF Step, InitialState
  <2>3. /\ t.mode = "plan" /\ t.phase = "drafting" /\ t.plan = latest.plan
        /\ t.latest = None /\ t.review = origin /\ t.calls = {}
    BY <1>3 DEF OnModeChange, InitialState
  <2>5. t \in PlanState
    <3>1. ValidModeChange(InitialState, mode)
      BY <1>3, <1>11 DEF Valid
    <3>2. InitialState \in PlanState /\ WellFormed(InitialState, None)
      BY InitialWellFormed
    <3>3. QED
      BY <1>3, <3>1, <3>2, ModeChangeWellFormed
  <2> HIDE DEF t
  <2>4. QED
    BY <2>2, <2>3, <2>5 DEF PlanState
<1> HIDE DEF s
<1>15. Valid(s, copy, origin)
  BY <1>4, <1>7, <1>14 DEF Valid, ValidRevision, NumberFits, IsHandoffCopy, DigestFits
<1>16. Sound(d, k, c) /\ Whole(d, None) = Step(s, copy, origin, None)
  BY <1>5, <1>6, <1>8, <1>12, <1>13, <1>15, AppendsSound
<1>20. /\ Sound(Review(origin, latest), k, c)
       /\ Whole(Review(origin, latest), None) = Step(s, copy, origin, None)
  BY <1>2, <1>16, FlushedSound
<1>17. s \in PlanState /\ ~s.blocked
  BY <1>13, <1>14, WholeFits DEF WellFormed
<1>18. /\ Step(s, copy, origin, None).phase = "ready"
       /\ Step(s, copy, origin, None).review = origin
       /\ Step(s, copy, origin, None).latest = copy
  <2> DEFINE t == OnRevision(s, copy)
  <2>1. t.phase = "ready" /\ t.review = origin /\ t.latest = copy
    BY <1>14, <1>17 DEF OnRevision, PlanState
  <2>2. Step(s, copy, origin, None) = [t EXCEPT !.last = copy, !.len = s.len + 1]
    BY <1>4, <1>15, <1>17 DEF Step, Accept
  <2>3. t \in [DOMAIN s -> UNION {{t[x]} : x \in DOMAIN s}]
    BY <1>17 DEF OnRevision, PlanState
  <2> HIDE DEF t
  <2>4. QED
    BY <1>17, <2>1, <2>2, <2>3 DEF PlanState
<1>19. QED
  BY <1>4, <1>16, <1>18, <1>20 DEF d

-----------------------------------------------------------------------------
(* The cached Plan State, the run and the branches.                        *)

\* p is what f shows when `live` is the run of this process; or it still says that
\* the branch is blocked, which it has been; or a plan is drafted or asked about
\* and a write behind it has raised.
Attuned(p, f, live) ==
  \/ p = View(Whole(f, live))
  \/ /\ live = None
     /\ \E s \in PlanState :
          /\ WellFormed(s, None) /\ p = View(s)
          /\ \/ s.phase = "recovery_error" /\ ~Unhurt(f)
             \/ s.phase \in {"drafting", "awaiting_answer"}

\* The run is started on the branch: without it the branch is uncertain.
Owns(live, f, k) ==
  /\ live \in 1 .. k
  /\ Whole(f, None).phase = "uncertain"
  /\ Whole(f, live) = [Whole(f, None) EXCEPT !.phase = "executing"]

\* No other session has heard of the run.
NowhereElse(live, files, a) ==
  \A s \in SessionId \ {a} : \A i \in 1 .. Len(files[s].log) :
    files[s].log[i].type = "run" => files[s].log[i].run # live

\* Who holds the development tools is in a turn, outside Plan Mode.
Tooled(r, p) ==
  "develop" \in r.tools =>
    /\ r.pc \in {"model", "tools", "question", "settle"}
    /\ p.mode = "default" /\ p.phase # "uncertain"

Running(r, f, files, a, k) ==
  /\ r.exec # None => /\ r.pc # "idle" /\ Owns(r.exec, f, k) /\ NowhereElse(r.exec, files, a)
  /\ r.sole => r.call # None

\* The inductive invariant of Plan State, beside IInv and UInv; with clean branches,
\* if c says so.
PInv(c) ==
  /\ \A s \in SessionId : Sound(file[s], ids, c)
  /\ Attuned(plan, file[attached], run.exec)
  /\ Running(run, file[attached], file, attached, ids)
  /\ Tooled(run, plan)

\* Clean branches stay clean in a step from a state in which the cache follows.
Seen(c) ==
  c = "clean" => plan = View(Whole(Current, run.exec)) \/ plan.phase = "recovery_error"

\* What the cached state stands for.
LEMMA PlanIs ==
  ASSUME IInv, NEW c, PInv(c)
  PROVE  \E s \in PlanState :
           /\ WellFormed(s, run.exec) /\ plan = View(s)
           /\ \/ s = Whole(Current, run.exec)
              \/ s.phase = "recovery_error" /\ ~Unhurt(Current) /\ run.exec = None
              \/ s.phase \in {"drafting", "awaiting_answer"} /\ run.exec = None
<1>1. Sound(Current, ids, c) /\ Attuned(plan, Current, run.exec)
  BY DEF PInv, IInv, Current
<1>2. Whole(Current, run.exec) \in PlanState /\ WellFormed(Whole(Current, run.exec), run.exec)
  BY <1>1, WholeFits
<1>3. QED
  BY <1>1, <1>2 DEF Attuned

\* While a Plan run is live, Plan Mode is off and the plan is executing.
LEMMA RunIsPlan ==
  ASSUME IInv, NEW c, PInv(c), run.exec # None
  PROVE  /\ plan = View(Whole(Current, run.exec))
         /\ plan.mode = "default" /\ plan.phase = "executing" /\ plan.question = None
         /\ Owns(run.exec, Current, ids) /\ NowhereElse(run.exec, file, attached)
<1>1. PICK s \in PlanState : /\ WellFormed(s, run.exec) /\ plan = View(s)
                             /\ s = Whole(Current, run.exec)
  BY PlanIs
<1>2. Owns(run.exec, Current, ids) /\ NowhereElse(run.exec, file, attached)
  BY DEF PInv, Running, Current
<1>3. Sound(Current, ids, c)
  BY DEF PInv, IInv, Current
<1>4. Whole(Current, None) \in PlanState
  BY <1>3, WholeFits
<1>5. s.phase = "executing"
  BY <1>1, <1>2, <1>4 DEF Owns, PlanState
<1>6. s.mode = "default" /\ s.question = None
  BY <1>1, <1>5 DEF WellFormed, PlanState
<1>7. QED
  BY <1>1, <1>2, <1>5, <1>6 DEF View

\* Without one, what is not blocked, drafted or asked about is what the branch shows.
LEMMA PlanIsBranch ==
  ASSUME IInv, NEW c, PInv(c), run.exec = None
  PROVE  \E s \in PlanState :
           /\ WellFormed(s, None) /\ plan = View(s)
           /\ plan.phase \notin {"drafting", "awaiting_answer", "recovery_error"} =>
                s = Whole(Current, None) /\ Known(s, ids)
           /\ plan.phase = "recovery_error" => ~Unhurt(Current)
<1>1. PICK s \in PlanState :
        /\ WellFormed(s, None) /\ plan = View(s)
        /\ \/ s = Whole(Current, None)
           \/ s.phase = "recovery_error" /\ ~Unhurt(Current)
           \/ s.phase \in {"drafting", "awaiting_answer"}
  BY PlanIs
<1>2. Sound(Current, ids, c)
  BY DEF PInv, IInv, Current
<1>3. /\ Known(Whole(Current, None), ids)
      /\ Unhurt(Current) => ~Whole(Current, None).blocked
  BY <1>2, WholeFits
<1>4. s.phase = plan.phase
  BY <1>1 DEF View
<1>5. s.phase = "recovery_error" <=> s.blocked
  BY <1>1 DEF WellFormed
<1>6. QED
  BY <1>1, <1>3, <1>4, <1>5

\* What is seen on a clean branch without diagnostics is what the branch shows.
LEMMA SeenIsBranch ==
  ASSUME IInv, NEW c, PInv(c), run.exec = None, Seen(c), c = "clean", Undamaged(Current),
         NEW s, s = Whole(Current, None)
  PROVE  /\ s \in PlanState /\ WellFormed(s, None) /\ Known(s, ids)
         /\ plan = View(s) /\ plan.phase # "recovery_error"
<1>1. Sound(Current, ids, c)
  BY DEF PInv, IInv, Current
<1>2. s \in PlanState /\ WellFormed(s, None) /\ Known(s, ids) /\ Unhurt(Current)
  BY <1>1, WholeFits
<1>3. plan.phase # "recovery_error"
  BY <1>2, PlanIsBranch
<1>4. QED
  BY <1>2, <1>3 DEF Seen

\* Nothing changes but the run.
LEMMA RunOnlyP ==
  ASSUME NEW c, PInv(c), UNCHANGED <<file, attached, plan, ids>>, run'.exec \in {run.exec, None},
         run'.exec = None => run.exec = None,
         run'.exec # None => run'.pc # "idle",
         run'.sole => run'.call # None, Tooled(run', plan)
  PROVE  PInv(c)'
<1>1. run'.exec = run.exec
  OBVIOUS
<1>2. QED
  BY <1>1 DEF PInv, Running

\* A session is attached, and nothing runs.
LEMMA AttachingP ==
  ASSUME NEW c, \A s \in SessionId : Sound(file'[s], ids', c), NEW s \in SessionId, Attach(s)
  PROVE  PInv(c)'
<1>1. /\ attached' = s /\ run' = Run0 /\ plan' = Projection(file'[s], None)
  BY DEF Attach
<1>2. run'.exec = None /\ ~run'.sole /\ run'.tools = {}
  BY <1>1 DEF Run0
<1>3. Len(file'[s].log) \in Nat
  BY DEF Sound
<1>4. plan' = View(Whole(file'[s], None))
  BY <1>1, <1>3, ProjectionIsView
<1>5. Running(run', file'[attached'], file', attached', ids') /\ Tooled(run', plan')
  BY <1>2 DEF Running, Tooled
<1>6. Attuned(plan', file'[attached'], run'.exec)
  BY <1>1, <1>2, <1>4 DEF Attuned
<1>7. QED
  BY <1>5, <1>6 DEF PInv

\* More ids may be handed out.
LEMMA MoreIds ==
  ASSUME IInv, NEW c, PInv(c), ids' \in {ids, ids + 1}
  PROVE  /\ ids \in Nat /\ ids' \in Nat /\ ids <= ids'
         /\ \A s \in SessionId : Sound(file[s], ids', c)
         /\ Sound(Current, ids, c) /\ Sound(Current, ids', c)
<1>1. ids \in Nat /\ ids' \in Nat /\ ids <= ids' /\ attached \in SessionId
  BY BoundAssumption DEF IInv
<1>2. \A s \in SessionId : Sound(file[s], ids, c)
  BY DEF PInv
<1>3. QED
  BY <1>1, <1>2, SoundOn DEF Current

\* The branch of the attached session changes.
LEMMA BranchP ==
  ASSUME IInv, NEW c, PInv(c), attached' = attached, ids' \in {ids, ids + 1}, NEW g,
         file' = [file EXCEPT ![attached] = g], Sound(g, ids', c),
         Attuned(plan', g, run'.exec),
         run'.exec # None =>
           run'.pc # "idle" /\ Owns(run'.exec, g, ids') /\ NowhereElse(run'.exec, file, attached),
         run'.sole => run'.call # None, Tooled(run', plan')
  PROVE  PInv(c)'
<1>1. \A s \in SessionId : Sound(file[s], ids', c)
  BY MoreIds
<1>2. /\ file = [s \in SessionId |-> file[s]] /\ attached \in SessionId
  BY DEF IInv, AllFit
<1>3. file'[attached'] = g /\ \A s \in SessionId \ {attached} : file'[s] = file[s]
  BY <1>2
<1>4. \A s \in SessionId : Sound(file'[s], ids', c)
  BY <1>1, <1>3
<1>5. \A live : NowhereElse(live, file, attached) => NowhereElse(live, file', attached')
  BY <1>3 DEF NowhereElse
<1>6. Running(run', file'[attached'], file', attached', ids')
  BY <1>3, <1>5 DEF Running
<1>7. QED
  BY <1>3, <1>4, <1>6 DEF PInv

\* The same, when the cache follows and no Plan run is live.
LEMMA SyncedP ==
  ASSUME IInv, NEW c, PInv(c), attached' = attached, ids' \in {ids, ids + 1}, NEW g,
         file' = [file EXCEPT ![attached] = g], Sound(g, ids', c),
         SyncPlanState(None), run'.exec = None,
         run'.sole => run'.call # None, Tooled(run', plan')
  PROVE  PInv(c)'
<1>1. attached \in SessionId /\ file = [s \in SessionId |-> file[s]]
  BY DEF IInv, AllFit
<1>2. plan' = Projection(g, None)
  BY <1>1 DEF SyncPlanState
<1>3. Len(g.log) \in Nat
  BY DEF Sound
<1>4. Attuned(plan', g, run'.exec)
  BY <1>2, <1>3, ProjectionIsView DEF Attuned
<1>5. QED
  BY <1>4, BranchP

-----------------------------------------------------------------------------
(* Messages, and whatever else says nothing of plans.                      *)

\* Such an entry leaves the branches sound, and the run started.
LEMMA MessageSound ==
  ASSUME IInv, NEW c, PInv(c), NEW e \in Entries, e.type \in {"message", "other"},
         NEW g \in Appends(Current, e)
  PROVE  /\ Sound(g, ids, c) /\ (~Unhurt(Current) => ~Unhurt(g))
         /\ \A live : Whole(g, live) = Step(Whole(Current, live), e, Current.parent, live)
         /\ run.exec # None => Owns(run.exec, g, ids)
<1>1. Fits(Current) /\ Sound(Current, ids, c)
  BY AttachedFits DEF PInv, IInv, Current
<1>2. Valid(Whole(Current, None), e, Current.parent) /\ Names(e, ids)
  BY DEF Valid, Names
<1>3. /\ Sound(g, ids, c) /\ (~Unhurt(Current) => ~Unhurt(g))
      /\ \A live : Whole(g, live) = Step(Whole(Current, live), e, Current.parent, live)
  BY <1>1, <1>2, AppendsSound
<1>4. ASSUME run.exec # None PROVE Owns(run.exec, g, ids)
  <2> DEFINE s == Whole(Current, None)
             t == Whole(Current, run.exec)
             p == Current.parent
  <2>1. /\ s \in PlanState /\ WellFormed(s, None)
        /\ t \in PlanState /\ WellFormed(t, run.exec)
    BY <1>1, WholeFits
  <2>2. /\ run.exec \in 1 .. ids /\ s.phase = "uncertain"
        /\ t = [s EXCEPT !.phase = "executing"]
    BY <1>4, RunIsPlan DEF Owns
  <2>3. /\ Whole(g, None) = Step(s, e, p, None)
        /\ Whole(g, run.exec) = Step(t, e, p, run.exec)
    BY <1>3
  <2> HIDE DEF s, t, p
  <2>4. ~s.blocked /\ s.mode # "plan" /\ ~t.blocked /\ t.mode # "plan"
    BY <2>1, <2>2 DEF WellFormed, PlanState
  <2>5. Whole(g, None) = [s EXCEPT !.last = e, !.len = s.len + 1]
    <3>1. Step(s, e, p, None) = [s EXCEPT !.last = e, !.len = s.len + 1]
      BY <2>4 DEF Step, Valid, Accept, OnMessage
    <3>2. QED
      BY <2>3, <3>1
  <2>6. Whole(g, run.exec) = [t EXCEPT !.last = e, !.len = t.len + 1]
    <3>1. Step(t, e, p, run.exec) = [t EXCEPT !.last = e, !.len = t.len + 1]
      BY <2>4 DEF Step, Valid, Accept, OnMessage
    <3>2. QED
      BY <2>3, <3>1
  <2>7. /\ [s EXCEPT !.last = e, !.len = s.len + 1].phase = s.phase
        /\ [t EXCEPT !.last = e, !.len = t.len + 1] =
             [[s EXCEPT !.last = e, !.len = s.len + 1] EXCEPT !.phase = "executing"]
    BY <2>1, <2>2 DEF PlanState
  <2>8. QED
    BY <2>2, <2>5, <2>6, <2>7 DEF Owns
<1>5. QED
  BY <1>3, <1>4

\* What Plan State shows stays, unless a user message reopens a plan.
LEMMA MessageView ==
  ASSUME IInv, NEW c, PInv(c), NEW e \in Entries, NEW g \in Appends(Current, e),
         \/ e.type = "other"
         \/ e.type = "message" /\ (e.role # "user" \/ plan.mode # "plan")
  PROVE  /\ Attuned(plan, g, run.exec)
         /\ plan.phase \notin {"drafting", "awaiting_answer", "recovery_error"} =>
              plan = View(Whole(g, run.exec))
<1>1. /\ ~Unhurt(Current) => ~Unhurt(g)
      /\ Whole(g, run.exec) = Step(Whole(Current, run.exec), e, Current.parent, run.exec)
  BY MessageSound
<1>2. PICK s \in PlanState :
        /\ WellFormed(s, run.exec) /\ plan = View(s)
        /\ \/ s = Whole(Current, run.exec)
           \/ s.phase = "recovery_error" /\ ~Unhurt(Current) /\ run.exec = None
           \/ s.phase \in {"drafting", "awaiting_answer"} /\ run.exec = None
  BY PlanIs
<1>3. CASE s = Whole(Current, run.exec)
  <2>1. plan.mode = s.mode
    BY <1>2 DEF View
  <2>2. View(Step(s, e, Current.parent, run.exec)) = View(s)
    BY <1>2, <2>1, QuietView
  <2>3. QED
    BY <1>1, <1>2, <1>3, <2>2 DEF Attuned
<1>4. CASE \/ s.phase = "recovery_error" /\ ~Unhurt(Current) /\ run.exec = None
           \/ s.phase \in {"drafting", "awaiting_answer"} /\ run.exec = None
  <2>1. plan.phase \in {"drafting", "awaiting_answer", "recovery_error"}
    BY <1>2, <1>4 DEF View
  <2>2. QED
    BY <1>1, <1>2, <1>4, <2>1 DEF Attuned
<1>5. QED
  BY <1>2, <1>3, <1>4

\* A write that raises and takes its entry back changes nothing that is read.
LEMMA UnreadP ==
  ASSUME IInv, NEW c, PInv(c), NEW g \in FailedWrites(Current)
  PROVE  /\ Sound(g, ids, c) /\ Attuned(plan, g, run.exec)
         /\ \A live : Whole(g, live) = Whole(Current, live)
         /\ run.exec # None => Owns(run.exec, g, ids)
<1>1. Fits(Current) /\ Sound(Current, ids, c) /\ Attuned(plan, Current, run.exec)
  BY AttachedFits DEF PInv, IInv, Current
<1>2. /\ Sound(g, ids, c) /\ \A live : Whole(g, live) = Whole(Current, live)
      /\ Unhurt(g) <=> Unhurt(Current)
  BY <1>1, FlushedSound
<1>3. run.exec # None => Owns(run.exec, g, ids)
  BY <1>2, RunIsPlan DEF Owns
<1>4. Attuned(plan, g, run.exec)
  BY <1>1, <1>2 DEF Attuned
<1>5. QED
  BY <1>2, <1>3, <1>4

\* So does a step that does no more than that.
LEMMA NothingSaidP ==
  ASSUME IInv, NEW c, PInv(c), NEW g \in FailedWrites(Current),
         file' = [file EXCEPT ![attached] = g], UNCHANGED <<attached, plan>>,
         ids' \in {ids, ids + 1}, run'.exec = run.exec,
         run'.exec # None => run'.pc # "idle", run'.sole => run'.call # None, Tooled(run', plan)
  PROVE  PInv(c)'
<1>1. /\ Sound(g, ids, c) /\ Attuned(plan, g, run.exec)
      /\ run.exec # None => Owns(run.exec, g, ids)
  BY UnreadP
<1>2. ids \in Nat /\ ids' \in Nat /\ ids <= ids'
  BY MoreIds
<1>3. Sound(g, ids', c)
  BY <1>1, <1>2, SoundOn
<1>4. run.exec # None => Owns(run.exec, g, ids') /\ NowhereElse(run.exec, file, attached)
  BY <1>1, <1>2 DEF Owns, PInv, Running
<1>5. QED
  BY <1>1, <1>3, <1>4, BranchP

\* The entries of this kind.
LEMMA QuietEntries ==
  /\ Other \in Entries /\ Other.type = "other"
  /\ UserMessage \in Entries /\ UserMessage.type = "message" /\ UserMessage.role = "user"
  /\ \A call \in MaybeId, sole \in BOOLEAN :
       /\ AssistantMessage(call, sole) \in Entries
       /\ AssistantMessage(call, sole).type = "message"
       /\ AssistantMessage(call, sole).role = "assistant"
<1>1. Other \in Entries /\ Other.type = "other"
  BY DEF Other, Entries
<1>2. UserMessage \in Messages /\ UserMessage.type = "message" /\ UserMessage.role = "user"
  BY DEF UserMessage, Message, Messages, MaybeId
<1>3. ASSUME NEW call \in MaybeId, NEW sole \in BOOLEAN
      PROVE  /\ AssistantMessage(call, sole) \in Messages
             /\ AssistantMessage(call, sole).type = "message"
             /\ AssistantMessage(call, sole).role = "assistant"
  <2> DEFINE complete == call = None \/ sole
  <2>1. complete \in BOOLEAN
    OBVIOUS
  <2>2. AssistantMessage(call, sole) =
          [type |-> "message", role |-> "assistant", submit |-> call, alone |-> sole,
           complete |-> complete]
    BY DEF AssistantMessage, Message
  <2> HIDE DEF complete
  <2>3. QED
    BY <2>1, <2>2 DEF Messages
<1>4. QED
  BY <1>1, <1>2, <1>3 DEF Entries

\* A setting or a name is appended: the cache does not follow, and need not.
LEMMA AppendOtherP ==
  ASSUME IInv, NEW c, PInv(c), AppendOther
  PROVE  PInv(c)'
<1> DEFINE g == Written(Current, Other)
<1>1. UNCHANGED <<attached, plan, run, ids>>
  BY DEF AppendOther
<1>2. g \in Appends(Current, Other)
  BY DEF Appends
<1>5. /\ run.exec # None => run.pc # "idle" /\ NowhereElse(run.exec, file, attached)
      /\ run.sole => run.call # None
      /\ Tooled(run, plan)
  BY DEF PInv, Running
<1>6. CASE file' = [file EXCEPT ![attached] = g]
  <2> HIDE DEF g
  <2>1. Sound(g, ids, c) /\ (run.exec # None => Owns(run.exec, g, ids))
    BY <1>2, QuietEntries, MessageSound
  <2>2. Attuned(plan, g, run.exec)
    BY <1>2, QuietEntries, MessageView
  <2>3. QED
    BY <1>1, <1>5, <1>6, <2>1, <2>2, BranchP
<1>7. CASE AppendRaises
  BY <1>1, <1>5, <1>7, NothingSaidP DEF AppendRaises, WriteRaises
<1>8. QED
  BY <1>6, <1>7 DEF AppendOther, Commit, Current

\* What the Agent appends, or fails to.
LEMMA AgentAppendsP ==
  ASSUME IInv, NEW c, PInv(c), NEW e \in Entries, e.type = "message", AgentAppends(e)
  PROVE  \E g : /\ file' = [file EXCEPT ![attached] = g]
                /\ Sound(g, ids, c) /\ (run.exec # None => Owns(run.exec, g, ids))
                /\ (e.role # "user" \/ plan.mode # "plan")
                     /\ plan.phase \notin {"drafting", "awaiting_answer", "recovery_error"} =>
                     plan = View(Whole(g, run.exec))
<1>1. CASE Commit(e)
  <2> DEFINE g == Written(Current, e)
  <2>1. file' = [file EXCEPT ![attached] = g]
    BY <1>1 DEF Commit, Current
  <2>2. g \in Appends(Current, e)
    BY DEF Appends
  <2> HIDE DEF g
  <2>3. Sound(g, ids, c) /\ (run.exec # None => Owns(run.exec, g, ids))
    BY <2>2, MessageSound
  <2>4. (e.role # "user" \/ plan.mode # "plan")
          /\ plan.phase \notin {"drafting", "awaiting_answer", "recovery_error"} =>
          plan = View(Whole(g, run.exec))
    BY <2>2, MessageView
  <2>5. QED
    BY <2>1, <2>3, <2>4
<1>2. CASE WriteRaises(Current)
  <2>1. PICK g \in FailedWrites(Current) : file' = [file EXCEPT ![attached] = g]
    BY <1>2 DEF WriteRaises
  <2>2. /\ Sound(g, ids, c) /\ \A live : Whole(g, live) = Whole(Current, live)
        /\ run.exec # None => Owns(run.exec, g, ids)
    BY <2>1, UnreadP
  <2>3. plan.phase \notin {"drafting", "awaiting_answer", "recovery_error"} =>
          plan = View(Whole(g, run.exec))
    <3>1. plan.phase \notin {"drafting", "awaiting_answer", "recovery_error"} =>
            plan = View(Whole(Current, run.exec))
      BY PlanIs DEF View
    <3>2. QED
      BY <2>2, <3>1
  <2>4. QED
    BY <2>1, <2>2, <2>3
<1>3. QED
  BY <1>1, <1>2 DEF AgentAppends

-----------------------------------------------------------------------------
(* The run.                                                                *)

\* A projection is of a well-formed Plan State.
LEMMA Projected ==
  ASSUME NEW f, NEW k, NEW c, Sound(f, k, c), NEW live
  PROVE  /\ Projection(f, live) = View(Whole(f, live))
         /\ Projection(f, live).mode \in {"default", "plan"}
<1>1. Len(f.log) \in Nat
  BY DEF Sound
<1>2. Whole(f, live) \in PlanState
  BY WholeFits
<1>3. Projection(f, live) = View(Whole(f, live))
  BY <1>1, ProjectionIsView
<1>4. View(Whole(f, live)).mode = Whole(f, live).mode
  BY DEF View
<1>5. QED
  BY <1>2, <1>3, <1>4 DEF PlanState

\* The cache is synchronised with the branch that is attached.
LEMMA Syncing ==
  ASSUME IInv, attached' = attached, NEW g, file' = [file EXCEPT ![attached] = g],
         NEW live, SyncPlanState(live), NEW k, NEW c, Sound(g, k, c)
  PROVE  plan' = View(Whole(g, live)) /\ plan'.mode \in {"default", "plan"}
<1>1. attached \in SessionId /\ file = [s \in SessionId |-> file[s]]
  BY DEF IInv, AllFit
<1>2. plan' = Projection(g, live)
  BY <1>1 DEF SyncPlanState
<1>3. QED
  BY <1>2, Projected

\* What the invariant says of a run.
LEMMA RunIs ==
  ASSUME IInv, NEW c, PInv(c)
  PROVE  /\ run \in RunStates /\ (run.sole => run.call # None)
         /\ run.exec # None => run.pc # "idle" /\ NowhereElse(run.exec, file, attached)
         /\ Tooled(run, plan)
         /\ run.pc = "idle" => "develop" \notin run.tools
         /\ run.pc = "extract" => run.exec # None
BY AttachedFits DEF PInv, Running, Tooled, RunStands

\* A user message is appended and the loop adopts the tools.
LEMMA NextRequestP ==
  ASSUME IInv, NEW c, PInv(c), NEW r \in RunStates, r.exec = run.exec, r.sole => r.call # None,
         NextRequest(r), UNCHANGED <<attached, ids>>
  PROVE  PInv(c)'
<1> DEFINE tools == EffectiveTools(plan')
           todo == <<>>
<1>1. /\ AgentAppends(UserMessage) /\ SyncPlanState(run.exec)
      /\ run' = [r EXCEPT !.pc = "model", !.tools = tools, !.todo = todo, !.steer = FALSE]
  BY DEF NextRequest
<1>2. "develop" \in tools => plan'.mode # "plan" /\ plan'.phase # "uncertain"
  BY DEF EffectiveTools
<1> HIDE DEF tools, todo
<1>3. /\ run'.exec = run.exec /\ run'.pc = "model" /\ run'.tools = tools
      /\ run'.sole = r.sole /\ run'.call = r.call
  BY <1>1 DEF RunStates
<1>4. PICK g : /\ file' = [file EXCEPT ![attached] = g]
               /\ Sound(g, ids, c) /\ (run.exec # None => Owns(run.exec, g, ids))
  BY <1>1, QuietEntries, AgentAppendsP
<1>5. plan' = View(Whole(g, run.exec)) /\ plan'.mode \in {"default", "plan"}
  BY <1>1, <1>4, Syncing
<1>6. Tooled(run', plan')
  BY <1>2, <1>3, <1>5 DEF Tooled
<1>7. Attuned(plan', g, run'.exec)
  BY <1>3, <1>5 DEF Attuned
<1>8. run.exec # None => NowhereElse(run.exec, file, attached)
  BY RunIs
<1>9. QED
  BY <1>3, <1>4, <1>6, <1>7, <1>8, BranchP

\* A reply is appended: it reopens nothing, so the tools stay the right ones.
LEMMA ReplyP ==
  ASSUME IInv, NEW c, PInv(c), NEW stop, NEW batch, NEW call \in MaybeId, run.pc = "model",
         Reply(stop, batch, call), UNCHANGED <<attached, ids>>
  PROVE  PInv(c)'
<1> DEFINE sole == call # None /\ Len(batch) = 1 /\ stop = "stop"
           e == AssistantMessage(call, sole)
           pc == IF stop \in {"error", "aborted"} THEN "settle" ELSE "tools"
           last == IF run.exec = None THEN None ELSE stop
           turn == IF batch = <<>> THEN "last" ELSE "ended"
<1>1. /\ AgentAppends(e) /\ SyncPlanState(run.exec)
      /\ run' = [run EXCEPT !.pc = pc, !.stop = last, !.todo = batch, !.call = call,
                            !.sole = sole, !.turn = turn]
  BY DEF Reply
<1>2. pc \in {"settle", "tools"} /\ sole \in BOOLEAN /\ (sole => call # None)
  OBVIOUS
<1> HIDE DEF sole, pc, last, turn
<1>3. e \in Entries /\ e.type = "message" /\ e.role = "assistant"
  BY <1>2, QuietEntries
<1> HIDE DEF e
<1>4. /\ run'.exec = run.exec /\ run'.pc = pc /\ run'.tools = run.tools
      /\ run'.sole = sole /\ run'.call = call
  BY <1>1, RunIs DEF RunStates
<1>5. PICK g : /\ file' = [file EXCEPT ![attached] = g]
               /\ Sound(g, ids, c) /\ (run.exec # None => Owns(run.exec, g, ids))
               /\ plan.phase \notin {"drafting", "awaiting_answer", "recovery_error"} =>
                    plan = View(Whole(g, run.exec))
  BY <1>1, <1>3, AgentAppendsP
<1>6. plan' = View(Whole(g, run.exec))
  BY <1>1, <1>5, Syncing
<1>7. plan.phase \in {"drafting", "awaiting_answer", "recovery_error"} => plan.mode = "plan"
  <2>1. PICK s \in PlanState : WellFormed(s, run.exec) /\ plan = View(s)
    BY PlanIs
  <2>2. plan.phase = s.phase /\ plan.mode = s.mode
    BY <2>1 DEF View
  <2>3. QED
    BY <2>1, <2>2 DEF WellFormed
<1>8. Tooled(run', plan')
  BY <1>2, <1>4, <1>5, <1>6, <1>7, RunIs DEF Tooled
<1>9. Attuned(plan', g, run'.exec)
  BY <1>4, <1>6 DEF Attuned
<1>10. run.exec # None => NowhereElse(run.exec, file, attached)
  BY RunIs
<1>11. run'.sole => run'.call # None
  BY <1>2, <1>4
<1>12. QED
  BY <1>2, <1>4, <1>5, <1>8, <1>9, <1>10, <1>11, BranchP

\* The model replies.
LEMMA ModelP ==
  ASSUME IInv, NEW c, PInv(c), Model
  PROVE  PInv(c)'
<1> DEFINE none == <<>>
<1>1. run.pc = "model" /\ UNCHANGED <<attached, ids>>
  BY DEF Model
<1>2. Calls \subseteq MaybeId /\ None \in MaybeId
  BY BoundAssumption DEF MaybeId
<1>3. \/ Reply("aborted", none, None)
      \/ \E batch \in Batches, stop \in {"stop", "length"}, call \in {None} \cup Calls :
           Reply(stop, batch, call)
      \/ Reply("error", none, None)
  BY DEF Model
<1> HIDE DEF none
<1>4. QED
  BY <1>1, <1>2, <1>3, ReplyP

\* The terminal entry of a Plan run is that of the run that was started.
LEMMA FinishP ==
  ASSUME IInv, NEW c, PInv(c), run.exec # None, NEW status \in {"completed", "failed", "aborted"},
         FinishPlanRun(status), UNCHANGED <<attached, ids>>
  PROVE  PInv(c)'
<1> DEFINE e == Run(status, Token(plan.latest), run.exec)
           s == Whole(Current, None)
           t == Whole(Current, run.exec)
           g == Flushed(Written(Current, e))
<1>1. /\ run' = Run0 /\ SyncPlanState(None)
      /\ file' = [file EXCEPT ![attached] = g] \/ CommitRaises(e)
  BY DEF FinishPlanRun, CommitNow, Current
<1>2. run'.exec = None /\ ~run'.sole /\ Tooled(run', plan')
  BY <1>1 DEF Run0, Tooled
<1>3. Fits(Current) /\ Sound(Current, ids, c)
  BY AttachedFits DEF PInv, IInv, Current
<1>4. /\ s \in PlanState /\ WellFormed(s, None)
      /\ t \in PlanState /\ WellFormed(t, run.exec)
  BY <1>3, WholeFits
<1>5. /\ run.exec \in 1 .. ids /\ s.phase = "uncertain"
      /\ t = [s EXCEPT !.phase = "executing"] /\ plan = View(t)
  BY RunIsPlan DEF Owns
<1>6. g \in Appends(Current, e)
  BY DEF Appends
<1> HIDE DEF s, t, g
<1>7. /\ t.phase = "executing" /\ t.run = s.run /\ t.latest = s.latest /\ plan.latest = s.latest
  BY <1>4, <1>5 DEF PlanState, View
<1>8. /\ s.latest # None /\ s.run # None /\ s.run.status = "started"
      /\ s.run.token = Token(s.latest) /\ s.run.run = run.exec
  BY <1>4, <1>5, <1>7 DEF WellFormed, Confirmed, Started
<1>9. s.latest \in Revisions /\ s.run \in Runs
  BY <1>4, <1>8 DEF PlanState
<1>10. /\ e \in Runs /\ e.type = "run" /\ e.status = status /\ e.token = Token(s.latest)
       /\ e.run = run.exec
  <2>1. Token(s.latest) \in MaybeId \X Int \X Digests
    BY <1>9 DEF Token, Revisions
  <2>2. run.exec \in MaybeId
    BY RunIs DEF RunStates
  <2>3. e = [type |-> "run", status |-> status, token |-> Token(s.latest), run |-> run.exec]
    BY <1>7 DEF Run
  <2> HIDE DEF e
  <2>4. QED
    BY <2>1, <2>2, <2>3 DEF Runs
<1> HIDE DEF e
<1>11. e \in Entries /\ Names(e, ids) /\ Valid(s, e, Current.parent)
  BY <1>5, <1>8, <1>10 DEF Entries, Names, Valid, ValidRun
<1>12. Sound(g, ids, c)
  BY <1>3, <1>6, <1>11, AppendsSound DEF s
<1>13. CASE file' = [file EXCEPT ![attached] = g]
  BY <1>1, <1>2, <1>12, <1>13, SyncedP
<1>14. CASE CommitRaises(e)
  <2>1. PICK f \in Raised(Current, e) : file' = [file EXCEPT ![attached] = f]
    BY <1>14, RaisingWrites
  <2>2. Sound(f, ids, c)
    BY <1>3, <1>11, RaisedSound DEF s
  <2>3. QED
    BY <1>1, <1>2, <2>1, <2>2, SyncedP
<1>15. QED
  BY <1>1, <1>13, <1>14

\* Retrieval or extraction ends: the first request is made, or a Plan run settles.
LEMMA BeginP ==
  ASSUME IInv, NEW c, PInv(c), Begin
  PROVE  PInv(c)'
<1>1. UNCHANGED <<attached, ids>> /\ run \in RunStates /\ (run.sole => run.call # None)
      /\ (run.pc = "extract" => run.exec # None)
  BY RunIs DEF Begin
<1>2. CASE NextRequest(run)
  BY <1>1, <1>2, NextRequestP
<1>3. CASE /\ run.pc = "extract"
           /\ FinishPlanRun(IF run.planAbort THEN "aborted" ELSE "failed")
  BY <1>1, <1>3, FinishP
<1>4. QED
  BY <1>2, <1>3 DEF Begin

\* A turn ends, and perhaps the run.
LEMMA EndTurnP ==
  ASSUME IInv, NEW c, PInv(c), EndTurn
  PROVE  PInv(c)'
<1> DEFINE next == [run EXCEPT !.call = None, !.sole = FALSE, !.turn = "last"]
<1>1. run \in RunStates /\ UNCHANGED <<attached, ids>> /\ run.pc = "tools"
  BY RunIs DEF EndTurn
<1>2. /\ \/ /\ run' = [next EXCEPT !.pc = "settle", !.tools = {}, !.steer = FALSE]
            /\ UNCHANGED <<file, plan>>
         \/ NextRequest(next)
         \/ run' = [next EXCEPT !.pc = "model"] /\ UNCHANGED <<file, plan>>
  BY DEF EndTurn
<1>3. /\ next \in RunStates /\ next.exec = run.exec /\ ~next.sole /\ next.tools = run.tools
  BY <1>1 DEF RunStates, MaybeId
<1> HIDE DEF next
<1>4. CASE NextRequest(next)
  BY <1>1, <1>3, <1>4, NextRequestP
<1>5. CASE /\ run' = [next EXCEPT !.pc = "settle", !.tools = {}, !.steer = FALSE]
           /\ UNCHANGED <<file, plan>>
  <2>1. run'.exec = run.exec /\ run'.pc = "settle" /\ ~run'.sole /\ run'.tools = {}
    BY <1>3, <1>5 DEF RunStates
  <2>2. Tooled(run', plan)
    BY <2>1 DEF Tooled
  <2>3. QED
    BY <1>1, <1>5, <2>1, <2>2, RunOnlyP
<1>6. CASE run' = [next EXCEPT !.pc = "model"] /\ UNCHANGED <<file, plan>>
  <2>1. run'.exec = run.exec /\ run'.pc = "model" /\ ~run'.sole /\ run'.tools = run.tools
    BY <1>3, <1>6 DEF RunStates
  <2>2. Tooled(run', plan)
    BY <2>1, RunIs DEF Tooled
  <2>3. QED
    BY <1>1, <1>6, <2>1, <2>2, RunOnlyP
<1>7. QED
  BY <1>2, <1>4, <1>5, <1>6

\* A call that is done leaves the rest as it was.
LEMMA DoneIs ==
  ASSUME run \in RunStates, NEW ends
  PROVE  /\ Done(ends).exec = run.exec /\ Done(ends).pc = run.pc
         /\ Done(ends).tools = run.tools /\ Done(ends).sole = run.sole
         /\ Done(ends).call = run.call /\ Done(ends).future = run.future
<1> DEFINE rest == Tail(run.todo)
           turn == IF ends THEN run.turn ELSE "goes on"
<1>1. Done(ends) = [run EXCEPT !.todo = rest, !.turn = turn]
  BY DEF Done
<1> HIDE DEF rest, turn
<1>2. QED
  BY <1>1 DEF RunStates

\* A step within a turn that leaves branch and plan alone.
LEMMA WithinTurnP ==
  ASSUME IInv, NEW c, PInv(c), UNCHANGED <<file, attached, plan, ids>>,
         run'.exec = run.exec, run'.tools = run.tools, run'.sole = run.sole,
         run'.call = run.call,
         run'.pc = run.pc \/ run'.pc \in {"model", "tools", "question", "settle"}
  PROVE  PInv(c)'
<1>1. Tooled(run', plan)
  BY RunIs DEF Tooled
<1>2. /\ run'.exec # None => run'.pc # "idle"
      /\ run'.sole => run'.call # None
  BY RunIs
<1>3. QED
  BY <1>1, <1>2, RunOnlyP

\* A run that is not of a plan ends, or one begins, without a word.
LEMMA IdleP ==
  ASSUME IInv, NEW c, PInv(c), run.exec = None, UNCHANGED <<file, attached, plan, ids>>,
         run' = Run0 \/ run' = [Run0 EXCEPT !.pc = "retrieve"]
  PROVE  PInv(c)'
<1>1. run'.exec = None /\ ~run'.sole /\ run'.tools = {}
  BY DEF Run0
<1>2. Tooled(run', plan)
  BY <1>1 DEF Tooled
<1>3. QED
  BY <1>1, <1>2, RunOnlyP

\* The tool that asked goes on with the answer.
LEMMA QuestionReturnsP ==
  ASSUME IInv, NEW c, PInv(c), QuestionReturns
  PROVE  PInv(c)'
<1> DEFINE d == Done(run.future # "answered")
<1>1. /\ UNCHANGED <<file, attached, plan, ids>> /\ run.todo # <<>>
      /\ run' = [d EXCEPT !.pc = "tools", !.future = None]
  BY AttachedFits DEF QuestionReturns, RunStands
<1>2. /\ d.exec = run.exec /\ d.tools = run.tools /\ d.sole = run.sole
      /\ d.call = run.call /\ d \in RunStates
  BY <1>1, RunIs, DoneIs, DoneStands
<1> HIDE DEF d
<1>3. /\ run'.exec = run.exec /\ run'.tools = run.tools /\ run'.sole = run.sole
      /\ run'.call = run.call /\ run'.pc = "tools"
  BY <1>1, <1>2 DEF RunStates
<1>4. QED
  BY <1>1, <1>3, WithinTurnP

\* How a Plan run ended.
LEMMA StatusIs == Status \in {"completed", "failed", "aborted"}
BY DEF Status

\* A run settles: its last entry is appended.
LEMMA SettleP ==
  ASSUME IInv, NEW c, PInv(c), Settle
  PROVE  PInv(c)'
<1>1. UNCHANGED <<attached, ids>>
  BY DEF Settle
<1>2. CASE run.exec = None
  BY <1>1, <1>2, IdleP DEF Settle
<1>3. CASE run.exec # None
  BY <1>1, <1>3, FinishP, StatusIs DEF Settle
<1>4. QED
  BY <1>2, <1>3

\* The user aborts.
LEMMA AbortP ==
  ASSUME IInv, NEW c, PInv(c), Abort
  PROVE  PInv(c)'
<1> DEFINE planAbort == run.planAbort \/ plan.phase = "executing"
           abort == run.abort \/ AgentRuns
<1>1. /\ run' = [run EXCEPT !.planAbort = planAbort, !.abort = abort]
      /\ UNCHANGED <<file, attached, plan, ids>>
  BY DEF Abort
<1> HIDE DEF planAbort, abort
<1>2. /\ run'.exec = run.exec /\ run'.tools = run.tools /\ run'.sole = run.sole
      /\ run'.call = run.call /\ run'.pc = run.pc
  BY <1>1, RunIs DEF RunStates
<1>3. QED
  BY <1>1, <1>2, WithinTurnP

\* The user steers.
LEMMA SteerP ==
  ASSUME IInv, NEW c, PInv(c), Steer
  PROVE  PInv(c)'
<1>1. run' = [run EXCEPT !.steer = TRUE] /\ UNCHANGED <<file, attached, plan, ids>>
  BY DEF Steer
<1>2. /\ run'.exec = run.exec /\ run'.tools = run.tools /\ run'.sole = run.sole
      /\ run'.call = run.call /\ run'.pc = run.pc
  BY <1>1, RunIs DEF RunStates
<1>3. QED
  BY <1>1, <1>2, WithinTurnP

\* The user prompts, without a plan.
LEMMA PromptP ==
  ASSUME IInv, NEW c, PInv(c), Prompt
  PROVE  PInv(c)'
BY IdleP DEF Prompt, Free

\* The task that drives the run is cancelled.
LEMMA CancelTaskP ==
  ASSUME IInv, NEW c, PInv(c), CancelTask
  PROVE  PInv(c)'
<1> DEFINE d == Done(FALSE)
<1>1. UNCHANGED <<attached, ids>> /\ run \in RunStates
  BY RunIs DEF CancelTask
<1>2. CASE /\ run.todo # <<>> /\ UNCHANGED <<file, plan>>
           /\ run' = [d EXCEPT !.pc = "tools", !.future = None, !.abort = TRUE]
  <2>1. /\ d.exec = run.exec /\ d.tools = run.tools /\ d.sole = run.sole
        /\ d.call = run.call /\ d \in RunStates
    BY <1>1, <1>2, DoneIs, DoneStands
  <2> HIDE DEF d
  <2>2. /\ run'.exec = run.exec /\ run'.tools = run.tools /\ run'.sole = run.sole
        /\ run'.call = run.call /\ run'.pc = "tools"
    BY <1>2, <2>1 DEF RunStates
  <2>3. QED
    BY <1>1, <1>2, <2>2, WithinTurnP
<1>3. CASE run.exec = None /\ run' = Run0 /\ UNCHANGED <<file, plan>>
  BY <1>1, <1>3, IdleP
<1>4. CASE run.exec # None /\ FinishPlanRun("aborted")
  BY <1>1, <1>4, FinishP
<1>5. QED
  BY <1>2, <1>3, <1>4 DEF CancelTask

-----------------------------------------------------------------------------
(* The controls of the user.                                               *)

\* Between prompts nothing runs.
LEMMA FreeIs ==
  ASSUME IInv, NEW c, PInv(c), Free
  PROVE  /\ run.exec = None /\ run.pc = "idle" /\ (run.sole => run.call # None)
         /\ \A p : Tooled(run, p)
<1>1. run.exec = None /\ run.pc = "idle"
  BY RunIs DEF Free, Processing, AgentRuns, RunStates
<1>2. QED
  BY <1>1, RunIs DEF Tooled

\* Without a Plan run the cached state is that of the branch, or the branch is
\* damaged; its ids are known.
LEMMA PlanTypes ==
  ASSUME IInv, NEW c, PInv(c)
  PROVE  /\ plan.plan \in MaybeId /\ plan.question \in MaybeId
         /\ plan.latest \in Revisions \cup {None}
         /\ plan.mode = "plan" => run.exec = None
         /\ plan.phase = "recovery_error" => run.exec = None
<1>1. PICK s \in PlanState : WellFormed(s, run.exec) /\ plan = View(s)
  BY PlanIs
<1>2. plan.plan = s.plan /\ plan.question = s.question /\ plan.latest = s.latest
  BY <1>1 DEF View
<1>3. /\ plan.mode = "plan" => run.exec = None
      /\ plan.phase = "recovery_error" => run.exec = None
  BY RunIsPlan
<1>4. s.plan \in MaybeId /\ s.question \in MaybeId /\ s.latest \in Revisions \cup {None}
  BY <1>1 DEF PlanState
<1>5. QED
  BY <1>2, <1>3, <1>4

\* What blocks has blocked the branch.
LEMMA BlockedIsHurt ==
  ASSUME IInv, NEW c, PInv(c), plan.phase = "recovery_error"
  PROVE  ~Unhurt(Current) /\ (c = "clean" => ~Undamaged(Current))
<1>1. run.exec = None
  BY PlanTypes
<1>2. ~Unhurt(Current)
  BY <1>1, PlanIsBranch
<1>3. Sound(Current, ids, c)
  BY DEF PInv, IInv, Current
<1>4. QED
  BY <1>2, <1>3, WholeFits

\* The next id has not been handed out.
LEMMA FreshId ==
  ASSUME IInv, ids < MaxIds
  PROVE  /\ ids \in Nat /\ ids + 1 \in Id /\ ids + 1 # None /\ ids + 1 \in 1 .. ids + 1
         /\ ids + 1 \notin 1 .. ids
BY BoundAssumption, IdAssumption DEF IInv

\* A write raises, and Plan State does not follow, while it is drafted or asked about.
LEMMA UnseenP ==
  ASSUME IInv, NEW c, PInv(c), NEW e \in Entries, CommitRaises(e), UNCHANGED <<attached, plan>>,
         ids' \in {ids, ids + 1}, Names(e, ids'), run'.exec = run.exec,
         plan.mode = "plan", plan.phase \in {"drafting", "awaiting_answer"},
         c = "clean" /\ Undamaged(Current) => Valid(Whole(Current, None), e, Current.parent),
         run'.sole => run'.call # None, Tooled(run', plan)
  PROVE  PInv(c)'
<1>1. PICK g \in Raised(Current, e) : file' = [file EXCEPT ![attached] = g]
  BY RaisingWrites
<1>2. Fits(Current) /\ Sound(Current, ids', c)
  BY MoreIds, AttachedFits
<1>3. Sound(g, ids', c)
  BY <1>1, <1>2, RaisedSound
<1>4. run.exec = None
  BY PlanTypes
<1>5. PICK s \in PlanState : WellFormed(s, None) /\ plan = View(s)
  BY <1>4, PlanIs
<1>6. s.phase = plan.phase
  BY <1>5 DEF View
<1>7. Attuned(plan', g, run'.exec)
  BY <1>4, <1>5, <1>6 DEF Attuned
<1>8. QED
  BY <1>1, <1>3, <1>4, <1>7, BranchP

\* The user's switches between the modes.
LEMMA ModeEntries ==
  ASSUME NEW p \in MaybeId, NEW mode \in {"plan", "default"},
         NEW reason \in {"user", "handoff"}, NEW related \in MaybeSession,
         NEW e, e = ModeChange(mode, p, reason, related)
  PROVE  /\ e \in Entries /\ e.type = "mode" /\ e.mode = mode /\ e.plan = p
         /\ e.reason = reason /\ e.related = related
<1>1. e \in ModeChanges
  BY DEF ModeChange, ModeChanges
<1>2. QED
  BY <1>1 DEF Entries, ModeChange

\* The user enters Plan Mode, perhaps out of recovery, perhaps half way.
LEMMA EnterP ==
  ASSUME IInv, NEW c, PInv(c), EnterPlanMode
  PROVE  PInv(c)'
<1> DEFINE exit == ModeChange("default", plan.plan, "user", None)
           enter == ModeChange("plan", ids + 1, "user", None)
           left == IF plan.phase = "recovery_error" THEN Written(Current, exit) ELSE Current
           entered == Written(left, enter)
<1>1. /\ Free /\ MayEnter /\ UNCHANGED <<attached, run>> /\ ids < MaxIds /\ ids' = ids + 1
      /\ \/ file' = [file EXCEPT ![attached] = entered] /\ SyncPlanState(None)
         \/ AppendRaises /\ plan' = plan
         \/ /\ \E g \in FailedWrites(left) : file' = [file EXCEPT ![attached] = g]
            /\ plan' = plan /\ plan.phase = "recovery_error"
  BY DEF EnterPlanMode, WriteRaises
<1>2. Fits(Current) /\ Sound(Current, ids, c) /\ Sound(Current, ids', c)
  BY <1>1, MoreIds, AttachedFits
<1>3. /\ run'.exec = None /\ (run'.sole => run'.call # None) /\ run.exec = None
      /\ \A p : Tooled(run', p)
  BY <1>1, FreeIs
<1>4. /\ exit \in Entries /\ exit.type = "mode" /\ exit.mode = "default"
  BY PlanTypes, ModeEntries DEF MaybeSession
<1>5. /\ enter \in Entries /\ enter.type = "mode" /\ enter.mode = "plan"
      /\ enter.plan = ids + 1 /\ enter.reason = "user" /\ enter.related = None
  BY <1>1, FreshId, ModeEntries DEF MaybeId, MaybeSession
<1>6. Names(exit, ids') /\ Names(enter, ids')
  BY <1>1, <1>4, <1>5, FreshId DEF Names
<1>7. entered \in Appends(left, enter) /\ Written(Current, exit) \in Appends(Current, exit)
  BY DEF Appends
<1> HIDE DEF exit, enter, entered
<1>8. CASE AppendRaises /\ plan' = plan
  BY <1>1, <1>3, <1>8, NothingSaidP DEF AppendRaises, WriteRaises
<1>9. CASE plan.phase = "recovery_error" /\ ~(AppendRaises /\ plan' = plan)
  <2>1. left = Written(Current, exit) /\ ~Unhurt(Current) /\ (c = "clean" => ~Undamaged(Current))
    BY <1>9, BlockedIsHurt
  <2> HIDE DEF left
  <2>2. Fits(left)
    BY <1>2, <2>1, WrittenFits
  <2>3. Sound(left, ids', c) /\ ~Unhurt(left) /\ (c = "clean" => ~Undamaged(left))
    BY <1>2, <1>4, <1>6, <1>7, <2>1, AppendsSound
  <2>4. Sound(entered, ids', c)
    BY <1>5, <1>6, <1>7, <2>2, <2>3, AppendsSound
  <2>5. CASE file' = [file EXCEPT ![attached] = entered] /\ SyncPlanState(None)
    BY <1>1, <1>3, <2>4, <2>5, SyncedP
  <2>6. CASE (\E g \in FailedWrites(left) : file' = [file EXCEPT ![attached] = g]) /\ plan' = plan
    <3>1. PICK s \in PlanState : WellFormed(s, None) /\ plan = View(s)
      BY <1>3, PlanIs
    <3>2. s.phase = "recovery_error"
      BY <1>9, <3>1 DEF View
    <3>3. PICK g \in FailedWrites(left) : file' = [file EXCEPT ![attached] = g]
      BY <2>6
    <3>4. Sound(g, ids', c) /\ ~Unhurt(g)
      BY <2>2, <2>3, <3>3, FlushedSound
    <3>5. Attuned(plan', g, run'.exec)
      BY <1>3, <2>6, <3>1, <3>2, <3>4 DEF Attuned
    <3>6. QED
      BY <1>1, <1>3, <2>6, <3>3, <3>4, <3>5, BranchP
  <2>7. QED
    BY <1>1, <1>9, <2>5, <2>6
<1>10. CASE plan.phase # "recovery_error" /\ ~(AppendRaises /\ plan' = plan)
  <2>1. left = Current
    BY <1>10
  <2> HIDE DEF left
  <2>2. PICK s \in PlanState :
          /\ WellFormed(s, None) /\ plan = View(s)
          /\ plan.phase \notin {"drafting", "awaiting_answer", "recovery_error"} =>
               s = Whole(Current, None) /\ Known(s, ids)
    BY <1>3, PlanIsBranch
  <2>3. s.mode # "plan" /\ s.phase # "executing" /\ s = Whole(Current, None) /\ Known(s, ids)
    BY <1>1, <1>10, <2>2 DEF View, MayEnter, WellFormed
  <2>4. ids + 1 \notin s.plans /\ ids + 1 # None
    BY <1>1, <2>3, FreshId DEF Known
  <2>5. Valid(s, enter, Current.parent)
    BY <1>5, <2>3, <2>4 DEF Valid, ValidModeChange, ValidRelation
  <2>6. Sound(entered, ids', c)
    BY <1>2, <1>5, <1>6, <1>7, <2>1, <2>3, <2>5, AppendsSound
  <2>7. QED
    BY <1>1, <1>3, <1>10, <2>6, SyncedP
<1>11. QED
  BY <1>8, <1>9, <1>10

\* The user cancels the plan, and the question it waits for.
LEMMA CancelP ==
  ASSUME IInv, NEW c, PInv(c), Seen(c), CancelPlanMode
  PROVE  PInv(c)'
<1> DEFINE e == ModeChange("default", plan.plan, "user", None)
           future == IF run.future = "pending" THEN "cancelled" ELSE run.future
           g == Written(Current, e)
<1>1. /\ attached' = attached /\ ids' = ids /\ run.exec = None
      /\ run' = [run EXCEPT !.future = future]
      /\ plan.mode = "plan" \/ plan.phase = "uncertain"
      /\ \/ file' = [file EXCEPT ![attached] = g] /\ SyncPlanState(None)
         \/ AppendRaises /\ plan' = plan
  BY DEF CancelPlanMode, Commit, Current
<1>2. /\ run'.exec = run.exec /\ run'.tools = run.tools /\ run'.sole = run.sole
      /\ run'.call = run.call /\ run'.pc = run.pc
  BY <1>1, RunIs DEF RunStates
<1>3. /\ e \in Entries /\ e.type = "mode" /\ e.mode = "default" /\ e.plan = plan.plan
      /\ e.reason = "user" /\ e.related = None
  BY PlanTypes, ModeEntries DEF MaybeSession
<1>4. g \in Appends(Current, e)
  BY DEF Appends
<1>8. "develop" \notin run'.tools /\ (run'.sole => run'.call # None)
  BY <1>1, <1>2, RunIs DEF Tooled
<1> HIDE DEF e, g, future
<1>5. CASE AppendRaises /\ plan' = plan
  <2>1. Tooled(run', plan)
    BY <1>8 DEF Tooled
  <2>2. PICK f \in FailedWrites(Current) : file' = [file EXCEPT ![attached] = f]
    BY <1>5 DEF AppendRaises, WriteRaises
  <2>3. QED
    BY <1>1, <1>2, <1>5, <1>8, <2>1, <2>2, NothingSaidP
<1>6. CASE file' = [file EXCEPT ![attached] = g] /\ SyncPlanState(None)
  <2> DEFINE s == Whole(Current, None)
  <2>2. ASSUME c = "clean", Undamaged(Current) PROVE Valid(s, e, Current.parent)
    <3>1. s \in PlanState /\ WellFormed(s, None) /\ plan = View(s) /\ plan.phase # "recovery_error"
      BY <1>1, <2>2, SeenIsBranch
    <3> HIDE DEF s
    <3>2. s.mode = plan.mode /\ s.phase = plan.phase /\ s.plan = plan.plan
      BY <3>1 DEF View
    <3>3. ValidModeChange(s, e)
      BY <1>1, <1>3, <3>1, <3>2 DEF ValidModeChange, WellFormed
    <3>4. QED
      BY <1>3, <3>3 DEF Valid, ValidRelation
  <2>3. Fits(Current) /\ Sound(Current, ids', c) /\ Names(e, ids')
    BY <1>1, <1>3, MoreIds, AttachedFits DEF Names
  <2>4. Sound(g, ids', c)
    BY <1>3, <1>4, <2>2, <2>3, AppendsSound
  <2>6. Tooled(run', plan')
    BY <1>8 DEF Tooled
  <2>8. QED
    BY <1>1, <1>2, <1>6, <1>8, <2>4, <2>6, SyncedP
<1>7. QED
  BY <1>1, <1>5, <1>6

\* The user answers, to a live question or with a prompt.
LEMMA AnswerP ==
  ASSUME IInv, NEW c, PInv(c), Seen(c), AnswerPlanQuestion
  PROVE  PInv(c)'
<1> DEFINE e == Answer(plan.plan, plan.question)
           g == Flushed(Written(Current, e))
           s == Whole(Current, None)
<1>1. /\ attached' = attached /\ ids' = ids
      /\ plan.mode = "plan" /\ plan.question # None
      /\ \/ /\ file' = [file EXCEPT ![attached] = g] /\ SyncPlanState(run.exec)
            /\ \/ run' = [run EXCEPT !.future = "answered"]
               \/ run' = run
               \/ run' = [Run0 EXCEPT !.pc = "retrieve"]
         \/ CommitRaises(e) /\ UNCHANGED <<plan, run>>
  BY DEF AnswerPlanQuestion, CommitNow, Current
<1>2. run.exec = None
  BY <1>1, PlanTypes
<1>3. \/ /\ run'.exec = run.exec /\ run'.tools = run.tools
         /\ run'.sole = run.sole /\ run'.call = run.call
      \/ run'.exec = None /\ ~run'.sole /\ run'.tools = {}
  <2>1. CASE run' = [run EXCEPT !.future = "answered"]
    BY <2>1, RunIs DEF RunStates
  <2>2. CASE run' = [Run0 EXCEPT !.pc = "retrieve"]
    BY <2>2 DEF Run0
  <2>3. QED
    BY <1>1, <2>1, <2>2
<1>4. e \in Answers /\ e.type = "answer" /\ e.plan = plan.plan /\ e.question = plan.question
  BY <1>1, PlanTypes DEF Answer, Answers, MaybeId
<1>5. g \in Appends(Current, e)
  BY DEF Appends
<1> HIDE DEF e, g
<1>6. plan.phase = "awaiting_answer"
  <2>1. PICK t \in PlanState : WellFormed(t, None) /\ plan = View(t)
    BY <1>2, PlanIsBranch
  <2>2. t.question = plan.question /\ t.phase = plan.phase
    BY <2>1 DEF View
  <2>3. QED
    BY <1>1, <2>1, <2>2 DEF WellFormed
<1>7. ASSUME c = "clean", Undamaged(Current) PROVE Valid(s, e, Current.parent)
  <2>1. plan = View(s)
    BY <1>2, <1>7, SeenIsBranch
  <2> HIDE DEF s
  <2>2. /\ s.mode = plan.mode /\ s.plan = plan.plan /\ s.question = plan.question
        /\ s.phase = plan.phase
    BY <2>1 DEF View
  <2>3. QED
    BY <1>1, <1>4, <1>6, <2>2 DEF Valid, ValidAnswer
<1>8. Fits(Current) /\ Sound(Current, ids', c) /\ Names(e, ids') /\ e \in Entries
  BY <1>1, <1>4, MoreIds, AttachedFits DEF Names, Entries
<1>10. "develop" \notin run'.tools
  BY <1>1, <1>3, RunIs DEF Tooled
<1>11. Tooled(run', plan') /\ Tooled(run', plan)
  BY <1>10 DEF Tooled
<1>12. (run'.sole => run'.call # None) /\ run'.exec = None
  BY <1>2, <1>3, RunIs
<1>13. CASE file' = [file EXCEPT ![attached] = g] /\ SyncPlanState(run.exec)
  <2>1. Sound(g, ids', c)
    BY <1>5, <1>7, <1>8, AppendsSound
  <2>2. QED
    BY <1>1, <1>2, <1>11, <1>12, <1>13, <2>1, SyncedP
<1>14. CASE CommitRaises(e) /\ UNCHANGED <<plan, run>>
  BY <1>1, <1>2, <1>6, <1>7, <1>8, <1>11, <1>12, <1>14, UnseenP
<1>15. QED
  BY <1>1, <1>13, <1>14

\* A run that no entry names makes no difference to what the branch says.
LEMMA WholeOfOthers ==
  ASSUME NEW f, Len(f.log) \in Nat, NEW live,
         \A i \in 1 .. Len(f.log) : f.log[i].type = "run" => f.log[i].run # live
  PROVE  Whole(f, live) = Whole(f, None)
BY AfterOfOthers DEF Whole

\* The entry that starts a run is uncertain to all but the process that owns it.
LEMMA StartedStep ==
  ASSUME NEW parent, NEW s \in PlanState, ~s.blocked, NEW e, e.type = "run",
         e.status = "started", Valid(s, e, parent), NEW live, live # None, e.run = live
  PROVE  /\ Step(s, e, parent, None).phase = "uncertain"
         /\ Step(s, e, parent, live) =
              [Step(s, e, parent, None) EXCEPT !.phase = "executing"]
<1> DEFINE a == OnRun(s, e, None)
           b == OnRun(s, e, live)
           m == s.len + 1
<1>1. StartedPhase(e, None) = "uncertain" /\ StartedPhase(e, live) = "executing"
  BY DEF StartedPhase
<1>2. /\ a = [s EXCEPT !.mode = "default", !.question = None, !.run = e,
                       !.runs = @ \cup {e.run}, !.phase = "uncertain"]
      /\ b = [s EXCEPT !.mode = "default", !.question = None, !.run = e,
                       !.runs = @ \cup {e.run}, !.phase = "executing"]
  BY <1>1 DEF OnRun
<1>3. Accept(s, e, None) = a /\ Accept(s, e, live) = b
  BY DEF Accept
<1> HIDE DEF a, b
<1>4. /\ Step(s, e, parent, None) = [a EXCEPT !.last = e, !.len = m]
      /\ Step(s, e, parent, live) = [b EXCEPT !.last = e, !.len = m]
  BY <1>3 DEF Step
<1> HIDE DEF m
<1>5. /\ [a EXCEPT !.last = e, !.len = m].phase = "uncertain"
      /\ [b EXCEPT !.last = e, !.len = m] =
           [[a EXCEPT !.last = e, !.len = m] EXCEPT !.phase = "executing"]
  BY <1>2 DEF PlanState
<1>6. QED
  BY <1>4, <1>5

\* The user confirms a revision, and its run owns the session, unless a write raises.
LEMMA ExecuteP ==
  ASSUME IInv, NEW c, PInv(c), NEW token, ExecutePlan(token)
  PROVE  PInv(c)'
<1> DEFINE live == ids + 1
           e == Run("started", token, live)
           g == Flushed(Written(Current, e))
           s == Whole(Current, None)
<1>1. /\ Free /\ attached' = attached /\ ids' = ids + 1 /\ ids < MaxIds
      /\ plan.mode = "plan" /\ plan.phase = "ready" /\ token = Token(plan.latest)
      /\ \/ /\ file' = [file EXCEPT ![attached] = g] /\ SyncPlanState(live)
            /\ run' = [Run0 EXCEPT !.pc = "extract", !.exec = live]
         \/ AppendRaises /\ UNCHANGED <<plan, run>>
         \/ FlushRaises(e) /\ SyncPlanState(None) /\ run' = run
  BY DEF ExecutePlan, Confirms, CommitNow, Owning, StartRaises, Current
<1>2. g \in Appends(Current, e)
  BY DEF Appends
<1>3. live \in Id /\ live # None /\ live \notin 1 .. ids /\ live \in 1 .. ids'
  BY <1>1, FreshId
<1>5. run.exec = None /\ (run.sole => run.call # None) /\ \A p : Tooled(run, p)
  BY <1>1, FreeIs
<1>6. /\ s \in PlanState /\ WellFormed(s, None) /\ plan = View(s) /\ Known(s, ids)
  BY <1>1, <1>5, PlanIsBranch
<1>7. Fits(Current) /\ Sound(Current, ids, c) /\ Sound(Current, ids', c)
  BY <1>1, MoreIds, AttachedFits
<1>8. Whole(Current, live) = s
  <2>1. /\ Len(Current.log) \in Nat
        /\ \A i \in 1 .. Len(Current.log) :
             Current.log[i].type = "run" => Current.log[i].run # live
    BY <1>3, <1>7 DEF Sound, Names
  <2>2. QED
    BY <2>1, WholeOfOthers
<1> HIDE DEF live, e, g, s
<1>9. /\ s.mode = "plan" /\ s.phase = "ready" /\ plan.latest = s.latest
  BY <1>1, <1>6 DEF View
<1>10. s.latest # None /\ s.latest \in Revisions /\ ~s.blocked /\ live \notin s.runs
  BY <1>3, <1>6, <1>9 DEF WellFormed, Confirmed, PlanState, Known
<1>11. /\ e \in Runs /\ e.type = "run" /\ e.status = "started" /\ e.token = Token(s.latest)
       /\ e.run = live
  <2>1. Token(s.latest) \in MaybeId \X Int \X Digests
    BY <1>10 DEF Token, Revisions
  <2>2. live \in MaybeId
    BY <1>3 DEF MaybeId
  <2>3. e = [type |-> "run", status |-> "started", token |-> Token(s.latest), run |-> live]
    BY <1>1, <1>9 DEF Run, e
  <2>4. QED
    BY <2>1, <2>2, <2>3 DEF Runs
<1>12. e \in Entries /\ Names(e, ids') /\ Valid(s, e, Current.parent)
  BY <1>3, <1>9, <1>10, <1>11 DEF Entries, Names, Valid, ValidRun, IsNewRun
<1>13. /\ Sound(g, ids', c)
       /\ \A l : Whole(g, l) = Step(Whole(Current, l), e, Current.parent, l)
  BY <1>2, <1>7, <1>12, AppendsSound DEF s
<1>14. /\ Whole(g, None) = Step(s, e, Current.parent, None)
       /\ Whole(g, live) = Step(s, e, Current.parent, live)
  <2>1. Whole(Current, None) = s
    BY DEF s
  <2>2. QED
    BY <1>8, <1>13, <2>1
<1>15. Owns(live, g, ids')
  BY <1>3, <1>6, <1>10, <1>11, <1>12, <1>14, StartedStep DEF Owns
<1>17. NowhereElse(live, file, attached)
  <2>1. SUFFICES ASSUME NEW t \in SessionId, NEW i \in 1 .. Len(file[t].log),
                        file[t].log[i].type = "run"
                 PROVE  file[t].log[i].run # live
    BY DEF NowhereElse
  <2>2. Sound(file[t], ids, c)
    BY DEF PInv
  <2>3. QED
    BY <1>3, <2>1, <2>2 DEF Sound, Names
<1>18. CASE /\ file' = [file EXCEPT ![attached] = g] /\ SyncPlanState(live)
            /\ run' = [Run0 EXCEPT !.pc = "extract", !.exec = live]
  <2>1. /\ run'.exec = live /\ run'.pc = "extract" /\ ~run'.sole /\ run'.tools = {}
    BY <1>18 DEF Run0
  <2>2. Attuned(plan', g, run'.exec)
    BY <1>1, <1>13, <1>18, <2>1, Syncing DEF Attuned
  <2>3. Tooled(run', plan')
    BY <2>1 DEF Tooled
  <2>4. QED
    BY <1>1, <1>13, <1>15, <1>17, <1>18, <2>1, <2>2, <2>3, BranchP
<1>19. CASE AppendRaises /\ UNCHANGED <<plan, run>>
  <2>1. PICK f \in FailedWrites(Current) : file' = [file EXCEPT ![attached] = f]
    BY <1>19 DEF AppendRaises, WriteRaises
  <2>2. QED
    BY <1>1, <1>5, <1>19, <2>1, NothingSaidP
<1>20. CASE FlushRaises(e) /\ SyncPlanState(None) /\ run' = run
  <2>1. PICK f \in Raised(Current, e) : file' = [file EXCEPT ![attached] = f]
    BY <1>20, RaisingWrites
  <2>2. Sound(f, ids', c)
    BY <1>7, <1>12, <2>1, RaisedSound DEF s
  <2>3. QED
    BY <1>1, <1>5, <1>20, <2>1, <2>2, SyncedP
<1>21. QED
  BY <1>1, <1>18, <1>19, <1>20

\* One file is replaced by a sound one.
LEMMA UpdatedSound ==
  ASSUME NEW files, AllFit(files), NEW k, NEW c, \A t \in SessionId : Sound(files[t], k, c),
         NEW s \in SessionId, NEW g, Sound(g, k, c), NEW others, others = [files EXCEPT ![s] = g]
  PROVE  \A t \in SessionId : Sound(others[t], k, c)
BY DEF AllFit

\* Every session is sound, and the program goes on in one of them.
LEMMA MovedP ==
  ASSUME IInv, NEW c, PInv(c), \A t \in SessionId : Sound(file'[t], ids, c), ids' = ids,
         \E t \in SessionId : Attach(t)
  PROVE  PInv(c)'
BY AttachingP

\* The plan is handed to a child, or only part of it is.
LEMMA HandoffP ==
  ASSUME IInv, UInv, NEW c, PInv(c), NEW token, NEW s \in SessionId, HandoffPlan(token, s)
  PROVE  PInv(c)'
<1> DEFINE draft == Draft(attached, plan.latest)
           review == Review(attached, plan.latest)
           child == [file EXCEPT ![s] = review]
           handed == ModeChange("default", plan.plan, "handoff", s)
           done == Written(Flushed(Current), handed)
           crashed == Recovered(Current, FALSE)
<1>1. /\ Free /\ plan.mode = "plan" /\ plan.phase = "ready" /\ ids' = ids /\ ~file[s].used
      /\ \/ /\ file' = [child EXCEPT ![attached] = Written(Flushed(child[attached]), handed)]
            /\ \/ \E t \in SessionId : Attach(t)
               \/ SyncPlanState(None) /\ UNCHANGED <<attached, run>>
         \/ /\ \/ \E f \in FailedWrites(draft) : file' = [file EXCEPT ![s] = Recovered(f, FALSE)]
               \/ \E f \in FailedWrites(Current) : file' = [child EXCEPT ![attached] = f]
            /\ UNCHANGED <<attached, plan, run>>
         \/ /\ file' = [child EXCEPT ![attached] = Recovered(child[attached], FALSE)]
            /\ \E t \in SessionId : Attach(t)
  BY DEF HandoffPlan, Confirms
<1>2. /\ AllFit(file) /\ attached \in SessionId /\ s # attached /\ ids \in Nat
      /\ \A t \in SessionId : Sound(file[t], ids, c)
  BY <1>1, BoundAssumption DEF IInv, UInv, PInv
<1>3. child[attached] = Current
  BY <1>2 DEF AllFit, Current
<1>4. /\ run.exec = None /\ (run.sole => run.call # None) /\ \A p : Tooled(run, p)
  BY <1>1, FreeIs
<1>5. PICK p \in PlanState :
        WellFormed(p, None) /\ plan = View(p) /\ p = Whole(Current, None) /\ Known(p, ids)
  BY <1>1, <1>4, PlanIsBranch
<1>6. /\ p.mode = "plan" /\ p.phase = "ready" /\ plan.latest = p.latest /\ plan.plan = p.plan
  BY <1>1, <1>5 DEF View
<1>7. /\ p.latest \in Revisions /\ p.latest # None /\ p.latest.plan = p.plan /\ p.plan # None
      /\ p.latest.number >= 1 /\ p.latest.call # None /\ p.plan \in 1 .. ids
  BY <1>5, <1>6 DEF WellFormed, Confirmed, Intact, PlanState, Known
<1>8. Sound(review, ids, c) /\ Fits(review) /\ Sound(draft, ids, c) /\ Fits(draft)
  <2>1. plan.latest \in Revisions
    BY <1>6, <1>7
  <2>2. QED
    BY <1>2, <1>6, <1>7, <2>1, ReviewSound, ReviewFits, DraftFits
<1> HIDE DEF review, draft
<1>9. AllFit(child) /\ \A t \in SessionId : Sound(child[t], ids, c)
  BY <1>2, <1>8, Updated, UpdatedSound
<1>10. /\ handed \in Entries /\ handed.type = "mode" /\ handed.mode = "default"
       /\ handed.plan = plan.plan /\ handed.reason = "handoff" /\ handed.related = s
  BY PlanTypes, ModeEntries DEF MaybeSession
<1>11. done \in Appends(Current, handed)
  BY DEF Appends
<1>12. Fits(Current) /\ Sound(Current, ids, c) /\ Names(handed, ids)
  BY <1>2, <1>10, AttachedFits DEF Names, Current
<1> HIDE DEF child, handed, done
<1>13. s # None
  BY IdAssumption
<1>14. Valid(p, handed, Current.parent)
  BY <1>6, <1>10, <1>13 DEF Valid, ValidModeChange, ValidRelation
<1>15. Sound(done, ids, c)
  BY <1>5, <1>10, <1>11, <1>12, <1>14, AppendsSound
<1>16. Sound(crashed, ids, c)
  BY <1>12, RecoveredSound
<1> HIDE DEF crashed
<1>22. CASE /\ \E f \in FailedWrites(draft) : file' = [file EXCEPT ![s] = Recovered(f, FALSE)]
            /\ UNCHANGED <<attached, plan, run>>
  <2>1. PICK f \in FailedWrites(draft) : file' = [file EXCEPT ![s] = Recovered(f, FALSE)]
    BY <1>22
  <2>2. Fits(f) /\ Sound(f, ids, c)
    BY <1>8, <2>1, FailedWritesFit, FlushedSound
  <2> DEFINE g == Recovered(f, FALSE)
  <2>3. Sound(g, ids, c)
    BY <2>2, RecoveredSound
  <2>4. file' = [file EXCEPT ![s] = g]
    BY <2>1
  <2> HIDE DEF g
  <2>5. \A t \in SessionId : Sound(file'[t], ids, c)
    BY <1>2, <2>3, <2>4, UpdatedSound
  <2>6. file'[attached] = file[attached]
    BY <1>2, <2>4 DEF AllFit
  <2>7. QED
    BY <1>1, <1>4, <1>22, <2>5, <2>6 DEF PInv, Running
<1>23. CASE /\ \E f \in FailedWrites(Current) : file' = [child EXCEPT ![attached] = f]
            /\ UNCHANGED <<attached, plan, run>>
  <2>1. PICK f \in FailedWrites(Current) : file' = [child EXCEPT ![attached] = f]
    BY <1>23
  <2>2. Sound(f, ids, c) /\ Attuned(plan, f, run.exec)
    BY <2>1, UnreadP
  <2>3. \A t \in SessionId : Sound(file'[t], ids, c)
    BY <1>2, <1>9, <2>1, <2>2, UpdatedSound
  <2>4. file'[attached] = f
    BY <1>2, <1>9, <2>1 DEF AllFit
  <2>5. QED
    BY <1>1, <1>4, <1>23, <2>2, <2>3, <2>4 DEF PInv, Running
<1>24. ASSUME file' = [child EXCEPT ![attached] = done]
              \/ file' = [child EXCEPT ![attached] = crashed]
       PROVE  \A t \in SessionId : Sound(file'[t], ids, c)
  <2>1. CASE file' = [child EXCEPT ![attached] = done]
    BY <1>2, <1>9, <1>15, <2>1, UpdatedSound
  <2>2. CASE file' = [child EXCEPT ![attached] = crashed]
    BY <1>2, <1>9, <1>16, <2>2, UpdatedSound
  <2>3. QED
    BY <1>24, <2>1, <2>2
<1>25. \/ file' = [child EXCEPT ![attached] = done]
            /\ \/ \E t \in SessionId : Attach(t)
               \/ SyncPlanState(None) /\ UNCHANGED <<attached, run>>
       \/ /\ \/ \E f \in FailedWrites(draft) : file' = [file EXCEPT ![s] = Recovered(f, FALSE)]
             \/ \E f \in FailedWrites(Current) : file' = [child EXCEPT ![attached] = f]
          /\ UNCHANGED <<attached, plan, run>>
       \/ file' = [child EXCEPT ![attached] = crashed] /\ \E t \in SessionId : Attach(t)
  BY <1>1, <1>3 DEF done, crashed
<1>18. CASE /\ file' = [child EXCEPT ![attached] = done]
                 \/ file' = [child EXCEPT ![attached] = crashed]
            /\ \E t \in SessionId : Attach(t)
  BY <1>1, <1>18, <1>24, MovedP
<1>19. CASE /\ file' = [child EXCEPT ![attached] = done]
            /\ SyncPlanState(None) /\ UNCHANGED <<attached, run>>
  <2>1. plan' = Projection(file'[attached], None)
    BY <1>19 DEF SyncPlanState
  <2>3. \A t \in SessionId : Sound(file'[t], ids, c)
    BY <1>19, <1>24
  <2>2. plan' = View(Whole(file'[attached], None))
    BY <1>2, <2>1, <2>3, Projected
  <2>4. QED
    BY <1>1, <1>4, <1>19, <2>2, <2>3 DEF PInv, Attuned, Running
<1>21. QED
  BY <1>18, <1>19, <1>22, <1>23, <1>25

\* The session is left and a new one begins, unless the write of what it holds raises.
LEMMA NewSessionP ==
  ASSUME IInv, NEW c, PInv(c), NEW s \in SessionId, NewSession(s)
  PROVE  PInv(c)'
<1> DEFINE left == IF Meaningful(Current) THEN Flushed(Current) ELSE Current
           one == [file EXCEPT ![attached] = left]
<1>1. /\ Free /\ ids' = ids
      /\ \/ /\ file' = [file EXCEPT ![attached] = left, ![s] = Blank(None)]
            /\ Attach(s)
         \/ WriteRaises(Current) /\ UNCHANGED <<attached, plan, run>>
  BY DEF NewSession, Current
<1>2. /\ AllFit(file) /\ attached \in SessionId /\ Fits(Current)
      /\ Sound(Current, ids, c) /\ \A t \in SessionId : Sound(file[t], ids, c)
  BY AttachedFits DEF IInv, PInv, Current
<1>3. Sound(left, ids, c)
  BY <1>2, FlushedSound
<1>4. Fits(left)
  <2>1. PICK S : Current \in FilesOf(S)
    BY <1>2 DEF Fits, FitsIn
  <2>2. QED
    BY <1>2, <2>1, FlushedFits
<1> HIDE DEF left
<1>5. AllFit(one) /\ \A t \in SessionId : Sound(one[t], ids, c)
  BY <1>2, <1>3, <1>4, Updated, UpdatedSound
<1>6. CASE file' = [file EXCEPT ![attached] = left, ![s] = Blank(None)] /\ Attach(s)
  <2>1. file' = [one EXCEPT ![s] = Blank(None)]
    BY <1>6
  <2>2. Sound(Blank(None), ids, c)
    BY NothingInIt, BlankSound
  <2> HIDE DEF one
  <2>3. \A t \in SessionId : Sound(file'[t], ids, c)
    BY <1>5, <2>1, <2>2, UpdatedSound
  <2>4. QED
    BY <1>1, <1>6, <2>3, MovedP
<1>7. CASE WriteRaises(Current) /\ UNCHANGED <<attached, plan, run>>
  <2>1. PICK f \in FailedWrites(Current) : file' = [file EXCEPT ![attached] = f]
    BY <1>7 DEF WriteRaises
  <2>2. run.exec = None /\ (run.sole => run.call # None) /\ Tooled(run, plan)
    BY <1>1, FreeIs
  <2>3. QED
    BY <1>1, <1>7, <2>1, <2>2, NothingSaidP
<1>8. QED
  BY <1>1, <1>6, <1>7

\* The user goes back in the branch, unless the write raises.
LEMMA SwitchP ==
  ASSUME IInv, NEW c, PInv(c), NEW n \in BranchPoints, SwitchBranch(n)
  PROVE  PInv(c)'
<1> DEFINE g == Switched(Current, n)
<1>1. /\ n < Len(Current.log) /\ UNCHANGED <<attached, run, ids>> /\ run.pc = "idle"
      /\ \/ file' = [file EXCEPT ![attached] = g] /\ SyncPlanState(run.exec)
         \/ AppendRaises /\ plan' = plan
  BY DEF SwitchBranch, Switched, Back, Current
<1>2. n \in Nat
  BY BoundAssumption
<1>3. run.exec = None /\ (run.sole => run.call # None) /\ "develop" \notin run.tools
  BY <1>1, RunIs
<1>4. Fits(Current) /\ Sound(Current, ids, c)
  BY AttachedFits DEF PInv, IInv, Current
<1>5. Sound(g, ids, c)
  BY <1>1, <1>2, <1>4, SwitchedSound
<1> HIDE DEF g
<1>6. Tooled(run', plan') /\ Tooled(run', plan)
  BY <1>1, <1>3 DEF Tooled
<1>7. CASE file' = [file EXCEPT ![attached] = g] /\ SyncPlanState(run.exec)
  BY <1>1, <1>3, <1>5, <1>6, <1>7, SyncedP
<1>8. CASE AppendRaises /\ plan' = plan
  <2>1. PICK f \in FailedWrites(Current) : file' = [file EXCEPT ![attached] = f]
    BY <1>8 DEF AppendRaises, WriteRaises
  <2>2. QED
    BY <1>1, <1>3, <1>6, <1>8, <2>1, NothingSaidP
<1>9. QED
  BY <1>1, <1>7, <1>8

\* The process dies, and another one starts.
LEMMA CrashP ==
  ASSUME IInv, NEW c, PInv(c), Crash
  PROVE  PInv(c)'
<1>1. PICK torn \in BOOLEAN, s \in SessionId :
        LET found == [file EXCEPT ![attached] = Recovered(Current, torn)] IN
        /\ file' = found \/ file' = [found EXCEPT ![s] = Blank(None)]
        /\ Attach(s)
  BY DEF Crash, Current
<1> DEFINE left == Recovered(Current, torn)
           found == [file EXCEPT ![attached] = left]
<1>2. /\ AllFit(file) /\ attached \in SessionId /\ Fits(Current) /\ ids' = ids
      /\ Sound(Current, ids, c) /\ \A t \in SessionId : Sound(file[t], ids, c)
  BY AttachedFits DEF IInv, PInv, Current, Crash
<1>3. Fits(left) /\ Sound(left, ids, c)
  BY <1>2, RecoveredFits, RecoveredSound
<1>4. file' = found \/ file' = [found EXCEPT ![s] = Blank(None)]
  BY <1>1
<1> HIDE DEF left
<1>5. AllFit(found) /\ \A t \in SessionId : Sound(found[t], ids, c)
  BY <1>2, <1>3, Updated, UpdatedSound
<1>6. Sound(Blank(None), ids, c)
  BY NothingInIt, BlankSound
<1> HIDE DEF found
<1>7. \A t \in SessionId : Sound(file'[t], ids, c)
  BY <1>4, <1>5, <1>6, UpdatedSound
<1>8. QED
  BY <1>1, <1>2, <1>7, MovedP

-----------------------------------------------------------------------------
(* The tools of Plan Mode.                                                 *)

\* The model asks.
LEMMA AskP ==
  ASSUME IInv, NEW c, PInv(c), Seen(c), run.pc = "tools", run.todo # <<>>, Ask,
         attached' = attached
  PROVE  PInv(c)'
<1> DEFINE e == Question(plan.plan, ids + 1)
           g == Flushed(Written(Current, e))
           s == Whole(Current, None)
<1>1. /\ plan.mode = "plan" /\ plan.phase = "drafting" /\ plan.question = None
      /\ ids < MaxIds /\ ids' = ids + 1
      /\ \/ /\ file' = [file EXCEPT ![attached] = g] /\ SyncPlanState(None)
            /\ \/ run' = Done(TRUE)
               \/ run' = [run EXCEPT !.pc = "question", !.future = "pending"]
         \/ CommitRaises(e) /\ run' = Done(FALSE) /\ plan' = plan
  BY DEF Ask, CommitNow, Current
<1>2. run.exec = None /\ "develop" \notin run.tools
  BY <1>1, PlanTypes, RunIs DEF Tooled
<1>3. /\ run'.exec = run.exec /\ run'.tools = run.tools /\ run'.sole = run.sole
      /\ run'.call = run.call
  <2>1. CASE run' = Done(TRUE) \/ run' = Done(FALSE)
    BY <2>1, RunIs, DoneIs
  <2>2. CASE run' = [run EXCEPT !.pc = "question", !.future = "pending"]
    BY <2>2, RunIs DEF RunStates
  <2>3. QED
    BY <1>1, <2>1, <2>2
<1>4. g \in Appends(Current, e)
  BY DEF Appends
<1>5. e \in Questions /\ e.type = "question" /\ e.plan = plan.plan /\ e.question = ids + 1
  BY <1>1, PlanTypes, FreshId DEF Question, Questions
<1> HIDE DEF e, g
<1>8. ASSUME c = "clean", Undamaged(Current) PROVE Valid(s, e, Current.parent)
  <2>1. plan = View(s) /\ Known(s, ids)
    BY <1>2, <1>8, SeenIsBranch
  <2> HIDE DEF s
  <2>2. <<e.plan, e.question>> \notin s.questions
    <3>1. <<e.plan, e.question>>[2] = ids + 1
      BY <1>5
    <3>2. QED
      BY <1>1, <2>1, <3>1, FreshId DEF Known
  <2>3. /\ s.mode = plan.mode /\ s.phase = plan.phase /\ s.plan = plan.plan
        /\ s.question = plan.question
    BY <2>1 DEF View
  <2>4. QED
    BY <1>1, <1>5, <2>2, <2>3 DEF Valid, ValidQuestion
<1>9. Fits(Current) /\ Sound(Current, ids', c) /\ Names(e, ids') /\ e \in Entries
  BY <1>1, <1>5, MoreIds, AttachedFits, FreshId DEF Names, Entries
<1>11. Tooled(run', plan') /\ Tooled(run', plan)
  BY <1>2, <1>3 DEF Tooled
<1>12. run'.sole => run'.call # None
  BY <1>3, RunIs
<1>13. CASE file' = [file EXCEPT ![attached] = g] /\ SyncPlanState(None)
  <2>1. Sound(g, ids', c)
    BY <1>4, <1>8, <1>9, AppendsSound
  <2>2. QED
    BY <1>1, <1>2, <1>3, <1>11, <1>12, <1>13, <2>1, SyncedP
<1>14. CASE CommitRaises(e) /\ plan' = plan
  BY <1>1, <1>3, <1>8, <1>9, <1>11, <1>12, <1>14, UnseenP
<1>15. QED
  BY <1>1, <1>13, <1>14

\* The position of the last entry is the number of entries, when none is a
\* diagnostic.
LEMMA EnteredIs ==
  ASSUME NEW log, Len(log) \in Nat, DOMAIN log = 1 .. Len(log)
  PROVE  /\ Entered(log) \in Nat
         /\ (\A i \in 1 .. Len(log) : log[i].type # "issue") => Entered(log) = Len(log)
<1> DEFINE n == Len(log)
           entered == {i \in DOMAIN log : log[i].type # "issue"}
<1>1. entered \subseteq 1 .. n /\ IsFiniteSet(1 .. n)
  BY FS_Interval
<1>2. Cardinality(1 .. n) = n
  <2>1. n \in Nat
    OBVIOUS
  <2> HIDE DEF n
  <2>2. QED
    BY <2>1, FS_Interval
<1>3. IsFiniteSet(entered)
  BY <1>1, FS_Subset
<1>4. Cardinality(entered) \in Nat
  BY <1>3, FS_CardinalityType
<1>5. (\A i \in 1 .. n : log[i].type # "issue") => entered = 1 .. n
  OBVIOUS
<1> HIDE DEF entered
<1>6. QED
  BY <1>2, <1>4, <1>5 DEF Entered, entered

\* The model submits a revision.
LEMMA SubmitP ==
  ASSUME IInv, NEW c, PInv(c), Seen(c), run.pc = "tools", run.todo # <<>>, run.sole, SubmitPlan,
         attached' = attached
  PROVE  PInv(c)'
<1> DEFINE number == IF plan.latest = None THEN 1 ELSE plan.latest.number + 1
           log == Current.log
           e == Revision(plan.plan, number, run.call, Entered(log), None)
           g == Flushed(Written(Current, e))
<1>1. /\ plan.mode = "plan" /\ plan.phase = "drafting" /\ SourceIsValid
      /\ ids' = ids
      /\ \/ /\ file' = [file EXCEPT ![attached] = g] /\ SyncPlanState(None)
            /\ run' = Done(TRUE)
         \/ CommitRaises(e) /\ run' = Done(FALSE) /\ plan' = plan
  BY DEF SubmitPlan, CommitNow, Current
<1>2. run.exec = None /\ "develop" \notin run.tools /\ run.call # None /\ run.call \in MaybeId
  BY <1>1, PlanTypes, RunIs DEF Tooled, RunStates
<1>3. /\ run'.exec = run.exec /\ run'.tools = run.tools /\ run'.sole = run.sole
      /\ run'.call = run.call
  <2>1. run' = Done(TRUE) \/ run' = Done(FALSE)
    BY <1>1
  <2>2. QED
    BY <2>1, RunIs, DoneIs
<1>4. g \in Appends(Current, e)
  BY DEF Appends
<1>5. Fits(Current) /\ Sound(Current, ids', c) /\ Sound(Current, ids, c)
  BY <1>1, MoreIds, AttachedFits
<1>6. DOMAIN log = 1 .. Len(log) /\ Len(log) \in Nat
  <2>1. PICK S : Current \in FilesOf(S)
    BY <1>5 DEF Fits, FitsIn
  <2>2. log \in Seq(S)
    BY <2>1 DEF FilesOf
  <2>3. QED
    BY <2>2
<1>7. PICK p \in PlanState : WellFormed(p, None) /\ plan = View(p)
  BY <1>2, PlanIsBranch
<1>8. p.latest = plan.latest
  BY <1>7 DEF View
<1>9. Entered(log) \in Nat
  BY <1>6, EnteredIs
<1>10. number \in Int /\ number >= 1
  <2>1. p.latest # None => p.latest \in Revisions /\ p.latest.number >= 1
    BY <1>7 DEF PlanState, WellFormed, Intact
  <2>2. p.latest # None => p.latest.number \in Int
    BY <2>1 DEF Revisions
  <2>3. QED
    BY <1>8, <2>1, <2>2
<1>11. number = IF plan.latest = None THEN 1 ELSE plan.latest.number + 1
  OBVIOUS
<1>12. log = Current.log
  OBVIOUS
<1> HIDE DEF number, log, g
<1>13. /\ e \in Revisions /\ e.type = "revision" /\ e.plan = plan.plan /\ e.number = number
       /\ e.call = run.call /\ e.digest = Digest(plan.plan, number, run.call)
       /\ e.source = Entered(log) /\ e.origin = None
  <2>1. Digest(plan.plan, number, run.call) \in Digests
    BY <1>2, <1>10, PlanTypes DEF Digest, Digests
  <2>2. QED
    BY <1>2, <1>9, <1>10, <2>1, PlanTypes DEF Revision, Revisions, MaybeSession
<1> HIDE DEF e
<1>15. e \in Entries /\ Names(e, ids')
  BY <1>13 DEF Entries, Names
<1>14. ASSUME c = "clean", Undamaged(Current)
       PROVE  Valid(Whole(Current, None), e, Current.parent)
  <2> DEFINE s == Whole(Current, None)
  <2>1. /\ s.len = Len(log) /\ (Len(log) # 0 => s.last = log[Len(log)])
        /\ s \in PlanState /\ WellFormed(s, None) /\ plan = View(s)
        /\ s.calls = After(log, Current.parent, None, Len(log)).calls
    BY <1>2, <1>5, <1>12, <1>14, WholeFits, SeenIsBranch DEF Whole
  <2> HIDE DEF s
  <2>0. /\ s.mode = plan.mode /\ s.phase = plan.phase /\ s.plan = plan.plan
        /\ s.latest = plan.latest
    BY <2>1 DEF View
  <2>2. e.source = s.len
    BY <1>6, <1>12, <1>13, <1>14, <2>1, EnteredIs DEF Undamaged
  <2>3. /\ log # <<>> /\ log[Len(log)].type = "message"
        /\ log[Len(log)].role = "assistant" /\ log[Len(log)].submit = run.call
        /\ log[Len(log)].alone /\ log[Len(log)].complete
    BY <1>1, <1>12 DEF SourceIsValid
  <2>4. s.last = log[Len(log)] /\ s.last # None
    <3>1. Len(log) # 0 /\ Len(log) \in 1 .. Len(log)
      <4>1. PICK S : Current \in FilesOf(S)
        BY <1>5 DEF Fits, FitsIn
      <4>2. log \in Seq(S)
        BY <1>12, <4>1 DEF FilesOf
      <4>3. QED
        BY <2>3, <4>2
    <3>2. log[Len(log)] \in Entries
      BY <1>5, <1>12, <3>1 DEF Sound
    <3>3. QED
      BY <2>1, <3>1, <3>2, NoneAssumption
  <2>5. run.call \notin s.calls
    <3>1. \A k \in s.calls : \E i \in 1 .. Len(log) :
            log[i].type = "revision" /\ log[i].origin = None /\ log[i].call = k
      BY <1>5, <1>12, <2>1, AfterCalls DEF Sound
    <3>2. \A i \in 1 .. Len(log) :
            log[i].type = "revision" /\ log[i].call = run.call => log[i].origin # None
      BY <1>1, <1>6, <1>12 DEF SourceIsValid
    <3>3. QED
      BY <3>1, <3>2
  <2>6. ValidSource(s, e)
    BY <1>13, <2>2, <2>3, <2>4 DEF ValidSource
  <2>7. NumberFits(s, e) /\ DigestFits(e)
    BY <1>11, <1>13, <2>0 DEF NumberFits, DigestFits
  <2>8. ValidRevision(s, e)
    BY <1>1, <1>2, <1>10, <1>13, <2>0, <2>5, <2>6, <2>7 DEF ValidRevision
  <2>9. QED
    BY <1>13, <2>8 DEF Valid, s
<1>17. Tooled(run', plan') /\ Tooled(run', plan)
  BY <1>2, <1>3 DEF Tooled
<1>18. run'.sole => run'.call # None
  BY <1>3, RunIs
<1>19. CASE file' = [file EXCEPT ![attached] = g] /\ SyncPlanState(None)
  <2>1. Sound(g, ids', c)
    BY <1>4, <1>5, <1>14, <1>15, AppendsSound
  <2>2. QED
    BY <1>1, <1>2, <1>3, <1>17, <1>18, <1>19, <2>1, SyncedP
<1>20. CASE CommitRaises(e) /\ plan' = plan
  BY <1>1, <1>3, <1>14, <1>15, <1>17, <1>18, <1>20, UnseenP
<1>21. QED
  BY <1>1, <1>19, <1>20

\* A call is refused, or runs.
LEMMA ToolP ==
  ASSUME IInv, NEW c, PInv(c), Seen(c), Tool
  PROVE  PInv(c)'
<1>1. /\ run.pc = "tools" /\ run.todo # <<>> /\ attached' = attached
      /\ run \in RunStates
  BY RunIs DEF Tool
<1>2. CASE run' = Done(FALSE) /\ UNCHANGED <<file, plan, ids>>
  BY <1>1, <1>2, DoneIs, WithinTurnP
<1>3. CASE Ask
  BY <1>1, <1>3, AskP
<1>4. CASE CanRun("submit") /\ SubmitPlan
  <2>1. run.sole
    BY <1>4 DEF CanRun, PolicyBlocks, SubmitPlan
  <2>2. QED
    BY <1>1, <1>4, <2>1, SubmitP
<1>5. QED
  BY <1>2, <1>3, <1>4 DEF Tool, Refused

-----------------------------------------------------------------------------
\* At the start the one session is new.
LEMMA InitPInv ==
  ASSUME NEW c, Init
  PROVE  PInv(c)
<1>1. /\ attached = First /\ run = Run0 /\ ids = 0 /\ First \in SessionId
      /\ file = [s \in SessionId |-> IF s = First THEN Blank(None) ELSE Unused]
      /\ plan = Projection(Blank(None), None)
  BY BoundAssumption DEF Init
<1>2. \A s \in SessionId : Sound(file[s], ids, c)
  BY <1>1, NothingInIt, BlankSound
<1>3. run.exec = None /\ ~run.sole /\ run.tools = {}
  BY <1>1 DEF Run0
<1>4. plan = View(Whole(file[attached], None))
  BY <1>1, <1>2, Projected
<1>5. QED
  BY <1>2, <1>3, <1>4 DEF PInv, Attuned, Running, Tooled

\* Every control keeps the invariant.
LEMMA HostKeepsPInv ==
  ASSUME IInv, UInv, NEW c, PInv(c), Seen(c), HostStep
  PROVE  PInv(c)'
<1>1. CASE \E token \in Tokens : ExecutePlan(token)
  BY <1>1, ExecuteP
<1>2. CASE \E token \in Tokens, s \in SessionId : HandoffPlan(token, s)
  BY <1>2, HandoffP
<1>3. CASE \E s \in SessionId : NewSession(s)
  BY <1>3, NewSessionP
<1>4. CASE \E n \in BranchPoints : SwitchBranch(n)
  BY <1>4, SwitchP
<1>5. QED
  BY <1>1, <1>2, <1>3, <1>4, EnterP, CancelP, AnswerP, AppendOtherP, PromptP, AbortP,
     SteerP, CancelTaskP DEF HostStep

\* Every step of a run keeps the invariant.
LEMMA RunKeepsPInv ==
  ASSUME IInv, NEW c, PInv(c), Seen(c), RunStep
  PROVE  PInv(c)'
BY BeginP, ModelP, ToolP, EndTurnP, QuestionReturnsP, SettleP DEF RunStep

\* So does every step.
LEMMA NextKeepsPInv ==
  ASSUME IInv, UInv, NEW c, PInv(c), Seen(c), [Next]_vars
  PROVE  PInv(c)'
<1>1. CASE UNCHANGED vars
  <2>1. UNCHANGED <<file, attached, plan, run, ids>>
    BY <1>1 DEF vars
  <2>2. QED
    BY <2>1 DEF PInv, Running, Tooled
<1>2. CASE Next
  BY <1>2, HostKeepsPInv, RunKeepsPInv, CrashP DEF Next
<1>3. QED
  BY <1>1, <1>2

\* What holds whatever is on the branches, clean or not.
PlanInv == PInv("any")

\* The cached Plan State is attuned to the branch of the attached session and the
\* run to both: it is what the branch says, or lags behind it as far as a write that
\* raised explains; who owns a run has its start on the branch, and nobody else has;
\* who holds the development tools is in a turn outside Plan Mode.
THEOREM PlanInvariance == Spec => [](IInv /\ PlanInv)
<1>1. IInv /\ UInv /\ [Next]_vars => UInv'
  BY NextSurvives
<1>2. Spec => []UInv
  BY <1>1, InitUInv, Invariance, PTL DEF Spec
<1>3. Init => PlanInv
  BY InitPInv DEF PlanInv
<1>4. IInv /\ UInv /\ PlanInv /\ [Next]_vars => PlanInv'
  <2> SUFFICES ASSUME IInv, UInv, PInv("any"), [Next]_vars PROVE PInv("any")'
    BY DEF PlanInv
  <2>1. Seen("any")
    BY DEF Seen
  <2>2. QED
    BY <2>1, NextKeepsPInv
<1>5. QED
  BY <1>2, <1>3, <1>4, Invariance, PTL DEF Spec

\* The Plan State that AgentSession keeps (_sync_plan_state) is what
\* reduce_plan_state makes of the branch, or says that the branch is blocked, or a plan
\* is drafted or asked about: a write behind it that raised is the only thing it misses.
THEOREM CacheIsAlwaysProjection == Spec => []CacheIsProjection
<1>1. IInv /\ PlanInv => CacheIsProjection
  <2> SUFFICES ASSUME IInv, PInv("any") PROVE CacheIsProjection
    BY DEF PlanInv
  <2>1. PICK s \in PlanState :
          /\ WellFormed(s, run.exec) /\ plan = View(s)
          /\ \/ s = Whole(Current, run.exec)
             \/ s.phase \in {"drafting", "awaiting_answer", "recovery_error"}
    BY PlanIs
  <2>2. Sound(Current, ids, "any")
    BY DEF PInv, IInv, Current
  <2>3. Projection(Current, run.exec) = View(Whole(Current, run.exec))
    BY <2>2, Projected
  <2>4. plan.phase = s.phase
    BY <2>1 DEF View
  <2>5. QED
    BY <2>1, <2>3, <2>4 DEF CacheIsProjection
<1>2. QED
  BY <1>1, PlanInvariance, PTL

\* A turn that was given the tools of development never goes on in Plan Mode or
\* over a run whose outcome is uncertain (_apply_tool_profile).
THEOREM DevelopmentAlwaysStaysOutOfPlanMode == Spec => []DevelopmentStaysOutOfPlanMode
<1>1. IInv /\ PlanInv => DevelopmentStaysOutOfPlanMode
  BY DEF PlanInv, PInv, Tooled, DevelopmentStaysOutOfPlanMode
<1>2. QED
  BY <1>1, PlanInvariance, PTL

\* A branch that is accepted up to its diagnostics is clean, and the other way round.
LEMMA AcceptedIsClean ==
  ASSUME NEW f, Fits(f), NEW k, Sound(f, k, "any")
  PROVE  Accepted(f) <=> Clean(f)
<1>1. PICK S : f \in FilesOf(S)
  BY DEF Fits, FitsIn
<1>2. f.log \in Seq(S) /\ Len(f.log) \in Nat
  BY <1>1 DEF FilesOf
<1>3. \A i \in 1 .. Len(f.log) : f.log[i] \in Entries
  BY DEF Sound
<1> DEFINE Part(n) == SubSeq(f.log, 1, n)
<1>4. ASSUME NEW n \in 0 .. Len(f.log)
      PROVE  /\ Damaged(Part(n)) <=> \E i \in 1 .. n : f.log[i].type = "issue"
             /\ (ReducePlanState(Part(n), f.parent, None).phase = "recovery_error")
                  <=> After(f.log, f.parent, None, n).blocked
  <2> DEFINE part == Part(n)
             a == After(f.log, f.parent, None, n)
  <2>1. n \in Nat /\ n <= Len(f.log)
    BY <1>2
  <2>2. part = SubSeq(f.log, 1, n)
    OBVIOUS
  <2> HIDE DEF part
  <2>3. part \in Seq(S) /\ Len(part) = n /\ \A i \in 1 .. n : part[i] = f.log[i]
    BY <1>2, <2>1, <2>2, Parts
  <2>4. DOMAIN part = 1 .. n
    BY <2>1, <2>3
  <2>5. Damaged(part) <=> \E i \in 1 .. n : f.log[i].type = "issue"
    BY <2>3, <2>4 DEF Damaged
  <2>6. ReducePlanState(part, f.parent, None) = After(part, f.parent, None, n)
    BY <2>1, <2>3, ReduceIsAfter
  <2>7. After(part, f.parent, None, n) = a
    BY <2>1, <2>3, AfterAlike
  <2>8. a \in PlanState /\ WellFormed(a, None)
    <3>1. \A i \in 1 .. n : f.log[i] \in Entries
      BY <1>2, <1>3, <2>1
    <3>2. QED
      BY <2>1, <3>1, AfterWellFormed
  <2> HIDE DEF a
  <2>9. a.phase = "recovery_error" <=> a.blocked
    BY <2>8 DEF WellFormed
  <2>10. QED
    BY <2>5, <2>6, <2>7, <2>9 DEF part, a
<1> HIDE DEF Part
<1>5. Accepted(f) <=> \A n \in 0 .. Len(f.log) :
        ~Damaged(Part(n)) => ReducePlanState(Part(n), f.parent, None).phase # "recovery_error"
  BY DEF Accepted, Part
<1>6. QED
  BY <1>4, <1>5 DEF Clean

\* No step writes an entry that makes reduce_plan_state block a branch that it accepted
\* up to its diagnostics, in whatever order controls, tools, aborts, failed writes,
\* handoffs and crashes come, when the step begins with a cache that follows the branch.
THEOREM LiveOpsNeverEverPoison == Spec => LiveOpsNeverPoison
<1> DEFINE Kept == Follows /\ (\A s \in SessionId : Accepted(file[s]))
                     => \A s \in SessionId : Accepted(file'[s])
<1>1. IInv /\ UInv /\ PlanInv /\ IInv' /\ PlanInv' /\ [Next]_vars => [Kept]_vars
  <2> SUFFICES ASSUME IInv, UInv, PInv("any"), IInv', PInv("any")', [Next]_vars,
                      Follows, \A s \in SessionId : Accepted(file[s]),
                      NEW s \in SessionId
               PROVE  Accepted(file'[s])
    BY DEF PlanInv
  <2>1. \A t \in SessionId : Fits(file[t]) /\ Fits(file'[t])
    BY DEF IInv, AllFit
  <2>2. \A t \in SessionId : Sound(file[t], ids, "any") /\ Sound(file'[t], ids', "any")
    BY DEF PInv
  <2>3. \A t \in SessionId : Clean(file[t])
    BY <2>1, <2>2, AcceptedIsClean
  <2>4. PInv("clean")
    BY <2>2, <2>3 DEF PInv, Sound
  <2>5. Seen("clean")
    <3>1. attached \in SessionId /\ Len(Current.log) \in Nat
      BY <2>2 DEF IInv, Sound, Current
    <3>2. Projection(Current, run.exec) = View(Whole(Current, run.exec))
      BY <3>1, ProjectionIsView
    <3>3. QED
      BY <3>2 DEF Seen, Follows
  <2>6. PInv("clean")'
    BY <2>4, <2>5, NextKeepsPInv
  <2>7. Clean(file'[s])
    BY <2>6 DEF PInv, Sound
  <2>8. QED
    BY <2>1, <2>2, <2>7, AcceptedIsClean
<1>2. IInv /\ UInv /\ [Next]_vars => UInv'
  BY NextSurvives
<1>3. Spec => []UInv
  BY <1>2, InitUInv, Invariance, PTL DEF Spec
<1>4. QED
  BY <1>1, <1>3, PlanInvariance, PTL DEF Spec, LiveOpsNeverPoison

\* The session whose process confirmed a plan projects it as executing, under the
\* revision that was confirmed, exactly until the run has settled.
THEOREM LiveRunIsAlwaysExecuting == Spec => []LiveRunIsExecuting
<1>1. IInv /\ PlanInv => LiveRunIsExecuting
  <2> SUFFICES ASSUME IInv, PInv("any") PROVE LiveRunIsExecuting
    BY DEF PlanInv
  <2>1. PICK s \in PlanState : WellFormed(s, run.exec) /\ plan = View(s)
    BY PlanIs
  <2>2. /\ plan.phase = s.phase /\ plan.run = s.run /\ plan.latest = s.latest
    BY <2>1 DEF View
  <2>3. plan.phase = "executing" => run.exec # None
    BY <2>1, <2>2 DEF WellFormed
  <2>4. run.exec # None => plan.phase = "executing"
    BY RunIsPlan
  <2>5. ASSUME run.exec # None
        PROVE  plan.run = Run("started", Token(plan.latest), run.exec)
    <3>1. /\ s.run # None /\ s.run.status = "started"
          /\ s.run.token = Token(s.latest) /\ s.run.run = run.exec
      BY <2>1, <2>2, <2>4, <2>5 DEF WellFormed, Started
    <3>2. s.run \in Runs
      BY <2>1, <3>1 DEF PlanState
    <3>3. QED
      BY <2>2, <3>1, <3>2 DEF Runs, Run
  <2>6. QED
    BY <2>3, <2>4, <2>5 DEF LiveRunIsExecuting
<1>2. QED
  BY <1>1, PlanInvariance, PTL

-----------------------------------------------------------------------------
(* What authorizes anything is on the disk before it is acted upon.         *)

\* All of the branch is on the disk.
Full(f) == f.flushed /\ f.durable = Len(f.log)

\* The question that p shows is on the disk.
Asked(f, p) == \E i \in 1 .. f.durable : f.log[i] = Question(p.plan, p.question)

\* The inductive invariant, beside IInv, UInv and PlanInv.
DInv ==
  /\ run.exec # None \/ run.future = "answered" => Full(Current)
  /\ run.future = "pending" => plan.phase = "recovery_error" \/ Asked(Current, plan)
  /\ run.future # None => run.pc = "question"
  /\ run.future = "answered" => plan.question = None

\* A flush writes all of it.
LEMMA FlushedIsFull ==
  ASSUME NEW S, NEW f \in FilesOf(S)
  PROVE  Full(Flushed(f))
<1> DEFINE n == Len(f.log)
           g == Flushed(f)
<1>1. g = [f EXCEPT !.flushed = TRUE, !.durable = n]
  BY DEF Flushed
<1> HIDE DEF n, g
<1>2. g.log = f.log /\ g.flushed /\ g.durable = n
  BY <1>1 DEF FilesOf
<1>3. QED
  BY <1>2 DEF Full, n, g

\* So does an append with a flush behind it, and one to a file that is all there.
LEMMA WrittenIsFull ==
  ASSUME NEW f, Fits(f), NEW e
  PROVE  /\ Full(Flushed(Written(f, e)))
         /\ Full(f) => Full(Written(f, e))
<1> DEFINE h == Longer(f, e)
           g == Written(f, e)
<1>1. PICK S : FitsIn(f, S)
  BY DEF Fits
<1>2. PICK T : h \in FilesOf(T)
  BY <1>1, LongerFits DEF FitsIn
<1>3. PICK U : g \in FilesOf(U)
  BY WrittenFits
<1>4. f.flushed => g = Flushed(h)
  BY DEF Written, Longer, WritesThrough
<1> HIDE DEF h, g
<1>5. Full(Flushed(g)) /\ Full(Flushed(h))
  BY <1>2, <1>3, FlushedIsFull
<1>6. Full(f) => Full(g)
  BY <1>4, <1>5 DEF Full
<1>7. QED
  BY <1>5, <1>6 DEF g

\* A failed write has nothing left to write there.
LEMMA FailedIsFull ==
  ASSUME NEW f, Fits(f), Full(f), NEW g \in FailedWrites(f)
  PROVE  Full(g)
<1>1. PICK S : FitsIn(f, S)
  BY DEF Fits
<1>2. f \in FilesOf(S) /\ f.durable \in Nat /\ Len(f.log) \in Nat /\ f.durable = Len(f.log)
  BY <1>1 DEF FitsIn, FilesOf, Full
<1>3. CASE g = f
  BY <1>3
<1>4. CASE g # f
  <2>1. PICK d \in f.durable .. Len(f.log) : g = [f EXCEPT !.flushed = TRUE, !.durable = d]
    BY <1>4 DEF FailedWrites
  <2>2. d = Len(f.log)
    BY <1>2
  <2>3. g.log = f.log /\ g.flushed /\ g.durable = d
    BY <1>2, <2>1 DEF FilesOf
  <2>4. QED
    BY <2>2, <2>3 DEF Full
<1>5. QED
  BY <1>3, <1>4

\* The writes that leave a branch all on the disk.
Safe == file' = file \/ AppendRaises \/ \E e : Commit(e) \/ CommitNow(e) \/ AgentAppends(e)

\* They do.
LEMMA StaysFull ==
  ASSUME IInv, attached' = attached, Safe, Full(Current)
  PROVE  Full(Current')
<1>1. Fits(Current) /\ attached \in SessionId /\ file = [s \in SessionId |-> file[s]]
  BY AttachedFits DEF IInv, AllFit
<1>2. ASSUME NEW g, file' = [file EXCEPT ![attached] = g] PROVE Current' = g
  BY <1>1, <1>2 DEF Current
<1>3. CASE file' = file
  BY <1>3 DEF Current
<1>4. ASSUME NEW e, Commit(e) PROVE Full(Current')
  <2> DEFINE g == Written(Current, e)
  <2>1. Full(g)
    BY <1>1, WrittenIsFull
  <2>2. file' = [file EXCEPT ![attached] = g]
    BY <1>4 DEF Commit, Current
  <2> HIDE DEF g
  <2>3. QED
    BY <1>2, <2>1, <2>2
<1>5. ASSUME NEW e, CommitNow(e) PROVE Full(Current')
  <2> DEFINE g == Flushed(Written(Current, e))
  <2>1. Full(g)
    BY <1>1, WrittenIsFull
  <2>2. file' = [file EXCEPT ![attached] = g]
    BY <1>5 DEF CommitNow, Current
  <2> HIDE DEF g
  <2>3. QED
    BY <1>2, <2>1, <2>2
<1>6. CASE WriteRaises(Current)
  <2>1. PICK g \in FailedWrites(Current) : file' = [file EXCEPT ![attached] = g]
    BY <1>6 DEF WriteRaises
  <2>2. QED
    BY <1>1, <1>2, <2>1, FailedIsFull
<1>7. QED
  BY <1>3, <1>4, <1>5, <1>6 DEF Safe, AppendRaises, AgentAppends

\* After an append and a flush it is so, whatever it was before.
LEMMA BecomesFull ==
  ASSUME IInv, attached' = attached, NEW e, CommitNow(e)
  PROVE  Full(Current')
<1> DEFINE g == Flushed(Written(Current, e))
<1>1. Fits(Current) /\ attached \in SessionId /\ file = [s \in SessionId |-> file[s]]
  BY AttachedFits DEF IInv, AllFit
<1>2. Full(g)
  BY <1>1, WrittenIsFull
<1>3. file' = [file EXCEPT ![attached] = g]
  BY DEF CommitNow, Current
<1> HIDE DEF g
<1>4. Current' = g
  BY <1>1, <1>3 DEF Current
<1>5. QED
  BY <1>2, <1>4

\* A question on the disk stays there.
LEMMA StaysAsked ==
  ASSUME IInv, UInv, attached' = attached, Writes, NEW p, Asked(Current, p)
  PROVE  Asked(Current', p)
<1>1. attached \in SessionId
  BY DEF IInv
<1>2. Keeps(file[attached], file'[attached])
  BY <1>1, WritesKeep DEF AllKeep
<1>3. Keeps(Current, Current')
  BY <1>2 DEF Current
<1>4. PICK i \in 1 .. Current.durable : Current.log[i] = Question(p.plan, p.question)
  BY DEF Asked
<1>5. i \in 1 .. Current'.durable /\ Current'.log[i] = Question(p.plan, p.question)
  BY <1>3, <1>4 DEF Keeps
<1>6. QED
  BY <1>5 DEF Asked

\* Nothing is owed when nothing runs or waits.
LEMMA NothingOwed ==
  ASSUME run'.exec = None, run'.future = None
  PROVE  DInv'
BY WaitingAssumption DEF DInv

\* A run goes on, with no question before it.
LEMMA GoesOn ==
  ASSUME IInv, DInv, attached' = attached, Safe, run'.exec \in {run.exec, None}, run'.future = None
  PROVE  DInv'
BY StaysFull, WaitingAssumption DEF DInv

\* Nothing changes but the branch.
LEMMA LooksOn ==
  ASSUME IInv, UInv, DInv, attached' = attached, Safe, Writes, plan' = plan,
         run'.exec = run.exec, run'.future = run.future, run'.pc = run.pc
  PROVE  DInv'
<1>1. run'.exec # None \/ run'.future = "answered" => Full(Current')
  BY StaysFull DEF DInv
<1>2. run'.future = "pending" => plan'.phase = "recovery_error" \/ Asked(Current', plan')
  BY StaysAsked DEF DInv
<1>3. QED
  BY <1>1, <1>2 DEF DInv

\* A control that waits for prompts and runs starts from none.
LEMMA FreeOwes ==
  ASSUME IInv, PInv("any"), DInv, Free
  PROVE  run.exec = None /\ run.future = None
<1>1. run.exec = None /\ run.pc = "idle"
  BY FreeIs
<1>2. QED
  BY <1>1 DEF DInv

\* An answer or an exit leaves no question.
LEMMA NoQuestionLeft ==
  ASSUME NEW s \in PlanState, NEW live, WellFormed(s, live), NEW parent, NEW e \in Entries,
         e.type = "answer" \/ (e.type = "mode" /\ e.mode = "default")
  PROVE  Step(s, e, parent, live).question = None
<1> DEFINE t == Outcome(s, e, parent, live)
<1>1. t.question = None
  <2>1. CASE s.blocked
    <3>1. s.question = None /\ t = Recover(s, e)
      BY <2>1 DEF WellFormed, Outcome
    <3>2. QED
      BY <3>1 DEF Recover, PlanState
  <2>2. CASE ~s.blocked /\ Valid(s, e, parent) /\ e.type = "answer"
    BY <2>2 DEF Outcome, Accept, OnAnswer, PlanState
  <2>3. CASE ~s.blocked /\ Valid(s, e, parent) /\ e.type = "mode" /\ e.mode = "default"
    BY <2>3 DEF Outcome, Accept, OnModeChange, PlanState
  <2>4. CASE ~s.blocked /\ ~Valid(s, e, parent)
    BY <2>4 DEF Outcome, Block, PlanState
  <2>5. QED
    BY <2>1, <2>2, <2>3, <2>4
<1>2. t \in PlanState
  BY OutcomeWellFormed
<1>3. Step(s, e, parent, live) = [t EXCEPT !.last = e, !.len = s.len + 1]
  BY StepOutcome
<1> HIDE DEF t
<1>4. QED
  BY <1>1, <1>2, <1>3 DEF PlanState

\* What an append to the attached session shows.
LEMMA SeenStep ==
  ASSUME IInv, PInv("any"), attached' = attached, NEW e \in Entries, Names(e, ids'),
         ids' \in {ids, ids + 1}, NEW g \in Appends(Current, e),
         file' = [file EXCEPT ![attached] = g], SyncPlanState(None)
  PROVE  /\ Whole(Current, None) \in PlanState /\ WellFormed(Whole(Current, None), None)
         /\ plan' = View(Step(Whole(Current, None), e, Current.parent, None))
<1> DEFINE s == Whole(Current, None)
<1>1. Fits(Current) /\ Sound(Current, ids', "any")
  BY MoreIds, AttachedFits
<1>2. s \in PlanState /\ WellFormed(s, None)
  BY <1>1, WholeFits
<1>3. Sound(g, ids', "any") /\ Whole(g, None) = Step(s, e, Current.parent, None)
  BY <1>1, AppendsSound
<1>4. plan' = View(Whole(g, None))
  BY <1>3, Syncing
<1>5. QED
  BY <1>2, <1>3, <1>4

-----------------------------------------------------------------------------
\* The plan is cancelled, and the question with it.
LEMMA CancelD ==
  ASSUME IInv, UInv, PInv("any"), DInv, CancelPlanMode
  PROVE  DInv'
<1> DEFINE e == ModeChange("default", plan.plan, "user", None)
           g == Written(Current, e)
           future == IF run.future = "pending" THEN "cancelled" ELSE run.future
<1>1. /\ attached' = attached /\ ids' = ids /\ run.exec = None
      /\ run' = [run EXCEPT !.future = future]
      /\ \/ Commit(e) /\ SyncPlanState(None)
         \/ AppendRaises /\ plan' = plan
  BY DEF CancelPlanMode
<1>2. run \in RunStates
  BY RunIs
<1>10. /\ future # "pending" /\ (future = "answered" => run.future = "answered")
       /\ future # None => run.future # None
  BY WaitingAssumption
<1> HIDE DEF future
<1>11. run'.exec = None /\ run'.pc = run.pc /\ run'.future = future
  BY <1>1, <1>2 DEF RunStates
<1>3. /\ run'.exec = None /\ run'.pc = run.pc /\ run'.future = future
      /\ future # "pending" /\ (future = "answered" => run.future = "answered")
      /\ future # None => run.future # None
  BY <1>10, <1>11
<1>4. Safe
  BY <1>1 DEF Safe
<1>5. run'.future = "answered" => Full(Current')
  BY <1>1, <1>3, <1>4, StaysFull DEF DInv
<1>6. ASSUME Commit(e), SyncPlanState(None) PROVE plan'.question = None
  <2>1. /\ e \in Entries /\ e.type = "mode" /\ e.mode = "default" /\ e.plan = plan.plan
    BY PlanTypes, ModeEntries DEF MaybeSession
  <2>2. Names(e, ids')
    BY <2>1 DEF Names
  <2>3. g \in Appends(Current, e) /\ file' = [file EXCEPT ![attached] = g]
    BY <1>6 DEF Appends, Commit, Current
  <2> DEFINE s == Whole(Current, None)
  <2> HIDE DEF e, g
  <2>4. /\ s \in PlanState /\ WellFormed(s, None)
        /\ plan' = View(Step(s, e, Current.parent, None))
    BY <1>1, <1>6, <2>1, <2>2, <2>3, SeenStep
  <2> HIDE DEF s
  <2>5. Step(s, e, Current.parent, None).question = None
    BY <2>1, <2>4, NoQuestionLeft
  <2>6. QED
    BY <2>4, <2>5 DEF View
<1>7. run'.future = "answered" => plan'.question = None
  BY <1>1, <1>3, <1>6 DEF DInv
<1>8. run'.future # None => run'.pc = "question"
  BY <1>3 DEF DInv
<1>9. QED
  BY <1>3, <1>5, <1>7, <1>8 DEF DInv

\* The question is answered, or the answer is not known to be on the disk.
LEMMA AnswerD ==
  ASSUME IInv, UInv, PInv("any"), DInv, AnswerPlanQuestion
  PROVE  DInv'
<1> DEFINE e == Answer(plan.plan, plan.question)
           g == Flushed(Written(Current, e))
<1>1. /\ attached' = attached /\ ids' = ids
      /\ plan.mode = "plan" /\ plan.question # None
      /\ \/ /\ CommitNow(e) /\ SyncPlanState(run.exec)
            /\ \/ run.future = "pending" /\ run' = [run EXCEPT !.future = "answered"]
               \/ run.future # "pending" /\ run' = run
               \/ run' = [Run0 EXCEPT !.pc = "retrieve"]
         \/ CommitRaises(e) /\ UNCHANGED <<plan, run>>
  BY DEF AnswerPlanQuestion
<1>2. run.exec = None /\ run \in RunStates /\ run.future # "answered"
  BY <1>1, PlanTypes, RunIs DEF DInv
<1>3. CASE run' = [Run0 EXCEPT !.pc = "retrieve"]
  <2>1. run'.exec = None /\ run'.future = None
    BY <1>3 DEF Run0
  <2>2. QED
    BY <2>1, NothingOwed
<1>4. CASE CommitRaises(e) /\ UNCHANGED <<plan, run>>
  <2>1. Writes
    BY <1>4, Speaking DEF Writes
  <2>2. run.future = "pending" => plan.phase = "recovery_error" \/ Asked(Current', plan)
    BY <1>1, <2>1, StaysAsked DEF DInv
  <2>3. QED
    BY <1>2, <1>4, <2>2 DEF DInv
<1>5. CASE run.future # "pending" /\ run' = run
  BY <1>2, <1>5 DEF DInv
<1>6. CASE /\ CommitNow(e) /\ SyncPlanState(run.exec)
           /\ run.future = "pending" /\ run' = [run EXCEPT !.future = "answered"]
  <2>1. /\ run'.exec = None /\ run'.pc = run.pc /\ run'.future = "answered"
    BY <1>2, <1>6 DEF RunStates
  <2>2. e \in Answers /\ e.type = "answer" /\ e.plan = plan.plan /\ e.question = plan.question
    BY <1>1, PlanTypes DEF Answer, Answers, MaybeId
  <2>3. e \in Entries /\ Names(e, ids')
    BY <2>2 DEF Names, Entries
  <2>4. g \in Appends(Current, e) /\ file' = [file EXCEPT ![attached] = g]
    BY <1>6 DEF Appends, CommitNow, Current
  <2>5. Full(Current')
    BY <1>1, <1>6, BecomesFull
  <2> DEFINE s == Whole(Current, None)
  <2> HIDE DEF e, g
  <2>6. /\ s \in PlanState /\ WellFormed(s, None)
        /\ plan' = View(Step(s, e, Current.parent, None))
    BY <1>1, <1>2, <1>6, <2>3, <2>4, SeenStep
  <2> HIDE DEF s
  <2>7. Step(s, e, Current.parent, None).question = None
    BY <2>2, <2>3, <2>6, NoQuestionLeft
  <2>8. plan'.question = None
    BY <2>6, <2>7 DEF View
  <2>9. run'.pc = "question"
    BY <1>6, <2>1, WaitingAssumption DEF DInv
  <2>10. QED
    BY <2>1, <2>5, <2>8, <2>9 DEF DInv
<1>7. QED
  BY <1>1, <1>3, <1>4, <1>5, <1>6

\* A Plan run is owned once its start is on the disk.
LEMMA ExecuteD ==
  ASSUME IInv, PInv("any"), DInv, NEW token, ExecutePlan(token)
  PROVE  DInv'
<1> DEFINE e == Run("started", token, ids + 1)
<1>1. /\ attached' = attached /\ Free
      /\ \/ CommitNow(e) /\ run' = Owning(ids + 1)
         \/ run' = run
  BY DEF ExecutePlan, StartRaises
<1>2. run.exec = None /\ run.future = None
  BY <1>1, FreeOwes
<1>3. CASE CommitNow(e) /\ run' = Owning(ids + 1)
  <2>1. run'.future = None
    BY <1>3 DEF Owning, Run0
  <2>2. Full(Current')
    BY <1>1, <1>3, BecomesFull
  <2>3. QED
    BY <2>1, <2>2, WaitingAssumption DEF DInv
<1>4. QED
  BY <1>1, <1>2, <1>3, NothingOwed

\* A question is waited for once it is on the disk.
LEMMA AskD ==
  ASSUME IInv, UInv, PInv("any"), DInv, run.pc = "tools", run.todo # <<>>, Ask,
         attached' = attached
  PROVE  DInv'
<1> DEFINE e == Question(plan.plan, ids + 1)
           g == Flushed(Written(Current, e))
<1>1. /\ plan.mode = "plan" /\ ids < MaxIds /\ ids' = ids + 1
      /\ \/ /\ CommitNow(e) /\ SyncPlanState(None)
            /\ \/ run' = Done(TRUE)
               \/ run' = [run EXCEPT !.pc = "question", !.future = "pending"]
         \/ run' = Done(FALSE)
  BY DEF Ask
<1>2. run.exec = None /\ run \in RunStates /\ run.future = None
  BY <1>1, PlanTypes, RunIs DEF DInv
<1>3. CASE run' = Done(TRUE) \/ run' = Done(FALSE)
  <2>1. run'.exec = None /\ run'.future = None
    BY <1>2, <1>3, DoneIs
  <2>2. QED
    BY <2>1, NothingOwed
<1>4. CASE /\ CommitNow(e) /\ SyncPlanState(None)
           /\ run' = [run EXCEPT !.pc = "question", !.future = "pending"]
  <2>1. run'.exec = None /\ run'.pc = "question" /\ run'.future = "pending"
    BY <1>2, <1>4 DEF RunStates
  <2>2. e \in Questions /\ e.type = "question" /\ e.question = ids + 1
    BY <1>1, PlanTypes, FreshId DEF Question, Questions
  <2>3. e \in Entries /\ Names(e, ids')
    BY <1>1, <2>2, FreshId DEF Names, Entries
  <2>4. g \in Appends(Current, e) /\ file' = [file EXCEPT ![attached] = g]
    BY <1>4 DEF Appends, CommitNow, Current
  <2>5. Full(Current') /\ e = Question(plan.plan, ids + 1)
    BY <1>1, <1>4, BecomesFull
  <2> DEFINE s == Whole(Current, None)
             t == Step(s, e, Current.parent, None)
  <2> HIDE DEF e, g
  <2>6. s \in PlanState /\ WellFormed(s, None) /\ plan' = View(t)
    BY <1>1, <1>4, <2>3, <2>4, SeenStep
  <2>7. \/ plan'.phase = "recovery_error"
        \/ plan'.plan = e.plan /\ plan'.question = e.question
    <3> HIDE DEF s
    <3>1. plan' = View(Outcome(s, e, Current.parent, None))
      BY <2>3, <2>6, StepView
    <3>2. CASE s.blocked
      <4>1. Outcome(s, e, Current.parent, None) = s /\ s.phase = "recovery_error"
        BY <2>2, <2>6, <3>2 DEF Outcome, Recover, IsRecoveryExit, WellFormed
      <4>2. QED
        BY <3>1, <4>1 DEF View
    <3>3. CASE ~s.blocked /\ ~Valid(s, e, Current.parent)
      <4>1. Outcome(s, e, Current.parent, None).phase = "recovery_error"
        BY <2>6, <3>3 DEF Outcome, Block, PlanState
      <4>2. QED
        BY <3>1, <4>1 DEF View
    <3>4. CASE ~s.blocked /\ Valid(s, e, Current.parent)
      <4>1. Outcome(s, e, Current.parent, None) = OnQuestion(s, e) /\ e.plan = s.plan
        BY <2>2, <3>4 DEF Outcome, Accept, Valid, ValidQuestion
      <4>2. /\ OnQuestion(s, e).plan = e.plan /\ OnQuestion(s, e).question = e.question
        BY <2>6, <4>1 DEF OnQuestion, PlanState
      <4>3. QED
        BY <3>1, <4>1, <4>2 DEF View
    <3>5. QED
      BY <3>2, <3>3, <3>4
  <2>8. ASSUME plan'.plan = e.plan, plan'.question = e.question
        PROVE  Asked(Current', plan')
    <3>1. PICK S : Current \in FilesOf(S)
      BY AttachedFits DEF Fits, FitsIn
    <3>2. OneMore(g, Current, e)
      BY <2>4, AttachedFits, AppendsBranch
    <3>3. Current' = g
      BY <2>4 DEF Current, IInv, AllFit
    <3>4. e.plan = plan.plan /\ Question(plan'.plan, plan'.question) = e
      BY <2>5, <2>8 DEF Question, e
    <3>5. Len(Current.log) \in Nat
      BY <3>1 DEF FilesOf
    <3>6. /\ Len(g.log) = Len(Current.log) + 1 /\ g.log[Len(Current.log) + 1] = e
      BY <3>2 DEF OneMore
    <3>7. g.durable = Len(Current.log) + 1
      BY <2>5, <3>3, <3>6 DEF Full
    <3>8. Len(Current.log) + 1 \in 1 .. g.durable
      BY <3>5, <3>7
    <3>9. QED
      BY <3>3, <3>4, <3>6, <3>8 DEF Asked
  <2>9. QED
    BY <2>1, <2>7, <2>8 DEF DInv
<1>5. QED
  BY <1>1, <1>3, <1>4

\* Every control keeps the invariant.
LEMMA HostKeepsDInv ==
  ASSUME IInv, UInv, PInv("any"), DInv, HostStep
  PROVE  DInv'
<1>1. ASSUME NEW s \in SessionId, Attach(s) PROVE DInv'
  <2>1. run'.exec = None /\ run'.future = None
    BY <1>1 DEF Attach, Run0
  <2>2. QED
    BY <2>1, NothingOwed
<1>2. CASE EnterPlanMode
  BY <1>2, FreeOwes, NothingOwed DEF EnterPlanMode
<1>3. CASE \E token \in Tokens, s \in SessionId : HandoffPlan(token, s)
  <2>1. PICK token \in Tokens, s \in SessionId : HandoffPlan(token, s)
    BY <1>3
  <2>2. Free /\ (run' = run \/ \E t \in SessionId : Attach(t))
    BY <2>1 DEF HandoffPlan
  <2>3. QED
    BY <1>1, <2>2, FreeOwes, NothingOwed
<1>4. CASE \E s \in SessionId : NewSession(s)
  <2>1. PICK s \in SessionId : NewSession(s)
    BY <1>4
  <2>2. Free /\ (run' = run \/ Attach(s))
    BY <2>1 DEF NewSession
  <2>3. QED
    BY <1>1, <2>2, FreeOwes, NothingOwed
<1>5. CASE \E n \in BranchPoints : SwitchBranch(n)
  <2>1. run.pc = "idle" /\ run' = run
    BY <1>5 DEF SwitchBranch
  <2>2. run.exec = None /\ run.future = None
    BY <2>1, RunIs DEF DInv
  <2>3. QED
    BY <2>1, <2>2, NothingOwed
<1>6. CASE AppendOther
  <2>1. /\ attached' = attached /\ plan' = plan /\ run' = run
        /\ Safe
    BY <1>6 DEF AppendOther, Safe
  <2>2. Writes
    BY <1>6, PlainHostSteps
  <2>3. QED
    BY <2>1, <2>2, LooksOn
<1>7. CASE Prompt
  <2>1. run'.exec = None /\ run'.future = None
    BY <1>7 DEF Prompt, Run0
  <2>2. QED
    BY <2>1, NothingOwed
<1>8. CASE Abort \/ Steer
  <2>1. /\ UNCHANGED <<file, attached, plan>>
        /\ run'.exec = run.exec /\ run'.future = run.future /\ run'.pc = run.pc
    BY <1>8, RunIs DEF Abort, Steer, RunStates
  <2>2. QED
    BY <2>1, LooksOn DEF Safe, Writes
<1>9. CASE CancelTask
  <2>1. CASE run' = [Done(FALSE) EXCEPT !.pc = "tools", !.future = None, !.abort = TRUE]
             /\ file' = file /\ run.todo # <<>>
    <3> DEFINE d == Done(FALSE)
    <3>1. d \in RunStates /\ d.exec = run.exec
      BY <2>1, RunIs, DoneIs, DoneStands
    <3>2. run' = [d EXCEPT !.pc = "tools", !.future = None, !.abort = TRUE]
      BY <2>1
    <3> HIDE DEF d
    <3>3. run'.exec = run.exec /\ run'.future = None
      BY <3>1, <3>2 DEF RunStates
    <3>4. QED
      BY <1>9, <2>1, <3>3, GoesOn DEF Safe, CancelTask
  <2>2. CASE run' = Run0
    BY <2>2, NothingOwed DEF Run0
  <2>3. QED
    BY <1>9, <2>1, <2>2 DEF CancelTask, FinishPlanRun
<1>10. QED
  BY <1>2, <1>3, <1>4, <1>5, <1>6, <1>7, <1>8, <1>9, CancelD, AnswerD, ExecuteD DEF HostStep

\* The loop asks the model again.
LEMMA NextRequestD ==
  ASSUME IInv, DInv, NEW r \in RunStates, r.exec = run.exec, r.future = None,
         NextRequest(r), attached' = attached
  PROVE  DInv'
<1> DEFINE tools == EffectiveTools(plan')
           todo == <<>>
<1>1. /\ AgentAppends(UserMessage)
      /\ run' = [r EXCEPT !.pc = "model", !.tools = tools, !.todo = todo, !.steer = FALSE]
  BY DEF NextRequest
<1> HIDE DEF tools, todo
<1>2. run'.exec = run.exec /\ run'.future = None
  BY <1>1 DEF RunStates
<1>3. QED
  BY <1>1, <1>2, GoesOn DEF Safe

\* The end of a Plan run ends it, whatever raises.
LEMMA FinishD ==
  ASSUME NEW status, FinishPlanRun(status)
  PROVE  DInv'
<1>1. run'.exec = None /\ run'.future = None
  BY DEF FinishPlanRun, Run0
<1>2. QED
  BY <1>1, NothingOwed

\* Every step of a run keeps the invariant.
LEMMA RunKeepsDInv ==
  ASSUME IInv, UInv, PInv("any"), DInv, RunStep
  PROVE  DInv'
<1>1. run \in RunStates /\ (run.pc # "question" => run.future = None) /\ attached' = attached
  BY RunIs, RunSteps DEF DInv
<1>2. CASE Begin
  <2>1. run.future = None
    BY <1>1, <1>2 DEF Begin
  <2>2. QED
    BY <1>1, <1>2, <2>1, NextRequestD, FinishD DEF Begin
<1>3. CASE Model
  <2>1. PICK stop, batch, call : Reply(stop, batch, call)
    BY <1>3 DEF Model
  <2> DEFINE ends == stop \in {"error", "aborted"}
             sole == call # None /\ Len(batch) = 1 /\ stop = "stop"
             pc == IF ends THEN "settle" ELSE "tools"
             end == IF run.exec = None THEN None ELSE stop
             turn == IF batch = <<>> THEN "last" ELSE "ended"
  <2>2. /\ AgentAppends(AssistantMessage(call, sole))
        /\ run' = [run EXCEPT !.pc = pc, !.stop = end, !.todo = batch, !.call = call,
                              !.sole = sole, !.turn = turn]
    BY <2>1 DEF Reply
  <2>3. run.future = None
    BY <1>1, <1>3 DEF Model
  <2> HIDE DEF sole, pc, end, turn
  <2>4. run'.exec = run.exec /\ run'.future = None
    BY <1>1, <2>2, <2>3 DEF RunStates
  <2>5. QED
    BY <1>1, <2>2, <2>4, GoesOn DEF Safe
<1>4. CASE Tool
  <2>1. run.pc = "tools" /\ run.todo # <<>> /\ run.future = None
    BY <1>1, <1>4 DEF Tool
  <2>2. CASE run' = Done(FALSE) /\ file' = file
    <3>1. run'.exec = run.exec /\ run'.future = None
      BY <1>1, <2>1, <2>2, DoneIs
    <3>2. QED
      BY <1>1, <2>2, <3>1, GoesOn DEF Safe
  <2>3. CASE Ask
    BY <1>1, <2>1, <2>3, AskD
  <2>4. CASE SubmitPlan
    <3>1. run.exec = None /\ (run' = Done(TRUE) \/ run' = Done(FALSE))
      BY <2>4, PlanTypes DEF SubmitPlan
    <3>2. run'.exec = None /\ run'.future = None
      BY <1>1, <2>1, <3>1, DoneIs
    <3>3. QED
      BY <3>2, NothingOwed
  <2>5. QED
    BY <1>4, <2>2, <2>3, <2>4 DEF Tool, Refused
<1>5. CASE EndTurn
  <2> DEFINE next == [run EXCEPT !.call = None, !.sole = FALSE, !.turn = "last"]
  <2>1. run.future = None
    BY <1>1, <1>5 DEF EndTurn
  <2>2. next \in RunStates /\ next.exec = run.exec /\ next.future = None
    BY <1>1, <2>1 DEF RunStates, MaybeId
  <2>3. \/ /\ run' = [next EXCEPT !.pc = "settle", !.tools = {}, !.steer = FALSE]
           /\ file' = file
        \/ NextRequest(next)
        \/ run' = [next EXCEPT !.pc = "model"] /\ file' = file
    BY <1>5 DEF EndTurn
  <2> HIDE DEF next
  <2>4. CASE NextRequest(next)
    BY <1>1, <2>2, <2>4, NextRequestD
  <2>5. CASE file' = file /\ ~NextRequest(next)
    <3>1. run'.exec = run.exec /\ run'.future = None
      BY <2>2, <2>3, <2>5 DEF RunStates
    <3>2. QED
      BY <1>1, <2>5, <3>1, GoesOn DEF Safe
  <2>6. QED
    BY <2>3, <2>4, <2>5
<1>6. CASE QuestionReturns
  <2> DEFINE d == Done(run.future # "answered")
  <2>1. /\ file' = file /\ run.todo # <<>>
        /\ run' = [d EXCEPT !.pc = "tools", !.future = None]
    BY <1>6, AttachedFits DEF QuestionReturns, RunStands
  <2>2. d \in RunStates /\ d.exec = run.exec
    BY <1>1, <2>1, DoneIs, DoneStands
  <2> HIDE DEF d
  <2>3. run'.exec = run.exec /\ run'.future = None
    BY <2>1, <2>2 DEF RunStates
  <2>4. QED
    BY <1>1, <2>1, <2>3, GoesOn DEF Safe
<1>7. CASE Settle
  <2>1. CASE run' = Run0
    BY <2>1, NothingOwed DEF Run0
  <2>2. QED
    BY <1>7, <2>1, FinishD DEF Settle
<1>8. QED
  BY <1>2, <1>3, <1>4, <1>5, <1>6, <1>7 DEF RunStep

\* So does every step.
LEMMA NextKeepsDInv ==
  ASSUME IInv, UInv, PInv("any"), DInv, [Next]_vars
  PROVE  DInv'
<1>1. CASE UNCHANGED vars
  BY <1>1 DEF vars, DInv, Current
<1>2. CASE Crash
  <2>1. run'.exec = None /\ run'.future = None
    BY <1>2 DEF Crash, Attach, Run0
  <2>2. QED
    BY <2>1, NothingOwed
<1>3. QED
  BY <1>1, <1>2, HostKeepsDInv, RunKeepsDInv DEF Next

\* "Execution writes and flushes plan_run: started before enabling Default tools"
\* (docs/plan-mode.md), and what the model is told of an answer is on the disk before:
\* whatever append or flush raises, and in whatever order controls, tools and crashes
\* come, a boundary that may not be there is not acted upon.
THEOREM AuthorizationIsAlwaysDurable == Spec => []AuthorizationIsDurable
<1>1. IInv /\ UInv /\ [Next]_vars => UInv'
  BY NextSurvives
<1>2. Spec => []UInv
  BY <1>1, InitUInv, Invariance, PTL DEF Spec
<1>3. Init => DInv
  BY WaitingAssumption DEF Init, DInv, Run0
<1>4. IInv /\ UInv /\ PlanInv /\ DInv /\ [Next]_vars => DInv'
  BY NextKeepsDInv DEF PlanInv
<1>5. DInv => AuthorizationIsDurable
  BY DEF DInv, AuthorizationIsDurable, Full, Asked
<1>6. QED
  BY <1>2, <1>3, <1>4, <1>5, PlanInvariance, PTL DEF Spec


-----------------------------------------------------------------------------
(* What a session says of a handoff.                                       *)

\* g ends in the entry of a handoff that f does not have.
Told(f, g) == Len(g.log) > Len(f.log) /\ HandsOver(g.log[Len(g.log)])

\* No session comes to say so.
NoneTold(files, others) == \A s \in SessionId : ~Told(files[s], others[s])

\* Another entry says nothing of a handoff.
LEMMA AppendsTell ==
  ASSUME NEW f, Fits(f), NEW e, NEW g \in Appends(f, e), Told(f, g)
  PROVE  HandsOver(e)
<1>1. OneMore(g, f, e)
  BY AppendsBranch
<1>2. QED
  BY <1>1 DEF OneMore, Told

\* Neither does a branch that got no longer.
LEMMA NoMoreTells ==
  ASSUME NEW f, Fits(f), NEW g, g.log = f.log \/ g.log = <<>>
  PROVE  ~Told(f, g)
<1>1. PICK S : f \in FilesOf(S)
  BY DEF Fits, FitsIn
<1>2. Len(f.log) \in Nat
  BY <1>1 DEF FilesOf
<1>3. Len(g.log) <= Len(f.log)
  BY <1>2
<1>4. QED
  BY <1>2, <1>3 DEF Told

\* Nor what a write of another entry leaves when it raises.
LEMMA RaisedTells ==
  ASSUME NEW f, Fits(f), NEW e, ~HandsOver(e), NEW g \in Raised(f, e)
  PROVE  ~Told(f, g)
<1> DEFINE h == Longer(f, e)
<1>1. PICK S : FitsIn(f, S)
  BY DEF Fits
<1>2. f \in FilesOf(S) /\ h \in FilesOf(S \cup {e}) /\ OneMore(h, f, e)
  BY <1>1, LongerBranch DEF FitsIn
<1>3. g \in FailedWrites(f) \/ g \in FailedWrites(h)
  BY DEF Raised
<1> HIDE DEF h
<1>4. CASE g \in FailedWrites(f)
  <2>1. g.log = f.log
    BY <1>2, <1>4 DEF FailedWrites, FilesOf
  <2>2. QED
    BY <2>1, NoMoreTells
<1>5. CASE g \in FailedWrites(h)
  <2>1. g.log = h.log
    BY <1>2, <1>5 DEF FailedWrites, FilesOf
  <2>2. QED
    BY <1>2, <2>1 DEF OneMore, Told
<1>6. QED
  BY <1>3, <1>4, <1>5

\* Nor a part of it, with diagnostics behind it.
LEMMA PartTells ==
  ASSUME NEW S, NEW f \in FilesOf(S), NEW n \in Nat, n <= Len(f.log),
         NEW u \in Seq({Issue}), NEW g, g.log = SubSeq(f.log, 1, n) \o u
  PROVE  ~Told(f, g)
<1> DEFINE s == f.log
           T == S \cup {Issue}
           t == SubSeq(s, 1, n)
           v == t \o u
<1>1. s \in Seq(S) /\ S \subseteq T /\ {Issue} \subseteq T
  BY DEF FilesOf
<1>2. s \in Seq(T) /\ u \in Seq(T) /\ \A j \in 1 .. Len(u) : u[j] = Issue
  BY <1>1, Widens
<1>3. t = SubSeq(s, 1, n) /\ v = t \o u /\ g.log = v /\ s = f.log
  OBVIOUS
<1> HIDE DEF s, t, v, T
<1>4. t \in Seq(T) /\ Len(t) = n
  BY <1>2, <1>3, Parts
<1>5. /\ Len(v) = Len(t) + Len(u) /\ Len(u) \in Nat
      /\ \A j \in 1 .. Len(u) : v[Len(t) + j] = u[j]
  BY <1>2, <1>3, <1>4, Concatenation
<1>6. SUFFICES ASSUME Len(v) > Len(s) PROVE ~HandsOver(v[Len(v)])
  BY <1>3 DEF Told
<1>7. Len(s) \in Nat
  BY <1>2
<1>8. Len(u) \in 1 .. Len(u)
  BY <1>3, <1>4, <1>5, <1>6, <1>7
<1>9. v[Len(v)] = Issue
  BY <1>2, <1>5, <1>8
<1>10. QED
  BY <1>9, Speaking

\* Nor what a crash leaves.
LEMMA RecoveredTells ==
  ASSUME NEW f, Fits(f), NEW torn \in BOOLEAN
  PROVE  ~Told(f, Recovered(f, torn))
<1>1. PICK S : FitsIn(f, S)
  BY DEF Fits
<1> DEFINE u == IF torn THEN <<Issue>> ELSE <<>>
           v == SubSeq(f.log, 1, f.durable) \o u
           k == Len(v)
           none == [Unused EXCEPT !.used = TRUE]
<1>2. f \in FilesOf(S) /\ f.durable \in Nat /\ f.durable <= Len(f.log)
  BY <1>1 DEF FitsIn, FilesOf
<1>3. u \in Seq({Issue})
  <2>1. <<>> \in Seq({Issue}) /\ <<Issue>> \in Seq({Issue})
    OBVIOUS
  <2>2. QED
    BY <2>1
<1>4. Recovered(f, torn) = IF f.flushed THEN [f EXCEPT !.log = v, !.durable = k] ELSE none
  BY DEF Recovered
<1>5. none.log = <<>>
  BY NothingInIt
<1>6. v = SubSeq(f.log, 1, f.durable) \o u
  OBVIOUS
<1> HIDE DEF u, v, k, none
<1>7. CASE f.flushed
  <2>1. Recovered(f, torn).log = v
    BY <1>2, <1>4, <1>7 DEF FilesOf
  <2>2. QED
    BY <1>2, <1>3, <1>6, <2>1, PartTells
<1>8. CASE ~f.flushed
  BY <1>4, <1>5, <1>8, NoMoreTells
<1>9. QED
  BY <1>7, <1>8

\* No entry of f is of a handoff that was made.
Silent(f) == \A i \in 1 .. Len(f.log) : ~HandsOver(f.log[i])

\* What is left of such a file tells nothing.
LEMMA RecoveredSilent ==
  ASSUME NEW f, Fits(f), Silent(f), NEW h, Fits(h)
  PROVE  ~Told(h, Recovered(f, FALSE))
<1>1. PICK S : FitsIn(f, S)
  BY DEF Fits
<1> DEFINE n == f.durable
           u == <<>>
           t == SubSeq(f.log, 1, n)
           v == t \o u
           k == Len(v)
           g == Recovered(f, FALSE)
           none == [Unused EXCEPT !.used = TRUE]
<1>2. /\ f \in FilesOf(S) /\ f.log \in Seq(S) /\ n \in Nat /\ n <= Len(f.log) /\ u \in Seq(S)
      /\ Len(u) = 0
  BY <1>1 DEF FitsIn, FilesOf
<1>3. g = IF f.flushed THEN [f EXCEPT !.log = v, !.durable = k] ELSE none
  BY DEF Recovered
<1>4. none.log = <<>>
  BY NothingInIt
<1>5. t = SubSeq(f.log, 1, n) /\ v = t \o u
  OBVIOUS
<1> HIDE DEF n, u, t, v, k, g, none
<1>6. t \in Seq(S) /\ Len(t) = n /\ \A i \in 1 .. n : t[i] = f.log[i]
  BY <1>2, <1>5, Parts
<1>7. Len(v) = n /\ \A i \in 1 .. n : v[i] = f.log[i]
  BY <1>2, <1>5, <1>6, Concatenation
<1>8. CASE f.flushed
  <2>1. g.log = v
    BY <1>2, <1>3, <1>8 DEF FilesOf
  <2>2. PICK U : h \in FilesOf(U)
    BY DEF Fits, FitsIn
  <2>3. Len(h.log) \in Nat
    BY <2>2 DEF FilesOf
  <2>4. ASSUME Told(h, g) PROVE FALSE
    <3>1. n > Len(h.log) /\ HandsOver(v[n])
      BY <1>7, <2>1, <2>4 DEF Told
    <3>2. n \in 1 .. n /\ n \in 1 .. Len(f.log)
      BY <1>2, <2>3, <3>1
    <3>3. QED
      BY <1>7, <3>1, <3>2 DEF Silent
  <2>5. QED
    BY <2>4 DEF g
<1>9. CASE ~f.flushed
  BY <1>3, <1>4, <1>9, NoMoreTells DEF g
<1>10. QED
  BY <1>8, <1>9

\* A failed write leaves it so.
LEMMA FailedSilent ==
  ASSUME NEW f, Fits(f), Silent(f), NEW g \in FailedWrites(f)
  PROVE  Silent(g)
<1>1. PICK S : f \in FilesOf(S)
  BY DEF Fits, FitsIn
<1>2. g.log = f.log
  BY <1>1 DEF FailedWrites, FilesOf
<1>3. QED
  BY <1>2 DEF Silent

\* Nor /tree.
LEMMA SwitchedTells ==
  ASSUME NEW f, Fits(f), NEW n \in Nat, n < Len(f.log)
  PROVE  ~Told(f, Switched(f, n))
<1>1. PICK S : FitsIn(f, S)
  BY DEF Fits
<1> DEFINE u == IssuesAfter(f.log, n)
           v == SubSeq(f.log, 1, n) \o u
           b == Back(f, n)
           T == S \cup {Issue}
<1>2. f \in FilesOf(S) /\ f.log \in Seq(S) /\ Len(f.log) \in Nat
  BY <1>1 DEF FitsIn, FilesOf
<1>3. u \in Seq({Issue})
  BY <1>2, IssuesFit
<1>4. b = [f EXCEPT !.log = v]
  BY DEF Back
<1>5. Switched(f, n) = IF f.flushed THEN Flushed(b) ELSE b
  BY DEF Switched
<1>6. v = SubSeq(f.log, 1, n) \o u
  OBVIOUS
<1> HIDE DEF u, v, b
<1>7. b.log = v
  BY <1>2, <1>4 DEF FilesOf
<1>8. Flushed(b).log = b.log
  <2> DEFINE k == Len(b.log)
  <2>1. Flushed(b) = [b EXCEPT !.flushed = TRUE, !.durable = k]
    BY DEF Flushed
  <2> HIDE DEF k
  <2>2. b = [used |-> f.used, parent |-> f.parent, log |-> v,
             flushed |-> f.flushed, durable |-> f.durable]
    BY <1>2, <1>4 DEF FilesOf
  <2>3. QED
    BY <2>1, <2>2
<1>9. Switched(f, n).log = v
  BY <1>5, <1>7, <1>8
<1>10. n <= Len(f.log)
  BY <1>2
<1>11. QED
  BY <1>2, <1>3, <1>6, <1>9, <1>10, PartTells

\* One file is replaced.
LEMMA OneFileTells ==
  ASSUME NEW files, AllFit(files), NEW s \in SessionId, NEW g, ~Told(files[s], g),
         NEW others, others = [files EXCEPT ![s] = g]
  PROVE  NoneTold(files, others)
<1>1. ASSUME NEW t \in SessionId, t # s PROVE ~Told(files[t], others[t])
  <2>1. others[t] = files[t] /\ Fits(files[t])
    BY <1>1 DEF AllFit
  <2>2. QED
    BY <2>1, NoMoreTells
<1>2. others[s] = g
  BY DEF AllFit
<1>3. QED
  BY <1>1, <1>2 DEF NoneTold

\* What is written into the attached session alone.
LEMMA WritesTell ==
  ASSUME IInv, Writes
  PROVE  NoneTold(file, file')
<1>1. AllFit(file) /\ Fits(Current) /\ attached \in SessionId
  BY AttachedFits DEF IInv
<1>2. CASE file' = file
  BY <1>1, <1>2, NoMoreTells DEF NoneTold, AllFit
<1>3. ASSUME NEW e, ~HandsOver(e), NEW g \in Appends(Current, e),
             file' = [file EXCEPT ![attached] = g]
      PROVE  NoneTold(file, file')
  <2>1. ~Told(file[attached], g)
    BY <1>1, <1>3, AppendsTell DEF Current
  <2>2. QED
    BY <1>1, <1>3, <2>1, OneFileTells
<1>4. ASSUME NEW e, ~HandsOver(e), NEW g \in Raised(Current, e),
             file' = [file EXCEPT ![attached] = g]
      PROVE  NoneTold(file, file')
  <2>1. ~Told(file[attached], g)
    BY <1>1, <1>4, RaisedTells DEF Current
  <2>2. QED
    BY <1>1, <1>4, <2>1, OneFileTells
<1>5. ASSUME NEW e, ~HandsOver(e), Commit(e) \/ CommitNow(e)
      PROVE  NoneTold(file, file')
  <2>1. PICK g \in {Written(Current, e), Flushed(Written(Current, e))} :
               file' = [file EXCEPT ![attached] = g]
    BY <1>5 DEF Commit, CommitNow, Current
  <2>2. QED
    BY <1>3, <1>5, <2>1 DEF Appends
<1>6. ASSUME NEW e, ~HandsOver(e), AgentAppends(e)
      PROVE  NoneTold(file, file')
  <2>1. CASE Commit(e)
    BY <1>5, <1>6, <2>1
  <2>2. CASE WriteRaises(Current)
    BY <1>4, <1>6, <2>2 DEF WriteRaises, Raised
  <2>3. QED
    BY <1>6, <2>1, <2>2 DEF AgentAppends
<1>7. ASSUME NEW e, ~HandsOver(e), CommitRaises(e) \/ AppendRaises \/ FlushRaises(e)
      PROVE  NoneTold(file, file')
  BY <1>4, <1>7, RaisingWrites
<1>8. QED
  BY <1>2, <1>5, <1>6, <1>7 DEF Writes

\* A failed write into the attached session alone.
LEMMA FailureTells ==
  ASSUME IInv, NEW g \in FailedWrites(Current), file' = [file EXCEPT ![attached] = g]
  PROVE  NoneTold(file, file')
<1>1. AllFit(file) /\ Fits(Current) /\ attached \in SessionId
  BY AttachedFits DEF IInv
<1>2. g \in Raised(Current, Other)
  BY DEF Raised
<1>3. ~Told(file[attached], g)
  BY <1>1, <1>2, RaisedTells, Speaking DEF Current
<1>4. QED
  BY <1>1, <1>3, OneFileTells

\* The user enters Plan Mode.
LEMMA EnterTells ==
  ASSUME IInv, EnterPlanMode
  PROVE  NoneTold(file, file')
<1> DEFINE exit == ModeChange("default", plan.plan, "user", None)
           enter == ModeChange("plan", ids + 1, "user", None)
           left == IF plan.phase = "recovery_error" THEN Written(Current, exit) ELSE Current
           entered == Written(left, enter)
<1>1. \/ file' = [file EXCEPT ![attached] = entered]
      \/ \E g \in FailedWrites(Current) : file' = [file EXCEPT ![attached] = g]
      \/ \E g \in FailedWrites(left) : file' = [file EXCEPT ![attached] = g]
  BY DEF EnterPlanMode, Current, AppendRaises, WriteRaises
<1>2. AllFit(file) /\ Fits(Current) /\ attached \in SessionId
  BY AttachedFits DEF IInv
<1>3. ~HandsOver(exit) /\ ~HandsOver(enter)
  BY Speaking
<1>4. Written(Current, exit) \in Appends(Current, exit) /\ entered \in Appends(left, enter)
  BY DEF Appends
<1> HIDE DEF exit, enter, entered
<1>5. Fits(left) /\ ~Told(Current, left)
  BY <1>2, <1>3, <1>4, WrittenFits, AppendsTell, NoMoreTells
<1>6. ~Told(Current, entered)
  <2>1. OneMore(entered, left, enter)
    BY <1>4, <1>5, AppendsBranch
  <2>2. QED
    BY <1>3, <2>1 DEF OneMore, Told
<1> HIDE DEF left
<1>7. ASSUME NEW g \in FailedWrites(left) PROVE ~Told(Current, g)
  <2>1. PICK S : left \in FilesOf(S)
    BY <1>5 DEF Fits, FitsIn
  <2>2. g.log = left.log
    BY <1>7, <2>1 DEF FailedWrites, FilesOf
  <2>3. QED
    BY <1>5, <2>2 DEF Told
<1>8. CASE \E g \in FailedWrites(Current) : file' = [file EXCEPT ![attached] = g]
  BY <1>8, FailureTells
<1>9. QED
  BY <1>1, <1>2, <1>6, <1>7, <1>8, OneFileTells DEF Current

\* The user leaves the session.
LEMMA NewSessionTells ==
  ASSUME IInv, UInv, NEW s \in SessionId, NewSession(s)
  PROVE  NoneTold(file, file')
<1> DEFINE left == IF Meaningful(Current) THEN Flushed(Current) ELSE Current
<1>1. /\ ~file[s].used
      /\ \/ file' = [file EXCEPT ![attached] = left, ![s] = Blank(None)]
         \/ \E g \in FailedWrites(Current) : file' = [file EXCEPT ![attached] = g]
  BY DEF NewSession, Current, WriteRaises
<1>2. /\ AllFit(file) /\ attached \in SessionId /\ Fits(Current) /\ s # attached
  BY <1>1, AttachedFits DEF IInv, UInv
<1>3. left.log = Current.log
  <2>1. PICK S : Current \in FilesOf(S)
    BY <1>2 DEF Fits, FitsIn
  <2>2. Flushed(Current).log = Current.log
    BY <2>1, FlushedBranch
  <2>3. QED
    BY <2>2
<1> HIDE DEF left
<1>4. ASSUME file' = [file EXCEPT ![attached] = left, ![s] = Blank(None)], NEW t \in SessionId
      PROVE  ~Told(file[t], file'[t])
  <2>1. Fits(file[t])
    BY <1>2 DEF AllFit
  <2>2. file'[t] = IF t = s THEN Blank(None) ELSE IF t = attached THEN left ELSE file[t]
    BY <1>2, <1>4 DEF AllFit
  <2>3. Blank(None).log = <<>>
    BY NothingInIt
  <2>4. QED
    BY <1>3, <2>1, <2>2, <2>3, NoMoreTells DEF Current
<1>5. QED
  BY <1>1, <1>4, FailureTells DEF NoneTold

\* The process dies.
LEMMA CrashTells ==
  ASSUME IInv, Crash
  PROVE  NoneTold(file, file')
<1>1. PICK torn \in BOOLEAN, s \in SessionId :
        LET found == [file EXCEPT ![attached] = Recovered(Current, torn)] IN
        \/ file' = found
        \/ file' = [found EXCEPT ![s] = Blank(None)]
  BY DEF Crash, Current
<1> DEFINE left == Recovered(Current, torn)
           found == [file EXCEPT ![attached] = left]
<1>2. /\ AllFit(file) /\ attached \in SessionId /\ Fits(Current)
  BY AttachedFits DEF IInv
<1>3. ~Told(Current, left)
  BY <1>2, RecoveredTells
<1>4. file' = found \/ file' = [found EXCEPT ![s] = Blank(None)]
  BY <1>1
<1> HIDE DEF left
<1>5. ASSUME NEW t \in SessionId PROVE ~Told(file[t], file'[t])
  <2>1. Fits(file[t])
    BY <1>2 DEF AllFit
  <2>2. file'[t] \in {Blank(None), IF t = attached THEN left ELSE file[t]}
    BY <1>2, <1>4 DEF AllFit
  <2>3. Blank(None).log = <<>>
    BY NothingInIt
  <2>4. QED
    BY <1>3, <2>1, <2>2, <2>3, NoMoreTells DEF Current
<1>6. QED
  BY <1>5 DEF NoneTold

\* The user goes back.
LEMMA SwitchTells ==
  ASSUME IInv, NEW n \in BranchPoints, SwitchBranch(n)
  PROVE  NoneTold(file, file')
<1> DEFINE g == Switched(Current, n)
<1>1. /\ n < Len(Current.log)
      /\ \/ file' = [file EXCEPT ![attached] = g]
         \/ \E f \in FailedWrites(Current) : file' = [file EXCEPT ![attached] = f]
  BY DEF SwitchBranch, Switched, Back, Current, AppendRaises, WriteRaises
<1>2. n \in Nat
  BY BoundAssumption
<1>3. AllFit(file) /\ attached \in SessionId /\ Fits(Current)
  BY AttachedFits DEF IInv
<1>4. ~Told(file[attached], g)
  BY <1>1, <1>2, <1>3, SwitchedTells DEF Current
<1> HIDE DEF g
<1>5. QED
  BY <1>1, <1>3, <1>4, OneFileTells, FailureTells

\* What the child of a handoff is on the disk.
LEMMA ReviewIs ==
  ASSUME NEW origin \in SessionId, NEW latest
  PROVE  /\ LET g == Review(origin, latest) IN
            /\ g.flushed /\ g.durable = Len(g.log) /\ g.parent = origin
            /\ \A x : ~Told(x, g)
         /\ Silent(Draft(origin, latest)) /\ Fits(Draft(origin, latest))
<1> DEFINE mode == ModeChange("plan", latest.plan, "handoff", origin)
           copy == Revision(latest.plan, latest.number, latest.call, latest.source, origin)
           f == Blank(origin)
           g == Written(f, mode)
           h == Written(g, copy)
<1>1. Fits(f) /\ f.parent = origin /\ f.log = <<>>
  BY UnusedFits, NothingInIt DEF MaybeSession
<1>2. ~HandsOver(mode) /\ ~HandsOver(copy)
  BY Speaking
<1>3. Review(origin, latest) = Flushed(h) /\ Draft(origin, latest) = h
  BY DEF Review, Draft
<1>4. g \in Appends(f, mode) /\ h \in Appends(g, copy)
  BY DEF Appends
<1> HIDE DEF mode, copy, f
<1>5. Fits(g)
  BY <1>1, WrittenFits
<1>16. OneMore(g, f, mode)
  BY <1>1, <1>4, AppendsBranch
<1>6. g.parent = origin /\ OneMore(g, f, mode)
  BY <1>1, <1>16 DEF OneMore
<1> HIDE DEF g
<1>7. OneMore(h, g, copy) /\ Fits(h)
  BY <1>4, <1>5, AppendsBranch, WrittenFits
<1>8. PICK T : h \in FilesOf(T)
  BY <1>7 DEF Fits, FitsIn
<1> HIDE DEF h
<1>9. Flushed(h).log = h.log /\ Flushed(h).parent = h.parent
  BY <1>8, FlushedBranch
<1>10. Flushed(h).flushed /\ Flushed(h).durable = Len(h.log)
  BY <1>8, <1>9, FlushedIsFull DEF Full
<1>11. Flushed(h).log[Len(Flushed(h).log)] = copy
  BY <1>7, <1>9 DEF OneMore
<1>12. \A x : ~Told(x, Flushed(h))
  BY <1>2, <1>11 DEF Told
<1>13. Flushed(h).parent = origin
  BY <1>6, <1>7, <1>9 DEF OneMore
<1>14. Silent(h)
  <2>1. /\ Len(f.log) = 0 /\ Len(g.log) = 1 /\ Len(h.log) = 2
        /\ g.log[1] = mode /\ h.log[1] = g.log[1] /\ h.log[2] = copy
    BY <1>1, <1>6, <1>7 DEF OneMore
  <2>2. QED
    BY <1>2, <2>1 DEF Silent
<1>15. QED
  BY <1>3, <1>7, <1>9, <1>10, <1>12, <1>13, <1>14

\* What a handoff that succeeds has written.
Handed(token, s) ==
  /\ HandoffPlan(token, s)
  /\ file' = [[file EXCEPT ![s] = Review(attached, plan.latest)] EXCEPT
                ![attached] =
                  Written(Flushed(@), ModeChange("default", plan.plan, "handoff", s))]

\* Only the source of a handoff that succeeds tells of it.
LEMMA HandoffTells ==
  ASSUME IInv, UInv, NEW token, NEW s \in SessionId, HandoffPlan(token, s),
         NEW t \in SessionId, Told(file[t], file'[t])
  PROVE  t = attached /\ Handed(token, s)
<1> DEFINE review == Review(attached, plan.latest)
           draft == Draft(attached, plan.latest)
           child == [file EXCEPT ![s] = review]
           handed == ModeChange("default", plan.plan, "handoff", s)
           crashed == Recovered(Current, FALSE)
<1>1. /\ ~file[s].used
      /\ \/ file' = [child EXCEPT ![attached] = Written(Flushed(child[attached]), handed)]
         \/ \E f \in FailedWrites(draft) : file' = [file EXCEPT ![s] = Recovered(f, FALSE)]
         \/ \E f \in FailedWrites(Current) : file' = [child EXCEPT ![attached] = f]
         \/ file' = [child EXCEPT ![attached] = Recovered(child[attached], FALSE)]
  BY DEF HandoffPlan, Current
<1>2. /\ AllFit(file) /\ attached \in SessionId /\ s # attached /\ Fits(Current) /\ Fits(file[t])
      /\ Fits(file[s])
  BY <1>1, AttachedFits DEF IInv, UInv, AllFit
<1>3. child[attached] = Current /\ child[s] = review
      /\ \A x \in SessionId : x # s => child[x] = file[x]
  BY <1>2 DEF AllFit, Current
<1>4. ~Told(Current, crashed)
  BY <1>2, RecoveredTells
<1>5. ~Told(file[t], review) /\ ~Told(file[t], file[t])
  BY <1>2, ReviewIs, NoMoreTells
<1>6. DOMAIN child = SessionId /\ DOMAIN file = SessionId
  BY <1>2 DEF AllFit
<1>7. Fits(draft) /\ Silent(draft)
  BY <1>2, ReviewIs
<1> HIDE DEF review, child, handed, crashed, draft
<1>8. ASSUME NEW f \in FailedWrites(draft), file' = [file EXCEPT ![s] = Recovered(f, FALSE)]
      PROVE  FALSE
  <2>1. Fits(f) /\ Silent(f)
    BY <1>7, <1>8, FailedWritesFit, FailedSilent
  <2>2. ~Told(file[s], Recovered(f, FALSE))
    BY <1>2, <2>1, RecoveredSilent
  <2>3. QED
    BY <1>2, <1>8, <2>2, OneFileTells DEF NoneTold
<1>9. ASSUME NEW f \in FailedWrites(Current), file' = [child EXCEPT ![attached] = f]
      PROVE  FALSE
  <2>1. f \in Raised(Current, Other)
    BY DEF Raised
  <2>2. ~Told(Current, f)
    BY <1>2, <2>1, RaisedTells, Speaking
  <2>3. file'[t] \in {file[t], review} \/ (t = attached /\ file'[t] = f)
    BY <1>2, <1>3, <1>6, <1>9
  <2>4. QED
    BY <1>5, <2>2, <2>3 DEF Current
<1>10. ASSUME file' = [child EXCEPT ![attached] = Recovered(child[attached], FALSE)]
       PROVE  FALSE
  <2>1. file'[t] \in {file[t], review} \/ (t = attached /\ file'[t] = crashed)
    BY <1>2, <1>3, <1>6, <1>10 DEF crashed
  <2>2. QED
    BY <1>4, <1>5, <2>1 DEF Current
<1>11. file' = [child EXCEPT ![attached] = Written(Flushed(child[attached]), handed)]
  BY <1>1, <1>8, <1>9, <1>10
<1>12. t = attached
  <2>1. t # attached => file'[t] \in {file[t], review}
    BY <1>2, <1>3, <1>6, <1>11
  <2>2. QED
    BY <1>5, <2>1
<1>13. QED
  BY <1>11, <1>12 DEF Handed, child, review, handed

\* No other step tells of a handoff.
LEMMA OnlyHandoffsTell ==
  ASSUME IInv, UInv, [Next]_vars, NEW t \in SessionId, Told(file[t], file'[t])
  PROVE  \E token \in Tokens, s \in SessionId : Handed(token, s) /\ t = attached
<1>1. CASE UNCHANGED vars \/ RunStep
  <2>1. Writes
    BY <1>1, RunSteps DEF vars, Writes
  <2>2. QED
    BY <2>1, WritesTell DEF NoneTold
<1>2. CASE HostStep
  <2>1. CASE \E token \in Tokens, s \in SessionId : HandoffPlan(token, s)
    BY <2>1, HandoffTells
  <2>2. CASE \/ CancelPlanMode \/ AnswerPlanQuestion \/ AppendOther \/ Prompt
             \/ Abort \/ Steer \/ CancelTask \/ \E token \in Tokens : ExecutePlan(token)
    BY <2>2, PlainHostSteps, WritesTell DEF NoneTold
  <2>3. CASE EnterPlanMode
    BY <2>3, EnterTells DEF NoneTold
  <2>4. CASE \E s \in SessionId : NewSession(s)
    BY <2>4, NewSessionTells DEF NoneTold
  <2>5. CASE \E n \in BranchPoints : SwitchBranch(n)
    BY <2>5, SwitchTells DEF NoneTold
  <2>6. QED
    BY <1>2, <2>1, <2>2, <2>3, <2>4, <2>5 DEF HostStep
<1>3. CASE Crash
  BY <1>3, CrashTells DEF NoneTold
<1>4. QED
  BY <1>1, <1>2, <1>3 DEF Next

\* What the source of a handoff says after it, and what the child.
LEMMA HandedIs ==
  ASSUME IInv, UInv, PInv("any"), NEW token, NEW s \in SessionId, Handed(token, s)
  PROVE  LET after == file'[attached].log
             p == Projection(file'[attached], None)
             c == Projection(file'[s], None)
         IN
         /\ after[Len(after)].related = s /\ p.target = s /\ p.review = None
         /\ file'[s].flushed /\ file'[s].durable = Len(file'[s].log)
         /\ file'[s].parent = attached
         /\ c.phase = "ready" /\ c.review = attached /\ c.latest.digest = p.latest.digest
<1> DEFINE review == Review(attached, plan.latest)
           child == [file EXCEPT ![s] = review]
           handed == ModeChange("default", plan.plan, "handoff", s)
           done == Written(Flushed(Current), handed)
<1>1. /\ Free /\ plan.mode = "plan" /\ plan.phase = "ready" /\ plan.review = None
      /\ ~file[s].used
      /\ file' = [child EXCEPT ![attached] = Written(Flushed(child[attached]), handed)]
  BY DEF Handed, HandoffPlan, Confirms
<1>2. /\ AllFit(file) /\ attached \in SessionId /\ s # attached /\ ids \in Nat
      /\ Sound(Current, ids, "any") /\ Fits(Current)
  BY <1>1, BoundAssumption, AttachedFits DEF IInv, UInv, PInv, Current
<1>3. file'[attached] = done /\ file'[s] = review
  BY <1>1, <1>2 DEF AllFit, Current
<1>4. run.exec = None
  BY <1>1, FreeIs
<1>5. PICK p \in PlanState :
        WellFormed(p, None) /\ plan = View(p) /\ p = Whole(Current, None) /\ Known(p, ids)
  BY <1>1, <1>4, PlanIsBranch
<1>6. /\ p.mode = "plan" /\ p.phase = "ready" /\ plan.latest = p.latest /\ plan.plan = p.plan
      /\ plan.review = p.review
  BY <1>1, <1>5 DEF View
<1>7. /\ p.latest \in Revisions /\ p.latest # None /\ p.latest.plan = p.plan /\ p.plan # None
      /\ p.latest.number >= 1 /\ p.latest.call # None /\ p.plan \in 1 .. ids
      /\ p.latest.digest = Digest(p.latest.plan, p.latest.number, p.latest.call)
      /\ ~p.blocked
  BY <1>5, <1>6 DEF WellFormed, Confirmed, Intact, PlanState, Known
<1>8. /\ handed \in Entries /\ handed.type = "mode" /\ handed.mode = "default"
      /\ handed.plan = plan.plan /\ handed.reason = "handoff" /\ handed.related = s
  BY PlanTypes, ModeEntries DEF MaybeSession
<1>9. done \in Appends(Current, handed)
  BY DEF Appends
<1>10. /\ Sound(review, ids, "any") /\ Whole(review, None).phase = "ready"
       /\ Whole(review, None).review = attached
       /\ Whole(review, None).latest.digest = p.latest.digest
  BY <1>2, <1>6, <1>7, ReviewSound
<1>11. /\ review.flushed /\ review.durable = Len(review.log) /\ review.parent = attached
  BY <1>2, ReviewIs
<1> HIDE DEF child, handed, done, review
<1>12. Names(handed, ids) /\ s # None
  BY <1>8, IdAssumption DEF Names
<1>13. Valid(p, handed, Current.parent)
  BY <1>6, <1>8, <1>12 DEF Valid, ValidModeChange, ValidRelation
<1>14. /\ Sound(done, ids, "any")
       /\ Whole(done, None) = Step(p, handed, Current.parent, None)
  BY <1>2, <1>5, <1>8, <1>9, <1>12, <1>13, AppendsSound
<1>15. done.log[Len(done.log)] = handed
  BY <1>2, <1>9, AppendsBranch DEF OneMore
<1>16. View(Whole(done, None)) = View(OnModeChange(p, handed))
  <2>1. Outcome(p, handed, Current.parent, None) = OnModeChange(p, handed)
    BY <1>7, <1>8, <1>13 DEF Outcome, Accept
  <2>2. QED
    BY <1>5, <1>8, <1>14, <2>1, StepView
<1>17. /\ OnModeChange(p, handed).target = s /\ OnModeChange(p, handed).review = None
       /\ OnModeChange(p, handed).latest = p.latest
  BY <1>1, <1>6, <1>8 DEF OnModeChange, PlanState
<1>18. /\ Projection(done, None).target = s /\ Projection(done, None).review = None
       /\ Projection(done, None).latest = p.latest
  <2>1. Projection(done, None) = View(OnModeChange(p, handed))
    BY <1>14, <1>16, Projected
  <2>2. QED
    BY <1>17, <2>1 DEF View
<1>19. /\ Projection(review, None).phase = "ready"
       /\ Projection(review, None).review = attached
       /\ Projection(review, None).latest.digest = p.latest.digest
  <2>1. Projection(review, None) = View(Whole(review, None))
    BY <1>10, Projected
  <2>2. QED
    BY <1>10, <2>1 DEF View
<1>20. QED
  BY <1>3, <1>8, <1>11, <1>15, <1>18, <1>19

\* A plan is handed over as a whole: when its session says so, the child of
\* handoff_plan_to_new_session is on the disk and asks for a review of the revision
\* that the user of the source saw.
THEOREM HandoffIsAlwaysComplete == Spec => HandoffIsComplete
<1>1. IInv /\ UInv /\ PlanInv /\ [Next]_vars => [\A s \in SessionId : HandedInFull(s)]_vars
  <2> SUFFICES ASSUME IInv, UInv, PInv("any"), [Next]_vars, NEW s \in SessionId,
                      Told(file[s], file'[s])
               PROVE  HandedInFull(s)
    BY DEF Told, HandsOver, HandedInFull, PlanInv
  <2>1. PICK token \in Tokens, t \in SessionId : Handed(token, t) /\ s = attached
    BY OnlyHandoffsTell
  <2>2. QED
    BY <2>1, HandedIs DEF HandedInFull
<1>2. IInv /\ UInv /\ [Next]_vars => UInv'
  BY NextSurvives
<1>3. Spec => []UInv
  BY <1>2, InitUInv, Invariance, PTL DEF Spec
<1>4. QED
  BY <1>1, <1>3, PlanInvariance, PTL DEF Spec, HandoffIsComplete
=============================================================================
