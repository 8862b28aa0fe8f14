----------------------------- MODULE PlanReplay -----------------------------
(***************************************************************************)
(* Replaying an arbitrary session branch through reduce_plan_state.  The   *)
(* entries come from a file: a crash, another version of the program or an *)
(* editor may have left anything there, so any entry may come at any       *)
(* position.  What holds here holds of Plan State whatever was persisted.  *)
(***************************************************************************)
EXTENDS PlanReducer

CONSTANTS
  Entry,       \* the entries a branch may hold
  Live,        \* live_run_id: the run this runtime owns, or None
  Parent,      \* parent_session_id of the header, or None
  MaxEntries   \* bound: entries replayed

ASSUME EntryAssumption == Entry \subseteq Entries
ASSUME LiveAssumption == Live \in MaybeId /\ Parent \in MaybeSession
ASSUME MaxEntriesAssumption == MaxEntries \in Nat

VARIABLES
  state,   \* Plan State with the fold's own memory
  read     \* entries read so far

replayVars == <<state, read>>

ReplayInit == state = InitialState /\ read = 0

\* One iteration of the loop over _replay_items
Replay(e) ==
  /\ read < MaxEntries
  /\ state' = Step(state, e, Parent, Live)
  /\ read' = read + 1

ReplayNext == \E e \in Entry : Replay(e)

ReplaySpec == ReplayInit /\ [][ReplayNext]_replayVars

-----------------------------------------------------------------------------
(* Properties.                                                             *)

Phases == {"idle", "drafting", "awaiting_answer", "ready", "cancelled",
           "executing", "uncertain", "settled", "failed", "aborted",
           "recovery_error"}

PlanState ==
  [mode : {"default", "plan"}, phase : Phases, plan : MaybeId,
   latest : Revisions \cup {None}, question : MaybeId, run : Runs \cup {None},
   blocked : BOOLEAN, review : MaybeSession, target : MaybeSession,
   plans : SUBSET Id, questions : SUBSET (MaybeId \X Id), runs : SUBSET Id,
   calls : SUBSET Id, last : Entries \cup {None}, len : Nat]

\* The types of Plan State.
ReplayTypeOK == state \in PlanState /\ read \in 0..MaxEntries

\* The phase decides the mode: no replayed branch projects "executing" or
\* "uncertain" while Plan Mode's tool policy is on, or "ready" while it is off.
PhaseFitsMode ==
  /\ state.mode = "plan" <=>
       state.phase \in {"drafting", "awaiting_answer", "ready", "recovery_error"}
  /\ state.phase = "recovery_error" <=> state.blocked

\* A pending question is projected exactly while an answer is awaited, and
\* belongs to the active episode.
QuestionFitsPhase ==
  /\ (state.question # None) <=> (state.phase = "awaiting_answer")
  /\ state.question # None =>
       <<state.plan, state.question>> \in state.questions

\* What can be confirmed, and what was started, is one intact revision of the
\* active episode: its digest is the digest of what it carries.
ConfirmableIsIntact ==
  state.phase \in {"ready", "executing", "uncertain", "settled", "failed",
                   "aborted"} =>
    /\ state.plan # None
    /\ state.latest # None
    /\ state.latest.plan = state.plan
    /\ state.latest.number >= 1
    /\ state.latest.digest =
         Digest(state.plan, state.latest.number, state.latest.call)

\* "A persisted started entry is executing only while this Runtime owns its
\* run id": a run that is in progress or unresolved was confirmed for exactly
\* the latest revision, and is executing only if it is the live one.
ExecutionIsOwned ==
  state.phase \in {"executing", "uncertain"} =>
    /\ state.run # None
    /\ state.run.status = "started"
    /\ state.run.token = Token(state.latest)
    /\ state.run.run \in state.runs
    /\ state.phase = "executing" => Live # None /\ state.run.run = Live

\* A run id is started at most once on a branch, however entries repeat.
NoRunStartsTwice ==
  [][\A r \in state.runs :
       /\ state'.run # None
       /\ state'.run.status = "started" /\ state'.run.run = r
       => state'.run = state.run]_replayVars

\* Blocked fails closed: only the user's exit from that very episode unblocks,
\* and never into a phase that lets anything run.
BlockedUntilUserExit ==
  [][state.blocked /\ ~state'.blocked =>
       /\ state'.mode = "default"
       /\ state'.phase \in {"idle", "cancelled"}
       /\ state'.last.type = "mode" /\ state'.last.reason = "user"
       /\ state'.last.plan = state.plan]_replayVars

\* Within an episode revisions only grow, and a revision once superseded is
\* never the latest again.
RevisionsGrow ==
  [][/\ state.latest # None /\ state'.latest # None
     /\ state.latest.plan = state'.latest.plan
     /\ state'.latest # state.latest
     => state'.latest.number = state.latest.number + 1]_replayVars
=============================================================================
