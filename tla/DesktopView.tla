----------------------------- MODULE DesktopView -----------------------------
(***************************************************************************)
(* The window of the desktop application (renderer/App.tsx) over its       *)
(* timeline, and what the runtime (desktop/runtime.py) tells it.           *)
(*                                                                         *)
(* The runtime publishes events and answers requests on one pipe, which    *)
(* main.ts passes on in order.  An answer takes effect at once; events     *)
(* wait in rafQueue for the next frame, so an answer can overtake what was *)
(* published before it.  Delivery itself takes no time here: the delay is  *)
(* that of the frame, and of requests waiting for the runtime.             *)
(* Inside the runtime only what it publishes matters (see DesktopHost).    *)
(***************************************************************************)
EXTENDS Timeline, FiniteSets

CONSTANTS
  Session,         \* the sessions of the workspace
  Resumed,         \* the one the workspace is opened with
  MaxRuns,         \* bound: runs, over all sessions
  MaxMessages,     \* bound: assistant messages of one run
  MaxCompactions,  \* bound: compactions, manual and automatic
  MaxActs,         \* bound: what the user starts or stops
  MaxFrame         \* bound: events that wait for one frame

ASSUME DesktopViewAssumption ==
  /\ Resumed \in Session
  /\ {MaxRuns, MaxMessages, MaxCompactions, MaxActs, MaxFrame} \subseteq Nat

VARIABLES
  rt,      \* the runtime: its session, and how far its run or compaction is
  saved,   \* the messages of each session
  homes,   \* the session each run belongs to
  compactions, acts,   \* compactions begun; what the user did
  raf,     \* rafQueue: the events that wait for a frame
  line,    \* timelineState
  app,     \* the rest of the state of App
  calls,   \* requests the runtime answers one after the other
  asides,  \* run.abort, which it takes at once
  cut, twice  \* history: entries a snapshot cut off, or brought twice

runtime == <<rt, saved, homes, compactions>>
window == <<line, app, acts>>
requests == <<calls, asides>>
history == <<cut, twice>>
vars == <<runtime, window, raf, requests, history>>

-----------------------------------------------------------------------------
NoCall == <<>>
Stages == {"none", "starting", "prompting", "turn", "stream", "called", "gate", "asking",
           "tool", "blocked", "closing", "ending", "compacting", "summarised", "over"}
Busy == rt.at # "none"
Manual == rt.at \in {"compacting", "summarised"} /\ rt.run = 0

Init ==
  /\ rt = [session |-> Resumed, at |-> "none", run |-> 0, n |-> 0, text |-> 0,
           plan |-> FALSE, verdict |-> "none", stopping |-> FALSE]
  /\ saved = [t \in Session |-> <<>>] /\ homes = <<>>
  /\ compactions = 0 /\ acts = 0 /\ raf = <<>>
  /\ line = EmptyTimeline
  /\ app = [session |-> Resumed, running |-> FALSE, compacting |-> FALSE, card |-> NoId,
            navigating |-> FALSE, submission |-> 0]
  /\ calls = <<>> /\ asides = {} /\ cut = {} /\ twice = {}

-----------------------------------------------------------------------------
(* What the runtime publishes *)

Event(type) ==
  [type |-> type, session |-> rt.session, run |-> rt.run, n |-> rt.n,
   text |-> rt.text, status |-> "none", messages |-> <<>>]

\* _publish
Publish(e) == Len(raf) < MaxFrame /\ raf' = Append(raf, e)
Quietly == UNCHANGED raf

Works(at) ==
  /\ rt.at = at
  /\ UNCHANGED <<homes, window, requests, history>>
Saves(m) == saved' = [saved EXCEPT ![rt.session] = Append(@, m)]
Message(is, of, text, call, status) ==
  [is |-> is, of |-> of, text |-> text, call |-> call, status |-> status]

RunStarts ==
  /\ Works("starting")
  /\ Publish([Event("run.started") EXCEPT !.text = IF rt.plan THEN 0 ELSE 1])
  /\ rt' = [rt EXCEPT !.at = "prompting"] /\ UNCHANGED <<saved, compactions>>

\* The request for a plan, and a plan that is executed, are messages too
PromptLands ==
  /\ Works("prompting") /\ Quietly
  /\ Saves(Message("user", Entry("user", rt.run, 0), 1, FALSE, "none"))
  /\ rt' = [rt EXCEPT !.at = "turn"] /\ UNCHANGED compactions

MessageStarts ==
  /\ Works("turn") /\ rt.n < MaxMessages /\ ~rt.stopping
  /\ rt' = [rt EXCEPT !.at = "stream", !.n = @ + 1, !.text = 0]
  /\ Publish([Event("message_start") EXCEPT !.n = rt'.n])
  /\ UNCHANGED <<saved, compactions>>

TextStreams ==
  /\ Works("stream") /\ rt.text = 0
  /\ rt' = [rt EXCEPT !.text = 1] /\ Publish(Event("message_update"))
  /\ UNCHANGED <<saved, compactions>>

\* The message is in state.messages when its end is published
MessageEnds(call) ==
  /\ Works("stream") /\ (call => ~rt.stopping)
  /\ Saves(Message("assistant", Entry("assistant", rt.run, rt.n), rt.text, call, "none"))
  /\ Publish(Event("message_end"))
  /\ rt' = [rt EXCEPT !.at = IF call THEN "called" ELSE "ending"]
  /\ UNCHANGED compactions

ToolStarts ==
  /\ Works("called") /\ Publish(Event("tool_execution_start"))
  /\ rt' = [rt EXCEPT !.at = "gate", !.text = 0] /\ UNCHANGED <<saved, compactions>>

Asks ==
  /\ Works("gate") /\ ~rt.stopping /\ Publish(Event("approval.requested"))
  /\ rt' = [rt EXCEPT !.at = "asking", !.verdict = "none"]
  /\ UNCHANGED <<saved, compactions>>

\* No approval is needed, or it was given
ToolRuns ==
  /\ \/ Works("gate")
     \/ Works("asking") /\ rt.verdict = "allow" /\ ~rt.stopping
  /\ Publish(Event("tool_execution_running"))
  /\ rt' = [rt EXCEPT !.at = "tool"] /\ UNCHANGED <<saved, compactions>>

Refused ==
  /\ Works("asking") /\ (rt.verdict = "deny" \/ rt.stopping) /\ Quietly
  /\ rt' = [rt EXCEPT !.at = "blocked",
                      !.verdict = IF rt.stopping THEN "cancelled" ELSE "blocked"]
  /\ UNCHANGED <<saved, compactions>>

ApprovalExpires ==
  /\ Works("asking") /\ rt.verdict = "none" /\ ~rt.stopping
  /\ Publish(Event("approval.expired"))
  /\ rt' = [rt EXCEPT !.at = "blocked", !.verdict = "timed_out"]
  /\ UNCHANGED <<saved, compactions>>

ToolUpdates ==
  /\ Works("tool") /\ rt.text = 0 /\ Publish(Event("tool_execution_update"))
  /\ rt' = [rt EXCEPT !.text = 1] /\ UNCHANGED <<saved, compactions>>

Outcome == IF rt.at = "blocked" THEN rt.verdict ELSE IF rt.stopping THEN "cancelled" ELSE "done"
ToolEnds ==
  /\ Works("tool") \/ Works("blocked")
  /\ Publish([Event("tool_execution_end") EXCEPT !.status = Outcome])
  /\ rt' = [rt EXCEPT !.at = "closing", !.verdict = Outcome]
  /\ UNCHANGED <<saved, compactions>>

\* Results are in state.messages from the end of the turn
TurnEnds ==
  /\ Works("closing") /\ Quietly
  /\ Saves(Message("tool", Entry("tool", rt.run, rt.n), 0, FALSE, rt.verdict))
  /\ rt' = [rt EXCEPT !.at = IF rt.n < MaxMessages THEN "turn" ELSE "ending"]
  /\ UNCHANGED compactions

AutoCompactionStarts ==
  /\ Works("ending") /\ ~rt.stopping /\ compactions < MaxCompactions
  /\ compactions' = compactions + 1
  /\ rt' = [rt EXCEPT !.at = "compacting"]
  /\ Publish([Event("compaction_start") EXCEPT !.n = compactions'])
  /\ UNCHANGED saved

\* What is summarised goes; what is recent may stay
Compacted(messages) ==
  {<<Message("summary", Entry("summary", 0, compactions), 1, FALSE, "none")>>
     \o SubSeq(messages, k, Len(messages)) : k \in {Len(messages), Len(messages) + 1} \ {0}}

CompactionEnds(status) ==
  /\ Works("compacting") /\ (rt.stopping => status # "completed")
  /\ Publish([Event("compaction_end") EXCEPT !.status = status])
  /\ IF status = "completed"
     THEN \E m \in Compacted(saved[rt.session]) : saved' = [saved EXCEPT ![rt.session] = m]
     ELSE UNCHANGED saved
  /\ rt' = [rt EXCEPT !.at = IF rt.run # 0 THEN "over" ELSE "summarised",
                      !.verdict = IF status = "completed" THEN "done" ELSE "none"]
  /\ UNCHANGED compactions

\* _finalize_run
Finalizes ==
  /\ Works(rt.at) /\ Publish(Event("run.ended"))
  /\ rt' = [rt EXCEPT !.at = "none", !.run = 0, !.n = 0, !.text = 0, !.plan = FALSE,
                      !.verdict = "none", !.stopping = FALSE]
  /\ UNCHANGED <<saved, compactions>>
RunEnds ==
  /\ rt.run # 0
  /\ rt.at \in {"ending", "over"} \/ (rt.stopping /\ rt.at \in {"prompting", "turn"})
  /\ Finalizes
\* A run that does not stop in time is cancelled where it is: much later than
\* a frame
RunIsCut ==
  /\ rt.run # 0 /\ rt.stopping /\ raf = <<>>
  /\ rt.at \notin {"starting", "prompting", "turn", "ending", "compacting", "over"}
  /\ Finalizes

Agent ==
  \/ RunStarts \/ PromptLands \/ MessageStarts \/ TextStreams
  \/ \E call \in BOOLEAN : MessageEnds(call)
  \/ ToolStarts \/ Asks \/ ToolRuns \/ Refused \/ ApprovalExpires \/ ToolUpdates
  \/ ToolEnds \/ TurnEnds \/ AutoCompactionStarts
  \/ \E status \in {"completed", "failed", "aborted"} : CompactionEnds(status)
  \/ RunEnds \/ RunIsCut

-----------------------------------------------------------------------------
(* The window takes over what the runtime saved *)

\* What a snapshot cuts off: what has begun and is not in it yet
Begun(type) == \E i \in DOMAIN raf : raf[i].type = type /\ raf[i].n = rt.n
CutOff ==
  CASE rt.at = "stream" /\ ~Begun("message_start") -> {Entry("assistant", rt.run, rt.n)}
    [] rt.at \in {"gate", "asking"} /\ ~Begun("approval.requested") -> {Entry("tool", rt.run, rt.n)}
    [] OTHER -> {}
Brought(messages) ==
  {messages[i].of : i \in {j \in DOMAIN messages : \E k \in DOMAIN raf :
     \/ raf[k].type = "message_start" /\ messages[j].of = Entry("assistant", raf[k].run, raf[k].n)
     \/ raf[k].type = "run.started" /\ messages[j].of = Entry("user", raf[k].run, 0)}}

\* Mutant: what a snapshot brings is added to what is there
RestoresBeside(messages) ==
  /\ line' = [line EXCEPT !.items = @ \o FromMessages(messages).items]
  /\ cut' = CutOff /\ twice' = Brought(messages)

Restores(messages) ==
  /\ line' = FromMessages(messages)
  /\ cut' = CutOff /\ twice' = Brought(messages)

\* The part of applyWorkspace that an event and an answer share
Applied(a, s) ==
  [a EXCEPT !.session = s, !.compacting = FALSE, !.card = NoId, !.submission = 0,
            !.running = IF a.submission # 0 THEN FALSE ELSE @]

\* applyWorkspace: of what waits, what the old session has queued goes
QueueOf(s) ==
  SelectSeq(raf, LAMBDA e : e.session = s)

-----------------------------------------------------------------------------
(* Requests are sent *)

Sends(c) == calls' = Append(calls, c)
Call(is) == [is |-> is, session |-> app.session, submission |-> 0]
Free == ~app.running /\ ~app.compacting /\ ~app.navigating /\ app.submission = 0

\* Nobody is faster than a start is answered and the next frame is drawn:
\* what locks the window is there before anyone starts something else
Drawn ==
  /\ rt.at # "starting"
  /\ \A i \in DOMAIN calls : calls[i].is \notin {"start", "execute"}
  /\ \A i \in DOMAIN raf : raf[i].type \notin {"session.changed", "run.started", "compaction_end"}
Acts == acts < MaxActs /\ acts' = acts + 1
Starts(c) ==
  /\ Free /\ Drawn /\ Acts /\ Sends(c)
  /\ UNCHANGED <<runtime, raf, asides, history>>

\* submit, executePlan and requestPlanSubmission
Submit ==
  /\ Starts(Call("start")) /\ app' = [app EXCEPT !.running = TRUE]
  /\ UNCHANGED line
ExecutePlan ==
  /\ Starts(Call("execute")) /\ app' = [app EXCEPT !.running = TRUE]
  /\ UNCHANGED line
SubmitPlan ==
  /\ Starts([Call("start") EXCEPT !.submission = -1])
  /\ app' = [app EXCEPT !.running = TRUE, !.submission = -1]
  /\ UNCHANGED line

\* navigateSession
Navigate(s) ==
  /\ s # app.session /\ Starts([Call("open") EXCEPT !.session = s])
  /\ app' = [app EXCEPT !.navigating = TRUE]
  /\ UNCHANGED line

\* /compact: beginCompaction shows its card before the runtime is asked
Compact ==
  /\ Starts(Call("compact"))
  /\ LET id == <<"local", acts'>>
     IN  /\ app' = [app EXCEPT !.compacting = TRUE, !.card = id]
         /\ line' = [line EXCEPT
              !.items = Append(@, Card("compaction", id, Entry("summary", 0, 0), "running", 0)),
              !.compacting = id]

\* run.abort takes effect when it comes: a compaction is told to stop and that
\* is the answer, a run is awaited; with neither there is nothing to do
Aborts(then) ==
  LET a == [is |-> "abort", verdict |-> then,
            of |-> IF rt.run = 0 \/ rt.at = "compacting" THEN NoCall ELSE <<rt.run>>]
  IN  /\ a \notin asides /\ Acts /\ asides' = asides \cup {a}
      /\ rt' = [rt EXCEPT !.stopping = @ \/ Busy]
      /\ UNCHANGED <<saved, homes, compactions, line, app, raf, calls, history>>

\* abortPlanExecution does nothing while there is a compaction
Stop == app.running /\ ~app.compacting /\ Aborts("refresh")
StopCompaction == app.compacting /\ ~app.running /\ Aborts("none")

\* resolveApproval: the card shows the decision at once; approval.resolve is
\* refused when nobody waits for it any more
Decide(v) ==
  \E i \in DOMAIN line.items :
    LET waits == rt.at = "asking" /\ rt.verdict = "none"
                 /\ line.items[i].shows = Entry("tool", rt.run, rt.n)
    IN  /\ line.items[i].status = "approval"
        /\ line' = [line EXCEPT !.items[i].status = IF v = "allow" THEN "running" ELSE "error"]
        /\ rt' = [rt EXCEPT !.verdict = IF waits THEN v ELSE @]
        /\ UNCHANGED <<saved, homes, compactions, app, acts, raf, requests, history>>

User ==
  \/ Submit \/ ExecutePlan \/ SubmitPlan \/ Compact \/ Stop \/ StopCompaction
  \/ \E s \in Session : Navigate(s)
  \/ \E v \in {"allow", "deny"} : Decide(v)

-----------------------------------------------------------------------------
(* Requests are answered *)

Answers(is) ==
  /\ calls # <<>> /\ Head(calls).is = is /\ calls' = Tail(calls)
Snapshot == Call("snapshot")

\* run.start and plan.execute: the answer comes before the run does anything
StartAccepted(is) ==
  /\ calls # <<>> /\ Head(calls).is = is /\ ~Busy /\ Len(homes) < MaxRuns
  /\ homes' = Append(homes, rt.session)
  /\ rt' = [rt EXCEPT !.at = "starting", !.run = Len(homes'), !.plan = is = "execute",
                      !.stopping = FALSE]
  /\ app' = [app EXCEPT !.submission = IF @ = -1 THEN Len(homes') ELSE @]
  /\ calls' = Tail(calls) \o (IF is = "execute" THEN <<Snapshot>> ELSE <<>>)
  /\ UNCHANGED <<saved, compactions, raf, line, acts, asides, history>>

\* Mutant: the window goes on waiting for a run that was refused
RefusedUnnoticed(is) ==
  /\ calls # <<>> /\ Head(calls).is = is /\ calls' = Tail(calls)
  /\ UNCHANGED <<runtime, raf, window, asides, history>>

\* A refusal; then the window asks what the state is, if it was about a plan
StartRefused(is) ==
  /\ calls # <<>> /\ Head(calls).is = is
  /\ LET c == Head(calls)
         stands == CASE is = "execute" -> TRUE
                     [] c.submission # 0 -> app.submission # 0
                     [] OTHER -> c.session = app.session
     IN  /\ calls' = Tail(calls) \o
              (CASE is = "execute" -> <<Snapshot>>
                 [] c.submission # 0 /\ stands ->
                      <<[Snapshot EXCEPT !.submission = app.submission]>>
                 [] OTHER -> <<>>)
         /\ app' = [app EXCEPT !.running = IF stands THEN FALSE ELSE @]
  /\ UNCHANGED <<runtime, raf, line, acts, asides, history>>

\* session.open publishes session.changed, then answers.  No run is active
\* then: the window is locked while there is one
Opened ==
  /\ ~Busy /\ Len(raf) < MaxFrame /\ Answers("open")
  /\ LET s == Head(calls).session
         changed == [Event("session.changed") EXCEPT !.session = s, !.messages = saved[s]]
     IN  /\ rt' = [rt EXCEPT !.session = s]
         /\ raf' = Append(QueueOf(s), changed)
         /\ Restores(saved[s])
         /\ app' = [Applied(app, s) EXCEPT !.navigating = FALSE]
  /\ UNCHANGED <<saved, homes, compactions, acts, asides>>

\* The file is gone or damaged, or a run is active after all
OpenRefused ==
  /\ Answers("open")
  /\ app' = [app EXCEPT !.navigating = FALSE]
  /\ UNCHANGED <<runtime, raf, line, acts, asides, history>>

\* applySessionSnapshot, for finishPlanSubmission if the submission stands
SnapshotAnswered ==
  /\ Answers("snapshot")
  /\ LET of == Head(calls).submission
         stands == of = 0 \/ of = app.submission
     IN  /\ IF stands /\ app.session = rt.session
            THEN Restores(saved[rt.session])
            ELSE UNCHANGED <<line, history>>
         /\ app' = [app EXCEPT !.submission = IF of # 0 /\ stands THEN 0 ELSE @]
  /\ UNCHANGED <<runtime, raf, acts, asides>>

CompactionBegins ==
  /\ calls # <<>> /\ Head(calls).is = "compact" /\ ~Busy /\ compactions < MaxCompactions
  /\ compactions' = compactions + 1
  /\ rt' = [rt EXCEPT !.at = "compacting", !.stopping = FALSE]
  /\ Publish([Event("compaction_start") EXCEPT !.n = compactions'])
  /\ UNCHANGED <<saved, homes, window, requests, history>>

\* finishCompaction
Finishes(status) ==
  /\ app' = [app EXCEPT !.compacting = IF app.card = NoId THEN @ ELSE FALSE]
  /\ LET i == IndexOfId(line.items, app.card)
     IN  line' = IF i = 0 THEN line
                 ELSE [line EXCEPT !.items[i].status = status,
                                   !.compacting = IF @ = app.card THEN NoId ELSE @]

\* session.compact publishes the new history before it answers
CompactAnswered ==
  /\ Manual /\ rt.at = "summarised" /\ Answers("compact")
  /\ rt' = [rt EXCEPT !.at = "none", !.verdict = "none", !.stopping = FALSE]
  /\ IF rt.verdict = "done"
     THEN Publish([Event("session.changed") EXCEPT !.messages = saved[rt.session]])
     ELSE UNCHANGED raf
  /\ Finishes(IF rt.verdict = "done" THEN "completed" ELSE "failed")
  /\ UNCHANGED <<saved, homes, compactions, acts, asides, history>>
NothingToCompact ==
  /\ ~Busy /\ Answers("compact") /\ Finishes("skipped")
  /\ UNCHANGED <<runtime, raf, acts, asides, history>>

AbortAnswered ==
  /\ \E a \in asides :
       /\ a.is = "abort" /\ a.of # <<rt.run>> /\ asides' = asides \ {a}
       /\ calls' = IF a.verdict = "refresh" THEN Append(calls, Snapshot) ELSE calls
  /\ UNCHANGED <<runtime, window, raf, history>>

Answering ==
  \/ \E is \in {"start", "execute"} : StartAccepted(is) \/ StartRefused(is)
  \/ Opened \/ OpenRefused \/ SnapshotAnswered
  \/ CompactionBegins \/ CompactAnswered \/ NothingToCompact
  \/ AbortAnswered

-----------------------------------------------------------------------------
(* A frame *)

LastChange ==
  LET at == {i \in DOMAIN raf : raf[i].type = "session.changed"}
  IN  IF at = {} THEN 0 ELSE CHOOSE i \in at : \A j \in at : j <= i

\* What a frame starts from, and the events it reduces: those after the last
\* snapshot that belong to its session
Due ==
  LET changed == LastChange
  IN  IF changed = 0
      THEN [from |-> line, events |-> SelectSeq(raf, LAMBDA e : e.session = app.session)]
      ELSE [from |-> FromMessages(raf[changed].messages),
            events |-> SelectSeq(SubSeq(raf, changed + 1, Len(raf)),
                                 LAMBDA e : e.session = raf[changed].session)]

\* handleRuntimeSideEffects; w is the state of App and the requests it sends
SideEffect(w, e) ==
  LET ours == e.session = w.app.session
      known == w.app.submission > 0
  IN  CASE e.type = "session.changed" -> [w EXCEPT !.app = Applied(@, e.session)]
        [] ~ours \/ (known /\ e.type \in {"run.started", "run.ended"}
                     /\ e.run # w.app.submission) -> w
        [] e.type = "run.started" ->
             [w EXCEPT !.app.running = TRUE,
                       !.app.submission = IF @ = -1 THEN e.run ELSE @]
        [] e.type = "run.ended" ->
             [w EXCEPT !.app.running = FALSE,
                       !.calls = IF w.app.submission = 0 THEN @
                                 ELSE Append(@, [is |-> "snapshot", session |-> w.app.session,
                                                 submission |-> w.app.submission])]
        [] e.type = "compaction_start" -> [w EXCEPT !.app.compacting = TRUE]
        [] e.type = "compaction_end" -> [w EXCEPT !.app.compacting = FALSE]
        [] OTHER -> w

\* What a snapshot brought twice is gone when another replaces it
Frame ==
  /\ raf # <<>> /\ raf' = <<>>
  /\ line' = ReduceBatch(Due.from, Due.events)
  /\ IF LastChange = 0 THEN UNCHANGED history ELSE cut' = {} /\ twice' = {}
  /\ LET w == FoldLeft(SideEffect, [app |-> app, calls |-> calls], raf)
     IN  app' = w.app /\ calls' = w.calls
  /\ UNCHANGED <<runtime, acts, asides>>

Next == Agent \/ User \/ Answering \/ Frame

Spec == Init /\ [][Next]_vars

\* A frame is the step that empties the queue
Drawing == raf # <<>> /\ raf' = <<>>

\* Frames come while events wait, requests are answered, runs go on (an
\* approval expires)
LiveSpec == Spec /\ WF_raf(Drawing) /\ WF_vars(Agent) /\ WF_vars(Answering)

-----------------------------------------------------------------------------
TypeOK ==
  /\ rt.at \in Stages /\ rt.session \in Session /\ rt.run \in 0 .. MaxRuns
  /\ Len(homes) <= MaxRuns /\ compactions <= MaxCompactions
  /\ app.session \in Session /\ app.submission \in -1 .. MaxRuns
  /\ Len(raf) <= MaxFrame + 1

Quiet == ~Busy /\ raf = <<>> /\ calls = <<>> /\ asides = {}

\* When the runtime is idle and the window has seen everything, it shows
\* nothing as going on: no run, compaction or navigation, no active tool, no
\* message that still streams (App, reduceRuntimeEventBatch).
ViewSettles ==
  Quiet =>
    /\ Free
    /\ \A i \in DOMAIN line.items :
         LET c == line.items[i]
         IN  /\ c.kind = "tool" => ~IsToolActive(c.status)
             /\ c.kind = "message" => c.status # "streaming"
             /\ c.kind = "compaction" => c.status # "running"

\* When everything was seen, each reply of the session that has a text is on the
\* timeline, once: but for what a snapshot that came meanwhile cut off or brought
\* twice.
EachMessageOnce ==
  Quiet =>
    \A i \in DOMAIN saved[rt.session] :
      LET m == saved[rt.session][i]
          n == Cardinality({j \in DOMAIN line.items : line.items[j].shows = m.of})
      IN  m.is = "assistant" /\ m.text > 0 =>
            (n = 0 => m.of \in cut) /\ (n > 1 => m.of \in twice)

\* An approval the runtime waits for can be given: its card offers it, unless
\* a snapshot has replaced it.
ApprovalsCanBeGiven ==
  rt.at = "asking" /\ rt.verdict = "none" /\ ~rt.stopping /\ raf = <<>> /\ asides = {}
  /\ Entry("tool", rt.run, rt.n) \notin cut =>
    \E i \in DOMAIN line.items :
      line.items[i].shows = Entry("tool", rt.run, rt.n) /\ line.items[i].status = "approval"

\* Reducing a frame at once gives what its events give one after the other
\* (the comment on reduceRuntimeEventBatch: "delta order is retained").
BatchingChangesNothing ==
  ReduceBatch(Due.from, Due.events) = ReduceEach(Due.from, Due.events)

\* The window shows what the session holds: nothing that is over, each reply
\* with a text once, every approval that is waited for, however its events were
\* batched (App, reduceRuntimeEventBatch).
ViewShowsTheSession ==
  /\ ViewSettles
  /\ EachMessageOnce
  /\ ApprovalsCanBeGiven
  /\ BatchingChangesNothing

\* Whatever the window is busy with ends, and it can be used again.
BusyEnds == ~Free ~> Free
=============================================================================
