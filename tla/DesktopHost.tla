----------------------------- MODULE DesktopHost -----------------------------
(***************************************************************************)
(* The process behind the desktop application (desktop/__main__.py,        *)
(* desktop/runtime.py, desktop/side_conversations.py): it starts runs of   *)
(* the open session, asks the user for approvals, stops runs, and opens    *)
(* other sessions, while side conversations run beside the main one.       *)
(*                                                                         *)
(* Requests that change the session are handled one after the other, in    *)
(* the order they come; those that stop, approve or concern a side         *)
(* conversation are handled at once, between any two awaits of the others. *)
(***************************************************************************)
EXTENDS Integers, Sequences, FiniteSets, Functions, SequencesExt

CONSTANTS
  Session,    \* the sessions of the workspace
  First,      \* the one that is opened first
  Saved,      \* the permission mode in the settings
  Chat,       \* side conversations
  MaxChats,   \* side conversations that may run at once
  MaxMoves,   \* bound: what the user asks for, stops and answers aside
  MaxFaults,  \* bound: crashes and writes that fail
  None

ASSUME HostAssumption ==
  /\ {MaxChats, MaxMoves, MaxFaults} \subseteq Nat /\ MaxChats > 0
  /\ None \notin Session \cup Chat /\ First \in Session
  /\ None \notin {"yes", "no", "tool", "search"} /\ "main" \notin Chat
  /\ Saved \in {"ask", "auto", "full_access"}

VARIABLES
  session,   \* the open session
  archived,  \* sessions that are archived
  mode,      \* the permission mode
  plan,      \* the collaboration mode of the open session and its phase
  run,       \* the run of the host
  sub,       \* whether subagents of the open session work
  ask,       \* the approvals asked for, by the run and by each conversation
  search,    \* the user's last decision on native search, and its run
  chat,      \* the side conversations
  closed,    \* the open session's conversations are being closed
  serial,    \* what the handler that holds the lock is doing
  stops,     \* who waits for the run to stop, and how patiently
  told,      \* the events of runs told to the renderer
  moves, faults

work == <<run, ask, search>>
scope == <<session, plan>>
settings == <<archived, mode>>
chats == <<chat, closed>>
requests == <<serial, stops>>
bounds == <<moves, faults>>
vars == <<work, scope, settings, chats, requests, sub, told, bounds>>

-----------------------------------------------------------------------------
Modes == {"ask", "auto", "full_access"}
Plans == {"default", "drafting", "ready"}
Main == "main"
Askers == {Main} \cup Chat

\* The stages of a run: its task exists; the files are captured; the agent
\* works, waits for an approval, runs a tool, searches or compacts; the end
\* of the turn is recorded
InAgent == {"prompt", "asking", "tool", "search", "compacting"}
Stages == {"none", "created", "capture", "final"} \cup InAgent
NoRun(n) == [n |-> n, kind |-> None, at |-> "none", signal |-> FALSE,
             cancelled |-> FALSE, granted |-> FALSE]
Runs == [n : 0 .. MaxMoves, kind : {None, "prompt", "execute"}, at : Stages,
         signal : BOOLEAN, cancelled : BOOLEAN,
         granted : BOOLEAN]  \* history: the user approved a search of it

NoAsk == [kind |-> None, answer |-> None]
Asked == [kind : {None, "tool", "search"}, answer : {None, "yes", "no"}]
NoDecision == [run |-> 0, allowed |-> FALSE]

\* A conversation: whether it is open in memory and its status there; its
\* task; the search decision of its run; the status in its file; and what
\* became of its last run, which nobody knows of a run that never ended
Settled == {"settled", "failed", "cancelled"}
NoChat == [owner |-> None, open |-> FALSE, status |-> "idle", task |-> "none",
           cancelled |-> FALSE, stopping |-> FALSE,
           decision |-> None, disk |-> "idle", truth |-> "idle"]
Chats == [owner : Session \cup {None}, open : BOOLEAN,
          status : Settled \cup {"idle", "running", "uncertain"},
          task : {"none", "new", "busy", "asking", "tool", "search"},
          cancelled : BOOLEAN, stopping : BOOLEAN,
          decision : {None, "yes", "no"},
          disk : Settled \cup {"idle", "running"},
          truth : Settled \cup {"idle", "unknown"}]

Free == [at |-> "free", target |-> None]
Serials == [at : {"free", "stop", "close", "handoff", "compact"},
            target : Session \cup {None}]
Handlers == {"abort", "serial"}

Init ==
  /\ session = First /\ archived = {} /\ mode = Saved /\ plan = "default"
  /\ run = NoRun(0) /\ sub = FALSE
  /\ ask = [x \in Askers |-> NoAsk] /\ search = NoDecision
  /\ chat = [c \in Chat |-> NoChat] /\ closed = FALSE
  /\ serial = Free /\ stops = [h \in Handlers |-> "none"]
  /\ told = <<>> /\ moves = 0 /\ faults = 0

Moves == moves < MaxMoves /\ moves' = moves + 1
Fails == faults < MaxFaults /\ faults' = faults + 1
Tells(n, what) == told' = Append(told, [run |-> n, what |-> what])

Active == run.at # "none"
Compacting == serial.at = "compact" \/ run.at = "compacting"
Working(c) == chat[c].task # "none"
Archived == session \in archived
\* Requests that take turns find the lock free, and a session
Served == serial = Free /\ session # None
\* _ensure_no_active_run
Quiet == Served /\ ~Compacting /\ ~Active

-----------------------------------------------------------------------------
(* Runs                                                                    *)

\* run.start, plan.answer to a question that outlived its run, plan.execute
RunStart(kind) ==
  /\ Quiet /\ ~Archived /\ Moves
  /\ kind = "execute" => plan = "ready"
  /\ run' = [NoRun(run.n + 1) EXCEPT !.kind = kind, !.at = "created"]
  /\ UNCHANGED <<ask, search, scope, settings, chats, requests, sub, told, faults>>

RunBegins ==
  /\ run.at = "created" /\ run' = [run EXCEPT !.at = "capture"]
  /\ Tells(run.n, "started")
  /\ UNCHANGED <<ask, search, scope, settings, chats, requests, sub, bounds>>

\* A cancelled task does nothing more before it learns of it
At(stages) == run.at \in stages /\ ~run.cancelled
RunBecomes(r) ==
  /\ run' = r
  /\ UNCHANGED <<session, settings, chats, requests, sub, told, bounds>>

\* The files are captured, and the agent is prompted: it may refuse. An abort
\* before this reaches no agent
Captured ==
  /\ At({"capture"})
  /\ \/ /\ RunBecomes([run EXCEPT !.at = "prompt", !.kind = None])
        /\ plan' = IF run.kind = "execute" THEN "default" ELSE plan
     \/ /\ RunBecomes([run EXCEPT !.at = "final", !.kind = None])
        /\ UNCHANGED plan
  /\ UNCHANGED <<ask, search>>

Asks(kind) ==
  /\ RunBecomes([run EXCEPT !.at = "asking"])
  /\ ask' = [ask EXCEPT ![Main] = [NoAsk EXCEPT !.kind = kind]]

\* _before_tool_call: by what it does a tool starts at once, or the user is
\* asked. A plan that was submitted ends the turn
CallsTool ==
  /\ At({"prompt"}) /\ ~run.signal /\ plan # "ready"
  /\ \/ RunBecomes([run EXCEPT !.at = "tool"]) /\ UNCHANGED ask
     \/ mode # "full_access" /\ Asks("tool")
  /\ UNCHANGED <<plan, search>>

SearchIsAvailable == session # None /\ plan # "ready"
SearchGoesOn(allowed) ==
  allowed /\ RunBecomes([run EXCEPT !.at = "search"]) /\ UNCHANGED ask

\* _before_native_web_search: the user decides once for a run
Searches ==
  /\ At({"prompt"}) /\ ~run.signal /\ SearchIsAvailable
  /\ IF mode # "ask" THEN SearchGoesOn(TRUE)
     ELSE IF search.run = run.n THEN SearchGoesOn(search.allowed)
     ELSE Asks("search")
  /\ UNCHANGED <<plan, search>>

\* _request_approval returns: answered, too late, or the run is stopped
AskEnds ==
  /\ At({"asking"})
  /\ LET allowed == ask[Main].answer = "yes" /\ ~run.signal
         kind == ask[Main].kind
     IN /\ RunBecomes([run EXCEPT !.at = IF allowed THEN kind ELSE "prompt"])
        /\ search' = IF kind = "search" /\ ~run.signal
                     THEN [run |-> run.n, allowed |-> allowed] ELSE search
  /\ ask' = [ask EXCEPT ![Main] = NoAsk]
  /\ UNCHANGED plan

ToolEnds ==
  /\ At({"tool", "search"})
  /\ RunBecomes([run EXCEPT !.at = "prompt"])
  /\ UNCHANGED <<plan, ask, search>>

\* A tool submits the plan
Submits ==
  /\ At({"tool"}) /\ plan = "drafting" /\ plan' = "ready"
  /\ RunBecomes([run EXCEPT !.at = "prompt"])
  /\ UNCHANGED <<ask, search>>

\* A tool starts a subagent, or the user does, during a run or beside it
Spawns ==
  /\ \/ At({"tool"}) /\ run' = [run EXCEPT !.at = "prompt"]
     \/ Served /\ ~Archived /\ ~Compacting /\ UNCHANGED run
  /\ ~sub /\ sub' = TRUE
  /\ UNCHANGED <<ask, search, scope, settings, chats, requests, told, bounds>>
SubEnds ==
  /\ sub /\ sub' = FALSE
  /\ UNCHANGED <<work, scope, settings, chats, requests, told, bounds>>

\* The agent is done; the context may be compacted before the turn ends. The
\* messages with attachments may turn out not to be saved
PromptEnds ==
  /\ At({"prompt"})
  /\ \/ RunBecomes([run EXCEPT !.at = "final"])
     \/ ~sub /\ RunBecomes([run EXCEPT !.at = "compacting"])
  /\ UNCHANGED <<plan, ask, search>>
CompactionEnds ==
  /\ At({"compacting"}) /\ RunBecomes([run EXCEPT !.at = "final"])
  /\ UNCHANGED <<plan, ask, search>>

\* The task of the run was cancelled: a tool takes the cancellation for itself
\* and is followed by the end of the run, anything else is interrupted, and
\* the end of the turn is not
Cancelled ==
  /\ run.cancelled
  /\ \/ /\ run.at = "tool"
        /\ RunBecomes([run EXCEPT !.at = "prompt", !.signal = TRUE, !.cancelled = FALSE])
        /\ UNCHANGED ask
     \/ /\ run.at \in {"capture", "prompt", "asking", "search", "compacting"}
        /\ RunBecomes([run EXCEPT !.at = "final", !.kind = None, !.cancelled = FALSE])
        /\ ask' = [ask EXCEPT ![Main] = NoAsk]
     \/ /\ run.at = "final"
        /\ RunBecomes([run EXCEPT !.cancelled = FALSE]) /\ UNCHANGED ask
  /\ UNCHANGED <<plan, search>>

\* _finalize_run: the changes of the turn are recorded, its end is told:
\* run.completed, run.failed or run.cancelled; whoever waits for it goes on
Finalized ==
  /\ At({"final"})
  /\ Tells(run.n, "over") /\ run' = NoRun(run.n)
  /\ stops' = [h \in Handlers |-> "none"]
  /\ UNCHANGED <<ask, search, scope, settings, chats, serial, sub, bounds>>

-----------------------------------------------------------------------------
(* Stopping a run                                                          *)

\* AgentSession.abort: the agent, if it works by now, and the subagents
Aborts ==
  /\ run' = [run EXCEPT !.signal = @ \/ run.at \in InAgent] /\ sub' = FALSE

\* run.abort stops the run, or else what subagents there are. (A compaction it
\* stops alone: here it may end at any time)
RunAbort ==
  /\ session # None /\ ~Compacting /\ stops["abort"] = "none"
  /\ IF Active THEN Aborts /\ stops' = [stops EXCEPT !["abort"] = "grace"]
     ELSE sub /\ sub' = FALSE /\ UNCHANGED <<run, stops>>
  /\ UNCHANGED <<ask, search, scope, settings, chats, serial, told, bounds>>

\* Mutant: patience without end
GraceIsLong(h) ==
  /\ stops[h] = "grace" /\ Active
  /\ stops' = [stops EXCEPT ![h] = "killed"]
  /\ UNCHANGED <<work, scope, settings, chats, serial, sub, told, bounds>>

\* The run did not stop in time: its task is cancelled
GraceEnds(h) ==
  /\ stops[h] = "grace" /\ Active /\ run.at # "created"
  /\ stops' = [stops EXCEPT ![h] = "killed"]
  /\ run' = [run EXCEPT !.cancelled = TRUE]
  /\ UNCHANGED <<ask, search, scope, settings, chats, serial, sub, told, bounds>>

-----------------------------------------------------------------------------
(* Other sessions                                                          *)

\* session.open, session.new and workspace.open, and when the target is None
\* the end of the process, which drops what requests are being handled. The
\* run is stopped first
Replace(target) ==
  /\ session # None
  /\ IF target = None THEN serial.at # "handoff" ELSE serial = Free /\ ~Compacting
  /\ serial' = [at |-> "stop", target |-> target]
  /\ LET kept == IF target = None THEN [h \in Handlers |-> "none"] ELSE stops IN
     IF Active THEN Aborts /\ stops' = [kept EXCEPT !["serial"] = "grace"]
     ELSE stops' = kept /\ UNCHANGED <<run, sub>>
  /\ Moves
  /\ UNCHANGED <<ask, search, scope, settings, chats, told, faults>>

\* SideConversations.close: no call is answered any more, all tasks are
\* cancelled
ChatsClose ==
  /\ closed' = TRUE
  /\ chat' = [c \in Chat |-> [chat[c] EXCEPT !.cancelled = Working(c)]]

\* Then its side conversations are closed
Stopped ==
  /\ serial.at = "stop" /\ ~Active /\ serial' = [serial EXCEPT !.at = "close"] /\ ChatsClose
  /\ UNCHANGED <<work, scope, settings, stops, sub, told, bounds>>

\* _cancel_before_start: a task cancelled before its first step leaves its
\* status to who cancelled it
CancelledBeforeStart(live, saved) ==
  IF live.status # "running" THEN live
  ELSE IF saved
  THEN [live EXCEPT !.status = "cancelled", !.disk = "cancelled", !.truth = "cancelled"]
  ELSE [live EXCEPT !.status = "uncertain"]

\* The conversations are over, and forgotten
Shut(live) ==
  [CancelledBeforeStart(live, TRUE) EXCEPT
     !.open = FALSE, !.status = "idle", !.stopping = FALSE, !.decision = None]
ChatsClosed ==
  /\ \A c \in Chat : ~Working(c)
  /\ chat' = [c \in Chat |-> Shut(chat[c])] /\ closed' = FALSE

\* When they are over the session is closed, and another one opened; there may
\* be no such session, and then none is open
Replaced ==
  /\ serial.at = "close" /\ ChatsClosed
  /\ session' \in {serial.target, None}
  /\ sub' = FALSE /\ plan' \in IF session' = session THEN {plan} ELSE Plans
  /\ serial' = Free
  /\ UNCHANGED <<work, settings, stops, told, bounds>>

\* A session is opened after that, or by another process
Recovers ==
  /\ session = None /\ serial = Free
  /\ session' \in Session /\ plan' \in Plans /\ Moves
  /\ UNCHANGED <<work, settings, chats, requests, sub, told, faults>>

\* plan.handoff: the conversations are closed first; the plan may still be
\* refused then, and whatever session is open gets conversations anew
Handoff ==
  /\ Quiet /\ ~Archived /\ plan = "ready"
  /\ serial' = [Free EXCEPT !.at = "handoff"] /\ ChatsClose /\ Moves
  /\ UNCHANGED <<work, scope, settings, stops, sub, told, faults>>
HandedOff ==
  /\ serial.at = "handoff" /\ ChatsClosed /\ serial' = Free
  /\ \/ /\ session' \in Session \ (archived \cup {session}) /\ plan' = "ready"
        /\ sub' = FALSE
     \/ UNCHANGED <<session, plan, sub>>
  /\ UNCHANGED <<work, settings, stops, told, bounds>>

-----------------------------------------------------------------------------
(* Requests that need an idle session                                      *)

Compact ==
  /\ Quiet /\ ~Archived /\ ~sub /\ serial' = [Free EXCEPT !.at = "compact"] /\ Moves
  /\ UNCHANGED <<work, scope, settings, chats, stops, sub, told, faults>>
CompactEnds ==
  /\ serial.at = "compact" /\ serial' = Free
  /\ UNCHANGED <<work, scope, settings, chats, stops, sub, told, bounds>>

\* A tool of the run waits for the user's answer
AwaitsAnswer == run.at = "tool" /\ plan = "drafting"

\* mode.enterPlan, plan.cancel; a plan can be cancelled under a run that waits
\* for the answer to its question
SetPlan(p) ==
  /\ Quiet \/ (Served /\ AwaitsAnswer /\ p = "default")
  /\ ~Archived /\ p \in {"default", "drafting"} /\ p # plan /\ plan' = p /\ Moves
  /\ UNCHANGED <<work, session, settings, chats, requests, sub, told, faults>>

\* permission.setMode
SetMode(m) ==
  /\ Quiet /\ ~sub /\ \A c \in Chat : chat[c].status # "running"
  /\ m # mode /\ mode' = m /\ Moves
  /\ UNCHANGED <<work, scope, archived, chats, requests, sub, told, faults>>

\* Mutant: side conversations are not asked about
ArchiveBeside(s) ==
  /\ Quiet /\ ~sub
  /\ archived' = IF s \in archived THEN archived \ {s} ELSE archived \cup {s}
  /\ Moves
  /\ UNCHANGED <<work, scope, mode, chats, requests, sub, told, faults>>
\* session.archive and session.unarchive, of any session of the workspace
Archive(s) ==
  /\ Quiet /\ ~sub /\ \A c \in Chat : ~Working(c)
  /\ archived' = IF s \in archived THEN archived \ {s} ELSE archived \cup {s}
  /\ Moves
  /\ UNCHANGED <<work, scope, mode, chats, requests, sub, told, faults>>

-----------------------------------------------------------------------------
(* Side conversations                                                      *)

ChatBecomes(c, new) ==
  /\ chat' = [chat EXCEPT ![c] = new]
  /\ UNCHANGED <<run, search, scope, settings, closed, requests, sub, told>>

\* A conversation of the open session is opened, or a new one; a run that was
\* going on when the process ended is uncertain
ChatOpen(c) ==
  /\ session # None /\ ~closed /\ ~chat[c].open
  /\ chat[c].owner \in {session, None} /\ (chat[c].owner = None => ~Archived)
  /\ ChatBecomes(c, [chat[c] EXCEPT !.owner = session, !.open = TRUE,
       !.status = IF chat[c].disk = "running" THEN "uncertain" ELSE chat[c].disk])
  /\ UNCHANGED <<ask, bounds>>

\* The status is in the file before the task exists
ChatSend(c) ==
  /\ session # None /\ ~closed /\ chat[c].open /\ ~Archived /\ ~Working(c)
  /\ Cardinality({d \in Chat : chat[d].status = "running"}) < MaxChats
  /\ \/ /\ ChatBecomes(c, [chat[c] EXCEPT !.status = "running", !.task = "new",
             !.disk = "running", !.truth = "unknown", !.decision = None])
        /\ UNCHANGED faults
     \/ Fails /\ ChatBecomes(c, chat[c])
  /\ Moves /\ UNCHANGED ask

InTask(c, stages) == chat[c].task \in stages /\ ~chat[c].cancelled
ChatBegins(c) ==
  /\ InTask(c, {"new"})
  /\ ChatBecomes(c, [chat[c] EXCEPT !.task = "busy"]) /\ UNCHANGED <<ask, bounds>>

\* _parent_policy and _native_search_allowed: what the main session allows at
\* this moment, of the tools that change files and of searches
ParentAllows(kind) ==
  ~closed /\ session # None /\ IF kind = "tool" THEN plan = "default" ELSE SearchIsAvailable

\* A call goes on, or the user is asked: about each tool, by what it does, and
\* once about searches
ChatGoesOn(c, kind) ==
  /\ kind = "search" /\ mode = "ask" => chat[c].decision = "yes"
  /\ ChatBecomes(c, [chat[c] EXCEPT !.task = kind]) /\ UNCHANGED ask
ChatAsks(c, kind) ==
  /\ IF kind = "tool" THEN mode # "full_access" ELSE mode = "ask" /\ chat[c].decision = None
  /\ ChatBecomes(c, [chat[c] EXCEPT !.task = "asking"])
  /\ ask' = [ask EXCEPT ![c] = [NoAsk EXCEPT !.kind = kind]]
ChatCalls(c, kind) ==
  /\ InTask(c, {"busy"}) /\ ParentAllows(kind)
  /\ ChatGoesOn(c, kind) \/ ChatAsks(c, kind)
  /\ UNCHANGED bounds

\* Mutant: the main session is not looked at again
ChatAskEndsBlindly(c) ==
  /\ InTask(c, {"asking"})
  /\ LET yes == ask[c].answer = "yes" IN
     ChatBecomes(c, [chat[c] EXCEPT
       !.task = IF yes THEN ask[c].kind ELSE "busy",
       !.decision = IF ask[c].kind # "search" THEN @ ELSE IF yes THEN "yes" ELSE "no"])
  /\ ask' = [ask EXCEPT ![c] = NoAsk] /\ UNCHANGED bounds

\* The user answered, or did not in time; the main session may have changed
ChatAskEnds(c) ==
  /\ InTask(c, {"asking"})
  /\ LET yes == ask[c].answer = "yes" IN
     ChatBecomes(c, [chat[c] EXCEPT
       !.task = IF yes /\ ParentAllows(ask[c].kind) THEN ask[c].kind ELSE "busy",
       !.decision = IF ask[c].kind # "search" THEN @ ELSE IF yes THEN "yes" ELSE "no"])
  /\ ask' = [ask EXCEPT ![c] = NoAsk] /\ UNCHANGED bounds

ChatCallEnds(c) ==
  /\ InTask(c, {"tool", "search"})
  /\ ChatBecomes(c, [chat[c] EXCEPT !.task = "busy"]) /\ UNCHANGED <<ask, bounds>>

\* Its task ends, in its own way or because it was cancelled, and the status
\* is saved unless that fails; a task that never started ends in silence
ChatEnds(c) ==
  /\ ask' = [ask EXCEPT ![c] = NoAsk] /\ UNCHANGED moves
  /\ LET over == [chat[c] EXCEPT !.task = "none", !.cancelled = FALSE] IN
     \/ /\ chat[c].task = "new" /\ chat[c].cancelled
        /\ ChatBecomes(c, over) /\ UNCHANGED faults
     \/ /\ chat[c].task = "busy" \/ (chat[c].cancelled /\ chat[c].task \notin {"none", "new"})
        /\ \E result \in IF chat[c].cancelled THEN {"cancelled"} ELSE {"settled", "failed"} :
             \/ /\ ChatBecomes(c, [over EXCEPT !.status = result, !.disk = result,
                                               !.truth = result])
                /\ UNCHANGED faults
             \/ Fails /\ ChatBecomes(c, [over EXCEPT !.status = "uncertain"])

\* stop, and what it does once the task is over
ChatStop(c) ==
  /\ ~closed /\ chat[c].open /\ Working(c) /\ ~chat[c].stopping
  /\ ChatBecomes(c, [chat[c] EXCEPT !.cancelled = TRUE, !.stopping = TRUE])
  /\ UNCHANGED <<ask, bounds>>

\* Mutant: the end of a task that never started is not recorded
ChatStoppedLate(c) ==
  /\ chat[c].stopping /\ ~Working(c)
  /\ ChatBecomes(c, [chat[c] EXCEPT !.stopping = FALSE,
       !.status = IF @ = "running" THEN "cancelled" ELSE @])
  /\ UNCHANGED <<ask, bounds>>
ChatStopped(c) ==
  /\ chat[c].stopping /\ ~Working(c)
  /\ LET live == [chat[c] EXCEPT !.stopping = FALSE] IN
     \/ ChatBecomes(c, CancelledBeforeStart(live, TRUE)) /\ UNCHANGED faults
     \/ /\ live.status = "running" /\ Fails
        /\ ChatBecomes(c, CancelledBeforeStart(live, FALSE))
  /\ UNCHANGED <<ask, moves>>

-----------------------------------------------------------------------------
\* approval.resolve and chat.approve
Answer(x, answer) ==
  /\ ask[x].kind # None /\ ask[x].answer = None
  /\ x \in Chat => ~closed /\ (answer = "yes" => ~Archived)
  /\ ask' = [ask EXCEPT ![x].answer = answer]
  /\ run' = [run EXCEPT !.granted =
                @ \/ (x = Main /\ ask[x].kind = "search" /\ answer = "yes")]
  /\ UNCHANGED <<search, scope, settings, chats, requests, sub, told, bounds>>

\* The process dies, and the renderer sees it; another one opens a session:
\* what the conversations left in their files is all there is
Crash ==
  /\ Fails
  /\ session' \in Session /\ plan' \in IF session' = session THEN {plan} ELSE Plans
  /\ run' = NoRun(run.n) /\ sub' = FALSE
  /\ ask' = [x \in Askers |-> NoAsk] /\ search' = NoDecision
  /\ chat' = [c \in Chat |-> [NoChat EXCEPT !.owner = chat[c].owner,
                                !.disk = chat[c].disk, !.truth = chat[c].truth]]
  /\ closed' = FALSE /\ serial' = Free /\ stops' = [h \in Handlers |-> "none"]
  /\ IF Active THEN Tells(run.n, "lost") ELSE UNCHANGED told
  /\ UNCHANGED <<settings, moves>>

-----------------------------------------------------------------------------
\* What the host does by itself
Kills == Cancelled \/ \E h \in Handlers : GraceEnds(h)
Host ==
  \/ RunBegins \/ Captured \/ AskEnds \/ CompactionEnds \/ Finalized
  \/ Stopped \/ Replaced \/ HandedOff \/ CompactEnds
Chatting ==
  \E c \in Chat :
    \/ ChatOpen(c) \/ ChatSend(c) \/ ChatBegins(c) \/ ChatAskEnds(c)
    \/ ChatCallEnds(c) \/ ChatEnds(c) \/ ChatStop(c) \/ ChatStopped(c)
    \/ \E kind \in {"tool", "search"} : ChatCalls(c, kind)
Agent == CallsTool \/ Searches \/ ToolEnds \/ Submits \/ Spawns \/ SubEnds \/ PromptEnds
User ==
  \/ \E kind \in {"prompt", "execute"} : RunStart(kind)
  \/ RunAbort \/ Handoff \/ Compact \/ Recovers
  \/ \E target \in Session \cup {None} : Replace(target)
  \/ \E p \in Plans : SetPlan(p)
  \/ \E m \in Modes : SetMode(m)
  \/ \E s \in Session : Archive(s)
  \/ \E x \in Askers, answer \in {"yes", "no"} : Answer(x, answer)

Next == Host \/ Kills \/ Chatting \/ Agent \/ User \/ Crash
Spec == Init /\ [][Next]_vars

\* The event loop goes on: the steps of the host come, model calls are timed
\* and so are approvals and the grace of a stop. The agent ends once it is
\* told to, and a cancelled task ends. Nothing is promised of tools, of the
\* user, or of a conversation nobody stops
Fairness ==
  /\ WF_vars(Host) /\ WF_vars(Kills)
  /\ WF_vars(run.signal /\ PromptEnds)
  /\ \A c \in Chat : WF_vars(chat[c].cancelled /\ ChatEnds(c))
LiveSpec == Spec /\ Fairness

-----------------------------------------------------------------------------
\* The values the variables take
TypeOK ==
  /\ session \in Session \cup {None} /\ archived \subseteq Session
  /\ mode \in Modes /\ plan \in Plans /\ run \in Runs /\ sub \in BOOLEAN
  /\ ask \in [Askers -> Asked] 
  /\ search \in [run : 0 .. MaxMoves, allowed : BOOLEAN]
  /\ chat \in [Chat -> Chats] /\ closed \in BOOLEAN /\ serial \in Serials
  /\ stops \in [Handlers -> {"none", "grace", "killed"}]

Events(n) == SelectSeq(told, LAMBDA e : e.run = n)
\* Whatever is aborted, switched or shut down while it goes on, a run that the
\* renderer saw start is followed by exactly one outcome, before the next run
\* starts: the renderer never keeps a task that nobody works on
\* (runtime._finalize_run, _stop_active_run)
RunsAreReported ==
  /\ \A i, j \in 1 .. Len(told) : i < j => told[i].run <= told[j].run
  /\ \A n \in 1 .. run.n :
       LET going == n = run.n /\ Active
           whats == [i \in 1 .. Len(Events(n)) |-> Events(n)[i].what]
       IN IF going
          THEN whats = IF run.at = "created" THEN <<>> ELSE <<"started">>
          ELSE \/ whats = <<"lost">>
               \/ whats \in {<<"started", "over">>, <<"started", "lost">>}

\* In an archived session nothing works: no run, no subagent, no conversation
\* and no compaction, however requests and their ends interleave
\* (runtime.dispatch, _set_session_archived)
ArchivedIsQuiet ==
  Archived => ~Active /\ ~Compacting /\ ~sub /\ \A c \in Chat : ~Working(c)

\* A native search of a run the user has to be asked about was allowed by the
\* user for this very run, and none starts once the session is gone
\* (runtime._before_native_web_search)
SearchesAreGranted ==
  run.at = "search" => session # None /\ (mode = "ask" => run.granted)

\* A side conversation starts no tool that changes files while the main session
\* plans or its conversations are being closed, not even one the user approved
\* before (side_conversations._approve_one)
ChatsObeyTheParent ==
  [][\A c \in Chat :
       (chat'[c].task = "tool" /\ chat[c].task # "tool") =>
         plan = "default" /\ ~closed /\ ~Archived /\ session = chat[c].owner]_vars

\* The mode of permission never changes under a run, a subagent or a
\* conversation that works (runtime._permission_set_mode)
PermissionsStandDuringWork ==
  [][mode' # mode => ~Active /\ ~sub /\ \A c \in Chat : ~Working(c)]_vars

\* The end of a conversation's run that nobody recorded is never shown as an
\* end: as long as it does not work its file says running, and when it is open
\* it is shown uncertain; and every other end it shows is the one it had
\* (side_conversations.open, _drive, _cancel_before_start)
UnfinishedIsUncertain ==
  \A c \in Chat : (~Working(c) /\ chat[c].status # "running") =>
    /\ chat[c].truth = "unknown" <=> chat[c].disk = "running"
    /\ chat[c].open => chat[c].status = IF chat[c].truth = "unknown" THEN "uncertain"
                                        ELSE chat[c].truth

\* Who waits for a run to stop is answered, and the requests behind a switch, a
\* handoff or a compaction get their turn (runtime._abort_active_run, __main__)
RequestsEnd ==
  /\ \A h \in Handlers : (stops[h] # "none") ~> (stops[h] = "none")
  /\ (serial # Free) ~> (serial = Free)
=============================================================================
