--------------------------- MODULE InteractiveMode ---------------------------
(***************************************************************************)
(* The terminal interface (modes/interactive/interactive_mode.py) with the *)
(* part of tui/tui.py that routes keys and the plan and permission menus.  *)
(*                                                                         *)
(* Two threads share it.  The reader thread takes keys from the terminal   *)
(* and calls the focused component; the event loop runs submitted lines,   *)
(* the run of the session, approvals and subagents.  One place of the      *)
(* screen takes input: it shows the editor or what has replaced it.  The   *)
(* session itself is abstract here (see PlanMode, BranchWork, AgentLoop).  *)
(* A step of the reader is one handler; keys that only edit are left out,  *)
(* and so is the ! command, which runs a shell beside this and shows an    *)
(* indicator of its own without _is_responding.                            *)
(***************************************************************************)
EXTENDS Integers, Sequences, FiniteSets, Functions, SequencesExt

CONSTANTS
  Sub,        \* subagents that may work beside the run
  MaxPosted   \* bound: lines submitted and not yet looked at by the loop

ASSUME InteractiveAssumption ==
  /\ MaxPosted \in Nat
  /\ Sub \cap {"run", "gone", "-"} = {}

VARIABLES
  tree,       \* what is mounted above the footer
  current,    \* what has replaced the editor, or NoComp
  focus,      \* the component that takes the keys
  reading,    \* the key the reader thread dispatches and the one it goes to
  posted,     \* how many submitted lines the loop has yet to run
  section,    \* coroutines between setting and clearing _is_responding
  responding, locked,  \* _is_responding, editor.disable_submit
  run,        \* the run of the session and how the chat shows it
  indicator,  \* the status indicator shown
  plan,       \* the phase of the session's plan
  sub,        \* what each subagent is doing
  stop,       \* its abort signal
  ask,        \* the approval each caller asks for
  mode,       \* whether tools are approved by the user or not at all
  said,       \* history: the key pressed on the prompt that is open
  life, running  \* how far run() has come; whether it is to go on

slot == <<tree, current, focus>>
flags == <<section, responding, locked>>
chat == <<run, indicator>>
others == <<sub, stop>>
approval == <<ask, said>>
process == <<life, running>>
input == <<reading, posted>>
vars == <<slot, input, flags, chat, plan, others, approval, mode, process>>

-----------------------------------------------------------------------------
Main == "run"
Caller == {Main} \cup Sub

Comp(is) == [is |-> is, of |-> "-"]
NoComp == Comp("none")
Editor == Comp("editor")
Prompt(c) == [is |-> "ask", of |-> c]
\* The prompt of an approval that is over: its keys resolve nothing
GonePrompt == Prompt("gone")
Controls == {Comp("question"), Comp("menu"), Comp("ready")}
Comps == {Editor, Comp("picker"), GonePrompt} \cup Controls
           \cup {Prompt(c) : c \in Caller}

Keys == {"enter", "escape", "ctrl+c", "ctrl+d"}
Idle == [key |-> "none", on |-> NoComp]
Phases == {"idle", "drafting", "awaiting_answer", "ready", "executing", "uncertain"}

Unsettled == {"pending", "running"}
Cards == {"none", "ended", "uncertain"} \cup Unsettled
RunStages == {"none", "start", "turn", "stream", "called", "gate", "tool",
              "question", "ending", "settle", "compacting", "over"}
NoRun == [at |-> "none", card |-> "none", tracked |-> FALSE,
          escaped |-> FALSE]  \* history: Esc was handled while it was busy
NoAsk == [at |-> "no", future |-> "none", verdict |-> FALSE]

TypeOK ==
  /\ tree \subseteq Comps /\ {current, focus} \subseteq Comps \cup {NoComp}
  /\ reading \in [key : Keys \cup {"none"}, on : Comps \cup {NoComp}]
  /\ posted \in 0 .. MaxPosted
  /\ section \subseteq {"reply", "execute", "compact"}
  /\ {responding, locked, running} \subseteq BOOLEAN
  /\ run \in [at : RunStages, card : Cards, tracked : BOOLEAN,
            escaped : BOOLEAN]
  /\ indicator \in {"none", "working", "retry", "compaction"}
  /\ plan \in Phases /\ mode \in {"ask", "full_access"}
  /\ sub \in [Sub -> {"off", "works", "gate", "tool"}] /\ stop \in [Sub -> BOOLEAN]
  /\ ask \in [Caller -> [at : {"no", "waiting", "open", "closing"},
                         future : {"none", "pending", "allow", "deny"},
                         verdict : BOOLEAN]]
  /\ said \in [Caller -> {"none", "allow", "deny"}]
  /\ life \in {"initial", "looping", "ended"}

\* InteractiveMode.run: with an initial prompt the reply to it comes first
Init ==
  /\ tree = {Editor} /\ current = NoComp /\ focus = Editor
  /\ reading = Idle /\ posted = 0
  /\ life \in {"initial", "looping"} /\ running = TRUE
  /\ LET first == life = "initial"
     IN  /\ section = (IF first THEN {"reply"} ELSE {})
         /\ responding = first /\ locked = first
         /\ run = [NoRun EXCEPT !.at = IF first THEN "start" ELSE "none"]
  /\ indicator = "none" /\ plan = "idle" /\ mode \in {"ask", "full_access"}
  /\ sub = [c \in Sub |-> "off"] /\ stop = [c \in Sub |-> FALSE]
  /\ ask = [c \in Caller |-> NoAsk] /\ said = [c \in Caller |-> "none"]

Alive == life # "ended"

-----------------------------------------------------------------------------
(* The place for input *)

\* Mutant: the editor is taken out, whatever is mounted
SwapsEditorOnly(c) ==
  /\ tree' = (tree \ {Editor}) \cup {c}
  /\ current' = c /\ focus' = c

\* _swap_editor_for: what is mounted makes way, be it the editor or not
SwapEditorFor(c) ==
  /\ tree' = (tree \ {IF current = NoComp THEN Editor ELSE current}) \cup {c}
  /\ current' = c /\ focus' = c

\* _restore_editor
RestoreEditor ==
  /\ tree' = (tree \ {current}) \cup {Editor}
  /\ current' = NoComp /\ focus' = Editor

\* _close_plan_controls
ClosePlanControls ==
  IF current \in Controls THEN RestoreEditor ELSE UNCHANGED slot

\* _render_plan_state_controls: the control that the phase of the plan calls for
RenderPlanStateControls(phase) ==
  CASE phase = "awaiting_answer" -> SwapEditorFor(Comp("question"))
    [] phase = "ready" -> SwapEditorFor(Comp("ready"))
    [] phase \in {"executing", "uncertain"} -> SwapEditorFor(Comp("menu"))
    [] OTHER -> ClosePlanControls

-----------------------------------------------------------------------------
(* The reader thread *)

\* The subagents and the run allow the permission mode to change
Idling == ~responding /\ run.at = "none" /\ \A c \in Sub : sub[c] = "off"

\* PermissionMenuComponent: resolve() settles the future of its own approval
\* once; a prompt that is gone has a settled one
Resolve(on, v) ==
  IF on.of \in Caller /\ ask[on.of].future = "pending"
  THEN /\ ask' = [ask EXCEPT ![on.of].future = v]
       /\ said' = IF ask[on.of].at = "open" THEN [said EXCEPT ![on.of] = v] ELSE said
  ELSE UNCHANGED approval

\* on_input: Ctrl+C denies a prompt; else it clears the editor, and quits
\* when it has come twice in half a second
CtrlC ==
  /\ IF current.is = "ask"
     THEN Resolve(current, "deny") /\ UNCHANGED running
     ELSE running' \in {running, FALSE} /\ UNCHANGED approval
  /\ UNCHANGED <<slot, input, flags, chat, plan, others, mode, life>>

\* on_exit: Ctrl+D quits if the editor is empty, mounted or not
CtrlD ==
  /\ running' = FALSE
  /\ UNCHANGED <<slot, input, flags, chat, plan, others, approval, mode, life>>

\* on_mode_cycle: enters Plan Mode or cancels the plan, unless there is work
CycleMode ==
  /\ current = NoComp /\ ~responding
  /\ CASE plan = "idle" -> plan' = "drafting" /\ RestoreEditor
       [] plan \in {"executing", "uncertain"} -> RenderPlanStateControls(plan) /\ UNCHANGED plan
       [] OTHER -> plan' = "idle" /\ UNCHANGED slot
  /\ UNCHANGED <<input, flags, chat, others, approval, mode, process>>

\* on_permission_toggle, refused while anything works
TogglePermissions ==
  /\ current = NoComp /\ Idling
  /\ mode' = (IF mode = "ask" THEN "full_access" ELSE "ask")
  /\ UNCHANGED <<slot, input, flags, chat, plan, others, approval, process>>

\* TUI._handle_input: the listeners come first; another key is for the
\* component that has the focus, which is read now and called next
KeyCtrlC == Alive /\ reading = Idle /\ CtrlC
KeyCtrlD == Alive /\ reading = Idle /\ CtrlD
KeyMode == Alive /\ reading = Idle /\ CycleMode
KeyPermissions == Alive /\ reading = Idle /\ TogglePermissions
KeyRead(k) ==
  /\ Alive /\ reading = Idle
  /\ reading' = [key |-> k, on |-> focus]
  /\ UNCHANGED <<slot, posted, flags, chat, plan, others, approval, mode, process>>

Handles(k, on) ==
  /\ Alive /\ reading.key = k /\ reading.on = on
  /\ reading' = Idle
  /\ UNCHANGED <<flags, indicator, others, mode, process>>

\* Enter in the editor: the line is posted to the loop (_on_submit_callback);
\* what it says matters when the loop comes to it
Submit ==
  /\ Handles("enter", Editor) /\ ~locked
  /\ posted < MaxPosted /\ posted' = posted + 1
  /\ UNCHANGED <<slot, run, plan, approval>>
SubmitLocked ==
  /\ Handles("enter", Editor) /\ (locked \/ posted = MaxPosted)
  /\ UNCHANGED <<slot, posted, run, plan, approval>>

\* _spawn from the reader thread, where no loop runs: the coroutine is closed
\* and nothing happens
SpawnFromReader == UNCHANGED <<run, others, plan>>

\* _on_escape spawns session.abort() or subagents.aclose(): see SpawnFromReader
EscapeEditor ==
  /\ Handles("escape", Editor)
  /\ run' = [run EXCEPT !.escaped = @ \/ run.at \in {"stream", "gate", "tool"}]
  /\ UNCHANGED <<slot, posted, plan, approval>>

\* A permission prompt: one of its two items is chosen, or it is closed
AnswerPrompt(v) ==
  /\ \E k \in {"enter", "escape"}, c \in Caller \cup {"gone"} :
        (k = "escape" => v = "deny") /\ Handles(k, Prompt(c)) /\ Resolve(Prompt(c), v)
  /\ UNCHANGED <<slot, posted, run, plan>>

\* on_answer and on_cancel of a plan question: the editor comes back and
\* the answer, or the abort, is spawned
AnswerQuestion ==
  /\ \E k \in {"enter", "escape"} : Handles(k, Comp("question"))
  /\ RestoreEditor /\ SpawnFromReader
  /\ UNCHANGED <<posted, run, approval>>

\* on_action of the menu of a phase and of a plan that is ready: what they
\* spawn (submit, execute, stop, review) is lost, the rest is done at once
ChooseAction(on) ==
  /\ \E k \in {"enter", "escape"} : Handles(k, on)
  /\ \/ RestoreEditor /\ SpawnFromReader
     \/ /\ reading.key = "enter" /\ on = Comp("menu")
        /\ plan = "awaiting_answer" /\ SwapEditorFor(Comp("question"))
        /\ UNCHANGED plan
     \/ \* cancel, or plan anew; refused while a run executes
        /\ reading.key = "enter" /\ plan # "idle" /\ run.at = "none"
        /\ plan' \in {"idle"} \cup (IF plan = "uncertain" THEN {"drafting"} ELSE {})
        /\ RestoreEditor
     \/ \* handoff: the linked session opens with the same plan ready
        /\ reading.key = "enter" /\ on = Comp("ready") /\ plan = "ready"
        /\ run.at = "none" /\ SwapEditorFor(on) /\ UNCHANGED plan
  /\ UNCHANGED <<posted, run, approval>>

\* A model or a branch is chosen, or the selector is closed.  Another branch
\* has a plan of its own (_on_tree_selected)
Pick ==
  /\ \E k \in {"enter", "escape"} : Handles(k, Comp("picker"))
  /\ \/ RestoreEditor /\ UNCHANGED plan
     \/ /\ reading.key = "enter" /\ plan' \in {plan, "idle", "ready"}
        /\ IF plan' \in {"idle", "drafting"} THEN RestoreEditor
           ELSE RenderPlanStateControls(plan')
  /\ UNCHANGED <<posted, run, approval>>

Reader ==
  \/ KeyCtrlC \/ KeyCtrlD \/ KeyMode \/ KeyPermissions
  \/ KeyRead("enter") \/ KeyRead("escape")
  \/ Submit
  \/ SubmitLocked \/ EscapeEditor
  \/ AnswerPrompt("allow") \/ AnswerPrompt("deny")
  \/ AnswerQuestion \/ ChooseAction(Comp("menu")) \/ ChooseAction(Comp("ready"))
  \/ Pick

-----------------------------------------------------------------------------
(* Submitted lines, on the loop *)

\* _is_responding and disable_submit are set together and cleared together
EntersSection(s) ==
  /\ section' = section \cup {s} /\ responding' = TRUE /\ locked' = TRUE
LeavesSection(s) ==
  /\ section' = section \ {s} /\ responding' = FALSE /\ locked' = FALSE

NextLine ==
  /\ Alive /\ posted > 0 /\ posted' = posted - 1
  /\ UNCHANGED <<reading, approval, mode, process>>

\* _on_submit drops what comes while the session responds
LineDropped ==
  /\ responding /\ NextLine
  /\ UNCHANGED <<slot, flags, chat, plan, others>>

\* _cmd_compact
CompactRuns ==
  /\ ~responding /\ NextLine
  /\ EntersSection("compact")
  /\ run' = [run EXCEPT !.at = "compacting"] /\ indicator' = "compaction"
  /\ UNCHANGED <<slot, plan, others>>

\* A message, a template or a skill: _respond runs it
MessageRuns ==
  /\ ~responding /\ NextLine
  /\ EntersSection("reply")
  /\ run' = [NoRun EXCEPT !.at = "start", !.card = run.card]
  /\ UNCHANGED <<slot, indicator, plan, others>>

\* _execute_latest_plan; the snapshot of the executing plan brings its menu
ExecuteRuns ==
  /\ ~responding /\ NextLine /\ UNCHANGED <<indicator, others>>
  /\ IF plan = "ready"
     THEN /\ EntersSection("execute") /\ plan' = "executing"
          /\ run' = [NoRun EXCEPT !.at = "start", !.card = run.card]
          /\ RenderPlanStateControls("executing")
     ELSE UNCHANGED <<slot, flags, run, plan>>

\* _cmd_plan
PlanRuns ==
  /\ ~responding /\ NextLine /\ UNCHANGED <<flags, chat, others>>
  /\ CASE plan = "idle" -> plan' = "drafting" /\ RestoreEditor
       [] plan \in {"drafting", "awaiting_answer"} ->
            SwapEditorFor(Comp("menu")) /\ UNCHANGED plan
       [] OTHER -> RenderPlanStateControls(plan) /\ UNCHANGED plan

\* /model, /tree, /login: a selector takes the place of the editor
PickRuns ==
  /\ ~responding /\ NextLine
  /\ SwapEditorFor(Comp("picker"))
  /\ UNCHANGED <<flags, chat, plan, others>>

\* /subagents cancel: the signal is set and the task is cancelled
StopsSubagents ==
  /\ ~responding /\ NextLine
  /\ stop' = [c \in Sub |-> sub[c] # "off"]
  /\ UNCHANGED <<slot, flags, chat, plan, sub>>

Submitted ==
  \/ LineDropped \/ CompactRuns \/ MessageRuns \/ ExecuteRuns \/ PlanRuns
  \/ PickRuns \/ StopsSubagents

-----------------------------------------------------------------------------
(* The run: the events of the session and what the chat shows for them     *)
(* (_on_agent_event and its handlers)                                      *)

RunAt(s) ==
  /\ Alive /\ run.at = s
  /\ life' = (IF s = "over" THEN "looping" ELSE life)
  /\ UNCHANGED <<input, others, mode, running>>
Shows(r) == run' = r
Untracked(r, card) == [r EXCEPT !.card = card, !.tracked = FALSE]

\* prompt() begins, or raises
AgentStarts ==
  /\ RunAt("start") /\ Shows([run EXCEPT !.at = "turn", !.tracked = FALSE])
  /\ indicator' = "working" /\ UNCHANGED <<slot, flags, plan, approval>>
PromptRaises ==
  /\ RunAt("start") /\ Shows([run EXCEPT !.at = "over"])
  /\ UNCHANGED <<slot, flags, indicator, plan, approval>>

RetryShown ==
  /\ RunAt("turn") /\ indicator' = "retry" /\ UNCHANGED run
  /\ UNCHANGED <<slot, flags, plan, approval>>

\* _handle_message_start: it ends the wait for a retry
MessageStarts ==
  /\ RunAt("turn") /\ Shows([run EXCEPT !.at = "stream", !.tracked = FALSE])
  /\ indicator' = (IF indicator = "retry" THEN "none" ELSE indicator)
  /\ UNCHANGED <<slot, flags, plan, approval>>

\* _handle_message_update: a call in the message gets a card
CallStreams ==
  /\ RunAt("stream") /\ ~run.tracked
  /\ Shows([run EXCEPT !.card = "pending", !.tracked = TRUE])
  /\ UNCHANGED <<slot, flags, indicator, plan, approval>>

\* Mutant: a message that failed leaves the cards of its calls as they are
KeepsPendingCards(reason) ==
  /\ RunAt("stream") /\ (reason = "toolUse" <=> run.tracked /\ reason # "error")
  /\ Shows([run EXCEPT !.at = IF reason = "toolUse" THEN "called" ELSE "ending"])
  /\ UNCHANGED <<slot, flags, indicator, plan, approval>>

\* _handle_message_end: the calls of a message that failed never run
MessageEnds(reason) ==
  /\ RunAt("stream") /\ (reason = "toolUse" <=> run.tracked /\ reason # "error")
  /\ LET r == [run EXCEPT !.at = IF reason = "toolUse" THEN "called" ELSE "ending"]
     IN  Shows(IF reason = "error" /\ run.tracked THEN Untracked(r, "uncertain") ELSE r)
  /\ UNCHANGED <<slot, flags, indicator, plan, approval>>

\* _handle_tool_start; the hook that asks for approval comes next
ToolStarts ==
  /\ RunAt("called") /\ Shows([run EXCEPT !.at = "gate", !.card = "pending", !.tracked = TRUE])
  /\ UNCHANGED <<slot, flags, indicator, plan, approval>>

\* tool_execution_running, once the hook has let the call through
ToolRuns == [run EXCEPT !.at = "tool", !.card = IF run.tracked THEN "running" ELSE @]
\* tool_execution_end: only a card that is still tracked is settled
ToolEnded ==
  IF run.tracked THEN Untracked([run EXCEPT !.at = "turn"], "ended")
  ELSE [run EXCEPT !.at = "turn"]
ToolEnds ==
  /\ RunAt("tool") /\ Shows(ToolEnded)
  /\ UNCHANGED <<slot, flags, indicator, plan, approval>>

\* Control tools: a plan is submitted, or a question is asked, for which
\* the run waits.  The snapshot of the plan brings its control
PlanSubmitted ==
  /\ RunAt("turn") /\ plan = "drafting" /\ plan' = "ready"
  /\ RenderPlanStateControls("ready") /\ UNCHANGED <<flags, chat, approval>>
QuestionAsked ==
  /\ RunAt("turn") /\ plan = "drafting" /\ plan' = "awaiting_answer"
  /\ Shows([run EXCEPT !.at = "question"])
  /\ RenderPlanStateControls("awaiting_answer")
  /\ UNCHANGED <<flags, indicator, approval>>

AgentEnds ==
  /\ RunAt("ending") /\ Shows([run EXCEPT !.at = "settle"])
  /\ indicator' = (IF indicator = "working" THEN "none" ELSE indicator)
  /\ UNCHANGED <<slot, flags, plan, approval>>

\* Automatic compaction, unless subagents are at work
CompactionStarts ==
  /\ RunAt("settle") /\ \A c \in Sub : sub[c] = "off"
  /\ Shows([run EXCEPT !.at = "compacting"]) /\ indicator' = "compaction"
  /\ UNCHANGED <<slot, flags, plan, approval>>

\* _rebuild_chat_from_messages: a call without a result shows as uncertain
Rebuilt(r) == Untracked(r, IF r.card \in Unsettled THEN "uncertain" ELSE r.card)

\* _handle_compaction_end: the chat is rebuilt unless it failed or was
\* aborted; after an overflow the message is prompted again
CompactionEnds ==
  /\ RunAt("compacting")
  /\ \E r \in {run, Rebuilt(run)}, at \in {"over", "start"} :
        (at = "start" => "compact" \notin section) /\ Shows([r EXCEPT !.at = at])
  /\ indicator' = (IF indicator = "compaction" THEN "none" ELSE indicator)
  /\ UNCHANGED <<slot, flags, plan, approval>>
Settles ==
  /\ RunAt("settle") /\ Shows([run EXCEPT !.at = "over"])
  /\ UNCHANGED <<slot, flags, indicator, plan, approval>>

\* The finally blocks of _respond and of _on_submit; after the initial
\* prompt run() shows the controls of the plan and begins to loop
ReplyEnds ==
  /\ RunAt("over") /\ "reply" \in section /\ LeavesSection("reply")
  /\ Shows([run EXCEPT !.at = "none", !.tracked = FALSE, !.escaped = FALSE]) /\ indicator' = "none"
  /\ IF life = "initial" THEN RenderPlanStateControls(plan) ELSE UNCHANGED slot
  /\ UNCHANGED <<plan, approval>>

\* The finally block of _execute_latest_plan, and the snapshot of the end
ExecuteEnds ==
  /\ RunAt("over") /\ "execute" \in section /\ LeavesSection("execute")
  /\ Shows([run EXCEPT !.at = "none", !.escaped = FALSE]) /\ plan' \in {"idle", "uncertain"}
  /\ RenderPlanStateControls(plan') /\ UNCHANGED <<indicator, approval>>
CompactEnds ==
  /\ RunAt("over") /\ "compact" \in section /\ LeavesSection("compact")
  /\ Shows([run EXCEPT !.at = "none", !.escaped = FALSE])
  /\ indicator' = (IF indicator = "compaction" THEN "none" ELSE indicator)
  /\ RenderPlanStateControls(plan) /\ UNCHANGED <<plan, approval>>

Run ==
  \/ AgentStarts \/ PromptRaises \/ RetryShown \/ MessageStarts \/ CallStreams
  \/ \E reason \in {"stop", "toolUse", "error"} : MessageEnds(reason)
  \/ ToolStarts \/ ToolEnds \/ PlanSubmitted \/ QuestionAsked \/ AgentEnds
  \/ CompactionStarts \/ CompactionEnds \/ Settles
  \/ ReplyEnds \/ ExecuteEnds \/ CompactEnds

-----------------------------------------------------------------------------
(* Approvals (_before_tool_call, _ask_permission): of the run and of the   *)
(* subagents, one prompt at a time                                         *)

AtGate(c) == IF c = Main THEN run.at = "gate" ELSE sub[c] = "gate"
Stopped(c) == c # Main /\ stop[c]  \* nothing reaches the signal of the run

LetsThrough(c, allowed) ==
  IF c = Main
  THEN run' = (IF allowed THEN ToolRuns ELSE ToolEnded) /\ UNCHANGED sub
  ELSE sub' = [sub EXCEPT ![c] = IF allowed /\ ~stop[c] THEN "tool" ELSE "works"]
       /\ UNCHANGED run

Gating(c) ==
  /\ Alive /\ AtGate(c)
  /\ UNCHANGED <<posted, flags, indicator, plan, stop, mode, process>>

\* The mode, or the call, needs no approval
NotAsked(c) ==
  /\ Gating(c) /\ ask[c].at = "no" /\ LetsThrough(c, TRUE)
  /\ UNCHANGED <<slot, reading, approval>>
AsksPermission(c) ==
  /\ Gating(c) /\ ask[c].at = "no" /\ mode = "ask"
  /\ ask' = [ask EXCEPT ![c].at = "waiting"]
  /\ UNCHANGED <<slot, reading, said, run, sub>>

\* The lock is free: the prompt replaces whatever takes the input
PromptOpens(c) ==
  /\ Gating(c) /\ ask[c].at = "waiting"
  /\ \A d \in Caller : ask[d].at \notin {"open", "closing"}
  /\ UNCHANGED <<reading, said>>
  /\ IF Stopped(c)
     THEN ask' = [ask EXCEPT ![c] = NoAsk] /\ LetsThrough(c, FALSE) /\ UNCHANGED slot
     ELSE /\ ask' = [ask EXCEPT ![c].at = "open", ![c].future = "pending"]
          /\ SwapEditorFor(Prompt(c)) /\ UNCHANGED <<run, sub>>

\* Mutant: whatever ends the wait, the answer counts if it is not a refusal
SettlesUnlessDenied(c) ==
  /\ Gating(c) /\ ask[c].at = "open"
  /\ ask' = [ask EXCEPT ![c].at = "closing",
                        ![c].verdict = ask[c].future # "deny" /\ ~Stopped(c)]
  /\ UNCHANGED <<slot, reading, said, run, sub>>

\* An answer, the signal or 120 seconds: what the prompt returns is decided
\* now, before the finally block awaits
PromptSettles(c) ==
  /\ Gating(c) /\ ask[c].at = "open"
  /\ ask' = [ask EXCEPT ![c].at = "closing",
                        ![c].verdict = ask[c].future = "allow" /\ ~Stopped(c)]
  /\ UNCHANGED <<slot, reading, said, run, sub>>

\* Keys already read for the prompt of c find it settled
Forget(c, comp) == IF comp = Prompt(c) THEN GonePrompt ELSE comp
Unsaid(c) == said' = [said EXCEPT ![c] = "none"]
ReadingForgets(c) == reading' = [reading EXCEPT !.on = Forget(c, @)]

\* The editor comes back if the prompt is still there
PromptCloses(c) ==
  /\ Gating(c) /\ ask[c].at = "closing"
  /\ ask' = [ask EXCEPT ![c] = NoAsk] /\ Unsaid(c) /\ ReadingForgets(c)
  /\ IF current = Prompt(c) THEN RestoreEditor ELSE UNCHANGED slot
  /\ LetsThrough(c, ask[c].verdict)

-----------------------------------------------------------------------------
(* Subagents (SubagentManager), as far as they ask *)

SubAt(c, s) ==
  /\ Alive /\ sub[c] = s
  /\ UNCHANGED <<posted, flags, chat, plan, mode, process>>
SubGoes(c, s) == sub' = [sub EXCEPT ![c] = s]

SubStarts(c) ==
  /\ SubAt(c, "off") /\ SubGoes(c, "works")
  /\ UNCHANGED <<slot, reading, approval, stop>>
SubCalls(c) ==
  /\ SubAt(c, "works") /\ ~stop[c] /\ SubGoes(c, "gate")
  /\ UNCHANGED <<slot, reading, approval, stop>>
SubToolEnds(c) ==
  /\ SubAt(c, "tool") /\ SubGoes(c, "works")
  /\ UNCHANGED <<slot, reading, approval, stop>>
SubEnds(c) ==
  /\ SubAt(c, "works") /\ SubGoes(c, "off") /\ stop' = [stop EXCEPT ![c] = FALSE]
  /\ UNCHANGED <<slot, reading, approval>>

\* Its task is cancelled, by /subagents cancel or after 180 seconds: at a
\* prompt that is open, the finally block runs; in the await of that block,
\* the rest of it does not
SubCancelled(c) ==
  /\ SubAt(c, "gate")
  /\ stop' = [stop EXCEPT ![c] = ask[c].at = "open"]
  /\ \/ /\ ask[c].at \in {"no", "waiting"}
        /\ ask' = [ask EXCEPT ![c] = NoAsk] /\ SubGoes(c, "off")
        /\ UNCHANGED <<slot, reading, said>>
     \/ /\ ask[c].at = "open"
        /\ ask' = [ask EXCEPT ![c].at = "closing"]
        /\ UNCHANGED <<slot, reading, said, sub>>
     \/ /\ ask[c].at = "closing"
        /\ ask' = [ask EXCEPT ![c] = NoAsk] /\ SubGoes(c, "off")
        /\ tree' = {Forget(c, comp) : comp \in tree}
        /\ current' = Forget(c, current) /\ focus' = Forget(c, focus)
        /\ ReadingForgets(c) /\ Unsaid(c)

\* The loop of run() sees that it shall not go on
LoopEnds ==
  /\ life = "looping" /\ ~running /\ life' = "ended"
  /\ UNCHANGED <<slot, input, flags, chat, plan, others, approval, mode, running>>

Asking(c) ==
  \/ NotAsked(c) \/ AsksPermission(c) \/ PromptOpens(c) \/ PromptSettles(c)
  \/ PromptCloses(c)
Subagent(c) ==
  SubStarts(c) \/ SubCalls(c) \/ SubToolEnds(c) \/ SubEnds(c) \/ SubCancelled(c)

Next ==
  \/ Reader \/ Submitted \/ Run \/ LoopEnds
  \/ \E c \in Caller : Asking(c)
  \/ \E c \in Sub : Subagent(c)

Spec == Init /\ [][Next]_vars

-----------------------------------------------------------------------------
\* The editor takes no lines exactly while one coroutine drives the session:
\* neither does the editor stay locked, nor is a second one let in while the
\* first is under way (_is_responding, disable_submit).
RespondingCoversTheRun ==
  /\ Cardinality(section) <= 1
  /\ responding = (section # {}) /\ locked = responding
  /\ run.at # "none" => responding

\* Whatever opens, closes, is dismissed or cancelled, in whatever order: one
\* component is mounted where input is taken, and it has the keys
\* (_swap_editor_for, _restore_editor).
OnePlaceForInput ==
  /\ tree = {focus}
  /\ focus = (IF current = NoComp THEN Editor ELSE current)

\* A call that asked runs only if a key said so while its own prompt was
\* open: no deadline, stop, late key or key meant for another prompt lets it
\* through (_ask_permission).
NothingRunsUnallowed ==
  [][\A c \in Caller :
       /\ ask[c].at \in {"waiting", "open", "closing"}
       /\ IF c = Main THEN run'.at = "tool" ELSE sub'[c] = "tool"
       => said[c] = "allow"]_vars

\* When the session has ended its work, and between its messages, no card
\* in the chat still waits for a result and no spinner is left behind
\* (_handle_message_end, _handle_tool_end, _handle_compaction_end).
TheChatSettles ==
  /\ run.at \in {"none", "turn"} => run.card \notin Unsettled
  /\ section = {} => indicator = "none"

\* "Esc is the real interrupt key: aborts streaming" (InteractiveMode.run):
\* once Esc was handled during a run, no further message of it streams.  The
\* code does not keep it: _spawn finds no event loop on the reader thread.
EscapeInterrupts ==
  [][run.escaped /\ run.at = "turn" => run'.at # "stream"]_vars
=============================================================================
