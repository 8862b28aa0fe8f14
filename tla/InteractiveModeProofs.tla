------------------------ MODULE InteractiveModeProofs ------------------------
(***************************************************************************)
(* Proofs about the terminal interface, for any subagents and any number   *)
(* of lines submitted ahead of the loop.                                   *)
(* A reader should start from IInv.  One place takes the input whatever    *)
(* the rest does (SlotMoves); that nothing runs unallowed needs more: who  *)
(* asks is at its gate (AskFits), which the run is only because no second  *)
(* coroutine can start one (SectionFits), and a key can say yes only to    *)
(* the approval whose prompt it was read for (PromptsFit).                 *)
(***************************************************************************)
EXTENDS InteractiveMode, FiniteSetTheorems, TLAPS

\* At most one coroutine drives the session, and the flags say whether one does
SectionFits ==
  /\ \A s, t \in section : s = t
  /\ responding = (section # {}) /\ locked = responding
  /\ run.at # "none" => responding

\* What the chat shows at each stage of the run
RunFits ==
  /\ run.card \in Unsettled =>
       run.tracked /\ run.at \in {"stream", "called", "gate", "tool"}
  /\ run.at \in {"none", "start", "settle", "over"} => indicator = "none"
  /\ run.at \in {"stream", "called", "gate", "tool", "ending"} =>
       indicator \in {"none", "working"}
  /\ run.at = "compacting" <=> indicator = "compaction"

\* An approval is asked for at the gate, and granted by a key only
AskFits(c) ==
  /\ ask[c].at # "no" => AtGate(c)
  /\ ask[c].verdict => ask[c].at = "closing" /\ said[c] = "allow"
  /\ ask[c].at = "open" /\ ask[c].future = "allow" => said[c] = "allow"

\* The prompt that is mounted, or read for, is that of an approval under
\* way, and there is one such approval at most
Asked(c) == ask[c].at \in {"open", "closing"}
PromptsFit ==
  /\ \A c \in Caller : Prompt(c) \in {current, reading.on} => Asked(c)
  /\ \A c, d \in Caller : Asked(c) /\ Asked(d) => c = d

IInv ==
  /\ TypeOK /\ OnePlaceForInput /\ SectionFits /\ RunFits
  /\ \A c \in Caller : AskFits(c)
  /\ PromptsFit

-----------------------------------------------------------------------------
(* The place for input                                                     *)

\* No prompt is put there
PlainSlot ==
  \/ UNCHANGED slot
  \/ RestoreEditor
  \/ \E x \in Controls \cup {Comp("picker")} : SwapEditorFor(x)

\* The main run and the subagents are told apart.
LEMMA CallersAreNamed ==
  /\ Main \in Caller /\ Sub \subseteq Caller
  /\ \A c \in Caller : c # "gone" /\ c # "-"
  /\ \A c \in Sub : c # Main
BY InteractiveAssumption DEF Caller, Main

\* Whatever is put there takes the place of what was there, and the keys.
LEMMA SwapKeepsOnePlace ==
  ASSUME OnePlaceForInput, NEW x, x # NoComp, SwapEditorFor(x)
  PROVE  OnePlaceForInput'
BY DEF OnePlaceForInput, SwapEditorFor

\* The editor comes back to the slot and takes the keys.
LEMMA RestoreKeepsOnePlace ==
  ASSUME OnePlaceForInput, RestoreEditor
  PROVE  OnePlaceForInput'
BY DEF OnePlaceForInput, RestoreEditor

\* Every move of the slot leaves one place for input.
LEMMA SlotMoves ==
  ASSUME TypeOK, OnePlaceForInput, PlainSlot
  PROVE  /\ OnePlaceForInput'
         /\ tree' \subseteq Comps /\ {current', focus'} \subseteq Comps \cup {NoComp}
         /\ \A c : current' = Prompt(c) => current = Prompt(c)
<1>1. CASE UNCHANGED slot
  BY <1>1 DEF TypeOK, OnePlaceForInput, slot
<1>2. CASE RestoreEditor
  <2>1. OnePlaceForInput'
    BY <1>2, RestoreKeepsOnePlace
  <2>2. current' = NoComp /\ focus' = Editor /\ tree' = {Editor}
    BY <1>2, <2>1 DEF RestoreEditor, OnePlaceForInput
  <2>3. Editor \in Comps /\ \A c : NoComp # Prompt(c)
    BY DEF Comps, NoComp, Comp, Prompt
  <2>4. QED
    BY <2>1, <2>2, <2>3
<1>3. ASSUME NEW x \in Controls \cup {Comp("picker")}, SwapEditorFor(x)
      PROVE  /\ OnePlaceForInput'
             /\ tree' \subseteq Comps /\ {current', focus'} \subseteq Comps \cup {NoComp}
             /\ \A c : current' = Prompt(c) => current = Prompt(c)
  <2>1. x # NoComp /\ x \in Comps /\ \A c : x # Prompt(c)
    BY DEF NoComp, Comps, Controls, Comp, Prompt
  <2>2. OnePlaceForInput'
    BY <1>3, <2>1, SwapKeepsOnePlace
  <2>3. current' = x /\ focus' = x /\ tree' = {x}
    BY <1>3, <2>2 DEF SwapEditorFor, OnePlaceForInput
  <2>4. QED
    BY <2>1, <2>2, <2>3
<1>4. QED
  BY <1>1, <1>2, <1>3 DEF PlainSlot

\* The controls of a plan are no prompts.
LEMMA ControlsArePlain ==
  ASSUME NEW phase, RenderPlanStateControls(phase)
  PROVE  PlainSlot
BY DEF RenderPlanStateControls, ClosePlanControls, PlainSlot, Controls

-----------------------------------------------------------------------------
(* Approvals and keys                                                      *)

\* What a step of the reader may do to approvals: give an open one its answer
Answers(v) == \E on : Resolve(on, v)

\* An answer is given to a prompt that is open, and is allow or deny.
LEMMA AnswersFit ==
  ASSUME TypeOK, NEW v \in {"allow", "deny"}, Answers(v)
  PROVE  /\ ask' \in [Caller -> [at : {"no", "waiting", "open", "closing"},
                                 future : {"none", "pending", "allow", "deny"},
                                 verdict : BOOLEAN]]
         /\ said' \in [Caller -> {"none", "allow", "deny"}]
         /\ \A c \in Caller :
              /\ ask'[c].at = ask[c].at /\ ask'[c].verdict = ask[c].verdict
              /\ ask[c].at # "open" => said'[c] = said[c]
              /\ \/ ask'[c].future = ask[c].future /\ said'[c] = said[c]
                 \/ ask[c].at = "open" => said'[c] = ask'[c].future
<1>1. CASE UNCHANGED approval
  BY <1>1 DEF approval, TypeOK
<1>2. ASSUME NEW d \in Caller, ask[d].future = "pending",
             ask' = [ask EXCEPT ![d].future = v],
             said' = IF ask[d].at = "open" THEN [said EXCEPT ![d] = v] ELSE said
      PROVE  /\ ask' \in [Caller -> [at : {"no", "waiting", "open", "closing"},
                                     future : {"none", "pending", "allow", "deny"},
                                     verdict : BOOLEAN]]
             /\ said' \in [Caller -> {"none", "allow", "deny"}]
             /\ \A c \in Caller :
                  /\ ask'[c].at = ask[c].at /\ ask'[c].verdict = ask[c].verdict
                  /\ ask[c].at # "open" => said'[c] = said[c]
                  /\ \/ ask'[c].future = ask[c].future /\ said'[c] = said[c]
                     \/ ask[c].at = "open" => said'[c] = ask'[c].future
  BY <1>2 DEF TypeOK
<1>3. QED
  BY <1>1, <1>2 DEF Answers, Resolve

\* An answer leaves who asks at its gate.
LEMMA AnswersKeepAskFits ==
  ASSUME TypeOK, \A c \in Caller : AskFits(c),
         NEW v \in {"allow", "deny"}, Answers(v),
         \A c \in Caller : AtGate(c) => AtGate(c)'
  PROVE  \A c \in Caller : AskFits(c)'
<1>1. ASSUME NEW c \in Caller
      PROVE  AskFits(c)'
  <2>1. /\ ask'[c].at = ask[c].at /\ ask'[c].verdict = ask[c].verdict
        /\ ask[c].at # "open" => said'[c] = said[c]
        /\ \/ ask'[c].future = ask[c].future /\ said'[c] = said[c]
           \/ ask[c].at = "open" => said'[c] = ask'[c].future
    BY AnswersFit
  <2>2. AtGate(c) => AtGate(c)'
    OBVIOUS
  <2> HIDE DEF AtGate
  <2>3. QED
    BY <2>1, <2>2 DEF AskFits
<1>2. QED
  BY <1>1

-----------------------------------------------------------------------------
(* The reader thread                                                       *)

\* A step of the reader drives nothing: it moves the place for input, posts
\* lines, answers an approval, or changes the plan or what the flags read.
ReaderLeaves ==
  /\ PlainSlot
  /\ reading' \in [key : Keys \cup {"none"}, on : Comps \cup {NoComp}]
  /\ reading'.on \in {reading.on, focus, NoComp}
  /\ posted' \in 0 .. MaxPosted /\ UNCHANGED <<flags, indicator, others, life>>
  /\ \E e \in BOOLEAN : run' = [run EXCEPT !.escaped = e]
  /\ plan' \in Phases /\ mode' \in {"ask", "full_access"} /\ running' \in BOOLEAN
  /\ \E v \in {"allow", "deny"} : Answers(v)

\* A key other than one that answers leaves approvals as they are.
LEMMA NoAnswer ==
  ASSUME UNCHANGED approval
  PROVE  \E v \in {"allow", "deny"} : Answers(v)
<1>1. Resolve(NoComp, "deny")
  BY CallersAreNamed DEF Resolve, NoComp, Comp
<1>2. QED
  BY <1>1 DEF Answers

\* The keys that the listeners take before any component.
LEMMA ListenersLeave ==
  ASSUME TypeOK, KeyCtrlC \/ KeyCtrlD \/ KeyMode \/ KeyPermissions
  PROVE  ReaderLeaves
<1>1. /\ UNCHANGED <<reading, posted, flags, indicator, others, life, run>>
      /\ plan' \in Phases /\ mode' \in {"ask", "full_access"} /\ running' \in BOOLEAN
  BY DEF TypeOK, KeyCtrlC, KeyCtrlD, KeyMode, KeyPermissions, CtrlC, CtrlD,
         CycleMode, TogglePermissions, input, chat, process, approval, Phases
<1>2. run' = [run EXCEPT !.escaped = run.escaped] /\ run.escaped \in BOOLEAN
  BY <1>1 DEF TypeOK
<1>3. PlainSlot
  <2>1. CASE KeyMode
    BY <2>1, ControlsArePlain DEF KeyMode, CycleMode, PlainSlot
  <2>2. QED
    BY <2>1 DEF KeyCtrlC, KeyCtrlD, KeyPermissions, CtrlC, CtrlD,
                TogglePermissions, PlainSlot
<1>4. \E v \in {"allow", "deny"} : Answers(v)
  <2>1. CASE KeyCtrlC
    BY <2>1, NoAnswer DEF KeyCtrlC, CtrlC, Answers
  <2>2. QED
    BY <2>1, NoAnswer DEF KeyCtrlD, KeyMode, KeyPermissions, CtrlD, CycleMode,
                          TogglePermissions
<1>5. QED
  BY <1>1, <1>2, <1>3, <1>4 DEF ReaderLeaves, TypeOK

\* The keys that go to the component which had the focus.
LEMMA HandlersLeave ==
  ASSUME TypeOK,
         \/ Submit \/ SubmitLocked \/ EscapeEditor
         \/ AnswerPrompt("allow") \/ AnswerPrompt("deny")
         \/ AnswerQuestion \/ ChooseAction(Comp("menu"))
         \/ ChooseAction(Comp("ready")) \/ Pick
  PROVE  ReaderLeaves
<1> DEFINE HandledSomewhere == \E k, on : Handles(k, on)
<1>1. HandledSomewhere
  BY DEF Submit, SubmitLocked, EscapeEditor, AnswerPrompt, AnswerQuestion,
         ChooseAction, Pick
<1>2. /\ reading' = Idle
      /\ UNCHANGED <<flags, indicator, others, life, mode, running>>
  BY <1>1 DEF Handles, process
<1>3. posted' \in 0 .. MaxPosted
  BY InteractiveAssumption
     DEF TypeOK, Submit, SubmitLocked, EscapeEditor, AnswerPrompt, AnswerQuestion,
         ChooseAction, Pick
<1>4. \E e \in BOOLEAN : run' = [run EXCEPT !.escaped = e]
  <2>1. CASE EscapeEditor
    BY <2>1 DEF EscapeEditor, TypeOK
  <2>2. CASE UNCHANGED run
    BY <2>2 DEF TypeOK
  <2>3. QED
    BY <2>1, <2>2 DEF Submit, SubmitLocked, AnswerPrompt, AnswerQuestion,
                      ChooseAction, Pick
<1>5. plan' \in Phases
  BY DEF TypeOK, Submit, SubmitLocked, EscapeEditor, AnswerPrompt, AnswerQuestion,
         ChooseAction, Pick, SpawnFromReader, Phases
<1>6. PlainSlot
  <2>1. CASE AnswerQuestion
    BY <2>1 DEF AnswerQuestion, PlainSlot
  <2>2. ASSUME NEW on \in {Comp("menu"), Comp("ready")}, ChooseAction(on)
        PROVE  PlainSlot
    BY <2>2 DEF ChooseAction, PlainSlot, Controls
  <2>3. CASE Pick
    BY <2>3 DEF Pick, RenderPlanStateControls, ClosePlanControls, PlainSlot, Controls
  <2>4. QED
    BY <2>1, <2>2, <2>3
       DEF Submit, SubmitLocked, EscapeEditor, AnswerPrompt, PlainSlot
<1>7. \E v \in {"allow", "deny"} : Answers(v)
  <2>1. CASE AnswerPrompt("allow")
    BY <2>1 DEF AnswerPrompt, Answers
  <2>2. CASE AnswerPrompt("deny")
    BY <2>2 DEF AnswerPrompt, Answers
  <2>3. QED
    BY <2>1, <2>2, NoAnswer
       DEF Submit, SubmitLocked, EscapeEditor, AnswerQuestion, ChooseAction, Pick
<1>8. QED
  BY <1>2, <1>3, <1>4, <1>5, <1>6, <1>7 DEF ReaderLeaves, TypeOK, Idle

\* A key on the reader thread changes the slot, an answer and what is posted.
LEMMA ReaderSteps ==
  ASSUME TypeOK, OnePlaceForInput, Reader
  PROVE  ReaderLeaves
<1>1. ASSUME NEW k \in {"enter", "escape"}, KeyRead(k)
      PROVE  ReaderLeaves
  <2>1. /\ UNCHANGED <<slot, posted, flags, indicator, others, life, run, plan, mode,
                       running, approval>>
        /\ reading' = [key |-> k, on |-> focus]
    BY <1>1 DEF KeyRead, chat, process
  <2>2. run' = [run EXCEPT !.escaped = run.escaped] /\ run.escaped \in BOOLEAN
    BY <2>1 DEF TypeOK
  <2>3. QED
    BY <2>1, <2>2, NoAnswer DEF ReaderLeaves, PlainSlot, TypeOK, Keys
<1>2. QED
  BY <1>1, ListenersLeave, HandlersLeave DEF Reader

\* So it keeps the invariant.
LEMMA ReaderKeeps ==
  ASSUME IInv, ReaderLeaves
  PROVE  IInv'
<1>1. PICK e \in BOOLEAN : run' = [run EXCEPT !.escaped = e]
  BY DEF ReaderLeaves
<1>2. PICK v \in {"allow", "deny"} : Answers(v)
  BY DEF ReaderLeaves
<1>3. /\ run' \in [at : RunStages, card : Cards, tracked : BOOLEAN, escaped : BOOLEAN]
      /\ run'.at = run.at /\ run'.card = run.card /\ run'.tracked = run.tracked
  BY <1>1 DEF IInv, TypeOK
<1>4. /\ OnePlaceForInput'
      /\ tree' \subseteq Comps /\ {current', focus'} \subseteq Comps \cup {NoComp}
      /\ \A c : current' = Prompt(c) => current = Prompt(c)
  BY SlotMoves DEF IInv, ReaderLeaves
<1>5. /\ ask' \in [Caller -> [at : {"no", "waiting", "open", "closing"},
                              future : {"none", "pending", "allow", "deny"},
                              verdict : BOOLEAN]]
      /\ said' \in [Caller -> {"none", "allow", "deny"}]
      /\ \A c \in Caller : ask'[c].at = ask[c].at
  BY <1>2, AnswersFit DEF IInv
<1>6. TypeOK'
  BY <1>3, <1>4, <1>5 DEF IInv, TypeOK, ReaderLeaves, flags, others
<1>7. SectionFits' /\ RunFits'
  BY <1>3 DEF IInv, SectionFits, RunFits, ReaderLeaves, flags
<1>8. \A c \in Caller : AskFits(c)'
  <2>1. \A c \in Caller : AtGate(c) => AtGate(c)'
    BY <1>3 DEF AtGate, ReaderLeaves, others
  <2>2. QED
    BY <1>2, <2>1, AnswersKeepAskFits DEF IInv
<1>9. PromptsFit'
  <2>1. \A c \in Caller : Prompt(c) \in {current', reading'.on} =>
                          Prompt(c) \in {current, reading.on}
    <3>1. \A c : Prompt(c) # NoComp /\ (Prompt(c) = focus => Prompt(c) = current)
      BY DEF IInv, OnePlaceForInput, Prompt, NoComp, Editor, Comp
    <3>2. QED
      BY <1>4, <3>1 DEF ReaderLeaves
  <2>2. QED
    BY <1>5, <2>1 DEF PromptsFit, Asked, IInv
<1>10. QED
  BY <1>4, <1>6, <1>7, <1>8, <1>9 DEF IInv

-----------------------------------------------------------------------------
(* Submitted lines and the run                                             *)

\* Work on the loop answers no approval and lets nobody through a gate, and
\* the flags and the chat keep to the stage of the run.
WorkGoesOn ==
  /\ PlainSlot
  /\ UNCHANGED <<reading, approval, mode, running, sub>>
  /\ posted' \in 0 .. MaxPosted /\ life' \in {"initial", "looping", "ended"}
  /\ section' \subseteq {"reply", "execute", "compact"}
  /\ {responding', locked'} \subseteq BOOLEAN
  /\ run' \in [at : RunStages, card : Cards, tracked : BOOLEAN, escaped : BOOLEAN]
  /\ indicator' \in {"none", "working", "retry", "compaction"}
  /\ plan' \in Phases /\ stop' \in [Sub -> BOOLEAN]
  /\ run.at = "gate" => run'.at = "gate"
  /\ SectionFits' /\ RunFits'

\* A submitted line changes no approval.
LEMMA LinesGoOn ==
  ASSUME IInv, Submitted
  PROVE  WorkGoesOn
<1>1. /\ UNCHANGED <<reading, approval, mode, running, sub>>
      /\ posted' \in 0 .. MaxPosted /\ life' \in {"initial", "looping", "ended"}
  BY InteractiveAssumption
     DEF IInv, TypeOK, Submitted, LineDropped, CompactRuns, MessageRuns, ExecuteRuns,
         PlanRuns, PickRuns, StopsSubagents, NextLine, others, process
<1>2. PlainSlot
  <2>1. CASE ExecuteRuns
    BY <2>1, ControlsArePlain DEF ExecuteRuns, PlainSlot
  <2>2. CASE PlanRuns
    BY <2>2, ControlsArePlain DEF PlanRuns, PlainSlot, Controls
  <2>3. CASE PickRuns
    BY <2>3 DEF PickRuns, PlainSlot
  <2>4. QED
    BY <2>1, <2>2, <2>3
       DEF Submitted, LineDropped, CompactRuns, MessageRuns, StopsSubagents, PlainSlot
<1>3. plan' \in Phases /\ stop' \in [Sub -> BOOLEAN]
  <2>1. plan' \in {plan, "drafting", "executing"}
    BY DEF Submitted, LineDropped, CompactRuns, MessageRuns, ExecuteRuns, PlanRuns,
           PickRuns, StopsSubagents
  <2>2. stop' = stop \/ stop' = [c \in Sub |-> sub[c] # "off"]
    BY DEF Submitted, LineDropped, CompactRuns, MessageRuns, ExecuteRuns, PlanRuns,
           PickRuns, StopsSubagents, others
  <2>3. QED
    BY <2>1, <2>2, ZenonT(80) DEF IInv, TypeOK, Phases
<1> DEFINE Stays == UNCHANGED <<flags, chat>>
           Starts == /\ ~responding /\ UNCHANGED indicator
                     /\ run' = [NoRun EXCEPT !.at = "start", !.card = run.card]
                     /\ \E s \in {"reply", "execute"} : EntersSection(s)
           Compacts == /\ ~responding /\ EntersSection("compact")
                       /\ run' = [run EXCEPT !.at = "compacting"]
                       /\ indicator' = "compaction"
<1>4. Stays \/ Starts \/ Compacts
  <2>1. CASE CompactRuns
    BY <2>1 DEF CompactRuns
  <2>2. CASE MessageRuns
    BY <2>2 DEF MessageRuns
  <2>3. CASE ExecuteRuns
    BY <2>3 DEF ExecuteRuns, chat
  <2>4. QED
    BY <2>1, <2>2, <2>3 DEF Submitted, LineDropped, PlanRuns, PickRuns, StopsSubagents
<1>5. CASE Stays
  BY <1>1, <1>2, <1>3, <1>5
     DEF WorkGoesOn, IInv, TypeOK, SectionFits, RunFits, flags, chat
<1>6. CASE Starts \/ Compacts
  <2>1. /\ section = {} /\ run.at = "none" /\ indicator = "none"
        /\ run.card \in Cards \ Unsettled
    BY <1>6 DEF IInv, TypeOK, SectionFits, RunFits
  <2>2. /\ section' \subseteq {"reply", "execute", "compact"}
        /\ responding' = TRUE /\ locked' = TRUE
        /\ {responding', locked'} \subseteq BOOLEAN
        /\ \E s : section' = {s}
    BY <1>6, <2>1, ZenonT(80) DEF EntersSection
  <2>3. CASE Starts
    <3>1. run' = [at |-> "start", card |-> run.card, tracked |-> FALSE, escaped |-> FALSE]
      BY <2>3 DEF NoRun
    <3>2. indicator' = "none"
      BY <2>1, <2>3
    <3>3. SectionFits' /\ RunFits'
      BY <2>1, <2>2, <3>1, <3>2 DEF SectionFits, RunFits
    <3>4. run' \in [at : RunStages, card : Cards, tracked : BOOLEAN, escaped : BOOLEAN]
      BY <2>1, <3>1 DEF RunStages
    <3>5. QED
      BY <1>1, <1>2, <1>3, <2>1, <2>2, <3>1, <3>2, <3>3, <3>4 DEF WorkGoesOn
  <2>4. CASE Compacts
    <3>1. /\ run' \in [at : RunStages, card : Cards, tracked : BOOLEAN, escaped : BOOLEAN]
          /\ run'.at = "compacting" /\ run'.card = run.card
      BY <2>4 DEF IInv, TypeOK, RunStages
    <3>2. indicator' = "compaction"
      BY <2>4
    <3>3. SectionFits' /\ RunFits'
      BY <2>1, <2>2, <3>1, <3>2 DEF SectionFits, RunFits
    <3>4. QED
      BY <1>1, <1>2, <1>3, <2>1, <2>2, <3>1, <3>2, <3>3 DEF WorkGoesOn
  <2>5. QED
    BY <1>6, <2>3, <2>4
<1>7. QED
  BY <1>4, <1>5, <1>6

\* What the finally block of a coroutine leaves: none drives the session.
LEMMA SectionEnds ==
  ASSUME IInv, NEW s, s \in section, LeavesSection(s), run'.at = "none"
  PROVE  /\ SectionFits' /\ section' \subseteq {"reply", "execute", "compact"}
         /\ {responding', locked'} \subseteq BOOLEAN
<1>1. section' = {}
  BY DEF IInv, SectionFits, LeavesSection
<1>2. QED
  BY <1>1 DEF LeavesSection, SectionFits

\* What the rest of the run leaves: the coroutine that drives it.
LEMMA SectionStays ==
  ASSUME IInv, UNCHANGED flags, run.at # "none"
  PROVE  /\ SectionFits' /\ section' \subseteq {"reply", "execute", "compact"}
         /\ {responding', locked'} \subseteq BOOLEAN
BY DEF IInv, TypeOK, SectionFits, flags

\* A step of the run while its message streams, or at the call of a tool.
Streams ==
  \/ AgentStarts \/ PromptRaises \/ RetryShown \/ MessageStarts \/ CallStreams
  \/ \E reason \in {"stop", "toolUse", "error"} : MessageEnds(reason)
  \/ ToolStarts \/ ToolEnds
\* A step at the end of the run.
Ends == AgentEnds \/ CompactionStarts \/ CompactionEnds \/ Settles
Finally == ReplyEnds \/ ExecuteEnds \/ CompactEnds

\* What a step of the run does to the run and to the chat.
ChatGoesOn ==
  /\ run' \in [at : RunStages, card : Cards, tracked : BOOLEAN, escaped : BOOLEAN]
  /\ indicator' \in {"none", "working", "retry", "compaction"}
  /\ run.at # "gate"
  /\ RunFits'

\* What streams into the chat keeps cards and indicator to the stage of the run.
LEMMA StreamsGoOn ==
  ASSUME IInv, Streams
  PROVE  ChatGoesOn /\ run.at # "none"
<1> USE DEF IInv, TypeOK, RunFits, RunAt, Shows, ChatGoesOn, RunStages, Cards,
            Unsettled, Untracked
<1>1. CASE AgentStarts
  BY <1>1 DEF AgentStarts
<1>2. CASE PromptRaises
  BY <1>2 DEF PromptRaises
<1>3. CASE RetryShown
  BY <1>3 DEF RetryShown
<1>4. CASE MessageStarts
  BY <1>4 DEF MessageStarts
<1>5. CASE CallStreams
  BY <1>5 DEF CallStreams
<1>6. CASE ToolStarts
  BY <1>6 DEF ToolStarts
<1>7. ASSUME NEW reason \in {"stop", "toolUse", "error"}, MessageEnds(reason)
      PROVE  ChatGoesOn /\ run.at # "none"
  BY <1>7 DEF MessageEnds
<1>8. CASE ToolEnds
  BY <1>8 DEF ToolEnds, ToolEnded
<1>9. QED
  BY <1>1, <1>2, <1>3, <1>4, <1>5, <1>6, <1>7, <1>8 DEF Streams

\* So does what ends in the chat.
LEMMA EndsGoOn ==
  ASSUME IInv, Ends
  PROVE  ChatGoesOn /\ run.at # "none"
<1> USE DEF IInv, TypeOK, RunFits, RunAt, Shows, ChatGoesOn, RunStages, Cards,
            Unsettled, Untracked
<1>1. CASE AgentEnds
  BY <1>1 DEF AgentEnds
<1>2. CASE CompactionStarts
  BY <1>2 DEF CompactionStarts
<1>3. CASE Settles
  BY <1>3 DEF Settles
<1>4. CASE CompactionEnds
  <2>1. PICK r \in {run, Rebuilt(run)}, at \in {"over", "start"} : run' = [r EXCEPT !.at = at]
    BY <1>4 DEF CompactionEnds
  <2>2. /\ r \in [at : RunStages, card : Cards, tracked : BOOLEAN, escaped : BOOLEAN]
        /\ r.card \notin Unsettled
    BY <1>4, ZenonT(80) DEF CompactionEnds, Rebuilt
  <2>3. run.at = "compacting" /\ indicator' = "none"
    BY <1>4 DEF CompactionEnds
  <2>4. QED
    BY <2>1, <2>2, <2>3
<1>5. QED
  BY <1>1, <1>2, <1>3, <1>4 DEF Ends

\* So does the end of its coroutine, which leaves no run.
LEMMA FinallyGoOn ==
  ASSUME IInv, Finally
  PROVE  ChatGoesOn /\ run'.at = "none"
BY ZenonT(80) DEF Finally, IInv, TypeOK, RunFits, RunAt, Shows, ChatGoesOn, RunStages, Cards,
       Unsettled, ReplyEnds, ExecuteEnds, CompactEnds

\* A step of the run changes the chat and its own stage.
LEMMA RunGoesOn ==
  ASSUME IInv, Run
  PROVE  WorkGoesOn
<1>1. ChatGoesOn
  <2>1. CASE PlanSubmitted \/ QuestionAsked
    BY <2>1 DEF PlanSubmitted, QuestionAsked, chat, IInv, TypeOK, RunFits, RunAt, Shows,
                ChatGoesOn, RunStages, Unsettled
  <2>2. QED
    BY <2>1, StreamsGoOn, EndsGoOn, FinallyGoOn DEF Run, Streams, Ends, Finally
<1>2. /\ SectionFits' /\ section' \subseteq {"reply", "execute", "compact"}
      /\ {responding', locked'} \subseteq BOOLEAN
  <2>1. CASE Finally
    <3>1. \E s : s \in section /\ LeavesSection(s)
      BY <2>1 DEF Finally, ReplyEnds, ExecuteEnds, CompactEnds
    <3>2. QED
      BY <2>1, <3>1, FinallyGoOn, SectionEnds
  <2>2. CASE Streams \/ Ends
    <3>1. UNCHANGED flags
      BY <2>2 DEF Streams, Ends, AgentStarts, PromptRaises, RetryShown, MessageStarts,
                  CallStreams, MessageEnds, ToolStarts, ToolEnds, AgentEnds,
                  CompactionStarts, CompactionEnds, Settles
    <3>2. QED
      BY <2>2, <3>1, SectionStays, StreamsGoOn, EndsGoOn
  <2>3. CASE PlanSubmitted \/ QuestionAsked
    BY <2>3, SectionStays DEF PlanSubmitted, QuestionAsked, RunAt
  <2>4. QED
    BY <2>1, <2>2, <2>3 DEF Run, Streams, Ends, Finally
<1>3. /\ UNCHANGED <<reading, posted, approval, mode, running, sub, stop>>
      /\ life' \in {"initial", "looping", "ended"}
  BY DEF IInv, TypeOK, Run, AgentStarts, PromptRaises, RetryShown, MessageStarts,
         CallStreams, MessageEnds, ToolStarts, ToolEnds, AgentEnds, CompactionStarts,
         CompactionEnds, Settles, PlanSubmitted, QuestionAsked, ReplyEnds, ExecuteEnds,
         CompactEnds, RunAt, input, others
<1>4. PlainSlot
  <2>1. CASE PlanSubmitted \/ QuestionAsked \/ CompactEnds
    BY <2>1, ControlsArePlain DEF PlanSubmitted, QuestionAsked, CompactEnds
  <2>2. CASE ReplyEnds
    BY <2>2, ControlsArePlain DEF ReplyEnds, PlainSlot
  <2>3. CASE ExecuteEnds
    BY <2>3 DEF ExecuteEnds, RenderPlanStateControls, ClosePlanControls, PlainSlot, Controls
  <2>4. QED
    BY <2>1, <2>2, <2>3
       DEF Run, AgentStarts, PromptRaises, RetryShown, MessageStarts, CallStreams,
           MessageEnds, ToolStarts, ToolEnds, AgentEnds, CompactionStarts,
           CompactionEnds, Settles, PlainSlot
<1>5. plan' \in Phases
  BY DEF IInv, TypeOK, Phases, Run, AgentStarts, PromptRaises, RetryShown, MessageStarts,
         CallStreams, MessageEnds, ToolStarts, ToolEnds, AgentEnds, CompactionStarts,
         CompactionEnds, Settles, PlanSubmitted, QuestionAsked, ReplyEnds, ExecuteEnds,
         CompactEnds
<1>6. QED
  BY <1>1, <1>2, <1>3, <1>4, <1>5 DEF WorkGoesOn, ChatGoesOn, IInv, TypeOK

\* A step of the work keeps the invariant.
LEMMA WorkKeeps ==
  ASSUME IInv, WorkGoesOn
  PROVE  IInv'
<1>1. /\ OnePlaceForInput'
      /\ tree' \subseteq Comps /\ {current', focus'} \subseteq Comps \cup {NoComp}
      /\ \A c : current' = Prompt(c) => current = Prompt(c)
  BY SlotMoves DEF IInv, WorkGoesOn
<1>2. TypeOK'
  BY <1>1 DEF IInv, TypeOK, WorkGoesOn, approval
<1>3. \A c \in Caller : AskFits(c)'
  BY DEF IInv, AskFits, AtGate, WorkGoesOn, approval
<1>4. PromptsFit'
  BY <1>1 DEF IInv, PromptsFit, Asked, WorkGoesOn, approval
<1>5. QED
  BY <1>1, <1>2, <1>3, <1>4 DEF IInv, WorkGoesOn

\* The event loop ends.
LEMMA LoopEndKeeps ==
  ASSUME IInv, LoopEnds
  PROVE  IInv'
<1>1. /\ UNCHANGED <<tree, current, focus, reading, posted, section, responding, locked,
                     run, indicator, plan, sub, stop, ask, said, mode, running>>
      /\ life' = "ended"
  BY DEF LoopEnds, slot, input, flags, chat, others, approval
<1>2. QED
  BY <1>1 DEF IInv, TypeOK, OnePlaceForInput, SectionFits, RunFits, AskFits, AtGate,
              PromptsFit, Asked

-----------------------------------------------------------------------------
(* Approvals                                                               *)

Asks == [at : {"no", "waiting", "open", "closing"},
         future : {"none", "pending", "allow", "deny"}, verdict : BOOLEAN]

\* A prompt that opens has no answer yet.
LEMMA AskOpens ==
  ASSUME NEW a \in Asks, NEW x, x = [[a EXCEPT !.at = "open"] EXCEPT !.future = "pending"]
  PROVE  x \in Asks /\ x.at = "open" /\ x.future = "pending" /\ x.verdict = a.verdict
BY DEF Asks

\* A prompt that closes has its verdict.
LEMMA AskCloses ==
  ASSUME NEW a \in Asks, NEW v \in BOOLEAN,
         NEW x, x = [[a EXCEPT !.at = "closing"] EXCEPT !.verdict = v]
  PROVE  x \in Asks /\ x.at = "closing" /\ x.verdict = v
BY DEF Asks

\* A step of the approval of c leaves the others theirs, takes a prompt of c
\* that it leaves behind away, and opens one only if no other is open.
ApprovalOf(c) ==
  /\ \E x \in Asks : ask' = [ask EXCEPT ![c] = x]
  /\ \E w \in {"none", "allow", "deny"} : said' = [said EXCEPT ![c] = w]
  /\ AskFits(c)'
  /\ \A d \in Caller \ {c} : AtGate(d) => AtGate(d)'
  /\ \A d \in Caller : Prompt(d) \in {current', reading'.on} =>
       \/ d = c /\ Asked(c)'
       \/ d # c /\ Prompt(d) \in {current, reading.on}
  /\ Asked(c)' => Asked(c) \/ \A d \in Caller : ~Asked(d)

\* An approval changes only what its caller asks.
LEMMA ApprovalKeeps ==
  ASSUME IInv, NEW c \in Caller, ApprovalOf(c)
  PROVE  /\ ask' \in [Caller -> Asks]
         /\ said' \in [Caller -> {"none", "allow", "deny"}]
         /\ \A d \in Caller : AskFits(d)'
         /\ PromptsFit'
<1>1. \A d \in Caller \ {c} : ask'[d] = ask[d] /\ said'[d] = said[d]
  BY DEF IInv, TypeOK, ApprovalOf
<1>2. /\ ask' \in [Caller -> Asks]
      /\ said' \in [Caller -> {"none", "allow", "deny"}]
  BY DEF IInv, TypeOK, ApprovalOf, Asks
<1>3. ASSUME NEW d \in Caller \ {c}
      PROVE  AskFits(d)'
  <2>1. AskFits(d) /\ (AtGate(d) => AtGate(d)')
    BY <1>3 DEF IInv, ApprovalOf
  <2>2. QED
    BY <1>1, <1>3, <2>1 DEF AskFits
<1>4. AskFits(c)'
  BY DEF ApprovalOf
<1>5. PromptsFit'
  <2>1. \A d \in Caller \ {c} : Asked(d)' = Asked(d)
    BY <1>1 DEF Asked
  <2>2. ASSUME NEW d \in Caller, Prompt(d) \in {current', reading'.on}
        PROVE  Asked(d)'
    BY <2>1, <2>2 DEF IInv, PromptsFit, ApprovalOf
  <2>3. ASSUME NEW d \in Caller, NEW e \in Caller, Asked(d)', Asked(e)'
        PROVE  d = e
    BY <2>1, <2>3 DEF IInv, PromptsFit, ApprovalOf
  <2>4. QED
    BY <2>2, <2>3 DEF PromptsFit
<1>6. QED
  BY <1>2, <1>3, <1>4, <1>5

\* What a gate that opens, to the tool or back to the work, changes.
LEMMA GateOpens ==
  ASSUME IInv, NEW c \in Caller, NEW allowed \in BOOLEAN, Gating(c),
         LetsThrough(c, allowed)
  PROVE  /\ run' \in [at : RunStages, card : Cards, tracked : BOOLEAN, escaped : BOOLEAN]
         /\ sub' \in [Sub -> {"off", "works", "gate", "tool"}]
         /\ SectionFits' /\ RunFits'
         /\ \A d \in Caller \ {c} : AtGate(d) => AtGate(d)'
         /\ \A d \in Caller \ {c} :
              AtGate(d) => (IF d = Main THEN run'.at # "tool" ELSE sub'[d] # "tool")
         /\ ~allowed => IF c = Main THEN run'.at # "tool" ELSE sub'[c] # "tool"
<1>1. CASE c = Main
  <2>1. run.at = "gate" /\ sub' = sub /\ UNCHANGED <<flags, indicator>>
    BY <1>1 DEF Gating, AtGate, LetsThrough
  <2>2. run' = IF allowed THEN ToolRuns ELSE ToolEnded
    BY <1>1 DEF LetsThrough
  <2>3. /\ run' \in [at : RunStages, card : Cards, tracked : BOOLEAN, escaped : BOOLEAN]
        /\ run'.at = IF allowed THEN "tool" ELSE "turn"
        /\ RunFits'
    <3>1. CASE allowed
      BY <2>1, <2>2, <3>1
         DEF IInv, TypeOK, ToolRuns, RunStages, Cards, Unsettled, RunFits
    <3>2. CASE ~allowed
      BY <2>1, <2>2, <3>2
         DEF IInv, TypeOK, ToolEnded, Untracked, RunStages, Cards, Unsettled, RunFits
    <3>3. QED
      BY <3>1, <3>2
  <2>4. SectionFits'
    BY <2>1 DEF IInv, SectionFits, flags
  <2>5. QED
    BY <1>1, <2>1, <2>3, <2>4, CallersAreNamed DEF IInv, TypeOK, AtGate
<1>2. CASE c # Main
  <2>1. sub[c] = "gate" /\ run' = run /\ UNCHANGED <<flags, indicator>> /\ c \in Sub
    BY <1>2 DEF Gating, AtGate, LetsThrough, Caller
  <2>2. sub' = [sub EXCEPT ![c] = IF allowed /\ ~stop[c] THEN "tool" ELSE "works"]
    BY <1>2 DEF LetsThrough
  <2>3. SectionFits' /\ RunFits'
    BY <2>1 DEF IInv, SectionFits, RunFits, flags
  <2>4. QED
    BY <1>2, <2>1, <2>2, <2>3 DEF IInv, TypeOK, AtGate
<1>3. QED
  BY <1>1, <1>2

\* What an approval leaves as it is while its gate stays shut.
LEMMA GateStays ==
  ASSUME IInv, NEW c \in Caller, Gating(c), UNCHANGED <<run, sub>>
  PROVE  /\ run' \in [at : RunStages, card : Cards, tracked : BOOLEAN, escaped : BOOLEAN]
         /\ sub' \in [Sub -> {"off", "works", "gate", "tool"}]
         /\ SectionFits' /\ RunFits'
         /\ AtGate(c)'
         /\ \A d \in Caller : AtGate(d) => AtGate(d)'
BY DEF IInv, TypeOK, Gating, AtGate, SectionFits, RunFits, flags

\* A step of the approval of c, as Gating leaves the rest.
LEMMA AskingKeeps ==
  ASSUME IInv, NEW c \in Caller, ApprovalOf(c), Gating(c),
         OnePlaceForInput', SectionFits', RunFits',
         tree' \subseteq Comps, {current', focus'} \subseteq Comps \cup {NoComp},
         reading' \in [key : Keys \cup {"none"}, on : Comps \cup {NoComp}],
         run' \in [at : RunStages, card : Cards, tracked : BOOLEAN, escaped : BOOLEAN],
         sub' \in [Sub -> {"off", "works", "gate", "tool"}]
  PROVE  IInv'
<1>1. TypeOK'
  BY ApprovalKeeps DEF IInv, TypeOK, Gating, flags, process, Asks
<1>2. QED
  BY <1>1, ApprovalKeeps DEF IInv

\* Keys read for the prompt of c, and the prompt itself, are forgotten.
LEMMA ForgetMeansGone ==
  ASSUME TypeOK, NEW c \in Caller, ReadingForgets(c)
  PROVE  /\ reading' \in [key : Keys \cup {"none"}, on : Comps \cup {NoComp}]
         /\ \A d \in Caller : reading'.on = Prompt(d) =>
              d # c /\ reading.on = Prompt(d)
<1>1. reading' = [reading EXCEPT !.on = Forget(c, reading.on)]
  BY DEF ReadingForgets
<1>2. Forget(c, reading.on) \in Comps \cup {NoComp}
  BY DEF Forget, TypeOK, Comps
<1>3. \A d \in Caller : Forget(c, reading.on) = Prompt(d) =>
        d # c /\ reading.on = Prompt(d)
  BY CallersAreNamed DEF Forget, GonePrompt, Prompt
<1>4. reading'.on = Forget(c, reading.on)
  BY <1>1 DEF TypeOK
<1>5. QED
  BY <1>1, <1>2, <1>3, <1>4 DEF TypeOK

\* A permission prompt opens.
LEMMA PromptOpensKeeps ==
  ASSUME IInv, NEW c \in Caller, PromptOpens(c)
  PROVE  IInv'
<1>1. Gating(c) /\ reading' = reading /\ said' = said /\ ask[c].at = "waiting"
  BY DEF PromptOpens
<1>2. \A d \in Caller : ~Asked(d)
  BY DEF PromptOpens, Asked
<1>3. /\ said' = [said EXCEPT ![c] = said[c]] /\ said[c] \in {"none", "allow", "deny"}
      /\ reading' \in [key : Keys \cup {"none"}, on : Comps \cup {NoComp}]
  BY <1>1 DEF IInv, TypeOK
<1>4. CASE Stopped(c)
  <2>1. ask' = [ask EXCEPT ![c] = NoAsk] /\ LetsThrough(c, FALSE) /\ UNCHANGED slot
    BY <1>4 DEF PromptOpens
  <2>2. ask'[c] = NoAsk /\ NoAsk \in Asks
    BY <2>1 DEF IInv, TypeOK, NoAsk, Asks
  <2>3. AskFits(c)'
    BY <2>2 DEF AskFits, NoAsk
  <2>4. ApprovalOf(c)
    BY <1>1, <1>2, <1>3, <2>1, <2>2, <2>3, GateOpens
       DEF ApprovalOf, IInv, PromptsFit, slot, Asked, NoAsk
  <2>5. /\ OnePlaceForInput'
        /\ tree' \subseteq Comps /\ {current', focus'} \subseteq Comps \cup {NoComp}
    BY <2>1 DEF IInv, TypeOK, OnePlaceForInput, slot
  <2>6. QED
    BY <1>1, <1>3, <2>1, <2>4, <2>5, GateOpens, AskingKeeps
<1>5. CASE ~Stopped(c)
  <2>1. /\ ask' = [ask EXCEPT ![c].at = "open", ![c].future = "pending"]
        /\ SwapEditorFor(Prompt(c)) /\ UNCHANGED <<run, sub>>
    BY <1>5 DEF PromptOpens
  <2> DEFINE x == [[ask[c] EXCEPT !.at = "open"] EXCEPT !.future = "pending"]
  <2>2. ask' = [ask EXCEPT ![c] = x] /\ ask'[c] = x
    BY <2>1 DEF IInv, TypeOK
  <2>3. x \in Asks /\ x.at = "open" /\ x.future = "pending" /\ x.verdict = FALSE
    <3>1. ask[c] \in Asks /\ ask[c].verdict = FALSE
      BY <1>1 DEF IInv, TypeOK, Asks, AskFits
    <3>2. QED
      BY <3>1, AskOpens
  <2> HIDE DEF x
  <2>4. AskFits(c)'
    <3>1. AtGate(c)'
      BY <1>1, <2>1, GateStays
    <3> HIDE DEF AtGate
    <3>2. QED
      BY <2>2, <2>3, <3>1 DEF AskFits
  <2>5. current' = Prompt(c) /\ focus' = Prompt(c) /\ Prompt(c) # NoComp
    BY <2>1 DEF SwapEditorFor, Prompt, NoComp, Comp
  <2>6. /\ OnePlaceForInput'
        /\ tree' \subseteq Comps /\ {current', focus'} \subseteq Comps \cup {NoComp}
    <3>1. OnePlaceForInput'
      BY <2>1, <2>5, SwapKeepsOnePlace DEF IInv
    <3>2. QED
      BY <2>5, <3>1 DEF OnePlaceForInput, Comps
  <2>7. ApprovalOf(c)
    <3>1. \A d \in Caller : Prompt(d) \in {current', reading'.on} => d = c
      BY <1>1, <1>2, <2>5 DEF IInv, PromptsFit, Prompt
    <3>2. Asked(c)'
      BY <2>2, <2>3 DEF Asked
    <3>3. \A d \in Caller : AtGate(d) => AtGate(d)'
      BY <1>1, <2>1, GateStays
    <3>4. QED
      BY <1>2, <1>3, <2>2, <2>3, <2>4, <3>1, <3>2, <3>3 DEF ApprovalOf
  <2>8. QED
    BY <1>1, <1>3, <2>1, <2>6, <2>7, GateStays, AskingKeeps
<1>6. QED
  BY <1>4, <1>5

\* A permission prompt closes.
LEMMA PromptClosesKeeps ==
  ASSUME IInv, NEW c \in Caller, PromptCloses(c)
  PROVE  IInv'
<1>1. /\ Gating(c) /\ ask[c].at = "closing" /\ ask' = [ask EXCEPT ![c] = NoAsk]
      /\ Unsaid(c) /\ ReadingForgets(c) /\ LetsThrough(c, ask[c].verdict)
      /\ ask[c].verdict \in BOOLEAN
  BY DEF PromptCloses, IInv, TypeOK
<1>2. PlainSlot /\ current' # Prompt(c)
  BY DEF PromptCloses, PlainSlot, RestoreEditor, NoComp, Comp, Prompt, slot
<1>3. /\ OnePlaceForInput'
      /\ tree' \subseteq Comps /\ {current', focus'} \subseteq Comps \cup {NoComp}
      /\ \A d : current' = Prompt(d) => current = Prompt(d)
  BY <1>2, SlotMoves DEF IInv
<1>4. /\ reading' \in [key : Keys \cup {"none"}, on : Comps \cup {NoComp}]
      /\ \A d \in Caller : reading'.on = Prompt(d) => d # c /\ reading.on = Prompt(d)
  BY <1>1, ForgetMeansGone DEF IInv
<1>5. ask'[c] = NoAsk /\ NoAsk \in Asks
  BY <1>1 DEF IInv, TypeOK, NoAsk, Asks
<1>6. AskFits(c)'
  BY <1>5 DEF AskFits, NoAsk
<1>7. said' = [said EXCEPT ![c] = "none"]
  BY <1>1 DEF Unsaid
<1>8. \A d \in Caller : Prompt(d) \in {current', reading'.on} =>
        d # c /\ Prompt(d) \in {current, reading.on}
  BY <1>2, <1>3, <1>4
<1>9. ApprovalOf(c)
  BY <1>1, <1>5, <1>6, <1>7, <1>8, GateOpens DEF ApprovalOf, Asked, NoAsk
<1>10. QED
  BY <1>1, <1>3, <1>4, <1>9, GateOpens, AskingKeeps

\* An approval that goes on, with its prompt mounted as before.
LEMMA ApprovalGoesOn ==
  ASSUME IInv, NEW c \in Caller, NEW x \in Asks, ask' = [ask EXCEPT ![c] = x],
         UNCHANGED <<slot, reading, said>>, \A d \in Caller : AtGate(d) => AtGate(d)',
         AtGate(c),
         x.at # "open", x.verdict => x.at = "closing" /\ said[c] = "allow",
         x.at = "closing" <=> Asked(c)
  PROVE  ApprovalOf(c)
<1>1. /\ ask'[c] = x /\ said' = [said EXCEPT ![c] = said[c]]
      /\ said[c] \in {"none", "allow", "deny"}
  BY DEF IInv, TypeOK
<1>2. AskFits(c)'
  <2>1. AtGate(c)'
    OBVIOUS
  <2> HIDE DEF AtGate
  <2>2. QED
    BY <1>1, <2>1 DEF AskFits
<1>3. Asked(c)' <=> Asked(c)
  BY <1>1 DEF Asked
<1>4. \A d \in Caller : Prompt(d) \in {current', reading'.on} =>
        \/ d = c /\ Asked(c)'
        \/ d # c /\ Prompt(d) \in {current, reading.on}
  BY <1>3 DEF IInv, PromptsFit, slot
<1> HIDE DEF AtGate
<1>5. QED
  BY <1>1, <1>2, <1>3, <1>4 DEF ApprovalOf

\* Every step of asking keeps the invariant.
LEMMA AskingSteps ==
  ASSUME IInv, NEW c \in Caller, Asking(c)
  PROVE  IInv'
<1> DEFINE SlotFits == /\ OnePlaceForInput' /\ tree' \subseteq Comps
                       /\ {current', focus'} \subseteq Comps \cup {NoComp}
                       /\ reading' \in [key : Keys \cup {"none"}, on : Comps \cup {NoComp}]
<1>1. ASSUME UNCHANGED <<slot, reading>>
      PROVE  SlotFits
  BY <1>1 DEF IInv, TypeOK, OnePlaceForInput, slot
<1>2. CASE NotAsked(c)
  <2>1. Gating(c) /\ LetsThrough(c, TRUE) /\ UNCHANGED <<slot, reading, approval>>
        /\ ask[c].at = "no"
    BY <1>2 DEF NotAsked
  <2>2. /\ ask' = [ask EXCEPT ![c] = ask[c]] /\ said' = [said EXCEPT ![c] = said[c]]
        /\ ask[c] \in Asks /\ said[c] \in {"none", "allow", "deny"}
    BY <2>1 DEF IInv, TypeOK, approval, Asks
  <2>3. AskFits(c)'
    BY <2>1 DEF IInv, AskFits, approval
  <2>4. ApprovalOf(c)
    <3>1. ~Asked(c) /\ ~Asked(c)'
      BY <2>1 DEF Asked, approval
    <3>2. \A d \in Caller \ {c} : AtGate(d) => AtGate(d)'
      BY <2>1, GateOpens
    <3>3. QED
      BY <2>1, <2>2, <2>3, <3>1, <3>2 DEF ApprovalOf, IInv, PromptsFit, slot
  <2>5. QED
    BY <1>1, <2>1, <2>4, GateOpens, AskingKeeps
<1>3. CASE AsksPermission(c)
  <2>1. Gating(c) /\ UNCHANGED <<slot, reading, said, run, sub>> /\ ask[c].at = "no"
        /\ ask' = [ask EXCEPT ![c].at = "waiting"]
    BY <1>3 DEF AsksPermission
  <2> DEFINE x == [ask[c] EXCEPT !.at = "waiting"]
  <2>2. ask' = [ask EXCEPT ![c] = x] /\ x \in Asks
    BY <2>1 DEF IInv, TypeOK, Asks
  <2>3. x.at = "waiting" /\ ~x.verdict /\ ~Asked(c)
    BY <2>1 DEF IInv, TypeOK, AskFits, Asked
  <2> HIDE DEF x
  <2>4. ApprovalOf(c)
    BY <2>1, <2>2, <2>3, GateStays, ApprovalGoesOn DEF Gating
  <2>5. QED
    BY <1>1, <2>1, <2>4, GateStays, AskingKeeps
<1>4. CASE PromptSettles(c)
  <2>1. Gating(c) /\ UNCHANGED <<slot, reading, said, run, sub>> /\ ask[c].at = "open"
    BY <1>4 DEF PromptSettles
  <2> DEFINE v == ask[c].future = "allow" /\ ~Stopped(c)
             x == [[ask[c] EXCEPT !.at = "closing"] EXCEPT !.verdict = v]
  <2>2. ask' = [ask EXCEPT ![c] = x]
    BY <1>4 DEF PromptSettles, IInv, TypeOK
  <2>3. x \in Asks /\ x.at = "closing" /\ (x.verdict = v)
    <3>1. ask[c] \in Asks /\ v \in BOOLEAN
      BY DEF IInv, TypeOK, Asks
    <3> HIDE DEF v
    <3>2. QED
      BY <3>1, AskCloses, ZenonT(80)
  <2>6. (v => said[c] = "allow") /\ Asked(c)
    BY <2>1 DEF IInv, AskFits, Asked
  <2> HIDE DEF x
  <2> HIDE DEF v
  <2>4. ApprovalOf(c)
    BY <2>1, <2>2, <2>3, <2>6, GateStays, ApprovalGoesOn DEF Gating
  <2>5. QED
    BY <1>1, <2>1, <2>4, GateStays, AskingKeeps
<1>5. QED
  BY <1>2, <1>3, <1>4, PromptOpensKeeps, PromptClosesKeeps DEF Asking

-----------------------------------------------------------------------------
(* Subagents                                                               *)

\* Work of a subagent that is not at its gate concerns no approval.
LEMMA SubagentWorks ==
  ASSUME IInv, NEW c \in Sub,
         SubStarts(c) \/ SubCalls(c) \/ SubToolEnds(c) \/ SubEnds(c)
  PROVE  IInv'
<1>1. /\ UNCHANGED <<tree, current, focus, reading, posted, section, responding, locked,
                     run, indicator, plan, ask, said, mode, life, running>>
      /\ stop' \in [Sub -> BOOLEAN]
  BY DEF SubStarts, SubCalls, SubToolEnds, SubEnds, SubAt, slot, flags, chat, approval,
         process, IInv, TypeOK
<1>2. /\ sub' \in [Sub -> {"off", "works", "gate", "tool"}]
      /\ sub[c] # "gate" /\ \A d \in Sub \ {c} : sub'[d] = sub[d]
  BY DEF SubStarts, SubCalls, SubToolEnds, SubEnds, SubAt, SubGoes, IInv, TypeOK
<1>3. \A d \in Caller : AskFits(d)'
  BY <1>1, <1>2, CallersAreNamed DEF IInv, AskFits, AtGate, Caller, Main
<1>4. QED
  BY <1>1, <1>2, <1>3 DEF IInv, TypeOK, OnePlaceForInput, SectionFits, RunFits,
                          PromptsFit, Asked

\* A subagent that is cancelled while it asks keeps its prompt until the
\* finally block ran, and the prompt it leaves then is nobody's.
LEMMA CancelledKeeps ==
  ASSUME IInv, NEW c \in Sub, SubCancelled(c)
  PROVE  IInv'
<1>1. /\ UNCHANGED <<posted, section, responding, locked, run, indicator, plan, mode,
                     life, running>>
      /\ sub[c] = "gate" /\ stop' = [stop EXCEPT ![c] = ask[c].at = "open"]
  BY DEF SubCancelled, SubAt, flags, chat, process
<1>2. stop' \in [Sub -> BOOLEAN] /\ SectionFits' /\ RunFits'
  BY <1>1 DEF IInv, TypeOK, SectionFits, RunFits
<1>3. c \in Caller /\ c # Main /\ AtGate(c)
  BY <1>1, CallersAreNamed DEF AtGate
<1> DEFINE Typed == /\ OnePlaceForInput' /\ tree' \subseteq Comps
                    /\ {current', focus'} \subseteq Comps \cup {NoComp}
                    /\ reading' \in [key : Keys \cup {"none"}, on : Comps \cup {NoComp}]
                    /\ sub' \in [Sub -> {"off", "works", "gate", "tool"}]
<1>4. ASSUME Typed, ApprovalOf(c)
      PROVE  IInv'
  <2>1. TypeOK'
    BY <1>1, <1>2, <1>3, <1>4, ApprovalKeeps DEF IInv, TypeOK, Asks
  <2>2. QED
    BY <1>2, <1>3, <1>4, <2>1, ApprovalKeeps DEF IInv
<1>5. ASSUME ask' = [ask EXCEPT ![c] = NoAsk], SubGoes(c, "off")
      PROVE  /\ ask' = [ask EXCEPT ![c] = NoAsk] /\ NoAsk \in Asks
             /\ AskFits(c)' /\ ~Asked(c)'
             /\ \A d \in Caller \ {c} : AtGate(d) => AtGate(d)'
             /\ sub' \in [Sub -> {"off", "works", "gate", "tool"}]
  <2>1. ask'[c] = NoAsk
    BY <1>3, <1>5 DEF IInv, TypeOK
  <2>2. NoAsk \in Asks /\ AskFits(c)' /\ ~Asked(c)'
    BY <2>1 DEF NoAsk, Asks, AskFits, Asked
  <2>3. /\ \A d \in Caller \ {c} : AtGate(d) => AtGate(d)'
        /\ sub' \in [Sub -> {"off", "works", "gate", "tool"}]
    BY <1>1, <1>5 DEF SubGoes, AtGate, IInv, TypeOK, Caller
  <2>4. QED
    BY <1>5, <2>2, <2>3
<1>6. CASE /\ ask[c].at \in {"no", "waiting"} /\ ask' = [ask EXCEPT ![c] = NoAsk]
           /\ SubGoes(c, "off") /\ UNCHANGED <<slot, reading, said>>
  <2>1. said' = [said EXCEPT ![c] = said[c]] /\ said[c] \in {"none", "allow", "deny"}
    BY <1>3, <1>6 DEF IInv, TypeOK
  <2>2. ~Asked(c)
    BY <1>6 DEF Asked
  <2>3. ApprovalOf(c)
    BY <1>5, <1>6, <1>3, <2>1, <2>2 DEF ApprovalOf, IInv, PromptsFit, slot
  <2>4. Typed
    BY <1>5, <1>6 DEF IInv, TypeOK, OnePlaceForInput, slot
  <2>5. QED
    BY <1>4, <2>3, <2>4
<1>7. CASE /\ ask[c].at = "open" /\ ask' = [ask EXCEPT ![c].at = "closing"]
           /\ UNCHANGED <<slot, reading, said, sub>>
  <2> DEFINE x == [ask[c] EXCEPT !.at = "closing"]
  <2>1. ask' = [ask EXCEPT ![c] = x] /\ x \in Asks
    BY <1>3, <1>7 DEF IInv, TypeOK, Asks
  <2>2. x.at = "closing" /\ ~x.verdict /\ Asked(c)
    BY <1>3, <1>7 DEF IInv, TypeOK, AskFits, Asked
  <2> HIDE DEF x
  <2>3. \A d \in Caller : AtGate(d) => AtGate(d)'
    BY <1>1, <1>7 DEF AtGate
  <2>4. ApprovalOf(c)
    BY <1>3, <1>7, <2>1, <2>2, <2>3, ApprovalGoesOn
  <2>5. Typed
    BY <1>7 DEF IInv, TypeOK, OnePlaceForInput, slot
  <2>6. QED
    BY <1>4, <2>4, <2>5
<1>8. CASE /\ ask[c].at = "closing" /\ ask' = [ask EXCEPT ![c] = NoAsk]
           /\ SubGoes(c, "off")
           /\ tree' = {Forget(c, comp) : comp \in tree}
           /\ current' = Forget(c, current) /\ focus' = Forget(c, focus)
           /\ ReadingForgets(c) /\ Unsaid(c)
  <2>1. said' = [said EXCEPT ![c] = "none"]
    BY <1>8 DEF Unsaid
  <2>2. /\ reading' \in [key : Keys \cup {"none"}, on : Comps \cup {NoComp}]
        /\ \A d \in Caller : reading'.on = Prompt(d) => d # c /\ reading.on = Prompt(d)
    BY <1>3, <1>8, ForgetMeansGone DEF IInv
  <2>3. \A d \in Caller : current' = Prompt(d) => d # c /\ current = Prompt(d)
    BY <1>3, <1>8, CallersAreNamed DEF Forget, GonePrompt, Prompt
  <2>4. OnePlaceForInput'
    <3>1. tree' = {focus'}
      BY <1>8 DEF IInv, OnePlaceForInput
    <3>2. Forget(c, Editor) = Editor /\ (Forget(c, current) = NoComp <=> current = NoComp)
      BY DEF Forget, Editor, Comp, Prompt, GonePrompt, NoComp
    <3>3. QED
      BY <1>8, <3>1, <3>2 DEF IInv, OnePlaceForInput
  <2>5. /\ tree' \subseteq Comps /\ {current', focus'} \subseteq Comps \cup {NoComp}
    BY <1>8 DEF IInv, TypeOK, Forget, Comps
  <2>6. ApprovalOf(c)
    BY <1>3, <1>5, <1>8, <2>1, <2>2, <2>3 DEF ApprovalOf
  <2>7. QED
    BY <1>4, <1>5, <1>8, <2>2, <2>4, <2>5, <2>6
<1>9. QED
  BY <1>6, <1>7, <1>8 DEF SubCancelled

-----------------------------------------------------------------------------
\* The interface starts fit.
LEMMA InitFits == Init => IInv
<1> SUFFICES ASSUME Init
             PROVE  IInv
  OBVIOUS
<1>1. /\ tree = {Editor} /\ current = NoComp /\ focus = Editor /\ reading = Idle
      /\ posted = 0 /\ life \in {"initial", "looping"} /\ running = TRUE
      /\ indicator = "none" /\ plan = "idle" /\ mode \in {"ask", "full_access"}
      /\ sub = [c \in Sub |-> "off"] /\ stop = [c \in Sub |-> FALSE]
      /\ ask = [c \in Caller |-> NoAsk] /\ said = [c \in Caller |-> "none"]
  BY DEF Init
<1>2. \/ /\ section = {"reply"} /\ responding = TRUE /\ locked = TRUE
         /\ run = [NoRun EXCEPT !.at = "start"]
      \/ /\ section = {} /\ responding = FALSE /\ locked = FALSE
         /\ run = [NoRun EXCEPT !.at = "none"]
  BY DEF Init
<1>3. /\ run \in [at : RunStages, card : Cards, tracked : BOOLEAN, escaped : BOOLEAN]
      /\ run.at \in {"none", "start"} /\ run.card = "none"
      /\ section = {} => run.at = "none"
  BY <1>2 DEF NoRun, RunStages, Cards
<1>4. TypeOK
  <2>1. /\ tree \subseteq Comps /\ {current, focus} \subseteq Comps \cup {NoComp}
        /\ reading \in [key : Keys \cup {"none"}, on : Comps \cup {NoComp}]
    BY <1>1 DEF Comps, Idle
  <2>2. posted \in 0 .. MaxPosted
    BY <1>1, InteractiveAssumption
  <2>3. /\ section \subseteq {"reply", "execute", "compact"}
        /\ responding \in BOOLEAN /\ locked \in BOOLEAN /\ running \in BOOLEAN
    BY <1>1, <1>2
  <2>4. /\ ask \in [Caller -> Asks] /\ said \in [Caller -> {"none", "allow", "deny"}]
        /\ sub \in [Sub -> {"off", "works", "gate", "tool"}]
        /\ stop \in [Sub -> BOOLEAN]
    BY <1>1 DEF NoAsk, Asks
  <2>5. QED
    BY <1>1, <1>3, <2>1, <2>2, <2>3, <2>4 DEF TypeOK, Phases, Asks
<1>5. OnePlaceForInput
  BY <1>1 DEF OnePlaceForInput
<1>6. SectionFits /\ RunFits
  BY <1>1, <1>2, <1>3 DEF SectionFits, RunFits, Unsettled
<1>7. \A c \in Caller : AskFits(c)
  BY <1>1 DEF AskFits, NoAsk
<1>8. PromptsFit
  BY <1>1 DEF PromptsFit, Asked, NoAsk, Idle, NoComp, Comp, Prompt
<1>9. QED
  BY <1>4, <1>5, <1>6, <1>7, <1>8 DEF IInv

\* Every step of either thread keeps the invariant.
LEMMA NextKeeps == IInv /\ [Next]_vars => IInv'
<1> SUFFICES ASSUME IInv, [Next]_vars
             PROVE  IInv'
  OBVIOUS
<1>1. CASE Reader
  BY <1>1, ReaderSteps, ReaderKeeps DEF IInv
<1>2. CASE Submitted \/ Run
  BY <1>2, LinesGoOn, RunGoesOn, WorkKeeps
<1>3. CASE LoopEnds
  BY <1>3, LoopEndKeeps
<1>4. ASSUME NEW c \in Caller, Asking(c)
      PROVE  IInv'
  BY <1>4, AskingSteps
<1>5. ASSUME NEW c \in Sub, Subagent(c)
      PROVE  IInv'
  BY <1>5, SubagentWorks, CancelledKeeps DEF Subagent
<1>6. CASE UNCHANGED vars
  <2>1. UNCHANGED <<tree, current, focus, reading, posted, section, responding, locked,
                    run, indicator, plan, sub, stop, ask, said, mode, life, running>>
    BY <1>6 DEF vars, slot, input, flags, chat, others, approval, process
  <2>2. QED
    BY <2>1 DEF IInv, TypeOK, OnePlaceForInput, SectionFits, RunFits, AskFits, AtGate,
                PromptsFit, Asked
<1>7. QED
  BY <1>1, <1>2, <1>3, <1>4, <1>5, <1>6 DEF Next

\* The inductive invariant holds in every state of the interface.
THEOREM Invariance == Spec => []IInv
<1>1. QED
  BY InitFits, NextKeeps, PTL DEF Spec

\* The variables of the interface keep their types.
THEOREM TypeCorrect == Spec => []TypeOK
<1>1. IInv => TypeOK
  BY DEF IInv
<1>2. QED
  BY <1>1, Invariance, PTL

\* However prompts, selectors and controls open, close and are cancelled, one
\* component is mounted where input is taken, and it has the keys
\* (_swap_editor_for, _restore_editor).
THEOREM AlwaysOnePlaceForInput == Spec => []OnePlaceForInput
<1>1. IInv => OnePlaceForInput
  BY DEF IInv
<1>2. QED
  BY <1>1, Invariance, PTL

\* The editor is locked exactly while one coroutine drives the session, and a
\* run exists only then (_is_responding, disable_submit).
THEOREM RespondingAlwaysCoversTheRun == Spec => []RespondingCoversTheRun
<1>1. IInv => RespondingCoversTheRun
  <2> SUFFICES ASSUME IInv
               PROVE  RespondingCoversTheRun
    OBVIOUS
  <2>1. section = {} \/ \E s \in section : section = {s}
    BY DEF IInv, SectionFits
  <2>2. Cardinality(section) <= 1
    <3>1. ASSUME NEW s, section = {s}
          PROVE  Cardinality(section) = 1
      BY <3>1, FS_Singleton
    <3>2. QED
      BY <2>1, <3>1, FS_EmptySet
  <2>3. QED
    BY <2>2 DEF IInv, SectionFits, RespondingCoversTheRun
<1>2. QED
  BY <1>1, Invariance, PTL

\* Whatever a run comes to, no card of the chat waits for a result once it is
\* over, nor between its messages, and no spinner outlives the work
\* (_handle_message_end, _handle_tool_end, _handle_compaction_end).
THEOREM TheChatAlwaysSettles == Spec => []TheChatSettles
<1>1. IInv => TheChatSettles
  BY DEF IInv, SectionFits, RunFits, TheChatSettles
<1>2. QED
  BY <1>1, Invariance, PTL

\* No prompt of an approval that is over takes keys, and two approvals are
\* never open at once (_permission_lock, the finally block of _ask_permission).
THEOREM PromptsAlwaysFit == Spec => []PromptsFit
<1>1. IInv => PromptsFit
  BY DEF IInv
<1>2. QED
  BY <1>1, Invariance, PTL

\* Who asks is at its gate, and what it asks for runs in a step only if it
\* was allowed by a key.
LEMMA NothingRuns ==
  ASSUME IInv, [Next]_vars, NEW c \in Caller, ask[c].at # "no",
         IF c = Main THEN run'.at = "tool" ELSE sub'[c] = "tool"
  PROVE  said[c] = "allow"
<1>1. AtGate(c) /\ (c = Main => run.at = "gate") /\ (c # Main => sub[c] = "gate" /\ c \in Sub)
  BY DEF IInv, AskFits, AtGate, Caller
<1>2. CASE Reader
  <2>1. ReaderLeaves
    BY <1>2, ReaderSteps DEF IInv
  <2>2. run'.at = run.at /\ sub' = sub
    BY <2>1 DEF ReaderLeaves, others, IInv, TypeOK
  <2>3. QED
    BY <1>1, <2>2
<1>3. CASE Submitted \/ Run
  <2>1. WorkGoesOn
    BY <1>3, LinesGoOn, RunGoesOn
  <2>2. QED
    BY <1>1, <2>1 DEF WorkGoesOn
<1>4. CASE LoopEnds \/ UNCHANGED vars
  BY <1>1, <1>4 DEF LoopEnds, chat, others, vars
<1>5. ASSUME NEW d \in Sub, Subagent(d)
      PROVE  FALSE
  <2>1. run' = run /\ (sub'[c] = "tool" => sub[c] = "tool" \/ c \notin Sub)
    BY <1>5 DEF Subagent, SubStarts, SubCalls, SubToolEnds, SubEnds, SubCancelled, SubAt,
                SubGoes, chat, IInv, TypeOK
  <2>2. QED
    BY <1>1, <2>1
<1>6. ASSUME NEW d \in Caller, Asking(d)
      PROVE  said[c] = "allow"
  <2>1. CASE NotAsked(d) \/ (PromptOpens(d) /\ Stopped(d))
    <3>1. PICK allowed \in BOOLEAN :
            /\ Gating(d) /\ LetsThrough(d, allowed)
            /\ allowed => ask[d].at = "no"
      BY <2>1 DEF NotAsked, PromptOpens
    <3>2. QED
      BY <1>1, <3>1, GateOpens
  <2>2. CASE AsksPermission(d) \/ PromptSettles(d) \/ (PromptOpens(d) /\ ~Stopped(d))
    BY <1>1, <2>2 DEF AsksPermission, PromptSettles, PromptOpens
  <2>3. CASE PromptCloses(d)
    <3>1. /\ Gating(d) /\ LetsThrough(d, ask[d].verdict)
          /\ ask[d].verdict \in BOOLEAN
      BY <2>3 DEF PromptCloses, IInv, TypeOK
    <3>2. d = c /\ ask[d].verdict
      BY <1>1, <3>1, GateOpens
    <3>3. QED
      BY <3>2 DEF IInv, AskFits
  <2>4. QED
    BY <1>6, <2>1, <2>2, <2>3 DEF Asking
<1>7. QED
  BY <1>2, <1>3, <1>4, <1>5, <1>6 DEF Next

\* A call that asked runs only if a key said so while its own prompt was open,
\* whatever comes late, is meant for another or is cut off (_ask_permission).
THEOREM NothingEverRunsUnallowed == Spec => NothingRunsUnallowed
<1> DEFINE Allowed ==
             \A c \in Caller :
               /\ ask[c].at \in {"waiting", "open", "closing"}
               /\ IF c = Main THEN run'.at = "tool" ELSE sub'[c] = "tool"
               => said[c] = "allow"
<1>1. IInv /\ [Next]_vars => Allowed
  BY NothingRuns
<1>2. IInv /\ [Next]_vars => [Allowed]_vars
  BY <1>1
<1> HIDE DEF Allowed
<1>3. []IInv /\ [][Next]_vars => [][Allowed]_vars
  BY <1>2, PTL
<1>4. QED
  BY <1>3, Invariance, PTL DEF Spec, NothingRunsUnallowed, Allowed

=============================================================================
