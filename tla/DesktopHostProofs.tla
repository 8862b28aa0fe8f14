-------------------------- MODULE DesktopHostProofs --------------------------
(***************************************************************************)
(* Proofs about the desktop host, for any sessions, any conversations, any *)
(* capacity and any number of requests and faults.                         *)
(* A reader should start from IInv.  What the host promises of archived    *)
(* sessions and of unfinished conversations is inductive only together     *)
(* with what the file of a conversation says while it works (ChatFits),    *)
(* with the stages of a switch during which no run exists (StagesFit) and  *)
(* with what the user answered to whom (GrantsFit).                        *)
(***************************************************************************)
EXTENDS DesktopHost, TLAPS

\* A conversation, its task and its file
ChatFits(x) ==
  /\ x \in Chats
  /\ x.truth = "unknown" <=> x.disk = "running"
  /\ x.disk # "running" => x.disk = x.truth
  /\ ~x.open => x.task = "none" /\ x.status = "idle"
  /\ x.task # "none" => x.status = "running"
  /\ x.status = "running" => x.open /\ x.disk = "running"
  /\ x.open /\ x.status # "running" =>
       x.status = IF x.truth = "unknown" THEN "uncertain" ELSE x.truth

\* Conversations are open in the open session only
Belongs(x) == ChatFits(x) /\ (x.open => session # None /\ x.owner = session)
ChatsFit == \A c \in Chat : Belongs(chat[c])

\* Without a session nothing works and nobody holds the lock, and while
\* conversations are being closed there is no run
StagesFit ==
  /\ run.n <= moves /\ moves \in 0 .. MaxMoves
  /\ session = None => serial = Free /\ ~Active /\ ~sub
  /\ serial.at \in {"close", "handoff"} => ~Active

\* An approval that counts was asked for and given, in the run it counts for
GrantsFit ==
  /\ \A x \in Askers : ask[x].answer # None => ask[x].kind # None
  /\ run.at # "asking" => ask[Main] = NoAsk
  /\ ask[Main].kind = "search" /\ ask[Main].answer = "yes" => run.granted
  /\ search.run <= run.n
  /\ Active /\ search.run = run.n /\ search.allowed => run.granted
  /\ SearchesAreGranted

IInv == TypeOK /\ ChatsFit /\ StagesFit /\ GrantsFit /\ ArchivedIsQuiet

-----------------------------------------------------------------------------
(* Steps of the run                                                        *)

RunStep ==
  \/ RunBegins \/ Captured \/ CallsTool \/ Searches \/ AskEnds \/ ToolEnds
  \/ Submits \/ PromptEnds \/ CompactionEnds \/ Cancelled

\* A run that takes a step goes on as the same run, with approvals that fit it,
\* and leaves to the rest of the host everything but the plan.
RunGoesOn ==
  /\ Active /\ run' \in Runs /\ run'.n = run.n /\ run'.at # "none"
  /\ UNCHANGED <<session, settings, chats, requests, sub, bounds>>
  /\ plan' \in Plans /\ ask' \in [Askers -> Asked]
  /\ search' \in [run : 0 .. MaxMoves, allowed : BOOLEAN]
  /\ GrantsFit'

\* A step of the run leaves conversations and requests alone.
LEMMA RunStepsGoOn ==
  ASSUME TypeOK, StagesFit, GrantsFit, RunStep
  PROVE  RunGoesOn
<1> USE HostAssumption
    DEF TypeOK, RunGoesOn, Active, Runs, Stages, InAgent, Plans, settings, chats,
        requests, bounds, scope, At, RunBecomes, GrantsFit, SearchesAreGranted,
        Askers, Asked, Main
<1>1. CASE RunBegins
  BY <1>1 DEF RunBegins
<1>2. CASE Captured
  <2>1. /\ run.at = "capture" /\ plan' \in Plans
        /\ UNCHANGED <<session, settings, chats, requests, sub, bounds, ask, search>>
    BY <1>2 DEF Captured
  <2>2. \E at \in {"prompt", "final"} : run' = [run EXCEPT !.at = at, !.kind = None]
    BY <1>2 DEF Captured
  <2>3. QED
    BY <2>1, <2>2, ZenonT(80)
<1>3. CASE CallsTool
  BY <1>3 DEF CallsTool, Asks, NoAsk
<1>4. CASE Searches
  <2>1. /\ run.at = "prompt" /\ session # None /\ ask[Main] = NoAsk
        /\ UNCHANGED <<session, settings, chats, requests, sub, bounds, plan, search>>
    BY <1>4 DEF Searches, SearchGoesOn, SearchIsAvailable, Asks
  <2>2. CASE run' = [run EXCEPT !.at = "asking"]
    BY <1>4, <2>1, <2>2 DEF Searches, SearchGoesOn, Asks, NoAsk
  <2>3. CASE /\ run' = [run EXCEPT !.at = "search"] /\ ask' = ask
             /\ mode = "ask" => search.run = run.n /\ search.allowed
    BY <2>1, <2>3
  <2>4. QED
    BY <1>4, <2>2, <2>3 DEF Searches, SearchGoesOn, Asks
<1>5. CASE AskEnds
  <2> DEFINE allowed == ask[Main].answer = "yes" /\ ~run.signal
             kind == ask[Main].kind
  <2>1. run.at = "asking" /\ session # None
    BY <1>5 DEF AskEnds, StagesFit
  <2>2. allowed => kind \in {"tool", "search"}
    OBVIOUS
  <2>3. run' = [run EXCEPT !.at = IF allowed THEN kind ELSE "prompt"]
    BY <1>5 DEF AskEnds
  <2>4. /\ run' \in Runs /\ run'.n = run.n /\ run'.at # "none"
        /\ run'.granted = run.granted
        /\ run'.at = "search" => run.granted
        /\ run'.at # "asking"
    BY <2>1, <2>2, <2>3
  <2>5. ask' = [ask EXCEPT ![Main] = NoAsk] /\ ask' \in [Askers -> Asked]
    BY <1>5 DEF AskEnds, NoAsk
  <2>6. \A x \in Askers : ask'[x].answer # None => ask'[x].kind # None
    BY <2>5 DEF NoAsk
  <2>7. search' = IF kind = "search" /\ ~run.signal
                  THEN [run |-> run.n, allowed |-> allowed] ELSE search
    BY <1>5 DEF AskEnds
  <2>8. /\ search' \in [run : 0 .. MaxMoves, allowed : BOOLEAN]
        /\ search'.run <= run.n
        /\ search'.run = run.n /\ search'.allowed => run.granted
    BY <2>1, <2>7
  <2>9. ask'[Main] = NoAsk
    BY <2>5
  <2>10. /\ UNCHANGED <<session, settings, chats, requests, sub, bounds>>
         /\ plan' = plan
    BY <1>5 DEF AskEnds
  <2>11. GrantsFit'
    BY <2>1, <2>4, <2>6, <2>8, <2>9, <2>10 DEF NoAsk
  <2>12. QED
    BY <2>1, <2>4, <2>5, <2>8, <2>10, <2>11
<1>6. CASE ToolEnds
  BY <1>6 DEF ToolEnds
<1>7. CASE Submits
  BY <1>7 DEF Submits
<1>8. CASE PromptEnds
  BY <1>8 DEF PromptEnds
<1>9. CASE CompactionEnds
  BY <1>9 DEF CompactionEnds
<1>10. CASE Cancelled
  <2>1. /\ run.at # "none"
        /\ UNCHANGED <<session, settings, chats, requests, sub, bounds, plan, search>>
    BY <1>10 DEF Cancelled
  <2>2. \/ /\ run' = [run EXCEPT !.at = "prompt", !.signal = TRUE, !.cancelled = FALSE]
           /\ ask' = ask /\ run.at = "tool"
        \/ /\ run' = [run EXCEPT !.at = "final", !.kind = None, !.cancelled = FALSE]
           /\ ask' = [ask EXCEPT ![Main] = NoAsk]
        \/ /\ run' = [run EXCEPT !.cancelled = FALSE] /\ ask' = ask /\ run.at = "final"
    BY <1>10 DEF Cancelled
  <2>3. /\ run' \in Runs /\ run'.n = run.n /\ run'.granted = run.granted
        /\ run'.at \in {"prompt", "final"}
    <3>1. ASSUME NEW r, r = [run EXCEPT !.at = "prompt", !.signal = TRUE, !.cancelled = FALSE]
          PROVE  r \in Runs /\ r.n = run.n /\ r.granted = run.granted /\ r.at = "prompt"
      BY <3>1
    <3>2. ASSUME NEW r, r = [run EXCEPT !.at = "final", !.kind = None, !.cancelled = FALSE]
          PROVE  r \in Runs /\ r.n = run.n /\ r.granted = run.granted /\ r.at = "final"
      BY <3>2
    <3>3. ASSUME NEW r, r = [run EXCEPT !.cancelled = FALSE], run.at = "final"
          PROVE  r \in Runs /\ r.n = run.n /\ r.granted = run.granted /\ r.at = "final"
      BY <3>3
    <3>4. QED
      BY <2>2, <3>1, <3>2, <3>3
  <2>4. ask' \in [Askers -> Asked]
    BY <2>2 DEF NoAsk
  <2>5. ask'[Main] = NoAsk
    BY <2>2
  <2>6. \A x \in Askers : ask'[x].answer # None => ask'[x].kind # None
    <3>1. \A x \in Askers : ask'[x] \in {ask[x], NoAsk}
      BY <2>2
    <3>2. QED
      BY <3>1 DEF NoAsk
  <2>7. GrantsFit'
    BY <2>1, <2>3, <2>5, <2>6 DEF NoAsk
  <2>8. QED
    BY <2>1, <2>3, <2>4, <2>7
<1>11. QED
  BY <1>1, <1>2, <1>3, <1>4, <1>5, <1>6, <1>7, <1>8, <1>9, <1>10 DEF RunStep

\* So it keeps the invariant.
LEMMA RunKeeps ==
  ASSUME IInv, RunStep
  PROVE  IInv'
<1>1. RunGoesOn
  BY RunStepsGoOn DEF IInv
<1>2. TypeOK'
  BY <1>1 DEF IInv, TypeOK, RunGoesOn, settings, chats, requests
<1>3. ChatsFit'
  BY <1>1 DEF IInv, ChatsFit, Belongs, ChatFits, RunGoesOn, chats
<1>4. StagesFit'
  BY <1>1 DEF IInv, StagesFit, RunGoesOn, Active, requests, bounds
<1>5. ArchivedIsQuiet'
  BY <1>1 DEF IInv, ArchivedIsQuiet, Archived, RunGoesOn, settings
<1>6. QED
  BY <1>1, <1>2, <1>3, <1>4, <1>5 DEF IInv, RunGoesOn

-----------------------------------------------------------------------------
(* Steps of a side conversation                                            *)

ChatStep(c) ==
  \/ ChatOpen(c) \/ ChatSend(c) \/ ChatBegins(c) \/ ChatAskEnds(c)
  \/ ChatCallEnds(c) \/ ChatEnds(c) \/ ChatStop(c) \/ ChatStopped(c)
  \/ \E kind \in {"tool", "search"} : ChatCalls(c, kind)

\* A step of a conversation leaves a conversation that fits, starts no work in
\* an archived session and no tool against the main session, and changes
\* nothing else but its own approval and the bounds.
Obeys(c, x) ==
  (x.task = "tool" /\ chat[c].task # "tool") =>
    plan = "default" /\ ~closed /\ session = chat[c].owner
ChatMoves(c) ==
  /\ \E x : /\ chat' = [chat EXCEPT ![c] = x] /\ Belongs(x) /\ Obeys(c, x)
            /\ x.task # "none" => Working(c) \/ ~Archived
  /\ UNCHANGED <<run, search, scope, settings, closed, requests, sub, told>>
ApprovalMoves(c) == \E q \in Asked : /\ ask' \in {ask, [ask EXCEPT ![c] = q]}
                                     /\ q.answer # None => q.kind # None
BoundsMove == moves' \in {moves, moves + 1} /\ moves' \in 0 .. MaxMoves

\* Where a conversation goes from here.
LEMMA ChatRecords ==
  ASSUME TypeOK, ChatsFit, NEW c \in Chat, NEW x,
         ChatFits(x), x.open => chat[c].open, x.owner = chat[c].owner
  PROVE  Belongs(x)
BY DEF ChatsFit, Belongs

\* A step of a conversation moves that conversation only.
LEMMA ChatStepsMove ==
  ASSUME TypeOK, ChatsFit, StagesFit, GrantsFit, NEW c \in Chat, ChatStep(c)
  PROVE  ChatMoves(c)
<1> DEFINE x0 == chat[c]
<1>0. /\ ChatFits(x0) /\ x0 \in Chats
      /\ x0.open => session # None /\ x0.owner = session
  BY DEF ChatsFit, Belongs, ChatFits
<1>a. ASSUME NEW x, ChatBecomes(c, x), Belongs(x), Obeys(c, x),
             x.task # "none" => Working(c) \/ ~Archived
      PROVE  ChatMoves(c)
  BY <1>a DEF ChatBecomes, ChatMoves
<1> USE DEF Chats, Settled, Working
<1>1. CASE ChatOpen(c)
  <2> DEFINE x == [x0 EXCEPT !.owner = session, !.open = TRUE,
                     !.status = IF x0.disk = "running" THEN "uncertain" ELSE x0.disk]
  <2>1. ChatBecomes(c, x) /\ session # None /\ ~x0.open
    BY <1>1 DEF ChatOpen
  <2>2. Belongs(x) /\ x.task = "none"
    BY <1>0, <2>1 DEF TypeOK, Belongs, ChatFits
  <2>3. Obeys(c, x)
    BY <2>2 DEF Obeys
  <2> HIDE DEF x
  <2>4. QED
    BY <1>a, <2>1, <2>2, <2>3
<1>2. CASE ChatSend(c)
  <2> DEFINE x == [x0 EXCEPT !.status = "running", !.task = "new",
             !.disk = "running", !.truth = "unknown", !.decision = None]
  <2>1. x0.open /\ ~Archived /\ (ChatBecomes(c, x) \/ ChatBecomes(c, x0))
    BY <1>2 DEF ChatSend
  <2>2. Belongs(x) /\ x.task = "new"
    BY <1>0, <2>1, ZenonT(80) DEF Belongs, ChatFits
  <2>3. Belongs(x0)
    BY <1>0 DEF Belongs
  <2>4. QED
    BY <1>a, <2>1, <2>2, <2>3 DEF Obeys
<1>3. CASE ChatBegins(c) \/ ChatCallEnds(c)
  <2> DEFINE x == [x0 EXCEPT !.task = "busy"]
  <2>1. ChatBecomes(c, x) /\ Working(c)
    BY <1>3 DEF ChatBegins, ChatCallEnds, InTask
  <2>2. Belongs(x) /\ x.task = "busy"
    BY <1>0, <2>1 DEF Belongs, ChatFits
  <2>3. Obeys(c, x)
    BY <2>2 DEF Obeys
  <2>4. QED
    BY <1>a, <2>1, <2>2, <2>3
<1>4. CASE ChatAskEnds(c)
  <2> DEFINE yes == ask[c].answer = "yes"
             goes == yes /\ ParentAllows(ask[c].kind)
             x == [x0 EXCEPT !.task = IF goes THEN ask[c].kind ELSE "busy",
                     !.decision = IF ask[c].kind # "search" THEN @
                                  ELSE IF yes THEN "yes" ELSE "no"]
  <2>1. ChatBecomes(c, x) /\ Working(c)
    BY <1>4 DEF ChatAskEnds, InTask
  <2>2. ask[c] \in Asked /\ (ask[c].answer # None => ask[c].kind # None)
    BY DEF TypeOK, Askers, GrantsFit
  <2>3. goes => ask[c].kind \in {"tool", "search"}
    BY <2>2, HostAssumption DEF Asked
  <2>4. x \in Chats /\ x.task \in {"busy", "tool", "search"}
    BY <1>0, <2>3, ZenonT(80)
  <2>5. Belongs(x)
    BY <1>0, <2>1, <2>4 DEF Belongs, ChatFits
  <2>6. x.task = "tool" => goes /\ ask[c].kind = "tool"
    BY <1>0, <2>3
  <2>7. Obeys(c, x)
    BY <1>0, <2>1, <2>6 DEF Obeys, ParentAllows, ChatFits
  <2>8. QED
    BY <1>a, <2>1, <2>5, <2>7
<1>5. CASE ChatEnds(c)
  <2> DEFINE over == [x0 EXCEPT !.task = "none", !.cancelled = FALSE]
             ended(r) == [over EXCEPT !.status = r, !.disk = r, !.truth = r]
             lost == [over EXCEPT !.status = "uncertain"]
  <2>1. x0.status = "running" /\ x0.open /\ x0.disk = "running"
    BY <1>0, <1>5 DEF ChatEnds, ChatFits
  <2>2. \/ ChatBecomes(c, over) \/ ChatBecomes(c, lost)
        \/ \E r \in Settled : ChatBecomes(c, ended(r))
    BY <1>5 DEF ChatEnds
  <2>3. Belongs(over) /\ Belongs(lost) /\ over.task = "none" /\ lost.task = "none"
    BY <1>0, <2>1 DEF Belongs, ChatFits
  <2>4. ASSUME NEW r \in Settled
        PROVE  Belongs(ended(r)) /\ ended(r).task = "none"
    BY <1>0, <2>1 DEF Belongs, ChatFits
  <2>5. QED
    BY <1>a, <2>2, <2>3, <2>4 DEF Obeys
<1>6. CASE ChatStop(c)
  <2> DEFINE x == [x0 EXCEPT !.cancelled = TRUE, !.stopping = TRUE]
  <2>1. ChatBecomes(c, x) /\ Working(c)
    BY <1>6 DEF ChatStop
  <2>2. Belongs(x) /\ x.task = x0.task
    BY <1>0, <2>1 DEF Belongs, ChatFits
  <2>3. QED
    BY <1>a, <2>1, <2>2 DEF Obeys
<1>7. CASE ChatStopped(c)
  <2> DEFINE live == [x0 EXCEPT !.stopping = FALSE]
             saved == [live EXCEPT !.status = "cancelled", !.disk = "cancelled",
                                   !.truth = "cancelled"]
             lost == [live EXCEPT !.status = "uncertain"]
  <2>1. ~Working(c)
    BY <1>7 DEF ChatStopped
  <2>2. \/ ChatBecomes(c, live) /\ live.status # "running"
        \/ ChatBecomes(c, saved) /\ live.status = "running"
        \/ ChatBecomes(c, lost) /\ live.status = "running"
    BY <1>7 DEF ChatStopped, CancelledBeforeStart
  <2>3. live.status = x0.status
    BY <1>0
  <2>4. live.status # "running" => Belongs(live)
    BY <1>0, <2>1 DEF Belongs, ChatFits
  <2>5. live.status = "running" => Belongs(saved) /\ Belongs(lost)
    BY <1>0, <2>1 DEF Belongs, ChatFits
  <2>6. live.task = "none" /\ saved.task = "none" /\ lost.task = "none"
    BY <1>0, <2>1
  <2>7. QED
    BY <1>a, <2>2, <2>4, <2>5, <2>6 DEF Obeys
<1>8. CASE \E kind \in {"tool", "search"} : ChatCalls(c, kind)
  <2>1. PICK kind \in {"tool", "search"} : ChatCalls(c, kind)
    BY <1>8
  <2> DEFINE x(stage) == [x0 EXCEPT !.task = stage]
  <2>2. Working(c) /\ ParentAllows(kind) /\ (ChatBecomes(c, x(kind)) \/ ChatBecomes(c, x("asking")))
    BY <2>1 DEF ChatCalls, ChatGoesOn, ChatAsks, InTask
  <2>3. x0.open /\ x0.owner = session
    BY <1>0, <2>2 DEF ChatFits
  <2>4. /\ Belongs(x(kind)) /\ Belongs(x("asking"))
        /\ x(kind).task = kind /\ x("asking").task = "asking"
    BY <1>0, <2>2 DEF Belongs, ChatFits
  <2>5. Obeys(c, x(kind)) /\ Obeys(c, x("asking"))
    BY <2>2, <2>3, <2>4 DEF Obeys, ParentAllows
  <2>6. QED
    BY <1>a, <2>2, <2>4, <2>5
<1>9. QED
  BY <1>1, <1>2, <1>3, <1>4, <1>5, <1>6, <1>7, <1>8 DEF ChatStep

\* And answers or withdraws only its own approval.
LEMMA ApprovalStepsMove ==
  ASSUME TypeOK, StagesFit, GrantsFit, NEW c \in Chat, ChatStep(c)
  PROVE  ApprovalMoves(c) /\ BoundsMove
<1>1. NoAsk \in Asked /\ NoAsk.answer = None
  BY DEF NoAsk, Asked
<1>2. \A kind \in {"tool", "search"} :
        LET q == [NoAsk EXCEPT !.kind = kind] IN q \in Asked /\ q.answer = None
  BY DEF NoAsk, Asked
<1>3. ApprovalMoves(c)
  <2>1. CASE \E kind \in {"tool", "search"} : ChatCalls(c, kind)
    BY <2>1, <1>1, <1>2 DEF ChatCalls, ChatGoesOn, ChatAsks, ApprovalMoves
  <2>2. CASE ChatAskEnds(c) \/ ChatEnds(c)
    BY <2>2, <1>1 DEF ChatAskEnds, ChatEnds, ApprovalMoves
  <2>3. CASE ask' = ask
    BY <2>3, <1>1 DEF ApprovalMoves
  <2>4. QED
    BY <2>1, <2>2, <2>3 DEF ChatStep, ChatOpen, ChatSend, ChatBegins, ChatCallEnds,
       ChatStop, ChatStopped
<1>4. BoundsMove
  <2>1. moves' = moves \/ Moves
    BY DEF ChatStep, ChatOpen, ChatSend, ChatBegins, ChatCallEnds, ChatStop,
       ChatStopped, ChatAskEnds, ChatEnds, ChatCalls, bounds
  <2>2. QED
    BY <2>1, HostAssumption DEF Moves, BoundsMove, StagesFit
<1>5. QED
  BY <1>3, <1>4

\* So it keeps the invariant.
LEMMA ChatKeeps ==
  ASSUME IInv, NEW c \in Chat, ChatStep(c)
  PROVE  IInv'
<1>1. ChatMoves(c)
  BY ChatStepsMove DEF IInv
<1>2. ApprovalMoves(c) /\ BoundsMove
  BY ApprovalStepsMove DEF IInv
<1>3. PICK x : /\ chat' = [chat EXCEPT ![c] = x] /\ Belongs(x)
               /\ x.task # "none" => Working(c) \/ ~Archived
  BY <1>1 DEF ChatMoves
<1>4. UNCHANGED <<run, search, session, plan, archived, mode, closed, serial, stops, sub>>
  BY <1>1 DEF ChatMoves, scope, settings, requests
<1>5. PICK q \in Asked : /\ ask' \in {ask, [ask EXCEPT ![c] = q]}
                         /\ q.answer # None => q.kind # None
  BY <1>2 DEF ApprovalMoves
<1>6. c # Main /\ c \in Askers /\ Main \in Askers
  BY HostAssumption DEF Main, Askers
<1>7. ask' \in [Askers -> Asked] /\ ask'[Main] = ask[Main]
  BY <1>5, <1>6 DEF IInv, TypeOK
<1>8. TypeOK'
  <2>1. chat' \in [Chat -> Chats]
    BY <1>3 DEF IInv, TypeOK, Belongs, ChatFits
  <2>2. QED
    BY <1>4, <1>7, <2>1 DEF IInv, TypeOK
<1>9. ChatsFit'
  <2>1. ASSUME NEW d \in Chat
        PROVE  Belongs(chat'[d])
    BY <1>3 DEF IInv, TypeOK, ChatsFit
  <2>2. QED
    BY <1>4, <2>1 DEF ChatsFit, Belongs, ChatFits
<1>10. StagesFit'
  BY <1>2, <1>4 DEF IInv, TypeOK, Runs, StagesFit, BoundsMove, Active
<1>11. GrantsFit'
  <2>1. \A y \in Askers : ask'[y].answer # None => ask'[y].kind # None
    BY <1>5, <1>6 DEF IInv, TypeOK, GrantsFit
  <2>2. QED
    BY <1>4, <1>7, <2>1 DEF IInv, GrantsFit, Active, SearchesAreGranted
<1>12. ArchivedIsQuiet'
  <2>1. ASSUME Archived'
        PROVE  \A d \in Chat : ~Working(d)'
    BY <1>3, <1>4, <2>1 DEF IInv, TypeOK, ArchivedIsQuiet, Archived, Working
  <2>2. QED
    BY <1>4, <2>1 DEF IInv, ArchivedIsQuiet, Archived, Active, Compacting
<1>13. QED
  BY <1>8, <1>9, <1>10, <1>11, <1>12 DEF IInv

-----------------------------------------------------------------------------
(* The other steps of the host                                             *)

\* A run that is stopped, killed or approved goes on as the same run.
SameRun(r) == /\ r \in Runs /\ r.n = run.n /\ r.at = run.at
              /\ run.granted => r.granted
\* A run that is told to stop is the same run.
LEMMA SameRuns ==
  ASSUME TypeOK, NEW b \in BOOLEAN
  PROVE  /\ SameRun(run)
         /\ SameRun([run EXCEPT !.signal = b])
         /\ SameRun([run EXCEPT !.cancelled = b])
         /\ SameRun([run EXCEPT !.granted = @ \/ b])
<1>1. run.granted \in BOOLEAN /\ (run.granted \/ b) \in BOOLEAN
  BY DEF TypeOK, Runs
<1>2. QED
  BY <1>1 DEF TypeOK, SameRun, Runs

\* A prompt or a plan starts a run.
LEMMA RunStartKeeps ==
  ASSUME IInv, NEW kind \in {"prompt", "execute"}, RunStart(kind)
  PROVE  IInv'
<1>1. /\ session # None /\ ~Archived /\ serial = Free /\ ~Active
      /\ moves < MaxMoves /\ moves' = moves + 1
      /\ run' = [NoRun(run.n + 1) EXCEPT !.kind = kind, !.at = "created"]
      /\ UNCHANGED <<ask, search, session, plan, archived, mode, chat, closed, serial,
                     stops, sub>>
  BY DEF RunStart, Quiet, Served, Moves, scope, settings, chats, requests
<1>2. run.n \in Nat /\ run.n <= moves /\ moves \in Nat /\ search.run \in Nat
      /\ search.run <= run.n
  BY HostAssumption DEF IInv, TypeOK, Runs, StagesFit, GrantsFit
<1>3. run' \in Runs /\ run'.n = run.n + 1 /\ run'.at = "created"
  <2>1. run.n + 1 \in 0 .. MaxMoves
    BY <1>1, <1>2, HostAssumption
  <2>2. run' = [n |-> run.n + 1, kind |-> kind, at |-> "created", signal |-> FALSE,
                cancelled |-> FALSE, granted |-> FALSE]
    BY <1>1 DEF NoRun
  <2>3. QED
    BY <2>1, <2>2 DEF Runs, Stages
<1>4. TypeOK'
  BY <1>1, <1>3 DEF IInv, TypeOK
<1>5. ChatsFit'
  BY <1>1 DEF IInv, ChatsFit, Belongs, ChatFits
<1>6. StagesFit'
  BY <1>1, <1>2, <1>3, HostAssumption DEF IInv, StagesFit, Active, Free
<1>7. ask[Main] = NoAsk
  BY <1>1 DEF IInv, GrantsFit, Active
<1>8. GrantsFit'
  BY <1>1, <1>2, <1>3, <1>7, HostAssumption
     DEF IInv, GrantsFit, SearchesAreGranted, NoAsk, Active
<1>9. ArchivedIsQuiet'
  BY <1>1 DEF ArchivedIsQuiet, Archived
<1>10. QED
  BY <1>4, <1>5, <1>6, <1>8, <1>9 DEF IInv

\* A run is over.
LEMMA FinalizedKeeps ==
  ASSUME IInv, Finalized
  PROVE  IInv'
<1>1. /\ run.at = "final" /\ run' = NoRun(run.n)
      /\ stops' = [h \in Handlers |-> "none"]
      /\ UNCHANGED <<ask, search, session, plan, archived, mode, chat, closed, serial,
                     sub, moves>>
  BY DEF Finalized, At, scope, settings, chats, bounds
<1>2. run' \in Runs /\ run'.n = run.n /\ run'.at = "none"
  BY <1>1 DEF IInv, TypeOK, NoRun, Runs, Stages
<1>3. TypeOK'
  BY <1>1, <1>2 DEF IInv, TypeOK
<1>4. ChatsFit'
  BY <1>1 DEF IInv, ChatsFit, Belongs, ChatFits
<1>5. StagesFit'
  BY <1>1, <1>2 DEF IInv, StagesFit, Active
<1>6. GrantsFit'
  BY <1>1, <1>2, HostAssumption
     DEF IInv, GrantsFit, SearchesAreGranted, NoAsk, Active
<1>7. ArchivedIsQuiet'
  BY <1>1, <1>2 DEF IInv, ArchivedIsQuiet, Archived, Active, Compacting, Working
<1>8. QED
  BY <1>3, <1>4, <1>5, <1>6, <1>7 DEF IInv

\* A step that only stops what works, or has somebody wait for it.
Quiets ==
  /\ SameRun(run') /\ sub' \in {sub, FALSE} /\ BoundsMove
  /\ stops' \in [Handlers -> {"none", "grace", "killed"}]
  /\ serial' \in Serials
  /\ serial' = serial \/ (serial'.at = "stop" /\ session # None)
  /\ UNCHANGED <<session, plan, archived, mode, ask, search, chat, closed>>

\* A step that starts nothing keeps the invariant.
LEMMA QuietsKeep ==
  ASSUME IInv, Quiets
  PROVE  IInv'
<1>1. TypeOK'
  BY DEF IInv, Quiets, TypeOK, SameRun
<1>2. ChatsFit'
  BY DEF IInv, Quiets, ChatsFit, Belongs, ChatFits
<1>3. StagesFit'
  <2>1. run.n \in Nat /\ moves \in Nat
    BY HostAssumption DEF IInv, TypeOK, Runs, StagesFit
  <2>2. run'.n <= moves' /\ moves' \in 0 .. MaxMoves
    BY <2>1 DEF IInv, Quiets, StagesFit, SameRun, BoundsMove
  <2>3. Active' <=> Active
    BY DEF Quiets, SameRun, Active
  <2>4. session = None => serial' = Free /\ ~sub'
    BY DEF IInv, StagesFit, Quiets
  <2>5. serial'.at \in {"close", "handoff"} => ~Active
    BY DEF IInv, StagesFit, Quiets
  <2>6. QED
    BY <2>2, <2>3, <2>4, <2>5 DEF IInv, StagesFit, Quiets
<1>4. GrantsFit'
  BY DEF IInv, Quiets, GrantsFit, SameRun, Active, SearchesAreGranted
<1>5. ArchivedIsQuiet'
  BY DEF IInv, Quiets, ArchivedIsQuiet, Archived, SameRun, Active, Compacting, Working
<1>6. QED
  BY <1>1, <1>2, <1>3, <1>4, <1>5 DEF IInv

StopStep ==
  \/ RunAbort \/ SubEnds \/ \E h \in Handlers : GraceEnds(h)
  \/ \E target \in Session \cup {None} : Replace(target)

\* Those who wait for a run to stop start nothing.
LEMMA StopStepsQuiet ==
  ASSUME IInv, StopStep
  PROVE  Quiets
<1>0. /\ TypeOK /\ moves \in 0 .. MaxMoves /\ MaxMoves \in Nat
      /\ stops \in [Handlers -> {"none", "grace", "killed"}] /\ serial \in Serials
      /\ "abort" \in Handlers /\ "serial" \in Handlers
  BY HostAssumption DEF IInv, TypeOK, StagesFit, Handlers
<1>1. SameRun(run) /\ SameRun([run EXCEPT !.cancelled = TRUE])
  BY <1>0, SameRuns
<1>2. Aborts => SameRun(run') /\ sub' = FALSE
  <2>1. (run.signal \/ run.at \in InAgent) \in BOOLEAN
    OBVIOUS
  <2>2. QED
    BY <1>0, <2>1, SameRuns DEF Aborts
<1>3. CASE RunAbort
  <2>1. /\ SameRun(run') /\ sub' \in {sub, FALSE}
        /\ stops' \in {stops, [stops EXCEPT !["abort"] = "grace"]}
    BY <1>1, <1>2, <1>3 DEF RunAbort
  <2>2. /\ moves' = moves /\ serial' = serial
        /\ UNCHANGED <<session, plan, archived, mode, ask, search, chat, closed>>
    BY <1>3 DEF RunAbort, bounds, scope, settings, chats
  <2>3. BoundsMove
    BY <1>0, <2>1, <2>2 DEF BoundsMove
  <2>4. stops' \in [Handlers -> {"none", "grace", "killed"}]
    BY <1>0, <2>1, <2>2
  <2>5. serial' \in Serials
    BY <1>0, <2>1, <2>2 DEF requests
  <2>6. QED
    BY <2>5, <2>1, <2>2, <2>3, <2>4 DEF Quiets
<1>4. CASE SubEnds
  <2>1. /\ run' = run /\ sub' = FALSE /\ moves' = moves /\ UNCHANGED requests
        /\ UNCHANGED <<session, plan, archived, mode, ask, search, chat, closed>>
    BY <1>4 DEF SubEnds, work, bounds, scope, settings, chats
  <2>2. SameRun(run')
    BY <1>1, <2>1
  <2>3. BoundsMove
    BY <1>0, <2>1, <2>2 DEF BoundsMove
  <2>4. stops' \in [Handlers -> {"none", "grace", "killed"}]
    BY <1>0, <2>1 DEF requests
  <2>5. serial' \in Serials
    BY <1>0, <2>1, <2>2 DEF requests
  <2>6. QED
    BY <2>5, <2>1, <2>2, <2>3, <2>4 DEF Quiets, requests
<1>5. CASE \E h \in Handlers : GraceEnds(h)
  <2>1. PICK h \in Handlers : GraceEnds(h)
    BY <1>5
  <2>2. /\ run' = [run EXCEPT !.cancelled = TRUE] /\ moves' = moves
        /\ stops' = [stops EXCEPT ![h] = "killed"] /\ serial' = serial /\ sub' = sub
        /\ UNCHANGED <<session, plan, archived, mode, ask, search, chat, closed>>
    BY <2>1 DEF GraceEnds, bounds, scope, settings, chats
  <2>3. SameRun(run')
    BY <1>1, <2>2
  <2>4. BoundsMove
    BY <1>0, <2>2, <2>3 DEF BoundsMove
  <2>5. stops' \in [Handlers -> {"none", "grace", "killed"}]
    BY <1>0, <2>2, <2>3
  <2>6. serial' \in Serials
    BY <1>0, <2>1, <2>2 DEF requests
  <2>7. QED
    BY <2>6, <2>2, <2>3, <2>4, <2>5 DEF Quiets
<1>6. CASE \E target \in Session \cup {None} : Replace(target)
  <2>1. PICK target \in Session \cup {None} : Replace(target)
    BY <1>6
  <2> DEFINE kept == IF target = None THEN [h \in Handlers |-> "none"] ELSE stops
  <2>2. /\ serial' \in Serials /\ serial'.at = "stop" /\ session # None
        /\ moves < MaxMoves /\ moves' = moves + 1
        /\ UNCHANGED <<session, plan, archived, mode, ask, search, chat, closed>>
    BY <2>1 DEF Replace, Serials, Moves, scope, settings, chats
  <2>3. kept \in [Handlers -> {"none", "grace", "killed"}]
    BY <1>0
  <2>4. stops' \in {kept, [kept EXCEPT !["serial"] = "grace"]}
    BY <2>1 DEF Replace
  <2>5. SameRun(run') /\ sub' \in {sub, FALSE}
    BY <1>1, <1>2, <2>1 DEF Replace
  <2>6. stops' \in [Handlers -> {"none", "grace", "killed"}]
    BY <2>3, <2>4
  <2>7. BoundsMove
    BY <1>0, <2>2 DEF BoundsMove
  <2>8. QED
    BY <2>2, <2>5, <2>6, <2>7 DEF Quiets
<1>7. QED
  BY <1>3, <1>4, <1>5, <1>6 DEF StopStep

\* Conversations that are told to stop, or over and forgotten, fit.
LEMMA ChatsCloseFits ==
  ASSUME IInv, ChatsClose, session' = session
  PROVE  /\ chat' \in [Chat -> Chats] /\ closed' \in BOOLEAN /\ ChatsFit'
         /\ \A c \in Chat : Working(c)' <=> Working(c)
<1>1. ASSUME NEW c \in Chat
      PROVE  /\ chat'[c] \in Chats /\ Belongs(chat'[c])
             /\ chat'[c].task = chat[c].task
  <2>1. Belongs(chat[c])
    BY DEF IInv, ChatsFit
  <2>2. chat'[c] = [chat[c] EXCEPT !.cancelled = Working(c)] /\ Working(c) \in BOOLEAN
    BY DEF ChatsClose, Working
  <2>3. QED
    BY <2>1, <2>2 DEF Belongs, ChatFits, Chats
<1>2. QED
  BY <1>1 DEF ChatsClose, ChatsFit, Belongs, ChatFits, Working

\* Closing the conversations leaves their tasks.
LEMMA ChatsClosingGoesOn ==
  ASSUME ChatsClose, chat \in [Chat -> Chats], NEW c \in Chat
  PROVE  chat'[c].task = chat[c].task
BY DEF ChatsClose, Chats

\* So does shutting one.
LEMMA ShutGoesOn ==
  ASSUME NEW x \in Chats
  PROVE  Shut(x).task = x.task
BY DEF Shut, CancelledBeforeStart, Chats

\* When all have closed none works.
LEMMA ChatsClosedFits ==
  ASSUME IInv, ChatsClosed
  PROVE  /\ chat' \in [Chat -> Chats] /\ closed' \in BOOLEAN /\ ChatsFit'
         /\ \A c \in Chat : ~Working(c)'
<1>1. ASSUME NEW c \in Chat
      PROVE  chat'[c] \in Chats /\ ChatFits(chat'[c]) /\ ~chat'[c].open
  <2> DEFINE x0 == chat[c]
  <2>1. ChatFits(x0) /\ x0 \in Chats /\ x0.task = "none"
    BY DEF IInv, ChatsFit, Belongs, ChatFits, ChatsClosed, Working
  <2>2. chat'[c] = Shut(x0)
    BY DEF ChatsClosed
  <2>3. CASE x0.status # "running"
    BY <2>1, <2>2, <2>3, ZenonT(80) DEF Shut, CancelledBeforeStart, ChatFits, Chats
  <2>4. CASE x0.status = "running"
    <3>1. chat'[c] = [x0 EXCEPT !.disk = "cancelled", !.truth = "cancelled", !.open = FALSE,
                        !.status = "idle", !.stopping = FALSE, !.decision = None]
      BY <2>1, <2>2, <2>4 DEF Shut, CancelledBeforeStart, Chats
    <3>2. QED
      BY <2>1, <3>1, ZenonT(80) DEF ChatFits, Chats, Settled
  <2>5. QED
    BY <2>3, <2>4
<1>2. QED
  BY <1>1 DEF ChatsClosed, ChatsFit, Belongs, ChatFits, Working

\* What the user is granted by an answer is granted to the run that asked.
LEMMA AnswerKeeps ==
  ASSUME IInv, NEW x \in Askers, NEW answer \in {"yes", "no"}, Answer(x, answer)
  PROVE  IInv'
<1> DEFINE grants == x = Main /\ ask[x].kind = "search" /\ answer = "yes"
<1>1. /\ ask[x].kind # None /\ ask[x].answer = None
      /\ ask' = [ask EXCEPT ![x].answer = answer]
      /\ run' = [run EXCEPT !.granted = @ \/ grants]
      /\ UNCHANGED <<search, session, plan, archived, mode, chat, closed, serial, stops,
                     sub, moves>>
  BY DEF Answer, scope, settings, chats, requests, bounds
<1>2. SameRun(run') /\ run'.granted = (run.granted \/ grants)
  <2>1. TypeOK /\ grants \in BOOLEAN
    BY DEF IInv
  <2>2. QED
    BY <1>1, <2>1, SameRuns DEF TypeOK, Runs
<1>3. ask \in [Askers -> Asked] /\ Main \in Askers
  BY DEF IInv, TypeOK, Askers
<1>4. \A y \in Askers : /\ ask'[y] \in Asked /\ ask'[y].kind = ask[y].kind
                        /\ ask'[y].answer = IF y = x THEN answer ELSE ask[y].answer
  BY <1>1, <1>3 DEF Asked
<1>5. ask' \in [Askers -> Asked]
  BY <1>1, <1>3, <1>4
<1>6. TypeOK'
  BY <1>1, <1>2, <1>5 DEF IInv, TypeOK, SameRun
<1>7. ChatsFit'
  BY <1>1 DEF IInv, ChatsFit, Belongs, ChatFits
<1>8. StagesFit'
  BY <1>1, <1>2 DEF IInv, StagesFit, SameRun, Active
<1>9. GrantsFit'
  <2>1. \A y \in Askers : ask'[y].answer # None => ask'[y].kind # None
    BY <1>1, <1>4 DEF IInv, GrantsFit
  <2>2. run'.at # "asking" => ask'[Main] = NoAsk
    <3>1. run.at # "asking" => x # Main
      BY <1>1 DEF IInv, GrantsFit, NoAsk
    <3>2. QED
      BY <1>1, <1>2, <1>3, <3>1 DEF IInv, GrantsFit, SameRun
  <2>3. ask'[Main].kind = "search" /\ ask'[Main].answer = "yes" => run'.granted
    BY <1>2, <1>3, <1>4 DEF IInv, GrantsFit
  <2>4. /\ search'.run <= run'.n
        /\ Active' /\ search'.run = run'.n /\ search'.allowed => run'.granted
        /\ SearchesAreGranted'
    BY <1>1, <1>2 DEF IInv, GrantsFit, SameRun, Active, SearchesAreGranted
  <2>5. QED
    BY <2>1, <2>2, <2>3, <2>4 DEF GrantsFit
<1>10. ArchivedIsQuiet'
  BY <1>1, <1>2 DEF IInv, ArchivedIsQuiet, Archived, SameRun, Active, Compacting, Working
<1>11. QED
  BY <1>6, <1>7, <1>8, <1>9, <1>10 DEF IInv

\* Subagents start in a session that is open and not archived.
LEMMA SpawnsKeeps ==
  ASSUME IInv, Spawns
  PROVE  IInv'
<1>1. /\ sub' = TRUE /\ ~Archived /\ session # None
      /\ UNCHANGED <<ask, search, session, plan, archived, mode, chat, closed, serial,
                     stops, moves>>
  BY DEF Spawns, scope, settings, chats, requests, bounds, At, Served, IInv,
         ArchivedIsQuiet, StagesFit, Active
<1>2. \/ run' = run
      \/ run.at = "tool" /\ run' = [run EXCEPT !.at = "prompt"]
  BY DEF Spawns, At
<1>3. /\ run' \in Runs /\ run'.n = run.n /\ run'.granted = run.granted
      /\ Active' <=> Active
      /\ run'.at = run.at \/ (run.at = "tool" /\ run'.at = "prompt")
  BY <1>2 DEF IInv, TypeOK, Runs, Stages, InAgent, Active
<1>4. TypeOK'
  BY <1>1, <1>3 DEF IInv, TypeOK
<1>5. ChatsFit'
  BY <1>1 DEF IInv, ChatsFit, Belongs, ChatFits
<1>6. StagesFit'
  BY <1>1, <1>3 DEF IInv, StagesFit
<1>7. GrantsFit'
  BY <1>1, <1>3 DEF IInv, GrantsFit, SearchesAreGranted
<1>8. ArchivedIsQuiet'
  BY <1>1 DEF ArchivedIsQuiet, Archived
<1>9. QED
  BY <1>4, <1>5, <1>6, <1>7, <1>8 DEF IInv

\* A step of the host beside the run, which changes session or mode only while
\* there is no run.
Besides ==
  /\ UNCHANGED <<run, ask, search, stops>> /\ BoundsMove
  /\ session' \in Session \cup {None} /\ archived' \subseteq Session
  /\ mode' \in Modes /\ plan' \in Plans /\ sub' \in BOOLEAN /\ serial' \in Serials
  /\ chat' \in [Chat -> Chats] /\ closed' \in BOOLEAN /\ ChatsFit'
  /\ (session' = session /\ mode' = mode) \/ ~Active
  /\ session' = None => serial' = Free /\ ~Active /\ ~sub'
  /\ serial'.at \in {"close", "handoff"} => ~Active
  /\ ArchivedIsQuiet'

\* A step beside the work keeps the invariant.
LEMMA BesidesKeep ==
  ASSUME IInv, Besides
  PROVE  IInv'
<1>1. TypeOK'
  BY DEF IInv, Besides, TypeOK
<1>2. StagesFit'
  <2>1. run.n \in Nat /\ moves \in Nat
    BY HostAssumption DEF IInv, TypeOK, Runs, StagesFit
  <2>2. run'.n <= moves' /\ moves' \in 0 .. MaxMoves
    BY <2>1 DEF IInv, Besides, StagesFit, BoundsMove
  <2>3. QED
    BY <2>2 DEF Besides, StagesFit, Active
<1>3. GrantsFit'
  BY DEF IInv, Besides, GrantsFit, SearchesAreGranted, Active
<1>4. QED
  BY <1>1, <1>2, <1>3 DEF IInv, Besides

BesideStep ==
  \/ Stopped \/ Replaced \/ HandedOff \/ CompactEnds \/ Handoff \/ Compact \/ Recovers
  \/ \E p \in Plans : SetPlan(p)
  \/ \E m \in Modes : SetMode(m)
  \/ \E s \in Session : Archive(s)

\* Requests that only change settings or sessions are such steps.
LEMMA BesideStepsKeep ==
  ASSUME IInv, BesideStep
  PROVE  Besides
<1>0. /\ session \in Session \cup {None} /\ archived \subseteq Session
      /\ mode \in Modes /\ plan \in Plans /\ sub \in BOOLEAN /\ serial \in Serials
      /\ chat \in [Chat -> Chats] /\ closed \in BOOLEAN
      /\ session = None => serial = Free /\ ~Active /\ ~sub
      /\ serial.at \in {"close", "handoff"} => ~Active
      /\ ChatsFit /\ ArchivedIsQuiet
  BY DEF IInv, TypeOK, StagesFit
<1>1. /\ moves' = moves => BoundsMove
      /\ Moves => BoundsMove
  BY HostAssumption DEF IInv, StagesFit, BoundsMove, Moves
<1>2. ASSUME session' = session, chat' = chat
      PROVE  ChatsFit'
  BY <1>0, <1>2 DEF ChatsFit, Belongs, ChatFits
<1>3. /\ Free \in Serials /\ Free.at = "free"
      /\ \A at \in {"handoff", "compact"} : [Free EXCEPT !.at = at] \in Serials
      /\ \A at \in {"handoff", "compact"} : [Free EXCEPT !.at = at].at = at
  BY DEF Free, Serials
<1>4. CASE Stopped
  <2>1. /\ serial.at = "stop" /\ ~Active /\ serial' = [serial EXCEPT !.at = "close"]
        /\ ChatsClose /\ moves' = moves
        /\ UNCHANGED <<run, ask, search, stops, session, archived, mode, plan, sub>>
    BY <1>4 DEF Stopped, work, scope, settings, bounds
  <2>2. serial' \in Serials /\ serial'.at = "close" /\ session # None
    BY <1>0, <2>1, <1>3 DEF Serials
  <2>3. /\ chat' \in [Chat -> Chats] /\ closed' \in BOOLEAN /\ ChatsFit'
        /\ \A c \in Chat : Working(c)' <=> Working(c)
    BY <2>1, ChatsCloseFits
  <2>4. ArchivedIsQuiet'
    BY <1>0, <2>1, <2>2, <2>3 DEF ArchivedIsQuiet, Archived, Active, Compacting
  <2>5. QED
    BY <1>0, <1>1, <2>1, <2>2, <2>3, <2>4 DEF Besides
<1>5. CASE Replaced
  <2>1. /\ serial.at = "close" /\ ChatsClosed /\ serial' = Free /\ sub' = FALSE
        /\ moves' = moves /\ session' \in {serial.target, None}
        /\ plan' \in Plans
        /\ UNCHANGED <<run, ask, search, stops, archived, mode>>
    BY <1>0, <1>5 DEF Replaced, work, settings, bounds
  <2>2. session' \in Session \cup {None}
    BY <1>0, <2>1 DEF Serials
  <2>3. /\ chat' \in [Chat -> Chats] /\ closed' \in BOOLEAN /\ ChatsFit'
        /\ \A c \in Chat : ~Working(c)'
    BY <2>1, ChatsClosedFits
  <2>4. ArchivedIsQuiet'
    BY <1>0, <1>3, <2>1, <2>3 DEF ArchivedIsQuiet, Active, Compacting
  <2>5. QED
    BY <1>0, <1>1, <1>3, <2>1, <2>2, <2>3, <2>4 DEF Besides
<1>6. CASE HandedOff
  <2>1. /\ serial.at = "handoff" /\ ChatsClosed /\ serial' = Free
        /\ moves' = moves /\ plan' \in Plans
        /\ \/ session' \in Session \ archived /\ sub' = FALSE
           \/ session' = session /\ sub' = sub
        /\ UNCHANGED <<run, ask, search, stops, archived, mode>>
    BY <1>0, <1>6 DEF HandedOff, work, settings, bounds, Plans
  <2>2. session # None
    BY <1>0, <1>3, <2>1
  <2>3. /\ chat' \in [Chat -> Chats] /\ closed' \in BOOLEAN /\ ChatsFit'
        /\ \A c \in Chat : ~Working(c)'
    BY <2>1, ChatsClosedFits
  <2>4. ArchivedIsQuiet'
    BY <1>0, <1>3, <2>1, <2>3 DEF ArchivedIsQuiet, Active, Archived, Compacting
  <2>5. QED
    BY <1>0, <1>1, <1>3, <2>1, <2>2, <2>3, <2>4, HostAssumption DEF Besides
<1>7. CASE CompactEnds
  <2>1. /\ serial.at = "compact" /\ serial' = Free /\ moves' = moves
        /\ UNCHANGED <<run, ask, search, stops, session, archived, mode, plan, sub, chat,
                       closed>>
    BY <1>7 DEF CompactEnds, work, scope, settings, chats, bounds
  <2>2. session # None
    BY <1>0, <1>3, <2>1
  <2>3. ArchivedIsQuiet'
    BY <1>0, <1>3, <2>1 DEF ArchivedIsQuiet, Archived, Compacting
  <2>4. QED
    BY <1>0, <1>1, <1>2, <1>3, <2>1, <2>2, <2>3 DEF Besides
<1>8. CASE Handoff
  <2>1. /\ serial = Free /\ session # None /\ ~Active /\ ~Archived
        /\ serial' = [Free EXCEPT !.at = "handoff"] /\ ChatsClose /\ Moves
        /\ UNCHANGED <<run, ask, search, stops, session, archived, mode, plan, sub>>
    BY <1>8 DEF Handoff, Quiet, Served, work, scope, settings
  <2>2. /\ chat' \in [Chat -> Chats] /\ closed' \in BOOLEAN /\ ChatsFit'
    BY <2>1, ChatsCloseFits
  <2>3. ArchivedIsQuiet'
    BY <2>1 DEF ArchivedIsQuiet, Archived
  <2>4. QED
    BY <1>0, <1>1, <1>3, <2>1, <2>2, <2>3 DEF Besides
<1>9. CASE Compact
  <2>1. /\ serial = Free /\ session # None /\ ~Active /\ ~Archived
        /\ serial' = [Free EXCEPT !.at = "compact"] /\ Moves
        /\ UNCHANGED <<run, ask, search, stops, session, archived, mode, plan, sub, chat,
                       closed>>
    BY <1>9 DEF Compact, Quiet, Served, work, scope, settings, chats
  <2>2. ArchivedIsQuiet'
    BY <2>1 DEF ArchivedIsQuiet, Archived
  <2>3. QED
    BY <1>0, <1>1, <1>2, <1>3, <2>1, <2>2 DEF Besides
<1>10. CASE Recovers
  <2>1. /\ session = None /\ serial = Free /\ session' \in Session /\ plan' \in Plans
        /\ Moves
        /\ UNCHANGED <<run, ask, search, stops, serial, archived, mode, sub, chat, closed>>
    BY <1>10 DEF Recovers, work, settings, chats, requests
  <2>2. \A c \in Chat : ~chat[c].open /\ ~Working(c)
    BY <1>0, <2>1 DEF ChatsFit, Belongs, ChatFits, Working
  <2>3. ChatsFit'
    BY <1>0, <2>1, <2>2 DEF ChatsFit, Belongs, ChatFits
  <2>4. ArchivedIsQuiet'
    BY <1>0, <1>3, <2>1, <2>2 DEF ArchivedIsQuiet, Active, Compacting, Working
  <2>5. QED
    BY <1>0, <1>1, <2>1, <2>3, <2>4, HostAssumption DEF Besides
<1>11. CASE \E p \in Plans : SetPlan(p)
  <2>1. /\ ~Archived /\ session # None /\ Moves /\ plan' \in Plans
        /\ UNCHANGED <<run, ask, search, stops, serial, session, archived, mode, sub, chat,
                       closed>>
    BY <1>11 DEF SetPlan, Quiet, Served, work, settings, chats, requests
  <2>2. ArchivedIsQuiet'
    BY <2>1 DEF ArchivedIsQuiet, Archived
  <2>3. QED
    BY <1>0, <1>1, <1>2, <2>1, <2>2 DEF Besides
<1>12. CASE \E m \in Modes : SetMode(m)
  <2>1. /\ ~Active /\ session # None /\ Moves /\ mode' \in Modes
        /\ UNCHANGED <<run, ask, search, stops, serial, session, archived, plan, sub, chat,
                       closed>>
    BY <1>12 DEF SetMode, Quiet, Served, work, scope, chats, requests
  <2>2. ArchivedIsQuiet'
    BY <1>0, <2>1 DEF ArchivedIsQuiet, Archived, Active, Compacting, Working
  <2>3. QED
    BY <1>0, <1>1, <1>2, <2>1, <2>2 DEF Besides
<1>13. CASE \E s \in Session : Archive(s)
  <2>1. /\ serial = Free /\ ~Active /\ session # None /\ Moves /\ archived' \subseteq Session
        /\ ~Compacting /\ ~sub /\ \A c \in Chat : ~Working(c)
        /\ UNCHANGED <<run, ask, search, stops, serial, session, mode, plan, sub, chat,
                       closed>>
    BY <1>0, <1>13 DEF Archive, Quiet, Served, work, scope, chats, requests
  <2>2. ArchivedIsQuiet'
    BY <2>1 DEF ArchivedIsQuiet, Active, Compacting, Working
  <2>3. QED
    BY <1>0, <1>1, <1>2, <2>1, <2>2 DEF Besides
<1>14. QED
  BY <1>4, <1>5, <1>6, <1>7, <1>8, <1>9, <1>10, <1>11, <1>12, <1>13 DEF BesideStep

\* After a crash the files of the conversations are all there is.
LEMMA CrashKeeps ==
  ASSUME IInv, Crash
  PROVE  IInv'
<1>1. /\ session' \in Session /\ plan' \in Plans /\ run' = NoRun(run.n) /\ sub' = FALSE
      /\ ask' = [x \in Askers |-> NoAsk] /\ search' = NoDecision
      /\ chat' = [c \in Chat |-> [NoChat EXCEPT !.owner = chat[c].owner,
                                    !.disk = chat[c].disk, !.truth = chat[c].truth]]
      /\ closed' = FALSE /\ serial' = Free /\ stops' = [h \in Handlers |-> "none"]
      /\ UNCHANGED <<archived, mode, moves>>
  BY DEF Crash, settings, IInv, TypeOK
<1>2. run.n \in 0 .. MaxMoves
  BY DEF IInv, TypeOK, Runs
<1>3. run' \in Runs /\ run'.n = run.n /\ run'.at = "none"
  BY <1>1, <1>2 DEF NoRun, Runs, Stages
<1>4. ask' \in [Askers -> Asked] /\ \A x \in Askers : ask'[x] = NoAsk
  BY <1>1 DEF NoAsk, Asked
<1>5. search' \in [run : 0 .. MaxMoves, allowed : BOOLEAN] /\ search'.run = 0
      /\ ~search'.allowed
  <2>1. 0 \in 0 .. MaxMoves
    BY HostAssumption
  <2>2. QED
    BY <1>1, <2>1 DEF NoDecision
<1>6. ASSUME NEW c \in Chat
      PROVE  ChatFits(chat'[c]) /\ ~chat'[c].open /\ chat'[c].task = "none"
  <2>1. ChatFits(chat[c])
    BY DEF IInv, ChatsFit, Belongs
  <2>2. chat'[c] = [NoChat EXCEPT !.owner = chat[c].owner, !.disk = chat[c].disk,
                                  !.truth = chat[c].truth]
    BY <1>1
  <2>3. QED
    BY <2>1, <2>2, ZenonT(80) DEF ChatFits, NoChat, Chats, Settled
<1>7. serial' \in Serials /\ serial'.at = "free" /\ serial' = Free
  BY <1>1 DEF Free, Serials
<1>8. TypeOK'
  <2>1. chat' \in [Chat -> Chats]
    BY <1>1, <1>6 DEF ChatFits
  <2>2. stops' \in [Handlers -> {"none", "grace", "killed"}]
    BY <1>1
  <2>3. QED
    BY <1>1, <1>3, <1>4, <1>5, <1>7, <2>1, <2>2 DEF IInv, TypeOK
<1>9. ChatsFit'
  BY <1>6 DEF ChatsFit, Belongs, ChatFits
<1>10. StagesFit'
  BY <1>1, <1>3, <1>7, HostAssumption DEF IInv, StagesFit, Active
<1>11. GrantsFit'
  BY <1>2, <1>3, <1>4, <1>5, HostAssumption
     DEF GrantsFit, NoAsk, SearchesAreGranted, Active, Askers
<1>12. ArchivedIsQuiet'
  BY <1>1, <1>3, <1>6, <1>7 DEF ArchivedIsQuiet, Active, Compacting, Working
<1>13. QED
  BY <1>8, <1>9, <1>10, <1>11, <1>12 DEF IInv

-----------------------------------------------------------------------------
(* The invariant and what it gives                                         *)

\* The host starts fit.
LEMMA InitInv ==
  ASSUME Init
  PROVE  IInv
<1>1. /\ session = First /\ archived = {} /\ mode = Saved /\ plan = "default"
      /\ run = NoRun(0) /\ sub = FALSE
      /\ ask = [x \in Askers |-> NoAsk] /\ search = NoDecision
      /\ chat = [c \in Chat |-> NoChat] /\ closed = FALSE
      /\ serial = Free /\ stops = [h \in Handlers |-> "none"] /\ moves = 0
  BY DEF Init
<1>2. 0 \in 0 .. MaxMoves
  BY HostAssumption
<1>3. run \in Runs /\ run.n = 0 /\ run.at = "none"
  BY <1>1, <1>2 DEF NoRun, Runs, Stages
<1>4. ask \in [Askers -> Asked] /\ \A x \in Askers : ask[x] = NoAsk
  BY <1>1 DEF NoAsk, Asked
<1>5. search \in [run : 0 .. MaxMoves, allowed : BOOLEAN] /\ search.run = 0
      /\ ~search.allowed
  BY <1>1, <1>2 DEF NoDecision
<1>6. ChatFits(NoChat) /\ ~NoChat.open /\ NoChat.task = "none"
  BY DEF ChatFits, NoChat, Chats, Settled
<1>7. serial \in Serials /\ serial.at = "free" /\ serial = Free
  BY <1>1 DEF Free, Serials
<1>8. TypeOK
  <2>1. chat \in [Chat -> Chats]
    BY <1>1, <1>6 DEF ChatFits
  <2>2. stops \in [Handlers -> {"none", "grace", "killed"}]
    BY <1>1
  <2>3. session \in Session \cup {None} /\ mode \in Modes /\ plan \in Plans
    BY <1>1, HostAssumption DEF Modes, Plans
  <2>4. QED
    BY <1>1, <1>3, <1>4, <1>5, <1>7, <2>1, <2>2, <2>3 DEF TypeOK
<1>9. ChatsFit
  BY <1>1, <1>6 DEF ChatsFit, Belongs
<1>10. StagesFit
  BY <1>1, <1>2, <1>3, <1>7, HostAssumption DEF StagesFit, Active
<1>11. GrantsFit
  BY <1>3, <1>4, <1>5 DEF GrantsFit, NoAsk, SearchesAreGranted, Active, Askers
<1>12. ArchivedIsQuiet
  BY <1>1 DEF ArchivedIsQuiet, Archived
<1>13. QED
  BY <1>8, <1>9, <1>10, <1>11, <1>12 DEF IInv

\* Every step is one of those the lemmas are about.
LEMMA StepsAreKnown ==
  ASSUME Next
  PROVE  \/ RunStep \/ Finalized \/ StopStep \/ BesideStep \/ Spawns \/ Crash
         \/ \E kind \in {"prompt", "execute"} : RunStart(kind)
         \/ \E c \in Chat : ChatStep(c)
         \/ \E x \in Askers, answer \in {"yes", "no"} : Answer(x, answer)
<1>1. CASE Host \/ Kills \/ Agent
  BY <1>1 DEF Host, Kills, Agent, RunStep, StopStep, BesideStep
<1>2. CASE Chatting
  BY <1>2 DEF Chatting, ChatStep
<1>3. CASE User
  BY <1>3 DEF User, StopStep, BesideStep
<1>4. QED
  BY <1>1, <1>2, <1>3 DEF Next

\* Every request and every step of the host keeps the invariant.
LEMMA NextInv ==
  ASSUME IInv, [Next]_vars
  PROVE  IInv'
<1>1. CASE Next
  BY <1>1, StepsAreKnown, RunKeeps, FinalizedKeeps, StopStepsQuiet, QuietsKeep,
     BesideStepsKeep, BesidesKeep, SpawnsKeeps, CrashKeeps, RunStartKeeps, ChatKeeps,
     AnswerKeeps
<1>2. CASE UNCHANGED vars
  <2>1. /\ UNCHANGED <<session, archived, mode, plan, run, sub, ask>>
        /\ UNCHANGED <<search, chat, closed, serial, stops, moves>>
    BY <1>2 DEF vars, work, scope, settings, chats, requests, bounds
  <2>2. TypeOK'
    BY <2>1 DEF IInv, TypeOK
  <2>3. ChatsFit'
    BY <2>1 DEF IInv, ChatsFit, Belongs, ChatFits
  <2>4. StagesFit' /\ GrantsFit'
    BY <2>1 DEF IInv, StagesFit, GrantsFit, Active, SearchesAreGranted
  <2>5. ArchivedIsQuiet'
    BY <2>1 DEF IInv, ArchivedIsQuiet, Archived, Active, Compacting, Working
  <2>6. QED
    BY <2>2, <2>3, <2>4, <2>5 DEF IInv
<1>3. QED
  BY <1>1, <1>2

\* The inductive invariant holds of every state of the host (desktop/runtime.py,
\* desktop/side_conversations.py).
THEOREM Invariance == Spec => []IInv
<1>1. Init => IInv
  BY InitInv
<1>2. IInv /\ [Next]_vars => IInv'
  BY NextInv
<1>3. QED
  BY <1>1, <1>2, PTL DEF Spec

\* The variables keep their types.
THEOREM TypeCorrect == Spec => []TypeOK
<1>1. IInv => TypeOK
  BY DEF IInv
<1>2. QED
  BY <1>1, Invariance, PTL

\* In an archived session nothing works, however requests and their ends
\* interleave (runtime.dispatch, _set_session_archived).
THEOREM ArchivedIsAlwaysQuiet == Spec => []ArchivedIsQuiet
<1>1. IInv => ArchivedIsQuiet
  BY DEF IInv
<1>2. QED
  BY <1>1, Invariance, PTL

\* A native search was allowed by the user for the very run that makes it
\* (runtime._before_native_web_search).
THEOREM SearchesAreAlwaysGranted == Spec => []SearchesAreGranted
<1>1. IInv => SearchesAreGranted
  BY DEF IInv, GrantsFit
<1>2. QED
  BY <1>1, Invariance, PTL

\* An end of a conversation's run that nobody recorded is never shown as an end
\* (side_conversations.open, _drive, _cancel_before_start).
THEOREM UnfinishedIsAlwaysUncertain == Spec => []UnfinishedIsUncertain
<1>1. IInv => UnfinishedIsUncertain
  BY DEF IInv, ChatsFit, Belongs, ChatFits, UnfinishedIsUncertain
<1>2. QED
  BY <1>1, Invariance, PTL

\* No conversation starts a tool while the main session plans, is archived or
\* is being left (side_conversations._approve_one).
THEOREM ChatsAlwaysObeyTheParent == Spec => ChatsObeyTheParent
<1> DEFINE Begins(c) == chat'[c].task = "tool" /\ chat[c].task # "tool"
           May(c) == plan = "default" /\ ~closed /\ ~Archived /\ session = chat[c].owner
<1>1. ASSUME IInv, [Next]_vars, NEW c \in Chat, Begins(c)
      PROVE  May(c)
  <2>1. Next
    BY <1>1 DEF vars, chats
  <2>2. chat \in [Chat -> Chats]
    BY <1>1 DEF IInv, TypeOK
  <2>3. chat' # chat
    BY <1>1
  <2>4. \/ \E d \in Chat : ChatStep(d)
        \/ BesideStep \/ Crash
    <3>1. Finalized => chat' = chat
      BY DEF Finalized, chats
    <3>2. RunStep => chat' = chat
      BY <1>1, RunStepsGoOn DEF IInv, RunGoesOn, chats
    <3>3. StopStep => chat' = chat
      BY <1>1, StopStepsQuiet DEF Quiets
    <3>4. Spawns => chat' = chat
      BY DEF Spawns, chats
    <3>5. ASSUME NEW kind \in {"prompt", "execute"}, RunStart(kind)
          PROVE  chat' = chat
      BY <3>5 DEF RunStart, chats
    <3>6. ASSUME NEW x \in Askers, NEW answer \in {"yes", "no"}, Answer(x, answer)
          PROVE  chat' = chat
      BY <3>6 DEF Answer, chats
    <3>7. QED
      BY <2>1, <2>3, StepsAreKnown, <3>1, <3>2, <3>3, <3>4, <3>5, <3>6
  <2>5. CASE \E d \in Chat : ChatStep(d)
    <3>1. PICK d \in Chat : ChatStep(d)
      BY <2>5
    <3>2. ChatMoves(d)
      BY <1>1, <3>1, ChatStepsMove DEF IInv
    <3>3. PICK x : /\ chat' = [chat EXCEPT ![d] = x] /\ Belongs(x) /\ Obeys(d, x)
                   /\ x.task # "none" => Working(d) \/ ~Archived
      BY <3>2 DEF ChatMoves
    <3>4. c = d /\ x.task = "tool"
      BY <1>1, <2>2, <3>3
    <3>5. ~Archived
      BY <1>1, <3>3, <3>4 DEF IInv, ArchivedIsQuiet
    <3>6. QED
      BY <1>1, <3>3, <3>4, <3>5 DEF Obeys
  <2>6. CASE BesideStep
    <3>1. chat'[c].task = chat[c].task
      <4>1. CASE ChatsClose
        BY <2>2, <4>1, ChatsClosingGoesOn
      <4>2. CASE ChatsClosed
        BY <2>2, <4>2, ShutGoesOn DEF ChatsClosed
      <4>3. QED
        BY <2>3, <2>6, <4>1, <4>2
           DEF BesideStep, Stopped, Replaced, HandedOff, CompactEnds, Handoff, Compact,
               Recovers, SetPlan, SetMode, Archive, chats
    <3>2. QED
      BY <1>1, <3>1
  <2>7. CASE Crash
    BY <1>1, <2>2, <2>7 DEF Crash, NoChat
  <2>8. QED
    BY <2>4, <2>5, <2>6, <2>7
<1>2. IInv /\ [Next]_vars => [\A c \in Chat : Begins(c) => May(c)]_vars
  BY <1>1
<1>3. QED
  BY <1>2, Invariance, PTL DEF Spec, ChatsObeyTheParent

\* The mode of permission never changes under work of any kind
\* (runtime._permission_set_mode).
THEOREM PermissionsAlwaysStand == Spec => PermissionsStandDuringWork
<1> DEFINE Idle == ~Active /\ ~sub /\ \A c \in Chat : ~Working(c)
<1>1. ASSUME IInv, [Next]_vars, mode' # mode
      PROVE  Idle
  <2>1. Next
    BY <1>1 DEF vars, settings
  <2>2. \E m \in Modes : SetMode(m)
    <3>1. /\ Finalized => mode' = mode
          /\ Spawns => mode' = mode
          /\ Crash => mode' = mode
      BY DEF Finalized, Spawns, Crash, settings
    <3>2. RunStep => mode' = mode
      BY <1>1, RunStepsGoOn DEF IInv, RunGoesOn, settings
    <3>3. StopStep => mode' = mode
      BY <1>1, StopStepsQuiet DEF Quiets
    <3>4. ASSUME NEW kind \in {"prompt", "execute"}, RunStart(kind)
          PROVE  mode' = mode
      BY <3>4 DEF RunStart, settings
    <3>5. ASSUME NEW x \in Askers, NEW answer \in {"yes", "no"}, Answer(x, answer)
          PROVE  mode' = mode
      BY <3>5 DEF Answer, settings
    <3>6. ASSUME NEW c \in Chat, ChatStep(c)
          PROVE  mode' = mode
      BY <1>1, <3>6, ChatStepsMove DEF IInv, ChatMoves, settings
    <3>7. BesideStep => \E m \in Modes : SetMode(m)
      BY <1>1 DEF BesideStep, Stopped, Replaced, HandedOff, CompactEnds, Handoff, Compact,
                  Recovers, SetPlan, Archive, settings
    <3>8. QED
      BY <1>1, <2>1, StepsAreKnown, <3>1, <3>2, <3>3, <3>4, <3>5, <3>6, <3>7
  <2>3. /\ ~Active /\ ~sub
        /\ \A c \in Chat : chat[c].status # "running"
    BY <2>2 DEF SetMode, Quiet
  <2>4. QED
    BY <1>1, <2>3 DEF IInv, ChatsFit, Belongs, ChatFits, Working
<1>2. IInv /\ [Next]_vars => [mode' # mode => Idle]_vars
  BY <1>1
<1>3. QED
  BY <1>2, Invariance, PTL DEF Spec, PermissionsStandDuringWork
=============================================================================
