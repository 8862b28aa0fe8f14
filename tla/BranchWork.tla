----------------------------- MODULE BranchWork -----------------------------
(***************************************************************************)
(* Work that is done beside and upon the active branch of a session: a     *)
(* prompt and its tools (core/agent_session.py), context compaction        *)
(* (core/compaction_orchestrator.py, session/compaction.py), read-only     *)
(* subagents (core/subagents.py) and what the user does meanwhile with     *)
(* /tree, /new, /clear and !commands.                                      *)
(*                                                                         *)
(* Python code between two awaits is one step.  The live transcript of the *)
(* agent and the branch in the SessionManager are two copies of one        *)
(* history, and most steps below change both.                              *)
(***************************************************************************)
EXTENDS SessionLog, SequencesExt

CONSTANTS
  Task,        \* subagent tasks
  Histories,   \* the files a session may be opened from, or fork
  Capacity,    \* bound: entries of each file
  Weight,      \* estimated tokens of a message, by type
  KeepRecent,  \* keep_recent_tokens
  MaxActive,   \* tasks of a branch that may be active at once
  MaxTurns,    \* model turns of a task
  MaxMoves,    \* bound: branch switches, new sessions, clears, openings
  MaxFaults    \* bound: failed writes, crashes and failed summaries

\* "broken" stands for both error and aborted
Stops == {"stop", "full", "overflow", "broken", "calls"}
Endings == {"completed", "failed", "cancelled", "timed_out"}
Active == {"queued", "running"}
Statuses == Active \cup Endings \cup {"uncertain"}

\* A message is its reason to stop, a compaction what its summary covers and
\* the first entry it keeps, a task record a task and its status
Says(stop, covers, first, task, status) ==
  [stop |-> stop, covers |-> covers, first |-> first, task |-> task,
   status |-> status]
Silent == Says(None, {}, None, None, None)
Bodies == [stop : Stops \cup {None}, covers : SUBSET EntryId,
           first : EntryId \cup {None}, task : Task \cup {None},
           status : Statuses \cup {None}]

\* The record of a task that ended is the last one of the task
RecordsEnd(entries) ==
  \A i, j \in DOMAIN entries :
    LET a == entries[i].body  b == entries[j].body IN
    i < j /\ a.task # None /\ a.task = b.task => a.status \in Active

\* A history is what this program left in a file, or the copy of its branch
ASSUME BodyAssumption == Body = Bodies /\ NoBody = Silent
ASSUME HistoryAssumption ==
  \A h \in Histories :
    /\ h \in [version : Versions, lines : Seq(Entry)]
    /\ Sound(h.lines) /\ RecordsEnd(h.lines)
    /\ LET f == Forked(Opened([NoFile(0) EXCEPT !.lines = h.lines])) IN
       /\ f \in Memory /\ f.leaf = ComputeLeafId(f.entries)
       /\ Sound(f.entries) /\ RecordsEnd(f.entries)
ASSUME BoundAssumption ==
  /\ {KeepRecent, MaxActive, MaxTurns, MaxMoves, MaxFaults} \subseteq Nat
  /\ Capacity \in Seq(Nat)
  /\ None \notin Task \cup Stops \cup Statuses

VARIABLES
  ctx,     \* the live transcript (agent.state.messages)
  turn,    \* what AgentSession is doing
  comp,    \* the compaction whose summary is being written
  live,    \* the subagent tasks of this process
  bash,    \* a !command is running
  moves, faults

vars == <<mem, disk, ctx, turn, comp, live, bash, moves, faults>>

-----------------------------------------------------------------------------
(* The context of a branch *)

Messages == {"user", "assistant", "toolResult", "bash"}
Item(e) == [id |-> e.id, type |-> e.type, stop |-> e.body.stop]
Items == [id : EntryId \cup {None}, type : Messages \cup {"compaction"},
          stop : Stops \cup {None}]

LastCompaction(b) == Max({0} \cup {i \in DOMAIN b : b[i].type = "compaction"})
PositionOf(b, id, default) ==
  IF id \in Ids(b) THEN IndexOf(b, id) ELSE default

\* build_session_context: the latest summary, what it kept, what came after
InContext(b) ==
  LET c == LastCompaction(b) IN
  {i \in DOMAIN b :
     /\ b[i].type \in Messages
     /\ c > 0 => i > c \/ i >= PositionOf(b, b[c].body.first, c)}

BuildContext(b) ==
  LET c == LastCompaction(b)
      shown == Picked(b, InContext(b))
      messages == [k \in DOMAIN shown |-> Item(shown[k])]
  IN IF c = 0 THEN messages ELSE <<Item(b[c])>> \o messages

ActiveBranch == Branch(mem.entries, mem.leaf)

-----------------------------------------------------------------------------
(* What a compaction summarises: the messages covered and the first entry  *)
(* kept, or nothing                                                        *)

Nothing == [some |-> FALSE, covers |-> {}, first |-> None]
Covering(covers, first) == [some |-> TRUE, covers |-> covers, first |-> first]

MessageIds(b, S) == {b[i].id : i \in {j \in S : b[j].type \in Messages}}
CoveredBefore(b) ==
  LET c == LastCompaction(b) IN IF c = 0 THEN {} ELSE b[c].body.covers

\* A kept region begins at one of these, never at a tool result
Cuts(b, start) ==
  {i \in start .. Len(b) : b[i].type \in {"user", "assistant"}}

\* find_cut_point: the first cut that keeps no more than the recent tokens
CutPoint(b, start) ==
  LET from[i \in 1 .. Len(b) + 1] ==
        IF i > Len(b) THEN 0
        ELSE from[i + 1] + IF b[i].type \in Messages THEN Weight[b[i].type] ELSE 0
      cuts == Cuts(b, start)
      full == {i \in start .. Len(b) : from[i] >= KeepRecent}
      after == {i \in cuts : i >= Max(full)}
  IN IF full = {} THEN Min(cuts)
     ELSE IF after = {} THEN Max(cuts) ELSE Min(after)

\* prepare_compaction: the history from where the previous compaction kept,
\* and the first half of a turn that is cut in two
Prepare(b) ==
  LET c == LastCompaction(b)
      start == IF c = 0 THEN 1 ELSE PositionOf(b, b[c].body.first, c + 1)
      cut == CutPoint(b, start)
      split == b[cut].type # "user"
      turnStart == Max({1} \cup {i \in 1 .. cut : b[i].type = "user"})
      history == start .. (IF split THEN turnStart ELSE cut) - 1
      prefix == IF split THEN turnStart .. cut - 1 ELSE {}
  IN IF b = <<>> \/ c = Len(b) \/ Cuts(b, start) = {} THEN Nothing
     ELSE IF MessageIds(b, history \cup prefix) = {} THEN Nothing
     ELSE Covering(CoveredBefore(b) \cup MessageIds(b, history \cup prefix),
                   b[cut].id)

\* context_pivot: the whole active context; the marker keeps nothing before it
PreparePivot(b) ==
  LET c == LastCompaction(b) IN
  IF InContext(b) = {} /\ c = 0 THEN Nothing
  ELSE Covering(CoveredBefore(b) \cup MessageIds(b, InContext(b)), None)

\* A summary speaks for a branch: it covers only what is there, keeps from an
\* entry of the branch on or nothing, every earlier message is covered, and
\* what is kept does not begin with the result of a tool whose call is gone
SummaryFits(summary, b) ==
  LET kept == PositionOf(b, summary.first, Len(b) + 1) IN
  /\ summary.covers \subseteq Ids(b) /\ summary.first \in Ids(b) \cup {None}
  /\ MessageIds(b, 1 .. kept - 1) \subseteq summary.covers
  /\ kept <= Len(b) => b[kept].type # "toolResult"

\* Summaries speak for what precedes them, and leaves are entries
SummariesFit(entries) ==
  \A i \in DOMAIN entries :
    entries[i].type = "compaction" =>
      SummaryFits(entries[i].body, Front(Branch(entries, entries[i].id)))
LeavesFit(entries) ==
  \A i \in DOMAIN entries : entries[i].type = "leaf" => entries[i].target # None

ASSUME SummaryAssumption ==
  \A h \in Histories :
    LET f == Forked(Opened([NoFile(0) EXCEPT !.lines = h.lines])) IN
    /\ SummariesFit(h.lines) /\ LeavesFit(h.lines)
    /\ SummariesFit(f.entries) /\ LeavesFit(f.entries)

-----------------------------------------------------------------------------
(* The parts and how they start                                            *)

Idle == [at |-> "idle", retried |-> FALSE, aborted |-> FALSE]
Turns == [at : {"idle", "model", "tools", "settling", "summary", "manual", "retry"},
          retried : BOOLEAN, aborted : BOOLEAN]

NoSummary == [on |-> FALSE, aborted |-> FALSE, leaf |-> None,
              covers |-> {}, first |-> None, retry |-> FALSE]
Summaries == [on : BOOLEAN, aborted : BOOLEAN, leaf : EntryId \cup {None},
              covers : SUBSET EntryId, first : EntryId \cup {None},
              retry : BOOLEAN]

NotLive == [status |-> None, file |-> 0, anchor |-> None, turns |-> 0,
            stopped |-> FALSE, done |-> TRUE]
LiveTasks == [status : Statuses \cup {None}, file : Nat,
              anchor : EntryId \cup {None}, turns : 0 .. MaxTurns,
              stopped : BOOLEAN, done : BOOLEAN]

FileOf(h) == [NoFile(1) EXCEPT !.header = "ok", !.version = h.version,
                               !.lines = h.lines, !.synced = 0 .. Len(h.lines)]

\* A session is opened from a file of either format, or forks one (a session
\* that is new forks an empty one)
Init ==
  /\ \E h \in Histories :
       \/ disk = FileOf(h) /\ mem = Opened(disk)
       \/ disk = NoFile(1) /\ mem = Forked(Opened(FileOf(h)))
  /\ ctx = BuildContext(ActiveBranch)
  /\ turn = Idle /\ comp = NoSummary /\ live = [t \in Task |-> NotLive]
  /\ bash = FALSE /\ moves = 0 /\ faults = 0

HasRoom == Room(mem.entries) /\ Len(mem.entries) < Capacity[disk.file]
Moves == moves < MaxMoves /\ moves' = moves + 1
Charge(ok) == /\ faults' = IF ok THEN faults ELSE faults + 1
              /\ faults' <= MaxFaults
Fails == faults < MaxFaults /\ faults' = faults + 1

\* A message enters the transcript, and the session if it can be written
Say(type, stop) ==
  /\ mem.open /\ HasRoom
  /\ \E o \in Appended(mem, disk, type, Says(stop, {}, None, None, None)) :
       /\ Becomes(o) /\ Charge(o.ok)
       /\ ctx' = Append(ctx, [id |-> IF o.ok THEN o.mem.leaf ELSE None,
                              type |-> type, stop |-> stop])

-----------------------------------------------------------------------------
(* Read-only subagents                                                     *)

Owns(t) ==
  /\ mem.open /\ live[t].file = disk.file
  /\ live[t].anchor \in Ids(ActiveBranch)
Unfinished(t) == live[t].status \in Active
HasActive == \E t \in Task : Owns(t) /\ Unfinished(t)
ActiveCount == Cardinality({t \in Task : Owns(t) /\ Unfinished(t)})

TaskBody(t, status) == Says(None, {}, None, t, status)

\* spawn, by the model's tool or by the user: the record of the task is on
\* the disk before the task exists
Spawn(t) ==
  /\ mem.open /\ HasRoom
  /\ live[t] = NotLive /\ \A i \in DOMAIN mem.entries : mem.entries[i].body.task # t
  /\ ~comp.on /\ ~mem.blocked /\ ActiveCount < MaxActive
  /\ \E o \in FlushedThenAppended(mem, disk, "task", TaskBody(t, "queued")) :
       /\ Becomes(o) /\ Charge(o.ok)
       /\ live' = IF ~o.ok THEN live
                  ELSE [live EXCEPT ![t] =
                          [NotLive EXCEPT !.status = "queued", !.done = FALSE,
                             !.file = disk.file, !.anchor = o.mem.leaf]]
  /\ UNCHANGED <<ctx, turn, comp, bash, moves>>

\* _record: what became of a task is appended if its branch is active; a
\* failed append makes it uncertain
Recorded(t, r) ==
  IF Owns(t)
  THEN /\ HasRoom
       /\ \E o \in Appended(mem, disk, "task", TaskBody(t, r.status)) :
            /\ Becomes(o) /\ Charge(o.ok)
            /\ live' = [live EXCEPT ![t] =
                          IF o.ok THEN r
                          ELSE [r EXCEPT !.status = "uncertain", !.stopped = TRUE]]
  ELSE live' = [live EXCEPT ![t] = r] /\ UNCHANGED <<mem, disk, faults>>

TaskStarts(t) ==
  /\ live[t].status = "queued" /\ ~live[t].stopped
  /\ Recorded(t, [live[t] EXCEPT !.status = "running"])
  /\ UNCHANGED <<ctx, turn, comp, bash, moves>>

\* A turn of a task whose branch was left stops it
TaskTurns(t) ==
  /\ live[t].status = "running" /\ ~live[t].stopped /\ live[t].turns < MaxTurns
  /\ IF Owns(t) THEN Recorded(t, [live[t] EXCEPT !.turns = @ + 1])
     ELSE /\ live' = [live EXCEPT ![t].stopped = TRUE]
          /\ UNCHANGED <<mem, disk, faults>>
  /\ UNCHANGED <<ctx, turn, comp, bash, moves>>

\* How a task may end: what was uncertain stays so, what was stopped is
\* cancelled, unless it runs out of time just then
EndsAs(r) ==
  LET stop == IF r.stopped THEN {"cancelled"} ELSE {} IN
  CASE r.status = "queued" -> {"cancelled"}
    [] r.status = "uncertain" -> {"uncertain", "timed_out"} \cup stop
    [] r.status \notin {"queued", "uncertain"} /\ r.stopped -> {"timed_out"} \cup stop
    [] OTHER -> {"completed", "failed", "timed_out"}

TaskEnds(t) ==
  /\ ~live[t].done /\ (live[t].status = "queued" => live[t].stopped)
  /\ \E status \in EndsAs(live[t]) :
       Recorded(t, [live[t] EXCEPT !.status = status, !.done = TRUE])
  /\ UNCHANGED <<ctx, turn, comp, bash, moves>>

\* Mutant: cancelling a task that has just ended records it as cancelled
CancelRecords(t) ==
  /\ Owns(t) /\ ~live[t].stopped
  /\ IF live[t].done
     THEN Recorded(t, [live[t] EXCEPT !.status = "cancelled", !.stopped = TRUE])
     ELSE /\ live' = [live EXCEPT ![t].stopped = TRUE]
          /\ UNCHANGED <<mem, disk, faults>>
  /\ UNCHANGED <<ctx, turn, comp, bash, moves>>

CancelTask(t) ==
  /\ Owns(t) /\ Unfinished(t) /\ ~live[t].stopped
  /\ live' = [live EXCEPT ![t].stopped = TRUE]
  /\ UNCHANGED <<mem, disk, ctx, turn, comp, bash, moves, faults>>

\* Tasks of a branch that is no longer active are cancelled
Reconciled(file, branch) ==
  live' = [t \in Task |->
             IF ~live[t].done /\ ~(live[t].file = file /\ live[t].anchor \in Ids(branch))
             THEN [live[t] EXCEPT !.stopped = TRUE] ELSE live[t]]

-----------------------------------------------------------------------------
(* A prompt and its tools                                                  *)

Prompt ==
  /\ turn = Idle /\ ~mem.blocked
  /\ Say("user", None)
  /\ turn' = [Idle EXCEPT !.at = "model"]
  /\ UNCHANGED <<comp, live, bash, moves>>

\* The model answers, with tool calls or for good
Reply(stop) ==
  /\ turn.at = "model"
  /\ Say("assistant", stop)
  /\ turn' = [turn EXCEPT !.at = IF stop = "calls" THEN "tools" ELSE "settling"]
  /\ UNCHANGED <<comp, live, bash, moves>>

\* The results of a turn's tools reach transcript and session together
ToolResults ==
  /\ turn.at = "tools"
  /\ Say("toolResult", None)
  /\ turn' = [turn EXCEPT !.at = "model"]
  /\ UNCHANGED <<comp, live, bash, moves>>

\* The user stops the run: a summary being written, the model, the tasks
Abort ==
  /\ mem.open /\ turn.at # "idle" /\ ~turn.aborted
  /\ turn' = [turn EXCEPT !.aborted = TRUE]
  /\ comp' = IF comp.on THEN [comp EXCEPT !.aborted = TRUE] ELSE comp
  /\ live' = [t \in Task |-> IF live[t].done THEN live[t]
                             ELSE [live[t] EXCEPT !.stopped = TRUE]]
  /\ UNCHANGED <<mem, disk, ctx, bash, moves, faults>>

-----------------------------------------------------------------------------
(* Compaction: a summary is asked for, the conversation may go on in some   *)
(* respects, and the answer is applied if it still fits                     *)

Summarising(p, retry) ==
  [NoSummary EXCEPT !.on = TRUE, !.leaf = mem.leaf, !.covers = p.covers,
                    !.first = p.first, !.retry = retry]

\* check_compaction, which active subagents put off: a context that was too
\* long loses its last answer and is summarised for another attempt; one that
\* is nearly full is summarised
Settles(outcome) ==
  /\ turn.at = "settling"
  /\ LET last == ctx[Len(ctx)]
         asks == ~turn.retried /\ ~HasActive /\ ctx # <<>> /\ last.type = "assistant"
         overflow == asks /\ last.stop = "overflow"
         full == /\ asks
                 /\ \/ last.stop = "full"
                    \/ last.stop = "broken" /\ outcome = "full"
         p == Prepare(ActiveBranch)
     IN /\ outcome = "full" => full
        /\ ctx' = IF overflow THEN Front(ctx) ELSE ctx
        /\ IF (overflow \/ full) /\ p.some
           THEN comp' = Summarising(p, overflow)
                /\ turn' = [Idle EXCEPT !.at = "summary"]
           ELSE comp' = comp /\ turn' = Idle
  /\ UNCHANGED <<mem, disk, live, bash, moves, faults>>

\* /compact, or a pivot to the next phase
Compact(p) ==
  /\ mem.open /\ turn = Idle /\ ~mem.blocked /\ ~HasActive
  /\ p.some
  /\ comp' = Summarising(p, FALSE)
  /\ turn' = [Idle EXCEPT !.at = "manual"] /\ Moves
  /\ UNCHANGED <<mem, disk, ctx, live, bash, faults>>

\* What follows a summary that was applied or given up
Resumes(performed) ==
  IF performed /\ comp.retry THEN [Idle EXCEPT !.at = "retry", !.retried = TRUE]
  ELSE Idle

\* Mutant: the summary is applied whatever branch is active by now
AppliesAnywhere ==
  /\ comp.on /\ ~comp.aborted /\ HasRoom
  /\ LET body == Says(None, comp.covers, comp.first, None, None) IN
     \E o \in FlushedThenAppended(mem, disk, "compaction", body) :
       /\ Becomes(o) /\ Charge(o.ok)
       /\ ctx' = IF o.ok THEN BuildContext(Branch(o.mem.entries, o.mem.leaf)) ELSE ctx
       /\ turn' = Resumes(o.ok)
  /\ comp' = NoSummary /\ UNCHANGED <<live, bash, moves>>

\* Mutant: the transcript keeps what was summarised
AppliesQuietly ==
  /\ comp.on /\ ~comp.aborted /\ mem.leaf = comp.leaf /\ HasRoom
  /\ LET body == Says(None, comp.covers, comp.first, None, None) IN
     \E o \in FlushedThenAppended(mem, disk, "compaction", body) :
       Becomes(o) /\ Charge(o.ok) /\ turn' = Resumes(o.ok)
  /\ comp' = NoSummary /\ UNCHANGED <<ctx, live, bash, moves>>

\* The summary arrives: the buffer is flushed, the summary appended, and the
\* transcript rebuilt from the branch
SummaryApplies ==
  /\ comp.on /\ ~comp.aborted /\ mem.leaf = comp.leaf /\ HasRoom
  /\ LET body == Says(None, comp.covers, comp.first, None, None) IN
     \E o \in FlushedThenAppended(mem, disk, "compaction", body) :
       /\ Becomes(o) /\ Charge(o.ok)
       /\ ctx' = IF o.ok THEN BuildContext(Branch(o.mem.entries, o.mem.leaf)) ELSE ctx
       /\ turn' = Resumes(o.ok)
  /\ comp' = NoSummary /\ UNCHANGED <<live, bash, moves>>

\* It is discarded if the branch changed or the user stopped it; it may also
\* fail, be empty or not come in time
SummaryIsLost ==
  /\ comp.on
  /\ IF comp.aborted \/ mem.leaf # comp.leaf THEN UNCHANGED faults ELSE Fails
  /\ comp' = NoSummary /\ turn' = Idle
  /\ UNCHANGED <<mem, disk, ctx, live, bash, moves>>

\* The request whose answer did not fit is made again, once
Retry ==
  /\ turn.at = "retry"
  /\ Say("user", None)
  /\ turn' = [turn EXCEPT !.at = "model"]
  /\ UNCHANGED <<comp, live, bash, moves>>

-----------------------------------------------------------------------------
(* What the user does beside the conversation                              *)

\* A !command runs beside everything else; its result enters the transcript
\* and the session that are current when it ends
BashStarts ==
  /\ mem.open /\ ~bash /\ ~mem.blocked /\ turn.at \in {"idle", "manual"}
  /\ bash' = TRUE /\ Moves
  /\ UNCHANGED <<mem, disk, ctx, turn, comp, live, faults>>

BashEnds ==
  /\ bash /\ bash' = FALSE
  /\ Say("bash", None)
  /\ UNCHANGED <<turn, comp, live, moves>>

\* A setting, or a Plan event: a durable one also ends a damaged state
Records(type) ==
  /\ mem.open /\ HasRoom /\ type \in {"settings", "plan"}
  /\ type = "settings" => ~mem.blocked
  /\ \E o \in Appended(mem, disk, type, Silent) :
       /\ mem' = IF o.ok /\ type = "plan" THEN [o.mem EXCEPT !.blocked = FALSE]
                 ELSE o.mem
       /\ disk' = o.disk /\ Charge(o.ok)
  /\ Moves /\ UNCHANGED <<ctx, turn, comp, live, bash>>

\* /tree, possibly while a /compact runs: another leaf becomes active, the
\* transcript follows it and the tasks of the branch that is left are stopped
Tree(id) ==
  /\ mem.open /\ turn.at \in {"idle", "manual"} /\ HasRoom
  /\ id \in Ids(mem.entries)
  /\ \E o \in LeafSet(mem, disk, id) :
       LET branch == Branch(o.mem.entries, o.mem.leaf) IN
       /\ Becomes(o) /\ Charge(o.ok)
       /\ IF o.ok THEN ctx' = BuildContext(branch) /\ Reconciled(disk.file, branch)
          ELSE UNCHANGED <<ctx, live>>
  /\ Moves /\ UNCHANGED <<turn, comp, bash>>

Clear ==
  /\ mem.open /\ turn.at \in {"idle", "manual"} /\ ctx # <<>>
  /\ ctx' = <<>> /\ Moves
  /\ UNCHANGED <<mem, disk, turn, comp, live, bash, faults>>

\* new_session: what was said is written before the session is left
NewSession ==
  /\ mem.open /\ turn = Idle /\ mem.entries # <<>>
  /\ disk.file + 1 \in DOMAIN Capacity
  /\ \E f \in Flushed(mem, disk) :
       /\ Charge(f.ok)
       /\ IF f.ok THEN /\ mem' = Created /\ disk' = NoFile(disk.file + 1)
                       /\ ctx' = <<>> /\ Reconciled(disk.file + 1, <<>>)
          ELSE Becomes(f) /\ UNCHANGED <<ctx, live>>
  /\ Moves /\ UNCHANGED <<turn, comp, bash>>

-----------------------------------------------------------------------------
(* The process dies, and another one opens what is left                    *)

Forgotten ==
  /\ ctx' = <<>> /\ turn' = Idle /\ comp' = NoSummary /\ bash' = FALSE
  /\ live' = [t \in Task |-> NotLive]

\* What the process may be writing
Writing ==
  {<<"task", TaskBody(t, "running")>> : t \in {u \in Task : Owns(u) /\ Unfinished(u)}}
    \cup
  CASE turn.at = "model" -> {<<"assistant", Says("stop", {}, None, None, None)>>}
    [] turn.at = "tools" -> {<<"toolResult", Silent>>}
    [] comp.on /\ comp.leaf = mem.leaf ->
         {<<"compaction", Says(None, comp.covers, comp.first, None, None)>>}
    [] OTHER -> {<<"user", Silent>>, <<"plan", Silent>>}

Crash ==
  /\ \/ Die
     \/ \E w \in Writing : DieWriting(w[1], w[2])
     \/ mem.open /\ LosePower
  /\ Forgotten /\ Fails /\ UNCHANGED moves

Reopen ==
  /\ Open \/ (~mem.open /\ disk.header # "ok" /\ Create
               /\ disk.file + 1 \in DOMAIN Capacity)
  /\ ctx' = BuildContext(Branch(mem'.entries, mem'.leaf))
  /\ Moves /\ UNCHANGED <<turn, comp, live, bash, faults>>

-----------------------------------------------------------------------------
Next ==
  \/ Prompt \/ ToolResults \/ Abort \/ Retry
  \/ \E stop \in Stops : Reply(stop)
  \/ \E outcome \in {"full", "fits"} : Settles(outcome)
  \/ Compact(Prepare(ActiveBranch)) \/ Compact(PreparePivot(ActiveBranch))
  \/ SummaryApplies \/ SummaryIsLost
  \/ \E t \in Task : Spawn(t) \/ TaskStarts(t) \/ TaskTurns(t) \/ TaskEnds(t)
                     \/ CancelTask(t)
  \/ BashStarts \/ BashEnds
  \/ \E type \in {"settings", "plan"} : Records(type)
  \/ \E id \in EntryId : Tree(id)
  \/ Clear \/ NewSession \/ Crash \/ Reopen

Spec == Init /\ [][Next]_vars

-----------------------------------------------------------------------------
(* Properties                                                              *)

TypeOK ==
  /\ LogTypeOK
  /\ ctx \in Seq(Items) /\ turn \in Turns /\ comp \in Summaries
  /\ live \in [Task -> LiveTasks] /\ bash \in BOOLEAN
  /\ moves \in 0 .. MaxMoves /\ faults \in 0 .. MaxFaults

\* A summary speaks for the branch it is on: it covers only what precedes it
\* there, every earlier message is covered or kept, and what is kept does not
\* begin with the result of a tool whose call is gone (_perform_compaction,
\* prepare_compaction)
SummariesFitTheirBranch == SummariesFit(mem.entries)

\* The model never sees what is not on the active branch, nor in another
\* order, nor what a summary replaced: the transcript without the messages
\* that could not be written is part of the branch's context (load_messages
\* after a compaction, /tree, /new, opening)
LiveContextIsBranch ==
  LET context == BuildContext(ActiveBranch)
      written == {i \in DOMAIN ctx : ctx[i].id # None}
      Place(i) == CHOOSE k \in DOMAIN context : context[k] = ctx[i]
  IN mem.open =>
       /\ \A i \in written : ctx[i] \in Range(context)
       /\ \A i, j \in written : i < j => Place(i) < Place(j)

\* A task that exists is on the disk, so that a loss of power cannot leave it
\* unaccounted for (spawn: durable ownership precedes launch)
LaunchedTasksAreRecorded ==
  \A t \in Task :
    live[t] # NotLive /\ live[t].file = disk.file =>
      \E j \in disk.synced \ {0} :
        j <= Len(disk.lines) /\ disk.lines[j].id = live[t].anchor

\* The record that ends a task is its last one, whatever cancels it, leaves
\* its branch or fails to be written meanwhile (_drive, cancel, _task_done)
EndedTasksStayEnded == RecordsEnd(mem.entries)

\* agent.py: "tool results land right after their corresponding tool_calls"
ResultsFollowTheirCalls ==
  \A i \in DOMAIN ctx :
    ctx[i].type = "toolResult" =>
      i > 1 /\ ctx[i - 1].type = "assistant" /\ ctx[i - 1].stop = "calls"

\* "Resume a partially flushed buffer without losing or duplicating entries":
\* a session can always be written once the disk works again
WritesAreNeverLockedOut ==
  mem.open /\ ~mem.flushed => disk.header = "absent"
=============================================================================
