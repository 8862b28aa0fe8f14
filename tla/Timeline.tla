------------------------------ MODULE Timeline ------------------------------
(***************************************************************************)
(* The timeline of the desktop window (renderer/timeline/timelineState.ts):*)
(* what a saved transcript looks like, and how the runtime's events change *)
(* it.  The events of one frame are reduced together: deltas of a message  *)
(* and partial results of a tool are gathered and written once at the end, *)
(* everything else takes effect in the order in which it came.             *)
(*                                                                         *)
(* A text is the number of its deltas; a result is absent, a partial one   *)
(* or the final one.  Revisions, times and attachments are left out.       *)
(***************************************************************************)
EXTENDS Integers, Sequences, SequencesExt

NoId == <<>>
NoPending == [texts |-> {}, results |-> {}]
EmptyTimeline ==
  [items |-> <<>>, active |-> NoId, compacting |-> NoId]

Card(kind, id, shows, status, text) ==
  [kind |-> kind, id |-> id, shows |-> shows, status |-> status, text |-> text,
   result |-> "none"]

\* What a card stands for in the transcript: an entry of run r
Entry(kind, r, n) == <<kind, r, n>>
ToolId(shows) == <<"tool", shows>>

IsToolActive(status) == status \in {"pending", "approval", "running"}

-----------------------------------------------------------------------------
(* Saved transcripts: entries [is, of, text, call, status] *)

Answered(messages, of) ==
  \E i \in DOMAIN messages : messages[i].is = "tool" /\ messages[i].of = of

\* A call without a result is not known to have run
IncompleteCall(messages, m) ==
  LET of == Entry("tool", m.of[2], m.of[3])
  IN  IF m.call /\ ~Answered(messages, of)
      THEN <<Card("tool", ToolId(of), of, "uncertain", 0)>> ELSE <<>>

SavedCards(messages, i) ==
  LET m == messages[i]
      Saved(kind, status) == Card(kind, <<"saved", i>>, m.of, status, m.text)
  IN  CASE m.is = "user" -> <<Saved("user", "saved")>>
        [] m.is = "assistant" ->
             (IF m.text > 0 THEN <<Saved("message", "saved")>> ELSE <<>>)
               \o IncompleteCall(messages, m)
        [] m.is = "tool" ->
             <<[Card("tool", ToolId(m.of), m.of, m.status, 0) EXCEPT !.result = "final"]>>
        [] m.is = "summary" -> <<Saved("compaction", "completed")>>

\* createTimelineStateFromMessages
FromMessages(messages) ==
  [EmptyTimeline EXCEPT
     !.items = FlattenSeq([i \in DOMAIN messages |-> SavedCards(messages, i)])]

-----------------------------------------------------------------------------
(* One batch of events.  b is the timeline and what is pending for its end *)

IndexOfId(items, id) == SelectInSeq(items, LAMBDA c : c.id = id)
Has(b, id) == IndexOfId(b.line.items, id) > 0
CardOf(b, id) == b.line.items[IndexOfId(b.line.items, id)]

Insert(b, card) ==
  [b EXCEPT !.line.items =
     IF Has(b, card.id) THEN ReplaceAt(@, IndexOfId(@, card.id), card)
     ELSE Append(@, card)]
Update(b, id, card) == [b EXCEPT !.line.items = ReplaceAt(@, IndexOfId(@, id), card)]

ForgetText(b, id) == [b EXCEPT !.pending.texts = {p \in @ : p.id # id}]
ForgetResult(b, id) == [b EXCEPT !.pending.results = @ \ {id}]

RunStarted(b, e) ==
  LET id == <<"user", e.run>>
  IN  IF e.text > 0 /\ ~Has(b, id)
      THEN Insert(b, Card("user", id, Entry("user", e.run, 0), "sent", 1)) ELSE b

\* Tools of the run that have no result yet: what they did is not known
RunEnded(b, e) ==
  LET Ends(c) == c.kind = "tool" /\ c.shows[2] = e.run /\ IsToolActive(c.status)
      ended == {b.line.items[i].id : i \in {j \in DOMAIN b.line.items : Ends(b.line.items[j])}}
  IN  [b EXCEPT !.line.items = [i \in DOMAIN @ |->
                   IF Ends(@[i]) THEN [@[i] EXCEPT !.status = "uncertain"] ELSE @[i]],
                !.line.active = NoId,
                !.pending.results = @ \ ended]

MessageStart(b, e) ==
  LET id == <<"live", e.run, e.n>>
  IN  [Insert(b, Card("message", id, Entry("assistant", e.run, e.n), "streaming", 0))
         EXCEPT !.line.active = id]

TextDelta(b, e) ==
  LET id == b.line.active
      old == {p \in b.pending.texts : p.id = id}
  IN  IF id = NoId THEN b
      ELSE [b EXCEPT !.pending.texts =
              (@ \ old) \cup {[id |-> id, n |-> 1 + IF old = {} THEN 0 ELSE (CHOOSE p \in old : TRUE).n]}]

\* The end of a message carries all of it: what is pending is superseded
MessageEnd(b, e) ==
  LET id == b.line.active
      c == [ForgetText(b, id) EXCEPT !.line.active = NoId]
  IN  IF id = NoId THEN b
      ELSE IF e.text = 0
      THEN [c EXCEPT !.line.items = SelectSeq(@, LAMBDA x : x.id # id)]
      ELSE Update(c, id, [CardOf(c, id) EXCEPT !.text = e.text, !.status = "ended"])

ToolShown(b, e, status) ==
  LET id == ToolId(Entry("tool", e.run, e.n))
      card == Card("tool", id, Entry("tool", e.run, e.n), status, 0)
  IN  Insert(b, IF Has(b, id) THEN [card EXCEPT !.result = CardOf(b, id).result] ELSE card)

ToolRunning(b, e) ==
  LET id == ToolId(Entry("tool", e.run, e.n))
  IN  IF Has(b, id) /\ IsToolActive(CardOf(b, id).status)
      THEN Update(b, id, [CardOf(b, id) EXCEPT !.status = "running"]) ELSE b

ToolUpdate(b, e) ==
  LET id == ToolId(Entry("tool", e.run, e.n))
  IN  IF Has(b, id) /\ IsToolActive(CardOf(b, id).status)
      THEN [b EXCEPT !.pending.results = @ \cup {id}] ELSE b

\* The final result is authoritative
ToolEnd(b, e) ==
  LET id == ToolId(Entry("tool", e.run, e.n))
      c == ForgetResult(b, id)
  IN  IF Has(b, id)
      THEN Update(c, id, [CardOf(b, id) EXCEPT !.status = e.status, !.result = "final"])
      ELSE c

ApprovalExpired(b, e) ==
  LET id == ToolId(Entry("tool", e.run, e.n))
  IN  IF Has(b, id)
      THEN Update(b, id, [CardOf(b, id) EXCEPT !.status = "timed_out", !.result = "final"])
      ELSE b

CompactionStart(b, e) ==
  LET id == <<"event", e.n>>
  IN  IF b.line.compacting # NoId THEN b
      ELSE [Insert(b, Card("compaction", id, Entry("summary", 0, e.n), "running", 0))
              EXCEPT !.line.compacting = id]
CompactionEnd(b, e) ==
  LET id == b.line.compacting
      c == [b EXCEPT !.line.compacting = NoId]
  IN  IF id = NoId THEN b
      ELSE IF ~Has(b, id) THEN c
      ELSE Update(c, id, [CardOf(b, id) EXCEPT !.status = e.status])

ReduceEvent(b, e) ==
  CASE e.type = "run.started" -> RunStarted(b, e)
    [] e.type = "run.ended" -> RunEnded(b, e)
    [] e.type = "message_start" -> MessageStart(b, e)
    [] e.type = "message_update" -> TextDelta(b, e)
    [] e.type = "message_end" -> MessageEnd(b, e)
    [] e.type = "tool_execution_start" -> ToolShown(b, e, "pending")
    [] e.type = "tool_execution_running" -> ToolRunning(b, e)
    [] e.type = "tool_execution_update" -> ToolUpdate(b, e)
    [] e.type = "tool_execution_end" -> ToolEnd(b, e)
    [] e.type = "approval.requested" -> ToolShown(b, e, "approval")
    [] e.type = "approval.expired" -> ApprovalExpired(b, e)
    [] e.type = "compaction_start" -> CompactionStart(b, e)
    [] e.type = "compaction_end" -> CompactionEnd(b, e)
    [] OTHER -> b

\* What was pending is written, unless its card has gone
Written(b, c) ==
  LET p == {q \in b.pending.texts : q.id = c.id}
      text == IF c.kind = "message" /\ p # {}
              THEN [c EXCEPT !.text = @ + (CHOOSE q \in p : TRUE).n] ELSE c
  IN  IF c.kind = "tool" /\ c.id \in b.pending.results
      THEN [c EXCEPT !.status = "running", !.result = "partial"] ELSE text

\* reduceRuntimeEventBatch
ReduceBatch(line, events) ==
  LET b == FoldLeft(ReduceEvent, [line |-> line, pending |-> NoPending], events)
  IN  [b.line EXCEPT !.items = [i \in DOMAIN @ |-> Written(b, @[i])]]

\* reduceRuntimeEvent, applied to one event after the other
ReduceEach(line, events) == FoldLeft(LAMBDA l, e : ReduceBatch(l, <<e>>), line, events)
=============================================================================
