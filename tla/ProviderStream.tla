---------------------------- MODULE ProviderStream ----------------------------
(***************************************************************************)
(* One request to a model: the provider's stream, which turns what the     *)
(* server sends into a message and its events (llm/api/                    *)
(* openai_completions.py, llm/api/deepseek_responses.py), the lazy stream  *)
(* that resolves the credentials first and passes the events on            *)
(* (llm/event_stream.py, llm/models.py), and the reader, which may close   *)
(* the stream at any time (the loop of the Agent, through retry.py).       *)
(*                                                                         *)
(* A piece of what the server says is <<item, n>>; <<item, 0>> are the     *)
(* sources appended to a text.  One event of the server carries one piece: *)
(* a chunk with several is several such steps nobody reads between.        *)
(***************************************************************************)
EXTENDS Naturals, Sequences, FiniteSets, SequencesExt

CONSTANTS
  Texts, Thoughts, Calls,  \* what the server may say, by kind
  Apis,                    \* "completions", "responses"
  Pieces,                  \* bound: how many pieces each item may have
  MaxLag,                  \* bound: events not read yet when the server goes on
  None

Items == Texts \cup Thoughts \cup Calls
KindOf(i) == IF i \in Calls THEN "call"
             ELSE IF i \in Texts THEN "text" ELSE "thinking"

ASSUME StreamAssumption ==
  /\ \A s, t \in {Texts, Thoughts, Calls} : s # t => s \cap t = {}
  /\ Apis \subseteq {"completions", "responses"}
  /\ Pieces \in [Items -> Nat \ {0}] /\ MaxLag \in Nat
  /\ None \notin Items

VARIABLES
  api,     \* the provider's protocol
  server,  \* the items begun in order, the pieces said of each, and the items
           \* whose deltas it leaves out
  reply,   \* the message under construction: its blocks, whether it started
  inner,   \* the provider's stream: queue, whether it is done, its producer
  outer,   \* the lazy stream: queue, done, its driver, its result
  seen,    \* what the reader has been told
  reader   \* "reading", "finished", "closing", "closed"

vars == <<api, server, reply, inner, outer, seen, reader>>

M == INSTANCE MessageStream WITH Kinds <- {"text", "thinking", "call"}

-----------------------------------------------------------------------------
(* Events and messages                                                     *)

Event(type, at, of) == [type |-> type, at |-> at, of |-> of]
Terminal(e) == e.type \in {"done", "error"}
EndOfQueue == Event("end", 0, None)   \* the None sentinel of end()

Ending(type, reason, message) ==
  Event(type, 0, [type |-> type, reason |-> reason, message |-> message])
Failure == Ending("error", "error", <<>>)

Block(i) == [item |-> i, kind |-> KindOf(i), got |-> <<>>, ended |-> FALSE]
Has(blocks, i) == \E k \in DOMAIN blocks : blocks[k].item = i
At(blocks, i) == CHOOSE k \in DOMAIN blocks : blocks[k].item = i

\* All that the server has said of an item
Said(i) == [n \in 1..server.said[i] |-> <<i, n>>]
Begun == Range(server.begun)

\* EventStream.push: nothing after the terminal event
Push(stream, events) == IF stream.done THEN stream
  ELSE [stream EXCEPT !.queue = @ \o events,
                      !.done = \E k \in DOMAIN events : Terminal(events[k])]

-----------------------------------------------------------------------------
(* The message under construction: each operator gives the new reply and   *)
(* the events pushed for it                                                *)

Step(r, events) == [reply |-> r, events |-> events]
Then(s, t) == Step(t.reply, s.events \o t.events)

\* Mutant: the message starts with its first text only.
OpenWithoutStart(r, i) ==
  IF Has(r.blocks, i) THEN Step(r, <<>>)
  ELSE Step([blocks |-> Append(r.blocks, Block(i)), started |-> TRUE],
            (IF r.started \/ i \in Calls THEN <<>> ELSE <<Event("start", 0, None)>>)
              \o <<Event("block", Len(r.blocks) + 1, KindOf(i))>>)

\* get_or_create_text, get_or_create_thinking, ensure_tool_call; text,
\* thinking, tool: the block of a key, with its start events when it is new.
Open(r, i) ==
  IF Has(r.blocks, i) THEN Step(r, <<>>)
  ELSE Step([blocks |-> Append(r.blocks, Block(i)), started |-> TRUE],
            (IF r.started THEN <<>> ELSE <<Event("start", 0, None)>>)
              \o <<Event("block", Len(r.blocks) + 1, KindOf(i))>>)

\* At the index of its block.  The code finds it by equality (list.index), which
\* could only take one block for another of the same kind, id and content.
Delta(r, i, piece) ==
  LET o == Open(r, i)
      k == At(o.reply.blocks, i)
  IN  Then(o, Step([o.reply EXCEPT !.blocks[k].got = Append(@, piece)],
                   <<Event("delta", k, piece)>>))

\* finish_tool
Finish(r, i, arguments) ==
  LET o == Open(r, i)
      k == At(o.reply.blocks, i)
      done == [o.reply EXCEPT !.blocks[k] =
                 [@ EXCEPT !.got = arguments, !.ended = TRUE]]
  IN  IF o.reply.blocks[k].ended THEN Step(r, <<>>)
      ELSE Then(o, Step(done, <<Event("call_end", k, arguments)>>))

\* finish_blocks, finish_all_tools: every call, in the order of the blocks
FinishAll(r) ==
  LET calls == SelectSeq(r.blocks, LAMBDA b : b.item \in Calls)
      end(s, b) == Then(s, Finish(s.reply, b.item, b.got))
  IN  FoldLeft(end, Step(r, <<>>), calls)

\* Mutant: the complete text is appended to what the deltas brought.
RecoverText(r, i) ==
  LET o == Open(r, i)
      k == At(o.reply.blocks, i)
  IN  Step([o.reply EXCEPT !.blocks[k].got = @ \o Said(i)], o.events)

\* hydrate_response on one item: a block that is empty is filled in, a call
\* takes its complete arguments.
Recover(r, i) ==
  LET o == Open(r, i)
      k == At(o.reply.blocks, i)
      fills == i \in Calls \/ o.reply.blocks[k].got = <<>>
  IN  Step([o.reply EXCEPT !.blocks[k].got = IF fills THEN Said(i) ELSE @],
           o.events)

\* hydrate_response: the items of the response in their order, each text with
\* its sources when they are not in it yet
Hydrate(r, cited) ==
  LET cite(s, i) == IF i \in cited THEN Then(s, Delta(s.reply, i, <<i, 0>>)) ELSE s
      recover(s, i) == cite(Then(s, Recover(s.reply, i)), i)
  IN  FoldLeft(recover, Step(r, <<>>), server.begun)

-----------------------------------------------------------------------------
Streaming ==
  /\ inner.producer = "streaming"
  /\ Len(inner.queue) + Len(outer.queue) <= MaxLag

\* The producer goes on with s; ending is its last event or nothing.
Produces(s, ending) ==
  /\ reply' = s.reply
  /\ inner' = [Push(inner, s.events \o ending) EXCEPT
                 !.producer = IF ending = <<>> THEN @ ELSE "ended"]
  /\ UNCHANGED <<api, outer, seen, reader>>

\* The server says the next piece of an item; a call begins with an event of
\* its own that names it.
Says(i) ==
  /\ server.said[i] < Pieces[i] /\ i \notin server.closed
  /\ i \in Calls => i \in Begun
  /\ server' = [server EXCEPT
                  !.said[i] = @ + 1,
                  !.begun = IF i \in Begun THEN @ ELSE Append(@, i)]

Piece(i) == <<i, server.said[i] + 1>>

\* A call begins: its first fragment, or response.output_item.added.
CallBegins(i) ==
  /\ Streaming /\ i \notin Begun
  /\ server' = [server EXCEPT !.begun = Append(@, i)]
  /\ Produces(Open(reply, i), <<>>)

\* A piece arrives: content, reasoning_content or an argument fragment of a
\* chunk, or a delta event.
PieceArrives(i) ==
  /\ Streaming /\ i \notin server.silent
  /\ Says(i)
  /\ Produces(Delta(reply, i, Piece(i)), <<>>)

\* The Responses endpoint says something without a delta.
PieceLeftOut(i) ==
  /\ Streaming /\ api = "responses"
  /\ i \in server.silent \cup Calls
  /\ Says(i)
  /\ UNCHANGED <<api, reply, inner, outer, seen, reader>>

\* response.function_call_arguments.done
CallDone(i) ==
  /\ Streaming /\ api = "responses"
  /\ i \in Begun \ server.closed
  /\ server' = [server EXCEPT !.closed = @ \cup {i}]
  /\ Produces(Finish(reply, i, Said(i)), <<>>)

\* map_stop_reason, with the reasons that stand for an error taken for "stop"
\* as the event of a message that is done does
Reasons == {"stop", "length", "tool_use"}

\* The chunks end: the calls are finished and the message is done.
ChunksEnd ==
  /\ Streaming /\ api = "completions"
  /\ \E reason \in Reasons :
       LET s == FinishAll(reply)
       IN  Produces(s, <<Ending("done", reason, s.reply.blocks)>>)
  /\ UNCHANGED server

\* response.completed and response.incomplete carry the complete response.
Completes ==
  /\ Streaming /\ api = "responses"
  /\ \E cited \in SUBSET (Texts \cap Begun) : \E cut \in BOOLEAN :
       LET h == Hydrate(reply, cited)
           s == Then(h, FinishAll(h.reply))
           reason == IF cut THEN "length"
                     ELSE IF Begun \cap Calls # {} THEN "tool_use" ELSE "stop"
       IN  Produces(s, <<Ending("done", reason, s.reply.blocks)>>)
  /\ UNCHANGED server

\* response.failed: what the response brings is taken, then it is an error.
ResponseFails ==
  /\ Streaming /\ api = "responses"
  /\ \E cited \in SUBSET (Texts \cap Begun) :
       LET s == Hydrate(reply, cited)
       IN  Produces(s, <<Ending("error", "error", s.reply.blocks)>>)
  /\ UNCHANGED server

\* Mutant: what the connection raises ends the producer only.
BreaksQuietly ==
  /\ Streaming
  /\ inner' = [inner EXCEPT !.producer = "ended"]
  /\ UNCHANGED <<api, server, reply, outer, seen, reader>>

\* The request or the connection fails, the server reports an error, or a
\* response ends without its last event.
Breaks ==
  /\ Streaming
  /\ Produces(Step(reply, <<>>), <<Ending("error", "error", reply.blocks)>>)
  /\ UNCHANGED server

-----------------------------------------------------------------------------
(* The lazy stream                                                         *)

\* outer.end()
EndOuter(o, result) ==
  [o EXCEPT !.queue = Append(@, EndOfQueue), !.done = TRUE, !.driver = "ended",
            !.result = IF @ = None THEN result ELSE @]

\* The credentials are resolved and the provider's stream is made; the
\* completions provider ends at once when it has no key.
SetupEnds(key) ==
  /\ outer.driver = "setup" /\ reader # "closing"
  /\ outer' = [outer EXCEPT !.driver = "passing"]
  /\ inner' = IF key THEN [inner EXCEPT !.producer = "streaming"]
              ELSE [queue |-> <<Failure, EndOfQueue>>, done |-> TRUE, producer |-> "ended"]
  /\ UNCHANGED <<api, server, reply, seen, reader>>

SetupFails ==
  /\ outer.driver = "setup" /\ reader # "closing"
  /\ outer' = EndOuter(Push(outer, <<Failure>>), Failure.of)
  /\ UNCHANGED <<api, server, reply, inner, seen, reader>>

\* The driver passes on all there is, without a pause; the terminal event
\* settles the result, and the end of the provider's stream is its own.
Passes ==
  LET events == SelectSeq(inner.queue, LAMBDA e : e # EndOfQueue)
      o == Push(outer, events)
      ends == SelectSeq(events, Terminal)
  IN  /\ outer.driver = "passing" /\ reader # "closing"
      /\ inner.queue # <<>>
      /\ inner' = [inner EXCEPT !.queue = <<>>]
      /\ outer' = IF inner.done
                  THEN EndOuter(o, IF ends = <<>> THEN None ELSE Head(ends).of)
                  ELSE o
      /\ UNCHANGED <<api, server, reply, seen, reader>>

-----------------------------------------------------------------------------
(* The reader                                                              *)

\* What the notes become with an event
Told(e) ==
  LET heard == [seen EXCEPT !.heard = @ + 1]
  IN  CASE e.type = "start" -> [heard EXCEPT !.phase = "started"]
        [] e.type = "block" -> [heard EXCEPT !.blocks = Append(@, M!Fresh(e.of))]
        [] e.type = "delta" -> [heard EXCEPT !.blocks[e.at].got = Append(@, e.of)]
        [] e.type = "call_end" ->
             [heard EXCEPT !.blocks[e.at] = [@ EXCEPT !.got = e.of, !.ended = TRUE]]
        [] OTHER -> [heard EXCEPT !.phase = "ended", !.end = e.of]

Reads ==
  /\ reader = "reading" /\ outer.queue # <<>>
  /\ LET e == Head(outer.queue)
     IN  IF e = EndOfQueue THEN reader' = "finished" /\ UNCHANGED seen
         ELSE seen' = Told(e) /\ UNCHANGED reader
  /\ outer' = [outer EXCEPT !.queue = Tail(@)]
  /\ UNCHANGED <<api, server, reply, inner>>

\* aclose of the lazy stream: its driver is cancelled unless it has ended.
Closes ==
  /\ reader = "reading"
  /\ reader' = IF outer.done THEN "closed" ELSE "closing"
  /\ UNCHANGED <<api, server, reply, inner, outer, seen>>

\* The cancellation reaches the driver and the result is an aborted message.
\* The producer of the provider's stream goes on: the driver was given an
\* iterator of that stream, not the stream.
CancelArrives ==
  /\ reader = "closing"
  /\ reader' = "closed"
  /\ LET aborted == Ending("error", "aborted", <<>>)
     IN  outer' = [Push(outer, <<aborted>>) EXCEPT
                     !.driver = "cancelled", !.result = aborted.of]
  /\ UNCHANGED <<api, server, reply, inner, seen>>

-----------------------------------------------------------------------------
\* A Responses endpoint reports its texts and thoughts by deltas or not at all.
Silences == IF api = "responses" THEN {{}, Texts \cup Thoughts} ELSE {{}}

Init ==
  /\ api \in Apis
  /\ \E silent \in Silences :
       server = [begun |-> <<>>, said |-> [i \in Items |-> 0],
                 silent |-> silent, closed |-> {}]
  /\ reply = [blocks |-> <<>>, started |-> FALSE]
  /\ inner = [queue |-> <<>>, done |-> FALSE, producer |-> "none"]
  /\ outer = [queue |-> <<>>, done |-> FALSE, driver |-> "setup", result |-> None]
  /\ seen = M!Note(0, "waiting", <<>>, None)
  /\ reader = "reading"

Next ==
  \/ \E i \in Items : PieceArrives(i) \/ PieceLeftOut(i)
  \/ \E i \in Calls : CallBegins(i) \/ CallDone(i)
  \/ ChunksEnd \/ Completes \/ ResponseFails \/ Breaks
  \/ \E key \in BOOLEAN : SetupEnds(key)
  \/ SetupFails \/ Passes
  \/ Reads \/ Closes \/ CancelArrives

\* The event loop runs whoever is ready; neither the server nor the
\* credentials owe an answer.
Fairness == WF_vars(Passes) /\ WF_vars(Reads) /\ WF_vars(CancelArrives)

Spec == Init /\ [][Next]_vars
LiveSpec == Spec /\ Fairness

-----------------------------------------------------------------------------
(* Properties                                                              *)

\* A message that is done consists of one block for each thing the server
\* began, holding exactly what the server said of it, in its order, with the
\* sources behind a text at most once: fragments of several calls do not mix,
\* and what the complete response brings again is not there twice.
MessageIsWhatWasSent ==
  \A k \in DOMAIN inner.queue :
    inner.queue[k].type = "done" =>
      LET message == inner.queue[k].of.message
      IN  /\ Len(message) = Len(server.begun)
          /\ \A i \in Begun : \E b \in Range(message) :
               /\ b.item = i
               /\ b.got \in {Said(i), Append(Said(i), <<i, 0>>)}

\* The deltas tell a reader the whole text of a message that is done, unless
\* the server left them out.
DeltasTellTheMessage ==
  (seen.phase = "ended" /\ seen.end.type = "done") =>
    \A k \in DOMAIN seen.blocks :
      LET b == seen.end.message[k]
      IN  seen.blocks[k].got = b.got \/ b.item \in server.silent

\* A failure before anything was sent, and the end of an empty reply, are told
\* to the reader as they are, with no start before them.
EndsUnstarted ==
  /\ seen.phase = "waiting"
  /\ seen' = M!Note(seen.heard + 1, "ended", <<>>, seen'.end)
  /\ seen'.end.message = <<>>
  /\ seen'.end.type = "done" => server.begun = <<>>

\* The events the reader takes keep the contract of the stream but for one
\* clause: a stream that ends before it said anything ends without its start.
ImplementsProtocol == M!Init /\ [][M!Next \/ EndsUnstarted]_seen

\* Once the provider's stream has ended, or could not be made, or the reader
\* closes, the reader is released and the result is there, so that nobody
\* awaits result() for ever.
EveryReadEnds ==
  (inner.producer = "ended" \/ outer.driver = "ended" \/ reader = "closing")
    ~> (reader \in {"finished", "closed"} /\ outer.result # None)
=============================================================================
