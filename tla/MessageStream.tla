----------------------------- MODULE MessageStream -----------------------------
(***************************************************************************)
(* What a stream of assistant message events promises its reader           *)
(* (agent_llm/types.py, the contract above StartEvent): blocks appear one  *)
(* after the other once the message has started, each grows by deltas at   *)
(* its index, a tool call ends once and does not change after that, and    *)
(* exactly one terminal event closes the stream, after all of these.       *)
(*                                                                         *)
(* The reader's notes are rebuilt from the events alone, never from the    *)
(* message object the events share.                                        *)
(***************************************************************************)
EXTENDS Naturals, Sequences

CONSTANTS
  Kinds,  \* the kinds of block: "text", "thinking", "call"
  None

VARIABLE seen  \* the reader's notes: how many events, the phase, the blocks,
               \* the last event

Note(heard, phase, blocks, end) ==
  [heard |-> heard, phase |-> phase, blocks |-> blocks, end |-> end]
Fresh(kind) == [kind |-> kind, got |-> <<>>, ended |-> FALSE]

Init == seen = Note(0, "waiting", <<>>, None)

Begins ==
  /\ seen.phase = "waiting"
  /\ seen' = [seen EXCEPT !.heard = @ + 1, !.phase = "started"]

BlockStarts(kind) ==
  /\ seen.phase = "started"
  /\ seen' = [seen EXCEPT !.heard = @ + 1, !.blocks = Append(@, Fresh(kind))]

Grows(k) ==
  /\ seen.phase = "started" /\ ~seen.blocks[k].ended
  /\ LET got == seen'.blocks[k].got
     IN  /\ Len(got) = Len(seen.blocks[k].got) + 1
         /\ SubSeq(got, 1, Len(got) - 1) = seen.blocks[k].got
         /\ seen' = [seen EXCEPT !.heard = @ + 1, !.blocks[k].got = got]

\* The end of a call brings the whole call.
CallEnds(k) ==
  /\ seen.phase = "started"
  /\ seen.blocks[k].kind = "call" /\ ~seen.blocks[k].ended
  /\ seen' = [seen EXCEPT !.heard = @ + 1, !.blocks[k] =
                [@ EXCEPT !.got = seen'.blocks[k].got, !.ended = TRUE]]

\* A message that is done has every block the reader was told of, its calls
\* ended and as they were told.
Done ==
  LET message == seen'.end.message
  IN  /\ Len(message) = Len(seen.blocks)
      /\ \A k \in DOMAIN seen.blocks :
           seen.blocks[k].kind = "call" =>
             seen.blocks[k].ended /\ message[k].got = seen.blocks[k].got

Ends ==
  /\ seen.phase = "started"
  /\ seen' = Note(seen.heard + 1, "ended", seen.blocks, seen'.end)
  /\ seen'.end # None
  /\ seen'.end.type = "done" => Done

Next ==
  \/ Begins
  \/ \E kind \in Kinds : BlockStarts(kind)
  \/ \E k \in DOMAIN seen.blocks : Grows(k) \/ CallEnds(k)
  \/ Ends

Spec == Init /\ [][Next]_seen
=============================================================================
