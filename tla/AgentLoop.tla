------------------------------ MODULE AgentLoop ------------------------------
(***************************************************************************)
(* A run of the Agent (agent_core/agent.py, agent_core/agent_loop.py): it  *)
(* asks the model, through a stream that retries (core/retry.py,           *)
(* agent_llm/event_stream.py), executes the tools of the reply one by one  *)
(* or together, and asks again, while the user adds input, stops the run   *)
(* or the host cancels its task (desktop/runtime.py).                      *)
(*                                                                         *)
(* The subscribers of the application do not await, so what the loop emits *)
(* is delivered in the step that emits it; only the last event, agent_end, *)
(* is a step of its own.                                                   *)
(***************************************************************************)
EXTENDS Integers, Sequences, FiniteSets, Functions, SequencesExt

CONSTANTS
  Call,        \* the tool calls a reply may make
  Batches,     \* the sequences of calls a reply may make, one of them empty
  Modes,       \* how calls may be executed: "sequential", "parallel"
  QueueMode,   \* what a queue gives at once: "one" message or "all"
  MaxRetries,  \* RetryPolicy.max_retries
  MaxPrompts,  \* bound: runs
  MaxInputs,   \* bound: messages queued while a run is active
  MaxReplies,  \* bound: replies that call tools
  None

Stages == {"idle", "asking", "closing", "tools", "ending"}
\* A result that lets the run go on (an error too), ends it, or says that the
\* call was stopped
Outcomes == {"answered", "finished", "cancelled"}
Broken == {"error", "aborted"}

ASSUME LoopAssumption ==
  /\ Batches \subseteq Seq(Call) /\ <<>> \in Batches
  /\ \A b \in Batches : IsInjective(b)
  /\ Modes \subseteq {"sequential", "parallel"} /\ QueueMode \in {"one", "all"}
  /\ {MaxRetries, MaxPrompts, MaxInputs, MaxReplies} \subseteq Nat
  /\ None \notin Outcomes \cup Broken \cup {"stop", "completed", "failed", "done"}

VARIABLES
  run,         \* the active run: its stage, its abort signal, how it ends
  transcript,  \* agent.state.messages
  context,     \* the loop's own copy of it
  steering, followUp,   \* the queues
  stream,      \* the reply being received
  call,        \* the calls of the reply being executed
  prompts, inputs, replies

vars == <<run, transcript, context, steering, followUp, stream, call, prompts,
          inputs, replies>>

-----------------------------------------------------------------------------
(* Messages: user input by number (0 for a prompt), a reply with its calls *)
(* and why it stopped, the result of a call                                *)

Message(role, of, calls, stop) ==
  [role |-> role, of |-> of, calls |-> calls, stop |-> stop]
User(i) == Message("user", i, <<>>, None)
ReplyOf(visible, calls, stop) ==
  Message("assistant", IF visible THEN 1 ELSE 0, calls, stop)
ResultOf(c, outcome) == Message("result", c, <<>>, outcome)
Messages ==
  [role : {"user", "assistant", "result"}, of : 0 .. MaxInputs + 1 \cup Call,
   calls : Batches,
   stop : Outcomes \cup Broken \cup {None, "stop", "uncertain"}]

\* Mutant: only the calls of a whole reply are expected to have results
ExpectsOfWhole(m) == IF m.stop \in Broken THEN <<>> ELSE m.calls
\* The calls a message leaves open
Expects(m) == m.calls
Unanswered(open) == [i \in DOMAIN open |-> ResultOf(open[i], "uncertain")]

\* repair_incomplete_tool_calls: what the model is shown of a transcript. A
\* call that was not answered gets a result that says so
Without(open, c) == RemoveAt(open, CHOOSE i \in DOMAIN open : open[i] = c)
Shows(acc, m) ==
  IF m.role = "result"
  THEN IF m.of \in Range(acc.open)
       THEN [out |-> Append(acc.out, m), open |-> Without(acc.open, m.of)]
       ELSE acc
  ELSE LET closed == acc.out \o Unanswered(acc.open) IN
       IF m.stop \in Broken /\ m.of = 0
       THEN [out |-> closed, open |-> <<>>]
       ELSE [out |-> Append(closed, m), open |-> Expects(m)]
Repaired(messages) ==
  LET shown[n \in 0 .. Len(messages)] ==
        IF n = 0 THEN [out |-> <<>>, open |-> <<>>]
        ELSE Shows(shown[n - 1], messages[n])
      all == shown[Len(messages)]
  IN all.out \o Unanswered(all.open)

-----------------------------------------------------------------------------
NoRun == [at |-> "idle", signal |-> FALSE, cancelled |-> FALSE,
          accepting |-> FALSE, status |-> None, how |-> None, first |-> 0,
          batch |-> <<>>, together |-> FALSE]
Runs == [at : Stages, signal : BOOLEAN, cancelled : BOOLEAN, accepting : BOOLEAN,
         status : {None, "completed", "failed", "cancelled"},
         how : {None, "done", "finished", "aborted", "broken"},
         first : 0 .. MaxInputs, batch : Batches, together : BOOLEAN]

\* An attempt is open until something is said, or waits to be made again; the
\* reply is there when it ended
NoStream == [at |-> "off", attempt |-> 0, seen |-> {}, final |-> None]
Streams == [at : {"off", "open", "content", "backoff", "ended"},
            attempt : 0 .. MaxRetries, seen : SUBSET (0 .. MaxRetries),
            final : Messages \cup {None}]
Opens == [NoStream EXCEPT !.at = "open"]

NoCall == [at |-> "off", outcome |-> None]
Calls == [at : {"off", "waiting", "asked", "ready", "running", "done"},
          outcome : Outcomes \cup {None}]
NoCalls == [c \in Call |-> NoCall]

Init ==
  /\ run = NoRun /\ transcript = <<>> /\ context = <<>>
  /\ steering = <<>> /\ followUp = <<>>
  /\ stream = NoStream /\ call = NoCalls
  /\ prompts = 0 /\ inputs = 0 /\ replies = 0

Says(m) == transcript' = Append(transcript, m) /\ context' = Append(context, m)

\* Agent.prompt
Prompt ==
  /\ run.at = "idle" /\ prompts < MaxPrompts /\ prompts' = prompts + 1
  /\ run' = [NoRun EXCEPT !.at = "asking", !.accepting = TRUE, !.first = inputs]
  /\ transcript' = Append(transcript, User(0)) /\ context' = transcript'
  /\ stream' = Opens
  /\ UNCHANGED <<steering, followUp, call, inputs, replies>>

\* Mutant: a run accepts input until it is gone
AcceptsToTheEnd == run.at # "idle" /\ ~run.signal
\* What the host lets into a queue: input for the run that is active
Accepts == run.at # "idle" /\ run.accepting /\ ~run.signal

Steer ==
  /\ Accepts /\ inputs < MaxInputs /\ inputs' = inputs + 1
  /\ steering' = Append(steering, inputs')
  /\ UNCHANGED <<run, transcript, context, followUp, stream, call, prompts, replies>>

FollowUp ==
  /\ Accepts /\ inputs < MaxInputs /\ inputs' = inputs + 1
  /\ followUp' = Append(followUp, inputs')
  /\ UNCHANGED <<run, transcript, context, steering, stream, call, prompts, replies>>

\* Agent.abort
Abort ==
  /\ run.at # "idle" /\ ~run.signal
  /\ run' = [run EXCEPT !.signal = TRUE]
  /\ UNCHANGED <<transcript, context, steering, followUp, stream, call, prompts,
                 inputs, replies>>

-----------------------------------------------------------------------------
(* How a turn ends and a run goes on                                       *)

Drained(queue) ==
  IF queue = <<>> \/ QueueMode = "all" THEN queue ELSE <<Head(queue)>>
Left(queue) ==
  IF queue = <<>> \/ QueueMode = "all" THEN <<>> ELSE Tail(queue)
Injected(messages, queue) ==
  messages \o [i \in DOMAIN queue |-> User(queue[i])]

Ends(how, messages, status) ==
  /\ run' = [run EXCEPT !.at = "ending", !.accepting = FALSE, !.how = how,
                        !.status = status]
  /\ transcript' = transcript \o messages /\ context' = context \o messages
  /\ stream' = NoStream
  /\ UNCHANGED <<steering, followUp>>

\* The next request, with the input that was waiting for it
Asks(messages, fromSteering, fromFollowUp) ==
  LET input == fromSteering \o fromFollowUp IN
  /\ run' = [run EXCEPT !.at = "asking"]
  /\ transcript' = Injected(transcript \o messages, input)
  /\ context' = Injected(context \o messages, input)
  /\ stream' = Opens
  /\ steering' = IF fromSteering = <<>> THEN steering ELSE Left(steering)
  /\ followUp' = IF fromFollowUp = <<>> THEN followUp ELSE Left(followUp)

\* Mutant: a reply without calls ends the run though the user steered it
GoesOnWhileCalled(messages, more) ==
  IF more THEN Asks(messages, Drained(steering), <<>>)
  ELSE IF followUp # <<>> THEN Asks(messages, <<>>, Drained(followUp))
  ELSE Ends("done", messages, run.status)

\* _run_loop after turn_end: steering goes before the end of the turn's tool
\* calls, follow-ups only once nothing else is left
GoesOn(messages, more) ==
  IF more \/ steering # <<>> THEN Asks(messages, Drained(steering), <<>>)
  ELSE IF followUp # <<>> THEN Asks(messages, <<>>, Drained(followUp))
  ELSE Ends("done", messages, run.status)

\* _finish_run: what was not consumed belongs to this run and to no other
Finished(status) ==
  /\ run' = [run EXCEPT !.at = "idle", !.accepting = FALSE, !.status = status]
  /\ steering' = <<>> /\ followUp' = <<>>

FinalStatus ==
  IF run.signal THEN "cancelled"
  ELSE IF run.status = None THEN "completed" ELSE run.status

\* Mutant: input that was not consumed waits for the next run
EndsKeepingInput ==
  /\ run.at = "ending" /\ ~run.cancelled
  /\ run' = [run EXCEPT !.at = "idle", !.status = FinalStatus]
  /\ UNCHANGED <<transcript, context, steering, followUp, stream, call, prompts,
                 inputs, replies>>

\* The subscribers have seen the end of the run
RunEnds ==
  /\ run.at = "ending"
  /\ Finished(FinalStatus)
  /\ UNCHANGED <<transcript, context, stream, call, prompts, inputs, replies>>

\* The task of the run is cancelled where nothing catches it: the run is over
\* at once, without agent_end
Dies ==
  /\ run' = [NoRun EXCEPT !.signal = TRUE, !.status = "cancelled"]
  /\ steering' = <<>> /\ followUp' = <<>>
  /\ stream' = NoStream /\ call' = NoCalls
  /\ UNCHANGED <<transcript, context>>

-----------------------------------------------------------------------------
(* A reply: attempts of a provider, joined into one stream                 *)

Speaks ==
  /\ run.at = "asking" /\ stream.at = "open"
  /\ stream' = [stream EXCEPT !.at = "content", !.seen = @ \cup {stream.attempt}]
  /\ UNCHANGED <<run, transcript, context, steering, followUp, call, prompts,
                 inputs, replies>>

Visible == stream.seen # {}

\* Mutant: one attempt too many
RetriesOnceMore(transient) ==
  transient /\ ~Visible /\ stream.attempt <= MaxRetries /\ ~run.signal
\* Mutant: an attempt that failed is repeated though part of it was seen
RetriesAnyway(transient) == transient /\ stream.attempt < MaxRetries /\ ~run.signal
MayRetry(transient) ==
  transient /\ ~Visible /\ stream.attempt < MaxRetries /\ ~run.signal

\* The attempt ends well, or with an error that may be transient
AttemptEnds(final, transient) ==
  /\ run.at = "asking" /\ stream.at \in {"open", "content"}
  /\ final.stop = "stop" => ~transient
  /\ final.calls # <<>> => replies < MaxReplies /\ (Visible \/ final.stop = "stop")
  /\ stream' =
       IF final.stop = "error" /\ MayRetry(transient)
       THEN [stream EXCEPT !.at = "backoff", !.final = final]
       ELSE [stream EXCEPT !.at = "ended", !.final = final]
  /\ replies' = IF final.calls # <<>> THEN replies + 1 ELSE replies
  /\ UNCHANGED <<run, transcript, context, steering, followUp, call, prompts, inputs>>

\* Mutant: an abort during the delay is not looked for
BackoffEndsAnyway ==
  /\ stream.at = "backoff"
  /\ stream' = [stream EXCEPT !.at = "open", !.attempt = @ + 1, !.final = None]
  /\ UNCHANGED <<run, transcript, context, steering, followUp, call, prompts,
                 inputs, replies>>

\* The delay before another attempt; an abort ends it and the stream
BackoffEnds ==
  /\ stream.at = "backoff"
  /\ stream' = IF run.signal THEN [stream EXCEPT !.at = "ended"]
               ELSE [stream EXCEPT !.at = "open", !.attempt = @ + 1, !.final = None]
  /\ UNCHANGED <<run, transcript, context, steering, followUp, call, prompts,
                 inputs, replies>>

Waiting(calls) ==
  [c \in Call |-> IF c \in Range(calls) THEN [NoCall EXCEPT !.at = "waiting"] ELSE NoCall]

\* The loop takes the reply: an error ends the run, calls are executed, one
\* by one if the agent or one of the tools wants it so
TakesReply ==
  /\ run.at = "asking" /\ stream.at = "ended"
  /\ LET m == stream.final IN
     IF m.stop \in Broken
     THEN Ends("broken", <<m>>, "failed") /\ call' = call
     ELSE IF m.calls = <<>>
     THEN /\ call' = call
          /\ IF run.signal THEN Ends("aborted", <<m>>, run.status)
             ELSE GoesOn(<<m>>, FALSE)
     ELSE /\ \E mode \in Modes :
               run' = [run EXCEPT !.at = "tools", !.batch = m.calls,
                                  !.together = mode = "parallel"]
          /\ Says(m) /\ call' = Waiting(m.calls)
          /\ stream' = NoStream /\ UNCHANGED <<steering, followUp>>
  /\ UNCHANGED <<prompts, inputs, replies>>

\* The request cannot be made at all (_handle_run_failure)
RequestFails ==
  /\ run.at = "asking" /\ stream = Opens
  /\ LET stop == IF run.signal THEN "aborted" ELSE "error" IN
     /\ run' = [run EXCEPT !.at = "ending", !.accepting = FALSE, !.how = "broken",
                !.status = IF run.signal THEN "cancelled" ELSE "failed"]
     /\ transcript' = Append(transcript, ReplyOf(FALSE, <<>>, stop))
  /\ stream' = NoStream
  /\ UNCHANGED <<context, steering, followUp, call, prompts, inputs, replies>>

\* Mutant: an abort is noticed with the next delta
StopsListeningToContent ==
  /\ run.at = "asking" /\ run.signal /\ stream.at \in {"content", "backoff"}
  /\ run' = [run EXCEPT !.at = "closing"]
  /\ UNCHANGED <<transcript, context, steering, followUp, stream, call, prompts,
                 inputs, replies>>

\* Mutant: the consumer does not wait for the provider to stop
StopsListeningAtOnce ==
  /\ run.at = "asking" /\ run.signal
  /\ run' = [run EXCEPT !.at = "ending", !.accepting = FALSE, !.how = "aborted"]
  /\ Says(ReplyOf(Visible, <<>>, "aborted"))
  /\ UNCHANGED <<steering, followUp, stream, call, prompts, inputs, replies>>

\* An abort is noticed while no reply is there: the consumer of the stream is
\* cancelled, and closes it
StopsListening ==
  /\ run.at = "asking" /\ run.signal
  /\ run' = [run EXCEPT !.at = "closing"]
  /\ UNCHANGED <<transcript, context, steering, followUp, stream, call, prompts,
                 inputs, replies>>

\* The provider has stopped: what it said so far is the reply
StreamCloses(calls) ==
  /\ run.at = "closing"
  /\ calls # <<>> => Visible
  /\ IF run.cancelled THEN Dies
     ELSE /\ Ends("aborted", <<ReplyOf(Visible, calls, "aborted")>>, "cancelled")
          /\ call' = call
  /\ UNCHANGED <<prompts, inputs, replies>>

-----------------------------------------------------------------------------
(* The calls of a reply                                                    *)

Before(c) ==
  {run.batch[i] : i \in {j \in DOMAIN run.batch : c \notin Range(SubSeq(run.batch, 1, j))}}
IsNext(c) ==
  \A d \in Before(c) : call[d].at \in IF run.together THEN {"ready", "done"} ELSE {"done"}
Prepared == \A c \in Range(run.batch) : call[c].at \notin {"waiting", "asked"}

CallBecomes(c, at, outcome) ==
  /\ call' = [call EXCEPT ![c] = [at |-> at, outcome |-> outcome]]
  /\ UNCHANGED <<run, transcript, context, steering, followUp, stream, prompts,
                 inputs, replies>>

\* _prepare_tool_call: no such tool or bad arguments, unless the run is stopped
Refuses(c) ==
  /\ run.at = "tools" /\ call[c].at = "waiting" /\ IsNext(c)
  /\ CallBecomes(c, "done", IF run.signal THEN "cancelled" ELSE "answered")

\* The hook is asked, which may wait for the user's approval
AsksHook(c) ==
  /\ run.at = "tools" /\ call[c].at = "waiting" /\ IsNext(c) /\ ~run.signal
  /\ CallBecomes(c, "asked", None)

\* Mutant: an approval given after the run was stopped still counts
HookAnswersLate(c, allowed) ==
  /\ run.at = "tools" /\ call[c].at = "asked"
  /\ IF ~allowed THEN CallBecomes(c, "done", "answered")
     ELSE CallBecomes(c, IF run.together THEN "ready" ELSE "running", None)

HookAnswers(c, allowed) ==
  /\ run.at = "tools" /\ call[c].at = "asked"
  /\ IF run.signal THEN CallBecomes(c, "done", "cancelled")
     ELSE IF ~allowed THEN CallBecomes(c, "done", "answered")
     ELSE CallBecomes(c, IF run.together THEN "ready" ELSE "running", None)

\* Calls that run together start once all are prepared
Starts(c) ==
  /\ run.at = "tools" /\ call[c].at = "ready" /\ Prepared
  /\ IF run.signal THEN CallBecomes(c, "done", "cancelled")
     ELSE CallBecomes(c, "running", None)

\* A tool ends in its own way; one that is told to stop may heed it
ToolEnds(c, outcome) ==
  /\ run.at = "tools" /\ call[c].at = "running"
  /\ outcome = "cancelled" => run.signal
  /\ CallBecomes(c, "done", outcome)

Terminates == \A c \in Range(run.batch) : call[c].outcome = "finished"
\* Mutant: a call that was stopped has no result
ResultsOfUnstopped ==
  SelectSeq([i \in DOMAIN run.batch |-> ResultOf(run.batch[i], call[run.batch[i]].outcome)],
            LAMBDA m : m.stop # "cancelled")
Results == [i \in DOMAIN run.batch |-> ResultOf(run.batch[i], call[run.batch[i]].outcome)]

\* All calls are over: their results are recorded in the order of the reply,
\* and the run goes on unless it was stopped or every result ends it
BatchEnds ==
  /\ run.at = "tools" /\ \A c \in Range(run.batch) : call[c].at = "done"
  /\ IF run.cancelled THEN Dies
     ELSE /\ call' = NoCalls
          /\ IF run.signal THEN Ends("aborted", Results, run.status)
             ELSE IF Terminates THEN Ends("finished", Results, run.status)
             ELSE GoesOn(Results, TRUE)
  /\ UNCHANGED <<prompts, inputs, replies>>

-----------------------------------------------------------------------------
(* The task of the run is cancelled: by the host when a stop takes too     *)
(* long, by a time limit, or because it goes away                          *)

Running == {c \in Call : call[c].at = "running"}

\* A stream is closed first; a tool that is alone ends with a result that
\* says so, and tools that run together are waited for and then forgotten
Cancel ==
  /\ run.at # "idle" /\ ~run.cancelled
  /\ run.at = "tools" => \E c \in Range(run.batch) : call[c].at # "done"
  /\ IF run.at \in {"asking", "closing"}
     THEN /\ run' = [run EXCEPT !.at = "closing", !.cancelled = TRUE]
          /\ UNCHANGED <<transcript, context, steering, followUp, stream, call>>
     ELSE IF run.at = "tools" /\ Prepared /\ run.together
     THEN /\ run' = [run EXCEPT !.cancelled = TRUE]
          /\ call' = [c \in Call |-> IF call[c].at = "ready"
                                     THEN [at |-> "done", outcome |-> "cancelled"]
                                     ELSE call[c]]
          /\ UNCHANGED <<transcript, context, steering, followUp, stream>>
     ELSE IF run.at = "tools" /\ Running # {}
     THEN /\ run' = [run EXCEPT !.signal = TRUE]
          /\ call' = [c \in Call |-> IF c \in Running
                                     THEN [at |-> "done", outcome |-> "cancelled"]
                                     ELSE call[c]]
          /\ UNCHANGED <<transcript, context, steering, followUp, stream>>
     ELSE Dies
  /\ UNCHANGED <<prompts, inputs, replies>>

-----------------------------------------------------------------------------
Finals == {ReplyOf(TRUE, calls, stop) : calls \in Batches, stop \in {"stop", "error"}}
            \cup {ReplyOf(FALSE, <<>>, "error")}

ByUser == Prompt \/ Steer \/ FollowUp \/ Abort \/ Cancel
Provider ==
  \/ Speaks
  \/ \E final \in Finals, transient \in BOOLEAN : AttemptEnds(final, transient)
Loop ==
  \/ TakesReply \/ StopsListening \/ BatchEnds \/ RunEnds
  \/ \E calls \in Batches : StreamCloses(calls)
  \/ \E c \in Call : Refuses(c) \/ Starts(c)
Tools ==
  \E c \in Call :
    \/ \E allowed \in BOOLEAN : HookAnswers(c, allowed)
    \/ \E outcome \in Outcomes : ToolEnds(c, outcome)

Next ==
  \/ ByUser \/ Provider \/ Loop \/ Tools \/ BackoffEnds \/ RequestFails
  \/ \E c \in Call : AsksHook(c)

Spec == Init /\ [][Next]_vars

\* The event loop schedules what is ready; the hook and the tools heed an
\* abort. The provider may say nothing for ever
Fairness == WF_vars(Loop) /\ WF_vars(run.signal /\ Tools)
LiveSpec == Spec /\ Fairness

-----------------------------------------------------------------------------
(* Properties                                                              *)

TypeOK ==
  /\ run \in Runs /\ transcript \in Seq(Messages) /\ context \in Seq(Messages)
  /\ steering \in Seq(1 .. MaxInputs) /\ followUp \in Seq(1 .. MaxInputs)
  /\ stream \in Streams /\ call \in [Call -> Calls]
  /\ prompts \in 0 .. MaxPrompts /\ inputs \in 0 .. MaxInputs
  /\ replies \in 0 .. MaxReplies

\* Every call of messages[i] is answered right behind it, in the order made
Answered(messages, i) ==
  \A k \in DOMAIN messages[i].calls :
    /\ i + k \in DOMAIN messages
    /\ messages[i + k].role = "result" /\ messages[i + k].of = messages[i].calls[k]
Unanswerable(messages, i) ==
  i + 1 \in DOMAIN messages => messages[i + 1].role # "result"
IsResult(m) == m.role = "result" /\ m.stop # "uncertain"
ResultsIn(messages) ==
  LET found[n \in 0 .. Len(messages)] ==
        IF n = 0 THEN <<>>
        ELSE IF IsResult(messages[n]) THEN Append(found[n - 1], messages[n])
        ELSE found[n - 1]
  IN found[Len(messages)]

\* However the calls of a reply end, in whatever order, alone or together, and
\* wherever a run was stopped: a request to the model shows every call with
\* its one result behind it and every result there is, the transcript holds
\* all results of a reply or none, and it is what the loop works on
\* (_execute_tool_calls_parallel, _process_events, repair_incomplete_tool_calls)
RequestsAreWhole ==
  run.at \in {"asking", "closing"} =>
    LET shown == Repaired(context) IN
    /\ \A i \in DOMAIN shown : shown[i].role = "assistant" => Answered(shown, i)
    /\ ResultsIn(shown) = ResultsIn(context)
ResultsFollowCalls ==
  run.at # "tools" =>
    \A i \in DOMAIN transcript :
      Answered(transcript, i) \/ Unanswerable(transcript, i)
ContextIsTranscript ==
  run.at \in {"asking", "closing"} => context = transcript
CallsAreAnswered ==
  RequestsAreWhole /\ ResultsFollowCalls /\ ContextIsTranscript

\* Input that a run accepted and was not stopped from using has reached the
\* model once, and none reaches another run (PendingMessageQueue, _finish_run)
Inputs(messages) ==
  LET prompt == Max({i \in DOMAIN messages : messages[i] = User(0)}) IN
  {i \in DOMAIN messages : i > prompt /\ messages[i].role = "user"}
InputReachesItsRun ==
  /\ run.at \in {"asking", "ending"} =>
       LET at == Inputs(transcript) IN
       /\ \A i, j \in at : transcript[i].of = transcript[j].of => i = j
       /\ \A i \in at : transcript[i].of > run.first
       /\ run.how = "done" => Cardinality(at) = inputs - run.first
  /\ run.at = "idle" => steering = <<>> /\ followUp = <<>>

\* A run that ended runs nothing any more, and its status says how its last
\* reply ended (_stream_assistant_response, _run_with_lifecycle)
LastReply ==
  transcript[Max({i \in DOMAIN transcript : transcript[i].role = "assistant"})]
RunsEndWholly ==
  run.at \in {"idle", "ending"} =>
    /\ stream.at = "off" /\ Running = {}
    /\ run.status = "completed" => LastReply.stop = "stop"
    /\ run.status = "failed" => LastReply.stop = "error"

\* Once a run was stopped it starts no attempt and no tool, not even one that
\* is approved late; and another attempt is made only if nothing of the last
\* one was seen (retrying_stream, _prepare_tool_call)
WorkStartsOnlyIfWanted ==
  [][/\ stream'.attempt > stream.attempt => ~run.signal /\ stream.seen = {}
     /\ Running' \subseteq Running \/ ~run.signal]_vars

\* A run that was stopped ends, even if the provider never says a word
StoppedRunsEnd == (run.signal /\ run.at # "idle") ~> run.at = "idle"
=============================================================================
