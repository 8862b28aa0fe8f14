----------------------------- MODULE MemoryStore -----------------------------
(***************************************************************************)
(* One scope of the long-term memory (memory/store.py): an append-only log *)
(* of events, which is the authority, and a snapshot of what it comes to.  *)
(* The worker applies what it extracted from finished tasks                *)
(* (memory/service.py), the user remembers, forgets and clears, possibly   *)
(* from another process; conflicts are resolved by authority and by the    *)
(* time of the source (memory/conflicts.py).                               *)
(*                                                                         *)
(* A transaction holds the lock of the scope from its read to its last     *)
(* write, so it is one step; it may fail or die between two writes.        *)
(***************************************************************************)
EXTENDS Integers, Sequences, FiniteSets, Functions, SequencesExt

CONSTANTS
  Key,        \* keys, under which memories are stored
  Generated,  \* those made from the words of a memory that names no relation
  Value, Kind,
  Splitting,  \* the values that hold a line separator such as U+2028
  Memories,   \* what a task or the user may say
  Said,       \* what of it the user may say in a command
  Job,        \* extraction jobs, of one memory each
  MaxEvents,  \* bound: lines of the log
  MaxTime,    \* bound: the clock
  MaxFaults,  \* bound: writes that fail
  None

\* AUTHORITY
Authority == [inferred_user |-> 1, accepted_plan |-> 2, explicit_user |-> 3,
              explicit_correction |-> 4]
Sources == DOMAIN Authority
Explicit == {"explicit_user", "explicit_correction"}

ASSUME MemoryAssumption ==
  /\ Memories \subseteq [key : Key, value : Value, kind : Kind, source : Sources]
  /\ Said \subseteq Memories /\ Splitting \subseteq Value /\ Generated \subseteq Key
  /\ None \notin Key \cup Value \cup Kind \cup Job \cup {"remember", "forget"}
  /\ {MaxEvents, MaxTime, MaxFaults} \subseteq Nat

VARIABLES
  log,       \* the lines of the log
  snapshot,  \* the snapshot on disk: the revision and what it holds
  jobs,      \* what the worker has done with each job
  command,   \* what the user's process is doing
  clock, faults

vars == <<log, snapshot, jobs, command, clock, faults>>

-----------------------------------------------------------------------------
(* What a scope holds                                                      *)

NoRecord == [id |-> 0, value |-> None, kind |-> None, source |-> None, time |-> 0,
             print |-> None]
Record(id, c) ==
  [id |-> id, value |-> c.value, kind |-> c.kind, source |-> c.source,
   time |-> c.time, print |-> c.print]
EmptyHeld ==
  [memories |-> [k \in Key |-> NoRecord], conflicts |-> [k \in Key |-> <<>>],
   tombstones |-> [k \in Key |-> 0], applied |-> {}]

Held(S, k) == S.memories[k] # NoRecord
RecordsAt(S, k) ==
  (IF Held(S, k) THEN {S.memories[k]} ELSE {}) \cup Range(S.conflicts[k])

\* What an event says of its key: a memory, a conflict, a tombstone or that a
\* candidate was rejected
Event(type, key, record, rivals, time, hash) ==
  [type |-> type, key |-> key, record |-> record, rivals |-> rivals,
   time |-> time, hash |-> hash]

\* Mutant: a memory that is back leaves its tombstone behind
RecordReplayedBuried(S, e) ==
  [S EXCEPT !.memories[e.key] = e.record, !.conflicts[e.key] = <<>>]
RecordReplayed(S, e) ==
  [S EXCEPT !.memories[e.key] = e.record, !.conflicts[e.key] = <<>>,
            !.tombstones[e.key] = 0]

\* _apply_event
Replayed(S, e) ==
  LET change ==
        CASE e.type = "memory" -> RecordReplayed(S, e)
          [] e.type = "conflict" ->
               [S EXCEPT !.memories[e.key] = NoRecord, !.conflicts[e.key] = e.rivals]
          [] e.type = "tombstone" ->
               [S EXCEPT !.memories[e.key] = NoRecord, !.conflicts[e.key] = <<>>,
                         !.tombstones[e.key] = e.time]
          [] e.type = "rejected" -> S
  IN [change EXCEPT !.applied = @ \cup {e.hash}]
Replay(events) ==
  LET replayed[n \in 0 .. Len(events)] ==
        IF n = 0 THEN EmptyHeld ELSE Replayed(replayed[n - 1], events[n])
  IN replayed[Len(events)]

-----------------------------------------------------------------------------
(* resolve_candidate: the event a candidate leads to and what is held then *)

Stronger(a, b) == Authority[a] > Authority[b]
Strongest(S) == CHOOSE r \in S : \A q \in S : ~Stronger(q.source, r.source)

Outcome(S, c, type, record, rivals, now) ==
  LET change ==
        CASE type = "memory" ->
               [S EXCEPT !.memories[c.key] = record, !.conflicts[c.key] = <<>>,
                         !.tombstones[c.key] = 0]
          [] type = "conflict" ->
               [S EXCEPT !.memories[c.key] = NoRecord, !.conflicts[c.key] = rivals,
                         !.tombstones[c.key] = 0]
          [] type = "tombstone" ->
               [S EXCEPT !.memories[c.key] = NoRecord, !.conflicts[c.key] = <<>>,
                         !.tombstones[c.key] = now]
          [] type = "rejected" -> S
  IN [some |-> TRUE, event |-> Event(type, c.key, record, rivals, now, c.hash),
      held |-> [change EXCEPT !.applied = @ \cup {c.hash}]]
NoOutcome(S) == [some |-> FALSE, event |-> None, held |-> S]

Rejected(S, c, now) == Outcome(S, c, "rejected", NoRecord, <<>>, now)
Becomes(S, c, r, now) == Outcome(S, c, "memory", r, <<>>, now)
Conflicts(S, c, rivals, now) == Outcome(S, c, "conflict", NoRecord, rivals, now)

\* A reinforced record keeps its identity and the stronger source
Reinforced(old, new) ==
  [IF Stronger(old.source, new.source) THEN old
   ELSE [old EXCEPT !.source = new.source, !.time = new.time]
   EXCEPT !.print = new.print]

\* An open conflict is settled by the user's word for one of the values or by
\* a higher authority than those in dispute
Settles(c, rivals, same) ==
  \/ same # {} /\ c.source \in Explicit
  \/ Stronger(c.source, Strongest(Range(rivals)).source)

ResolveRivals(S, c, new, now) ==
  LET rivals == S.conflicts[c.key]
      same == {i \in DOMAIN rivals : rivals[i].value = new.value}
      chosen == IF same = {} THEN new
                ELSE [rivals[Min(same)] EXCEPT !.source = c.source, !.time = c.time,
                                               !.print = c.print]
  IN IF Settles(c, rivals, same) THEN Becomes(S, c, chosen, now)
     ELSE Conflicts(S, c, IF same = {} THEN Append(rivals, new) ELSE rivals, now)

\* Another value takes the place of what is held by a higher authority or as a
\* correction
\* Mutant: by being said later
SupersedesLater(c, old) == c.time > old.time \/ c.source = "explicit_correction"
Supersedes(c, old) ==
  Stronger(c.source, old.source) \/ c.source = "explicit_correction"

ResolveActive(S, c, new, now) ==
  LET old == S.memories[c.key] IN
  IF old.kind # new.kind THEN Conflicts(S, c, <<old, new>>, now)
  ELSE IF old.value = new.value THEN Becomes(S, c, Reinforced(old, new), now)
  ELSE IF Supersedes(c, old) THEN Becomes(S, c, new, now)
  ELSE IF Stronger(old.source, c.source) THEN Rejected(S, c, now)
  ELSE Conflicts(S, c, <<old, new>>, now)

\* Mutant: to any word of the user's, said before it or not
MayRecreateAnyway(c, deleted) == c.source \in Explicit
\* A tombstone yields only to the user's own later word
MayRecreate(c, deleted) == c.source \in Explicit /\ c.time > deleted

\* Mutant: a candidate that was applied before is applied again
ResolveAgain(S, c, id, now) ==
  LET new == Record(id, c)  old == RecordsAt(S, c.key) IN
  IF c.operation = "retract" THEN Outcome(S, c, "tombstone", NoRecord, <<>>, now)
  ELSE IF \/ S.tombstones[c.key] # 0 /\ ~MayRecreate(c, S.tombstones[c.key])
          \/ \E r \in old : r.time > c.time
    THEN Rejected(S, c, now)
  ELSE IF S.conflicts[c.key] # <<>> THEN ResolveRivals(S, c, new, now)
  ELSE IF Held(S, c.key) THEN ResolveActive(S, c, new, now)
  ELSE Becomes(S, c, new, now)

\* What was applied before, by its hash, changes nothing; what is older than
\* what is held is rejected
Resolve(S, c, id, now) ==
  LET new == Record(id, c)  old == RecordsAt(S, c.key) IN
  IF c.hash \in S.applied THEN NoOutcome(S)
  ELSE IF c.operation = "retract" THEN Outcome(S, c, "tombstone", NoRecord, <<>>, now)
  ELSE IF \/ S.tombstones[c.key] # 0 /\ ~MayRecreate(c, S.tombstones[c.key])
          \/ \E r \in old : r.time > c.time
    THEN Rejected(S, c, now)
  ELSE IF S.conflicts[c.key] # <<>> THEN ResolveRivals(S, c, new, now)
  ELSE IF Held(S, c.key) THEN ResolveActive(S, c, new, now)
  ELSE Becomes(S, c, new, now)

-----------------------------------------------------------------------------
(* The files of the scope                                                  *)

NoSnapshot == [revision |-> 0, held |-> EmptyHeld]

\* What an interrupted append leaves behind: part of a line, which may end
\* within a character that takes several bytes
Fragment == Event("fragment", None, NoRecord, <<>>, 0, None)
Garbled == Event("garbled", None, NoRecord, <<>>, 0, None)
Fragments == {Fragment, Garbled}

\* Lines are split at every separator there is, so an event that holds one
\* cannot be parsed again; only the last line may be incomplete (_read_events),
\* and where it ends within a character the file cannot even be decoded
Splits(e) ==
  e.record.value \in Splitting \/ \E r \in Range(e.rivals) : r.value \in Splitting
Repairable ==
  \A i \in DOMAIN log : ~Splits(log[i]) /\ (log[i] \in Fragments => i = Len(log))
Readable == Repairable /\ Garbled \notin Range(log)

\* _repair_event_tail
TailRepaired(lines) ==
  IF lines # <<>> /\ Last(lines) \in Fragments THEN Front(lines) ELSE lines

\* What is read of a log: an incomplete last line is passed over (_read_events)
Events == TailRepaired(log)
\* _load_locked: the log is replayed, and the snapshot written anew unless it
\* agrees
Loaded == Replay(Events)
Materialised == [revision |-> Len(Events), held |-> Loaded]

\* A read of the scope
Reads == Readable /\ snapshot' = Materialised /\ UNCHANGED <<log, faults>>

\* A write of what was resolved, once the tail was repaired: there may be
\* nothing to write; or the event is appended and the snapshot written
Writes(o) ==
  LET lines == TailRepaired(log) IN
  /\ Repairable
  /\ IF ~o.some
     THEN log' = lines /\ snapshot' = Materialised /\ UNCHANGED faults
     ELSE /\ Len(lines) < MaxEvents /\ log' = Append(lines, o.event)
          /\ snapshot' = [revision |-> Len(Events) + 1, held |-> o.held]
          /\ UNCHANGED faults
\* The append fails, leaving part of a line or none, or the process stops
\* before the snapshot is replaced
Breaks(o) ==
  LET lines == TailRepaired(log) IN
  /\ Repairable /\ o.some /\ Len(lines) < MaxEvents
  /\ faults < MaxFaults /\ faults' = faults + 1
  /\ log' \in {lines} \cup {Append(lines, e) : e \in Fragments \cup {o.event}}
  /\ snapshot' = Materialised

\* The record a decision was made about is still there (_apply_with_lock)
Targets(key, target) ==
  target = 0 \/ target \in {r.id : r \in RecordsAt(Loaded, key)}

-----------------------------------------------------------------------------
(* From a memory to a candidate (memory/consolidator.py, service.py)       *)

\* A memory that names no relation is stored under a key of its own
Relation(m) == IF m.key \in Generated THEN None ELSE m.key
Fingerprint(m) == <<m.kind, Relation(m), m.value>>

\* A decision: to leave a memory alone, or the record it is about (its id and
\* its key) or none, and whether it says the same again
Ignore == [ignore |-> TRUE, target |-> 0, key |-> None, reinforces |-> FALSE]
New(m) == [ignore |-> FALSE, target |-> 0, key |-> m.key, reinforces |-> FALSE]
About(r, key, reinforces) ==
  [ignore |-> FALSE, target |-> r.id, key |-> key, reinforces |-> reinforces]
AboutEach(S, reinforces) == {About(x[2], x[1], reinforces) : x \in S}

\* Everything that is held, with its key
Everything ==
  LET held == Loaded IN UNION {{k} \X RecordsAt(held, k) : k \in Key}

\* What a model may decide and the validation lets through: a record of the
\* kind of the memory says the same under the same key, or under any key where
\* the memory names no relation; or the memory replaces or disputes a record of
\* its relation (validate_consolidation_payload)
Reinforceable(m, x) ==
  IF m.key \in Generated THEN x[2].print = Fingerprint(m) \/ x[2].value = m.value
  ELSE x[1] = m.key /\ x[2].value = m.value
Decisions(m) ==
  LET ofKind == {x \in Everything : x[2].kind = m.kind} IN
  {Ignore, New(m)}
    \cup AboutEach({x \in ofKind : Reinforceable(m, x)}, TRUE)
    \cup AboutEach({x \in ofKind : x[1] = m.key /\ m.key \notin Generated}, FALSE)

\* What is decided for the user's own words (DeterministicMemoryConsolidator):
\* the same memory, the same words under another key, or a record in its place
ConservativeDecisions(m) ==
  LET all == Everything
      same == {x \in all : x[2].print = Fingerprint(m)}
      alike == {x \in all : x[2].kind = m.kind /\ x[2].value = m.value}
      there == {x \in all : x[1] = m.key /\ m.key \notin Generated}
  IN IF same # {} THEN AboutEach(same, TRUE) ELSE IF alike # {} THEN AboutEach(alike, TRUE)
     ELSE IF there # {} THEN AboutEach(there, FALSE) ELSE {New(m)}

\* _candidate_from_decision: what says the same again takes the words and the
\* fingerprint of the record it is about
Target(d) == CHOOSE r \in RecordsAt(Loaded, d.key) : r.id = d.target
Candidate(m, d, time) ==
  LET said == IF d.reinforces THEN Target(d)
              ELSE [value |-> m.value, print |-> Fingerprint(m)]
  IN
  [operation |-> "upsert", key |-> d.key, kind |-> m.kind, source |-> m.source, time |-> time,
   relation |-> IF d.target = 0 THEN Relation(m) ELSE d.key,
   value |-> said.value, print |-> said.print, hash |-> None]
Retraction(key) ==
  [operation |-> "retract", key |-> key, kind |-> None, source |-> "explicit_correction",
   time |-> clock, value |-> None, relation |-> None, print |-> None, hash |-> None]

\* The hash of a job's operation names the job and what is applied, never when;
\* that of a command is as good as new (_operation_hash, remember, forget, clear)
Hash(job, n, key, value, relation, print) ==
  [job |-> job, n |-> n, key |-> key, value |-> value, relation |-> relation, print |-> print]
ByJob(j, c) == [c EXCEPT !.hash = Hash(j, 0, c.key, c.value, c.relation, c.print)]
ByCommand(c) == [c EXCEPT !.hash = Hash(None, Len(log) + 1, None, None, None, None)]

NextId == Len(Events) + 1

-----------------------------------------------------------------------------
(* The worker: extracts, decides, applies; each stage is checkpointed      *)

NoMemory == [key |-> None, value |-> None, kind |-> None, source |-> None]
NewJob == [at |-> "extract", memory |-> NoMemory, time |-> 0, decision |-> Ignore]
DoneJob == [NewJob EXCEPT !.at = "done"]

\* What a task said at some time is extracted once the model answers
Extract(j) ==
  /\ jobs[j].at = "extract"
  /\ \E m \in Memories, t \in 1 .. clock :
       jobs' = [jobs EXCEPT ![j].at = "decide", ![j].memory = m, ![j].time = t]
  /\ UNCHANGED <<log, snapshot, command, clock, faults>>

\* What is held is read, the model decides, the decision is checkpointed
Decide(j) ==
  /\ jobs[j].at = "decide" /\ Reads
  /\ \E d \in Decisions(jobs[j].memory) :
       jobs' = [jobs EXCEPT ![j] = IF d = Ignore THEN DoneJob
                                   ELSE [@ EXCEPT !.at = "apply", !.decision = d]]
  /\ UNCHANGED <<command, clock>>

\* A job that is claimed again reads what is held; a decision that no longer
\* fits it, as the record it is about is gone, is made anew
Undecided(job) == [job EXCEPT !.at = "decide", !.decision = Ignore]
Resume(j) ==
  /\ jobs[j].at = "resume" /\ Reads /\ UNCHANGED <<command, clock>>
  /\ jobs' = [jobs EXCEPT ![j] =
       IF Targets(@.decision.key, @.decision.target) THEN [@ EXCEPT !.at = "apply"]
       ELSE Undecided(@)]

\* The decision is applied, and the job is complete; if the process dies, or
\* the write fails, the job is claimed again with its checkpoint, and a target
\* that is gone sends it back to be decided
JobResolution(j) ==
  LET job == jobs[j] IN
  Resolve(Loaded, ByJob(j, Candidate(job.memory, job.decision, job.time)), NextId, clock)
Apply(j) ==
  /\ jobs[j].at = "apply" /\ UNCHANGED <<command, clock>>
  /\ IF Targets(jobs[j].decision.key, jobs[j].decision.target)
     THEN LET o == JobResolution(j) IN
          \/ Writes(o) /\ jobs' = [jobs EXCEPT ![j] = DoneJob]
          \/ Breaks(o) /\ jobs' = [jobs EXCEPT ![j].at = "resume"]
     ELSE /\ Repairable /\ log' = TailRepaired(log) /\ snapshot' = Materialised
          /\ jobs' = [jobs EXCEPT ![j] = Undecided(@)] /\ UNCHANGED faults

-----------------------------------------------------------------------------
(* The user's process: remember, forget and clear (memory/service.py)      *)

NoCommand == [op |-> None, memory |-> NoMemory, time |-> 0, decision |-> Ignore,
              keys |-> {}, tries |-> 0]

Decided(m, time, tries) ==
  \E d \in ConservativeDecisions(m) :
    command' = [NoCommand EXCEPT !.op = "remember", !.memory = m, !.time = time,
                                 !.decision = d, !.tries = tries]

\* remember: what is held is read and compared with the user's words
Remember(m) ==
  /\ command = NoCommand /\ m.source \in Explicit /\ Reads
  /\ Decided(m, clock, 1) /\ UNCHANGED <<jobs, clock>>

\* They are applied unless the record they are about is gone; then it is read
\* and compared once more, and after that given up
CommandResolution ==
  Resolve(Loaded,
          ByCommand(Candidate(command.memory, command.decision, command.time)),
          NextId, clock)
Remembers ==
  /\ command.op = "remember" /\ UNCHANGED <<jobs, clock>>
  /\ IF Targets(command.decision.key, command.decision.target)
     THEN /\ LET o == CommandResolution IN Writes(o) \/ Breaks(o)
          /\ command' = NoCommand
     ELSE /\ Repairable /\ log' = TailRepaired(log) /\ snapshot' = Materialised
          /\ UNCHANGED faults
          /\ IF command.tries = 1 THEN Decided(command.memory, command.time, 2)
             ELSE command' = NoCommand

\* forget and clear: what is held is read for the keys to bury
Forget ==
  /\ command = NoCommand /\ Reads /\ UNCHANGED <<jobs, clock>>
  /\ LET there == {k \in Key : RecordsAt(Loaded, k) # {}} IN
     \E keys \in {{k} : k \in there} \cup ({there} \ {{}}) :
       command' = [NoCommand EXCEPT !.op = "forget", !.keys = keys]

\* Each is buried in a transaction of its own, whatever it holds by then
Forgets(k) ==
  /\ command.op = "forget" /\ k \in command.keys
  /\ LET o == Resolve(Loaded, ByCommand(Retraction(k)), NextId, clock)
         rest == command.keys \ {k}
     IN \/ /\ Writes(o)
           /\ command' = IF rest = {} THEN NoCommand ELSE [command EXCEPT !.keys = rest]
        \/ Breaks(o) /\ command' = NoCommand
  /\ UNCHANGED <<jobs, clock>>

\* Any reader brings the snapshot up to date
Load == Reads /\ UNCHANGED <<jobs, command, clock>>

Tick == clock < MaxTime /\ clock' = clock + 1
        /\ UNCHANGED <<log, snapshot, jobs, command, faults>>

-----------------------------------------------------------------------------
(* The system                                                              *)

Init ==
  /\ log = <<>> /\ snapshot = NoSnapshot /\ clock = 1 /\ faults = 0
  /\ jobs = [j \in Job |-> NewJob] /\ command = NoCommand

Worker == \E j \in Job : Extract(j) \/ Decide(j) \/ Resume(j) \/ Apply(j)
ByUser == \/ \E m \in Said : Remember(m)
          \/ Remembers \/ Forget \/ \E k \in Key : Forgets(k)
Next == Worker \/ ByUser \/ Load \/ Tick
Spec == Init /\ [][Next]_vars

-----------------------------------------------------------------------------
(* Properties                                                              *)

TypeOK ==
  /\ \A i \in DOMAIN log :
       /\ log[i].type \in {"memory", "conflict", "tombstone", "rejected", "fragment", "garbled"}
       /\ log[i].key \in Key \cup {None}
       /\ log[i].type = "memory" <=> log[i].record # NoRecord
  /\ snapshot.revision \in 0 .. MaxEvents
  /\ \A k \in Key :
       /\ ~(Held(snapshot.held, k) /\ snapshot.held.conflicts[k] # <<>>)
       /\ snapshot.held.tombstones[k] # 0 => RecordsAt(snapshot.held, k) = {}
  /\ \A j \in Job : /\ jobs[j].at \in {"extract", "decide", "resume", "apply", "done"}
                     /\ jobs[j].memory \in Memories \cup {NoMemory}
  /\ command.op \in {None, "remember", "forget"} /\ command.keys \subseteq Key
  /\ clock \in 1 .. MaxTime /\ faults \in 0 .. MaxFaults

\* What a transaction leaves in the snapshot is what the log comes to when it
\* is replayed from the start, however often a write failed or a process died
\* (resolve_candidate beside _apply_event, _load_locked)
SnapshotIsReplay ==
  snapshot.held = Replay(SubSeq(Events, 1, snapshot.revision))

\* No sequence of failed appends spoils a line that was written: what a read
\* refuses is the last line, and the next write takes it away (_read_events,
\* _repair_event_tail)
OnlyTheTailIsTorn == Repairable

\* However often a job is retried, what it decided is applied once: the same
\* operation never leaves a second event (applied_source_hashes)
OperationsApplyOnce ==
  \A i, n \in DOMAIN Events : Events[i].hash = Events[n].hash => i = n

\* A job leaves a second event only when it had to decide anew, and that takes
\* somebody else who wrote to the key of its first event since, or a first event
\* which settled a conflict for a record of another kind than its memory's
\* (_process_job, resolve_candidate)
WritesAt(i, k, j) == Events[i].key = k /\ Events[i].hash.job # j
JobsApplyOnce ==
  /\ OperationsApplyOnce
  /\ \A j \in Job : \A n \in DOMAIN Events : \A i \in 1 .. n - 1 :
       Events[i].hash.job = j /\ Events[n].hash.job = j =>
         \/ \E l \in i + 1 .. n - 1 : WritesAt(l, Events[i].key, j)
         \/ Events[i].type = "memory" /\ Events[i].record.kind # jobs[j].memory.kind

\* After a key was buried only what the user said later brings it back: no job
\* that worked on older words, or decided before, does (resolve_candidate)
Since(i, n, type) == \E l \in i + 1 .. n - 1 : Events[l].type = type /\ Events[l].key = Events[n].key
ForgottenStaysForgotten ==
  \A n \in DOMAIN Events : Events[n].type \in {"memory", "conflict"} =>
    \A i \in 1 .. n - 1 :
      (Events[i].type = "tombstone" /\ Events[i].key = Events[n].key /\ ~Since(i, n, "memory"))
        => /\ Events[n].type = "memory" /\ Events[n].record.source \in Explicit
           /\ Events[n].record.time > Events[i].time

\* What the user said is replaced by nothing that was inferred or planned,
\* through whatever conflicts; it takes the user's own word (resolve_candidate)
ExplicitStands ==
  \A n \in DOMAIN Events : Events[n].type = "memory" =>
    \A i \in 1 .. n - 1 :
      (/\ Events[i].type = "memory" /\ Events[i].key = Events[n].key
       /\ Events[i].record.source \in Explicit /\ ~Since(i, n, "tombstone"))
        => Events[n].record.source \in Explicit
=============================================================================
