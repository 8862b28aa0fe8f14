------------------------- MODULE MemoryStoreProofs -------------------------
(***************************************************************************)
(* Proofs about the memory store: however jobs, retries, decisions that    *)
(* arrive late, commands of the user and failed writes interleave, for any *)
(* keys, values, jobs and bounds, the log and what it comes to agree.  A   *)
(* reader should start from IInv.  Its parts are the types of all that is  *)
(* written (TypesFit), what the replay of the log is known to be (HeldFits:*)
(* the hashes applied are those of the events), that hashes and times are  *)
(* never used again (HashesDiffer, TimesFit), that the snapshot is the     *)
(* replay of a beginning of the log (SnapshotFits), and what is held of a  *)
(* key that was buried or that the user spoke of (BuriedFits, SpokenFits); *)
(* the last two are what ForgottenStaysForgotten and ExplicitStands, which *)
(* speak of the log alone, need in order to be inductive.                  *)
(*                                                                         *)
(* Replay is a recursive function; it is unfolded once (ReplayOfNothing,   *)
(* ReplayOfOneMore), by induction on the length of the log.  Every step    *)
(* then leaves the events as they are or adds one that is Admitted, and    *)
(* each part of the invariant is shown for such an event.                  *)
(***************************************************************************)
EXTENDS MemoryStore, FiniteSetTheorems, SequenceTheorems, TLAPS

-----------------------------------------------------------------------------
(* Induction: a set of natural numbers has a least element.  If it had     *)
(* none, m |-> m - 1 would map a finite set one to one into a part of it.  *)
(* (Stated in PlanModeProofs too, for the fold of a branch.)               *)

\* A set of natural numbers that is not empty has a least element.
LEMMA LeastElement ==
  ASSUME NEW T, T \subseteq Nat, T # {}
  PROVE  \E x \in T : \A y \in T : x <= y
<1>1. SUFFICES ASSUME \A x \in T : \E y \in T : y < x
               PROVE  FALSE
  OBVIOUS
<1>2. PICK n \in T : TRUE
  OBVIOUS
<1> DEFINE U == {m \in 0 .. n : \E y \in T : y <= m}
           f == [m \in U |-> m - 1]
<1>3. IsFiniteSet(U) /\ Cardinality(U) \in Nat
  <2>1. IsFiniteSet(0 .. n)
    BY <1>2, FS_Interval
  <2>2. IsFiniteSet(U)
    BY <2>1, FS_Subset
  <2>3. QED
    BY <2>2, FS_CardinalityType
<1>4. n \in U
  BY <1>2
<1>5. IsFiniteSet(U \ {n}) /\ Cardinality(U \ {n}) = Cardinality(U) - 1
  BY <1>3, <1>4, FS_RemoveElement
<1>6. \A m \in U : m - 1 \in U \ {n}
  <2>1. TAKE m \in U
  <2>2. PICK y \in T : y <= m
    OBVIOUS
  <2>3. PICK z \in T : z < y
    BY <1>1
  <2>4. QED
    BY <2>2, <2>3, <1>2
<1>7. f \in [U -> U \ {n}]
  BY <1>6
<1>8. PICK x, y \in U : x # y /\ f[x] = f[y]
  <2>1. Cardinality(U \ {n}) < Cardinality(U)
    BY <1>3, <1>5
  <2> HIDE DEF U, f
  <2>2. QED
    BY <1>3, <1>5, <1>7, <2>1, FS_PigeonHole
<1>9. QED
  BY <1>8

\* What holds of 0 and of n + 1 when it holds of n, holds of every number.
LEMMA Induction ==
  ASSUME NEW S, 0 \in S, \A n \in Nat : n \in S => n + 1 \in S
  PROVE  Nat \subseteq S
<1>1. SUFFICES ASSUME Nat \ S # {}
               PROVE  FALSE
  OBVIOUS
<1>2. PICK x \in Nat \ S : \A y \in Nat \ S : x <= y
  BY <1>1, LeastElement
<1>3. x - 1 \in Nat /\ x - 1 \in S
  BY <1>2
<1>4. QED
  BY <1>2, <1>3

-----------------------------------------------------------------------------
(* Replay: what a log comes to is what it came to before its last line,    *)
(* changed by that line.                                                   *)

\* f is the replay of the first n events.
IsReplay(f, events, n) ==
  f = [i \in 0 .. n |-> IF i = 0 THEN EmptyHeld ELSE Replayed(f[i - 1], events[i])]

\* There is a replay of any number of events.
LEMMA ReplayExists ==
  ASSUME NEW events
  PROVE  \A n \in Nat : \E f : IsReplay(f, events, n)
<1> DEFINE S == {n \in Nat : \E f : IsReplay(f, events, n)}
<1>1. 0 \in S
  <2>1. IsReplay([i \in 0 .. 0 |-> EmptyHeld], events, 0)
    BY DEF IsReplay
  <2>2. QED
    BY <2>1
<1>2. \A n \in Nat : n \in S => n + 1 \in S
  <2>1. SUFFICES ASSUME NEW n \in Nat, NEW f, IsReplay(f, events, n)
                 PROVE  \E g : IsReplay(g, events, n + 1)
    OBVIOUS
  <2> DEFINE g == [i \in 0 .. n + 1 |->
                     IF i = n + 1 THEN Replayed(f[n], events[i]) ELSE f[i]]
  <2>2. \A i \in 0 .. n + 1 :
          g[i] = IF i = 0 THEN EmptyHeld ELSE Replayed(g[i - 1], events[i])
    <3>1. TAKE i \in 0 .. n + 1
    <3>2. CASE i = n + 1
      BY <3>2
    <3>3. CASE i \in 0 .. n
      <4>1. g[i] = f[i] /\ (i # 0 => g[i - 1] = f[i - 1])
        BY <3>3
      <4>2. f[i] = IF i = 0 THEN EmptyHeld ELSE Replayed(f[i - 1], events[i])
        BY <2>1, <3>3 DEF IsReplay
      <4> HIDE DEF g
      <4>3. QED
        BY <4>1, <4>2
    <3>4. QED
      BY <3>2, <3>3
  <2>3. IsReplay(g, events, n + 1)
    BY <2>2 DEF IsReplay
  <2>4. QED
    BY <2>3
<1>3. QED
  BY <1>1, <1>2, Induction

\* A replay starts with nothing, and each event changes what is held.
LEMMA ReplaySteps ==
  ASSUME NEW events, NEW n \in Nat, NEW f, IsReplay(f, events, n)
  PROVE  /\ f[0] = EmptyHeld
         /\ \A i \in 1 .. n : f[i] = Replayed(f[i - 1], events[i])
<1> DEFINE F(i) == IF i = 0 THEN EmptyHeld ELSE Replayed(f[i - 1], events[i])
<1>1. f = [i \in 0 .. n |-> F(i)]
  BY DEF IsReplay
<1> HIDE DEF F
<1>2. \A i \in 0 .. n : f[i] = F(i)
  BY <1>1
<1>3. QED
  BY <1>2 DEF F

\* Replays of logs that begin alike begin alike.
LEMMA ReplayUnique ==
  ASSUME NEW events, NEW others, NEW n \in Nat, NEW m \in Nat, NEW f, NEW g,
         n <= m, \A i \in 1 .. n : events[i] = others[i],
         IsReplay(f, events, n), IsReplay(g, others, m)
  PROVE  f[n] = g[n]
<1> DEFINE S == {i \in Nat : i <= n => f[i] = g[i]}
<1>1. 0 \in S
  BY ReplaySteps
<1>2. \A i \in Nat : i \in S => i + 1 \in S
  <2>1. SUFFICES ASSUME NEW i \in Nat, f[i] = g[i], i + 1 <= n
                 PROVE  f[i + 1] = g[i + 1]
    OBVIOUS
  <2>2. i + 1 \in 1 .. n /\ i + 1 \in 1 .. m /\ i + 1 - 1 = i
    BY <2>1
  <2>3. f[i + 1] = Replayed(f[i + 1 - 1], events[i + 1])
    BY <2>2, ReplaySteps
  <2>4. g[i + 1] = Replayed(g[i + 1 - 1], others[i + 1])
    BY <2>2, ReplaySteps
  <2>5. QED
    BY <2>1, <2>2, <2>3, <2>4
<1> HIDE DEF S
<1>3. n \in S
  BY <1>1, <1>2, Induction
<1>4. QED
  BY <1>3 DEF S

\* What a log comes to.
LEMMA ReplayIs ==
  ASSUME NEW events, Len(events) \in Nat
  PROVE  \E f : IsReplay(f, events, Len(events)) /\ Replay(events) = f[Len(events)]
<1>1. Replay(events) = (CHOOSE f : IsReplay(f, events, Len(events)))[Len(events)]
  BY DEF Replay, IsReplay
<1>2. QED
  BY <1>1, ReplayExists

\* An empty log comes to nothing; one more event changes what is held.
LEMMA ReplayOfNothing == Replay(<<>>) = EmptyHeld
<1>1. PICK f : IsReplay(f, <<>>, 0) /\ Replay(<<>>) = f[0]
  BY ReplayIs
<1>2. QED
  BY <1>1 DEF IsReplay

\* One more event is one more step of the replay.
LEMMA ReplayOfOneMore ==
  ASSUME NEW S, NEW events \in Seq(S), NEW e \in S
  PROVE  Replay(Append(events, e)) = Replayed(Replay(events), e)
<1> DEFINE more == Append(events, e)
<1>1. PICK n \in Nat, m \in Nat :
        /\ n = Len(events) /\ m = n + 1 /\ m = Len(more) /\ more[m] = e
        /\ \A i \in 1 .. n : events[i] = more[i]
  OBVIOUS
<1> HIDE DEF more
<1>2. PICK f : IsReplay(f, events, n) /\ Replay(events) = f[n]
  BY <1>1, ReplayIs
<1>3. PICK g : IsReplay(g, more, m) /\ Replay(more) = g[m]
  BY <1>1, ReplayIs
<1>4. f[n] = g[n]
  <2>1. n <= m
    BY <1>1
  <2>2. \A i \in 1 .. n : events[i] = more[i]
    BY <1>1
  <2>3. IsReplay(f, events, n)
    BY <1>2
  <2>4. IsReplay(g, more, m)
    BY <1>3
  <2>5. QED
    BY <1>1, <2>1, <2>2, <2>3, <2>4, ReplayUnique, SMTT(60)
<1>5. g[m] = Replayed(g[n], e)
  <2>1. m \in 1 .. m /\ m - 1 = n
    BY <1>1
  <2>2. g[m] = Replayed(g[m - 1], more[m])
    BY <1>3, <2>1, ReplaySteps
  <2>3. QED
    BY <1>1, <2>1, <2>2
<1>6. QED
  BY <1>2, <1>3, <1>4, <1>5 DEF more

-----------------------------------------------------------------------------
(* Types.                                                                  *)

Keys == Key \cup {None}
Prints == Kind \X Keys \X Value
Hashes == [job : Job \cup {None}, n : Nat, key : Keys, value : Value \cup {None},
           relation : Keys, print : Prints \cup {None}]
Records == [id : Nat \ {0}, value : Value, kind : Kind, source : Sources, time : Nat,
            print : Prints]
Types == {"memory", "conflict", "tombstone", "rejected"}

\* The events a log holds.
Lines ==
  {e \in [type : Types, key : Key, record : Records \cup {NoRecord},
          rivals : Seq(Records), time : Nat, hash : Hashes] :
     e.type = "memory" => e.record \in Records}

Helds == [memories : [Key -> Records \cup {NoRecord}], conflicts : [Key -> Seq(Records)],
          tombstones : [Key -> Nat], applied : SUBSET Hashes]

\* What is buried is not held, and what is disputed is not a memory.
WellHeld(S) ==
  /\ S \in Helds
  /\ \A k \in Key :
       /\ S.tombstones[k] # 0 => S.memories[k] = NoRecord /\ S.conflicts[k] = <<>>
       /\ S.conflicts[k] # <<>> => S.memories[k] = NoRecord

\* What a job or a user's command asks for: a memory, or that a key is buried.
Upserts == [operation : {"upsert"}, key : Key, value : Value, kind : Kind,
            source : Sources, time : Nat, print : Prints, relation : Keys, hash : Hashes]
Retractions == [operation : {"retract"}, key : Key, value : {None}, kind : {None},
                source : Sources, time : Nat, print : {None}, relation : {None},
                hash : Hashes]

\* There are four authorities, in this order.
LEMMA Authorities ==
  /\ Sources = {"inferred_user", "accepted_plan", "explicit_user", "explicit_correction"}
  /\ Authority["inferred_user"] = 1 /\ Authority["accepted_plan"] = 2
  /\ Authority["explicit_user"] = 3 /\ Authority["explicit_correction"] = 4
BY DEF Sources, Authority

\* Among some records there is one of the highest authority.
LEMMA StrongestIs ==
  ASSUME NEW S \in SUBSET Records, S # {}
  PROVE  Strongest(S) \in S /\ \A q \in S : ~Stronger(q.source, Strongest(S).source)
<1>1. \E r \in S : \A q \in S : ~Stronger(q.source, r.source)
  <2>1. \A r \in S : Authority[r.source] \in 1 .. 4
    BY Authorities DEF Records
  <2> DEFINE A(r) == Authority[r.source]
  <2> HIDE DEF A
  <2>2. \A r \in S : A(r) \in 1 .. 4
    BY <2>1 DEF A
  <2>3. \E r \in S : \A q \in S : ~(A(q) > A(r))
    <3>1. CASE \E r \in S : A(r) = 4
      BY <2>2, <3>1
    <3>2. CASE (\E r \in S : A(r) = 3) /\ ~(\E r \in S : A(r) = 4)
      BY <2>2, <3>2
    <3>3. CASE (\E r \in S : A(r) = 2) /\ ~(\E r \in S : A(r) \in {3, 4})
      BY <2>2, <3>3
    <3>4. CASE ~(\E r \in S : A(r) \in {2, 3, 4})
      BY <2>2, <3>4
    <3>5. QED
      BY <3>1, <3>2, <3>3, <3>4
  <2>4. QED
    BY <2>3 DEF A, Stronger
<1>2. QED
  BY <1>1 DEF Strongest

\* The least of some numbers is one of them.
LEMMA MinIs ==
  ASSUME NEW T, T \subseteq Nat, T # {}
  PROVE  Min(T) \in T
BY LeastElement DEF Min

-----------------------------------------------------------------------------
(* What a candidate leads to.                                              *)

\* The user's own word is among what is held under a key.
Spoken(S, k) == \E r \in RecordsAt(S, k) : r.source \in Explicit

\* What may come of a candidate: nothing brings back what is buried but the
\* user's own later word, and nothing else replaces the user's word.
Permitted(S, c, type, record, rivals) ==
  /\ type \in Types /\ record \in Records \cup {NoRecord} /\ rivals \in Seq(Records)
  /\ type = "memory" =>
       /\ record \in Records
       /\ S.tombstones[c.key] # 0 =>
            record.source \in Explicit /\ record.time > S.tombstones[c.key]
       /\ Spoken(S, c.key) => record.source \in Explicit
  /\ type = "conflict" =>
       /\ S.tombstones[c.key] = 0 /\ rivals # <<>>
       /\ Spoken(S, c.key) => \E i \in DOMAIN rivals : rivals[i].source \in Explicit

\* The outcome is a permitted one.
Due(S, c, o, now) ==
  \E type \in Types : \E record, rivals :
    /\ Permitted(S, c, type, record, rivals)
    /\ o = Outcome(S, c, type, record, rivals, now)

\* The record made of a candidate.
LEMMA RecordFits ==
  ASSUME NEW c \in Upserts, NEW id \in Nat \ {0}
  PROVE  /\ Record(id, c) \in Records /\ Record(id, c).source = c.source
         /\ Record(id, c).time = c.time /\ Record(id, c).value = c.value
BY DEF Record, Records, Upserts

\* Nothing that is held is no record.
LEMMA NoRecordIsNone == NoRecord \notin Records
BY MemoryAssumption DEF NoRecord, Records

\* What is held under a key are records.
LEMMA RecordsAtFit ==
  ASSUME NEW S, WellHeld(S), NEW k \in Key
  PROVE  /\ RecordsAt(S, k) \in SUBSET Records
         /\ S.memories[k] \in Records \cup {NoRecord} /\ S.conflicts[k] \in Seq(Records)
         /\ S.tombstones[k] \in Nat
         /\ S.conflicts[k] # <<>> =>
              /\ S.memories[k] = NoRecord
              /\ RecordsAt(S, k) = Range(S.conflicts[k])
         /\ Held(S, k) => S.conflicts[k] = <<>> /\ RecordsAt(S, k) = {S.memories[k]}
         /\ S.conflicts[k] = <<>> /\ ~Held(S, k) => RecordsAt(S, k) = {}
         /\ S.tombstones[k] # 0 => S.conflicts[k] = <<>> /\ ~Held(S, k)
<1>1. /\ S.memories[k] \in Records \cup {NoRecord} /\ S.conflicts[k] \in Seq(Records)
      /\ S.tombstones[k] \in Nat
  BY DEF WellHeld, Helds
<1>2. /\ S.tombstones[k] # 0 => S.memories[k] = NoRecord /\ S.conflicts[k] = <<>>
      /\ S.conflicts[k] # <<>> => S.memories[k] = NoRecord
  BY DEF WellHeld
<1>3. Range(S.conflicts[k]) \in SUBSET Records
  BY <1>1 DEF Range
<1>4. Range(<<>>) = {}
  BY DEF Range
<1>5. QED
  BY <1>1, <1>2, <1>3, <1>4, NoRecordIsNone DEF RecordsAt, Held

\* The user's word about a conflict settles it; somebody else's only if it
\* outweighs all that is disputed, so not against the user's.
LEMMA RivalsFit ==
  ASSUME NEW S, WellHeld(S), NEW c \in Upserts, NEW new \in Records, NEW now \in Nat,
         new.source = c.source, S.conflicts[c.key] # <<>>
  PROVE  Due(S, c, ResolveRivals(S, c, new, now), now)
<1> DEFINE rivals == S.conflicts[c.key]
           same == {i \in DOMAIN rivals : rivals[i].value = new.value}
           chosen == IF same = {} THEN new
                     ELSE [rivals[Min(same)] EXCEPT !.source = c.source, !.time = c.time,
                                                    !.print = c.print]
<1>1. /\ c.key \in Key /\ c.source \in Sources /\ c.time \in Nat /\ c.print \in Prints
  BY DEF Upserts
<1>2. /\ rivals \in Seq(Records) /\ S.tombstones[c.key] = 0
      /\ RecordsAt(S, c.key) = {rivals[i] : i \in DOMAIN rivals}
  BY <1>1, RecordsAtFit DEF Range
<1>3. chosen \in Records /\ chosen.source = c.source
  <2>1. CASE same = {}
    BY <2>1
  <2>2. CASE same # {}
    <3>1. same \subseteq Nat
      BY <1>2
    <3>2. Min(same) \in same
      BY <2>2, <3>1, MinIs
    <3>3. Min(same) \in DOMAIN rivals
      BY <3>2
    <3> HIDE DEF same, rivals
    <3>4. rivals[Min(same)] \in Records
      BY <1>2, <3>3
    <3>5. QED
      BY <1>1, <2>2, <3>4 DEF Records
  <2>3. QED
    BY <2>1, <2>2
<1>4. CASE Settles(c, rivals, same)
  <2>1. Spoken(S, c.key) => c.source \in Explicit
    <3>1. SUFFICES ASSUME NEW i \in DOMAIN rivals, rivals[i].source \in Explicit,
                          Stronger(c.source, Strongest(Range(rivals)).source)
                   PROVE  c.source \in Explicit
      BY <1>2, <1>4 DEF Settles, Spoken
    <3>2. Range(rivals) \in SUBSET Records /\ rivals[i] \in Range(rivals)
      BY <1>2 DEF Range
    <3>3. /\ Strongest(Range(rivals)) \in Records
          /\ ~Stronger(rivals[i].source, Strongest(Range(rivals)).source)
      BY <3>2, StrongestIs
    <3>4. /\ Strongest(Range(rivals)).source \in Sources
          /\ rivals[i].source \in Sources
      BY <3>2, <3>3 DEF Records
    <3> HIDE DEF rivals
    <3>5. QED
      BY <1>1, <3>1, <3>3, <3>4, Authorities DEF Stronger, Explicit
  <2>2. ResolveRivals(S, c, new, now) = Outcome(S, c, "memory", chosen, <<>>, now)
    BY <1>4 DEF ResolveRivals, Becomes
  <2> HIDE DEF chosen, same, rivals
  <2>3. Permitted(S, c, "memory", chosen, <<>>)
    BY <1>2, <1>3, <2>1 DEF Permitted, Types
  <2>4. QED
    BY <2>2, <2>3 DEF Due, Types
<1>5. CASE ~Settles(c, rivals, same)
  <2> DEFINE more == IF same = {} THEN Append(rivals, new) ELSE rivals
  <2>1. ResolveRivals(S, c, new, now) = Outcome(S, c, "conflict", NoRecord, more, now)
    BY <1>5 DEF ResolveRivals, Conflicts
  <2>2. /\ more \in Seq(Records) /\ more # <<>>
        /\ \A i \in DOMAIN rivals : i \in DOMAIN more /\ more[i] = rivals[i]
    BY <1>2
  <2> HIDE DEF more, chosen, same, rivals
  <2>3. Permitted(S, c, "conflict", NoRecord, more)
    BY <1>2, <2>2 DEF Permitted, Types, Spoken
  <2>4. QED
    BY <2>1, <2>3 DEF Due, Types
<1>6. QED
  BY <1>4, <1>5

\* A memory is reinforced, replaced by what has the authority, or disputed.
LEMMA ActiveFits ==
  ASSUME NEW S, WellHeld(S), NEW c \in Upserts, NEW new \in Records, NEW now \in Nat,
         new.source = c.source, Held(S, c.key)
  PROVE  Due(S, c, ResolveActive(S, c, new, now), now)
<1> DEFINE old == S.memories[c.key]
<1>1. c.key \in Key /\ c.source \in Sources
  BY DEF Upserts
<1>2. /\ old \in Records /\ S.tombstones[c.key] = 0
      /\ Spoken(S, c.key) <=> old.source \in Explicit
  BY <1>1, RecordsAtFit DEF Spoken, Held
<1>3. old.source \in Sources /\ new.source \in Sources
  BY <1>2 DEF Records
<1> HIDE DEF old
<1>4. CASE ResolveActive(S, c, new, now) = Conflicts(S, c, <<old, new>>, now)
  <2>1. /\ <<old, new>> \in Seq(Records) /\ <<old, new>> # <<>>
        /\ 1 \in DOMAIN <<old, new>> /\ <<old, new>>[1] = old
    BY <1>2
  <2>2. Permitted(S, c, "conflict", NoRecord, <<old, new>>)
    BY <1>2, <2>1 DEF Permitted, Types
  <2>3. QED
    BY <1>4, <2>2 DEF Due, Conflicts, Types
<1>5. ASSUME NEW r \in Records, old.source \in Explicit => r.source \in Explicit,
             ResolveActive(S, c, new, now) = Becomes(S, c, r, now)
      PROVE  Due(S, c, ResolveActive(S, c, new, now), now)
  <2>1. Permitted(S, c, "memory", r, <<>>)
    BY <1>2, <1>5 DEF Permitted, Types
  <2>2. QED
    BY <1>5, <2>1 DEF Due, Becomes, Types
<1>6. CASE ResolveActive(S, c, new, now) = Rejected(S, c, now)
  <2>1. Permitted(S, c, "rejected", NoRecord, <<>>)
    BY DEF Permitted, Types
  <2>2. QED
    BY <1>6, <2>1 DEF Due, Rejected, Types
<1>7. /\ Reinforced(old, new) \in Records
      /\ old.source \in Explicit => Reinforced(old, new).source \in Explicit
  <2>1. CASE Stronger(old.source, new.source)
    <3>1. Reinforced(old, new) = [old EXCEPT !.print = new.print]
      BY <2>1 DEF Reinforced
    <3>2. QED
      BY <1>2, <3>1 DEF Records
  <2>2. CASE ~Stronger(old.source, new.source)
    <3>1. Reinforced(old, new) =
            [old EXCEPT !.source = new.source, !.time = new.time, !.print = new.print]
      BY <1>2, <2>2 DEF Reinforced, Records
    <3>2. old.source \in Explicit => new.source \in Explicit
      BY <1>3, <2>2, Authorities DEF Stronger, Explicit
    <3>3. QED
      BY <1>2, <3>1, <3>2 DEF Records
  <2>3. QED
    BY <2>1, <2>2
<1>8. Stronger(c.source, old.source) \/ c.source = "explicit_correction" =>
        (old.source \in Explicit => new.source \in Explicit)
  BY <1>1, <1>3, Authorities DEF Stronger, Explicit
<1>9. \/ ResolveActive(S, c, new, now) = Conflicts(S, c, <<old, new>>, now)
      \/ ResolveActive(S, c, new, now) = Rejected(S, c, now)
      \/ ResolveActive(S, c, new, now) = Becomes(S, c, Reinforced(old, new), now)
      \/ /\ ResolveActive(S, c, new, now) = Becomes(S, c, new, now)
         /\ Stronger(c.source, old.source) \/ c.source = "explicit_correction"
  BY DEF ResolveActive, Supersedes, old
<1>10. QED
  BY <1>4, <1>5, <1>6, <1>7, <1>8, <1>9

\* Whatever a candidate leads to is permitted; what was applied leads to nothing.
LEMMA ResolveFits ==
  ASSUME NEW S, WellHeld(S), NEW c \in Upserts \cup Retractions, NEW id \in Nat \ {0},
         NEW now \in Nat
  PROVE  \/ c.hash \in S.applied /\ Resolve(S, c, id, now) = NoOutcome(S)
         \/ c.hash \notin S.applied /\ Due(S, c, Resolve(S, c, id, now), now)
<1> DEFINE o == Resolve(S, c, id, now)
<1>1. CASE c.hash \in S.applied
  BY <1>1 DEF Resolve
<1>2. CASE c.hash \notin S.applied /\ c.operation = "retract"
  <2>1. o = Outcome(S, c, "tombstone", NoRecord, <<>>, now)
    BY <1>2 DEF Resolve
  <2>2. Permitted(S, c, "tombstone", NoRecord, <<>>)
    BY DEF Permitted, Types
  <2> HIDE DEF o
  <2>3. Due(S, c, o, now)
    BY <2>1, <2>2 DEF Due, Types
  <2>4. QED
    BY <1>2, <2>3 DEF o
<1>3. CASE c.hash \notin S.applied /\ c.operation # "retract"
  <2>1. c \in Upserts
    BY <1>3 DEF Retractions
  <2> DEFINE new == Record(id, c)
             old == RecordsAt(S, c.key)
             stale == \/ S.tombstones[c.key] # 0 /\ ~MayRecreate(c, S.tombstones[c.key])
                      \/ \E r \in old : r.time > c.time
  <2>2. new \in Records /\ new.source = c.source /\ new.time = c.time
    BY <2>1, RecordFits
  <2>3. c.key \in Key
    BY <2>1 DEF Upserts
  <2>4. CASE stale
    <3>1. o = Outcome(S, c, "rejected", NoRecord, <<>>, now)
      BY <1>3, <2>4 DEF Resolve, Rejected
    <3>2. Permitted(S, c, "rejected", NoRecord, <<>>)
      BY DEF Permitted, Types
    <3> HIDE DEF o
    <3>3. QED
      BY <1>3, <3>1, <3>2 DEF Due, Types, o
  <2>5. CASE ~stale /\ S.conflicts[c.key] # <<>>
    <3>1. o = ResolveRivals(S, c, new, now)
      BY <1>3, <2>5 DEF Resolve
    <3> HIDE DEF new, o
    <3>2. QED
      BY <1>3, <2>1, <2>2, <2>5, <3>1, RivalsFit DEF o
  <2>6. CASE ~stale /\ S.conflicts[c.key] = <<>> /\ Held(S, c.key)
    <3>1. o = ResolveActive(S, c, new, now)
      BY <1>3, <2>6 DEF Resolve
    <3> HIDE DEF new, o
    <3>2. QED
      BY <1>3, <2>1, <2>2, <2>6, <3>1, ActiveFits DEF o
  <2>7. CASE ~stale /\ S.conflicts[c.key] = <<>> /\ ~Held(S, c.key)
    <3>1. o = Outcome(S, c, "memory", new, <<>>, now)
      BY <1>3, <2>7 DEF Resolve, Becomes
    <3>2. S.tombstones[c.key] # 0 => c.source \in Explicit /\ c.time > S.tombstones[c.key]
      BY <2>7 DEF MayRecreate
    <3>3. ~Spoken(S, c.key)
      BY <2>3, <2>7, RecordsAtFit DEF Spoken
    <3> HIDE DEF new, o
    <3>4. Permitted(S, c, "memory", new, <<>>)
      BY <2>2, <3>2, <3>3 DEF Permitted, Types
    <3>5. QED
      BY <1>3, <3>1, <3>4 DEF Due, Types, o
  <2>8. QED
    BY <2>4, <2>5, <2>6, <2>7
<1>4. QED
  BY <1>1, <1>2, <1>3

-----------------------------------------------------------------------------
(* What an event changes.                                                  *)

\* An event leaves the other keys alone.
LEMMA ReplayedElsewhere ==
  ASSUME NEW S, WellHeld(S), NEW e \in Lines, NEW k \in Key, k # e.key
  PROVE  /\ RecordsAt(Replayed(S, e), k) = RecordsAt(S, k)
         /\ Replayed(S, e).tombstones[k] = S.tombstones[k]
<1>1. e.type \in Types /\ e.key \in Key
  BY DEF Lines
<1>2. /\ Replayed(S, e).memories[k] = S.memories[k]
      /\ Replayed(S, e).conflicts[k] = S.conflicts[k]
      /\ Replayed(S, e).tombstones[k] = S.tombstones[k]
  BY <1>1 DEF Types, Replayed, RecordReplayed, WellHeld, Helds
<1>3. QED
  BY <1>2 DEF RecordsAt, Held

\* At its key an event puts a memory, a conflict, a tombstone or nothing.
LEMMA ReplayedThere ==
  ASSUME NEW S, WellHeld(S), NEW e \in Lines,
         e.type = "conflict" => S.tombstones[e.key] = 0
  PROVE  LET T == Replayed(S, e) IN
         /\ WellHeld(T) /\ T.applied = S.applied \cup {e.hash}
         /\ e.type = "memory" =>
              RecordsAt(T, e.key) = {e.record} /\ T.tombstones[e.key] = 0
         /\ e.type = "conflict" =>
              /\ RecordsAt(T, e.key) = {e.rivals[i] : i \in DOMAIN e.rivals}
              /\ T.tombstones[e.key] = 0
         /\ e.type = "tombstone" =>
              RecordsAt(T, e.key) = {} /\ T.tombstones[e.key] = e.time
         /\ e.type = "rejected" =>
              /\ RecordsAt(T, e.key) = RecordsAt(S, e.key)
              /\ T.tombstones[e.key] = S.tombstones[e.key]
<1> DEFINE T == Replayed(S, e)
<1>1. /\ e.type \in Types /\ e.key \in Key /\ e.rivals \in Seq(Records)
      /\ e.time \in Nat /\ e.hash \in Hashes
      /\ e.type = "memory" => e.record \in Records
  BY DEF Lines
<1>2. S \in Helds
  BY DEF WellHeld
<1>3. CASE e.type = "memory"
  <2>1. T = [S EXCEPT !.memories[e.key] = e.record, !.conflicts[e.key] = <<>>,
                      !.tombstones[e.key] = 0, !.applied = @ \cup {e.hash}]
    BY <1>2, <1>3 DEF Replayed, RecordReplayed, Helds
  <2> HIDE DEF T
  <2>2. T \in Helds /\ T.applied = S.applied \cup {e.hash}
    <3>1. /\ [S.memories EXCEPT ![e.key] = e.record] \in [Key -> Records \cup {NoRecord}]
          /\ [S.conflicts EXCEPT ![e.key] = <<>>] \in [Key -> Seq(Records)]
          /\ [S.tombstones EXCEPT ![e.key] = 0] \in [Key -> Nat]
          /\ S.applied \cup {e.hash} \in SUBSET Hashes
      BY <1>1, <1>2, <1>3 DEF Helds
    <3>2. QED
      BY <1>2, <2>1, <3>1 DEF Helds
  <2>3. /\ T.memories[e.key] = e.record /\ T.conflicts[e.key] = <<>>
        /\ T.tombstones[e.key] = 0
        /\ \A k \in Key : k # e.key =>
             /\ T.memories[k] = S.memories[k] /\ T.conflicts[k] = S.conflicts[k]
             /\ T.tombstones[k] = S.tombstones[k]
    BY <1>1, <1>2, <2>1 DEF Helds
  <2>4. WellHeld(T)
    BY <2>2, <2>3 DEF WellHeld
  <2>5. RecordsAt(T, e.key) = {e.record}
    BY <1>1, <1>3, <2>3, NoRecordIsNone DEF RecordsAt, Held, Range
  <2>6. QED
    BY <1>3, <2>2, <2>3, <2>4, <2>5 DEF T
<1>4. CASE e.type = "conflict"
  <2>1. T = [S EXCEPT !.memories[e.key] = NoRecord, !.conflicts[e.key] = e.rivals,
                      !.applied = @ \cup {e.hash}]
    BY <1>2, <1>4 DEF Replayed, Helds
  <2> HIDE DEF T
  <2>2. T \in Helds /\ T.applied = S.applied \cup {e.hash}
    BY <1>1, <1>2, <2>1 DEF Helds
  <2>3. /\ T.memories[e.key] = NoRecord /\ T.conflicts[e.key] = e.rivals
        /\ T.tombstones[e.key] = 0
        /\ \A k \in Key : k # e.key =>
             /\ T.memories[k] = S.memories[k] /\ T.conflicts[k] = S.conflicts[k]
             /\ T.tombstones[k] = S.tombstones[k]
    BY <1>1, <1>2, <1>4, <2>1 DEF Helds
  <2>4. WellHeld(T)
    BY <2>2, <2>3 DEF WellHeld
  <2>5. RecordsAt(T, e.key) = {e.rivals[i] : i \in DOMAIN e.rivals}
    BY <2>3 DEF RecordsAt, Held, Range
  <2>6. QED
    BY <1>4, <2>2, <2>3, <2>4, <2>5 DEF T
<1>5. CASE e.type = "tombstone"
  <2>1. T = [S EXCEPT !.memories[e.key] = NoRecord, !.conflicts[e.key] = <<>>,
                      !.tombstones[e.key] = e.time, !.applied = @ \cup {e.hash}]
    BY <1>2, <1>5 DEF Replayed, Helds
  <2> HIDE DEF T
  <2>2. T \in Helds /\ T.applied = S.applied \cup {e.hash}
    <3>1. /\ [S.memories EXCEPT ![e.key] = NoRecord] \in [Key -> Records \cup {NoRecord}]
          /\ [S.conflicts EXCEPT ![e.key] = <<>>] \in [Key -> Seq(Records)]
          /\ [S.tombstones EXCEPT ![e.key] = e.time] \in [Key -> Nat]
          /\ S.applied \cup {e.hash} \in SUBSET Hashes
      BY <1>1, <1>2, <1>5 DEF Helds
    <3>2. QED
      BY <1>2, <2>1, <3>1 DEF Helds
  <2>3. /\ T.memories[e.key] = NoRecord /\ T.conflicts[e.key] = <<>>
        /\ T.tombstones[e.key] = e.time
        /\ \A k \in Key : k # e.key =>
             /\ T.memories[k] = S.memories[k] /\ T.conflicts[k] = S.conflicts[k]
             /\ T.tombstones[k] = S.tombstones[k]
    BY <1>1, <1>2, <2>1 DEF Helds
  <2>4. WellHeld(T)
    BY <2>2, <2>3 DEF WellHeld
  <2>5. RecordsAt(T, e.key) = {}
    BY <2>3 DEF RecordsAt, Held, Range
  <2>6. QED
    BY <1>5, <2>2, <2>3, <2>4, <2>5 DEF T
<1>6. CASE e.type = "rejected"
  <2>1. T = [S EXCEPT !.applied = @ \cup {e.hash}]
    BY <1>6 DEF Replayed
  <2> HIDE DEF T
  <2>2. T \in Helds /\ T.applied = S.applied \cup {e.hash}
        /\ T.memories = S.memories /\ T.conflicts = S.conflicts
        /\ T.tombstones = S.tombstones
    BY <1>1, <1>2, <2>1 DEF Helds
  <2>3. WellHeld(T)
    BY <2>2 DEF WellHeld
  <2>4. RecordsAt(T, e.key) = RecordsAt(S, e.key)
    BY <2>2 DEF RecordsAt, Held
  <2>5. QED
    BY <1>6, <2>2, <2>3, <2>4 DEF T
<1>7. QED
  BY <1>1, <1>3, <1>4, <1>5, <1>6 DEF Types

\* The event of an outcome says what the outcome is: replayed, it leaves what the
\* outcome leaves.
LEMMA OutcomeFits ==
  ASSUME NEW S, WellHeld(S), NEW c \in Upserts \cup Retractions, NEW now \in Nat,
         NEW type, NEW record, NEW rivals, Permitted(S, c, type, record, rivals)
  PROVE  LET o == Outcome(S, c, type, record, rivals, now) IN
         /\ o.some /\ o.event \in Lines
         /\ o.event = Event(type, c.key, record, rivals, now, c.hash)
         /\ o.held = Replayed(S, o.event)
<1> DEFINE o == Outcome(S, c, type, record, rivals, now)
           e == Event(type, c.key, record, rivals, now, c.hash)
<1>1. c.key \in Key /\ c.hash \in Hashes
  BY DEF Upserts, Retractions
<1>2. type \in Types /\ record \in Records \cup {NoRecord} /\ rivals \in Seq(Records)
      /\ (type = "memory" => record \in Records)
  BY DEF Permitted
<1>3. e \in Lines
  BY <1>1, <1>2 DEF Event, Lines
<1>4. /\ e.type = type /\ e.key = c.key /\ e.record = record /\ e.rivals = rivals
      /\ e.time = now /\ e.hash = c.hash
  BY DEF Event
<1>5. o.some /\ o.event = e
  BY DEF Outcome
<1> HIDE DEF e
<1>6. S \in Helds
  BY DEF WellHeld
<1>7. o.held = Replayed(S, e)
  <2>1. CASE type = "memory"
    BY <1>4, <2>1 DEF Outcome, Replayed, RecordReplayed
  <2>2. CASE type = "conflict"
    <3>1. S.tombstones[c.key] = 0
      BY <2>2 DEF Permitted
    <3>2. [S.tombstones EXCEPT ![c.key] = 0] = S.tombstones
      BY <1>1, <1>6, <3>1 DEF Helds
    <3>3. [S EXCEPT !.memories[c.key] = NoRecord, !.conflicts[c.key] = rivals,
                    !.tombstones[c.key] = 0]
          = [S EXCEPT !.memories[c.key] = NoRecord, !.conflicts[c.key] = rivals]
      BY <1>6, <3>2 DEF Helds
    <3>4. QED
      BY <1>4, <2>2, <3>3 DEF Outcome, Replayed
  <2>3. CASE type = "tombstone"
    BY <1>4, <2>3 DEF Outcome, Replayed
  <2>4. CASE type = "rejected"
    BY <1>4, <2>4 DEF Outcome, Replayed
  <2>5. QED
    BY <1>2, <2>1, <2>2, <2>3, <2>4 DEF Types
<1>8. QED
  BY <1>3, <1>5, <1>7 DEF e

-----------------------------------------------------------------------------
(* The files.                                                              *)

\* Only the last line of the log may be incomplete.
LogFits ==
  /\ log \in Seq(Lines \cup Fragments)
  /\ \A i \in DOMAIN log : log[i] \in Fragments => i = Len(log)

\* What is left of an interrupted append is no event.
LEMMA FragmentIsNone == Fragments \cap Lines = {}
BY DEF Fragments, Fragment, Garbled, Event, Lines, Types

\* The log is its events, with what an interrupted append left behind them.
LEMMA EventsFit ==
  ASSUME LogFits
  PROVE  /\ Events \in Seq(Lines)
         /\ log = Events \/ \E f \in Fragments : log = Append(Events, f)
<1>1. CASE log # <<>> /\ Last(log) \in Fragments
  <2>1. Events = Front(log)
    BY <1>1 DEF Events, TailRepaired
  <2>2. Events \in Seq(Lines)
    BY <1>1, <2>1 DEF LogFits, Front
  <2>3. log = Append(Front(log), Last(log))
    BY <1>1 DEF LogFits, Front, Last
  <2>4. QED
    BY <1>1, <2>1, <2>2, <2>3
<1>2. CASE ~(log # <<>> /\ Last(log) \in Fragments)
  <2>1. Events = log
    BY <1>2 DEF Events, TailRepaired
  <2>2. \A i \in DOMAIN log : log[i] \notin Fragments
    BY <1>2 DEF LogFits, Last
  <2>3. \A i \in DOMAIN log : log[i] \in Lines
    BY <2>2 DEF LogFits
  <2>4. log \in Seq(Lines)
    BY <2>3 DEF LogFits
  <2>5. QED
    BY <2>1, <2>4
<1>3. QED
  BY <1>1, <1>2

\* A log that ends in an event is its own events; one that ends in a fragment is
\* what comes before it.
LEMMA LogOf ==
  ASSUME NEW lines \in Seq(Lines)
  PROVE  /\ TailRepaired(lines) = lines
         /\ \A f \in Fragments : TailRepaired(Append(lines, f)) = lines
<1>1. TailRepaired(lines) = lines
  BY FragmentIsNone DEF TailRepaired, Last
<1>2. ASSUME NEW f \in Fragments
      PROVE  /\ Append(lines, f) # <<>> /\ Last(Append(lines, f)) = f
             /\ Front(Append(lines, f)) = lines
  BY DEF Last, Front
<1>3. QED
  BY <1>1, <1>2 DEF TailRepaired

-----------------------------------------------------------------------------
(* The inductive invariant.                                                *)

\* What is said again is said of some record.
Judgements ==
  {d \in [ignore : BOOLEAN, target : Nat, key : Keys, reinforces : BOOLEAN] :
     d.reinforces => d.target # 0}
JobStates == [at : {"extract", "decide", "resume", "apply", "done"},
              memory : Memories \cup {NoMemory}, time : Nat, decision : Judgements]
Commands == [op : {None, "remember", "forget"}, memory : Memories \cup {NoMemory},
             time : Nat, decision : Judgements, keys : SUBSET Key, tries : Nat]

\* A job that decides or applies has a memory, one that applies a decision.
JobsFit ==
  /\ jobs \in [Job -> JobStates]
  /\ \A j \in Job :
       /\ jobs[j].at \in {"decide", "resume", "apply"} => jobs[j].memory \in Memories
       /\ jobs[j].at \in {"resume", "apply"} => jobs[j].decision.key \in Key

\* What is to be remembered is a memory, and it is decided where.
CommandFits ==
  /\ command \in Commands
  /\ command.op = "remember" => command.memory \in Memories /\ command.decision.key \in Key

TypesFit == LogFits /\ JobsFit /\ CommandFits /\ clock \in Nat \ {0}

\* What the log comes to is well held, and has the hash of every event.
HeldFits ==
  WellHeld(Loaded) /\ Loaded.applied = {Events[i].hash : i \in DOMAIN Events}

\* No two events have the same hash.
HashesDiffer ==
  \A i, l \in DOMAIN Events : Events[i].hash = Events[l].hash => i = l

\* Events are of the past.
TimesFit == \A i \in DOMAIN Events : Events[i].time \in 1 .. clock

\* The snapshot is the replay of a part of the log.
SnapshotFits == snapshot.revision \in 0 .. Len(Events) /\ SnapshotIsReplay

\* What happened to the key of an event after it.
After(i, type) ==
  \E l \in DOMAIN Events : l > i /\ Events[l].type = type /\ Events[l].key = Events[i].key

\* What was buried and never came back is buried now, by a tombstone as late.
BuriedFits ==
  \A i \in DOMAIN Events :
    Events[i].type = "tombstone" /\ ~After(i, "memory")
      => Loaded.tombstones[Events[i].key] >= Events[i].time

\* What the user said and was never buried is held, or stands among the rivals.
SpokenFits ==
  \A i \in DOMAIN Events :
    /\ Events[i].type = "memory" /\ Events[i].record.source \in Explicit
    /\ ~After(i, "tombstone")
    => Spoken(Loaded, Events[i].key)

IInv ==
  /\ TypesFit /\ HeldFits /\ HashesDiffer /\ TimesFit /\ SnapshotFits
  /\ BuriedFits /\ SpokenFits /\ ForgottenStaysForgotten /\ ExplicitStands

-----------------------------------------------------------------------------
(* Every step leaves the events as they are or admits one more.            *)

\* An event that may come next.
Admitted(e) ==
  /\ e \in Lines /\ e.hash \notin Loaded.applied /\ e.time = clock
  /\ Permitted(Loaded, e, e.type, e.record, e.rivals)

\* What a step does to the log and to the snapshot.
LogChange ==
  \/ Events' = Events /\ snapshot' \in {snapshot, Materialised}
  \/ \E e \in Lines :
       /\ Admitted(e) /\ Events' = Append(Events, e)
       /\ snapshot' \in {Materialised,
                         [revision |-> Len(Events) + 1, held |-> Replayed(Loaded, e)]}

\* A read changes nothing but the snapshot.
LEMMA ReadsChange ==
  ASSUME LogFits, Reads
  PROVE  LogFits' /\ LogChange
BY DEF Reads, LogFits, LogChange, Events

\* A write admits one event or none, all of it or half of it.
LEMMA WritesChange ==
  ASSUME TypesFit, HeldFits, NEW c \in Upserts \cup Retractions,
         Writes(Resolve(Loaded, c, NextId, clock)) \/ Breaks(Resolve(Loaded, c, NextId, clock))
  PROVE  LogFits' /\ LogChange
<1> DEFINE o == Resolve(Loaded, c, NextId, clock)
<1>1. Events \in Seq(Lines) /\ Events = TailRepaired(log)
  BY EventsFit DEF TypesFit, Events
<1>2. NextId \in Nat \ {0} /\ clock \in Nat /\ WellHeld(Loaded)
  BY <1>1 DEF NextId, TypesFit, HeldFits
<1>3. ASSUME log' = Events
      PROVE  LogFits' /\ Events' = Events
  <2>1. LogFits'
    BY <1>1, <1>3, FragmentIsNone DEF LogFits
  <2>2. Events' = TailRepaired(log')
    BY DEF Events
  <2>3. QED
    BY <1>1, <1>3, <2>1, <2>2, LogOf
<1>4. ASSUME NEW f \in Fragments, log' = Append(Events, f)
      PROVE  LogFits' /\ Events' = Events
  <2>1. LogFits'
    BY <1>1, <1>4, FragmentIsNone DEF LogFits
  <2>2. Events' = TailRepaired(log')
    BY DEF Events
  <2>3. QED
    BY <1>1, <1>4, <2>1, <2>2, LogOf
<1>5. ASSUME NEW e \in Lines, log' = Append(Events, e)
      PROVE  LogFits' /\ Events' = Append(Events, e)
  <2>1. log' \in Seq(Lines)
    BY <1>1, <1>5
  <2>2. LogFits'
    BY <2>1, FragmentIsNone DEF LogFits
  <2>3. Events' = TailRepaired(log')
    BY DEF Events
  <2>4. QED
    BY <1>5, <2>1, <2>2, <2>3, LogOf
<1>6. CASE o = NoOutcome(Loaded)
  <2>1. ~o.some
    BY <1>6 DEF NoOutcome
  <2>2. log' = Events /\ snapshot' = Materialised
    BY <1>1, <2>1 DEF Writes, Breaks
  <2>3. QED
    BY <1>3, <2>2 DEF LogChange
<1>7. CASE c.hash \notin Loaded.applied /\ Due(Loaded, c, o, clock)
  <2>0. PICK type \in Types : \E record, rivals :
          /\ Permitted(Loaded, c, type, record, rivals)
          /\ o = Outcome(Loaded, c, type, record, rivals, clock)
    BY <1>7 DEF Due
  <2>1. PICK record, rivals :
          /\ Permitted(Loaded, c, type, record, rivals)
          /\ o = Outcome(Loaded, c, type, record, rivals, clock)
    BY <2>0
  <2> DEFINE e == Event(type, c.key, record, rivals, clock, c.hash)
  <2> HIDE DEF o
  <2>2. /\ o.some /\ o.event = e /\ e \in Lines
        /\ o.held = Replayed(Loaded, e)
    BY <1>2, <2>1, OutcomeFits
  <2>3. /\ e.type = type /\ e.key = c.key /\ e.record = record /\ e.rivals = rivals
        /\ e.time = clock /\ e.hash = c.hash
    BY DEF Event
  <2> HIDE DEF e
  <2>4. Permitted(Loaded, e, e.type, e.record, e.rivals)
    BY <2>1, <2>3 DEF Permitted
  <2>5. Admitted(e)
    BY <1>7, <2>2, <2>3, <2>4 DEF Admitted
  <2>6. CASE Writes(o)
    <3>1. /\ log' = Append(Events, e)
          /\ snapshot' = [revision |-> Len(Events) + 1, held |-> Replayed(Loaded, e)]
      BY <1>1, <2>2, <2>6 DEF Writes
    <3>2. QED
      BY <1>5, <2>2, <2>5, <3>1 DEF LogChange
  <2>7. CASE Breaks(o)
    <3>1. /\ log' \in {Events} \cup {Append(Events, f) : f \in Fragments \cup {e}}
          /\ snapshot' = Materialised
      BY <1>1, <2>2, <2>7 DEF Breaks
    <3>2. QED
      BY <1>3, <1>4, <1>5, <2>2, <2>5, <3>1 DEF LogChange
  <2>8. QED
    BY <2>6, <2>7 DEF o
<1>8. QED
  BY <1>2, <1>6, <1>7, ResolveFits

\* A transaction that finds its target gone repairs the log, and no more.
LEMMA RepairChange ==
  ASSUME LogFits, log' = TailRepaired(log), snapshot' = Materialised
  PROVE  LogFits' /\ LogChange
<1>1. Events \in Seq(Lines) /\ log' = Events /\ Events' = TailRepaired(log')
  BY EventsFit DEF Events
<1>2. Events' = Events
  BY <1>1, LogOf
<1>3. LogFits'
  BY <1>1, FragmentIsNone DEF LogFits
<1>4. QED
  BY <1>2, <1>3 DEF LogChange

\* A memory with a decision about it is a candidate.
LEMMA CandidateFits ==
  ASSUME HeldFits, NEW m \in Memories, NEW d \in Judgements, d.key \in Key, NEW time \in Nat,
         Targets(d.key, d.target)
  PROVE  \A hash \in Hashes : [Candidate(m, d, time) EXCEPT !.hash = hash] \in Upserts
<1>1. /\ m.key \in Key /\ m.value \in Value /\ m.kind \in Kind /\ m.source \in Sources
  BY MemoryAssumption
<1>2. Relation(m) \in Keys /\ Fingerprint(m) \in Prints
  BY <1>1 DEF Relation, Fingerprint, Prints, Keys
<1>3. d.reinforces => Target(d).value \in Value /\ Target(d).print \in Prints
  <2>1. SUFFICES ASSUME d.reinforces
                 PROVE  Target(d).value \in Value /\ Target(d).print \in Prints
    OBVIOUS
  <2>2. \E r \in RecordsAt(Loaded, d.key) : r.id = d.target
    BY <2>1 DEF Judgements, Targets
  <2>3. Target(d) \in RecordsAt(Loaded, d.key)
    BY <2>2 DEF Target
  <2>4. RecordsAt(Loaded, d.key) \in SUBSET Records
    BY RecordsAtFit DEF HeldFits
  <2>5. QED
    BY <2>3, <2>4 DEF Records
<1> DEFINE c == Candidate(m, d, time)
           value == IF d.reinforces THEN Target(d).value ELSE m.value
           print == IF d.reinforces THEN Target(d).print ELSE Fingerprint(m)
           relation == IF d.target = 0 THEN Relation(m) ELSE d.key
<1>4. c = [operation |-> "upsert", key |-> d.key, kind |-> m.kind, source |-> m.source,
           time |-> time, relation |-> relation, value |-> value, print |-> print,
           hash |-> None]
  BY DEF Candidate
<1>5. value \in Value /\ print \in Prints /\ relation \in Keys
  BY <1>1, <1>2, <1>3 DEF Keys
<1> HIDE DEF c, value, print, relation
<1>6. ASSUME NEW hash \in Hashes
      PROVE  [c EXCEPT !.hash = hash] \in Upserts
  BY <1>1, <1>4, <1>5 DEF Upserts
<1>7. QED
  BY <1>6 DEF c

\* So is the wish to forget a key.
LEMMA RetractionFits ==
  ASSUME clock \in Nat, NEW k \in Key, NEW hash \in Hashes
  PROVE  [Retraction(k) EXCEPT !.hash = hash] \in Retractions
BY Authorities DEF Retraction, Retractions

\* Jobs and commands name their operations.
LEMMA ByJobFits ==
  ASSUME HeldFits, NEW m \in Memories, NEW d \in Judgements, d.key \in Key, NEW time \in Nat,
         Targets(d.key, d.target), NEW j \in Job
  PROVE  ByJob(j, Candidate(m, d, time)) \in Upserts
<1> DEFINE c == Candidate(m, d, time)
           hash == Hash(j, 0, c.key, c.value, c.relation, c.print)
<1>1. PICK h \in Hashes : TRUE
  <2>1. Hash(j, 0, None, None, None, None) \in Hashes
    BY DEF Hash, Hashes, Keys
  <2>2. QED
    BY <2>1
<1>2. [c EXCEPT !.hash = h] \in Upserts
  BY <1>1, CandidateFits
<1>3. /\ c.key \in Key /\ c.value \in Value /\ c.relation \in Keys /\ c.print \in Prints
  <2>1. /\ c.key = [c EXCEPT !.hash = h].key /\ c.value = [c EXCEPT !.hash = h].value
        /\ c.relation = [c EXCEPT !.hash = h].relation
        /\ c.print = [c EXCEPT !.hash = h].print
    BY DEF Candidate
  <2> HIDE DEF c
  <2>2. QED
    BY <1>2, <2>1 DEF Upserts
<1> HIDE DEF c
<1>4. hash \in Hashes
  BY <1>3 DEF Hash, Hashes, Keys
<1> HIDE DEF hash
<1>5. [c EXCEPT !.hash = hash] \in Upserts
  BY <1>4, CandidateFits DEF c
<1>6. QED
  BY <1>5 DEF ByJob, c, hash
LEMMA CommandHashFits ==
  ASSUME LogFits
  PROVE  Hash(None, Len(log) + 1, None, None, None, None) \in Hashes
BY DEF LogFits, Hash, Hashes, Keys

\* What may be decided about a memory is about its key or that of a record.
LEMMA DecisionsFit ==
  ASSUME TypesFit, HeldFits, NEW m \in Memories
  PROVE  /\ \A d \in Decisions(m) : d \in Judgements /\ (d # Ignore => d.key \in Key)
         /\ \A d \in ConservativeDecisions(m) : d \in Judgements /\ d.key \in Key
<1>1. m.key \in Key /\ Ignore \in Judgements
  BY MemoryAssumption DEF Ignore, Judgements, Keys
<1>2. \A k \in Key : \A r \in RecordsAt(Loaded, k) : r.id \in Nat \ {0}
  <2>1. \A k \in Key : RecordsAt(Loaded, k) \in SUBSET Records
    BY RecordsAtFit DEF HeldFits
  <2>2. QED
    BY <2>1 DEF Records
<1>3. \A x \in Everything : x[1] \in Key /\ x[2].id \in Nat \ {0}
  BY <1>2 DEF Everything
<1>4. ASSUME NEW S \in SUBSET Everything, NEW again \in BOOLEAN, NEW d \in AboutEach(S, again)
      PROVE  d \in Judgements /\ d.key \in Key
  <2>1. PICK x \in S : d = About(x[2], x[1], again)
    BY <1>4 DEF AboutEach
  <2>2. x[1] \in Key /\ x[2].id \in Nat \ {0}
    BY <1>3, <2>1
  <2>3. QED
    BY <2>1, <2>2 DEF About, Judgements, Keys
<1>5. New(m) \in Judgements /\ New(m).key = m.key
  BY <1>1 DEF New, Judgements, Keys
<1>6. \A d \in Decisions(m) : d \in Judgements /\ (d # Ignore => d.key \in Key)
  <2> DEFINE again == {x \in Everything : x[2].kind = m.kind /\ Reinforceable(m, x)}
             other == {x \in Everything : x[2].kind = m.kind /\ x[1] = m.key /\ m.key \notin Generated}
  <2>1. Decisions(m) = {Ignore, New(m)} \cup AboutEach(again, TRUE) \cup AboutEach(other, FALSE)
    BY DEF Decisions, AboutEach
  <2>2. again \in SUBSET Everything /\ other \in SUBSET Everything
    OBVIOUS
  <2> HIDE DEF again, other
  <2>3. QED
    BY <1>1, <1>4, <1>5, <2>1, <2>2
<1>7. \A d \in ConservativeDecisions(m) : d \in Judgements /\ d.key \in Key
  <2>1. \A d \in ConservativeDecisions(m) :
          d = New(m) \/ \E S \in SUBSET Everything, again \in BOOLEAN : d \in AboutEach(S, again)
    BY DEF ConservativeDecisions
  <2>2. QED
    BY <1>1, <1>4, <1>5, <2>1
<1>8. QED
  BY <1>6, <1>7

\* Everything a step does to the invariant's types and to the log.
Fits == TypesFit' /\ LogChange /\ clock' >= clock

\* Extraction.
LEMMA ExtractFits ==
  ASSUME TypesFit, NEW j \in Job, Extract(j)
  PROVE  Fits
<1>1. PICK m \in Memories, t \in 1 .. clock :
        jobs' = [jobs EXCEPT ![j].at = "decide", ![j].memory = m, ![j].time = t]
  BY DEF Extract
<1>2. t \in Nat
  BY <1>1 DEF TypesFit
<1>3. JobsFit'
  BY <1>1, <1>2 DEF TypesFit, JobsFit, JobStates
<1>4. UNCHANGED <<log, snapshot, command, clock>>
  BY DEF Extract
<1>5. Events' = Events /\ LogFits' /\ CommandFits' /\ clock' = clock
  BY <1>4 DEF TypesFit, LogFits, CommandFits, Events
<1>6. QED
  BY <1>3, <1>4, <1>5 DEF Fits, TypesFit, LogChange

\* A decision.
LEMMA DecideFits ==
  ASSUME TypesFit, HeldFits, NEW j \in Job, Decide(j)
  PROVE  Fits
<1>1. jobs[j].memory \in Memories
  BY DEF Decide, TypesFit, JobsFit
<1>2. PICK d \in Decisions(jobs[j].memory) :
        jobs' = [jobs EXCEPT ![j] = IF d = Ignore THEN DoneJob
                                    ELSE [@ EXCEPT !.at = "apply", !.decision = d]]
  BY DEF Decide
<1>3. d \in Judgements /\ (d # Ignore => d.key \in Key)
  BY <1>1, <1>2, DecisionsFit
<1>4. DoneJob \in JobStates /\ DoneJob.at = "done"
  BY DEF DoneJob, NewJob, JobStates, Ignore, Judgements, Keys
<1>5. JobsFit'
  <2>1. CASE d = Ignore
    BY <1>2, <1>4, <2>1 DEF TypesFit, JobsFit
  <2>2. CASE d # Ignore
    BY <1>1, <1>2, <1>3, <2>2 DEF TypesFit, JobsFit, JobStates
  <2>3. QED
    BY <2>1, <2>2
<1>6. LogFits' /\ LogChange
  BY ReadsChange DEF TypesFit, Decide
<1>7. CommandFits' /\ clock' = clock
  BY DEF Decide, TypesFit, CommandFits
<1>8. QED
  BY <1>5, <1>6, <1>7 DEF Fits, TypesFit

\* A job that is sent back to be decided, or that is claimed again.
LEMMA UndecidedFits ==
  ASSUME JobsFit, NEW j \in Job, jobs[j].at \in {"resume", "apply"}
  PROVE  /\ jobs' = [jobs EXCEPT ![j] = Undecided(@)] => JobsFit'
         /\ \A at \in {"resume", "apply"} : jobs' = [jobs EXCEPT ![j].at = at] => JobsFit'
<1>1. Ignore \in Judgements
  BY DEF Ignore, Judgements, Keys
<1>2. Undecided(jobs[j]) \in JobStates /\ Undecided(jobs[j]).at = "decide"
      /\ Undecided(jobs[j]).memory = jobs[j].memory
  BY <1>1 DEF Undecided, JobsFit, JobStates
<1>3. jobs' = [jobs EXCEPT ![j] = Undecided(@)] => JobsFit'
  BY <1>2 DEF JobsFit
<1>4. ASSUME NEW at \in {"resume", "apply"}, jobs' = [jobs EXCEPT ![j].at = at]
      PROVE  JobsFit'
  BY <1>4 DEF JobsFit, JobStates
<1>5. QED
  BY <1>3, <1>4

LEMMA ResumeFits ==
  ASSUME TypesFit, HeldFits, NEW j \in Job, Resume(j)
  PROVE  Fits
<1>1. Reads /\ UNCHANGED <<command, clock>> /\ jobs[j].at = "resume"
  BY DEF Resume
<1>2. \/ jobs' = [jobs EXCEPT ![j] = Undecided(@)]
      \/ jobs' = [jobs EXCEPT ![j].at = "apply"]
  BY DEF Resume
<1>3. JobsFit'
  BY <1>1, <1>2, UndecidedFits DEF TypesFit
<1>4. LogFits' /\ LogChange
  BY <1>1, ReadsChange DEF TypesFit
<1>5. CommandFits' /\ clock' = clock
  BY <1>1 DEF TypesFit, CommandFits
<1>6. QED
  BY <1>3, <1>4, <1>5 DEF Fits, TypesFit

\* An application.
LEMMA ApplyFits ==
  ASSUME TypesFit, HeldFits, NEW j \in Job, Apply(j)
  PROVE  Fits
<1> DEFINE job == jobs[j]
           there == Targets(job.decision.key, job.decision.target)
           c == ByJob(j, Candidate(job.memory, job.decision, job.time))
<1>1. /\ job.memory \in Memories /\ job.decision.key \in Key
      /\ job.time \in Nat /\ job.decision \in Judgements
      /\ job.at = "apply"
  BY DEF Apply, TypesFit, JobsFit, JobStates
<1>2. there => c \in Upserts
  BY <1>1, ByJobFits
<1>3. CommandFits' /\ clock' = clock
  BY DEF Apply, TypesFit, CommandFits
<1>4. DoneJob \in JobStates /\ DoneJob.at = "done"
  BY DEF DoneJob, NewJob, JobStates, Ignore, Judgements, Keys
<1>5. JobResolution(j) = Resolve(Loaded, c, NextId, clock)
  BY DEF JobResolution
<1>6. \/ /\ there
         /\ \/ Writes(JobResolution(j)) /\ jobs' = [jobs EXCEPT ![j] = DoneJob]
            \/ Breaks(JobResolution(j)) /\ jobs' = [jobs EXCEPT ![j].at = "resume"]
      \/ /\ log' = TailRepaired(log) /\ snapshot' = Materialised
         /\ jobs' = [jobs EXCEPT ![j] = Undecided(@)]
  BY DEF Apply
<1> HIDE DEF c, there
<1>7. CASE there /\ Writes(JobResolution(j)) /\ jobs' = [jobs EXCEPT ![j] = DoneJob]
  <2>1. JobsFit'
    BY <1>4, <1>7 DEF TypesFit, JobsFit
  <2>2. LogFits' /\ LogChange
    BY <1>2, <1>5, <1>7, WritesChange
  <2>3. QED
    BY <1>3, <2>1, <2>2 DEF Fits, TypesFit
<1>8. CASE there /\ Breaks(JobResolution(j)) /\ jobs' = [jobs EXCEPT ![j].at = "resume"]
  <2>1. JobsFit'
    BY <1>1, <1>8, UndecidedFits DEF TypesFit
  <2>2. LogFits' /\ LogChange
    BY <1>2, <1>5, <1>8, WritesChange
  <2>3. QED
    BY <1>3, <2>1, <2>2 DEF Fits, TypesFit
<1>9. CASE /\ log' = TailRepaired(log) /\ snapshot' = Materialised
           /\ jobs' = [jobs EXCEPT ![j] = Undecided(@)]
  <2>1. JobsFit'
    BY <1>1, <1>9, UndecidedFits DEF TypesFit
  <2>2. LogFits' /\ LogChange
    BY <1>9, RepairChange DEF TypesFit
  <2>3. QED
    BY <1>3, <2>1, <2>2 DEF Fits, TypesFit
<1>10. QED
  BY <1>6, <1>7, <1>8, <1>9

\* The user's process is free again.
LEMMA NoCommandFits == NoCommand \in Commands /\ NoCommand.op = None
                       /\ None \notin {"remember", "forget"}
BY MemoryAssumption DEF NoCommand, Commands, Ignore, Judgements, Keys

\* A memory that is to be remembered, decided.
LEMMA DecidedFits ==
  ASSUME TypesFit, HeldFits, NEW m \in Memories, NEW time \in Nat, NEW tries \in Nat,
         Decided(m, time, tries)
  PROVE  CommandFits'
<1>1. PICK d \in ConservativeDecisions(m) :
        command' = [NoCommand EXCEPT !.op = "remember", !.memory = m, !.time = time,
                                     !.decision = d, !.tries = tries]
  BY DEF Decided
<1>2. d \in Judgements /\ d.key \in Key
  BY <1>1, DecisionsFit
<1>3. QED
  BY <1>1, <1>2, NoCommandFits DEF CommandFits, Commands

\* Commands leave the jobs and the clock alone.
LEMMA CommandSteps ==
  ASSUME TypesFit, UNCHANGED <<jobs, clock>>, LogFits', LogChange, CommandFits'
  PROVE  Fits
BY DEF Fits, TypesFit, JobsFit

\* The user says what is to be remembered.
LEMMA RememberFits ==
  ASSUME TypesFit, HeldFits, NEW m \in Memories, Remember(m)
  PROVE  Fits
<1>1. Reads /\ Decided(m, clock, 1) /\ UNCHANGED <<jobs, clock>>
  BY DEF Remember
<1>2. LogFits' /\ LogChange
  BY <1>1, ReadsChange DEF TypesFit
<1>3. CommandFits'
  BY <1>1, DecidedFits DEF TypesFit
<1>4. QED
  BY <1>1, <1>2, <1>3, CommandSteps

\* It is written.
LEMMA RemembersFits ==
  ASSUME TypesFit, HeldFits, Remembers
  PROVE  Fits
<1> DEFINE there == Targets(command.decision.key, command.decision.target)
           c == ByCommand(Candidate(command.memory, command.decision, command.time))
<1>1. /\ command.memory \in Memories /\ command.decision.key \in Key
      /\ command.time \in Nat /\ command.decision \in Judgements
  BY DEF Remembers, TypesFit, CommandFits, Commands
<1>2. there => c \in Upserts
  BY <1>1, CandidateFits, CommandHashFits DEF ByCommand, TypesFit
<1>3. UNCHANGED <<jobs, clock>>
  BY DEF Remembers
<1>4. CommandResolution = Resolve(Loaded, c, NextId, clock)
  BY DEF CommandResolution
<1>0. \/ there /\ (Writes(CommandResolution) \/ Breaks(CommandResolution))
         /\ command' = NoCommand
      \/ /\ log' = TailRepaired(log) /\ snapshot' = Materialised
         /\ Decided(command.memory, command.time, 2) \/ command' = NoCommand
  BY DEF Remembers
<1> HIDE DEF c, there
<1>5. command' = NoCommand => CommandFits'
  BY NoCommandFits DEF CommandFits
<1>6. CASE /\ there /\ (Writes(CommandResolution) \/ Breaks(CommandResolution))
           /\ command' = NoCommand
  <2>1. LogFits' /\ LogChange
    BY <1>2, <1>4, <1>6, WritesChange
  <2>2. QED
    BY <1>3, <1>5, <1>6, <2>1, CommandSteps
<1>7. CASE /\ log' = TailRepaired(log) /\ snapshot' = Materialised
           /\ Decided(command.memory, command.time, 2) \/ command' = NoCommand
  <2>1. LogFits' /\ LogChange
    BY <1>7, RepairChange DEF TypesFit
  <2>2. CommandFits'
    BY <1>1, <1>5, <1>7, DecidedFits
  <2>3. QED
    BY <1>3, <2>1, <2>2, CommandSteps
<1>8. QED
  BY <1>0, <1>6, <1>7

\* The user says what is to be forgotten.
LEMMA ForgetFits ==
  ASSUME TypesFit, HeldFits, Forget
  PROVE  Fits
<1>1. Reads /\ UNCHANGED <<jobs, clock>>
  BY DEF Forget
<1>2. PICK keys \in SUBSET Key :
        command' = [NoCommand EXCEPT !.op = "forget", !.keys = keys]
  BY DEF Forget
<1>3. CommandFits'
  BY <1>2, NoCommandFits DEF CommandFits, Commands
<1>4. LogFits' /\ LogChange
  BY <1>1, ReadsChange DEF TypesFit
<1>5. QED
  BY <1>1, <1>3, <1>4, CommandSteps

\* Its tombstone is written.
LEMMA ForgetsFits ==
  ASSUME TypesFit, HeldFits, NEW k \in Key, Forgets(k)
  PROVE  Fits
<1> DEFINE c == ByCommand(Retraction(k))
           o == Resolve(Loaded, c, NextId, clock)
<1>1. c \in Retractions
  BY CommandHashFits, RetractionFits DEF ByCommand, TypesFit
<1> HIDE DEF c
<1>2. UNCHANGED <<jobs, clock>> /\ (Writes(o) \/ Breaks(o))
  BY DEF Forgets, c
<1>3. command' \in {NoCommand, [command EXCEPT !.keys = command.keys \ {k}]}
  BY DEF Forgets
<1>4. CommandFits'
  BY <1>3, NoCommandFits DEF TypesFit, CommandFits, Commands
<1>5. LogFits' /\ LogChange
  BY <1>1, <1>2, WritesChange
<1>6. QED
  BY <1>2, <1>4, <1>5, CommandSteps

\* Whatever happens keeps the types and leaves the events or admits one.
LEMMA NextFits ==
  ASSUME TypesFit, HeldFits, [Next]_vars
  PROVE  Fits
<1>1. ASSUME NEW j \in Job, Extract(j) \/ Decide(j) \/ Resume(j) \/ Apply(j)
      PROVE  Fits
  BY <1>1, ExtractFits, DecideFits, ResumeFits, ApplyFits
<1>2. ASSUME NEW m \in Said, Remember(m)
      PROVE  Fits
  BY <1>2, RememberFits, MemoryAssumption
<1>3. CASE Remembers
  BY <1>3, RemembersFits
<1>4. CASE Forget
  BY <1>4, ForgetFits
<1>5. ASSUME NEW k \in Key, Forgets(k)
      PROVE  Fits
  BY <1>5, ForgetsFits
<1>6. CASE Load
  <2>1. LogFits' /\ LogChange
    BY <1>6, ReadsChange DEF TypesFit, Load
  <2>2. UNCHANGED <<jobs, command, clock>>
    BY <1>6 DEF Load
  <2>3. CommandFits'
    BY <2>2 DEF TypesFit, CommandFits
  <2>4. QED
    BY <2>1, <2>2, <2>3, CommandSteps
<1>7. CASE Tick \/ UNCHANGED vars
  <2>1. UNCHANGED <<log, snapshot, jobs, command>> /\ clock' \in {clock, clock + 1}
    BY <1>7 DEF Tick, vars
  <2>2. Events' = Events /\ LogFits' /\ CommandFits' /\ JobsFit'
    BY <2>1 DEF TypesFit, LogFits, CommandFits, JobsFit, Events
  <2>3. clock' \in Nat \ {0} /\ clock' >= clock
    BY <2>1 DEF TypesFit
  <2>4. QED
    BY <2>1, <2>2, <2>3 DEF Fits, TypesFit, LogChange
<1>8. QED
  BY <1>1, <1>2, <1>3, <1>4, <1>5, <1>6, <1>7 DEF Next, Worker, ByUser

-----------------------------------------------------------------------------
(* The invariant holds.                                                    *)

\* In the beginning there is nothing.
LEMMA InitInv == Init => IInv
<1> SUFFICES ASSUME Init PROVE IInv
  OBVIOUS
<1>1. Events = <<>> /\ Loaded = EmptyHeld
  BY ReplayOfNothing DEF Init, Events, TailRepaired, Loaded
<1>2. LogFits /\ clock \in Nat \ {0}
  BY DEF Init, LogFits
<1>3. JobsFit
  BY DEF Init, JobsFit, JobStates, NewJob, Ignore, Judgements, Keys
<1>4. CommandFits
  BY NoCommandFits DEF Init, CommandFits
<1>5. EmptyHeld \in Helds
  BY DEF EmptyHeld, Helds
<1>6. HeldFits
  BY <1>1, <1>5 DEF HeldFits, WellHeld, EmptyHeld
<1>7. SnapshotFits
  <2>1. snapshot.revision = 0 /\ snapshot.held = EmptyHeld
    BY DEF Init, NoSnapshot
  <2>2. /\ SubSeq(Events, 1, snapshot.revision) = <<>>
        /\ snapshot.revision \in 0 .. Len(Events)
    BY <1>1, <2>1
  <2>3. Replay(SubSeq(Events, 1, snapshot.revision)) = EmptyHeld
    BY <2>2, ReplayOfNothing, Zenon
  <2>4. QED
    BY <2>1, <2>2, <2>3 DEF SnapshotFits, SnapshotIsReplay
<1>8. /\ HashesDiffer /\ TimesFit /\ BuriedFits /\ SpokenFits
      /\ ForgottenStaysForgotten /\ ExplicitStands
  BY <1>1 DEF HashesDiffer, TimesFit, BuriedFits, SpokenFits, ForgottenStaysForgotten,
     ExplicitStands
<1>9. QED
  BY <1>2, <1>3, <1>4, <1>6, <1>7, <1>8 DEF IInv, TypesFit

\* Where no event was added everything that is said of events stands.
LEMMA SameEvents ==
  ASSUME IInv, Fits, Events' = Events, snapshot' \in {snapshot, Materialised}
  PROVE  IInv'
<1>1. Loaded' = Loaded
  BY DEF Loaded
<1>2. Events \in Seq(Lines) /\ clock \in Nat /\ clock' \in Nat /\ clock' >= clock
  BY EventsFit DEF IInv, TypesFit, Fits
<1>3. HeldFits' /\ HashesDiffer' /\ BuriedFits' /\ SpokenFits'
  BY <1>1 DEF IInv, HeldFits, HashesDiffer, BuriedFits, SpokenFits, After
<1>4. TimesFit'
  BY <1>2 DEF IInv, TimesFit
<1>5. ForgottenStaysForgotten' /\ ExplicitStands'
  BY DEF IInv, ForgottenStaysForgotten, ExplicitStands, Since
<1>6. SnapshotFits'
  <2>1. CASE snapshot' = snapshot
    BY <2>1 DEF IInv, SnapshotFits, SnapshotIsReplay
  <2>2. CASE snapshot' = Materialised
    <3>1. snapshot'.revision = Len(Events) /\ snapshot'.held = Replay(Events)
      BY <2>2 DEF Materialised, Loaded
    <3>2. SubSeq(Events, 1, Len(Events)) = Events /\ Len(Events) \in 0 .. Len(Events)
      BY <1>2
    <3>3. SubSeq(Events', 1, snapshot'.revision) = Events
      BY <3>1, <3>2
    <3>4. snapshot'.held = Replay(SubSeq(Events', 1, snapshot'.revision))
      BY <3>1, <3>3, Zenon
    <3>5. QED
      BY <3>1, <3>2, <3>4 DEF SnapshotFits, SnapshotIsReplay
  <2>3. QED
    BY <2>1, <2>2
<1>7. QED
  BY <1>3, <1>4, <1>5, <1>6 DEF IInv, Fits

\* One more event.
Grown(e, n) ==
  /\ n = Len(Events) /\ n \in Nat /\ Events \in Seq(Lines) /\ e \in Lines
  /\ Events' = Append(Events, e)
  /\ DOMAIN Events = 1 .. n /\ DOMAIN Events' = 1 .. n + 1 /\ Events'[n + 1] = e
  /\ \A i \in 1 .. n : Events'[i] = Events[i] /\ Events[i] \in Lines
  /\ Loaded' = Replayed(Loaded, e)

\* A log with one more event.
LEMMA GrownIs ==
  ASSUME IInv, NEW e \in Lines, Events' = Append(Events, e)
  PROVE  Grown(e, Len(Events))
<1>1. Events \in Seq(Lines)
  BY EventsFit DEF IInv, TypesFit
<1>2. Loaded' = Replay(Append(Events, e))
  BY DEF Loaded
<1>3. Loaded' = Replayed(Loaded, e)
  BY <1>1, <1>2, ReplayOfOneMore DEF Loaded
<1>4. QED
  BY <1>1, <1>3 DEF Grown

\* What is held with one more event.
LEMMA GrownHeld ==
  ASSUME IInv, NEW e, NEW n, Grown(e, n), Admitted(e)
  PROVE  /\ HeldFits' /\ HashesDiffer'
         /\ e.key \in Key /\ e.type \in Types
<1>1. e.type = "conflict" => Loaded.tombstones[e.key] = 0
  BY DEF Admitted, Permitted
<1>2. /\ WellHeld(Replayed(Loaded, e))
      /\ Replayed(Loaded, e).applied = Loaded.applied \cup {e.hash}
  BY <1>1, ReplayedThere DEF IInv, HeldFits, Grown
<1>3. Loaded.applied = {Events[i].hash : i \in DOMAIN Events}
  BY DEF IInv, HeldFits
<1>4. {Events'[i].hash : i \in DOMAIN Events'}
      = {Events[i].hash : i \in DOMAIN Events} \cup {e.hash}
  BY DEF Grown
<1>5. HeldFits'
  BY <1>2, <1>3, <1>4 DEF HeldFits, Grown
<1>6. HashesDiffer'
  <2>1. SUFFICES ASSUME NEW i \in 1 .. n + 1, NEW l \in 1 .. n + 1,
                        Events'[i].hash = Events'[l].hash
                 PROVE  i = l
    BY DEF HashesDiffer, Grown
  <2>2. \A m \in 1 .. n : Events'[m].hash # e.hash
    BY <1>3 DEF Grown, Admitted
  <2>3. CASE i \in 1 .. n /\ l \in 1 .. n
    BY <2>1, <2>3 DEF Grown, IInv, HashesDiffer
  <2>4. CASE i = n + 1 \/ l = n + 1
    BY <2>1, <2>2, <2>4 DEF Grown
  <2>5. QED
    BY <2>3, <2>4 DEF Grown
<1>7. QED
  BY <1>5, <1>6 DEF Grown, Lines

\* The snapshot is written with the event, or is what it was before it.
LEMMA GrownSnapshot ==
  ASSUME IInv, NEW e, NEW n, Grown(e, n),
         snapshot' \in {Materialised,
                        [revision |-> Len(Events) + 1, held |-> Replayed(Loaded, e)]}
  PROVE  SnapshotFits'
<1>1. /\ Len(Events') = n + 1 /\ SubSeq(Events', 1, n) = Events
      /\ SubSeq(Events', 1, n + 1) = Events'
  BY DEF Grown
<1>2. Loaded' = Replay(Events') /\ Loaded = Replay(Events) /\ n \in Nat
  BY DEF Loaded, Grown
<1>3. CASE snapshot' = Materialised
  <2>1. snapshot'.revision = n /\ snapshot'.held = Replay(Events)
    BY <1>2, <1>3 DEF Materialised, Grown
  <2>2. SubSeq(Events', 1, snapshot'.revision) = Events
    BY <1>1, <2>1
  <2>3. snapshot'.held = Replay(SubSeq(Events', 1, snapshot'.revision))
    BY <2>1, <2>2, Zenon
  <2>4. snapshot'.revision \in 0 .. Len(Events')
    BY <1>1, <1>2, <2>1
  <2>5. QED
    BY <2>3, <2>4 DEF SnapshotFits, SnapshotIsReplay
<1>4. CASE snapshot' = [revision |-> Len(Events) + 1, held |-> Replayed(Loaded, e)]
  <2>1. snapshot'.revision = n + 1 /\ snapshot'.held = Loaded'
    BY <1>4 DEF Grown
  <2>2. SubSeq(Events', 1, snapshot'.revision) = Events'
    BY <1>1, <2>1
  <2>3. snapshot'.held = Replay(SubSeq(Events', 1, snapshot'.revision))
    BY <1>2, <2>1, <2>2, Zenon
  <2>4. snapshot'.revision \in 0 .. Len(Events')
    BY <1>1, <1>2, <2>1
  <2>5. QED
    BY <2>3, <2>4 DEF SnapshotFits, SnapshotIsReplay
<1>5. QED
  BY <1>3, <1>4

\* An event of the past is followed by one more.
LEMMA GrownAfter ==
  ASSUME NEW e, NEW n, Grown(e, n), NEW i \in 1 .. n, NEW type
  PROVE  After(i, type)' <=> After(i, type) \/ (e.type = type /\ e.key = Events[i].key)
BY DEF After, Grown

\* Between two events of the past nothing happens any more; between one of the
\* past and the last one lies what came after it.
LEMMA GrownSince ==
  ASSUME NEW e, NEW n, Grown(e, n), NEW i \in 1 .. n, NEW type, NEW m \in 1 .. n + 1
  PROVE  /\ m <= n => (Since(i, m, type)' <=> Since(i, m, type))
         /\ m = n + 1 /\ e.key = Events[i].key => (Since(i, m, type)' <=> After(i, type))
<1>1. Since(i, m, type)' <=>
        \E l \in i + 1 .. m - 1 : Events'[l].type = type /\ Events'[l].key = Events'[m].key
  BY DEF Since
<1>2. \A l \in i + 1 .. m - 1 : l \in 1 .. n /\ Events'[l] = Events[l]
  BY DEF Grown
<1>3. ASSUME m <= n
      PROVE  Since(i, m, type)' <=> Since(i, m, type)
  <2>1. Events'[m] = Events[m]
    BY <1>3 DEF Grown
  <2>2. QED
    BY <1>1, <1>2, <2>1 DEF Since
<1>4. ASSUME m = n + 1, e.key = Events[i].key
      PROVE  Since(i, m, type)' <=> After(i, type)
  <2>1. /\ \A l : l \in i + 1 .. m - 1 <=> l \in 1 .. n /\ l > i
        /\ Events'[m].key = Events[i].key
    BY <1>4 DEF Grown
  <2>2. After(i, type) <=>
          \E l \in 1 .. n : l > i /\ Events[l].type = type /\ Events[l].key = Events[i].key
    BY DEF After, Grown
  <2>3. QED
    BY <1>1, <1>2, <2>1, <2>2
<1>5. QED
  BY <1>3, <1>4

\* What was buried stays buried, unless a memory came.
LEMMA GrownBuried ==
  ASSUME IInv, NEW e, NEW n, Grown(e, n), Admitted(e)
  PROVE  BuriedFits'
<1>1. SUFFICES ASSUME NEW i \in 1 .. n + 1, Events'[i].type = "tombstone",
                      ~After(i, "memory")'
               PROVE  Loaded'.tombstones[Events'[i].key] >= Events'[i].time
  BY DEF BuriedFits, Grown
<1>2. /\ WellHeld(Loaded) /\ e \in Lines /\ Loaded' = Replayed(Loaded, e) /\ n \in Nat
      /\ e.type \in Types /\ e.time \in Nat
      /\ e.type = "conflict" => Loaded.tombstones[e.key] = 0
  BY DEF IInv, HeldFits, Grown, Lines, Admitted, Permitted
<1>3. CASE i = n + 1
  <2>1. Events'[i] = e
    BY <1>3 DEF Grown
  <2>2. Loaded'.tombstones[e.key] = e.time
    BY <1>1, <1>2, <2>1, ReplayedThere
  <2>3. QED
    BY <1>2, <2>1, <2>2
<1>4. CASE i \in 1 .. n
  <2> DEFINE k == Events[i].key
  <2>1. Events'[i] = Events[i] /\ Events[i] \in Lines /\ i \in DOMAIN Events
    BY <1>4 DEF Grown
  <2>2. k \in Key /\ Events[i].time \in Nat
    BY <2>1 DEF Lines
  <2>3. ~After(i, "memory") /\ ~(e.type = "memory" /\ e.key = k)
    BY <1>1, <1>4, GrownAfter
  <2>4. Loaded.tombstones[k] >= Events[i].time
    BY <1>1, <2>1, <2>3 DEF IInv, BuriedFits
  <2>5. Events[i].time \in 1 .. clock /\ clock \in Nat /\ e.time = clock
    BY <2>1 DEF IInv, TypesFit, TimesFit, Admitted
  <2>6. CASE e.key # k
    BY <1>2, <2>1, <2>2, <2>4, <2>6, ReplayedElsewhere
  <2>7. CASE e.key = k
    <3>1. Loaded.tombstones[k] # 0
      BY <2>2, <2>4, <2>5
    <3>2. e.type \in {"tombstone", "rejected"}
      BY <1>2, <2>3, <2>7, <3>1 DEF Types
    <3>3. Loaded'.tombstones[k] \in {e.time, Loaded.tombstones[k]}
      BY <1>2, <2>7, <3>2, ReplayedThere
    <3>4. QED
      BY <2>1, <2>4, <2>5, <3>3
  <2>8. QED
    BY <2>6, <2>7
<1>5. QED
  BY <1>2, <1>3, <1>4

\* What the user said stands, unless it was buried.
LEMMA GrownSpoken ==
  ASSUME IInv, NEW e, NEW n, Grown(e, n), Admitted(e)
  PROVE  SpokenFits'
<1>1. SUFFICES ASSUME NEW i \in 1 .. n + 1, Events'[i].type = "memory",
                      Events'[i].record.source \in Explicit, ~After(i, "tombstone")'
               PROVE  Spoken(Loaded', Events'[i].key)
  BY DEF SpokenFits, Grown
<1>2. /\ WellHeld(Loaded) /\ e \in Lines /\ Loaded' = Replayed(Loaded, e) /\ n \in Nat
      /\ e.type \in Types
      /\ e.type = "conflict" => Loaded.tombstones[e.key] = 0
  BY DEF IInv, HeldFits, Grown, Lines, Admitted, Permitted
<1>3. CASE i = n + 1
  <2>1. Events'[i] = e
    BY <1>3 DEF Grown
  <2>2. RecordsAt(Loaded', e.key) = {e.record}
    BY <1>1, <1>2, <2>1, ReplayedThere
  <2>3. QED
    BY <1>1, <2>1, <2>2 DEF Spoken
<1>4. CASE i \in 1 .. n
  <2> DEFINE k == Events[i].key
  <2>1. Events'[i] = Events[i] /\ Events[i] \in Lines /\ i \in DOMAIN Events
    BY <1>4 DEF Grown
  <2>2. k \in Key
    BY <2>1 DEF Lines
  <2>3. ~After(i, "tombstone") /\ ~(e.type = "tombstone" /\ e.key = k)
    BY <1>1, <1>4, GrownAfter
  <2>4. Spoken(Loaded, k)
    BY <1>1, <2>1, <2>3 DEF IInv, SpokenFits
  <2>5. CASE e.key # k
    BY <1>2, <2>1, <2>2, <2>4, <2>5, ReplayedElsewhere DEF Spoken
  <2>6. CASE e.key = k /\ e.type = "memory"
    <3>1. RecordsAt(Loaded', e.key) = {e.record}
      BY <1>2, <2>6, ReplayedThere
    <3>2. e.record.source \in Explicit
      BY <2>4, <2>6 DEF Admitted, Permitted
    <3>3. QED
      BY <2>1, <2>6, <3>1, <3>2 DEF Spoken
  <2>7. CASE e.key = k /\ e.type = "conflict"
    <3>1. RecordsAt(Loaded', e.key) = {e.rivals[l] : l \in DOMAIN e.rivals}
      BY <1>2, <2>7, ReplayedThere
    <3>2. \E l \in DOMAIN e.rivals : e.rivals[l].source \in Explicit
      BY <2>4, <2>7 DEF Admitted, Permitted
    <3>3. QED
      BY <2>1, <2>7, <3>1, <3>2 DEF Spoken
  <2>8. CASE e.key = k /\ e.type = "rejected"
    <3>1. RecordsAt(Loaded', k) = RecordsAt(Loaded, k)
      BY <1>2, <2>8, ReplayedThere
    <3>2. QED
      BY <2>1, <2>4, <3>1 DEF Spoken
  <2>9. QED
    BY <1>2, <2>3, <2>5, <2>6, <2>7, <2>8 DEF Types
<1>5. QED
  BY <1>2, <1>3, <1>4

\* The event that is new brings back only what the user said later.
LEMMA GrownForgotten ==
  ASSUME IInv, NEW e, NEW n, Grown(e, n), Admitted(e)
  PROVE  ForgottenStaysForgotten'
<1>1. SUFFICES ASSUME NEW m \in 1 .. n + 1, Events'[m].type \in {"memory", "conflict"},
                      NEW i \in 1 .. m - 1, Events'[i].type = "tombstone",
                      Events'[i].key = Events'[m].key, ~Since(i, m, "memory")'
               PROVE  /\ Events'[m].type = "memory"
                      /\ Events'[m].record.source \in Explicit
                      /\ Events'[m].record.time > Events'[i].time
  BY DEF ForgottenStaysForgotten, Grown
<1>2. n \in Nat /\ i \in 1 .. n /\ Events'[i] = Events[i] /\ i \in DOMAIN Events
      /\ Events[i] \in Lines
  BY DEF Grown
<1>3. CASE m \in 1 .. n
  <2>1. Events'[m] = Events[m] /\ m \in DOMAIN Events
    BY <1>3 DEF Grown
  <2>2. ~Since(i, m, "memory")
    BY <1>1, <1>2, <1>3, GrownSince
  <2>3. QED
    BY <1>1, <1>2, <2>1, <2>2 DEF IInv, ForgottenStaysForgotten
<1>4. CASE m = n + 1
  <2>1. Events'[m] = e
    BY <1>4 DEF Grown
  <2>2. ~After(i, "memory")
    BY <1>1, <1>2, <1>4, <2>1, GrownSince
  <2>3. Loaded.tombstones[e.key] >= Events[i].time
    BY <1>1, <1>2, <2>1, <2>2 DEF IInv, BuriedFits
  <2>4. Events[i].time \in 1 .. clock /\ clock \in Nat
    BY <1>2 DEF IInv, TypesFit, TimesFit
  <2>5. e.key \in Key /\ WellHeld(Loaded)
    BY DEF Admitted, Lines, IInv, HeldFits
  <2>6. Loaded.tombstones[e.key] \in Nat
    BY <2>5, RecordsAtFit
  <2>7. Loaded.tombstones[e.key] # 0
    BY <2>3, <2>4
  <2>8. /\ e.type = "memory" /\ e.record.source \in Explicit
        /\ e.record.time > Loaded.tombstones[e.key] /\ e.record \in Records
    BY <1>1, <2>1, <2>7 DEF Admitted, Permitted
  <2>9. e.record.time \in Nat
    BY <2>8 DEF Records
  <2>10. QED
    BY <1>2, <2>1, <2>3, <2>4, <2>6, <2>8, <2>9
<1>5. QED
  BY <1>2, <1>3, <1>4

\* The event that is new replaces the user's word by nothing but the user's word.
LEMMA GrownExplicit ==
  ASSUME IInv, NEW e, NEW n, Grown(e, n), Admitted(e)
  PROVE  ExplicitStands'
<1>1. SUFFICES ASSUME NEW m \in 1 .. n + 1, Events'[m].type = "memory",
                      NEW i \in 1 .. m - 1, Events'[i].type = "memory",
                      Events'[i].key = Events'[m].key,
                      Events'[i].record.source \in Explicit, ~Since(i, m, "tombstone")'
               PROVE  Events'[m].record.source \in Explicit
  BY DEF ExplicitStands, Grown
<1>2. n \in Nat /\ i \in 1 .. n /\ Events'[i] = Events[i] /\ i \in DOMAIN Events
  BY DEF Grown
<1>3. CASE m \in 1 .. n
  <2>1. Events'[m] = Events[m] /\ m \in DOMAIN Events
    BY <1>3 DEF Grown
  <2>2. ~Since(i, m, "tombstone")
    BY <1>1, <1>2, <1>3, GrownSince
  <2>3. QED
    BY <1>1, <1>2, <2>1, <2>2 DEF IInv, ExplicitStands
<1>4. CASE m = n + 1
  <2>1. Events'[m] = e
    BY <1>4 DEF Grown
  <2>2. ~After(i, "tombstone")
    BY <1>1, <1>2, <1>4, <2>1, GrownSince
  <2>3. Spoken(Loaded, e.key)
    BY <1>1, <1>2, <2>1, <2>2 DEF IInv, SpokenFits
  <2>4. QED
    BY <1>1, <2>1, <2>3 DEF Admitted, Permitted
<1>5. QED
  BY <1>2, <1>3, <1>4

\* Every step keeps the invariant.
LEMMA NextInv == IInv /\ [Next]_vars => IInv'
<1> SUFFICES ASSUME IInv, [Next]_vars PROVE IInv'
  OBVIOUS
<1>1. Fits
  BY NextFits DEF IInv
<1>2. CASE Events' = Events /\ snapshot' \in {snapshot, Materialised}
  BY <1>1, <1>2, SameEvents
<1>3. ASSUME NEW e \in Lines, Admitted(e), Events' = Append(Events, e),
             snapshot' \in {Materialised,
                            [revision |-> Len(Events) + 1, held |-> Replayed(Loaded, e)]}
      PROVE  IInv'
  <2>1. Grown(e, Len(Events))
    BY <1>3, GrownIs
  <2>2. HeldFits' /\ HashesDiffer'
    BY <1>3, <2>1, GrownHeld
  <2>3. TimesFit'
    <3>1. clock \in Nat /\ clock' \in Nat /\ clock' >= clock /\ clock # 0
      BY <1>1 DEF Fits, IInv, TypesFit
    <3>2. QED
      BY <1>3, <2>1, <3>1 DEF IInv, TimesFit, Grown, Admitted
  <2>4. SnapshotFits'
    BY <1>3, <2>1, GrownSnapshot
  <2>5. BuriedFits' /\ SpokenFits'
    BY <1>3, <2>1, GrownBuried, GrownSpoken
  <2>6. ForgottenStaysForgotten' /\ ExplicitStands'
    BY <1>3, <2>1, GrownForgotten, GrownExplicit
  <2>7. QED
    BY <1>1, <2>2, <2>3, <2>4, <2>5, <2>6 DEF IInv, Fits
<1>4. QED
  BY <1>1, <1>2, <1>3 DEF Fits, LogChange

\* What is held, and what the log says of it, is consistent in every state.
THEOREM StoreInvariant == Spec => []IInv
BY InitInv, NextInv, PTL DEF Spec

\* What a transaction leaves in the snapshot is what the log comes to when it is
\* replayed, however often a write failed.
THEOREM SnapshotIsAlwaysReplay == Spec => []SnapshotIsReplay
<1>1. IInv => SnapshotIsReplay
  BY DEF IInv, SnapshotFits
<1>2. QED
  BY <1>1, StoreInvariant, PTL

\* The same operation is never written twice, however often a job that decided
\* it is retried.
THEOREM OperationsAlwaysApplyOnce == Spec => []OperationsApplyOnce
<1>1. IInv => OperationsApplyOnce
  BY DEF IInv, HashesDiffer, OperationsApplyOnce
<1>2. QED
  BY <1>1, StoreInvariant, PTL

\* After a key was buried only what the user said later brings it back.
THEOREM ForgottenAlwaysStaysForgotten == Spec => []ForgottenStaysForgotten
<1>1. IInv => ForgottenStaysForgotten
  BY DEF IInv
<1>2. QED
  BY <1>1, StoreInvariant, PTL

\* What the user said is replaced by nothing that was inferred or planned.
THEOREM ExplicitAlwaysStands == Spec => []ExplicitStands
<1>1. IInv => ExplicitStands
  BY DEF IInv
<1>2. QED
  BY <1>1, StoreInvariant, PTL

\* Where no value holds a line separator, no sequence of failed appends spoils a
\* line that was written: at most the last one has to be repaired.
THEOREM OnlyTheTailIsEverTorn ==
  ASSUME Splitting = {}
  PROVE  Spec => []OnlyTheTailIsTorn
<1>1. IInv => OnlyTheTailIsTorn
  BY DEF IInv, TypesFit, LogFits, OnlyTheTailIsTorn, Repairable, Splits
<1>2. QED
  BY <1>1, StoreInvariant, PTL
=============================================================================
