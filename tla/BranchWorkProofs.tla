-------------------------- MODULE BranchWorkProofs --------------------------
(***************************************************************************)
(* Proofs about the work upon a session's branch, for any tasks, any sizes *)
(* and any histories a session may be opened from or fork.  A reader       *)
(* should start from IInv: a session and its file fit (Fine, in the first  *)
(* half: lemmas on the calls of a SessionManager, for whatever entries say),*)
(* the records of ended tasks end in both, and TaskFits relates what this  *)
(* process knows of a task to what the entries say.  That a record which   *)
(* ends a task is its last is inductive only because a task that has ended *)
(* in the entries is done here (EndedBefore), a task that is not done has  *)
(* a session, and a crash forgets the tasks and never writes a record that *)
(* ends one.  That a live task is on the disk is inductive only with its   *)
(* file being no later than the session's.                                 *)
(*                                                                         *)
(* The second half is about branches, contexts and summaries, from what is *)
(* picked of a sequence to BInv: the summaries in memory and in the file   *)
(* fit their branches, the one being written fits the branch it was asked  *)
(* for (which only grows), and the live transcript follows the context of  *)
(* the active branch.  It rests on IInv: branches are unique because ids   *)
(* are, and a crash keeps what fits because the file is a first part of    *)
(* the session.                                                            *)
(***************************************************************************)
EXTENDS BranchWork, SequenceTheorems, FiniteSetTheorems, TLAPS

-----------------------------------------------------------------------------
(***************************************************************************)
(* What the calls of a SessionManager keep, for whatever entries say: the  *)
(* lemmas the proofs about a session's use rest on.  An open session and   *)
(* its file fit (LogFits); every call leaves them fitting and the file     *)
(* only grows (Committed, Persisted, FlushKept); so a call adds an entry   *)
(* or none (Adds) and what was forced to the disk survives (Survives).     *)
(* Opening, dying and losing power come last.                              *)
(*                                                                         *)
(* What entries say is a set B that a proof chooses, so that a step may    *)
(* append a body about which nothing is known (Fine, HoldsWider).          *)
(***************************************************************************)

\* The types of a session whose entries say members of B.
EntryOf(B) == [id : EntryId, parent : EntryId \cup {None}, type : Types,
               target : EntryId \cup {None}, body : B]
MemoryOf(B) == [open : BOOLEAN, entries : Seq(EntryOf(B)),
                leaf : EntryId \cup {None}, flushed : BOOLEAN, saved : Nat,
                version : Versions, blocked : BOOLEAN]
DiskOf(B) == [file : Nat, header : {"absent", "torn", "ok"}, version : Versions,
              lines : Seq(EntryOf(B)), torn : BOOLEAN, synced : SUBSET Nat,
              scar : Nat \cup {-1}]

\* The file holds what the manager believes saved.
Matches(m, d) ==
  /\ m.saved <= Len(m.entries)
  /\ d.lines = SubSeq(m.entries, 1, m.saved)
  /\ m.flushed => d.header = "ok"

\* s is a prefix of t.
Extends(s, t) ==
  Len(s) <= Len(t) /\ \A i \in 1 .. Len(s) : t[i] = s[i]

\* File e has the lines of d first, and what was forced still is.
Grows(d, e) ==
  /\ e.file = d.file
  /\ Extends(d.lines, e.lines)
  /\ d.synced \subseteq e.synced
  /\ d.synced \subseteq 0 .. Len(d.lines) => e.synced \subseteq 0 .. Len(e.lines)

\* The first n of a sequence.
LEMMA Parts ==
  ASSUME NEW S, NEW s \in Seq(S), NEW n \in Nat, n <= Len(s)
  PROVE  /\ SubSeq(s, 1, n) \in Seq(S) /\ Len(SubSeq(s, 1, n)) = n
         /\ DOMAIN SubSeq(s, 1, n) = 1 .. n
         /\ \A i \in 1 .. n : SubSeq(s, 1, n)[i] = s[i]
OBVIOUS

\* A sequence with one more element.
LEMMA Appending ==
  ASSUME NEW S, NEW s \in Seq(S), NEW e \in S
  PROVE  /\ Append(s, e) \in Seq(S) /\ Len(Append(s, e)) = Len(s) + 1
         /\ Append(s, e) # <<>>
         /\ DOMAIN Append(s, e) = 1 .. Len(s) + 1
         /\ \A i \in 1 .. Len(s) : Append(s, e)[i] = s[i]
         /\ Append(s, e)[Len(s) + 1] = e
OBVIOUS

\* Sequences with the same elements are the same.
LEMMA SameSequence ==
  ASSUME NEW S, NEW s \in Seq(S), NEW t \in Seq(S), Len(s) = Len(t),
         \A i \in 1 .. Len(s) : s[i] = t[i]
  PROVE  s = t
OBVIOUS

\* Two sequences in a row.
LEMMA Concatenation ==
  ASSUME NEW S, NEW t \in Seq(S), NEW u \in Seq(S)
  PROVE  /\ t \o u \in Seq(S) /\ Len(t \o u) = Len(t) + Len(u)
         /\ \A i \in 1 .. Len(t) : (t \o u)[i] = t[i]
         /\ \A j \in 1 .. Len(u) : (t \o u)[Len(t) + j] = u[j]
OBVIOUS

\* A prefix and what comes next are a longer prefix.
LEMMA Resumption ==
  ASSUME NEW S, NEW s \in Seq(S), NEW a \in Nat, NEW k \in Nat, a + k <= Len(s),
         NEW p, p = SubSeq(s, 1, a), NEW q, q = SubSeq(s, a + 1, a + k)
  PROVE  /\ q \in Seq(S) /\ Len(q) = k
         /\ \A i \in 1 .. k : q[i] = s[a + i]
         /\ p \o q = SubSeq(s, 1, a + k)
<1> DEFINE u == p \o q
           v == SubSeq(s, 1, a + k)
<1>1. p \in Seq(S) /\ Len(p) = a /\ \A i \in 1 .. a : p[i] = s[i]
  BY Parts
<1>2. q \in Seq(S) /\ Len(q) = k /\ \A i \in 1 .. k : q[i] = s[a + i]
  OBVIOUS
<1>3. v \in Seq(S) /\ Len(v) = a + k /\ \A i \in 1 .. a + k : v[i] = s[i]
  BY Parts
<1>4. /\ u \in Seq(S) /\ Len(u) = a + k
      /\ \A i \in 1 .. a : u[i] = p[i]
      /\ \A j \in 1 .. k : u[a + j] = q[j]
  BY <1>1, <1>2, Concatenation
<1> HIDE DEF u, v
<1>5. \A i \in 1 .. a + k : u[i] = s[i]
  <2>1. SUFFICES ASSUME NEW i \in 1 .. a + k PROVE u[i] = s[i]
    OBVIOUS
  <2>2. CASE i <= a
    BY <2>2, <1>1, <1>4
  <2>3. CASE i > a
    <3> DEFINE j == i - a
    <3>1. j \in 1 .. k /\ a + j = i
      BY <2>3
    <3> HIDE DEF j
    <3>2. u[a + j] = q[j] /\ q[j] = s[a + j]
      BY <3>1, <1>2, <1>4
    <3>3. QED
      BY <3>1, <3>2
  <2>4. QED
    BY <2>2, <2>3
<1>6. u = v
  BY <1>3, <1>4, <1>5, SameSequence
<1>7. QED
  BY <1>2, <1>6 DEF u, v

\* What extends an extension extends the beginning.
LEMMA ExtensionsCompose ==
  ASSUME NEW S, NEW s \in Seq(S), NEW t \in Seq(S), NEW u \in Seq(S),
         Extends(s, t), Extends(t, u)
  PROVE  Extends(s, u)
BY DEF Extends

\* What a file keeps through two steps it keeps through both.
LEMMA GrowthComposes ==
  ASSUME NEW B, NEW d \in DiskOf(B), NEW e \in DiskOf(B), NEW f \in DiskOf(B),
         Grows(d, e), Grows(e, f)
  PROVE  Grows(d, f)
<1>1. Extends(d.lines, f.lines)
  BY ExtensionsCompose DEF Grows, DiskOf
<1>2. QED
  BY <1>1 DEF Grows

\* Doing nothing keeps everything.
LEMMA GrowthBegins ==
  ASSUME NEW B, NEW d \in DiskOf(B)
  PROVE  Grows(d, d)
BY DEF Grows, Extends, DiskOf

\* A step that changes neither lines nor what is forced keeps both.
LEMMA UnchangedGrows ==
  ASSUME NEW B, NEW d \in DiskOf(B), NEW e, e.file = d.file,
         e.lines = d.lines, e.synced = d.synced
  PROVE  Grows(d, e)
BY DEF Grows, Extends, DiskOf

-----------------------------------------------------------------------------
\* Waiting for the disk loses nothing and forces every line.
LEMMA ForcedFits ==
  ASSUME NEW B, NEW d \in DiskOf(B)
  PROVE  /\ FSynced(d) \in DiskOf(B)
         /\ FSynced(d).lines = d.lines /\ FSynced(d).header = d.header
         /\ d.synced \subseteq 0 .. Len(d.lines) => Grows(d, FSynced(d))
         /\ FSynced(d).file = d.file /\ FSynced(d).synced = 0 .. Len(d.lines)
<1> DEFINE n == Len(d.lines)
<1>0. n \in Nat /\ 0 .. n \in SUBSET Nat
  BY DEF DiskOf
<1>1. FSynced(d).lines = d.lines /\ FSynced(d).header = d.header
      /\ FSynced(d).file = d.file /\ FSynced(d).synced = 0 .. n
  BY DEF FSynced, DiskOf
<1>2. FSynced(d) \in DiskOf(B)
  <2> HIDE DEF n
  <2>1. FSynced(d) = [d EXCEPT !.synced = 0 .. n]
    BY DEF FSynced, n
  <2>2. QED
    BY <1>0, <2>1 DEF DiskOf
<1>3. d.synced \subseteq 0 .. Len(d.lines) => Grows(d, FSynced(d))
  BY <1>1 DEF Grows, Extends
<1>4. QED
  BY <1>1, <1>2, <1>3

\* Appending lines loses nothing; a durable last line forces them all.
LEMMA LinesFit ==
  ASSUME NEW B, NEW d \in DiskOf(B), NEW es \in Seq(EntryOf(B)), NEW f, f = WithLines(d, es)
  PROVE  /\ f \in DiskOf(B) /\ f.lines = d.lines \o es
         /\ f.header = d.header /\ f.file = d.file
         /\ Grows(d, f)
         /\ es # <<>> /\ es[Len(es)].type \in Durable => Len(f.lines) \in f.synced
<1> DEFINE n == Len(d.lines)
           k == Len(es)
           forced == {j \in 0 .. n + k : \E i \in DOMAIN es : es[i].type \in Durable /\ j <= n + i}
           l == d.lines \o es
           c == IF d.torn THEN n ELSE d.scar
<1>1. n \in Nat /\ k \in Nat /\ d.lines \in Seq(EntryOf(B)) /\ DOMAIN es = 1 .. k
  BY DEF DiskOf
<1>2. l \in Seq(EntryOf(B)) /\ Len(l) = n + k /\ \A i \in 1 .. n : l[i] = d.lines[i]
  BY <1>1
<1>3. forced \subseteq 0 .. n + k /\ forced \in SUBSET Nat
  BY <1>1
<1>4. c \in Nat \cup {-1}
  BY <1>1 DEF DiskOf
<1>5. CASE es = <<>>
  <2>1. f = d /\ l = d.lines
    BY <1>5, <1>1 DEF WithLines
  <2>2. QED
    BY <2>1, <1>5, GrowthBegins
<1>6. CASE es # <<>>
  <2>1. f = [d EXCEPT !.lines = l, !.torn = FALSE, !.scar = c, !.synced = d.synced \cup forced]
    BY <1>6 DEF WithLines
  <2>2. k \in 1 .. k
    BY <1>1, <1>6
  <2>3. es[k].type \in Durable => n + k \in forced
    BY <1>1, <2>2
  <2> HIDE DEF n, k, forced, l, c
  <2>4. f \in DiskOf(B)
    BY <2>1, <1>2, <1>3, <1>4 DEF DiskOf
  <2>5. f.lines = l /\ f.header = d.header /\ f.file = d.file /\ f.synced = d.synced \cup forced
    BY <2>1 DEF DiskOf
  <2>11. 0 .. n \subseteq 0 .. n + k
    BY <1>1
  <2>6. d.synced \subseteq 0 .. n => f.synced \subseteq 0 .. n + k
    BY <2>5, <2>11, <1>3, Zenon
  <2>7. Extends(d.lines, f.lines)
    BY <2>5, <1>2, <1>1 DEF Extends, n
  <2>8. Grows(d, f)
    BY <2>5, <2>6, <2>7, <1>2 DEF Grows, n
  <2>9. es[k].type \in Durable => Len(f.lines) \in f.synced
    BY <2>3, <2>5, <1>2
  <2>10. QED
    BY <2>4, <2>5, <2>8, <2>9 DEF l, k
<1>7. QED
  BY <1>5, <1>6

-----------------------------------------------------------------------------
\* The file the buffer is written to.
Ready(m, d) == IF m.flushed THEN d ELSE [d EXCEPT !.header = "ok", !.version = m.version]

\* Writing k of the entries that are not in the file yet.
Wrote(m, d, k) == WithLines(Ready(m, d), SubSeq(m.entries, m.saved + 1, m.saved + k))
Counted(m, k) == [m EXCEPT !.flushed = TRUE, !.saved = m.saved + k]

\* What a call that may fail ends with.
IsOutcome(o) ==
  o.ok \in BOOLEAN /\ o = [ok |-> o.ok, mem |-> o.mem, disk |-> o.disk]

\* How writing the buffer may end: not begun, half a header, or k entries.
LEMMA PersistCases ==
  ASSUME NEW m, NEW d, NEW o \in Persist(m, d)
  PROVE  \/ ~o.ok /\ o.mem = m /\ o.disk = d
         \/ ~o.ok /\ o.mem = m /\ ~m.flushed /\ o.disk = [d EXCEPT !.header = "torn"]
         \/ \E k \in 0 .. Len(m.entries) - m.saved :
              /\ o.ok <=> k = Len(m.entries) - m.saved
              /\ o.mem = Counted(m, k)
              /\ o.disk = Wrote(m, d, k)
<1> DEFINE pending == Len(m.entries) - m.saved
<1> DEFINE torn == [d EXCEPT !.header = "torn"]
           Writes(k) ==
             [ok |-> k = pending,
              mem |-> [m EXCEPT !.flushed = TRUE, !.saved = m.saved + k],
              disk |-> WithLines(Ready(m, d), SubSeq(m.entries, m.saved + 1, m.saved + k))]
<1>1. \/ o = Failure(m, d)
      \/ ~m.flushed /\ o = Failure(m, torn)
      \/ \E k \in 0 .. pending : o = Writes(k)
  BY Zenon DEF Persist, Ready
<1>2. CASE o = Failure(m, d)
  <2>1. ~o.ok /\ o.mem = m /\ o.disk = d
    BY <1>2 DEF Failure
  <2>2. QED
    BY <2>1
<1>3. CASE ~m.flushed /\ o = Failure(m, torn)
  <2> HIDE DEF torn
  <2>1. ~o.ok /\ o.mem = m /\ o.disk = torn
    BY <1>3 DEF Failure
  <2>2. QED
    BY <2>1, <1>3, Zenon DEF torn
<1>4. CASE \E k \in 0 .. pending : o = Writes(k)
  <2>1. PICK k \in 0 .. pending : o = Writes(k)
    BY <1>4
  <2>2. o.ok = (k = pending)
    BY <2>1, Zenon
  <2>3. o.mem = Counted(m, k)
    BY <2>1, Zenon DEF Counted
  <2>4. o.disk = Wrote(m, d, k)
    BY <2>1, Zenon DEF Wrote
  <2>5. QED
    BY <2>2, <2>3, <2>4, Zenon
<1>5. QED
  BY <1>1, <1>2, <1>3, <1>4

\* What writing the buffer leaves is an outcome, whole or not.
LEMMA PersistOutcomes ==
  ASSUME NEW m, NEW d, NEW o \in Persist(m, d)
  PROVE  IsOutcome(o)
<1> DEFINE pending == Len(m.entries) - m.saved
           torn == [d EXCEPT !.header = "torn"]
           Writes(k) ==
             [ok |-> k = pending,
              mem |-> [m EXCEPT !.flushed = TRUE, !.saved = m.saved + k],
              disk |-> WithLines(Ready(m, d), SubSeq(m.entries, m.saved + 1, m.saved + k))]
<1>1. \/ o = Failure(m, d)
      \/ o = Failure(m, torn)
      \/ \E k \in 0 .. pending : o = Writes(k)
  BY Zenon DEF Persist, Ready
<1>2. CASE o = Failure(m, d)
  BY <1>2 DEF Failure, IsOutcome
<1>3. CASE o = Failure(m, torn)
  <2> HIDE DEF torn
  <2>1. QED
    BY <1>3 DEF Failure, IsOutcome
<1>4. CASE \E k \in 0 .. pending : o = Writes(k)
  <2>1. PICK k \in 0 .. pending : o = Writes(k)
    BY <1>4
  <2> DEFINE a == (k = pending)
             b == [m EXCEPT !.flushed = TRUE, !.saved = m.saved + k]
             c == WithLines(Ready(m, d), SubSeq(m.entries, m.saved + 1, m.saved + k))
  <2>2. o = [ok |-> a, mem |-> b, disk |-> c] /\ a \in BOOLEAN
    BY <2>1, Zenon
  <2> HIDE DEF a, b, c
  <2>3. QED
    BY <2>2 DEF IsOutcome
<1>5. QED
  BY <1>1, <1>2, <1>3, <1>4

\* Creating the file changes none of its lines.
LEMMA ReadyFits ==
  ASSUME NEW B, NEW m \in MemoryOf(B), NEW d \in DiskOf(B), Matches(m, d),
         NEW r, r = Ready(m, d)
  PROVE  r \in DiskOf(B) /\ r.header = "ok" /\ r.lines = d.lines /\ Grows(d, r)
<1>1. CASE m.flushed
  <2>1. r = d
    BY <1>1 DEF Ready
  <2>2. QED
    BY <1>1, <2>1, GrowthBegins DEF Matches
<1>2. CASE ~m.flushed
  <2>1. r = [d EXCEPT !.header = "ok", !.version = m.version]
    BY <1>2 DEF Ready
  <2>2. r \in DiskOf(B) /\ r.header = "ok" /\ r.lines = d.lines
        /\ r.file = d.file /\ r.synced = d.synced
    BY <2>1 DEF DiskOf, MemoryOf
  <2>3. Grows(d, r)
    BY <2>2 DEF Grows, Extends, DiskOf
  <2>4. QED
    BY <2>2, <2>3
<1>3. QED
  BY <1>1, <1>2

\* The last of a part of a sequence.
LEMMA LastOfPart ==
  ASSUME NEW S, NEW s \in Seq(S), NEW q \in Seq(S), NEW a \in Nat,
         a + Len(q) = Len(s), a < Len(s), \A i \in 1 .. Len(q) : q[i] = s[a + i]
  PROVE  q # <<>> /\ q[Len(q)] = s[Len(s)]
<1>1. Len(q) \in Nat /\ Len(q) > 0
  OBVIOUS
<1>2. q[Len(q)] = s[a + Len(q)]
  BY <1>1
<1>3. QED
  BY <1>1, <1>2

\* After k more entries the file holds what the manager counts as saved.
LEMMA WritingKeeps ==
  ASSUME NEW B, NEW m \in MemoryOf(B), NEW d \in DiskOf(B), Matches(m, d),
         NEW k \in Nat, m.saved + k <= Len(m.entries),
         NEW m1, m1 = Counted(m, k), NEW d1, d1 = Wrote(m, d, k)
  PROVE  /\ m1 \in MemoryOf(B) /\ m1.entries = m.entries /\ m1.leaf = m.leaf
         /\ m1.open = m.open /\ m1.flushed /\ m1.saved = m.saved + k
         /\ d1 \in DiskOf(B) /\ Matches(m1, d1) /\ Grows(d, d1)
         /\ /\ m.saved < Len(m.entries) /\ m.saved + k = Len(m.entries)
            /\ m.entries[Len(m.entries)].type \in Durable
            => Len(d1.lines) \in d1.synced
<1> DEFINE r == Ready(m, d)
           s == m.entries
           a == m.saved
           p == SubSeq(s, 1, a)
           q == SubSeq(s, a + 1, a + k)
           l == SubSeq(s, 1, a + k)
           z == a + k
<1>1. r \in DiskOf(B) /\ r.header = "ok" /\ r.lines = p /\ Grows(d, r)
  BY ReadyFits DEF Matches
<1>2. s \in Seq(EntryOf(B)) /\ a \in Nat /\ a + k <= Len(s) /\ z \in Nat
  BY DEF MemoryOf
<1>3. d1 = WithLines(r, q)
  BY DEF Wrote
<1>4. m1 = [m EXCEPT !.flushed = TRUE, !.saved = z] /\ z = a + k
  BY DEF Counted
<1>5. /\ m1 \in MemoryOf(B) /\ m1.entries = m.entries /\ m1.leaf = m.leaf
      /\ m1.open = m.open /\ m1.flushed /\ m1.saved = z
  <2> HIDE DEF z
  <2>1. QED
    BY <1>2, <1>4 DEF MemoryOf
<1>6. s = m.entries /\ a = m.saved
  OBVIOUS
<1>7. /\ q \in Seq(EntryOf(B)) /\ Len(q) = k
      /\ \A i \in 1 .. k : q[i] = s[a + i]
      /\ p \o q = l
  <2>1. /\ p = SubSeq(s, 1, a) /\ q = SubSeq(s, a + 1, a + k)
        /\ l = SubSeq(s, 1, a + k)
    OBVIOUS
  <2> HIDE DEF s, a, p, q, l
  <2>2. QED
    BY <1>2, <2>1, Resumption, SMTT(60)
<1>8. l = SubSeq(s, 1, z)
  OBVIOUS
<1> HIDE DEF r, s, a, p, q, l, z
<1>13. q \in Seq(EntryOf(B))
  BY <1>7
<1>16. r \in DiskOf(B)
  BY <1>1
<1>14. /\ d1 \in DiskOf(B) /\ d1.lines = r.lines \o q
       /\ d1.header = r.header /\ Grows(r, d1)
       /\ q # <<>> /\ q[Len(q)].type \in Durable => Len(d1.lines) \in d1.synced
  BY <1>16, <1>3, <1>13, LinesFit, SMTT(40)
<1>15. a < Len(s) /\ a + k = Len(s) => q # <<>> /\ q[Len(q)] = s[Len(s)]
  BY <1>2, <1>7, LastOfPart
<1>9. /\ d1 \in DiskOf(B) /\ d1.lines = p \o q
      /\ d1.header = "ok" /\ Grows(r, d1)
      /\ a < Len(s) /\ a + k = Len(s) /\ s[Len(s)].type \in Durable
         => Len(d1.lines) \in d1.synced
  BY <1>1, <1>14, <1>15, Zenon
<1>10. Grows(d, d1)
  BY <1>1, <1>9, GrowthComposes
<1>11. Matches(m1, d1)
  BY <1>2, <1>4, <1>5, <1>6, <1>7, <1>8, <1>9 DEF Matches
<1>12. QED
  BY <1>4, <1>5, <1>6, <1>9, <1>10, <1>11

\* What persisting the buffer may do.
Persisted(B, m, d, o) ==
  /\ o.mem \in MemoryOf(B) /\ o.disk \in DiskOf(B)
  /\ o.mem.entries = m.entries /\ o.mem.leaf = m.leaf /\ o.mem.open = m.open
  /\ m.flushed => o.mem.flushed
  /\ Matches(o.mem, o.disk) /\ Grows(d, o.disk)
  /\ o.ok => o.mem.flushed /\ o.mem.saved = Len(m.entries)
  /\ ~o.ok => o.mem.saved = m.saved \/ o.mem.saved < Len(m.entries)
  /\ /\ o.ok /\ m.saved < Len(m.entries)
     /\ m.entries[Len(m.entries)].type \in Durable
     => Len(o.disk.lines) \in o.disk.synced

\* Writing the buffer keeps manager and file in step, however it ends.
LEMMA PersistKeeps ==
  ASSUME NEW B, NEW m \in MemoryOf(B), NEW d \in DiskOf(B), Matches(m, d),
         NEW o \in Persist(m, d)
  PROVE  Persisted(B, m, d, o)
<1>0. /\ m.entries \in Seq(EntryOf(B)) /\ Len(m.entries) \in Nat
      /\ m.saved \in Nat /\ m.saved <= Len(m.entries)
  BY DEF MemoryOf, Matches
<1>1. CASE ~o.ok /\ o.mem = m /\ o.disk = d
  BY <1>1, GrowthBegins DEF Persisted
<1>2. CASE ~o.ok /\ o.mem = m /\ ~m.flushed /\ o.disk = [d EXCEPT !.header = "torn"]
  <2>1. /\ o.disk \in DiskOf(B) /\ o.disk.lines = d.lines
        /\ o.disk.file = d.file /\ o.disk.synced = d.synced
    BY <1>2 DEF DiskOf
  <2>2. Grows(d, o.disk)
    BY <2>1, UnchangedGrows
  <2>3. Matches(o.mem, o.disk)
    BY <1>2, <2>1 DEF Matches
  <2>4. QED
    BY <1>2, <2>1, <2>2, <2>3 DEF Persisted
<1>3. CASE \E k \in 0 .. Len(m.entries) - m.saved :
              /\ o.ok <=> k = Len(m.entries) - m.saved
              /\ o.mem = Counted(m, k)
              /\ o.disk = Wrote(m, d, k)
  <2>1. PICK k \in 0 .. Len(m.entries) - m.saved :
              /\ o.ok <=> k = Len(m.entries) - m.saved
              /\ o.mem = Counted(m, k)
              /\ o.disk = Wrote(m, d, k)
    BY <1>3
  <2> DEFINE m1 == o.mem
             d1 == o.disk
  <2>2. m1 = Counted(m, k) /\ d1 = Wrote(m, d, k)
    BY <2>1
  <2>4. /\ k \in Nat /\ m.saved + k <= Len(m.entries)
        /\ o.ok <=> m.saved + k = Len(m.entries)
    BY <1>0, <2>1
  <2> HIDE DEF m1, d1
  <2>5. /\ m1 \in MemoryOf(B) /\ m1.entries = m.entries /\ m1.leaf = m.leaf
        /\ m1.open = m.open /\ m1.flushed /\ m1.saved = m.saved + k
        /\ d1 \in DiskOf(B) /\ Matches(m1, d1) /\ Grows(d, d1)
        /\ /\ m.saved < Len(m.entries) /\ m.saved + k = Len(m.entries)
           /\ m.entries[Len(m.entries)].type \in Durable
           => Len(d1.lines) \in d1.synced
    BY <2>2, <2>4, WritingKeeps
  <2>6. QED
    BY <2>4, <2>5, <1>0 DEF m1, d1, Persisted
<1>4. QED
  BY <1>1, <1>2, <1>3, PersistCases

-----------------------------------------------------------------------------
\* The manager with an entry, and the one that takes it back.
With(m, e) == [m EXCEPT !.entries = Append(m.entries, e), !.leaf = e.id]
Restored(n, m) == [n EXCEPT !.entries = m.entries, !.leaf = m.leaf]

\* What a commit of e may do, or the appending of it after a flush.
Committed(B, m, d, e, o) ==
  /\ IsOutcome(o)
  /\ o.mem \in MemoryOf(B) /\ o.disk \in DiskOf(B)
  /\ o.mem.open = m.open
  /\ Matches(o.mem, o.disk) /\ Grows(d, o.disk)
  /\ o.mem.entries = IF o.ok THEN Append(m.entries, e) ELSE m.entries
  /\ o.mem.leaf = IF o.ok THEN e.id ELSE m.leaf
  /\ m.flushed => o.mem.flushed
  /\ o.ok /\ m.flushed /\ e.type \in Durable =>
       o.mem.saved = Len(o.mem.entries) /\ Len(o.disk.lines) \in o.disk.synced

\* A manager that takes an entry back still fits its file.
LEMMA TakenBack ==
  ASSUME NEW B, NEW m \in MemoryOf(B), NEW d \in DiskOf(B),
         NEW e \in EntryOf(B), NEW m1 \in MemoryOf(B),
         Matches(m1, d), m1.entries = Append(m.entries, e), m1.saved <= Len(m.entries),
         NEW n, n = Restored(m1, m)
  PROVE  /\ n \in MemoryOf(B) /\ n.entries = m.entries /\ n.leaf = m.leaf
         /\ n.open = m1.open /\ n.flushed = m1.flushed /\ n.saved = m1.saved
         /\ Matches(n, d)
<1>1. /\ n \in MemoryOf(B) /\ n.entries = m.entries /\ n.leaf = m.leaf
      /\ n.open = m1.open /\ n.flushed = m1.flushed /\ n.saved = m1.saved
  BY DEF MemoryOf, Restored
<1> DEFINE s == m.entries
           a == m1.saved
           t == Append(s, e)
<1>2. s \in Seq(EntryOf(B)) /\ a \in Nat /\ a <= Len(s)
  BY DEF MemoryOf
<1>3. SubSeq(t, 1, a) = SubSeq(s, 1, a)
  <2> HIDE DEF s, a
  <2>1. QED
    BY <1>2
<1>4. d.lines = SubSeq(t, 1, a) /\ (m1.flushed => d.header = "ok")
  BY DEF Matches
<1>5. QED
  BY <1>1, <1>2, <1>3, <1>4 DEF Matches

\* A manager with one more entry still fits its file.
LEMMA Extended ==
  ASSUME NEW B, NEW m \in MemoryOf(B), NEW d \in DiskOf(B), Matches(m, d),
         NEW e \in EntryOf(B),
         NEW n, n = With(m, e)
  PROVE  /\ n \in MemoryOf(B) /\ n.entries = Append(m.entries, e) /\ n.leaf = e.id
         /\ n.open = m.open /\ n.flushed = m.flushed /\ n.saved = m.saved
         /\ Matches(n, d) /\ n.saved < Len(n.entries) /\ Len(n.entries) = Len(m.entries) + 1
         /\ n.entries[Len(n.entries)] = e
<1> DEFINE s == m.entries
           a == m.saved
           t == Append(s, e)
<1>1. s \in Seq(EntryOf(B)) /\ a \in Nat /\ a <= Len(s) /\ e.id \in EntryId
  BY DEF MemoryOf, Matches, EntryOf
<1>2. /\ SubSeq(t, 1, a) = SubSeq(s, 1, a) /\ t \in Seq(EntryOf(B))
      /\ a < Len(t) /\ Len(t) = Len(s) + 1 /\ t[Len(t)] = e
  <2> HIDE DEF s, a
  <2>1. QED
    BY <1>1
<1>3. n = [m EXCEPT !.entries = t, !.leaf = e.id]
  BY DEF With
<1> HIDE DEF t
<1>4. /\ n \in MemoryOf(B) /\ n.entries = t /\ n.leaf = e.id
      /\ n.open = m.open /\ n.flushed = m.flushed /\ n.saved = m.saved
  BY <1>1, <1>2, <1>3 DEF MemoryOf
<1>5. Matches(n, d)
  BY <1>1, <1>2, <1>4 DEF Matches
<1>6. QED
  BY <1>2, <1>4, <1>5 DEF t

\* An entry is committed or the manager is as before; the file holds what the
\* manager believes saved either way.
LEMMA CommitKeeps ==
  ASSUME NEW B, NEW m \in MemoryOf(B), NEW d \in DiskOf(B), Matches(m, d),
         NEW e \in EntryOf(B), NEW o \in Commit(m, d, e)
  PROVE  Committed(B, m, d, e, o)
<1> DEFINE m1 == With(m, e)
<1>0. m1 = With(m, e)
  OBVIOUS
<1>1. \/ ~m.flushed /\ o = Success(m1, d)
      \/ \E p \in Persist(m1, d) :
           o = IF p.ok THEN p
               ELSE [p EXCEPT !.mem.entries = m.entries, !.mem.leaf = m.leaf]
  BY Zenon DEF Commit, With
<1> HIDE DEF m1
<1>2. /\ m1 \in MemoryOf(B) /\ m1.entries = Append(m.entries, e) /\ m1.leaf = e.id
      /\ m1.open = m.open /\ m1.flushed = m.flushed /\ m1.saved = m.saved
      /\ Matches(m1, d) /\ m1.saved < Len(m1.entries) /\ Len(m1.entries) = Len(m.entries) + 1
      /\ m1.entries[Len(m1.entries)] = e
  BY <1>0, Extended
<1>6. m1 \in MemoryOf(B) /\ Matches(m1, d)
  BY <1>2
<1>3. CASE ~m.flushed /\ o = Success(m1, d)
  <2>1. IsOutcome(o) /\ o.ok /\ o.mem = m1 /\ o.disk = d
    BY <1>3 DEF Success, IsOutcome
  <2>2. Grows(d, d)
    BY GrowthBegins
  <2>3. QED
    BY <1>2, <1>3, <2>1, <2>2 DEF Committed
<1>4. CASE \E p \in Persist(m1, d) :
           o = IF p.ok THEN p
               ELSE [p EXCEPT !.mem.entries = m.entries, !.mem.leaf = m.leaf]
  <2>1. PICK p \in Persist(m1, d) :
           o = IF p.ok THEN p
               ELSE [p EXCEPT !.mem.entries = m.entries, !.mem.leaf = m.leaf]
    BY <1>4
  <2>2. /\ p.mem \in MemoryOf(B) /\ p.disk \in DiskOf(B)
        /\ p.mem.entries = m1.entries /\ p.mem.leaf = m1.leaf
        /\ p.mem.open = m1.open
        /\ m1.flushed => p.mem.flushed
        /\ Matches(p.mem, p.disk) /\ Grows(d, p.disk)
        /\ p.ok => p.mem.flushed /\ p.mem.saved = Len(m1.entries)
        /\ ~p.ok => p.mem.saved = m1.saved \/ p.mem.saved < Len(m1.entries)
        /\ /\ p.ok /\ m1.saved < Len(m1.entries)
           /\ m1.entries[Len(m1.entries)].type \in Durable
           => Len(p.disk.lines) \in p.disk.synced
    <3>1. Persisted(B, m1, d, p)
      BY <1>6, PersistKeeps
    <3>2. QED
      BY <3>1 DEF Persisted
  <2>3. IsOutcome(p)
    BY PersistOutcomes
  <2>4. CASE p.ok
    <3>1. o = p
      BY <2>1, <2>4
    <3>2. QED
      BY <3>1, <2>2, <2>3, <2>4, <1>2 DEF Committed
  <2>5. CASE ~p.ok
    <3> DEFINE n == Restored(p.mem, m)
    <3>1. o = [p EXCEPT !.mem.entries = m.entries, !.mem.leaf = m.leaf]
      BY <2>1, <2>5
    <3>2. IsOutcome(o) /\ ~o.ok /\ o.mem = n /\ o.disk = p.disk
      BY <2>3, <2>5, <3>1 DEF IsOutcome, Restored
    <3>3. p.mem.saved <= Len(m.entries) /\ p.mem.entries = Append(m.entries, e)
      BY <1>2, <2>2, <2>5 DEF MemoryOf, Matches
    <3>4. n = Restored(p.mem, m)
      OBVIOUS
    <3>7. /\ p.mem \in MemoryOf(B) /\ p.disk \in DiskOf(B) /\ Matches(p.mem, p.disk)
          /\ p.mem.saved <= Len(m.entries) /\ p.mem.entries = Append(m.entries, e)
      BY <2>2, <3>3
    <3> HIDE DEF n
    <3>5. /\ n \in MemoryOf(B) /\ n.entries = m.entries /\ n.leaf = m.leaf
          /\ n.open = p.mem.open /\ n.flushed = p.mem.flushed
          /\ Matches(n, p.disk)
      BY <3>4, <3>7, TakenBack
    <3>6. QED
      BY <3>2, <3>5, <2>2, <1>2 DEF Committed
  <2>6. QED
    BY <2>4, <2>5
<1>5. QED
  BY <1>1, <1>3, <1>4

\* Only lines that are there are forced to the disk.
SyncedFits(d) == d.synced \subseteq 0 .. Len(d.lines)

\* Rewriting the header loses no line and forces them all.
LEMMA RewritingKeeps ==
  ASSUME NEW B, NEW d \in DiskOf(B), SyncedFits(d), NEW r, r = Rewritten(d)
  PROVE  /\ r \in DiskOf(B) /\ r.lines = d.lines /\ r.header = d.header
         /\ Grows(d, r)
<1> DEFINE c == [d EXCEPT !.version = "current"]
<1>1. /\ c \in DiskOf(B) /\ c.lines = d.lines /\ c.header = d.header
      /\ c.file = d.file /\ c.synced = d.synced
  BY DEF DiskOf, Versions
<1>2. r = FSynced(c)
  BY DEF Rewritten
<1> HIDE DEF c
<1>3. c \in DiskOf(B) /\ c.synced \subseteq 0 .. Len(c.lines)
  BY <1>1 DEF SyncedFits
<1>4. /\ r \in DiskOf(B) /\ r.lines = c.lines /\ r.header = c.header
      /\ Grows(c, r)
  BY <1>2, <1>3, ForcedFits
<1>5. Grows(d, c)
  BY <1>1, UnchangedGrows
<1>6. Grows(d, r)
  BY <1>1, <1>4, <1>5, GrowthComposes
<1>7. QED
  BY <1>1, <1>4, <1>6

\* A commit after another harmless step is a commit.
LEMMA CommitAfter ==
  ASSUME NEW B, NEW m \in MemoryOf(B), NEW d \in DiskOf(B),
         NEW m1 \in MemoryOf(B), NEW d1 \in DiskOf(B), NEW e, NEW o,
         m1.entries = m.entries, m1.leaf = m.leaf, m1.open = m.open,
         m.flushed => m1.flushed, Grows(d, d1), Committed(B, m1, d1, e, o)
  PROVE  Committed(B, m, d, e, o)
<1>1. Grows(d, o.disk)
  BY GrowthComposes DEF Committed
<1>2. QED
  BY <1>1 DEF Committed

\* So does a commit of an entry that only the current format knows.
LEMMA CommitCurrentKeeps ==
  ASSUME NEW B, NEW m \in MemoryOf(B), NEW d \in DiskOf(B), Matches(m, d), SyncedFits(d),
         NEW e \in EntryOf(B), NEW o \in CommitCurrent(m, d, e)
  PROVE  Committed(B, m, d, e, o)
<1> DEFINE m1 == [m EXCEPT !.version = "current"]
<1>1. /\ m1 \in MemoryOf(B) /\ m1.entries = m.entries /\ m1.leaf = m.leaf
      /\ m1.open = m.open /\ m1.flushed = m.flushed /\ m1.saved = m.saved
  BY DEF MemoryOf, Versions
<1>2. \/ o = Failure(m1, d)
      \/ o \in Commit(m1, Rewritten(d), e)
      \/ o \in Commit(m1, d, e)
  BY DEF CommitCurrent
<1> HIDE DEF m1
<1>3. Grows(d, d)
  BY GrowthBegins
<1>4. Matches(m1, d)
  BY <1>1 DEF Matches
<1>5. CASE o = Failure(m1, d)
  <2>1. IsOutcome(o) /\ ~o.ok /\ o.mem = m1 /\ o.disk = d
    BY <1>5 DEF Failure, IsOutcome
  <2>2. QED
    BY <1>1, <1>3, <1>4, <2>1 DEF Committed
<1>6. CASE o \in Commit(m1, Rewritten(d), e)
  <2> DEFINE r == Rewritten(d)
  <2>1. r = Rewritten(d)
    OBVIOUS
  <2> HIDE DEF r
  <2>2. /\ r \in DiskOf(B) /\ r.lines = d.lines /\ r.header = d.header /\ Grows(d, r)
    BY <2>1, RewritingKeeps
  <2>3. Matches(m1, r)
    BY <1>4, <2>2 DEF Matches
  <2>4. o \in Commit(m1, r, e)
    BY <1>6 DEF r
  <2>5. Committed(B, m1, r, e, o)
    BY <1>1, <2>2, <2>3, <2>4, CommitKeeps
  <2>6. QED
    BY <1>1, <2>2, <2>5, CommitAfter
<1>7. CASE o \in Commit(m1, d, e)
  <2>1. Committed(B, m1, d, e, o)
    BY <1>1, <1>4, <1>7, CommitKeeps
  <2>2. QED
    BY <1>1, <1>3, <2>1, CommitAfter
<1>8. QED
  BY <1>2, <1>5, <1>6, <1>7

-----------------------------------------------------------------------------
\* What makes an open session and its file fit.
LogFits(B, m, d) ==
  /\ m \in MemoryOf(B) /\ d \in DiskOf(B)
  /\ Sound(m.entries) /\ m.leaf = ComputeLeafId(m.entries)
  /\ Matches(m, d) /\ SyncedFits(d)

\* What a new entry may name.
Known(s) == Ids(s) \cup {None}

\* The leaf of a sound session is one of its entries, or there is none.
LEMMA LeafIsKnown ==
  ASSUME NEW B, NEW s \in Seq(EntryOf(B)), Sound(s)
  PROVE  ComputeLeafId(s) \in Known(s)
<1>1. CASE s = <<>>
  BY <1>1 DEF ComputeLeafId, Known
<1>2. CASE s # <<>>
  <2> DEFINE n == Len(s)
             earlier == {s[j].id : j \in 1 .. n - 1}
  <2>1. n \in DOMAIN s /\ n \in Nat /\ DOMAIN s = 1 .. n
    BY <1>2
  <2>2. s[n].target \in earlier \cup {None}
    BY <2>1 DEF Sound
  <2>3. earlier \subseteq Ids(s) /\ s[n].id \in Ids(s)
    BY <2>1 DEF Ids
  <2>4. ComputeLeafId(s) = IF s[n].type = "leaf" THEN s[n].target ELSE s[n].id
    BY <1>2 DEF ComputeLeafId
  <2> HIDE DEF n, earlier
  <2>5. QED
    BY <2>2, <2>3, <2>4 DEF Known
<1>3. QED
  BY <1>1, <1>2

\* An entry with a new id that names only known ones keeps a session sound.
LEMMA SoundStays ==
  ASSUME NEW B, NEW s \in Seq(EntryOf(B)), Sound(s), NEW e \in EntryOf(B),
         e.id \notin Ids(s), e.parent \in Known(s), e.target \in Known(s),
         NEW t, t = Append(s, e)
  PROVE  Sound(t)
<1> DEFINE n == Len(s)
<1>1. /\ n \in Nat /\ DOMAIN s = 1 .. n /\ DOMAIN t = 1 .. n + 1
      /\ \A i \in 1 .. n : t[i] = s[i]
      /\ t[n + 1] = e
  OBVIOUS
<1>2. Ids(s) = {s[i].id : i \in 1 .. n}
  BY <1>1 DEF Ids
<1>3. /\ \A i, j \in 1 .. n : s[i].id = s[j].id => i = j
      /\ \A i \in 1 .. n :
           LET earlier == {s[j].id : j \in 1 .. i - 1} IN
           s[i].parent \in earlier \cup {None} /\ s[i].target \in earlier \cup {None}
  BY <1>1 DEF Sound
<1> HIDE DEF n
<1>4. \A i \in 1 .. n + 1 : i \in 1 .. n \/ i = n + 1
  BY <1>1
<1>5. ASSUME NEW i \in 1 .. n + 1, NEW j \in 1 .. n + 1, t[i].id = t[j].id
      PROVE  i = j
  <2>1. CASE i \in 1 .. n /\ j \in 1 .. n
    BY <2>1, <1>5, <1>1, <1>3
  <2>2. CASE i \in 1 .. n /\ j = n + 1
    BY <2>2, <1>5, <1>1, <1>2
  <2>3. CASE i = n + 1 /\ j \in 1 .. n
    BY <2>3, <1>5, <1>1, <1>2
  <2>4. QED
    BY <2>1, <2>2, <2>3, <1>4
<1>6. ASSUME NEW i \in 1 .. n + 1
      PROVE  LET earlier == {t[j].id : j \in 1 .. i - 1} IN
             t[i].parent \in earlier \cup {None} /\ t[i].target \in earlier \cup {None}
  <2> DEFINE before == {s[j].id : j \in 1 .. i - 1}
             earlier == {t[j].id : j \in 1 .. i - 1}
  <2>1. \A j \in 1 .. i - 1 : t[j] = s[j]
    BY <1>1
  <2>2. earlier = before
    BY <2>1
  <2>3. CASE i \in 1 .. n
    BY <2>2, <2>3, <1>1, <1>3
  <2>4. CASE i = n + 1
    <3>1. before = Ids(s)
      BY <2>4, <1>1, <1>2
    <3>2. QED
      BY <3>1, <2>2, <2>4, <1>1 DEF Known
  <2>5. QED
    BY <2>3, <2>4, <1>4
<1>7. QED
  BY <1>1, <1>5, <1>6 DEF Sound

\* A prefix of a sound session is sound.
LEMMA SoundBefore ==
  ASSUME NEW B, NEW s \in Seq(EntryOf(B)), Sound(s), NEW n \in Nat, n <= Len(s),
         NEW t, t = SubSeq(s, 1, n)
  PROVE  Sound(t)
<1>1. /\ DOMAIN s = 1 .. Len(s) /\ DOMAIN t = 1 .. n /\ Len(s) \in Nat
      /\ \A i \in 1 .. n : t[i] = s[i]
  OBVIOUS
<1>2. /\ \A i, j \in 1 .. Len(s) : s[i].id = s[j].id => i = j
      /\ \A i \in 1 .. Len(s) :
           LET earlier == {s[j].id : j \in 1 .. i - 1} IN
           s[i].parent \in earlier \cup {None} /\ s[i].target \in earlier \cup {None}
  BY <1>1 DEF Sound
<1>3. ASSUME NEW i \in 1 .. n, NEW j \in 1 .. n, t[i].id = t[j].id
      PROVE  i = j
  BY <1>1, <1>2, <1>3
<1>4. ASSUME NEW i \in 1 .. n
      PROVE  LET earlier == {t[j].id : j \in 1 .. i - 1} IN
             t[i].parent \in earlier \cup {None} /\ t[i].target \in earlier \cup {None}
  <2> DEFINE before == {s[j].id : j \in 1 .. i - 1}
             earlier == {t[j].id : j \in 1 .. i - 1}
  <2>1. \A j \in 1 .. i - 1 : t[j] = s[j]
    BY <1>1
  <2>2. earlier = before
    BY <2>1
  <2>3. i \in 1 .. Len(s) /\ t[i] = s[i]
    BY <1>1
  <2>4. QED
    BY <2>2, <2>3, <1>2
<1>5. QED
  BY <1>1, <1>3, <1>4 DEF Sound

\* The ids of entries are ids.
LEMMA IdsFit ==
  ASSUME NEW B, NEW s \in Seq(EntryOf(B))
  PROVE  Ids(s) \subseteq EntryId
<1>1. SUFFICES ASSUME NEW i \in DOMAIN s PROVE s[i].id \in EntryId
  BY DEF Ids
<1>2. s[i] \in EntryOf(B)
  OBVIOUS
<1>3. QED
  BY <1>2 DEF EntryOf

\* As long as there is room, the next id is a new one.
LEMMA NewIdIsFree ==
  ASSUME NEW B, NEW s \in Seq(EntryOf(B)), Room(s)
  PROVE  NextEntryId(s) \in EntryId /\ NextEntryId(s) \notin Ids(s)
<1>1. Ids(s) \subseteq EntryId
  BY IdsFit
<1>2. \E i \in EntryId : i \notin Ids(s)
  BY <1>1 DEF Room
<1>3. QED
  BY <1>2 DEF NextEntryId

\* A new entry has a new id and names only known ones.
LEMMA NewEntryFits ==
  ASSUME NEW B, NEW m \in MemoryOf(B), Sound(m.entries), m.leaf = ComputeLeafId(m.entries),
         Room(m.entries), NEW type \in Types, NEW target \in Known(m.entries), NEW body \in B,
         NEW e, e = NewEntry(m, type, target, body)
  PROVE  /\ e \in EntryOf(B) /\ e.id \notin Ids(m.entries)
         /\ e.parent \in Known(m.entries) /\ e.target = target
         /\ e.type = type /\ e.body = body
<1> DEFINE s == m.entries
           parent == IF m.leaf # None THEN m.leaf
                     ELSE IF s = <<>> THEN None ELSE s[Len(s)].id
           id == NextEntryId(s)
<1>1. s \in Seq(EntryOf(B))
  BY DEF MemoryOf
<1>2. m.leaf \in Known(s)
  BY <1>1, LeafIsKnown
<1>3. s # <<>> => s[Len(s)].id \in Ids(s)
  <2> HIDE DEF s
  <2>1. SUFFICES ASSUME s # <<>> PROVE s[Len(s)].id \in Ids(s)
    OBVIOUS
  <2>2. Len(s) \in DOMAIN s
    BY <1>1, <2>1
  <2>3. QED
    BY <2>2 DEF Ids
<1>4. parent \in Known(s)
  BY <1>2, <1>3 DEF Known
<1>5. id \in EntryId /\ id \notin Ids(s)
  BY <1>1, NewIdIsFree
<1>6. Known(s) \subseteq EntryId \cup {None}
  BY <1>1, IdsFit DEF Known
<1>7. e = [id |-> id, type |-> type, target |-> target, body |-> body, parent |-> parent]
  BY DEF NewEntry
<1> HIDE DEF s, parent, id
<1>8. /\ e.id = id /\ e.type = type /\ e.target = target /\ e.body = body
      /\ e.parent = parent
  BY <1>7
<1>9. target \in Known(s)
  BY DEF s
<1>10. e \in EntryOf(B)
  BY <1>4, <1>5, <1>6, <1>7, <1>9 DEF EntryOf
<1>11. QED
  BY <1>4, <1>5, <1>8, <1>10 DEF s

\* Appending is a commit, whatever the type of the entry.
LEMMA AppendedKeeps ==
  ASSUME NEW B, NEW m, NEW d, LogFits(B, m, d), Room(m.entries),
         NEW type \in Types, NEW body \in B, NEW o \in Appended(m, d, type, body),
         NEW e, e = NewEntry(m, type, None, body)
  PROVE  Committed(B, m, d, e, o)
<1>1. m \in MemoryOf(B) /\ d \in DiskOf(B) /\ Matches(m, d) /\ SyncedFits(d)
  BY DEF LogFits
<1>2. None \in Known(m.entries)
  BY DEF Known
<1>3. e \in EntryOf(B)
  BY <1>1, <1>2, NewEntryFits DEF LogFits
<1>4. \/ o \in CommitCurrent(m, d, e)
      \/ o \in Commit(m, d, e)
  BY DEF Appended
<1>5. QED
  BY <1>1, <1>3, <1>4, CommitKeeps, CommitCurrentKeeps

\* What a committed entry leaves behind fits again.
LEMMA CommittedFits ==
  ASSUME NEW B, NEW m, NEW d, LogFits(B, m, d), Room(m.entries),
         NEW type \in Types, type # "leaf", NEW body \in B,
         NEW e, e = NewEntry(m, type, None, body), NEW o, Committed(B, m, d, e, o)
  PROVE  LogFits(B, o.mem, o.disk)
<1>1. m \in MemoryOf(B) /\ d \in DiskOf(B) /\ m.entries \in Seq(EntryOf(B))
  BY DEF LogFits, MemoryOf
<1>2. None \in Known(m.entries)
  BY DEF Known
<1>3. /\ e \in EntryOf(B) /\ e.id \notin Ids(m.entries)
      /\ e.parent \in Known(m.entries) /\ e.target = None
      /\ e.type = type
  BY <1>1, <1>2, NewEntryFits DEF LogFits
<1>4. SyncedFits(o.disk)
  BY DEF Committed, Grows, SyncedFits, LogFits
<1>5. CASE o.ok
  <2> DEFINE t == Append(m.entries, e)
  <2>1. o.mem.entries = t /\ o.mem.leaf = e.id
    BY <1>5 DEF Committed
  <2>2. Sound(t)
    BY <1>1, <1>2, <1>3, SoundStays DEF LogFits
  <2>3. t # <<>> /\ t[Len(t)] = e
    BY <1>1, <1>3, Appending
  <2> HIDE DEF t
  <2>4. ComputeLeafId(t) = e.id
    BY <2>3, <1>3 DEF ComputeLeafId
  <2>5. QED
    BY <2>1, <2>2, <2>4, <1>4 DEF Committed, LogFits
<1>6. CASE ~o.ok
  <2>1. o.mem.entries = m.entries /\ o.mem.leaf = m.leaf
    BY <1>6 DEF Committed
  <2>2. QED
    BY <2>1, <1>4 DEF Committed, LogFits
<1>7. QED
  BY <1>5, <1>6

\* Another leaf: the entry that says so names it, and so does the manager.
LEMMA LeafSetKeeps ==
  ASSUME NEW B, NEW m, NEW d, LogFits(B, m, d), Room(m.entries), NoBody \in B,
         NEW id \in Ids(m.entries), NEW o \in LeafSet(m, d, id)
  PROVE  /\ LogFits(B, o.mem, o.disk) /\ Grows(d, o.disk) /\ o.mem.open = m.open
         /\ IsOutcome(o)
         /\ \/ o.mem.entries = m.entries
            \/ o.mem.entries = Append(m.entries, NewEntry(m, "leaf", id, NoBody))
<1> DEFINE e == NewEntry(m, "leaf", id, NoBody)
<1>0. e = NewEntry(m, "leaf", id, NoBody)
  OBVIOUS
<1>1. PICK p \in Commit(m, d, e) : o = IF p.ok THEN [p EXCEPT !.mem.leaf = id] ELSE p
  BY DEF LeafSet
<1> HIDE DEF e
<1>2. /\ m \in MemoryOf(B) /\ d \in DiskOf(B) /\ m.entries \in Seq(EntryOf(B))
      /\ Matches(m, d)
  BY DEF LogFits, MemoryOf
<1>3. id \in Known(m.entries) /\ id \in EntryId
  BY <1>2, IdsFit DEF Known
<1>11. "leaf" \in Types
  BY DEF Types
<1>4. /\ e \in EntryOf(B) /\ e.id \notin Ids(m.entries)
      /\ e.parent \in Known(m.entries) /\ e.target = id
      /\ e.type = "leaf"
  BY <1>0, <1>2, <1>3, <1>11, NewEntryFits DEF LogFits
<1>5. Committed(B, m, d, e, p)
  BY <1>1, <1>2, <1>4, CommitKeeps
<1>6. SyncedFits(p.disk) /\ Grows(d, p.disk)
  BY <1>5 DEF Committed, Grows, SyncedFits, LogFits
<1>7. CASE p.ok
  <2> DEFINE t == Append(m.entries, e)
             n == [p.mem EXCEPT !.leaf = id]
  <2>1. p.mem.entries = t /\ p.mem \in MemoryOf(B) /\ p.mem.open = m.open
    BY <1>5, <1>7 DEF Committed
  <2>2. Sound(t)
    BY <1>2, <1>3, <1>4, SoundStays DEF LogFits
  <2>3. t # <<>> /\ t[Len(t)] = e
    BY <1>2, <1>4, Appending
  <2>9. Append(m.entries, e) = t
    OBVIOUS
  <2> HIDE DEF t
  <2>4. ComputeLeafId(t) = id
    BY <2>3, <1>4 DEF ComputeLeafId
  <2>5. /\ n \in MemoryOf(B) /\ n.entries = t /\ n.leaf = id /\ n.open = m.open
        /\ n.flushed = p.mem.flushed /\ n.saved = p.mem.saved
    BY <2>1, <1>3 DEF MemoryOf
  <2>10. IsOutcome(p)
    BY <1>5 DEF Committed
  <2>6. IsOutcome(o) /\ o.mem = n /\ o.disk = p.disk
    BY <2>10, <1>1, <1>7 DEF IsOutcome
  <2> HIDE DEF n
  <2>7. Matches(n, p.disk)
    BY <2>1, <2>5, <1>5 DEF Committed, Matches
  <2>11. p.disk \in DiskOf(B)
    BY <1>5 DEF Committed
  <2>8. QED
    BY <2>2, <2>4, <2>5, <2>6, <2>7, <2>9, <2>11, <1>0, <1>6 DEF LogFits
<1>8. CASE ~p.ok
  <2>1. o = p /\ p.mem.entries = m.entries /\ p.mem.leaf = m.leaf
    BY <1>1, <1>5, <1>8 DEF Committed
  <2>2. QED
    BY <2>1, <1>5, <1>6 DEF Committed, LogFits
<1>9. QED
  BY <1>7, <1>8

\* Flushing changes nothing that is said, only what is on the disk.
FlushKept(B, m, d, f) ==
  /\ IsOutcome(f)
  /\ LogFits(B, f.mem, f.disk) /\ Grows(d, f.disk)
  /\ f.mem.entries = m.entries /\ f.mem.leaf = m.leaf /\ f.mem.open = m.open
  /\ m.flushed => f.mem.flushed
  /\ f.ok => f.mem.flushed

\* Flushing keeps manager and file in step, however it ends.
LEMMA FlushedKeeps ==
  ASSUME NEW B, NEW m, NEW d, LogFits(B, m, d), NEW f \in Flushed(m, d)
  PROVE  FlushKept(B, m, d, f)
<1>1. PICK p \in Persist(m, d) :
         \/ f = IF p.ok THEN [p EXCEPT !.disk = FSynced(p.disk)] ELSE p
         \/ f = [p EXCEPT !.ok = FALSE]
  BY DEF Flushed
<1>2. m \in MemoryOf(B) /\ d \in DiskOf(B) /\ Matches(m, d)
  BY DEF LogFits
<1>3. Persisted(B, m, d, p) /\ IsOutcome(p)
  BY <1>2, PersistKeeps, PersistOutcomes
<1>4. /\ Grows(d, p.disk) /\ p.disk \in DiskOf(B) /\ p.mem \in MemoryOf(B)
      /\ Matches(p.mem, p.disk)
      /\ p.mem.entries = m.entries /\ p.mem.leaf = m.leaf /\ p.mem.open = m.open
      /\ m.flushed => p.mem.flushed
      /\ p.ok => p.mem.flushed
  BY <1>3 DEF Persisted
<1>5. SyncedFits(p.disk)
  BY <1>4 DEF Grows, SyncedFits, LogFits
<1>6. LogFits(B, p.mem, p.disk)
  BY <1>4, <1>5 DEF LogFits
<1> DEFINE r == FSynced(p.disk)
<1>7. /\ r \in DiskOf(B) /\ r.lines = p.disk.lines /\ r.header = p.disk.header
      /\ Grows(p.disk, r) /\ r.synced = 0 .. Len(p.disk.lines)
  BY <1>4, <1>5, ForcedFits DEF SyncedFits
<1>8. CASE p.ok /\ f = [p EXCEPT !.disk = FSynced(p.disk)]
  <2>1. f = [p EXCEPT !.disk = r]
    BY <1>8
  <2> HIDE DEF r
  <2>2. IsOutcome(f) /\ f.mem = p.mem /\ f.disk = r
    BY <1>3, <2>1 DEF IsOutcome
  <2>6. /\ p.disk \in DiskOf(B) /\ r \in DiskOf(B)
        /\ Grows(d, p.disk) /\ Grows(p.disk, r)
    BY <1>4, <1>7
  <2>3. Grows(d, r)
    BY <1>2, <2>6, GrowthComposes
  <2>4. Matches(p.mem, r) /\ SyncedFits(r)
    BY <1>4, <1>7 DEF Matches, SyncedFits
  <2>5. QED
    BY <2>2, <2>3, <2>4, <1>4, <1>6, <1>7, <1>8 DEF FlushKept, LogFits
<1>9. CASE f = p
  BY <1>3, <1>4, <1>6, <1>9 DEF FlushKept
<1>10. CASE f = [p EXCEPT !.ok = FALSE]
  <2>1. IsOutcome(f) /\ ~f.ok /\ f.mem = p.mem /\ f.disk = p.disk
    BY <1>3, <1>10 DEF IsOutcome
  <2>2. QED
    BY <2>1, <1>4, <1>6 DEF FlushKept
<1>11. QED
  BY <1>1, <1>8, <1>9, <1>10

\* A flush does not change what the next entry will be.
LEMMA SameNewEntry ==
  ASSUME NEW m, NEW n, n.entries = m.entries, n.leaf = m.leaf,
         NEW type, NEW body
  PROVE  NewEntry(n, type, None, body) = NewEntry(m, type, None, body)
BY DEF NewEntry

\* What must be on the disk before it takes effect.
LEMMA FlushedThenAppendedKeeps ==
  ASSUME NEW B, NEW m, NEW d, LogFits(B, m, d), Room(m.entries),
         NEW type \in Types, NEW body \in B,
         NEW o \in FlushedThenAppended(m, d, type, body),
         NEW e, e = NewEntry(m, type, None, body)
  PROVE  /\ Committed(B, m, d, e, o)
         /\ o.ok /\ type \in Durable => Len(o.disk.lines) \in o.disk.synced
                                        /\ o.mem.saved = Len(o.mem.entries)
<1>1. PICK f \in Flushed(m, d) : o \in IF f.ok THEN Appended(f.mem, f.disk, type, body) ELSE {f}
  BY DEF FlushedThenAppended
<1>2. FlushKept(B, m, d, f)
  BY FlushedKeeps
<1>3. /\ LogFits(B, f.mem, f.disk) /\ Grows(d, f.disk) /\ IsOutcome(f)
      /\ f.mem.entries = m.entries /\ f.mem.leaf = m.leaf /\ f.mem.open = m.open
      /\ m.flushed => f.mem.flushed
      /\ f.ok => f.mem.flushed
  BY <1>2 DEF FlushKept
<1>4. /\ m \in MemoryOf(B) /\ d \in DiskOf(B) /\ f.mem \in MemoryOf(B) /\ f.disk \in DiskOf(B)
      /\ Matches(f.mem, f.disk)
  BY <1>3 DEF LogFits
<1>5. CASE f.ok
  <2>1. o \in Appended(f.mem, f.disk, type, body) /\ Room(f.mem.entries)
    BY <1>1, <1>3, <1>5 DEF Room
  <2>2. e = NewEntry(f.mem, type, None, body)
    BY <1>3, SameNewEntry
  <2>3. Committed(B, f.mem, f.disk, e, o)
    BY <1>3, <2>1, <2>2, AppendedKeeps
  <2>4. Committed(B, m, d, e, o)
    BY <1>3, <1>4, <2>3, CommitAfter
  <2>5. e.type = type
    BY DEF NewEntry
  <2>6. QED
    BY <1>3, <1>5, <2>3, <2>4, <2>5 DEF Committed
<1>6. CASE ~f.ok
  <2>1. o = f
    BY <1>1, <1>6
  <2>2. QED
    BY <2>1, <1>3, <1>4, <1>6 DEF Committed
<1>7. QED
  BY <1>5, <1>6

-----------------------------------------------------------------------------
\* A session and its file, whether it is open or not; B holds whatever the
\* entries say.
Holds(B, m, d) ==
  /\ m \in MemoryOf(B) /\ d \in DiskOf(B) /\ NoBody \in B
  /\ Sound(m.entries) /\ Sound(d.lines) /\ SyncedFits(d)
  /\ m.open => Matches(m, d) /\ m.leaf = ComputeLeafId(m.entries)
  /\ ~m.open => m = Closed
Fine(m, d) == \E B : Holds(B, m, d)

\* A sequence over a set is one over a larger set.
LEMMA Widens ==
  ASSUME NEW S, NEW T, S \subseteq T, NEW s \in Seq(S)
  PROVE  s \in Seq(T)
OBVIOUS

\* A session that holds what it says may say more.
LEMMA HoldsWider ==
  ASSUME NEW B, NEW m, NEW d, Holds(B, m, d), NEW b, NEW C, C = B \cup {b}
  PROVE  Holds(C, m, d) /\ b \in C
<1>1. EntryOf(B) \subseteq EntryOf(C)
  BY DEF EntryOf
<1>2. m \in MemoryOf(B) /\ d \in DiskOf(B)
  BY DEF Holds
<1>3. m.entries \in Seq(EntryOf(B)) /\ d.lines \in Seq(EntryOf(B))
  BY <1>2 DEF MemoryOf, DiskOf
<1>4. m.entries \in Seq(EntryOf(C)) /\ d.lines \in Seq(EntryOf(C))
  BY <1>1, <1>3, Widens
<1>5. m \in MemoryOf(C)
  BY <1>2, <1>4 DEF MemoryOf
<1>6. d \in DiskOf(C)
  BY <1>2, <1>4 DEF DiskOf
<1>7. NoBody \in C
  BY DEF Holds
<1>8. QED
  BY <1>5, <1>6, <1>7 DEF Holds

\* For an open session the two forms of the invariant agree.
LEMMA FitsHolds ==
  ASSUME NEW B, NoBody \in B, NEW m, NEW d, m.open
  PROVE  LogFits(B, m, d) <=> Holds(B, m, d)
<1>1. ASSUME LogFits(B, m, d) PROVE Holds(B, m, d)
  <2>1. /\ m \in MemoryOf(B) /\ Sound(m.entries) /\ Matches(m, d)
        /\ m.entries \in Seq(EntryOf(B)) /\ m.saved \in Nat
    BY <1>1 DEF LogFits, MemoryOf
  <2>2. m.saved <= Len(m.entries) /\ d.lines = SubSeq(m.entries, 1, m.saved)
    BY <2>1 DEF Matches
  <2> DEFINE s == m.entries
             n == m.saved
             t == d.lines
  <2>3. /\ s \in Seq(EntryOf(B)) /\ Sound(s) /\ n \in Nat /\ n <= Len(s)
        /\ t = SubSeq(s, 1, n)
    BY <2>1, <2>2
  <2> HIDE DEF s, n, t
  <2>4. Sound(t)
    BY <2>3, SoundBefore
  <2>5. QED
    BY <2>4, <1>1 DEF LogFits, Holds, t
<1>2. ASSUME Holds(B, m, d) PROVE LogFits(B, m, d)
  BY <1>2 DEF LogFits, Holds
<1>3. QED
  BY <1>1, <1>2

\* What a step that may append an entry saying body leaves behind.
Adds(m, d, body, n, e) ==
  /\ Fine(n, e) /\ n.open = m.open /\ Grows(d, e)
  /\ \/ n.entries = m.entries
     \/ \E x : x.body = body /\ n.entries = Append(m.entries, x)

\* A commit adds its entry or nothing.
LEMMA CommittedAdds ==
  ASSUME NEW B, NEW m, NEW d, LogFits(B, m, d), m.open, Room(m.entries),
         NEW type \in Types, type # "leaf", NEW body \in B, NoBody \in B,
         NEW e, e = NewEntry(m, type, None, body), NEW o, Committed(B, m, d, e, o)
  PROVE  Adds(m, d, body, o.mem, o.disk)
<1>1. LogFits(B, o.mem, o.disk)
  BY CommittedFits
<1>2. o.mem.open = m.open /\ Grows(d, o.disk)
  BY DEF Committed
<1>3. Holds(B, o.mem, o.disk)
  BY <1>1, <1>2, FitsHolds
<1>4. Fine(o.mem, o.disk)
  BY <1>3 DEF Fine
<1>5. e.body = body
  BY DEF NewEntry
<1>6. o.mem.entries = m.entries \/ o.mem.entries = Append(m.entries, e)
  BY DEF Committed
<1>7. QED
  BY <1>2, <1>4, <1>5, <1>6 DEF Adds

\* Appending adds one entry or none.
LEMMA AppendedAdds ==
  ASSUME NEW m, NEW d, Fine(m, d), m.open, Room(m.entries),
         NEW type \in Types, type # "leaf", NEW body,
         NEW o \in Appended(m, d, type, body)
  PROVE  Adds(m, d, body, o.mem, o.disk)
<1>1. PICK B : Holds(B, m, d)
  BY DEF Fine
<1> DEFINE C == B \cup {body}
           e == NewEntry(m, type, None, body)
<1>2. Holds(C, m, d) /\ body \in C
  BY <1>1, HoldsWider
<1>3. e = NewEntry(m, type, None, body)
  OBVIOUS
<1> HIDE DEF C, e
<1>4. NoBody \in C
  BY <1>2 DEF Holds
<1>5. LogFits(C, m, d)
  BY <1>2, <1>4, FitsHolds
<1>6. Committed(C, m, d, e, o)
  BY <1>2, <1>3, <1>5, AppendedKeeps
<1>7. QED
  BY <1>2, <1>3, <1>4, <1>5, <1>6, CommittedAdds

\* The entry is on the disk, and known to be.
Forced(d, id) ==
  \E j \in d.synced \ {0} : j <= Len(d.lines) /\ d.lines[j].id = id

\* A flush around an append does too, and the entry is on the disk.
LEMMA ForcedAdds ==
  ASSUME NEW m, NEW d, Fine(m, d), m.open, Room(m.entries),
         NEW type \in Types, type # "leaf", NEW body,
         NEW o \in FlushedThenAppended(m, d, type, body)
  PROVE  /\ Adds(m, d, body, o.mem, o.disk)
         /\ o.ok /\ type \in Durable => Forced(o.disk, o.mem.leaf)
<1>1. PICK B : Holds(B, m, d)
  BY DEF Fine
<1> DEFINE C == B \cup {body}
           e == NewEntry(m, type, None, body)
<1>2. Holds(C, m, d) /\ body \in C
  BY <1>1, HoldsWider
<1>3. e = NewEntry(m, type, None, body)
  OBVIOUS
<1> HIDE DEF C, e
<1>4. NoBody \in C
  BY <1>2 DEF Holds
<1>5. LogFits(C, m, d)
  BY <1>2, <1>4, FitsHolds
<1>6. /\ Committed(C, m, d, e, o)
      /\ o.ok /\ type \in Durable => Len(o.disk.lines) \in o.disk.synced
                                     /\ o.mem.saved = Len(o.mem.entries)
  BY <1>2, <1>3, <1>5, FlushedThenAppendedKeeps
<1>7. Adds(m, d, body, o.mem, o.disk)
  BY <1>2, <1>3, <1>4, <1>5, <1>6, CommittedAdds
<1>8. ASSUME o.ok, type \in Durable PROVE Forced(o.disk, o.mem.leaf)
  <2> DEFINE t == o.mem.entries
             l == o.disk.lines
             n == Len(l)
             s == m.entries
  <2>1. s \in Seq(EntryOf(C)) /\ m \in MemoryOf(C)
    BY <1>5 DEF LogFits, MemoryOf
  <2>2. None \in Known(s)
    BY DEF Known
  <2>3. e \in EntryOf(C)
    BY <1>2, <1>3, <1>5, <2>1, <2>2, NewEntryFits DEF LogFits
  <2>4. t = Append(s, e) /\ o.mem.leaf = e.id /\ o.mem.saved = Len(t)
    BY <1>6, <1>8 DEF Committed
  <2>5. l = SubSeq(t, 1, o.mem.saved)
    BY <1>6 DEF Committed, Matches
  <2>6. l = SubSeq(t, 1, Len(t)) /\ n = Len(l)
    BY <2>4, <2>5
  <2>7. t \in Seq(EntryOf(C)) /\ t = Append(s, e)
    BY <2>1, <2>3, <2>4
  <2> HIDE DEF t, l, n, s
  <2>8. n \in Nat /\ n # 0 /\ l[n] = e
    BY <2>1, <2>3, <2>6, <2>7
  <2>9. n \in o.disk.synced \ {0}
    BY <1>6, <1>8, <2>8 DEF n, l
  <2>10. o.disk.lines[n].id = o.mem.leaf /\ n <= Len(o.disk.lines)
    BY <2>4, <2>8 DEF n, l
  <2>11. QED
    BY <2>9, <2>10 DEF Forced
<1>9. QED
  BY <1>7, <1>8

\* Moving the leaf adds one entry that says nothing, or none.
LEMMA LeafSetAdds ==
  ASSUME NEW m, NEW d, Fine(m, d), m.open, Room(m.entries),
         NEW id \in Ids(m.entries), NEW o \in LeafSet(m, d, id)
  PROVE  Adds(m, d, NoBody, o.mem, o.disk)
<1>1. PICK B : Holds(B, m, d)
  BY DEF Fine
<1>2. LogFits(B, m, d) /\ NoBody \in B
  BY <1>1, FitsHolds DEF Holds
<1>3. /\ LogFits(B, o.mem, o.disk) /\ Grows(d, o.disk) /\ o.mem.open = m.open
      /\ \/ o.mem.entries = m.entries
         \/ o.mem.entries = Append(m.entries, NewEntry(m, "leaf", id, NoBody))
  BY <1>2, LeafSetKeeps
<1>4. Holds(B, o.mem, o.disk)
  BY <1>2, <1>3, FitsHolds
<1>5. Fine(o.mem, o.disk)
  BY <1>4 DEF Fine
<1> DEFINE e == NewEntry(m, "leaf", id, NoBody)
<1>6. e.body = NoBody
  BY DEF NewEntry
<1>7. o.mem.entries = m.entries \/ o.mem.entries = Append(m.entries, e)
  BY <1>3
<1> HIDE DEF e
<1>8. QED
  BY <1>3, <1>5, <1>6, <1>7 DEF Adds

\* A flush adds none.
LEMMA FlushedAdds ==
  ASSUME NEW m, NEW d, Fine(m, d), m.open, NEW f \in Flushed(m, d)
  PROVE  Adds(m, d, NoBody, f.mem, f.disk)
<1>1. PICK B : Holds(B, m, d)
  BY DEF Fine
<1>2. LogFits(B, m, d) /\ NoBody \in B
  BY <1>1, FitsHolds DEF Holds
<1>3. FlushKept(B, m, d, f)
  BY <1>2, FlushedKeeps
<1>4. /\ LogFits(B, f.mem, f.disk) /\ Grows(d, f.disk)
      /\ f.mem.entries = m.entries /\ f.mem.open = m.open
  BY <1>3 DEF FlushKept
<1>5. Holds(B, f.mem, f.disk)
  BY <1>2, <1>4, FitsHolds
<1>6. Fine(f.mem, f.disk)
  BY <1>5 DEF Fine
<1>7. QED
  BY <1>4, <1>6 DEF Adds

-----------------------------------------------------------------------------
\* Lines known to be on the disk stay there, unchanged.
Survives(d, e) ==
  e.file = d.file =>
    \A j \in d.synced :
      /\ j \in e.synced /\ j <= Len(e.lines)
      /\ SubSeq(e.lines, 1, j) = SubSeq(d.lines, 1, j)

\* What extends a sequence begins with the same parts.
LEMMA SamePart ==
  ASSUME NEW S, NEW s \in Seq(S), NEW t \in Seq(S), Extends(s, t), NEW j \in 0 .. Len(s)
  PROVE  j <= Len(t) /\ SubSeq(t, 1, j) = SubSeq(s, 1, j)
BY DEF Extends

\* What only grows keeps what was forced to the disk.
LEMMA GrowthSurvives ==
  ASSUME NEW B, NEW d \in DiskOf(B), NEW e \in DiskOf(B), SyncedFits(d), Grows(d, e)
  PROVE  Survives(d, e)
<1>1. SUFFICES ASSUME NEW j \in d.synced
               PROVE  /\ j \in e.synced /\ j <= Len(e.lines)
                      /\ SubSeq(e.lines, 1, j) = SubSeq(d.lines, 1, j)
  BY DEF Survives
<1> DEFINE s == d.lines
           t == e.lines
<1>2. s \in Seq(EntryOf(B)) /\ t \in Seq(EntryOf(B)) /\ Extends(s, t) /\ j \in 0 .. Len(s)
  BY DEF DiskOf, Grows, SyncedFits
<1>3. j \in e.synced
  BY DEF Grows
<1> HIDE DEF s, t
<1>4. j <= Len(t) /\ SubSeq(t, 1, j) = SubSeq(s, 1, j)
  BY <1>2, SamePart
<1>5. QED
  BY <1>3, <1>4 DEF s, t

\* So does a step that adds an entry.
LEMMA AddsSurvives ==
  ASSUME NEW m, NEW d, Fine(m, d), NEW body, NEW n, NEW e, Adds(m, d, body, n, e)
  PROVE  Survives(d, e)
<1>1. PICK B : Holds(B, m, d)
  BY DEF Fine
<1>2. PICK A : Holds(A, n, e)
  BY DEF Adds, Fine
<1>3. Grows(d, e)
  BY DEF Adds
<1> DEFINE s == d.lines
           t == e.lines
<1>4. /\ s \in Seq(EntryOf(B)) /\ t \in Seq(EntryOf(A)) /\ Extends(s, t)
      /\ d.synced \subseteq 0 .. Len(s) /\ d.synced \subseteq e.synced
  BY <1>1, <1>2, <1>3 DEF DiskOf, Grows, SyncedFits, Holds
<1> HIDE DEF s, t
<1>5. EntryOf(A) \subseteq EntryOf(A \cup B) /\ EntryOf(B) \subseteq EntryOf(A \cup B)
  BY DEF EntryOf
<1>6. s \in Seq(EntryOf(A \cup B)) /\ t \in Seq(EntryOf(A \cup B))
  BY <1>4, <1>5, Widens
<1>7. SUFFICES ASSUME NEW j \in d.synced
               PROVE  j \in e.synced /\ j <= Len(t) /\ SubSeq(t, 1, j) = SubSeq(s, 1, j)
  BY DEF Survives, s, t
<1>8. j \in 0 .. Len(s) /\ j \in e.synced
  BY <1>4
<1>9. QED
  BY <1>4, <1>6, <1>8, SamePart

\* An empty session is sound.
LEMMA NothingIsSound == Sound(<<>>)
BY DEF Sound

\* A closed and a new session say nothing.
LEMMA ClosedFits ==
  ASSUME NEW B
  PROVE  /\ Closed \in MemoryOf(B) /\ ~Closed.open /\ Closed.entries = <<>>
         /\ Created \in MemoryOf(B) /\ Created.open /\ Created.entries = <<>>
         /\ Created.leaf = None /\ ~Created.flushed /\ Created.saved = 0
         /\ ~Created.blocked /\ ~Closed.flushed
<1> DEFINE s == <<>>
<1>1. s \in Seq(EntryOf(B)) /\ s = <<>>
  OBVIOUS
<1>2. Closed = [open |-> FALSE, entries |-> s, leaf |-> None, flushed |-> FALSE,
                saved |-> 0, version |-> "current", blocked |-> FALSE]
  BY DEF Closed
<1>3. Created = [Closed EXCEPT !.open = TRUE]
  BY DEF Created
<1> HIDE DEF s
<1>4. /\ Closed \in MemoryOf(B) /\ ~Closed.open /\ Closed.entries = s
      /\ Closed.leaf = None /\ ~Closed.flushed /\ Closed.saved = 0 /\ ~Closed.blocked
  BY <1>1, <1>2 DEF MemoryOf, Versions
<1>5. /\ Created \in MemoryOf(B) /\ Created.open /\ Created.entries = s
      /\ Created.leaf = None /\ ~Created.flushed /\ Created.saved = 0
      /\ ~Created.blocked
  BY <1>3, <1>4 DEF MemoryOf
<1>6. QED
  BY <1>1, <1>4, <1>5

\* A file that is not there has no lines.
LEMMA NoFileFits ==
  ASSUME NEW B, NEW n \in Nat
  PROVE  /\ NoFile(n) \in DiskOf(B) /\ NoFile(n).lines = <<>> /\ NoFile(n).file = n
         /\ NoFile(n).synced = {}
BY DEF NoFile, DiskOf, Versions

\* A sound file needs no open session.
LEMMA ClosingIsFine ==
  ASSUME NEW B, NoBody \in B, NEW d \in DiskOf(B), Sound(d.lines), SyncedFits(d)
  PROVE  Fine(Closed, d)
<1>1. Holds(B, Closed, d)
  BY ClosedFits, NothingIsSound DEF Holds
<1>2. QED
  BY <1>1 DEF Fine

\* A new session fits the file it will create.
LEMMA CreatingIsFine ==
  ASSUME NEW n \in Nat
  PROVE  Fine(Created, NoFile(n))
<1> DEFINE B == {NoBody}
           d == NoFile(n)
           m == Created
<1>1. /\ m \in MemoryOf(B) /\ m.open /\ m.entries = <<>>
      /\ m.leaf = None /\ ~m.flushed /\ m.saved = 0
  BY ClosedFits
<1>2. d \in DiskOf(B) /\ d.lines = <<>> /\ d.synced = {}
  BY NoFileFits
<1>7. NoBody \in B
  OBVIOUS
<1> HIDE DEF m, d, B
<1>3. m.leaf = ComputeLeafId(m.entries)
  BY <1>1 DEF ComputeLeafId
<1>4. Matches(m, d)
  BY <1>1, <1>2 DEF Matches
<1>5. Holds(B, m, d)
  BY <1>1, <1>2, <1>3, <1>4, <1>7, NothingIsSound DEF Holds, SyncedFits
<1>6. QED
  BY <1>5 DEF Fine, m, d

\* Opening a file reads its lines and continues from its leaf.
LEMMA OpeningIsFine ==
  ASSUME NEW m, NEW d, Fine(m, d), d.header = "ok"
  PROVE  Fine(Opened(d), d) /\ Opened(d).entries = d.lines /\ Opened(d).open
<1>1. PICK B : Holds(B, m, d)
  BY DEF Fine
<1> DEFINE s == d.lines
           n == Len(s)
           leaf == ComputeLeafId(s)
           blocked == \/ d.torn
                      \/ /\ d.scar >= 0
                         /\ \A i \in DOMAIN s : i > d.scar => s[i].type # "plan"
           o == Opened(d)
<1>2. s \in Seq(EntryOf(B)) /\ n \in Nat /\ Sound(s) /\ d.version \in Versions
  BY <1>1 DEF Holds, DiskOf
<1>3. leaf \in EntryId \cup {None}
  BY <1>2, LeafIsKnown, IdsFit DEF Known
<1>4. blocked \in BOOLEAN
  BY <1>1 DEF Holds, DiskOf
<1>5. o = [Created EXCEPT !.entries = s, !.leaf = leaf, !.flushed = TRUE, !.saved = n,
                          !.version = d.version, !.blocked = blocked]
  BY Zenon DEF Opened
<1>6. s = SubSeq(s, 1, n)
  BY <1>2
<1>8. s = d.lines /\ n = Len(s) /\ leaf = ComputeLeafId(s)
  OBVIOUS
<1> HIDE DEF s, n, leaf, blocked, o
<1>7. /\ o \in MemoryOf(B) /\ o.entries = s /\ o.leaf = leaf /\ o.saved = n /\ o.open
  BY <1>2, <1>3, <1>4, <1>5, ClosedFits DEF MemoryOf
<1>9. Matches(o, d)
  BY <1>2, <1>6, <1>7, <1>8 DEF Matches
<1>10. Holds(B, o, d)
  BY <1>1, <1>2, <1>7, <1>8, <1>9 DEF Holds
<1>11. QED
  BY <1>7, <1>8, <1>10 DEF Fine, o

\* A process that dies between two writes leaves its file.
LEMMA DyingIsFine ==
  ASSUME NEW m, NEW d, Fine(m, d)
  PROVE  Fine(Closed, d) /\ Survives(d, d)
<1>1. PICK B : Holds(B, m, d)
  BY DEF Fine
<1>2. NoBody \in B /\ d \in DiskOf(B) /\ Sound(d.lines) /\ SyncedFits(d)
  BY <1>1 DEF Holds
<1>3. Survives(d, d)
  BY <1>2, GrowthBegins, GrowthSurvives
<1>4. QED
  BY <1>2, <1>3, ClosingIsFine

\* What a dying process and a loss of power leave of a file.
Interrupted(d, e, torn) == [e EXCEPT !.synced = d.synced, !.torn = torn]
Shortened(d, k, torn, scar) ==
  [d EXCEPT !.lines = SubSeq(d.lines, 1, k), !.torn = torn, !.scar = scar]

\* A process that dies while it writes leaves some of the lines.
LEMMA DyingInAWriteIsFine ==
  ASSUME NEW m, NEW d, Fine(m, d), NEW n, NEW e, Fine(n, e), Grows(d, e),
         NEW torn \in BOOLEAN,
         NEW f, f = Interrupted(d, e, torn)
  PROVE  Fine(Closed, f) /\ Survives(d, f) /\ f.lines = e.lines
<1>1. PICK B : Holds(B, m, d)
  BY DEF Fine
<1>2. PICK A : Holds(A, n, e)
  BY DEF Fine
<1>3. /\ NoBody \in A /\ e \in DiskOf(A) /\ Sound(e.lines)
      /\ d.synced \in SUBSET Nat /\ SyncedFits(d) /\ d.lines \in Seq(EntryOf(B))
      /\ e.lines \in Seq(EntryOf(A))
  BY <1>1, <1>2 DEF Holds, DiskOf
<1>4. f \in DiskOf(A) /\ f.lines = e.lines /\ f.synced = d.synced /\ f.file = e.file
  BY <1>3 DEF DiskOf, Interrupted
<1> DEFINE s == d.lines
           t == e.lines
<1>5. /\ s \in Seq(EntryOf(B)) /\ t \in Seq(EntryOf(A)) /\ Extends(s, t)
      /\ d.synced \subseteq 0 .. Len(s)
  BY <1>3 DEF Grows, SyncedFits
<1>6. t = f.lines
  BY <1>4
<1>11. t = e.lines /\ s = d.lines
  OBVIOUS
<1> HIDE DEF s, t
<1>7. f.synced \subseteq 0 .. Len(t)
  BY <1>4, <1>5 DEF Extends
<1>8. Fine(Closed, f)
  BY <1>3, <1>4, <1>6, <1>7, ClosingIsFine DEF SyncedFits
<1>9. EntryOf(A) \subseteq EntryOf(A \cup B) /\ EntryOf(B) \subseteq EntryOf(A \cup B)
  BY DEF EntryOf
<1>10. s \in Seq(EntryOf(A \cup B)) /\ t \in Seq(EntryOf(A \cup B))
  BY <1>5, <1>9, Widens
<1>12. ASSUME NEW j \in d.synced
       PROVE  j \in f.synced /\ j <= Len(t) /\ SubSeq(t, 1, j) = SubSeq(s, 1, j)
  <2>1. j \in 0 .. Len(s) /\ j \in f.synced
    BY <1>4, <1>5
  <2>2. QED
    BY <1>5, <1>10, <2>1, SamePart
<1>13. Survives(d, f)
  BY <1>6, <1>11, <1>12 DEF Survives
<1>14. QED
  BY <1>4, <1>8, <1>13

\* A loss of power may take what was not forced to the disk.
LEMMA LosingLinesIsFine ==
  ASSUME NEW m, NEW d, Fine(m, d), NEW k \in 0 .. Len(d.lines), NEW torn \in BOOLEAN,
         \A j \in d.synced : j <= k, NEW scar, scar = d.scar \/ scar = -1,
         NEW f, f = Shortened(d, k, torn, scar)
  PROVE  Fine(Closed, f) /\ Survives(d, f) /\ f.lines = SubSeq(d.lines, 1, k)
<1>1. PICK B : Holds(B, m, d)
  BY DEF Fine
<1> DEFINE s == d.lines
           t == SubSeq(s, 1, k)
<1>2. /\ NoBody \in B /\ d \in DiskOf(B) /\ Sound(s) /\ s \in Seq(EntryOf(B))
      /\ d.synced \subseteq 0 .. Len(s) /\ scar \in Nat \cup {-1}
      /\ k \in Nat /\ k <= Len(s) /\ k \in 0 .. Len(s)
  BY <1>1 DEF Holds, DiskOf, SyncedFits
<1>3. t = SubSeq(s, 1, k) /\ f = [d EXCEPT !.lines = t, !.torn = torn, !.scar = scar]
  BY DEF Shortened
<1> HIDE DEF s, t
<1>4. t \in Seq(EntryOf(B)) /\ Len(t) = k
  BY <1>2, <1>3, Parts
<1>5. Sound(t)
  BY <1>2, <1>3, SoundBefore
<1>6. f \in DiskOf(B) /\ f.lines = t /\ f.synced = d.synced /\ f.file = d.file
  BY <1>2, <1>3, <1>4 DEF DiskOf
<1>7. SyncedFits(f)
  BY <1>2, <1>4, <1>6 DEF SyncedFits
<1>8. Fine(Closed, f)
  BY <1>2, <1>5, <1>6, <1>7, ClosingIsFine
<1>9. ASSUME NEW j \in d.synced
      PROVE  j \in f.synced /\ j <= Len(t) /\ SubSeq(t, 1, j) = SubSeq(s, 1, j)
  <2>1. j \in 0 .. k
    BY <1>2
  <2>2. SubSeq(t, 1, j) = SubSeq(s, 1, j)
    BY <2>1, <1>2, <1>3
  <2>3. QED
    BY <2>1, <2>2, <1>4, <1>6
<1>10. Survives(d, f)
  BY <1>6, <1>9 DEF Survives, s
<1>11. QED
  BY <1>6, <1>8, <1>10 DEF t, s

\* It may take a file of which nothing was forced.
LEMMA LosingTheFileIsFine ==
  ASSUME NEW m, NEW d, Fine(m, d), d.synced = {}, NEW h \in {"absent", "torn"},
         NEW f, f = [NoFile(d.file) EXCEPT !.header = h]
  PROVE  Fine(Closed, f) /\ Survives(d, f) /\ f.lines = <<>>
<1>1. PICK B : Holds(B, m, d)
  BY DEF Fine
<1>2. NoBody \in B /\ d.file \in Nat
  BY <1>1 DEF Holds, DiskOf
<1> DEFINE c == NoFile(d.file)
<1>6. c \in DiskOf(B) /\ c.lines = <<>> /\ c.synced = {}
  BY <1>2, NoFileFits
<1> HIDE DEF c
<1>7. f = [c EXCEPT !.header = h]
  BY DEF c
<1>3. f \in DiskOf(B) /\ f.lines = <<>> /\ f.synced = {}
  BY <1>6, <1>7 DEF DiskOf
<1>4. Fine(Closed, f)
  BY <1>2, <1>3, NothingIsSound, ClosingIsFine DEF SyncedFits
<1>5. QED
  BY <1>3, <1>4 DEF Survives

-----------------------------------------------------------------------------
(* The work upon a branch *)

\* A record among the entries s ends task t.
EndedBefore(s, t) ==
  \E i \in DOMAIN s : s[i].body.task = t /\ s[i].body.status \notin Active

\* What is known of a task here agrees with the entries and the disk.
TaskFits(t) ==
  /\ live[t].status \in Active => ~live[t].done
  /\ EndedBefore(mem.entries, t) => live[t].done
  /\ ~mem.open => live[t] = NotLive
  /\ live[t] # NotLive =>
       /\ live[t].file <= disk.file
       /\ live[t].file = disk.file => Forced(disk, live[t].anchor)

\* Nothing is being done without a session.
WorkFits == ~mem.open => turn.at = "idle" /\ ~comp.on

IInv ==
  /\ Fine(mem, disk) /\ WorkFits
  /\ RecordsEnd(mem.entries) /\ RecordsEnd(disk.lines)
  /\ live \in [Task -> LiveTasks]
  /\ \A t \in Task : TaskFits(t)

\* What every step keeps.
Kept == IInv' /\ Survives(disk, disk')

\* A sequence with one more element, of whatever kind.
LEMMA AppendedPlain ==
  ASSUME NEW S, NEW s \in Seq(S), NEW x, NEW t, t = Append(s, x)
  PROVE  /\ DOMAIN s = 1 .. Len(s) /\ Len(s) \in Nat
         /\ DOMAIN t = 1 .. Len(s) + 1
         /\ \A i \in 1 .. Len(s) : t[i] = s[i]
         /\ t[Len(s) + 1] = x
<1>1. s \in Seq(S \cup {x}) /\ x \in S \cup {x}
  BY Widens
<1>2. QED
  BY <1>1, Appending

\* Records end in a prefix if they do in the whole.
LEMMA RecordsEndBefore ==
  ASSUME NEW S, NEW s \in Seq(S), RecordsEnd(s), NEW n \in Nat, n <= Len(s),
         NEW t, t = SubSeq(s, 1, n)
  PROVE  RecordsEnd(t)
<1>1. DOMAIN t = 1 .. n /\ DOMAIN s = 1 .. Len(s) /\ \A i \in 1 .. n : t[i] = s[i]
  BY Parts
<1>2. \A i \in DOMAIN t : i \in DOMAIN s /\ t[i] = s[i]
  BY <1>1
<1>3. QED
  BY <1>2 DEF RecordsEnd

\* Records still end after an entry that is of no task that ended.
LEMMA RecordsEndWith ==
  ASSUME NEW S, NEW s \in Seq(S), RecordsEnd(s), NEW x, NEW t, t = Append(s, x),
         x.body.task = None \/ ~EndedBefore(s, x.body.task)
  PROVE  RecordsEnd(t)
<1> DEFINE n == Len(s)
<1>1. /\ DOMAIN s = 1 .. n /\ n \in Nat /\ DOMAIN t = 1 .. n + 1
      /\ \A i \in 1 .. n : t[i] = s[i]
      /\ t[n + 1] = x
  BY AppendedPlain
<1> HIDE DEF n
<1>2. SUFFICES ASSUME NEW i \in 1 .. n + 1, NEW j \in 1 .. n + 1, i < j,
                      t[i].body.task # None, t[i].body.task = t[j].body.task
               PROVE  t[i].body.status \in Active
  BY <1>1 DEF RecordsEnd
<1>3. i \in 1 .. n /\ t[i] = s[i]
  BY <1>1, <1>2
<1>4. CASE j \in 1 .. n
  BY <1>1, <1>2, <1>3, <1>4 DEF RecordsEnd
<1>5. CASE j = n + 1
  <2>1. ~EndedBefore(s, t[i].body.task)
    BY <1>1, <1>2, <1>5
  <2>2. QED
    BY <2>1, <1>1, <1>3 DEF EndedBefore
<1>6. QED
  BY <1>1, <1>4, <1>5

\* A task ended before an append, or by what is appended.
LEMMA EndedBeforeWith ==
  ASSUME NEW S, NEW s \in Seq(S), NEW x, NEW t, t = Append(s, x), NEW u,
         EndedBefore(t, u)
  PROVE  EndedBefore(s, u) \/ (x.body.task = u /\ x.body.status \notin Active)
<1> DEFINE n == Len(s)
<1>1. /\ DOMAIN s = 1 .. n /\ n \in Nat /\ DOMAIN t = 1 .. n + 1
      /\ \A i \in 1 .. n : t[i] = s[i]
      /\ t[n + 1] = x
  BY AppendedPlain
<1>2. PICK i \in 1 .. n + 1 : t[i].body.task = u /\ t[i].body.status \notin Active
  BY <1>1 DEF EndedBefore
<1> HIDE DEF n
<1>3. CASE i \in 1 .. n
  BY <1>1, <1>2, <1>3 DEF EndedBefore
<1>4. CASE i = n + 1
  BY <1>1, <1>2, <1>4
<1>5. QED
  BY <1>1, <1>3, <1>4

\* Entries and lines are sequences.
LEMMA EntriesAreASequence ==
  ASSUME NEW m, NEW d, Fine(m, d)
  PROVE  \E S : m.entries \in Seq(S) /\ d.lines \in Seq(S)
<1>1. PICK B : Holds(B, m, d)
  BY DEF Fine
<1>2. m.entries \in Seq(EntryOf(B)) /\ d.lines \in Seq(EntryOf(B))
  BY <1>1 DEF Holds, MemoryOf, DiskOf
<1>3. QED
  BY <1>2

\* If the records of a session end, those of its file do.
LEMMA FilePrecedesMemory ==
  ASSUME NEW m, NEW d, Fine(m, d), m.open, RecordsEnd(m.entries)
  PROVE  RecordsEnd(d.lines)
<1>1. PICK B : Holds(B, m, d)
  BY DEF Fine
<1> DEFINE s == m.entries
           n == m.saved
           t == d.lines
<1>2. s \in Seq(EntryOf(B)) /\ n \in Nat /\ n <= Len(s) /\ t = SubSeq(s, 1, n)
  BY <1>1 DEF Holds, MemoryOf, Matches
<1>3. RecordsEnd(s)
  OBVIOUS
<1> HIDE DEF s, n, t
<1>4. RecordsEnd(t)
  BY <1>2, <1>3, RecordsEndBefore
<1>5. QED
  BY <1>4 DEF t

\* Records still end after a step that adds an entry of no ended task.
LEMMA RecordsKept ==
  ASSUME NEW m, NEW d, Fine(m, d), m.open, RecordsEnd(m.entries), NEW body,
         body.task = None \/ ~EndedBefore(m.entries, body.task),
         NEW n, NEW e, Adds(m, d, body, n, e)
  PROVE  RecordsEnd(n.entries) /\ RecordsEnd(e.lines)
<1>1. PICK S : m.entries \in Seq(S)
  BY EntriesAreASequence
<1>2. RecordsEnd(n.entries)
  <2>1. CASE n.entries = m.entries
    BY <2>1
  <2>2. CASE \E x : x.body = body /\ n.entries = Append(m.entries, x)
    <3>1. PICK x : x.body = body /\ n.entries = Append(m.entries, x)
      BY <2>2
    <3>2. x.body.task = None \/ ~EndedBefore(m.entries, x.body.task)
      BY <3>1
    <3>3. QED
      BY <1>1, <3>1, <3>2, RecordsEndWith
  <2>3. QED
    BY <2>1, <2>2 DEF Adds
<1>3. n.open /\ Fine(n, e)
  BY DEF Adds
<1>4. QED
  BY <1>2, <1>3, FilePrecedesMemory

\* An entry that was forced to the disk stays forced while the file grows.
LEMMA ForcedStays ==
  ASSUME NEW m, NEW d, Fine(m, d), NEW e, Grows(d, e), NEW id, Forced(d, id)
  PROVE  Forced(e, id)
<1>1. PICK B : Holds(B, m, d)
  BY DEF Fine
<1>2. PICK j \in d.synced \ {0} : j <= Len(d.lines) /\ d.lines[j].id = id
  BY DEF Forced
<1>3. j \in 1 .. Len(d.lines)
  BY <1>1, <1>2 DEF Holds, DiskOf, SyncedFits
<1>4. j \in e.synced /\ e.lines[j] = d.lines[j] /\ Len(d.lines) <= Len(e.lines)
  BY <1>2, <1>3 DEF Grows, Extends
<1>5. Len(d.lines) \in Nat
  BY <1>1 DEF Holds, DiskOf
<1>6. e.synced \ {0} # {} /\ j \in e.synced \ {0}
  BY <1>2, <1>4
<1>7. j <= Len(e.lines)
  BY <1>2, <1>4, <1>3, <1>5
<1>8. QED
  BY <1>2, <1>4, <1>6, <1>7 DEF Forced

\* A task fits after a step that may append a record.
LEMMA TaskKept ==
  ASSUME NEW t \in Task, TaskFits(t), Fine(mem, disk), mem.open, NEW body,
         Adds(mem, disk, body, mem', disk'), NEW q, q = live'[t],
         q.status \in Active => ~q.done,
         live[t].done => q.done,
         body.task = t /\ body.status \notin Active => q.done,
         \/ q = live[t]
         \/ live[t] # NotLive /\ q.file = live[t].file /\ q.anchor = live[t].anchor
  PROVE  TaskFits(t)'
<1>1. mem'.open /\ Grows(disk, disk') /\ disk'.file = disk.file
  BY DEF Adds, Grows
<1>2. ASSUME EndedBefore(mem'.entries, t) PROVE q.done
  <2>1. CASE mem'.entries = mem.entries
    BY <1>2, <2>1 DEF TaskFits
  <2>2. CASE \E x : x.body = body /\ mem'.entries = Append(mem.entries, x)
    <3>1. PICK x : x.body = body /\ mem'.entries = Append(mem.entries, x)
      BY <2>2
    <3>2. PICK S : mem.entries \in Seq(S)
      BY EntriesAreASequence
    <3>3. EndedBefore(mem.entries, t) \/ (x.body.task = t /\ x.body.status \notin Active)
      BY <1>2, <3>1, <3>2, EndedBeforeWith
    <3>4. QED
      BY <3>1, <3>3 DEF TaskFits
  <2>3. QED
    BY <2>1, <2>2 DEF Adds
<1>3. ASSUME q # NotLive
      PROVE  /\ q.file <= disk'.file
             /\ q.file = disk'.file => Forced(disk', q.anchor)
  <2>1. live[t] # NotLive /\ q.file = live[t].file /\ q.anchor = live[t].anchor
    BY <1>3
  <2>2. ASSUME q.file = disk'.file PROVE Forced(disk', q.anchor)
    <3>1. Forced(disk, q.anchor)
      BY <1>1, <2>1, <2>2 DEF TaskFits
    <3>2. QED
      BY <1>1, <3>1, ForcedStays
  <2>3. QED
    BY <1>1, <2>1, <2>2 DEF TaskFits
<1>4. QED
  BY <1>1, <1>2, <1>3 DEF TaskFits

\* A step that may append what no task says, and stops tasks at most.
LEMMA PlainStep ==
  ASSUME IInv, mem.open, NEW body, body.task = None,
         Adds(mem, disk, body, mem', disk'), live' \in [Task -> LiveTasks],
         \A t \in Task :
           \/ live'[t] = live[t]
           \/ live[t] # NotLive /\ live'[t] = [live[t] EXCEPT !.stopped = TRUE]
  PROVE  Kept
<1>1. Fine(mem, disk) /\ Fine(mem', disk')
  BY DEF IInv, Adds
<1>2. RecordsEnd(mem'.entries) /\ RecordsEnd(disk'.lines)
  BY <1>1, RecordsKept DEF IInv
<1>3. Survives(disk, disk')
  BY <1>1, AddsSurvives
<1>4. ASSUME NEW t \in Task PROVE TaskFits(t)'
  <2> DEFINE q == live'[t]
             r == live[t]
  <2>1. TaskFits(t) /\ r \in LiveTasks
    BY DEF IInv
  <2>2. body.task # t
    BY BoundAssumption
  <2>3. \/ q = r
        \/ r # NotLive /\ q = [r EXCEPT !.stopped = TRUE]
    OBVIOUS
  <2>4. r.status \in Active => ~r.done
    BY <2>1 DEF TaskFits
  <2> HIDE DEF q, r
  <2>5. q.status = r.status /\ q.done = r.done /\ q.file = r.file /\ q.anchor = r.anchor
    BY <2>1, <2>3 DEF LiveTasks
  <2>6. q = live'[t] /\ r = live[t]
    BY DEF q, r
  <2>7. q = r \/ (r # NotLive /\ q.file = r.file /\ q.anchor = r.anchor)
    BY <2>3, <2>5
  <2>8. QED
    BY <1>1, <2>1, <2>2, <2>4, <2>5, <2>6, <2>7, TaskKept
<1>5. WorkFits'
  BY DEF WorkFits, Adds
<1>6. QED
  BY <1>1, <1>2, <1>3, <1>4, <1>5 DEF Kept, IInv

\* A step that leaves the session alone adds nothing.
LEMMA NothingAdded ==
  ASSUME NEW m, NEW d, Fine(m, d), NEW body
  PROVE  Adds(m, d, body, m, d)
<1>1. PICK B : Holds(B, m, d)
  BY DEF Fine
<1>2. Grows(d, d)
  BY <1>1, GrowthBegins DEF Holds
<1>3. QED
  BY <1>2 DEF Adds

\* What an entry of no task says.
LEMMA SilentFits == Silent \in Bodies /\ Silent.task = None /\ NoBody.task = None
BY BodyAssumption DEF Silent, Says, Bodies

\* A task that is not live is not active.
LEMMA NotLiveFits == NotLive \in LiveTasks /\ NotLive.done /\ NotLive.status \notin Active
BY BoundAssumption DEF NotLive, LiveTasks, Active, Statuses

\* A step that leaves the session alone, and stops tasks at most.
LEMMA SilentStep ==
  ASSUME IInv, UNCHANGED <<mem, disk>>, live' \in [Task -> LiveTasks],
         \/ UNCHANGED live /\ (mem.open \/ UNCHANGED <<turn, comp>>)
         \/ /\ mem.open
            /\ \A t \in Task :
                 \/ live'[t] = live[t]
                 \/ live[t] # NotLive /\ live'[t] = [live[t] EXCEPT !.stopped = TRUE]
  PROVE  Kept
<1>1. CASE UNCHANGED live /\ (mem.open \/ UNCHANGED <<turn, comp>>)
  <2>1. Fine(mem, disk)
    BY DEF IInv
  <2>2. Survives(disk, disk')
    BY <2>1, DyingIsFine
  <2>3. ASSUME NEW t \in Task PROVE TaskFits(t)'
    BY <1>1 DEF IInv, TaskFits
  <2>6. WorkFits'
    BY <1>1 DEF WorkFits, IInv
  <2>4. IInv'
    BY <1>1, <2>3, <2>6 DEF IInv
  <2>5. QED
    BY <2>2, <2>4 DEF Kept
<1>2. CASE /\ mem.open
           /\ \A t \in Task :
                \/ live'[t] = live[t]
                \/ live[t] # NotLive /\ live'[t] = [live[t] EXCEPT !.stopped = TRUE]
  <2>1. Adds(mem, disk, NoBody, mem', disk')
    BY NothingAdded DEF IInv
  <2>2. QED
    BY <1>2, <2>1, SilentFits, PlainStep
<1>3. QED
  BY <1>1, <1>2

\* A message of the conversation.
LEMMA SayStep ==
  ASSUME IInv, NEW type \in Types, type # "leaf", NEW stop, Say(type, stop), UNCHANGED live
  PROVE  Kept
<1> DEFINE body == Says(stop, {}, None, None, None)
<1>1. PICK o \in Appended(mem, disk, type, body) : mem' = o.mem /\ disk' = o.disk
  BY DEF Say, Becomes
<1>2. mem.open /\ Room(mem.entries)
  BY DEF Say, HasRoom
<1>3. body.task = None
  BY DEF Says
<1> HIDE DEF body
<1>4. Adds(mem, disk, body, o.mem, o.disk)
  BY <1>2, AppendedAdds DEF IInv
<1>5. Adds(mem, disk, body, mem', disk')
  BY <1>1, <1>4
<1>6. live' \in [Task -> LiveTasks]
  BY DEF IInv
<1>7. QED
  BY <1>2, <1>3, <1>5, <1>6, PlainStep

\* A summary is appended around a flush.
LEMMA SummaryStep ==
  ASSUME IInv, SummaryApplies
  PROVE  Kept
<1> DEFINE body == Says(None, comp.covers, comp.first, None, None)
<1>1. PICK o \in FlushedThenAppended(mem, disk, "compaction", body) :
        mem' = o.mem /\ disk' = o.disk
  BY DEF SummaryApplies, Becomes
<1>2. Room(mem.entries) /\ mem.open /\ UNCHANGED live
  BY DEF SummaryApplies, HasRoom, IInv, WorkFits
<1>3. body.task = None
  BY DEF Says
<1> HIDE DEF body
<1>8. "compaction" \in Types /\ "compaction" # "leaf"
  BY DEF Types
<1>4. Adds(mem, disk, body, o.mem, o.disk)
  BY <1>2, <1>8, ForcedAdds DEF IInv
<1>5. QED
  BY <1>1, <1>2, <1>3, <1>4, PlainStep DEF IInv

\* A task is recorded, or was not the branch's.
LEMMA RecordedStep ==
  ASSUME IInv, NEW t \in Task, NEW r \in LiveTasks, Recorded(t, r),
         live[t] # NotLive, ~live[t].done,
         r.file = live[t].file, r.anchor = live[t].anchor,
         r.status \in Active <=> ~r.done
  PROVE  Kept
<1>0. mem.open /\ TaskFits(t) /\ t # None
  BY BoundAssumption DEF IInv, TaskFits
<1>1. CASE Owns(t)
  <2> DEFINE body == TaskBody(t, r.status)
  <2>1. PICK o \in Appended(mem, disk, "task", body) :
          /\ mem' = o.mem /\ disk' = o.disk
          /\ live' = [live EXCEPT ![t] =
                          IF o.ok THEN r
                          ELSE [r EXCEPT !.status = "uncertain", !.stopped = TRUE]]
    BY <1>1 DEF Recorded, Becomes
  <2>2. Room(mem.entries)
    BY <1>1 DEF Recorded, HasRoom
  <2>3. body.task = t /\ body.status = r.status
    BY DEF TaskBody, Says
  <2> HIDE DEF body
  <2>4. "task" \in Types /\ "task" # "leaf"
    BY DEF Types
  <2>5. Adds(mem, disk, body, mem', disk')
    BY <1>0, <2>1, <2>2, <2>4, AppendedAdds DEF IInv
  <2>6. Fine(mem, disk) /\ Fine(mem', disk') /\ mem'.open
    BY <1>0, <2>5 DEF Adds, IInv
  <2>7. ~EndedBefore(mem.entries, body.task)
    BY <1>0, <2>3 DEF TaskFits
  <2>8. RecordsEnd(mem'.entries) /\ RecordsEnd(disk'.lines)
    BY <1>0, <2>5, <2>6, <2>7, RecordsKept DEF IInv
  <2>9. Survives(disk, disk')
    BY <2>5, <2>6, AddsSurvives
  <2> DEFINE q == IF o.ok THEN r
                  ELSE [r EXCEPT !.status = "uncertain", !.stopped = TRUE]
  <2>10. /\ q \in LiveTasks /\ q.file = r.file /\ q.anchor = r.anchor /\ q.done = r.done
         /\ q.status = r.status \/ q.status \notin Active
    BY DEF LiveTasks, Active, Statuses
  <2>11. live' = [live EXCEPT ![t] = q] /\ live \in [Task -> LiveTasks]
    BY <2>1 DEF IInv
  <2> HIDE DEF q
  <2>12. live' \in [Task -> LiveTasks]
    BY <2>10, <2>11
  <2>13. ASSUME NEW u \in Task PROVE TaskFits(u)'
    <3>1. TaskFits(u)
      BY DEF IInv
    <3>2. CASE u = t
      <4>1. q = live'[u]
        BY <2>11, <3>2
      <4>2. q.status \in Active => ~q.done
        BY <2>10
      <4>3. body.task = u /\ body.status \notin Active => q.done
        BY <2>3, <2>10
      <4>4. live[u] # NotLive /\ q.file = live[u].file /\ q.anchor = live[u].anchor
        BY <2>10, <3>2
      <4>5. live[u].done => q.done
        BY <3>2
      <4>6. QED
        BY <1>0, <2>5, <2>6, <3>1, <4>1, <4>2, <4>3, <4>4, <4>5, TaskKept
    <3>3. CASE u # t
      <4> DEFINE p == live'[u]
      <4>1. p = live[u] /\ p = live'[u]
        BY <2>11, <3>3
      <4>2. p.status \in Active => ~p.done
        BY <3>1, <4>1 DEF TaskFits
      <4>3. body.task # u
        BY <2>3, <3>3
      <4> HIDE DEF p
      <4>4. QED
        BY <1>0, <2>5, <2>6, <3>1, <4>1, <4>2, <4>3, TaskKept
    <3>4. QED
      BY <3>2, <3>3
  <2>14. WorkFits'
    BY <2>6 DEF WorkFits
  <2>15. QED
    BY <2>6, <2>8, <2>9, <2>12, <2>13, <2>14 DEF Kept, IInv
<1>2. CASE ~Owns(t)
  <2>1. live' = [live EXCEPT ![t] = r] /\ UNCHANGED <<mem, disk>>
    BY <1>2 DEF Recorded
  <2>2. Fine(mem, disk) /\ live \in [Task -> LiveTasks]
    BY DEF IInv
  <2>3. live' \in [Task -> LiveTasks]
    BY <2>1, <2>2
  <2>4. Survives(disk, disk')
    BY <2>1, <2>2, DyingIsFine
  <2>5. ASSUME NEW u \in Task PROVE TaskFits(u)'
    <3>1. TaskFits(u)
      BY DEF IInv
    <3>2. CASE u = t
      <4>1. live'[u] = r
        BY <2>1, <2>2, <3>2
      <4>2. ~EndedBefore(mem.entries, u)
        BY <3>1, <3>2 DEF TaskFits
      <4>3. QED
        BY <1>0, <2>1, <3>1, <3>2, <4>1, <4>2 DEF TaskFits
    <3>3. CASE u # t
      <4>1. live'[u] = live[u]
        BY <2>1, <2>2, <3>3
      <4>2. QED
        BY <2>1, <3>1, <4>1 DEF TaskFits
    <3>4. QED
      BY <3>2, <3>3
  <2>6. WorkFits'
    BY <1>0, <2>1 DEF WorkFits
  <2>7. QED
    BY <2>1, <2>2, <2>3, <2>4, <2>5, <2>6 DEF Kept, IInv
<1>3. QED
  BY <1>1, <1>2

\* A task that is active, or not done, is live.
LEMMA TaskIsLive ==
  ASSUME IInv, NEW t \in Task
  PROVE  /\ TaskFits(t) /\ live[t] \in LiveTasks
         /\ live[t].status \in Active => live[t] # NotLive /\ ~live[t].done
         /\ ~live[t].done => live[t] # NotLive
         /\ live[t] # NotLive => mem.open
BY NotLiveFits DEF IInv, TaskFits

\* A queued task starts to run.
LEMMA StartStep ==
  ASSUME IInv, NEW t \in Task, TaskStarts(t)
  PROVE  Kept
<1> DEFINE l == live[t]
           r == [l EXCEPT !.status = "running"]
<1>1. l.status = "queued" /\ Recorded(t, r)
  BY DEF TaskStarts
<1>2. l \in LiveTasks /\ l # NotLive /\ ~l.done
  BY <1>1, TaskIsLive DEF Active
<1>3. l = live[t]
  OBVIOUS
<1> HIDE DEF l
<1>4. /\ r \in LiveTasks /\ r.file = l.file /\ r.anchor = l.anchor
      /\ r.status = "running" /\ r.done = l.done
  BY <1>2 DEF LiveTasks, Statuses, Active
<1>5. r.status \in Active <=> ~r.done
  BY <1>2, <1>4 DEF Active
<1> HIDE DEF r
<1>6. QED
  BY <1>1, <1>2, <1>3, <1>4, <1>5, RecordedStep

\* A task ends, and its last record says how.
LEMMA EndStep ==
  ASSUME IInv, NEW t \in Task, TaskEnds(t)
  PROVE  Kept
<1> DEFINE l == live[t]
<1>1. PICK status \in EndsAs(l) :
        ~l.done /\ Recorded(t, [l EXCEPT !.status = status, !.done = TRUE])
  BY DEF TaskEnds
<1> DEFINE r == [l EXCEPT !.status = status, !.done = TRUE]
<1>2. l \in LiveTasks /\ l # NotLive
  BY <1>1, TaskIsLive
<1>3. l = live[t]
  OBVIOUS
<1>4. status \in Statuses /\ status \notin Active
  BY DEF EndsAs, Statuses, Active, Endings
<1>5. Recorded(t, r) /\ ~l.done
  BY <1>1
<1> HIDE DEF l
<1>6. /\ r \in LiveTasks /\ r.file = l.file /\ r.anchor = l.anchor
      /\ r.status = status /\ r.done
  BY <1>2, <1>4 DEF LiveTasks
<1> HIDE DEF r
<1>7. r.status \in Active <=> ~r.done
  BY <1>4, <1>6
<1>8. QED
  BY <1>2, <1>3, <1>5, <1>6, <1>7, RecordedStep

\* A task makes a turn, or is stopped because its branch was left.
LEMMA TurnStep ==
  ASSUME IInv, NEW t \in Task, TaskTurns(t)
  PROVE  Kept
<1> DEFINE l == live[t]
           r == [l EXCEPT !.turns = l.turns + 1]
<1>1. l.status = "running" /\ l.turns < MaxTurns
  BY DEF TaskTurns
<1>2. l \in LiveTasks /\ l # NotLive /\ ~l.done /\ mem.open
  BY <1>1, TaskIsLive DEF Active
<1>3. l = live[t]
  OBVIOUS
<1>4. \/ Recorded(t, r)
      \/ live' = [live EXCEPT ![t].stopped = TRUE] /\ UNCHANGED <<mem, disk>>
  BY DEF TaskTurns
<1>5. CASE Recorded(t, r)
  <2> HIDE DEF l
  <2>1. l.turns + 1 \in 0 .. MaxTurns
    BY <1>1, <1>2, BoundAssumption DEF LiveTasks
  <2>2. /\ r \in LiveTasks /\ r.file = l.file /\ r.anchor = l.anchor
        /\ r.status = "running" /\ r.done = l.done
    BY <1>1, <1>2, <2>1 DEF LiveTasks
  <2> HIDE DEF r
  <2>3. r.status \in Active <=> ~r.done
    BY <1>2, <2>2 DEF Active
  <2>4. QED
    BY <1>2, <1>3, <1>5, <2>2, <2>3, RecordedStep
<1>6. CASE live' = [live EXCEPT ![t].stopped = TRUE] /\ UNCHANGED <<mem, disk>>
  <2>1. live \in [Task -> LiveTasks]
    BY DEF IInv
  <2> HIDE DEF l
  <2>2. [l EXCEPT !.stopped = TRUE] \in LiveTasks
    BY <1>2 DEF LiveTasks
  <2>3. live' \in [Task -> LiveTasks]
    BY <1>3, <1>6, <2>1, <2>2
  <2>4. \A u \in Task :
          \/ live'[u] = live[u]
          \/ live[u] # NotLive /\ live'[u] = [live[u] EXCEPT !.stopped = TRUE]
    BY <1>2, <1>3, <1>6, <2>1
  <2>5. QED
    BY <1>2, <1>6, <2>3, <2>4, SilentStep
<1>7. QED
  BY <1>4, <1>5, <1>6

\* The user cancels a task.
LEMMA CancelStep ==
  ASSUME IInv, NEW t \in Task, CancelTask(t)
  PROVE  Kept
<1> DEFINE l == live[t]
<1>1. /\ mem.open /\ live' = [live EXCEPT ![t].stopped = TRUE] /\ UNCHANGED <<mem, disk>>
      /\ l.status \in Active
  BY DEF CancelTask, Owns, Unfinished
<1>2. l \in LiveTasks /\ l # NotLive
  BY <1>1, TaskIsLive
<1>3. live \in [Task -> LiveTasks] /\ l = live[t]
  BY DEF IInv
<1> HIDE DEF l
<1>4. [l EXCEPT !.stopped = TRUE] \in LiveTasks
  BY <1>2 DEF LiveTasks
<1>5. live' \in [Task -> LiveTasks]
  BY <1>1, <1>3, <1>4
<1>6. \A u \in Task :
        \/ live'[u] = live[u]
        \/ live[u] # NotLive /\ live'[u] = [live[u] EXCEPT !.stopped = TRUE]
  BY <1>1, <1>2, <1>3
<1>7. QED
  BY <1>1, <1>5, <1>6, SilentStep

\* A new task's record is on the disk under its anchor before it is live.
LEMMA SpawnStep ==
  ASSUME IInv, NEW t \in Task, Spawn(t)
  PROVE  Kept
<1> DEFINE body == TaskBody(t, "queued")
           q(o) == [NotLive EXCEPT !.status = "queued", !.done = FALSE,
                                   !.file = disk.file, !.anchor = o.mem.leaf]
<1>1. PICK o \in FlushedThenAppended(mem, disk, "task", body) :
        /\ mem' = o.mem /\ disk' = o.disk
        /\ live' = IF ~o.ok THEN live ELSE [live EXCEPT ![t] = q(o)]
  BY DEF Spawn, Becomes
<1>2. /\ mem.open /\ Room(mem.entries) /\ live[t] = NotLive
      /\ \A i \in DOMAIN mem.entries : mem.entries[i].body.task # t
  BY DEF Spawn, HasRoom
<1>3. body.task = t /\ body.status = "queued"
  BY DEF TaskBody, Says
<1>4. "task" \in Types /\ "task" # "leaf" /\ "task" \in Durable
  BY DEF Types, Durable
<1> DEFINE r == q(o)
<1> HIDE DEF body
<1>5. /\ Adds(mem, disk, body, o.mem, o.disk)
      /\ o.ok /\ "task" \in Durable => Forced(o.disk, o.mem.leaf)
  BY <1>2, <1>4, ForcedAdds DEF IInv
<1>6. Adds(mem, disk, body, mem', disk') /\ (o.ok => Forced(disk', mem'.leaf))
  BY <1>1, <1>4, <1>5
<1>7. /\ Fine(mem, disk) /\ Fine(mem', disk') /\ mem'.open
      /\ live \in [Task -> LiveTasks] /\ disk'.file = disk.file
  BY <1>2, <1>6 DEF Adds, IInv, Grows
<1>8. ~EndedBefore(mem.entries, t)
  BY <1>2 DEF EndedBefore
<1>9. RecordsEnd(mem'.entries) /\ RecordsEnd(disk'.lines)
  BY <1>2, <1>3, <1>6, <1>7, <1>8, RecordsKept DEF IInv
<1>10. Survives(disk, disk')
  BY <1>6, <1>7, AddsSurvives
<1>11. mem'.leaf \in EntryId \cup {None} /\ disk.file \in Nat
  BY <1>7 DEF Fine, Holds, MemoryOf, DiskOf
<1>12. /\ r \in LiveTasks /\ r.status = "queued" /\ ~r.done
       /\ r.file = disk.file /\ r.anchor = mem'.leaf
  BY <1>1, <1>11, NotLiveFits DEF LiveTasks, Statuses, Active
<1>13. live' = IF ~o.ok THEN live ELSE [live EXCEPT ![t] = r]
  BY <1>1
<1> HIDE DEF r
<1>14. live' \in [Task -> LiveTasks]
  BY <1>7, <1>12, <1>13
<1>15. ASSUME NEW u \in Task, u # t \/ ~o.ok PROVE TaskFits(u)'
  <2> DEFINE p == live'[u]
  <2>1. p = live[u] /\ p = live'[u] /\ TaskFits(u)
    BY <1>7, <1>13, <1>15 DEF IInv
  <2>2. p.status \in Active => ~p.done
    BY <2>1 DEF TaskFits
  <2>3. body.status \in Active
    BY <1>3 DEF Active
  <2> HIDE DEF p
  <2>4. QED
    BY <1>2, <1>6, <1>7, <2>1, <2>2, <2>3, TaskKept
<1>16. ASSUME o.ok PROVE TaskFits(t)'
  <2>1. live'[t] = r
    BY <1>7, <1>13, <1>16
  <2>2. ~EndedBefore(mem'.entries, t)
    <3>1. CASE mem'.entries = mem.entries
      BY <1>8, <3>1
    <3>2. CASE \E x : x.body = body /\ mem'.entries = Append(mem.entries, x)
      <4>1. PICK x : x.body = body /\ mem'.entries = Append(mem.entries, x)
        BY <3>2
      <4>2. PICK S : mem.entries \in Seq(S)
        BY <1>7, EntriesAreASequence
      <4>3. x.body.status \in Active
        BY <1>3, <4>1 DEF Active
      <4>4. QED
        BY <1>8, <4>1, <4>2, <4>3, EndedBeforeWith
    <3>3. QED
      BY <1>6, <3>1, <3>2 DEF Adds
  <2>3. Forced(disk', r.anchor)
    BY <1>6, <1>12, <1>16
  <2>4. QED
    BY <1>7, <1>11, <1>12, <2>1, <2>2, <2>3 DEF TaskFits
<1>17. WorkFits'
  BY <1>7 DEF WorkFits
<1>18. QED
  BY <1>7, <1>9, <1>10, <1>14, <1>15, <1>16, <1>17 DEF Kept, IInv

\* Leaving the damaged state changes no entry.
LEMMA UnblockingIsFine ==
  ASSUME NEW n, NEW e, Fine(n, e), n.open, NEW p, p = [n EXCEPT !.blocked = FALSE]
  PROVE  Fine(p, e) /\ p.entries = n.entries /\ p.open
<1>1. PICK B : Holds(B, n, e)
  BY DEF Fine
<1>2. n \in MemoryOf(B) /\ Matches(n, e)
  BY <1>1 DEF Holds
<1>3. /\ p \in MemoryOf(B) /\ p.entries = n.entries /\ p.open = n.open
      /\ p.leaf = n.leaf /\ p.saved = n.saved /\ p.flushed = n.flushed
  BY <1>2 DEF MemoryOf
<1>4. Matches(p, e)
  BY <1>2, <1>3 DEF Matches
<1>5. Holds(B, p, e)
  BY <1>1, <1>3, <1>4 DEF Holds
<1>6. QED
  BY <1>3, <1>5 DEF Fine

\* A setting or a Plan event is appended.
LEMMA RecordsStep ==
  ASSUME IInv, NEW type, Records(type)
  PROVE  Kept
<1>1. /\ mem.open /\ Room(mem.entries) /\ type \in {"settings", "plan"}
      /\ UNCHANGED live
  BY DEF Records, HasRoom
<1>2. PICK o \in Appended(mem, disk, type, Silent) :
        /\ disk' = o.disk
        /\ mem' = IF o.ok /\ type = "plan" THEN [o.mem EXCEPT !.blocked = FALSE]
                  ELSE o.mem
  BY DEF Records
<1>3. type \in Types /\ type # "leaf"
  BY <1>1 DEF Types
<1>4. Adds(mem, disk, Silent, o.mem, o.disk)
  BY <1>1, <1>3, AppendedAdds DEF IInv
<1>5. Fine(o.mem, o.disk) /\ o.mem.open
  BY <1>1, <1>4 DEF Adds
<1>6. Fine(mem', disk') /\ mem'.entries = o.mem.entries /\ mem'.open
  BY <1>2, <1>5, UnblockingIsFine
<1>7. Adds(mem, disk, Silent, mem', disk')
  BY <1>1, <1>2, <1>4, <1>6 DEF Adds
<1>8. live' \in [Task -> LiveTasks]
  BY <1>1 DEF IInv
<1>9. QED
  BY <1>1, <1>7, <1>8, SilentFits, PlainStep

\* Tasks of another branch are stopped, and nothing else about them changes.
LEMMA ReconciledStops ==
  ASSUME IInv, NEW file, NEW branch, Reconciled(file, branch)
  PROVE  /\ live' \in [Task -> LiveTasks]
         /\ \A t \in Task :
              \/ live'[t] = live[t]
              \/ live[t] # NotLive /\ live'[t] = [live[t] EXCEPT !.stopped = TRUE]
<1> DEFINE Left(t) == ~live[t].done
                      /\ ~(live[t].file = file /\ live[t].anchor \in Ids(branch))
<1>1. live' = [t \in Task |-> IF Left(t) THEN [live[t] EXCEPT !.stopped = TRUE] ELSE live[t]]
  BY DEF Reconciled
<1>2. \A t \in Task : live[t] \in LiveTasks
  BY DEF IInv
<1>3. \A t \in Task : Left(t) => live[t] # NotLive
  BY NotLiveFits
<1> HIDE DEF Left
<1>4. \A t \in Task : [live[t] EXCEPT !.stopped = TRUE] \in LiveTasks
  BY <1>2 DEF LiveTasks
<1>5. live' \in [Task -> LiveTasks]
  BY <1>1, <1>2, <1>4
<1>6. QED
  BY <1>1, <1>3, <1>5

\* Another leaf becomes active.
LEMMA TreeStep ==
  ASSUME IInv, NEW id, Tree(id)
  PROVE  Kept
<1>1. mem.open /\ Room(mem.entries) /\ id \in Ids(mem.entries)
  BY DEF Tree, HasRoom
<1>2. PICK o \in LeafSet(mem, disk, id) :
        /\ mem' = o.mem /\ disk' = o.disk
        /\ \/ Reconciled(disk.file, Branch(o.mem.entries, o.mem.leaf))
           \/ UNCHANGED live
  BY DEF Tree, Becomes
<1>3. Adds(mem, disk, NoBody, o.mem, o.disk)
  BY <1>1, LeafSetAdds DEF IInv
<1>4. Adds(mem, disk, NoBody, mem', disk')
  BY <1>2, <1>3
<1>5. CASE Reconciled(disk.file, Branch(o.mem.entries, o.mem.leaf))
  BY <1>1, <1>4, <1>5, ReconciledStops, SilentFits, PlainStep
<1>6. CASE UNCHANGED live
  BY <1>1, <1>4, <1>6, SilentFits, PlainStep DEF IInv
<1>7. QED
  BY <1>2, <1>5, <1>6

\* The user stops the run and its tasks.
LEMMA AbortStep ==
  ASSUME IInv, Abort
  PROVE  Kept
<1>1. /\ mem.open /\ UNCHANGED <<mem, disk>>
      /\ live' = [t \in Task |-> IF live[t].done THEN live[t]
                                 ELSE [live[t] EXCEPT !.stopped = TRUE]]
  BY DEF Abort
<1>2. \A t \in Task : live[t] \in LiveTasks
  BY DEF IInv
<1>3. \A t \in Task : ~live[t].done => live[t] # NotLive
  BY NotLiveFits
<1>4. \A t \in Task : [live[t] EXCEPT !.stopped = TRUE] \in LiveTasks
  BY <1>2 DEF LiveTasks
<1>5. live' \in [Task -> LiveTasks]
  BY <1>1, <1>2, <1>4
<1>6. \A t \in Task :
        \/ live'[t] = live[t]
        \/ live[t] # NotLive /\ live'[t] = [live[t] EXCEPT !.stopped = TRUE]
  BY <1>1, <1>3
<1>7. QED
  BY <1>1, <1>5, <1>6, SilentStep

\* A session that says nothing yet, in a file that is not there.
LEMMA FreshStep ==
  ASSUME IInv, mem' = Created, disk' = NoFile(disk.file + 1),
         live' \in [Task -> LiveTasks],
         \A t \in Task :
           \/ live'[t] = live[t]
           \/ live[t] # NotLive /\ live'[t] = [live[t] EXCEPT !.stopped = TRUE]
  PROVE  Kept
<1>1. disk.file \in Nat
  BY DEF IInv, Fine, Holds, DiskOf
<1>2. /\ mem'.open /\ mem'.entries = <<>> /\ disk'.lines = <<>>
      /\ disk'.file = disk.file + 1
  BY <1>1, ClosedFits, NoFileFits, SMTT(40)
<1>3. Fine(mem', disk')
  BY <1>1, CreatingIsFine
<1>4. RecordsEnd(<<>>)
  BY DEF RecordsEnd
<1>5. Survives(disk, disk')
  BY <1>1, <1>2 DEF Survives
<1>6. ASSUME NEW t \in Task PROVE TaskFits(t)'
  <2> DEFINE q == live'[t]
             r == live[t]
  <2>1. r \in LiveTasks /\ (r.status \in Active => ~r.done)
        /\ (r # NotLive => r.file <= disk.file)
    BY DEF IInv, TaskFits
  <2>2. q = r \/ (r # NotLive /\ q = [r EXCEPT !.stopped = TRUE])
    OBVIOUS
  <2>3. q = live'[t]
    OBVIOUS
  <2> HIDE DEF q, r
  <2>4. q.status = r.status /\ q.done = r.done /\ q.file = r.file
    BY <2>1, <2>2 DEF LiveTasks
  <2>5. r.file \in Nat
    BY <2>1 DEF LiveTasks
  <2>6. q # NotLive => q.file < disk'.file
    BY <1>1, <1>2, <2>1, <2>2, <2>4, <2>5
  <2>7. ~EndedBefore(mem'.entries, t)
    BY <1>2 DEF EndedBefore
  <2>8. q # NotLive => q.file <= disk'.file /\ q.file # disk'.file
    BY <1>1, <1>2, <2>4, <2>5, <2>6
  <2>9. QED
    BY <1>2, <2>1, <2>3, <2>4, <2>7, <2>8 DEF TaskFits
<1>7. WorkFits'
  BY <1>2 DEF WorkFits
<1>8. QED
  BY <1>2, <1>3, <1>4, <1>5, <1>6, <1>7 DEF Kept, IInv

\* The session is flushed and another one begins.
LEMMA NewSessionStep ==
  ASSUME IInv, NewSession
  PROVE  Kept
<1>1. PICK f \in Flushed(mem, disk) :
        \/ /\ mem' = Created /\ disk' = NoFile(disk.file + 1)
           /\ Reconciled(disk.file + 1, <<>>)
        \/ mem' = f.mem /\ disk' = f.disk /\ UNCHANGED live
  BY DEF NewSession, Becomes
<1>2. mem.open
  BY DEF NewSession
<1>3. CASE /\ mem' = Created /\ disk' = NoFile(disk.file + 1)
           /\ Reconciled(disk.file + 1, <<>>)
  BY <1>3, ReconciledStops, FreshStep
<1>4. CASE mem' = f.mem /\ disk' = f.disk /\ UNCHANGED live
  <2>1. Adds(mem, disk, NoBody, f.mem, f.disk)
    BY <1>2, FlushedAdds DEF IInv
  <2>2. Adds(mem, disk, NoBody, mem', disk')
    BY <1>4, <2>1
  <2>3. QED
    BY <1>2, <1>4, <2>2, SilentFits, PlainStep DEF IInv
<1>5. QED
  BY <1>1, <1>3, <1>4

\* The session that is opened again has no task of its own yet.
LEMMA ReopenStep ==
  ASSUME IInv, Reopen
  PROVE  Kept
<1>1. ~mem.open /\ UNCHANGED <<live, turn, comp>>
  BY DEF Reopen, Open
<1>2. \A t \in Task : live[t] = NotLive
  BY <1>1 DEF IInv, TaskFits
<1>3. CASE Create
  BY <1>1, <1>3, FreshStep DEF Create, IInv
<1>4. CASE Open
  <2>1. disk.header = "ok" /\ mem' = Opened(disk) /\ UNCHANGED disk
    BY <1>4 DEF Open
  <2>2. Fine(mem', disk') /\ mem'.entries = disk.lines /\ mem'.open
    BY <2>1, OpeningIsFine DEF IInv
  <2>3. Survives(disk, disk')
    BY <2>1, DyingIsFine DEF IInv
  <2>4. ASSUME NEW t \in Task PROVE TaskFits(t)'
    BY <1>1, <1>2, <2>2, NotLiveFits DEF TaskFits
  <2>5. WorkFits'
    BY <2>2 DEF WorkFits
  <2>6. RecordsEnd(mem'.entries) /\ RecordsEnd(disk'.lines) /\ live' \in [Task -> LiveTasks]
    BY <1>1, <2>1, <2>2 DEF IInv
  <2>7. QED
    BY <2>2, <2>3, <2>4, <2>5, <2>6 DEF Kept, IInv
<1>5. QED
  BY <1>3, <1>4 DEF Reopen

\* What a crash leaves is a file: no task, no summary, no turn.
LEMMA CrashLeaves ==
  ASSUME IInv, mem' = Closed, Forgotten, Fine(Closed, disk'), Survives(disk, disk'),
         RecordsEnd(disk'.lines)
  PROVE  Kept
<1>1. ~mem'.open /\ mem'.entries = <<>>
  BY ClosedFits
<1>2. RecordsEnd(mem'.entries)
  BY <1>1 DEF RecordsEnd
<1>3. live' \in [Task -> LiveTasks] /\ \A t \in Task : live'[t] = NotLive
  BY NotLiveFits DEF Forgotten
<1>4. \A t \in Task : ~EndedBefore(mem'.entries, t)
  BY <1>1 DEF EndedBefore
<1>5. ASSUME NEW t \in Task PROVE TaskFits(t)'
  BY <1>1, <1>3, <1>4, NotLiveFits DEF TaskFits
<1>6. WorkFits'
  BY DEF WorkFits, Forgotten, Idle, NoSummary
<1>7. QED
  BY <1>2, <1>3, <1>5, <1>6 DEF Kept, IInv

\* What is being written when the process dies ends no task twice.
LEMMA WritingFits ==
  ASSUME IInv, NEW w \in Writing
  PROVE  /\ w[1] \in Types /\ w[1] # "leaf"
         /\ w[2].task = None \/ ~EndedBefore(mem.entries, w[2].task)
<1>1. CASE w \in {<<"task", TaskBody(t, "running")>> :
                    t \in {u \in Task : Owns(u) /\ Unfinished(u)}}
  <2>1. PICK t \in Task : Unfinished(t) /\ w = <<"task", TaskBody(t, "running")>>
    BY <1>1
  <2>2. ~EndedBefore(mem.entries, t)
    BY <2>1 DEF Unfinished, IInv, TaskFits
  <2>3. w[2].task = t
    BY <2>1 DEF TaskBody, Says
  <2>4. QED
    BY <2>1, <2>2, <2>3 DEF Types
<1>2. CASE w \notin {<<"task", TaskBody(t, "running")>> :
                       t \in {u \in Task : Owns(u) /\ Unfinished(u)}}
  <2>1. \E type \in {"assistant", "toolResult", "compaction", "user", "plan"} :
          \E stop, covers, first : w = <<type, Says(stop, covers, first, None, None)>>
    BY <1>2 DEF Writing, Silent
  <2>2. QED
    BY <2>1 DEF Types, Says
<1>3. QED
  BY <1>1, <1>2

\* The process dies, in a write or not, or the power goes.
LEMMA CrashStep ==
  ASSUME IInv, Crash
  PROVE  Kept
<1>1. mem' = Closed /\ Forgotten /\ mem.open
  BY DEF Crash, Die, DieWriting, LosePower
<1>2. Fine(mem, disk) /\ RecordsEnd(disk.lines) /\ RecordsEnd(mem.entries)
  BY DEF IInv
<1>3. CASE Die
  BY <1>1, <1>2, <1>3, DyingIsFine, CrashLeaves DEF Die
<1>4. ASSUME NEW w \in Writing, DieWriting(w[1], w[2]) PROVE Kept
  <2> DEFINE type == w[1]
             body == w[2]
  <2>1. PICK o \in Appended(mem, disk, type, body), torn \in BOOLEAN :
          disk' = [o.disk EXCEPT !.synced = disk.synced,
                                 !.torn = o.disk.torn \/ (torn /\ o.disk.header = "ok")]
    BY <1>4 DEF DieWriting
  <2>2. Room(mem.entries)
    BY <1>4 DEF DieWriting
  <2>3. /\ type \in Types /\ type # "leaf"
        /\ body.task = None \/ ~EndedBefore(mem.entries, body.task)
    BY WritingFits
  <2> HIDE DEF type, body
  <2>4. Adds(mem, disk, body, o.mem, o.disk)
    BY <1>1, <1>2, <2>2, <2>3, AppendedAdds
  <2>5. RecordsEnd(o.disk.lines)
    BY <1>1, <1>2, <2>3, <2>4, RecordsKept
  <2>6. Fine(o.mem, o.disk) /\ Grows(disk, o.disk)
    BY <2>4 DEF Adds
  <2> DEFINE cut == o.disk.torn \/ (torn /\ o.disk.header = "ok")
  <2>7. cut \in BOOLEAN
    BY <2>6 DEF Fine, Holds, DiskOf
  <2>8. disk' = Interrupted(disk, o.disk, cut)
    BY <2>1 DEF Interrupted
  <2> HIDE DEF cut
  <2>9. Fine(Closed, disk') /\ Survives(disk, disk') /\ disk'.lines = o.disk.lines
    BY <1>2, <2>6, <2>7, <2>8, DyingInAWriteIsFine
  <2>10. QED
    BY <1>1, <2>5, <2>9, CrashLeaves
<1>5. CASE LosePower
  <2>1. ASSUME NEW k \in 0 .. Len(disk.lines), NEW torn \in BOOLEAN,
               \A j \in disk.synced : j <= k,
               disk' = [disk EXCEPT !.lines = SubSeq(disk.lines, 1, k), !.torn = torn,
                                    !.scar = IF disk.scar > k THEN -1 ELSE disk.scar]
        PROVE  Kept
    <3> DEFINE scar == IF disk.scar > k THEN -1 ELSE disk.scar
    <3>1. scar = disk.scar \/ scar = -1
      OBVIOUS
    <3>2. disk' = Shortened(disk, k, torn, scar)
      BY <2>1 DEF Shortened
    <3> HIDE DEF scar
    <3>3. /\ Fine(Closed, disk') /\ Survives(disk, disk')
          /\ disk'.lines = SubSeq(disk.lines, 1, k)
      BY <1>2, <2>1, <3>1, <3>2, LosingLinesIsFine
    <3>4. PICK S : disk.lines \in Seq(S)
      BY <1>2, EntriesAreASequence
    <3> DEFINE s == disk.lines
               t == disk'.lines
    <3>5. s \in Seq(S) /\ RecordsEnd(s) /\ t = SubSeq(s, 1, k) /\ k \in Nat /\ k <= Len(s)
      BY <1>2, <3>3, <3>4
    <3> HIDE DEF s, t
    <3>6. RecordsEnd(t)
      BY <3>5, RecordsEndBefore
    <3>7. QED
      BY <1>1, <3>3, <3>6, CrashLeaves DEF t
  <2>2. ASSUME disk.synced = {}, NEW h \in {"absent", "torn"},
               disk' = [NoFile(disk.file) EXCEPT !.header = h]
        PROVE  Kept
    <3>1. Fine(Closed, disk') /\ Survives(disk, disk') /\ disk'.lines = <<>>
      BY <1>2, <2>2, LosingTheFileIsFine
    <3>2. RecordsEnd(disk'.lines)
      BY <3>1 DEF RecordsEnd
    <3>3. QED
      BY <1>1, <3>1, <3>2, CrashLeaves
  <2>3. QED
    BY <1>5, <2>1, <2>2 DEF LosePower
<1>6. QED
  BY <1>3, <1>4, <1>5 DEF Crash

-----------------------------------------------------------------------------
(* What a session starts with                                              *)

\* What opening a file reads.
LEMMA OpenedSays ==
  ASSUME NEW d
  PROVE  Opened(d).entries = d.lines /\ Opened(d).leaf = ComputeLeafId(d.lines)
<1> DEFINE s == d.lines
           leaf == ComputeLeafId(s)
           n == Len(s)
           blocked == \/ d.torn
                      \/ /\ d.scar >= 0
                         /\ \A i \in DOMAIN s : i > d.scar => s[i].type # "plan"
<1>1. Opened(d) = [Created EXCEPT !.entries = s, !.leaf = leaf, !.flushed = TRUE,
                                  !.saved = n, !.version = d.version, !.blocked = blocked]
  BY Zenon DEF Opened
<1> HIDE DEF s, leaf, n, blocked
<1>2. Opened(d).entries = s /\ Opened(d).leaf = leaf
  BY <1>1 DEF Created, Closed
<1>3. QED
  BY <1>2 DEF s, leaf

\* A history is a file that was forced to the disk.
LEMMA FilesFit ==
  ASSUME NEW h \in Histories
  PROVE  /\ FileOf(h) \in DiskOf(Body) /\ FileOf(h).lines = h.lines
         /\ FileOf(h).header = "ok" /\ SyncedFits(FileOf(h))
<1> DEFINE s == h.lines
           all == 0 .. Len(s)
           v == h.version
           f == FileOf(h)
           c == NoFile(1)
<1>1. s \in Seq(EntryOf(Body)) /\ v \in Versions
  BY HistoryAssumption DEF EntryOf, Entry
<1>2. all \in SUBSET Nat /\ all = 0 .. Len(s)
  BY <1>1
<1>3. c \in DiskOf(Body)
  BY NoFileFits
<1>4. f = [c EXCEPT !.header = "ok", !.version = v, !.lines = s, !.synced = all]
  BY DEF FileOf
<1> HIDE DEF s, all, v, f, c
<1>5. /\ f \in DiskOf(Body) /\ f.lines = s /\ f.header = "ok" /\ f.synced = all
  BY <1>1, <1>2, <1>3, <1>4 DEF DiskOf
<1>6. QED
  BY <1>2, <1>5 DEF f, s, SyncedFits

\* A fork takes from a file only what is in its lines.
LEMMA ForksAlike ==
  ASSUME NEW h \in Histories
  PROVE  Forked(Opened(FileOf(h))) = Forked(Opened([NoFile(0) EXCEPT !.lines = h.lines]))
<1> DEFINE a == Opened(FileOf(h))
           e == [NoFile(0) EXCEPT !.lines = h.lines]
           b == Opened(e)
<1>1. a.entries = h.lines /\ a.leaf = ComputeLeafId(h.lines)
  BY FilesFit, OpenedSays
<1>2. e.lines = h.lines
  BY DEF NoFile
<1> HIDE DEF e
<1>3. b.entries = h.lines /\ b.leaf = ComputeLeafId(h.lines)
  BY <1>2, OpenedSays
<1> HIDE DEF a, b
<1>4. Forked(a) = Forked(b)
  BY <1>1, <1>3 DEF Forked
<1>5. QED
  BY <1>4 DEF a, b, e

\* A fork of a history fits the file it will create.
LEMMA ForkingIsFine ==
  ASSUME NEW h \in Histories, NEW m, m = Forked(Opened(FileOf(h)))
  PROVE  Fine(m, NoFile(1)) /\ RecordsEnd(m.entries) /\ m.open
<1> DEFINE a == Opened(FileOf(h))
           b == Opened([NoFile(0) EXCEPT !.lines = h.lines])
           copied == Branch(a.entries, a.leaf)
           leaf == IF copied = <<>> THEN None ELSE copied[Len(copied)].id
           d == NoFile(1)
<1>1. Forked(b) = m
  BY ForksAlike
<1>2. /\ m \in Memory /\ m.leaf = ComputeLeafId(m.entries)
      /\ Sound(m.entries) /\ RecordsEnd(m.entries)
  BY <1>1, HistoryAssumption
<1>3. m = [Created EXCEPT !.entries = copied, !.leaf = leaf]
  BY DEF Forked
<1> HIDE DEF copied, leaf, a, b
<1>4. m.open /\ ~m.flushed /\ m.saved = 0
  BY <1>3, ClosedFits DEF Created, Closed
<1>5. d \in DiskOf(Body) /\ d.lines = <<>> /\ d.synced = {}
  BY NoFileFits
<1>6. m \in MemoryOf(Body)
  BY <1>2 DEF Memory, MemoryOf, Entry, EntryOf
<1>7. m.entries \in Seq(EntryOf(Body))
  BY <1>6 DEF MemoryOf
<1>8. Matches(m, d)
  <2> DEFINE s == m.entries
             t == SubSeq(s, 1, 0)
  <2>1. s \in Seq(EntryOf(Body)) /\ Len(s) \in Nat
    BY <1>7
  <2> HIDE DEF s
  <2>2. t = <<>>
    BY <2>1
  <2>3. SubSeq(m.entries, 1, m.saved) = <<>> /\ m.saved <= Len(m.entries)
    BY <1>4, <2>1, <2>2 DEF s
  <2>4. QED
    BY <1>4, <1>5, <2>3 DEF Matches
<1> HIDE DEF d
<1>9. Holds(Body, m, d)
  BY <1>2, <1>4, <1>5, <1>6, <1>8, NothingIsSound, IdAssumption DEF Holds, SyncedFits
<1>10. QED
  BY <1>2, <1>4, <1>9 DEF Fine, d

\* Every session starts fit.
LEMMA InitFits ==
  ASSUME Init
  PROVE  IInv
<1>1. /\ live = [t \in Task |-> NotLive]
      /\ \E h \in Histories :
           \/ disk = FileOf(h) /\ mem = Opened(disk)
           \/ disk = NoFile(1) /\ mem = Forked(Opened(FileOf(h)))
  BY DEF Init
<1>2. Fine(mem, disk) /\ mem.open /\ RecordsEnd(mem.entries)
  <2>1. ASSUME NEW h \in Histories, disk = FileOf(h), mem = Opened(disk)
        PROVE  Fine(mem, disk) /\ mem.open /\ RecordsEnd(mem.entries)
    <3>1. disk \in DiskOf(Body) /\ disk.lines = h.lines /\ disk.header = "ok" /\ SyncedFits(disk)
      BY <2>1, FilesFit
    <3>2. Sound(disk.lines) /\ RecordsEnd(disk.lines)
      BY <3>1, HistoryAssumption
    <3>3. Fine(Closed, disk)
      BY <3>1, <3>2, ClosingIsFine, IdAssumption
    <3>4. QED
      BY <2>1, <3>1, <3>2, <3>3, OpeningIsFine
  <2>2. ASSUME NEW h \in Histories, disk = NoFile(1), mem = Forked(Opened(FileOf(h)))
        PROVE  Fine(mem, disk) /\ mem.open /\ RecordsEnd(mem.entries)
    BY <2>2, ForkingIsFine
  <2>3. QED
    BY <1>1, <2>1, <2>2
<1>3. RecordsEnd(disk.lines)
  BY <1>2, FilePrecedesMemory
<1>4. live \in [Task -> LiveTasks] /\ \A t \in Task : live[t] = NotLive
  BY <1>1, NotLiveFits
<1>5. \A t \in Task : TaskFits(t)
  BY <1>2, <1>4, NotLiveFits DEF TaskFits
<1>6. QED
  BY <1>2, <1>3, <1>4, <1>5 DEF IInv, WorkFits

\* Every step keeps the invariant, and what was forced to the disk.
LEMMA NextKeeps ==
  ASSUME IInv, [Next]_vars
  PROVE  Kept
<1>1. CASE UNCHANGED vars
  BY <1>1, SilentStep DEF vars, IInv
<1>2. CASE Prompt
  BY <1>2, SayStep DEF Prompt, Types
<1>3. CASE ToolResults
  BY <1>3, SayStep DEF ToolResults, Types
<1>4. CASE Abort
  BY <1>4, AbortStep
<1>5. CASE Retry
  BY <1>5, SayStep DEF Retry, Types
<1>6. CASE \E stop \in Stops : Reply(stop)
  BY <1>6, SayStep DEF Reply, Types
<1>7. CASE \E outcome \in {"full", "fits"} : Settles(outcome)
  <2>1. UNCHANGED <<mem, disk, live>> /\ turn.at = "settling"
    BY <1>7 DEF Settles
  <2>2. mem.open
    BY <2>1 DEF IInv, WorkFits
  <2>3. QED
    BY <2>1, <2>2, SilentStep DEF IInv
<1>8. ASSUME NEW p, Compact(p) PROVE Kept
  BY <1>8, SilentStep DEF Compact, IInv
<1>9. CASE SummaryApplies
  BY <1>9, SummaryStep
<1>10. CASE SummaryIsLost
  <2>1. UNCHANGED <<mem, disk, live>> /\ comp.on
    BY <1>10 DEF SummaryIsLost
  <2>2. mem.open
    BY <2>1 DEF IInv, WorkFits
  <2>3. QED
    BY <2>1, <2>2, SilentStep DEF IInv
<1>11. CASE \E t \in Task : Spawn(t) \/ TaskStarts(t) \/ TaskTurns(t) \/ TaskEnds(t)
                            \/ CancelTask(t)
  BY <1>11, SpawnStep, StartStep, TurnStep, EndStep, CancelStep
<1>12. CASE BashStarts
  BY <1>12, SilentStep DEF BashStarts, IInv
<1>13. CASE BashEnds
  BY <1>13, SayStep DEF BashEnds, Types
<1>14. CASE \E type \in {"settings", "plan"} : Records(type)
  BY <1>14, RecordsStep
<1>15. CASE \E id \in EntryId : Tree(id)
  BY <1>15, TreeStep
<1>16. CASE Clear
  BY <1>16, SilentStep DEF Clear, IInv
<1>17. CASE NewSession
  BY <1>17, NewSessionStep
<1>18. CASE Crash
  BY <1>18, CrashStep
<1>19. CASE Reopen
  BY <1>19, ReopenStep
<1>20. QED
  BY <1>1, <1>2, <1>3, <1>4, <1>5, <1>6, <1>7, <1>8, <1>9, <1>10, <1>11, <1>12,
     <1>13, <1>14, <1>15, <1>16, <1>17, <1>18, <1>19 DEF Next

-----------------------------------------------------------------------------
\* Whatever is said, summarised, recorded, crashed or opened again, a session,
\* its file and its tasks fit together (SessionManager, SubagentManager).
THEOREM Invariance == Spec => []IInv
<1>1. Init => IInv
  BY InitFits
<1>2. IInv /\ [Next]_vars => IInv'
  BY NextKeeps DEF Kept
<1>3. QED
  BY <1>1, <1>2, PTL DEF Spec

\* The tree of a session stays a tree in memory and in its file, the file holds
\* exactly what the manager believes saved, and the leaf is the one that opening
\* the file again would choose (_persist_buffer, _commit, set_leaf_id).
THEOREM SessionIsAlwaysSound == Spec => []SessionIsSound
<1>1. IInv => SessionIsSound
  <2>1. SUFFICES ASSUME IInv PROVE SessionIsSound
    OBVIOUS
  <2>2. PICK B : Holds(B, mem, disk)
    BY <2>1 DEF IInv, Fine
  <2>3. QED
    BY <2>2 DEF Holds, Matches, SessionIsSound, DiskHoldsTheSaved, LeafIsComputed
<1>2. QED
  BY <1>1, Invariance, PTL

\* The record that ends a task is its last one, whatever cancels it, leaves its
\* branch or fails to be written meanwhile (_drive, cancel, _task_done).
THEOREM EndedTasksAlwaysStayEnded == Spec => []EndedTasksStayEnded
<1>1. IInv => EndedTasksStayEnded
  BY DEF IInv, EndedTasksStayEnded
<1>2. QED
  BY <1>1, Invariance, PTL

\* A task that exists is on the disk, where no loss of power takes it away
\* (spawn: the record is forced before the task is started).
THEOREM LaunchedTasksAreAlwaysRecorded == Spec => []LaunchedTasksAreRecorded
<1>1. IInv => LaunchedTasksAreRecorded
  BY DEF IInv, TaskFits, Forced, LaunchedTasksAreRecorded
<1>2. QED
  BY <1>1, Invariance, PTL

\* Lines that were forced to the disk stay there, unchanged, through failed
\* writes, crashes and losses of power (append_entry_line, flush).
THEOREM ForcedLinesAlwaysStay == Spec => ForcedLinesStay
<1> DEFINE Stays == disk'.file = disk.file =>
                      \A j \in disk.synced :
                        /\ j \in disk'.synced /\ j <= Len(disk'.lines)
                        /\ SubSeq(disk'.lines, 1, j) = SubSeq(disk.lines, 1, j)
<1>1. IInv /\ [Next]_vars => [Stays]_<<mem, disk>>
  BY NextKeeps DEF Kept, Survives
<1>2. QED
  BY <1>1, Invariance, PTL DEF Spec, ForcedLinesStay

\* A set of natural numbers that is not empty has a least element.
LEMMA LeastElement ==
  ASSUME NEW T, T \subseteq Nat, T # {}
  PROVE  \E x \in T : \A y \in T : x <= y
<1>1. SUFFICES ASSUME \A x \in T : \E y \in T : y < x
               PROVE  FALSE
  OBVIOUS
<1>2. PICK n \in T : TRUE
  OBVIOUS
<1> DEFINE U == {m \in 0 .. n : \E y \in T : y <= m}
           f == [m \in U |-> m - 1]
<1>3. IsFiniteSet(U) /\ Cardinality(U) \in Nat
  <2>1. IsFiniteSet(0 .. n)
    BY <1>2, FS_Interval
  <2>2. IsFiniteSet(U)
    BY <2>1, FS_Subset
  <2>3. QED
    BY <2>2, FS_CardinalityType
<1>4. n \in U
  BY <1>2
<1>5. IsFiniteSet(U \ {n}) /\ Cardinality(U \ {n}) = Cardinality(U) - 1
  BY <1>3, <1>4, FS_RemoveElement
<1>6. \A m \in U : m - 1 \in U \ {n}
  <2>1. TAKE m \in U
  <2>2. PICK y \in T : y <= m
    OBVIOUS
  <2>3. PICK z \in T : z < y
    BY <1>1
  <2>4. QED
    BY <2>2, <2>3, <1>2
<1>7. f \in [U -> U \ {n}]
  BY <1>6
<1>8. PICK x, y \in U : x # y /\ f[x] = f[y]
  <2>1. Cardinality(U \ {n}) < Cardinality(U)
    BY <1>3, <1>5
  <2> HIDE DEF U, f
  <2>2. QED
    BY <1>3, <1>5, <1>7, <2>1, FS_PigeonHole
<1>9. QED
  BY <1>8

\* What holds of 0 and of n + 1 when it holds of n, holds of every number.
LEMMA Induction ==
  ASSUME NEW S, 0 \in S, \A n \in Nat : n \in S => n + 1 \in S
  PROVE  Nat \subseteq S
<1>1. SUFFICES ASSUME Nat \ S # {}
               PROVE  FALSE
  OBVIOUS
<1>2. PICK x \in Nat \ S : \A y \in Nat \ S : x <= y
  BY <1>1, LeastElement
<1>3. x - 1 \in Nat /\ x - 1 \in S
  BY <1>2
<1>4. QED
  BY <1>2, <1>3

\* Induction over every smaller number.
LEMMA StrongInduction ==
  ASSUME NEW S, \A n \in Nat : (\A m \in Nat : m < n => m \in S) => n \in S
  PROVE  Nat \subseteq S
<1>1. SUFFICES ASSUME Nat \ S # {}
               PROVE  FALSE
  OBVIOUS
<1>2. PICK x \in Nat \ S : \A y \in Nat \ S : x <= y
  BY <1>1, LeastElement
<1>3. \A m \in Nat : m < x => m \in S
  BY <1>2
<1>4. QED
  BY <1>2, <1>3

-----------------------------------------------------------------------------
(* Elements picked from a sequence *)

\* f is what is picked from the first i elements.
IsPicking(f, s, S, n) ==
  f = [i \in 0 .. n |->
         IF i = 0 THEN <<>>
         ELSE IF i \in S THEN Append(f[i - 1], s[i]) ELSE f[i - 1]]

\* Picking can be done, up to any place.
LEMMA PickingExists ==
  ASSUME NEW s, NEW S
  PROVE  \A n \in Nat : \E f : IsPicking(f, s, S, n)
<1> DEFINE N == {n \in Nat : \E f : IsPicking(f, s, S, n)}
<1>1. 0 \in N
  <2>1. IsPicking([i \in 0 .. 0 |-> <<>>], s, S, 0)
    BY DEF IsPicking
  <2>2. QED
    BY <2>1
<1>2. \A n \in Nat : n \in N => n + 1 \in N
  <2>1. SUFFICES ASSUME NEW n \in Nat, NEW f, IsPicking(f, s, S, n)
                 PROVE  \E h : IsPicking(h, s, S, n + 1)
    OBVIOUS
  <2> DEFINE Next_(g, i) == IF i \in S THEN Append(g, s[i]) ELSE g
             h == [i \in 0 .. n + 1 |-> IF i = n + 1 THEN Next_(f[n], i) ELSE f[i]]
  <2>2. \A i \in 0 .. n + 1 : h[i] = IF i = 0 THEN <<>> ELSE Next_(h[i - 1], i)
    <3>1. TAKE i \in 0 .. n + 1
    <3> HIDE DEF Next_
    <3>2. CASE i = n + 1
      BY <3>2
    <3>3. CASE i \in 0 .. n
      <4>1. h[i] = f[i] /\ (i # 0 => h[i - 1] = f[i - 1])
        BY <3>3
      <4>2. f[i] = IF i = 0 THEN <<>> ELSE Next_(f[i - 1], i)
        BY <2>1, <3>3 DEF IsPicking, Next_
      <4> HIDE DEF h
      <4>3. QED
        BY <4>1, <4>2
    <3>4. QED
      BY <3>2, <3>3
  <2>3. IsPicking(h, s, S, n + 1)
    BY <2>2 DEF IsPicking
  <2>4. QED
    BY <2>3
<1>3. QED
  BY <1>1, <1>2, Induction

\* One step of picking takes the element or leaves it.
LEMMA PickingSteps ==
  ASSUME NEW s, NEW S, NEW n \in Nat, NEW f, IsPicking(f, s, S, n)
  PROVE  \A i \in 1 .. n : f[i] = IF i \in S THEN Append(f[i - 1], s[i]) ELSE f[i - 1]
<1> DEFINE F(i) == IF i = 0 THEN <<>>
                   ELSE IF i \in S THEN Append(f[i - 1], s[i]) ELSE f[i - 1]
<1>1. f = [i \in 0 .. n |-> F(i)]
  BY DEF IsPicking
<1> HIDE DEF F
<1>2. \A i \in 0 .. n : f[i] = F(i)
  BY <1>1
<1>3. QED
  BY <1>2 DEF F

\* Picking starts with nothing.
LEMMA PickingBegins ==
  ASSUME NEW s, NEW S, NEW n \in Nat, NEW f, IsPicking(f, s, S, n)
  PROVE  f[0] = <<>>
<1>1. 0 \in 0 .. n
  OBVIOUS
<1>2. QED
  BY <1>1 DEF IsPicking

\* What is picked is where picking ends.
LEMMA PickedIs ==
  ASSUME NEW s, NEW S, Len(s) \in Nat
  PROVE  \E f : IsPicking(f, s, S, Len(s)) /\ Picked(s, S) = f[Len(s)]
<1>1. Picked(s, S) = (CHOOSE f : IsPicking(f, s, S, Len(s)))[Len(s)]
  BY DEF Picked, IsPicking
<1>2. QED
  BY <1>1, PickingExists

\* What is picked first depends on the first elements only.
LEMMA PickingUnique ==
  ASSUME NEW s, NEW t, NEW S, NEW T, NEW n \in Nat, NEW m \in Nat, NEW k \in Nat,
         k <= n, k <= m, NEW f, NEW g, IsPicking(f, s, S, n), IsPicking(g, t, T, m),
         \A i \in 1 .. k : (i \in S <=> i \in T) /\ (i \in S => s[i] = t[i])
  PROVE  f[k] = g[k]
<1> DEFINE N == {i \in Nat : i <= k => f[i] = g[i]}
<1>1. 0 \in N
  <2>1. f[0] = <<>> /\ g[0] = <<>>
    <3>1. f[0] = <<>>
      BY PickingBegins
    <3>2. g[0] = <<>>
      BY PickingBegins
    <3>3. QED
      BY <3>1, <3>2
  <2>2. QED
    BY <2>1
<1>2. \A i \in Nat : i \in N => i + 1 \in N
  <2>1. SUFFICES ASSUME NEW i \in Nat, f[i] = g[i], i + 1 <= k
                 PROVE  f[i + 1] = g[i + 1]
    OBVIOUS
  <2>2. i + 1 \in 1 .. n /\ i + 1 \in 1 .. m /\ i + 1 - 1 = i /\ i + 1 \in 1 .. k
    BY <2>1
  <2>3. f[i + 1] = IF i + 1 \in S THEN Append(f[i + 1 - 1], s[i + 1]) ELSE f[i + 1 - 1]
    BY <2>2, PickingSteps
  <2>4. g[i + 1] = IF i + 1 \in T THEN Append(g[i + 1 - 1], t[i + 1]) ELSE g[i + 1 - 1]
    BY <2>2, PickingSteps
  <2>5. QED
    BY <2>1, <2>2, <2>3, <2>4
<1> HIDE DEF N
<1>3. k \in N
  BY <1>1, <1>2, Induction
<1>4. QED
  BY <1>3 DEF N

\* Sequences that begin alike have the same first parts.
LEMMA SameParts ==
  ASSUME NEW X, NEW s \in Seq(X), NEW t \in Seq(X), NEW n \in Nat,
         n <= Len(s), n <= Len(t), \A k \in 1 .. n : s[k] = t[k], NEW k \in 1 .. n
  PROVE  SubSeq(s, 1, k) = SubSeq(t, 1, k)
OBVIOUS

\* The elements picked are elements of the sequence, and what precedes one of
\* them in the picked ones is what is picked up to it.
PickedFrom(p, s, S, f, n) ==
  /\ \A k \in 1 .. Len(p) :
       \E i \in 1 .. n : i \in S /\ p[k] = s[i] /\ f[i] = SubSeq(p, 1, k)
  /\ \A i \in 1 .. n : i \in S =>
       \E k \in 1 .. Len(p) : p[k] = s[i] /\ f[i] = SubSeq(p, 1, k)

\* While picking: what is picked so far is made of chosen elements, in order.
LEMMA PickingFits ==
  ASSUME NEW X, NEW s \in Seq(X), NEW S, NEW f, IsPicking(f, s, S, Len(s))
  PROVE  \A n \in 0 .. Len(s) :
           f[n] \in Seq(X) /\ Len(f[n]) <= n /\ PickedFrom(f[n], s, S, f, n)
<1> DEFINE Good(n) == f[n] \in Seq(X) /\ Len(f[n]) <= n /\ PickedFrom(f[n], s, S, f, n)
           N == {n \in Nat : n <= Len(s) => Good(n)}
<1>1. Good(0)
  <2>1. f[0] = <<>>
    <3>1. Len(s) \in Nat
      OBVIOUS
    <3>2. QED
      BY <3>1, PickingBegins
  <2>2. f[0] \in Seq(X) /\ Len(f[0]) = 0
    BY <2>1
  <2>3. 1 .. 0 = {}
    OBVIOUS
  <2>4. QED
    BY <2>2, <2>3 DEF PickedFrom
<1>2. ASSUME NEW n \in Nat, Good(n), n + 1 <= Len(s) PROVE Good(n + 1)
  <2> DEFINE m == n + 1
             p == f[n]
             q == f[m]
  <2>1. m \in 1 .. Len(s) /\ m - 1 = n /\ s[m] \in X
    BY <1>2
  <2>2. q = IF m \in S THEN Append(f[m - 1], s[m]) ELSE f[m - 1]
    BY <2>1, PickingSteps
  <2>3. /\ p \in Seq(X) /\ Len(p) <= n /\ Len(p) \in Nat
        /\ \A k \in 1 .. Len(p) :
             \E i \in 1 .. n : i \in S /\ p[k] = s[i] /\ f[i] = SubSeq(p, 1, k)
        /\ \A i \in 1 .. n : i \in S =>
             \E k \in 1 .. Len(p) : p[k] = s[i] /\ f[i] = SubSeq(p, 1, k)
    <3>1. p \in Seq(X) /\ Len(p) <= n /\ PickedFrom(p, s, S, f, n)
      BY <1>2
    <3> HIDE DEF p, q, m, Good
    <3>2. Len(p) \in Nat
      BY <3>1
    <3>3. QED
      BY ONLY <3>1, <3>2, Zenon DEF PickedFrom
  <2>4. q = IF m \in S THEN Append(p, s[m]) ELSE p
    BY <2>1, <2>2
  <2>9. \A i \in 1 .. n : i \in 1 .. m
    BY <2>1
  <2>5. CASE m \notin S
    <3>1. q = p
      BY <2>4, <2>5
    <3>2. \A i \in 1 .. m : i \in S => i \in 1 .. n
      BY <2>1, <2>5
    <3> HIDE DEF p, q, m
    <3>3. /\ q \in Seq(X) /\ Len(q) <= m
      BY <2>3, <3>1, <2>1
    <3>4. /\ \A k \in 1 .. Len(q) :
             \E i \in 1 .. m : i \in S /\ q[k] = s[i] /\ f[i] = SubSeq(q, 1, k)
          /\ \A i \in 1 .. m : i \in S =>
             \E k \in 1 .. Len(q) : q[k] = s[i] /\ f[i] = SubSeq(q, 1, k)
      BY <2>3, <2>9, <3>1, <3>2
    <3>5. QED
      BY <3>3, <3>4 DEF q, m, PickedFrom
  <2>6. CASE m \in S
    <3>1. q = Append(p, s[m])
      BY <2>4, <2>6
    <3>7. q = f[m]
      OBVIOUS
    <3> HIDE DEF p, q, m
    <3>2. /\ q \in Seq(X) /\ Len(q) = Len(p) + 1 /\ Len(q) <= m /\ Len(q) \in Nat
          /\ q[Len(p) + 1] = s[m] /\ \A k \in 1 .. Len(p) : q[k] = p[k]
      BY <2>1, <2>3, <3>1
    <3>3. SubSeq(q, 1, Len(q)) = q
      BY <3>2
    <3>4. \A k \in 1 .. Len(p) : SubSeq(q, 1, k) = SubSeq(p, 1, k)
      BY <3>2, <2>3, SameParts
    <3>8. Len(q) \in 1 .. Len(q) /\ q[Len(q)] = s[m]
      BY <3>2, <2>3
    <3>5. ASSUME NEW k \in 1 .. Len(q)
          PROVE  \E i \in 1 .. m : i \in S /\ q[k] = s[i] /\ f[i] = SubSeq(q, 1, k)
      <4>1. CASE k \in 1 .. Len(p)
        <5>1. PICK i \in 1 .. n : i \in S /\ p[k] = s[i] /\ f[i] = SubSeq(p, 1, k)
          BY <2>3, <4>1
        <5>2. i \in 1 .. m /\ q[k] = s[i] /\ f[i] = SubSeq(q, 1, k)
          BY <2>9, <5>1, <3>2, <3>4, <4>1
        <5>3. QED
          BY <5>1, <5>2
      <4>2. CASE k = Len(q)
        BY <2>1, <2>6, <3>3, <3>7, <3>8, <4>2
      <4>3. QED
        BY <3>2, <2>3, <4>1, <4>2
    <3>6. ASSUME NEW i \in 1 .. m, i \in S
          PROVE  \E k \in 1 .. Len(q) : q[k] = s[i] /\ f[i] = SubSeq(q, 1, k)
      <4>1. CASE i \in 1 .. n
        <5>1. PICK k \in 1 .. Len(p) : p[k] = s[i] /\ f[i] = SubSeq(p, 1, k)
          BY <2>3, <3>6, <4>1
        <5>2. k \in 1 .. Len(q) /\ q[k] = s[i] /\ f[i] = SubSeq(q, 1, k)
          BY <5>1, <3>2, <3>4, <2>3
        <5>3. QED
          BY <5>2
      <4>2. CASE i = m
        BY <3>3, <3>7, <3>8, <4>2
      <4>3. QED
        BY <2>1, <4>1, <4>2
    <3>9. QED
      BY <3>2, <3>5, <3>6 DEF q, m, PickedFrom
  <2>7. QED
    BY <2>5, <2>6
<1> HIDE DEF Good
<1>3. 0 \in N /\ \A n \in Nat : n \in N => n + 1 \in N
  BY <1>1, <1>2
<1>4. \A n \in Nat : n \in N
  <2> HIDE DEF N
  <2>1. QED
    BY <1>3, Induction
<1>5. \A n \in 0 .. Len(s) : Good(n)
  BY <1>4
<1>6. QED
  BY <1>5 DEF Good

\* Nothing is picked where S has no place.
LEMMA PickingStops ==
  ASSUME NEW s, NEW S, NEW n \in Nat, NEW f, IsPicking(f, s, S, n), NEW k \in 0 .. n,
         \A i \in k + 1 .. n : i \notin S
  PROVE  f[n] = f[k]
<1> DEFINE N == {d \in Nat : k + d <= n => f[k + d] = f[k]}
<1>1. 0 \in N
  OBVIOUS
<1>2. \A d \in Nat : d \in N => d + 1 \in N
  <2>1. SUFFICES ASSUME NEW d \in Nat, f[k + d] = f[k], k + (d + 1) <= n
                 PROVE  f[k + (d + 1)] = f[k]
    OBVIOUS
  <2> DEFINE i == k + (d + 1)
  <2>2. i \in 1 .. n /\ i \in k + 1 .. n /\ i - 1 = k + d
    BY <2>1
  <2>3. i \notin S
    BY <2>2
  <2> HIDE DEF i
  <2>4. f[i] = IF i \in S THEN Append(f[i - 1], s[i]) ELSE f[i - 1]
    BY <2>2, PickingSteps
  <2>5. QED
    BY <2>1, <2>2, <2>3, <2>4 DEF i
<1> HIDE DEF N
<1>3. n - k \in N
  BY <1>1, <1>2, Induction
<1>4. QED
  BY <1>3 DEF N

\* What is picked from the first elements only.
LEMMA PickedBefore ==
  ASSUME NEW s, NEW t, Len(s) \in Nat, Len(t) \in Nat, Extends(s, t), NEW S, NEW T,
         \A i \in 1 .. Len(t) : i \in T <=> i \in S /\ i <= Len(s)
  PROVE  Picked(t, T) = Picked(s, S)
<1> DEFINE k == Len(s)
           n == Len(t)
<1>1. PICK f : IsPicking(f, s, S, k) /\ Picked(s, S) = f[k]
  BY PickedIs
<1>2. PICK g : IsPicking(g, t, T, n) /\ Picked(t, T) = g[n]
  BY PickedIs
<1>3. k \in Nat /\ n \in Nat /\ k <= n /\ k \in 0 .. n
  BY DEF Extends
<1>4. \A i \in 1 .. k : (i \in S <=> i \in T) /\ (i \in S => s[i] = t[i])
  BY <1>3 DEF Extends
<1>5. \A i \in k + 1 .. n : i \notin T
  BY <1>3
<1> HIDE DEF k, n
<1>6. f[k] = g[k]
  BY <1>1, <1>2, <1>3, <1>4, PickingUnique
<1>7. g[n] = g[k]
  BY <1>2, <1>3, <1>5, PickingStops
<1>8. QED
  BY <1>1, <1>2, <1>6, <1>7

\* What is picked from one element more.
LEMMA PickedWith ==
  ASSUME NEW s, NEW t, Len(s) \in Nat, Len(t) = Len(s) + 1, Extends(s, t), NEW S, NEW T,
         \A i \in 1 .. Len(s) : i \in T <=> i \in S
  PROVE  /\ Len(t) \in T => Picked(t, T) = Append(Picked(s, S), t[Len(t)])
         /\ Len(t) \notin T => Picked(t, T) = Picked(s, S)
<1> DEFINE k == Len(s)
           n == Len(t)
<1>1. PICK f : IsPicking(f, s, S, k) /\ Picked(s, S) = f[k]
  BY PickedIs
<1>2. n \in Nat /\ k \in Nat /\ n = k + 1 /\ \A i \in 1 .. k : t[i] = s[i]
  BY DEF Extends
<1>3. PICK g : IsPicking(g, t, T, n) /\ Picked(t, T) = g[n]
  BY <1>2, PickedIs
<1>4. \A i \in 1 .. k : (i \in S <=> i \in T) /\ (i \in S => s[i] = t[i])
  BY <1>2
<1> HIDE DEF k, n
<1>5. f[k] = g[k]
  <2>1. k <= k /\ k <= n
    BY <1>2
  <2>2. QED
    BY <1>1, <1>2, <1>3, <1>4, <2>1, PickingUnique
<1>6. n \in 1 .. n /\ n - 1 = k
  BY <1>2
<1>7. g[n] = IF n \in T THEN Append(g[n - 1], t[n]) ELSE g[n - 1]
  BY ONLY <1>2, <1>3, <1>6, PickingSteps
<1>8. QED
  BY <1>1, <1>3, <1>5, <1>6, <1>7 DEF n

\* The chosen places up to one.
UpTo(S, i) == S \cap 1 .. i

\* What is picked up to a place is the first part of what is picked.
LEMMA PickedPart ==
  ASSUME NEW s, NEW S, NEW n \in Nat, n = Len(s), NEW f, IsPicking(f, s, S, n),
         NEW i \in 1 .. n
  PROVE  Picked(s, UpTo(S, i)) = f[i]
<1> DEFINE T == UpTo(S, i)
<1>0. \A j : j \in T <=> j \in S /\ j \in 1 .. i
  BY DEF UpTo
<1> HIDE DEF T
<1>1. PICK g : IsPicking(g, s, T, n) /\ Picked(s, T) = g[n]
  BY PickedIs
<1>2. \A j \in i + 1 .. n : j \notin T
  BY <1>0
<1>3. \A j \in 1 .. i : (j \in T <=> j \in S) /\ (j \in T => s[j] = s[j])
  BY <1>0
<1>4. i \in Nat /\ i <= n /\ i \in 0 .. n /\ n \in Nat
  OBVIOUS
<1>5. g[n] = g[i]
  BY ONLY <1>1, <1>2, <1>4, PickingStops
<1>6. IsPicking(f, s, S, n)
  OBVIOUS
<1>7. g[i] = f[i]
  BY ONLY <1>1, <1>3, <1>4, <1>6, PickingUnique
<1>8. QED
  BY <1>1, <1>5, <1>7 DEF T

\* The picked elements in terms of the sequence.
PickedOk(p, s, S) ==
  /\ \A k \in 1 .. Len(p) :
       \E i \in 1 .. Len(s) : i \in S /\ p[k] = s[i] /\ Picked(s, UpTo(S, i)) = SubSeq(p, 1, k)
  /\ \A i \in 1 .. Len(s) : i \in S =>
       \E k \in 1 .. Len(p) : p[k] = s[i] /\ Picked(s, UpTo(S, i)) = SubSeq(p, 1, k)

\* What is picked is the chosen elements, in order (get_branch).
LEMMA PickedFits ==
  ASSUME NEW X, NEW s \in Seq(X), NEW S, NEW p, p = Picked(s, S)
  PROVE  p \in Seq(X) /\ PickedOk(p, s, S)
<1>1. Len(s) \in Nat /\ Len(s) \in 0 .. Len(s)
  OBVIOUS
<1>2. PICK f : IsPicking(f, s, S, Len(s)) /\ p = f[Len(s)]
  BY <1>1, PickedIs
<1>3. ASSUME NEW i \in 1 .. Len(s) PROVE Picked(s, UpTo(S, i)) = f[i]
  BY <1>1, <1>2, PickedPart
<1>4. p \in Seq(X) /\ PickedFrom(p, s, S, f, Len(s))
  BY <1>1, <1>2, PickingFits
<1>5. ASSUME NEW k \in 1 .. Len(p)
      PROVE  \E i \in 1 .. Len(s) : /\ i \in S /\ p[k] = s[i]
                                    /\ Picked(s, UpTo(S, i)) = SubSeq(p, 1, k)
  <2>1. PICK i \in 1 .. Len(s) : i \in S /\ p[k] = s[i] /\ f[i] = SubSeq(p, 1, k)
    BY <1>4 DEF PickedFrom
  <2>2. Picked(s, UpTo(S, i)) = SubSeq(p, 1, k)
    BY <1>3, <2>1
  <2>3. QED
    BY <2>1, <2>2
<1>6. ASSUME NEW i \in 1 .. Len(s), i \in S
      PROVE  \E k \in 1 .. Len(p) : /\ p[k] = s[i]
                                    /\ Picked(s, UpTo(S, i)) = SubSeq(p, 1, k)
  <2>1. PICK k \in 1 .. Len(p) : p[k] = s[i] /\ f[i] = SubSeq(p, 1, k)
    BY <1>4, <1>6 DEF PickedFrom
  <2>2. Picked(s, UpTo(S, i)) = SubSeq(p, 1, k)
    BY <1>3, <2>1
  <2>3. QED
    BY <2>1, <2>2
<1>7. QED
  BY <1>4, <1>5, <1>6 DEF PickedOk

-----------------------------------------------------------------------------
(* Ancestry *)

\* The place of the entry's parent.
ParentAt(s, i) == IF s[i].parent \in Ids(s) THEN IndexOf(s, s[i].parent) ELSE 0

\* up says, for each of the first n entries, which entries it descends from.
IsClimb(up, s, n) ==
  up = [i \in 0 .. n |-> IF i = 0 THEN {} ELSE {s[i].id} \cup up[ParentAt(s, i)]]

\* An entry is where its id is.
LEMMA IndexIs ==
  ASSUME NEW X, NEW s \in Seq(X), Sound(s), NEW i \in 1 .. Len(s)
  PROVE  IndexOf(s, s[i].id) = i /\ s[i].id \in Ids(s)
<1>1. i \in DOMAIN s
  OBVIOUS
<1>2. \A j \in DOMAIN s : s[j].id = s[i].id => j = i
  BY <1>1 DEF Sound
<1>3. QED
  BY <1>1, <1>2 DEF IndexOf, Ids

\* A parent precedes its entry.
LEMMA ParentBefore ==
  ASSUME NEW B, NEW s \in Seq(EntryOf(B)), Sound(s), NEW i \in 1 .. Len(s)
  PROVE  /\ ParentAt(s, i) \in 0 .. i - 1
         /\ s[i].parent \in Ids(s) =>
              ParentAt(s, i) \in 1 .. i - 1 /\ s[ParentAt(s, i)].id = s[i].parent
         /\ s[i].parent \notin Ids(s) => s[i].parent = None /\ ParentAt(s, i) = 0
<1>1. i \in DOMAIN s /\ DOMAIN s = 1 .. Len(s)
  OBVIOUS
<1>2. s[i].parent \in {s[j].id : j \in 1 .. i - 1} \cup {None}
  BY <1>1 DEF Sound
<1>3. Ids(s) \subseteq EntryId
  BY IdsFit
<1>4. CASE s[i].parent = None
  <2>1. s[i].parent \notin Ids(s)
    BY <1>3, <1>4, IdAssumption
  <2>2. QED
    BY <1>4, <2>1 DEF ParentAt
<1>5. ASSUME NEW j \in 1 .. i - 1, s[i].parent = s[j].id
      PROVE  ParentAt(s, i) = j /\ s[i].parent \in Ids(s)
  <2>1. j \in 1 .. Len(s)
    OBVIOUS
  <2>2. IndexOf(s, s[j].id) = j /\ s[j].id \in Ids(s)
    BY <2>1, IndexIs
  <2>3. QED
    BY <1>5, <2>2 DEF ParentAt
<1>6. CASE \E j \in 1 .. i - 1 : s[i].parent = s[j].id
  BY <1>5, <1>6
<1>7. QED
  BY <1>2, <1>4, <1>6

\* There is such a function, since parents come before their children.
LEMMA ClimbExists ==
  ASSUME NEW B, NEW s \in Seq(EntryOf(B)), Sound(s)
  PROVE  \E up : IsClimb(up, s, Len(s))
<1> DEFINE N == {n \in Nat : n <= Len(s) => \E up : IsClimb(up, s, n)}
<1>1. 0 \in N
  <2>1. IsClimb([i \in 0 .. 0 |-> {}], s, 0)
    BY DEF IsClimb
  <2>2. QED
    BY <2>1
<1>2. \A n \in Nat : n \in N => n + 1 \in N
  <2>1. SUFFICES ASSUME NEW n \in Nat, n + 1 <= Len(s), NEW f, IsClimb(f, s, n)
                 PROVE  \E h : IsClimb(h, s, n + 1)
    OBVIOUS
  <2> DEFINE P(i) == ParentAt(s, i)
             h == [i \in 0 .. n + 1 |-> IF i = n + 1 THEN {s[i].id} \cup f[P(i)] ELSE f[i]]
  <2>0. \A i \in 1 .. n + 1 : P(i) \in 0 .. i - 1
    BY <2>1, ParentBefore
  <2>2. \A i \in 0 .. n + 1 : h[i] = IF i = 0 THEN {} ELSE {s[i].id} \cup h[P(i)]
    <3>1. TAKE i \in 0 .. n + 1
    <3> HIDE DEF P
    <3>2. CASE i = n + 1
      BY <2>0, <3>2
    <3>3. CASE i \in 0 .. n
      <4>1. h[i] = f[i] /\ (i # 0 => h[P(i)] = f[P(i)])
        BY <2>0, <3>3
      <4>2. f[i] = IF i = 0 THEN {} ELSE {s[i].id} \cup f[P(i)]
        BY <2>1, <3>3 DEF IsClimb, P
      <4> HIDE DEF h
      <4>3. QED
        BY <4>1, <4>2
    <3>4. QED
      BY <3>2, <3>3
  <2>3. IsClimb(h, s, n + 1)
    BY <2>2 DEF IsClimb
  <2>4. QED
    BY <2>3
<1> HIDE DEF N
<1>3. Len(s) \in N
  BY <1>1, <1>2, Induction
<1>4. QED
  BY <1>3 DEF N

\* The ancestry of an entry: itself and its parent's.
LEMMA AncestryIs ==
  ASSUME NEW B, NEW s \in Seq(EntryOf(B)), Sound(s), NEW i \in 1 .. Len(s)
  PROVE  Ancestry(s, s[i].id) =
           {s[i].id} \cup IF s[i].parent \in Ids(s) THEN Ancestry(s, s[i].parent) ELSE {}
<1> DEFINE n == Len(s)
           up == CHOOSE up : IsClimb(up, s, n)
           j == ParentAt(s, i)
<1>1. \A id : Ancestry(s, id) = up[IndexOf(s, id)]
  BY DEF Ancestry, IsClimb, ParentAt
<1>2. IsClimb(up, s, n)
  BY ClimbExists
<1>3. /\ j \in 0 .. i - 1
      /\ s[i].parent \in Ids(s) => j \in 1 .. i - 1 /\ s[j].id = s[i].parent
      /\ s[i].parent \notin Ids(s) => j = 0
  BY ParentBefore
<1> HIDE DEF up
<1>4. up[i] = {s[i].id} \cup up[j] /\ up[0] = {}
  BY <1>2 DEF IsClimb
<1>5. IndexOf(s, s[i].id) = i
  BY IndexIs
<1>6. s[i].parent \in Ids(s) => IndexOf(s, s[i].parent) = j
  BY DEF ParentAt
<1> HIDE DEF j
<1>7. QED
  BY <1>1, <1>3, <1>4, <1>5, <1>6

\* The ids of the first n entries.
IdsTo(s, n) == {s[j].id : j \in 1 .. n}

\* The ancestry of an entry is among the entries up to it; and that of one of
\* its ancestors is its own up to there.
AncestryOk(s, i) ==
  /\ Ancestry(s, s[i].id) \subseteq IdsTo(s, i) /\ s[i].id \in Ancestry(s, s[i].id)
  /\ \A j \in 1 .. i : s[j].id \in Ancestry(s, s[i].id) =>
       Ancestry(s, s[j].id) = Ancestry(s, s[i].id) \cap IdsTo(s, j)

\* The ancestry of each entry is what AncestryOk says, by induction on its place.
LEMMA AncestryFits ==
  ASSUME NEW B, NEW s \in Seq(EntryOf(B)), Sound(s)
  PROVE  \A i \in 1 .. Len(s) : AncestryOk(s, i)
<1> DEFINE N == {i \in Nat : i \in 1 .. Len(s) => AncestryOk(s, i)}
<1>1. ASSUME NEW i \in Nat, \A m \in Nat : m < i => m \in N PROVE i \in N
  <2>1. SUFFICES ASSUME i \in 1 .. Len(s) PROVE AncestryOk(s, i)
    OBVIOUS
  <2>2. Ancestry(s, s[i].id) =
          {s[i].id} \cup IF s[i].parent \in Ids(s) THEN Ancestry(s, s[i].parent) ELSE {}
    BY <2>1, AncestryIs
  <2>3. \A j, k \in 1 .. Len(s) : s[j].id = s[k].id => j = k
    BY DEF Sound
  <2>4. CASE s[i].parent \notin Ids(s)
    <3>1. Ancestry(s, s[i].id) = {s[i].id}
      BY <2>2, <2>4
    <3>2. \A j \in 1 .. i : s[j].id = s[i].id => j = i
      BY <2>1, <2>3
    <3>3. s[i].id \in IdsTo(s, i)
      BY <2>1 DEF IdsTo
    <3>4. QED
      BY <3>1, <3>2, <3>3 DEF AncestryOk
  <2>5. CASE s[i].parent \in Ids(s)
    <3> DEFINE q == ParentAt(s, i)
               A == Ancestry(s, s[i].id)
               P == Ancestry(s, s[q].id)
    <3>1. q \in 1 .. i - 1 /\ s[q].id = s[i].parent
      BY <2>1, <2>5, ParentBefore
    <3>2. A = {s[i].id} \cup P
      BY <2>2, <2>5, <3>1
    <3>3. AncestryOk(s, q)
      BY <1>1, <2>1, <3>1
    <3>4. /\ P \subseteq IdsTo(s, q)
          /\ \A j \in 1 .. q : s[j].id \in P => Ancestry(s, s[j].id) = P \cap IdsTo(s, j)
      BY <3>3 DEF AncestryOk
    <3>5. IdsTo(s, q) \subseteq IdsTo(s, i) /\ s[i].id \in IdsTo(s, i)
      BY <2>1, <3>1 DEF IdsTo
    <3>6. A \subseteq IdsTo(s, i) /\ s[i].id \in A
      BY <3>2, <3>4, <3>5
    <3>7. ASSUME NEW j \in 1 .. i, s[j].id \in A
          PROVE  Ancestry(s, s[j].id) = A \cap IdsTo(s, j)
      <4>1. CASE j = i
        BY <3>6, <4>1
      <4>2. CASE j # i
        <5>1. j \in 1 .. Len(s) /\ s[j].id # s[i].id /\ j < i
          BY <2>1, <2>3, <4>2
        <5>2. s[j].id \in P /\ s[j].id \in IdsTo(s, q)
          BY <3>2, <3>4, <3>7, <5>1
        <5>3. PICK k \in 1 .. q : s[j].id = s[k].id
          BY <5>2 DEF IdsTo
        <5>4. j = k
          BY <2>1, <2>3, <3>1, <5>1, <5>3
        <5>5. Ancestry(s, s[j].id) = P \cap IdsTo(s, j)
          BY <3>4, <5>2, <5>3, <5>4
        <5>6. s[i].id \notin IdsTo(s, j)
          BY <2>1, <2>3, <5>1 DEF IdsTo
        <5>7. QED
          BY <3>2, <5>5, <5>6
      <4>3. QED
        BY <4>1, <4>2
    <3>8. QED
      BY <3>6, <3>7 DEF AncestryOk
  <2>6. QED
    BY <2>4, <2>5
<1> HIDE DEF N
<1>2. Nat \subseteq N
  BY <1>1, StrongInduction
<1>3. QED
  BY <1>2 DEF N

\* Entries that come later do not change an ancestry.
LEMMA AncestryBefore ==
  ASSUME NEW B, NEW s \in Seq(EntryOf(B)), Sound(s),
         NEW t \in Seq(EntryOf(B)), Sound(t), Extends(s, t)
  PROVE  \A i \in 1 .. Len(s) : Ancestry(t, s[i].id) = Ancestry(s, s[i].id)
<1> DEFINE N == {i \in Nat : i \in 1 .. Len(s) => Ancestry(t, s[i].id) = Ancestry(s, s[i].id)}
<1>1. ASSUME NEW i \in Nat, \A m \in Nat : m < i => m \in N PROVE i \in N
  <2>1. SUFFICES ASSUME i \in 1 .. Len(s)
                 PROVE  Ancestry(t, s[i].id) = Ancestry(s, s[i].id)
    OBVIOUS
  <2>2. i \in 1 .. Len(t) /\ \A j \in 1 .. Len(s) : t[j] = s[j] /\ j \in 1 .. Len(t)
    BY <2>1 DEF Extends
  <2>3. Ancestry(s, s[i].id) =
          {s[i].id} \cup IF s[i].parent \in Ids(s) THEN Ancestry(s, s[i].parent) ELSE {}
    BY <2>1, AncestryIs
  <2>4. Ancestry(t, t[i].id) =
          {t[i].id} \cup IF t[i].parent \in Ids(t) THEN Ancestry(t, t[i].parent) ELSE {}
    BY <2>2, AncestryIs
  <2>5. t[i] = s[i]
    BY <2>1, <2>2
  <2>6. CASE s[i].parent \notin Ids(s)
    <3>1. s[i].parent = None
      BY <2>1, <2>6, ParentBefore
    <3>2. Ids(t) \subseteq EntryId
      BY IdsFit
    <3>3. s[i].parent \notin Ids(t)
      BY <3>1, <3>2, IdAssumption
    <3>4. QED
      BY <2>3, <2>4, <2>5, <2>6, <3>3
  <2>7. CASE s[i].parent \in Ids(s)
    <3> DEFINE q == ParentAt(s, i)
    <3>1. q \in 1 .. i - 1 /\ s[q].id = s[i].parent
      BY <2>1, <2>7, ParentBefore
    <3> HIDE DEF q
    <3>2. q \in N /\ q \in 1 .. Len(s) /\ q \in 1 .. Len(t) /\ t[q] = s[q]
      BY <1>1, <2>1, <2>2, <3>1
    <3>3. Ancestry(t, s[q].id) = Ancestry(s, s[q].id)
      BY <3>2
    <3>4. s[i].parent \in Ids(t)
      <4>1. q \in DOMAIN t
        BY <3>2
      <4>2. t[q].id \in Ids(t)
        BY <4>1 DEF Ids
      <4>3. QED
        BY <3>1, <3>2, <4>2
    <3>5. QED
      BY <2>3, <2>4, <2>5, <2>7, <3>1, <3>3, <3>4
  <2>8. QED
    BY <2>6, <2>7
<1> HIDE DEF N
<1>2. Nat \subseteq N
  BY <1>1, StrongInduction
<1>3. QED
  BY <1>2 DEF N

-----------------------------------------------------------------------------
(* Branches *)

\* The places of a branch.
On(s, id) == {i \in DOMAIN s : s[i].id \in Ancestry(s, id)}

\* A branch is what is picked at its entry's ancestors.
LEMMA BranchIs ==
  ASSUME NEW s, NEW id \in Ids(s)
  PROVE  Branch(s, id) = Picked(s, On(s, id))
BY DEF Branch, On

\* Entries that come later do not change a branch.
LEMMA BranchBefore ==
  ASSUME NEW B, NEW s \in Seq(EntryOf(B)), Sound(s),
         NEW t \in Seq(EntryOf(B)), Sound(t), Extends(s, t), NEW id \in Ids(s)
  PROVE  id \in Ids(t) /\ Branch(t, id) = Branch(s, id)
<1>1. PICK k \in 1 .. Len(s) : s[k].id = id
  BY DEF Ids
<1>2. /\ Len(s) \in Nat /\ Len(t) \in Nat /\ Len(s) <= Len(t)
      /\ \A j \in 1 .. Len(s) : t[j] = s[j] /\ j \in 1 .. Len(t)
  BY DEF Extends
<1>3. id \in Ids(t)
  BY <1>1, <1>2 DEF Ids
<1>4. Ancestry(t, id) = Ancestry(s, id)
  BY <1>1, AncestryBefore
<1>5. Ancestry(s, id) \subseteq IdsTo(s, k)
  BY <1>1, AncestryFits DEF AncestryOk
<1>6. ASSUME NEW i \in 1 .. Len(t)
      PROVE  i \in On(t, id) <=> i \in On(s, id) /\ i <= Len(s)
  <2>1. CASE i <= Len(s)
    BY <1>2, <1>4, <2>1 DEF On
  <2>2. CASE i > Len(s)
    <3>1. ASSUME t[i].id \in Ancestry(t, id) PROVE FALSE
      <4>1. PICK j \in 1 .. k : t[i].id = s[j].id
        BY <1>4, <1>5, <3>1 DEF IdsTo
      <4>2. j \in DOMAIN t /\ i \in DOMAIN t /\ t[j] = s[j] /\ j <= Len(s)
        BY <1>2, <1>1
      <4>3. i = j
        BY <4>1, <4>2 DEF Sound
      <4>4. QED
        BY <2>2, <4>2, <4>3
    <3>2. QED
      BY <2>2, <3>1 DEF On
  <2>3. QED
    BY <1>2, <2>1, <2>2
<1>7. Picked(t, On(t, id)) = Picked(s, On(s, id))
  BY <1>2, <1>6, PickedBefore
<1>8. QED
  BY <1>3, <1>7, BranchIs

\* An entry continues the branch of its parent.
LEMMA BranchWith ==
  ASSUME NEW B, NEW s \in Seq(EntryOf(B)), Sound(s), NEW x \in EntryOf(B),
         NEW t, t = Append(s, x), Sound(t), s = <<>> \/ x.parent \in Ids(s)
  PROVE  Branch(t, x.id) = Append(Branch(s, x.parent), x)
<1> DEFINE n == Len(s) + 1
<1>1. /\ t \in Seq(EntryOf(B)) /\ Len(t) = n /\ n \in Nat /\ n \in 1 .. n /\ DOMAIN t = 1 .. n
      /\ t[n] = x /\ Len(s) \in Nat /\ \A i \in 1 .. Len(s) : t[i] = s[i] /\ i \in 1 .. n
  BY Appending
<1>2. Extends(s, t)
  BY <1>1 DEF Extends
<1>3. x.id \in Ids(t)
  BY <1>1 DEF Ids
<1>4. Ancestry(t, x.id) =
        {x.id} \cup IF x.parent \in Ids(t) THEN Ancestry(t, x.parent) ELSE {}
  <2>1. n \in 1 .. Len(t)
    BY <1>1
  <2> HIDE DEF n
  <2>2. Ancestry(t, t[n].id) =
          {t[n].id} \cup IF t[n].parent \in Ids(t) THEN Ancestry(t, t[n].parent) ELSE {}
    BY <1>1, <2>1, AncestryIs
  <2>3. QED
    BY <1>1, <2>2
<1>5. \A i \in 1 .. Len(s) : s[i].id # x.id
  <2>1. TAKE i \in 1 .. Len(s)
  <2>2. i \in DOMAIN t /\ n \in DOMAIN t /\ t[i] = s[i] /\ i # n
    BY <1>1
  <2>3. QED
    BY <1>1, <2>2 DEF Sound
<1>6. n \in On(t, x.id)
  BY <1>1, <1>4 DEF On
<1>7. CASE s # <<>>
  <2>1. x.parent \in Ids(s)
    BY <1>7
  <2>2. PICK k \in 1 .. Len(s) : s[k].id = x.parent
    BY <2>1 DEF Ids
  <2>3. Ancestry(t, x.parent) = Ancestry(s, x.parent)
    BY <1>1, <1>2, <2>2, AncestryBefore
  <2>4. x.parent \in Ids(t)
    BY <1>1, <2>2 DEF Ids
  <2>5. \A i \in 1 .. Len(s) : i \in On(t, x.id) <=> i \in On(s, x.parent)
    BY <1>1, <1>4, <1>5, <2>3, <2>4 DEF On
  <2> HIDE DEF n
  <2>8. Len(t) = Len(s) + 1 /\ Len(t) \in On(t, x.id) /\ Len(s) \in Nat
    BY <1>1, <1>6 DEF n
  <2>6. Picked(t, On(t, x.id)) = Append(Picked(s, On(s, x.parent)), t[Len(t)])
    BY ONLY <1>2, <2>5, <2>8, PickedWith
  <2>7. QED
    BY <1>1, <1>3, <1>6, <2>1, <2>6, BranchIs
<1>8. CASE s = <<>>
  <2>1. Branch(s, x.parent) = <<>> /\ Len(s) = 0
    BY <1>8 DEF Branch, Ids
  <2>2. Picked(t, On(t, x.id)) = Append(Picked(s, {}), t[Len(t)])
    <3>1. \A i \in 1 .. Len(s) : i \in On(t, x.id) <=> i \in {}
      BY <2>1
    <3>3. Len(t) = Len(s) + 1 /\ Len(t) \in On(t, x.id) /\ Len(s) \in Nat
      BY <1>1, <1>6
    <3>2. QED
      BY ONLY <1>2, <3>1, <3>3, PickedWith
  <2>3. Picked(s, {}) = <<>>
    <3>1. PICK f : IsPicking(f, s, {}, 0) /\ Picked(s, {}) = f[0]
      BY <2>1, PickedIs
    <3>2. QED
      BY <3>1, PickingBegins
  <2>4. QED
    BY <1>1, <1>3, <1>6, <2>1, <2>2, <2>3, BranchIs
<1>9. QED
  BY <1>7, <1>8

\* A branch ends in its leaf, has no entry twice, and is the branch of each of
\* its entries up to there.
BranchOk(s, id, b) ==
  /\ b \in Seq({s[i] : i \in DOMAIN s}) /\ b # <<>> /\ b[Len(b)].id = id
  /\ \A k, l \in 1 .. Len(b) : b[k].id = b[l].id => k = l
  /\ \A k \in 1 .. Len(b) : b[k].id \in Ids(s) /\ Branch(s, b[k].id) = SubSeq(b, 1, k)

\* A branch ends in its entry, has no id twice, and its first parts are branches.
LEMMA BranchFits ==
  ASSUME NEW B, NEW s \in Seq(EntryOf(B)), Sound(s), NEW id \in Ids(s),
         NEW b, b = Branch(s, id)
  PROVE  BranchOk(s, id, b)
<1> DEFINE X == {s[i] : i \in DOMAIN s}
           S == On(s, id)
<1>1. s \in Seq(X) /\ Len(s) \in Nat /\ DOMAIN s = 1 .. Len(s)
  OBVIOUS
<1>2. b = Picked(s, S)
  BY BranchIs
<1>3. PICK m \in 1 .. Len(s) : s[m].id = id
  BY DEF Ids
<1>4. AncestryOk(s, m)
  BY AncestryFits
<1> HIDE DEF X, S
<1>5. b \in Seq(X) /\ PickedOk(b, s, S)
  BY <1>1, <1>2, PickedFits
<1>6. ASSUME NEW k \in 1 .. Len(b), NEW l \in 1 .. Len(b), b[k].id = b[l].id
      PROVE  k = l
  <2>1. PICK i \in 1 .. Len(s) : b[k] = s[i] /\ Picked(s, UpTo(S, i)) = SubSeq(b, 1, k)
    BY <1>5 DEF PickedOk
  <2>2. PICK j \in 1 .. Len(s) : b[l] = s[j] /\ Picked(s, UpTo(S, j)) = SubSeq(b, 1, l)
    BY <1>5 DEF PickedOk
  <2>3. i = j
    BY <1>1, <1>6, <2>1, <2>2 DEF Sound
  <2>4. SubSeq(b, 1, k) = SubSeq(b, 1, l)
    BY <2>1, <2>2, <2>3
  <2>5. Len(SubSeq(b, 1, k)) = k /\ Len(SubSeq(b, 1, l)) = l
    BY <1>5
  <2>6. QED
    BY <2>4, <2>5
<1>7. ASSUME NEW k \in 1 .. Len(b)
      PROVE  b[k].id \in Ids(s) /\ Branch(s, b[k].id) = SubSeq(b, 1, k)
  <2>1. PICK i \in 1 .. Len(s) : i \in S /\ b[k] = s[i] /\ Picked(s, UpTo(S, i)) = SubSeq(b, 1, k)
    BY <1>5 DEF PickedOk
  <2>2. s[i].id \in Ids(s)
    BY IndexIs
  <2>3. s[i].id \in Ancestry(s, id)
    BY <2>1 DEF S, On
  <2>4. i \in 1 .. m
    <3>1. PICK j \in 1 .. m : s[i].id = s[j].id
      BY <1>3, <1>4, <2>3 DEF AncestryOk, IdsTo
    <3>2. i = j
      BY <1>1, <3>1 DEF Sound
    <3>3. QED
      BY <3>2
  <2>5. Ancestry(s, s[i].id) = Ancestry(s, id) \cap IdsTo(s, i)
    BY <1>3, <1>4, <2>3, <2>4 DEF AncestryOk
  <2>6. ASSUME NEW j \in 1 .. Len(s) PROVE j \in On(s, s[i].id) <=> j \in UpTo(S, i) /\ j <= Len(s)
    <3>1. s[j].id \in IdsTo(s, i) <=> j \in 1 .. i
      <4>1. ASSUME s[j].id \in IdsTo(s, i) PROVE j \in 1 .. i
        <5>1. PICK q \in 1 .. i : s[j].id = s[q].id
          BY <4>1 DEF IdsTo
        <5>2. j = q
          BY <1>1, <5>1 DEF Sound
        <5>3. QED
          BY <5>2
      <4>2. QED
        BY <4>1 DEF IdsTo
    <3>2. QED
      BY <1>1, <2>5, <3>1 DEF On, UpTo, S
  <2>7. Extends(s, s)
    BY <1>1 DEF Extends
  <2>8. Picked(s, On(s, s[i].id)) = Picked(s, UpTo(S, i))
    BY <1>1, <2>6, <2>7, PickedBefore
  <2>9. QED
    BY <2>1, <2>2, <2>8, BranchIs
<1>8. b # <<>> /\ b[Len(b)].id = id
  <2>1. m \in S
    BY <1>1, <1>3, <1>4 DEF S, On, AncestryOk
  <2>2. PICK k \in 1 .. Len(b) : b[k] = s[m] /\ Picked(s, UpTo(S, m)) = SubSeq(b, 1, k)
    BY <1>5, <2>1 DEF PickedOk
  <2>3. Branch(s, b[k].id) = SubSeq(b, 1, k)
    BY <1>7
  <2>4. b = SubSeq(b, 1, k)
    BY <1>3, <2>2, <2>3
  <2>5. Len(b) = k
    BY <1>5, <2>4
  <2>6. QED
    BY <1>3, <1>5, <2>2, <2>5
<1>9. QED
  BY <1>5, <1>6, <1>7, <1>8 DEF BranchOk, X

-----------------------------------------------------------------------------
(* The greatest and the least of a set *)

\* The least of a set of natural numbers is one of them.
LEMMA MinIs ==
  ASSUME NEW S, S \subseteq Nat, S # {}
  PROVE  Min(S) \in S
<1>1. \E x \in S : \A y \in S : x <= y
  BY LeastElement
<1>2. QED
  BY <1>1 DEF Min

\* The greatest of a bounded set of natural numbers is one of them, and bounds it.
LEMMA MaxIs ==
  ASSUME NEW n \in Nat, NEW S, S \subseteq 0 .. n, S # {}
  PROVE  Max(S) \in S /\ \A y \in S : y <= Max(S)
<1> DEFINE T == {n - x : x \in S}
<1>1. T \subseteq Nat /\ T # {}
  <2>1. \A x \in S : n - x \in Nat
    OBVIOUS
  <2>2. PICK x \in S : TRUE
    OBVIOUS
  <2>3. n - x \in T
    BY <2>2
  <2>4. QED
    BY <2>1, <2>3
<1>2. PICK z \in T : \A y \in T : z <= y
  BY <1>1, LeastElement
<1>3. PICK x \in S : z = n - x
  BY <1>2
<1>4. \A y \in S : x >= y
  <2>1. TAKE y \in S
  <2>2. n - x <= n - y
    BY <1>2, <1>3
  <2>3. x \in Int /\ y \in Int
    OBVIOUS
  <2>4. QED
    BY <2>2, <2>3
<1>5. \E w \in S : \A y \in S : w >= y
  BY <1>4
<1>6. Max(S) \in S /\ \A y \in S : Max(S) >= y
  BY <1>5 DEF Max
<1>7. QED
  BY <1>6

-----------------------------------------------------------------------------
(* The context of a branch *)

\* No id stands twice.
Distinct(b) == \A k, l \in 1 .. Len(b) : b[k].id = b[l].id => k = l

\* The last summary of a branch has none after it, or there is none.
LEMMA LastCompactionIs ==
  ASSUME NEW X, NEW b \in Seq(X), NEW c, c = LastCompaction(b)
  PROVE  /\ c \in 0 .. Len(b) /\ (c # 0 => c \in 1 .. Len(b) /\ b[c].type = "compaction")
         /\ \A i \in 1 .. Len(b) : b[i].type = "compaction" => i <= c
<1> DEFINE S == {0} \cup {i \in DOMAIN b : b[i].type = "compaction"}
           n == Len(b)
<1>1. S \subseteq 0 .. n /\ S # {} /\ n \in Nat
  OBVIOUS
<1>2. c = Max(S)
  BY DEF LastCompaction
<1>3. \A i : i \in S <=> i = 0 \/ (i \in 1 .. n /\ b[i].type = "compaction")
  OBVIOUS
<1> HIDE DEF S
<1>4. c \in S /\ \A y \in S : y <= c
  BY <1>1, <1>2, MaxIs
<1>5. QED
  BY <1>1, <1>3, <1>4

\* An entry is found where it is.
LEMMA PositionIs ==
  ASSUME NEW X, NEW b \in Seq(X), Distinct(b), NEW id, NEW default
  PROVE  /\ \A i \in 1 .. Len(b) : b[i].id = id => PositionOf(b, id, default) = i
         /\ id \in Ids(b) => \E i \in 1 .. Len(b) : b[i].id = id
         /\ id \notin Ids(b) => PositionOf(b, id, default) = default
<1>1. DOMAIN b = 1 .. Len(b)
  OBVIOUS
<1>2. ASSUME NEW i \in 1 .. Len(b), b[i].id = id PROVE PositionOf(b, id, default) = i
  <2>1. id \in Ids(b)
    BY <1>1, <1>2 DEF Ids
  <2>2. \A j \in DOMAIN b : b[j].id = id => j = i
    BY <1>1, <1>2 DEF Distinct
  <2>3. IndexOf(b, id) = i
    BY <1>1, <1>2, <2>2 DEF IndexOf
  <2>4. QED
    BY <2>1, <2>3 DEF PositionOf
<1>3. QED
  BY <1>1, <1>2 DEF Ids, PositionOf

\* What is shown of a branch: the summary, then the messages in the context.
SummariesShown(b) == IF LastCompaction(b) = 0 THEN 0 ELSE 1

\* v shows the h summaries of branch b, then the messages p.
ContextOk(v, b, p, h) ==
  /\ h \in {0, 1} /\ Len(v) = h + Len(p) /\ DOMAIN v = 1 .. h + Len(p)
  /\ \A k \in 1 .. Len(p) : v[h + k] = Item(p[k])
  /\ h = 1 => v[1] = Item(b[LastCompaction(b)]) /\ LastCompaction(b) # 0
  /\ h = 0 => LastCompaction(b) = 0
  /\ \E Y : v \in Seq(Y)

\* A context is made of the last summary and the messages that are picked.
LEMMA ContextIs ==
  ASSUME NEW X, NEW b \in Seq(X), NEW p, p = Picked(b, InContext(b)),
         NEW h, h = SummariesShown(b), NEW v, v = BuildContext(b)
  PROVE  p \in Seq(X) /\ ContextOk(v, b, p, h)
<1> DEFINE m == [k \in DOMAIN p |-> Item(p[k])]
           c == LastCompaction(b)
           first == Item(b[c])
           Y == {Item(p[k]) : k \in DOMAIN p} \cup {first}
<1>1. p \in Seq(X)
  BY PickedFits
<1>2. v = IF c = 0 THEN m ELSE <<first>> \o m
  BY DEF BuildContext
<1>3. \A k \in DOMAIN p : Item(p[k]) \in Y
  OBVIOUS
<1>4. first \in Y
  OBVIOUS
<1>5. m = [k \in 1 .. Len(p) |-> Item(p[k])] /\ Len(p) \in Nat /\ DOMAIN p = 1 .. Len(p)
  BY <1>1
<1> HIDE DEF Y, c, first
<1>6. m \in Seq(Y) /\ Len(m) = Len(p) /\ \A k \in 1 .. Len(p) : m[k] = Item(p[k])
  BY <1>3, <1>5
<1> HIDE DEF m
<1>7. CASE c = 0
  <2>1. v = m
    BY <1>2, <1>7
  <2>2. h = 0 /\ LastCompaction(b) = 0
    BY <1>7 DEF SummariesShown, c
  <2>3. Len(v) = h + Len(p) /\ DOMAIN v = 1 .. h + Len(p)
    BY <1>5, <1>6, <2>1, <2>2
  <2>4. \A k \in 1 .. Len(p) : v[h + k] = Item(p[k])
    BY <1>5, <1>6, <2>1, <2>2
  <2>5. QED
    BY <1>1, <1>6, <2>1, <2>2, <2>3, <2>4 DEF ContextOk
<1>8. CASE c # 0
  <2> DEFINE u == <<first>>
  <2>1. u \in Seq(Y) /\ Len(u) = 1 /\ u[1] = first
    BY <1>4
  <2> HIDE DEF u
  <2>2. v = u \o m
    BY <1>2, <1>8 DEF u
  <2>3. /\ v \in Seq(Y) /\ Len(v) = 1 + Len(m) /\ v[1] = u[1]
        /\ \A j \in 1 .. Len(m) : v[1 + j] = m[j]
    <3>1. /\ u \o m \in Seq(Y) /\ Len(u \o m) = Len(u) + Len(m)
          /\ \A i \in 1 .. Len(u) : (u \o m)[i] = u[i]
          /\ \A j \in 1 .. Len(m) : (u \o m)[Len(u) + j] = m[j]
      <4>1. u \in Seq(Y) /\ m \in Seq(Y)
        BY <1>6, <2>1
      <4>2. QED
        BY ONLY <4>1, Concatenation
    <3>2. 1 \in 1 .. Len(u)
      BY <2>1
    <3>3. QED
      BY <2>1, <2>2, <3>1, <3>2
  <2>4. h = 1
    BY <1>8 DEF SummariesShown, c
  <2>5. DOMAIN v = 1 .. h + Len(p) /\ Len(v) = h + Len(p)
    BY <1>5, <1>6, <2>3, <2>4
  <2>6. QED
    BY <1>1, <1>6, <1>8, <2>1, <2>3, <2>4, <2>5 DEF c, first, ContextOk
<1>9. QED
  BY <1>7, <1>8

\* A message joins the context of a branch, another entry leaves it alone.
Grown(v, w, x) ==
  /\ Extends(v, w)
  /\ x.type \in Messages => Len(w) = Len(v) + 1 /\ w[Len(w)] = Item(x)

\* The next entry of a branch lengthens its context if it is a message.
LEMMA ContextWith ==
  ASSUME NEW X, NEW b \in Seq(X), NEW x \in X, NEW t, t = Append(b, x), Distinct(t),
         x.type # "compaction", NEW v, v = BuildContext(b), NEW w, w = BuildContext(t)
  PROVE  Grown(v, w, x)
<1> DEFINE n == Len(b) + 1
           c == LastCompaction(b)
           p == Picked(b, InContext(b))
           q == Picked(t, InContext(t))
           h == SummariesShown(b)
<1>1. /\ t \in Seq(X) /\ Len(t) = n /\ n \in Nat /\ n \in 1 .. n /\ DOMAIN t = 1 .. n
      /\ t[n] = x /\ Len(b) \in Nat /\ DOMAIN b = 1 .. Len(b)
      /\ \A i \in 1 .. Len(b) : t[i] = b[i] /\ i \in 1 .. n
  BY Appending
<1>2. Extends(b, t) /\ Len(t) = Len(b) + 1
  BY <1>1 DEF Extends
<1>20. t \in Seq(X) /\ Distinct(t)
  BY <1>1
<1>21. w = BuildContext(t) /\ q = Picked(t, InContext(t))
  OBVIOUS
<1>3. LastCompaction(t) = c
  <2>1. {i \in DOMAIN t : t[i].type = "compaction"} = {i \in DOMAIN b : b[i].type = "compaction"}
    BY <1>1
  <2>2. QED
    BY <2>1 DEF LastCompaction
<1>4. c \in 0 .. Len(b) /\ (c # 0 => c \in 1 .. Len(b) /\ b[c].type = "compaction")
  BY LastCompactionIs
<1>5. Distinct(b)
  BY <1>1 DEF Distinct
<1> DEFINE first == b[c].body.first
           j == PositionOf(b, first, c)
           k == PositionOf(t, first, c)
<1>6. j \in 0 .. Len(b) /\ (k = j \/ (j = c /\ k = n))
  <2>1. CASE first \in Ids(b)
    <3>1. PICK i \in 1 .. Len(b) : b[i].id = first
      BY <2>1, <1>1 DEF Ids
    <3>2. j = i
      BY <1>5, <3>1, PositionIs
    <3>3. i \in 1 .. Len(t) /\ t[i].id = first
      BY <1>1, <3>1
    <3> HIDE DEF first
    <3>4. PositionOf(t, first, c) = i
      BY ONLY <1>20, <3>3, PositionIs
    <3>5. QED
      BY <3>1, <3>2, <3>4
  <2>2. CASE first \notin Ids(b)
    <3> HIDE DEF first, c
    <3>1. j = c
      BY <1>5, <2>2, PositionIs
    <3>2. CASE first \notin Ids(t)
      <4>1. k = c
        BY ONLY <1>20, <3>2, PositionIs
      <4>2. QED
        BY <1>4, <3>1, <4>1
    <3>3. CASE first \in Ids(t)
      <4>1. PICK i \in 1 .. Len(t) : t[i].id = first
        BY <1>1, <3>3 DEF Ids
      <4>2. k = i
        BY ONLY <1>20, <4>1, PositionIs
      <4>3. i = n
        <5>1. ASSUME i \in 1 .. Len(b) PROVE FALSE
          BY <1>1, <2>2, <4>1, <5>1 DEF Ids
        <5>2. QED
          BY <1>1, <4>1, <5>1
      <4>4. QED
        BY <1>4, <3>1, <4>2, <4>3
    <3>4. QED
      BY <3>2, <3>3
  <2>3. QED
    BY <2>1, <2>2
<1> HIDE DEF first
<1>7. \A i \in 1 .. Len(b) : i \in InContext(b) <=>
         b[i].type \in Messages /\ (c > 0 => i > c \/ i >= j)
  BY <1>1 DEF InContext, first
<1>8. \A i \in 1 .. n : i \in InContext(t) <=>
         t[i].type \in Messages /\ (c > 0 => i > c \/ i >= k)
  <2>1. c > 0 => t[c] = b[c]
    BY <1>1, <1>4
  <2>2. c > 0 => first = t[c].body.first
    BY <2>1 DEF first
  <2> HIDE DEF c
  <2>3. QED
    BY <1>1, <1>3, <2>2 DEF InContext
<1> HIDE DEF j, k, c
<1>9. \A i \in 1 .. Len(b) : i \in InContext(t) <=> i \in InContext(b)
  <2>1. TAKE i \in 1 .. Len(b)
  <2>2. i = c => b[i].type \notin Messages
    BY <1>4 DEF Messages
  <2>3. t[i] = b[i] /\ i \in 1 .. n /\ i \in Nat
    BY <1>1
  <2>4. QED
    BY <1>1, <1>4, <1>6, <1>7, <1>8, <2>2, <2>3
<1>10. n \in InContext(t) <=> x.type \in Messages
  <2>1. n > c
    BY <1>1, <1>4
  <2>2. QED
    BY <1>1, <1>8, <2>1
<1>11. /\ n \in InContext(t) => q = Append(p, x)
       /\ n \notin InContext(t) => q = p
  <2>1. Len(t) = Len(b) + 1 /\ Len(b) \in Nat /\ t[Len(t)] = x /\ n = Len(t)
    BY <1>1
  <2>2. /\ Len(t) \in InContext(t) => q = Append(p, t[Len(t)])
        /\ Len(t) \notin InContext(t) => q = p
    BY ONLY <1>2, <1>9, <2>1, PickedWith
  <2>3. QED
    BY <2>1, <2>2
<1> HIDE DEF p, q, n
<1>12. h = SummariesShown(t) /\ (h = 1 => b[c] = t[c])
  BY <1>1, <1>3, <1>4 DEF SummariesShown, c
<1>13. /\ p \in Seq(X) /\ h \in {0, 1} /\ Len(v) = h + Len(p)
       /\ \A i \in 1 .. Len(p) : v[h + i] = Item(p[i])
       /\ h = 1 => v[1] = Item(b[c])
  BY ContextIs DEF p, c, ContextOk
<1> HIDE DEF h
<1>14. /\ q \in Seq(X) /\ Len(w) = h + Len(q)
       /\ \A i \in 1 .. Len(q) : w[h + i] = Item(q[i])
       /\ h = 1 => w[1] = Item(t[c])
  <2>1. c = LastCompaction(t)
    BY <1>3
  <2>2. QED
    BY ONLY <1>12, <1>20, <1>21, <2>1, ContextIs DEF ContextOk
<1>15. /\ Len(p) \in Nat /\ Len(q) \in Nat /\ Len(p) <= Len(q)
       /\ \A i \in 1 .. Len(p) : q[i] = p[i] /\ i \in 1 .. Len(q)
       /\ x.type \in Messages => Len(q) = Len(p) + 1 /\ q[Len(q)] = x /\ Len(q) \in 1 .. Len(q)
  <2>1. CASE n \in InContext(t)
    <3>1. q = Append(p, x) /\ p \in Seq(X)
      BY <1>11, <1>13, <2>1
    <3>2. QED
      BY <3>1, Appending
  <2>2. CASE n \notin InContext(t)
    <3>1. q = p
      BY <1>11, <2>2
    <3>2. QED
      BY <1>10, <1>13, <2>2, <3>1
  <2>3. QED
    BY <2>1, <2>2
<1>16. ASSUME NEW i \in 1 .. Len(v) PROVE w[i] = v[i]
  <2>1. CASE h = 1 /\ i = 1
    BY <1>12, <1>13, <1>14, <2>1
  <2>2. CASE ~(h = 1 /\ i = 1)
    <3>1. i - h \in 1 .. Len(p) /\ h + (i - h) = i
      BY <1>13, <1>15, <2>2
    <3>2. v[h + (i - h)] = Item(p[i - h]) /\ w[h + (i - h)] = Item(q[i - h])
      BY <1>13, <1>14, <1>15, <3>1
    <3>3. QED
      BY <1>15, <3>1, <3>2
  <2>3. QED
    BY <2>1, <2>2
<1>17. Extends(v, w)
  BY <1>13, <1>14, <1>15, <1>16 DEF Extends
<1>18. ASSUME x.type \in Messages PROVE Len(w) = Len(v) + 1 /\ w[Len(w)] = Item(x)
  BY <1>13, <1>14, <1>15, <1>18
<1>19. QED
  BY <1>17, <1>18 DEF Grown

\* What is shown of a branch is shown once, and has an id.
LEMMA ContextDistinct ==
  ASSUME NEW B, NEW b \in Seq(EntryOf(B)), Distinct(b), NEW v, v = BuildContext(b)
  PROVE  Distinct(v) /\ \A k \in 1 .. Len(v) : v[k].id \in EntryId
<1> DEFINE S == InContext(b)
           p == Picked(b, S)
           h == SummariesShown(b)
           c == LastCompaction(b)
           X == EntryOf(B)
<1>1. p \in Seq(X) /\ PickedOk(p, b, S)
  BY PickedFits
<1>2. c \in 0 .. Len(b) /\ (c # 0 => c \in 1 .. Len(b) /\ b[c].type = "compaction")
  BY LastCompactionIs
<1>3. \A i : i \in S => i \in DOMAIN b /\ b[i].type \in Messages
  BY DEF InContext
<1>14. /\ b \in Seq(X) /\ v = BuildContext(b) /\ h = SummariesShown(b)
       /\ p = Picked(b, InContext(b)) /\ c = LastCompaction(b)
  OBVIOUS
<1> HIDE DEF S, p, h, c, X
<1>15. ContextOk(v, b, p, h)
  BY ONLY <1>14, ContextIs
<1>4. /\ h \in {0, 1} /\ Len(v) = h + Len(p)
      /\ \A i \in 1 .. Len(p) : v[h + i] = Item(p[i])
      /\ h = 1 => v[1] = Item(b[LastCompaction(b)]) /\ LastCompaction(b) # 0
  BY ONLY <1>15 DEF ContextOk
<1>5. \A e : Item(e).id = e.id
  BY DEF Item
<1>6. ASSUME NEW k \in 1 .. Len(p)
      PROVE  p[k].id \in EntryId /\ (c # 0 => p[k].id # b[c].id)
  <2>1. PICK i \in 1 .. Len(b) : i \in S /\ p[k] = b[i]
    BY <1>1 DEF PickedOk
  <2>2. b[i] \in EntryOf(B)
    BY <1>14 DEF X
  <2>3. c # 0 => i # c
    BY <1>2, <1>3, <2>1 DEF Messages
  <2>4. QED
    BY <1>2, <2>1, <2>2, <2>3 DEF EntryOf, Distinct
<1>7. ASSUME NEW k \in 1 .. Len(p), NEW l \in 1 .. Len(p), p[k].id = p[l].id
      PROVE  k = l
  <2>1. PICK i \in 1 .. Len(b) : p[k] = b[i] /\ Picked(b, UpTo(S, i)) = SubSeq(p, 1, k)
    BY <1>1 DEF PickedOk
  <2>2. PICK j \in 1 .. Len(b) : p[l] = b[j] /\ Picked(b, UpTo(S, j)) = SubSeq(p, 1, l)
    BY <1>1 DEF PickedOk
  <2>3. i = j
    BY <1>7, <2>1, <2>2 DEF Distinct
  <2>4. SubSeq(p, 1, k) = SubSeq(p, 1, l)
    BY <2>1, <2>2, <2>3
  <2>5. Len(SubSeq(p, 1, k)) = k /\ Len(SubSeq(p, 1, l)) = l
    BY <1>1
  <2>6. QED
    BY <2>4, <2>5
<1>8. c # 0 => b[c].id \in EntryId
  <2>1. c # 0 => b[c] \in EntryOf(B)
    BY <1>2
  <2>2. QED
    BY <2>1 DEF EntryOf
<1>9. Len(p) \in Nat
  BY <1>1
<1>10. ASSUME NEW k \in 1 .. Len(v)
       PROVE  \/ h = 1 /\ k = 1 /\ c # 0 /\ v[k].id = b[c].id
              \/ k - h \in 1 .. Len(p) /\ v[k].id = p[k - h].id
  <2>1. CASE h = 1 /\ k = 1
    BY <1>4, <1>5, <1>14, <2>1
  <2>2. CASE ~(h = 1 /\ k = 1)
    <3>1. k - h \in 1 .. Len(p) /\ h + (k - h) = k
      BY <1>4, <1>9, <2>2
    <3>2. v[h + (k - h)] = Item(p[k - h])
      BY <1>4, <3>1
    <3>3. QED
      BY <1>5, <3>1, <3>2
  <2>3. QED
    BY <2>1, <2>2
<1>11. ASSUME NEW k \in 1 .. Len(v) PROVE v[k].id \in EntryId
  BY <1>6, <1>8, <1>10
<1>12. ASSUME NEW k \in 1 .. Len(v), NEW l \in 1 .. Len(v), v[k].id = v[l].id
       PROVE  k = l
  <2>1. CASE k - h \in 1 .. Len(p) /\ v[k].id = p[k - h].id
             /\ l - h \in 1 .. Len(p) /\ v[l].id = p[l - h].id
    <3>1. k - h = l - h
      BY <1>7, <1>12, <2>1
    <3>2. QED
      BY <1>4, <1>9, <3>1
  <2>2. QED
    BY <1>6, <1>10, <1>12, <2>1
<1>13. QED
  BY <1>11, <1>12 DEF Distinct

-----------------------------------------------------------------------------
(* What a compaction summarises                                            *)

\* The summary that a branch has, if any, fits what precedes it.
LastFits(b) ==
  LET c == LastCompaction(b) IN c # 0 => SummaryFits(b[c].body, SubSeq(b, 1, c - 1))

\* The ids of the messages among some places.
LEMMA MessageIdsAre ==
  ASSUME NEW b, NEW S, NEW id
  PROVE  id \in MessageIds(b, S) <=> \E i \in S : b[i].type \in Messages /\ b[i].id = id
BY DEF MessageIds

\* Where a compaction starts from: every message before is covered.
StartOf(b) ==
  LET c == LastCompaction(b) IN
  IF c = 0 THEN 1 ELSE PositionOf(b, b[c].body.first, c + 1)

\* What the last summary covers, and where the next compaction starts, fit.
PreviousOk(b) ==
  /\ CoveredBefore(b) \subseteq Ids(b)
  /\ StartOf(b) \in 1 .. Len(b) + 1
  /\ \A i \in 1 .. Len(b) :
       i < StartOf(b) /\ b[i].type \in Messages => b[i].id \in CoveredBefore(b)
  /\ LastCompaction(b) # 0 =>
       \/ StartOf(b) = LastCompaction(b) + 1
       \/ StartOf(b) = PositionOf(b, b[LastCompaction(b)].body.first, LastCompaction(b))

\* They do if the last summary fits its branch.
LEMMA PreviousFits ==
  ASSUME NEW B, NEW b \in Seq(EntryOf(B)), Distinct(b), LastFits(b)
  PROVE  PreviousOk(b)
<1> DEFINE c == LastCompaction(b)
           X == EntryOf(B)
           u == SubSeq(b, 1, c - 1)
           body == b[c].body
           first == body.first
           n == Len(b)
<1>1. c \in 0 .. n /\ (c # 0 => c \in 1 .. n /\ b[c].type = "compaction") /\ n \in Nat
  BY LastCompactionIs
<1>2. CASE c = 0
  <2>1. CoveredBefore(b) = {} /\ StartOf(b) = 1
    BY <1>2 DEF CoveredBefore, StartOf
  <2>2. QED
    BY <1>1, <1>2, <2>1 DEF PreviousOk
<1>3. CASE c # 0
  <2>1. SummaryFits(body, u)
    BY <1>3 DEF LastFits
  <2>2. CoveredBefore(b) = body.covers /\ StartOf(b) = PositionOf(b, first, c + 1)
    BY <1>3 DEF CoveredBefore, StartOf
  <2>3. /\ u \in Seq(X) /\ Len(u) = c - 1 /\ \A i \in 1 .. c - 1 : u[i] = b[i] /\ i \in 1 .. n
        /\ DOMAIN u = 1 .. c - 1 /\ DOMAIN b = 1 .. n
    <3>1. b \in Seq(X) /\ c - 1 \in Nat /\ c - 1 <= Len(b)
      BY <1>1, <1>3
    <3>2. QED
      BY <1>1, <3>1, Parts
  <2> HIDE DEF u, body
  <2>4. Distinct(u)
    BY <2>3 DEF Distinct
  <2>5. Ids(u) \subseteq Ids(b)
    BY <2>3 DEF Ids
  <2>6. /\ body.covers \subseteq Ids(u) /\ first \in Ids(u) \cup {None}
        /\ MessageIds(u, 1 .. PositionOf(u, first, Len(u) + 1) - 1) \subseteq body.covers
    BY <2>1 DEF SummaryFits
  <2> HIDE DEF first
  <2>7. b \in Seq(X) /\ Distinct(b)
    OBVIOUS
  <2> HIDE DEF X, n, c
  <2>8. CASE first \in Ids(u)
    <3>1. PICK k \in 1 .. c - 1 : u[k].id = first
      BY <2>3, <2>8 DEF Ids
    <3>2. k \in 1 .. Len(b) /\ b[k].id = first /\ k \in 1 .. Len(u)
      BY <2>3, <3>1 DEF n
    <3>3. PositionOf(b, first, c + 1) = k /\ PositionOf(b, first, c) = k
      BY ONLY <2>7, <3>2, PositionIs
    <3>4. PositionOf(u, first, Len(u) + 1) = k
      BY ONLY <2>3, <2>4, <3>1, <3>2, PositionIs
    <3>5. ASSUME NEW i \in 1 .. n, i < k, b[i].type \in Messages
          PROVE  b[i].id \in body.covers
      <4>1. i \in 1 .. k - 1 /\ u[i] = b[i]
        BY <1>1, <2>3, <3>1, <3>5
      <4>2. u[i].id \in MessageIds(u, 1 .. k - 1)
        BY <3>5, <4>1, MessageIdsAre
      <4>3. QED
        BY <2>6, <3>4, <4>1, <4>2
    <3>6. k \in 1 .. n + 1
      BY <1>1, <3>2 DEF n
    <3>7. QED
      BY <2>2, <2>5, <2>6, <3>3, <3>5, <3>6 DEF PreviousOk, n, first, body, c
  <2>9. CASE first \notin Ids(u)
    <3>1. first = None
      BY <2>6, <2>9
    <3>2. first \notin Ids(b)
      BY <2>7, <3>1, IdsFit, IdAssumption DEF X
    <3>3. PositionOf(b, first, c + 1) = c + 1
      BY ONLY <2>7, <3>2, PositionIs
    <3>4. PositionOf(u, first, Len(u) + 1) = c
      <4>1. PositionOf(u, first, Len(u) + 1) = Len(u) + 1
        BY ONLY <2>3, <2>4, <2>9, PositionIs
      <4>2. QED
        BY <1>1, <2>3, <4>1
    <3>5. ASSUME NEW i \in 1 .. n, i < c + 1, b[i].type \in Messages
          PROVE  b[i].id \in body.covers
      <4>1. i # c
        BY <1>1, <1>3, <3>5 DEF Messages
      <4>2. i \in 1 .. c - 1 /\ u[i] = b[i]
        BY <1>1, <2>3, <3>5, <4>1
      <4>3. u[i].id \in MessageIds(u, 1 .. c - 1)
        BY <3>5, <4>2, MessageIdsAre
      <4>4. QED
        BY <2>6, <3>4, <4>2, <4>3
    <3>6. c + 1 \in 1 .. n + 1
      BY <1>1
    <3>7. QED
      BY <2>2, <2>5, <2>6, <3>3, <3>5, <3>6 DEF PreviousOk, n, c
  <2>10. QED
    BY <2>8, <2>9
<1>4. QED
  BY <1>2, <1>3

\* The cut is one of the cuts.
LEMMA CutIs ==
  ASSUME NEW X, NEW b \in Seq(X), NEW start \in 1 .. Len(b) + 1, Cuts(b, start) # {},
         NEW cut, cut = CutPoint(b, start)
  PROVE  /\ cut \in start .. Len(b) /\ cut \in 1 .. Len(b)
         /\ b[cut].type \in {"user", "assistant"}
<1> DEFINE cuts == Cuts(b, start)
<1>1. PICK full : cut = IF full = {} THEN Min(cuts)
                        ELSE IF {i \in cuts : i >= Max(full)} = {} THEN Max(cuts)
                        ELSE Min({i \in cuts : i >= Max(full)})
  BY DEF CutPoint
<1> DEFINE after == {i \in cuts : i >= Max(full)}
<1>2. \A i : i \in cuts => i \in start .. Len(b) /\ b[i].type \in {"user", "assistant"}
  BY DEF Cuts
<1>3. Len(b) \in Nat /\ start \in Nat
  OBVIOUS
<1>4. cuts \subseteq 0 .. Len(b) /\ cuts \subseteq Nat /\ after \subseteq cuts /\ cuts # {}
  BY <1>2, <1>3
<1> HIDE DEF cuts, after
<1>5. Min(cuts) \in cuts
  BY <1>4, MinIs
<1>6. Max(cuts) \in cuts
  BY <1>3, <1>4, MaxIs
<1>7. after # {} => Min(after) \in cuts
  <2>1. SUFFICES ASSUME after # {} PROVE Min(after) \in cuts
    OBVIOUS
  <2>2. after \subseteq Nat
    BY <1>4
  <2>3. Min(after) \in after
    BY <2>1, <2>2, MinIs
  <2>4. QED
    BY <1>4, <2>3
<1>8. cut \in cuts
  BY <1>1, <1>5, <1>6, <1>7 DEF after
<1>9. QED
  BY <1>2, <1>3, <1>8

\* A summary that is asked for fits the branch.
LEMMA PrepareFits ==
  ASSUME NEW B, NEW b \in Seq(EntryOf(B)), Distinct(b), LastFits(b),
         NEW p, p = Prepare(b), p.some
  PROVE  SummaryFits(p, b) /\ b # <<>>
<1> DEFINE c == LastCompaction(b)
           n == Len(b)
           start == StartOf(b)
           cut == CutPoint(b, start)
           split == b[cut].type # "user"
           users == {i \in 1 .. cut : b[i].type = "user"}
           turnStart == Max({1} \cup users)
           history == start .. (IF split THEN turnStart ELSE cut) - 1
           prefix == IF split THEN turnStart .. cut - 1 ELSE {}
           said == history \cup prefix
           covers == CoveredBefore(b) \cup MessageIds(b, said)
<1>1. start = IF c = 0 THEN 1 ELSE PositionOf(b, b[c].body.first, c + 1)
  BY DEF StartOf
<1>2. p = IF b = <<>> \/ c = Len(b) \/ Cuts(b, start) = {} THEN Nothing
          ELSE IF MessageIds(b, said) = {} THEN Nothing
          ELSE Covering(covers, b[cut].id)
  BY <1>1 DEF Prepare
<1> HIDE DEF covers, said, start, c
<1>3. b # <<>> /\ Cuts(b, start) # {} /\ p = Covering(covers, b[cut].id)
  BY <1>2 DEF Nothing
<1>4. PreviousOk(b)
  BY PreviousFits
<1>5. start \in 1 .. n + 1
  BY <1>4 DEF PreviousOk, start
<1>6. cut \in start .. n /\ cut \in 1 .. n /\ b[cut].type \in {"user", "assistant"}
  BY <1>3, <1>5, CutIs
<1>7. n \in Nat /\ start \in Nat /\ DOMAIN b = 1 .. n
  BY <1>5
<1> HIDE DEF n, cut
<1>8. turnStart \in 1 .. cut
  <2>1. {1} \cup users \subseteq 0 .. cut /\ {1} \cup users # {} /\ cut \in Nat
    BY <1>6, <1>7
  <2>2. \A i \in {1} \cup users : i \in 1 .. cut
    BY <1>6, <1>7
  <2>3. turnStart \in {1} \cup users
    BY <2>1, MaxIs
  <2> HIDE DEF turnStart, users
  <2>4. QED
    BY <2>2, <2>3
<1> HIDE DEF turnStart, split
<1>9. \A i \in start .. cut - 1 : i \in said
  BY <1>6, <1>7, <1>8 DEF said
<1>10. \A i \in said : i \in 1 .. n
  BY <1>5, <1>6, <1>7, <1>8 DEF said
<1> HIDE DEF history, prefix
<1>11. p.covers = covers /\ p.first = b[cut].id
  BY <1>3 DEF Covering
<1>12. covers \subseteq Ids(b) /\ b[cut].id \in Ids(b)
  <2>1. MessageIds(b, said) \subseteq Ids(b)
    BY <1>7, <1>10 DEF MessageIds, Ids
  <2>2. QED
    BY <1>4, <1>6, <1>7, <2>1 DEF covers, PreviousOk, Ids
<1>13. PositionOf(b, b[cut].id, n + 1) = cut
  <2>1. b \in Seq(EntryOf(B)) /\ Distinct(b) /\ cut \in 1 .. Len(b)
    BY <1>6 DEF n
  <2>2. QED
    BY ONLY <2>1, PositionIs
<1>14. MessageIds(b, 1 .. cut - 1) \subseteq covers
  <2>1. SUFFICES ASSUME NEW id \in MessageIds(b, 1 .. cut - 1) PROVE id \in covers
    OBVIOUS
  <2>2. PICK i \in 1 .. cut - 1 : b[i].type \in Messages /\ b[i].id = id
    BY DEF MessageIds
  <2>3. i \in 1 .. n
    BY <1>6, <1>7
  <2>4. CASE i < start
    BY <1>4, <2>2, <2>3, <2>4 DEF PreviousOk, covers, start, n
  <2>5. CASE i >= start
    <3>1. i \in said
      BY <1>6, <1>7, <1>9, <2>5
    <3>2. id \in MessageIds(b, said)
      BY <2>2, <3>1, MessageIdsAre
    <3>3. QED
      BY <3>2 DEF covers
  <2>6. QED
    BY <1>7, <2>3, <2>4, <2>5
<1>15. QED
  BY <1>3, <1>6, <1>11, <1>12, <1>13, <1>14 DEF SummaryFits, n

\* So does the summary of everything that is shown.
LEMMA PivotFits ==
  ASSUME NEW B, NEW b \in Seq(EntryOf(B)), Distinct(b), LastFits(b),
         NEW p, p = PreparePivot(b), p.some
  PROVE  SummaryFits(p, b) /\ b # <<>>
<1> DEFINE c == LastCompaction(b)
           n == Len(b)
           covers == CoveredBefore(b) \cup MessageIds(b, InContext(b))
<1>1. p = IF InContext(b) = {} /\ c = 0 THEN Nothing ELSE Covering(covers, None)
  BY DEF PreparePivot
<1>2. c \in 0 .. n /\ (c # 0 => c \in 1 .. n /\ b[c].type = "compaction") /\ n \in Nat
  BY LastCompactionIs
<1>3. \A i \in 1 .. n : i \in InContext(b) <=>
        b[i].type \in Messages /\ (c > 0 => i > c \/ i >= PositionOf(b, b[c].body.first, c))
  BY DEF InContext
<1>4. PreviousOk(b) /\ DOMAIN b = 1 .. n
  BY PreviousFits
<1>5. \A i \in InContext(b) : i \in 1 .. n
  BY DEF InContext
<1>13. b # <<>>
  <2>1. b = <<>> => c = 0 /\ InContext(b) = {}
    BY <1>2, <1>5
  <2>2. QED
    BY <1>1, <2>1 DEF Nothing
<1> HIDE DEF c, n, covers
<1>6. p.covers = covers /\ p.first = None
  BY <1>1 DEF Nothing, Covering
<1>7. covers \subseteq Ids(b)
  <2>1. MessageIds(b, InContext(b)) \subseteq Ids(b)
    BY <1>4, <1>5 DEF MessageIds, Ids
  <2>2. QED
    BY <1>4, <2>1 DEF covers, PreviousOk
<1>8. None \notin Ids(b)
  BY IdsFit, IdAssumption
<1>9. PositionOf(b, None, n + 1) = n + 1
  BY ONLY <1>8 DEF PositionOf
<1>10. MessageIds(b, 1 .. n) \subseteq covers
  <2>1. SUFFICES ASSUME NEW id \in MessageIds(b, 1 .. n) PROVE id \in covers
    OBVIOUS
  <2>2. PICK i \in 1 .. n : b[i].type \in Messages /\ b[i].id = id
    BY DEF MessageIds
  <2>3. CASE i \in InContext(b)
    <3>1. id \in MessageIds(b, InContext(b))
      BY <2>2, <2>3, MessageIdsAre
    <3>2. QED
      BY <3>1 DEF covers
  <2>4. CASE i \notin InContext(b)
    <3>1. c > 0 /\ ~(i > c) /\ ~(i >= PositionOf(b, b[c].body.first, c))
      BY <1>3, <2>2, <2>4
    <3>2. c # 0 /\ c \in Nat /\ i \in Nat
      BY <1>2, <3>1
    <3>3. \/ StartOf(b) = c + 1
          \/ StartOf(b) = PositionOf(b, b[c].body.first, c)
      BY <1>4, <3>2 DEF PreviousOk, c
    <3>4. StartOf(b) \in 1 .. n + 1
      BY <1>4 DEF PreviousOk, n
    <3>5. i < StartOf(b)
      BY <1>2, <3>1, <3>2, <3>3, <3>4
    <3>6. QED
      BY <1>4, <2>2, <3>5 DEF PreviousOk, covers, n
  <2>5. QED
    BY <2>3, <2>4
<1>11. n + 1 - 1 = n /\ ~(n + 1 <= n)
  BY <1>2
<1>12. QED
  BY <1>6, <1>7, <1>9, <1>10, <1>11, <1>13 DEF SummaryFits, n

-----------------------------------------------------------------------------
(* Entries whose summaries and leaves fit                                  *)

\* Every summary speaks for what precedes it, every leaf entry names an entry.
Fitting(s) == SummariesFit(s) /\ LeavesFit(s)

\* Without the last element.
LEMMA FrontIs ==
  ASSUME NEW X, NEW s \in Seq(X), NEW x
  PROVE  Front(Append(s, x)) = s
<1> DEFINE Y == X \cup {x}
<1>1. s \in Seq(Y) /\ x \in Y
  BY Widens
<1> HIDE DEF Y
<1> DEFINE t == Append(s, x)
<1>2. t \in Seq(Y) /\ Len(t) = Len(s) + 1 /\ Len(s) \in Nat /\ \A i \in 1 .. Len(s) : t[i] = s[i]
  BY <1>1, Appending
<1> HIDE DEF t
<1>3. SubSeq(t, 1, Len(t) - 1) = SubSeq(s, 1, Len(s))
  BY <1>1, <1>2
<1>4. SubSeq(s, 1, Len(s)) = s
  OBVIOUS
<1>5. QED
  BY <1>3, <1>4 DEF Front, t

\* A first part without its last element.
LEMMA FrontOfPart ==
  ASSUME NEW X, NEW b \in Seq(X), NEW c \in 1 .. Len(b)
  PROVE  Front(SubSeq(b, 1, c)) = SubSeq(b, 1, c - 1)
<1> DEFINE u == SubSeq(b, 1, c)
<1>1. u \in Seq(X) /\ Len(u) = c /\ \A i \in 1 .. c : u[i] = b[i]
  OBVIOUS
<1> HIDE DEF u
<1>2. SubSeq(u, 1, c - 1) = SubSeq(b, 1, c - 1)
  BY <1>1
<1>3. QED
  BY <1>1, <1>2 DEF Front, u

\* The last summary of a branch fits what precedes it there.
LEMMA BranchLastFits ==
  ASSUME NEW B, NEW s \in Seq(EntryOf(B)), Sound(s), SummariesFit(s), NEW id \in Ids(s),
         NEW b, b = Branch(s, id)
  PROVE  b \in Seq(EntryOf(B)) /\ Distinct(b) /\ LastFits(b) /\ Ids(b) \subseteq Ids(s)
<1> DEFINE Y == {s[i] : i \in DOMAIN s}
           c == LastCompaction(b)
<1>1. BranchOk(s, id, b)
  BY BranchFits
<1>2. /\ b \in Seq(Y) /\ Distinct(b)
      /\ \A k \in 1 .. Len(b) : b[k].id \in Ids(s) /\ Branch(s, b[k].id) = SubSeq(b, 1, k)
  BY <1>1 DEF BranchOk, Distinct
<1>3. Y \subseteq EntryOf(B)
  OBVIOUS
<1>4. \A y \in Y : \E i \in DOMAIN s : y = s[i]
  OBVIOUS
<1> HIDE DEF Y
<1>5. b \in Seq(EntryOf(B))
  BY <1>2, <1>3, Widens
<1>6. c \in 0 .. Len(b) /\ (c # 0 => c \in 1 .. Len(b) /\ b[c].type = "compaction")
  BY <1>5, LastCompactionIs
<1> HIDE DEF c
<1>7. ASSUME c # 0 PROVE SummaryFits(b[c].body, SubSeq(b, 1, c - 1))
  <2>1. c \in 1 .. Len(b) /\ b[c].type = "compaction"
    BY <1>6, <1>7
  <2>2. b[c] \in Y
    BY <1>2, <2>1
  <2>3. PICK i \in DOMAIN s : b[c] = s[i]
    BY <1>4, <2>2
  <2>4. SummaryFits(s[i].body, Front(Branch(s, s[i].id)))
    BY <2>1, <2>3 DEF SummariesFit
  <2>5. Branch(s, b[c].id) = SubSeq(b, 1, c)
    BY <1>2, <2>1
  <2>6. Front(SubSeq(b, 1, c)) = SubSeq(b, 1, c - 1)
    BY <1>5, <2>1, FrontOfPart
  <2>7. QED
    BY <2>3, <2>4, <2>5, <2>6
<1>8. QED
  BY <1>2, <1>5, <1>7 DEF LastFits, c, Ids

\* What is appended must fit.
LEMMA FittingWith ==
  ASSUME NEW B, NEW s \in Seq(EntryOf(B)), Sound(s), Fitting(s), NEW x \in EntryOf(B),
         NEW t, t = Append(s, x), Sound(t), s = <<>> \/ x.parent \in Ids(s),
         x.type = "leaf" => x.target # None,
         x.type = "compaction" => SummaryFits(x.body, Branch(s, x.parent))
  PROVE  Fitting(t)
<1> DEFINE n == Len(s) + 1
           X == EntryOf(B)
<1>1. /\ t \in Seq(X) /\ Len(t) = n /\ DOMAIN t = 1 .. n /\ n \in Nat
      /\ t[n] = x /\ Len(s) \in Nat /\ DOMAIN s = 1 .. Len(s)
      /\ \A i \in 1 .. Len(s) : t[i] = s[i]
      /\ \A i \in 1 .. n : i \in 1 .. Len(s) \/ i = n
  BY Appending
<1>2. Branch(t, x.id) = Append(Branch(s, x.parent), x)
  BY BranchWith
<1>3. \E Y : Branch(s, x.parent) \in Seq(Y)
  <2>1. CASE x.parent \in Ids(s)
    <3>1. s \in Seq(EntryOf(B)) /\ Sound(s)
      OBVIOUS
    <3>2. BranchOk(s, x.parent, Branch(s, x.parent))
      BY ONLY <2>1, <3>1, BranchFits
    <3>3. QED
      BY <3>2 DEF BranchOk
  <2>2. CASE x.parent \notin Ids(s)
    BY <2>2 DEF Branch
  <2>3. QED
    BY <2>1, <2>2
<1>4. Front(Branch(t, x.id)) = Branch(s, x.parent)
  BY <1>2, <1>3, FrontIs
<1>5. Extends(s, t)
  BY <1>1 DEF Extends
<1>6. ASSUME NEW i \in 1 .. Len(s) PROVE Branch(t, t[i].id) = Branch(s, s[i].id)
  <2>1. s[i].id \in Ids(s)
    BY <1>1 DEF Ids
  <2>2. /\ s \in Seq(EntryOf(B)) /\ Sound(s)
        /\ t \in Seq(EntryOf(B)) /\ Sound(t)
    BY <1>1
  <2>3. Branch(t, s[i].id) = Branch(s, s[i].id)
    BY ONLY <1>5, <2>1, <2>2, BranchBefore
  <2>4. QED
    BY <1>1, <2>3
<1> HIDE DEF X, n
<1>7. SummariesFit(t)
  <2>1. SUFFICES ASSUME NEW i \in 1 .. n, t[i].type = "compaction"
                 PROVE  SummaryFits(t[i].body, Front(Branch(t, t[i].id)))
    BY <1>1 DEF SummariesFit
  <2>2. CASE i \in 1 .. Len(s)
    BY <1>1, <1>6, <2>1, <2>2 DEF Fitting, SummariesFit
  <2>3. CASE i = n
    BY <1>1, <1>4, <2>1, <2>3
  <2>4. QED
    BY <1>1, <2>2, <2>3
<1>8. LeavesFit(t)
  BY <1>1 DEF Fitting, LeavesFit
<1>9. QED
  BY <1>7, <1>8 DEF Fitting

\* A first part fits.
LEMMA FittingBefore ==
  ASSUME NEW B, NEW s \in Seq(EntryOf(B)), Sound(s), Fitting(s), NEW n \in Nat, n <= Len(s),
         NEW t, t = SubSeq(s, 1, n)
  PROVE  Fitting(t)
<1>1. /\ t \in Seq(EntryOf(B)) /\ Len(t) = n /\ DOMAIN t = 1 .. n /\ DOMAIN s = 1 .. Len(s)
      /\ \A i \in 1 .. n : t[i] = s[i] /\ i \in 1 .. Len(s)
  BY Parts
<1>2. Sound(t) /\ Extends(t, s)
  BY <1>1, SoundBefore DEF Extends
<1>3. ASSUME NEW i \in 1 .. n PROVE Branch(t, t[i].id) = Branch(s, s[i].id)
  <2>1. t[i].id \in Ids(t)
    BY <1>1 DEF Ids
  <2>2. Branch(s, t[i].id) = Branch(t, t[i].id)
    BY <1>1, <1>2, <2>1, BranchBefore
  <2>3. QED
    BY <1>1, <2>2
<1>4. SummariesFit(t)
  <2>1. SUFFICES ASSUME NEW i \in 1 .. n, t[i].type = "compaction"
                 PROVE  SummaryFits(t[i].body, Front(Branch(t, t[i].id)))
    BY <1>1 DEF SummariesFit
  <2>2. QED
    BY <1>1, <1>3, <2>1 DEF Fitting, SummariesFit
<1>5. LeavesFit(t)
  BY <1>1 DEF Fitting, LeavesFit
<1>6. QED
  BY <1>4, <1>5 DEF Fitting

-----------------------------------------------------------------------------
(* A transcript and the context of a branch                                *)

\* What is written of the transcript c is in the context v, in its order.
Follows(c, v) ==
  /\ \A i \in DOMAIN c : c[i].id # None => \E k \in 1 .. Len(v) : v[k] = c[i]
  /\ \A i, j \in DOMAIN c :
       c[i].id # None /\ c[j].id # None /\ i < j =>
         \E k, l \in 1 .. Len(v) : k < l /\ v[k] = c[i] /\ v[l] = c[j]

\* A context follows itself.
LEMMA FollowsItself ==
  ASSUME NEW Y, NEW v \in Seq(Y)
  PROVE  Follows(v, v)
BY DEF Follows

\* An empty transcript follows any context.
LEMMA NothingFollows ==
  ASSUME NEW v
  PROVE  Follows(<<>>, v)
BY DEF Follows

\* A longer context still has what the transcript follows.
LEMMA FollowsLonger ==
  ASSUME NEW c, NEW v, NEW w, Follows(c, v), Extends(v, w), Len(v) \in Nat, Len(w) \in Nat
  PROVE  Follows(c, w)
<1>1. \A k \in 1 .. Len(v) : w[k] = v[k] /\ k \in 1 .. Len(w)
  BY DEF Extends
<1>2. ASSUME NEW i \in DOMAIN c, c[i].id # None
      PROVE  \E k \in 1 .. Len(w) : w[k] = c[i]
  BY <1>1, <1>2 DEF Follows
<1>3. ASSUME NEW i \in DOMAIN c, NEW j \in DOMAIN c, c[i].id # None, c[j].id # None, i < j
      PROVE  \E k, l \in 1 .. Len(w) : k < l /\ w[k] = c[i] /\ w[l] = c[j]
  <2>1. PICK k, l \in 1 .. Len(v) : k < l /\ v[k] = c[i] /\ v[l] = c[j]
    BY <1>3 DEF Follows
  <2>2. QED
    BY <1>1, <2>1
<1>4. QED
  BY <1>2, <1>3 DEF Follows

\* A message enters both, or it could not be written.
LEMMA FollowsWith ==
  ASSUME NEW S, NEW c \in Seq(S), NEW v, NEW w, Follows(c, v), Extends(v, w),
         Len(v) \in Nat, Len(w) \in Nat,
         NEW x, x.id = None \/ (Len(w) = Len(v) + 1 /\ w[Len(w)] = x),
         NEW d, d = Append(c, x)
  PROVE  Follows(d, w)
<1> DEFINE n == Len(c) + 1
<1>1. /\ DOMAIN c = 1 .. Len(c) /\ Len(c) \in Nat /\ n \in Nat /\ DOMAIN d = 1 .. n
      /\ \A i \in 1 .. Len(c) : d[i] = c[i]
      /\ d[n] = x
      /\ \A i \in 1 .. n : i \in 1 .. Len(c) \/ i = n
  BY AppendedPlain
<1> HIDE DEF n
<1>2. Follows(c, w)
  BY FollowsLonger
<1>3. ASSUME NEW i \in 1 .. n, d[i].id # None
      PROVE  \E k \in 1 .. Len(w) : w[k] = d[i]
  <2>1. CASE i \in 1 .. Len(c)
    BY <1>1, <1>2, <1>3, <2>1 DEF Follows
  <2>2. CASE i = n
    <3>1. Len(w) \in 1 .. Len(w) /\ w[Len(w)] = x
      BY <1>1, <1>3, <2>2
    <3>2. QED
      BY <1>1, <2>2, <3>1
  <2>3. QED
    BY <1>1, <2>1, <2>2
<1>4. ASSUME NEW i \in 1 .. n, NEW j \in 1 .. n, d[i].id # None, d[j].id # None, i < j
      PROVE  \E k, l \in 1 .. Len(w) : k < l /\ w[k] = d[i] /\ w[l] = d[j]
  <2>1. i \in 1 .. Len(c) /\ d[i] = c[i]
    BY <1>1, <1>4
  <2>2. CASE j \in 1 .. Len(c)
    <3>1. /\ i \in DOMAIN c /\ j \in DOMAIN c /\ d[i] = c[i] /\ d[j] = c[j]
          /\ c[i].id # None /\ c[j].id # None /\ i < j
      BY <1>1, <1>4, <2>1, <2>2
    <3>2. \E k, l \in 1 .. Len(w) : k < l /\ w[k] = c[i] /\ w[l] = c[j]
      BY ONLY <1>2, <3>1 DEF Follows
    <3>3. QED
      BY <3>1, <3>2
  <2>3. CASE j = n
    <3>1. Len(w) \in 1 .. Len(w) /\ w[Len(w)] = d[j] /\ Len(w) = Len(v) + 1
      BY <1>1, <1>4, <2>3
    <3>2. PICK k \in 1 .. Len(v) : v[k] = c[i]
      BY <1>1, <1>4, <2>1 DEF Follows
    <3>3. w[k] = c[i] /\ k \in 1 .. Len(w) /\ k < Len(w)
      BY <3>1, <3>2 DEF Extends
    <3>4. QED
      BY <2>1, <3>1, <3>3
  <2>4. QED
    BY <1>1, <2>2, <2>3
<1>5. QED
  BY <1>1, <1>3, <1>4 DEF Follows

\* The last message is taken back.
LEMMA FollowsWithout ==
  ASSUME NEW S, NEW c \in Seq(S), c # <<>>, NEW v, Follows(c, v)
  PROVE  Front(c) \in Seq(S) /\ Follows(Front(c), v)
<1> DEFINE d == SubSeq(c, 1, Len(c) - 1)
<1>1. /\ d \in Seq(S) /\ Len(d) = Len(c) - 1 /\ DOMAIN d = 1 .. Len(c) - 1
      /\ DOMAIN c = 1 .. Len(c) /\ Len(c) \in Nat
      /\ \A i \in 1 .. Len(c) - 1 : d[i] = c[i]
  OBVIOUS
<1> HIDE DEF d
<1>2. \A i \in DOMAIN d : i \in DOMAIN c /\ d[i] = c[i]
  BY <1>1
<1>3. ASSUME NEW i \in DOMAIN d, d[i].id # None PROVE \E k \in 1 .. Len(v) : v[k] = d[i]
  BY <1>2, <1>3 DEF Follows
<1>4. ASSUME NEW i \in DOMAIN d, NEW j \in DOMAIN d, d[i].id # None, d[j].id # None, i < j
      PROVE  \E k, l \in 1 .. Len(v) : k < l /\ v[k] = d[i] /\ v[l] = d[j]
  <2>1. Follows(c, v) /\ i \in DOMAIN c /\ j \in DOMAIN c /\ d[i] = c[i] /\ d[j] = c[j]
    BY <1>2
  <2>2. c[i].id # None /\ c[j].id # None /\ i < j
    BY <1>4, <2>1
  <2>3. \E k, l \in 1 .. Len(v) : k < l /\ v[k] = c[i] /\ v[l] = c[j]
    BY ONLY <2>1, <2>2 DEF Follows
  <2>4. QED
    BY <2>1, <2>3
<1>5. Follows(d, v)
  BY <1>3, <1>4 DEF Follows
<1>6. QED
  BY <1>1, <1>5 DEF Front, d

-----------------------------------------------------------------------------
(* What a call of the session leaves                                       *)

\* x is the next entry of session m, which becomes n.
Takes(m, x, n) ==
  \E C : /\ m.entries \in Seq(EntryOf(C)) /\ Sound(m.entries) /\ x \in EntryOf(C)
         /\ n.entries = Append(m.entries, x) /\ Sound(n.entries)
         /\ x.parent = m.leaf \/ (m.leaf = None /\ m.entries # <<>>)

\* A call that appends x, and makes another entry the leaf, or nothing at all.
Outcome(m, x, leaf, o) ==
  IF o.ok THEN Takes(m, x, o.mem) /\ o.mem.leaf = leaf
  ELSE o.mem.entries = m.entries /\ o.mem.leaf = m.leaf

\* The fields of the next entry.
LEMMA ParentIs ==
  ASSUME NEW m, NEW type, NEW target, NEW body
  PROVE  /\ NewEntry(m, type, target, body).parent = m.leaf \/ (m.leaf = None /\ m.entries # <<>>)
         /\ NewEntry(m, type, target, body).type = type
         /\ NewEntry(m, type, target, body).body = body
         /\ NewEntry(m, type, target, body).target = target
         /\ NewEntry(m, type, target, body).id = NextEntryId(m.entries)
<1> DEFINE parent == IF m.leaf # None THEN m.leaf
                     ELSE IF m.entries = <<>> THEN None ELSE m.entries[Len(m.entries)].id
<1>1. parent = m.leaf \/ (m.leaf = None /\ m.entries # <<>>)
  OBVIOUS
<1> HIDE DEF parent
<1>2. NewEntry(m, type, target, body) =
        [id |-> NextEntryId(m.entries), type |-> type, target |-> target,
         body |-> body, parent |-> parent]
  BY DEF NewEntry, parent
<1>3. QED
  BY <1>1, <1>2

\* The next entry of a fitting session is one it can take.
LEMMA NewEntryTaken ==
  ASSUME NEW B, NEW m, NEW d, LogFits(B, m, d), Room(m.entries),
         NEW type \in Types, NEW target \in Known(m.entries), NEW body \in B,
         NEW x, x = NewEntry(m, type, target, body),
         NEW n, n.entries = Append(m.entries, x)
  PROVE  Takes(m, x, n)
<1>1. /\ m \in MemoryOf(B) /\ m.entries \in Seq(EntryOf(B)) /\ Sound(m.entries)
      /\ m.leaf = ComputeLeafId(m.entries)
  BY DEF LogFits, MemoryOf
<1>2. /\ x \in EntryOf(B) /\ x.id \notin Ids(m.entries)
      /\ x.parent \in Known(m.entries) /\ x.target = target
  BY <1>1, NewEntryFits
<1> DEFINE s == m.entries
           t == n.entries
<1>3. s \in Seq(EntryOf(B)) /\ Sound(s) /\ t = Append(s, x) /\ x \in EntryOf(B)
      /\ x.id \notin Ids(s) /\ x.parent \in Known(s) /\ x.target \in Known(s)
  BY <1>1, <1>2
<1>4. x.parent = m.leaf \/ (m.leaf = None /\ m.entries # <<>>)
  BY ParentIs
<1> HIDE DEF s, t
<1>5. Sound(t)
  BY ONLY <1>3, SoundStays
<1>6. QED
  BY <1>3, <1>4, <1>5 DEF Takes, s, t

\* Appending.
LEMMA AppendedTakes ==
  ASSUME NEW m, NEW d, Fine(m, d), m.open, Room(m.entries), NEW type \in Types, NEW body,
         NEW o \in Appended(m, d, type, body), NEW x, x = NewEntry(m, type, None, body)
  PROVE  Outcome(m, x, x.id, o)
<1>1. PICK B : Holds(B, m, d)
  BY DEF Fine
<1> DEFINE C == B \cup {body}
<1>2. Holds(C, m, d) /\ body \in C
  BY <1>1, HoldsWider
<1> HIDE DEF C
<1>3. NoBody \in C
  BY <1>2 DEF Holds
<1>4. LogFits(C, m, d)
  BY <1>2, <1>3, FitsHolds
<1>5. Committed(C, m, d, x, o)
  BY <1>2, <1>4, AppendedKeeps
<1>6. None \in Known(m.entries)
  BY DEF Known
<1>7. o.ok => Takes(m, x, o.mem) /\ o.mem.leaf = x.id
  BY <1>2, <1>4, <1>5, <1>6, NewEntryTaken DEF Committed
<1>8. ~o.ok => o.mem.entries = m.entries /\ o.mem.leaf = m.leaf
  BY <1>5 DEF Committed
<1>9. QED
  BY <1>7, <1>8 DEF Outcome

\* Appending around a flush.
LEMMA ForcedTakes ==
  ASSUME NEW m, NEW d, Fine(m, d), m.open, Room(m.entries), NEW type \in Types, NEW body,
         NEW o \in FlushedThenAppended(m, d, type, body),
         NEW x, x = NewEntry(m, type, None, body)
  PROVE  Outcome(m, x, x.id, o)
<1>1. PICK B : Holds(B, m, d)
  BY DEF Fine
<1> DEFINE C == B \cup {body}
<1>2. Holds(C, m, d) /\ body \in C
  BY <1>1, HoldsWider
<1> HIDE DEF C
<1>3. NoBody \in C
  BY <1>2 DEF Holds
<1>4. LogFits(C, m, d)
  BY <1>2, <1>3, FitsHolds
<1>5. Committed(C, m, d, x, o)
  BY <1>2, <1>4, FlushedThenAppendedKeeps
<1>6. None \in Known(m.entries)
  BY DEF Known
<1>7. o.ok => Takes(m, x, o.mem) /\ o.mem.leaf = x.id
  BY <1>2, <1>4, <1>5, <1>6, NewEntryTaken DEF Committed
<1>8. ~o.ok => o.mem.entries = m.entries /\ o.mem.leaf = m.leaf
  BY <1>5 DEF Committed
<1>9. QED
  BY <1>7, <1>8 DEF Outcome

\* Moving the leaf.
LEMMA LeafSetTakes ==
  ASSUME NEW m, NEW d, Fine(m, d), m.open, Room(m.entries), NEW id \in Ids(m.entries),
         NEW o \in LeafSet(m, d, id), NEW x, x = NewEntry(m, "leaf", id, NoBody)
  PROVE  Outcome(m, x, id, o)
<1>1. PICK B : Holds(B, m, d)
  BY DEF Fine
<1>2. LogFits(B, m, d) /\ NoBody \in B
  BY <1>1, FitsHolds DEF Holds
<1>3. /\ m \in MemoryOf(B) /\ d \in DiskOf(B) /\ m.entries \in Seq(EntryOf(B))
      /\ Matches(m, d) /\ Sound(m.entries) /\ m.leaf = ComputeLeafId(m.entries)
  BY <1>2 DEF LogFits, MemoryOf
<1>4. id \in Known(m.entries) /\ "leaf" \in Types
  BY DEF Known, Types
<1>5. x \in EntryOf(B)
  BY <1>2, <1>3, <1>4, NewEntryFits
<1>6. PICK p \in Commit(m, d, x) : o = IF p.ok THEN [p EXCEPT !.mem.leaf = id] ELSE p
  BY DEF LeafSet
<1>7. Committed(B, m, d, x, p)
  BY <1>3, <1>5, <1>6, CommitKeeps
<1>8. p.mem \in MemoryOf(B) /\ IsOutcome(p)
  BY <1>7 DEF Committed
<1>9. CASE p.ok
  <2>1. o.ok /\ o.mem = [p.mem EXCEPT !.leaf = id]
    BY <1>6, <1>8, <1>9 DEF IsOutcome
  <2>2. o.mem.entries = p.mem.entries /\ o.mem.leaf = id
    BY <1>8, <2>1 DEF MemoryOf
  <2>3. o.mem.entries = Append(m.entries, x)
    BY <1>7, <1>9, <2>2 DEF Committed
  <2>4. Takes(m, x, o.mem)
    BY <1>2, <1>4, <2>3, NewEntryTaken
  <2>5. QED
    BY <2>1, <2>2, <2>4 DEF Outcome
<1>10. CASE ~p.ok
  BY <1>6, <1>7, <1>10 DEF Committed, Outcome
<1>11. QED
  BY <1>9, <1>10

\* A flush leaves the entries alone.
LEMMA FlushedLeaves ==
  ASSUME NEW m, NEW d, Fine(m, d), m.open, NEW f \in Flushed(m, d)
  PROVE  f.mem.entries = m.entries /\ f.mem.leaf = m.leaf
<1>1. PICK B : Holds(B, m, d)
  BY DEF Fine
<1>2. LogFits(B, m, d)
  BY <1>1, FitsHolds DEF Holds
<1>3. FlushKept(B, m, d, f)
  BY <1>2, FlushedKeeps
<1>4. QED
  BY <1>3 DEF FlushKept

-----------------------------------------------------------------------------
(* The active branch                                                       *)

\* A session that has entries continues from one of them.
LeafIsThere(m) == m.leaf \in Ids(m.entries) \/ (m.leaf = None /\ m.entries = <<>>)

\* The leaf of an open session is an entry: no leaf entry lacks a target.
LEMMA LeafExists ==
  ASSUME NEW m, NEW d, Fine(m, d), m.open, LeavesFit(m.entries)
  PROVE  LeafIsThere(m)
<1>1. PICK B : Holds(B, m, d)
  BY DEF Fine
<1> DEFINE s == m.entries
           n == Len(s)
<1>2. s \in Seq(EntryOf(B)) /\ Sound(s) /\ m.leaf = ComputeLeafId(s) /\ LeavesFit(s)
  BY <1>1 DEF Holds, MemoryOf
<1> HIDE DEF s
<1>3. CASE s = <<>>
  BY <1>2, <1>3 DEF ComputeLeafId, LeafIsThere, s
<1>4. CASE s # <<>>
  <2>1. n \in DOMAIN s /\ s[n] \in EntryOf(B)
    BY <1>2, <1>4
  <2>2. m.leaf = IF s[n].type = "leaf" THEN s[n].target ELSE s[n].id
    BY <1>2, <1>4 DEF ComputeLeafId
  <2>3. s[n].type = "leaf" => s[n].target # None
    BY <1>2, <2>1 DEF LeavesFit
  <2>4. s[n].id # None
    BY <2>1, IdAssumption DEF EntryOf
  <2>5. m.leaf \in Known(s)
    BY <1>2, LeafIsKnown
  <2>6. QED
    BY <2>2, <2>3, <2>4, <2>5 DEF Known, LeafIsThere, s
<1>5. QED
  BY <1>3, <1>4

\* A branch whose ids are distinct and whose last summary fits.
BranchSound(b) ==
  /\ \E B : b \in Seq(EntryOf(B))
  /\ Distinct(b) /\ LastFits(b)

\* The active branch is sound and made of entries of the session.
LEMMA ActiveBranchIs ==
  ASSUME NEW m, NEW d, Fine(m, d), m.open, Fitting(m.entries), NEW b, b = Branch(m.entries, m.leaf)
  PROVE  /\ BranchSound(b) /\ Ids(b) \subseteq Ids(m.entries) /\ Ids(b) \subseteq EntryId
         /\ b # <<>> => m.leaf \in Ids(m.entries)
<1>1. PICK B : Holds(B, m, d)
  BY DEF Fine
<1> DEFINE s == m.entries
<1>2. s \in Seq(EntryOf(B)) /\ Sound(s) /\ SummariesFit(s)
  BY <1>1 DEF Holds, MemoryOf, Fitting
<1>3. LeafIsThere(m)
  BY LeafExists DEF Fitting
<1>4. CASE m.leaf \in Ids(s)
  <2> DEFINE leaf == m.leaf
  <2>1. leaf \in Ids(s) /\ b = Branch(s, leaf)
    BY <1>4
  <2> HIDE DEF s, leaf
  <2>2. b \in Seq(EntryOf(B)) /\ Distinct(b) /\ LastFits(b) /\ Ids(b) \subseteq Ids(s)
    BY ONLY <1>2, <2>1, BranchLastFits
  <2>3. Ids(b) \subseteq EntryId
    BY <2>2, IdsFit
  <2>4. QED
    BY <1>4, <2>2, <2>3 DEF BranchSound, s
<1>5. CASE m.leaf = None /\ s = <<>>
  <2>1. b = <<>>
    BY <1>5 DEF Branch, Ids
  <2>2. LastCompaction(b) = 0 /\ Distinct(b) /\ Ids(b) = {} /\ b \in Seq(EntryOf(B))
    <3>1. b \in Seq(EntryOf(B)) /\ Len(b) = 0
      BY <2>1
    <3>2. LastCompaction(b) \in 0 .. Len(b)
      BY ONLY <3>1, LastCompactionIs
    <3>3. QED
      BY <2>1, <3>1, <3>2 DEF Distinct, Ids
  <2>3. QED
    BY <2>1, <2>2 DEF BranchSound, LastFits
<1>6. QED
  BY <1>3, <1>4, <1>5 DEF LeafIsThere

\* What the next entry changes: it continues the active branch, and no other.
Continues(m, x, n) ==
  /\ Fitting(n.entries)
  /\ x.id \in Ids(n.entries)
  /\ Branch(n.entries, x.id) = Append(Branch(m.entries, m.leaf), x)
  /\ \A id \in Ids(m.entries) :
       id \in Ids(n.entries) /\ Branch(n.entries, id) = Branch(m.entries, id)

\* An entry that fits continues the active branch, and no other changes.
LEMMA TakingContinues ==
  ASSUME NEW m, NEW x, NEW n, Takes(m, x, n), Fitting(m.entries), LeafIsThere(m),
         x.type = "leaf" => x.target # None,
         x.type = "compaction" => SummaryFits(x.body, Branch(m.entries, m.leaf))
  PROVE  Continues(m, x, n)
<1> DEFINE s == m.entries
           t == n.entries
           leaf == m.leaf
<1>1. PICK C : /\ s \in Seq(EntryOf(C)) /\ Sound(s) /\ x \in EntryOf(C)
               /\ t = Append(s, x) /\ Sound(t)
               /\ x.parent = leaf \/ (leaf = None /\ s # <<>>)
  BY DEF Takes
<1>2. Fitting(s) /\ (leaf \in Ids(s) \/ (leaf = None /\ s = <<>>))
  BY DEF LeafIsThere
<1>3. x.type = "compaction" => SummaryFits(x.body, Branch(s, leaf))
  OBVIOUS
<1>4. x.type = "leaf" => x.target # None
  OBVIOUS
<1> HIDE DEF s, t, leaf
<1>5. x.parent = leaf
  <2>1. CASE leaf \in Ids(s)
    BY <1>1, <2>1, IdsFit, IdAssumption
  <2>2. QED
    BY <1>1, <1>2, <2>1
<1>6. s = <<>> \/ x.parent \in Ids(s)
  BY <1>2, <1>5
<1>7. Fitting(t)
  <2>1. x.type = "compaction" => SummaryFits(x.body, Branch(s, x.parent))
    BY <1>3, <1>5
  <2>2. QED
    BY ONLY <1>1, <1>2, <1>4, <1>6, <2>1, FittingWith
<1>8. Branch(t, x.id) = Append(Branch(s, x.parent), x)
  BY ONLY <1>1, <1>6, BranchWith
<1>9. t \in Seq(EntryOf(C)) /\ Extends(s, t) /\ x.id \in Ids(t)
  <2>1. /\ t \in Seq(EntryOf(C)) /\ Len(t) = Len(s) + 1 /\ Len(s) \in Nat
        /\ DOMAIN t = 1 .. Len(s) + 1 /\ t[Len(s) + 1] = x
        /\ \A i \in 1 .. Len(s) : t[i] = s[i]
    BY <1>1, Appending
  <2>2. QED
    BY <2>1 DEF Extends, Ids
<1>10. ASSUME NEW id \in Ids(s) PROVE id \in Ids(t) /\ Branch(t, id) = Branch(s, id)
  <2>1. s \in Seq(EntryOf(C)) /\ Sound(s) /\ Sound(t)
    BY <1>1
  <2>2. QED
    BY ONLY <1>9, <1>10, <2>1, BranchBefore
<1>11. QED
  BY <1>5, <1>7, <1>8, <1>9, <1>10 DEF Continues, s, t, leaf

\* The transcript follows the branch that the next entry continues.
Shows(c, m) ==
  /\ \E S : c \in Seq(S)
  /\ Follows(c, BuildContext(Branch(m.entries, m.leaf)))

\* The context of a sound branch has no id twice, and each is an id.
LEMMA ContextSequence ==
  ASSUME NEW b, BranchSound(b), NEW v, v = BuildContext(b)
  PROVE  /\ \E Y : v \in Seq(Y)
         /\ Distinct(v) /\ \A k \in 1 .. Len(v) : v[k].id \in EntryId
<1>1. PICK B : b \in Seq(EntryOf(B))
  BY DEF BranchSound
<1>2. Distinct(b)
  BY DEF BranchSound
<1>3. ContextOk(v, b, Picked(b, InContext(b)), SummariesShown(b))
  BY <1>1, ContextIs
<1>4. Distinct(v) /\ \A k \in 1 .. Len(v) : v[k].id \in EntryId
  BY <1>1, <1>2, ContextDistinct
<1>5. QED
  BY <1>3, <1>4 DEF ContextOk

\* A transcript that was rebuilt shows the branch.
LEMMA ShowsRebuilt ==
  ASSUME NEW m, BranchSound(Branch(m.entries, m.leaf)), NEW c,
         c = BuildContext(Branch(m.entries, m.leaf))
  PROVE  Shows(c, m)
<1>1. PICK Y : c \in Seq(Y)
  BY ContextSequence
<1>2. QED
  BY <1>1, FollowsItself DEF Shows

\* A transcript still shows a branch that goes on, with the message or without.
LEMMA ShowsNext ==
  ASSUME NEW m, NEW x, NEW n, Takes(m, x, n), Continues(m, x, n), n.leaf = x.id,
         BranchSound(Branch(m.entries, m.leaf)), BranchSound(Branch(n.entries, n.leaf)),
         x.type # "compaction", NEW c, Shows(c, m)
  PROVE  /\ Shows(c, n)
         /\ x.type \in Messages => Shows(Append(c, Item(x)), n)
<1> DEFINE b == Branch(m.entries, m.leaf)
           t == Branch(n.entries, n.leaf)
           v == BuildContext(b)
           w == BuildContext(t)
<1>1. t = Append(b, x)
  BY DEF Continues
<1>2. PICK B : b \in Seq(EntryOf(B))
  BY DEF BranchSound
<1>3. PICK C : x \in EntryOf(C)
  BY DEF Takes
<1>4. Distinct(t) /\ BranchSound(b) /\ BranchSound(t)
  BY DEF BranchSound
<1>5. v = BuildContext(b) /\ w = BuildContext(t)
  OBVIOUS
<1>6. PICK S : c \in Seq(S) /\ Follows(c, v)
  BY DEF Shows
<1>7. ASSUME NEW d, NEW T, d \in Seq(T), Follows(d, w) PROVE Shows(d, n)
  BY <1>7 DEF Shows
<1> DEFINE X == EntryOf(B) \cup {x}
<1>8. b \in Seq(X) /\ x \in X
  BY <1>2, Widens
<1> HIDE DEF b, t, v, w, X
<1>9. Extends(v, w) /\ (x.type \in Messages => Len(w) = Len(v) + 1 /\ w[Len(w)] = Item(x))
  <2>1. x.type # "compaction" /\ Distinct(t)
    BY <1>4
  <2>2. Grown(v, w, x)
    BY ONLY <1>1, <1>5, <1>8, <2>1, ContextWith
  <2>3. QED
    BY <2>2 DEF Grown
<1>10. Len(v) \in Nat /\ Len(w) \in Nat
  BY <1>4, <1>5, ContextSequence
<1>11. Shows(c, n)
  BY <1>6, <1>7, <1>9, <1>10, FollowsLonger
<1>12. ASSUME x.type \in Messages PROVE Shows(Append(c, Item(x)), n)
  <2> DEFINE y == Item(x)
             d == Append(c, y)
             T == S \cup {y}
  <2>1. c \in Seq(T) /\ y \in T
    BY <1>6, Widens
  <2>2. Len(w) = Len(v) + 1 /\ w[Len(w)] = y /\ d = Append(c, y)
    BY <1>9, <1>12
  <2> HIDE DEF y, T
  <2>3. d \in Seq(T)
    BY <2>1
  <2> HIDE DEF d
  <2>4. Follows(d, w)
    BY ONLY <1>6, <1>9, <1>10, <2>2, FollowsWith
  <2>5. Shows(d, n)
    BY <1>7, <2>3, <2>4
  <2>6. QED
    BY <2>5 DEF d, y
<1>13. QED
  BY <1>11, <1>12

\* A message that could not be written changes nothing.
LEMMA ShowsUnwritten ==
  ASSUME NEW m, BranchSound(Branch(m.entries, m.leaf)), NEW c, Shows(c, m), NEW y, y.id = None
  PROVE  Shows(Append(c, y), m)
<1> DEFINE v == BuildContext(Branch(m.entries, m.leaf))
<1>1. PICK S : c \in Seq(S) /\ Follows(c, v)
  BY DEF Shows
<1>2. Len(v) \in Nat
  BY ContextSequence
<1>3. \A d, T : d \in Seq(T) /\ Follows(d, v) => Shows(d, m)
  BY DEF Shows
<1> HIDE DEF v
<1>4. Extends(v, v)
  BY <1>2 DEF Extends
<1> DEFINE d == Append(c, y)
           T == S \cup {y}
<1>5. c \in Seq(T) /\ y \in T /\ d = Append(c, y)
  BY <1>1, Widens
<1>6. d \in Seq(T)
  BY <1>5
<1> HIDE DEF d, T
<1>7. y.id = None
  OBVIOUS
<1>8. Follows(d, v)
  BY ONLY <1>1, <1>2, <1>4, <1>5, <1>7, FollowsWith
<1>9. QED
  BY <1>3, <1>6, <1>8 DEF d

-----------------------------------------------------------------------------
(* The transcript, the summaries and the branch                            *)

\* A summary that is being written will fit the branch it was asked for.
SummaryIsDue ==
  comp.on =>
    /\ turn.at \in {"summary", "manual"}
    /\ comp.leaf \in Ids(mem.entries)
    /\ SummaryFits(comp, Branch(mem.entries, comp.leaf))

\* The inductive invariant: the summaries in memory and in the file fit their
\* branches, the one being written will, and the transcript shows the branch.
BInv ==
  /\ turn \in Turns /\ comp \in Summaries
  /\ Fitting(mem.entries) /\ Fitting(disk.lines)
  /\ SummaryIsDue
  /\ mem.open => Shows(ctx, mem)

\* What the file holds fits if what the session says does.
LEMMA FileFits ==
  ASSUME NEW m, NEW d, Fine(m, d), m.open, Fitting(m.entries)
  PROVE  Fitting(d.lines)
<1>1. PICK B : Holds(B, m, d)
  BY DEF Fine
<1> DEFINE s == m.entries
           n == m.saved
           t == d.lines
<1>2. /\ s \in Seq(EntryOf(B)) /\ Sound(s) /\ Fitting(s)
      /\ n \in Nat /\ n <= Len(s) /\ t = SubSeq(s, 1, n)
  BY <1>1 DEF Holds, MemoryOf, Matches
<1> HIDE DEF s, n, t
<1>3. Fitting(t)
  BY ONLY <1>2, FittingBefore
<1>4. QED
  BY <1>3 DEF t

\* A session without entries fits.
LEMMA NothingFits == Fitting(<<>>)
BY DEF Fitting, SummariesFit, LeavesFit

\* A session goes on.
LEMMA OpenKeeps ==
  ASSUME IInv', mem'.open, Fitting(mem'.entries), turn' \in Turns, comp' \in Summaries,
         SummaryIsDue', Shows(ctx', mem')
  PROVE  BInv'
<1>1. Fine(mem', disk')
  BY DEF IInv
<1>2. Fitting(disk'.lines)
  BY <1>1, FileFits
<1>3. QED
  BY <1>2 DEF BInv

\* The branch a summary was asked for stays as it is.
LEMMA DueStays ==
  ASSUME SummaryIsDue,
         comp'.on => /\ comp.on /\ comp'.leaf = comp.leaf /\ comp'.covers = comp.covers
                     /\ comp'.first = comp.first /\ turn'.at = turn.at,
         \/ \E x : Continues(mem, x, mem')
         \/ mem'.entries = mem.entries
  PROVE  SummaryIsDue'
<1>1. SUFFICES ASSUME comp'.on
               PROVE  /\ turn'.at \in {"summary", "manual"}
                      /\ comp'.leaf \in Ids(mem'.entries)
                      /\ SummaryFits(comp', Branch(mem'.entries, comp'.leaf))
  BY DEF SummaryIsDue
<1>2. /\ turn.at \in {"summary", "manual"} /\ comp.leaf \in Ids(mem.entries)
      /\ SummaryFits(comp, Branch(mem.entries, comp.leaf))
  BY <1>1 DEF SummaryIsDue
<1>3. /\ comp.leaf \in Ids(mem'.entries)
      /\ Branch(mem'.entries, comp.leaf) = Branch(mem.entries, comp.leaf)
  <2>1. CASE \E x : Continues(mem, x, mem')
    BY <1>2, <2>1 DEF Continues
  <2>2. CASE mem'.entries = mem.entries
    BY <1>2, <2>2
  <2>3. QED
    BY <2>1, <2>2
<1> DEFINE b == Branch(mem.entries, comp.leaf)
<1>4. SummaryFits(comp, b) /\ comp'.covers = comp.covers /\ comp'.first = comp.first
  BY <1>1, <1>2
<1>5. comp'.leaf = comp.leaf /\ turn'.at = turn.at
  BY <1>1
<1> HIDE DEF b
<1>6. SummaryFits(comp', b)
  BY <1>4 DEF SummaryFits
<1>7. QED
  BY <1>2, <1>3, <1>5, <1>6 DEF b

\* The branches of a session that is open.
LEMMA BranchesSound ==
  ASSUME NEW m, NEW d, Fine(m, d), m.open, Fitting(m.entries)
  PROVE  BranchSound(Branch(m.entries, m.leaf)) /\ LeafIsThere(m)
BY ActiveBranchIs, LeafExists DEF Fitting

\* The transcript only knows the entries and the leaf of a session.
LEMMA ShowsSame ==
  ASSUME NEW c, NEW m, NEW n, Shows(c, m), n.entries = m.entries, n.leaf = m.leaf
  PROVE  Shows(c, n)
BY DEF Shows

\* An entry that is neither a summary nor a leaf is appended, or nothing.
LEMMA EntryKeeps ==
  ASSUME IInv, IInv', BInv, mem.open, mem'.open, turn' \in Turns, comp' \in Summaries,
         comp'.on => /\ comp.on /\ comp'.leaf = comp.leaf /\ comp'.covers = comp.covers
                     /\ comp'.first = comp.first /\ turn'.at = turn.at,
         NEW x, x.type \notin {"leaf", "compaction"}, NEW o, Outcome(mem, x, x.id, o),
         mem'.entries = o.mem.entries, mem'.leaf = o.mem.leaf,
         \/ ctx' = ctx
         \/ o.ok /\ x.type \in Messages /\ ctx' = Append(ctx, Item(x))
         \/ ~o.ok /\ \E y : y.id = None /\ ctx' = Append(ctx, y)
  PROVE  BInv'
<1>1. Fine(mem, disk) /\ Fine(mem', disk')
  BY DEF IInv
<1>2. Fitting(mem.entries) /\ Shows(ctx, mem) /\ SummaryIsDue
  BY DEF BInv
<1>3. BranchSound(Branch(mem.entries, mem.leaf)) /\ LeafIsThere(mem)
  BY <1>1, <1>2, BranchesSound
<1>4. CASE o.ok
  <2>1. Takes(mem, x, mem') /\ mem'.leaf = x.id
    BY <1>4 DEF Outcome, Takes
  <2>2. Continues(mem, x, mem')
    BY <1>2, <1>3, <2>1, TakingContinues
  <2>3. Fitting(mem'.entries)
    BY <2>2 DEF Continues
  <2>4. BranchSound(Branch(mem'.entries, mem'.leaf))
    BY <1>1, <2>3, BranchesSound
  <2>5. Shows(ctx, mem') /\ (x.type \in Messages => Shows(Append(ctx, Item(x)), mem'))
    BY <1>2, <1>3, <2>1, <2>2, <2>4, ShowsNext
  <2>6. Shows(ctx', mem')
    BY <1>4, <2>5
  <2>7. SummaryIsDue'
    BY <1>2, <2>2, DueStays
  <2>8. QED
    BY <2>3, <2>6, <2>7, OpenKeeps
<1>5. CASE ~o.ok
  <2>1. mem'.entries = mem.entries /\ mem'.leaf = mem.leaf
    BY <1>5 DEF Outcome
  <2>2. Shows(ctx', mem)
    BY <1>2, <1>3, <1>5, ShowsUnwritten
  <2>3. Shows(ctx', mem')
    BY <2>1, <2>2, ShowsSame
  <2>4. SummaryIsDue'
    BY <1>2, <2>1, DueStays
  <2>5. Fitting(mem'.entries)
    BY <1>2, <2>1
  <2>6. QED
    BY <2>3, <2>4, <2>5, OpenKeeps
<1>6. QED
  BY <1>4, <1>5

\* A message.
LEMMA SayKeeps ==
  ASSUME IInv, IInv', BInv, NEW type \in Types, type \in Messages, NEW stop, Say(type, stop),
         turn' \in Turns, UNCHANGED comp, comp.on => turn'.at = turn.at
  PROVE  BInv'
<1> DEFINE body == Says(stop, {}, None, None, None)
<1>1. PICK o \in Appended(mem, disk, type, body) :
        /\ mem' = o.mem /\ disk' = o.disk
        /\ ctx' = Append(ctx, [id |-> IF o.ok THEN o.mem.leaf ELSE None,
                               type |-> type, stop |-> stop])
  BY DEF Say, Becomes
<1>2. mem.open /\ Room(mem.entries) /\ Fine(mem, disk)
  BY DEF Say, HasRoom, IInv
<1> DEFINE x == NewEntry(mem, type, None, body)
<1>3. x = NewEntry(mem, type, None, body)
  OBVIOUS
<1>9. body.stop = stop
  BY DEF Says
<1> HIDE DEF body, x
<1>4. Outcome(mem, x, x.id, o)
  BY <1>1, <1>2, <1>3, AppendedTakes
<1>5. Adds(mem, disk, body, o.mem, o.disk)
  BY <1>1, <1>2, AppendedAdds DEF Messages
<1>6. mem'.open
  BY <1>1, <1>2, <1>5 DEF Adds
<1>7. x.type = type /\ x.body = body
  BY <1>3, ParentIs
<1>8. o.ok => ctx' = Append(ctx, Item(x))
  BY <1>1, <1>4, <1>7, <1>9 DEF Outcome, Item
<1>10. ~o.ok => \E y : y.id = None /\ ctx' = Append(ctx, y)
  BY <1>1
<1>11. comp' \in Summaries /\ type \notin {"leaf", "compaction"}
  BY DEF BInv, Messages
<1>12. QED
  BY <1>1, <1>2, <1>4, <1>6, <1>7, <1>8, <1>10, <1>11, EntryKeeps

\* The session stays as it is.
LEMMA SameKeeps ==
  ASSUME IInv', BInv, mem.open => mem'.open, mem'.entries = mem.entries, mem'.leaf = mem.leaf,
         mem.open \/ UNCHANGED <<mem, disk>>, turn' \in Turns, comp' \in Summaries,
         SummaryIsDue', mem.open => Shows(ctx', mem)
  PROVE  BInv'
<1>1. CASE mem.open
  <2>1. Shows(ctx', mem') /\ Fitting(mem'.entries)
    BY <1>1, ShowsSame DEF BInv
  <2>2. QED
    BY <1>1, <2>1, OpenKeeps
<1>2. CASE ~mem.open
  BY <1>2 DEF BInv
<1>3. QED
  BY <1>1, <1>2

\* A record of something else, by the session or not.
LEMMA RecordKeeps ==
  ASSUME IInv, IInv', BInv, mem.open, NEW type \in Types, type \notin Messages,
         type \notin {"leaf", "compaction"}, NEW body, Room(mem.entries),
         NEW o, \/ o \in Appended(mem, disk, type, body)
                \/ o \in FlushedThenAppended(mem, disk, type, body),
         mem'.entries = o.mem.entries, mem'.leaf = o.mem.leaf, mem'.open = o.mem.open,
         UNCHANGED <<ctx, turn, comp>>
  PROVE  BInv'
<1> DEFINE x == NewEntry(mem, type, None, body)
<1>1. x = NewEntry(mem, type, None, body) /\ Fine(mem, disk)
  BY DEF IInv
<1> HIDE DEF x
<1>2. Outcome(mem, x, x.id, o)
  BY <1>1, AppendedTakes, ForcedTakes
<1>3. Adds(mem, disk, body, o.mem, o.disk)
  BY <1>1, AppendedAdds, ForcedAdds
<1>4. mem'.open
  BY <1>3 DEF Adds
<1>5. x.type = type
  BY <1>1, ParentIs
<1>6. turn' \in Turns /\ comp' \in Summaries
  BY DEF BInv
<1>7. QED
  BY <1>2, <1>4, <1>5, <1>6, EntryKeeps

\* Nothing is recorded.
LEMMA QuietKeeps ==
  ASSUME IInv', BInv, UNCHANGED <<mem, disk, ctx, turn, comp>>
  PROVE  BInv'
<1>1. SummaryIsDue' /\ turn' \in Turns /\ comp' \in Summaries
  BY DEF BInv, SummaryIsDue
<1>2. mem.open => Shows(ctx', mem)
  BY DEF BInv
<1>3. QED
  BY <1>1, <1>2, SameKeeps

\* What a task records.
LEMMA RecordedKeeps ==
  ASSUME IInv, IInv', BInv, NEW t \in Task, NEW r, Recorded(t, r), UNCHANGED <<ctx, turn, comp>>
  PROVE  BInv'
<1>1. CASE Owns(t)
  <2>1. PICK o \in Appended(mem, disk, "task", TaskBody(t, r.status)) :
          mem' = o.mem /\ disk' = o.disk
    BY <1>1 DEF Recorded, Becomes
  <2>2. mem.open /\ Room(mem.entries)
    BY <1>1 DEF Recorded, HasRoom, Owns
  <2>3. "task" \in Types /\ "task" \notin Messages /\ "task" \notin {"leaf", "compaction"}
    BY DEF Types, Messages
  <2>4. QED
    BY <2>1, <2>2, <2>3, RecordKeeps
<1>2. CASE ~Owns(t)
  BY <1>2, QuietKeeps DEF Recorded
<1>3. QED
  BY <1>1, <1>2

\* A step of a subagent task.
LEMMA TaskKeeps ==
  ASSUME IInv, IInv', BInv, NEW t \in Task,
         Spawn(t) \/ TaskStarts(t) \/ TaskTurns(t) \/ TaskEnds(t) \/ CancelTask(t)
  PROVE  BInv'
<1>1. CASE Spawn(t)
  <2>1. PICK o \in FlushedThenAppended(mem, disk, "task", TaskBody(t, "queued")) :
          mem' = o.mem /\ disk' = o.disk
    BY <1>1 DEF Spawn, Becomes
  <2>2. mem.open /\ Room(mem.entries) /\ UNCHANGED <<ctx, turn, comp>>
    BY <1>1 DEF Spawn, HasRoom
  <2>3. "task" \in Types /\ "task" \notin Messages /\ "task" \notin {"leaf", "compaction"}
    BY DEF Types, Messages
  <2>4. QED
    BY <2>1, <2>2, <2>3, RecordKeeps
<1>2. CASE TaskStarts(t)
  BY <1>2, RecordedKeeps DEF TaskStarts
<1>3. CASE TaskTurns(t)
  BY <1>3, RecordedKeeps, QuietKeeps DEF TaskTurns
<1>4. CASE TaskEnds(t)
  BY <1>4, RecordedKeeps DEF TaskEnds
<1>5. CASE CancelTask(t)
  BY <1>5, QuietKeeps DEF CancelTask
<1>6. QED
  BY <1>1, <1>2, <1>3, <1>4, <1>5

\* A setting or a Plan event.
LEMMA RecordsKeeps ==
  ASSUME IInv, IInv', BInv, NEW type, Records(type)
  PROVE  BInv'
<1>1. /\ mem.open /\ Room(mem.entries) /\ type \in {"settings", "plan"}
      /\ UNCHANGED <<ctx, turn, comp>>
  BY DEF Records, HasRoom
<1>2. PICK o \in Appended(mem, disk, type, Silent) :
        mem' = IF o.ok /\ type = "plan" THEN [o.mem EXCEPT !.blocked = FALSE] ELSE o.mem
  BY DEF Records
<1>3. type \in Types /\ type \notin Messages /\ type \notin {"leaf", "compaction"}
  BY <1>1 DEF Types, Messages
<1>4. Adds(mem, disk, Silent, o.mem, o.disk)
  BY <1>1, <1>3, AppendedAdds DEF IInv
<1>5. PICK B : o.mem \in MemoryOf(B)
  BY <1>4 DEF Adds, Fine, Holds
<1>6. mem'.entries = o.mem.entries /\ mem'.leaf = o.mem.leaf /\ mem'.open = o.mem.open
  BY <1>2, <1>5 DEF MemoryOf
<1>7. QED
  BY <1>1, <1>3, <1>6, RecordKeeps

\* The turn goes on, or ends, without a summary.
LEMMA TurnsFit ==
  ASSUME turn \in Turns
  PROVE  /\ Idle \in Turns
         /\ \A at \in {"idle", "model", "tools", "settling", "summary", "manual", "retry"} :
              /\ [turn EXCEPT !.at = at] \in Turns /\ [turn EXCEPT !.at = at].at = at
              /\ [Idle EXCEPT !.at = at] \in Turns /\ [Idle EXCEPT !.at = at].at = at
         /\ \A ok \in BOOLEAN : Resumes(ok) \in Turns
         /\ [turn EXCEPT !.aborted = TRUE] \in Turns /\ [turn EXCEPT !.aborted = TRUE].at = turn.at
BY DEF Turns, Idle, Resumes

\* A prompt, an answer, tool results, a retry, the end of a !command.
LEMMA PromptKeeps ==
  ASSUME IInv, IInv', BInv,
         Prompt \/ ToolResults \/ Retry \/ BashEnds \/ \E stop \in Stops : Reply(stop)
  PROVE  BInv'
<1>1. /\ turn \in Turns /\ comp \in Summaries
      /\ comp.on => turn.at \in {"summary", "manual"}
  BY DEF BInv, SummaryIsDue
<1>2. /\ {"user", "assistant", "toolResult", "bash"} \subseteq Types
      /\ {"user", "assistant", "toolResult", "bash"} \subseteq Messages
  BY DEF Types, Messages
<1>3. CASE Prompt
  <2>1. Say("user", None) /\ turn.at = "idle" /\ turn' \in Turns /\ UNCHANGED comp
    BY <1>1, <1>3, TurnsFit DEF Prompt, Idle
  <2>2. QED
    BY <1>1, <1>2, <2>1, SayKeeps
<1>4. CASE ToolResults
  <2>1. Say("toolResult", None) /\ turn.at = "tools" /\ turn' \in Turns /\ UNCHANGED comp
    BY <1>1, <1>4, TurnsFit DEF ToolResults
  <2>2. QED
    BY <1>1, <1>2, <2>1, SayKeeps
<1>5. CASE Retry
  <2>1. Say("user", None) /\ turn.at = "retry" /\ turn' \in Turns /\ UNCHANGED comp
    BY <1>1, <1>5, TurnsFit DEF Retry
  <2>2. QED
    BY <1>1, <1>2, <2>1, SayKeeps
<1>6. CASE BashEnds
  <2>1. Say("bash", None) /\ turn' = turn /\ UNCHANGED comp
    BY <1>6 DEF BashEnds
  <2>2. QED
    BY <1>1, <1>2, <2>1, SayKeeps
<1>7. CASE \E stop \in Stops : Reply(stop)
  <2>1. PICK stop \in Stops : Reply(stop)
    BY <1>7
  <2>2. Say("assistant", stop) /\ turn.at = "model" /\ turn' \in Turns /\ UNCHANGED comp
    BY <1>1, <2>1, TurnsFit DEF Reply
  <2>3. QED
    BY <1>1, <1>2, <2>2, SayKeeps
<1>8. QED
  BY <1>3, <1>4, <1>5, <1>6, <1>7

\* A summary is asked for.
LEMMA AskedFor ==
  ASSUME NEW p, SummaryFits(p, Branch(mem.entries, mem.leaf)), mem.leaf \in Ids(mem.entries),
         Ids(Branch(mem.entries, mem.leaf)) \subseteq EntryId, mem.leaf \in EntryId,
         NEW retry \in BOOLEAN, comp' = Summarising(p, retry), turn'.at \in {"summary", "manual"},
         UNCHANGED mem
  PROVE  comp' \in Summaries /\ SummaryIsDue'
<1> DEFINE b == Branch(mem.entries, mem.leaf)
<1>1. comp' = [on |-> TRUE, aborted |-> FALSE, leaf |-> mem.leaf, covers |-> p.covers,
               first |-> p.first, retry |-> retry]
  BY DEF Summarising, NoSummary
<1>2. p.covers \subseteq Ids(b) /\ p.first \in Ids(b) \cup {None} /\ Ids(b) \subseteq EntryId
  BY DEF SummaryFits
<1>5. SummaryFits(p, b)
  OBVIOUS
<1>6. b = Branch(mem.entries, mem.leaf)
  OBVIOUS
<1> HIDE DEF b
<1>3. comp' \in Summaries
  BY <1>1, <1>2 DEF Summaries
<1>4. SummaryFits(comp', b)
  BY <1>1, <1>5 DEF SummaryFits
<1>7. comp'.leaf = mem.leaf
  BY <1>1
<1>8. QED
  BY <1>3, <1>4, <1>6, <1>7 DEF SummaryIsDue

\* What Prepare and PreparePivot propose fits the active branch.
LEMMA ProposalsFit ==
  ASSUME IInv, BInv, mem.open, NEW p, p.some,
         p = Prepare(ActiveBranch) \/ p = PreparePivot(ActiveBranch)
  PROVE  /\ SummaryFits(p, Branch(mem.entries, mem.leaf)) /\ mem.leaf \in Ids(mem.entries)
         /\ Ids(Branch(mem.entries, mem.leaf)) \subseteq EntryId /\ mem.leaf \in EntryId
<1> DEFINE b == Branch(mem.entries, mem.leaf)
<1>1. /\ BranchSound(b) /\ Ids(b) \subseteq EntryId
      /\ b # <<>> => mem.leaf \in Ids(mem.entries)
  BY ActiveBranchIs DEF IInv, BInv
<1>2. PICK B : b \in Seq(EntryOf(B)) /\ Distinct(b) /\ LastFits(b)
  BY <1>1 DEF BranchSound
<1>3. p = Prepare(b) \/ p = PreparePivot(b)
  BY DEF ActiveBranch
<1>4. p.some
  OBVIOUS
<1> HIDE DEF b
<1>5. SummaryFits(p, b) /\ b # <<>>
  BY ONLY <1>2, <1>3, <1>4, PrepareFits, PivotFits
<1>6. mem.leaf \in Ids(mem.entries)
  BY <1>1, <1>5
<1>7. mem.leaf \in EntryId
  <2>1. PICK C : mem.entries \in Seq(EntryOf(C))
    BY DEF IInv, Fine, Holds, MemoryOf
  <2>2. QED
    BY <1>6, <2>1, IdsFit
<1>8. QED
  BY <1>1, <1>5, <1>6, <1>7 DEF b

\* No summary is being written.
LEMMA NoSummaryFits == NoSummary \in Summaries /\ ~NoSummary.on
BY DEF NoSummary, Summaries

\* A turn is over.
LEMMA SettlesKeeps ==
  ASSUME IInv, IInv', BInv, NEW outcome, Settles(outcome)
  PROVE  BInv'
<1>1. turn.at = "settling" /\ UNCHANGED <<mem, disk>>
  BY DEF Settles
<1>2. mem.open /\ ~comp.on /\ turn \in Turns /\ comp \in Summaries /\ Shows(ctx, mem)
  BY <1>1 DEF IInv, WorkFits, BInv, SummaryIsDue
<1> DEFINE p == Prepare(ActiveBranch)
<1>3. /\ ctx' = ctx \/ (ctx # <<>> /\ ctx' = Front(ctx))
      /\ \/ /\ p.some /\ turn' = [Idle EXCEPT !.at = "summary"]
            /\ \E retry \in BOOLEAN : comp' = Summarising(p, retry)
         \/ comp' = comp /\ turn' = Idle
  <2> DEFINE last == ctx[Len(ctx)]
             asks == ~turn.retried /\ ~HasActive /\ ctx # <<>> /\ last.type = "assistant"
             overflow == asks /\ last.stop = "overflow"
             full == /\ asks
                     /\ \/ last.stop = "full"
                        \/ last.stop = "broken" /\ outcome = "full"
  <2>1. /\ ctx' = IF overflow THEN Front(ctx) ELSE ctx
        /\ IF (overflow \/ full) /\ p.some
           THEN comp' = Summarising(p, overflow) /\ turn' = [Idle EXCEPT !.at = "summary"]
           ELSE comp' = comp /\ turn' = Idle
    BY DEF Settles
  <2>2. overflow => ctx # <<>>
    OBVIOUS
  <2>3. overflow \in BOOLEAN
    OBVIOUS
  <2> HIDE DEF p, overflow, full
  <2>4. QED
    BY <2>1, <2>2, <2>3
<1> HIDE DEF p
<1>4. turn' \in Turns
  BY <1>2, <1>3, TurnsFit
<1>5. Shows(ctx', mem)
  <2>1. PICK S : ctx \in Seq(S) /\ Follows(ctx, BuildContext(Branch(mem.entries, mem.leaf)))
    BY <1>2 DEF Shows
  <2>2. ctx # <<>> => Shows(Front(ctx), mem)
    BY <2>1, FollowsWithout DEF Shows
  <2>3. QED
    BY <1>2, <1>3, <2>2
<1>6. comp' \in Summaries /\ SummaryIsDue'
  <2>1. CASE /\ p.some /\ turn' = [Idle EXCEPT !.at = "summary"]
             /\ \E retry \in BOOLEAN : comp' = Summarising(p, retry)
    <3>1. turn'.at \in {"summary", "manual"}
      BY <1>2, <2>1, TurnsFit
    <3>2. /\ SummaryFits(p, Branch(mem.entries, mem.leaf)) /\ mem.leaf \in Ids(mem.entries)
          /\ Ids(Branch(mem.entries, mem.leaf)) \subseteq EntryId /\ mem.leaf \in EntryId
      BY <1>2, <2>1, ProposalsFit DEF p
    <3>3. QED
      BY <1>1, <2>1, <3>1, <3>2, AskedFor
  <2>2. CASE comp' = comp
    BY <1>2, <2>2 DEF SummaryIsDue
  <2>3. QED
    BY <1>3, <2>1, <2>2
<1>7. QED
  BY <1>1, <1>2, <1>4, <1>5, <1>6, SameKeeps

\* /compact, or a pivot.
LEMMA CompactKeeps ==
  ASSUME IInv, IInv', BInv, NEW p, Compact(p),
         p = Prepare(ActiveBranch) \/ p = PreparePivot(ActiveBranch)
  PROVE  BInv'
<1>1. /\ mem.open /\ p.some /\ comp' = Summarising(p, FALSE)
      /\ turn' = [Idle EXCEPT !.at = "manual"] /\ UNCHANGED <<mem, disk, ctx>>
  BY DEF Compact
<1>2. turn' \in Turns /\ turn'.at \in {"summary", "manual"}
  BY <1>1, TurnsFit DEF BInv
<1>3. /\ SummaryFits(p, Branch(mem.entries, mem.leaf)) /\ mem.leaf \in Ids(mem.entries)
      /\ Ids(Branch(mem.entries, mem.leaf)) \subseteq EntryId /\ mem.leaf \in EntryId
  BY <1>1, ProposalsFit
<1>4. comp' \in Summaries /\ SummaryIsDue'
  BY <1>1, <1>2, <1>3, AskedFor
<1>5. Shows(ctx', mem)
  BY <1>1 DEF BInv
<1>6. QED
  BY <1>1, <1>2, <1>4, <1>5, SameKeeps

\* The transcript is built again from the branch.
LEMMA RebuiltKeeps ==
  ASSUME IInv', mem'.open, Fitting(mem'.entries), turn' \in Turns, comp' \in Summaries,
         SummaryIsDue', ctx' = BuildContext(Branch(mem'.entries, mem'.leaf))
  PROVE  BInv'
<1>1. BranchSound(Branch(mem'.entries, mem'.leaf))
  BY BranchesSound DEF IInv
<1>2. Shows(ctx', mem')
  BY <1>1, ShowsRebuilt
<1>3. QED
  BY <1>2, OpenKeeps

\* A summary is applied to the branch it was asked for.
LEMMA SummaryKeeps ==
  ASSUME IInv, IInv', BInv, SummaryApplies
  PROVE  BInv'
<1> DEFINE body == Says(None, comp.covers, comp.first, None, None)
<1>1. PICK o \in FlushedThenAppended(mem, disk, "compaction", body) :
        /\ mem' = o.mem /\ disk' = o.disk
        /\ ctx' = IF o.ok THEN BuildContext(Branch(o.mem.entries, o.mem.leaf)) ELSE ctx
        /\ turn' = Resumes(o.ok)
  BY DEF SummaryApplies, Becomes
<1>2. /\ comp.on /\ mem.leaf = comp.leaf /\ Room(mem.entries) /\ comp' = NoSummary
      /\ mem.open /\ Fine(mem, disk) /\ turn \in Turns
  BY DEF SummaryApplies, HasRoom, IInv, WorkFits, BInv
<1>3. comp' \in Summaries /\ SummaryIsDue'
  BY <1>2, NoSummaryFits DEF SummaryIsDue
<1> DEFINE x == NewEntry(mem, "compaction", None, body)
           b == Branch(mem.entries, mem.leaf)
<1>4. x = NewEntry(mem, "compaction", None, body) /\ "compaction" \in Types
      /\ "compaction" # "leaf"
  BY DEF Types
<1>5. body.covers = comp.covers /\ body.first = comp.first
  BY DEF Says
<1>6. SummaryFits(comp, b)
  BY <1>2 DEF BInv, SummaryIsDue
<1> HIDE DEF body, x, b
<1>7. SummaryFits(body, b)
  BY <1>5, <1>6 DEF SummaryFits
<1>8. x.type = "compaction" /\ x.body = body
  BY <1>4, ParentIs
<1>9. Outcome(mem, x, x.id, o)
  BY <1>1, <1>2, <1>4, ForcedTakes
<1>10. Adds(mem, disk, body, o.mem, o.disk)
  BY <1>1, <1>2, <1>4, ForcedAdds
<1>11. mem'.open
  BY <1>1, <1>2, <1>10 DEF Adds
<1>12. BranchSound(b) /\ LeafIsThere(mem) /\ Fitting(mem.entries)
  BY <1>2, BranchesSound DEF BInv, b
<1>13. CASE o.ok
  <2>1. Takes(mem, x, mem')
    BY <1>1, <1>9, <1>13 DEF Outcome
  <2>2. Continues(mem, x, mem')
    BY <1>7, <1>8, <1>12, <2>1, TakingContinues DEF b
  <2>3. Fitting(mem'.entries)
    BY <2>2 DEF Continues
  <2>4. turn' \in Turns /\ ctx' = BuildContext(Branch(mem'.entries, mem'.leaf))
    BY <1>1, <1>2, <1>13, TurnsFit
  <2>5. QED
    BY <1>3, <1>11, <2>3, <2>4, RebuiltKeeps
<1>14. CASE ~o.ok
  <2>1. mem'.entries = mem.entries /\ mem'.leaf = mem.leaf
    BY <1>1, <1>9, <1>14 DEF Outcome
  <2>2. turn' \in Turns /\ Shows(ctx', mem)
    BY <1>1, <1>2, <1>14, TurnsFit DEF BInv, Resumes
  <2>3. QED
    BY <1>2, <1>3, <1>11, <2>1, <2>2, SameKeeps
<1>15. QED
  BY <1>13, <1>14

\* A summary is given up, the run is stopped, a !command starts, the transcript
\* is cleared.
LEMMA AsideKeeps ==
  ASSUME IInv, IInv', BInv, SummaryIsLost \/ Abort \/ BashStarts \/ Clear
  PROVE  BInv'
<1>1. /\ turn \in Turns /\ comp \in Summaries /\ SummaryIsDue
      /\ mem.open => Shows(ctx, mem)
  BY DEF BInv
<1>2. CASE SummaryIsLost
  <2>1. comp' = NoSummary /\ turn' = Idle /\ UNCHANGED <<mem, disk, ctx>>
    BY <1>2 DEF SummaryIsLost
  <2>2. turn' \in Turns /\ comp' \in Summaries /\ SummaryIsDue'
    BY <1>1, <2>1, TurnsFit, NoSummaryFits DEF SummaryIsDue
  <2>3. QED
    BY <1>1, <2>1, <2>2, SameKeeps
<1>3. CASE Abort
  <2>1. /\ turn' = [turn EXCEPT !.aborted = TRUE] /\ UNCHANGED <<mem, disk, ctx>>
        /\ comp' = IF comp.on THEN [comp EXCEPT !.aborted = TRUE] ELSE comp
    BY <1>3 DEF Abort
  <2>2. turn' \in Turns /\ turn'.at = turn.at
    BY <1>1, <2>1, TurnsFit
  <2>3. /\ comp' \in Summaries
        /\ comp'.on => /\ comp.on /\ comp'.leaf = comp.leaf /\ comp'.covers = comp.covers
                       /\ comp'.first = comp.first
    BY <1>1, <2>1 DEF Summaries
  <2>4. SummaryIsDue'
    BY <1>1, <2>1, <2>2, <2>3, DueStays
  <2>5. QED
    BY <1>1, <2>1, <2>2, <2>3, <2>4, SameKeeps
<1>4. CASE BashStarts
  BY <1>4, QuietKeeps DEF BashStarts
<1>5. CASE Clear
  <2>1. ctx' = <<>> /\ UNCHANGED <<mem, disk, turn, comp>>
    BY <1>5 DEF Clear
  <2>2. Shows(ctx', mem)
    BY <2>1, NothingFollows DEF Shows
  <2>3. SummaryIsDue'
    BY <1>1, <2>1 DEF SummaryIsDue
  <2>4. QED
    BY <1>1, <2>1, <2>2, <2>3, SameKeeps
<1>6. QED
  BY <1>2, <1>3, <1>4, <1>5

\* Another leaf becomes active.
LEMMA TreeKeeps ==
  ASSUME IInv, IInv', BInv, NEW id, Tree(id)
  PROVE  BInv'
<1>1. /\ mem.open /\ Room(mem.entries) /\ id \in Ids(mem.entries) /\ Fine(mem, disk)
      /\ UNCHANGED <<turn, comp>>
  BY DEF Tree, HasRoom, IInv
<1>2. PICK o \in LeafSet(mem, disk, id) :
        /\ mem' = o.mem /\ disk' = o.disk
        /\ ctx' = IF o.ok THEN BuildContext(Branch(o.mem.entries, o.mem.leaf)) ELSE ctx
  BY DEF Tree, Becomes
<1> DEFINE x == NewEntry(mem, "leaf", id, NoBody)
<1>3. x = NewEntry(mem, "leaf", id, NoBody)
  OBVIOUS
<1> HIDE DEF x
<1>4. Outcome(mem, x, id, o)
  BY <1>1, <1>2, <1>3, LeafSetTakes
<1>5. Adds(mem, disk, NoBody, o.mem, o.disk)
  BY <1>1, <1>2, LeafSetAdds
<1>6. mem'.open
  BY <1>1, <1>2, <1>5 DEF Adds
<1>7. x.type = "leaf" /\ x.target = id
  BY <1>3, ParentIs
<1>8. id # None
  <2>1. PICK C : mem.entries \in Seq(EntryOf(C))
    BY <1>1 DEF Fine, Holds, MemoryOf
  <2>2. QED
    BY <1>1, <2>1, IdsFit, IdAssumption
<1>9. Fitting(mem.entries) /\ LeafIsThere(mem)
  BY <1>1, BranchesSound DEF BInv
<1>10. turn' \in Turns /\ comp' \in Summaries /\ SummaryIsDue
  BY <1>1 DEF BInv
<1>11. CASE o.ok
  <2>1. Takes(mem, x, mem')
    BY <1>2, <1>4, <1>11 DEF Outcome
  <2>2. Continues(mem, x, mem')
    BY <1>7, <1>8, <1>9, <2>1, TakingContinues
  <2>3. Fitting(mem'.entries)
    BY <2>2 DEF Continues
  <2>4. SummaryIsDue'
    BY <1>1, <1>10, <2>2, DueStays
  <2>5. ctx' = BuildContext(Branch(mem'.entries, mem'.leaf))
    BY <1>2, <1>11
  <2>6. QED
    BY <1>6, <1>10, <2>3, <2>4, <2>5, RebuiltKeeps
<1>12. CASE ~o.ok
  <2>1. mem'.entries = mem.entries /\ mem'.leaf = mem.leaf
    BY <1>2, <1>4, <1>12 DEF Outcome
  <2>2. SummaryIsDue'
    BY <1>1, <1>10, <2>1, DueStays
  <2>3. Shows(ctx', mem)
    BY <1>1, <1>2, <1>12 DEF BInv
  <2>4. QED
    BY <1>1, <1>6, <1>10, <2>1, <2>2, <2>3, SameKeeps
<1>13. QED
  BY <1>11, <1>12

\* A session without entries.
LEMMA FreshKeeps ==
  ASSUME IInv', BInv, mem' = Created, ~comp'.on, turn' \in Turns, comp' \in Summaries,
         NEW S, ctx' \in Seq(S),
         ctx' = <<>> \/ ctx' = BuildContext(Branch(mem'.entries, mem'.leaf))
  PROVE  BInv'
<1>1. mem'.open /\ mem'.entries = <<>>
  BY ClosedFits DEF Created, Closed
<1>2. Fitting(mem'.entries) /\ SummaryIsDue'
  BY <1>1, NothingFits DEF SummaryIsDue
<1>3. CASE ctx' = <<>>
  <2>1. Shows(ctx', mem')
    BY <1>3, NothingFollows DEF Shows
  <2>2. QED
    BY <1>1, <1>2, <2>1, OpenKeeps
<1>4. CASE ctx' = BuildContext(Branch(mem'.entries, mem'.leaf))
  BY <1>1, <1>2, <1>4, RebuiltKeeps
<1>5. QED
  BY <1>3, <1>4

\* The session is left for a new one.
LEMMA NewSessionKeeps ==
  ASSUME IInv, IInv', BInv, NewSession
  PROVE  BInv'
<1>1. PICK f \in Flushed(mem, disk) :
        \/ mem' = Created /\ ctx' = <<>>
        \/ mem' = f.mem /\ disk' = f.disk /\ UNCHANGED ctx
  BY DEF NewSession, Becomes
<1>2. mem.open /\ turn = Idle /\ UNCHANGED <<turn, comp>> /\ Fine(mem, disk)
  BY DEF NewSession, IInv
<1>3. turn' \in Turns /\ comp' \in Summaries /\ ~comp'.on
  BY <1>2 DEF BInv, SummaryIsDue, Idle
<1>4. CASE mem' = Created /\ ctx' = <<>>
  BY <1>3, <1>4, FreshKeeps
<1>5. CASE mem' = f.mem /\ disk' = f.disk /\ UNCHANGED ctx
  <2>1. mem'.entries = mem.entries /\ mem'.leaf = mem.leaf
    BY <1>2, <1>5, FlushedLeaves
  <2>2. Adds(mem, disk, NoBody, f.mem, f.disk)
    BY <1>2, FlushedAdds
  <2>3. mem'.open
    BY <1>2, <1>5, <2>2 DEF Adds
  <2>4. SummaryIsDue' /\ Shows(ctx', mem)
    BY <1>2, <1>3, <1>5 DEF SummaryIsDue, BInv
  <2>5. QED
    BY <1>2, <1>3, <2>1, <2>3, <2>4, SameKeeps
<1>6. QED
  BY <1>1, <1>4, <1>5

\* A session is opened again.
LEMMA ReopenKeeps ==
  ASSUME IInv, IInv', BInv, Reopen
  PROVE  BInv'
<1>1. /\ ~mem.open /\ UNCHANGED <<turn, comp>>
      /\ ctx' = BuildContext(Branch(mem'.entries, mem'.leaf))
  BY DEF Reopen, Open
<1>2. turn' \in Turns /\ comp' \in Summaries /\ ~comp'.on /\ SummaryIsDue'
  BY <1>1 DEF BInv, IInv, WorkFits, SummaryIsDue
<1>3. mem'.open /\ Fitting(mem'.entries)
  <2>1. CASE Open
    <3>1. mem' = Opened(disk) /\ disk.header = "ok"
      BY <2>1 DEF Open
    <3>2. mem'.entries = disk.lines /\ mem'.open
      BY <3>1, OpeningIsFine DEF IInv
    <3>3. QED
      BY <3>2 DEF BInv
  <2>2. CASE Create
    BY <2>2, ClosedFits, NothingFits DEF Create, Created, Closed
  <2>3. QED
    BY <2>1, <2>2 DEF Reopen
<1>4. QED
  BY <1>1, <1>2, <1>3, RebuiltKeeps

\* A summary that is being written when the process dies is the one that is due.
LEMMA WrittenSummaryFits ==
  ASSUME BInv, NEW w \in Writing, w[1] = "compaction"
  PROVE  SummaryFits(w[2], Branch(mem.entries, mem.leaf))
<1>1. /\ comp.on /\ comp.leaf = mem.leaf
      /\ w = <<"compaction", Says(None, comp.covers, comp.first, None, None)>>
  <2>1. w \notin {<<"task", TaskBody(t, "running")>> :
                    t \in {u \in Task : Owns(u) /\ Unfinished(u)}}
    OBVIOUS
  <2>2. w \in CASE turn.at = "model" -> {<<"assistant", Says("stop", {}, None, None, None)>>}
                [] turn.at = "tools" -> {<<"toolResult", Silent>>}
                [] comp.on /\ comp.leaf = mem.leaf ->
                     {<<"compaction", Says(None, comp.covers, comp.first, None, None)>>}
                [] OTHER -> {<<"user", Silent>>, <<"plan", Silent>>}
    BY <2>1 DEF Writing
  <2>3. QED
    BY <2>2
<1>2. w[2].covers = comp.covers /\ w[2].first = comp.first
  BY <1>1 DEF Says
<1> DEFINE b == Branch(mem.entries, mem.leaf)
<1>3. SummaryFits(comp, b)
  BY <1>1 DEF BInv, SummaryIsDue
<1> HIDE DEF b
<1>4. SummaryFits(w[2], b)
  BY <1>2, <1>3 DEF SummaryFits
<1>5. QED
  BY <1>4 DEF b

\* What a process that dies leaves in the file fits.
LEMMA InterruptedFits ==
  ASSUME IInv, BInv, mem.open, NEW w \in Writing, Room(mem.entries),
         NEW o \in Appended(mem, disk, w[1], w[2])
  PROVE  Fitting(o.disk.lines)
<1> DEFINE type == w[1]
           body == w[2]
           x == NewEntry(mem, type, None, body)
<1>1. /\ Fine(mem, disk) /\ Fitting(mem.entries) /\ type \in Types /\ type # "leaf"
      /\ type = "compaction" => SummaryFits(body, Branch(mem.entries, mem.leaf))
  BY WrittenSummaryFits, WritingFits DEF IInv, BInv
<1>2. o \in Appended(mem, disk, type, body) /\ x = NewEntry(mem, type, None, body)
  OBVIOUS
<1> HIDE DEF type, body, x
<1>3. Outcome(mem, x, x.id, o)
  BY <1>1, <1>2, AppendedTakes
<1>4. Adds(mem, disk, body, o.mem, o.disk)
  BY <1>1, <1>2, AppendedAdds
<1>5. x.type = type /\ x.body = body
  BY <1>2, ParentIs
<1>6. LeafIsThere(mem)
  BY <1>1, BranchesSound
<1>7. Fitting(o.mem.entries)
  <2>1. CASE o.ok
    <3>1. Takes(mem, x, o.mem)
      BY <1>3, <2>1 DEF Outcome
    <3>2. Continues(mem, x, o.mem)
      BY <1>1, <1>5, <1>6, <3>1, TakingContinues
    <3>3. QED
      BY <3>2 DEF Continues
  <2>2. CASE ~o.ok
    BY <1>1, <1>3, <2>2 DEF Outcome
  <2>3. QED
    BY <2>1, <2>2
<1>8. Fine(o.mem, o.disk) /\ o.mem.open
  BY <1>4 DEF Adds
<1>9. QED
  BY <1>7, <1>8, FileFits

\* The process dies, in a write or not, or the power goes.
LEMMA CrashKeeps ==
  ASSUME IInv, BInv, Crash
  PROVE  BInv'
<1>1. mem' = Closed /\ turn' = Idle /\ comp' = NoSummary /\ mem.open
  BY DEF Crash, Die, DieWriting, LosePower, Forgotten
<1>2. /\ turn' \in Turns /\ comp' \in Summaries /\ SummaryIsDue' /\ ~mem'.open
      /\ Fitting(mem'.entries)
  BY <1>1, ClosedFits, NothingFits, NoSummaryFits
     DEF SummaryIsDue, Closed, Turns, Idle
<1>3. ASSUME Fitting(disk'.lines) PROVE BInv'
  BY <1>2, <1>3 DEF BInv
<1>4. Fine(mem, disk) /\ Fitting(disk.lines)
  BY DEF IInv, BInv
<1>5. CASE Die
  BY <1>3, <1>4, <1>5 DEF Die
<1>6. ASSUME NEW w \in Writing, DieWriting(w[1], w[2]) PROVE BInv'
  <2>1. PICK o \in Appended(mem, disk, w[1], w[2]), torn \in BOOLEAN :
          disk' = [o.disk EXCEPT !.synced = disk.synced,
                                 !.torn = o.disk.torn \/ (torn /\ o.disk.header = "ok")]
    BY <1>6 DEF DieWriting
  <2>2. Room(mem.entries)
    BY <1>6 DEF DieWriting
  <2>3. Fitting(o.disk.lines)
    BY <1>1, <2>2, InterruptedFits
  <2>4. disk'.lines = o.disk.lines
    BY <2>1
  <2>5. QED
    BY <1>3, <2>3, <2>4
<1>7. CASE LosePower
  <2>1. ASSUME NEW k \in 0 .. Len(disk.lines), NEW torn \in BOOLEAN,
               disk' = [disk EXCEPT !.lines = SubSeq(disk.lines, 1, k), !.torn = torn,
                                    !.scar = IF disk.scar > k THEN -1 ELSE disk.scar]
        PROVE  BInv'
    <3>1. PICK B : Holds(B, mem, disk)
      BY <1>4 DEF Fine
    <3>2. disk \in DiskOf(B) /\ disk.lines \in Seq(EntryOf(B)) /\ Sound(disk.lines)
      BY <3>1 DEF Holds, DiskOf
    <3> DEFINE s == disk.lines
               t == disk'.lines
               scar == IF disk.scar > k THEN -1 ELSE disk.scar
    <3>3. disk' = [disk EXCEPT !.lines = SubSeq(disk.lines, 1, k), !.torn = torn,
                               !.scar = scar]
      BY <2>1
    <3> HIDE DEF scar
    <3>4. t = SubSeq(s, 1, k)
      BY <3>2, <3>3 DEF DiskOf
    <3>5. s \in Seq(EntryOf(B)) /\ Sound(s) /\ Fitting(s) /\ k \in Nat /\ k <= Len(s)
      BY <1>4, <3>2
    <3> HIDE DEF s, t
    <3>6. Fitting(t)
      BY ONLY <3>4, <3>5, FittingBefore
    <3>7. QED
      BY <1>3, <3>6 DEF t
  <2>2. ASSUME NEW h \in {"absent", "torn"}, disk' = [NoFile(disk.file) EXCEPT !.header = h]
        PROVE  BInv'
    <3>1. disk'.lines = <<>>
      BY <2>2 DEF NoFile
    <3>2. QED
      BY <1>3, <3>1, NothingFits
  <2>3. QED
    BY <1>7, <2>1, <2>2 DEF LosePower
<1>8. QED
  BY <1>5, <1>6, <1>7 DEF Crash

\* Every session starts with a transcript and summaries that fit.
LEMMA InitKeeps ==
  ASSUME Init
  PROVE  BInv
<1>1. IInv
  BY InitFits
<1>2. /\ ctx = BuildContext(Branch(mem.entries, mem.leaf)) /\ turn = Idle /\ comp = NoSummary
      /\ \E h \in Histories :
           \/ disk = FileOf(h) /\ mem = Opened(disk)
           \/ disk = NoFile(1) /\ mem = Forked(Opened(FileOf(h)))
  BY DEF Init, ActiveBranch
<1>3. mem.open /\ Fitting(mem.entries)
  <2>1. ASSUME NEW h \in Histories, disk = FileOf(h), mem = Opened(disk)
        PROVE  mem.open /\ Fitting(mem.entries)
    <3>1. disk \in DiskOf(Body) /\ disk.lines = h.lines /\ disk.header = "ok" /\ SyncedFits(disk)
      BY <2>1, FilesFit
    <3>2. Sound(disk.lines)
      BY <3>1, HistoryAssumption
    <3>3. Fine(Closed, disk)
      BY <3>1, <3>2, ClosingIsFine, IdAssumption
    <3>4. mem.open /\ mem.entries = disk.lines
      BY <2>1, <3>1, <3>3, OpeningIsFine
    <3>5. SummariesFit(h.lines) /\ LeavesFit(h.lines)
      BY SummaryAssumption
    <3>6. QED
      BY <3>1, <3>4, <3>5 DEF Fitting
  <2>2. ASSUME NEW h \in Histories, disk = NoFile(1), mem = Forked(Opened(FileOf(h)))
        PROVE  mem.open /\ Fitting(mem.entries)
    <3> DEFINE f == Forked(Opened([NoFile(0) EXCEPT !.lines = h.lines]))
    <3>1. mem = f
      BY <2>2, ForksAlike
    <3>2. SummariesFit(f.entries) /\ LeavesFit(f.entries)
      BY SummaryAssumption
    <3> HIDE DEF f
    <3>3. QED
      BY <2>2, <3>1, <3>2, ForkingIsFine DEF Fitting
  <2>3. QED
    BY <1>2, <2>1, <2>2
<1>4. BranchSound(Branch(mem.entries, mem.leaf))
  BY <1>1, <1>3, BranchesSound DEF IInv
<1>5. Shows(ctx, mem)
  BY <1>2, <1>4, ShowsRebuilt
<1>6. Fitting(disk.lines)
  BY <1>1, <1>3, FileFits DEF IInv
<1>7. turn \in Turns /\ comp \in Summaries /\ SummaryIsDue
  BY <1>2, NoSummaryFits DEF SummaryIsDue, Turns, Idle
<1>8. QED
  BY <1>3, <1>5, <1>6, <1>7 DEF BInv

\* Every step keeps them fitting.
LEMMA NextFits ==
  ASSUME IInv, BInv, [Next]_vars
  PROVE  BInv'
<1>1. IInv'
  BY NextKeeps DEF Kept
<1>2. CASE UNCHANGED vars
  BY <1>1, <1>2, QuietKeeps DEF vars
<1>3. CASE Prompt \/ ToolResults \/ Retry \/ BashEnds \/ \E stop \in Stops : Reply(stop)
  BY <1>1, <1>3, PromptKeeps
<1>4. CASE SummaryIsLost \/ Abort \/ BashStarts \/ Clear
  BY <1>1, <1>4, AsideKeeps
<1>5. CASE \E outcome \in {"full", "fits"} : Settles(outcome)
  BY <1>1, <1>5, SettlesKeeps
<1>6. CASE Compact(Prepare(ActiveBranch)) \/ Compact(PreparePivot(ActiveBranch))
  BY <1>1, <1>6, CompactKeeps
<1>7. CASE SummaryApplies
  BY <1>1, <1>7, SummaryKeeps
<1>8. CASE \E t \in Task : Spawn(t) \/ TaskStarts(t) \/ TaskTurns(t) \/ TaskEnds(t)
                           \/ CancelTask(t)
  BY <1>1, <1>8, TaskKeeps
<1>9. CASE \E type \in {"settings", "plan"} : Records(type)
  BY <1>1, <1>9, RecordsKeeps
<1>10. CASE \E id \in EntryId : Tree(id)
  BY <1>1, <1>10, TreeKeeps
<1>11. CASE NewSession
  BY <1>1, <1>11, NewSessionKeeps
<1>12. CASE Crash
  BY <1>12, CrashKeeps
<1>13. CASE Reopen
  BY <1>1, <1>13, ReopenKeeps
<1>14. QED
  BY <1>2, <1>3, <1>4, <1>5, <1>6, <1>7, <1>8, <1>9, <1>10, <1>11, <1>12, <1>13 DEF Next

\* Summaries, the transcript and the branch fit together, whatever happens.
THEOREM BranchInvariance == Spec => []BInv
<1>1. Init => BInv
  BY InitKeeps
<1>2. IInv /\ BInv /\ [Next]_vars => BInv'
  BY NextFits
<1>3. QED
  BY <1>1, <1>2, Invariance, PTL DEF Spec

\* A summary speaks for the branch it is on: it covers only what precedes it
\* there, every earlier message is covered or kept, and what is kept does not
\* begin with the result of a tool whose call is gone, also when the branch was
\* left, the process died or the user stopped it meanwhile (_perform_compaction).
THEOREM SummariesAlwaysFitTheirBranch == Spec => []SummariesFitTheirBranch
<1>1. BInv => SummariesFitTheirBranch
  BY DEF BInv, Fitting, SummariesFitTheirBranch
<1>2. QED
  BY <1>1, BranchInvariance, PTL

\* The transcript shows the model only what the active branch holds, in its
\* order, and nothing a summary replaced (load_messages after a compaction,
\* /tree, /new, opening).
THEOREM LiveContextIsAlwaysBranch == Spec => []LiveContextIsBranch
<1>1. IInv /\ BInv => LiveContextIsBranch
  <2>1. SUFFICES ASSUME IInv, BInv, mem.open
                 PROVE  LiveContextIsBranch
    BY DEF LiveContextIsBranch
  <2> DEFINE context == BuildContext(ActiveBranch)
             written == {i \in DOMAIN ctx : ctx[i].id # None}
             Place(i) == CHOOSE k \in DOMAIN context : context[k] = ctx[i]
  <2>2. BranchSound(ActiveBranch) /\ Shows(ctx, mem)
    BY <2>1, BranchesSound DEF IInv, BInv, ActiveBranch
  <2>3. PICK Y : context \in Seq(Y)
    BY <2>2, ContextSequence
  <2>4. Distinct(context)
    BY <2>2, ContextSequence
  <2>5. Follows(ctx, context)
    BY <2>2 DEF Shows, ActiveBranch
  <2> HIDE DEF context
  <2>6. ASSUME NEW i \in written PROVE ctx[i] \in Range(context)
    BY <2>3, <2>5 DEF Follows, Range
  <2>7. ASSUME NEW i \in DOMAIN ctx, NEW k \in 1 .. Len(context), context[k] = ctx[i]
        PROVE  Place(i) = k
    BY <2>3, <2>4, <2>7 DEF Distinct
  <2>8. ASSUME NEW i \in written, NEW j \in written, i < j
        PROVE  Place(i) < Place(j)
    <3>1. PICK k, l \in 1 .. Len(context) : k < l /\ context[k] = ctx[i] /\ context[l] = ctx[j]
      BY <2>5, <2>8 DEF Follows
    <3>2. Place(i) = k /\ Place(j) = l
      BY <2>7, <3>1
    <3>3. QED
      BY <3>1, <3>2
  <2>9. QED
    BY <2>6, <2>8 DEF LiveContextIsBranch, context
<1>2. QED
  BY <1>1, Invariance, BranchInvariance, PTL
=============================================================================
