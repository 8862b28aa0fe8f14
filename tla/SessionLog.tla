----------------------------- MODULE SessionLog -----------------------------
(***************************************************************************)
(* One session of the agent (core/session/session_manager.py, storage.py): *)
(* the entries a SessionManager holds in memory, the JSONL file they are   *)
(* appended to, the leaf that selects the active branch, and what failed   *)
(* writes, a dying process or a loss of power leave of them.               *)
(*                                                                         *)
(* A call of the SessionManager is one step.  A call that may fail half    *)
(* way is the set of its outcomes [ok, mem, disk].                         *)
(***************************************************************************)
EXTENDS Integers, Sequences, FiniteSets

CONSTANTS
  EntryId,   \* the ids entries are given
  Body,      \* what an entry says, for the components that write it
  NoBody,
  None

ASSUME IdAssumption == None \notin EntryId /\ NoBody \in Body

VARIABLES
  mem,   \* the SessionManager
  disk   \* its file

-----------------------------------------------------------------------------
(* Entries and branches *)

Types == {"user", "assistant", "toolResult", "bash", "settings",
          "plan", "compaction", "task", "leaf"}
\* append_entry_line waits for the disk after each of these
Durable == {"plan", "compaction", "task"}
\* types that only the current format knows
CurrentOnly == {"plan"}

Entry == [id : EntryId, parent : EntryId \cup {None}, type : Types,
          target : EntryId \cup {None}, body : Body]

Ids(entries) == {entries[i].id : i \in DOMAIN entries}
Room(entries) == Ids(entries) # EntryId
NextEntryId(entries) == CHOOSE i \in EntryId : i \notin Ids(entries)

\* The leaf a reopened file continues from: the last entry decides
ComputeLeafId(entries) ==
  IF entries = <<>> THEN None
  ELSE LET e == entries[Len(entries)]
       IN IF e.type = "leaf" THEN e.target ELSE e.id

IndexOf(entries, id) == CHOOSE i \in DOMAIN entries : entries[i].id = id

\* The ids from the entry up to the root
Ancestry(entries, id) ==
  LET up[i \in 0 .. Len(entries)] ==
        IF i = 0 THEN {}
        ELSE {entries[i].id} \cup
             up[IF entries[i].parent \in Ids(entries)
                THEN IndexOf(entries, entries[i].parent) ELSE 0]
  IN up[IndexOf(entries, id)]

\* The elements of s at the positions in S, in their order
Picked(s, S) ==
  LET upTo[n \in 0 .. Len(s)] ==
        IF n = 0 THEN <<>>
        ELSE IF n \in S THEN Append(upTo[n - 1], s[n]) ELSE upTo[n - 1]
  IN upTo[Len(s)]

\* The active branch; everything, if there is no leaf
Branch(entries, leaf) ==
  IF leaf \notin Ids(entries) THEN entries
  ELSE LET on == Ancestry(entries, leaf)
       IN Picked(entries, {i \in DOMAIN entries : entries[i].id \in on})

-----------------------------------------------------------------------------
(* The file: its header, the readable lines, whether it ends in a line cut *)
(* short, which lines are known to survive a loss of power (the header is  *)
(* line 0), and how many lines precede the last unreadable one (-1: none)  *)

Versions == {"legacy", "current"}
NoFile(n) == [file |-> n, header |-> "absent", version |-> "current",
              lines |-> <<>>, torn |-> FALSE, synced |-> {}, scar |-> -1]
Disk == [file : Nat, header : {"absent", "torn", "ok"}, version : Versions,
         lines : Seq(Entry), torn : BOOLEAN, synced : SUBSET Nat,
         scar : Nat \cup {-1}]

FSynced(d) == [d EXCEPT !.synced = 0 .. Len(d.lines)]

\* Lines are appended one by one: a new line never merges with one cut
\* short, and some force all that precedes them to the disk
WithLines(d, es) ==
  LET n == Len(d.lines) IN
  IF es = <<>> THEN d
  ELSE [d EXCEPT !.lines = @ \o es, !.torn = FALSE,
                 !.scar = IF d.torn THEN n ELSE @,
                 !.synced = @ \cup {j \in 0 .. n + Len(es) :
                    \E i \in DOMAIN es : es[i].type \in Durable /\ j <= n + i}]

(* The manager: the entries in memory, the leaf, whether the file has been *)
(* created, how many entries are in it, the format it believes in, and     *)
(* whether it read damage that the user has not dealt with                 *)

Closed == [open |-> FALSE, entries |-> <<>>, leaf |-> None, flushed |-> FALSE,
           saved |-> 0, version |-> "current", blocked |-> FALSE]
Created == [Closed EXCEPT !.open = TRUE]
Memory == [open : BOOLEAN, entries : Seq(Entry), leaf : EntryId \cup {None},
           flushed : BOOLEAN, saved : Nat, version : Versions,
           blocked : BOOLEAN]

\* Opening a file reads what is readable; a damaged line blocks the session
\* until an entry after it takes the user out of the damaged state
Opened(d) ==
  [Created EXCEPT !.entries = d.lines, !.leaf = ComputeLeafId(d.lines),
                  !.flushed = TRUE, !.saved = Len(d.lines),
                  !.version = d.version,
                  !.blocked = \/ d.torn
                              \/ /\ d.scar >= 0
                                 /\ \A i \in DOMAIN d.lines :
                                      i > d.scar => d.lines[i].type # "plan"]

Success(m, d) == [ok |-> TRUE, mem |-> m, disk |-> d]
Failure(m, d) == [ok |-> FALSE, mem |-> m, disk |-> d]

\* Mutant: the lines of the buffer count as saved before they are written
PersistCountedEarly(m, d) ==
  LET d0 == IF m.flushed THEN d
            ELSE [d EXCEPT !.header = "ok", !.version = m.version]
  IN {[ok |-> k = Len(m.entries) - m.saved,
       mem |-> [m EXCEPT !.flushed = TRUE, !.saved = Len(m.entries)],
       disk |-> WithLines(d0, SubSeq(m.entries, m.saved + 1, m.saved + k))] :
        k \in 0 .. Len(m.entries) - m.saved}

\* _persist_buffer: create the file with its header, then append entry after
\* entry; it may fail before any of these, or half way through the header
Persist(m, d) ==
  IF ~m.flushed /\ d.header # "absent" THEN {Failure(m, d)}
  ELSE LET pending == Len(m.entries) - m.saved
           d0 == IF m.flushed THEN d
                 ELSE [d EXCEPT !.header = "ok", !.version = m.version]
           Wrote(k) ==
             [ok |-> k = pending,
              mem |-> [m EXCEPT !.flushed = TRUE, !.saved = @ + k],
              disk |-> WithLines(d0, SubSeq(m.entries, m.saved + 1, m.saved + k))]
       IN {Wrote(k) : k \in 0 .. pending} \cup
          IF m.flushed THEN {}
          ELSE {Failure(m, d), Failure(m, [d EXCEPT !.header = "torn"])}

NewEntry(m, type, target, body) ==
  [id |-> NextEntryId(m.entries), type |-> type, target |-> target,
   body |-> body,
   parent |-> IF m.leaf # None THEN m.leaf
              ELSE IF m.entries = <<>> THEN None
              ELSE m.entries[Len(m.entries)].id]

\* _commit: buffered until the first assistant message, written through
\* afterwards; a failed append is taken back
Commit(m, d, e) ==
  LET m1 == [m EXCEPT !.entries = Append(@, e), !.leaf = e.id] IN
  IF ~m.flushed /\ e.type # "assistant" THEN {Success(m1, d)}
  ELSE {IF o.ok THEN o
        ELSE [o EXCEPT !.mem.entries = m.entries, !.mem.leaf = m.leaf] :
          o \in Persist(m1, d)}

\* rewrite_header_line: a copy with the new header, forced to the disk,
\* replaces the file
Rewritten(d) == FSynced([d EXCEPT !.version = "current"])

\* _commit_v4: an old header is rewritten before the first newer entry; the
\* manager believes in the new format whether or not that worked
CommitCurrent(m, d, e) ==
  LET m1 == [m EXCEPT !.version = "current"] IN
  IF m.version = "legacy" /\ m.flushed /\ d.header = "ok"
  THEN {Failure(m1, d)} \cup Commit(m1, Rewritten(d), e)
  ELSE Commit(m1, d, e)

Appended(m, d, type, body) ==
  LET e == NewEntry(m, type, None, body) IN
  IF type \in CurrentOnly THEN CommitCurrent(m, d, e) ELSE Commit(m, d, e)

LeafSet(m, d, id) ==
  {IF o.ok THEN [o EXCEPT !.mem.leaf = id] ELSE o :
     o \in Commit(m, d, NewEntry(m, "leaf", id, NoBody))}

\* flush: write the buffer, then wait for the disk
Flushed(m, d) ==
  {IF o.ok THEN [o EXCEPT !.disk = FSynced(@)] ELSE o : o \in Persist(m, d)}
    \cup {[o EXCEPT !.ok = FALSE] : o \in Persist(m, d)}

\* What must be on disk before it takes effect is flushed around
FlushedThenAppended(m, d, type, body) ==
  UNION {IF f.ok THEN Appended(f.mem, f.disk, type, body) ELSE {f} :
           f \in Flushed(m, d)}

-----------------------------------------------------------------------------
(* Steps of one manager and its file *)

Becomes(o) == mem' = o.mem /\ disk' = o.disk

AppendEntry(type, body) ==
  /\ mem.open /\ Room(mem.entries)
  /\ \E o \in Appended(mem, disk, type, body) : Becomes(o)

SetLeafId(id) ==
  /\ mem.open /\ Room(mem.entries) /\ id \in Ids(mem.entries)
  /\ \E o \in LeafSet(mem, disk, id) : Becomes(o)

Flush == mem.open /\ \E o \in Flushed(mem, disk) : Becomes(o)

AppendDurably(type, body) ==
  /\ mem.open /\ Room(mem.entries)
  /\ \E o \in FlushedThenAppended(mem, disk, type, body) : Becomes(o)

Create == mem' = Created /\ disk' = NoFile(disk.file + 1)

\* What a new session that forks the active branch starts with
Forked(m) ==
  LET copied == Branch(m.entries, m.leaf) IN
  [Created EXCEPT !.entries = copied,
                  !.leaf = IF copied = <<>> THEN None
                           ELSE copied[Len(copied)].id]

Open ==
  /\ ~mem.open /\ disk.header = "ok"
  /\ mem' = Opened(disk) /\ UNCHANGED disk

\* The process dies: between two writes, or half way through one that was
\* about to append the entries es
Die ==
  /\ mem.open
  /\ mem' = Closed /\ UNCHANGED disk

DieWriting(type, body) ==
  /\ mem.open /\ Room(mem.entries)
  /\ mem' = Closed
  /\ \E o \in Appended(mem, disk, type, body), torn \in BOOLEAN :
       disk' = [o.disk EXCEPT !.synced = disk.synced,
                              !.torn = @ \/ (torn /\ o.disk.header = "ok")]

\* The machine loses power: lines that were not forced to the disk may be
\* missing or cut short, and the header with them
LosePower ==
  /\ mem' = Closed
  /\ \/ \E k \in 0 .. Len(disk.lines), torn \in BOOLEAN :
          /\ disk.header = "ok"
          /\ \A j \in disk.synced : j <= k
          /\ torn => k < Len(disk.lines) \/ disk.torn
          /\ disk' = [disk EXCEPT !.lines = SubSeq(@, 1, k), !.torn = torn,
                                  !.scar = IF @ > k THEN -1 ELSE @]
     \/ /\ disk.synced = {}
        /\ \E h \in {"absent", "torn"} :
             disk' = [NoFile(disk.file) EXCEPT !.header = h]

LogNext ==
  \/ \E type \in Types, body \in Body :
        AppendEntry(type, body) \/ AppendDurably(type, body) \/ DieWriting(type, body)
  \/ \E id \in EntryId : SetLeafId(id)
  \/ Flush \/ Create \/ Open \/ Die \/ LosePower

-----------------------------------------------------------------------------
(* What makes a session correct *)

LogTypeOK == mem \in Memory /\ disk \in Disk

\* Ids are unique, and parents and leaf targets precede their entries
Sound(entries) ==
  /\ \A i, j \in DOMAIN entries : entries[i].id = entries[j].id => i = j
  /\ \A i \in DOMAIN entries :
       LET earlier == {entries[j].id : j \in 1 .. i - 1} IN
       /\ entries[i].parent \in earlier \cup {None}
       /\ entries[i].target \in earlier \cup {None}

\* The file holds exactly the entries the manager believes saved, in their
\* order: a buffer that was written in part is resumed without loss or
\* repetition, whatever failed before (_persist_buffer, _commit)
DiskHoldsTheSaved ==
  mem.open =>
    /\ mem.saved <= Len(mem.entries)
    /\ disk.lines = SubSeq(mem.entries, 1, mem.saved)
    /\ mem.flushed => disk.header = "ok"

\* Closing and opening the file again continues on the branch that was
\* active: the leaf in memory is the one the entries say (set_leaf_id, open)
LeafIsComputed == mem.open => mem.leaf = ComputeLeafId(mem.entries)

\* The tree stays a tree in memory and in the file, and the two agree
SessionIsSound ==
  /\ Sound(mem.entries) /\ Sound(disk.lines)
  /\ DiskHoldsTheSaved /\ LeafIsComputed

\* What was forced to the disk stays there, whatever crashes: lines known to
\* be on it are still there, unchanged, while the file is the session's
\* (append_entry_line, flush)
ForcedLinesStay ==
  [][disk'.file = disk.file =>
       \A j \in disk.synced :
         /\ j \in disk'.synced /\ j <= Len(disk'.lines)
         /\ SubSeq(disk'.lines, 1, j) = SubSeq(disk.lines, 1, j)]_<<mem, disk>>
=============================================================================
