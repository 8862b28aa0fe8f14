---------------------------- MODULE MCBranchWork ----------------------------
(***************************************************************************)
(* Small sessions: a fresh one, one with a finished turn with a tool call, *)
(* and one that was compacted before; a reply fills what is kept verbatim. *)
(***************************************************************************)
EXTENDS BranchWork, TLC

CONSTANTS t1, none, MaxEntry, SecondFile

MCEntryId == 1 .. MaxEntry
MCWeight == [type \in Messages |-> IF type = "assistant" THEN 2 ELSE 1]

Line(id, type, body) ==
  [id |-> id, parent |-> IF id = 1 THEN none ELSE id - 1, type |-> type,
   target |-> none, body |-> body]
Said(id, type, stop) == Line(id, type, Says(stop, {}, none, none, none))

Turn == <<Said(1, "user", none), Said(2, "assistant", "stop")>>
Compacted == Append(Turn, Line(3, "compaction", Says(none, {1}, 2, none, none)))
MCHistories ==
  {[version |-> "legacy", lines |-> Turn], [version |-> "current", lines |-> Compacted]}
MCCapacity == <<MaxEntry, SecondFile>>
=============================================================================
