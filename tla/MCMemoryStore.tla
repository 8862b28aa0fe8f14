---------------------------- MODULE MCMemoryStore ----------------------------
(***************************************************************************)
(* The user says a fact under one key and a wish that names no relation;   *)
(* a task implies another value of the fact, or corrects it, or implies    *)
(* the wish under the key: a job may reinforce what another key holds, and *)
(* find what it decided about gone, and so may the user.                   *)
(***************************************************************************)
EXTENDS MemoryStore

CONSTANTS k1, g, a, b, fact, wish, j1

M(key, value, kind, source) ==
  [key |-> key, value |-> value, kind |-> kind, source |-> source]
MCSaid == {M(k1, b, fact, "explicit_user"), M(g, b, wish, "explicit_user")}
MCMemories ==
  MCSaid \cup {M(k1, a, fact, "inferred_user"), M(k1, a, fact, "explicit_correction"),
              M(k1, b, wish, "inferred_user")}
=============================================================================
