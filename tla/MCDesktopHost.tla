--------------------------- MODULE MCDesktopHost ---------------------------
(***************************************************************************)
(* DesktopHost for TLC: two sessions, one or two conversations.            *)
(***************************************************************************)
EXTENDS DesktopHost
CONSTANTS s1, s2, c1
MCSession == {s1, s2}
MCChat == {c1}
=============================================================================
