--------------------------- MODULE MCDesktopView ---------------------------
(***************************************************************************)
(* DesktopView for TLC: two sessions.                                      *)
(***************************************************************************)
EXTENDS DesktopView
CONSTANTS s1, s2
MCSession == {s1, s2}
=============================================================================
