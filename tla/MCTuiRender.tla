---------------------------- MODULE MCTuiRender ----------------------------
(***************************************************************************)
(* TuiRender for TLC: a short line and one as wide as the wide terminal.   *)
(***************************************************************************)
EXTENDS TuiRender
MCLine == {<<"a", 1>>, <<"b", 3>>}
=============================================================================
