-------------------------- MODULE MCInteractiveMode --------------------------
(***************************************************************************)
(* InteractiveMode for TLC: the run and one subagent ask for approvals.    *)
(***************************************************************************)
EXTENDS InteractiveMode
MCSub == {"sub"}
=============================================================================
