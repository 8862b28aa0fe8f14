----------------------------- MODULE MCPlanMode -----------------------------
(***************************************************************************)
(* PlanMode for TLC: a session and one that follows it by /new, handoff or *)
(* restart.  Replies say something, ask between other calls, submit a plan *)
(* or develop; a user may go back to the third entry of a branch.          *)
(***************************************************************************)
EXTENDS PlanMode

CONSTANTS s1, s2

MCId == 1..MaxIds
MCSession == {s1, s2}
MCCalls == {1}
MCBranchPoints == {3}
MCBatches == {<<>>, <<"submit">>, <<"ask", "observe">>, <<"develop">>}
=============================================================================
