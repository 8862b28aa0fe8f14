----------------------------- MODULE MCAgentLoop -----------------------------
(***************************************************************************)
(* Two calls, made together or one of them alone, by at most MaxReplies    *)
(* replies.                                                                *)
(***************************************************************************)
EXTENDS AgentLoop, TLC

CONSTANTS c1, c2

MCBatches == {<<>>, <<c1, c2>>}
=============================================================================
