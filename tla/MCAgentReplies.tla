--------------------------- MODULE MCAgentReplies ---------------------------
(***************************************************************************)
(* Small instances of AgentReplies.                                        *)
(***************************************************************************)
EXTENDS AgentReplies, TLC

CONSTANTS r1, w1, w2, d1, m1, q1

OneQueue == [r \in Runs |-> q1]
OneMac == [d \in Desktops |-> m1]
NoRuns == {}
=============================================================================
