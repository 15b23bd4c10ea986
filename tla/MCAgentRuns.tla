---------------------------- MODULE MCAgentRuns ----------------------------
(***************************************************************************)
(* Small instances of AgentRuns.                                           *)
(***************************************************************************)
EXTENDS AgentRuns, TLC

CONSTANTS r1, r2, w1, w2, d1, d2, m1, m2, q1

\* Every request in one conversation.
OneQueue == [r \in Runs |-> q1]

\* Two claims of two Macs, or every claim of one Mac.
TwoMacs == (d1 :> m1) @@ (d2 :> m2)
OneMac == [d \in Desktops |-> m1]

NoRuns == {}
=============================================================================
