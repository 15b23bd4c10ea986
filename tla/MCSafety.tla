------------------------------ MODULE MCSafety ------------------------------
(***************************************************************************)
(* The services, a queue of requests and the turn of a Mac: what none of   *)
(* their steps may do, in one run.                                         *)
(***************************************************************************)
EXTENDS AgentRuns, DesktopLease, MCServices

CONSTANTS r1, r2, w1, d1, m1, q1

\* Every request in one conversation, every claim of one Mac.
OneQueue == [r \in Runs |-> q1]
OneMac == [d \in Desktops |-> m1]
NoRuns == {}

SafetyInit ==
  /\ focus \in {"queue", "turn"} \cup Services
  /\ Init /\ LeaseInit /\ ServicesInit

\* The restarts of the app, which only forget, are left to the progress run.
SafetyNext ==
  \/ /\ focus = "queue" /\ Next
     /\ UNCHANGED <<leaseVars, servicesVars>>
  \/ /\ focus = "turn" /\ LeaseNext
     /\ UNCHANGED <<vars, servicesVars>>
  \/ /\ ServicesNext /\ (focus = "app" => faults' = 0)
     /\ UNCHANGED <<vars, leaseVars>>

SafetySpec == SafetyInit /\ [][SafetyNext]_<<vars, leaseVars, servicesVars>>
=============================================================================
