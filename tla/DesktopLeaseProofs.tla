--------------------------- MODULE DesktopLeaseProofs ---------------------------
(***************************************************************************)
(* For every choice of the durations with Watchdog + Lag < Lease, and for  *)
(* every length of the run: a Mac that has not slept since it last set its *)
(* deadline never executes under a lapsed lease, never beside another      *)
(* executor, and never longer after a stop than the grace and one deadline.*)
(***************************************************************************)
EXTENDS DesktopLease, TLAPS

\* An answer the server granted, not yet read by the Mac.
Granted == request.at \in {"claimed", "renewed"}

\* A running turn whose Mac sleeps has slept; a claim under way has no turn yet.
MacInv ==
  /\ turn \in {"unclaimed", "waiting"} => slept = FALSE
  /\ turn = "running" /\ ~slept => awake = TRUE
  /\ request.at \in {"claim", "claimed"} => turn = "unclaimed"

\* The Mac's bounds lag behind the server's: what is under way was sent in the
\* past, and an answer or a deadline ends Lease - Watchdog before the lease.
DeadlineInv ==
  /\ request.sent <= now
  /\ Granted => request.sent + Lease <= until
  /\ Active => deadline + Lease <= until + Watchdog
  /\ Active => deadline <= now + Watchdog
  /\ turn = "running" /\ ~slept => now + left <= deadline + Lag

\* A claimed run is the Mac's until it hands it back, ends or lets it lapse.
HolderInv ==
  Active \/ request.at = "claimed" =>
    /\ holder \notin {"free", "released"}
    /\ holder = "other" => until <= now

\* After a stop no request sent later than the grace is granted.
StopInv ==
  stopAt # Never =>
    /\ holder \in {"mac", "ended"}
    /\ Granted => request.sent <= stopAt + Grace
    /\ Active => deadline <= stopAt + Grace + Watchdog

IInv == LeaseTypeOK /\ MacInv /\ DeadlineInv /\ HolderInv /\ StopInv

\* The invariant holds of the initial state.
LEMMA InitInv == LeaseInit => IInv
<1> SUFFICES ASSUME LeaseInit PROVE IInv
  OBVIOUS
<1>1. request \in Requests
  BY DEF LeaseInit, NoRequest, Requests
<1>2. LeaseTypeOK
  BY <1>1 DEF LeaseInit, LeaseTypeOK
<1>3. MacInv /\ DeadlineInv /\ HolderInv /\ StopInv
  BY DurationAssumption
  DEF LeaseInit, NoRequest, MacInv, DeadlineInv, HolderInv, StopInv, Granted, Active
<1>4. QED
  BY <1>2, <1>3 DEF IInv

\* Every step keeps it.
LEMMA StepInv == IInv /\ [LeaseNext]_leaseVars => IInv'
<1> SUFFICES ASSUME IInv, [LeaseNext]_leaseVars PROVE IInv'
  OBVIOUS
<1> LeaseTypeOK /\ MacInv /\ DeadlineInv /\ HolderInv /\ StopInv
  BY DEF IInv
<1> request.sent \in Nat
  BY DEF LeaseTypeOK, Requests
<1> USE DurationAssumption, NeverAssumption DEF serverVars, macVars, watchdog
<1>1. CASE Claim
  <2>1. request' \in Requests /\ request'.at = "claim" /\ request'.sent = now
    BY <1>1 DEF Claim, LeaseTypeOK, Requests, NoRequest
  <2>2. LeaseTypeOK'
    BY <1>1, <2>1 DEF LeaseTypeOK, Claim
  <2>3. MacInv'
    BY <1>1, <2>1 DEF LeaseTypeOK, MacInv, Claim
  <2>4. DeadlineInv'
    BY <1>1, <2>1 DEF LeaseTypeOK, MacInv, DeadlineInv, Granted, Active, Claim
  <2>5. HolderInv'
    BY <1>1, <2>1 DEF LeaseTypeOK, MacInv, DeadlineInv, HolderInv, Active, Claim
  <2>6. StopInv'
    BY <1>1, <2>1 DEF LeaseTypeOK, DeadlineInv, StopInv, Granted, Active, Claim
  <2>7. QED
    BY <2>2, <2>3, <2>4, <2>5, <2>6 DEF IInv
<1>2. CASE SendRenewal
  <2>1. request' \in Requests /\ request'.at = "renew" /\ request'.sent = now
    BY <1>2 DEF SendRenewal, LeaseTypeOK, Requests, NoRequest
  <2>2. LeaseTypeOK'
    BY <1>2, <2>1 DEF LeaseTypeOK, SendRenewal
  <2>3. MacInv'
    BY <1>2, <2>1 DEF LeaseTypeOK, MacInv, SendRenewal
  <2>4. DeadlineInv'
    BY <1>2, <2>1 DEF LeaseTypeOK, MacInv, DeadlineInv, Granted, Active, SendRenewal
  <2>5. HolderInv'
    BY <1>2, <2>1 DEF LeaseTypeOK, MacInv, DeadlineInv, HolderInv, Active, SendRenewal
  <2>6. StopInv'
    BY <1>2, <2>1 DEF LeaseTypeOK, DeadlineInv, StopInv, Granted, Active, SendRenewal
  <2>7. QED
    BY <2>2, <2>3, <2>4, <2>5, <2>6 DEF IInv
<1>3. CASE TimerFindsDeadlinePassed
  <2>1. LeaseTypeOK'
    BY <1>3 DEF LeaseTypeOK, TimerFindsDeadlinePassed, LoseLease, Stopped
  <2>2. MacInv'
    BY <1>3 DEF LeaseTypeOK, MacInv, TimerFindsDeadlinePassed, LoseLease, Stopped
  <2>3. DeadlineInv'
    BY <1>3 DEF LeaseTypeOK, MacInv, DeadlineInv, Granted, Active, TimerFindsDeadlinePassed, LoseLease, Stopped
  <2>4. HolderInv'
    BY <1>3 DEF LeaseTypeOK, MacInv, DeadlineInv, HolderInv, Active, TimerFindsDeadlinePassed, LoseLease, Stopped
  <2>5. StopInv'
    BY <1>3 DEF LeaseTypeOK, DeadlineInv, StopInv, Granted, Active, TimerFindsDeadlinePassed, LoseLease, Stopped
  <2>6. QED
    BY <2>1, <2>2, <2>3, <2>4, <2>5 DEF IInv
<1>4. CASE ClaimAnswered
  <2>1. request' \in Requests /\ request'.at = "none" /\ request'.sent = 0
    BY <1>4 DEF ClaimAnswered, LeaseTypeOK, Requests, NoRequest
  <2>2. LeaseTypeOK'
    BY <1>4, <2>1 DEF LeaseTypeOK, ClaimAnswered, DeadlineFrom
  <2>3. MacInv'
    BY <1>4, <2>1 DEF LeaseTypeOK, MacInv, ClaimAnswered, DeadlineFrom
  <2>4. DeadlineInv'
    BY <1>4, <2>1 DEF LeaseTypeOK, MacInv, DeadlineInv, Granted, Active, ClaimAnswered, DeadlineFrom
  <2>5. HolderInv'
    BY <1>4, <2>1 DEF LeaseTypeOK, MacInv, DeadlineInv, HolderInv, Active, ClaimAnswered, DeadlineFrom
  <2>6. StopInv'
    BY <1>4, <2>1 DEF LeaseTypeOK, DeadlineInv, StopInv, Granted, Active, ClaimAnswered, DeadlineFrom
  <2>7. QED
    BY <2>2, <2>3, <2>4, <2>5, <2>6 DEF IInv
<1>5. CASE RenewalAnswered
  <2>1. request' \in Requests /\ request'.at = "none" /\ request'.sent = 0
    BY <1>5 DEF RenewalAnswered, LeaseTypeOK, Requests, NoRequest
  <2>2. LeaseTypeOK'
    <3>1. deadline' \in Nat /\ left' \in Nat
      BY <1>5, <2>1 DEF LeaseTypeOK, RenewalAnswered, DeadlineFrom
    <3>2. turn' \in {"waiting", "running", "over"} \cup {turn} /\ lost' \in BOOLEAN
      BY <1>5 DEF LeaseTypeOK, RenewalAnswered, Stopped, Active
    <3>3. QED
      BY <1>5, <2>1, <3>1, <3>2 DEF LeaseTypeOK, RenewalAnswered
  <2>3. MacInv'
    BY <1>5, <2>1 DEF LeaseTypeOK, MacInv, RenewalAnswered, DeadlineFrom, Stopped
  <2>4. DeadlineInv'
    BY <1>5, <2>1 DEF LeaseTypeOK, MacInv, DeadlineInv, Granted, Active, RenewalAnswered, DeadlineFrom, Stopped
  <2>5. HolderInv'
    BY <1>5, <2>1 DEF LeaseTypeOK, MacInv, DeadlineInv, HolderInv, Active, RenewalAnswered, DeadlineFrom, Stopped
  <2>6. StopInv'
    BY <1>5, <2>1 DEF LeaseTypeOK, DeadlineInv, StopInv, Granted, Active, RenewalAnswered, DeadlineFrom, Stopped
  <2>7. QED
    BY <2>2, <2>3, <2>4, <2>5, <2>6 DEF IInv
<1>6. CASE Refused
  <2>1. request' \in Requests /\ request'.at = "none" /\ request'.sent = 0
    BY <1>6 DEF Refused, LeaseTypeOK, Requests, NoRequest
  <2>2. LeaseTypeOK'
    BY <1>6, <2>1 DEF LeaseTypeOK, Refused, LoseLease, Stopped
  <2>3. MacInv'
    BY <1>6, <2>1 DEF LeaseTypeOK, MacInv, Refused, LoseLease, Stopped
  <2>4. DeadlineInv'
    BY <1>6, <2>1 DEF LeaseTypeOK, MacInv, DeadlineInv, Granted, Active, Refused, LoseLease, Stopped
  <2>5. HolderInv'
    BY <1>6, <2>1 DEF LeaseTypeOK, MacInv, DeadlineInv, HolderInv, Active, Refused, LoseLease, Stopped
  <2>6. StopInv'
    BY <1>6, <2>1 DEF LeaseTypeOK, DeadlineInv, StopInv, Granted, Active, Refused, LoseLease, Stopped
  <2>7. QED
    BY <2>2, <2>3, <2>4, <2>5, <2>6 DEF IInv
<1>7. CASE RequestLost
  <2>1. request' \in Requests /\ request'.at = "none" /\ request'.sent = 0
    BY <1>7 DEF RequestLost, LeaseTypeOK, Requests, NoRequest
  <2>2. LeaseTypeOK'
    BY <1>7, <2>1 DEF LeaseTypeOK, RequestLost
  <2>3. MacInv'
    BY <1>7, <2>1 DEF LeaseTypeOK, MacInv, RequestLost
  <2>4. DeadlineInv'
    BY <1>7, <2>1 DEF LeaseTypeOK, MacInv, DeadlineInv, Granted, Active, RequestLost
  <2>5. HolderInv'
    BY <1>7, <2>1 DEF LeaseTypeOK, MacInv, DeadlineInv, HolderInv, Active, RequestLost
  <2>6. StopInv'
    BY <1>7, <2>1 DEF LeaseTypeOK, DeadlineInv, StopInv, Granted, Active, RequestLost
  <2>7. QED
    BY <2>2, <2>3, <2>4, <2>5, <2>6 DEF IInv
<1>8. CASE StartTurn
  <2>1. LeaseTypeOK'
    BY <1>8 DEF LeaseTypeOK, StartTurn
  <2>2. MacInv'
    BY <1>8 DEF LeaseTypeOK, MacInv, StartTurn
  <2>3. DeadlineInv'
    BY <1>8 DEF LeaseTypeOK, MacInv, DeadlineInv, Granted, Active, StartTurn
  <2>4. HolderInv'
    BY <1>8 DEF LeaseTypeOK, MacInv, DeadlineInv, HolderInv, Active, StartTurn
  <2>5. StopInv'
    BY <1>8 DEF LeaseTypeOK, DeadlineInv, StopInv, Granted, Active, StartTurn
  <2>6. QED
    BY <2>1, <2>2, <2>3, <2>4, <2>5 DEF IInv
<1>9. CASE WatchdogFires
  <2>1. LeaseTypeOK'
    BY <1>9 DEF LeaseTypeOK, WatchdogFires
  <2>2. MacInv'
    BY <1>9 DEF LeaseTypeOK, MacInv, WatchdogFires
  <2>3. DeadlineInv'
    BY <1>9 DEF LeaseTypeOK, MacInv, DeadlineInv, Granted, Active, WatchdogFires
  <2>4. HolderInv'
    BY <1>9 DEF LeaseTypeOK, MacInv, DeadlineInv, HolderInv, Active, WatchdogFires
  <2>5. StopInv'
    BY <1>9 DEF LeaseTypeOK, DeadlineInv, StopInv, Granted, Active, WatchdogFires
  <2>6. QED
    BY <2>1, <2>2, <2>3, <2>4, <2>5 DEF IInv
<1>10. CASE TurnEnds
  <2>1. LeaseTypeOK'
    BY <1>10 DEF LeaseTypeOK, TurnEnds, Active
  <2>2. MacInv'
    BY <1>10 DEF LeaseTypeOK, MacInv, TurnEnds, Active
  <2>3. DeadlineInv'
    BY <1>10 DEF LeaseTypeOK, MacInv, DeadlineInv, Granted, TurnEnds, Active
  <2>4. HolderInv'
    BY <1>10 DEF LeaseTypeOK, MacInv, DeadlineInv, HolderInv, TurnEnds, Active
  <2>5. StopInv'
    BY <1>10 DEF LeaseTypeOK, DeadlineInv, StopInv, Granted, TurnEnds, Active
  <2>6. QED
    BY <2>1, <2>2, <2>3, <2>4, <2>5 DEF IInv
<1>11. CASE Sleep
  <2>1. LeaseTypeOK'
    BY <1>11 DEF LeaseTypeOK, Sleep
  <2>2. MacInv'
    BY <1>11 DEF LeaseTypeOK, MacInv, Sleep
  <2>3. DeadlineInv'
    BY <1>11 DEF LeaseTypeOK, MacInv, DeadlineInv, Granted, Active, Sleep
  <2>4. HolderInv'
    BY <1>11 DEF LeaseTypeOK, MacInv, DeadlineInv, HolderInv, Active, Sleep
  <2>5. StopInv'
    BY <1>11 DEF LeaseTypeOK, DeadlineInv, StopInv, Granted, Active, Sleep
  <2>6. QED
    BY <2>1, <2>2, <2>3, <2>4, <2>5 DEF IInv
<1>12. CASE ServerClaims
  <2>1. request' \in Requests /\ request'.sent = request.sent /\ request'.at = (IF holder = "free" THEN "claimed" ELSE "refused")
    BY <1>12 DEF ServerClaims, LeaseTypeOK, Requests
  <2>2. LeaseTypeOK'
    BY <1>12, <2>1 DEF LeaseTypeOK, ServerClaims
  <2>3. MacInv'
    BY <1>12, <2>1 DEF LeaseTypeOK, MacInv, ServerClaims
  <2>4. DeadlineInv'
    BY <1>12, <2>1 DEF LeaseTypeOK, MacInv, DeadlineInv, Granted, Active, ServerClaims
  <2>5. HolderInv'
    BY <1>12, <2>1 DEF LeaseTypeOK, MacInv, DeadlineInv, HolderInv, Active, ServerClaims
  <2>6. StopInv'
    BY <1>12, <2>1 DEF LeaseTypeOK, DeadlineInv, StopInv, Granted, Active, ServerClaims
  <2>7. QED
    BY <2>2, <2>3, <2>4, <2>5, <2>6 DEF IInv
<1>13. CASE ServerRenews
  <2>1. request' \in Requests /\ request'.sent = request.sent /\ request'.at = (IF Renewable THEN "renewed" ELSE "refused")
    BY <1>13 DEF ServerRenews, LeaseTypeOK, Requests
  <2>2. LeaseTypeOK'
    BY <1>13, <2>1 DEF LeaseTypeOK, ServerRenews, Renewable, LeaseLive
  <2>3. MacInv'
    BY <1>13, <2>1 DEF LeaseTypeOK, MacInv, ServerRenews, Renewable, LeaseLive
  <2>4. DeadlineInv'
    BY <1>13, <2>1 DEF LeaseTypeOK, MacInv, DeadlineInv, Granted, Active, ServerRenews, Renewable, LeaseLive
  <2>5. HolderInv'
    BY <1>13, <2>1 DEF LeaseTypeOK, MacInv, DeadlineInv, HolderInv, Active, ServerRenews, Renewable, LeaseLive
  <2>6. StopInv'
    BY <1>13, <2>1 DEF LeaseTypeOK, DeadlineInv, StopInv, Granted, Active, ServerRenews, Renewable, LeaseLive
  <2>7. QED
    BY <2>2, <2>3, <2>4, <2>5, <2>6 DEF IInv
<1>14. CASE ServerAdmits
  <2>1. LeaseTypeOK'
    BY <1>14 DEF LeaseTypeOK, ServerAdmits, LeaseLive
  <2>2. MacInv'
    BY <1>14 DEF LeaseTypeOK, MacInv, ServerAdmits, LeaseLive
  <2>3. DeadlineInv'
    BY <1>14 DEF LeaseTypeOK, MacInv, DeadlineInv, Granted, Active, ServerAdmits, LeaseLive
  <2>4. HolderInv'
    BY <1>14 DEF LeaseTypeOK, MacInv, DeadlineInv, HolderInv, Active, ServerAdmits, LeaseLive
  <2>5. StopInv'
    BY <1>14 DEF LeaseTypeOK, DeadlineInv, StopInv, Granted, Active, ServerAdmits, LeaseLive
  <2>6. QED
    BY <2>1, <2>2, <2>3, <2>4, <2>5 DEF IInv
<1>15. CASE MacHandsBack
  <2>1. LeaseTypeOK'
    BY <1>15 DEF LeaseTypeOK, MacHandsBack
  <2>2. MacInv'
    BY <1>15 DEF LeaseTypeOK, MacInv, MacHandsBack
  <2>3. DeadlineInv'
    BY <1>15 DEF LeaseTypeOK, MacInv, DeadlineInv, Granted, Active, MacHandsBack
  <2>4. HolderInv'
    BY <1>15 DEF LeaseTypeOK, MacInv, DeadlineInv, HolderInv, Active, MacHandsBack
  <2>5. StopInv'
    BY <1>15 DEF LeaseTypeOK, DeadlineInv, StopInv, Granted, Active, MacHandsBack
  <2>6. QED
    BY <2>1, <2>2, <2>3, <2>4, <2>5 DEF IInv
<1>16. CASE Stop
  <2>1. LeaseTypeOK'
    BY <1>16 DEF LeaseTypeOK, Stop
  <2>2. MacInv'
    BY <1>16 DEF LeaseTypeOK, MacInv, Stop
  <2>3. DeadlineInv'
    BY <1>16 DEF LeaseTypeOK, MacInv, DeadlineInv, Granted, Active, Stop
  <2>4. HolderInv'
    BY <1>16 DEF LeaseTypeOK, MacInv, DeadlineInv, HolderInv, Active, Stop
  <2>5. StopInv'
    BY <1>16 DEF LeaseTypeOK, DeadlineInv, StopInv, Granted, Active, Stop
  <2>6. QED
    BY <2>1, <2>2, <2>3, <2>4, <2>5 DEF IInv
<1>17. CASE TakeOver
  <2>1. LeaseTypeOK'
    BY <1>17 DEF LeaseTypeOK, TakeOver
  <2>2. MacInv'
    BY <1>17 DEF LeaseTypeOK, MacInv, TakeOver
  <2>3. DeadlineInv'
    BY <1>17 DEF LeaseTypeOK, MacInv, DeadlineInv, Granted, Active, TakeOver
  <2>4. HolderInv'
    BY <1>17 DEF LeaseTypeOK, MacInv, DeadlineInv, HolderInv, Active, TakeOver
  <2>5. StopInv'
    BY <1>17 DEF LeaseTypeOK, DeadlineInv, StopInv, Granted, Active, TakeOver
  <2>6. QED
    BY <2>1, <2>2, <2>3, <2>4, <2>5 DEF IInv
<1>18. CASE End
  <2>1. LeaseTypeOK'
    BY <1>18 DEF LeaseTypeOK, End
  <2>2. MacInv'
    BY <1>18 DEF LeaseTypeOK, MacInv, End
  <2>3. DeadlineInv'
    BY <1>18 DEF LeaseTypeOK, MacInv, DeadlineInv, Granted, Active, End
  <2>4. HolderInv'
    BY <1>18 DEF LeaseTypeOK, MacInv, DeadlineInv, HolderInv, Active, End
  <2>5. StopInv'
    BY <1>18 DEF LeaseTypeOK, DeadlineInv, StopInv, Granted, Active, End
  <2>6. QED
    BY <2>1, <2>2, <2>3, <2>4, <2>5 DEF IInv
<1>19. CASE Tick
  <2>1. LeaseTypeOK'
    BY <1>19 DEF LeaseTypeOK, Tick
  <2>2. MacInv'
    BY <1>19 DEF LeaseTypeOK, MacInv, Tick
  <2>3. DeadlineInv'
    BY <1>19 DEF LeaseTypeOK, MacInv, DeadlineInv, Granted, Active, Tick
  <2>4. HolderInv'
    BY <1>19 DEF LeaseTypeOK, MacInv, DeadlineInv, HolderInv, Active, Tick
  <2>5. StopInv'
    BY <1>19 DEF LeaseTypeOK, DeadlineInv, StopInv, Granted, Active, Tick
  <2>6. QED
    BY <2>1, <2>2, <2>3, <2>4, <2>5 DEF IInv
<1>20. CASE UNCHANGED leaseVars
  BY <1>20 DEF leaseVars, IInv, LeaseTypeOK, MacInv, DeadlineInv, HolderInv, StopInv, Granted, Active
<1>21. QED
  BY <1>1, <1>2, <1>3, <1>4, <1>5, <1>6, <1>7, <1>8, <1>9, <1>10, <1>11, <1>12,
     <1>13, <1>14, <1>15, <1>16, <1>17, <1>18, <1>19, <1>20 DEF LeaseNext, LeaseMac, LeaseServer

\* The invariant in every reachable state.
THEOREM Invariance == LeaseSpec => []IInv
BY InitInv, StepInv, PTL DEF LeaseSpec

\* The types are right for all durations.
THEOREM TypeCorrect == LeaseSpec => []LeaseTypeOK
<1>1. IInv => LeaseTypeOK
  BY DEF IInv
<1>2. QED
  BY <1>1, Invariance, PTL

\* The Mac's turn ends before the server's lease lapses: the comment of
\* cloudDesktopExecutionLease.ts holds of a Mac that has not slept meanwhile.
THEOREM TurnEndsInTime == LeaseSpec => []TurnEndsBeforeLease
<1>1. IInv => TurnEndsBeforeLease
  BY DurationAssumption
  DEF IInv, LeaseTypeOK, DeadlineInv, Active, TurnEndsBeforeLease, Executing
<1>2. QED
  BY <1>1, Invariance, PTL

\* So a takeover of the lapsed lease never meets an executing Mac.
THEOREM OneExecutor == LeaseSpec => []NoTwoExecutors
<1>1. IInv => NoTwoExecutors
  BY DurationAssumption
  DEF IInv, LeaseTypeOK, DeadlineInv, HolderInv, Active, NoTwoExecutors, Executing
<1>2. QED
  BY <1>1, Invariance, PTL

\* And a stop that the Mac ignores ends its turn within a known time.
THEOREM StopBound == LeaseSpec => []StopBoundsTurn
<1>1. IInv => StopBoundsTurn
  BY DurationAssumption
  DEF IInv, LeaseTypeOK, DeadlineInv, StopInv, Active, StopBoundsTurn, Executing
<1>2. QED
  BY <1>1, Invariance, PTL

\* Even a Mac that sleeps starts no turn under a lapsed lease or beside
\* another executor.
THEOREM StartsInTime == LeaseSpec => StartsUnderLease
<1>1. IInv /\ [LeaseNext]_leaseVars =>
        [turn # "running" /\ turn' = "running" => now < until /\ holder # "other"]_leaseVars
  <2> SUFFICES ASSUME IInv, LeaseNext, turn # "running", turn' = "running"
               PROVE  now < until /\ holder # "other"
    BY DEF leaseVars
  <2>1. StartTurn
    BY DEF IInv, LeaseTypeOK, LeaseNext, LeaseMac, LeaseServer, Claim, SendRenewal,
       TimerFindsDeadlinePassed, ClaimAnswered, RenewalAnswered, Refused, RequestLost,
       WatchdogFires, TurnEnds, Sleep, ServerClaims, ServerRenews, ServerAdmits, MacHandsBack, Stop,
       TakeOver, End, Tick, LoseLease, Stopped, macVars, watchdog
  <2>2. QED
    BY <2>1, DurationAssumption
    DEF IInv, LeaseTypeOK, DeadlineInv, HolderInv, Active, StartTurn
<1>2. QED
  BY <1>1, Invariance, PTL DEF LeaseSpec, StartsUnderLease

-----------------------------------------------------------------------------
(* The clock implements RunContract: the run of the claim is one run of    *)
(* the contract, and a step is a step of it or changes nothing it sees.    *)

IsExpired == holder = "mac" /\ until <= now
IsAsked == stopAt # Never
SeenHolder == IF TimedState = "held" THEN holder ELSE "no one"

\* A step that the contract does not see.
Unseen == UNCHANGED <<TimedState, SeenHolder, IsExpired, IsAsked>>

LEMMA UnseenStep == Unseen => UNCHANGED LeaseContract!vars
BY DEF Unseen, LeaseContract!vars, SeenHolder, IsExpired, IsAsked

\* The contract's actions over what it sees of the claim.
LEMMA LeaseGranted ==
  ASSUME NEW e \in {"mac", "other"},
         TimedState = "waiting" \/ (TimedState = "held" /\ IsExpired), ~IsAsked,
         TimedState' = "held", SeenHolder' = e, ~IsExpired', ~IsAsked'
  PROVE  LeaseContract!Moves
<1>1. LeaseContract!Grant(e, "run")
  BY DEF LeaseContract!Grant, IsExpired, IsAsked, SeenHolder
<1> QED
  BY <1>1 DEF LeaseContract!Moves

LEMMA LeaseReturned ==
  ASSUME TimedState = "held", ~IsAsked,
         TimedState' = "waiting", ~IsExpired', ~IsAsked'
  PROVE  LeaseContract!Moves
<1>1. LeaseContract!Return("run")
  BY DEF LeaseContract!Return, IsExpired, IsAsked
<1> QED
  BY <1>1 DEF LeaseContract!Moves

LEMMA LeaseExpired ==
  ASSUME TimedState = "held", IsExpired',
         UNCHANGED <<TimedState, SeenHolder, IsAsked>>
  PROVE  LeaseContract!Moves
<1>1. LeaseContract!Expire("run")
  BY DEF LeaseContract!Expire, IsExpired, IsAsked, SeenHolder
<1> QED
  BY <1>1 DEF LeaseContract!Moves

LEMMA LeaseAsked ==
  ASSUME TimedState = "held", IsAsked',
         UNCHANGED <<TimedState, SeenHolder, IsExpired>>
  PROVE  LeaseContract!Moves
<1>1. LeaseContract!Ask("run")
  BY DEF LeaseContract!Ask, IsExpired, IsAsked, SeenHolder
<1> QED
  BY <1>1 DEF LeaseContract!Moves

LEMMA LeaseEnded ==
  ASSUME TimedState = "held", TimedState' = "cancelled", ~IsExpired', IsAsked => IsAsked'
  PROVE  LeaseContract!Moves
<1>1. PICK stop \in BOOLEAN : IsAsked' = (IsAsked \/ stop)
  BY DEF IsAsked
<1>2. LeaseContract!End("run", "cancelled", stop)
  BY <1>1 DEF LeaseContract!End, IsExpired, IsAsked
<1> QED
  BY <1>2 DEF LeaseContract!Moves, LeaseContract!Outcomes

LEMMA LeaseStepSeen ==
  IInv /\ [LeaseNext]_leaseVars => LeaseContract!Moves \/ Unseen
<1> SUFFICES ASSUME IInv, [LeaseNext]_leaseVars PROVE LeaseContract!Moves \/ Unseen
  OBVIOUS
<1> LeaseTypeOK /\ StopInv
  BY DEF IInv
<1> USE NeverAssumption, DurationAssumption DEF LeaseTypeOK, TimedState, SeenHolder, IsExpired, IsAsked
<1>1. CASE UNCHANGED <<now, serverVars>>
  BY <1>1 DEF serverVars, Unseen
<1>2. CASE ServerClaims
  <2>1. CASE holder = "free"
    <3>1. ~IsAsked /\ ~IsAsked' /\ ~IsExpired'
      BY <1>2, <2>1 DEF ServerClaims, StopInv
    <3>2. TimedState = "waiting" /\ TimedState' = "held" /\ SeenHolder' = "mac"
      BY <1>2, <2>1 DEF ServerClaims
    <3> QED
      BY <3>1, <3>2, LeaseGranted
  <2>2. CASE holder # "free"
    BY <1>2, <2>2 DEF ServerClaims, Unseen
  <2> QED
    BY <2>1, <2>2
<1>3. CASE ServerRenews
  BY <1>3 DEF ServerRenews, Renewable, LeaseLive, Unseen
<1>4. CASE MacHandsBack
  BY <1>4, LeaseReturned DEF MacHandsBack
<1>5. CASE Stop
  <2>1. CASE now < until
    BY <1>5, <2>1, LeaseAsked DEF Stop
  <2>2. CASE ~(now < until)
    BY <1>5, <2>2, LeaseEnded DEF Stop
  <2> QED
    BY <2>1, <2>2
<1>6. CASE TakeOver
  BY <1>6, LeaseGranted DEF TakeOver, StopInv
<1>7. CASE End
  BY <1>7, LeaseEnded DEF End
<1>8. CASE Tick
  <2>1. CASE holder = "mac" /\ until <= now + 1
    BY <1>8, <2>1, LeaseExpired DEF Tick, serverVars
  <2>2. CASE ~(holder = "mac" /\ until <= now + 1)
    BY <1>8, <2>2 DEF Tick, serverVars, Unseen
  <2> QED
    BY <2>1, <2>2
<1> QED
  BY <1>1, <1>2, <1>3, <1>4, <1>5, <1>6, <1>7, <1>8
     DEF LeaseNext, LeaseMac, LeaseServer, leaseVars, Claim, SendRenewal,
         TimerFindsDeadlinePassed, ClaimAnswered, RenewalAnswered, Refused, RequestLost,
         StartTurn, WatchdogFires, TurnEnds, Sleep, ServerAdmits

\* For all durations, the clock keeps the contract that AgentRuns keeps without
\* one: nobody takes the run before its lease has run out, or after a stop.
THEOREM LeaseImplementsContract == LeaseSpec => LeaseKeepsContract /\ LeaseContract!Spec
<1> DEFINE Step == leaseVars' # leaseVars => LeaseContract!Next \/ UNCHANGED LeaseContract!vars
<1>1. LeaseInit => LeaseContract!Init
  BY DEF LeaseInit, LeaseContract!Init, TimedState
<1>2. IInv /\ [LeaseNext]_leaseVars => [LeaseContract!Next]_(LeaseContract!vars)
  BY LeaseStepSeen, UnseenStep DEF LeaseContract!Next
<1>3. IInv /\ [LeaseNext]_leaseVars => [Step]_leaseVars
  BY <1>2
<1>4. LeaseKeepsContract <=> LeaseContract!Init /\ [][Step]_leaseVars
  BY DEF LeaseKeepsContract
<1>5. LeaseContract!Spec <=> LeaseContract!Init /\ [][LeaseContract!Next]_(LeaseContract!vars)
  BY DEF LeaseContract!Spec
<1> QED
  BY <1>1, <1>2, <1>3, <1>4, <1>5, Invariance, PTL DEF LeaseSpec
=============================================================================
