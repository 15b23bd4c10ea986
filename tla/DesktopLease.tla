----------------------------- MODULE DesktopLease -----------------------------
(***************************************************************************)
(* How a Mac and the server agree, by the clock, on who executes a run     *)
(* (cloudDesktopExecutionLease.ts, the native watchdog in chat/turns.rs    *)
(* and the renewal in cloud_agent_runtime/desktop.rs).                     *)
(*                                                                         *)
(* One claim of one Mac.  The server's lease lasts Lease from when it      *)
(* handles a claim or a renewal; the Mac's deadline lasts Watchdog from    *)
(* when it sent it.  One such request is under way at a time; it may take  *)
(* any time, be refused or be lost.  The native watchdog ends the turn at  *)
(* the deadline, at most Lag late, on a clock that stops while the Mac     *)
(* sleeps.  AgentRuns leaves time out: this module gives the reason why a  *)
(* lapsed lease there has no executor any more.                            *)
(***************************************************************************)
EXTENDS Naturals

CONSTANTS
  Lease,      \* 45 s: the server's lease
  Watchdog,   \* 40 s: DESKTOP_EXECUTION_WATCHDOG_MS
  Lag,        \* how late the watchdog's poll and the turn's end may be
  Grace,      \* 30 s: how long a renewal is granted after a stop request
  Never,      \* no stop was requested
  MaxTime     \* bound of the checked instance

ASSUME DurationAssumption ==
  /\ Lease \in Nat /\ Watchdog \in Nat /\ Lag \in Nat /\ Grace \in Nat
  /\ MaxTime \in Nat
  /\ Watchdog + Lag < Lease
ASSUME NeverAssumption == Never \notin Nat

VARIABLES
  now,       \* the wall clock both sides read
  holder,    \* the run: "free", "mac", "released", "other" or "ended"
  until,     \* lease_expires_at of the Mac's claim
  stopAt,    \* cancel_requested_at
  awake,     \* the Mac is not asleep
  request,   \* the claim or renewal under way
  deadline,  \* the Mac's deadline
  lost,      \* the Mac gave its lease up
  admitted,  \* the server admitted the turn
  turn,      \* "unclaimed", "waiting", "running", "over"
  left,      \* what the native watchdog's clock still allows
  slept      \* the Mac slept since that clock was set

serverVars == <<holder, until, stopAt>>
watchdog == <<left, slept>>
macVars == <<deadline, lost, admitted, turn, watchdog>>
leaseVars == <<now, serverVars, awake, request, macVars>>

NoRequest == [at |-> "none", sent |-> 0, stop |-> FALSE]

Requests == [ at : {"none", "claim", "claimed", "renew", "renewed", "refused"},
              sent : Nat, stop : BOOLEAN ]

LeaseTypeOK ==
  /\ now \in Nat
  /\ holder \in {"free", "mac", "released", "other", "ended"}
  /\ until \in Nat
  /\ stopAt \in Nat \cup {Never}
  /\ awake \in BOOLEAN
  /\ request \in Requests
  /\ deadline \in Nat
  /\ lost \in BOOLEAN
  /\ admitted \in BOOLEAN
  /\ turn \in {"unclaimed", "waiting", "running", "over"}
  /\ left \in Nat
  /\ slept \in BOOLEAN

LeaseInit ==
  /\ now = 0
  /\ holder = "free" /\ until = 0 /\ stopAt = Never
  /\ awake = TRUE
  /\ request = NoRequest
  /\ deadline = 0 /\ lost = FALSE /\ admitted = FALSE
  /\ turn = "unclaimed" /\ left = 0 /\ slept = FALSE

Active == turn \in {"waiting", "running"}
LeaseLive == holder = "mac" /\ now < until

-----------------------------------------------------------------------------
(* The Mac.                                                                *)

Claim ==
  /\ awake /\ turn = "unclaimed" /\ request = NoRequest
  /\ request' = [NoRequest EXCEPT !.at = "claim", !.sent = now]
  /\ UNCHANGED <<now, serverVars, awake, macVars>>

\* The timer renews, unless a renewal is under way, and gives the lease up
\* when the deadline has passed.
SendRenewal ==
  /\ awake /\ Active /\ ~lost /\ request = NoRequest
  /\ now < deadline
  /\ request' = [NoRequest EXCEPT !.at = "renew", !.sent = now]
  /\ UNCHANGED <<now, serverVars, awake, macVars>>

Stopped == IF turn = "running" THEN "over" ELSE turn

LoseLease ==
  /\ lost' = TRUE
  /\ turn' = Stopped
  /\ UNCHANGED <<deadline, admitted, watchdog>>

TimerFindsDeadlinePassed ==
  /\ awake /\ Active /\ ~lost /\ request = NoRequest
  /\ deadline <= now
  /\ LoseLease
  /\ UNCHANGED <<now, serverVars, awake, request>>

DeadlineFromAnswer(sent) == now + Watchdog
DeadlineFrom(sent) == sent + Watchdog

ClaimAnswered ==
  /\ awake /\ request.at = "claimed"
  /\ deadline' = DeadlineFrom(request.sent)
  /\ turn' = "waiting"
  /\ request' = NoRequest
  /\ UNCHANGED <<now, serverVars, awake, lost, admitted, watchdog>>

\* The answer moves the deadline, also a deadline that passed meanwhile; a stop
\* it carries cancels the turn, a step that may fail.  The native turn, if it
\* is cancelled first, refuses the new deadline, and the lease is given up.
RenewalAnswered ==
  /\ awake /\ request.at = "renewed"
  /\ request' = NoRequest
  /\ IF lost \/ ~Active THEN UNCHANGED macVars
     ELSE LET next == DeadlineFrom(request.sent)
          IN IF next <= now
               THEN /\ lost' = TRUE /\ turn' = Stopped /\ deadline' = next
                    /\ UNCHANGED <<admitted, watchdog>>
               ELSE /\ deadline' = next
                    /\ turn' \in {turn} \cup (IF request.stop THEN {Stopped} ELSE {})
                    /\ IF turn = "running"
                         THEN left' = next + Lag - now /\ slept' = FALSE
                         ELSE UNCHANGED watchdog
                    /\ lost' \in IF turn' = "over" THEN BOOLEAN ELSE {lost}
                    /\ UNCHANGED admitted
  /\ UNCHANGED <<now, serverVars, awake>>

Refused ==
  /\ awake /\ request.at = "refused"
  /\ request' = NoRequest
  /\ IF turn = "unclaimed"
       THEN turn' = "over" /\ UNCHANGED <<deadline, lost, admitted, watchdog>>
       ELSE LoseLease
  /\ UNCHANGED <<now, serverVars, awake>>

\* No answer, or an error: a claim is given up, a renewal is sent again.
RequestLost ==
  /\ request # NoRequest
  /\ request' = NoRequest
  /\ turn' = IF turn = "unclaimed" THEN "over" ELSE turn
  /\ UNCHANGED <<now, serverVars, awake, deadline, lost, admitted, watchdog>>

StartUnchecked ==
  /\ awake /\ turn = "waiting" /\ admitted /\ ~lost
  /\ turn' = "running"
  /\ left' = deadline + Lag - now
  /\ UNCHANGED <<now, serverVars, awake, request, deadline, lost, admitted, slept>>

StartTurn ==
  /\ awake /\ turn = "waiting" /\ admitted /\ ~lost
  /\ now < deadline
  /\ turn' = "running"
  /\ left' = deadline + Lag - now
  /\ UNCHANGED <<now, serverVars, awake, request, deadline, lost, admitted, slept>>

\* The watchdog polls: it may fire from the deadline on, and has when Lag is over.
WatchdogFires ==
  /\ awake /\ turn = "running" /\ left <= Lag
  /\ turn' = "over"
  /\ UNCHANGED <<now, serverVars, awake, request, deadline, lost, admitted, watchdog>>

TurnEnds ==
  /\ awake /\ Active
  /\ turn' = "over"
  /\ UNCHANGED <<now, serverVars, awake, request, deadline, lost, admitted, watchdog>>

Sleep ==
  /\ awake' = ~awake
  /\ slept' = (slept \/ turn = "running")
  /\ UNCHANGED <<now, serverVars, request, deadline, lost, admitted, turn, left>>

-----------------------------------------------------------------------------
(* The server.                                                             *)

ServerClaims ==
  /\ request.at = "claim"
  /\ IF holder = "free"
       THEN /\ holder' = "mac" /\ until' = now + Lease
            /\ request' = [request EXCEPT !.at = "claimed"]
       ELSE /\ request' = [request EXCEPT !.at = "refused"]
            /\ UNCHANGED <<holder, until>>
  /\ UNCHANGED <<now, stopAt, awake, macVars>>

RenewableAfterStop == LeaseLive
Renewable == LeaseLive /\ (stopAt # Never => now < stopAt + Grace)

ServerRenews ==
  /\ request.at = "renew"
  /\ IF Renewable
       THEN /\ until' = now + Lease
            /\ request' = [request EXCEPT !.at = "renewed", !.stop = stopAt # Never]
       ELSE /\ request' = [request EXCEPT !.at = "refused"]
            /\ UNCHANGED until
  /\ UNCHANGED <<now, holder, stopAt, awake, macVars>>

ServerAdmits ==
  /\ turn = "waiting" /\ LeaseLive
  /\ admitted' = TRUE
  /\ UNCHANGED <<now, serverVars, awake, request, deadline, lost, turn, watchdog>>

\* A Mac hands back only a run whose turn it never started.
MacHandsBack ==
  /\ awake /\ turn = "waiting" /\ holder = "mac" /\ stopAt = Never
  /\ holder' = "released"
  /\ turn' = "over"
  /\ UNCHANGED <<now, until, stopAt, awake, request, deadline, lost, admitted, watchdog>>

Stop ==
  /\ holder = "mac" /\ stopAt = Never
  /\ stopAt' = now
  /\ holder' = IF now < until THEN holder ELSE "ended"
  /\ UNCHANGED <<now, until, awake, request, macVars>>

TakeOverStopped ==
  /\ holder \in {"free", "released"} \/ (holder = "mac" /\ until <= now)
  /\ holder' = "other"
  /\ UNCHANGED <<now, until, stopAt, awake, request, macVars>>

TakeOver ==
  /\ \/ holder \in {"free", "released"}
     \/ holder = "mac" /\ until <= now /\ stopAt = Never
  /\ holder' = "other"
  /\ UNCHANGED <<now, until, stopAt, awake, request, macVars>>

\* The Mac's terminal reply, a withdrawn permission or a sweep ends the run.
End ==
  /\ holder = "mac"
  /\ holder' = "ended"
  /\ UNCHANGED <<now, until, stopAt, awake, request, macVars>>

\* Time passes; a running watchdog does not let its own clock pass the deadline.
Tick ==
  /\ now < MaxTime
  /\ ~(awake /\ turn = "running" /\ left = 0)
  /\ now' = now + 1
  /\ left' = IF awake /\ turn = "running" THEN left - 1 ELSE left
  /\ UNCHANGED <<serverVars, awake, request, deadline, lost, admitted, turn, slept>>

LeaseMac ==
  \/ Claim \/ SendRenewal \/ TimerFindsDeadlinePassed \/ ClaimAnswered
  \/ RenewalAnswered \/ Refused \/ RequestLost \/ StartTurn \/ WatchdogFires
  \/ TurnEnds \/ Sleep

LeaseServer ==
  \/ ServerClaims \/ ServerRenews \/ ServerAdmits \/ MacHandsBack \/ Stop \/ TakeOver \/ End

LeaseNext == LeaseMac \/ LeaseServer \/ Tick

LeaseSpec == LeaseInit /\ [][LeaseNext]_leaseVars

-----------------------------------------------------------------------------
(* Properties.                                                             *)

Executing == awake /\ turn = "running"

\* The Mac's turn ends before the server's lease lapses, however long requests
\* take and whichever answers are lost, unless the Mac slept since it last set
\* its deadline.
TurnEndsBeforeLease == Executing /\ ~slept => now < until

\* The deadline "always ends the turn before the server lease lapses"
\* (cloudDesktopExecutionLease.ts), on a Mac that may sleep too.
DeadlineAlwaysEndsTurn == Executing => now < until

\* A turn starts only under a live lease, also when the Mac slept between its
\* admission and its start: the deadline is read again (the lease's getter).
StartsUnderLease ==
  [][turn # "running" /\ turn' = "running" => now < until /\ holder # "other"]_leaseVars

\* Nobody else holds the run while the Mac executes it: what the takeover of a
\* lapsed lease in AgentRuns relies on.
NoTwoExecutors == Executing /\ ~slept => holder # "other"

\* A Mac that ignores a stop request executes at most the grace and one more
\* deadline (desktop.rs: "its lease is refused and the run ends").
StopBoundsTurn ==
  Executing /\ ~slept /\ stopAt # Never =>
    now <= stopAt + Grace + Watchdog + Lag

-----------------------------------------------------------------------------
(* The promise of RunContract, by the clock.                               *)

\* The claim's run: how it ends is left out here.
TimedState == CASE holder \in {"free", "released"} -> "waiting"
                [] holder \in {"mac", "other"} -> "held"
                [] OTHER -> "cancelled"

LeaseContract == INSTANCE RunContract WITH
  Runs <- {"run"}, Executors <- {"mac", "other"}, NoOne <- "no one",
  WaitingEnds <- {},
  state <- [r \in {"run"} |-> TimedState],
  holder <- [r \in {"run"} |-> IF TimedState = "held" THEN holder ELSE "no one"],
  expired <- [r \in {"run"} |-> holder = "mac" /\ until <= now],
  asked <- [r \in {"run"} |-> stopAt # Never]

\* The clock keeps what the contract promises: nobody takes the run before its
\* lease has run out, a run that was asked to stop is neither handed back nor
\* granted again, whoever asks, and one that is over stays so.  (This says no
\* less than LeaseContract!Spec; steps that leave the lease alone are passed
\* over first.)
LeaseKeepsContract ==
  /\ LeaseContract!Init
  /\ [][leaseVars' # leaseVars => LeaseContract!Next \/ UNCHANGED LeaseContract!vars]_leaseVars

=============================================================================
