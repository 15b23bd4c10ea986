----------------------------- MODULE MCServices -----------------------------
(***************************************************************************)
(* Small instances of the services beside the agent's runs.  They share no *)
(* state: focus names the one a behaviour is about, the others stay as     *)
(* they start.  Faults that may happen at any moment happen MaxFaults      *)
(* times.                                                                  *)
(***************************************************************************)
EXTENDS CallsApp, ChatStream, ScheduledTasks, AgentExchanges, TLC

CONSTANTS
  me, ann,
  c1, c2,
  s1, s2,
  x1, x2,
  MaxFaults    \* bound: restarts, lost requests, leases that run out

VARIABLES focus, faults

servicesVars ==
  <<callsAndApp, chatVars, scheduleVars, exchangeVars, focus, faults>>

Services == {"calls", "app", "chat", "sweeps", "waits", "exchange", "nested"}

ServicesInit ==
  /\ faults = 0
  /\ CallsAppInit /\ (focus \notin {"calls", "app"} => ~group)
  /\ ChatInit
  /\ ScheduleInit /\ (focus # "waits" => ~needsMac)
  /\ ExchangesInit /\ (focus # "exchange" => ~project)

Fault(A) == faults < MaxFaults /\ A /\ faults' = faults + 1

\* Two calls and blocks, as the server has them.
CallsFocus == (ServerAnswers \/ ServerAlone) /\ UNCHANGED <<callAppVars, faults>>

\* One call, as the app has it.
AppFocus ==
  \/ /\ ServerAnswers /\ (Len(calls') <= 1)
     /\ UNCHANGED faults
  \/ /\ \/ StartFails /\ UNCHANGED callAppVars
        \/ AppGetsAnswer \/ DiffDelivers \/ PushDelivers
        \/ AskForCalls \/ ListCalls \/ AppGetsCalls \/ MoveToWindow
     /\ UNCHANGED faults
  \/ faults = 0 /\ Fault(AppRestarts)

ChatFocus == ((ChatServer \/ ChatDevice) /\ UNCHANGED faults) \/ Fault(ChatFaults)

\* Two servers sweep two occurrences, which runners run.
SweepsFocus ==
  \/ /\ \/ ClockTicks \/ OwnerActs \/ \E s \in Sweepers : Sweep(s)
        \/ \E d \in Dues : RunnerLeases(d) \/ RunEnds(d)
     /\ UNCHANGED faults
  \/ Fault(ServersStop)

\* One server and one occurrence, with everything that can happen to its run.
WaitsFocus ==
  /\ \/ ScheduleSteps /\ UNCHANGED faults
     \/ Fault(ServersStop)
  /\ clock' <= 1 /\ sweeping'[s2] = NoSweep

\* One exchange, with everything that can happen to it.
ExchangeFocus ==
  /\ \/ ExchangeSteps /\ UNCHANGED faults
     \/ Fault(ExchangeFaults)
  /\ exchanges'[x2] = NoExchange /\ permitted' \ {"asker", x1} = {x2}

\* Agents that ask again, as continuations or as targets, run by the runner.
NestedFocus ==
  /\ \/ \E r \in ExchangeRuns : RunnerTakes(r) \/ StoppedRunEnds(r)
     \/ StopRun(Root) \/ RootEnds
     \/ \E x \in Exchanges :
          \/ \E r \in ExchangeRuns : Send(x, r)
          \/ DeadlinePasses(x) \/ Finish(x) \/ Reconcile(x)
  /\ UNCHANGED faults

ServicesNext ==
  /\ UNCHANGED focus
  /\ \/ /\ \/ focus = "calls" /\ CallsFocus
           \/ focus = "app" /\ AppFocus
        /\ UNCHANGED <<chatVars, scheduleVars, exchangeVars>>
     \/ /\ focus = "chat" /\ ChatFocus
        /\ UNCHANGED <<callsAndApp, scheduleVars, exchangeVars>>
     \/ /\ \/ focus = "sweeps" /\ SweepsFocus
           \/ focus = "waits" /\ WaitsFocus
        /\ UNCHANGED <<callsAndApp, chatVars, exchangeVars>>
     \/ /\ \/ focus = "exchange" /\ ExchangeFocus
           \/ focus = "nested" /\ NestedFocus
        /\ UNCHANGED <<callsAndApp, chatVars, scheduleVars>>

-----------------------------------------------------------------------------
(* Progress: the fairness of the components, each in its focus.  Steps     *)
(* that never share a behaviour share one condition of strong fairness,    *)
(* which is the conjunction of theirs and much cheaper to check.           *)

AppFairness ==
  /\ WF_callsAndApp(focus = "app" /\ DiffDelivers)
  /\ WF_callsAndApp(focus = "app" /\ AppGetsAnswer)
  /\ WF_callsAndApp(focus = "app" /\ AskForCalls)
  /\ WF_callsAndApp(focus = "app" /\ ListCalls)

DeviceFairness ==
  /\ WF_chatVars(focus = "chat" /\ BeginSync)
  /\ WF_chatVars(focus = "chat" /\ ReadHead)
  /\ WF_chatVars(focus = "chat" /\ ReadRows)
  /\ WF_chatVars(focus = "chat" /\ ReadSnapshot)
  /\ WF_chatVars(focus = "chat" /\ ApplyChanges)
  /\ WF_chatVars(focus = "chat" /\ ApplySnapshot)
  /\ \A c \in Chats : WF_chatVars(focus = "chat" /\ ReadPage(c))
  /\ WF_chatVars(focus = "chat" /\ ApplyPage)

TasksFairness ==
  /\ \A s \in Sweepers : WF_scheduleVars(focus = "sweeps" /\ Sweep(s))
  /\ WF_scheduleVars(focus = "waits" /\ Sweep(s1))
  /\ WF_scheduleVars(focus = "waits" /\ TurnIsOver(1))
  /\ WF_scheduleVars(focus = "waits" /\ ExpiryFailsRun)
  /\ WF_scheduleVars(focus = "waits" /\ ExpiryMarks)

RepeatedSteps ==
  /\ UNCHANGED <<focus, faults, chatVars>>
  /\ \/ /\ focus = "app" /\ AppGetsCalls
        /\ UNCHANGED <<scheduleVars, exchangeVars>>
     \/ /\ focus = "waits" /\ ExpiryReads(1)
        /\ UNCHANGED <<callsAndApp, exchangeVars>>
     \/ /\ focus \in {"exchange", "nested"} /\ ExecutorsWork
        /\ UNCHANGED <<callsAndApp, scheduleVars>>

RunsFairness ==
  /\ \A r \in ExchangeRuns :
       WF_exchangeVars(focus \in {"exchange", "nested"} /\ StoppedRunEnds(r))
  /\ \A x \in Exchanges :
       /\ WF_exchangeVars(focus \in {"exchange", "nested"} /\ DeadlinePasses(x))
       /\ WF_exchangeVars(focus \in {"exchange", "nested"} /\ FinishCommits(x))
       /\ SF_exchangeVars(focus \in {"exchange", "nested"} /\ ReconcileChecks(x))
       /\ WF_exchangeVars(focus \in {"exchange", "nested"} /\ ReconcileCommits(x))

ProgressInit ==
  /\ focus \in Services \ {"calls"} /\ ServicesInit
  /\ (focus = "app" => group) /\ ~project

ProgressSpec ==
  /\ ProgressInit /\ [][ServicesNext]_servicesVars
  /\ AppFairness /\ DeviceFairness /\ TasksFairness /\ RunsFairness
  /\ SF_servicesVars(RepeatedSteps)
=============================================================================
