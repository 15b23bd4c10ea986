------------------------------ MODULE AgentRuns ------------------------------
(***************************************************************************)
(* The life of a chat request's agent run on the hosted server             *)
(* (bridges/cloud-server, table cloud_agent_fallback_runs).                *)
(*                                                                         *)
(* A run is admitted by the server for its cloud runners or by a Mac of    *)
(* the agent's owner, leased by exactly one executor at a time, and ended  *)
(* by that executor, by a stop request, by a withdrawn permission or by a  *)
(* sweep.  Every handler is a few SQL statements; each statement that      *)
(* reads or writes the row is one action here, so two handlers interleave  *)
(* between statements exactly as they do in the database.                  *)
(*                                                                         *)
(* A runner identity is drawn anew for every lease poll and a Mac's claim  *)
(* identity for every claim, so an identity is used again only when no row *)
(* names it.  Time is left out: a lease is live, lapsed, or lost (lapsed   *)
(* for the ten minutes of grace); renewals keep a live lease live.         *)
(***************************************************************************)
EXTENDS Naturals, FiniteSets

CONSTANTS
  Runs,             \* requests: one row per (owner, agent, request message)
  Queues,           \* AI conversations, one agent each
  QueueOf,          \* the conversation of a request
  Runners,          \* identities the cloud runners poll with
  Desktops,         \* claim identities "desktop:<device>:<claim>"
  Devices,          \* the owner's Macs
  DeviceOf,         \* the Mac of a claim identity
  Guests,           \* requests somebody other than the owner made
  MacOnly,          \* requests of project sessions: they need the Mac's folder
  SerialAdmission,  \* TRUE: admissions of one conversation do not overlap
  NoOne             \* SQL NULL in claimed_by; also a server-side admission

ASSUME IdentityAssumption ==
  /\ NoOne \notin Runners \cup Desktops
  /\ Runners \cap Desktops = {}
ASSUME ScopeAssumption ==
  /\ QueueOf \in [Runs -> Queues]
  /\ DeviceOf \in [Desktops -> Devices]
  /\ Guests \subseteq Runs
  /\ MacOnly \subseteq Runs
ASSUME SerialAssumption == SerialAdmission \in BOOLEAN

VARIABLES
  run,        \* the rows
  older,      \* older[r]: rows of r's queue whose created_at is below r's
  barred,     \* guest requests whose requester may not use the agent now
  unended,    \* those whose run the save of a Factory agent has yet to end
  admitting,  \* admissions between their lookup and their insert
  work,       \* what each runner is doing, and which statement comes next
  stopping,   \* stop requests between their two updates
  reporting   \* interruption reports between their select and their update

vars == <<run, older, barred, unended, admitting, work, stopping, reporting>>

Held == {"leased", "running"}
Ended == {"completed", "failed", "cancelled"}
Executors == Runners \cup Desktops

Row == [ status    : {"absent", "queued"} \cup Held \cup Ended,
         backend   : {"cloud", "desktop"},
         claimedBy : Executors \cup {NoOne},
         lease     : {"none", "live", "lapsed", "lost"},
         hold      : BOOLEAN,      \* desktop_preferred_until > now()
         cancel    : BOOLEAN,      \* cancel_requested_at IS NOT NULL
         handedBack : BOOLEAN ]    \* error_code = 'desktop_released'

Idle == [at |-> "idle"]
Steps == {"leasing", "leased", "starting", "started", "running", "beating",
          "beaten", "completing", "failing"}
Work == {Idle} \cup [at : Steps, run : Runs]
Admission == [run : Runs, by : Desktops \cup {NoOne}, saw : SUBSET Runs]

TypeOK ==
  /\ run \in [Runs -> Row]
  /\ older \in [Runs -> SUBSET Runs]
  /\ barred \subseteq Guests
  /\ unended \subseteq Guests
  /\ admitting \subseteq Admission
  /\ work \in [Runners -> Work]
  /\ stopping \subseteq Runs
  /\ reporting \subseteq Devices \X Runs

EmptyRow == [ status |-> "absent", backend |-> "cloud", claimedBy |-> NoOne,
              lease |-> "none", hold |-> FALSE, cancel |-> FALSE,
              handedBack |-> FALSE ]

Init ==
  /\ run = [r \in Runs |-> EmptyRow]
  /\ older = [r \in Runs |-> {}]
  /\ barred = {}
  /\ unended = {}
  /\ admitting = {}
  /\ work = [w \in Runners |-> Idle]
  /\ stopping = {}
  /\ reporting = {}

-----------------------------------------------------------------------------
Present(r) == {s \in Runs : QueueOf[s] = QueueOf[r] /\ run[s].status # "absent"}
IsHeld(r) == run[r].status \in Held
IsActive(r) == run[r].status = "queued" \/ IsHeld(r)
IsEnded(r) == run[r].status \in Ended
ClaimNames(e, r) == run[r].claimedBy = e
HoldsRun(e, r) == IsHeld(r) /\ run[r].claimedBy = e
Lapsed(r) == run[r].lease \in {"lapsed", "lost"}
Unnamed(e) == \A r \in Runs : run[r].claimedBy # e

\* Completion and failure keep the conversation's advisory lock from their
\* check to their final update; the other users of the lock are one step here.
LockedByCompletion(r) ==
  \E w \in Runners : /\ work[w].at = "completing"
                     /\ QueueOf[work[w].run] = QueueOf[r]

SessionLocked(r) ==
  \E w \in Runners : /\ work[w].at \in {"completing", "failing"}
                     /\ QueueOf[work[w].run] = QueueOf[r]

\* Every use of an agent by somebody else is checked where it is stored: the
\* check holds the lock that an owner's save takes.  The save of a Factory agent
\* takes none: one between the check and the insert is one after the insert.
CheckedEarlier(r) == TRUE
Permitted(r) == r \notin barred

RowsOnly == UNCHANGED <<older, barred, unended, admitting, work, stopping, reporting>>

\* What the updates of the handlers write into a row.
WithStatus(row, status) == [row EXCEPT !.status = status]
WithLease(row, lease) == [row EXCEPT !.lease = lease]
Unheld(row) == [row EXCEPT !.hold = FALSE]
Asked(row) == [row EXCEPT !.cancel = TRUE]
Withdrawn(row) == [row EXCEPT !.status = "cancelled", !.cancel = TRUE]
Closed(row, status) == [row EXCEPT !.status = status, !.handedBack = FALSE]
Interrupted(row, status, stopped) ==
  [row EXCEPT !.status = status, !.cancel = @ \/ stopped,
              !.handedBack = @ /\ (stopped \/ status = "completed")]
LeasedBy(row, w) ==
  [row EXCEPT !.status = "leased", !.backend = "cloud", !.claimedBy = w,
              !.lease = "live"]
BackInQueue(row) ==
  [row EXCEPT !.status = "queued", !.backend = "cloud", !.claimedBy = NoOne,
              !.lease = "none", !.hold = FALSE, !.handedBack = TRUE]
TakenByName(row, d) ==
  [row EXCEPT !.status = "leased", !.claimedBy = d, !.lease = "live", !.hold = FALSE]
Taken(row, d) ==
  [row EXCEPT !.status = "leased", !.backend = "desktop", !.claimedBy = d,
              !.lease = "live", !.hold = FALSE]

-----------------------------------------------------------------------------
(* Admission: claim_run_with_executor.                                     *)

\* No row yet: the admission goes on to build one, and reads created_at.
BeginAdmission(r, by) ==
  /\ run[r].status = "absent"
  /\ r \notin barred
  /\ by # NoOne => Unnamed(by) /\ \A a \in admitting : a.by # by
  /\ admitting' = admitting \cup
       {[run |-> r, by |-> by, saw |-> IF SerialAdmission THEN {} ELSE Present(r)]}
  /\ UNCHANGED <<run, older, barred, unended, work, stopping, reporting>>

NewRow(by, hold) ==
  IF by = NoOne
    THEN [EmptyRow EXCEPT !.status = "queued", !.hold = hold]
    ELSE [EmptyRow EXCEPT !.status = "leased", !.backend = "desktop",
                          !.claimedBy = by, !.lease = "live"]

\* created_at is read before the insert: the new row is younger than every row
\* its admission could see, and may be older than rows inserted since.
Positions(a) ==
  IF SerialAdmission THEN {Present(a.run)}
  ELSE {S \in SUBSET Present(a.run) :
          a.saw \subseteq S /\ \A s \in S : older[s] \subseteq S}

Insert(a, hold, S) ==
  /\ run[a.run].status = "absent"
  /\ Permitted(a.run)
  /\ hold => a.by = NoOne
  /\ S \in Positions(a)
  /\ run' = [run EXCEPT ![a.run] = NewRow(a.by, hold)]
  /\ older' = [s \in Runs |-> IF s = a.run THEN S
                              ELSE IF s \in Present(a.run) \ S
                                THEN older[s] \cup {a.run}
                                ELSE older[s]]
  /\ admitting' = admitting \ {a}
  /\ UNCHANGED <<barred, unended, work, stopping, reporting>>

\* A queued run goes to the claiming Mac, unless one handed it back.
TakeableAgain(r) == run[r].status = "queued" /\ ~run[r].cancel

Takeable(r) ==
  /\ run[r].status = "queued"
  /\ ~run[r].cancel
  /\ ~run[r].handedBack

\* The insert found a row after all (ON CONFLICT), or the requester was
\* restricted meanwhile and the admission is refused.
AdmissionLost(a) ==
  /\ run[a.run].status # "absent" \/ ~Permitted(a.run)
  /\ run' = IF a.by # NoOne /\ Permitted(a.run) /\ Takeable(a.run)
              THEN [run EXCEPT ![a.run] = Taken(@, a.by)]
              ELSE run
  /\ admitting' = admitting \ {a}
  /\ UNCHANGED <<older, barred, unended, work, stopping, reporting>>

\* A Mac claims a request that already has its row.
TakeExisting(d, r) ==
  /\ Takeable(r)
  /\ r \notin barred
  /\ Unnamed(d) /\ \A a \in admitting : a.by # d
  /\ run' = [run EXCEPT ![r] = Taken(@, d)]
  /\ RowsOnly

\* The server claims it again while no Mac is ready: the hold ends.
ReleaseToCloud(r) ==
  /\ run[r].status = "queued" /\ run[r].hold
  /\ r \notin barred
  /\ run' = [run EXCEPT ![r] = Unheld(@)]
  /\ RowsOnly

AdmissionDropped(a) ==
  /\ admitting' = admitting \ {a}
  /\ UNCHANGED <<run, older, barred, unended, work, stopping, reporting>>

-----------------------------------------------------------------------------
(* Cloud runners: lease, mark running (also the heartbeat), complete, fail. *)

InTurnByRunning(r) ==
  \A s \in Runs \ {r} :
    QueueOf[s] = QueueOf[r] => ~(run[s].status = "running" /\ run[s].lease = "live")

InTurn(r) ==
  \A s \in Runs \ {r} :
    QueueOf[s] = QueueOf[r] /\ IsActive(s) =>
      /\ s \notin older[r]
      /\ ~(run[s].status = "running" /\ run[s].lease = "live")

EligibleStopped(r) ==
  /\ run[r].status = "queued" \/ (IsHeld(r) /\ Lapsed(r))
  /\ r \in MacOnly => run[r].backend = "cloud"
  /\ ~run[r].hold
  /\ InTurn(r)

Eligible(r) ==
  /\ run[r].status = "queued" \/ (IsHeld(r) /\ Lapsed(r))
  /\ r \in MacOnly => run[r].backend = "cloud"
  /\ ~run[r].cancel
  /\ ~run[r].hold
  /\ InTurn(r)

RunnerLease(w, r) ==
  /\ work[w] = Idle /\ Unnamed(w)
  /\ ~SessionLocked(r)
  /\ Eligible(r)
  /\ run' = [run EXCEPT ![r] = LeasedBy(@, w)]
  /\ work' = [work EXCEPT ![w] = [at |-> "leasing", run |-> r]]
  /\ UNCHANGED <<older, barred, unended, admitting, stopping, reporting>>

\* The row's answer to the runner.  A requester no longer permitted ends the
\* run here; a heartbeat that reads a stop request makes the runner abandon it.
RunnerAnswer(w) ==
  LET r == work[w].run
      refused == r \in barred
      stopped == work[w].at = "beaten" /\ run[r].cancel
  IN /\ work[w].at \in {"leasing", "started", "beaten"}
     /\ run' = IF refused /\ IsHeld(r)
                 THEN [run EXCEPT ![r] = Withdrawn(@)]
                 ELSE run
     /\ work' = [work EXCEPT ![w] =
                   IF refused \/ stopped THEN Idle
                   ELSE [at |-> IF @.at = "leasing" THEN "leased" ELSE "running",
                         run |-> r]]
     /\ UNCHANGED <<older, barred, unended, admitting, stopping, reporting>>

StopsMine(w, r) == HoldsRun(w, r) /\ run[r].backend = "cloud" /\ run[r].cancel

\* First half of mark_runner_run_running: acknowledge_runner_stop.  The first
\* call of a turn ignores the answer's status; a heartbeat ends the turn.
AcknowledgeStop(w) ==
  LET r == work[w].run
  IN /\ work[w].at \in {"leased", "running"}
     /\ StopsMine(w, r)
     /\ run' = [run EXCEPT ![r] = WithStatus(@, "cancelled")]
     /\ work' = [work EXCEPT ![w] =
                   IF @.at = "leased" THEN [@ EXCEPT !.at = "running"] ELSE Idle]
     /\ UNCHANGED <<older, barred, unended, admitting, stopping, reporting>>

NoStopYet(w) ==
  /\ work[w].at \in {"leased", "running"}
  /\ ~StopsMine(w, work[w].run)
  /\ work' = [work EXCEPT ![w].at = IF @ = "leased" THEN "starting" ELSE "beating"]
  /\ UNCHANGED <<run, older, barred, unended, admitting, stopping, reporting>>

\* Second half: mark_run_running.  A refusal makes the runner abandon the run.
MarkRunning(w) ==
  LET r == work[w].run
      mine == HoldsRun(w, r) /\ run[r].backend = "cloud" /\ run[r].lease = "live"
  IN /\ work[w].at \in {"starting", "beating"}
     /\ run' = IF mine THEN [run EXCEPT ![r] = WithStatus(@, "running")] ELSE run
     /\ work' = [work EXCEPT ![w] =
                   IF ~mine THEN Idle
                   ELSE [at |-> IF @.at = "starting" THEN "started" ELSE "beaten",
                         run |-> r]]
     /\ UNCHANGED <<older, barred, unended, admitting, stopping, reporting>>

\* complete and fail take the lock and check the lease; the reply is
\* published before the second step, which only checks who holds the run.
\* A runner also fails its run when it has no sign-in to use, and when its
\* heartbeat got lost or timed out.
BeginEnding(w, at) ==
  LET r == work[w].run
  IN /\ \/ work[w].at = "running"
        \/ work[w].at \in {"leased", "beating", "beaten"} /\ at = "failing"
     /\ ~SessionLocked(r)
     /\ HoldsRun(w, r) /\ run[r].lease = "live"
     /\ work' = [work EXCEPT ![w].at = at]
     /\ UNCHANGED <<run, older, barred, unended, admitting, stopping, reporting>>

StepAsStatus(at) == at
EndStatus(at) == IF at = "completing" THEN "completed" ELSE "failed"

CommitEnding(w) ==
  LET r == work[w].run
  IN /\ work[w].at \in {"completing", "failing"}
     /\ run' = IF HoldsRun(w, r)
                 THEN [run EXCEPT ![r] = Closed(@, EndStatus(work[w].at))]
                 ELSE run
     /\ work' = [work EXCEPT ![w] = Idle]
     /\ UNCHANGED <<older, barred, unended, admitting, stopping, reporting>>

\* The runner crashes, loses its connection, times out or is refused; an open
\* transaction rolls back and frees the lock.
RunnerGone(w) ==
  /\ work[w] # Idle
  /\ work' = [work EXCEPT ![w] = Idle]
  /\ UNCHANGED <<run, older, barred, unended, admitting, stopping, reporting>>

-----------------------------------------------------------------------------
(* The owner's Macs.                                                       *)

HoldsLive(d, r) ==
  HoldsRun(d, r) /\ run[r].backend = "desktop" /\ run[r].lease = "live"

FirstWaiting(r) ==
  \A s \in older[r] : run[s].status \notin {"queued", "running"}

\* A Mac's claim keeps its place: nothing older is active, nothing else runs.
MayStart(r) ==
  \A s \in Runs \ {r} : QueueOf[s] = QueueOf[r] /\ IsActive(s) =>
    s \notin older[r] /\ run[s].status # "running"

\* A Mac starts its turn only when this says so.
Admit(d, r) ==
  /\ ~SessionLocked(r)
  /\ HoldsLive(d, r)
  /\ MayStart(r)
  /\ run' = [run EXCEPT ![r] = WithStatus(@, "running")]
  /\ RowsOnly

\* The row takes the phase of the published reply.  A Mac publishes "queued"
\* (leased) until it is admitted and "processing" (running) from then on.
PublishProgress(d, r, phase) ==
  /\ HoldsLive(d, r)
  /\ phase \in Held => phase = run[r].status
  /\ run' = [run EXCEPT ![r] = WithStatus(@, phase)]
  /\ RowsOnly

DesktopCancel(d, r) ==
  /\ HoldsLive(d, r)
  /\ run' = [run EXCEPT ![r] = WithStatus(@, "cancelled")]
  /\ RowsOnly

\* hand_back_to_cloud checks no lease: a lapsed Mac may still hand back.
HandBack(d, r) ==
  /\ HoldsRun(d, r) /\ run[r].backend = "desktop"
  /\ ~run[r].cancel
  /\ r \notin MacOnly
  /\ run' = [run EXCEPT ![r] = BackInQueue(@)]
  /\ RowsOnly

\* A Mac that lost its turn reports it: the server looks up the run this Mac
\* claims, then ends that run whoever holds it by then.
ReportInterrupted(dev, r) ==
  /\ run[r].backend = "desktop"
  /\ \E d \in Desktops : DeviceOf[d] = dev /\ run[r].claimedBy = d
  /\ reporting' = reporting \cup {<<dev, r>>}
  /\ UNCHANGED <<run, older, barred, unended, admitting, work, stopping>>

EndInterrupted(dev, r, status, stopped) ==
  /\ <<dev, r>> \in reporting
  /\ stopped => status = "cancelled"
  /\ run' = IF IsHeld(r)
              THEN [run EXCEPT ![r] = Interrupted(@, status, stopped)]
              ELSE run
  /\ reporting' = reporting \ {<<dev, r>>}
  /\ UNCHANGED <<older, barred, unended, admitting, work, stopping>>

-----------------------------------------------------------------------------
(* Stop requests, withdrawn permissions and the release sweeps.            *)

\* The first update ends a run nobody executes.
StopEnds(r) ==
  /\ run[r].status = "queued" \/ (IsHeld(r) /\ Lapsed(r))
  /\ run' = [run EXCEPT ![r] = Withdrawn(@)]
  /\ RowsOnly

StopMisses(r) ==
  /\ IsHeld(r) /\ ~Lapsed(r)
  /\ stopping' = stopping \cup {r}
  /\ UNCHANGED <<run, older, barred, unended, admitting, work, reporting>>

\* The second update asks the executor to stop; it finds no row when the run
\* is not held any more, and the caller is told the request already finished.
StopAnswers(r) ==
  /\ r \in stopping
  /\ run' = IF IsHeld(r) THEN [run EXCEPT ![r] = Asked(@)] ELSE run
  /\ stopping' = stopping \ {r}
  /\ UNCHANGED <<older, barred, unended, admitting, work, reporting>>

\* The owner stops the requester from using the agents, or makes the default
\* agent private: the save holds the lock Insert takes, and ends the requester's
\* active runs.
Restrict(r) ==
  /\ r \in Guests \ barred
  /\ barred' = barred \cup {r}
  /\ run' = IF IsActive(r)
              THEN [run EXCEPT ![r] = Withdrawn(@)]
              ELSE run
  /\ UNCHANGED <<older, unended, admitting, work, stopping, reporting>>

\* The owner makes a Factory agent private: its definition is saved alone.
SavePrivate(r) ==
  /\ r \in Guests \ barred
  /\ barred' = barred \cup {r}
  /\ unended' = unended \cup {r}
  /\ UNCHANGED <<run, older, admitting, work, stopping, reporting>>

\* A second transaction ends the active runs, under the lock Insert takes; an
\* error in it is only logged, and a restart forgets it.
EndOthers(r) ==
  /\ r \in unended
  /\ unended' = unended \ {r}
  /\ run' = IF IsActive(r)
              THEN [run EXCEPT ![r] = Withdrawn(@)]
              ELSE run
  /\ UNCHANGED <<older, barred, admitting, work, stopping, reporting>>

Permit(r) ==
  /\ r \in barred
  /\ barred' = barred \ {r}
  /\ UNCHANGED <<run, older, unended, admitting, work, stopping, reporting>>

ReleaseStoppedMac(r) ==
  /\ IsHeld(r) /\ run[r].cancel /\ Lapsed(r) /\ run[r].backend = "desktop"
  /\ run' = [run EXCEPT ![r] = WithStatus(@, "cancelled")]
  /\ RowsOnly

ReleaseStopped(r) ==
  /\ IsHeld(r) /\ run[r].cancel /\ Lapsed(r)
  /\ run' = [run EXCEPT ![r] = WithStatus(@, "cancelled")]
  /\ RowsOnly

\* release_lost_desktop_runs, first pass: the request already has its
\* terminal reply, whose state the run takes.
ReleaseAnswered(r, status) ==
  /\ IsHeld(r) /\ run[r].backend = "desktop" /\ Lapsed(r)
  /\ run' = [run EXCEPT ![r] = WithStatus(@, status)]
  /\ RowsOnly

\* Second pass: nobody took the run over within the grace.
LostRunning(r) ==
  run[r].status = "running" /\ run[r].backend = "desktop" /\ run[r].lease = "lost"
IsLost(r) == IsHeld(r) /\ run[r].backend = "desktop" /\ run[r].lease = "lost"

ReleaseLost(r) ==
  /\ IsLost(r)
  /\ run' = [run EXCEPT ![r] = Closed(@, "cancelled")]
  /\ RowsOnly

-----------------------------------------------------------------------------
(* Time.                                                                   *)

LeaseLapses(r) ==
  /\ IsHeld(r) /\ run[r].lease = "live"
  /\ run' = [run EXCEPT ![r] = WithLease(@, "lapsed")]
  /\ RowsOnly

LeaseLost(r) ==
  /\ IsHeld(r) /\ run[r].backend = "desktop" /\ run[r].lease = "lapsed"
  /\ run' = [run EXCEPT ![r] = WithLease(@, "lost")]
  /\ RowsOnly

HoldEnds(r) ==
  /\ run[r].status = "queued" /\ run[r].hold
  /\ run' = [run EXCEPT ![r] = Unheld(@)]
  /\ RowsOnly

-----------------------------------------------------------------------------
AdmissionNext ==
  \/ \E r \in Runs, by \in Desktops \cup {NoOne} : BeginAdmission(r, by)
  \/ \E a \in admitting, hold \in BOOLEAN, S \in SUBSET Runs : Insert(a, hold, S)
  \/ \E a \in admitting : AdmissionLost(a) \/ AdmissionDropped(a)
  \/ \E d \in Desktops, r \in Runs : TakeExisting(d, r)
  \/ \E r \in Runs : ReleaseToCloud(r)

RunnerNext ==
  \E w \in Runners :
    \/ \E r \in Runs : RunnerLease(w, r)
    \/ RunnerAnswer(w)
    \/ AcknowledgeStop(w)
    \/ NoStopYet(w)
    \/ MarkRunning(w)
    \/ \E at \in {"completing", "failing"} : BeginEnding(w, at)
    \/ CommitEnding(w)
    \/ RunnerGone(w)

DesktopNext ==
  \/ \E d \in Desktops, r \in Runs :
       \/ Admit(d, r)
       \/ \E phase \in Held \cup Ended : PublishProgress(d, r, phase)
       \/ DesktopCancel(d, r)
       \/ HandBack(d, r)
  \/ \E dev \in Devices, r \in Runs :
       \/ ReportInterrupted(dev, r)
       \/ \E status \in Ended, stopped \in BOOLEAN :
            EndInterrupted(dev, r, status, stopped)

ServerNext ==
  \E r \in Runs :
    \/ StopEnds(r) \/ StopMisses(r) \/ StopAnswers(r)
    \/ Restrict(r) \/ SavePrivate(r) \/ EndOthers(r) \/ Permit(r)
    \/ ReleaseStopped(r) \/ ReleaseLost(r)
    \/ \E status \in Ended : ReleaseAnswered(r, status)

TimeNext == \E r \in Runs : LeaseLapses(r) \/ LeaseLost(r) \/ HoldEnds(r)

Next == AdmissionNext \/ RunnerNext \/ DesktopNext \/ ServerNext \/ TimeNext

Spec == Init /\ [][Next]_vars

\* What time and the sweep task guarantee without any executor's help: a lease
\* nobody can renew any more lapses (a Mac's renewal is refused once the stop is
\* thirty seconds old, a runner's next heartbeat ends the run), a lapsed lease
\* grows old, and the sweep passes every ten seconds.
Fairness ==
  \A r \in Runs :
    /\ WF_vars(LeaseLapses(r) /\ run[r].cancel)
    /\ WF_vars(LeaseLost(r))
    /\ WF_vars(ReleaseStopped(r))
    /\ WF_vars(ReleaseLost(r))

FairSpec == Spec /\ Fairness

-----------------------------------------------------------------------------
(* Properties.                                                             *)

\* A row's columns agree: a queued run has no executor and no lease and waits
\* for the cloud, a held run has a lease and an executor of its backend.
HolderMatchesRow ==
  \A r \in Runs :
    /\ run[r].status = "queued" =>
         /\ run[r].backend = "cloud"
         /\ run[r].claimedBy = NoOne
         /\ run[r].lease = "none"
    /\ IsHeld(r) =>
         /\ run[r].lease # "none"
         /\ run[r].claimedBy \in
              (IF run[r].backend = "cloud" THEN Runners ELSE Desktops)

\* A run has started when a runner has it or its Mac was admitted.
Started(r) ==
  \/ run[r].status = "running"
  \/ run[r].status = "leased" /\ run[r].backend = "cloud"

\* One running turn per agent and conversation: run_locks.rs promises that the
\* lease and the admission, which read the other runs of the conversation and
\* then write, never start two of them.  It holds when the admissions of a
\* conversation do not overlap (SerialAdmission), or no row they insert comes
\* to stand before one that has started.
OneTurn ==
  \A r, s \in Runs :
    QueueOf[r] = QueueOf[s] /\ Started(r) /\ Started(s) => r = s

\* Turns start in the order of their requests: no run has started while an
\* older request of the conversation still waits, is claimed, or was handed
\* back to the queue.  Like OneTurn, only while no row is inserted before one
\* that has started, which overlapping admissions may do.
OldestFirst ==
  \A r \in Runs : Started(r) => \A s \in older[r] : ~IsActive(s)

\* Once a Mac handed a run back, no Mac holds it again, whichever claims,
\* admissions and inserts were under way (desktop_takeover.rs).
HandedBackStaysInCloud ==
  \A r \in Runs :
    run[r].handedBack /\ IsActive(r) => run[r].backend = "cloud"

\* A requester who may not use the agent has no active run: a restriction saved
\* while a run is admitted either refuses the run or sees it and ends it
\* (contact_permissions, lock_pair; agent_access, lock_owner).  Between the save
\* of a private Factory agent and the transaction that ends its runs, which may
\* never come, the run goes on; once it has come there is none.
BarredHasNoRun == \A r \in barred \ unended : ~IsActive(r)

\* From a runner's check in complete or fail to its final update, while the
\* reply is being published, no other executor holds the run: the session lock
\* keeps a lease that lapses meanwhile from being taken over.
PublishingIsFenced ==
  \A w \in Runners : work[w].at \in {"completing", "failing"} =>
    LET r == work[w].run IN IsActive(r) => HoldsRun(w, r)

\* A stop request that was answered either asked the executor to stop or found
\* a run that has ended (stop.rs: a queued run is cancelled, a held run records
\* the request, otherwise "This request already finished.").
StopIsHeeded ==
  [][\A r \in stopping \ stopping' : run'[r].cancel \/ run'[r].status \in Ended]_vars

\* An interruption report ends a run only while the reporting Mac is the one
\* that holds it (desktop_interrupted.rs: "Ends this device's run").
InterruptedEndsOwnRun ==
  [][\A p \in reporting \ reporting' :
       IsHeld(p[2]) => \E d \in Desktops :
         DeviceOf[d] = p[1] /\ run[p[2]].claimedBy = d]_vars

\* When a heartbeat's answer makes a runner abandon the run because a stop was
\* requested, the server has already ended it (client.rs, heartbeat).
HeartbeatStopEndedRun ==
  [][\A w \in Runners :
       /\ work[w].at = "beaten" /\ work'[w] = Idle
       /\ run[work[w].run].cancel
       => run'[work[w].run].status \in Ended]_vars

\* A run whose stop was recorded ends, even when its executor never answers
\* again: its lease lapses and the sweep ends it.
StopEventuallyEnds ==
  \A r \in Runs : run[r].cancel ~> IsEnded(r)

\* A run whose Mac let its lease lapse ends or moves to the cloud: it never
\* stays with a lost Mac (release_lost_desktop_runs).
LostMacLetsGo ==
  \A r \in Runs :
    IsHeld(r) /\ run[r].backend = "desktop" /\ Lapsed(r)
      ~> IsEnded(r) \/ run[r].backend = "cloud"

-----------------------------------------------------------------------------
(* The promise the rows keep.                                              *)

RunState(r) == CASE run[r].status = "absent" -> "none"
                 [] run[r].status = "queued" -> "waiting"
                 [] IsHeld(r) -> "held"
                 [] OTHER -> run[r].status

RunHolder(r) == IF IsHeld(r) THEN run[r].claimedBy ELSE NoOne
RunExpired(r) == IsHeld(r) /\ Lapsed(r)

\* Queued runs are only ever cancelled (stop.rs, the permission sweeps).
Contract == INSTANCE RunContract WITH
  WaitingEnds <- {"cancelled"},
  state <- [r \in Runs |-> RunState(r)],
  holder <- [r \in Runs |-> RunHolder(r)],
  expired <- [r \in Runs |-> RunExpired(r)],
  asked <- [r \in Runs |-> run[r].cancel]

\* Every interleaving of the handlers keeps the contract: an executor with a
\* live lease is never replaced, no executor is granted a run that was asked to
\* stop, and an ended run keeps its outcome.
RunsKeepContract == Contract!Spec

=============================================================================
