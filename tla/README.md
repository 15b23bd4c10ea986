# A TLA+ verification of Kordi

Kordi is a chat application in which people and the agents they own talk to each
other.  A message to an agent becomes an *agent run*.  A run may be executed by
the owner's Mac (the desktop application) or, when no Mac takes it, by a pool of
cloud runners; a PostgreSQL database behind `bridges/cloud-server` decides who.
This directory models that core (who may hold a run, how it changes hands, how it
ends, and how the answer reaches the chat) and four services beside it: agents
that ask other agents, scheduled tasks, the event stream that keeps a device's
chats up to date, and calls.  All of them under every interleaving of the
handlers, with crashes, lost messages, lapsed leases and sleeping Macs.

Paths below are relative to the repository's root, `C/` stands for
`bridges/cloud-server/src/cloud_agent_runtime/`.

## 1. Inventory

### 1.1 The agent-run core (modelled)

| part | state it keeps | operations | talks to |
|---|---|---|---|
| admission, `C/runs/claims.rs`, `C/runs/desktop_takeover.rs`, `C/desktop_claim.rs`, `C/claim_route.rs`, `C/desktop_release.rs` | the row of `cloud_agent_fallback_runs`: status, backend, `claimed_by`, lease, `desktop_preferred_until`, `cancel_requested_at`, `error_code`, `created_at` | claim for the cloud or for a Mac, take over a queued run, release the hold, hand back | permissions (lock and check), projects (which device) |
| cloud leases, `C/runs/leases.rs` | the same row | lease the oldest eligible run, mark running, heartbeat, refuse | runners over HTTP |
| ending, `C/runs/completion.rs`, `C/routes.rs` | the row, a transaction that holds the session lock | complete, fail | chat sync publishes the reply meanwhile |
| stopping, `C/runs/stop.rs` | the row | stop (two updates), acknowledge, sweep | terminal replies |
| Mac routes, `C/desktop.rs`, `C/desktop_reply_row.rs`, `C/desktop_interrupted.rs` | the row and the reply row | admit, renew, cancel, publish progress, report an interruption | the Mac |
| terminal replies, `C/runs/terminal_backfill.rs` | nothing of its own; tasks in memory | publish a terminal reply if none, backfill, release runs of lost Macs | chat messages |
| permissions, `agent_access/`, `contact_permissions/` | who may use whose agent | save a restriction and end the requester's runs | locks shared with admission |
| cloud runner, `bridges/cloud-agent-runner/src/` | the run under way | poll, mark running, heartbeat, complete or fail | server |
| Mac lease, `app/desktop/src/features/cloud/cloudDesktopExecutionLease.ts`, `app/desktop/src-tauri/src/chat/turns.rs` | deadline, lost flag, the native turn and its watchdog | claim, renew by timer, give up, start, cancel | server, native runtime |
| Macs' own messages, `cloudSelfAgentStopRequest.ts`, `cloudSelfAgentAbandonedReplies.ts`, `cloudSelfAgentForwardExecution.ts` (beside the lease) | the device's view of the chat | end a reply no run will end, forward the answer of an own turn | chat messages, stop and lookup routes |

The hard behaviours are here: two executors with a view of the same row, leases
that lapse while a request is under way, handlers of several SQL statements,
publications that run outside the transaction that justifies them, a sweep that
races all of them, tasks lost at a restart, and a clock that stops in sleep.  What
makes the parts correct:

* admission and leases: one holder, one turn per conversation, in order; a run a
  Mac gave back stays in the cloud; once a restriction has ended a person's runs,
  that person has no active run;
* ending: a run ends once, an answer is published by the holder only;
* stopping: an answered stop takes effect; a stopped run ends;
* replies: a run that ended on a Mac is answered while the backfill looks at it, a
  terminal reply never turns back into "processing";
* Mac lease: a Mac executes only under a live server lease.

### 1.2 The services beside it (modelled)

| part | state it keeps | operations | talks to |
|---|---|---|---|
| agent exchanges, `C/runs/exchanges/` | `cloud_agent_exchanges`: status, parent, target and resume run, the answer, the deadline; rows of `cloud_agent_fallback_runs` | send, finish, reconcile (before every lease and every poll of a Mac) | run leases, stops, permissions, chat messages |
| scheduled tasks, `bridges/cloud-server/src/scheduled_tasks/` | the task with `next_run_at`, a row for each occurrence, its agent run | sweep due tasks, pause, resume, delete, claim, complete, fail, end a wait for a Mac | runners and Macs |
| chat stream, `chat_sync/store/`, `chat_sync/retention.rs` | numbered events per account, `min_seq`, conversations, messages, members | post, delete, leave, dissolve, expire, page of changes, bootstrap, page of history | devices that pull |
| a device's copy, `app/desktop/src-tauri/src/canonical_sessions/chat_sync/`, `useCloudMessageSync.ts` | cursor, chats, messages, deletions | apply changes, apply a bootstrap, apply history, fall back | server |
| calls, `calls/`, `safety/block_routes.rs` | a call's state and revision, its participants, blocks | start, join, invite, decline, leave, end, block | chat stream, push |
| the app's calls, `useCloudCalls.ts`, `cloudCallState.ts` | the call shown, the call it is in, the calls it saw end | request, hear an event or a push, poll | server |

They are hard for the same reasons: handlers of several statements with no
transaction around them (scheduled tasks), a check outside the transaction it is
for (exchanges, blocks), four channels that tell the same news in different orders
(the app's calls), reads of a stream that is written, expired and cut while a
device is away.  What makes them correct:

* exchanges: the asker is told what the chat shows; it goes on after its own turn,
  once; a settled exchange leaves nothing running; an exchange settles unless the
  target that asked was cancelled;
* scheduled tasks: an occurrence runs once and none is skipped, however many
  servers sweep and stop; what waits for a Mac does not wait for ever;
* chat stream: a device skips nothing, brings nothing back, and catches up;
* calls: an open call has somebody in it, everybody concerned is told, an app never
  goes back to an older view nor shows again what it saw end.

### 1.3 The rest of the system (not modelled)

`PROJECT.json` lists every component with its status.  The ones with protocol
logic of their own, and what would make them correct:

* **subsessions** (`C/runs/subsessions.rs`, `C/subsession_execution.rs`): queues
  of follow-ups with an executor of their own and a heartbeat.  Follow-ups run in
  order, a stale executor is replaced once.
* **group replies** (`C/runs/group_mentions.rs`, `delivery.rs`): one run answered
  in several conversations.
* **provider authentication** (`C/provider_auth*.rs`): snapshots uploaded by
  devices and refreshed by runs; an older snapshot never replaces a newer one.
* **shared documents**, **pool workers**, the **realtime socket**: each claims,
  times out and retries.
* **connection pool** (`pg/`): a completion keeps one connection while it asks for
  others.
* Account, organization, memory, digest, connector, notification and UI parts are
  storage, I/O, or presentation over the parts above.

## 2. Plan

Done, most important first: `RunContract` and `AgentRuns`, `DesktopLease`,
`AgentReplies`, `AgentExchanges`, `ScheduledTasks`, `ChatStream`, `Calls` and
`CallsApp`.  Each is checked, and the safety properties of each are proved, as are
the refinements: everything that keeps rows of agent runs implements `RunContract`,
the exchanges implement `ExchangePromise`, and each composition implements what it
extends.

Next, in this order:

1. *Subsessions*: queue order across executors and the stale-executor takeover.
2. *Group replies*: the publication of one run in many conversations, which
   extends `AgentReplies`.
3. The realtime socket over `ChatStream`: what it sends and what devices
   acknowledge, beside their pulls.
4. *Provider authentication*, *shared documents*, the connection pool.

## 3. Modules

### RunContract
The abstract promise, independent of executors, locks and sweeps: a run waits or
is held; it is granted only when nobody holds it or the holder's lease ran out, and
never once a stop was asked for; it may be returned; it ends once, with an outcome
only a held run can have unless it is one of `WaitingEnds`, which says how a run may
end while nobody holds it.  `PromisesKept` says what that is worth to anybody who
looks at a run.

Four modules keep it, each through a view of its own rows:

| view | runs | outcomes of a waiting run |
|---|---|---|
| `AgentRuns!Contract` | the requests of a conversation | cancelled |
| `DesktopLease!LeaseContract` | the one run of a claim, whose lease has run out when the server's clock says so | none: only the holder ends it there |
| `ScheduledTasks!OccurrenceContract` | the runs of a task's occurrences | failed: the end of a wait for a Mac |
| `AgentExchanges!CallerContract`, `TargetContract` | the runs that ask, and those that answer | cancelled |

A reconciliation moves one run that asks and one that answers at once, which is why
the exchanges keep the contract for each of the two kinds.

### ExchangePromise
The abstract promise of an exchange, which knows nothing of runs: it is asked while
the turn that asks is under way, answered once, by a reply the conversation shows or
by the news that none comes, and goes on once, when the turn that asked has ended by
itself.  Three kinds of turns may ask: the request's, one that answers an exchange, and
one that goes on.  `AgentExchanges!Promise` reads it off the exchanges' rows; a turn
has the name of its run, so the asker of an exchange is its parent.

### AgentRuns
One row per request, with the columns the protocol depends on, and the state the
handlers keep between their statements.

| variable | in the code |
|---|---|
| `run[r]` | the row: `status`, `execution_backend`, `claimed_by`, `lease_expires_at` as none / live / lapsed / lost, `desktop_preferred_until > now()`, `cancel_requested_at`, `error_code = 'desktop_released'` |
| `older[r]` | which rows of the conversation have a smaller `created_at` |
| `barred` | guests' requests whose requester may not use the agent at the moment |
| `unended` | guests whose restriction the save of a Factory agent recorded and whose runs it has yet to end |
| `admitting` | calls of `claim_run_with_executor` between lookup and insert |
| `work[w]` | where a runner, and the handler it called, is between two statements |
| `stopping` | calls of `stop` between the two updates |
| `reporting` | calls of `interrupted` between the select and the update |

A handler that is one statement, or several under one lock against everybody who
could tell the difference, is one action; every other handler is one action per
statement: stop (`StopEnds`/`StopMisses`, `StopAnswers`), heartbeat and mark running
(`AcknowledgeStop`/`NoStopYet`, `MarkRunning`, `RunnerAnswer`), completion and
failure (`BeginEnding`, `CommitEnding`), interruption (`ReportInterrupted`,
`EndInterrupted`), admission (`BeginAdmission`, `Insert`, `AdmissionLost`).
`RunnerGone` is a runner's crash, its lost connection, or a refused call at any of
these places.  A runner identity is fresh for each poll (`client.rs`,
`for_execution`) and a Mac's claim identity for each claim, so the model uses an
identity again only when no row names it.

Time appears only as what it makes possible: a live lease may lapse
(`LeaseLapses`), a lapsed Mac lease becomes old enough for the sweep
(`LeaseLost`), a hold ends (`HoldEnds`).  Any order with the handlers is allowed,
so every duration is covered.

A restriction comes in two ways.  Contact permissions and the default agent's access
are saved in the transaction that ends the requester's runs (`Restrict`,
`agent_access/mod.rs:178-199`).  A Factory agent's definition is saved by itself
(`SavePrivate`, `cloud_agents/routes.rs:275-285`), and the runs are ended by a later
transaction (`EndOthers`, `agent_access/mod.rs:201-217`) whose error is only logged: it
may never come, and nothing in the model makes it come.  `BarredHasNoRun` therefore
speaks of the guests outside `unended`; for the others, admission, leases and heartbeats
refuse what is new, and what is active stays so.  That save takes no lock admission
holds, so it may fall between an admission's check and its insert; the run is then
active under a restriction that is `unended`, as after a save behind the insert.

Abstractions: routes, prompts, sandboxes and scopes are not there; a project
session is a request of `MacOnly`; a permission is membership in `barred`, with
`Insert`'s check, the two saves and `RunnerAnswer`'s refusal at the statements
where the locks put them.  `PublishProgress` takes from the Mac that it reports
"processing" only after its admission, the order in which
`cloudSelfAgentRequestExecution.ts` calls the server (the server itself does not
check it).  The select and the updates of the sweep's first pass are one step:
its update repeats the condition on the lease.  Rows inserted already failed for an
unavailable project are left out; they are ended rows that nothing reads.

### AgentReplies
Extends `AgentRuns` with the chat's reply for each request: its delivery state,
the publications asked for (`due`), the ones that have read and are about to write
(`writing`), and the completions that have published but not committed
(`answered`).  Every handler of `AgentRuns` that ends a run also does here what it
does to the reply; the others leave it alone (`QuietNext`).  `PublicationLost` is a
server restart or a failed publication, which the code only logs.  The backfill looks
at a run for fifteen minutes after its end (`terminal_backfill.rs:33-36`): `WindowCloses`
adds the run to `past`, at any moment, after which neither pass asks for a publication;
one already under way may still come.

The owner's Macs also post terminal messages beside the run's reply, and the server
counts them when it looks for a terminal reply (`ReplyStates`).  A Mac whose stop
was answered "already finished" (`told`) ends a reply it still sees processing
(`StopEndsReply`, `cloudSelfAgentStopRequest.ts`); a Mac that finds a processing
reply idle for half an hour and its run ended posts a failure (`EndAbandoned`,
`cloudSelfAgentAbandonedReplies.ts`); both use one message id, so `notice` keeps the
first.  A Mac forwards the answer of a turn it ran by itself (`PostOwnAnswer`,
`cloudSelfAgentForwardExecution.ts`).  A device's view of the chat is taken to be
current when the server answers and may be old when it posts.
Group replies are left out: one reply per request.

### DesktopLease
The agreement by the clock that `AgentRuns` leaves out, for one claim of one Mac.
`now` is the wall clock; the server's lease (`until`) counts from when the server
handles a claim or renewal, the Mac's `deadline` from when it sent it.  `request`
is the one request under way, which may take any time, be refused, or be lost in
either direction.  `left` is what the native watchdog's clock still allows: it is
set from the deadline plus `Lag` (the poll interval and the time a cancelled turn
needs), counts down only while the Mac is awake, and `slept` notes that the Mac
slept during a turn since it was set.  `Stop`, `TakeOver` and `End` are the rest of
the server.

### AgentExchanges
The exchanges of one request, each with a target run that answers and a
continuation of the run that asked.

| variable | in the code |
|---|---|
| `runs[r]` | the rows of the request, the targets and the continuations: status, with `held` for a live and `lapsed` for a lapsed lease, `mac` for `execution_backend = 'desktop'`, `stop` for `cancel_requested_at` |
| `exchanges[x]` | the row of `cloud_agent_exchanges`, and whether its reply is public |
| `late` | exchanges whose `deadline_at` has passed |
| `permitted` | what `authorize` finds of membership, access and the source message |
| `locked` | `finish` or `reconcile` between its check and its transaction's end |
| `project` | the conversation belongs to a project, whose runs stay on Macs |

Any run whose owner made the request may send (`exchanges/mod.rs:99-103`): the
request's, the continuations, and the targets of agents of the requester's own
(`OwnRuns`; `OwnAgents` are the exchanges that ask such an agent).  That such a target is
told not to delegate again is a sentence of its prompt, and no guard here.

`send`, `finish` and `reconcile` hold the conversation's lock (`lock_run`).
`finish` and `reconcile` call `authorize` through the pool, so what it finds may be
old when they commit: each is two actions (`FinishChecks`/`FinishCommits`,
`ReconcileChecks`/`ReconcileCommits`), and everything that takes no lock happens in
between.  `OperationFails` is an error or a restart, which takes the transaction
back.  Who holds a run, and that only its holder is heard, is `AgentRuns`; here a run
is taken, lapses, is stopped and ends.

### ScheduledTasks
One daily task; occurrence `d` is due when `clock` reaches `d`.  Nothing in this part
of the code is a transaction of more than one statement, so a sweep is four actions
(`SweepReads`, `SweepCreates`, `SweepEnqueues`, `SweepAdvances`), of each of several
servers, and may stop after any of them.  `agentRuns[d]` is the occurrence's run and
who holds it, `occurrences[d]` the row the owner sees; what a claim or an ending has
yet to write there is in `marks`, and `MarkIsLost` is a restart before it did.
`expiring` is `expire_waiting` between its select and its two updates.  `passedOver`
notes what a resume left behind and is read by properties only.

### ChatStream
The stream of one account and one device of it.  `stream` has every event ever
appended, `kept` the numbers of those whose rows still exist; `SweepExpired` removes a
prefix and raises `minSeq`, `DissolveChat` removes a conversation's rows from the
middle.  `sync` is the pull under way: a page of changes is read in two statements
(`ReadHead`, `ReadRows`), a bootstrap in one snapshot; `page` is a page of history,
read beside it.  `ApplyChanges`, `ApplySnapshot` and `ApplyPage` are the three
transactions of the device's database, with the order in which `apply.rs` applies
conversations, events and messages.  `bootedAt` is read by properties only.

### Calls and CallsApp
`Calls` has the calls of one conversation.  An operation is a transaction on the
locked row and one action; `start` reads the blocks before it locks anything a block
would wait for, and is two (`StartChecks`, then one of three), and a block ends the
calls it found some statements earlier (`BlockFindsCall`, `BlockEndsCall`).
`callEvents` is the sync stream of the account `Me`.

`CallsApp` extends it with an app of `Me`: `diffAt` and `pushAt` say how much of the
stream the diff sync and the socket delivered, `answer` and `listing` are a request
and a poll under way, and `shown`, `current` and `endedSeen` are the three pieces of
state in `useCloudCalls.ts`.  A poll remembers whether anything arrived since it was
sent (`stale`), which is what the generation counters decide.

### MCServices and MCSafety
The services share no state with each other, so a behaviour of the instances is about
one of them: `focus` says which, and all the others stay as they start.  `MCServices`
has an action for each focus; steps that may happen at any moment and any number of
times (a restart, a lost request, a lease that runs out) are counted by `faults` and
happen `MaxFaults` times.  `MCSafety` adds a queue of two requests (`AgentRuns`) and
a Mac's turn (`DesktopLease`) as further foci, and leaves the restarts of the app,
which only forget, to the other.

## 4. Checks

All runs are in `PROJECT.json`; each MC module holds the instances' constants.

| run | instance | shows |
|---|---|---|
| `runs_handovers` | one guest request, two runners, two Macs (328,348 states) | the row's columns agree, a handed-back run stays in the cloud, a barred requester has no run once the restriction has ended them, a publication is fenced, `AgentRuns` implements `RunContract`; a stopped run ends, a lost Mac lets go |
| `replies_answers` | one request, one runner, one Mac (553,992 states) | replies: a cancelled reply is final, a terminal one never processes again, it is published before the run ends, and a run that ended on a Mac gets one unless the backfill's window closes |
| `safety` | the foci below, one behaviour each (1.4 million states) | what no step of the services, the queue or the Mac's turn may do |
| `progress` | the same services, few faults (217,311 states) | the app shows the call there is, a device catches up, a wait for a Mac ends, sweeps catch up, exchanges settle but for what a cancelled target asked; the runs of occurrences and exchanges keep `RunContract`, exchanges keep `ExchangePromise` |
| `runs_stop`, `runs_interrupted`, `runs_heartbeat`, `runs_overlap`, `replies_stopped`, `replies_refused`, `lease_sleep`, `stream_dissolved` | small | a counterexample each, section 6 |

The foci of `safety`, with what their properties say:

| focus | instance | states |
|---|---|---|
| `queue` | two requests of one conversation, one `MacOnly`, one runner, one Mac: one turn at a time, oldest first, when admissions do not overlap | 527,664 |
| `turn` | Lease 4, Watchdog 2, Lag 1, Grace 1, until time 10: the Mac executes only under its lease unless it slept, starts only under it in any case, a stop bounds the turn; the server's clock keeps `RunContract` | 325,324 |
| `calls`, `app` | two accounts; two calls as the server has them, one call as the app has it, revisions to 3: an open call is occupied, events tell it, an ended call is final, the app never goes back and never shows again what it saw end | 21,948 and 185,448 |
| `chat` | two chats, three events, pages of two, two faults: a device skips nothing, what it misses is still to come, it keeps deletions and removals | 146,404 |
| `sweeps` | two servers, two occurrences, two stops: none is skipped (that each runs once is the contract, in `progress`) | 45,120 |
| `waits` | one server, one occurrence, Macs and runners, two stops: a completed occurrence was answered | 9,132 |
| `exchange` | one exchange with everything that can happen to it | 116,200 |
| `nested` | two exchanges, the first with an agent of the requester's own, the second asked by the first's continuation or by its target: continues in turn, quiet at the end (told what is shown is the promise, in `progress`) | 18,528 |

Why the bounds are enough.

* One request suffices for everything about one row: no statement about a run
  reads another row except the turn order.  Two runners and two Macs are the least
  with an old and a new holder of each kind; identities are reused when no row
  names them, so a run can change hands any number of times.
* The turn order compares pairs of requests, so two are enough for a violation.
  The queue has one runner: a lapsed holder's identity stays in the row, so its
  crossing with a new runner in *the same* run is in `runs_handovers`, and two
  runners on *two* runs are covered by the theorems `OneTurnAtATime` and
  `TurnsInOrder`, which hold for any number.  Its admissions do not overlap
  (`SerialAdmission`); `runs_overlap` is the instance where they do, and the theorems
  say that what it shows is the only way to break the order.
* The durations keep the code's order (Watchdog 40 s + Lag < Lease 45 s).
  `MaxTime` leaves a claim, a renewal, a lapse and a takeover, and a stop followed by
  its whole bound (1 + 2 + 1); the theorems need neither number.  (The code's Grace
  of 30 s lies below Watchdog too; only the sum is used.)
* Three events and pages of two are the least with a full page and a next one, a hole
  before the end of a page, and a message with its deletion and a removal behind it;
  two chats tell a page's removal from what else it mentions.
* Two occurrences are the least of which one can be skipped, two servers the least
  that repeat each other's sweep, two stops enough for a sweep and an expiry.
* A second exchange matters as the child of the first one's continuation or of its
  target, which `nested` has; as its sibling it shares nothing with it but the
  conversation's lock.
* Revisions to 3 cover a start, a change and an end of a call in each order; a
  second call is there for what survives the first one's end.

Every invariant and every action property of the passing runs is a theorem as well,
for every value of these constants (the turn order with its one exception, section 5).  So are the types of all modules, and with them
`ToldWhatIsShown` and `OccurrenceRunsOnce`, which follow from the promise and the
contract; no run repeats them, except the type of the run model.

`LeaseKeepsContract` is written so that TLC looks at the contract only in the few
steps that change what the contract sees; `LeaseImplementsContract` proves it together
with `LeaseContract!Spec`, which says the same.  The services' runs are in `progress`
with `project` false: the theorems have no such bound.

`CHECK_DEADLOCK FALSE` stands in each configuration since a system whose requests
have all ended, a Mac whose turn is over, or a service at its bounds, may stop.

### Fairness

`FairSpec` assumes nothing of executors, requesters or handlers.  It assumes that
a lease nobody renews lapses, that a lapsed lease grows old, and that the sweep
(every ten seconds, `server` background task) keeps passing.
`WF(LeaseLapses(r) /\ run[r].cancel)` needs an argument: a renewal keeps a live
lease live, so a lease of an ordinary run may stay live for ever, but a Mac's
renewal is refused when the stop is thirty seconds old (`C/desktop.rs`, `renew`)
and a runner's next heartbeat ends the run instead of renewing it (`C/routes.rs`).

`RepliesFairSpec` assumes the backfill keeps passing (every minute) and strong
fairness of a publication's two steps: publications may be lost any number of
times, not for ever.  `WindowCloses` is neither fair nor excluded: it may happen at
any time after a run's end, and `LostMacRunIsAnswered` promises an answer or a closed
window.  A run lost long before the sweep finds it is closed without an answer, which
is that second case.

`ProgressSpec` states the fairness of each service in its focus.

* App: the diff sync delivers, answers arrive and the app polls for ever
  (`useCloudCalls.ts` repeats the poll by timer); a poll can be made stale any number
  of times by news, but not for ever, since calls change finitely often there, hence
  strong fairness of its application.  Pushes are not assumed.
* Device: the sync is repeated by timer and after each event, and every step of it
  goes on; requests fail `MaxFaults` times.
* Scheduled tasks: servers sweep for ever, and the expiry passes with them
  (`worker.rs`).  Of Macs only that a turn on one ends or its lease lapses is assumed
  (`TurnIsOver`); nobody need claim anything.  Strong fairness of `ExpiryReads`:
  Macs may take an occurrence and vanish again and again, but not at every single
  pass of the expiry.
* Exchanges: every poll of a runner or a Mac reconciles, a stopped run ends (that is
  `StopEventuallyEnds` of `AgentRuns`), the deadline passes, and runners poll for
  ever.  Nobody need answer: a target that stays silent is what the deadline is for.
  `ExchangesSettle` excepts what a target asked that was cancelled since (`Abandoned`),
  which the reconciliation skips for ever (section 6).

Conditions of strong fairness that belong to disjoint foci are stated as one
(`RepeatedSteps`): in a behaviour of one focus the condition is that of its step.

## 5. Proofs

| theorem | says |
|---|---|
| `AgentRunsProofs!TypeCorrect`, `RowsAgree`, `HandBackIsFinal`, `RestrictionHolds` | the type invariant and three safety invariants, for any constants; a restriction holds from the transaction that ends the runs on |
| `AgentRunsProofs!TurnsInOrder`, `OneTurnAtATime` | a started turn loses its place in the order, and a conversation its only turn, in one way: an older row is inserted after the turn started (`LateRow`) |
| `AgentRunsProofs!PublicationIsFenced` | no takeover while a completion publishes |
| `RunContractProofs!RunsImplementContract` | `Spec => Contract!Spec` under the refinement mapping |
| `RunContractProofs!RunsKeepPromises` | the handlers end each run once, replace no executor with a live lease, and give nobody a run after a stop |
| `DesktopLeaseProofs!LeaseImplementsContract`, `ScheduledTasksProofs!OccurrencesImplementContract`, `AgentExchangesProofs!ExchangeRunsImplementContract` | the other three modules with runs keep the contract too |
| `AgentRepliesProofs!RepliesImplementRuns`, `RepliesKeepContract` | `AgentReplies` implements `AgentRuns`, hence the contract |
| `AgentExchangesProofs!ExchangesImplementPromise`, `ExchangesKeepPromises` | exchanges keep `ExchangePromise`, and what that is worth: told as shown, one answer, one continuation, in turn |
| `CallsProofs!AppImplementsCalls` | the app beside the server implements `Calls` |
| `DesktopLeaseProofs!TypeCorrect`, `TurnEndsInTime`, `OneExecutor`, `StopBound`, `StartsInTime` | the Mac lease, for all durations with Watchdog + Lag < Lease |
| `AgentRepliesProofs!RepliesTypes`, `CancelledIsFinal`, `AnswersFirst`, `NeverAgain` | the replies: types and the three safety properties |
| `AgentExchangesProofs!ExchangesTypes`, `ToldIsShown`, `ContinuationsWait`, `EndedIsQuiet` | exchanges, any number of them, nested to any depth |
| `ScheduledTasksProofs!ScheduleTypes`, `NoneSkipped`, `CompletedIsAnswered`, `RunsOnce` | a scheduled task, any number of servers and occurrences |
| `ChatStreamProofs!ChatTypes`, `DeviceSkipsNothing`, `DeletionsAreKept`, `RemovalsAreKept`, `MissingIsReachable` | the stream and a device, any chats and page size |
| `CallsProofs!CallsTypes`, `OpenCallsAreOccupied`, `EventsAreTold`, `EndIsFinal` | the server's calls, any number of accounts and calls |
| `CallsProofs!CallsAppTypes`, `AppNeverGoesBack`, `AppForgetsNoEnd` | the app's view of them, however answers, pushes, sync and polls overtake each other |

Assumptions: the named ones of the modules (identities of runners and Macs are
disjoint, `NoOne` is none of them; every request has a conversation, every claim
a Mac; Watchdog + Lag < Lease).  No theorem of the table assumes `SerialAdmission`.

**AgentRuns.**  All but a few actions change at most one row, and each in one of
a few ways, so the proofs first show that each action is one of these *moves*
and that a move preserves what is claimed of the row.

* `RowsInv` strengthens the properties of one row.  `HandedBackStaysInCloud` is
  not inductive by itself: a queued run is in the cloud only because
  `HolderMatchesRow` says so, and a Mac may take a queued run only when it is not
  marked; an admission under way for a Mac keeps the same mark in view.
  `BarredHasNoRun` needs that every admission checks at its insert, not only
  at its beginning.  It loses a guest to `unended` when a Factory agent is saved
  and gets the guest back when the runs are ended.
* `QueueInv`: whether admissions overlap or not, of two present rows of a conversation
  one is older than the other, hence of two started ones, which `OldestFirst` then
  excludes (`OrderGivesOneTurn`).  Every
  way to start a turn looks for older active rows first.  What is left is an insert that
  takes a place before a row that has started, `LateRow`: `TurnsInOrder` says that no
  other step breaks `OldestFirst`, and `OneTurnAtATime` that a behaviour without such an
  insert runs one turn per conversation.  `runs_overlap` shows that the code does not
  exclude the insert.  If admissions did not overlap, there would be none
  (`SerialRowsAreLast`), and the order would hold without exception: this corollary,
  `SerialTurns`, says what a session lock in admission would give, and is not counted
  among the results about the code.
* `Fenced`: from a runner's check to its final update it still holds the run, or
  the run has ended.  A lease needs the session lock, the hand-back and the Mac's
  claim need a holder or a status that a cloud-held run does not have, and the
  remaining actions only end runs.

**One contract, four implementations.**  `RunContractProofs` maps initial states to
initial states and each move to a step of the contract, or a stutter when the move
changes a column the contract does not see (a hold, `running` for `leased`).
`AgentReplies` inherits it: each of its steps is one of `AgentRuns` or a stutter.
`DesktopLease` shows that the durations do what the contract leaves open: a takeover
waits for `until`, and `StopInv` says that a run which was asked to stop is with the
Mac or has ended, so that nobody is granted it again.
In `ScheduledTasks` each step that touches a run is one of a few moves of that run, the
contract's steps among them.
In `AgentExchanges` every step changes
at most one run of each kind, and each in one of six ways (`RowMove`), whoever makes
the change: a handler of the run or the reconciliation; a lemma turns each of the six
into a step of the contract over any class of runs (`RowMoveSeen`), and the two classes
cite it.

**ExchangePromise.**  A step changes at most one exchange, in one of five ways
(`ExchangeMove`).  The promise speaks of phases only, so what the code reads of runs has
to be said of exchanges: a run that sends is the request's, a target of an exchange that
still waits for it, or the continuation of one that is resuming; and a parent that ended
by itself is one whose exchange says so.  The second
is `SettledInv`: a target that ended by itself has left its answer, a continuation has
ended its exchange, since `finish` ends a run and updates its exchange in one
transaction and everybody else only cancels (`WhoEndsContinuations`).
It also says that an exchange under reconciliation has not ended, as nothing ends one
while the conversation's lock is held: without that, reconciliation could turn one
end into another.

**DesktopLease.**  The invariant relates the two clocks: the deadline of a live
claim or of a request that was answered is at most `Watchdog` after the sending,
and `until` at least `Lease` after it; while a Mac executes without having slept,
`now + left` is at most `deadline + Lag`, hence below `until`.  The takeover needs
`until <= now`, a second conjunct keeps `holder`, and the third relates the
deadline to the last renewal the server grants after a stop.

**AgentReplies.**  It extends `AgentRuns`, and so do its proofs: every step of its own
is a step of `AgentRuns` or leaves the runs alone, so `RowsInv` and `Fenced` carry
over (`RunSteps`).  `CancelledReplyIsFinal` is not inductive: a publication that has
read its run's status may write much later, so `WritingInv` says what a status that
was read still means when it is written.  `EndsWithItsReply` needs `AnsweredInv`, that
a completion past its publication has its reply in the chat, and `Fenced`, that nobody
else ends the run before it does.

**AgentExchanges.**  `ExchangeInv(x)` says what the row of an exchange means for its
two runs, by status; `LockInv` says what `reconcile` knows at its commit: that the
asker's run ended by itself was read at the check, but such a run stays so, while
everything else is read again.  `TurnsInv`: of all runs only the request's own may end
by itself after a stop, since `finish` refuses a stopped run; and for the request's own
`authorize` finds the stop, so that nothing goes on for it.  A stop of the request
while one of its targets goes on with an exchange of its own is no contradiction: the
turn that asked was that target's.

**ScheduledTasks.**  `SweepInv` is what a sweep knows between its statements: every
occurrence before the one it is starting has its run (or was passed over by a resume),
and past `enqueue` so has that one.  Its last update may then set `next_run_at` to the
next occurrence whatever another server or a resume did meanwhile.  `MarksInv` says
what a status that is still to be written means, as a run that is over stays so.

**ChatStream.**  The device's side is `SyncInv`: a page of changes on its way starts at
the cursor and has no hole, a snapshot on its way is not older than the cursor and has
no chat whose removal it covers.  The server's side is `StreamInv`: a removal is the
last event of its chat, a deleted message is not posted.  `NothingSkipped` then follows
from the fact that a page without a hole contains every kept number it passes.  The
last of a set of numbers is a `CHOOSE`; that it exists is proved from the
well-foundedness of `<` on the naturals.

`MissingIsAhead` asks more: that what the device lacks can still reach it, as a row
beyond its cursor or, where rows are gone, as a cursor below `minSeq`, which makes it
fetch everything.  `RowsInv` says which rows a sweep or a dissolution may have removed:
every message of a chat the account is in, and the removal from a chat it left that
still exists, is kept or at most `minSeq`.  `RemovalsApplied` is what puts a removal
the device has not seen beyond its cursor.

**Calls.**  The stream holds growing revisions because every change raises the
revision in the transaction that publishes it; the invariant adds that no event is
ahead of its call, and that an ended one is told last.

**CallsApp.**  Every step of the server is one of `Calls`, so its invariants carry over.
Whatever is on its way to the app, or shown, was true of the call once (`HearsWhatIs`),
and revisions only grow; a poll that is not out of date was read after everything the
app had applied when it asked, hence is not behind what is shown (`PollNotBehind`).

Only model-checked: the liveness properties (`StopEventuallyEnds`, `LostMacLetsGo`,
`LostMacRunIsAnswered`, `ShowsTheCall`, `DeviceCatchesUp`, `WaitForMacEnds`,
`SweepsCatchUp`, `ExchangesSettle`), as liveness under fairness and ENABLED are out of
the prover's reach.  No module declares a RECURSIVE operator
and no proof is by induction over data.

## 6. What the runs found

Each of these is a run with a counterexample; `PROJECT.json` quotes the lines.

1. **A stop can miss an active run** (`runs_stop`): a hand-back between the two
   updates of `stop` leaves the run queued, unmarked, and reported as finished.  In
   `AgentReplies` the Mac then ends the reply as stopped while a runner goes on to
   answer it.
2. **An interruption report can end another executor's run** (`runs_interrupted`):
   the update names the run, not the holder the lookup found.
3. **Overlapping admissions can start two turns** (`runs_overlap`): `created_at` is
   read before the insert and admission does not take the session lock, so a row
   may appear older than one already running.  This is the `LateRow` the order
   theorems except, and by them the only way to two turns.
4. **A heartbeat may report a stop the server has not carried out**
   (`runs_heartbeat`): the stop flag is read again after the statement that acts
   on it.
5. **A stopped cloud run can stay unanswered** (`replies_stopped`): the backfill
   considers only runs of Macs.  A Mac of the owner would end it after half an hour
   if it showed progress; a request that went straight to the cloud queue shows none.
6. **A refused run can still be answered** (`replies_refused`): the restriction
   takes no lock that completion holds.
7. **A Mac that slept may execute past its lease** (`lease_sleep`): the watchdog
   counts a clock that stops in sleep.
8. **A device can miss that its account was removed** (`stream_dissolved`): an account
   leaves a group, the group is dissolved before its device synchronises, and the
   dissolution deletes the earlier removal and tells current members only.  Nothing
   behind the hole makes it a gap, so the chat stays until another event arrives.

Six more were seen while modelling, without a run of their own:

* an exchange asked by a target of the requester's own agents is never continued nor
  ended once that target is cancelled, by its deadline or a stop, while the request
  goes on: the parent stays authorized, and a cancelled parent is skipped at every sweep
  (`lifecycle.rs:185`; `Abandoned`).  `docs/development/agent-exchanges.md:50-52`
  promises "an explicit failure result for the original agent", which here is the
  target that is gone, and lines 68-69 keep only shared recipients from asking;
* the save of a Factory agent that bars a requester and the end of that requester's
  runs are two transactions, and an error of the second is only logged
  (`cloud_agents/routes.rs:307-314`; `unended`);
* a requeued continuation in a project waits for a Mac for ever (`lifecycle.rs:149`);
* a recipient of the asker's own is told to end its turn with an outcome that `finish`
  refuses (`lifecycle.rs:51`);
* a restart between the two statements of a run asked for by hand leaves it unqueued
  (`store.rs:265`);
* an account left out of a meeting gets a media token when it starts a call
  (`start.rs:82`).

## 7. What is not modelled

See section 1.3 and the notes in `PROJECT.json`.  Within the modelled parts:

* runs: subsession queues and their locks, feature runs (digest, proactive, personal
  agent), comment runs, pool workers, rate limits, the contents of prompts and replies,
  connections of the database pool;
* exchanges: the limit of eight, replayed requests, texts and outcomes;
* scheduled tasks: runs asked for by hand, the stop of an occurrence's run, time zones,
  the last status shown with a task;
* chat stream: the realtime socket, sends with their client ids, edits and versions of
  messages, members who return to a chat, drafts, reads, visibility and pins;
* calls: media, push notifications, the native call screen, calls ended because their
  group or an account is deleted.

Several server processes are covered, since all shared state is in the
database and every statement interleaves with every other.

## 8. Running

    tlc -config AgentRuns_handovers.cfg MCAgentRuns.tla
    tlc -config Safety.cfg MCSafety.tla
    tlapm AgentRunsProofs.tla
