\* One behaviour is about one component; the bounds leave each of them the
\* cases its properties tell apart.
SPECIFICATION SafetySpec
CONSTANTS
  r1 = r1
  r2 = r2
  w1 = w1
  d1 = d1
  m1 = m1
  q1 = q1
  Runs = {r1, r2}
  Queues = {q1}
  QueueOf <- OneQueue
  Runners = {w1}
  Desktops = {d1}
  Devices = {m1}
  DeviceOf <- OneMac
  Guests <- NoRuns
  MacOnly = {r2}
  SerialAdmission = TRUE
  NoOne = NoOne
  Lease = 4
  Watchdog = 2
  Lag = 1
  Grace = 1
  Never = Never
  MaxTime = 10
  me = me
  ann = ann
  Accounts = {me, ann}
  Me = me
  MaxCalls = 2
  MaxRevision = 3
  NoCall = NoCall
  c1 = c1
  c2 = c2
  Chats = {c1, c2}
  MaxEvents = 3
  PageSize = 2
  NoPage = NoPage
  s1 = s1
  s2 = s2
  Sweepers = {s1, s2}
  MaxDue = 2
  x1 = x1
  x2 = x2
  Exchanges = {x1, x2}
  OwnAgents = {x1}
  Nothing = Nothing
  MaxFaults = 2
INVARIANTS
  OneTurn OldestFirst
  TurnEndsBeforeLease NoTwoExecutors StopBoundsTurn
  OpenCallHasSomeone EventsTellTheCall SeenEndedStaysGone
  NothingSkipped DeletedStaysDeleted RemovalsApplied MissingIsAhead
  NoOccurrenceSkipped CompletedWasAnswered
  ContinuesInTurn EndedExchangeIsQuiet
PROPERTIES
  StartsUnderLease EndedCallsAreFinal ShownNeverOlder LeaseKeepsContract
CHECK_DEADLOCK FALSE
