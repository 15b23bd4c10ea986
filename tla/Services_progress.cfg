\* One behaviour is about one component; few faults, after which everything
\* must go on.
SPECIFICATION ProgressSpec
CONSTANTS
  me = me
  ann = ann
  Accounts = {me, ann}
  Me = me
  MaxCalls = 1
  MaxRevision = 2
  NoCall = NoCall
  c1 = c1
  c2 = c2
  Chats = {c1, c2}
  MaxEvents = 3
  PageSize = 2
  NoPage = NoPage
  s1 = s1
  s2 = s2
  Sweepers = {s1, s2}
  MaxDue = 2
  x1 = x1
  x2 = x2
  Exchanges = {x1, x2}
  OwnAgents = {x1}
  Nothing = Nothing
  MaxFaults = 1
PROPERTIES
  ShowsTheCall DeviceCatchesUp WaitForMacEnds SweepsCatchUp ExchangesSettle
  OccurrencesKeepContract ExchangeRunsKeepContract ExchangesKeepPromise
CHECK_DEADLOCK FALSE
