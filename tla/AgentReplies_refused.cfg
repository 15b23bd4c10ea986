\* A restriction saved while a runner publishes its answer.
SPECIFICATION RepliesSpec
CONSTANTS
  r1 = r1 w1 = w1 w2 = w2 d1 = d1 m1 = m1 q1 = q1
  Runs = {r1}
  Queues = {q1}
  QueueOf <- OneQueue
  Runners = {w1}
  Desktops = {d1}
  Devices = {m1}
  DeviceOf <- OneMac
  Guests = {r1}
  MacOnly <- NoRuns
  SerialAdmission = TRUE
  NoOne = NoOne
PROPERTY RefusedRunIsNotAnswered
CHECK_DEADLOCK FALSE
