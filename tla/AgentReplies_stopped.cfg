\* A stop in the cloud whose server restarts before it publishes.
SPECIFICATION RepliesFairSpec
CONSTANTS
  r1 = r1 w1 = w1 w2 = w2 d1 = d1 m1 = m1 q1 = q1
  Runs = {r1}
  Queues = {q1}
  QueueOf <- OneQueue
  Runners = {w1}
  Desktops = {d1}
  Devices = {m1}
  DeviceOf <- OneMac
  Guests <- NoRuns
  MacOnly <- NoRuns
  SerialAdmission = TRUE
  NoOne = NoOne
PROPERTY StoppedRunIsAnswered
CHECK_DEADLOCK FALSE
