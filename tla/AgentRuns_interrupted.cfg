\* An interruption report that arrives after a takeover.
SPECIFICATION Spec
CONSTANTS
  r1 = r1 r2 = r2 w1 = w1 w2 = w2 d1 = d1 d2 = d2 m1 = m1 m2 = m2 q1 = q1
  Runs = {r1}
  Queues = {q1}
  QueueOf <- OneQueue
  Runners = {w1, w2}
  Desktops = {d1, d2}
  Devices = {m1, m2}
  DeviceOf <- TwoMacs
  Guests = {r1}
  MacOnly <- NoRuns
  SerialAdmission = TRUE
  NoOne = NoOne
PROPERTY InterruptedEndsOwnRun
CHECK_DEADLOCK FALSE
