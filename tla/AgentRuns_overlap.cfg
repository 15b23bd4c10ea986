\* Overlapping admissions of one conversation.
SPECIFICATION Spec
CONSTANTS
  r1 = r1 r2 = r2 w1 = w1 w2 = w2 d1 = d1 d2 = d2 m1 = m1 m2 = m2 q1 = q1
  Runs = {r1, r2}
  Queues = {q1}
  QueueOf <- OneQueue
  Runners = {w1}
  Desktops = {d1}
  Devices = {m1}
  DeviceOf <- OneMac
  Guests <- NoRuns
  MacOnly <- NoRuns
  SerialAdmission = FALSE
  NoOne = NoOne
INVARIANT OneTurn
CHECK_DEADLOCK FALSE
