SPECIFICATION Spec
CONSTANTS
  None = None
  d1 = d1
  d2 = d2
  Device = {d1}
  Attempts = 3
  Tries <- MCTries
  ConnectTimeout = 1
  IoTimeout = 1
  Polls = 1
  Dedup = 12
  Latency = 1
  MaxFaults = 1
INVARIANTS
  WorkerSurvives
CHECK_DEADLOCK FALSE
