SPECIFICATION FairSpec
CONSTANTS
  None = None
  d1 = d1
  d2 = d2
  Device = {d1, d2}
  Attempts = 2
  Tries <- MCTries
  ConnectTimeout = 0
  IoTimeout = 0
  Polls = 1
  Dedup = 5
  Latency = 2
  MaxFaults = 1
INVARIANTS
  OneJobPerPost
  AnsweredJobKept
  PictureShown
PROPERTIES
  FinalStaysFinal
  JobsEnd
CHECK_DEADLOCK FALSE
