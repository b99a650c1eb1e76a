SPECIFICATION ProcessFairSpec
CONSTANTS
  None = None
  b1 = b1
  b2 = b2
  Tab = {b1, b2}
  Given <- MCGiven
  Asks <- MCAsks
  Modes = {"Auto", "Central", "Peripheral"}
  Windows = {2}
  ExchangeTimeout = 1
  Faults = {"Init", "StartAdv", "StopAdv", "StartScan", "StopScan", "Disconnect", "Events", "Power"}
  MaxCallers = 1
INVARIANTS
  ProcessTypeOK
  NoLeftovers
  CleanStop
  SetupAgreed
  ShownTruly
PROPERTIES
  AcceptedRuns
  RolesAlternate
  EndsOnSignal
CHECK_DEADLOCK FALSE
