SPECIFICATION FairSpec
CONSTANTS
  Modes = {"Peripheral"}
  Windows = {2, 3}
  ExchangeTimeout = 2
  Faults = {"Power"}
  MaxCallers = 1
PROPERTIES
  FixedRoleServes
CHECK_DEADLOCK FALSE
