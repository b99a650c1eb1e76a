SPECIFICATION Spec
CONSTANTS
  Modes = {"Auto"}
  Windows = {2, 3}
  ExchangeTimeout = 2
  Faults = {"Disconnect"}
  MaxCallers = 1
INVARIANTS
  LinkReleased
CHECK_DEADLOCK FALSE
