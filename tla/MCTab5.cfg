SPECIFICATION FairSpec
CONSTANTS
  None = None
  t = t
  p1 = p1
  c1 = c1
  c2 = c2
  k1 = k1
  Self = t
  Peer = {t, p1}
  Client = {c1, c2}
  ExchangeId = {1}
  Slot = {k1}
  Inputs <- MCInputs
  Timeout = 2
  Grace = 1
  Cooldown = 1
  ProfileFrames = 2
  GiftFrames = 2
  Clock = 6
  MaxExchanges = 1
  Roles = {"Peripheral"}
  MaxTouches = 1
  MaxConnects = 2
INVARIANTS
  LeaseServed
  CentralAlone
PROPERTIES
  PortOfCli
  RoleChangeComes
