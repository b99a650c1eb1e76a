SPECIFICATION NetSpec
CONSTANTS
  None = None
  n1 = n1
  n2 = n2
  k1 = k1
  k2 = k2
  MaxAttempts = 1
  Node = {n1, n2}
  Peer = {n1, n2}
  Client = {n1, n2}
  ExchangeId <- MCExchangeId
  Slot = {k1}
  PostUrl = {n1}
  Timeout = 1
  Grace = 1
  Cooldown = 1
  ProfileFrames = 2
  GiftFrames = 2
  LogLimit = 2
  MaxExchanges = 0
  Inputs = {}
  Fleets <- MCFleets
  PowerLoss = {}
INVARIANTS
  CentralNeverAlone
CHECK_DEADLOCK FALSE
