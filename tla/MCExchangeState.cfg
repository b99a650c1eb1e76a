SPECIFICATION Spec
CONSTANTS
  None = None
  n1 = n1
  n2 = n2
  n3 = n3
  k1 = k1
  Node = {n1}
  Peer = {n1, n2, n3}
  Client = {n2, n3}
  ExchangeId = {1}
  Slot = {k1}
  PostUrl = {n1}
  Timeout = 2
  Grace = 1
  Cooldown = 1
  ProfileFrames = 3
  GiftFrames = 2
  LogLimit = 2
  MaxExchanges = 3
  Inputs <- MCInputs
INVARIANTS
  TypeOK
  NoPanic
  CommitAfterDelivery
  AckNeverRefused
  LogMatchesSentence
  PostedOnce
PROPERTIES
  RecordedOncePerSession
  NoRecordWhileCooling
  LeaseKept
CHECK_DEADLOCK FALSE
