SPECIFICATION Spec
CONSTANTS
  None = None
  Streams <- MCStreams
INVARIANTS
  RoundTrip
  Canonical
  NotMixed
  Tab5Agrees
