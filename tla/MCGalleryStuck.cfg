SPECIFICATION FairSpec
CONSTANTS
  Poll = 1
  Retry = 1
  Rotate = 3
  Clock = 16
  Slow = 4
  Latest = 3
  MaxJobs = 3
  Broken = {1}
PROPERTY RotationGoesOn
