\* One device, one conversation and notifications without a key; a crash and a
\* failed write.
CONSTANTS
  d1 = d1
  d2 = d2
  k1 = k1
  none = none
  Devices = {d1}
  Topics = {k1}
  NoTopic = none
  MaxRows = 2
  MaxSaid = 2
  MaxAttempts = 2
  MaxFailures = 2
  MaxRestarts = 1
  MaxLost = 1
SPECIFICATION FairSpec
INVARIANTS
  TypeOK
  SendingUntouched
PROPERTIES
  
  JobEnds
CHECK_DEADLOCK FALSE
