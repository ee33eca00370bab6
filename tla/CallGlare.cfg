\* An answer is refused, the flag stays set, offers cross.
SPECIFICATION Spec
CONSTANTS
  a = a
  None = None
  b = b
  Users = {a, b}
  Rank <- Ids
  RetryLimit = 1
  Restless = {a, b}
  MaxTroubles = 1
  MaxClashes = 1
PROPERTIES ImpoliteKeepsOffer
CHECK_DEADLOCK FALSE
