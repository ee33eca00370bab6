\* Two users in a call of a room or a direct call; the polite one is restless.
SPECIFICATION FairSpec
CONSTANTS
  a = a
  None = None
  b = b
  Users = {a, b}
  Rank <- Ids
  RetryLimit = 1
  Restless = {a}
  MaxTroubles = 1
  MaxClashes = 0
INVARIANTS TypeOK NoGhost 
PROPERTIES OfferKept 
CHECK_DEADLOCK FALSE
