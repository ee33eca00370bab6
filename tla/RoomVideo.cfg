\* One viewer, the handlers beside a REST call, the automatic pause, a queue of two.
CONSTANTS
  c1 = c1
  x1 = x1
  x2 = x2
  i1 = i1
  i2 = i2
  i3 = i3
  nourl = nourl
  mutex = mutex
  r1 = r1
  Viewers = {c1}
  Urls = {x1, x2}
  NoUrl = nourl
  Stored = {x1, nourl}
  Items = {i1, i2}
  LinkOf <- LinksOfItems
  Mutex = mutex
  RestCalls = {r1}
  Places = {0, 1}
  MaxQueue = 2
  MaxHistory = 1
  MaxSeq = 1
SPECIFICATION FairSpec
INVARIANTS
  TypeOK
  ViewFollows
  
  
PROPERTIES
  WaitEnds
CHECK_DEADLOCK FALSE
