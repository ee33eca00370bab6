\* The caller's tab closes while the invitation is checked.
SPECIFICATION Spec
CONSTANTS
  a = a  b = b  e = e
  a1 = a1  a2 = a2  b1 = b1  b2 = b2  e1 = e1
  NoConn = NoConn  NoCall = NoCall  Nobody = Nobody
  Users = {a, b}
  Conns = {a1, b1}
  UserOf <- Holder
  Dials <- BothWays
  Visitors = {}
  MaxCalls = 1
  MaxCrashes = 0
  InviteLimit = 1
INVARIANT RingingHasCaller
CHECK_DEADLOCK FALSE
