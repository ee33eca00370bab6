\* One user calls another twice, from one tab each; the callee also goes to rooms.
SPECIFICATION Spec
CONSTANTS
  a = a  b = b  e = e
  a1 = a1  a2 = a2  b1 = b1  b2 = b2  e1 = e1
  NoConn = NoConn  NoCall = NoCall  Nobody = Nobody
  Users = {a, b}
  Conns = {a1, b1}
  UserOf <- Holder
  Dials <- OneWay
  Visitors = {b}
  MaxCalls = 2
  MaxCrashes = 0
  InviteLimit = 1
INVARIANTS TypeOK IndexExact RecordedOnce OutcomeHonest Limited TimersExact SidesBelong
PROPERTIES ImplementsExchange 
CHECK_DEADLOCK FALSE
