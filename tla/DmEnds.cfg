\* Two users invite each other while a third invites one of them; what is reserved is released, what rings or talks ends.
SPECIFICATION FairSpec
CONSTANTS
  a = a  b = b  e = e
  a1 = a1  a2 = a2  b1 = b1  b2 = b2  e1 = e1
  NoConn = NoConn  NoCall = NoCall  Nobody = Nobody
  Users = {a, b, e}
  Conns = {a1, b1, e1}
  UserOf <- Holder
  Dials <- Crossing
  Visitors = {}
  MaxCalls = 1
  MaxCrashes = 1
  InviteLimit = 1
INVARIANT ReservedAlone
PROPERTIES ReservationEnds CallsEnd
CHECK_DEADLOCK FALSE
