\* A member with two sockets and the owner: reconnects, kicks, blocks, the voice call with one place.
SPECIFICATION Spec
CONSTANTS
  o = o  a = a  g = g
  so = so  sa = sa  sb = sb  sg = sg  sh = sh
  r = r
  NoRoom = NoRoom
  Users = {a, o}
  Guests = {}
  Rooms = {r}
  OwnerOf <- Owned
  Socks = {so, sa, sb}
  UserOf <- Holder
  RoomOf <- InOneRoom
  AdminSocks = {}
  ShadowSocks = {}
  Capacity = 2
  MaxVoice = 1
  MaxVideo = 1
  CallsEnabled = TRUE
  HubUsers = {a}
  Blockable = {a}
  MaxRuntimes = 2
INVARIANTS TypeOK OneLiveRuntime NoOrphanSocket ClockMatchesClose CallersPresent
PROPERTY StayWhileOpen
CHECK_DEADLOCK FALSE
