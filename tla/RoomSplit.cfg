\* Two people, one room: do they share a runtime?
SPECIFICATION Spec
CONSTANTS
  o = o  a = a  g = g
  so = so  sa = sa  sb = sb  sg = sg  sh = sh
  r = r
  NoRoom = NoRoom
  Users = {a, o}
  Guests = {}
  Rooms = {r}
  OwnerOf <- Owned
  Socks = {so, sa}
  UserOf <- Holder
  RoomOf <- InOneRoom
  AdminSocks = {}
  ShadowSocks = {}
  Capacity = 2
  MaxVoice = 1
  MaxVideo = 1
  CallsEnabled = FALSE
  HubUsers = {}
  Blockable = {}
  MaxRuntimes = 2
INVARIANT OneRoomOneRuntime
CHECK_DEADLOCK FALSE
