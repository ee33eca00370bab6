\* A room left by all: a member, a guest who may be blocked and a shadow admin.
SPECIFICATION FairSpec
CONSTANTS
  o = o  a = a  g = g
  so = so  sa = sa  sb = sb  sg = sg  sh = sh
  r = r
  NoRoom = NoRoom
  Users = {a, g, o}
  Guests = {g}
  Rooms = {r}
  OwnerOf <- Owned
  Socks = {sa, sg, sh}
  UserOf <- Holder
  RoomOf <- InOneRoom
  AdminSocks = {sh}
  ShadowSocks = {sh}
  Capacity = 2
  MaxVoice = 1
  MaxVideo = 1
  CallsEnabled = FALSE
  HubUsers = {a}
  Blockable = {g}
  MaxRuntimes = 2
 
PROPERTY AbandonedRoomCloses
CHECK_DEADLOCK FALSE
