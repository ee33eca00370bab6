--------------------------- MODULE MCRoomSession ---------------------------
(* Instances of RoomSession for TLC. *)
EXTENDS RoomSession

CONSTANTS o, a, g,             \* owner, member, guest
          so, sa, sb, sg, sh,  \* sockets: owner, member (two), guest, shadow
          r                    \* room

\* One room: two sockets of one member, the owner, and others.
Owned == [x \in Rooms |-> o]
Holder == [s \in Socks |->
  CASE s = so -> o [] s \in {sa, sb} -> a [] s = sg -> g [] s = sh -> o]
InOneRoom == [s \in Socks |-> r]
=============================================================================
