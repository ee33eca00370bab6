---------------------------- MODULE MCRoomVideo ----------------------------
(***************************************************************************)
(* Small instances of RoomVideo for the model checker.                     *)
(***************************************************************************)
EXTENDS RoomVideo

CONSTANTS c1, x1, x2, i1, i2, i3, nourl, mutex, r1

\* i1 is another copy of the video the room may be watching already.
LinksOfItems == [i \in Items |-> IF i = i1 THEN x1 ELSE x2]
=============================================================================
