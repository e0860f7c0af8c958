---------------------------- MODULE MCRoomThreads ----------------------------
(***************************************************************************)
(* Instances of RoomThreads for TLC.                                       *)
(***************************************************************************)
EXTENDS RoomThreads

MCTwo == <<"c1", "c2">>
=============================================================================
