---------------------------- MODULE MCRoomSession ----------------------------
(* Instances of RoomSession for TLC.  One camera server is enough: camera   *)
(* servers send nothing to each other and nothing to the hall here.         *)
EXTENDS RoomSession, TLC

CONSTANTS c1, f1, f2

MCCameras == {c1}
MCFilm == {f1, f2}

(* No film is special.                                                      *)
MCSymmetry == Permutations(MCFilm)
=============================================================================
