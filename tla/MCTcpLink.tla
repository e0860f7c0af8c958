------------------------------ MODULE MCTcpLink ------------------------------
(***************************************************************************)
(* Instances of TcpLink for TLC.                                           *)
(***************************************************************************)
EXTENDS TcpLink

(* Bytes that are no prefix are read as no length, none at all, a short one *)
(* or one that is never reached.                                            *)
MCGarbage == {-1, 0, 1, 99}
=============================================================================
