------------------------------ MODULE MCUdpLink ------------------------------
(* Instances of UdpLink for TLC.                                            *)
EXTENDS UdpLink
=============================================================================
