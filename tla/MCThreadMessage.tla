--------------------------- MODULE MCThreadMessage ---------------------------
(* Instances of ThreadMessage for TLC: two senders, one receiver.           *)
EXTENDS ThreadMessage, TLC

CONSTANTS s1, s2

MCSenders == {s1, s2}

=============================================================================
