---------------------------- MODULE MCMeasurement ----------------------------
(* Instances of Measurement for TLC: a computer with the hall server and a  *)
(* camera, and a computer with one or two cameras.                          *)
EXTENDS Measurement, TLC

CONSTANTS c1, c2, c3, here, there

MCHosts == {here, there}

MCTwo == {c1, c2}
MCTwoHostOf == (c1 :> here) @@ (c2 :> there)

MCThree == {c1, c2, c3}
MCThreeHostOf == (c1 :> here) @@ (c2 :> there) @@ (c3 :> there)
=============================================================================
