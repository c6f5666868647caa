------------------------- MODULE MCGasDetectorPoll -------------------------
(* Two gas sensors, at addresses 1 and 2. *)
EXTENDS GasDetectorPoll

TwoSensors == <<1, 2>>
=============================================================================
