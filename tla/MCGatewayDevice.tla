--------------------------- MODULE MCGatewayDevice ---------------------------
(***************************************************************************)
(* An instance of GatewayDevice for TLC: one pair for answers in RW1, on a *)
(* channel and sub band of its own, and the pairs of RW2 and of beacons    *)
(* and ping slots, on channel 7 at different data rates.                   *)
(***************************************************************************)
EXTENDS GatewayDevice, TLC

MCChannelOf == <<1, 7, 7>>
MCBandOf    == <<"g1", "g3", "g3">>
MCDutyCycle == [g1 |-> 3, g3 |-> 2]
MCBands     == {"g1", "g3"}
Symmetry    == Permutations(Frames)
=============================================================================
