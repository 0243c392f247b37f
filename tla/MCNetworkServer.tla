--------------------------- MODULE MCNetworkServer ---------------------------
(***************************************************************************)
(* Instances of NetworkServer for TLC.  One tick is half a second:         *)
(* RECEIVE_DELAY1 and the window for duplicates are 1 s, RECEIVE_DELAY2 is *)
(* 2 s.                                                                    *)
(***************************************************************************)
EXTENDS NetworkServer, TLC

Symmetry == Permutations(Gateways)
=============================================================================
