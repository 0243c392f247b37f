--------------------------- MODULE MCEndDeviceMac ---------------------------
(***************************************************************************)
(* Instances of EndDeviceMac for TLC, at two resolutions.                  *)
(*                                                                         *)
(* Coarse: one tick is half a second: RECEIVE_DELAY1 = 1 s is 2 ticks,     *)
(* RECEIVE_DELAY2 = 2 s is 4, an Ack time-out of 1 to 3 s is 2 to 6, and a *)
(* preamble, shorter than a tick, is rounded up to one.                    *)
(*                                                                         *)
(* Fine: enough ticks in a preamble to tell the slow preamble of RW2 (DR0) *)
(* from the shorter ones of the other windows.                             *)
(***************************************************************************)
EXTENDS EndDeviceMac

\* Duty cycles of 33 % and 6 %, and none at all.
ShortTimeOff == [b \in Bands |-> 3]
LongTimeOff  == [b \in Bands |-> 16]
NoTimeOff    == [b \in Bands |-> 1]

\* The mix of ClassB.cfg: a sub band without a duty cycle and one with 6 %.
MCBands      == {"b1", "b2"}
MixedTimeOff == [b \in Bands |-> IF b = "b1" THEN 1 ELSE 16]

CoarsePreamble == [w \in Windows |-> 1]
FinePreamble   == [w \in Windows |-> IF w = "MAC_RW2" THEN 3 ELSE 2]

\* A frame of 2 ticks ends before RW2 starts; one of 5 does not.
ShortFrames == [w \in Windows |-> {2}]
LongFrames  == [w \in Windows |-> {2, 5}]
CoarseAckTimeouts == {2, 6}

\* Frames of 4 ticks end by the start of RW2 at 9; those of 9 ticks do not.
FineShortFrames == [w \in Windows |-> {4}]
FineLongFrames  == [w \in Windows |-> {9}]
FineAckTimeouts == {4, 10}
=============================================================================
