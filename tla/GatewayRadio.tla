---------------------------- MODULE GatewayRadio ----------------------------
(***************************************************************************)
(* What a gateway promises as a radio, however many MAC and PHY pairs it   *)
(* is built from: it sends one frame at a time, keeps the duty cycle of    *)
(* every sub band over all of its MACs together, and hands nothing to the  *)
(* network server that was on the air while it was sending.                *)
(***************************************************************************)
EXTENDS Integers

CONSTANTS
  Macs,       \* the MAC and PHY pairs
  Bands,      \* sub bands
  BandOf,     \* the sub band of each pair
  DutyCycle,  \* dutyCycleLimit of each sub band
  AirTimes,   \* ticks a downlink may last
  Frames      \* what other radios send

VARIABLES
  sender,      \* the pair that is sending, as a set of at most one
  offTime,     \* ticks until each sub band may be used again
  overlapped,  \* frames on the air that the gateway has sent over
  received     \* frames that were handed to the network server when they ended

vars == <<sender, offTime, overlapped, received>>

Init ==
  /\ sender = {} /\ offTime = [b \in Bands |-> 0]
  /\ overlapped = {} /\ received = {}

\* The frames on the air at that moment, heard, are overlapped.
Begin(m, t, heard) ==
  /\ sender = {} /\ offTime[BandOf[m]] = 0
  /\ sender' = {m}
  /\ offTime' = [offTime EXCEPT ![BandOf[m]] =
                   IF DutyCycle[BandOf[m]] = 1 THEN 0
                   ELSE t * DutyCycle[BandOf[m]]]
  /\ overlapped' = overlapped \cup heard
  /\ UNCHANGED received

End == sender # {} /\ sender' = {} /\ UNCHANGED <<offTime, overlapped, received>>

FrameStarts(f) ==
  /\ overlapped' = IF sender = {} THEN overlapped ELSE overlapped \cup {f}
  /\ received' = received \ {f}
  /\ UNCHANGED <<sender, offTime>>

FrameReceived(f) ==
  /\ f \notin overlapped /\ received' = received \cup {f}
  /\ UNCHANGED <<sender, offTime, overlapped>>

FrameLost(f) ==
  overlapped' = overlapped \ {f} /\ UNCHANGED <<sender, offTime, received>>

TimePasses ==
  /\ offTime' = [b \in Bands |-> IF offTime[b] > 0 THEN offTime[b] - 1 ELSE 0]
  /\ UNCHANGED <<sender, overlapped, received>>

Next ==
  \/ \E m \in Macs, t \in AirTimes, heard \in SUBSET Frames : Begin(m, t, heard)
  \/ End
  \/ \E f \in Frames : FrameStarts(f) \/ FrameReceived(f) \/ FrameLost(f)
  \/ TimePasses

Spec == Init /\ [][Next]_vars
=============================================================================
