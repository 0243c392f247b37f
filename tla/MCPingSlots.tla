----------------------------- MODULE MCPingSlots -----------------------------
(***************************************************************************)
(* An instance of PingSlots for TLC: periods of 8 ticks with 4 slots of    *)
(* one tick, of which each device has 2.  The offsets of the two devices   *)
(* are equal in some periods and differ in others, and a time that is not  *)
(* that of a beacon gives other slots.  FrameFormats holds the data that   *)
(* server, gateways and devices exchange meanwhile.                        *)
(***************************************************************************)
EXTENDS PingSlots, FrameFormats, TLC

Symmetry == Permutations(Gateways)

MCCipher == [d \in Devices |-> [t \in Times |->
  IF t % PERIOD # 0 THEN 1 - ((t \div PERIOD) % 2)
  ELSE IF d = 1 THEN (t \div PERIOD) % 2 ELSE (t \div (2 * PERIOD)) % 2]]

\* The byte of the payload size wraps below 13 bytes, after 268 and after 524.
MCPacketSizes == 1 .. 600

-----------------------------------------------------------------------------
(* The data, at the values of the code.  It does not change: it is enough  *)
(* to look at it in the states of time 0.                                  *)

\* What is written into a header is read from it (lorawan-frame-header-*.cc), and the
\* server knows new frames by their 16-bit counter until it wraps.
HeadersSurvive == now = 0 => HeadersReadAlike

\* The time the server puts into a beacon is the time a device reads, and only beacons
\* are taken for beacons (lorawan-enddevice-application.cc 527-533, lorawan-mac.cc 479).
BeaconTimeSurvives == now = 0 => BeaconReadAlike

\* Beacon, slots and the longest frame fit a beacon period, in this order: what
\* PingAssumption and HearBeacon assume of the times.
PeriodFits == now = 0 => SlotsFitPeriod

\* A frame that Send accepts is not dropped further down, and it is as long as the
\* application asked exactly up to 268 bytes: a longer one is cut where its payload is
\* counted (lorawan-enddevice-application.cc 378, lorawan-net-device.cc 527,
\* lorawan-mac.cc 831).
FrameFits == now = 0 => SizesFit

\* Channels, data rates and packet tags are read alike by all, and RW1 stays in the table.
PairsMatch == now = 0 => PairsFit
=============================================================================
