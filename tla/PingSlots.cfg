\* Two Class B devices and two gateways for three beacon periods; the simulation stops
\* at StopTime, hence no deadlock check.
CONSTANTS
  NbDevices = 2
  Gateways = {g1, g2}
  NoGateway = none
  PERIOD = 8
  BEACON_TIME = 1
  RESERVED = 2
  SLOT = 1
  NbSlots = 4
  NbPings = 2
  PingPeriod = 2
  Cipher <- MCCipher
  MissLimit = 2
  CounterSize = 3
  HOLD = 10
  StopTime = 31
  MaxFrames = 1
  PacketSizes <- MCPacketSizes
SPECIFICATION Spec
SYMMETRY Symmetry
CHECK_DEADLOCK FALSE
INVARIANTS PeriodInv QuietWhenLost
INVARIANTS HeadersSurvive BeaconTimeSurvives PeriodFits FrameFits PairsMatch
PROPERTIES PingMeetsWindow WastedOnlyByMove ClassBKept
