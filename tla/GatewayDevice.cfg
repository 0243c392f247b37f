\* A gateway with three MAC and PHY pairs in two sub bands, two frames on the air.
\* No deadlock check: the program stops when a cancelled transmission is found.
CONSTANTS
  NbMacs = 3
  ChannelOf <- MCChannelOf
  Bands <- MCBands
  BandOf <- MCBandOf
  DutyCycle <- MCDutyCycle
  BeaconMac = 3
  AirTimes = {1, 2}
  Frames = {f1, f2}
  FrameTimes = {1, 3}
  NoFrame = none
SPECIFICATION FairSpec
CHECK_DEADLOCK FALSE
INVARIANTS GatewayInv HalfDuplex AssertionsHold AcceptedIsSent AbortNeedsCollision
PROPERTIES ImplementsRadio AcceptedEnds
