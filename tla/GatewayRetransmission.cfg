\* Two downlinks, or a beacon and a downlink, accepted in one instant.
CONSTANTS
  NbMacs = 3
  ChannelOf <- MCChannelOf
  Bands <- MCBands
  BandOf <- MCBandOf
  DutyCycle <- MCDutyCycle
  BeaconMac = 3
  AirTimes = {1, 2}
  Frames = {f1, f2}
  FrameTimes = {1, 3}
  NoFrame = none
SPECIFICATION Spec
CHECK_DEADLOCK FALSE
INVARIANT RetransmissionsLeftToServer
