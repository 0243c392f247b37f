\* A Class B device with a duty cycle that sends frames more than once.
CONSTANTS
  Bands = {b1}
  DutyCycle <- LongTimeOff
  AirTime = 1
  RECEIVE_DELAY1 = 2
  RECEIVE_DELAY2 = 4
  PreambleTime <- CoarsePreamble
  FrameTimes <- ShortFrames
  AckTimeouts <- CoarseAckTimeouts
  NbTransCon = 2
  NbRep = 2
  ConTypes = {TRUE, FALSE}
  ClassB = TRUE
  StrayData = FALSE
  ArrivesWhileClosing = FALSE
  MaxRequests = 2
  MaxFrames = 2
  MaxWindows = 1
SPECIFICATION Spec
INVARIANT SubBandTimerMeetsIdle
