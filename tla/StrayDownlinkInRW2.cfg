\* A downlink without the Ack bit answers a confirmed frame.
CONSTANTS
  Bands = {b1}
  DutyCycle <- ShortTimeOff
  AirTime = 1
  RECEIVE_DELAY1 = 2
  RECEIVE_DELAY2 = 4
  PreambleTime <- CoarsePreamble
  FrameTimes <- ShortFrames
  AckTimeouts <- CoarseAckTimeouts
  NbTransCon = 2
  NbRep = 2
  ConTypes = {TRUE}
  ClassB = FALSE
  StrayData = TRUE
  ArrivesWhileClosing = FALSE
  MaxRequests = 2
  MaxFrames = 2
  MaxWindows = 0
SPECIFICATION Spec
INVARIANT AckTimeoutMeetsItsStates
