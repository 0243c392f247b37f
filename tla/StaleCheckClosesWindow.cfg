\* A Class B device that misses RW2 while it receives a long frame in RW1.
CONSTANTS
  Bands = {b1}
  DutyCycle <- NoTimeOff
  AirTime = 1
  RECEIVE_DELAY1 = 3
  RECEIVE_DELAY2 = 9
  PreambleTime <- FinePreamble
  FrameTimes <- FineLongFrames
  AckTimeouts <- FineAckTimeouts
  NbTransCon = 2
  NbRep = 1
  ConTypes = {TRUE, FALSE}
  ClassB = TRUE
  StrayData = FALSE
  ArrivesWhileClosing = FALSE
  MaxRequests = 2
  MaxFrames = 2
  MaxWindows = 1
SPECIFICATION Spec
INVARIANT WindowKeptOpen
