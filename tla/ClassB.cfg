\* A Class B device with one sub band that is always available and one with a duty
\* cycle of 6 %, whose timer expires in beacon and ping-slot windows too; RW2 is
\* never missed.  No deadlock check: the program stops at the assertion of
\* lorawan-mac.cc 961 when that timer finds a frame that waits to be sent again.
CONSTANTS
  Bands <- MCBands
  DutyCycle <- MixedTimeOff
  AirTime = 1
  RECEIVE_DELAY1 = 3
  RECEIVE_DELAY2 = 9
  PreambleTime <- FinePreamble
  FrameTimes <- FineShortFrames
  AckTimeouts <- FineAckTimeouts
  NbTransCon = 2
  NbRep = 2
  ConTypes = {TRUE, FALSE}
  ClassB = TRUE
  StrayData = FALSE
  ArrivesWhileClosing = FALSE
  MaxRequests = 2
  MaxFrames = 2
  MaxWindows = 2
SPECIFICATION FairSpec
CHECK_DEADLOCK FALSE
INVARIANTS AssertionsButTimer WindowKeptOpen IInv
PROPERTIES DrainsOrStops DutyCycleRespected
