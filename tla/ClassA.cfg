\* A Class A device: no beacon or ping-slot window is opened, and the answer to a
\* confirmed frame carries the Ack bit.  Under fairness, for the service it gives.
CONSTANTS
  Bands = {b1, b2}
  DutyCycle <- LongTimeOff
  AirTime = 1
  RECEIVE_DELAY1 = 2
  RECEIVE_DELAY2 = 4
  PreambleTime <- CoarsePreamble
  FrameTimes <- LongFrames
  AckTimeouts <- CoarseAckTimeouts
  NbTransCon = 2
  NbRep = 2
  ConTypes = {TRUE, FALSE}
  ClassB = FALSE
  StrayData = FALSE
  ArrivesWhileClosing = FALSE
  MaxRequests = 3
  MaxFrames = 3
  MaxWindows = 0
SPECIFICATION FairSpec
INVARIANTS AssertionsHold PhyRequestsLegal HandlesNotOverwritten NeverStuck AckTimerOwned RetransmissionExact IInv
PROPERTIES DutyCycleRespected ImplementsService Drains
