\* A Class B device, two gateways, traffic in both directions.
CONSTANTS
  Gateways = {g1, g2}
  RECEIVE_DELAY1 = 2
  RECEIVE_DELAY2 = 4
  DuplicateWindow = 2
  NbTransCon = 2
  NbRep = 2
  NbTransDown = 2
  ConTypes = {TRUE, FALSE}
  DownTypes = {TRUE, FALSE}
  ClassB = TRUE
  PingSlots = 1
  MaxUplinks = 3
  MaxDownlinks = 2
  MaxPings = 1
SPECIFICATION Spec
SYMMETRY Symmetry
INVARIANTS ServerInv RWTimersFree AnswerMeetsWindow AnswerThroughHearers RWAckMeansHeard AckBitProcessedOnce
PROPERTIES OneAnswerPerTransmission ImplementsLink
