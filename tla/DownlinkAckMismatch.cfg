\* A Class A device whose frames wait in the queue of its MAC, with the default numbers of
\* transmissions: four of a confirmed frame in both directions, one of an unconfirmed one.
CONSTANTS
  Gateways = {g1, g2}
  RECEIVE_DELAY1 = 2
  RECEIVE_DELAY2 = 4
  DuplicateWindow = 2
  NbTransCon = 4
  NbRep = 1
  NbTransDown = 4
  ConTypes = {TRUE, FALSE}
  DownTypes = {TRUE}
  ClassB = FALSE
  PingSlots = 1
  MaxUplinks = 3
  MaxDownlinks = 2
  MaxPings = 0
SPECIFICATION Spec
SYMMETRY Symmetry
INVARIANT DownlinkAckMatches
