\* A device that leaves Class B.
CONSTANTS
  Gateways = {g1, g2}
  RECEIVE_DELAY1 = 2
  RECEIVE_DELAY2 = 4
  DuplicateWindow = 2
  NbTransCon = 2
  NbRep = 2
  NbTransDown = 2
  ConTypes = {TRUE, FALSE}
  DownTypes = {FALSE}
  ClassB = TRUE
  PingSlots = 1
  MaxUplinks = 2
  MaxDownlinks = 0
  MaxPings = 1
SPECIFICATION Spec
SYMMETRY Symmetry
PROPERTY ClassBTrafficStops
