--------------------------- MODULE PingSlotsProofs ---------------------------
(***************************************************************************)
(* Theorems about PingSlots, for any number of devices and gateways and    *)
(* any times that satisfy PingAssumption and HoldAssumption.  PeriodInv is *)
(* inductive: server and device compute the slots of a period separately,  *)
(* and the parts of the invariant say why they use the same beacon time.   *)
(***************************************************************************)
EXTENDS PingSlots, TLAPS

\* Multiplication by a natural number is monotonic.
LEMMA TimesMonotonic ==
  ASSUME NEW a \in Nat, NEW b \in Nat, NEW c \in Nat, a <= b
  PROVE  c * a <= c * b /\ a * c <= b * c /\ a * c \in Nat /\ c * a \in Nat
<1>1. PICK k \in Nat : b = a + k
  <2>1. b - a \in Nat /\ b = a + (b - a)
    OBVIOUS
  <2> QED BY <2>1
<1>2. c * b = c * a + c * k /\ c * k \in Nat /\ c * a \in Nat
  BY <1>1
<1>3. b * c = a * c + k * c /\ k * c \in Nat /\ a * c \in Nat
  BY <1>1
<1> QED BY <1>2, <1>3

\* Quotient and remainder are what they should be, and the only ones.
LEMMA QuotientUnique ==
  ASSUME NEW c \in Nat, c > 0, NEW q \in Nat, NEW r \in 0 .. c - 1
  PROVE  (c * q + r) % c = r /\ (c * q + r) \div c = q
<1>1. (c * q + r) % c = r
  OBVIOUS
<1>2. (c * q + r) \div c = q
  OBVIOUS
<1> QED BY <1>1, <1>2

LEMMA QuotientExists ==
  ASSUME NEW c \in Nat, c > 0, NEW k \in Nat
  PROVE  \E q \in Nat, r \in 0 .. c - 1 : k = c * q + r
<1> DEFINE q == k \div c
           r == k % c
<1>1. r \in 0 .. c - 1
  OBVIOUS
<1>2. q \in Int
  OBVIOUS
<1>3. q >= 0
  OBVIOUS
<1>4. k - c * q = r
  OBVIOUS
<1> HIDE DEF q, r
<1>5. q \in Nat /\ k = c * q + r
  BY <1>1, <1>2, <1>3, <1>4
<1> QED BY <1>1, <1>5

\* A counter that is increased modulo its size remains the number of steps, modulo its
\* size.
LEMMA CounterModulo ==
  ASSUME NEW c \in Nat, c > 0, NEW k \in Nat
  PROVE  ((k % c) + 1) % c = (k + 1) % c
<1>1. PICK q \in Nat, r \in 0 .. c - 1 : k = c * q + r
  BY QuotientExists
<1>2. k % c = r
  BY <1>1, QuotientUnique
<1>3. CASE r + 1 < c
  <2>1. r + 1 \in 0 .. c - 1 /\ k + 1 = c * q + (r + 1) /\ r + 1 = c * 0 + (r + 1)
    BY <1>1, <1>3
  <2>2. (k + 1) % c = r + 1
    BY <2>1, QuotientUnique
  <2>3. (r + 1) % c = r + 1
    BY <2>1, QuotientUnique
  <2> QED BY <1>2, <2>2, <2>3
<1>4. CASE r + 1 = c
  <2>1. k + 1 = c * (q + 1) + 0 /\ c = c * 1 + 0 /\ q + 1 \in Nat /\ 0 \in 0 .. c - 1
    BY <1>1, <1>4
  <2>2. (k + 1) % c = 0
    BY <2>1, QuotientUnique
  <2>3. c % c = 0
    BY <2>1, QuotientUnique
  <2> QED BY <1>2, <1>4, <2>2, <2>3
<1> QED BY <1>3, <1>4

\* Every slot of a device is one of the NbSlots of a period, after the reserved time
\* and before the next beacon.
LEMMA SlotBounds ==
  ASSUME NEW d \in Devices, NEW t \in Times, NEW s \in SlotsOf(d, t)
  PROVE  /\ s \in Nat /\ s < NbSlots
         /\ SlotTime(s) \in Nat /\ RESERVED <= SlotTime(s) /\ SlotTime(s) < PERIOD
<1>1. Offset(d, t) \in Nat /\ Offset(d, t) < PingPeriod
  <2>1. Cipher[d][t] \in Nat
    BY PingAssumption
  <2> QED BY <2>1, PingAssumption DEF Offset
<1>2. PICK i \in 0 .. NbPings - 1 : s = Offset(d, t) + PingPeriod * i
  BY DEF SlotsOf
<1>3. PingPeriod * i <= PingPeriod * (NbPings - 1) /\ PingPeriod * i \in Nat
  <2>1. i \in Nat /\ NbPings - 1 \in Nat /\ i <= NbPings - 1 /\ PingPeriod \in Nat
    BY PingAssumption
  <2> QED BY <2>1, TimesMonotonic
<1>4. PingPeriod * (NbPings - 1) = PingPeriod * NbPings - PingPeriod
  BY PingAssumption
<1>5. s \in Nat /\ s < NbSlots
  <2>1. PingPeriod * NbPings \in Nat
    BY PingAssumption
  <2> QED BY <1>1, <1>2, <1>3, <1>4, <2>1, PingAssumption
<1>6. s * SLOT <= (NbSlots - 1) * SLOT /\ s * SLOT \in Nat
  <2>1. s <= NbSlots - 1 /\ NbSlots - 1 \in Nat /\ SLOT \in Nat
    BY <1>5, PingAssumption
  <2> QED BY <1>5, <2>1, TimesMonotonic
<1>7. (NbSlots - 1) * SLOT = NbSlots * SLOT - SLOT /\ NbSlots * SLOT \in Nat
  BY PingAssumption
<1> QED BY <1>5, <1>6, <1>7, PingAssumption DEF SlotTime

\* The reserved time makes a period longer than the wait for the beacon.
LEMMA PeriodPositive ==
  /\ PERIOD \in Nat /\ PERIOD > 0 /\ BEACON_TIME < PERIOD /\ BEACON_TIME > 0
  /\ BEACON_TIME \in Nat /\ RESERVED \in Nat /\ BEACON_TIME < RESERVED
<1>1. NbSlots * SLOT \in Nat
  BY PingAssumption
<1> QED BY <1>1, PingAssumption

-----------------------------------------------------------------------------
(* The inductive invariant.                                                *)

\* It holds when the simulation starts.
LEMMA InitInv == Init => PeriodInv
<1> SUFFICES ASSUME Init PROVE PeriodInv
  OBVIOUS
<1>1. 0 \in Times /\ 0 * PERIOD = 0 /\ 0 \in 0 .. CounterSize - 1
  BY PingAssumption, HoldAssumption, PeriodPositive DEF Times
<1>2. TypeOK
  BY <1>1, PingAssumption, PeriodPositive DEF Init, InitServer, InitDevices, TypeOK, OFF
<1>3. ClocksAgree
  BY PeriodPositive
     DEF Init, InitServer, InitDevices, ClocksAgree, LastBeacon, LastAttempt, OFF
<1>4. PingsOfPeriod
  BY DEF Init, InitServer, InitDevices, PingsOfPeriod
<1>5. WindowsOfPeriod
  BY DEF Init, InitServer, InitDevices, WindowsOfPeriod
<1>6. CounterCounts
  <2> SUFFICES ASSUME NEW d \in Devices
               PROVE  /\ missed[d] < MissLimit /\ schedule[d] = OFF
                      /\ LastAttempt(d) - lastHeard[d] = missed[d] * PERIOD
    BY DEF CounterCounts
  <2>1. missed[d] = 0 /\ schedule[d] = OFF /\ devBeaconAt[d] = PERIOD /\ lastHeard[d] = 0
    BY DEF Init, InitServer, InitDevices
  <2> QED BY <2>1, <1>1, HoldAssumption, PeriodPositive DEF LastAttempt
<1>7. CounterWraps
  <2> SUFFICES ASSUME NEW d \in Devices
               PROVE  /\ LastAttempt(d) - lastHeard[d] = 0 * PERIOD /\ 0 \in 0 .. now
                      /\ schedule[d] = OFF /\ missed[d] = 0 % CounterSize
                      /\ windows[d] = {}
    BY DEF CounterWraps
  <2>1. /\ missed[d] = 0 /\ schedule[d] = OFF /\ devBeaconAt[d] = PERIOD
        /\ lastHeard[d] = 0 /\ windows[d] = {} /\ now = 0
    BY DEF Init, InitServer, InitDevices
  <2>2. 0 % CounterSize = 0
    <3>1. CounterSize \in Nat /\ CounterSize > 0
      BY HoldAssumption
    <3>2. 0 \in 0 .. CounterSize - 1 /\ 0 = CounterSize * 0 + 0
      BY <3>1
    <3> QED BY <3>1, <3>2, QuotientUnique
  <2> QED BY <2>1, <2>2, <1>1, PeriodPositive DEF LastAttempt
<1> QED BY <1>2, <1>3, <1>4, <1>5, <1>6, <1>7 DEF PeriodInv

\* What the parts say of a state in which a variable they speak of did not change.
LEMMA ClocksFrame ==
  ASSUME ClocksAgree,
         UNCHANGED <<now, beaconAt, beacon, devBeaconAt, schedule, timestamp, devClassB>>
  PROVE  ClocksAgree'
BY DEF ClocksAgree, LastBeacon, LastAttempt

LEMMA WindowsFrame ==
  ASSUME WindowsOfPeriod, UNCHANGED <<now, schedule, timestamp, windows, opened>>
  PROVE  WindowsOfPeriod'
BY DEF WindowsOfPeriod, SlotsOf, Offset, SlotTime

LEMMA CounterFrame ==
  ASSUME CounterCounts,
         UNCHANGED <<devClassB, missed, schedule, timestamp, lastHeard, devBeaconAt>>
  PROVE  CounterCounts'
BY DEF CounterCounts, LastAttempt

LEMMA WrapsFrame ==
  ASSUME CounterWraps, now \in Nat, now' \in Nat, now <= now',
         UNCHANGED <<missed, schedule, timestamp, lastHeard, devBeaconAt>>,
         \A d \in Devices : windows'[d] \subseteq windows[d]
  PROVE  CounterWraps'
<1>1. 0 .. now \subseteq 0 .. now'
  OBVIOUS
<1> QED BY <1>1 DEF CounterWraps, LastAttempt

LEMMA NowIsNat ==
  ASSUME TypeOK
  PROVE  now \in Nat /\ now <= now
BY PingAssumption DEF TypeOK, Times

LEMMA PingsFrame ==
  ASSUME PingsOfPeriod, UNCHANGED <<classB, gw, now, beaconAt>>, pings' \subseteq pings
  PROVE  PingsOfPeriod'
BY DEF PingsOfPeriod, LastBeacon, SlotsOf, Offset, SlotTime

\* The server's ping slot events take the frame, or do not, and are gone.
LEMMA PingStep ==
  ASSUME PeriodInv, NEW p \in pings,
         \/ PingWithoutFrame(p) \/ PingOverlap(p) \/ PingRefused(p) \/ PingSent(p)
  PROVE  PeriodInv'
<1> USE DEF recordVars, beaconVars, deviceVars, clockVars, windowVars, instantVars
<1>1. PingSlot(p) /\ PeriodInv /\ p.dev \in Devices
  BY DEF PingWithoutFrame, PingOverlap, PingRefused, PingSent, PeriodInv, TypeOK
<1>2. pings' \subseteq pings /\ UNCHANGED <<now, recordVars, beaconVars, deviceVars>>
  BY <1>1 DEF PingSlot
<1>3. /\ queue' \in [Devices -> 0 .. MaxFrames]
      /\ accepted' \subseteq Gateways \cup {NoGateway}
      /\ refused' \subseteq Gateways \cup {NoGateway}
  <2>1. gw[p.dev] \in Gateways \cup {NoGateway} /\ queue[p.dev] \in 0 .. MaxFrames
    BY <1>1 DEF PeriodInv, TypeOK
  <2>2. CASE PingWithoutFrame(p) \/ PingOverlap(p)
    BY <2>2 DEF PingWithoutFrame, PingOverlap, PeriodInv, TypeOK
  <2>3. CASE PingRefused(p)
    BY <2>1, <2>3 DEF PingRefused, PeriodInv, TypeOK
  <2>4. CASE PingSent(p)
    <3>1. queue[p.dev] - 1 \in 0 .. MaxFrames
      BY <2>1, <2>4, PingAssumption DEF PingSent
    <3> QED BY <2>1, <2>4, <3>1 DEF PingSent, PeriodInv, TypeOK
  <2> QED BY <2>2, <2>3, <2>4
<1>4. TypeOK'
  BY <1>2, <1>3 DEF PeriodInv, TypeOK
<1> QED BY <1>2, <1>4, ClocksFrame, PingsFrame, WindowsFrame, CounterFrame,
        WrapsFrame, NowIsNat DEF PeriodInv

\* New frames and the uplinks of the devices touch neither clocks nor slots.
LEMMA TrafficStep ==
  ASSUME PeriodInv, NEW d \in Devices,
         \/ ClassBDSTimerExpired(d) \/ SendPacket(d) \/ UplinkEnds(d)
         \/ \E g \in Gateways : HandleUSPacket(d, g)
  PROVE  PeriodInv'
<1> USE DEF serverVars, recordVars, beaconVars, deviceVars, clockVars, windowVars,
            instantVars
<1>1. UNCHANGED <<now, beaconVars, pings, instantVars, devClassB, clockVars, windowVars>>
  BY DEF ClassBDSTimerExpired, SendPacket, UplinkEnds, HandleUSPacket
<1>2. CASE \E g \in Gateways : HandleUSPacket(d, g)
  <2>1. PICK g \in Gateways : HandleUSPacket(d, g)
    BY <1>2
  <2>2. TypeOK'
    BY <2>1 DEF HandleUSPacket, PeriodInv, TypeOK
  <2>3. PingsOfPeriod'
    <3>1. \A e \in Devices : gw'[e] = gw[e] \/ gw'[e] \in Gateways
      BY <2>1 DEF HandleUSPacket, PeriodInv, TypeOK
    <3>2. \A e \in Devices : classB'[e] => gw'[e] \in Gateways
      BY <2>1 DEF HandleUSPacket, PeriodInv, TypeOK, PingsOfPeriod
    <3>3. \A p \in pings : p.dev \in Devices
      BY DEF PeriodInv, TypeOK
    <3> QED BY <1>1, <3>1, <3>2, <3>3
            DEF PeriodInv, PingsOfPeriod, LastBeacon, SlotsOf, Offset, SlotTime
  <2> QED BY <1>1, <2>2, <2>3, ClocksFrame, WindowsFrame, CounterFrame, WrapsFrame,
             NowIsNat DEF PeriodInv
<1>3. CASE ClassBDSTimerExpired(d)
  <2>1. queue[d] + 1 \in 0 .. MaxFrames
    BY <1>3, PingAssumption DEF ClassBDSTimerExpired, PeriodInv, TypeOK
  <2>2. TypeOK'
    BY <1>3, <2>1 DEF ClassBDSTimerExpired, PeriodInv, TypeOK
  <2>3. UNCHANGED <<classB, gw>>
    BY <1>3 DEF ClassBDSTimerExpired
  <2> QED BY <1>1, <2>2, <2>3, PingsFrame, ClocksFrame, WindowsFrame, CounterFrame,
             WrapsFrame, NowIsNat DEF PeriodInv
<1>4. CASE SendPacket(d) \/ UplinkEnds(d)
  <2>1. TypeOK'
    BY <1>4 DEF SendPacket, UplinkEnds, PeriodInv, TypeOK
  <2>2. UNCHANGED <<classB, gw>>
    BY <1>4 DEF SendPacket, UplinkEnds
  <2> QED BY <1>1, <2>1, <2>2, PingsFrame, ClocksFrame, WindowsFrame, CounterFrame,
             WrapsFrame, NowIsNat DEF PeriodInv
<1> QED BY <1>2, <1>3, <1>4

\* Time passes to the next event at most: none is skipped, and what could still differ
\* within the instant of a beacon has been settled.
LEMMA TimeStep ==
  ASSUME PeriodInv, TimePasses
  PROVE  PeriodInv'
<1> USE DEF recordVars, clockVars
<1>1. /\ now' \in Times /\ now' \in Nat /\ now \in Nat
      /\ \A t \in Agenda : now < t /\ now' <= t
      /\ UNCHANGED <<recordVars, queue, beaconAt, listed, pings, devClassB, clockVars,
                     windows, uplink>>
      /\ accepted' = {} /\ refused' = {} /\ opened' = {} /\ beacon' = OFF
  <2>1. Agenda \subseteq Nat
    BY DEF Agenda, PeriodInv, TypeOK, OFF
  <2> QED BY <2>1, PingAssumption DEF TimePasses, PeriodInv, TypeOK, Times
<1>2. /\ now' <= beaconAt /\ now < now'
      /\ \A p \in pings : now' <= p.at
      /\ \A d \in Devices : /\ now' <= devBeaconAt[d]
                            /\ schedule[d] # OFF => now' <= schedule[d]
                            /\ \A w \in windows[d] : now' <= w
  <2>1. now < now'
    BY <1>1 DEF TimePasses
  <2>2. beaconAt \in Agenda
    BY DEF Agenda, PeriodInv, TypeOK, OFF
  <2>3. \A p \in pings : p.at \in Agenda
    BY DEF Agenda, PeriodInv, TypeOK, OFF
  <2>4. \A d \in Devices : /\ devBeaconAt[d] \in Agenda
                           /\ schedule[d] # OFF => schedule[d] \in Agenda
                           /\ windows[d] \subseteq Agenda
    BY DEF Agenda, PeriodInv, TypeOK, OFF
  <2> QED BY <1>1, <2>1, <2>2, <2>3, <2>4
<1>3. TypeOK'
  BY <1>1 DEF PeriodInv, TypeOK
<1>4. ClocksAgree'
  <2>1. LastBeacon' \in 0 .. now' /\ now' <= beaconAt'
    BY <1>1, <1>2 DEF PeriodInv, ClocksAgree, LastBeacon, TypeOK
  <2>2. ASSUME NEW d \in Devices
        PROVE  /\ LastAttempt(d)' \in 0 .. now' /\ devBeaconAt[d] = beaconAt
               /\ schedule[d] # OFF => /\ schedule[d] = LastAttempt(d) + BEACON_TIME
                                      /\ now' <= schedule[d] /\ LastAttempt(d) > 0
               /\ timestamp[d] \in {0, LastAttempt(d)}
               /\ devClassB[d] /\ schedule[d] = OFF => timestamp[d] = LastAttempt(d)
    <3>1. devBeaconAt[d] = beaconAt
      BY <1>1, <1>2 DEF PeriodInv, ClocksAgree, LastBeacon, TypeOK
    <3>2. LastAttempt(d)' \in 0 .. now'
      BY <1>1, <1>2, PeriodPositive DEF PeriodInv, ClocksAgree, LastAttempt, TypeOK
    <3> QED BY <1>2, <3>1, <3>2 DEF PeriodInv, ClocksAgree
  <2> QED BY <1>1, <2>1, <2>2 DEF ClocksAgree, LastBeacon, LastAttempt, OFF
<1>5. PingsOfPeriod'
  BY <1>1, <1>2 DEF PeriodInv, PingsOfPeriod, LastBeacon, SlotsOf, Offset, SlotTime
<1>6. WindowsOfPeriod'
  <2> SUFFICES ASSUME NEW d \in Devices
               PROVE  /\ \A w \in windows[d] :
                           /\ now' <= w /\ schedule[d] = OFF /\ timestamp[d] # 0
                           /\ \E s \in SlotsOf(d, timestamp[d]) :
                                w = timestamp[d] + SlotTime(s)
                      /\ schedule[d] = OFF /\ timestamp[d] # 0 =>
                           \A s \in SlotsOf(d, timestamp[d]) :
                             timestamp[d] + SlotTime(s) >= now' =>
                               timestamp[d] + SlotTime(s) \in windows[d]
    BY <1>1 DEF WindowsOfPeriod, SlotsOf, Offset, SlotTime
  <2>1. ASSUME schedule[d] = OFF, timestamp[d] # 0, NEW s \in SlotsOf(d, timestamp[d]),
               timestamp[d] + SlotTime(s) >= now'
        PROVE  timestamp[d] + SlotTime(s) \in windows[d]
    <3>1. timestamp[d] \in Times
      BY DEF PeriodInv, TypeOK
    <3>2. timestamp[d] \in Nat /\ SlotTime(s) \in Nat
      BY <3>1, SlotBounds DEF Times
    <3>3. timestamp[d] + SlotTime(s) >= now /\ timestamp[d] + SlotTime(s) # now
      BY <1>1, <1>2, <2>1, <3>2
    <3> QED BY <2>1, <3>3 DEF PeriodInv, WindowsOfPeriod
  <2> QED BY <1>2, <2>1 DEF PeriodInv, WindowsOfPeriod
<1>7. CounterCounts'
  BY <1>1, CounterFrame DEF PeriodInv
<1>8. CounterWraps'
  BY <1>1, <1>2, WrapsFrame DEF PeriodInv
<1> QED BY <1>3, <1>4, <1>5, <1>6, <1>7, <1>8 DEF PeriodInv

\* With the beacon, a new period begins for the server: its pings are those of the
\* period, the old ones are over.
LEMMA BeaconStep ==
  ASSUME PeriodInv, ClassBSendBeacon
  PROVE  PeriodInv'
<1> USE DEF recordVars, instantVars, deviceVars, clockVars, windowVars
<1>1. /\ now = beaconAt /\ beaconAt' = now + PERIOD /\ beacon' \in {now, OFF}
      /\ UNCHANGED <<now, recordVars, queue, instantVars, deviceVars>>
  BY DEF ClassBSendBeacon
<1>2. now \in Times /\ now \in Nat /\ LastBeacon \in 0 .. now /\ LastBeacon \in Times
      /\ LastBeacon = now - PERIOD
  BY <1>1, PingAssumption DEF PeriodInv, TypeOK, ClocksAgree, Times, LastBeacon
<1>3. now > 0 /\ LastBeacon' = now
  BY <1>1, <1>2, PeriodPositive DEF LastBeacon
<1>4. pings = {}
  <2> SUFFICES ASSUME NEW p \in pings PROVE FALSE
    OBVIOUS
  <2>1. p.dev \in Devices /\ p.slot \in SlotsOf(p.dev, LastBeacon)
        /\ p.at = LastBeacon + SlotTime(p.slot) /\ now <= p.at
    BY DEF PeriodInv, TypeOK, PingsOfPeriod
  <2>2. SlotTime(p.slot) \in Nat /\ SlotTime(p.slot) < PERIOD
    BY <1>2, <2>1, SlotBounds
  <2> QED BY <1>2, <2>1, <2>2, PeriodPositive
<1>5. \A d \in Devices : \A s \in SlotsOf(d, now) : s \in Nat /\ SlotTime(s) \in Nat
  BY <1>2, SlotBounds
<1>6. \A d \in Devices : classB[d] => gw[d] \in Gateways
  BY DEF PeriodInv, PingsOfPeriod
<1>7. \A p \in pings' : \E d \in Devices : \E s \in SlotsOf(d, now) :
        classB[d] /\ p = [at |-> now + SlotTime(s), dev |-> d, slot |-> s]
  BY <1>4 DEF ClassBSendBeacon
<1>8. TypeOK'
  <2>1. listed' \subseteq (Gateways \cup {NoGateway}) \X Nat \X Devices
    <3>1. listed' = UNION {{<<gw[d], s, d>> : s \in SlotsOf(d, now)} :
                            d \in {e \in Devices : classB[e]}}
      BY DEF ClassBSendBeacon
    <3>2. ASSUME NEW d \in Devices, classB[d], NEW s \in SlotsOf(d, now)
          PROVE  <<gw[d], s, d>> \in (Gateways \cup {NoGateway}) \X Nat \X Devices
      BY <1>5, <1>6, <3>2
    <3> QED BY <3>1, <3>2
  <2>2. pings' \subseteq [at : Nat, dev : Devices, slot : Nat]
    BY <1>2, <1>5, <1>7
  <2>3. beaconAt' \in Nat /\ beacon' \in Times \cup {OFF}
    BY <1>1, <1>2, PeriodPositive
  <2> QED BY <1>1, <2>1, <2>2, <2>3 DEF PeriodInv, TypeOK
<1>9. ClocksAgree'
  <2>1. LastBeacon' \in 0 .. now' /\ now' <= beaconAt'
    BY <1>1, <1>2, <1>3, PeriodPositive
  <2>2. beacon' # OFF => beacon' = now' /\ now' = LastBeacon' /\ now' > 0
    BY <1>1, <1>3
  <2>3. ASSUME NEW d \in Devices
        PROVE  \/ devBeaconAt[d] = beaconAt'
               \/ devBeaconAt[d] = LastBeacon' /\ now' = LastBeacon'
    <3>1. CASE devBeaconAt[d] = beaconAt
      BY <1>1, <1>3, <3>1
    <3>2. CASE devBeaconAt[d] = beaconAt + PERIOD
      BY <1>1, <3>2
    <3>3. CASE devBeaconAt[d] = LastBeacon /\ now = LastBeacon
      BY <1>2, <3>3, PeriodPositive
    <3> QED BY <3>1, <3>2, <3>3 DEF PeriodInv, ClocksAgree
  <2> QED BY <1>1, <2>1, <2>2, <2>3 DEF PeriodInv, ClocksAgree, LastAttempt
<1>10. PingsOfPeriod'
  <2> SUFFICES ASSUME NEW p \in pings'
               PROVE  /\ p.slot \in SlotsOf(p.dev, now) /\ p.at = now + SlotTime(p.slot)
                      /\ now <= p.at /\ gw[p.dev] \in Gateways
    BY <1>1, <1>3, <1>6 DEF PingsOfPeriod, SlotsOf, Offset, SlotTime
  <2>1. PICK d \in Devices : \E s \in SlotsOf(d, now) :
          classB[d] /\ p = [at |-> now + SlotTime(s), dev |-> d, slot |-> s]
    BY <1>7
  <2>2. PICK s \in SlotsOf(d, now) :
          classB[d] /\ p = [at |-> now + SlotTime(s), dev |-> d, slot |-> s]
    BY <2>1
  <2>3. SlotTime(s) \in Nat /\ gw[d] \in Gateways
    BY <1>5, <1>6, <2>2
  <2> QED BY <1>2, <2>2, <2>3
<1> QED BY <1>1, <1>8, <1>9, <1>10, WindowsFrame, CounterFrame, WrapsFrame, NowIsNat
        DEF PeriodInv

\* A device that waits for the next beacon has opened all windows of the last period.
LEMMA ReceiveBeaconStep ==
  ASSUME PeriodInv, NEW d \in Devices, ClassBReceiveBeacon(d)
  PROVE  PeriodInv'
<1> USE DEF serverVars, recordVars, beaconVars, instantVars, windowVars
<1>1. /\ now = devBeaconAt[d]
      /\ timestamp' = [timestamp EXCEPT ![d] = 0]
      /\ schedule' = [schedule EXCEPT ![d] = now + BEACON_TIME]
      /\ devBeaconAt' = [devBeaconAt EXCEPT ![d] = now + PERIOD]
      /\ UNCHANGED <<now, serverVars, devClassB, missed, lastHeard, windowVars, uplink>>
  BY DEF ClassBReceiveBeacon
<1>2. /\ now \in Times /\ now \in Nat /\ schedule[d] \in Nat \cup {OFF}
      /\ timestamp[d] \in Times /\ timestamp[d] \in Nat /\ 0 \in Times
      /\ LastAttempt(d) = now - PERIOD /\ LastAttempt(d) >= 0 /\ beaconAt \in Nat
      /\ missed[d] \in Nat /\ lastHeard[d] \in Nat
  BY <1>1, PingAssumption, HoldAssumption, PeriodPositive
  DEF PeriodInv, TypeOK, ClocksAgree, Times, LastAttempt
<1>3. /\ schedule'[d] = now + BEACON_TIME /\ schedule'[d] # OFF /\ timestamp'[d] = 0
      /\ devBeaconAt'[d] = now + PERIOD /\ LastAttempt(d)' = now /\ now > 0
  BY <1>1, <1>2, PeriodPositive DEF PeriodInv, TypeOK, LastAttempt, OFF
<1>4. schedule[d] = OFF
  <2>1. schedule[d] # OFF => now <= LastAttempt(d) + BEACON_TIME
    BY DEF PeriodInv, ClocksAgree
  <2> QED BY <1>2, <2>1, PeriodPositive
<1>5. windows[d] = {}
  <2> SUFFICES ASSUME NEW w \in windows[d] PROVE FALSE
    OBVIOUS
  <2>1. now <= w /\ timestamp[d] # 0
    BY DEF PeriodInv, WindowsOfPeriod
  <2>2. PICK s \in SlotsOf(d, timestamp[d]) : w = timestamp[d] + SlotTime(s)
    BY DEF PeriodInv, WindowsOfPeriod
  <2>3. timestamp[d] = now - PERIOD
    BY <1>2, <2>1 DEF PeriodInv, ClocksAgree
  <2>4. SlotTime(s) \in Nat /\ SlotTime(s) < PERIOD
    BY <1>2, SlotBounds
  <2> QED BY <1>2, <2>1, <2>2, <2>3, <2>4, PeriodPositive
<1>6. TypeOK'
  <2>1. now + BEACON_TIME \in Nat /\ now + PERIOD \in Nat
    BY <1>2, PeriodPositive
  <2> QED BY <1>1, <1>2, <2>1 DEF PeriodInv, TypeOK
<1>7. ClocksAgree'
  <2>1. \/ devBeaconAt'[d] = beaconAt
        \/ devBeaconAt'[d] = beaconAt + PERIOD /\ now = beaconAt
    <3>1. CASE devBeaconAt[d] = beaconAt
      BY <1>1, <1>3, <3>1
    <3>2. CASE devBeaconAt[d] = beaconAt + PERIOD /\ now = beaconAt
      BY <1>1, <1>2, <3>2, PeriodPositive
    <3>3. CASE devBeaconAt[d] = LastBeacon
      BY <1>1, <1>2, <1>3, <3>3, PeriodPositive DEF LastBeacon
    <3> QED BY <3>1, <3>2, <3>3 DEF PeriodInv, ClocksAgree
  <2>2. ASSUME NEW e \in Devices, e # d
        PROVE  UNCHANGED <<devBeaconAt[e], schedule[e], timestamp[e], devClassB[e],
                           LastAttempt(e)>>
    BY <1>1, <2>2 DEF PeriodInv, TypeOK, LastAttempt
  <2>3. LastBeacon \in 0 .. now /\ now <= beaconAt /\ UNCHANGED LastBeacon
        /\ (beacon # OFF => beacon = now /\ now = LastBeacon /\ now > 0)
    BY <1>1 DEF PeriodInv, ClocksAgree, LastBeacon
  <2>4. ASSUME NEW e \in Devices
        PROVE /\ LastAttempt(e)' \in 0 .. now
              /\ \/ devBeaconAt'[e] = beaconAt
                 \/ devBeaconAt'[e] = beaconAt + PERIOD /\ now = beaconAt
                 \/ devBeaconAt'[e] = LastBeacon /\ now = LastBeacon
              /\ schedule'[e] # OFF => /\ schedule'[e] = LastAttempt(e)' + BEACON_TIME
                                      /\ now <= schedule'[e] /\ LastAttempt(e)' > 0
              /\ timestamp'[e] \in {0, LastAttempt(e)'}
              /\ devClassB[e] /\ schedule'[e] = OFF => timestamp'[e] = LastAttempt(e)'
    <3>1. CASE e = d
      BY <1>2, <1>3, <2>1, <3>1, PeriodPositive
    <3>2. CASE e # d
      BY <2>2, <3>2 DEF PeriodInv, ClocksAgree
    <3> QED BY <3>1, <3>2
  <2> QED BY <1>1, <2>3, <2>4 DEF ClocksAgree
<1>8. PingsOfPeriod'
  BY <1>1, PingsFrame DEF PeriodInv
<1>9. WindowsOfPeriod'
  <2>1. \A e \in Devices : e # d => UNCHANGED <<schedule[e], timestamp[e]>>
    BY <1>1 DEF PeriodInv, TypeOK
  <2> QED BY <1>1, <1>3, <1>5, <2>1
          DEF PeriodInv, WindowsOfPeriod, SlotsOf, Offset, SlotTime
<1>10. CounterCounts'
  <2>1. \A e \in Devices : e # d => UNCHANGED <<schedule[e], timestamp[e], LastAttempt(e)>>
    BY <1>1 DEF PeriodInv, TypeOK, LastAttempt
  <2>2. ASSUME devClassB[d]
        PROVE  now - lastHeard[d] = (missed[d] + 1) * PERIOD /\ missed[d] < MissLimit
    <3>1. LastAttempt(d) - lastHeard[d] = missed[d] * PERIOD /\ missed[d] < MissLimit
      BY <1>4, <2>2 DEF PeriodInv, CounterCounts
    <3>2. (missed[d] + 1) * PERIOD = missed[d] * PERIOD + PERIOD
          /\ missed[d] * PERIOD \in Nat
      BY <1>2, PeriodPositive
    <3> QED BY <1>2, <3>1, <3>2, PeriodPositive
  <2> QED BY <1>1, <1>3, <2>1, <2>2 DEF PeriodInv, CounterCounts
<1>11. CounterWraps'
  <2>1. \A e \in Devices : e # d => UNCHANGED <<schedule[e], timestamp[e], LastAttempt(e)>>
    BY <1>1 DEF PeriodInv, TypeOK, LastAttempt
  <2>2. PICK k \in 0 .. now : /\ LastAttempt(d) - lastHeard[d] = k * PERIOD
                             /\ missed[d] = k % CounterSize
    BY <1>4 DEF PeriodInv, CounterWraps
  <2>3. now - lastHeard[d] = (k + 1) * PERIOD /\ k + 1 \in 0 .. now
    <3>1. k * PERIOD \in Nat /\ (k + 1) * PERIOD = k * PERIOD + PERIOD
      BY <1>2, PeriodPositive
    <3>2. now - lastHeard[d] = (k + 1) * PERIOD
      BY <1>2, <2>2, <3>1, PeriodPositive
    <3>3. (k + 1) * 1 <= (k + 1) * PERIOD
      BY <1>2, PeriodPositive, TimesMonotonic
    <3>4. (k + 1) * PERIOD <= now
      BY <1>2, <3>2
    <3> QED BY <1>2, <3>1, <3>2, <3>3, <3>4
  <2>4. (missed[d] + 1) % CounterSize = (k + 1) % CounterSize
    <3>1. k \in Nat /\ CounterSize \in Nat /\ CounterSize > 0
      BY <1>2, HoldAssumption
    <3> QED BY <2>2, <3>1, CounterModulo
  <2> QED BY <1>1, <1>3, <1>5, <2>1, <2>3, <2>4 DEF PeriodInv, CounterWraps
<1> QED BY <1>6, <1>7, <1>8, <1>9, <1>10, <1>11 DEF PeriodInv

\* The beacon a device hears is the one it waits for.
LEMMA HearBeaconStep ==
  ASSUME PeriodInv, NEW d \in Devices, HearBeacon(d)
  PROVE  PeriodInv' /\ beacon = LastAttempt(d)
<1> USE DEF serverVars, recordVars, beaconVars, instantVars, windowVars
<1>1. /\ schedule[d] # OFF /\ beacon # OFF
      /\ timestamp' = [timestamp EXCEPT ![d] = beacon]
      /\ lastHeard' = [lastHeard EXCEPT ![d] = beacon]
      /\ UNCHANGED <<now, serverVars, devClassB, missed, devBeaconAt, schedule,
                     windowVars, uplink>>
  BY DEF HearBeacon
<1>2. /\ beacon = now /\ now = LastBeacon /\ now > 0 /\ now \in Times /\ now \in Nat
      /\ beaconAt = now + PERIOD /\ now <= LastAttempt(d) + BEACON_TIME
      /\ LastAttempt(d) \in 0 .. now
  BY <1>1, PingAssumption, PeriodPositive
  DEF PeriodInv, TypeOK, ClocksAgree, Times, LastBeacon
<1>3. LastAttempt(d) = now
  <2>1. CASE devBeaconAt[d] = beaconAt
    BY <1>2, <2>1, PeriodPositive DEF LastAttempt
  <2>2. CASE now = beaconAt
    BY <1>2, <2>2, PeriodPositive
  <2>3. CASE devBeaconAt[d] = LastBeacon
    BY <1>2, <2>3, PeriodPositive DEF LastAttempt
  <2> QED BY <2>1, <2>2, <2>3 DEF PeriodInv, ClocksAgree
<1>4. timestamp'[d] = now /\ lastHeard'[d] = now /\ UNCHANGED LastAttempt(d)
  BY <1>1, <1>2 DEF PeriodInv, TypeOK, LastAttempt
<1>5. \A e \in Devices : /\ e # d => UNCHANGED <<timestamp[e], lastHeard[e]>>
                         /\ UNCHANGED <<schedule[e], devBeaconAt[e], LastAttempt(e)>>
  BY <1>1 DEF PeriodInv, TypeOK, LastAttempt
<1>6. TypeOK'
  BY <1>1, <1>2 DEF PeriodInv, TypeOK
<1>7. ClocksAgree'
  BY <1>1, <1>3, <1>4, <1>5 DEF PeriodInv, ClocksAgree, LastBeacon
<1>8. PingsOfPeriod'
  BY <1>1, PingsFrame DEF PeriodInv
<1>9. WindowsOfPeriod'
  BY <1>1, <1>5 DEF PeriodInv, WindowsOfPeriod, SlotsOf, Offset, SlotTime
<1>10. CounterCounts'
  BY <1>1, <1>2, <1>3, <1>4, <1>5 DEF PeriodInv, CounterCounts
<1>11. CounterWraps'
  <2>1. LastAttempt(d)' - lastHeard'[d] = 0 * PERIOD /\ 0 \in 0 .. now
    BY <1>2, <1>3, <1>4, PeriodPositive
  <2> QED BY <1>1, <1>2, <1>4, <1>5, <2>1 DEF PeriodInv, CounterWraps
<1> QED BY <1>2, <1>3, <1>6, <1>7, <1>8, <1>9, <1>10, <1>11 DEF PeriodInv

\* The slots are computed from the same time whether the beacon was heard or not.
LEMMA ScheduleStep ==
  ASSUME PeriodInv, NEW d \in Devices, ClassBSchedulePingSlots(d)
  PROVE  PeriodInv'
<1> USE DEF serverVars, recordVars, beaconVars, instantVars
<1> DEFINE n == (missed[d] + 1) % CounterSize
           heard == timestamp[d] # 0
           t == IF heard THEN timestamp[d] ELSE Generated
<1>1. /\ now = schedule[d]
      /\ schedule' = [schedule EXCEPT ![d] = OFF]
      /\ missed' = [missed EXCEPT ![d] = IF heard THEN 0 ELSE n]
      /\ UNCHANGED <<now, serverVars, devBeaconAt, lastHeard, opened, uplink>>
  BY DEF ClassBSchedulePingSlots, CounterReset
<1>2. \/ /\ heard \/ n < MissLimit
         /\ timestamp' = [timestamp EXCEPT ![d] = t]
         /\ windows' = [windows EXCEPT ![d] = @ \cup PingTimes(d, t)]
         /\ UNCHANGED devClassB
      \/ /\ ~heard /\ devClassB' = [devClassB EXCEPT ![d] = FALSE]
         /\ UNCHANGED <<timestamp, windows>>
  BY DEF ClassBSchedulePingSlots, MayMiss
<1>3. /\ now \in Times /\ now \in Nat /\ schedule[d] # OFF /\ timestamp[d] \in Times
      /\ now = LastAttempt(d) + BEACON_TIME /\ LastAttempt(d) > 0
      /\ LastAttempt(d) \in 0 .. now /\ missed[d] \in 0 .. CounterSize - 1
      /\ lastHeard[d] \in Nat
  BY <1>1, PingAssumption DEF PeriodInv, TypeOK, ClocksAgree, Times, OFF
<1>4. LastAttempt(d) \in Times /\ LastAttempt(d) \in Nat
  BY <1>3, PingAssumption DEF Times
<1>5. t = LastAttempt(d) /\ t # 0 /\ t \in Times /\ t \in Nat /\ now = t + BEACON_TIME
  <2>1. CASE heard
    BY <1>3, <1>4, <2>1 DEF PeriodInv, ClocksAgree
  <2>2. CASE ~heard
    BY <1>3, <1>4, <2>2, PeriodPositive DEF Generated
  <2> QED BY <2>1, <2>2
<1>6. windows[d] = {}
  BY <1>3 DEF PeriodInv, WindowsOfPeriod
<1>7. PingTimes(d, t) = {t + SlotTime(s) : s \in SlotsOf(d, t)}
      /\ \A s \in SlotsOf(d, t) : SlotTime(s) \in Nat /\ now <= t + SlotTime(s)
  <2>1. ASSUME NEW s \in SlotsOf(d, t)
        PROVE  /\ SlotTime(s) \in Nat /\ now <= t + SlotTime(s)
               /\ now + (SlotTime(s) - (now - t)) = t + SlotTime(s)
    <3>1. SlotTime(s) \in Nat /\ RESERVED <= SlotTime(s)
      BY <1>5, SlotBounds
    <3> HIDE DEF t
    <3> QED BY <1>3, <1>5, <3>1, PeriodPositive
  <2> HIDE DEF t
  <2> QED BY <2>1 DEF PingTimes
<1>8. n \in 0 .. CounterSize - 1 /\ (missed[d] < MissLimit => n = missed[d] + 1)
  <2>1. CounterSize \in Nat \ {0} /\ missed[d] + 1 \in Nat
    BY <1>3, HoldAssumption
  <2>2. missed[d] < MissLimit => missed[d] + 1 < CounterSize
    BY <1>3, HoldAssumption
  <2> QED BY <2>1, <2>2
<1> HIDE DEF n, t
<1>9. /\ schedule'[d] = OFF /\ missed'[d] = (IF heard THEN 0 ELSE n)
      /\ timestamp'[d] \in {0, LastAttempt(d)} /\ UNCHANGED LastAttempt(d)
      /\ devClassB'[d] => devClassB[d] /\ timestamp'[d] = LastAttempt(d)
                          /\ (heard \/ n < MissLimit)
  <2>1. schedule'[d] = OFF /\ missed'[d] = (IF heard THEN 0 ELSE n)
        /\ UNCHANGED LastAttempt(d)
    BY <1>1 DEF PeriodInv, TypeOK, LastAttempt
  <2>2. CASE ~heard /\ devClassB' = [devClassB EXCEPT ![d] = FALSE]
             /\ UNCHANGED <<timestamp, windows>>
    BY <2>1, <2>2 DEF PeriodInv, TypeOK
  <2>3. CASE timestamp' = [timestamp EXCEPT ![d] = t] /\ UNCHANGED devClassB
             /\ (heard \/ n < MissLimit)
    BY <1>5, <2>1, <2>3 DEF PeriodInv, TypeOK
  <2> QED BY <1>2, <2>2, <2>3
<1>10. \A e \in Devices : e # d =>
         UNCHANGED <<schedule[e], missed[e], timestamp[e], windows[e], devClassB[e],
                     LastAttempt(e)>>
  BY <1>1, <1>2 DEF PeriodInv, TypeOK, LastAttempt
<1>11. TypeOK'
  <2>1. missed' \in [Devices -> 0 .. CounterSize - 1]
        /\ schedule' \in [Devices -> Nat \cup {OFF}]
    <3>1. 0 \in 0 .. CounterSize - 1
      BY HoldAssumption
    <3> QED BY <1>1, <1>8, <3>1 DEF PeriodInv, TypeOK
  <2>2. timestamp' \in [Devices -> Times] /\ devClassB' \in [Devices -> BOOLEAN]
    BY <1>2, <1>5 DEF PeriodInv, TypeOK
  <2>3. windows' \in [Devices -> SUBSET Nat]
    <3>1. PingTimes(d, t) \subseteq Nat
      BY <1>5, <1>7
    <3> QED BY <1>2, <3>1 DEF PeriodInv, TypeOK
  <2> QED BY <1>1, <2>1, <2>2, <2>3 DEF PeriodInv, TypeOK
<1>12. ClocksAgree'
  BY <1>1, <1>3, <1>9, <1>10 DEF PeriodInv, ClocksAgree, LastBeacon
<1>13. PingsOfPeriod'
  BY <1>1, PingsFrame DEF PeriodInv
<1>14. WindowsOfPeriod'
  <2>1. \/ windows'[d] = PingTimes(d, t) /\ timestamp'[d] = t
        \/ windows'[d] = {} /\ timestamp'[d] = 0
    BY <1>2, <1>6 DEF PeriodInv, TypeOK
  <2>2. /\ \A w \in windows'[d] :
             /\ now <= w /\ timestamp'[d] # 0
             /\ \E s \in SlotsOf(d, timestamp'[d]) : w = timestamp'[d] + SlotTime(s)
        /\ timestamp'[d] # 0 =>
             \A s \in SlotsOf(d, timestamp'[d]) :
               timestamp'[d] + SlotTime(s) \in windows'[d]
    BY <1>5, <1>7, <2>1
  <2> QED BY <1>1, <1>9, <1>10, <2>2
          DEF PeriodInv, WindowsOfPeriod, SlotsOf, Offset, SlotTime
<1>15. CounterCounts'
  <2>1. ASSUME devClassB'[d]
        PROVE  missed'[d] < MissLimit /\ LastAttempt(d) - lastHeard[d] = missed'[d] * PERIOD
    <3>1. devClassB[d] /\ missed[d] < MissLimit /\ (heard \/ n < MissLimit)
      BY <1>9, <2>1 DEF PeriodInv, CounterCounts
    <3>2. CASE heard
      <4>1. lastHeard[d] = LastAttempt(d) /\ missed'[d] = 0
        BY <1>3, <1>9, <3>1, <3>2 DEF PeriodInv, CounterCounts
      <4> QED BY <1>3, <4>1, HoldAssumption, PeriodPositive
    <3>3. CASE ~heard
      <4>1. LastAttempt(d) - lastHeard[d] = (missed[d] + 1) * PERIOD
        BY <1>3, <3>1, <3>3 DEF PeriodInv, CounterCounts
      <4>2. missed'[d] = missed[d] + 1 /\ missed'[d] < MissLimit
        BY <1>8, <1>9, <3>1, <3>3
      <4> QED BY <4>1, <4>2
    <3> QED BY <3>2, <3>3
  <2> QED BY <1>1, <1>9, <1>10, <2>1 DEF PeriodInv, CounterCounts
<1>16. CounterWraps'
  <2>1. PICK k \in 0 .. now :
          /\ LastAttempt(d) - lastHeard[d] = k * PERIOD
          /\ IF heard THEN k = 0 ELSE (missed[d] + 1) % CounterSize = k % CounterSize
    BY <1>3 DEF PeriodInv, CounterWraps
  <2>2. missed'[d] = k % CounterSize
    <3>1. CASE heard
      <4>1. CounterSize \in Nat /\ CounterSize > 0
        BY HoldAssumption
      <4>2. 0 \in 0 .. CounterSize - 1 /\ 0 = CounterSize * 0 + 0
        BY <4>1
      <4>3. 0 % CounterSize = 0
        BY <4>1, <4>2, QuotientUnique
      <4> QED BY <1>9, <2>1, <3>1, <4>3
    <3>2. CASE ~heard
      BY <1>9, <2>1, <3>2 DEF n
    <3> QED BY <3>1, <3>2
  <2>3. windows'[d] # {} => missed'[d] < MissLimit
    <3>1. windows'[d] # {} => heard \/ n < MissLimit
      BY <1>2, <1>6
    <3> QED BY <1>9, <3>1, HoldAssumption
  <2> QED BY <1>1, <1>9, <1>10, <2>1, <2>2, <2>3 DEF PeriodInv, CounterWraps
<1> QED BY <1>11, <1>12, <1>13, <1>14, <1>15, <1>16 DEF PeriodInv

\* A window that is opened was scheduled, and is remembered for its instant.
LEMMA WindowStep ==
  ASSUME PeriodInv, NEW d \in Devices, ClassBPingSlot(d)
  PROVE  PeriodInv'
<1> USE DEF serverVars, recordVars, beaconVars, instantVars, clockVars
<1>1. /\ windows' = [windows EXCEPT ![d] = @ \ {now}] /\ opened' = opened \cup {d}
      /\ UNCHANGED <<now, serverVars, devClassB, clockVars, uplink>>
  BY DEF ClassBPingSlot
<1>2. TypeOK'
  BY <1>1 DEF PeriodInv, TypeOK
<1>3. \A e \in Devices : /\ windows'[e] \subseteq windows[e]
                         /\ \A w \in windows[e] :
                              w \in windows'[e] \/ (w = now /\ e \in opened')
  BY <1>1 DEF PeriodInv, TypeOK
<1>4. WindowsOfPeriod'
  <2> SUFFICES ASSUME NEW e \in Devices
               PROVE  /\ \A w \in windows'[e] :
                           /\ now <= w /\ schedule[e] = OFF /\ timestamp[e] # 0
                           /\ \E s \in SlotsOf(e, timestamp[e]) :
                                w = timestamp[e] + SlotTime(s)
                      /\ schedule[e] = OFF /\ timestamp[e] # 0 =>
                           \A s \in SlotsOf(e, timestamp[e]) :
                             LET w == timestamp[e] + SlotTime(s) IN
                             w >= now => w \in windows'[e] \/ (w = now /\ e \in opened')
    BY <1>1 DEF WindowsOfPeriod, SlotsOf, Offset, SlotTime
  <2>1. opened \subseteq opened'
    BY <1>1
  <2> QED BY <1>3, <2>1 DEF PeriodInv, WindowsOfPeriod
<1> QED BY <1>1, <1>2, <1>3, <1>4, ClocksFrame, PingsFrame, CounterFrame, WrapsFrame,
           NowIsNat DEF PeriodInv

LEMMA StutterStep ==
  ASSUME PeriodInv, UNCHANGED vars
  PROVE  PeriodInv'
<1> USE DEF vars, serverVars, recordVars, beaconVars, instantVars, deviceVars,
            clockVars, windowVars
<1>1. TypeOK'
  BY DEF PeriodInv, TypeOK
<1> QED BY <1>1, ClocksFrame, PingsFrame, WindowsFrame, CounterFrame,
        WrapsFrame, NowIsNat DEF PeriodInv

\* Every step preserves the invariant.
LEMMA NextInv ==
  ASSUME PeriodInv, [Next]_vars
  PROVE  PeriodInv'
<1>1. CASE ClassBSendBeacon
  BY <1>1, BeaconStep
<1>2. CASE \E p \in pings : \/ PingWithoutFrame(p) \/ PingOverlap(p)
                           \/ PingRefused(p) \/ PingSent(p)
  BY <1>2, PingStep
<1>3. ASSUME NEW d \in Devices,
             \/ ClassBDSTimerExpired(d) \/ \E g \in Gateways : HandleUSPacket(d, g)
             \/ SendPacket(d) \/ UplinkEnds(d)
      PROVE  PeriodInv'
  BY <1>3, TrafficStep
<1>4. ASSUME NEW d \in Devices,
             \/ ClassBReceiveBeacon(d) \/ HearBeacon(d)
             \/ ClassBSchedulePingSlots(d) \/ ClassBPingSlot(d)
      PROVE  PeriodInv'
  BY <1>4, ReceiveBeaconStep, HearBeaconStep, ScheduleStep, WindowStep
<1>5. CASE TimePasses
  BY <1>5, TimeStep
<1>6. CASE UNCHANGED vars
  BY <1>6, StutterStep
<1> QED BY <1>1, <1>2, <1>3, <1>4, <1>5, <1>6 DEF Next

\* Server and devices, each computing for itself, agree on every slot of every period,
\* whatever beacons were missed (gateway-application.cc 776, enddevice-application.cc 587).
THEOREM SlotsAgree == Spec => []PeriodInv
<1>1. Init => PeriodInv
  BY InitInv
<1>2. PeriodInv /\ [Next]_vars => PeriodInv'
  BY NextInv
<1> QED BY <1>1, <1>2, PTL DEF Spec

\* A downlink of Class B meets an open window of its device, if it still is in Class B
\* (gateway-application.cc 940, enddevice-application.cc 676).
THEOREM PingsMeetWindows == Spec => PingMeetsWindow
<1>1. ASSUME PeriodInv, [Next]_vars, NEW d \in Devices, queue'[d] < queue[d], devClassB[d]
      PROVE  now \in windows[d] \/ d \in opened
  <2>1. PICK p \in pings : PingSent(p) /\ p.dev = d
    <3>1. queue \in [Devices -> 0 .. MaxFrames] /\ queue[d] \in Int
          /\ \A p \in pings : p.dev \in Devices
      BY <1>1, PingAssumption DEF PeriodInv, TypeOK
    <3>2. queue' # queue
      BY <1>1, <3>1
    <3>3. \/ \E p \in pings : PingSent(p)
          \/ \E e \in Devices : ClassBDSTimerExpired(e)
      <4> USE DEF serverVars
      <4>1. ~TimePasses /\ ~ClassBSendBeacon
        BY <3>2 DEF TimePasses, ClassBSendBeacon
      <4>2. \A p \in pings : ~PingWithoutFrame(p) /\ ~PingOverlap(p) /\ ~PingRefused(p)
        BY <3>2 DEF PingWithoutFrame, PingOverlap, PingRefused
      <4>3. \A e \in Devices :
              /\ \A g \in Gateways : ~HandleUSPacket(e, g)
              /\ ~SendPacket(e) /\ ~UplinkEnds(e) /\ ~ClassBReceiveBeacon(e)
              /\ ~HearBeacon(e) /\ ~ClassBSchedulePingSlots(e) /\ ~ClassBPingSlot(e)
        BY <3>2 DEF HandleUSPacket, SendPacket, UplinkEnds, ClassBReceiveBeacon,
                    HearBeacon, ClassBSchedulePingSlots, ClassBPingSlot
      <4>4. UNCHANGED vars => queue' = queue
        BY DEF vars
      <4> QED BY <1>1, <3>2, <4>1, <4>2, <4>3, <4>4 DEF Next
    <3>4. ASSUME NEW e \in Devices PROVE ~ClassBDSTimerExpired(e)
      <4>1. ClassBDSTimerExpired(e) => queue'[d] \in {queue[d], queue[d] + 1}
        BY <3>1 DEF ClassBDSTimerExpired
      <4> QED BY <1>1, <3>1, <4>1
    <3>5. PICK p \in pings : PingSent(p)
      BY <3>3, <3>4
    <3>6. p.dev = d
      BY <1>1, <3>1, <3>5 DEF PingSent
    <3> QED BY <3>5, <3>6
  <2>2. p.at = now
    BY <2>1 DEF PingSent, PingSlot, Due
  <2>3. /\ p.slot \in SlotsOf(d, LastBeacon) /\ now = LastBeacon + SlotTime(p.slot)
        /\ LastBeacon > 0
    BY <1>1, <2>1, <2>2 DEF PeriodInv, PingsOfPeriod
  <2>4. LastBeacon \in Times /\ LastBeacon \in Nat /\ beaconAt = LastBeacon + PERIOD
    BY <1>1, PingAssumption, PeriodPositive
    DEF PeriodInv, TypeOK, ClocksAgree, Times, LastBeacon
  <2>5. SlotTime(p.slot) \in Nat /\ RESERVED <= SlotTime(p.slot) /\ SlotTime(p.slot) < PERIOD
    BY <2>3, <2>4, SlotBounds
  <2>6. LastAttempt(d) = LastBeacon
    <3>1. devBeaconAt[d] = beaconAt
      BY <1>1, <2>3, <2>4, <2>5, PeriodPositive DEF PeriodInv, ClocksAgree
    <3> QED BY <3>1 DEF LastAttempt, LastBeacon
  <2>7. schedule[d] = OFF
    <3>1. schedule[d] # OFF => now <= LastAttempt(d) + BEACON_TIME
      BY <1>1 DEF PeriodInv, ClocksAgree
    <3> QED BY <2>3, <2>4, <2>5, <2>6, <3>1, PeriodPositive
  <2>8. timestamp[d] = LastBeacon /\ timestamp[d] # 0
    BY <1>1, <2>3, <2>6, <2>7 DEF PeriodInv, ClocksAgree
  <2> QED BY <1>1, <2>3, <2>4, <2>5, <2>7, <2>8 DEF PeriodInv, WindowsOfPeriod
<1>2. PeriodInv /\ [Next]_vars =>
        [\A d \in Devices :
           queue'[d] < queue[d] /\ devClassB[d] => now \in windows[d] \/ d \in opened]_vars
  BY <1>1
<1> QED BY <1>2, SlotsAgree, PTL DEF Spec, PingMeetsWindow

\* A device stays in Class B for the two hours after the last beacon that the comment
\* asks for, and leaves within the period that follows (enddevice-application.cc 597).
THEOREM ClassBHolds == Spec => ClassBKept
<1>1. ASSUME PeriodInv, [Next]_vars, NEW d \in Devices, devClassB[d], ~devClassB'[d]
      PROVE  /\ now - lastHeard[d] >= HOLD
             /\ now - lastHeard[d] < HOLD + PERIOD + BEACON_TIME
  <2>1. ClassBSchedulePingSlots(d)
    <3>1. devClassB' # devClassB
      BY <1>1
    <3>2. \E e \in Devices : ClassBSchedulePingSlots(e)
      <4> USE DEF deviceVars
      <4>1. ~TimePasses /\ ~ClassBSendBeacon
        BY <3>1 DEF TimePasses, ClassBSendBeacon
      <4>2. \A p \in pings : /\ ~PingWithoutFrame(p) /\ ~PingOverlap(p)
                            /\ ~PingRefused(p) /\ ~PingSent(p)
        BY <3>1 DEF PingWithoutFrame, PingOverlap, PingRefused, PingSent, PingSlot
      <4>3. \A e \in Devices :
              /\ \A g \in Gateways : ~HandleUSPacket(e, g)
              /\ ~SendPacket(e) /\ ~UplinkEnds(e) /\ ~ClassBReceiveBeacon(e)
              /\ ~HearBeacon(e) /\ ~ClassBDSTimerExpired(e) /\ ~ClassBPingSlot(e)
        BY <3>1 DEF HandleUSPacket, SendPacket, UplinkEnds, ClassBReceiveBeacon,
                    HearBeacon, ClassBDSTimerExpired, ClassBPingSlot
      <4>4. UNCHANGED vars => devClassB' = devClassB
        BY DEF vars
      <4> QED BY <1>1, <3>1, <4>1, <4>2, <4>3, <4>4 DEF Next
    <3>3. PICK e \in Devices : ClassBSchedulePingSlots(e)
      BY <3>2
    <3>4. devClassB' = [devClassB EXCEPT ![e] = FALSE]
      BY <3>1, <3>3 DEF ClassBSchedulePingSlots
    <3>5. e = d
      BY <1>1, <3>4 DEF PeriodInv, TypeOK
    <3> QED BY <3>3, <3>5
  <2>2. /\ now = schedule[d] /\ timestamp[d] = 0
        /\ ~((missed[d] + 1) % CounterSize < MissLimit)
    BY <1>1, <2>1 DEF ClassBSchedulePingSlots, MayMiss
  <2>3. /\ now \in Nat /\ schedule[d] # OFF /\ now = LastAttempt(d) + BEACON_TIME
        /\ missed[d] \in Nat /\ lastHeard[d] \in Nat /\ LastAttempt(d) \in Int
        /\ missed[d] < MissLimit
        /\ LastAttempt(d) - lastHeard[d] = (missed[d] + 1) * PERIOD
    <3>1. /\ now \in Nat /\ schedule[d] # OFF /\ lastHeard[d] \in Nat
          /\ missed[d] \in 0 .. CounterSize - 1
      BY <1>1, <2>2, PingAssumption DEF PeriodInv, TypeOK, Times, OFF
    <3>2. now = LastAttempt(d) + BEACON_TIME /\ LastAttempt(d) \in 0 .. now
      BY <1>1, <2>2, <3>1 DEF PeriodInv, ClocksAgree
    <3>3. /\ missed[d] < MissLimit
          /\ LastAttempt(d) - lastHeard[d] = (missed[d] + 1) * PERIOD
      BY <1>1, <2>2, <3>1 DEF PeriodInv, CounterCounts
    <3> QED BY <3>1, <3>2, <3>3, HoldAssumption
  <2>4. missed[d] + 1 = MissLimit
    <3>1. missed[d] + 1 < CounterSize /\ CounterSize \in Nat \ {0}
      BY <2>3, HoldAssumption
    <3>2. (missed[d] + 1) % CounterSize = missed[d] + 1
      BY <2>3, <3>1
    <3> QED BY <2>2, <2>3, <3>2, HoldAssumption
  <2>5. now - lastHeard[d] = MissLimit * PERIOD + BEACON_TIME /\ MissLimit * PERIOD \in Nat
    <3>1. MissLimit * PERIOD \in Nat
      BY HoldAssumption, PeriodPositive
    <3> QED BY <2>3, <2>4, <3>1, PeriodPositive
  <2>6. MissLimit * PERIOD < HOLD + PERIOD
    <3>1. (MissLimit - 1) * PERIOD = MissLimit * PERIOD - PERIOD
      BY HoldAssumption, PeriodPositive
    <3> QED BY <2>5, <3>1, HoldAssumption, PeriodPositive
  <2> QED BY <2>3, <2>5, <2>6, HoldAssumption, PeriodPositive
<1>2. PeriodInv /\ [Next]_vars =>
        [\A d \in Devices :
           devClassB[d] /\ ~devClassB'[d] =>
             /\ now - lastHeard[d] >= HOLD
             /\ now - lastHeard[d] < HOLD + PERIOD + BEACON_TIME]_vars
  BY <1>1
<1> QED BY <1>2, SlotsAgree, PTL DEF Spec, ClassBKept

\* A device that has heard no beacon for the hold time opens no windows, but for another
\* hold time each time its counter wraps (enddevice-application.cc 593-600).
THEOREM LostDevicesAreQuiet == Spec => []QuietWhenLost
<1>1. ASSUME PeriodInv, NEW d \in Devices, NEW w \in windows[d]
      PROVE  ((now - lastHeard[d]) \div PERIOD) % CounterSize < MissLimit
  <2>1. /\ now <= w /\ schedule[d] = OFF /\ timestamp[d] # 0
        /\ missed[d] < MissLimit
    BY <1>1 DEF PeriodInv, WindowsOfPeriod, CounterWraps
  <2>2. PICK s \in SlotsOf(d, timestamp[d]) : w = timestamp[d] + SlotTime(s)
    BY <1>1 DEF PeriodInv, WindowsOfPeriod
  <2>3. /\ timestamp[d] = LastAttempt(d) /\ timestamp[d] \in Times
        /\ now \in Nat /\ LastAttempt(d) \in 0 .. now /\ lastHeard[d] \in Nat
    BY <1>1, <2>1, PingAssumption DEF PeriodInv, TypeOK, ClocksAgree, Times
  <2>4. now - LastAttempt(d) \in 0 .. PERIOD - 1
    <3>1. SlotTime(s) \in Nat /\ SlotTime(s) < PERIOD
      BY <2>3, SlotBounds
    <3> QED BY <2>1, <2>2, <2>3, <3>1, PeriodPositive
  <2>5. PICK k \in 0 .. now : /\ LastAttempt(d) - lastHeard[d] = k * PERIOD
                             /\ missed[d] = k % CounterSize
    BY <1>1, <2>1 DEF PeriodInv, CounterWraps
  <2>6. now - lastHeard[d] = PERIOD * k + (now - LastAttempt(d)) /\ k \in Nat
    <3>1. k * PERIOD = PERIOD * k /\ k * PERIOD \in Nat /\ k \in Nat
      BY <2>3, PeriodPositive
    <3> QED BY <2>3, <2>5, <3>1
  <2>7. (now - lastHeard[d]) \div PERIOD = k
    BY <2>4, <2>6, QuotientUnique, PeriodPositive
  <2> QED BY <2>1, <2>5, <2>7
<1>2. PeriodInv => QuietWhenLost
  BY <1>1 DEF QuietWhenLost
<1> QED BY <1>2, SlotsAgree, PTL DEF Spec

-----------------------------------------------------------------------------
(* Who takes a slot.                                                       *)

\* The ping of a device that is due, for a slot
PingOf(d, slot) == [at |-> now, dev |-> d, slot |-> slot]

\* While the pings of a slot run, in the order of the devices: a device listed for the
\* slot at its gateway whose turn is over has nothing left to send, unless the gateway
\* was busy or a device listed with it has moved away.
TurnsTaken ==
  \A p \in Due, e \in Devices :
    /\ <<gw[e], p.slot, e>> \in listed /\ PingOf(e, p.slot) \notin pings
    /\ gw[e] \notin accepted \cup refused
    => \/ queue[e] = 0
       \/ \E f \in Devices : /\ <<gw[e], p.slot, f>> \in listed /\ gw[f] # gw[e]
                             /\ queue[f] > 0 /\ PingOf(f, p.slot) \notin pings

\* What WastedOnlyByMove rests on: a device listed for a slot that is still to come has
\* a ping pending for it, and turns are taken in order.
SlotsInv ==
  /\ \A g \in Gateways \cup {NoGateway}, s \in Nat, e \in Devices :
       <<g, s, e>> \in listed /\ now < LastBeacon + SlotTime(s)
       => [at |-> LastBeacon + SlotTime(s), dev |-> e, slot |-> s] \in pings
  /\ TurnsTaken

\* The pings of one instant are for one slot.
LEMMA OneSlotDue ==
  ASSUME PeriodInv, NEW p \in Due, NEW q \in Due
  PROVE  /\ p.slot = q.slot /\ p.slot \in Nat /\ p.dev \in Devices
         /\ p = PingOf(p.dev, p.slot) /\ now = LastBeacon + SlotTime(p.slot)
<1>1. LastBeacon \in Times /\ LastBeacon \in Nat
  BY PingAssumption DEF PeriodInv, TypeOK, ClocksAgree, Times
<1>2. \A r \in Due : /\ r \in pings /\ r.at = now
                     /\ r \in [at : Nat, dev : Devices, slot : Nat]
                     /\ r.at = LastBeacon + SlotTime(r.slot)
  BY DEF Due, PeriodInv, TypeOK, PingsOfPeriod
<1>3. ASSUME NEW a \in Nat, NEW b \in Nat, a < b PROVE SlotTime(a) < SlotTime(b)
  <2>1. (a + 1) * SLOT <= b * SLOT /\ (a + 1) * SLOT = a * SLOT + SLOT
        /\ a * SLOT \in Nat /\ b * SLOT \in Nat
    <3>1. a + 1 \in Nat /\ a + 1 <= b /\ SLOT \in Nat
      BY <1>3, PingAssumption
    <3>2. (a + 1) * SLOT <= b * SLOT
      BY <3>1, TimesMonotonic
    <3> QED BY <3>1, <3>2
  <2> QED BY <2>1, PingAssumption DEF SlotTime
<1>4. SlotTime(p.slot) = SlotTime(q.slot)
  <2>1. SlotTime(p.slot) \in Int /\ SlotTime(q.slot) \in Int
    BY <1>2, PingAssumption DEF SlotTime
  <2> QED BY <1>1, <1>2, <2>1
<1>5. p.slot = q.slot
  <2>1. SlotTime(p.slot) \in Int
    BY <1>2, PingAssumption DEF SlotTime
  <2>2. p.slot \in Nat /\ q.slot \in Nat
    BY <1>2
  <2> QED BY <1>3, <1>4, <2>1, <2>2
<1> QED BY <1>2, <1>5 DEF PingOf

\* A device that has lost its turn to another one: who that may be
LEMMA OverlapFacts ==
  ASSUME PeriodInv, SlotsInv, NEW p \in pings, PingOverlap(p),
         <<gw[p.dev], p.slot, p.dev>> \in listed, gw[p.dev] \notin accepted \cup refused
  PROVE  \E f \in Devices : /\ <<gw[p.dev], p.slot, f>> \in listed /\ gw[f] # gw[p.dev]
                            /\ queue[f] > 0 /\ PingOf(f, p.slot) \notin pings
                            /\ f # p.dev
<1>1. p \in Due /\ \A q \in Due : p.dev <= q.dev
  BY DEF PingOverlap, PingSlot
<1>2. PICK e \in Devices : /\ <<gw[p.dev], p.slot, e>> \in listed /\ e < p.dev
                           /\ queue[e] # 0
  BY DEF PingOverlap, IsTop
<1>3. queue[e] > 0 /\ e \in Int /\ p.dev \in Int /\ e # p.dev
  <2>1. p.dev \in Devices /\ queue[e] \in 0 .. MaxFrames
    BY DEF PeriodInv, TypeOK
  <2> QED BY <1>2, <2>1, PingAssumption DEF Devices
<1>4. \A d \in Devices : d < p.dev => PingOf(d, p.slot) \notin pings
  <2> SUFFICES ASSUME NEW d \in Devices, d < p.dev, PingOf(d, p.slot) \in pings PROVE FALSE
    OBVIOUS
  <2>1. PingOf(d, p.slot) \in Due /\ PingOf(d, p.slot).dev = d
    BY DEF Due, PingOf
  <2> QED BY <1>1, <1>3, <2>1, PingAssumption DEF Devices
<1>5. CASE gw[e] # gw[p.dev]
  BY <1>2, <1>3, <1>4, <1>5
<1>6. CASE gw[e] = gw[p.dev]
  <2>1. PICK f \in Devices : /\ <<gw[e], p.slot, f>> \in listed /\ gw[f] # gw[e]
                             /\ queue[f] > 0 /\ PingOf(f, p.slot) \notin pings
    BY <1>1, <1>2, <1>3, <1>4, <1>6 DEF SlotsInv, TurnsTaken
  <2> QED BY <1>6, <2>1
<1> QED BY <1>5, <1>6

\* A turn that is taken leaves the others as they are.
LEMMA PingTurns ==
  ASSUME PeriodInv, SlotsInv, NEW p \in pings,
         \/ PingWithoutFrame(p) \/ PingOverlap(p) \/ PingRefused(p) \/ PingSent(p)
  PROVE  SlotsInv'
<1> USE DEF recordVars, beaconVars
<1>1. /\ PingSlot(p) /\ p \in Due /\ p.dev \in Devices /\ pings' = pings \ {p}
      /\ UNCHANGED <<now, recordVars, beaconVars>>
  BY DEF PingWithoutFrame, PingOverlap, PingRefused, PingSent, PingSlot, PeriodInv, TypeOK
<1>2. /\ Due' \subseteq Due /\ p = PingOf(p.dev, p.slot)
      /\ now = LastBeacon + SlotTime(p.slot) /\ LastBeacon' = LastBeacon
      /\ \A d \in Devices : \A s : PingOf(d, s)' = PingOf(d, s)
  BY <1>1, OneSlotDue DEF Due, LastBeacon, PingOf
<1>3. ASSUME NEW g \in Gateways \cup {NoGateway}, NEW s \in Nat, NEW e \in Devices,
             <<g, s, e>> \in listed, now < LastBeacon + SlotTime(s)
      PROVE  [at |-> LastBeacon + SlotTime(s), dev |-> e, slot |-> s] \in pings'
  <2>1. [at |-> LastBeacon + SlotTime(s), dev |-> e, slot |-> s] \in pings
    BY <1>3 DEF SlotsInv
  <2>2. p.at = now /\ now \in Int
    BY <1>1, PingAssumption DEF Due, PeriodInv, TypeOK, Times
  <2>3. LastBeacon + SlotTime(s) # now
    BY <1>3, <2>2, PingAssumption DEF SlotTime, PeriodInv, TypeOK, LastBeacon
  <2> QED BY <1>1, <2>1, <2>2, <2>3
<1>4. ASSUME NEW q \in Due', NEW e \in Devices,
             <<gw[e], q.slot, e>> \in listed, PingOf(e, q.slot) \notin pings',
             gw[e] \notin accepted' \cup refused'
      PROVE  \/ queue'[e] = 0
             \/ \E f \in Devices : /\ <<gw[e], q.slot, f>> \in listed /\ gw[f] # gw[e]
                                   /\ queue'[f] > 0 /\ PingOf(f, q.slot) \notin pings'
  <2>1. q \in Due /\ q.slot = p.slot
    BY <1>1, <1>2, OneSlotDue
  <2>2. \A d \in Devices : d # p.dev => queue'[d] = queue[d]
    BY DEF PingWithoutFrame, PingOverlap, PingRefused, PingSent, PeriodInv, TypeOK
  <2>3. accepted \cup refused \subseteq accepted' \cup refused'
    BY DEF PingWithoutFrame, PingOverlap, PingRefused, PingSent, instantVars
  <2>4. CASE PingOf(e, p.slot) \notin pings
    <3>1. e # p.dev
      BY <1>1, <1>2, <2>4 DEF Due
    <3>2. CASE queue[e] = 0
      BY <2>2, <3>1, <3>2
    <3>3. ASSUME NEW f \in Devices, <<gw[e], p.slot, f>> \in listed, gw[f] # gw[e],
                 queue[f] > 0, PingOf(f, p.slot) \notin pings
          PROVE  queue'[f] > 0 /\ PingOf(f, p.slot) \notin pings'
      <4>1. f # p.dev
        BY <1>1, <1>2, <3>3 DEF Due
      <4> QED BY <1>1, <2>2, <3>3, <4>1
    <3>4. \/ queue[e] = 0
          \/ \E f \in Devices : /\ <<gw[e], p.slot, f>> \in listed /\ gw[f] # gw[e]
                                /\ queue[f] > 0 /\ PingOf(f, p.slot) \notin pings
      BY <1>1, <1>4, <2>1, <2>3, <2>4 DEF SlotsInv, TurnsTaken
    <3> QED BY <2>1, <3>2, <3>3, <3>4
  <2>5. CASE PingOf(e, p.slot) \in pings
    <3>1. e = p.dev
      <4>1. PingOf(e, p.slot) = p
        BY <1>1, <1>4, <2>1, <2>5
      <4> QED BY <4>1 DEF PingOf
    <3>2. ~PingRefused(p) /\ ~PingSent(p)
      BY <1>4, <3>1 DEF PingRefused, PingSent
    <3>3. CASE PingWithoutFrame(p)
      BY <3>1, <3>3 DEF PingWithoutFrame
    <3>4. CASE PingOverlap(p)
      <4>1. <<gw[p.dev], p.slot, p.dev>> \in listed
            /\ gw[p.dev] \notin accepted \cup refused
        BY <1>4, <2>1, <2>3, <3>1
      <4>2. PICK f \in Devices :
              /\ <<gw[p.dev], p.slot, f>> \in listed /\ gw[f] # gw[p.dev]
              /\ queue[f] > 0 /\ PingOf(f, p.slot) \notin pings /\ f # p.dev
        BY <3>4, <4>1, OverlapFacts
      <4> QED BY <1>1, <2>1, <2>2, <3>1, <4>2
    <3> QED BY <3>2, <3>3, <3>4
  <2> QED BY <2>4, <2>5
<1>5. TurnsTaken'
  BY <1>1, <1>2, <1>4 DEF TurnsTaken
<1> QED BY <1>1, <1>2, <1>3, <1>5 DEF SlotsInv, SlotTime

\* A beacon lists the slots of its period and schedules a ping for each of them.
LEMMA BeaconTurns ==
  ASSUME PeriodInv, PeriodInv', ClassBSendBeacon
  PROVE  SlotsInv'
<1> USE DEF recordVars, instantVars
<1>1. /\ now = beaconAt /\ beaconAt' = now + PERIOD /\ Due = {}
      /\ UNCHANGED <<now, recordVars>>
  BY DEF ClassBSendBeacon
<1>2. now \in Times /\ now \in Nat /\ LastBeacon' = now
  BY <1>1, PingAssumption, PeriodPositive DEF PeriodInv, TypeOK, Times, LastBeacon
<1>3. ASSUME NEW g \in Gateways \cup {NoGateway}, NEW s \in Nat, NEW e \in Devices,
             <<g, s, e>> \in listed'
      PROVE  [at |-> now + SlotTime(s), dev |-> e, slot |-> s] \in pings'
  <2>1. classB[e] /\ s \in SlotsOf(e, now)
    BY <1>3 DEF ClassBSendBeacon
  <2> QED BY <2>1 DEF ClassBSendBeacon
<1>4. Due' = {}
  <2> SUFFICES ASSUME NEW p \in Due' PROVE FALSE
    OBVIOUS
  <2>1. p \in pings' /\ p.at = now
    BY <1>1 DEF Due
  <2>2. p \notin pings
    BY <1>1, <2>1 DEF Due
  <2>3. PICK d \in Devices : \E s \in SlotsOf(d, now) :
          p = [at |-> now + SlotTime(s), dev |-> d, slot |-> s]
    BY <2>1, <2>2 DEF ClassBSendBeacon
  <2>4. PICK s \in SlotsOf(d, now) :
          p = [at |-> now + SlotTime(s), dev |-> d, slot |-> s]
    BY <2>3
  <2>5. SlotTime(s) \in Nat /\ SlotTime(s) > 0
    BY <1>2, SlotBounds, PeriodPositive
  <2> QED BY <1>2, <2>1, <2>4, <2>5
<1>5. TurnsTaken'
  BY <1>4 DEF TurnsTaken
<1> QED BY <1>1, <1>2, <1>3, <1>5 DEF SlotsInv, SlotTime

\* When time has come to a slot, nobody listed for it has had a turn.
LEMMA TimeTurns ==
  ASSUME PeriodInv, PeriodInv', SlotsInv, TimePasses
  PROVE  SlotsInv'
<1> USE DEF recordVars
<1>1. UNCHANGED <<recordVars, queue, beaconAt, listed, pings>> /\ now' \in Agenda
      /\ \A t \in Agenda : now < t /\ now' <= t
  BY DEF TimePasses
<1>2. now \in Int /\ now' \in Int /\ now < now' /\ LastBeacon' = LastBeacon
      /\ LastBeacon \in Int
  BY <1>1, PingAssumption DEF PeriodInv, TypeOK, Times, LastBeacon, ClocksAgree
<1>3. ASSUME NEW g \in Gateways \cup {NoGateway}, NEW s \in Nat, NEW e \in Devices,
             <<g, s, e>> \in listed, now' <= LastBeacon + SlotTime(s)
      PROVE  [at |-> LastBeacon + SlotTime(s), dev |-> e, slot |-> s] \in pings
  <2>1. SlotTime(s) \in Int
    BY PingAssumption DEF SlotTime
  <2>2. now < LastBeacon + SlotTime(s)
    BY <1>2, <1>3, <2>1
  <2> QED BY <1>3, <2>2 DEF SlotsInv
<1>4. TurnsTaken'
  <2> SUFFICES ASSUME NEW p \in Due', NEW e \in Devices, <<gw[e], p.slot, e>> \in listed,
                      PingOf(e, p.slot)' \notin pings
               PROVE  FALSE
    BY <1>1 DEF TurnsTaken
  <2>1. p.slot \in Nat /\ now' = LastBeacon + SlotTime(p.slot)
    <3>1. p \in pings /\ p.at = now'
      BY <1>1 DEF Due
    <3> QED BY <3>1 DEF PeriodInv, TypeOK, PingsOfPeriod
  <2>2. gw[e] \in Gateways \cup {NoGateway}
    BY DEF PeriodInv, TypeOK
  <2>3. [at |-> now', dev |-> e, slot |-> p.slot] \in pings
    BY <1>2, <1>3, <2>1, <2>2
  <2> QED BY <2>3 DEF PingOf
<1>5. ASSUME NEW g \in Gateways \cup {NoGateway}, NEW s \in Nat, NEW e \in Devices,
             <<g, s, e>> \in listed, now' < LastBeacon + SlotTime(s)
      PROVE  [at |-> LastBeacon + SlotTime(s), dev |-> e, slot |-> s] \in pings
  <2>1. SlotTime(s) \in Int
    BY PingAssumption DEF SlotTime
  <2>2. now < LastBeacon + SlotTime(s)
    BY <1>2, <1>5, <2>1
  <2> QED BY <1>5, <2>2 DEF SlotsInv
<1> QED BY <1>1, <1>2, <1>4, <1>5 DEF SlotsInv, SlotTime

\* Nothing else happens while pings are due, or it leaves the server alone.
LEMMA OtherTurns ==
  ASSUME PeriodInv, SlotsInv, UNCHANGED <<now, beaconAt, listed, pings>>,
         Due = {} \/ UNCHANGED <<gw, queue, accepted, refused>>
  PROVE  SlotsInv'
<1>1. TurnsTaken'
  <2>1. CASE Due = {}
    BY <2>1 DEF TurnsTaken, Due
  <2>2. CASE UNCHANGED <<gw, queue, accepted, refused>>
    BY <2>2 DEF SlotsInv, TurnsTaken, Due, PingOf
  <2> QED BY <2>1, <2>2
<1> QED BY <1>1 DEF SlotsInv, SlotTime, LastBeacon

\* Every step of the specification keeps the invariant.
LEMMA NextTurns ==
  ASSUME PeriodInv, PeriodInv', SlotsInv, [Next]_vars
  PROVE  SlotsInv'
<1> USE DEF serverVars, recordVars, beaconVars, instantVars
<1>1. CASE ClassBSendBeacon
  BY <1>1, BeaconTurns
<1>2. CASE \E p \in pings : \/ PingWithoutFrame(p) \/ PingOverlap(p)
                           \/ PingRefused(p) \/ PingSent(p)
  BY <1>2, PingTurns
<1>3. ASSUME NEW d \in Devices,
             \/ ClassBDSTimerExpired(d) \/ \E g \in Gateways : HandleUSPacket(d, g)
             \/ SendPacket(d) \/ UplinkEnds(d)
             \/ ClassBReceiveBeacon(d) \/ HearBeacon(d)
             \/ ClassBSchedulePingSlots(d) \/ ClassBPingSlot(d)
      PROVE  SlotsInv'
  <2>1. UNCHANGED <<now, beaconAt, listed, pings>>
    BY <1>3 DEF ClassBDSTimerExpired, HandleUSPacket, SendPacket, UplinkEnds,
                ClassBReceiveBeacon, HearBeacon, ClassBSchedulePingSlots, ClassBPingSlot
  <2>2. Due = {} \/ UNCHANGED <<gw, queue, accepted, refused>>
    BY <1>3 DEF ClassBDSTimerExpired, HandleUSPacket, SendPacket, UplinkEnds,
                ClassBReceiveBeacon, HearBeacon, ClassBSchedulePingSlots, ClassBPingSlot
  <2> QED BY <2>1, <2>2, OtherTurns
<1>4. CASE TimePasses
  BY <1>4, TimeTurns
<1>5. CASE UNCHANGED vars
  BY <1>5, OtherTurns DEF vars
<1> QED BY <1>1, <1>2, <1>3, <1>4, <1>5 DEF Next

\* Whatever the number of devices and gateways, a slot at a gateway that is not busy is
\* lost by a device only to one that has moved away since the beacon
\* (gateway-application.cc 926, 951).
THEOREM SlotsWastedOnlyByMoves == Spec => WastedOnlyByMove
<1> DEFINE Wasted(p) ==
      /\ queue[p.dev] > 0 /\ queue'[p.dev] = queue[p.dev]
      /\ <<gw[p.dev], p.slot, p.dev>> \in listed
      /\ gw[p.dev] \notin accepted' \cup refused'
      => \E e \in Devices : /\ <<gw[p.dev], p.slot, e>> \in listed
                            /\ gw[e] # gw[p.dev] /\ queue[e] > 0
<1>1. ASSUME PeriodInv, SlotsInv, [Next]_vars, NEW p \in pings \ pings'
      PROVE  Wasted(p)
  <2>1. \E r \in pings : \/ PingWithoutFrame(r) \/ PingOverlap(r)
                         \/ PingRefused(r) \/ PingSent(r)
    <3> USE DEF serverVars, recordVars, beaconVars, instantVars
    <3>1. ~ClassBSendBeacon /\ ~TimePasses /\ ~UNCHANGED vars
      BY <1>1 DEF ClassBSendBeacon, TimePasses, vars
    <3>2. \A d \in Devices :
            /\ ~ClassBDSTimerExpired(d) /\ \A g \in Gateways : ~HandleUSPacket(d, g)
            /\ ~SendPacket(d) /\ ~UplinkEnds(d) /\ ~ClassBReceiveBeacon(d)
            /\ ~HearBeacon(d) /\ ~ClassBSchedulePingSlots(d) /\ ~ClassBPingSlot(d)
      BY <1>1 DEF ClassBDSTimerExpired, HandleUSPacket, SendPacket, UplinkEnds,
                  ClassBReceiveBeacon, HearBeacon, ClassBSchedulePingSlots,
                  ClassBPingSlot
    <3> QED BY <1>1, <3>1, <3>2 DEF Next
  <2>2. \/ PingWithoutFrame(p) \/ PingOverlap(p) \/ PingRefused(p) \/ PingSent(p)
    <3>1. PICK r \in pings : \/ PingWithoutFrame(r) \/ PingOverlap(r)
                             \/ PingRefused(r) \/ PingSent(r)
      BY <2>1
    <3>2. pings' = pings \ {r}
      BY <3>1 DEF PingWithoutFrame, PingOverlap, PingRefused, PingSent, PingSlot
    <3>3. r = p
      BY <1>1, <3>2
    <3> QED BY <3>1, <3>3
  <2>3. p.dev \in Devices /\ queue[p.dev] \in Nat
    BY <1>1, PingAssumption DEF PeriodInv, TypeOK
  <2>4. CASE PingWithoutFrame(p)
    BY <2>3, <2>4 DEF PingWithoutFrame
  <2>5. CASE PingRefused(p)
    BY <2>5 DEF PingRefused
  <2>6. CASE PingSent(p)
    BY <2>6 DEF PingSent
  <2>7. CASE PingOverlap(p)
    <3>1. UNCHANGED <<accepted, refused>>
      BY <2>7 DEF PingOverlap, instantVars
    <3> QED BY <1>1, <2>7, <3>1, OverlapFacts
  <2> QED BY <2>2, <2>4, <2>5, <2>6, <2>7
<1>2. Init => SlotsInv
  BY DEF Init, InitServer, SlotsInv, TurnsTaken, Due
<1>3. PeriodInv /\ PeriodInv' /\ SlotsInv /\ [Next]_vars => SlotsInv'
  BY NextTurns
<1>4. PeriodInv /\ SlotsInv /\ [Next]_vars => [\A p \in pings \ pings' : Wasted(p)]_vars
  BY <1>1
<1> QED BY <1>2, <1>3, <1>4, SlotsAgree, PTL DEF Spec, WastedOnlyByMove

=============================================================================
