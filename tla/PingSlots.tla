------------------------------ MODULE PingSlots ------------------------------
(***************************************************************************)
(* Class B from the network server's beacon to the ping slots of the end   *)
(* devices: the network server and the ping-slot queues of the gateways    *)
(* (lorawan-gateway-application.cc) with the applications of the devices   *)
(* (lorawan-enddevice-application.cc).                                     *)
(*                                                                         *)
(* Server and device compute the slots of a period each for itself, from   *)
(* the time of its beacon: the server from its clock, a device from the    *)
(* beacon it has heard or, if it has not, from its own clock.  "now" jumps *)
(* from event to event.  Events of one instant run in any order, with one  *)
(* exception: the ClassBPingSlot events of the server were scheduled by    *)
(* one handler, device after device, so they run one after the other.      *)
(*                                                                         *)
(* External: the MACs and the radio.  A gateway accepts a beacon or a      *)
(* frame or is busy, a device hears the beacon or does not, an uplink is   *)
(* heard by gateways or lost.  Devices and server start at time 0, as in   *)
(* the examples; gateways do not hear the beacons of other gateways.       *)
(***************************************************************************)
EXTENDS Integers, FiniteSets

CONSTANTS
  NbDevices,     \* Class B devices, in the order of m_endDevices
  Gateways, NoGateway,
  PERIOD,        \* beacon period (128 s)
  BEACON_TIME,   \* how long a device waits for the beacon (173 ms)
  RESERVED,      \* beacon_reserved (2120 ms)
  SLOT,          \* slotLength (30 ms)
  NbSlots,       \* ping slots of a period (2^12)
  NbPings,       \* m_ClassBPingSlots of a device
  PingPeriod,    \* NbSlots / NbPings
  Cipher,        \* R[0] + R[1] * 256 of device and time, encrypted
  MissLimit,     \* missed beacons that end Class B (57)
  CounterSize,   \* values of the uint8_t m_missedBeaconsCounter
  HOLD,          \* "2 hours"
  StopTime,      \* bound: the simulation stops
  MaxFrames      \* bound: downlinks in the queue of a device

Devices == 1 .. NbDevices
Times == 0 .. StopTime
OFF == -1

ASSUME PingAssumption ==
  /\ NbDevices \in Nat /\ NoGateway \notin Gateways
  /\ BEACON_TIME \in Nat \ {0} /\ RESERVED \in Nat /\ BEACON_TIME < RESERVED
  /\ SLOT \in Nat \ {0} /\ NbSlots \in Nat /\ PERIOD \in Nat
  /\ RESERVED + NbSlots * SLOT <= PERIOD
  /\ NbPings \in Nat \ {0} /\ PingPeriod \in Nat \ {0}
  /\ PingPeriod * NbPings <= NbSlots
  /\ StopTime \in Nat /\ Cipher \in [Devices -> [Times -> Nat]]
  /\ MaxFrames \in Nat
ASSUME HoldAssumption ==
  /\ MissLimit \in Nat \ {0} /\ CounterSize \in Nat /\ MissLimit < CounterSize
  /\ HOLD \in Nat /\ HOLD <= MissLimit * PERIOD /\ (MissLimit - 1) * PERIOD < HOLD

VARIABLES
  now,
  \* network server and gateways
  classB,       \* m_isClassB of each device record
  gw,           \* the front of m_lastGWs
  queue,        \* size of m_ClassBdownstreamQueue
  traffic,      \* ClassBDSTimerExpired is scheduled, again and again
  beaconAt,     \* m_beaconTimer
  beacon,       \* the time in the beacon that gateways are sending, OFF if none
  listed,       \* m_pingSlots: <<gateway, slot, device>>
  pings,        \* pending ClassBPingSlot events
  accepted, refused,   \* gateways that have, in this instant
  \* devices
  devClassB,    \* m_isClassB
  timestamp,    \* m_timestamp, 0 if none
  missed,       \* m_missedBeaconsCounter
  devBeaconAt,  \* m_beaconTimer
  schedule,     \* pending ClassBSchedulePingSlots
  windows,      \* pending ClassBPingSlot events
  opened,       \* devices that have opened a window in this instant
  uplink,       \* Class B bit of the uplink the device is sending
  lastHeard     \* the beacon it has last heard

recordVars  == <<classB, gw, traffic>>
beaconVars  == <<beaconAt, beacon, listed>>
instantVars == <<accepted, refused>>
serverVars  == <<recordVars, queue, beaconVars, pings, instantVars>>
clockVars   == <<timestamp, missed, devBeaconAt, schedule, lastHeard>>
windowVars  == <<windows, opened>>
deviceVars  == <<devClassB, clockVars, windowVars, uplink>>
vars == <<now, serverVars, deviceVars>>

\* PopulateEndDevices overwrites the records, with the gateway that
\* AssignInitialGateway has put into them.
InitServer ==
  /\ classB = [d \in Devices |-> FALSE] /\ gw = [d \in Devices |-> NoGateway]
  /\ queue = [d \in Devices |-> 0] /\ traffic = [d \in Devices |-> FALSE]
  /\ beaconAt = PERIOD /\ beacon = OFF /\ listed = {} /\ pings = {}
  /\ accepted = {} /\ refused = {}

\* StartApplication: a device is in Class B from the start.
InitDevices ==
  /\ devClassB = [d \in Devices |-> TRUE]
  /\ timestamp = [d \in Devices |-> 0] /\ missed = [d \in Devices |-> 0]
  /\ devBeaconAt = [d \in Devices |-> PERIOD]
  /\ schedule = [d \in Devices |-> OFF]
  /\ windows = [d \in Devices |-> {}] /\ opened = {}
  /\ uplink = [d \in Devices |-> "none"] /\ lastHeard = [d \in Devices |-> 0]

Init == now = 0 /\ InitServer /\ InitDevices

-----------------------------------------------------------------------------
(* The slots of a period.                                                  *)

\* O, computed alike in ClassBSendBeacon and ClassBSchedulePingSlots
Offset(d, t) == Cipher[d][t] % PingPeriod
SlotsOf(d, t) == {Offset(d, t) + PingPeriod * i : i \in 0 .. NbPings - 1}
SlotTime(s) == RESERVED + s * SLOT

Due == {p \in pings : p.at = now}

-----------------------------------------------------------------------------
(* Network server.                                                         *)

\* ClassBSendBeacon: every gateway that can sends the beacon, and the slots of all
\* Class B devices are requested at the gateways that heard them last.
ClassBSendBeacon ==
  /\ now = beaconAt /\ Due = {}
  /\ beacon' \in {now, OFF} /\ beaconAt' = now + PERIOD
  /\ listed' = UNION {{<<gw[d], s, d>> : s \in SlotsOf(d, now)} :
                        d \in {e \in Devices : classB[e]}}
  /\ pings' = pings \cup
       UNION {{[at |-> now + SlotTime(s), dev |-> d, slot |-> s] : s \in SlotsOf(d, now)} :
                d \in {e \in Devices : classB[e]}}
  /\ UNCHANGED <<now, recordVars, queue, instantVars, deviceVars>>

TopOfWholeList(g, slot, d) ==   \* mutant: the loop does not stop at the device
  \A e \in Devices : <<g, slot, e>> \in listed => e = d \/ queue[e] = 0

\* IsTopOfPingSlotQueue: nothing to send for the devices listed before this one, or
\* for any if this one is not listed
IsTop(g, slot, d) ==
  \A e \in Devices : /\ <<g, slot, e>> \in listed
                     /\ e < d \/ <<g, slot, d>> \notin listed
                     => e = d \/ queue[e] = 0

\* ClassBPingSlot of the server, for the first device of those due
PingSlot(p) ==
  /\ p \in Due /\ \A q \in Due : p.dev <= q.dev
  /\ pings' = pings \ {p}
  /\ UNCHANGED <<now, recordVars, beaconVars, deviceVars>>

PingWithoutFrame(p) ==
  /\ PingSlot(p) /\ queue[p.dev] = 0
  /\ UNCHANGED <<queue, instantVars>>

PingOverlap(p) ==
  /\ PingSlot(p) /\ queue[p.dev] > 0 /\ ~IsTop(gw[p.dev], p.slot, p.dev)
  /\ UNCHANGED <<queue, instantVars>>

\* The gateway may be busy; it is when it has taken, or refused, a frame right now.
PingRefused(p) ==
  /\ PingSlot(p) /\ queue[p.dev] > 0 /\ IsTop(gw[p.dev], p.slot, p.dev)
  /\ refused' = refused \cup {gw[p.dev]}
  /\ UNCHANGED <<queue, accepted>>

PingSent(p) ==
  /\ PingSlot(p) /\ queue[p.dev] > 0 /\ IsTop(gw[p.dev], p.slot, p.dev)
  /\ gw[p.dev] \notin accepted \cup refused
  /\ accepted' = accepted \cup {gw[p.dev]}
  /\ queue' = [queue EXCEPT ![p.dev] = @ - 1]
  /\ UNCHANGED refused

\* ClassBDSTimerExpired
ClassBDSTimerExpired(d) ==
  /\ Due = {} /\ traffic[d] /\ queue[d] < MaxFrames
  /\ queue' = [queue EXCEPT ![d] = @ + 1]
  /\ UNCHANGED <<now, recordVars, beaconVars, pings, instantVars, deviceVars>>

\* HandleUSPacket of the first gateway that hears the uplink: it comes first in
\* m_lastGWs, and the Class B bit turns Class B on or off.  Traffic, once on, stays.
HandleUSPacket(d, g) ==
  /\ Due = {} /\ uplink[d] # "none"
  /\ gw' = [gw EXCEPT ![d] = g]
  /\ classB' = [classB EXCEPT ![d] = uplink[d] = "classB"]
  /\ traffic' = [traffic EXCEPT ![d] = @ \/ uplink[d] = "classB"]
  /\ UNCHANGED <<now, queue, beaconVars, pings, instantVars, deviceVars>>

-----------------------------------------------------------------------------
(* Devices.                                                                *)

\* SendPacket: the bit is fixed when the frame is built, whatever becomes of the
\* device until it is sent, or sent again.
SendPacket(d) ==
  /\ Due = {} /\ uplink[d] = "none"
  /\ uplink' = [uplink EXCEPT ![d] = IF devClassB[d] THEN "classB" ELSE "classA"]
  /\ UNCHANGED <<now, serverVars, devClassB, clockVars, windowVars>>

UplinkEnds(d) ==
  /\ Due = {} /\ uplink[d] # "none" /\ uplink' = [uplink EXCEPT ![d] = "none"]
  /\ UNCHANGED <<now, serverVars, devClassB, clockVars, windowVars>>

ClassBReceiveBeacon(d) ==
  /\ Due = {} /\ now = devBeaconAt[d]
  /\ timestamp' = [timestamp EXCEPT ![d] = 0]
  /\ schedule' = [schedule EXCEPT ![d] = now + BEACON_TIME]
  /\ devBeaconAt' = [devBeaconAt EXCEPT ![d] = now + PERIOD]
  /\ UNCHANGED <<now, serverVars, devClassB, missed, lastHeard, windowVars, uplink>>

\* HandleDSPacket in MAC_BEACON: the beacon says when it was sent.  It has ended long
\* before the slots are scheduled (SlotsFitPeriod in FrameFormats).
HearBeacon(d) ==
  /\ Due = {} /\ schedule[d] # OFF /\ beacon # OFF
  /\ timestamp' = [timestamp EXCEPT ![d] = beacon]
  /\ lastHeard' = [lastHeard EXCEPT ![d] = beacon]
  /\ UNCHANGED <<now, serverVars, devClassB, missed, devBeaconAt, schedule,
                 windowVars, uplink>>

GeneratedLate == now   \* mutant: the time waited for the beacon is forgotten

\* The time a device takes for that of a beacon it has missed
Generated == now - BEACON_TIME

CounterKept(d) == missed[d]   \* mutant: a beacon does not reset the counter
LimitTooHigh(n) == n <= MissLimit   \* mutant: an off-by-one

\* m_missedBeaconsCounter after a beacon was heard, and whether Class B goes on
CounterReset(d) == 0
MayMiss(n) == n < MissLimit

TimesFromNow(d, t) == {now + SlotTime(s) : s \in SlotsOf(d, t)}   \* mutant

PingTimes(d, t) == {now + (SlotTime(s) - (now - t)) : s \in SlotsOf(d, t)}

\* ClassBSchedulePingSlots
ClassBSchedulePingSlots(d) ==
  LET n == (missed[d] + 1) % CounterSize
      heard == timestamp[d] # 0
      t == IF heard THEN timestamp[d] ELSE Generated
  IN /\ Due = {} /\ now = schedule[d]
     /\ schedule' = [schedule EXCEPT ![d] = OFF]
     /\ missed' = [missed EXCEPT ![d] = IF heard THEN CounterReset(d) ELSE n]
     /\ IF heard \/ MayMiss(n)
        THEN /\ timestamp' = [timestamp EXCEPT ![d] = t]
             /\ windows' = [windows EXCEPT ![d] = @ \cup PingTimes(d, t)]
             /\ UNCHANGED devClassB
        ELSE /\ devClassB' = [devClassB EXCEPT ![d] = FALSE]
             /\ UNCHANGED <<timestamp, windows>>
     /\ UNCHANGED <<now, serverVars, devBeaconAt, lastHeard, opened, uplink>>

\* ClassBPingSlot of the device: the window is opened.
ClassBPingSlot(d) ==
  /\ now \in windows[d]
  /\ windows' = [windows EXCEPT ![d] = @ \ {now}]
  /\ opened' = opened \cup {d}
  /\ UNCHANGED <<now, serverVars, devClassB, clockVars, uplink>>

-----------------------------------------------------------------------------
Agenda ==
  ({beaconAt} \cup {p.at : p \in pings} \cup
   UNION {{devBeaconAt[d], schedule[d]} \cup windows[d] : d \in Devices}) \ {OFF}

\* The simulator goes on to the next event; a beacon in between has ended.
TimePasses ==
  /\ now' \in Agenda /\ \A t \in Agenda : now < t /\ now' <= t
  /\ now' <= StopTime
  /\ accepted' = {} /\ refused' = {} /\ opened' = {} /\ beacon' = OFF
  /\ UNCHANGED <<recordVars, queue, beaconAt, listed, pings, devClassB, clockVars,
                 windows, uplink>>

Next ==
  \/ ClassBSendBeacon
  \/ \E p \in pings : \/ PingWithoutFrame(p) \/ PingOverlap(p)
                      \/ PingRefused(p) \/ PingSent(p)
  \/ \E d \in Devices :
       \/ ClassBDSTimerExpired(d) \/ \E g \in Gateways : HandleUSPacket(d, g)
       \/ SendPacket(d) \/ UplinkEnds(d)
       \/ ClassBReceiveBeacon(d) \/ HearBeacon(d)
       \/ ClassBSchedulePingSlots(d) \/ ClassBPingSlot(d)
  \/ TimePasses

Spec == Init /\ [][Next]_vars

-----------------------------------------------------------------------------
(* Properties.  The parts of the inductive invariant first.                *)

\* Every variable keeps its type.
TypeOK ==
  /\ now \in Times
  /\ classB \in [Devices -> BOOLEAN] /\ gw \in [Devices -> Gateways \cup {NoGateway}]
  /\ queue \in [Devices -> 0 .. MaxFrames] /\ traffic \in [Devices -> BOOLEAN]
  /\ beaconAt \in Nat /\ beacon \in Times \cup {OFF}
  /\ listed \subseteq (Gateways \cup {NoGateway}) \X Nat \X Devices
  /\ pings \subseteq [at : Nat, dev : Devices, slot : Nat]
  /\ accepted \subseteq Gateways \cup {NoGateway}
  /\ refused \subseteq Gateways \cup {NoGateway}
  /\ devClassB \in [Devices -> BOOLEAN] /\ timestamp \in [Devices -> Times]
  /\ missed \in [Devices -> 0 .. CounterSize - 1]
  /\ devBeaconAt \in [Devices -> Nat] /\ schedule \in [Devices -> Nat \cup {OFF}]
  /\ windows \in [Devices -> SUBSET Nat] /\ opened \subseteq Devices
  /\ uplink \in [Devices -> {"none", "classA", "classB"}]
  /\ lastHeard \in [Devices -> Times]

LastBeacon == beaconAt - PERIOD
LastAttempt(d) == devBeaconAt[d] - PERIOD

\* Server and devices count the same periods: they differ at most within the instant
\* of a beacon.
ClocksAgree ==
  /\ LastBeacon \in 0 .. now /\ now <= beaconAt
  /\ beacon # OFF => beacon = now /\ now = LastBeacon /\ now > 0
  /\ \A d \in Devices :
       /\ LastAttempt(d) \in 0 .. now
       /\ \/ devBeaconAt[d] = beaconAt
          \/ devBeaconAt[d] = beaconAt + PERIOD /\ now = beaconAt
          \/ devBeaconAt[d] = LastBeacon /\ now = LastBeacon
       /\ schedule[d] # OFF => /\ schedule[d] = LastAttempt(d) + BEACON_TIME
                              /\ now <= schedule[d] /\ LastAttempt(d) > 0
       /\ timestamp[d] \in {0, LastAttempt(d)}
       /\ devClassB[d] /\ schedule[d] = OFF => timestamp[d] = LastAttempt(d)

\* The server's pending pings are slots of the current period, of devices with a
\* gateway.
PingsOfPeriod ==
  /\ \A d \in Devices : classB[d] => gw[d] \in Gateways
  /\ \A p \in pings :
       /\ p.slot \in SlotsOf(p.dev, LastBeacon) /\ p.at = LastBeacon + SlotTime(p.slot)
       /\ now <= p.at /\ LastBeacon > 0 /\ gw[p.dev] \in Gateways

\* A device that has scheduled its slots will open, or has just opened, all that are
\* still to come; and no others.
WindowsOfPeriod ==
  \A d \in Devices :
    /\ \A w \in windows[d] :
         /\ now <= w /\ schedule[d] = OFF /\ timestamp[d] # 0
         /\ \E s \in SlotsOf(d, timestamp[d]) : w = timestamp[d] + SlotTime(s)
    /\ schedule[d] = OFF /\ timestamp[d] # 0 =>
         \A s \in SlotsOf(d, timestamp[d]) :
           LET w == timestamp[d] + SlotTime(s) IN
           w >= now => w \in windows[d] \/ (w = now /\ d \in opened)

\* While a device is in Class B, its counter tells how long it has heard no beacon.
CounterCounts ==
  \A d \in Devices : devClassB[d] =>
    /\ missed[d] < MissLimit
    /\ IF schedule[d] # OFF
       THEN IF timestamp[d] # 0 THEN lastHeard[d] = LastAttempt(d)
            ELSE LastAttempt(d) - lastHeard[d] = (missed[d] + 1) * PERIOD
       ELSE LastAttempt(d) - lastHeard[d] = missed[d] * PERIOD

\* In Class B or not, the counter tells how many periods have gone since the beacon last
\* heard, as far as a uint8_t can.
CounterWraps ==
  \A d \in Devices :
    /\ \E k \in 0 .. now :
         /\ LastAttempt(d) - lastHeard[d] = k * PERIOD
         /\ IF schedule[d] = OFF THEN missed[d] = k % CounterSize
            ELSE IF timestamp[d] # 0 THEN k = 0
            ELSE (missed[d] + 1) % CounterSize = k % CounterSize
    /\ windows[d] # {} => missed[d] < MissLimit

\* The inductive invariant of the proofs: server and devices, each computing for
\* itself, agree on every slot of the period, whatever beacons were missed.
PeriodInv == /\ TypeOK /\ ClocksAgree /\ PingsOfPeriod /\ WindowsOfPeriod
             /\ CounterCounts /\ CounterWraps

\* A Class B downlink is sent when its device opens a window; the exception is a
\* device that has left Class B and could not tell the server yet
\* (lorawan-gateway-application.cc 940, lorawan-enddevice-application.cc 608).
PingMeetsWindow ==
  [][\A d \in Devices :
       queue'[d] < queue[d] /\ devClassB[d] => now \in windows[d] \/ d \in opened]_vars

\* A device that is listed for a slot at its gateway and loses it although the gateway
\* has neither sent nor refused anything loses it to a device that was listed with it and
\* has moved to another gateway since the beacon (lorawan-gateway-application.cc 926, 951).
WastedOnlyByMove ==
  [][\A p \in pings \ pings' :
       /\ queue[p.dev] > 0 /\ queue'[p.dev] = queue[p.dev]
       /\ <<gw[p.dev], p.slot, p.dev>> \in listed
       /\ gw[p.dev] \notin accepted' \cup refused'
       => \E e \in Devices : /\ <<gw[p.dev], p.slot, e>> \in listed
                             /\ gw[e] # gw[p.dev] /\ queue[e] > 0]_vars

\* "A device shall be capable of maintaining Class B operation for 2 hours (120
\* minutes) after it received the last beacon" (lorawan-enddevice-application.cc 597):
\* it leaves Class B when that time is over, and within one more period.
ClassBKept ==
  [][\A d \in Devices :
       devClassB[d] /\ ~devClassB'[d] =>
         /\ now - lastHeard[d] >= HOLD
         /\ now - lastHeard[d] < HOLD + PERIOD + BEACON_TIME]_vars

\* A device that has heard no beacon for so long opens no windows, until the uint8_t
\* counter of missed beacons wraps: then it opens them again for another hold time,
\* although it is in Class A (lorawan-enddevice-application.cc 593-600).
QuietWhenLost ==
  \A d \in Devices :
    windows[d] # {} => ((now - lastHeard[d]) \div PERIOD) % CounterSize < MissLimit
=============================================================================
