---------------------------- MODULE GatewayDevice ----------------------------
(***************************************************************************)
(* The net device of a gateway (lorawan-net-device.cc): a LoRaWANMac and a *)
(* LoRaWANPhy for every channel and data rate, one RDC object for all.     *)
(*                                                                         *)
(* A gateway MAC schedules nothing but state changes for the current       *)
(* instant (Simulator::ScheduleNow), which run in the order in which they  *)
(* were scheduled: they are the queue "events".  EndTx and EndRx were      *)
(* scheduled earlier and run before them.  Requests of the network server  *)
(* and frames of other radios may come between any two events.             *)
(*                                                                         *)
(* The assertions that the code may violate abort the program, as in a     *)
(* debug build of ns-3: "aborted" says at which, and nothing runs any more.*)
(***************************************************************************)
EXTENDS LoRaWANPhy, Integers, Sequences, FiniteSets

CONSTANTS
  NbMacs,      \* MAC and PHY pairs: channels times data rates
  ChannelOf,   \* the channel of each pair
  Bands,       \* sub bands of the RDC object
  BandOf,      \* the sub band of each pair's channel
  DutyCycle,   \* dutyCycleLimit of each sub band
  BeaconMac,   \* the pair of the beacon's channel and data rate
  AirTimes,    \* ticks a downlink or a beacon may last
  Frames,      \* what other radios have on the air at the same time, at most
  FrameTimes,  \* ticks such a frame may last
  NoFrame

Macs == 1 .. NbMacs        \* indices of m_macs and m_phys
Positive == Nat \ {0}

ASSUME GatewayAssumption ==
  /\ NbMacs \in Positive /\ BeaconMac \in Macs
  /\ BandOf \in [Macs -> Bands] /\ DutyCycle \in [Bands -> Positive]
  /\ AirTimes \subseteq Positive /\ FrameTimes \subseteq Positive
  /\ NoFrame \notin Frames

VARIABLES
  mac,       \* m_LoRaWANMacState of each MAC
  trx,       \* m_trxState of each PHY
  queue,     \* m_txQueue of each MAC
  txPkt,     \* m_txPkt # 0
  events,    \* pending SetLoRaWANMacState events, in order
  endTx,     \* time to the EndTx event of each PHY
  bandWait,  \* ticks until IsSubBandAvailable holds
  air,       \* frames of other radios: their PHY, the time left, whether the
             \* gateway has sent meanwhile
  rx,        \* m_currentRxPacket of each PHY
  received,  \* frames that were handed up when they ended
  collided,  \* a frame was accepted while another MAC was about to send
  aborted    \* the assertion that stopped the program, if any

macVars == <<mac, queue, txPkt, events, collided, aborted>>
rxVars  == <<air, rx, received>>
vars == <<macVars, trx, endTx, bandWait, rxVars>>

OFF == -1
Event(m, state) == [mac |-> m, to |-> state]
NoReception == [frame |-> NoFrame, destroyed |-> FALSE, aborted |-> FALSE]
OffAir == [on |-> BeaconMac, left |-> OFF, overlapped |-> FALSE]
OnAir == {f \in Frames : air[f].left # OFF}
Senders == {m \in Macs : endTx[m] # OFF}

\* The constructors and DoInitialize: every PHY listens.
Init ==
  /\ mac = [m \in Macs |-> "MAC_IDLE"] /\ trx = [m \in Macs |-> "RX_ON"]
  /\ queue = [m \in Macs |-> <<>>] /\ txPkt = [m \in Macs |-> FALSE]
  /\ events = <<>> /\ endTx = [m \in Macs |-> OFF]
  /\ bandWait = [b \in Bands |-> 0]
  /\ air = [f \in Frames |-> OffAir] /\ rx = [m \in Macs |-> NoReception]
  /\ received = {} /\ collided = FALSE /\ aborted = "no"

TimerDue == (\E m \in Macs : endTx[m] = 0) \/ (\E f \in Frames : air[f].left = 0)
RunsNext(m, state) ==
  /\ aborted = "no" /\ ~TimerDue
  /\ events # <<>> /\ Head(events) = Event(m, state)

-----------------------------------------------------------------------------
(* The transmit queue and the RDC object.                                  *)

AlwaysAvailable(b) == TRUE   \* mutant: the duty cycle is not asked for

\* IsSubBandAvailable
Available(b) == bandWait[b] = 0

\* m_setMacState.IsRunning () of MAC m, among the pending events ev
Running(m, ev) == \E i \in 1 .. Len(ev) : ev[i].mac = m

\* The i-th MAC of S in index order
Nth(S, i) == CHOOSE m \in S : Cardinality({n \in S : n <= m}) = i

\* CheckQueue of the MACs in S, in index order, once mac' is known; q, p and ev
\* are queue, txPkt and events as the caller leaves them.  A frame that cannot
\* be sent at once is removed and ends the program, a beacon stays.
CheckQueue(S, q, p, ev) ==
  LET starting == {m \in S : /\ mac'[m] = "MAC_IDLE" /\ q[m] # <<>> /\ ~p[m]
                             /\ ~Running(m, ev) /\ Available(BandOf[m])}
      dropped == {m \in S \ starting : q[m] # <<>> /\ Head(q[m]) # "BEACON"}
  IN /\ queue' = [m \in Macs |-> IF m \in dropped THEN Tail(q[m]) ELSE q[m]]
     /\ txPkt' = [m \in Macs |-> m \in starting \/ (m \notin dropped /\ p[m])]
     /\ events' = ev \o [i \in 1 .. Cardinality(starting) |->
                          Event(Nth(starting, i), "MAC_TX")]
     /\ aborted' = IF dropped = {} THEN "no" ELSE "frame not sent"

\* mutant: m_txPkt is not looked at
RecheckForgets(S, q, p, ev) == CheckQueue(S, q, p, ev)

\* The end of SetLoRaWANMacState (MAC_IDLE) for the MACs in S: CheckRetransmission
\* asserts that the MAC is not a gateway's.
RecheckQueue(S, q, p, ev) ==
  IF \E m \in S : p[m]
  THEN queue' = q /\ txPkt' = p /\ events' = ev /\ aborted' = "retransmission"
  ELSE CheckQueue(S, q, p, ev)

MayTryWithPending(m) ==   \* mutant: the pending event is not asked for
  Available(BandOf[m]) /\ mac[m] = "MAC_IDLE"
MayTryBusyBand(m) ==      \* mutant: the duty cycle is not asked for
  mac[m] = "MAC_IDLE" /\ ~Running(m, events)

\* CanSendImmediatelyOnChannel
CanSendImmediately(m) ==
  Available(BandOf[m]) /\ mac[m] = "MAC_IDLE" /\ ~Running(m, events)

\* Send and sendMACPayloadRequest.  The network server asks
\* CanSendImmediatelyOnChannel right before, for beacons too.
SendMACPayloadRequest(m, type) ==
  /\ aborted = "no" /\ CanSendImmediately(m)
  /\ UNCHANGED <<mac, trx, endTx, bandWait, rxVars>>
  /\ CheckQueue({m}, [queue EXCEPT ![m] = IF type = "BEACON" THEN <<type>> \o @
                                          ELSE Append(@, type)], txPkt, events)
  /\ collided' = (collided \/ \E i \in 1 .. Len(events) : events[i].to = "MAC_TX")

SendDownlink(m) == SendMACPayloadRequest(m, "DATA")
SendBeacon == SendMACPayloadRequest(BeaconMac, "BEACON")

-----------------------------------------------------------------------------
(* The transceivers.                                                       *)

KeepReception(m) == rx[m]   \* mutant: m_currentRxPacket is left as it is

\* LORAWAN_PHY_FORCE_TRX_OFF: a reception is aborted.
ForceTrxOff(m) ==
  IF rx[m].frame # NoFrame /\ trx[m] # "TRX_OFF"
  THEN [rx[m] EXCEPT !.aborted = TRUE] ELSE rx[m]

\* CheckInterference: any reception on the channel may be destroyed.
Receiving(c) == {m \in Macs : ChannelOf[m] = c /\ trx[m] = "BUSY_RX"}
Destroy(hit) ==
  [m \in Macs |-> IF m \in hit THEN [rx[m] EXCEPT !.destroyed = TRUE] ELSE rx[m]]

FrameAppears(f, m, t) ==
  /\ aborted = "no" /\ air[f].left = OFF
  /\ air' = [air EXCEPT ![f] = [on |-> m, left |-> t,
                                overlapped |-> Senders # {}]]
  /\ received' = received \ {f}
  /\ UNCHANGED <<macVars, endTx, bandWait>>

\* StartRx of a PHY that listens and can tell the frame from the noise
StartRx(f, m, t) ==
  /\ FrameAppears(f, m, t)
  /\ trx[m] = "RX_ON" /\ trx' = [trx EXCEPT ![m] = "BUSY_RX"]
  /\ \E hit \in SUBSET Receiving(ChannelOf[m]) :
       rx' = [Destroy(hit) EXCEPT ![m] = [NoReception EXCEPT !.frame = f]]

\* StartRx otherwise: the frame is only interference.
StartRxDrops(f, m, t) ==
  /\ FrameAppears(f, m, t)
  /\ \E hit \in SUBSET Receiving(ChannelOf[m]) : rx' = Destroy(hit)
  /\ UNCHANGED trx

\* EndRx, of a frame that may be destroyed by what was heard since the last check
EndRx(f) ==
  LET m == air[f].on
      current == rx[m].frame = f
      busy == current /\ trx[m] = "BUSY_RX"
  IN /\ aborted = "no" /\ air[f].left = 0
     /\ air' = [air EXCEPT ![f] = OffAir]
     /\ rx' = IF current THEN [rx EXCEPT ![m] = NoReception] ELSE rx
     /\ trx' = IF busy THEN [trx EXCEPT ![m] = "RX_ON"] ELSE trx
     /\ \E destroyed \in BOOLEAN :
          /\ destroyed => busy \/ rx[m].destroyed
          /\ rx[m].destroyed => destroyed
          /\ received' = IF current /\ ~destroyed /\ ~rx[m].aborted
                         THEN received \cup {f} ELSE received
     /\ UNCHANGED <<macVars, endTx, bandWait>>

-----------------------------------------------------------------------------
(* SetLoRaWANMacState and the callbacks to the net device.                 *)

PhysKept(m) == [trx EXCEPT ![m] = "BUSY_TX"]   \* mutant: the others stay on

\* The transceivers after MacBeginsTx and the PdDataRequest of MAC m
PhysDuringTx(m) == [i \in Macs |-> IF i = m THEN "BUSY_TX" ELSE "TRX_OFF"]

\* MAC_TX: MacBeginsTx switches every MAC to MAC_UNAVAILABLE and its PHY off, then
\* this one transmits.
BeginTx(m, t) ==
  /\ RunsNext(m, "MAC_TX") /\ events' = Tail(events)
  /\ mac[m] = "MAC_IDLE" /\ \A i \in Macs : mac[i] \in {"MAC_IDLE", "MAC_TX"}
  /\ txPkt[m]
  /\ mac' = [i \in Macs |-> IF i = m THEN "MAC_TX" ELSE "MAC_UNAVAILABLE"]
  /\ trx' = PhysDuringTx(m)
  /\ endTx' = [endTx EXCEPT ![m] = t]
  /\ bandWait' = [bandWait EXCEPT ![BandOf[m]] =
                    IF DutyCycle[BandOf[m]] = 1 THEN 0
                    ELSE t * DutyCycle[BandOf[m]]]
  /\ rx' = [i \in Macs |-> ForceTrxOff(i)]
  /\ air' = [f \in Frames |-> IF f \in OnAir THEN [air[f] EXCEPT !.overlapped = TRUE]
                              ELSE air[f]]
  /\ UNCHANGED <<queue, txPkt, collided, aborted, received>>

\* MAC_TX of a MAC that is not idle any more: "transmission canceled", m_txPkt stays.
TxCancelled(m) ==
  /\ RunsNext(m, "MAC_TX") /\ events' = Tail(events)
  /\ mac[m] # "MAC_IDLE"
  /\ UNCHANGED <<mac, queue, txPkt, collided, aborted, trx, endTx, bandWait, rxVars>>

Others(m) == Macs \ {m}

PacketKept(m) == txPkt   \* mutant: m_txPkt is not reset

\* RemoveFirstTxQElement resets m_txPkt.
PacketSent(m) == [txPkt EXCEPT ![m] = FALSE]

\* EndTx and PdDataConfirm: the frame leaves the queue, this MAC will be idle in an
\* event of its own, MacEndsTx makes the others idle at once.
EndTx(m) ==
  /\ aborted = "no" /\ endTx[m] = 0
  /\ mac[m] = "MAC_TX" /\ txPkt[m]
  /\ \A i \in Others(m) : mac[i] = "MAC_UNAVAILABLE"
  /\ endTx' = [endTx EXCEPT ![m] = OFF]
  /\ mac' = [i \in Macs |-> IF i = m THEN mac[m] ELSE "MAC_IDLE"]
  /\ trx' = [i \in Macs |-> IF i = m THEN trx[m] ELSE "RX_ON"]
  /\ RecheckQueue(Others(m), [queue EXCEPT ![m] = Tail(@)],
                  PacketSent(m), Append(events, Event(m, "MAC_IDLE")))
  /\ UNCHANGED <<collided, bandWait, rxVars>>

\* MAC_IDLE of the MAC that has sent
EnterIdle(m) ==
  /\ RunsNext(m, "MAC_IDLE") /\ mac[m] \in {"MAC_TX", "MAC_UNAVAILABLE"}
  /\ mac' = [mac EXCEPT ![m] = "MAC_IDLE"]
  /\ PhyAccepts("RX_ON", trx[m]) /\ trx' = [trx EXCEPT ![m] = "RX_ON"]
  /\ RecheckQueue({m}, queue, txPkt, Tail(events))
  /\ UNCHANGED <<collided, endTx, bandWait, rxVars>>

-----------------------------------------------------------------------------
TimeLeft(n) == IF n > 0 THEN n - 1 ELSE n

Tick ==
  /\ aborted = "no" /\ events = <<>> /\ ~TimerDue
  /\ OnAir # {} \/ Senders # {} \/ \E b \in Bands : bandWait[b] > 0
  /\ endTx' = [m \in Macs |-> TimeLeft(endTx[m])]
  /\ bandWait' = [b \in Bands |-> TimeLeft(bandWait[b])]
  /\ air' = [f \in Frames |-> [air[f] EXCEPT !.left = TimeLeft(@)]]
  /\ UNCHANGED <<macVars, trx, rx, received>>

System ==
  \/ \E m \in Macs : TxCancelled(m) \/ EndTx(m) \/ EnterIdle(m)
  \/ \E m \in Macs, t \in AirTimes : BeginTx(m, t)
  \/ \E f \in Frames : EndRx(f)
  \/ Tick

Next ==
  \/ System
  \/ \E m \in Macs : SendDownlink(m)
  \/ SendBeacon
  \/ \E f \in Frames, m \in Macs, t \in FrameTimes : StartRx(f, m, t) \/ StartRxDrops(f, m, t)

Spec == Init /\ [][Next]_vars
FairSpec == Spec /\ WF_vars(System)

-----------------------------------------------------------------------------
(* Properties.  The parts of the inductive invariant first.                *)

MacStates == {"MAC_IDLE", "MAC_TX", "MAC_UNAVAILABLE"}
TrxOfGateway == {"RX_ON", "BUSY_RX", "BUSY_TX", "TRX_OFF"}
Ticks == Nat \cup {OFF}

\* Every variable keeps its type.
TypeOK ==
  /\ mac \in [Macs -> MacStates] /\ trx \in [Macs -> TrxOfGateway]
  /\ queue \in [Macs -> Seq({"DATA", "BEACON"})] /\ txPkt \in [Macs -> BOOLEAN]
  /\ events \in Seq([mac : Macs, to : {"MAC_TX", "MAC_IDLE"}])
  /\ endTx \in [Macs -> Ticks] /\ bandWait \in [Bands -> Nat]
  /\ air \in [Frames -> [on : Macs, left : Ticks, overlapped : BOOLEAN]]
  /\ rx \in [Macs -> [frame : Frames \cup {NoFrame}, destroyed : BOOLEAN,
                      aborted : BOOLEAN]]
  /\ received \subseteq Frames /\ collided \in BOOLEAN
  /\ aborted \in {"no", "retransmission", "frame not sent"}

Pending(m, state) == \E i \in 1 .. Len(events) : events[i] = Event(m, state)

\* Either one MAC is sending and the others are unavailable, with what is left of
\* the events of that instant, or all are idle but for the one that has just sent,
\* whose event is the first.
SendingInv ==
  \A m \in Senders :
    /\ mac[m] = "MAC_TX" /\ trx[m] = "BUSY_TX" /\ txPkt[m]
    /\ \A i \in Others(m) : /\ mac[i] = "MAC_UNAVAILABLE" /\ trx[i] = "TRX_OFF"
                           /\ endTx[i] = OFF
    /\ \A i \in 1 .. Len(events) : /\ events[i].to = "MAC_TX"
                                   /\ events[i].mac # m
    /\ events # <<>> => endTx[m] > 0

IdleInv ==
  Senders = {} =>
    /\ \A m \in Macs :
         \/ /\ mac[m] = "MAC_IDLE" /\ trx[m] \in {"RX_ON", "BUSY_RX"}
         \/ /\ mac[m] = "MAC_TX" /\ trx[m] = "BUSY_TX"
            /\ events # <<>> /\ Head(events) = Event(m, "MAC_IDLE")
    /\ \A i \in 1 .. Len(events) :
         \/ /\ i = 1 /\ events[i].to = "MAC_IDLE" /\ mac[events[i].mac] = "MAC_TX"
            /\ ~txPkt[events[i].mac]
         \/ /\ events[i].to = "MAC_TX" /\ mac[events[i].mac] = "MAC_IDLE"
            /\ bandWait[BandOf[events[i].mac]] = 0

\* A MAC has at most one event, and a frame in its queue exactly while it tries to
\* send it: after a cancelled attempt too, until the transmission in its way ends.
PacketInv ==
  /\ \A i, j \in 1 .. Len(events) : events[i].mac = events[j].mac => i = j
  /\ \A i \in 1 .. Len(events) : events[i].to = "MAC_TX" => txPkt[events[i].mac]
  /\ \A m \in Macs : txPkt[m] => Senders # {} \/ Pending(m, "MAC_TX")
  /\ \A m, n \in Macs : txPkt[m] /\ txPkt[n] /\ m # n => collided

\* What the transceivers receive is on the air, and is aborted when the gateway
\* sends over it.
ReceptionInv ==
  \A m \in Macs :
    /\ trx[m] = "BUSY_RX" => rx[m].frame # NoFrame
    /\ rx[m].frame # NoFrame =>
         /\ air[rx[m].frame].left # OFF /\ air[rx[m].frame].on = m
         /\ air[rx[m].frame].overlapped => rx[m].aborted
         /\ rx[m].aborted \/ mac[m] = "MAC_IDLE"

\* Every MAC holds at most one frame, the one it is trying to send: a request never
\* finds a frame, or a beacon that could not be sent, in its way (lorawan-mac.cc
\* 844-853, 943-951).
QueueIsInFlight ==
  aborted # "frame not sent" =>
    \A m \in Macs : Len(queue[m]) = IF txPkt[m] THEN 1 ELSE 0

\* The inductive invariant of the proofs.
GatewayInv ==
  /\ TypeOK /\ QueueIsInFlight
  /\ aborted = "no" => SendingInv /\ IdleInv /\ PacketInv /\ ReceptionInv

\* The gateway is half duplex over all of its channels: while one PHY sends, every
\* other is switched off (MacBeginsTx, lorawan-net-device.cc 604-622).
HalfDuplex ==
  aborted = "no" =>
    \A m \in Senders : \A i \in Others(m) : endTx[i] = OFF /\ trx[i] = "TRX_OFF"

\* The assertions on states hold whenever they are evaluated: an event finds its MAC
\* in a legal state (lorawan-mac.cc 264, 354, 623), so does the end of a transmission
\* (434, 686), and a frame is handed up by an idle MAC only (457).
AssertionsHold ==
  aborted = "no" =>
    /\ events # <<>> /\ ~TimerDue =>
         LET m == Head(events).mac IN
         \/ /\ Head(events).to = "MAC_TX"
            /\ mac[m] = "MAC_IDLE" =>
                 txPkt[m] /\ \A i \in Macs : mac[i] \in {"MAC_IDLE", "MAC_TX"}
         \/ /\ Head(events).to = "MAC_IDLE"
            /\ mac[m] \in {"MAC_TX", "MAC_UNAVAILABLE"} /\ PhyAccepts("RX_ON", trx[m])
    /\ \A m \in Macs : endTx[m] = 0 =>
         /\ mac[m] = "MAC_TX" /\ txPkt[m]
         /\ \A i \in Others(m) : mac[i] = "MAC_UNAVAILABLE"
    /\ \A m \in Macs : rx[m].frame # NoFrame /\ ~rx[m].aborted => mac[m] = "MAC_IDLE"

\* A frame the network server was told it can send is never thrown away: "Gateway is
\* unable to send packet immediately" (lorawan-mac.cc 952) is not reached.
AcceptedIsSent == aborted # "frame not sent"

\* Only a frame accepted on one MAC while another was about to send can end the
\* program in CheckRetransmission (lorawan-mac.cc 963).
AbortNeedsCollision == aborted = "retransmission" => collided

\* "retransmissions are not handled in the MAC layer for gateways" (lorawan-mac.cc
\* 963): what the assertion says of m_txPkt when a gateway's MAC becomes idle.
RetransmissionsLeftToServer == aborted # "retransmission"

\* However many MACs and PHYs it has, the gateway is one radio.
Radio == INSTANCE GatewayRadio WITH
  sender <- Senders, offTime <- bandWait,
  overlapped <- {f \in OnAir : air[f].overlapped}

\* The detailed device implements GatewayRadio: one frame at a time, one duty cycle
\* per sub band over all MACs, nothing handed up that was overlapped by a
\* transmission of its own.
ImplementsRadio == Radio!Spec

\* Every accepted frame or beacon leaves its MAC, or the program stops.
AcceptedEnds == \A m \in Macs : txPkt[m] ~> ~txPkt[m] \/ aborted # "no"
=============================================================================
