---------------------------- MODULE NetworkServer ----------------------------
(***************************************************************************)
(* The network server (LoRaWANNetworkServer in                             *)
(* lorawan-gateway-application.cc) and one end device that talks to it     *)
(* through several gateways.                                               *)
(*                                                                         *)
(* The server keeps one record per device (LoRaWANEndDeviceInfoNS) and     *)
(* uses no other device's record to serve it, except through the gateways: *)
(* whether a gateway can send is a free choice here.  The device is its    *)
(* application (counters, Ack and Class B bits) and what EndDeviceMac      *)
(* promises of its MAC: frames are sent in order, each followed by RW1 and *)
(* RW2.  Copies, answers and transmissions are lost freely.                *)
(*                                                                         *)
(* Timers hold the ticks left, or OFF.  Tick advances time and only runs   *)
(* when nothing is due; the copies of a transmission reach the server      *)
(* within one instant.                                                     *)
(***************************************************************************)
EXTENDS Integers, Sequences

CONSTANTS
  Gateways,
  RECEIVE_DELAY1, RECEIVE_DELAY2,  \* ticks from the end of an uplink
  DuplicateWindow,  \* ticks in which a known frame counter is a duplicate
  NbTransCon,       \* DEFAULT_NUMBER_US_TRANSMISSIONS
  NbRep,            \* transmissions of an unconfirmed uplink
  NbTransDown,      \* DEFAULT_NUMBER_DS_TRANSMISSIONS
  ConTypes,         \* which uplinks the application sends (TRUE: confirmed)
  DownTypes,        \* which downlinks the server generates
  ClassB,           \* m_isClassB of the device at the start
  PingSlots,        \* ping slots per beacon period
  MaxUplinks, MaxDownlinks, MaxPings   \* bounds of the traffic

Positive == Nat \ {0}

ASSUME ServerAssumption ==
  /\ RECEIVE_DELAY1 \in Positive /\ RECEIVE_DELAY2 \in Nat
  /\ RECEIVE_DELAY1 < RECEIVE_DELAY2
  /\ DuplicateWindow \in Nat /\ DuplicateWindow <= RECEIVE_DELAY1
  /\ NbTransCon \in Positive /\ NbRep \in Positive /\ NbTransDown \in Positive
  /\ ConTypes \subseteq BOOLEAN /\ DownTypes \subseteq BOOLEAN
  /\ ClassB \in BOOLEAN /\ PingSlots \in Nat
  /\ MaxUplinks \in Nat /\ MaxDownlinks \in Nat /\ MaxPings \in Nat

VARIABLES
  \* the device
  devQueue,    \* frames handed to its MAC and not yet done
  txPkt,       \* m_txPkt # 0: the head of the queue has been sent
  devAck,      \* m_setAck of its application
  devFCnt,     \* m_fCntUp of its application
  devClassB,   \* m_isClassB of its application
  phase,       \* "idle", "cycle" (an uplink and its windows) or "heard"
  sinceTx,     \* ticks since the end of the uplink, in a cycle
  \* the air
  uplink,      \* the frame of the last transmission
  copies,      \* gateways that have still to forward it
  downlink,    \* the frame a gateway is sending, or NoFrame
  \* the server's record of the device
  lastGWs, fCntUp, setAck, isClassB, rw1Timer, rw2Timer,
  sinceSeen,   \* Now - m_lastSeen, up to RECEIVE_DELAY2
  dsQueue,     \* m_downstreamQueue
  bQueue,      \* length of m_ClassBdownstreamQueue
  bTraffic,    \* the Class B traffic timers run
  pings,       \* ClassBPingSlot events pending
  \* history
  downlinks, bPings,   \* downlinks generated so far
  heard,       \* frame counters the server has received
  heardBy,     \* gateways that received the last transmission
  answered,    \* the last transmission has been answered in RW1 or RW2
  received,    \* downlinks the device has received
  ackUsed      \* frame counters whose Ack bit removed a downlink

deviceVars  == <<devQueue, txPkt, devAck, devFCnt, devClassB, phase, sinceTx>>
timerVars   == <<rw1Timer, rw2Timer, sinceSeen>>
classBVars  == <<isClassB, bQueue, bTraffic, pings, bPings>>
historyVars == <<downlinks, heard, heardBy, answered, received, ackUsed>>
vars == <<deviceVars, uplink, copies, downlink, lastGWs, fCntUp, setAck,
          timerVars, dsQueue, classBVars, historyVars>>

OFF == -1
NoFrame == [ack |-> FALSE, con |-> FALSE, id |-> 0, gw |-> {}, ping |-> FALSE]

\* An element of a queue, and the queue, after a transmission of the element at its
\* head that is not the last.
Sent(f) == [f EXCEPT !.left = @ - 1]
OneFewer(q) == <<Sent(Head(q))>> \o Tail(q)

Init ==
  /\ devQueue = <<>> /\ txPkt = FALSE /\ devAck = FALSE /\ devFCnt = 0
  /\ devClassB = ClassB /\ phase = "idle" /\ sinceTx = 0
  /\ uplink = [fcnt |-> 0, con |-> FALSE, ack |-> FALSE, b |-> ClassB]
  /\ copies = {} /\ downlink = NoFrame
  /\ lastGWs = {} /\ fCntUp = 0 /\ setAck = FALSE /\ isClassB = FALSE
  /\ rw1Timer = OFF /\ rw2Timer = OFF /\ sinceSeen = 0
  /\ dsQueue = <<>> /\ bQueue = 0 /\ bTraffic = FALSE /\ pings = 0
  /\ downlinks = 0 /\ bPings = 0
  /\ heard = {} /\ heardBy = {} /\ answered = FALSE /\ received = {}
  /\ ackUsed = {}

-----------------------------------------------------------------------------
(* The device.                                                             *)

Transmissions(con) == IF con THEN NbTransCon ELSE NbRep

\* The head of the queue has had its last transmission (CheckRetransmission).
Exhausted == txPkt /\ Head(devQueue).left = 0

\* MAC_IDLE: between two cycles, with no frame left to give up.
Idle == phase = "idle" /\ ~Exhausted

\* RW1 or RW2 is open.
InWindow == phase = "cycle" /\ sinceTx \in {RECEIVE_DELAY1, RECEIVE_DELAY2}

\* LoRaWANEndDeviceApplication::SendPacket: the Ack and Class B bits are those of
\* the time at which the frame is handed to the MAC.
SendPacket ==
  /\ devFCnt < MaxUplinks
  /\ \E con \in ConTypes :
       devQueue' = Append(devQueue,
         [fcnt |-> devFCnt + 1, con |-> con, ack |-> devAck, b |-> devClassB,
          left |-> Transmissions(con)])
  /\ devFCnt' = devFCnt + 1 /\ devAck' = FALSE
  /\ UNCHANGED <<txPkt, devClassB, phase, sinceTx, uplink, copies, downlink,
                 lastGWs, fCntUp, setAck, timerVars, dsQueue, classBVars,
                 historyVars>>

\* A transmission ends; the gateways in H receive it.  An unconfirmed frame leaves
\* the queue with its last repetition.
UplinkEnds(H) ==
  /\ Idle /\ devQueue # <<>> /\ Head(devQueue).left > 0
  /\ LET f == Head(devQueue)
         last == ~f.con /\ f.left = 1
     IN /\ uplink' = [fcnt |-> f.fcnt, con |-> f.con, ack |-> f.ack, b |-> f.b]
        /\ devQueue' = IF last THEN Tail(devQueue)
                       ELSE OneFewer(devQueue)
        /\ txPkt' = ~last
  /\ phase' = "cycle" /\ sinceTx' = 0
  /\ copies' = H /\ heardBy' = H /\ answered' = FALSE
  /\ UNCHANGED <<devAck, devFCnt, devClassB, downlink, lastGWs, fCntUp, setAck,
                 timerVars, dsQueue, classBVars, downlinks, heard, received,
                 ackUsed>>

\* Mutant: an Ack removes the head of the queue whether it was sent or not.
AnyFrameWaits == devQueue # <<>>

\* The Ack bit of a downlink finds a frame to confirm (m_txPkt # 0).
FrameWaitsForAck == txPkt

\* PdDataIndication and HandleDSPacket: the MAC removes an acknowledged frame, the
\* application notes that a confirmed downlink has to be acknowledged.
ReceiveDownlink ==
  /\ downlink # NoFrame
  /\ IF downlink.ping THEN Idle /\ devClassB ELSE InWindow
  /\ IF downlink.ack /\ FrameWaitsForAck
     THEN devQueue' = Tail(devQueue) /\ txPkt' = FALSE
     ELSE UNCHANGED <<devQueue, txPkt>>
  /\ devAck' = (devAck \/ downlink.con)
  /\ phase' = "heard" /\ sinceTx' = 0
  /\ received' = received \cup {downlink.id}
  /\ downlink' = NoFrame
  /\ UNCHANGED <<devFCnt, devClassB, uplink, copies, lastGWs, fCntUp, setAck,
                 timerVars, dsQueue, classBVars, downlinks, heard, heardBy,
                 answered, ackUsed>>

LoseDownlink ==
  /\ downlink # NoFrame /\ downlink' = NoFrame
  /\ UNCHANGED <<deviceVars, uplink, copies, lastGWs, fCntUp, setAck, timerVars,
                 dsQueue, classBVars, historyVars>>

\* CheckRetransmission gives up a confirmed frame.
GiveUp ==
  /\ phase = "idle" /\ Exhausted
  /\ devQueue' = Tail(devQueue) /\ txPkt' = FALSE
  /\ UNCHANGED <<devAck, devFCnt, devClassB, phase, sinceTx, uplink, copies,
                 downlink, lastGWs, fCntUp, setAck, timerVars, dsQueue,
                 classBVars, historyVars>>

\* ClassBSchedulePingSlots: too many beacons in a row were missed.
LeaveClassB ==
  /\ devClassB /\ devClassB' = FALSE
  /\ UNCHANGED <<devQueue, txPkt, devAck, devFCnt, phase, sinceTx, uplink,
                 copies, downlink, lastGWs, fCntUp, setAck, timerVars, dsQueue,
                 classBVars, historyVars>>

-----------------------------------------------------------------------------
(* The server: uplinks.                                                    *)

\* Mutant: gateways of earlier transmissions are kept.
AllGateways(g) == lastGWs \cup {g}

\* The gateways that forwarded a copy of this transmission, as the server sees it.
SeenBy(g) == IF sinceSeen > DuplicateWindow THEN {g} ELSE lastGWs \cup {g}

\* Mutant: the counter the server keeps counts as new.
KnownBefore == uplink.fcnt < fCntUp

Known == uplink.fcnt <= fCntUp

\* Mutant: a frame with a known counter is never taken for a copy.
NoDuplicate == FALSE

\* The same transmission, forwarded by another gateway.
Duplicate == Known /\ sinceSeen <= DuplicateWindow

\* Mutant: the Ack bit of a retransmission is processed again.
ProcessAnyAck == uplink.ack

\* processMACAck: the Ack bit counts once per frame counter.
ProcessMACAck == uplink.ack /\ ~Known

\* The Ack bit removes the first downlink if that is a confirmed one.
AckRemoves == ProcessMACAck /\ dsQueue # <<>> /\ Head(dsQueue).con

\* The part of HandleUSPacket that follows the check for duplicates.
ProcessUplink ==
  /\ fCntUp' = IF Known THEN fCntUp ELSE uplink.fcnt
  /\ sinceSeen' = 0
  /\ setAck' = (setAck \/ uplink.con)
  /\ IF AckRemoves
     THEN dsQueue' = Tail(dsQueue) /\ ackUsed' = ackUsed \cup {uplink.fcnt}
     ELSE UNCHANGED <<dsQueue, ackUsed>>
  /\ isClassB' = uplink.b
  /\ bTraffic' = (bTraffic \/ uplink.b)
  /\ rw1Timer' = RECEIVE_DELAY1
  /\ heard' = heard \cup {uplink.fcnt}

\* HandleRead and HandleUSPacket.
HandleUSPacket(g) ==
  /\ g \in copies /\ copies' = copies \ {g}
  /\ lastGWs' = SeenBy(g)
  /\ IF Duplicate
     THEN UNCHANGED <<fCntUp, sinceSeen, setAck, dsQueue, ackUsed, isClassB,
                      bTraffic, rw1Timer, heard>>
     ELSE ProcessUplink
  /\ UNCHANGED <<deviceVars, uplink, downlink, rw2Timer, bQueue, pings, bPings,
                 downlinks, heardBy, answered, received>>

-----------------------------------------------------------------------------
(* The server: answers.                                                    *)

\* A confirmed downlink stays in the queue until its last transmission.
AfterTransmission ==
  IF Head(dsQueue).con /\ Head(dsQueue).left > 1
  THEN OneFewer(dsQueue)
  ELSE Tail(dsQueue)

\* SendDSPacket: the first downlink of the queue, or else an empty frame if there is
\* an Ack to send, or else nothing.
SendDSPacket(g) ==
  \/ /\ dsQueue # <<>> /\ dsQueue' = AfterTransmission
     /\ downlink' = [ack |-> setAck, con |-> Head(dsQueue).con,
                     id |-> Head(dsQueue).id, gw |-> {g}, ping |-> FALSE]
     /\ setAck' = FALSE /\ answered' = TRUE
  \/ /\ dsQueue = <<>> /\ setAck /\ dsQueue' = dsQueue
     /\ downlink' = [ack |-> TRUE, con |-> FALSE, id |-> 0, gw |-> {g},
                     ping |-> FALSE]
     /\ setAck' = FALSE /\ answered' = TRUE
  \/ /\ dsQueue = <<>> /\ ~setAck
     /\ UNCHANGED <<downlink, dsQueue, setAck, answered>>

\* Mutant: the delay to RW2 is counted from the end of RW1.
DelayFromNow == RECEIVE_DELAY2

\* RW2 starts RECEIVE_DELAY2 after the uplink was received.
DelayToRW2 == RECEIVE_DELAY2 - sinceSeen

\* Mutant: RW2 is scheduled as well when a gateway answers in RW1.
RW2Always == DelayToRW2

RW2AfterAnswer == OFF

\* A gateway can send in RW1; if none can, the server tries again in RW2.
RW1TimerExpired ==
  /\ rw1Timer = 0 /\ downlink = NoFrame /\ rw1Timer' = OFF
  /\ \/ /\ \E g \in lastGWs : SendDSPacket(g)
        /\ rw2Timer' = RW2AfterAnswer
     \/ /\ rw2Timer' = DelayToRW2
        /\ UNCHANGED <<downlink, dsQueue, setAck, answered>>
  /\ UNCHANGED <<deviceVars, uplink, copies, lastGWs, fCntUp, sinceSeen,
                 classBVars, downlinks, heard, heardBy, received, ackUsed>>

RW2TimerExpired ==
  /\ rw2Timer = 0 /\ downlink = NoFrame /\ rw2Timer' = OFF
  /\ \/ \E g \in lastGWs : SendDSPacket(g)
     \/ UNCHANGED <<downlink, dsQueue, setAck, answered>>
  /\ UNCHANGED <<deviceVars, uplink, copies, lastGWs, fCntUp, sinceSeen,
                 rw1Timer, classBVars, downlinks, heard, heardBy, received,
                 ackUsed>>

-----------------------------------------------------------------------------
(* The server: downlink traffic and Class B.                               *)

DSTimerExpired ==
  /\ downlinks < MaxDownlinks /\ downlinks' = downlinks + 1
  /\ \E con \in DownTypes :
       dsQueue' = Append(dsQueue, [id |-> downlinks + 1, con |-> con,
                                   left |-> IF con THEN NbTransDown ELSE 1])
  /\ UNCHANGED <<deviceVars, uplink, copies, downlink, lastGWs, fCntUp, setAck,
                 timerVars, classBVars, heard, heardBy, answered, received,
                 ackUsed>>

ClassBDSTimerExpired ==
  /\ bTraffic /\ bPings < MaxPings /\ bPings' = bPings + 1
  /\ bQueue' = bQueue + 1
  /\ UNCHANGED <<deviceVars, uplink, copies, downlink, lastGWs, fCntUp, setAck,
                 timerVars, dsQueue, isClassB, bTraffic, pings, historyVars>>

\* ClassBSendBeacon schedules the ping slots of the beacon period.  The previous
\* period's slots are over by then.
ClassBSendBeacon ==
  /\ pings = 0 /\ isClassB /\ pings' = PingSlots
  /\ UNCHANGED <<deviceVars, uplink, copies, downlink, lastGWs, fCntUp, setAck,
                 timerVars, dsQueue, isClassB, bQueue, bTraffic, bPings,
                 historyVars>>

\* ClassBPingSlot: the slot is used if there is a frame, no other device is first
\* in the slot's queue and the gateway can send.
ClassBPingSlot ==
  /\ pings > 0 /\ downlink = NoFrame /\ pings' = pings - 1
  /\ \/ /\ bQueue > 0 /\ bQueue' = bQueue - 1
        /\ \E g \in lastGWs :
             downlink' = [ack |-> setAck, con |-> FALSE, id |-> 0,
                          gw |-> {g}, ping |-> TRUE]
     \/ UNCHANGED <<bQueue, downlink>>
  /\ UNCHANGED <<deviceVars, uplink, copies, lastGWs, fCntUp, setAck, timerVars,
                 dsQueue, isClassB, bTraffic, bPings, historyVars>>

-----------------------------------------------------------------------------
(* Time.                                                                   *)

NothingDue ==
  /\ copies = {} /\ downlink = NoFrame /\ rw1Timer # 0 /\ rw2Timer # 0
  /\ phase = "idle" => ~Exhausted

Countdown(t) == IF t = OFF THEN OFF ELSE t - 1

\* A device that received something in a window is idle again a tick later, one
\* that received nothing after RW2.
Tick ==
  /\ NothingDue
  /\ rw1Timer' = Countdown(rw1Timer) /\ rw2Timer' = Countdown(rw2Timer)
  /\ sinceSeen' = IF sinceSeen < RECEIVE_DELAY2 THEN sinceSeen + 1 ELSE sinceSeen
  /\ IF phase = "cycle" /\ sinceTx < RECEIVE_DELAY2
     THEN sinceTx' = sinceTx + 1 /\ UNCHANGED phase
     ELSE sinceTx' = 0 /\ phase' = "idle"
  /\ UNCHANGED <<devQueue, txPkt, devAck, devFCnt, devClassB, uplink, copies,
                 downlink, lastGWs, fCntUp, setAck, dsQueue, classBVars,
                 historyVars>>

Next ==
  \/ SendPacket \/ (\E H \in SUBSET Gateways : UplinkEnds(H))
  \/ ReceiveDownlink \/ LoseDownlink \/ GiveUp \/ LeaveClassB
  \/ (\E g \in Gateways : HandleUSPacket(g))
  \/ RW1TimerExpired \/ RW2TimerExpired
  \/ DSTimerExpired \/ ClassBDSTimerExpired \/ ClassBSendBeacon \/ ClassBPingSlot
  \/ Tick

Spec == Init /\ [][Next]_vars

-----------------------------------------------------------------------------
(* Properties.                                                             *)

Uplinks == [fcnt : Nat, con : BOOLEAN, ack : BOOLEAN, b : BOOLEAN]
Queued  == [fcnt : Nat, con : BOOLEAN, ack : BOOLEAN, b : BOOLEAN, left : Nat]
Pending == [id : Nat, con : BOOLEAN, left : Nat]
Downlinks == [ack : BOOLEAN, con : BOOLEAN, id : Nat, gw : SUBSET Gateways,
              ping : BOOLEAN]

TypeOK ==
  /\ devQueue \in Seq(Queued) /\ txPkt \in BOOLEAN /\ devAck \in BOOLEAN
  /\ devFCnt \in Nat /\ devClassB \in BOOLEAN
  /\ phase \in {"idle", "cycle", "heard"} /\ sinceTx \in 0..RECEIVE_DELAY2
  /\ uplink \in Uplinks /\ copies \subseteq Gateways /\ downlink \in Downlinks
  /\ lastGWs \subseteq Gateways /\ fCntUp \in Nat /\ setAck \in BOOLEAN
  /\ isClassB \in BOOLEAN
  /\ rw1Timer \in 0..RECEIVE_DELAY1 \cup {OFF}
  /\ rw2Timer \in 0..RECEIVE_DELAY2 \cup {OFF}
  /\ sinceSeen \in 0..RECEIVE_DELAY2
  /\ dsQueue \in Seq(Pending)
  /\ bQueue \in Nat /\ bTraffic \in BOOLEAN /\ pings \in Nat
  /\ downlinks \in Nat /\ bPings \in Nat
  /\ heard \subseteq Nat /\ heardBy \subseteq Gateways /\ answered \in BOOLEAN
  /\ received \subseteq Nat /\ ackUsed \subseteq Nat

\* The server is about to schedule an answer to the copy it handles.
NewTransmission == copies # {} /\ ~Duplicate

\* The RW1 timer does not run when it is scheduled (366), nor the RW2 timer (411),
\* and the time left to RW2 is positive (416): copies of a transmission, its
\* retransmissions and the next frame never overtake the answer to the first.
RWTimersFree ==
  /\ NewTransmission => rw1Timer = OFF /\ rw2Timer = OFF
  /\ rw1Timer = 0 => rw2Timer = OFF /\ DelayToRW2 > 0

Answering == downlink # NoFrame /\ ~downlink.ping

\* Whatever the server sends when an RW timer expires (381-449) reaches the device
\* while it has that window open, after a transmission the server has received.
AnswerMeetsWindow == Answering => InWindow /\ heardBy # {}

\* It leaves through a gateway that received that very transmission, although the
\* list of gateways (252-255) is built before the frame is known to be new.
AnswerThroughHearers == Answering => downlink.gw \subseteq heardBy

\* A transmission is answered at most once, in RW1 or in RW2 (402).
OneAnswerPerTransmission ==
  [][downlink = NoFrame /\ downlink' # NoFrame /\ ~downlink'.ping
       => ~answered]_vars

\* The frame a device takes for acknowledged by an answer has been received by the
\* server, even when the Ack flag is a left-over of an earlier frame (291, 586).
RWAckMeansHeard ==
  Answering /\ downlink.ack /\ FrameWaitsForAck => Head(devQueue).fcnt \in heard

\* The same of a frame sent in a ping slot (991, 574 of lorawan-mac.cc).
PingAckMeansHeard ==
  downlink.ping /\ downlink.ack /\ Idle /\ devClassB /\ FrameWaitsForAck
    => Head(devQueue).fcnt \in heard

\* The Ack bit of one uplink removes at most one downlink, however often the uplink
\* is repeated and through however many gateways it comes (263-311).
AckBitProcessedOnce ==
  NewTransmission /\ AckRemoves => uplink.fcnt \notin ackUsed

\* A downlink is removed as confirmed only if the device has received it (315).
DownlinkAckMatches ==
  NewTransmission /\ AckRemoves => Head(dsQueue).id \in received

\* No Class B traffic is generated for a device that has left Class B (359-361).
ClassBTrafficStops == [][bQueue' > bQueue => isClassB]_vars

-----------------------------------------------------------------------------
(* The invariant the proofs use.                                           *)

\* A frame in service is the one last sent, until its cycle ends.
QueueInv ==
  /\ \A i \in 1..Len(devQueue) : devQueue[i].fcnt > 0
  /\ txPkt => devQueue # <<>>
  /\ phase = "cycle" /\ txPkt => Head(devQueue).fcnt = uplink.fcnt

\* Frame counters the server has not seen are larger than those it has.
CounterInv ==
  /\ ackUsed \subseteq 0..fCntUp
  /\ lastGWs = {} => fCntUp = 0

\* The server has received the last transmission and knows it by its time.
Seen ==
  /\ phase = "cycle" /\ sinceSeen = sinceTx /\ fCntUp >= uplink.fcnt
  /\ uplink.fcnt \in heard /\ heardBy # {} /\ lastGWs \subseteq heardBy

\* What the server knows belongs to an earlier transmission.
Forgotten == sinceSeen > DuplicateWindow \/ lastGWs = {}

\* A running timer belongs to the last transmission and ends with its window.
RWTimerInv ==
  /\ rw1Timer # OFF =>
       Seen /\ rw2Timer = OFF /\ ~answered /\ sinceTx + rw1Timer = RECEIVE_DELAY1
  /\ rw2Timer # OFF =>
       /\ Seen /\ rw1Timer = OFF /\ ~answered
       /\ sinceTx >= RECEIVE_DELAY1 /\ sinceTx + rw2Timer = RECEIVE_DELAY2

\* While copies are under way, the server has seen the transmission or none of it.
CopyInv == copies # {} =>
  /\ phase = "cycle" /\ sinceTx = 0 /\ copies \subseteq heardBy /\ uplink.fcnt > 0
  /\ ~answered
  /\ \/ Seen /\ rw1Timer = RECEIVE_DELAY1
     \/ Forgotten /\ rw1Timer = OFF /\ rw2Timer = OFF

AnswerInv == Answering =>
  /\ Seen /\ InWindow /\ copies = {} /\ rw1Timer = OFF /\ rw2Timer = OFF
  /\ downlink.gw \subseteq heardBy

PhaseInv ==
  /\ phase = "idle" => Forgotten
  /\ phase = "heard" => Forgotten \/ sinceSeen = DuplicateWindow
  /\ phase = "cycle" => Forgotten \/ sinceSeen = sinceTx

\* The transmissions, the windows and the timers of the server belong together.
CycleInv ==
  /\ TypeOK /\ QueueInv /\ CounterInv /\ RWTimerInv /\ CopyInv /\ AnswerInv
  /\ PhaseInv

\* Both queues hold the numbers last given, in order; the frame last sent is the head of
\* the device's queue or the one removed last.
UplinkNumbers ==
  /\ Len(devQueue) <= devFCnt
  /\ \A i \in 1..Len(devQueue) : devQueue[i].fcnt = devFCnt - Len(devQueue) + i
  /\ uplink.fcnt = devFCnt - Len(devQueue) + (IF txPkt THEN 1 ELSE 0)
DownlinkNumbers ==
  /\ Len(dsQueue) <= downlinks
  /\ \A i \in 1..Len(dsQueue) : dsQueue[i].id = downlinks - Len(dsQueue) + i

\* The server's counter is that of the latest frame it has heard: a frame is known
\* exactly if the server has heard it.
HeardInv ==
  /\ fCntUp <= uplink.fcnt /\ heard \subseteq 1..fCntUp
  /\ fCntUp > 0 => fCntUp \in heard

ServerInv == CycleInv /\ UplinkNumbers /\ DownlinkNumbers /\ HeardInv

-----------------------------------------------------------------------------
(* Refinement.                                                             *)

\* What is left of the last transmission: a copy the server will take for new, or a
\* timer that will end with its answer.
Exchange ==
  IF rw1Timer # OFF \/ rw2Timer # OFF THEN "heard"
  ELSE IF NewTransmission THEN "sent" ELSE "closed"

OnAir ==
  [kind |-> IF downlink = NoFrame THEN "none"
            ELSE IF downlink.ping THEN "ping" ELSE "answer",
   ack |-> downlink.ack, id |-> downlink.id]

Link == INSTANCE LinkService WITH
  submitted <- devFCnt, finished <- devFCnt - Len(devQueue), tried <- txPkt,
  exchange <- Exchange, known <- heard, owed <- setAck,
  generated <- downlinks, done <- downlinks - Len(dsQueue), onAir <- OnAir

\* Device and server implement LinkService: with their clocks, counters and lists of
\* gateways they have one exchange at a time, finish every frame and every downlink in
\* order, and take an Ack only for what was heard (252-311, 381-449, 574 of
\* lorawan-mac.cc).
ImplementsLink == Link!Spec
=============================================================================
