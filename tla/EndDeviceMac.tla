---------------------------- MODULE EndDeviceMac ----------------------------
(***************************************************************************)
(* The LoRaWANMac object of an end device (lorawan-mac.cc) together with   *)
(* the transceiver it drives (LoRaWANPhy).                                 *)
(*                                                                         *)
(* The program is a discrete-event simulation: a handler runs to           *)
(* completion, and the only concurrency is the order of the events it      *)
(* leaves in the simulator's queue.  Each pending event is a variable that *)
(* holds the time left before it runs, in ticks, or OFF.  Tick advances    *)
(* time and only runs when nothing is due.  Events that are due together   *)
(* run in the order in which they were scheduled, as ns-3 orders them by   *)
(* (timestamp, uid); the guards named ...Due state that order.             *)
(***************************************************************************)
EXTENDS LoRaWANPhy, Integers, Sequences

CONSTANTS
  Bands,            \* sub bands of the RDC object
  DutyCycle,        \* dutyCycleLimit of each sub band
  AirTime,          \* ticks an uplink occupies the channel
  RECEIVE_DELAY1,   \* ticks from the end of an uplink to RW1
  RECEIVE_DELAY2,   \* ticks from the end of an uplink to RW2
  PreambleTime,     \* ticks from opening a window to CheckPhyPreamble
  FrameTimes,       \* ticks a downlink may last, by window
  AckTimeouts,      \* values of ACK_TIMEOUT +- ACK_TIMEOUT_RANDOM
  NbTransCon,       \* DEFAULT_NUMBER_US_TRANSMISSIONS
  NbRep,            \* NbRep attribute: transmissions of an unconfirmed frame
  ConTypes,         \* which frames the application sends (TRUE: confirmed)
  ClassB,           \* TRUE: the application may open beacon and ping slots
  StrayData,        \* TRUE: a downlink for this device without the Ack bit
                    \* may arrive in RW1/RW2 while a CON uplink is pending
  ArrivesWhileClosing,  \* TRUE: a frame may begin between two events of one
                    \* instant, the check of its window and the one that closes it
  MaxRequests, MaxFrames, MaxWindows   \* bounds of the environment

ClassBWindows == {"MAC_BEACON", "MAC_CLASS_B_PACKET"}
Windows == {"MAC_RW1", "MAC_RW2"} \cup ClassBWindows
MacStates == Windows \cup
  {"MAC_IDLE", "MAC_TX", "MAC_WAITFORRW1", "MAC_WAITFORRW2", "MAC_ACK_TIMEOUT"}

Positive == Nat \ {0}

ASSUME WorkloadAssumption ==
  /\ NbTransCon \in Positive /\ NbRep \in Positive
  /\ ConTypes \subseteq BOOLEAN /\ ClassB \in BOOLEAN /\ StrayData \in BOOLEAN
  /\ ArrivesWhileClosing \in BOOLEAN
  /\ MaxRequests \in Nat /\ MaxFrames \in Nat /\ MaxWindows \in Nat

\* At any data rate the preamble (12.25 symbols, 401 ms at SF12) is shorter
\* than RECEIVE_DELAY1 (1 s) and than the shortest Ack time-out (1 s), and a
\* frame lasts longer than its own preamble.
ASSUME TimingAssumption ==
  /\ DutyCycle \in [Bands -> Positive]
  /\ AirTime \in Positive
  /\ RECEIVE_DELAY1 \in Positive /\ RECEIVE_DELAY2 \in Nat
  /\ PreambleTime \in [Windows -> Positive]
  /\ PreambleTime["MAC_RW2"] <= RECEIVE_DELAY1
  /\ FrameTimes \in [Windows -> SUBSET Nat]
  /\ \A w \in Windows : \A t \in FrameTimes[w] : t > PreambleTime[w]
  /\ AckTimeouts \subseteq Nat
  /\ \A t \in AckTimeouts : t > PreambleTime["MAC_RW2"]

VARIABLES
  mac,             \* m_LoRaWANMacState
  trx,             \* m_trxState of the PHY
  txQueue,         \* m_txQueue
  txPkt,           \* m_txPkt # 0: the head of the queue is being sent
  retransmission,  \* m_retransmission
  setMac,          \* m_setMacState: the pending SetLoRaWANMacState event
  checks,          \* pending CheckPhyPreamble events
  ackTimeOut,      \* m_ackTimeOut
  subBandTimer,    \* m_subBandTimers of the RDC object
  bandWait,        \* ticks until IsSubBandAvailable holds
  endTx,           \* the PHY's EndTx event
  endRx,           \* the PHY's EndRx event of the frame being received
  rw2In,           \* m_lastUplinkBitTime + RECEIVE_DELAY2 - now, if >= 0
  requests, frames, windows   \* what the environment has done so far

phyVars  == <<trx, endTx, endRx>>
bandVars == <<subBandTimer, bandWait>>
queueVars == <<txQueue, txPkt, retransmission>>
envVars  == <<requests, frames, windows>>
vars == <<mac, phyVars, queueVars, setMac, checks, ackTimeOut, bandVars,
          rw2In, envVars>>

OFF == -1
NoEvent == [to |-> "none", in |-> OFF]
After(delay, state) == [to |-> state, in |-> delay]
Now(state) == After(0, state)        \* Simulator::ScheduleNow

Transmissions(con) == IF con THEN NbTransCon ELSE NbRep
Request == [con : BOOLEAN, band : Bands, left : Nat]
Confirmed == txPkt /\ Head(txQueue).con

Init ==
  /\ mac = "MAC_IDLE" /\ trx = "TRX_OFF"
  /\ txQueue = <<>> /\ txPkt = FALSE /\ retransmission = 0
  /\ setMac = NoEvent /\ checks = {} /\ ackTimeOut = OFF
  /\ subBandTimer = [b \in Bands |-> OFF] /\ bandWait = [b \in Bands |-> 0]
  /\ endTx = OFF /\ endRx = OFF /\ rw2In = OFF
  /\ requests = 0 /\ frames = 0 /\ windows = 0

-----------------------------------------------------------------------------
(* Which event may run now.                                                *)

CheckDue(c) == c \in checks /\ c.in = 0 /\ ackTimeOut # 0
AllChecksRun == \A c \in checks : c.in # 0
EndRxDue == endRx = 0 /\ ackTimeOut # 0 /\ AllChecksRun
OthersRun ==
  /\ AllChecksRun /\ ackTimeOut # 0 /\ endRx # 0 /\ endTx # 0
  /\ \A b \in Bands : subBandTimer[b] # 0
SetMacDue(state) == setMac = Now(state) /\ OthersRun

-----------------------------------------------------------------------------
(* The RDC object and the transmit queue.                                  *)

NoDutyCycleCheck(b) == TRUE   \* mutant: IsSubBandAvailable is not asked

\* IsSubBandAvailable
Available(b) == bandWait[b] = 0

TimerNotArmed(timers, b) == subBandTimer' = timers   \* mutant

\* ScheduleSubBandTimer: a running timer is left alone.
ArmSubBandTimer(timers, b) ==
  subBandTimer' = IF timers[b] = OFF THEN [timers EXCEPT ![b] = bandWait[b]]
                                     ELSE timers

\* UpdateRDCTimerForSubBand, called when the transmission starts.  A time-off
\* of zero leaves the band available.
UpdateRDC(b) ==
  bandWait' = [bandWait EXCEPT ![b] =
                 IF DutyCycle[b] = 1 THEN 0 ELSE AirTime * DutyCycle[b]]

\* CheckQueue, called once mac' and txQueue' are known.  pkt says whether m_txPkt
\* is set, pending is the m_setMacState event and timers the sub-band timers.
CheckQueue(pkt, pending, timers) ==
  LET head == Head(txQueue')
      maySend == /\ mac' = "MAC_IDLE" /\ txQueue' # <<>>
                 /\ ~pkt /\ pending = NoEvent
  IN \/ /\ maySend /\ Available(head.band)
        /\ txPkt' = TRUE /\ setMac' = Now("MAC_TX") /\ subBandTimer' = timers
     \/ /\ maySend /\ ~Available(head.band)
        /\ ArmSubBandTimer(timers, head.band)
        /\ txPkt' = pkt /\ setMac' = pending
     \/ /\ ~maySend
        /\ txPkt' = pkt /\ setMac' = pending /\ subBandTimer' = timers

\* Mutant: m_retransmission is not reset.
RemoveFirstKeepsCount ==
  txQueue' = Tail(txQueue) /\ txPkt' = FALSE /\ UNCHANGED retransmission

\* RemoveFirstTxQElement
RemoveFirst ==
  txQueue' = Tail(txQueue) /\ txPkt' = FALSE /\ retransmission' = 0

\* Mutant: given up one transmission too early.
ExhaustedEarly == Head(txQueue).con /\ Head(txQueue).left <= 1

\* A confirmed frame has had its last transmission.
Exhausted == Head(txQueue).con /\ Head(txQueue).left = 0

\* CheckRetransmission, in MAC_IDLE with m_txPkt set.
CheckRetransmission(pending, timers) ==
  \/ /\ Exhausted
     /\ txQueue' = Tail(txQueue) /\ retransmission' = 0
     /\ CheckQueue(FALSE, pending, timers)
  \/ /\ ~Exhausted /\ pending = NoEvent /\ Available(Head(txQueue).band)
     /\ retransmission' = retransmission + 1
     /\ setMac' = Now("MAC_TX") /\ subBandTimer' = timers
     /\ UNCHANGED <<txQueue, txPkt>>
  \/ /\ ~Exhausted /\ pending = NoEvent /\ ~Available(Head(txQueue).band)
     /\ ArmSubBandTimer(timers, Head(txQueue).band)
     /\ setMac' = pending
     /\ UNCHANGED queueVars
  \/ /\ ~Exhausted /\ pending # NoEvent
     /\ setMac' = pending /\ subBandTimer' = timers
     /\ UNCHANGED queueVars

\* Mutant: a frame that waits to be sent again is not looked at.
RecheckNewFramesOnly(pending, timers) ==
  UNCHANGED <<txQueue, retransmission>> /\ CheckQueue(txPkt, pending, timers)

\* What an idle MAC and an expired sub-band timer do next.
RecheckQueue(pending, timers) ==
  IF txPkt THEN CheckRetransmission(pending, timers)
           ELSE /\ UNCHANGED <<txQueue, retransmission>>
                /\ CheckQueue(FALSE, pending, timers)

-----------------------------------------------------------------------------
(* Receive windows.                                                        *)

\* OpenRW: the transceiver listens, and the preamble check is scheduled.
OpenRW(w) ==
  /\ mac' = w
  /\ PhyAccepts("RX_ON", trx) /\ trx' = "RX_ON"
  /\ checks' = checks \cup {[of |-> w, in |-> PreambleTime[w]]}

StartAckTimerForAll == ackTimeOut' \in AckTimeouts   \* mutant

\* StartAckTimeoutTimer, at the start of RW2 and only for a confirmed frame.
StartAckTimeoutTimer ==
  IF Confirmed THEN ackTimeOut' \in AckTimeouts ELSE UNCHANGED ackTimeOut

\* Mutant: every window but RW2 is closed the way RW1 is.
CloseLikeRW1(w, ackRunning) ==
  IF w # "MAC_RW2" THEN "MAC_WAITFORRW2"
  ELSE IF Confirmed /\ ackRunning THEN "MAC_ACK_TIMEOUT" ELSE "MAC_IDLE"

\* CloseRW in MAC state w: where the MAC goes next.
CloseTarget(w, ackRunning) ==
  CASE w = "MAC_RW1" -> "MAC_WAITFORRW2"
    [] w = "MAC_RW2" /\ Confirmed /\ ackRunning -> "MAC_ACK_TIMEOUT"
    [] OTHER -> "MAC_IDLE"

CloseRW == setMac' = Now(CloseTarget(mac, ackTimeOut # OFF))

-----------------------------------------------------------------------------
(* SetLoRaWANMacState, one action per target state.                        *)

IdleFrom == Windows \cup {"MAC_TX", "MAC_ACK_TIMEOUT"}

EnterIdle ==
  /\ SetMacDue("MAC_IDLE") /\ mac \in IdleFrom
  /\ mac' = "MAC_IDLE"
  /\ PhyAccepts("TRX_OFF", trx) /\ trx' = "TRX_OFF"
  /\ RecheckQueue(NoEvent, subBandTimer)
  /\ UNCHANGED <<endTx, endRx, checks, ackTimeOut, bandWait, rw2In, envVars>>

\* SetTRXStateConfirm (TX_ON), called synchronously: the duty cycle is updated and
\* PdDataRequest starts the transmission.
TxConfirmed ==
  trx' = "BUSY_TX" /\ endTx' = AirTime /\ UpdateRDC(Head(txQueue).band)

EnterTx ==
  /\ SetMacDue("MAC_TX") /\ mac = "MAC_IDLE" /\ txPkt
  /\ mac' = "MAC_TX" /\ setMac' = NoEvent
  /\ PhyAccepts("TX_ON", trx) /\ TxConfirmed
  /\ UNCHANGED <<endRx, queueVars, checks, ackTimeOut, subBandTimer, rw2In,
                 envVars>>

\* The MAC left MAC_IDLE after the transmission was scheduled: it is cancelled.
TxCancelled ==
  /\ SetMacDue("MAC_TX") /\ mac # "MAC_IDLE"
  /\ setMac' = NoEvent
  /\ UNCHANGED <<mac, phyVars, queueVars, checks, ackTimeOut, bandVars, rw2In,
                 envVars>>

EnterWaitForRW1 ==
  /\ SetMacDue("MAC_WAITFORRW1") /\ mac = "MAC_TX"
  /\ mac' = "MAC_WAITFORRW1"
  /\ PhyAccepts("IDLE", trx) /\ trx' = "IDLE"
  /\ setMac' = After(RECEIVE_DELAY1, "MAC_RW1")
  /\ UNCHANGED <<endTx, endRx, queueVars, checks, ackTimeOut, bandVars, rw2In,
                 envVars>>

EnterRW1 ==
  /\ SetMacDue("MAC_RW1") /\ mac = "MAC_WAITFORRW1"
  /\ OpenRW("MAC_RW1") /\ setMac' = NoEvent
  /\ UNCHANGED <<endTx, endRx, queueVars, ackTimeOut, bandVars, rw2In, envVars>>

RW2MissedAtStart == rw2In \in {OFF, 0}   \* mutant: receiveDelay > 0

\* RW2 should have been opened before now.
RW2Missed == rw2In = OFF

EnterWaitForRW2 ==
  /\ SetMacDue("MAC_WAITFORRW2") /\ mac = "MAC_RW1" /\ ~RW2Missed
  /\ mac' = "MAC_WAITFORRW2"
  /\ PhyAccepts("IDLE", trx) /\ trx' = "IDLE"
  /\ setMac' = After(rw2In, "MAC_RW2")
  /\ UNCHANGED <<endTx, endRx, queueVars, checks, ackTimeOut, bandVars, rw2In,
                 envVars>>

\* A long frame in RW1 ended after RW2 should have started: RW2 is opened and
\* closed at once.  The preamble check of this window stays pending.
MissedRW2 ==
  /\ SetMacDue("MAC_WAITFORRW2") /\ mac = "MAC_RW1" /\ RW2Missed
  /\ PhyAccepts("IDLE", trx)
  /\ mac' = "MAC_RW2" /\ trx' = "RX_ON"
  /\ checks' = checks \cup
       {[of |-> "MAC_RW2", in |-> PreambleTime["MAC_RW2"]]}
  /\ StartAckTimeoutTimer
  /\ setMac' = Now(CloseTarget("MAC_RW2", TRUE))
  /\ UNCHANGED <<endTx, endRx, queueVars, bandVars, rw2In, envVars>>

EnterRW2 ==
  /\ SetMacDue("MAC_RW2") /\ mac = "MAC_WAITFORRW2"
  /\ OpenRW("MAC_RW2") /\ StartAckTimeoutTimer /\ setMac' = NoEvent
  /\ UNCHANGED <<endTx, endRx, queueVars, bandVars, rw2In, envVars>>

EnterAckTimeout ==
  /\ SetMacDue("MAC_ACK_TIMEOUT") /\ mac \in {"MAC_TX", "MAC_RW2"}
  /\ mac' = "MAC_ACK_TIMEOUT" /\ setMac' = NoEvent
  /\ PhyAccepts("TRX_OFF", trx) /\ trx' = "TRX_OFF"
  /\ UNCHANGED <<endTx, endRx, queueVars, checks, ackTimeOut, bandVars, rw2In,
                 envVars>>

-----------------------------------------------------------------------------
(* Timers and PHY callbacks.                                               *)

\* CheckPhyPreamble: no preamble by the end of the preamble time closes the
\* window, in whichever window the MAC happens to be.
CheckPhyPreamble ==
  \E c \in checks :
    /\ CheckDue(c)
    /\ checks' = checks \ {c}
    /\ IF ~PreambleDetected(trx) /\ mac \in Windows THEN CloseRW
                                                   ELSE UNCHANGED setMac
    /\ UNCHANGED <<mac, phyVars, queueVars, ackTimeOut, bandVars, rw2In, envVars>>

AckTimeoutExpired ==
  /\ ackTimeOut = 0 /\ mac \in {"MAC_RW2", "MAC_ACK_TIMEOUT"}
  /\ ackTimeOut' = OFF
  /\ setMac' = IF mac = "MAC_ACK_TIMEOUT" THEN Now("MAC_IDLE") ELSE setMac
  /\ UNCHANGED <<mac, phyVars, queueVars, checks, bandVars, rw2In, envVars>>

\* SubBandTimerExpired -> SubBandTimerCallback
SubBandTimerExpired ==
  \E b \in Bands :
    /\ subBandTimer[b] = 0
    /\ txPkt => mac = "MAC_IDLE"
    /\ UNCHANGED mac
    /\ RecheckQueue(setMac, [subBandTimer EXCEPT ![b] = OFF])
    /\ UNCHANGED <<phyVars, checks, ackTimeOut, bandWait, rw2In, envVars>>

LastRepetition == ~Head(txQueue).con /\ Head(txQueue).left = 1

\* EndTx -> PdDataConfirm.  An unconfirmed frame leaves the queue with its last
\* repetition, a confirmed one stays until it is acknowledged or given up.
PdDataConfirm ==
  /\ endTx = 0 /\ endTx' = OFF
  /\ mac = "MAC_TX" /\ txPkt
  /\ Head(txQueue).con => Head(txQueue).left > 0
  /\ IF LastRepetition
     THEN RemoveFirst
     ELSE /\ txQueue' = [txQueue EXCEPT ![1].left = @ - 1]
          /\ UNCHANGED <<txPkt, retransmission>>
  /\ rw2In' = RECEIVE_DELAY2
  /\ setMac' = Now("MAC_WAITFORRW1")
  /\ UNCHANGED <<mac, trx, endRx, checks, ackTimeOut, bandVars, envVars>>

StaysBusy == trx   \* mutant

\* EndRx leaves BUSY_RX once the MAC has been told.
AfterReception == IF trx = "BUSY_RX" THEN "RX_ON" ELSE trx

ReceptionEnds ==
  /\ EndRxDue /\ endRx' = OFF /\ trx' = AfterReception
  /\ UNCHANGED <<mac, endTx, checks, bandVars, rw2In, envVars>>

AckTimerKept == RemoveFirst /\ UNCHANGED ackTimeOut   \* mutant

\* An Ack confirms and removes the frame being sent.
AckReceived == RemoveFirst /\ ackTimeOut' = OFF

\* PdDataIndication of a downlink for this device, with or without the Ack bit.
\* After RW1, RW2 is skipped.
ReceiveDownlink(ack) ==
  /\ ReceptionEnds
  /\ mac \in Windows \ {"MAC_BEACON"}
  /\ mac \in {"MAC_RW1", "MAC_RW2"} /\ Confirmed => ack \/ StrayData
  /\ IF ack /\ txPkt THEN AckReceived
                     ELSE UNCHANGED <<queueVars, ackTimeOut>>
  /\ setMac' = Now("MAC_IDLE")

\* PdDataIndication of a beacon.
ReceiveBeacon ==
  /\ ReceptionEnds
  /\ mac = "MAC_BEACON"
  /\ setMac' = Now("MAC_IDLE")
  /\ UNCHANGED <<queueVars, ackTimeOut>>

\* PdDataDestroyed, or PdDataIndication of a frame that is not for this device.
ReceiveNothing ==
  /\ ReceptionEnds
  /\ mac \in Windows /\ CloseRW
  /\ UNCHANGED <<queueVars, ackTimeOut>>

-----------------------------------------------------------------------------
(* The environment: the application and the channel.                       *)

\* sendMACPayloadRequest
SendMACPayloadRequest(con, band) ==
  /\ requests < MaxRequests /\ requests' = requests + 1
  /\ UNCHANGED mac
  /\ txQueue' = Append(txQueue,
                  [con |-> con, band |-> band, left |-> Transmissions(con)])
  /\ CheckQueue(txPkt, setMac, subBandTimer)
  /\ UNCHANGED <<phyVars, retransmission, checks, ackTimeOut, bandWait, rw2In,
                 frames, windows>>

\* StartRx of a frame on the channel and data rate the window listens to.  It asks
\* only for RX_ON: the window may have an event pending that closes it at once.
FrameArrives ==
  /\ frames < MaxFrames /\ frames' = frames + 1
  /\ trx = "RX_ON" /\ mac \in Windows
  /\ setMac # NoEvent => ArrivesWhileClosing
  /\ trx' = "BUSY_RX" /\ endRx' \in FrameTimes[mac]
  /\ UNCHANGED <<mac, endTx, queueVars, setMac, checks, ackTimeOut, bandVars,
                 rw2In, requests, windows>>

\* StartReceivingBeacon and StartReceivingClassBPacket of the net device call
\* SetLoRaWANMacState directly.
OpenClassBWindow(w) ==
  /\ ClassB /\ windows < MaxWindows /\ windows' = windows + 1
  /\ IF mac = "MAC_IDLE" THEN OpenRW(w)
                         ELSE UNCHANGED <<mac, trx, checks>>
  /\ UNCHANGED <<endTx, endRx, queueVars, setMac, ackTimeOut, bandVars, rw2In,
                 requests, frames>>

-----------------------------------------------------------------------------
Countdown(t) == IF t > 0 THEN t - 1 ELSE t

NothingDue == OthersRun /\ setMac.in # 0

TimePasses ==
  \/ setMac.in > 0 \/ ackTimeOut > 0 \/ endTx > 0 \/ endRx > 0 \/ checks # {}
  \/ \E b \in Bands : bandWait[b] > 0

\* Time advances to the next tick.  rw2In drops below zero when RW2 is missed.
Tick ==
  /\ NothingDue /\ TimePasses
  /\ setMac' = [setMac EXCEPT !.in = Countdown(@)]
  /\ checks' = {[c EXCEPT !.in = @ - 1] : c \in checks}
  /\ ackTimeOut' = Countdown(ackTimeOut)
  /\ subBandTimer' = [b \in Bands |-> Countdown(subBandTimer[b])]
  /\ bandWait' = [b \in Bands |-> Countdown(bandWait[b])]
  /\ endTx' = Countdown(endTx) /\ endRx' = Countdown(endRx)
  /\ rw2In' = IF rw2In # OFF THEN rw2In - 1 ELSE OFF
  /\ UNCHANGED <<mac, trx, queueVars, envVars>>

System ==
  \/ EnterIdle \/ EnterTx \/ TxCancelled \/ EnterWaitForRW1 \/ EnterRW1
  \/ EnterWaitForRW2 \/ MissedRW2 \/ EnterRW2 \/ EnterAckTimeout
  \/ CheckPhyPreamble \/ AckTimeoutExpired \/ SubBandTimerExpired
  \/ PdDataConfirm \/ ReceiveDownlink(TRUE) \/ ReceiveDownlink(FALSE)
  \/ ReceiveBeacon \/ ReceiveNothing \/ Tick

Environment ==
  \/ \E con \in ConTypes, band \in Bands : SendMACPayloadRequest(con, band)
  \/ FrameArrives
  \/ \E w \in ClassBWindows : OpenClassBWindow(w)

\* A device that has answered every request sleeps.
Asleep ==
  /\ mac = "MAC_IDLE" /\ txQueue = <<>> /\ NothingDue /\ ~TimePasses
  /\ UNCHANGED vars

Next == System \/ Environment \/ Asleep

Spec == Init /\ [][Next]_vars
FairSpec == Spec /\ WF_vars(System)

-----------------------------------------------------------------------------
(* Properties.                                                             *)

\* The state of the MAC, of its PHY and of every pending event has its type.
TypeOK ==
  /\ mac \in MacStates /\ trx \in TrxStates
  /\ txQueue \in Seq(Request) /\ txPkt \in BOOLEAN /\ retransmission \in Nat
  /\ setMac \in [to : MacStates \cup {"none"}, in : Nat \cup {OFF}]
  /\ checks \in SUBSET [of : Windows, in : Nat]
  /\ ackTimeOut \in Nat \cup {OFF}
  /\ subBandTimer \in [Bands -> Nat \cup {OFF}] /\ bandWait \in [Bands -> Nat]
  /\ endTx \in Nat \cup {OFF} /\ endRx \in Nat \cup {OFF}
  /\ rw2In \in Nat \cup {OFF}
  /\ requests \in 0..MaxRequests /\ frames \in 0..MaxFrames
  /\ windows \in 0..MaxWindows

\* lorawan-mac.cc 961: a sub-band timer that expires while a frame is waiting to
\* be sent again finds the MAC in MAC_IDLE.
SubBandTimerMeetsIdle ==
  \A b \in Bands : subBandTimer[b] = 0 /\ txPkt => mac = "MAC_IDLE"

\* lorawan-mac.cc 1307-1310: the Ack time-out only expires in MAC_RW2 or in
\* MAC_ACK_TIMEOUT.
AckTimeoutMeetsItsStates ==
  ackTimeOut = 0 => mac \in {"MAC_RW2", "MAC_ACK_TIMEOUT"}

\* No NS_ASSERT of the end device's MAC fails: whenever a handler is about to
\* run, the MAC is in a state the handler accepts (lorawan-mac.cc 265, 302, 313,
\* 318, 341, 346, 455, 686, 690, 718, 961, 1310).
AssertionsHold ==
  /\ SetMacDue("MAC_IDLE") => mac \in IdleFrom
  /\ SetMacDue("MAC_TX") /\ mac = "MAC_IDLE" => txPkt
  /\ SetMacDue("MAC_WAITFORRW1") => mac = "MAC_TX"
  /\ SetMacDue("MAC_RW1") => mac = "MAC_WAITFORRW1"
  /\ SetMacDue("MAC_WAITFORRW2") => mac = "MAC_RW1"
  /\ SetMacDue("MAC_RW2") => mac = "MAC_WAITFORRW2"
  /\ SetMacDue("MAC_ACK_TIMEOUT") => mac \in {"MAC_TX", "MAC_RW2"}
  /\ EndRxDue => mac \in Windows
  /\ endTx = 0 => /\ mac = "MAC_TX" /\ txPkt
                  /\ Head(txQueue).con => Head(txQueue).left > 0
  /\ SubBandTimerMeetsIdle /\ AckTimeoutMeetsItsStates

\* The same for a Class B device with a duty cycle, which runs into line 961: no
\* other assertion fails, up to that one.
AssertionsButTimer == SubBandTimerMeetsIdle => AssertionsHold

\* No request to the transceiver aborts the program: the MAC's next request is
\* in the transition table of LoRaWANPhy::SetTRXStateRequest.  It needs
\* ~ArrivesWhileClosing: TRX_OFF aborts for a frame that has just begun (line 358).
PhyRequestsLegal ==
  /\ \/ SetMacDue("MAC_IDLE") /\ mac \in IdleFrom
     \/ SetMacDue("MAC_ACK_TIMEOUT")
     => PhyAccepts("TRX_OFF", trx)
  /\ SetMacDue("MAC_TX") /\ mac = "MAC_IDLE" => PhyAccepts("TX_ON", trx)
  /\ SetMacDue("MAC_WAITFORRW1") \/ SetMacDue("MAC_WAITFORRW2")
     => PhyAccepts("IDLE", trx)
  /\ SetMacDue("MAC_RW1") \/ SetMacDue("MAC_RW2") => PhyAccepts("RX_ON", trx)

\* An EventId is never overwritten while its event is pending: m_setMacState by
\* CloseRW, PdDataConfirm or AckTimeoutExpired, m_ackTimeOut at the start of RW2.
\* The lost event could not be cancelled any more.
HandlesNotOverwritten ==
  /\ \A c \in checks : CheckDue(c) /\ mac \in Windows /\ ~PreambleDetected(trx)
                        => setMac = NoEvent
  /\ EndRxDue \/ endTx = 0 => setMac = NoEvent
  /\ ackTimeOut = 0 /\ mac = "MAC_ACK_TIMEOUT" => setMac = NoEvent
  /\ \/ SetMacDue("MAC_RW2")
     \/ SetMacDue("MAC_WAITFORRW2") /\ RW2Missed
     => ackTimeOut = OFF

\* A device with a frame to send always has the event pending that will move it
\* on: in particular an idle device waits for the timer of the sub band its next
\* frame needs, and a listening one for its preamble check or the end of a frame.
NeverStuck ==
  /\ mac = "MAC_IDLE" /\ txQueue # <<>> /\ setMac = NoEvent
     => subBandTimer[Head(txQueue).band] # OFF
  /\ mac = "MAC_TX" => endTx # OFF \/ setMac # NoEvent
  /\ mac \in {"MAC_WAITFORRW1", "MAC_WAITFORRW2"} => setMac # NoEvent
  /\ mac \in Windows => checks # {} \/ endRx # OFF \/ setMac # NoEvent
  /\ mac = "MAC_ACK_TIMEOUT" => ackTimeOut # OFF \/ setMac # NoEvent

\* The Ack time-out belongs to the confirmed frame whose RW2 started it: it never
\* survives into another phase of the device.
AckTimerOwned ==
  ackTimeOut # OFF => Confirmed /\ mac \in {"MAC_RW2", "MAC_ACK_TIMEOUT"}

\* lorawan-mac.h 518-521: m_retransmission is the number of retransmissions already
\* used for the frame on the air.
RetransmissionExact ==
  endTx # OFF =>
    LET head == Head(txQueue)
    IN retransmission = Transmissions(head.con) - head.left

\* A transmission starts only when the sub band of the frame sent is available,
\* however long ago CheckQueue or CheckRetransmission looked.
DutyCycleRespected ==
  [][endTx = OFF /\ endTx' # OFF => bandWait[Head(txQueue).band] = 0]_vars

\* A beacon or ping-slot window that received nothing stays open until its own
\* preamble check: it is not closed by the check of an earlier window.
WindowKeptOpen ==
  mac \in ClassBWindows /\ setMac = Now("MAC_IDLE")
    => \A c \in checks : c.of = mac => c.in = 0

\* Every frame handed to the MAC is eventually sent and answered or given up.
Drains == txQueue # <<>> ~> txQueue = <<>>

\* For a Class B device: unless the program stops at the assertion of line 961.
DrainsOrStops == txQueue # <<>> ~> txQueue = <<>> \/ ~SubBandTimerMeetsIdle

-----------------------------------------------------------------------------
(* The service the MAC implements.                                         *)

\* The transmissions each queued frame already had.
served ==
  [i \in DOMAIN txQueue |->
     [con |-> txQueue[i].con,
      sent |-> Transmissions(txQueue[i].con) - txQueue[i].left]]

Service == INSTANCE UplinkService WITH
  queue <- served, listening <- mac \in {"MAC_RW1", "MAC_RW2"}

\* The MAC implements UplinkService, its fairness included: frames leave the queue
\* in order, none is acknowledged before it was sent, given up before its last
\* transmission or sent once more than allowed, and each is eventually done.
ImplementsService == Service!Spec

-----------------------------------------------------------------------------
(* The inductive invariant, one conjunct per state of the MAC, and what    *)
(* the theorems assume of the environment.                                 *)

\* However late a frame begins in RW1, it ends before RW2 has to be opened.
RW2NeverMissed ==
  LET last == RECEIVE_DELAY1 + PreambleTime["MAC_RW1"]
  IN \A t \in FrameTimes["MAC_RW1"] \cup {0} : last + t <= RECEIVE_DELAY2

\* Confirmed frames are answered with the Ack bit, and a Class B device does not miss
\* RW2: without either, the device runs into the violations of its runs.  No frame
\* begins while its window is being closed: it would abort the program (phy.cc 358).
AnswersInTime ==
  ~StrayData /\ ~ArrivesWhileClosing /\ (ClassB => RW2NeverMissed)

ClassAOnly == ~ClassB /\ ~StrayData /\ ~ArrivesWhileClosing

\* The head of the queue is the only frame that has been sent.  An unconfirmed
\* frame in the queue has repetitions left, and so has a frame about to be sent.
QueueInv ==
  /\ txPkt => txQueue # <<>>
  /\ \A i \in DOMAIN txQueue : ~txQueue[i].con => txQueue[i].left > 0
  /\ \A i \in DOMAIN txQueue : i > 1 \/ ~txPkt => txQueue[i].left > 0
  /\ setMac = Now("MAC_TX") \/ endTx # OFF => Head(txQueue).left > 0

\* A sub-band timer expires when its sub band becomes available.  In Class A it runs
\* only in MAC_IDLE, for the frame at the head of the queue; in Class B windows are
\* opened meanwhile, and in a ping slot that frame may be acknowledged.
TimerInv ==
  \A b \in Bands : subBandTimer[b] # OFF =>
    /\ subBandTimer[b] = bandWait[b]
    /\ ~ClassB => mac = "MAC_IDLE" /\ txQueue # <<>> /\ b = Head(txQueue).band

IdleInv == mac = "MAC_IDLE" =>
  /\ trx = "TRX_OFF" /\ endTx = OFF /\ endRx = OFF /\ ackTimeOut = OFF
  /\ setMac \in {NoEvent, Now("MAC_TX")}
  /\ setMac = Now("MAC_TX") => txPkt /\ Available(Head(txQueue).band)
  /\ setMac = NoEvent /\ txQueue # <<>> => subBandTimer[Head(txQueue).band] # OFF

TxInv == mac = "MAC_TX" =>
  /\ trx = "BUSY_TX" /\ endRx = OFF /\ ackTimeOut = OFF
  /\ \/ endTx # OFF /\ txPkt /\ setMac = NoEvent
     \/ endTx = OFF /\ setMac = Now("MAC_WAITFORRW1")

WaitInv == mac \in {"MAC_WAITFORRW1", "MAC_WAITFORRW2"} =>
  /\ trx = "IDLE" /\ endTx = OFF /\ endRx = OFF /\ ackTimeOut = OFF
  /\ setMac.in # OFF
  /\ setMac.to = IF mac = "MAC_WAITFORRW1" THEN "MAC_RW1" ELSE "MAC_RW2"
  /\ mac = "MAC_WAITFORRW2" => checks = {}

\* An open window waits for its check, then for the end of the frame, and then
\* only for the SetLoRaWANMacState event that leaves it.
WindowInv == mac \in Windows =>
  /\ mac \in ClassBWindows => ClassB
  /\ endTx = OFF
  /\ trx = IF endRx = OFF THEN "RX_ON" ELSE "BUSY_RX"
  /\ setMac # NoEvent =>
       /\ endRx = OFF
       /\ mac = "MAC_RW1" => checks = {} /\ ackTimeOut = OFF
  /\ setMac = NoEvent => checks # {} \/ endRx # OFF
  /\ endRx # OFF => \A c \in checks : c.in < endRx
  /\ \A c, d \in checks : c = d

RW1Inv == mac = "MAC_RW1" =>
  /\ ackTimeOut = OFF
  /\ setMac \in {NoEvent, Now("MAC_WAITFORRW2"), Now("MAC_IDLE")}

\* In RW2 the Ack time-out runs longer than the preamble check; once the window is
\* being left, a check that is still pending (missed RW2) is not due.
RW2Inv == mac = "MAC_RW2" =>
  /\ setMac \in {NoEvent, Now("MAC_ACK_TIMEOUT"), Now("MAC_IDLE")}
  /\ ackTimeOut # OFF => Confirmed /\ \A c \in checks : c.in < ackTimeOut
  /\ setMac = Now("MAC_ACK_TIMEOUT") => ackTimeOut > 0
  /\ setMac = Now("MAC_IDLE") => ackTimeOut = OFF
  /\ setMac # NoEvent => \A c \in checks : c.in > 0
  /\ setMac # NoEvent /\ ClassB => checks = {}

\* A window opened in the instant of a transmission has just begun.
ClassBWindowInv == mac \in ClassBWindows =>
  /\ ackTimeOut = OFF
  /\ setMac \in {NoEvent, Now("MAC_IDLE"), Now("MAC_TX")}
  /\ setMac = Now("MAC_IDLE") => checks = {}
  /\ setMac = Now("MAC_TX") => txPkt /\ checks # {} /\ \A c \in checks : c.in > 0

AckTimeoutInv == mac = "MAC_ACK_TIMEOUT" =>
  /\ trx = "TRX_OFF" /\ endTx = OFF /\ endRx = OFF /\ Confirmed
  /\ \/ ackTimeOut # OFF /\ setMac = NoEvent
     \/ ackTimeOut = OFF /\ setMac = Now("MAC_IDLE")

\* The preamble check left over from a missed RW2 is gone before RW1 opens; in Class B
\* there is none.
StaleCheckInv ==
  /\ mac \in {"MAC_IDLE", "MAC_TX", "MAC_ACK_TIMEOUT", "MAC_RW2"}
     => \A c \in checks : c.in <= PreambleTime["MAC_RW2"]
  /\ mac = "MAC_WAITFORRW1" => \A c \in checks : c.in <= setMac.in
  /\ mac \in {"MAC_RW1"} \cup ClassBWindows => \A c \in checks : c.in <= PreambleTime[mac]
  /\ ClassB => \A c \in checks : c.of = mac

\* What is left of RECEIVE_DELAY2 while RW1 is waited for and open
RW2InTimeInv == ClassB =>
  /\ mac = "MAC_TX" /\ endTx = OFF => rw2In = RECEIVE_DELAY2
  /\ mac = "MAC_WAITFORRW1" => rw2In = setMac.in + RECEIVE_DELAY2 - RECEIVE_DELAY1
  /\ mac = "MAC_RW1" =>
       /\ \A c \in checks :
            rw2In = c.in + RECEIVE_DELAY2 - RECEIVE_DELAY1 - PreambleTime["MAC_RW1"]
       /\ endRx <= rw2In
       /\ setMac # NoEvent => ~RW2Missed

\* The frame at the head is on the air, or is about to be.
Sending == endTx # OFF \/ setMac = Now("MAC_TX")

\* A frame that has not been sent has all of its transmissions left.  The frame being
\* sent has used retransmission + 1 of them, one fewer until its EndTx has run.
CountInv ==
  /\ \A i \in DOMAIN txQueue : i > 1 \/ ~txPkt
       => txQueue[i].left = Transmissions(txQueue[i].con)
  /\ ~txPkt => retransmission = 0
  /\ txPkt => LET head == Head(txQueue)
                  used == Transmissions(head.con) - head.left
              IN retransmission = IF Sending THEN used ELSE used - 1

\* Everything the safety properties of a device rest on.
IInv ==
  /\ TypeOK /\ QueueInv /\ TimerInv /\ IdleInv /\ TxInv /\ WaitInv /\ WindowInv
  /\ RW1Inv /\ RW2Inv /\ ClassBWindowInv /\ AckTimeoutInv /\ StaleCheckInv
  /\ RW2InTimeInv
=============================================================================
