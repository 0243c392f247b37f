------------------------- MODULE EndDeviceMacProofs -------------------------
(***************************************************************************)
(* Safety of an end device of Class A or B for every workload, duty cycle  *)
(* and timing that satisfies the assumptions of EndDeviceMac, and          *)
(* AnswersInTime; what holds in Class A only assumes ClassAOnly.  Both say *)
(* that no frame begins in the instant in which its window is closed.      *)
(***************************************************************************)
EXTENDS EndDeviceMac, TLAPS

USE DEF OFF, Positive, ClassBWindows

\* The frames of the queue and what removing, adding or serving one leaves.
LEMMA QueueFacts ==
  ASSUME NEW q \in Seq(Request), q # <<>>
  PROVE  /\ Head(q) \in Request /\ Head(q) = q[1] /\ 1 \in DOMAIN q
         /\ Tail(q) \in Seq(Request)
         /\ \A i \in DOMAIN Tail(q) : i + 1 \in DOMAIN q /\ Tail(q)[i] = q[i + 1]
         /\ \A i \in DOMAIN q : i \in Nat /\ i > 0 /\ q[i] \in Request
         /\ Tail(q) # <<>> => Head(Tail(q)) = q[2] /\ 2 \in DOMAIN q
  OBVIOUS

\* What appending a frame to the queue leaves.
LEMMA AppendFacts ==
  ASSUME NEW q \in Seq(Request), NEW r \in Request
  PROVE  /\ Append(q, r) \in Seq(Request) /\ Append(q, r) # <<>>
         /\ \A i \in DOMAIN Append(q, r) :
              Append(q, r)[i] = IF i \in DOMAIN q THEN q[i] ELSE r
         /\ Head(Append(q, r)) = IF q = <<>> THEN r ELSE Head(q)
  OBVIOUS

\* The queue after its first frame has used one of its transmissions.
LEMMA ServeFacts ==
  ASSUME NEW q \in Seq(Request), q # <<>>, q[1].left > 0
  PROVE  LET s == [q EXCEPT ![1].left = @ - 1] IN
         /\ s \in Seq(Request) /\ s # <<>> /\ DOMAIN s = DOMAIN q
         /\ Head(s) = [Head(q) EXCEPT !.left = @ - 1]
         /\ \A i \in DOMAIN s : s[i] = IF i = 1 THEN [q[1] EXCEPT !.left = @ - 1]
                                                ELSE q[i]
<1> DEFINE h == [q[1] EXCEPT !.left = @ - 1]
           s == [q EXCEPT ![1] = h]
<1>1. q[1] \in Request /\ 1 \in DOMAIN q /\ Head(q) = q[1]
  OBVIOUS
<1>2. h \in Request
  BY <1>1 DEF Request
<1>3. s \in Seq(Request) /\ DOMAIN s = DOMAIN q
  BY <1>2
<1>4. \A i \in DOMAIN s : s[i] = IF i = 1 THEN h ELSE q[i]
  OBVIOUS
<1>5. s # <<>> /\ Head(s) = h
  BY <1>1, <1>3, <1>4
<1>6. QED
  BY <1>1, <1>3, <1>4, <1>5


\* A scheduled SetLoRaWANMacState event, or none, has the type of setMac.
LEMMA EventFacts ==
  /\ NoEvent \in [to : MacStates \cup {"none"}, in : Nat \cup {OFF}]
  /\ \A s \in MacStates : \A d \in Nat :
       After(d, s) \in [to : MacStates \cup {"none"}, in : Nat \cup {OFF}]
  BY DEF NoEvent, After

\* The time a band stays closed after a transmission is a number of ticks.
LEMMA RDCFacts ==
  ASSUME NEW b \in Bands, bandWait \in [Bands -> Nat], UpdateRDC(b)
  PROVE  bandWait' \in [Bands -> Nat]
<1>1. DutyCycle[b] \in Nat /\ AirTime \in Nat
  BY TimingAssumption
<1>2. AirTime * DutyCycle[b] \in Nat
  BY <1>1
<1>3. QED
  BY <1>2 DEF UpdateRDC

\* An Ack time-out is started for a confirmed frame only, and outlasts the
\* preamble check of RW2.
LEMMA AckTimerFacts ==
  ASSUME StartAckTimeoutTimer, ackTimeOut = OFF
  PROVE  /\ ackTimeOut' \in Nat \cup {OFF}
         /\ ackTimeOut' # OFF =>
              /\ Confirmed /\ ackTimeOut' \in Nat
              /\ ackTimeOut' > PreambleTime["MAC_RW2"]
<1>1. CASE Confirmed
  BY <1>1, TimingAssumption DEF StartAckTimeoutTimer
<1>2. CASE ~Confirmed
  BY <1>2 DEF StartAckTimeoutTimer
<1>3. QED
  BY <1>1, <1>2

\* A device that has just been created satisfies the invariant.
LEMMA InitInv == Init => IInv
<1> SUFFICES ASSUME Init PROVE IInv
  OBVIOUS
<1> USE DEF Init
<1>1. TypeOK
  <2>1. /\ mac \in MacStates /\ trx \in TrxStates
        /\ txPkt \in BOOLEAN /\ retransmission \in Nat
        /\ checks \in SUBSET [of : Windows, in : Nat]
    BY DEF MacStates, TrxStates
  <2>2. txQueue \in Seq(Request)
    OBVIOUS
  <2>3. setMac \in [to : MacStates \cup {"none"}, in : Nat \cup {OFF}]
    BY EventFacts
  <2>4. requests \in 0..MaxRequests /\ frames \in 0..MaxFrames
        /\ windows \in 0..MaxWindows
    BY WorkloadAssumption
  <2>5. QED
    BY <2>1, <2>2, <2>3, <2>4 DEF TypeOK
<1>2. QueueInv /\ TimerInv /\ StaleCheckInv /\ RW2InTimeInv
  BY DEF QueueInv, TimerInv, StaleCheckInv, RW2InTimeInv, NoEvent, Now, After
<1>3. /\ IdleInv /\ TxInv /\ WaitInv /\ WindowInv /\ RW1Inv /\ RW2Inv
      /\ ClassBWindowInv /\ AckTimeoutInv
  BY DEF ClassBWindowInv, IdleInv, TxInv, WaitInv, WindowInv, RW1Inv, RW2Inv, AckTimeoutInv,
         NoEvent, Now, After, Windows
<1>4. QED
  BY <1>1, <1>2, <1>3 DEF IInv

\* A Class B device has no preamble check pending outside its windows.
LEMMA NoStaleChecks ==
  ASSUME TypeOK, StaleCheckInv, ClassB, mac \notin Windows
  PROVE  checks = {}
  BY DEF TypeOK, StaleCheckInv

\* EnterTx keeps the invariant.
LEMMA EnterTxInv == AnswersInTime /\ IInv /\ EnterTx => IInv'
<1> SUFFICES ASSUME AnswersInTime, IInv, EnterTx PROVE IInv'
  OBVIOUS
<1> USE WorkloadAssumption, TimingAssumption
        DEF AnswersInTime, IInv, EnterTx, TxConfirmed, SetMacDue, OthersRun, AllChecksRun,
        NoEvent, Now, After, Windows, Available
<1>1. txQueue # <<>> /\ Head(txQueue) \in Request
  BY QueueFacts DEF QueueInv, TypeOK
<1>2. TypeOK'
  BY <1>1, RDCFacts, EventFacts DEF TypeOK, queueVars, envVars, MacStates,
     TrxStates, Request
<1>3. (QueueInv /\ TimerInv /\ StaleCheckInv)'
  BY <1>1 DEF TypeOK, QueueInv, TimerInv, IdleInv, StaleCheckInv, UpdateRDC,
     queueVars, envVars, Confirmed, WaitInv
<1>4. (IdleInv /\ TxInv /\ WaitInv /\ WindowInv /\ RW1Inv /\ RW2Inv /\ AckTimeoutInv)'
  BY <1>1 DEF TypeOK, IdleInv, TxInv, WaitInv, WindowInv, RW1Inv, RW2Inv,
     AckTimeoutInv, queueVars, envVars
<1>5. (ClassBWindowInv /\ RW2InTimeInv)'
  BY DEF TypeOK, IdleInv, ClassBWindowInv, RW2InTimeInv
<1> QED BY <1>2, <1>3, <1>4, <1>5

\* EnterWaitForRW1 keeps the invariant.
LEMMA EnterWaitForRW1Inv == AnswersInTime /\ IInv /\ EnterWaitForRW1 => IInv'
<1> SUFFICES ASSUME AnswersInTime, IInv, EnterWaitForRW1 PROVE IInv'
  OBVIOUS
<1> USE WorkloadAssumption, TimingAssumption
        DEF AnswersInTime, IInv, SetMacDue, OthersRun, AllChecksRun, NoEvent, Now,
           After,
            Windows, Available, EnterWaitForRW1
<1>1. TypeOK'
  BY EventFacts DEF TypeOK, queueVars, envVars, bandVars, phyVars, MacStates,
     TrxStates
<1>0. ClassB => checks = {}
  BY NoStaleChecks
<1>2. (QueueInv /\ TimerInv /\ StaleCheckInv)'
  BY <1>0 DEF TypeOK, QueueInv, TimerInv, IdleInv, WindowInv, StaleCheckInv, queueVars,
         envVars, bandVars, phyVars, WaitInv, TxInv
<1>3. (IdleInv /\ TxInv /\ WaitInv /\ WindowInv)'
  BY DEF TypeOK, IdleInv, TxInv, WaitInv, WindowInv, StaleCheckInv, queueVars,
     envVars, bandVars, phyVars, QueueInv
<1>4. (RW1Inv /\ RW2Inv /\ AckTimeoutInv)'
  BY DEF TypeOK, WaitInv, WindowInv, RW1Inv, RW2Inv, AckTimeoutInv,
     StaleCheckInv, Confirmed, queueVars, envVars, bandVars, phyVars, QueueInv
<1>5. (ClassBWindowInv /\ RW2InTimeInv)'
  BY DEF TypeOK, IdleInv, TxInv, WaitInv, WindowInv, RW1Inv, RW2Inv, ClassBWindowInv,
     AckTimeoutInv, StaleCheckInv, RW2InTimeInv, RW2Missed, queueVars, envVars, bandVars, phyVars
<1> QED
  BY <1>1, <1>2, <1>3, <1>4, <1>5

\* EnterRW1 keeps the invariant.
LEMMA EnterRW1Inv == AnswersInTime /\ IInv /\ EnterRW1 => IInv'
<1> SUFFICES ASSUME AnswersInTime, IInv, EnterRW1 PROVE IInv'
  OBVIOUS
<1> USE WorkloadAssumption, TimingAssumption
        DEF AnswersInTime, IInv, SetMacDue, OthersRun, AllChecksRun, NoEvent, Now,
           After,
            Windows, Available, EnterRW1, OpenRW
<1>0. checks = {}
  BY DEF TypeOK, StaleCheckInv
<1>a. PreambleTime["MAC_RW1"] \in Nat /\ PreambleTime["MAC_RW1"] > 0
  OBVIOUS
<1>b. checks' = {[of |-> "MAC_RW1", in |-> PreambleTime["MAC_RW1"]]}
  BY <1>0
<1>1. TypeOK'
  BY EventFacts DEF TypeOK, queueVars, envVars, bandVars, phyVars, MacStates,
     TrxStates
<1>2. (QueueInv /\ TimerInv /\ StaleCheckInv)'
  BY DEF TypeOK, QueueInv, TimerInv, IdleInv, WindowInv, StaleCheckInv, queueVars,
         envVars, bandVars, phyVars, WaitInv
<1>3. (IdleInv /\ TxInv /\ WaitInv /\ WindowInv)'
  BY <1>a, <1>b DEF TypeOK, IdleInv, TxInv, WaitInv, WindowInv, StaleCheckInv,
     queueVars, envVars, bandVars, phyVars, QueueInv
<1>4. (RW1Inv /\ RW2Inv /\ AckTimeoutInv)'
  BY DEF TypeOK, WaitInv, WindowInv, RW1Inv, RW2Inv, AckTimeoutInv,
     StaleCheckInv, Confirmed, queueVars, envVars, bandVars, phyVars, QueueInv
<1>5. (ClassBWindowInv /\ RW2InTimeInv)'
  BY DEF TypeOK, IdleInv, TxInv, WaitInv, WindowInv, RW1Inv, RW2Inv, ClassBWindowInv,
     AckTimeoutInv, StaleCheckInv, RW2InTimeInv, RW2Missed, queueVars, envVars, bandVars, phyVars
<1> QED
  BY <1>1, <1>2, <1>3, <1>4, <1>5

\* EnterWaitForRW2 keeps the invariant.
LEMMA EnterWaitForRW2Inv == AnswersInTime /\ IInv /\ EnterWaitForRW2 => IInv'
<1> SUFFICES ASSUME AnswersInTime, IInv, EnterWaitForRW2 PROVE IInv'
  OBVIOUS
<1> USE WorkloadAssumption, TimingAssumption
        DEF AnswersInTime, IInv, SetMacDue, OthersRun, AllChecksRun, NoEvent, Now,
           After,
            Windows, Available, EnterWaitForRW2, RW2Missed
<1>1. TypeOK'
  BY EventFacts DEF TypeOK, queueVars, envVars, bandVars, phyVars, MacStates,
     TrxStates
<1>0. checks = {}
  BY DEF WindowInv
<1>2. (QueueInv /\ TimerInv /\ StaleCheckInv)'
  BY <1>0 DEF TypeOK, QueueInv, TimerInv, IdleInv, WindowInv, StaleCheckInv, queueVars,
         envVars, bandVars, phyVars, WaitInv
<1>3. (IdleInv /\ TxInv /\ WaitInv /\ WindowInv)'
  BY DEF TypeOK, IdleInv, TxInv, WaitInv, WindowInv, StaleCheckInv, queueVars,
     envVars, bandVars, phyVars, QueueInv
<1>4. (RW1Inv /\ RW2Inv /\ AckTimeoutInv)'
  BY DEF TypeOK, WaitInv, WindowInv, RW1Inv, RW2Inv, AckTimeoutInv,
     StaleCheckInv, Confirmed, queueVars, envVars, bandVars, phyVars, QueueInv
<1>5. (ClassBWindowInv /\ RW2InTimeInv)'
  BY DEF TypeOK, IdleInv, TxInv, WaitInv, WindowInv, RW1Inv, RW2Inv, ClassBWindowInv,
     AckTimeoutInv, StaleCheckInv, RW2InTimeInv, RW2Missed, queueVars, envVars, bandVars, phyVars
<1> QED
  BY <1>1, <1>2, <1>3, <1>4, <1>5

\* EnterAckTimeout keeps the invariant.
LEMMA EnterAckTimeoutInv == AnswersInTime /\ IInv /\ EnterAckTimeout => IInv'
<1> SUFFICES ASSUME AnswersInTime, IInv, EnterAckTimeout PROVE IInv'
  OBVIOUS
<1> USE WorkloadAssumption, TimingAssumption
        DEF AnswersInTime, IInv, SetMacDue, OthersRun, AllChecksRun, NoEvent, Now,
           After,
            Windows, Available, EnterAckTimeout
<1>1. TypeOK'
  BY EventFacts DEF TypeOK, queueVars, envVars, bandVars, phyVars, MacStates,
     TrxStates
<1>0. ClassB => checks = {}
  BY NoStaleChecks DEF RW2Inv
<1>2. (QueueInv /\ TimerInv /\ StaleCheckInv)'
  BY <1>0 DEF TypeOK, QueueInv, TimerInv, IdleInv, WindowInv, StaleCheckInv, queueVars,
         envVars, bandVars, phyVars, WaitInv
<1>3. (IdleInv /\ TxInv /\ WaitInv /\ WindowInv)'
  BY DEF TypeOK, IdleInv, TxInv, WaitInv, WindowInv, StaleCheckInv, queueVars,
     envVars, bandVars, phyVars, TxInv
<1>4. (RW1Inv /\ RW2Inv /\ AckTimeoutInv)'
  BY DEF TypeOK, WaitInv, WindowInv, RW1Inv, RW2Inv, AckTimeoutInv,
     StaleCheckInv, Confirmed, queueVars, envVars, bandVars, phyVars, TxInv
<1>5. (ClassBWindowInv /\ RW2InTimeInv)'
  BY DEF TypeOK, IdleInv, TxInv, WaitInv, WindowInv, RW1Inv, RW2Inv, ClassBWindowInv,
     AckTimeoutInv, StaleCheckInv, RW2InTimeInv, RW2Missed, queueVars, envVars, bandVars, phyVars
<1> QED
  BY <1>1, <1>2, <1>3, <1>4, <1>5

\* EnterRW2 keeps the invariant.
LEMMA EnterRW2Inv == AnswersInTime /\ IInv /\ EnterRW2 => IInv'
<1> SUFFICES ASSUME AnswersInTime, IInv, EnterRW2 PROVE IInv'
  OBVIOUS
<1> USE WorkloadAssumption, TimingAssumption
        DEF AnswersInTime, IInv, SetMacDue, OthersRun, AllChecksRun, NoEvent, Now,
           After,
            Windows, Available, EnterRW2, OpenRW
<1>0. checks = {} /\ ackTimeOut = OFF
  BY DEF WaitInv
<1>a. PreambleTime["MAC_RW2"] \in Nat /\ PreambleTime["MAC_RW2"] > 0
  OBVIOUS
<1>b. checks' = {[of |-> "MAC_RW2", in |-> PreambleTime["MAC_RW2"]]}
  BY <1>0
<1>c. /\ ackTimeOut' \in Nat \cup {OFF}
      /\ ackTimeOut' # OFF =>
           Confirmed /\ ackTimeOut' \in Nat /\ ackTimeOut' > PreambleTime["MAC_RW2"]
  BY <1>0, AckTimerFacts
<1>1. TypeOK'
  BY <1>a, <1>b, <1>c, EventFacts DEF TypeOK, queueVars, envVars, bandVars,
     phyVars, MacStates, TrxStates
<1>2. (QueueInv /\ TimerInv /\ StaleCheckInv)'
  BY DEF TypeOK, QueueInv, TimerInv, IdleInv, WindowInv, StaleCheckInv, queueVars,
         envVars, bandVars, phyVars, WaitInv
<1>3. (IdleInv /\ TxInv /\ WaitInv /\ WindowInv)'
  BY DEF TypeOK, IdleInv, TxInv, WaitInv, WindowInv, StaleCheckInv, queueVars,
     envVars, bandVars, phyVars, QueueInv
<1>4. (RW1Inv /\ RW2Inv /\ AckTimeoutInv)'
  BY <1>a, <1>b, <1>c DEF TypeOK, WaitInv, WindowInv, RW1Inv, RW2Inv,
     AckTimeoutInv, StaleCheckInv, Confirmed, queueVars, envVars, bandVars, phyVars,
     QueueInv
<1>5. (ClassBWindowInv /\ RW2InTimeInv)'
  BY <1>a, <1>b, <1>c DEF TypeOK, IdleInv, TxInv, WaitInv, WindowInv, RW1Inv, RW2Inv, ClassBWindowInv,
     AckTimeoutInv, StaleCheckInv, RW2InTimeInv, RW2Missed, queueVars, envVars, bandVars, phyVars
<1> QED
  BY <1>1, <1>2, <1>3, <1>4, <1>5

\* MissedRW2 keeps the invariant.
LEMMA MissedRW2Inv == AnswersInTime /\ IInv /\ MissedRW2 => IInv'
<1> SUFFICES ASSUME AnswersInTime, IInv, MissedRW2 PROVE IInv'
  OBVIOUS
<1> USE WorkloadAssumption, TimingAssumption
        DEF AnswersInTime, IInv, SetMacDue, OthersRun, AllChecksRun, NoEvent, Now,
           After,
            Windows, Available, MissedRW2, CloseTarget, RW2Missed
<1>0. checks = {} /\ ackTimeOut = OFF
  BY DEF WindowInv, RW1Inv
<1>a. PreambleTime["MAC_RW2"] \in Nat /\ PreambleTime["MAC_RW2"] > 0
  OBVIOUS
<1>b. checks' = {[of |-> "MAC_RW2", in |-> PreambleTime["MAC_RW2"]]}
  BY <1>0
<1>c. /\ ackTimeOut' \in Nat \cup {OFF}
      /\ ackTimeOut' # OFF =>
           Confirmed /\ ackTimeOut' \in Nat /\ ackTimeOut' > PreambleTime["MAC_RW2"]
  BY <1>0, AckTimerFacts
<1>d. Confirmed => ackTimeOut' # OFF
  BY DEF StartAckTimeoutTimer
<1>e. ~ClassB
  BY DEF RW2InTimeInv, RW2Missed
<1>1. TypeOK'
  BY <1>a, <1>b, <1>c, EventFacts DEF TypeOK, queueVars, envVars, bandVars,
     phyVars, MacStates, TrxStates
<1>2. (QueueInv /\ TimerInv /\ StaleCheckInv)'
  BY DEF TypeOK, QueueInv, TimerInv, IdleInv, WindowInv, StaleCheckInv, queueVars,
         envVars, bandVars, phyVars, WaitInv, RW1Inv, Confirmed
<1>3. (IdleInv /\ TxInv /\ WaitInv /\ WindowInv)'
  BY <1>a, <1>b DEF TypeOK, IdleInv, TxInv, WaitInv, WindowInv, StaleCheckInv,
     queueVars, envVars, bandVars, phyVars, RW1Inv
<1>4. (RW1Inv /\ RW2Inv /\ AckTimeoutInv)'
  BY <1>a, <1>b, <1>c, <1>d, <1>e DEF TypeOK, WaitInv, WindowInv, RW1Inv, RW2Inv,
     AckTimeoutInv, StaleCheckInv, Confirmed, queueVars, envVars, bandVars, phyVars,
     RW1Inv
<1>5. (ClassBWindowInv /\ RW2InTimeInv)'
  BY <1>a, <1>b, <1>c, <1>d DEF TypeOK, IdleInv, TxInv, WaitInv, WindowInv, RW1Inv, RW2Inv, ClassBWindowInv,
     AckTimeoutInv, StaleCheckInv, RW2InTimeInv, RW2Missed, queueVars, envVars, bandVars, phyVars
<1> QED
  BY <1>1, <1>2, <1>3, <1>4, <1>5

\* TxCancelled keeps the invariant: a window that Class B opened in the meantime
\* stays open.
LEMMA TxCancelledInv == AnswersInTime /\ IInv /\ TxCancelled => IInv'
<1> SUFFICES ASSUME AnswersInTime, IInv, TxCancelled PROVE IInv'
  OBVIOUS
<1> USE DEF IInv, NoEvent, Now, After, Windows
<1>1. /\ setMac = Now("MAC_TX") /\ mac # "MAC_IDLE" /\ setMac' = NoEvent
      /\ UNCHANGED <<mac, phyVars, queueVars, checks, ackTimeOut, bandVars, rw2In,
                     envVars>>
  BY DEF TxCancelled, SetMacDue
<1>2. mac \in ClassBWindows /\ checks # {}
  BY <1>1 DEF TypeOK, MacStates, TxInv, WaitInv, RW1Inv, RW2Inv, ClassBWindowInv,
     AckTimeoutInv
<1>3. TypeOK' /\ QueueInv' /\ TimerInv'
  BY <1>1, EventFacts DEF TypeOK, QueueInv, TimerInv, phyVars, queueVars, bandVars, envVars
<1>4. (WindowInv /\ ClassBWindowInv /\ StaleCheckInv)'
  BY <1>1, <1>2 DEF WindowInv, ClassBWindowInv, StaleCheckInv, phyVars
<1>5. /\ (IdleInv /\ TxInv /\ WaitInv /\ RW1Inv /\ RW2Inv)'
      /\ (AckTimeoutInv /\ RW2InTimeInv)'
  BY <1>1, <1>2 DEF IdleInv, TxInv, WaitInv, RW1Inv, RW2Inv, AckTimeoutInv, RW2InTimeInv
<1>6. QED
  BY <1>3, <1>4, <1>5

\* ReceiveBeacon keeps the invariant.
LEMMA ReceiveBeaconInv == AnswersInTime /\ IInv /\ ReceiveBeacon => IInv'
<1> SUFFICES ASSUME AnswersInTime, IInv, ReceiveBeacon PROVE IInv'
  OBVIOUS
<1> USE DEF IInv, NoEvent, Now, After, Windows
<1>1. /\ mac = "MAC_BEACON" /\ setMac' = Now("MAC_IDLE") /\ endRx' = OFF
      /\ trx' = "RX_ON" /\ endRx = 0
      /\ UNCHANGED <<mac, endTx, queueVars, checks, ackTimeOut, bandVars, rw2In, envVars>>
  BY DEF ReceiveBeacon, ReceptionEnds, AfterReception, EndRxDue, WindowInv
<1>2. checks = {} /\ setMac = NoEvent
  BY <1>1 DEF WindowInv, TypeOK
<1>3. TypeOK' /\ QueueInv' /\ TimerInv'
  BY <1>1, <1>2, EventFacts DEF TypeOK, QueueInv, TimerInv, queueVars, bandVars, envVars,
     TrxStates, MacStates, WindowInv
<1>4. (WindowInv /\ ClassBWindowInv /\ StaleCheckInv)'
  BY <1>1, <1>2 DEF WindowInv, ClassBWindowInv, StaleCheckInv
<1>5. /\ (IdleInv /\ TxInv /\ WaitInv /\ RW1Inv /\ RW2Inv)'
      /\ (AckTimeoutInv /\ RW2InTimeInv)'
  BY <1>1, <1>2 DEF IdleInv, TxInv, WaitInv, RW1Inv, RW2Inv, AckTimeoutInv, RW2InTimeInv
<1>6. QED
  BY <1>3, <1>4, <1>5

\* FrameArrives keeps the invariant.
LEMMA FrameArrivesInv == AnswersInTime /\ IInv /\ FrameArrives => IInv'
<1> SUFFICES ASSUME AnswersInTime, IInv, FrameArrives PROVE IInv'
  OBVIOUS
<1> USE WorkloadAssumption, TimingAssumption
        DEF AnswersInTime, IInv, SetMacDue, OthersRun, AllChecksRun, NoEvent, Now,
           After,
            Windows, Available, FrameArrives
<1>0. /\ mac \in Windows /\ endRx' \in Nat /\ endRx = OFF
      /\ checks # {} /\ \A c \in checks : c.in < endRx'
  <2>1. /\ mac \in Windows /\ endRx' \in Nat /\ endRx' > PreambleTime[mac]
        /\ endRx = OFF /\ checks # {}
    BY DEF WindowInv
  <2>2. \A c \in checks : c.in <= PreambleTime[mac] /\ c.in \in Nat
    BY <2>1 DEF StaleCheckInv, TypeOK
  <2>3. PreambleTime[mac] \in Nat
    OBVIOUS
  <2>4. QED
    BY <2>1, <2>2, <2>3
<1>1. TypeOK'
  BY <1>0, EventFacts DEF TypeOK, queueVars, envVars, bandVars, phyVars,
     MacStates, TrxStates
<1>2. (QueueInv /\ TimerInv /\ StaleCheckInv)'
  BY <1>0 DEF TypeOK, QueueInv, TimerInv, IdleInv, WindowInv, StaleCheckInv,
         WaitInv, queueVars, envVars, bandVars, phyVars
<1>3. (IdleInv /\ TxInv /\ WaitInv /\ WindowInv)'
  BY <1>0 DEF TypeOK, QueueInv, IdleInv, TxInv, WaitInv, WindowInv, StaleCheckInv,
         queueVars, envVars, bandVars, phyVars
<1>4. (RW1Inv /\ RW2Inv /\ AckTimeoutInv)'
  BY <1>0 DEF TypeOK, QueueInv, WaitInv, WindowInv, RW1Inv, RW2Inv, AckTimeoutInv,
         StaleCheckInv, Confirmed, queueVars, envVars, bandVars, phyVars
<1>6. ClassB /\ mac = "MAC_RW1" => endRx' <= rw2In
  <2> SUFFICES ASSUME ClassB, mac = "MAC_RW1" PROVE endRx' <= rw2In
    OBVIOUS
  <2>1. PICK c \in checks : TRUE
    BY <1>0
  <2>2. rw2In = c.in + RECEIVE_DELAY2 - RECEIVE_DELAY1 - PreambleTime["MAC_RW1"]
    BY <2>1 DEF RW2InTimeInv
  <2>3. endRx' \in FrameTimes["MAC_RW1"] /\ c.in \in Nat /\ PreambleTime["MAC_RW1"] \in Nat
    BY <2>1 DEF TypeOK
  <2>4. RECEIVE_DELAY1 + PreambleTime["MAC_RW1"] + endRx' <= RECEIVE_DELAY2
    BY <2>3 DEF RW2NeverMissed
  <2>5. QED
    BY <1>0, <2>2, <2>3, <2>4
<1>5. (ClassBWindowInv /\ RW2InTimeInv)'
  BY <1>0, <1>6 DEF TypeOK, IdleInv, TxInv, WaitInv, WindowInv, RW1Inv, RW2Inv, ClassBWindowInv,
     AckTimeoutInv, StaleCheckInv, RW2InTimeInv, RW2Missed, queueVars, envVars, bandVars, phyVars
<1> QED
  BY <1>1, <1>2, <1>3, <1>4, <1>5

\* AckTimeoutExpired keeps the invariant.
LEMMA AckTimeoutExpiredInv == AnswersInTime /\ IInv /\ AckTimeoutExpired => IInv'
<1> SUFFICES ASSUME AnswersInTime, IInv, AckTimeoutExpired PROVE IInv'
  OBVIOUS
<1> USE WorkloadAssumption, TimingAssumption
        DEF AnswersInTime, IInv, SetMacDue, OthersRun, AllChecksRun, NoEvent, Now,
           After,
            Windows, Available, AckTimeoutExpired
<1>0. mac = "MAC_RW2" => setMac = NoEvent
  BY DEF RW2Inv
<1>1. TypeOK'
  BY EventFacts DEF TypeOK, queueVars, envVars, bandVars, phyVars, MacStates,
     TrxStates
<1>2. (QueueInv /\ TimerInv /\ StaleCheckInv)'
  BY <1>0 DEF TypeOK, QueueInv, TimerInv, IdleInv, WindowInv, StaleCheckInv,
         WaitInv, queueVars, envVars, bandVars, phyVars
<1>3. (IdleInv /\ TxInv /\ WaitInv /\ WindowInv)'
  BY <1>0 DEF TypeOK, QueueInv, IdleInv, TxInv, WaitInv, WindowInv, StaleCheckInv,
         queueVars, envVars, bandVars, phyVars
<1>4. (RW1Inv /\ RW2Inv /\ AckTimeoutInv)'
  BY <1>0 DEF TypeOK, QueueInv, WaitInv, WindowInv, RW1Inv, RW2Inv, AckTimeoutInv,
         StaleCheckInv, Confirmed, queueVars, envVars, bandVars, phyVars
<1>5. (ClassBWindowInv /\ RW2InTimeInv)'
  BY <1>0 DEF TypeOK, IdleInv, TxInv, WaitInv, WindowInv, RW1Inv, RW2Inv, ClassBWindowInv,
     AckTimeoutInv, StaleCheckInv, RW2InTimeInv, RW2Missed, queueVars, envVars, bandVars, phyVars
<1> QED
  BY <1>1, <1>2, <1>3, <1>4, <1>5


\* CheckPhyPreamble keeps the invariant.
LEMMA CheckPhyPreambleInv == AnswersInTime /\ IInv /\ CheckPhyPreamble => IInv'
<1> SUFFICES ASSUME AnswersInTime, IInv, CheckPhyPreamble PROVE IInv'
  OBVIOUS
<1> USE WorkloadAssumption, TimingAssumption
        DEF AnswersInTime, IInv, SetMacDue, OthersRun, AllChecksRun, NoEvent, Now,
           After,
            Windows, Available
<1>a. PICK c \in checks :
        /\ CheckDue(c) /\ checks' = checks \ {c}
        /\ IF ~PreambleDetected(trx) /\ mac \in Windows THEN CloseRW
                                                       ELSE UNCHANGED setMac
  BY DEF CheckPhyPreamble
<1>b. UNCHANGED <<mac, phyVars, queueVars, ackTimeOut, bandVars, rw2In, envVars>>
  BY DEF CheckPhyPreamble
<1>c. checks' \subseteq checks
  BY <1>a
<1>d. mac \in Windows =>
        /\ checks' = {} /\ setMac = NoEvent
        /\ trx = IF endRx = OFF THEN "RX_ON" ELSE "BUSY_RX"
  BY <1>a DEF WindowInv, RW2Inv, ClassBWindowInv, CheckDue
<1>e. endRx # OFF \/ mac \notin Windows => setMac' = setMac
  <2>1. mac \notin Windows => setMac' = setMac
    BY <1>a
  <2>2. mac \in Windows /\ endRx # OFF => setMac' = setMac
    BY <1>a, <1>d DEF PreambleDetected
  <2>3. QED
    BY <2>1, <2>2
<1>f. /\ mac = "MAC_RW1" /\ endRx = OFF => setMac' = Now("MAC_WAITFORRW2")
      /\ mac \in ClassBWindows /\ endRx = OFF => setMac' = Now("MAC_IDLE")
      /\ mac = "MAC_RW2" /\ endRx = OFF =>
           setMac' = Now(IF Confirmed /\ ackTimeOut # OFF THEN "MAC_ACK_TIMEOUT"
                                                          ELSE "MAC_IDLE")
  BY <1>a, <1>d DEF PreambleDetected, CloseRW, CloseTarget
<1>g. /\ setMac' \in [to : MacStates \cup {"none"}, in : Nat \cup {OFF}]
      /\ ackTimeOut # 0
  BY <1>a, <1>d, <1>e, <1>f DEF CheckDue, TypeOK, MacStates
<1>1. TypeOK'
  BY <1>b, <1>c, <1>g, EventFacts DEF TypeOK, queueVars, envVars, bandVars,
     phyVars, MacStates, TrxStates
<1>2. (QueueInv /\ TimerInv /\ StaleCheckInv)'
  BY <1>b, <1>c, <1>d, <1>e, <1>f DEF TypeOK, QueueInv, TimerInv, IdleInv,
     WindowInv, StaleCheckInv,
         WaitInv, queueVars, envVars, bandVars, phyVars
<1>3. (IdleInv /\ TxInv /\ WaitInv /\ WindowInv)'
  BY <1>b, <1>c, <1>d, <1>e, <1>f DEF TypeOK, QueueInv, IdleInv, TxInv, WaitInv,
     WindowInv, RW1Inv,
         StaleCheckInv, queueVars, envVars, bandVars, phyVars
<1>4. (RW1Inv /\ RW2Inv /\ AckTimeoutInv)'
  BY <1>b, <1>c, <1>d, <1>e, <1>f, <1>g DEF TypeOK, QueueInv, WaitInv, WindowInv,
     RW1Inv, RW2Inv, AckTimeoutInv,
         StaleCheckInv, Confirmed, queueVars, envVars, bandVars, phyVars
<1>6. ClassB /\ mac = "MAC_RW1" => rw2In \in Nat
  <2> SUFFICES ASSUME ClassB, mac = "MAC_RW1" PROVE rw2In \in Nat
    OBVIOUS
  <2>1. c \in checks /\ c.in = 0
    BY <1>a DEF CheckDue
  <2>2. rw2In = c.in + RECEIVE_DELAY2 - RECEIVE_DELAY1 - PreambleTime["MAC_RW1"]
    BY <2>1 DEF RW2InTimeInv
  <2>3. RECEIVE_DELAY1 + PreambleTime["MAC_RW1"] + 0 <= RECEIVE_DELAY2
    BY DEF RW2NeverMissed
  <2>4. PreambleTime["MAC_RW1"] \in Nat
    OBVIOUS
  <2>5. QED
    BY <2>1, <2>2, <2>3, <2>4
<1>5. (ClassBWindowInv /\ RW2InTimeInv)'
  BY <1>6, <1>b, <1>c, <1>d, <1>e, <1>f, <1>g DEF TypeOK, IdleInv, TxInv, WaitInv, WindowInv, RW1Inv, RW2Inv, ClassBWindowInv,
     AckTimeoutInv, StaleCheckInv, RW2InTimeInv, RW2Missed, queueVars, envVars, bandVars, phyVars
<1> QED
  BY <1>1, <1>2, <1>3, <1>4, <1>5

\* ReceiveNothing keeps the invariant.
LEMMA ReceiveNothingInv == AnswersInTime /\ IInv /\ ReceiveNothing => IInv'
<1> SUFFICES ASSUME AnswersInTime, IInv, ReceiveNothing PROVE IInv'
  OBVIOUS
<1> USE WorkloadAssumption, TimingAssumption
        DEF AnswersInTime, IInv, SetMacDue, OthersRun, AllChecksRun, NoEvent, Now,
           After,
            Windows, Available, ReceptionEnds, AfterReception, EndRxDue, ReceiveNothing, CloseRW, CloseTarget
<1>a. /\ mac \in Windows /\ checks = {} /\ setMac = NoEvent
      /\ trx = "BUSY_RX" /\ endTx = OFF
  BY DEF WindowInv, TypeOK
<1>b. trx' = "RX_ON" /\ endRx' = OFF /\ UNCHANGED <<mac, endTx, checks, queueVars>>
      /\ setMac' # NoEvent
  BY <1>a
<1>1. TypeOK'
  BY <1>a, EventFacts DEF TypeOK, queueVars, envVars, bandVars, phyVars,
     MacStates, TrxStates
<1>2. (QueueInv /\ TimerInv /\ StaleCheckInv)'
  BY <1>a DEF TypeOK, QueueInv, TimerInv, IdleInv, WindowInv, StaleCheckInv,
         WaitInv, queueVars, envVars, bandVars, phyVars
<1>3. (IdleInv /\ TxInv /\ WaitInv /\ WindowInv)'
  BY <1>a, <1>b DEF TypeOK, QueueInv, IdleInv, TxInv, WaitInv, WindowInv, RW1Inv,
         StaleCheckInv, queueVars, envVars, bandVars, phyVars
<1>4. (RW1Inv /\ RW2Inv /\ AckTimeoutInv)'
  BY <1>a DEF TypeOK, QueueInv, WaitInv, WindowInv, RW1Inv, RW2Inv, AckTimeoutInv,
         StaleCheckInv, Confirmed, queueVars, envVars, bandVars, phyVars
<1>5. (ClassBWindowInv /\ RW2InTimeInv)'
  BY <1>a DEF TypeOK, IdleInv, TxInv, WaitInv, WindowInv, RW1Inv, RW2Inv, ClassBWindowInv,
     AckTimeoutInv, StaleCheckInv, RW2InTimeInv, RW2Missed, queueVars, envVars, bandVars, phyVars
<1> QED
  BY <1>1, <1>2, <1>3, <1>4, <1>5

\* Removing the frame at the head leaves frames that were never sent.
LEMMA RemoveFacts ==
  ASSUME TypeOK, QueueInv, txPkt, RemoveFirst
  PROVE  /\ txQueue' \in Seq(Request) /\ txPkt' = FALSE /\ retransmission' = 0
         /\ \A i \in DOMAIN txQueue' : txQueue'[i].left > 0
<1>1. txQueue # <<>> /\ txQueue \in Seq(Request)
  BY DEF QueueInv, TypeOK
<1>2. \A i \in DOMAIN txQueue' : txQueue'[i].left > 0
  <2> SUFFICES ASSUME NEW i \in DOMAIN txQueue' PROVE txQueue'[i].left > 0
    OBVIOUS
  <2>1. i + 1 \in DOMAIN txQueue /\ txQueue'[i] = txQueue[i + 1] /\ i > 0 /\ i \in Nat
    BY <1>1 DEF RemoveFirst
  <2>2. QED
    BY <2>1 DEF QueueInv
<1>3. QED
  BY <1>1, <1>2 DEF RemoveFirst

\* ReceiveDownlink keeps the invariant.
LEMMA ReceiveDownlinkInv ==
  ASSUME NEW ack \in BOOLEAN
  PROVE  AnswersInTime /\ IInv /\ ReceiveDownlink(ack) => IInv'
<1> SUFFICES ASSUME AnswersInTime, IInv, ReceiveDownlink(ack) PROVE IInv'
  OBVIOUS
<1> USE WorkloadAssumption, TimingAssumption
        DEF AnswersInTime, IInv, SetMacDue, OthersRun, AllChecksRun, NoEvent, Now,
           After,
            Windows, Available, ReceptionEnds, AfterReception, EndRxDue
<1>a. /\ mac \in Windows /\ checks = {} /\ setMac = NoEvent
      /\ trx = "BUSY_RX" /\ endTx = OFF
  BY DEF WindowInv, TypeOK, ReceiveDownlink
<1>b. trx' = "RX_ON" /\ endRx' = OFF /\ UNCHANGED <<mac, endTx, checks>>
      /\ setMac' = Now("MAC_IDLE") /\ UNCHANGED <<bandVars, rw2In, envVars>>
  BY <1>a DEF ReceiveDownlink
<1>c. /\ ackTimeOut' = OFF
      /\ \/ RemoveFirst /\ txPkt
         \/ UNCHANGED queueVars
  <2>1. CASE ack /\ txPkt
    BY <2>1 DEF ReceiveDownlink, AckReceived
  <2>2. CASE ~(ack /\ txPkt)
    BY <1>a, <2>2 DEF ReceiveDownlink, RW1Inv, RW2Inv, ClassBWindowInv, Confirmed
  <2>3. QED
    BY <2>1, <2>2
<1>d. /\ txQueue' \in Seq(Request) /\ txPkt' \in BOOLEAN /\ retransmission' \in Nat
      /\ QueueInv'
  <2>1. CASE RemoveFirst /\ txPkt
    <3>1. /\ txQueue' \in Seq(Request) /\ txPkt' = FALSE /\ retransmission' = 0
          /\ \A i \in DOMAIN txQueue' : txQueue'[i].left > 0
      BY <2>1, RemoveFacts
    <3>2. endTx' = OFF /\ setMac' # Now("MAC_TX")
      BY <1>a, <1>b
    <3>3. QED
      BY <3>1, <3>2 DEF QueueInv
  <2>2. CASE UNCHANGED queueVars
    BY <1>a, <1>b, <2>2 DEF QueueInv, queueVars, TypeOK
  <2>3. QED
    BY <1>c, <2>1, <2>2
<1>1. TypeOK'
  BY <1>a, <1>b, <1>c, <1>d, EventFacts DEF TypeOK, queueVars, envVars, bandVars,
     phyVars, MacStates, TrxStates
<1>2. (QueueInv /\ TimerInv /\ StaleCheckInv)'
  BY <1>a, <1>b, <1>d DEF TypeOK, QueueInv, TimerInv, IdleInv, WindowInv,
     StaleCheckInv,
         WaitInv, queueVars, envVars, bandVars, phyVars
<1>3. (IdleInv /\ TxInv /\ WaitInv /\ WindowInv)'
  BY <1>a, <1>b, <1>c DEF TypeOK, QueueInv, IdleInv, TxInv, WaitInv, WindowInv,
     RW1Inv,
         StaleCheckInv, queueVars, envVars, bandVars, phyVars
<1>4. (RW1Inv /\ RW2Inv /\ AckTimeoutInv)'
  BY <1>a, <1>b, <1>c DEF TypeOK, QueueInv, WaitInv, WindowInv, RW1Inv, RW2Inv,
     AckTimeoutInv,
         StaleCheckInv, Confirmed, queueVars, envVars, bandVars, phyVars
<1>5. (ClassBWindowInv /\ RW2InTimeInv)'
  BY <1>a, <1>b, <1>c DEF TypeOK, IdleInv, TxInv, WaitInv, WindowInv, RW1Inv, RW2Inv, ClassBWindowInv,
     AckTimeoutInv, StaleCheckInv, RW2InTimeInv, RW2Missed, queueVars, envVars, bandVars, phyVars
<1> QED
  BY <1>1, <1>2, <1>3, <1>4, <1>5

\* PdDataConfirm keeps the invariant.
LEMMA PdDataConfirmInv == AnswersInTime /\ IInv /\ PdDataConfirm => IInv'
<1> SUFFICES ASSUME AnswersInTime, IInv, PdDataConfirm PROVE IInv'
  OBVIOUS
<1> USE WorkloadAssumption, TimingAssumption
        DEF AnswersInTime, IInv, SetMacDue, OthersRun, AllChecksRun, NoEvent, Now,
           After,
            Windows, Available
<1>a. /\ endTx = 0 /\ endTx' = OFF /\ mac = "MAC_TX" /\ txPkt
      /\ setMac' = Now("MAC_WAITFORRW1") /\ rw2In' = RECEIVE_DELAY2
      /\ UNCHANGED <<mac, trx, endRx, checks, ackTimeOut, bandVars, envVars>>
  BY DEF PdDataConfirm
<1>b. txQueue # <<>> /\ txQueue \in Seq(Request) /\ txQueue[1].left > 0
      /\ Head(txQueue) = txQueue[1]
  BY <1>a, QueueFacts DEF QueueInv, TypeOK
<1>c. /\ txQueue' \in Seq(Request) /\ txPkt' \in BOOLEAN /\ retransmission' \in Nat
      /\ QueueInv'
  <2>1. CASE LastRepetition
    <3>1. RemoveFirst
      BY <2>1 DEF PdDataConfirm
    <3>2. /\ txQueue' \in Seq(Request) /\ txPkt' = FALSE /\ retransmission' = 0
          /\ \A i \in DOMAIN txQueue' : txQueue'[i].left > 0
      BY <1>a, <3>1, RemoveFacts
    <3>3. QED
      BY <1>a, <3>2 DEF QueueInv
  <2>2. CASE ~LastRepetition
    <3>1. /\ txQueue' = [txQueue EXCEPT ![1].left = @ - 1]
          /\ UNCHANGED <<txPkt, retransmission>>
      BY <2>2 DEF PdDataConfirm
    <3>2. /\ txQueue' \in Seq(Request) /\ txQueue' # <<>>
          /\ DOMAIN txQueue' = DOMAIN txQueue
          /\ \A i \in DOMAIN txQueue' :
               txQueue'[i] = IF i = 1 THEN [txQueue[1] EXCEPT !.left = @ - 1]
                                      ELSE txQueue[i]
      BY <1>b, <3>1, ServeFacts
    <3>3. txQueue[1] \in Request
      BY <1>b, QueueFacts
    <3>4. \A i \in DOMAIN txQueue' : ~txQueue'[i].con => txQueue'[i].left > 0
      <4> SUFFICES ASSUME NEW i \in DOMAIN txQueue', ~txQueue'[i].con
                   PROVE  txQueue'[i].left > 0
        OBVIOUS
      <4>1. CASE i = 1
        <5>1. /\ txQueue'[1].con = txQueue[1].con
              /\ txQueue'[1].left = txQueue[1].left - 1 /\ txQueue[1].left \in Nat
          BY <3>2, <3>3, <4>1 DEF Request
        <5>2. QED
          BY <1>b, <2>2, <4>1, <5>1 DEF LastRepetition
      <4>2. CASE i # 1
        BY <3>2, <4>2 DEF QueueInv
      <4>3. QED
        BY <4>1, <4>2
    <3>5. \A i \in DOMAIN txQueue' : i > 1 => txQueue'[i].left > 0
      BY <3>2 DEF QueueInv
    <3>6. QED
      BY <1>a, <3>1, <3>2, <3>4, <3>5 DEF QueueInv, TypeOK
  <2>3. QED
    BY <2>1, <2>2
<1>1. TypeOK'
  BY <1>a, <1>c, EventFacts DEF TypeOK, queueVars, envVars, bandVars, phyVars,
     MacStates, TrxStates
<1>2. (QueueInv /\ TimerInv /\ StaleCheckInv)'
  BY <1>a, <1>c DEF TypeOK, QueueInv, TimerInv, IdleInv, WindowInv, StaleCheckInv,
         WaitInv, queueVars, envVars, bandVars, phyVars
<1>3. (IdleInv /\ TxInv /\ WaitInv /\ WindowInv)'
  BY <1>a DEF TypeOK, QueueInv, IdleInv, TxInv, WaitInv, WindowInv, RW1Inv,
         StaleCheckInv, queueVars, envVars, bandVars, phyVars
<1>4. (RW1Inv /\ RW2Inv /\ AckTimeoutInv)'
  BY <1>a DEF TypeOK, QueueInv, WaitInv, WindowInv, RW1Inv, RW2Inv, AckTimeoutInv,
         StaleCheckInv, Confirmed, queueVars, envVars, bandVars, phyVars
<1>5. (ClassBWindowInv /\ RW2InTimeInv)'
  BY <1>a DEF TypeOK, IdleInv, TxInv, WaitInv, WindowInv, RW1Inv, RW2Inv, ClassBWindowInv,
     AckTimeoutInv, StaleCheckInv, RW2InTimeInv, RW2Missed, queueVars, envVars, bandVars, phyVars
<1> QED
  BY <1>1, <1>2, <1>3, <1>4, <1>5

\* A tick takes one from every pending event; none of them was due.
OneLess(t, u) == IF t = OFF THEN u = OFF ELSE t > 0 /\ u = t - 1 /\ u \in Nat

TickEffect ==
  /\ UNCHANGED <<mac, trx, txQueue, txPkt, retransmission, requests, frames, windows>>
  /\ \A c \in checks' : \E d \in checks : d.in > 0 /\ c.in = d.in - 1 /\ c.of = d.of
  /\ checks' \in SUBSET [of : Windows, in : Nat]
  /\ checks # {} => checks' # {}
  /\ (\A x, y \in checks : x = y) => \A x, y \in checks' : x = y
  /\ setMac' \in [to : MacStates \cup {"none"}, in : Nat \cup {OFF}]
  /\ setMac'.to = setMac.to /\ OneLess(setMac.in, setMac'.in)
  /\ OneLess(ackTimeOut, ackTimeOut') /\ OneLess(endTx, endTx')
  /\ OneLess(endRx, endRx')
  /\ \A b \in Bands : OneLess(subBandTimer[b], subBandTimer'[b])
  /\ subBandTimer' \in [Bands -> Nat \cup {OFF}]
  /\ \A b \in Bands : bandWait[b] > 0 => bandWait'[b] = bandWait[b] - 1
  /\ bandWait' \in [Bands -> Nat]
  /\ rw2In' \in Nat \cup {OFF} /\ rw2In' = IF rw2In = OFF THEN OFF ELSE rw2In - 1

\* What a tick does to the timers, and which of them may then be due.
LEMMA TickFacts == TypeOK /\ Tick => TickEffect
<1> SUFFICES ASSUME TypeOK, Tick PROVE TickEffect
  OBVIOUS
<1>1. \A c \in checks : c \in [of : Windows, in : Nat] /\ c.in > 0
  BY DEF TypeOK, Tick, NothingDue, OthersRun, AllChecksRun
<1>2. checks' = {[c EXCEPT !.in = @ - 1] : c \in checks}
  BY DEF Tick
<1>3. \A c \in checks' : \E d \in checks : c = [d EXCEPT !.in = @ - 1]
  BY <1>2
<1>4. \A c \in checks' : c \in [of : Windows, in : Nat] /\
                         \E d \in checks : d.in > 0 /\ c.in = d.in - 1 /\ c.of = d.of
  <2> SUFFICES ASSUME NEW c \in checks'
               PROVE  c \in [of : Windows, in : Nat] /\
                      \E d \in checks : d.in > 0 /\ c.in = d.in - 1 /\ c.of = d.of
    OBVIOUS
  <2>1. PICK d \in checks : c = [d EXCEPT !.in = @ - 1]
    BY <1>3
  <2>2. d \in [of : Windows, in : Nat] /\ d.in > 0
    BY <1>1
  <2>3. QED
    BY <2>1, <2>2
<1>5. checks # {} => checks' # {}
  BY <1>2
<1>6. (\A x, y \in checks : x = y) => \A x, y \in checks' : x = y
  BY <1>3
<1>7. \A t : t \in Nat \cup {OFF} /\ t # 0 => OneLess(t, Countdown(t))
  BY DEF OneLess, Countdown
<1>8. /\ setMac' \in [to : MacStates \cup {"none"}, in : Nat \cup {OFF}]
      /\ setMac'.to = setMac.to /\ OneLess(setMac.in, setMac'.in)
  <2>1. /\ setMac \in [to : MacStates \cup {"none"}, in : Nat \cup {OFF}]
        /\ setMac' = [setMac EXCEPT !.in = Countdown(@)] /\ setMac.in # 0
    BY DEF TypeOK, Tick, NothingDue
  <2>2. Countdown(setMac.in) \in Nat \cup {OFF}
    BY <2>1 DEF Countdown
  <2>3. setMac'.in = Countdown(setMac.in)
    BY <2>1
  <2>4. OneLess(setMac.in, setMac'.in)
    BY <1>7, <2>1, <2>3
  <2>5. QED
    BY <2>1, <2>2, <2>4
<1>9. /\ OneLess(ackTimeOut, ackTimeOut') /\ OneLess(endTx, endTx')
      /\ OneLess(endRx, endRx')
  BY <1>7 DEF TypeOK, Tick, NothingDue, OthersRun
<1>10. /\ \A b \in Bands : OneLess(subBandTimer[b], subBandTimer'[b])
       /\ subBandTimer' \in [Bands -> Nat \cup {OFF}]
  <2>1. subBandTimer' = [b \in Bands |-> Countdown(subBandTimer[b])]
    BY DEF Tick
  <2>2. \A b \in Bands : subBandTimer[b] \in Nat \cup {OFF} /\ subBandTimer[b] # 0
    BY DEF Tick, NothingDue, OthersRun, TypeOK
  <2>3. \A b \in Bands : OneLess(subBandTimer[b], subBandTimer'[b])
    BY <1>7, <2>1, <2>2
  <2>4. \A b \in Bands : Countdown(subBandTimer[b]) \in Nat \cup {OFF}
    BY <2>2 DEF Countdown
  <2>5. QED
    BY <2>1, <2>3, <2>4
<1>11. /\ \A b \in Bands : bandWait[b] > 0 => bandWait'[b] = bandWait[b] - 1
       /\ bandWait' \in [Bands -> Nat] /\ rw2In' \in Nat \cup {OFF}
       /\ rw2In' = IF rw2In = OFF THEN OFF ELSE rw2In - 1
  BY DEF Tick, TypeOK, Countdown
<1>12. UNCHANGED <<mac, trx, txQueue, txPkt, retransmission, requests, frames, windows>>
  BY DEF Tick, queueVars, envVars
<1>13. checks' \in SUBSET [of : Windows, in : Nat]
  BY <1>4
<1>14. QED
  BY <1>4, <1>5, <1>6, <1>8, <1>9, <1>10, <1>11, <1>12, <1>13 DEF TickEffect

\* Tick keeps the invariant.
LEMMA TickInv == AnswersInTime /\ IInv /\ Tick => IInv'
<1> SUFFICES ASSUME AnswersInTime, IInv, Tick PROVE IInv'
  OBVIOUS
<1> USE WorkloadAssumption, TimingAssumption
        DEF AnswersInTime, IInv, NoEvent, Now, After, Windows, Available, OneLess
<1>1. TickEffect
  BY TickFacts
<1>2. TypeOK'
  BY <1>1 DEF TypeOK, TickEffect
<1>3. (setMac = NoEvent) <=> (setMac' = NoEvent)
  BY <1>1 DEF TypeOK, TickEffect
<1>4. setMac = NoEvent \/ mac \in {"MAC_WAITFORRW1", "MAC_WAITFORRW2"}
  BY <1>1 DEF TypeOK, MacStates, IdleInv, TxInv, WindowInv, RW1Inv, RW2Inv,
         ClassBWindowInv, AckTimeoutInv, TickEffect
<1>5. QueueInv'
  BY <1>1, <1>3, <1>4 DEF QueueInv, WaitInv, TickEffect
<1>6. TimerInv'
  BY <1>1 DEF TimerInv, TickEffect, TypeOK
<1>7. StaleCheckInv'
  BY <1>1, <1>2 DEF StaleCheckInv, WaitInv, TypeOK, TickEffect
<1>8. (IdleInv /\ TxInv)'
  <2>1. txQueue # <<>> => Head(txQueue).band \in Bands
    BY QueueFacts DEF TypeOK, Request
  <2>2. IdleInv'
    BY <1>1, <1>3, <1>4, <2>1 DEF IdleInv, TickEffect
  <2>3. TxInv'
    BY <1>1, <1>3, <1>4 DEF TxInv, TickEffect
  <2>4. QED
    BY <2>2, <2>3
<1>9. (WaitInv)'
  BY <1>1, <1>2 DEF WaitInv, TypeOK, TickEffect
<1>10. WindowInv'
  BY <1>1, <1>2, <1>3, <1>4 DEF WindowInv, TypeOK, TickEffect
<1>11. (RW1Inv /\ RW2Inv)'
  BY <1>1, <1>2, <1>3, <1>4 DEF RW1Inv, RW2Inv, TypeOK, TickEffect, Confirmed
<1>12. AckTimeoutInv'
  BY <1>1, <1>2, <1>3, <1>4 DEF AckTimeoutInv, TypeOK, TickEffect, Confirmed
<1>13. ClassBWindowInv'
  BY <1>1, <1>3, <1>4 DEF ClassBWindowInv, TickEffect
<1>14. RW2InTimeInv'
  <2> SUFFICES ASSUME ClassB PROVE RW2InTimeInv'
    BY DEF RW2InTimeInv
  <2>1. /\ PreambleTime["MAC_RW1"] \in Nat
        /\ RECEIVE_DELAY1 + PreambleTime["MAC_RW1"] + 0 <= RECEIVE_DELAY2
    BY DEF RW2NeverMissed
  <2>2. mac = "MAC_TX" => endTx' # OFF
    BY <1>1, <1>4 DEF TxInv, TickEffect, TypeOK
  <2>3. mac = "MAC_WAITFORRW1"
          => rw2In' = setMac'.in + RECEIVE_DELAY2 - RECEIVE_DELAY1
    BY <1>1, <2>1 DEF WaitInv, RW2InTimeInv, TickEffect, TypeOK
  <2>4. ASSUME mac = "MAC_RW1"
        PROVE  /\ \A c \in checks' : rw2In' =
                   c.in + RECEIVE_DELAY2 - RECEIVE_DELAY1 - PreambleTime["MAC_RW1"]
               /\ endRx' <= rw2In' /\ setMac' = NoEvent
    <3>1. ASSUME NEW c \in checks'
          PROVE  rw2In' = c.in + RECEIVE_DELAY2 - RECEIVE_DELAY1 - PreambleTime["MAC_RW1"]
      <4>1. PICK d \in checks : d.in > 0 /\ c.in = d.in - 1
        BY <1>1 DEF TickEffect
      <4>2. rw2In = d.in + RECEIVE_DELAY2 - RECEIVE_DELAY1 - PreambleTime["MAC_RW1"]
        BY <2>4, <4>1 DEF RW2InTimeInv
      <4>3. d.in \in Nat
        BY <4>1 DEF TypeOK
      <4>4. QED
        BY <1>1, <2>1, <4>1, <4>2, <4>3 DEF TickEffect
    <3>2. endRx' <= rw2In'
      BY <1>1, <2>4 DEF RW2InTimeInv, TickEffect, TypeOK
    <3>3. QED
      BY <1>3, <1>4, <2>4, <3>1, <3>2
  <2>5. QED
    BY <1>1, <2>2, <2>3, <2>4 DEF RW2InTimeInv, TickEffect
<1>15. QED
  BY <1>13, <1>14, <1>2, <1>5, <1>6, <1>7, <1>8, <1>9, <1>10, <1>11, <1>12

\* An idle device that has looked at its queue is either about to send the frame
\* at the head or has a timer running for the sub band that frame needs.
IdleOutcome ==
  /\ txQueue' \in Seq(Request) /\ txPkt' \in BOOLEAN /\ retransmission' \in Nat
  /\ setMac' \in {NoEvent, Now("MAC_TX")}
  /\ subBandTimer' \in [Bands -> Nat \cup {OFF}]
  /\ txPkt' => txQueue' # <<>>
  /\ setMac' = Now("MAC_TX") =>
       txPkt' /\ Available(Head(txQueue').band) /\ Head(txQueue').left > 0
  /\ setMac' = NoEvent /\ txQueue' # <<>>
       => subBandTimer'[Head(txQueue').band] # OFF
  /\ \A b \in Bands : subBandTimer'[b] # OFF =>
       /\ subBandTimer'[b] = bandWait[b]
       /\ ~ClassB => txQueue' # <<>> /\ b = Head(txQueue').band
  /\ \A i \in DOMAIN txQueue' : ~txQueue'[i].con => txQueue'[i].left > 0
  /\ \A i \in DOMAIN txQueue' : i > 1 \/ ~txPkt' => txQueue'[i].left > 0

\* The sub-band timers that may be running when the queue is looked at again.
OtherTimers(timers) ==
  /\ timers \in [Bands -> Nat \cup {OFF}]
  /\ \A b \in Bands : timers[b] # OFF => ClassB /\ timers[b] = bandWait[b]

\* A sub band's timer runs from then on, to the end of the sub band's time-off.
LEMMA ArmFacts ==
  ASSUME TypeOK, NEW timers, OtherTimers(timers), NEW b \in Bands,
         ArmSubBandTimer(timers, b)
  PROVE  /\ subBandTimer' \in [Bands -> Nat \cup {OFF}] /\ subBandTimer'[b] # OFF
         /\ \A a \in Bands : subBandTimer'[a] # OFF =>
              subBandTimer'[a] = bandWait[a] /\ (ClassB \/ a = b)
<1>1. bandWait[b] \in Nat
  BY DEF TypeOK
<1>2. CASE timers[b] = OFF
  <2>1. subBandTimer' = [timers EXCEPT ![b] = bandWait[b]]
    BY <1>2 DEF ArmSubBandTimer
  <2>2. \A a \in Bands : subBandTimer'[a] = IF a = b THEN bandWait[b] ELSE timers[a]
    BY <2>1 DEF OtherTimers
  <2>3. subBandTimer' \in [Bands -> Nat \cup {OFF}]
    BY <1>1, <2>1 DEF OtherTimers
  <2>4. QED
    BY <1>1, <2>2, <2>3 DEF OtherTimers
<1>3. CASE timers[b] # OFF
  BY <1>3 DEF ArmSubBandTimer, OtherTimers
<1>4. QED
  BY <1>2, <1>3

\* CheckQueue of an idle device: timers of other sub bands run in Class B only.
LEMMA CheckQueueFacts ==
  ASSUME TypeOK, NEW timers, OtherTimers(timers),
         mac' = "MAC_IDLE", txQueue' \in Seq(Request), retransmission' \in Nat,
         \A i \in DOMAIN txQueue' : txQueue'[i].left > 0,
         CheckQueue(FALSE, NoEvent, timers)
  PROVE  IdleOutcome
<1> DEFINE head == Head(txQueue')
<1>1. CASE txQueue' = <<>>
  <2>1. txPkt' = FALSE /\ setMac' = NoEvent /\ subBandTimer' = timers
    BY <1>1 DEF CheckQueue
  <2>2. QED
    BY <1>1, <2>1 DEF IdleOutcome, OtherTimers, NoEvent, Now, After
<1>2. CASE txQueue' # <<>>
  <2>1. head \in Request /\ head = txQueue'[1] /\ 1 \in DOMAIN txQueue'
    BY <1>2, QueueFacts
  <2>2. head.band \in Bands /\ head.left > 0
    BY <2>1 DEF Request
  <2>3. CASE Available(head.band)
    <3>1. txPkt' = TRUE /\ setMac' = Now("MAC_TX") /\ subBandTimer' = timers
      BY <1>2, <2>3 DEF CheckQueue
    <3>2. QED
      BY <1>2, <2>2, <2>3, <3>1 DEF IdleOutcome, OtherTimers, NoEvent, Now, After
  <2>4. CASE ~Available(head.band)
    <3>1. txPkt' = FALSE /\ setMac' = NoEvent /\ ArmSubBandTimer(timers, head.band)
      BY <1>2, <2>4 DEF CheckQueue
    <3>2. /\ subBandTimer' \in [Bands -> Nat \cup {OFF}]
          /\ subBandTimer'[head.band] # OFF
          /\ \A a \in Bands : subBandTimer'[a] # OFF =>
               subBandTimer'[a] = bandWait[a] /\ (ClassB \/ a = head.band)
      BY <2>2, <3>1, ArmFacts
    <3>3. setMac' # Now("MAC_TX")
      BY <3>1 DEF NoEvent, Now, After
    <3>4. QED
      BY <1>2, <3>1, <3>2, <3>3 DEF IdleOutcome
  <2>5. QED
    BY <2>3, <2>4
<1>3. QED
  BY <1>1, <1>2

\* RecheckQueue of an idle device with no timer running.
LEMMA RecheckFacts ==
  ASSUME TypeOK, QueueInv, NEW timers, OtherTimers(timers),
         mac' = "MAC_IDLE", NEW pending \in {NoEvent, Now("MAC_TX")},
         pending = Now("MAC_TX") =>
           txPkt /\ Available(Head(txQueue).band) /\ Head(txQueue).left > 0,
         RecheckQueue(pending, timers)
  PROVE  IdleOutcome
<1>1. CASE ~txPkt
  <2>1. pending = NoEvent
    BY <1>1
  <2>2. /\ UNCHANGED <<txQueue, retransmission>>
        /\ CheckQueue(FALSE, NoEvent, timers)
    BY <1>1, <2>1 DEF RecheckQueue
  <2>3. \A i \in DOMAIN txQueue : txQueue[i].left > 0
    BY <1>1 DEF QueueInv
  <2>4. txQueue \in Seq(Request) /\ retransmission \in Nat
    BY DEF TypeOK
  <2>5. QED
    BY <2>2, <2>3, <2>4, CheckQueueFacts
<1>2. CASE txPkt
  <2>1. CheckRetransmission(pending, timers)
    BY <1>2 DEF RecheckQueue
  <2>2. txQueue # <<>> /\ txQueue \in Seq(Request) /\ Head(txQueue) = txQueue[1]
        /\ Head(txQueue) \in Request
    BY <1>2, QueueFacts DEF QueueInv, TypeOK
  <2>3. CASE Exhausted
    <3>1. pending = NoEvent
      BY <2>3 DEF Exhausted
    <3>2. /\ txQueue' = Tail(txQueue) /\ retransmission' = 0
          /\ CheckQueue(FALSE, NoEvent, timers)
      BY <2>1, <2>3, <3>1 DEF CheckRetransmission
    <3>3. /\ txQueue' \in Seq(Request)
          /\ \A i \in DOMAIN txQueue' : txQueue'[i].left > 0
      <4> SUFFICES ASSUME NEW i \in DOMAIN txQueue' PROVE txQueue'[i].left > 0
        BY <2>2, <3>2
      <4>1. i + 1 \in DOMAIN txQueue /\ txQueue'[i] = txQueue[i + 1] /\ i > 0 /\ i \in Nat
        BY <2>2, <3>2
      <4>2. QED
        BY <4>1 DEF QueueInv
    <3>4. QED
      BY <3>2, <3>3, CheckQueueFacts
  <2>4. CASE ~Exhausted
    <3>1. Head(txQueue).left > 0 /\ Head(txQueue).band \in Bands
      <4>1. 1 \in DOMAIN txQueue /\ Head(txQueue).left \in Nat
        BY <2>2 DEF Request
      <4>2. QED
        BY <2>2, <2>4, <4>1 DEF QueueInv, Exhausted, Request
    <3>2. CASE pending = NoEvent /\ Available(Head(txQueue).band)
      <4>1. /\ retransmission' = retransmission + 1
            /\ setMac' = Now("MAC_TX") /\ subBandTimer' = timers
            /\ UNCHANGED <<txQueue, txPkt>>
        BY <2>1, <2>4, <3>2 DEF CheckRetransmission
      <4>2. QED
        BY <1>2, <2>2, <3>1, <3>2, <4>1
           DEF IdleOutcome, OtherTimers, NoEvent, Now, After, TypeOK, QueueInv
    <3>3. CASE pending = NoEvent /\ ~Available(Head(txQueue).band)
      <4>1. /\ ArmSubBandTimer(timers, Head(txQueue).band)
            /\ setMac' = NoEvent /\ UNCHANGED queueVars
        BY <2>1, <2>4, <3>3 DEF CheckRetransmission
      <4>2. /\ subBandTimer' \in [Bands -> Nat \cup {OFF}]
            /\ subBandTimer'[Head(txQueue).band] # OFF
            /\ \A a \in Bands : subBandTimer'[a] # OFF =>
                 subBandTimer'[a] = bandWait[a] /\ (ClassB \/ a = Head(txQueue).band)
        BY <3>1, <4>1, ArmFacts
      <4>3. QED
        BY <1>2, <2>2, <3>1, <4>1, <4>2
           DEF IdleOutcome, NoEvent, Now, After, TypeOK, QueueInv, queueVars
    <3>4. CASE pending = Now("MAC_TX")
      <4>1. setMac' = pending /\ subBandTimer' = timers /\ UNCHANGED queueVars
        BY <2>1, <2>4, <3>4 DEF CheckRetransmission, NoEvent, Now, After
      <4>2. QED
        BY <1>2, <2>2, <3>1, <3>4, <4>1
           DEF IdleOutcome, OtherTimers, NoEvent, Now, After, TypeOK, QueueInv, queueVars
    <3>5. QED
      BY <3>2, <3>3, <3>4
  <2>5. QED
    BY <2>3, <2>4
<1>3. QED
  BY <1>1, <1>2

\* What is left to show of a step that ends in MAC_IDLE.
LEMMA IdleOutcomeInv ==
  ASSUME IdleOutcome, mac' = "MAC_IDLE", trx' = "TRX_OFF", endTx' = OFF, endRx' = OFF,
         ackTimeOut' = OFF, UNCHANGED <<checks, bandWait, rw2In>>, TypeOK,
         \A c \in checks : c.in <= PreambleTime["MAC_RW2"], ClassB => checks = {},
         requests' \in 0..MaxRequests, frames' \in 0..MaxFrames,
         windows' \in 0..MaxWindows
  PROVE  IInv'
<1>1. TypeOK'
  <2>1. mac' \in MacStates /\ trx' \in TrxStates
    BY DEF MacStates, TrxStates
  <2>2. setMac' \in [to : MacStates \cup {"none"}, in : Nat \cup {OFF}]
    BY DEF IdleOutcome, NoEvent, Now, After, MacStates
  <2>3. QED
    BY <2>1, <2>2 DEF IdleOutcome, TypeOK
<1>2. QueueInv' /\ TimerInv'
  BY DEF IdleOutcome, QueueInv, TimerInv
<1>3. IdleInv'
  BY DEF IdleOutcome, IdleInv, Available
<1>4. /\ (TxInv /\ WaitInv /\ WindowInv /\ RW1Inv /\ RW2Inv)'
      /\ (ClassBWindowInv /\ AckTimeoutInv /\ RW2InTimeInv)'
  BY DEF ClassBWindowInv, RW2InTimeInv, TxInv, WaitInv, WindowInv, RW1Inv, RW2Inv, AckTimeoutInv, Windows
<1>5. StaleCheckInv'
  BY DEF StaleCheckInv
<1>6. QED
  BY <1>1, <1>2, <1>3, <1>4, <1>5 DEF IInv

\* EnterIdle keeps the invariant.
LEMMA EnterIdleInv == AnswersInTime /\ IInv /\ EnterIdle => IInv'
<1> SUFFICES ASSUME AnswersInTime, IInv, EnterIdle PROVE IInv'
  OBVIOUS
<1> USE DEF IInv
<1>1. setMac = Now("MAC_IDLE") /\ mac \in IdleFrom /\ OthersRun
  BY DEF EnterIdle, SetMacDue
<1>2. /\ mac \in Windows \cup {"MAC_ACK_TIMEOUT"}
      /\ endTx = OFF /\ endRx = OFF /\ ackTimeOut = OFF
  BY <1>1 DEF IdleFrom, Windows, TxInv, WindowInv, RW1Inv, RW2Inv, ClassBWindowInv,
     AckTimeoutInv, NoEvent, Now, After
<1>3. /\ \A c \in checks : c.in <= PreambleTime["MAC_RW2"]
      /\ ClassB => checks = {}
  <2>1. CASE mac = "MAC_ACK_TIMEOUT"
    BY <2>1, NoStaleChecks DEF StaleCheckInv, Windows
  <2>2. CASE mac \in Windows
    BY <1>1, <2>2 DEF StaleCheckInv, WindowInv, RW2Inv, ClassBWindowInv, Windows,
       NoEvent, Now, After
  <2>3. QED
    BY <1>2, <2>1, <2>2
<1>4. OtherTimers(subBandTimer)
  BY <1>2 DEF OtherTimers, TimerInv, TypeOK, Windows
<1>5. /\ mac' = "MAC_IDLE" /\ trx' = "TRX_OFF"
      /\ RecheckQueue(NoEvent, subBandTimer)
      /\ UNCHANGED <<endTx, endRx, checks, ackTimeOut, bandWait, rw2In, envVars>>
  BY DEF EnterIdle
<1>6. IdleOutcome
  BY <1>4, <1>5, RecheckFacts DEF NoEvent, Now, After
<1>7. QED
  BY <1>2, <1>3, <1>5, <1>6, IdleOutcomeInv DEF TypeOK, envVars

\* SubBandTimerExpired keeps the invariant.
LEMMA SubBandTimerExpiredInv == AnswersInTime /\ IInv /\ SubBandTimerExpired => IInv'
<1> SUFFICES ASSUME AnswersInTime, IInv, SubBandTimerExpired PROVE IInv'
  OBVIOUS
<1> USE DEF IInv
<1>1. PICK b \in Bands :
        /\ subBandTimer[b] = 0 /\ UNCHANGED mac /\ (txPkt => mac = "MAC_IDLE")
        /\ RecheckQueue(setMac, [subBandTimer EXCEPT ![b] = OFF])
        /\ UNCHANGED <<phyVars, checks, ackTimeOut, bandWait, rw2In, envVars>>
  BY DEF SubBandTimerExpired
<1> DEFINE timers == [subBandTimer EXCEPT ![b] = OFF]
<1>2. /\ timers \in [Bands -> Nat \cup {OFF}]
      /\ \A a \in Bands : timers[a] = IF a = b THEN OFF ELSE subBandTimer[a]
  BY DEF TypeOK
<1>3. \A a \in Bands : subBandTimer[a] # OFF =>
        subBandTimer[a] = bandWait[a] /\ (ClassB \/ a = b)
  BY <1>1 DEF TimerInv
<1> HIDE DEF timers
<1>4. OtherTimers(timers)
  BY <1>2, <1>3 DEF OtherTimers
<1>5. CASE mac = "MAC_IDLE"
  <2>1. /\ setMac \in {NoEvent, Now("MAC_TX")}
        /\ setMac = Now("MAC_TX") =>
             txPkt /\ Available(Head(txQueue).band) /\ Head(txQueue).left > 0
    BY <1>5 DEF IdleInv, QueueInv
  <2>2. mac' = "MAC_IDLE" /\ RecheckQueue(setMac, timers)
    BY <1>1, <1>5 DEF timers
  <2>3. IdleOutcome
    BY <1>4, <2>1, <2>2, RecheckFacts
  <2>4. /\ trx = "TRX_OFF" /\ endTx = OFF /\ endRx = OFF /\ ackTimeOut = OFF
        /\ \A c \in checks : c.in <= PreambleTime["MAC_RW2"]
        /\ ClassB => checks = {}
    BY <1>5, NoStaleChecks DEF IdleInv, StaleCheckInv, Windows
  <2>5. QED
    BY <1>1, <2>2, <2>3, <2>4, IdleOutcomeInv DEF TypeOK, envVars, phyVars
<1>6. CASE mac # "MAC_IDLE"
  <2>1. UNCHANGED <<txQueue, txPkt, retransmission, setMac>> /\ subBandTimer' = timers
    <3>1. txPkt = FALSE
      BY <1>1, <1>6 DEF TypeOK
    <3>2. mac' # "MAC_IDLE"
      BY <1>1, <1>6
    <3>3. QED
      BY <1>1, <3>1, <3>2 DEF RecheckQueue, CheckQueue, timers
  <2>2. TypeOK' /\ QueueInv' /\ TimerInv'
    BY <1>1, <1>2, <1>3, <1>6, <2>1
       DEF TypeOK, QueueInv, TimerInv, phyVars, envVars
  <2>3. (IdleInv /\ TxInv /\ WaitInv /\ WindowInv /\ RW1Inv /\ StaleCheckInv)'
    BY <1>1, <1>6, <2>1
       DEF IdleInv, TxInv, WaitInv, WindowInv, RW1Inv, StaleCheckInv, phyVars
  <2>4. (RW2Inv /\ ClassBWindowInv /\ AckTimeoutInv /\ RW2InTimeInv)'
    BY <1>1, <1>6, <2>1
       DEF RW2Inv, ClassBWindowInv, AckTimeoutInv, RW2InTimeInv, RW2Missed, Confirmed, phyVars
  <2>5. QED
    BY <2>2, <2>3, <2>4
<1>7. QED
  BY <1>5, <1>6

\* A request queues the frame; only an idle device with nothing to send starts it.
LEMMA SendMACPayloadRequestInv ==
  ASSUME NEW con \in ConTypes, NEW band \in Bands
  PROVE  AnswersInTime /\ IInv /\ SendMACPayloadRequest(con, band) => IInv'
<1> SUFFICES ASSUME AnswersInTime, IInv, SendMACPayloadRequest(con, band) PROVE IInv'
  OBVIOUS
<1> DEFINE r == [con |-> con, band |-> band, left |-> Transmissions(con)]
           head == Head(txQueue')
<1> USE DEF IInv
<1>1. /\ requests' \in 0..MaxRequests
      /\ txQueue' = Append(txQueue, r) /\ CheckQueue(txPkt, setMac, subBandTimer)
      /\ UNCHANGED <<mac, phyVars, retransmission, checks, ackTimeOut, bandWait,
                     rw2In, frames, windows>>
  BY WorkloadAssumption DEF SendMACPayloadRequest, TypeOK
<1>2. r \in Request /\ r.left > 0
  BY WorkloadAssumption DEF Request, Transmissions
<1>3. /\ txQueue' \in Seq(Request) /\ txQueue' # <<>>
      /\ \A i \in DOMAIN txQueue' : txQueue'[i] = IF i \in DOMAIN txQueue THEN txQueue[i]
                                                                         ELSE r
      /\ head = IF txQueue = <<>> THEN r ELSE Head(txQueue)
      /\ head \in Request
  <2>1. txQueue \in Seq(Request)
    BY DEF TypeOK
  <2> HIDE DEF r
  <2>2. QED
    BY <1>1, <1>2, <2>1, AppendFacts, QueueFacts
<1>4. /\ \A i \in DOMAIN txQueue' : ~txQueue'[i].con => txQueue'[i].left > 0
      /\ \A i \in DOMAIN txQueue' : i > 1 \/ ~txPkt => txQueue'[i].left > 0
  BY <1>2, <1>3 DEF QueueInv
<1>5. txPkt => txQueue # <<>> /\ head = Head(txQueue)
  BY <1>3 DEF QueueInv
<1>6. head.band \in Bands /\ bandWait[head.band] \in Nat
  BY <1>3 DEF Request, TypeOK
<1> HIDE DEF r, head
<1>7. CASE mac = "MAC_IDLE" /\ ~txPkt /\ setMac = NoEvent
  <2>1. /\ trx = "TRX_OFF" /\ endTx = OFF /\ endRx = OFF /\ ackTimeOut = OFF
        /\ \A c \in checks : c.in <= PreambleTime["MAC_RW2"]
        /\ ClassB => checks = {}
    BY <1>7, NoStaleChecks DEF IdleInv, StaleCheckInv, Windows
  <2>2. \A b \in Bands : subBandTimer[b] # OFF =>
          subBandTimer[b] = bandWait[b] /\ (ClassB \/ b = head.band)
    BY <1>3 DEF TimerInv
  <2>3. head.left > 0
    BY <1>3, <1>4, <1>7, QueueFacts DEF head
  <2>4. txQueue # <<>> => subBandTimer[head.band] # OFF
    BY <1>3, <1>7 DEF IdleInv
  <2>5. retransmission' \in Nat /\ subBandTimer \in [Bands -> Nat \cup {OFF}]
    BY <1>1 DEF TypeOK
  <2>6. CASE Available(head.band)
    <3>1. /\ txPkt' = TRUE /\ setMac' = Now("MAC_TX") /\ UNCHANGED subBandTimer
      BY <1>1, <1>3, <1>7, <2>6 DEF CheckQueue, head
    <3>2. QED
      <4>1. IdleOutcome
        BY <1>3, <1>4, <2>2, <2>3, <2>5, <2>6, <3>1
           DEF IdleOutcome, NoEvent, Now, After, head
      <4>2. QED
        BY <1>1, <1>7, <2>1, <4>1, IdleOutcomeInv DEF phyVars, TypeOK
  <2>7. CASE ~Available(head.band)
    <3>1. /\ txPkt' = FALSE /\ setMac' = NoEvent
          /\ subBandTimer' = IF subBandTimer[head.band] = OFF
                             THEN [subBandTimer EXCEPT ![head.band] = bandWait[head.band]]
                             ELSE subBandTimer
      BY <1>1, <1>3, <1>7, <2>7 DEF CheckQueue, ArmSubBandTimer, head
    <3>2. /\ subBandTimer' \in [Bands -> Nat \cup {OFF}]
          /\ subBandTimer'[head.band] # OFF
          /\ \A b \in Bands : subBandTimer'[b] # OFF =>
               subBandTimer'[b] = bandWait[b] /\ (ClassB \/ b = head.band)
      BY <1>6, <2>2, <2>5, <3>1
    <3>3. IdleOutcome
      <4>1. setMac' # Now("MAC_TX")
        BY <3>1 DEF NoEvent, Now, After
      <4>2. QED
        BY <1>3, <1>4, <1>7, <2>5, <3>1, <3>2, <4>1 DEF IdleOutcome, head
    <3>4. QED
      BY <1>1, <1>7, <2>1, <3>3, IdleOutcomeInv DEF phyVars, TypeOK
  <2>8. QED
    BY <2>6, <2>7
<1>8. CASE ~(mac = "MAC_IDLE" /\ ~txPkt /\ setMac = NoEvent)
  <2>1. UNCHANGED <<txPkt, setMac, subBandTimer>>
    BY <1>1, <1>8 DEF CheckQueue
  <2>2. TypeOK'
    BY <1>1, <1>3, <2>1 DEF TypeOK, phyVars
  <2>3. QueueInv'
    <3>1. setMac = Now("MAC_TX") \/ endTx # OFF => head.left > 0
      <4>1. (setMac = Now("MAC_TX") \/ endTx # OFF) /\ txQueue # <<>> => head.left > 0
        BY <1>3 DEF QueueInv
      <4>2. txQueue = <<>> => head.left > 0
        BY <1>2, <1>3
      <4>3. QED
        BY <4>1, <4>2
    <3>2. QED
      BY <1>1, <1>3, <1>4, <2>1, <3>1 DEF QueueInv, phyVars, head
  <2>4. TimerInv'
    BY <1>1, <1>3, <2>1 DEF TimerInv, head
  <2>5. IdleInv'
    <3> SUFFICES ASSUME mac = "MAC_IDLE" PROVE IdleInv'
      BY <1>1 DEF IdleInv
    <3>1. setMac = NoEvent => txPkt
      BY <1>8
    <3>2. setMac = Now("MAC_TX") => txPkt /\ Available(head.band)
      BY <1>5 DEF IdleInv
    <3>3. setMac = NoEvent => subBandTimer[head.band] # OFF
      BY <1>5, <3>1 DEF IdleInv
    <3>4. QED
      BY <1>1, <2>1, <3>2, <3>3 DEF IdleInv, phyVars, Available, head
  <2>6. (TxInv /\ WaitInv /\ WindowInv /\ RW1Inv /\ StaleCheckInv)'
    BY <1>1, <2>1 DEF TxInv, WaitInv, WindowInv, RW1Inv, StaleCheckInv, phyVars
  <2>7. Confirmed => Confirmed'
    BY <1>5, <2>1 DEF Confirmed, head
  <2>8. (RW2Inv /\ ClassBWindowInv /\ AckTimeoutInv /\ RW2InTimeInv)'
    BY <1>1, <2>1, <2>7 DEF RW2Inv, ClassBWindowInv, AckTimeoutInv, RW2InTimeInv,
       RW2Missed, phyVars
  <2>9. QED
    BY <2>2, <2>3, <2>4, <2>5, <2>6, <2>8
<1>9. QED
  BY <1>7, <1>8

\* A Class B window opens in MAC_IDLE, where no preamble check is pending.
LEMMA OpenClassBWindowInv ==
  ASSUME NEW w \in ClassBWindows
  PROVE  AnswersInTime /\ IInv /\ OpenClassBWindow(w) => IInv'
<1> SUFFICES ASSUME AnswersInTime, IInv, OpenClassBWindow(w) PROVE IInv'
  OBVIOUS
<1> USE DEF IInv
<1>1. /\ ClassB /\ windows' \in 0..MaxWindows
      /\ UNCHANGED <<endTx, endRx, queueVars, setMac, ackTimeOut, bandVars, rw2In,
                     requests, frames>>
  BY WorkloadAssumption DEF OpenClassBWindow, TypeOK
<1>2. CASE mac = "MAC_IDLE"
  <2>1. checks = {}
    BY <1>1, <1>2, NoStaleChecks DEF Windows
  <2> DEFINE check == [of |-> w, in |-> PreambleTime[w]]
  <2>2. mac' = w /\ trx' = "RX_ON" /\ checks' = {check}
    BY <1>2, <2>1 DEF OpenClassBWindow, OpenRW
  <2>3. /\ check \in [of : Windows, in : Nat] /\ check.of = w
        /\ check.in = PreambleTime[w] /\ check.in \in Nat /\ check.in > 0
    BY TimingAssumption DEF Windows
  <2> HIDE DEF check
  <2>4. TypeOK' /\ QueueInv' /\ TimerInv'
    BY <1>1, <1>2, <2>2, <2>3
       DEF TypeOK, QueueInv, TimerInv, queueVars, bandVars, MacStates, Windows, TrxStates
  <2>5. (WindowInv /\ ClassBWindowInv /\ StaleCheckInv)'
    BY <1>1, <1>2, <2>2, <2>3
       DEF WindowInv, ClassBWindowInv, StaleCheckInv, IdleInv, queueVars, NoEvent, Now,
           After
  <2>6. /\ (IdleInv /\ TxInv /\ WaitInv /\ RW1Inv /\ RW2Inv)'
        /\ (AckTimeoutInv /\ RW2InTimeInv)'
    BY <2>2 DEF IdleInv, TxInv, WaitInv, RW1Inv, RW2Inv, AckTimeoutInv, RW2InTimeInv
  <2>7. QED
    BY <2>4, <2>5, <2>6
<1>3. CASE mac # "MAC_IDLE"
  <2>1. UNCHANGED <<mac, trx, checks>>
    BY <1>3 DEF OpenClassBWindow
  <2>2. /\ (TypeOK /\ QueueInv /\ TimerInv /\ IdleInv /\ TxInv /\ WaitInv)'
        /\ (WindowInv /\ RW1Inv /\ StaleCheckInv)'
    BY <1>1, <2>1
       DEF TypeOK, QueueInv, TimerInv, IdleInv, TxInv, WaitInv, WindowInv, RW1Inv,
           StaleCheckInv, queueVars, bandVars, Available
  <2>3. (RW2Inv /\ ClassBWindowInv /\ AckTimeoutInv /\ RW2InTimeInv)'
    BY <1>1, <2>1
       DEF RW2Inv, ClassBWindowInv, AckTimeoutInv, RW2InTimeInv, RW2Missed, Confirmed,
           queueVars
  <2>4. QED
    BY <2>2, <2>3
<1>4. QED
  BY <1>2, <1>3

\* No step of the device leaves the inductive invariant.
LEMMA StepInv == AnswersInTime /\ IInv /\ [Next]_vars => IInv'
<1> SUFFICES ASSUME AnswersInTime, IInv, [Next]_vars PROVE IInv'
  OBVIOUS
<1>1. CASE System
  BY <1>1, EnterIdleInv, EnterTxInv, TxCancelledInv, EnterWaitForRW1Inv,
     EnterRW1Inv,
     EnterWaitForRW2Inv, MissedRW2Inv, EnterRW2Inv, EnterAckTimeoutInv,
     CheckPhyPreambleInv, AckTimeoutExpiredInv, SubBandTimerExpiredInv,
     PdDataConfirmInv, ReceiveDownlinkInv, ReceiveBeaconInv, ReceiveNothingInv, TickInv
     DEF System
<1>2. CASE Environment
  BY <1>2, SendMACPayloadRequestInv, FrameArrivesInv, OpenClassBWindowInv DEF Environment
<1>3. CASE UNCHANGED vars
  BY <1>3 DEF vars, phyVars, queueVars, bandVars, envVars, IInv, TypeOK, QueueInv,
     TimerInv, IdleInv, TxInv, WaitInv, WindowInv, RW1Inv, RW2Inv, ClassBWindowInv,
     AckTimeoutInv, StaleCheckInv, RW2InTimeInv, RW2Missed, Available, Confirmed
<1>4. QED
  BY <1>1, <1>2, <1>3 DEF Next, Asleep

\* The inductive invariant (IInv) holds in every state of a device whose confirmed
\* frames are answered with the Ack bit and that, if it is Class B, does not miss RW2.
THEOREM InductiveInvariant == AnswersInTime => (Spec => []IInv)
<1> SUFFICES ASSUME AnswersInTime PROVE Spec => []IInv
  OBVIOUS
<1>1. IInv /\ [Next]_vars => IInv'
  BY StepInv
<1>2. QED
  BY InitInv, <1>1, PTL DEF Spec

\* A Class A device may miss RW2.
LEMMA ClassAAnswersInTime == ClassAOnly => AnswersInTime
  BY DEF ClassAOnly, AnswersInTime

\* Every state of the device, of Class A or Class B, has its type (TypeOK).
THEOREM TypeCorrect == AnswersInTime => (Spec => []TypeOK)
<1>1. IInv => TypeOK
  BY DEF IInv
<1>2. QED
  BY <1>1, InductiveInvariant, PTL

\* Whenever a handler of the MAC is about to run, the MAC is in a state its NS_ASSERT
\* accepts (AssertionsButTimer), in Class A and in Class B, whatever the duty cycles,
\* delays, frame lengths and workload: only the sub-band timer may find a frame that
\* waits to be sent again outside MAC_IDLE.
THEOREM AssertionsFailOnlyForTimer == AnswersInTime => (Spec => []AssertionsButTimer)
<1>1. IInv => AssertionsButTimer
  <2> SUFFICES ASSUME IInv, SubBandTimerMeetsIdle PROVE AssertionsHold
    BY DEF AssertionsButTimer
  <2> USE DEF IInv, SetMacDue, Now, After, NoEvent
  <2>1. /\ SetMacDue("MAC_IDLE") => mac \in IdleFrom
        /\ SetMacDue("MAC_WAITFORRW1") => mac = "MAC_TX"
        /\ SetMacDue("MAC_WAITFORRW2") => mac = "MAC_RW1"
        /\ SetMacDue("MAC_ACK_TIMEOUT") => mac \in {"MAC_TX", "MAC_RW2"}
    BY DEF TypeOK, MacStates, IdleFrom, Windows, IdleInv, TxInv, WaitInv, WindowInv,
           RW1Inv, RW2Inv, ClassBWindowInv, AckTimeoutInv
  <2>2. /\ SetMacDue("MAC_RW1") => mac = "MAC_WAITFORRW1"
        /\ SetMacDue("MAC_RW2") => mac = "MAC_WAITFORRW2"
        /\ SetMacDue("MAC_TX") /\ mac = "MAC_IDLE" => txPkt
    BY DEF TypeOK, MacStates, Windows, IdleInv, TxInv, WaitInv, WindowInv,
           RW1Inv, RW2Inv, ClassBWindowInv, AckTimeoutInv
  <2>3. EndRxDue => mac \in Windows
    BY DEF EndRxDue, TypeOK, MacStates, IdleInv, TxInv, WaitInv, AckTimeoutInv
  <2>4. endTx = 0 => /\ mac = "MAC_TX" /\ txPkt
                     /\ Head(txQueue).con => Head(txQueue).left > 0
    BY DEF TypeOK, MacStates, IdleInv, TxInv, WaitInv, WindowInv, AckTimeoutInv,
       QueueInv
  <2>5. AckTimeoutMeetsItsStates
    BY DEF AckTimeoutMeetsItsStates, TypeOK, MacStates, Windows, IdleInv, TxInv,
           WaitInv, WindowInv, RW1Inv, ClassBWindowInv
  <2>6. QED
    BY <2>1, <2>2, <2>3, <2>4, <2>5 DEF AssertionsHold
<1>2. QED
  BY <1>1, InductiveInvariant, PTL

\* No NS_ASSERT of the MAC of a Class A device ever fails (AssertionsHold): its
\* sub-band timers run in MAC_IDLE only.
THEOREM AssertionsNeverFail == ClassAOnly => (Spec => []AssertionsHold)
<1> SUFFICES ASSUME ClassAOnly PROVE Spec => []AssertionsHold
  OBVIOUS
<1>1. IInv => SubBandTimerMeetsIdle
  BY DEF ClassAOnly, IInv, SubBandTimerMeetsIdle, TimerInv
<1>2. AssertionsButTimer /\ SubBandTimerMeetsIdle => AssertionsHold
  BY DEF AssertionsButTimer
<1>3. QED
  BY <1>1, <1>2, ClassAAnswersInTime, InductiveInvariant, AssertionsFailOnlyForTimer, PTL

\* A beacon or ping-slot window is left with a check of its own only when that check
\* has run (WindowKeptOpen): no check of an earlier window closes it.
THEOREM WindowsKeptOpen == AnswersInTime => (Spec => []WindowKeptOpen)
<1>1. IInv => WindowKeptOpen
  BY DEF IInv, WindowKeptOpen, ClassBWindowInv
<1>2. QED
  BY <1>1, InductiveInvariant, PTL

\* No request of the MAC is refused by the transceiver, which would abort the
\* simulation (NS_ABORT_IF in SetTRXStateRequest), as long as no frame begins between
\* the check of its window and the event of the same instant that closes it.
THEOREM TransceiverNeverRefuses == AnswersInTime => (Spec => []PhyRequestsLegal)
<1>1. IInv => PhyRequestsLegal
  <2> SUFFICES ASSUME IInv PROVE PhyRequestsLegal
    OBVIOUS
  <2> USE DEF IInv, SetMacDue, Now, After, NoEvent, PhyAccepts, LegalFrom
  <2>1. ASSUME SetMacDue("MAC_IDLE"), mac \in IdleFrom PROVE PhyAccepts("TRX_OFF", trx)
    BY <2>1 DEF IdleFrom, Windows, TxInv, WindowInv, RW2Inv, ClassBWindowInv, AckTimeoutInv
  <2>2. ASSUME SetMacDue("MAC_ACK_TIMEOUT") PROVE PhyAccepts("TRX_OFF", trx)
    BY <2>2 DEF TypeOK, MacStates, ClassBWindowInv, Windows, IdleInv, TxInv, WaitInv, WindowInv,
           AckTimeoutInv
  <2>3. ASSUME SetMacDue("MAC_TX"), mac = "MAC_IDLE" PROVE PhyAccepts("TX_ON", trx)
    BY <2>3 DEF IdleInv
  <2>4. ASSUME SetMacDue("MAC_WAITFORRW1") PROVE PhyAccepts("IDLE", trx)
    BY <2>4 DEF TypeOK, MacStates, ClassBWindowInv, Windows, IdleInv, TxInv, WaitInv, RW1Inv, RW2Inv, ClassBWindowInv,
           AckTimeoutInv, WindowInv
  <2>5. ASSUME SetMacDue("MAC_WAITFORRW2") PROVE PhyAccepts("IDLE", trx)
    BY <2>5 DEF TypeOK, MacStates, ClassBWindowInv, Windows, IdleInv, TxInv, WaitInv, WindowInv,
       RW2Inv, ClassBWindowInv,
           AckTimeoutInv
  <2>6. ASSUME SetMacDue("MAC_RW1") \/ SetMacDue("MAC_RW2")
        PROVE PhyAccepts("RX_ON", trx)
    BY <2>6 DEF TypeOK, MacStates, ClassBWindowInv, Windows, IdleInv, TxInv, WaitInv, WindowInv,
       RW1Inv,
           RW2Inv, ClassBWindowInv, AckTimeoutInv
  <2>7. QED
    BY <2>1, <2>2, <2>3, <2>4, <2>5, <2>6 DEF PhyRequestsLegal
<1>2. QED
  BY <1>1, InductiveInvariant, PTL

\* The device never overwrites the handle of a pending event
\* (HandlesNotOverwritten).
THEOREM HandlesKept == AnswersInTime => (Spec => []HandlesNotOverwritten)
<1>1. IInv => HandlesNotOverwritten
  <2> SUFFICES ASSUME IInv PROVE HandlesNotOverwritten
    OBVIOUS
  <2> USE DEF IInv, NoEvent, Now, After, Windows
  <2>1. ASSUME NEW c \in checks, CheckDue(c), mac \in Windows
        PROVE  setMac = NoEvent
    BY <2>1 DEF CheckDue, WindowInv, RW2Inv, ClassBWindowInv
  <2>2. ASSUME EndRxDue \/ endTx = 0 PROVE setMac = NoEvent
    BY <2>2 DEF EndRxDue, TypeOK, MacStates, IdleInv, TxInv, WaitInv, WindowInv,
           AckTimeoutInv
  <2>3. ackTimeOut = 0 /\ mac = "MAC_ACK_TIMEOUT" => setMac = NoEvent
    BY DEF AckTimeoutInv
  <2>4. ASSUME SetMacDue("MAC_RW2") \/ SetMacDue("MAC_WAITFORRW2")
        PROVE  ackTimeOut = OFF
    BY <2>4 DEF SetMacDue, TypeOK, MacStates, IdleInv, TxInv, WaitInv, RW1Inv,
       RW2Inv, ClassBWindowInv,
           AckTimeoutInv, WindowInv
  <2>5. QED
    BY <2>1, <2>2, <2>3, <2>4 DEF HandlesNotOverwritten
<1>2. QED
  BY <1>1, InductiveInvariant, PTL

\* A device with a frame to send always has the event pending that moves
\* it on.
THEOREM AlwaysAnEventPending == AnswersInTime => (Spec => []NeverStuck)
<1>1. IInv => NeverStuck
  BY DEF IInv, NeverStuck, IdleInv, TxInv, WaitInv, WindowInv, AckTimeoutInv,
     NoEvent,
         Now, After
<1>2. QED
  BY <1>1, InductiveInvariant, PTL

\* The Ack time-out runs only in RW2 and MAC_ACK_TIMEOUT, and
\* only for a confirmed frame that is being sent.
THEOREM AckTimerBelongsToItsFrame == AnswersInTime => (Spec => []AckTimerOwned)
<1>1. IInv => AckTimerOwned
  BY DEF IInv, AckTimerOwned, TypeOK, MacStates, ClassBWindowInv, Windows, IdleInv, TxInv, WaitInv,
         WindowInv, RW1Inv, RW2Inv, ClassBWindowInv, AckTimeoutInv
<1>2. QED
  BY <1>1, InductiveInvariant, PTL

\* A device starts a transmission only in a sub band that is available at
\* that instant.
THEOREM DutyCycleObeyed == AnswersInTime => (Spec => DutyCycleRespected)
<1> SUFFICES ASSUME AnswersInTime PROVE Spec => DutyCycleRespected
  OBVIOUS
<1> DEFINE Respected == endTx = OFF /\ endTx' # OFF =>
   bandWait[Head(txQueue).band] = 0
<1>1. IInv /\ [Next]_vars => [Respected]_vars
  <2> SUFFICES ASSUME IInv, Next, endTx = OFF, endTx' # OFF
               PROVE  bandWait[Head(txQueue).band] = 0
    BY DEF vars, phyVars
  <2>1. EnterTx
    <3>1. CASE System
      <4>1. ~PdDataConfirm /\ ~Tick
        BY DEF PdDataConfirm, Tick, Countdown
      <4>2. ~\E ack \in BOOLEAN : ReceiveDownlink(ack)
        BY DEF ReceiveDownlink, ReceptionEnds
      <4>3. ~ReceiveBeacon /\ ~ReceiveNothing
        BY DEF ReceiveBeacon, ReceiveNothing, ReceptionEnds
      <4>4. ~CheckPhyPreamble /\ ~AckTimeoutExpired /\ ~SubBandTimerExpired
        BY DEF CheckPhyPreamble, AckTimeoutExpired, SubBandTimerExpired, phyVars
      <4>5. /\ ~EnterIdle /\ ~TxCancelled /\ ~EnterWaitForRW1 /\ ~EnterRW1
            /\ ~EnterWaitForRW2 /\ ~MissedRW2 /\ ~EnterRW2 /\ ~EnterAckTimeout
        BY DEF EnterIdle, TxCancelled, EnterWaitForRW1, EnterRW1, EnterWaitForRW2,
           MissedRW2, EnterRW2, EnterAckTimeout, phyVars
      <4>6. QED
        BY <3>1, <4>1, <4>2, <4>3, <4>4, <4>5 DEF System
    <3>2. CASE Environment
      BY <3>2 DEF Environment, SendMACPayloadRequest, FrameArrives,
         OpenClassBWindow,
         phyVars
    <3>3. CASE Asleep
      BY <3>3 DEF Asleep, vars, phyVars
    <3>4. QED
      BY <3>1, <3>2, <3>3 DEF Next
  <2>2. QED
    BY <2>1 DEF EnterTx, TxConfirmed, SetMacDue, IInv, IdleInv, Available
<1>2. Spec => []IInv
  BY InductiveInvariant
<1>3. QED
  BY <1>1, <1>2, PTL DEF Spec, DutyCycleRespected

\* In Class A a transmission is scheduled in MAC_IDLE only.
LEMMA ScheduledWhenIdle == ClassAOnly /\ IInv /\ mac # "MAC_IDLE" => setMac # Now("MAC_TX")
  BY DEF ClassAOnly, IInv, TypeOK, MacStates, TxInv, WaitInv, WindowInv, RW1Inv, RW2Inv,
     AckTimeoutInv, Windows, NoEvent, Now, After

\* The count stays right in a step that neither touches the queue nor starts or ends
\* a transmission.
LEMMA CountKept ==
  ASSUME CountInv, UNCHANGED queueVars, Sending <=> Sending'
  PROVE  CountInv'
  BY DEF CountInv, queueVars

\* The count is right once the head has been removed.
LEMMA RemoveCounts ==
  ASSUME IInv, CountInv, txPkt, txQueue' = Tail(txQueue), retransmission' = 0
  PROVE  /\ txQueue' \in Seq(Request)
         /\ \A i \in DOMAIN txQueue' :
              txQueue'[i].left = Transmissions(txQueue'[i].con)
<1>1. txQueue \in Seq(Request) /\ txQueue # <<>>
  BY DEF IInv, TypeOK, QueueInv
<1>2. ASSUME NEW i \in DOMAIN txQueue'
      PROVE  txQueue'[i].left = Transmissions(txQueue'[i].con)
  <2>1. /\ i + 1 \in DOMAIN txQueue /\ txQueue'[i] = txQueue[i + 1]
        /\ i \in Nat /\ i > 0
    BY <1>1, <1>2
  <2>2. QED
    BY <2>1 DEF CountInv
<1>3. QED
  BY <1>1, <1>2

\* The count is right after CheckQueue, called with only unsent frames in the queue.
LEMMA CheckQueueCounts ==
  ASSUME txQueue' \in Seq(Request), retransmission' = 0, endTx' = OFF,
         NEW pending, pending # Now("MAC_TX"), NEW timers,
         \A i \in DOMAIN txQueue' : txQueue'[i].left = Transmissions(txQueue'[i].con),
         CheckQueue(FALSE, pending, timers)
  PROVE  CountInv'
<1>1. CASE txPkt' = FALSE
  BY <1>1 DEF CountInv
<1>2. CASE txPkt' # FALSE
  <2>1. txPkt' = TRUE /\ setMac' = Now("MAC_TX") /\ txQueue' # <<>>
    BY <1>2 DEF CheckQueue
  <2>2. /\ Head(txQueue') = txQueue'[1] /\ 1 \in DOMAIN txQueue'
        /\ Head(txQueue').left \in Nat
    BY <2>1, QueueFacts DEF Request
  <2>3. Transmissions(Head(txQueue').con) - Head(txQueue').left = 0
    BY <2>2
  <2>4. QED
    BY <2>1, <2>3 DEF CountInv, Sending
<1>3. QED
  BY <1>1, <1>2

\* The count is right after an idle device has looked at its queue.
LEMMA RecheckCounts ==
  ASSUME IInv, CountInv, endTx = OFF, endTx' = OFF,
         NEW pending \in {NoEvent, Now("MAC_TX")},
         pending = Now("MAC_TX") <=> setMac = Now("MAC_TX"),
         pending = Now("MAC_TX") => txPkt, NEW timers, RecheckQueue(pending, timers)
  PROVE  CountInv'
<1>0. NoEvent # Now("MAC_TX")
  BY DEF NoEvent, Now, After
<1>1. CASE ~txPkt
  <2>1. /\ UNCHANGED <<txQueue, retransmission>>
        /\ CheckQueue(FALSE, pending, timers) /\ pending = NoEvent
    BY <1>1 DEF RecheckQueue
  <2>2. txQueue \in Seq(Request)
    BY DEF IInv, TypeOK
  <2>3. retransmission = 0 /\ \A i \in DOMAIN txQueue :
          txQueue[i].left = Transmissions(txQueue[i].con)
    BY <1>1 DEF CountInv
  <2>4. QED
    BY <1>0, <2>1, <2>2, <2>3, CheckQueueCounts
<1>2. CASE txPkt /\ Exhausted
  <2>1. pending # Now("MAC_TX")
    BY <1>2 DEF Exhausted, IInv, QueueInv
  <2>2. /\ txQueue' = Tail(txQueue) /\ retransmission' = 0
        /\ CheckQueue(FALSE, pending, timers)
    BY <1>2 DEF RecheckQueue, CheckRetransmission
  <2>3. QED
    BY <1>2, <2>1, <2>2, RemoveCounts, CheckQueueCounts
<1>3. CASE txPkt /\ ~Exhausted
  <2>1. CheckRetransmission(pending, timers)
    BY <1>3 DEF RecheckQueue
  <2>2. CASE retransmission' = retransmission + 1
    <3>1. pending = NoEvent /\ setMac' = Now("MAC_TX") /\ UNCHANGED <<txQueue, txPkt>>
      <4>1. retransmission \in Nat
        BY DEF IInv, TypeOK
      <4>2. retransmission' # retransmission
        BY <2>2, <4>1
      <4>3. QED
        BY <1>3, <2>1, <4>2 DEF CheckRetransmission, queueVars
    <3>2. ~Sending /\ Sending'
      BY <1>0, <3>1 DEF Sending
    <3>3. /\ txQueue # <<>> /\ Head(txQueue) \in Request
      BY <1>3, QueueFacts DEF IInv, QueueInv, TypeOK
    <3>4. Transmissions(Head(txQueue).con) \in Nat /\ Head(txQueue).left \in Nat
      BY <3>3, WorkloadAssumption DEF Transmissions, Request
    <3>5. retransmission' = Transmissions(Head(txQueue).con) - Head(txQueue).left
      BY <1>3, <2>2, <3>2, <3>4 DEF CountInv
    <3>6. QED
      BY <1>3, <3>1, <3>2, <3>5 DEF CountInv
  <2>3. CASE retransmission' # retransmission + 1
    <3>1. UNCHANGED queueVars /\ setMac' = pending
      BY <1>3, <2>1, <2>3 DEF CheckRetransmission, queueVars
    <3>2. Sending <=> Sending'
      BY <3>1 DEF Sending
    <3>3. QED
      BY <3>1, <3>2, CountKept
  <2>4. QED
    BY <2>2, <2>3
<1>4. QED
  BY <1>1, <1>2, <1>3

\* The timers and the windows leave the count alone.
LEMMA QuietStepCounts ==
  ASSUME ClassAOnly, IInv, CountInv,
         \/ EnterWaitForRW1 \/ EnterRW1 \/ EnterWaitForRW2 \/ MissedRW2 \/ EnterRW2
         \/ EnterAckTimeout \/ CheckPhyPreamble \/ AckTimeoutExpired
         \/ ReceiveNothing \/ ReceiveBeacon \/ FrameArrives
  PROVE  CountInv'
<1>1. UNCHANGED queueVars /\ UNCHANGED endTx
  BY DEF EnterWaitForRW1, EnterRW1, EnterWaitForRW2, MissedRW2, EnterRW2,
     EnterAckTimeout, CheckPhyPreamble, AckTimeoutExpired, ReceiveNothing,
     ReceiveBeacon, ReceptionEnds, FrameArrives, phyVars
<1>2. setMac' = setMac \/ (mac # "MAC_IDLE" /\ setMac' # Now("MAC_TX"))
  BY DEF EnterWaitForRW1, EnterRW1, EnterWaitForRW2, MissedRW2, EnterRW2,
     EnterAckTimeout, CheckPhyPreamble, AckTimeoutExpired, ReceiveNothing, ReceiveBeacon,
     FrameArrives, CloseRW, CloseTarget, NoEvent, Now, After, Windows
<1>3. mac # "MAC_IDLE" => setMac # Now("MAC_TX")
  BY ScheduledWhenIdle
<1>4. Sending <=> Sending'
  BY <1>1, <1>2, <1>3 DEF Sending
<1>5. QED
  BY <1>1, <1>4, CountKept

\* The transmission scheduled becomes the one on the air.
LEMMA EnterTxCounts == IInv /\ CountInv /\ EnterTx => CountInv'
<1> SUFFICES ASSUME IInv, CountInv, EnterTx PROVE CountInv'
  OBVIOUS
<1>1. setMac = Now("MAC_TX") /\ endTx' = AirTime /\ UNCHANGED queueVars
  BY DEF EnterTx, SetMacDue, TxConfirmed
<1>2. Sending /\ Sending'
  BY <1>1, TimingAssumption DEF Sending
<1>3. QED
  BY <1>1, <1>2, CountKept

\* A transmission that ends uses up one of those left.
LEMMA PdDataConfirmCounts == IInv /\ CountInv /\ PdDataConfirm => CountInv'
<1> SUFFICES ASSUME IInv, CountInv, PdDataConfirm PROVE CountInv'
  OBVIOUS
<1>1. txPkt /\ Sending /\ endTx' = OFF /\ setMac' = Now("MAC_WAITFORRW1")
  BY DEF PdDataConfirm, Sending
<1>2. ~Sending'
  BY <1>1 DEF Sending, Now, After
<1>3. CASE LastRepetition
  <2>1. txQueue' = Tail(txQueue) /\ txPkt' = FALSE /\ retransmission' = 0
    BY <1>3 DEF PdDataConfirm, RemoveFirst
  <2>2. QED
    BY <1>1, <2>1, RemoveCounts DEF CountInv
<1>4. CASE ~LastRepetition
  <2> DEFINE served1 == [txQueue EXCEPT ![1].left = @ - 1]
  <2>1. txQueue' = served1 /\ UNCHANGED <<txPkt, retransmission>>
    BY <1>4 DEF PdDataConfirm
  <2>2. txQueue # <<>> /\ txQueue \in Seq(Request) /\ Head(txQueue) = txQueue[1]
        /\ Head(txQueue) \in Request /\ Head(txQueue).left > 0
    BY <1>1, QueueFacts DEF IInv, QueueInv, TypeOK, PdDataConfirm
  <2>3. /\ DOMAIN served1 = DOMAIN txQueue
        /\ Head(served1) = [Head(txQueue) EXCEPT !.left = @ - 1]
        /\ \A i \in DOMAIN served1 : i # 1 => served1[i] = txQueue[i]
    BY <2>2, ServeFacts
  <2> HIDE DEF served1
  <2>4. /\ Head(txQueue').con = Head(txQueue).con
        /\ Head(txQueue').left = Head(txQueue).left - 1
    BY <2>1, <2>2, <2>3 DEF Request
  <2>5. /\ Transmissions(Head(txQueue).con) \in Nat
        /\ Head(txQueue).left \in Nat
    BY <2>2, WorkloadAssumption DEF Transmissions, Request
  <2>6. retransmission' = Transmissions(Head(txQueue').con) - Head(txQueue').left - 1
    BY <1>1, <2>1, <2>4, <2>5 DEF CountInv
  <2>7. \A i \in DOMAIN txQueue' : i > 1 \/ ~txPkt'
          => txQueue'[i].left = Transmissions(txQueue'[i].con)
    BY <1>1, <2>1, <2>3 DEF CountInv
  <2>8. QED
    BY <1>1, <1>2, <2>1, <2>6, <2>7 DEF CountInv
<1>5. QED
  BY <1>3, <1>4

\* An Ack removes the frame being sent, another downlink leaves it.
LEMMA ReceiveDownlinkCounts ==
  ASSUME NEW ack \in BOOLEAN, ClassAOnly, IInv, CountInv, ReceiveDownlink(ack)
  PROVE  CountInv'
<1>1. mac \in Windows /\ endTx' = endTx /\ setMac' = Now("MAC_IDLE")
  BY DEF ReceiveDownlink, ReceptionEnds
<1>2. setMac # Now("MAC_TX") /\ setMac' # Now("MAC_TX")
  BY <1>1, ScheduledWhenIdle DEF Windows, Now, After
<1>3. CASE ack /\ txPkt
  <2>1. txQueue' = Tail(txQueue) /\ txPkt' = FALSE /\ retransmission' = 0
    BY <1>3 DEF ReceiveDownlink, AckReceived, RemoveFirst
  <2>2. QED
    BY <1>3, <2>1, RemoveCounts DEF CountInv
<1>4. CASE ~(ack /\ txPkt)
  <2>1. UNCHANGED queueVars /\ (Sending <=> Sending')
    BY <1>1, <1>2, <1>4 DEF ReceiveDownlink, Sending
  <2>2. QED
    BY <2>1, CountKept
<1>5. QED
  BY <1>3, <1>4

\* A request appends a frame with all of its transmissions left.
LEMMA SendMACPayloadRequestCounts ==
  ASSUME NEW con \in ConTypes, NEW band \in Bands,
         IInv, CountInv, SendMACPayloadRequest(con, band)
  PROVE  CountInv'
<1> DEFINE r == [con |-> con, band |-> band, left |-> Transmissions(con)]
<1>1. /\ txQueue' = Append(txQueue, r) /\ CheckQueue(txPkt, setMac, subBandTimer)
      /\ UNCHANGED <<mac, endTx, retransmission>>
  BY DEF SendMACPayloadRequest, phyVars
<1>2. r \in Request /\ r.con = con /\ r.left = Transmissions(con)
  BY WorkloadAssumption DEF Request, Transmissions
<1>3. txQueue \in Seq(Request)
  BY DEF IInv, TypeOK
<1> HIDE DEF r
<1>4. /\ txQueue' \in Seq(Request)
      /\ \A i \in DOMAIN txQueue' :
           txQueue'[i] = IF i \in DOMAIN txQueue THEN txQueue[i] ELSE r
      /\ txQueue # <<>> => Head(txQueue') = Head(txQueue)
  BY <1>1, <1>2, <1>3, AppendFacts
<1>5. \A i \in DOMAIN txQueue' : i > 1 \/ ~txPkt
        => txQueue'[i].left = Transmissions(txQueue'[i].con)
  BY <1>2, <1>4 DEF CountInv
<1>6. CASE mac = "MAC_IDLE" /\ ~txPkt /\ setMac = NoEvent
  <2>1. retransmission' = 0 /\ endTx' = OFF
    BY <1>1, <1>6 DEF CountInv, IInv, IdleInv
  <2>2. CheckQueue(FALSE, NoEvent, subBandTimer)
    <3>1. txPkt = FALSE
      BY <1>6 DEF IInv, TypeOK
    <3>2. QED
      BY <1>1, <1>6, <3>1
  <2>3. \A i \in DOMAIN txQueue' : txQueue'[i].left = Transmissions(txQueue'[i].con)
    BY <1>5, <1>6
  <2>4. txQueue' \in Seq(Request) /\ NoEvent # Now("MAC_TX")
    BY <1>4 DEF NoEvent, Now, After
  <2>5. QED
    BY <2>1, <2>2, <2>3, <2>4, CheckQueueCounts
<1>7. CASE ~(mac = "MAC_IDLE" /\ ~txPkt /\ setMac = NoEvent)
  <2>1. UNCHANGED <<txPkt, setMac>>
    BY <1>1, <1>7 DEF CheckQueue
  <2>2. Sending <=> Sending'
    BY <1>1, <2>1 DEF Sending
  <2>3. txPkt => Head(txQueue') = Head(txQueue)
    BY <1>4 DEF IInv, QueueInv
  <2>4. QED
    BY <1>1, <1>5, <2>1, <2>2, <2>3 DEF CountInv
<1>8. QED
  BY <1>6, <1>7

\* A tick takes the events of a transmission no further than to their end.
LEMMA TickCounts == IInv /\ CountInv /\ Tick => CountInv'
<1> SUFFICES ASSUME IInv, CountInv, Tick PROVE CountInv'
  OBVIOUS
<1>1. TickEffect
  BY TickFacts DEF IInv
<1>2. UNCHANGED queueVars /\ (endTx = OFF <=> endTx' = OFF)
  BY <1>1 DEF TickEffect, OneLess, queueVars, IInv, TypeOK
<1>3. setMac # Now("MAC_TX") /\ setMac' # Now("MAC_TX")
  <2>1. setMac.in # 0
    BY DEF Tick, NothingDue
  <2>2. setMac.in > 0 => setMac.to # "MAC_TX"
    BY DEF IInv, TypeOK, MacStates, IdleInv, TxInv, WaitInv, WindowInv, RW1Inv, RW2Inv,
       ClassBWindowInv, AckTimeoutInv, Windows, NoEvent, Now, After
  <2>3. QED
    BY <1>1, <2>1, <2>2 DEF TickEffect, OneLess, Now, After, IInv, TypeOK
<1>4. Sending <=> Sending'
  BY <1>2, <1>3 DEF Sending
<1>5. QED
  BY <1>2, <1>4, CountKept

\* No step of a Class A device miscounts.
LEMMA StepCounts == ClassAOnly /\ IInv /\ CountInv /\ [Next]_vars => CountInv'
<1> SUFFICES ASSUME ClassAOnly, IInv, CountInv, [Next]_vars PROVE CountInv'
  OBVIOUS
<1>1. CASE EnterIdle
  <2>1. /\ setMac = Now("MAC_IDLE") /\ UNCHANGED endTx /\ mac \in IdleFrom
        /\ RecheckQueue(NoEvent, subBandTimer)
    BY <1>1 DEF EnterIdle, SetMacDue
  <2>2. endTx = OFF /\ NoEvent # Now("MAC_TX") /\ setMac # Now("MAC_TX")
    BY <2>1 DEF IdleFrom, Windows, IInv, TxInv, WindowInv, AckTimeoutInv, NoEvent, Now,
       After
  <2>3. QED
    BY <2>1, <2>2, RecheckCounts
<1>2. CASE TxCancelled
  BY <1>2, ScheduledWhenIdle DEF TxCancelled, SetMacDue
<1>3. CASE SubBandTimerExpired
  <2>1. PICK b \in Bands :
          /\ subBandTimer[b] = 0
          /\ RecheckQueue(setMac, [subBandTimer EXCEPT ![b] = OFF])
          /\ UNCHANGED phyVars
    BY <1>3 DEF SubBandTimerExpired
  <2>2. mac = "MAC_IDLE"
    BY <2>1 DEF ClassAOnly, IInv, TimerInv
  <2>3. /\ endTx = OFF /\ setMac \in {NoEvent, Now("MAC_TX")}
        /\ setMac = Now("MAC_TX") => txPkt
    BY <2>2 DEF IInv, IdleInv
  <2>4. endTx' = OFF
    BY <2>1, <2>3 DEF phyVars
  <2>5. QED
    BY <2>1, <2>3, <2>4, RecheckCounts
<1>4. CASE System /\ ~EnterIdle /\ ~TxCancelled /\ ~SubBandTimerExpired
  BY <1>4, QuietStepCounts, EnterTxCounts, PdDataConfirmCounts, ReceiveDownlinkCounts,
     TickCounts DEF System
<1>5. CASE Environment
  <2>1. ASSUME NEW w \in ClassBWindows, OpenClassBWindow(w)
        PROVE  FALSE
    BY <2>1 DEF OpenClassBWindow, ClassAOnly
  <2>2. QED
    BY <1>5, <2>1, SendMACPayloadRequestCounts, QuietStepCounts DEF Environment
<1>6. CASE UNCHANGED vars
  BY <1>6, CountKept DEF vars, phyVars, queueVars, Sending
<1>7. QED
  BY <1>1, <1>2, <1>3, <1>4, <1>5, <1>6 DEF Next, Asleep

\* The counts of a Class A device are right in every state.
THEOREM CountsCorrect == ClassAOnly => (Spec => []CountInv)
<1> SUFFICES ASSUME ClassAOnly PROVE Spec => []CountInv
  OBVIOUS
<1>1. Init => CountInv
  BY DEF Init, CountInv
<1>2. IInv /\ CountInv /\ [Next]_vars => CountInv'
  BY StepCounts
<1>3. QED
  BY <1>1, <1>2, ClassAAnswersInTime, InductiveInvariant, PTL DEF Spec

\* m_retransmission is exact whenever a Class A device is on the air
\* (RetransmissionExact): every frame is sent with the number of retransmissions it
\* already had.
THEOREM RetransmissionsCounted == ClassAOnly => (Spec => []RetransmissionExact)
<1> SUFFICES ASSUME ClassAOnly PROVE Spec => []RetransmissionExact
  OBVIOUS
<1>1. IInv /\ CountInv => RetransmissionExact
  <2> SUFFICES ASSUME IInv, CountInv, endTx # OFF
               PROVE  retransmission =
                        Transmissions(Head(txQueue).con) - Head(txQueue).left
    BY DEF RetransmissionExact
  <2>1. txPkt
    BY DEF IInv, TypeOK, MacStates, IdleInv, TxInv, WaitInv, WindowInv, AckTimeoutInv,
       Windows
  <2>2. QED
    BY <2>1 DEF CountInv, Sending
<1>2. QED
  BY <1>1, ClassAAnswersInTime, InductiveInvariant, CountsCorrect, PTL
==============================================================================
