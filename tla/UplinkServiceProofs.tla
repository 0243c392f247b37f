------------------------ MODULE UplinkServiceProofs -------------------------
(***************************************************************************)
(* A Class A device implements the safety of UplinkService: every step of  *)
(* EndDeviceMac is a step of the service it gives, or a stutter.           *)
(***************************************************************************)
EXTENDS EndDeviceMacProofs, SequenceTheorems

USE DEF OFF, Positive, ClassBWindows

\* What the service sees of a queue: each frame with the transmissions it had.
Sent(q) ==
  [i \in DOMAIN q |->
     [con |-> q[i].con, sent |-> Transmissions(q[i].con) - q[i].left]]

\* A frame as the service sees it.
Served == [con : BOOLEAN, sent : Int]

\* A frame has a number of transmissions.
LEMMA TransmissionsFacts == \A con \in BOOLEAN : Transmissions(con) \in Nat
  BY WorkloadAssumption DEF Transmissions

\* The service's frames are those of the queue, in the same order.
LEMMA SentFacts ==
  ASSUME NEW q \in Seq(Request)
  PROVE  /\ Sent(q) \in Seq(Served) /\ Len(Sent(q)) = Len(q)
         /\ q # <<>> => /\ Sent(q) # <<>> /\ Head(Sent(q)).con = Head(q).con
                        /\ Head(Sent(q)).sent =
                             Transmissions(Head(q).con) - Head(q).left
<1> DEFINE frame(i) == [con |-> q[i].con, sent |-> Transmissions(q[i].con) - q[i].left]
<1>1. ASSUME NEW i \in DOMAIN q
      PROVE  frame(i) \in Served
  <2>0. q[i] \in Request
    BY <1>1
  <2>1. q[i].con \in BOOLEAN /\ q[i].left \in Nat
    BY <2>0 DEF Request
  <2>2. Transmissions(q[i].con) \in Nat
    BY <2>1, TransmissionsFacts
  <2>3. Transmissions(q[i].con) - q[i].left \in Int
    BY <2>1, <2>2
  <2>4. QED
    BY <2>1, <2>3 DEF Served
<1>2. DOMAIN q = 1..Len(q) /\ Len(q) \in Nat
  OBVIOUS
<1>3. Sent(q) = [i \in 1..Len(q) |-> frame(i)]
  BY <1>2 DEF Sent
<1> HIDE DEF frame
<1>4. Sent(q) \in Seq(Served) /\ Len(Sent(q)) = Len(q)
  BY <1>1, <1>2, <1>3
<1>5. \A i \in DOMAIN q : Sent(q)[i] = frame(i)
  BY <1>2, <1>3
<1>6. q # <<>> => /\ Sent(q) # <<>> /\ Head(Sent(q)) = frame(1) /\ Head(q) = q[1]
  BY <1>2, <1>4, <1>5
<1>7. q # <<>> => /\ Sent(q) # <<>> /\ Head(Sent(q)).con = Head(q).con
                  /\ Head(Sent(q)).sent = Transmissions(Head(q).con) - Head(q).left
  <2>1. frame(1).con = q[1].con
        /\ frame(1).sent = Transmissions(q[1].con) - q[1].left
    BY DEF frame
  <2>2. QED
    BY <1>6, <2>1
<1>8. QED
  BY <1>4, <1>7

\* Removing the head of the queue removes the head of what the service sees.
LEMMA SentTail ==
  ASSUME NEW q \in Seq(Request), q # <<>>
  PROVE  Sent(Tail(q)) = Tail(Sent(q))
<1>1. /\ Tail(q) \in Seq(Request) /\ Len(Tail(q)) = Len(q) - 1 /\ Len(q) \in Nat
      /\ Len(q) > 0 /\ \A i \in 1..(Len(q) - 1) : Tail(q)[i] = q[i + 1]
  <2>1. /\ Tail(q) \in Seq(Request) /\ Len(Tail(q)) = Len(q) - 1
        /\ \A i \in 1..Len(Tail(q)) : Tail(q)[i] = q[i + 1]
    BY HeadTailProperties
  <2>2. Len(q) \in Nat /\ Len(q) > 0
    OBVIOUS
  <2>3. QED
    BY <2>1, <2>2
<1>2. /\ Sent(q) \in Seq(Served) /\ Len(Sent(q)) = Len(q)
      /\ Sent(Tail(q)) \in Seq(Served) /\ Len(Sent(Tail(q))) = Len(q) - 1
  BY <1>1, SentFacts
<1>3. /\ Tail(Sent(q)) \in Seq(Served) /\ Len(Tail(Sent(q))) = Len(q) - 1
      /\ \A i \in 1..(Len(q) - 1) : Tail(Sent(q))[i] = Sent(q)[i + 1]
  BY <1>1, <1>2
<1>4. ASSUME NEW i \in 1..(Len(q) - 1)
      PROVE  Sent(Tail(q))[i] = Tail(Sent(q))[i]
  <2>1. i \in DOMAIN Tail(q) /\ i + 1 \in DOMAIN q
    BY <1>1, <1>4
  <2>2. /\ Sent(Tail(q))[i] = [con |-> Tail(q)[i].con,
               sent |-> Transmissions(Tail(q)[i].con) - Tail(q)[i].left]
        /\ Sent(q)[i + 1] = [con |-> q[i + 1].con,
               sent |-> Transmissions(q[i + 1].con) - q[i + 1].left]
    BY <2>1 DEF Sent
  <2>3. QED
    BY <1>1, <1>3, <1>4, <2>2
<1>5. QED
  BY <1>1, <1>2, <1>3, <1>4

\* A new frame at the end of the queue has not been sent.
LEMMA SentAppend ==
  ASSUME NEW q \in Seq(Request), NEW r \in Request, r.left = Transmissions(r.con)
  PROVE  Sent(Append(q, r)) = Append(Sent(q), [con |-> r.con, sent |-> 0])
<1> DEFINE a == Append(q, r)
           f == [con |-> r.con, sent |-> 0]
<1>1. /\ a \in Seq(Request) /\ Len(a) = Len(q) + 1 /\ Len(q) \in Nat
      /\ \A i \in 1..(Len(q) + 1) : a[i] = IF i = Len(q) + 1 THEN r ELSE q[i]
  OBVIOUS
<1>2. r.con \in BOOLEAN /\ r.left \in Nat /\ r.left - r.left = 0
  BY DEF Request
<1>3. f \in Served
  BY <1>2 DEF Served
<1> HIDE DEF a
<1>4. /\ Sent(q) \in Seq(Served) /\ Len(Sent(q)) = Len(q)
      /\ Sent(a) \in Seq(Served) /\ Len(Sent(a)) = Len(q) + 1
  BY <1>1, SentFacts
<1> HIDE DEF f
<1>5. /\ Append(Sent(q), f) \in Seq(Served) /\ Len(Append(Sent(q), f)) = Len(q) + 1
      /\ \A i \in 1..(Len(q) + 1) :
           Append(Sent(q), f)[i] = IF i = Len(q) + 1 THEN f ELSE Sent(q)[i]
  BY <1>1, <1>3, <1>4
<1>6. ASSUME NEW i \in 1..(Len(q) + 1)
      PROVE  Sent(a)[i] = Append(Sent(q), f)[i]
  <2>1. Sent(a)[i] = [con |-> a[i].con, sent |-> Transmissions(a[i].con) - a[i].left]
    BY <1>1, <1>6 DEF Sent
  <2>2. CASE i = Len(q) + 1
    BY <1>1, <1>2, <1>5, <2>1, <2>2 DEF f
  <2>3. CASE i # Len(q) + 1
    <3>1. i \in DOMAIN q
      BY <1>1, <1>6, <2>3
    <3>2. Sent(q)[i] = [con |-> q[i].con, sent |-> Transmissions(q[i].con) - q[i].left]
      BY <3>1 DEF Sent
    <3>3. QED
      BY <1>1, <1>5, <1>6, <2>1, <2>3, <3>2
  <2>4. QED
    BY <2>2, <2>3
<1>7. Sent(a) = Append(Sent(q), f)
  BY <1>1, <1>4, <1>5, <1>6
<1>8. QED
  BY <1>7 DEF a, f

\* A transmission of the head of the queue is one more for the service.
LEMMA SentServe ==
  ASSUME NEW q \in Seq(Request), q # <<>>, q[1].left > 0
  PROVE  Sent([q EXCEPT ![1].left = @ - 1]) = [Sent(q) EXCEPT ![1].sent = @ + 1]
<1> DEFINE s == [q EXCEPT ![1].left = @ - 1]
           t == [Sent(q) EXCEPT ![1].sent = @ + 1]
<1>1. /\ s \in Seq(Request) /\ DOMAIN s = DOMAIN q
      /\ \A i \in DOMAIN s : s[i] = IF i = 1 THEN [q[1] EXCEPT !.left = @ - 1] ELSE q[i]
  BY ServeFacts
<1>2. /\ 1 \in DOMAIN q /\ q[1] \in Request /\ q[1].con \in BOOLEAN /\ q[1].left \in Nat
      /\ Transmissions(q[1].con) \in Nat
  <2>1. 1 \in DOMAIN q /\ q[1] \in Request
    OBVIOUS
  <2>2. QED
    BY <2>1, TransmissionsFacts DEF Request
<1>3. /\ [q[1] EXCEPT !.left = @ - 1].con = q[1].con
      /\ [q[1] EXCEPT !.left = @ - 1].left = q[1].left - 1
  BY <1>2 DEF Request
<1> HIDE DEF s
<1>4. DOMAIN Sent(s) = DOMAIN q /\ DOMAIN t = DOMAIN q /\ DOMAIN Sent(q) = DOMAIN q
  BY <1>1 DEF Sent
<1>5. ASSUME NEW i \in DOMAIN q
      PROVE  Sent(s)[i] = t[i]
  <2>1. /\ Sent(s)[i] = [con |-> s[i].con, sent |-> Transmissions(s[i].con) - s[i].left]
        /\ Sent(q)[i] = [con |-> q[i].con, sent |-> Transmissions(q[i].con) - q[i].left]
    BY <1>1 DEF Sent
  <2>2. t[i] = IF i = 1 THEN [Sent(q)[1] EXCEPT !.sent = @ + 1] ELSE Sent(q)[i]
    BY <1>4
  <2>3. CASE i = 1
    <3>1. Sent(s)[i] = [con |-> q[1].con,
                        sent |-> Transmissions(q[1].con) - (q[1].left - 1)]
      BY <1>1, <1>3, <2>1, <2>3
    <3>2. t[i] = [con |-> q[1].con,
                  sent |-> (Transmissions(q[1].con) - q[1].left) + 1]
      BY <2>1, <2>2, <2>3
    <3>3. Transmissions(q[1].con) - (q[1].left - 1)
            = (Transmissions(q[1].con) - q[1].left) + 1
      BY <1>2
    <3>4. QED
      BY <3>1, <3>2, <3>3
  <2>4. CASE i # 1
    BY <1>1, <2>1, <2>2, <2>4
  <2>5. QED
    BY <2>3, <2>4
<1>6. /\ Sent(s) = [i \in DOMAIN q |-> Sent(s)[i]] /\ t = [i \in DOMAIN q |-> t[i]]
  BY <1>1, <1>4 DEF Sent
<1>7. Sent(s) = t
  BY <1>5, <1>6
<1>8. QED
  BY <1>7 DEF s

\* The device, as its service sees it, before and after a step.
LEMMA ServedIsSent == served = Sent(txQueue) /\ served' = Sent(txQueue')
  BY DEF served, Sent

Listening == mac \in {"MAC_RW1", "MAC_RW2"}

\* A step that leaves the queue alone is a step of the service, or a stutter.
LEMMA ListenStep ==
  ASSUME UNCHANGED txQueue
  PROVE  [Service!Next]_(Service!vars)
<1>1. served' = served
  BY DEF served
<1>2. CASE Listening' = Listening
  BY <1>1, <1>2 DEF Service!vars, Listening
<1>3. CASE Listening' # Listening
  <2>1. Listening' = ~Listening
    BY <1>3 DEF Listening
  <2>2. Service!Listen
    BY <1>1, <2>1 DEF Service!Listen, Listening
  <2>3. QED
    BY <2>2 DEF Service!Next
<1>4. QED
  BY <1>2, <1>3

\* The end of a transmission is a Transmit step of the service.
LEMMA TransmitStep ==
  ASSUME IInv, PdDataConfirm
  PROVE  Service!Transmit
<1>1. /\ endTx = 0 /\ mac = "MAC_TX" /\ mac' = mac
      /\ IF LastRepetition THEN txQueue' = Tail(txQueue)
                           ELSE txQueue' = [txQueue EXCEPT ![1].left = @ - 1]
  BY DEF PdDataConfirm, RemoveFirst
<1>2. /\ txQueue \in Seq(Request) /\ txQueue # <<>> /\ Head(txQueue) = txQueue[1]
      /\ Head(txQueue) \in Request /\ Head(txQueue).left > 0
  BY <1>1, QueueFacts DEF IInv, TypeOK, QueueInv, PdDataConfirm
<1>3. /\ Head(txQueue).con \in BOOLEAN /\ Head(txQueue).left \in Nat
      /\ Transmissions(Head(txQueue).con) \in Nat
  BY <1>2, TransmissionsFacts DEF Request
<1>4. /\ served # <<>> /\ Head(served).con = Head(txQueue).con
      /\ Head(served).sent = Transmissions(Head(txQueue).con) - Head(txQueue).left
  BY <1>2, ServedIsSent, SentFacts
<1>5. Head(served).sent < Service!Limit(Head(served).con)
  BY <1>2, <1>3, <1>4 DEF Service!Limit, Transmissions
<1>6. LastRepetition <=> ~Head(served).con /\ Head(served).sent + 1 = NbRep
  BY <1>3, <1>4 DEF LastRepetition, Transmissions
<1>7. IF LastRepetition THEN served' = Tail(served)
                        ELSE served' = [served EXCEPT ![1].sent = @ + 1]
  <2>1. CASE LastRepetition
    BY <1>1, <1>2, <2>1, ServedIsSent, SentTail
  <2>2. CASE ~LastRepetition
    BY <1>1, <1>2, <2>2, ServedIsSent, SentServe
  <2>3. QED
    BY <2>1, <2>2
<1>8. ~Listening /\ Listening' = Listening
  BY <1>1 DEF Listening
<1>9. QED
  BY <1>4, <1>5, <1>6, <1>7, <1>8 DEF Service!Transmit, Service!Done, Listening

\* An Ack that removes the frame being sent finds it sent at least once and the
\* device listening: an Acknowledge step of the service.
LEMMA AcknowledgeStep ==
  ASSUME ClassAOnly, IInv, CountInv, NEW ack \in BOOLEAN, ReceiveDownlink(ack)
  PROVE  [Service!Next]_(Service!vars)
<1>1. mac \in Windows /\ mac' = mac /\ endRx = 0 /\ AllChecksRun
  BY DEF ReceiveDownlink, ReceptionEnds, EndRxDue
<1>2. CASE ~(ack /\ txPkt)
  BY <1>2, ListenStep DEF ReceiveDownlink, queueVars
<1>3. CASE ack /\ txPkt
  <2>1. Listening /\ Listening' = Listening
    BY <1>1 DEF Listening, ClassAOnly, IInv, WindowInv, Windows
  <2>2. /\ txQueue \in Seq(Request) /\ txQueue # <<>> /\ Head(txQueue) \in Request
        /\ retransmission \in Nat
    BY <1>3, QueueFacts DEF IInv, TypeOK, QueueInv
  <2>3. ~Sending
    BY <1>1, ScheduledWhenIdle DEF Sending, IInv, WindowInv, Windows
  <2>4. /\ Head(txQueue).con \in BOOLEAN /\ Head(txQueue).left \in Nat
        /\ Transmissions(Head(txQueue).con) \in Nat
    BY <2>2, TransmissionsFacts DEF Request
  <2>5. Transmissions(Head(txQueue).con) - Head(txQueue).left > 0
    BY <1>3, <2>2, <2>3, <2>4 DEF CountInv
  <2>6. served # <<>> /\ Head(served).sent > 0
    BY <2>2, <2>5, ServedIsSent, SentFacts
  <2>7. txQueue' = Tail(txQueue)
    BY <1>3 DEF ReceiveDownlink, AckReceived, RemoveFirst
  <2>8. served' = Tail(served)
    BY <2>2, <2>7, ServedIsSent, SentTail
  <2>9. Service!Acknowledge
    BY <2>1, <2>6, <2>8 DEF Service!Acknowledge, Service!Done, Listening
  <2>10. QED
    BY <2>9 DEF Service!Next, Service!Serve
<1>4. QED
  BY <1>2, <1>3

\* An idle device removes a frame only when it gives it up.
LEMMA GiveUpStep ==
  ASSUME IInv, mac' = "MAC_IDLE", NEW pending, NEW timers, RecheckQueue(pending, timers)
  PROVE  [Service!Next]_(Service!vars)
<1>1. CASE ~(txPkt /\ Exhausted)
  BY <1>1, ListenStep DEF RecheckQueue, CheckRetransmission, queueVars
<1>2. CASE txPkt /\ Exhausted
  <2>1. txQueue' = Tail(txQueue)
    BY <1>2 DEF RecheckQueue, CheckRetransmission
  <2>2. txQueue \in Seq(Request) /\ txQueue # <<>> /\ Head(txQueue) \in Request
    BY <1>2, QueueFacts DEF IInv, TypeOK, QueueInv
  <2>3. Head(txQueue).con /\ Transmissions(Head(txQueue).con) - Head(txQueue).left = NbTransCon
    BY <1>2, WorkloadAssumption DEF Exhausted, Transmissions
  <2>4. served # <<>> /\ Head(served).con /\ Head(served).sent = NbTransCon
    BY <2>2, <2>3, ServedIsSent, SentFacts
  <2>5. served' = Tail(served) /\ Listening' = FALSE
    BY <2>1, <2>2, ServedIsSent, SentTail DEF Listening
  <2>6. Service!GiveUp
    BY <2>4, <2>5 DEF Service!GiveUp, Service!Done, Listening
  <2>7. QED
    BY <2>6 DEF Service!Next, Service!Serve
<1>3. QED
  BY <1>1, <1>2

\* A request is an Accept step of the service.
LEMMA AcceptStep ==
  ASSUME IInv, NEW con \in ConTypes, NEW band \in Bands, SendMACPayloadRequest(con, band)
  PROVE  Service!Accept(con) /\ con \in BOOLEAN
<1> DEFINE r == [con |-> con, band |-> band, left |-> Transmissions(con)]
<1>1. con \in BOOLEAN
  BY WorkloadAssumption
<1>2. r \in Request /\ r.con = con /\ r.left = Transmissions(r.con)
  BY <1>1, TransmissionsFacts DEF Request
<1>3. txQueue \in Seq(Request) /\ txQueue' = Append(txQueue, r) /\ mac' = mac
  BY DEF IInv, TypeOK, SendMACPayloadRequest
<1> HIDE DEF r
<1>4. served' = Append(served, [con |-> con, sent |-> 0])
  BY <1>2, <1>3, ServedIsSent, SentAppend
<1>5. Listening' = Listening
  BY <1>3 DEF Listening
<1>6. QED
  BY <1>1, <1>4, <1>5 DEF Service!Accept, Listening

\* A new device is a new service.
LEMMA ServiceInit == Init => Service!Init
<1> SUFFICES ASSUME Init PROVE Service!Init
  OBVIOUS
<1>1. txQueue = <<>> /\ mac = "MAC_IDLE"
  BY DEF Init
<1>2. Sent(<<>>) = <<>>
  BY DEF Sent
<1>3. served = <<>>
  BY <1>1, <1>2, ServedIsSent
<1>4. QED
  BY <1>1, <1>3 DEF Service!Init

\* Every step of a Class A device is a step of its service, or a stutter.
LEMMA ServiceStep ==
  ClassAOnly /\ IInv /\ CountInv /\ [Next]_vars => [Service!Next]_(Service!vars)
<1> SUFFICES ASSUME ClassAOnly, IInv, CountInv, [Next]_vars
             PROVE  [Service!Next]_(Service!vars)
  OBVIOUS
<1>1. CASE EnterIdle
  BY <1>1, GiveUpStep DEF EnterIdle
<1>2. CASE SubBandTimerExpired
  <2>1. PICK b \in Bands :
          /\ subBandTimer[b] = 0 /\ UNCHANGED mac
          /\ RecheckQueue(setMac, [subBandTimer EXCEPT ![b] = OFF])
    BY <1>2 DEF SubBandTimerExpired
  <2>2. mac' = "MAC_IDLE"
    BY <2>1 DEF ClassAOnly, IInv, TimerInv
  <2>3. QED
    BY <2>1, <2>2, GiveUpStep
<1>3. CASE PdDataConfirm
  BY <1>3, TransmitStep DEF Service!Next, Service!Serve
<1>4. CASE ReceiveDownlink(TRUE) \/ ReceiveDownlink(FALSE)
  BY <1>4, AcknowledgeStep
<1>5. CASE \E con \in ConTypes, band \in Bands : SendMACPayloadRequest(con, band)
  BY <1>5, AcceptStep DEF Service!Next
<1>6. CASE UNCHANGED txQueue
  BY <1>6, ListenStep
<1>7. UNCHANGED txQueue \/ EnterIdle \/ SubBandTimerExpired \/ PdDataConfirm
        \/ ReceiveDownlink(TRUE) \/ ReceiveDownlink(FALSE)
        \/ \E con \in ConTypes, band \in Bands : SendMACPayloadRequest(con, band)
  <2>1. CASE System
    BY <2>1 DEF System, EnterTx, TxCancelled, EnterWaitForRW1, EnterRW1, EnterWaitForRW2,
       MissedRW2, EnterRW2, EnterAckTimeout, CheckPhyPreamble, AckTimeoutExpired,
       ReceiveBeacon, ReceiveNothing, Tick, queueVars
  <2>2. CASE Environment
    BY <2>2 DEF Environment, FrameArrives, OpenClassBWindow, queueVars
  <2>3. CASE Asleep \/ UNCHANGED vars
    BY <2>3 DEF Asleep, vars, queueVars
  <2>4. QED
    BY <2>1, <2>2, <2>3 DEF Next
<1>8. QED
  BY <1>1, <1>2, <1>3, <1>4, <1>5, <1>6, <1>7

\* The safety of the service: a Class A device serves its frames in order, acknowledges
\* none that was not sent, gives none up before its last transmission and sends none
\* once more than allowed.
THEOREM ServiceImplemented == ClassAOnly => (Spec => Service!SafeSpec)
<1> SUFFICES ASSUME ClassAOnly PROVE Spec => Service!SafeSpec
  OBVIOUS
<1>1. IInv /\ CountInv /\ [Next]_vars => [Service!Next]_(Service!vars)
  BY ServiceStep
<1>2. QED
  BY <1>1, ServiceInit, ClassAAnswersInTime, InductiveInvariant, CountsCorrect, PTL
     DEF Spec, Service!SafeSpec
=============================================================================
