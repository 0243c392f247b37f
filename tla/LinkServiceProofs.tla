-------------------------- MODULE LinkServiceProofs --------------------------
(***************************************************************************)
(* Device and server implement LinkService, for any gateways, traffic and  *)
(* delays that satisfy ServerAssumption.  CycleInv says which exchange the *)
(* timers and copies belong to; on top of it the numbers in the queues and *)
(* the server's counter say which frame it is about, and that a frame is   *)
(* known to the server exactly if it has been heard.                       *)
(***************************************************************************)
EXTENDS NetworkServerProofs

-----------------------------------------------------------------------------
(* Queues of numbered elements.                                            *)

\* Where the elements of a queue are after one has joined it.
LEMMA AppendedAt ==
  ASSUME NEW S, NEW q \in Seq(S), NEW e \in S
  PROVE  /\ Len(q) \in Nat /\ Len(Append(q, e)) = Len(q) + 1
         /\ \A i \in 1..Len(q) + 1 :
              Append(q, e)[i] = IF i = Len(q) + 1 THEN e ELSE q[i]
  BY AppendProperties

\* Where they are after the first has left.
LEMMA RemovedAt ==
  ASSUME NEW S, NEW q \in Seq(S), q # <<>>
  PROVE  /\ Len(q) \in Nat /\ Len(q) > 0 /\ Len(Tail(q)) = Len(q) - 1
         /\ Head(q) = q[1] /\ Head(q) \in S
         /\ \A i \in 1..Len(q) - 1 : Tail(q)[i] = q[i + 1]
  OBVIOUS

\* Where they are after the first has been sent once more.
LEMMA SentAt ==
  ASSUME NEW S, NEW q \in Seq(S), q # <<>>, Sent(Head(q)) \in S
  PROVE  /\ Len(OneFewer(q)) = Len(q)
         /\ OneFewer(q)[1] = Sent(Head(q))
         /\ \A i \in 1..Len(q) : i > 1 => OneFewer(q)[i] = q[i]
<1>1. /\ Tail(q) \in Seq(S) /\ Len(q) \in Nat /\ Len(q) > 0
      /\ Len(Tail(q)) = Len(q) - 1
      /\ \A i \in 1..Len(q) - 1 : Tail(q)[i] = q[i + 1]
  OBVIOUS
<1>2. <<Sent(Head(q))>> \in Seq(S) /\ Len(<<Sent(Head(q))>>) = 1
  OBVIOUS
<1> QED BY <1>1, <1>2 DEF OneFewer

-----------------------------------------------------------------------------
(* The numbers of the frames.                                              *)

\* The frame to be sent next is the first that is not finished.
LEMMA HeadNumber ==
  ASSUME TypeOK, UplinkNumbers, devQueue # <<>>
  PROVE  Head(devQueue).fcnt = devFCnt - Len(devQueue) + 1
<1>1. Len(devQueue) \in Nat /\ Len(devQueue) > 0 /\ Head(devQueue) = devQueue[1]
  BY RemovedAt DEF TypeOK
<1> QED BY <1>1 DEF UplinkNumbers

\* A frame that was sent leaves the queue: it is still the one last sent.
LEMMA FrameFinished ==
  ASSUME CycleInv, UplinkNumbers, txPkt, devQueue' = Tail(devQueue), txPkt' = FALSE,
         UNCHANGED <<devFCnt, uplink>>
  PROVE  /\ UplinkNumbers'
         /\ Len(devQueue) \in Nat /\ Len(devQueue') = Len(devQueue) - 1
<1>1. devQueue # <<>> /\ devQueue \in Seq(Queued) /\ devFCnt \in Nat
  BY DEF CycleInv, QueueInv, TypeOK
<1>2. /\ Len(devQueue) \in Nat /\ Len(devQueue) > 0
      /\ Len(devQueue') = Len(devQueue) - 1
      /\ \A i \in 1..Len(devQueue) - 1 : devQueue'[i] = devQueue[i + 1]
  BY <1>1, RemovedAt
<1>3. /\ Len(devQueue) <= devFCnt
      /\ \A i \in 1..Len(devQueue) : devQueue[i].fcnt = devFCnt - Len(devQueue) + i
      /\ uplink.fcnt = devFCnt - Len(devQueue) + 1
  BY DEF UplinkNumbers
<1>4. \A i \in 1..Len(devQueue') : devQueue'[i].fcnt = devFCnt - Len(devQueue') + i
  BY <1>1, <1>2, <1>3
<1>5. uplink.fcnt = devFCnt - Len(devQueue')
  BY <1>1, <1>2, <1>3
<1> QED BY <1>1, <1>2, <1>3, <1>4, <1>5 DEF UplinkNumbers

\* What the server does to its queue keeps the numbers: nothing, a transmission that
\* is not the last, or removing the first element.
LEMMA DownlinkNumbersKept ==
  ASSUME CycleInv, DownlinkNumbers, downlinks' = downlinks,
         \/ dsQueue' = dsQueue
         \/ dsQueue # <<>> /\ dsQueue' = Tail(dsQueue)
         \/ /\ dsQueue # <<>> /\ Head(dsQueue).left > 1
            /\ dsQueue' = OneFewer(dsQueue)
  PROVE  /\ DownlinkNumbers'
         /\ Len(dsQueue) \in Nat /\ downlinks \in Nat /\ Len(dsQueue) <= downlinks
         /\ \/ Len(dsQueue') = Len(dsQueue)
            \/ Len(dsQueue) > 0 /\ Len(dsQueue') = Len(dsQueue) - 1
<1>1. dsQueue \in Seq(Pending) /\ downlinks \in Nat /\ Len(dsQueue) \in Nat
  BY DEF CycleInv, TypeOK
<1>2. /\ Len(dsQueue) <= downlinks
      /\ \A i \in 1..Len(dsQueue) : dsQueue[i].id = downlinks - Len(dsQueue) + i
  BY DEF DownlinkNumbers
<1>3. CASE dsQueue' = dsQueue
  BY <1>1, <1>2, <1>3 DEF DownlinkNumbers
<1>4. CASE dsQueue # <<>> /\ dsQueue' = Tail(dsQueue)
  <2>1. /\ Len(dsQueue) > 0 /\ Len(dsQueue') = Len(dsQueue) - 1
        /\ \A i \in 1..Len(dsQueue) - 1 : dsQueue'[i] = dsQueue[i + 1]
    BY <1>1, <1>4, RemovedAt
  <2>2. ASSUME NEW i \in 1..Len(dsQueue')
        PROVE  dsQueue'[i].id = downlinks - Len(dsQueue') + i
    <3>1. i + 1 \in 1..Len(dsQueue) /\ dsQueue'[i] = dsQueue[i + 1]
      BY <1>1, <2>1
    <3>2. dsQueue'[i].id = downlinks - Len(dsQueue) + (i + 1)
      BY <1>2, <3>1
    <3> QED BY <1>1, <2>1, <3>2
  <2> QED BY <1>1, <1>2, <2>1, <2>2 DEF DownlinkNumbers
<1>5. CASE /\ dsQueue # <<>> /\ Head(dsQueue).left > 1
           /\ dsQueue' = OneFewer(dsQueue)
  <2>1. Head(dsQueue) \in Pending /\ Head(dsQueue) = dsQueue[1] /\ Len(dsQueue) > 0
    BY <1>1, <1>5, RemovedAt
  <2>2. Head(dsQueue).left > 0
    BY <1>5, <2>1 DEF Pending
  <2>3. Sent(Head(dsQueue)) \in Pending /\ Sent(Head(dsQueue)).id = Head(dsQueue).id
    BY <2>1, <2>2, SentPending DEF Sent, Pending
  <2>4. /\ Len(dsQueue') = Len(dsQueue) /\ dsQueue'[1] = Sent(Head(dsQueue))
        /\ \A i \in 1..Len(dsQueue) : i > 1 => dsQueue'[i] = dsQueue[i]
    BY <1>1, <1>5, <2>3, SentAt
  <2>5. ASSUME NEW i \in 1..Len(dsQueue')
        PROVE  dsQueue'[i].id = downlinks - Len(dsQueue') + i
    <3>1. CASE i = 1
      BY <1>2, <2>1, <2>3, <2>4, <3>1
    <3>2. CASE i # 1
      BY <1>2, <2>4, <3>2
    <3> QED BY <3>1, <3>2
  <2> QED BY <1>1, <1>2, <2>4, <2>5 DEF DownlinkNumbers
<1> QED BY <1>3, <1>4, <1>5

\* A frame handed to the MAC gets the next number and the last place.
LEMMA SendPacketNumbers ==
  ASSUME CycleInv, UplinkNumbers, SendPacket
  PROVE  /\ UplinkNumbers'
         /\ Len(devQueue) \in Nat /\ Len(devQueue') = Len(devQueue) + 1
<1>1. PICK con \in ConTypes :
        devQueue' = Append(devQueue,
          [fcnt |-> devFCnt + 1, con |-> con, ack |-> devAck, b |-> devClassB,
           left |-> Transmissions(con)])
  BY DEF SendPacket
<1> DEFINE f == [fcnt |-> devFCnt + 1, con |-> con, ack |-> devAck,
                 b |-> devClassB, left |-> Transmissions(con)]
<1>2. f \in Queued /\ f.fcnt = devFCnt + 1
  BY ServerAssumption DEF CycleInv, TypeOK, Queued, Transmissions, Positive
<1>3. devQueue' = Append(devQueue, f) /\ devQueue \in Seq(Queued) /\ devFCnt \in Nat
  BY <1>1 DEF CycleInv, TypeOK
<1> HIDE DEF f
<1>4. /\ Len(devQueue) \in Nat /\ Len(devQueue') = Len(devQueue) + 1
      /\ \A i \in 1..Len(devQueue) + 1 :
           devQueue'[i] = IF i = Len(devQueue) + 1 THEN f ELSE devQueue[i]
  BY <1>2, <1>3, AppendedAt
<1>5. devFCnt' = devFCnt + 1 /\ txPkt' = txPkt /\ uplink' = uplink
  BY DEF SendPacket
<1>6. /\ Len(devQueue) <= devFCnt
      /\ \A i \in 1..Len(devQueue) : devQueue[i].fcnt = devFCnt - Len(devQueue) + i
      /\ uplink.fcnt = devFCnt - Len(devQueue) + (IF txPkt THEN 1 ELSE 0)
  BY DEF UplinkNumbers
<1>7. ASSUME NEW i \in 1..Len(devQueue')
      PROVE  devQueue'[i].fcnt = devFCnt' - Len(devQueue') + i
  <2>1. CASE i = Len(devQueue) + 1
    <3>1. devQueue'[i].fcnt = devFCnt + 1
      BY <1>2, <1>4, <2>1
    <3> QED BY <1>3, <1>4, <1>5, <2>1, <3>1
  <2>2. CASE i # Len(devQueue) + 1
    <3>1. i \in 1..Len(devQueue) /\ devQueue'[i] = devQueue[i]
      BY <1>4, <2>2
    <3>2. devQueue'[i].fcnt = devFCnt - Len(devQueue) + i
      BY <1>6, <3>1
    <3> QED BY <1>3, <1>4, <1>5, <3>2
  <2> QED BY <2>1, <2>2
<1>8. /\ Len(devQueue') <= devFCnt'
      /\ uplink'.fcnt = devFCnt' - Len(devQueue') + (IF txPkt' THEN 1 ELSE 0)
  BY <1>3, <1>4, <1>5, <1>6
<1> QED BY <1>4, <1>7, <1>8 DEF UplinkNumbers

\* A transmission is of the first frame that is not finished; it stays first, or is
\* finished with it.
LEMMA UplinkEndsNumbers ==
  ASSUME CycleInv, UplinkNumbers, NEW H \in SUBSET Gateways, UplinkEnds(H)
  PROVE  /\ UplinkNumbers'
         /\ Len(devQueue) \in Nat /\ Len(devQueue) > 0
         /\ uplink'.fcnt = devFCnt - Len(devQueue) + 1
         /\ \/ txPkt' = TRUE /\ Len(devQueue') = Len(devQueue)
            \/ txPkt' = FALSE /\ Len(devQueue') = Len(devQueue) - 1
<1> DEFINE f == Head(devQueue)
           last == ~f.con /\ f.left = 1
<1>1. /\ devQueue # <<>> /\ f.left > 0 /\ devFCnt' = devFCnt
      /\ uplink' = [fcnt |-> f.fcnt, con |-> f.con, ack |-> f.ack, b |-> f.b]
      /\ devQueue' = IF last THEN Tail(devQueue) ELSE OneFewer(devQueue)
      /\ txPkt' = ~last
  BY DEF UplinkEnds
<1>2. f.fcnt = devFCnt - Len(devQueue) + 1
  BY <1>1, HeadNumber DEF CycleInv
<1>3. f \in Queued /\ Sent(f) \in Queued /\ Sent(f).fcnt = f.fcnt
  <2>1. f \in Queued
    BY <1>1, RemovedAt DEF CycleInv, TypeOK
  <2> QED BY <1>1, <2>1, SentQueued
<1>4. /\ devQueue \in Seq(Queued) /\ devFCnt \in Nat
      /\ Len(devQueue) \in Nat /\ Len(devQueue) > 0
  BY <1>1, RemovedAt DEF CycleInv, TypeOK
<1>5. /\ Len(devQueue) <= devFCnt
      /\ \A i \in 1..Len(devQueue) : devQueue[i].fcnt = devFCnt - Len(devQueue) + i
  BY DEF UplinkNumbers
<1>6. uplink'.fcnt = devFCnt - Len(devQueue) + 1
  BY <1>1, <1>2
<1>7. CASE last
  <2>1. /\ Len(devQueue') = Len(devQueue) - 1 /\ txPkt' = FALSE
        /\ \A i \in 1..Len(devQueue) - 1 : devQueue'[i] = devQueue[i + 1]
    BY <1>1, <1>4, <1>7, RemovedAt
  <2> HIDE DEF f, last
  <2>2. ASSUME NEW i \in 1..Len(devQueue')
        PROVE  devQueue'[i].fcnt = devFCnt' - Len(devQueue') + i
    <3>1. i + 1 \in 1..Len(devQueue) /\ devQueue'[i] = devQueue[i + 1]
      BY <1>4, <2>1
    <3>2. devQueue'[i].fcnt = devFCnt - Len(devQueue) + (i + 1)
      BY <1>5, <3>1
    <3>3. devFCnt' = devFCnt /\ Len(devQueue') = Len(devQueue) - 1
      BY <1>1, <2>1
    <3> QED BY <1>4, <3>2, <3>3
  <2>3. Len(devQueue') <= devFCnt' /\ uplink'.fcnt = devFCnt' - Len(devQueue') + 0
    BY <1>1, <1>4, <1>5, <1>6, <2>1
  <2>4. UplinkNumbers'
    BY <2>1, <2>2, <2>3 DEF UplinkNumbers
  <2> QED BY <1>4, <1>6, <2>1, <2>4
<1>8. CASE ~last
  <2>1. devQueue' = OneFewer(devQueue) /\ txPkt' = TRUE
    BY <1>1, <1>8
  <2> HIDE DEF last
  <2>2. /\ Len(devQueue') = Len(devQueue) /\ devQueue'[1] = Sent(f)
        /\ \A i \in 1..Len(devQueue) : i > 1 => devQueue'[i] = devQueue[i]
    BY <1>1, <1>3, <1>4, <2>1, SentAt
  <2> HIDE DEF f
  <2>3. ASSUME NEW i \in 1..Len(devQueue')
        PROVE  devQueue'[i].fcnt = devFCnt' - Len(devQueue') + i
    <3>1. CASE i = 1
      <4>1. devQueue'[i].fcnt = devFCnt - Len(devQueue) + 1
        BY <1>2, <1>3, <2>2, <3>1
      <4> QED BY <1>1, <2>2, <3>1, <4>1
    <3>2. CASE i # 1
      <4>1. i > 1 /\ i \in 1..Len(devQueue)
        BY <1>4, <2>2, <3>2
      <4>2. devQueue'[i].fcnt = devFCnt - Len(devQueue) + i
        BY <1>5, <2>2, <4>1
      <4> QED BY <1>1, <2>2, <4>2
    <3> QED BY <3>1, <3>2
  <2>4. Len(devQueue') <= devFCnt' /\ uplink'.fcnt = devFCnt' - Len(devQueue') + 1
    BY <1>1, <1>4, <1>5, <1>6, <2>2
  <2>5. UplinkNumbers'
    BY <2>1, <2>3, <2>4 DEF UplinkNumbers
  <2> QED BY <1>4, <1>6, <2>1, <2>2, <2>5
<1> QED BY <1>7, <1>8

\* The number of the first downlink of the server's queue.
LEMMA DownlinkHead ==
  ASSUME TypeOK, DownlinkNumbers, dsQueue # <<>>
  PROVE  /\ Len(dsQueue) \in Nat /\ Len(dsQueue) > 0 /\ downlinks \in Nat
         /\ Head(dsQueue).id = downlinks - Len(dsQueue) + 1
<1>1. Len(dsQueue) \in Nat /\ Len(dsQueue) > 0 /\ Head(dsQueue) = dsQueue[1]
  BY RemovedAt DEF TypeOK
<1> QED BY <1>1 DEF DownlinkNumbers, TypeOK

\* A new downlink gets the next number and the last place.
LEMMA DSTimerNumbers ==
  ASSUME CycleInv, DownlinkNumbers, DSTimerExpired
  PROVE  /\ DownlinkNumbers'
         /\ Len(dsQueue) \in Nat /\ Len(dsQueue') = Len(dsQueue) + 1
<1>1. PICK con \in DownTypes : dsQueue' = Append(dsQueue,
        [id |-> downlinks + 1, con |-> con,
         left |-> IF con THEN NbTransDown ELSE 1])
  BY DEF DSTimerExpired
<1> DEFINE f == [id |-> downlinks + 1, con |-> con,
                 left |-> IF con THEN NbTransDown ELSE 1]
<1>2. f \in Pending /\ f.id = downlinks + 1
  BY ServerAssumption DEF CycleInv, TypeOK, Pending, Positive
<1>3. dsQueue' = Append(dsQueue, f) /\ dsQueue \in Seq(Pending) /\ downlinks \in Nat
  BY <1>1 DEF CycleInv, TypeOK
<1> HIDE DEF f
<1>4. /\ Len(dsQueue) \in Nat /\ Len(dsQueue') = Len(dsQueue) + 1
      /\ \A i \in 1..Len(dsQueue) + 1 :
           dsQueue'[i] = IF i = Len(dsQueue) + 1 THEN f ELSE dsQueue[i]
  BY <1>2, <1>3, AppendedAt
<1>5. downlinks' = downlinks + 1
  BY DEF DSTimerExpired
<1>6. /\ Len(dsQueue) <= downlinks
      /\ \A i \in 1..Len(dsQueue) : dsQueue[i].id = downlinks - Len(dsQueue) + i
  BY DEF DownlinkNumbers
<1>7. ASSUME NEW i \in 1..Len(dsQueue')
      PROVE  dsQueue'[i].id = downlinks' - Len(dsQueue') + i
  <2>1. CASE i = Len(dsQueue) + 1
    <3>1. dsQueue'[i].id = downlinks + 1
      BY <1>2, <1>4, <2>1
    <3> QED BY <1>3, <1>4, <1>5, <2>1, <3>1
  <2>2. CASE i # Len(dsQueue) + 1
    <3>1. i \in 1..Len(dsQueue) /\ dsQueue'[i] = dsQueue[i]
      BY <1>4, <2>2
    <3>2. dsQueue'[i].id = downlinks - Len(dsQueue) + i
      BY <1>6, <3>1
    <3> QED BY <1>3, <1>4, <1>5, <3>2
  <2> QED BY <2>1, <2>2
<1>8. Len(dsQueue') <= downlinks'
  BY <1>3, <1>4, <1>5, <1>6
<1> QED BY <1>4, <1>7, <1>8 DEF DownlinkNumbers

\* What a transmission in RW1 or RW2 does to the server's queue.
LEMMA SendDSPacketNumbers ==
  ASSUME CycleInv, DownlinkNumbers, NEW g \in Gateways, SendDSPacket(g),
         downlinks' = downlinks
  PROVE  DownlinkNumbers'
<1>1. \/ dsQueue' = dsQueue
      \/ dsQueue # <<>> /\ dsQueue' = AfterTransmission
  BY DEF SendDSPacket
<1> QED BY <1>1, DownlinkNumbersKept DEF AfterTransmission

-----------------------------------------------------------------------------
(* The invariant.                                                          *)

\* The frames of the device keep their numbers through every action.
LEMMA UplinkNumbersStep ==
  ASSUME CycleInv, UplinkNumbers, [Next]_vars
  PROVE  UplinkNumbers'
<1>1. CASE SendPacket
  BY <1>1, SendPacketNumbers
<1>2. CASE \E H \in SUBSET Gateways : UplinkEnds(H)
  BY <1>2, UplinkEndsNumbers
<1>3. CASE ReceiveDownlink
  <2>1. CASE txPkt /\ devQueue' = Tail(devQueue) /\ txPkt' = FALSE
    BY <1>3, <2>1, FrameFinished DEF ReceiveDownlink
  <2>2. CASE UNCHANGED <<devQueue, txPkt>>
    BY <1>3, <2>2 DEF ReceiveDownlink, UplinkNumbers
  <2> QED BY <1>3, <2>1, <2>2 DEF ReceiveDownlink, FrameWaitsForAck
<1>4. CASE GiveUp
  BY <1>4, FrameFinished DEF GiveUp, Exhausted
<1>5. CASE UNCHANGED <<devQueue, txPkt, devFCnt, uplink>>
  BY <1>5 DEF UplinkNumbers
<1>6. CASE LoseDownlink \/ LeaveClassB \/ Tick
  BY <1>5, <1>6 DEF LoseDownlink, LeaveClassB, Tick, deviceVars
<1>7. CASE \E g \in Gateways : HandleUSPacket(g)
  BY <1>5, <1>7 DEF HandleUSPacket, deviceVars
<1>8. CASE RW1TimerExpired \/ RW2TimerExpired \/ DSTimerExpired
  BY <1>5, <1>8 DEF RW1TimerExpired, RW2TimerExpired, DSTimerExpired, deviceVars
<1>9. CASE ClassBDSTimerExpired \/ ClassBSendBeacon \/ ClassBPingSlot \/ UNCHANGED vars
  BY <1>5, <1>9 DEF ClassBDSTimerExpired, ClassBSendBeacon, ClassBPingSlot,
     deviceVars, vars
<1> QED BY <1>1, <1>2, <1>3, <1>4, <1>6, <1>7, <1>8, <1>9 DEF Next

\* So do the downlinks of the server.
LEMMA DownlinkNumbersStep ==
  ASSUME CycleInv, DownlinkNumbers, [Next]_vars
  PROVE  DownlinkNumbers'
<1>1. CASE DSTimerExpired
  BY <1>1, DSTimerNumbers
<1>2. CASE \E g \in Gateways : HandleUSPacket(g)
  <2>1. PICK g \in Gateways : HandleUSPacket(g)
    BY <1>2
  <2>2. /\ downlinks' = downlinks
        /\ dsQueue' = dsQueue \/ (dsQueue # <<>> /\ dsQueue' = Tail(dsQueue))
    BY <2>1 DEF HandleUSPacket, ProcessUplink, AckRemoves
  <2> QED BY <2>2, DownlinkNumbersKept
<1>3. CASE RW1TimerExpired \/ RW2TimerExpired
  <2>1. /\ downlinks' = downlinks
        /\ \/ \E g \in lastGWs : SendDSPacket(g)
           \/ dsQueue' = dsQueue
    BY <1>3 DEF RW1TimerExpired, RW2TimerExpired
  <2>2. lastGWs \subseteq Gateways
    BY DEF CycleInv, TypeOK
  <2> QED BY <2>1, <2>2, SendDSPacketNumbers DEF DownlinkNumbers
<1>4. CASE UNCHANGED <<downlinks, dsQueue>>
  BY <1>4 DEF DownlinkNumbers
<1>5. CASE SendPacket \/ (\E H \in SUBSET Gateways : UplinkEnds(H)) \/ ReceiveDownlink
  BY <1>4, <1>5 DEF SendPacket, UplinkEnds, ReceiveDownlink, historyVars
<1>6. CASE LoseDownlink \/ GiveUp \/ LeaveClassB \/ Tick
  BY <1>4, <1>6 DEF LoseDownlink, GiveUp, LeaveClassB, Tick, historyVars
<1>7. CASE ClassBDSTimerExpired \/ ClassBSendBeacon \/ ClassBPingSlot \/ UNCHANGED vars
  BY <1>4, <1>7 DEF ClassBDSTimerExpired, ClassBSendBeacon, ClassBPingSlot,
     historyVars, vars
<1> QED BY <1>1, <1>2, <1>3, <1>5, <1>6, <1>7 DEF Next

\* The numbers sent only grow, and the server's counter follows them.
LEMMA HeardStep ==
  ASSUME CycleInv, UplinkNumbers, HeardInv, [Next]_vars
  PROVE  HeardInv'
<1> USE DEF HeardInv
<1>1. uplink.fcnt \in Nat /\ fCntUp \in Nat /\ devFCnt \in Nat
  BY DEF CycleInv, TypeOK, Uplinks
<1>2. CASE \E H \in SUBSET Gateways : UplinkEnds(H)
  <2>1. PICK H \in SUBSET Gateways : UplinkEnds(H)
    BY <1>2
  <2>2. /\ Len(devQueue) \in Nat
        /\ uplink'.fcnt = devFCnt - Len(devQueue) + 1
    BY <2>1, UplinkEndsNumbers
  <2>3. uplink.fcnt <= uplink'.fcnt /\ uplink'.fcnt \in Int
    BY <1>1, <2>2 DEF UplinkNumbers
  <2>4. UNCHANGED <<fCntUp, heard>>
    BY <2>1 DEF UplinkEnds
  <2> QED BY <1>1, <2>3, <2>4
<1>3. CASE \E g \in Gateways : HandleUSPacket(g)
  <2>1. PICK g \in Gateways : HandleUSPacket(g)
    BY <1>3
  <2>2. uplink' = uplink /\ copies # {} /\ uplink.fcnt > 0
    BY <2>1 DEF HandleUSPacket, CycleInv, CopyInv
  <2>3. CASE Duplicate
    <3>1. UNCHANGED <<fCntUp, heard>>
      BY <2>1, <2>3 DEF HandleUSPacket
    <3> QED BY <2>2, <3>1
  <2>4. CASE ~Duplicate
    <3>1. /\ fCntUp' = IF Known THEN fCntUp ELSE uplink.fcnt
          /\ heard' = heard \cup {uplink.fcnt}
      BY <2>1, <2>4 DEF HandleUSPacket, ProcessUplink
    <3>2. fCntUp' = uplink.fcnt
      BY <1>1, <3>1 DEF Known
    <3>3. ASSUME NEW n \in heard'
          PROVE  n \in 1..fCntUp'
      <4>1. CASE n \in heard
        BY <1>1, <3>2, <4>1
      <4>2. CASE n = uplink.fcnt
        BY <1>1, <2>2, <3>2, <4>2
      <4> QED BY <3>1, <4>1, <4>2
    <3>4. fCntUp' \in heard' /\ fCntUp' <= uplink'.fcnt
      BY <1>1, <2>2, <3>1, <3>2
    <3> QED BY <3>3, <3>4
  <2> QED BY <2>3, <2>4
<1>4. CASE UNCHANGED <<uplink, fCntUp, heard>>
  BY <1>4
<1>5. CASE SendPacket \/ ReceiveDownlink \/ LoseDownlink \/ GiveUp
  BY <1>4, <1>5 DEF SendPacket, ReceiveDownlink, LoseDownlink, GiveUp, historyVars
<1>6. CASE LeaveClassB \/ Tick \/ DSTimerExpired
  BY <1>4, <1>6 DEF LeaveClassB, Tick, DSTimerExpired, historyVars
<1>7. CASE RW1TimerExpired \/ RW2TimerExpired
  BY <1>4, <1>7 DEF RW1TimerExpired, RW2TimerExpired
<1>8. CASE ClassBDSTimerExpired \/ ClassBSendBeacon \/ ClassBPingSlot \/ UNCHANGED vars
  BY <1>4, <1>8 DEF ClassBDSTimerExpired, ClassBSendBeacon, ClassBPingSlot,
     historyVars, vars
<1> QED BY <1>2, <1>3, <1>5, <1>6, <1>7, <1>8 DEF Next

\* Both queues are empty, and nothing is heard, before the first frame.
LEMMA LinkInitInv == Init => ServerInv
<1> SUFFICES ASSUME Init PROVE ServerInv
  OBVIOUS
<1>1. UplinkNumbers /\ DownlinkNumbers /\ HeardInv
  BY DEF Init, UplinkNumbers, DownlinkNumbers, HeardInv
<1> QED BY <1>1, InitInv DEF ServerInv

\* Every step keeps all of it.
LEMMA LinkStepInv == ServerInv /\ [Next]_vars => ServerInv'
  BY StepInv, UplinkNumbersStep, DownlinkNumbersStep, HeardStep DEF ServerInv

\* The whole invariant of device and server: their timers belong to one exchange, their
\* queues hold the numbers given last, and the server's counter is that of the latest
\* frame it has heard.
THEOREM ServerInvariant == Spec => []ServerInv
  BY LinkInitInv, LinkStepInv, PTL DEF Spec

-----------------------------------------------------------------------------
(* The refinement.                                                         *)

\* The exchange is over between two cycles and once the answer is on the air.
LEMMA ExchangeOver ==
  ASSUME CycleInv, phase # "cycle" \/ Answering
  PROVE  Exchange = "closed"
  BY DEF CycleInv, RWTimerInv, CopyInv, AnswerInv, Seen, Exchange, NewTransmission

\* An answer belongs to the exchange of the last transmission.
LEMMA ExchangeKept ==
  ASSUME UNCHANGED <<rw1Timer, rw2Timer, copies, uplink, fCntUp, sinceSeen>>
  PROVE  Exchange' = Exchange
  BY DEF Exchange, NewTransmission, Duplicate, Known

\* The air of LinkService is empty exactly if no gateway sends.
LEMMA AirFacts ==
  ASSUME CycleInv
  PROVE  /\ OnAir = Link!Nothing <=> downlink = NoFrame
         /\ OnAir.kind = "answer" <=> Answering
         /\ OnAir.ack = downlink.ack
<1>1. CASE downlink = NoFrame
  BY <1>1 DEF OnAir, Link!Nothing, Answering, NoFrame
<1>2. CASE downlink # NoFrame
  <2>1. OnAir = [kind |-> IF downlink.ping THEN "ping" ELSE "answer",
                 ack |-> downlink.ack, id |-> downlink.id]
    BY <1>2 DEF OnAir
  <2>2. OnAir.kind = IF downlink.ping THEN "ping" ELSE "answer"
    BY <2>1
  <2>3. OnAir.kind # "none" /\ Link!Nothing.kind = "none"
    BY <2>2 DEF Link!Nothing
  <2> QED BY <1>2, <2>1, <2>2, <2>3 DEF Answering
<1> QED BY <1>1, <1>2

\* The number of the frame last sent, in both specifications.
LEMMA FrameIsUplink ==
  ASSUME CycleInv, UplinkNumbers
  PROVE  /\ Link!Frame = uplink.fcnt
         /\ devFCnt \in Nat /\ Len(devQueue) \in Nat
<1>1. devFCnt \in Nat /\ Len(devQueue) \in Nat
  BY DEF CycleInv, TypeOK
<1> QED BY <1>1 DEF UplinkNumbers, Link!Frame

\* The device's side of LinkService only depends on its queue and counter.
LEMMA DeviceKept ==
  ASSUME UNCHANGED <<devQueue, txPkt, devFCnt>>
  PROVE  UNCHANGED Link!uplinkVars
  BY DEF Link!uplinkVars

\* The server's side of LinkService depends on its queue and what it has generated.
LEMMA ServerKept ==
  ASSUME UNCHANGED <<downlinks, dsQueue>>
  PROVE  UNCHANGED Link!downlinkVars
  BY DEF Link!downlinkVars

\* The air of LinkService is what a gateway sends.
LEMMA AirKept ==
  ASSUME UNCHANGED downlink
  PROVE  OnAir' = OnAir
  BY DEF OnAir

\* What leaves all of this alone is a stutter.
LEMMA LinkKept ==
  ASSUME UNCHANGED <<devQueue, txPkt, devFCnt, heard, setAck, downlinks, dsQueue,
                     downlink>>,
         Exchange' = Exchange
  PROVE  UNCHANGED Link!vars
  BY DeviceKept, ServerKept, AirKept DEF Link!vars

\* A frame handed to the MAC is submitted.
LEMMA SendPacketSubmits ==
  ASSUME ServerInv, SendPacket
  PROVE  Link!Submit
<1>1. Len(devQueue) \in Nat /\ Len(devQueue') = Len(devQueue) + 1
  BY SendPacketNumbers DEF ServerInv
<1>2. devFCnt' = devFCnt + 1 /\ devFCnt \in Nat
  BY DEF SendPacket, ServerInv, CycleInv, TypeOK
<1>3. devFCnt' - Len(devQueue') = devFCnt - Len(devQueue)
  BY <1>1, <1>2
<1>4. /\ txPkt' = txPkt /\ heard' = heard /\ setAck' = setAck
      /\ UNCHANGED <<downlinks, dsQueue, downlink>>
      /\ UNCHANGED <<rw1Timer, rw2Timer, copies, uplink, fCntUp, sinceSeen>>
  BY DEF SendPacket, historyVars, timerVars
<1>5. Exchange' = Exchange /\ OnAir' = OnAir /\ UNCHANGED Link!downlinkVars
  BY <1>4, ExchangeKept, AirKept, ServerKept
<1> QED BY <1>2, <1>3, <1>4, <1>5 DEF Link!Submit

\* A transmission begins when the exchange before it is over, and may finish its frame.
LEMMA UplinkEndsTransmits ==
  ASSUME ServerInv, NEW H \in SUBSET Gateways, UplinkEnds(H)
  PROVE  Link!Transmit
<1>1. /\ Len(devQueue) \in Nat /\ Len(devQueue) > 0
      /\ \/ txPkt' = TRUE /\ Len(devQueue') = Len(devQueue)
         \/ txPkt' = FALSE /\ Len(devQueue') = Len(devQueue) - 1
  BY UplinkEndsNumbers DEF ServerInv
<1>2. /\ phase = "idle" /\ devFCnt' = devFCnt /\ heard' = heard /\ setAck' = setAck
      /\ UNCHANGED <<rw1Timer, rw2Timer, downlinks, dsQueue, downlink>>
  BY DEF UplinkEnds, Idle, timerVars
<1>3. devFCnt \in Nat
  BY DEF ServerInv, CycleInv, TypeOK
<1>4. Link!Quiet
  <2>1. ~Answering
    BY <1>2 DEF ServerInv, CycleInv, AnswerInv, Seen
  <2> QED BY <1>2, <2>1, ExchangeOver, AirFacts DEF ServerInv, Link!Quiet
<1>5. Exchange' \in {"sent", "closed"}
  <2>1. rw1Timer = OFF /\ rw2Timer = OFF
    BY <1>2 DEF ServerInv, CycleInv, RWTimerInv, Seen
  <2> QED BY <1>2, <2>1 DEF Exchange
<1>6. \/ Link!FinishFrame
      \/ txPkt' = TRUE /\ devFCnt' - Len(devQueue') = devFCnt - Len(devQueue)
  BY <1>1, <1>2, <1>3 DEF Link!FinishFrame
<1>7. OnAir' = OnAir /\ UNCHANGED Link!downlinkVars
  BY <1>2, AirKept, ServerKept
<1>8. devFCnt - Len(devQueue) < devFCnt
  BY <1>1, <1>3
<1> QED BY <1>2, <1>4, <1>5, <1>6, <1>7, <1>8 DEF Link!Transmit

\* The first copy is heard, the others change nothing an application sees.
LEMMA HandleUSPacketHears ==
  ASSUME ServerInv, NEW g \in Gateways, HandleUSPacket(g)
  PROVE  Link!Hear \/ UNCHANGED Link!vars
<1>1. /\ g \in copies /\ rw2Timer' = rw2Timer
      /\ UNCHANGED <<devQueue, txPkt, devFCnt, downlinks, downlink>>
  BY DEF HandleUSPacket, deviceVars
<1>2. CASE Duplicate
  <2>1. /\ rw1Timer = RECEIVE_DELAY1 /\ RECEIVE_DELAY1 # OFF
    BY <1>1, <1>2, DuplicateMeansSeen, ServerAssumption DEF ServerInv, Positive, OFF
  <2>2. UNCHANGED <<rw1Timer, heard, setAck, dsQueue>>
    BY <1>2 DEF HandleUSPacket
  <2>3. Exchange = "heard" /\ Exchange' = "heard"
    BY <2>1, <2>2 DEF Exchange
  <2> QED BY <1>1, <2>2, <2>3, LinkKept
<1>3. CASE ~Duplicate
  <2>1. rw1Timer = OFF /\ rw2Timer = OFF
    BY <1>1, <1>3, DuplicateMeansSeen DEF ServerInv
  <2>2. ProcessUplink
    BY <1>3 DEF HandleUSPacket
  <2>3. Exchange = "sent"
    BY <1>1, <1>3, <2>1 DEF Exchange, NewTransmission
  <2>4. rw1Timer' # OFF
    BY <2>2, ServerAssumption DEF ProcessUplink, Positive, OFF
  <2>5. Exchange' = "heard"
    BY <2>4 DEF Exchange
  <2>6. heard' = heard \cup {Link!Frame} /\ setAck' \in {setAck, TRUE}
    <3>1. heard' = heard \cup {Link!Frame}
      BY <2>2, FrameIsUplink DEF ServerInv, ProcessUplink
    <3>2. /\ setAck' = (setAck \/ uplink.con)
          /\ setAck \in BOOLEAN /\ uplink.con \in BOOLEAN
      BY <2>2 DEF ServerInv, CycleInv, TypeOK, Uplinks, ProcessUplink
    <3> QED BY <3>1, <3>2
  <2>7. UNCHANGED Link!uplinkVars /\ OnAir' = OnAir
    BY <1>1, DeviceKept, AirKept
  <2>8. \/ downlinks' - Len(dsQueue') = downlinks - Len(dsQueue)
        \/ /\ Link!Frame \notin heard /\ Link!Waiting
           /\ downlinks' - Len(dsQueue') = downlinks - Len(dsQueue) + 1
    <3>1. CASE AckRemoves
      <4>1. dsQueue # <<>> /\ dsQueue' = Tail(dsQueue)
        BY <2>2, <3>1 DEF ProcessUplink, AckRemoves
      <4>2. /\ Len(dsQueue) \in Nat /\ Len(dsQueue) > 0
            /\ Len(dsQueue') = Len(dsQueue) - 1 /\ downlinks \in Nat
        BY <4>1, RemovedAt DEF ServerInv, CycleInv, TypeOK
      <4>3. Link!Waiting
        BY <4>2 DEF Link!Waiting
      <4>4. uplink.fcnt > fCntUp /\ uplink.fcnt \in Nat /\ fCntUp \in Nat
        BY <3>1 DEF AckRemoves, ProcessMACAck, Known, ServerInv, CycleInv, TypeOK,
           Uplinks
      <4>5. uplink.fcnt \notin heard
        BY <4>4 DEF ServerInv, HeardInv
      <4> QED BY <1>1, <4>2, <4>3, <4>5, FrameIsUplink DEF ServerInv
    <3>2. CASE ~AckRemoves
      BY <1>1, <2>2, <3>2 DEF ProcessUplink
    <3> QED BY <3>1, <3>2
  <2> QED BY <1>1, <2>3, <2>5, <2>6, <2>7, <2>8 DEF Link!Hear
<1> QED BY <1>2, <1>3

\* What SendDSPacket makes of an exchange in which the server has heard a frame.
LEMMA SendDSPacketAnswers ==
  ASSUME ServerInv, NEW g \in Gateways, SendDSPacket(g), downlink = NoFrame,
         Exchange = "heard", Exchange' = "closed",
         UNCHANGED <<devQueue, txPkt, devFCnt, heard, downlinks>>
  PROVE  Link!Answer \/ Link!NoAnswer
<1>1. UNCHANGED Link!uplinkVars /\ OnAir = Link!Nothing
  BY DeviceKept, AirFacts DEF ServerInv
<1>2. setAck \in BOOLEAN /\ downlinks \in Nat /\ Len(dsQueue) \in Nat
  BY DEF ServerInv, CycleInv, TypeOK
<1>3. CASE dsQueue # <<>>
  <2>1. /\ dsQueue' = AfterTransmission /\ setAck' = FALSE
        /\ downlink' = [ack |-> setAck, con |-> Head(dsQueue).con,
                        id |-> Head(dsQueue).id, gw |-> {g}, ping |-> FALSE]
    BY <1>3 DEF SendDSPacket
  <2>2. Len(dsQueue) > 0 /\ Head(dsQueue).id = downlinks - Len(dsQueue) + 1
    BY <1>3, DownlinkHead DEF ServerInv, CycleInv
  <2>3. Link!Waiting
    BY <1>2, <2>2 DEF Link!Waiting
  <2>4. \/ Len(dsQueue') = Len(dsQueue)
        \/ Len(dsQueue') = Len(dsQueue) - 1
    <3>1. \/ Head(dsQueue).left > 1 /\ dsQueue' = OneFewer(dsQueue)
          \/ dsQueue' = Tail(dsQueue)
      BY <2>1 DEF AfterTransmission
    <3> QED BY <1>3, <3>1, DownlinkNumbersKept DEF ServerInv
  <2>5. \/ downlinks' - Len(dsQueue') = downlinks - Len(dsQueue)
        \/ downlinks' - Len(dsQueue') = downlinks - Len(dsQueue) + 1
    BY <1>2, <2>4
  <2>6. OnAir' = [kind |-> "answer", ack |-> setAck,
                  id |-> downlinks - Len(dsQueue) + 1]
    <3>1. downlink' # NoFrame /\ ~downlink'.ping
      BY <2>1 DEF NoFrame
    <3> QED BY <2>1, <2>2, <3>1 DEF OnAir
  <2> QED BY <1>1, <2>1, <2>3, <2>5, <2>6 DEF Link!Answer
<1>4. CASE dsQueue = <<>> /\ setAck
  <2>1. /\ dsQueue' = dsQueue /\ setAck' = FALSE
        /\ downlink' = [ack |-> TRUE, con |-> FALSE, id |-> 0, gw |-> {g},
                        ping |-> FALSE]
    BY <1>4 DEF SendDSPacket
  <2>2. ~Link!Waiting
    BY <1>2, <1>4 DEF Link!Waiting
  <2>3. OnAir' = [kind |-> "answer", ack |-> setAck, id |-> 0]
    <3>1. downlink' # NoFrame /\ ~downlink'.ping
      BY <2>1 DEF NoFrame
    <3> QED BY <1>2, <1>4, <2>1, <3>1 DEF OnAir
  <2> QED BY <1>1, <1>4, <2>1, <2>2, <2>3 DEF Link!Answer
<1>5. CASE dsQueue = <<>> /\ ~setAck
  <2>1. UNCHANGED <<downlink, dsQueue, setAck>>
    BY <1>5 DEF SendDSPacket
  <2>2. OnAir' = OnAir /\ UNCHANGED Link!downlinkVars
    BY <2>1, AirKept, ServerKept
  <2> QED BY <1>1, <2>1, <2>2 DEF Link!NoAnswer
<1> QED BY <1>3, <1>4, <1>5

\* When the RW1 timer ends, the exchange ends with an answer or waits for RW2.
LEMMA RW1TimerAnswers ==
  ASSUME ServerInv, RW1TimerExpired
  PROVE  Link!Answer \/ Link!NoAnswer \/ UNCHANGED Link!vars
<1> USE ServerAssumption DEF Positive
<1>1. /\ rw1Timer = 0 /\ rw1Timer' = OFF /\ downlink = NoFrame
      /\ UNCHANGED <<devQueue, txPkt, devFCnt, heard, downlinks, copies>>
  BY DEF RW1TimerExpired, deviceVars
<1>2. Exchange = "heard"
  BY <1>1 DEF Exchange, OFF
<1>3. Seen /\ sinceTx = RECEIVE_DELAY1 /\ copies = {}
  BY <1>1 DEF ServerInv, CycleInv, TypeOK, RWTimerInv, CopyInv, OFF
<1>4. CASE (\E g \in lastGWs : SendDSPacket(g)) /\ rw2Timer' = RW2AfterAnswer
  <2>1. PICK g \in lastGWs : SendDSPacket(g)
    BY <1>4
  <2>2. g \in Gateways
    BY DEF ServerInv, CycleInv, TypeOK
  <2>3. Exchange' = "closed"
    BY <1>1, <1>3, <1>4 DEF Exchange, NewTransmission, RW2AfterAnswer
  <2> QED BY <1>1, <1>2, <2>1, <2>2, <2>3, SendDSPacketAnswers
<1>5. CASE rw2Timer' = DelayToRW2 /\ UNCHANGED <<downlink, dsQueue, setAck, answered>>
  <2>1. rw2Timer' # OFF
    BY <1>3, <1>5 DEF DelayToRW2, Seen, OFF
  <2>2. Exchange' = "heard"
    BY <2>1 DEF Exchange
  <2> QED BY <1>1, <1>2, <1>5, <2>2, LinkKept
<1> QED BY <1>4, <1>5 DEF RW1TimerExpired

\* When the RW2 timer ends, the exchange ends.
LEMMA RW2TimerAnswers ==
  ASSUME ServerInv, RW2TimerExpired
  PROVE  Link!Answer \/ Link!NoAnswer
<1> USE ServerAssumption DEF Positive
<1>1. /\ rw2Timer = 0 /\ rw2Timer' = OFF /\ downlink = NoFrame
      /\ UNCHANGED <<devQueue, txPkt, devFCnt, heard, downlinks, copies, rw1Timer>>
  BY DEF RW2TimerExpired, deviceVars
<1>2. Exchange = "heard"
  BY <1>1 DEF Exchange, OFF
<1>3. rw1Timer = OFF /\ copies = {}
  BY <1>1 DEF ServerInv, CycleInv, TypeOK, RWTimerInv, CopyInv, OFF
<1>4. Exchange' = "closed"
  BY <1>1, <1>3 DEF Exchange, NewTransmission
<1>5. CASE \E g \in lastGWs : SendDSPacket(g)
  <2>1. PICK g \in lastGWs : SendDSPacket(g)
    BY <1>5
  <2>2. g \in Gateways
    BY DEF ServerInv, CycleInv, TypeOK
  <2> QED BY <1>1, <1>2, <1>4, <2>1, <2>2, SendDSPacketAnswers
<1>6. CASE UNCHANGED <<downlink, dsQueue, setAck, answered>>
  <2>1. UNCHANGED Link!uplinkVars /\ UNCHANGED Link!downlinkVars /\ OnAir' = OnAir
    BY <1>1, <1>6, DeviceKept, ServerKept, AirKept
  <2> QED BY <1>1, <1>2, <1>4, <1>6, <2>1 DEF Link!NoAnswer
<1> QED BY <1>5, <1>6 DEF RW2TimerExpired

\* A frame in a ping slot goes out whatever the exchange is.
LEMMA PingSlotPings ==
  ASSUME ServerInv, ClassBPingSlot
  PROVE  Link!Ping \/ UNCHANGED Link!vars
<1>1. /\ downlink = NoFrame
      /\ UNCHANGED <<devQueue, txPkt, devFCnt, heard, setAck, downlinks, dsQueue>>
      /\ UNCHANGED <<rw1Timer, rw2Timer, copies, uplink, fCntUp, sinceSeen>>
  BY DEF ClassBPingSlot, deviceVars, timerVars, historyVars
<1>2. Exchange' = Exchange
  BY <1>1, ExchangeKept
<1>3. CASE downlink' = downlink
  BY <1>1, <1>2, <1>3, LinkKept
<1>4. ASSUME NEW g \in lastGWs,
             downlink' = [ack |-> setAck, con |-> FALSE, id |-> 0,
                          gw |-> {g}, ping |-> TRUE]
      PROVE  Link!Ping
  <2>1. downlink' # NoFrame /\ downlink'.ping
    BY <1>4 DEF NoFrame
  <2>2. OnAir' = [kind |-> "ping", ack |-> setAck, id |-> 0]
    BY <1>4, <2>1 DEF OnAir
  <2>3. UNCHANGED Link!uplinkVars /\ UNCHANGED Link!downlinkVars
    BY <1>1, DeviceKept, ServerKept
  <2>4. OnAir = Link!Nothing
    BY <1>1, AirFacts DEF ServerInv
  <2> QED BY <1>1, <1>2, <2>2, <2>3, <2>4 DEF Link!Ping
<1> QED BY <1>3, <1>4 DEF ClassBPingSlot

\* The frame an Ack finishes is the one last sent; if an answer carries the Ack, the
\* server has heard it.
LEMMA ReceiveDownlinkArrives ==
  ASSUME ServerInv, ReceiveDownlink
  PROVE  Link!Acknowledge \/ Link!Arrive
<1>1. /\ downlink # NoFrame /\ downlink' = NoFrame
      /\ IF downlink.ping THEN Idle /\ devClassB ELSE InWindow
      /\ UNCHANGED <<devFCnt, heard, setAck, downlinks, dsQueue>>
      /\ UNCHANGED <<rw1Timer, rw2Timer, copies, uplink, fCntUp, sinceSeen>>
  BY DEF ReceiveDownlink, timerVars
<1>2. UNCHANGED Link!downlinkVars /\ OnAir # Link!Nothing /\ OnAir' = Link!Nothing
  <2>1. OnAir' = Link!Nothing
    BY <1>1 DEF OnAir, Link!Nothing, NoFrame
  <2> QED BY <1>1, <2>1, ServerKept, AirFacts DEF ServerInv
<1>3. Exchange = "closed" /\ Exchange' = Exchange
  <2>1. phase # "cycle" \/ Answering
    BY <1>1 DEF Idle, Answering
  <2> QED BY <1>1, <2>1, ExchangeOver, ExchangeKept DEF ServerInv
<1>4. CASE downlink.ack /\ txPkt
  <2>1. devQueue' = Tail(devQueue) /\ txPkt' = FALSE
    BY <1>4 DEF ReceiveDownlink, FrameWaitsForAck
  <2>2. Len(devQueue) \in Nat /\ Len(devQueue') = Len(devQueue) - 1 /\ devFCnt \in Nat
    BY <1>1, <1>4, <2>1, FrameFinished, FrameIsUplink DEF ServerInv
  <2>3. Link!FinishFrame
    <3>1. devFCnt' - Len(devQueue') = devFCnt - Len(devQueue) + 1
      BY <1>1, <2>2
    <3> QED BY <2>1, <3>1 DEF Link!FinishFrame
  <2>4. OnAir.kind = "answer" => Link!Frame \in heard
    <3>1. Answering => uplink.fcnt \in heard
      BY DEF ServerInv, CycleInv, AnswerInv, Seen
    <3> QED BY <3>1, AirFacts, FrameIsUplink DEF ServerInv
  <2>5. OnAir.ack
    BY <1>4, AirFacts DEF ServerInv
  <2> QED BY <1>1, <1>2, <1>3, <1>4, <2>3, <2>4, <2>5 DEF Link!Acknowledge
<1>5. CASE ~(downlink.ack /\ txPkt)
  <2>1. UNCHANGED <<devQueue, txPkt>>
    BY <1>5 DEF ReceiveDownlink, FrameWaitsForAck
  <2>2. UNCHANGED Link!uplinkVars
    BY <1>1, <2>1, DeviceKept
  <2> QED BY <1>1, <1>2, <1>3, <2>2 DEF Link!Arrive
<1> QED BY <1>4, <1>5

\* A frame that is lost is off the air.
LEMMA LoseDownlinkArrives ==
  ASSUME ServerInv, LoseDownlink
  PROVE  Link!Arrive
<1>1. /\ downlink # NoFrame /\ downlink' = NoFrame
      /\ UNCHANGED <<devQueue, txPkt, devFCnt, heard, setAck, downlinks, dsQueue>>
      /\ UNCHANGED <<rw1Timer, rw2Timer, copies, uplink, fCntUp, sinceSeen>>
  BY DEF LoseDownlink, deviceVars, timerVars, historyVars
<1>2. OnAir' = Link!Nothing
  BY <1>1 DEF OnAir, Link!Nothing, NoFrame
<1>3. OnAir # Link!Nothing
  BY <1>1, AirFacts DEF ServerInv
<1>4. UNCHANGED Link!uplinkVars /\ UNCHANGED Link!downlinkVars /\ Exchange' = Exchange
  BY <1>1, DeviceKept, ServerKept, ExchangeKept
<1> QED BY <1>1, <1>2, <1>3, <1>4 DEF Link!Arrive

\* A frame is given up between two cycles.
LEMMA GiveUpGivesUp ==
  ASSUME ServerInv, GiveUp
  PROVE  Link!GiveUp
<1>1. /\ phase = "idle" /\ txPkt /\ devQueue' = Tail(devQueue) /\ txPkt' = FALSE
      /\ UNCHANGED <<devFCnt, heard, setAck, downlinks, dsQueue, downlink>>
      /\ UNCHANGED <<rw1Timer, rw2Timer, copies, uplink, fCntUp, sinceSeen>>
  BY DEF GiveUp, Exhausted, timerVars, historyVars
<1>2. Link!Quiet
  <2>1. ~Answering
    BY <1>1 DEF ServerInv, CycleInv, AnswerInv, Seen
  <2> QED BY <1>1, <2>1, ExchangeOver, AirFacts DEF ServerInv, Link!Quiet
<1>3. Len(devQueue) \in Nat /\ Len(devQueue') = Len(devQueue) - 1 /\ devFCnt \in Nat
  BY <1>1, FrameFinished, FrameIsUplink DEF ServerInv
<1>4. Link!FinishFrame
  <2>1. devFCnt' = devFCnt
    BY <1>1
  <2>2. devFCnt' - Len(devQueue') = devFCnt - Len(devQueue) + 1
    BY <1>3, <2>1
  <2> QED BY <1>1, <2>2 DEF Link!FinishFrame
<1>5. Exchange' = Exchange /\ OnAir' = OnAir /\ UNCHANGED Link!downlinkVars
  BY <1>1, ExchangeKept, AirKept, ServerKept
<1> QED BY <1>1, <1>2, <1>4, <1>5 DEF Link!GiveUp

\* A downlink is generated and finishes nothing.
LEMMA DSTimerGenerates ==
  ASSUME ServerInv, DSTimerExpired
  PROVE  Link!Generate
<1>1. /\ downlinks' = downlinks + 1 /\ downlinks \in Nat
      /\ UNCHANGED <<devQueue, txPkt, devFCnt, heard, setAck, downlink>>
      /\ UNCHANGED <<rw1Timer, rw2Timer, copies, uplink, fCntUp, sinceSeen>>
  BY DEF DSTimerExpired, deviceVars, timerVars, ServerInv, CycleInv, TypeOK
<1>2. Len(dsQueue) \in Nat /\ Len(dsQueue') = Len(dsQueue) + 1
  BY DSTimerNumbers DEF ServerInv
<1>3. downlinks' - Len(dsQueue') = downlinks - Len(dsQueue)
  BY <1>1, <1>2
<1>4. UNCHANGED Link!uplinkVars /\ Exchange' = Exchange /\ OnAir' = OnAir
  BY <1>1, DeviceKept, ExchangeKept, AirKept
<1> QED BY <1>1, <1>3, <1>4 DEF Link!Generate

\* Time is nothing an application sees: it passes when no copy is under way and no
\* timer is due.
LEMMA TickKeepsLink ==
  ASSUME ServerInv, Tick
  PROVE  UNCHANGED Link!vars
<1>1. /\ copies = {} /\ rw1Timer # 0 /\ rw2Timer # 0 /\ copies' = {}
      /\ rw1Timer' = Countdown(rw1Timer) /\ rw2Timer' = Countdown(rw2Timer)
      /\ UNCHANGED <<devQueue, txPkt, devFCnt, heard, setAck, downlinks, dsQueue,
                     downlink>>
  BY DEF Tick, NothingDue, historyVars
<1>2. /\ rw1Timer' = OFF <=> rw1Timer = OFF
      /\ rw2Timer' = OFF <=> rw2Timer = OFF
  BY <1>1, ServerAssumption
     DEF ServerInv, CycleInv, TypeOK, Countdown, OFF, Positive
<1>3. Exchange' = Exchange
  BY <1>1, <1>2 DEF Exchange, NewTransmission
<1> QED BY <1>1, <1>3, LinkKept

\* Neither are the rest of Class B and the device's own mode.
LEMMA OthersKeepLink ==
  ASSUME ServerInv, \/ LeaveClassB \/ ClassBDSTimerExpired \/ ClassBSendBeacon
                    \/ UNCHANGED vars
  PROVE  UNCHANGED Link!vars
<1>1. /\ UNCHANGED <<devQueue, txPkt, devFCnt, heard, setAck, downlinks, dsQueue,
                     downlink>>
      /\ UNCHANGED <<rw1Timer, rw2Timer, copies, uplink, fCntUp, sinceSeen>>
  BY DEF LeaveClassB, ClassBDSTimerExpired, ClassBSendBeacon, vars, deviceVars,
     timerVars, historyVars
<1> QED BY <1>1, ExchangeKept, LinkKept

\* Each action of device, air and server is one of LinkService, or none.
LEMMA LinkStep == ServerInv /\ [Next]_vars => [Link!Next]_(Link!vars)
<1> SUFFICES ASSUME ServerInv, [Next]_vars
             PROVE  Link!Next \/ UNCHANGED Link!vars
  OBVIOUS
<1>1. CASE SendPacket
  BY <1>1, SendPacketSubmits DEF Link!Next
<1>2. CASE \E H \in SUBSET Gateways : UplinkEnds(H)
  BY <1>2, UplinkEndsTransmits DEF Link!Next
<1>3. CASE ReceiveDownlink
  BY <1>3, ReceiveDownlinkArrives DEF Link!Next
<1>4. CASE LoseDownlink
  BY <1>4, LoseDownlinkArrives DEF Link!Next
<1>5. CASE GiveUp
  BY <1>5, GiveUpGivesUp DEF Link!Next
<1>6. CASE \E g \in Gateways : HandleUSPacket(g)
  BY <1>6, HandleUSPacketHears DEF Link!Next
<1>7. CASE RW1TimerExpired
  BY <1>7, RW1TimerAnswers DEF Link!Next
<1>8. CASE RW2TimerExpired
  BY <1>8, RW2TimerAnswers DEF Link!Next
<1>9. CASE DSTimerExpired
  BY <1>9, DSTimerGenerates DEF Link!Next
<1>10. CASE ClassBPingSlot
  BY <1>10, PingSlotPings DEF Link!Next
<1>11. CASE Tick
  BY <1>11, TickKeepsLink
<1>12. CASE LeaveClassB \/ ClassBDSTimerExpired \/ ClassBSendBeacon \/ UNCHANGED vars
  BY <1>12, OthersKeepLink
<1> QED BY <1>1, <1>2, <1>3, <1>4, <1>5, <1>6, <1>7, <1>8, <1>9, <1>10, <1>11,
           <1>12 DEF Next

\* Nothing is submitted, heard or on the air at the start.
LEMMA LinkInit == Init => Link!Init
<1> SUFFICES ASSUME Init PROVE Link!Init
  OBVIOUS
<1>1. devFCnt - Len(devQueue) = 0 /\ downlinks - Len(dsQueue) = 0
  <2>1. devFCnt = 0 /\ Len(devQueue) = 0
    BY DEF Init
  <2>2. downlinks = 0 /\ Len(dsQueue) = 0
    BY DEF Init
  <2> QED BY <2>1, <2>2
<1>2. Exchange = "closed"
  BY DEF Init, Exchange, NewTransmission
<1>3. OnAir = Link!Nothing
  BY DEF Init, OnAir, Link!Nothing, NoFrame
<1> QED BY <1>1, <1>2, <1>3 DEF Init, Link!Init

\* Device and server implement LinkService for any gateways, delays and traffic.
THEOREM LinkImplemented == Spec => ImplementsLink
  BY LinkInit, LinkStep, ServerInvariant, PTL DEF Spec, ImplementsLink, Link!Spec

=============================================================================
