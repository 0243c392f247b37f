------------------------ MODULE NetworkServerProofs ------------------------
(***************************************************************************)
(* Proofs about NetworkServer, for any gateways, traffic and delays that   *)
(* satisfy ServerAssumption.  The invariant CycleInv ties the timers of    *)
(* the server to the cycle of the device: there is one lemma per action,   *)
(* and each safety property follows from the invariant.                    *)
(***************************************************************************)
EXTENDS NetworkServer, SequenceTheorems, TLAPS

-----------------------------------------------------------------------------
(* Queues.                                                                 *)

\* Handing a frame to a queue leaves its first element and the others alone.
LEMMA Appended ==
  ASSUME NEW S, NEW q \in Seq(S), NEW e \in S
  PROVE  /\ Append(q, e) \in Seq(S) /\ Append(q, e) # <<>>
         /\ q # <<>> => Head(Append(q, e)) = Head(q)
         /\ \A i \in 1..Len(Append(q, e)) :
              \/ Append(q, e)[i] = e
              \/ i \in 1..Len(q) /\ Append(q, e)[i] = q[i]
  BY HeadTailAppend, AppendProperties

\* Removing the first element of a queue moves each of the others up by one.
LEMMA Removed ==
  ASSUME NEW S, NEW q \in Seq(S), q # <<>>
  PROVE  /\ Tail(q) \in Seq(S) /\ Head(q) \in S /\ Head(q) = q[1]
         /\ \A i \in 1..Len(Tail(q)) : i + 1 \in 1..Len(q) /\ Tail(q)[i] = q[i + 1]
  OBVIOUS

\* A transmission changes nothing in the queue but the head's counter.
LEMMA OneFewerFacts ==
  ASSUME NEW S, NEW q \in Seq(S), q # <<>>, Sent(Head(q)) \in S
  PROVE  /\ OneFewer(q) \in Seq(S) /\ OneFewer(q) # <<>>
         /\ Head(OneFewer(q)) = Sent(Head(q))
         /\ \A i \in 1..Len(OneFewer(q)) :
              i \in 1..Len(q) /\ (i > 1 => OneFewer(q)[i] = q[i])
         /\ OneFewer(q)[1] = Sent(Head(q))
<1>1. /\ Tail(q) \in Seq(S) /\ Len(q) \in Nat /\ Len(q) > 0
      /\ Len(Tail(q)) = Len(q) - 1
  OBVIOUS
<1>2. <<Sent(Head(q))>> \in Seq(S) /\ Len(<<Sent(Head(q))>>) = 1
  OBVIOUS
<1> QED BY <1>1, <1>2 DEF OneFewer

\* A frame that has a transmission left keeps its type and its counter through it.
LEMMA SentQueued ==
  ASSUME NEW f \in Queued, f.left > 0
  PROVE  Sent(f) \in Queued /\ Sent(f).fcnt = f.fcnt
  BY DEF Queued, Sent

\* A downlink that has a transmission left keeps its type through it.
LEMMA SentPending ==
  ASSUME NEW f \in Pending, f.left > 0
  PROVE  Sent(f) \in Pending
  BY DEF Pending, Sent

\* What SendDSPacket does to the server's queue and to the air: it sends through the
\* gateway it is given, or does nothing.
LEMMA SendDSPacketFacts ==
  ASSUME TypeOK, NEW g \in Gateways, SendDSPacket(g)
  PROVE  /\ dsQueue' \in Seq(Pending) /\ downlink' \in Downlinks
         /\ setAck' \in BOOLEAN /\ answered' \in BOOLEAN
         /\ \/ downlink' = downlink /\ answered' = answered
            \/ downlink'.gw = {g} /\ ~downlink'.ping
<1>1. CASE dsQueue # <<>>
  <2>1. Head(dsQueue) \in Pending /\ Tail(dsQueue) \in Seq(Pending)
    BY <1>1, Removed DEF TypeOK
  <2>2. Head(dsQueue).left > 1 => OneFewer(dsQueue) \in Seq(Pending)
    <3> SUFFICES ASSUME Head(dsQueue).left > 1
                 PROVE  OneFewer(dsQueue) \in Seq(Pending)
      OBVIOUS
    <3>1. Head(dsQueue).left > 0
      BY <2>1 DEF Pending
    <3>2. Sent(Head(dsQueue)) \in Pending
      BY <2>1, <3>1, SentPending
    <3> QED BY <1>1, <3>2, OneFewerFacts DEF TypeOK
  <2>3. AfterTransmission \in Seq(Pending)
    BY <2>1, <2>2 DEF AfterTransmission
  <2>4. Head(dsQueue).id \in Nat /\ Head(dsQueue).con \in BOOLEAN
    BY <2>1 DEF Pending
  <2>5. /\ dsQueue' = AfterTransmission /\ setAck' = FALSE /\ answered' = TRUE
        /\ downlink' = [ack |-> setAck, con |-> Head(dsQueue).con,
                        id |-> Head(dsQueue).id, gw |-> {g}, ping |-> FALSE]
    BY <1>1 DEF SendDSPacket
  <2>6. downlink' \in Downlinks /\ downlink'.gw = {g} /\ ~downlink'.ping
    BY <2>4, <2>5 DEF TypeOK, Downlinks
  <2> QED BY <2>3, <2>5, <2>6
<1>2. CASE dsQueue = <<>> /\ setAck
  <2>1. /\ dsQueue' = dsQueue /\ setAck' = FALSE /\ answered' = TRUE
        /\ downlink' = [ack |-> TRUE, con |-> FALSE, id |-> 0, gw |-> {g},
                        ping |-> FALSE]
    BY <1>2 DEF SendDSPacket
  <2> QED BY <2>1 DEF TypeOK, Downlinks
<1>3. CASE dsQueue = <<>> /\ ~setAck
  BY <1>3 DEF SendDSPacket, TypeOK
<1> QED BY <1>1, <1>2, <1>3

\* A frame handed to the MAC goes to the end of its queue.
LEMMA SendPacketInv ==
  ASSUME CycleInv, SendPacket
  PROVE  CycleInv'
<1> USE ServerAssumption DEF CycleInv, Positive
<1>1. PICK con \in ConTypes :
        devQueue' = Append(devQueue,
          [fcnt |-> devFCnt + 1, con |-> con, ack |-> devAck, b |-> devClassB,
           left |-> Transmissions(con)])
  BY DEF SendPacket
<1>2. /\ devFCnt' = devFCnt + 1 /\ devAck' = FALSE
      /\ UNCHANGED <<txPkt, devClassB, phase, sinceTx, uplink, copies, downlink,
                     lastGWs, fCntUp, setAck, timerVars, dsQueue, classBVars,
                     historyVars>>
  BY DEF SendPacket
<1> DEFINE f == [fcnt |-> devFCnt + 1, con |-> con, ack |-> devAck,
                 b |-> devClassB, left |-> Transmissions(con)]
<1>3. f \in Queued /\ f.fcnt > 0
  BY DEF TypeOK, Queued, Transmissions
<1>4. devQueue' = Append(devQueue, f) /\ devQueue \in Seq(Queued)
  BY <1>1 DEF TypeOK
<1> HIDE DEF f
<1>5. TypeOK'
  <2>1. devQueue' \in Seq(Queued)
    BY <1>3, <1>4, Appended
  <2>2. devFCnt' \in Nat
    BY <1>2 DEF TypeOK
  <2>3. devAck' \in BOOLEAN
    BY <1>2
  <2> QED BY <1>2, <2>1, <2>2, <2>3 DEF TypeOK, timerVars, classBVars, historyVars
<1>6. QueueInv'
  <2>1. \A i \in 1..Len(devQueue') : devQueue'[i].fcnt > 0
    BY <1>3, <1>4, Appended DEF QueueInv
  <2>2. /\ devQueue' # <<>>
        /\ devQueue # <<>> => Head(devQueue') = Head(devQueue)
    BY <1>3, <1>4, Appended
  <2> QED BY <1>2, <2>1, <2>2 DEF QueueInv
<1>7. CounterInv' /\ RWTimerInv' /\ CopyInv' /\ AnswerInv' /\ PhaseInv'
  BY <1>2 DEF CounterInv, RWTimerInv, Seen, CopyInv, Forgotten, AnswerInv,
     Answering, InWindow, PhaseInv, timerVars, classBVars, historyVars
<1> QED BY <1>5, <1>6, <1>7

\* Losing a downlink ends the answer.
LEMMA LoseDownlinkInv ==
  ASSUME CycleInv, LoseDownlink
  PROVE  CycleInv'
<1> USE ServerAssumption DEF CycleInv, LoseDownlink, Positive, OFF
<1>1. TypeOK'
  BY DEF TypeOK, Downlinks, NoFrame, deviceVars, timerVars, classBVars,
       historyVars
<1>2. AnswerInv'
  BY DEF AnswerInv, Answering
<1>3. QueueInv' /\ CounterInv' /\ RWTimerInv' /\ CopyInv' /\ PhaseInv'
  BY DEF QueueInv, CounterInv, RWTimerInv, Seen, CopyInv, Forgotten, PhaseInv,
       deviceVars, timerVars, classBVars, historyVars
<1> QED BY <1>1, <1>2, <1>3

\* Giving up removes the frame last sent.
LEMMA GiveUpInv ==
  ASSUME CycleInv, GiveUp
  PROVE  CycleInv'
<1> USE ServerAssumption DEF CycleInv, GiveUp, Positive, OFF
<1>1. TypeOK'
  BY Removed DEF TypeOK, QueueInv, Exhausted, deviceVars, timerVars, classBVars,
       historyVars
<1>2. QueueInv'
  BY Removed DEF TypeOK, QueueInv, Exhausted
<1>3. CounterInv' /\ RWTimerInv' /\ CopyInv' /\ AnswerInv' /\ PhaseInv'
  BY DEF CounterInv, RWTimerInv, Seen, CopyInv, Forgotten, AnswerInv, Answering,
       InWindow, PhaseInv, deviceVars, timerVars, classBVars, historyVars
<1> QED BY <1>1, <1>2, <1>3

\* Leaving Class B touches no timer.
LEMMA LeaveClassBInv ==
  ASSUME CycleInv, LeaveClassB
  PROVE  CycleInv'
<1> USE ServerAssumption DEF CycleInv, LeaveClassB, Positive, OFF
<1>1. TypeOK'
  BY DEF TypeOK, deviceVars, timerVars, classBVars, historyVars
<1>2. QueueInv' /\ CounterInv' /\ RWTimerInv' /\ CopyInv' /\ AnswerInv' /\ PhaseInv'
  BY DEF QueueInv, CounterInv, RWTimerInv, Seen, CopyInv, Forgotten, AnswerInv,
       Answering, InWindow, PhaseInv, deviceVars, timerVars, classBVars,
       historyVars
<1> QED BY <1>1, <1>2

\* A new downlink waits behind the others.
LEMMA DSTimerExpiredInv ==
  ASSUME CycleInv, DSTimerExpired
  PROVE  CycleInv'
<1> USE ServerAssumption DEF CycleInv, DSTimerExpired, Positive, OFF
<1>1. TypeOK'
  <2>1. PICK con \in DownTypes : dsQueue' = Append(dsQueue,
          [id |-> downlinks + 1, con |-> con,
           left |-> IF con THEN NbTransDown ELSE 1])
    OBVIOUS
  <2>2. [id |-> downlinks + 1, con |-> con,
         left |-> IF con THEN NbTransDown ELSE 1] \in Pending
    BY DEF TypeOK, Pending
  <2>3. dsQueue' \in Seq(Pending)
    BY <2>1, <2>2, Appended DEF TypeOK
  <2> QED BY <2>3 DEF TypeOK, deviceVars, timerVars, classBVars, historyVars
<1>2. QueueInv' /\ CounterInv' /\ RWTimerInv' /\ CopyInv' /\ AnswerInv' /\ PhaseInv'
  BY DEF QueueInv, CounterInv, RWTimerInv, Seen, CopyInv, Forgotten, AnswerInv,
       Answering, InWindow, PhaseInv, deviceVars, timerVars, classBVars,
       historyVars
<1> QED BY <1>1, <1>2

\* A new Class B downlink waits for a ping slot.
LEMMA ClassBDSTimerExpiredInv ==
  ASSUME CycleInv, ClassBDSTimerExpired
  PROVE  CycleInv'
<1> USE ServerAssumption DEF CycleInv, ClassBDSTimerExpired, Positive, OFF
<1>1. TypeOK'
  BY DEF TypeOK, deviceVars, timerVars, classBVars, historyVars
<1>2. QueueInv' /\ CounterInv' /\ RWTimerInv' /\ CopyInv' /\ AnswerInv' /\ PhaseInv'
  BY DEF QueueInv, CounterInv, RWTimerInv, Seen, CopyInv, Forgotten, AnswerInv,
       Answering, InWindow, PhaseInv, deviceVars, timerVars, classBVars,
       historyVars
<1> QED BY <1>1, <1>2

\* A beacon announces ping slots.
LEMMA ClassBSendBeaconInv ==
  ASSUME CycleInv, ClassBSendBeacon
  PROVE  CycleInv'
<1> USE ServerAssumption DEF CycleInv, ClassBSendBeacon, Positive, OFF
<1>1. TypeOK'
  BY DEF TypeOK, deviceVars, timerVars, classBVars, historyVars
<1>2. QueueInv' /\ CounterInv' /\ RWTimerInv' /\ CopyInv' /\ AnswerInv' /\ PhaseInv'
  BY DEF QueueInv, CounterInv, RWTimerInv, Seen, CopyInv, Forgotten, AnswerInv,
       Answering, InWindow, PhaseInv, deviceVars, timerVars, classBVars,
       historyVars
<1> QED BY <1>1, <1>2

\* A frame sent in a ping slot is no answer.
LEMMA ClassBPingSlotInv ==
  ASSUME CycleInv, ClassBPingSlot
  PROVE  CycleInv'
<1> USE ServerAssumption DEF CycleInv, ClassBPingSlot, Positive, OFF
<1>1. TypeOK'
  <2>1. downlink' \in Downlinks
    <3>1. downlink \in Downlinks /\ setAck \in BOOLEAN /\ lastGWs \subseteq Gateways
      BY DEF TypeOK
    <3>2. \/ UNCHANGED downlink
          \/ \E g \in lastGWs :
               downlink' = [ack |-> setAck, con |-> FALSE, id |-> 0,
                            gw |-> {g}, ping |-> TRUE]
      OBVIOUS
    <3>3. ASSUME NEW g \in lastGWs
          PROVE  [ack |-> setAck, con |-> FALSE, id |-> 0, gw |-> {g},
                  ping |-> TRUE] \in Downlinks
      BY <3>1 DEF Downlinks
    <3> QED BY <3>1, <3>2, <3>3
  <2>2. bQueue' \in Nat /\ pings' \in Nat
    BY DEF TypeOK
  <2> QED BY <2>1, <2>2 DEF TypeOK, deviceVars, timerVars, classBVars, historyVars
<1>2. AnswerInv'
  BY DEF AnswerInv, Answering, NoFrame
<1>3. QueueInv' /\ CounterInv' /\ RWTimerInv' /\ CopyInv' /\ PhaseInv'
  BY DEF QueueInv, CounterInv, RWTimerInv, Seen, CopyInv, Forgotten, PhaseInv,
       deviceVars, timerVars, classBVars, historyVars
<1> QED BY <1>1, <1>2, <1>3

\* The answer in RW1, or its move to RW2.
LEMMA RW1TimerExpiredInv ==
  ASSUME CycleInv, RW1TimerExpired
  PROVE  CycleInv'
<1> USE ServerAssumption DEF CycleInv, RW1TimerExpired, Positive, OFF
<1>1. TypeOK'
  <2>1. /\ dsQueue' \in Seq(Pending) /\ downlink' \in Downlinks
        /\ setAck' \in BOOLEAN /\ answered' \in BOOLEAN
    BY SendDSPacketFacts DEF TypeOK
  <2>2. rw2Timer' \in 0..RECEIVE_DELAY2 \cup {OFF}
    BY DEF TypeOK, DelayToRW2, RW2AfterAnswer
  <2> QED BY <2>1, <2>2 DEF TypeOK, deviceVars, timerVars, classBVars, historyVars
<1>2. RWTimerInv'
  BY DEF TypeOK, RWTimerInv, Seen, DelayToRW2, RW2AfterAnswer, deviceVars,
       timerVars, classBVars, historyVars
<1>3. CopyInv'
  BY DEF TypeOK, CopyInv, RWTimerInv, Seen, Forgotten, deviceVars, timerVars,
       classBVars, historyVars
<1>4. AnswerInv'
  <2>1. CASE \E g \in lastGWs : SendDSPacket(g)
    <3>1. PICK g \in lastGWs : SendDSPacket(g)
      BY <2>1
    <3>2. g \in Gateways
      BY DEF TypeOK
    <3>3. downlink' = downlink \/ downlink'.gw = {g}
      BY <3>1, <3>2, SendDSPacketFacts
    <3>4. Seen /\ InWindow /\ copies = {} /\ lastGWs \subseteq heardBy
      BY DEF TypeOK, RWTimerInv, CopyInv, Seen, Forgotten, InWindow
    <3>5. Seen' /\ InWindow' /\ copies' = {} /\ heardBy' = heardBy
      BY <3>4 DEF Seen, InWindow, deviceVars
    <3>6. rw1Timer' = OFF /\ (rw2Timer' = OFF \/ downlink' = downlink)
      BY DEF TypeOK, RWTimerInv, RW2AfterAnswer
    <3> QED BY <3>3, <3>4, <3>5, <3>6 DEF AnswerInv, Answering, NoFrame
  <2>2. CASE UNCHANGED <<downlink, dsQueue, setAck, answered>>
    BY <2>2 DEF AnswerInv, Answering, NoFrame
  <2> QED BY <2>1, <2>2
<1>5. QueueInv' /\ CounterInv' /\ PhaseInv'
  BY DEF QueueInv, CounterInv, PhaseInv, Forgotten, deviceVars, timerVars,
       classBVars, historyVars
<1> QED BY <1>1, <1>2, <1>3, <1>4, <1>5

\* The answer in RW2.
LEMMA RW2TimerExpiredInv ==
  ASSUME CycleInv, RW2TimerExpired
  PROVE  CycleInv'
<1> USE ServerAssumption DEF CycleInv, RW2TimerExpired, Positive, OFF
<1>1. TypeOK'
  <2>1. /\ dsQueue' \in Seq(Pending) /\ downlink' \in Downlinks
        /\ setAck' \in BOOLEAN /\ answered' \in BOOLEAN
    BY SendDSPacketFacts DEF TypeOK
  <2>2. rw2Timer' \in 0..RECEIVE_DELAY2 \cup {OFF}
    BY DEF TypeOK, DelayToRW2, RW2AfterAnswer
  <2> QED BY <2>1, <2>2 DEF TypeOK, deviceVars, timerVars, classBVars, historyVars
<1>2. RWTimerInv'
  BY DEF TypeOK, RWTimerInv, Seen, DelayToRW2, RW2AfterAnswer, deviceVars,
       timerVars, classBVars, historyVars
<1>3. CopyInv'
  BY DEF TypeOK, CopyInv, RWTimerInv, Seen, Forgotten, deviceVars, timerVars,
       classBVars, historyVars
<1>4. AnswerInv'
  <2>1. CASE \E g \in lastGWs : SendDSPacket(g)
    <3>1. PICK g \in lastGWs : SendDSPacket(g)
      BY <2>1
    <3>2. g \in Gateways
      BY DEF TypeOK
    <3>3. downlink' = downlink \/ downlink'.gw = {g}
      BY <3>1, <3>2, SendDSPacketFacts
    <3>4. Seen /\ InWindow /\ copies = {} /\ lastGWs \subseteq heardBy
      BY DEF TypeOK, RWTimerInv, CopyInv, Seen, Forgotten, InWindow
    <3>5. Seen' /\ InWindow' /\ copies' = {} /\ heardBy' = heardBy
      BY <3>4 DEF Seen, InWindow, deviceVars
    <3>6. rw1Timer' = OFF /\ (rw2Timer' = OFF \/ downlink' = downlink)
      BY DEF TypeOK, RWTimerInv, RW2AfterAnswer
    <3> QED BY <3>3, <3>4, <3>5, <3>6 DEF AnswerInv, Answering, NoFrame
  <2>2. CASE UNCHANGED <<downlink, dsQueue, setAck, answered>>
    BY <2>2 DEF AnswerInv, Answering, NoFrame
  <2> QED BY <2>1, <2>2
<1>5. QueueInv' /\ CounterInv' /\ PhaseInv'
  BY DEF QueueInv, CounterInv, PhaseInv, Forgotten, deviceVars, timerVars,
       classBVars, historyVars
<1> QED BY <1>1, <1>2, <1>3, <1>4, <1>5

\* A tick runs the timers and the device's cycle down together.
LEMMA TickInv ==
  ASSUME CycleInv, Tick
  PROVE  CycleInv'
<1> USE ServerAssumption DEF CycleInv, Tick, Countdown, Positive, OFF
<1>1. TypeOK'
  <2>1. rw1Timer' \in 0..RECEIVE_DELAY1 \cup {OFF}
    BY DEF TypeOK, NothingDue
  <2>2. rw2Timer' \in 0..RECEIVE_DELAY2 \cup {OFF}
    BY DEF TypeOK, NothingDue
  <2>3. sinceSeen' \in 0..RECEIVE_DELAY2 /\ sinceTx' \in 0..RECEIVE_DELAY2
    BY DEF TypeOK
  <2> QED BY <2>1, <2>2, <2>3 DEF TypeOK, classBVars, historyVars
<1>2. QueueInv' /\ CounterInv'
  BY DEF QueueInv, CounterInv, historyVars
<1>3. RWTimerInv'
  BY DEF TypeOK, RWTimerInv, Seen, NothingDue, historyVars
<1>4. CopyInv' /\ AnswerInv'
  BY DEF CopyInv, AnswerInv, Answering, NothingDue
<1>5. PhaseInv'
  BY DEF TypeOK, PhaseInv, Forgotten
<1> QED BY <1>1, <1>2, <1>3, <1>4, <1>5

\* When the device receives a frame, no timer runs and no copy is under way.
LEMMA ReceiveDownlinkInv ==
  ASSUME CycleInv, ReceiveDownlink
  PROVE  CycleInv'
<1> USE ServerAssumption DEF CycleInv, Positive
<1>1. /\ downlink # NoFrame /\ (IF downlink.ping THEN Idle /\ devClassB ELSE InWindow)
      /\ phase' = "heard" /\ sinceTx' = 0 /\ downlink' = NoFrame
      /\ devAck' = (devAck \/ downlink.con)
      /\ received' = received \cup {downlink.id}
      /\ UNCHANGED <<devFCnt, devClassB, uplink, copies, lastGWs, fCntUp, setAck,
                     timerVars, dsQueue, classBVars, downlinks, heard, heardBy,
                     answered, ackUsed>>
  BY DEF ReceiveDownlink
<1>2. \/ txPkt /\ devQueue' = Tail(devQueue) /\ txPkt' = FALSE
      \/ UNCHANGED <<devQueue, txPkt>>
  BY DEF ReceiveDownlink, FrameWaitsForAck
<1>3. /\ rw1Timer = OFF /\ rw2Timer = OFF /\ copies = {}
      /\ Forgotten \/ sinceSeen >= DuplicateWindow
  <2>1. CASE downlink.ping
    BY <1>1, <2>1 DEF TypeOK, Idle, RWTimerInv, CopyInv, PhaseInv, Seen
  <2>2. CASE ~downlink.ping
    BY <1>1, <2>2 DEF TypeOK, AnswerInv, Answering, Seen, InWindow
  <2> QED BY <2>1, <2>2
<1>4. TypeOK'
  <2>1. devQueue' \in Seq(Queued)
    <3>1. devQueue \in Seq(Queued) /\ (txPkt => devQueue # <<>>)
      BY DEF TypeOK, QueueInv
    <3> QED BY <1>2, <3>1, Removed
  <2>6. txPkt' \in BOOLEAN
    BY <1>2 DEF TypeOK
  <2>2. downlink.id \in Nat
    BY DEF TypeOK, Downlinks
  <2>3. received' \subseteq Nat /\ downlink' \in Downlinks
    BY <1>1, <2>2 DEF TypeOK, Downlinks, NoFrame
  <2>4. devAck' \in BOOLEAN
    BY <1>1
  <2>5. sinceTx' \in 0..RECEIVE_DELAY2
    BY <1>1
  <2> QED BY <1>1, <2>1, <2>3, <2>4, <2>5, <2>6 DEF TypeOK, timerVars, classBVars
<1>5. QueueInv'
  BY <1>1, <1>2, Removed DEF TypeOK, QueueInv
<1>6. CounterInv' /\ RWTimerInv' /\ CopyInv' /\ AnswerInv'
  BY <1>1, <1>3 DEF CounterInv, RWTimerInv, CopyInv, AnswerInv, Answering,
     timerVars
<1>7. PhaseInv'
  BY <1>1, <1>3 DEF TypeOK, PhaseInv, Forgotten, timerVars
<1> QED BY <1>4, <1>5, <1>6, <1>7

\* When a transmission ends, the one before it is forgotten: nothing of it is left.
LEMMA UplinkEndsInv ==
  ASSUME CycleInv, NEW H \in SUBSET Gateways, UplinkEnds(H)
  PROVE  CycleInv'
<1> USE ServerAssumption DEF CycleInv, Positive
<1> DEFINE f == Head(devQueue)
           last == ~f.con /\ f.left = 1
<1>1. /\ phase = "idle" /\ devQueue # <<>> /\ f.left > 0
      /\ uplink' = [fcnt |-> f.fcnt, con |-> f.con, ack |-> f.ack, b |-> f.b]
      /\ devQueue' = IF last THEN Tail(devQueue) ELSE OneFewer(devQueue)
      /\ txPkt' = ~last /\ phase' = "cycle" /\ sinceTx' = 0
      /\ copies' = H /\ heardBy' = H /\ answered' = FALSE
      /\ UNCHANGED <<devAck, devFCnt, devClassB, downlink, lastGWs, fCntUp,
                     setAck, timerVars, dsQueue, classBVars, downlinks, heard,
                     received, ackUsed>>
  BY DEF UplinkEnds, Idle
<1>2. f \in Queued /\ f.fcnt > 0 /\ Sent(f) \in Queued /\ Sent(f).fcnt = f.fcnt
  <2>1. f \in Queued /\ f = devQueue[1] /\ 1 \in 1..Len(devQueue)
    BY <1>1, Removed DEF TypeOK
  <2>2. f.fcnt > 0
    BY <2>1 DEF QueueInv
  <2> QED BY <1>1, <2>1, <2>2, SentQueued
<1> HIDE DEF f, last
<1>3. /\ rw1Timer = OFF /\ rw2Timer = OFF /\ copies = {} /\ ~Answering
      /\ Forgotten
  BY <1>1 DEF RWTimerInv, CopyInv, AnswerInv, PhaseInv, Seen
<1>4. /\ devQueue' \in Seq(Queued)
      /\ \A i \in 1..Len(devQueue') : devQueue'[i].fcnt > 0
      /\ txPkt' => devQueue' # <<>> /\ Head(devQueue').fcnt = f.fcnt
  <2>1. CASE last
    BY <1>1, <2>1, Removed DEF TypeOK, QueueInv
  <2>2. CASE ~last
    <3>1. /\ OneFewer(devQueue) \in Seq(Queued) /\ OneFewer(devQueue) # <<>>
          /\ Head(OneFewer(devQueue)) = Sent(f)
          /\ \A i \in 1..Len(OneFewer(devQueue)) :
               i \in 1..Len(devQueue)
               /\ (i > 1 => OneFewer(devQueue)[i] = devQueue[i])
          /\ OneFewer(devQueue)[1] = Sent(f)
      BY <1>1, <1>2, OneFewerFacts DEF TypeOK, f
    <3>2. devQueue' = OneFewer(devQueue)
      BY <1>1, <2>2
    <3>3. ASSUME NEW i \in 1..Len(devQueue')
          PROVE  devQueue'[i].fcnt > 0
      <4>1. CASE i = 1
        BY <1>2, <3>1, <3>2, <4>1
      <4>2. CASE i > 1
        BY <3>1, <3>2, <4>2 DEF QueueInv
      <4> QED BY <3>1, <3>2, <4>1, <4>2 DEF TypeOK
    <3> QED BY <1>2, <3>1, <3>2, <3>3
  <2> QED BY <2>1, <2>2
<1>5. TypeOK'
  <2>1. uplink' \in Uplinks
    BY <1>1, <1>2 DEF Queued, Uplinks
  <2>2. txPkt' \in BOOLEAN /\ answered' \in BOOLEAN
    BY <1>1
  <2>3. sinceTx' \in 0..RECEIVE_DELAY2
    BY <1>1
  <2> QED BY <1>1, <1>4, <2>1, <2>2, <2>3 DEF TypeOK, timerVars, classBVars
<1>6. uplink'.fcnt = f.fcnt
  BY <1>1
<1>7. QueueInv'
  BY <1>4, <1>6 DEF QueueInv
<1>8. CounterInv' /\ RWTimerInv' /\ PhaseInv'
  BY <1>1, <1>3 DEF CounterInv, RWTimerInv, PhaseInv, Forgotten, timerVars
<1>9. CopyInv'
  BY <1>1, <1>2, <1>3, <1>6 DEF CopyInv, Forgotten, timerVars
<1>10. AnswerInv'
  BY <1>1, <1>3 DEF AnswerInv, Answering
<1> QED BY <1>5, <1>7, <1>8, <1>9, <1>10

\* The server takes exactly the copies of a transmission it has seen for duplicates.
LEMMA DuplicateMeansSeen ==
  ASSUME CycleInv, copies # {}
  PROVE  /\ Duplicate => Seen /\ rw1Timer = RECEIVE_DELAY1
         /\ ~Duplicate => Forgotten /\ rw1Timer = OFF /\ rw2Timer = OFF
<1> USE ServerAssumption DEF CycleInv, Positive
<1>1. uplink.fcnt \in Nat
  BY DEF TypeOK, Uplinks
<1>2. Seen => Duplicate
  BY <1>1 DEF TypeOK, Seen, CopyInv, Duplicate, Known
<1>3. Forgotten => ~Duplicate
  BY <1>1 DEF TypeOK, CopyInv, CounterInv, Forgotten, Duplicate, Known
<1> QED BY <1>2, <1>3 DEF CopyInv

\* A copy makes the transmission seen, or adds its gateway to those that saw it.
LEMMA HandleUSPacketInv ==
  ASSUME CycleInv, NEW g \in Gateways, HandleUSPacket(g)
  PROVE  CycleInv'
<1> USE ServerAssumption DEF CycleInv, Positive
<1>1. /\ g \in copies /\ copies' = copies \ {g} /\ lastGWs' = SeenBy(g)
      /\ UNCHANGED <<deviceVars, uplink, downlink, rw2Timer, bQueue, pings,
                     bPings, downlinks, heardBy, answered, received>>
  BY DEF HandleUSPacket
<1>2. /\ phase = "cycle" /\ sinceTx = 0 /\ copies \subseteq heardBy /\ ~answered
      /\ uplink.fcnt \in Nat /\ uplink.fcnt > 0 /\ heardBy # {} /\ ~Answering
  BY <1>1 DEF TypeOK, Uplinks, CopyInv, AnswerInv
<1>3. CASE Duplicate
  <2>1. Seen /\ rw1Timer = RECEIVE_DELAY1 /\ rw2Timer = OFF
    BY <1>1, <1>3, DuplicateMeansSeen DEF RWTimerInv, TypeOK, OFF
  <2>2. lastGWs' = lastGWs \cup {g}
    BY <1>1, <1>2, <2>1 DEF SeenBy, Seen
  <2>3. UNCHANGED <<fCntUp, sinceSeen, setAck, dsQueue, ackUsed, isClassB,
                    bTraffic, rw1Timer, heard>>
    BY <1>3 DEF HandleUSPacket
  <2>4. Seen'
    BY <1>1, <1>2, <2>1, <2>2, <2>3 DEF Seen, deviceVars
  <2>5. TypeOK'
    BY <1>1, <2>2, <2>3 DEF TypeOK, deviceVars
  <2>6. QueueInv' /\ CounterInv'
    BY <1>1, <2>2, <2>3 DEF QueueInv, CounterInv, deviceVars
  <2>7. RWTimerInv' /\ CopyInv'
    BY <1>1, <1>2, <2>1, <2>3, <2>4 DEF RWTimerInv, CopyInv, deviceVars
  <2>8. AnswerInv' /\ PhaseInv'
    BY <1>1, <1>2, <2>4 DEF AnswerInv, Answering, PhaseInv, Seen, deviceVars
  <2> QED BY <2>5, <2>6, <2>7, <2>8
<1>4. CASE ~Duplicate
  <2>1. Forgotten /\ rw1Timer = OFF /\ rw2Timer = OFF
    BY <1>1, <1>4, DuplicateMeansSeen
  <2>2. lastGWs' = {g}
    BY <1>1, <2>1 DEF SeenBy, Forgotten
  <2>3. ProcessUplink
    BY <1>4 DEF HandleUSPacket
  <2>4. /\ sinceSeen' = 0 /\ rw1Timer' = RECEIVE_DELAY1
        /\ heard' = heard \cup {uplink.fcnt}
        /\ fCntUp' \in Nat /\ fCntUp' >= uplink.fcnt /\ fCntUp' >= fCntUp
    BY <1>2, <2>3 DEF ProcessUplink, Known, TypeOK
  <2>5. Seen'
    BY <1>1, <1>2, <2>2, <2>4 DEF Seen, deviceVars
  <2>6. ackUsed' \subseteq 0..fCntUp'
    <3>1. ackUsed' \subseteq ackUsed \cup {uplink.fcnt}
      BY <2>3 DEF ProcessUplink
    <3>2. ackUsed \subseteq 0..fCntUp'
      BY <2>4 DEF CounterInv, TypeOK
    <3>3. uplink.fcnt \in 0..fCntUp'
      BY <1>2, <2>4
    <3> QED BY <3>1, <3>2, <3>3
  <2>7. TypeOK'
    <3>1. dsQueue' \in Seq(Pending)
      <4>1. \/ dsQueue # <<>> /\ dsQueue' = Tail(dsQueue)
            \/ dsQueue' = dsQueue
        BY <2>3 DEF ProcessUplink, AckRemoves
      <4> QED BY <4>1, Removed DEF TypeOK
    <3>2. setAck' \in BOOLEAN /\ isClassB' \in BOOLEAN /\ bTraffic' \in BOOLEAN
      BY <2>3 DEF ProcessUplink, TypeOK, Uplinks
    <3>3. /\ rw1Timer' \in 0..RECEIVE_DELAY1 \cup {OFF}
          /\ sinceSeen' \in 0..RECEIVE_DELAY2
      BY <2>4
    <3>4. heard' \subseteq Nat
      BY <1>2, <2>4 DEF TypeOK
    <3>5. ackUsed' \subseteq Nat
      BY <2>4, <2>6
    <3> QED BY <1>1, <2>2, <2>4, <3>1, <3>2, <3>3, <3>4, <3>5
       DEF TypeOK, deviceVars
  <2>8. QueueInv' /\ CounterInv'
    BY <1>1, <2>2, <2>6 DEF QueueInv, CounterInv, deviceVars
  <2>9. RWTimerInv' /\ CopyInv'
    BY <1>1, <1>2, <2>1, <2>4, <2>5 DEF RWTimerInv, CopyInv, deviceVars
  <2>10. AnswerInv' /\ PhaseInv'
    BY <1>1, <1>2, <2>5 DEF AnswerInv, Answering, PhaseInv, Seen, deviceVars
  <2> QED BY <2>7, <2>8, <2>9, <2>10
<1> QED BY <1>3, <1>4

\* The invariant holds before the first uplink.
LEMMA InitInv == Init => CycleInv
<1> SUFFICES ASSUME Init PROVE CycleInv
  OBVIOUS
<1> USE ServerAssumption DEF Init, Positive, OFF
<1>1. TypeOK
  <2>1. uplink \in Uplinks /\ downlink \in Downlinks
    BY DEF Uplinks, Downlinks, NoFrame
  <2>2. devQueue \in Seq(Queued) /\ dsQueue \in Seq(Pending)
    OBVIOUS
  <2>3. sinceTx \in 0..RECEIVE_DELAY2 /\ sinceSeen \in 0..RECEIVE_DELAY2
    OBVIOUS
  <2> QED BY <2>1, <2>2, <2>3 DEF TypeOK
<1>2. QueueInv /\ CounterInv /\ RWTimerInv /\ CopyInv /\ AnswerInv /\ PhaseInv
  BY DEF QueueInv, CounterInv, RWTimerInv, CopyInv, AnswerInv, Answering,
     PhaseInv, Forgotten
<1> QED BY <1>1, <1>2 DEF CycleInv

\* Every action of the device, the air and the server preserves the invariant.
LEMMA StepInv == CycleInv /\ [Next]_vars => CycleInv'
<1> SUFFICES ASSUME CycleInv, [Next]_vars PROVE CycleInv'
  OBVIOUS
<1>1. CASE SendPacket
  BY <1>1, SendPacketInv
<1>2. CASE \E H \in SUBSET Gateways : UplinkEnds(H)
  BY <1>2, UplinkEndsInv
<1>3. CASE ReceiveDownlink
  BY <1>3, ReceiveDownlinkInv
<1>4. CASE LoseDownlink
  BY <1>4, LoseDownlinkInv
<1>5. CASE GiveUp
  BY <1>5, GiveUpInv
<1>6. CASE LeaveClassB
  BY <1>6, LeaveClassBInv
<1>7. CASE \E g \in Gateways : HandleUSPacket(g)
  BY <1>7, HandleUSPacketInv
<1>8. CASE RW1TimerExpired
  BY <1>8, RW1TimerExpiredInv
<1>9. CASE RW2TimerExpired
  BY <1>9, RW2TimerExpiredInv
<1>10. CASE DSTimerExpired
  BY <1>10, DSTimerExpiredInv
<1>11. CASE ClassBDSTimerExpired
  BY <1>11, ClassBDSTimerExpiredInv
<1>12. CASE ClassBSendBeacon
  BY <1>12, ClassBSendBeaconInv
<1>13. CASE ClassBPingSlot
  BY <1>13, ClassBPingSlotInv
<1>14. CASE Tick
  BY <1>14, TickInv
<1>15. CASE UNCHANGED vars
  BY <1>15 DEF vars, deviceVars, timerVars, classBVars, historyVars, CycleInv,
     TypeOK, QueueInv, CounterInv, RWTimerInv, Seen, CopyInv, Forgotten,
     AnswerInv, Answering, InWindow, PhaseInv
<1> QED BY <1>1, <1>2, <1>3, <1>4, <1>5, <1>6, <1>7, <1>8, <1>9, <1>10, <1>11,
           <1>12, <1>13, <1>14, <1>15 DEF Next

-----------------------------------------------------------------------------
(* Theorems.                                                               *)

\* The server's timers follow the cycle of the device, whatever is lost, repeated
\* or received twice.
THEOREM CycleInvariant == Spec => []CycleInv
<1>1. Init => CycleInv
  BY InitInv
<1>2. CycleInv /\ [Next]_vars => CycleInv'
  BY StepInv
<1> QED BY <1>1, <1>2, PTL DEF Spec

\* The assertions of HandleUSPacket and RW1TimerExpired hold: no RW timer is
\* scheduled while it runs, and RW2 is always ahead when RW1 expires.
THEOREM RWTimersAlwaysFree == Spec => []RWTimersFree
<1>1. CycleInv => RWTimersFree
  <2> SUFFICES ASSUME CycleInv PROVE RWTimersFree
    OBVIOUS
  <2>1. NewTransmission => rw1Timer = OFF /\ rw2Timer = OFF
    BY DuplicateMeansSeen DEF NewTransmission
  <2>2. rw1Timer = 0 => rw2Timer = OFF /\ DelayToRW2 > 0
    BY ServerAssumption
       DEF CycleInv, TypeOK, RWTimerInv, Seen, DelayToRW2, Positive, OFF
  <2> QED BY <2>1, <2>2 DEF RWTimersFree
<1> QED BY <1>1, CycleInvariant, PTL

\* Every answer is on the air while the device has the window open.
THEOREM AnswersMeetWindows == Spec => []AnswerMeetsWindow
<1>1. CycleInv => AnswerMeetsWindow
  BY DEF CycleInv, AnswerInv, Seen, AnswerMeetsWindow
<1> QED BY <1>1, CycleInvariant, PTL

\* Every answer leaves through gateways that received the transmission it answers.
THEOREM AnswersLeaveThroughHearers == Spec => []AnswerThroughHearers
<1>1. CycleInv => AnswerThroughHearers
  BY DEF CycleInv, AnswerInv, AnswerThroughHearers
<1> QED BY <1>1, CycleInvariant, PTL

\* What a device takes for an acknowledgement in RW1 or RW2 is one.
THEOREM RWAcksMeanHeard == Spec => []RWAckMeansHeard
<1>1. CycleInv => RWAckMeansHeard
  BY DEF CycleInv, QueueInv, AnswerInv, Seen, FrameWaitsForAck, RWAckMeansHeard
<1> QED BY <1>1, CycleInvariant, PTL

\* No uplink confirms two downlinks.
THEOREM AckBitsProcessedOnce == Spec => []AckBitProcessedOnce
<1>1. CycleInv => AckBitProcessedOnce
  BY DEF CycleInv, TypeOK, Uplinks, CounterInv, AckBitProcessedOnce, AckRemoves,
     ProcessMACAck, Known
<1> QED BY <1>1, CycleInvariant, PTL

\* A transmission is answered in RW1 or in RW2, never in both.
THEOREM AnsweredOnce == Spec => OneAnswerPerTransmission
<1> DEFINE Starts == downlink = NoFrame /\ downlink' # NoFrame /\ ~downlink'.ping
<1>1. CycleInv /\ [Next]_vars => (Starts => ~answered)
  <2> SUFFICES ASSUME CycleInv, [Next]_vars, Starts PROVE ~answered
    OBVIOUS
  <2>1. downlink' # downlink /\ ~downlink'.ping
    OBVIOUS
  <2>2. RW1TimerExpired \/ RW2TimerExpired
    BY <2>1 DEF Next, SendPacket, UplinkEnds, ReceiveDownlink, LoseDownlink,
       GiveUp, LeaveClassB, HandleUSPacket, DSTimerExpired,
       ClassBDSTimerExpired, ClassBSendBeacon, ClassBPingSlot, Tick, vars
  <2> QED BY <2>2 DEF RW1TimerExpired, RW2TimerExpired, CycleInv, RWTimerInv, OFF
<1> QED BY <1>1, CycleInvariant, PTL DEF Spec, OneAnswerPerTransmission
=============================================================================
