------------------------ MODULE GatewayDeviceProofs ------------------------
(***************************************************************************)
(* Safety of the net device of a gateway for any number of MAC and PHY     *)
(* pairs, any channels, sub bands, duty cycles and airtimes, and that it   *)
(* implements one half-duplex radio (GatewayRadio).                        *)
(***************************************************************************)
EXTENDS GatewayDevice, FiniteSetTheorems, SequenceTheorems, TLAPS

USE DEF OFF, Positive

MessageTypes == {"DATA", "BEACON"}
Events == [mac : Macs, to : {"MAC_TX", "MAC_IDLE"}]

\* A MAC state event has the type of the elements of events.
LEMMA EventFacts ==
  ASSUME NEW m \in Macs, NEW s \in {"MAC_TX", "MAC_IDLE"}
  PROVE  Event(m, s) \in Events /\ Event(m, s).mac = m /\ Event(m, s).to = s
  BY DEF Event, Events

\* Appending to a sequence of events, and taking its first one away.
LEMMA AppendFacts ==
  ASSUME NEW ev \in Seq(Events), NEW e \in Events
  PROVE  /\ Append(ev, e) \in Seq(Events) /\ Append(ev, e) # <<>>
         /\ Len(Append(ev, e)) = Len(ev) + 1
         /\ \A i \in 1 .. Len(ev) : Append(ev, e)[i] = ev[i]
         /\ Append(ev, e)[Len(ev) + 1] = e
         /\ Head(Append(ev, e)) = IF ev = <<>> THEN e ELSE Head(ev)
  OBVIOUS

LEMMA TailFacts ==
  ASSUME NEW ev \in Seq(Events), ev # <<>>
  PROVE  /\ Tail(ev) \in Seq(Events) /\ Len(Tail(ev)) = Len(ev) - 1
         /\ Len(ev) \in Nat /\ Len(ev) >= 1 /\ 1 \in 1 .. Len(ev)
         /\ Head(ev) \in Events /\ Head(ev) = ev[1]
         /\ \A i \in 1 .. Len(Tail(ev)) :
              i + 1 \in 1 .. Len(ev) /\ Tail(ev)[i] = ev[i + 1]
  OBVIOUS

\* CheckQueue changes nothing when no MAC it is called for has a frame.
LEMMA CheckQueueIdle ==
  ASSUME NEW S \in SUBSET Macs, NEW q \in [Macs -> Seq(MessageTypes)],
         NEW p \in [Macs -> BOOLEAN], NEW ev \in Seq(Events),
         \A m \in S : q[m] = <<>>, CheckQueue(S, q, p, ev)
  PROVE  queue' = q /\ txPkt' = p /\ events' = ev /\ aborted' = "no"
<1> DEFINE starting == {m \in S : /\ mac'[m] = "MAC_IDLE" /\ q[m] # <<>> /\ ~p[m]
                                  /\ ~Running(m, ev) /\ Available(BandOf[m])}
           dropped == {m \in S \ starting : q[m] # <<>> /\ Head(q[m]) # "BEACON"}
           new == [i \in 1 .. Cardinality(starting) |->
                     Event(Nth(starting, i), "MAC_TX")]
<1>1. starting = {} /\ dropped = {}
  OBVIOUS
<1>2. /\ queue' = [m \in Macs |-> IF m \in dropped THEN Tail(q[m]) ELSE q[m]]
      /\ txPkt' = [m \in Macs |-> m \in starting \/ (m \notin dropped /\ p[m])]
      /\ events' = ev \o new
      /\ aborted' = IF dropped = {} THEN "no" ELSE "frame not sent"
  BY Zenon DEF CheckQueue
<1>3. Cardinality(starting) = 0
  BY <1>1, FS_EmptySet
<1> HIDE DEF starting, dropped
<1>4. new = <<>>
  BY <1>3
<1> HIDE DEF new
<1>5. events' = ev
  <2>1. ev \o <<>> = ev
    OBVIOUS
  <2>2. QED
    BY <1>2, <1>4, <2>1
<1>6. queue' = q
  BY <1>1, <1>2
<1>7. txPkt' = [m \in Macs |-> p[m]]
  BY <1>1, <1>2, Zenon
<1>8. QED
  BY <1>1, <1>2, <1>5, <1>6, <1>7

\* CheckQueue of one MAC that may send starts to send its frame.
LEMMA CheckQueueStarts ==
  ASSUME NEW m \in Macs, NEW q \in [Macs -> Seq(MessageTypes)],
         NEW p \in [Macs -> BOOLEAN], NEW ev \in Seq(Events),
         mac'[m] = "MAC_IDLE", q[m] # <<>>, ~p[m], ~Running(m, ev),
         Available(BandOf[m]), CheckQueue({m}, q, p, ev)
  PROVE  /\ queue' = q /\ txPkt' = [p EXCEPT ![m] = TRUE] /\ aborted' = "no"
         /\ events' = Append(ev, Event(m, "MAC_TX"))
<1> DEFINE starting == {n \in {m} : /\ mac'[n] = "MAC_IDLE" /\ q[n] # <<>> /\ ~p[n]
                                    /\ ~Running(n, ev) /\ Available(BandOf[n])}
           dropped == {n \in {m} \ starting : q[n] # <<>> /\ Head(q[n]) # "BEACON"}
           new == [i \in 1 .. Cardinality(starting) |->
                     Event(Nth(starting, i), "MAC_TX")]
<1>1. starting = {m} /\ dropped = {}
  OBVIOUS
<1>2. /\ queue' = [n \in Macs |-> IF n \in dropped THEN Tail(q[n]) ELSE q[n]]
      /\ txPkt' = [n \in Macs |-> n \in starting \/ (n \notin dropped /\ p[n])]
      /\ events' = ev \o new
      /\ aborted' = IF dropped = {} THEN "no" ELSE "frame not sent"
  BY Zenon DEF CheckQueue
<1>3. Cardinality({m}) = 1 /\ {n \in {m} : n <= m} = {m}
  <2>1. m \in Int
    BY GatewayAssumption DEF Macs
  <2>2. Cardinality({m}) = 1
    BY FS_Singleton
  <2>3. QED
    BY <2>1, <2>2
<1>4. Nth({m}, 1) = m
  BY <1>3 DEF Nth
<1>5. Event(m, "MAC_TX") \in Events
  BY EventFacts
<1> HIDE DEF starting, dropped
<1>6. new = <<Event(m, "MAC_TX")>>
  <2>1. 1 .. Cardinality(starting) = {1}
    BY <1>1, <1>3
  <2>2. \A i \in {1} : Event(Nth(starting, i), "MAC_TX") = Event(m, "MAC_TX")
    BY <1>1, <1>4
  <2>3. new = [i \in {1} |-> Event(m, "MAC_TX")]
    BY <2>1, <2>2
  <2>4. \A e : [i \in {1} |-> e] = <<e>>
    OBVIOUS
  <2>5. QED
    BY <2>3, <2>4
<1> HIDE DEF new
<1>7. events' = Append(ev, Event(m, "MAC_TX"))
  <2>1. \A e \in Events : ev \o <<e>> = Append(ev, e)
    OBVIOUS
  <2>2. QED
    BY <1>2, <1>5, <1>6, <2>1
<1>8. queue' = q
  BY <1>1, <1>2
<1>9. txPkt' = [n \in Macs |-> n = m \/ p[n]]
  BY <1>1, <1>2, Zenon
<1>10. txPkt' = [p EXCEPT ![m] = TRUE]
  BY <1>9
<1>11. QED
  BY <1>1, <1>2, <1>7, <1>8, <1>10

-----------------------------------------------------------------------------
(* The inductive invariant, and what each action with a queue check does   *)
(* under it.                                                               *)

IInv == GatewayInv /\ AcceptedIsSent /\ AbortNeedsCollision

\* Under the invariant a frame in the queue is the frame being sent.
LEMMA QueueFacts ==
  ASSUME IInv, NEW m \in Macs
  PROVE  /\ queue[m] \in Seq(MessageTypes)
         /\ txPkt[m] => Len(queue[m]) = 1 /\ queue[m] # <<>> /\ Tail(queue[m]) = <<>>
         /\ ~txPkt[m] => queue[m] = <<>>
<1>1. queue[m] \in Seq(MessageTypes)
  BY DEF IInv, GatewayInv, TypeOK, MessageTypes
<1>2. Len(queue[m]) = IF txPkt[m] THEN 1 ELSE 0
  BY DEF IInv, GatewayInv, QueueIsInFlight, AcceptedIsSent
<1>3. \A q \in Seq(MessageTypes) :
        (Len(q) = 1 => q # <<>> /\ Tail(q) = <<>>) /\ (Len(q) = 0 => q = <<>>)
  <2>1. SUFFICES ASSUME NEW q \in Seq(MessageTypes)
                 PROVE  (Len(q) = 1 => q # <<>> /\ Tail(q) = <<>>)
                        /\ (Len(q) = 0 => q = <<>>)
    OBVIOUS
  <2>2. Len(q) = 0 => q = <<>>
    BY EmptySeq
  <2>3. q # <<>> => Tail(q) \in Seq(MessageTypes) /\ Len(Tail(q)) = Len(q) - 1
    BY HeadTailProperties
  <2>4. Tail(q) \in Seq(MessageTypes) /\ Len(Tail(q)) = 0 => Tail(q) = <<>>
    BY EmptySeq
  <2>5. Len(q) = 1 => q # <<>>
    <3>1. q = <<>> => Len(q) = 0
      BY EmptySeq, Zenon
    <3>2. QED
      BY <3>1
  <2>6. Len(q) = 1 => Len(q) - 1 = 0
    OBVIOUS
  <2>7. QED
    BY <2>2, <2>3, <2>4, <2>5, <2>6, Zenon
<1>4. QED
  BY <1>1, <1>2, <1>3

\* A request that CanSendImmediatelyOnChannel has granted starts at once.
LEMMA SendFacts ==
  ASSUME IInv, NEW m \in Macs, NEW type \in MessageTypes,
         SendMACPayloadRequest(m, type)
  PROVE  /\ Senders = {} /\ mac[m] = "MAC_IDLE" /\ ~txPkt[m] /\ ~Running(m, events)
         /\ bandWait[BandOf[m]] = 0
         /\ queue' = [queue EXCEPT ![m] = <<type>>]
         /\ txPkt' = [txPkt EXCEPT ![m] = TRUE]
         /\ events' = Append(events, Event(m, "MAC_TX")) /\ aborted' = "no"
<1>1. /\ aborted = "no" /\ mac[m] = "MAC_IDLE" /\ ~Running(m, events)
      /\ bandWait[BandOf[m]] = 0 /\ mac' = mac /\ bandWait' = bandWait
  BY DEF SendMACPayloadRequest, CanSendImmediately, Available
<1>2. Senders = {}
  BY <1>1 DEF IInv, GatewayInv, SendingInv, Senders, Others
<1>3. ~txPkt[m]
  <2>1. ~Pending(m, "MAC_TX")
    <3>1. Event(m, "MAC_TX").mac = m
      BY EventFacts
    <3>2. QED
      BY <1>1, <3>1 DEF Pending, Running
  <2>2. QED
    BY <1>1, <1>2, <2>1 DEF IInv, GatewayInv, PacketInv
<1>4. queue[m] = <<>>
  BY <1>3, QueueFacts
<1> DEFINE q == [queue EXCEPT ![m] = <<type>>]
<1>5. CheckQueue({m}, q, txPkt, events)
  <2>1. CheckQueue({m}, [queue EXCEPT ![m] = IF type = "BEACON" THEN <<type>> \o @
                                             ELSE Append(@, type)], txPkt, events)
    BY DEF SendMACPayloadRequest
  <2>2. <<type>> \o <<>> = <<type>> /\ Append(<<>>, type) = <<type>>
    OBVIOUS
  <2>3. [queue EXCEPT ![m] = IF type = "BEACON" THEN <<type>> \o @
                             ELSE Append(@, type)] = q
    BY <1>4, <2>2
  <2>4. QED
    BY <2>1, <2>3
<1>6. /\ q \in [Macs -> Seq(MessageTypes)] /\ q[m] = <<type>> /\ q[m] # <<>>
      /\ txPkt \in [Macs -> BOOLEAN] /\ events \in Seq(Events)
  <2>1. /\ queue \in [Macs -> Seq(MessageTypes)]
        /\ txPkt \in [Macs -> BOOLEAN] /\ events \in Seq(Events)
    BY DEF IInv, GatewayInv, TypeOK, MessageTypes, Events
  <2>2. <<type>> \in Seq(MessageTypes) /\ <<type>> # <<>>
    OBVIOUS
  <2>3. QED
    BY <2>1, <2>2
<1> HIDE DEF q
<1>7. mac'[m] = "MAC_IDLE" /\ Available(BandOf[m])
  BY <1>1 DEF Available
<1>8. /\ queue' = q /\ txPkt' = [txPkt EXCEPT ![m] = TRUE] /\ aborted' = "no"
      /\ events' = Append(events, Event(m, "MAC_TX"))
  BY <1>1, <1>3, <1>5, <1>6, <1>7, CheckQueueStarts
<1>9. QED
  BY <1>1, <1>2, <1>3, <1>8 DEF q

\* The end of a transmission finds nothing scheduled, and ends the program exactly
\* when another MAC was cancelled meanwhile.
LEMMA EndTxFacts ==
  ASSUME IInv, NEW m \in Macs, EndTx(m)
  PROVE  /\ m \in Senders /\ events = <<>>
         /\ queue' = [queue EXCEPT ![m] = <<>>] /\ txPkt' = [txPkt EXCEPT ![m] = FALSE]
         /\ events' = <<Event(m, "MAC_IDLE")>>
         /\ \/ aborted' = "no" /\ \A i \in Macs : ~txPkt'[i]
            \/ aborted' = "retransmission" /\ collided
<1>1. aborted = "no" /\ endTx[m] = 0 /\ txPkt[m]
  BY DEF EndTx
<1>2. m \in Senders
  BY <1>1 DEF Senders
<1>3. events = <<>>
  BY <1>1, <1>2 DEF IInv, GatewayInv, SendingInv
<1> DEFINE q == [queue EXCEPT ![m] = <<>>]
           p == [txPkt EXCEPT ![m] = FALSE]
           ev == <<Event(m, "MAC_IDLE")>>
<1>4. RecheckQueue(Others(m), q, p, ev)
  <2>1. RecheckQueue(Others(m), [queue EXCEPT ![m] = Tail(@)], PacketSent(m),
                     Append(events, Event(m, "MAC_IDLE")))
    BY DEF EndTx
  <2>2. Append(<<>>, Event(m, "MAC_IDLE")) = ev
    OBVIOUS
  <2>3. [queue EXCEPT ![m] = Tail(@)] = q
    BY <1>1, QueueFacts
  <2>4. QED
    BY <1>3, <2>1, <2>2, <2>3 DEF PacketSent
<1>5. /\ q \in [Macs -> Seq(MessageTypes)] /\ p \in [Macs -> BOOLEAN]
      /\ Others(m) \in SUBSET Macs
  <2>1. queue \in [Macs -> Seq(MessageTypes)] /\ txPkt \in [Macs -> BOOLEAN]
    BY DEF IInv, GatewayInv, TypeOK, MessageTypes
  <2>2. <<>> \in Seq(MessageTypes)
    OBVIOUS
  <2>3. QED
    BY <2>1, <2>2 DEF Others
<1>6. ev \in Seq(Events)
  BY EventFacts
<1>7. CASE \E i \in Others(m) : p[i]
  <2>1. queue' = q /\ txPkt' = p /\ events' = ev /\ aborted' = "retransmission"
    BY <1>4, <1>7 DEF RecheckQueue
  <2>2. PICK i \in Others(m) : p[i]
    BY <1>7
  <2>3. txPkt[i] /\ i # m /\ i \in Macs
    BY <2>2 DEF Others, IInv, GatewayInv, TypeOK
  <2>4. collided
    BY <1>1, <2>3 DEF IInv, GatewayInv, PacketInv
  <2>5. QED
    BY <1>2, <1>3, <2>1, <2>4
<1>8. CASE ~ \E i \in Others(m) : p[i]
  <2>1. CheckQueue(Others(m), q, p, ev)
    BY <1>4, <1>8 DEF RecheckQueue
  <2>2. \A i \in Others(m) : q[i] = <<>>
    <3>1. SUFFICES ASSUME NEW i \in Others(m)
                   PROVE  q[i] = <<>>
      OBVIOUS
    <3>2. i \in Macs /\ i # m /\ ~p[i]
      BY <1>8 DEF Others
    <3>3. ~txPkt[i]
      BY <3>2 DEF IInv, GatewayInv, TypeOK
    <3>4. queue[i] = <<>>
      BY <3>2, <3>3, QueueFacts
    <3>5. QED
      BY <3>2, <3>4 DEF IInv, GatewayInv, TypeOK
  <2>3. queue' = q /\ txPkt' = p /\ events' = ev /\ aborted' = "no"
    <3> HIDE DEF q, p, ev
    <3>1. QED
      BY <1>5, <1>6, <2>1, <2>2, CheckQueueIdle
  <2>4. \A i \in Macs : ~txPkt'[i]
    BY <1>8, <2>3 DEF Others, IInv, GatewayInv, TypeOK
  <2>5. QED
    BY <1>2, <1>3, <2>3, <2>4
<1>9. QED
  BY <1>7, <1>8

\* The MAC that has sent becomes idle with an empty queue.
LEMMA EnterIdleFacts ==
  ASSUME IInv, NEW m \in Macs, EnterIdle(m)
  PROVE  /\ Senders = {} /\ events # <<>> /\ Head(events) = Event(m, "MAC_IDLE")
         /\ mac[m] = "MAC_TX"
         /\ queue' = queue /\ txPkt' = txPkt /\ events' = Tail(events) /\ aborted' = "no"
<1>1. /\ aborted = "no" /\ events # <<>> /\ Head(events) = Event(m, "MAC_IDLE")
      /\ mac[m] \in {"MAC_TX", "MAC_UNAVAILABLE"}
      /\ RecheckQueue({m}, queue, txPkt, Tail(events))
  BY DEF EnterIdle, RunsNext
<1>2. /\ events \in Seq(Events) /\ queue \in [Macs -> Seq(MessageTypes)]
      /\ txPkt \in [Macs -> BOOLEAN]
  BY DEF IInv, GatewayInv, TypeOK, Events, MessageTypes
<1>3. /\ 1 \in 1 .. Len(events) /\ events[1].mac = m /\ events[1].to = "MAC_IDLE"
      /\ Tail(events) \in Seq(Events)
  BY <1>1, <1>2, TailFacts DEF Event
<1>4. Senders = {}
  BY <1>1, <1>3 DEF IInv, GatewayInv, SendingInv
<1>5. mac[m] = "MAC_TX" /\ ~txPkt[m]
  BY <1>1, <1>3, <1>4 DEF IInv, GatewayInv, IdleInv
<1>6. CheckQueue({m}, queue, txPkt, Tail(events))
  BY <1>1, <1>5 DEF RecheckQueue
<1>7. \A i \in {m} : queue[i] = <<>>
  BY <1>5, QueueFacts
<1>8. queue' = queue /\ txPkt' = txPkt /\ events' = Tail(events) /\ aborted' = "no"
  <2>1. {m} \in SUBSET Macs
    OBVIOUS
  <2>2. QED
    BY <1>2, <1>3, <1>6, <1>7, <2>1, CheckQueueIdle, Zenon
<1>9. QED
  BY <1>1, <1>4, <1>5, <1>8

-----------------------------------------------------------------------------
(* Each action preserves the invariant.                                    *)

\* The queue invariant after a step that changes the queue of one MAC.
LEMMA QueueStep ==
  ASSUME IInv, NEW m \in Macs, NEW q, NEW b \in BOOLEAN,
         queue' = [queue EXCEPT ![m] = q], txPkt' = [txPkt EXCEPT ![m] = b],
         q \in Seq(MessageTypes), Len(q) = IF b THEN 1 ELSE 0
  PROVE  /\ queue' \in [Macs -> Seq(MessageTypes)] /\ txPkt' \in [Macs -> BOOLEAN]
         /\ QueueIsInFlight'
<1>1. queue \in [Macs -> Seq(MessageTypes)] /\ txPkt \in [Macs -> BOOLEAN]
  BY DEF IInv, GatewayInv, TypeOK, MessageTypes
<1>2. \A n \in Macs : Len(queue[n]) = IF txPkt[n] THEN 1 ELSE 0
  BY DEF IInv, GatewayInv, QueueIsInFlight, AcceptedIsSent
<1>3. \A n \in Macs : Len(queue'[n]) = IF txPkt'[n] THEN 1 ELSE 0
  BY <1>1, <1>2
<1>4. QED
  BY <1>1, <1>3 DEF QueueIsInFlight

LEMMA SendInv ==
  ASSUME IInv, NEW m \in Macs, NEW type \in MessageTypes,
         SendMACPayloadRequest(m, type)
  PROVE  IInv'
<1>1. /\ mac' = mac /\ trx' = trx /\ endTx' = endTx /\ bandWait' = bandWait
      /\ air' = air /\ rx' = rx /\ received' = received /\ aborted = "no"
      /\ collided' = (collided \/ \E i \in 1 .. Len(events) : events[i].to = "MAC_TX")
  BY DEF SendMACPayloadRequest, rxVars
<1>2. /\ Senders = {} /\ mac[m] = "MAC_IDLE" /\ ~txPkt[m] /\ ~Running(m, events)
      /\ bandWait[BandOf[m]] = 0
      /\ queue' = [queue EXCEPT ![m] = <<type>>]
      /\ txPkt' = [txPkt EXCEPT ![m] = TRUE]
      /\ events' = Append(events, Event(m, "MAC_TX")) /\ aborted' = "no"
  BY SendFacts
<1>3. /\ TypeOK /\ SendingInv /\ IdleInv /\ PacketInv /\ ReceptionInv
      /\ events \in Seq(Events) /\ txPkt \in [Macs -> BOOLEAN]
  BY <1>1 DEF IInv, GatewayInv, TypeOK, Events
<1>4. /\ Event(m, "MAC_TX") \in Events /\ Event(m, "MAC_TX").mac = m
      /\ Event(m, "MAC_TX").to = "MAC_TX"
  BY EventFacts
<1>5. /\ events' \in Seq(Events) /\ events' # <<>> /\ Len(events) \in Nat
      /\ Len(events') = Len(events) + 1
      /\ \A i \in 1 .. Len(events) : events'[i] = events[i] /\ events[i] \in Events
      /\ events'[Len(events) + 1] = Event(m, "MAC_TX")
      /\ Head(events') = IF events = <<>> THEN Event(m, "MAC_TX") ELSE Head(events)
  BY <1>2, <1>3, <1>4, AppendFacts
<1>6. \A n \in Macs : txPkt'[n] = (n = m \/ txPkt[n])
  BY <1>2, <1>3
<1>7. Senders' = {}
  BY <1>1, <1>2 DEF Senders
<1>8. SendingInv'
  BY <1>7 DEF SendingInv
<1>9. IdleInv'
  <2>1. ASSUME NEW n \in Macs
        PROVE  \/ mac[n] = "MAC_IDLE" /\ trx[n] \in {"RX_ON", "BUSY_RX"}
               \/ /\ mac[n] = "MAC_TX" /\ trx[n] = "BUSY_TX"
                  /\ events' # <<>> /\ Head(events') = Event(n, "MAC_IDLE")
    BY <1>2, <1>3, <1>5 DEF IdleInv
  <2>2. ASSUME NEW i \in 1 .. Len(events)
        PROVE  \/ /\ i = 1 /\ events'[i].to = "MAC_IDLE" /\ mac[events'[i].mac] = "MAC_TX"
                  /\ ~txPkt'[events'[i].mac]
               \/ /\ events'[i].to = "MAC_TX" /\ mac[events'[i].mac] = "MAC_IDLE"
                  /\ bandWait[BandOf[events'[i].mac]] = 0
    <3>1. events[i].mac \in Macs
      BY <1>5 DEF Events
    <3>2. events'[i] = events[i]
      BY <1>5
    <3>3. CASE /\ i = 1 /\ events[i].to = "MAC_IDLE" /\ mac[events[i].mac] = "MAC_TX"
               /\ ~txPkt[events[i].mac]
      BY <1>2, <1>6, <3>1, <3>2, <3>3
    <3>4. QED
      BY <1>2, <1>3, <3>2, <3>3 DEF IdleInv
  <2>3. ASSUME NEW i \in 1 .. Len(events'), i \notin 1 .. Len(events)
        PROVE  /\ events'[i].to = "MAC_TX" /\ mac[events'[i].mac] = "MAC_IDLE"
               /\ bandWait[BandOf[events'[i].mac]] = 0
    BY <1>2, <1>4, <1>5, <2>3
  <2>4. QED
    BY <1>1, <2>1, <2>2, <2>3 DEF IdleInv
<1>10. PacketInv'
  <2>1. \A i, j \in 1 .. Len(events') : events'[i].mac = events'[j].mac => i = j
    <3>1. \A i \in 1 .. Len(events) : events[i].mac # m
      BY <1>2 DEF Running
    <3>2. QED
      BY <1>3, <1>4, <1>5, <3>1 DEF PacketInv
  <2>2. \A i \in 1 .. Len(events') : events'[i].to = "MAC_TX" => txPkt'[events'[i].mac]
    <3>1. ASSUME NEW i \in 1 .. Len(events), events[i].to = "MAC_TX"
          PROVE  txPkt'[events'[i].mac]
      <4>1. events[i].mac \in Macs /\ events'[i] = events[i]
        BY <1>5 DEF Events
      <4>2. QED
        BY <1>3, <1>6, <3>1, <4>1 DEF PacketInv
    <3>2. txPkt'[events'[Len(events) + 1].mac]
      BY <1>4, <1>5, <1>6
    <3>3. \A i \in 1 .. Len(events') : i \in 1 .. Len(events) \/ i = Len(events) + 1
      BY <1>5
    <3>4. QED
      BY <1>5, <3>1, <3>2, <3>3
  <2>3. ASSUME NEW n \in Macs, txPkt'[n]
        PROVE  Pending(n, "MAC_TX")'
    <3>1. CASE n = m
      BY <1>5, <3>1 DEF Pending
    <3>2. CASE n # m
      <4>1. Pending(n, "MAC_TX")
        BY <1>2, <1>3, <1>6, <2>3, <3>2 DEF PacketInv
      <4>2. QED
        BY <1>5, <4>1 DEF Pending
    <3>3. QED
      BY <3>1, <3>2
  <2>4. ASSUME NEW n \in Macs, NEW k \in Macs, txPkt'[n], txPkt'[k], n # k
        PROVE  collided'
    <3>1. CASE txPkt[n] /\ txPkt[k]
      BY <1>1, <1>3, <2>4, <3>1 DEF PacketInv
    <3>2. CASE \E h \in Macs : txPkt[h]
      <4>1. PICK h \in Macs : Pending(h, "MAC_TX")
        BY <1>2, <1>3, <3>2 DEF PacketInv
      <4>2. Event(h, "MAC_TX").to = "MAC_TX"
        BY EventFacts
      <4>3. QED
        BY <1>1, <4>1, <4>2 DEF Pending
    <3>3. QED
      BY <1>6, <2>4, <3>1, <3>2
  <2>5. QED
    BY <2>1, <2>2, <2>3, <2>4 DEF PacketInv
<1>11. ReceptionInv'
  BY <1>1, <1>3 DEF ReceptionInv
<1>12. /\ queue' \in [Macs -> Seq(MessageTypes)] /\ txPkt' \in [Macs -> BOOLEAN]
       /\ QueueIsInFlight'
  <2>1. <<type>> \in Seq(MessageTypes) /\ Len(<<type>>) = 1
    OBVIOUS
  <2>2. QED
    BY <1>2, <2>1, QueueStep
<1>13. collided' \in BOOLEAN
  BY <1>1
<1>14. TypeOK'
  BY <1>1, <1>2, <1>3, <1>5, <1>12, <1>13 DEF TypeOK, MessageTypes, Events
<1>15. QED
  BY <1>2, <1>8, <1>9, <1>10, <1>11, <1>12, <1>14
     DEF IInv, GatewayInv, AcceptedIsSent, AbortNeedsCollision

Reception == [frame : Frames \cup {NoFrame}, destroyed : BOOLEAN, aborted : BOOLEAN]
OnTheAir == [on : Macs, left : Ticks, overlapped : BOOLEAN]

\* What a frame of another radio can change: only the reception part of the state.
LEMMA FrameStep ==
  ASSUME IInv, aborted = "no", UNCHANGED <<macVars, endTx, bandWait>>,
         trx' \in [Macs -> TrxOfGateway], air' \in [Frames -> OnTheAir],
         rx' \in [Macs -> Reception], received' \subseteq Frames, ReceptionInv',
         \A m \in Macs : \/ trx'[m] = trx[m]
                         \/ trx[m] \in {"RX_ON", "BUSY_RX"} /\ trx'[m] \in {"RX_ON", "BUSY_RX"}
  PROVE  IInv'
<1>1. /\ mac' = mac /\ queue' = queue /\ txPkt' = txPkt /\ events' = events
      /\ collided' = collided /\ aborted' = aborted /\ endTx' = endTx
      /\ bandWait' = bandWait
  BY DEF macVars
<1>2. TypeOK /\ QueueIsInFlight /\ SendingInv /\ IdleInv /\ PacketInv
  BY DEF IInv, GatewayInv
<1>3. Senders' = Senders
  BY <1>1 DEF Senders
<1>4. SendingInv'
  BY <1>1, <1>2, <1>3 DEF SendingInv, Others, Senders
<1>5. IdleInv'
  BY <1>1, <1>2, <1>3 DEF IdleInv
<1>6. PacketInv'
  BY <1>1, <1>2, <1>3 DEF PacketInv, Pending
<1>7. TypeOK'
  BY <1>1, <1>2 DEF TypeOK, Reception, OnTheAir
<1>8. QueueIsInFlight'
  BY <1>1, <1>2 DEF QueueIsInFlight
<1>9. QED
  BY <1>1, <1>4, <1>5, <1>6, <1>7, <1>8
     DEF IInv, GatewayInv, AcceptedIsSent, AbortNeedsCollision

\* A PHY that listens belongs to an idle MAC, and nothing is being sent.
LEMMA ListeningFacts ==
  ASSUME IInv, aborted = "no", NEW m \in Macs, trx[m] \in {"RX_ON", "BUSY_RX"}
  PROVE  Senders = {} /\ mac[m] = "MAC_IDLE"
<1>1. Senders = {}
  BY DEF IInv, GatewayInv, SendingInv, Others, Senders
<1>2. QED
  BY <1>1 DEF IInv, GatewayInv, IdleInv

\* Interference destroys receptions, and changes nothing else of them.
LEMMA DestroyFacts ==
  ASSUME IInv, NEW hit \in SUBSET Macs
  PROVE  /\ Destroy(hit) \in [Macs -> Reception]
         /\ \A m \in Macs : /\ Destroy(hit)[m].frame = rx[m].frame
                            /\ Destroy(hit)[m].aborted = rx[m].aborted
<1>1. rx \in [Macs -> Reception]
  BY DEF IInv, GatewayInv, TypeOK, Reception
<1>2. QED
  BY <1>1 DEF Destroy, Reception

LEMMA FrameAppearsFacts ==
  ASSUME IInv, NEW f \in Frames, NEW m \in Macs, NEW t \in FrameTimes,
         FrameAppears(f, m, t)
  PROVE  /\ aborted = "no" /\ air[f].left = OFF /\ UNCHANGED <<macVars, endTx, bandWait>>
         /\ air' \in [Frames -> OnTheAir] /\ received' \subseteq Frames
         /\ air'[f].left = t /\ t > 0 /\ air'[f].on = m
         /\ air'[f].overlapped = (Senders # {})
         /\ \A g \in Frames \ {f} : air'[g] = air[g]
         /\ \A n \in Macs : rx[n].frame # f
<1>1. /\ aborted = "no" /\ air[f].left = OFF /\ UNCHANGED <<macVars, endTx, bandWait>>
      /\ air' = [air EXCEPT ![f] = [on |-> m, left |-> t, overlapped |-> Senders # {}]]
      /\ received' = received \ {f}
  BY DEF FrameAppears
<1>2. t \in Nat /\ t > 0
  BY GatewayAssumption
<1>3. air \in [Frames -> OnTheAir] /\ received \subseteq Frames
  BY DEF IInv, GatewayInv, TypeOK, OnTheAir
<1>4. [on |-> m, left |-> t, overlapped |-> Senders # {}] \in OnTheAir
  BY <1>2 DEF OnTheAir, Ticks
<1>5. \A n \in Macs : rx[n].frame # f
  <2>1. f # NoFrame
    BY GatewayAssumption
  <2>2. QED
    BY <1>1, <2>1 DEF IInv, GatewayInv, ReceptionInv
<1>6. QED
  BY <1>1, <1>2, <1>3, <1>4, <1>5

LEMMA StartRxInv ==
  ASSUME IInv, NEW f \in Frames, NEW m \in Macs, NEW t \in FrameTimes,
         StartRx(f, m, t)
  PROVE  IInv'
<1>1. FrameAppears(f, m, t) /\ trx[m] = "RX_ON" /\ trx' = [trx EXCEPT ![m] = "BUSY_RX"]
  BY DEF StartRx
<1>2. PICK hit \in SUBSET Receiving(ChannelOf[m]) :
        rx' = [Destroy(hit) EXCEPT ![m] = [NoReception EXCEPT !.frame = f]]
  BY DEF StartRx
<1>3. hit \in SUBSET Macs
  BY DEF Receiving
<1> DEFINE new == [NoReception EXCEPT !.frame = f]
<1>4. new \in Reception /\ new.frame = f /\ new.aborted = FALSE
  BY DEF NoReception, Reception
<1>5. rx' \in [Macs -> Reception] /\ rx'[m] = new
      /\ \A n \in Macs \ {m} : rx'[n].frame = rx[n].frame /\ rx'[n].aborted = rx[n].aborted
  BY <1>2, <1>3, <1>4, DestroyFacts
<1>6. Senders = {} /\ mac[m] = "MAC_IDLE"
  BY <1>1, FrameAppearsFacts, ListeningFacts
<1>7. mac' = mac /\ aborted = "no" /\ UNCHANGED <<macVars, endTx, bandWait>>
  BY <1>1, FrameAppearsFacts DEF macVars
<1>8. trx \in [Macs -> TrxOfGateway]
  BY DEF IInv, GatewayInv, TypeOK
<1> HIDE DEF new
<1>9. ReceptionInv'
  <2>1. SUFFICES ASSUME NEW n \in Macs
                 PROVE  /\ trx'[n] = "BUSY_RX" => rx'[n].frame # NoFrame
                        /\ rx'[n].frame # NoFrame =>
                             /\ air'[rx'[n].frame].left # OFF /\ air'[rx'[n].frame].on = n
                             /\ air'[rx'[n].frame].overlapped => rx'[n].aborted
                             /\ rx'[n].aborted \/ mac'[n] = "MAC_IDLE"
    BY DEF ReceptionInv
  <2>2. CASE n = m
    <3>1. air'[f].left = t /\ t > 0 /\ air'[f].on = m /\ ~air'[f].overlapped
      BY <1>1, <1>6, FrameAppearsFacts
    <3>2. t \in Nat /\ f # NoFrame
      BY GatewayAssumption
    <3>3. t # OFF
      BY <3>1, <3>2
    <3>4. rx'[n].frame = f /\ mac'[n] = "MAC_IDLE"
      BY <1>4, <1>5, <1>6, <1>7, <2>2
    <3>5. QED
      BY <2>2, <3>1, <3>2, <3>3, <3>4
  <2>3. CASE n # m
    <3>1. trx'[n] = trx[n] /\ rx'[n].frame = rx[n].frame /\ rx'[n].aborted = rx[n].aborted
      BY <1>1, <1>5, <1>8, <2>3
    <3>2. rx[n].frame # NoFrame => air'[rx[n].frame] = air[rx[n].frame]
      <4>1. rx[n].frame \in Frames \cup {NoFrame}
        BY DEF IInv, GatewayInv, TypeOK
      <4>2. QED
        BY <1>1, <4>1, FrameAppearsFacts
    <3>3. QED
      BY <1>7, <3>1, <3>2 DEF IInv, GatewayInv, ReceptionInv
  <2>4. QED
    BY <2>2, <2>3
<1>10. /\ trx' \in [Macs -> TrxOfGateway]
       /\ \A n \in Macs : \/ trx'[n] = trx[n]
                          \/ /\ trx[n] \in {"RX_ON", "BUSY_RX"}
                             /\ trx'[n] \in {"RX_ON", "BUSY_RX"}
  BY <1>1, <1>8 DEF TrxOfGateway
<1>11. air' \in [Frames -> OnTheAir] /\ received' \subseteq Frames
  BY <1>1, FrameAppearsFacts
<1>12. QED
  BY <1>5, <1>7, <1>9, <1>10, <1>11, FrameStep

LEMMA StartRxDropsInv ==
  ASSUME IInv, NEW f \in Frames, NEW m \in Macs, NEW t \in FrameTimes,
         StartRxDrops(f, m, t)
  PROVE  IInv'
<1>1. FrameAppears(f, m, t) /\ trx' = trx
  BY DEF StartRxDrops
<1>2. PICK hit \in SUBSET Receiving(ChannelOf[m]) : rx' = Destroy(hit)
  BY DEF StartRxDrops
<1>3. hit \in SUBSET Macs
  BY DEF Receiving
<1>4. /\ rx' \in [Macs -> Reception]
      /\ \A n \in Macs : rx'[n].frame = rx[n].frame /\ rx'[n].aborted = rx[n].aborted
  BY <1>2, <1>3, DestroyFacts
<1>5. mac' = mac /\ aborted = "no" /\ UNCHANGED <<macVars, endTx, bandWait>>
  BY <1>1, FrameAppearsFacts DEF macVars
<1>6. ReceptionInv'
  <2>1. SUFFICES ASSUME NEW n \in Macs
                 PROVE  /\ trx'[n] = "BUSY_RX" => rx'[n].frame # NoFrame
                        /\ rx'[n].frame # NoFrame =>
                             /\ air'[rx'[n].frame].left # OFF /\ air'[rx'[n].frame].on = n
                             /\ air'[rx'[n].frame].overlapped => rx'[n].aborted
                             /\ rx'[n].aborted \/ mac'[n] = "MAC_IDLE"
    BY DEF ReceptionInv
  <2>2. rx[n].frame \in Frames \cup {NoFrame}
    BY DEF IInv, GatewayInv, TypeOK
  <2>3. rx[n].frame # NoFrame => air'[rx[n].frame] = air[rx[n].frame]
    BY <1>1, <2>2, FrameAppearsFacts
  <2>4. QED
    BY <1>1, <1>4, <1>5, <2>3 DEF IInv, GatewayInv, ReceptionInv
<1>7. air' \in [Frames -> OnTheAir] /\ received' \subseteq Frames
  BY <1>1, FrameAppearsFacts
<1>8. trx' \in [Macs -> TrxOfGateway] /\ \A n \in Macs : trx'[n] = trx[n]
  BY <1>1 DEF IInv, GatewayInv, TypeOK
<1>9. QED
  BY <1>4, <1>5, <1>6, <1>7, <1>8, FrameStep

LEMMA EndRxInv ==
  ASSUME IInv, NEW f \in Frames, EndRx(f)
  PROVE  IInv'
<1> DEFINE m == air[f].on
           current == rx[m].frame = f
           busy == current /\ trx[m] = "BUSY_RX"
<1>1. /\ aborted = "no" /\ air[f].left = 0 /\ air' = [air EXCEPT ![f] = OffAir]
      /\ rx' = IF current THEN [rx EXCEPT ![m] = NoReception] ELSE rx
      /\ trx' = IF busy THEN [trx EXCEPT ![m] = "RX_ON"] ELSE trx
      /\ UNCHANGED <<macVars, endTx, bandWait>>
  BY DEF EndRx
<1>2. received' \subseteq received \cup {f}
  BY DEF EndRx
<1>3. /\ air \in [Frames -> OnTheAir] /\ rx \in [Macs -> Reception] /\ received \subseteq Frames
      /\ trx \in [Macs -> TrxOfGateway] /\ mac' = mac
  BY <1>1 DEF IInv, GatewayInv, TypeOK, OnTheAir, Reception, macVars
<1>4. m \in Macs
  BY <1>3 DEF OnTheAir
<1>5. /\ NoReception \in Reception /\ NoReception.frame = NoFrame /\ OffAir \in OnTheAir
  BY GatewayAssumption DEF NoReception, Reception, OffAir, OnTheAir, Ticks
<1> HIDE DEF m
<1>6. ReceptionInv'
  <2>1. SUFFICES ASSUME NEW n \in Macs
                 PROVE  /\ trx'[n] = "BUSY_RX" => rx'[n].frame # NoFrame
                        /\ rx'[n].frame # NoFrame =>
                             /\ air'[rx'[n].frame].left # OFF /\ air'[rx'[n].frame].on = n
                             /\ air'[rx'[n].frame].overlapped => rx'[n].aborted
                             /\ rx'[n].aborted \/ mac'[n] = "MAC_IDLE"
    BY DEF ReceptionInv
  <2>2. CASE n = m /\ current
    <3>1. rx'[n].frame = NoFrame
      BY <1>1, <1>3, <1>4, <1>5, <2>2
    <3>2. trx'[n] # "BUSY_RX"
      BY <1>1, <1>3, <1>4, <2>2
    <3>3. QED
      BY <3>1, <3>2
  <2>3. CASE ~(n = m /\ current)
    <3>1. rx'[n] = rx[n] /\ trx'[n] = trx[n]
      BY <1>1, <1>3, <1>4, <2>3
    <3>2. rx[n].frame # f
      <4>1. f # NoFrame
        BY GatewayAssumption
      <4>2. rx[n].frame = f => air[f].on = n
        BY <1>1, <4>1 DEF IInv, GatewayInv, ReceptionInv
      <4>3. QED
        BY <2>3, <4>2 DEF m
    <3>3. rx[n].frame # NoFrame => air'[rx[n].frame] = air[rx[n].frame]
      BY <1>1, <1>3, <3>2 DEF Reception
    <3>4. QED
      BY <1>1, <1>3, <3>1, <3>3 DEF IInv, GatewayInv, ReceptionInv
  <2>4. QED
    BY <2>2, <2>3
<1>7. /\ trx' \in [Macs -> TrxOfGateway]
      /\ \A n \in Macs : \/ trx'[n] = trx[n]
                         \/ /\ trx[n] \in {"RX_ON", "BUSY_RX"}
                            /\ trx'[n] \in {"RX_ON", "BUSY_RX"}
  BY <1>1, <1>3, <1>4 DEF TrxOfGateway
<1>8. /\ air' \in [Frames -> OnTheAir] /\ rx' \in [Macs -> Reception]
      /\ received' \subseteq Frames
  BY <1>1, <1>2, <1>3, <1>4, <1>5
<1>9. QED
  BY <1>1, <1>6, <1>7, <1>8, FrameStep

\* A transmission begins in silence.
LEMMA BeginTxFacts ==
  ASSUME IInv, NEW m \in Macs, NEW t \in AirTimes, BeginTx(m, t)
  PROVE  /\ aborted = "no" /\ events # <<>> /\ Head(events) = Event(m, "MAC_TX")
         /\ mac[m] = "MAC_IDLE" /\ txPkt[m]
         /\ Senders = {} /\ Senders' = {m} /\ t \in Nat /\ t > 0
         /\ endTx' = [endTx EXCEPT ![m] = t] /\ bandWait[BandOf[m]] = 0
         /\ bandWait' \in [Bands -> Nat]
<1>1. /\ aborted = "no" /\ events # <<>> /\ Head(events) = Event(m, "MAC_TX")
      /\ mac[m] = "MAC_IDLE" /\ txPkt[m] /\ endTx' = [endTx EXCEPT ![m] = t]
      /\ bandWait' = [bandWait EXCEPT ![BandOf[m]] =
                         IF DutyCycle[BandOf[m]] = 1 THEN 0
                         ELSE t * DutyCycle[BandOf[m]]]
  BY DEF BeginTx, RunsNext
<1>2. /\ t \in Nat /\ t > 0 /\ BandOf[m] \in Bands /\ DutyCycle[BandOf[m]] \in Nat
  BY GatewayAssumption
<1>3. /\ endTx \in [Macs -> Ticks] /\ bandWait \in [Bands -> Nat] /\ events \in Seq(Events)
  BY DEF IInv, GatewayInv, TypeOK, Events
<1>4. Senders = {}
  BY <1>1 DEF IInv, GatewayInv, SendingInv, Others, Senders
<1>5. Senders' = {m}
  BY <1>1, <1>2, <1>3, <1>4 DEF Senders
<1>6. 1 \in 1 .. Len(events) /\ events[1].mac = m /\ events[1].to = "MAC_TX"
  BY <1>1, <1>3, TailFacts, EventFacts
<1>7. bandWait[BandOf[m]] = 0
  BY <1>1, <1>4, <1>6 DEF IInv, GatewayInv, IdleInv
<1>8. t * DutyCycle[BandOf[m]] \in Nat
  BY <1>2
<1>9. bandWait' \in [Bands -> Nat]
  BY <1>1, <1>3, <1>8
<1>10. QED
  BY <1>1, <1>2, <1>4, <1>5, <1>7, <1>9

LEMMA BeginTxInv ==
  ASSUME IInv, NEW m \in Macs, NEW t \in AirTimes, BeginTx(m, t)
  PROVE  IInv'
<1>1. /\ aborted = "no" /\ events # <<>> /\ Head(events) = Event(m, "MAC_TX")
      /\ mac[m] = "MAC_IDLE" /\ txPkt[m]
      /\ Senders = {} /\ Senders' = {m} /\ t \in Nat /\ t > 0
      /\ endTx' = [endTx EXCEPT ![m] = t] /\ bandWait' \in [Bands -> Nat]
  BY BeginTxFacts
<1>2. /\ events' = Tail(events)
      /\ mac' = [i \in Macs |-> IF i = m THEN "MAC_TX" ELSE "MAC_UNAVAILABLE"]
      /\ trx' = [i \in Macs |-> IF i = m THEN "BUSY_TX" ELSE "TRX_OFF"]
      /\ rx' = [i \in Macs |-> ForceTrxOff(i)]
      /\ air' = [f \in Frames |-> IF f \in OnAir THEN [air[f] EXCEPT !.overlapped = TRUE]
                                  ELSE air[f]]
      /\ UNCHANGED <<queue, txPkt, collided, aborted, received>>
  BY DEF BeginTx, PhysDuringTx
<1>3. /\ TypeOK /\ QueueIsInFlight /\ IdleInv /\ PacketInv /\ ReceptionInv
      /\ events \in Seq(Events) /\ endTx \in [Macs -> Ticks]
  BY <1>1 DEF IInv, GatewayInv, TypeOK, Events
<1>4. /\ Tail(events) \in Seq(Events) /\ Len(Tail(events)) = Len(events) - 1
      /\ Len(events) \in Nat /\ 1 \in 1 .. Len(events) /\ events[1] = Event(m, "MAC_TX")
      /\ \A i \in 1 .. Len(Tail(events)) :
           i + 1 \in 1 .. Len(events) /\ Tail(events)[i] = events[i + 1]
  BY <1>1, <1>3, TailFacts
<1>5. events[1].mac = m
  BY <1>4, EventFacts
<1>6. \A i \in 1 .. Len(events') :
        /\ i \in Int /\ i > 0 /\ i + 1 \in 1 .. Len(events)
        /\ events'[i] = events[i + 1]
  BY <1>2, <1>4
<1>7. \A i \in 1 .. Len(events') : events'[i].to = "MAC_TX" /\ events'[i].mac # m
  <2>1. ASSUME NEW i \in 1 .. Len(events')
        PROVE  events'[i].to = "MAC_TX" /\ events'[i].mac # m
    <3>1. i + 1 # 1
      BY <1>6
    <3>2. events[i + 1].to = "MAC_TX"
      BY <1>1, <1>3, <1>6, <3>1 DEF IdleInv
    <3>3. events[i + 1].mac # m
      BY <1>3, <1>4, <1>5, <1>6, <3>1 DEF PacketInv
    <3>4. QED
      BY <1>6, <3>2, <3>3
  <2>2. QED
    BY <2>1
<1>8. SendingInv'
  <2>1. endTx'[m] = t /\ \A i \in Macs \ {m} : endTx'[i] = OFF
    BY <1>1, <1>3 DEF Senders
  <2>2. QED
    BY <1>1, <1>2, <1>7, <2>1 DEF SendingInv, Others
<1>9. IdleInv'
  BY <1>1 DEF IdleInv
<1>10. PacketInv'
  <2>1. \A i, j \in 1 .. Len(events') : events'[i].mac = events'[j].mac => i = j
    <3>1. SUFFICES ASSUME NEW i \in 1 .. Len(events'), NEW j \in 1 .. Len(events'),
                          events'[i].mac = events'[j].mac
                   PROVE  i = j
      OBVIOUS
    <3>2. i + 1 = j + 1
      BY <1>3, <1>6, <3>1 DEF PacketInv
    <3>3. QED
      BY <1>6, <3>2
  <2>2. \A i \in 1 .. Len(events') : events'[i].to = "MAC_TX" => txPkt'[events'[i].mac]
    BY <1>2, <1>3, <1>6 DEF PacketInv
  <2>3. QED
    BY <1>1, <1>2, <1>3, <2>1, <2>2 DEF PacketInv
<1>11. rx' \in [Macs -> Reception] /\ air' \in [Frames -> OnTheAir]
  <2>1. rx \in [Macs -> Reception] /\ air \in [Frames -> OnTheAir]
    BY <1>3 DEF TypeOK, Reception, OnTheAir
  <2>2. \A n \in Macs : ForceTrxOff(n) \in Reception
    BY <2>1 DEF ForceTrxOff, Reception
  <2>3. \A f \in Frames : [air[f] EXCEPT !.overlapped = TRUE] \in OnTheAir
    BY <2>1 DEF OnTheAir
  <2>4. QED
    BY <1>2, <2>1, <2>2, <2>3
<1>12. ReceptionInv'
  <2>1. SUFFICES ASSUME NEW n \in Macs, rx'[n].frame # NoFrame
                 PROVE  /\ air'[rx'[n].frame].left # OFF /\ air'[rx'[n].frame].on = n
                        /\ rx'[n].aborted
    BY <1>2 DEF ReceptionInv
  <2>2. rx[n] \in Reception /\ air \in [Frames -> OnTheAir]
    BY <1>3 DEF TypeOK, Reception, OnTheAir
  <2>3. rx'[n].frame = rx[n].frame
    BY <1>2, <2>2 DEF ForceTrxOff, Reception
  <2>4. trx[n] # "TRX_OFF"
    BY <1>1, <1>3 DEF IdleInv
  <2>5. rx'[n].aborted
    BY <1>2, <2>1, <2>2, <2>3, <2>4 DEF ForceTrxOff, Reception
  <2>6. air[rx[n].frame].left # OFF /\ air[rx[n].frame].on = n
    BY <1>3, <2>1, <2>3 DEF ReceptionInv
  <2>7. rx[n].frame \in Frames
    BY <2>1, <2>2, <2>3 DEF Reception
  <2>8. /\ air'[rx[n].frame].left = air[rx[n].frame].left
        /\ air'[rx[n].frame].on = air[rx[n].frame].on
    BY <1>2, <2>2, <2>7 DEF OnTheAir
  <2>9. QED
    BY <2>3, <2>5, <2>6, <2>8
<1>13. TypeOK'
  <2>1. mac' \in [Macs -> MacStates] /\ trx' \in [Macs -> TrxOfGateway]
    BY <1>2 DEF MacStates, TrxOfGateway
  <2>2. endTx' \in [Macs -> Ticks]
    BY <1>1, <1>3 DEF Ticks
  <2>3. QED
    BY <1>1, <1>2, <1>3, <1>4, <1>11, <2>1, <2>2 DEF TypeOK, Events, Reception, OnTheAir
<1>14. QueueIsInFlight'
  BY <1>2, <1>3 DEF QueueIsInFlight
<1>15. QED
  BY <1>1, <1>2, <1>8, <1>9, <1>10, <1>12, <1>13, <1>14
     DEF IInv, GatewayInv, AcceptedIsSent, AbortNeedsCollision

\* Taking the first event away keeps what holds of every event.
LEMMA NextEventFacts ==
  ASSUME events \in Seq(Events), events # <<>>, events' = Tail(events)
  PROVE  /\ events' \in Seq(Events) /\ 1 \in 1 .. Len(events) /\ events[1] = Head(events)
         /\ \A i \in 1 .. Len(events') :
              /\ i \in Int /\ i > 0 /\ i + 1 \in 1 .. Len(events) /\ i + 1 # 1
              /\ events'[i] = events[i + 1]
         /\ \A i \in 1 .. Len(events) : i # 1 => i - 1 \in 1 .. Len(events')
<1>1. /\ events' \in Seq(Events) /\ Len(events') = Len(events) - 1
      /\ Len(events) \in Nat /\ 1 \in 1 .. Len(events) /\ events[1] = Head(events)
      /\ \A i \in 1 .. Len(events') :
           i + 1 \in 1 .. Len(events) /\ events'[i] = events[i + 1]
  BY TailFacts
<1>2. QED
  BY <1>1

LEMMA TxCancelledInv ==
  ASSUME IInv, NEW m \in Macs, TxCancelled(m)
  PROVE  IInv'
<1>1. /\ aborted = "no" /\ events # <<>> /\ Head(events) = Event(m, "MAC_TX")
      /\ mac[m] # "MAC_IDLE" /\ events' = Tail(events)
      /\ UNCHANGED <<mac, queue, txPkt, collided, aborted, trx, endTx, bandWait, air, rx,
                     received>>
  BY DEF TxCancelled, RunsNext, rxVars
<1>2. /\ TypeOK /\ QueueIsInFlight /\ SendingInv /\ IdleInv /\ PacketInv /\ ReceptionInv
      /\ events \in Seq(Events)
  BY <1>1 DEF IInv, GatewayInv, TypeOK, Events
<1>3. /\ events' \in Seq(Events) /\ 1 \in 1 .. Len(events) /\ events[1] = Head(events)
      /\ \A i \in 1 .. Len(events') :
           /\ i \in Int /\ i > 0 /\ i + 1 \in 1 .. Len(events) /\ i + 1 # 1
           /\ events'[i] = events[i + 1]
  BY <1>1, <1>2, NextEventFacts
<1>4. events[1].mac = m /\ events[1].to = "MAC_TX"
  BY <1>1, <1>3, EventFacts
<1>5. Senders # {} /\ Senders' = Senders
  BY <1>1, <1>2, <1>3, <1>4 DEF IdleInv, Senders
<1>6. SendingInv'
  <2>1. SUFFICES ASSUME NEW n \in Senders
                 PROVE  /\ mac[n] = "MAC_TX" /\ trx[n] = "BUSY_TX" /\ txPkt[n]
                        /\ \A i \in Others(n) : /\ mac[i] = "MAC_UNAVAILABLE"
                                               /\ trx[i] = "TRX_OFF" /\ endTx[i] = OFF
                        /\ \A i \in 1 .. Len(events') : /\ events'[i].to = "MAC_TX"
                                                        /\ events'[i].mac # n
                        /\ endTx[n] > 0
    BY <1>1, <1>5 DEF SendingInv, Others
  <2>2. QED
    BY <1>1, <1>2, <1>3 DEF SendingInv
<1>7. IdleInv'
  BY <1>5 DEF IdleInv
<1>8. PacketInv'
  <2>1. \A i, j \in 1 .. Len(events') : events'[i].mac = events'[j].mac => i = j
    <3>1. SUFFICES ASSUME NEW i \in 1 .. Len(events'), NEW j \in 1 .. Len(events'),
                          events'[i].mac = events'[j].mac
                   PROVE  i = j
      OBVIOUS
    <3>2. i + 1 = j + 1
      BY <1>2, <1>3, <3>1 DEF PacketInv
    <3>3. QED
      BY <1>3, <3>2
  <2>2. \A i \in 1 .. Len(events') : events'[i].to = "MAC_TX" => txPkt'[events'[i].mac]
    BY <1>1, <1>2, <1>3 DEF PacketInv
  <2>3. QED
    BY <1>1, <1>2, <1>5, <2>1, <2>2 DEF PacketInv
<1>9. ReceptionInv' /\ QueueIsInFlight'
  BY <1>1, <1>2 DEF ReceptionInv, QueueIsInFlight
<1>10. TypeOK'
  BY <1>1, <1>2, <1>3 DEF TypeOK, Events
<1>11. QED
  BY <1>1, <1>6, <1>7, <1>8, <1>9, <1>10
     DEF IInv, GatewayInv, AcceptedIsSent, AbortNeedsCollision

LEMMA EndTxInv ==
  ASSUME IInv, NEW m \in Macs, EndTx(m)
  PROVE  IInv'
<1>1. /\ m \in Senders /\ events = <<>>
      /\ queue' = [queue EXCEPT ![m] = <<>>] /\ txPkt' = [txPkt EXCEPT ![m] = FALSE]
      /\ events' = <<Event(m, "MAC_IDLE")>>
      /\ \/ aborted' = "no" /\ \A i \in Macs : ~txPkt'[i]
         \/ aborted' = "retransmission" /\ collided
  BY EndTxFacts
<1>2. /\ aborted = "no" /\ endTx' = [endTx EXCEPT ![m] = OFF]
      /\ mac' = [i \in Macs |-> IF i = m THEN mac[m] ELSE "MAC_IDLE"]
      /\ trx' = [i \in Macs |-> IF i = m THEN trx[m] ELSE "RX_ON"]
      /\ collided' = collided /\ bandWait' = bandWait
      /\ air' = air /\ rx' = rx /\ received' = received
  BY DEF EndTx, rxVars
<1>3. TypeOK /\ SendingInv /\ ReceptionInv /\ endTx \in [Macs -> Ticks]
  BY <1>2 DEF IInv, GatewayInv, TypeOK
<1>4. /\ mac[m] = "MAC_TX" /\ trx[m] = "BUSY_TX"
      /\ \A i \in Others(m) : mac[i] = "MAC_UNAVAILABLE" /\ endTx[i] = OFF
  BY <1>1, <1>3 DEF SendingInv
<1>5. /\ Event(m, "MAC_IDLE") \in Events /\ Event(m, "MAC_IDLE").mac = m
      /\ Event(m, "MAC_IDLE").to = "MAC_IDLE"
  BY EventFacts
<1>6. /\ events' \in Seq(Events) /\ events' # <<>> /\ Head(events') = Event(m, "MAC_IDLE")
      /\ \A i \in 1 .. Len(events') : i = 1 /\ events'[i] = Event(m, "MAC_IDLE")
  BY <1>1, <1>5
<1>7. Senders' = {}
  BY <1>2, <1>3, <1>4 DEF Senders, Others
<1>8. /\ queue' \in [Macs -> Seq(MessageTypes)] /\ txPkt' \in [Macs -> BOOLEAN]
      /\ QueueIsInFlight'
  <2>1. <<>> \in Seq(MessageTypes)
    OBVIOUS
  <2>2. Len(<<>>) = IF FALSE THEN 1 ELSE 0
    OBVIOUS
  <2>3. FALSE \in BOOLEAN
    OBVIOUS
  <2>4. QED
    BY <1>1, <2>1, <2>2, <2>3, QueueStep, Zenon
<1>9. TypeOK'
  <2>1. mac' \in [Macs -> MacStates] /\ trx' \in [Macs -> TrxOfGateway]
    BY <1>2, <1>4 DEF MacStates, TrxOfGateway
  <2>2. endTx' \in [Macs -> Ticks]
    BY <1>2, <1>3 DEF Ticks
  <2>3. aborted' \in {"no", "retransmission", "frame not sent"}
    BY <1>1
  <2>4. QED
    BY <1>2, <1>3, <1>6, <1>8, <2>1, <2>2, <2>3 DEF TypeOK, Events, MessageTypes
<1>10. CASE aborted' = "no"
  <2>1. \A i \in Macs : ~txPkt'[i]
    BY <1>1, <1>10
  <2>2. SendingInv'
    BY <1>7 DEF SendingInv
  <2>3. IdleInv'
    BY <1>2, <1>4, <1>5, <1>6, <2>1 DEF IdleInv
  <2>4. PacketInv'
    BY <1>5, <1>6, <2>1 DEF PacketInv
  <2>5. ReceptionInv'
    BY <1>2, <1>3, <1>4 DEF ReceptionInv
  <2>6. QED
    BY <1>8, <1>9, <1>10, <2>2, <2>3, <2>4, <2>5
       DEF IInv, GatewayInv, AcceptedIsSent, AbortNeedsCollision
<1>11. CASE aborted' = "retransmission" /\ collided
  BY <1>2, <1>8, <1>9, <1>11 DEF IInv, GatewayInv, AcceptedIsSent, AbortNeedsCollision
<1>12. QED
  BY <1>1, <1>10, <1>11

LEMMA EnterIdleInv ==
  ASSUME IInv, NEW m \in Macs, EnterIdle(m)
  PROVE  IInv'
<1>1. /\ Senders = {} /\ events # <<>> /\ Head(events) = Event(m, "MAC_IDLE")
      /\ queue' = queue /\ txPkt' = txPkt /\ events' = Tail(events) /\ aborted' = "no"
  BY EnterIdleFacts
<1>2. /\ aborted = "no" /\ mac' = [mac EXCEPT ![m] = "MAC_IDLE"]
      /\ trx' = [trx EXCEPT ![m] = "RX_ON"] /\ collided' = collided /\ endTx' = endTx
      /\ bandWait' = bandWait /\ air' = air /\ rx' = rx /\ received' = received
  BY DEF EnterIdle, RunsNext, rxVars
<1>3. /\ TypeOK /\ QueueIsInFlight /\ IdleInv /\ PacketInv /\ ReceptionInv
      /\ events \in Seq(Events)
      /\ mac \in [Macs -> MacStates] /\ trx \in [Macs -> TrxOfGateway]
  BY <1>2 DEF IInv, GatewayInv, TypeOK, Events
<1>4. /\ events' \in Seq(Events) /\ 1 \in 1 .. Len(events) /\ events[1] = Head(events)
      /\ \A i \in 1 .. Len(events') :
           /\ i \in Int /\ i > 0 /\ i + 1 \in 1 .. Len(events) /\ i + 1 # 1
           /\ events'[i] = events[i + 1]
      /\ \A i \in 1 .. Len(events) : i # 1 => i - 1 \in 1 .. Len(events')
  BY <1>1, <1>3, NextEventFacts
<1>5. events[1].mac = m /\ events[1].to = "MAC_IDLE"
  BY <1>1, <1>4, EventFacts
<1>6. Senders' = {}
  BY <1>1, <1>2 DEF Senders
<1>7. SendingInv'
  BY <1>6 DEF SendingInv
<1>8. \A i \in 1 .. Len(events') :
        /\ events'[i].to = "MAC_TX" /\ mac[events'[i].mac] = "MAC_IDLE"
        /\ bandWait[BandOf[events'[i].mac]] = 0 /\ events'[i].mac \in Macs
  <2>1. \A i \in 1 .. Len(events) : i # 1 =>
          /\ events[i].to = "MAC_TX" /\ mac[events[i].mac] = "MAC_IDLE"
          /\ bandWait[BandOf[events[i].mac]] = 0 /\ events[i].mac \in Macs
    <3>1. \A i \in 1 .. Len(events) : events[i] \in Events
      BY <1>3, ElementOfSeq
    <3>2. QED
      BY <1>1, <1>3, <3>1 DEF IdleInv, Events
  <2>2. QED
    BY <1>4, <2>1
<1>9. IdleInv'
  <2>1. ASSUME NEW n \in Macs
        PROVE  mac'[n] = "MAC_IDLE" /\ trx'[n] \in {"RX_ON", "BUSY_RX"}
    <3>1. CASE n = m
      BY <1>2, <1>3, <3>1
    <3>2. CASE n # m
      <4>1. Event(n, "MAC_IDLE") # Event(m, "MAC_IDLE")
        BY <3>2, EventFacts
      <4>2. mac[n] = "MAC_IDLE" /\ trx[n] \in {"RX_ON", "BUSY_RX"}
        BY <1>1, <1>3, <4>1 DEF IdleInv
      <4>3. QED
        BY <1>2, <1>3, <3>2, <4>2
    <3>3. QED
      BY <3>1, <3>2
  <2>2. \A i \in 1 .. Len(events') :
          /\ events'[i].to = "MAC_TX" /\ mac'[events'[i].mac] = "MAC_IDLE"
          /\ bandWait'[BandOf[events'[i].mac]] = 0
    BY <1>2, <1>8, <2>1
  <2>3. QED
    BY <2>1, <2>2 DEF IdleInv
<1>10. PacketInv'
  <2>1. \A i, j \in 1 .. Len(events') : events'[i].mac = events'[j].mac => i = j
    <3>1. SUFFICES ASSUME NEW i \in 1 .. Len(events'), NEW j \in 1 .. Len(events'),
                          events'[i].mac = events'[j].mac
                   PROVE  i = j
      OBVIOUS
    <3>2. i + 1 = j + 1
      BY <1>3, <1>4, <3>1 DEF PacketInv
    <3>3. QED
      BY <1>4, <3>2
  <2>2. \A i \in 1 .. Len(events') : events'[i].to = "MAC_TX" => txPkt'[events'[i].mac]
    BY <1>1, <1>3, <1>4 DEF PacketInv
  <2>3. ASSUME NEW n \in Macs, txPkt'[n]
        PROVE  Pending(n, "MAC_TX")'
    <3>1. PICK i \in 1 .. Len(events) : events[i] = Event(n, "MAC_TX")
      BY <1>1, <1>3, <2>3 DEF PacketInv, Pending
    <3>2. i # 1
      BY <1>5, <3>1, EventFacts
    <3>3. i - 1 \in 1 .. Len(events') /\ i = (i - 1) + 1
      BY <1>4, <3>2
    <3>4. events'[i - 1] = Event(n, "MAC_TX")
      BY <1>4, <3>1, <3>3
    <3>5. QED
      BY <3>3, <3>4 DEF Pending
  <2>4. QED
    BY <1>1, <1>2, <1>3, <2>1, <2>2, <2>3 DEF PacketInv
<1>11. ReceptionInv'
  BY <1>2, <1>3 DEF ReceptionInv
<1>12. TypeOK'
  <2>1. mac' \in [Macs -> MacStates] /\ trx' \in [Macs -> TrxOfGateway]
    BY <1>2, <1>3 DEF MacStates, TrxOfGateway
  <2>2. QED
    BY <1>1, <1>2, <1>3, <1>4, <2>1 DEF TypeOK, Events
<1>13. QueueIsInFlight'
  BY <1>1, <1>2, <1>3 DEF QueueIsInFlight
<1>14. QED
  BY <1>1, <1>7, <1>9, <1>10, <1>11, <1>12, <1>13
     DEF IInv, GatewayInv, AcceptedIsSent, AbortNeedsCollision

\* A tick takes one off what runs and leaves the rest.
LEMMA TimeLeftFacts ==
  /\ \A n \in Ticks : TimeLeft(n) \in Ticks /\ (n # 0 => (TimeLeft(n) = OFF <=> n = OFF))
  /\ \A n \in Nat : TimeLeft(n) \in Nat /\ TimeLeft(n) = IF n > 0 THEN n - 1 ELSE 0
  BY DEF TimeLeft, Ticks

LEMMA TickInv ==
  ASSUME IInv, Tick
  PROVE  IInv'
<1>1. /\ aborted = "no" /\ events = <<>> /\ ~TimerDue
      /\ endTx' = [m \in Macs |-> TimeLeft(endTx[m])]
      /\ bandWait' = [b \in Bands |-> TimeLeft(bandWait[b])]
      /\ air' = [f \in Frames |-> [air[f] EXCEPT !.left = TimeLeft(@)]]
      /\ UNCHANGED <<mac, queue, txPkt, events, collided, aborted, trx, rx, received>>
  BY DEF Tick, macVars
<1>2. /\ TypeOK /\ QueueIsInFlight /\ SendingInv /\ IdleInv /\ PacketInv /\ ReceptionInv
      /\ endTx \in [Macs -> Ticks] /\ bandWait \in [Bands -> Nat]
      /\ air \in [Frames -> OnTheAir]
  BY <1>1 DEF IInv, GatewayInv, TypeOK, OnTheAir
<1>3. \A m \in Macs : /\ endTx'[m] \in Ticks /\ (endTx'[m] = OFF <=> endTx[m] = OFF)
  BY <1>1, <1>2, TimeLeftFacts DEF TimerDue
<1>4. \A f \in Frames : /\ air'[f] \in OnTheAir /\ air'[f].on = air[f].on
                        /\ air'[f].overlapped = air[f].overlapped
                        /\ (air'[f].left = OFF <=> air[f].left = OFF)
  BY <1>1, <1>2, TimeLeftFacts DEF TimerDue, OnTheAir
<1>5. Senders' = Senders
  BY <1>3 DEF Senders
<1>6. Len(events) = 0
  BY <1>1
<1>7. 1 .. Len(events) = {}
  BY <1>6
<1>8. SendingInv'
  BY <1>1, <1>2, <1>3, <1>5, <1>7 DEF SendingInv, Others
<1>9. IdleInv'
  BY <1>1, <1>2, <1>5, <1>7 DEF IdleInv
<1>10. PacketInv'
  BY <1>1, <1>2, <1>5, <1>7 DEF PacketInv, Pending
<1>11. ReceptionInv'
  <2>1. \A m \in Macs : rx[m].frame \in Frames \cup {NoFrame}
    BY <1>2 DEF TypeOK
  <2>2. SUFFICES ASSUME NEW m \in Macs
                 PROVE  /\ trx'[m] = "BUSY_RX" => rx'[m].frame # NoFrame
                        /\ rx'[m].frame # NoFrame =>
                             /\ air'[rx'[m].frame].left # OFF /\ air'[rx'[m].frame].on = m
                             /\ air'[rx'[m].frame].overlapped => rx'[m].aborted
                             /\ rx'[m].aborted \/ mac'[m] = "MAC_IDLE"
    BY DEF ReceptionInv
  <2>3. rx' = rx /\ trx' = trx /\ mac' = mac
    BY <1>1
  <2>4. QED
    BY <1>2, <1>4, <2>1, <2>3 DEF ReceptionInv
<1>12. TypeOK'
  <2>1. endTx' \in [Macs -> Ticks] /\ bandWait' \in [Bands -> Nat]
    BY <1>1, <1>2, <1>3, TimeLeftFacts
  <2>2. air' \in [Frames -> OnTheAir]
    BY <1>1, <1>4
  <2>3. QED
    BY <1>1, <1>2, <2>1, <2>2 DEF TypeOK, OnTheAir
<1>13. QueueIsInFlight'
  BY <1>1, <1>2 DEF QueueIsInFlight
<1>14. QED
  BY <1>1, <1>8, <1>9, <1>10, <1>11, <1>12, <1>13
     DEF IInv, GatewayInv, AcceptedIsSent, AbortNeedsCollision

-----------------------------------------------------------------------------
(* The theorems.                                                           *)

LEMMA InitInv == Init => IInv
<1> SUFFICES ASSUME Init PROVE IInv
  OBVIOUS
<1>1. /\ mac = [m \in Macs |-> "MAC_IDLE"] /\ trx = [m \in Macs |-> "RX_ON"]
      /\ queue = [m \in Macs |-> <<>>] /\ txPkt = [m \in Macs |-> FALSE]
      /\ events = <<>> /\ endTx = [m \in Macs |-> OFF]
      /\ bandWait = [b \in Bands |-> 0]
      /\ air = [f \in Frames |-> OffAir] /\ rx = [m \in Macs |-> NoReception]
      /\ received = {} /\ collided = FALSE /\ aborted = "no"
  BY DEF Init
<1>2. OffAir \in OnTheAir /\ NoReception \in Reception /\ NoReception.frame = NoFrame
  BY GatewayAssumption DEF OffAir, OnTheAir, NoReception, Reception, Ticks
<1>3. <<>> \in Seq(MessageTypes) /\ <<>> \in Seq(Events) /\ Len(<<>>) = 0
  OBVIOUS
<1>4. 1 .. Len(events) = {}
  BY <1>1, <1>3
<1>5. Senders = {}
  BY <1>1 DEF Senders
<1>6. TypeOK
  BY <1>1, <1>2, <1>3
     DEF TypeOK, MacStates, TrxOfGateway, Ticks, OnTheAir, Reception, MessageTypes, Events
<1>7. QueueIsInFlight
  BY <1>1, <1>3 DEF QueueIsInFlight
<1>8. SendingInv /\ IdleInv
  BY <1>1, <1>4, <1>5 DEF SendingInv, IdleInv
<1>9. PacketInv /\ ReceptionInv
  BY <1>1, <1>2, <1>4 DEF PacketInv, ReceptionInv
<1>10. QED
  BY <1>1, <1>6, <1>7, <1>8, <1>9 DEF IInv, GatewayInv, AcceptedIsSent, AbortNeedsCollision

LEMMA StutterInv == IInv /\ UNCHANGED vars => IInv'
<1> SUFFICES ASSUME IInv, UNCHANGED vars PROVE IInv'
  OBVIOUS
<1>1. /\ mac' = mac /\ trx' = trx /\ queue' = queue /\ txPkt' = txPkt /\ events' = events
      /\ endTx' = endTx /\ bandWait' = bandWait /\ air' = air /\ rx' = rx
      /\ received' = received /\ collided' = collided /\ aborted' = aborted
  BY DEF vars, macVars, rxVars
<1>2. TypeOK' /\ QueueIsInFlight'
  BY <1>1 DEF IInv, GatewayInv, TypeOK, QueueIsInFlight
<1>3. aborted = "no" => SendingInv' /\ IdleInv'
  BY <1>1 DEF IInv, GatewayInv, SendingInv, IdleInv, Senders, Others
<1>4. aborted = "no" => PacketInv' /\ ReceptionInv'
  BY <1>1 DEF IInv, GatewayInv, PacketInv, ReceptionInv, Pending, Senders
<1>5. QED
  BY <1>1, <1>2, <1>3, <1>4 DEF IInv, GatewayInv, AcceptedIsSent, AbortNeedsCollision

\* The inductive invariant holds in every reachable state.
THEOREM InductiveInvariant == Spec => []IInv
<1>1. IInv /\ [Next]_vars => IInv'
  <2> SUFFICES ASSUME IInv, [Next]_vars PROVE IInv'
    OBVIOUS
  <2>1. ASSUME NEW m \in Macs, SendDownlink(m) PROVE IInv'
    BY <2>1, SendInv DEF SendDownlink, MessageTypes
  <2>2. CASE SendBeacon
    BY <2>2, SendInv, GatewayAssumption DEF SendBeacon, MessageTypes
  <2>3. ASSUME NEW f \in Frames, NEW m \in Macs, NEW t \in FrameTimes,
               StartRx(f, m, t) \/ StartRxDrops(f, m, t)
        PROVE  IInv'
    BY <2>3, StartRxInv, StartRxDropsInv
  <2>4. ASSUME NEW m \in Macs, TxCancelled(m) \/ EndTx(m) \/ EnterIdle(m)
        PROVE  IInv'
    BY <2>4, TxCancelledInv, EndTxInv, EnterIdleInv
  <2>5. ASSUME NEW m \in Macs, NEW t \in AirTimes, BeginTx(m, t) PROVE IInv'
    BY <2>5, BeginTxInv
  <2>6. ASSUME NEW f \in Frames, EndRx(f) PROVE IInv'
    BY <2>6, EndRxInv
  <2>7. CASE Tick
    BY <2>7, TickInv
  <2>8. CASE UNCHANGED vars
    BY <2>8, StutterInv
  <2>9. QED
    BY <2>1, <2>2, <2>3, <2>4, <2>5, <2>6, <2>7, <2>8 DEF Next, System
<1>2. QED
  BY <1>1, InitInv, PTL DEF Spec

\* The invariant the runs check, types included.
THEOREM GatewayInvariant == Spec => []GatewayInv
<1>1. IInv => GatewayInv
  BY DEF IInv
<1>2. QED
  BY <1>1, InductiveInvariant, PTL

\* A gateway of any number of MACs sends with one PHY at a time, the others off.
THEOREM GatewayIsHalfDuplex == Spec => []HalfDuplex
<1>1. IInv => HalfDuplex
  BY DEF IInv, GatewayInv, SendingInv, HalfDuplex
<1>2. QED
  BY <1>1, InductiveInvariant, PTL

\* A frame the gateway was found free for is sent or cancelled, never refused.
THEOREM NoFrameRefused == Spec => []AcceptedIsSent
<1>1. IInv => AcceptedIsSent
  BY DEF IInv
<1>2. QED
  BY <1>1, InductiveInvariant, PTL

\* The program stops only when two MACs were asked to send in one instant.
THEOREM OnlyCollisionsAbort == Spec => []AbortNeedsCollision
<1>1. IInv => AbortNeedsCollision
  BY DEF IInv
<1>2. QED
  BY <1>1, InductiveInvariant, PTL

\* The assertions on the states of MAC and PHY never fail.
THEOREM AssertionsNeverFail == Spec => []AssertionsHold
<1>1. IInv => AssertionsHold
  <2> SUFFICES ASSUME IInv, aborted = "no"
               PROVE  /\ events # <<>> /\ ~TimerDue =>
                           LET m == Head(events).mac IN
                           \/ /\ Head(events).to = "MAC_TX"
                              /\ mac[m] = "MAC_IDLE" =>
                                   txPkt[m] /\ \A i \in Macs : mac[i] \in {"MAC_IDLE", "MAC_TX"}
                           \/ /\ Head(events).to = "MAC_IDLE"
                              /\ mac[m] \in {"MAC_TX", "MAC_UNAVAILABLE"}
                              /\ PhyAccepts("RX_ON", trx[m])
                      /\ \A m \in Macs : endTx[m] = 0 =>
                           /\ mac[m] = "MAC_TX" /\ txPkt[m]
                           /\ \A i \in Others(m) : mac[i] = "MAC_UNAVAILABLE"
                      /\ \A m \in Macs : rx[m].frame # NoFrame /\ ~rx[m].aborted
                                         => mac[m] = "MAC_IDLE"
    BY Zenon DEF AssertionsHold
  <2>1. TypeOK /\ SendingInv /\ IdleInv /\ PacketInv /\ ReceptionInv /\ events \in Seq(Events)
    BY DEF IInv, GatewayInv, TypeOK, Events
  <2>2. ASSUME events # <<>>
        PROVE  LET m == Head(events).mac IN
               \/ /\ Head(events).to = "MAC_TX"
                  /\ mac[m] = "MAC_IDLE" =>
                       txPkt[m] /\ \A i \in Macs : mac[i] \in {"MAC_IDLE", "MAC_TX"}
               \/ /\ Head(events).to = "MAC_IDLE"
                  /\ mac[m] \in {"MAC_TX", "MAC_UNAVAILABLE"} /\ PhyAccepts("RX_ON", trx[m])
    <3> DEFINE m == Head(events).mac
    <3>1. /\ 1 \in 1 .. Len(events) /\ Head(events) = events[1] /\ Head(events) \in Events
          /\ m \in Macs
      BY <2>1, <2>2, TailFacts DEF Events
    <3>2. CASE Head(events).to = "MAC_TX"
      <4>1. txPkt[m]
        BY <2>1, <3>1, <3>2 DEF PacketInv
      <4>2. mac[m] = "MAC_IDLE" => Senders = {}
        BY <2>1, <3>1 DEF SendingInv, Others, Senders
      <4>3. Senders = {} => \A i \in Macs : mac[i] \in {"MAC_IDLE", "MAC_TX"}
        BY <2>1 DEF IdleInv
      <4>4. QED
        BY <3>2, <4>1, <4>2, <4>3
    <3>3. CASE Head(events).to = "MAC_IDLE"
      <4>1. Senders = {}
        BY <2>1, <3>1, <3>3 DEF SendingInv
      <4>2. mac[m] = "MAC_TX"
        BY <2>1, <3>1, <3>3, <4>1 DEF IdleInv
      <4>3. trx[m] = "BUSY_TX"
        BY <2>1, <3>1, <4>1, <4>2 DEF IdleInv
      <4>4. PhyAccepts("RX_ON", trx[m])
        BY <4>3 DEF PhyAccepts, LegalFrom
      <4>5. QED
        BY <3>3, <4>2, <4>4
    <3>4. QED
      BY <3>1, <3>2, <3>3 DEF Events
  <2>3. ASSUME NEW m \in Macs, endTx[m] = 0
        PROVE  /\ mac[m] = "MAC_TX" /\ txPkt[m]
               /\ \A i \in Others(m) : mac[i] = "MAC_UNAVAILABLE"
    <3>1. m \in Senders
      BY <2>3 DEF Senders
    <3>2. QED
      BY <2>1, <3>1 DEF SendingInv
  <2>4. \A m \in Macs : rx[m].frame # NoFrame /\ ~rx[m].aborted => mac[m] = "MAC_IDLE"
    BY <2>1 DEF ReceptionInv
  <2>5. QED
    BY <2>2, <2>3, <2>4
<1>2. QED
  BY <1>1, InductiveInvariant, PTL

\* Every step of the gateway is a step of one half-duplex radio, or none.
LEMMA RadioStep == IInv /\ [Next]_vars => [Radio!Next]_(Radio!vars)
<1> DEFINE over == {f \in OnAir : air[f].overlapped}
<1> SUFFICES ASSUME IInv, [Next]_vars
             PROVE  Radio!Next \/ UNCHANGED <<Senders, bandWait, over, received>>
  BY DEF Radio!vars
<1>0. /\ endTx \in [Macs -> Ticks] /\ bandWait \in [Bands -> Nat]
      /\ air \in [Frames -> OnTheAir] /\ received \subseteq Frames
  BY DEF IInv, GatewayInv, TypeOK, OnTheAir
<1>1. ASSUME NEW m \in Macs, NEW type \in MessageTypes, SendMACPayloadRequest(m, type)
      PROVE  UNCHANGED <<Senders, bandWait, over, received>>
  BY <1>1 DEF SendMACPayloadRequest, rxVars, Senders, OnAir
<1>2. ASSUME NEW f \in Frames, NEW m \in Macs, NEW t \in FrameTimes, FrameAppears(f, m, t)
      PROVE  Radio!FrameStarts(f)
  <2>1. received' = received \ {f} /\ bandWait' = bandWait /\ Senders' = Senders
    BY <1>2 DEF FrameAppears, Senders
  <2>2. /\ air[f].left = OFF /\ air'[f].left # OFF
        /\ air'[f].overlapped = (Senders # {})
        /\ \A g \in Frames \ {f} : air'[g] = air[g]
    <3>1. t \in Nat
      BY GatewayAssumption
    <3>2. QED
      BY <1>2, <3>1, FrameAppearsFacts
  <2>3. over' = IF Senders = {} THEN over ELSE over \cup {f}
    <3>1. CASE Senders = {}
      BY <2>2, <3>1 DEF OnAir
    <3>2. CASE Senders # {}
      BY <2>2, <3>2 DEF OnAir
    <3>3. QED
      BY <3>1, <3>2
  <2>4. QED
    BY <2>1, <2>3 DEF Radio!FrameStarts
<1>3. ASSUME NEW f \in Frames, EndRx(f)
      PROVE  Radio!FrameReceived(f) \/ Radio!FrameLost(f)
  <2>1. /\ aborted = "no" /\ air' = [air EXCEPT ![f] = OffAir]
        /\ bandWait' = bandWait /\ Senders' = Senders
    BY <1>3 DEF EndRx, Senders
  <2>2. over' = over \ {f}
    BY <1>0, <2>1 DEF OnAir, OffAir
  <2>3. \/ received' = received
        \/ /\ rx[air[f].on].frame = f /\ ~rx[air[f].on].aborted
           /\ received' = received \cup {f}
    BY <1>3 DEF EndRx
  <2>4. CASE received' = received
    BY <2>1, <2>2, <2>4 DEF Radio!FrameLost
  <2>5. CASE /\ rx[air[f].on].frame = f /\ ~rx[air[f].on].aborted
             /\ received' = received \cup {f}
    <3>1. air[f].on \in Macs /\ f # NoFrame
      BY <1>0, GatewayAssumption DEF OnTheAir
    <3>2. ~air[f].overlapped
      BY <2>1, <2>5, <3>1 DEF IInv, GatewayInv, ReceptionInv
    <3>3. f \notin over /\ over' = over
      BY <2>2, <3>2
    <3>4. QED
      BY <2>1, <2>5, <3>3 DEF Radio!FrameReceived
  <2>6. QED
    BY <2>3, <2>4, <2>5
<1>4. ASSUME NEW m \in Macs, NEW t \in AirTimes, BeginTx(m, t),
             NEW heard \in SUBSET Frames, heard = OnAir
      PROVE  Radio!Begin(m, t, heard)
  <2>1. /\ Senders = {} /\ Senders' = {m} /\ bandWait[BandOf[m]] = 0
    BY <1>4, BeginTxFacts
  <2>2. /\ bandWait' = [bandWait EXCEPT ![BandOf[m]] =
                           IF DutyCycle[BandOf[m]] = 1 THEN 0
                           ELSE t * DutyCycle[BandOf[m]]]
        /\ air' = [f \in Frames |-> IF f \in OnAir THEN [air[f] EXCEPT !.overlapped = TRUE]
                                    ELSE air[f]]
        /\ received' = received
    BY <1>4 DEF BeginTx
  <2>3. \A f \in Frames :
          /\ air'[f].left = air[f].left
          /\ air'[f].overlapped = IF f \in OnAir THEN TRUE ELSE air[f].overlapped
    BY <1>0, <2>2 DEF OnTheAir
  <2>4. over' = over \cup OnAir
    BY <2>3 DEF OnAir
  <2>5. QED
    BY <1>4, <2>1, <2>2, <2>4 DEF Radio!Begin
<1>5. ASSUME NEW m \in Macs, EndTx(m)
      PROVE  Radio!End
  <2>1. m \in Senders /\ aborted = "no" /\ endTx' = [endTx EXCEPT ![m] = OFF]
    BY <1>5, EndTxFacts DEF EndTx
  <2>2. Senders' = {}
    BY <1>0, <2>1 DEF IInv, GatewayInv, SendingInv, Senders, Others
  <2>3. bandWait' = bandWait /\ over' = over /\ received' = received
    BY <1>5 DEF EndTx, rxVars, OnAir
  <2>4. QED
    BY <2>1, <2>2, <2>3 DEF Radio!End
<1>6. ASSUME NEW m \in Macs, TxCancelled(m) \/ EnterIdle(m)
      PROVE  UNCHANGED <<Senders, bandWait, over, received>>
  BY <1>6 DEF TxCancelled, EnterIdle, rxVars, Senders, OnAir
<1>7. CASE Tick
  <2>1. /\ ~TimerDue /\ endTx' = [m \in Macs |-> TimeLeft(endTx[m])]
        /\ bandWait' = [b \in Bands |-> TimeLeft(bandWait[b])]
        /\ air' = [f \in Frames |-> [air[f] EXCEPT !.left = TimeLeft(@)]]
        /\ received' = received
    BY <1>7 DEF Tick
  <2>2. bandWait' = [b \in Bands |-> IF bandWait[b] > 0 THEN bandWait[b] - 1 ELSE 0]
    BY <1>0, <2>1, TimeLeftFacts
  <2>3. \A m \in Macs : endTx'[m] = OFF <=> endTx[m] = OFF
    BY <1>0, <2>1, TimeLeftFacts DEF TimerDue
  <2>4. \A f \in Frames : /\ air'[f].overlapped = air[f].overlapped
                          /\ (air'[f].left = OFF <=> air[f].left = OFF)
    BY <1>0, <2>1, TimeLeftFacts DEF TimerDue, OnTheAir
  <2>5. Senders' = Senders
    BY <2>3 DEF Senders
  <2>6. over' = over
    BY <2>4 DEF OnAir
  <2>7. QED
    BY <2>1, <2>2, <2>5, <2>6 DEF Radio!TimePasses, Radio!Next
<1>8. CASE UNCHANGED vars
  BY <1>8 DEF vars, rxVars, Senders, OnAir
<1>9. OnAir \in SUBSET Frames
  BY DEF OnAir
<1>10. CASE Next
  <2>1. CASE SendBeacon \/ \E m \in Macs : SendDownlink(m)
    BY <1>1, <2>1, GatewayAssumption DEF SendBeacon, SendDownlink, MessageTypes
  <2>2. CASE \E f \in Frames, m \in Macs, t \in FrameTimes :
               StartRx(f, m, t) \/ StartRxDrops(f, m, t)
    BY <1>2, <2>2 DEF StartRx, StartRxDrops, Radio!Next
  <2>3. CASE \E f \in Frames : EndRx(f)
    BY <1>3, <2>3 DEF Radio!Next
  <2>4. CASE \E m \in Macs, t \in AirTimes : BeginTx(m, t)
    <3>1. PICK m \in Macs, t \in AirTimes : BeginTx(m, t)
      BY <2>4
    <3>2. PICK heard \in SUBSET Frames : heard = OnAir
      BY <1>9
    <3>3. Radio!Begin(m, t, heard)
      BY <1>4, <3>1, <3>2
    <3>4. QED
      BY <3>3 DEF Radio!Next
  <2>5. CASE \E m \in Macs : EndTx(m)
    BY <1>5, <2>5 DEF Radio!Next
  <2>6. CASE \E m \in Macs : TxCancelled(m) \/ EnterIdle(m)
    BY <1>6, <2>6
  <2>7. QED
    BY <1>7, <1>10, <2>1, <2>2, <2>3, <2>4, <2>5, <2>6 DEF Next, System
<1>11. QED
  BY <1>8, <1>10

\* The MACs and PHYs of a gateway together implement one half-duplex radio.
THEOREM GatewayImplementsRadio == Spec => ImplementsRadio
<1>1. Init => Radio!Init
  <2> SUFFICES ASSUME Init PROVE Radio!Init
    OBVIOUS
  <2>1. /\ endTx = [m \in Macs |-> OFF] /\ bandWait = [b \in Bands |-> 0]
        /\ air = [f \in Frames |-> OffAir] /\ received = {}
    BY DEF Init
  <2>2. Senders = {} /\ OnAir = {}
    BY <2>1 DEF Senders, OnAir, OffAir
  <2>3. QED
    BY <2>1, <2>2 DEF Radio!Init
<1>2. QED
  BY <1>1, InductiveInvariant, RadioStep, PTL DEF Spec, ImplementsRadio, Radio!Spec
=============================================================================
