---------------------------- MODULE LinkService -----------------------------
(***************************************************************************)
(* What a device and the network server promise their applications of the  *)
(* link between them, without time, gateways, copies or counters to        *)
(* compare.                                                                *)
(*                                                                         *)
(* Frames of the device are numbered as they are submitted and finished in *)
(* that order.  Each transmission begins an exchange: if the server hears  *)
(* it, it may send one answer before the exchange is closed, and the next  *)
(* transmission waits for that.  An answer carries the downlink that has   *)
(* waited longest.  The Ack bit of an answer finishes a frame only if the  *)
(* server knows that frame; the Ack bit of a frame finishes a downlink     *)
(* only when the server hears that frame for the first time.  Frames sent  *)
(* in ping slots come at any time and make no such promise.                *)
(***************************************************************************)
EXTENDS Naturals

VARIABLES
  submitted, finished,   \* uplink frames so far
  tried,       \* the first frame not finished has been sent
  exchange,    \* "sent", "heard" or "closed"
  known,       \* the frames the server has heard
  owed,        \* the server owes an Ack
  generated, done,       \* downlinks so far
  onAir        \* what the server has sent and the device not yet received

uplinkVars   == <<submitted, finished, tried>>
downlinkVars == <<generated, done>>
vars == <<uplinkVars, exchange, known, owed, downlinkVars, onAir>>

Nothing == [kind |-> "none", ack |-> FALSE, id |-> 0]

\* The frame last sent, and whether a downlink waits
Frame == IF tried THEN finished + 1 ELSE finished
Waiting == done < generated

\* The device may send: nothing of the last exchange is left.
Quiet == exchange = "closed" /\ onAir.kind # "answer"

Init ==
  /\ submitted = 0 /\ finished = 0 /\ tried = FALSE
  /\ exchange = "closed" /\ known = {} /\ owed = FALSE
  /\ generated = 0 /\ done = 0 /\ onAir = Nothing

FinishFrame == finished' = finished + 1 /\ tried' = FALSE

Submit ==
  /\ submitted' = submitted + 1
  /\ UNCHANGED <<finished, tried, exchange, known, owed, downlinkVars, onAir>>

\* A frame that needs no Ack is finished with its last transmission.
Transmit ==
  /\ Quiet /\ finished < submitted
  /\ exchange' \in {"sent", "closed"}
  /\ FinishFrame \/ (tried' = TRUE /\ UNCHANGED finished)
  /\ UNCHANGED <<submitted, known, owed, downlinkVars, onAir>>

Hear ==
  /\ exchange = "sent" /\ exchange' = "heard"
  /\ known' = known \cup {Frame} /\ owed' \in {owed, TRUE}
  /\ \/ UNCHANGED done
     \/ Frame \notin known /\ Waiting /\ done' = done + 1
  /\ UNCHANGED <<uplinkVars, generated, onAir>>

Answer ==
  /\ exchange = "heard" /\ exchange' = "closed"
  /\ onAir = Nothing /\ (Waiting \/ owed) /\ owed' = FALSE
  /\ onAir' = [kind |-> "answer", ack |-> owed, id |-> IF Waiting THEN done + 1 ELSE 0]
  /\ \/ UNCHANGED done
     \/ Waiting /\ done' = done + 1
  /\ UNCHANGED <<uplinkVars, known, generated>>

NoAnswer ==
  /\ exchange = "heard" /\ exchange' = "closed"
  /\ UNCHANGED <<uplinkVars, known, owed, downlinkVars, onAir>>

Ping ==
  /\ onAir = Nothing /\ onAir' = [kind |-> "ping", ack |-> owed, id |-> 0]
  /\ UNCHANGED <<uplinkVars, exchange, known, owed, downlinkVars>>

\* Lost, or received without finishing a frame
Arrive ==
  /\ onAir # Nothing /\ onAir' = Nothing
  /\ UNCHANGED <<uplinkVars, exchange, known, owed, downlinkVars>>

Acknowledge ==
  /\ onAir.ack /\ exchange = "closed" /\ tried
  /\ onAir.kind = "answer" => Frame \in known
  /\ FinishFrame /\ onAir' = Nothing
  /\ UNCHANGED <<submitted, exchange, known, owed, downlinkVars>>

GiveUp ==
  /\ Quiet /\ tried /\ FinishFrame
  /\ UNCHANGED <<submitted, exchange, known, owed, downlinkVars, onAir>>

Generate ==
  /\ generated' = generated + 1
  /\ UNCHANGED <<uplinkVars, exchange, known, owed, done, onAir>>

Next ==
  \/ Submit \/ Transmit \/ Hear \/ Answer \/ NoAnswer \/ Ping
  \/ Arrive \/ Acknowledge \/ GiveUp \/ Generate

Spec == Init /\ [][Next]_vars
=============================================================================
