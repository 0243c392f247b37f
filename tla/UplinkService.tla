--------------------------- MODULE UplinkService ----------------------------
(***************************************************************************)
(* What the MAC of an end device promises the layer above it: frames are   *)
(* served in the order they were handed over, one at a time.  A frame is   *)
(* sent at most a fixed number of times; an unconfirmed one is done with   *)
(* its last repetition, a confirmed one when it is acknowledged, which     *)
(* happens while the device listens and after at least one transmission,   *)
(* or given up, which needs all of them and a device that has stopped      *)
(* listening.                                                              *)
(***************************************************************************)
EXTENDS Naturals, Sequences

CONSTANTS NbTransCon, NbRep   \* transmissions of a (un)confirmed frame

VARIABLES
  queue,      \* the frames not yet done, with the transmissions they had
  listening   \* the device listens in RW1 or RW2

vars == <<queue, listening>>

Limit(con) == IF con THEN NbTransCon ELSE NbRep

Init == queue = <<>> /\ listening = FALSE

Accept(con) ==
  /\ queue' = Append(queue, [con |-> con, sent |-> 0])
  /\ UNCHANGED listening

Listen == listening' = ~listening /\ UNCHANGED queue

Done == queue' = Tail(queue)

Transmit ==
  /\ queue # <<>> /\ Head(queue).sent < Limit(Head(queue).con)
  /\ IF ~Head(queue).con /\ Head(queue).sent + 1 = NbRep
     THEN Done
     ELSE queue' = [queue EXCEPT ![1].sent = @ + 1]
  /\ ~listening /\ UNCHANGED listening

Acknowledge ==
  /\ queue # <<>> /\ Head(queue).sent > 0 /\ Done
  /\ listening /\ UNCHANGED listening

GiveUp ==
  /\ queue # <<>> /\ Head(queue).con /\ Head(queue).sent = NbTransCon
  /\ Done
  /\ listening' = FALSE

Serve == Transmit \/ Acknowledge \/ GiveUp

Next == Serve \/ Listen \/ \E con \in BOOLEAN : Accept(con)

SafeSpec == Init /\ [][Next]_vars

\* A frame that waits is eventually served, however often the device listens.
Spec == SafeSpec /\ SF_vars(Serve)
=============================================================================
