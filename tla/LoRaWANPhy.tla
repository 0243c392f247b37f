----------------------------- MODULE LoRaWANPhy -----------------------------
(***************************************************************************)
(* The transceiver of a LoRaWANPhy object (lorawan-phy.cc): its states and *)
(* the transition table of SetTRXStateRequest.  A request outside the      *)
(* table aborts the program (NS_ABORT_IF).                                 *)
(*                                                                         *)
(* TX_ON does not appear among the states: SetTRXStateRequest(TX_ON)       *)
(* confirms synchronously, and the confirmation hands the frame to         *)
(* PdDataRequest, which leaves the transceiver in BUSY_TX before any other *)
(* event can run.                                                          *)
(***************************************************************************)

TrxStates == {"TRX_OFF", "IDLE", "RX_ON", "BUSY_RX", "BUSY_TX"}

TrxRequests == {"TRX_OFF", "IDLE", "RX_ON", "TX_ON", "FORCE_TRX_OFF"}

\* The states each request may be made from, besides the requested state
\* itself, which is confirmed at once and changes nothing.
LegalFrom ==
  [TRX_OFF       |-> {"RX_ON"},
   IDLE          |-> {"BUSY_TX", "BUSY_RX", "RX_ON"},
   RX_ON         |-> {"TRX_OFF", "IDLE", "BUSY_TX", "BUSY_RX"},
   TX_ON         |-> {"TRX_OFF", "IDLE", "RX_ON"},
   FORCE_TRX_OFF |-> TrxStates]

PhyAccepts(request, trx) == request = trx \/ trx \in LegalFrom[request]

NeverDetected(trx) == FALSE   \* mutant

\* A preamble has been detected exactly while a frame is being received.
PreambleDetected(trx) == trx = "BUSY_RX"
=============================================================================
