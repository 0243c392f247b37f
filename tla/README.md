# TLA+ models of the ns-3 LoRaWAN Class A/B module

The repository is an ns-3 module that simulates LoRaWAN networks (EU868) with
Class A and Class B end devices.  This directory models its control: the MAC
state machine of an end device with its transceiver, its timers and its queue;
the service it gives to the layer above; the network server that talks to it
through several gateways; the many MACs of a gateway; the beacons and ping slots of
Class B; and the headers, sizes and times that the parts exchange.  TLC checks the
models on small instances; TLAPS proves the safety of a device of Class A or B, of the
service a Class A device gives, of the server, of the link that device and server give
their applications, of a gateway of any size, of the ping-slot schedule for all of
them, and that headers, beacons, sizes, times and tags fit each other.

## 1. Inventory

All paths are under `src/lorawan/`.  The program is a discrete-event
simulation: one thread, handlers that run to completion, and a queue of events
ordered by time and, at the same time, by the order in which they were
scheduled.  What makes it hard is the order of those events: which of them are
still pending when another one runs, and in which state each finds the object
it is called on.  There are no crashes, no persistence and no threads.

| Component | State it keeps | Operations | Hard behaviour | What makes it correct |
|---|---|---|---|---|
| **End device MAC** `model/lorawan-mac.cc` | `m_LoRaWANMacState`, transmit queue and `m_txPkt`, `m_retransmission`, events `m_setMacState`, `m_preambleDetected`, `m_ackTimeOut`, `m_lastUplinkBitTime` | `sendMACPayloadRequest`, `CheckQueue`, `CheckRetransmission`, `SetLoRaWANMacState`, `OpenRW`/`CloseRW`, `CheckPhyPreamble`, Ack time-out, PHY callbacks | four timers and the PHY race each other; beacon and ping-slot windows interrupt Class A traffic; windows are missed | no assertion fails, no pending event is lost, a frame is sent the right number of times, and something always moves it on |
| **RDC object** (`LoRaWANMacRDC`, same file) | time-off and timer of each sub band | `IsSubBandAvailable`, `ScheduleSubBandTimer`, `UpdateRDCTimerForSubBand` | availability is checked before it is used | duty cycle kept, the timer wakes the MAC |
| **Transceiver** `model/lorawan-phy.cc` | `m_trxState`, frame being received or sent | `SetTRXStateRequest`, `StartRx`/`EndRx`, `PdDataRequest`/`EndTx` | requests outside a table abort the program | each MAC path asks only what the table allows |
| **Net device** `model/lorawan-net-device.cc` | one MAC/PHY pair for an end device; one per channel and data rate for a gateway, with one RDC object | `Send`, `MacBeginsTx`/`MacEndsTx`, `CanSendImmediatelyOnChannel`, `StartReceivingBeacon` | a gateway transmission switches off all other pairs; the check whether it can send is made before | half duplex; a frame accepted is sent at once |
| **Network server** `model/lorawan-gateway-application.cc` | per device: counters, gateways that heard it, Ack flag, Class A and B downlink queues, RW1/RW2 timers, Class B mode | `HandleUSPacket`, `RW1TimerExpired`, `RW2TimerExpired`, `SendDSPacket`, `DSTimerExpired`, `ClassBSendBeacon`, `ClassBPingSlot` | copies through several gateways, retransmissions, Acks in both directions, gateways that are busy | one answer per uplink, Acks matched to the right frame, queues bounded by transmissions |
| **Gateway application** (same file) | ping-slot queues, socket | `HandleRead`, `SendDSPacket`, `SendBeacon`, `RequestPingSlot`, `IsTopOfPingSlotQueue` | slots requested at one gateway and used at another | a slot serves one device |
| **End device application** `model/lorawan-enddevice-application.cc` | traffic timers, counters, Ack flag, beacon state | `SendPacket`, `HandleDSPacket`, `ClassBReceiveBeacon`, `ClassBSchedulePingSlots`, `ClassBPingSlot` | beacons are missed; the device must agree with the server on its slots | slots agree, Class B is left after two hours without a beacon |
| **Gateway MACs** `model/lorawan-mac.cc`, gateway role | the same members, `MAC_UNAVAILABLE` | `CheckQueue` of a gateway, `SetLoRaWANMacState`, `MacBeginsTx`, `MacEndsTx` | several MACs are asked to send in one instant | half duplex, no accepted frame is thrown away |
| **Channels and data rates** `model/lorawan.cc` | constant tables | `GetRX1DataRateIndex`, `GetMtu`, air times | tables written twice, in different units | a pair for every channel and data rate, sizes that fit |
| **Headers** `model/*header*.cc` | fields | (de)serialisation | frame counter width, optional port, flags that differ by direction | both sides read the same |
| **Cipher** `model/aes.cc` | | AES-128 | third-party | |
| **Interference, error model, spectrum** `model/lorawan-interference-helper.cc`, `-error-model.cc`, `-spectrum-*` | received signals | floating-point SINR | | |
| **Helpers, examples, tests** | | configuration | | |

Interactions: the application hands a frame to the net device, which calls the
MAC; the MAC schedules its own state changes and drives the PHY by synchronous
requests; the PHY calls the MAC back when a frame has been sent, received or
destroyed.  On the other side a gateway's MACs deliver frames to the gateway
application, which calls the one network server; the server's timers call a
gateway back when the device's window opens.

## 2. Plan

What matters most comes first: the MAC of an end device, which everything else
relies on, then the server that has to meet its windows.

| Step | Module | Composes | Abstract specification, properties | State |
|---|---|---|---|---|
| 1 | `LoRaWANPhy` | | table of transceiver requests | done |
| 2 | `EndDeviceMac` | `LoRaWANPhy` | implements `UplinkService`; assertions, PHY requests, pending events, duty cycle, progress | done |
| 3 | `EndDeviceMacProofs` | `EndDeviceMac` | the safety properties of a device of Class A or B, from one inductive invariant | done |
| 4 | `NetworkServer` | the device as `UplinkService` and the windows of `EndDeviceMac` promise it, gateways as free choices | answers meet windows, Acks match frames, one answer per transmission | done |
| 5 | `NetworkServerProofs` | `NetworkServer` | all of its safety properties | done |
| 6 | `GatewayDevice` | the MAC and PHY pairs of a gateway, one RDC object, `LoRaWANPhy` | implements `GatewayRadio`; half duplex, an accepted downlink is sent | done |
| 7 | `GatewayDeviceProofs` | `GatewayDevice` | its safety and the refinement, for any number of pairs | done |
| 8 | `PingSlots`, `PingSlotsProofs` | the server, the queues of the gateways and several device applications | server and devices agree on the slots of a period; a slot serves one device; the hold time is kept | done |
| 9 | `FrameFormats` | used with `PingSlots` | headers, beacon, sizes, air times and pairs at the values of the code | done |
| 10 | `UplinkServiceProofs` | `EndDeviceMac`, `UplinkService` | the refinement, step by step, of everything but the fairness | done |
| 11 | `FrameFormatsProofs` | `FrameFormats` | headers and beacons are read alike for all values; sizes, times and pairs fit | done |
| 12 | `LinkService`, `LinkServiceProofs` | `NetworkServer` | device and server implement the link their applications see | done |

### Modules

| Module | What it is |
|---|---|
| `LoRaWANPhy` | which transceiver requests `SetTRXStateRequest` accepts in which state |
| `EndDeviceMac` | MAC, RDC object and PHY of one end device, Class A and B |
| `UplinkService` | what that MAC promises the layer above |
| `MCEndDeviceMac` | its instances for TLC, with `ClassA.cfg`, `ClassB.cfg`, `SubBandTimerInWindow.cfg`, `StrayDownlinkInRW2.cfg`, `StaleCheckClosesWindow.cfg` |
| `EndDeviceMacProofs` | theorems about a device of Class A or B |
| `UplinkServiceProofs` | the theorem that a Class A device implements the safety of `UplinkService` |
| `NetworkServer` | the network server, several gateways and one end device |
| `MCNetworkServer` | its instances for TLC, with `NetworkServer.cfg`, `PingAckKept.cfg`, `DownlinkAckMismatch.cfg`, `ClassBTrafficGoesOn.cfg` |
| `NetworkServerProofs` | theorems about the server |
| `LinkService` | what device and server together promise their applications |
| `LinkServiceProofs` | the theorem that they keep it |
| `GatewayDevice` | the net device of a gateway: a MAC and a PHY for each channel and data rate, one RDC object |
| `GatewayRadio` | what that device promises as a radio |
| `MCGatewayDevice` | its instance for TLC, with `GatewayDevice.cfg`, `GatewayRetransmission.cfg` |
| `GatewayDeviceProofs` | theorems about a gateway |
| `PingSlots` | Class B from the beacon of the server to the ping slots of several devices |
| `FrameFormats` | what the parts exchange: constant operators, no state |
| `MCPingSlots` | the instance of `PingSlots` for TLC, together with `FrameFormats`, with `PingSlots.cfg` |
| `PingSlotsProofs` | theorems about the ping-slot schedule |
| `FrameFormatsProofs` | theorems about headers, beacons, sizes, times and pairs |

Definitions whose comment says "mutant" are not part of a specification:
each is a plausible mistake in the code, and replacing the definition named beside
it by the mutant makes TLC report the property it was written for.

## 3. EndDeviceMac: a device of Class A or B

### Correspondence

| Model | Code |
|---|---|
| `mac`, `trx` | `m_LoRaWANMacState`, `m_trxState` |
| `txQueue`, `txPkt`, `retransmission` | `m_txQueue`, `m_txPkt != 0`, `m_retransmission` |
| `setMac` | the one pending `SetLoRaWANMacState` event with its target and the time left |
| `checks` | the pending `CheckPhyPreamble` events.  A set, because opening a window overwrites `m_preambleDetected` without cancelling it |
| `ackTimeOut`, `subBandTimer` | `m_ackTimeOut`, `m_subBandTimers` |
| `bandWait` | time until `IsSubBandAvailable` holds |
| `endTx`, `endRx` | the PHY's `EndTx`, and `EndRx` of the frame being received |
| `rw2In` | `m_lastUplinkBitTime + RECEIVE_DELAY2 - now` |
| `EnterIdle` ... `EnterAckTimeout`, `TxCancelled`, `MissedRW2` | the branches of `SetLoRaWANMacState` |
| `CheckPhyPreamble`, `AckTimeoutExpired`, `SubBandTimerExpired`, `PdDataConfirm` | the functions of the same names |
| `ReceiveDownlink`, `ReceiveBeacon`, `ReceiveNothing` | `PdDataIndication` and `PdDataDestroyed`, called by `EndRx` |
| `SendMACPayloadRequest`, `FrameArrives`, `OpenClassBWindow` | what the application and the channel do |

A queued frame is reduced to its type, its sub band and the transmissions it
has left.  A state change, a call of `CheckQueue` or `CheckRetransmission` and
the PHY request belong to the action of the handler that makes them.

**Time** is counted in ticks.  `Tick` runs only when nothing is due.  Events due
together run in the order ns-3 runs them, (time stamp, uid): the Ack time-out
of RW2 is scheduled before its preamble check ends, a state change scheduled
"now" runs after everything that was scheduled before.  The guards `CheckDue`,
`EndRxDue`, `SetMacDue` state that order.  The times satisfy
`TimingAssumption`: the preamble is shorter than RECEIVE_DELAY1 and than the
Ack time-out, and a frame longer than its preamble.

**Environment.**  A frame may start to arrive whenever a window is open.
`ArrivesWhileClosing` says whether it may do so between the preamble check of its
window and the `MAC_IDLE` or `MAC_WAITFORRW2` event of the same instant that closes
it.  `StartRx` does not exclude this, and the request for `TRX_OFF` then aborts the
program (`lorawan-phy.cc:358`; in the model, `PhyRequestsLegal` fails in the instance
of `class_a` when the constant is `TRUE`).  It takes an arrival in the very
nanosecond in which the check runs; all runs set the constant to `FALSE`, and what is
said of the device below holds up to that tie, which is listed as a hazard.  `StrayData` says whether a downlink *without* the Ack bit may reach
the device in RW1 or RW2 while it waits for an Ack.

### Runs

| Run | Instance | Checks |
|---|---|---|
| `class_a` | Class A, coarse ticks, 2 sub bands with a 6 % duty cycle (a time-off outlasts a cycle), 3 frames of both types, 2 transmissions each, 3 arrivals, frames that end before and after RW2 starts, fairness | all safety properties, the proofs' invariant, the duty cycle, `ImplementsService`, `Drains` |
| `class_b` | finer ticks, 2 beacon or ping-slot windows interleaved with 2 frames and 2 arrivals, one sub band that is always open and one with a 6 % duty cycle, RW2 never missed, fairness; no deadlock check because the program aborts at the assertion of the next run | `AssertionsButTimer`, `WindowKeptOpen`, the invariant of the proofs, `DutyCycleRespected`, `DrainsOrStops` |
| `sub_band_timer_in_window` | Class B, one sub band with a 6 % duty cycle | violation of `SubBandTimerMeetsIdle` (`lorawan-mac.cc:961`) |
| `stray_downlink_in_rw2` | Class A with `StrayData` | violation of `AckTimeoutMeetsItsStates` (`lorawan-mac.cc:1310`) |
| `stale_check_closes_window` | Class B with frames long enough to miss RW2 | violation of `WindowKeptOpen` |

Bounds: two transmissions per frame are enough for a first, a last and a
repeated one; two sub bands for a timer of a band the next frame does not use;
two frames in the queue for a successor of the one being sent, three so that a
successor itself has one.  The Class B run has one sub band of each kind, so that a
frame that waits for its timer and one that does not meet in the queue.  Two windows allow one to follow the other.  The
arrival bound covers every window of a transmission.  Each tick value keeps the
order of the real delays; the header of `MCEndDeviceMac` gives the scale.

**Fairness** is `WF_vars(System)`: the simulator always runs the next event, and
time passes when there is none.  Nothing is assumed of the environment.

### The three violations

1. *A sub-band timer expires in a beacon or ping-slot window.*  A frame that
   must be sent again waits for its sub band in `MAC_IDLE` with `m_txPkt` set.
   A window opens from `MAC_IDLE`; the timer calls `CheckRetransmission`, which
   asserts `MAC_IDLE`.  No arrival and no tie of events is needed.
2. *An Ack time-out survives a downlink without Ack.*  The MAC goes to idle, the
   time-out keeps running and asserts its states later.
3. *The preamble check of a missed RW2 closes a later window.*  The event has no
   record of its window.

### Service

`UplinkService` is the promise to the layer above: frames are served in order;
each is sent at most its number of times; a frame is acknowledged only while the
device listens in RW1 or RW2, and was sent before; one given up was sent every
time and the device has stopped listening; an unconfirmed one leaves with its last
repetition; a frame that waits is eventually served, however often the device
listens (strong fairness).  The refinement maps each queued frame to the number of
transmissions it had (`served`).

## 4. NetworkServer: the server and one device

### Correspondence

| Model | Code |
|---|---|
| `lastGWs`, `fCntUp`, `setAck`, `isClassB`, `rw1Timer`, `rw2Timer` | the members of `LoRaWANEndDeviceInfoNS` |
| `sinceSeen` | `Simulator::Now () - m_lastSeen`, exact up to RECEIVE_DELAY2 and constant from there: the code only compares it with 1 s |
| `dsQueue` | `m_downstreamQueue`: an element is its number, its type and the transmissions it has left |
| `bQueue`, `bTraffic` | length of `m_ClassBdownstreamQueue`, and whether its traffic timers run |
| `pings` | pending `ClassBPingSlot` events of the current beacon period |
| `HandleUSPacket`, `RW1TimerExpired`, `RW2TimerExpired`, `SendDSPacket`, `DSTimerExpired`, `ClassBDSTimerExpired`, `ClassBSendBeacon`, `ClassBPingSlot` | the functions of the same names |
| `devAck`, `devFCnt`, `devClassB`, `SendPacket`, `LeaveClassB` | `m_setAck`, `m_fCntUp`, `m_isClassB`, `SendPacket` and `ClassBSchedulePingSlots` of the end device application |
| `devQueue`, `txPkt`, `UplinkEnds`, `GiveUp` | the device's MAC as `UplinkService` has it |
| `ReceiveDownlink` | `PdDataIndication` of the device's MAC and `HandleDSPacket` of its application |
| `phase`, `sinceTx` | where the device is in its cycle: idle, within an uplink and its windows, or done with them because it received something |
| `uplink`, `copies`, `downlink` | what is on the air: the last uplink, the gateways that have still to forward it, the frame a gateway is sending |

The server serves each device from that device's record alone, so one device
shows it all, except for what other devices take from it: gateways and slots.  A
gateway can send or not at every attempt (`CanSendImmediatelyOnChannel` is a free
choice), a transmission reaches any set of gateways (also none), and a downlink
may be lost.  What happens in one instant interleaves freely: copies of a
transmission arrive in any order, a frame may be handed to the MAC or generated
between them.  `downlinks`, `heard`, `heardBy`, `answered`, `received` and
`ackUsed` record what has happened and steer nothing but the bounds.

The device is abstracted to the promise that `EndDeviceMac` is checked to keep:
frames in order, transmissions counted, and after each transmission RW1 and RW2 at
their times unless something was received.  A transmission does not overlap the
cycle before it, because the MAC leaves `MAC_IDLE` for the whole cycle.

### Runs

| Run | Instance | Checks |
|---|---|---|
| `network_server` | 2 gateways, 3 uplinks and 2 downlinks of both types, 2 transmissions each, a Class B device with 1 Class B downlink | the invariant of the proofs, the six properties below and `ImplementsLink` |
| `ping_ack_kept` | 2 uplinks of both types, unconfirmed downlinks, 2 ping slots used | violation of `PingAckMeansHeard` (`lorawan-gateway-application.cc:991`) |
| `downlink_ack_mismatch` | Class A, the default numbers of transmissions: 4 of a confirmed frame each way, 1 of an unconfirmed uplink | violation of `DownlinkAckMatches` (line 315) |
| `class_b_traffic_goes_on` | a Class B device that may leave Class B | violation of `ClassBTrafficStops` (line 360) |

One tick is half a second: RECEIVE_DELAY1 and the server's window for copies
(1 s) are 2 ticks, RECEIVE_DELAY2 is 4.  Two gateways are enough for a copy that
arrives second and for an answer through either of them; three uplinks for one
being repeated, one waiting with a stale Ack bit and one after both; two
downlinks for one that an Ack removes in place of the other; two transmissions
for a first and a last.

What the passing run shows, and why a test would hardly reach it:

- `RWTimersFree`: the errors logged at lines 366 and 411 and the assertion of
  line 416 never occur, although the server tells copies, retransmissions and
  new frames apart by the time since it last heard the device only.
- `AnswerMeetsWindow`, `AnswerThroughHearers`: an answer is on the air exactly
  while the device has that window open, and through a gateway that received that
  very transmission, not an earlier one.
- `OneAnswerPerTransmission`: never both in RW1 and in RW2.
- `RWAckMeansHeard`: what the device takes for an Ack in RW1 or RW2 is one, although
  `m_setAck` may be left over from an earlier frame.
- `AckBitProcessedOnce`: an uplink removes at most one downlink, however often it is
  repeated.
- `ImplementsLink`: device and server together are a simple link (see "The link" below).

### The three violations

1. *Ack in a ping slot.*  `ClassBPingSlot` sends `m_setAck` and does not clear it.
   By then the device may be repeating a later frame, which it takes for
   acknowledged and removes: the frame is lost.
2. *Ack of a downlink.*  The Ack bit names no downlink.  A downlink given up after
   its last transmission may have been received; its Ack then removes the next
   one in the queue, which was not.
3. *Class B traffic.*  Assigning `EventId()` does not cancel the event.

### The link

`LinkService` is what the two applications may rely on, without time, gateways or
copies.  Each transmission begins an exchange that is `sent` until the server hears it,
`heard` until it has been answered in RW1 or RW2 or not at all, and `closed` then; the
next transmission, or giving the frame up, waits until it is closed and no answer is on
the air.  Frames and downlinks are numbered and finished in that order.  An answer carries the
downlink that has waited longest; its Ack bit finishes a frame only if the server has
heard that very frame.  The Ack bit of a frame finishes a downlink only when the server
hears the frame for the first time.

The refinement makes the exchange from what the server has left of it: `heard` while one
of its RW timers runs, `sent` while copies are under way that it will not take for
duplicates, `closed` otherwise.  The numbers come from the lengths of the queues and the
counters of what was generated.  What the program does not promise is not in it either:
that a downlink that is acknowledged was received (violation 2), and that an Ack in a
ping slot means anything (violation 1; `Acknowledge` asks it of answers only).

## 5. GatewayDevice: the MACs of a gateway

### Correspondence

| Model | Code |
|---|---|
| `Macs`, `ChannelOf`, `BandOf` | `m_macs` and `m_phys`, one pair for each channel and data rate, as `CompleteConfig` numbers them |
| `mac`, `trx`, `queue`, `txPkt` | `m_LoRaWANMacState`, `m_trxState`, `m_txQueue`, `m_txPkt != 0` of each pair |
| `events` | the pending `SetLoRaWANMacState` events of all MACs.  A gateway's MACs schedule them for the current instant only, so they run in the order in which they were scheduled: a queue |
| `endTx`, `bandWait` | the `EndTx` event of each PHY; time until `IsSubBandAvailable` of the one RDC object holds |
| `air`, `rx` | frames of other radios on the air; `m_currentRxPacket` of each PHY |
| `received`, `collided`, `aborted` | what was handed up; whether a frame was accepted while another MAC was about to send; the assertion that stopped the program.  The first two steer nothing |
| `SendDownlink`, `SendBeacon` | `CanSendImmediatelyOnChannel`, then `Send` and `sendMACPayloadRequest`, as `SendDSPacket` and `SendBeacon` of the gateway application call them |
| `BeginTx` | `SetLoRaWANMacState (MAC_TX)` with `MacBeginsTx`, which makes every MAC unavailable and switches every PHY off, and `PdDataRequest` |
| `TxCancelled` | the same of a MAC that is not idle any more |
| `EndTx` | `EndTx`, `PdDataConfirm` and `MacEndsTx`, which makes the other MACs idle at once |
| `EnterIdle` | the `MAC_IDLE` event of the MAC that has sent |
| `StartRx`, `StartRxDrops`, `EndRx` | the functions of the PHY; what interference destroys is a free choice |

Requests of the server and frames of other radios may come between any two events,
also of one instant: the windows of two devices, or the ping slots of two data rates,
may start together.  `CanSendImmediatelyOnChannel` has to stand that.

### Runs

| Run | Instance | Checks |
|---|---|---|
| `gateway_device` | 3 pairs in 2 sub bands, two of them on channel 7 (RW2 and beacons), transmissions of 1 and 2 ticks, 2 frames of other radios of 1 and 3 ticks, fairness; no deadlock check because the program may abort | the invariant of the proofs, `HalfDuplex`, `AssertionsHold`, `AcceptedIsSent`, `AbortNeedsCollision`, `ImplementsRadio`, `AcceptedEnds` |
| `gateway_retransmission` | the same | violation of `RetransmissionsLeftToServer` (`lorawan-mac.cc:963`) |

Three pairs are one that sends, one that is about to and one that only receives; two
share a channel, so that one frame destroys another, and a sub band, so that one
takes the other's time.  A frame of 3 ticks outlasts a transmission and one of 1 tick
ends within it.  There is no bound on the number of requests: the state space is
finite without one.

What is worth knowing of the properties: `AcceptedIsSent` says that the check made
by the net device and the one made later by the MAC never disagree, for beacons too,
which would otherwise stay at the front of the queue and go out late.  `GatewayRadio`
is the view of the server: one radio, which sends one frame at a time, keeps the duty
cycle of a sub band over all its MACs together and hands up nothing that it has sent
over.  The refinement maps `overlapped` to the frames on the air during one of the
gateway's own transmissions.  `AcceptedEnds` assumes `WF_vars(System)`: the simulator
runs the next event.

### The violation

*Two frames of one instant.*  A request on one MAC is followed, before its `MAC_TX`
event runs, by one on another MAC (another channel or data rate), which finds its own
MAC idle and without an event.  Its transmission is cancelled with `m_txPkt` set, and
when the first is over `CheckRetransmission` asserts that this is not a gateway.
`AbortNeedsCollision` shows that nothing else leads there.

## 6. PingSlots: beacons and ping slots

### Correspondence

| Model | Code |
|---|---|
| `classB`, `gw`, `queue`, `traffic` | of each record of the server: `m_isClassB`, the front of `m_lastGWs`, the size of `m_ClassBdownstreamQueue`, its running traffic timers |
| `beaconAt`, `pings` | `m_beaconTimer` and the pending `ClassBPingSlot` events of the server |
| `beacon` | the time in the beacon that gateways are sending |
| `listed` | `m_pingSlots` of the gateways: gateway, slot, device |
| `accepted`, `refused` | gateways that took or refused a frame in this instant |
| `devClassB`, `timestamp`, `missed`, `devBeaconAt`, `schedule`, `windows` | of each device application: `m_isClassB`, `m_timestamp`, `m_missedBeaconsCounter`, `m_beaconTimer`, the pending `ClassBSchedulePingSlots` and `ClassBPingSlot` events |
| `uplink` | the Class B bit of the frame the device is sending or repeating |
| `lastHeard`, `opened` | what was heard and opened; they steer nothing |
| `ClassBSendBeacon`, `PingWithoutFrame`, `PingOverlap`, `PingRefused`, `PingSent`, `ClassBDSTimerExpired`, `HandleUSPacket` | the functions of the server; the four `Ping...` are the outcomes of `ClassBPingSlot` |
| `IsTop` | `IsTopOfPingSlotQueue` |
| `SendPacket`, `ClassBReceiveBeacon`, `HearBeacon`, `ClassBSchedulePingSlots`, `ClassBPingSlot` | the functions of the device application (`HearBeacon` is the beacon part of `HandleDSPacket`) |

The clock jumps from event to event.  The cipher is an arbitrary function of device
and time, for the run one that makes offsets equal in some periods and different in
others, and different again for a time that is not a beacon's.  Which gateways hear
an uplink, which devices hear a beacon and whether a gateway is busy are free
choices.

### Run

`class_b_periods`: 2 devices and 2 interchangeable gateways for 3 beacon periods of 8
ticks, with 4 slots of which each device has 2, one downlink per device waiting.
Class B is left after 2 missed beacons in place of 57, and the counter has 3 values in
place of 256, so that it wraps within the run.  Safety only, hence no fairness; no
deadlock check because the simulation stops at `StopTime`.  Two devices share a slot
or not, two gateways let one of them move; three periods hold a period after one that
was missed, the end of Class B and the wrapped counter.

- `PeriodInv` (proved): server and device, each computing for itself, agree on every
  slot of the period, whatever beacons were missed.
- `PingMeetsWindow` (proved): a Class B downlink is sent when its device opens a
  window.  The one exception is a device that has left Class B and could not tell yet.
- `WastedOnlyByMove` (proved): a device listed for a slot loses it, with a gateway that
  is not busy, only to a device that was listed with it and has moved to another
  gateway since the beacon.  Then the slot is used by nobody: slots are requested at one
  gateway and looked up at another.
- `ClassBKept` (proved): Class B is left when two hours without a beacon are over,
  not before and within one more period.
- `QuietWhenLost` (proved): a device that has heard no beacon for so long opens no windows,
  *until its `uint8_t` counter wraps*.  The property states the exception because the
  code has it: it schedules its next beacon and goes on counting after it has left
  Class B.

## 7. FrameFormats: what the parts exchange

Constant operators at the values of the code: headers byte by byte, as one side writes
and the other reads them; the beacon, which server and gateway fill in turn, and from
which the device's MAC removes a header that is not there; packet tags; the pairs of
a gateway; frame sizes and air times.  They do not change, so the run
`class_b_periods` looks at them in its states of time 0.

- `HeadersSurvive`: address, counter, flags and port are read as written, in both
  directions, by the MAC that peeks with a class of its own too; a new frame is known
  for new up to counter 65535, and never again after it.
- `BeaconTimeSurvives`: a device reads the time the server has written, at an offset
  one byte lower because of the removed header; no data frame is taken for a beacon.
- `PeriodFits`: the beacon ends before the device stops waiting for it, and the longest
  frame in the last slot before the next beacon, at every periodicity and data rate.
  `PingAssumption` and the guard of `HearBeacon` rest on this.
- `FrameFits`: a frame accepted by `Send` (one table, by spreading factor) is accepted
  by the MAC (another table, by data rate).  It is as long as `PacketSize` asks exactly
  up to 268 bytes.  The attribute has no maximum, and from 269 on the `uint8_t` that
  counts the payload wraps: `Send` lets through frames shorter than asked for (269 bytes
  become 13), and none of the right size.  Below 13 bytes the byte wraps too, and no
  frame passes.
- `PairsMatch`: what an application writes into the tags is what `Send` asks of the
  MAC, found at the pair `CompleteConfig` has made for it; RW1 stays in the table.

TLC looks at header fields and times for the values at which a byte or a half word ends
(`Edges`), with every set of flags; the proofs cover all values.  Sizes are a constant,
`PacketSizes`: TLC looks at 1 to 600 bytes, in which the byte wraps three times, the proof
covers every size.  Data rates, channels and periodicities are looked at for all values
they can have.

## 8. Proofs

### EndDeviceMac

`EndDeviceMacProofs` proves, for every number of frames, arrivals, windows and
repetitions, all sub bands, duty cycles and delays that satisfy
`WorkloadAssumption` and `TimingAssumption`:

| Theorems about | Hypothesis |
|---|---|
| `TypeOK`, `AssertionsButTimer`, `WindowKeptOpen`, `PhyRequestsLegal`, `HandlesNotOverwritten`, `NeverStuck`, `AckTimerOwned`, `DutyCycleRespected` | `AnswersInTime` |
| `AssertionsHold`, `CountInv`, `RetransmissionExact`, the refinement of `UplinkService` | `ClassAOnly` |

`AnswersInTime` says that answers to confirmed frames carry the Ack bit, that no frame
begins while its window is being closed (`~ArrivesWhileClosing`) and that, if
the device is Class B, no frame that can begin in RW1 outlasts the time to RW2
(`RW2NeverMissed`).  All three are needed: the run `stray_downlink_in_rw2` violates
the first, `PhyRequestsLegal` fails without the second (section 3), and in the instance of `stale_check_closes_window`, where RW2 is missed,
the preamble check that is left over loses its handle to that of the next window, so
`HandlesNotOverwritten` fails along with `WindowKeptOpen`.  The instances of `class_a`
and `class_b` satisfy it, and both check `IInv`.  `ClassAOnly` adds that no beacon or
ping-slot window is opened.  It is needed for `AssertionsHold` (run
`sub_band_timer_in_window`) and for `RetransmissionExact`: a `MAC_TX` event that finds
the MAC in a window of the same instant gives up its transmission (`TxCancelled`), and
`CheckRetransmission` later counts a retransmission that was never sent.

None of these is inductive.  `IInv` adds what each state of the MAC knows of
the transceiver and of the pending events: one conjunct per state (`IdleInv`,
`TxInv`, `WaitInv`, `WindowInv`, `RW1Inv`, `RW2Inv`, `ClassBWindowInv`,
`AckTimeoutInv`), and four that cut across them.  `TimerInv` says that a sub-band timer
ends when its band opens and, in Class A, that it runs only in `MAC_IDLE` for the head
of the queue: that is why it meets `MAC_IDLE` there.  `QueueInv` says which frames have
transmissions left.  `StaleCheckInv` bounds, in Class A, the check left over by a missed
RW2, so that it is gone before RW1 of the next transmission opens: that is where the
timing assumption on the preamble enters.  In Class B it says that every check belongs
to the window that is open, which rests on `RW2InTimeInv`: what is left of
RECEIVE_DELAY2 is tied to the event that opens RW1 and to its preamble check, so that
RW1 is over when RW2 is due.  `ClassBWindowInv` says that a window opened in the instant
in which a transmission was scheduled has only just begun when that event cancels
itself.  There is one lemma per action; `RecheckFacts` and
`IdleOutcomeInv` carry the part that `EnterIdle`, `SubBandTimerExpired` and
`SendMACPayloadRequest` share (`CheckQueue` and `CheckRetransmission`).

`RetransmissionExact` needs one more invariant, `CountInv`, inductive on top of
`IInv`: a frame that was not sent yet has all of its transmissions left, the one being
sent has used `retransmission + 1`, and one fewer from the moment its `MAC_TX` event
is scheduled to its `EndTx`.  `ScheduledWhenIdle` is where it uses `IInv`: a
transmission is scheduled in `MAC_IDLE` only, so no window overwrites it.

### UplinkService

`UplinkServiceProofs` proves `ServiceImplemented`: a Class A device implements
`Service!SafeSpec`, everything `UplinkService` says except its fairness.  The mapping
gives each frame the number of transmissions it had (`served`).  `Sent` states it for
any queue, with a lemma for each thing that can happen to one: its head is sent once
more (`SentServe`), leaves (`SentTail`), a frame joins (`SentAppend`).  `ServiceStep`
then maps every action: `PdDataConfirm` is a `Transmit` (the last repetition of an
unconfirmed frame also ends it), the end of an answer with the Ack bit an
`Acknowledge`, a `CheckRetransmission` that finds no transmission left a `GiveUp`, opening and closing RW1 and
RW2 a `Listen`; everything else stutters.  `IInv` gives where the frame on the air is
(at the head), `CountInv` that a frame given up has had all of its transmissions.  That
a frame is eventually served (the fairness in `ImplementsService`) stays with TLC.

### NetworkServer

`NetworkServerProofs` proves the six properties of the run `network_server` for any
gateways, traffic, number of transmissions and delays with
`DuplicateWindow <= RECEIVE_DELAY1 < RECEIVE_DELAY2` (`ServerAssumption`; in the
code 1 s, 1 s and 2 s).  They follow from `CycleInv`, which ties the server's
clock to the device's: a running RW timer belongs to the last transmission, which
the server has seen (`Seen`), and ends with the window (`RWTimerInv`); while copies
are under way the server has either handled one of them in this very instant or
nothing of this transmission, and then what it knows is older than the window for
copies (`Forgotten`, `CopyInv`); when the device is idle everything is `Forgotten`
(`PhaseInv`).  None of the properties is inductive: that a copy is not taken for a
retransmission (`DuplicateMeansSeen`) needs the time of the last transmission and
the counters together.

### LinkService

`LinkServiceProofs` proves `LinkImplemented`, the refinement of `LinkService`, from the
same assumption.  `CycleInv` says which transmission timers, copies and answers belong to;
the refinement also needs to know which *frame* that is.  `ServerInv` adds it:
`UplinkNumbers` (the frame last sent is the head of the device's queue or the one removed
last), `DownlinkNumbers` (an answer carries the first downlink that is not finished) and
`HeardInv`: the server compares counters, the link promises what was *heard*, and the two
agree because the counter is always that of the latest frame heard and frames are sent in
order.  Each of the three has a lemma for the steps that move a queue (`AppendedAt`,
`RemovedAt`, `SentAt` say where its elements are afterwards).  `LinkStep` maps every
action: `HandleUSPacket` is a `Hear` for the first copy and a stutter for the others
(`DuplicateMeansSeen`), a timer that ends an `Answer`, `NoAnswer` or, when RW1 hands over
to RW2, a stutter; time is always a stutter.

### GatewayDevice

`GatewayDeviceProofs` proves for any number of pairs, channels, sub bands, duty cycles
and frames (`GatewayAssumption`): `GatewayInv`, `HalfDuplex`, `AcceptedIsSent`,
`AbortNeedsCollision`, `AssertionsHold` and the refinement of `GatewayRadio`.
`SendingInv` and `IdleInv` are the two modes of the device: one MAC sends, the others
are unavailable and the events left are cancelled attempts; or nobody sends, and only
the first event may be the `MAC_IDLE` of the MAC that has just sent.  `PacketInv`
says that `m_txPkt` of a MAC has a cause: its event, or a transmission in its way, and
that two at once mean a collision.  `QueueIsInFlight` says that a queue never holds
anything but the frame of `m_txPkt`: this is why a request never finds a beacon in its
way.  `ReceptionInv` ties receptions to what is on the air: overlapped ones are
aborted, which the refinement needs.  `RadioStep` maps every step to one of
`GatewayRadio` or to a stutter.  No frame is counted twice because `Senders` has at
most one member (`HalfDuplex`).

### PingSlots

`PingSlotsProofs` proves `PeriodInv`, `PingMeetsWindow`, `WastedOnlyByMove`,
`ClassBKept` and `QuietWhenLost` for any number of devices, gateways, slots and
periods, any size of the counter, any cipher and any losses, from `PingAssumption` (the slots fit the period, the beacon ends before
them) and
`HoldAssumption` (the hold time lies between `MissLimit - 1` and `MissLimit` periods;
in the code 7200 s, 56 and 57 times 128 s).  `PeriodInv` is inductive: `ClocksAgree`
says that the clocks of server and device differ at most within the instant of a
beacon and that a generated time is the server's; `PingsOfPeriod` and
`WindowsOfPeriod` say which events are pending of the slots of the current period, and
`CounterCounts` what the counter says of the time since the last beacon while the
device is in Class B.  `CounterWraps` says the same, modulo the size of the counter,
of a device that has left Class B and goes on counting: `QuietWhenLost` follows from it,
with the fact that windows are scheduled only below the limit and opened within the
same period.  The arithmetic of quotients and remainders it needs (`QuotientUnique`,
`QuotientExists`, `CounterModulo`) is proved for all numbers.

`WastedOnlyByMove` needs `SlotsInv` on top of it: a device listed for a slot still to
come has a ping pending, and (`TurnsTaken`) while the pings of one instant run, a
device whose turn is over has nothing left to send, unless its gateway was busy or a
device listed with it, whose turn is over too, has moved away with frames to send.
The pings of one instant are for one slot (`OneSlotDue`) and run in the order of the devices, so whoever makes
`IsTopOfPingSlotQueue` say no has had its turn.  Without `TurnsTaken` the property is
not inductive: the device in front might still be at the gateway, with a frame it was
never offered a turn for.

### FrameFormats

`FrameFormatsProofs` proves `UplinksReadAlike`, `DownlinksReadAlike`, `NewFramesKnown` and
`BeaconsReadAlike` for every 32-bit address, counter and time and every 8-bit port, which
TLC, whose integers have 32 bits with a sign, cannot even write down; `HeadersSurvive`
and `BeaconTimeSurvives` follow.  The argument has three parts: a word is the sum of its
bytes (`HalfSum`, `WordSum`, `ReadWord`); each flag has a bit of its own (`UplinkBits`,
`DownlinkBits`); and a header is laid out so that a field stands where the reader looks
for it (`HeaderPositions`), the port last, because only a reader that expects one may
count on it.  A beacon is followed byte by byte through the server, the gateway and the
MAC.  These need no assumptions.

`FramesFit`, `PeriodsFit` and `PairsAlwaysMatch` prove the three other properties.
`FramesFit` holds of any set of sizes (`PacketSizeAssumption`: there is no size 0), so of
every value of `PacketSize`.  `SizeOfFrame` says when the byte that counts the payload
wraps: below 13 bytes, where the size that comes out is larger than any limit, and above
268, which no frame on the air exceeds, so that a larger one cannot keep its size.  `LongestFrame` bounds the air
time of every data rate by 3.03 s, and `LastSlot` finds that the last ping slot is number
4095 at every periodicity, so that one comparison is enough for all 56 combinations.
`PairNumbers` is division by the number of data rates.

### What is only model-checked

Liveness (`Drains`, `DrainsOrStops`, `AcceptedEnds`) and the fairness in the refinement
of `UplinkService`, which TLAPS cannot prove.  Every invariant and every action property
of a passing run has a theorem.

## 9. Not modelled, and limits

- **Ping-slot cipher**: third-party AES, an arbitrary function in `PingSlots`.
- **Interference, error model, spectrum**: floating-point signals; what is received
  or destroyed is a free choice.
- **Helpers, examples, tests**: configuration and measurement.
- **Applications**: the random times of traffic (uplinks and downlinks come at any
  time) and `StopApplication`, after which nothing of interest happens.
- `EndDeviceMac`: a frame that starts to arrive in the very instant in which its
  window is closed is modelled but excluded by all runs and theorems
  (`ArrivesWhileClosing`, section 3).  Not modelled are three events of one device in
  one instant that ns-3 would run in an order other than that of the guards.  Requests with an invalid channel or
  data rate are not made.
- `NetworkServer`: the frame counter does not wrap (`HeadersSurvive` says where it
  would).  A device that has left Class B does not come back, as in the code.  An
  answer takes no time on the air.  The Class B traffic attribute of the server
  (`m_generateClassBDataDown`) is set.
- `GatewayDevice`: the beacons of other gateways are not heard.  In the code a
  gateway's MAC would hand one up as if it were an uplink (listed as a hazard,
  `lorawan-mac.cc:479`).  A beacon is sent only after `CanSendImmediatelyOnChannel`,
  as its caller does.
- `PingSlots`: server and devices start at time 0, as in the examples; a device started
  at another time would count other periods (hazard at
  `lorawan-enddevice-application.cc:266`).  Times in beacons are whole seconds, which
  is exact at multiples of 128 s.  All gateways send beacons from the start, while
  `PopulateEndDevices` overwrites the records that `AssignInitialGateway` has filled,
  so `m_lastGWs` is empty until the first uplink, as in the model.  Both sides use the
  same data rate in ping slots, which is a matter of configuration (hazard at
  `lorawan-gateway-application.cc:1094`).
- `FrameFormats`: an answer without payload carries a port byte, although the comment at
  `lorawan-gateway-application.cc:512` says that it does not; both sides agree on it.
  Frame options are not used by the code.
