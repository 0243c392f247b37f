---------------------------- MODULE FrameFormats ----------------------------
(***************************************************************************)
(* The data that the parts of the program exchange and must read the same  *)
(* way: headers, the beacon, frame sizes, air times, channels, data rates. *)
(* Every definition is a constant operator.  Words are little endian, as   *)
(* the buffers of ns-3 write them; a bit mask is a power of two.           *)
(***************************************************************************)
EXTENDS Integers, Sequences

CONSTANT PacketSizes   \* the values of the PacketSize attributes that are looked at

\* The attributes have a minimum of 1 and no maximum.
ASSUME PacketSizeAssumption == PacketSizes \subseteq Nat \ {0}

\* The bytes of a half word and of a word, and what is read from bytes[i] on
HalfBytes(x) == <<x % 256, (x \div 256) % 256>>
Bytes(x) == HalfBytes(x) \o HalfBytes(x \div 65536)
Half(bytes, i) == bytes[i] + 256 * bytes[i + 1]
Word(bytes, i) == Half(bytes, i) + 65536 * Half(bytes, i + 2)
Has(byte, mask) == (byte \div mask) % 2 = 1
CeilDiv(a, b) == -((-a) \div b)
Zeros(n) == [k \in 1 .. n |-> 0]

\* Values at which a byte or a half word ends
Edges == {0, 1, 255, 256, 65534, 65535, 65536, 65537, 16777216, 2147483647}

-----------------------------------------------------------------------------
(* Headers.                                                                *)

\* The bits of the frame control byte; bit 4 means something else downlink.
UplinkMask   == [adr |-> 128, adrAckReq |-> 64, ack |-> 32, classB |-> 16]
DownlinkMask == [adr |-> 128, ack |-> 32, fPending |-> 16]

UplinkFlags   == DOMAIN UplinkMask
DownlinkFlags == DOMAIN DownlinkMask

\* The setters: the options length, bits 0 to 3, stays zero.
Masked(flags, f, mask) == IF f \in flags THEN mask[f] ELSE 0
UplinkControl(flags) ==
  Masked(flags, "adr", UplinkMask) + Masked(flags, "adrAckReq", UplinkMask)
    + Masked(flags, "ack", UplinkMask) + Masked(flags, "classB", UplinkMask)
DownlinkControl(flags) ==
  Masked(flags, "adr", DownlinkMask) + Masked(flags, "ack", DownlinkMask)
    + Masked(flags, "fPending", DownlinkMask)

\* Serialize: the counter is cut to 16 bits, port is <<>> or the frame port.
UplinkHeader(h) ==
  Bytes(h.addr) \o <<UplinkControl(h.flags)>> \o HalfBytes(h.counter) \o h.port
DownlinkHeader(h) ==
  Bytes(h.addr) \o <<DownlinkControl(h.flags)>> \o HalfBytes(h.counter) \o h.port

HeaderSizeWithPort(hasPort) == 8   \* mutant: the port is always counted

\* GetSerializedSize: what AddHeader adds and what counts for the payload
HeaderSize(hasPort) == 7 + (IF hasPort THEN 1 ELSE 0)

\* Deserialize, by the masks it looks for; only a reader that expects a port reads it.
ReadUplink(bytes, hasPort) ==
  [addr |-> Word(bytes, 1), counter |-> Half(bytes, 6),
   flags |-> {f \in UplinkFlags : Has(bytes[5], UplinkMask[f])},
   port |-> IF hasPort THEN <<bytes[8]>> ELSE <<>>]
ReadDownlink(bytes, hasPort) ==
  [addr |-> Word(bytes, 1), counter |-> Half(bytes, 6),
   flags |-> {f \in DownlinkFlags : Has(bytes[5], DownlinkMask[f])},
   port |-> IF hasPort THEN <<bytes[8]>> ELSE <<>>]

\* Deserialize of LoRaWANFrameHeader, which the MAC peeks at
ACK == 32
PeekHeader(bytes) == [addr |-> Word(bytes, 1), ack |-> Has(bytes[5], ACK)]

\* LoRaWANMsgType: JOIN_REQUEST is 0, data frames 2 to 5, PROPRIETARY 7
MsgTypes == 0 .. 7
DataUp   == {2, 4}
DataDown == {3, 5}
MacHeader(type, major) == ((type % 8) * 32) + (major % 4)
MsgTypeOf(mhdr) == (mhdr \div 32) % 8
IsUpstream(type) == type \in DataUp
IsDownstream(type) == type \in DataDown
IsConfirmed(type) == type \in {4, 5}

\* HandleUSPacket: the counter of the header is new
IsNewFrame(counter, fCntUp) == counter > fCntUp

-----------------------------------------------------------------------------
(* The beacon: RFU 2, time 4, CRC 2, coordinates 7, CRC 2 bytes.            *)

\* ClassBSendBeacon, for the time t in seconds
ServerBeacon(t) == Zeros(2) \o Bytes(t) \o Zeros(11)
\* SendBeacon of the gateway fills in what is its own, from byte 9 on.
GatewayBeacon(beacon) == SubSeq(beacon, 1, 9) \o Zeros(8)
\* PdDataIndication of the device removes a MAC header that is not there.
BeaconAfterMac(beacon) == Tail(beacon)

TimeFromWholeBeacon(beacon) == Word(beacon, 3)   \* mutant: no byte was removed

\* HandleDSPacket reads bytes 1 to 4 of what is left.
BeaconTime(beacon) == Word(beacon, 2)

-----------------------------------------------------------------------------
(* Channels, data rates and the pairs of a gateway.                        *)

Channels == 0 .. 7
DataRates == 0 .. 6
SubBandOf == [c \in Channels |-> IF c = 7 THEN 3 ELSE 1]
SpreadingFactor == [dr \in DataRates |-> IF dr = 6 THEN 7 ELSE 12 - dr]
MaxPowerForSubBand(b) == IF b = 3 THEN 27 ELSE 14
RW2Pair == [channel |-> 7, dr |-> 0]
BeaconPair == [channel |-> 7, dr |-> 3]

\* SetTxConf accepts the power (every bandwidth of the table is 125 kHz) and code rate.
SetTxConfAccepts(power, codeRate) ==
  power \in {27, 20, 14, 11, 8, 5, 2} /\ codeRate \in 1 .. 4

ConfigurePhyForTX(channel, codeRate) ==
  SetTxConfAccepts(MaxPowerForSubBand(SubBandOf[channel]), codeRate)

\* The packet tags: four bytes in the order of LoRaWANPhyParamsTag, one with the type
PhyParamsTag(params) ==
  <<params.channel, params.dr, params.codeRate, params.preamble>>
ReadPhyParams(tag) ==
  [channel |-> tag[1], dr |-> tag[2], codeRate |-> tag[3], preamble |-> tag[4]]
MsgTypeTag(type) == <<type>>

\* What Send makes of the tags of a packet, with NbRep at its default 1
RequestParams(phyTag, typeTag) ==
  LET type == typeTag[1]
  IN [phy |-> ReadPhyParams(phyTag), msgType |-> type,
      transmissions |-> IF type = 4 THEN 4 ELSE 1]

\* CompleteConfig gives pair i its channel and data rate, getMACSIndex... finds it.
NbPairs == 56
PairOf(i) == [channel |-> i \div 7, dr |-> i % 7]
PairIndex(channel, dr) == channel * 7 + dr

RX1WithoutFloor(up, offset) == (up - offset) % 256   \* mutant: no minimum

GetRX1DataRateIndex(up, offset) ==
  IF offset \in 0 .. 5 THEN IF up <= offset THEN 0 ELSE up - offset ELSE up

DefaultRX1Offset == 0     \* m_rx1DROffset, InitEndDeviceInfo

-----------------------------------------------------------------------------
(* Sizes and air times.                                                    *)

\* GetMtu, for the spreading factor the application has set
GetMtu(sf) == IF sf <= 8 THEN 222 ELSE IF sf = 9 THEN 115 ELSE 51
MaxMACPayloadSize == <<59, 59, 59, 123, 230, 230, 230>>    \* by data rate, from 0

PayloadWithoutMacHeader(pktSize) == (pktSize - HeaderSize(TRUE) - 4) % 256   \* mutant: 1 byte more

\* SendPacket: what is left for the payload, in a uint8_t
FrmPayloadSize(pktSize) == (pktSize - HeaderSize(TRUE) - 1 - 4) % 256
MACPayloadSize(pktSize) == FrmPayloadSize(pktSize) + HeaderSize(TRUE)
\* constructPhyPayload adds the MAC header and the MIC.
PhyPayloadSize(pktSize) == MACPayloadSize(pktSize) + 1 + 4
SendAccepts(pktSize, dr) == MACPayloadSize(pktSize) <= GetMtu(SpreadingFactor[dr])
MacAccepts(pktSize, dr) == MACPayloadSize(pktSize) <= MaxMACPayloadSize[dr + 1]

\* CalculateTxTime in microseconds: quarters of a symbol, which lasts 2^sf / 125 kHz
CalculateTxTime(size, sf, codeRate, preamble, implicitHeader, crc) ==
  LET conditional ==
        CeilDiv(8 * size - 4 * sf + 28 + 16 * crc - 20 * implicitHeader, 4 * sf)
          * (codeRate + 4)
      quarters == 4 * (preamble + 8 + conditional) + 17
  IN quarters * 2 ^ sf * 2
CalculatePreambleTime(sf, preamble) == (4 * preamble + 17) * 2 ^ sf * 2

BeaconTxTime == CalculateTxTime(17, 9, 1, 10, 1, 0)
PingTxTime(size, dr) == CalculateTxTime(size, SpreadingFactor[dr], 1, 8, 0, 1)

\* The times of a beacon period, in microseconds
BeaconPeriod == 128000000
ListensForBeacon == 173000     \* MilliSeconds (173.056) takes whole milliseconds
BeaconReserved == 2120000
SlotLength == 30000

OneSlotMore(pingSlots) == 4096 \div pingSlots + 1   \* mutant: an off-by-one

PingSpacing(pingSlots) == 4096 \div pingSlots
NbPingSlots(periodicity) == 2 ^ (7 - periodicity)

-----------------------------------------------------------------------------
(* What must hold of these definitions.                                    *)

Headers(words, ports, flags) ==
  [addr : words, counter : words, flags : SUBSET flags,
   port : {<<>>} \cup {<<p>> : p \in ports}]

\* A header that was written as bytes and read as r; the counter is cut to 16 bits.
ReadAlike(h, bytes, r) ==
  /\ Len(bytes) = HeaderSize(h.port # <<>>)
  /\ r = [h EXCEPT !.counter = @ % 65536]
  /\ PeekHeader(bytes) = [addr |-> h.addr, ack |-> "ack" \in h.flags]

\* What one side writes into a header the other reads: addresses, the flags each
\* direction has, ports and message types, and no byte of the payload with it; the MAC,
\* which peeks with a header class of its own, finds the same address and Ack bit in
\* both.  The server takes a later frame for new as long as the device's 32-bit counter
\* fits the 16 bits of the header; after number 65535 it takes none for new
\* (lorawan-gateway-application.cc 264).
HeadersReadAlike ==
  /\ \A h \in Headers(Edges, {0, 1, 255}, UplinkFlags) :
       ReadAlike(h, UplinkHeader(h), ReadUplink(UplinkHeader(h), h.port # <<>>))
  /\ \A h \in Headers(Edges, {0, 1, 255}, DownlinkFlags) :
       ReadAlike(h, DownlinkHeader(h), ReadDownlink(DownlinkHeader(h), h.port # <<>>))
  /\ \A type \in MsgTypes, major \in 0 .. 3 : MsgTypeOf(MacHeader(type, major)) = type
  /\ \A type \in MsgTypes : ~(IsUpstream(type) /\ IsDownstream(type))
  /\ \A last, n \in {n \in Edges : n < 65536} : n > last => IsNewFrame(n % 65536, last)
  /\ \A n \in Edges : ~IsNewFrame(n % 65536, 65535)

\* A device reads from a beacon the time the server has put into it, whatever gateway
\* sent it; the MAC takes a beacon, which has no MAC header, for a beacon, and takes
\* no data frame for one (lorawan-mac.cc 479).
BeaconReadAlike ==
  /\ \A t \in Edges : BeaconTime(BeaconAfterMac(GatewayBeacon(ServerBeacon(t)))) = t
  /\ \A t \in Edges : MsgTypeOf(GatewayBeacon(ServerBeacon(t))[1]) = 0
  /\ \A type \in DataUp \cup DataDown : MsgTypeOf(MacHeader(type, 0)) # 0

\* A beacon period holds what is done in it: the beacon has ended when the device
\* schedules its ping slots, that is before the first of them, the slots of every
\* periodicity are among the 4096 the gateway has queues for, and the longest frame in
\* the last of them ends before the next beacon, at every data rate.
SlotsFitPeriod ==
  /\ BeaconTxTime < ListensForBeacon /\ ListensForBeacon < BeaconReserved
  /\ CalculatePreambleTime(9, 10) < BeaconTxTime
  /\ \A periodicity \in 0 .. 7 :
       LET slots == NbPingSlots(periodicity)
           last == PingSpacing(slots) - 1 + PingSpacing(slots) * (slots - 1)
       IN /\ last \in 0 .. 4095
          /\ \A dr \in DataRates :
               BeaconReserved + last * SlotLength
                 + PingTxTime(GetMtu(SpreadingFactor[dr]) + 5, dr) < BeaconPeriod

\* A frame that Send accepts is accepted by the MAC too (which drops others without a
\* word, lorawan-mac.cc 831) and fits the byte in which the PHY counts it.  Up to 268
\* bytes it has the size the application asked for.  From 269 on the uint8_t of the
\* payload has wrapped, and what Send lets through is a shorter frame, never one of the
\* right size; below the 13 bytes of the headers it has wrapped too, and nothing passes.
SizesFit ==
  \A pktSize \in PacketSizes, dr \in DataRates :
    SendAccepts(pktSize, dr) =>
      /\ MacAccepts(pktSize, dr) /\ PhyPayloadSize(pktSize) <= 255
      /\ pktSize >= 13
      /\ PhyPayloadSize(pktSize) = pktSize <=> pktSize <= 268

\* A gateway has one pair for every channel and data rate, found where CompleteConfig
\* has put it.  What an application writes into the tags of a packet is what Send asks
\* of the MAC: the pair of that channel and data rate, a PHY configuration that is
\* accepted, the type of the MAC header; only a confirmed uplink is repeated.  RW1 of any offset has a
\* data rate of the table, not above that of the uplink; RW1TimerExpired asks the
\* gateway about the data rate of the uplink and SendDSPacket uses that of RW1: they
\* are the same with the offset the server has.
PairsFit ==
  /\ \A i \in 0 .. NbPairs - 1 :
       /\ PairIndex(PairOf(i).channel, PairOf(i).dr) = i
       /\ PairOf(i).channel \in Channels /\ PairOf(i).dr \in DataRates
  /\ \A p \in {RW2Pair, BeaconPair} : PairIndex(p.channel, p.dr) \in 0 .. NbPairs - 1
  /\ \A c \in Channels, dr \in DataRates, codeRate \in {1, 3}, preamble \in {8, 10},
          type \in DataUp \cup DataDown :
       LET params == [channel |-> c, dr |-> dr, codeRate |-> codeRate,
                      preamble |-> preamble]
           request == RequestParams(PhyParamsTag(params), MsgTypeTag(type))
       IN /\ request.phy = params
          /\ MsgTypeOf(MacHeader(request.msgType, 0)) = type
          /\ request.transmissions > 1 <=> IsConfirmed(type) /\ IsUpstream(type)
          /\ PairOf(PairIndex(request.phy.channel, request.phy.dr))
               = [channel |-> c, dr |-> dr]
          /\ ConfigurePhyForTX(c, codeRate)
  /\ \A up \in DataRates, offset \in 0 .. 7 :
       /\ GetRX1DataRateIndex(up, offset) \in DataRates
       /\ GetRX1DataRateIndex(up, offset) <= up
  /\ \A up \in DataRates : GetRX1DataRateIndex(up, DefaultRX1Offset) = up
=============================================================================
