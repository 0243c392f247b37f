------------------------- MODULE FrameFormatsProofs -------------------------
(***************************************************************************)
(* Headers and beacons are read as they were written, for every 32-bit     *)
(* address, counter and time, every port and every set of flags; and the   *)
(* sizes, air times, pairs and tags of the program fit each other.         *)
(***************************************************************************)
EXTENDS MCPingSlots, SequenceTheorems, TLAPS

Words == {x \in Nat : x < 4294967296}
Ports == {p \in Nat : p < 256}

-----------------------------------------------------------------------------
(* Bytes and bits.                                                         *)

\* A half word and a word are the sum of their bytes, and are read as they were written.
LEMMA HalfSum ==
  ASSUME NEW x \in Nat
  PROVE  (x % 256) + 256 * ((x \div 256) % 256) = x % 65536
OBVIOUS

LEMMA WordSum ==
  ASSUME NEW x \in Words
  PROVE  /\ x \in Nat /\ x \div 65536 \in Nat
         /\ (x % 65536) + 65536 * ((x \div 65536) % 65536) = x
BY DEF Words

LEMMA ReadHalf ==
  ASSUME NEW s, NEW i, NEW x \in Nat,
         s[i] = HalfBytes(x)[1], s[i + 1] = HalfBytes(x)[2]
  PROVE  Half(s, i) = x % 65536
<1>1. Half(s, i) = HalfBytes(x)[1] + 256 * HalfBytes(x)[2]
  BY Zenon DEF Half
<1>2. HalfBytes(x)[1] = x % 256 /\ HalfBytes(x)[2] = (x \div 256) % 256
  BY DEF HalfBytes
<1>3. (x % 256) + 256 * ((x \div 256) % 256) = x % 65536
  BY HalfSum
<1> QED BY <1>1, <1>2, <1>3, SMT

LEMMA ReadWord ==
  ASSUME NEW s, NEW i \in Nat, NEW x \in Words,
         s[i] = HalfBytes(x)[1], s[i + 1] = HalfBytes(x)[2],
         s[i + 2] = HalfBytes(x \div 65536)[1], s[i + 3] = HalfBytes(x \div 65536)[2]
  PROVE  Word(s, i) = x
<1> DEFINE high == x \div 65536
<1>1. x \in Nat /\ high \in Nat /\ (x % 65536) + 65536 * (high % 65536) = x
  BY WordSum
<1>2. Half(s, i) = x % 65536
  BY <1>1, ReadHalf
<1>3. Half(s, i + 2) = high % 65536
  <2>1. (i + 2) + 1 = i + 3
    OBVIOUS
  <2>2. s[i + 2] = HalfBytes(high)[1] /\ s[(i + 2) + 1] = HalfBytes(high)[2]
    BY <2>1, SMT
  <2> HIDE DEF high
  <2> QED BY <1>1, <2>2, ReadHalf
<1> HIDE DEF high
<1>4. Word(s, i) = (x % 65536) + 65536 * (high % 65536)
  BY <1>2, <1>3, SMT DEF Word
<1> QED BY <1>1, <1>4, SMT

LEMMA FlagNames ==
  /\ UplinkFlags = {"adr", "adrAckReq", "ack", "classB"}
  /\ DownlinkFlags = {"adr", "ack", "fPending"}
BY DEF UplinkFlags, DownlinkFlags, UplinkMask, DownlinkMask

\* Each flag has a bit of its own in the frame control byte.
LEMMA UplinkBits ==
  ASSUME NEW flags \in SUBSET UplinkFlags
  PROVE  /\ Has(UplinkControl(flags), 128) <=> "adr" \in flags
         /\ Has(UplinkControl(flags), 64) <=> "adrAckReq" \in flags
         /\ Has(UplinkControl(flags), 32) <=> "ack" \in flags
         /\ Has(UplinkControl(flags), 16) <=> "classB" \in flags
BY DEF UplinkControl, Masked, UplinkMask, Has

LEMMA DownlinkBits ==
  ASSUME NEW flags \in SUBSET DownlinkFlags
  PROVE  /\ Has(DownlinkControl(flags), 128) <=> "adr" \in flags
         /\ Has(DownlinkControl(flags), 32) <=> "ack" \in flags
         /\ Has(DownlinkControl(flags), 16) <=> "fPending" \in flags
BY DEF DownlinkControl, Masked, DownlinkMask, Has

-----------------------------------------------------------------------------
(* Headers.                                                                *)

\* Address and counter, where they stand in a header.
LEMMA ReadFields ==
  ASSUME NEW addr \in Words, NEW counter \in Words, NEW s,
         s[1] = HalfBytes(addr)[1], s[2] = HalfBytes(addr)[2],
         s[3] = HalfBytes(addr \div 65536)[1], s[4] = HalfBytes(addr \div 65536)[2],
         s[6] = HalfBytes(counter)[1], s[7] = HalfBytes(counter)[2]
  PROVE  Word(s, 1) = addr /\ Half(s, 6) = counter % 65536
<1>1. Half(s, 6) = counter % 65536
  <2>1. counter \in Nat
    BY DEF Words
  <2>2. Half(s, 6) = HalfBytes(counter)[1] + 256 * HalfBytes(counter)[2]
    BY DEF Half
  <2>3. HalfBytes(counter)[1] = counter % 256
        /\ HalfBytes(counter)[2] = (counter \div 256) % 256
    BY <2>1 DEF HalfBytes
  <2> QED BY <2>1, <2>2, <2>3, HalfSum
<1>2. Word(s, 1) = addr
  <2>1. /\ s[1 + 1] = HalfBytes(addr)[2]
        /\ s[1 + 2] = HalfBytes(addr \div 65536)[1]
        /\ s[1 + 3] = HalfBytes(addr \div 65536)[2]
    OBVIOUS
  <2> QED BY <2>1, ReadWord
<1> QED BY <1>1, <1>2

\* The bytes of a header with this control byte
LaidOut(s, addr, control, counter, port) ==
  s = Bytes(addr) \o <<control>> \o HalfBytes(counter) \o port

\* What is found at the positions of a header, whatever control byte it has: the bytes
\* follow each other, and the port comes last, if there is one.
LEMMA HeaderPositions ==
  ASSUME NEW addr \in Words, NEW counter \in Words, NEW control,
         NEW port \in {<<>>} \cup {<<p>> : p \in Ports}, NEW s,
         LaidOut(s, addr, control, counter, port)
  PROVE  /\ Len(s) = HeaderSize(port # <<>>)
         /\ Word(s, 1) = addr /\ s[5] = control /\ Half(s, 6) = counter % 65536
         /\ port # <<>> => <<s[8]>> = port
<1> DEFINE low == HalfBytes(addr)
           high == HalfBytes(addr \div 65536)
           c == HalfBytes(counter)
<1>1. PICK a1, a2, a3, a4, c1, c2 : low = <<a1, a2>> /\ high = <<a3, a4>> /\ c = <<c1, c2>>
  BY DEF HalfBytes
<1>2. s = (low \o high) \o <<control>> \o c \o port
  BY DEF LaidOut, Bytes
<1> HIDE DEF low, high, c
<1>3. s = (<<a1, a2>> \o <<a3, a4>>) \o <<control>> \o <<c1, c2>> \o port
  BY <1>1, <1>2, Zenon
<1>4. /\ s[1] = a1 /\ s[2] = a2 /\ s[3] = a3 /\ s[4] = a4 /\ s[5] = control
      /\ s[6] = c1 /\ s[7] = c2
      /\ Len(s) = HeaderSize(port # <<>>)
      /\ port # <<>> => <<s[8]>> = port
  <2>1. CASE port = <<>>
    BY <1>3, <2>1 DEF HeaderSize
  <2>2. ASSUME NEW p, port = <<p>>
        PROVE  /\ s[1] = a1 /\ s[2] = a2 /\ s[3] = a3 /\ s[4] = a4 /\ s[5] = control
               /\ s[6] = c1 /\ s[7] = c2
               /\ Len(s) = 8 /\ s[8] = p
    BY <1>3, <2>2
  <2> QED BY <2>1, <2>2 DEF HeaderSize
<1>5. /\ s[1] = low[1] /\ s[2] = low[2] /\ s[3] = high[1] /\ s[4] = high[2]
      /\ s[6] = c[1] /\ s[7] = c[2]
  BY <1>1, <1>4
<1>6. Word(s, 1) = addr /\ Half(s, 6) = counter % 65536
  BY <1>5, ReadFields DEF low, high, c
<1> QED BY <1>4, <1>6, SMT

\* A gateway reads every uplink header as the device has written it, and the MAC that
\* peeks at it finds the same address and Ack bit (lorawan-frame-header-uplink.cc 209, 225).
THEOREM UplinksReadAlike ==
  \A h \in Headers(Words, Ports, UplinkFlags) :
    ReadAlike(h, UplinkHeader(h), ReadUplink(UplinkHeader(h), h.port # <<>>))
<1> SUFFICES ASSUME NEW h \in Headers(Words, Ports, UplinkFlags)
             PROVE  ReadAlike(h, UplinkHeader(h), ReadUplink(UplinkHeader(h), h.port # <<>>))
  OBVIOUS
<1> DEFINE bytes == UplinkHeader(h)
<1>1. /\ h.addr \in Words /\ h.counter \in Words /\ h.flags \in SUBSET UplinkFlags
      /\ h.port \in {<<>>} \cup {<<p>> : p \in Ports}
      /\ h = [addr |-> h.addr, counter |-> h.counter, flags |-> h.flags, port |-> h.port]
  BY DEF Headers
<1>2. /\ Len(bytes) = HeaderSize(h.port # <<>>) /\ Word(bytes, 1) = h.addr
      /\ bytes[5] = UplinkControl(h.flags) /\ Half(bytes, 6) = h.counter % 65536
      /\ h.port # <<>> => <<bytes[8]>> = h.port
  <2>1. LaidOut(bytes, h.addr, UplinkControl(h.flags), h.counter, h.port)
    BY DEF LaidOut, UplinkHeader
  <2> HIDE DEF bytes
  <2> QED BY <1>1, <2>1, HeaderPositions
<1> HIDE DEF bytes
<1>3. {f \in UplinkFlags : Has(bytes[5], UplinkMask[f])} = h.flags
  BY <1>1, <1>2, UplinkBits, FlagNames DEF UplinkMask
<1>4. Has(bytes[5], ACK) <=> "ack" \in h.flags
  BY <1>1, <1>2, UplinkBits DEF ACK
<1>5. ReadUplink(bytes, h.port # <<>>) = [h EXCEPT !.counter = @ % 65536]
  <2> DEFINE counter == h.counter % 65536
  <2>1. [h EXCEPT !.counter = @ % 65536]
          = [addr |-> h.addr, counter |-> counter, flags |-> h.flags, port |-> h.port]
    BY <1>1
  <2>2. (IF h.port # <<>> THEN <<bytes[8]>> ELSE <<>>) = h.port
    BY <1>2, SMT
  <2>3. Word(bytes, 1) = h.addr /\ Half(bytes, 6) = counter
    BY <1>2, SMT
  <2> HIDE DEF counter
  <2>4. ReadUplink(bytes, h.port # <<>>)
          = [addr |-> h.addr, counter |-> counter, flags |-> h.flags, port |-> h.port]
    BY <1>3, <2>2, <2>3, Zenon DEF ReadUplink
  <2> QED BY <2>1, <2>4, SMT
<1>6. PeekHeader(bytes) = [addr |-> h.addr, ack |-> "ack" \in h.flags]
  <2>1. Has(bytes[5], ACK) = ("ack" \in h.flags)
    BY <1>4 DEF Has
  <2>2. Word(bytes, 1) = h.addr
    BY <1>2, SMT
  <2> QED BY <2>1, <2>2, Zenon DEF PeekHeader
<1> QED BY <1>2, <1>5, <1>6 DEF ReadAlike, bytes

\* The same of downlinks (lorawan-frame-header-downlink.cc 200, 215).
THEOREM DownlinksReadAlike ==
  \A h \in Headers(Words, Ports, DownlinkFlags) :
    ReadAlike(h, DownlinkHeader(h), ReadDownlink(DownlinkHeader(h), h.port # <<>>))
<1> SUFFICES ASSUME NEW h \in Headers(Words, Ports, DownlinkFlags)
             PROVE  ReadAlike(h, DownlinkHeader(h),
                              ReadDownlink(DownlinkHeader(h), h.port # <<>>))
  OBVIOUS
<1> DEFINE bytes == DownlinkHeader(h)
<1>1. /\ h.addr \in Words /\ h.counter \in Words /\ h.flags \in SUBSET DownlinkFlags
      /\ h.port \in {<<>>} \cup {<<p>> : p \in Ports}
      /\ h = [addr |-> h.addr, counter |-> h.counter, flags |-> h.flags, port |-> h.port]
  BY DEF Headers
<1>2. /\ Len(bytes) = HeaderSize(h.port # <<>>) /\ Word(bytes, 1) = h.addr
      /\ bytes[5] = DownlinkControl(h.flags) /\ Half(bytes, 6) = h.counter % 65536
      /\ h.port # <<>> => <<bytes[8]>> = h.port
  <2>1. LaidOut(bytes, h.addr, DownlinkControl(h.flags), h.counter, h.port)
    BY DEF LaidOut, DownlinkHeader
  <2> HIDE DEF bytes
  <2> QED BY <1>1, <2>1, HeaderPositions
<1> HIDE DEF bytes
<1>3. {f \in DownlinkFlags : Has(bytes[5], DownlinkMask[f])} = h.flags
  BY <1>1, <1>2, DownlinkBits, FlagNames DEF DownlinkMask
<1>4. Has(bytes[5], ACK) <=> "ack" \in h.flags
  BY <1>1, <1>2, DownlinkBits DEF ACK
<1>5. ReadDownlink(bytes, h.port # <<>>) = [h EXCEPT !.counter = @ % 65536]
  <2> DEFINE counter == h.counter % 65536
  <2>1. [h EXCEPT !.counter = @ % 65536]
          = [addr |-> h.addr, counter |-> counter, flags |-> h.flags, port |-> h.port]
    BY <1>1
  <2>2. (IF h.port # <<>> THEN <<bytes[8]>> ELSE <<>>) = h.port
    BY <1>2, SMT
  <2>3. Word(bytes, 1) = h.addr /\ Half(bytes, 6) = counter
    BY <1>2, SMT
  <2> HIDE DEF counter
  <2>4. ReadDownlink(bytes, h.port # <<>>)
          = [addr |-> h.addr, counter |-> counter, flags |-> h.flags, port |-> h.port]
    BY <1>3, <2>2, <2>3, Zenon DEF ReadDownlink
  <2> QED BY <2>1, <2>4, SMT
<1>6. PeekHeader(bytes) = [addr |-> h.addr, ack |-> "ack" \in h.flags]
  <2>1. Has(bytes[5], ACK) = ("ack" \in h.flags)
    BY <1>4 DEF Has
  <2>2. Word(bytes, 1) = h.addr
    BY <1>2, SMT
  <2> QED BY <2>1, <2>2, Zenon DEF PeekHeader
<1> QED BY <1>2, <1>5, <1>6 DEF ReadAlike, bytes

\* The server takes a later frame for new until the 16 bits of the counter are used up,
\* and no frame after number 65535 (lorawan-gateway-application.cc 264).
THEOREM NewFramesKnown ==
  \A last, n \in Nat :
    /\ last < n /\ n < 65536 => IsNewFrame(n % 65536, last)
    /\ ~IsNewFrame(n % 65536, 65535)
<1> SUFFICES ASSUME NEW last \in Nat, NEW n \in Nat
             PROVE  /\ last < n /\ n < 65536 => n % 65536 > last
                    /\ ~(n % 65536 > 65535)
  BY DEF IsNewFrame
<1>1. n < 65536 => n % 65536 = n
  OBVIOUS
<1>2. n % 65536 \in Nat /\ n % 65536 < 65536
  OBVIOUS
<1> QED BY <1>1, <1>2

-----------------------------------------------------------------------------
(* Beacons.                                                                *)

\* A concatenation begins with its first part.
LEMMA ConcatBegins ==
  ASSUME NEW s \in Seq(Int), NEW r \in Seq(Int)
  PROVE  /\ s \o r \in Seq(Int) /\ Len(s \o r) = Len(s) + Len(r)
         /\ \A i \in 1 .. Len(s) : (s \o r)[i] = s[i]
<1>1. /\ s \o r \in Seq(Int) /\ Len(s \o r) = Len(s) + Len(r)
      /\ \A i \in 1 .. Len(s) + Len(r) :
           (s \o r)[i] = IF i <= Len(s) THEN s[i] ELSE r[i - Len(s)]
  BY ConcatProperties
<1>2. \A i \in 1 .. Len(s) : i \in 1 .. Len(s) + Len(r) /\ i <= Len(s)
  <2>1. Len(s) \in Nat /\ Len(r) \in Nat
    BY LenProperties
  <2> QED BY <2>1
<1>3. \A i \in 1 .. Len(s) : (s \o r)[i] = s[i]
  BY <1>1, <1>2, Zenon
<1> QED BY <1>1, <1>3, Zenon

\* A device reads from a beacon the time the server has put into it, and its MAC takes
\* the beacon for one (gateway-application.cc 812, enddevice-application.cc 532).
THEOREM BeaconsReadAlike ==
  \A t \in Words :
    LET sent == GatewayBeacon(ServerBeacon(t)) IN
    BeaconTime(BeaconAfterMac(sent)) = t /\ MsgTypeOf(sent[1]) = 0
<1> SUFFICES ASSUME NEW t \in Words
             PROVE  LET sent == GatewayBeacon(ServerBeacon(t)) IN
                    BeaconTime(BeaconAfterMac(sent)) = t /\ MsgTypeOf(sent[1]) = 0
  OBVIOUS
<1> DEFINE low == HalfBytes(t)
           high == HalfBytes(t \div 65536)
           server == ServerBeacon(t)
           sent == GatewayBeacon(server)
           b == BeaconAfterMac(sent)
<1>1. /\ low = <<low[1], low[2]>> /\ high = <<high[1], high[2]>>
      /\ low[1] \in Int /\ low[2] \in Int /\ high[1] \in Int /\ high[2] \in Int
  <2>1. t \in Nat /\ t \div 65536 \in Nat
    BY DEF Words
  <2> QED BY <2>1 DEF HalfBytes
<1>2. Zeros(2) = <<0, 0>>
      /\ Zeros(8) \in Seq(Int) /\ Len(Zeros(8)) = 8
      /\ Zeros(11) \in Seq(Int) /\ Len(Zeros(11)) = 11
  BY DEF Zeros
<1>3. Bytes(t) = low \o high
  BY DEF Bytes
<1> HIDE DEF low, high
<1> DEFINE start == <<0, 0>> \o (low \o high)
<1>4. /\ start \in Seq(Int) /\ Len(start) = 6 /\ start[1] = 0
      /\ start[3] = low[1] /\ start[4] = low[2]
      /\ start[5] = high[1] /\ start[6] = high[2]
  <2>1. start = <<0, 0>> \o (<<low[1], low[2]>> \o <<high[1], high[2]>>)
    BY <1>1, Zenon
  <2> HIDE DEF start
  <2> QED BY <1>1, <2>1
<1>5. server = start \o Zeros(11)
  BY <1>2, <1>3, Zenon DEF ServerBeacon
<1> HIDE DEF start, server
<1>6. /\ server \in Seq(Int) /\ Len(server) = 17
      /\ \A i \in 1 .. 6 : server[i] = start[i]
  <2>1. /\ server \in Seq(Int) /\ Len(server) = Len(start) + Len(Zeros(11))
        /\ \A i \in 1 .. Len(start) : server[i] = start[i]
    <3>1. /\ start \o Zeros(11) \in Seq(Int)
          /\ Len(start \o Zeros(11)) = Len(start) + Len(Zeros(11))
          /\ \A i \in 1 .. Len(start) : (start \o Zeros(11))[i] = start[i]
      BY <1>2, <1>4, ConcatBegins
    <3> QED BY <1>5, <3>1, Zenon
  <2>2. Len(start) = 6 /\ Len(Zeros(11)) = 11
    BY <1>2, <1>4, Zenon
  <2>3. Len(server) = 17
    <3>1. Len(server) = Len(start) + Len(Zeros(11))
      BY <2>1, Zenon
    <3>2. 6 + 11 = 17
      OBVIOUS
    <3> QED BY <2>2, <3>1, <3>2, Zenon
  <2> QED BY <2>1, <2>2, <2>3, Zenon
<1> DEFINE kept == SubSeq(server, 1, 9)
<1>7. /\ kept \in Seq(Int) /\ Len(kept) = 9
      /\ \A i \in 1 .. 9 : kept[i] = server[i]
  <2>1. \A i \in 1 .. 9 : server[i] \in Int
    <3>1. \A i \in 1 .. 9 : i \in 1 .. Len(server)
      BY <1>6
    <3> QED BY <1>6, <3>1, ElementOfSeq, Zenon
  <2>2. /\ kept \in Seq(Int) /\ Len(kept) = 9 - 1 + 1
        /\ \A i \in 1 .. 9 - 1 + 1 : kept[i] = server[1 + i - 1]
    BY <2>1, SubSeqProperties
  <2> HIDE DEF kept
  <2> QED BY <2>2
<1>8. sent = kept \o Zeros(8)
  BY DEF GatewayBeacon
<1> HIDE DEF kept, sent
<1>9. /\ sent \in Seq(Int) /\ Len(sent) = 17
      /\ \A i \in 1 .. 9 : sent[i] = server[i]
  <2>1. /\ sent \in Seq(Int) /\ Len(sent) = Len(kept) + Len(Zeros(8))
        /\ \A i \in 1 .. Len(kept) : sent[i] = kept[i]
    <3>1. /\ kept \o Zeros(8) \in Seq(Int)
          /\ Len(kept \o Zeros(8)) = Len(kept) + Len(Zeros(8))
          /\ \A i \in 1 .. Len(kept) : (kept \o Zeros(8))[i] = kept[i]
      BY <1>2, <1>7, ConcatBegins
    <3> QED BY <1>8, <3>1, Zenon
  <2>2. Len(kept) = 9 /\ Len(Zeros(8)) = 8
    BY <1>2, <1>7, Zenon
  <2>3. Len(sent) = 17
    <3>1. Len(sent) = Len(kept) + Len(Zeros(8))
      BY <2>1, Zenon
    <3>2. 9 + 8 = 17
      OBVIOUS
    <3> QED BY <2>2, <3>1, <3>2, Zenon
  <2> QED BY <1>7, <2>1, <2>2, <2>3, Zenon
<1>10. \A i \in 1 .. 16 : b[i] = sent[i + 1]
  <2>1. sent # <<>>
    <3>1. Len(<<>>) = 0 /\ 17 # 0
      BY EmptySeq
    <3> QED BY <1>9, <3>1, Zenon
  <2>2. /\ Len(b) = Len(sent) - 1
        /\ \A i \in 1 .. Len(b) : b[i] = sent[i + 1]
    BY <1>9, <2>1, HeadTailProperties, Zenon DEF BeaconAfterMac
  <2> HIDE DEF b
  <2>3. Len(b) = 16
    BY <1>9, <2>2
  <2> QED BY <2>2, <2>3, Zenon
<1> HIDE DEF b
<1>11. b[2] = low[1] /\ b[3] = low[2] /\ b[4] = high[1] /\ b[5] = high[2]
  BY <1>4, <1>6, <1>9, <1>10
<1>12. BeaconTime(b) = t
  <2>1. Word(b, 2) = t
    <3>1. /\ b[2] = HalfBytes(t)[1] /\ b[2 + 1] = HalfBytes(t)[2]
          /\ b[2 + 2] = HalfBytes(t \div 65536)[1]
          /\ b[2 + 3] = HalfBytes(t \div 65536)[2]
      BY <1>11 DEF low, high
    <3> QED BY <3>1, ReadWord
  <2> QED BY <2>1 DEF BeaconTime
<1>13. MsgTypeOf(sent[1]) = 0
  <2>1. sent[1] = 0
    BY <1>4, <1>6, <1>9
  <2> QED BY <2>1 DEF MsgTypeOf
<1> QED BY <1>12, <1>13 DEF b, sent, server

-----------------------------------------------------------------------------
(* What the runs check at the values where a byte or a half word ends.     *)

LEMMA EdgeHeaders ==
  ASSUME NEW flags
  PROVE  Headers(Edges, {0, 1, 255}, flags) \subseteq Headers(Words, Ports, flags)
<1>1. Edges \subseteq Words
  BY DEF Edges, Words
<1>2. {<<p>> : p \in {0, 1, 255}} \subseteq {<<p>> : p \in Ports}
  BY DEF Ports
<1> QED BY <1>1, <1>2 DEF Headers

LEMMA MessageTypes ==
  /\ \A type \in MsgTypes, major \in 0 .. 3 : MsgTypeOf(MacHeader(type, major)) = type
  /\ \A type \in MsgTypes : ~(IsUpstream(type) /\ IsDownstream(type))
  /\ \A type \in DataUp \cup DataDown : MsgTypeOf(MacHeader(type, 0)) # 0
<1>1. \A type \in MsgTypes, major \in 0 .. 3 : MsgTypeOf(MacHeader(type, major)) = type
  BY DEF MsgTypes, MsgTypeOf, MacHeader
<1>2. \A type \in MsgTypes : ~(IsUpstream(type) /\ IsDownstream(type))
  BY DEF MsgTypes, IsUpstream, IsDownstream, DataUp, DataDown
<1>3. \A type \in DataUp \cup DataDown : MsgTypeOf(MacHeader(type, 0)) # 0
  BY DEF MsgTypeOf, MacHeader, DataUp, DataDown
<1> QED BY <1>1, <1>2, <1>3

\* Devices, gateways and the server read in a header what was written into it.
THEOREM HeadersNeverMisread == Spec => []HeadersSurvive
<1>1. HeadersReadAlike
  <2>1. \A h \in Headers(Edges, {0, 1, 255}, UplinkFlags) :
          ReadAlike(h, UplinkHeader(h), ReadUplink(UplinkHeader(h), h.port # <<>>))
    BY EdgeHeaders, UplinksReadAlike, Zenon
  <2>2. \A h \in Headers(Edges, {0, 1, 255}, DownlinkFlags) :
          ReadAlike(h, DownlinkHeader(h), ReadDownlink(DownlinkHeader(h), h.port # <<>>))
    BY EdgeHeaders, DownlinksReadAlike, Zenon
  <2>3. Edges \subseteq Nat
    BY DEF Edges
  <2>4. \A last, n \in {n \in Edges : n < 65536} : n > last => IsNewFrame(n % 65536, last)
    BY <2>3, NewFramesKnown
  <2>5. \A n \in Edges : ~IsNewFrame(n % 65536, 65535)
    BY <2>3, NewFramesKnown
  <2> QED BY <2>1, <2>2, <2>4, <2>5, MessageTypes DEF HeadersReadAlike
<1>2. HeadersSurvive
  BY <1>1 DEF HeadersSurvive
<1> QED BY <1>2, PTL

\* Devices read in a beacon the time the server has put into it, and take no frame for
\* a beacon.
THEOREM BeaconsNeverMisread == Spec => []BeaconTimeSurvives
<1>1. BeaconReadAlike
  <2>1. Edges \subseteq Words
    BY DEF Edges, Words
  <2> QED BY <2>1, BeaconsReadAlike, MessageTypes, Zenon DEF BeaconReadAlike
<1>2. BeaconTimeSurvives
  BY <1>1 DEF BeaconTimeSurvives
<1> QED BY <1>2, PTL

-----------------------------------------------------------------------------
(* Sizes and times.                                                        *)

\* The limits of the two layers, by data rate: every frame the net device lets through
\* is within what the MAC takes.
LEMMA Limits ==
  ASSUME NEW dr \in DataRates
  PROVE  /\ GetMtu(SpreadingFactor[dr]) \in {51, 115, 222}
         /\ GetMtu(SpreadingFactor[dr]) <= MaxMACPayloadSize[dr + 1]
         /\ MaxMACPayloadSize[dr + 1] \in Nat
<1>1. dr \in {0, 1, 2, 3, 4, 5, 6}
  BY DEF DataRates
<1>2. SpreadingFactor[dr] = IF dr = 6 THEN 7 ELSE 12 - dr
  BY DEF SpreadingFactor
<1> QED BY <1>1, <1>2 DEF GetMtu, MaxMACPayloadSize

\* The payload is counted in a byte: whatever size is asked for, what goes on the air has
\* at most 268 bytes; it is what was asked for unless that is shorter than the headers,
\* which comes out longer than any limit, or has no room in the byte.
LEMMA SizeOfFrame ==
  ASSUME NEW pktSize \in Nat, 0 < pktSize
  PROVE  /\ 13 <= pktSize /\ pktSize <= 268 => PhyPayloadSize(pktSize) = pktSize
         /\ pktSize < 13 => MACPayloadSize(pktSize) > 222
         /\ MACPayloadSize(pktSize) \in Nat
         /\ PhyPayloadSize(pktSize) = MACPayloadSize(pktSize) + 5
         /\ PhyPayloadSize(pktSize) <= 268
<1>1. FrmPayloadSize(pktSize) = (pktSize - 13) % 256
  BY DEF FrmPayloadSize, HeaderSize
<1>2. 13 <= pktSize /\ pktSize <= 268 => (pktSize - 13) % 256 = pktSize - 13
  OBVIOUS
<1>3. pktSize < 13 => (pktSize - 13) % 256 = pktSize + 243
  OBVIOUS
<1>4. MACPayloadSize(pktSize) = FrmPayloadSize(pktSize) + 8
  BY DEF MACPayloadSize, HeaderSize
<1>5. PhyPayloadSize(pktSize) = MACPayloadSize(pktSize) + 5
  BY <1>1, <1>4 DEF PhyPayloadSize
<1>6. FrmPayloadSize(pktSize) \in 0 .. 255
  BY <1>1
<1> QED BY <1>1, <1>2, <1>3, <1>4, <1>5, <1>6

\* Whatever PacketSize is, a frame Send accepts passes the MAC; it reaches the air with
\* the size the application gave it up to 268 bytes, and cut from 269 on.
THEOREM FramesFit == Spec => []FrameFits
<1>1. ASSUME NEW pktSize \in PacketSizes, NEW dr \in DataRates, SendAccepts(pktSize, dr)
      PROVE  /\ MacAccepts(pktSize, dr) /\ PhyPayloadSize(pktSize) <= 255
             /\ pktSize >= 13
             /\ PhyPayloadSize(pktSize) = pktSize <=> pktSize <= 268
  <2>1. pktSize \in Nat /\ 0 < pktSize
    BY PacketSizeAssumption
  <2>2. MACPayloadSize(pktSize) <= GetMtu(SpreadingFactor[dr])
    BY <1>1 DEF SendAccepts
  <2>3. /\ 13 <= pktSize /\ pktSize <= 268 => PhyPayloadSize(pktSize) = pktSize
        /\ pktSize < 13 => MACPayloadSize(pktSize) > 222
        /\ MACPayloadSize(pktSize) \in Nat
        /\ PhyPayloadSize(pktSize) = MACPayloadSize(pktSize) + 5
        /\ PhyPayloadSize(pktSize) <= 268
    BY <2>1, SizeOfFrame
  <2>4. MACPayloadSize(pktSize) <= 222
    BY <2>2, <2>3, Limits
  <2>5. MACPayloadSize(pktSize) <= MaxMACPayloadSize[dr + 1]
    BY <2>2, <2>3, Limits
  <2> QED BY <2>1, <2>3, <2>4, <2>5 DEF MacAccepts
<1>2. FrameFits
  BY <1>1 DEF SizesFit, FrameFits
<1> QED BY <1>2, PTL

\* The longest frame of each data rate is in the air for less than 3.03 s.
LEMMA LongestFrame ==
  ASSUME NEW dr \in DataRates
  PROVE  /\ PingTxTime(GetMtu(SpreadingFactor[dr]) + 5, dr) \in Nat
         /\ PingTxTime(GetMtu(SpreadingFactor[dr]) + 5, dr) < 3030000
<1>1. dr \in {0, 1, 2, 3, 4, 5, 6}
  BY DEF DataRates
<1>2. SpreadingFactor[dr] = IF dr = 6 THEN 7 ELSE 12 - dr
  BY DEF SpreadingFactor
<1>3. CASE dr = 0
  BY <1>2, <1>3 DEF GetMtu, PingTxTime, CalculateTxTime, CeilDiv
<1>4. CASE dr = 1
  BY <1>2, <1>4 DEF GetMtu, PingTxTime, CalculateTxTime, CeilDiv
<1>5. CASE dr = 2
  BY <1>2, <1>5 DEF GetMtu, PingTxTime, CalculateTxTime, CeilDiv
<1>6. CASE dr = 3
  BY <1>2, <1>6 DEF GetMtu, PingTxTime, CalculateTxTime, CeilDiv
<1>7. CASE dr = 4
  BY <1>2, <1>7 DEF GetMtu, PingTxTime, CalculateTxTime, CeilDiv
<1>8. CASE dr = 5
  BY <1>2, <1>8 DEF GetMtu, PingTxTime, CalculateTxTime, CeilDiv
<1>9. CASE dr = 6
  BY <1>2, <1>9 DEF GetMtu, PingTxTime, CalculateTxTime, CeilDiv
<1> QED BY <1>1, <1>3, <1>4, <1>5, <1>6, <1>7, <1>8, <1>9

\* Whatever the periodicity, the last ping slot is the last the gateway has a queue for.
LEMMA LastSlot ==
  ASSUME NEW periodicity \in 0 .. 7
  PROVE  LET slots == NbPingSlots(periodicity)
         IN PingSpacing(slots) - 1 + PingSpacing(slots) * (slots - 1) = 4095
<1>1. periodicity \in {0, 1, 2, 3, 4, 5, 6, 7}
  OBVIOUS
<1>2. /\ NbPingSlots(0) = 128 /\ NbPingSlots(1) = 64 /\ NbPingSlots(2) = 32
      /\ NbPingSlots(3) = 16 /\ NbPingSlots(4) = 8 /\ NbPingSlots(5) = 4
      /\ NbPingSlots(6) = 2 /\ NbPingSlots(7) = 1
  BY DEF NbPingSlots
<1>3. /\ PingSpacing(128) = 32 /\ PingSpacing(64) = 64 /\ PingSpacing(32) = 128
      /\ PingSpacing(16) = 256 /\ PingSpacing(8) = 512 /\ PingSpacing(4) = 1024
      /\ PingSpacing(2) = 2048 /\ PingSpacing(1) = 4096
  BY DEF PingSpacing
<1> QED BY <1>1, <1>2, <1>3

\* A beacon period is long enough for the beacon, the slots and a frame in the last.
THEOREM PeriodsFit == Spec => []PeriodFits
<1>1. /\ BeaconTxTime < ListensForBeacon /\ ListensForBeacon < BeaconReserved
      /\ CalculatePreambleTime(9, 10) < BeaconTxTime
  BY DEF BeaconTxTime, ListensForBeacon, BeaconReserved, CalculatePreambleTime,
     CalculateTxTime, CeilDiv
<1>2. \A dr \in DataRates :
        BeaconReserved + 4095 * SlotLength
          + PingTxTime(GetMtu(SpreadingFactor[dr]) + 5, dr) < BeaconPeriod
  BY LongestFrame DEF BeaconReserved, SlotLength, BeaconPeriod
<1>3. SlotsFitPeriod
  <2>1. ASSUME NEW periodicity \in 0 .. 7
        PROVE  LET slots == NbPingSlots(periodicity)
                   last == PingSpacing(slots) - 1 + PingSpacing(slots) * (slots - 1)
               IN /\ last \in 0 .. 4095
                  /\ \A dr \in DataRates :
                       BeaconReserved + last * SlotLength
                         + PingTxTime(GetMtu(SpreadingFactor[dr]) + 5, dr) < BeaconPeriod
    <3> DEFINE slots == NbPingSlots(periodicity)
               last == PingSpacing(slots) - 1 + PingSpacing(slots) * (slots - 1)
    <3>1. last = 4095
      BY LastSlot
    <3> HIDE DEF last
    <3>2. last \in 0 .. 4095
      BY <3>1
    <3>3. \A dr \in DataRates :
            BeaconReserved + last * SlotLength
              + PingTxTime(GetMtu(SpreadingFactor[dr]) + 5, dr) < BeaconPeriod
      BY <1>2, <3>1
    <3> QED BY <3>2, <3>3 DEF last
  <2> QED BY <1>1, <2>1 DEF SlotsFitPeriod
<1>4. PeriodFits
  BY <1>3 DEF PeriodFits
<1> QED BY <1>4, PTL

-----------------------------------------------------------------------------
(* Pairs and tags.                                                         *)

\* Channel and data rate give the number of a pair and are found back from it.
LEMMA PairNumbers ==
  /\ \A i \in 0 .. NbPairs - 1 :
       /\ PairIndex(PairOf(i).channel, PairOf(i).dr) = i
       /\ PairOf(i).channel \in Channels /\ PairOf(i).dr \in DataRates
  /\ \A c \in Channels, dr \in DataRates :
       PairIndex(c, dr) \in 0 .. NbPairs - 1
         /\ PairOf(PairIndex(c, dr)) = [channel |-> c, dr |-> dr]
<1>1. ASSUME NEW i \in 0 .. NbPairs - 1
      PROVE  /\ PairIndex(PairOf(i).channel, PairOf(i).dr) = i
             /\ PairOf(i).channel \in Channels /\ PairOf(i).dr \in DataRates
  <2>1. i \in Nat /\ i < 56
    BY DEF NbPairs
  <2>2. PairOf(i).channel = i \div 7 /\ PairOf(i).dr = i % 7
    BY DEF PairOf
  <2>3. (i \div 7) * 7 + (i % 7) = i
    BY <2>1
  <2>4. i \div 7 \in 0 .. 7
    BY <2>1
  <2>5. i % 7 \in 0 .. 6
    BY <2>1
  <2> QED BY <2>2, <2>3, <2>4, <2>5 DEF PairIndex, Channels, DataRates
<1>2. ASSUME NEW c \in Channels, NEW dr \in DataRates
      PROVE  /\ PairIndex(c, dr) \in 0 .. NbPairs - 1
             /\ PairOf(PairIndex(c, dr)) = [channel |-> c, dr |-> dr]
  <2>1. c \in Nat /\ c <= 7 /\ dr \in Nat /\ dr <= 6
    BY DEF Channels, DataRates
  <2>2. (c * 7 + dr) \div 7 = c /\ (c * 7 + dr) % 7 = dr /\ c * 7 + dr \in 0 .. 55
    BY <2>1
  <2> QED BY <2>2 DEF PairIndex, PairOf, NbPairs
<1> QED BY <1>1, <1>2

\* RW1 has a data rate of the table, not above that of the uplink.
LEMMA RX1InTable ==
  ASSUME NEW up \in DataRates, NEW offset \in 0 .. 7
  PROVE  /\ GetRX1DataRateIndex(up, offset) \in DataRates
         /\ GetRX1DataRateIndex(up, offset) <= up
         /\ GetRX1DataRateIndex(up, DefaultRX1Offset) = up
  BY DEF DataRates, GetRX1DataRateIndex, DefaultRX1Offset

\* Every power and code rate the program asks the PHY for is one it accepts.
LEMMA PhyAccepts ==
  ASSUME NEW c \in Channels, NEW codeRate \in {1, 3}
  PROVE  ConfigurePhyForTX(c, codeRate)
<1>1. SubBandOf[c] \in {1, 3}
  BY DEF Channels, SubBandOf
<1>2. MaxPowerForSubBand(SubBandOf[c]) \in {27, 14}
  BY <1>1 DEF MaxPowerForSubBand
<1> QED BY <1>2 DEF ConfigurePhyForTX, SetTxConfAccepts

\* The tags of a packet are read as they were written, and only a confirmed uplink is
\* sent more than once.
LEMMA TagsReadAlike ==
  ASSUME NEW params \in [channel : Channels, dr : DataRates, codeRate : {1, 3},
                         preamble : {8, 10}],
         NEW type \in DataUp \cup DataDown
  PROVE  LET request == RequestParams(PhyParamsTag(params), MsgTypeTag(type))
         IN /\ request.phy = params /\ request.msgType = type
            /\ request.transmissions > 1 <=> IsConfirmed(type) /\ IsUpstream(type)
<1>1. ReadPhyParams(PhyParamsTag(params)) = params
  BY DEF ReadPhyParams, PhyParamsTag
<1>2. MsgTypeTag(type)[1] = type
  BY DEF MsgTypeTag
<1>3. RequestParams(PhyParamsTag(params), MsgTypeTag(type))
        = [phy |-> params, msgType |-> type, transmissions |-> IF type = 4 THEN 4 ELSE 1]
  BY <1>1, <1>2 DEF RequestParams
<1>4. type = 4 <=> IsConfirmed(type) /\ IsUpstream(type)
  BY DEF IsConfirmed, IsUpstream, DataUp, DataDown
<1> QED BY <1>3, <1>4

\* Gateways, server and devices agree on channels, data rates and message types.
THEOREM PairsAlwaysMatch == Spec => []PairsMatch
<1>1. \A p \in {RW2Pair, BeaconPair} : PairIndex(p.channel, p.dr) \in 0 .. NbPairs - 1
  BY DEF RW2Pair, BeaconPair, PairIndex, NbPairs
<1>2. ASSUME NEW c \in Channels, NEW dr \in DataRates, NEW codeRate \in {1, 3},
             NEW preamble \in {8, 10}, NEW type \in DataUp \cup DataDown
      PROVE  LET params == [channel |-> c, dr |-> dr, codeRate |-> codeRate,
                            preamble |-> preamble]
                 request == RequestParams(PhyParamsTag(params), MsgTypeTag(type))
             IN /\ request.phy = params
                /\ MsgTypeOf(MacHeader(request.msgType, 0)) = type
                /\ request.transmissions > 1 <=> IsConfirmed(type) /\ IsUpstream(type)
                /\ PairOf(PairIndex(request.phy.channel, request.phy.dr))
                     = [channel |-> c, dr |-> dr]
                /\ ConfigurePhyForTX(c, codeRate)
  <2> DEFINE params == [channel |-> c, dr |-> dr, codeRate |-> codeRate,
                        preamble |-> preamble]
             request == RequestParams(PhyParamsTag(params), MsgTypeTag(type))
  <2>1. /\ params.channel = c /\ params.dr = dr
        /\ params \in [channel : Channels, dr : DataRates, codeRate : {1, 3},
                       preamble : {8, 10}]
    OBVIOUS
  <2>2. MsgTypeOf(MacHeader(type, 0)) = type
    <3>1. type \in MsgTypes /\ 0 \in 0 .. 3
      BY DEF DataUp, DataDown, MsgTypes
    <3> QED BY <3>1, MessageTypes
  <2> HIDE DEF params
  <2>3. /\ request.phy = params /\ request.msgType = type
        /\ request.transmissions > 1 <=> IsConfirmed(type) /\ IsUpstream(type)
    BY <2>1, TagsReadAlike
  <2> HIDE DEF request
  <2>4. PairOf(PairIndex(request.phy.channel, request.phy.dr)) = [channel |-> c, dr |-> dr]
    BY <2>1, <2>3, PairNumbers
  <2>5. ConfigurePhyForTX(c, codeRate)
    BY PhyAccepts
  <2>6. MsgTypeOf(MacHeader(request.msgType, 0)) = type
    BY <2>2, <2>3
  <2> QED BY <2>3, <2>4, <2>5, <2>6 DEF params, request
<1>3. \A up \in DataRates, offset \in 0 .. 7 :
        /\ GetRX1DataRateIndex(up, offset) \in DataRates
        /\ GetRX1DataRateIndex(up, offset) <= up
  BY RX1InTable
<1>4. \A up \in DataRates : GetRX1DataRateIndex(up, DefaultRX1Offset) = up
  BY RX1InTable
<1>5. PairsFit
  BY <1>1, <1>2, <1>3, <1>4, PairNumbers DEF PairsFit
<1>6. PairsMatch
  BY <1>5 DEF PairsMatch
<1> QED BY <1>6, PTL
=============================================================================
