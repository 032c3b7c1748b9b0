---------------------------- MODULE WfdIeProofs ----------------------------
(* What a source reads in the information elements, for every argument the *)
(* encoder accepts.                                                        *)
EXTENDS WfdIe, SequenceTheorems, TLAPS

(* Two bytes, most significant first, hold every number the encoder        *)
(* accepts.                                                                *)
LEMMA TwoBytesReadBack ==
  ASSUME NEW n \in Word
  PROVE  /\ HighByte(n) \in 0 .. 255 /\ LowByte(n) \in 0 .. 255
         /\ 256 * HighByte(n) + LowByte(n) = n
  BY DEF Word, HighByte, LowByte

LEMMA BitmapInRange ==
  ASSUME NEW deviceType \in Nat, NEW a \in BOOLEAN
  PROVE  Bitmap(deviceType, a) \in 0 .. 19
<1>1. (deviceType % 4) \in 0 .. 3
  OBVIOUS
<1> QED BY <1>1 DEF Bitmap

(* The layout: where each field of the device information lies.            *)
LEMMA DeviceInfoLayout ==
  ASSUME NEW deviceType \in Nat, NEW port \in Word, NEW throughput \in Word, NEW a \in BOOLEAN
  PROVE  LET b == Bitmap(deviceType, a)
             d == DeviceInfo(deviceType, port, throughput, a) IN
         /\ d \in Seq(Int) /\ Len(d) = 9
         /\ d[2] = 0 /\ d[3] = 6
         /\ 256 * d[4] + d[5] = b /\ 256 * d[6] + d[7] = port /\ 256 * d[8] + d[9] = throughput
<1> DEFINE b == Bitmap(deviceType, a)
<1>1. b \in Word
  <2>1. b \in 0 .. 19
    BY BitmapInRange
  <2> HIDE DEF b
  <2> QED BY <2>1 DEF Word
<1>2. HighByte(6) = 0 /\ LowByte(6) = 6
  BY DEF HighByte, LowByte
<1>3. \A n \in Word : HighByte(n) \in Int /\ LowByte(n) \in Int /\ 256 * HighByte(n) + LowByte(n) = n
  BY TwoBytesReadBack
<1> HIDE DEF b
<1> QED
  BY <1>1, <1>2, <1>3 DEF DeviceInfo, b

(* The two-bit availability field is never a reserved value: 01 when the   *)
(* sink is free and 00 when it is busy, whatever the other arguments are.  *)
THEOREM AvailabilityIsABit ==
  ASSUME NEW deviceType \in Nat, NEW port, NEW throughput, InRange(port, throughput),
         NEW a \in BOOLEAN
  PROVE  SessionAvailability(DeviceInfo(deviceType, port, throughput, a)) = IF a THEN 1 ELSE 0
<1> DEFINE b == Bitmap(deviceType, a)
<1>1. port \in Word /\ throughput \in Word
  BY DEF InRange
<1>2. Number(DeviceInfo(deviceType, port, throughput, a), 4) = b
  BY <1>1, DeviceInfoLayout DEF Number
<1>3. (b \div 16) % 4 = IF a THEN 1 ELSE 0
  <2>1. (deviceType % 4) \in 0 .. 3
    OBVIOUS
  <2>2. b \div 16 = IF a THEN 1 ELSE 0
    BY <2>1 DEF Bitmap
  <2> QED BY <2>2
<1> QED
  BY <1>2, <1>3 DEF SessionAvailability

(* A source reads back the control port it must connect to, and the        *)
(* throughput, byte order included.                                        *)
THEOREM FieldsReadBack ==
  ASSUME NEW deviceType \in Nat, NEW port, NEW throughput, InRange(port, throughput),
         NEW a \in BOOLEAN
  PROVE  LET d == DeviceInfo(deviceType, port, throughput, a) IN
         Number(d, 6) = port /\ Number(d, 8) = throughput
<1>1. port \in Word /\ throughput \in Word
  BY DEF InRange
<1> QED
  BY <1>1, DeviceInfoLayout DEF Number

(* The blob is exactly two subelements: the length field of the first      *)
(* leads to the second, and that of the second to the end of the blob.     *)
THEOREM BlobIsTwoSubelements ==
  ASSUME NEW a \in BOOLEAN
  PROVE  LET blob == WfdIes(a) IN
         /\ NextSubelement(blob, 1) = 10 /\ blob[10] = 6
         /\ NextSubelement(blob, 10) = Len(blob) + 1
<1> DEFINE d == DeviceInfo(WFD_PRIMARY_SINK, CONTROL_PORT, MAX_THROUGHPUT, a)
<1> DEFINE c == CoupledSink
<1>1. WFD_PRIMARY_SINK \in Nat /\ CONTROL_PORT \in Word /\ MAX_THROUGHPUT \in Word
  BY DEF WFD_PRIMARY_SINK, CONTROL_PORT, MAX_THROUGHPUT, Word
<1>2. d \in Seq(Int) /\ Len(d) = 9 /\ d[2] = 0 /\ d[3] = 6
  BY <1>1, DeviceInfoLayout
<1>3. c \in Seq(Int) /\ Len(c) = 10 /\ c[1] = 6 /\ c[2] = 0 /\ c[3] = 7
  BY DEF CoupledSink, HighByte, LowByte
<1>4. WfdIes(a) = d \o c
  BY DEF WfdIes
<1> HIDE DEF d, c
<1> DEFINE blob == d \o c
<1>5. /\ Len(blob) = Len(d) + Len(c)
      /\ \A i \in 1 .. Len(d) + Len(c) : blob[i] = IF i <= Len(d) THEN d[i] ELSE c[i - Len(d)]
  BY <1>2, <1>3, ConcatProperties
<1> HIDE DEF blob
<1>6. Len(blob) = 19 /\ blob[2] = 0 /\ blob[3] = 6 /\ blob[10] = 6 /\ blob[11] = 0 /\ blob[12] = 7
  BY <1>2, <1>3, <1>5
<1>7. NextSubelement(blob, 1) = 10 /\ NextSubelement(blob, 10) = Len(blob) + 1
  BY <1>6 DEF NextSubelement, Number
<1>8. WfdIes(a) = blob
  BY <1>4 DEF blob
<1> QED
  BY <1>6, <1>7, <1>8

(* A source that reads the published blob takes the room for free exactly  *)
(* when castd says so: what CastStart's RoomOffered asks of the IEs.       *)
THEOREM OfferedIffAvailable ==
  ASSUME NEW a \in BOOLEAN
  PROVE  Offered(WfdIes(a)) <=> a
<1> DEFINE d == DeviceInfo(WFD_PRIMARY_SINK, CONTROL_PORT, MAX_THROUGHPUT, a)
<1> DEFINE c == CoupledSink
<1>1. WFD_PRIMARY_SINK \in Nat /\ InRange(CONTROL_PORT, MAX_THROUGHPUT)
  BY DEF WFD_PRIMARY_SINK, CONTROL_PORT, MAX_THROUGHPUT, InRange, Word
<1>2. d \in Seq(Int) /\ Len(d) = 9
  BY <1>1, DeviceInfoLayout DEF InRange
<1>3. c \in Seq(Int) /\ Len(c) = 10
  BY DEF CoupledSink, HighByte, LowByte
<1>4. SessionAvailability(d) = IF a THEN 1 ELSE 0
  BY <1>1, AvailabilityIsABit
<1>5. WfdIes(a) = d \o c
  BY DEF WfdIes
<1> HIDE DEF d, c
<1> DEFINE blob == d \o c
<1>6. /\ Len(blob) = Len(d) + Len(c)
      /\ \A i \in 1 .. Len(d) + Len(c) : blob[i] = IF i <= Len(d) THEN d[i] ELSE c[i - Len(d)]
  BY <1>2, <1>3, ConcatProperties
<1> HIDE DEF blob
<1>7. Len(blob) = 19 /\ blob[4] = d[4] /\ blob[5] = d[5]
  BY <1>2, <1>3, <1>6
<1>8. SessionAvailability(blob) = SessionAvailability(d)
  BY <1>7 DEF SessionAvailability, Number
<1>9. blob # <<>>
  <2>1. Len(<< >>) = 0
    OBVIOUS
  <2>2. Len(blob) # Len(<< >>)
    BY <1>7, <2>1
  <2> QED BY <2>2, Zenon
<1>10. WfdIes(a) = blob
  BY <1>5 DEF blob
<1> QED
  BY <1>4, <1>8, <1>9, <1>10 DEF Offered
=============================================================================
