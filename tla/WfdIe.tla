------------------------------- MODULE WfdIe -------------------------------
(***************************************************************************)
(* castd/p2p/wfd_ie.py: the Wi-Fi Display information elements that castd  *)
(* publishes and a source reads while it looks for a room.  A blob is a    *)
(* sequence of bytes.  The second half is the reader's side, from the      *)
(* layout that the comments at the head of wfd_ie.py quote from the        *)
(* specification: a subelement is an id, a two-byte length and as many     *)
(* bytes; bits 5:4 of the device information are one two-bit field.        *)
(***************************************************************************)
EXTENDS Integers, Sequences

WFD_PRIMARY_SINK == 1
CONTROL_PORT == 7236
MAX_THROUGHPUT == 50

\* int.to_bytes(2, "big"): the two bytes, in this order.
HighByte(n) == n \div 256
LowByte(n) == n % 256

\* device_type & 0b11, then bit 4 when the sink is free.
Bitmap(deviceType, available) == (deviceType % 4) + (IF available THEN 16 ELSE 0)

\* What the encoder accepts; any other argument is a ValueError.
Word == {n \in Nat : n < 65536}

InRange(port, throughput) == port \in Word /\ throughput \in Word

DeviceInfo(deviceType, port, throughput, available) ==
  LET bitmap == Bitmap(deviceType, available) IN
  <<0, HighByte(6), LowByte(6), HighByte(bitmap), LowByte(bitmap),
    HighByte(port), LowByte(port), HighByte(throughput), LowByte(throughput)>>

\* Subelement 6, "not coupled": a status byte and six zero bytes.
CoupledSink == <<6, HighByte(7), LowByte(7), 0, 0, 0, 0, 0, 0, 0>>

WfdIes(available) ==
  DeviceInfo(WFD_PRIMARY_SINK, CONTROL_PORT, MAX_THROUGHPUT, available) \o CoupledSink

-----------------------------------------------------------------------------
(* The reader.                                                             *)

Number(blob, at) == 256 * blob[at] + blob[at + 1]

\* Where the subelement behind the one at a position starts.
NextSubelement(blob, at) == at + 3 + Number(blob, at + 1)

\* 0 not available, 1 available, 2 and 3 reserved.
SessionAvailability(blob) == (Number(blob, 4) \div 16) % 4

\* Before the first Set there is nothing to read.
Offered(blob) == blob # <<>> /\ SessionAvailability(blob) = 1
=============================================================================
