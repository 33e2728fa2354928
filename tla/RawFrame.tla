------------------------------ MODULE RawFrame ------------------------------
(***************************************************************************)
(* server/raw_frame.rs: how a frame is put on the line and taken off it.   *)
(* The payload travels between DLE STX and DLE ETX with every DLE doubled, *)
(* the checksum follows unstuffed.                                         *)
(***************************************************************************)
EXTENDS Bytes
LOCAL INSTANCE Bitwise

CONSTANTS
  MAX_FRAME_SIZE,
  Waiting           \* the outcome of a read that more bytes have to complete

DLE == 16
STX == 2
ETX == 3

\* Exclusive or of two bytes, by halves, tabulated.
XorHalf == [a \in 0 .. 15, b \in 0 .. 15 |-> a ^^ b]

XorByte(a, b) == 16 * XorHalf[a \div 16, b \div 16] + XorHalf[a % 16, b % 16]

\* One turn of the bit loop.
CrcBit(crc) == IF crc % 2 = 1 THEN (crc \div 2) ^^ 40961 ELSE crc \div 2

\* Eight turns on a byte, tabulated.
CrcTurns ==
  [byte \in Byte |->
     LET after[turn \in 0 .. 8] == IF turn = 0 THEN byte ELSE CrcBit(after[turn - 1])
     IN  after[8]]

\* Faulty variant: the sum of the bytes.
ByteSum(data) ==
  LET sum[i \in 0 .. Len(data)] == IF i = 0 THEN 0 ELSE (sum[i - 1] + data[i]) % 65536
  IN  sum[Len(data)]

\* CRC-16/ARC.  Eight turns shift the upper byte of the sum down, where it
\* meets what the turns made of the lower one.
Crc16(data) ==
  LET next[crc \in 0 .. 65535, byte \in Byte] ==
        LET turns == CrcTurns[XorByte(crc % 256, byte)]
        IN  256 * (turns \div 256) + XorByte(crc \div 256, turns % 256)
      crc[i \in 0 .. Len(data)] == IF i = 0 THEN 0 ELSE next[crc[i - 1], data[i]]
  IN  crc[Len(data)]

Stuff(data) == FlattenSeq([i \in DOMAIN data |-> IF data[i] = DLE THEN << DLE, DLE >> ELSE << data[i] >>])

\* write_data_to_io and write_stuffed.
WriteToIo(data) ==
  << DLE, STX >> \o Stuff(data) \o << DLE, ETX >> \o LeBytes(Crc16(data))

(***************************************************************************)
(* Reading.  The outcome of a read is a frame with the bytes it leaves on  *)
(* the line, Malformed, or Waiting while the bytes that have arrived do    *)
(* not complete it.                                                        *)
(***************************************************************************)
PushUnstuffed(buffer, byte) == IF Len(buffer) >= MAX_FRAME_SIZE THEN Malformed ELSE Append(buffer, byte)

\* Faulty variant: a start marker does not discard what was gathered.
KeepAtStart(buffer) == buffer

\* DLE STX: whatever was gathered before it belongs to no frame.
StartText(buffer) == << >>

\* read_unstuffed: the payload and the index after its end marker.
RECURSIVE ReadUnstuffed(_, _, _)
ReadUnstuffed(line, at, buffer) ==
  CASE buffer = Malformed -> Malformed
    [] ~ HasSlice(line, at, 1) -> Waiting
    [] line[at] # DLE -> ReadUnstuffed(line, at + 1, PushUnstuffed(buffer, line[at]))
    [] ~ HasSlice(line, at, 2) -> Waiting
    [] OTHER ->
        LET marker == line[at + 1]
        IN  CASE marker = DLE -> ReadUnstuffed(line, at + 2, PushUnstuffed(buffer, DLE))
              [] marker = STX -> ReadUnstuffed(line, at + 2, StartText(buffer))
              [] marker = ETX -> [data |-> buffer, next |-> at + 2]
              [] OTHER -> Malformed

\* read_from_io: the checksum is compared with that of what was unstuffed.
ReadFromIo(line) ==
  LET text == ReadUnstuffed(line, 1, << >>)
  IN  CASE text \in {Malformed, Waiting} -> text
        [] ~ HasSlice(line, text.next, 2) -> Waiting
        [] U16At(line, text.next) # Crc16(text.data) -> Malformed
        [] OTHER -> [data |-> text.data, rest |-> Remainder(line, text.next + 2)]

=============================================================================
