------------------------------- MODULE Bytes -------------------------------
(***************************************************************************)
(* The readers and writers of shared/io.rs on byte sequences.  A cursor of *)
(* the code is an index into the data; a read that the data cannot satisfy *)
(* is a guard that fails, and a parser whose guards fail is Malformed.     *)
(***************************************************************************)
EXTENDS Integers, Sequences, SequencesExt

CONSTANT Malformed  \* what a parser answers instead of a value

Byte == 0 .. 255

\* read_slice: n bytes are left from at on.
HasSlice(data, at, n) == at + n - 1 <= Len(data)

Slice(data, at, n) == SubSeq(data, at, at + n - 1)

\* read_remainder: everything from at on.
Remainder(data, at) == SubSeq(data, at, Len(data))

\* read_u16 and read_u32 on data that HasSlice(data, at, 2), or 4.
U16At(data, at) == data[at] + 256 * data[at + 1]

U32At(data, at) == U16At(data, at) + 65536 * U16At(data, at + 2)

\* u16::to_le_bytes and u32::to_le_bytes, as write_u16 uses the first.
LeBytes(n) == << n % 256, (n \div 256) % 256 >>

Le32(n) == LeBytes(n % 65536) \o LeBytes(n \div 65536)

\* read_small_slice: one byte of length and as many bytes.
HasSmallSlice(data, at) == HasSlice(data, at, 1) /\ HasSlice(data, at + 1, data[at])

SmallSlice(data, at) == Slice(data, at + 1, data[at])

\* write_u8_slice and with_u16_len refuse a body their prefix cannot count.
WriteU8Slice(body) == IF Len(body) < 256 THEN << Len(body) >> \o body ELSE Malformed

WithU16Len(body) == IF Len(body) < 65536 THEN LeBytes(Len(body)) \o body ELSE Malformed

=============================================================================
