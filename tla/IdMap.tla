-------------------------------- MODULE IdMap -------------------------------
(***************************************************************************)
(* The bitmap that hands out small ids: connection ids, file ids and the   *)
(* file handles of a session.                                              *)
(*                                                                         *)
(* Source: src/Server/src/shared/bitmap.rs (the id_map! macro).  A map is  *)
(* the set of its bits that are one.  Bits are grouped in bytes and bytes  *)
(* in the chunks find_free tests at once; id n is bit n - 1, and the last  *)
(* bit of the last byte stands for no id.                                  *)
(***************************************************************************)
EXTENDS Integers, FiniteSetsExt

CONSTANTS
  ByteBits,     \* 8 in the code
  ChunkBytes,   \* CHUNK_SIZE: 16 in the code
  Chunks        \* TOTAL_CHUNKS: 2 for IdMap8, 512 for IdMap16

ASSUME IdMapAssumption ==
  /\ ByteBits \in Nat \ {0}
  /\ ChunkBytes \in Nat \ {0}
  /\ Chunks \in Nat \ {0}
  /\ Chunks * ChunkBytes * ByteBits > 1

SIZE == Chunks * ChunkBytes * ByteBits - 1

Ids == 1 .. SIZE

NoId == 0

Empty == {}

Set(map, id) == map \cup {id - 1}

Clear(map, id) == map \ {id - 1}

\* The zero bits of a byte, and the bytes of a chunk that have one.
FreeBits(map, byte) == {k \in 0 .. (ByteBits - 1) : byte * ByteBits + k \notin map}

FreeBytes(map, chunk) ==
  {b \in 0 .. (ChunkBytes - 1) : FreeBits(map, chunk * ChunkBytes + b) # {}}

\* Faulty variant: the candidate is not compared with SIZE.
FindFreeUnchecked(map) ==
  LET open == {i \in 0 .. (Chunks - 1) : FreeBytes(map, i) # {}}
      chunk == Min(open)
      byte == chunk * ChunkBytes + Min(FreeBytes(map, chunk))
  IN IF open = {} THEN NoId ELSE 1 + byte * ByteBits + Min(FreeBits(map, byte))

\* The first chunk with a free byte, its first such byte, its first zero bit.
FindFree(map) ==
  LET open == {i \in 0 .. (Chunks - 1) : FreeBytes(map, i) # {}}
      chunk == Min(open)
      byte == chunk * ChunkBytes + Min(FreeBytes(map, chunk))
      candidate == 1 + byte * ByteBits + Min(FreeBits(map, byte))
  IN IF open = {} \/ candidate > SIZE THEN NoId ELSE candidate

=============================================================================
