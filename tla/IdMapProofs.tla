----------------------------- MODULE IdMapProofs ----------------------------
(***************************************************************************)
(* What every user of the bitmap relies on: find_free returns an id of the *)
(* map's range whose bit is zero, or none.                                 *)
(***************************************************************************)
EXTENDS IdMap, NumberProofs

LEMMA SizeIsNatural == SIZE \in Nat \ {0}
BY IdMapAssumption DEF SIZE

\* find_free (shared/bitmap.rs:60-88) returns an id in 1 .. SIZE whose bit is
\* zero, or no id, whatever the geometry of the map and the bits set in it.
THEOREM FindFreeIsFree ==
  ASSUME NEW map
  PROVE  /\ FindFree(map) \in Ids \cup {NoId}
         /\ FindFree(map) # NoId => FindFree(map) - 1 \notin map
<1> DEFINE open == {i \in 0 .. (Chunks - 1) : FreeBytes(map, i) # {}}
           chunk == Min(open)
           byte == chunk * ChunkBytes + Min(FreeBytes(map, chunk))
           bit == Min(FreeBits(map, byte))
           candidate == 1 + byte * ByteBits + bit
<1>1. FindFree(map) = IF open = {} \/ candidate > SIZE THEN NoId ELSE candidate
  BY DEF FindFree
<1>2. CASE open = {}
  BY <1>1, <1>2 DEF NoId
<1>3. CASE open # {}
  <2>0. open \subseteq Nat
    BY IdMapAssumption
  <2>1. chunk \in open
    <3> HIDE DEF open
    <3> QED
      BY <1>3, <2>0, MinOfNaturals, Zenon
  <2>2. chunk \in Nat /\ FreeBytes(map, chunk) # {}
    BY <2>1, IdMapAssumption
  <2>3. FreeBytes(map, chunk) \subseteq Nat
    BY IdMapAssumption DEF FreeBytes
  <2>4. Min(FreeBytes(map, chunk)) \in FreeBytes(map, chunk)
    BY <2>2, <2>3, MinOfNaturals
  <2>5. Min(FreeBytes(map, chunk)) \in Nat /\ FreeBits(map, byte) # {}
    BY <2>3, <2>4, Zenon DEF FreeBytes
  <2>6. chunk * ChunkBytes \in Nat
    BY <2>2, IdMapAssumption
  <2>7. byte \in Nat
    BY <2>5, <2>6
  <2>8. FreeBits(map, byte) \subseteq Nat
    BY IdMapAssumption DEF FreeBits
  <2>9. bit \in FreeBits(map, byte)
    BY <2>5, <2>8, MinOfNaturals, Zenon
  <2>10. bit \in Nat /\ byte * ByteBits + bit \notin map
    BY <2>8, <2>9 DEF FreeBits
  <2>11. byte * ByteBits \in Nat
    BY <2>7, IdMapAssumption
  <2> HIDE DEF open, chunk, byte, bit
  <2>12. candidate \in Nat \ {0} /\ candidate - 1 = byte * ByteBits + bit
    BY <2>10, <2>11
  <2> HIDE DEF candidate
  <2> QED
    BY <1>1, <2>10, <2>12, SizeIsNatural DEF Ids, NoId
<1> QED
  BY <1>2, <1>3

\* Every bit of the map has a chunk, a byte in it and a place in the byte.
LEMMA Place ==
  ASSUME NEW n \in Nat, n < Chunks * ChunkBytes * ByteBits
  PROVE  \E i \in 0 .. (Chunks - 1), b \in 0 .. (ChunkBytes - 1), k \in 0 .. (ByteBits - 1) :
           n = (i * ChunkBytes + b) * ByteBits + k
<1>1. PICK C \in Nat \ {0}, B \in Nat \ {0}, K \in Nat \ {0} :
        C = Chunks /\ B = ChunkBytes /\ K = ByteBits
  BY IdMapAssumption
<1>2. PICK y \in Nat, k \in 0 .. (K - 1) : n = y * K + k
  BY <1>1, Division, Zenon
<1>3. PICK total \in Nat : total = C * B
  BY <1>1
<1>4. y < total
  <2>1. y * K + k < total * K
    BY <1>1, <1>2, <1>3
  <2> QED
    BY <1>2, <2>1, BelowMultiple
<1>5. PICK i \in Nat, b \in 0 .. (B - 1) : y = i * B + b
  BY Division, Zenon
<1>6. i < C
  <2>1. i * B + b < C * B
    BY <1>3, <1>4, <1>5
  <2> QED
    BY <2>1, BelowMultiple
<1>7. n = (i * B + b) * K + k
  BY <1>2, <1>5
<1>8. i \in 0 .. (C - 1)
  BY <1>6
<1> QED
  BY <1>1, <1>2, <1>5, <1>7, <1>8

\* find_free (shared/bitmap.rs:60-88) gives up only on a full map: skipping whole
\* chunks and bytes, and dropping a candidate beyond SIZE, loses no free id.
THEOREM NoneOnlyWhenFull ==
  ASSUME NEW map, FindFree(map) = NoId
  PROVE  \A id \in Ids : id - 1 \in map
<1> SUFFICES ASSUME NEW id \in Ids, id - 1 \notin map
             PROVE  FALSE
  OBVIOUS
<1>1. PICK n \in Nat : n = id - 1 /\ n < SIZE /\ n \notin map
  BY SizeIsNatural DEF Ids
<1>2. PICK i \in 0 .. (Chunks - 1), b \in 0 .. (ChunkBytes - 1), k \in 0 .. (ByteBits - 1) :
        n = (i * ChunkBytes + b) * ByteBits + k
  <2>1. Chunks * ChunkBytes * ByteBits \in Nat
    BY IdMapAssumption
  <2>2. n < Chunks * ChunkBytes * ByteBits
    BY <1>1, <2>1 DEF SIZE
  <2> QED
    BY <2>2, Place
<1>3. i \in Nat /\ b \in Nat /\ k \in Nat /\ i * ChunkBytes \in Nat
  BY IdMapAssumption
<1> DEFINE open == {c \in 0 .. (Chunks - 1) : FreeBytes(map, c) # {}}
<1>4. PICK y \in Nat : y = i * ChunkBytes + b
  BY <1>3
<1>5. k \in FreeBits(map, y)
  BY <1>1, <1>2, <1>4 DEF FreeBits
<1>6. b \in FreeBytes(map, i)
  BY <1>4, <1>5 DEF FreeBytes
<1>7. i \in open /\ open \subseteq Nat
  BY <1>6, IdMapAssumption
<1>8. PICK chunk \in open : chunk = Min(open) /\ chunk <= i
  <2> HIDE DEF open
  <2> QED
    BY <1>7, MinOfNaturals, Zenon
<1>9. chunk \in Nat /\ FreeBytes(map, chunk) # {} /\ chunk * ChunkBytes \in Nat
  <2>1. chunk \in Nat
    BY <1>7, <1>8
  <2>2. FreeBytes(map, chunk) # {}
    BY <1>8
  <2> HIDE DEF open
  <2> QED
    BY <2>1, <2>2, IdMapAssumption
<1>10. PICK first \in FreeBytes(map, chunk) :
         first = Min(FreeBytes(map, chunk)) /\ (chunk = i => first <= b)
  <2>1. FreeBytes(map, chunk) \subseteq Nat
    BY IdMapAssumption DEF FreeBytes
  <2> QED
    BY <1>6, <1>9, <2>1, MinOfNaturals
<1>11. /\ first \in 0 .. (ChunkBytes - 1) /\ first \in Nat
       /\ FreeBits(map, chunk * ChunkBytes + first) # {}
  <2> HIDE DEF open
  <2>1. first \in {x \in 0 .. (ChunkBytes - 1) : FreeBits(map, chunk * ChunkBytes + x) # {}}
    BY <1>10, Zenon DEF FreeBytes
  <2>2. first \in 0 .. (ChunkBytes - 1) /\ FreeBits(map, chunk * ChunkBytes + first) # {}
    BY <2>1, Zenon
  <2> QED
    BY <2>2, IdMapAssumption
<1>12. PICK byte \in Nat : byte = chunk * ChunkBytes + first
  BY <1>9, <1>11
<1>13. byte <= y
  <2> HIDE DEF open
  <2>1. CASE chunk = i
    BY <1>4, <1>3, <1>10, <1>11, <1>12, <2>1
  <2>2. CASE chunk # i
    <3>1. chunk * ChunkBytes + ChunkBytes <= i * ChunkBytes
      <4>1. chunk < i
        BY <1>3, <1>8, <1>9, <2>2
      <4> QED
        BY <1>3, <1>9, <4>1, Multiples, IdMapAssumption
    <3> QED
      BY <1>3, <1>4, <1>9, <1>11, <1>12, <3>1, IdMapAssumption
  <2> QED
    BY <2>1, <2>2
<1>14. PICK bit \in FreeBits(map, byte) :
         bit = Min(FreeBits(map, byte)) /\ (byte = y => bit <= k)
  <2>1. FreeBits(map, byte) \subseteq Nat
    BY IdMapAssumption DEF FreeBits
  <2> QED
    BY <1>5, <1>11, <1>12, <2>1, MinOfNaturals
<1>15. bit \in 0 .. (ByteBits - 1) /\ bit \in Nat /\ byte * ByteBits \in Nat /\ y * ByteBits \in Nat
  BY IdMapAssumption DEF FreeBits
<1>16. byte * ByteBits + bit <= n
  <2>1. CASE byte = y
    BY <1>2, <1>3, <1>4, <1>14, <1>15, <2>1
  <2>2. CASE byte # y
    <3>1. byte * ByteBits + ByteBits <= y * ByteBits
      BY <1>13, <2>2, Multiples, IdMapAssumption
    <3> QED
      BY <1>2, <1>3, <1>4, <1>15, <3>1, IdMapAssumption
  <2> QED
    BY <2>1, <2>2
<1>17. PICK candidate \in Nat : candidate = 1 + byte * ByteBits + bit
  BY <1>15
<1>18. candidate # 0 /\ ~(candidate > SIZE)
  BY <1>1, <1>15, <1>16, <1>17, SizeIsNatural
<1>19. open # {}
  BY <1>7
<1>20. FindFree(map) = IF open = {} \/ candidate > SIZE THEN NoId ELSE candidate
  BY <1>8, <1>10, <1>12, <1>14, <1>17 DEF FindFree
<1> HIDE DEF open
<1> QED
  BY <1>18, <1>19, <1>20 DEF NoId

=============================================================================
