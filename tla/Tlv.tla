-------------------------------- MODULE Tlv --------------------------------
(***************************************************************************)
(* shared/tlv.rs: the walk over tagged records that Sentry, the sign-on    *)
(* properties and GRiDMail share.                                          *)
(***************************************************************************)
EXTENDS Bytes

TagU8 == [type |-> "TagU8"]
MarkerU16(marker) == [type |-> "MarkerU16", marker |-> marker]

\* <tag><u8 length><value>
TagU8Entry(data, at) ==
  IF HasSlice(data, at, 1) /\ HasSmallSlice(data, at + 1)
    THEN [tag |-> data[at], value |-> SmallSlice(data, at + 1), next |-> at + 2 + data[at + 1]]
    ELSE Malformed

\* <marker><u16 length><tag and value>
MarkerU16Entry(data, at, marker) ==
  IF /\ HasSlice(data, at, 3)
     /\ data[at] = marker
     /\ U16At(data, at + 1) > 0
     /\ HasSlice(data, at + 3, U16At(data, at + 1))
    THEN [tag |-> data[at + 3], value |-> Slice(data, at + 4, U16At(data, at + 1) - 1),
          next |-> at + 3 + U16At(data, at + 1)]
    ELSE Malformed

ReadEntry(data, at, kind) ==
  IF kind.type = "TagU8" THEN TagU8Entry(data, at) ELSE MarkerU16Entry(data, at, kind.marker)

\* What the iterator yields: a malformed record is yielded, and is the last.
Walk(data, kind) ==
  LET RECURSIVE from(_)
      from(at) == IF at > Len(data) THEN << >>
                  ELSE LET entry == ReadEntry(data, at, kind)
                       IN  << entry >> \o (IF entry = Malformed THEN << >> ELSE from(entry.next))
  IN  from(1)

IsEntry(entry) == entry # Malformed

CollectAll(data, kind) ==
  LET walk == Walk(data, kind)
  IN  IF \A i \in DOMAIN walk : IsEntry(walk[i]) THEN walk ELSE Malformed

WellFormedPrefix(data, kind) == SelectSeq(Walk(data, kind), IsEntry)

AllRecordsValid(data, kind) == CollectAll(data, kind) \notin {Malformed, << >>}

=============================================================================
