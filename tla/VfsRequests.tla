---------------------------- MODULE VfsRequests -----------------------------
(***************************************************************************)
(* The requests of the virtual file system as they arrive                  *)
(* (vipc/vfs/protocol.rs): a six byte header that every reply echoes, and  *)
(* a body whose grammar the request code chooses.                          *)
(***************************************************************************)
EXTENDS Bytes, TLC, GridPath

\* The VfsRequestCodes the server tells apart; every other is Unknown.
RequestCodes ==
  1 :> "GetStatus" @@ 2 :> "Open" @@ 3 :> "Close" @@ 4 :> "Read" @@ 5 :> "Write" @@ 6 :> "Seek" @@
  7 :> "Truncate" @@ 8 :> "Attach" @@ 9 :> "Detach" @@ 12 :> "ReadDesc" @@ 13 :> "WriteDesc" @@
  14 :> "Flush" @@ 20 :> "SetStatus" @@ 29 :> "ReadDirPage"

AttachModes == 1 .. 3
AccessModes == 1 .. 6
SeekModes == 1 .. 4
ReadDirections == 0 .. 1
ObjectModes == 0 .. 2

\* VfsAttachHeader: mode, access and the password space.
ATTACH_HEADER_LEN == 19

\* The separators GridPath tells apart, by their ASCII codes.
PathSymbol(byte) ==
  CASE byte = 96 -> PATH [] byte = 124 -> PASS [] byte = 58 -> SERVER [] byte = 126 -> KIND [] OTHER -> "x"

\* read_request: a length and nothing else.
ReadBody(body) == IF Len(body) = 2 THEN [length |-> U16At(body, 1)] ELSE Malformed

\* read_write_request: a length and exactly as many bytes.
WriteBody(body) ==
  IF HasSlice(body, 1, 2) /\ Len(body) = 2 + U16At(body, 1)
    THEN [data |-> Remainder(body, 3)] ELSE Malformed

AttachBody(body) ==
  LET path == SmallSlice(body, ATTACH_HEADER_LEN + 1)
  IN  IF /\ HasSmallSlice(body, ATTACH_HEADER_LEN + 1)
         /\ body[1] \in AttachModes
         /\ body[2] \in AccessModes
         /\ Len(body) = ATTACH_HEADER_LEN + 1 + Len(path)
         /\ ValidPath([i \in DOMAIN path |-> PathSymbol(path[i])])
        THEN [mode |-> body[1], access |-> body[2], path |-> path]
        ELSE Malformed

SeekBody(body) ==
  IF Len(body) = 5 /\ body[1] \in SeekModes
    THEN [mode |-> body[1], position |-> U32At(body, 2)] ELSE Malformed

\* VfsSetStatusAction::from_raw: a direction and an object mode are checked,
\* the rest is kept as it came.
SetStatusAction(type, raw) ==
  CASE type = 255 /\ ~ (Len(raw) = 1 /\ Head(raw) \in ReadDirections) -> Malformed
    [] type = 253 /\ ~ (Len(raw) = 1 /\ Head(raw) \in ObjectModes) -> Malformed
    [] OTHER -> << type, raw >>

\* The loop over (type, u16 length, raw).
SetStatusActions(data) ==
  LET RECURSIVE from(_)
      from(at) ==
        CASE at > Len(data) -> << >>
          [] ~ HasSlice(data, at, 3) -> << Malformed >>
          [] ~ HasSlice(data, at + 3, U16At(data, at + 1)) -> << Malformed >>
          [] OTHER -> << SetStatusAction(data[at], Slice(data, at + 3, U16At(data, at + 1))) >>
                        \o from(at + 3 + U16At(data, at + 1))
      actions == from(1)
  IN  IF \A i \in DOMAIN actions : actions[i] # Malformed THEN [actions |-> actions] ELSE Malformed

SetStatusBody(body) ==
  IF WriteBody(body) = Malformed THEN Malformed ELSE SetStatusActions(WriteBody(body).data)

\* The match in VfsRequest::try_from_slice.
RequestBody(name, body) ==
  CASE name \in {"GetStatus", "Read", "ReadDesc", "ReadDirPage"} -> ReadBody(body)
    [] name \in {"Write", "WriteDesc"} -> WriteBody(body)
    [] name = "Attach" -> AttachBody(body)
    [] name = "Open" -> IF Len(body) = 1 THEN [num_buf |-> body[1]] ELSE Malformed
    [] name = "Seek" -> SeekBody(body)
    [] name = "SetStatus" -> SetStatusBody(body)
    [] name \in {"Detach", "Close", "Truncate", "Flush"} -> IF body = << >> THEN [empty |-> TRUE] ELSE Malformed
    [] OTHER -> [raw |-> body]

\* VfsRequest::try_from_slice.
VfsRequest(data) ==
  LET code == U16At(data, 1)
      name == IF code \in DOMAIN RequestCodes THEN RequestCodes[code] ELSE "Unknown"
      body == RequestBody(name, Remainder(data, 7))
  IN  IF HasSlice(data, 1, 6) /\ body # Malformed
        THEN [request |-> code, requestors_conn_id |-> U16At(data, 3),
              servers_conn_id |-> U16At(data, 5), body |-> body]
        ELSE Malformed

=============================================================================
