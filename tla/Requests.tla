------------------------------ MODULE Requests ------------------------------
(***************************************************************************)
(* The layers a request is unwrapped through: the PDL frame                *)
(* (server/frame.rs), the data frame in it (server/data_frame.rs), the     *)
(* VIPC message in that (vipc/message.rs) and the request to the service   *)
(* its class names (vipc/mod.rs).  Each parser answers a record, or        *)
(* Malformed, which ends the session.                                      *)
(***************************************************************************)
EXTENDS MailRequests, VfsRequests

\* FrameType, in the order of its numbers.
FrameTypes == << "Rfc", "Ack", "Disc", "Ping", "Data" >>

\* Frame::try_from_raw.  Bytes after a control frame are not looked at.
TryFromRaw(raw) ==
  LET body == Remainder(raw, 5)
      is(type) == FrameTypes[raw[1]] = type
  IN  CASE ~ HasSlice(raw, 1, 4) -> Malformed
        [] raw[1] \notin DOMAIN FrameTypes -> Malformed
        [] is("Data") -> [type |-> "Data", seq |-> raw[4], body |-> body]
        [] is("Rfc") /\ ~ HasSlice(body, 1, 3) -> Malformed
        [] body = << >> -> Malformed
        [] OTHER -> [type |-> FrameTypes[raw[1]], seq |-> raw[4], conn |-> body[1]]

\* Frame::write_into, with the end-of-message flag and a window size.
FrameBytes(frame) ==
  << IndexFirstSubSeq(<< frame.type >>, FrameTypes), 1, 1, frame.seq >> \o
  CASE frame.type = "Data" -> frame.body
    [] frame.type = "Rfc" -> << frame.conn, 48, 50 >>
    [] OTHER -> << frame.conn >>

\* read_connect_header
ConnectHeader(data, at) == << U16At(data, at), U16At(data, at + 2) >>

SignOnProperties(data) == CollectAll(data, TagU8)

\* DataFrameType::from_repr, for the types that are requests.
DataFrameTypes == 0 :> "Msg" @@ 1 :> "Connect" @@ 3 :> "Disconnect" @@ 7 :> "SignOff" @@ 19 :> "SignOn"

ConnectPath(data, at) == IF HasSmallSlice(data, at) THEN SmallSlice(data, at) ELSE Malformed

\* DataFrameRequest::try_from_slice.
DataFrameRequest(data) ==
  LET type == DataFrameTypes[U16At(data, 1)]
  IN  CASE ~ HasSlice(data, 1, 2) -> Malformed
        [] U16At(data, 1) \notin DOMAIN DataFrameTypes -> Malformed
        [] type = "SignOff" -> [type |-> type]
        [] type = "SignOn" ->
            Then(SignOnProperties(Remainder(data, 3)), LAMBDA properties :
              [type |-> type, properties |-> [i \in DOMAIN properties |-> << properties[i].tag, properties[i].value >>]])
        [] ~ HasSlice(data, 3, 4) -> Malformed
        [] type = "Msg" -> [type |-> type, header |-> ConnectHeader(data, 3), payload |-> Remainder(data, 7)]
        [] type = "Disconnect" ->
            IF HasSlice(data, 7, 2)
              THEN [type |-> type, header |-> ConnectHeader(data, 3), reason |-> U16At(data, 7)]
              ELSE Malformed
        [] type = "Connect" ->
            Then(ConnectPath(data, 7), LAMBDA path :
              [type |-> type, header |-> ConnectHeader(data, 3), path |-> path])

\* IncomingMessage::try_from_slice: the payload is exactly what is left.
IncomingMessage(data) ==
  IF HasSlice(data, 1, 6) /\ Len(data) = 6 + U16At(data, 5)
    THEN [class |-> U16At(data, 1), note |-> U16At(data, 3), payload |-> Remainder(data, 7)]
    ELSE Malformed

CLASS_VFS == 83
CLASS_MAIL == 29764
CLASS_BROADCAST == 28672
CLASS_SENTRY == 65535

\* The match on the class in Vipc::process_message.
ServiceRequest(message) ==
  CASE message.class = CLASS_VFS -> VfsRequest(message.payload)
    [] message.class = CLASS_MAIL -> MailRequest(message.note, message.payload)
    [] message.class = CLASS_BROADCAST -> BroadcastRequest(message.payload)
    [] message.class = CLASS_SENTRY -> message.payload
    [] OTHER -> Ignored

\* Vipc::process_message up to the call of the service.
MessageRequest(payload) ==
  Then(IncomingMessage(payload), LAMBDA message :
    Then(ServiceRequest(message), LAMBDA request :
      [class |-> message.class, note |-> message.note, request |-> request]))

\* process_frame_ and process_data_frame: what a frame asks for, all layers
\* removed.
FrameRequest(raw) ==
  Then(TryFromRaw(raw), LAMBDA frame :
    IF frame.type # "Data" THEN frame ELSE
    Then(DataFrameRequest(frame.body), LAMBDA data :
      IF data.type # "Msg" THEN [frame EXCEPT !.body = data] ELSE
      Then(MessageRequest(data.payload), LAMBDA message :
        [frame EXCEPT !.body = [data EXCEPT !.payload = message]])))

=============================================================================
