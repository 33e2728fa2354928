-------------------------------- MODULE Wire --------------------------------
(***************************************************************************)
(* The line from a client to its worker thread, byte by byte: requests are *)
(* wrapped and stuffed by the client, a byte may be changed, lost or added *)
(* on the way, and the worker reads frames off what arrives and unwraps    *)
(* them (RawFrame::read_from_io, then the parsers of Requests).            *)
(*                                                                         *)
(* The client may also send what it should not: a frame, or the payload of *)
(* a message, that is cut short or followed by a stray byte, under a right *)
(* checksum.  The order of sequence numbers is the business of Session.    *)
(***************************************************************************)
EXTENDS RawFrame, Requests

CONSTANTS
  Opening,    \* the requests a connection may start with: frames, numbered
              \* when they are sent
  Following,  \* the requests that may come after it
  Noise,      \* the bytes a damaged byte may turn into
  Runs,       \* how many stray bytes may arrive at once between two frames
  MaxSent,    \* frames per connection
  MaxMishaps  \* damaged and stray bytes and spoiled frames per connection

VARIABLES
  line,       \* bytes on their way, oldest first
  sent,       \* history: the requests sent, each with whether it was spoiled
  taken,      \* history: the requests the worker took, oldest first
  alive,      \* the worker is in its read loop
  damaged,    \* bytes damaged so far
  stray       \* history: the runs of bytes that arrived between two frames

vars == << line, sent, taken, alive, damaged, stray >>

(***************************************************************************)
(* The client: how a request is wrapped.                                   *)
(***************************************************************************)
Zeros(n) == [i \in 1 .. n |-> 0]

VfsBodyBytes(body) ==
  CASE "length" \in DOMAIN body -> LeBytes(body.length)
    [] "data" \in DOMAIN body -> WithU16Len(body.data)
    [] "path" \in DOMAIN body ->
        << body.mode, body.access >> \o Zeros(ATTACH_HEADER_LEN - 2) \o WriteU8Slice(body.path)
    [] "num_buf" \in DOMAIN body -> << body.num_buf >>
    [] "position" \in DOMAIN body -> << body.mode >> \o Le32(body.position)
    [] "actions" \in DOMAIN body ->
        WithU16Len(FlattenSeq([i \in DOMAIN body.actions |->
          << body.actions[i][1] >> \o WithU16Len(body.actions[i][2])]))
    [] "raw" \in DOMAIN body -> body.raw
    [] OTHER -> << >>

\* app_frame and transport, as the services frame their own replies.
AppFrame(marker, record) == << marker >> \o WithU16Len(record)

Transport(flags, connection_id, data) == << flags, connection_id, 0, 0 >> \o data

InitializeBytes(service) ==
  AppFrame(SESSION_MARKER, << SESSION_COMMAND >> \o LeBytes(service) \o << PROTOCOL_VERSION >>)

SelectBytes(control, id, tags) ==
  AppFrame(RECORD_MARKER, << TAG_SELECT >> \o control \o Le32(id) \o << 0, 0 >> \o tags)

ChannelBytes(request) ==
  CASE "select" \notin DOMAIN request ->
        (CASE request.accepted = Channels.session -> InitializeBytes(MAIL_SERVICE_ID)
           [] request.accepted = Channels.tagged -> AppFrame(RECORD_MARKER, << 84 >>) \o AppFrame(RECORD_MARKER, << 16, 16 >>)
           [] request.accepted = Channels.initialize -> AppFrame(RECORD_MARKER, << TAG_INITIALIZE, 16, 0 >>)
           [] OTHER -> << >>)
    [] request.select = "List" -> SelectBytes(<< 7, 0, 0 >>, 0, << >>)
    [] request.select = "ReadNew" -> SelectBytes(<< 1, 0, 1 >>, 0, << TAG_BODY >>)
    [] OTHER -> SelectBytes(<< 7, 0, 1 >>, request.id, << TAG_BODY >>)

MailBytes(request) ==
  IF "more" \in DOMAIN request
    THEN Transport(1, request.connection_id, request.data)
    ELSE Transport(0, request.connection_id, ChannelBytes(request.request))

PayloadBytes(message) ==
  CASE message.class = CLASS_VFS ->
        LeBytes(message.request.request) \o LeBytes(message.request.requestors_conn_id) \o
        LeBytes(message.request.servers_conn_id) \o VfsBodyBytes(message.request.body)
    [] message.class = CLASS_MAIL -> MailBytes(message.request)
    [] message.class = CLASS_BROADCAST ->
        Transport(0, message.request.initialize, InitializeBytes(BROADCAST_SERVICE_ID))
    [] OTHER -> message.request

MessageBytes(message, payload) ==
  LeBytes(message.class) \o LeBytes(message.note) \o WithU16Len(payload)

HeaderBytes(header) == LeBytes(header[1]) \o LeBytes(header[2])

DataBytes(data, payload) ==
  CASE data.type = "SignOff" -> LeBytes(7)
    [] data.type = "SignOn" ->
        LeBytes(19) \o FlattenSeq([i \in DOMAIN data.properties |->
          << data.properties[i][1] >> \o WriteU8Slice(data.properties[i][2])])
    [] data.type = "Connect" -> LeBytes(1) \o HeaderBytes(data.header) \o WriteU8Slice(data.path)
    [] data.type = "Disconnect" -> LeBytes(3) \o HeaderBytes(data.header) \o LeBytes(data.reason)
    [] OTHER -> LeBytes(0) \o HeaderBytes(data.header) \o MessageBytes(data.payload, payload)

\* A frame whose message, if it carries one, has this payload.
RawBytes(frame, payload) ==
  FrameBytes(IF frame.type = "Data" THEN [frame EXCEPT !.body = DataBytes(frame.body, payload)] ELSE frame)

IsMessage(frame) == frame.type = "Data" /\ frame.body.type = "Msg"

Payload(frame) == IF IsMessage(frame) THEN PayloadBytes(frame.body.payload) ELSE << >>

\* The payload says itself where it ends: a mail fragment with more to come,
\* a list of records, the tags of a selection, a Sentry request and an unknown
\* file request end with whatever is left.
Delimited(message) ==
  CASE message.class = CLASS_VFS -> "raw" \notin DOMAIN message.request.body
    [] message.class = CLASS_MAIL -> "more" \notin DOMAIN message.request /\ message.note # Channels.tagged
    [] message.class = CLASS_BROADCAST -> TRUE
    [] OTHER -> FALSE

\* The first n bytes of it, or all of it and a stray byte.
Spoil(data, n) == SubSeq(Append(data, 0), 1, n)

Init ==
  /\ line = << >>
  /\ sent = << >>
  /\ taken = << >>
  /\ alive = TRUE
  /\ damaged = 0
  /\ stray = << >>

Spoiled == SelectSeq(sent, LAMBDA s : s.spoiled)

Mishaps == damaged + Len(stray) + Len(Spoiled)

Put(frame, raw, spoiled) ==
  /\ line' = line \o WriteToIo(raw)
  /\ sent' = Append(sent, [request |-> frame, spoiled |-> spoiled])
  /\ UNCHANGED << taken, alive, damaged, stray >>

Numbered(request) == [request EXCEPT !.seq = Len(sent) + 1]

MaySend(request) ==
  /\ alive
  /\ Len(sent) < MaxSent
  /\ request \in (IF sent = << >> THEN Opening ELSE Following)

Send(request) ==
  /\ MaySend(request)
  /\ LET frame == Numbered(request) IN Put(frame, RawBytes(frame, Payload(frame)), FALSE)

SendSpoiledFrame(request) ==
  /\ MaySend(request)
  /\ Mishaps < MaxMishaps
  /\ LET frame == Numbered(request)
         raw == RawBytes(frame, Payload(frame))
     IN  \E n \in (0 .. (Len(raw) + 1)) \ {Len(raw)} : Put(frame, Spoil(raw, n), TRUE)

SendSpoiledPayload(request) ==
  /\ MaySend(request)
  /\ Mishaps < MaxMishaps
  /\ IsMessage(request)
  /\ Delimited(request.body.payload)
  /\ LET frame == Numbered(request)
         payload == Payload(frame)
     IN  \E n \in (0 .. (Len(payload) + 1)) \ {Len(payload)} : Put(frame, RawBytes(frame, Spoil(payload, n)), TRUE)

(***************************************************************************)
(* The line.                                                               *)
(***************************************************************************)
Damage(bytes) ==
  /\ alive
  /\ Mishaps < MaxMishaps
  /\ line' = bytes
  /\ damaged' = damaged + 1
  /\ UNCHANGED << sent, taken, alive, stray >>

ChangeByte == \E i \in DOMAIN line, b \in Noise : line[i] # b /\ Damage([line EXCEPT ![i] = b])

LoseByte == \E i \in DOMAIN line : Damage(RemoveAt(line, i))

AddByte == \E i \in 1 .. (Len(line) + 1), b \in Noise : Damage(InsertAt(line, i, b))

\* The modem repeats a byte, a marker included, while no frame is on its way.
StrayBytes ==
  /\ alive
  /\ Mishaps < MaxMishaps
  /\ \E b \in Noise, n \in Runs :
       /\ line' = line \o [i \in 1 .. n |-> b]
       /\ stray' = Append(stray, [byte |-> b, length |-> n])
  /\ UNCHANGED << sent, taken, alive, damaged >>

(***************************************************************************)
(* The worker: one turn of its loop.  A service that ignores a request     *)
(* leaves the session as it was; a link disconnect ends it, and so does a  *)
(* request no parser accepts.  What the handler of a request decides after *)
(* that is the business of Session and of the services.                    *)
(***************************************************************************)
Disconnects(request) == request \notin {Malformed, Ignored} /\ request.type = "Disc"

ReadFrame ==
  LET read == ReadFromIo(line)
  IN  /\ alive
      /\ read \notin {Malformed, Waiting}
      /\ line' = read.rest
      /\ \E request \in {FrameRequest(read.data)} :
           /\ alive' = (request # Malformed /\ ~ Disconnects(request))
           /\ taken' = IF request \in {Malformed, Ignored} THEN taken ELSE Append(taken, request)
      /\ UNCHANGED << sent, damaged, stray >>

ReadFails ==
  /\ alive
  /\ ReadFromIo(line) = Malformed
  /\ alive' = FALSE
  /\ UNCHANGED << line, sent, taken, damaged, stray >>

\* The client hangs up, and the next connection gets a worker of its own.
Reconnect ==
  /\ line' = << >>
  /\ sent' = << >>
  /\ taken' = << >>
  /\ alive' = TRUE
  /\ damaged' = 0
  /\ stray' = << >>

Next ==
  \/ \E request \in Opening \cup Following : Send(request) \/ SendSpoiledFrame(request) \/ SendSpoiledPayload(request)
  \/ ChangeByte
  \/ LoseByte
  \/ AddByte
  \/ StrayBytes
  \/ ReadFrame
  \/ ReadFails
  \/ Reconnect

Spec == Init /\ [][Next]_vars

-----------------------------------------------------------------------------
\* What a frame that arrived may be taken for: the request it was sent as; a
\* sign-on cut between two of its properties is a sign-on with fewer.
MayBeTakenAs(frame) ==
  {frame} \cup
  (IF frame.type = "Data" /\ frame.body.type = "SignOn"
     THEN {[frame EXCEPT !.body.properties = SubSeq(frame.body.properties, 1, n)] :
             n \in 0 .. Len(frame.body.properties)}
     ELSE {})

\* RequestsIntact: whatever byte the line damages, the worker only ever takes
\* requests as they were sent, in the order they were sent and none twice; and
\* a message that is cut or overrun anywhere, at the frame or at its payload,
\* is not taken at all (the checksum, the length fields and the record walks
\* of raw_frame.rs, frame.rs, data_frame.rs, message.rs, tlv.rs,
\* mail/protocol.rs and vfs/protocol.rs together).
RequestsIntact ==
  /\ \A i \in DOMAIN taken :
       /\ taken[i].seq \in DOMAIN sent
       /\ LET origin == sent[taken[i].seq]
          IN  IF origin.spoiled
                THEN ~ IsMessage(origin.request) /\ taken[i] \in MayBeTakenAs(origin.request)
                ELSE taken[i] = origin.request
  /\ \A i, j \in DOMAIN taken : i < j => taken[i].seq < taken[j].seq

\* The reader discards the stray bytes at the next start marker: none of them
\* is a DLE, which would take the marker for its second half, and there are
\* not more of them than fit the buffer.
Discarded ==
  /\ \A i \in DOMAIN stray : stray[i].byte # DLE
  /\ FoldSeq(LAMBDA run, sum : sum + run.length, 0, stray) <= MAX_FRAME_SIZE

Costly == damaged + (IF Discarded THEN 0 ELSE Len(stray))

\* OneByteOneFrame: on an undamaged line, up to MAX_FRAME_SIZE stray bytes
\* other than DLE between its frames included, a well-behaved client's frames,
\* up to exactly MAX_FRAME_SIZE bytes long, are taken one after the other and
\* nothing but its link disconnect ends the reading (read_unstuffed,
\* push_unstuffed, try_worker); a damaged byte, and a run of stray bytes with
\* a DLE or too many of them, costs the session or at most one frame.
OneByteOneFrame ==
  Spoiled = << >> =>
    /\ Costly = 0 =>
         /\ IsPrefix(taken, [i \in DOMAIN sent |-> sent[i].request])
         /\ alive \/ (taken # << >> /\ Disconnects(Last(taken)))
    /\ alive /\ ReadFromIo(line) = Waiting => Len(taken) + Costly >= Len(sent)

=============================================================================
