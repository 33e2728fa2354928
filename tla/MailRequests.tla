---------------------------- MODULE MailRequests ----------------------------
(***************************************************************************)
(* The requests of GRiDMail and of its broadcast service as they arrive    *)
(* (vipc/mail/protocol.rs, postoffice.rs and broadcast.rs).  A service     *)
(* that cannot read a request ignores it: the session goes on.             *)
(***************************************************************************)
EXTENDS Tlv

CONSTANT Ignored    \* a request its service answers with nothing at all

\* The ? operator: what was read goes on to the next step, a failure is the
\* answer.
Then(read, Step(_)) == IF read \in {Malformed, Ignored} THEN read ELSE Step(read)

\* A request that cannot be read has no answer.
Heeded(request) == IF request = Malformed THEN Ignored ELSE request

RECORD_MARKER == 253
SESSION_MARKER == 254
SESSION_COMMAND == 97
MAIL_SERVICE_ID == 11400
BROADCAST_SERVICE_ID == 11500
PROTOCOL_VERSION == 1
TAG_BODY == 110
TAG_SELECT == 83
TAG_INITIALIZE == 73
MAIL_ID_LEN == 6

\* The channels of a mail session that take requests: the note of a message.
Channels ==
  [session |-> 0, close |-> 4, tagged |-> 6, select |-> 7, flush |-> 8,
   initialize |-> 13, finalize |-> 14, drain |-> 16]

\* TransportFragment::parse; a fragment that reports an error is dropped.
TransportFragment(payload) ==
  IF HasSlice(payload, 1, 4) /\ U16At(payload, 3) = 0
    THEN [more |-> payload[1] % 2 = 1, connection_id |-> payload[2], data |-> Remainder(payload, 5)]
    ELSE Ignored

\* Faulty variant: what follows the first record is not looked at.
FirstRecord(data, marker, tag) ==
  LET records == WellFormedPrefix(data, MarkerU16(marker))
  IN  IF records # << >> /\ Head(records).tag = tag THEN Head(records).value ELSE Malformed

SingleRecord(data, marker, tag) ==
  LET records == CollectAll(data, MarkerU16(marker))
  IN  IF records # Malformed /\ Len(records) = 1 /\ Head(records).tag = tag
        THEN Head(records).value ELSE Malformed

\* SessionInitialize::parse, compared with what the service expects.
IsSessionInitialize(data, service) ==
  LET value == SingleRecord(data, SESSION_MARKER, SESSION_COMMAND)
  IN  value # Malformed /\ value = LeBytes(service) \o << PROTOCOL_VERSION >>

\* MailId::value: the upper two of the six bytes name no message.
MailIdValue(id) == IF id[5] = 0 /\ id[6] = 0 THEN U32At(id, 1) ELSE Malformed

\* SelectControl::reads_new_mail: new mail only, oldest first, read it.
ReadsNewMail(control) == control = << 1, 0, 1 >>

\* SRequest::parse: without the body tag a query lists the mailbox.
SelectRequest(data) ==
  LET select(value) ==
        CASE ~ HasSlice(value, 1, 3 + MAIL_ID_LEN) -> Malformed
          [] ~ Contains(Remainder(value, 4 + MAIL_ID_LEN), TAG_BODY) -> [select |-> "List"]
          [] ReadsNewMail(Slice(value, 1, 3)) -> [select |-> "ReadNew"]
          [] OTHER -> [select |-> "Detail", id |-> MailIdValue(Slice(value, 4, MAIL_ID_LEN))]
  IN  Heeded(Then(SingleRecord(data, RECORD_MARKER, TAG_SELECT), select))

\* valid_i_request
IsInitialize(data) ==
  LET value == SingleRecord(data, RECORD_MARKER, TAG_INITIALIZE)
  IN  value # Malformed /\ Len(value) = 2

\* The match on the channel in MailServer::process.
ChannelRequest(note, data) ==
  LET accepted == [accepted |-> note]
      accept(condition) == IF condition THEN accepted ELSE Ignored
  IN  CASE note = Channels.session -> accept(IsSessionInitialize(data, MAIL_SERVICE_ID))
        [] note = Channels.tagged -> accept(AllRecordsValid(data, MarkerU16(RECORD_MARKER)))
        [] note = Channels.select -> SelectRequest(data)
        [] note = Channels.initialize -> accept(IsInitialize(data))
        [] note \in {Channels.close, Channels.flush, Channels.finalize, Channels.drain} -> accept(data = << >>)
        [] OTHER -> Ignored

\* MailServer::process on a channel that holds no earlier fragment (Mail
\* models how fragments are put together).
MailRequest(note, payload) ==
  Then(TransportFragment(payload), LAMBDA fragment :
    CASE note > Channels.drain -> Ignored
      [] fragment.more -> fragment
      [] OTHER -> Then(ChannelRequest(note, fragment.data), LAMBDA request :
                    [connection_id |-> fragment.connection_id, request |-> request]))

\* MailBroadcastServer::process: only the session handshake is answered.
BroadcastRequest(payload) ==
  Then(TransportFragment(payload), LAMBDA fragment :
    IF ~ fragment.more /\ IsSessionInitialize(fragment.data, BROADCAST_SERVICE_ID)
      THEN [initialize |-> fragment.connection_id]
      ELSE Ignored)

=============================================================================
