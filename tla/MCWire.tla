------------------------------- MODULE MCWire -------------------------------
(***************************************************************************)
(* Requests of every layer and grammar, with bytes that look like markers  *)
(* where the grammar leaves room for them.  The largest is exactly         *)
(* MAX_FRAME_SIZE long.                                                    *)
(***************************************************************************)
EXTENDS Wire

Control(type, conn) == [type |-> type, seq |-> 0, conn |-> conn]
Data(body) == [type |-> "Data", seq |-> 0, body |-> body]
Msg(class, note, request) ==
  Data([type |-> "Msg", header |-> << 2, 16 >>, payload |-> [class |-> class, note |-> note, request |-> request]])
Vfs(code, body) ==
  Msg(CLASS_VFS, 0, [request |-> code, requestors_conn_id |-> 16, servers_conn_id |-> 3, body |-> body])
Mail(note, request) == Msg(CLASS_MAIL, note, request)

MCOpening == {
  Control("Rfc", 16), Control("Ping", 3), Control("Disc", 0),
  Data([type |-> "SignOff"]),
  Data([type |-> "SignOn", properties |-> << << 1, << 16 >> >>, << 2, << >> >> >>]),
  Data([type |-> "Connect", header |-> << 1, 0 >>, path |-> << 16, 2 >>]),
  Data([type |-> "Disconnect", header |-> << 1, 16 >>, reason |-> 528]),
  Vfs(4, [length |-> 16]),
  Vfs(5, [data |-> << 16, 3 >>]),
  Vfs(6, [mode |-> 2, position |-> 272]),
  Vfs(8, [mode |-> 1, access |-> 3, path |-> << 96, 115, 58, 100 >>]),
  Vfs(9, [empty |-> TRUE]),
  Vfs(2, [num_buf |-> 2]),
  Vfs(20, [actions |-> << << 255, << 1 >> >>, << 16, << >> >> >>]),
  Vfs(10, [raw |-> << 16 >>]),
  Mail(7, [more |-> TRUE, connection_id |-> 16, data |-> << 253 >>]),
  Mail(0, [connection_id |-> 2, request |-> [accepted |-> 0]]),
  Mail(6, [connection_id |-> 2, request |-> [accepted |-> 6]]),
  Mail(7, [connection_id |-> 3, request |-> [select |-> "Detail", id |-> 4112]]),
  Mail(7, [connection_id |-> 3, request |-> [select |-> "ReadNew"]]),
  Mail(16, [connection_id |-> 16, request |-> [accepted |-> 16]]),
  Msg(CLASS_BROADCAST, 0, [initialize |-> 16]),
  Msg(CLASS_SENTRY, 16, << 7 >>) }

\* Enough to see where reading resumes after a damaged frame.
MCFollowing == {
  Control("Ping", 3),
  Data([type |-> "SignOn", properties |-> << << 1, << 16 >> >>, << 2, << >> >> >>]),
  Vfs(5, [data |-> << 16, 3 >>]) }

MCNoise == {0, DLE, STX, ETX}

\* One byte, as many as the buffer takes, and one more.
MCRuns == {1, MAX_FRAME_SIZE, MAX_FRAME_SIZE + 1}

\* The frame of the attach request.
MCMaxFrameSize == 46

=============================================================================
