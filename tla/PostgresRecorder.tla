-------------------------- MODULE PostgresRecorder --------------------------
(***************************************************************************)
(* PostgresRecorder of src/record/protocols/postgresRecorder.ts, as        *)
(* operators over its state: one recorder per proxied connection.          *)
(*                                                                         *)
(* A frame carries what the readers of postgresMessages.ts take from its   *)
(* payload.  Frames cross a socket in halves (see Chunks); the server's    *)
(* answer to an SSLRequest is the one that is a single element, as it is a *)
(* single byte.                                                            *)
(***************************************************************************)
EXTENDS Naturals, Sequences, SequencesExt, Chunks, PostgresDriver

CONSTANTS
    StatementName,
    NoSql,          \* the empty text currentSql starts with
    MisreadLength,  \* the elements a StartupMessage takes when it is read as a frame
    Garbled         \* what two halves of different frames are read as

NewPostgresRecorder ==
    [phase |-> "initial", clientBuffer |-> <<>>, serverBuffer |-> <<>>,
     prepared |-> [name \in StatementName |-> Unparsed],
     sql |-> NoSql, params |-> NoParams,
     columns |-> <<>>, rows |-> <<>>, completed |-> <<>>]

\* readFrame, over a client's buffer.  A frame begins where the one before it ended, and
\* what it takes out of the middle of two others may be read as any frame at all.
Framed(buffer) ==
    [k \in 1 .. Len(buffer) \div 2 |->
        IF buffer[2 * k - 1] = buffer[2 * k] THEN buffer[2 * k]
        ELSE Garbled[buffer[2 * k - 1], buffer[2 * k]]]

\* A StartupMessage has no type byte.  Read as a frame its length is made of the bytes
\* of its own length and version, some 20 KB whatever it says: it takes in what follows,
\* and ends anywhere.
Misread(buffer) == buffer # <<>> /\ Head(buffer).type = "Startup"

Behind(buffer) ==
    IF Misread(buffer) THEN SubSeq(buffer, MisreadLength + 1, Len(buffer)) ELSE buffer

Frames(buffer) == Framed(Behind(buffer))

UnreadNone(buffer) == <<>>  \* mutant: a frame cut by the chunk is dropped

Unread(buffer) ==
    IF Misread(buffer) /\ Len(buffer) < MisreadLength THEN buffer ELSE Remainder(Behind(buffer))

-----------------------------------------------------------------------------
(***************************************************************************)
(* One frame.                                                              *)
(***************************************************************************)

\* A Bind of an unknown name leaves the statement as it is.
handleClientFrame(r, frame) ==
    CASE frame.type = "Q" -> [r EXCEPT !.sql = frame.sql, !.params = NoParams]
      [] frame.type = "P" -> [r EXCEPT !.prepared[frame.name] = frame.sql, !.sql = frame.sql]
      [] frame.type = "B" ->
            LET prepared == r.prepared[frame.name]
            IN  [r EXCEPT !.sql = IF prepared = Unparsed THEN @ ELSE prepared,
                          !.params = frame.params]
      [] OTHER -> r

Result(columns, rows, tag) == [columns |-> columns, rows |-> rows, tag |-> tag, error |-> 0]
Failure(error)             == [columns |-> <<>>, rows |-> <<>>, tag |-> 0, error |-> error]

\* Mutant: the rows of a statement that failed half way stay.
EmitKeepingRows(r, response) ==
    IF r.sql = NoSql THEN r
    ELSE [r EXCEPT !.completed = Append(@, [protocol |-> "postgres", sql |-> r.sql,
                                            params |-> r.params, result |-> response]),
                   !.columns = <<>>]

\* Errors before the first statement (authentication) are no interaction.
emit(r, response) ==
    IF r.sql = NoSql THEN r
    ELSE [r EXCEPT !.completed = Append(@, [protocol |-> "postgres", sql |-> r.sql,
                                            params |-> r.params, result |-> response]),
                   !.columns = <<>>,
                   !.rows = <<>>]

\* Mutant: errors are not interactions.
HandleServerFrameQuietly(r, frame) ==
    CASE frame.type = "T" -> [r EXCEPT !.columns = frame.columns]
      [] frame.type = "D" -> [r EXCEPT !.rows = Append(@, frame.row)]
      [] frame.type = "C" -> emit(r, Result(r.columns, r.rows, frame.tag))
      [] OTHER -> r

handleServerFrame(r, frame) ==
    CASE frame.type = "T" -> [r EXCEPT !.columns = frame.columns]
      [] frame.type = "D" -> [r EXCEPT !.rows = Append(@, frame.row)]
      [] frame.type = "C" -> emit(r, Result(r.columns, r.rows, frame.tag))
      [] frame.type = "E" -> emit(r, Failure(frame.error))
      [] OTHER -> r

-----------------------------------------------------------------------------
(***************************************************************************)
(* One chunk.                                                              *)
(***************************************************************************)

\* The loops of both handlers: one frame after the other.
InOrder(handle(_, _), r, frames) ==
    LET after[n \in 0 .. Len(frames)] ==
            IF n = 0 THEN r ELSE handle(after[n - 1], frames[n])
    IN  after[Len(frames)]

ReadClient(r) ==
    LET buffer == r.clientBuffer
    IN  InOrder(handleClientFrame, [r EXCEPT !.clientBuffer = Unread(buffer)], Frames(buffer))

\* Mutant: the frames read stay in the buffer.
ReadServerKeeping(r) == InOrder(handleServerFrame, r, Decodable(r.serverBuffer))

ReadServer(r) ==
    LET buffer == r.serverBuffer
    IN  InOrder(handleServerFrame, [r EXCEPT !.serverBuffer = Remainder(buffer)], Decodable(buffer))

\* The first message is untyped, and may ask for TLS.
ReadStartup(r) ==
    LET buffer == r.clientBuffer
        rest   == [r EXCEPT !.clientBuffer = SubSeq(buffer, 3, Len(buffer))]
    IN  IF Len(buffer) < 2 THEN r
        ELSE IF Head(buffer).type = "SSLRequest" THEN [rest EXCEPT !.phase = "awaiting-ssl-reply"]
        ELSE ReadClient([rest EXCEPT !.phase = "running"])

onClientData(r, chunk) ==
    LET buffered == [r EXCEPT !.clientBuffer = @ \o chunk]
    IN  CASE r.phase = "encrypted"          -> r
          [] r.phase = "initial"            -> ReadStartup(buffered)
          [] r.phase = "awaiting-ssl-reply" -> buffered
          [] r.phase = "running"            -> ReadClient(buffered)

onServerData(r, chunk) ==
    CASE r.phase = "encrypted" -> r
      [] r.phase = "awaiting-ssl-reply" ->
            IF Head(chunk).accepted THEN [r EXCEPT !.phase = "encrypted"]
            ELSE [r EXCEPT !.phase = "running", !.serverBuffer = Tail(chunk)]
      [] OTHER -> ReadServer([r EXCEPT !.serverBuffer = @ \o chunk])

completed(r) == r.completed

drain(r) == [r EXCEPT !.completed = <<>>]

=============================================================================
