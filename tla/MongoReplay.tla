----------------------------- MODULE MongoReplay -----------------------------
(***************************************************************************)
(* src/replay/mongoReplayServer.ts: MongoReplay, as operators over its     *)
(* state (the replies left per signature, the number of calls answered and *)
(* the signatures that had no reply), and the handler of a connection.     *)
(*                                                                         *)
(* A signature is a string in the code, made of the three parts it is a    *)
(* tuple of here.                                                          *)
(***************************************************************************)
EXTENDS Naturals, Sequences, SequencesExt, Chunks, Bson, MongoRecorder

CONSTANTS
    Now,            \* the time a handshake is answered
    Explanation     \* the text that says no recording was found

HANDSHAKE_COMMANDS == {"hello", "ismaster", "isMaster", "ping", "buildInfo", "buildinfo"}

DRIVER_HOUSEKEEPING ==
    {"endSessions", "killCursors", "logout", "abortTransaction", "getFreeMonitoringStatus",
     "saslStart", "saslContinue"}

handshakeReply ==
    <<Field("ok", Number(1)), Field("isWritablePrimary", [boolean |-> TRUE]),
      Field("localTime", Tagged("date", Now)), Field("maxWireVersion", Number(17))>>

Acknowledged == <<Field("ok", Number(1))>>

NoRecording == <<Field("ok", Number(0)), Field("code", Number(59)), Field("errmsg", Text(Explanation))>>

NoFilter == [none |-> TRUE]

\* Names and targets have no blanks, and a filter is a document.
signatureOf(document) ==
    LET command == commandNameOf(document)
    IN  <<command,
          IF Has(document, command) /\ Is(Get(document, command), "string")
          THEN Get(document, command).string ELSE "",
          IF Has(document, "filter") THEN Json(Get(document, "filter")) ELSE NoFilter>>

\* The constructor: the replies of each signature, in recorded order.
NewMongoReplay(interactions) ==
    LET own(sig) == SelectSeq(interactions,
                        LAMBDA i : i.protocol = "mongodb" /\ signatureOf(i.request) = sig)
    IN  [byCommand |-> [sig \in {signatureOf(i.request) : i \in Range(interactions)} |->
                            [k \in DOMAIN own(sig) |-> own(sig)[k].response]],
         matchedCount |-> 0,
         missing |-> {}]

-----------------------------------------------------------------------------

Missed(replay, sig) == [reply |-> NoRecording, replay |-> [replay EXCEPT !.missing = @ \union {sig}]]

\* Mutants: the first reply is given for ever; a miss is an empty success.
FirstReply(replay, sig) ==
    IF sig \notin DOMAIN replay.byCommand THEN Missed(replay, sig)
    ELSE [reply  |-> Head(replay.byCommand[sig]), replay |-> [replay EXCEPT !.matchedCount = @ + 1]]

EmptyReply(replay, sig) ==
    IF sig \notin DOMAIN replay.byCommand
    THEN [reply |-> Acknowledged, replay |-> Missed(replay, sig).replay]
    ELSE FirstReply(replay, sig)

\* The next reply of a signature, the last one again and again; a list is never empty.
NextReply(replay, sig) ==
    IF sig \notin DOMAIN replay.byCommand THEN Missed(replay, sig)
    ELSE LET left == replay.byCommand[sig]
         IN  [reply  |-> Head(left),
              replay |-> [replay EXCEPT
                            !.matchedCount = @ + 1,
                            !.byCommand[sig] = IF Len(left) > 1 THEN Tail(left) ELSE left]]

\* replyTo: the reply to a document, and the MongoReplay it leaves.
replyTo(replay, document) ==
    CASE commandNameOf(document) \in HANDSHAKE_COMMANDS  -> [reply |-> handshakeReply, replay |-> replay]
      [] commandNameOf(document) \in DRIVER_HOUSEKEEPING -> [reply |-> Acknowledged, replay |-> replay]
      [] OTHER -> NextReply(replay, signatureOf(document))

-----------------------------------------------------------------------------
(***************************************************************************)
(* The handler.  Replies have request ids of their own, which nothing      *)
(* looks at.                                                               *)
(***************************************************************************)

\* A reply has the form its request arrived in.
encodeReply(responseTo, body, requestOpCode) ==
    [responseTo |-> responseTo,
     opCode     |-> IF requestOpCode = "query" THEN "reply" ELSE "msg",
     document   |-> encodeDocument(body)]

NewMongoServer(interactions) ==
    [replay |-> NewMongoReplay(interactions), buffered |-> <<>>, written |-> <<>>, crashed |-> FALSE]

\* A turn of the loop.  Nothing catches what readMessage or encodeReply throws.
Answering(server, message) ==
    LET answer == replyTo(server.replay, readMessage(message))
    IN  IF server.crashed THEN server
        ELSE IF ~ IsReadable(message) \/ ~ Encodable(answer.reply)
        THEN [server EXCEPT !.crashed = TRUE]
        ELSE [server EXCEPT !.replay  = answer.replay,
                            !.written = Append(@, encodeReply(message.requestId, answer.reply,
                                                              message.opCode))]

onData(server, chunk) ==
    LET buffer == server.buffered \o chunk
    IN  FoldLeft(Answering, [server EXCEPT !.buffered = Remainder(buffer)], Decodable(buffer))

=============================================================================
