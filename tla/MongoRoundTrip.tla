--------------------------- MODULE MongoRoundTrip ---------------------------
(***************************************************************************)
(* MongoDB recorded and then replayed: a driver with several operations    *)
(* outstanding on one socket, the recorder the proxy feeds as the bytes    *)
(* pass, and the replay server that is later built from what it recorded.  *)
(*                                                                         *)
(* The proxy hands the recorder every chunk before it writes it on, and    *)
(* RecordingTcpProxyProofs shows the relay exact, so the sockets beyond    *)
(* the proxy are left out: the server has a command once the recorder has  *)
(* been fed the whole of it.  The server is external.  It answers in any   *)
(* order, writes messages that answer no request of the driver's, and does *)
(* not answer an unacknowledged write.                                     *)
(***************************************************************************)
EXTENDS MongoRecorder, MongoReplay, FiniteSets

CONSTANT Setups

\* An app and its database: the commands it has and how many of them it sends while it
\* is recorded and while it is replayed, and if the database streams.  A command is an
\* opcode and sections, and the fields of its answer.
SetupAssumption ==
    \A s \in Setups : DOMAIN s = {"commands", "asked", "maxCommands", "maxCalls", "streams"}

ASSUME SetupAssumption

VARIABLES
    setup,          \* which of them runs; never changes
    phase,          \* "record", then "replay"
    issued,         \* the driver's commands, by request id, and who they overtook
    up, down,       \* halves written and not yet fed to the recorder
    recorder,
    answered,       \* request ids the server has answered
    interactions,   \* what onInteraction has collected
    seen,           \* ghost: request ids whose answer has passed the proxy
    missed,         \* ghost: request ids of messages the recorder dropped
    calls,          \* the app's commands in the replay, by request id
    toReplay,       \* halves of them not yet read
    server          \* startMongoReplayServer, and what it has written

recordVars == <<issued, up, down, recorder, answered, interactions, seen, missed>>
replayVars == <<calls, toReplay, server>>
vars == <<setup, phase, recordVars, replayVars>>

Init ==
    /\ setup \in Setups
    /\ phase = "record"
    /\ issued = <<>>
    /\ up = <<>> /\ down = <<>>
    /\ recorder = NewMongoRecorder
    /\ answered = {}
    /\ interactions = <<>>
    /\ seen = {} /\ missed = {}
    /\ calls = <<>> /\ toReplay = <<>>
    /\ server = NewMongoServer(<<>>)

-----------------------------------------------------------------------------
(***************************************************************************)
(* The recording.                                                          *)
(***************************************************************************)

Message(id, responseTo, opCode, sections) ==
    [requestId |-> id, responseTo |-> responseTo, opCode |-> opCode, sections |-> sections]

\* What the server says to a command; no two answers are the same.
Answer(id) == Append(issued[id].command.answer, Field("of", [int32 |-> id]))

\* An answer has the form of its command.
Reply(id) ==
    Message(100 + id, id,
            IF issued[id].command.opCode = "query" THEN "reply" ELSE issued[id].command.opCode,
            OneDocument(Answer(id)))

\* An awaitable hello streams on: each message responds to the one before it.
Streamed == Message(199, 100, "msg", OneDocument(<<Field("ok", [double |-> 1])>>))

Command(command) ==
    /\ phase = "record" /\ Len(issued) < setup.maxCommands
    /\ LET id == Len(issued) + 1
       IN  /\ issued' = Append(issued, [command |-> command, overtaking |-> (1 .. Len(issued)) \ seen])
           /\ up' = up \o Halves(Message(id, 0, command.opCode, command.sections))
    /\ UNCHANGED <<setup, phase, down, recorder, answered, interactions, seen, missed, replayVars>>

ClientChunk ==
    /\ phase = "record" /\ recorder.clientInStep
    /\ \E n \in 1 .. Len(up) :
        LET chunk == SubSeq(up, 1, n)
        IN  /\ recorder' = onClientData(recorder, chunk)
            /\ missed' = missed \union {m.requestId : m \in Range(Dropped(recorder.clientBuffer, chunk))}
            /\ up' = SubSeq(up, n + 1, Len(up))
    /\ UNCHANGED <<setup, phase, issued, down, answered, interactions, seen, replayVars>>

\* Commands of which no half is left to read have reached the server.
AtServer == {id \in DOMAIN issued : \A k \in DOMAIN up : up[k].requestId # id}

ServerAnswers ==
    /\ phase = "record"
    /\ \E id \in AtServer \ answered :
        /\ issued[id].command.answer # <<>>
        /\ answered' = answered \union {id}
        /\ down' = down \o Halves(Reply(id))
    /\ UNCHANGED <<setup, phase, issued, up, recorder, interactions, seen, missed, replayVars>>

ServerStreams ==
    /\ phase = "record" /\ setup.streams /\ 0 \notin answered
    /\ answered' = answered \union {0}
    /\ down' = down \o Halves(Streamed)
    /\ UNCHANGED <<setup, phase, issued, up, recorder, interactions, seen, missed, replayVars>>

ServerChunk ==
    /\ phase = "record" /\ recorder.serverInStep
    /\ \E n \in 1 .. Len(down) :
        LET chunk  == SubSeq(down, 1, n)
            parsed == onServerData(recorder, chunk)
            rest   == SubSeq(down, n + 1, Len(down))
        IN  /\ interactions' = interactions \o completed(parsed)
            /\ recorder' = drain(parsed)
            /\ down' = rest
            /\ seen' = {id \in answered : \A k \in DOMAIN rest : rest[k].responseTo # id} \ {0}
            /\ missed' = missed \union {m.responseTo : m \in Range(Dropped(recorder.serverBuffer, chunk))}
    /\ UNCHANGED <<setup, phase, issued, up, answered, replayVars>>

-----------------------------------------------------------------------------
(***************************************************************************)
(* The replay.                                                             *)
(***************************************************************************)

\* The file holds each interaction as JSON.
Written(i) == [i EXCEPT !.request  = Json([object |-> @]).object,
                        !.response = Json([object |-> @]).object]

\* The recording ends, with whatever is under way, and a replay is started from its file.
StartReplay ==
    /\ phase = "record" /\ InStep(recorder)
    /\ phase' = "replay"
    /\ server' = NewMongoServer([k \in DOMAIN interactions |-> Written(interactions[k])])
    /\ up' = <<>> /\ down' = <<>>
    /\ recorder' = NewMongoRecorder
    /\ answered' = {}
    /\ UNCHANGED <<setup, issued, interactions, seen, missed, calls, toReplay>>

Call(command) ==
    /\ phase = "replay" /\ Len(calls) < setup.maxCalls /\ ~ server.crashed
    /\ calls' = Append(calls, command)
    /\ toReplay' = toReplay \o Halves(Message(Len(calls) + 1, 0, command.opCode, command.sections))
    /\ UNCHANGED <<setup, phase, recordVars, server>>

ReplayChunk ==
    /\ phase = "replay" /\ ~ server.crashed
    /\ \E n \in 1 .. Len(toReplay) :
        /\ server' = onData(server, SubSeq(toReplay, 1, n))
        /\ toReplay' = SubSeq(toReplay, n + 1, Len(toReplay))
    /\ UNCHANGED <<setup, phase, recordVars, calls>>

-----------------------------------------------------------------------------

Next ==
    \/ \E command \in setup.commands : Command(command)
    \/ ClientChunk \/ ServerAnswers \/ ServerStreams \/ ServerChunk
    \/ StartReplay
    \/ \E command \in setup.asked : Call(command)
    \/ ReplayChunk

Spec == Init /\ [][Next]_vars

-----------------------------------------------------------------------------
(***************************************************************************)
(* Properties.                                                             *)
(***************************************************************************)

TypeOK ==
    /\ setup \in Setups /\ phase \in {"record", "replay"}
    /\ issued \in Seq([command : setup.commands, overtaking : SUBSET (1 .. setup.maxCommands)])
    /\ {p.requestId : p \in recorder.pending} \subseteq DOMAIN issued
    /\ recorder.completed = <<>>
    /\ Len(recorder.clientBuffer) < 2 /\ Len(recorder.serverBuffer) < 2
    /\ answered \subseteq 0 .. setup.maxCommands
    /\ seen \subseteq DOMAIN issued /\ missed \subseteq DOMAIN issued \union {100}
    /\ Len(interactions) <= Len(issued)
    /\ calls \in Seq(setup.asked) /\ Len(calls) <= setup.maxCalls
    /\ Len(server.buffered) < 2 /\ Len(server.written) <= Len(calls)
    /\ server.replay.matchedCount \in Nat

\* Which answer a response is; none, if it was not one the recorder reads.
Of(fields) == IF Has(fields, "of") THEN Get(fields, "of").number ELSE 0

IsRecorded(id) == \E k \in DOMAIN interactions : Of(interactions[k].response) = id

\* The command name, the fields and all documents that were sent.
HoldsTheCommand(request, sections) ==
    /\ commandNameOf(request) = sections[1].fields[1].name
    /\ \A section \in Range(sections) :
            IF section.kind = 0 THEN Names(section.fields) \subseteq Names(request)
            ELSE /\ Has(request, section.identifier)
                 /\ Len(Get(request, section.identifier).array) = Len(section.documents)

\* mongoRecorder.ts:4-8, "which stays correct even when a driver has several operations
\* outstanding on one socket", and 76-80: each interaction is a command, whole, with its
\* own answer, an answer that has passed the proxy is recorded, and once.  A message the
\* codec cannot read costs those that came behind it in its chunk, and no other.  Of what
\* is not OP_MSG, answers are recorded empty, and compressed commands too.
PairedById ==
    InStep(recorder) =>
    /\ \A k \in DOMAIN interactions :
            \/ /\ Of(interactions[k].response) \in DOMAIN issued
               /\ LET command == issued[Of(interactions[k].response)].command
                  IN  command.opCode = "msg" /\ HoldsTheCommand(interactions[k].request, command.sections)
            \/ /\ interactions[k].response = <<>>
               /\ \E id \in DOMAIN issued :
                    \/ issued[id].command.opCode = "other" /\ interactions[k].request = <<>>
                    \/ issued[id].command.opCode = "query"
                        /\ HoldsTheCommand(interactions[k].request, issued[id].command.sections)
    /\ \A j, k \in DOMAIN interactions :
            Of(interactions[j].response) = Of(interactions[k].response)
                => j = k \/ Of(interactions[j].response) = 0
    /\ \A id \in seen \ missed : issued[id].command.opCode = "msg" => IsRecorded(id)

-----------------------------------------------------------------------------

\* A value as a driver shows it: numbers of every type are numbers.
RECURSIVE Shown(_)
Shown(v) ==
    CASE Is(v, "document") ->
            [document |-> [k \in DOMAIN v.document |-> Field(v.document[k].name, Shown(v.document[k].value))]]
      [] Is(v, "array")  -> [array |-> [k \in DOMAIN v.array |-> Shown(v.array[k])]]
      [] Is(v, "int32")  -> Number(v.int32)
      [] Is(v, "int64")  -> Number(v.int64)
      [] Is(v, "double") -> Number(v.double)
      [] OTHER -> v

\* What the recording does not keep: it has no JSON, or no way back to BSON.
IsKept(v) ==
    \A w \in Within(v) :
        /\ DOMAIN w \cap {"timestamp", "regex", "decimal", "undefined"} = {}
        /\ Is(w, "double") => w.double \notin {NotANumber, Infinite, NegativeZero}
        /\ Is(w, "binary") => w.binary.subtype = 0
        /\ Is(w, "document") => ~ Has(w.document, "$type")

\* What a command is matched by, as the app gave it.
Asks(command) ==
    LET fields == command.sections[1].fields
    IN  [name   |-> fields[1].name,
         target |-> IF Is(fields[1].value, "string") THEN fields[1].value.string ELSE "",
         filter |-> IF Has(fields, "filter") THEN Shown(Get(fields, "filter")) ELSE NoFilter]

Synthesised(command) == Asks(command).name \in HANDSHAKE_COMMANDS \union DRIVER_HOUSEKEEPING

\* The recorded commands a call asks for again.
RecordedFor(call) ==
    {id \in DOMAIN issued : IsRecorded(id) /\ Asks(issued[id].command) = Asks(call)}

Concurrent(ids) == \E i, j \in ids : i \in issued[j].overtaking

\* The n-th of some commands in the order issued, the last one again and again.
Nth(ids, n) ==
    CHOOSE id \in ids : LET before == Cardinality({i \in ids : i <= id})
                        IN  before = n \/ (before = Cardinality(ids) /\ before < n)

CallNumber(k) ==
    Cardinality({j \in 1 .. k : Asks(calls[j]) = Asks(calls[k])})

\* The reply has the fields of the answer and, where the recording keeps them, their values.
Repeats(document, answer) ==
    /\ [k \in DOMAIN document |-> document[k].name] = [k \in DOMAIN answer |-> answer[k].name]
    /\ \A k \in DOMAIN answer :
            IsKept(answer[k].value) => Shown(document[k].value) = Shown(answer[k].value)

\* README.md:33 and replay/README's fidelity from one end to the other: every call is
\* answered, in the order and in the form it was made, and the n-th call for a command
\* shows the app what the database answered to the n-th recorded one, the last repeating,
\* where these did not overlap.  Only what the codec cannot read, or takes for a value of
\* its own, stops the server.
ReplayRepeatsTheRecording ==
    /\ \A k \in DOMAIN server.written :
        LET reply == server.written[k]
            ids   == RecordedFor(calls[k])
        IN  /\ reply.responseTo = k
            /\ reply.opCode = IF calls[k].opCode = "query" THEN "reply" ELSE "msg"
            /\ ~ Synthesised(calls[k]) /\ ids # {} /\ ~ Concurrent(ids)
                => Repeats(reply.document, Answer(Nth(ids, CallNumber(k))))
    /\ IF server.crashed
       THEN LET call == calls[Len(server.written) + 1]
            IN  \/ \E section \in Range(call.sections) :
                        \E fields \in Range(DocumentsIn(section)) : ~ Readable([document |-> fields])
                \/ \E id \in RecordedFor(call) :
                        \E w \in Within([document |-> Answer(id)]) : Is(w, "document") /\ Has(w.document, "$type")
       ELSE 2 * Len(server.written) + Len(server.buffered) + Len(toReplay) = 2 * Len(calls)

Failed(reply) == Get(reply.document, "ok") = [int32 |-> 0]

\* README.md:31: a command that the recording does not hold is answered with an error and
\* named, and no other is; the driver's own commands are neither.
MissesAreNamed ==
    LET failed == {k \in DOMAIN server.written : Failed(server.written[k])}
    IN  /\ \A k \in DOMAIN server.written :
                k \in failed <=> ~ Synthesised(calls[k]) /\ RecordedFor(calls[k]) = {}
        /\ ~ server.crashed =>
            /\ Cardinality(server.replay.missing) = Cardinality({Asks(calls[k]) : k \in failed})
            /\ server.replay.matchedCount =
                    Cardinality({k \in DOMAIN server.written \ failed : ~ Synthesised(calls[k])})

=============================================================================
