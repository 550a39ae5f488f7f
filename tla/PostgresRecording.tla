-------------------------- MODULE PostgresRecording --------------------------
(***************************************************************************)
(* Recording Postgres without TLS interception: drivers and a server       *)
(* talking through the proxy of RecordingTcpProxy, with the recorder of    *)
(* PostgresRecorder.                                                       *)
(*                                                                         *)
(* The server is external.  No two results are alike (each carries a       *)
(* serial number in its row, tag or error), which is what lets the         *)
(* properties name a result.  A driver waits for ReadyForQuery before its  *)
(* next round trip, unless its connection is one that pipelines.           *)
(***************************************************************************)
EXTENDS PostgresRecorder, FiniteSets

CONSTANTS
    Connection,
    MayFail,        \* connections whose sockets may fail
    Pipelining,     \* connections whose driver does not wait
    MayAskForTls,   \* connections whose driver may start with an SSLRequest
    Sql, Params,
    Reads,          \* statements that return a row
    RoundTrip,
    MaxDriven,      \* bound: connections used in one behaviour
    MaxRoundTrips,  \* bound: round trips in one behaviour, and after which a driver
    MaxUnreadTrips, \*   that has asked for TLS
    MaxAheadTrips   \*   or one that pipelines sends no more

ASSUME BoundsAssumption ==
    /\ MaxDriven \in Nat /\ MaxRoundTrips \in Nat
    /\ MaxUnreadTrips \in 0 .. MaxRoundTrips /\ MaxAheadTrips \in 0 .. MaxRoundTrips

ASSUME RoundTripAssumption ==
    RoundTrip \subseteq
        [kind : {"simple"}, sql : Sql]
            \union [kind : {"close"}, name : StatementName]
            \union [kind : {"extended"}, name : StatementName, sql : Sql, params : Params,
                    parse : BOOLEAN, describe : BOOLEAN]

\* A statement has a text; Postgres answers an empty one with neither result nor error.
ASSUME StatementAssumption ==
    /\ Reads \subseteq Sql /\ NoSql \notin Sql /\ Unparsed \notin Sql
    /\ NoParams \in Params /\ Unnamed \in StatementName

\* What a driver sends.
Frame ==
    [type : {"SSLRequest", "Startup", "D", "E", "S"}]
        \union [type : {"Q"}, sql : Sql]
        \union [type : {"P"}, name : StatementName, sql : Sql]
        \union [type : {"B"}, name : StatementName, params : Params]
        \union [type : {"C"}, name : StatementName]

ASSUME MisreadAssumption ==
    MisreadLength \in Nat \ {0, 1} /\ Garbled \in [Frame \X Frame -> Frame]

VARIABLES
    bridge, wire, queue, got, ended, recorder, interactions, sent,
    served,         \* per connection: frames the server has handled
    skipping,       \* the server ignores frames up to the next Sync
    told,           \* the server has described the statement it is running
    executed,       \* every statement run, in the order the server ran them
    known, asked,   \* the driver: names it holds, statements it means to run
    syncs,          \* the driver: ReadyForQuery awaited in all
    trips           \* ghost: round trips sent in all

proxyVars == <<bridge, wire, queue, got, ended, recorder, interactions, sent>>
serverVars == <<served, skipping, told, executed>>
driverVars == <<known, asked, syncs, trips>>
vars == <<proxyVars, serverVars, driverVars>>

Proxy == INSTANCE RecordingTcpProxy WITH
    Byte         <- {},         \* only Proxy!Environment, unused here, draws from it
    NewRecorder  <- NewPostgresRecorder,
    OnClientData <- onClientData,
    OnServerData <- onServerData,
    Completed    <- completed,
    Drained      <- drain

Init ==
    /\ Proxy!Init
    /\ served = [c \in Connection |-> 0]
    /\ skipping = [c \in Connection |-> FALSE]
    /\ told = [c \in Connection |-> FALSE]
    /\ executed = <<>>
    /\ known = [c \in Connection |-> [name \in StatementName |-> Unparsed]]
    /\ asked = [c \in Connection |-> <<>>]
    /\ syncs = [c \in Connection |-> 0]
    /\ trips = 0

HalvesOf(frames) == [k \in 1 .. 2 * Len(frames) |-> frames[(k + 1) \div 2]]

-----------------------------------------------------------------------------
(***************************************************************************)
(* The driver.  `syncs` counts the ReadyForQuery it expects; the one that  *)
(* ends the startup is the first.                                          *)
(***************************************************************************)

\* What a connection has received, without the single byte that answers an
\* SSLRequest.
AskedForTls(c) == sent[c]["up"] # <<>> /\ Head(sent[c]["up"]).type = "SSLRequest"
SslAnswered(c) == AskedForTls(c) /\ got[c]["down"] # <<>>
Received(c) == Decodable(IF SslAnswered(c) THEN Tail(got[c]["down"]) ELSE got[c]["down"])

Ready(c) == Cardinality({k \in DOMAIN Received(c) : Received(c)[k].type = "Z"})

\* The first message of a connection.
Opens(c) == Cardinality({d \in Connection : sent[d]["up"] # <<>>} \union {c}) <= MaxDriven

RequestTls(c) ==
    /\ c \in MayAskForTls /\ sent[c]["up"] = <<>> /\ Opens(c)
    /\ Proxy!Write(c, "up", Halves([type |-> "SSLRequest"]))
    /\ UNCHANGED <<serverVars, driverVars>>

Startup(c) ==
    /\ syncs[c] = 0 /\ (AskedForTls(c) => SslAnswered(c)) /\ Opens(c)
    /\ syncs' = [syncs EXCEPT ![c] = 1]
    /\ Proxy!Write(c, "up", Halves([type |-> "Startup"]))
    /\ UNCHANGED <<serverVars, known, asked, trips>>

Ask(c, trip) ==
    /\ IF c \in Pipelining THEN Ready(c) > 0 ELSE syncs[c] > 0 /\ Ready(c) = syncs[c]
    /\ trips < (IF AskedForTls(c) THEN MaxUnreadTrips
                ELSE IF c \in Pipelining THEN MaxAheadTrips ELSE MaxRoundTrips)
    /\ Sendable(known[c], trip)
    /\ Proxy!Write(c, "up", HalvesOf(FramesOf(trip)))
    /\ trips' = trips + 1
    /\ syncs' = [syncs EXCEPT ![c] = @ + 1]
    /\ known' = [known EXCEPT ![c] = KnownAfter(@, trip)]
    /\ asked' = [asked EXCEPT ![c] = @ \o Runs(trip)]
    /\ UNCHANGED serverVars

\* A driver ends its connection (Terminate, then the socket) when it has its answers.
Terminate(c) ==
    /\ syncs[c] > 0 /\ Ready(c) = syncs[c]
    /\ Proxy!End(c, "up")
    /\ UNCHANGED <<serverVars, driverVars>>

-----------------------------------------------------------------------------
(***************************************************************************)
(* The server handles one whole frame at a time.                           *)
(***************************************************************************)

RunOn(c) == {s \in DOMAIN executed : executed[s].on = c}

\* The statement a failing or executing frame stands for: a round trip runs one.
Statement(c) == asked[c][Cardinality(RunOn(c)) + 1]

Executed(c, failed, described) ==
    executed' = Append(executed, [on |-> c, call |-> Statement(c), bound |-> TRUE,
                                  failed |-> failed, described |-> described])

Rejected(c) ==
    executed' = Append(executed, [on |-> c, call |-> Statement(c), bound |-> FALSE,
                                  failed |-> TRUE, described |-> FALSE])

ErrorFrame == [type |-> "E", error |-> Len(executed) + 1]

RowFrames(sql) == IF sql \in Reads THEN <<[type |-> "D", row |-> Len(executed) + 1]>> ELSE <<>>

DoneFrame == [type |-> "C", tag |-> Len(executed) + 1]

ReadyFrame == [type |-> "Z"]

Description(sql) == IF sql \in Reads THEN <<[type |-> "T", columns |-> <<sql>>]>> ELSE <<>>

Reply(c, frames) == Proxy!Write(c, "down", HalvesOf(frames))

\* The frame the server handles next, once it has wholly arrived.
Due(c, type) ==
    /\ 2 * served[c] + 2 <= Len(got[c]["up"])
    /\ got[c]["up"][2 * served[c] + 2].type = type
    /\ served' = [served EXCEPT ![c] = @ + 1]

AnswerTls(c) ==
    /\ Due(c, "SSLRequest")
    /\ \E accepted \in BOOLEAN :
            Proxy!Write(c, "down", <<[type |-> "ssl", accepted |-> accepted]>>)
    /\ UNCHANGED <<skipping, told, executed>>

\* The end of the startup, and of a round trip.
AnswerSync(c) ==
    /\ Due(c, "Startup") \/ Due(c, "S")
    /\ Reply(c, <<ReadyFrame>>)
    /\ skipping' = [skipping EXCEPT ![c] = FALSE]
    /\ told' = [told EXCEPT ![c] = FALSE]
    /\ UNCHANGED executed

AnswerQuery(c) ==
    /\ Due(c, "Q")
    /\ LET sql == Statement(c)[1]
       IN  \/ /\ Reply(c, Description(sql) \o RowFrames(sql) \o <<DoneFrame, ReadyFrame>>)
              /\ Executed(c, FALSE, TRUE)
           \/ /\ Reply(c, <<ErrorFrame, ReadyFrame>>)
              /\ Executed(c, TRUE, FALSE)
    /\ UNCHANGED <<skipping, told>>

Skip(c) ==
    /\ \E type \in {"B", "D", "E", "C"} :
            Due(c, type) /\ (skipping[c] \/ type \in {"B", "C"})
    /\ UNCHANGED <<proxyVars, skipping, told, executed>>

\* A statement that does not parse, or does.
AnswerParse(c) ==
    /\ Due(c, "P")
    /\ \/ UNCHANGED <<proxyVars, skipping, executed>>
       \/ /\ Reply(c, <<ErrorFrame>>)
          /\ Rejected(c)
          /\ skipping' = [skipping EXCEPT ![c] = TRUE]
    /\ UNCHANGED told

AnswerDescribe(c) ==
    /\ ~ skipping[c] /\ Due(c, "D")
    /\ Reply(c, Description(Statement(c)[1]))
    /\ told' = [told EXCEPT ![c] = TRUE]
    /\ UNCHANGED <<skipping, executed>>

\* An execution can fail once it has sent its row.
AnswerExecute(c) ==
    /\ ~ skipping[c] /\ Due(c, "E")
    /\ LET sql == Statement(c)[1]
       IN  \/ /\ Reply(c, RowFrames(sql) \o <<DoneFrame>>)
              /\ Executed(c, FALSE, told[c])
              /\ UNCHANGED skipping
           \/ /\ Reply(c, RowFrames(sql) \o <<ErrorFrame>>)
              /\ Executed(c, TRUE, told[c])
              /\ skipping' = [skipping EXCEPT ![c] = TRUE]
    /\ UNCHANGED told

Server(c) ==
    /\ \/ AnswerTls(c) \/ AnswerSync(c) \/ AnswerQuery(c) \/ Skip(c)
       \/ AnswerParse(c) \/ AnswerDescribe(c) \/ AnswerExecute(c)
    /\ UNCHANGED driverVars

-----------------------------------------------------------------------------

Relay(c) ==
    /\ Proxy!Proxy(c) \/ \E d \in {"up", "down"} : Proxy!Take(c, d)
    /\ UNCHANGED <<serverVars, driverVars>>

Next ==
    \E c \in Connection :
        \/ RequestTls(c) \/ Startup(c) \/ Terminate(c)
        \/ \E trip \in RoundTrip : Ask(c, trip)
        \/ Server(c)
        \/ Relay(c)

\* The event loop serves both sockets, the peers take what is written to them and
\* the server answers what it has received: assumed of the connections that
\* EveryStatementRecorded speaks of.
Fairness ==
    \A c \in Connection \ Pipelining :
        /\ WF_vars(Proxy!ClientData(c) /\ UNCHANGED <<serverVars, driverVars>>)
        /\ WF_vars(Proxy!UpstreamData(c) /\ UNCHANGED <<serverVars, driverVars>>)
        /\ \A d \in {"up", "down"} :
               WF_vars(Proxy!Take(c, d) /\ UNCHANGED <<serverVars, driverVars>>)
        /\ WF_vars(Server(c))

Spec == Init /\ [][Next]_vars /\ Fairness

-----------------------------------------------------------------------------
(***************************************************************************)
(* Properties.                                                             *)
(***************************************************************************)

TypeOK ==
    /\ \A c \in Connection :
        /\ recorder[c].phase \in {"initial", "awaiting-ssl-reply", "running", "encrypted"}
        /\ recorder[c].prepared \in [StatementName -> Sql \union {Unparsed}]
        /\ recorder[c].sql \in Sql \union {NoSql}
        /\ recorder[c].params \in Params
        /\ recorder[c].completed = <<>>
        /\ Len(recorder[c].serverBuffer) < 2
    /\ \A k \in DOMAIN interactions :
        /\ interactions[k].sql \in Sql
        /\ interactions[k].params \in Params
        /\ interactions[k].result.rows \in Seq(Nat)

\* What the server answered to its s-th statement, as a recording should hold it.
ResultOf(s) ==
    LET sql == executed[s].call[1]
    IN  IF executed[s].failed THEN Failure(s)
        ELSE IF sql \in Reads THEN Result(IF executed[s].described THEN <<sql>> ELSE <<>>, <<s>>, s)
        ELSE Result(<<>>, <<>>, s)

\* A statement rejected by Parse may have been answered before its Bind was read, and
\* is then recorded with the parameters of an earlier one.
IsRecordOf(k, s) ==
    /\ interactions[k].sql = executed[s].call[1]
    /\ executed[s].bound => interactions[k].params = executed[s].call[2]
    /\ interactions[k].result = ResultOf(s)

\* A connection whose driver has asked for TLS and then sent more than a misread
\* StartupMessage takes in: what the recorder reads of it from there on is anything.
Astray(c) == AskedForTls(c) /\ Len(sent[c]["up"]) >= MisreadLength + 2

\* postgresRecorder.ts:2, "Pairs SQL statements with their result sets": an
\* interaction is a statement some client ran, with its parameters and the result the
\* server gave it, whole: statements prepared once and run again, parse errors, rows
\* followed by an error and chunks cut anywhere included.  Where a driver pipelines,
\* the result is still one the server gave it, but the statement and the parameters
\* are only some it sent, not always together: a Parse is read before its Bind.  Of a
\* connection gone astray only the tag or the error is the server's: its statement may
\* never have been sent, and its rows be those of several.
PairsAreRealUnlessPipelined ==
    \A k \in DOMAIN interactions : \E s \in DOMAIN executed :
        LET c == executed[s].on
        IN  \/ IsRecordOf(k, s)
            \/ /\ c \in Pipelining /\ interactions[k].result = ResultOf(s)
               /\ \E m, n \in DOMAIN asked[c] :
                       /\ interactions[k].sql = asked[c][m][1]
                       /\ interactions[k].params \in {NoParams, asked[c][n][2]}
            \/ Astray(c) /\ s \in {interactions[k].result.tag, interactions[k].result.error}

\* Where neither TLS nor pipelining is in play.
Readable(c) == ~ AskedForTls(c) /\ c \notin Pipelining

\* A ReadyForQuery the driver has seen means every statement before it is recorded,
\* in the order the connection ran them; and where no connection goes astray there are
\* never more interactions than statements run, so none is recorded twice.
AnsweredIsRecorded ==
    /\ (\A c \in Connection : ~ Astray(c)) => Len(interactions) <= Len(executed)
    /\ \A c \in Connection : Readable(c) /\ Ready(c) = syncs[c] =>
        \E position \in [RunOn(c) -> DOMAIN interactions] :
            /\ \A s \in RunOn(c) : IsRecordOf(position[s], s)
            /\ \A s, t \in RunOn(c) : s < t => position[s] < position[t]

\* Every statement that is run is recorded in the end, unless its connection closes, has
\* asked for TLS or pipelines.
EveryStatementRecorded ==
    \A c \in Connection :
        []<>(\/ bridge[c] = "closed" \/ ~ Readable(c)
             \/ \A s \in RunOn(c) : \E k \in DOMAIN interactions : IsRecordOf(k, s))

=============================================================================
