--------------------------- MODULE PostgresReplay ---------------------------
(***************************************************************************)
(* The Postgres replay server, src/replay/postgresReplayServer.ts, and the *)
(* DivergenceTracker it reports to: one PostgresReplay object shared by    *)
(* every connection, one Session per connection.                           *)
(*                                                                         *)
(* The data handler works through whole frames one after another and keeps *)
(* a partial one for the next chunk, so a chunk of several frames leaves   *)
(* the server where the same frames in chunks of their own would; a step   *)
(* below is the handler run on a chunk that completes one frame.           *)
(*                                                                         *)
(* A client sends the frames of a driver's round trip in one go and may    *)
(* send the next before the answer, so frames of several round trips wait  *)
(* on a socket.  Sql holds statements already normalised for whitespace.   *)
(***************************************************************************)
EXTENDS Naturals, Sequences, FiniteSets, Divergence, PostgresDriver

CONSTANTS
    Connection,
    Sql,            \* normalised statement texts
    NoSql,          \* the empty text a Session starts with
    Params,         \* bound parameter lists
    StatementName,
    Result,         \* recorded results: columns, rows, tag or error
    NoRecording,    \* the error answering a statement nobody recorded
    RecordedExact,  \* [Sql \X Params -> Seq(Result)]: bySignature as constructed
    RecordedLoose,  \* [Sql -> Seq(Result)]: bySql as constructed
    RoundTrip,      \* what drivers send
    MaxRoundTrips   \* bound: round trips in one behaviour

ASSUME RecordedAssumption ==
    /\ RecordedExact \in [Sql \X Params -> Seq(Result)]
    /\ RecordedLoose \in [Sql -> Seq(Result)]
    /\ NoRecording \notin Result

\* The constructor files every interaction under its text as well.
ASSUME FiledAssumption ==
    \A sql \in Sql, params \in Params :
        RecordedExact[<<sql, params>>] # <<>> => RecordedLoose[sql] # <<>>

ASSUME RoundTripAssumption ==
    RoundTrip \subseteq
        [kind : {"simple"}, sql : Sql]
            \union [kind : {"close"}, name : StatementName]
            \union [kind : {"extended"}, name : StatementName, sql : Sql, params : Params,
                    parse : BOOLEAN, describe : BOOLEAN]

ASSUME AboutAssumption ==
    \A sql \in Sql : About[sql].write \in BOOLEAN /\ About[sql].read \in BOOLEAN
                                                /\ About[sql].volatile \in BOOLEAN

ASSUME SessionAssumption ==
    /\ NoSql \in Sql /\ NoParams \in Params
    /\ Unnamed \in StatementName /\ Unparsed \notin Sql

ASSUME MaxRoundTripsAssumption == MaxRoundTrips \in Nat

VARIABLES
    bySignature, bySql,         \* the replies left, per signature and per text
    matchedCount, missing,
    writtenTables, warnings,    \* the tracker
    session,                    \* per connection: prepared, sql, params, started
    wire,                       \* frames sent and not yet handled
    known,                      \* client: statement names it has parsed
    asked,                      \* ghost: statements the client means to run
    executed,                   \* ghost: statements run on this connection
    described,                  \* ghost: lists a Describe has looked into
    history,                    \* ghost: every execution and its answer
    trips                       \* ghost: round trips sent in all

lists == <<bySignature, bySql>>
totals == <<matchedCount, missing, writtenTables, warnings>>
clientVars == <<known, asked, trips>>
vars == <<lists, totals, session, wire, clientVars, executed, described, history>>

NothingParsed == [name \in StatementName |-> Unparsed]

NewSession ==
    [prepared |-> NothingParsed, sql |-> NoSql, params |-> NoParams, started |-> FALSE]

Init ==
    /\ bySignature = RecordedExact
    /\ bySql = RecordedLoose
    /\ matchedCount = 0
    /\ missing = {}
    /\ writtenTables = {}
    /\ warnings = <<>>
    /\ session = [c \in Connection |-> NewSession]
    /\ wire = [c \in Connection |-> <<>>]
    /\ known = [c \in Connection |-> NothingParsed]
    /\ asked = [c \in Connection |-> <<>>]
    /\ executed = [c \in Connection |-> <<>>]
    /\ described = {}
    /\ history = <<>>
    /\ trips = 0

-----------------------------------------------------------------------------
(***************************************************************************)
(* The constructor: each Postgres interaction is filed twice, under its    *)
(* text with its parameters and under its text alone.                      *)
(***************************************************************************)

Results(own) == [k \in DOMAIN own |-> own[k].result]

FiledExact(interactions) ==
    [call \in Sql \X Params |->
        Results(SelectSeq(interactions,
            LAMBDA i : i.protocol = "postgres" /\ <<i.sql, i.params>> = call))]

FiledLoose(interactions) ==
    [sql \in Sql |->
        Results(SelectSeq(interactions, LAMBDA i : i.protocol = "postgres" /\ i.sql = sql))]

-----------------------------------------------------------------------------
(***************************************************************************)
(* The client: startup, then round trips, pipelined or not.                *)
(***************************************************************************)

\* The client waits for each answer of the startup before it goes on.
Greet(c, type) ==
    /\ ~ session[c].started /\ wire[c] = <<>>
    /\ wire' = [wire EXCEPT ![c] = <<[type |-> type]>>]
    /\ UNCHANGED <<lists, totals, session, clientVars, executed, described, history>>

Ask(c, trip) ==
    /\ session[c].started /\ trips < MaxRoundTrips /\ Sendable(known[c], trip)
    /\ trips' = trips + 1
    /\ wire' = [wire EXCEPT ![c] = @ \o FramesOf(trip)]
    /\ known' = [known EXCEPT ![c] = KnownAfter(@, trip)]
    /\ asked' = [asked EXCEPT ![c] = @ \o Runs(trip)]
    /\ UNCHANGED <<lists, totals, session, executed, described, history>>

\* The socket ends or errors: the session goes, the PostgresReplay object stays.
Disconnect(c) ==
    /\ session[c].started
    /\ session' = [session EXCEPT ![c] = NewSession]
    /\ wire' = [wire EXCEPT ![c] = <<>>]
    /\ known' = [known EXCEPT ![c] = NothingParsed]
    /\ asked' = [asked EXCEPT ![c] = <<>>]
    /\ executed' = [executed EXCEPT ![c] = <<>>]
    /\ UNCHANGED <<lists, totals, described, history, trips>>

-----------------------------------------------------------------------------
(***************************************************************************)
(* PostgresReplay: lookup, peek and resultFor.                             *)
(***************************************************************************)

\* The list a call is looked up in: its signature's, or its text's as a fallback.
ListOf(sql, params) == IF bySignature[<<sql, params>>] # <<>> THEN <<sql, params>> ELSE <<sql>>

RepliesLeft(list) == IF Len(list) = 2 THEN bySignature[list] ELSE bySql[list[1]]

\* Mutants: the last reply goes too, replies come round again, none is taken.
RestToNothing(replies) == IF replies # <<>> THEN Tail(replies) ELSE replies
RestRotated(replies)   == IF Len(replies) > 1 THEN Append(Tail(replies), Head(replies)) ELSE replies
RestUntouched(replies) == replies

\* shift() while more than one reply is left.
Rest(replies) == IF Len(replies) > 1 THEN Tail(replies) ELSE replies

lookup(sql, params) ==
    IF bySignature[<<sql, params>>] # <<>>
    THEN bySignature' = [bySignature EXCEPT ![<<sql, params>>] = Rest(@)] /\ UNCHANGED bySql
    ELSE bySql' = [bySql EXCEPT ![sql] = Rest(@)] /\ UNCHANGED bySignature

\* The lookup of a Describe, which the statistics and the tracker do not see.
peek(sql, params) ==
    /\ lookup(sql, params)
    /\ described' = described \union {ListOf(sql, params)}

Found(sql, params) == RepliesLeft(ListOf(sql, params)) # <<>>

resultFor(sql, params) ==
    /\ lookup(sql, params)
    /\ warnings' = WarningsAfter(warnings, writtenTables, sql, Found(sql, params))
    /\ writtenTables' = WrittenAfter(writtenTables, sql)
    /\ IF Found(sql, params)
       THEN matchedCount' = matchedCount + 1 /\ UNCHANGED missing
       ELSE missing' = missing \union {sql} /\ UNCHANGED matchedCount

\* The recorded result, rows or error, or the error that says there is none.
answerFor(c, sql, params) ==
    /\ resultFor(sql, params)
    /\ history' = Append(history,
            [sig   |-> ListOf(sql, params),
             reply |-> IF Found(sql, params) THEN Head(RepliesLeft(ListOf(sql, params)))
                       ELSE NoRecording])
    /\ executed' = [executed EXCEPT ![c] = Append(@, <<sql, params>>)]

-----------------------------------------------------------------------------
(***************************************************************************)
(* The server's handlers, one per frame type.                              *)
(***************************************************************************)

Arrived(c, type) == wire[c] # <<>> /\ Head(wire[c]).type = type

Consume(c) == wire' = [wire EXCEPT ![c] = Tail(@)]

handleStartup(c) ==
    /\ ~ session[c].started
    /\ \/ Arrived(c, "SSLRequest") /\ UNCHANGED session    \* refused with 'N'
       \/ Arrived(c, "Startup") /\ session' = [session EXCEPT ![c].started = TRUE]
    /\ Consume(c)
    /\ UNCHANGED <<lists, totals, clientVars, executed, described, history>>

Query(c) ==
    /\ Arrived(c, "Q")
    /\ LET sql == Head(wire[c]).sql
       IN  /\ session' = [session EXCEPT ![c].sql = sql, ![c].params = NoParams]
           /\ answerFor(c, sql, NoParams)
    /\ UNCHANGED described

Parse(c) ==
    /\ Arrived(c, "P")
    /\ LET frame == Head(wire[c])
       IN  session' = [session EXCEPT ![c].prepared[frame.name] = frame.sql,
                                      ![c].sql = frame.sql]
    /\ UNCHANGED <<lists, totals, executed, described, history>>

\* Mutant: Bind takes the statement parsed last, whatever name it gives.
BindLastParsed(c) ==
    /\ Arrived(c, "B")
    /\ session' = [session EXCEPT ![c].params = Head(wire[c]).params]
    /\ UNCHANGED <<lists, totals, executed, described, history>>

Bind(c) ==
    /\ Arrived(c, "B")
    /\ LET frame    == Head(wire[c])
           prepared == session[c].prepared[frame.name]
       IN  session' = [session EXCEPT ![c].sql = IF prepared = Unparsed THEN @ ELSE prepared,
                                      ![c].params = frame.params]
    /\ UNCHANGED <<lists, totals, executed, described, history>>

Describe(c) ==
    /\ Arrived(c, "D")
    /\ peek(session[c].sql, session[c].params)
    /\ UNCHANGED <<totals, session, executed, history>>

Execute(c) ==
    /\ Arrived(c, "E")
    /\ answerFor(c, session[c].sql, session[c].params)
    /\ UNCHANGED <<session, described>>

\* Mutant: Close forgets the current statement as well.
OtherForgetting(c) ==
    /\ Arrived(c, "S") \/ Arrived(c, "C")
    /\ session' = IF Arrived(c, "C") THEN [session EXCEPT ![c].sql = Unparsed] ELSE session
    /\ UNCHANGED <<lists, totals, executed, described, history>>

\* Sync is answered and any other type is not; neither changes anything.
Other(c) ==
    /\ Arrived(c, "S") \/ Arrived(c, "C")
    /\ UNCHANGED <<lists, totals, session, executed, described, history>>

handleFrame(c) ==
    /\ session[c].started
    /\ Query(c) \/ Parse(c) \/ Bind(c) \/ Describe(c) \/ Execute(c) \/ Other(c)
    /\ Consume(c)
    /\ UNCHANGED clientVars

-----------------------------------------------------------------------------

Next ==
    \E c \in Connection :
        \/ \E type \in {"SSLRequest", "Startup"} : Greet(c, type)
        \/ \E trip \in RoundTrip : Ask(c, trip)
        \/ Disconnect(c)
        \/ handleStartup(c)
        \/ handleFrame(c)

Spec == Init /\ [][Next]_vars

-----------------------------------------------------------------------------
(***************************************************************************)
(* Properties.                                                             *)
(***************************************************************************)

\* A list is named by its signature <<sql, params>> or by its text <<sql>>.
ListName == (Sql \X Params) \union {<<sql>> : sql \in Sql}

Frame ==
    [type : {"SSLRequest", "Startup", "D", "E", "S"}]
        \union [type : {"Q"}, sql : Sql]
        \union [type : {"P"}, name : StatementName, sql : Sql]
        \union [type : {"B"}, name : StatementName, params : Params]
        \union [type : {"C"}, name : StatementName]

SessionState == [prepared : [StatementName -> Sql \union {Unparsed}],
                 sql : Sql, params : Params, started : BOOLEAN]

Kept == [kind : {"stale-read", "non-deterministic"},
         statement : {About[sql].text : sql \in Sql}]

TypeOK ==
    /\ bySignature \in [Sql \X Params -> Seq(Result)]
    /\ bySql \in [Sql -> Seq(Result)]
    /\ matchedCount \in Nat
    /\ missing \in SUBSET Sql
    /\ writtenTables \in SUBSET {About[sql].table : sql \in Sql}
    /\ warnings \in Seq(Kept)
    /\ session \in [Connection -> SessionState]
    /\ wire \in [Connection -> Seq(Frame)]
    /\ known \in [Connection -> [StatementName -> Sql \union {Unparsed}]]
    /\ asked \in [Connection -> Seq(Sql \X Params)]
    /\ executed \in [Connection -> Seq(Sql \X Params)]
    /\ described \in SUBSET ListName
    /\ history \in Seq([sig : ListName, reply : Result \union {NoRecording}])
    /\ trips \in Nat

\* What the recording says of a list.
RecordedIn(list) == IF Len(list) = 2 THEN RecordedExact[list] ELSE RecordedLoose[list[1]]

\* postgresReplayServer.ts:125-130 with :183-195: however round trips are pipelined
\* and statements prepared, reused, closed and prepared again, a connection runs
\* the statements its client meant, with their own parameters, in order.
ExecutesWhatWasAsked ==
    \A c \in Connection :
        /\ Len(executed[c]) <= Len(asked[c])
        /\ \A n \in DOMAIN executed[c] : executed[c][n] = asked[c][n]

\* A recorded statement never falls off the end of its recording, and a text the
\* recording does not hold is answered with an error and named in the summary.
ErrorOnlyForTheUnrecorded ==
    /\ \A k \in DOMAIN history :
        history[k].reply = NoRecording <=> RecordedLoose[history[k].sig[1]] = <<>>
    /\ missing = {history[k].sig[1] :
                    k \in {j \in DOMAIN history : history[j].reply = NoRecording}}
    /\ matchedCount = Cardinality({k \in DOMAIN history : history[k].reply # NoRecording})

\* The replies of one list are served from its head on: none is served after a
\* later one, even where a Describe has taken some of them away.
NeverGoesBack ==
    \A k \in DOMAIN history : \A j \in 1 .. k :
        history[j].sig = history[k].sig /\ history[k].reply # NoRecording =>
            LET recorded == RecordedIn(history[k].sig)
            IN  \E a \in DOMAIN recorded : \E b \in a .. Len(recorded) :
                    recorded[a] = history[j].reply /\ recorded[b] = history[k].reply

Service == INSTANCE ReplayService WITH
    Signature <- ListName,
    Reply     <- Result,
    Recorded  <- [list \in ListName |-> RecordedIn(list)]

CallNumber(k) == Cardinality({j \in 1 .. k : history[j].sig = history[k].sig})

\* README.md:33 where no Describe looked into a list: its replies are those of the
\* abstract service, in recorded order, one per execution, the last one repeating.
InOrderUnlessDescribed ==
    \A k \in DOMAIN history :
        history[k].sig \notin described =>
            history[k].reply = Service!Promised(history[k].sig, CallNumber(k))

\* README.md:33, "Repeated calls replay in recorded order: a counter that returned
\* 1 then 2 replays as 1 then 2."
RecordedOrder ==
    \A k \in DOMAIN history :
        history[k].reply = Service!Promised(history[k].sig, CallNumber(k))

SqlOf(k) == history[k].sig[1]

WrittenBefore(k) ==
    {About[SqlOf(j)].table : j \in {i \in 1 .. k - 1 : About[SqlOf(i)].write}}

LostWrites == {k \in DOMAIN history : About[SqlOf(k)].write /\ history[k].reply = NoRecording}

LateReads == {k \in DOMAIN history :
                /\ About[SqlOf(k)].read /\ ~ About[SqlOf(k)].write
                /\ About[SqlOf(k)].table \in WrittenBefore(k) \ {NoTable}}

LostBefore(k) == {About[SqlOf(j)].table : j \in {i \in LostWrites : i < k}}

\* A read that follows a lost write to its table, and one that follows only writes
\* which the recording holds, as it holds the rows read after them.
StaleReads  == {k \in LateReads : About[SqlOf(k)].table \in LostBefore(k)}
EchoedReads == {k \in LateReads : About[SqlOf(k)].table \notin LostBefore(k)}

VolatileOnly == {k \in DOMAIN history \ (LostWrites \union LateReads) : About[SqlOf(k)].volatile}

Warning(kind, k) == [kind |-> kind, statement |-> About[SqlOf(k)].text]

\* divergence.ts:10-12: over all connections, the warnings are those of the writes
\* that changed nothing, the reads that follow one, the echoed reads, and the other
\* non-deterministic statements: none missing, none of anything else, none twice.  Those
\* of the echoed reads are what mongoAndDivergence.test.ts:203-209 asks for and what the
\* comment at divergence.ts:43-45 calls noise and says is not raised.
WarningsAreExact ==
    /\ {warnings[n] : n \in DOMAIN warnings} =
            {Warning("stale-read", k) : k \in LostWrites \union StaleReads \union EchoedReads}
                \union {Warning("non-deterministic", k) : k \in VolatileOnly}
    /\ \A m, n \in DOMAIN warnings : warnings[m] = warnings[n] => m = n

=============================================================================
