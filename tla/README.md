# Verification of cognivox-record

`cvx record` runs an app behind a set of proxies and writes what passed through them: an
HTTP archive of the calls it received and made, and a list of the interactions it had with
its databases. `cvx replay` runs the same app against servers that answer from that list.
This directory holds TLA+ models of the program, the TLC configurations that check them on
small instances, and theorems proved with TLAPS.

A path below is relative to the repository. `PROJECT.json` maps every definition to the
lines it models, lists the hazards with the properties that cover them, and gives for each
property a mutation of the code that breaks it.

    tlc -workers 2 -config MCRedisReplay.cfg MCRedisReplay.tla
    tlapm RedisReplayProofs.tla

## 1. The system

| part | source | state it keeps | operations |
|---|---|---|---|
| record session | `src/record/session.ts` | servers listening, child, timer, `exchanges`, `interactions` | start, spawn, pass on signals, write the capture |
| redirection | `src/record/dependencyEnv.ts` | none (the environment it plans) | which variable leads to which local port |
| HTTP relays | `src/record/ingressProxy.ts`, `egressProxy.ts`, `tls/httpsInterceptor.ts` | per call: two streams, two captures | relay a call, make an exchange of it |
| body capture | `src/record/bodyBuffer.ts` | retained bytes, totals | keep a body up to a limit while forwarding it |
| TCP recording proxy | `src/record/tcp/recordingTcpProxy.ts` | per connection: two sockets, one recorder; all: `interactions` | relay bytes, feed the recorder, flush it |
| Redis / Postgres / Mongo recorders | `src/record/protocols/*Recorder.ts` and codecs | buffers of partial messages, what waits for an answer | pair requests with answers |
| Postgres TLS proxy | `src/record/tls/postgresTlsProxy.ts` | per connection: two handshakes, a recorder | upgrade both sides, record in between |
| replay servers | `src/replay/{redis,postgres,mongo}ReplayServer.ts` | recorded answers by request, per-connection buffers and sessions, statistics | answer from the recording |
| divergence tracker | `src/replay/divergence.ts` | tables written, warnings | say where a replay may differ from a run |
| replay session | `src/replay/session.ts` | servers by protocol | start servers, spawn the app |
| certificate authority | `src/record/tls/certificateAuthority.ts` | CA and leaf files shared by all recordings of a user; per session a leaf cache | make certificates, say which clients trust them |
| Node proxy shim | `src/record/nodeProxyShim.ts` | none | send an app's requests to the egress proxy |
| HAR export | `src/record/exchange.ts` | none | an entry of each exchange |
| command line | `src/bin.ts`, `src/index.ts`, `src/commands/`, `src/ui.ts` | none | options, printing |

How they interact. The session starts the ingress and egress relays and one proxy per
redirected variable, gives the app an environment that leads to them, and then only
receives callbacks: `onExchange` from a relay, `onInteraction` from a proxy. All handlers
run on one event loop, so a handler is atomic; what interleaves is the order in which
sockets, timers and the child's exit event are served. A TCP proxy hands every chunk to a
recorder *before* it writes it on and appends what the recorder completed to the list that
all connections share, so the order of interactions is the order of answers at the proxy.
The replay servers group the same list by request and take the head of a group per call;
one such table serves every connection.

What is hard here: a chunk may end anywhere in a message; commands are pipelined and answers
are told apart only by position (Redis, Postgres) or by id (Mongo); prepared statements are
per-connection state read long after it was written; two handshakes finish in either order;
either body of a call may end first, or break off; the app exits while its last bytes are
still in sockets; a signal, a grace timer and the exit event race; a value changes type on its
way through BSON, JavaScript and JSON; several recordings share the files of one certificate
authority, and any of them may be killed between two of the files; a call is written in a dozen
forms, and must lead to the one server it names. The `hazards` of
`PROJECT.json` list these at their lines.

## 2. The modules

| module | models | composed of |
|---|---|---|
| `ReplayService` | what a replay server promises: recorded order per request, the last answer repeating, an error for the rest | |
| `RedisReplay` | `redisReplayServer.ts` | `Resp`, `Chunks`; implements `ReplayService` |
| `PostgresReplay` | `postgresReplayServer.ts` | `Divergence`, `PostgresDriver`; each answer list is an instance of `ReplayService` where no Describe reads it |
| `RecordingTcpProxy` | `bridge()` for any recorder (the recorder's operators are CONSTANTs) | |
| `RedisRecording` | clients, proxy, recorder, Redis server | `RecordingTcpProxy` with `RedisRecorder` |
| `PostgresRecording` | drivers, proxy, recorder, Postgres server | `RecordingTcpProxy` with `PostgresRecorder` |
| `Bson` | `bson.ts`: BSON as JavaScript values, their JSON, and back | |
| `MongoRoundTrip` | a session recorded and then replayed | `MongoRecorder`, `MongoReplay`, both over `Bson` |
| `HttpRelay` | `relay()`, which three files share | `BodyCapture` |
| `RecordSession` | `runRecordSession`, and the file of `exchange.ts` | `HttpRelay` |
| `PostgresTlsProxy` | `postgresTlsProxy.ts` | |
| `CertificateAuthority` | `certificateAuthority.ts`, for several recordings at a time | |
| `OutgoingCalls` | `nodeProxyShim.ts`, the target and CONNECT of `egressProxy.ts`, the certificate and target of `httpsInterceptor.ts` | `CertificateAuthority` |
| `Redirection` | `planRedirects`, the start of both sessions, the app's environments, and the calls the app makes | `OutgoingCalls` |
| `RedisReplayProofs`, `PostgresReplayProofs`, `RecordingTcpProxyProofs`, `RedisRecordingProofs`, `PostgresRecordingProofs`, `RecordSessionProofs`, `PostgresTlsProxyProofs`, `RedirectionProofs` | theorems | `RedisRecordingProofs` and `PostgresRecordingProofs` take an instance of `RecordingTcpProxyProofs`; `RedirectionProofs` also holds the theorem about the certificates |
| `PostgresRecordingInvariant` | the invariant of `PostgresRecordingProofs` | `PostgresRecording` |

`Chunks` cuts a stream of values into halves: a value is its first and its second half, a
chunk is any number of halves, so a chunk may end inside a value, begin inside one, or hold
several. Parsers that buffer what is incomplete can go wrong there and nowhere else. `Resp`
says which values decode to a command and what an unsupported reply becomes. `PostgresDriver`
holds the frames of a driver's round trips: simple query, Parse/Bind/Execute with or without
Describe, a prepared statement run again, one closed. `MC*` modules give the constants
their values.

### State and actions against the code

*RedisReplay.* `Recorded` and `next` are the recorded sequences and how many answers each has
given, `matchedCount` and `missing` the statistics, `buffered[c]` and `offset` the buffer of a
connection and the position of its decode loop. The 'data' handler is `Data` (takes the event
loop), one `Decode` per iteration, `Return` (keeps the rest and gives the loop back);
`running` names the connection on the stack. `history` is a ghost: every answer in order.
A client pipelines, disconnects and connects again.

*PostgresReplay.* `bySignature` (exact: text and parameters) and `bySql` (loose: text) are the
two stores; an execution takes from the exact one if it has the signature, else from the loose
one. `session[c]` holds what the connection parsed and bound. One action per frame type:
`handleStartup`, `Query`, `Parse`, `Bind`, `Describe`, `Execute`, `Other`. `totals` are the
statistics and the tracker's tables and warnings. `described` and `history` are ghosts. The reads
behind a write of the run are of two kinds: `StaleReads` follow a write the replay lost,
`EchoedReads` only writes the recording holds, and the code warns of both.

*RecordingTcpProxy.* `wire` is what was written and not read, `queue` what the proxy read and
not yet wrote out, `got` what arrived, `ended` which ends have been sent. `ClientData` and
`UpstreamData` are the two data handlers, `OnEnd`, `OnError` and `close` the rest of `bridge`.
Where a recorder throws, `safely()` catches it and the chunk is still relayed; the recorder stays
in use, in whatever state the throw left it, which is what `OnClientData` and `OnServerData` stand for.

*RedisRecording, PostgresRecording.* The recorders' fields keep their names in
`recorder[c]`. The server is external: it answers in order with values no two of which are
alike, which lets a property say *the* answer to a command. Redis servers also push to a
connection that has subscribed, and on one that speaks RESP3 answer with a set, which the decoder
takes for two values. Postgres servers answer per frame, reject what does not parse,
skip to the next Sync after an error, and refuse TLS where it was asked for. After a refusal the
recorder reads the driver's StartupMessage as a frame, whose length is made of that message's length and
version: it takes in `MisreadLength` elements, and when the driver has sent that many reading resumes
wherever it ended. An element begins a frame there that may be made of the halves of two others, which
`Garbled` says what they are read as. Such a connection is `Astray`.

*Bson.* A BSON value has its type; `readElement` makes a JavaScript value of it, `Json` is its way
through the recording, and `encodeElement` chooses a BSON type again. Every type the codec
knows is there, one it does not know (`unknown`), and the integers' widths as parameters.

*MongoRoundTrip.* `setup` is an app and its database; `phase` is "record", then "replay". A
message is an opcode and sections, the second of them a document sequence. The server answers in
any order, writes messages that answer nothing, and does not answer unacknowledged writes. What the
recorder cannot read throws, and what was behind it in the chunk is lost with it (`missed`).
`replay` is the `MongoReplay` built from what the recorder completed: `byCommand`, answers per
signature, the handshake and the housekeeping commands answered without a recording, replies in
the form of the request, and a process that a throw in its handler ends (`crashed`).

*HttpRelay, RecordSession.* `call[x]` has the state of the two bodies and their captures; the
actions are the events Node delivers to `relay()`. `sent` is a ghost: what each side wrote.
`session`, `child`, `forceTimer`, `har` and `dependencies` are the session's; the app's death
and the exit event are two steps, since what its sockets hold may be read in between. Calls still
in flight go on after the files are written. A body that breaks off rejects a promise nobody
handles, which ends the recorder (`crashed`). `toHar` makes the file of the exchanges: an entry
keeps the bodies and sizes, everything else about it stands in the call it comes from.

*PostgresTlsProxy.* `client[c]` and `upstream[c]` are the stages of the two sides,
`pending`/`interactions` the recorder reduced to positions, `failures` the set that names
connections. A client closes its socket at any stage (`ClientEnds`: "left" under TLS, where no listener
hears it and the upgrade goes on; "closed" in plaintext), and so does a database (`DatabaseEnds`), also
instead of answering the SSLRequest, which is neither 'data' nor 'error' to the proxy.

*CertificateAuthority.* `caKey`, `caCrt`, `leafKey`, `leafCsr` and `leafCrt` are the files, a key
pair being a number; each run of openssl is one step, may fail, and the recorder may be killed
before the next (`Ends`). `Ensure(s)` is `ensureCertificateAuthority`, `Trust` what the app is told,
`leafCertificateFor` and its steps the making and caching of a host's certificate. `execFileSync`
keeps a session's event loop, so a session does one of these at a time; sessions interleave.
`contended` is a ghost: two sessions were writing the same files at a time.

*OutgoingCalls.* `outgoing` is the call under way: its stage (in the shim, at the egress proxy, in a
tunnel, in the handshake, decrypted), the request line it has become, and its result: what it
reached, what it is recorded as, or the host that is named as unread and why. `toOptions`,
`shouldProxy`, `told` and `sni` are the shim's; `Relay`, `Tunnel` and `handleConnect` the egress
proxy's; `SNICallback`, `Handshake` and `targetOf` the interceptor's. A client that is not Node reads
the proxy variables, and may be pinned.

*Redirection.* One phase after the other: the CA is made if openssl is there, the record session's
servers listen, the child is spawned with `childEnvironment`, uses its variables or makes calls,
exits; the replay servers start for `protocolsIn` the capture, the app is spawned again. `setup` is
chosen at `Init`: an environment and calls, and other recordings on the machine.

## 3. The runs

| run | configuration | what it checks |
|---|---|---|
| `redis_replay` | `MCRedisReplay.cfg` | `RepliesMatchPositions`: the n-th reply on a socket is one for its n-th command, until the client sends an inline one (§7). `StatsAgree`: every call counted once, the unrecorded named. `NothingStuck`: no whole command waits in a buffer between handlers. `AnswersFollowTheRecording`: filing and serving, against the recording itself. `ImplementsReplayService` (refinement). `EveryCommandAnswered` (liveness): all commands but the inline ones get a reply |
| `postgres_replay` | `MCPostgresReplay.cfg` | `ExecutesWhatWasAsked`: a connection runs the statements its driver meant, with their parameters, whatever was prepared, closed and pipelined. `ErrorOnlyForTheUnrecorded`. `NeverGoesBack`: no list is served backwards. `InOrderUnlessDescribed`: recorded order where no Describe looked into the list. `WarningsAreExact`: a warning for each lost write, each read behind a write, recorded writes included (§7), and each other volatile statement, none missing, none of anything else, none doubled |
| `postgres_describe` | `MCPostgresDescribe.cfg` | violation of `RecordedOrder`, see §7 |
| `redis_recording` | `MCRedisRecording.cfg` | `RelayIsExact`; `OnlyStraysMispair`: a recorded answer is the command's own unless the server wrote to the connection what answers no command, a push or the members of a RESP3 aggregate; `SeenIsRecorded`: what a client has read is recorded, once; `RecordedInCausalOrder` over connections; `EveryCommandRecorded` (liveness) |
| `postgres_recording` | `MCPostgresRecording.cfg` | `PairsAreRealUnlessPipelined`: an interaction is a statement somebody ran with its whole result, as far as that is so of a driver that pipelines and of a connection gone astray; `AnsweredIsRecorded`: ReadyForQuery seen means everything before it is recorded, in order, and while no connection is astray nothing is recorded twice; `EveryStatementRecorded` (liveness) |
| `record_session` | `MCRecordSession.cfg` | `BodyIsWholeOrAbsent`: a recorded body is what was sent or nothing, never a prefix; `RecordedOnceWhole`: an exchange exactly for the calls relayed to the end; `CaptureOutlivesTheApp`: the files hold all that completed before the app died, every entry with its bodies and sizes as they were sent; `StopIsHonoured` (liveness) |
| `record_abort` | `MCRecordAbort.cfg` | violation of `CaptureIsWritten`, see §7 |
| `postgres_tls` | `MCPostgresTls.cfg` | `NothingLostInTheUpgrade`: what a client writes while the database's side is being upgraded arrives, in order; `TlsIsRecorded`; `UnrecordedIsNamed`: a client the proxy disconnects before it was recorded is named, and no other; one that closes by itself is not (§7); `UpgradeSettles` (liveness): nobody waits for ever for a database that cannot be reached, refuses or fails, only for one that says nothing |
| `postgres_plain` | `MCPostgresPlain.cfg` | violation of `AnswersAreRecorded`, see §7 |
| `mongo_round_trip` | `MCMongoRoundTrip.cfg` | `PairedById`: answers out of order still pair, with the whole of their command, document sequences included, and an unreadable message costs only what was behind it in its chunk; `ReplayRepeatsTheRecording`: the n-th call replays the n-th answer, from the database to the replayed app, through every conversion and in the form it was asked in, for signatures that did not overlap; `MissesAreNamed` |
| `redirection` | `MCRedirection.cfg` | `AddressesLeadToServers`: every address given to the app, recorded or replayed, is one of a server already listening for that purpose, and nothing else is changed. `CallsAreCaptured`: whatever form a call takes, it reaches the server it names and is recorded under that address, or is https and named as unread for a reason that holds; no call at all is recorded under an address it did not reach |
| `replayed_variables` | `MCReplayedVariables.cfg` | violation of `SameVariablesAreReplayed`, see §7 |

Each passing run also checks its module's `TypeOK`. Deadlock is not checked: in every instance
the clients may have said all they want to, the session may be over, and the system then
rightly stops.

### Bounds

| run | bound | why it is enough |
|---|---|---|
| `redis_replay` | 2 connections, 4 values sent in all: recorded and unrecorded commands, an inline one, an empty array | two answers recorded for one command, so two calls see the order and a third the repetition; with two connections, calls of one interleave with those of the other; a chunk of three halves ends inside a value |
| `postgres_replay` | 2 connections (1 in `postgres_describe`), 3 round trips | prepare, run again with other parameters, close or prepare again is three; so is write, read, read |
| `redis_recording` | 2 connections, one of which may fail and speaks RESP3; 2 commands, 1 push per subscribed connection, sets of one member | two commands outstanding are what a wrong pairing needs, on one connection or on two; one value too many shifts every later pair |
| `postgres_recording` | 2 connections, of which a behaviour uses one (`MaxDriven`): one driver that may ask for TLS, with 3 round trips in plaintext, 2 after a refusal, and one that pipelines 2; a misread StartupMessage takes in 5 elements, itself and a frame and a half of what follows | an error followed by a statement with other parameters, followed by a reuse of the first; two round trips outstanding mispair; after 5 elements reading resumes between the halves of a frame, and both what it makes of them and the frames of the round trip behind are read |
| `record_session` | 2 calls, chunks of one and two bytes under a limit of two, 2 chunks per behaviour (1 in `record_abort`), 2 listeners, 1 interaction | two chunks stay under the limit, meet it or pass it on the second chunk; a call may complete while another is in flight |
| `postgres_tls` | 2 connections, 3 messages (1 and 2 in `postgres_plain`) | on either connection the startup of the client and a statement written before the database's side is ready, or both on one and an answer behind a client that has left |
| `mongo_round_trip` | one setup per hazard: at most 3 commands recorded and 4 replayed; 26 values of all types, one at a time; 4 pairs of close filters; `MaxInt32 = 100` and `MaxSafe = 200` for 2^31 - 1 and 2^53 - 1 | two of one signature overlap or not, a third answers out of turn; the last replayed calls meet the end of the list; values sit on and on either side of each width; setups do not share state, so their bounds add up |
| `redirection` | 4 variables and the absence of each, 2 × 2 ports chosen by the user; or one call made any number of times, of some four hundred forms; one rival recording, beside one https call; 4 key pairs | with and without default ports, a scheme that contradicts the name, an unknown scheme, a value that is no URL; ports that collide with the egress proxy or a dependency proxy; calls share nothing but certificates, so an app that makes calls has no connections; two CAs and two leaves are what two sessions can make of the same files |

A driver that pipelines makes the recorder record a result under the
text of a later statement, and even under a text and parameters that no one statement had: a
Parse is read before its Bind. `PairsAreRealUnlessPipelined` says what is left of it then: the
result is still one the server gave, the text and the parameters are each of some statement the
connection sent. Of a connection astray it says only that what is recorded has the tag or the error of
a statement the connection ran: its text may be one nobody sent, and its rows those of several
statements, since nothing is emitted and no rows are cleared until a text has been read. The connections of
`postgres_recording` share nothing but the list, which two connections of `redis_recording` share too, so
one at a time is enough; `PostgresRecordingProofs` has any number of them at once.

### Fairness

Safety properties are checked without relying on any. For the liveness properties:

- *Redis replay*: weak fairness of `Serve(c)`. Node's event loop delivers bytes that have
  arrived and a handler, once entered, runs to its end.
- *Redis and Postgres recording*: the same of the two data handlers and of the sockets between
  them, and of a server that answers what it has received; of Postgres only on connections that do
  not pipeline, as `EveryStatementRecorded` speaks of no others. Ends, errors,
  pushes and clients are not fair: nothing obliges them to happen.
- *Record session*: `GraceElapses` (a timer that is due fires) and `Finish` (the exit event of
  a dead child is delivered). The app's own exit is not fair: it may ignore SIGTERM for ever.
- *Postgres TLS proxy*: `ConnectSettles` only, since TCP gives up connecting after a time. Nothing
  makes a database answer the SSLRequest, nor either peer finish a handshake: the code has no
  timeout and no 'close' listener, and `UpgradeSettles` excepts the database that stays silent or
  closes without a word from some moment on.

## 4. What is proved

The eight modules of proofs are checked by TLAPS from nothing but the constants' assumptions,
which say that the constants are of the right kind: bounds are naturals, chunks are not empty, a
recorded reply is not the error for what was not recorded, a file before it is written is no
number, an environment lists a variable once, the ports a user chooses are ports. Of the
properties the passing runs check, the theorems state all but the liveness ones, those of
`MongoRoundTrip`, and `AnswersFollowTheRecording`.

- `RecordingTcpProxyProofs`: `RelayIsExactHolds`, `Spec => []RelayIsExact`. *Whatever* the
  recorder does, each side has received a start of what the other sent. Nothing is assumed of
  the recorder's operators, so this covers every protocol and every parsing error.
  `RelayIsExact` alone is not inductive: it says nothing of the bytes in between. The
  invariant `IInv` says that on an open connection what was sent is exactly
  `got \o queue \o wire`, and on a closed one that `got` is a start of it; the steps that
  move bytes (`WriteStep`, `TakeStep`, `ForwardStep`) rest on lemmas about cutting a
  sequence and on the associativity of `\o`.

- `RedisReplayProofs`:
  - `TypeCorrect`.
  - `NothingStuckHolds`. The property speaks of the times when no
    handler runs; the invariant `Drained` speaks of every connection but the one whose handler
    runs, and is kept because `Return` gives the loop back only when nothing decodable is left.
  - `Refinement`: `Spec => ImplementsReplayService`. The strengthening is `Counted`: `next` of
    a recorded command is the number of calls of it in `history`. With it the reply `Decode` gives is
    the one `ReplayService!Promised` names (`ReplyIsPromised`), so a step that answers is a
    `Call` (`StepIsCall`), and every other step stutters.
  - `StatsAgreeHolds`. The calls in `history` are split into recorded
    and unrecorded ones, and an append changes the cardinality of just one part
    (`AppendAnswer`).
  - `RepliesMatchPositionsHolds`. The property compares positions in a filtered sequence.
    `Paired` says instead, of each connection, that the bytes not yet decoded are the halves of what was
    sent from some command on (`Streams`), and that what has been answered are the commands
    before it (`AnsweredTo`): a handler moves the border by one value, a chunk not at all. It holds for
    the commands before the first inline one of a connection.

- `PostgresReplayProofs`:
  - `TypeCorrect`.
  - `NeverGoesBackHolds`. A list of replies is an end of the recorded one (`ListsAreEnds`), so
    where it stands is a number, its `Cursor`; `Served` says that what it served stood before the cursor.
  - `ErrorOnlyForTheUnrecordedHolds`. `Summary` ties the statistics to `history`.
  - `InOrderUnlessDescribedHolds`. `PlaceIsCount`: where no Describe has looked into a list its
    cursor is the number of calls of it, which makes it an instance of `ReplayService`.
  - `WarningsAreExactHolds`. The tables written so far are those of the statements executed so
    far (`TablesAreExact`), and the warnings kept are those they earned (`KeptAreEarned`), those behind
    recorded writes among them.
  - `ExecutesWhatWasAskedHolds`, the hardest of them: what an Execute runs depends on frames handled
    long before, and on closes and re-parses still on the wire. `Foreseen` says of each connection
    that there is a path of sessions, one per frame not handled yet, which starts at the session as
    it is (`Now`), follows the handlers (`After`), runs at each Execute what was asked
    (`RunsAsAsked`), and ends where the driver believes the server to be (`Holds`). A handler takes
    the first step of the path; a driver that sends makes it longer.

- `RedisRecordingProofs`: `ImplementsProxy` (`Spec => Bridge!Spec`: every step of the clients, the
  server and the proxy is one of the proxy's or a stutter) and, from it and the theorem of the proxy,
  `RelayIsExactHolds`; the proxy's invariant also says how far each stream has got (`Relayed`).
  The rest rests on `IInv`, of three parts:
  - `Told`, what was said: commands written are those issued (`Commanded`), the server
    has run a start of them (`Ran`), the value that answers the n-th one stands where it was written
    (`Answered`), and without strays the n-th value is the n-th answer (`Straight`).
  - `Waiting`, what a recorder holds: in its buffers what was read and not decoded, in its queue, off
    stray connections, exactly the commands read and not answered.
  - `Matched`, what is in the list: an entry has its command and its server (`Sourced`), no answer is
    there twice (`Once`), what the proxy has read is there (`Kept`), and so is what a client has
    seen (`SeenKept`).

  There is a lemma for each action; the one that matters is `UpstreamDataStep`, where a chunk
  completes any number of values at a time. From `IInv` follow `TypeCorrect`,
  `OnlyStraysMispairHolds`, `SeenIsRecordedHolds` and `RecordedInCausalOrderHolds`. None of the
  three is inductive: a right pair needs the queue to be right before the chunk, and causal order
  needs what a client saw to have been recorded when it issued its next command, on whatever
  connection.
- `PostgresRecordingProofs`: `ImplementsProxy`, `TypeCorrect`, `PairsAreRealUnlessPipelinedHolds`
  and `AnsweredIsRecordedHolds`. Here frames have no answer each: of the frames of a statement the
  recorder keeps the text and the parameters, of its answer the columns and rows, and it is the
  result that makes the interaction, of whatever was kept last. `IInv`
  (`PostgresRecordingInvariant`) therefore runs two paths beside each connection (`Connected`).
  Notes stand between the driver's frames: after each, the statement begun last, its text, its
  parameters and what is prepared (`Leads`, `Scripted`). Accounts stand between the server's: the
  columns and rows since the last result (`Tells`, `Resulted`, `Spoken`).
  - `Serving` says which note the server has reached and how many statements it has run by then.
  - `Reader` says that the recorder, while the connection is open, is on both paths where the proxy has
    read to, its buffers holding half a frame at most.
  - `Lately` is what makes pairs right: at every result the recorder has not heard, *each* note
    from the server's to the driver's names the statement that has it, unless the driver pipelines. The
    recorder is never behind the server on that path, however late it reads. `Single` keeps it:
    a driver that waits is never two statements ahead.
  - `Listed` says that the results heard are in the list and those not heard belong after it.
  - `Unreading` is the case of a refused request for TLS. Until the driver has sent as much as the
    misread StartupMessage takes in, the recorder has no text and records nothing; from there on,
    `Astray`, what it holds of the driver is not known, and only what it reads of the server is:
    results of statements the connection ran (`Numbered`). `Faithful` and `Rising` speak of the
    other connections only.

  That a chunk which completes any number of frames moves the recorder as many steps along its path
  (`FramesHeard`, `ReadClientReads`) is an induction over positions; `ServerSteps`, `DriverSteps`
  and `PassedKeeps` lead one connection's step to the others. How long the misread message is, and
  what a cut frame is read as, are constants of which nothing but their type is assumed. The two
  theorems are as weak on a connection astray as the properties (§3): that what it records may be
  wrong is the finding (§7).
- `RecordSessionProofs`: `TypeCorrect`, `BodyIsWholeOrAbsentHolds`, `RecordedOnceWholeHolds` and
  `CaptureOutlivesTheAppHolds`. The first three rest on `Captures`: a capture's total is the
  length of what was sent; one that is not truncated holds all of it; one that is truncated
  has seen more than the limit. `BodyIsWholeOrAbsent` alone is not inductive, since it says
  nothing of a body still on its way. A body does not change once both have ended
  (`QuietStep`), and the later of the two ends makes the exchange (`ExchangeStep`). The last
  theorem adds `Settled`: when the files are written the child is gone, what it was outlived by
  is whole (`WholeStays`) and counted.

- `PostgresTlsProxyProofs`: `TypeCorrect`, `NothingLostInTheUpgradeHolds`, `TlsIsRecordedHolds` and
  `UnrecordedIsNamedHolds`. A client's messages are numbered, so a channel is known by where it
  starts and how long it is (`Numbered`): the invariant says of each connection that what the client
  wrote continues what the proxy has read (`Commands`), that answers continue those received and
  never run ahead of the database (`Answers`), that what is pending on a recorded connection is
  exactly what was read and not answered (`Pending`), and which stages of the two sides go together
  (`Stage`). None of the four properties is inductive: `TlsIsRecorded` rests on `Pending`, which
  pairs the oldest message with the next answer, and `Pending` on `Commands` and `Answers`. Each
  action changes one connection, and `OthersStand` keeps the rest. `UnrecordedIsNamedHolds` is about
  a client that the *proxy* disconnects; one that closes its socket itself, at whatever stage, is
  over without a name (§7), and `Stage` says what it leaves behind.
- `RedirectionProofs`, of the certificates: `LeavesVerifyHolds`, for every number of recordings, hosts and
  key pairs. `CertificateInv` says, as long as no two sessions have written the same files at a time,
  that the CA's certificate goes with its key, that the files of a leaf written so far go
  together, and that what is cached goes with the CA the app trusts. A failure or a kill leaves files that
  agree with one another or a certificate that is missing, which is made again with its key.
- `RedirectionProofs`, of the rest, for every set of calls, environments and hosts:
  `CallsAreCapturedHolds`, `AddressesLeadToServersHold` and `TypeCorrect`. For the calls,
  `CaptureInv` adds to `CertificateInv` that a usual call under way asks the recorder for what the
  app asked for (`OnItsWay`); `UsualCalls` is the arithmetic of defaults and forms, and there is one
  lemma per part the call passes: the app, the egress proxy, the interceptor.

  For the addresses, `planRedirects` goes through the variables one at a time; `PlannedUpTo` says
  what its plan is after n of them: every dependency has a variable, a port of its own above the
  base, and the address the variable had. `Serves` says that a server at that port leads where the
  address did, `ServersUp` which servers listen in which phase, `AppTold` what the app's environment
  then says (`SessionInv`). `TypeCorrect` bounds the ports by the number of variables.

On induction. The library's induction theorems take an operator, which the provers cannot
instantiate. Over naturals there is a way round it: that `<` is well founded gives a least
counterexample (`LeastOf`, `NatBySet`), which is how `planRedirects`, `commandsIn` and the Postgres
recorder's reading of frames in order, recursive functions of the model, are reasoned about.
`SelectSeq`, `FoldLeft` and `FoldFunction` are beyond it, since what they fold is an operator or a
`CHOOSE`; invariants that would speak of a filtered or a folded sequence speak of positions in it
instead.

Only model-checked, and why:

- liveness, which needs ENABLED;
- `AnswersFollowTheRecording`, which adds to `Refinement` the filing of the recording the instance
  gives: its answers by signature are filtered sequences;
- the Mongo round trip, whose values are recursive.

## 5. Abstractions

- A reply, a row, a body's text is a value. Byte layouts (RESP, Postgres frames, BSON, OP_MSG) are
  left out. Where a conversion loses something the model loses it too: RESP signatures join words
  with spaces, so two commands may share one; unsupported values become an error; a RESP3 aggregate
  falls apart; a body that is not text becomes nothing; a BSON type that JSON or JavaScript does not
  have comes back as another; a Mongo signature leaves out what an insert inserts.
- Inline Redis commands are modelled in replay, where they get no answer, and not when recording
  (`FrameAssumption`: a client writes arrays of strings), where the recorder passes over them and
  the server answers, one value too many; RESP3 pushes fall apart as its other aggregates do, and
  the pushes of the model are RESP2's.
- One statement per Postgres round trip; a second startup on one connection occurs only after a
  request for TLS. What a misread StartupMessage takes in is counted in halves of frames, the same
  number each time, and what is read behind it is aligned to halves: a frame made of two halves is
  any frame one chooses (`Garbled`), but never longer or shorter than two. The divergence tracker
  sees the first table of a statement as a constant `About`, as the code does: a statement that
  joins a written table further on raises no warning.
- Mongo: names that are numerals, checksums, the request ids of replies, and what a recorder makes
  of bytes after it has lost its place (`InStep`) are left out, and there is one recorded connection.
- HTTP: methods, paths and headers other than Host are left out, and so is what a caller is sent when
  its upstream fails after the head of an answer. Streams are the events Node gives the relay; a chunk
  boundary inside a multi-byte character does not occur.
- Outgoing calls: one at a time; no customised agents, `ca` or `servername` options, NO_PROXY or
  `socketPath`. Node's own `fetch`, which is patched by no shim and reads no proxy variable, is not
  among the clients: its calls reach their servers unrecorded. Certificates do not expire. The
  bundle of roots is the question if there is one.
- TLS proxy: the client speaks first and waits for the answer to its startup, the recorder is reduced to
  pairing by position and does not throw, and a chunk is a message.
- Redirection: credentials, paths and parameters are left out.

## 6. What is not modelled

- *Command line, summaries, logging*: options and printing. The commands call one session each and
  keep no state.
- *Postgres encoder*: a conversion to bytes without state; `PostgresReplay` says which of its
  messages are sent when.
- *RESP and Postgres byte layouts*, for the same reason.
- *HAR conversions*: headers, mime types, query strings, redirects of an entry.
- The end of the process: of the record session after its files, of the replay session after its
  app (its exit code, the close of its servers).

## 7. Findings

Each is a run in which TLC finds the code to disagree with a sentence of the repository.

- `postgres_describe`: the repository's `README.md:33` says a counter that returned 1 then 2 replays as 1
  then 2, and a comment in `postgresReplayServer.ts` calls `peek` the same lookup without
  counting it. The lookup shifts the list, for a Describe as for an Execute, so a driver that
  describes before it executes skips recorded results.
- `record_abort`: the comment at `src/record/session.ts:224-225` says the capture is written
  before returning either way. A client or server that breaks off a body rejects
  `captureAndForward`'s promise with no handler; Node ends the process and nothing is written. An
  answer whose caller has gone does the same when it breaks off.
- `postgres_plain`: `README.md:19` says `DATABASE_URL` leads to a proxy that decodes the wire
  protocol. With openssl installed, a Postgres client that does not ask for TLS is passed through
  undecoded and is not named.
- `replayed_variables`: `src/replay/README.md:12-14` says replay rewrites the same variables.
  Replay sets one fixed variable per protocol, so a cache reached through `CACHE_URL` leads the
  replayed app to the real server.

Noticed without a run of their own:

- `README.md:61` says of clients that refuse the CA that they are relayed but not decoded, and
  `postgresTlsProxy.ts:147` destroys them; `src/record/README.md` still says HTTPS egress is not
  recorded.
- `resp.ts:9-12` says that what is not supported in RESP3 is never skipped in a way that pairs the next
  reply with the wrong command. The header of a map or a set is reported, and what it
  holds is paired with the commands that follow; `OnlyStraysMispair` excepts those connections.
- `resp.ts:101-105` says that inline commands are accepted. A bare line decodes as an unsupported
  value, which `toCommand` turns into none: a replay gives it no answer, its client waits for as
  many replies as it has sent inline commands, and takes every later reply of the connection for the
  one of the command before. When recording it is not recorded and its answer goes to the next
  command. `RepliesMatchPositions` and `EveryCommandAnswered` except inline commands by name
  (`Inline`), and the run sends them.
- `divergence.ts:43-45` says that a write that was part of the recording raises no warning, since it
  would be noise. Line 72 notes the table of every write, so reads behind a recorded write are
  warned of as stale (`EchoedReads`); `mongoAndDivergence.test.ts:203-209` asks for just that. The
  comment is about an app that writes and reads as it did when it was recorded, which gets these
  warnings each time.
- After a refused request for TLS the recorder reads the second startup message as a frame
  (`postgresMessages.ts:34-44`): the statements of the next 20 KB or so are not recorded, and from
  there on reading resumes at an arbitrary byte. What it then records may be statements nobody sent,
  with the rows of several: rows add up while no text has been read, as `emit` returns before it
  clears them. `readStartup`'s comment calls this fallback the common default, and `onServerData`
  sets the connection to 'running' like any other.
- `postgresTlsProxy.ts:32-33` and `:144-146` promise a reason for every connection that could not be
  intercepted. A client that closes its socket without an error, before or after its handshake, as
  one does that checks the certificate itself, is named by nobody, and its upgrade goes on without
  it. A database, or a forwarder in front of it, that accepts a connection and closes it without
  answering the SSLRequest leaves its client waiting for ever and unnamed: that is neither 'data'
  nor 'error', and nothing in the code has a timeout (`UpgradeSettles`).
- A call to an IPv6 host: of the shim's doing it is a request line that is no URL, which throws in the
  egress proxy's handler and ends the recorder; through CONNECT it is split at the wrong colon. A Host
  header the app sets itself is replaced when the shim rewrites the call. `Usual` names these cases.
- Two first recordings at a time can leave a CA whose certificate is not for its key, which nothing
  repairs (`contended`).
- `bson.ts:7` says that a type that cannot be decoded is kept as a placeholder, and an unknown one
  throws; timestamps, regular expressions, decimals and subtypes of binaries do not come back from
  a recording. `recordingTcpProxy.ts:54-65` says that a parsing error loses one interaction; the Mongo
  recorder loses what was behind it in the chunk, or its place. A recorded answer that holds a field
  `$type` of the app's own, or a command with a BSON type the codec does not know, ends the replay
  process. Answers in OP_REPLY and compressed messages are recorded empty.
- A session that fails to start leaves the servers it has started open, which keeps the process
  alive; `session.ts:181-184` gives the reason why kept connections must be destroyed, and the
  dependency proxies, which have no `closeAllConnections`, are only closed.
- `session.ts:271-273` says of an unknown protocol that the app keeps working; under
  `DATABASE_URL` it is taken for Postgres, whose TLS proxy connects when the client has spoken, and a
  client of a database that speaks first never does.
- `parsePort` lets `--port 65535` through, and the app is told to listen on 65536. `--base-port` of a
  replay is not checked at all; `PortAssumption` says it is a port.
- An app that a replay runs and a signal ends is reported as exit code 0 (`replay/session.ts:112`).

## 8. Plan

Done in this order: Redis replay and its abstract service; Postgres replay; the proxy with the
Redis and the Postgres recorder; relays and record session; the TLS proxy; the Mongo
round trip; redirection; proofs for the proxy, the Redis replay, Redis recording and the record
session; then the certificate authority with several recordings at a time; the shim, the egress
proxy and the interceptor as the way of a call; the whole of the Mongo protocol and BSON; the HAR
entries; RESP3 aggregates; proofs for the TLS proxy, the certificates and the calls.

Then the proofs of the Postgres replay server, of positions in the Redis replay, of what the Redis
and the Postgres recorder pair and of redirection.

Next, proofs: `PairedById` and `MissesAreNamed` of the Mongo round trip, once the values of `Bson` are
a parameter of the modules that pair.

Next, models, each joining the run of the component it belongs to:

1. a database that speaks first, in `PostgresTlsProxy` and the generic proxy;
2. the end of both processes.
