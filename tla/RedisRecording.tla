--------------------------- MODULE RedisRecording ---------------------------
(***************************************************************************)
(* Recording Redis: clients and a Redis server talking through the proxy   *)
(* of RecordingTcpProxy, with the recorder of RedisRecorder.               *)
(*                                                                         *)
(* The server is external.  It answers the commands of a connection in     *)
(* order and never twice alike (each answer carries a serial number, as a  *)
(* counter would), which is what lets the properties below name an answer. *)
(* To a connection that has subscribed it also writes what no command      *)
(* asked for: one message, at any time.  On a connection that speaks RESP3 *)
(* it answers SMEMBERS with a set, which the decoder takes for a header it *)
(* does not support and, the set having one member, a value more.          *)
(***************************************************************************)
EXTENDS RedisRecorder, FiniteSets

CONSTANTS
    Connection,
    MayFail,
    Frame,          \* what a client may send
    SUBSCRIBE,      \* the frame that subscribes
    SMEMBERS,       \* the frame that RESP3 answers with a set
    Resp3,          \* connections that speak it (HELLO 3)
    MaxCommands     \* bound: commands sent in one behaviour

ASSUME MaxCommandsAssumption == MaxCommands \in Nat

\* Clients send commands as arrays, as every client library does: an inline command
\* is a bare line, which the decoder takes for no command.
ASSUME FrameAssumption == \A frame \in Frame : IsCommand(frame)

VARIABLES
    bridge, wire, queue, got, ended, recorder, interactions, sent,
    executed,       \* the server's commands, in the order it ran them
    issued,         \* ghost: per connection, what its client sent and had seen by then
    pushed          \* connections that have been sent a push

proxyVars == <<bridge, wire, queue, got, ended, recorder, interactions, sent>>
vars == <<proxyVars, executed, issued, pushed>>

Value(serial) == [kind |-> "bulk", value |-> serial]
SetHeader(serial) == [kind |-> "unsupported", value |-> serial]

\* What the decoder finds on the wire and no command of its own was answered by.
Push == [kind |-> "array", words |-> <<"message">>, value |-> 0]
Member == [kind |-> "bulk", value |-> 0]

Byte ==
    Frame \union {Value(serial) : serial \in Nat} \union {SetHeader(serial) : serial \in Nat}
          \union {Push, Member}

Proxy == INSTANCE RecordingTcpProxy WITH
    NewRecorder  <- NewRedisRecorder,
    OnClientData <- onClientData,
    OnServerData <- onServerData,
    Completed    <- completed,
    Drained      <- drain

Init ==
    /\ Proxy!Init
    /\ executed = <<>>
    /\ issued = [c \in Connection |-> <<>>]
    /\ pushed = {}

-----------------------------------------------------------------------------

\* The answers that have wholly reached the client of c.
Seen(c) == {v.value : v \in Range(Decodable(got[c]["down"])) \ {Push, Member}}

SeenByAnyone == UNION {Seen(c) : c \in Connection}

CommandCount == FoldFunction(LAMBDA frames, n : Len(frames) + n, 0, issued)

ClientCommand(c, frame) ==
    /\ CommandCount < MaxCommands
    /\ Proxy!Write(c, "up", Halves(frame))
    /\ issued' = [issued EXCEPT ![c] = Append(@, [frame |-> frame, seen |-> SeenByAnyone])]
    /\ UNCHANGED <<executed, pushed>>

ClientEnd(c) == Proxy!End(c, "up") /\ UNCHANGED <<executed, issued, pushed>>

RunOn(c) == {s \in DOMAIN executed : executed[s].on = c}

AnsweredBySet(c, frame) == c \in Resp3 /\ frame = SMEMBERS

Answer(c, frame, serial) ==
    IF AnsweredBySet(c, frame) THEN Halves(SetHeader(serial)) \o Halves(Member)
    ELSE Halves(Value(serial))

\* The server runs the next command that has wholly reached it and answers it.
ServerExecute(c) ==
    LET n == Cardinality(RunOn(c)) + 1
    IN  /\ n <= Len(got[c]["up"]) \div 2
        /\ executed' = Append(executed, [on |-> c, nth |-> n, frame |-> issued[c][n].frame])
        /\ Proxy!Write(c, "down", Answer(c, issued[c][n].frame, Len(executed) + 1))
        /\ UNCHANGED <<issued, pushed>>

ServerPush(c) ==
    /\ c \notin pushed
    /\ \E s \in RunOn(c) : executed[s].frame = SUBSCRIBE
    /\ pushed' = pushed \union {c}
    /\ Proxy!Write(c, "down", Halves(Push))
    /\ UNCHANGED <<executed, issued>>

\* The server ends a connection on which it has nothing left to answer.
ServerEnd(c) ==
    /\ Cardinality(RunOn(c)) = Len(issued[c])
    /\ Proxy!End(c, "down")
    /\ UNCHANGED <<executed, issued, pushed>>

Relay(c) ==
    /\ Proxy!Proxy(c) \/ \E d \in {"up", "down"} : Proxy!Take(c, d)
    /\ UNCHANGED <<executed, issued, pushed>>

Next ==
    \E c \in Connection :
        \/ \E frame \in Frame : ClientCommand(c, frame)
        \/ ClientEnd(c) \/ ServerExecute(c) \/ ServerPush(c) \/ ServerEnd(c)
        \/ Relay(c)

\* The event loop serves both sockets, the peers take what is written to them and
\* the server answers what it has received.
Fairness ==
    \A c \in Connection :
        /\ WF_vars(Proxy!ClientData(c) /\ UNCHANGED <<executed, issued, pushed>>)
        /\ WF_vars(Proxy!UpstreamData(c) /\ UNCHANGED <<executed, issued, pushed>>)
        /\ \A d \in {"up", "down"} :
               WF_vars(Proxy!Take(c, d) /\ UNCHANGED <<executed, issued, pushed>>)
        /\ WF_vars(ServerExecute(c))

Spec == Init /\ [][Next]_vars /\ Fairness

-----------------------------------------------------------------------------
(***************************************************************************)
(* Properties.                                                             *)
(***************************************************************************)

TypeOK ==
    /\ interactions \in Seq([protocol : {"redis"},
                             request  : {toCommand(frame) : frame \in Frame},
                             response : [kind : {"bulk", "unsupported"}, value : 0 .. Len(executed)]
                                            \union {Push}])
    /\ \A c \in Connection :
        /\ Range(recorder[c].pending) \subseteq Frame
        /\ recorder[c].completed = <<>>
        /\ Len(recorder[c].clientBuffer) < 2
        /\ Len(recorder[c].serverBuffer) < 2

RelayIsExact == Proxy!RelayIsExact

Answers(response, s) == response \in {Value(s), SetHeader(s)}

RealPair(k) ==
    \E s \in DOMAIN executed :
        /\ Answers(interactions[k].response, s)
        /\ interactions[k].request = toCommand(executed[s].frame)

\* The connections the server has written a value to that answers no command.
Astray ==
    pushed \union {c \in Connection : \E s \in RunOn(c) : AnsweredBySet(c, executed[s].frame)}

\* redisRecorder.ts:4-8: however the commands are pipelined and the chunks cut, an
\* interaction is a command with the very answer the server gave it, except on a
\* connection that got a push or a RESP3 aggregate: a push that arrives while a command
\* waits is recorded as its answer, which :39-41 says it must not be, and so is what an
\* aggregate holds, which resp.ts:9-12 says is not paired with the wrong command.
OnlyStraysMispair ==
    \A k \in DOMAIN interactions :
        \/ RealPair(k)
        \/ \E c \in Astray : \E n \in DOMAIN issued[c] :
                interactions[k].request = toCommand(issued[c][n].frame)

Recorded(s) == \E k \in DOMAIN interactions : Answers(interactions[k].response, s)

\* No answer is recorded twice, and one the client has read is already recorded:
\* the proxy never delivers an answer and then loses the interaction.
SeenIsRecorded ==
    /\ \A j, k \in DOMAIN interactions :
            /\ interactions[j].response = interactions[k].response
            /\ interactions[j].response \notin {Push, Member}
            => j = k
    /\ \A c \in Connection \ Astray : \A s \in Seen(c) : Recorded(s)

\* replay/README.md:37, "recorded order", over connections: a command sent after an
\* answer was read, on any connection, is recorded after that answer.
RecordedInCausalOrder ==
    \A k \in DOMAIN interactions : \A s \in DOMAIN executed :
        Answers(interactions[k].response, s) =>
            \A earlier \in issued[executed[s].on][executed[s].nth].seen :
                \/ \E j \in 1 .. k - 1 : Answers(interactions[j].response, earlier)
                \/ executed[earlier].on \in Astray

\* Every command is recorded in the end, unless its connection closes, ends or is
\* written what answers none.
EveryCommandRecorded ==
    \A c \in Connection :
        []<>(\/ bridge[c] = "closed" \/ c \in Astray \/ \E d \in {"up", "down"} : ended[c][d]
             \/ /\ Cardinality(RunOn(c)) = Len(issued[c])
                /\ \A s \in RunOn(c) : Recorded(s))

=============================================================================
