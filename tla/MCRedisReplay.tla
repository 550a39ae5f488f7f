--------------------------- MODULE MCRedisReplay ---------------------------
(***************************************************************************)
(* Instances of RedisReplay for TLC.  The recording holds two replies to   *)
(* one command, one unreadable reply to another, and an interaction of     *)
(* another protocol whose request looks like a third.  The client also     *)
(* sends a command nobody recorded, an inline one, and an empty array,     *)
(* which asks for nothing.                                                 *)
(***************************************************************************)
EXTENDS RedisReplay

Text(value)   == [kind |-> "bulk", value |-> value]
Error(value)  == [kind |-> "error", value |-> value]
Unreadable    == [kind |-> "unsupported", value |-> "%1"]

MCUnsupported == Error("recorded an unsupported reply")
MCNoRecording == Error("no recording")

Word(atom) == <<atom>>

INCR == <<Word("INCR"), Word("k")>>
GET  == <<Word("GET"), Word("k")>>
DEL  == <<Word("DEL"), Word("k")>>

MCInteractions ==
    << [protocol |-> "redis",    request |-> INCR, response |-> Text("1")],
       [protocol |-> "postgres", request |-> DEL,  response |-> Text("0")],
       [protocol |-> "redis",    request |-> GET,  response |-> Unreadable],
       [protocol |-> "redis",    request |-> INCR, response |-> Text("2")] >>

MCFrame ==
    {[kind |-> "array", words |-> command] : command \in {INCR, GET, DEL}}
        \union {[kind |-> "line", words |-> <<Word("PING")>>], [kind |-> "array", words |-> <<>>]}

MCSignature == {signatureOf(command) : command \in {INCR, GET, DEL}}

MCReply == {Text("0"), Text("1"), Text("2"), MCUnsupported}

MCRecorded == Filed(MCInteractions, MCSignature, MCUnsupported)

\* redisReplayServer.ts:6-8, against the recording itself: the n-th answer to a
\* command is the response of the n-th Redis interaction with the same verb and
\* arguments (the last such interaction past the end), and an error without one.
AnswersFollowTheRecording ==
    \A k \in DOMAIN history :
        LET same == {j \in DOMAIN MCInteractions :
                        /\ MCInteractions[j].protocol = "redis"
                        /\ signatureOf(MCInteractions[j].request) = history[k].sig}
            nth  == Cardinality({j \in 1 .. k : history[j].sig = history[k].sig})
            rank(j) == Cardinality({i \in same : i <= j})
        IN  IF same = {} THEN history[k].reply = MCNoRecording
            ELSE \E j \in same :
                    /\ rank(j) = IF nth < Cardinality(same) THEN nth ELSE Cardinality(same)
                    /\ history[k].reply = encode(MCInteractions[j].response, MCUnsupported)

=============================================================================
