---------------------------- MODULE RedisRecorder ----------------------------
(***************************************************************************)
(* RedisRecorder of src/record/protocols/redisRecorder.ts, as operators    *)
(* over its state: one recorder per proxied connection.                    *)
(***************************************************************************)
EXTENDS Naturals, Sequences, SequencesExt, Resp, Chunks

NewRedisRecorder ==
    [clientBuffer |-> <<>>, serverBuffer |-> <<>>, pending |-> <<>>, completed |-> <<>>]

\* What the client sent that is a command; anything else it sent waits for no reply.
commandsIn(values) ==
    LET kept[n \in 0 .. Len(values)] ==
            IF n = 0 THEN <<>>
            ELSE IF IsCommand(values[n]) THEN Append(kept[n - 1], values[n])
            ELSE kept[n - 1]
    IN  kept[Len(values)]

\* Mutants: what was decoded stays in the buffer, what was not is dropped.
OnClientDataKept(r, chunk) ==
    LET buffer == r.clientBuffer \o chunk
    IN  [r EXCEPT !.clientBuffer = buffer,
                  !.pending      = @ \o commandsIn(Decodable(buffer))]

OnClientDataDropped(r, chunk) ==
    [r EXCEPT !.clientBuffer = <<>>,
              !.pending      = @ \o commandsIn(Decodable(r.clientBuffer \o chunk))]

onClientData(r, chunk) ==
    LET buffer == r.clientBuffer \o chunk
    IN  [r EXCEPT !.clientBuffer = Remainder(buffer),
                  !.pending      = @ \o commandsIn(Decodable(buffer))]

Interaction(command, value) ==
    [protocol |-> "redis", request |-> toCommand(command), response |-> value]

\* Mutant: what is left of the chunk is dropped.
OnServerDataDropped(r, chunk) ==
    LET values == Decodable(r.serverBuffer \o chunk)
        paired == IF Len(values) < Len(r.pending) THEN Len(values) ELSE Len(r.pending)
    IN  [r EXCEPT !.serverBuffer = <<>>,
                  !.pending      = SubSeq(@, paired + 1, Len(@)),
                  !.completed    = @ \o [k \in 1 .. paired |-> Interaction(r.pending[k], values[k])]]

\* Mutant: a reply goes to the command sent last.
OnServerDataLast(r, chunk) ==
    LET buffer == r.serverBuffer \o chunk
        values == Decodable(buffer)
        paired == IF Len(values) < Len(r.pending) THEN Len(values) ELSE Len(r.pending)
        last   == Len(r.pending)
    IN  [r EXCEPT !.serverBuffer = Remainder(buffer),
                  !.pending      = SubSeq(@, 1, last - paired),
                  !.completed    = @ \o [k \in 1 .. paired |->
                                            Interaction(r.pending[last + 1 - k], values[k])]]

\* Each value takes the oldest waiting command; one that finds none is dropped.
onServerData(r, chunk) ==
    LET buffer == r.serverBuffer \o chunk
        values == Decodable(buffer)
        paired == IF Len(values) < Len(r.pending) THEN Len(values) ELSE Len(r.pending)
    IN  [r EXCEPT !.serverBuffer = Remainder(buffer),
                  !.pending      = SubSeq(@, paired + 1, Len(@)),
                  !.completed    = @ \o [k \in 1 .. paired |-> Interaction(r.pending[k], values[k])]]

completed(r) == r.completed

drain(r) == [r EXCEPT !.completed = <<>>]

=============================================================================
