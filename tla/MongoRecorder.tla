---------------------------- MODULE MongoRecorder ----------------------------
(***************************************************************************)
(* MongoRecorder and readMessage of src/record/protocols/mongoRecorder.ts, *)
(* as operators over the recorder's state.                                 *)
(*                                                                         *)
(* A message is its request id, the id it responds to, its opcode ("msg",  *)
(* "query", or one that is not read, as a compressed message and OP_REPLY) *)
(* and its sections; an OP_QUERY has one, its document.  Checksums and the *)
(* limits of a query only move the cursor and are left out.                *)
(***************************************************************************)
EXTENDS Naturals, Sequences, SequencesExt, Chunks, Bson

OneDocument(fields) == <<[kind |-> 0, fields |-> fields]>>

-----------------------------------------------------------------------------

\* A turn of readSections' loop.
ReadSection(body, section) ==
    IF section.kind = 0
    THEN FoldLeft(Assigned, body, decodeDocument(section.fields))
    ELSE Assigned(body, Field(section.identifier,
            [array |-> [k \in DOMAIN section.documents |->
                            [object |-> decodeDocument(section.documents[k])]]]))

\* The body readMessage returns, of a message that it can read.
readMessage(message) ==
    IF message.opCode \in {"msg", "query"}
    THEN FoldLeft(ReadSection, <<>>, message.sections)
    ELSE <<>>

DocumentsIn(section) == IF section.kind = 0 THEN <<section.fields>> ELSE section.documents

\* What does not make readMessage throw.
IsReadable(message) ==
    message.opCode \in {"msg", "query"} =>
        \A section \in Range(message.sections) :
            \A fields \in Range(DocumentsIn(section)) : Readable([document |-> fields])

commandNameOf(body) == IF body = <<>> THEN "" ELSE body[1].name

-----------------------------------------------------------------------------
(***************************************************************************)
(* consume: the messages of a buffer are handled in order until one makes  *)
(* readMessage throw.  The buffer then stays as it was before the chunk,   *)
(* and the chunk is gone.                                                  *)
(***************************************************************************)

FirstUnreadable(buffer) == SelectInSeq(Decodable(buffer), LAMBDA m : ~ IsReadable(m))

Handled(buffer) ==
    IF FirstUnreadable(buffer) = 0 THEN Decodable(buffer)
    ELSE SubSeq(Decodable(buffer), 1, FirstUnreadable(buffer) - 1)

\* The halves that were dropped with the chunk, unhandled.
Dropped(old, chunk) ==
    LET buffer == old \o chunk
    IN  IF FirstUnreadable(buffer) = 0 THEN <<>>
        ELSE SubSeq(buffer, 2 * Len(Handled(buffer)) + 1, Len(buffer))

KeptBuffer(old, chunk) ==
    IF FirstUnreadable(old \o chunk) = 0 THEN Remainder(old \o chunk) ELSE old

\* The next chunk goes on where the buffer ends, unless part of a message was dropped.
StaysInStep(old, chunk) ==
    FirstUnreadable(old \o chunk) # 0 => old = <<>> /\ Len(chunk) % 2 = 0

-----------------------------------------------------------------------------

\* clientInStep and serverInStep are ghosts.  What a recorder reads of a side once it is
\* out of step is not modelled, and nothing is claimed of such a recording.
NewMongoRecorder ==
    [clientBuffer |-> <<>>, serverBuffer |-> <<>>, pending |-> {}, completed |-> <<>>,
     clientInStep |-> TRUE, serverInStep |-> TRUE]

InStep(r) == r.clientInStep /\ r.serverInStep

\* pending.set: a request id names one command, the latest.
Waiting(pending, message) ==
    {p \in pending : p.requestId # message.requestId}
        \union {[requestId |-> message.requestId, body |-> readMessage(message)]}

\* Mutant: what was decoded stays in the buffer.
OnClientDataKept(r, chunk) ==
    LET buffer == r.clientBuffer \o chunk
    IN  [r EXCEPT !.clientBuffer = buffer, !.pending = FoldLeft(Waiting, @, Handled(buffer))]

onClientData(r, chunk) ==
    [r EXCEPT !.clientBuffer = KeptBuffer(@, chunk),
              !.clientInStep = StaysInStep(r.clientBuffer, chunk),
              !.pending      = FoldLeft(Waiting, @, Handled(r.clientBuffer \o chunk))]

Interaction(command, message) ==
    [protocol |-> "mongodb", request |-> command.body, response |-> readMessage(message)]

\* Mutant: a reply answers the command that has waited longest.
AnsweredInTurn(r, message) ==
    LET oldest == {p \in r.pending : \A q \in r.pending : p.requestId <= q.requestId}
    IN  [r EXCEPT !.pending   = @ \ oldest,
                  !.completed = @ \o [k \in 1 .. (IF oldest = {} THEN 0 ELSE 1) |->
                                        Interaction(CHOOSE p \in oldest : TRUE, message)]]

\* A reply answers the command whose id it names, if that waits; else it is dropped.
Answered(r, message) ==
    LET awaiting == {p \in r.pending : p.requestId = message.responseTo}
    IN  IF awaiting = {} THEN r
        ELSE [r EXCEPT !.pending   = @ \ awaiting,
                       !.completed = Append(@, Interaction(CHOOSE p \in awaiting : TRUE, message))]

onServerData(r, chunk) ==
    FoldLeft(Answered,
             [r EXCEPT !.serverBuffer = KeptBuffer(@, chunk),
                       !.serverInStep = StaysInStep(r.serverBuffer, chunk)],
             Handled(r.serverBuffer \o chunk))

completed(r) == r.completed

drain(r) == [r EXCEPT !.completed = <<>>]

=============================================================================
