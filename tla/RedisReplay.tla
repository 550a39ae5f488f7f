---------------------------- MODULE RedisReplay ----------------------------
(***************************************************************************)
(* The Redis replay server, src/replay/redisReplayServer.ts, with what it  *)
(* uses of src/record/protocols/resp.ts: one RedisReplay object, holding   *)
(* the recorded reply sequences, shared by every connection of one server. *)
(*                                                                         *)
(* Node runs a 'data' handler to completion, so a handler is modelled as   *)
(* Data(c), which takes the event loop, one Decode per iteration of its    *)
(* loop, and Return, which gives the loop back: `running` is the           *)
(* connection whose handler is on the stack.                               *)
(*                                                                         *)
(* A word of a command is a non-empty sequence of atoms: the pieces the    *)
(* word would split into at its spaces.  The verb is in upper case, as     *)
(* toCommand leaves it.  Every value crosses the socket in two halves, and *)
(* a chunk is any number of halves, so a chunk can end inside a value and  *)
(* can hold several.                                                       *)
(***************************************************************************)
EXTENDS Naturals, Sequences, FiniteSets, SequencesExt, Resp, Chunks

CONSTANTS
    Connection,     \* sockets a client may hold open
    Frame,          \* RESP values a client may send
    Signature,      \* what signatureOf maps commands to
    Reply,          \* replies as the client reads them
    NoRecording,    \* "ERR cognivox has no recording for: ..."
    Recorded,       \* [Signature -> Seq(Reply)]: the constructor's `sequences`
    Idle,           \* no handler is running
    MaxSends        \* bound: frames sent in one behaviour

\* [verb, ...args].join(' '): the atoms of all the words, one after another.
signatureOf(words) == FlattenSeq(words)

ASSUME RecordedAssumption == Recorded \in [Signature -> Seq(Reply)]

ASSUME NoRecordingAssumption == NoRecording \notin Reply

ASSUME FrameAssumption ==
    \A frame \in Frame : IsCommand(frame) => signatureOf(toCommand(frame)) \in Signature

ASSUME IdleAssumption == Idle \notin Connection

ASSUME MaxSendsAssumption == MaxSends \in Nat

VARIABLES
    next,           \* sequences.get(sig).next
    matchedCount,
    missing,        \* signatures asked for and not recorded
    wire,           \* halves the client wrote and the server has not read
    buffered,       \* halves read and not yet consumed
    offset,         \* halves of the running handler's buffer consumed so far
    running,
    written,        \* replies the server wrote to each open socket
    sent,           \* ghost: frames each client wrote on its open socket
    sends,          \* ghost: how many frames were sent in all
    history         \* ghost: every answer given, in the order given

replayVars == <<next, matchedCount, missing, history>>
clientVars == <<sent, sends>>
vars == <<replayVars, wire, buffered, offset, running, written, clientVars>>

Init ==
    /\ next = [sig \in Signature |-> 0]
    /\ matchedCount = 0
    /\ missing = {}
    /\ wire = [c \in Connection |-> <<>>]
    /\ buffered = [c \in Connection |-> <<>>]
    /\ offset = 0
    /\ running = Idle
    /\ written = [c \in Connection |-> <<>>]
    /\ sent = [c \in Connection |-> <<>>]
    /\ sends = 0
    /\ history = <<>>

-----------------------------------------------------------------------------
(***************************************************************************)
(* The constructor: interactions of other protocols are skipped, and those *)
(* of one signature keep their recorded order.  A reply the recorder could *)
(* not read is stored as 'unsupported' and goes out as an error.           *)
(***************************************************************************)

\* Mutant: interactions of every protocol are filed.
FiledWhateverProtocol(interactions, signatures, unsupported) ==
    [sig \in signatures |->
        LET own == SelectSeq(interactions, LAMBDA i : signatureOf(i.request) = sig)
        IN  [k \in DOMAIN own |-> encode(own[k].response, unsupported)]]

Filed(interactions, signatures, unsupported) ==
    [sig \in signatures |->
        LET own == SelectSeq(interactions,
                       LAMBDA i : i.protocol = "redis" /\ signatureOf(i.request) = sig)
        IN  [k \in DOMAIN own |-> encode(own[k].response, unsupported)]]

-----------------------------------------------------------------------------
(***************************************************************************)
(* The client's side: it may pipeline, and it may drop the connection at   *)
(* any point, after which the slot stands for a new connection.            *)
(***************************************************************************)

Send(c, frame) ==
    /\ sends < MaxSends
    /\ sends' = sends + 1
    /\ sent' = [sent EXCEPT ![c] = Append(@, frame)]
    /\ wire' = [wire EXCEPT ![c] = @ \o Halves(frame)]
    /\ UNCHANGED <<replayVars, buffered, offset, running, written>>

\* The socket errors or ends: its buffer goes with it, the sequences stay.
Disconnect(c) ==
    /\ running = Idle
    /\ sent[c] # <<>>
    /\ wire' = [wire EXCEPT ![c] = <<>>]
    /\ buffered' = [buffered EXCEPT ![c] = <<>>]
    /\ written' = [written EXCEPT ![c] = <<>>]
    /\ sent' = [sent EXCEPT ![c] = <<>>]
    /\ UNCHANGED <<replayVars, offset, running, sends>>

-----------------------------------------------------------------------------
(***************************************************************************)
(* The server's side.                                                      *)
(***************************************************************************)

Data(c) ==
    /\ running = Idle
    /\ \E n \in 1 .. Len(wire[c]) :
        /\ buffered' = [buffered EXCEPT ![c] = @ \o SubSeq(wire[c], 1, n)]
        /\ wire' = [wire EXCEPT ![c] = SubSeq(@, n + 1, Len(@))]
    /\ running' = c
    /\ offset' = 0
    /\ UNCHANGED <<replayVars, written, clientVars>>

\* decode returns null while the value at `offset` has not wholly arrived.
decodedLate(c) == offset + 2 < Len(buffered[c])     \* mutant: an off-by-one
decoded(c) == offset + 2 <= Len(buffered[c])

Answered(sig, reply) == history' = Append(history, [sig |-> sig, reply |-> reply])

\* Mutant: past the end the recording starts over.
ReplyRecordedAround(c, sig) ==
    LET replies == Recorded[sig]
    IN  /\ replies # <<>>
        /\ matchedCount' = matchedCount + 1
        /\ next' = [next EXCEPT ![sig] = @ + 1]
        /\ LET reply == replies[(next[sig] % Len(replies)) + 1]
           IN  Answered(sig, reply) /\ written' = [written EXCEPT ![c] = Append(@, reply)]
        /\ UNCHANGED missing

\* replyTo for a recorded signature: the next reply, the last one repeating.
ReplyRecorded(c, sig) ==
    LET replies == Recorded[sig]
        index   == IF next[sig] < Len(replies) THEN next[sig] + 1 ELSE Len(replies)
    IN  /\ replies # <<>>
        /\ matchedCount' = matchedCount + 1
        /\ next' = [next EXCEPT ![sig] = @ + 1]
        /\ written' = [written EXCEPT ![c] = Append(@, replies[index])]
        /\ Answered(sig, replies[index])
        /\ UNCHANGED missing

\* Mutants: an invented empty value, no answer at all, a miss counted as a match.
ReplyMissingNil(c, sig) ==
    /\ Recorded[sig] = <<>>
    /\ missing' = missing \union {sig}
    /\ LET nil == [kind |-> "bulk", value |-> "nil"]
       IN  Answered(sig, nil) /\ written' = [written EXCEPT ![c] = Append(@, nil)]
    /\ UNCHANGED <<next, matchedCount>>

ReplyMissingSilent(c, sig) ==
    /\ Recorded[sig] = <<>>
    /\ missing' = missing \union {sig}
    /\ Answered(sig, NoRecording)
    /\ UNCHANGED <<written, next, matchedCount>>

ReplyMissingCounted(c, sig) ==
    /\ Recorded[sig] = <<>>
    /\ missing' = missing \union {sig}
    /\ matchedCount' = matchedCount + 1
    /\ written' = [written EXCEPT ![c] = Append(@, NoRecording)]
    /\ Answered(sig, NoRecording)
    /\ UNCHANGED next

\* replyTo for a signature nobody recorded.
ReplyMissing(c, sig) ==
    /\ Recorded[sig] = <<>>
    /\ missing' = missing \union {sig}
    /\ written' = [written EXCEPT ![c] = Append(@, NoRecording)]
    /\ Answered(sig, NoRecording)
    /\ UNCHANGED <<next, matchedCount>>

replyTo(c, sig) == ReplyRecorded(c, sig) \/ ReplyMissing(c, sig)

\* One iteration of the handler's loop.
Decode(c) ==
    /\ running = c
    /\ decoded(c)
    /\ LET frame == buffered[c][offset + 2]
       IN  IF IsCommand(frame) THEN replyTo(c, signatureOf(toCommand(frame)))
           ELSE UNCHANGED <<replayVars, written>>
    /\ offset' = offset + 2
    /\ UNCHANGED <<wire, buffered, running, clientVars>>

\* Mutant: the partial command at the end of a chunk is dropped.
ReturnDropping(c) ==
    /\ running = c
    /\ ~ decoded(c)
    /\ buffered' = [buffered EXCEPT ![c] = <<>>]
    /\ running' = Idle
    /\ offset' = 0
    /\ UNCHANGED <<replayVars, wire, written, clientVars>>

\* The loop breaks, and what is left of the buffer waits for the next chunk.
Return(c) ==
    /\ running = c
    /\ ~ decoded(c)
    /\ buffered' = [buffered EXCEPT ![c] = SubSeq(@, offset + 1, Len(@))]
    /\ running' = Idle
    /\ offset' = 0
    /\ UNCHANGED <<replayVars, wire, written, clientVars>>

-----------------------------------------------------------------------------

Serve(c) == Data(c) \/ Decode(c) \/ Return(c)

Next == \E c \in Connection :
            \/ \E frame \in Frame : Send(c, frame)
            \/ Disconnect(c)
            \/ Serve(c)

\* Bytes in flight arrive, and the event loop runs the handlers they wake.
Fairness == \A c \in Connection : WF_vars(Serve(c))

Spec == Init /\ [][Next]_vars /\ Fairness

-----------------------------------------------------------------------------
(***************************************************************************)
(* Properties.                                                             *)
(***************************************************************************)

\* Every variable keeps its type.
TypeOK ==
    /\ next \in [Signature -> Nat]
    /\ matchedCount \in Nat
    /\ missing \in SUBSET Signature
    /\ wire \in [Connection -> Seq(Frame)]
    /\ buffered \in [Connection -> Seq(Frame)]
    /\ offset \in Nat
    /\ running \in Connection \union {Idle}
    /\ written \in [Connection -> Seq(Reply \union {NoRecording})]
    /\ sent \in [Connection -> Seq(Frame)]
    /\ sends \in Nat
    /\ history \in Seq([sig : Signature, reply : Reply \union {NoRecording}])

Service == INSTANCE ReplayService

\* redisReplayServer.ts:6-8: whatever the chunks, the pipelining, the number of
\* connections and the reconnections, the answers given are those of the abstract
\* service: recorded order per command, the last reply repeating, errors for the rest.
ImplementsReplayService == Service!Spec

\* How many of the first i frames the client expects a reply to, and how many the
\* server takes for commands.
AskedIn(frames, i) == Cardinality({j \in 1 .. i : Asks(frames[j])})
CommandsIn(frames, i) == Cardinality({j \in 1 .. i : IsCommand(frames[j])})

Fits(reply, command) ==
    LET replies == Recorded[signatureOf(toCommand(command))]
    IN  IF replies = <<>> THEN reply = NoRecording ELSE reply \in Range(replies)

\* A RESP client pairs replies with commands by position.  There are never more
\* replies on a socket than commands, and the n-th is one recorded for the n-th
\* command the client sent on it, or the error exactly when that was not recorded.
\* From its first inline command on a client is out of step: the server passes over
\* one, against resp.ts:101-105, and answers it with the reply to a later command.
RepliesMatchPositions ==
    \A c \in Connection :
        /\ Len(written[c]) <= AskedIn(sent[c], Len(sent[c]))
        /\ \A i \in DOMAIN sent[c] :
            Asks(sent[c][i]) /\ AskedIn(sent[c], i) <= Len(written[c]) =>
                \/ \E j \in 1 .. i : Inline(sent[c][j])
                \/ Fits(written[c][AskedIn(sent[c], i)], sent[c][i])

\* The summary of `cvx replay` names every call that had no recording and counts
\* the others, each once, however the calls were spread over connections.
StatsAgree ==
    /\ missing = {history[k].sig : k \in {j \in DOMAIN history :
                                            history[j].reply = NoRecording}}
    /\ matchedCount = Cardinality({k \in DOMAIN history :
                                            history[k].reply # NoRecording})

\* Between two handlers nothing decodable is left in a buffer: a complete command
\* never waits for bytes the client has no reason to send.
NothingStuck ==
    running = Idle => \A c \in Connection : Len(buffered[c]) < 2

InlineIn(frames, i) == Cardinality({j \in 1 .. i : Inline(frames[j])})

\* On a connection that stays open every command is answered in the end, but for the
\* inline ones, against resp.ts:101-105: a client waits for ever for as many replies as
\* it has sent of those, and they keep no other command from being answered.
EveryCommandAnswered ==
    \A c \in Connection :
        []<>(Len(written[c]) + InlineIn(sent[c], Len(sent[c])) = AskedIn(sent[c], Len(sent[c])))

=============================================================================
