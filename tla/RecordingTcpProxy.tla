------------------------- MODULE RecordingTcpProxy -------------------------
(***************************************************************************)
(* The TCP proxy of src/record/tcp/recordingTcpProxy.ts: bridge() for each *)
(* accepted connection, one protocol recorder per connection, and the list *)
(* of interactions they all add to.  The recorder is a parameter, as it is *)
(* in the code: the theorems of RecordingTcpProxyProofs hold of every one, *)
(* and RedisRecording instantiates it.                                     *)
(*                                                                         *)
(* Bytes travel "up", from the client to the dependency, and "down".  In   *)
(* either direction they are on the wire until the proxy reads them, in    *)
(* its socket's queue until the destination takes them, and then got.      *)
(***************************************************************************)
EXTENDS Naturals, Sequences

CONSTANTS
    Connection,
    Byte,
    NewRecorder,            \* createRecorder()
    OnClientData(_, _),     \* the recorder after onClientData(chunk), and after
    OnServerData(_, _),     \* onServerData(chunk), also where safely() caught it
    Completed(_),           \* what drain() would return
    Drained(_),             \* the recorder after drain()
    MayFail                 \* connections whose sockets may emit 'error'

Direction == {"up", "down"}

VARIABLES
    bridge,         \* "open", or "closed" once both sockets are destroyed
    wire,           \* written by the source, not read by the proxy
    queue,          \* written by the proxy, not taken by the destination
    got,            \* received by the destination
    ended,          \* the source has ended its side
    recorder,
    interactions,   \* what onInteraction has collected, over all connections
    sent            \* ghost: everything the source wrote

vars == <<bridge, wire, queue, got, ended, recorder, interactions, sent>>

PerDirection(x) == [c \in Connection |-> [d \in Direction |-> x]]

Init ==
    /\ bridge = [c \in Connection |-> "open"]
    /\ wire = PerDirection(<<>>)
    /\ queue = PerDirection(<<>>)
    /\ got = PerDirection(<<>>)
    /\ ended = PerDirection(FALSE)
    /\ recorder = [c \in Connection |-> NewRecorder]
    /\ interactions = <<>>
    /\ sent = PerDirection(<<>>)

-----------------------------------------------------------------------------
(***************************************************************************)
(* The client and the dependency.                                          *)
(***************************************************************************)

Write(c, d, bytes) ==
    /\ bridge[c] = "open" /\ ~ ended[c][d]
    /\ wire' = [wire EXCEPT ![c][d] = @ \o bytes]
    /\ sent' = [sent EXCEPT ![c][d] = @ \o bytes]
    /\ UNCHANGED <<bridge, queue, got, ended, recorder, interactions>>

End(c, d) ==
    /\ bridge[c] = "open" /\ ~ ended[c][d]
    /\ ended' = [ended EXCEPT ![c][d] = TRUE]
    /\ UNCHANGED <<bridge, wire, queue, got, recorder, interactions, sent>>

\* The destination takes some of what the proxy has written to it.
Take(c, d) ==
    /\ \E n \in 1 .. Len(queue[c][d]) :
        /\ got' = [got EXCEPT ![c][d] = @ \o SubSeq(queue[c][d], 1, n)]
        /\ queue' = [queue EXCEPT ![c][d] = SubSeq(@, n + 1, Len(@))]
    /\ UNCHANGED <<bridge, wire, ended, recorder, interactions, sent>>

-----------------------------------------------------------------------------
(***************************************************************************)
(* The proxy's handlers.                                                   *)
(***************************************************************************)

\* Mutant: the chunk is written once the recorder has completed something.
ForwardParsed(c, d, n) ==
    /\ wire' = [wire EXCEPT ![c][d] = SubSeq(@, n + 1, Len(@))]
    /\ queue' = IF recorder'[c] = recorder[c] THEN queue
                ELSE [queue EXCEPT ![c][d] = @ \o SubSeq(wire[c][d], 1, n)]

\* A chunk of n bytes is read from one socket and written to the other.
Forward(c, d, n) ==
    /\ wire' = [wire EXCEPT ![c][d] = SubSeq(@, n + 1, Len(@))]
    /\ queue' = [queue EXCEPT ![c][d] = @ \o SubSeq(wire[c][d], 1, n)]

ClientData(c) ==
    /\ \E n \in 1 .. Len(wire[c]["up"]) :
        /\ recorder' = [recorder EXCEPT ![c] = OnClientData(@, SubSeq(wire[c]["up"], 1, n))]
        /\ Forward(c, "up", n)
    /\ UNCHANGED <<bridge, got, ended, interactions, sent>>

\* Mutant: interactions wait in the recorder until the connection closes.
UpstreamDataUnflushed(c) ==
    /\ \E n \in 1 .. Len(wire[c]["down"]) :
        /\ recorder' = [recorder EXCEPT ![c] = OnServerData(@, SubSeq(wire[c]["down"], 1, n))]
        /\ Forward(c, "down", n)
    /\ UNCHANGED <<bridge, got, ended, interactions, sent>>

UpstreamData(c) ==
    /\ \E n \in 1 .. Len(wire[c]["down"]) :
        LET parsed == OnServerData(recorder[c], SubSeq(wire[c]["down"], 1, n))
        IN  /\ interactions' = interactions \o Completed(parsed)
            /\ recorder' = [recorder EXCEPT ![c] = Drained(parsed)]
            /\ Forward(c, "down", n)
    /\ UNCHANGED <<bridge, got, ended, sent>>

\* flush, then destroy both sockets: what they still hold goes with them.
close(c) ==
    /\ interactions' = interactions \o Completed(recorder[c])
    /\ recorder' = [recorder EXCEPT ![c] = Drained(@)]
    /\ bridge' = [bridge EXCEPT ![c] = "closed"]
    /\ wire' = [wire EXCEPT ![c] = [d \in Direction |-> <<>>]]
    /\ queue' = [queue EXCEPT ![c] = [d \in Direction |-> <<>>]]
    /\ UNCHANGED <<got, ended, sent>>

\* 'end' comes once everything before it has been read.
OnEnd(c) ==
    /\ bridge[c] = "open"
    /\ \E d \in Direction : ended[c][d] /\ wire[c][d] = <<>>
    /\ close(c)

OnError(c) == c \in MayFail /\ bridge[c] = "open" /\ close(c)

-----------------------------------------------------------------------------

Proxy(c) == ClientData(c) \/ UpstreamData(c) \/ OnEnd(c) \/ OnError(c)

Environment(c) ==
    \E d \in Direction :
        End(c, d) \/ Take(c, d) \/ \E bytes \in Seq(Byte) : Write(c, d, bytes)

Next == \E c \in Connection : Proxy(c) \/ Environment(c)

Spec == Init /\ [][Next]_vars

-----------------------------------------------------------------------------
(***************************************************************************)
(* Properties.                                                             *)
(***************************************************************************)

\* recordingTcpProxy.ts:5-8: whatever the recorder does with a chunk, the
\* destination's bytes are the source's, in the source's order.  Nothing is lost
\* while the connection is open; past that a tail may be.
RelayIsExact ==
    \A c \in Connection, d \in Direction :
        /\ bridge[c] = "open" => sent[c][d] = got[c][d] \o queue[c][d] \o wire[c][d]
        /\ Len(got[c][d]) <= Len(sent[c][d])
        /\ got[c][d] = SubSeq(sent[c][d], 1, Len(got[c][d]))

=============================================================================
