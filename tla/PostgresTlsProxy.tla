-------------------------- MODULE PostgresTlsProxy --------------------------
(***************************************************************************)
(* src/record/tls/postgresTlsProxy.ts: the proxy a Postgres dependency     *)
(* gets when openssl is available.  A connection that asks for TLS is      *)
(* upgraded on both sides, two handshakes that finish in either order, and *)
(* is recorded from then on; any other is passed through.                  *)
(*                                                                         *)
(* A message stands for what one side says in one go: the startup, then    *)
(* statements, each answered once.  What a recorder makes of the bytes is  *)
(* PostgresRecorder's; here it pairs an answer with the message answered.  *)
(* A client sends nothing between its startup and the answer, so the       *)
(* socket that `once('data')` leaves flowing has nothing to lose.          *)
(***************************************************************************)
EXTENDS Naturals, Sequences

CONSTANTS
    Connection,
    MaxMessages     \* bound: messages one client sends

ASSUME MaxMessagesAssumption == MaxMessages \in Nat \ {0}

Message == 1 .. MaxMessages

VARIABLES
    client,         \* "accepted", then "plain", or "handshaking" and "secure";
                    \* "closed" if plain and over, "left" if TLS and it closed its
                    \* socket, "gone" if the proxy destroyed it
    upstream,       \* "none", "connecting", "asked", "handshaking", "secure", "piped";
                    \* "gone", "left", or "broken" in its handshake
    recording,      \* record() has been called
    up, down,       \* written by the client and the database, not yet read
    atServer,       \* what has reached the database
    atClient,       \* what the proxy has written to the client, who may have left
    said,           \* how many messages each client has written
    pending,        \* per recorder: messages without an answer
    interactions,   \* what onInteraction has collected
    failures        \* connections onUpgradeFailure has named

channels == <<up, down, atServer, atClient, said>>
log == <<pending, interactions>>
vars == <<client, upstream, recording, channels, log, failures>>

Everywhere(x) == [c \in Connection |-> x]

Init ==
    /\ client = Everywhere("accepted")
    /\ upstream = Everywhere("none")
    /\ recording = Everywhere(FALSE)
    /\ up = Everywhere(<<>>) /\ down = Everywhere(<<>>)
    /\ atServer = Everywhere(<<>>) /\ atClient = Everywhere(<<>>)
    /\ said = Everywhere(0)
    /\ pending = Everywhere(<<>>)
    /\ interactions = <<>>
    /\ failures = {}

Becomes(c, clientState, upstreamState) ==
    /\ client' = [client EXCEPT ![c] = clientState]
    /\ upstream' = [upstream EXCEPT ![c] = upstreamState]

\* Mutant: the failure is put down to nobody in particular.
OnUpgradeFailureOfUnknown(c) == failures' = failures \union {"unknown"}

onUpgradeFailure(c) == failures' = failures \union {c}

-----------------------------------------------------------------------------
(***************************************************************************)
(* The first bytes of a connection.                                        *)
(***************************************************************************)

\* passThrough: the startup goes on once the database is connected.
PassThrough(c) ==
    /\ client[c] = "accepted"
    /\ Becomes(c, "plain", "connecting")
    /\ said' = [said EXCEPT ![c] = 1]
    /\ up' = [up EXCEPT ![c] = <<1>>]
    /\ UNCHANGED <<recording, down, atServer, atClient, log, failures>>

\* The request is granted before anything is known of the database.
AcceptTls(c) ==
    /\ client[c] = "accepted"
    /\ Becomes(c, "handshaking", "connecting")
    /\ UNCHANGED <<recording, channels, log, failures>>

\* Granted as well, but no certificate could be made for the host.
NoCertificate(c) ==
    /\ client[c] = "accepted"
    /\ Becomes(c, "gone", "none")
    /\ onUpgradeFailure(c)
    /\ UNCHANGED <<recording, channels, log>>

-----------------------------------------------------------------------------
(***************************************************************************)
(* The upgrade.                                                            *)
(***************************************************************************)

ClientHandshake(c) ==
    /\ client[c] = "handshaking"
    /\ Becomes(c, "secure", upstream[c])
    /\ UNCHANGED <<recording, channels, log, failures>>

\* The client's 'error', a refused certificate, a reset at any time or a write to one
\* that has left, is reported as a refusal; `drop` takes the upstream along once the
\* database has agreed.
ClientError(c) ==
    /\ client[c] \in {"handshaking", "secure", "left"}
    /\ Becomes(c, "gone", IF upstream[c] = "handshaking" \/ recording[c] THEN "gone"
                          ELSE upstream[c])
    /\ onUpgradeFailure(c)
    /\ UNCHANGED <<recording, channels, log>>

\* A pipe from a client that is over ends the database's side at once.
Connected(c) ==
    /\ upstream[c] = "connecting"
    /\ Becomes(c, client[c], CASE client[c] = "plain" -> "piped"
                               [] client[c] = "closed" -> "gone"
                               [] OTHER -> "asked")
    /\ UNCHANGED <<recording, channels, log, failures>>

\* A plain client's own 'error' comes to the same.
ConnectFails(c) ==
    /\ upstream[c] = "connecting"
    /\ IF client[c] \in {"plain", "closed"}
       THEN Becomes(c, "closed", "gone") /\ UNCHANGED failures
       ELSE Becomes(c, "gone", "gone") /\ onUpgradeFailure(c)
    /\ UNCHANGED <<recording, channels, log>>

DatabaseAgrees(c) ==
    /\ upstream[c] = "asked"
    /\ Becomes(c, client[c], "handshaking")
    /\ UNCHANGED <<recording, channels, log, failures>>

\* Mutants: only the database's side is destroyed; nothing is reported.
DatabaseRefusesSilently(c) ==
    /\ upstream[c] = "asked"
    /\ Becomes(c, "gone", "gone")
    /\ UNCHANGED <<recording, channels, log, failures>>

DatabaseRefusesAlone(c) ==
    /\ upstream[c] = "asked"
    /\ Becomes(c, client[c], "gone")
    /\ onUpgradeFailure(c)
    /\ UNCHANGED <<recording, channels, log>>

\* Anything but 'S', or an 'error' instead of an answer.
DatabaseRefuses(c) ==
    /\ upstream[c] = "asked"
    /\ Becomes(c, "gone", "gone")
    /\ onUpgradeFailure(c)
    /\ UNCHANGED <<recording, channels, log>>

\* Mutant: the client's side was flowing with nobody listening.
UpstreamHandshakeFlowing(c) ==
    /\ upstream[c] = "handshaking"
    /\ Becomes(c, client[c], "secure")
    /\ recording' = [recording EXCEPT ![c] = TRUE]
    /\ up' = [up EXCEPT ![c] = <<>>]
    /\ UNCHANGED <<down, atServer, atClient, said, log, failures>>

\* record() starts when the database's side is secure, whatever the client's is.
UpstreamHandshake(c) ==
    /\ upstream[c] = "handshaking"
    /\ Becomes(c, client[c], "secure")
    /\ recording' = [recording EXCEPT ![c] = TRUE]
    /\ UNCHANGED <<channels, log, failures>>

\* drop, which names nothing; a socket that ends within its handshake is an 'error' too.
UpstreamHandshakeFails(c) ==
    /\ upstream[c] = "handshaking"
    /\ Becomes(c, "gone", "broken")
    /\ UNCHANGED <<recording, channels, log, failures>>

-----------------------------------------------------------------------------
(***************************************************************************)
(* Relaying: record() and the pipes of passThrough.                        *)
(***************************************************************************)

Relaying(c) == recording[c] \/ upstream[c] = "piped"

\* A write to a database that has ended is lost without an error.
ReadClient(c) ==
    /\ Relaying(c) /\ up[c] # <<>> /\ client[c] \notin {"gone", "closed"}
    /\ up' = [up EXCEPT ![c] = Tail(@)]
    /\ atServer' = [atServer EXCEPT ![c] =
                        IF upstream[c] \in {"secure", "piped"} THEN Append(@, Head(up[c])) ELSE @]
    /\ pending' = [pending EXCEPT ![c] = IF recording[c] THEN Append(@, Head(up[c])) ELSE @]
    /\ UNCHANGED <<client, upstream, recording, down, atClient, said, interactions, failures>>

\* Mutant: the answer is passed on and the recorder forgotten.
ReadServerUnflushed(c) ==
    /\ Relaying(c) /\ down[c] # <<>> /\ client[c] \in {"plain", "secure", "left"}
    /\ down' = [down EXCEPT ![c] = Tail(@)]
    /\ atClient' = [atClient EXCEPT ![c] = Append(@, Head(down[c]))]
    /\ UNCHANGED <<client, upstream, recording, up, atServer, said, log, failures>>

\* The answer to a client that has left is recorded all the same.
ReadServer(c) ==
    /\ Relaying(c) /\ down[c] # <<>> /\ client[c] \in {"plain", "secure", "left"}
    /\ down' = [down EXCEPT ![c] = Tail(@)]
    /\ atClient' = [atClient EXCEPT ![c] = Append(@, Head(down[c]))]
    /\ IF recording[c]
       THEN /\ pending' = [pending EXCEPT ![c] = Tail(@)]
            /\ interactions' = Append(interactions, [on |-> c, message |-> Head(pending[c]),
                                                     answer |-> Head(down[c])])
       ELSE UNCHANGED log
    /\ UNCHANGED <<client, upstream, recording, up, atServer, said, failures>>

\* The database's 'error', or a plain client's: drop, in record() and in passThrough.
UpstreamError(c) ==
    /\ upstream[c] \in {"secure", "piped"}
    /\ Becomes(c, IF client[c] = "plain" THEN "closed" ELSE "gone", "gone")
    /\ UNCHANGED <<recording, channels, log, failures>>

\* A client closes its socket, at any stage: behind what it wrote once that is being
\* read.  A pipe hands the 'end' on; nobody listens for it on a TLS client, neither
\* upgradeUpstream nor record(), and the upgrade goes on.
ClientEnds(c) ==
    /\ client[c] \in {"plain", "handshaking", "secure"} /\ (Relaying(c) => up[c] = <<>>)
    /\ IF client[c] = "plain"
       THEN Becomes(c, "closed", IF Relaying(c) THEN "gone" ELSE upstream[c])
       ELSE Becomes(c, "left", upstream[c])
    /\ UNCHANGED <<recording, channels, log, failures>>

\* The database closes its socket; instead of answering the SSLRequest this is neither
\* 'data' nor 'error', and nothing happens.
DatabaseEnds(c) ==
    /\ upstream[c] \in {"asked", "secure", "piped"} /\ down[c] = <<>>
    /\ Becomes(c, IF client[c] = "plain" THEN "closed" ELSE client[c], "left")
    /\ UNCHANGED <<recording, channels, log, failures>>

-----------------------------------------------------------------------------
(***************************************************************************)
(* The client and the database.                                            *)
(***************************************************************************)

\* The startup, once its own handshake is done, then statements.
ClientWrites(c) ==
    /\ \/ client[c] = "secure" /\ said[c] = 0
       \/ client[c] \in {"plain", "secure"} /\ atClient[c] # <<>>
    /\ said[c] < MaxMessages
    /\ said' = [said EXCEPT ![c] = @ + 1]
    /\ up' = [up EXCEPT ![c] = Append(@, said[c] + 1)]
    /\ UNCHANGED <<client, upstream, recording, down, atServer, atClient, log, failures>>

DatabaseAnswers(c) ==
    /\ upstream[c] \in {"secure", "piped"}
    /\ LET answered == Len(atClient[c]) + Len(down[c])
       IN  /\ answered < Len(atServer[c])
           /\ down' = [down EXCEPT ![c] = Append(@, atServer[c][answered + 1])]
    /\ UNCHANGED <<client, upstream, recording, up, atServer, atClient, said, log, failures>>

-----------------------------------------------------------------------------

ConnectSettles(c) == Connected(c) \/ ConnectFails(c)

DatabaseReplies(c) == DatabaseAgrees(c) \/ DatabaseRefuses(c)

UpstreamSettles(c) == UpstreamHandshake(c) \/ UpstreamHandshakeFails(c)

Next ==
    \E c \in Connection :
        \/ PassThrough(c) \/ AcceptTls(c) \/ NoCertificate(c)
        \/ ClientHandshake(c) \/ ClientError(c)
        \/ ConnectSettles(c) \/ DatabaseReplies(c) \/ UpstreamSettles(c)
        \/ ReadClient(c) \/ ReadServer(c) \/ UpstreamError(c) \/ ClientEnds(c) \/ DatabaseEnds(c)
        \/ ClientWrites(c) \/ DatabaseAnswers(c)

\* Connecting succeeds or fails: TCP has a timeout.  Nothing else is waited for with one,
\* so a database may keep silent after the SSLRequest or in its handshake, and so may a
\* client.
Fairness == \A c \in Connection : WF_vars(ConnectSettles(c))

Spec == Init /\ [][Next]_vars /\ Fairness

-----------------------------------------------------------------------------
(***************************************************************************)
(* Properties.                                                             *)
(***************************************************************************)

TypeOK ==
    /\ client \in [Connection -> {"accepted", "plain", "handshaking", "secure", "closed", "gone",
                              "left"}]
    /\ upstream \in [Connection -> {"none", "connecting", "asked", "handshaking", "secure",
                                    "piped", "gone", "left", "broken"}]
    /\ recording \in [Connection -> BOOLEAN]
    /\ \A channel \in {up, down, atServer, atClient, pending} :
            channel \in [Connection -> Seq(Message)]
    /\ said \in [Connection -> 0 .. MaxMessages]
    /\ interactions \in Seq([on : Connection, message : Message, answer : Message])
    /\ failures \subseteq Connection

UpTo(n) == [k \in 1 .. n |-> k]

\* postgresTlsProxy.ts:38-57 with :95-100: messages arrive in order, and until the
\* database's side is over none is lost, those the client wrote while that side was
\* still being upgraded included.
NothingLostInTheUpgrade ==
    \A c \in Connection :
        /\ atServer[c] = UpTo(Len(atServer[c]))
        /\ upstream[c] \notin {"left", "gone"} => atServer[c] \o up[c] = UpTo(said[c])

RecordedOn(c) == {k \in DOMAIN interactions : interactions[k].on = c}

\* Over TLS, whatever order the two handshakes finished in, an answer the client has
\* received is recorded with the message it answers.
TlsIsRecorded ==
    /\ \A k \in DOMAIN interactions : interactions[k].message = interactions[k].answer
    /\ \A c \in Connection : recording[c] =>
        \A n \in DOMAIN atClient[c] :
            \E k \in RecordedOn(c) : interactions[k].answer = atClient[c][n]

\* :141-146, "Named rather than silently unrecorded", as far as it goes: a client that
\* the proxy disconnects before it was recorded is named, except where the database's own
\* handshake broke, and a connection is named only when it is over for the client.  One
\* that closes its socket itself, refusing the certificate or not, is named by nobody.
UnrecordedIsNamed ==
    \A c \in Connection :
        /\ client[c] = "gone" /\ ~ recording[c] => c \in failures \/ upstream[c] = "broken"
        /\ c \in failures => client[c] = "gone"

\* A client that was granted TLS is recorded, disconnected or closes itself in the end,
\* unless the database says nothing from some moment on: none is left waiting for one that
\* could not be reached, refused, or failed in its handshake.
UpgradeSettles ==
    \A c \in Connection :
        client[c] \in {"handshaking", "secure"} ~>
            \/ recording[c] \/ client[c] \in {"gone", "left"}
            \/ [](upstream[c] \in {"asked", "handshaking", "left"})

\* README.md:19, of DATABASE_URL: "rewritten to a proxy that decodes the wire
\* protocol": whatever the database answered to a client's statements, the messages
\* behind its startup, is recorded.
AnswersAreRecorded ==
    \A c \in Connection : \A n \in DOMAIN atClient[c] \ {1} :
        \E k \in RecordedOn(c) : interactions[k].answer = atClient[c][n]

=============================================================================
