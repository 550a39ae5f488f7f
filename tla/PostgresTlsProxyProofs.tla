----------------------- MODULE PostgresTlsProxyProofs -----------------------
(***************************************************************************)
(* Proofs about the Postgres TLS proxy, for every set of connections and   *)
(* every number of messages.                                               *)
(***************************************************************************)
EXTENDS PostgresTlsProxy, TLAPS

USE MaxMessagesAssumption

ClientState ==
    {"accepted", "plain", "handshaking", "secure", "closed", "gone", "left"}

\* The database is not yet relayed to, or never was.
Before == {"none", "connecting", "asked", "handshaking", "broken"}

UpstreamState == Before \union {"secure", "piped", "gone", "left"}

InteractionType == [on : Connection, message : Message, answer : Message]

\* TypeOK, channel by channel.
Types ==
    /\ client \in [Connection -> ClientState]
    /\ upstream \in [Connection -> UpstreamState]
    /\ recording \in [Connection -> BOOLEAN]
    /\ up \in [Connection -> Seq(Message)] /\ down \in [Connection -> Seq(Message)]
    /\ atServer \in [Connection -> Seq(Message)] /\ atClient \in [Connection -> Seq(Message)]
    /\ pending \in [Connection -> Seq(Message)]
    /\ said \in [Connection -> 0 .. MaxMessages]
    /\ interactions \in Seq(InteractionType)
    /\ failures \subseteq Connection

LEMMA TypesAgree == TypeOK <=> Types
BY DEF TypeOK, Types, ClientState, UpstreamState, Before, InteractionType

-----------------------------------------------------------------------------
(***************************************************************************)
(* The invariant, one connection at a time.  A client's messages are       *)
(* numbered, so a channel is known by where it starts and its length.      *)
(***************************************************************************)

Numbered(s, from) == \A k \in 1 .. Len(s) : s[k] = from + k

\* How many messages the proxy has read from a client.
Read(c) == said[c] - Len(up[c])

\* How far the two sides can be when.
Stage(c) ==
    /\ client[c] = "accepted" => upstream[c] = "none" /\ said[c] = 0
    /\ client[c] = "plain" => upstream[c] \in {"connecting", "piped"}
    /\ upstream[c] = "piped" => client[c] = "plain"
    /\ upstream[c] = "secure" => recording[c]
    /\ recording[c] => upstream[c] \in {"secure", "gone", "left"}

Commands(c) ==
    /\ Len(up[c]) <= said[c] /\ Numbered(up[c], Read(c))
    /\ Len(atServer[c]) <= Read(c) /\ Numbered(atServer[c], 0)
    /\ upstream[c] \notin {"left", "gone"} => Len(atServer[c]) = Read(c)
    /\ upstream[c] \in Before => Len(atServer[c]) = 0

Answers(c) ==
    /\ Numbered(atClient[c], 0) /\ Numbered(down[c], Len(atClient[c]))
    /\ Len(atClient[c]) + Len(down[c]) <= Len(atServer[c])

\* While a connection is recorded, what was read and not answered is pending.
Pending(c) ==
    IF recording[c]
    THEN Numbered(pending[c], Len(atClient[c])) /\ Len(pending[c]) = Read(c) - Len(atClient[c])
    ELSE pending[c] = <<>>

Named(c) ==
    /\ client[c] = "gone" /\ ~ recording[c] => c \in failures \/ upstream[c] = "broken"
    /\ c \in failures => client[c] = "gone"

Recorded(c) ==
    recording[c] => \A n \in DOMAIN atClient[c] :
                        \E k \in RecordedOn(c) : interactions[k].answer = atClient[c][n]

ConnectionInv(c) ==
    Stage(c) /\ Commands(c) /\ Answers(c) /\ Pending(c) /\ Named(c) /\ Recorded(c)

Pairs == \A k \in DOMAIN interactions : interactions[k].message = interactions[k].answer

Inv == Types /\ Pairs /\ \A c \in Connection : ConnectionInv(c)

-----------------------------------------------------------------------------

LEMMA Lengths ==
    ASSUME Types, NEW c \in Connection
    PROVE  /\ Len(up[c]) \in Nat /\ Len(down[c]) \in Nat /\ Len(pending[c]) \in Nat
           /\ Len(atServer[c]) \in Nat /\ Len(atClient[c]) \in Nat /\ said[c] \in Nat
<1>1. /\ up[c] \in Seq(Message) /\ down[c] \in Seq(Message) /\ pending[c] \in Seq(Message)
      /\ atServer[c] \in Seq(Message) /\ atClient[c] \in Seq(Message)
    BY DEF Types
<1> QED
    BY <1>1 DEF Types

\* The lengths of channels: two that add up to nothing are nothing, and messages move.
LEMMA NothingLeft ==
    ASSUME NEW m \in Nat, NEW n \in Nat, m + n <= 0
    PROVE  m = 0
OBVIOUS

LEMMA Fewer ==
    ASSUME NEW a \in Nat, NEW b \in Nat, NEW m \in Nat, NEW n \in Nat, a + b <= m, m <= n
    PROVE  a + b <= n /\ (b > 0 => n - a > 0 /\ (a + 1) + (b - 1) <= m)
OBVIOUS

LEMMA OneMore ==
    ASSUME NEW a \in Nat, NEW b \in Nat, NEW m \in Nat, a + b + 1 \in 1 .. m
    PROVE  a + (b + 1) <= m /\ a + b + 1 = 0 + (a + b + 1)
OBVIOUS

LEMMA OneLess ==
    ASSUME NEW a \in Nat, NEW n \in Nat
    PROVE  (n - a) - 1 = n - (a + 1)
OBVIOUS

\* A message taken from a channel, and one put into it.
LEMMA Shorter ==
    ASSUME NEW s \in Seq(Message), s # <<>>, NEW n \in Nat, Numbered(s, n)
    PROVE  /\ Head(s) = n + 1 /\ Head(s) \in Message
           /\ Tail(s) \in Seq(Message) /\ Len(Tail(s)) = Len(s) - 1
           /\ Len(s) \in Nat /\ Len(s) > 0
           /\ Numbered(Tail(s), n + 1)
<1>1. /\ Tail(s) \in Seq(Message) /\ Len(Tail(s)) = Len(s) - 1 /\ Len(s) \in Nat /\ Len(s) > 0
      /\ Head(s) = s[1] /\ Head(s) \in Message
      /\ \A k \in 1 .. Len(s) - 1 : Tail(s)[k] = s[k + 1]
    OBVIOUS
<1>2. s[1] = n + 1
    BY <1>1 DEF Numbered
<1>3. Numbered(Tail(s), n + 1)
    BY <1>1 DEF Numbered
<1> QED
    BY <1>1, <1>2, <1>3

LEMMA Longer ==
    ASSUME NEW s \in Seq(Message), NEW n \in Nat, Numbered(s, n),
           NEW m \in Message, m = n + Len(s) + 1
    PROVE  /\ Append(s, m) \in Seq(Message) /\ Len(Append(s, m)) = Len(s) + 1
           /\ Numbered(Append(s, m), n)
<1>1. /\ Append(s, m) \in Seq(Message) /\ Len(Append(s, m)) = Len(s) + 1 /\ Len(s) \in Nat
      /\ Append(s, m)[Len(s) + 1] = m
      /\ \A k \in 1 .. Len(s) : Append(s, m)[k] = s[k]
    OBVIOUS
<1>2. ASSUME NEW k \in 1 .. Len(s) + 1
      PROVE  Append(s, m)[k] = n + k
    <2>1. CASE k = Len(s) + 1
        BY <1>1, <2>1
    <2>2. CASE k # Len(s) + 1
        BY <1>1, <2>2 DEF Numbered
    <2> QED
        BY <2>1, <2>2
<1> QED
    BY <1>1, <1>2 DEF Numbered

LEMMA Joined ==
    ASSUME NEW s \in Seq(Message), NEW t \in Seq(Message), Numbered(s, 0), Numbered(t, Len(s))
    PROVE  /\ s \o t \in Seq(Message) /\ Len(s \o t) = Len(s) + Len(t)
           /\ \A k \in 1 .. Len(s) + Len(t) : (s \o t)[k] = k
<1>1. /\ s \o t \in Seq(Message) /\ Len(s \o t) = Len(s) + Len(t)
      /\ Len(s) \in Nat /\ Len(t) \in Nat
      /\ \A k \in 1 .. Len(s) + Len(t) :
            (s \o t)[k] = IF k <= Len(s) THEN s[k] ELSE t[k - Len(s)]
    OBVIOUS
<1>2. ASSUME NEW k \in 1 .. Len(s) + Len(t)
      PROVE  (s \o t)[k] = k
    <2>1. CASE k <= Len(s)
        BY <1>1, <2>1 DEF Numbered
    <2>2. CASE ~ k <= Len(s)
        <3>1. k - Len(s) \in 1 .. Len(t)
            BY <1>1, <2>2
        <3>2. t[k - Len(s)] = Len(s) + (k - Len(s))
            BY <3>1 DEF Numbered
        <3> QED
            BY <1>1, <2>2, <3>2
    <2> QED
        BY <2>1, <2>2
<1> QED
    BY <1>1, <1>2

LEMMA CountsUp ==
    ASSUME NEW s \in Seq(Message), NEW n, n = Len(s), \A k \in 1 .. n : s[k] = k
    PROVE  s = UpTo(n)
<1>1. s = [k \in 1 .. n |-> s[k]]
    OBVIOUS
<1>2. [k \in 1 .. n |-> s[k]] = [k \in 1 .. n |-> k]
    OBVIOUS
<1> QED
    BY <1>1, <1>2 DEF UpTo

LEMMA InitInv == Init => Inv
<1> SUFFICES ASSUME Init PROVE Inv
    OBVIOUS
<1> USE DEF Init, Everywhere
<1>1. Types
    BY DEF Types, ClientState, UpstreamState, Before
<1>2. Pairs
    BY DEF Pairs
<1>3. ASSUME NEW c \in Connection
      PROVE  ConnectionInv(c)
    BY DEF ConnectionInv, Stage, Commands, Answers, Pending, Named, Recorded, Numbered, Read, Before
<1> QED
    BY <1>1, <1>2, <1>3 DEF Inv

\* What a step leaves alone of a connection keeps its invariant.
LEMMA OthersStand ==
    ASSUME Inv, NEW d \in Connection,
           client'[d] = client[d], upstream'[d] = upstream[d], recording'[d] = recording[d],
           up'[d] = up[d], down'[d] = down[d], atServer'[d] = atServer[d],
           atClient'[d] = atClient[d], said'[d] = said[d], pending'[d] = pending[d],
           d \in failures' <=> d \in failures,
           \A k \in DOMAIN interactions : k \in DOMAIN interactions' /\ interactions'[k] = interactions[k]
    PROVE  ConnectionInv(d)'
<1>1. ConnectionInv(d)
    BY DEF Inv
<1>2. Stage(d)' /\ Named(d)'
    BY <1>1 DEF ConnectionInv, Stage, Named
<1>4. Commands(d)'
    BY <1>1 DEF ConnectionInv, Commands, Numbered, Read
<1>5. Answers(d)'
    BY <1>1 DEF ConnectionInv, Answers, Numbered
<1>6. Pending(d)'
    BY <1>1 DEF ConnectionInv, Pending, Numbered, Read
<1>3. Recorded(d)'
    BY <1>1 DEF ConnectionInv, Recorded, RecordedOn
<1> QED
    BY <1>2, <1>3, <1>4, <1>5, <1>6 DEF ConnectionInv

\* Steps that change the state of the two sides and move no message.
LEMMA StateStep ==
    ASSUME Inv, NEW c \in Connection, NEW s \in ClientState, NEW u \in UpstreamState,
           Becomes(c, s, u), UNCHANGED <<recording, channels, log>>,
           failures' = failures \/ failures' = failures \union {c},
           Stage(c)', Named(c)',
           upstream[c] \in {"left", "gone"} => u \in {"left", "gone"},
           u \in Before => upstream[c] \in Before
    PROVE  Inv'
<1> USE DEF Becomes, channels, log
<1>1. Types'
    BY DEF Inv, Types
<1>2. Pairs'
    BY DEF Inv, Pairs
<1>3. client'[c] = s /\ upstream'[c] = u
    BY DEF Inv, Types
<1>4. ConnectionInv(c)'
    <2>1. ConnectionInv(c)
        BY DEF Inv
    <2>2. Commands(c)' /\ Answers(c)' /\ Pending(c)'
        BY <1>3, <2>1 DEF ConnectionInv, Commands, Answers, Pending, Numbered, Read
    <2>3. Recorded(c)'
        BY <2>1 DEF ConnectionInv, Recorded, RecordedOn
    <2> QED
        BY <2>2, <2>3 DEF ConnectionInv
<1>5. ASSUME NEW d \in Connection, d # c
      PROVE  ConnectionInv(d)'
    BY <1>5, OthersStand DEF Inv, Types
<1> QED
    BY <1>1, <1>2, <1>4, <1>5 DEF Inv

\* Steps of one connection that move messages or start the recorder.
LEMMA MessageStep ==
    ASSUME Inv, NEW c \in Connection, Types', Pairs', ConnectionInv(c)', UNCHANGED failures,
           \A d \in Connection \ {c} :
                /\ client'[d] = client[d] /\ upstream'[d] = upstream[d]
                /\ recording'[d] = recording[d] /\ up'[d] = up[d] /\ down'[d] = down[d]
                /\ atServer'[d] = atServer[d] /\ atClient'[d] = atClient[d]
                /\ said'[d] = said[d] /\ pending'[d] = pending[d],
           \A k \in DOMAIN interactions : k \in DOMAIN interactions' /\ interactions'[k] = interactions[k]
    PROVE  Inv'
<1>1. ASSUME NEW d \in Connection, d # c
      PROVE  ConnectionInv(d)'
    BY <1>1, OthersStand
<1> QED
    BY <1>1 DEF Inv

-----------------------------------------------------------------------------

\* The steps of an upgrade, of errors and of ends.
LEMMA SidesStep ==
    ASSUME Inv, NEW c \in Connection,
           \/ AcceptTls(c) \/ NoCertificate(c) \/ ClientHandshake(c) \/ ClientError(c)
           \/ ConnectSettles(c) \/ DatabaseReplies(c) \/ UpstreamHandshakeFails(c)
           \/ UpstreamError(c) \/ ClientEnds(c) \/ DatabaseEnds(c)
    PROVE  Inv'
<1> USE DEF Inv, Types, ConnectionInv, Stage, Named, Becomes, ClientState, UpstreamState, Before,
            onUpgradeFailure
<1>0. client[c] \in ClientState /\ upstream[c] \in UpstreamState
    OBVIOUS
<1>1. CASE AcceptTls(c)
    BY <1>1, StateStep DEF AcceptTls
<1>2. CASE NoCertificate(c)
    BY <1>2, StateStep DEF NoCertificate
<1>3. CASE ClientHandshake(c)
    BY <1>0, <1>3, StateStep DEF ClientHandshake
<1>4. CASE ClientError(c)
    BY <1>0, <1>4, StateStep DEF ClientError
<1>5. CASE Connected(c)
    BY <1>0, <1>5, StateStep DEF Connected
<1>6. CASE ConnectFails(c)
    BY <1>0, <1>6, StateStep DEF ConnectFails
<1>7. CASE DatabaseAgrees(c)
    BY <1>0, <1>7, StateStep DEF DatabaseAgrees
<1>8. CASE DatabaseRefuses(c)
    BY <1>0, <1>8, StateStep DEF DatabaseRefuses
<1>9. CASE UpstreamHandshakeFails(c)
    BY <1>0, <1>9, StateStep DEF UpstreamHandshakeFails
<1>10. CASE UpstreamError(c)
    BY <1>0, <1>10, StateStep DEF UpstreamError
<1>11. CASE ClientEnds(c)
    <2>1. CASE client[c] = "plain" /\ Relaying(c)
        BY <1>0, <1>11, <2>1, StateStep DEF ClientEnds, Relaying
    <2>2. CASE client[c] = "plain" /\ ~ Relaying(c)
        BY <1>0, <1>11, <2>2, StateStep DEF ClientEnds, Relaying
    <2>3. CASE client[c] # "plain"
        <3>1. /\ client[c] \in {"handshaking", "secure"} /\ Becomes(c, "left", upstream[c])
              /\ UNCHANGED <<recording, channels, log, failures>>
            BY <1>11, <2>3 DEF ClientEnds
        <3>2. client'[c] = "left" /\ upstream'[c] = upstream[c]
            BY <3>1
        <3>3. Stage(c)' /\ Named(c)'
            BY <3>1, <3>2
        <3> QED
            BY <1>0, <3>1, <3>3, StateStep
    <2> QED
        BY <2>1, <2>2, <2>3
<1>12. CASE DatabaseEnds(c)
    BY <1>0, <1>12, StateStep DEF DatabaseEnds
<1> QED
    BY <1>1, <1>2, <1>3, <1>4, <1>5, <1>6, <1>7, <1>8, <1>9, <1>10, <1>11, <1>12
    DEF ConnectSettles, DatabaseReplies

LEMMA PassThroughStep ==
    ASSUME Inv, NEW c \in Connection, PassThrough(c)
    PROVE  Inv'
<1> USE DEF PassThrough, Becomes, log
<1>1. Types'
    BY DEF Inv, Types, ClientState, UpstreamState, Before, Message
<1>2. Pairs'
    BY DEF Inv, Pairs
<1>3. /\ client'[c] = "plain" /\ upstream'[c] = "connecting" /\ said'[c] = 1 /\ up'[c] = <<1>>
      /\ client[c] = "accepted" /\ upstream[c] = "none" /\ said[c] = 0 /\ ~ recording[c]
    BY DEF Inv, Types, ConnectionInv, Stage
<1>4. Read(c) = 0 /\ Read(c)' = 0
    BY <1>3 DEF Inv, Types, ConnectionInv, Commands, Read
<1>5. Stage(c)' /\ Named(c)' /\ Recorded(c)'
    BY <1>3 DEF Inv, ConnectionInv, Stage, Named, Recorded
<1>6. Commands(c)'
    BY <1>3, <1>4 DEF Inv, ConnectionInv, Commands, Numbered, Before
<1>7. Answers(c)' /\ Pending(c)'
    BY <1>3 DEF Inv, ConnectionInv, Answers, Pending, Numbered
<1>8. ConnectionInv(c)'
    BY <1>5, <1>6, <1>7 DEF ConnectionInv
<1> QED
    BY <1>1, <1>2, <1>8, MessageStep DEF Inv, Types

\* The recorder starts with nothing read: what the client wrote meanwhile is still unread.
LEMMA UpstreamHandshakeStep ==
    ASSUME Inv, NEW c \in Connection, UpstreamHandshake(c)
    PROVE  Inv'
<1> USE DEF UpstreamHandshake, Becomes, channels, log
<1>1. Types'
    BY DEF Inv, Types, ClientState, UpstreamState, Before
<1>2. Pairs'
    BY DEF Inv, Pairs
<1>3. /\ client'[c] = client[c] /\ upstream'[c] = "secure" /\ recording'[c] = TRUE
      /\ upstream[c] = "handshaking" /\ recording[c] = FALSE
    BY DEF Inv, Types, ConnectionInv, Stage
<1>4. Read(c) = 0 /\ Len(atServer[c]) = 0 /\ Len(atClient[c]) = 0 /\ pending[c] = <<>>
    <2>1. Commands(c) /\ Answers(c) /\ Pending(c) /\ Types
        BY DEF Inv, ConnectionInv
    <2>2. Read(c) = 0 /\ Len(atServer[c]) = 0
        BY <1>3, <2>1 DEF Commands, Before
    <2>3. Len(atClient[c]) = 0
        <3>1. Len(atClient[c]) \in Nat /\ Len(down[c]) \in Nat
            BY <2>1, Lengths
        <3>2. Len(atClient[c]) + Len(down[c]) <= 0
            BY <2>1, <2>2 DEF Answers
        <3> QED
            BY ONLY <3>1, <3>2, NothingLeft
    <2> QED
        BY <1>3, <2>1, <2>2, <2>3 DEF Pending
<1>5. Stage(c)' /\ Named(c)'
    BY <1>3 DEF Inv, ConnectionInv, Stage, Named
<1>6. Commands(c)' /\ Answers(c)'
    BY <1>3, <1>4 DEF Inv, ConnectionInv, Commands, Answers, Numbered, Read, Before
<1>7. Pending(c)' /\ Recorded(c)'
    BY <1>3, <1>4 DEF Pending, Recorded, Numbered, Read, Inv, Types
<1>8. ConnectionInv(c)'
    BY <1>5, <1>6, <1>7 DEF ConnectionInv
<1> QED
    BY <1>1, <1>2, <1>8, MessageStep DEF Inv, Types

-----------------------------------------------------------------------------

\* A message the client wrote is read: it is pending and, if the database is there, its.
LEMMA ReadClientStep ==
    ASSUME Inv, NEW c \in Connection, ReadClient(c)
    PROVE  Inv'
<1> USE DEF ReadClient
<1> DEFINE message == Head(up[c])
<1>0. /\ up[c] \in Seq(Message) /\ down[c] \in Seq(Message) /\ pending[c] \in Seq(Message)
      /\ atServer[c] \in Seq(Message) /\ atClient[c] \in Seq(Message) /\ said[c] \in Nat
      /\ recording[c] \in BOOLEAN
    BY DEF Inv, Types
<1>1. /\ up[c] # <<>> /\ message \in Message /\ Len(up[c]) > 0
      /\ Tail(up[c]) \in Seq(Message) /\ Len(Tail(up[c])) = Len(up[c]) - 1
      /\ \A k \in 1 .. Len(up[c]) - 1 : Tail(up[c])[k] = up[c][k + 1]
    BY <1>0
<1>2. ConnectionInv(c)
    BY DEF Inv
<1>3. /\ message = Read(c) + 1 /\ Read(c)' = Read(c) + 1 /\ Read(c) \in Nat
      /\ Numbered(up'[c], Read(c)') /\ Len(up'[c]) <= said'[c] /\ Len(up'[c]) \in Nat
    <2>1. up'[c] = Tail(up[c]) /\ said' = said
        BY DEF Inv, Types
    <2>2. Len(up[c]) <= said[c] /\ Numbered(up[c], Read(c)) /\ Read(c) = said[c] - Len(up[c])
        BY <1>2 DEF ConnectionInv, Commands, Read
    <2>3. Read(c) \in Nat
        BY ONLY <1>0, <1>1, <2>2
    <2>4. message = Read(c) + 1 /\ Numbered(Tail(up[c]), Read(c) + 1)
        BY <1>0, <1>1, <2>2, <2>3, Shorter
    <2>5. Read(c)' = said[c] - Len(Tail(up[c]))
        BY <2>1 DEF Read
    <2>6. Read(c)' = Read(c) + 1
        BY ONLY <1>0, <1>1, <2>2, <2>5
    <2>7. Len(Tail(up[c])) \in Nat /\ Len(Tail(up[c])) <= said[c]
        BY ONLY <1>0, <1>1, <2>2
    <2> QED
        BY <2>1, <2>3, <2>4, <2>6, <2>7
<1>4. Types'
    <2>1. up' \in [Connection -> Seq(Message)]
        BY <1>1 DEF Inv, Types
    <2>2. PICK written, waits :
            /\ atServer' = [atServer EXCEPT ![c] = written] /\ written \in Seq(Message)
            /\ pending' = [pending EXCEPT ![c] = waits] /\ waits \in Seq(Message)
        <3>1. Append(atServer[c], message) \in Seq(Message)
              /\ Append(pending[c], message) \in Seq(Message)
            BY <1>0, <1>1
        <3>2. \E written \in Seq(Message) : atServer' = [atServer EXCEPT ![c] = written]
            BY <1>0, <3>1
        <3>3. \E waits \in Seq(Message) : pending' = [pending EXCEPT ![c] = waits]
            BY <1>0, <3>1
        <3> QED
            BY <3>2, <3>3
    <2>3. /\ atServer' \in [Connection -> Seq(Message)]
          /\ pending' \in [Connection -> Seq(Message)]
        BY <2>2 DEF Inv, Types
    <2> QED
        BY <2>1, <2>3 DEF Inv, Types
<1>5. Pairs' /\ Stage(c)' /\ Named(c)' /\ Recorded(c)'
    <2>1. Pairs' /\ Stage(c)' /\ Named(c)'
        BY <1>2 DEF Inv, Pairs, ConnectionInv, Stage, Named
    <2>2. Recorded(c)'
        BY <1>2 DEF ConnectionInv, Recorded, RecordedOn
    <2> QED
        BY <2>1, <2>2
<1>6. Commands(c)'
    <2>1. CASE upstream[c] \in {"secure", "piped"}
        <3>1. atServer'[c] = Append(atServer[c], message) /\ upstream' = upstream
            BY <2>1 DEF Inv, Types
        <3>2. Len(atServer[c]) = Read(c) /\ Numbered(atServer[c], 0)
            BY <1>2, <2>1 DEF ConnectionInv, Commands
        <3>3. Len(atServer'[c]) = Read(c)' /\ Numbered(atServer'[c], 0)
            BY <1>0, <1>1, <1>3, <3>1, <3>2, Longer
        <3> QED
            BY <1>3, <2>1, <3>1, <3>3 DEF Commands, Before
    <2>2. CASE upstream[c] \notin {"secure", "piped"}
        <3>1. atServer'[c] = atServer[c] /\ upstream' = upstream
            BY <2>2 DEF Inv, Types
        <3>2. upstream[c] \in {"gone", "left"}
            BY <1>2, <2>2 DEF ConnectionInv, Stage, Relaying
        <3>3. Len(atServer[c]) <= Read(c) /\ Numbered(atServer[c], 0) /\ Len(atServer[c]) \in Nat
            BY <1>0, <1>2 DEF ConnectionInv, Commands
        <3>4. Len(atServer'[c]) <= Read(c)'
            BY <1>3, <3>1, <3>3
        <3> QED
            BY <1>3, <3>1, <3>2, <3>3, <3>4 DEF Commands, Before
    <2> QED
        BY <2>1, <2>2
<1>7. Answers(c)'
    <2>1. /\ atServer'[c] = atServer[c] \/ atServer'[c] = Append(atServer[c], message)
          /\ atClient'[c] = atClient[c] /\ down'[c] = down[c]
        BY DEF Inv, Types
    <2>2. Len(atServer'[c]) \in Nat /\ Len(atServer'[c]) >= Len(atServer[c])
        BY <1>0, <1>1, <2>1
    <2>3. /\ Numbered(atClient[c], 0) /\ Numbered(down[c], Len(atClient[c]))
          /\ Len(atClient[c]) + Len(down[c]) <= Len(atServer[c])
        BY <1>2 DEF ConnectionInv, Answers
    <2>4. Len(atClient[c]) + Len(down[c]) <= Len(atServer'[c])
        <3>1. Len(atClient[c]) \in Nat /\ Len(down[c]) \in Nat /\ Len(atServer[c]) \in Nat
            BY <1>0
        <3> QED
            BY ONLY <2>2, <2>3, <3>1, Fewer
    <2> QED
        BY <2>1, <2>3, <2>4 DEF Answers
<1>8. Pending(c)'
    <2>1. CASE recording[c]
        <3>1. pending'[c] = Append(pending[c], message) /\ recording'[c] /\ atClient'[c] = atClient[c]
            BY <2>1 DEF Inv, Types
        <3>2. Numbered(pending[c], Len(atClient[c])) /\ Len(pending[c]) = Read(c) - Len(atClient[c])
            BY <1>2, <2>1 DEF ConnectionInv, Pending
        <3>3. message = Len(atClient[c]) + Len(pending[c]) + 1
            BY ONLY <1>0, <1>3, <3>2
        <3>4. Len(pending'[c]) = Len(pending[c]) + 1 /\ Numbered(pending'[c], Len(atClient[c]))
            BY <1>0, <1>1, <3>1, <3>2, <3>3, Longer
        <3>5. Len(pending'[c]) = Read(c)' - Len(atClient'[c])
            BY <1>0, <1>3, <3>1, <3>2, <3>4
        <3> QED
            BY <3>1, <3>4, <3>5 DEF Pending
    <2>2. CASE ~ recording[c]
        BY <1>2, <2>2 DEF Inv, Types, ConnectionInv, Pending
    <2> QED
        BY <2>1, <2>2
<1>9. ConnectionInv(c)'
    BY <1>5, <1>6, <1>7, <1>8 DEF ConnectionInv
<1> QED
    BY <1>4, <1>5, <1>9, MessageStep DEF Inv, Types

\* An answer is read: it answers the oldest pending message, and becomes an interaction.
LEMMA ReadServerStep ==
    ASSUME Inv, NEW c \in Connection, ReadServer(c)
    PROVE  Inv'
<1> USE DEF ReadServer
<1> DEFINE answer == Head(down[c])
<1>0. /\ up[c] \in Seq(Message) /\ down[c] \in Seq(Message) /\ pending[c] \in Seq(Message)
      /\ atServer[c] \in Seq(Message) /\ atClient[c] \in Seq(Message) /\ said[c] \in Nat
      /\ recording[c] \in BOOLEAN
    BY DEF Inv, Types
<1>1. /\ down[c] # <<>> /\ answer \in Message /\ Len(down[c]) > 0
      /\ Tail(down[c]) \in Seq(Message) /\ Len(Tail(down[c])) = Len(down[c]) - 1
      /\ \A k \in 1 .. Len(down[c]) - 1 : Tail(down[c])[k] = down[c][k + 1]
    BY <1>0
<1>2. ConnectionInv(c)
    BY DEF Inv
<1>3. /\ down'[c] = Tail(down[c]) /\ atClient'[c] = Append(atClient[c], answer)
      /\ atServer'[c] = atServer[c]
      /\ Len(atClient[c]) \in Nat /\ Len(atClient'[c]) = Len(atClient[c]) + 1
      /\ answer = Len(atClient[c]) + 1
      /\ Numbered(atClient'[c], 0) /\ Numbered(down'[c], Len(atClient'[c]))
    <2>1. down'[c] = Tail(down[c]) /\ atClient'[c] = Append(atClient[c], answer) /\ atServer'[c] = atServer[c]
        BY DEF Inv, Types
    <2>2. Numbered(atClient[c], 0) /\ Numbered(down[c], Len(atClient[c])) /\ Len(atClient[c]) \in Nat
        BY <1>0, <1>2 DEF ConnectionInv, Answers
    <2>3. answer = Len(atClient[c]) + 1 /\ Numbered(Tail(down[c]), Len(atClient[c]) + 1)
        BY <1>0, <1>1, <2>2, Shorter
    <2>4. Len(Append(atClient[c], answer)) = Len(atClient[c]) + 1 /\ Numbered(Append(atClient[c], answer), 0)
        <3>1. 0 \in Nat /\ answer = 0 + Len(atClient[c]) + 1
            BY <2>2, <2>3
        <3> HIDE DEF answer
        <3> QED
            BY <1>0, <1>1, <2>2, <3>1, Longer, Zenon
    <2> QED
        BY <2>1, <2>2, <2>3, <2>4
<1>4. Commands(c)'
    BY <1>2 DEF ConnectionInv, Commands, Numbered, Read
<1>5. Answers(c)'
    <2>1. Len(atClient[c]) + Len(down[c]) <= Len(atServer[c])
        BY <1>2 DEF ConnectionInv, Answers
    <2>2. Len(atClient'[c]) + Len(down'[c]) <= Len(atServer'[c])
        <3>1. Len(down[c]) \in Nat /\ Len(down[c]) > 0 /\ Len(atServer[c]) \in Nat
            BY <1>0, <1>1
        <3>2. Len(atClient[c]) \in Nat /\ Len(atServer[c]) <= Len(atServer[c])
            BY <1>3, <3>1
        <3>3. (Len(atClient[c]) + 1) + (Len(down[c]) - 1) <= Len(atServer[c])
            BY ONLY <2>1, <3>1, <3>2, Fewer
        <3> QED
            BY <1>1, <1>3, <3>3
    <2> QED
        BY <1>3, <2>2 DEF Answers
<1>6. Stage(c)' /\ Named(c)'
    BY <1>2 DEF ConnectionInv, Stage, Named
<1>7. CASE ~ recording[c]
    <2>1. Types' /\ Pairs'
        BY <1>0, <1>1, <1>7 DEF Inv, Types, Pairs, log
    <2>2. recording' = recording /\ pending' = pending
        BY <1>7 DEF log
    <2>3. Pending(c)' /\ Recorded(c)'
        BY <1>2, <1>7, <2>2 DEF ConnectionInv, Pending, Recorded
    <2>4. ConnectionInv(c)'
        BY <1>4, <1>5, <1>6, <2>3 DEF ConnectionInv
    <2>5. interactions' = interactions
        BY <1>7 DEF log
    <2> QED
        BY <1>7, <2>1, <2>2, <2>4, <2>5, MessageStep DEF Inv, Types
<1>8. CASE recording[c]
    <2> DEFINE i == [on |-> c, message |-> Head(pending[c]), answer |-> answer]
    <2>1. /\ Numbered(pending[c], Len(atClient[c])) /\ Len(pending[c]) = Read(c) - Len(atClient[c])
          /\ Len(atClient[c]) + Len(down[c]) <= Len(atServer[c]) /\ Len(atServer[c]) <= Read(c)
        BY <1>2, <1>8 DEF ConnectionInv, Pending, Commands, Answers
    <2>2. Read(c) \in Nat /\ Read(c)' = Read(c) /\ pending[c] # <<>>
        <3>1. Read(c) \in Nat
            BY <1>0, <1>2 DEF ConnectionInv, Commands, Read
        <3>2. Len(down[c]) \in Nat /\ Len(down[c]) > 0 /\ Len(atServer[c]) \in Nat /\ Len(atClient[c]) \in Nat
            BY <1>0, <1>1
        <3>3. Read(c) - Len(atClient[c]) > 0
            BY ONLY <2>1, <3>1, <3>2, Fewer
        <3>4. pending[c] # <<>>
            BY <2>1, <3>3
        <3> QED
            BY <3>1, <3>4 DEF Read
    <2>12. /\ Head(pending[c]) = answer /\ Tail(pending[c]) \in Seq(Message)
           /\ Len(Tail(pending[c])) = Len(pending[c]) - 1 /\ Len(pending[c]) \in Nat
           /\ Numbered(Tail(pending[c]), Len(atClient[c]) + 1)
        BY <1>0, <1>3, <2>1, <2>2, Shorter
    <2>3. i \in InteractionType /\ i.message = i.answer /\ i.on = c /\ i.answer = answer
        BY <1>1, <2>12 DEF InteractionType
    <2>4. interactions \in Seq(InteractionType) /\ interactions' = Append(interactions, i)
        BY <1>8 DEF Inv, Types
    <2>5. /\ interactions' \in Seq(InteractionType)
          /\ DOMAIN interactions' = DOMAIN interactions \union {Len(interactions) + 1}
          /\ interactions'[Len(interactions) + 1] = i
          /\ \A k \in DOMAIN interactions : interactions'[k] = interactions[k]
        BY <2>3, <2>4
    <2>6. pending' = [pending EXCEPT ![c] = Tail(@)] /\ pending'[c] = Tail(pending[c])
        BY <1>8 DEF Inv, Types
    <2>7. Types'
        <3>1. /\ down' \in [Connection -> Seq(Message)]
              /\ atClient' \in [Connection -> Seq(Message)]
            BY <1>0, <1>1 DEF Inv, Types
        <3>2. pending' \in [Connection -> Seq(Message)]
            BY <2>6, <2>12 DEF Inv, Types
        <3> QED
            BY <2>5, <3>1, <3>2 DEF Inv, Types
    <2>8. Pairs'
        BY <2>3, <2>5 DEF Inv, Pairs
    <2>9. Pending(c)'
        <3>1. Len(pending'[c]) = Read(c)' - Len(atClient'[c])
            <4>1. (Read(c) - Len(atClient[c])) - 1 = Read(c) - (Len(atClient[c]) + 1)
                BY ONLY <1>3, <2>2, OneLess
            <4> QED
                BY <1>3, <2>1, <2>2, <2>6, <2>12, <4>1
        <3> QED
            BY <1>3, <1>8, <2>6, <2>12, <3>1 DEF Pending
    <2>10. Recorded(c)'
        <3>1. ASSUME NEW n \in DOMAIN atClient'[c]
              PROVE  \E k \in RecordedOn(c)' : interactions'[k].answer = atClient'[c][n]
            <4>1. CASE n \in DOMAIN atClient[c]
                <5>1. atClient'[c][n] = atClient[c][n]
                    BY <1>0, <1>1, <1>3, <4>1
                <5>2. PICK k \in RecordedOn(c) : interactions[k].answer = atClient[c][n]
                    BY <1>2, <1>8, <4>1 DEF ConnectionInv, Recorded
                <5>3. k \in RecordedOn(c)' /\ interactions'[k] = interactions[k]
                    BY <2>5, <5>2 DEF RecordedOn
                <5> QED
                    BY <5>1, <5>2, <5>3
            <4>2. CASE n = Len(atClient[c]) + 1
                <5>1. atClient'[c][n] = answer
                    BY <1>0, <1>1, <1>3, <4>2
                <5> QED
                    BY <2>3, <2>5, <5>1 DEF RecordedOn
            <4>3. n \in DOMAIN atClient[c] \/ n = Len(atClient[c]) + 1
                BY <1>0, <1>1, <1>3
            <4> QED
                BY <4>1, <4>2, <4>3
        <3> QED
            BY <3>1 DEF Recorded
    <2>11. ConnectionInv(c)'
        BY <1>4, <1>5, <1>6, <2>9, <2>10 DEF ConnectionInv
    <2> QED
        BY <2>5, <2>6, <2>7, <2>8, <2>11, MessageStep DEF Inv, Types
<1> QED
    BY <1>7, <1>8

-----------------------------------------------------------------------------

LEMMA ClientWritesStep ==
    ASSUME Inv, NEW c \in Connection, ClientWrites(c)
    PROVE  Inv'
<1> USE DEF ClientWrites, log
<1>0. up[c] \in Seq(Message) /\ said[c] \in 0 .. MaxMessages /\ said[c] + 1 \in Message
    BY DEF Inv, Types, Message
<1>1. ConnectionInv(c)
    BY DEF Inv
<1>2. /\ said'[c] = said[c] + 1 /\ up'[c] = Append(up[c], said[c] + 1)
      /\ Len(up'[c]) = Len(up[c]) + 1 /\ Read(c)' = Read(c)
    BY <1>0 DEF Inv, Types, Read
<1>3. Types' /\ Pairs'
    BY <1>0 DEF Inv, Types, Pairs
<1>4. Stage(c)' /\ Named(c)' /\ Recorded(c)' /\ Answers(c)'
    BY <1>1 DEF ConnectionInv, Stage, Named, Recorded, RecordedOn, Answers, Numbered
<1>5. Commands(c)'
    <2>1. Numbered(up'[c], Read(c)')
        BY <1>0, <1>1, <1>2 DEF ConnectionInv, Commands, Numbered, Read
    <2> QED
        BY <1>0, <1>1, <1>2, <2>1 DEF ConnectionInv, Commands
<1>6. Pending(c)'
    BY <1>1, <1>2 DEF ConnectionInv, Pending, Numbered
<1>7. ConnectionInv(c)'
    BY <1>4, <1>5, <1>6 DEF ConnectionInv
<1> QED
    BY <1>3, <1>7, MessageStep DEF Inv, Types

LEMMA DatabaseAnswersStep ==
    ASSUME Inv, NEW c \in Connection, DatabaseAnswers(c)
    PROVE  Inv'
<1> USE DEF DatabaseAnswers, log
<1> DEFINE answered == Len(atClient[c]) + Len(down[c])
<1>0. /\ down[c] \in Seq(Message) /\ atServer[c] \in Seq(Message) /\ atClient[c] \in Seq(Message)
      /\ answered + 1 \in 1 .. Len(atServer[c]) /\ atServer[c][answered + 1] \in Message
    BY DEF Inv, Types
<1>1. ConnectionInv(c)
    BY DEF Inv
<1>2. /\ down' = [down EXCEPT ![c] = Append(@, atServer[c][answered + 1])]
      /\ down'[c] = Append(down[c], answered + 1)
    BY <1>0, <1>1 DEF Inv, Types, ConnectionInv, Commands, Numbered
<1>3. Types' /\ Pairs'
    BY <1>0, <1>2 DEF Inv, Types, Pairs
<1>4. Stage(c)' /\ Named(c)' /\ Recorded(c)'
    BY <1>1 DEF ConnectionInv, Stage, Named, Recorded, RecordedOn
<1>5. Commands(c)' /\ Pending(c)'
    BY <1>1 DEF ConnectionInv, Commands, Pending, Numbered, Read
<1>6. Answers(c)'
    <2>1. /\ Numbered(atClient[c], 0) /\ Numbered(down[c], Len(atClient[c]))
          /\ Len(atClient[c]) \in Nat /\ Len(down[c]) \in Nat
        BY <1>0, <1>1 DEF ConnectionInv, Answers
    <2>2. Len(atServer[c]) \in Nat
        BY <1>0
    <2>3. /\ Len(atClient[c]) + (Len(down[c]) + 1) <= Len(atServer[c])
          /\ answered + 1 = 0 + (answered + 1)
        BY ONLY <1>0, <2>1, <2>2, OneMore
    <2>4. answered + 1 \in Message
        <3>1. Numbered(atServer[c], 0)
            BY <1>1 DEF ConnectionInv, Commands
        <3>2. atServer[c][answered + 1] = 0 + (answered + 1)
            BY ONLY <1>0, <3>1 DEF Numbered
        <3> QED
            BY ONLY <1>0, <2>3, <3>2
    <2>5. Len(down'[c]) = Len(down[c]) + 1 /\ Numbered(down'[c], Len(atClient[c]))
        <3>1. /\ Len(Append(down[c], answered + 1)) = Len(down[c]) + 1
              /\ Numbered(Append(down[c], answered + 1), Len(atClient[c]))
            <4> DEFINE m == answered + 1
            <4>1. m \in Message /\ m = Len(atClient[c]) + Len(down[c]) + 1
                BY <2>4
            <4> HIDE DEF m
            <4> QED
                BY ONLY <1>0, <2>1, <4>1, Longer
        <3> QED
            BY <1>2, <3>1
    <2>6. Len(atClient[c]) + Len(down'[c]) <= Len(atServer[c])
        BY <2>3, <2>5
    <2> QED
        BY <2>1, <2>5, <2>6 DEF Answers
<1>7. ConnectionInv(c)'
    BY <1>4, <1>5, <1>6 DEF ConnectionInv
<1> QED
    BY <1>3, <1>7, <1>2, MessageStep DEF Inv, Types

-----------------------------------------------------------------------------

LEMMA NextInv ==
    ASSUME Inv, [Next]_vars
    PROVE  Inv'
<1>1. CASE UNCHANGED vars
    <2> USE <1>1 DEF vars, channels, log
    <2>1. Types' /\ Pairs'
        BY DEF Inv, Types, Pairs
    <2>2. \A d \in Connection : ConnectionInv(d)'
        BY OthersStand
    <2> QED
        BY <2>1, <2>2 DEF Inv
<1>2. ASSUME NEW c \in Connection, PassThrough(c)
      PROVE  Inv'
    BY <1>2, PassThroughStep
<1>3. ASSUME NEW c \in Connection, UpstreamSettles(c)
      PROVE  Inv'
    BY <1>3, UpstreamHandshakeStep, SidesStep DEF UpstreamSettles
<1>4. ASSUME NEW c \in Connection, ReadClient(c) \/ ReadServer(c)
      PROVE  Inv'
    BY <1>4, ReadClientStep, ReadServerStep
<1>5. ASSUME NEW c \in Connection, ClientWrites(c) \/ DatabaseAnswers(c)
      PROVE  Inv'
    BY <1>5, ClientWritesStep, DatabaseAnswersStep
<1> QED
    BY <1>1, <1>2, <1>3, <1>4, <1>5, SidesStep DEF Next

LEMMA Invariant == Spec => []Inv
BY InitInv, NextInv, PTL DEF Spec

-----------------------------------------------------------------------------

\* The types of the proxy's state.
THEOREM TypeCorrect == Spec => []TypeOK
<1>1. Inv => TypeOK
    BY TypesAgree DEF Inv
<1> QED
    BY <1>1, Invariant, PTL

\* postgresTlsProxy.ts:38-57 with :95-100: nothing a client wrote is lost or reordered
\* while the database's side is still being upgraded, nor later until that side is over.
THEOREM NothingLostInTheUpgradeHolds == Spec => []NothingLostInTheUpgrade
<1>1. ASSUME Inv PROVE NothingLostInTheUpgrade
    <2> SUFFICES ASSUME NEW c \in Connection
                 PROVE  /\ atServer[c] = UpTo(Len(atServer[c]))
                        /\ upstream[c] \notin {"left", "gone"} => atServer[c] \o up[c] = UpTo(said[c])
        BY DEF NothingLostInTheUpgrade
    <2>1. /\ atServer[c] \in Seq(Message) /\ up[c] \in Seq(Message) /\ said[c] \in Nat
          /\ Commands(c)
        BY <1>1 DEF Inv, Types, ConnectionInv
    <2>2. atServer[c] = UpTo(Len(atServer[c]))
        <3>1. \A k \in 1 .. Len(atServer[c]) : atServer[c][k] = k
            BY <2>1 DEF Commands, Numbered
        <3> QED
            BY <2>1, <3>1, CountsUp
    <2>3. ASSUME upstream[c] \notin {"left", "gone"}
          PROVE  atServer[c] \o up[c] = UpTo(said[c])
        <3> DEFINE m == Len(atServer[c])
                   n == Len(up[c])
        <3>1. m = said[c] - n /\ n <= said[c] /\ Numbered(atServer[c], 0) /\ Numbered(up[c], m)
            BY <2>1, <2>3 DEF Commands, Read
        <3>2. said[c] = m + n /\ m \in Nat /\ n \in Nat
            BY <2>1, <3>1
        <3>3. /\ atServer[c] \o up[c] \in Seq(Message) /\ Len(atServer[c] \o up[c]) = said[c]
              /\ \A k \in 1 .. said[c] : (atServer[c] \o up[c])[k] = k
            BY <2>1, <3>1, <3>2, Joined
        <3> QED
            BY <2>1, <3>3, CountsUp
    <2> QED
        BY <2>2, <2>3
<1> QED
    BY <1>1, Invariant, PTL

\* Over TLS, whichever handshake finished first, an answer the client has received is
\* recorded with the message it answers.
THEOREM TlsIsRecordedHolds == Spec => []TlsIsRecorded
<1>1. Inv => TlsIsRecorded
    BY DEF Inv, ConnectionInv, Pairs, Recorded, TlsIsRecorded
<1> QED
    BY <1>1, Invariant, PTL

\* :141-146: a client that asked for TLS and is disconnected by the proxy before it was
\* recorded is named, unless the database's own handshake broke, and no connection that
\* goes on is.  Clients may close their sockets themselves at any stage.
THEOREM UnrecordedIsNamedHolds == Spec => []UnrecordedIsNamed
<1>1. Inv => UnrecordedIsNamed
    BY DEF Inv, ConnectionInv, Named, UnrecordedIsNamed
<1> QED
    BY <1>1, Invariant, PTL

=============================================================================
