------------------------ MODULE RedisRecordingProofs ------------------------
(***************************************************************************)
(* Theorems of RedisRecording, for every set of connections, every set of  *)
(* commands and every bound.                                               *)
(*                                                                         *)
(* Recording Redis implements the proxy of RecordingTcpProxy, whose        *)
(* theorem therefore holds of it, whatever the recorder makes of a push.   *)
(* The rest is an invariant in three parts, IInv: what the server and the  *)
(* clients have said (Told), what each recorder holds (Waiting), and what  *)
(* is in the list (Matched).  The proxy's invariant gives the fourth, how  *)
(* far each stream has got (Relayed).  There is a lemma for each step.     *)
(***************************************************************************)
EXTENDS RedisRecording, TLAPS, FiniteSetTheorems, SequenceTheorems,
        WellFoundedInduction

Bridge == INSTANCE RecordingTcpProxyProofs WITH
    NewRecorder  <- NewRedisRecorder,
    OnClientData <- onClientData,
    OnServerData <- onServerData,
    Completed    <- completed,
    Drained      <- drain

-----------------------------------------------------------------------------
(***************************************************************************)
(* What the client and the server write is for the proxy a write of bytes. *)
(***************************************************************************)

LEMMA WriteIsEnvironment ==
    ASSUME NEW c \in Connection, NEW d \in {"up", "down"}, NEW bytes \in Seq(Byte),
           Proxy!Write(c, d, bytes)
    PROVE  Bridge!Next
<1>1. Bridge!Write(c, d, bytes)
    BY DEF Proxy!Write, Bridge!Write
<1>2. Bridge!Environment(c)
    BY <1>1 DEF Bridge!Environment, Bridge!Direction
<1> QED
    BY <1>2 DEF Bridge!Next

LEMMA EndIsEnvironment ==
    ASSUME NEW c \in Connection, NEW d \in {"up", "down"}, Proxy!End(c, d)
    PROVE  Bridge!Next
<1>1. Bridge!End(c, d)
    BY DEF Proxy!End, Bridge!End
<1>2. Bridge!Environment(c)
    BY <1>1 DEF Bridge!Environment, Bridge!Direction
<1> QED
    BY <1>2 DEF Bridge!Next

LEMMA TakeIsEnvironment ==
    ASSUME NEW c \in Connection, NEW d \in {"up", "down"}, Proxy!Take(c, d)
    PROVE  Bridge!Next
<1>1. Bridge!Take(c, d)
    BY DEF Proxy!Take, Bridge!Take
<1>2. Bridge!Environment(c)
    BY <1>1 DEF Bridge!Environment, Bridge!Direction
<1> QED
    BY <1>2 DEF Bridge!Next

LEMMA HandlerIsHandler ==
    ASSUME NEW c \in Connection, Proxy!Proxy(c)
    PROVE  Bridge!Next
<1>1. ASSUME Proxy!ClientData(c) PROVE Bridge!ClientData(c)
    BY <1>1 DEF Proxy!ClientData, Bridge!ClientData, Proxy!Forward, Bridge!Forward
<1>2. ASSUME Proxy!UpstreamData(c) PROVE Bridge!UpstreamData(c)
    BY <1>2 DEF Proxy!UpstreamData, Bridge!UpstreamData, Proxy!Forward, Bridge!Forward
<1>3. ASSUME Proxy!close(c) PROVE Bridge!close(c)
    BY <1>3 DEF Proxy!close, Bridge!close, Proxy!Direction, Bridge!Direction
<1>4. ASSUME Proxy!OnEnd(c) PROVE Bridge!OnEnd(c)
    BY <1>3, <1>4 DEF Proxy!OnEnd, Bridge!OnEnd, Proxy!Direction, Bridge!Direction
<1>5. ASSUME Proxy!OnError(c) PROVE Bridge!OnError(c)
    BY <1>3, <1>5 DEF Proxy!OnError, Bridge!OnError
<1>6. Bridge!Proxy(c)
    BY <1>1, <1>2, <1>4, <1>5 DEF Proxy!Proxy, Bridge!Proxy
<1> QED
    BY <1>6 DEF Bridge!Next

-----------------------------------------------------------------------------

LEMMA HalvesAreBytes == \A byte \in Byte : Halves(byte) \in Seq(Byte)
BY DEF Halves

LEMMA JoinedBytes ==
    ASSUME NEW s \in Seq(Byte), NEW t \in Seq(Byte)
    PROVE  s \o t \in Seq(Byte)
OBVIOUS

LEMMA AnswersAreBytes ==
    ASSUME NEW c, NEW frame, NEW serial \in Nat
    PROVE  Answer(c, frame, serial) \in Seq(Byte)
<1>1. /\ Halves(Value(serial)) \in Seq(Byte)
      /\ Halves(SetHeader(serial)) \in Seq(Byte)
      /\ Halves(Member) \in Seq(Byte)
    BY HalvesAreBytes DEF Byte
<1>2. Halves(SetHeader(serial)) \o Halves(Member) \in Seq(Byte)
    BY ONLY <1>1, JoinedBytes
<1> QED
    BY <1>1, <1>2 DEF Answer

\* Enough of a type for the serial number of the next answer to be one.
Executed == \E S : executed \in Seq(S)

LEMMA ExecuteIsWrite ==
    ASSUME Executed, NEW c \in Connection, ServerExecute(c)
    PROVE  Bridge!Next /\ Executed'
<1> DEFINE n == Cardinality(RunOn(c)) + 1
           entry == [on |-> c, nth |-> n, frame |-> issued[c][n].frame]
<1>1. PICK S : executed \in Seq(S)
    BY DEF Executed
<1>2. Len(executed) + 1 \in Nat
    BY <1>1
<1>3. Answer(c, issued[c][n].frame, Len(executed) + 1) \in Seq(Byte)
    BY <1>2, AnswersAreBytes
<1>4. Proxy!Write(c, "down", Answer(c, issued[c][n].frame, Len(executed) + 1))
    BY DEF ServerExecute
<1>5. executed' = Append(executed, entry)
    BY DEF ServerExecute
<1>6. executed' \in Seq(S \union {entry})
    <2>1. executed \in Seq(S \union {entry})
        BY <1>1
    <2> HIDE DEF entry
    <2> QED
        BY <1>5, <2>1
<1> QED
    BY <1>3, <1>4, <1>6, WriteIsEnvironment DEF Executed

LEMMA StepIsStep ==
    ASSUME Executed, [Next]_vars
    PROVE  [Bridge!Next]_(Bridge!vars) /\ Executed'
<1>1. ASSUME NEW c \in Connection, NEW frame \in Frame, ClientCommand(c, frame)
      PROVE  Bridge!Next /\ Executed'
    <2>1. Halves(frame) \in Seq(Byte)
        BY HalvesAreBytes DEF Byte
    <2> QED
        BY <1>1, <2>1, WriteIsEnvironment DEF ClientCommand, Executed
<1>2. ASSUME NEW c \in Connection, ClientEnd(c) \/ ServerEnd(c)
      PROVE  Bridge!Next /\ Executed'
    BY <1>2, EndIsEnvironment DEF ClientEnd, ServerEnd, Executed
<1>3. ASSUME NEW c \in Connection, ServerPush(c)
      PROVE  Bridge!Next /\ Executed'
    <2>1. Halves(Push) \in Seq(Byte)
        BY HalvesAreBytes DEF Byte
    <2> QED
        BY <1>3, <2>1, WriteIsEnvironment DEF ServerPush, Executed
<1>4. ASSUME NEW c \in Connection, Relay(c)
      PROVE  Bridge!Next /\ Executed'
    BY <1>4, TakeIsEnvironment, HandlerIsHandler DEF Relay, Executed
<1>5. CASE UNCHANGED vars
    BY <1>5 DEF vars, proxyVars, Bridge!vars, Executed
<1> QED
    BY <1>1, <1>2, <1>3, <1>4, <1>5, ExecuteIsWrite DEF Next

\* Recording Redis implements the proxy: nothing the clients, the server or the
\* recorder do is more than the proxy's theorem allows for.
THEOREM ImplementsProxy == Spec => Bridge!Spec
<1>1. Init => Bridge!Init /\ Executed
    BY DEF Init, Proxy!Init, Proxy!PerDirection, Proxy!Direction,
           Bridge!Init, Bridge!PerDirection, Bridge!Direction, Executed
<1> QED
    BY <1>1, StepIsStep, PTL DEF Spec, Bridge!Spec

\* recordingTcpProxy.ts:5-8 of Redis: each side receives a start of the bytes the
\* other sent, in their order, whatever the recorder makes of them.
THEOREM RelayIsExactHolds == Spec => []RelayIsExact
<1>1. Bridge!RelayIsExact => RelayIsExact
    BY DEF Bridge!RelayIsExact, RelayIsExact, Proxy!RelayIsExact, Bridge!Direction,
           Proxy!Direction
<1> QED
    BY <1>1, ImplementsProxy, Bridge!RelayIsExactHolds, PTL

-----------------------------------------------------------------------------
(***************************************************************************)
(* Sequences: what a recorder decodes of the chunks it is given.           *)
(***************************************************************************)

LEMMA LeastOf ==
    ASSUME NEW T \in SUBSET Nat, T # {}
    PROVE  \E n \in T : \A m \in T : n <= m
<1> DEFINE R == OpToRel(<, Nat)
<1>1. \A m, n \in Nat : <<m, n>> \in R <=> m < n
    BY DEF OpToRel
<1>2. IsWellFoundedOn(R, Nat)
    BY NatLessThanWellFounded
<1> HIDE DEF R
<1>3. \E n \in T : \A m \in T : ~ (<<m, n>> \in R)
    BY <1>2, WFMin, Zenon
<1>4. PICK n \in T : \A m \in T : ~ (<<m, n>> \in R)
    BY <1>3
<1>5. \A m \in T : ~ (m < n)
    BY <1>1, <1>4
<1> QED
    BY <1>5

\* A client's commands are all kept: where each value is a command, commandsIn
\* leaves the values as they are.
LEMMA CommandsKept ==
    ASSUME NEW values \in Seq(Frame)
    PROVE  commandsIn(values) = values
<1> DEFINE L == Len(values)
           start == [n \in 0 .. L |-> SubSeq(values, 1, n)]
           next(f) == [n \in 0 .. L |->
                          IF n = 0 THEN <<>>
                          ELSE IF IsCommand(values[n]) THEN Append(f[n - 1], values[n])
                          ELSE f[n - 1]]
           kept == CHOOSE f : f = next(f)
<1>0. L \in Nat /\ \A n \in 1 .. L : values[n] \in Frame /\ IsCommand(values[n])
    BY FrameAssumption
<1>1. commandsIn(values) = kept[L]
    BY DEF commandsIn
<1>2. \A n \in 1 .. L : SubSeq(values, 1, n) = Append(SubSeq(values, 1, n - 1), values[n])
    BY <1>0
<1>3. SubSeq(values, 1, 0) = <<>> /\ SubSeq(values, 1, L) = values
    BY <1>0
<1>4. start = next(start)
    <2>1. ASSUME NEW n \in 0 .. L PROVE start[n] = next(start)[n]
        <3>1. CASE n = 0
            BY <1>3, <3>1
        <3>2. CASE n # 0
            <4>1. n \in 1 .. L /\ n - 1 \in 0 .. L
                BY <1>0, <3>2
            <4>2. start[n] = SubSeq(values, 1, n) /\ start[n - 1] = SubSeq(values, 1, n - 1)
                BY <4>1
            <4>3. next(start)[n] = Append(start[n - 1], values[n])
                BY <1>0, <3>2, <4>1
            <4> QED
                BY <1>2, <4>1, <4>2, <4>3
        <3> QED
            BY <3>1, <3>2
    <2>2. DOMAIN start = DOMAIN next(start)
        OBVIOUS
    <2> HIDE DEF start
    <2>3. start = [n \in 0 .. L |-> start[n]] /\ next(start) = [n \in 0 .. L |-> next(start)[n]]
        BY DEF start
    <2> QED
        BY <2>1, <2>3, Zenon
<1>5. kept = next(kept)
    BY <1>4, Zenon
<1> HIDE DEF kept
<1>6. /\ kept[0] = <<>>
      /\ \A n \in 1 .. L : kept[n] = Append(kept[n - 1], values[n])
    <2>1. \A n \in 0 .. L : kept[n] = next(kept)[n]
        BY <1>5, Zenon
    <2>2. next(kept)[0] = <<>>
        BY <1>0
    <2>3. \A n \in 1 .. L : next(kept)[n] = Append(kept[n - 1], values[n])
        BY <1>0
    <2>4. 0 \in 0 .. L /\ 1 .. L \subseteq 0 .. L
        BY <1>0
    <2> HIDE DEF next, L
    <2> QED
        BY <2>1, <2>2, <2>3, <2>4
<1>7. \A n \in 0 .. L : kept[n] = SubSeq(values, 1, n)
    <2> DEFINE T == {n \in 0 .. L : kept[n] # SubSeq(values, 1, n)}
    <2> SUFFICES ASSUME T # {} PROVE FALSE
        OBVIOUS
    <2>0. T \in SUBSET Nat
        BY <1>0
    <2> HIDE DEF T
    <2>1. PICK n \in T : \A m \in T : n <= m
        BY <2>0, LeastOf
    <2> USE DEF T
    <2>2. n # 0
        BY <1>3, <1>6, <2>1
    <2>3. n \in 1 .. L /\ n - 1 \in 0 .. L /\ n - 1 \notin T
        BY <1>0, <2>1, <2>2
    <2>4. kept[n] = Append(kept[n - 1], values[n])
        BY <1>6, <2>3
    <2> QED
        BY <1>2, <2>1, <2>3, <2>4
<1> QED
    BY <1>0, <1>1, <1>3, <1>7

\* `whole` holds the values of a stream behind its first `read` elements, up to the
\* first `now`, and what is left then of one more.
Decoded(whole, written, read, now) ==
    LET values == Decodable(whole)
    IN  /\ values \in Seq(Byte)
        /\ Len(values) = now \div 2 - read \div 2
        /\ \A k \in 1 .. Len(values) : values[k] = written[2 * (read \div 2 + k)]
        /\ Remainder(whole) \in Seq(Byte)
        /\ Len(Remainder(whole)) = now % 2

LEMMA OneAlone ==
    ASSUME NEW s \in Seq(Byte), NEW l \in 1 .. Len(s)
    PROVE  SubSeq(s, l, l) \in Seq(Byte) /\ Len(SubSeq(s, l, l)) = 1
OBVIOUS

\* What a recorder makes of the next n elements of a stream of which it has read
\* `read`, the last one perhaps half a value: the values that follow.
LEMMA ChunkDecoded ==
    ASSUME NEW written \in Seq(Byte), NEW unread \in Seq(Byte), NEW buffer \in Seq(Byte),
           NEW read \in Nat, NEW n \in 1 .. Len(unread),
           Len(written) = read + Len(unread),
           \A i \in 1 .. Len(unread) : unread[i] = written[read + i],
           Len(buffer) = read % 2
    PROVE  Decoded(buffer \o SubSeq(unread, 1, n), written, read, read + n)
<1> DEFINE chunk == SubSeq(unread, 1, n)
           whole == buffer \o chunk
           values == Decodable(whole)
           b == read % 2
           m == (b + n) \div 2
<1>1. chunk \in Seq(Byte) /\ Len(chunk) = n /\ \A i \in 1 .. n : chunk[i] = unread[i]
    OBVIOUS
<1>2. /\ whole \in Seq(Byte) /\ Len(whole) = b + n
      /\ \A i \in b + 1 .. b + n : whole[i] = chunk[i - b]
    BY <1>1
<1>3. b \in {0, 1} /\ m \in Nat /\ m = (read + n) \div 2 - read \div 2 /\ (b + n) % 2 = (read + n) % 2
      /\ read = 2 * (read \div 2) + b /\ 2 * m <= b + n /\ b + n <= 2 * m + 1
    OBVIOUS
<1>4. values = [k \in 1 .. m |-> whole[2 * k]]
    BY <1>2 DEF Decodable
<1>5. \A k \in 1 .. m : 2 * k \in b + 1 .. b + n
    BY <1>3
<1>6. values \in Seq(Byte) /\ Len(values) = m
    <2>1. \A k \in 1 .. m : whole[2 * k] \in Byte
        <3>1. \A k \in 1 .. m : 2 * k \in 1 .. Len(whole)
            BY <1>2, <1>3, <1>5
        <3> HIDE DEF whole
        <3> QED
            BY <1>2, <3>1
    <2> DEFINE at(k) == whole[2 * k]
    <2>2. values = [k \in 1 .. m |-> at(k)] /\ \A k \in 1 .. m : at(k) \in Byte
        BY <1>4, <2>1
    <2> HIDE DEF m, values, at
    <2> QED
        BY <1>3, <2>2
<1>7. \A k \in 1 .. m : values[k] = written[2 * (read \div 2 + k)]
    <2> TAKE k \in 1 .. m
    <2>1. values[k] = whole[2 * k]
        BY <1>4
    <2>2. whole[2 * k] = chunk[2 * k - b] /\ 2 * k - b \in 1 .. n
        <3> HIDE DEF whole, b, m
        <3> QED
            BY <1>2, <1>3, <1>5
    <2>3. chunk[2 * k - b] = written[read + (2 * k - b)]
        <3> DEFINE j == 2 * k - b
        <3>1. j \in 1 .. n
            BY <2>2
        <3> HIDE DEF j
        <3>2. chunk[j] = unread[j] /\ j \in 1 .. Len(unread)
            BY <1>1, <3>1
        <3>3. chunk[j] = written[read + j]
            BY <3>2
        <3> QED
            BY <3>3 DEF j
    <2>4. read + (2 * k - b) = 2 * (read \div 2 + k)
        BY <1>3
    <2> QED
        BY <2>1, <2>2, <2>3, <2>4
<1>8. Remainder(whole) \in Seq(Byte) /\ Len(Remainder(whole)) = (b + n) % 2
    <2>1. Remainder(whole) = SubSeq(whole, 2 * m + 1, b + n)
        BY <1>2 DEF Remainder
    <2>2. (b + n) % 2 = b + n - 2 * m
        BY <1>3
    <2>3. (b + n) % 2 \in {0, 1} /\ 2 * m + 1 \in Nat
        BY <1>3
    <2> HIDE DEF whole, m, b
    <2>4. CASE (b + n) % 2 = 0
        BY <1>2, <1>3, <2>1, <2>2, <2>3, <2>4
    <2>5. CASE (b + n) % 2 = 1
        <3> DEFINE last == b + n
        <3>1. 2 * m + 1 = last /\ last \in Nat \ {0} /\ last = Len(whole)
            BY <1>2, <1>3, <2>2, <2>5
        <3>2. Remainder(whole) = SubSeq(whole, last, last)
            BY <2>1, <3>1
        <3> HIDE DEF last
        <3>3. Remainder(whole) \in Seq(Byte) /\ Len(Remainder(whole)) = 1
            <4>1. whole \in Seq(Byte) /\ last \in 1 .. Len(whole)
                BY <1>2, <3>1
            <4>2. SubSeq(whole, last, last) \in Seq(Byte) /\ Len(SubSeq(whole, last, last)) = 1
                BY ONLY <4>1, OneAlone
            <4> QED
                BY <3>2, <4>2
        <3> QED
            BY <2>5, <3>3
    <2> QED
        BY <2>3, <2>4, <2>5
<1> QED
    BY <1>3, <1>6, <1>7, <1>8 DEF Decoded

-----------------------------------------------------------------------------
(***************************************************************************)
(* The inductive invariant.  `Done` is how much of what one side wrote the *)
(* proxy has read; once it has closed, nothing is left to read.            *)
(***************************************************************************)

Done(c, d) == Len(sent[c][d]) - Len(wire[c][d])

\* The i-th value the server wrote to c, how many it has written, and how many of
\* them the proxy has wholly read.
Reply(c, i) == sent[c]["down"][2 * i]
Replies(c) == Len(sent[c]["down"]) \div 2
Heard(c) == Done(c, "down") \div 2

Strays == {Push, Member}

Typed ==
    /\ executed \in Seq([on : Connection, nth : Nat \ {0}, frame : Frame])
    /\ issued \in [Connection -> Seq([frame : Frame, seen : SUBSET Nat])]
    /\ recorder \in [Connection -> [clientBuffer : Seq(Byte), serverBuffer : Seq(Byte),
                                    pending : Seq(Frame), completed : {<<>>}]]
    /\ interactions \in Seq([protocol : {"redis"}, request : {toCommand(frame) : frame \in Frame},
                             response : Byte])

\* What a client wrote is its commands.
Commanded(c) ==
    /\ Len(sent[c]["up"]) = 2 * Len(issued[c])
    /\ \A n \in 1 .. Len(issued[c]) : sent[c]["up"][2 * n] = issued[c][n].frame

\* What the server ran on c its client sent.
Ran(c) ==
    \A s \in RunOn(c) :
        /\ executed[s].nth \in 1 .. Len(issued[c])
        /\ executed[s].frame = issued[c][executed[s].nth].frame

\* What it wrote to c are strays and answers to commands of c, each written once.
Answered(c) ==
    /\ Len(sent[c]["down"]) = 2 * Replies(c)
    /\ \A i \in 1 .. Replies(c) :
            Reply(c, i) \in Strays \/ \E s \in RunOn(c) : Answers(Reply(c, i), s)
    /\ \A i, j \in 1 .. Replies(c) :
            Reply(c, i) = Reply(c, j) /\ Reply(c, i) \notin Strays => i = j

\* Where it wrote no stray, its n-th reply answers the n-th command, which it had received.
Straight(c) ==
    c \notin Astray =>
        /\ Replies(c) = Cardinality(RunOn(c))
        /\ Replies(c) <= Len(got[c]["up"]) \div 2
        /\ \A i \in 1 .. Replies(c) :
                \E s \in RunOn(c) : Reply(c, i) = Value(s) /\ executed[s].nth = i

\* A recorder holds the half value it has read and the commands that wait for a reply.
Waiting(c) ==
    LET r == recorder[c]
    IN  /\ Len(r.clientBuffer) < 2 /\ Len(r.serverBuffer) < 2
        /\ \A k \in 1 .. Len(r.pending) :
                \E n \in 1 .. Len(issued[c]) : r.pending[k] = issued[c][n].frame
        /\ bridge[c] = "open" =>
                /\ Len(r.clientBuffer) = Done(c, "up") % 2
                /\ Len(r.serverBuffer) = Done(c, "down") % 2
                /\ c \notin Astray =>
                        /\ Len(r.pending) = Done(c, "up") \div 2 - Heard(c)
                        /\ \A k \in 1 .. Len(r.pending) :
                                r.pending[k] = issued[c][Heard(c) + k].frame

\* An interaction is a command of some connection with a reply the proxy has read
\* there, the reply of the command's own place unless strays were written.
Sourced ==
    \A k \in 1 .. Len(interactions) :
        \E c \in Connection : \E i \in 1 .. Heard(c) : \E n \in 1 .. Len(issued[c]) :
            /\ interactions[k].response = Reply(c, i)
            /\ interactions[k].request = toCommand(issued[c][n].frame)
            /\ c \in Astray \/ n = i

Once ==
    \A j, k \in 1 .. Len(interactions) :
        interactions[j].response = interactions[k].response /\ interactions[j].response \notin Strays
            => j = k

InList(reply) == \E k \in 1 .. Len(interactions) : interactions[k].response = reply

\* What the client of c has received of its replies is recorded, and as long as the
\* proxy has not closed so is what it has read of them.
Kept(c) ==
    c \notin Astray =>
        /\ \A i \in 1 .. Len(got[c]["down"]) \div 2 : InList(Reply(c, i))
        /\ bridge[c] = "open" => \A i \in 1 .. Heard(c) : InList(Reply(c, i))

\* An answer someone had seen when a command was sent is recorded.
SeenKept ==
    \A c \in Connection : \A n \in 1 .. Len(issued[c]) : \A s \in issued[c][n].seen :
        /\ s \in 1 .. Len(executed)
        /\ Recorded(s) \/ executed[s].on \in Astray

Told == Typed /\ \A c \in Connection : Commanded(c) /\ Ran(c) /\ Answered(c) /\ Straight(c)

Matched == Sourced /\ Once /\ SeenKept /\ RecordedInCausalOrder /\ \A c \in Connection : Kept(c)

IInv == Told /\ (\A c \in Connection : Waiting(c)) /\ Matched

-----------------------------------------------------------------------------
(***************************************************************************)
(* What the proxy's own invariant says of the four streams.                *)
(***************************************************************************)

Flow == [Connection -> [{"up", "down"} -> Seq(Byte)]]

Streamed(c, d) ==
    /\ bridge[c] \in {"open", "closed"}
    /\ bridge[c] = "closed" => wire[c][d] = <<>> /\ queue[c][d] = <<>>
    /\ Done(c, d) \in Nat
    /\ Len(sent[c][d]) = Done(c, d) + Len(wire[c][d])
    /\ \A i \in 1 .. Len(wire[c][d]) : wire[c][d][i] = sent[c][d][Done(c, d) + i]
    /\ Len(got[c][d]) <= Done(c, d)
    /\ \A i \in 1 .. Len(got[c][d]) : got[c][d][i] = sent[c][d][i]

Relayed ==
    /\ wire \in Flow /\ queue \in Flow /\ got \in Flow /\ sent \in Flow
    /\ bridge \in [Connection -> {"open", "closed"}]
    /\ \A c \in Connection, d \in {"up", "down"} : Streamed(c, d)

LEMMA FlowBytes ==
    ASSUME Relayed, NEW c \in Connection, NEW d \in {"up", "down"}
    PROVE  /\ wire[c][d] \in Seq(Byte) /\ got[c][d] \in Seq(Byte) /\ sent[c][d] \in Seq(Byte)
           /\ Len(wire[c][d]) \in Nat /\ Len(got[c][d]) \in Nat /\ Len(sent[c][d]) \in Nat
<1>1. wire[c][d] \in Seq(Byte) /\ got[c][d] \in Seq(Byte) /\ sent[c][d] \in Seq(Byte)
    <2>1. wire \in Flow /\ got \in Flow /\ sent \in Flow
        BY DEF Relayed
    <2> QED
        BY <2>1 DEF Flow
<1> QED
    BY <1>1

LEMMA SuffixOfThree ==
    ASSUME NEW S, NEW g \in Seq(S), NEW q \in Seq(S), NEW w \in Seq(S)
    PROVE  /\ Len(g \o q \o w) = Len(g) + Len(q) + Len(w)
           /\ \A i \in 1 .. Len(w) : w[i] = (g \o q \o w)[Len(g) + Len(q) + i]
OBVIOUS

LEMMA BridgeIsRelayed == Bridge!Inv => Relayed
<1> SUFFICES ASSUME Bridge!Inv PROVE Relayed
    OBVIOUS
<1>1. wire \in Flow /\ queue \in Flow /\ got \in Flow /\ sent \in Flow
      /\ bridge \in [Connection -> {"open", "closed"}]
    BY DEF Bridge!Inv, Bridge!IInv, Bridge!TypeInv, Bridge!Flow, Bridge!Direction, Flow
<1>2. ASSUME NEW c \in Connection, NEW d \in {"up", "down"} PROVE Streamed(c, d)
    <2>1. /\ bridge[c] = "open" => sent[c][d] = got[c][d] \o queue[c][d] \o wire[c][d]
          /\ bridge[c] = "closed" => queue[c][d] = <<>> /\ wire[c][d] = <<>>
          /\ Len(got[c][d]) <= Len(sent[c][d])
          /\ got[c][d] = SubSeq(sent[c][d], 1, Len(got[c][d]))
        BY DEF Bridge!Inv, Bridge!IInv, Bridge!WireClosed, Bridge!Conserved, Bridge!IsStart,
               Bridge!Direction
    <2>2. PICK g \in Seq(Byte), q \in Seq(Byte), w \in Seq(Byte), s \in Seq(Byte) :
            g = got[c][d] /\ q = queue[c][d] /\ w = wire[c][d] /\ s = sent[c][d]
        BY <1>1 DEF Flow
    <2>3. Done(c, d) = Len(s) - Len(w) /\ Len(s) \in Nat /\ Len(w) \in Nat /\ Len(g) \in Nat
        BY <2>2 DEF Done
    <2>4. Len(g) <= Len(s) /\ \A i \in 1 .. Len(g) : g[i] = s[i]
        <3>1. Len(g) <= Len(s) /\ g = SubSeq(s, 1, Len(g))
            BY <2>1, <2>2
        <3> QED
            BY <2>3, <3>1
    <2>5. CASE bridge[c] = "open"
        <3>1. s = g \o q \o w
            BY <2>1, <2>2, <2>5
        <3>2. /\ Len(s) = Len(g) + Len(q) + Len(w)
              /\ \A i \in 1 .. Len(w) : w[i] = s[Len(g) + Len(q) + i]
            BY <3>1, SuffixOfThree
        <3>3. Done(c, d) = Len(g) + Len(q) /\ Len(q) \in Nat
            BY <2>3, <3>2
        <3>4. Len(s) = Done(c, d) + Len(w) /\ \A i \in 1 .. Len(w) : w[i] = s[Done(c, d) + i]
            BY <2>3, <3>2, <3>3
        <3>5. Done(c, d) \in Nat /\ Len(g) <= Done(c, d)
            BY <2>3, <3>3
        <3> QED
            BY <2>2, <2>4, <2>5, <3>4, <3>5 DEF Streamed
    <2>6. CASE bridge[c] = "closed"
        <3>1. w = <<>> /\ Len(w) = 0
            BY <2>1, <2>2, <2>6
        <3>2. queue[c][d] = <<>> /\ wire[c][d] = <<>>
            BY <2>1, <2>6
        <3>3. Done(c, d) = Len(s)
            BY <2>3, <3>1
        <3> QED
            BY <2>2, <2>3, <2>4, <2>6, <3>1, <3>2, <3>3 DEF Streamed
    <2> QED
        BY <1>1, <2>5, <2>6
<1> QED
    BY <1>1, <1>2 DEF Relayed

-----------------------------------------------------------------------------
(***************************************************************************)
(* What only grows: the lists, the streams and the connections astray.     *)
(***************************************************************************)

Grown ==
    /\ \A s \in 1 .. Len(executed) : s \in 1 .. Len(executed') /\ executed'[s] = executed[s]
    /\ \A c \in Connection : \A n \in 1 .. Len(issued[c]) :
            n \in 1 .. Len(issued'[c]) /\ issued'[c][n] = issued[c][n]
    /\ \A c \in Connection :
            /\ Replies(c)' >= Replies(c)
            /\ \A i \in 1 .. Replies(c) : Reply(c, i)' = Reply(c, i)
            /\ Heard(c)' >= Heard(c)
    /\ pushed \subseteq pushed'
    /\ \A k \in 1 .. Len(interactions) :
            k \in 1 .. Len(interactions') /\ interactions'[k] = interactions[k]

LEMMA HalfGrows == \A a, b \in Nat : a <= b => a \div 2 \in Nat /\ b \div 2 \in Nat /\ a \div 2 <= b \div 2
OBVIOUS

\* How many replies the proxy has read and the client has received.
LEMMA Counts ==
    ASSUME Relayed, NEW c \in Connection
    PROVE  /\ Replies(c) \in Nat /\ Heard(c) \in Nat /\ Len(got[c]["down"]) \div 2 \in Nat
           /\ Len(got[c]["down"]) \div 2 <= Heard(c) /\ Heard(c) <= Replies(c)
           /\ Len(got[c]["down"]) \div 2 <= Replies(c)
           /\ Len(got[c]["up"]) \div 2 \in Nat /\ Done(c, "up") \in Nat
           /\ Len(got[c]["up"]) \div 2 <= Done(c, "up") \div 2
           /\ Done(c, "up") <= Len(sent[c]["up"]) /\ Len(sent[c]["up"]) \in Nat
<1>1. PICK g \in Nat, h \in Nat, w \in Nat, s \in Nat :
        /\ g = Len(got[c]["down"]) /\ h = Done(c, "down") /\ w = Len(wire[c]["down"])
        /\ s = Len(sent[c]["down"]) /\ s = h + w /\ g <= h
    BY DEF Relayed, Streamed, Flow
<1>2. PICK g2 \in Nat, h2 \in Nat, w2 \in Nat, s2 \in Nat :
        /\ g2 = Len(got[c]["up"]) /\ h2 = Done(c, "up") /\ w2 = Len(wire[c]["up"])
        /\ s2 = Len(sent[c]["up"]) /\ s2 = h2 + w2 /\ g2 <= h2
    BY DEF Relayed, Streamed, Flow
<1>3. /\ g \div 2 \in Nat /\ h \div 2 \in Nat /\ s \div 2 \in Nat
      /\ g \div 2 <= h \div 2 /\ h \div 2 <= s \div 2 /\ g \div 2 <= s \div 2
    <2>1. g <= h /\ h <= s
        BY <1>1
    <2> QED
        BY ONLY <2>1, g \in Nat, h \in Nat, s \in Nat, HalfGrows
<1>4. g2 \div 2 \in Nat /\ g2 \div 2 <= h2 \div 2 /\ h2 <= s2
    <2>1. g2 <= h2 /\ h2 <= s2
        BY <1>2
    <2> QED
        BY ONLY <2>1, g2 \in Nat, h2 \in Nat, HalfGrows
<1>5. Replies(c) = s \div 2 /\ Heard(c) = h \div 2
    BY <1>1 DEF Replies, Heard
<1> QED
    BY <1>1, <1>2, <1>3, <1>4, <1>5

Counted ==
    \A c \in Connection :
        /\ Heard(c) \in Nat /\ Replies(c) \in Nat /\ Heard(c) <= Replies(c)
        /\ Len(got[c]["down"]) \div 2 \in Nat /\ Len(got[c]["down"]) \div 2 <= Heard(c)

LEMMA RelayedCounts == Relayed => Counted
BY Counts DEF Counted

LEMMA AstrayGrows ==
    ASSUME Typed, Typed', Grown
    PROVE  /\ \A c \in Connection : RunOn(c) \subseteq RunOn(c)'
           /\ Astray \subseteq Astray'
<1>1. Len(executed) \in Nat /\ DOMAIN executed = 1 .. Len(executed)
    BY DEF Typed
<1>2. Len(executed') \in Nat /\ DOMAIN executed' = 1 .. Len(executed')
    BY DEF Typed
<1>3. \A c \in Connection : RunOn(c) \subseteq RunOn(c)'
    BY <1>1, <1>2 DEF Grown, RunOn
<1> QED
    BY <1>1, <1>2, <1>3 DEF Grown, Astray, RunOn

LEMMA Domains ==
    Typed => /\ DOMAIN interactions = 1 .. Len(interactions) /\ Len(interactions) \in Nat
             /\ DOMAIN executed = 1 .. Len(executed) /\ Len(executed) \in Nat
<1>1. ASSUME Typed
      PROVE  /\ executed \in Seq([on : Connection, nth : Nat \ {0}, frame : Frame])
             /\ interactions \in Seq([protocol : {"redis"}, response : Byte,
                                       request : {toCommand(frame) : frame \in Frame}])
    BY <1>1 DEF Typed
<1> QED
    BY <1>1

LEMMA ExecutedDomain == Typed => DOMAIN executed = 1 .. Len(executed) /\ Len(executed) \in Nat
BY Domains

LEMMA RecordedGrows ==
    ASSUME Typed, Typed', Grown
    PROVE  /\ \A s : Recorded(s) => Recorded(s)'
           /\ \A reply : InList(reply) => InList(reply)'
<1>1. DOMAIN interactions = 1 .. Len(interactions) /\ DOMAIN interactions' = 1 .. Len(interactions')
    BY Domains
<1> QED
    BY <1>1 DEF Grown, Recorded, InList

\* What an interaction was recorded of, and the order it was recorded in, stay.
LEMMA OldSourced ==
    ASSUME Sourced, Relayed, Relayed', Typed, Typed', Grown, NEW k \in 1 .. Len(interactions)
    PROVE  \E c \in Connection : \E i \in 1 .. Heard(c)' : \E n \in 1 .. Len(issued'[c]) :
                /\ interactions'[k].response = Reply(c, i)'
                /\ interactions'[k].request = toCommand(issued'[c][n].frame)
                /\ c \in Astray' \/ n = i
<1>0. PICK c \in Connection : \E i \in 1 .. Heard(c) : \E n \in 1 .. Len(issued[c]) :
            /\ interactions[k].response = Reply(c, i)
            /\ interactions[k].request = toCommand(issued[c][n].frame)
            /\ c \in Astray \/ n = i
    BY DEF Sourced
<1>1. PICK i \in 1 .. Heard(c), n \in 1 .. Len(issued[c]) :
            /\ interactions[k].response = Reply(c, i)
            /\ interactions[k].request = toCommand(issued[c][n].frame)
            /\ c \in Astray \/ n = i
    BY <1>0
<1>2. /\ n \in 1 .. Len(issued'[c]) /\ issued'[c][n] = issued[c][n]
      /\ interactions'[k] = interactions[k]
      /\ Astray \subseteq Astray'
    BY AstrayGrows DEF Grown
<1>3. i \in 1 .. Heard(c)' /\ Reply(c, i)' = Reply(c, i)
    <2>1. PICK h \in Nat, r \in Nat : h = Heard(c) /\ r = Replies(c) /\ h <= r
        BY Counts
    <2>2. Heard(c)' \in Nat
        <3>1. Counted'
            BY RelayedCounts, PTL
        <3> QED
            BY <3>1 DEF Counted
    <2>3. h <= Heard(c)'
        BY <2>1 DEF Grown
    <2>4. i \in 1 .. h
        BY <2>1
    <2>5. i \in 1 .. r /\ i \in 1 .. Heard(c)'
        BY ONLY <2>1, <2>2, <2>3, <2>4
    <2> QED
        BY <2>1, <2>5 DEF Grown
<1> QED
    BY <1>1, <1>2, <1>3

LEMMA OldOrder ==
    ASSUME RecordedInCausalOrder, Told, SeenKept, Typed', Grown,
           NEW k \in 1 .. Len(interactions), NEW s \in 1 .. Len(executed),
           Answers(interactions[k].response, s),
           NEW earlier \in issued'[executed'[s].on][executed'[s].nth].seen
    PROVE  \/ \E j \in 1 .. k - 1 : Answers(interactions'[j].response, earlier)
           \/ executed'[earlier].on \in Astray'
<1>1. /\ executed[s].on \in Connection /\ s \in RunOn(executed[s].on)
      /\ s \in DOMAIN executed /\ k \in DOMAIN interactions /\ Len(interactions) \in Nat
    <2> DEFINE Run == [on : Connection, nth : Nat \ {0}, frame : Frame]
    <2>1. executed \in Seq(Run) /\ \A run \in Run : run.on \in Connection
        BY DEF Told, Typed
    <2>2. s \in DOMAIN executed /\ k \in DOMAIN interactions /\ Len(interactions) \in Nat
        BY Domains DEF Told
    <2> HIDE DEF Run
    <2>3. executed[s] \in Run
        BY <2>1
    <2> QED
        BY <2>1, <2>2, <2>3 DEF RunOn
<1>2. executed[s].nth \in 1 .. Len(issued[executed[s].on])
    BY <1>1 DEF Told, Ran
<1>3. earlier \in issued[executed[s].on][executed[s].nth].seen
    <2>1. PICK c \in Connection, n \in 1 .. Len(issued[executed[s].on]) :
                c = executed[s].on /\ n = executed[s].nth
        BY <1>1, <1>2
    <2>2. n \in 1 .. Len(issued[c])
        BY <2>1
    <2>3. issued'[c][n] = issued[c][n] /\ executed'[s] = executed[s]
        BY <2>2 DEF Grown
    <2> QED
        BY <2>1, <2>3
<1>4. \/ \E j \in 1 .. k - 1 : Answers(interactions[j].response, earlier)
      \/ executed[earlier].on \in Astray
    BY <1>1, <1>3 DEF RecordedInCausalOrder
<1>5. earlier \in 1 .. Len(executed)
    BY <1>1, <1>2, <1>3 DEF SeenKept
<1>6. \A j \in 1 .. k - 1 : interactions'[j] = interactions[j]
    <2>1. \A j \in 1 .. k - 1 : j \in 1 .. Len(interactions)
        BY <1>1
    <2> QED
        BY <2>1 DEF Grown
<1>7. executed'[earlier] = executed[earlier] /\ Astray \subseteq Astray'
    BY <1>5, AstrayGrows DEF Grown, Told
<1> QED
    BY <1>4, <1>6, <1>7

LEMMA OldSeen ==
    ASSUME SeenKept, Typed, Typed', Grown,
           NEW c \in Connection, NEW n \in 1 .. Len(issued[c]), NEW s \in issued'[c][n].seen
    PROVE  s \in 1 .. Len(executed') /\ (Recorded(s)' \/ executed'[s].on \in Astray')
<1>1. s \in 1 .. Len(executed) /\ (Recorded(s) \/ executed[s].on \in Astray)
    BY DEF SeenKept, Grown
<1> QED
    BY <1>1, AstrayGrows, RecordedGrows DEF Grown

-----------------------------------------------------------------------------
(***************************************************************************)
(* What a client has seen.                                                 *)
(***************************************************************************)

LEMMA AnswerNames == \A reply, s : Answers(reply, s) => reply.value = s
BY DEF Answers, Value, SetHeader

LEMMA StrayIsNoAnswer == \A reply \in Strays, s \in Nat \ {0} : ~ Answers(reply, s)
BY DEF Strays, Push, Member, Answers, Value, SetHeader

LEMMA ReceivedReply ==
    ASSUME Relayed, NEW c \in Connection, NEW i \in 1 .. Len(got[c]["down"]) \div 2
    PROVE  Decodable(got[c]["down"])[i] = Reply(c, i) /\ i \in 1 .. Replies(c)
<1>1. /\ Len(got[c]["down"]) \in Nat
      /\ \A j \in 1 .. Len(got[c]["down"]) : got[c]["down"][j] = sent[c]["down"][j]
    <2>1. Streamed(c, "down") /\ got[c]["down"] \in Seq(Byte)
        BY DEF Relayed, Flow
    <2> QED
        BY <2>1 DEF Streamed
<1>2. 2 * i \in 1 .. Len(got[c]["down"])
    <2>1. PICK g \in Nat : g = Len(got[c]["down"])
        BY <1>1
    <2>2. i \in 1 .. g \div 2
        BY <2>1
    <2>3. 2 * i \in 1 .. g
        BY ONLY <2>2, g \in Nat
    <2> QED
        BY <2>1, <2>3
<1>3. i \in 1 .. Replies(c)
    <2>1. PICK g \in Nat, r \in Nat : g = Len(got[c]["down"]) \div 2 /\ r = Replies(c) /\ g <= r
        BY Counts
    <2>2. i \in 1 .. g /\ g <= r
        BY <2>1
    <2>3. i \in 1 .. r
        BY ONLY <2>2, g \in Nat, r \in Nat
    <2> QED
        BY <2>1, <2>3
<1> QED
    BY <1>1, <1>2, <1>3 DEF Decodable, Reply

LEMMA SeenIsReply ==
    ASSUME Relayed, Told, NEW c \in Connection, NEW s \in Seen(c)
    PROVE  /\ s \in RunOn(c) /\ s \in 1 .. Len(executed)
           /\ \E i \in 1 .. Len(got[c]["down"]) \div 2 : Answers(Reply(c, i), s)
<1>1. PICK v \in Range(Decodable(got[c]["down"])) \ Strays : s = v.value
    BY DEF Seen, Strays
<1>2. DOMAIN Decodable(got[c]["down"]) = 1 .. Len(got[c]["down"]) \div 2
    BY DEF Decodable
<1>3. PICK i \in 1 .. Len(got[c]["down"]) \div 2 : v = Decodable(got[c]["down"])[i]
    BY <1>1, <1>2 DEF Range
<1>4. v = Reply(c, i) /\ i \in 1 .. Replies(c)
    BY <1>3, ReceivedReply
<1>5. PICK r \in RunOn(c) : Answers(Reply(c, i), r)
    BY <1>1, <1>4 DEF Told, Answered
<1>6. r = s
    BY <1>1, <1>4, <1>5, AnswerNames
<1>7. r \in 1 .. Len(executed)
    <2>1. executed \in Seq([on : Connection, nth : Nat \ {0}, frame : Frame])
        BY DEF Told, Typed
    <2> QED
        BY <1>5, <2>1 DEF RunOn
<1> QED
    BY <1>3, <1>5, <1>6, <1>7

LEMMA SeenByAnyoneKept ==
    ASSUME Relayed, IInv, NEW s \in SeenByAnyone
    PROVE  s \in 1 .. Len(executed) /\ (Recorded(s) \/ executed[s].on \in Astray)
<1>1. PICK c \in Connection : s \in Seen(c)
    BY DEF SeenByAnyone
<1>2. /\ s \in RunOn(c) /\ s \in 1 .. Len(executed)
      /\ \E i \in 1 .. Len(got[c]["down"]) \div 2 : Answers(Reply(c, i), s)
    BY <1>1, SeenIsReply DEF IInv
<1>3. PICK i \in 1 .. Len(got[c]["down"]) \div 2 : Answers(Reply(c, i), s)
    BY <1>2
<1>4. CASE c \in Astray
    BY <1>2, <1>4 DEF RunOn
<1>5. CASE c \notin Astray
    <2>1. InList(Reply(c, i))
        BY <1>5 DEF IInv, Matched, Kept
    <2>2. DOMAIN interactions = 1 .. Len(interactions)
        BY DEF IInv, Told, Typed
    <2> QED
        BY <1>2, <1>3, <2>1, <2>2 DEF InList, Recorded
<1> QED
    BY <1>4, <1>5

-----------------------------------------------------------------------------
(***************************************************************************)
(* A client's command: its list grows by one, its stream by two halves.    *)
(***************************************************************************)

\* What a write leaves as it was, and what it adds.
LEMMA Wrote ==
    ASSUME Relayed, NEW c \in Connection, NEW d \in {"up", "down"}, NEW bytes \in Seq(Byte),
           Proxy!Write(c, d, bytes)
    PROVE  /\ UNCHANGED <<bridge, queue, got, recorder, interactions>>
           /\ \A c2 \in Connection, d2 \in {"up", "down"} : Done(c2, d2)' = Done(c2, d2)
           /\ sent'[c][d] = sent[c][d] \o bytes
           /\ \A c2 \in Connection, d2 \in {"up", "down"} :
                    c2 # c \/ d2 # d => sent'[c2][d2] = sent[c2][d2]
<1>1. /\ UNCHANGED <<bridge, queue, got, recorder, interactions>>
      /\ wire' = [wire EXCEPT ![c][d] = @ \o bytes]
      /\ sent' = [sent EXCEPT ![c][d] = @ \o bytes]
    BY DEF Proxy!Write
<1>2. wire \in Flow /\ sent \in Flow
    BY DEF Relayed
<1>3. /\ sent'[c][d] = sent[c][d] \o bytes /\ wire'[c][d] = wire[c][d] \o bytes
      /\ \A c2 \in Connection, d2 \in {"up", "down"} :
            c2 # c \/ d2 # d => sent'[c2][d2] = sent[c2][d2] /\ wire'[c2][d2] = wire[c2][d2]
    BY <1>1, <1>2 DEF Flow
<1>4. Done(c, d)' = Done(c, d)
    <2>1. PICK s \in Seq(Byte), w \in Seq(Byte) : s = sent[c][d] /\ w = wire[c][d]
        BY <1>2 DEF Flow
    <2>2. Len(s \o bytes) - Len(w \o bytes) = Len(s) - Len(w)
        OBVIOUS
    <2> QED
        BY <1>3, <2>1, <2>2 DEF Done
<1>5. ASSUME NEW c2 \in Connection, NEW d2 \in {"up", "down"} PROVE Done(c2, d2)' = Done(c2, d2)
    <2>1. CASE c2 = c /\ d2 = d
        BY <1>4, <2>1
    <2>2. CASE c2 # c \/ d2 # d
        BY <1>3, <2>2 DEF Done
    <2> QED
        BY <2>1, <2>2
<1> QED
    BY <1>1, <1>3, <1>5

SameValues(more, stream, r) == \A i \in 1 .. r : more[2 * i] = stream[2 * i]

\* Two halves behind whole values are one value more.
LEMMA OneValueMore ==
    ASSUME NEW s \in Seq(Byte), NEW r \in Nat, Len(s) = 2 * r, NEW v \in Byte
    PROVE  /\ s \o Halves(v) \in Seq(Byte)
           /\ Len(s \o Halves(v)) = 2 * (r + 1)
           /\ SameValues(s \o Halves(v), s, r)
           /\ (s \o Halves(v))[2 * (r + 1)] = v
<1>0. <<v, v>> \in Seq(Byte) /\ Len(<<v, v>>) = 2 /\ <<v, v>>[2] = v
    OBVIOUS
<1>1. PICK h \in Seq(Byte) : h = Halves(v) /\ Len(h) = 2 /\ h[2] = v
    BY <1>0, Zenon DEF Halves
<1> DEFINE t == s \o h
<1>2. t \in Seq(Byte) /\ Len(t) = Len(s) + 2 /\ t[Len(s) + 2] = h[2]
    <2>1. /\ t \in Seq(Byte) /\ Len(t) = Len(s) + Len(h)
          /\ \A i \in 1 .. Len(s) + Len(h) :
                t[i] = IF i <= Len(s) THEN s[i] ELSE h[i - Len(s)]
        BY ConcatProperties
    <2> HIDE DEF t
    <2>2. Len(s) + 2 \in 1 .. Len(s) + Len(h) /\ ~ (Len(s) + 2 <= Len(s)) /\ Len(s) + 2 - Len(s) = 2
        BY <1>1
    <2> QED
        BY <1>1, <2>1, <2>2
<1>3. \A i \in 1 .. r : 2 * i \in 1 .. Len(s)
    OBVIOUS
<1>4. \A i \in 1 .. r : t[2 * i] = s[2 * i]
    BY <1>1, <1>3
<1>5. Len(s) + 2 = 2 * (r + 1)
    OBVIOUS
<1> HIDE DEF t
<1>6. Len(t) = 2 * (r + 1) /\ t[2 * (r + 1)] = v
    BY <1>1, <1>2, <1>5
<1>7. t = s \o Halves(v)
    BY <1>1 DEF t
<1> QED
    BY <1>2, <1>4, <1>6, <1>7 DEF SameValues

\* A waiting command is one the client sent.
LEMMA WaitingWithin ==
    ASSUME Relayed, NEW c \in Connection, Commanded(c), Len(issued[c]) \in Nat, NEW pending,
           Len(pending) = Done(c, "up") \div 2 - Heard(c)
    PROVE  /\ \A k \in 1 .. Len(pending) : Heard(c) + k \in 1 .. Len(issued[c])
           /\ Done(c, "up") \div 2 <= Len(issued[c])
<1>1. PICK h \in Nat, d \in Nat, n \in Nat :
            h = Heard(c) /\ d = Done(c, "up") /\ n = Len(issued[c])
    BY Counts
<1>2. d <= 2 * n
    BY <1>1, Counts DEF Commanded
<1>3. d \div 2 <= n
    BY ONLY <1>2, d \in Nat, n \in Nat
<1>4. \A k \in 1 .. d \div 2 - h : h + k \in 1 .. n
    BY <1>3
<1> QED
    BY <1>1, <1>3, <1>4

\* What the server has received of a client's stream is commands the client sent.
LEMMA ReceivedWithin ==
    ASSUME Relayed, NEW c \in Connection, Commanded(c),
           issued[c] \in Seq([frame : Frame, seen : SUBSET Nat]),
           NEW n \in Nat \ {0}, n <= Len(got[c]["up"]) \div 2
    PROVE  n \in 1 .. Len(issued[c])
<1>1. PICK g \in Nat, d \in Nat, m \in Nat, s \in Nat :
            /\ g = Len(got[c]["up"]) \div 2 /\ d = Done(c, "up") /\ g <= d \div 2
            /\ s = Len(sent[c]["up"]) /\ d <= s /\ m = Len(issued[c])
    <2>1. Len(issued[c]) \in Nat
        OBVIOUS
    <2>2. /\ Len(got[c]["up"]) \div 2 \in Nat /\ Done(c, "up") \in Nat /\ Len(sent[c]["up"]) \in Nat
          /\ Len(got[c]["up"]) \div 2 <= Done(c, "up") \div 2
          /\ Done(c, "up") <= Len(sent[c]["up"])
        BY Counts
    <2> QED
        BY <2>1, <2>2
<1>2. s = 2 * m
    BY <1>1 DEF Commanded
<1>3. n <= g /\ g <= d \div 2 /\ d <= s
    BY <1>1
<1>4. n \in 1 .. m
    BY ONLY <1>2, <1>3, n \in Nat \ {0}, g \in Nat, d \in Nat, m \in Nat, s \in Nat
<1> QED
    BY <1>1, <1>4

\* The client of c sends a command: it has seen what it lists as seen.
LEMMA CommandStep ==
    ASSUME IInv, Relayed, Relayed', NEW c \in Connection, NEW frame \in Frame,
           ClientCommand(c, frame)
    PROVE  IInv'
<1> DEFINE entry == [frame |-> frame, seen |-> SeenByAnyone]
           Entry == [frame : Frame, seen : SUBSET Nat]
<1>1. /\ Proxy!Write(c, "up", Halves(frame))
      /\ issued' = [issued EXCEPT ![c] = Append(@, entry)]
      /\ executed' = executed /\ pushed' = pushed
    BY DEF ClientCommand
<1>2. frame \in Byte /\ Halves(frame) \in Seq(Byte)
    BY HalvesAreBytes DEF Byte
<1>3. /\ UNCHANGED <<bridge, queue, got, recorder, interactions>>
      /\ \A c2 \in Connection, d2 \in {"up", "down"} : Done(c2, d2)' = Done(c2, d2)
      /\ sent'[c]["up"] = sent[c]["up"] \o Halves(frame)
      /\ \A c2 \in Connection, d2 \in {"up", "down"} :
                    c2 # c \/ d2 # "up" => sent'[c2][d2] = sent[c2][d2]
    BY <1>1, <1>2, Wrote
<1>4. /\ Astray' = Astray
      /\ \A c2 \in Connection : RunOn(c2)' = RunOn(c2)
    BY <1>1 DEF Astray, RunOn
<1>5. \A c2 \in Connection :
        /\ Replies(c2)' = Replies(c2) /\ Heard(c2)' = Heard(c2)
        /\ sent'[c2]["down"] = sent[c2]["down"]
        /\ \A i : Reply(c2, i)' = Reply(c2, i)
    BY <1>3 DEF Replies, Heard, Reply
<1>6. /\ \A s : Recorded(s)' = Recorded(s)
      /\ \A reply : InList(reply)' = InList(reply)
    BY <1>3 DEF Recorded, InList
<1>7. Typed /\ issued \in [Connection -> Seq(Entry)]
    BY DEF IInv, Told, Typed
<1>8. entry \in Entry
    <2>1. executed \in Seq([on : Connection, nth : Nat \ {0}, frame : Frame])
        BY <1>7 DEF Typed
    <2>2. SeenByAnyone \subseteq 1 .. Len(executed) /\ Len(executed) \in Nat
        BY <2>1, SeenByAnyoneKept
    <2>3. SeenByAnyone \subseteq Nat
        BY <2>2
    <2> QED
        BY <2>3
<1> HIDE DEF entry, Entry
<1>9. /\ issued' \in [Connection -> Seq(Entry)]
      /\ \A c2 \in Connection : c2 # c => issued'[c2] = issued[c2]
      /\ issued'[c] = Append(issued[c], entry)
    BY <1>1, <1>7, <1>8
<1>10. /\ Len(issued[c]) \in Nat /\ Len(issued'[c]) = Len(issued[c]) + 1
       /\ issued'[c][Len(issued[c]) + 1] = entry
       /\ \A n \in 1 .. Len(issued[c]) : issued'[c][n] = issued[c][n]
    <2>1. PICK list \in Seq(Entry) : list = issued[c]
        BY <1>7
    <2> QED
        BY <1>8, <1>9, <2>1
<1>11. \A c2 \in Connection : \A n \in 1 .. Len(issued[c2]) :
            n \in 1 .. Len(issued'[c2]) /\ issued'[c2][n] = issued[c2][n]
    <2>1. 1 .. Len(issued[c]) \subseteq 1 .. Len(issued'[c])
        BY <1>10
    <2> QED
        BY <1>9, <1>10, <2>1
<1>12. Typed'
    BY <1>1, <1>3, <1>7, <1>9 DEF Typed, Entry
<1>13. ASSUME NEW c2 \in Connection PROVE (Commanded(c2) /\ Ran(c2) /\ Answered(c2) /\ Straight(c2))'
    <2>1. Commanded(c2) /\ Ran(c2) /\ Answered(c2) /\ Straight(c2)
        BY DEF IInv, Told
    <2>2. Commanded(c2)'
        <3>1. CASE c2 = c
            <4>1. PICK up \in Seq(Byte) : up = sent[c]["up"]
                BY DEF Relayed, Flow
            <4>2. PICK n \in Nat : n = Len(issued[c])
                BY <1>10
            <4>3. Len(sent[c]["up"]) = 2 * n
                BY <2>1, <3>1, <4>2 DEF Commanded
            <4>4. /\ Len(sent'[c]["up"]) = 2 * (n + 1)
                  /\ \A i \in 1 .. n : sent'[c]["up"][2 * i] = sent[c]["up"][2 * i]
                  /\ sent'[c]["up"][2 * (n + 1)] = frame
                <5>1. Len(up) = 2 * n
                    BY <4>1, <4>3
                <5>2. /\ Len(up \o Halves(frame)) = 2 * (n + 1)
                      /\ SameValues(up \o Halves(frame), up, n)
                      /\ (up \o Halves(frame))[2 * (n + 1)] = frame
                    BY <1>2, <5>1, OneValueMore
                <5>3. sent'[c]["up"] = up \o Halves(frame)
                    BY <1>3, <4>1
                <5> QED
                    BY <4>1, <5>2, <5>3 DEF SameValues
            <4>5. entry.frame = frame
                BY DEF entry
            <4>6. \A i \in 1 .. n + 1 : sent'[c]["up"][2 * i] = issued'[c][i].frame
                <5> TAKE i \in 1 .. n + 1
                <5>1. CASE i \in 1 .. n
                    BY <1>10, <2>1, <3>1, <4>2, <4>4, <5>1 DEF Commanded
                <5>2. CASE i = n + 1
                    BY <1>10, <4>2, <4>4, <4>5, <5>2
                <5> QED
                    BY <5>1, <5>2
            <4> QED
                BY <1>10, <3>1, <4>2, <4>4, <4>6 DEF Commanded
        <3>2. CASE c2 # c
            BY <1>3, <1>9, <2>1, <3>2 DEF Commanded
        <3> QED
            BY <3>1, <3>2
    <2>3. Ran(c2)'
        BY <1>1, <1>4, <1>11, <2>1 DEF Ran
    <2>4. Answered(c2)'
        BY <1>4, <1>5, <2>1 DEF Answered
    <2>5. Straight(c2)'
        <3>1. /\ Astray' = Astray /\ executed' = executed /\ got' = got
              /\ RunOn(c2)' = RunOn(c2) /\ Replies(c2)' = Replies(c2)
              /\ \A i : Reply(c2, i)' = Reply(c2, i)
            BY <1>1, <1>3, <1>4, <1>5
        <3> QED
            BY <2>1, <3>1 DEF Straight
    <2> QED
        BY <2>2, <2>3, <2>4, <2>5
<1>14. ASSUME NEW c2 \in Connection PROVE Waiting(c2)'
    <2>1. Waiting(c2) /\ Commanded(c2)
        BY DEF IInv, Told
    <2>2. \A k \in 1 .. Len(recorder[c2].pending) :
                \E n \in 1 .. Len(issued'[c2]) : recorder[c2].pending[k] = issued'[c2][n].frame
        <3>1. \A k \in 1 .. Len(recorder[c2].pending) :
                    \E n \in 1 .. Len(issued[c2]) : recorder[c2].pending[k] = issued[c2][n].frame
            BY <2>1 DEF Waiting
        <3> QED
            BY <1>11, <3>1
    <2>3. ASSUME bridge[c2] = "open", c2 \notin Astray
          PROVE  /\ Len(recorder[c2].pending) = Done(c2, "up") \div 2 - Heard(c2)
                 /\ \A k \in 1 .. Len(recorder[c2].pending) :
                        recorder[c2].pending[k] = issued'[c2][Heard(c2) + k].frame
        <3>1. /\ Len(recorder[c2].pending) = Done(c2, "up") \div 2 - Heard(c2)
              /\ \A k \in 1 .. Len(recorder[c2].pending) :
                        recorder[c2].pending[k] = issued[c2][Heard(c2) + k].frame
            BY <2>1, <2>3 DEF Waiting
        <3>2. \A k \in 1 .. Len(recorder[c2].pending) : Heard(c2) + k \in 1 .. Len(issued[c2])
            BY <2>1, <3>1, WaitingWithin
        <3> QED
            BY <1>11, <3>1, <3>2
    <2> QED
        BY <1>3, <1>4, <1>5, <2>1, <2>2, <2>3 DEF Waiting
<1>20. Grown
    <2>1. \A c2 \in Connection : Replies(c2) \in Nat /\ Heard(c2) \in Nat
        BY Counts
    <2> QED
        BY <1>1, <1>3, <1>5, <1>11, <2>1 DEF Grown
<1>15. Sourced'
    BY <1>3, <1>12, <1>20, OldSourced, <1>7 DEF IInv, Matched, Sourced
<1>16. Once'
    BY <1>3 DEF IInv, Matched, Once
<1>17. SeenKept'
    <2>1. ASSUME NEW c2 \in Connection, NEW n \in 1 .. Len(issued'[c2]), NEW s \in issued'[c2][n].seen
          PROVE  s \in 1 .. Len(executed) /\ (Recorded(s) \/ executed[s].on \in Astray)
        <3>1. CASE n \in 1 .. Len(issued[c2])
            BY <1>11, <2>1, <3>1 DEF IInv, Matched, SeenKept
        <3>2. CASE n \notin 1 .. Len(issued[c2])
            <4>1. c2 = c /\ n = Len(issued[c]) + 1
                BY <1>9, <1>10, <3>2
            <4>2. s \in SeenByAnyone
                BY <1>10, <2>1, <4>1 DEF entry
            <4> QED
                BY <4>2, SeenByAnyoneKept
        <3> QED
            BY <3>1, <3>2
    <2> QED
        BY <1>1, <1>4, <1>6, <2>1 DEF SeenKept
<1>18. RecordedInCausalOrder'
    <2>1. DOMAIN interactions = 1 .. Len(interactions) /\ DOMAIN executed = 1 .. Len(executed)
        BY <1>7, Domains
    <2> QED
        BY <1>1, <1>3, <1>12, <1>20, <2>1, OldOrder DEF IInv, Matched, RecordedInCausalOrder
<1>19. ASSUME NEW c2 \in Connection PROVE Kept(c2)'
    BY <1>3, <1>4, <1>5, <1>6 DEF IInv, Matched, Kept
<1> QED
    BY <1>12, <1>13, <1>14, <1>15, <1>16, <1>17, <1>18, <1>19 DEF IInv, Told, Matched

-----------------------------------------------------------------------------
(***************************************************************************)
(* The server writes to c: an answer, or a push.                           *)
(***************************************************************************)

AnsweredIn(stream, ran) ==
    /\ Len(stream) = 2 * (Len(stream) \div 2)
    /\ \A i \in 1 .. Len(stream) \div 2 :
            stream[2 * i] \in Strays \/ \E s \in ran : Answers(stream[2 * i], s)
    /\ \A i, j \in 1 .. Len(stream) \div 2 :
            stream[2 * i] = stream[2 * j] /\ stream[2 * i] \notin Strays => i = j

LEMMA AnsweredIsIn ==
    \A c \in Connection : Answered(c) <=> AnsweredIn(sent[c]["down"], RunOn(c))
BY DEF Answered, AnsweredIn, Replies, Reply

\* One value more: a stray, or the answer to a command that had none.
LEMMA OneReplyMore ==
    ASSUME NEW stream \in Seq(Byte), NEW ran, AnsweredIn(stream, ran),
           NEW ran2, ran \subseteq ran2, NEW v \in Byte,
           v \in Strays \/ \E s \in ran2 \ ran : Answers(v, s),
           NEW r, r = Len(stream) \div 2
    PROVE  /\ AnsweredIn(stream \o Halves(v), ran2)
           /\ r \in Nat /\ stream \o Halves(v) \in Seq(Byte)
           /\ Len(stream \o Halves(v)) \div 2 = r + 1
           /\ SameValues(stream \o Halves(v), stream, r)
           /\ (stream \o Halves(v))[2 * (r + 1)] = v
<1> DEFINE more == stream \o Halves(v)
<1>1. r \in Nat /\ Len(stream) = 2 * r
    BY DEF AnsweredIn
<1>2. /\ more \in Seq(Byte) /\ Len(more) = 2 * (r + 1)
      /\ \A i \in 1 .. r : more[2 * i] = stream[2 * i]
      /\ more[2 * (r + 1)] = v
    <2>1. /\ stream \o Halves(v) \in Seq(Byte) /\ Len(stream \o Halves(v)) = 2 * (r + 1)
          /\ SameValues(stream \o Halves(v), stream, r)
          /\ (stream \o Halves(v))[2 * (r + 1)] = v
        <3>1. Len(stream) = 2 * r
            BY <1>1
        <3> QED
            BY ONLY <3>1, OneValueMore, stream \in Seq(Byte), r \in Nat, v \in Byte
    <2> QED
        BY <2>1 DEF SameValues
<1> HIDE DEF more
<1>3. Len(more) \div 2 = r + 1 /\ 1 .. r + 1 = (1 .. r) \union {r + 1} /\ r + 1 \notin 1 .. r
    BY <1>2
<1>4. \A i \in 1 .. r : stream[2 * i] \in Strays \/ \E s \in ran : Answers(stream[2 * i], s)
    BY <1>1 DEF AnsweredIn
<1>5. \A i \in 1 .. r : stream[2 * i] = v => v \in Strays
    <2> SUFFICES ASSUME NEW i \in 1 .. r, stream[2 * i] = v, v \notin Strays PROVE FALSE
        OBVIOUS
    <2>1. PICK s \in ran : Answers(v, s)
        BY <1>4
    <2>2. PICK t \in ran2 \ ran : Answers(v, t)
        OBVIOUS
    <2>3. s = t
        BY <2>1, <2>2, AnswerNames
    <2> QED
        BY <2>1, <2>2, <2>3
<1>6. \A i \in 1 .. r + 1 : more[2 * i] \in Strays \/ \E s \in ran2 : Answers(more[2 * i], s)
    BY <1>2, <1>3, <1>4
<1>7. ASSUME NEW i \in 1 .. r + 1, NEW j \in 1 .. r + 1,
             more[2 * i] = more[2 * j], more[2 * i] \notin Strays
      PROVE  i = j
    <2>1. CASE i \in 1 .. r /\ j \in 1 .. r
        BY <1>1, <1>2, <1>7, <2>1 DEF AnsweredIn
    <2>2. CASE i = r + 1 /\ j \in 1 .. r
        BY <1>2, <1>5, <1>7, <2>2
    <2>3. CASE i \in 1 .. r /\ j = r + 1
        BY <1>2, <1>5, <1>7, <2>3
    <2> QED
        BY <1>3, <1>7, <2>1, <2>2, <2>3
<1>8. AnsweredIn(more, ran2)
    BY <1>2, <1>3, <1>6, <1>7 DEF AnsweredIn
<1> QED
    BY <1>1, <1>2, <1>3, <1>8 DEF more, SameValues

\* A recorded answer is one the server gave.
LEMMA RecordedWasRun ==
    ASSUME Told, Sourced, Relayed, NEW k \in 1 .. Len(interactions), NEW s \in Nat \ {0},
           Answers(interactions[k].response, s)
    PROVE  s \in 1 .. Len(executed)
<1>0. PICK c \in Connection : \E i \in 1 .. Heard(c) : \E n \in 1 .. Len(issued[c]) :
            interactions[k].response = Reply(c, i)
    BY DEF Sourced
<1>1. PICK i \in 1 .. Heard(c) : interactions[k].response = Reply(c, i)
    BY <1>0
<1>2. i \in 1 .. Replies(c)
    <2>1. PICK h \in Nat, r \in Nat : h = Heard(c) /\ r = Replies(c) /\ h <= r
        BY Counts
    <2> QED
        BY <2>1
<1>3. PICK t \in RunOn(c) : Answers(Reply(c, i), t)
    BY <1>1, <1>2, StrayIsNoAnswer DEF Told, Answered
<1>4. s = t
    BY <1>1, <1>3, AnswerNames
<1> QED
    BY <1>3, <1>4, Domains DEF RunOn, Told

\* What a write of the server leaves as it was.
LEMMA ServerWrote ==
    ASSUME IInv, Relayed, Relayed', Typed', Grown,
           UNCHANGED <<bridge, got, recorder, interactions, issued>>,
           \A c2 \in Connection, d2 \in {"up", "down"} : Done(c2, d2)' = Done(c2, d2),
           \A c2 \in Connection : sent'[c2]["up"] = sent[c2]["up"]
    PROVE  Matched' /\ \A c2 \in Connection : Commanded(c2)' /\ Waiting(c2)'
<1>1. Told /\ Typed /\ Matched
    BY DEF IInv, Told
<1>2. /\ Astray \subseteq Astray'
      /\ \A s : Recorded(s) => Recorded(s)'
      /\ \A reply : InList(reply) => InList(reply)'
    BY <1>1, AstrayGrows, RecordedGrows
<1>3. \A c2 \in Connection : Heard(c2)' = Heard(c2)
    BY DEF Heard
<1>4. ASSUME NEW c2 \in Connection PROVE Commanded(c2)' /\ Waiting(c2)'
    <2>1. Commanded(c2) /\ Waiting(c2)
        BY <1>1 DEF IInv, Told
    <2> QED
        BY <1>2, <1>3, <2>1 DEF Commanded, Waiting
<1>5. Sourced'
    BY <1>1, OldSourced DEF Sourced, Matched
<1>6. Once'
    BY <1>1 DEF Matched, Once
<1>7. SeenKept'
    BY <1>1, OldSeen DEF Matched, SeenKept
<1>8. RecordedInCausalOrder'
    <2>1. /\ DOMAIN interactions = 1 .. Len(interactions) /\ DOMAIN executed' = 1 .. Len(executed')
          /\ Len(executed') \in Nat
        <3>1. (DOMAIN executed = 1 .. Len(executed) /\ Len(executed) \in Nat)'
            BY ExecutedDomain, PTL
        <3> QED
            BY <1>1, <3>1, Domains
    <2>2. ASSUME NEW k \in DOMAIN interactions, NEW s \in DOMAIN executed',
                 Answers(interactions[k].response, s),
                 NEW earlier \in issued'[executed'[s].on][executed'[s].nth].seen
          PROVE  \/ \E j \in 1 .. k - 1 : Answers(interactions'[j].response, earlier)
                 \/ executed'[earlier].on \in Astray'
        <3>1. s \in 1 .. Len(executed)
            BY <1>1, <2>1, <2>2, RecordedWasRun DEF Matched
        <3> QED
            BY <1>1, <2>1, <2>2, <3>1, OldOrder DEF Matched
    <2> QED
        BY <2>2 DEF RecordedInCausalOrder
<1>9. ASSUME NEW c2 \in Connection PROVE Kept(c2)'
    <2>1. Kept(c2)
        BY <1>1 DEF Matched
    <2>2. \A i \in 1 .. Len(got[c2]["down"]) \div 2 : Reply(c2, i)' = Reply(c2, i)
        BY ReceivedReply DEF Grown
    <2>3. \A i \in 1 .. Heard(c2) : Reply(c2, i)' = Reply(c2, i)
        <3>1. PICK h \in Nat, r \in Nat : h = Heard(c2) /\ r = Replies(c2) /\ h <= r
            BY Counts
        <3>2. \A i \in 1 .. h : i \in 1 .. r
            BY <3>1
        <3> QED
            BY <3>1, <3>2 DEF Grown
    <2> QED
        BY <1>2, <1>3, <2>1, <2>2, <2>3 DEF Kept
<1> QED
    BY <1>4, <1>5, <1>6, <1>7, <1>8, <1>9 DEF Matched

LEMMA ExecuteStep ==
    ASSUME IInv, Relayed, Relayed', NEW c \in Connection, ServerExecute(c)
    PROVE  IInv'
<1> DEFINE Run == [on : Connection, nth : Nat \ {0}, frame : Frame]
           n == Cardinality(RunOn(c)) + 1
           frame == issued[c][n].frame
           entry == [on |-> c, nth |-> n, frame |-> frame]
           serial == Len(executed) + 1
           down == sent[c]["down"]
<1>1. /\ n <= Len(got[c]["up"]) \div 2
      /\ executed' = Append(executed, entry)
      /\ Proxy!Write(c, "down", Answer(c, frame, serial))
      /\ issued' = issued /\ pushed' = pushed
    BY DEF ServerExecute
<1>2. /\ Told /\ Typed /\ Commanded(c) /\ Ran(c) /\ Answered(c) /\ Straight(c)
      /\ executed \in Seq(Run) /\ Len(executed) \in Nat /\ DOMAIN executed = 1 .. Len(executed)
    BY Domains DEF IInv, Told, Typed
<1>3. IsFiniteSet(RunOn(c)) /\ Cardinality(RunOn(c)) \in Nat /\ RunOn(c) \subseteq 1 .. Len(executed)
    <2>1. RunOn(c) \subseteq 1 .. Len(executed)
        BY <1>2 DEF RunOn
    <2>2. IsFiniteSet(1 .. Len(executed))
        BY <1>2, FS_Interval
    <2>3. IsFiniteSet(RunOn(c))
        BY <2>1, <2>2, FS_Subset
    <2> QED
        BY <2>1, <2>3, FS_CardinalityType
<1>4. n \in 1 .. Len(issued[c]) /\ n \in Nat \ {0} /\ frame \in Frame
    <2>1. issued[c] \in Seq([frame : Frame, seen : SUBSET Nat])
        BY <1>2 DEF Typed
    <2>2. n \in Nat \ {0}
        BY <1>3
    <2> HIDE DEF n
    <2>3. n \in 1 .. Len(issued[c])
        BY <1>1, <1>2, <2>1, <2>2, ReceivedWithin
    <2> DEFINE Entry == [frame : Frame, seen : SUBSET Nat]
    <2>4. issued[c] \in Seq(Entry) /\ \A e \in Entry : e.frame \in Frame
        BY <2>1
    <2> HIDE DEF Entry
    <2>5. issued[c][n] \in Entry
        BY <2>3, <2>4
    <2> QED
        BY <2>2, <2>3, <2>4, <2>5
<1>5. entry \in Run
    BY <1>4
<1>6. entry.on = c /\ entry.nth = n /\ entry.frame = frame
    OBVIOUS
<1>7. serial \in Nat \ {0} /\ serial \notin 1 .. Len(executed)
    BY <1>2
<1> HIDE DEF entry, n, frame, Run
<1>8. /\ executed' \in Seq(Run) /\ Len(executed') = serial /\ executed'[serial] = entry
      /\ \A s \in 1 .. Len(executed) : executed'[s] = executed[s]
    BY <1>1, <1>2, <1>5
<1> HIDE DEF serial
<1>9. /\ DOMAIN executed' = 1 .. serial
      /\ 1 .. serial = (1 .. Len(executed)) \union {serial}
    BY <1>2, <1>8 DEF serial
<1>10. /\ RunOn(c)' = RunOn(c) \union {serial} /\ serial \notin RunOn(c)
       /\ \A c2 \in Connection : c2 # c => RunOn(c2)' = RunOn(c2)
    BY <1>2, <1>3, <1>6, <1>7, <1>8, <1>9 DEF RunOn
<1>11. Answer(c, frame, serial) \in Seq(Byte)
    BY <1>7, AnswersAreBytes
<1>12. /\ UNCHANGED <<bridge, queue, got, recorder, interactions>>
       /\ \A c2 \in Connection, d2 \in {"up", "down"} : Done(c2, d2)' = Done(c2, d2)
       /\ sent'[c]["down"] = down \o Answer(c, frame, serial)
       /\ \A c2 \in Connection, d2 \in {"up", "down"} :
                    c2 # c \/ d2 # "down" => sent'[c2][d2] = sent[c2][d2]
    BY <1>1, <1>11, Wrote
<1>13. PICK r \in Nat : r = Replies(c) /\ r = Len(down) \div 2
    BY Counts DEF Replies
<1>21. down \in Seq(Byte) /\ AnsweredIn(down, RunOn(c)) /\ RunOn(c) \in SUBSET (Nat \ {0})
    <2>1. RunOn(c) \in SUBSET (Nat \ {0})
        BY <1>2, <1>3
    <2>2. down \in Seq(Byte)
        BY FlowBytes
    <2>3. AnsweredIn(down, RunOn(c))
        BY <1>2, AnsweredIsIn
    <2> QED
        BY <2>1, <2>2, <2>3
<1>14. /\ Value(serial) \in Byte /\ SetHeader(serial) \in Byte /\ Member \in Byte
       /\ Answers(Value(serial), serial) /\ Answers(SetHeader(serial), serial)
       /\ Member \in Strays
    BY <1>7 DEF Byte, Answers, Strays
<1> HIDE DEF down
\* The answer is one value more, or, of a set in RESP3, two.
<1>15. /\ Answered(c)' /\ Straight(c)'
       /\ Replies(c)' >= Replies(c) /\ \A i \in 1 .. Replies(c) : Reply(c, i)' = Reply(c, i)
    <2>1. CASE AnsweredBySet(c, frame)
        <3>1. Answer(c, frame, serial) = Halves(SetHeader(serial)) \o Halves(Member)
            BY <2>1 DEF Answer
        <3> DEFINE header == down \o Halves(SetHeader(serial))
                   whole  == header \o Halves(Member)
        <3>2. /\ AnsweredIn(header, RunOn(c)') /\ header \in Seq(Byte) /\ Len(header) \div 2 = r + 1
              /\ SameValues(header, down, r)
            <4>1. \E s \in RunOn(c)' \ RunOn(c) : Answers(SetHeader(serial), s)
                BY <1>10, <1>14
            <4>2. RunOn(c) \subseteq RunOn(c)'
                BY <1>10
            <4> QED
                BY <1>13, <1>14, <1>21, <4>1, <4>2, OneReplyMore
        <3>3. RunOn(c)' \in SUBSET (Nat \ {0})
            BY <1>7, <1>10, <1>21
        <3> HIDE DEF header
        <3>4. /\ AnsweredIn(whole, RunOn(c)') /\ Len(whole) \div 2 = r + 1 + 1
              /\ SameValues(whole, header, r + 1)
            <4>1. r + 1 = Len(header) \div 2 /\ RunOn(c)' \subseteq RunOn(c)'
                BY <3>2
            <4> QED
                BY <1>14, <3>2, <3>3, <4>1, OneReplyMore
        <3>5. sent'[c]["down"] = whole
            <4>1. /\ Halves(SetHeader(serial)) \in Seq(Byte) /\ Halves(Member) \in Seq(Byte)
                BY <1>14, HalvesAreBytes
            <4>2. (down \o Halves(SetHeader(serial))) \o Halves(Member)
                    = down \o (Halves(SetHeader(serial)) \o Halves(Member))
                BY <1>21, <4>1, ConcatAssociative
            <4> QED
                BY <1>12, <3>1, <4>2 DEF header
        <3>6. Answered(c)' /\ Replies(c)' = r + 2 /\ \A i \in 1 .. r : sent'[c]["down"][2 * i] = down[2 * i]
            <4> HIDE DEF whole
            <4>1. AnsweredIn(sent[c]["down"], RunOn(c))' /\ Replies(c)' = r + 1 + 1
                BY <3>4, <3>5 DEF Replies
            <4>2. Answered(c)'
                BY <4>1 DEF AnsweredIn, Answered, Replies, Reply
            <4>3. \A i \in 1 .. r : i \in 1 .. r + 1
                BY <1>13
            <4>4. \A i \in 1 .. r : whole[2 * i] = down[2 * i]
                BY <3>2, <3>4, <4>3 DEF SameValues
            <4> QED
                BY <1>13, <3>5, <4>1, <4>2, <4>4
        <3>7. c \in Astray'
            <4>1. serial \in RunOn(c)' /\ AnsweredBySet(c, executed'[serial].frame)
                BY <1>6, <1>8, <1>10, <2>1
            <4> QED
                BY <4>1 DEF Astray
        <3> QED
            <4>1. Straight(c)'
                BY <3>7 DEF Straight
            <4>2. \A i \in 1 .. r : Reply(c, i)' = Reply(c, i)
                BY <3>6 DEF Reply, down
            <4>3. Replies(c)' >= Replies(c) /\ r = Replies(c)
                BY <1>13, <3>6
            <4> QED
                BY <3>6, <4>1, <4>2, <4>3
    <2>2. CASE ~ AnsweredBySet(c, frame)
        <3> DEFINE whole == down \o Halves(Value(serial))
        <3>1. sent'[c]["down"] = whole
            BY <1>12, <2>2 DEF Answer
        <3>2. /\ AnsweredIn(whole, RunOn(c)') /\ Len(whole) \div 2 = r + 1
              /\ SameValues(whole, down, r)
              /\ whole[2 * (r + 1)] = Value(serial)
            <4>1. \E s \in RunOn(c)' \ RunOn(c) : Answers(Value(serial), s)
                BY <1>10, <1>14
            <4>2. RunOn(c) \subseteq RunOn(c)'
                BY <1>10
            <4>3. Value(serial) \in Byte /\ r = Len(down) \div 2
                BY <1>13, <1>14
            <4>4. down \in Seq(Byte) /\ AnsweredIn(down, RunOn(c))
                BY <1>21
            <4> HIDE DEF down
            <4>5. PICK stream, ran, ran2, v :
                    stream = down /\ ran = RunOn(c) /\ ran2 = RunOn(c)' /\ v = Value(serial)
                OBVIOUS
            <4>6. /\ AnsweredIn(stream \o Halves(v), ran2)
                  /\ Len(stream \o Halves(v)) \div 2 = r + 1
                  /\ SameValues(stream \o Halves(v), stream, r)
                  /\ (stream \o Halves(v))[2 * (r + 1)] = v
                <5>1. /\ stream \in Seq(Byte) /\ AnsweredIn(stream, ran) /\ ran \subseteq ran2
                      /\ v \in Byte /\ r = Len(stream) \div 2
                      /\ \E s \in ran2 \ ran : Answers(v, s)
                    BY <4>1, <4>2, <4>3, <4>4, <4>5
                <5> QED
                    BY ONLY <5>1, OneReplyMore
            <4> QED
                BY <4>5, <4>6
        <3> HIDE DEF whole
        <3>3. AnsweredIn(sent[c]["down"], RunOn(c))' /\ Replies(c)' = r + 1
            BY <3>1, <3>2 DEF Replies
        <3>4. Answered(c)'
            BY <3>3 DEF AnsweredIn, Answered, Replies, Reply
        <3>5. /\ \A i \in 1 .. r : Reply(c, i)' = Reply(c, i)
              /\ Reply(c, r + 1)' = Value(serial)
            <4>1. \A i \in 1 .. r : Reply(c, i)' = whole[2 * i] /\ Reply(c, i) = down[2 * i]
                BY <3>1 DEF Reply, down
            <4>2. Reply(c, r + 1)' = whole[2 * (r + 1)]
                BY <3>1 DEF Reply
            <4> QED
                BY <3>2, <4>1, <4>2 DEF SameValues
        <3>6. Straight(c)'
            <4> SUFFICES ASSUME c \notin Astray'
                         PROVE  /\ Replies(c)' = Cardinality(RunOn(c)')
                                /\ Replies(c)' <= Len(got'[c]["up"]) \div 2
                                /\ \A i \in 1 .. Replies(c)' :
                                        \E s \in RunOn(c)' : Reply(c, i)' = Value(s) /\ executed'[s].nth = i
                BY DEF Straight
            <4>1. c \notin Astray
                BY <1>1, <1>2, <1>8, <1>10 DEF Astray, RunOn
            <4>2. /\ r = Cardinality(RunOn(c))
                  /\ \A i \in 1 .. r : \E s \in RunOn(c) : Reply(c, i) = Value(s) /\ executed[s].nth = i
                BY <1>2, <1>13, <4>1 DEF Straight
            <4>3. Cardinality(RunOn(c)') = r + 1
                <5>1. Cardinality(RunOn(c) \union {serial}) = Cardinality(RunOn(c)) + 1
                    BY <1>3, <1>10, FS_AddElement
                <5> QED
                    BY <1>10, <4>2, <5>1
            <4>4. n = r + 1
                BY <4>2 DEF n
            <4>5. r + 1 <= Len(got'[c]["up"]) \div 2
                BY <1>1, <1>12, <4>4
            <4>6. \A i \in 1 .. r : \E s \in RunOn(c)' : Reply(c, i)' = Value(s) /\ executed'[s].nth = i
                BY <1>3, <1>8, <1>10, <3>5, <4>2
            <4>7. serial \in RunOn(c)' /\ Reply(c, r + 1)' = Value(serial) /\ executed'[serial].nth = r + 1
                BY <1>6, <1>8, <1>10, <3>5, <4>4
            <4>8. 1 .. r + 1 = (1 .. r) \union {r + 1}
                BY <1>13
            <4>9. Replies(c)' = r + 1
                BY <3>3
            <4>10. \A i \in 1 .. r + 1 :
                        \E s \in RunOn(c)' : Reply(c, i)' = Value(s) /\ executed'[s].nth = i
                <5> TAKE i \in 1 .. r + 1
                <5>1. CASE i \in 1 .. r
                    BY <4>6, <5>1
                <5>2. CASE i = r + 1
                    BY <4>7, <5>2, Zenon
                <5> QED
                    BY <4>8, <5>1, <5>2
            <4> QED
                BY <4>3, <4>5, <4>9, <4>10
        <3> QED
            BY <1>13, <3>3, <3>4, <3>5, <3>6
    <2> QED
        BY <2>1, <2>2
<1>16. ASSUME NEW c2 \in Connection, c2 # c
       PROVE  /\ Answered(c2)' /\ Straight(c2)'
              /\ Replies(c2)' = Replies(c2) /\ \A i : Reply(c2, i)' = Reply(c2, i)
    <2>1. /\ sent'[c2]["down"] = sent[c2]["down"] /\ RunOn(c2)' = RunOn(c2)
          /\ RunOn(c2) \subseteq 1 .. Len(executed)
          /\ Answered(c2) /\ Straight(c2)
        BY <1>2, <1>10, <1>12, <1>16 DEF Told, RunOn
    <2>2. c2 \notin Astray' => c2 \notin Astray
        BY <1>1, <1>8, <2>1 DEF Astray
    <2> QED
        BY <1>8, <1>12, <2>1, <2>2 DEF Answered, Straight, Replies, Reply
<1>17. Typed'
    BY <1>1, <1>2, <1>8, <1>12 DEF Typed, Run
<1>18. Grown
    <2>1. 1 .. Len(executed) \subseteq 1 .. Len(executed')
        BY <1>8, <1>9
    <2>2. \A c2 \in Connection :
            /\ Replies(c2)' >= Replies(c2) /\ \A i \in 1 .. Replies(c2) : Reply(c2, i)' = Reply(c2, i)
            /\ Heard(c2)' = Heard(c2) /\ Heard(c2) \in Nat /\ Replies(c2) \in Nat
        <3> SUFFICES ASSUME NEW c2 \in Connection
                     PROVE  /\ Replies(c2)' >= Replies(c2)
                            /\ \A i \in 1 .. Replies(c2) : Reply(c2, i)' = Reply(c2, i)
                            /\ Heard(c2)' = Heard(c2) /\ Heard(c2) \in Nat /\ Replies(c2) \in Nat
            OBVIOUS
        <3>1. Heard(c2)' = Heard(c2) /\ Heard(c2) \in Nat /\ Replies(c2) \in Nat
            BY <1>12, Counts DEF Heard
        <3> QED
            BY <1>15, <1>16, <3>1
    <2> QED
        BY <1>1, <1>8, <1>12, <2>1, <2>2 DEF Grown
<1>19. ASSUME NEW c2 \in Connection PROVE Ran(c2)'
    <2>1. Ran(c2) /\ RunOn(c2) \subseteq 1 .. Len(executed)
        BY <1>2 DEF Told, RunOn
    <2>2. CASE c2 = c
        BY <1>1, <1>4, <1>6, <1>8, <1>10, <2>1, <2>2 DEF Ran, frame
    <2>3. CASE c2 # c
        BY <1>1, <1>8, <1>10, <2>1, <2>3 DEF Ran
    <2> QED
        BY <2>2, <2>3
<1>20. Matched' /\ \A c2 \in Connection : Commanded(c2)' /\ Waiting(c2)'
    <2>1. /\ UNCHANGED <<bridge, got, recorder, interactions, issued>>
          /\ \A c2 \in Connection, d2 \in {"up", "down"} : Done(c2, d2)' = Done(c2, d2)
          /\ \A c2 \in Connection : sent'[c2]["up"] = sent[c2]["up"]
        BY <1>1, <1>12
    <2> QED
        BY <1>17, <1>18, <2>1, ServerWrote
<1> QED
    BY <1>15, <1>16, <1>17, <1>19, <1>20 DEF IInv, Told

\* A push is one value more, and from then on the connection is astray.
LEMMA PushStep ==
    ASSUME IInv, Relayed, Relayed', NEW c \in Connection, ServerPush(c)
    PROVE  IInv'
<1> DEFINE down == sent[c]["down"]
<1>1. /\ Proxy!Write(c, "down", Halves(Push))
      /\ executed' = executed /\ issued' = issued /\ pushed' = pushed \union {c}
    BY DEF ServerPush
<1>2. Push \in Byte /\ Push \in Strays /\ Halves(Push) \in Seq(Byte)
    BY HalvesAreBytes DEF Byte, Strays
<1>3. /\ UNCHANGED <<bridge, queue, got, recorder, interactions>>
      /\ \A c2 \in Connection, d2 \in {"up", "down"} : Done(c2, d2)' = Done(c2, d2)
      /\ sent'[c]["down"] = down \o Halves(Push)
      /\ \A c2 \in Connection, d2 \in {"up", "down"} :
                    c2 # c \/ d2 # "down" => sent'[c2][d2] = sent[c2][d2]
    BY <1>1, <1>2, Wrote
<1>4. /\ \A c2 \in Connection : RunOn(c2)' = RunOn(c2)
      /\ Astray \subseteq Astray' /\ c \in Astray'
    BY <1>1 DEF Astray, RunOn
<1>5. Told /\ Typed
    BY DEF IInv, Told
<1>6. PICK r \in Nat : r = Replies(c) /\ r = Len(down) \div 2
    BY Counts DEF Replies
<1>7. down \in Seq(Byte) /\ AnsweredIn(down, RunOn(c))
    BY <1>5, AnsweredIsIn DEF Told, Relayed, Flow
<1> HIDE DEF down
<1>8. /\ AnsweredIn(down \o Halves(Push), RunOn(c))
      /\ Len(down \o Halves(Push)) \div 2 = r + 1
      /\ SameValues(down \o Halves(Push), down, r)
    <2>1. RunOn(c) \subseteq RunOn(c)
        OBVIOUS
    <2> QED
        BY <1>2, <1>6, <1>7, <2>1, OneReplyMore
<1>9. AnsweredIn(sent[c]["down"], RunOn(c))' /\ Replies(c)' = r + 1
    BY <1>3, <1>4, <1>8 DEF Replies
<1>10. Answered(c)'
    BY <1>9 DEF AnsweredIn, Answered, Replies, Reply
<1>11. Straight(c)'
    BY <1>4 DEF Straight
<1>12. \A i \in 1 .. r : Reply(c, i)' = Reply(c, i)
    <2>1. \A i \in 1 .. r : sent'[c]["down"][2 * i] = down[2 * i]
        BY <1>3, <1>8 DEF SameValues
    <2> QED
        BY <2>1 DEF Reply, down
<1>13. ASSUME NEW c2 \in Connection, c2 # c
       PROVE  /\ Answered(c2)' /\ Straight(c2)'
              /\ Replies(c2)' = Replies(c2) /\ \A i : Reply(c2, i)' = Reply(c2, i)
    <2>1. sent'[c2]["down"] = sent[c2]["down"] /\ Answered(c2) /\ Straight(c2)
        BY <1>3, <1>5, <1>13 DEF Told
    <2> QED
        BY <1>1, <1>3, <1>4, <2>1 DEF Answered, Straight, Replies, Reply
<1>14. Typed'
    BY <1>1, <1>3, <1>5 DEF Typed
<1>15. Grown
    <2>1. \A c2 \in Connection :
            /\ Replies(c2)' >= Replies(c2) /\ \A i \in 1 .. Replies(c2) : Reply(c2, i)' = Reply(c2, i)
            /\ Heard(c2)' = Heard(c2) /\ Heard(c2) \in Nat
        <3> SUFFICES ASSUME NEW c2 \in Connection
                     PROVE  /\ Replies(c2)' >= Replies(c2)
                            /\ \A i \in 1 .. Replies(c2) : Reply(c2, i)' = Reply(c2, i)
                            /\ Heard(c2)' = Heard(c2) /\ Heard(c2) \in Nat
            OBVIOUS
        <3>1. Heard(c2)' = Heard(c2) /\ Heard(c2) \in Nat /\ Replies(c2) \in Nat
            BY <1>3, Counts DEF Heard
        <3> QED
            <4>1. CASE c2 = c
                <5>1. Replies(c)' >= Replies(c) /\ \A i \in 1 .. Replies(c) : Reply(c, i)' = Reply(c, i)
                    BY <1>6, <1>9, <1>12
                <5> QED
                    BY <3>1, <4>1, <5>1
            <4>2. CASE c2 # c
                BY <1>13, <3>1, <4>2
            <4> QED
                BY <4>1, <4>2
    <2> QED
        BY <1>1, <1>3, <2>1 DEF Grown
<1>16. ASSUME NEW c2 \in Connection PROVE Ran(c2)'
    BY <1>1, <1>4, <1>5 DEF Ran, Told
<1>17. Matched' /\ \A c2 \in Connection : Commanded(c2)' /\ Waiting(c2)'
    <2>1. /\ UNCHANGED <<bridge, got, recorder, interactions, issued>>
          /\ \A c2 \in Connection, d2 \in {"up", "down"} : Done(c2, d2)' = Done(c2, d2)
          /\ \A c2 \in Connection : sent'[c2]["up"] = sent[c2]["up"]
        BY <1>1, <1>3
    <2> QED
        BY <1>14, <1>15, <2>1, ServerWrote
<1> QED
    BY <1>10, <1>11, <1>13, <1>14, <1>16, <1>17 DEF IInv, Told

-----------------------------------------------------------------------------
(***************************************************************************)
(* The peers take what the proxy wrote to them, or end.                    *)
(***************************************************************************)

LEMMA NothingTold ==
    ASSUME UNCHANGED <<interactions, sent, executed, issued, pushed>>
    PROVE  /\ Astray' = Astray
           /\ \A c \in Connection : RunOn(c)' = RunOn(c) /\ Replies(c)' = Replies(c)
           /\ \A c \in Connection : \A i : Reply(c, i)' = Reply(c, i)
           /\ \A s : Recorded(s)' = Recorded(s)
           /\ \A reply : InList(reply)' = InList(reply)
BY DEF Astray, RunOn, Replies, Reply, Recorded, InList

\* The lists and the server's and the clients' side of the streams stay.
LEMMA NothingAdded ==
    ASSUME IInv, UNCHANGED <<interactions, sent, executed, issued, pushed>>
    PROVE  /\ Once' /\ SeenKept' /\ RecordedInCausalOrder'
           /\ \A c \in Connection : Commanded(c)' /\ Ran(c)' /\ Answered(c)'
<1>1. Once' /\ SeenKept' /\ RecordedInCausalOrder'
    BY NothingTold DEF IInv, Matched, Once, SeenKept, RecordedInCausalOrder
<1>2. ASSUME NEW c \in Connection PROVE Commanded(c)' /\ Ran(c)' /\ Answered(c)'
    BY NothingTold DEF IInv, Told, Commanded, Ran, Answered
<1> QED
    BY <1>1, <1>2

LEMMA NothingTaken ==
    ASSUME IInv, UNCHANGED <<got, sent, executed, issued, pushed>>, NEW c \in Connection
    PROVE  Straight(c)'
<1>1. Straight(c)
    BY DEF IInv, Told
<1> QED
    BY <1>1 DEF Straight, Astray, RunOn, Replies, Reply

LEMMA NothingHeard ==
    ASSUME IInv, UNCHANGED <<interactions, sent, executed, issued, pushed>>,
           \A c \in Connection : Heard(c)' = Heard(c)
    PROVE  Sourced'
<1>1. /\ interactions' = interactions /\ issued' = issued /\ Astray' = Astray
      /\ \A c \in Connection : Heard(c)' = Heard(c)
      /\ \A c \in Connection : \A i : Reply(c, i)' = Reply(c, i)
    BY NothingTold
<1>2. Sourced
    BY DEF IInv, Matched
<1> QED
    BY <1>1, <1>2 DEF Sourced

LEMMA NothingRead ==
    ASSUME IInv, UNCHANGED <<bridge, wire, recorder, interactions, sent, executed, issued, pushed>>
    PROVE  /\ Typed' /\ Sourced'
           /\ \A c \in Connection : Waiting(c)'
<1>1. \A c \in Connection, d \in {"up", "down"} : Done(c, d)' = Done(c, d)
    BY DEF Done
<1>2. \A c \in Connection : Heard(c)' = Heard(c)
    BY DEF Heard, Done
<1>3. Typed'
    BY DEF IInv, Told, Typed
<1>4. Sourced'
    BY <1>2, NothingHeard
<1>5. ASSUME NEW c \in Connection PROVE Waiting(c)'
    BY <1>1, <1>2, NothingTold DEF IInv, Waiting
<1> QED
    BY <1>3, <1>4, <1>5

LEMMA EndStep ==
    ASSUME IInv, UNCHANGED <<bridge, wire, got, recorder, interactions, sent, executed, issued, pushed>>
    PROVE  IInv'
<1>1. /\ Typed' /\ Sourced' /\ Once' /\ SeenKept' /\ RecordedInCausalOrder'
      /\ \A c2 \in Connection : Commanded(c2)' /\ Ran(c2)' /\ Answered(c2)' /\ Waiting(c2)'
    BY NothingAdded, NothingRead
<1>2. ASSUME NEW c2 \in Connection PROVE Straight(c2)' /\ Kept(c2)'
    <2>1. Straight(c2)'
        BY NothingTaken
    <2>2. Heard(c2)' = Heard(c2)
        BY DEF Heard, Done
    <2>3. Kept(c2)'
        BY <2>2, NothingTold DEF IInv, Matched, Kept
    <2> QED
        BY <2>1, <2>3
<1> QED
    BY <1>1, <1>2 DEF IInv, Told, Matched

LEMMA TakeStep ==
    ASSUME IInv, Relayed, Relayed', NEW c \in Connection, NEW d \in {"up", "down"},
           Proxy!Take(c, d), UNCHANGED <<executed, issued, pushed>>
    PROVE  IInv'
<1>1. /\ UNCHANGED <<bridge, wire, recorder, interactions, sent>>
      /\ \E n \in 1 .. Len(queue[c][d]) :
            got' = [got EXCEPT ![c][d] = @ \o SubSeq(queue[c][d], 1, n)]
    BY DEF Proxy!Take
<1>2. PICK n \in 1 .. Len(queue[c][d]) : got' = [got EXCEPT ![c][d] = @ \o SubSeq(queue[c][d], 1, n)]
    BY <1>1
<1>3. got \in Flow /\ queue \in Flow
    BY DEF Relayed
<1>4. PICK g \in Seq(Byte), q \in Seq(Byte) : g = got[c][d] /\ q = queue[c][d]
    BY <1>3 DEF Flow
<1>5. Len(g) \in Nat /\ Len(g \o SubSeq(q, 1, n)) \in Nat /\ Len(g) <= Len(g \o SubSeq(q, 1, n))
    BY <1>4
<1>6. \A c2 \in Connection, d2 \in {"up", "down"} :
            Len(got'[c2][d2]) \in Nat /\ Len(got[c2][d2]) \in Nat /\ Len(got[c2][d2]) <= Len(got'[c2][d2])
    <2> SUFFICES ASSUME NEW c2 \in Connection, NEW d2 \in {"up", "down"}
                 PROVE  /\ Len(got'[c2][d2]) \in Nat /\ Len(got[c2][d2]) \in Nat
                        /\ Len(got[c2][d2]) <= Len(got'[c2][d2])
        OBVIOUS
    <2>1. CASE c2 = c /\ d2 = d
        <3>1. got'[c][d] = g \o SubSeq(q, 1, n)
            BY <1>2, <1>3, <1>4 DEF Flow
        <3> QED
            BY <1>4, <1>5, <2>1, <3>1
    <2>2. CASE c2 # c \/ d2 # d
        <3>1. got'[c2][d2] = got[c2][d2]
            BY <1>2, <1>3, <2>2 DEF Flow
        <3>2. got[c2][d2] \in Seq(Byte)
            BY <1>3 DEF Flow
        <3>3. Len(got[c2][d2]) \in Nat
            BY <3>2
        <3> QED
            BY <3>1, <3>3
    <2> QED
        BY <2>1, <2>2
<1>7. /\ Typed' /\ Sourced' /\ Once' /\ SeenKept' /\ RecordedInCausalOrder'
      /\ \A c2 \in Connection : Commanded(c2)' /\ Ran(c2)' /\ Answered(c2)' /\ Waiting(c2)'
    BY <1>1, NothingAdded, NothingRead
<1>8. ASSUME NEW c2 \in Connection PROVE Straight(c2)'
    <2>1. Straight(c2) /\ Replies(c2) \in Nat
        BY Counts DEF IInv, Told
    <2>2. PICK a \in Nat, b \in Nat : a = Len(got[c2]["up"]) /\ b = Len(got'[c2]["up"]) /\ a <= b
        BY <1>6
    <2>3. a \div 2 <= b \div 2 /\ a \div 2 \in Nat /\ b \div 2 \in Nat
        BY ONLY <2>2, a \in Nat, b \in Nat, HalfGrows
    <2>4. Replies(c2) <= a \div 2 => Replies(c2) <= b \div 2
        BY <2>1, <2>3
    <2> QED
        BY <1>1, <2>1, <2>2, <2>4 DEF Straight, Astray, RunOn, Replies, Reply
<1>9. ASSUME NEW c2 \in Connection PROVE Kept(c2)'
    <2>1. /\ Kept(c2)
          /\ Heard(c2)' = Heard(c2) /\ (\A reply : InList(reply)' = InList(reply))
          /\ (\A i : Reply(c2, i)' = Reply(c2, i)) /\ Astray' = Astray /\ bridge' = bridge
        BY <1>1 DEF IInv, Matched, Heard, Done, InList, Reply, Astray, RunOn
    <2>2. CASE bridge[c2] = "open"
        <3>1. Len(got'[c2]["down"]) \div 2 \in Nat /\ Len(got'[c2]["down"]) \div 2 <= Heard(c2)'
              /\ Heard(c2)' \in Nat
            <4>1. Counted'
                BY RelayedCounts, PTL
            <4> QED
                BY <4>1 DEF Counted
        <3>2. \A i \in 1 .. Len(got'[c2]["down"]) \div 2 : i \in 1 .. Heard(c2)
            <4>1. PICK a \in Nat, b \in Nat : a = Len(got'[c2]["down"]) \div 2 /\ b = Heard(c2)' /\ a <= b
                BY <3>1
            <4>2. a <= b
                BY <4>1
            <4>3. \A i \in 1 .. a : i \in 1 .. b
                BY ONLY <4>2, a \in Nat, b \in Nat
            <4> QED
                BY <2>1, <4>1, <4>3
        <3> QED
            BY <2>1, <2>2, <3>2 DEF Kept
    <2>3. CASE bridge[c2] # "open"
        <3>1. got'[c2]["down"] = got[c2]["down"]
            <4>1. queue[c2]["down"] = <<>>
                BY <2>3 DEF Relayed, Streamed
            <4>2. c2 = c => d # "down"
                BY <1>2, <4>1
            <4> QED
                BY <1>2, <1>3, <4>2 DEF Flow
        <3> QED
            BY <2>1, <2>3, <3>1 DEF Kept
    <2> QED
        BY <2>2, <2>3
<1> QED
    BY <1>7, <1>8, <1>9 DEF IInv, Told, Matched

-----------------------------------------------------------------------------
(***************************************************************************)
(* The proxy reads a chunk: what its recorder makes of it, of a stream of  *)
(* bytes S, is what ChunkDecoded says.                                     *)
(***************************************************************************)

\* The chunk a handler reads, as ChunkDecoded wants it.
LEMMA ChunkRead ==
    ASSUME Relayed, NEW c \in Connection, NEW d \in {"up", "down"},
           NEW n \in 1 .. Len(wire[c][d]), NEW buffer \in Seq(Byte),
           Len(buffer) = Done(c, d) % 2
    PROVE  Decoded(buffer \o SubSeq(wire[c][d], 1, n), sent[c][d], Done(c, d), Done(c, d) + n)
<1>1. Streamed(c, d) /\ sent[c][d] \in Seq(Byte) /\ wire[c][d] \in Seq(Byte)
    BY DEF Relayed, Flow
<1>2. PICK written \in Seq(Byte), unread \in Seq(Byte), read \in Nat :
        written = sent[c][d] /\ unread = wire[c][d] /\ read = Done(c, d)
    BY <1>1 DEF Streamed
<1>3. /\ Len(written) = read + Len(unread)
      /\ \A i \in 1 .. Len(unread) : unread[i] = written[read + i]
    BY <1>1, <1>2 DEF Streamed
<1>4. n \in 1 .. Len(unread) /\ Len(buffer) = read % 2
    BY <1>2
<1>5. Decoded(buffer \o SubSeq(unread, 1, n), written, read, read + n)
    BY <1>3, <1>4, ChunkDecoded
<1> QED
    BY <1>2, <1>5

\* What reading changes: one wire is shorter.
LEMMA Read ==
    ASSUME Relayed, NEW c \in Connection, NEW d \in {"up", "down"},
           NEW n \in 1 .. Len(wire[c][d]), sent' = sent, Proxy!Forward(c, d, n)
    PROVE  /\ bridge[c] = "open"
           /\ Done(c, d)' = Done(c, d) + n
           /\ \A c2 \in Connection, d2 \in {"up", "down"} :
                    c2 # c \/ d2 # d => Done(c2, d2)' = Done(c2, d2)
<1>1. Streamed(c, d) /\ wire \in Flow
    BY DEF Relayed
<1>2. PICK w \in Seq(Byte) : w = wire[c][d]
    BY <1>1 DEF Flow
<1>3. wire' = [wire EXCEPT ![c][d] = SubSeq(w, n + 1, Len(w))]
    BY <1>2 DEF Proxy!Forward
<1>4. /\ wire'[c][d] = SubSeq(w, n + 1, Len(w))
      /\ \A c2 \in Connection, d2 \in {"up", "down"} :
                    c2 # c \/ d2 # d => wire'[c2][d2] = wire[c2][d2]
    BY <1>1, <1>3 DEF Flow
<1>5. n \in 1 .. Len(w) /\ Len(w) \in Nat
    BY <1>2
<1>6. Len(SubSeq(w, n + 1, Len(w))) = Len(w) - n
    BY <1>5
<1>7. PICK s \in Nat : s = Len(sent[c][d])
    BY DEF Relayed, Flow
<1>8. Done(c, d) = s - Len(w) /\ Done(c, d)' = s - (Len(w) - n)
    BY <1>2, <1>4, <1>6, <1>7 DEF Done
<1>9. w # <<>>
    BY <1>5
<1> QED
    <2>1. bridge[c] = "open"
        BY <1>1, <1>2, <1>9 DEF Streamed
    <2>2. Done(c, d)' = Done(c, d) + n
        BY <1>5, <1>7, <1>8
    <2>3. \A c2 \in Connection, d2 \in {"up", "down"} :
                    c2 # c \/ d2 # d => Done(c2, d2)' = Done(c2, d2)
        BY <1>4 DEF Done
    <2> QED
        BY <2>1, <2>2, <2>3

LEMMA FramesOnly ==
    ASSUME NEW values \in Seq(Byte), \A k \in 1 .. Len(values) : values[k] \in Frame
    PROVE  values \in Seq(Frame)
<1>1. Len(values) \in Nat /\ values = [k \in 1 .. Len(values) |-> values[k]]
    OBVIOUS
<1> DEFINE L == Len(values)
           at(k) == values[k]
<1>2. L \in Nat /\ values = [k \in 1 .. L |-> at(k)] /\ \A k \in 1 .. L : at(k) \in Frame
    BY <1>1
<1> HIDE DEF L, at
<1> QED
    BY <1>2

\* The commands in a chunk join those that wait.
LEMMA ClientDataStep ==
    ASSUME IInv, Relayed, Relayed', NEW c \in Connection, Proxy!ClientData(c),
           UNCHANGED <<executed, issued, pushed>>
    PROVE  IInv'
<1> DEFINE Recorder == [clientBuffer : Seq(Byte), serverBuffer : Seq(Byte),
                        pending : Seq(Frame), completed : {<<>>}]
<1>1. UNCHANGED <<bridge, got, interactions, sent>>
    BY DEF Proxy!ClientData
<1>2. PICK n \in 1 .. Len(wire[c]["up"]) :
        /\ recorder' = [recorder EXCEPT ![c] = onClientData(@, SubSeq(wire[c]["up"], 1, n))]
        /\ Proxy!Forward(c, "up", n)
    BY DEF Proxy!ClientData
<1>3. Told /\ Typed /\ recorder \in [Connection -> Recorder] /\ Commanded(c) /\ Waiting(c)
    BY DEF IInv, Told, Typed
<1>4. PICK r \in Recorder : r = recorder[c]
    BY <1>3
<1>5. PICK read \in Nat, h \in Nat, m \in Nat, now \in Nat :
        /\ read = Done(c, "up") /\ h = Heard(c) /\ m = Len(issued[c])
        /\ now = Done(c, "up")' /\ now = read + n
    <2>1. Len(issued[c]) \in Nat
        BY <1>3 DEF Typed
    <2>2. Done(c, "up")' = Done(c, "up") + n
        BY <1>1, <1>2, Read
    <2>3. Len(wire[c]["up"]) \in Nat
        BY FlowBytes
    <2>4. n \in Nat /\ Done(c, "up") \in Nat /\ Heard(c) \in Nat
        <3>1. n \in Nat
            BY <2>3
        <3>2. Done(c, "up") \in Nat /\ Heard(c) \in Nat
            BY Counts
        <3> QED
            BY <3>1, <3>2
    <2>5. Done(c, "up") + n \in Nat
        BY <2>4
    <2> QED
        BY <2>1, <2>2, <2>4, <2>5, Zenon
<1>6. /\ bridge[c] = "open"
      /\ \A c2 \in Connection, d2 \in {"up", "down"} :
                    c2 # c \/ d2 # "up" => Done(c2, d2)' = Done(c2, d2)
    BY <1>1, <1>2, Read
<1> DEFINE whole == r.clientBuffer \o SubSeq(wire[c]["up"], 1, n)
           values == Decodable(whole)
<1>7. Decoded(whole, sent[c]["up"], read, now)
    <2>1. r.clientBuffer \in Seq(Byte) /\ Len(r.clientBuffer) = Done(c, "up") % 2
        BY <1>3, <1>4, <1>6 DEF Waiting
    <2> QED
        BY <1>5, <2>1, ChunkRead
<1>8. recorder'[c] = onClientData(r, SubSeq(wire[c]["up"], 1, n))
    BY <1>2, <1>3, <1>4
<1> HIDE DEF Recorder
<1>9. now <= 2 * m /\ now \div 2 <= m
    <2>1. Streamed(c, "up") /\ wire[c]["up"] \in Seq(Byte)
        BY DEF Relayed, Flow
    <2>2. PICK w \in Nat : w = Len(wire[c]["up"])
        BY <2>1
    <2>3. Len(sent[c]["up"]) = read + w /\ n \in 1 .. w
        BY <1>5, <2>1, <2>2 DEF Streamed
    <2>4. 2 * m = read + w
        BY <1>3, <1>5, <2>3 DEF Commanded
    <2>5. now <= 2 * m
        BY <1>5, <2>3, <2>4
    <2>6. now \div 2 <= m
        BY ONLY <2>5, now \in Nat, m \in Nat
    <2> QED
        BY <2>5, <2>6
\* What is decoded is the commands that follow.
<1>10. PICK p \in Nat, v \in Nat :
        /\ p = read \div 2 /\ v = Len(values) /\ v = now \div 2 - p /\ p + v <= m
        /\ values \in Seq(Byte) /\ \A k \in 1 .. v : values[k] = sent[c]["up"][2 * (p + k)]
        /\ Remainder(whole) \in Seq(Byte) /\ Len(Remainder(whole)) = now % 2
    <2>1. read \div 2 \in Nat /\ now \div 2 \in Nat /\ read \div 2 <= now \div 2
        BY <1>5, HalfGrows
    <2>2. Len(values) = now \div 2 - read \div 2 /\ Len(values) \in Nat
        BY <1>7, <2>1 DEF Decoded
    <2> HIDE DEF values, whole
    <2>3. read \div 2 + Len(values) <= m
        BY <1>9, <2>1, <2>2
    <2> QED
        BY <1>7, <2>1, <2>2, <2>3 DEF Decoded, values
<1> HIDE DEF whole
<1>11. \A k \in 1 .. v : p + k \in 1 .. m /\ values[k] = issued[c][p + k].frame
    <2>1. \A k \in 1 .. v : p + k \in 1 .. m
        <3>1. p + v <= m
            BY <1>10
        <3> QED
            BY ONLY <3>1, p \in Nat, v \in Nat, m \in Nat
    <2> QED
        BY <1>3, <1>5, <1>10, <2>1 DEF Commanded
<1>12. values \in Seq(Frame)
    <2>1. \A i \in 1 .. m : issued[c][i].frame \in Frame
        <3> DEFINE Entry == [frame : Frame, seen : SUBSET Nat]
        <3>1. issued[c] \in Seq(Entry) /\ \A e \in Entry : e.frame \in Frame
            BY <1>3 DEF Typed
        <3> HIDE DEF Entry
        <3> QED
            BY <1>5, <3>1
    <2>2. \A k \in 1 .. v : values[k] \in Frame
        BY <1>11, <2>1
    <2> HIDE DEF values
    <2> QED
        BY <1>10, <2>2, FramesOnly
<1>13. commandsIn(values) = values
    BY <1>12, CommandsKept
<1>14. recorder'[c] = [r EXCEPT !.clientBuffer = Remainder(whole), !.pending = r.pending \o values]
    BY <1>8, <1>13 DEF onClientData, whole
<1> HIDE DEF values
<1>15. r.pending \in Seq(Frame)
    BY DEF Recorder
<1>16. PICK pending \in Seq(Frame) : pending = r.pending \o values
    <2>1. r.pending \o values \in Seq(Frame)
        BY <1>12, <1>15, ConcatProperties
    <2> QED
        BY <2>1
<1>17. /\ recorder'[c].clientBuffer = Remainder(whole) /\ recorder'[c].pending = pending
       /\ recorder'[c].serverBuffer = r.serverBuffer /\ recorder'[c].completed = r.completed
       /\ recorder'[c] \in Recorder
    BY <1>10, <1>14, <1>16 DEF Recorder
<1>18. Typed'
    <2>1. recorder' \in [Connection -> Recorder]
        BY <1>2, <1>3, <1>17
    <2> QED
        BY <1>1, <1>3, <2>1 DEF Typed, Recorder
<1>19. PICK w \in Nat :
        /\ w = Len(r.pending) /\ Len(pending) = w + v
        /\ \A k \in 1 .. w : pending[k] = r.pending[k]
        /\ \A k \in w + 1 .. w + v : pending[k] = values[k - w]
    <2>1. /\ Len(pending) = Len(r.pending) + Len(values) /\ Len(r.pending) \in Nat
          /\ \A k \in 1 .. Len(r.pending) + Len(values) :
                pending[k] = IF k <= Len(r.pending) THEN r.pending[k] ELSE values[k - Len(r.pending)]
        BY <1>12, <1>15, <1>16, ConcatProperties
    <2>2. PICK w \in Nat : w = Len(r.pending)
        BY <2>1
    <2>3. \A k \in 1 .. w + v : pending[k] = IF k <= w THEN r.pending[k] ELSE values[k - w]
        BY <1>10, <2>1, <2>2
    <2>4. \A k \in 1 .. w : k \in 1 .. w + v /\ k <= w
        OBVIOUS
    <2>5. \A k \in w + 1 .. w + v : k \in 1 .. w + v /\ ~ (k <= w)
        OBVIOUS
    <2>6. Len(pending) = w + v
        BY <1>10, <2>1, <2>2
    <2> QED
        BY <2>2, <2>3, <2>4, <2>5, <2>6
<1>20. \A c2 \in Connection : Heard(c2)' = Heard(c2)
    BY <1>6 DEF Heard
<1>21. Waiting(c)'
    <2>1. \A k \in 1 .. w + v : \E i \in 1 .. m : pending[k] = issued[c][i].frame
        <3>0. \A k \in 1 .. w : \E i \in 1 .. m : r.pending[k] = issued[c][i].frame
            BY <1>3, <1>4, <1>5, <1>19 DEF Waiting
        <3> TAKE k \in 1 .. w + v
        <3>1. CASE k \in 1 .. w
            BY <1>19, <3>0, <3>1
        <3>2. CASE k \in w + 1 .. w + v
            <4>1. k - w \in 1 .. v
                BY <3>2
            <4> QED
                BY <1>11, <1>19, <3>2, <4>1
        <3> QED
            BY <3>1, <3>2
    <2>2. ASSUME c \notin Astray
          PROVE  w + v = now \div 2 - h /\ \A k \in 1 .. w + v : pending[k] = issued[c][h + k].frame
        <3>1. w = p - h /\ \A k \in 1 .. w : r.pending[k] = issued[c][h + k].frame
            BY <1>3, <1>4, <1>5, <1>6, <1>10, <1>19, <2>2 DEF Waiting
        <3>2. ASSUME NEW k \in w + 1 .. w + v PROVE pending[k] = issued[c][h + k].frame
            <4>1. k - w \in 1 .. v /\ p + (k - w) = h + k
                BY <3>1
            <4> QED
                BY <1>11, <1>19, <4>1
        <3>3. \A k \in 1 .. w : pending[k] = issued[c][h + k].frame
            BY <1>19, <3>1
        <3>4. now \div 2 \in Nat
            BY HalfGrows
        <3>5. v = now \div 2 - p /\ w = p - h
            BY <1>10, <3>1
        <3>6. w + v = now \div 2 - h
            BY ONLY <3>4, <3>5, p \in Nat, h \in Nat, w \in Nat, v \in Nat
        <3>7. \A k \in 1 .. w + v : k \in 1 .. w \/ k \in w + 1 .. w + v
            OBVIOUS
        <3> QED
            BY <3>2, <3>3, <3>6, <3>7
    <2>3. Len(Remainder(whole)) < 2
        BY <1>10
    <2>4. /\ Astray' = Astray /\ issued' = issued
          /\ Heard(c)' = h /\ Done(c, "down")' = Done(c, "down") /\ Done(c, "up")' = now
          /\ Len(pending) = w + v /\ Len(Remainder(whole)) = now % 2
        BY <1>1, <1>5, <1>6, <1>10, <1>19, <1>20, NothingTold
    <2>5. Len(r.serverBuffer) < 2 /\ Len(r.serverBuffer) = Done(c, "down") % 2
        BY <1>3, <1>4, <1>6 DEF Waiting
    <2>6. /\ Len(recorder'[c].clientBuffer) < 2 /\ Len(recorder'[c].serverBuffer) < 2
          /\ \A k \in 1 .. Len(recorder'[c].pending) :
                \E i \in 1 .. Len(issued'[c]) : recorder'[c].pending[k] = issued'[c][i].frame
        <3>1. Len(recorder'[c].clientBuffer) < 2 /\ Len(recorder'[c].serverBuffer) < 2
            BY <1>17, <2>3, <2>5
        <3>2. Len(recorder'[c].pending) = w + v /\ Len(issued'[c]) = m /\ issued'[c] = issued[c]
            BY <1>5, <1>17, <2>4
        <3>3. \A k \in 1 .. w + v : \E i \in 1 .. m : recorder'[c].pending[k] = issued'[c][i].frame
            BY <1>17, <2>1, <3>2
        <3> QED
            BY <3>1, <3>2, <3>3
    <2>7. /\ Len(recorder'[c].clientBuffer) = Done(c, "up")' % 2
          /\ Len(recorder'[c].serverBuffer) = Done(c, "down")' % 2
        BY <1>17, <2>4, <2>5
    <2>8. ASSUME c \notin Astray'
          PROVE  /\ Len(recorder'[c].pending) = Done(c, "up")' \div 2 - Heard(c)'
                 /\ \A k \in 1 .. Len(recorder'[c].pending) :
                        recorder'[c].pending[k] = issued'[c][Heard(c)' + k].frame
        BY <1>17, <2>2, <2>4, <2>8
    <2> QED
        BY <2>6, <2>7, <2>8 DEF Waiting
<1>22. ASSUME NEW c2 \in Connection PROVE Waiting(c2)'
    <2>1. CASE c2 = c
        BY <1>21, <2>1
    <2>2. CASE c2 # c
        <3>1. recorder'[c2] = recorder[c2] /\ Waiting(c2)
            BY <1>2, <1>3, <2>2 DEF IInv
        <3> QED
            BY <1>1, <1>6, <1>20, <2>2, <3>1, NothingTold DEF Waiting
    <2> QED
        BY <2>1, <2>2
<1>23. Sourced'
    BY <1>1, <1>20, NothingHeard
<1>24. ASSUME NEW c2 \in Connection PROVE Straight(c2)' /\ Kept(c2)'
    <2>1. Straight(c2)'
        BY <1>1, NothingTaken
    <2>2. Kept(c2)'
        BY <1>1, <1>20, NothingTold DEF IInv, Matched, Kept
    <2> QED
        BY <2>1, <2>2
<1> QED
    BY <1>1, <1>18, <1>22, <1>23, <1>24, NothingAdded DEF IInv, Told, Matched

-----------------------------------------------------------------------------
(***************************************************************************)
(* The proxy reads a chunk from the server: its replies take the commands  *)
(* that wait, and what comes of it is in the list before the client has    *)
(* any of it.                                                              *)
(***************************************************************************)

\* Fresh interactions `fresh` of the replies `first + 1` and on of c are added.
Adds(c, first, fresh) ==
    /\ interactions' = interactions \o fresh
    /\ \A k \in 1 .. Len(fresh) :
        /\ fresh[k].response = Reply(c, first + k)
        /\ first + k \in 1 .. Heard(c)' /\ first + k \in 1 .. Replies(c)
        /\ \E i \in 1 .. Len(issued[c]) :
                fresh[k].request = toCommand(issued[c][i].frame) /\ (c \in Astray \/ i = first + k)

Pair == [protocol : {"redis"}, request : {toCommand(frame) : frame \in Frame}, response : Byte]

LEMMA AddedLists ==
    ASSUME NEW old \in Seq(Pair), NEW fresh \in Seq(Pair)
    PROVE  /\ old \o fresh \in Seq(Pair) /\ Len(old) \in Nat /\ Len(fresh) \in Nat
           /\ Len(old \o fresh) = Len(old) + Len(fresh)
           /\ \A k \in 1 .. Len(old) : k \in 1 .. Len(old \o fresh) /\ (old \o fresh)[k] = old[k]
           /\ \A k \in 1 .. Len(fresh) :
                    Len(old) + k \in 1 .. Len(old \o fresh) /\ (old \o fresh)[Len(old) + k] = fresh[k]
           /\ \A k \in 1 .. Len(old \o fresh) :
                    k \in 1 .. Len(old) \/ \E i \in 1 .. Len(fresh) : k = Len(old) + i
<1> DEFINE whole == old \o fresh
<1>1. /\ whole \in Seq(Pair) /\ Len(whole) = Len(old) + Len(fresh)
      /\ \A k \in 1 .. Len(old) + Len(fresh) :
            whole[k] = IF k <= Len(old) THEN old[k] ELSE fresh[k - Len(old)]
    BY ConcatProperties
<1>2. PICK a \in Nat, b \in Nat : a = Len(old) /\ b = Len(fresh)
    OBVIOUS
<1> HIDE DEF whole
<1>3. \A k \in 1 .. a : k \in 1 .. a + b /\ k <= a
    OBVIOUS
<1>4. \A k \in 1 .. b : a + k \in 1 .. a + b /\ ~ (a + k <= a) /\ a + k - a = k
    OBVIOUS
<1>5. \A k \in 1 .. a + b : k \in 1 .. a \/ \E i \in 1 .. b : k = a + i
    <2> TAKE k \in 1 .. a + b
    <2>1. CASE k <= a
        BY <2>1
    <2>2. CASE ~ (k <= a)
        <3>1. k - a \in 1 .. b /\ k = a + (k - a)
            BY <2>2
        <3> QED
            BY <3>1
    <2> QED
        BY <2>1, <2>2
<1>6. Len(whole) = a + b
      /\ \A k \in 1 .. a + b : whole[k] = IF k <= a THEN old[k] ELSE fresh[k - a]
    BY <1>1, <1>2
<1>7. \A k \in 1 .. a : k \in 1 .. a + b /\ whole[k] = old[k]
    BY <1>3, <1>6
<1>8. ASSUME NEW k \in 1 .. b PROVE a + k \in 1 .. a + b /\ whole[a + k] = fresh[k]
    <2>1. a + k \in 1 .. a + b /\ ~ (a + k <= a) /\ a + k - a = k
        BY <1>4
    <2> QED
        BY <1>6, <2>1
<1>9. whole = old \o fresh
    BY DEF whole
<1> QED
    BY <1>1, <1>2, <1>5, <1>6, <1>7, <1>8, <1>9

\* What is added is sourced, is there once, and comes behind what had been seen.
LEMMA AddsMatched ==
    ASSUME IInv, Relayed, Relayed', Typed', Grown, NEW c \in Connection, NEW first \in Nat,
           NEW fresh \in Seq(Pair), Adds(c, first, fresh), Heard(c) <= first,
           UNCHANGED <<sent, executed, issued, pushed>>
    PROVE  Sourced' /\ Once' /\ SeenKept' /\ RecordedInCausalOrder'
<1>0. Told /\ Typed /\ Matched
    BY DEF IInv, Told
<1>1. interactions \in Seq(Pair) /\ interactions' = interactions \o fresh
    BY <1>0 DEF Typed, Pair, Adds
<1>2. PICK L \in Nat, new \in Nat : L = Len(interactions) /\ new = Len(fresh)
    BY <1>1
<1>3. /\ Len(interactions') = L + new
      /\ \A k \in 1 .. L : interactions'[k] = interactions[k]
      /\ \A k \in 1 .. new : interactions'[L + k] = fresh[k]
      /\ \A k \in 1 .. L + new : k \in 1 .. L \/ \E i \in 1 .. new : k = L + i
    BY <1>1, <1>2, AddedLists
<1>4. /\ Astray' = Astray /\ issued' = issued /\ executed' = executed
      /\ \A c2 \in Connection : \A i : Reply(c2, i)' = Reply(c2, i)
    BY DEF Astray, RunOn, Reply
<1>5. \A k \in 1 .. new :
        /\ fresh[k].response = Reply(c, first + k)
        /\ first + k \in 1 .. Heard(c)' /\ first + k \in 1 .. Replies(c)
        /\ \E i \in 1 .. Len(issued[c]) :
                fresh[k].request = toCommand(issued[c][i].frame) /\ (c \in Astray \/ i = first + k)
    BY <1>2 DEF Adds
<1>6. Sourced'
    <2>1. ASSUME NEW k \in 1 .. L + new
          PROVE  \E c2 \in Connection : \E i \in 1 .. Heard(c2)' : \E n \in 1 .. Len(issued'[c2]) :
                    /\ interactions'[k].response = Reply(c2, i)'
                    /\ interactions'[k].request = toCommand(issued'[c2][n].frame)
                    /\ c2 \in Astray' \/ n = i
        <3>1. CASE k \in 1 .. L
            BY <1>0, <1>2, <3>1, OldSourced DEF Matched
        <3>2. CASE k \notin 1 .. L
            <4>1. PICK j \in 1 .. new : k = L + j
                BY <1>3, <3>2
            <4>2. PICK i \in 1 .. Len(issued[c]) :
                        fresh[j].request = toCommand(issued[c][i].frame) /\ (c \in Astray \/ i = first + j)
                BY <1>5
            <4>3. interactions'[k] = fresh[j] /\ fresh[j].response = Reply(c, first + j)
                  /\ first + j \in 1 .. Heard(c)'
                BY <1>3, <1>5, <4>1
            <4> DEFINE place == first + j
            <4>4. fresh[j].response = Reply(c, place)' /\ place \in 1 .. Heard(c)'
                BY <1>4, <4>3
            <4>5. c \in Astray' \/ i = place
                BY <1>4, <4>2
            <4> HIDE DEF place
            <4> QED
                BY <1>4, <4>2, <4>3, <4>4, <4>5
        <3> QED
            BY <3>1, <3>2
    <2> QED
        BY <1>3, <2>1 DEF Sourced
<1>7. Once'
    <2>1. ASSUME NEW j \in 1 .. L, NEW k \in 1 .. new, fresh[k].response \notin Strays
          PROVE  interactions[j].response # fresh[k].response
        <3> SUFFICES ASSUME interactions[j].response = fresh[k].response PROVE FALSE
            OBVIOUS
        <3>0. PICK c2 \in Connection : \E i \in 1 .. Heard(c2) : interactions[j].response = Reply(c2, i)
            BY <1>0, <1>2 DEF Matched, Sourced
        <3>1. PICK i \in 1 .. Heard(c2) : interactions[j].response = Reply(c2, i)
            BY <3>0
        <3>2. i \in 1 .. Replies(c2)
            <4>1. PICK a \in Nat, b \in Nat : a = Heard(c2) /\ b = Replies(c2) /\ a <= b
                BY Counts
            <4> QED
                BY <4>1
        <3>3. first + k \in 1 .. Replies(c) /\ Reply(c, first + k) = Reply(c2, i)
              /\ Reply(c, first + k) \notin Strays
            BY <1>5, <2>1, <3>1
        <3>4. CASE c2 = c
            <4>1. i = first + k
                BY <1>0, <3>2, <3>3, <3>4 DEF Told, Answered
            <4>2. PICK h \in Nat : h = Heard(c) /\ h <= first
                BY Counts
            <4>3. i <= h
                BY <3>4, <4>2
            <4> QED
                BY <4>1, <4>2, <4>3
        <3>5. CASE c2 # c
            <4>1. PICK s \in RunOn(c) : Answers(Reply(c, first + k), s)
                BY <1>0, <3>3 DEF Told, Answered
            <4>2. PICK t \in RunOn(c2) : Answers(Reply(c2, i), t)
                BY <1>0, <3>2, <3>3 DEF Told, Answered
            <4>3. s = t
                BY <3>3, <4>1, <4>2, AnswerNames
            <4> QED
                BY <3>5, <4>1, <4>2, <4>3 DEF RunOn
        <3> QED
            BY <3>4, <3>5
    <2>2. ASSUME NEW j \in 1 .. new, NEW k \in 1 .. new,
                 fresh[j].response = fresh[k].response, fresh[j].response \notin Strays
          PROVE  j = k
        <3>1. first + j = first + k
            BY <1>0, <1>5, <2>2 DEF Told, Answered
        <3> QED
            BY <3>1
    <2>3. ASSUME NEW j \in 1 .. L + new, NEW k \in 1 .. L + new,
                 interactions'[j].response = interactions'[k].response,
                 interactions'[j].response \notin Strays
          PROVE  j = k
        <3>1. CASE j \in 1 .. L /\ k \in 1 .. L
            <4>1. interactions'[j] = interactions[j] /\ interactions'[k] = interactions[k]
                BY <1>3, <3>1
            <4> QED
                BY <1>0, <1>2, <2>3, <3>1, <4>1, Zenon DEF Matched, Once
        <3>2. CASE j \in 1 .. L /\ k \notin 1 .. L
            <4>1. PICK b \in 1 .. new : k = L + b
                BY <1>3, <3>2
            <4>2. interactions'[j] = interactions[j] /\ interactions'[k] = fresh[b]
                BY <1>3, <3>2, <4>1
            <4> QED
                BY <2>1, <2>3, <3>2, <4>2, Zenon
        <3>3. CASE j \notin 1 .. L /\ k \in 1 .. L
            <4>1. PICK a \in 1 .. new : j = L + a
                BY <1>3, <3>3
            <4>2. interactions'[k] = interactions[k] /\ interactions'[j] = fresh[a]
                BY <1>3, <3>3, <4>1
            <4> QED
                BY <2>1, <2>3, <3>3, <4>2, Zenon
        <3>4. CASE j \notin 1 .. L /\ k \notin 1 .. L
            <4>1. PICK a \in 1 .. new : j = L + a
                BY <1>3, <3>4
            <4>2. PICK b \in 1 .. new : k = L + b
                BY <1>3, <3>4
            <4>3. interactions'[j] = fresh[a] /\ interactions'[k] = fresh[b]
                BY <1>3, <4>1, <4>2
            <4>4. a = b
                BY <2>2, <2>3, <4>3, Zenon
            <4> QED
                BY <4>1, <4>2, <4>4
        <3> QED
            BY <3>1, <3>2, <3>3, <3>4
    <2> QED
        BY <1>3, <2>3 DEF Once
<1>8. SeenKept'
    BY <1>0, <1>4, OldSeen DEF Matched, SeenKept
<1>9. RecordedInCausalOrder'
    <2>1. DOMAIN executed = 1 .. Len(executed) /\ DOMAIN interactions' = 1 .. L + new
          /\ DOMAIN interactions = 1 .. L
        <3>1. interactions' \in Seq(Pair)
            BY <1>1, AddedLists
        <3> QED
            BY <1>0, <1>2, <1>3, <3>1, Domains
    <2>2. ASSUME NEW k \in 1 .. L + new, NEW s \in DOMAIN executed,
                 Answers(interactions'[k].response, s),
                 NEW earlier \in issued'[executed'[s].on][executed'[s].nth].seen
          PROVE  \/ \E j \in 1 .. k - 1 : Answers(interactions'[j].response, earlier)
                 \/ executed'[earlier].on \in Astray'
        <3>1. CASE k \in 1 .. L
            BY <1>0, <1>2, <1>3, <2>1, <2>2, <3>1, OldOrder DEF Matched
        <3>2. CASE k \notin 1 .. L
            <4>1. executed[s].on \in Connection /\ s \in RunOn(executed[s].on)
                <5> DEFINE Run == [on : Connection, nth : Nat \ {0}, frame : Frame]
                <5>1. executed \in Seq(Run) /\ \A run \in Run : run.on \in Connection
                    BY <1>0 DEF Typed
                <5> HIDE DEF Run
                <5>2. executed[s] \in Run
                    BY <2>1, <5>1
                <5> QED
                    BY <5>1, <5>2 DEF RunOn
            <4>2. executed[s].nth \in 1 .. Len(issued[executed[s].on])
                BY <1>0, <4>1 DEF Told, Ran
            <4>3. Recorded(earlier) \/ executed[earlier].on \in Astray
                BY <1>0, <1>4, <4>1, <4>2 DEF Matched, SeenKept
            <4>4. CASE Recorded(earlier)
                <5>1. PICK j \in 1 .. L : Answers(interactions[j].response, earlier)
                    BY <2>1, <4>4 DEF Recorded
                <5>2. j \in 1 .. k - 1
                    BY <3>2
                <5> QED
                    BY <1>3, <5>1, <5>2
            <4> QED
                BY <1>4, <4>3, <4>4
        <3> QED
            BY <3>1, <3>2
    <2> QED
        BY <1>4, <2>1, <2>2 DEF RecordedInCausalOrder
<1> QED
    BY <1>6, <1>7, <1>8, <1>9

LEMMA NothingSaid ==
    ASSUME Told, UNCHANGED <<sent, executed, issued, pushed>>
    PROVE  /\ Astray' = Astray
           /\ \A c \in Connection :
                /\ Commanded(c)' /\ Ran(c)' /\ Answered(c)'
                /\ RunOn(c)' = RunOn(c) /\ Replies(c)' = Replies(c)
           /\ \A c \in Connection : \A i : Reply(c, i)' = Reply(c, i)
<1>1. \A c \in Connection :
        /\ RunOn(c)' = RunOn(c) /\ Replies(c)' = Replies(c)
        /\ \A i : Reply(c, i)' = Reply(c, i)
    BY DEF RunOn, Replies, Reply
<1>2. Astray' = Astray
    BY DEF Astray, RunOn
<1>3. ASSUME NEW c \in Connection PROVE Commanded(c)' /\ Ran(c)' /\ Answered(c)'
    BY <1>1 DEF Told, Commanded, Ran, Answered
<1> QED
    BY <1>1, <1>2, <1>3

\* What is left of a sequence behind its first p elements.
LEMMA TailFrom ==
    ASSUME NEW pending \in Seq(Frame), NEW w \in Nat, w = Len(pending), NEW p \in 0 .. w
    PROVE  /\ SubSeq(pending, p + 1, w) \in Seq(Frame)
           /\ Len(SubSeq(pending, p + 1, w)) = w - p
           /\ \A k \in 1 .. w - p : p + k \in 1 .. w /\ SubSeq(pending, p + 1, w)[k] = pending[p + k]
OBVIOUS

\* The replies in a chunk take the commands that wait, the oldest first.
LEMMA UpstreamDataStep ==
    ASSUME IInv, Relayed, Relayed', NEW c \in Connection, Proxy!UpstreamData(c),
           UNCHANGED <<executed, issued, pushed>>
    PROVE  IInv'
<1> DEFINE Recorder == [clientBuffer : Seq(Byte), serverBuffer : Seq(Byte),
                        pending : Seq(Frame), completed : {<<>>}]
<1>1. UNCHANGED <<bridge, got, sent>>
    BY DEF Proxy!UpstreamData
<1>2. PICK n \in 1 .. Len(wire[c]["down"]) :
        /\ interactions' = interactions
                \o completed(onServerData(recorder[c], SubSeq(wire[c]["down"], 1, n)))
        /\ recorder' = [recorder EXCEPT
                ![c] = drain(onServerData(recorder[c], SubSeq(wire[c]["down"], 1, n)))]
        /\ Proxy!Forward(c, "down", n)
    BY DEF Proxy!UpstreamData
<1>3. /\ Told /\ Typed /\ Matched /\ recorder \in [Connection -> Recorder]
      /\ Commanded(c) /\ Waiting(c) /\ Straight(c) /\ Kept(c)
    BY DEF IInv, Told, Typed, Matched
<1>4. PICK r \in Recorder : r = recorder[c]
    BY <1>3
<1>5. PICK read \in Nat, h \in Nat, now \in Nat, rs \in Nat :
        /\ read = Done(c, "down") /\ h = read \div 2 /\ h = Heard(c) /\ now = read + n
        /\ Done(c, "down")' = now /\ rs = Replies(c)
    <2>1. Done(c, "down")' = Done(c, "down") + n
        BY <1>1, <1>2, Read
    <2>2. Done(c, "down") \in Nat /\ wire[c]["down"] \in Seq(Byte)
        BY DEF Relayed, Streamed, Flow
    <2>3. Heard(c) = Done(c, "down") \div 2 /\ Heard(c) \in Nat /\ Replies(c) \in Nat
        BY Counts DEF Heard
    <2>4. n \in Nat
        BY <2>2
    <2>5. Done(c, "down") + n \in Nat
        BY <2>2, <2>4
    <2> QED
        BY <2>1, <2>2, <2>3, <2>5, Zenon
<1>6. /\ bridge[c] = "open"
      /\ \A c2 \in Connection, d2 \in {"up", "down"} :
                    c2 # c \/ d2 # "down" => Done(c2, d2)' = Done(c2, d2)
    BY <1>1, <1>2, Read
<1> DEFINE whole == r.serverBuffer \o SubSeq(wire[c]["down"], 1, n)
           values == Decodable(whole)
<1>7. Decoded(whole, sent[c]["down"], read, now)
    <2>1. r.serverBuffer \in Seq(Byte) /\ Len(r.serverBuffer) = Done(c, "down") % 2
        BY <1>3, <1>4, <1>6 DEF Waiting
    <2> QED
        BY <1>5, <2>1, ChunkRead
\* What is decoded is the replies that follow.
<1>8. PICK v \in Nat :
        /\ v = Len(values) /\ h + v = now \div 2
        /\ values \in Seq(Byte) /\ \A k \in 1 .. v : values[k] = Reply(c, h + k)
        /\ Remainder(whole) \in Seq(Byte) /\ Len(Remainder(whole)) = now % 2
    <2>1. now \div 2 \in Nat /\ h <= now \div 2
        <3>1. read <= now
            BY <1>5
        <3> QED
            BY <1>5, <3>1, HalfGrows
    <2>2. Len(values) = now \div 2 - h /\ values \in Seq(Byte)
        BY <1>5, <1>7 DEF Decoded
    <2> HIDE DEF values, whole
    <2>3. Len(values) \in Nat /\ h + Len(values) = now \div 2
        BY <2>1, <2>2
    <2>4. \A k \in 1 .. Len(values) : values[k] = Reply(c, h + k)
        BY <1>5, <1>7 DEF Decoded, Reply, values
    <2> QED
        BY <1>7, <2>2, <2>3, <2>4 DEF Decoded
<1>9. Heard(c)' = h + v /\ \A c2 \in Connection : c2 # c => Heard(c2)' = Heard(c2)
    BY <1>5, <1>6, <1>8 DEF Heard
<1>10. h + v <= rs
    <2>1. Counted'
        BY RelayedCounts, PTL
    <2>2. Replies(c)' = rs
        BY <1>1, <1>3, <1>5, NothingSaid
    <2> QED
        BY <1>9, <2>1, <2>2 DEF Counted
<1> HIDE DEF whole, values
<1>11. r.pending \in Seq(Frame) /\ r.completed = <<>> /\ r.serverBuffer \in Seq(Byte)
       /\ r.clientBuffer \in Seq(Byte)
    BY DEF Recorder
<1> DEFINE paired == IF Len(values) < Len(r.pending) THEN Len(values) ELSE Len(r.pending)
           fresh == [k \in 1 .. paired |-> Interaction(r.pending[k], values[k])]
<1>12. PICK w \in Nat, p \in Nat :
            w = Len(r.pending) /\ p = paired /\ p <= v /\ p <= w /\ (v <= w => p = v)
    <2>1. PICK w \in Nat : w = Len(r.pending)
        BY <1>11
    <2>2. paired = IF v < w THEN v ELSE w
        BY <1>8, <2>1
    <2> HIDE DEF paired
    <2>3. paired \in Nat /\ paired <= v /\ paired <= w /\ (v <= w => paired = v)
        BY ONLY <2>2, v \in Nat, w \in Nat
    <2> QED
        BY <2>1, <2>3
<1>13. /\ fresh \in Seq(Pair) /\ Len(fresh) = p
       /\ \A k \in 1 .. p : fresh[k].response = values[k] /\ fresh[k].request = toCommand(r.pending[k])
    <2> DEFINE at(k) == Interaction(r.pending[k], values[k])
    <2>1. \A k \in 1 .. p : r.pending[k] \in Frame /\ values[k] \in Byte
        <3>1. \A k \in 1 .. p : k \in 1 .. v /\ k \in 1 .. w
            BY <1>12
        <3> QED
            BY <1>8, <1>11, <1>12, <3>1
    <2>2. \A k \in 1 .. p :
            at(k) \in Pair /\ at(k).response = values[k] /\ at(k).request = toCommand(r.pending[k])
        BY <2>1 DEF Interaction, Pair
    <2>3. fresh = [k \in 1 .. p |-> at(k)]
        BY <1>12
    <2> HIDE DEF fresh, at, paired
    <2>4. fresh \in Seq(Pair) /\ Len(fresh) = p /\ \A k \in 1 .. p : fresh[k] = at(k)
        BY <2>2, <2>3
    <2> QED
        BY <2>2, <2>4
<1> DEFINE left == SubSeq(r.pending, p + 1, w)
<1>14. onServerData(r, SubSeq(wire[c]["down"], 1, n)) =
            [r EXCEPT !.serverBuffer = Remainder(whole), !.pending = left,
                      !.completed = r.completed \o fresh]
    BY <1>12, Zenon DEF onServerData, whole, values
<1> HIDE DEF fresh, paired
<1>15. interactions' = interactions \o fresh
    <2>1. [r EXCEPT !.serverBuffer = Remainder(whole), !.pending = left,
                    !.completed = r.completed \o fresh].completed = r.completed \o fresh
        BY DEF Recorder
    <2>2. completed(onServerData(r, SubSeq(wire[c]["down"], 1, n))) = r.completed \o fresh
        BY <1>14, <2>1 DEF completed
    <2>3. r.completed \o fresh = fresh
        BY <1>11, <1>13
    <2> QED
        BY <1>2, <1>4, <2>2, <2>3
<1>16. /\ left \in Seq(Frame) /\ Len(left) = w - p
       /\ \A k \in 1 .. w - p : p + k \in 1 .. w /\ left[k] = r.pending[p + k]
    <2>1. p \in 0 .. w
        BY <1>12
    <2> QED
        BY <1>11, <1>12, <2>1, TailFrom
<1> HIDE DEF left
<1>17. recorder'[c] = [r EXCEPT !.serverBuffer = Remainder(whole), !.pending = left,
                                !.completed = <<>>]
    <2>1. recorder'[c] = drain(onServerData(r, SubSeq(wire[c]["down"], 1, n)))
        BY <1>2, <1>3, <1>4
    <2>2. drain([r EXCEPT !.serverBuffer = Remainder(whole), !.pending = left,
                          !.completed = r.completed \o fresh])
            = [r EXCEPT !.serverBuffer = Remainder(whole), !.pending = left, !.completed = <<>>]
        BY DEF Recorder, drain
    <2> QED
        BY <1>14, <2>1, <2>2
<1>18. /\ recorder'[c].serverBuffer = Remainder(whole) /\ recorder'[c].pending = left
       /\ recorder'[c].clientBuffer = r.clientBuffer /\ recorder'[c] \in Recorder
       /\ \A c2 \in Connection : c2 # c => recorder'[c2] = recorder[c2]
       /\ recorder' \in [Connection -> Recorder]
    <2>1. /\ recorder'[c].serverBuffer = Remainder(whole) /\ recorder'[c].pending = left
          /\ recorder'[c].clientBuffer = r.clientBuffer /\ recorder'[c] \in Recorder
        BY <1>8, <1>16, <1>17 DEF Recorder
    <2> HIDE DEF Recorder
    <2> QED
        BY <1>2, <1>3, <2>1
<1>19. interactions \in Seq(Pair)
    BY <1>3 DEF Typed, Pair
<1>20. Typed'
    <2>1. interactions' \in Seq(Pair)
        BY <1>13, <1>15, <1>19, AddedLists
    <2> QED
        BY <1>1, <1>3, <1>18, <2>1 DEF Typed, Recorder, Pair
<1> HIDE DEF Recorder
<1>21. /\ Astray' = Astray
       /\ \A c2 \in Connection :
            /\ Commanded(c2)' /\ Ran(c2)' /\ Answered(c2)'
            /\ RunOn(c2)' = RunOn(c2) /\ Replies(c2)' = Replies(c2)
       /\ \A c2 \in Connection : \A i : Reply(c2, i)' = Reply(c2, i)
    BY <1>1, <1>3, NothingSaid
<1>22. Grown
    <2>1. \A c2 \in Connection : Heard(c2)' >= Heard(c2) /\ Replies(c2)' >= Replies(c2)
        <3> TAKE c2 \in Connection
        <3>1. Heard(c2) \in Nat /\ Replies(c2) \in Nat
            BY Counts
        <3>2. CASE c2 = c
            <4>1. h + v >= h /\ rs >= rs
                OBVIOUS
            <4>2. Heard(c)' = h + v /\ Heard(c) = h /\ Replies(c)' = rs /\ Replies(c) = rs
                BY <1>5, <1>9, <1>21
            <4> QED
                BY <3>2, <4>1, <4>2
        <3>3. CASE c2 # c
            BY <1>9, <1>21, <3>1, <3>3
        <3> QED
            BY <3>2, <3>3
    <2>2. \A k \in 1 .. Len(interactions) :
            k \in 1 .. Len(interactions') /\ interactions'[k] = interactions[k]
        BY <1>13, <1>15, <1>19, AddedLists
    <2> QED
        BY <1>21, <2>1, <2>2 DEF Grown
\* Where no stray was written, there is a command for each reply.
<1>23. ASSUME c \notin Astray
       PROVE  /\ p = v /\ w = Done(c, "up") \div 2 - h
              /\ \A k \in 1 .. w : h + k \in 1 .. Len(issued[c]) /\ r.pending[k] = issued[c][h + k].frame
    <2>1. /\ w = Done(c, "up") \div 2 - h
          /\ \A k \in 1 .. w : r.pending[k] = issued[c][h + k].frame
        BY <1>3, <1>4, <1>5, <1>6, <1>12, <1>23 DEF Waiting
    <2>2. rs <= Len(got[c]["up"]) \div 2
        BY <1>3, <1>5, <1>23 DEF Straight
    <2>3. PICK g \in Nat, u \in Nat :
            g = Len(got[c]["up"]) \div 2 /\ u = Done(c, "up") \div 2 /\ g <= u
        <3>1. Done(c, "up") \div 2 \in Nat
            BY Counts, HalfGrows
        <3> QED
            BY <3>1, Counts
    <2>4. rs <= g /\ w = u - h
        BY <2>1, <2>2, <2>3
    <2>5. v <= w
        <3>1. h + v <= rs /\ rs <= g /\ g <= u /\ w = u - h
            BY <1>10, <2>3, <2>4
        <3> QED
            BY ONLY <3>1, g \in Nat, u \in Nat, w \in Nat, v \in Nat, h \in Nat, rs \in Nat
    <2>6. issued[c] \in Seq([frame : Frame, seen : SUBSET Nat])
        BY <1>3 DEF Typed
    <2>7. \A k \in 1 .. w : h + k \in 1 .. Len(issued[c])
        <3>1. Len(issued[c]) \in Nat /\ Len(r.pending) = Done(c, "up") \div 2 - Heard(c)
            <4>1. Len(issued[c]) \in Nat
                BY <2>6
            <4> QED
                BY <1>5, <1>12, <2>1, <4>1
        <3> HIDE DEF left
        <3>2. \A k \in 1 .. Len(r.pending) : Heard(c) + k \in 1 .. Len(issued[c])
            BY <1>3, <3>1, WaitingWithin
        <3> QED
            BY <1>5, <1>12, <3>2
    <2> QED
        BY <1>12, <2>1, <2>5, <2>7
<1>24. Adds(c, h, fresh)
    <2> SUFFICES ASSUME NEW k \in 1 .. p
                 PROVE  /\ fresh[k].response = Reply(c, h + k)
                        /\ h + k \in 1 .. h + v /\ h + k \in 1 .. rs
                        /\ \E i \in 1 .. Len(issued[c]) :
                                /\ fresh[k].request = toCommand(issued[c][i].frame)
                                /\ c \in Astray \/ i = h + k
        BY <1>5, <1>9, <1>13, <1>15 DEF Adds
    <2>1. k \in 1 .. v /\ k \in 1 .. w /\ h + k \in 1 .. h + v /\ h + k \in 1 .. rs
        BY <1>10, <1>12
    <2>2. fresh[k].response = Reply(c, h + k) /\ fresh[k].request = toCommand(r.pending[k])
        BY <1>8, <1>13, <2>1
    <2>3. \E i \in 1 .. Len(issued[c]) :
                r.pending[k] = issued[c][i].frame /\ (c \in Astray \/ i = h + k)
        <3>1. CASE c \in Astray
            BY <1>3, <1>4, <1>12, <2>1, <3>1 DEF Waiting
        <3>2. CASE c \notin Astray
            BY <1>23, <2>1, <3>2
        <3> QED
            BY <3>1, <3>2
    <2> QED
        BY <2>1, <2>2, <2>3
<1>25. Sourced' /\ Once' /\ SeenKept' /\ RecordedInCausalOrder'
    <2>1. Heard(c) <= h
        BY <1>5
    <2> QED
        BY <1>1, <1>13, <1>20, <1>22, <1>24, <2>1, AddsMatched
<1>26. Waiting(c)'
    <2>1. /\ Len(recorder'[c].clientBuffer) < 2 /\ Len(recorder'[c].serverBuffer) < 2
          /\ Len(recorder'[c].clientBuffer) = Done(c, "up")' % 2
          /\ Len(recorder'[c].serverBuffer) = Done(c, "down")' % 2
        <3>1. Len(r.clientBuffer) < 2 /\ Len(r.clientBuffer) = Done(c, "up") % 2
            BY <1>3, <1>4, <1>6 DEF Waiting
        <3>2. Len(Remainder(whole)) < 2
            BY <1>8
        <3> QED
            BY <1>5, <1>6, <1>8, <1>18, <3>1, <3>2
    <2>2. \A k \in 1 .. w - p : \E i \in 1 .. Len(issued[c]) : left[k] = issued[c][i].frame
        <3>1. \A k \in 1 .. w : \E i \in 1 .. Len(issued[c]) : r.pending[k] = issued[c][i].frame
            BY <1>3, <1>4, <1>12 DEF Waiting
        <3> TAKE k \in 1 .. w - p
        <3>2. PICK at \in 1 .. w : left[k] = r.pending[at]
            BY <1>16
        <3> QED
            BY <3>1, <3>2
    <2>3. ASSUME c \notin Astray
          PROVE  /\ w - p = Done(c, "up") \div 2 - (h + v)
                 /\ \A k \in 1 .. w - p : left[k] = issued[c][h + v + k].frame
        <3>1. Done(c, "up") \div 2 \in Nat
            BY Counts, HalfGrows
        <3>2. w - p = Done(c, "up") \div 2 - (h + v)
            <4>1. PICK u \in Nat : u = Done(c, "up") \div 2
                BY <3>1
            <4>2. p = v /\ w = u - h
                BY <1>23, <2>3, <4>1
            <4>3. w - p = u - (h + v)
                BY ONLY <4>2, u \in Nat, h \in Nat, v \in Nat, w \in Nat, p \in Nat
            <4> QED
                BY <4>1, <4>3
        <3>3. ASSUME NEW k \in 1 .. w - p PROVE left[k] = issued[c][h + v + k].frame
            <4>1. p + k \in 1 .. w /\ left[k] = r.pending[p + k] /\ p = v
                BY <1>16, <1>23, <2>3
            <4>2. h + (v + k) = h + v + k
                OBVIOUS
            <4> QED
                BY <1>23, <2>3, <4>1, <4>2
        <3> QED
            BY <3>2, <3>3
    <2>4. Done(c, "up")' = Done(c, "up") /\ issued' = issued
        BY <1>6
    <2>5. \A k \in 1 .. Len(recorder'[c].pending) :
                \E i \in 1 .. Len(issued'[c]) : recorder'[c].pending[k] = issued'[c][i].frame
        <3>1. /\ Len(recorder'[c].pending) = w - p /\ recorder'[c].pending = left
              /\ issued'[c] = issued[c]
            BY <1>16, <1>18, <2>4
        <3> QED
            BY <2>2, <3>1
    <2>6. ASSUME c \notin Astray'
          PROVE  /\ Len(recorder'[c].pending) = Done(c, "up")' \div 2 - Heard(c)'
                 /\ \A k \in 1 .. Len(recorder'[c].pending) :
                        recorder'[c].pending[k] = issued'[c][Heard(c)' + k].frame
        BY <1>9, <1>16, <1>18, <1>21, <2>3, <2>4, <2>6
    <2> QED
        BY <2>1, <2>5, <2>6 DEF Waiting
<1>27. ASSUME NEW c2 \in Connection, c2 # c PROVE Waiting(c2)'
    <2>1. recorder'[c2] = recorder[c2] /\ Waiting(c2)
        BY <1>18, <1>27 DEF IInv
    <2> QED
        BY <1>1, <1>6, <1>9, <1>21, <1>27, <2>1 DEF Waiting
<1>28. ASSUME NEW c2 \in Connection PROVE Straight(c2)'
    BY <1>1, NothingTaken
<1>29. Kept(c)'
    <2>1. \A reply : InList(reply) => InList(reply)'
        BY <1>3, <1>20, <1>22, RecordedGrows
    <2> SUFFICES ASSUME c \notin Astray
                 PROVE  /\ \A i \in 1 .. Len(got[c]["down"]) \div 2 : InList(Reply(c, i))'
                        /\ \A i \in 1 .. h + v : InList(Reply(c, i))'
        BY <1>1, <1>6, <1>9, <1>21 DEF Kept
    <2>2. /\ \A i \in 1 .. Len(got[c]["down"]) \div 2 : InList(Reply(c, i))
          /\ \A i \in 1 .. h : InList(Reply(c, i))
        BY <1>3, <1>5, <1>6 DEF Kept
    <2>3. ASSUME NEW k \in 1 .. v PROVE InList(Reply(c, h + k))'
        <3>1. k \in 1 .. Len(fresh) /\ fresh[k].response = Reply(c, h + k)
            BY <1>8, <1>13, <1>23
        <3>2. PICK at : at \in 1 .. Len(interactions') /\ interactions'[at] = fresh[k]
            <4>1. /\ Len(interactions) + k \in 1 .. Len(interactions \o fresh)
                  /\ (interactions \o fresh)[Len(interactions) + k] = fresh[k]
                BY <1>13, <1>19, <3>1, AddedLists
            <4> QED
                BY <1>15, <4>1, Zenon
        <3>3. interactions'[at].response = Reply(c, h + k)'
            BY <1>21, <3>1, <3>2
        <3> QED
            BY <3>2, <3>3 DEF InList
    <2>4. \A i \in 1 .. h + v : i \in 1 .. h \/ \E k \in 1 .. v : i = h + k
        <3> TAKE i \in 1 .. h + v
        <3>1. CASE i <= h
            BY <3>1
        <3>2. CASE ~ (i <= h)
            <4>1. i - h \in 1 .. v /\ i = h + (i - h)
                BY <3>2
            <4> QED
                BY <4>1
        <3> QED
            BY <3>1, <3>2
    <2>5. ASSUME NEW i, InList(Reply(c, i)) PROVE InList(Reply(c, i))'
        <3>1. Reply(c, i)' = Reply(c, i)
            BY <1>21
        <3> QED
            BY <2>1, <2>5, <3>1 DEF InList
    <2> QED
        BY <2>2, <2>3, <2>4, <2>5
<1>30. ASSUME NEW c2 \in Connection, c2 # c PROVE Kept(c2)'
    <2>1. \A reply : InList(reply) => InList(reply)'
        BY <1>3, <1>20, <1>22, RecordedGrows
    <2>2. Kept(c2)
        BY <1>3 DEF Matched
    <2>3. ASSUME NEW i, InList(Reply(c2, i)) PROVE InList(Reply(c2, i))'
        <3>1. Reply(c2, i)' = Reply(c2, i)
            BY <1>21
        <3> QED
            BY <2>1, <2>3, <3>1 DEF InList
    <2>4. Heard(c2)' = Heard(c2) /\ Astray' = Astray /\ bridge' = bridge /\ got' = got
        BY <1>1, <1>9, <1>21, <1>30
    <2> SUFFICES ASSUME c2 \notin Astray
                 PROVE  /\ \A i \in 1 .. Len(got[c2]["down"]) \div 2 : InList(Reply(c2, i))'
                        /\ bridge[c2] = "open" => \A i \in 1 .. Heard(c2) : InList(Reply(c2, i))'
        BY <2>4 DEF Kept
    <2> QED
        BY <2>2, <2>3 DEF Kept
<1> QED
    BY <1>20, <1>21, <1>25, <1>26, <1>27, <1>28, <1>29, <1>30 DEF IInv, Told, Matched

-----------------------------------------------------------------------------
(***************************************************************************)
(* The proxy closes a connection: nothing waits in the recorder's list, so *)
(* nothing is added; what was on the wire will not be read.                *)
(***************************************************************************)

LEMMA CloseStep ==
    ASSUME IInv, Relayed, Relayed', NEW c \in Connection, Proxy!close(c),
           UNCHANGED <<executed, issued, pushed>>
    PROVE  IInv'
<1> DEFINE Recorder == [clientBuffer : Seq(Byte), serverBuffer : Seq(Byte),
                        pending : Seq(Frame), completed : {<<>>}]
<1>1. /\ interactions' = interactions \o completed(recorder[c])
      /\ recorder' = [recorder EXCEPT ![c] = drain(@)]
      /\ bridge' = [bridge EXCEPT ![c] = "closed"]
      /\ wire' = [wire EXCEPT ![c] = [d \in {"up", "down"} |-> <<>>]]
      /\ UNCHANGED <<got, sent>>
    BY DEF Proxy!close, Proxy!Direction
<1>2. Told /\ Typed /\ Matched /\ recorder \in [Connection -> Recorder] /\ wire \in Flow
    BY DEF IInv, Told, Typed, Relayed
<1>3. interactions' = interactions
    <2>1. completed(recorder[c]) = <<>>
        BY <1>2 DEF completed
    <2>2. interactions \in Seq(Pair)
        BY <1>2 DEF Typed, Pair
    <2> QED
        BY <1>1, <2>1, <2>2
<1>4. recorder' = recorder
    <2>1. PICK r \in Recorder : r = recorder[c]
        BY <1>2
    <2>2. drain(r) = r
        BY DEF drain
    <2> QED
        BY <1>1, <1>2, <2>1, <2>2
<1> HIDE DEF Recorder
<1>5. wire'[c]["down"] = <<>> /\ \A c2 \in Connection : c2 # c => wire'[c2] = wire[c2]
    BY <1>1, <1>2 DEF Flow
<1>6. \A c2 \in Connection : c2 # c => bridge'[c2] = bridge[c2] /\ Heard(c2)' = Heard(c2)
                                        /\ \A d \in {"up", "down"} : Done(c2, d)' = Done(c2, d)
    <2>1. ASSUME NEW c2 \in Connection, c2 # c
          PROVE  \A d \in {"up", "down"} : Done(c2, d)' = Done(c2, d)
        BY <1>1, <1>5, <2>1 DEF Done
    <2> QED
        BY <1>1, <2>1 DEF Heard
<1>7. bridge'[c] = "closed"
    BY <1>1 DEF Relayed
<1>8. Typed'
    BY <1>2, <1>3, <1>4 DEF Typed
<1>9. /\ Astray' = Astray
      /\ \A c2 \in Connection :
            /\ Commanded(c2)' /\ Ran(c2)' /\ Answered(c2)'
            /\ RunOn(c2)' = RunOn(c2) /\ Replies(c2)' = Replies(c2)
      /\ \A c2 \in Connection : \A i : Reply(c2, i)' = Reply(c2, i)
    BY <1>1, <1>2, NothingSaid
<1>10. Grown
    <2>1. \A c2 \in Connection : Heard(c2)' >= Heard(c2) /\ Replies(c2)' >= Replies(c2)
        <3> TAKE c2 \in Connection
        <3>1. Heard(c2) \in Nat /\ Replies(c2) \in Nat /\ Heard(c2) <= Replies(c2)
            BY Counts
        <3>2. CASE c2 = c
            <4>1. Done(c, "down")' = Len(sent[c]["down"])
                <5>1. PICK s \in Nat : s = Len(sent[c]["down"])
                    <6>1. sent[c]["down"] \in Seq(Byte)
                        BY DEF Relayed, Flow
                    <6> QED
                        BY <6>1
                <5>2. Len(wire'[c]["down"]) = 0
                    BY <1>5
                <5>3. s - 0 = s
                    OBVIOUS
                <5> QED
                    BY <1>1, <5>1, <5>2, <5>3 DEF Done
            <4>2. Heard(c)' = Replies(c)
                BY <4>1 DEF Heard, Replies
            <4> QED
                BY <1>9, <3>1, <3>2, <4>2
        <3>3. CASE c2 # c
            BY <1>6, <1>9, <3>1, <3>3
        <3> QED
            BY <3>2, <3>3
    <2> QED
        BY <1>3, <1>9, <2>1 DEF Grown
<1>11. Sourced'
    <2>1. \A k \in 1 .. Len(interactions) :
            \E c2 \in Connection : \E i \in 1 .. Heard(c2)' : \E n \in 1 .. Len(issued'[c2]) :
                /\ interactions'[k].response = Reply(c2, i)'
                /\ interactions'[k].request = toCommand(issued'[c2][n].frame)
                /\ c2 \in Astray' \/ n = i
        BY <1>2, <1>8, <1>10, OldSourced DEF Matched
    <2> QED
        BY <1>3, <2>1 DEF Sourced
<1>12. Once' /\ SeenKept' /\ RecordedInCausalOrder'
    BY <1>1, <1>3, NothingAdded
<1>13. ASSUME NEW c2 \in Connection PROVE Straight(c2)'
    BY <1>1, NothingTaken
<1>14. \A c2 \in Connection : Waiting(c2) /\ Kept(c2)
    BY <1>2 DEF IInv, Matched
<1>15. Waiting(c)' /\ Kept(c)'
    <2>1. bridge'[c] # "open"
        BY <1>7
    <2>2. Waiting(c)'
        BY <1>4, <1>14, <2>1 DEF Waiting
    <2>3. /\ Kept(c) /\ got' = got /\ Astray' = Astray
          /\ \A i : InList(Reply(c, i))' = InList(Reply(c, i))
        <3>1. ASSUME NEW i PROVE InList(Reply(c, i))' = InList(Reply(c, i))
            <4>1. Reply(c, i)' = Reply(c, i)
                BY <1>9
            <4> QED
                BY <1>3, <4>1 DEF InList
        <3> QED
            BY <1>1, <1>9, <1>14, <3>1
    <2>4. Kept(c)'
        BY <2>1, <2>3 DEF Kept
    <2> QED
        BY <2>2, <2>4
<1>16. ASSUME NEW c2 \in Connection, c2 # c PROVE Waiting(c2)' /\ Kept(c2)'
    <2>1. Waiting(c2)'
        BY <1>4, <1>6, <1>9, <1>14, <1>16 DEF Waiting
    <2>2. /\ Kept(c2) /\ got' = got /\ Astray' = Astray
          /\ bridge'[c2] = bridge[c2] /\ Heard(c2)' = Heard(c2)
          /\ \A i : InList(Reply(c2, i))' = InList(Reply(c2, i))
        <3>1. ASSUME NEW i PROVE InList(Reply(c2, i))' = InList(Reply(c2, i))
            <4>1. Reply(c2, i)' = Reply(c2, i)
                BY <1>9
            <4> QED
                BY <1>3, <4>1 DEF InList
        <3> QED
            BY <1>1, <1>6, <1>9, <1>14, <1>16, <3>1
    <2>3. Kept(c2)'
        BY <2>2 DEF Kept
    <2> QED
        BY <2>1, <2>3
<1> QED
    BY <1>8, <1>9, <1>11, <1>12, <1>13, <1>15, <1>16 DEF IInv, Told, Matched

-----------------------------------------------------------------------------
(***************************************************************************)
(* The invariant holds throughout.                                         *)
(***************************************************************************)

LEMMA InitIInv == Init => IInv
<1> SUFFICES ASSUME Init PROVE IInv
    OBVIOUS
<1>1. /\ executed = <<>> /\ interactions = <<>> /\ pushed = {}
      /\ issued = [c \in Connection |-> <<>>]
      /\ recorder = [c \in Connection |-> NewRedisRecorder]
      /\ sent = [c \in Connection |-> [d \in {"up", "down"} |-> <<>>]]
      /\ got = [c \in Connection |-> [d \in {"up", "down"} |-> <<>>]]
      /\ wire = [c \in Connection |-> [d \in {"up", "down"} |-> <<>>]]
    BY DEF Init, Proxy!Init, Proxy!PerDirection, Proxy!Direction
<1>2. Len(<<>>) = 0 /\ 0 \div 2 = 0 /\ 0 % 2 = 0 /\ 0 - 0 = 0 /\ 2 * 0 = 0 /\ DOMAIN <<>> = {}
    OBVIOUS
<1>3. Typed
    <2>1. NewRedisRecorder \in [clientBuffer : Seq(Byte), serverBuffer : Seq(Byte),
                                pending : Seq(Frame), completed : {<<>>}]
        BY DEF NewRedisRecorder
    <2> QED
        BY <1>1, <2>1 DEF Typed
<1>4. ASSUME NEW c \in Connection
      PROVE  /\ RunOn(c) = {} /\ Replies(c) = 0 /\ Heard(c) = 0
             /\ Len(issued[c]) = 0 /\ Len(got[c]["up"]) = 0 /\ Len(got[c]["down"]) = 0
             /\ Len(sent[c]["up"]) = 0 /\ Len(sent[c]["down"]) = 0
             /\ \A d \in {"up", "down"} : Done(c, d) = 0
    <2>1. RunOn(c) = {}
        BY <1>1, <1>2 DEF RunOn
    <2>2. \A d \in {"up", "down"} : sent[c][d] = <<>> /\ wire[c][d] = <<>> /\ got[c][d] = <<>>
        BY <1>1
    <2>3. \A d \in {"up", "down"} : Done(c, d) = 0
        BY <1>2, <2>2 DEF Done
    <2>4. Replies(c) = 0 /\ Heard(c) = 0
        BY <1>2, <2>2, <2>3 DEF Replies, Heard
    <2> QED
        BY <1>1, <1>2, <2>1, <2>2, <2>3, <2>4
<1>5. \A i : ~ (i \in 1 .. 0)
    OBVIOUS
<1>6. ASSUME NEW c \in Connection
      PROVE  Commanded(c) /\ Ran(c) /\ Answered(c) /\ Straight(c) /\ Kept(c)
    <2>1. Commanded(c) /\ Ran(c)
        BY <1>2, <1>4, <1>5 DEF Commanded, Ran
    <2>2. Answered(c)
        BY <1>2, <1>4, <1>5 DEF Answered
    <2>3. Straight(c)
        <3>1. Cardinality(RunOn(c)) = 0
            BY <1>4, FS_EmptySet
        <3>2. Replies(c) = 0 /\ Len(got[c]["up"]) \div 2 = 0 /\ 0 <= 0
            <4>1. Replies(c) = 0 /\ Len(got[c]["up"]) = 0
                BY <1>4
            <4>2. 0 \div 2 = 0
                OBVIOUS
            <4> QED
                BY <4>1, <4>2
        <3> QED
            BY <1>5, <3>1, <3>2 DEF Straight
    <2>4. Kept(c)
        BY <1>2, <1>4, <1>5 DEF Kept
    <2> QED
        BY <2>1, <2>2, <2>3, <2>4
<1>7. ASSUME NEW c \in Connection PROVE Waiting(c)
    <2>1. /\ Len(recorder[c].clientBuffer) = 0 /\ Len(recorder[c].serverBuffer) = 0
          /\ Len(recorder[c].pending) = 0
        BY <1>1, <1>2 DEF NewRedisRecorder
    <2> QED
        BY <1>2, <1>4, <1>5, <2>1 DEF Waiting
<1>8. Sourced /\ Once /\ RecordedInCausalOrder
    BY <1>1, <1>2, <1>5 DEF Sourced, Once, RecordedInCausalOrder
<1>9. SeenKept
    BY <1>4, <1>5 DEF SeenKept
<1> QED
    BY <1>3, <1>6, <1>7, <1>8, <1>9 DEF IInv, Told, Matched

LEMMA NextIInv ==
    ASSUME IInv, Relayed, Relayed', [Next]_vars
    PROVE  IInv'
<1>1. ASSUME NEW c \in Connection, NEW frame \in Frame, ClientCommand(c, frame)
      PROVE  IInv'
    BY <1>1, CommandStep
<1>2. ASSUME NEW c \in Connection, ClientEnd(c) \/ ServerEnd(c)
      PROVE  IInv'
    <2>1. UNCHANGED <<bridge, wire, got, recorder, interactions, sent, executed, issued, pushed>>
        BY <1>2 DEF ClientEnd, ServerEnd, Proxy!End
    <2> QED
        BY <2>1, EndStep
<1>3. ASSUME NEW c \in Connection, ServerExecute(c) PROVE IInv'
    BY <1>3, ExecuteStep
<1>4. ASSUME NEW c \in Connection, ServerPush(c) PROVE IInv'
    BY <1>4, PushStep
<1>5. ASSUME NEW c \in Connection, Relay(c) PROVE IInv'
    <2>1. UNCHANGED <<executed, issued, pushed>>
        BY <1>5 DEF Relay
    <2>2. CASE \E d \in {"up", "down"} : Proxy!Take(c, d)
        BY <2>1, <2>2, TakeStep
    <2>3. CASE Proxy!ClientData(c)
        BY <2>1, <2>3, ClientDataStep
    <2>4. CASE Proxy!UpstreamData(c)
        BY <2>1, <2>4, UpstreamDataStep
    <2>5. CASE Proxy!OnEnd(c) \/ Proxy!OnError(c)
        <3>1. Proxy!close(c)
            BY <2>5 DEF Proxy!OnEnd, Proxy!OnError
        <3> QED
            BY <2>1, <3>1, CloseStep
    <2> QED
        BY <1>5, <2>2, <2>3, <2>4, <2>5 DEF Relay, Proxy!Proxy
<1>6. CASE UNCHANGED vars
    <2>1. UNCHANGED <<bridge, wire, got, recorder, interactions, sent, executed, issued, pushed>>
        BY <1>6 DEF vars, proxyVars
    <2> QED
        BY <2>1, EndStep
<1> QED
    BY <1>1, <1>2, <1>3, <1>4, <1>5, <1>6 DEF Next

LEMMA Invariance == Spec => [](IInv /\ Relayed)
<1>1. Init => IInv /\ Executed
    BY InitIInv DEF Init, Executed
<1>2. Bridge!Spec => []Bridge!Inv
    BY Bridge!InvHolds
<1>3. Bridge!Inv => Relayed
    BY BridgeIsRelayed
<1>4. IInv /\ Relayed /\ Relayed' /\ [Next]_vars => IInv'
    BY NextIInv
<1> QED
    BY <1>1, <1>2, <1>3, <1>4, ImplementsProxy, PTL DEF Spec

-----------------------------------------------------------------------------
(***************************************************************************)
(* What the invariant says of the properties of RedisRecording.            *)
(***************************************************************************)

\* The reply of an interaction is a stray or answers a command that was run.
LEMMA ResponseIsReply ==
    ASSUME IInv, Relayed, NEW k \in 1 .. Len(interactions)
    PROVE  \/ interactions[k].response \in Strays
           \/ \E s \in 1 .. Len(executed) : Answers(interactions[k].response, s)
<1>0. PICK c \in Connection : \E i \in 1 .. Heard(c) : interactions[k].response = Reply(c, i)
    BY DEF IInv, Matched, Sourced
<1>1. PICK i \in 1 .. Heard(c) : interactions[k].response = Reply(c, i)
    BY <1>0
<1>2. i \in 1 .. Replies(c)
    <2>1. PICK a \in Nat, b \in Nat : a = Heard(c) /\ b = Replies(c) /\ a <= b
        BY Counts
    <2> QED
        BY <2>1
<1>3. Reply(c, i) \in Strays \/ \E s \in RunOn(c) : Answers(Reply(c, i), s)
    BY <1>2 DEF IInv, Told, Answered
<1>4. RunOn(c) \subseteq 1 .. Len(executed)
    BY ExecutedDomain DEF IInv, Told, RunOn
<1> QED
    BY <1>1, <1>3, <1>4

LEMMA TypeIsOK == IInv /\ Relayed => TypeOK
<1> SUFFICES ASSUME IInv, Relayed PROVE TypeOK
    OBVIOUS
<1> DEFINE Response == [kind : {"bulk", "unsupported"}, value : 0 .. Len(executed)] \union {Push}
           Request == {toCommand(frame) : frame \in Frame}
           Typical == [protocol : {"redis"}, request : Request, response : Response]
<1>1. Typed /\ interactions \in Seq(Pair)
    BY DEF IInv, Told, Typed, Pair
<1>2. Len(executed) \in Nat
    BY <1>1, ExecutedDomain
<1>3. ASSUME NEW k \in 1 .. Len(interactions) PROVE interactions[k] \in Typical
    <2>1. interactions[k] \in Pair
        BY <1>1
    <2>2. interactions[k].response \in Response
        <3>1. CASE interactions[k].response \in Strays
            <4>1. Member \in Response /\ Push \in Response
                BY <1>2 DEF Member
            <4> QED
                BY <3>1, <4>1 DEF Strays
        <3>2. CASE \E s \in 1 .. Len(executed) : Answers(interactions[k].response, s)
            <4>1. PICK s \in 1 .. Len(executed) : Answers(interactions[k].response, s)
                BY <3>2
            <4>2. s \in 0 .. Len(executed)
                BY <1>2
            <4> QED
                BY <4>1, <4>2 DEF Answers, Value, SetHeader
        <3> QED
            BY <3>1, <3>2, ResponseIsReply
    <2> HIDE DEF Response
    <2> QED
        BY <2>1, <2>2 DEF Pair
<1>4. interactions \in Seq(Typical)
    <2> DEFINE L == Len(interactions)
               at(k) == interactions[k]
    <2>1. L \in Nat /\ interactions = [k \in 1 .. L |-> at(k)]
        BY <1>1
    <2>2. \A k \in 1 .. L : at(k) \in Typical
        BY <1>3
    <2> HIDE DEF L, at, Typical
    <2> QED
        BY <2>1, <2>2
<1>5. ASSUME NEW c \in Connection
      PROVE  /\ Range(recorder[c].pending) \subseteq Frame
             /\ recorder[c].completed = <<>>
             /\ Len(recorder[c].clientBuffer) < 2
             /\ Len(recorder[c].serverBuffer) < 2
    <2>1. recorder[c].pending \in Seq(Frame) /\ recorder[c].completed = <<>>
        BY <1>1 DEF Typed
    <2>2. Range(recorder[c].pending) \subseteq Frame
        BY <2>1 DEF Range
    <2> QED
        BY <2>1, <2>2 DEF IInv, Waiting
<1> QED
    BY <1>4, <1>5 DEF TypeOK

LEMMA StraysMispair == IInv /\ Relayed => OnlyStraysMispair
<1> SUFFICES ASSUME IInv, Relayed, NEW k \in DOMAIN interactions
             PROVE  \/ RealPair(k)
                    \/ \E c \in Astray : \E n \in DOMAIN issued[c] :
                            interactions[k].request = toCommand(issued[c][n].frame)
    BY DEF OnlyStraysMispair
<1>1. Typed /\ k \in 1 .. Len(interactions)
    BY Domains DEF IInv, Told
<1>2. PICK c \in Connection : \E i \in 1 .. Heard(c) : \E n \in 1 .. Len(issued[c]) :
            /\ interactions[k].response = Reply(c, i)
            /\ interactions[k].request = toCommand(issued[c][n].frame)
            /\ c \in Astray \/ n = i
    BY <1>1 DEF IInv, Matched, Sourced
<1>3. PICK i \in 1 .. Heard(c), n \in 1 .. Len(issued[c]) :
            /\ interactions[k].response = Reply(c, i)
            /\ interactions[k].request = toCommand(issued[c][n].frame)
            /\ c \in Astray \/ n = i
    BY <1>2
<1>4. CASE c \in Astray
    <2>1. issued[c] \in Seq([frame : Frame, seen : SUBSET Nat])
        BY <1>1 DEF Typed
    <2>2. n \in DOMAIN issued[c]
        BY <2>1
    <2> QED
        BY <1>3, <1>4, <2>2
<1>5. CASE c \notin Astray
    <2>1. i \in 1 .. Replies(c)
        <3>1. PICK a \in Nat, b \in Nat : a = Heard(c) /\ b = Replies(c) /\ a <= b
            BY Counts
        <3> QED
            BY <3>1
    <2>2. PICK s \in RunOn(c) : Reply(c, i) = Value(s) /\ executed[s].nth = i
        BY <1>5, <2>1 DEF IInv, Told, Straight
    <2>3. executed[s].frame = issued[c][i].frame
        BY <2>2 DEF IInv, Told, Ran
    <2>4. Answers(interactions[k].response, s) /\ s \in DOMAIN executed
        BY <1>3, <2>2 DEF Answers, RunOn
    <2>5. interactions[k].request = toCommand(executed[s].frame)
        BY <1>3, <1>5, <2>3
    <2> QED
        BY <2>4, <2>5 DEF RealPair
<1> QED
    BY <1>4, <1>5

LEMMA WhatIsSeenIsRecorded == IInv /\ Relayed => SeenIsRecorded
<1> SUFFICES ASSUME IInv, Relayed PROVE SeenIsRecorded
    OBVIOUS
<1>1. DOMAIN interactions = 1 .. Len(interactions)
    BY Domains DEF IInv, Told
<1>2. ASSUME NEW j \in DOMAIN interactions, NEW k \in DOMAIN interactions,
             interactions[j].response = interactions[k].response,
             interactions[j].response \notin {Push, Member}
      PROVE  j = k
    BY <1>1, <1>2 DEF IInv, Matched, Once, Strays
<1>3. ASSUME NEW c \in Connection \ Astray, NEW s \in Seen(c) PROVE Recorded(s)
    <2>1. PICK i \in 1 .. Len(got[c]["down"]) \div 2 : Answers(Reply(c, i), s)
        BY SeenIsReply DEF IInv
    <2>2. InList(Reply(c, i))
        BY DEF IInv, Matched, Kept
    <2> QED
        BY <1>1, <2>1, <2>2 DEF InList, Recorded
<1> QED
    BY <1>2, <1>3 DEF SeenIsRecorded

\* What is collected is a command with a decoded reply, numbered within what the server
\* ran; a recorder holds less than two halves in either buffer, only commands wait in it
\* and nothing lies in its list once the handler has returned (redisRecorder.ts:20-62).
THEOREM TypeCorrect == Spec => []TypeOK
BY Invariance, TypeIsOK, PTL

\* redisRecorder.ts:4-8: whatever the commands, their pipelining and the cuts between
\* the chunks, each interaction is a command with the answer the server gave it, except
\* on a connection to which the server wrote what answers none.
THEOREM OnlyStraysMispairHolds == Spec => []OnlyStraysMispair
BY Invariance, StraysMispair, PTL

\* recordingTcpProxy.ts:40-48: an answer a client has read is in the list by then, and
\* no answer is there twice, however the connections end.
THEOREM SeenIsRecordedHolds == Spec => []SeenIsRecorded
BY Invariance, WhatIsSeenIsRecorded, PTL

\* replay/README.md:37, "recorded order", over connections: a command sent after an
\* answer was read is recorded after that answer, unless strays displaced it.
THEOREM RecordedInCausalOrderHolds == Spec => []RecordedInCausalOrder
<1>1. IInv => RecordedInCausalOrder
    BY DEF IInv, Matched
<1> QED
    BY <1>1, Invariance, PTL

=============================================================================
