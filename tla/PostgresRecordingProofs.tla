---------------------- MODULE PostgresRecordingProofs ----------------------
(***************************************************************************)
(* Theorems of PostgresRecording, for every set of connections, pipelining *)
(* or not, every set of statements and round trips and every bound.  They  *)
(* rest on the invariant of PostgresRecordingInvariant.                    *)
(***************************************************************************)
EXTENDS PostgresRecordingInvariant, TLAPS, FiniteSetTheorems, SequenceTheorems,
        WellFoundedInduction

-----------------------------------------------------------------------------
(***************************************************************************)
(* Sequences of halves.                                                    *)
(***************************************************************************)

LEMMA LeastOf ==
  ASSUME NEW T \in SUBSET Nat, T # {}
  PROVE  \E n \in T : \A m \in T : n <= m
<1> DEFINE R == OpToRel(<, Nat)
<1>1. \A m, n \in Nat : <<m, n>> \in R <=> m < n
  BY DEF OpToRel
<1>2. IsWellFoundedOn(R, Nat)
  BY NatLessThanWellFounded, Zenon
<1> HIDE DEF R
<1>3. \E n \in T : \A m \in T : ~ (<<m, n>> \in R)
  BY <1>2, WFMin, Zenon
<1>4. PICK n \in T : \A m \in T : ~ (<<m, n>> \in R)
  BY <1>3
<1>5. \A m \in T : ~ (m < n)
  BY <1>1, <1>4, Zenon
<1> QED BY <1>5

\* Which half of which frame an element is.
LEMMA HalfOf ==
  /\ \A k \in Nat \ {0} : /\ (k + 1) \div 2 \in Nat \ {0}
                          /\ \A n \in Nat : k <= 2 * n <=> (k + 1) \div 2 <= n
                          /\ \A n \in Nat : k > 2 * n => (k - 2 * n + 1) \div 2 = (k + 1) \div 2 - n
  /\ \A k \in Nat : (2 * k + 1) \div 2 = k /\ (2 * k) \div 2 = k
OBVIOUS

LEMMA HalvesOfFrames ==
  ASSUME NEW S, NEW frames \in Seq(S)
  PROVE  /\ HalvesOf(frames) \in Seq(S)
         /\ Len(HalvesOf(frames)) = 2 * Len(frames)
         /\ \A k \in 1 .. 2 * Len(frames) : HalvesOf(frames)[k] = frames[(k + 1) \div 2]
         /\ \A k \in 1 .. Len(frames) : HalvesOf(frames)[2 * k] = frames[k]
         /\ Decodable(HalvesOf(frames)) = frames
<1> DEFINE L == Len(frames)
           at(k) == frames[(k + 1) \div 2]
           halves == HalvesOf(frames)
<1>1. L \in Nat /\ 2 * L \in Nat /\ \A i \in 1 .. L : frames[i] \in S
  OBVIOUS
<1>2. halves = [k \in 1 .. 2 * L |-> at(k)]
  BY DEF HalvesOf
<1>3. \A k \in 1 .. 2 * L : (k + 1) \div 2 \in 1 .. L
  BY ONLY <1>1, HalfOf
<1>4. \A k \in 1 .. 2 * L : at(k) \in S
  BY <1>1, <1>3
<1>5. halves \in Seq(S) /\ Len(halves) = 2 * L
  <2> HIDE DEF L, at, halves
  <2> QED BY <1>1, <1>2, <1>4
<1>6. \A k \in 1 .. L : 2 * k \in 1 .. 2 * L /\ (2 * k + 1) \div 2 = k
  BY ONLY <1>1, HalfOf
<1>7. \A k \in 1 .. L : halves[2 * k] = frames[k]
  BY <1>2, <1>6
<1>8. Decodable(halves) = frames
  <2>1. Len(halves) \div 2 = L
    BY ONLY <1>1, <1>5, HalfOf
  <2>2. Decodable(halves) = [k \in 1 .. L |-> halves[2 * k]]
    BY <2>1 DEF Decodable
  <2>3. frames = [k \in 1 .. L |-> frames[k]]
    OBVIOUS
  <2> HIDE DEF halves, L
  <2> QED BY <1>7, <2>2, <2>3
<1> QED BY <1>2, <1>5, <1>7, <1>8

\* Frames written behind frames.
LEMMA HalvesJoined ==
  ASSUME NEW S, NEW f \in Seq(S), NEW g \in Seq(S)
  PROVE  HalvesOf(f) \o HalvesOf(g) = HalvesOf(f \o g) /\ f \o g \in Seq(S)
<1> DEFINE F == HalvesOf(f)
           G == HalvesOf(g)
           H == HalvesOf(f \o g)
           m == Len(f)
           n == Len(g)
<1>1. /\ m \in Nat /\ n \in Nat /\ f \o g \in Seq(S) /\ Len(f \o g) = m + n
      /\ \A i \in 1 .. m : (f \o g)[i] = f[i]
      /\ \A i \in m + 1 .. m + n : (f \o g)[i] = g[i - m]
  OBVIOUS
<1>2. /\ F \in Seq(S) /\ Len(F) = 2 * m /\ \A k \in 1 .. 2 * m : F[k] = f[(k + 1) \div 2]
      /\ G \in Seq(S) /\ Len(G) = 2 * n /\ \A k \in 1 .. 2 * n : G[k] = g[(k + 1) \div 2]
  BY HalvesOfFrames
<1>3. /\ H \in Seq(S) /\ Len(H) = 2 * (m + n)
      /\ \A k \in 1 .. 2 * (m + n) : H[k] = (f \o g)[(k + 1) \div 2]
  <2>1. PICK h \in Seq(S) : h = f \o g /\ Len(h) = m + n
    BY <1>1, Zenon
  <2>2. /\ HalvesOf(h) \in Seq(S) /\ Len(HalvesOf(h)) = 2 * Len(h)
        /\ \A k \in 1 .. 2 * Len(h) : HalvesOf(h)[k] = h[(k + 1) \div 2]
    BY HalvesOfFrames
  <2> QED BY <2>1, <2>2
<1> HIDE DEF F, G, H, m, n
<1>4. /\ F \o G \in Seq(S) /\ Len(F \o G) = 2 * m + 2 * n
      /\ \A k \in 1 .. 2 * m : (F \o G)[k] = F[k]
      /\ \A k \in 2 * m + 1 .. 2 * m + 2 * n : (F \o G)[k] = G[k - 2 * m]
  <2>1. F \in Seq(S) /\ G \in Seq(S) /\ Len(F) = 2 * m /\ Len(G) = 2 * n /\ m \in Nat /\ n \in Nat
    BY <1>1, <1>2
  <2>2. /\ F \o G \in Seq(S)
        /\ Len(F \o G) = Len(F) + Len(G)
        /\ \A i \in 1 .. Len(F) + Len(G) : (F \o G)[i] = IF i <= Len(F) THEN F[i] ELSE G[i - Len(F)]
    BY ONLY <2>1, ConcatProperties, Zenon
  <2> QED BY ONLY <2>1, <2>2
<1>5. ASSUME NEW k \in 1 .. 2 * (m + n) PROVE (F \o G)[k] = H[k]
  <2>1. CASE k <= 2 * m
    <3>1. (k + 1) \div 2 \in 1 .. m /\ k \in 1 .. 2 * m
      BY ONLY <1>1, <2>1, k \in 1 .. 2 * (m + n), HalfOf
    <3>2. (F \o G)[k] = f[(k + 1) \div 2]
      BY <1>2, <1>4, <3>1, Zenon
    <3>3. H[k] = f[(k + 1) \div 2]
      BY <1>1, <1>3, <3>1, Zenon
    <3> QED BY <3>2, <3>3
  <2>2. CASE k > 2 * m
    <3>1. /\ (k + 1) \div 2 \in m + 1 .. m + n /\ k \in 2 * m + 1 .. 2 * m + 2 * n
          /\ (k - 2 * m + 1) \div 2 = (k + 1) \div 2 - m
          /\ k - 2 * m \in 1 .. 2 * n
      BY ONLY <1>1, <2>2, k \in 1 .. 2 * (m + n), HalfOf
    <3>2. (F \o G)[k] = g[(k - 2 * m + 1) \div 2]
      BY <1>2, <1>4, <3>1, Zenon
    <3>3. H[k] = g[(k + 1) \div 2 - m]
      BY <1>1, <1>3, <3>1, Zenon
    <3> QED BY <3>1, <3>2, <3>3
  <2>3. k <= 2 * m \/ k > 2 * m
    BY ONLY <1>1, k \in 1 .. 2 * (m + n)
  <2> QED BY <2>1, <2>2, <2>3, Zenon
<1>6. F \o G = H
  <2>1. F \o G \in Seq(S) /\ H \in Seq(S) /\ Len(F \o G) = Len(H)
    BY <1>1, <1>3, <1>4
  <2>2. \A k \in 1 .. Len(F \o G) : (F \o G)[k] = H[k]
    BY <1>3, <1>5, <2>1
  <2> QED BY ONLY <2>1, <2>2, SeqEqual, Zenon
<1> QED BY <1>1, <1>6 DEF F, G, H

\* What is buffered and what is unread are the end of the stream, from start on.
Ending(S, stream, start, buffer, unread) ==
    /\ stream \in Seq(S) /\ start \in Nat /\ buffer \in Seq(S) /\ unread \in Seq(S)
    /\ Len(stream) = start + Len(buffer) + Len(unread)
    /\ \A i \in 1 .. Len(unread) : unread[i] = stream[start + Len(buffer) + i]
    /\ \A i \in 1 .. Len(buffer) : buffer[i] = stream[start + i]

Joining(S, stream, start, buffer, chunk) ==
    /\ chunk \in Seq(S) /\ buffer \o chunk \in Seq(S)
    /\ Len(buffer \o chunk) = Len(buffer) + Len(chunk)
    /\ start + Len(buffer) + Len(chunk) <= Len(stream)
    /\ \A i \in 1 .. Len(buffer) + Len(chunk) : (buffer \o chunk)[i] = stream[start + i]

\* A chunk read behind what is left of the ones before it.
LEMMA ChunkJoined ==
  ASSUME NEW S, NEW stream, NEW unread, NEW buffer, NEW start,
         Ending(S, stream, start, buffer, unread), NEW n \in 1 .. Len(unread)
  PROVE  /\ Len(SubSeq(unread, 1, n)) = n
         /\ Joining(S, stream, start, buffer, SubSeq(unread, 1, n))
<1>0. /\ stream \in Seq(S) /\ start \in Nat /\ buffer \in Seq(S) /\ unread \in Seq(S)
      /\ Len(stream) = start + Len(buffer) + Len(unread)
      /\ \A i \in 1 .. Len(unread) : unread[i] = stream[start + Len(buffer) + i]
      /\ \A i \in 1 .. Len(buffer) : buffer[i] = stream[start + i]
  BY DEF Ending
<1>1. PICK chunk \in Seq(S) : /\ chunk = SubSeq(unread, 1, n) /\ Len(chunk) = n
                              /\ \A i \in 1 .. n : chunk[i] = unread[i]
  <2>1. /\ SubSeq(unread, 1, n) \in Seq(S) /\ Len(SubSeq(unread, 1, n)) = n
        /\ \A i \in 1 .. n : SubSeq(unread, 1, n)[i] = unread[i]
    BY <1>0
  <2> QED BY <2>1, Zenon
<1>2. PICK whole \in Seq(S) :
        /\ whole = buffer \o chunk /\ Len(whole) = Len(buffer) + n
        /\ \A i \in 1 .. Len(buffer) + n :
                whole[i] = IF i <= Len(buffer) THEN buffer[i] ELSE chunk[i - Len(buffer)]
  <2>1. /\ buffer \o chunk \in Seq(S) /\ Len(buffer \o chunk) = Len(buffer) + Len(chunk)
        /\ \A i \in 1 .. Len(buffer) + Len(chunk) :
              (buffer \o chunk)[i] = IF i <= Len(buffer) THEN buffer[i] ELSE chunk[i - Len(buffer)]
    BY <1>0, ConcatProperties
  <2> QED BY <1>1, <2>1, Zenon
<1>3. Len(buffer) \in Nat /\ Len(unread) \in Nat /\ n \in Nat /\ n <= Len(unread)
  BY <1>0
<1>4. ASSUME NEW i \in 1 .. Len(buffer) + n PROVE whole[i] = stream[start + i]
  <2>1. CASE i <= Len(buffer)
    BY <1>0, <1>2, <1>3, <2>1
  <2>2. CASE i > Len(buffer)
    <3>1. PICK j \in 1 .. n : j = i - Len(buffer)
      <4>1. i - Len(buffer) \in 1 .. n
        BY <1>3, <2>2
      <4> QED BY ONLY <4>1
    <3>2. whole[i] = chunk[j] /\ chunk[j] = unread[j] /\ j \in 1 .. Len(unread)
      <4>1. ~ (i <= Len(buffer)) /\ j \in 1 .. Len(unread)
        BY ONLY <1>3, <2>2, i \in 1 .. Len(buffer) + n, j \in 1 .. n
      <4>2. whole[i] = chunk[j]
        BY <1>2, <3>1, <4>1
      <4>3. chunk[j] = unread[j]
        BY <1>1
      <4> QED BY <4>1, <4>2, <4>3
    <3>3. unread[j] = stream[start + Len(buffer) + j]
      BY <1>0, <3>2
    <3>4. start + Len(buffer) + j = start + i
      BY <1>0, <1>3, <3>1
    <3> QED BY <3>2, <3>3, <3>4
  <2> QED BY <1>3, <2>1, <2>2
<1> QED BY <1>0, <1>1, <1>2, <1>3, <1>4 DEF Joining

LEMMA Parity ==
  \A n \in Nat : /\ n \div 2 \in Nat /\ n % 2 \in {0, 1} /\ n = 2 * (n \div 2) + (n % 2)
OBVIOUS

\* A buffer that begins with frame p + 1 holds m frames and perhaps half of one more.
LEMMA ChunkDecoded ==
  ASSUME NEW S, NEW frames \in Seq(S), NEW whole \in Seq(S), NEW p \in Nat,
         2 * p + Len(whole) <= 2 * Len(frames),
         \A i \in 1 .. Len(whole) : whole[i] = HalvesOf(frames)[2 * p + i]
  PROVE  LET m == Len(whole) \div 2
         IN  /\ m \in Nat /\ p + m <= Len(frames)
             /\ Decodable(whole) \in Seq(S) /\ Len(Decodable(whole)) = m
             /\ \A k \in 1 .. m : Decodable(whole)[k] = frames[p + k]
             /\ Remainder(whole) \in Seq(S) /\ Len(Remainder(whole)) = Len(whole) % 2
             /\ \A i \in 1 .. Len(Remainder(whole)) :
                      Remainder(whole)[i] = HalvesOf(frames)[2 * (p + m) + i]
             /\ whole # <<>> => Head(whole) = frames[p + 1] /\ p + 1 <= Len(frames)
<1> DEFINE l == Len(whole)
           m == l \div 2
           L == Len(frames)
<1>1. /\ l \in Nat /\ m \in Nat /\ L \in Nat /\ l % 2 \in {0, 1} /\ l = 2 * m + (l % 2)
      /\ 2 * p + l <= 2 * L
  BY Parity
<1>2. \A i \in 1 .. l : whole[i] \in S /\ whole[i] = HalvesOf(frames)[2 * p + i]
  OBVIOUS
<1>3. /\ \A k \in 1 .. 2 * L : HalvesOf(frames)[k] = frames[(k + 1) \div 2]
      /\ \A k \in 1 .. L : HalvesOf(frames)[2 * k] = frames[k]
  BY HalvesOfFrames
<1>4. Decodable(whole) = [k \in 1 .. m |-> whole[2 * k]]
  BY DEF Decodable
<1>5. Remainder(whole) = SubSeq(whole, 2 * m + 1, l)
  BY DEF Remainder
<1>6. whole # <<>> => l > 0 /\ Head(whole) = whole[1]
  OBVIOUS
<1> HIDE DEF l, m, L
<1>7. p + m <= L
  BY ONLY <1>1, p \in Nat
<1>8. \A k \in 1 .. m : 2 * k \in 1 .. l /\ p + k \in 1 .. L /\ 2 * p + 2 * k = 2 * (p + k)
  BY ONLY <1>1, p \in Nat
<1>9. \A k \in 1 .. m : whole[2 * k] \in S /\ whole[2 * k] = frames[p + k]
  <2> TAKE k \in 1 .. m
  <2>1. whole[2 * k] \in S /\ whole[2 * k] = HalvesOf(frames)[2 * p + 2 * k]
    BY <1>2, <1>8
  <2>2. HalvesOf(frames)[2 * p + 2 * k] = frames[p + k]
    BY <1>3, <1>8
  <2> QED BY <2>1, <2>2
<1>10. Decodable(whole) \in Seq(S) /\ Len(Decodable(whole)) = m
  <2> DEFINE at(k) == whole[2 * k]
  <2>1. \A k \in 1 .. m : at(k) \in S
    BY <1>9
  <2>2. Decodable(whole) = [k \in 1 .. m |-> at(k)]
    BY <1>4
  <2> HIDE DEF at
  <2> QED BY ONLY <1>1, <2>1, <2>2
<1>11. \A k \in 1 .. m : Decodable(whole)[k] = frames[p + k]
  BY <1>4, <1>9
<1>12. /\ Remainder(whole) \in Seq(S) /\ Len(Remainder(whole)) = l % 2
       /\ \A i \in 1 .. l % 2 : Remainder(whole)[i] = whole[2 * m + i]
  <2>1. /\ 2 * m + 1 \in Int /\ l \in Int /\ l - (2 * m + 1) + 1 = l % 2
        /\ \A i \in 2 * m + 1 .. l : i \in 1 .. l
    BY ONLY <1>1
  <2>2. \A i \in 2 * m + 1 .. l : whole[i] \in S
    BY <1>2, <2>1
  <2>3. PICK a \in Int : a = 2 * m + 1
    BY <2>1
  <2>4. /\ SubSeq(whole, a, l) \in Seq(S)
        /\ Len(SubSeq(whole, a, l)) = IF a <= l THEN l - a + 1 ELSE 0
        /\ \A i \in 1 .. l - a + 1 : SubSeq(whole, a, l)[i] = whole[a + i - 1]
    <3>1. a \in Int /\ l \in Int /\ \A i \in a .. l : whole[i] \in S
      BY <2>1, <2>2, <2>3
    <3> QED BY ONLY <3>1, SubSeqProperties
  <2>5. Len(SubSeq(whole, a, l)) = l % 2
    BY ONLY <1>1, <2>3, <2>4
  <2>6. \A i \in 1 .. l % 2 : i \in 1 .. l - a + 1 /\ a + i - 1 = 2 * m + i
    BY ONLY <1>1, <2>3
  <2>7. \A i \in 1 .. l % 2 : SubSeq(whole, a, l)[i] = whole[2 * m + i]
    BY <2>4, <2>6, Zenon
  <2> QED BY <1>5, <2>3, <2>4, <2>5, <2>7, Zenon
<1>13. \A i \in 1 .. l % 2 : Remainder(whole)[i] = HalvesOf(frames)[2 * (p + m) + i]
  <2>1. \A i \in 1 .. l % 2 : 2 * m + i \in 1 .. l /\ 2 * p + (2 * m + i) = 2 * (p + m) + i
    BY ONLY <1>1, p \in Nat
  <2> QED BY <1>2, <1>12, <2>1, Zenon
<1>14. whole # <<>> => Head(whole) = frames[p + 1] /\ p + 1 <= L
  <2> SUFFICES ASSUME whole # <<>> PROVE Head(whole) = frames[p + 1] /\ p + 1 <= L
    OBVIOUS
  <2>1. 1 \in 1 .. l /\ 2 * p + 1 \in 1 .. 2 * L /\ p + 1 <= L /\ p + 1 \in Nat \ {0}
    BY ONLY <1>1, <1>6, whole # <<>>, p \in Nat
  <2>2. (2 * p + 1 + 1) \div 2 = p + 1
    BY ONLY <2>1, p \in Nat, HalfOf, 2 * p + 1 + 1 = 2 * (p + 1)
  <2>3. whole[1] = HalvesOf(frames)[2 * p + 1]
    BY <1>2, <2>1
  <2> QED BY <1>3, <1>6, <2>1, <2>2, <2>3
<1> QED BY <1>1, <1>7, <1>10, <1>11, <1>12, <1>13, <1>14 DEF l, m, L

-----------------------------------------------------------------------------
(***************************************************************************)
(* For the proxy, what the drivers and the server write is bytes.          *)
(***************************************************************************)

Bridge == INSTANCE RecordingTcpProxyProofs WITH
    NewRecorder  <- NewPostgresRecorder,
    OnClientData <- onClientData,
    OnServerData <- onServerData,
    Completed    <- completed,
    Drained      <- drain

LEMMA WriteIsEnvironment ==
  ASSUME NEW c \in Connection, NEW d \in {"up", "down"}, NEW bytes \in Seq(Byte),
         Proxy!Write(c, d, bytes)
  PROVE  Bridge!Next
<1>1. Bridge!Write(c, d, bytes)
  BY DEF Proxy!Write, Bridge!Write
<1>2. Bridge!Environment(c)
  BY <1>1 DEF Bridge!Environment, Bridge!Direction
<1> QED BY <1>2 DEF Bridge!Next

LEMMA EndIsEnvironment ==
  ASSUME NEW c \in Connection, Proxy!End(c, "up")
  PROVE  Bridge!Next
<1>1. Bridge!End(c, "up")
  BY DEF Proxy!End, Bridge!End
<1>2. Bridge!Environment(c)
  BY <1>1 DEF Bridge!Environment, Bridge!Direction
<1> QED BY <1>2 DEF Bridge!Next

LEMMA TakeIsEnvironment ==
  ASSUME NEW c \in Connection, NEW d \in {"up", "down"}, Proxy!Take(c, d)
  PROVE  Bridge!Next
<1>1. Bridge!Take(c, d)
  BY Zenon DEF Proxy!Take, Bridge!Take
<1>2. Bridge!Environment(c)
  BY <1>1 DEF Bridge!Environment, Bridge!Direction
<1> QED BY <1>2 DEF Bridge!Next

LEMMA HandlerIsHandler ==
  ASSUME NEW c \in Connection, Proxy!Proxy(c)
  PROVE  Bridge!Next
<1>1. ASSUME Proxy!ClientData(c) PROVE Bridge!ClientData(c)
  BY <1>1, Zenon DEF Proxy!ClientData, Bridge!ClientData, Proxy!Forward, Bridge!Forward
<1>2. ASSUME Proxy!UpstreamData(c) PROVE Bridge!UpstreamData(c)
  BY <1>2, Zenon DEF Proxy!UpstreamData, Bridge!UpstreamData, Proxy!Forward, Bridge!Forward
<1>3. ASSUME Proxy!close(c) PROVE Bridge!close(c)
  BY <1>3 DEF Proxy!close, Bridge!close, Proxy!Direction, Bridge!Direction
<1>4. ASSUME Proxy!OnEnd(c) PROVE Bridge!OnEnd(c)
  BY <1>3, <1>4 DEF Proxy!OnEnd, Bridge!OnEnd, Proxy!Direction, Bridge!Direction
<1>5. ASSUME Proxy!OnError(c) PROVE Bridge!OnError(c)
  BY <1>3, <1>5 DEF Proxy!OnError, Bridge!OnError
<1>6. Bridge!Proxy(c)
  BY <1>1, <1>2, <1>4, <1>5 DEF Proxy!Proxy, Bridge!Proxy
<1> QED BY <1>6 DEF Bridge!Next

-----------------------------------------------------------------------------

LEMMA Joined ==
  ASSUME NEW S, NEW s \in Seq(S), NEW t \in Seq(S)
  PROVE  s \o t \in Seq(S)
OBVIOUS

LEMMA ShortSeq ==
  ASSUME NEW S, NEW a \in S, NEW b \in S
  PROVE  <<>> \in Seq(S) /\ <<a>> \in Seq(S) /\ <<a, b>> \in Seq(S)
OBVIOUS

LEMMA FramesAreTyped ==
  ASSUME NEW trip \in RoundTrip
  PROVE  FramesOf(trip) \in Seq(Frame)
<1>1. CASE trip \in [kind : {"simple"}, sql : Sql]
  <2>1. [type |-> "Q", sql |-> trip.sql] \in Frame
    BY <1>1 DEF Frame
  <2>2. FramesOf(trip) = <<[type |-> "Q", sql |-> trip.sql]>>
    BY <1>1 DEF FramesOf
  <2> QED BY <2>1, <2>2, ShortSeq
<1>2. CASE trip \in [kind : {"close"}, name : StatementName]
  <2>1. [type |-> "C", name |-> trip.name] \in Frame /\ [type |-> "S"] \in Frame
    BY <1>2 DEF Frame
  <2>2. FramesOf(trip) = <<[type |-> "C", name |-> trip.name], [type |-> "S"]>>
    BY <1>2 DEF FramesOf
  <2> QED BY <2>1, <2>2, ShortSeq
<1>3. CASE trip \in [kind : {"extended"}, name : StatementName, sql : Sql, params : Params,
                     parse : BOOLEAN, describe : BOOLEAN]
  <2> DEFINE parse    == IF trip.parse THEN <<[type |-> "P", name |-> trip.name, sql |-> trip.sql]>>
                                       ELSE <<>>
             bind     == <<[type |-> "B", name |-> trip.name, params |-> trip.params]>>
             describe == IF trip.describe THEN <<[type |-> "D"]>> ELSE <<>>
             run      == <<[type |-> "E"], [type |-> "S"]>>
  <2>1. parse \in Seq(Frame)
    <3>1. [type |-> "P", name |-> trip.name, sql |-> trip.sql] \in Frame
      BY <1>3 DEF Frame
    <3> QED BY <3>1, ShortSeq
  <2>2. bind \in Seq(Frame)
    <3>1. [type |-> "B", name |-> trip.name, params |-> trip.params] \in Frame
      BY <1>3 DEF Frame
    <3> QED BY <3>1, ShortSeq
  <2>3. describe \in Seq(Frame) /\ run \in Seq(Frame)
    <3>1. [type |-> "D"] \in Frame /\ [type |-> "E"] \in Frame /\ [type |-> "S"] \in Frame
      BY DEF Frame
    <3> QED BY <3>1, ShortSeq
  <2>4. FramesOf(trip) = parse \o bind \o describe \o run
    BY <1>3 DEF FramesOf
  <2> HIDE DEF parse, bind, describe, run
  <2>5. parse \o bind \in Seq(Frame)
    BY ONLY <2>1, <2>2, Joined
  <2>6. parse \o bind \o describe \in Seq(Frame)
    BY ONLY <2>3, <2>5, Joined
  <2>7. parse \o bind \o describe \o run \in Seq(Frame)
    BY ONLY <2>3, <2>6, Joined
  <2> QED BY <2>4, <2>7
<1> QED BY <1>1, <1>2, <1>3, RoundTripAssumption

\* What the server writes, when it has run the statements so far.
LEMMA AnswersAreTyped ==
  ASSUME Len(executed) \in Nat, NEW sql
  PROVE  /\ Description(sql) \in Seq(ServerFrame) /\ RowFrames(sql) \in Seq(ServerFrame)
         /\ ErrorFrame \in ServerFrame /\ DoneFrame \in ServerFrame /\ ReadyFrame \in ServerFrame
<1>1. ErrorFrame \in ServerFrame /\ DoneFrame \in ServerFrame /\ ReadyFrame \in ServerFrame
  BY DEF ErrorFrame, DoneFrame, ReadyFrame, ServerFrame
<1>2. Description(sql) \in Seq(ServerFrame)
  <2>1. CASE sql \in Reads
    <3>1. [type |-> "T", columns |-> <<sql>>] \in ServerFrame
      BY <2>1, StatementAssumption DEF ServerFrame
    <3> QED BY <2>1, <3>1, ShortSeq DEF Description
  <2> QED BY <2>1 DEF Description
<1>3. RowFrames(sql) \in Seq(ServerFrame)
  <2>1. [type |-> "D", row |-> Len(executed) + 1] \in ServerFrame
    BY DEF ServerFrame
  <2> QED BY <2>1, ShortSeq DEF RowFrames
<1> QED BY <1>1, <1>2, <1>3

LEMMA ReplyIsWrite ==
  ASSUME NEW c \in Connection, NEW frames \in Seq(ServerFrame), Reply(c, frames)
  PROVE  Bridge!Next
<1>1. frames \in Seq(Byte)
  BY SeqMonotonic DEF Byte
<1>2. HalvesOf(frames) \in Seq(Byte)
  BY <1>1, HalvesOfFrames
<1> QED BY <1>2, WriteIsEnvironment DEF Reply

\* Enough of a type for the serial number of the next result to be one.
Executing == \E S : executed \in Seq(S)

LEMMA ServerStepIsStep ==
  ASSUME Executing, NEW c \in Connection, Server(c)
  PROVE  [Bridge!Next]_(Bridge!vars) /\ Executing'
<1>1. PICK S : executed \in Seq(S)
  BY DEF Executing
<1>2. Len(executed) \in Nat
  BY <1>1
<1>3. ASSUME NEW entry, executed' = Append(executed, entry)
      PROVE  Executing'
  <2>1. executed \in Seq(S \union {entry})
    BY <1>1
  <2>2. executed' \in Seq(S \union {entry})
    BY <1>3, <2>1
  <2> QED BY <2>2 DEF Executing
<1>4. ASSUME NEW frames \in Seq(ServerFrame), Reply(c, frames)
      PROVE  Bridge!Next
  BY <1>4, ReplyIsWrite
<1>5. ASSUME executed' = executed PROVE Executing'
  BY <1>5 DEF Executing
<1>6. CASE AnswerTls(c)
  <2>1. PICK accepted \in BOOLEAN :
              Proxy!Write(c, "down", <<[type |-> "ssl", accepted |-> accepted]>>)
    BY <1>6 DEF AnswerTls
  <2>2. [type |-> "ssl", accepted |-> accepted] \in Byte
    BY DEF Byte, ServerFrame
  <2>3. <<[type |-> "ssl", accepted |-> accepted]>> \in Seq(Byte)
    BY <2>2, ShortSeq
  <2> QED BY <1>5, <1>6, <2>1, <2>3, WriteIsEnvironment, Zenon DEF AnswerTls
<1>7. CASE AnswerSync(c)
  <2>1. <<ReadyFrame>> \in Seq(ServerFrame)
    BY <1>2, AnswersAreTyped, ShortSeq
  <2> QED BY <1>4, <1>5, <1>7, <2>1, Zenon DEF AnswerSync
<1>8. CASE AnswerQuery(c)
  <2> DEFINE sql == Statement(c)[1]
  <2>1. Executing'
    BY <1>3, <1>8 DEF AnswerQuery, Executed
  <2>2. /\ Description(sql) \o RowFrames(sql) \o <<DoneFrame, ReadyFrame>> \in Seq(ServerFrame)
        /\ <<ErrorFrame, ReadyFrame>> \in Seq(ServerFrame)
    <3>1. <<DoneFrame, ReadyFrame>> \in Seq(ServerFrame) /\ <<ErrorFrame, ReadyFrame>> \in Seq(ServerFrame)
      BY <1>2, AnswersAreTyped, ShortSeq
    <3>2. Description(sql) \in Seq(ServerFrame) /\ RowFrames(sql) \in Seq(ServerFrame)
      BY <1>2, AnswersAreTyped
    <3>3. Description(sql) \o RowFrames(sql) \in Seq(ServerFrame)
      BY ONLY <3>2, Joined
    <3> QED BY ONLY <3>1, <3>3, Joined
  <2>3. \/ Reply(c, Description(sql) \o RowFrames(sql) \o <<DoneFrame, ReadyFrame>>)
        \/ Reply(c, <<ErrorFrame, ReadyFrame>>)
    BY <1>8, Zenon DEF AnswerQuery
  <2> QED BY <1>4, <2>1, <2>2, <2>3, Zenon
<1>9. CASE Skip(c)
  BY <1>5, <1>9 DEF Skip, proxyVars, Bridge!vars
<1>10. CASE AnswerParse(c)
  <2>1. <<ErrorFrame>> \in Seq(ServerFrame)
    BY <1>2, AnswersAreTyped, ShortSeq
  <2>2. CASE UNCHANGED <<proxyVars, skipping, executed>>
    BY <1>5, <2>2 DEF proxyVars, Bridge!vars
  <2>3. CASE Reply(c, <<ErrorFrame>>) /\ Rejected(c)
    BY <1>3, <1>4, <2>1, <2>3, Zenon DEF Rejected
  <2> QED BY <1>10, <2>2, <2>3 DEF AnswerParse
<1>11. CASE AnswerDescribe(c)
  BY <1>2, <1>4, <1>5, <1>11, AnswersAreTyped DEF AnswerDescribe
<1>12. CASE AnswerExecute(c)
  <2> DEFINE sql == Statement(c)[1]
  <2>1. Executing'
    BY <1>3, <1>12 DEF AnswerExecute, Executed
  <2>2. /\ RowFrames(sql) \o <<DoneFrame>> \in Seq(ServerFrame)
        /\ RowFrames(sql) \o <<ErrorFrame>> \in Seq(ServerFrame)
    <3>1. <<DoneFrame>> \in Seq(ServerFrame) /\ <<ErrorFrame>> \in Seq(ServerFrame)
      BY <1>2, AnswersAreTyped, ShortSeq
    <3>2. RowFrames(sql) \in Seq(ServerFrame)
      BY <1>2, AnswersAreTyped
    <3> QED BY ONLY <3>1, <3>2, Joined
  <2>3. Reply(c, RowFrames(sql) \o <<DoneFrame>>) \/ Reply(c, RowFrames(sql) \o <<ErrorFrame>>)
    BY <1>12, Zenon DEF AnswerExecute
  <2> QED BY <1>4, <2>1, <2>2, <2>3, Zenon
<1> QED BY <1>6, <1>7, <1>8, <1>9, <1>10, <1>11, <1>12 DEF Server

LEMMA StepIsStep ==
  ASSUME Executing, [Next]_vars
  PROVE  [Bridge!Next]_(Bridge!vars) /\ Executing'
<1>1. ASSUME UNCHANGED serverVars PROVE Executing'
  BY <1>1 DEF serverVars, Executing
<1>2. ASSUME NEW frame \in Frame PROVE Halves(frame) \in Seq(Byte)
  BY <1>2, ShortSeq DEF Halves, Byte
<1>3. ASSUME NEW c \in Connection, RequestTls(c) \/ Startup(c)
      PROVE  Bridge!Next /\ Executing'
  <2>1. /\ Halves([type |-> "SSLRequest"]) \in Seq(Byte)
        /\ Halves([type |-> "Startup"]) \in Seq(Byte)
    BY <1>2 DEF Frame
  <2> QED BY <1>1, <1>3, <2>1, WriteIsEnvironment DEF RequestTls, Startup
<1>4. ASSUME NEW c \in Connection, NEW trip \in RoundTrip, Ask(c, trip)
      PROVE  Bridge!Next /\ Executing'
  <2>1. FramesOf(trip) \in Seq(Byte)
    BY FramesAreTyped, SeqMonotonic DEF Byte
  <2>2. HalvesOf(FramesOf(trip)) \in Seq(Byte)
    BY <2>1, HalvesOfFrames
  <2> QED BY <1>1, <1>4, <2>2, WriteIsEnvironment DEF Ask
<1>5. ASSUME NEW c \in Connection, Terminate(c)
      PROVE  Bridge!Next /\ Executing'
  BY <1>1, <1>5, EndIsEnvironment DEF Terminate
<1>6. ASSUME NEW c \in Connection, Relay(c)
      PROVE  Bridge!Next /\ Executing'
  BY <1>1, <1>6, TakeIsEnvironment, HandlerIsHandler DEF Relay
<1>7. CASE UNCHANGED vars
  BY <1>1, <1>7 DEF vars, proxyVars, serverVars, Bridge!vars
<1> QED BY <1>3, <1>4, <1>5, <1>6, <1>7, ServerStepIsStep DEF Next

\* Recording Postgres implements the proxy, as recording Redis does: nothing that the
\* drivers, the server or the recorder do is more than the proxy's theorem allows for.
THEOREM ImplementsProxy == Spec => Bridge!Spec
<1>1. Init => Bridge!Init /\ Executing
  BY DEF Init, Proxy!Init, Proxy!PerDirection, Proxy!Direction,
         Bridge!Init, Bridge!PerDirection, Bridge!Direction, Executing
<1> QED BY <1>1, StepIsStep, PTL DEF Spec, Bridge!Spec

-----------------------------------------------------------------------------
(***************************************************************************)
(* What the proxy's own invariant says of the four streams.                *)
(***************************************************************************)

Flow == [Connection -> [{"up", "down"} -> Seq(Byte)]]

Streamed(c, d) ==
    /\ bridge[c] \in {"open", "closed"}
    /\ bridge[c] = "closed" => wire[c][d] = <<>> /\ queue[c][d] = <<>>
    /\ Done(c, d) \in Nat
    /\ Len(sent[c][d]) = Done(c, d) + Len(wire[c][d])
    /\ \A i \in 1 .. Len(wire[c][d]) : wire[c][d][i] = sent[c][d][Done(c, d) + i]
    /\ Len(got[c][d]) <= Done(c, d)
    /\ \A i \in 1 .. Len(got[c][d]) : got[c][d][i] = sent[c][d][i]

Relayed ==
    /\ wire \in Flow /\ queue \in Flow /\ got \in Flow /\ sent \in Flow
    /\ bridge \in [Connection -> {"open", "closed"}]
    /\ \A c \in Connection, d \in {"up", "down"} : Streamed(c, d)

LEMMA BridgeIsRelayed == Bridge!Inv => Relayed
<1> SUFFICES ASSUME Bridge!Inv PROVE Relayed
  OBVIOUS
<1>1. wire \in Flow /\ queue \in Flow /\ got \in Flow /\ sent \in Flow
      /\ bridge \in [Connection -> {"open", "closed"}]
  BY DEF Bridge!Inv, Bridge!IInv, Bridge!TypeInv, Bridge!Flow, Bridge!Direction, Flow
<1>2. \A c \in Connection, d \in {"up", "down"} : Bridge!Streamed(c, d)
  BY Bridge!InvIsStreamed DEF Bridge!Direction
<1>3. \A c \in Connection, d \in {"up", "down"} : Streamed(c, d)
  BY <1>2, Zenon DEF Bridge!Streamed, Bridge!Done, Streamed, Done
<1> QED BY <1>1, <1>3 DEF Relayed

\* How far each stream has got, on either side of the proxy.
Counts(c) ==
    /\ Len(got[c]["up"]) \in Nat /\ Done(c, "up") \in Nat /\ Len(sent[c]["up"]) \in Nat
    /\ Len(got[c]["up"]) <= Done(c, "up") /\ Done(c, "up") <= Len(sent[c]["up"])
    /\ Len(got[c]["down"]) \in Nat /\ Done(c, "down") \in Nat /\ Len(sent[c]["down"]) \in Nat
    /\ Len(got[c]["down"]) <= Done(c, "down") /\ Done(c, "down") <= Len(sent[c]["down"])

LEMMA StreamsCount ==
  ASSUME Relayed, NEW c \in Connection
  PROVE  Counts(c)
<1>1. \A d \in {"up", "down"} :
        /\ Len(got[c][d]) \in Nat /\ Len(wire[c][d]) \in Nat /\ Len(sent[c][d]) \in Nat
        /\ Done(c, d) \in Nat /\ Len(got[c][d]) <= Done(c, d)
        /\ Len(sent[c][d]) = Done(c, d) + Len(wire[c][d])
  BY DEF Relayed, Streamed, Flow
<1>2. \A a, b, e \in Nat : a = b + e => b <= a
  OBVIOUS
<1> QED BY <1>1, <1>2, Zenon DEF Counts

LEMMA HalfGrows == \A a, b \in Nat : a <= b => a \div 2 \in Nat /\ b \div 2 \in Nat /\ a \div 2 <= b \div 2
OBVIOUS

-----------------------------------------------------------------------------
(***************************************************************************)
(* The path of notes grows by a frame at a time.                           *)
(***************************************************************************)

Calls == Seq(Sql \X Params)

LEMMA BlankType == Blank \in Note
<1>1. [name \in StatementName |-> Unparsed] \in Prepared
  BY DEF Prepared
<1> QED BY <1>1, StatementAssumption DEF Blank, Note, Starting

LEMMA AfterType ==
  ASSUME NEW n \in Note, NEW frame \in Frame
  PROVE  After(n, frame) \in Note
<1>1. /\ n.nth \in Nat /\ n.ends \in Nat /\ n.prepared \in Prepared
      /\ n.sql \in Sql \union {NoSql} /\ n.params \in Params
  BY DEF Note
<1>2. frame.type \in Starting \union Ends \union {"P", "B", "D", "E", "C"}
  BY DEF Frame, Starting, Ends
<1>3. frame.type = "Q" => frame.sql \in Sql
  BY DEF Frame
<1>4. frame.type = "P" => frame.name \in StatementName /\ frame.sql \in Sql
  BY DEF Frame
<1>5. frame.type = "B" => frame.name \in StatementName /\ frame.params \in Params
  BY DEF Frame
<1>6. /\ IF Begins(n.type, frame) THEN n.nth + 1 \in Nat ELSE n.nth \in Nat
      /\ IF frame.type \in Ends THEN n.ends + 1 \in Nat ELSE n.ends \in Nat
  BY <1>1
<1>7. (IF frame.type = "P" THEN [n.prepared EXCEPT ![frame.name] = frame.sql] ELSE n.prepared)
        \in Prepared
  BY <1>1, <1>4 DEF Prepared
<1>8. (IF frame.type \in {"P", "Q"} THEN frame.sql
       ELSE IF frame.type = "B" /\ n.prepared[frame.name] # Unparsed
            THEN n.prepared[frame.name]
       ELSE n.sql) \in Sql \union {NoSql}
  BY <1>1, <1>3, <1>4, <1>5 DEF Prepared
<1>9. (IF frame.type = "Q" THEN NoParams
       ELSE IF frame.type = "B" THEN frame.params ELSE n.params) \in Params
  BY <1>1, <1>5, StatementAssumption
<1> QED BY <1>2, <1>6, <1>7, <1>8, <1>9 DEF After, Note

LEMMA OneMore ==
  ASSUME NEW S, NEW frames \in Seq(S), NEW frame \in S
  PROVE  /\ Append(frames, frame) \in Seq(S) /\ Len(frames) \in Nat
         /\ Len(Append(frames, frame)) = Len(frames) + 1
         /\ \A i \in 1 .. Len(frames) : Append(frames, frame)[i] = frames[i]
         /\ Append(frames, frame)[Len(frames) + 1] = frame
OBVIOUS

LEMMA OneMoreFrame ==
  ASSUME NEW frames \in Seq(Frame), NEW note, NEW runs, Leads(frames, note, runs),
         NEW frame \in Frame, Follows(note[Len(frames)].type, frame.type),
         Meant(After(note[Len(frames)], frame), runs)
  PROVE  \E longer :
              /\ Leads(Append(frames, frame), longer, runs)
              /\ \A i \in 0 .. Len(frames) : longer[i] = note[i]
              /\ longer[Len(frames) + 1] = After(note[Len(frames)], frame)
<1> DEFINE N      == Len(frames)
           last   == After(note[N], frame)
           more   == Append(frames, frame)
           longer == [i \in 0 .. N + 1 |-> IF i = N + 1 THEN last ELSE note[i]]
<1>1. /\ N \in Nat /\ Len(more) = N + 1 /\ more[N + 1] = frame
      /\ \A i \in 1 .. N : more[i] = frames[i]
  BY OneMore
<1>2. /\ note[0] = Blank
      /\ \A i \in 1 .. N :
            note[i] = After(note[i - 1], frames[i]) /\ Follows(note[i - 1].type, frames[i].type)
      /\ \A i \in 0 .. N : note[i] \in Note /\ Meant(note[i], runs)
      /\ \A i, j \in 0 .. N : i <= j => note[i].nth <= note[j].nth /\ note[i].ends <= note[j].ends
  BY DEF Leads
<1>3. N \in 0 .. N /\ N + 1 \in 0 .. N + 1 /\ N + 1 # N /\ (N + 1) - 1 = N
      /\ \A i \in 0 .. N : i \in 0 .. N + 1 /\ i # N + 1
  BY <1>1, SMTT(30)
<1>4. last \in Note
  BY <1>2, <1>3, AfterType, ZenonT(40)
<1>5. longer[N + 1] = last /\ \A i \in 0 .. N : longer[i] = note[i]
  BY <1>3, ZenonT(40)
<1>6. note[N].nth <= last.nth /\ note[N].ends <= last.ends
  <2>1. note[N].nth \in Nat /\ note[N].ends \in Nat
    BY <1>2, <1>3, Zenon DEF Note
  <2> QED BY <2>1, SMTT(30) DEF After
<1>7. Follows(note[N].type, frame.type) /\ Meant(last, runs)
  OBVIOUS
<1> HIDE DEF longer, last, more, N
<1>8. \A i \in 1 .. N + 1 :
        longer[i] = After(longer[i - 1], more[i]) /\ Follows(longer[i - 1].type, more[i].type)
  <2> TAKE i \in 1 .. N + 1
  <2>1. CASE i = N + 1
    BY <1>1, <1>3, <1>5, <1>7, <2>1 DEF last
  <2>2. CASE i # N + 1
    <3>1. i \in 1 .. N /\ i \in 0 .. N /\ i - 1 \in 0 .. N
      BY <1>1, <2>2
    <3> QED BY <1>1, <1>2, <1>5, <3>1, Zenon
  <2> QED BY <2>1, <2>2
<1>9. \A i \in 0 .. N + 1 : i = N + 1 \/ i \in 0 .. N
  BY <1>1
<1>10. \A i \in 0 .. N + 1 : longer[i] \in Note /\ Meant(longer[i], runs)
  BY <1>2, <1>4, <1>5, <1>7, <1>9
<1>11. \A i, j \in 0 .. N + 1 :
        i <= j => longer[i].nth <= longer[j].nth /\ longer[i].ends <= longer[j].ends
  <2> SUFFICES ASSUME NEW i \in 0 .. N + 1, NEW j \in 0 .. N + 1, i <= j
               PROVE  longer[i].nth <= longer[j].nth /\ longer[i].ends <= longer[j].ends
    OBVIOUS
  <2>1. CASE j \in 0 .. N
    <3>1. i \in 0 .. N
      BY <1>1, <2>1
    <3> QED BY <1>2, <1>5, <2>1, <3>1
  <2>2. CASE j = N + 1 /\ i = N + 1
    <3>1. longer[i].nth \in Nat /\ longer[i].ends \in Nat
      BY <1>10 DEF Note
    <3> QED BY <2>2, <3>1
  <2>3. CASE j = N + 1 /\ i \in 0 .. N
    <3>1. /\ note[i].nth <= note[N].nth /\ note[i].ends <= note[N].ends
      BY <1>2, <1>3, <2>3
    <3>2. /\ note[i].nth \in Nat /\ note[i].ends \in Nat /\ note[N].nth \in Nat
          /\ note[N].ends \in Nat /\ last.nth \in Nat /\ last.ends \in Nat
      BY <1>2, <1>3, <1>4, <2>3, Zenon DEF Note
    <3>3. note[i].nth <= last.nth /\ note[i].ends <= last.ends
      BY ONLY <1>6, <3>1, <3>2, SMTT(30)
    <3> QED BY <1>5, <2>3, <3>3
  <2> QED BY <1>9, <2>1, <2>2, <2>3
<1>12. longer[0] = Blank
  <2>1. 0 \in 0 .. N
    BY <1>1
  <2> QED BY <1>2, <1>5, <2>1
<1>13. Leads(more, longer, runs)
  BY <1>1, <1>8, <1>10, <1>11, <1>12 DEF Leads
<1> QED BY <1>5, <1>13 DEF N, last, more

LEMMA MoreMeant ==
  ASSUME NEW runs \in Calls, NEW more \in Calls, NEW n \in Note, Meant(n, runs)
  PROVE  Meant(n, runs \o more)
<1>1. /\ Len(runs) \in Nat /\ Len(runs \o more) \in Nat /\ Len(runs) <= Len(runs \o more)
      /\ \A i \in 1 .. Len(runs) : i \in 1 .. Len(runs \o more) /\ (runs \o more)[i] = runs[i]
  BY DEF Calls
<1>2. n.nth \in Nat /\ n.nth <= Len(runs)
  BY DEF Note, Meant
<1>3. n.nth = 0 \/ n.nth \in 1 .. Len(runs)
  BY <1>1, <1>2
<1> QED BY <1>1, <1>2, <1>3 DEF Meant

LEMMA MoreRuns ==
  ASSUME NEW frames, NEW note, NEW runs \in Calls, NEW more \in Calls,
         Leads(frames, note, runs)
  PROVE  Leads(frames, note, runs \o more)
BY MoreMeant DEF Leads

-----------------------------------------------------------------------------
(***************************************************************************)
(* A driver asks: the frames of a round trip behind those of the others.   *)
(***************************************************************************)

\* Frames behind those of `base`, all of them for one statement.
Begun(base, start, frames, note, runs) ==
    /\ frames \in Seq(Frame) /\ Leads(frames, note, runs) /\ Len(base) <= Len(frames)
    /\ \A i \in 0 .. Len(base) : note[i] = start[i]
    /\ \A i, j \in Len(base) + 1 .. Len(frames) : note[i].nth = note[j].nth

LEMMA Continued ==
  ASSUME NEW base \in Seq(Frame), NEW start, NEW runs, NEW frames, NEW note,
         Begun(base, start, frames, note, runs), NEW frame \in Frame,
         Follows(note[Len(frames)].type, frame.type),
         Meant(After(note[Len(frames)], frame), runs),
         Len(frames) = Len(base) \/ ~ Begins(note[Len(frames)].type, frame)
  PROVE  \E longer :
              /\ Begun(base, start, Append(frames, frame), longer, runs)
              /\ longer[Len(Append(frames, frame))] = After(note[Len(frames)], frame)
<1> DEFINE N    == Len(frames)
           B    == Len(base)
           last == After(note[N], frame)
<1>1. /\ frames \in Seq(Frame) /\ N \in Nat /\ B \in Nat /\ B <= N
      /\ Append(frames, frame) \in Seq(Frame) /\ Len(Append(frames, frame)) = N + 1
  BY DEF Begun
<1>2. PICK longer :
        /\ Leads(Append(frames, frame), longer, runs)
        /\ \A i \in 0 .. N : longer[i] = note[i]
        /\ longer[N + 1] = last
  BY <1>1, OneMoreFrame DEF Begun
<1>3. \A i \in 0 .. B : note[i] = start[i]
  BY DEF Begun
<1>4. \A i, j \in B + 1 .. N : note[i].nth = note[j].nth
  BY DEF Begun
<1>5. N # B => last.nth = note[N].nth
  BY DEF After
<1> HIDE DEF N, B, last
<1>6. \A i \in 0 .. B : i \in 0 .. N
  BY <1>1
<1>7. \A i \in 0 .. B : longer[i] = start[i]
  BY <1>2, <1>3, <1>6
<1>8. \A i \in B + 1 .. N + 1 : longer[i].nth = last.nth
  <2> TAKE i \in B + 1 .. N + 1
  <2>1. CASE i = N + 1
    BY <1>2, <2>1
  <2>2. CASE i # N + 1
    <3>1. i \in B + 1 .. N /\ N \in B + 1 .. N /\ i \in 0 .. N /\ N # B
      BY <1>1, <2>2
    <3> QED BY <1>2, <1>4, <1>5, <3>1
  <2> QED BY <2>1, <2>2
<1>9. B <= N + 1
  BY <1>1
<1>10. \A i, j \in B + 1 .. N + 1 : longer[i].nth = longer[j].nth
  BY <1>8
<1>11. Begun(base, start, Append(frames, frame), longer, runs)
  BY <1>1, <1>2, <1>7, <1>9, <1>10 DEF Begun, B
<1> QED BY <1>1, <1>2, <1>11 DEF last, N

\* What a note agrees with of the names a driver holds.
Agrees(n, held) == \A name \in StatementName : held[name] # Unparsed => n.prepared[name] = held[name]

LEMMA Appended ==
  ASSUME NEW S, NEW s \in Seq(S), NEW a \in S, NEW b \in S
  PROVE  s \o <<>> = s /\ s \o <<a>> = Append(s, a) /\ s \o <<a, b>> = Append(Append(s, a), b)
OBVIOUS

LEMMA Associate ==
  /\ \A s, t, u \in Seq(Frame) : (s \o t) \o u = s \o (t \o u)
  /\ \A s, t, u \in Seq(ServerFrame) : (s \o t) \o u = s \o (t \o u)
<1>1. ASSUME NEW s \in Seq(Frame), NEW t \in Seq(Frame), NEW u \in Seq(Frame)
      PROVE  (s \o t) \o u = s \o (t \o u)
  BY <1>1, ConcatAssociative
<1>2. ASSUME NEW s \in Seq(ServerFrame), NEW t \in Seq(ServerFrame), NEW u \in Seq(ServerFrame)
      PROVE  (s \o t) \o u = s \o (t \o u)
  BY <1>2, ConcatAssociative
<1> QED BY <1>1, <1>2, Zenon

\* Where a note stands within a round trip: at its statement, the round trip open.
Stands(n, held, runs, ends) ==
    /\ n \in Note /\ Meant(n, runs) /\ Agrees(n, held)
    /\ n.nth = Len(runs) /\ n.ends = ends

\* A frame that neither begins a statement nor tells of one leaves the note there.
LEMMA StillStands ==
  ASSUME NEW n, NEW held, NEW runs \in Calls, NEW ends \in Nat, Stands(n, held, runs, ends),
         NEW frame \in Frame, frame.type \in {"D", "E", "C", "S"}, n.type # "P"
  PROVE  /\ Stands(After(n, frame), held, runs, IF frame.type = "S" THEN ends + 1 ELSE ends)
         /\ After(n, frame).type = frame.type /\ ~ Begins(n.type, frame)
         /\ Meant(After(n, frame), runs)
<1>1. /\ After(n, frame) \in Note /\ Len(runs) \in Nat
  BY AfterType DEF Stands, Calls
<1>2. ~ Begins(n.type, frame)
  BY DEF Begins
<1>3. /\ After(n, frame).type = frame.type /\ After(n, frame).nth = n.nth
      /\ After(n, frame).ends = IF frame.type = "S" THEN n.ends + 1 ELSE n.ends
      /\ After(n, frame).prepared = n.prepared
      /\ After(n, frame).sql = n.sql /\ After(n, frame).params = n.params
  BY <1>2 DEF After, Ends
<1>4. frame.type \notin Starting
  BY DEF Starting
<1>5. Meant(After(n, frame), runs)
  BY <1>3, <1>4 DEF Stands, Meant
<1> QED BY <1>1, <1>2, <1>3, <1>5 DEF Stands, Agrees

\* Somewhere in a round trip behind the frame that gave its statement, or before it.
Within(base, start, frames, note, held, runs, ends) ==
    /\ Begun(base, start, frames, note, runs)
    /\ Len(base) < Len(frames) \/ note[Len(frames)].type \in Ends
    /\ Stands(note[Len(frames)], held, runs, ends) /\ note[Len(frames)].type # "P"

\* A round trip is told with its Sync, or its query.
Told(base, start, frames, note, held, runs, ends) ==
    /\ Within(base, start, frames, note, held, runs, ends)
    /\ Len(base) < Len(frames) /\ note[Len(frames)].type \in Ends

LEMMA MoreFrame ==
  ASSUME NEW base \in Seq(Frame), NEW start, NEW runs \in Calls, NEW frames, NEW note,
         NEW held, NEW ends \in Nat, Within(base, start, frames, note, held, runs, ends),
         NEW frame \in Frame, frame.type \in {"D", "E", "C"},
         Follows(note[Len(frames)].type, frame.type)
  PROVE  \E longer :
              /\ Within(base, start, Append(frames, frame), longer, held, runs, ends)
              /\ longer[Len(Append(frames, frame))].type = frame.type
<1> DEFINE more == Append(frames, frame)
           n    == After(note[Len(frames)], frame)
<1>1. /\ Begun(base, start, frames, note, runs)
      /\ Len(base) < Len(frames) \/ note[Len(frames)].type \in Ends
      /\ Stands(note[Len(frames)], held, runs, ends) /\ note[Len(frames)].type # "P"
  BY DEF Within
<1>2. /\ Stands(n, held, runs, IF frame.type = "S" THEN ends + 1 ELSE ends)
      /\ n.type = frame.type
      /\ ~ Begins(note[Len(frames)].type, frame)
      /\ Meant(n, runs)
  BY <1>1, StillStands, Zenon
<1>3. PICK longer : Begun(base, start, more, longer, runs) /\ longer[Len(more)] = n
  BY <1>1, <1>2, Continued
<1>4. Len(base) < Len(more)
  <2>1. frames \in Seq(Frame) /\ Len(base) <= Len(frames) /\ Len(base) \in Nat
    BY <1>1 DEF Begun
  <2> QED BY <2>1
<1>5. Stands(n, held, runs, ends)
  BY <1>2
<1> QED BY <1>2, <1>3, <1>4, <1>5 DEF Within

LEMMA LastFrame ==
  ASSUME NEW base \in Seq(Frame), NEW start, NEW runs \in Calls, NEW frames, NEW note,
         NEW held, NEW ends \in Nat, Within(base, start, frames, note, held, runs, ends),
         NEW frame \in Frame, frame.type = "S",
         Follows(note[Len(frames)].type, frame.type)
  PROVE  \E longer :
              Told(base, start, Append(frames, frame), longer, held, runs, ends + 1)
<1> DEFINE more == Append(frames, frame)
           n    == After(note[Len(frames)], frame)
<1>1. /\ Begun(base, start, frames, note, runs)
      /\ Len(base) < Len(frames) \/ note[Len(frames)].type \in Ends
      /\ Stands(note[Len(frames)], held, runs, ends) /\ note[Len(frames)].type # "P"
  BY DEF Within
<1>2. /\ Stands(n, held, runs, IF frame.type = "S" THEN ends + 1 ELSE ends)
      /\ n.type = frame.type
      /\ ~ Begins(note[Len(frames)].type, frame)
      /\ Meant(n, runs)
  BY <1>1, StillStands
<1>3. PICK longer : Begun(base, start, more, longer, runs) /\ longer[Len(more)] = n
  BY <1>1, <1>2, Continued
<1>4. Len(base) < Len(more)
  <2>1. frames \in Seq(Frame) /\ Len(base) <= Len(frames) /\ Len(base) \in Nat
    BY <1>1 DEF Begun
  <2> QED BY <2>1
<1>5. Stands(n, held, runs, ends + 1)
  BY <1>2
<1> QED BY <1>2, <1>3, <1>4, <1>5 DEF Told, Within, Ends

-----------------------------------------------------------------------------

\* A driver between two round trips.
Between(base, start, held, runs, ends) ==
    /\ base \in Seq(Frame) /\ runs \in Calls /\ ends \in Nat /\ held \in Prepared
    /\ Leads(base, start, runs) /\ start[Len(base)].type \in Ends
    /\ Stands(start[Len(base)], held, runs, ends)

LEMMA BetweenBegins ==
  ASSUME NEW base, NEW start, NEW held, NEW runs, NEW ends,
         Between(base, start, held, runs, ends), NEW more \in Calls
  PROVE  /\ Begun(base, start, base, start, runs \o more)
         /\ runs \o more \in Calls /\ Len(runs \o more) = Len(runs) + Len(more)
         /\ Meant(start[Len(base)], runs \o more) /\ Len(runs) \in Nat
         /\ \A i \in 1 .. Len(more) : (runs \o more)[Len(runs) + i] = more[i]
<1>1. runs \in Calls /\ base \in Seq(Frame) /\ Len(base) \in Nat /\ Leads(base, start, runs)
  BY DEF Between
<1>2. Leads(base, start, runs \o more)
  BY <1>1, MoreRuns
<1>3. Begun(base, start, base, start, runs \o more)
  <2>1. \A i, j \in Len(base) + 1 .. Len(base) : start[i].nth = start[j].nth
    BY <1>1
  <2> QED BY <1>1, <1>2, <2>1 DEF Begun
<1>4. Meant(start[Len(base)], runs \o more)
  BY <1>1, MoreMeant DEF Between, Stands
<1>5. /\ runs \o more \in Calls /\ Len(runs \o more) = Len(runs) + Len(more) /\ Len(runs) \in Nat
      /\ \A i \in 1 .. Len(more) : (runs \o more)[Len(runs) + i] = more[i]
  BY <1>1 DEF Calls
<1> QED BY <1>3, <1>4, <1>5

\* The note of a frame that begins the statement a round trip is for.
LEMMA BeginsStatement ==
  ASSUME NEW n \in Note, NEW runs \in Calls, NEW call \in Sql \X Params, NEW frame \in Frame,
         Meant(n, runs \o <<call>>), n.nth = Len(runs), Begins(n.type, frame),
         After(n, frame).sql = call[1],
         frame.type = "P" \/ After(n, frame).params = call[2],
         After(n, frame).params \in {n.params, NoParams, call[2]}
  PROVE  /\ Meant(After(n, frame), runs \o <<call>>)
         /\ After(n, frame).nth = Len(runs \o <<call>>)
<1>1. /\ Len(runs) \in Nat /\ Len(runs \o <<call>>) = Len(runs) + 1
      /\ (runs \o <<call>>)[Len(runs) + 1] = call
  BY DEF Calls
<1>2. After(n, frame).nth = Len(runs) + 1 /\ After(n, frame).type = frame.type
  BY DEF After
<1>3. frame.type \notin Starting
  BY DEF Begins, Starting
<1>4. Len(runs) + 1 # 0 /\ Len(runs) + 1 \in 1 .. Len(runs) + 1
  BY <1>1
<1> QED BY <1>1, <1>2, <1>3, <1>4 DEF Meant

LEMMA AskedSimple ==
  ASSUME NEW trip \in [kind : {"simple"}, sql : Sql], NEW base, NEW start, NEW held, NEW runs,
         NEW ends, Between(base, start, held, runs, ends)
  PROVE  \E longer : Told(base, start, base \o FramesOf(trip), longer,
                          KnownAfter(held, trip), runs \o Runs(trip), ends + 1)
<1> DEFINE call  == <<trip.sql, NoParams>>
           frame == [type |-> "Q", sql |-> trip.sql]
           n     == start[Len(base)]
<1>1. /\ FramesOf(trip) = <<frame>> /\ Runs(trip) = <<call>>
      /\ KnownAfter(held, trip) = [held EXCEPT ![Unnamed] = Unparsed]
  BY DEF FramesOf, Runs, KnownAfter
<1>2. call \in Sql \X Params /\ frame \in Frame /\ <<call>> \in Calls
  BY StatementAssumption DEF Frame, Calls
<1>3. /\ base \in Seq(Frame) /\ runs \in Calls /\ ends \in Nat /\ held \in Prepared
      /\ n \in Note /\ n.type \in Ends /\ n.nth = Len(runs) /\ n.ends = ends /\ Agrees(n, held)
  BY DEF Between, Stands
<1>4. /\ Begun(base, start, base, start, runs \o <<call>>) /\ Meant(n, runs \o <<call>>)
      /\ runs \o <<call>> \in Calls
  BY <1>2, BetweenBegins
<1>5. /\ After(n, frame).type = "Q" /\ After(n, frame).ends = ends + 1
      /\ After(n, frame).prepared = n.prepared
      /\ After(n, frame).sql = trip.sql /\ After(n, frame).params = NoParams
      /\ Follows(n.type, frame.type) /\ Begins(n.type, frame)
  BY <1>3 DEF After, Follows, Begins, Ends
<1>6. After(n, frame) \in Note
  BY <1>2, <1>3, AfterType
<1>7. Agrees(After(n, frame), KnownAfter(held, trip))
  BY <1>1, <1>3, <1>5 DEF Agrees, Prepared
<1>8. call[1] = trip.sql /\ call[2] = NoParams
  OBVIOUS
<1> HIDE DEF call, frame, n
<1>9. Meant(After(n, frame), runs \o <<call>>) /\ After(n, frame).nth = Len(runs \o <<call>>)
  BY <1>2, <1>3, <1>4, <1>5, <1>8, BeginsStatement
<1>10. PICK longer :
        /\ Begun(base, start, Append(base, frame), longer, runs \o <<call>>)
        /\ longer[Len(Append(base, frame))] = After(n, frame)
  BY <1>2, <1>3, <1>4, <1>5, <1>9, Continued DEF n
<1>11. base \o <<frame>> = Append(base, frame) /\ Len(base) < Len(Append(base, frame))
  BY <1>2, <1>3
<1>12. Told(base, start, Append(base, frame), longer, KnownAfter(held, trip), runs \o <<call>>, ends + 1)
  BY <1>5, <1>6, <1>7, <1>9, <1>10, <1>11 DEF Told, Within, Stands, Ends
<1> QED BY <1>1, <1>11, <1>12, Zenon

LEMMA AskedClose ==
  ASSUME NEW trip \in [kind : {"close"}, name : StatementName], NEW base, NEW start, NEW held,
         NEW runs, NEW ends, Between(base, start, held, runs, ends)
  PROVE  \E longer : Told(base, start, base \o FramesOf(trip), longer,
                          KnownAfter(held, trip), runs \o Runs(trip), ends + 1)
<1> DEFINE close == [type |-> "C", name |-> trip.name]
           sync  == [type |-> "S"]
           after == KnownAfter(held, trip)
           n     == start[Len(base)]
<1>1. FramesOf(trip) = <<close, sync>> /\ Runs(trip) = <<>>
      /\ after = [held EXCEPT ![trip.name] = Unparsed]
  BY DEF FramesOf, Runs, KnownAfter
<1>2. close \in Frame /\ close.type = "C" /\ sync \in Frame /\ sync.type = "S" /\ <<>> \in Calls
  BY DEF Frame, Calls
<1>3. /\ base \in Seq(Frame) /\ runs \in Calls /\ ends \in Nat /\ held \in Prepared
      /\ n \in Note /\ n.type \in Ends /\ n.nth = Len(runs) /\ n.ends = ends /\ Agrees(n, held)
      /\ Meant(n, runs)
  BY DEF Between, Stands
<1>4. runs \o <<>> = runs
  BY <1>3 DEF Calls
<1>5. Begun(base, start, base, start, runs)
  <2>1. Begun(base, start, base, start, runs \o <<>>)
    BY <1>2, BetweenBegins, Zenon
  <2> QED BY <1>4, <2>1, Zenon
<1>6. Stands(n, after, runs, ends)
  BY <1>1, <1>3 DEF Stands, Agrees, Prepared
<1>7. /\ n.type # "P" /\ Follows(n.type, close.type) /\ Follows(close.type, sync.type)
      /\ close.type \in {"D", "E", "C"} /\ sync.type = "S"
  BY <1>2, <1>3 DEF Follows, Ends
<1>8. Within(base, start, base, start, after, runs, ends)
  BY <1>3, <1>5, <1>6, <1>7 DEF Within
<1> HIDE DEF close, sync, after
<1>9. PICK once :
        /\ Within(base, start, Append(base, close), once, after, runs, ends)
        /\ once[Len(Append(base, close))].type = close.type
  BY <1>2, <1>3, <1>7, <1>8, MoreFrame
<1> DEFINE more == Append(base, close)
           all  == Append(more, sync)
<1>10. base \o <<close, sync>> = all
  BY <1>2, <1>3, Appended
<1>11. /\ Within(base, start, more, once, after, runs, ends)
       /\ Follows(once[Len(more)].type, sync.type) /\ more \in Seq(Frame)
  BY <1>2, <1>3, <1>7, <1>9
<1> HIDE DEF more
<1>12. \E twice : Told(base, start, all, twice, after, runs, ends + 1)
  BY <1>2, <1>3, <1>7, <1>11, LastFrame, Zenon
<1> HIDE DEF all
<1> QED BY <1>1, <1>4, <1>10, <1>12, Zenon DEF after

\* The frames of an extended round trip.
ParseOf(trip)    == IF trip.parse THEN <<[type |-> "P", name |-> trip.name, sql |-> trip.sql]>>
                    ELSE <<>>
BindOf(trip)     == <<[type |-> "B", name |-> trip.name, params |-> trip.params]>>
DescribeOf(trip) == IF trip.describe THEN <<[type |-> "D"]>> ELSE <<>>
ExecuteOf        == <<[type |-> "E"], [type |-> "S"]>>

Extended == [kind : {"extended"}, name : StatementName, sql : Sql, params : Params,
             parse : BOOLEAN, describe : BOOLEAN]

LEMMA AskedExecute ==
  ASSUME NEW trip \in Extended, NEW base \in Seq(Frame), NEW start, NEW runs \in Calls,
         NEW frames, NEW note, NEW held, NEW ends \in Nat,
         Within(base, start, frames, note, held, runs, ends), note[Len(frames)].type = "B"
  PROVE  \E longer : Told(base, start, (frames \o DescribeOf(trip)) \o ExecuteOf, longer, held,
                          runs, ends + 1)
<1> DEFINE describe == [type |-> "D"]
           execute  == [type |-> "E"]
           sync     == [type |-> "S"]
           shown    == frames \o DescribeOf(trip)
           more     == Append(shown, execute)
<1>1. /\ describe \in Frame /\ execute \in Frame /\ sync \in Frame
      /\ describe.type = "D" /\ execute.type = "E" /\ sync.type = "S"
  BY DEF Frame
<1>2. Follows("B", "D") /\ Follows("B", "E") /\ Follows("D", "E") /\ Follows("E", "S")
  BY DEF Follows
<1>3. frames \in Seq(Frame)
  BY DEF Within, Begun
<1>4. DescribeOf(trip) = <<describe>> \/ DescribeOf(trip) = <<>>
  BY DEF DescribeOf
<1> HIDE DEF describe, execute, sync
<1>5. \E longer : /\ Within(base, start, shown, longer, held, runs, ends)
                  /\ longer[Len(shown)].type \in {"B", "D"}
  <2>1. CASE DescribeOf(trip) = <<>>
    <3>1. shown = frames
      BY <1>3, <2>1
    <3> HIDE DEF shown
    <3> QED BY <3>1
  <2>2. CASE DescribeOf(trip) = <<describe>>
    <3>1. shown = Append(frames, describe)
      BY <1>1, <1>3, <2>2, Appended
    <3>2. Follows(note[Len(frames)].type, describe.type)
      BY <1>1, <1>2
    <3>3. \E longer : /\ Within(base, start, Append(frames, describe), longer, held, runs, ends)
                      /\ longer[Len(Append(frames, describe))].type = describe.type
      BY <1>1, <3>2, MoreFrame
    <3> HIDE DEF shown
    <3> QED BY <1>1, <3>1, <3>3
  <2> QED BY <1>4, <2>1, <2>2
<1>6. shown \in Seq(Frame)
  BY <1>5 DEF Within, Begun
<1>7. shown \o ExecuteOf = Append(more, sync)
  BY <1>1, <1>6, Appended DEF ExecuteOf, execute, sync
<1> HIDE DEF shown
<1>8. PICK once : /\ Within(base, start, shown, once, held, runs, ends)
                  /\ Follows(once[Len(shown)].type, execute.type)
  BY <1>1, <1>2, <1>5
<1>9. PICK twice : /\ Within(base, start, more, twice, held, runs, ends)
                   /\ twice[Len(more)].type = execute.type
  BY <1>1, <1>8, MoreFrame
<1>10. Follows(twice[Len(more)].type, sync.type)
  BY <1>1, <1>2, <1>9
<1> HIDE DEF more
<1>11. \E longer : Told(base, start, Append(more, sync), longer, held, runs, ends + 1)
  BY <1>1, <1>9, <1>10, LastFrame
<1> QED BY <1>7, <1>11 DEF shown

\* Up to its Bind the round trip has given the text and the parameters.
LEMMA AskedBind ==
  ASSUME NEW trip \in Extended, NEW base, NEW start, NEW held, NEW runs, NEW ends,
         Between(base, start, held, runs, ends), Sendable(held, trip)
  PROVE  LET frames == (base \o ParseOf(trip)) \o BindOf(trip)
         IN  \E longer :
              /\ Within(base, start, frames, longer, KnownAfter(held, trip),
                        runs \o Runs(trip), ends)
              /\ longer[Len(frames)].type = "B"
<1> DEFINE call  == <<trip.sql, trip.params>>
           parse == [type |-> "P", name |-> trip.name, sql |-> trip.sql]
           bind  == [type |-> "B", name |-> trip.name, params |-> trip.params]
           after == KnownAfter(held, trip)
           all   == runs \o <<call>>
           n     == start[Len(base)]
           p     == After(n, parse)
<1>1. /\ Runs(trip) = <<call>> /\ after = [held EXCEPT ![trip.name] = trip.sql]
      /\ BindOf(trip) = <<bind>>
  BY DEF Runs, KnownAfter, Extended, BindOf
<1>2. /\ call \in Sql \X Params /\ <<call>> \in Calls
      /\ parse \in Frame /\ bind \in Frame
      /\ trip.name \in StatementName /\ trip.sql \in Sql /\ trip.sql # Unparsed
  BY StatementAssumption DEF Frame, Calls, Extended
<1>3. /\ base \in Seq(Frame) /\ runs \in Calls /\ ends \in Nat /\ held \in Prepared
      /\ n \in Note /\ n.type \in Ends /\ n.nth = Len(runs) /\ n.ends = ends /\ Agrees(n, held)
  BY DEF Between, Stands
<1>4. /\ Begun(base, start, base, start, all) /\ Meant(n, all) /\ all \in Calls
      /\ Len(all) = Len(runs) + 1 /\ Len(runs) \in Nat /\ all[Len(all)] = call
  <2>1. Len(<<call>>) = 1 /\ <<call>>[1] = call
    OBVIOUS
  <2> QED BY <1>2, <2>1, BetweenBegins
<1>5. /\ call[1] = trip.sql /\ call[2] = trip.params
      /\ parse.type = "P" /\ parse.name = trip.name /\ parse.sql = trip.sql
      /\ bind.type = "B" /\ bind.name = trip.name /\ bind.params = trip.params
  OBVIOUS
<1> HIDE DEF call, parse, bind, after, all, n
<1>6. ASSUME NEW m \in Note, Agrees(m, after)
      PROVE  /\ After(m, bind) \in Note /\ Agrees(After(m, bind), after)
             /\ After(m, bind).sql = trip.sql /\ After(m, bind).params = trip.params
             /\ After(m, bind).type = "B" /\ After(m, bind).ends = m.ends
             /\ m.type = "P" => After(m, bind).nth = m.nth
  <2>1. m.prepared[trip.name] = trip.sql
    BY <1>1, <1>2, <1>3, <1>6 DEF Agrees, Prepared
  <2>2. /\ After(m, bind).type = "B" /\ After(m, bind).prepared = m.prepared
        /\ After(m, bind).ends = m.ends
        /\ After(m, bind).sql = trip.sql /\ After(m, bind).params = trip.params
        /\ m.type = "P" => After(m, bind).nth = m.nth
    BY <1>2, <1>5, <2>1 DEF After, Ends, Begins
  <2> QED BY <1>2, <1>6, <2>2, AfterType DEF Agrees
<1>7. CASE trip.parse
  <2>1. /\ p.type = "P" /\ p.ends = ends /\ p.sql = trip.sql /\ p.params = n.params
        /\ p.prepared = [n.prepared EXCEPT ![trip.name] = trip.sql]
    BY <1>3, <1>5 DEF After, Ends
  <2>2. p \in Note
    BY <1>2, <1>3, AfterType
  <2>3. Agrees(p, after)
    <3>1. n.prepared \in Prepared
      BY <1>3 DEF Note
    <3> QED BY <1>1, <1>2, <1>3, <2>1, <3>1 DEF Agrees, Prepared
  <2>4. Begins(n.type, parse) /\ Follows(n.type, parse.type)
    BY <1>3, <1>5 DEF Begins, Follows
  <2>5. Meant(p, all) /\ p.nth = Len(all)
    BY <1>2, <1>3, <1>4, <1>5, <2>1, <2>4, BeginsStatement DEF all
  <2> DEFINE once == Append(base, parse)
             b    == After(p, bind)
  <2>6. PICK note : Begun(base, start, once, note, all) /\ note[Len(once)] = p
    BY <1>2, <1>3, <1>4, <2>4, <2>5, Continued DEF n
  <2>7. /\ b \in Note /\ Agrees(b, after) /\ b.sql = trip.sql /\ b.params = trip.params
        /\ b.type = "B" /\ b.ends = ends /\ b.nth = Len(all)
    BY <1>6, <2>1, <2>2, <2>3, <2>5
  <2>8. Meant(b, all)
    <3>1. Len(all) \in 1 .. Len(all) /\ Len(all) # 0 /\ all[Len(all)][2] = trip.params
          /\ all[Len(all)][1] = trip.sql
      BY <1>4, <1>5
    <3> QED BY <2>7, <3>1 DEF Meant, Starting
  <2>9. Follows(p.type, bind.type) /\ ~ Begins(p.type, bind)
    BY <1>5, <2>1 DEF Follows, Begins
  <2>10. once \in Seq(Frame) /\ Len(base) < Len(once) /\ base \o ParseOf(trip) = once
    BY <1>2, <1>3, <1>7, Appended DEF ParseOf, parse
  <2> HIDE DEF once, b, p
  <2>11. PICK longer :
          /\ Begun(base, start, Append(once, bind), longer, all)
          /\ longer[Len(Append(once, bind))] = b
    BY <1>2, <1>3, <2>6, <2>8, <2>9, Continued DEF b
  <2>12. Append(once, bind) = (base \o ParseOf(trip)) \o BindOf(trip)
         /\ Len(base) < Len(Append(once, bind))
    BY <1>1, <1>2, <1>3, <2>10, Appended
  <2>13. Within(base, start, Append(once, bind), longer, after, all, ends)
    BY <2>7, <2>8, <2>11, <2>12 DEF Within, Stands
  <2> QED BY <1>1, <2>7, <2>11, <2>12, <2>13 DEF after, all
<1>8. CASE ~ trip.parse
  <2> DEFINE b == After(n, bind)
  <2>1. held[trip.name] = trip.sql
    BY <1>8 DEF Sendable, Extended
  <2>2. Agrees(n, after)
    BY <1>1, <1>2, <1>3, <2>1 DEF Agrees, Prepared
  <2>3. /\ b \in Note /\ Agrees(b, after) /\ b.sql = trip.sql /\ b.params = trip.params
        /\ b.type = "B" /\ b.ends = ends
    BY <1>3, <1>6, <2>2
  <2>4. Begins(n.type, bind) /\ Follows(n.type, bind.type)
    BY <1>3, <1>5 DEF Begins, Follows, Ends
  <2> HIDE DEF b
  <2>5. Meant(b, all) /\ b.nth = Len(all)
    BY <1>2, <1>3, <1>4, <1>5, <2>3, <2>4, BeginsStatement DEF all, b
  <2>6. PICK longer :
          /\ Begun(base, start, Append(base, bind), longer, all)
          /\ longer[Len(Append(base, bind))] = b
    BY <1>2, <1>3, <1>4, <2>4, <2>5, Continued DEF n, b
  <2>7. Append(base, bind) = (base \o ParseOf(trip)) \o BindOf(trip)
        /\ Len(base) < Len(Append(base, bind))
    <3>1. base \o ParseOf(trip) = base
      BY <1>3, <1>8 DEF ParseOf
    <3> QED BY <1>1, <1>2, <1>3, <3>1, Appended, SMTT(30)
  <2>8. Within(base, start, Append(base, bind), longer, after, all, ends)
    BY <2>3, <2>5, <2>6, <2>7 DEF Within, Stands
  <2> QED BY <1>1, <2>3, <2>6, <2>7, <2>8 DEF after, all
<1> QED BY <1>7, <1>8 DEF Extended

LEMMA AskedExtended ==
  ASSUME NEW trip \in Extended, NEW base, NEW start, NEW held, NEW runs, NEW ends,
         Between(base, start, held, runs, ends), Sendable(held, trip)
  PROVE  \E longer : Told(base, start, base \o FramesOf(trip), longer,
                          KnownAfter(held, trip), runs \o Runs(trip), ends + 1)
<1>1. /\ base \in Seq(Frame) /\ runs \o Runs(trip) \in Calls /\ ends \in Nat
  <2>1. Runs(trip) \in Calls
    BY DEF Runs, Extended, Calls
  <2> QED BY <2>1 DEF Between, Calls
<1>2. PICK frames : frames = (base \o ParseOf(trip)) \o BindOf(trip)
  BY Zenon
<1>3. PICK note : /\ Within(base, start, frames, note, KnownAfter(held, trip),
                            runs \o Runs(trip), ends)
                  /\ note[Len(frames)].type = "B"
  BY <1>2, AskedBind
<1>4. \E longer : Told(base, start, (frames \o DescribeOf(trip)) \o ExecuteOf, longer,
                       KnownAfter(held, trip), runs \o Runs(trip), ends + 1)
  BY <1>1, <1>3, AskedExecute
<1>5. /\ ParseOf(trip) \in Seq(Frame) /\ BindOf(trip) \in Seq(Frame)
      /\ DescribeOf(trip) \in Seq(Frame) /\ ExecuteOf \in Seq(Frame)
  <2>1. /\ [type |-> "D"] \in Frame /\ [type |-> "E"] \in Frame /\ [type |-> "S"] \in Frame
        /\ [type |-> "P", name |-> trip.name, sql |-> trip.sql] \in Frame
        /\ [type |-> "B", name |-> trip.name, params |-> trip.params] \in Frame
    BY DEF Frame, Extended
  <2> QED BY <2>1, ShortSeq DEF ParseOf, BindOf, DescribeOf, ExecuteOf
<1>6. FramesOf(trip) = ParseOf(trip) \o BindOf(trip) \o DescribeOf(trip) \o ExecuteOf
  BY DEF FramesOf, ParseOf, BindOf, DescribeOf, ExecuteOf, Extended
<1>7. (((base \o ParseOf(trip)) \o BindOf(trip)) \o DescribeOf(trip)) \o ExecuteOf
        = base \o FramesOf(trip)
  <2>1. PICK s, p, b, d, e :
          /\ s = base /\ p = ParseOf(trip) /\ b = BindOf(trip)
          /\ d = DescribeOf(trip) /\ e = ExecuteOf
          /\ s \in Seq(Frame) /\ p \in Seq(Frame) /\ b \in Seq(Frame)
          /\ d \in Seq(Frame) /\ e \in Seq(Frame)
    BY <1>1, <1>5
  <2>2. (((s \o p) \o b) \o d) \o e = s \o (((p \o b) \o d) \o e)
    <3>1. s \in Seq(Frame)
      BY <2>1
    <3>2. PICK pb : pb = p \o b /\ pb \in Seq(Frame)
      BY <2>1, Joined, Zenon
    <3>3. pb \in Seq(Frame)
      BY <3>2
    <3>4. PICK pbd : pbd = pb \o d /\ pbd \in Seq(Frame)
      BY <2>1, <3>3, Joined, Zenon
    <3>5. pbd \in Seq(Frame)
      BY <3>4
    <3>6. (s \o p) \o b = s \o (p \o b)
      <4>1. p \in Seq(Frame)
        BY <2>1
      <4>2. b \in Seq(Frame)
        BY <2>1
      <4> QED BY ONLY <3>1, <4>1, <4>2, Associate, Zenon
    <3>7. d \in Seq(Frame)
      BY <2>1
    <3>8. e \in Seq(Frame)
      BY <2>1
    <3>9. (s \o pb) \o d = s \o (pb \o d)
      BY ONLY <3>1, <3>3, <3>7, Associate, Zenon
    <3>10. (s \o pbd) \o e = s \o (pbd \o e)
      BY ONLY <3>1, <3>5, <3>8, Associate, Zenon
    <3> QED BY ONLY <3>2, <3>4, <3>6, <3>9, <3>10, Zenon
  <2>3. s = base /\ p = ParseOf(trip) /\ b = BindOf(trip) /\ d = DescribeOf(trip) /\ e = ExecuteOf
    BY <2>1
  <2> QED BY ONLY <1>6, <2>2, <2>3, Zenon
<1> QED BY <1>2, <1>4, <1>7, Zenon

\* What asking leaves of the path of notes.
LEMMA AskedTrip ==
  ASSUME NEW trip \in RoundTrip, NEW base, NEW start, NEW held, NEW runs, NEW ends,
         Between(base, start, held, runs, ends), Sendable(held, trip)
  PROVE  \E longer : Told(base, start, base \o FramesOf(trip), longer,
                          KnownAfter(held, trip), runs \o Runs(trip), ends + 1)
BY RoundTripAssumption, AskedSimple, AskedClose, AskedExtended DEF Extended

-----------------------------------------------------------------------------
(***************************************************************************)
(* The path of accounts grows by a frame at a time.                        *)
(***************************************************************************)

LEMMA ShowType ==
  ASSUME NEW a \in Account, NEW frame \in ServerFrame
  PROVE  Show(a, frame) \in Account
<1>1. a.columns \in Seq(Sql) /\ a.rows \in Seq(Nat) /\ a.ready \in Nat
  BY DEF Account
<1>2. frame.type = "T" => frame.columns \in Seq(Sql)
  <2>1. frame.type = "T" => \E sql \in Sql : frame.columns = <<sql>>
    BY DEF ServerFrame
  <2> QED BY <2>1
<1>3. frame.type = "D" => Append(a.rows, frame.row) \in Seq(Nat)
  <2>1. frame.type = "D" => frame.row \in Nat
    BY DEF ServerFrame
  <2> QED BY <1>1, <2>1
<1>4. <<>> \in Seq(Sql) /\ <<>> \in Seq(Nat) /\ a.ready + 1 \in Nat
  BY <1>1
<1> QED BY <1>1, <1>2, <1>3, <1>4 DEF Show, Account

LEMMA OneMoreReply ==
  ASSUME NEW frames \in Seq(ServerFrame), NEW shown, Tells(frames, shown),
         NEW frame \in ServerFrame, frame.type # "ssl"
  PROVE  \E longer :
              /\ Tells(Append(frames, frame), longer)
              /\ \A i \in 0 .. Len(frames) : longer[i] = shown[i]
              /\ longer[Len(frames) + 1] = Show(shown[Len(frames)], frame)
<1> DEFINE M      == Len(frames)
           last   == Show(shown[M], frame)
           more   == Append(frames, frame)
           longer == [i \in 0 .. M + 1 |-> IF i = M + 1 THEN last ELSE shown[i]]
           Zs(j)  == {k \in 1 .. j : frames[k].type = "Z"}
           Zm(j)  == {k \in 1 .. j : more[k].type = "Z"}
<1>1. /\ M \in Nat /\ Len(more) = M + 1 /\ more[M + 1] = frame
      /\ \A i \in 1 .. M : more[i] = frames[i]
  BY OneMore
<1>2. /\ shown[0] = Nothing
      /\ \A j \in 1 .. M : shown[j] = Show(shown[j - 1], frames[j]) /\ frames[j].type # "ssl"
      /\ \A j \in 0 .. M :
            shown[j] \in Account /\ IsFiniteSet(Zs(j)) /\ Cardinality(Zs(j)) = shown[j].ready
      /\ \A i, j \in 0 .. M : i <= j => shown[i].ready <= shown[j].ready
  BY SMTT(30) DEF Tells
<1>3. M \in 0 .. M /\ M + 1 \in 0 .. M + 1 /\ M + 1 # M /\ (M + 1) - 1 = M
      /\ \A i \in 0 .. M : i \in 0 .. M + 1 /\ i # M + 1
  BY <1>1, SMTT(30)
<1>4. last \in Account
  BY <1>2, <1>3, ShowType, ZenonT(40)
<1>5. longer[M + 1] = last /\ \A i \in 0 .. M : longer[i] = shown[i]
  BY <1>3, ZenonT(40)
<1>6. shown[M].ready \in Nat
      /\ last.ready = IF frame.type = "Z" THEN shown[M].ready + 1 ELSE shown[M].ready
  BY <1>2, <1>3, Zenon DEF Account, Show
<1>7. \A j \in 0 .. M : Zm(j) = Zs(j)
  BY <1>1
<1>8. Zm(M + 1) = IF frame.type = "Z" THEN Zs(M) \union {M + 1} ELSE Zs(M)
  BY <1>1
<1>9. M + 1 \notin Zs(M)
  BY <1>1
<1> HIDE DEF longer, last, more, M, Zs, Zm
<1>10. IsFiniteSet(Zm(M + 1)) /\ Cardinality(Zm(M + 1)) = last.ready
  <2>1. IsFiniteSet(Zs(M)) /\ Cardinality(Zs(M)) = shown[M].ready
    BY <1>2, <1>3
  <2>2. /\ IsFiniteSet(Zs(M) \union {M + 1})
        /\ Cardinality(Zs(M) \union {M + 1}) = shown[M].ready + 1
    BY <1>9, <2>1, FS_AddElement
  <2>3. CASE frame.type = "Z"
    BY <1>6, <1>8, <2>2, <2>3, Zenon
  <2>4. CASE frame.type # "Z"
    BY <1>6, <1>8, <2>1, <2>4
  <2> QED BY <2>3, <2>4
<1>11. \A j \in 1 .. M + 1 :
        longer[j] = Show(longer[j - 1], more[j]) /\ more[j].type # "ssl"
  <2> TAKE j \in 1 .. M + 1
  <2>1. CASE j = M + 1
    BY <1>1, <1>3, <1>5, <2>1 DEF last
  <2>2. CASE j # M + 1
    <3>1. j \in 1 .. M /\ j \in 0 .. M /\ j - 1 \in 0 .. M
      BY <1>1, <2>2
    <3> QED BY <1>1, <1>2, <1>5, <3>1
  <2> QED BY <2>1, <2>2
<1>12. \A i \in 0 .. M + 1 : i = M + 1 \/ i \in 0 .. M
  BY <1>1
<1>13. \A j \in 0 .. M + 1 :
        longer[j] \in Account /\ IsFiniteSet(Zm(j)) /\ Cardinality(Zm(j)) = longer[j].ready
  BY <1>2, <1>4, <1>5, <1>7, <1>10, <1>12
<1>14. \A i, j \in 0 .. M + 1 : i <= j => longer[i].ready <= longer[j].ready
  <2> SUFFICES ASSUME NEW i \in 0 .. M + 1, NEW j \in 0 .. M + 1, i <= j
               PROVE  longer[i].ready <= longer[j].ready
    OBVIOUS
  <2>1. CASE j \in 0 .. M
    <3>1. i \in 0 .. M
      BY <1>1, <2>1
    <3> QED BY <1>2, <1>5, <2>1, <3>1
  <2>2. CASE j = M + 1 /\ i = M + 1
    <3>1. longer[i].ready \in Nat
      BY <1>13 DEF Account
    <3> QED BY <2>2, <3>1
  <2>3. CASE j = M + 1 /\ i \in 0 .. M
    <3>1. shown[i].ready <= shown[M].ready
      BY <1>2, <1>3, <2>3
    <3>2. shown[i].ready \in Nat
      BY <1>2, <2>3 DEF Account
    <3>3. shown[i].ready <= last.ready
      BY ONLY <1>6, <3>1, <3>2
    <3> QED BY <1>5, <2>3, <3>3
  <2> QED BY <1>12, <2>1, <2>2, <2>3
<1>15. longer[0] = Nothing
  <2>1. 0 \in 0 .. M
    BY <1>1
  <2> QED BY <1>2, <1>5, <2>1
<1>16. Tells(more, longer)
  BY <1>1, <1>11, <1>13, <1>14, <1>15, Zenon DEF Tells, Zm
<1> QED BY <1>5, <1>16 DEF M, last, more

\* What the server writes in one step, behind what it wrote before.
Extends(base, before, frames, shown) ==
    /\ frames \in Seq(ServerFrame) /\ Tells(frames, shown) /\ Len(base) <= Len(frames)
    /\ \A i \in 1 .. Len(base) : frames[i] = base[i]
    /\ \A i \in 0 .. Len(base) : shown[i] = before[i]

\* No result among it, or one.
Quiet(base, frames) == \A j \in Len(base) + 1 .. Len(frames) : ~ Closes(frames[j])

AnswersAt(base, frames, shown, j, frame, a) ==
    /\ j \in Len(base) + 1 .. Len(frames) /\ frames[j] = frame /\ Closes(frame)
    /\ shown[j - 1].columns = a.columns /\ shown[j - 1].rows = a.rows
    /\ \A k \in Len(base) + 1 .. Len(frames) : Closes(frames[k]) => k = j

Answers(base, frames, shown, frame, a) == \E j : AnswersAt(base, frames, shown, j, frame, a)

LEMMA SaidQuietly ==
  ASSUME NEW base \in Seq(ServerFrame), NEW before, NEW frames, NEW shown,
         Extends(base, before, frames, shown), Quiet(base, frames),
         NEW frame \in ServerFrame, frame.type # "ssl"
  PROVE  \E longer :
              /\ Extends(base, before, Append(frames, frame), longer)
              /\ longer[Len(Append(frames, frame))] = Show(shown[Len(frames)], frame)
              /\ ~ Closes(frame) => Quiet(base, Append(frames, frame))
              /\ Closes(frame) =>
                      Answers(base, Append(frames, frame), longer, frame, shown[Len(frames)])
<1> DEFINE M    == Len(frames)
           B    == Len(base)
           more == Append(frames, frame)
           a    == shown[M]
<1>1. frames \in Seq(ServerFrame) /\ Tells(frames, shown) /\ B <= M /\ B \in Nat
  BY DEF Extends
<1>2. /\ more \in Seq(ServerFrame) /\ M \in Nat /\ Len(more) = M + 1
      /\ \A i \in 1 .. M : more[i] = frames[i]
      /\ more[M + 1] = frame
  BY <1>1, OneMore
<1>3. PICK longer : /\ Tells(more, longer)
                    /\ \A i \in 0 .. M : longer[i] = shown[i]
                    /\ longer[M + 1] = Show(a, frame)
  BY <1>1, OneMoreReply
<1>4. \A i \in 1 .. B : frames[i] = base[i]
  BY DEF Extends
<1>5. \A i \in 0 .. B : shown[i] = before[i]
  BY DEF Extends
<1>6. \A j \in B + 1 .. M : ~ Closes(frames[j])
  BY DEF Quiet
<1> HIDE DEF M, B, more, a
<1>7. /\ \A i \in 1 .. B : i \in 1 .. M
      /\ \A i \in 0 .. B : i \in 0 .. M
      /\ \A j \in B + 1 .. M + 1 : j = M + 1 \/ (j \in B + 1 .. M /\ j \in 1 .. M)
      /\ M + 1 \in B + 1 .. M + 1 /\ (M + 1) - 1 = M /\ M \in 0 .. M /\ B <= M + 1
  BY <1>1, <1>2
<1>8. \A i \in 1 .. B : more[i] = base[i]
  BY <1>2, <1>4, <1>7
<1>9. \A i \in 0 .. B : longer[i] = before[i]
  BY <1>3, <1>5, <1>7
<1>10. Extends(base, before, more, longer)
  BY <1>2, <1>3, <1>7, <1>8, <1>9 DEF Extends, B
<1>11. \A j \in B + 1 .. M + 1 : Closes(more[j]) => j = M + 1
  BY <1>2, <1>6, <1>7
<1>12. ~ Closes(frame) => Quiet(base, more)
  BY <1>2, <1>11 DEF Quiet, B
<1>13. Closes(frame) => AnswersAt(base, more, longer, M + 1, frame, a)
  <2>1. longer[(M + 1) - 1] = a
    BY <1>3, <1>7 DEF a, M
  <2> QED BY <1>2, <1>7, <1>11, <2>1 DEF AnswersAt, B
<1>14. Closes(frame) => Answers(base, more, longer, frame, a)
  BY <1>13 DEF Answers
<1> QED BY <1>2, <1>3, <1>10, <1>12, <1>14 DEF a, M, more

LEMMA SaidReady ==
  ASSUME NEW base \in Seq(ServerFrame), NEW before, NEW frames, NEW shown,
         Extends(base, before, frames, shown), NEW result, NEW a,
         Answers(base, frames, shown, result, a)
  PROVE  \E longer :
              /\ Extends(base, before, Append(frames, ReadyFrame), longer)
              /\ longer[Len(Append(frames, ReadyFrame))] = Show(shown[Len(frames)], ReadyFrame)
              /\ Answers(base, Append(frames, ReadyFrame), longer, result, a)
<1> DEFINE M    == Len(frames)
           B    == Len(base)
           more == Append(frames, ReadyFrame)
<1>1. frames \in Seq(ServerFrame) /\ Tells(frames, shown) /\ B <= M /\ B \in Nat
  BY DEF Extends
<1>2. ReadyFrame \in ServerFrame /\ ReadyFrame.type = "Z" /\ ~ Closes(ReadyFrame)
  BY DEF ReadyFrame, ServerFrame, Closes
<1>3. /\ more \in Seq(ServerFrame) /\ M \in Nat /\ Len(more) = M + 1
      /\ \A i \in 1 .. M : more[i] = frames[i]
      /\ more[M + 1] = ReadyFrame
  BY <1>1, <1>2, OneMore
<1>4. PICK longer : /\ Tells(more, longer)
                    /\ \A i \in 0 .. M : longer[i] = shown[i]
                    /\ longer[M + 1] = Show(shown[M], ReadyFrame)
  BY <1>1, <1>2, OneMoreReply
<1>5. \A i \in 1 .. B : frames[i] = base[i]
  BY DEF Extends
<1>6. \A i \in 0 .. B : shown[i] = before[i]
  BY DEF Extends
<1>7. PICK j : AnswersAt(base, frames, shown, j, result, a)
  BY DEF Answers
<1>8. /\ j \in B + 1 .. M /\ frames[j] = result /\ Closes(result)
      /\ shown[j - 1].columns = a.columns /\ shown[j - 1].rows = a.rows
      /\ \A k \in B + 1 .. M : Closes(frames[k]) => k = j
  BY <1>7 DEF AnswersAt
<1> HIDE DEF M, B, more
<1>9. /\ \A i \in 1 .. B : i \in 1 .. M
      /\ \A i \in 0 .. B : i \in 0 .. M
      /\ \A k \in B + 1 .. M + 1 : k = M + 1 \/ (k \in B + 1 .. M /\ k \in 1 .. M)
      /\ j \in B + 1 .. M + 1 /\ j \in 1 .. M /\ j - 1 \in 0 .. M /\ B <= M + 1
  BY <1>1, <1>3, <1>8
<1>10. \A i \in 1 .. B : more[i] = base[i]
  BY <1>3, <1>5, <1>9
<1>11. \A i \in 0 .. B : longer[i] = before[i]
  BY <1>4, <1>6, <1>9
<1>12. Extends(base, before, more, longer)
  BY <1>3, <1>4, <1>9, <1>10, <1>11 DEF Extends, B
<1>13. \A k \in B + 1 .. M + 1 : Closes(more[k]) => k = j
  BY <1>2, <1>3, <1>8, <1>9, Zenon
<1>14. AnswersAt(base, more, longer, j, result, a)
  <2>1. longer[j - 1] = shown[j - 1] /\ more[j] = frames[j]
    BY <1>3, <1>4, <1>9
  <2> QED BY <1>3, <1>8, <1>9, <1>13, <2>1 DEF AnswersAt, B
<1>15. Answers(base, more, longer, result, a)
  BY <1>14 DEF Answers
<1> QED BY <1>3, <1>4, <1>12, <1>15 DEF M, more

-----------------------------------------------------------------------------
(***************************************************************************)
(* The server's replies.                                                   *)
(***************************************************************************)

Serials(sql) == IF sql \in Reads THEN <<Len(executed) + 1>> ELSE <<>>

LEMMA SaidDescription ==
  ASSUME NEW base \in Seq(ServerFrame), NEW before, NEW frames, NEW shown, NEW sql,
         Extends(base, before, frames, shown), Quiet(base, frames),
         shown[Len(frames)].columns = <<>>
  PROVE  \E longer :
              /\ Extends(base, before, frames \o Description(sql), longer)
              /\ Quiet(base, frames \o Description(sql))
              /\ longer[Len(frames \o Description(sql))].columns = Columns(sql)
              /\ longer[Len(frames \o Description(sql))].rows = shown[Len(frames)].rows
              /\ longer[Len(frames \o Description(sql))].ready = shown[Len(frames)].ready
<1>0. frames \in Seq(ServerFrame)
  BY DEF Extends
<1>1. CASE sql \in Reads
  <2> DEFINE frame == [type |-> "T", columns |-> <<sql>>]
             more  == Append(frames, frame)
  <2>1. frame \in ServerFrame /\ frame.type = "T" /\ frame.columns = <<sql>>
    BY <1>1, StatementAssumption DEF ServerFrame
  <2>2. frames \o Description(sql) = more
    BY <1>0, <1>1, <2>1, Appended DEF Description
  <2> HIDE DEF frame
  <2>3. ~ Closes(frame)
    BY <2>1 DEF Closes
  <2>4. PICK longer :
          /\ Extends(base, before, more, longer) /\ Quiet(base, more)
          /\ longer[Len(more)] = Show(shown[Len(frames)], frame)
    BY <2>1, <2>3, SaidQuietly
  <2> HIDE DEF more
  <2>5. /\ longer[Len(more)].columns = <<sql>> /\ longer[Len(more)].rows = shown[Len(frames)].rows
        /\ longer[Len(more)].ready = shown[Len(frames)].ready
    BY <2>1, <2>3, <2>4 DEF Show
  <2> QED BY <1>1, <2>2, <2>4, <2>5 DEF Columns
<1>2. CASE sql \notin Reads
  <2>1. frames \o Description(sql) = frames
    BY <1>0, <1>2 DEF Description
  <2> QED BY <1>2, <2>1 DEF Columns
<1> QED BY <1>1, <1>2

LEMMA SaidRow ==
  ASSUME NEW base \in Seq(ServerFrame), NEW before, NEW frames, NEW shown, NEW sql,
         Extends(base, before, frames, shown), Quiet(base, frames),
         shown[Len(frames)].rows = <<>>, Len(executed) \in Nat
  PROVE  \E longer :
              /\ Extends(base, before, frames \o RowFrames(sql), longer)
              /\ Quiet(base, frames \o RowFrames(sql))
              /\ longer[Len(frames \o RowFrames(sql))].columns = shown[Len(frames)].columns
              /\ longer[Len(frames \o RowFrames(sql))].rows = Serials(sql)
              /\ longer[Len(frames \o RowFrames(sql))].ready = shown[Len(frames)].ready
<1>0. frames \in Seq(ServerFrame)
  BY DEF Extends
<1>1. CASE sql \in Reads
  <2> DEFINE frame == [type |-> "D", row |-> Len(executed) + 1]
             more  == Append(frames, frame)
  <2>1. frame \in ServerFrame /\ frame.type = "D" /\ frame.row = Len(executed) + 1
    BY DEF ServerFrame
  <2>2. frames \o RowFrames(sql) = more
    BY <1>0, <1>1, <2>1, Appended DEF RowFrames
  <2> HIDE DEF frame
  <2>3. ~ Closes(frame)
    BY <2>1 DEF Closes
  <2>4. PICK longer :
          /\ Extends(base, before, more, longer) /\ Quiet(base, more)
          /\ longer[Len(more)] = Show(shown[Len(frames)], frame)
    BY <2>1, <2>3, SaidQuietly
  <2> HIDE DEF more
  <2>5. Append(shown[Len(frames)].rows, frame.row) = <<Len(executed) + 1>>
    BY <2>1
  <2>6. /\ longer[Len(more)].columns = shown[Len(frames)].columns
        /\ longer[Len(more)].rows = <<Len(executed) + 1>>
        /\ longer[Len(more)].ready = shown[Len(frames)].ready
    BY <2>1, <2>3, <2>4, <2>5 DEF Show
  <2> QED BY <1>1, <2>2, <2>4, <2>6, Zenon DEF Serials
<1>2. CASE sql \notin Reads
  <2>1. frames \o RowFrames(sql) = frames
    BY <1>0, <1>2 DEF RowFrames
  <2> QED BY <1>2, <2>1 DEF Serials
<1> QED BY <1>1, <1>2

LEMMA SaidResult ==
  ASSUME NEW base \in Seq(ServerFrame), NEW before, NEW frames, NEW shown, NEW frame,
         Extends(base, before, frames, shown), Quiet(base, frames),
         Len(executed) \in Nat, frame \in {DoneFrame, ErrorFrame}
  PROVE  \E longer :
              /\ Extends(base, before, Append(frames, frame), longer)
              /\ Answers(base, Append(frames, frame), longer, frame, shown[Len(frames)])
              /\ longer[Len(Append(frames, frame))].columns = <<>>
              /\ longer[Len(Append(frames, frame))].rows = <<>>
              /\ longer[Len(Append(frames, frame))].ready = shown[Len(frames)].ready
<1>1. /\ frame \in ServerFrame /\ Closes(frame)
      /\ frame.type # "ssl" /\ frame.type # "T" /\ frame.type # "D" /\ frame.type # "Z"
  BY AnswersAreTyped DEF DoneFrame, ErrorFrame, Closes
<1>2. PICK longer :
        /\ Extends(base, before, Append(frames, frame), longer)
        /\ longer[Len(Append(frames, frame))] = Show(shown[Len(frames)], frame)
        /\ Answers(base, Append(frames, frame), longer, frame, shown[Len(frames)])
  BY <1>1, SaidQuietly
<1> QED BY <1>1, <1>2 DEF Show

\* What was there before the server's step.
LEMMA SaidNothing ==
  ASSUME NEW base \in Seq(ServerFrame), NEW before, Tells(base, before)
  PROVE  Extends(base, before, base, before) /\ Quiet(base, base)
<1>1. Len(base) \in Nat
  OBVIOUS
<1> QED BY <1>1 DEF Extends, Quiet

\* What closes a step leaves nothing shown: of the statement it answers, or of none.
Concludes(base, before, frames, shown, result, columns, rows, ready) ==
    /\ Extends(base, before, frames, shown)
    /\ \E a : /\ Answers(base, frames, shown, result, a)
              /\ a.columns = columns /\ a.rows = rows
    /\ shown[Len(frames)].columns = <<>> /\ shown[Len(frames)].rows = <<>>
    /\ shown[Len(frames)].ready = ready

LEMMA ConcludesResult ==
  ASSUME NEW base \in Seq(ServerFrame), NEW before, NEW frames, NEW shown, NEW frame,
         Extends(base, before, frames, shown), Quiet(base, frames),
         Len(executed) \in Nat, frame \in {DoneFrame, ErrorFrame}
  PROVE  \E longer : Concludes(base, before, Append(frames, frame), longer, frame,
                               shown[Len(frames)].columns, shown[Len(frames)].rows,
                               shown[Len(frames)].ready)
BY SaidResult DEF Concludes

LEMMA ConcludesReady ==
  ASSUME NEW base \in Seq(ServerFrame), NEW before, NEW frames, NEW shown, NEW frame,
         NEW columns, NEW rows, NEW ready,
         Concludes(base, before, frames, shown, frame, columns, rows, ready)
  PROVE  \E longer : Concludes(base, before, Append(frames, ReadyFrame), longer, frame,
                               columns, rows, ready + 1)
<1>1. PICK a : Answers(base, frames, shown, frame, a) /\ a.columns = columns /\ a.rows = rows
  BY DEF Concludes
<1>2. PICK longer :
        /\ Extends(base, before, Append(frames, ReadyFrame), longer)
        /\ longer[Len(Append(frames, ReadyFrame))] = Show(shown[Len(frames)], ReadyFrame)
        /\ Answers(base, Append(frames, ReadyFrame), longer, frame, a)
  BY <1>1, SaidReady DEF Concludes
<1>3. ~ Closes(ReadyFrame) /\ ReadyFrame.type = "Z"
  BY DEF ReadyFrame, Closes
<1> QED BY <1>1, <1>2, <1>3 DEF Concludes, Show

\* A row, if there is one, and the result.
LEMMA ExecuteReply ==
  ASSUME NEW base \in Seq(ServerFrame), NEW before, NEW frames, NEW shown, NEW sql, NEW frame,
         Extends(base, before, frames, shown), Quiet(base, frames),
         shown[Len(frames)].rows = <<>>, Len(executed) \in Nat,
         frame \in {DoneFrame, ErrorFrame}
  PROVE  \E longer : Concludes(base, before, (frames \o RowFrames(sql)) \o <<frame>>, longer,
                               frame, shown[Len(frames)].columns, Serials(sql),
                               shown[Len(frames)].ready)
<1> DEFINE more == frames \o RowFrames(sql)
<1>1. PICK longer :
        /\ Extends(base, before, more, longer) /\ Quiet(base, more)
        /\ longer[Len(more)].columns = shown[Len(frames)].columns
        /\ longer[Len(more)].rows = Serials(sql)
        /\ longer[Len(more)].ready = shown[Len(frames)].ready
  BY SaidRow
<1>2. more \in Seq(ServerFrame) /\ frame \in ServerFrame
  BY <1>1, AnswersAreTyped DEF Extends
<1> HIDE DEF more
<1>3. more \o <<frame>> = Append(more, frame)
  BY <1>2, Appended
<1>4. \E l : Concludes(base, before, Append(more, frame), l, frame,
                       longer[Len(more)].columns, longer[Len(more)].rows, longer[Len(more)].ready)
  BY <1>1, ConcludesResult
<1> QED BY <1>1, <1>3, <1>4, Zenon DEF more

LEMMA ConcludesExecute ==
  ASSUME NEW base \in Seq(ServerFrame), NEW before, NEW sql, NEW frame, Tells(base, before),
         before[Len(base)].rows = <<>>, Len(executed) \in Nat,
         frame \in {DoneFrame, ErrorFrame}
  PROVE  \E longer : Concludes(base, before, base \o (RowFrames(sql) \o <<frame>>), longer,
                               frame, before[Len(base)].columns, Serials(sql),
                               before[Len(base)].ready)
<1>1. \E longer : Concludes(base, before, (base \o RowFrames(sql)) \o <<frame>>, longer,
                            frame, before[Len(base)].columns, Serials(sql),
                            before[Len(base)].ready)
  BY SaidNothing, ExecuteReply
<1>2. RowFrames(sql) \in Seq(ServerFrame) /\ <<frame>> \in Seq(ServerFrame)
  BY AnswersAreTyped, ShortSeq
<1>3. (base \o RowFrames(sql)) \o <<frame>> = base \o (RowFrames(sql) \o <<frame>>)
  BY <1>2, Associate, Zenon
<1> QED BY <1>1, <1>3, Zenon

LEMMA ConcludesError ==
  ASSUME NEW base \in Seq(ServerFrame), NEW before, Tells(base, before), Len(executed) \in Nat
  PROVE  \E longer : Concludes(base, before, base \o <<ErrorFrame>>, longer, ErrorFrame,
                               before[Len(base)].columns, before[Len(base)].rows,
                               before[Len(base)].ready)
<1>1. base \o <<ErrorFrame>> = Append(base, ErrorFrame)
  BY AnswersAreTyped, Appended
<1> QED BY <1>1, SaidNothing, ConcludesResult, Zenon

LEMMA ConcludesRefusal ==
  ASSUME NEW base \in Seq(ServerFrame), NEW before, Tells(base, before), Len(executed) \in Nat
  PROVE  \E longer : Concludes(base, before, base \o <<ErrorFrame, ReadyFrame>>, longer,
                               ErrorFrame, before[Len(base)].columns, before[Len(base)].rows,
                               before[Len(base)].ready + 1)
<1>1. PICK longer : Concludes(base, before, base \o <<ErrorFrame>>, longer, ErrorFrame,
                              before[Len(base)].columns, before[Len(base)].rows,
                              before[Len(base)].ready)
  BY ConcludesError
<1>2. ErrorFrame \in ServerFrame /\ ReadyFrame \in ServerFrame
  BY AnswersAreTyped
<1>3. /\ base \o <<ErrorFrame>> = Append(base, ErrorFrame)
      /\ base \o <<ErrorFrame, ReadyFrame>> = Append(Append(base, ErrorFrame), ReadyFrame)
  BY <1>2, Appended
<1> QED BY <1>1, <1>3, ConcludesReady, Zenon

LEMMA ConcludesQuery ==
  ASSUME NEW base \in Seq(ServerFrame), NEW before, NEW sql, Tells(base, before),
         before[Len(base)].columns = <<>>, before[Len(base)].rows = <<>>, Len(executed) \in Nat
  PROVE  \E longer :
              Concludes(base, before,
                        base \o ((Description(sql) \o RowFrames(sql)) \o <<DoneFrame, ReadyFrame>>),
                        longer, DoneFrame, Columns(sql), Serials(sql),
                        before[Len(base)].ready + 1)
<1> DEFINE said == base \o Description(sql)
           more == (said \o RowFrames(sql)) \o <<DoneFrame>>
<1>1. PICK shown :
        /\ Extends(base, before, said, shown) /\ Quiet(base, said)
        /\ shown[Len(said)].columns = Columns(sql)
        /\ shown[Len(said)].rows = <<>>
        /\ shown[Len(said)].ready = before[Len(base)].ready
  BY SaidNothing, SaidDescription, SMTT(30)
<1>2. PICK longer : Concludes(base, before, more, longer, DoneFrame, Columns(sql), Serials(sql),
                              before[Len(base)].ready)
  <2> HIDE DEF said
  <2> QED BY <1>1, ExecuteReply
<1>3. \E l : Concludes(base, before, Append(more, ReadyFrame), l, DoneFrame, Columns(sql),
                       Serials(sql), before[Len(base)].ready + 1)
  <2> HIDE DEF more
  <2> QED BY <1>2, ConcludesReady
<1>4. PICK b, t, u :
        /\ b = base /\ t = Description(sql) /\ u = RowFrames(sql)
        /\ b \in Seq(ServerFrame) /\ t \in Seq(ServerFrame) /\ u \in Seq(ServerFrame)
  BY AnswersAreTyped
<1>5. DoneFrame \in ServerFrame /\ ReadyFrame \in ServerFrame
  BY AnswersAreTyped
<1>6. <<DoneFrame, ReadyFrame>> \in Seq(ServerFrame)
  BY <1>5, ShortSeq
<1>7. Append(((b \o t) \o u) \o <<DoneFrame>>, ReadyFrame)
        = ((b \o t) \o u) \o <<DoneFrame, ReadyFrame>>
  <2>1. PICK all : all = (b \o t) \o u /\ all \in Seq(ServerFrame)
    BY <1>4, Joined, Zenon
  <2>2. /\ all \o <<DoneFrame>> = Append(all, DoneFrame)
        /\ all \o <<DoneFrame, ReadyFrame>> = Append(Append(all, DoneFrame), ReadyFrame)
    BY <1>5, <2>1, Appended, SMTT(30)
  <2> QED BY <2>1, <2>2, Zenon
<1>8. ((b \o t) \o u) \o <<DoneFrame, ReadyFrame>> = b \o ((t \o u) \o <<DoneFrame, ReadyFrame>>)
  <2>1. PICK r : r = <<DoneFrame, ReadyFrame>>
    BY Zenon
  <2>2. r \in Seq(ServerFrame)
    BY <1>6, <2>1
  <2>3. PICK tu : tu = t \o u /\ tu \in Seq(ServerFrame)
    BY <1>4, Joined, Zenon
  <2>4. tu \in Seq(ServerFrame)
    BY <2>3
  <2>5. b \in Seq(ServerFrame)
    BY <1>4
  <2>6. (b \o tu) \o r = b \o (tu \o r)
    BY ONLY <2>2, <2>4, <2>5, Associate, Zenon
  <2>7. (b \o t) \o u = b \o (t \o u)
    BY ONLY <1>4, Associate, ZenonT(40)
  <2> QED BY ONLY <2>1, <2>3, <2>6, <2>7, Zenon
<1>9. Append(more, ReadyFrame)
        = base \o ((Description(sql) \o RowFrames(sql)) \o <<DoneFrame, ReadyFrame>>)
  BY <1>4, <1>7, <1>8, Zenon
<1> HIDE DEF more
<1> QED BY <1>3, <1>9, Zenon

-----------------------------------------------------------------------------
(***************************************************************************)
(* What it means to the results that the server runs one statement more.   *)
(***************************************************************************)

Grows(run) == run \in Run /\ executed \in Seq(Run) /\ executed' = Append(executed, run)

LEMMA RunsGrow ==
  ASSUME NEW run, Grows(run)
  PROVE  /\ Len(executed) \in Nat /\ Len(executed') = Len(executed) + 1
         /\ executed' \in Seq(Run) /\ executed'[Len(executed) + 1] = run
         /\ \A t \in 1 .. Len(executed) : executed'[t] = executed[t] /\ executed[t] \in Run
         /\ \A d : RunOn(d) \subseteq 1 .. Len(executed) /\ Len(executed) + 1 \notin RunOn(d)
         /\ \A d : d # run.on => RunOn(d)' = RunOn(d)
         /\ RunOn(run.on)' = RunOn(run.on) \union {Len(executed) + 1}
         /\ \A t \in 1 .. Len(executed) : ResultOf(t)' = ResultOf(t)
<1>1. /\ Len(executed) \in Nat /\ Len(executed') = Len(executed) + 1
      /\ executed' \in Seq(Run) /\ executed'[Len(executed) + 1] = run
      /\ \A t \in 1 .. Len(executed) : executed'[t] = executed[t] /\ executed[t] \in Run
  BY OneMore DEF Grows
<1>2. DOMAIN executed = 1 .. Len(executed) /\ DOMAIN executed' = 1 .. Len(executed')
  BY <1>1 DEF Grows
<1>3. \A d : RunOn(d) \subseteq 1 .. Len(executed) /\ Len(executed) + 1 \notin RunOn(d)
  BY <1>1, <1>2 DEF RunOn
<1>4. \A t : t \in 1 .. Len(executed') <=> t \in 1 .. Len(executed) \/ t = Len(executed) + 1
  BY <1>1
<1>5. \A d : d # run.on => RunOn(d)' = RunOn(d)
  BY <1>1, <1>2, <1>4 DEF RunOn
<1>6. RunOn(run.on)' = RunOn(run.on) \union {Len(executed) + 1}
  BY <1>1, <1>2, <1>4 DEF RunOn
<1>7. \A t \in 1 .. Len(executed) : ResultOf(t)' = ResultOf(t)
  BY <1>1 DEF ResultOf
<1> QED BY <1>1, <1>3, <1>5, <1>6, <1>7

LEMMA ResultedQuiet ==
  ASSUME NEW c \in Connection, NEW frames, NEW before, NEW more, NEW shown,
         frames \in Seq(ServerFrame), Resulted(c, frames, before), executed' = executed,
         Extends(frames, before, more, shown), Quiet(frames, more)
  PROVE  Resulted(c, more, shown)'
<1> DEFINE B == Len(frames)
           M == Len(more)
<1>1. /\ B \in Nat /\ M \in Nat /\ B <= M
      /\ \A i \in 1 .. B : more[i] = frames[i]
      /\ \A i \in 0 .. B : shown[i] = before[i]
      /\ \A j \in B + 1 .. M : ~ Closes(more[j])
  BY DEF Extends, Quiet
<1>2. RunOn(c)' = RunOn(c) /\ \A t : ResultOf(t)' = ResultOf(t)
  BY DEF RunOn, ResultOf
<1> HIDE DEF B, M
<1>3. \A j \in 1 .. M : Closes(more[j]) => j \in 1 .. B /\ j - 1 \in 0 .. B
  <2> TAKE j \in 1 .. M
  <2>1. j \in 1 .. B \/ j \in B + 1 .. M
    BY <1>1
  <2> QED BY <1>1, <2>1
<1>4. \A j \in 1 .. B : j \in 1 .. M
  BY <1>1
<1>5. \A j \in 1 .. M : Closes(more[j]) =>
        /\ SerialOf(more[j]) \in RunOn(c)
        /\ executed[SerialOf(more[j])].failed <=> more[j].type = "E"
        /\ more[j].type = "C" =>
                Result(shown[j - 1].columns, shown[j - 1].rows, more[j].tag) = ResultOf(more[j].tag)
  BY <1>1, <1>3 DEF Resulted, B
<1>6. \A i, j \in 1 .. M : i < j /\ Closes(more[i]) /\ Closes(more[j])
        => SerialOf(more[i]) < SerialOf(more[j])
  BY <1>1, <1>3 DEF Resulted, B
<1>7. \A s \in RunOn(c) : \E j \in 1 .. M : Closes(more[j]) /\ SerialOf(more[j]) = s
  BY <1>1, <1>4 DEF Resulted, B
<1> QED BY <1>2, <1>5, <1>6, <1>7 DEF Resulted, M

\* Another connection's statement is not among these results.
LEMMA ResultedStays ==
  ASSUME NEW c \in Connection, NEW frames, NEW shown, Resulted(c, frames, shown),
         NEW run, Grows(run), run.on # c
  PROVE  Resulted(c, frames, shown)'
<1>1. /\ RunOn(c)' = RunOn(c) /\ RunOn(c) \subseteq 1 .. Len(executed)
      /\ \A t \in 1 .. Len(executed) : executed'[t] = executed[t] /\ ResultOf(t)' = ResultOf(t)
  BY RunsGrow
<1>2. \A j \in 1 .. Len(frames) : Closes(frames[j]) =>
        /\ SerialOf(frames[j]) \in RunOn(c)
        /\ executed'[SerialOf(frames[j])].failed <=> frames[j].type = "E"
        /\ frames[j].type = "C" =>
                Result(shown[j - 1].columns, shown[j - 1].rows, frames[j].tag)
                    = ResultOf(frames[j].tag)'
  <2> SUFFICES ASSUME NEW j \in 1 .. Len(frames), Closes(frames[j])
               PROVE  /\ SerialOf(frames[j]) \in RunOn(c)
                      /\ executed'[SerialOf(frames[j])].failed <=> frames[j].type = "E"
                      /\ frames[j].type = "C" =>
                              Result(shown[j - 1].columns, shown[j - 1].rows, frames[j].tag)
                                  = ResultOf(frames[j].tag)'
    OBVIOUS
  <2>1. /\ SerialOf(frames[j]) \in RunOn(c)
        /\ executed[SerialOf(frames[j])].failed <=> frames[j].type = "E"
        /\ frames[j].type = "C" =>
              Result(shown[j - 1].columns, shown[j - 1].rows, frames[j].tag)
                  = ResultOf(frames[j].tag)
    BY DEF Resulted
  <2>2. SerialOf(frames[j]) \in 1 .. Len(executed)
    BY <1>1, <2>1
  <2>3. frames[j].type = "C" => frames[j].tag \in 1 .. Len(executed)
    BY <2>2 DEF SerialOf
  <2> QED BY <1>1, <2>1, <2>2, <2>3
<1> QED BY <1>1, <1>2 DEF Resulted

\* The result of the statement run goes behind the others.
LEMMA ResultedMore ==
  ASSUME NEW c \in Connection, NEW frames, NEW before, NEW more, NEW shown, NEW frame,
         NEW columns, NEW rows, NEW ready,
         frames \in Seq(ServerFrame), Resulted(c, frames, before),
         NEW run, Grows(run), run.on = c,
         Concludes(frames, before, more, shown, frame, columns, rows, ready),
         \/ /\ frame = ErrorFrame /\ run.failed
         \/ /\ frame = DoneFrame /\ ~ run.failed
            /\ columns = IF run.described THEN Columns(run.call[1]) ELSE <<>>
            /\ rows = Serials(run.call[1])
  PROVE  Resulted(c, more, shown)'
<1> DEFINE B == Len(frames)
           M == Len(more)
<1>0. PICK s : s = Len(executed) + 1
  OBVIOUS
<1>1. PICK a : Answers(frames, more, shown, frame, a) /\ a.columns = columns /\ a.rows = rows
  BY DEF Concludes
<1>2. PICK j : AnswersAt(frames, more, shown, j, frame, a)
  BY <1>1 DEF Answers
<1>3. /\ j \in B + 1 .. M /\ more[j] = frame /\ Closes(frame)
      /\ shown[j - 1].columns = columns /\ shown[j - 1].rows = rows
      /\ \A k \in B + 1 .. M : Closes(more[k]) => k = j
  BY <1>1, <1>2 DEF AnswersAt
<1>4. /\ B \in Nat /\ M \in Nat /\ B <= M
      /\ \A i \in 1 .. B : more[i] = frames[i]
      /\ \A i \in 0 .. B : shown[i] = before[i]
  BY DEF Extends, Concludes
<1>5. /\ Len(executed) \in Nat /\ executed'[s] = run
      /\ \A t \in 1 .. Len(executed) :
            executed'[t] = executed[t] /\ ResultOf(t)' = ResultOf(t)
      /\ RunOn(c) \subseteq 1 .. Len(executed) /\ s \notin RunOn(c)
      /\ RunOn(c)' = RunOn(c) \union {s}
  BY <1>0, RunsGrow, Zenon
<1>6. /\ SerialOf(frame) = s
      /\ run.failed <=> frame.type = "E"
      /\ frame.type = "C" => frame.tag = s
  BY <1>0 DEF ErrorFrame, DoneFrame, SerialOf
<1>7. frame.type = "C" => Result(columns, rows, s) = ResultOf(s)'
  <2>1. SUFFICES ASSUME frame.type = "C" PROVE Result(columns, rows, s) = ResultOf(s)'
    OBVIOUS
  <2>2. /\ ~ run.failed /\ columns = IF run.described THEN Columns(run.call[1]) ELSE <<>>
        /\ rows = Serials(run.call[1])
    BY <2>1 DEF ErrorFrame
  <2>3. ResultOf(s)' = IF run.call[1] \in Reads
                       THEN Result(IF run.described THEN <<run.call[1]>> ELSE <<>>, <<s>>, s)
                       ELSE Result(<<>>, <<>>, s)
    BY <1>5, <2>2 DEF ResultOf
  <2>4. CASE run.call[1] \in Reads
    BY <1>0, <2>2, <2>3, <2>4 DEF Columns, Serials
  <2>5. CASE run.call[1] \notin Reads
    BY <1>0, <2>2, <2>3, <2>5 DEF Columns, Serials
  <2> QED BY <2>4, <2>5
<1> HIDE DEF B, M
<1>8. /\ \A k \in 1 .. M : Closes(more[k]) => k = j \/ (k \in 1 .. B /\ k - 1 \in 0 .. B)
      /\ j \in 1 .. M /\ \A k \in 1 .. B : k \in 1 .. M /\ k < j
  <2>1. \A k \in 1 .. M : k \in B + 1 .. M \/ (k \in 1 .. B /\ k - 1 \in 0 .. B)
    BY <1>4
  <2> QED BY <1>3, <1>4, <2>1
<1>9. \A k \in 1 .. B : Closes(frames[k]) =>
        /\ SerialOf(frames[k]) \in RunOn(c)
        /\ executed[SerialOf(frames[k])].failed <=> frames[k].type = "E"
        /\ frames[k].type = "C" =>
                Result(before[k - 1].columns, before[k - 1].rows, frames[k].tag)
                    = ResultOf(frames[k].tag)
  BY DEF Resulted, B
<1>10. ASSUME NEW k \in 1 .. M, Closes(more[k])
       PROVE  /\ SerialOf(more[k]) \in RunOn(c) \union {s}
              /\ executed'[SerialOf(more[k])].failed <=> more[k].type = "E"
              /\ more[k].type = "C" =>
                    Result(shown[k - 1].columns, shown[k - 1].rows, more[k].tag)
                        = ResultOf(more[k].tag)'
  <2>1. CASE k = j
    <3>1. more[k] = frame /\ shown[k - 1].columns = columns /\ shown[k - 1].rows = rows
      BY <1>3, <2>1
    <3>2. frame.type = "C" =>
            Result(shown[k - 1].columns, shown[k - 1].rows, frame.tag) = ResultOf(frame.tag)'
      BY <1>6, <1>7, <3>1
    <3> QED BY <1>5, <1>6, <3>1, <3>2
  <2>2. CASE k \in 1 .. B /\ k - 1 \in 0 .. B
    <3>1. more[k] = frames[k] /\ shown[k - 1] = before[k - 1] /\ Closes(frames[k])
      BY <1>4, <1>10, <2>2
    <3>2. SerialOf(frames[k]) \in 1 .. Len(executed)
      BY <1>5, <1>9, <2>2, <3>1
    <3>3. frames[k].type = "C" => frames[k].tag \in 1 .. Len(executed)
      BY <3>2 DEF SerialOf
    <3>4. /\ SerialOf(frames[k]) \in RunOn(c)
          /\ executed[SerialOf(frames[k])].failed <=> frames[k].type = "E"
          /\ frames[k].type = "C" =>
                Result(before[k - 1].columns, before[k - 1].rows, frames[k].tag)
                    = ResultOf(frames[k].tag)
      BY <1>9, <2>2, <3>1
    <3> QED BY <1>5, <3>1, <3>2, <3>3, <3>4
  <2> QED BY <1>8, <1>10, <2>1, <2>2
<1>11. ASSUME NEW i \in 1 .. M, NEW k \in 1 .. M, i < k, Closes(more[i]), Closes(more[k])
       PROVE  SerialOf(more[i]) < SerialOf(more[k])
  <2>1. CASE k \in 1 .. B
    <3>1. i \in 1 .. B
      BY <1>4, <1>11, <2>1
    <3> QED BY <1>4, <1>11, <2>1, <3>1 DEF Resulted, B
  <2>2. CASE k = j
    <3>1. i \in 1 .. B
      BY <1>3, <1>8, <1>11, <2>2
    <3>2. SerialOf(more[i]) \in 1 .. Len(executed)
      BY <1>4, <1>5, <1>9, <1>11, <3>1
    <3>3. SerialOf(more[k]) = s
      BY <1>3, <1>6, <2>2
    <3> QED BY <1>0, <1>5, <3>2, <3>3
  <2> QED BY <1>8, <1>11, <2>1, <2>2
<1>12. ASSUME NEW t \in RunOn(c) \union {s}
       PROVE  \E k \in 1 .. M : Closes(more[k]) /\ SerialOf(more[k]) = t
  <2>1. CASE t = s
    BY <1>3, <1>6, <1>8, <2>1
  <2>2. CASE t \in RunOn(c)
    <3>1. PICK k \in 1 .. B : Closes(frames[k]) /\ SerialOf(frames[k]) = t
      BY <2>2 DEF Resulted, B
    <3> QED BY <1>4, <1>8, <3>1
  <2> QED BY <2>1, <2>2
<1> QED BY <1>5, <1>10, <1>11, <1>12 DEF Resulted, M

-----------------------------------------------------------------------------
(***************************************************************************)
(* What a step of one connection leaves of the others.                     *)
(***************************************************************************)

LEMMA ScriptedStays ==
  ASSUME NEW c \in Connection, NEW note, Scripted(c, note),
         sent'[c]["up"] = sent[c]["up"], asked'[c] = asked[c], syncs'[c] = syncs[c],
         known'[c] = known[c]
  PROVE  Scripted(c, note)'
<1>1. Up(c)' = Up(c) /\ (AskedForTls(c)' <=> AskedForTls(c))
  BY DEF Up, AskedForTls
<1> QED BY <1>1 DEF Scripted

LEMMA ServingStays ==
  ASSUME NEW c \in Connection, NEW note, Serving(c, note),
         sent'[c]["up"] = sent[c]["up"], served'[c] = served[c], RunOn(c)' = RunOn(c),
         Len(got[c]["up"]) \in Nat, Len(got'[c]["up"]) \in Nat, served[c] \in Nat,
         Len(got[c]["up"]) <= Len(got'[c]["up"]),
         skipping'[c] = skipping[c], told'[c] = told[c]
  PROVE  Serving(c, note)'
<1>1. Up(c)' = Up(c)
  BY DEF Up
<1>2. 2 * served[c] <= Len(got'[c]["up"])
  BY SMTT(30) DEF Serving
<1> QED BY <1>1, <1>2 DEF Serving

LEMMA SpokenStays ==
  ASSUME NEW c \in Connection, NEW note, NEW shown, Spoken(c, note, shown),
         sent'[c]["down"] = sent[c]["down"], served'[c] = served[c],
         skipping'[c] = skipping[c], asked'[c] = asked[c],
         Resulted(c, Down(c), shown)'
  PROVE  Spoken(c, note, shown)'
<1>1. Down(c)' = Down(c)
  BY DEF Down
<1> QED BY <1>1 DEF Spoken

LEMMA SingleStays ==
  ASSUME NEW c \in Connection, NEW note, Single(c, note),
         sent'[c]["up"] = sent[c]["up"], served'[c] = served[c]
  PROVE  Single(c, note)'
<1>1. Up(c)' = Up(c)
  BY DEF Up
<1> QED BY <1>1 DEF Single

\* As the proxy reads more of what the server wrote, less is left to answer for.
LEMMA LatelyStays ==
  ASSUME NEW c \in Connection, NEW note, NEW shown, Lately(c, note),
         sent'[c]["up"] = sent[c]["up"], sent'[c]["down"] = sent[c]["down"],
         served'[c] = served[c],
         Heard(c) \in Nat, Heard(c)' \in Nat, Heard(c) <= Heard(c)',
         Resulted(c, Down(c), shown), \A s \in RunOn(c) : executed'[s] = executed[s]
  PROVE  Lately(c, note)'
<1>1. Down(c)' = Down(c) /\ Up(c)' = Up(c)
  BY DEF Down, Up
<1>2. \A j \in 1 .. Len(Down(c)) : Closes(Down(c)[j]) =>
        executed'[SerialOf(Down(c)[j])] = executed[SerialOf(Down(c)[j])]
  BY DEF Resulted
<1>3. \A j \in Heard(c)' + 1 .. Len(Down(c)) :
        j \in Heard(c) + 1 .. Len(Down(c)) /\ j \in 1 .. Len(Down(c))
  OBVIOUS
<1>4. ASSUME NEW j \in Heard(c)' + 1 .. Len(Down(c)), Closes(Down(c)[j]),
             NEW i \in served[c] .. Len(Up(c))
      PROVE  /\ note[i].nth > 0
             /\ c \notin Pipelining =>
                    LET run == executed'[SerialOf(Down(c)[j])]
                    IN  note[i].sql = run.call[1] /\ (run.bound => note[i].params = run.call[2])
  BY <1>2, <1>3, <1>4 DEF Lately
<1> QED BY <1>1, <1>4 DEF Lately

LEMMA ReaderStays ==
  ASSUME NEW c \in Connection, NEW note, NEW shown, Reader(c, note, shown),
         sent'[c] = sent[c], wire'[c] = wire[c], recorder'[c] = recorder[c]
  PROVE  Reader(c, note, shown)'
<1>1. /\ Done(c, "up")' = Done(c, "up") /\ Done(c, "down")' = Done(c, "down")
      /\ Read(c)' = Read(c) /\ Heard(c)' = Heard(c)
  BY DEF Done, Read, Heard
<1> QED BY <1>1 DEF Reader

\* What a step adds to the list is of other connections than c.
AddsNothing(c) ==
    \E list \in Seq(Interaction) :
        /\ interactions' = interactions \o list
        /\ \A k \in 1 .. Len(list) : executed'[Ser(list[k])].on # c

LEMMA InListStays ==
  ASSUME interactions \in Seq(Interaction), NEW list \in Seq(Interaction),
         interactions' = interactions \o list, NEW s, InList(interactions, s)
  PROVE  InList(interactions', s)
<1>1. PICK k \in 1 .. Len(interactions) : Ser(interactions[k]) = s
  BY DEF InList
<1>2. k \in 1 .. Len(interactions') /\ interactions'[k] = interactions[k]
  OBVIOUS
<1> QED BY <1>1, <1>2 DEF InList

LEMMA ListedStays ==
  ASSUME NEW c \in Connection, Listed(c), interactions \in Seq(Interaction),
         Matched(interactions), AddsNothing(c),
         \A t \in 1 .. Len(executed) : executed'[t] = executed[t],
         sent'[c] = sent[c], wire'[c] = wire[c], got'[c] = got[c], bridge'[c] = bridge[c]
  PROVE  Listed(c)'
<1>1. Heard(c)' = Heard(c) /\ Down(c)' = Down(c)
  BY DEF Heard, Done, Down
<1>2. PICK list \in Seq(Interaction) :
        /\ interactions' = interactions \o list
        /\ \A k \in 1 .. Len(list) : executed'[Ser(list[k])].on # c
  BY Zenon DEF AddsNothing
<1>3. ASSUME NEW h, Kept(c, interactions, h) PROVE Kept(c, interactions', h)
  BY <1>2, <1>3, InListStays, Zenon DEF Kept
<1>4. ASSUME NEW k \in 1 .. Len(interactions'), executed'[Ser(interactions'[k])].on = c
      PROVE  /\ k \in 1 .. Len(interactions) /\ interactions'[k] = interactions[k]
             /\ executed[Ser(interactions[k])].on = c
  <2>1. \/ k \in 1 .. Len(interactions) /\ interactions'[k] = interactions[k]
        \/ \E i \in 1 .. Len(list) : interactions'[k] = list[i]
    <3>1. /\ Len(interactions) \in Nat /\ Len(list) \in Nat
          /\ Len(interactions') = Len(interactions) + Len(list)
          /\ interactions'[k] = IF k <= Len(interactions) THEN interactions[k]
                                ELSE list[k - Len(interactions)]
      BY <1>2
    <3>2. k > Len(interactions) => k - Len(interactions) \in 1 .. Len(list)
      BY <3>1
    <3> QED BY <3>1, <3>2
  <2>2. k \in 1 .. Len(interactions) /\ interactions'[k] = interactions[k]
    BY <1>2, <1>4, <2>1
  <2>3. Ser(interactions[k]) \in 1 .. Len(executed)
    BY <2>2 DEF Matched, Sound
  <2> QED BY <1>4, <2>2, <2>3
<1>5. Ahead(c, interactions, Heard(c)) => Ahead(c, interactions, Heard(c))'
  BY <1>1, <1>4, Zenon DEF Ahead
<1>6. Kept(c, interactions, Len(got[c]["down"]) \div 2)'
  BY <1>1, <1>3, Zenon DEF Listed, Kept
<1>7. bridge[c] = "open" => Kept(c, interactions, Heard(c))'
  BY <1>1, <1>3 DEF Listed, Kept
<1> QED BY <1>5, <1>6, <1>7, Zenon DEF Listed

\* Nothing that a connection's part of the invariant speaks of has changed but the list
\* and the statements run, and those for others.
Untouched(c) ==
    /\ sent'[c] = sent[c] /\ wire'[c] = wire[c] /\ got'[c] = got[c]
    /\ bridge'[c] = bridge[c] /\ recorder'[c] = recorder[c]
    /\ asked'[c] = asked[c] /\ known'[c] = known[c] /\ syncs'[c] = syncs[c]
    /\ served'[c] = served[c] /\ skipping'[c] = skipping[c] /\ told'[c] = told[c]

RunsNothing(c) == executed' = executed \/ \E run : Grows(run) /\ run.on # c

LEMMA ConnectedStays ==
  ASSUME Typed, Relayed, Matched(interactions),
         NEW c \in Connection, NEW note, NEW shown, Connected(c, note, shown),
         Untouched(c), RunsNothing(c), AddsNothing(c)
  PROVE  Connected(c, note, shown)'
<1>1. /\ RunOn(c)' = RunOn(c)
      /\ \A t \in 1 .. Len(executed) : executed'[t] = executed[t]
      /\ RunOn(c) \subseteq 1 .. Len(executed)
      /\ \A frames : Resulted(c, frames, shown) => Resulted(c, frames, shown)'
  <2>1. CASE executed' = executed
    <3>1. RunOn(c)' = RunOn(c) /\ \A t : ResultOf(t)' = ResultOf(t)
      BY <2>1 DEF RunOn, ResultOf
    <3>2. RunOn(c) \subseteq 1 .. Len(executed)
      BY DEF RunOn, Typed
    <3>3. \A frames : Resulted(c, frames, shown) => Resulted(c, frames, shown)'
      BY <2>1, <3>1 DEF Resulted
    <3> QED BY <2>1, <3>1, <3>2, <3>3
  <2>2. CASE \E run : Grows(run) /\ run.on # c
    BY <2>2, RunsGrow, ResultedStays
  <2> QED BY <2>1, <2>2 DEF RunsNothing
<1>2. Counts(c)
  BY StreamsCount
<1>3. Scripted(c, note)'
  BY ScriptedStays DEF Connected, Untouched
<1>4. Serving(c, note)'
  <2>1. served[c] \in Nat /\ Len(got[c]["up"]) <= Len(got'[c]["up"])
    BY <1>2 DEF Typed, Untouched, Counts
  <2> QED BY <1>1, <1>2, <2>1, ServingStays, Zenon DEF Connected, Untouched, Counts
<1>5. AskedForTls(c)' <=> AskedForTls(c)
  BY DEF AskedForTls, Untouched
<1>6. CASE AskedForTls(c)
  <2>1. Up(c)' = Up(c) /\ Done(c, "up")' = Done(c, "up") /\ Done(c, "down")' = Done(c, "down")
    BY DEF Up, Done, Untouched
  <2>2. (Astray(c)' <=> Astray(c)) /\ recorder'[c] = recorder[c] /\ sent'[c] = sent[c]
    BY <1>5 DEF Astray, Untouched
  <2>3. Unreading(c)' <=> Unreading(c)
    BY <1>1, <2>1, <2>2 DEF Unreading, UnreadingAt
  <2>4. Refusing(c)'
    BY <1>1, <1>6, <2>1, <2>3 DEF Refusing, Untouched, Connected
  <2> QED BY <1>3, <1>4, <1>5, <1>6, <2>4 DEF Connected
<1>7. CASE ~ AskedForTls(c)
  <2>1. Answering(c, note, shown)
    BY <1>7 DEF Connected
  <2>2. Spoken(c, note, shown) /\ Resulted(c, Down(c), shown)
    BY <2>1 DEF Answering, Spoken
  <2>3. PICK frames : frames = Down(c)
    OBVIOUS
  <2>4. Down(c)' = frames
    BY <2>3 DEF Down, Untouched
  <2>5. Resulted(c, frames, shown)'
    BY <1>1, <2>2, <2>3
  <2>6. Resulted(c, Down(c), shown)'
    BY <2>4, <2>5 DEF Resulted
  <2>7. Spoken(c, note, shown)'
    BY <2>2, <2>6, SpokenStays DEF Untouched
  <2>8. Single(c, note)'
    BY <2>1, SingleStays DEF Answering, Untouched
  <2>9. Heard(c)' = Heard(c) /\ Heard(c) \in Nat
    <3>1. Done(c, "down") \in Nat
      BY <1>2 DEF Counts
    <3> QED BY <3>1, Parity, Zenon DEF Heard, Done, Untouched
  <2>10. Lately(c, note)'
    <3>1. Heard(c) <= Heard(c)' /\ Heard(c)' \in Nat
      BY <2>9
    <3>2. \A s \in RunOn(c) : executed'[s] = executed[s]
      BY <1>1
    <3> QED BY <2>1, <2>2, <2>9, <3>1, <3>2, LatelyStays DEF Answering, Untouched
  <2>11. bridge[c] = "open" => Reader(c, note, shown)'
    BY <2>1, ReaderStays DEF Answering, Untouched
  <2>12. Listed(c)'
    BY <1>1, <2>1, ListedStays DEF Answering, Untouched, Typed
  <2>13. Answering(c, note, shown)'
    BY <2>1, <2>7, <2>8, <2>10, <2>11, <2>12 DEF Answering, Untouched
  <2> QED BY <1>3, <1>4, <1>5, <1>7, <2>13 DEF Connected
<1> QED BY <1>6, <1>7

-----------------------------------------------------------------------------
(***************************************************************************)
(* What a step leaves of the list, and of the streams.                     *)
(***************************************************************************)

\* The statements run before stay what they were, and those asked for.
Remembers ==
    /\ Len(executed) \in Nat /\ Len(executed') \in Nat /\ Len(executed) <= Len(executed')
    /\ \A t \in 1 .. Len(executed) :
            executed'[t] = executed[t] /\ ResultOf(t)' = ResultOf(t) /\ executed[t].on \in Connection
    /\ \A c \in Connection : \A m \in 1 .. Len(asked[c]) :
            m \in 1 .. Len(asked'[c]) /\ asked'[c][m] = asked[c][m]
    /\ \A c \in Connection : Astray(c) => Astray(c)'

LEMMA SoundStays ==
  ASSUME NEW x, Sound(x), Remembers
  PROVE  Sound(x)'
<1>1. Ser(x) \in 1 .. Len(executed)
  BY DEF Sound
<1>2. /\ Ser(x) \in 1 .. Len(executed') /\ executed'[Ser(x)] = executed[Ser(x)]
      /\ ResultOf(Ser(x))' = ResultOf(Ser(x)) /\ executed[Ser(x)].on \in Connection
  BY <1>1 DEF Remembers
<1>3. PICK c : c = executed[Ser(x)].on
  OBVIOUS
<1>4. CASE Astray(c)
  <2>1. Astray(c)'
    BY <1>2, <1>3, <1>4 DEF Remembers
  <2>2. Astray(executed[Ser(x)].on)'
    BY <1>2, <1>3, <2>1 DEF Astray, AskedForTls
  <2> QED BY <1>2, <2>2 DEF Sound
<1>5. CASE Faithful(x)
  <2>1. /\ c \notin Pipelining =>
              /\ x.sql = executed[Ser(x)].call[1]
              /\ executed[Ser(x)].bound => x.params = executed[Ser(x)].call[2]
        /\ \E m \in 1 .. Len(asked[c]) : x.sql = asked[c][m][1]
        /\ x.params = NoParams \/ \E m \in 1 .. Len(asked[c]) : x.params = asked[c][m][2]
        /\ x.result = ResultOf(Ser(x))
    BY <1>3, <1>5 DEF Faithful
  <2>2. /\ \E m \in 1 .. Len(asked'[c]) : x.sql = asked'[c][m][1]
        /\ x.params = NoParams \/ \E m \in 1 .. Len(asked'[c]) : x.params = asked'[c][m][2]
    BY <1>2, <1>3, <2>1, Zenon DEF Remembers
  <2>3. Faithful(x)'
    BY <1>2, <1>3, <2>1, <2>2 DEF Faithful
  <2> QED BY <1>2, <2>3 DEF Sound
<1> QED BY <1>3, <1>4, <1>5 DEF Sound

\* A connection that has gone astray stays astray.
LEMMA StillRising ==
  ASSUME NEW list, Rising(list), Remembers,
         \A k \in 1 .. Len(list) : Ser(list[k]) \in 1 .. Len(executed)
  PROVE  Rising(list)'
<1>1. ASSUME NEW j \in 1 .. Len(list), NEW k \in 1 .. Len(list), j < k,
             executed'[Ser(list[j])].on = executed'[Ser(list[k])].on,
             ~ Astray(executed[Ser(list[k])].on)'
      PROVE  Ser(list[j]) < Ser(list[k])
  <2>1. PICK c \in Connection : c = executed[Ser(list[k])].on
    BY DEF Remembers
  <2>2. executed[Ser(list[j])].on = c /\ executed'[Ser(list[k])].on = c
    BY <1>1, <2>1 DEF Remembers
  <2>3. ~ Astray(c)'
    BY <1>1, <2>2 DEF Astray, AskedForTls
  <2>4. ~ Astray(c)
    BY <2>3 DEF Remembers
  <2> QED BY <1>1, <2>1, <2>2, <2>4 DEF Rising
<1> QED BY <1>1 DEF Rising

LEMMA ListStays ==
  ASSUME Matched(interactions), Rising(interactions), Remembers, interactions' = interactions
  PROVE  Matched(interactions)' /\ Rising(interactions)'
<1>1. PICK list : list = interactions
  OBVIOUS
<1>2. Matched(list)' /\ Rising(list)'
  BY <1>1, SoundStays, StillRising DEF Matched, Sound
<1> QED BY <1>1, <1>2 DEF Matched, Rising

LEMMA RemembersRun ==
  ASSUME Typed, executed' = executed \/ \E run : Grows(run), asked' = asked,
         \A c \in Connection : Astray(c) => Astray(c)'
  PROVE  Remembers
<1>1. executed \in Seq(Run) /\ Len(executed) \in Nat
      /\ \A t \in 1 .. Len(executed) : executed[t].on \in Connection
  <2>1. executed \in Seq(Run)
    BY DEF Typed
  <2>2. Len(executed) \in Nat /\ \A t \in 1 .. Len(executed) : executed[t] \in Run
    BY <2>1
  <2> QED BY <2>1, <2>2 DEF Run
<1>2. CASE executed' = executed
  BY <1>1, <1>2 DEF Remembers, ResultOf
<1>3. CASE \E run : Grows(run)
  <2>1. PICK run : Grows(run)
    BY <1>3
  <2>2. /\ Len(executed') = Len(executed) + 1
        /\ \A t \in 1 .. Len(executed) : executed'[t] = executed[t] /\ ResultOf(t)' = ResultOf(t)
    BY <2>1, RunsGrow
  <2> QED BY <1>1, <2>2 DEF Remembers
<1> QED BY <1>2, <1>3

\* A write, as the reader of the stream sees it.
Wrote(c, d, bytes) ==
    /\ bytes \in Seq(Byte)
    /\ sent'[c][d] = sent[c][d] \o bytes /\ wire'[c][d] = wire[c][d] \o bytes
    /\ Len(sent'[c][d]) = Len(sent[c][d]) + Len(bytes)
    /\ Done(c, d)' = Done(c, d)
    /\ \A i \in 1 .. Len(sent[c][d]) : sent'[c][d][i] = sent[c][d][i]
    /\ \A e \in {"up", "down"} : e # d => sent'[c][e] = sent[c][e] /\ wire'[c][e] = wire[c][e]
    /\ \A b \in Connection : b # c => sent'[b] = sent[b] /\ wire'[b] = wire[b]
    /\ bridge[c] = "open"
    /\ UNCHANGED <<bridge, queue, got, ended, recorder, interactions>>

LEMMA WriteWrote ==
  ASSUME Relayed, NEW c \in Connection, NEW d \in {"up", "down"}, NEW bytes \in Seq(Byte),
         Proxy!Write(c, d, bytes)
  PROVE  Wrote(c, d, bytes)
<1>1. /\ wire' = [wire EXCEPT ![c][d] = @ \o bytes]
      /\ sent' = [sent EXCEPT ![c][d] = @ \o bytes]
  BY DEF Proxy!Write
<1>2. wire \in Flow /\ sent \in Flow
  BY DEF Relayed
<1>3. sent'[c][d] = sent[c][d] \o bytes /\ wire'[c][d] = wire[c][d] \o bytes
  BY <1>1, <1>2, Zenon DEF Flow
<1>4. \A e \in {"up", "down"} : e # d => sent'[c][e] = sent[c][e] /\ wire'[c][e] = wire[c][e]
  BY <1>1, <1>2 DEF Flow
<1>5. \A b \in Connection : b # c => sent'[b] = sent[b] /\ wire'[b] = wire[b]
  BY <1>1, <1>2 DEF Flow
<1>6. PICK s \in Seq(Byte), w \in Seq(Byte) : s = sent[c][d] /\ w = wire[c][d]
  BY <1>2 DEF Flow
<1>7. /\ Len(s \o bytes) = Len(s) + Len(bytes) /\ Len(w \o bytes) = Len(w) + Len(bytes)
      /\ Len(s) \in Nat /\ Len(w) \in Nat /\ Len(bytes) \in Nat
      /\ \A i \in 1 .. Len(s) : (s \o bytes)[i] = s[i]
  OBVIOUS
<1>8. Done(c, d)' = Done(c, d)
  <2>1. Done(c, d) = Len(s) - Len(w) /\ Done(c, d)' = Len(s \o bytes) - Len(w \o bytes)
    BY <1>3, <1>6 DEF Done
  <2> QED BY <1>7, <2>1
<1> QED BY <1>3, <1>4, <1>5, <1>6, <1>7, <1>8, Zenon DEF Wrote, Proxy!Write

LEMMA AstrayWrote ==
  ASSUME Relayed, NEW c \in Connection, NEW d \in {"up", "down"}, NEW bytes, Wrote(c, d, bytes)
  PROVE  \A b \in Connection : Astray(b) => Astray(b)'
<1> TAKE b \in Connection
<1>1. PICK s \in Seq(Byte) : s = sent[b]["up"]
  BY DEF Relayed, Flow
<1>2. bytes \in Seq(Byte) /\ (sent'[b]["up"] = s \/ sent'[b]["up"] = s \o bytes)
  <2>1. CASE b = c /\ d = "up"
    BY <1>1, <2>1 DEF Wrote
  <2>2. CASE b # c \/ d # "up"
    BY <1>1, <2>2 DEF Wrote
  <2> QED BY <2>1, <2>2 DEF Wrote
<1>3. s # <<>> => s \o bytes # <<>> /\ Head(s \o bytes) = Head(s)
  BY <1>2
<1>4. MisreadLength \in Nat /\ Len(s) <= Len(s \o bytes) /\ Len(s) \in Nat /\ Len(s \o bytes) \in Nat
  BY <1>2, MisreadAssumption
<1>5. AskedForTls(b) => AskedForTls(b)'
  BY <1>1, <1>2, <1>3, Zenon DEF AskedForTls
<1>6. Len(s) >= MisreadLength + 2 => Len(s \o bytes) >= MisreadLength + 2
  BY <1>4
<1> QED BY <1>1, <1>2, <1>5, <1>6, Zenon DEF Astray

\* A frame of a statement has one.
LEMMA OfStatement ==
  ASSUME NEW frames, NEW note, NEW runs, Leads(frames, note, runs), Len(frames) \in Nat,
         NEW i \in 0 .. Len(frames), note[i].type \in {"P", "B", "D", "E"}
  PROVE  note[i].nth > 0 /\ i > 0
<1>1. /\ note[0] = Blank
      /\ \A k \in 1 .. Len(frames) :
            note[k] = After(note[k - 1], frames[k]) /\ Follows(note[k - 1].type, frames[k].type)
      /\ \A k \in 0 .. Len(frames) : note[k].nth \in Nat
  BY DEF Leads, Note
<1>2. ASSUME NEW k \in 0 .. Len(frames), note[k].type # "none"
      PROVE  /\ k \in 1 .. Len(frames) /\ k - 1 \in 0 .. Len(frames)
             /\ note[k].nth >= note[k - 1].nth
             /\ note[k].type = frames[k].type /\ Follows(note[k - 1].type, note[k].type)
             /\ note[k].nth = IF Begins(note[k - 1].type, frames[k]) THEN note[k - 1].nth + 1
                              ELSE note[k - 1].nth
             /\ note[k].nth \in Nat /\ note[k - 1].nth \in Nat
  <2>1. k # 0
    BY <1>1, <1>2 DEF Blank
  <2>2. k \in 1 .. Len(frames) /\ k - 1 \in 0 .. Len(frames)
    BY <2>1
  <2>3. /\ note[k] = After(note[k - 1], frames[k])
        /\ Follows(note[k - 1].type, frames[k].type)
        /\ note[k].nth \in Nat /\ note[k - 1].nth \in Nat
    BY <1>1, <2>2
  <2>4. /\ note[k].type = frames[k].type
        /\ note[k].nth = IF Begins(note[k - 1].type, frames[k]) THEN note[k - 1].nth + 1
                          ELSE note[k - 1].nth
    BY <2>3 DEF After
  <2> QED BY <2>2, <2>3, <2>4
<1>3. ASSUME NEW k \in 0 .. Len(frames), note[k].type = "P" PROVE note[k].nth > 0
  <2>1. note[k].type # "none"
    BY <1>3
  <2>2. frames[k].type = "P"
    BY <1>2, <1>3, <2>1
  <2> QED BY <1>2, <2>1, <2>2, SMTT(30) DEF Begins
<1>4. ASSUME NEW k \in 0 .. Len(frames), note[k].type = "B" PROVE note[k].nth > 0
  <2>1. CASE note[k - 1].type = "P"
    <3>1. k - 1 \in 0 .. Len(frames) /\ note[k].nth >= note[k - 1].nth
      BY <1>2, <1>4, Zenon
    <3> QED BY <1>2, <1>3, <1>4, <2>1, <3>1
  <2>2. CASE note[k - 1].type # "P"
    BY <1>2, <1>4, <2>2, SMTT(30) DEF Begins
  <2> QED BY <2>1, <2>2
<1>5. ASSUME NEW k \in 0 .. Len(frames), note[k].type = "D" PROVE note[k].nth > 0
  <2>1. note[k - 1].type = "B" /\ k - 1 \in 0 .. Len(frames) /\ note[k].nth >= note[k - 1].nth
    BY <1>2, <1>5, Zenon DEF Follows, Ends
  <2> QED BY <1>2, <1>4, <1>5, <2>1
<1>6. ASSUME NEW k \in 0 .. Len(frames), note[k].type = "E" PROVE note[k].nth > 0
  <2>1. /\ note[k - 1].type \in {"B", "D"} /\ k - 1 \in 0 .. Len(frames)
        /\ note[k].nth >= note[k - 1].nth
    BY <1>2, <1>6, Zenon DEF Follows, Ends
  <2>2. note[k - 1].nth > 0
    BY <1>4, <1>5, <2>1
  <2>3. note[k].nth \in Nat /\ note[k - 1].nth \in Nat
    BY <1>1, <2>1
  <2> QED BY <2>1, <2>2, <2>3
<1>7. i > 0
  <2>1. note[i].type # "none"
    OBVIOUS
  <2>2. i \in 1 .. Len(frames)
    BY <1>2, <2>1
  <2> QED BY <2>2
<1> QED BY <1>3, <1>4, <1>5, <1>6, <1>7

-----------------------------------------------------------------------------
(***************************************************************************)
(* What a driver's write leaves of the rest of its connection.             *)
(***************************************************************************)

LEMMA DecodableFrames ==
  ASSUME NEW S, NEW bytes \in Seq(S), bytes = HalvesOf(Decodable(bytes))
  PROVE  /\ Decodable(bytes) \in Seq(S) /\ Len(Decodable(bytes)) \in Nat
         /\ Len(bytes) = 2 * Len(Decodable(bytes))
         /\ \A k \in 1 .. Len(bytes) : bytes[k] = Decodable(bytes)[(k + 1) \div 2]
         /\ \A k \in 1 .. Len(Decodable(bytes)) : bytes[2 * k] = Decodable(bytes)[k]
<1>1. Len(bytes) \in Nat /\ \A k \in 1 .. Len(bytes) : bytes[k] \in S
  OBVIOUS
<1>2. /\ Len(bytes) \div 2 \in Nat
      /\ \A k \in 1 .. Len(bytes) \div 2 : 2 * k \in 1 .. Len(bytes)
  BY <1>1
<1>3. Decodable(bytes) \in Seq(S)
  BY <1>1, <1>2 DEF Decodable
<1>4. PICK frames \in Seq(S) : frames = Decodable(bytes)
  BY <1>3
<1>5. bytes = HalvesOf(frames)
  BY <1>4
<1> QED BY <1>4, <1>5, HalvesOfFrames

LEMMA UpFrames ==
  ASSUME Typed, NEW c \in Connection, sent[c]["up"] = HalvesOf(Up(c))
  PROVE  /\ Up(c) \in Seq(Frame) /\ Len(Up(c)) \in Nat
         /\ Len(sent[c]["up"]) = 2 * Len(Up(c))
         /\ \A k \in 1 .. Len(sent[c]["up"]) : sent[c]["up"][k] = Up(c)[(k + 1) \div 2]
         /\ \A k \in 1 .. Len(Up(c)) : sent[c]["up"][2 * k] = Up(c)[k]
<1>1. PICK bytes : bytes = sent[c]["up"] /\ bytes \in Seq(Frame)
  BY DEF Typed
<1>2. bytes = HalvesOf(Decodable(bytes))
  BY <1>1 DEF Up
<1> QED BY <1>1, <1>2, DecodableFrames, Zenon DEF Up

LEMMA DownFrames ==
  ASSUME Typed, NEW c \in Connection, sent[c]["down"] = HalvesOf(Down(c))
  PROVE  /\ Down(c) \in Seq(ServerFrame) /\ Len(Down(c)) \in Nat
         /\ Len(sent[c]["down"]) = 2 * Len(Down(c))
         /\ \A k \in 1 .. Len(sent[c]["down"]) : sent[c]["down"][k] = Down(c)[(k + 1) \div 2]
         /\ \A k \in 1 .. Len(Down(c)) : sent[c]["down"][2 * k] = Down(c)[k]
<1>1. PICK bytes : bytes = sent[c]["down"] /\ bytes \in Seq(ServerFrame)
  BY DEF Typed
<1>2. bytes = HalvesOf(Decodable(bytes))
  BY <1>1 DEF Down
<1> QED BY <1>1, <1>2, DecodableFrames, Zenon DEF Down

\* The frames read are among those written.
LEMMA ReadWritten ==
  ASSUME NEW c \in Connection, Counts(c), NEW n \in Nat
  PROVE  /\ Len(sent[c]["up"]) = 2 * n => Read(c) \in Nat /\ Read(c) <= n
         /\ Len(sent[c]["down"]) = 2 * n => Heard(c) \in Nat /\ Heard(c) <= n
<1>1. \A d, l \in Nat : d <= l /\ l = 2 * n => d \div 2 \in Nat /\ d \div 2 <= n
  OBVIOUS
<1> QED BY <1>1, Zenon DEF Counts, Read, Heard

\* What the driver writes leaves as they were.
Speaks(c, note, longer, bytes) ==
    /\ Wrote(c, "up", bytes)
    /\ Len(Up(c)') \in Nat /\ Len(Up(c)) <= Len(Up(c)')
    /\ \A i \in 0 .. Len(Up(c)) : longer[i] = note[i]
    /\ \A m \in 1 .. Len(asked[c]) : asked'[c][m] = asked[c][m]
    /\ UNCHANGED <<served, skipping, told, executed>>

LEMMA ServingSpeaks ==
  ASSUME NEW c \in Connection, NEW note, NEW longer, NEW bytes, Serving(c, note),
         Speaks(c, note, longer, bytes), served[c] \in Nat, Len(Up(c)) \in Nat
  PROVE  Serving(c, longer)' /\ longer[served[c]] = note[served[c]]
<1>1. served[c] \in 0 .. Len(Up(c)) /\ served[c] <= Len(Up(c)')
  BY DEF Serving, Speaks
<1>2. longer[served[c]] = note[served[c]]
  BY <1>1 DEF Speaks
<1>3. RunOn(c)' = RunOn(c) /\ got' = got
  BY DEF RunOn, Speaks, Wrote
<1> QED BY <1>1, <1>2, <1>3 DEF Serving, Speaks

LEMMA ReaderSpeaks ==
  ASSUME NEW c \in Connection, NEW note, NEW shown, NEW longer, NEW bytes,
         Reader(c, note, shown), Speaks(c, note, longer, bytes), Counts(c),
         Len(Up(c)) \in Nat, Len(sent[c]["up"]) = 2 * Len(Up(c))
  PROVE  Reader(c, longer, shown)'
<1>1. /\ Done(c, "up")' = Done(c, "up") /\ Done(c, "down")' = Done(c, "down")
      /\ sent'[c]["down"] = sent[c]["down"]
  <2>1. Done(c, "up")' = Done(c, "up")
    BY DEF Speaks, Wrote
  <2>2. sent'[c]["down"] = sent[c]["down"] /\ wire'[c]["down"] = wire[c]["down"]
    BY DEF Speaks, Wrote
  <2> QED BY <2>1, <2>2, Zenon DEF Done
<1>2. Read(c)' = Read(c) /\ Heard(c)' = Heard(c)
  BY <1>1 DEF Read, Heard
<1>3. Read(c) \in Nat /\ Read(c) <= Len(Up(c))
  BY ReadWritten
<1>4. longer[Read(c)] = note[Read(c)]
  BY <1>3 DEF Speaks
<1>5. PICK buffer : buffer = recorder[c].clientBuffer
  OBVIOUS
<1>6. Len(buffer) = Done(c, "up") % 2
  BY <1>5 DEF Reader
<1>7. Len(buffer) \in Nat /\ Len(buffer) < 2 /\ 2 * Read(c) + Len(buffer) = Done(c, "up")
  <2>1. PICK d \in Nat : d = Done(c, "up")
    BY DEF Counts
  <2>2. Read(c) = d \div 2 /\ Len(buffer) = d % 2
    BY <1>6, <2>1 DEF Read
  <2> QED BY <2>1, <2>2, Parity
<1>8. \A i \in 1 .. Len(buffer) : 2 * Read(c) + i \in 1 .. Len(sent[c]["up"])
  BY <1>3, <1>7 DEF Counts
<1>9. \A i \in 1 .. Len(buffer) : buffer[i] = sent'[c]["up"][2 * Read(c) + i]
  <2>1. \A i \in 1 .. Len(buffer) : buffer[i] = sent[c]["up"][2 * Read(c) + i]
    BY <1>5 DEF Reader
  <2> QED BY <1>8, <2>1 DEF Speaks, Wrote
<1>10. recorder' = recorder
  BY DEF Speaks, Wrote
<1> QED BY <1>1, <1>2, <1>4, <1>5, <1>6, <1>9, <1>10 DEF Reader

LEMMA AnsweringSpeaks ==
  ASSUME Typed, Relayed, NEW c \in Connection, NEW note, NEW shown, NEW longer, NEW bytes,
         Scripted(c, note), Serving(c, note), Answering(c, note, shown),
         Speaks(c, note, longer, bytes), Single(c, longer)', Lately(c, longer)'
  PROVE  Answering(c, longer, shown)'
<1>1. Counts(c)
  BY StreamsCount
<1>2. /\ Len(Up(c)) \in Nat /\ Len(sent[c]["up"]) = 2 * Len(Up(c))
  BY UpFrames DEF Scripted
<1>3. served[c] \in Nat /\ served[c] \in 0 .. Len(Up(c)) /\ longer[served[c]] = note[served[c]]
  BY <1>2, ServingSpeaks DEF Typed, Serving
<1>4. note[served[c]].type = "D" =>
        asked'[c][note[served[c]].nth] = asked[c][note[served[c]].nth]
  <2>1. ASSUME note[served[c]].type = "D"
        PROVE  note[served[c]].nth \in 1 .. Len(asked[c])
    <3>1. Leads(Up(c), note, asked[c])
      BY DEF Scripted
    <3>2. note[served[c]].nth > 0
      BY <1>2, <1>3, <2>1, <3>1, OfStatement
    <3>3. note[served[c]].nth \in Nat /\ note[served[c]].nth <= Len(asked[c])
      BY <1>3, <3>1 DEF Leads, Note, Meant
    <3>4. Len(asked[c]) \in Nat
      BY DEF Typed
    <3> QED BY <3>2, <3>3, <3>4
  <2> QED BY <2>1 DEF Speaks
<1>5. sent'[c]["down"] = sent[c]["down"] /\ wire'[c]["down"] = wire[c]["down"]
  BY DEF Speaks, Wrote
<1>6. Down(c)' = Down(c) /\ Heard(c)' = Heard(c)
  BY <1>5 DEF Down, Heard, Done
<1>7. Spoken(c, longer, shown)'
  <2>1. RunOn(c)' = RunOn(c) /\ \A t : ResultOf(t)' = ResultOf(t)
    BY DEF RunOn, ResultOf, Speaks
  <2>2. Resulted(c, Down(c), shown)'
    <3>1. Resulted(c, Down(c), shown) /\ executed' = executed
      BY DEF Answering, Spoken, Speaks
    <3> QED BY <1>6, <2>1, <3>1 DEF Resulted
  <2>3. served' = served /\ skipping' = skipping
    BY DEF Speaks
  <2> QED BY <1>3, <1>4, <1>5, <1>6, <2>2, <2>3, Zenon DEF Spoken, Answering
<1>8. bridge[c] = "open" => Reader(c, longer, shown)'
  BY <1>1, <1>2, ReaderSpeaks DEF Answering
<1>9. Listed(c)'
  <2>1. UNCHANGED <<got, bridge, interactions, executed>>
    BY DEF Speaks, Wrote
  <2> QED BY <1>6, <2>1, Zenon DEF Listed, Kept, Ahead, Answering
<1>10. recorder' = recorder /\ bridge' = bridge
  BY DEF Speaks, Wrote
<1> QED BY <1>7, <1>8, <1>9, <1>10 DEF Answering

\* As far as a recorder asked for TLS goes, the driver only writes more.
LEMMA UnreadingSpeaks ==
  ASSUME NEW c \in Connection, NEW note, NEW longer, NEW bytes, Speaks(c, note, longer, bytes),
         Unreading(c), Counts(c), Relayed
  PROVE  Unreading(c)'
<1>1. Done(c, "up")' = Done(c, "up") /\ Done(c, "down")' = Done(c, "down") /\ recorder' = recorder
  <2>1. Done(c, "up")' = Done(c, "up")
    BY DEF Speaks, Wrote
  <2>2. sent'[c]["down"] = sent[c]["down"] /\ wire'[c]["down"] = wire[c]["down"]
    BY DEF Speaks, Wrote
  <2> QED BY <2>1, <2>2, Zenon DEF Done, Speaks, Wrote
<1>2. \A i \in 1 .. Len(sent[c]["up"]) : sent'[c]["up"][i] = sent[c]["up"][i]
  BY DEF Speaks, Wrote
<1>3. PICK d \in Nat, l \in Nat : d = Done(c, "up") /\ l = Len(sent[c]["up"]) /\ d <= l
  BY DEF Counts
<1>4. Astray(c) => Astray(c)'
  BY AstrayWrote DEF Speaks
<1>5. recorder[c].phase = "initial" =>
        \A i \in 1 .. Len(recorder[c].clientBuffer) :
            recorder[c].clientBuffer[i] = sent'[c]["up"][i]
  <2>1. ASSUME recorder[c].phase = "initial", NEW i \in 1 .. Len(recorder[c].clientBuffer)
        PROVE  i \in 1 .. l /\ recorder[c].clientBuffer[i] = sent[c]["up"][i]
    BY <1>3, <2>1 DEF Unreading, UnreadingAt
  <2> QED BY <1>2, <1>3, <2>1
<1>6. ASSUME recorder[c].phase = "running", ~ Astray(c)
      PROVE  \A i \in 1 .. Len(recorder[c].clientBuffer) :
                 recorder[c].clientBuffer[i] = sent'[c]["up"][2 + i]
  <2>1. Len(recorder[c].clientBuffer) = d - 2
    BY <1>3, <1>6 DEF Unreading, UnreadingAt
  <2>2. \A i \in 1 .. Len(recorder[c].clientBuffer) :
            2 + i \in 1 .. l /\ recorder[c].clientBuffer[i] = sent[c]["up"][2 + i]
    BY <1>3, <1>6, <2>1 DEF Unreading, UnreadingAt
  <2> QED BY <1>2, <1>3, <2>2, Zenon
<1>7. RunOn(c)' = RunOn(c)
  BY DEF Speaks, RunOn
<1> QED BY <1>1, <1>4, <1>5, <1>6, <1>7 DEF Unreading, UnreadingAt

-----------------------------------------------------------------------------
(***************************************************************************)
(* A driver that has all its answers.                                      *)
(***************************************************************************)

\* How many frames the driver has received.
Taken(c) == Len(got[c]["down"]) \div 2

LEMMA ReadyIs ==
  ASSUME Typed, Relayed, NEW c \in Connection, NEW shown, ~ AskedForTls(c),
         sent[c]["down"] = HalvesOf(Down(c)), Tells(Down(c), shown)
  PROVE  /\ Taken(c) \in 0 .. Len(Down(c)) /\ Len(Down(c)) \in Nat /\ Taken(c) <= Heard(c)
         /\ Heard(c) \in Nat /\ Heard(c) <= Len(Down(c))
         /\ Ready(c) = shown[Taken(c)].ready
         /\ \A j \in 0 .. Len(Down(c)) : shown[j].ready \in Nat
<1>1. /\ Len(Down(c)) \in Nat /\ Len(sent[c]["down"]) = 2 * Len(Down(c))
      /\ \A k \in 1 .. Len(Down(c)) : sent[c]["down"][2 * k] = Down(c)[k]
  BY DownFrames
<1>2. Counts(c)
  BY StreamsCount
<1>3. Heard(c) \in Nat /\ Heard(c) <= Len(Down(c))
  BY <1>1, <1>2, ReadWritten, Zenon
<1>4. Taken(c) \in Nat /\ Taken(c) <= Heard(c)
  BY <1>2, HalfGrows, Zenon DEF Counts, Taken, Heard
<1>5. PICK g \in Nat : g = Taken(c) /\ g <= Len(Down(c))
  BY <1>1, <1>3, <1>4
<1>6. PICK l \in Nat : l = Len(got[c]["down"]) /\ g = l \div 2
  BY <1>2, <1>5, Zenon DEF Counts, Taken
<1>7. \A i \in 1 .. l : got[c]["down"][i] = sent[c]["down"][i]
  BY <1>6 DEF Relayed, Streamed
<1>8. \A k \in 1 .. g : 2 * k \in 1 .. l /\ k \in 1 .. Len(Down(c))
  <2>1. g = l \div 2
    BY <1>6
  <2>2. \A k \in 1 .. g : 2 * k \in 1 .. l
    BY ONLY <2>1, Parity
  <2>3. \A k \in 1 .. g : k \in 1 .. Len(Down(c))
    BY <1>1, <1>5
  <2> QED BY <2>2, <2>3
<1>9. Received(c) = [k \in 1 .. g |-> got[c]["down"][2 * k]]
  BY <1>6 DEF Received, SslAnswered, Decodable
<1>10. {k \in DOMAIN Received(c) : Received(c)[k].type = "Z"}
        = {k \in 1 .. g : Down(c)[k].type = "Z"}
  BY <1>1, <1>7, <1>8, <1>9
<1>11. Ready(c) = shown[g].ready
  <2>1. g \in 0 .. Len(Down(c))
    BY <1>1, <1>5
  <2> QED BY <1>10, <2>1 DEF Ready, Tells
<1>12. \A j \in 0 .. Len(Down(c)) : shown[j].ready \in Nat
  BY Zenon DEF Tells, Account
<1> QED BY <1>1, <1>3, <1>4, <1>5, <1>11, <1>12

LEMMA AllAnswered ==
  ASSUME Typed, Relayed, NEW c \in Connection, NEW note, NEW shown, ~ AskedForTls(c),
         Scripted(c, note), Serving(c, note), Spoken(c, note, shown)
  PROVE  /\ Ready(c) \in Nat /\ Ready(c) <= syncs[c]
         /\ syncs[c] > 0 /\ Ready(c) = syncs[c] =>
              served[c] = Len(Up(c)) /\ Taken(c) = Len(Down(c)) /\ Heard(c) = Len(Down(c))
<1> DEFINE N == Len(Up(c))
           M == Len(Down(c))
           n == note[served[c]]
<1>1. /\ Taken(c) \in 0 .. M /\ M \in Nat /\ Taken(c) <= Heard(c) /\ Heard(c) \in Nat /\ Heard(c) <= M
      /\ Ready(c) = shown[Taken(c)].ready
      /\ \A j \in 0 .. M : shown[j].ready \in Nat
  BY ReadyIs DEF Spoken
<1>2. N \in Nat /\ served[c] \in 0 .. N
  BY UpFrames DEF Scripted, Serving, Typed
<1>3. /\ \A i \in 1 .. N :
            note[i] = After(note[i - 1], Up(c)[i]) /\ Follows(note[i - 1].type, Up(c)[i].type)
      /\ \A i \in 0 .. N : note[i] \in Note /\ Meant(note[i], asked[c])
      /\ \A i, j \in 0 .. N : i <= j => note[i].nth <= note[j].nth /\ note[i].ends <= note[j].ends
      /\ note[N].type \in Ends \union Starting /\ note[N].ends = syncs[c]
  BY DEF Scripted, Leads
<1>4. \A i \in 0 .. N : note[i].ends \in Nat
  BY <1>3 DEF Note
<1>5. /\ \A i, j \in 0 .. M : i <= j => shown[i].ready <= shown[j].ready
      /\ \A j \in 1 .. M : shown[j] = Show(shown[j - 1], Down(c)[j])
      /\ shown[M].ready = n.ends
      /\ n.type \in Ends => M > 0 /\ Down(c)[M].type = "Z"
  BY DEF Spoken, Tells
<1> HIDE DEF N, M
<1>6. shown[Taken(c)].ready <= shown[M].ready
  BY <1>1, <1>5
<1>7. n.ends <= syncs[c] /\ syncs[c] \in Nat /\ n.ends \in Nat
  <2>1. N \in 0 .. N
    BY <1>2
  <2> QED BY <1>2, <1>3, <1>4, <2>1
<1>8. Ready(c) \in Nat /\ Ready(c) <= syncs[c]
  BY <1>1, <1>5, <1>6, <1>7
<1>9. ASSUME syncs[c] > 0, Ready(c) = syncs[c]
      PROVE  served[c] = N /\ Taken(c) = M /\ Heard(c) = M
  <2>1. n.ends = syncs[c] /\ shown[M].ready = syncs[c] /\ shown[Taken(c)].ready = syncs[c]
    <3>1. shown[Taken(c)].ready = syncs[c]
      BY <1>1, <1>9
    <3>2. syncs[c] <= n.ends
      BY <1>5, <1>6, <3>1
    <3> QED BY <1>5, <1>7, <3>1, <3>2
  <2>2. N \in 0 .. N
    BY <1>2
  <2>3. note[N].type \in Ends
    BY <1>3, <1>9, <2>2 DEF Meant
  <2>4. served[c] = N
    <3>1. SUFFICES ASSUME served[c] # N PROVE FALSE
      OBVIOUS
    <3>2. N \in 1 .. N /\ N - 1 \in 0 .. N /\ served[c] <= N - 1
      BY <1>2, <3>1
    <3>3. note[N].ends = note[N - 1].ends + 1
      <4>1. note[N] = After(note[N - 1], Up(c)[N])
        BY <1>3, <3>2
      <4>2. note[N].type = Up(c)[N].type
        BY <4>1 DEF After
      <4> QED BY <2>3, <4>1, <4>2 DEF After
    <3>4. n.ends <= note[N - 1].ends
      BY <1>2, <1>3, <3>2
    <3> QED BY <1>3, <1>4, <1>7, <2>1, <3>2, <3>3, <3>4
  <2>5. M > 0 /\ Down(c)[M].type = "Z"
    BY <1>5, <2>3, <2>4
  <2>6. Taken(c) = M
    <3>1. SUFFICES ASSUME Taken(c) # M PROVE FALSE
      OBVIOUS
    <3>2. M \in 1 .. M /\ M - 1 \in 0 .. M /\ Taken(c) <= M - 1 /\ M \in 0 .. M
      BY <1>1, <3>1
    <3>3. shown[M].ready = shown[M - 1].ready + 1
      <4>1. shown[M] = Show(shown[M - 1], Down(c)[M])
        BY <1>5, <3>2
      <4> QED BY <2>5, <4>1 DEF Show
    <3>4. shown[Taken(c)].ready <= shown[M - 1].ready
      BY <1>1, <1>5, <3>2
    <3> QED BY <1>1, <2>1, <3>2, <3>3, <3>4
  <2> QED BY <1>1, <2>4, <2>6
<1> QED BY <1>8, <1>9 DEF N, M

\* A driver that has sent its startup is between two round trips.
LEMMA StartedIsBetween ==
  ASSUME Typed, NEW c \in Connection, NEW note, Scripted(c, note), syncs[c] > 0
  PROVE  Between(Up(c), note, known[c], asked[c], syncs[c]) /\ Len(Up(c)) > 0
<1>1. Up(c) \in Seq(Frame) /\ Len(Up(c)) \in Nat
  BY UpFrames DEF Scripted
<1>2. asked[c] \in Calls /\ syncs[c] \in Nat /\ known[c] \in Prepared
  BY DEF Typed, Calls
<1>3. /\ Leads(Up(c), note, asked[c]) /\ note[Len(Up(c))].type \in Ends \union Starting
      /\ note[Len(Up(c))].nth = Len(asked[c]) /\ note[Len(Up(c))].ends = syncs[c]
      /\ Agrees(note[Len(Up(c))], known[c])
  BY DEF Scripted, Agrees
<1>4. note[Len(Up(c))] \in Note /\ Meant(note[Len(Up(c))], asked[c])
  BY <1>1, <1>3 DEF Leads
<1>5. note[Len(Up(c))].type \in Ends
  BY <1>3, <1>4 DEF Meant
<1>6. Len(Up(c)) # 0
  BY <1>3, <1>5 DEF Leads, Blank, Ends
<1> QED BY <1>1, <1>2, <1>3, <1>4, <1>5, <1>6 DEF Between, Stands

-----------------------------------------------------------------------------
(***************************************************************************)
(* The driver's steps.                                                     *)
(***************************************************************************)

LEMMA WroteFrames ==
  ASSUME NEW S, NEW before \in Seq(S), NEW news \in Seq(S),
         before = HalvesOf(Decodable(before))
  PROVE  /\ before \o HalvesOf(news) \in Seq(S)
         /\ Decodable(before \o HalvesOf(news)) = Decodable(before) \o news
         /\ before \o HalvesOf(news) = HalvesOf(Decodable(before) \o news)
<1>1. PICK frames \in Seq(S) : frames = Decodable(before)
  BY DecodableFrames
<1>2. before \o HalvesOf(news) = HalvesOf(frames \o news) /\ frames \o news \in Seq(S)
  BY <1>1, HalvesJoined, Zenon
<1> QED BY <1>1, <1>2, HalvesOfFrames, Zenon

LEMMA WroteUp ==
  ASSUME Typed, NEW c \in Connection, sent[c]["up"] = HalvesOf(Up(c)),
         NEW news \in Seq(Frame), Wrote(c, "up", HalvesOf(news))
  PROVE  /\ Up(c)' = Up(c) \o news /\ sent'[c]["up"] = HalvesOf(Up(c)')
         /\ sent'[c]["up"] \in Seq(Frame) /\ Len(Up(c)') = Len(Up(c)) + Len(news)
<1>1. PICK before, after :
        /\ before = sent[c]["up"] /\ before \in Seq(Frame)
        /\ after = sent'[c]["up"] /\ after = before \o HalvesOf(news)
  BY Zenon DEF Typed, Wrote
<1>2. before = HalvesOf(Decodable(before))
  BY <1>1 DEF Up
<1>3. /\ after \in Seq(Frame) /\ Decodable(after) = Decodable(before) \o news
      /\ after = HalvesOf(Decodable(after))
  <2>1. /\ before \o HalvesOf(news) \in Seq(Frame)
        /\ Decodable(before \o HalvesOf(news)) = Decodable(before) \o news
        /\ before \o HalvesOf(news) = HalvesOf(Decodable(before) \o news)
    BY <1>1, <1>2, WroteFrames, Zenon
  <2> QED BY <1>1, <2>1
<1>4. Up(c) = Decodable(before) /\ Up(c)' = Decodable(after)
  BY <1>1 DEF Up
<1>5. Len(Up(c) \o news) = Len(Up(c)) + Len(news)
  BY UpFrames
<1> QED BY <1>1, <1>3, <1>4, <1>5, Zenon

LEMMA HalvesOne == \A frame : Halves(frame) = HalvesOf(<<frame>>)
<1> SUFFICES ASSUME NEW frame PROVE Halves(frame) = HalvesOf(<<frame>>)
  BY Zenon
<1>1. /\ HalvesOf(<<frame>>) \in Seq({frame}) /\ Len(HalvesOf(<<frame>>)) = 2
      /\ \A k \in 1 .. 2 : HalvesOf(<<frame>>)[k] = <<frame>>[(k + 1) \div 2]
  <2>1. PICK frames : /\ frames = <<frame>> /\ frames \in Seq({frame}) /\ Len(frames) = 1
    <3>1. <<frame>> \in Seq({frame}) /\ Len(<<frame>>) = 1
      OBVIOUS
    <3> QED BY <3>1, Zenon
  <2>2. /\ HalvesOf(frames) \in Seq({frame}) /\ Len(HalvesOf(frames)) = 2 * Len(frames)
        /\ \A k \in 1 .. 2 * Len(frames) : HalvesOf(frames)[k] = frames[(k + 1) \div 2]
    BY <2>1, HalvesOfFrames, ZenonT(40)
  <2> QED BY <2>1, <2>2
<1>2. HalvesOf(<<frame>>)[1] = frame /\ HalvesOf(<<frame>>)[2] = frame
  BY <1>1
<1>3. <<frame, frame>> \in Seq({frame}) /\ Len(<<frame, frame>>) = 2
  OBVIOUS
<1>4. \A i \in 1 .. 2 : HalvesOf(<<frame>>)[i] = <<frame, frame>>[i]
  BY <1>2
<1> QED BY <1>1, <1>3, <1>4, SeqEqual DEF Halves

\* A driver that has not sent its startup has sent nothing, or asked for TLS.
LEMMA Unstarted ==
  ASSUME Typed, NEW c \in Connection, NEW note, Scripted(c, note), syncs[c] = 0
  PROVE  /\ Up(c) \in Seq(Frame) /\ sent[c]["up"] = HalvesOf(Up(c))
         /\ note[Len(Up(c))] \in Note /\ note[Len(Up(c))].ends = 0
         /\ ~ AskedForTls(c) => /\ Len(Up(c)) = 0 /\ sent[c]["up"] = <<>>
                                /\ note[Len(Up(c))].type = "none"
         /\ AskedForTls(c) => Len(Up(c)) = 1 /\ note[Len(Up(c))].type = "SSLRequest"
<1> DEFINE N == Len(Up(c))
<1>1. /\ Up(c) \in Seq(Frame) /\ N \in Nat /\ Len(sent[c]["up"]) = 2 * N
      /\ \A k \in 1 .. Len(sent[c]["up"]) : sent[c]["up"][k] = Up(c)[(k + 1) \div 2]
  BY UpFrames DEF Scripted
<1>2. /\ note[0] = Blank /\ note[N].ends = 0
      /\ \A i \in 1 .. N :
            note[i] = After(note[i - 1], Up(c)[i]) /\ Follows(note[i - 1].type, Up(c)[i].type)
      /\ \A i \in 0 .. N : note[i] \in Note
      /\ \A i, j \in 0 .. N : i <= j => note[i].ends <= note[j].ends
      /\ AskedForTls(c) => Up(c)[1].type = "SSLRequest" /\ N = 1
  BY DEF Scripted, Leads
<1>3. sent[c]["up"] \in Seq(Frame)
  BY DEF Typed
<1> HIDE DEF N
<1>4. N \in 0 .. N /\ 0 \in 0 .. N
  BY <1>1
<1>5. ASSUME N > 0
      PROVE  /\ note[1].type = Up(c)[1].type
             /\ Up(c)[1].type = "SSLRequest" /\ AskedForTls(c)
  <2>1. 1 \in 1 .. N /\ 1 \in 0 .. N /\ 1 <= N
    BY <1>1, <1>5
  <2>2. note[1 - 1] = Blank
    BY <1>2
  <2>3. note[1] = After(Blank, Up(c)[1]) /\ Follows("none", Up(c)[1].type)
    BY <1>2, <2>1, <2>2 DEF Blank
  <2>4. Up(c)[1].type \in {"SSLRequest", "Startup"} /\ note[1].type = Up(c)[1].type
    BY <2>3 DEF Follows, After, Ends
  <2>5. note[1].ends <= 0 /\ note[1].ends \in Nat
    BY <1>2, <1>4, <2>1 DEF Note
  <2>6. Up(c)[1].type # "Startup"
    BY <2>3, <2>5 DEF After, Blank, Ends
  <2>7. sent[c]["up"] # <<>> /\ Head(sent[c]["up"]) = Up(c)[1]
    <3>1. 1 \in 1 .. Len(sent[c]["up"]) /\ (1 + 1) \div 2 = 1
      BY <1>1, <1>5
    <3>2. sent[c]["up"][1] = Up(c)[1]
      BY <1>1, <3>1
    <3> QED BY <1>3, <3>1, <3>2
  <2> QED BY <2>4, <2>6, <2>7 DEF AskedForTls
<1>6. N = 0 => sent[c]["up"] = <<>> /\ note[N].type = "none" /\ ~ AskedForTls(c)
  BY <1>1, <1>2, <1>3 DEF Blank, AskedForTls
<1>7. ~ AskedForTls(c) => N = 0
  BY <1>1, <1>5
<1>8. AskedForTls(c) => N = 1 /\ note[N].type = "SSLRequest"
  BY <1>2, <1>5
<1> QED BY <1>1, <1>2, <1>4, <1>6, <1>7, <1>8 DEF N, Scripted

\* The first frames, that are no statement's.
LEMMA ScriptedStart ==
  ASSUME Typed, NEW c \in Connection, NEW note, Scripted(c, note), syncs[c] = 0,
         NEW frame \in Frame, frame.type \in {"SSLRequest", "Startup"},
         frame.type = "SSLRequest" => ~ AskedForTls(c),
         Wrote(c, "up", HalvesOf(<<frame>>)), asked' = asked, known' = known,
         syncs'[c] = IF frame.type = "Startup" THEN 1 ELSE 0
  PROVE  \E longer :
              /\ Scripted(c, longer)' /\ \A i \in 0 .. Len(Up(c)) : longer[i] = note[i]
              /\ Up(c)' = Append(Up(c), frame) /\ Len(Up(c)') = Len(Up(c)) + 1
              /\ sent'[c]["up"] \in Seq(Frame)
              /\ AskedForTls(c)' <=> AskedForTls(c) \/ frame.type = "SSLRequest"
<1> DEFINE base == Up(c)
           N    == Len(base)
           n    == note[N]
           all  == Append(base, frame)
<1>1. /\ base \in Seq(Frame) /\ sent[c]["up"] = HalvesOf(base)
      /\ n \in Note /\ n.ends = 0
      /\ ~ AskedForTls(c) => N = 0 /\ sent[c]["up"] = <<>> /\ n.type = "none"
      /\ AskedForTls(c) => N = 1 /\ n.type = "SSLRequest"
  BY Unstarted
<1>2. <<frame>> \in Seq(Frame) /\ base \o <<frame>> = all
  BY <1>1, Appended, ShortSeq
<1>3. Up(c)' = all /\ sent'[c]["up"] = HalvesOf(Up(c)') /\ sent'[c]["up"] \in Seq(Frame)
  BY <1>1, <1>2, WroteUp, Zenon
<1>4. /\ N \in Nat /\ Len(all) = N + 1 /\ all[N + 1] = frame
      /\ \A i \in 1 .. N : all[i] = base[i]
  BY <1>1, OneMore
<1>5. Leads(base, note, asked[c]) /\ Meant(n, asked[c])
  BY <1>1, <1>4 DEF Scripted, Leads
<1>6. /\ After(n, frame).type = frame.type /\ After(n, frame).nth = n.nth
      /\ After(n, frame).ends = IF frame.type = "Startup" THEN 1 ELSE 0
      /\ After(n, frame).prepared = n.prepared
      /\ After(n, frame).sql = n.sql /\ After(n, frame).params = n.params
      /\ Follows(n.type, frame.type)
  BY <1>1 DEF After, Begins, Ends, Follows
<1>7. Meant(After(n, frame), asked[c])
  <2>1. n.type # "P" /\ frame.type # "P"
    BY <1>1
  <2> QED BY <1>5, <1>6, <2>1 DEF Meant, Starting
<1>8. PICK longer :
        /\ Leads(all, longer, asked[c])
        /\ \A i \in 0 .. N : longer[i] = note[i]
        /\ longer[N + 1] = After(n, frame)
  BY <1>1, <1>5, <1>6, <1>7, OneMoreFrame
<1>9. AskedForTls(c)' <=> AskedForTls(c) \/ frame.type = "SSLRequest"
  <2>1. Head(sent'[c]["up"]) = all[1] /\ sent'[c]["up"] # <<>>
    <3>1. all \in Seq(Frame) /\ Len(all) >= 1
      BY <1>1, <1>4
    <3>2. /\ HalvesOf(all) \in Seq(Frame) /\ Len(HalvesOf(all)) = 2 * Len(all)
          /\ \A k \in 1 .. 2 * Len(all) : HalvesOf(all)[k] = all[(k + 1) \div 2]
      <4> HIDE DEF all
      <4> QED BY <3>1, HalvesOfFrames
    <3>3. (1 + 1) \div 2 = 1 /\ 1 \in 1 .. 2 * Len(all)
      BY <3>1
    <3> QED BY <1>3, <3>1, <3>2, <3>3
  <2>2. CASE ~ AskedForTls(c)
    <3>1. all[1] = frame
      BY <1>1, <1>4, <2>2
    <3> QED BY <2>1, <2>2, <3>1 DEF AskedForTls
  <2>3. CASE AskedForTls(c)
    <3>1. base[1].type = "SSLRequest" /\ all[1] = base[1]
      BY <1>1, <1>4, <2>3 DEF Scripted
    <3> QED BY <2>1, <2>3, <3>1 DEF AskedForTls
  <2> QED BY <2>2, <2>3
<1>10. AskedForTls(c)' => all[1].type = "SSLRequest" /\ (syncs'[c] = 0 => N + 1 = 1)
  <2>1. CASE AskedForTls(c)
    BY <1>1, <1>4, <2>1 DEF Scripted
  <2>2. CASE ~ AskedForTls(c)
    BY <1>1, <1>4, <1>9, <2>2
  <2> QED BY <2>1, <2>2
<1>11. /\ n.nth = Len(asked[c])
       /\ \A name \in StatementName :
            known[c][name] # Unparsed => n.prepared[name] = known[c][name]
  BY DEF Scripted
<1> HIDE DEF base, N, n, all
<1>12. /\ longer[N + 1].type \in Ends \union Starting
       /\ longer[N + 1].nth = Len(asked[c])
       /\ longer[N + 1].ends = syncs'[c]
       /\ \A name \in StatementName :
            known[c][name] # Unparsed => longer[N + 1].prepared[name] = known[c][name]
  BY <1>6, <1>8, <1>11 DEF Ends, Starting
<1>13. Scripted(c, longer)'
  BY <1>3, <1>4, <1>8, <1>10, <1>12 DEF Scripted
<1> QED BY <1>3, <1>4, <1>8, <1>9, <1>13 DEF all, base, N


\* What is left to show of a connection whose driver has written.
LEMMA SpeaksConnects ==
  ASSUME Typed, Relayed, NEW c \in Connection, NEW note, NEW shown, NEW longer, NEW bytes,
         Connected(c, note, shown), Speaks(c, note, longer, bytes), Scripted(c, longer)',
         AskedForTls(c)' <=> AskedForTls(c), syncs[c] <= syncs'[c], syncs'[c] \in Nat,
         ~ AskedForTls(c) => Single(c, longer)' /\ Lately(c, longer)',
         AskedForTls(c) /\ syncs'[c] > 0 =>
              got[c]["down"] # <<>> /\ Up(c)'[2].type = "Startup"
  PROVE  Connected(c, longer, shown)'
<1>1. Scripted(c, note) /\ Serving(c, note) /\ Counts(c) /\ served[c] \in Nat
  BY StreamsCount DEF Connected, Typed
<1>2. Len(Up(c)) \in Nat
  BY <1>1, UpFrames DEF Scripted
<1>3. Serving(c, longer)'
  BY <1>1, <1>2, ServingSpeaks
<1>4. CASE AskedForTls(c)
  <2>1. Refusing(c) /\ syncs[c] \in Nat
    BY <1>4 DEF Connected, Typed
  <2>2. /\ sent'[c]["down"] = sent[c]["down"] /\ got' = got /\ bridge' = bridge
        /\ recorder' = recorder /\ served' = served
    BY DEF Speaks, Wrote
  <2>3. bridge[c] = "open" => Unreading(c)'
    BY <1>1, <2>1, UnreadingSpeaks DEF Refusing
  <2>4. RunOn(c)' = RunOn(c)
    BY DEF RunOn, Speaks
  <2>5. Refusing(c)'
    BY <1>4, <2>1, <2>2, <2>3, <2>4 DEF Refusing
  <2> QED BY <1>3, <1>4, <2>5 DEF Connected
<1>5. CASE ~ AskedForTls(c)
  <2>1. Answering(c, longer, shown)'
    BY <1>1, <1>5, AnsweringSpeaks DEF Connected
  <2> QED BY <1>3, <1>5, <2>1 DEF Connected
<1> QED BY <1>4, <1>5

\* A connection without TLS whose driver has sent nothing: nor has the server.
LEMMA Silent ==
  ASSUME Typed, Relayed, NEW c \in Connection, NEW note, NEW shown,
         Connected(c, note, shown), ~ AskedForTls(c), Len(Up(c)) = 0
  PROVE  /\ served[c] = 0 /\ Len(Down(c)) = 0 /\ sent[c]["down"] = <<>> /\ syncs[c] = 0
         /\ Done(c, "up") = 0 /\ Done(c, "down") = 0 /\ sent[c]["up"] = <<>>
<1>1. Scripted(c, note) /\ Serving(c, note) /\ Spoken(c, note, shown) /\ Counts(c)
  BY StreamsCount DEF Connected, Answering
<1>2. Len(sent[c]["up"]) = 0
  BY <1>1, UpFrames DEF Scripted
<1>3. served[c] = 0
  BY <1>1 DEF Serving, Typed
<1>4. Len(Down(c)) = 0 /\ Len(sent[c]["down"]) = 0
  BY <1>1, <1>3, DownFrames DEF Spoken
<1>5. sent[c]["up"] \in Seq(Frame) /\ sent[c]["down"] \in Seq(ServerFrame)
  BY DEF Typed
<1>6. syncs[c] = 0
  BY <1>1 DEF Scripted, Leads, Blank
<1> QED BY <1>1, <1>2, <1>3, <1>4, <1>5, <1>6 DEF Counts

LEMMA HalvesAreBytes ==
  /\ \A frames \in Seq(Frame) : HalvesOf(frames) \in Seq(Byte)
  /\ \A frames \in Seq(ServerFrame) : HalvesOf(frames) \in Seq(Byte)
<1>1. Seq(Frame) \subseteq Seq(Byte) /\ Seq(ServerFrame) \subseteq Seq(Byte)
  BY DEF Byte
<1>2. \A frames \in Seq(Frame) : HalvesOf(frames) \in Seq(Frame)
  BY HalvesOfFrames
<1>3. \A frames \in Seq(ServerFrame) : HalvesOf(frames) \in Seq(ServerFrame)
  BY HalvesOfFrames
<1> QED BY <1>1, <1>2, <1>3

LEMMA RequestTlsConnects ==
  ASSUME Typed, Relayed, NEW c \in Connection, NEW note, NEW shown,
         Connected(c, note, shown), RequestTls(c)
  PROVE  /\ \E longer : Connected(c, longer, shown)'
         /\ \E bytes : Wrote(c, "up", bytes)
         /\ sent'[c]["up"] \in Seq(Frame)
<1> DEFINE frame == [type |-> "SSLRequest"]
<1>1. frame \in Frame /\ <<frame>> \in Seq(Frame)
  BY DEF Frame
<1>2. HalvesOf(<<frame>>) \in Seq(Byte)
  BY <1>1, HalvesAreBytes, Zenon
<1>3. Wrote(c, "up", HalvesOf(<<frame>>)) /\ UNCHANGED <<serverVars, driverVars>>
  BY <1>2, WriteWrote, HalvesOne DEF RequestTls
<1>4. Scripted(c, note) /\ Serving(c, note) /\ Counts(c) /\ sent[c]["up"] = <<>>
  BY StreamsCount DEF Connected, RequestTls
<1>5. ~ AskedForTls(c) /\ Len(Up(c)) = 0
  <2>1. Len(sent[c]["up"]) = 2 * Len(Up(c)) /\ Len(Up(c)) \in Nat
    BY <1>4, UpFrames, Zenon DEF Scripted
  <2>2. Len(sent[c]["up"]) = 0
    BY <1>4
  <2> QED BY <1>4, <2>1, <2>2 DEF AskedForTls
<1>6. /\ served[c] = 0 /\ Len(Down(c)) = 0 /\ sent[c]["down"] = <<>> /\ syncs[c] = 0
      /\ Done(c, "up") = 0 /\ Done(c, "down") = 0
  BY <1>5, Silent
<1>7. PICK longer :
        /\ Scripted(c, longer)' /\ \A i \in 0 .. Len(Up(c)) : longer[i] = note[i]
        /\ Len(Up(c)') = Len(Up(c)) + 1
        /\ sent'[c]["up"] \in Seq(Frame) /\ AskedForTls(c)'
  <2>1. syncs'[c] = 0 /\ asked' = asked /\ known' = known
    BY <1>3, <1>6 DEF driverVars
  <2> QED BY <1>1, <1>3, <1>4, <1>5, <1>6, <2>1, ScriptedStart
<1>8. Speaks(c, note, longer, HalvesOf(<<frame>>))
  BY <1>3, <1>5, <1>7 DEF Speaks, serverVars, driverVars
<1>9. Serving(c, longer)'
  BY <1>4, <1>5, <1>8, ServingSpeaks DEF Typed
<1>10. Refusing(c)'
  <2>1. /\ sent'[c]["down"] = <<>> /\ syncs'[c] = 0 /\ recorder' = recorder /\ bridge' = bridge
        /\ Done(c, "up")' = 0 /\ Done(c, "down")' = 0
    <3>1. sent'[c]["down"] = sent[c]["down"] /\ wire'[c]["down"] = wire[c]["down"]
      BY <1>3 DEF Wrote
    <3>2. Done(c, "down")' = Done(c, "down")
      BY <3>1 DEF Done
    <3> QED BY <1>3, <1>6, <3>1, <3>2 DEF Wrote, driverVars
  <2>2. Answering(c, note, shown)
    BY <1>5 DEF Connected
  <2>3. ASSUME bridge[c] = "open" PROVE Unreading(c)'
    <3>1. Reader(c, note, shown)
      BY <2>2, <2>3 DEF Answering
    <3>2. recorder[c].clientBuffer \in Seq(Frame) /\ recorder[c].serverBuffer \in Seq(ServerFrame)
      BY DEF Typed, Recorder
    <3>3. Read(c) = 0 /\ 0 % 2 = 0
      BY <1>6 DEF Read
    <3>4. Len(recorder[c].clientBuffer) = 0 /\ Len(recorder[c].serverBuffer) = 0
      BY <1>6, <3>1, <3>3 DEF Reader
    <3>5. recorder[c].phase = "initial" /\ recorder[c].sql = NoSql
      BY <1>4, <3>1, <3>3 DEF Reader, Scripted, Leads, Blank
    <3>6. recorder[c].serverBuffer = <<>>
      BY <3>2, <3>4
    <3> QED BY <2>1, <3>4, <3>5, <3>6 DEF Unreading, UnreadingAt
  <2> QED BY <2>1, <2>2, <2>3 DEF Refusing, Answering
<1> QED BY <1>3, <1>7, <1>9, <1>10 DEF Connected

LEMMA StartupConnects ==
  ASSUME Typed, Relayed, NEW c \in Connection, NEW note, NEW shown,
         Connected(c, note, shown), Startup(c)
  PROVE  /\ \E longer : Connected(c, longer, shown)'
         /\ \E bytes : Wrote(c, "up", bytes)
         /\ sent'[c]["up"] \in Seq(Frame)
<1> DEFINE frame == [type |-> "Startup"]
<1>1. frame \in Frame /\ <<frame>> \in Seq(Frame)
  BY DEF Frame
<1>2. HalvesOf(<<frame>>) \in Seq(Byte)
  BY <1>1, HalvesAreBytes, Zenon
<1>3. /\ Wrote(c, "up", HalvesOf(<<frame>>)) /\ UNCHANGED <<serverVars, known, asked, trips>>
      /\ syncs[c] = 0 /\ syncs'[c] = 1 /\ (AskedForTls(c) => SslAnswered(c))
  BY <1>2, WriteWrote, HalvesOne DEF Startup, Typed
<1>4. Scripted(c, note) /\ Serving(c, note) /\ Counts(c)
  BY StreamsCount DEF Connected
<1>5. PICK longer :
        /\ Scripted(c, longer)' /\ \A i \in 0 .. Len(Up(c)) : longer[i] = note[i]
        /\ Up(c)' = Append(Up(c), frame) /\ Len(Up(c)') = Len(Up(c)) + 1
        /\ sent'[c]["up"] \in Seq(Frame) /\ (AskedForTls(c)' <=> AskedForTls(c))
  BY <1>1, <1>3, <1>4, ScriptedStart
<1>6. /\ Up(c) \in Seq(Frame)
      /\ ~ AskedForTls(c) => Len(Up(c)) = 0
      /\ AskedForTls(c) => Len(Up(c)) = 1
  BY <1>3, <1>4, Unstarted
<1>7. Speaks(c, note, longer, HalvesOf(<<frame>>))
  BY <1>3, <1>5, <1>6 DEF Speaks, serverVars
<1>8. ASSUME ~ AskedForTls(c) PROVE Single(c, longer)' /\ Lately(c, longer)'
  <2>1. /\ served[c] = 0 /\ Len(Down(c)) = 0
    BY <1>6, <1>8, Silent
  <2>2. Len(Up(c)') = 1 /\ served'[c] = 0
    BY <1>3, <1>5, <1>6, <1>8, <2>1 DEF serverVars
  <2>3. Single(c, longer)'
    BY <2>2 DEF Single
  <2>4. Down(c)' = Down(c) /\ Heard(c)' \in Nat
    <3>1. sent'[c]["down"] = sent[c]["down"] /\ wire'[c]["down"] = wire[c]["down"]
      BY <1>3 DEF Wrote
    <3>2. Heard(c)' = Heard(c) /\ Down(c)' = Down(c)
      BY <3>1 DEF Heard, Done, Down
    <3>3. Heard(c) \in Nat
      BY <1>4, HalfGrows DEF Heard, Counts
    <3> QED BY <3>2, <3>3
  <2>5. Lately(c, longer)'
    BY <2>1, <2>4 DEF Lately
  <2> QED BY <2>3, <2>5
<1>9. ASSUME AskedForTls(c) PROVE got[c]["down"] # <<>> /\ Up(c)'[2].type = "Startup"
  <2>1. PICK base \in Seq(Frame) : base = Up(c) /\ Len(base) = 1
    BY <1>6, <1>9
  <2>2. Append(base, frame)[2].type = "Startup"
    <3>1. Append(base, frame)[Len(base) + 1] = frame
      BY <1>1, OneMore
    <3>2. Len(base) + 1 = 2
      BY <2>1
    <3>3. Append(base, frame)[2] = frame
      BY <3>1, <3>2
    <3>4. frame.type = "Startup"
      OBVIOUS
    <3> HIDE DEF frame
    <3> QED BY <3>3, <3>4
  <2>3. Up(c)'[2].type = "Startup"
    BY <1>5, <2>1, <2>2
  <2> QED BY <1>3, <1>9, <2>3 DEF SslAnswered
<1>10. Connected(c, longer, shown)'
  <2>1. syncs[c] <= syncs'[c] /\ syncs'[c] \in Nat
    BY <1>3
  <2> HIDE DEF frame
  <2> QED BY <2>1, <1>3, <1>5, <1>7, <1>8, <1>9, SpeaksConnects, Zenon
<1> QED BY <1>3, <1>5, <1>10

\* A driver that may ask has sent its startup.
LEMMA AskerStarted ==
  ASSUME Typed, Relayed, NEW c \in Connection, NEW note, NEW shown,
         Connected(c, note, shown), NEW trip, Ask(c, trip)
  PROVE  syncs[c] > 0
<1>1. Counts(c) /\ syncs[c] \in Nat
  BY StreamsCount DEF Typed
<1>2. CASE c \notin Pipelining
  BY <1>2 DEF Ask
<1>3. CASE c \in Pipelining
  <2>1. Ready(c) > 0
    BY <1>3 DEF Ask
  <2>2. CASE ~ AskedForTls(c)
    <3>1. Scripted(c, note) /\ Serving(c, note) /\ Spoken(c, note, shown)
      BY <2>2 DEF Connected, Answering
    <3>2. Ready(c) \in Nat /\ Ready(c) <= syncs[c]
      BY <2>2, <3>1, AllAnswered
    <3> QED BY <1>1, <2>1, <3>2
  <2>3. CASE AskedForTls(c)
    <3>1. PICK bytes : bytes = got[c]["down"] /\ bytes \in Seq(Byte)
      BY DEF Relayed, Flow
    <3>2. Received(c) = Decodable(IF bytes = <<>> THEN bytes ELSE Tail(bytes))
      BY <2>3, <3>1 DEF Received, SslAnswered
    <3>3. Len(bytes) > 1
      <4>1. SUFFICES ASSUME ~ (Len(bytes) > 1) PROVE FALSE
        OBVIOUS
      <4>2. \E rest : Received(c) = Decodable(rest) /\ Len(rest) = 0
        <5>1. CASE bytes = <<>>
          <6>1. Received(c) = Decodable(bytes) /\ Len(bytes) = 0
            BY <3>2, <5>1
          <6> QED BY <6>1
        <5>2. CASE bytes # <<>>
          <6>1. Received(c) = Decodable(Tail(bytes))
            BY <3>2, <5>2
          <6>2. Len(bytes) \in Nat /\ Len(bytes) # 0
            BY ONLY <3>1, <5>2
          <6>3. Len(bytes) = 1
            BY ONLY <4>1, <6>2, SMTT(30)
          <6>4. Len(Tail(bytes)) = 0
            BY <3>1, <5>2, <6>3
          <6> QED BY <6>1, <6>4, Zenon
        <5> QED BY <5>1, <5>2
      <4>3. PICK rest : Received(c) = [k \in 1 .. 0 |-> rest[2 * k]]
        <5>1. PICK rest : Received(c) = Decodable(rest) /\ Len(rest) = 0
          BY <4>2
        <5>2. Decodable(rest) = [k \in 1 .. (Len(rest) \div 2) |-> rest[2 * k]]
          BY DEF Decodable
        <5>3. Len(rest) \div 2 = 0
          BY <5>1
        <5> QED BY <5>1, <5>2, <5>3
      <4>4. {k \in DOMAIN Received(c) : Received(c)[k].type = "Z"} = {}
        BY <4>3
      <4> QED BY <2>1, <4>4, FS_EmptySet DEF Ready
    <3>4. Len(sent[c]["down"]) > 1
      BY <1>1, <3>1, <3>3 DEF Counts
    <3> QED BY <2>3, <3>4 DEF Connected, Refusing
  <2> QED BY <2>2, <2>3
<1> QED BY <1>2, <1>3

LEMMA RunsType ==
  ASSUME NEW trip \in RoundTrip
  PROVE  Runs(trip) \in Calls /\ Len(Runs(trip)) \in {0, 1}
<1>1. CASE trip \in [kind : {"simple"}, sql : Sql]
  <2>1. Runs(trip) = <<<<trip.sql, NoParams>>>>
    BY <1>1 DEF Runs
  <2>2. <<trip.sql, NoParams>> \in Sql \X Params
    BY <1>1, StatementAssumption
  <2> QED BY <2>1, <2>2 DEF Calls
<1>2. CASE trip \in [kind : {"close"}, name : StatementName]
  BY <1>2 DEF Runs, Calls
<1>3. CASE trip \in Extended
  <2>1. Runs(trip) = <<<<trip.sql, trip.params>>>>
    BY <1>3 DEF Runs, Extended
  <2>2. <<trip.sql, trip.params>> \in Sql \X Params
    BY <1>3 DEF Extended
  <2> QED BY <2>1, <2>2 DEF Calls
<1> QED BY <1>1, <1>2, <1>3, RoundTripAssumption DEF Extended

\* What a step that asks changes of its connection.
LEMMA AskWrites ==
  ASSUME Typed, Relayed, NEW c \in Connection, NEW trip \in RoundTrip, Ask(c, trip)
  PROVE  /\ FramesOf(trip) \in Seq(Frame) /\ Wrote(c, "up", HalvesOf(FramesOf(trip)))
         /\ syncs'[c] = syncs[c] + 1 /\ asked'[c] = asked[c] \o Runs(trip)
         /\ known'[c] = KnownAfter(known[c], trip)
         /\ \A b \in Connection : b # c =>
              syncs'[b] = syncs[b] /\ asked'[b] = asked[b] /\ known'[b] = known[b]
         /\ Sendable(known[c], trip) /\ UNCHANGED serverVars
         /\ (c \notin Pipelining => syncs[c] > 0 /\ Ready(c) = syncs[c])
<1>1. FramesOf(trip) \in Seq(Frame)
  BY FramesAreTyped
<1>2. HalvesOf(FramesOf(trip)) \in Seq(Byte)
  BY <1>1, HalvesAreBytes
<1>3. Wrote(c, "up", HalvesOf(FramesOf(trip)))
  BY <1>2, WriteWrote DEF Ask
<1> QED BY <1>1, <1>3, Zenon DEF Ask, Typed

LEMMA AskScripts ==
  ASSUME Typed, Relayed, NEW c \in Connection, NEW note, Scripted(c, note), syncs[c] > 0,
         NEW trip \in RoundTrip, Ask(c, trip)
  PROVE  /\ Up(c)' \in Seq(Frame) /\ Len(Up(c)) > 0 /\ Len(Up(c)) < Len(Up(c)')
         /\ \A i \in 1 .. Len(Up(c)) : Up(c)'[i] = Up(c)[i]
         /\ sent'[c]["up"] \in Seq(Frame) /\ asked'[c] \in Calls
         /\ (AskedForTls(c)' <=> AskedForTls(c))
         /\ \A m \in 1 .. Len(asked[c]) : asked'[c][m] = asked[c][m]
         /\ \E longer :
              /\ Scripted(c, longer)' /\ \A i \in 0 .. Len(Up(c)) : longer[i] = note[i]
              /\ \A i, j \in Len(Up(c)) + 1 .. Len(Up(c)') : longer[i].nth = longer[j].nth
<1> DEFINE base == Up(c)
           news == FramesOf(trip)
<1>1. /\ news \in Seq(Frame) /\ Wrote(c, "up", HalvesOf(news))
      /\ syncs'[c] = syncs[c] + 1 /\ asked'[c] = asked[c] \o Runs(trip)
      /\ known'[c] = KnownAfter(known[c], trip) /\ Sendable(known[c], trip)
  BY AskWrites
<1>2. sent[c]["up"] = HalvesOf(base)
  BY DEF Scripted
<1>3. /\ Up(c)' = base \o news /\ sent'[c]["up"] = HalvesOf(Up(c)')
      /\ sent'[c]["up"] \in Seq(Frame)
  <2> HIDE DEF news
  <2> QED BY <1>1, <1>2, WroteUp
<1>4. Between(base, note, known[c], asked[c], syncs[c]) /\ Len(base) > 0
  BY StartedIsBetween
<1>5. PICK longer : Told(base, note, Up(c)', longer, known'[c], asked'[c], syncs'[c])
  <2>1. \E longer : Told(base, note, base \o news, longer,
                         KnownAfter(known[c], trip), asked[c] \o Runs(trip), syncs[c] + 1)
    <3> HIDE DEF base
    <3> QED BY <1>1, <1>4, AskedTrip
  <2> QED BY <1>1, <1>3, <2>1
<1>6. PICK all : all = Up(c)' /\ all \in Seq(Frame) /\ Len(base) < Len(all)
  BY <1>5 DEF Told, Within, Begun
<1>7. base \in Seq(Frame) /\ Len(base) \in Nat /\ asked[c] \in Calls
  BY <1>4 DEF Between
<1>8. \A i \in 1 .. Len(base) : all[i] = base[i]
  BY <1>1, <1>3, <1>6, <1>7
<1>9. /\ asked'[c] \in Calls /\ \A m \in 1 .. Len(asked[c]) : asked'[c][m] = asked[c][m]
  <2>1. Runs(trip) \in Calls
    BY RunsType
  <2>2. PICK more \in Calls : more = Runs(trip)
    BY <2>1
  <2> QED BY <1>1, <1>7, <2>2 DEF Calls
<1>10. AskedForTls(c)' <=> AskedForTls(c)
  <2>1. PICK before \in Seq(Frame), after \in Seq(Frame) :
          before = sent[c]["up"] /\ after = sent'[c]["up"]
    BY <1>3 DEF Typed
  <2>2. Len(before) = 2 * Len(base)
    BY <1>2, <2>1, UpFrames
  <2>3. /\ Len(after) = Len(before) + Len(HalvesOf(news))
        /\ \A i \in 1 .. Len(before) : after[i] = before[i]
    BY <1>1, <2>1 DEF Wrote
  <2>4. Len(HalvesOf(news)) = 2 * Len(news) /\ Len(news) \in Nat
    <3> HIDE DEF news
    <3> QED BY <1>1, HalvesOfFrames
  <2>5. 1 \in 1 .. Len(before) /\ Len(after) > 0 /\ Len(before) > 0
    BY <1>4, <1>7, <2>2, <2>3, <2>4
  <2>6. before # <<>> /\ after # <<>> /\ Head(after) = Head(before)
    BY <2>3, <2>5
  <2> QED BY <2>1, <2>6 DEF AskedForTls
<1> HIDE DEF base, news
<1>11. /\ Leads(all, longer, asked'[c]) /\ longer[Len(all)].type \in Ends
       /\ longer[Len(all)].nth = Len(asked'[c]) /\ longer[Len(all)].ends = syncs'[c]
       /\ Agrees(longer[Len(all)], known'[c])
       /\ \A i \in 0 .. Len(base) : longer[i] = note[i]
       /\ \A i, j \in Len(base) + 1 .. Len(all) : longer[i].nth = longer[j].nth
  BY <1>5, <1>6 DEF Told, Within, Begun, Stands
<1>12. AskedForTls(c)' => all[1].type = "SSLRequest" /\ syncs'[c] # 0
  <2>1. AskedForTls(c) => base[1].type = "SSLRequest"
    BY DEF Scripted, base
  <2>2. 1 \in 1 .. Len(base) /\ syncs[c] + 1 # 0
    BY <1>4, <1>7 DEF Typed
  <2> QED BY <1>1, <1>8, <1>10, <2>1, <2>2
<1>13. Scripted(c, longer)'
  BY <1>3, <1>6, <1>11, <1>12, Zenon DEF Scripted, Agrees
<1> QED BY <1>3, <1>4, <1>6, <1>8, <1>9, <1>10, <1>11, <1>13 DEF base

LEMMA AskConnects ==
  ASSUME Typed, Relayed, NEW c \in Connection, NEW note, NEW shown,
         Connected(c, note, shown), NEW trip \in RoundTrip, Ask(c, trip)
  PROVE  \E longer : Connected(c, longer, shown)'
<1>1. Scripted(c, note) /\ Serving(c, note) /\ Counts(c) /\ syncs[c] > 0 /\ syncs[c] \in Nat
  BY StreamsCount, AskerStarted, Zenon DEF Connected, Typed
<1>2. /\ Wrote(c, "up", HalvesOf(FramesOf(trip))) /\ syncs'[c] = syncs[c] + 1
      /\ UNCHANGED serverVars /\ (c \notin Pipelining => Ready(c) = syncs[c])
  BY AskWrites
<1>3. PICK N \in Nat, M \in Nat : N = Len(Up(c)) /\ M = Len(Up(c)')
  BY <1>1, AskScripts, UpFrames DEF Scripted
<1>4. /\ 0 < N /\ N < M /\ \A i \in 1 .. N : Up(c)'[i] = Up(c)[i]
      /\ (AskedForTls(c)' <=> AskedForTls(c))
      /\ \A m \in 1 .. Len(asked[c]) : asked'[c][m] = asked[c][m]
  BY <1>1, <1>3, AskScripts, Zenon
<1>5. PICK longer :
        /\ Scripted(c, longer)' /\ \A i \in 0 .. N : longer[i] = note[i]
        /\ \A i, j \in N + 1 .. M : longer[i].nth = longer[j].nth
  BY <1>1, <1>3, AskScripts
<1>6. Speaks(c, note, longer, HalvesOf(FramesOf(trip)))
  BY <1>2, <1>3, <1>4, <1>5 DEF Speaks, serverVars
<1>7. served[c] \in 0 .. N /\ served' = served /\ Heard(c) \in Nat
  BY <1>1, <1>2, <1>3, HalfGrows, SMTT(30) DEF Serving, Typed, serverVars, Heard, Counts
<1>8. Down(c)' = Down(c) /\ Heard(c)' = Heard(c)
  <2>1. sent'[c]["down"] = sent[c]["down"] /\ wire'[c]["down"] = wire[c]["down"]
    BY <1>2 DEF Wrote
  <2> QED BY <2>1 DEF Heard, Done, Down
<1>9. ASSUME ~ AskedForTls(c) PROVE Single(c, longer)' /\ Lately(c, longer)'
  <2>1. Answering(c, note, shown)
    BY <1>9 DEF Connected
  <2>2. CASE c \notin Pipelining
    <3>1. served[c] = N /\ Heard(c) = Len(Down(c))
      BY <1>1, <1>2, <1>3, <1>9, <2>1, <2>2, AllAnswered DEF Answering
    <3>2. Single(c, longer)'
      BY <1>3, <1>4, <1>5, <1>7, <3>1 DEF Single
    <3>3. Lately(c, longer)'
      BY <1>7, <1>8, <3>1 DEF Lately
    <3> QED BY <3>2, <3>3
  <2>3. CASE c \in Pipelining
    <3>1. Single(c, longer)'
      BY <2>3 DEF Single
    <3>2. ASSUME NEW j \in Heard(c) + 1 .. Len(Down(c)), Closes(Down(c)[j]),
                 NEW i \in served[c] .. M
          PROVE  longer[i].nth > 0
      <4>1. \A k \in served[c] .. N : note[k].nth > 0
        BY <1>3, <2>1, <3>2 DEF Answering, Lately
      <4>2. CASE i <= N
        BY <1>5, <1>7, <4>1, <4>2
      <4>3. CASE i > N
        <5>1. /\ N \in 0 .. M /\ i \in 0 .. M /\ N <= i /\ N \in served[c] .. N
              /\ N \in 0 .. N
          BY <1>4, <1>7, <4>3
        <5>2. \A k, l \in 0 .. M : k <= l => longer[k].nth <= longer[l].nth
          BY <1>3, <1>5 DEF Scripted, Leads
        <5>3. \A k \in 0 .. M : longer[k].nth \in Nat
          BY <1>3, <1>5 DEF Scripted, Leads, Note
        <5>4. longer[N].nth > 0
          BY <1>5, <4>1, <5>1
        <5> QED BY <5>1, <5>2, <5>3, <5>4
      <4> QED BY <1>7, <4>2, <4>3
    <3>3. Lately(c, longer)'
      BY <1>3, <1>7, <1>8, <2>3, <3>2 DEF Lately
    <3> QED BY <3>1, <3>3
  <2> QED BY <2>2, <2>3
<1>10. ASSUME AskedForTls(c) PROVE got[c]["down"] # <<>> /\ Up(c)'[2].type = "Startup"
  <2>1. Refusing(c)
    BY <1>10 DEF Connected
  <2>2. N # 1
    <3>1. SUFFICES ASSUME N = 1 PROVE FALSE
      OBVIOUS
    <3>2. /\ Up(c)[1].type = "SSLRequest" /\ Leads(Up(c), note, asked[c])
          /\ note[N].ends = syncs[c]
      BY <1>3, <1>10, <1>1 DEF Scripted
    <3>3. note[1] = After(note[1 - 1], Up(c)[1]) /\ Meant(note[1], asked[c])
      BY <1>3, <3>1, <3>2 DEF Leads
    <3>4. note[1].type = "SSLRequest"
      BY <3>2, <3>3 DEF After
    <3> QED BY <1>1, <3>1, <3>2, <3>3, <3>4 DEF Meant, Starting
  <2>3. 2 \in 1 .. N
    BY <1>4, <2>2
  <2> QED BY <1>1, <1>4, <2>1, <2>3 DEF Refusing
<1>11. Connected(c, longer, shown)'
  <2>1. syncs[c] <= syncs'[c] /\ syncs'[c] \in Nat
    BY <1>1, <1>2
  <2> QED BY <1>4, <1>5, <1>6, <1>9, <1>10, <2>1, SpeaksConnects
<1> QED BY <1>11
-----------------------------------------------------------------------------
(***************************************************************************)
(* The server's steps: the frame it handles, and the statements it has run.*)
(***************************************************************************)

\* The next frame is of this type, and the server has handled it.
Handles(c, note, type) ==
    /\ served[c] \in Nat /\ served'[c] = served[c] + 1
    /\ Len(Up(c)) \in Nat /\ served[c] + 1 <= Len(Up(c))
    /\ 2 * (served[c] + 1) <= Len(got[c]["up"])
    /\ note[served[c] + 1].type = type /\ Follows(note[served[c]].type, type)
    /\ note[served[c]] \in Note /\ note[served[c] + 1] \in Note
    /\ note[served[c] + 1].nth =
            IF type \in {"P", "Q"} \/ (type = "B" /\ note[served[c]].type # "P")
            THEN note[served[c]].nth + 1 ELSE note[served[c]].nth
    /\ note[served[c] + 1].ends =
            IF type \in Ends THEN note[served[c]].ends + 1 ELSE note[served[c]].ends
    /\ note[served[c]].type = "none" => served[c] = 0

LEMMA DueHandles ==
  ASSUME Typed, Relayed, NEW c \in Connection, NEW note, Scripted(c, note), Serving(c, note),
         NEW type, Due(c, type)
  PROVE  Handles(c, note, type)
<1>1. PICK k \in Nat : k = served[c]
  BY DEF Typed
<1>2. /\ 2 * k + 2 <= Len(got[c]["up"]) /\ got[c]["up"][2 * k + 2].type = type
      /\ served'[c] = k + 1
  BY <1>1 DEF Due, Typed
<1>3. Len(Up(c)) \in Nat /\ Len(sent[c]["up"]) = 2 * Len(Up(c))
      /\ \A i \in 1 .. Len(Up(c)) : sent[c]["up"][2 * i] = Up(c)[i]
  BY UpFrames DEF Scripted
<1>4. Counts(c)
  BY StreamsCount
<1>5. PICK N \in Nat, l \in Nat : /\ N = Len(Up(c)) /\ l = Len(got[c]["up"])
                                  /\ l <= 2 * N /\ 2 * k + 2 <= l
  BY <1>2, <1>3, <1>4 DEF Counts
<1>6. k + 1 \in 1 .. N /\ 2 * (k + 1) = 2 * k + 2 /\ 2 * k + 2 \in 1 .. l /\ k \in 0 .. N
      /\ k + 1 \in 0 .. N /\ (k + 1) - 1 = k
  BY <1>5
<1>7. got[c]["up"][2 * k + 2] = sent[c]["up"][2 * k + 2]
  <2>1. Streamed(c, "up")
    BY DEF Relayed
  <2> QED BY <1>5, <1>6, <2>1 DEF Streamed
<1>8. Up(c)[k + 1].type = type
  BY <1>2, <1>3, <1>5, <1>6, <1>7, Zenon
<1>9. /\ \A i \in 1 .. N :
            note[i] = After(note[i - 1], Up(c)[i]) /\ Follows(note[i - 1].type, Up(c)[i].type)
      /\ \A i \in 0 .. N : note[i] \in Note
      /\ note[0] = Blank
  BY <1>5 DEF Scripted, Leads
<1>10. note[k + 1] = After(note[k], Up(c)[k + 1]) /\ Follows(note[k].type, type)
  BY <1>6, <1>8, <1>9
<1>11. /\ note[k + 1].type = type
       /\ note[k + 1].nth = IF type \in {"P", "Q"} \/ (type = "B" /\ note[k].type # "P")
                            THEN note[k].nth + 1 ELSE note[k].nth
       /\ note[k + 1].ends = IF type \in Ends THEN note[k].ends + 1 ELSE note[k].ends
  BY <1>8, <1>10 DEF After, Begins
<1>12. note[k].type = "none" => k = 0
  <2>1. SUFFICES ASSUME k # 0 PROVE note[k].type # "none"
    OBVIOUS
  <2>2. k \in 1 .. N
    BY <1>6, <2>1
  <2>3. note[k] = After(note[k - 1], Up(c)[k]) /\ Follows(note[k - 1].type, Up(c)[k].type)
    BY <1>9, <2>2
  <2>4. note[k].type = Up(c)[k].type
    BY <2>3 DEF After
  <2> QED BY <2>3, <2>4 DEF Follows, Ends
<1>13. note[k] \in Note /\ note[k + 1] \in Note
  BY <1>6, <1>9
<1>14. k + 1 <= N /\ 2 * (k + 1) <= l
  BY <1>5, <1>6
<1> QED BY <1>1, <1>2, <1>5, <1>10, <1>11, <1>12, <1>13, <1>14 DEF Handles

\* The statement that the frame handled is one of.
LEMMA StatementIs ==
  ASSUME Typed, NEW c \in Connection, NEW note, Scripted(c, note), Serving(c, note),
         NEW type \in {"Q", "P", "D", "E"}, Handles(c, note, type),
         type \in {"D", "E"} => ~ skipping[c]
  PROVE  /\ note[served[c] + 1].nth \in 1 .. Len(asked[c])
         /\ Statement(c) = asked[c][note[served[c] + 1].nth]
         /\ Statement(c) \in Sql \X Params /\ Statement(c)[1] \in Sql
<1> DEFINE n == note[served[c]]
           m == note[served[c] + 1]
<1>1. PICK k \in Nat : k = Cardinality(RunOn(c)) /\ m.nth = k + 1
  <2>1. /\ n.nth \in Nat /\ m.nth \in Nat
        /\ Cardinality(RunOn(c)) = IF n.type \in {"P", "B", "D"} /\ ~ skipping[c]
                                   THEN n.nth - 1 ELSE n.nth
        /\ skipping[c] => n.type \in {"P", "B", "D", "E"}
    BY Zenon DEF Handles, Note, Serving
  <2>2. Cardinality(RunOn(c)) \in Nat
    BY FS_CardinalityType DEF Serving
  <2>3. CASE type \in {"Q", "P"}
    <3>1. n.type \in Ends /\ m.nth = n.nth + 1
      BY <2>3 DEF Handles, Follows, Ends
    <3>2. Cardinality(RunOn(c)) = n.nth
      BY <2>1, <3>1 DEF Ends
    <3> QED BY <2>1, <3>1, <3>2
  <2>4. CASE type \in {"D", "E"}
    <3>1. n.type \in {"B", "D"} /\ m.nth = n.nth
      BY <2>4 DEF Handles, Follows, Ends
    <3> QED BY <2>1, <2>2, <2>4, <3>1
  <2> QED BY <2>3, <2>4
<1>2. Meant(m, asked[c])
  BY DEF Scripted, Leads, Handles
<1>3. m.nth <= Len(asked[c]) /\ asked[c] \in Seq(Sql \X Params)
  BY <1>2 DEF Meant, Typed
<1>4. m.nth \in 1 .. Len(asked[c])
  BY <1>1, <1>3
<1>5. Statement(c) = asked[c][m.nth]
  BY <1>1 DEF Statement
<1>6. asked[c][m.nth] \in Sql \X Params
  BY <1>3, <1>4
<1> QED BY <1>4, <1>5, <1>6

\* How many statements have been run on c.
RunsSo(c, many) == IsFiniteSet(RunOn(c)') /\ Cardinality(RunOn(c)') = many

LEMMA RunsSame ==
  ASSUME NEW c \in Connection, NEW note, Serving(c, note), executed' = executed
  PROVE  RunsSo(c, Cardinality(RunOn(c)))
<1>1. RunOn(c)' = RunOn(c)
  BY DEF RunOn
<1> QED BY <1>1 DEF Serving, RunsSo

LEMMA RunsMore ==
  ASSUME NEW c \in Connection, NEW note, Serving(c, note), NEW run, Grows(run), run.on = c
  PROVE  RunsSo(c, Cardinality(RunOn(c)) + 1)
<1>1. PICK s : s \notin RunOn(c) /\ RunOn(c)' = RunOn(c) \union {s}
  BY RunsGrow, Zenon
<1>2. IsFiniteSet(RunOn(c) \union {s}) /\ Cardinality(RunOn(c) \union {s}) = Cardinality(RunOn(c)) + 1
  BY <1>1, FS_AddElement, Zenon DEF Serving
<1> QED BY <1>1, <1>2 DEF RunsSo

LEMMA ServingNext ==
  ASSUME NEW c \in Connection, NEW note, Serving(c, note), NEW type, Handles(c, note, type),
         sent'[c]["up"] = sent[c]["up"], got'[c]["up"] = got[c]["up"],
         skipping'[c] \in BOOLEAN, told'[c] \in BOOLEAN,
         RunsSo(c, IF type \in {"P", "B", "D"} /\ ~ skipping'[c]
                   THEN note[served[c] + 1].nth - 1 ELSE note[served[c] + 1].nth),
         skipping'[c] => type \in {"P", "B", "D", "E"},
         type = "D" /\ ~ skipping'[c] => told'[c],
         told'[c] => type \in {"D", "E"}
  PROVE  Serving(c, note)'
<1>1. Up(c)' = Up(c)
  BY DEF Up
<1>2. served'[c] = served[c] + 1 /\ note[served[c] + 1].type = type
      /\ served[c] + 1 <= Len(Up(c)) /\ 2 * (served[c] + 1) <= Len(got[c]["up"])
  BY DEF Handles
<1> QED BY <1>1, <1>2 DEF Serving, RunsSo
-----------------------------------------------------------------------------
(***************************************************************************)
(* What the server's writes leave of the rest of its connection.           *)
(***************************************************************************)

Writes(c, news) ==
    /\ sent'[c]["down"] = sent[c]["down"] \o HalvesOf(news)
    /\ Done(c, "down")' = Done(c, "down") /\ Done(c, "up")' = Done(c, "up")
    /\ sent'[c]["up"] = sent[c]["up"]
    /\ \A i \in 1 .. Len(sent[c]["down"]) : sent'[c]["down"][i] = sent[c]["down"][i]
    /\ \A b \in Connection : b # c => sent'[b] = sent[b] /\ wire'[b] = wire[b]
    /\ UNCHANGED <<bridge, got, recorder, interactions>>

LEMMA ReplyWrites ==
  ASSUME Relayed, NEW c \in Connection, NEW news \in Seq(ServerFrame), Reply(c, news)
  PROVE  Writes(c, news)
<1>1. HalvesOf(news) \in Seq(Byte)
  BY HalvesAreBytes
<1>2. Wrote(c, "down", HalvesOf(news))
  BY <1>1, WriteWrote DEF Reply
<1>3. sent'[c]["up"] = sent[c]["up"] /\ wire'[c]["up"] = wire[c]["up"]
  BY <1>2 DEF Wrote
<1>4. Done(c, "up")' = Done(c, "up")
  BY <1>3 DEF Done
<1> QED BY <1>2, <1>3, <1>4 DEF Writes, Wrote

LEMMA NothingWrites ==
  ASSUME Typed, UNCHANGED proxyVars, NEW c \in Connection
  PROVE  Writes(c, <<>>)
<1>1. HalvesOf(<<>>) = <<>>
  BY DEF HalvesOf
<1>2. sent[c]["down"] \o <<>> = sent[c]["down"]
  BY DEF Typed
<1> QED BY <1>1, <1>2, Zenon DEF Writes, proxyVars, Done

LEMMA DownGrows ==
  ASSUME Typed, NEW c \in Connection, sent[c]["down"] = HalvesOf(Down(c)),
         NEW news \in Seq(ServerFrame), Writes(c, news)
  PROVE  /\ Down(c)' = Down(c) \o news /\ sent'[c]["down"] = HalvesOf(Down(c)')
         /\ sent'[c]["down"] \in Seq(ServerFrame)
<1>1. PICK before, after :
        /\ before = sent[c]["down"] /\ before \in Seq(ServerFrame)
        /\ after = sent'[c]["down"] /\ after = before \o HalvesOf(news)
  BY Zenon DEF Typed, Writes
<1>2. before = HalvesOf(Decodable(before))
  BY <1>1 DEF Down
<1>3. /\ after \in Seq(ServerFrame) /\ Decodable(after) = Decodable(before) \o news
      /\ after = HalvesOf(Decodable(after))
  <2>1. /\ before \o HalvesOf(news) \in Seq(ServerFrame)
        /\ Decodable(before \o HalvesOf(news)) = Decodable(before) \o news
        /\ before \o HalvesOf(news) = HalvesOf(Decodable(before) \o news)
    BY <1>1, <1>2, WroteFrames, Zenon
  <2> QED BY <1>1, <2>1
<1>4. Down(c) = Decodable(before) /\ Down(c)' = Decodable(after)
  BY <1>1 DEF Down
<1> QED BY <1>1, <1>3, <1>4, Zenon

\* What is there of the server's writing stays, and what is new tells of nothing but the
\* statement run in this step.
Lengthened(c, shown, longer) ==
    /\ Len(Down(c)) \in Nat /\ Len(Down(c)') \in Nat /\ Len(Down(c)) <= Len(Down(c)')
    /\ \A j \in 1 .. Len(Down(c)) : Down(c)'[j] = Down(c)[j]
    /\ \A j \in 0 .. Len(Down(c)) : longer[j] = shown[j]
    /\ \A j \in Len(Down(c)) + 1 .. Len(Down(c)') :
            Closes(Down(c)'[j]) => SerialOf(Down(c)'[j]) = Len(executed) + 1
    /\ Len(executed) \in Nat /\ \A t \in 1 .. Len(executed) : executed'[t] = executed[t]
    /\ RunOn(c) \subseteq 1 .. Len(executed)

LEMMA ReaderAnswers ==
  ASSUME NEW c \in Connection, NEW note, NEW shown, NEW longer, NEW news,
         Reader(c, note, shown), Writes(c, news), Lengthened(c, shown, longer), Counts(c),
         Len(sent[c]["down"]) = 2 * Len(Down(c))
  PROVE  Reader(c, note, longer)'
<1>1. Read(c)' = Read(c) /\ Heard(c)' = Heard(c)
  BY DEF Read, Heard, Writes
<1>2. Heard(c) \in Nat /\ Heard(c) <= Len(Down(c))
  BY ReadWritten DEF Lengthened
<1>3. longer[Heard(c)] = shown[Heard(c)]
  BY <1>2 DEF Lengthened
<1>4. PICK buffer : buffer = recorder[c].serverBuffer
  OBVIOUS
<1>5. Len(buffer) = Done(c, "down") % 2
  BY <1>4 DEF Reader
<1>6. Len(buffer) \in Nat /\ Len(buffer) < 2 /\ 2 * Heard(c) + Len(buffer) = Done(c, "down")
  <2>1. PICK d \in Nat : d = Done(c, "down")
    BY DEF Counts
  <2>2. Heard(c) = d \div 2 /\ Len(buffer) = d % 2
    BY <1>5, <2>1 DEF Heard
  <2> QED BY <2>1, <2>2, Parity
<1>7. \A i \in 1 .. Len(buffer) : 2 * Heard(c) + i \in 1 .. Len(sent[c]["down"])
  BY <1>2, <1>6 DEF Counts
<1>8. \A i \in 1 .. Len(buffer) : buffer[i] = sent'[c]["down"][2 * Heard(c) + i]
  <2>1. \A i \in 1 .. Len(buffer) : buffer[i] = sent[c]["down"][2 * Heard(c) + i]
    BY <1>4 DEF Reader
  <2> QED BY <1>7, <2>1 DEF Writes
<1>9. recorder' = recorder /\ sent'[c]["up"] = sent[c]["up"]
      /\ Done(c, "up")' = Done(c, "up") /\ Done(c, "down")' = Done(c, "down")
  BY DEF Writes
<1> QED BY <1>1, <1>3, <1>4, <1>5, <1>8, <1>9 DEF Reader

LEMMA ListedAnswers ==
  ASSUME NEW c \in Connection, NEW shown, NEW longer, NEW news, Listed(c),
         Matched(interactions), Writes(c, news), Lengthened(c, shown, longer), Counts(c),
         Len(sent[c]["down"]) = 2 * Len(Down(c))
  PROVE  Listed(c)'
<1>1. /\ Heard(c)' = Heard(c) /\ interactions' = interactions /\ got' = got /\ bridge' = bridge
  BY DEF Heard, Writes
<1>2. /\ Heard(c) \in Nat /\ Heard(c) <= Len(Down(c))
      /\ Len(got[c]["down"]) \div 2 \in Nat /\ Len(got[c]["down"]) \div 2 <= Len(Down(c))
  <2>1. Heard(c) \in Nat /\ Heard(c) <= Len(Down(c))
    BY ReadWritten DEF Lengthened
  <2>2. Len(got[c]["down"]) \div 2 \in Nat /\ Len(got[c]["down"]) \div 2 <= Heard(c)
    BY HalfGrows, Zenon DEF Counts, Heard
  <2>3. PICK g : g = Len(got[c]["down"]) \div 2
    BY Zenon
  <2>4. g \in Nat /\ g <= Heard(c)
    BY <2>2, <2>3, Zenon
  <2>5. g <= Len(Down(c))
    BY <2>1, <2>4 DEF Lengthened
  <2> QED BY <2>1, <2>3, <2>4, <2>5, Zenon
<1>3. ASSUME NEW h \in Nat, h <= Len(Down(c)), Kept(c, interactions, h)
      PROVE  Kept(c, interactions, h)'
  <2>1. \A j \in 1 .. Len(Down(c)') : j <= h => j \in 1 .. Len(Down(c)) /\ Down(c)'[j] = Down(c)[j]
    BY <1>3 DEF Lengthened
  <2> QED BY <1>1, <1>3, <2>1 DEF Kept, InList
<1>4. ASSUME Ahead(c, interactions, Heard(c))
      PROVE  Ahead(c, interactions, Heard(c))'
  <2>1. ASSUME NEW j \in Heard(c) + 1 .. Len(Down(c)'), Closes(Down(c)'[j]),
               NEW k \in 1 .. Len(interactions), executed'[Ser(interactions[k])].on = c
        PROVE  Ser(interactions[k]) < SerialOf(Down(c)'[j])
    <3>1. Ser(interactions[k]) \in 1 .. Len(executed)
      BY DEF Matched, Sound
    <3>2. executed[Ser(interactions[k])].on = c
      BY <2>1, <3>1 DEF Lengthened
    <3>3. CASE j <= Len(Down(c))
      <4>1. j \in 1 .. Len(Down(c)) /\ j \in Heard(c) + 1 .. Len(Down(c))
        BY <1>2, <3>3 DEF Lengthened
      <4>2. Down(c)'[j] = Down(c)[j]
        BY <4>1 DEF Lengthened
      <4> QED BY <1>4, <2>1, <3>2, <4>1, <4>2 DEF Ahead
    <3>4. CASE j > Len(Down(c))
      <4>1. j \in Len(Down(c)) + 1 .. Len(Down(c)')
        BY <1>2, <3>4 DEF Lengthened
      <4>2. SerialOf(Down(c)'[j]) = Len(executed) + 1
        BY <2>1, <4>1 DEF Lengthened
      <4> QED BY <3>1, <4>2 DEF Lengthened
    <3> QED BY <1>2, <3>3, <3>4 DEF Lengthened
  <2> QED BY <1>1, <2>1 DEF Ahead
<1> QED BY <1>1, <1>2, <1>3, <1>4, Zenon DEF Listed

LEMMA SingleAnswers ==
  ASSUME NEW c \in Connection, NEW note, Single(c, note), sent'[c]["up"] = sent[c]["up"],
         served[c] \in Nat, served'[c] = served[c] + 1, Len(Up(c)) \in Nat
  PROVE  Single(c, note)'
<1>1. Up(c)' = Up(c)
  BY DEF Up
<1>2. \A i \in served'[c] + 1 .. Len(Up(c)) : i \in served[c] + 1 .. Len(Up(c))
  OBVIOUS
<1> QED BY <1>1, <1>2 DEF Single

\* The statement run in this step, if there is one, is the one every frame from there on
\* is of, where the driver does not pipeline.
LEMMA LatelyAnswers ==
  ASSUME Typed, NEW c \in Connection, NEW note, NEW shown, NEW longer, NEW news,
         Scripted(c, note), Resulted(c, Down(c), shown),
         Single(c, note), Lately(c, note), Writes(c, news), Lengthened(c, shown, longer), Counts(c),
         Len(sent[c]["down"]) = 2 * Len(Down(c)), NEW type, Handles(c, note, type),
         \A j \in Len(Down(c)) + 1 .. Len(Down(c)') : Closes(Down(c)'[j]) =>
              LET run == executed'[Len(executed) + 1]
              IN  /\ note[served[c] + 1].nth > 0
                  /\ run.call = asked[c][note[served[c] + 1].nth]
                  /\ run.bound => type # "P"
  PROVE  Lately(c, note)'
<1>1. Heard(c)' = Heard(c) /\ Up(c)' = Up(c) /\ Heard(c) \in Nat /\ Heard(c) <= Len(Down(c))
  <2>1. Heard(c)' = Heard(c) /\ Up(c)' = Up(c)
    BY DEF Heard, Up, Writes
  <2> QED BY <2>1, ReadWritten DEF Lengthened
<1>2. PICK k \in Nat, N \in Nat : k = served[c] /\ N = Len(Up(c)) /\ k + 1 <= N /\ served'[c] = k + 1
  BY DEF Handles
<1>3. /\ \A i \in 1 .. N : note[i] = After(note[i - 1], Up(c)[i])
      /\ \A i \in 0 .. N : note[i] \in Note /\ Meant(note[i], asked[c])
      /\ \A i, j \in 0 .. N : i <= j => note[i].nth <= note[j].nth
  BY <1>2, Zenon DEF Scripted, Leads
<1>4. PICK m : m = note[k + 1].nth
  OBVIOUS
<1>5. ASSUME NEW j \in Heard(c) + 1 .. Len(Down(c)), Closes(Down(c)[j]), NEW i \in k + 1 .. N
      PROVE  /\ note[i].nth > 0
             /\ c \notin Pipelining =>
                    LET run == executed'[SerialOf(Down(c)[j])]
                    IN  note[i].sql = run.call[1] /\ (run.bound => note[i].params = run.call[2])
  <2>1. j \in 1 .. Len(Down(c)) /\ i \in k .. N
    BY <1>1, <1>2 DEF Lengthened
  <2>2. SerialOf(Down(c)[j]) \in 1 .. Len(executed)
    BY <1>5, <2>1 DEF Resulted, Lengthened
  <2>3. executed'[SerialOf(Down(c)[j])] = executed[SerialOf(Down(c)[j])]
    BY <2>2 DEF Lengthened
  <2> QED BY <1>2, <1>5, <2>1, <2>3 DEF Lately
<1>6. ASSUME NEW j \in Len(Down(c)) + 1 .. Len(Down(c)'), Closes(Down(c)'[j]), NEW i \in k + 1 .. N
      PROVE  /\ note[i].nth > 0
             /\ c \notin Pipelining =>
                    LET run == executed'[Len(executed) + 1]
                    IN  note[i].sql = run.call[1] /\ (run.bound => note[i].params = run.call[2])
  <2> DEFINE run == executed'[Len(executed) + 1]
  <2>1. m > 0 /\ run.call = asked[c][m] /\ (run.bound => type # "P")
    BY <1>2, <1>4, <1>6
  <2>2. i \in 0 .. N /\ k + 1 \in 0 .. N /\ k + 1 <= i
    BY <1>2
  <2>3. note[i].nth > 0 /\ note[i].nth \in Nat /\ m \in Nat
    BY <1>3, <1>4, <2>1, <2>2, SMTT(30) DEF Note
  <2> HIDE DEF run
  <2>4. ASSUME c \notin Pipelining
        PROVE  note[i].sql = run.call[1] /\ (run.bound => note[i].params = run.call[2])
    <3>1. \A l \in k + 1 .. N : note[l].nth = m
      <4>1. \A l \in k + 1 .. N : note[l].nth = note[N].nth
        BY <1>2, <2>4 DEF Single
      <4>2. k + 1 \in k + 1 .. N
        BY <1>2
      <4> QED BY <1>4, <4>1, <4>2
    <3>2. Meant(note[i], asked[c]) /\ note[i].nth = m /\ m # 0
      <4>1. Meant(note[i], asked[c])
        BY <1>3, <2>2
      <4>2. note[i].nth = m
        BY <3>1
      <4> QED BY <2>3, <4>1, <4>2
    <3>3. note[i].sql = asked[c][m][1] /\ (note[i].type # "P" => note[i].params = asked[c][m][2])
      BY <3>2 DEF Meant
    <3>4. run.bound => note[i].type # "P"
      <4>1. CASE i = k + 1
        BY <1>2, <2>1, <4>1, Zenon DEF Handles
      <4>2. CASE i # k + 1
        <5>1. i \in 1 .. N /\ i - 1 \in k + 1 .. N
          BY <1>2, <4>2, SMTT(30)
        <5>2. note[i] = After(note[i - 1], Up(c)[i]) /\ note[i - 1].nth = m
          BY <1>3, <3>1, <5>1
        <5>3. note[i].type = "P" => note[i].nth = m + 1
          BY <5>2 DEF After, Begins
        <5> QED BY <2>3, <3>2, <5>3
      <4> QED BY <4>1, <4>2
    <3> QED BY <2>1, <3>3, <3>4
  <2> QED BY <2>3, <2>4 DEF run
<1>7. ASSUME NEW j \in Heard(c) + 1 .. Len(Down(c)'), Closes(Down(c)'[j]), NEW i \in k + 1 .. N
      PROVE  /\ note[i].nth > 0
             /\ c \notin Pipelining =>
                    LET run == executed'[SerialOf(Down(c)'[j])]
                    IN  note[i].sql = run.call[1] /\ (run.bound => note[i].params = run.call[2])
  <2>1. CASE j <= Len(Down(c))
    <3>1. j \in Heard(c) + 1 .. Len(Down(c)) /\ Down(c)'[j] = Down(c)[j]
      BY <1>1, <2>1 DEF Lengthened
    <3> QED BY <1>5, <1>7, <3>1
  <2>2. CASE j > Len(Down(c))
    <3>1. j \in Len(Down(c)) + 1 .. Len(Down(c)')
      BY <1>1, <2>2 DEF Lengthened
    <3>2. SerialOf(Down(c)'[j]) = Len(executed) + 1
      BY <1>7, <3>1 DEF Lengthened
    <3> QED BY <1>6, <1>7, <3>1, <3>2
  <2> QED BY <1>1, <2>1, <2>2 DEF Lengthened
<1> QED BY <1>1, <1>2, <1>7 DEF Lately
-----------------------------------------------------------------------------
(***************************************************************************)
(* A connection without TLS after a step of the server.                    *)
(***************************************************************************)

\* The server's step on c: the frame it handles, and what it writes.
Answered(c, note, type, news) ==
    /\ news \in Seq(ServerFrame) /\ Writes(c, news) /\ Handles(c, note, type)
    /\ UNCHANGED driverVars /\ Serving(c, note)'

LEMMA AnswersConnect ==
  ASSUME Typed, Relayed, Matched(interactions),
         NEW c \in Connection, NEW note, NEW shown, Connected(c, note, shown), ~ AskedForTls(c),
         NEW type, NEW news, Answered(c, note, type, news),
         NEW longer, Lengthened(c, shown, longer), Spoken(c, note, longer)',
         \A j \in Len(Down(c)) + 1 .. Len(Down(c)') : Closes(Down(c)'[j]) =>
              LET run == executed'[Len(executed) + 1]
              IN  /\ note[served[c] + 1].nth > 0
                  /\ run.call = asked[c][note[served[c] + 1].nth]
                  /\ run.bound => type # "P"
  PROVE  Connected(c, note, longer)'
<1>1. /\ Scripted(c, note) /\ Serving(c, note) /\ Counts(c) /\ Answering(c, note, shown)
      /\ Spoken(c, note, shown) /\ Resulted(c, Down(c), shown) /\ Single(c, note) /\ Lately(c, note)
      /\ Listed(c)
  BY StreamsCount DEF Connected, Answering, Spoken
<1>2. Writes(c, news) /\ Handles(c, note, type) /\ Serving(c, note)' /\ UNCHANGED driverVars
  BY DEF Answered
<1>3. sent'[c]["up"] = sent[c]["up"] /\ recorder' = recorder /\ bridge' = bridge
  BY <1>2 DEF Writes
<1>4. Scripted(c, note)' /\ ~ AskedForTls(c)'
  <2>1. Scripted(c, note)'
    BY <1>1, <1>2, <1>3, ScriptedStays DEF driverVars
  <2> QED BY <1>3, <2>1 DEF AskedForTls
<1>5. Len(sent[c]["down"]) = 2 * Len(Down(c))
  BY <1>1, DownFrames DEF Spoken
<1>6. Single(c, note)'
  BY <1>1, <1>2, <1>3, SingleAnswers DEF Handles
<1>7. Lately(c, note)'
  BY <1>1, <1>2, <1>5, LatelyAnswers
<1>8. bridge[c] = "open" => Reader(c, note, longer)'
  BY <1>1, <1>2, <1>5, ReaderAnswers DEF Answering
<1>9. Listed(c)'
  BY <1>1, <1>2, <1>5, ListedAnswers
<1>10. Answering(c, note, longer)'
  BY <1>1, <1>3, <1>6, <1>7, <1>8, <1>9 DEF Answering
<1> QED BY <1>2, <1>4, <1>10 DEF Connected

\* What a step without a result leaves to show: where the accounts end.
Quietly(c, note, type, news, shown, longer) ==
    /\ Extends(Down(c), shown, Down(c) \o news, longer) /\ Quiet(Down(c), Down(c) \o news)
    /\ longer[Len(Down(c) \o news)].rows = <<>>
    /\ longer[Len(Down(c) \o news)].ready = note[served[c] + 1].ends
    /\ longer[Len(Down(c) \o news)].columns =
            IF type = "D" /\ ~ skipping'[c] THEN Columns(asked[c][note[served[c] + 1].nth][1])
            ELSE <<>>
    /\ type \in Ends => /\ Len(Down(c) \o news) > 0
                        /\ (Down(c) \o news)[Len(Down(c) \o news)].type = "Z"

LEMMA QuietConnects ==
  ASSUME Typed, Relayed, Matched(interactions),
         NEW c \in Connection, NEW note, NEW shown, Connected(c, note, shown), ~ AskedForTls(c),
         NEW type, NEW news, Answered(c, note, type, news), executed' = executed,
         NEW longer, Quietly(c, note, type, news, shown, longer)
  PROVE  Connected(c, note, longer)'
<1>1. Spoken(c, note, shown) /\ Resulted(c, Down(c), shown) /\ sent[c]["down"] = HalvesOf(Down(c))
  BY DEF Connected, Answering, Spoken
<1>2. news \in Seq(ServerFrame) /\ Writes(c, news) /\ Handles(c, note, type) /\ UNCHANGED driverVars
  BY DEF Answered
<1>3. Down(c)' = Down(c) \o news /\ sent'[c]["down"] = HalvesOf(Down(c)')
  BY <1>1, <1>2, DownGrows
<1>4. PICK base, more : base = Down(c) /\ more = Down(c)' /\ base \in Seq(ServerFrame)
  BY <1>1, DownFrames
<1>5. /\ Extends(base, shown, more, longer) /\ Quiet(base, more) /\ more = base \o news
  BY <1>3, <1>4 DEF Quietly
<1>6. /\ longer[Len(more)].rows = <<>>
      /\ longer[Len(more)].ready = note[served[c] + 1].ends
      /\ longer[Len(more)].columns =
            IF type = "D" /\ ~ skipping'[c] THEN Columns(asked[c][note[served[c] + 1].nth][1])
            ELSE <<>>
      /\ type \in Ends => Len(more) > 0 /\ more[Len(more)].type = "Z"
  BY <1>4, <1>5 DEF Quietly
<1>7. Resulted(c, more, longer)'
  BY <1>1, <1>4, <1>5, ResultedQuiet
<1>8. Tells(more, longer) /\ more \in Seq(ServerFrame)
  BY <1>5 DEF Extends
<1>9. /\ served'[c] = served[c] + 1 /\ served[c] \in Nat /\ note[served[c] + 1].type = type
      /\ asked' = asked
  BY <1>2 DEF Handles, driverVars
<1>10. Spoken(c, note, longer)'
  <2>1. served'[c] # 0
    BY <1>9
  <2>2. Resulted(c, Down(c), longer)'
    BY <1>4, <1>7 DEF Resulted
  <2>3. /\ sent'[c]["down"] = HalvesOf(more) /\ Down(c)' = more
    BY <1>3, <1>4
  <2> QED BY <1>6, <1>8, <1>9, <2>1, <2>2, <2>3 DEF Spoken
<1>11. \A j \in Len(base) + 1 .. Len(more) : ~ Closes(more[j])
  BY <1>5 DEF Quiet
<1>12. Lengthened(c, shown, longer)
  <2>1. /\ Len(base) \in Nat /\ Len(more) \in Nat /\ Len(base) <= Len(more)
        /\ \A i \in 1 .. Len(base) : more[i] = base[i]
        /\ \A i \in 0 .. Len(base) : longer[i] = shown[i]
    BY <1>4, <1>5, <1>8 DEF Extends
  <2>2. executed \in Seq(Run) /\ Len(executed) \in Nat /\ RunOn(c) \subseteq 1 .. Len(executed)
    BY DEF Typed, RunOn
  <2> QED BY <1>4, <1>11, <2>1, <2>2 DEF Lengthened
<1> QED BY <1>4, <1>10, <1>11, <1>12, AnswersConnect

\* What a step with a result leaves to show.
Finally(c, note, type, news, shown, longer, frame, columns, rows) ==
    /\ Concludes(Down(c), shown, Down(c) \o news, longer, frame, columns, rows,
                 note[served[c] + 1].ends)
    /\ type = "Q" => /\ Len(Down(c) \o news) > 0
                     /\ (Down(c) \o news)[Len(Down(c) \o news)].type = "Z"

LEMMA FinalConnects ==
  ASSUME Typed, Relayed, Matched(interactions),
         NEW c \in Connection, NEW note, NEW shown, Connected(c, note, shown), ~ AskedForTls(c),
         NEW type \in {"Q", "P", "E"}, NEW news, Answered(c, note, type, news),
         type = "E" => ~ skipping[c],
         NEW run, Grows(run), run.on = c, run.call = Statement(c), run.bound => type # "P",
         NEW frame, NEW columns, NEW rows,
         \/ /\ frame = ErrorFrame /\ run.failed
         \/ /\ frame = DoneFrame /\ ~ run.failed
            /\ columns = IF run.described THEN Columns(run.call[1]) ELSE <<>>
            /\ rows = Serials(run.call[1]),
         NEW longer, Finally(c, note, type, news, shown, longer, frame, columns, rows)
  PROVE  Connected(c, note, longer)'
<1>1. /\ Spoken(c, note, shown) /\ Resulted(c, Down(c), shown) /\ sent[c]["down"] = HalvesOf(Down(c))
      /\ Scripted(c, note) /\ Serving(c, note)
  BY DEF Connected, Answering, Spoken
<1>2. news \in Seq(ServerFrame) /\ Writes(c, news) /\ Handles(c, note, type) /\ UNCHANGED driverVars
  BY DEF Answered
<1>3. Down(c)' = Down(c) \o news /\ sent'[c]["down"] = HalvesOf(Down(c)')
  BY <1>1, <1>2, DownGrows
<1>4. PICK base, more : base = Down(c) /\ more = Down(c)' /\ base \in Seq(ServerFrame)
  BY <1>1, DownFrames
<1>5. /\ Concludes(base, shown, more, longer, frame, columns, rows, note[served[c] + 1].ends)
      /\ more = base \o news
      /\ type = "Q" => Len(more) > 0 /\ more[Len(more)].type = "Z"
  BY <1>3, <1>4 DEF Finally
<1>6. Resulted(c, more, longer)'
  BY <1>1, <1>4, <1>5, ResultedMore
<1>7. /\ Extends(base, shown, more, longer)
      /\ longer[Len(more)].columns = <<>> /\ longer[Len(more)].rows = <<>>
      /\ longer[Len(more)].ready = note[served[c] + 1].ends
  BY <1>5 DEF Concludes
<1>8. Tells(more, longer) /\ more \in Seq(ServerFrame)
  BY <1>7 DEF Extends
<1>9. /\ served'[c] = served[c] + 1 /\ served[c] \in Nat /\ note[served[c] + 1].type = type
      /\ asked' = asked
  BY <1>2 DEF Handles, driverVars
<1>10. Spoken(c, note, longer)'
  <2>1. served'[c] # 0
    BY <1>9
  <2>2. Resulted(c, Down(c), longer)'
    BY <1>4, <1>6 DEF Resulted
  <2>3. sent'[c]["down"] = HalvesOf(more) /\ Down(c)' = more
    BY <1>3, <1>4
  <2>4. type \in Ends => Len(more) > 0 /\ more[Len(more)].type = "Z"
    BY <1>5 DEF Ends
  <2> QED BY <1>7, <1>8, <1>9, <2>1, <2>2, <2>3, <2>4 DEF Spoken
<1>11. /\ Len(executed) \in Nat /\ executed'[Len(executed) + 1] = run
       /\ \A t \in 1 .. Len(executed) : executed'[t] = executed[t]
       /\ RunOn(c) \subseteq 1 .. Len(executed)
  BY RunsGrow
<1>12. \A j \in Len(base) + 1 .. Len(more) : Closes(more[j]) => SerialOf(more[j]) = Len(executed) + 1
  <2>1. PICK i, a : AnswersAt(base, more, longer, i, frame, a)
    BY <1>5 DEF Concludes, Answers
  <2>2. more[i] = frame /\ \A k \in Len(base) + 1 .. Len(more) : Closes(more[k]) => k = i
    BY <2>1 DEF AnswersAt
  <2>3. SerialOf(frame) = Len(executed) + 1
    BY DEF SerialOf, ErrorFrame, DoneFrame
  <2> QED BY <2>2, <2>3
<1>13. Lengthened(c, shown, longer)
  <2>1. /\ Len(base) \in Nat /\ Len(more) \in Nat /\ Len(base) <= Len(more)
        /\ \A i \in 1 .. Len(base) : more[i] = base[i]
        /\ \A i \in 0 .. Len(base) : longer[i] = shown[i]
    BY <1>4, <1>7, <1>8 DEF Extends
  <2> QED BY <1>4, <1>11, <1>12, <2>1 DEF Lengthened
<1>14. /\ note[served[c] + 1].nth > 0 /\ run.call = asked[c][note[served[c] + 1].nth]
       /\ run.bound => type # "P"
  BY <1>1, <1>2, StatementIs
<1> QED BY <1>10, <1>11, <1>13, <1>14, AnswersConnect
-----------------------------------------------------------------------------
(***************************************************************************)
(* The server's steps, one by one: the control.                            *)
(***************************************************************************)

LEMMA ServerTyped ==
  ASSUME Typed
  PROVE  /\ executed \in Seq(Run) /\ Len(executed) \in Nat
         /\ \A c \in Connection : skipping[c] \in BOOLEAN /\ told[c] \in BOOLEAN /\ served[c] \in Nat
         /\ ErrorFrame \in ServerFrame /\ DoneFrame \in ServerFrame /\ ReadyFrame \in ServerFrame
         /\ \A sql \in Sql : Description(sql) \in Seq(ServerFrame) /\ RowFrames(sql) \in Seq(ServerFrame)
<1>1. executed \in Seq(Run) /\ Len(executed) \in Nat
  BY DEF Typed
<1> QED BY <1>1, AnswersAreTyped DEF Typed

\* How many statements have been run by the time the server reads a frame.
LEMMA RunBefore ==
  ASSUME Typed, NEW c \in Connection, NEW note, Serving(c, note), NEW type, Handles(c, note, type)
  PROVE  /\ Cardinality(RunOn(c)) \in Nat /\ note[served[c] + 1].nth \in Nat
         /\ skipping[c] => type \in {"B", "D", "E", "S"}
         /\ told[c] => type \in {"E", "S"}
         /\ type \in {"Startup", "SSLRequest", "S", "C"} =>
              Cardinality(RunOn(c)) = note[served[c] + 1].nth
         /\ type \in {"P", "Q"} => Cardinality(RunOn(c)) = note[served[c] + 1].nth - 1
         /\ type \in {"B", "D", "E"} =>
              Cardinality(RunOn(c)) = IF skipping[c] THEN note[served[c] + 1].nth
                                      ELSE note[served[c] + 1].nth - 1
<1>1. PICK n, m : n = note[served[c]] /\ m = note[served[c] + 1]
  OBVIOUS
<1>2. /\ n.nth \in Nat /\ m.nth \in Nat /\ Follows(n.type, type)
      /\ m.nth = IF type \in {"P", "Q"} \/ (type = "B" /\ n.type # "P") THEN n.nth + 1 ELSE n.nth
  BY <1>1 DEF Handles, Note
<1>3. /\ Cardinality(RunOn(c)) = IF n.type \in {"P", "B", "D"} /\ ~ skipping[c]
                                 THEN n.nth - 1 ELSE n.nth
      /\ skipping[c] => n.type \in {"P", "B", "D", "E"}
      /\ told[c] => n.type \in {"D", "E"}
  BY <1>1 DEF Serving
<1>4. Cardinality(RunOn(c)) \in Nat
  BY FS_CardinalityType DEF Serving
<1>5. PICK k \in Nat : k = Cardinality(RunOn(c))
  BY <1>4
<1>6. skipping[c] => type \in {"B", "D", "E", "S"}
  BY <1>2, <1>3 DEF Follows, Ends
<1>7. told[c] => type \in {"E", "S"}
  BY <1>2, <1>3 DEF Follows, Ends
<1>8. type \in {"Startup", "SSLRequest", "S", "C"} => k = m.nth
  <2>1. type \in {"Startup", "SSLRequest", "S", "C"} => n.type \notin {"P", "B", "D"}
    BY <1>2 DEF Follows, Ends
  <2> QED BY <1>2, <1>3, <1>5, <2>1
<1>9. type \in {"P", "Q"} => k = m.nth - 1
  <2>1. type \in {"P", "Q"} => n.type \notin {"P", "B", "D"}
    BY <1>2 DEF Follows, Ends
  <2> QED BY <1>2, <1>3, <1>5, <2>1
<1>10. type \in {"B", "D", "E"} => k = IF skipping[c] THEN m.nth ELSE m.nth - 1
  <2>1. CASE type = "B"
    <3>1. n.type = "P" \/ (n.type \in Ends /\ ~ skipping[c])
      BY <1>2, <1>3, <2>1 DEF Follows, Ends
    <3> QED BY <1>2, <1>3, <1>5, <2>1, <3>1 DEF Ends
  <2>2. CASE type \in {"D", "E"}
    <3>1. n.type \in {"B", "D"} /\ m.nth = n.nth
      BY <1>2, <2>2 DEF Follows, Ends
    <3> QED BY <1>3, <1>5, <2>2, <3>1
  <2> QED BY <2>1, <2>2
<1> QED BY <1>1, <1>2, <1>4, <1>5, <1>6, <1>7, <1>8, <1>9, <1>10

\* What every step of the server that answers comes to.
LEMMA AnsweredBy ==
  ASSUME Typed, Relayed, NEW c \in Connection, NEW note, Scripted(c, note), Serving(c, note),
         NEW type, Handles(c, note, type), NEW news \in Seq(ServerFrame), Writes(c, news),
         UNCHANGED driverVars, skipping'[c] \in BOOLEAN, told'[c] \in BOOLEAN,
         RunsSo(c, IF type \in {"P", "B", "D"} /\ ~ skipping'[c]
                   THEN note[served[c] + 1].nth - 1 ELSE note[served[c] + 1].nth),
         skipping'[c] => type \in {"P", "B", "D", "E"},
         type = "D" /\ ~ skipping'[c] => told'[c],
         told'[c] => type \in {"D", "E"}
  PROVE  Answered(c, note, type, news)
<1>1. sent'[c]["up"] = sent[c]["up"] /\ got'[c]["up"] = got[c]["up"]
  BY DEF Writes
<1>2. Serving(c, note)'
  BY <1>1, ServingNext
<1> QED BY <1>2 DEF Answered

LEMMA SyncAnswered ==
  ASSUME Typed, Relayed, NEW c \in Connection, NEW note, Scripted(c, note), Serving(c, note),
         AnswerSync(c), UNCHANGED driverVars
  PROVE  /\ \E type \in {"Startup", "S"} : Answered(c, note, type, <<ReadyFrame>>)
         /\ executed' = executed
<1>1. PICK type \in {"Startup", "S"} : Due(c, type)
  BY DEF AnswerSync
<1>2. Handles(c, note, type)
  BY <1>1, DueHandles
<1>3. <<ReadyFrame>> \in Seq(ServerFrame)
  BY ServerTyped
<1>4. Writes(c, <<ReadyFrame>>)
  BY <1>3, ReplyWrites, Zenon DEF AnswerSync
<1>5. skipping'[c] = FALSE /\ told'[c] = FALSE /\ executed' = executed
  BY DEF AnswerSync, Typed
<1>6. RunsSo(c, note[served[c] + 1].nth)
  BY <1>2, <1>5, RunsSame, RunBefore
<1>7. Answered(c, note, type, <<ReadyFrame>>)
  BY <1>2, <1>3, <1>4, <1>5, <1>6, AnsweredBy, Zenon
<1> QED BY <1>5, <1>7

LEMMA SkipAnswered ==
  ASSUME Typed, Relayed, NEW c \in Connection, NEW note, Scripted(c, note), Serving(c, note),
         Skip(c), UNCHANGED driverVars
  PROVE  /\ \E type \in {"B", "D", "E", "C"} :
              Answered(c, note, type, <<>>) /\ (skipping[c] \/ type \in {"B", "C"})
         /\ executed' = executed /\ skipping' = skipping
<1>1. PICK type \in {"B", "D", "E", "C"} : Due(c, type) /\ (skipping[c] \/ type \in {"B", "C"})
  BY DEF Skip
<1>2. Handles(c, note, type)
  BY <1>1, DueHandles
<1>3. Writes(c, <<>>) /\ <<>> \in Seq(ServerFrame)
  BY NothingWrites DEF Skip
<1>4. /\ skipping'[c] = skipping[c] /\ told'[c] = told[c] /\ executed' = executed /\ skipping' = skipping
      /\ skipping'[c] \in BOOLEAN /\ told'[c] \in BOOLEAN
  BY ServerTyped DEF Skip
<1>5. RunsSo(c, Cardinality(RunOn(c)))
  BY <1>4, RunsSame
<1>6. /\ Cardinality(RunOn(c)) = IF type \in {"P", "B", "D"} /\ ~ skipping[c]
                                 THEN note[served[c] + 1].nth - 1 ELSE note[served[c] + 1].nth
      /\ skipping[c] => type \in {"P", "B", "D", "E"}
      /\ told[c] => type \in {"D", "E"}
  BY <1>1, <1>2, RunBefore
<1>7. Answered(c, note, type, <<>>)
  BY <1>1, <1>2, <1>3, <1>4, <1>5, <1>6, AnsweredBy, Zenon
<1> QED BY <1>1, <1>4, <1>7

LEMMA DescribeAnswered ==
  ASSUME Typed, Relayed, NEW c \in Connection, NEW note, Scripted(c, note), Serving(c, note),
         AnswerDescribe(c), UNCHANGED driverVars
  PROVE  /\ Answered(c, note, "D", Description(Statement(c)[1]))
         /\ executed' = executed /\ ~ skipping[c] /\ ~ skipping'[c]
<1>1. Due(c, "D") /\ ~ skipping[c]
  BY DEF AnswerDescribe
<1>2. Handles(c, note, "D")
  BY <1>1, DueHandles
<1>3. Statement(c)[1] \in Sql
  BY <1>1, <1>2, StatementIs
<1>4. Description(Statement(c)[1]) \in Seq(ServerFrame)
  BY <1>3, ServerTyped
<1>5. Writes(c, Description(Statement(c)[1]))
  BY <1>4, ReplyWrites DEF AnswerDescribe
<1>6. skipping'[c] = FALSE /\ told'[c] = TRUE /\ executed' = executed
  BY <1>1 DEF AnswerDescribe, Typed
<1>7. RunsSo(c, note[served[c] + 1].nth - 1)
  BY <1>1, <1>2, <1>6, RunsSame, RunBefore
<1>8. Answered(c, note, "D", Description(Statement(c)[1]))
  BY <1>2, <1>4, <1>5, <1>6, <1>7, AnsweredBy, Zenon
<1> QED BY <1>1, <1>6, <1>8

\* A statement run, as the server has it on record.
RunIs(c, failed, described, bound) ==
    [on |-> c, call |-> Statement(c), bound |-> bound, failed |-> failed, described |-> described]

LEMMA RunGrows ==
  ASSUME Typed, NEW c \in Connection, Statement(c) \in Sql \X Params,
         NEW failed \in BOOLEAN, NEW described \in BOOLEAN, NEW bound \in BOOLEAN,
         executed' = Append(executed, RunIs(c, failed, described, bound))
  PROVE  /\ Grows(RunIs(c, failed, described, bound))
         /\ RunIs(c, failed, described, bound).on = c
         /\ RunIs(c, failed, described, bound).call = Statement(c)
         /\ RunIs(c, failed, described, bound).bound = bound
         /\ RunIs(c, failed, described, bound).failed = failed
         /\ RunIs(c, failed, described, bound).described = described
BY ServerTyped DEF RunIs, Run, Grows

LEMMA ParseAnswered ==
  ASSUME Typed, Relayed, NEW c \in Connection, NEW note, Scripted(c, note), Serving(c, note),
         AnswerParse(c), UNCHANGED driverVars
  PROVE  \/ Answered(c, note, "P", <<>>) /\ executed' = executed
         \/ /\ Answered(c, note, "P", <<ErrorFrame>>)
            /\ Statement(c) \in Sql \X Params
            /\ executed' = Append(executed, RunIs(c, TRUE, FALSE, FALSE))
<1>1. Due(c, "P") /\ told' = told /\ told[c] \in BOOLEAN /\ skipping[c] \in BOOLEAN
  BY ServerTyped DEF AnswerParse
<1>2. Handles(c, note, "P")
  BY <1>1, DueHandles
<1>3. /\ ~ skipping[c] /\ ~ told[c] /\ Cardinality(RunOn(c)) = note[served[c] + 1].nth - 1
      /\ note[served[c] + 1].nth \in Nat
  BY <1>2, RunBefore
<1>4. CASE UNCHANGED <<proxyVars, skipping, executed>>
  <2>1. Writes(c, <<>>) /\ <<>> \in Seq(ServerFrame)
    BY <1>4, NothingWrites
  <2>2. RunsSo(c, note[served[c] + 1].nth - 1)
    BY <1>3, <1>4, RunsSame
  <2>3. ~ skipping'[c] /\ ~ told'[c] /\ skipping'[c] \in BOOLEAN /\ told'[c] \in BOOLEAN
    BY <1>1, <1>3, <1>4
  <2>4. Answered(c, note, "P", <<>>)
    BY <1>2, <2>1, <2>2, <2>3, AnsweredBy, Zenon
  <2> QED BY <1>4, <2>4, Zenon
<1>5. CASE Reply(c, <<ErrorFrame>>) /\ Rejected(c) /\ skipping' = [skipping EXCEPT ![c] = TRUE]
  <2>1. <<ErrorFrame>> \in Seq(ServerFrame)
    BY ServerTyped
  <2>2. Writes(c, <<ErrorFrame>>)
    BY <1>5, <2>1, ReplyWrites, Zenon
  <2>3. Statement(c) \in Sql \X Params
    BY <1>2, StatementIs
  <2>4. executed' = Append(executed, RunIs(c, TRUE, FALSE, FALSE))
    BY <1>5 DEF Rejected, RunIs
  <2>5. RunsSo(c, Cardinality(RunOn(c)) + 1)
    BY <2>3, <2>4, RunGrows, RunsMore, Zenon
  <2>6. RunsSo(c, note[served[c] + 1].nth)
    BY <1>3, <2>5
  <2>7. skipping'[c] = TRUE /\ ~ told'[c] /\ told'[c] \in BOOLEAN
    BY <1>1, <1>3, <1>5 DEF Typed
  <2>8. Answered(c, note, "P", <<ErrorFrame>>)
    BY <1>2, <2>1, <2>2, <2>6, <2>7, AnsweredBy, Zenon
  <2> QED BY <2>3, <2>4, <2>8, Zenon
<1> QED BY <1>4, <1>5, Zenon DEF AnswerParse

LEMMA QueryAnswered ==
  ASSUME Typed, Relayed, NEW c \in Connection, NEW note, Scripted(c, note), Serving(c, note),
         AnswerQuery(c), UNCHANGED driverVars
  PROVE  /\ Statement(c) \in Sql \X Params /\ Statement(c)[1] \in Sql
         /\ \/ /\ Answered(c, note, "Q", Description(Statement(c)[1]) \o RowFrames(Statement(c)[1])
                                          \o <<DoneFrame, ReadyFrame>>)
               /\ executed' = Append(executed, RunIs(c, FALSE, TRUE, TRUE))
            \/ /\ Answered(c, note, "Q", <<ErrorFrame, ReadyFrame>>)
               /\ executed' = Append(executed, RunIs(c, TRUE, FALSE, TRUE))
<1> DEFINE sql   == Statement(c)[1]
           whole == Description(sql) \o RowFrames(sql) \o <<DoneFrame, ReadyFrame>>
<1>1. Due(c, "Q") /\ told' = told /\ skipping' = skipping
  BY DEF AnswerQuery
<1>2. Handles(c, note, "Q")
  BY <1>1, DueHandles
<1>3. /\ ~ skipping[c] /\ ~ told[c] /\ Cardinality(RunOn(c)) = note[served[c] + 1].nth - 1
      /\ note[served[c] + 1].nth \in Nat
  BY <1>2, RunBefore
<1>4. Statement(c) \in Sql \X Params /\ sql \in Sql
  BY <1>2, StatementIs
<1>5. whole \in Seq(ServerFrame) /\ <<ErrorFrame, ReadyFrame>> \in Seq(ServerFrame)
  <2>1. /\ <<DoneFrame, ReadyFrame>> \in Seq(ServerFrame)
        /\ <<ErrorFrame, ReadyFrame>> \in Seq(ServerFrame)
    BY ServerTyped, ShortSeq
  <2>2. Description(sql) \in Seq(ServerFrame) /\ RowFrames(sql) \in Seq(ServerFrame)
    BY <1>4, ServerTyped
  <2>3. Description(sql) \o RowFrames(sql) \in Seq(ServerFrame)
    BY ONLY <2>2, Joined
  <2>4. whole \in Seq(ServerFrame)
    BY ONLY <2>1, <2>3, Joined
  <2> QED BY <2>1, <2>4
<1>6. /\ ~ skipping'[c] /\ ~ told'[c] /\ skipping'[c] \in BOOLEAN /\ told'[c] \in BOOLEAN
  BY <1>1, <1>3, ServerTyped
<1>7. ASSUME NEW news \in Seq(ServerFrame), Reply(c, news),
             NEW failed \in BOOLEAN, NEW described \in BOOLEAN,
             executed' = Append(executed, RunIs(c, failed, described, TRUE))
      PROVE  Answered(c, note, "Q", news)
  <2>1. Writes(c, news)
    BY <1>7, ReplyWrites
  <2>2. RunsSo(c, Cardinality(RunOn(c)) + 1)
    BY <1>4, <1>7, RunGrows, RunsMore, Zenon
  <2>3. RunsSo(c, note[served[c] + 1].nth)
    BY <1>3, <2>2
  <2> QED BY <1>2, <1>6, <2>1, <2>3, AnsweredBy
<1>8. CASE Reply(c, whole) /\ Executed(c, FALSE, TRUE)
  <2>1. executed' = Append(executed, RunIs(c, FALSE, TRUE, TRUE))
    BY <1>8 DEF Executed, RunIs
  <2> HIDE DEF whole
  <2>2. Answered(c, note, "Q", whole)
    BY <1>5, <1>7, <1>8, <2>1, Zenon
  <2> QED BY <1>4, <2>1, <2>2, Zenon DEF whole
<1>9. CASE Reply(c, <<ErrorFrame, ReadyFrame>>) /\ Executed(c, TRUE, FALSE)
  <2>1. executed' = Append(executed, RunIs(c, TRUE, FALSE, TRUE))
    BY <1>9 DEF Executed, RunIs
  <2>2. Answered(c, note, "Q", <<ErrorFrame, ReadyFrame>>)
    BY <1>5, <1>7, <1>9, <2>1, Zenon
  <2> QED BY <1>4, <2>1, <2>2, Zenon
<1> QED BY <1>8, <1>9, Zenon DEF AnswerQuery

LEMMA ExecuteAnswered ==
  ASSUME Typed, Relayed, NEW c \in Connection, NEW note, Scripted(c, note), Serving(c, note),
         AnswerExecute(c), UNCHANGED driverVars
  PROVE  /\ Statement(c) \in Sql \X Params /\ Statement(c)[1] \in Sql
         /\ \E frame \in {DoneFrame, ErrorFrame}, failed \in BOOLEAN :
              /\ Answered(c, note, "E", RowFrames(Statement(c)[1]) \o <<frame>>)
              /\ executed' = Append(executed, RunIs(c, failed, told[c], TRUE))
              /\ frame = IF failed THEN ErrorFrame ELSE DoneFrame
         /\ ~ skipping[c]
<1> DEFINE sql == Statement(c)[1]
<1>1. Due(c, "E") /\ told' = told /\ ~ skipping[c]
  BY DEF AnswerExecute
<1>2. Handles(c, note, "E")
  BY <1>1, DueHandles
<1>3. /\ Cardinality(RunOn(c)) = note[served[c] + 1].nth - 1
      /\ note[served[c] + 1].nth \in Nat
  BY <1>1, <1>2, RunBefore
<1>4. Statement(c) \in Sql \X Params /\ sql \in Sql
  BY <1>1, <1>2, StatementIs
<1>5. ASSUME NEW frame \in {DoneFrame, ErrorFrame}, Reply(c, RowFrames(sql) \o <<frame>>),
             NEW failed \in BOOLEAN,
             executed' = Append(executed, RunIs(c, failed, told[c], TRUE)),
             skipping'[c] \in BOOLEAN
      PROVE  Answered(c, note, "E", RowFrames(sql) \o <<frame>>)
  <2>1. <<frame>> \in Seq(ServerFrame) /\ RowFrames(sql) \in Seq(ServerFrame)
    BY <1>4, ServerTyped, ShortSeq
  <2>2. PICK news : news = RowFrames(sql) \o <<frame>> /\ news \in Seq(ServerFrame)
    BY ONLY <2>1, Joined, Zenon
  <2>3. Writes(c, news)
    BY <1>5, <2>2, ReplyWrites, Zenon
  <2>4. RunsSo(c, Cardinality(RunOn(c)) + 1)
    BY <1>4, <1>5, RunGrows, RunsMore, ServerTyped, Zenon
  <2>5. RunsSo(c, note[served[c] + 1].nth)
    BY <1>3, <2>4
  <2>6. told'[c] \in BOOLEAN
    BY <1>1, ServerTyped
  <2>7. Answered(c, note, "E", news)
    BY <1>2, <1>5, <2>2, <2>3, <2>5, <2>6, AnsweredBy, Zenon
  <2> QED BY <2>2, <2>7
<1>6. CASE Reply(c, RowFrames(sql) \o <<DoneFrame>>) /\ Executed(c, FALSE, told[c]) /\ UNCHANGED skipping
  <2>1. executed' = Append(executed, RunIs(c, FALSE, told[c], TRUE)) /\ skipping'[c] \in BOOLEAN
    BY <1>6, ServerTyped DEF Executed, RunIs
  <2>2. Answered(c, note, "E", RowFrames(sql) \o <<DoneFrame>>)
    BY <1>5, <1>6, <2>1, Zenon
  <2> QED BY <1>1, <1>4, <2>1, <2>2, Zenon
<1>7. CASE /\ Reply(c, RowFrames(sql) \o <<ErrorFrame>>) /\ Executed(c, TRUE, told[c])
           /\ skipping' = [skipping EXCEPT ![c] = TRUE]
  <2>1. executed' = Append(executed, RunIs(c, TRUE, told[c], TRUE)) /\ skipping'[c] \in BOOLEAN
    BY <1>7, ServerTyped DEF Executed, RunIs, Typed
  <2>2. Answered(c, note, "E", RowFrames(sql) \o <<ErrorFrame>>)
    BY <1>5, <1>7, <2>1, Zenon
  <2> QED BY <1>1, <1>4, <2>1, <2>2, Zenon
<1> QED BY <1>6, <1>7, Zenon DEF AnswerExecute
-----------------------------------------------------------------------------
(***************************************************************************)
(* The server's steps, one by one: what they write.                        *)
(***************************************************************************)

\* What the accounts say before the server's step.
LEMMA ShownBefore ==
  ASSUME Typed, NEW c \in Connection, NEW note, NEW shown, Connected(c, note, shown),
         ~ AskedForTls(c), NEW type, Handles(c, note, type)
  PROVE  LET a == shown[Len(Down(c))]
         IN  /\ Down(c) \in Seq(ServerFrame) /\ Len(Down(c)) \in Nat /\ Tells(Down(c), shown)
             /\ a.rows = <<>> /\ a.ready = note[served[c]].ends /\ a.ready \in Nat
             /\ note[served[c] + 1].ends = IF type \in Ends THEN a.ready + 1 ELSE a.ready
             /\ note[served[c]].type # "D" \/ skipping[c] => a.columns = <<>>
             /\ type \in {"P", "Q", "S", "Startup", "B", "D", "C"} => a.columns = <<>>
             /\ type = "E" /\ ~ skipping[c] =>
                  a.columns = IF told[c] THEN Columns(asked[c][note[served[c] + 1].nth][1]) ELSE <<>>
<1>1. PICK n, m, a : n = note[served[c]] /\ m = note[served[c] + 1] /\ a = shown[Len(Down(c))]
  OBVIOUS
<1>2. Spoken(c, note, shown) /\ Serving(c, note)
  BY DEF Connected, Answering
<1>3. Down(c) \in Seq(ServerFrame) /\ Len(Down(c)) \in Nat /\ Tells(Down(c), shown)
  BY <1>2, DownFrames DEF Spoken
<1>4. /\ a.rows = <<>> /\ a.ready = n.ends
      /\ a.columns = IF n.type = "D" /\ ~ skipping[c] THEN Columns(asked[c][n.nth][1]) ELSE <<>>
      /\ n.type = "D" /\ ~ skipping[c] => told[c]
      /\ told[c] => n.type \in {"D", "E"}
  BY <1>1, <1>2 DEF Spoken, Serving
<1>5. /\ Follows(n.type, type) /\ n \in Note
      /\ m.ends = IF type \in Ends THEN n.ends + 1 ELSE n.ends
      /\ m.nth = IF type \in {"P", "Q"} \/ (type = "B" /\ n.type # "P") THEN n.nth + 1 ELSE n.nth
  BY <1>1 DEF Handles
<1>6. n.ends \in Nat
  BY <1>5 DEF Note
<1>7. type \in {"P", "Q", "S", "Startup", "B", "D", "C"} => n.type # "D"
  BY <1>5 DEF Follows, Ends
<1>8. type = "E" => n.type \in {"B", "D"} /\ m.nth = n.nth
  BY <1>5 DEF Follows, Ends
<1>9. type = "E" /\ ~ skipping[c] =>
        a.columns = IF told[c] THEN Columns(asked[c][m.nth][1]) ELSE <<>>
  BY <1>4, <1>8
<1> QED BY <1>1, <1>3, <1>4, <1>5, <1>6, <1>7, <1>9

LEMMA SyncConnects ==
  ASSUME Typed, Relayed, Matched(interactions), NEW c \in Connection, NEW note, NEW shown,
         Connected(c, note, shown), ~ AskedForTls(c), AnswerSync(c), UNCHANGED driverVars
  PROVE  \E longer : Connected(c, note, longer)'
<1>1. Scripted(c, note) /\ Serving(c, note)
  BY DEF Connected
<1>2. PICK type \in {"Startup", "S"} : Answered(c, note, type, <<ReadyFrame>>) /\ executed' = executed
  BY <1>1, SyncAnswered
<1>3. PICK base, a : base = Down(c) /\ a = shown[Len(base)]
  OBVIOUS
<1>4. /\ base \in Seq(ServerFrame) /\ Tells(base, shown) /\ a.rows = <<>> /\ a.columns = <<>>
      /\ note[served[c] + 1].ends = a.ready + 1
  <2>1. Handles(c, note, type) /\ type \in Ends
    BY <1>2 DEF Answered, Ends
  <2> QED BY <1>2, <1>3, <2>1, ShownBefore
<1>5. ReadyFrame \in ServerFrame /\ ReadyFrame.type = "Z" /\ ~ Closes(ReadyFrame)
  BY ServerTyped DEF ReadyFrame, Closes
<1>6. PICK more : more = base \o <<ReadyFrame>> /\ more = Append(base, ReadyFrame)
  BY <1>4, <1>5, Appended, Zenon
<1>7. PICK longer :
        /\ Extends(base, shown, more, longer) /\ Quiet(base, more)
        /\ longer[Len(more)] = Show(a, ReadyFrame)
  <2>1. Extends(base, shown, base, shown) /\ Quiet(base, base)
    BY <1>4, SaidNothing
  <2>2. \E longer :
          /\ Extends(base, shown, Append(base, ReadyFrame), longer)
          /\ Quiet(base, Append(base, ReadyFrame))
          /\ longer[Len(Append(base, ReadyFrame))] = Show(shown[Len(base)], ReadyFrame)
    BY <1>4, <1>5, <2>1, SaidQuietly
  <2> QED BY <1>3, <1>6, <2>2, Zenon
<1>8. /\ longer[Len(more)].columns = <<>> /\ longer[Len(more)].rows = <<>>
      /\ longer[Len(more)].ready = note[served[c] + 1].ends
  BY <1>4, <1>5, <1>7 DEF Show
<1>9. Len(more) > 0 /\ more[Len(more)].type = "Z"
  BY <1>4, <1>5, <1>6, OneMore
<1>10. Quietly(c, note, type, <<ReadyFrame>>, shown, longer)
  BY <1>2, <1>3, <1>6, <1>7, <1>8, <1>9 DEF Quietly
<1> QED BY <1>2, <1>10, QuietConnects

\* A frame handled without a word.
LEMMA NothingConnects ==
  ASSUME Typed, Relayed, Matched(interactions), NEW c \in Connection, NEW note, NEW shown,
         Connected(c, note, shown), ~ AskedForTls(c), NEW type, Answered(c, note, type, <<>>),
         executed' = executed,
         type \in {"B", "C", "P"} \/ (skipping[c] /\ skipping'[c] /\ type \in {"D", "E"})
  PROVE  Connected(c, note, shown)'
<1>1. PICK base, a : base = Down(c) /\ a = shown[Len(base)]
  OBVIOUS
<1>2. /\ base \in Seq(ServerFrame) /\ Tells(base, shown) /\ a.rows = <<>> /\ a.columns = <<>>
      /\ note[served[c] + 1].ends = a.ready
  <2>1. Handles(c, note, type) /\ type \notin Ends
    BY DEF Answered, Ends
  <2> QED BY <1>1, <2>1, ShownBefore
<1>3. Extends(base, shown, base, shown) /\ Quiet(base, base) /\ base \o <<>> = base
  BY <1>2, SaidNothing
<1>4. type \notin Ends
  BY DEF Ends
<1>5. Quietly(c, note, type, <<>>, shown, shown)
  BY <1>1, <1>2, <1>3, <1>4 DEF Quietly
<1> QED BY <1>5, QuietConnects

LEMMA DescribeConnects ==
  ASSUME Typed, Relayed, Matched(interactions), NEW c \in Connection, NEW note, NEW shown,
         Connected(c, note, shown), ~ AskedForTls(c), AnswerDescribe(c), UNCHANGED driverVars
  PROVE  \E longer : Connected(c, note, longer)'
<1>1. Scripted(c, note) /\ Serving(c, note)
  BY DEF Connected
<1>2. PICK sql : sql = Statement(c)[1]
  OBVIOUS
<1>3. /\ Answered(c, note, "D", Description(sql)) /\ executed' = executed
      /\ ~ skipping[c] /\ ~ skipping'[c]
  BY <1>1, <1>2, DescribeAnswered
<1>4. Handles(c, note, "D")
  BY <1>3 DEF Answered
<1>5. sql = asked[c][note[served[c] + 1].nth][1]
  BY <1>1, <1>2, <1>3, <1>4, StatementIs
<1>6. PICK base, a : base = Down(c) /\ a = shown[Len(base)]
  OBVIOUS
<1>7. /\ base \in Seq(ServerFrame) /\ Tells(base, shown) /\ a.rows = <<>> /\ a.columns = <<>>
      /\ note[served[c] + 1].ends = a.ready
  BY <1>4, <1>6, ShownBefore DEF Ends
<1>8. PICK longer :
        /\ Extends(base, shown, base \o Description(sql), longer)
        /\ Quiet(base, base \o Description(sql))
        /\ longer[Len(base \o Description(sql))].columns = Columns(sql)
        /\ longer[Len(base \o Description(sql))].rows = shown[Len(base)].rows
        /\ longer[Len(base \o Description(sql))].ready = shown[Len(base)].ready
  BY <1>6, <1>7, SaidNothing, SaidDescription, SMTT(30)
<1>9. Quietly(c, note, "D", Description(sql), shown, longer)
  BY <1>3, <1>5, <1>6, <1>7, <1>8, Zenon DEF Quietly, Ends
<1> QED BY <1>3, <1>9, QuietConnects

LEMMA RejectionConnects ==
  ASSUME Typed, Relayed, Matched(interactions), NEW c \in Connection, NEW note, NEW shown,
         Connected(c, note, shown), ~ AskedForTls(c), Answered(c, note, "P", <<ErrorFrame>>),
         Statement(c) \in Sql \X Params,
         executed' = Append(executed, RunIs(c, TRUE, FALSE, FALSE))
  PROVE  \E longer : Connected(c, note, longer)'
<1>1. PICK run : /\ Grows(run) /\ run.on = c /\ run.call = Statement(c) /\ ~ run.bound /\ run.failed
  BY RunGrows, Zenon
<1>2. PICK base, a : base = Down(c) /\ a = shown[Len(base)]
  OBVIOUS
<1>3. Handles(c, note, "P")
  BY DEF Answered
<1>4. /\ base \in Seq(ServerFrame) /\ Tells(base, shown) /\ note[served[c] + 1].ends = a.ready
  BY <1>2, <1>3, ShownBefore DEF Ends
<1>5. PICK longer : Concludes(base, shown, base \o <<ErrorFrame>>, longer, ErrorFrame,
                              a.columns, a.rows, a.ready)
  BY <1>2, <1>4, ConcludesError, ServerTyped, Zenon
<1>6. Finally(c, note, "P", <<ErrorFrame>>, shown, longer, ErrorFrame, a.columns, a.rows)
  BY <1>2, <1>4, <1>5 DEF Finally
<1>7. Connected(c, note, longer)'
  BY <1>1, <1>6, FinalConnects
<1> QED BY <1>7

LEMMA LastOfTwo ==
  ASSUME NEW S, NEW s \in Seq(S), NEW a \in S, NEW b \in S
  PROVE  Len(s \o <<a, b>>) > 0 /\ (s \o <<a, b>>)[Len(s \o <<a, b>>)] = b
OBVIOUS

LEMMA QueryConnects ==
  ASSUME Typed, Relayed, Matched(interactions), NEW c \in Connection, NEW note, NEW shown,
         Connected(c, note, shown), ~ AskedForTls(c), AnswerQuery(c), UNCHANGED driverVars
  PROVE  \E longer : Connected(c, note, longer)'
<1>1. Scripted(c, note) /\ Serving(c, note) /\ Len(executed) \in Nat
  BY ServerTyped DEF Connected
<1>2. PICK sql : sql = Statement(c)[1]
  OBVIOUS
<1>3. PICK whole : whole = Description(sql) \o RowFrames(sql) \o <<DoneFrame, ReadyFrame>>
  BY Zenon
<1>4. /\ Statement(c) \in Sql \X Params /\ sql \in Sql
      /\ \/ /\ Answered(c, note, "Q", whole)
            /\ executed' = Append(executed, RunIs(c, FALSE, TRUE, TRUE))
         \/ /\ Answered(c, note, "Q", <<ErrorFrame, ReadyFrame>>)
            /\ executed' = Append(executed, RunIs(c, TRUE, FALSE, TRUE))
  BY <1>1, <1>2, <1>3, QueryAnswered, Zenon
<1>5. PICK base, a : base = Down(c) /\ a = shown[Len(base)]
  OBVIOUS
<1>6. Handles(c, note, "Q")
  BY <1>4, Zenon DEF Answered
<1>7. /\ base \in Seq(ServerFrame) /\ Tells(base, shown) /\ a.rows = <<>> /\ a.columns = <<>>
      /\ note[served[c] + 1].ends = a.ready + 1
  BY <1>5, <1>6, ShownBefore DEF Ends
<1>8. DoneFrame \in ServerFrame /\ ReadyFrame \in ServerFrame /\ ErrorFrame \in ServerFrame
      /\ ReadyFrame.type = "Z"
  BY ServerTyped DEF ReadyFrame
<1>9. CASE /\ Answered(c, note, "Q", whole)
           /\ executed' = Append(executed, RunIs(c, FALSE, TRUE, TRUE))
  <2>1. PICK run : /\ Grows(run) /\ run.on = c /\ run.call = Statement(c) /\ run.bound
                   /\ ~ run.failed /\ run.described
    BY <1>4, <1>9, RunGrows, Zenon
  <2>2. PICK longer : Concludes(base, shown, base \o whole, longer, DoneFrame,
                                Columns(sql), Serials(sql), a.ready + 1)
    BY <1>1, <1>3, <1>5, <1>7, ConcludesQuery, Zenon
  <2>3. Len(base \o whole) > 0 /\ (base \o whole)[Len(base \o whole)].type = "Z"
    <3>1. PICK front \in Seq(ServerFrame) : front = Description(sql) \o RowFrames(sql)
      <4>1. Description(sql) \in Seq(ServerFrame) /\ RowFrames(sql) \in Seq(ServerFrame)
        BY <1>4, ServerTyped
      <4> QED BY <4>1, Joined, Zenon
    <3>2. base \o whole = (base \o front) \o <<DoneFrame, ReadyFrame>>
      <4>1. PICK r : r = <<DoneFrame, ReadyFrame>> /\ r \in Seq(ServerFrame)
        BY <1>8, ShortSeq, Zenon
      <4>2. base \in Seq(ServerFrame) /\ front \in Seq(ServerFrame) /\ r \in Seq(ServerFrame)
        BY <1>7, <4>1
      <4>3. (base \o front) \o r = base \o (front \o r)
        BY ONLY <4>2, Associate, Zenon
      <4> QED BY <1>3, <3>1, <4>1, <4>3, Zenon
    <3>3. PICK all \in Seq(ServerFrame) : all = base \o front
      BY <1>7, Joined, Zenon
    <3> QED BY <1>8, <3>2, <3>3, LastOfTwo
  <2>4. Finally(c, note, "Q", whole, shown, longer, DoneFrame, Columns(sql), Serials(sql))
    BY <1>5, <1>7, <2>2, <2>3 DEF Finally
  <2>5. Connected(c, note, longer)'
    BY <1>2, <1>9, <2>1, <2>4, FinalConnects
  <2> QED BY <2>5
<1>10. CASE /\ Answered(c, note, "Q", <<ErrorFrame, ReadyFrame>>)
            /\ executed' = Append(executed, RunIs(c, TRUE, FALSE, TRUE))
  <2>1. PICK run : Grows(run) /\ run.on = c /\ run.call = Statement(c) /\ run.bound /\ run.failed
    BY <1>4, <1>10, RunGrows, Zenon
  <2>2. PICK longer : Concludes(base, shown, base \o <<ErrorFrame, ReadyFrame>>, longer, ErrorFrame,
                                a.columns, a.rows, a.ready + 1)
    BY <1>1, <1>5, <1>7, ConcludesRefusal
  <2>3. /\ Len(base \o <<ErrorFrame, ReadyFrame>>) > 0
        /\ (base \o <<ErrorFrame, ReadyFrame>>)[Len(base \o <<ErrorFrame, ReadyFrame>>)].type = "Z"
    BY <1>7, <1>8, LastOfTwo
  <2>4. Finally(c, note, "Q", <<ErrorFrame, ReadyFrame>>, shown, longer, ErrorFrame,
                a.columns, a.rows)
    BY <1>5, <1>7, <2>2, <2>3 DEF Finally
  <2>5. Connected(c, note, longer)'
    BY <1>10, <2>1, <2>4, FinalConnects
  <2> QED BY <2>5
<1> QED BY <1>4, <1>9, <1>10, Zenon

LEMMA ExecuteConnects ==
  ASSUME Typed, Relayed, Matched(interactions), NEW c \in Connection, NEW note, NEW shown,
         Connected(c, note, shown), ~ AskedForTls(c), AnswerExecute(c), UNCHANGED driverVars
  PROVE  \E longer : Connected(c, note, longer)'
<1>1. Scripted(c, note) /\ Serving(c, note) /\ Len(executed) \in Nat /\ told[c] \in BOOLEAN
  BY ServerTyped DEF Connected
<1>2. PICK sql : sql = Statement(c)[1]
  OBVIOUS
<1>3. PICK frame, failed :
        /\ frame \in {DoneFrame, ErrorFrame} /\ failed \in BOOLEAN
        /\ Answered(c, note, "E", RowFrames(sql) \o <<frame>>)
        /\ executed' = Append(executed, RunIs(c, failed, told[c], TRUE))
        /\ frame = IF failed THEN ErrorFrame ELSE DoneFrame
        /\ Statement(c) \in Sql \X Params /\ sql \in Sql /\ ~ skipping[c]
  BY <1>1, <1>2, ExecuteAnswered, Zenon
<1>15. PICK described \in BOOLEAN : described = told[c]
  BY <1>1
<1>16. executed' = Append(executed, RunIs(c, failed, described, TRUE))
  BY <1>3, <1>15
<1>17. /\ Grows(RunIs(c, failed, described, TRUE))
       /\ RunIs(c, failed, described, TRUE).on = c
       /\ RunIs(c, failed, described, TRUE).call = Statement(c)
       /\ RunIs(c, failed, described, TRUE).bound = TRUE
       /\ RunIs(c, failed, described, TRUE).failed = failed
       /\ RunIs(c, failed, described, TRUE).described = described
  <2>1. Statement(c) \in Sql \X Params /\ failed \in BOOLEAN /\ TRUE \in BOOLEAN
    BY <1>3
  <2> QED BY <1>16, <2>1, ServerTyped DEF RunIs, Run, Grows
<1>4. PICK run : /\ Grows(run) /\ run.on = c /\ run.call = Statement(c) /\ run.bound
                 /\ run.failed = failed /\ run.described = told[c]
  BY <1>15, <1>17, Zenon
<1>5. PICK base, a : base = Down(c) /\ a = shown[Len(base)]
  OBVIOUS
<1>6. Handles(c, note, "E")
  BY <1>3 DEF Answered
<1>7. sql = asked[c][note[served[c] + 1].nth][1]
  BY <1>1, <1>2, <1>3, <1>6, StatementIs, SMTT(30)
<1>8. /\ base \in Seq(ServerFrame) /\ Tells(base, shown) /\ a.rows = <<>>
      /\ note[served[c] + 1].ends = a.ready
      /\ a.columns = IF told[c] THEN Columns(sql) ELSE <<>>
  BY <1>3, <1>5, <1>6, <1>7, ShownBefore DEF Ends
<1>9. PICK news : news = RowFrames(sql) \o <<frame>>
  BY Zenon
<1>10. PICK longer : Concludes(base, shown, base \o news, longer, frame,
                              a.columns, Serials(sql), a.ready)
  BY <1>1, <1>3, <1>5, <1>8, <1>9, ConcludesExecute
<1>11. Finally(c, note, "E", news, shown, longer, frame, a.columns, Serials(sql))
  BY <1>5, <1>8, <1>10 DEF Finally
<1>12. Answered(c, note, "E", news)
  BY <1>3, <1>9
<1>13. \/ frame = ErrorFrame /\ run.failed
       \/ /\ frame = DoneFrame /\ ~ run.failed
          /\ a.columns = IF run.described THEN Columns(run.call[1]) ELSE <<>>
          /\ Serials(sql) = Serials(run.call[1])
  BY <1>2, <1>3, <1>4, <1>8
<1>14. Connected(c, note, longer)'
  BY <1>3, <1>4, <1>11, <1>12, <1>13, FinalConnects
<1> QED BY <1>14
-----------------------------------------------------------------------------
(***************************************************************************)
(* The server's steps, together.                                           *)
(***************************************************************************)

Ran(c) == executed' = executed \/ \E run : Grows(run) /\ run.on = c

LEMMA HasRun ==
  ASSUME Typed, NEW c \in Connection, Statement(c) \in Sql \X Params,
         NEW failed \in BOOLEAN, NEW described \in BOOLEAN, NEW bound \in BOOLEAN,
         executed' = Append(executed, RunIs(c, failed, described, bound))
  PROVE  Ran(c) /\ Len(executed) + 1 \in RunOn(c)'
<1>1. Grows(RunIs(c, failed, described, bound)) /\ RunIs(c, failed, described, bound).on = c
  BY ServerTyped DEF RunIs, Run, Grows
<1> QED BY <1>1, RunsGrow DEF Ran

\* The results among the server's answers carry the number of the statement just run.
LEMMA AnswersNumber ==
  ASSUME Typed, NEW serials, NEW sql
  PROVE  /\ <<>> \in Seq(Numbered(serials)) /\ <<ReadyFrame>> \in Seq(Numbered(serials))
         /\ Description(sql) \in Seq(Numbered(serials))
         /\ Len(executed) + 1 \in serials =>
                /\ <<ErrorFrame>> \in Seq(Numbered(serials))
                /\ <<ErrorFrame, ReadyFrame>> \in Seq(Numbered(serials))
                /\ \A frame \in {DoneFrame, ErrorFrame} :
                        RowFrames(sql) \o <<frame>> \in Seq(Numbered(serials))
                /\ Description(sql) \o RowFrames(sql) \o <<DoneFrame, ReadyFrame>>
                        \in Seq(Numbered(serials))
<1> DEFINE A == Numbered(serials)
<1>1. ReadyFrame \in A /\ (Len(executed) + 1 \in serials => ErrorFrame \in A /\ DoneFrame \in A)
  BY ServerTyped DEF Numbered, Closes, SerialOf, ReadyFrame, ErrorFrame, DoneFrame
<1>2. Description(sql) \in Seq(A)
  <2>1. CASE sql \in Reads
    <3>1. [type |-> "T", columns |-> <<sql>>] \in A
      BY <2>1, StatementAssumption DEF ServerFrame, Numbered, Closes
    <3> QED BY <2>1, <3>1, ShortSeq DEF Description
  <2> QED BY <2>1 DEF Description
<1>3. RowFrames(sql) \in Seq(A)
  <2>1. [type |-> "D", row |-> Len(executed) + 1] \in A
    BY ServerTyped DEF ServerFrame, Numbered, Closes
  <2> QED BY <2>1, ShortSeq DEF RowFrames
<1>4. PICK description, rows : description = Description(sql) /\ rows = RowFrames(sql)
  OBVIOUS
<1> HIDE DEF A
<1>5. ASSUME Len(executed) + 1 \in serials
      PROVE  /\ <<ErrorFrame>> \in Seq(A) /\ <<ErrorFrame, ReadyFrame>> \in Seq(A)
             /\ \A frame \in {DoneFrame, ErrorFrame} : rows \o <<frame>> \in Seq(A)
             /\ description \o rows \o <<DoneFrame, ReadyFrame>> \in Seq(A)
  <2>1. /\ <<ErrorFrame>> \in Seq(A) /\ <<DoneFrame>> \in Seq(A)
        /\ <<ErrorFrame, ReadyFrame>> \in Seq(A) /\ <<DoneFrame, ReadyFrame>> \in Seq(A)
    BY <1>1, <1>5, ShortSeq
  <2>2. description \o rows \in Seq(A)
    BY <1>2, <1>3, <1>4, Joined
  <2> QED BY <1>3, <1>4, <2>1, <2>2, Joined
<1>6. <<>> \in Seq(A) /\ <<ReadyFrame>> \in Seq(A)
  BY <1>1, ShortSeq
<1> QED BY <1>2, <1>4, <1>5, <1>6 DEF A

LEMMA ServerAnswers ==
  ASSUME Typed, Relayed, NEW c \in Connection, NEW note, Scripted(c, note), Serving(c, note),
         Server(c), ~ AnswerTls(c)
  PROVE  /\ \E type, news : /\ Answered(c, note, type, news) /\ type # "SSLRequest"
                            /\ news \in Seq(Numbered(RunOn(c)'))
         /\ Ran(c)
<1>1. UNCHANGED driverVars
  BY DEF Server
<1>2. CASE AnswerSync(c)
  <2>1. (\E type \in {"Startup", "S"} : Answered(c, note, type, <<ReadyFrame>>)) /\ executed' = executed
    BY <1>1, <1>2, SyncAnswered
  <2> QED BY <2>1, AnswersNumber DEF Ran
<1>3. CASE AnswerQuery(c)
  <2>1. PICK whole, sql : whole = Description(sql) \o RowFrames(sql) \o <<DoneFrame, ReadyFrame>>
                          /\ sql = Statement(c)[1]
    BY Zenon
  <2>2. /\ Statement(c) \in Sql \X Params
        /\ \/ /\ Answered(c, note, "Q", whole)
              /\ executed' = Append(executed, RunIs(c, FALSE, TRUE, TRUE))
           \/ /\ Answered(c, note, "Q", <<ErrorFrame, ReadyFrame>>)
              /\ executed' = Append(executed, RunIs(c, TRUE, FALSE, TRUE))
    BY <1>1, <1>3, <2>1, QueryAnswered, Zenon
  <2>3. Ran(c) /\ Len(executed) + 1 \in RunOn(c)'
    <3>1. CASE executed' = Append(executed, RunIs(c, FALSE, TRUE, TRUE))
      BY <2>2, <3>1, HasRun, Zenon
    <3>2. CASE executed' = Append(executed, RunIs(c, TRUE, FALSE, TRUE))
      BY <2>2, <3>2, HasRun, Zenon
    <3> QED BY <2>2, <3>1, <3>2, Zenon
  <2>4. /\ whole \in Seq(Numbered(RunOn(c)')) /\ "Q" # "SSLRequest"
        /\ <<ErrorFrame, ReadyFrame>> \in Seq(Numbered(RunOn(c)'))
    BY <2>1, <2>3, AnswersNumber
  <2>5. CASE Answered(c, note, "Q", whole)
    BY <2>3, <2>4, <2>5
  <2>6. CASE Answered(c, note, "Q", <<ErrorFrame, ReadyFrame>>)
    BY <2>3, <2>4, <2>6
  <2> QED BY <2>2, <2>5, <2>6, Zenon
<1>4. CASE Skip(c)
  <2>1. (\E type \in {"B", "D", "E", "C"} : Answered(c, note, type, <<>>)) /\ executed' = executed
    BY <1>1, <1>4, SkipAnswered
  <2> QED BY <2>1, AnswersNumber DEF Ran
<1>5. CASE AnswerParse(c)
  <2>1. \/ Answered(c, note, "P", <<>>) /\ executed' = executed
        \/ /\ Answered(c, note, "P", <<ErrorFrame>>) /\ Statement(c) \in Sql \X Params
           /\ executed' = Append(executed, RunIs(c, TRUE, FALSE, FALSE))
    BY <1>1, <1>5, ParseAnswered, Zenon
  <2>2. CASE Answered(c, note, "P", <<>>) /\ executed' = executed
    BY <2>2, AnswersNumber DEF Ran
  <2>3. CASE /\ Answered(c, note, "P", <<ErrorFrame>>) /\ Statement(c) \in Sql \X Params
             /\ executed' = Append(executed, RunIs(c, TRUE, FALSE, FALSE))
    <3>1. Ran(c) /\ Len(executed) + 1 \in RunOn(c)'
      BY <2>3, HasRun, Zenon
    <3>2. <<ErrorFrame>> \in Seq(Numbered(RunOn(c)')) /\ "P" # "SSLRequest"
      BY <3>1, AnswersNumber
    <3> QED BY <2>3, <3>1, <3>2
  <2> QED BY <2>1, <2>2, <2>3, Zenon
<1>6. CASE AnswerDescribe(c)
  <2>1. Answered(c, note, "D", Description(Statement(c)[1])) /\ executed' = executed
    BY <1>1, <1>6, DescribeAnswered
  <2> QED BY <2>1, AnswersNumber DEF Ran
<1>7. CASE AnswerExecute(c)
  <2>1. PICK described \in BOOLEAN : described = told[c]
    BY ServerTyped
  <2>2. /\ Statement(c) \in Sql \X Params
        /\ \E frame \in {DoneFrame, ErrorFrame}, failed \in BOOLEAN :
              /\ Answered(c, note, "E", RowFrames(Statement(c)[1]) \o <<frame>>)
              /\ executed' = Append(executed, RunIs(c, failed, told[c], TRUE))
    BY <1>1, <1>7, ExecuteAnswered, Zenon
  <2>3. PICK frame, failed :
          /\ Answered(c, note, "E", RowFrames(Statement(c)[1]) \o <<frame>>)
          /\ failed \in BOOLEAN /\ frame \in {DoneFrame, ErrorFrame}
          /\ executed' = Append(executed, RunIs(c, failed, described, TRUE))
    BY <2>1, <2>2, Zenon
  <2>4. Ran(c) /\ Len(executed) + 1 \in RunOn(c)'
    BY <2>2, <2>3, HasRun, Zenon
  <2>5. RowFrames(Statement(c)[1]) \o <<frame>> \in Seq(Numbered(RunOn(c)'))
    BY <2>3, <2>4, AnswersNumber
  <2> QED BY <2>3, <2>4, <2>5
<1> QED BY <1>2, <1>3, <1>4, <1>5, <1>6, <1>7 DEF Server

\* On a connection that asked for TLS little is claimed of what the server writes: its
\* results are of statements run, and come after the byte that answers the request.
LEMMA StillNumbered ==
  ASSUME NEW c \in Connection, RunOn(c) \subseteq RunOn(c)'
  PROVE  \A frames \in Seq(Numbered(RunOn(c))) : frames \in Seq(Numbered(RunOn(c)'))
<1>1. Numbered(RunOn(c)) \subseteq Numbered(RunOn(c)')
  BY DEF Numbered
<1> QED BY <1>1, SeqMonotonic

LEMMA RanNumbered ==
  ASSUME NEW c \in Connection, Ran(c)
  PROVE  \A frames \in Seq(Numbered(RunOn(c))) : frames \in Seq(Numbered(RunOn(c)'))
<1>1. RunOn(c) \subseteq RunOn(c)'
  BY RunsGrow DEF Ran, RunOn
<1> QED BY <1>1, StillNumbered

LEMMA RefusingAnswers ==
  ASSUME Typed, Relayed, NEW c \in Connection, NEW note, NEW shown,
         Connected(c, note, shown), AskedForTls(c), NEW type, NEW news,
         Answered(c, note, type, news), type # "SSLRequest",
         Ran(c), news \in Seq(Numbered(RunOn(c)'))
  PROVE  Connected(c, note, shown)'
<1>1. Scripted(c, note) /\ Refusing(c) /\ Counts(c) /\ syncs[c] \in Nat
  BY StreamsCount DEF Connected, Typed
<1>2. /\ news \in Seq(ServerFrame) /\ Writes(c, news) /\ Handles(c, note, type)
      /\ UNCHANGED driverVars /\ Serving(c, note)'
  BY DEF Answered
<1>3. PICK k \in Nat, N \in Nat :
        /\ k = served[c] /\ N = Len(Up(c)) /\ k + 1 <= N /\ served'[c] = k + 1
        /\ note[k + 1].type = type
  BY <1>2 DEF Handles
<1>4. k # 0
  <2>1. note[1] = After(note[1 - 1], Up(c)[1]) /\ Up(c)[1].type = "SSLRequest"
    BY <1>1, <1>3 DEF Scripted, Leads
  <2>2. note[1].type = "SSLRequest"
    BY <2>1 DEF After
  <2> QED BY <1>2, <1>3, <2>2
<1>5. syncs[c] > 0 /\ got[c]["down"] # <<>>
  <2>1. syncs[c] = 0 => N = 1
    BY <1>1, <1>3 DEF Scripted
  <2>2. syncs[c] > 0
    BY <1>1, <1>3, <1>4, <2>1
  <2> QED BY <1>1, <2>2 DEF Refusing
<1>6. sent[c]["down"] # <<>> /\ Len(sent[c]["down"]) >= 1 /\ sent[c]["down"] \in Seq(ServerFrame)
  <2>1. got[c]["down"] \in Seq(Byte)
    BY DEF Relayed, Flow
  <2>2. Len(got[c]["down"]) > 0
    BY <1>5, <2>1
  <2>3. sent[c]["down"] \in Seq(ServerFrame)
    BY DEF Typed
  <2> QED BY <1>1, <2>2, <2>3 DEF Counts
<1>7. Head(sent[c]["down"]).type = "ssl"
  BY <1>1, <1>6 DEF Refusing
<1>8. PICK before, more : /\ before = sent[c]["down"] /\ more = HalvesOf(news)
                          /\ more \in Seq(ServerFrame)
  BY <1>2, HalvesOfFrames
<1>9. Head(before \o more) = Head(before)
  BY <1>6, <1>8
<1>10. sent'[c]["down"] = before \o more
  BY <1>2, <1>8 DEF Writes
<1>11. Head(sent'[c]["down"]).type = "ssl"
  BY <1>7, <1>8, <1>9, <1>10, Zenon
<1>12. /\ sent'[c]["up"] = sent[c]["up"] /\ got' = got /\ bridge' = bridge /\ recorder' = recorder
       /\ Done(c, "up")' = Done(c, "up") /\ Done(c, "down")' = Done(c, "down")
       /\ syncs' = syncs /\ asked' = asked /\ known' = known
  BY <1>2 DEF Writes, driverVars
<1>13. Scripted(c, note)' /\ AskedForTls(c)' /\ Up(c)' = Up(c)
  <2>1. Scripted(c, note)'
    BY <1>1, <1>12, ScriptedStays
  <2> QED BY <1>12, <2>1 DEF AskedForTls, Up
<1>14. sent'[c]["down"] \in Seq(Numbered(RunOn(c)'))
  <2>1. before \in Seq(Numbered(RunOn(c)'))
    BY <1>1, <1>8, RanNumbered DEF Refusing
  <2>2. more \in Seq(Numbered(RunOn(c)'))
    BY <1>8, HalvesOfFrames
  <2> QED BY <1>10, <2>1, <2>2, Joined
<1>15. bridge[c] = "open" => Unreading(c)'
  <2>1. Astray(c)' <=> Astray(c)
    BY <1>12 DEF Astray, AskedForTls
  <2>2. PICK r : r = recorder[c] /\ r = recorder'[c]
    BY <1>12
  <2>3. bridge[c] = "open" => r.serverBuffer \in Seq(Numbered(RunOn(c)'))
    BY <1>1, <2>2, RanNumbered DEF Refusing, Unreading, UnreadingAt
  <2> QED BY <1>1, <1>12, <2>1, <2>2, <2>3 DEF Refusing, Unreading, UnreadingAt
<1>16. served'[c] # 0
  BY <1>3
<1>17. Refusing(c)'
  BY <1>1, <1>5, <1>11, <1>12, <1>13, <1>14, <1>15, <1>16 DEF Refusing
<1> QED BY <1>2, <1>13, <1>17 DEF Connected

LEMMA AnswerTlsConnects ==
  ASSUME Typed, Relayed, NEW c \in Connection, NEW note, NEW shown,
         Connected(c, note, shown), AnswerTls(c), UNCHANGED driverVars
  PROVE  /\ Connected(c, note, shown)' /\ executed' = executed
         /\ sent'[c]["down"] \in Seq(ServerFrame)
         /\ \E bytes : Wrote(c, "down", bytes)
<1>1. Scripted(c, note) /\ Serving(c, note) /\ Counts(c) /\ Due(c, "SSLRequest")
  BY StreamsCount DEF Connected, AnswerTls
<1>2. Handles(c, note, "SSLRequest")
  BY <1>1, DueHandles
<1>3. served[c] = 0 /\ note[1].type = "SSLRequest" /\ Len(Up(c)) \in Nat /\ 1 <= Len(Up(c))
      /\ served'[c] = 1
  BY <1>2 DEF Handles, Follows, Ends
<1>4. AskedForTls(c)
  <2>1. note[1] = After(note[1 - 1], Up(c)[1])
    BY <1>1, <1>3 DEF Scripted, Leads
  <2>2. Up(c)[1].type = "SSLRequest"
    BY <1>3, <2>1 DEF After
  <2>3. /\ Len(sent[c]["up"]) = 2 * Len(Up(c))
        /\ \A i \in 1 .. Len(sent[c]["up"]) : sent[c]["up"][i] = Up(c)[(i + 1) \div 2]
    BY <1>1, UpFrames, Zenon DEF Scripted
  <2>4. 1 \in 1 .. Len(sent[c]["up"]) /\ (1 + 1) \div 2 = 1 /\ sent[c]["up"] \in Seq(Frame)
    BY <1>3, <2>3 DEF Typed
  <2>5. sent[c]["up"][1] = Up(c)[1]
    BY <2>3, <2>4
  <2> QED BY <2>2, <2>4, <2>5 DEF AskedForTls
<1>5. Refusing(c) /\ sent[c]["down"] = <<>> /\ syncs[c] \in Nat
  BY <1>3, <1>4 DEF Connected, Refusing, Typed
<1>6. PICK accepted \in BOOLEAN :
        Proxy!Write(c, "down", <<[type |-> "ssl", accepted |-> accepted]>>)
  BY DEF AnswerTls
<1>7. PICK bytes : /\ bytes = <<[type |-> "ssl", accepted |-> accepted]>>
                   /\ bytes \in Seq(Byte) /\ bytes \in Seq(ServerFrame)
                   /\ Len(bytes) = 1 /\ Head(bytes).type = "ssl"
                   /\ bytes \in Seq(Numbered(RunOn(c)))
  <2>1. PICK frame : frame = [type |-> "ssl", accepted |-> accepted] /\ frame.type = "ssl"
    <3>1. [type |-> "ssl", accepted |-> accepted].type = "ssl"
      OBVIOUS
    <3> QED BY <3>1, Zenon
  <2>2. frame \in ServerFrame /\ frame \in Byte /\ frame \in Numbered(RunOn(c))
    BY <2>1 DEF Byte, ServerFrame, Numbered, Closes
  <2>3. /\ <<frame>> \in Seq(Byte) /\ <<frame>> \in Seq(ServerFrame)
        /\ <<frame>> \in Seq(Numbered(RunOn(c)))
        /\ Len(<<frame>>) = 1 /\ Head(<<frame>>) = frame
    BY <2>2, ShortSeq
  <2> QED BY <2>1, <2>3, Zenon
<1>8. Wrote(c, "down", bytes)
  BY <1>6, <1>7, WriteWrote, Zenon
<1>9. sent'[c]["down"] = bytes
  BY <1>5, <1>7, <1>8 DEF Wrote
<1>10. executed' = executed /\ skipping' = skipping /\ told' = told
  BY DEF AnswerTls
<1>11. /\ sent'[c]["up"] = sent[c]["up"] /\ wire'[c]["up"] = wire[c]["up"]
       /\ got' = got /\ bridge' = bridge /\ recorder' = recorder
       /\ Done(c, "down")' = Done(c, "down")
       /\ syncs' = syncs /\ asked' = asked /\ known' = known
  BY <1>8 DEF Wrote, driverVars
<1>12. Done(c, "up")' = Done(c, "up") /\ Up(c)' = Up(c) /\ AskedForTls(c)'
  BY <1>4, <1>11 DEF Done, Up, AskedForTls
<1>13. Scripted(c, note)'
  BY <1>1, <1>11, ScriptedStays
<1>14. Serving(c, note)'
  <2>1. /\ Cardinality(RunOn(c)) = note[served[c] + 1].nth
        /\ skipping[c] = FALSE /\ told[c] = FALSE
    BY <1>1, <1>2, RunBefore, ServerTyped
  <2>2. RunsSo(c, note[served[c] + 1].nth)
    BY <1>1, <1>10, <2>1, RunsSame
  <2> QED BY <1>1, <1>2, <1>10, <1>11, <2>1, <2>2, ServingNext, Zenon
<1>15. (Astray(c)' <=> Astray(c)) /\ RunOn(c)' = RunOn(c)
  BY <1>4, <1>10, <1>11, <1>12 DEF Astray, RunOn
<1>16. bridge[c] = "open" => Unreading(c)'
  BY <1>5, <1>11, <1>12, <1>15 DEF Refusing, Unreading, UnreadingAt
<1>17. Refusing(c)'
  BY <1>3, <1>5, <1>7, <1>9, <1>11, <1>12, <1>15, <1>16 DEF Refusing
<1> QED BY <1>7, <1>8, <1>9, <1>10, <1>12, <1>13, <1>14, <1>17 DEF Connected

LEMMA ServerConnects ==
  ASSUME Typed, Relayed, Matched(interactions), NEW c \in Connection, NEW note, NEW shown,
         Connected(c, note, shown), Server(c)
  PROVE  (\E longer : Connected(c, note, longer)') /\ Ran(c)
<1>1. UNCHANGED driverVars /\ Scripted(c, note) /\ Serving(c, note)
  BY DEF Server, Connected
<1>2. CASE AnswerTls(c)
  BY <1>1, <1>2, AnswerTlsConnects DEF Ran
<1>3. CASE ~ AnswerTls(c)
  <2>1. PICK type, news : /\ Answered(c, note, type, news) /\ type # "SSLRequest"
                          /\ news \in Seq(Numbered(RunOn(c)'))
    BY <1>1, <1>3, ServerAnswers
  <2>2. Ran(c)
    BY <1>1, <1>3, ServerAnswers
  <2>3. CASE AskedForTls(c)
    BY <2>1, <2>2, <2>3, RefusingAnswers
  <2>4. CASE ~ AskedForTls(c)
    <3>1. CASE AnswerSync(c)
      BY <1>1, <2>2, <2>4, <3>1, SyncConnects
    <3>2. CASE AnswerQuery(c)
      BY <1>1, <2>2, <2>4, <3>2, QueryConnects
    <3>3. CASE Skip(c)
      <4>1. PICK kind \in {"B", "D", "E", "C"} :
              /\ Answered(c, note, kind, <<>>) /\ (skipping[c] \/ kind \in {"B", "C"})
              /\ executed' = executed /\ skipping' = skipping
        BY <1>1, <3>3, SkipAnswered
      <4> QED BY <2>2, <2>4, <4>1, NothingConnects
    <3>4. CASE AnswerParse(c)
      <4>1. \/ Answered(c, note, "P", <<>>) /\ executed' = executed
            \/ /\ Answered(c, note, "P", <<ErrorFrame>>)
               /\ Statement(c) \in Sql \X Params
               /\ executed' = Append(executed, RunIs(c, TRUE, FALSE, FALSE))
        BY <1>1, <3>4, ParseAnswered, Zenon
      <4>2. CASE Answered(c, note, "P", <<>>) /\ executed' = executed
        BY <2>2, <2>4, <4>2, NothingConnects
      <4>3. CASE /\ Answered(c, note, "P", <<ErrorFrame>>)
                 /\ Statement(c) \in Sql \X Params
                 /\ executed' = Append(executed, RunIs(c, TRUE, FALSE, FALSE))
        BY <2>2, <2>4, <4>3, RejectionConnects, Zenon
      <4> QED BY <4>1, <4>2, <4>3, Zenon
    <3>5. CASE AnswerDescribe(c)
      BY <1>1, <2>2, <2>4, <3>5, DescribeConnects
    <3>6. CASE AnswerExecute(c)
      BY <1>1, <2>2, <2>4, <3>6, ExecuteConnects
    <3> QED BY <1>3, <2>2, <3>1, <3>2, <3>3, <3>4, <3>5, <3>6 DEF Server
  <2> QED BY <2>3, <2>4
<1> QED BY <1>2, <1>3
-----------------------------------------------------------------------------
(***************************************************************************)
(* A step of a driver or of the server.                                    *)
(***************************************************************************)

\* What a step of a driver or of the server on c comes to.
Stepped(c) ==
    /\ \A b \in Connection : b # c =>
        /\ sent'[b] = sent[b] /\ wire'[b] = wire[b]
        /\ asked'[b] = asked[b] /\ known'[b] = known[b] /\ syncs'[b] = syncs[b]
        /\ served'[b] = served[b] /\ skipping'[b] = skipping[b] /\ told'[b] = told[b]
    /\ UNCHANGED <<bridge, got, recorder, interactions>>
    /\ Ran(c) /\ Remembers /\ Typed'
    /\ \E note, shown : Connected(c, note, shown)'

LEMMA SteppedKeeps ==
  ASSUME Relayed, IInv, NEW c \in Connection, Stepped(c)
  PROVE  IInv'
<1>1. Matched(interactions)' /\ Rising(interactions)'
  BY ListStays DEF Stepped, IInv
<1>2. ASSUME NEW b \in Connection, b # c
      PROVE  \E note, shown : Connected(b, note, shown)'
  <2>1. PICK note, shown : Connected(b, note, shown)
    BY <1>2 DEF IInv
  <2>2. Untouched(b)
    BY <1>2 DEF Stepped, Untouched
  <2>3. RunsNothing(b)
    BY <1>2 DEF Stepped, Ran, RunsNothing
  <2>4. AddsNothing(b)
    <3>1. /\ interactions' = interactions \o <<>> /\ <<>> \in Seq(Interaction)
          /\ \A k \in 1 .. Len(<<>>) : executed'[Ser(<<>>[k])].on # b
      BY DEF Stepped, IInv, Typed
    <3> QED BY <3>1, Zenon DEF AddsNothing
  <2> QED BY <2>1, <2>2, <2>3, <2>4, ConnectedStays DEF IInv
<1> QED BY <1>1, <1>2 DEF IInv, Stepped

LEMMA ServerControl ==
  ASSUME Typed, NEW c \in Connection, Server(c)
  PROVE  /\ served' \in [Connection -> Nat] /\ skipping' \in [Connection -> BOOLEAN]
         /\ told' \in [Connection -> BOOLEAN]
         /\ \A b \in Connection : b # c =>
              served'[b] = served[b] /\ skipping'[b] = skipping[b] /\ told'[b] = told[b]
         /\ UNCHANGED driverVars
<1>1. served' = [served EXCEPT ![c] = @ + 1]
  BY Zenon DEF Server, AnswerTls, AnswerSync, AnswerQuery, Skip, AnswerParse, AnswerDescribe,
         AnswerExecute, Due
<1>2. \/ skipping' = skipping
      \/ \E value \in BOOLEAN : skipping' = [skipping EXCEPT ![c] = value]
  BY Zenon DEF Server, AnswerTls, AnswerSync, AnswerQuery, Skip, AnswerParse, AnswerDescribe,
         AnswerExecute
<1>3. \/ told' = told
      \/ \E value \in BOOLEAN : told' = [told EXCEPT ![c] = value]
  BY Zenon DEF Server, AnswerTls, AnswerSync, AnswerQuery, Skip, AnswerParse, AnswerDescribe,
         AnswerExecute
<1>4. served \in [Connection -> Nat] /\ skipping \in [Connection -> BOOLEAN]
      /\ told \in [Connection -> BOOLEAN]
  BY DEF Typed
<1> QED BY <1>1, <1>2, <1>3, <1>4 DEF Server

LEMMA ServerWrites ==
  ASSUME Typed, Relayed, NEW c \in Connection, NEW note, NEW shown,
         Connected(c, note, shown), Server(c)
  PROVE  /\ \A b \in Connection : b # c => sent'[b] = sent[b] /\ wire'[b] = wire[b]
         /\ UNCHANGED <<bridge, got, recorder, interactions>>
         /\ sent'[c]["up"] = sent[c]["up"] /\ sent'[c]["down"] \in Seq(ServerFrame)
<1>1. UNCHANGED driverVars /\ Scripted(c, note) /\ Serving(c, note)
  BY DEF Server, Connected
<1>2. CASE AnswerTls(c)
  BY <1>1, <1>2, AnswerTlsConnects DEF Wrote
<1>3. CASE ~ AnswerTls(c)
  <2>1. PICK type, news : Answered(c, note, type, news)
    BY <1>1, <1>3, ServerAnswers
  <2>2. news \in Seq(ServerFrame) /\ Writes(c, news)
    BY <2>1 DEF Answered
  <2>3. PICK before, more : /\ before = sent[c]["down"] /\ more = HalvesOf(news)
                            /\ before \in Seq(ServerFrame) /\ more \in Seq(ServerFrame)
    BY <2>2, HalvesOfFrames DEF Typed
  <2>4. before \o more \in Seq(ServerFrame)
    BY <2>3
  <2> QED BY <2>2, <2>3, <2>4 DEF Writes
<1> QED BY <1>2, <1>3

LEMMA ServerSteps ==
  ASSUME Relayed, IInv, NEW c \in Connection, Server(c)
  PROVE  Stepped(c)
<1>1. Typed /\ Matched(interactions)
  BY DEF IInv
<1>2. PICK note, shown : Connected(c, note, shown)
  BY DEF IInv
<1>3. (\E longer : Connected(c, note, longer)') /\ Ran(c)
  BY <1>1, <1>2, ServerConnects
<1>4. /\ \A b \in Connection : b # c => sent'[b] = sent[b] /\ wire'[b] = wire[b]
      /\ UNCHANGED <<bridge, got, recorder, interactions>>
      /\ sent'[c]["up"] = sent[c]["up"] /\ sent'[c]["down"] \in Seq(ServerFrame)
  BY <1>1, <1>2, ServerWrites
<1>5. /\ served' \in [Connection -> Nat] /\ skipping' \in [Connection -> BOOLEAN]
      /\ told' \in [Connection -> BOOLEAN]
      /\ \A b \in Connection : b # c =>
           served'[b] = served[b] /\ skipping'[b] = skipping[b] /\ told'[b] = told[b]
      /\ asked' = asked /\ known' = known /\ syncs' = syncs /\ trips' = trips
  BY <1>1, ServerControl DEF driverVars
<1>6. executed' \in Seq(Run)
  BY <1>1, <1>3, RunsGrow DEF Ran, Typed
<1>7. Typed'
  <2>1. \A b \in Connection : /\ sent'[b]["up"] \in Seq(Frame)
                              /\ sent'[b]["down"] \in Seq(ServerFrame)
                              /\ recorder'[b].completed = <<>>
    BY <1>1, <1>4, Zenon DEF Typed
  <2> QED BY <1>1, <1>4, <1>5, <1>6, <2>1, Zenon DEF Typed
<1>8. Remembers
  <2>1. \A b \in Connection : Astray(b) => Astray(b)'
    BY <1>4, Zenon DEF Astray, AskedForTls
  <2> QED BY <1>1, <1>3, <1>5, <2>1, RemembersRun DEF Ran
<1> QED BY <1>3, <1>4, <1>5, <1>7, <1>8 DEF Stepped

LEMMA AskedLonger ==
  ASSUME Typed, NEW c \in Connection, NEW more \in Calls, asked'[c] = asked[c] \o more
  PROVE  /\ asked'[c] \in Seq(Sql \X Params) /\ Len(asked'[c]) = Len(asked[c]) + Len(more)
         /\ \A m \in 1 .. Len(asked[c]) : m \in 1 .. Len(asked'[c]) /\ asked'[c][m] = asked[c][m]
<1>1. PICK before : before = asked[c] /\ before \in Seq(Sql \X Params) /\ more \in Seq(Sql \X Params)
  BY DEF Typed, Calls
<1>2. /\ before \o more \in Seq(Sql \X Params) /\ Len(before \o more) = Len(before) + Len(more)
      /\ \A m \in 1 .. Len(before) : m \in 1 .. Len(before \o more) /\ (before \o more)[m] = before[m]
  BY <1>1
<1> QED BY <1>1, <1>2

LEMMA DriverSteps ==
  ASSUME Relayed, IInv, NEW c \in Connection,
         \/ RequestTls(c) \/ Startup(c) \/ \E trip \in RoundTrip : Ask(c, trip)
  PROVE  Stepped(c)
<1>1. Typed /\ Matched(interactions) /\ Len(executed) \in Nat
  BY ServerTyped DEF IInv
<1>2. PICK note, shown : Connected(c, note, shown)
  BY DEF IInv
<1>3. ASSUME NEW bytes, Wrote(c, "up", bytes), sent'[c]["up"] \in Seq(Frame),
             \E longer : Connected(c, longer, shown)',
             UNCHANGED serverVars,
             asked' \in [Connection -> Seq(Sql \X Params)], known' \in [Connection -> Prepared],
             syncs' \in [Connection -> Nat], trips' \in Nat,
             \A b \in Connection : b # c =>
                asked'[b] = asked[b] /\ known'[b] = known[b] /\ syncs'[b] = syncs[b],
             \A m \in 1 .. Len(asked[c]) : m \in 1 .. Len(asked'[c]) /\ asked'[c][m] = asked[c][m]
      PROVE  Stepped(c)
  <2>1. /\ \A b \in Connection : b # c => sent'[b] = sent[b] /\ wire'[b] = wire[b]
        /\ UNCHANGED <<bridge, got, recorder, interactions>>
        /\ sent'[c]["down"] = sent[c]["down"]
    BY <1>3 DEF Wrote
  <2>2. executed' = executed /\ served' = served /\ skipping' = skipping /\ told' = told
    BY <1>3 DEF serverVars
  <2>3. Typed'
    <3>1. \A b \in Connection : /\ sent'[b]["up"] \in Seq(Frame)
                                /\ sent'[b]["down"] \in Seq(ServerFrame)
                                /\ recorder'[b].completed = <<>>
      BY <1>1, <1>3, <2>1, Zenon DEF Typed
    <3> QED BY <1>1, <1>3, <2>1, <2>2, <3>1, Zenon DEF Typed
  <2>4. Remembers
    <3>1. \A t \in 1 .. Len(executed) : executed[t].on \in Connection
      <4>1. \A t \in 1 .. Len(executed) : executed[t] \in Run
        BY <1>1 DEF Typed
      <4> QED BY <4>1 DEF Run
    <3>2. \A b \in Connection : \A m \in 1 .. Len(asked[b]) :
            m \in 1 .. Len(asked'[b]) /\ asked'[b][m] = asked[b][m]
      BY <1>3, Zenon
    <3>3. \A b \in Connection : Astray(b) => Astray(b)'
      BY <1>3, AstrayWrote
    <3> QED BY <1>1, <2>2, <3>1, <3>2, <3>3 DEF Remembers, ResultOf
  <2>5. Ran(c)
    BY <2>2 DEF Ran
  <2> QED BY <1>3, <2>1, <2>2, <2>3, <2>4, <2>5 DEF Stepped
<1>4. CASE RequestTls(c)
  <2>1. /\ \E longer : Connected(c, longer, shown)'
        /\ \E bytes : Wrote(c, "up", bytes)
        /\ sent'[c]["up"] \in Seq(Frame)
    BY <1>1, <1>2, <1>4, RequestTlsConnects
  <2>2. UNCHANGED serverVars /\ asked' = asked /\ known' = known /\ syncs' = syncs /\ trips' = trips
    BY <1>4 DEF RequestTls, driverVars
  <2> QED BY <1>1, <1>3, <2>1, <2>2, Zenon DEF Typed
<1>5. CASE Startup(c)
  <2>1. /\ \E longer : Connected(c, longer, shown)'
        /\ \E bytes : Wrote(c, "up", bytes)
        /\ sent'[c]["up"] \in Seq(Frame)
    BY <1>1, <1>2, <1>5, StartupConnects
  <2>2. /\ UNCHANGED serverVars /\ asked' = asked /\ known' = known /\ trips' = trips
        /\ syncs' = [syncs EXCEPT ![c] = 1]
    BY <1>5 DEF Startup
  <2> QED BY <1>1, <1>3, <2>1, <2>2, Zenon DEF Typed
<1>6. ASSUME NEW trip \in RoundTrip, Ask(c, trip)
      PROVE  Stepped(c)
  <2>1. \E longer : Connected(c, longer, shown)'
    BY <1>1, <1>2, <1>6, AskConnects
  <2>2. /\ FramesOf(trip) \in Seq(Frame) /\ Wrote(c, "up", HalvesOf(FramesOf(trip)))
        /\ asked'[c] = asked[c] \o Runs(trip)
        /\ \A b \in Connection : b # c =>
             syncs'[b] = syncs[b] /\ asked'[b] = asked[b] /\ known'[b] = known[b]
        /\ UNCHANGED serverVars
    BY <1>1, <1>6, AskWrites
  <2>3. Scripted(c, note) /\ sent[c]["up"] = HalvesOf(Up(c))
    BY <1>2 DEF Connected, Scripted
  <2>4. sent'[c]["up"] \in Seq(Frame)
    BY <1>1, <2>2, <2>3, WroteUp
  <2>5. Runs(trip) \in Calls /\ Len(Runs(trip)) \in {0, 1}
    BY <1>6, RunsType
  <2>6. /\ asked'[c] \in Seq(Sql \X Params) /\ Len(asked'[c]) = Len(asked[c]) + Len(Runs(trip))
        /\ \A m \in 1 .. Len(asked[c]) : m \in 1 .. Len(asked'[c]) /\ asked'[c][m] = asked[c][m]
    BY <1>1, <2>2, <2>5, AskedLonger, Zenon
  <2>7. /\ asked' = [asked EXCEPT ![c] = @ \o Runs(trip)]
        /\ known' = [known EXCEPT ![c] = KnownAfter(@, trip)]
        /\ syncs' = [syncs EXCEPT ![c] = @ + 1]
        /\ trips' = trips + 1
    BY <1>6 DEF Ask
  <2>8. KnownAfter(known[c], trip) \in Prepared
    <3>1. known[c] \in [StatementName -> Sql \union {Unparsed}]
      BY <1>1 DEF Typed, Prepared
    <3> QED BY <1>6, <3>1, RoundTripAssumption, StatementAssumption DEF KnownAfter, Prepared
  <2>9. /\ asked' \in [Connection -> Seq(Sql \X Params)] /\ known' \in [Connection -> Prepared]
        /\ syncs' \in [Connection -> Nat] /\ trips' \in Nat
    <3>1. asked' \in [Connection -> Seq(Sql \X Params)]
      <4>1. \A b \in Connection : asked'[b] \in Seq(Sql \X Params)
        BY <1>1, <2>2, <2>6, Zenon DEF Typed
      <4>2. asked' = [b \in Connection |-> asked'[b]]
        BY <1>1, <2>7, Zenon DEF Typed
      <4> QED BY <4>1, <4>2
    <3> QED BY <1>1, <2>7, <2>8, <3>1, SMTT(30) DEF Typed
  <2> QED BY <1>3, <2>1, <2>2, <2>4, <2>6, <2>9, Zenon
<1> QED BY <1>4, <1>5, <1>6

\* Nothing is claimed of which sides have ended their connection.
LEMMA EndedKeeps ==
  ASSUME Relayed, IInv,
         UNCHANGED <<bridge, wire, queue, got, recorder, interactions, sent>>,
         UNCHANGED <<serverVars, driverVars>>
  PROVE  IInv'
<1>1. UNCHANGED <<bridge, wire, queue, got, recorder, interactions, sent, serverVars, driverVars>>
  OBVIOUS
<1>2. Typed /\ Matched(interactions) /\ Rising(interactions)
  BY DEF IInv
<1>3. executed' = executed /\ asked' = asked /\ trips' = trips /\ interactions' = interactions
  BY <1>1 DEF serverVars, driverVars
<1>4. Typed'
  BY <1>1, <1>2 DEF Typed, serverVars, driverVars
<1>5. Remembers
  <2>1. \A b \in Connection : Astray(b) => Astray(b)'
    BY <1>1 DEF Astray, AskedForTls
  <2> QED BY <1>2, <1>3, <2>1, RemembersRun
<1>6. Matched(interactions)' /\ Rising(interactions)'
  BY <1>2, <1>3, <1>5, ListStays
<1>8. ASSUME NEW b \in Connection
      PROVE  \E note, shown : Connected(b, note, shown)'
  <2>1. PICK note, shown : Connected(b, note, shown)
    BY DEF IInv
  <2>2. Untouched(b) /\ RunsNothing(b)
    BY <1>1 DEF Untouched, RunsNothing, serverVars, driverVars
  <2>3. AddsNothing(b)
    <3>1. /\ interactions' = interactions \o <<>> /\ <<>> \in Seq(Interaction)
          /\ \A k \in 1 .. Len(<<>>) : executed'[Ser(<<>>[k])].on # b
      BY <1>2, <1>3 DEF Typed
    <3> QED BY <3>1, Zenon DEF AddsNothing
  <2> QED BY <1>2, <2>1, <2>2, <2>3, ConnectedStays
<1> QED BY <1>4, <1>6, <1>8 DEF IInv
-----------------------------------------------------------------------------
(***************************************************************************)
(* What a step of the proxy, or of what takes from it, leaves as it was.   *)
(***************************************************************************)

LEMMA StreamsCountNext ==
  ASSUME Relayed', NEW c \in Connection
  PROVE  Counts(c)'
<1>1. \A d \in {"up", "down"} :
        /\ Len(got'[c][d]) \in Nat /\ Len(wire'[c][d]) \in Nat /\ Len(sent'[c][d]) \in Nat
        /\ Done(c, d)' \in Nat /\ Len(got'[c][d]) <= Done(c, d)'
        /\ Len(sent'[c][d]) = Done(c, d)' + Len(wire'[c][d])
  BY DEF Relayed, Streamed, Flow
<1>2. \A a, b, e \in Nat : a = b + e => b <= a
  OBVIOUS
<1> QED BY <1>1, <1>2, Zenon DEF Counts

\* Nothing is written; what is read and taken only grows.
Passes(c) ==
    /\ UNCHANGED <<sent, serverVars, driverVars>>
    /\ Len(got[c]["up"]) <= Len(got'[c]["up"]) /\ Len(got[c]["down"]) <= Len(got'[c]["down"])
    /\ Done(c, "up") <= Done(c, "up")' /\ Done(c, "down") <= Done(c, "down")'

LEMMA PassesSame ==
  ASSUME NEW c \in Connection, Passes(c)
  PROVE  /\ sent' = sent /\ asked' = asked /\ known' = known /\ syncs' = syncs /\ trips' = trips
         /\ served' = served /\ skipping' = skipping /\ told' = told /\ executed' = executed
         /\ Up(c)' = Up(c) /\ Down(c)' = Down(c) /\ RunOn(c)' = RunOn(c)
         /\ (AskedForTls(c)' <=> AskedForTls(c)) /\ \A t : ResultOf(t)' = ResultOf(t)
         /\ \A b : Astray(b)' <=> Astray(b)
BY DEF Passes, serverVars, driverVars, Up, Down, RunOn, AskedForTls, ResultOf, Astray

LEMMA PassesLeaves ==
  ASSUME Typed, Relayed, Relayed', NEW c \in Connection, NEW note, NEW shown,
         Connected(c, note, shown), Passes(c)
  PROVE  /\ Scripted(c, note)' /\ Serving(c, note)'
         /\ ~ AskedForTls(c) => Spoken(c, note, shown)' /\ Single(c, note)' /\ Lately(c, note)'
         /\ Heard(c) \in Nat /\ Heard(c)' \in Nat /\ Heard(c) <= Heard(c)'
         /\ Read(c) \in Nat /\ Read(c)' \in Nat /\ Read(c) <= Read(c)'
<1>1. /\ sent' = sent /\ asked' = asked /\ known' = known /\ syncs' = syncs
      /\ served' = served /\ skipping' = skipping /\ told' = told /\ executed' = executed
      /\ Down(c)' = Down(c) /\ RunOn(c)' = RunOn(c)
      /\ (AskedForTls(c)' <=> AskedForTls(c)) /\ \A t : ResultOf(t)' = ResultOf(t)
  BY PassesSame
<1>2. Counts(c) /\ Counts(c)'
  BY StreamsCount, StreamsCountNext
<1>3. Scripted(c, note)'
  BY <1>1, ScriptedStays DEF Connected
<1>4. Serving(c, note)'
  <2>1. Len(got[c]["up"]) \in Nat /\ Len(got'[c]["up"]) \in Nat /\ served[c] \in Nat
        /\ Len(got[c]["up"]) <= Len(got'[c]["up"])
    BY <1>2 DEF Counts, Typed, Passes
  <2> QED BY <1>1, <2>1, ServingStays DEF Connected
<1>5. /\ Heard(c) \in Nat /\ Heard(c)' \in Nat /\ Heard(c) <= Heard(c)'
      /\ Read(c) \in Nat /\ Read(c)' \in Nat /\ Read(c) <= Read(c)'
  BY <1>2, HalfGrows, Zenon DEF Counts, Heard, Read, Passes
<1>6. ASSUME ~ AskedForTls(c)
      PROVE  Spoken(c, note, shown)' /\ Single(c, note)' /\ Lately(c, note)'
  <2>1. Spoken(c, note, shown) /\ Single(c, note) /\ Lately(c, note)
        /\ Resulted(c, Down(c), shown)
    BY <1>6 DEF Connected, Answering, Spoken
  <2>2. Resulted(c, Down(c), shown)'
    BY <1>1, <2>1 DEF Resulted
  <2>3. Spoken(c, note, shown)'
    BY <1>1, <2>1, <2>2, SpokenStays
  <2>4. Single(c, note)'
    BY <1>1, <2>1, SingleStays
  <2>5. Lately(c, note)'
    <3>1. \A s \in RunOn(c) : executed'[s] = executed[s]
      BY <1>1
    <3> QED BY <1>1, <1>5, <2>1, <3>1, LatelyStays
  <2> QED BY <2>3, <2>4, <2>5
<1> QED BY <1>3, <1>4, <1>5, <1>6

\* What is claimed of a driver that asked for TLS, but for its recorder.
LEMMA PassesRefusing ==
  ASSUME Relayed, Relayed', NEW c \in Connection, Refusing(c), Passes(c),
         Len(recorder'[c].serverBuffer) < 2, bridge'[c] = "open" => Unreading(c)'
  PROVE  Refusing(c)'
<1>1. sent' = sent /\ syncs' = syncs /\ served' = served /\ Up(c)' = Up(c) /\ RunOn(c)' = RunOn(c)
  BY PassesSame
<1>2. got[c]["down"] # <<>> => got'[c]["down"] # <<>>
  <2>1. /\ got[c]["down"] \in Seq(Byte) /\ got'[c]["down"] \in Seq(Byte)
        /\ Len(got[c]["down"]) <= Len(got'[c]["down"])
    BY DEF Relayed, Flow, Passes
  <2>2. PICK a, b \in Seq(Byte) : a = got[c]["down"] /\ b = got'[c]["down"]
    BY <2>1
  <2>3. a # <<>> /\ Len(a) <= Len(b) => b # <<>>
    OBVIOUS
  <2> QED BY <2>1, <2>2, <2>3
<1> QED BY <1>1, <1>2 DEF Refusing

\* A step that passes something on for c, and adds what it has to the list.
Passed(c, list) ==
    /\ Passes(c)
    /\ \A b \in Connection : b # c =>
        /\ wire'[b] = wire[b] /\ got'[b] = got[b]
        /\ bridge'[b] = bridge[b] /\ recorder'[b] = recorder[b]
    /\ recorder' \in [Connection -> Recorder] /\ recorder'[c].completed = <<>>
    /\ list \in Seq(Interaction) /\ interactions' = interactions \o list
    /\ \A k \in 1 .. Len(list) : executed[Ser(list[k])].on = c
    /\ Matched(interactions') /\ Rising(interactions')
    /\ \E note, shown : Connected(c, note, shown)'

LEMMA PassedKeeps ==
  ASSUME Relayed, IInv, NEW c \in Connection, NEW list, Passed(c, list)
  PROVE  IInv'
<1>1. /\ sent' = sent /\ asked' = asked /\ known' = known /\ syncs' = syncs /\ trips' = trips
      /\ served' = served /\ skipping' = skipping /\ told' = told /\ executed' = executed
      /\ \A t : ResultOf(t)' = ResultOf(t) /\ \A b : Astray(b)' <=> Astray(b)
  BY PassesSame DEF Passed
<1>2. Typed /\ Matched(interactions)
  BY DEF IInv
<1>3. Typed'
  <2>1. interactions' \in Seq(Interaction)
    BY <1>2 DEF Typed, Passed
  <2>2. \A b \in Connection : recorder'[b].completed = <<>>
    BY <1>2, Zenon DEF Typed, Passed
  <2> QED BY <1>1, <1>2, <2>1, <2>2 DEF Typed, Passed
<1>5. Matched(interactions)' /\ Rising(interactions)'
  <2>1. PICK later : later = interactions'
    OBVIOUS
  <2>2. Remembers
    BY <1>1, <1>2, RemembersRun
  <2>3. Matched(later)'
    BY <2>1, <2>2, SoundStays DEF Passed, Matched
  <2>4. Rising(later)'
    BY <2>1, <2>2, StillRising DEF Passed, Matched, Sound
  <2> QED BY <2>1, <2>3, <2>4 DEF Matched, Rising
<1>6. ASSUME NEW b \in Connection
      PROVE  \E note, shown : Connected(b, note, shown)'
  <2>1. CASE b = c
    BY <2>1 DEF Passed
  <2>2. CASE b # c
    <3>1. PICK note, shown : Connected(b, note, shown)
      BY DEF IInv
    <3>2. Untouched(b) /\ RunsNothing(b)
      BY <1>1, <2>2 DEF Passed, Untouched, RunsNothing
    <3>3. AddsNothing(b)
      <4>1. /\ interactions' = interactions \o list /\ list \in Seq(Interaction)
            /\ \A k \in 1 .. Len(list) : executed'[Ser(list[k])].on # b
        BY <1>1, <2>2 DEF Passed
      <4> QED BY <4>1, Zenon DEF AddsNothing
    <3> QED BY <1>2, <3>1, <3>2, <3>3, ConnectedStays
  <2> QED BY <2>1, <2>2
<1> QED BY <1>3, <1>5, <1>6 DEF IInv
-----------------------------------------------------------------------------
(***************************************************************************)
(* A destination takes what the proxy has read.                            *)
(***************************************************************************)

\* What is read is recorded, and nothing is taken that is not read.
LEMMA ListedPasses ==
  ASSUME Relayed', NEW c \in Connection, Passes(c), Heard(c)' \in Nat,
         Kept(c, interactions', Heard(c)'),
         bridge'[c] = "open" => Ahead(c, interactions', Heard(c)')
  PROVE  Listed(c)'
<1>1. Down(c)' = Down(c) /\ executed' = executed
  BY PassesSame
<1>2. Len(got'[c]["down"]) \div 2 \in Nat /\ Len(got'[c]["down"]) \div 2 <= Heard(c)'
  <2>1. Counts(c)'
    BY StreamsCountNext
  <2> QED BY <2>1, HalfGrows, Zenon DEF Counts, Heard
<1>3. PICK g \in Nat, h \in Nat, list \in {interactions'} :
        g = Len(got'[c]["down"]) \div 2 /\ h = Heard(c)' /\ g <= h /\ list = interactions'
  BY <1>2, Zenon
<1>4. Kept(c, list, h) /\ (bridge'[c] = "open" => Ahead(c, list, h))
  BY <1>3 DEF Kept, Ahead
<1>5. Kept(c, list, g)
  <2>1. g <= h
    BY <1>3, Zenon
  <2>2. \A j \in Nat : j <= g => j <= h
    BY ONLY <2>1, g \in Nat, h \in Nat
  <2> QED BY <1>4, <2>2 DEF Kept
<1>6. Kept(c, list, h)' /\ Kept(c, list, g)' /\ (bridge'[c] = "open" => Ahead(c, list, h)')
  BY <1>1, <1>4, <1>5 DEF Kept, Ahead
<1>7. Kept(c, interactions, Len(got[c]["down"]) \div 2)'
  BY <1>3, <1>6, Zenon DEF Kept
<1>8. Kept(c, interactions, Heard(c))' /\ (bridge'[c] = "open" => Ahead(c, interactions, Heard(c))')
  BY <1>3, <1>6 DEF Kept, Ahead
<1> QED BY <1>7, <1>8, Zenon DEF Listed

LEMMA TakePasses ==
  ASSUME Relayed, NEW c \in Connection, NEW d \in {"up", "down"}, Proxy!Take(c, d),
         UNCHANGED <<serverVars, driverVars>>
  PROVE  /\ Passes(c) /\ bridge[c] = "open"
         /\ \A b \in Connection : b # c => got'[b] = got[b]
<1>1. PICK n \in 1 .. Len(queue[c][d]) :
        got' = [got EXCEPT ![c][d] = @ \o SubSeq(queue[c][d], 1, n)]
  BY Zenon DEF Proxy!Take
<1>2. UNCHANGED <<bridge, wire, recorder, interactions, sent>>
  BY DEF Proxy!Take
<1>3. /\ got \in Flow /\ queue[c][d] \in Seq(Byte) /\ got[c][d] \in Seq(Byte)
      /\ bridge[c] \in {"open", "closed"} /\ (bridge[c] = "closed" => queue[c][d] = <<>>)
  BY SMTT(30) DEF Relayed, Flow, Streamed
<1>4. bridge[c] = "open"
  <2>1. queue[c][d] # <<>>
    BY <1>1, <1>3
  <2> QED BY <1>3, <2>1
<1>5. PICK before, more \in Seq(Byte) : /\ before = got[c][d]
                                        /\ more = SubSeq(queue[c][d], 1, n)
  <2>1. SubSeq(queue[c][d], 1, n) \in Seq(Byte)
    BY <1>3
  <2> QED BY <1>3, <2>1, Zenon
<1>6. Len(before \o more) \in Nat /\ Len(before) \in Nat /\ Len(before) <= Len(before \o more)
  BY <1>5
<1>7. /\ got'[c][d] = before \o more
      /\ \A e \in {"up", "down"} : e # d => got'[c][e] = got[c][e]
      /\ \A b \in Connection : b # c => got'[b] = got[b]
  BY <1>1, <1>3, <1>5 DEF Flow
<1>8. \A e \in {"up", "down"} : Len(got[c][e]) \in Nat
  BY <1>3 DEF Flow
<1>9. \A e \in {"up", "down"} : Len(got[c][e]) <= Len(got'[c][e])
  <2> TAKE e \in {"up", "down"}
  <2>1. CASE e = d
    BY <1>5, <1>6, <1>7, <2>1
  <2>2. CASE e # d
    BY <1>7, <1>8, <2>2
  <2> QED BY <2>1, <2>2
<1>10. \A e \in {"up", "down"} : Done(c, e)' = Done(c, e) /\ Done(c, e) \in Nat
  BY <1>2, Zenon DEF Done, Relayed, Streamed
<1>11. Done(c, "up") <= Done(c, "up")' /\ Done(c, "down") <= Done(c, "down")'
  BY <1>10
<1> QED BY <1>2, <1>4, <1>7, <1>9, <1>11 DEF Passes

LEMMA TakeKeeps ==
  ASSUME Relayed, Relayed', IInv, NEW c \in Connection, NEW d \in {"up", "down"},
         Proxy!Take(c, d), UNCHANGED <<serverVars, driverVars>>
  PROVE  IInv'
<1>1. /\ Passes(c) /\ bridge[c] = "open"
      /\ \A b \in Connection : b # c => got'[b] = got[b]
  BY TakePasses
<1>2. UNCHANGED <<bridge, wire, recorder, interactions, sent>>
  BY DEF Proxy!Take
<1>3. Typed /\ Matched(interactions) /\ Rising(interactions)
  BY DEF IInv
<1>4. PICK note, shown : Connected(c, note, shown)
  BY DEF IInv
<1>5. /\ Scripted(c, note)' /\ Serving(c, note)'
      /\ ~ AskedForTls(c) => Spoken(c, note, shown)' /\ Single(c, note)' /\ Lately(c, note)'
      /\ Heard(c)' \in Nat
  BY <1>1, <1>3, <1>4, PassesLeaves
<1>6. /\ Up(c)' = Up(c) /\ Down(c)' = Down(c) /\ (AskedForTls(c)' <=> AskedForTls(c))
      /\ executed' = executed /\ RunOn(c)' = RunOn(c) /\ (Astray(c)' <=> Astray(c))
  BY <1>1, PassesSame
<1>7. /\ Done(c, "up")' = Done(c, "up") /\ Done(c, "down")' = Done(c, "down")
      /\ Heard(c)' = Heard(c)
  BY <1>2 DEF Done, Heard
<1>8. ASSUME AskedForTls(c) PROVE Connected(c, note, shown)'
  <2>1. Refusing(c) /\ Unreading(c)
    BY <1>1, <1>4, <1>8 DEF Connected, Refusing
  <2>2. Unreading(c)'
    BY <1>2, <1>6, <1>7, <2>1 DEF Unreading, UnreadingAt
  <2>3. Refusing(c)'
    <3>1. Len(recorder'[c].serverBuffer) < 2
      BY <1>2, <2>1 DEF Refusing
    <3> QED BY <1>1, <2>1, <2>2, <3>1, PassesRefusing
  <2> QED BY <1>5, <1>6, <1>8, <2>3 DEF Connected
<1>9. ASSUME ~ AskedForTls(c) PROVE Connected(c, note, shown)'
  <2>1. Answering(c, note, shown)
    BY <1>4, <1>9 DEF Connected
  <2>2. Reader(c, note, shown) /\ Listed(c)
    BY <1>1, <2>1 DEF Answering
  <2>3. Reader(c, note, shown)'
    BY <1>2, <2>2, ReaderStays
  <2>4. Listed(c)'
    <3>1. Kept(c, interactions', Heard(c)') /\ Ahead(c, interactions', Heard(c)')
      BY <1>1, <1>2, <1>7, <2>2 DEF Listed
    <3> QED BY <1>1, <1>5, <3>1, ListedPasses
  <2>5. Len(recorder'[c].serverBuffer) < 2
    BY <1>2, <2>1 DEF Answering
  <2>6. Answering(c, note, shown)'
    BY <1>5, <1>9, <2>3, <2>4, <2>5 DEF Answering
  <2> QED BY <1>5, <1>6, <1>9, <2>6 DEF Connected
<1>10. Connected(c, note, shown)'
  BY <1>8, <1>9
<1>11. Passed(c, <<>>)
  <2>1. <<>> \in Seq(Interaction) /\ interactions' = interactions \o <<>> /\ Len(<<>>) = 0
    BY <1>2, <1>3 DEF Typed
  <2>2. recorder' \in [Connection -> Recorder] /\ recorder'[c].completed = <<>>
    BY <1>2, <1>3 DEF Typed
  <2>3. Matched(interactions') /\ Rising(interactions')
    BY <1>2, <1>3
  <2> QED BY <1>1, <1>2, <1>10, <2>1, <2>2, <2>3 DEF Passed
<1> QED BY <1>11, PassedKeeps
-----------------------------------------------------------------------------
(***************************************************************************)
(* The recorder's loops: a path of its states, from frame to frame.        *)
(***************************************************************************)

AfterClient(r, frames) == InOrder(handleClientFrame, r, frames)
AfterServer(r, frames) == InOrder(handleServerFrame, r, frames)

LEMMA ReadsAre ==
  /\ \A r : ReadClient(r) = AfterClient([r EXCEPT !.clientBuffer = Unread(r.clientBuffer)],
                                         Frames(r.clientBuffer))
  /\ \A r : ReadServer(r) = AfterServer([r EXCEPT !.serverBuffer = Remainder(r.serverBuffer)],
                                         Decodable(r.serverBuffer))
BY Zenon DEF ReadClient, ReadServer, AfterClient, AfterServer

LEMMA NatBySet ==
  ASSUME NEW S, 0 \in S, \A n \in Nat : n \in S => n + 1 \in S
  PROVE  \A n \in Nat : n \in S
<1> SUFFICES ASSUME Nat \ S # {} PROVE FALSE
  OBVIOUS
<1>1. PICK n \in Nat \ S : \A m \in Nat \ S : n <= m
  BY LeastOf, Zenon
<1>2. n # 0 /\ n - 1 \in Nat
  OBVIOUS
<1>3. n - 1 \in S
  BY <1>1, <1>2
<1> QED BY <1>1, <1>2, <1>3

Turn(client, r, frame) == IF client THEN handleClientFrame(r, frame) ELSE handleServerFrame(r, frame)

LoopOf(f, client, r, frames, L) ==
    f = [n \in 0 .. L |-> IF n = 0 THEN r ELSE Turn(client, f[n - 1], frames[n])]

\* The loop over the frames of either side has a result, frame after frame.
LEMMA LoopsEnd ==
  ASSUME NEW client, NEW r, NEW frames, NEW L \in Nat
  PROVE  \E f : LoopOf(f, client, r, frames, L)
<1> DEFINE turn(s, n) == Turn(client, s, frames[n])
           is(f, m) == f = [n \in 0 .. m |-> IF n = 0 THEN r ELSE turn(f[n - 1], n)]
           Reached == {m \in Nat : \E f : is(f, m)}
<1> HIDE DEF turn
<1>3. 0 \in Reached
  <2>1. is([n \in 0 .. 0 |-> r], 0)
    OBVIOUS
  <2> QED BY <2>1, Zenon
<1>4. ASSUME NEW m \in Nat, m \in Reached PROVE m + 1 \in Reached
  <2>1. PICK h : is(h, m)
    BY <1>4
  <2> DEFINE g == [n \in 0 .. m + 1 |-> IF n <= m THEN h[n] ELSE turn(h[m], m + 1)]
  <2>2. \A n \in 0 .. m : g[n] = IF n = 0 THEN r ELSE turn(g[n - 1], n)
    BY <2>1
  <2>3. g[m + 1] = turn(g[m], m + 1)
    OBVIOUS
  <2>4. g = [n \in 0 .. m + 1 |-> g[n]]
    OBVIOUS
  <2> HIDE DEF g
  <2>5. \A n \in 0 .. m + 1 : g[n] = IF n = 0 THEN r ELSE turn(g[n - 1], n)
    <3> SUFFICES ASSUME NEW n \in 0 .. m + 1
                 PROVE  g[n] = IF n = 0 THEN r ELSE turn(g[n - 1], n)
      OBVIOUS
    <3>1. CASE n \in 0 .. m
      BY <2>2, <3>1
    <3>2. CASE n = m + 1
      <4>1. n # 0 /\ n - 1 = m
        BY <3>2
      <4> QED BY <2>3, <3>2, <4>1
    <3> QED BY <3>1, <3>2
  <2>6. \E f : is(f, m + 1)
    <3>1. is(g, m + 1)
      BY <2>4, <2>5, Zenon
    <3> QED BY <3>1, Zenon
  <2>7. m + 1 \in Nat
    OBVIOUS
  <2> HIDE DEF is
  <2> QED BY <2>6, <2>7, Zenon
<1> HIDE DEF Reached
<1>5. L \in Reached
  BY <1>3, <1>4, NatBySet
<1> QED BY <1>5 DEF Reached, turn, LoopOf

LEMMA ClientFrames ==
  ASSUME NEW r, NEW frames, Len(frames) \in Nat
  PROVE  \E path : /\ path[0] = r
                   /\ \A n \in 1 .. Len(frames) : path[n] = handleClientFrame(path[n - 1], frames[n])
                   /\ AfterClient(r, frames) = path[Len(frames)]
<1> DEFINE is(f) == f = [n \in 0 .. Len(frames) |->
                            IF n = 0 THEN r ELSE handleClientFrame(f[n - 1], frames[n])]
<1>1. \E f : is(f)
  <2>1. PICK f : LoopOf(f, TRUE, r, frames, Len(frames))
    BY LoopsEnd
  <2>2. is(f)
    BY <2>1 DEF LoopOf, Turn
  <2> QED BY <2>2, Zenon
<1>2. PICK after : after = (CHOOSE f : is(f)) /\ AfterClient(r, frames) = after[Len(frames)]
  BY DEF InOrder, AfterClient
<1>3. is(after)
  BY <1>1, <1>2, Zenon
<1>4. after[0] = r /\ \A n \in 1 .. Len(frames) : after[n] = handleClientFrame(after[n - 1], frames[n])
  BY <1>3
<1> QED BY <1>2, <1>4

LEMMA ServerFrames ==
  ASSUME NEW r, NEW frames, Len(frames) \in Nat
  PROVE  \E path : /\ path[0] = r
                   /\ \A n \in 1 .. Len(frames) : path[n] = handleServerFrame(path[n - 1], frames[n])
                   /\ AfterServer(r, frames) = path[Len(frames)]
<1> DEFINE is(f) == f = [n \in 0 .. Len(frames) |->
                            IF n = 0 THEN r ELSE handleServerFrame(f[n - 1], frames[n])]
<1>1. \E f : is(f)
  <2>1. PICK f : LoopOf(f, FALSE, r, frames, Len(frames))
    BY LoopsEnd
  <2>2. is(f)
    BY <2>1 DEF LoopOf, Turn
  <2> QED BY <2>2, Zenon
<1>2. PICK after : after = (CHOOSE f : is(f)) /\ AfterServer(r, frames) = after[Len(frames)]
  BY DEF InOrder, AfterServer
<1>3. is(after)
  BY <1>1, <1>2, Zenon
<1>4. after[0] = r /\ \A n \in 1 .. Len(frames) : after[n] = handleServerFrame(after[n - 1], frames[n])
  BY <1>3
<1> QED BY <1>2, <1>4

\* What a recorder keeps of the client's frames is what a note says.
Holds(r, n) == r.prepared = n.prepared /\ r.sql = n.sql /\ r.params = n.params

\* And nothing else of it changes with a client's frame.
SameBeside(r, s) ==
    /\ r.phase = s.phase /\ r.clientBuffer = s.clientBuffer /\ r.serverBuffer = s.serverBuffer
    /\ r.columns = s.columns /\ r.rows = s.rows /\ r.completed = s.completed

LEMMA HoldsAfter ==
  ASSUME NEW r \in Recorder, NEW n \in Note, NEW frame \in Frame, Holds(r, n)
  PROVE  /\ handleClientFrame(r, frame) \in Recorder
         /\ Holds(handleClientFrame(r, frame), After(n, frame))
         /\ SameBeside(handleClientFrame(r, frame), r)
<1> DEFINE s == handleClientFrame(r, frame)
<1>1. r \in Recorder /\ NoParams \in Params
  BY StatementAssumption
<1>2. CASE frame.type = "Q"
  <2>1. frame.sql \in Sql
    BY <1>2 DEF Frame
  <2>2. s = [r EXCEPT !.sql = frame.sql, !.params = NoParams]
    BY <1>2 DEF handleClientFrame
  <2>3. s \in Recorder /\ SameBeside(s, r) /\ s.prepared = r.prepared /\ s.sql = frame.sql
        /\ s.params = NoParams
    BY <1>1, <2>1, <2>2, Zenon DEF Recorder, SameBeside
  <2> HIDE DEF s
  <2>4. Holds(s, After(n, frame))
    BY <1>2, <2>3 DEF Holds, After
  <2> QED BY <2>3, <2>4 DEF s
<1>3. CASE frame.type = "P"
  <2>1. frame.sql \in Sql /\ frame.name \in StatementName
    BY <1>3 DEF Frame
  <2>2. s = [r EXCEPT !.prepared[frame.name] = frame.sql, !.sql = frame.sql]
    BY <1>3 DEF handleClientFrame
  <2>3. r.prepared \in Prepared
    BY DEF Recorder
  <2>4. [r.prepared EXCEPT ![frame.name] = frame.sql] \in Prepared
    BY <2>1, <2>3 DEF Prepared
  <2>5. s \in Recorder /\ SameBeside(s, r) /\ s.sql = frame.sql /\ s.params = r.params
        /\ s.prepared = [r.prepared EXCEPT ![frame.name] = frame.sql]
    BY <1>1, <2>1, <2>2, <2>4, Zenon DEF Recorder, SameBeside
  <2> HIDE DEF s
  <2>6. Holds(s, After(n, frame))
    BY <1>3, <2>5 DEF Holds, After
  <2> QED BY <2>5, <2>6 DEF s
<1>4. CASE frame.type = "B"
  <2>1. frame.params \in Params /\ frame.name \in StatementName
    BY <1>4 DEF Frame
  <2>2. s = [r EXCEPT !.sql = IF r.prepared[frame.name] = Unparsed THEN @
                              ELSE r.prepared[frame.name],
                      !.params = frame.params]
    BY <1>4 DEF handleClientFrame
  <2>3. r.prepared[frame.name] \in Sql \union {Unparsed}
    BY <2>1 DEF Recorder, Prepared
  <2>4. s \in Recorder /\ SameBeside(s, r) /\ s.params = frame.params /\ s.prepared = r.prepared
        /\ s.sql = IF r.prepared[frame.name] = Unparsed THEN r.sql ELSE r.prepared[frame.name]
    BY <1>1, <2>1, <2>2, <2>3, Zenon DEF Recorder, SameBeside
  <2> HIDE DEF s
  <2>5. Holds(s, After(n, frame))
    BY <1>4, <2>4 DEF Holds, After
  <2> QED BY <2>4, <2>5 DEF s
<1>5. CASE frame.type \notin {"Q", "P", "B"}
  <2>1. s = r
    BY <1>5 DEF handleClientFrame
  <2>2. Holds(r, After(n, frame))
    BY <1>5 DEF Holds, After
  <2> QED BY <2>1, <2>2 DEF SameBeside
<1> QED BY <1>2, <1>3, <1>4, <1>5

\* The frames of a chunk take a recorder that is on the path of notes as far along it.
Along(r, frames, all, note, runs, h) ==
    /\ h + Len(frames) <= Len(all) /\ \A k \in 1 .. Len(frames) : frames[k] = all[h + k]
    /\ Leads(all, note, runs) /\ Holds(r, note[h])

LEMMA HoldsAllAfter ==
  ASSUME NEW r \in Recorder, NEW all \in Seq(Frame), NEW note, NEW runs, NEW h \in Nat,
         NEW frames \in Seq(Frame)
  PROVE  /\ AfterClient(r, frames) \in Recorder /\ SameBeside(AfterClient(r, frames), r)
         /\ Along(r, frames, all, note, runs, h)
                => Holds(AfterClient(r, frames), note[h + Len(frames)])
<1>1. Len(frames) \in Nat /\ Len(all) \in Nat /\ \A k \in 1 .. Len(frames) : frames[k] \in Frame
  OBVIOUS
<1>2. PICK path : /\ path[0] = r
                  /\ \A n \in 1 .. Len(frames) :
                            path[n] = handleClientFrame(path[n - 1], frames[n])
                  /\ AfterClient(r, frames) = path[Len(frames)]
  BY <1>1, ClientFrames
<1> DEFINE along == Along(r, frames, all, note, runs, h)
           Good(n) == /\ path[n] \in Recorder /\ SameBeside(path[n], r)
                      /\ along => Holds(path[n], note[h + n])
           S == {n \in Nat : n <= Len(frames) => Good(n)}
<1>3. 0 \in S
  <2>1. h + 0 = h /\ SameBeside(r, r)
    BY DEF SameBeside
  <2>2. Good(0)
    BY <1>2, <2>1 DEF Along
  <2> QED BY <2>2
<1>4. ASSUME NEW n \in Nat, n \in S PROVE n + 1 \in S
  <2> SUFFICES ASSUME n + 1 <= Len(frames) PROVE Good(n + 1)
    OBVIOUS
  <2>1. n <= Len(frames) /\ n + 1 \in 1 .. Len(frames) /\ (n + 1) - 1 = n
    BY ONLY <1>1, n \in Nat, n + 1 <= Len(frames)
  <2>2. Good(n)
    BY <1>4, <2>1
  <2>3. path[n + 1] = handleClientFrame(path[n], frames[n + 1]) /\ frames[n + 1] \in Frame
    BY <1>1, <1>2, <2>1
  <2>4. along => /\ note[h + n] \in Note
                 /\ note[h + (n + 1)] = After(note[h + n], frames[n + 1])
    <3>1. ASSUME along
          PROVE  /\ h + n \in 0 .. Len(all) /\ h + (n + 1) \in 1 .. Len(all)
                 /\ h + (n + 1) - 1 = h + n /\ frames[n + 1] = all[h + (n + 1)]
      <4>1. h + Len(frames) <= Len(all)
        BY <3>1 DEF Along
      <4>2. /\ h + n \in 0 .. Len(all) /\ h + (n + 1) \in 1 .. Len(all)
            /\ h + (n + 1) - 1 = h + n
        BY ONLY <1>1, <2>1, <4>1, n \in Nat, h \in Nat
      <4> QED BY <2>1, <3>1, <4>2 DEF Along
    <3> QED BY <3>1 DEF Along, Leads
  <2>5. PICK before, frame : before = path[n] /\ frame = frames[n + 1]
    OBVIOUS
  <2>6. PICK at \in Note : Holds(before, at) /\ (along => at = note[h + n])
    <3>1. CASE along
      BY <2>2, <2>4, <2>5, <3>1
    <3>2. CASE ~ along
      <4>1. [Blank EXCEPT !.prepared = before.prepared, !.sql = before.sql,
                          !.params = before.params] \in Note
        BY <2>2, <2>5, BlankType DEF Recorder, Note
      <4> QED BY <3>2, <4>1 DEF Holds, Blank
    <3> QED BY <3>1, <3>2
  <2>7. PICK next : next = handleClientFrame(before, frame)
    OBVIOUS
  <2>8. next \in Recorder /\ Holds(next, After(at, frame)) /\ SameBeside(next, before)
    BY <2>2, <2>3, <2>5, <2>6, <2>7, HoldsAfter
  <2>9. SameBeside(next, r)
    BY <2>2, <2>5, <2>8 DEF SameBeside
  <2> HIDE DEF along
  <2> QED BY <2>3, <2>4, <2>5, <2>6, <2>7, <2>8, <2>9
<1> HIDE DEF S
<1>5. Len(frames) \in S
  BY <1>1, <1>3, <1>4, NatBySet, Zenon
<1>6. Good(Len(frames))
  BY <1>1, <1>5 DEF S
<1> QED BY <1>2, <1>6

\* What is read of a client, in step or not, are frames.
LEMMA FramesTyped ==
  ASSUME NEW buffer \in Seq(Frame)
  PROVE  Frames(buffer) \in Seq(Frame) /\ Unread(buffer) \in Seq(Frame)
<1>1. PICK rest \in Seq(Frame) : rest = Behind(buffer)
  <2>1. SubSeq(buffer, MisreadLength + 1, Len(buffer)) \in Seq(Frame)
    <3>1. MisreadLength \in Nat /\ Len(buffer) \in Nat
      BY MisreadAssumption
    <3>2. /\ MisreadLength + 1 \in Int /\ Len(buffer) \in Int
          /\ \A i \in MisreadLength + 1 .. Len(buffer) : buffer[i] \in Frame
      BY <3>1
    <3> QED BY ONLY <3>2, SubSeqProperties
  <2> QED BY <2>1 DEF Behind
<1>2. PICK m \in Nat : m = Len(rest) \div 2 /\ 2 * m <= Len(rest)
  BY Parity
<1>3. \A k \in 1 .. m : rest[2 * k - 1] \in Frame /\ rest[2 * k] \in Frame
  <2> TAKE k \in 1 .. m
  <2>1. 2 * k - 1 \in 1 .. Len(rest) /\ 2 * k \in 1 .. Len(rest)
    BY <1>2
  <2> QED BY <2>1
<1>4. \A a, b \in Frame : (IF a = b THEN b ELSE Garbled[a, b]) \in Frame
  <2>1. \A a, b \in Frame : <<a, b>> \in Frame \X Frame
    OBVIOUS
  <2> QED BY <2>1, MisreadAssumption, Zenon
<1>5. Framed(rest) \in Seq(Frame)
  <2> DEFINE at(k) == IF rest[2 * k - 1] = rest[2 * k] THEN rest[2 * k]
                      ELSE Garbled[rest[2 * k - 1], rest[2 * k]]
  <2>1. \A k \in 1 .. m : at(k) \in Frame
    BY <1>3, <1>4, Zenon
  <2>2. Framed(rest) = [k \in 1 .. m |-> at(k)]
    BY <1>2 DEF Framed
  <2> HIDE DEF at
  <2> QED BY <2>1, <2>2
<1>6. Remainder(rest) \in Seq(Frame)
  <2>1. /\ 2 * m + 1 \in Int /\ Len(rest) \in Int
        /\ \A i \in 2 * m + 1 .. Len(rest) : rest[i] \in Frame
    BY <1>2
  <2>2. SubSeq(rest, 2 * m + 1, Len(rest)) \in Seq(Frame)
    BY ONLY <2>1, SubSeqProperties
  <2> QED BY <1>2, <2>2 DEF Remainder
<1> QED BY <1>1, <1>5, <1>6 DEF Frames, Unread
-----------------------------------------------------------------------------
(***************************************************************************)
(* A chunk from a driver that has not asked for TLS.                       *)
(***************************************************************************)

\* Only the first frame is a startup.
LEMMA StartsOnce ==
  ASSUME Typed, NEW c \in Connection, NEW note, Scripted(c, note), ~ AskedForTls(c)
  PROVE  \A i \in 1 .. Len(Up(c)) : Up(c)[i].type = "Startup" <=> i = 1
<1>1. PICK frames \in Seq(Frame) : /\ frames = Up(c) /\ sent[c]["up"] = HalvesOf(frames)
                                   /\ Leads(frames, note, asked[c])
  <2>1. sent[c]["up"] = HalvesOf(Up(c)) /\ Leads(Up(c), note, asked[c])
    BY DEF Scripted
  <2> QED BY <2>1, UpFrames
<1>2. Len(frames) \in Nat /\ \A i \in 1 .. Len(frames) : frames[i] \in Frame
  OBVIOUS
<1>3. \A i \in 1 .. Len(frames) : frames[i].type \notin {"none"}
  BY <1>2 DEF Frame
<1>4. \A i \in 1 .. Len(frames) : /\ note[i].type = frames[i].type
                                  /\ Follows(note[i - 1].type, frames[i].type)
  <2> TAKE i \in 1 .. Len(frames)
  <2>1. note[i] = After(note[i - 1], frames[i]) /\ Follows(note[i - 1].type, frames[i].type)
    BY <1>1 DEF Leads
  <2>2. After(note[i - 1], frames[i]).type = frames[i].type
    BY DEF After
  <2> QED BY <2>1, <2>2
<1>5. note[0].type = "none"
  BY <1>1 DEF Leads, Blank
<1>6. Len(frames) > 0 => frames[1].type # "SSLRequest"
  <2>1. Len(frames) > 0 => /\ HalvesOf(frames)[1] = frames[1] /\ Len(HalvesOf(frames)) > 0
                           /\ HalvesOf(frames) \in Seq(Frame)
    <3>1. (1 + 1) \div 2 = 1
      OBVIOUS
    <3>2. /\ Len(HalvesOf(frames)) = 2 * Len(frames) /\ HalvesOf(frames) \in Seq(Frame)
          /\ \A k \in 1 .. 2 * Len(frames) : HalvesOf(frames)[k] = frames[(k + 1) \div 2]
      BY HalvesOfFrames
    <3>3. Len(frames) > 0 => 1 \in 1 .. 2 * Len(frames) /\ 2 * Len(frames) > 0
      BY <1>2
    <3> QED BY <3>1, <3>2, <3>3
  <2>2. PICK bytes \in Seq(Frame) : bytes = sent[c]["up"]
    BY DEF Typed
  <2>3. Len(frames) > 0 => bytes # <<>> /\ Head(bytes) = frames[1]
    BY <1>1, <2>1, <2>2
  <2> QED BY <2>2, <2>3 DEF AskedForTls
<1>7. \A i \in 1 .. Len(frames) : i = 1 <=> note[i - 1].type = "none"
  <2> TAKE i \in 1 .. Len(frames)
  <2>1. CASE i = 1
    BY <1>5, <2>1
  <2>2. CASE i # 1
    <3>1. i - 1 \in 1 .. Len(frames)
      BY <1>2, <2>2
    <3> QED BY <1>3, <1>4, <2>2, <3>1
  <2> QED BY <2>1, <2>2
<1>8. \A i \in 1 .. Len(frames) : frames[i].type = "SSLRequest" => i = 1
  BY <1>4, <1>7 DEF Follows, Ends
<1>9. \A i \in 1 .. Len(frames) : frames[i].type # "SSLRequest"
  BY <1>6, <1>8
<1>10. \A i \in 1 .. Len(frames) : i = 1 => frames[i].type = "Startup"
  BY <1>4, <1>5, <1>9 DEF Follows, Ends
<1>11. \A i \in 1 .. Len(frames) : frames[i].type = "Startup" => i = 1
  <2> SUFFICES ASSUME NEW i \in 1 .. Len(frames), frames[i].type = "Startup", i # 1
               PROVE  FALSE
    OBVIOUS
  <2>1. i - 1 \in 1 .. Len(frames)
    BY <1>2
  <2>2. note[i - 1].type \in {"none", "SSLRequest"}
    BY <1>4 DEF Follows, Ends
  <2> QED BY <1>3, <1>4, <1>9, <2>1, <2>2
<1> QED BY <1>1, <1>10, <1>11

\* Where a buffer begins, behind the startup: at frame h + 1.
Buffered(c, buffer, h) ==
    /\ buffer \in Seq(Frame) /\ 2 * h + Len(buffer) <= Len(sent[c]["up"])
    /\ \A i \in 1 .. Len(buffer) : buffer[i] = sent[c]["up"][2 * h + i]

\* Where a recorder is that reads on, and where it is then.
Reading(c, note, r, h) ==
    r \in Recorder /\ h \in Nat /\ h > 0 /\ Buffered(c, r.clientBuffer, h) /\ Holds(r, note[h])

ReadsOn(c, note, q, r, h) ==
    LET m == Len(r.clientBuffer) \div 2
    IN  /\ q \in Recorder /\ Holds(q, note[h + m])
        /\ q.phase = r.phase /\ q.serverBuffer = r.serverBuffer
        /\ q.columns = r.columns /\ q.rows = r.rows /\ q.completed = r.completed
        /\ Len(q.clientBuffer) = Len(r.clientBuffer) % 2
        /\ \A i \in 1 .. Len(q.clientBuffer) : q.clientBuffer[i] = sent[c]["up"][2 * (h + m) + i]

LEMMA ReadClientReads ==
  ASSUME Typed, NEW c \in Connection, NEW note, Scripted(c, note), ~ AskedForTls(c),
         NEW r, NEW h, Reading(c, note, r, h)
  PROVE  ReadsOn(c, note, ReadClient(r), r, h)
<1>0. r \in Recorder /\ h \in Nat /\ h > 0 /\ Buffered(c, r.clientBuffer, h) /\ Holds(r, note[h])
  BY DEF Reading
<1>1. PICK all \in Seq(Frame) : /\ all = Up(c) /\ sent[c]["up"] = HalvesOf(all)
                                /\ Leads(all, note, asked[c]) /\ Len(sent[c]["up"]) = 2 * Len(all)
  <2>1. sent[c]["up"] = HalvesOf(Up(c)) /\ Leads(Up(c), note, asked[c])
    BY DEF Scripted
  <2> QED BY <2>1, UpFrames
<1>2. PICK buffer \in Seq(Frame) : buffer = r.clientBuffer
  BY <1>0 DEF Buffered
<1>3. /\ 2 * h + Len(buffer) <= 2 * Len(all)
      /\ \A i \in 1 .. Len(buffer) : buffer[i] = HalvesOf(all)[2 * h + i]
  BY <1>0, <1>1, <1>2, Zenon DEF Buffered
<1>4. PICK m \in Nat : m = Len(buffer) \div 2
  <2>1. Len(buffer) \div 2 \in Nat
    BY Parity
  <2> QED BY <2>1
<1>5. /\ h + m <= Len(all)
      /\ Decodable(buffer) \in Seq(Frame) /\ Len(Decodable(buffer)) = m
      /\ \A k \in 1 .. m : Decodable(buffer)[k] = all[h + k]
      /\ Remainder(buffer) \in Seq(Frame) /\ Len(Remainder(buffer)) = Len(buffer) % 2
      /\ \A i \in 1 .. Len(Remainder(buffer)) : Remainder(buffer)[i] = HalvesOf(all)[2 * (h + m) + i]
      /\ buffer # <<>> => Head(buffer) = all[h + 1] /\ h + 1 <= Len(all)
  <2>1. LET l == Len(buffer) \div 2
        IN  /\ l \in Nat /\ h + l <= Len(all)
            /\ Decodable(buffer) \in Seq(Frame) /\ Len(Decodable(buffer)) = l
            /\ \A k \in 1 .. l : Decodable(buffer)[k] = all[h + k]
            /\ Remainder(buffer) \in Seq(Frame) /\ Len(Remainder(buffer)) = Len(buffer) % 2
            /\ \A i \in 1 .. Len(Remainder(buffer)) :
                     Remainder(buffer)[i] = HalvesOf(all)[2 * (h + l) + i]
            /\ buffer # <<>> => Head(buffer) = all[h + 1] /\ h + 1 <= Len(all)
    <3>1. h \in Nat /\ 2 * h + Len(buffer) <= 2 * Len(all)
      BY <1>0, <1>3
    <3> QED BY <1>3, <3>1, ChunkDecoded, ZenonT(40)
  <2> QED BY <1>4, <2>1
<1>6. ~ Misread(buffer)
  <2> SUFFICES ASSUME buffer # <<>> PROVE all[h + 1].type # "Startup"
    BY <1>5 DEF Misread
  <2>1. h + 1 \in 1 .. Len(all) /\ h + 1 # 1
    BY <1>0, <1>5
  <2> QED BY <1>1, <2>1, StartsOnce
<1>7. PICK frames, rest \in Seq(Frame) :
        /\ frames = Decodable(buffer) /\ rest = Remainder(buffer)
        /\ Frames(buffer) = frames /\ Unread(buffer) = rest
  <2>1. \A k \in 1 .. m : buffer[2 * k - 1] = buffer[2 * k]
    <3> TAKE k \in 1 .. m
    <3>1. /\ 2 * k - 1 \in 1 .. Len(buffer) /\ 2 * k \in 1 .. Len(buffer)
          /\ 2 * h + (2 * k - 1) \in 1 .. 2 * Len(all) /\ 2 * h + 2 * k \in 1 .. 2 * Len(all)
      BY <1>0, <1>3, <1>4
    <3>2. PICK p \in Nat : /\ p = h + k /\ 2 * h + (2 * k - 1) + 1 = 2 * p
                           /\ 2 * h + 2 * k + 1 = 2 * p + 1
      BY <1>0, <1>4
    <3>3. (2 * p) \div 2 = p /\ (2 * p + 1) \div 2 = p
      BY HalfOf
    <3>4. /\ HalvesOf(all)[2 * h + (2 * k - 1)] = all[(2 * p) \div 2]
          /\ HalvesOf(all)[2 * h + 2 * k] = all[(2 * p + 1) \div 2]
      <4>1. \A i \in 1 .. 2 * Len(all) : HalvesOf(all)[i] = all[(i + 1) \div 2]
        BY HalvesOfFrames
      <4> QED BY <3>1, <3>2, <4>1, Zenon
    <3> QED BY <1>3, <3>1, <3>3, <3>4, Zenon
  <2>2. Framed(buffer) = Decodable(buffer)
    BY <1>4, <2>1 DEF Framed, Decodable
  <2> QED BY <1>5, <1>6, <2>2 DEF Frames, Unread, Behind
<1>8. PICK s : s = [r EXCEPT !.clientBuffer = rest]
  BY Zenon
<1>9. /\ s \in Recorder /\ s.clientBuffer = rest /\ Holds(s, note[h])
      /\ s.phase = r.phase /\ s.serverBuffer = r.serverBuffer
      /\ s.columns = r.columns /\ s.rows = r.rows /\ s.completed = r.completed
  BY <1>0, <1>8, Zenon DEF Recorder, Holds
<1>10. ReadClient(r) = AfterClient(s, frames)
  <2>1. ReadClient(r) = AfterClient([r EXCEPT !.clientBuffer = Unread(r.clientBuffer)],
                                    Frames(r.clientBuffer))
    BY ReadsAre, Zenon
  <2> QED BY <1>2, <1>7, <1>8, <2>1, Zenon
<1>11. PICK q : q = AfterClient(s, frames)
  OBVIOUS
<1>12. q \in Recorder /\ Holds(q, note[h + m]) /\ SameBeside(q, s)
  <2>1. Along(s, frames, all, note, asked[c], h) /\ Len(frames) = m
    BY <1>1, <1>5, <1>7, <1>9, Zenon DEF Along
  <2>2. /\ AfterClient(s, frames) \in Recorder /\ SameBeside(AfterClient(s, frames), s)
        /\ Holds(AfterClient(s, frames), note[h + Len(frames)])
    BY <1>0, <1>9, <2>1, HoldsAllAfter, Zenon
  <2> QED BY <1>11, <2>1, <2>2
<1>13. Len(q.clientBuffer) = Len(buffer) % 2
       /\ \A i \in 1 .. Len(q.clientBuffer) : q.clientBuffer[i] = HalvesOf(all)[2 * (h + m) + i]
  BY <1>5, <1>7, <1>9, <1>12 DEF SameBeside
<1> QED BY <1>1, <1>2, <1>4, <1>9, <1>10, <1>11, <1>12, <1>13, Zenon DEF SameBeside, ReadsOn
-----------------------------------------------------------------------------
(***************************************************************************)
(* A chunk from a driver, as the recorder reads it.                        *)
(***************************************************************************)

\* The recorder's side of what a driver sends, when d elements are read.
ReaderUp(c, note, r, d) ==
    /\ Len(r.clientBuffer) = d % 2
    /\ \A i \in 1 .. Len(r.clientBuffer) : r.clientBuffer[i] = sent[c]["up"][2 * (d \div 2) + i]
    /\ r.phase = IF d \div 2 = 0 THEN "initial" ELSE "running"
    /\ Holds(r, note[d \div 2])

\* And nothing else of it changes.
SameDown(q, r) ==
    /\ q.serverBuffer = r.serverBuffer
    /\ q.columns = r.columns /\ q.rows = r.rows /\ q.completed = r.completed

LEMMA HalvesAdd ==
  \A d, n, h, l, m \in Nat :
      h = d \div 2 /\ l = (d % 2) + n /\ m = l \div 2 =>
          /\ 2 * h + l = d + n /\ h + m = (d + n) \div 2 /\ l % 2 = (d + n) % 2
          /\ d % 2 < 2
          /\ l >= 2 => l - 2 \in Nat /\ (l - 2) \div 2 = m - 1 /\ (l - 2) % 2 = l % 2 /\ m >= 1
          /\ l < 2 => m = 0
BY SMTT(30)

\* What is on the wire are frames the driver has sent.
LEMMA UnreadFrames ==
  ASSUME Relayed, NEW c \in Connection, NEW d \in {"up", "down"}, NEW S, sent[c][d] \in Seq(S)
  PROVE  wire[c][d] \in Seq(S)
<1>1. PICK stream \in Seq(S), unread \in Seq(Byte), start \in Nat :
        /\ stream = sent[c][d] /\ unread = wire[c][d]
        /\ Len(stream) = start + Len(unread)
        /\ \A i \in 1 .. Len(unread) : unread[i] = stream[start + i]
  <2>1. wire[c][d] \in Seq(Byte) /\ Streamed(c, d)
    BY DEF Relayed, Flow
  <2> QED BY <2>1 DEF Streamed
<1>2. PICK l \in Nat : l = Len(unread) /\ Len(stream) = start + l
  BY <1>1
<1>3. \A i \in 1 .. l : stream[start + i] \in S
  <2> TAKE i \in 1 .. l
  <2>1. start + i \in 1 .. Len(stream)
    BY <1>2
  <2> QED BY <2>1, ElementOfSeq
<1>4. \A i \in 1 .. l : unread[i] \in S
  BY <1>1, <1>2, <1>3, Zenon
<1>5. unread = [i \in 1 .. l |-> unread[i]]
  BY <1>2
<1>6. unread \in [1 .. l -> S]
  BY <1>4, <1>5, Zenon
<1> QED BY <1>1, <1>2, <1>6, SeqDef, Zenon

\* What is buffered once the chunk is added, from frame h + 1 on.
LEMMA ChunkBuffers ==
  ASSUME Typed, Relayed, NEW c \in Connection, NEW h \in Nat, NEW buffer \in Seq(Frame),
         2 * h + Len(buffer) = Done(c, "up"), NEW n \in 1 .. Len(wire[c]["up"]),
         \A i \in 1 .. Len(buffer) : buffer[i] = sent[c]["up"][2 * h + i]
  PROVE  /\ Buffered(c, buffer \o SubSeq(wire[c]["up"], 1, n), h)
         /\ Len(buffer \o SubSeq(wire[c]["up"], 1, n)) = Len(buffer) + n
         /\ Len(SubSeq(wire[c]["up"], 1, n)) = n
<1>1. PICK stream \in Seq(Frame), unread \in Seq(Byte) :
        /\ stream = sent[c]["up"] /\ unread = wire[c]["up"]
        /\ Len(stream) = Done(c, "up") + Len(unread)
        /\ \A i \in 1 .. Len(unread) : unread[i] = stream[Done(c, "up") + i]
  <2>1. sent[c]["up"] \in Seq(Frame) /\ wire[c]["up"] \in Seq(Byte)
    BY DEF Typed, Relayed, Flow
  <2>2. Streamed(c, "up")
    BY DEF Relayed
  <2>3. /\ Len(sent[c]["up"]) = Done(c, "up") + Len(wire[c]["up"])
        /\ \A i \in 1 .. Len(wire[c]["up"]) : wire[c]["up"][i] = sent[c]["up"][Done(c, "up") + i]
    BY <2>2 DEF Streamed
  <2> QED BY <2>1, <2>3, Zenon
<1>2. PICK start \in Nat, l \in Nat : start = 2 * h /\ l = Len(buffer) /\ start + l = Done(c, "up")
  <2>1. 2 * h \in Nat /\ Len(buffer) \in Nat
    OBVIOUS
  <2> QED BY <2>1, Zenon
<1>3. n \in 1 .. Len(unread)
  BY <1>1
<1>4. unread \in Seq(Frame)
  BY <1>1, UnreadFrames DEF Typed
<1>5. Ending(Frame, stream, start, buffer, unread)
  BY <1>1, <1>2, <1>4, Zenon DEF Ending
<1>6. Len(SubSeq(unread, 1, n)) = n /\ Joining(Frame, stream, start, buffer, SubSeq(unread, 1, n))
  BY <1>3, <1>5, ChunkJoined
<1>7. PICK whole \in Seq(Frame) : whole = buffer \o SubSeq(unread, 1, n) /\ Len(whole) = l + n
  BY <1>2, <1>6, Zenon DEF Joining
<1>8. start + Len(whole) <= Len(stream)
  BY <1>2, <1>6, <1>7 DEF Joining
<1>9. Buffered(c, whole, h)
  BY <1>1, <1>2, <1>6, <1>7, <1>8, Zenon DEF Buffered, Joining
<1> QED BY <1>1, <1>6, <1>7, <1>9

\* The first frame is a startup; reading goes on behind it.
Opening(c, note, r) ==
    /\ r \in Recorder /\ Buffered(c, r.clientBuffer, 0) /\ Len(r.clientBuffer) >= 2
    /\ Holds(r, note[0])

StartedOn(c, note, q, r) ==
    LET m == Len(r.clientBuffer) \div 2
    IN  /\ q \in Recorder /\ Holds(q, note[m]) /\ q.phase = "running" /\ SameDown(q, r)
        /\ Len(q.clientBuffer) = Len(r.clientBuffer) % 2
        /\ \A i \in 1 .. Len(q.clientBuffer) : q.clientBuffer[i] = sent[c]["up"][2 * m + i]

LEMMA StartupReads ==
  ASSUME Typed, NEW c \in Connection, NEW note, Scripted(c, note), ~ AskedForTls(c),
         NEW r, Opening(c, note, r)
  PROVE  StartedOn(c, note, ReadStartup(r), r)
<1>0. /\ r \in Recorder /\ Buffered(c, r.clientBuffer, 0) /\ Len(r.clientBuffer) >= 2
      /\ Holds(r, note[0])
  BY DEF Opening
<1>1. PICK buffer \in Seq(Frame), l \in Nat :
        buffer = r.clientBuffer /\ l = Len(buffer) /\ l >= 2
  <2>1. r.clientBuffer \in Seq(Frame)
    BY <1>0 DEF Buffered
  <2>2. Len(r.clientBuffer) \in Nat
    BY <2>1
  <2> QED BY <1>0, <2>1, <2>2
<1>a. PICK m \in Nat : /\ l - 2 \in Nat /\ m = (l - 2) \div 2
                       /\ l \div 2 = m + 1 /\ l % 2 = (l - 2) % 2
  <2>1. /\ l - 2 \in Nat /\ (l - 2) \div 2 \in Nat
        /\ l \div 2 = (l - 2) \div 2 + 1 /\ l % 2 = (l - 2) % 2
    <3>1. l >= 2
      BY <1>1
    <3> QED BY ONLY <3>1, l \in Nat, SMTT(30)
  <2> QED BY <2>1
<1>2. PICK rest \in Seq(Frame) : /\ rest = SubSeq(buffer, 3, l) /\ Len(rest) = l - 2
                                 /\ \A i \in 1 .. l - 2 : rest[i] = buffer[2 + i]
  <2>1. /\ SubSeq(buffer, 3, l) \in Seq(Frame)
        /\ Len(SubSeq(buffer, 3, l)) = IF 3 <= l THEN l - 3 + 1 ELSE 0
        /\ \A i \in 1 .. l - 3 + 1 : SubSeq(buffer, 3, l)[i] = buffer[3 + i - 1]
    <3>1. 3 \in Int /\ l \in Int /\ \A i \in 3 .. l : buffer[i] \in Frame
      BY <1>1
    <3> QED BY ONLY <3>1, SubSeqProperties
  <2>2. Len(SubSeq(buffer, 3, l)) = l - 2 /\ l - 3 + 1 = l - 2 /\ \A i \in 1 .. l - 2 : 3 + i - 1 = 2 + i
    BY <1>1, <2>1
  <2>3. \A i \in 1 .. l - 2 : SubSeq(buffer, 3, l)[i] = buffer[2 + i]
    BY <2>1, <2>2
  <2> QED BY <2>1, <2>2, <2>3, Zenon
<1>3. PICK s : s = [r EXCEPT !.clientBuffer = rest, !.phase = "running"]
  OBVIOUS
<1>4. s \in Recorder /\ s.clientBuffer = rest /\ s.phase = "running" /\ SameDown(s, r)
      /\ s.prepared = r.prepared /\ s.sql = r.sql /\ s.params = r.params
  BY <1>0, <1>3, Zenon DEF Recorder, SameDown
<1>5. /\ Up(c)[1].type = "Startup" /\ 1 \in 1 .. Len(Up(c)) /\ Head(buffer) = Up(c)[1]
      /\ Len(sent[c]["up"]) = 2 * Len(Up(c)) /\ Leads(Up(c), note, asked[c])
  <2>1. /\ Len(Up(c)) \in Nat /\ Len(sent[c]["up"]) = 2 * Len(Up(c))
        /\ \A k \in 1 .. Len(sent[c]["up"]) : sent[c]["up"][k] = Up(c)[(k + 1) \div 2]
        /\ Leads(Up(c), note, asked[c])
    BY UpFrames DEF Scripted
  <2>2. l <= Len(sent[c]["up"])
    BY <1>0, <1>1 DEF Buffered
  <2>3. 1 \in 1 .. Len(Up(c)) /\ 1 \in 1 .. Len(sent[c]["up"]) /\ 1 \in 1 .. l
    BY <1>1, <2>1, <2>2
  <2>4. (1 + 1) \div 2 = 1
    OBVIOUS
  <2>5. sent[c]["up"][1] = Up(c)[1]
    BY <2>1, <2>3, <2>4
  <2>6. Head(buffer) = buffer[1]
    BY <1>1
  <2>7. buffer[1] = sent[c]["up"][1]
    BY <1>0, <1>1, <2>3 DEF Buffered
  <2> QED BY <2>1, <2>3, <2>5, <2>6, <2>7, StartsOnce
<1>6. ReadStartup(r) = ReadClient(s)
  <2>1. ~ (Len(r.clientBuffer) < 2) /\ Head(r.clientBuffer).type # "SSLRequest"
    BY <1>1, <1>5
  <2>2. ReadStartup(r) = ReadClient([[r EXCEPT !.clientBuffer = SubSeq(r.clientBuffer, 3, Len(r.clientBuffer))]
                                      EXCEPT !.phase = "running"])
    BY <2>1 DEF ReadStartup
  <2>3. [[r EXCEPT !.clientBuffer = SubSeq(r.clientBuffer, 3, Len(r.clientBuffer))]
              EXCEPT !.phase = "running"] = s
    BY <1>0, <1>1, <1>2, <1>3 DEF Recorder
  <2> QED BY <2>2, <2>3
<1>7. Holds(s, note[1])
  <2>1. note[0] = Blank /\ note[1] = After(note[0], Up(c)[1])
    <3>1. 1 - 1 = 0
      OBVIOUS
    <3> QED BY <1>5, <3>1 DEF Leads
  <2>2. /\ note[1].prepared = note[0].prepared /\ note[1].sql = note[0].sql
        /\ note[1].params = note[0].params
    BY <1>5, <2>1 DEF After
  <2> QED BY <1>0, <1>4, <2>2 DEF Holds
<1>8. Buffered(c, s.clientBuffer, 1)
  <2>1. 2 * 1 + Len(rest) <= Len(sent[c]["up"])
    BY <1>0, <1>1, <1>2 DEF Buffered
  <2>2. \A i \in 1 .. Len(rest) : 2 + i \in 1 .. l /\ 2 * 0 + (2 + i) = 2 * 1 + i
    BY <1>1, <1>2
  <2>3. \A i \in 1 .. Len(rest) : rest[i] = sent[c]["up"][2 * 1 + i]
    BY <1>0, <1>1, <1>2, <2>2 DEF Buffered
  <2> QED BY <1>4, <2>1, <2>3 DEF Buffered
<1>9. PICK q : q = ReadClient(s)
  OBVIOUS
<1>10. /\ q \in Recorder /\ Holds(q, note[1 + m]) /\ q.phase = s.phase /\ SameDown(q, s)
       /\ Len(q.clientBuffer) = Len(s.clientBuffer) % 2
       /\ \A i \in 1 .. Len(q.clientBuffer) : q.clientBuffer[i] = sent[c]["up"][2 * (1 + m) + i]
  <2>1. Len(s.clientBuffer) = l - 2
    BY <1>2, <1>4
  <2>2. 1 \in Nat /\ 1 > 0 /\ m = Len(s.clientBuffer) \div 2
    BY <1>a, <2>1
  <2>3. ReadsOn(c, note, ReadClient(s), s, 1)
    BY <1>4, <1>7, <1>8, <2>2, ReadClientReads DEF Reading
  <2>4. ReadsOn(c, note, q, s, 1)
    BY <1>9, <2>3
  <2> QED BY <2>2, <2>4, Zenon DEF SameDown, ReadsOn
<1>11. 1 + m = m + 1 /\ SameDown(q, r) /\ Len(s.clientBuffer) = Len(r.clientBuffer) - 2
  <2>1. SameDown(q, r)
    BY <1>4, <1>10 DEF SameDown
  <2>2. Len(s.clientBuffer) = Len(r.clientBuffer) - 2
    BY <1>1, <1>2, <1>4
  <2>3. 1 + m = m + 1
    BY ONLY m \in Nat
  <2> QED BY <2>1, <2>2, <2>3
<1>12. StartedOn(c, note, q, r)
  <2>1. /\ Len(r.clientBuffer) \div 2 = m + 1
        /\ Len(s.clientBuffer) % 2 = Len(r.clientBuffer) % 2
    BY <1>1, <1>a, <1>11, Zenon
  <2> QED BY <1>4, <1>10, <1>11, <2>1, Zenon DEF StartedOn
<1> QED BY <1>6, <1>9, <1>12
-----------------------------------------------------------------------------
(***************************************************************************)
(* The recorder of a driver that has not asked for TLS keeps up with it.   *)
(***************************************************************************)

LEMMA ClientReader ==
  ASSUME Typed, Relayed, NEW c \in Connection, NEW note, Scripted(c, note), ~ AskedForTls(c),
         NEW r \in Recorder, ReaderUp(c, note, r, Done(c, "up")),
         NEW n \in 1 .. Len(wire[c]["up"])
  PROVE  LET q == onClientData(r, SubSeq(wire[c]["up"], 1, n))
         IN  q \in Recorder /\ ReaderUp(c, note, q, Done(c, "up") + n) /\ SameDown(q, r)
<1>1. PICK d \in Nat : d = Done(c, "up")
  BY DEF Relayed, Streamed
<1>2. n \in Nat
  BY DEF Relayed, Flow
<1>3. PICK h \in Nat : h = d \div 2 /\ d = 2 * h + (d % 2) /\ d % 2 \in Nat
  BY Parity
<1>4. PICK buffer \in Seq(Frame) :
        /\ buffer = r.clientBuffer /\ Len(buffer) = d % 2
        /\ \A i \in 1 .. Len(buffer) : buffer[i] = sent[c]["up"][2 * h + i]
  <2>1. r.clientBuffer \in Seq(Frame)
    BY DEF Recorder
  <2> QED BY <1>1, <1>3, <2>1, Zenon DEF ReaderUp
<1>5. PICK chunk : chunk = SubSeq(wire[c]["up"], 1, n)
  BY Zenon
<1>6. Buffered(c, buffer \o chunk, h) /\ Len(buffer \o chunk) = Len(buffer) + n
  <2>1. 2 * h + Len(buffer) = Done(c, "up")
    BY <1>1, <1>3, <1>4
  <2> QED BY <1>4, <1>5, <2>1, ChunkBuffers, Zenon
<1>6a. PICK whole : /\ whole = buffer \o chunk /\ whole \in Seq(Frame)
                    /\ Len(whole) = (d % 2) + n
  <2>1. buffer \o chunk \in Seq(Frame)
    BY <1>6 DEF Buffered
  <2>2. Len(buffer \o chunk) = (d % 2) + n
    BY <1>4, <1>6
  <2> QED BY <2>1, <2>2, Zenon
<1>6b. PICK l \in Nat : l = (d % 2) + n
  <2>1. (d % 2) + n \in Nat
    BY <1>2, <1>3
  <2> QED BY <2>1
<1>6c. PICK m \in Nat : m = l \div 2
  <2>1. l \div 2 \in Nat
    BY Parity
  <2> QED BY <2>1
<1>7. /\ whole = buffer \o chunk /\ whole \in Seq(Frame) /\ l = Len(whole)
      /\ l = (d % 2) + n /\ m = l \div 2
  BY <1>6a, <1>6b, <1>6c
<1>8. /\ 2 * h + l = d + n /\ h + m = (d + n) \div 2 /\ l % 2 = (d + n) % 2
      /\ l < 2 => m = 0
      /\ l >= 2 => m >= 1
  BY <1>2, <1>3, <1>7, HalvesAdd
<1>9. PICK s : s = [r EXCEPT !.clientBuffer = whole]
  BY Zenon
<1>10. /\ s \in Recorder /\ s.clientBuffer = whole /\ s.phase = r.phase /\ SameDown(s, r)
       /\ Holds(s, note[h])
  <2>1. Holds(r, note[h])
    BY <1>1, <1>3 DEF ReaderUp
  <2> QED BY <1>7, <1>9, <2>1, Zenon DEF Recorder, SameDown, Holds
<1>11. [r EXCEPT !.clientBuffer = @ \o chunk] = s
  BY <1>4, <1>7, <1>9
<1>12. Buffered(c, whole, h)
  BY <1>6, <1>7
<1>13. r.phase = IF h = 0 THEN "initial" ELSE "running"
  BY <1>1, <1>3 DEF ReaderUp
<1>14. PICK q : q = onClientData(r, chunk)
  OBVIOUS
<1>15. q \in Recorder /\ SameDown(q, r) /\ Holds(q, note[h + m])
       /\ q.phase = (IF h + m = 0 THEN "initial" ELSE "running")
       /\ Len(q.clientBuffer) = l % 2
       /\ \A i \in 1 .. Len(q.clientBuffer) : q.clientBuffer[i] = sent[c]["up"][2 * (h + m) + i]
  <2>1. CASE h = 0 /\ l < 2
    <3>1. q = s
      BY <1>7, <1>10, <1>11, <1>13, <1>14, <2>1, Zenon DEF onClientData, ReadStartup
    <3>2. h + m = h /\ l % 2 = l
      BY <1>8, <2>1
    <3>3. Len(q.clientBuffer) = l
      BY <1>7, <1>10, <3>1, Zenon
    <3>4. \A i \in 1 .. Len(q.clientBuffer) : q.clientBuffer[i] = sent[c]["up"][2 * (h + m) + i]
      BY <1>10, <1>12, <3>1, <3>2 DEF Buffered
    <3> QED BY <1>10, <1>13, <2>1, <3>1, <3>2, <3>3, <3>4
  <2>2. CASE h = 0 /\ ~ (l < 2)
    <3>1. q = ReadStartup(s)
      BY <1>11, <1>13, <1>14, <2>2, Zenon DEF onClientData
    <3>2. Opening(c, note, s)
      <4>1. Len(s.clientBuffer) >= 2
        <5>1. l >= 2
          BY ONLY l \in Nat, <2>2
        <5>2. l = Len(s.clientBuffer)
          BY <1>7, <1>10, Zenon
        <5> QED BY <5>1, <5>2
      <4>2. Buffered(c, s.clientBuffer, 0) /\ Holds(s, note[0])
        BY <1>10, <1>12, <2>2
      <4> QED BY <1>10, <4>1, <4>2 DEF Opening
    <3>3. StartedOn(c, note, q, s)
      BY <3>1, <3>2, StartupReads
    <3>4. h + m = m /\ m = Len(s.clientBuffer) \div 2 /\ l = Len(s.clientBuffer) /\ m # 0
      <4>1. l >= 2
        BY ONLY l \in Nat, <2>2
      <4>2. m # 0 /\ h + m = m
        BY <1>8, <2>2, <4>1
      <4>3. m = Len(s.clientBuffer) \div 2 /\ l = Len(s.clientBuffer)
        BY <1>7, <1>10, Zenon
      <4> QED BY <4>2, <4>3, Zenon
    <3>5. SameDown(q, r)
      BY <1>10, <3>3 DEF StartedOn, SameDown
    <3> QED BY <3>3, <3>4, <3>5, Zenon DEF StartedOn
  <2>3. CASE h # 0
    <3>1. q = ReadClient(s)
      BY <1>11, <1>13, <1>14, <2>3, Zenon DEF onClientData
    <3>2. Reading(c, note, s, h)
      BY <1>10, <1>12, <2>3 DEF Reading
    <3>3. ReadsOn(c, note, q, s, h)
      BY <3>1, <3>2, ReadClientReads
    <3>4. m = Len(s.clientBuffer) \div 2 /\ l = Len(s.clientBuffer) /\ h + m # 0
      <4>1. h + m # 0
        BY ONLY <2>3, h \in Nat, m \in Nat
      <4>2. m = Len(s.clientBuffer) \div 2 /\ l = Len(s.clientBuffer)
        BY <1>7, <1>10, Zenon
      <4> QED BY <4>1, <4>2, Zenon
    <3>5. SameDown(q, r)
      BY <1>10, <3>3 DEF ReadsOn, SameDown
    <3> QED BY <1>10, <1>13, <2>3, <3>3, <3>4, <3>5 DEF ReadsOn
  <2> QED BY <2>1, <2>2, <2>3
<1>16. ReaderUp(c, note, q, d + n)
  BY <1>8, <1>15, Zenon DEF ReaderUp
<1> QED BY <1>1, <1>5, <1>14, <1>15, <1>16
-----------------------------------------------------------------------------
(***************************************************************************)
(* A chunk from a driver that has asked for TLS.                           *)
(***************************************************************************)

\* How far a driver that has asked for TLS has got.
LEMMA AskedStreams ==
  ASSUME Typed, Relayed, NEW c \in Connection, NEW note, Scripted(c, note),
         Serving(c, note), AskedForTls(c), Refusing(c)
  PROVE  /\ Up(c)[1].type = "SSLRequest" /\ sent[c]["up"][1] = Up(c)[1] /\ Len(sent[c]["up"]) >= 2
         /\ Len(sent[c]["up"]) > 2 =>
              /\ Up(c)[2].type = "Startup" /\ Done(c, "down") > 0
              /\ sent[c]["up"][3] = Up(c)[2]
         /\ Done(c, "up") < 2 => Done(c, "down") = 0 /\ Len(sent[c]["up"]) = 2
<1>1. PICK frames : /\ frames = Up(c) /\ Len(frames) \in Nat
                    /\ Len(sent[c]["up"]) = 2 * Len(frames)
                    /\ \A k \in 1 .. Len(sent[c]["up"]) : sent[c]["up"][k] = frames[(k + 1) \div 2]
  BY UpFrames DEF Scripted
<1>2. frames[1].type = "SSLRequest" /\ (syncs[c] = 0 => Len(frames) = 1)
  BY <1>1 DEF Scripted
<1>3. Counts(c)
  BY StreamsCount
<1>4. Len(frames) > 0
  <2>1. sent[c]["up"] # <<>>
    BY DEF AskedForTls
  <2>2. PICK bytes \in Seq(Frame) : bytes = sent[c]["up"]
    BY DEF Typed
  <2>3. Len(bytes) > 0
    BY <2>1, <2>2
  <2> QED BY <1>1, <2>2, <2>3
<1>5. (1 + 1) \div 2 = 1 /\ (3 + 1) \div 2 = 2
  OBVIOUS
<1>6. sent[c]["up"][1] = frames[1] /\ Len(sent[c]["up"]) >= 2
  <2>1. 1 \in 1 .. 2 * Len(frames) /\ 2 * Len(frames) >= 2
    BY ONLY <1>4, <1>1
  <2> QED BY <1>1, <1>5, <2>1
<1>7. syncs[c] \in Nat
  BY DEF Typed
<1>8. syncs[c] > 0 => Done(c, "down") > 0
  <2> SUFFICES ASSUME syncs[c] > 0 PROVE Done(c, "down") > 0
    OBVIOUS
  <2>1. got[c]["down"] # <<>> /\ got[c]["down"] \in Seq(Byte)
    BY DEF Refusing, Relayed, Flow
  <2>2. Len(got[c]["down"]) > 0
    BY <2>1
  <2> QED BY <1>3, <2>2 DEF Counts
<1>9. ASSUME Len(sent[c]["up"]) > 2
      PROVE  /\ frames[2].type = "Startup" /\ Done(c, "down") > 0
             /\ sent[c]["up"][3] = frames[2]
  <2>1. Len(frames) # 1 /\ 3 \in 1 .. Len(sent[c]["up"])
    BY <1>1, <1>9
  <2>2. syncs[c] > 0
    BY <1>2, <1>7, <2>1
  <2> QED BY <1>1, <1>5, <1>8, <2>1, <2>2 DEF Refusing
<1>10. ASSUME Done(c, "up") < 2 PROVE Done(c, "down") = 0 /\ Len(sent[c]["up"]) = 2
  <2>1. served[c] = 0
    <3>1. /\ served[c] \in Nat /\ 2 * served[c] <= Len(got[c]["up"])
          /\ Len(got[c]["up"]) \in Nat /\ Len(got[c]["up"]) < 2
      BY <1>3, <1>10, SMTT(30) DEF Typed, Serving, Counts
    <3> QED BY ONLY <3>1
  <2>2. Len(sent[c]["down"]) = 0
    BY <2>1 DEF Refusing
  <2>3. Done(c, "down") = 0
    BY <1>3, <2>2 DEF Counts
  <2>4. syncs[c] = 0
    BY <1>7, <1>8, <2>3
  <2>5. Len(sent[c]["up"]) = 2 * Len(frames)
    BY <1>1
  <2>6. Len(frames) = 1
    BY <1>2, <2>4
  <2> QED BY <2>3, <2>5, <2>6
<1> QED BY <1>1, <1>2, <1>6, <1>9, <1>10

LEMMA ClientUnreads ==
  ASSUME Typed, Relayed, NEW c \in Connection, NEW note, Scripted(c, note),
         Serving(c, note), AskedForTls(c), Refusing(c),
         NEW r \in Recorder, UnreadingAt(c, r, Done(c, "up"), Done(c, "down")),
         NEW n \in 1 .. Len(wire[c]["up"])
  PROVE  LET q == onClientData(r, SubSeq(wire[c]["up"], 1, n))
         IN  /\ q \in Recorder /\ UnreadingAt(c, q, Done(c, "up") + n, Done(c, "down"))
             /\ q.serverBuffer = r.serverBuffer /\ q.completed = r.completed
<1>1. PICK d \in Nat : d = Done(c, "up")
  BY DEF Relayed, Streamed
<1>2. n \in Nat /\ n > 0 /\ d + n <= Len(sent[c]["up"])
  <2>1. /\ Len(wire[c]["up"]) \in Nat /\ Len(sent[c]["up"]) = d + Len(wire[c]["up"])
    BY <1>1 DEF Relayed, Flow, Streamed
  <2> QED BY <2>1
<1>3. /\ Up(c)[1].type = "SSLRequest" /\ sent[c]["up"][1] = Up(c)[1]
      /\ Len(sent[c]["up"]) > 2 =>
            /\ Up(c)[2].type = "Startup" /\ Done(c, "down") > 0 /\ sent[c]["up"][3] = Up(c)[2]
      /\ d < 2 => Done(c, "down") = 0 /\ Len(sent[c]["up"]) = 2
  BY <1>1, AskedStreams
<1>4. PICK chunk, q : chunk = SubSeq(wire[c]["up"], 1, n) /\ q = onClientData(r, chunk)
  BY Zenon
<1>5. PICK buffer \in Seq(Frame) : buffer = r.clientBuffer
  BY DEF Recorder
<1>6. ASSUME NEW h \in Nat, 2 * h + Len(buffer) = d,
             \A i \in 1 .. Len(buffer) : buffer[i] = sent[c]["up"][2 * h + i]
      PROVE  Buffered(c, buffer \o chunk, h) /\ Len(buffer \o chunk) = Len(buffer) + n
  <2>1. 2 * h + Len(buffer) = Done(c, "up")
    BY <1>1, <1>6
  <2> QED BY <1>4, <1>6, <2>1, ChunkBuffers, Zenon
<1>b. UnreadingAt(c, r, d, Done(c, "down"))
  BY <1>1
<1>7. CASE r.phase = "encrypted"
  <2>1. q = r
    BY <1>4, <1>7 DEF onClientData
  <2>2. UnreadingAt(c, r, d + n, Done(c, "down"))
    BY <1>b, <1>2, <1>7 DEF UnreadingAt
  <2> QED BY <1>1, <1>4, <2>1, <2>2
<1>8. CASE r.phase = "awaiting-ssl-reply"
  <2>1. d >= 2 /\ Done(c, "down") = 0
    BY <1>b, <1>8 DEF UnreadingAt
  <2>2. Len(sent[c]["up"]) > 2
    <3>1. Len(sent[c]["up"]) \in Nat
      BY DEF Typed
    <3> QED BY <1>2, <2>1, <3>1
  <2> QED BY <1>3, <2>1, <2>2
<1>9. CASE r.phase = "initial"
  <2>1. /\ Len(buffer) = d /\ d < 2 /\ r.serverBuffer = <<>>
        /\ \A i \in 1 .. Len(buffer) : buffer[i] = sent[c]["up"][i]
    BY <1>b, <1>5, <1>9 DEF UnreadingAt
  <2>2. Done(c, "down") = 0 /\ Len(sent[c]["up"]) = 2 /\ d + n <= 2
    BY <1>2, <1>3, <2>1
  <2>3. Buffered(c, buffer \o chunk, 0) /\ Len(buffer \o chunk) = d + n
    <3>1. 2 * 0 + Len(buffer) = d /\ 0 \in Nat
      BY <2>1
    <3>2. \A i \in 1 .. Len(buffer) : buffer[i] = sent[c]["up"][2 * 0 + i]
      BY <2>1
    <3> QED BY <1>6, <2>1, <3>1, <3>2
  <2>4. PICK whole \in Seq(Frame) :
          /\ whole = buffer \o chunk /\ Len(whole) = d + n
          /\ \A i \in 1 .. Len(whole) : whole[i] = sent[c]["up"][i]
    <3>1. buffer \o chunk \in Seq(Frame)
      BY <2>3 DEF Buffered
    <3>2. \A i \in 1 .. Len(buffer \o chunk) : (buffer \o chunk)[i] = sent[c]["up"][2 * 0 + i]
      BY <2>3 DEF Buffered
    <3>3. \A i \in 1 .. Len(buffer \o chunk) : (buffer \o chunk)[i] = sent[c]["up"][i]
      <4> TAKE i \in 1 .. Len(buffer \o chunk)
      <4>1. 2 * 0 + i = i
        OBVIOUS
      <4> QED BY <3>2, <4>1
    <3> QED BY <2>3, <3>1, <3>3, Zenon
  <2>5. PICK s : s = [r EXCEPT !.clientBuffer = whole]
    BY Zenon
  <2>6. /\ s \in Recorder /\ s.clientBuffer = whole /\ s.phase = "initial"
        /\ s.serverBuffer = <<>> /\ s.sql = r.sql /\ s.completed = r.completed
    BY <1>9, <2>1, <2>5, Zenon DEF Recorder
  <2>7. q = ReadStartup(s)
    BY <1>4, <1>5, <1>9, <2>4, <2>5 DEF onClientData
  <2>8. CASE d + n < 2
    <3>1. q = s
      BY <2>4, <2>6, <2>7, <2>8 DEF ReadStartup
    <3>2. UnreadingAt(c, s, d + n, Done(c, "down"))
      BY <1>b, <2>1, <2>4, <2>6, <2>8 DEF UnreadingAt
    <3> QED BY <1>1, <1>4, <2>1, <2>6, <3>1, <3>2
  <2>9. CASE ~ (d + n < 2)
    <3>1. d + n = 2
      BY ONLY <1>2, <2>2, <2>9, d \in Nat
    <3>2. Head(whole) = sent[c]["up"][1] /\ Len(whole) = 2
      <4>1. Len(whole) = 2 /\ 1 \in 1 .. Len(whole)
        BY <2>4, <3>1
      <4>2. Head(whole) = whole[1]
        BY <4>1
      <4> QED BY <2>4, <4>1, <4>2
    <3>3. SubSeq(whole, 3, 2) = <<>>
      OBVIOUS
    <3>4. q = [[s EXCEPT !.clientBuffer = <<>>] EXCEPT !.phase = "awaiting-ssl-reply"]
      <4>1. ~ (Len(s.clientBuffer) < 2) /\ Head(s.clientBuffer).type = "SSLRequest"
        BY <1>3, <2>6, <3>2
      <4>2. SubSeq(s.clientBuffer, 3, Len(s.clientBuffer)) = <<>>
        BY <2>6, <3>2, <3>3
      <4> QED BY <2>7, <4>1, <4>2, Zenon DEF ReadStartup
    <3>5. /\ q \in Recorder /\ q.clientBuffer = <<>> /\ q.phase = "awaiting-ssl-reply"
          /\ q.serverBuffer = <<>> /\ q.sql = r.sql /\ q.completed = r.completed
      <4>1. PICK t : t = [s EXCEPT !.clientBuffer = <<>>]
        BY Zenon
      <4>2. /\ t \in Recorder /\ t.clientBuffer = <<>> /\ t.serverBuffer = <<>>
            /\ t.sql = r.sql /\ t.completed = r.completed
        <5>1. <<>> \in Seq(Frame)
          OBVIOUS
        <5> QED BY <2>6, <4>1, <5>1, Zenon DEF Recorder
      <4>3. q = [t EXCEPT !.phase = "awaiting-ssl-reply"]
        BY <3>4, <4>1
      <4> QED BY <4>2, <4>3, Zenon DEF Recorder
    <3>6. UnreadingAt(c, q, d + n, Done(c, "down"))
      BY <1>b, <2>1, <2>2, <3>1, <3>5 DEF UnreadingAt
    <3> QED BY <1>1, <1>4, <2>1, <3>5, <3>6
  <2> QED BY <2>8, <2>9
<1>10. CASE r.phase = "running"
  <2>1. /\ d >= 2 /\ d + n >= 2 /\ r.serverBuffer \in Seq(Numbered(RunOn(c)))
        /\ Done(c, "down") > 0 /\ Len(r.serverBuffer) = (Done(c, "down") - 1) % 2
    BY <1>b, <1>2, <1>10 DEF UnreadingAt
  <2>2. PICK whole \in Seq(Frame) : whole = buffer \o chunk
    <3>1. SubSeq(wire[c]["up"], 1, n) \in Seq(Frame)
      <4>1. PICK bytes \in Seq(Frame) : bytes = wire[c]["up"]
        BY UnreadFrames DEF Typed
      <4>2. 1 \in Int /\ n \in Int /\ \A i \in 1 .. n : bytes[i] \in Frame
        BY <4>1
      <4>3. SubSeq(bytes, 1, n) \in Seq(Frame)
        BY ONLY <4>2, SubSeqProperties
      <4> QED BY <4>1, <4>3
    <3>2. buffer \o chunk \in Seq(Frame)
      BY <1>4, <3>1, ConcatProperties
    <3> QED BY <3>2
  <2>3. PICK s : s = [r EXCEPT !.clientBuffer = whole]
    BY Zenon
  <2>4. /\ s \in Recorder /\ s.clientBuffer = whole /\ s.phase = "running" /\ s.sql = r.sql
        /\ s.serverBuffer = r.serverBuffer /\ s.completed = r.completed
    BY <1>10, <2>3, Zenon DEF Recorder
  <2>5. q = ReadClient(s)
    BY <1>4, <1>5, <1>10, <2>2, <2>3 DEF onClientData
  <2>6. PICK frames \in Seq(Frame), rest \in Seq(Frame) :
          frames = Frames(whole) /\ rest = Unread(whole)
    BY FramesTyped
  <2>7. PICK t : t = [s EXCEPT !.clientBuffer = rest]
    BY Zenon
  <2>8. /\ t \in Recorder /\ t.phase = "running"
        /\ t.serverBuffer = r.serverBuffer /\ t.completed = r.completed
    BY <2>4, <2>7, Zenon DEF Recorder
  <2>9. q = AfterClient(t, frames)
    BY <2>4, <2>5, <2>6, <2>7, ReadsAre, Zenon
  <2>10. CASE Astray(c)
    <3>1. AfterClient(t, frames) \in Recorder /\ SameBeside(AfterClient(t, frames), t)
      <4>1. 0 \in Nat
        OBVIOUS
      <4> QED BY <2>8, <4>1, HoldsAllAfter
    <3>2. /\ q \in Recorder /\ q.phase = "running"
          /\ q.serverBuffer = r.serverBuffer /\ q.completed = r.completed
      BY <2>8, <2>9, <3>1 DEF SameBeside
    <3>3. UnreadingAt(c, q, d + n, Done(c, "down"))
      BY <2>1, <2>10, <3>2 DEF UnreadingAt
    <3> QED BY <1>1, <1>4, <3>2, <3>3
  <2>11. CASE ~ Astray(c)
    <3>1. /\ Len(buffer) = d - 2 /\ r.sql = NoSql
          /\ \A i \in 1 .. Len(buffer) : buffer[i] = sent[c]["up"][2 + i]
      BY <1>b, <1>5, <1>10, <2>11 DEF UnreadingAt
    <3>2. Buffered(c, whole, 1) /\ Len(whole) = d + n - 2
      <4>1. 2 * 1 + Len(buffer) = d /\ 1 \in Nat /\ Len(buffer) + n = d + n - 2
        BY <1>2, <2>1, <3>1
      <4>2. \A i \in 1 .. Len(buffer) : buffer[i] = sent[c]["up"][2 * 1 + i]
        BY <3>1
      <4> QED BY <1>6, <2>2, <4>1, <4>2, Zenon
    <3>3. \A i \in 1 .. Len(whole) : whole[i] = sent[c]["up"][2 + i]
      <4> TAKE i \in 1 .. Len(whole)
      <4>1. 2 * 1 + i = 2 + i
        OBVIOUS
      <4> QED BY <3>2, <4>1 DEF Buffered
    <3>4. /\ Len(sent[c]["up"]) \in Nat /\ Len(sent[c]["up"]) < MisreadLength + 2
          /\ MisreadLength \in Nat
      BY <2>11, MisreadAssumption DEF Astray, Typed
    <3>5. Len(whole) < MisreadLength /\ Len(whole) > 0 /\ Len(sent[c]["up"]) > 2
      BY <1>2, <2>1, <3>2, <3>4
    <3>6. Misread(whole)
      <4>1. 1 \in 1 .. Len(whole) /\ 2 + 1 = 3
        BY <3>5
      <4>2. whole # <<>> /\ Head(whole) = whole[1]
        BY <3>5
      <4> QED BY <1>3, <3>3, <3>5, <4>1, <4>2 DEF Misread
    <3>7. rest = whole /\ frames = <<>>
      <4>1. SubSeq(whole, MisreadLength + 1, Len(whole)) = <<>>
        BY <3>4, <3>5
      <4>2. Framed(<<>>) = <<>>
        BY DEF Framed
      <4> QED BY <2>6, <3>5, <3>6, <4>1, <4>2 DEF Unread, Frames, Behind
    <3>8. t = s
      BY <2>4, <2>7, <3>7 DEF Recorder
    <3>9. Len(<<>>) = 0
      OBVIOUS
    <3>10. q = s
      BY <2>9, <3>7, <3>8, <3>9, ClientFrames
    <3>11. UnreadingAt(c, s, d + n, Done(c, "down"))
      BY <2>1, <2>4, <3>1, <3>2, <3>3, SMTT(30) DEF UnreadingAt
    <3> QED BY <1>1, <1>4, <2>4, <3>10, <3>11
  <2> QED BY <2>10, <2>11
<1>11. r.phase \in {"initial", "awaiting-ssl-reply", "running", "encrypted"}
  BY DEF Recorder
<1> QED BY <1>7, <1>8, <1>9, <1>10, <1>11
-----------------------------------------------------------------------------
(***************************************************************************)
(* The proxy reads a chunk of either side.                                 *)
(***************************************************************************)

\* n elements that d has on the wire are read.
Chunked(c, d, n) ==
    /\ n \in 1 .. Len(wire[c][d])
    /\ wire' = [wire EXCEPT ![c][d] = SubSeq(@, n + 1, Len(@))]
    /\ UNCHANGED <<bridge, got, ended, sent, serverVars, driverVars>>

LEMMA ChunkPasses ==
  ASSUME Relayed, NEW c \in Connection, NEW d \in {"up", "down"}, NEW n, Chunked(c, d, n)
  PROVE  /\ Passes(c) /\ bridge[c] = "open" /\ n \in Nat /\ n > 0
         /\ \A b \in Connection : b # c => wire'[b] = wire[b]
         /\ Done(c, d)' = Done(c, d) + n
         /\ \A e \in {"up", "down"} : e # d => Done(c, e)' = Done(c, e)
<1>1. /\ wire' = [wire EXCEPT ![c][d] = SubSeq(@, n + 1, Len(@))] /\ n \in 1 .. Len(wire[c][d])
      /\ UNCHANGED <<bridge, got, sent, serverVars, driverVars>>
  BY DEF Chunked
<1>2. /\ wire \in Flow /\ wire[c][d] \in Seq(Byte)
      /\ bridge[c] \in {"open", "closed"} /\ (bridge[c] = "closed" => wire[c][d] = <<>>)
      /\ Done(c, d) \in Nat /\ Len(sent[c][d]) = Done(c, d) + Len(wire[c][d])
  BY DEF Relayed, Flow, Streamed
<1>3. PICK bytes \in Seq(Byte), l \in Nat : bytes = wire[c][d] /\ l = Len(bytes)
  BY <1>2
<1>4. n \in Nat /\ n > 0 /\ n <= l /\ l > 0
  BY <1>1, <1>3
<1>5. bridge[c] = "open"
  <2>1. bytes # <<>>
    BY <1>3, <1>4
  <2> QED BY <1>2, <1>3, <2>1
<1>6. PICK rest : rest = SubSeq(bytes, n + 1, l) /\ Len(rest) = l - n
  <2>1. Len(SubSeq(bytes, n + 1, l)) = l - n
    <3>1. /\ n + 1 \in Int /\ l \in Int /\ \A i \in n + 1 .. l : bytes[i] \in Byte
      BY <1>3, <1>4
    <3>2. Len(SubSeq(bytes, n + 1, l)) = IF n + 1 <= l THEN l - (n + 1) + 1 ELSE 0
      BY ONLY <3>1, SubSeqProperties
    <3> QED BY ONLY <1>4, <3>2, l \in Nat
  <2> QED BY <2>1, Zenon
<1>7. /\ wire'[c][d] = rest
      /\ \A e \in {"up", "down"} : e # d => wire'[c][e] = wire[c][e]
      /\ \A b \in Connection : b # c => wire'[b] = wire[b]
  BY <1>1, <1>2, <1>3, <1>6 DEF Flow
<1>8. Done(c, d)' = Done(c, d) + n
  <2>1. PICK u, w : u \in Nat /\ u = Done(c, d) /\ w = Len(sent[c][d]) /\ w = u + l
    BY <1>2, <1>3, Zenon
  <2>2. Done(c, d)' = w - (l - n)
    BY <1>1, <1>6, <1>7, <2>1, Zenon DEF Done
  <2>3. w - (l - n) = u + n
    BY ONLY <1>4, <2>1, l \in Nat, u \in Nat, w = u + l
  <2> QED BY <2>1, <2>2, <2>3
<1>9. \A e \in {"up", "down"} : e # d => Done(c, e)' = Done(c, e)
  BY <1>1, <1>7 DEF Done
<1>10. \A e \in {"up", "down"} : /\ Len(got[c][e]) <= Len(got'[c][e])
                                 /\ Done(c, e) <= Done(c, e)'
  <2> TAKE e \in {"up", "down"}
  <2>1. Len(got[c][e]) \in Nat /\ Done(c, e) \in Nat /\ got' = got
    BY <1>1 DEF Relayed, Flow, Streamed
  <2>2. Done(c, e)' = Done(c, e) \/ Done(c, e)' = Done(c, e) + n
    BY <1>8, <1>9
  <2> QED BY <1>4, <2>1, <2>2
<1> QED BY <1>1, <1>4, <1>5, <1>7, <1>8, <1>9, <1>10 DEF Passes

LEMMA ClientDataKeeps ==
  ASSUME Relayed, Relayed', IInv, NEW c \in Connection, Proxy!ClientData(c),
         UNCHANGED <<serverVars, driverVars>>
  PROVE  IInv'
<1>1. PICK n : /\ Chunked(c, "up", n) /\ n \in 1 .. Len(wire[c]["up"])
               /\ recorder' = [recorder EXCEPT
                        ![c] = onClientData(@, SubSeq(wire[c]["up"], 1, n))]
  BY Zenon DEF Proxy!ClientData, Proxy!Forward, Chunked
<1>2. /\ Passes(c) /\ bridge[c] = "open" /\ n \in Nat /\ n > 0
      /\ \A b \in Connection : b # c => wire'[b] = wire[b]
      /\ Done(c, "up")' = Done(c, "up") + n /\ Done(c, "down")' = Done(c, "down")
  BY <1>1, ChunkPasses
<1>3. UNCHANGED <<bridge, got, sent, interactions>>
  BY DEF Proxy!ClientData
<1>4. Typed /\ Matched(interactions) /\ Rising(interactions)
  BY DEF IInv
<1>5. PICK note, shown : Connected(c, note, shown)
  BY DEF IInv
<1>6. /\ Scripted(c, note)' /\ Serving(c, note)'
      /\ ~ AskedForTls(c) => Spoken(c, note, shown)' /\ Single(c, note)' /\ Lately(c, note)'
      /\ Heard(c)' \in Nat
  BY <1>2, <1>4, <1>5, PassesLeaves
<1>7. /\ Up(c)' = Up(c) /\ Down(c)' = Down(c) /\ (AskedForTls(c)' <=> AskedForTls(c))
      /\ executed' = executed /\ (Astray(c)' <=> Astray(c)) /\ RunOn(c)' = RunOn(c)
  BY <1>2, PassesSame DEF RunOn
<1>8. Scripted(c, note) /\ Serving(c, note) /\ Heard(c)' = Heard(c)
  BY <1>2, <1>5 DEF Connected, Heard
<1>9. PICK r, q : r = recorder[c] /\ q = onClientData(r, SubSeq(wire[c]["up"], 1, n))
  OBVIOUS
<1>10. /\ r \in Recorder /\ r.completed = <<>> /\ recorder'[c] = q
       /\ \A b \in Connection : b # c => recorder'[b] = recorder[b]
       /\ q \in Recorder => recorder' \in [Connection -> Recorder]
  BY <1>1, <1>4, <1>9 DEF Typed
<1>11. ASSUME AskedForTls(c)
       PROVE  Connected(c, note, shown)' /\ q \in Recorder /\ q.completed = <<>>
  <2>1. Refusing(c) /\ Unreading(c) /\ Len(r.serverBuffer) < 2
    BY <1>2, <1>5, <1>9, <1>11 DEF Connected, Refusing
  <2>2. UnreadingAt(c, r, Done(c, "up"), Done(c, "down"))
    BY <1>9, <2>1 DEF Unreading, UnreadingAt
  <2>3. /\ q \in Recorder /\ UnreadingAt(c, q, Done(c, "up") + n, Done(c, "down"))
        /\ q.serverBuffer = r.serverBuffer /\ q.completed = r.completed
    BY <1>1, <1>4, <1>8, <1>9, <1>10, <1>11, <2>1, <2>2, ClientUnreads
  <2>4. Unreading(c)'
    <3>1. PICK d : d = Done(c, "up") + n
      OBVIOUS
    <3>2. Done(c, "up")' = d /\ UnreadingAt(c, q, d, Done(c, "down"))
      BY <1>2, <2>3, <3>1
    <3> QED BY <1>2, <1>3, <1>7, <1>10, <3>2 DEF Unreading, UnreadingAt
  <2>5. Refusing(c)'
    BY <1>2, <1>10, <2>1, <2>3, <2>4, PassesRefusing
  <2> QED BY <1>6, <1>7, <1>10, <1>11, <2>3, <2>5 DEF Connected
<1>12. ASSUME ~ AskedForTls(c)
       PROVE  Connected(c, note, shown)' /\ q \in Recorder /\ q.completed = <<>>
  <2>1. Answering(c, note, shown)
    BY <1>5, <1>12 DEF Connected
  <2>2. Reader(c, note, shown) /\ Listed(c) /\ Len(r.serverBuffer) < 2
    BY <1>2, <1>9, <2>1 DEF Answering
  <2>3. ReaderUp(c, note, r, Done(c, "up"))
    BY <1>9, <2>2 DEF Reader, ReaderUp, Holds, Read
  <2>4. q \in Recorder /\ ReaderUp(c, note, q, Done(c, "up") + n) /\ SameDown(q, r)
    BY <1>1, <1>4, <1>8, <1>9, <1>10, <1>12, <2>3, ClientReader
  <2>5. Reader(c, note, shown)'
    <3>1. PICK d, h : d = Done(c, "up") + n /\ h = d \div 2
      OBVIOUS
    <3>2. Done(c, "up")' = d /\ Read(c)' = h
      BY <1>2, <3>1 DEF Read
    <3>3. /\ Len(q.clientBuffer) = d % 2
          /\ \A i \in 1 .. Len(q.clientBuffer) : q.clientBuffer[i] = sent[c]["up"][2 * h + i]
          /\ q.phase = (IF h = 0 THEN "initial" ELSE "running") /\ Holds(q, note[h])
      BY <2>4, <3>1 DEF ReaderUp
    <3>4. /\ Len(q.serverBuffer) = Done(c, "down") % 2
          /\ \A i \in 1 .. Len(q.serverBuffer) :
                    q.serverBuffer[i] = sent[c]["down"][2 * Heard(c) + i]
          /\ q.columns = shown[Heard(c)].columns /\ q.rows = shown[Heard(c)].rows
      BY <1>9, <2>2, <2>4 DEF Reader, SameDown
    <3> QED BY <1>2, <1>3, <1>8, <1>10, <3>2, <3>3, <3>4 DEF Reader, Holds
  <2>6. Listed(c)'
    <3>1. Kept(c, interactions', Heard(c)') /\ Ahead(c, interactions', Heard(c)')
      BY <1>2, <1>3, <1>8, <2>2 DEF Listed
    <3> QED BY <1>2, <1>6, <3>1, ListedPasses
  <2>7. Len(recorder'[c].serverBuffer) < 2 /\ q.completed = <<>>
    BY <1>10, <2>2, <2>4 DEF SameDown
  <2>8. Answering(c, note, shown)'
    BY <1>6, <1>12, <2>5, <2>6, <2>7 DEF Answering
  <2> QED BY <1>6, <1>7, <1>12, <2>4, <2>7, <2>8 DEF Connected
<1>13. Connected(c, note, shown)' /\ q \in Recorder /\ q.completed = <<>>
  BY <1>11, <1>12
<1>14. Passed(c, <<>>)
  <2>1. <<>> \in Seq(Interaction) /\ interactions' = interactions \o <<>> /\ Len(<<>>) = 0
    BY <1>3, <1>4 DEF Typed
  <2>2. recorder' \in [Connection -> Recorder] /\ recorder'[c].completed = <<>>
    BY <1>10, <1>13
  <2>3. Matched(interactions') /\ Rising(interactions')
    BY <1>3, <1>4
  <2> QED BY <1>2, <1>3, <1>10, <1>13, <2>1, <2>2, <2>3 DEF Passed
<1> QED BY <1>14, PassedKeeps
-----------------------------------------------------------------------------
(***************************************************************************)
(* A frame of the server, as the recorder reads it.                        *)
(***************************************************************************)

\* A list that holds the results among the first h frames, in their order.
Lists(c, list, h) ==
    /\ list \in Seq(Interaction) /\ Matched(list) /\ Rising(list)
    /\ Kept(c, list, h) /\ Ahead(c, list, h)

\* The interaction of the frame h + 1.
IsOf(c, x, h) ==
    /\ x \in Interaction /\ Sound(x) /\ executed[Ser(x)].on = c
    /\ Closes(Down(c)[h + 1]) /\ Ser(x) = SerialOf(Down(c)[h + 1])

LEMMA ListGrows ==
  ASSUME Typed, NEW c \in Connection, NEW shown, NEW list, NEW h \in Nat, NEW x,
         Down(c) \in Seq(ServerFrame), h + 1 <= Len(Down(c)), Resulted(c, Down(c), shown),
         Lists(c, list, h), IsOf(c, x, h)
  PROVE  Lists(c, Append(list, x), h + 1)
<1>1. /\ list \in Seq(Interaction) /\ Matched(list) /\ Rising(list)
      /\ Kept(c, list, h) /\ Ahead(c, list, h)
  BY DEF Lists
<1>2. /\ x \in Interaction /\ Sound(x) /\ executed[Ser(x)].on = c
      /\ Closes(Down(c)[h + 1]) /\ Ser(x) = SerialOf(Down(c)[h + 1])
  BY DEF IsOf
<1>3. PICK M \in Nat : M = Len(Down(c)) /\ h + 1 \in 1 .. M
  OBVIOUS
<1>4. PICK L \in Nat : L = Len(list)
  BY <1>1
<1>5. PICK more : /\ more = Append(list, x) /\ more \in Seq(Interaction) /\ Len(more) = L + 1
                  /\ more[L + 1] = x /\ \A k \in 1 .. L : more[k] = list[k]
  <2>1. /\ Append(list, x) \in Seq(Interaction) /\ Len(Append(list, x)) = L + 1
        /\ Append(list, x)[L + 1] = x /\ \A k \in 1 .. L : Append(list, x)[k] = list[k]
    BY <1>1, <1>2, <1>4
  <2> QED BY <2>1, Zenon
<1>6. \A k \in 1 .. L + 1 : k \in 1 .. L \/ k = L + 1
  BY <1>4
<1>7. Matched(more)
  BY <1>1, <1>2, <1>4, <1>5, <1>6 DEF Matched
<1>8. \A k \in 1 .. L : executed[Ser(list[k])].on = c => Ser(list[k]) < Ser(x)
  BY <1>1, <1>2, <1>3, <1>4 DEF Ahead
<1>9. Rising(more)
  <2> SUFFICES ASSUME NEW j \in 1 .. Len(more), NEW k \in 1 .. Len(more), j < k,
                      executed[Ser(more[j])].on = executed[Ser(more[k])].on,
                      ~ Astray(executed[Ser(more[k])].on)
               PROVE  Ser(more[j]) < Ser(more[k])
    BY Zenon DEF Rising
  <2>1. j \in 1 .. L /\ more[j] = list[j]
    BY <1>4, <1>5
  <2>2. CASE k \in 1 .. L
    BY <1>1, <1>4, <1>5, <2>1, <2>2 DEF Rising
  <2>3. CASE k = L + 1
    BY <1>2, <1>5, <1>8, <2>1, <2>3
  <2> QED BY <1>5, <1>6, <2>2, <2>3
<1>10. Kept(c, more, h + 1)
  <2> SUFFICES ASSUME NEW j \in 1 .. Len(Down(c)), j <= h + 1, Closes(Down(c)[j])
               PROVE  InList(more, SerialOf(Down(c)[j]))
    BY DEF Kept
  <2>1. CASE j = h + 1
    <3>1. L + 1 \in 1 .. Len(more)
      BY <1>4, <1>5
    <3> QED BY <1>2, <1>5, <2>1, <3>1 DEF InList
  <2>2. CASE j # h + 1
    <3>1. j <= h
      BY <2>2
    <3>2. InList(list, SerialOf(Down(c)[j]))
      BY <1>1, <3>1 DEF Kept
    <3>3. PICK k \in 1 .. L : Ser(list[k]) = SerialOf(Down(c)[j])
      BY <1>4, <3>2 DEF InList
    <3>4. k \in 1 .. Len(more) /\ more[k] = list[k]
      BY <1>4, <1>5
    <3> QED BY <3>3, <3>4 DEF InList
  <2> QED BY <2>1, <2>2
<1>11. Ahead(c, more, h + 1)
  <2> SUFFICES ASSUME NEW j \in (h + 1) + 1 .. Len(Down(c)), Closes(Down(c)[j]),
                      NEW k \in 1 .. Len(more), executed[Ser(more[k])].on = c
               PROVE  Ser(more[k]) < SerialOf(Down(c)[j])
    BY DEF Ahead
  <2>1. j \in h + 1 .. Len(Down(c)) /\ j \in 1 .. M /\ h + 1 < j
    BY <1>3
  <2>2. CASE k \in 1 .. L
    BY <1>1, <1>4, <1>5, <2>1, <2>2 DEF Ahead
  <2>3. CASE k = L + 1
    <3>1. SerialOf(Down(c)[h + 1]) < SerialOf(Down(c)[j])
      BY <1>2, <1>3, <2>1 DEF Resulted
    <3> QED BY <1>2, <1>5, <2>3, <3>1
  <2> QED BY <1>5, <1>6, <2>2, <2>3
<1> QED BY <1>5, <1>7, <1>9, <1>10, <1>11 DEF Lists

\* Whatever frame is read that is no result, the list is as far.
LEMMA ListStands ==
  ASSUME NEW c \in Connection, NEW list, NEW h \in Nat, Len(Down(c)) \in Nat, Lists(c, list, h),
         ~ Closes(Down(c)[h + 1])
  PROVE  Lists(c, list, h + 1)
<1>1. \A j \in 1 .. Len(Down(c)) : j <= h + 1 /\ Closes(Down(c)[j]) => j <= h
  <2>1. \A j \in 1 .. Len(Down(c)) : j <= h + 1 => j <= h \/ j = h + 1
    OBVIOUS
  <2> QED BY <2>1
<1>2. \A j \in (h + 1) + 1 .. Len(Down(c)) : j \in h + 1 .. Len(Down(c))
  OBVIOUS
<1> QED BY <1>1, <1>2 DEF Lists, Kept, Ahead

\* The statement a recorder holds is one that has the results it reads next.
Answerable(c, r) ==
    \A j \in Heard(c) + 1 .. Len(Down(c)) : Closes(Down(c)[j]) =>
        /\ r.sql \in Sql /\ r.sql # NoSql /\ r.params \in Params
        /\ \E m \in 1 .. Len(asked[c]) : r.sql = asked[c][m][1]
        /\ r.params = NoParams \/ \E m \in 1 .. Len(asked[c]) : r.params = asked[c][m][2]
        /\ c \notin Pipelining =>
                LET run == executed[SerialOf(Down(c)[j])]
                IN  r.sql = run.call[1] /\ (run.bound => r.params = run.call[2])

LEMMA ReaderAnswerable ==
  ASSUME Typed, Relayed, NEW c \in Connection, NEW note, Scripted(c, note), Serving(c, note),
         Lately(c, note), NEW r \in Recorder, Holds(r, note[Read(c)])
  PROVE  Answerable(c, r)
<1>1. Counts(c) /\ Len(Up(c)) \in Nat /\ Len(sent[c]["up"]) = 2 * Len(Up(c))
  BY StreamsCount, UpFrames DEF Scripted
<1>2. Read(c) \in Nat /\ Read(c) <= Len(Up(c))
  BY <1>1, ReadWritten
<1>3. served[c] \in Nat /\ served[c] <= Read(c)
  <2>1. PICK d \in Nat, s \in Nat : d = Done(c, "up") /\ s = served[c] /\ 2 * s <= d
    <3>1. /\ served[c] \in Nat /\ 2 * served[c] <= Len(got[c]["up"])
          /\ Len(got[c]["up"]) \in Nat /\ Done(c, "up") \in Nat
          /\ Len(got[c]["up"]) <= Done(c, "up")
      BY <1>1, Zenon DEF Typed, Serving, Counts
    <3>2. 2 * served[c] <= Done(c, "up")
      BY <3>1
    <3> QED BY <3>1, <3>2
  <2>2. s <= d \div 2
    BY ONLY d \in Nat, s \in Nat, <2>1
  <2> QED BY <2>1, <2>2 DEF Read
<1>4. PICK i : i = Read(c) /\ i \in served[c] .. Len(Up(c)) /\ i \in 0 .. Len(Up(c))
  BY <1>1, <1>2, <1>3
<1>5. note[i] \in Note /\ Meant(note[i], asked[c]) /\ asked[c] \in Seq(Sql \X Params)
  BY <1>4 DEF Scripted, Leads, Typed
<1>6. r.sql = note[i].sql /\ r.params = note[i].params /\ r.params \in Params
  BY <1>4 DEF Holds, Recorder
<1>7. ASSUME NEW j \in Heard(c) + 1 .. Len(Down(c)), Closes(Down(c)[j])
      PROVE  /\ r.sql \in Sql /\ r.sql # NoSql /\ r.params \in Params
             /\ \E m \in 1 .. Len(asked[c]) : r.sql = asked[c][m][1]
             /\ r.params = NoParams \/ \E m \in 1 .. Len(asked[c]) : r.params = asked[c][m][2]
             /\ c \notin Pipelining =>
                    LET run == executed[SerialOf(Down(c)[j])]
                    IN  r.sql = run.call[1] /\ (run.bound => r.params = run.call[2])
  <2>1. /\ note[i].nth > 0
        /\ c \notin Pipelining =>
              LET run == executed[SerialOf(Down(c)[j])]
              IN  note[i].sql = run.call[1] /\ (run.bound => note[i].params = run.call[2])
    BY <1>4, <1>7 DEF Lately
  <2>2. PICK m \in 1 .. Len(asked[c]) : m = note[i].nth
    <3>1. note[i].nth \in Nat /\ note[i].nth <= Len(asked[c]) /\ Len(asked[c]) \in Nat
      BY <1>5 DEF Note, Meant
    <3> QED BY <2>1, <3>1
  <2>3. note[i].sql = asked[c][m][1]
    <3>1. note[i].nth # 0
      BY <2>1
    <3> QED BY <1>5, <2>2, <3>1 DEF Meant
  <2>4. asked[c][m][1] \in Sql
    BY <1>5, <2>2
  <2>5. r.params = NoParams \/ \E k \in 1 .. Len(asked[c]) : r.params = asked[c][k][2]
    BY <1>5, <1>6 DEF Meant
  <2>6. r.sql \in Sql /\ r.sql # NoSql /\ r.sql = asked[c][m][1]
    BY <1>6, <2>3, <2>4, StatementAssumption
  <2> QED BY <1>6, <2>1, <2>2, <2>5, <2>6
<1> QED BY <1>7 DEF Answerable
-----------------------------------------------------------------------------
(***************************************************************************)
(* The frames of the server, one after the other.                          *)
(***************************************************************************)

Hears(c, shown, r) ==
    /\ Down(c) \in Seq(ServerFrame) /\ Tells(Down(c), shown) /\ Resulted(c, Down(c), shown)
    /\ Answerable(c, r) /\ Heard(c) \in Nat

\* But for what it makes of the server's frames, a recorder is what it was.
SameUp(q, r) ==
    /\ q.sql = r.sql /\ q.params = r.params /\ q.prepared = r.prepared /\ q.phase = r.phase
    /\ q.clientBuffer = r.clientBuffer /\ q.serverBuffer = r.serverBuffer

ServerSide(c, shown, start, r, h) ==
    /\ r \in Recorder /\ SameUp(r, start)
    /\ r.columns = shown[h].columns /\ r.rows = shown[h].rows
    /\ Lists(c, interactions \o r.completed, h)
    /\ \A k \in 1 .. Len(r.completed) : executed[Ser(r.completed[k])].on = c

LEMMA AppendBehind ==
  ASSUME NEW S, NEW s \in Seq(S), NEW t \in Seq(S), NEW x \in S
  PROVE  s \o Append(t, x) = Append(s \o t, x) /\ Append(t, x) \in Seq(S)
<1>1. PICK u, v \in Seq(S) : u = s \o t /\ v = <<x>>
  <2>1. s \o t \in Seq(S) /\ <<x>> \in Seq(S)
    OBVIOUS
  <2> QED BY <2>1, Zenon
<1>2. Append(t, x) = t \o v /\ Append(u, x) = u \o v /\ Append(t, x) \in Seq(S)
  BY <1>1, AppendIsConcat
<1>3. (s \o t) \o v = s \o (t \o v)
  BY <1>1, ConcatAssociative
<1> QED BY <1>1, <1>2, <1>3

\* A result, as the recorder makes an interaction of it.
LEMMA EmitHeard ==
  ASSUME Typed, NEW c \in Connection, NEW shown, NEW start, NEW r, NEW h \in Nat,
         Hears(c, shown, start), Heard(c) <= h, h + 1 <= Len(Down(c)),
         ServerSide(c, shown, start, r, h), Closes(Down(c)[h + 1]),
         NEW response, response = IF Down(c)[h + 1].type = "C"
                                  THEN Result(r.columns, r.rows, Down(c)[h + 1].tag)
                                  ELSE Failure(Down(c)[h + 1].error)
  PROVE  ServerSide(c, shown, start, emit(r, response), h + 1)
<1>1. PICK frame, j : /\ frame = Down(c)[h + 1] /\ j = h + 1 /\ j \in Heard(c) + 1 .. Len(Down(c))
                      /\ j \in 1 .. Len(Down(c)) /\ frame \in ServerFrame /\ Closes(frame) /\ j - 1 = h
  <2>1. Heard(c) \in Nat /\ Len(Down(c)) \in Nat /\ \A i \in 1 .. Len(Down(c)) : Down(c)[i] \in ServerFrame
    BY DEF Hears
  <2>2. h + 1 \in Heard(c) + 1 .. Len(Down(c)) /\ h + 1 \in 1 .. Len(Down(c)) /\ h + 1 - 1 = h
    BY <2>1
  <2> QED BY <2>1, <2>2
<1>2. /\ r \in Recorder /\ SameUp(r, start)
      /\ r.columns = shown[h].columns /\ r.rows = shown[h].rows
      /\ Lists(c, interactions \o r.completed, h)
      /\ \A k \in 1 .. Len(r.completed) : executed[Ser(r.completed[k])].on = c
  BY DEF ServerSide
<1>3. /\ r.sql \in Sql /\ r.sql # NoSql /\ r.params \in Params
      /\ \E m \in 1 .. Len(asked[c]) : r.sql = asked[c][m][1]
      /\ r.params = NoParams \/ \E m \in 1 .. Len(asked[c]) : r.params = asked[c][m][2]
      /\ c \notin Pipelining =>
            LET run == executed[SerialOf(frame)]
            IN  r.sql = run.call[1] /\ (run.bound => r.params = run.call[2])
  BY <1>1, <1>2 DEF Hears, Answerable, SameUp
<1>4. /\ SerialOf(frame) \in RunOn(c)
      /\ executed[SerialOf(frame)].failed <=> frame.type = "E"
      /\ frame.type = "C" => Result(r.columns, r.rows, frame.tag) = ResultOf(frame.tag)
  BY <1>1, <1>2 DEF Hears, Resulted
<1>5. /\ SerialOf(frame) \in 1 .. Len(executed) /\ Len(executed) \in Nat
      /\ executed[SerialOf(frame)].on = c
  BY <1>4 DEF RunOn, Typed
<1>6. frame.type \in {"C", "E"} /\ response \in Outcome
  <2>1. frame.type \in {"C", "E"}
    BY <1>1 DEF Closes
  <2>2. CASE frame.type = "C"
    <3>1. frame.tag \in Nat
      BY <1>1, <2>2 DEF ServerFrame
    <3>2. r.columns \in Seq(Sql) /\ r.rows \in Seq(Nat)
      BY <1>2 DEF Recorder
    <3> QED BY <1>1, <2>1, <2>2, <3>1, <3>2 DEF Result, Outcome
  <2>3. CASE frame.type = "E"
    <3>1. frame.error \in Nat
      BY <1>1, <2>3 DEF ServerFrame
    <3>2. <<>> \in Seq(Sql) /\ <<>> \in Seq(Nat)
      OBVIOUS
    <3> QED BY <1>1, <2>1, <2>3, <3>1, <3>2 DEF Failure, Outcome
  <2> QED BY <2>1, <2>2, <2>3
<1>7. /\ response = ResultOf(SerialOf(frame))
      /\ SerialOf(frame) = IF response.error = 0 THEN response.tag ELSE response.error
  <2>1. CASE frame.type = "C"
    BY <1>1, <1>4, <2>1 DEF SerialOf, Result
  <2>2. CASE frame.type = "E"
    <3>1. SerialOf(frame) = frame.error /\ response = Failure(frame.error)
      BY <1>1, <2>2 DEF SerialOf
    <3>2. frame.error # 0
      BY <1>5, <3>1
    <3>3. executed[SerialOf(frame)].failed
      BY <1>4, <2>2
    <3> QED BY <3>1, <3>2, <3>3 DEF Failure, ResultOf
  <2> QED BY <1>6, <2>1, <2>2
<1>8. PICK x : x = [protocol |-> "postgres", sql |-> r.sql, params |-> r.params, result |-> response]
  BY ZenonT(40)
<1>9. x \in Interaction /\ Ser(x) = SerialOf(frame) /\ x.sql = r.sql /\ x.params = r.params
      /\ x.result = response
  BY <1>3, <1>6, <1>7, <1>8, Zenon DEF Interaction, Ser
<1>10. Sound(x)
  BY <1>3, <1>5, <1>7, <1>9, Zenon DEF Sound, Faithful
<1>11. IsOf(c, x, h)
  BY <1>1, <1>5, <1>9, <1>10 DEF IsOf
<1>12. PICK q : q = emit(r, response)
  OBVIOUS
<1>13. q = [r EXCEPT !.completed = Append(@, x), !.columns = <<>>, !.rows = <<>>]
  BY <1>3, <1>8, <1>12 DEF emit
<1>14. PICK before, base : /\ before = r.completed /\ base = interactions
                           /\ before \in Seq(Interaction) /\ base \in Seq(Interaction)
  BY <1>2 DEF Recorder, Typed
<1>15. base \o Append(before, x) = Append(base \o before, x) /\ Append(before, x) \in Seq(Interaction)
  <2>1. x \in Interaction /\ before \in Seq(Interaction) /\ base \in Seq(Interaction)
    BY <1>9, <1>14
  <2> QED BY ONLY <2>1, AppendBehind
<1>16. PICK more \in Seq(Interaction) :
        /\ more = Append(before, x) /\ Len(more) = Len(before) + 1 /\ Len(before) \in Nat
        /\ more[Len(before) + 1] = x /\ \A k \in 1 .. Len(before) : more[k] = before[k]
  <2>1. x \in Interaction /\ before \in Seq(Interaction)
    BY <1>9, <1>14
  <2>2. /\ Append(before, x) \in Seq(Interaction) /\ Len(Append(before, x)) = Len(before) + 1
        /\ Len(before) \in Nat /\ Append(before, x)[Len(before) + 1] = x
        /\ \A k \in 1 .. Len(before) : Append(before, x)[k] = before[k]
    BY ONLY <2>1
  <2> QED BY <2>2, Zenon
<1>17. /\ q \in Recorder /\ SameUp(q, r) /\ q.completed = more /\ q.columns = <<>> /\ q.rows = <<>>
  <2>1. <<>> \in Seq(Sql) /\ <<>> \in Seq(Nat)
    OBVIOUS
  <2> QED BY <1>2, <1>13, <1>14, <1>16, <2>1, Zenon DEF Recorder, SameUp
<1>18. shown[j].columns = <<>> /\ shown[j].rows = <<>>
  <2>1. shown[j] = Show(shown[j - 1], frame)
    BY <1>1 DEF Hears, Tells
  <2> QED BY <1>1, <1>6, <2>1 DEF Show
<1>19. Lists(c, base \o more, h + 1)
  <2>1. Lists(c, base \o before, h)
    BY <1>2, <1>14
  <2>2. PICK list : list = base \o before
    BY Zenon
  <2>3. Lists(c, Append(list, x), h + 1)
    BY <1>11, <2>1, <2>2, ListGrows DEF Hears
  <2> QED BY <1>15, <1>16, <2>2, <2>3, Zenon
<1>20. \A k \in 1 .. Len(more) : executed[Ser(more[k])].on = c
  <2> TAKE k \in 1 .. Len(more)
  <2>1. CASE k = Len(before) + 1
    BY <1>5, <1>9, <1>16, <2>1
  <2>2. CASE k # Len(before) + 1
    <3>1. k \in 1 .. Len(before)
      BY <1>16, <2>2
    <3> QED BY <1>2, <1>14, <1>16, <3>1
  <2> QED BY <2>1, <2>2
<1>21. SameUp(q, start)
  BY <1>2, <1>17 DEF SameUp
<1> QED BY <1>1, <1>12, <1>14, <1>17, <1>18, <1>19, <1>20, <1>21, Zenon DEF ServerSide

LEMMA FrameHeard ==
  ASSUME Typed, NEW c \in Connection, NEW shown, NEW start, NEW r, NEW h \in Nat,
         Hears(c, shown, start), Heard(c) <= h, h + 1 <= Len(Down(c)),
         ServerSide(c, shown, start, r, h), NEW frame, frame = Down(c)[h + 1]
  PROVE  ServerSide(c, shown, start, handleServerFrame(r, frame), h + 1)
<1>1. PICK j : /\ j = h + 1 /\ j \in 1 .. Len(Down(c)) /\ j - 1 = h /\ Len(Down(c)) \in Nat
               /\ frame \in ServerFrame /\ shown[j] = Show(shown[h], frame) /\ frame.type # "ssl"
  <2>1. Len(Down(c)) \in Nat /\ \A i \in 1 .. Len(Down(c)) : Down(c)[i] \in ServerFrame
    BY DEF Hears
  <2>2. h + 1 \in 1 .. Len(Down(c)) /\ h + 1 - 1 = h
    BY <2>1
  <2>3. shown[h + 1] = Show(shown[h + 1 - 1], Down(c)[h + 1]) /\ Down(c)[h + 1].type # "ssl"
    BY <2>2 DEF Hears, Tells
  <2> QED BY <2>1, <2>2, <2>3
<1>2. PICK q : q = handleServerFrame(r, frame)
  OBVIOUS
<1>3. CASE Closes(frame)
  <2>1. PICK response : response = IF frame.type = "C" THEN Result(r.columns, r.rows, frame.tag)
                                   ELSE Failure(frame.error)
    OBVIOUS
  <2>2. q = emit(r, response)
    BY <1>2, <1>3, <2>1 DEF Closes, handleServerFrame
  <2>3. ServerSide(c, shown, start, emit(r, response), h + 1)
    BY <1>3, <2>1, EmitHeard
  <2> QED BY <1>2, <2>2, <2>3
<1>4. CASE ~ Closes(frame)
  <2>1. /\ r \in Recorder /\ SameUp(r, start)
        /\ r.columns = shown[h].columns /\ r.rows = shown[h].rows
        /\ Lists(c, interactions \o r.completed, h)
        /\ \A k \in 1 .. Len(r.completed) : executed[Ser(r.completed[k])].on = c
    BY DEF ServerSide
  <2>2. /\ q \in Recorder /\ SameUp(q, r) /\ q.completed = r.completed
        /\ q.columns = shown[j].columns /\ q.rows = shown[j].rows
    <3>1. CASE frame.type = "T"
      <4>1. frame.columns \in Seq(Sql)
        <5>1. PICK sql \in Sql : frame.columns = <<sql>>
          BY <1>1, <3>1 DEF ServerFrame
        <5> QED BY <5>1
      <4>2. q = [r EXCEPT !.columns = frame.columns]
        BY <1>2, <3>1 DEF handleServerFrame
      <4>3. shown[j].columns = frame.columns /\ shown[j].rows = shown[h].rows
        BY <1>1, <3>1 DEF Show, Closes
      <4> QED BY <2>1, <4>1, <4>2, <4>3, Zenon DEF Recorder, SameUp
    <3>2. CASE frame.type = "D"
      <4>1. frame.row \in Nat
        BY <1>1, <3>2 DEF ServerFrame
      <4>2. q = [r EXCEPT !.rows = Append(@, frame.row)]
        BY <1>2, <3>2 DEF handleServerFrame
      <4>3. /\ shown[j].columns = shown[h].columns
            /\ shown[j].rows = Append(shown[h].rows, frame.row)
        BY <1>1, <3>2 DEF Show, Closes
      <4>4. Append(r.rows, frame.row) \in Seq(Nat)
        BY <2>1, <4>1 DEF Recorder
      <4> QED BY <2>1, <4>2, <4>3, <4>4, Zenon DEF Recorder, SameUp
    <3>3. CASE frame.type \notin {"T", "D"}
      <4>1. q = r
        BY <1>2, <1>4, <3>3 DEF handleServerFrame, Closes
      <4>2. shown[j].columns = shown[h].columns /\ shown[j].rows = shown[h].rows
        BY <1>1, <1>4, <3>3 DEF Show
      <4> QED BY <2>1, <4>1, <4>2 DEF SameUp
    <3> QED BY <3>1, <3>2, <3>3
  <2>3. Lists(c, interactions \o q.completed, h + 1)
    <3>1. PICK list : list = interactions \o r.completed
      BY Zenon
    <3>2. Lists(c, list, h + 1)
      BY <1>1, <1>4, <2>1, <3>1, ListStands, Zenon
    <3> QED BY <2>2, <3>1, <3>2
  <2>4. SameUp(q, start)
    BY <2>1, <2>2 DEF SameUp
  <2> QED BY <1>1, <1>2, <2>1, <2>2, <2>3, <2>4 DEF ServerSide
<1> QED BY <1>3, <1>4

LEMMA FramesHeard ==
  ASSUME Typed, NEW c \in Connection, NEW shown, NEW start, NEW h \in Nat,
         Hears(c, shown, start), Heard(c) <= h, ServerSide(c, shown, start, start, h),
         NEW frames \in Seq(ServerFrame), h + Len(frames) <= Len(Down(c)),
         \A k \in 1 .. Len(frames) : frames[k] = Down(c)[h + k]
  PROVE  ServerSide(c, shown, start, AfterServer(start, frames), h + Len(frames))
<1>1. Len(frames) \in Nat /\ Len(Down(c)) \in Nat /\ Heard(c) \in Nat
  BY DEF Hears
<1>2. PICK path : /\ path[0] = start
                  /\ \A n \in 1 .. Len(frames) :
                            path[n] = handleServerFrame(path[n - 1], frames[n])
                  /\ AfterServer(start, frames) = path[Len(frames)]
  <2>1. Len(frames) \in Nat
    BY <1>1
  <2>2. \E path : /\ path[0] = start
                  /\ \A n \in 1 .. Len(frames) :
                          path[n] = handleServerFrame(path[n - 1], frames[n])
                  /\ AfterServer(start, frames) = path[Len(frames)]
    BY ONLY <2>1, ServerFrames, ZenonT(40)
  <2> QED BY <2>2
<1> DEFINE Good(n) == ServerSide(c, shown, start, path[n], h + n)
           S == {n \in Nat : n <= Len(frames) => Good(n)}
<1>3. 0 \in S
  <2>1. h + 0 = h
    OBVIOUS
  <2>2. Good(0)
    BY <1>2, <2>1
  <2> QED BY <2>2
<1>4. ASSUME NEW n \in Nat, n \in S PROVE n + 1 \in S
  <2> SUFFICES ASSUME n + 1 <= Len(frames) PROVE Good(n + 1)
    OBVIOUS
  <2>1. /\ n <= Len(frames) /\ n + 1 \in 1 .. Len(frames) /\ (n + 1) - 1 = n
        /\ h + n \in Nat /\ Heard(c) <= h + n /\ (h + n) + 1 <= Len(Down(c))
        /\ h + (n + 1) = (h + n) + 1
    BY ONLY <1>1, n \in Nat, h \in Nat, n + 1 <= Len(frames), Heard(c) <= h,
            h + Len(frames) <= Len(Down(c))
  <2>2. Good(n)
    BY <1>4, <2>1
  <2>3. path[n + 1] = handleServerFrame(path[n], frames[n + 1])
    BY <1>2, <2>1, Zenon
  <2>4. frames[n + 1] = Down(c)[(h + n) + 1]
    BY <2>1, SMTT(30)
  <2>5. PICK at \in Nat, before \in {path[n]}, frame \in {frames[n + 1]} :
          at = h + n /\ before = path[n] /\ frame = frames[n + 1]
    BY <2>1, Zenon
  <2>6. ServerSide(c, shown, start, before, at) /\ frame = Down(c)[at + 1]
        /\ Heard(c) <= at /\ at + 1 <= Len(Down(c))
    BY <2>1, <2>2, <2>4, <2>5
  <2>7. ServerSide(c, shown, start, handleServerFrame(before, frame), at + 1)
    BY <2>6, FrameHeard
  <2> QED BY <2>1, <2>3, <2>5, <2>7
<1> HIDE DEF S
<1>5. Len(frames) \in S
  BY <1>1, <1>3, <1>4, NatBySet, Zenon
<1>6. Good(Len(frames))
  BY <1>1, <1>5 DEF S
<1> QED BY <1>2, <1>6

\* What is buffered of the server's stream once the chunk is added.
LEMMA AnswerBuffers ==
  ASSUME Typed, Relayed, NEW c \in Connection, NEW start \in Nat, NEW buffer \in Seq(ServerFrame),
         start + Len(buffer) = Done(c, "down"), NEW n \in 1 .. Len(wire[c]["down"]),
         \A i \in 1 .. Len(buffer) : buffer[i] = sent[c]["down"][start + i]
  PROVE  /\ Joining(ServerFrame, sent[c]["down"], start, buffer, SubSeq(wire[c]["down"], 1, n))
         /\ Len(SubSeq(wire[c]["down"], 1, n)) = n
<1>1. PICK stream \in Seq(ServerFrame), unread \in Seq(Byte) :
        /\ stream = sent[c]["down"] /\ unread = wire[c]["down"]
        /\ Len(stream) = Done(c, "down") + Len(unread)
        /\ \A i \in 1 .. Len(unread) : unread[i] = stream[Done(c, "down") + i]
  <2>1. sent[c]["down"] \in Seq(ServerFrame) /\ wire[c]["down"] \in Seq(Byte)
    BY DEF Typed, Relayed, Flow
  <2>2. Streamed(c, "down")
    BY DEF Relayed
  <2>3. /\ Len(sent[c]["down"]) = Done(c, "down") + Len(wire[c]["down"])
        /\ \A i \in 1 .. Len(wire[c]["down"]) :
              wire[c]["down"][i] = sent[c]["down"][Done(c, "down") + i]
    BY <2>2 DEF Streamed
  <2> QED BY <2>1, <2>3, Zenon
<1>2. PICK l \in Nat : l = Len(buffer) /\ start + l = Done(c, "down")
  BY DEF Hears
<1>3. n \in 1 .. Len(unread)
  BY <1>1
<1>4. unread \in Seq(ServerFrame)
  BY <1>1, UnreadFrames
<1>5. Ending(ServerFrame, stream, start, buffer, unread)
  BY <1>1, <1>2, <1>4, Zenon DEF Ending
<1>6. /\ Len(SubSeq(unread, 1, n)) = n
      /\ Joining(ServerFrame, stream, start, buffer, SubSeq(unread, 1, n))
  BY <1>3, <1>5, ChunkJoined
<1> QED BY <1>1, <1>6
-----------------------------------------------------------------------------
(***************************************************************************)
(* A chunk of the server, where the driver has not asked for TLS.          *)
(***************************************************************************)

\* What recorder r is once d elements of the server's are read.
ServerRead(c, shown, q, r, d) ==
    /\ q \in Recorder
    /\ q.sql = r.sql /\ q.params = r.params /\ q.prepared = r.prepared /\ q.phase = r.phase
    /\ q.clientBuffer = r.clientBuffer
    /\ q.columns = shown[d \div 2].columns /\ q.rows = shown[d \div 2].rows
    /\ Len(q.serverBuffer) = d % 2
    /\ \A i \in 1 .. Len(q.serverBuffer) : q.serverBuffer[i] = sent[c]["down"][2 * (d \div 2) + i]
    /\ Lists(c, interactions \o q.completed, d \div 2)
    /\ \A k \in 1 .. Len(q.completed) : executed[Ser(q.completed[k])].on = c

LEMMA ServerReader ==
  ASSUME Typed, Relayed, Matched(interactions), Rising(interactions),
         NEW c \in Connection, NEW note, NEW shown, Connected(c, note, shown), ~ AskedForTls(c),
         bridge[c] = "open", NEW n \in 1 .. Len(wire[c]["down"])
  PROVE  ServerRead(c, shown, onServerData(recorder[c], SubSeq(wire[c]["down"], 1, n)), recorder[c],
                    Done(c, "down") + n)
<1>1. /\ Scripted(c, note) /\ Serving(c, note) /\ Spoken(c, note, shown) /\ Lately(c, note)
      /\ Reader(c, note, shown) /\ Listed(c)
  BY DEF Connected, Answering
<1>2. PICK d \in Nat, r \in Recorder : d = Done(c, "down") /\ r = recorder[c] /\ r.completed = <<>>
  <2>1. Done(c, "down") \in Nat /\ recorder[c] \in Recorder /\ recorder[c].completed = <<>>
    BY DEF Relayed, Streamed, Typed
  <2> QED BY <2>1
<1>3. n \in Nat
  BY DEF Relayed, Flow
<1>4. PICK h \in Nat : h = d \div 2 /\ d = 2 * h + (d % 2) /\ d % 2 \in Nat /\ h = Heard(c)
  BY <1>2, Parity DEF Heard
<1>5. PICK all \in Seq(ServerFrame) :
        /\ all = Down(c) /\ sent[c]["down"] = HalvesOf(all) /\ Len(sent[c]["down"]) = 2 * Len(all)
  <2>1. sent[c]["down"] = HalvesOf(Down(c))
    BY <1>1 DEF Spoken
  <2> QED BY <2>1, DownFrames
<1>6. PICK buffer \in Seq(ServerFrame) :
        /\ buffer = r.serverBuffer /\ Len(buffer) = d % 2
        /\ \A i \in 1 .. Len(buffer) : buffer[i] = sent[c]["down"][2 * h + i]
  <2>1. r.serverBuffer \in Seq(ServerFrame)
    BY DEF Recorder
  <2> QED BY <1>1, <1>2, <1>4, <2>1, Zenon DEF Reader
<1>7. PICK chunk : chunk = SubSeq(wire[c]["down"], 1, n)
  BY Zenon
<1>8. PICK at \in Nat : at = 2 * h
  <2>1. 2 * h \in Nat
    OBVIOUS
  <2> QED BY <2>1
<1>9. Joining(ServerFrame, sent[c]["down"], at, buffer, chunk) /\ Len(chunk) = n
  <2>1. at + Len(buffer) = Done(c, "down")
    BY <1>2, <1>4, <1>6, <1>8
  <2>2. \A i \in 1 .. Len(buffer) : buffer[i] = sent[c]["down"][at + i]
    BY <1>6, <1>8
  <2> QED BY <1>6, <1>7, <2>1, <2>2, AnswerBuffers, ZenonT(40)
<1>10. PICK whole \in Seq(ServerFrame) :
        /\ whole = buffer \o chunk /\ Len(whole) = (d % 2) + n
        /\ \A i \in 1 .. Len(whole) : whole[i] = HalvesOf(all)[2 * h + i]
  <2>1. buffer \o chunk \in Seq(ServerFrame) /\ Len(buffer \o chunk) = Len(buffer) + n
    BY <1>9 DEF Joining
  <2>2. \A i \in 1 .. Len(buffer) + n : (buffer \o chunk)[i] = sent[c]["down"][at + i]
    BY <1>9 DEF Joining
  <2>3. Len(buffer \o chunk) = (d % 2) + n
    BY <1>6, <2>1
  <2>4. \A i \in 1 .. Len(buffer \o chunk) : (buffer \o chunk)[i] = HalvesOf(all)[2 * h + i]
    BY <1>5, <1>8, <2>1, <2>2, Zenon
  <2> QED BY <2>1, <2>3, <2>4, Zenon
<1>11. 2 * h + Len(whole) <= 2 * Len(all)
  <2>1. at + Len(buffer) + n <= Len(sent[c]["down"])
    BY <1>9 DEF Joining
  <2>2. at + ((d % 2) + n) <= Len(sent[c]["down"])
    <3>1. PICK b \in Nat : b = d % 2
      BY <1>4
    <3>2. at + b + n <= Len(sent[c]["down"])
      BY <1>6, <2>1, <3>1
    <3>3. at + b + n = at + (b + n)
      BY ONLY at \in Nat, b \in Nat, <1>3
    <3> QED BY <3>1, <3>2, <3>3
  <2> QED BY <1>5, <1>8, <1>10, <2>2
<1>12. PICK l \in Nat : l = Len(whole) /\ l = (d % 2) + n
  BY <1>10
<1>13. PICK m \in Nat : m = l \div 2
  <2>1. l \div 2 \in Nat
    BY Parity
  <2> QED BY <2>1
<1>14. 2 * h + l = d + n /\ h + m = (d + n) \div 2 /\ l % 2 = (d + n) % 2
  BY <1>3, <1>4, <1>12, <1>13, HalvesAdd
<1>15. /\ h + m <= Len(all)
       /\ Decodable(whole) \in Seq(ServerFrame) /\ Len(Decodable(whole)) = m
       /\ \A k \in 1 .. m : Decodable(whole)[k] = all[h + k]
       /\ Remainder(whole) \in Seq(ServerFrame) /\ Len(Remainder(whole)) = l % 2
       /\ \A i \in 1 .. Len(Remainder(whole)) : Remainder(whole)[i] = HalvesOf(all)[2 * (h + m) + i]
       /\ whole # <<>> => Head(whole) = all[h + 1] /\ h + 1 <= Len(all)
  <2>1. LET x == Len(whole) \div 2
        IN  /\ x \in Nat /\ h + x <= Len(all)
            /\ Decodable(whole) \in Seq(ServerFrame) /\ Len(Decodable(whole)) = x
            /\ \A k \in 1 .. x : Decodable(whole)[k] = all[h + k]
            /\ Remainder(whole) \in Seq(ServerFrame) /\ Len(Remainder(whole)) = Len(whole) % 2
            /\ \A i \in 1 .. Len(Remainder(whole)) :
                     Remainder(whole)[i] = HalvesOf(all)[2 * (h + x) + i]
            /\ whole # <<>> => Head(whole) = all[h + 1] /\ h + 1 <= Len(all)
    <3>1. h \in Nat /\ 2 * h + Len(whole) <= 2 * Len(all)
      BY <1>4, <1>11
    <3>2. \A i \in 1 .. Len(whole) : whole[i] = HalvesOf(all)[2 * h + i]
      BY <1>10, Zenon
    <3> QED BY <3>1, <3>2, ChunkDecoded, ZenonT(40)
  <2> QED BY <1>12, <1>13, <2>1, Zenon
<1>17. PICK frames, rest \in Seq(ServerFrame) : frames = Decodable(whole) /\ rest = Remainder(whole)
  BY <1>15
<1>18. PICK start : start = [r EXCEPT !.serverBuffer = rest]
  BY Zenon
<1>19. /\ start \in Recorder /\ start.serverBuffer = rest /\ start.completed = <<>>
       /\ start.sql = r.sql /\ start.params = r.params /\ start.prepared = r.prepared
       /\ start.phase = r.phase /\ start.clientBuffer = r.clientBuffer
       /\ start.columns = r.columns /\ start.rows = r.rows
  BY <1>2, <1>17, <1>18, Zenon DEF Recorder
<1>20. onServerData(r, chunk) = AfterServer(start, frames)
  <2>1. r.phase \in {"initial", "running"}
    BY <1>1, <1>2, Zenon DEF Reader
  <2>2. onServerData(r, chunk) = ReadServer([r EXCEPT !.serverBuffer = @ \o chunk])
    BY <2>1, Zenon DEF onServerData
  <2>3. PICK s : s = [r EXCEPT !.serverBuffer = whole]
    BY Zenon
  <2>4. onServerData(r, chunk) = ReadServer(s) /\ s.serverBuffer = whole
    BY <1>6, <1>10, <2>2, <2>3, Zenon DEF Recorder
  <2>5. ReadServer(s) = AfterServer([s EXCEPT !.serverBuffer = Remainder(s.serverBuffer)],
                                    Decodable(s.serverBuffer))
    BY ReadsAre, Zenon
  <2>6. [s EXCEPT !.serverBuffer = rest] = start
    BY <1>18, <2>3, Zenon DEF Recorder
  <2> QED BY <1>17, <2>4, <2>5, <2>6, Zenon
<1>21. Hears(c, shown, start)
  <2>1. Holds(start, note[Read(c)])
    BY <1>1, <1>2, <1>19 DEF Reader, Holds
  <2>2. Answerable(c, start)
    BY <1>1, <1>19, <2>1, ReaderAnswerable
  <2> QED BY <1>1, <1>4, <1>5, <2>2 DEF Hears, Spoken
<1>22. ServerSide(c, shown, start, start, h)
  <2>1. Kept(c, interactions, h) /\ Ahead(c, interactions, h)
    BY <1>1, <1>4, Zenon DEF Listed
  <2>2. interactions \o <<>> = interactions /\ interactions \in Seq(Interaction)
    BY DEF Typed
  <2>3. Lists(c, interactions \o start.completed, h)
    BY <1>19, <2>1, <2>2 DEF Lists
  <2>4. start.columns = shown[h].columns /\ start.rows = shown[h].rows
    BY <1>1, <1>2, <1>4, <1>19 DEF Reader
  <2>5. Len(<<>>) = 0
    OBVIOUS
  <2> QED BY <1>19, <2>3, <2>4, <2>5 DEF ServerSide, SameUp
<1>23. PICK q : q = AfterServer(start, frames)
  OBVIOUS
<1>24. ServerSide(c, shown, start, q, h + m)
  <2>1. /\ Len(frames) = m /\ h + Len(frames) <= Len(Down(c)) /\ Heard(c) <= h
        /\ \A k \in 1 .. Len(frames) : frames[k] = Down(c)[h + k]
    <3>1. Len(frames) = m /\ all = Down(c) /\ h = Heard(c)
      BY <1>4, <1>5, <1>15, <1>17, Zenon
    <3>2. h + m <= Len(all) /\ h <= h
      BY <1>4, <1>15
    <3>3. \A k \in 1 .. m : frames[k] = all[h + k]
      BY <1>15, <1>17, Zenon
    <3> QED BY <3>1, <3>2, <3>3
  <2>2. ServerSide(c, shown, start, AfterServer(start, frames), h + Len(frames))
    BY <1>17, <1>21, <1>22, <2>1, FramesHeard, Zenon
  <2> QED BY <1>23, <2>1, <2>2
<1>25. /\ Len(q.serverBuffer) = (d + n) % 2
       /\ \A i \in 1 .. Len(q.serverBuffer) : q.serverBuffer[i] = sent[c]["down"][2 * (h + m) + i]
  <2>1. q.serverBuffer = rest
    BY <1>19, <1>24 DEF ServerSide, SameUp
  <2>2. Len(rest) = (d + n) % 2
    BY <1>14, <1>15, <1>17, Zenon
  <2>3. \A i \in 1 .. Len(rest) : rest[i] = HalvesOf(all)[2 * (h + m) + i]
    BY <1>15, <1>17, Zenon
  <2> QED BY <1>5, <2>1, <2>2, <2>3
<1>26. ServerRead(c, shown, q, r, d + n)
  <2>1. PICK e : e = h + m /\ e = (d + n) \div 2
    BY <1>14, Zenon
  <2>2. ServerSide(c, shown, start, q, e)
    BY <1>24, <2>1
  <2>3. \A i \in 1 .. Len(q.serverBuffer) : q.serverBuffer[i] = sent[c]["down"][2 * e + i]
    BY <1>25, <2>1
  <2> QED BY <1>19, <1>25, <2>1, <2>2, <2>3, Zenon DEF ServerRead, ServerSide, SameUp
<1> QED BY <1>2, <1>7, <1>20, <1>23, <1>26
-----------------------------------------------------------------------------
(***************************************************************************)
(* A chunk of the server, where the driver has asked for TLS.              *)
(***************************************************************************)

LEMMA SplitTyped ==
  ASSUME NEW S, NEW whole \in Seq(S)
  PROVE  /\ Decodable(whole) \in Seq(S) /\ Len(Decodable(whole)) \in Nat
         /\ Remainder(whole) \in Seq(S) /\ Len(Remainder(whole)) = Len(whole) % 2
<1>1. PICK l, m \in Nat : l = Len(whole) /\ m = l \div 2 /\ l % 2 \in {0, 1} /\ l = 2 * m + (l % 2)
  <2>1. Len(whole) \in Nat
    OBVIOUS
  <2> QED BY <2>1, Parity
<1>2. \A k \in 1 .. m : 2 * k \in 1 .. l
  BY <1>1
<1>3. Decodable(whole) = [k \in 1 .. m |-> whole[2 * k]]
  BY <1>1 DEF Decodable
<1>4. \A k \in 1 .. m : whole[2 * k] \in S
  BY <1>1, <1>2
<1>5. Decodable(whole) \in Seq(S) /\ Len(Decodable(whole)) = m
  BY <1>1, <1>3, <1>4
<1>6. PICK p \in Nat : p = l % 2 /\ p \in {0, 1} /\ l = 2 * m + p
  BY <1>1
<1>7. Remainder(whole) = SubSeq(whole, 2 * m + 1, l)
  BY <1>1 DEF Remainder
<1>8. 2 * m + 1 \in Int /\ l \in Int /\ \A i \in 2 * m + 1 .. l : whole[i] \in S
  BY <1>1
<1>9. Remainder(whole) \in Seq(S)
  BY <1>7, <1>8, SubSeqProperties
<1>10. Len(Remainder(whole)) = IF 2 * m + 1 <= l THEN l - (2 * m + 1) + 1 ELSE 0
  BY <1>7, <1>8, SubSeqProperties
<1>11. Len(Remainder(whole)) = p
  BY ONLY <1>6, <1>10, m \in Nat, l \in Nat
<1> QED BY <1>1, <1>5, <1>6, <1>9, <1>11

LEMMA NumberedTyped ==
  ASSUME NEW serials, NEW frames \in Seq(Numbered(serials))
  PROVE  frames \in Seq(ServerFrame)
BY DEF Numbered

\* What is the same of a recorder that reads results of these statements.
Heeds(q, r, serials) ==
    /\ q \in Recorder /\ SameUp(q, r)
    /\ r.sql = NoSql => q.completed = r.completed
    /\ \A k \in 1 .. Len(q.completed) : Ser(q.completed[k]) \in serials

LEMMA HeedFrame ==
  ASSUME NEW serials, NEW r, NEW q, Heeds(q, r, serials), NEW frame \in Numbered(serials)
  PROVE  Heeds(handleServerFrame(q, frame), r, serials)
<1>1. /\ q \in Recorder /\ q.sql = r.sql /\ SameUp(q, r)
      /\ r.sql = NoSql => q.completed = r.completed
      /\ \A k \in 1 .. Len(q.completed) : Ser(q.completed[k]) \in serials
  BY DEF Heeds, SameUp
<1>2. frame \in ServerFrame /\ frame.type \in {"Z", "ssl", "T", "D", "C", "E"}
  BY DEF Numbered, ServerFrame
<1>3. CASE frame.type = "T"
  <2>1. frame.columns \in Seq(Sql)
    <3>1. PICK sql \in Sql : frame.columns = <<sql>>
      BY <1>2, <1>3 DEF ServerFrame
    <3>2. <<sql>> \in Seq(Sql)
      OBVIOUS
    <3> QED BY <3>1, <3>2
  <2>2. handleServerFrame(q, frame) = [q EXCEPT !.columns = frame.columns]
    BY <1>3 DEF handleServerFrame
  <2> QED BY <1>1, <2>1, <2>2, Zenon DEF Heeds, SameUp, Recorder
<1>4. CASE frame.type = "D"
  <2>1. frame.row \in Nat /\ q.rows \in Seq(Nat)
    BY <1>1, <1>2, <1>4 DEF ServerFrame, Recorder
  <2>2. Append(q.rows, frame.row) \in Seq(Nat)
    BY <2>1
  <2>3. handleServerFrame(q, frame) = [q EXCEPT !.rows = Append(q.rows, frame.row)]
    BY <1>4 DEF handleServerFrame
  <2> QED BY <1>1, <2>2, <2>3, Zenon DEF Heeds, SameUp, Recorder
<1>5. CASE frame.type \in {"Z", "ssl"} \/ (q.sql = NoSql /\ Closes(frame))
  <2>1. q.sql = NoSql => \A x : emit(q, x) = q
    BY DEF emit
  <2>2. handleServerFrame(q, frame) = q
    BY <1>5, <2>1 DEF handleServerFrame, Closes
  <2> QED BY <2>2
<1>6. CASE q.sql # NoSql /\ Closes(frame)
  <2>1. PICK response : response = IF frame.type = "C" THEN Result(q.columns, q.rows, frame.tag)
                                   ELSE Failure(frame.error)
    OBVIOUS
  <2>2. response \in Outcome /\ SerialOf(frame) \in serials
        /\ SerialOf(frame) = IF response.error = 0 THEN response.tag ELSE response.error
    <3>1. SerialOf(frame) \in serials /\ frame.type \in {"C", "E"}
      BY <1>6 DEF Numbered, Closes
    <3>2. CASE frame.type = "C"
      <4>1. frame.tag \in Nat /\ q.columns \in Seq(Sql) /\ q.rows \in Seq(Nat)
        BY <1>1, <1>2, <3>2 DEF ServerFrame, Recorder
      <4> QED BY <2>1, <3>1, <3>2, <4>1 DEF Result, Outcome, SerialOf
    <3>3. CASE frame.type = "E"
      <4>1. frame.error \in Nat
        BY <1>2, <3>3 DEF ServerFrame
      <4>2. <<>> \in Seq(Sql) /\ <<>> \in Seq(Nat)
        OBVIOUS
      <4> QED BY <2>1, <3>1, <3>3, <4>1, <4>2 DEF Failure, Outcome, SerialOf
    <3> QED BY <3>1, <3>2, <3>3
  <2>3. PICK x : x = [protocol |-> "postgres", sql |-> q.sql, params |-> q.params, result |-> response]
    BY ZenonT(40)
  <2>4. x \in Interaction /\ Ser(x) \in serials
    <3>1. q.sql \in Sql /\ q.params \in Params
      BY <1>1, <1>6 DEF Recorder
    <3> QED BY <2>2, <2>3, <3>1, Zenon DEF Interaction, Ser
  <2>5. PICK before, more \in Seq(Interaction) :
          /\ before = q.completed /\ more = Append(before, x)
          /\ \A k \in 1 .. Len(more) :
                more[k] = x \/ (k \in 1 .. Len(before) /\ more[k] = before[k])
    <3>1. PICK list \in Seq(Interaction) : list = q.completed
      BY <1>1 DEF Recorder
    <3>2. /\ Append(list, x) \in Seq(Interaction)
          /\ \A k \in 1 .. Len(Append(list, x)) :
                \/ Append(list, x)[k] = x
                \/ k \in 1 .. Len(list) /\ Append(list, x)[k] = list[k]
      BY <2>4
    <3> QED BY <3>1, <3>2, Zenon
  <2>6. PICK p : p = handleServerFrame(q, frame)
    OBVIOUS
  <2>7. p = [q EXCEPT !.completed = Append(@, x), !.columns = <<>>, !.rows = <<>>]
    BY <1>6, <2>1, <2>3, <2>6 DEF handleServerFrame, emit, Closes
  <2>8. p \in Recorder /\ SameUp(p, q) /\ p.completed = more
    <3>1. <<>> \in Seq(Sql) /\ <<>> \in Seq(Nat)
      OBVIOUS
    <3> QED BY <1>1, <2>5, <2>7, <3>1, Zenon DEF Recorder, SameUp
  <2>9. \A k \in 1 .. Len(more) : Ser(more[k]) \in serials
    BY <1>1, <2>4, <2>5
  <2>10. SameUp(p, r) /\ r.sql # NoSql
    BY <1>1, <1>6, <2>8 DEF SameUp
  <2> QED BY <2>6, <2>8, <2>9, <2>10 DEF Heeds
<1> QED BY <1>2, <1>3, <1>4, <1>5, <1>6 DEF Closes

LEMMA HeedFrames ==
  ASSUME NEW serials, NEW r \in Recorder, r.completed = <<>>, NEW frames \in Seq(Numbered(serials))
  PROVE  Heeds(AfterServer(r, frames), r, serials)
<1>1. Len(frames) \in Nat
  OBVIOUS
<1>2. PICK path : /\ path[0] = r
                  /\ \A n \in 1 .. Len(frames) : path[n] = handleServerFrame(path[n - 1], frames[n])
                  /\ AfterServer(r, frames) = path[Len(frames)]
  BY <1>1, ServerFrames
<1> DEFINE Still == {n \in Nat : n <= Len(frames) => Heeds(path[n], r, serials)}
<1>3. 0 \in Still
  <2>1. Len(<<>>) = 0
    OBVIOUS
  <2> QED BY <1>2, <2>1 DEF Heeds, SameUp
<1>4. ASSUME NEW n \in Nat, n \in Still PROVE n + 1 \in Still
  <2> SUFFICES ASSUME n + 1 <= Len(frames) PROVE Heeds(path[n + 1], r, serials)
    OBVIOUS
  <2>1. Heeds(path[n], r, serials)
    BY <1>1, <1>4
  <2>2. n + 1 \in 1 .. Len(frames) /\ n + 1 - 1 = n
    BY <1>1
  <2>3. path[n + 1] = handleServerFrame(path[n], frames[n + 1]) /\ frames[n + 1] \in Numbered(serials)
    BY <1>2, <2>2
  <2> QED BY <2>1, <2>3, HeedFrame
<1>5. \A n \in Nat : n \in Still
  <2> HIDE DEF Still
  <2> QED BY <1>3, <1>4, NatBySet
<1> QED BY <1>1, <1>2, <1>5

LEMMA ServerUnreads ==
  ASSUME Typed, Relayed, NEW c \in Connection, NEW note, Scripted(c, note),
         Serving(c, note), AskedForTls(c), Refusing(c),
         NEW r \in Recorder, UnreadingAt(c, r, Done(c, "up"), Done(c, "down")), Len(r.serverBuffer) < 2,
         r.completed = <<>>,
         NEW n \in 1 .. Len(wire[c]["down"])
  PROVE  LET q == onServerData(r, SubSeq(wire[c]["down"], 1, n))
         IN  /\ q \in Recorder /\ UnreadingAt(c, q, Done(c, "up"), Done(c, "down") + n)
             /\ Len(q.serverBuffer) < 2 /\ (~ Astray(c) => q.completed = <<>>)
             /\ \A k \in 1 .. Len(q.completed) : Ser(q.completed[k]) \in RunOn(c)
<1>0. \A k : k \notin 1 .. Len(<<>>)
  OBVIOUS
<1>1. PICK d \in Nat : d = Done(c, "down")
  BY DEF Relayed, Streamed
<1>2. n \in Nat /\ n > 0 /\ d + n <= Len(sent[c]["down"]) /\ Len(sent[c]["down"]) \in Nat
  <2>1. /\ Len(wire[c]["down"]) \in Nat /\ Len(sent[c]["down"]) = d + Len(wire[c]["down"])
    BY <1>1 DEF Relayed, Flow, Streamed
  <2> QED BY <2>1
<1>3. /\ Len(sent[c]["up"]) > 2 => d > 0
      /\ Done(c, "up") < 2 => d = 0
  BY <1>1, AskedStreams
<1>4. PICK chunk, q : chunk = SubSeq(wire[c]["down"], 1, n) /\ q = onServerData(r, chunk)
  BY Zenon
<1>5. PICK buffer \in Seq(ServerFrame) : buffer = r.serverBuffer
  BY DEF Recorder
<1>b. UnreadingAt(c, r, Done(c, "up"), d)
  BY <1>1
<1>c. Counts(c)
  BY StreamsCount
<1>6. /\ chunk \in Seq(ServerFrame) /\ Len(chunk) = n
      /\ \A i \in 1 .. Len(chunk) : chunk[i] = sent[c]["down"][d + i]
  <2>1. PICK unread \in Seq(ServerFrame) : unread = wire[c]["down"]
    BY UnreadFrames DEF Typed
  <2>2. n \in 1 .. Len(unread) /\ \A i \in 1 .. Len(unread) : unread[i] = sent[c]["down"][d + i]
    BY <1>1, <2>1 DEF Relayed, Streamed
  <2> QED BY <1>4, <2>1, <2>2
<1>7. CASE r.phase = "encrypted"
  <2>1. q = r
    BY <1>4, <1>7 DEF onServerData
  <2>2. UnreadingAt(c, r, Done(c, "up"), d + n)
    BY <1>b, <1>7 DEF UnreadingAt
  <2> QED BY <1>0, <1>1, <1>4, <2>1, <2>2
<1>8. CASE r.phase = "initial"
  <2>1. Done(c, "up") < 2
    BY <1>b, <1>8 DEF UnreadingAt
  <2>2. served[c] = 0
    <3>1. /\ served[c] \in Nat /\ 2 * served[c] <= Len(got[c]["up"])
          /\ Len(got[c]["up"]) \in Nat /\ Len(got[c]["up"]) <= Done(c, "up")
          /\ Done(c, "up") \in Nat
      BY <1>c, Zenon DEF Typed, Serving, Counts
    <3> QED BY ONLY <2>1, <3>1
  <2>3. Len(sent[c]["down"]) = 0
    BY <2>2 DEF Refusing
  <2> QED BY <1>2, <2>3
<1>9. CASE r.phase = "awaiting-ssl-reply"
  <2>1. /\ d = 0 /\ r.clientBuffer = <<>> /\ r.serverBuffer = <<>> /\ (~ Astray(c) => r.sql = NoSql)
        /\ Done(c, "up") >= 2 /\ <<>> \in Seq(Numbered(RunOn(c)))
    BY <1>b, <1>9 DEF UnreadingAt
  <2>2. Done(c, "up") = 2
    <3>1. ~ (Len(sent[c]["up"]) > 2)
      BY <1>3, <2>1
    <3>2. Done(c, "up") \in Nat /\ Len(sent[c]["up"]) \in Nat /\ Done(c, "up") <= Len(sent[c]["up"])
      BY <1>c DEF Counts
    <3> QED BY ONLY <2>1, <3>1, <3>2
  <2>3. Len(sent[c]["down"]) = 1 /\ n = 1
    <3>1. ~ (Len(sent[c]["down"]) > 1)
      <4> SUFFICES ASSUME Len(sent[c]["down"]) > 1 PROVE FALSE
        OBVIOUS
      <4>1. got[c]["down"] # <<>> /\ got[c]["down"] \in Seq(Byte)
        BY DEF Refusing, Relayed, Flow
      <4>2. Len(got[c]["down"]) > 0
        BY <4>1
      <4>3. Len(got[c]["down"]) <= d /\ Len(got[c]["down"]) \in Nat
        BY <1>1, <1>c DEF Counts
      <4> QED BY ONLY <2>1, <4>2, <4>3
    <3>2. PICK k \in Nat : k = Len(sent[c]["down"])
      BY <1>2
    <3>3. d = 0 /\ n \in Nat /\ n > 0 /\ d + n <= k /\ ~ (k > 1)
      BY <1>2, <2>1, <3>1, <3>2
    <3>4. k = 1 /\ n = 1
      BY ONLY <3>3, k \in Nat
    <3> QED BY <3>2, <3>4
  <2>4. Head(chunk).type = "ssl" /\ Head(chunk).accepted \in BOOLEAN /\ Tail(chunk) = <<>>
    <3>1. Len(chunk) = 1 /\ 1 \in 1 .. Len(chunk)
      BY <1>6, <2>3
    <3>2. Head(chunk) = chunk[1] /\ chunk[1] = sent[c]["down"][d + 1] /\ d + 1 = 1
      BY <1>6, <2>1, <3>1
    <3>3. PICK bytes \in Seq(ServerFrame) : bytes = sent[c]["down"] /\ Len(bytes) = 1
      BY <2>3 DEF Typed
    <3>4. bytes # <<>> /\ Head(bytes) = bytes[1] /\ bytes[1] \in ServerFrame
      <4>1. 1 \in 1 .. Len(bytes)
        BY <3>3
      <4>2. bytes # <<>>
        BY <4>1
      <4> QED BY <4>1, <4>2
    <3>5. Head(chunk).type = "ssl" /\ Head(chunk) \in ServerFrame
      BY <3>2, <3>3, <3>4 DEF Refusing
    <3>6. Head(chunk).accepted \in BOOLEAN
      BY <3>5 DEF ServerFrame
    <3>7. Tail(chunk) = <<>>
      <4>1. chunk # <<>>
        <5>1. PICK some \in Seq(ServerFrame) : some = chunk /\ Len(some) = 1
          BY <1>6, <3>1
        <5>2. some = <<>> <=> Len(some) = 0
          BY EmptySeq
        <5>3. Len(some) # 0
          BY <5>1
        <5> QED BY <5>1, <5>2, <5>3
      <4>2. Tail(chunk) \in Seq(ServerFrame) /\ Len(Tail(chunk)) = 0
        BY <1>6, <3>1, <4>1
      <4>3. PICK rest \in Seq(ServerFrame) : rest = Tail(chunk) /\ Len(rest) = 0
        BY <4>2, Zenon
      <4>4. rest = <<>>
        BY <4>3, EmptySeq, Zenon
      <4> QED BY <4>3, <4>4
    <3> QED BY <3>5, <3>6, <3>7
  <2>5. d + n = 1 /\ (1 - 1) % 2 = 0 /\ 2 - 2 = 0 /\ Len(<<>>) = 0
    BY <2>1, <2>3
  <2>6. CASE Head(chunk).accepted
    <3>1. q = [r EXCEPT !.phase = "encrypted"]
      BY <1>4, <1>9, <2>6 DEF onServerData
    <3>2. /\ q \in Recorder /\ q.phase = "encrypted" /\ q.sql = r.sql
          /\ q.serverBuffer = <<>> /\ q.completed = <<>>
      BY <2>1, <3>1, Zenon DEF Recorder
    <3>3. UnreadingAt(c, q, Done(c, "up"), d + n)
      BY <2>1, <3>2 DEF UnreadingAt
    <3> QED BY <1>0, <1>1, <1>4, <2>5, <3>2, <3>3
  <2>7. CASE ~ Head(chunk).accepted
    <3>1. q = [r EXCEPT !.phase = "running", !.serverBuffer = <<>>]
      BY <1>4, <1>9, <2>4, <2>7, Zenon DEF onServerData
    <3>2. /\ q \in Recorder /\ q.phase = "running" /\ q.sql = r.sql /\ q.clientBuffer = <<>>
          /\ q.serverBuffer = <<>> /\ q.completed = <<>>
      <4>1. PICK s : s = [r EXCEPT !.serverBuffer = <<>>]
        BY Zenon
      <4>2. s \in Recorder /\ s.clientBuffer = <<>> /\ s.sql = r.sql
            /\ s.serverBuffer = <<>> /\ s.completed = <<>>
        <5>1. <<>> \in Seq(ServerFrame)
          OBVIOUS
        <5> QED BY <2>1, <4>1, <5>1, Zenon DEF Recorder
      <4>3. q = [s EXCEPT !.phase = "running"]
        BY <3>1, <4>1, Zenon DEF Recorder
      <4> QED BY <4>2, <4>3, Zenon DEF Recorder
    <3>3. UnreadingAt(c, q, Done(c, "up"), d + n)
      <4>1. \A i \in 1 .. Len(q.clientBuffer) : q.clientBuffer[i] = sent[c]["up"][2 + i]
        BY <2>5, <3>2
      <4>2. Len(q.clientBuffer) = Done(c, "up") - 2 /\ Len(q.serverBuffer) = (d + n - 1) % 2
        BY <2>2, <2>5, <3>2
      <4> QED BY <2>1, <2>5, <3>2, <4>1, <4>2 DEF UnreadingAt
    <3> QED BY <1>0, <1>1, <1>4, <2>5, <3>2, <3>3
  <2> QED BY <2>4, <2>6, <2>7
<1>10. CASE r.phase = "running"
  <2>1. /\ d > 0 /\ Len(buffer) = (d - 1) % 2 /\ (~ Astray(c) => r.sql = NoSql)
        /\ Done(c, "up") >= 2
        /\ ~ Astray(c) =>
            /\ Len(r.clientBuffer) = Done(c, "up") - 2
            /\ \A i \in 1 .. Len(r.clientBuffer) : r.clientBuffer[i] = sent[c]["up"][2 + i]
    BY <1>b, <1>5, <1>10 DEF UnreadingAt
  <2>0. PICK S : S = Numbered(RunOn(c))
    OBVIOUS
  <2>2. PICK whole \in Seq(S) : whole = buffer \o chunk /\ Len(whole) = ((d - 1) % 2) + n
    <3>2. buffer \in Seq(S) /\ sent[c]["down"] \in Seq(S)
      BY <1>5, <1>b, <2>0 DEF UnreadingAt, Refusing
    <3>3. chunk \in Seq(S)
      <4>1. PICK unread \in Seq(S) : unread = wire[c]["down"]
        BY <3>2, UnreadFrames
      <4> QED BY <1>4, <4>1
    <3>4. buffer \o chunk \in Seq(S) /\ Len(buffer \o chunk) = Len(buffer) + Len(chunk)
      BY <3>2, <3>3, SMTT(30)
    <3> QED BY <1>6, <2>1, <3>4, Zenon
  <2>3. whole \in Seq(ServerFrame)
    BY <2>0, NumberedTyped
  <2>4. PICK frames, rest \in Seq(S) :
          /\ frames = Decodable(whole) /\ rest = Remainder(whole) /\ Len(rest) = Len(whole) % 2
          /\ rest \in Seq(ServerFrame)
    <3>1. /\ Decodable(whole) \in Seq(S) /\ Remainder(whole) \in Seq(S)
          /\ Len(Remainder(whole)) = Len(whole) % 2
      BY SplitTyped
    <3> QED BY <2>0, <3>1, NumberedTyped
  <2>5. Len(rest) = (d + n - 1) % 2
    <3>1. PICK e \in Nat : e = d - 1 /\ d = e + 1
      BY <2>1
    <3>2. ((e % 2) + n) % 2 = (e + n) % 2
      <4>1. PICK l \in Nat : l = (e % 2) + n
        <5>1. (e % 2) + n \in Nat
          BY <1>2
        <5> QED BY <5>1
      <4>2. PICK h, m \in Nat : h = e \div 2 /\ m = l \div 2
        BY Parity
      <4> QED BY <1>2, <4>1, <4>2, HalvesAdd
    <3>3. d + n - 1 = e + n
      BY ONLY <3>1, <1>2, e \in Nat
    <3> QED BY <2>2, <2>4, <3>1, <3>2, <3>3
  <2>6. PICK s, start : s = [r EXCEPT !.serverBuffer = whole] /\ start = [r EXCEPT !.serverBuffer = rest]
    BY Zenon
  <2>7. /\ start \in Recorder /\ start.serverBuffer = rest /\ start.completed = <<>>
        /\ start.sql = r.sql /\ start.phase = "running" /\ start.clientBuffer = r.clientBuffer
        /\ [s EXCEPT !.serverBuffer = rest] = start /\ s.serverBuffer = whole
    BY <1>10, <2>3, <2>4, <2>6, Zenon DEF Recorder
  <2>8. q = ReadServer(s)
    BY <1>4, <1>5, <1>10, <2>2, <2>6 DEF onServerData
  <2>9. ReadServer(s) = AfterServer([s EXCEPT !.serverBuffer = Remainder(s.serverBuffer)],
                                    Decodable(s.serverBuffer))
    BY ReadsAre, Zenon
  <2>10. q = AfterServer(start, frames)
    BY <2>4, <2>7, <2>8, <2>9, Zenon
  <2>11. Heeds(q, start, RunOn(c))
    BY <2>0, <2>4, <2>7, <2>10, HeedFrames
  <2>12. /\ q.serverBuffer = rest /\ q.sql = r.sql /\ q.phase = "running"
         /\ q.clientBuffer = r.clientBuffer /\ q \in Recorder
         /\ ~ Astray(c) => q.completed = <<>>
         /\ \A k \in 1 .. Len(q.completed) : Ser(q.completed[k]) \in RunOn(c)
    BY <2>1, <2>7, <2>11 DEF Heeds, SameUp
  <2>13. UnreadingAt(c, q, Done(c, "up"), d + n)
    <3>1. d + n > 0
      BY <1>2
    <3> QED BY <2>0, <2>1, <2>4, <2>5, <2>12, <3>1 DEF UnreadingAt
  <2>14. Len(q.serverBuffer) < 2
    <3>1. PICK e \in Nat : e = d + n - 1
      BY <1>2, <2>1
    <3>2. e % 2 \in {0, 1}
      BY Parity
    <3> QED BY <2>5, <2>12, <3>1, <3>2
  <2> QED BY <1>1, <1>4, <2>12, <2>13, <2>14
<1>11. r.phase \in {"initial", "awaiting-ssl-reply", "running", "encrypted"}
  BY DEF Recorder
<1> QED BY <1>7, <1>8, <1>9, <1>10, <1>11

\* Nothing is claimed of what a connection adds that has gone astray, but whose it is.
LEMMA AstrayAdds ==
  ASSUME Typed, Matched(interactions), Rising(interactions), NEW c \in Connection, Astray(c),
         NEW list \in Seq(Interaction), \A k \in 1 .. Len(list) : Ser(list[k]) \in RunOn(c)
  PROVE  Matched(interactions \o list) /\ Rising(interactions \o list)
<1>1. PICK before \in Seq(Interaction), l \in Nat, more \in {interactions \o list} :
        /\ before = interactions /\ l = Len(before) /\ more = interactions \o list
        /\ \A k \in 1 .. Len(more) :
              \/ k \in 1 .. l /\ more[k] = before[k]
              \/ k > l /\ k - l \in 1 .. Len(list) /\ more[k] = list[k - l]
  <2>1. PICK before \in Seq(Interaction), l \in Nat : before = interactions /\ l = Len(before)
    BY DEF Typed
  <2>2. \A k \in 1 .. Len(before \o list) :
              \/ k \in 1 .. l /\ (before \o list)[k] = before[k]
              \/ k > l /\ k - l \in 1 .. Len(list) /\ (before \o list)[k] = list[k - l]
    BY <2>1
  <2> QED BY <2>1, <2>2, Zenon
<1>2. \A s \in RunOn(c) : s \in 1 .. Len(executed) /\ executed[s].on = c
  BY DEF RunOn, Typed
<1>3. \A k \in 1 .. Len(more) :
        \/ k \in 1 .. l /\ more[k] = before[k]
        \/ k > l /\ Ser(more[k]) \in 1 .. Len(executed) /\ executed[Ser(more[k])].on = c
  BY <1>1, <1>2
<1>4. Matched(more)
  BY <1>1, <1>3 DEF Matched, Sound
<1>5. Rising(more)
  <2> SUFFICES ASSUME NEW j \in 1 .. Len(more), NEW k \in 1 .. Len(more), j < k,
                      executed[Ser(more[j])].on = executed[Ser(more[k])].on,
                      ~ Astray(executed[Ser(more[k])].on)
               PROVE  Ser(more[j]) < Ser(more[k])
    BY Zenon DEF Rising
  <2>1. k \in 1 .. l /\ more[k] = before[k]
    BY <1>3
  <2>2. j \in 1 .. l /\ more[j] = before[j]
    BY <1>1, <1>3, <2>1
  <2> QED BY <1>1, <2>1, <2>2 DEF Rising
<1> QED BY <1>1, <1>4, <1>5
-----------------------------------------------------------------------------

LEMMA UpstreamDataKeeps ==
  ASSUME Relayed, Relayed', IInv, NEW c \in Connection, Proxy!UpstreamData(c),
         UNCHANGED <<serverVars, driverVars>>
  PROVE  IInv'
<1>1. PICK n, q :
        /\ Chunked(c, "down", n) /\ n \in 1 .. Len(wire[c]["down"])
        /\ q = onServerData(recorder[c], SubSeq(wire[c]["down"], 1, n))
        /\ interactions' = interactions \o q.completed
        /\ recorder' = [recorder EXCEPT ![c] = [q EXCEPT !.completed = <<>>]]
  BY Zenon DEF Proxy!UpstreamData, Proxy!Forward, Chunked, completed, drain
<1>2. /\ Passes(c) /\ bridge[c] = "open" /\ n \in Nat /\ n > 0
      /\ \A b \in Connection : b # c => wire'[b] = wire[b]
      /\ Done(c, "down")' = Done(c, "down") + n /\ Done(c, "up")' = Done(c, "up")
  BY <1>1, ChunkPasses
<1>3. UNCHANGED <<bridge, got, sent>>
  BY DEF Proxy!UpstreamData
<1>4. Typed /\ Matched(interactions) /\ Rising(interactions)
  BY DEF IInv
<1>5. PICK note, shown : Connected(c, note, shown)
  BY DEF IInv
<1>6. /\ Scripted(c, note)' /\ Serving(c, note)'
      /\ ~ AskedForTls(c) => Spoken(c, note, shown)' /\ Single(c, note)' /\ Lately(c, note)'
      /\ Heard(c)' \in Nat
  BY <1>2, <1>4, <1>5, PassesLeaves
<1>7. /\ Up(c)' = Up(c) /\ Down(c)' = Down(c) /\ (AskedForTls(c)' <=> AskedForTls(c))
      /\ executed' = executed /\ (Astray(c)' <=> Astray(c)) /\ RunOn(c)' = RunOn(c)
  BY <1>2, PassesSame
<1>8. Scripted(c, note) /\ Serving(c, note) /\ Read(c)' = Read(c)
  BY <1>2, <1>5 DEF Connected, Read
<1>9. PICK r, s : r = recorder[c] /\ s = [q EXCEPT !.completed = <<>>]
  BY Zenon
<1>10. /\ r \in Recorder /\ r.completed = <<>> /\ recorder'[c] = s
       /\ \A b \in Connection : b # c => recorder'[b] = recorder[b]
       /\ s \in Recorder => recorder' \in [Connection -> Recorder]
  BY <1>1, <1>4, <1>9 DEF Typed
<1>11. ASSUME q \in Recorder
       PROVE  /\ s \in Recorder /\ s.completed = <<>> /\ SameUp(s, q)
              /\ s.columns = q.columns /\ s.rows = q.rows /\ q.completed \in Seq(Interaction)
  <2>1. <<>> \in Seq(Interaction)
    OBVIOUS
  <2> QED BY <1>9, <1>11, <2>1, Zenon DEF Recorder, SameUp
<1>12. Passed(c, q.completed)
  <2>1. CASE AskedForTls(c)
    <3>1. Refusing(c) /\ Unreading(c) /\ Len(r.serverBuffer) < 2
      BY <1>2, <1>5, <1>9, <2>1 DEF Connected, Refusing
    <3>2. UnreadingAt(c, r, Done(c, "up"), Done(c, "down"))
      BY <1>9, <3>1 DEF Unreading, UnreadingAt
    <3>3. /\ q \in Recorder /\ UnreadingAt(c, q, Done(c, "up"), Done(c, "down") + n)
          /\ Len(q.serverBuffer) < 2 /\ (~ Astray(c) => q.completed = <<>>)
          /\ \A k \in 1 .. Len(q.completed) : Ser(q.completed[k]) \in RunOn(c)
      BY <1>1, <1>4, <1>8, <1>9, <1>10, <2>1, <3>1, <3>2, ServerUnreads
    <3>4. /\ s \in Recorder /\ s.completed = <<>> /\ SameUp(s, q) /\ q.completed \in Seq(Interaction)
      BY <1>11, <3>3
    <3>5. Unreading(c)'
      <4>1. PICK d : d = Done(c, "down") + n
        OBVIOUS
      <4>2. Done(c, "down")' = d /\ UnreadingAt(c, q, Done(c, "up"), d)
        BY <1>2, <3>3, <4>1
      <4>3. UnreadingAt(c, s, Done(c, "up"), d)
        BY <3>4, <4>2 DEF UnreadingAt, SameUp
      <4> QED BY <1>2, <1>3, <1>7, <1>10, <4>2, <4>3 DEF Unreading, UnreadingAt
    <3>6. Refusing(c)'
      <4>1. Len(recorder'[c].serverBuffer) < 2
        BY <1>10, <3>3, <3>4 DEF SameUp
      <4> QED BY <1>2, <3>1, <3>5, <4>1, PassesRefusing
    <3>7. Connected(c, note, shown)'
      BY <1>6, <1>7, <2>1, <3>6 DEF Connected
    <3>8. \A k \in 1 .. Len(q.completed) : executed[Ser(q.completed[k])].on = c
      BY <3>3 DEF RunOn
    <3>9. Matched(interactions') /\ Rising(interactions')
      <4>1. CASE Astray(c)
        BY <1>1, <1>4, <3>3, <3>4, <4>1, AstrayAdds
      <4>2. CASE ~ Astray(c)
        <5>1. interactions' = interactions
          BY <1>1, <1>4, <3>3, <4>2 DEF Typed
        <5> QED BY <1>4, <5>1
      <4> QED BY <4>1, <4>2
    <3>11. recorder' \in [Connection -> Recorder] /\ recorder'[c].completed = <<>>
      BY <1>10, <3>4
    <3> QED BY <1>1, <1>2, <1>3, <1>10, <3>4, <3>7, <3>8, <3>9, <3>11 DEF Passed
  <2>2. CASE ~ AskedForTls(c)
    <3>1. Answering(c, note, shown)
      BY <1>5, <2>2 DEF Connected
    <3>2. Reader(c, note, shown)
      BY <1>2, <3>1 DEF Answering
    <3>3. PICK d : d = Done(c, "down") + n
      OBVIOUS
    <3>4. ServerRead(c, shown, q, r, d) /\ Done(c, "down")' = d
      BY <1>1, <1>2, <1>4, <1>5, <1>9, <2>2, <3>3, ServerReader
    <3>5. /\ s \in Recorder /\ s.completed = <<>> /\ SameUp(s, q)
          /\ s.columns = q.columns /\ s.rows = q.rows /\ q.completed \in Seq(Interaction)
      BY <1>11, <3>4 DEF ServerRead
    <3>6. PICK h : h = d \div 2 /\ Heard(c)' = h
      BY <3>4 DEF Heard
    <3>7. Reader(c, note, shown)'
      <4>1. /\ Len(s.clientBuffer) = Done(c, "up") % 2
            /\ \A i \in 1 .. Len(s.clientBuffer) :
                  s.clientBuffer[i] = sent[c]["up"][2 * Read(c) + i]
            /\ s.phase = (IF Read(c) = 0 THEN "initial" ELSE "running")
            /\ s.prepared = note[Read(c)].prepared
            /\ s.sql = note[Read(c)].sql /\ s.params = note[Read(c)].params
        BY <1>9, <3>2, <3>4, <3>5 DEF Reader, ServerRead, SameUp
      <4>2. /\ s.columns = shown[h].columns /\ s.rows = shown[h].rows
            /\ Len(s.serverBuffer) = d % 2
            /\ \A i \in 1 .. Len(s.serverBuffer) :
                  s.serverBuffer[i] = sent[c]["down"][2 * h + i]
        BY <3>4, <3>5, <3>6, SMTT(30) DEF ServerRead, SameUp
      <4> QED BY <1>2, <1>3, <1>8, <1>10, <3>4, <3>6, <4>1, <4>2 DEF Reader
    <3>8. Lists(c, interactions', h)
      BY <1>1, <3>4, <3>6 DEF ServerRead
    <3>9. Listed(c)'
      <4>1. Kept(c, interactions', Heard(c)') /\ Ahead(c, interactions', Heard(c)')
        BY <3>6, <3>8 DEF Lists
      <4> QED BY <1>2, <1>6, <4>1, ListedPasses
    <3>10. Len(recorder'[c].serverBuffer) < 2
      <4>1. d \in Nat
        BY <1>2, <3>3 DEF Relayed, Streamed
      <4>2. d % 2 \in {0, 1}
        BY <4>1, Parity
      <4> QED BY <1>10, <3>4, <3>5, <4>2 DEF ServerRead, SameUp
    <3>11. Answering(c, note, shown)'
      BY <1>6, <2>2, <3>7, <3>9, <3>10 DEF Answering
    <3>12. Connected(c, note, shown)'
      BY <1>6, <1>7, <2>2, <3>11 DEF Connected
    <3>13. /\ Matched(interactions') /\ Rising(interactions')
           /\ \A k \in 1 .. Len(q.completed) : executed[Ser(q.completed[k])].on = c
      BY <3>4, <3>8 DEF Lists, ServerRead
    <3> QED BY <1>1, <1>2, <1>3, <1>10, <3>5, <3>12, <3>13 DEF Passed
  <2> QED BY <2>1, <2>2
<1> QED BY <1>12, PassedKeeps

-----------------------------------------------------------------------------
(***************************************************************************)
(* The proxy closes a connection.                                          *)
(***************************************************************************)

LEMMA CloseKeeps ==
  ASSUME Relayed, Relayed', IInv, NEW c \in Connection, Proxy!close(c),
         UNCHANGED <<serverVars, driverVars>>
  PROVE  IInv'
<1>1. Typed /\ Matched(interactions) /\ Rising(interactions)
  BY DEF IInv
<1>2. PICK note, shown : Connected(c, note, shown)
  BY DEF IInv
<1>3. PICK r, s : r = recorder[c] /\ s = [r EXCEPT !.completed = <<>>]
  BY Zenon
<1>4. /\ r \in Recorder /\ r.completed = <<>> /\ s \in Recorder /\ s.completed = <<>>
      /\ s.serverBuffer = r.serverBuffer
  <2>1. r \in Recorder /\ r.completed = <<>> /\ <<>> \in Seq(Interaction)
    BY <1>1, <1>3 DEF Typed
  <2> QED BY <1>3, <2>1, Zenon DEF Recorder
<1>5. /\ recorder'[c] = s /\ recorder' \in [Connection -> Recorder]
      /\ \A b \in Connection : b # c => recorder'[b] = recorder[b]
  <2>1. recorder' = [recorder EXCEPT ![c] = s] /\ recorder \in [Connection -> Recorder]
    BY <1>1, <1>3 DEF Proxy!close, drain, Typed
  <2> QED BY <1>4, <2>1
<1>6. interactions' = interactions \o <<>> /\ interactions' = interactions
  <2>1. interactions' = interactions \o <<>> /\ interactions \in Seq(Interaction)
    BY <1>1, <1>3, <1>4 DEF Proxy!close, completed, Typed
  <2> QED BY <2>1
<1>7. /\ bridge'[c] = "closed" /\ UNCHANGED <<got, sent>>
      /\ wire'[c]["up"] = <<>> /\ wire'[c]["down"] = <<>>
      /\ \A b \in Connection : b # c => bridge'[b] = bridge[b] /\ wire'[b] = wire[b]
  BY DEF Proxy!close, Proxy!Direction, Relayed, Flow
<1>8. Passes(c)
  <2>1. Counts(c)
    BY StreamsCount
  <2>2. /\ Done(c, "up")' = Len(sent[c]["up"]) - 0
        /\ Done(c, "down")' = Len(sent[c]["down"]) - 0
    <3>1. Len(<<>>) = 0
      OBVIOUS
    <3> QED BY <1>7, <3>1 DEF Done
  <2>3. /\ Done(c, "up") <= Done(c, "up")' /\ Done(c, "down") <= Done(c, "down")'
        /\ Len(got[c]["up"]) <= Len(got'[c]["up"]) /\ Len(got[c]["down"]) <= Len(got'[c]["down"])
    BY <1>7, <2>1, <2>2 DEF Counts
  <2> QED BY <1>7, <2>3 DEF Passes
<1>9. /\ Scripted(c, note)' /\ Serving(c, note)'
      /\ ~ AskedForTls(c) => Spoken(c, note, shown)' /\ Single(c, note)' /\ Lately(c, note)'
  BY <1>1, <1>2, <1>8, PassesLeaves
<1>10. Down(c)' = Down(c) /\ (AskedForTls(c)' <=> AskedForTls(c))
  BY <1>8, PassesSame
<1>11. Connected(c, note, shown)'
  <2>1. CASE AskedForTls(c)
    <3>1. Refusing(c)
      BY <1>2, <2>1 DEF Connected
    <3>2. Len(recorder'[c].serverBuffer) < 2
      BY <1>3, <1>4, <1>5, <3>1 DEF Refusing
    <3>3. Refusing(c)'
      BY <1>7, <1>8, <3>1, <3>2, PassesRefusing
    <3> QED BY <1>9, <1>10, <2>1, <3>3 DEF Connected
  <2>2. CASE ~ AskedForTls(c)
    <3>1. Answering(c, note, shown)
      BY <1>2, <2>2 DEF Connected
    <3>2. Len(recorder'[c].serverBuffer) < 2
      BY <1>3, <1>4, <1>5, <3>1 DEF Answering
    <3>3. Listed(c)'
      <4>1. Kept(c, interactions, Len(got[c]["down"]) \div 2)
        BY <3>1, Zenon DEF Answering, Listed
      <4>2. Kept(c, interactions, Len(got[c]["down"]) \div 2)'
        BY <1>6, <1>7, <1>10, <4>1, Zenon DEF Kept
      <4> QED BY <1>7, <4>2, Zenon DEF Listed
    <3>4. Answering(c, note, shown)'
      BY <1>7, <1>9, <2>2, <3>2, <3>3 DEF Answering
    <3> QED BY <1>9, <1>10, <2>2, <3>4 DEF Connected
  <2> QED BY <2>1, <2>2
<1>12. Passed(c, <<>>)
  <2>1. <<>> \in Seq(Interaction) /\ Len(<<>>) = 0
    OBVIOUS
  <2>2. Matched(interactions') /\ Rising(interactions')
    BY <1>1, <1>6
  <2> QED BY <1>4, <1>5, <1>6, <1>7, <1>8, <1>11, <2>1, <2>2 DEF Passed
<1> QED BY <1>12, PassedKeeps
-----------------------------------------------------------------------------
(***************************************************************************)
(* The invariant.                                                          *)
(***************************************************************************)

LEMMA EmptyStream == Decodable(<<>>) = <<>> /\ HalvesOf(<<>>) = <<>>
<1>1. PICK none \in Seq(Byte) : none = <<>> /\ Len(none) = 0
  <2>1. <<>> \in Seq(Byte) /\ Len(<<>>) = 0
    OBVIOUS
  <2> QED BY <2>1, Zenon
<1>2. Len(none) \div 2 = 0
  BY <1>1
<1>3. PICK decoded \in Seq(Byte) : decoded = Decodable(none)
  BY SplitTyped
<1>4. Len(decoded) = 0
  <2>1. Decodable(none) = [k \in 1 .. 0 |-> none[2 * k]]
    BY <1>2 DEF Decodable
  <2> QED BY <1>3, <2>1
<1>5. PICK halves \in Seq(Byte) : halves = HalvesOf(none) /\ Len(halves) = 2 * Len(none)
  BY HalvesOfFrames
<1>6. decoded = <<>> /\ halves = <<>>
  BY <1>1, <1>4, <1>5, EmptySeq
<1> QED BY <1>1, <1>3, <1>5, <1>6

LEMMA InitConnected ==
  ASSUME Init, NEW c \in Connection, NEW note, NEW shown, note[0] = Blank, shown[0] = Nothing
  PROVE  Connected(c, note, shown)
<1>1. /\ sent[c]["up"] = <<>> /\ sent[c]["down"] = <<>> /\ got[c]["up"] = <<>> /\ got[c]["down"] = <<>>
      /\ wire[c]["up"] = <<>> /\ wire[c]["down"] = <<>> /\ recorder[c] = NewPostgresRecorder
      /\ interactions = <<>>
  BY DEF Init, Proxy!Init, Proxy!PerDirection, Proxy!Direction
<1>2. /\ served[c] = 0 /\ skipping[c] = FALSE /\ told[c] = FALSE /\ executed = <<>>
      /\ known[c] = [name \in StatementName |-> Unparsed] /\ asked[c] = <<>> /\ syncs[c] = 0
  BY DEF Init
<1>3. Up(c) = <<>> /\ Down(c) = <<>> /\ HalvesOf(Up(c)) = <<>> /\ HalvesOf(Down(c)) = <<>>
  BY <1>1, EmptyStream DEF Up, Down
<1>4. Len(<<>>) = 0 /\ 0 \div 2 = 0 /\ 0 % 2 = 0 /\ 0 - 0 = 0 /\ 2 * 0 = 0
  OBVIOUS
<1>5. Len(Up(c)) = 0 /\ Len(Down(c)) = 0
  BY <1>3, <1>4
<1>6. Done(c, "up") = 0 /\ Done(c, "down") = 0 /\ Read(c) = 0 /\ Heard(c) = 0
  BY <1>1, <1>4 DEF Done, Read, Heard
<1>7. ~ AskedForTls(c)
  BY <1>1 DEF AskedForTls
<1>8. RunOn(c) = {} /\ IsFiniteSet({}) /\ Cardinality({}) = 0
  <2>1. DOMAIN executed = {}
    BY <1>2
  <2> QED BY <2>1, FS_EmptySet DEF RunOn
<1>9. \A i : i \notin 1 .. 0 /\ i \notin 0 + 1 .. 0
  OBVIOUS
<1>10. \A i \in 0 .. 0 : i = 0
  OBVIOUS
<1>11. Scripted(c, note)
  <2>1. Meant(Blank, <<>>)
    BY <1>4 DEF Meant, Blank, Starting
  <2>2. Leads(<<>>, note, <<>>)
    <3>1. \A i \in 1 .. Len(<<>>) :
            note[i] = After(note[i - 1], <<>>[i]) /\ Follows(note[i - 1].type, <<>>[i].type)
      BY <1>4, <1>9
    <3>2. \A i \in 0 .. Len(<<>>) : note[i] \in Note /\ Meant(note[i], <<>>)
      BY <1>4, <1>10, <2>1, BlankType
    <3>3. \A i, j \in 0 .. Len(<<>>) :
            i <= j => note[i].nth <= note[j].nth /\ note[i].ends <= note[j].ends
      <4>1. Blank.nth <= Blank.nth /\ Blank.ends <= Blank.ends
        BY DEF Blank
      <4> QED BY <1>4, <1>10, <4>1
    <3> QED BY <3>1, <3>2, <3>3 DEF Leads
  <2>3. /\ Blank.type \in Ends \union Starting /\ Blank.nth = 0 /\ Blank.ends = 0
        /\ \A name \in StatementName : known[c][name] = Unparsed
    BY <1>2 DEF Blank, Starting
  <2> QED BY <1>1, <1>2, <1>3, <1>4, <1>7, <2>2, <2>3 DEF Scripted
<1>12. Serving(c, note)
  <2>1. Blank.type = "none" /\ Blank.nth = 0
    BY DEF Blank
  <2> QED BY <1>1, <1>2, <1>4, <1>5, <1>8, <2>1 DEF Serving
<1>13. Spoken(c, note, shown)
  <2>1. Tells(<<>>, shown)
    <3>1. Nothing \in Account
      <4>1. <<>> \in Seq(Sql) /\ <<>> \in Seq(Nat)
        OBVIOUS
      <4> QED BY <4>1 DEF Nothing, Account
    <3>2. {k \in 1 .. 0 : <<>>[k].type = "Z"} = {} /\ Nothing.ready = 0
      BY <1>9 DEF Nothing
    <3>3. \A j \in 1 .. Len(<<>>) :
            shown[j] = Show(shown[j - 1], <<>>[j]) /\ <<>>[j].type # "ssl"
      BY <1>4, <1>9
    <3>4. \A j \in 0 .. Len(<<>>) :
            /\ shown[j] \in Account
            /\ IsFiniteSet({k \in 1 .. j : <<>>[k].type = "Z"})
            /\ Cardinality({k \in 1 .. j : <<>>[k].type = "Z"}) = shown[j].ready
      <4> SUFFICES ASSUME NEW j \in 0 .. Len(<<>>)
                   PROVE  /\ shown[j] \in Account
                          /\ IsFiniteSet({k \in 1 .. j : <<>>[k].type = "Z"})
                          /\ Cardinality({k \in 1 .. j : <<>>[k].type = "Z"}) = shown[j].ready
        OBVIOUS
      <4>1. j = 0
        BY <1>4, <1>10
      <4> QED BY <1>8, <3>1, <3>2, <4>1
    <3>5. \A i, j \in 0 .. Len(<<>>) : i <= j => shown[i].ready <= shown[j].ready
      <4>1. Nothing.ready <= Nothing.ready
        BY <3>2
      <4> QED BY <1>4, <1>10, <4>1
    <3> QED BY <3>3, <3>4, <3>5 DEF Tells
  <2>2. Resulted(c, <<>>, shown)
    BY <1>4, <1>8, <1>9 DEF Resulted
  <2>3. /\ Nothing.ready = 0 /\ Nothing.rows = <<>> /\ Nothing.columns = <<>>
        /\ Blank.type = "none" /\ Blank.ends = 0
    BY DEF Nothing, Blank
  <2> QED BY <1>1, <1>2, <1>3, <1>4, <2>1, <2>2, <2>3 DEF Spoken, Ends
<1>14. Single(c, note) /\ Lately(c, note)
  <2>1. \A i \in served[c] + 1 .. Len(Up(c)) : FALSE
    BY <1>2, <1>5, <1>9
  <2>2. \A j \in Heard(c) + 1 .. Len(Down(c)) : FALSE
    BY <1>5, <1>6, <1>9
  <2> QED BY <2>1, <2>2 DEF Single, Lately
<1>15. Reader(c, note, shown) /\ Len(recorder[c].serverBuffer) < 2
  <2>1. PICK r : r = recorder[c]
    OBVIOUS
  <2>2. /\ r.clientBuffer = <<>> /\ r.serverBuffer = <<>> /\ r.phase = "initial"
        /\ r.prepared = Blank.prepared /\ r.sql = Blank.sql /\ r.params = Blank.params
        /\ r.columns = Nothing.columns /\ r.rows = Nothing.rows
    BY <1>1, <2>1 DEF NewPostgresRecorder, Blank, Nothing
  <2>3. Len(r.clientBuffer) = 0 /\ Len(r.serverBuffer) = 0
    BY <1>4, <2>2
  <2>4. /\ \A i \in 1 .. Len(r.clientBuffer) : r.clientBuffer[i] = sent[c]["up"][2 * Read(c) + i]
        /\ \A i \in 1 .. Len(r.serverBuffer) : r.serverBuffer[i] = sent[c]["down"][2 * Heard(c) + i]
    BY <1>9, <2>3
  <2> QED BY <1>4, <1>6, <2>1, <2>2, <2>3, <2>4 DEF Reader
<1>16. Listed(c)
  <2>1. \A j \in 1 .. Len(Down(c)) : FALSE
    BY <1>5, <1>9
  <2>2. \A j \in Heard(c) + 1 .. Len(Down(c)) : FALSE
    BY <1>5, <1>6, <1>9
  <2> QED BY <2>1, <2>2, Zenon DEF Listed, Kept, Ahead
<1> QED BY <1>7, <1>11, <1>12, <1>13, <1>14, <1>15, <1>16 DEF Connected, Answering

LEMMA InitIInv == Init => IInv
<1> SUFFICES ASSUME Init PROVE IInv
  OBVIOUS
<1>1. /\ executed = <<>> /\ interactions = <<>> /\ trips = 0
      /\ asked = [c \in Connection |-> <<>>] /\ syncs = [c \in Connection |-> 0]
      /\ known = [c \in Connection |-> [name \in StatementName |-> Unparsed]]
      /\ served = [c \in Connection |-> 0]
      /\ skipping = [c \in Connection |-> FALSE] /\ told = [c \in Connection |-> FALSE]
      /\ recorder = [c \in Connection |-> NewPostgresRecorder]
      /\ \A c \in Connection : sent[c]["up"] = <<>> /\ sent[c]["down"] = <<>>
  BY DEF Init, Proxy!Init, Proxy!PerDirection, Proxy!Direction
<1>2. Typed
  <2>1. /\ <<>> \in Seq(Run) /\ <<>> \in Seq(Interaction) /\ <<>> \in Seq(Sql \X Params)
        /\ <<>> \in Seq(Frame) /\ <<>> \in Seq(ServerFrame) /\ <<>> \in Seq(Sql) /\ <<>> \in Seq(Nat)
    OBVIOUS
  <2>2. [name \in StatementName |-> Unparsed] \in Prepared
    BY DEF Prepared
  <2>3. NewPostgresRecorder \in Recorder /\ NewPostgresRecorder.completed = <<>>
    BY <2>1, <2>2, StatementAssumption DEF NewPostgresRecorder, Recorder
  <2>4. /\ executed \in Seq(Run) /\ interactions \in Seq(Interaction) /\ trips \in Nat
        /\ asked \in [Connection -> Seq(Sql \X Params)]
        /\ known \in [Connection -> Prepared]
    BY <1>1, <2>1, <2>2
  <2>5. /\ served \in [Connection -> Nat] /\ syncs \in [Connection -> Nat]
        /\ skipping \in [Connection -> BOOLEAN] /\ told \in [Connection -> BOOLEAN]
    BY <1>1
  <2>6. /\ recorder \in [Connection -> Recorder]
        /\ \A c \in Connection : recorder[c].completed = <<>>
    BY <1>1, <2>3
  <2>7. \A c \in Connection : sent[c]["up"] \in Seq(Frame) /\ sent[c]["down"] \in Seq(ServerFrame)
    BY <1>1, <2>1, Zenon
  <2> QED BY <2>4, <2>5, <2>6, <2>7 DEF Typed
<1>3. Len(<<>>) = 0 /\ \A i : i \notin 1 .. 0
  OBVIOUS
<1>5. Matched(interactions) /\ Rising(interactions)
  BY <1>1, <1>3 DEF Matched, Rising
<1>6. ASSUME NEW c \in Connection
      PROVE  \E note, shown : Connected(c, note, shown)
  <2>1. PICK note, shown : note = [i \in {0} |-> Blank] /\ shown = [i \in {0} |-> Nothing]
    BY Zenon
  <2>2. note[0] = Blank /\ shown[0] = Nothing
    BY <2>1
  <2>3. Connected(c, note, shown)
    BY <2>2, InitConnected
  <2> QED BY <2>3
<1> QED BY <1>2, <1>5, <1>6 DEF IInv

LEMMA NextKeeps ==
  ASSUME Relayed, Relayed', IInv, [Next]_vars
  PROVE  IInv'
<1>1. ASSUME NEW c \in Connection, RequestTls(c) \/ Startup(c)
      PROVE  IInv'
  <2>1. Stepped(c)
    BY <1>1, DriverSteps
  <2> QED BY <2>1, SteppedKeeps
<1>2. ASSUME NEW c \in Connection, NEW trip \in RoundTrip, Ask(c, trip)
      PROVE  IInv'
  <2>1. Stepped(c)
    BY <1>2, DriverSteps
  <2> QED BY <2>1, SteppedKeeps
<1>3. ASSUME NEW c \in Connection, Server(c)
      PROVE  IInv'
  <2>1. Stepped(c)
    BY <1>3, ServerSteps
  <2> QED BY <2>1, SteppedKeeps
<1>4. ASSUME NEW c \in Connection, Terminate(c)
      PROVE  IInv'
  <2>1. /\ UNCHANGED <<bridge, wire, queue, got, recorder, interactions, sent>>
        /\ UNCHANGED <<serverVars, driverVars>>
    BY <1>4 DEF Terminate, Proxy!End
  <2> QED BY <2>1, EndedKeeps
<1>5. ASSUME NEW c \in Connection, Relay(c)
      PROVE  IInv'
  <2>1. UNCHANGED <<serverVars, driverVars>>
    BY <1>5 DEF Relay
  <2>2. CASE Proxy!ClientData(c)
    BY <2>1, <2>2, ClientDataKeeps
  <2>3. CASE Proxy!UpstreamData(c)
    BY <2>1, <2>3, UpstreamDataKeeps
  <2>4. CASE Proxy!OnEnd(c) \/ Proxy!OnError(c)
    <3>1. Proxy!close(c)
      BY <2>4 DEF Proxy!OnEnd, Proxy!OnError
    <3> QED BY <2>1, <3>1, CloseKeeps
  <2>5. ASSUME NEW d \in {"up", "down"}, Proxy!Take(c, d) PROVE IInv'
    BY <2>1, <2>5, TakeKeeps
  <2> QED BY <1>5, <2>2, <2>3, <2>4, <2>5 DEF Relay, Proxy!Proxy
<1>6. CASE UNCHANGED vars
  <2>1. /\ UNCHANGED <<bridge, wire, queue, got, recorder, interactions, sent>>
        /\ UNCHANGED <<serverVars, driverVars>>
    BY <1>6 DEF vars, proxyVars
  <2> QED BY <2>1, EndedKeeps
<1> QED BY <1>1, <1>2, <1>3, <1>4, <1>5, <1>6 DEF Next

\* What holds throughout, of every recording of Postgres (postgresRecorder.ts).
THEOREM Invariance == Spec => [](Relayed /\ IInv)
<1>1. Spec => []Relayed
  <2>1. Bridge!Spec => []Bridge!Inv
    BY Bridge!InvHolds
  <2> QED BY <2>1, ImplementsProxy, BridgeIsRelayed, PTL
<1>2. Relayed /\ Relayed' /\ IInv /\ [Next]_vars => IInv'
  BY NextKeeps
<1>3. Spec => []IInv
  BY <1>1, <1>2, InitIInv, PTL DEF Spec
<1> QED BY <1>1, <1>3, PTL
-----------------------------------------------------------------------------
(***************************************************************************)
(* What follows from it.                                                   *)
(***************************************************************************)

\* The type invariant.
THEOREM TypeCorrect == Spec => []TypeOK
<1>1. ASSUME Relayed, IInv PROVE TypeOK
  <2>1. Typed
    BY <1>1 DEF IInv
  <2>2. ASSUME NEW c \in Connection
        PROVE  /\ recorder[c].phase \in {"initial", "awaiting-ssl-reply", "running", "encrypted"}
               /\ recorder[c].prepared \in [StatementName -> Sql \union {Unparsed}]
               /\ recorder[c].sql \in Sql \union {NoSql}
               /\ recorder[c].params \in Params
               /\ recorder[c].completed = <<>>
               /\ Len(recorder[c].serverBuffer) < 2
    <3>1. recorder[c] \in Recorder /\ recorder[c].completed = <<>>
      BY <2>1 DEF Typed
    <3>2. PICK note, shown : Connected(c, note, shown)
      BY <1>1 DEF IInv
    <3>3. Len(recorder[c].serverBuffer) < 2
      BY <3>2 DEF Connected, Refusing, Answering
    <3> QED BY <3>1, <3>3 DEF Recorder, Prepared
  <2>3. ASSUME NEW k \in DOMAIN interactions
        PROVE  /\ interactions[k].sql \in Sql
               /\ interactions[k].params \in Params
               /\ interactions[k].result.rows \in Seq(Nat)
    <3>1. interactions[k] \in Interaction
      BY <2>1 DEF Typed
    <3> QED BY <3>1 DEF Interaction, Outcome
  <2> QED BY <2>2, <2>3 DEF TypeOK
<1> QED BY <1>1, Invariance, PTL

\* An interaction is of the statement that its result is of.
LEMMA SoundRecords ==
  ASSUME NEW k \in DOMAIN interactions, NEW s \in DOMAIN executed,
         Sound(interactions[k]), s = Ser(interactions[k]), executed[s].on \notin Pipelining,
         ~ Astray(executed[s].on)
  PROVE  IsRecordOf(k, s)
BY DEF Sound, Faithful, IsRecordOf

\* Each interaction pairs a statement with the result the server gave it; where a driver
\* pipelines the result is one it gave, and where a refusal of TLS has led the recorder
\* astray its tag or error is: postgresRecorder.ts:2, postgresMessages.ts:34-44.
THEOREM PairsAreRealUnlessPipelinedHolds == Spec => []PairsAreRealUnlessPipelined
<1>1. ASSUME IInv PROVE PairsAreRealUnlessPipelined
  <2> SUFFICES ASSUME NEW k \in DOMAIN interactions
               PROVE  \E s \in DOMAIN executed :
                          \/ IsRecordOf(k, s)
                          \/ LET c == executed[s].on
                             IN  \/ /\ c \in Pipelining /\ interactions[k].result = ResultOf(s)
                                    /\ \E m, n \in DOMAIN asked[c] :
                                         /\ interactions[k].sql = asked[c][m][1]
                                         /\ interactions[k].params \in {NoParams, asked[c][n][2]}
                                 \/ /\ Astray(c)
                                    /\ s \in {interactions[k].result.tag,
                                              interactions[k].result.error}
    BY DEF PairsAreRealUnlessPipelined
  <2>1. Typed /\ Matched(interactions)
    BY <1>1 DEF IInv
  <2>2. PICK x : x = interactions[k] /\ Sound(x)
    <3>1. DOMAIN interactions = 1 .. Len(interactions)
      BY <2>1 DEF Typed
    <3> QED BY <2>1, <3>1 DEF Matched
  <2>3. PICK s \in DOMAIN executed : s = Ser(x) /\ (Astray(executed[s].on) \/ Faithful(x))
    BY <2>1, <2>2 DEF Sound, Typed
  <2>4. PICK c : c = executed[s].on /\ c \in Connection
    <3>1. executed[s] \in Run
      BY <2>1 DEF Typed
    <3> QED BY <3>1 DEF Run
  <2>7. CASE Astray(c)
    <3>1. s \in {x.result.tag, x.result.error}
      BY <2>3 DEF Ser
    <3> QED BY <2>2, <2>4, <2>7, <3>1
  <2>5. CASE c \notin Pipelining /\ ~ Astray(c)
    <3>1. IsRecordOf(k, s)
      BY <2>2, <2>3, <2>4, <2>5, SoundRecords
    <3> QED BY <3>1
  <2>6. CASE c \in Pipelining /\ ~ Astray(c)
    <3>5. Faithful(x) /\ x.result = ResultOf(s)
      BY <2>3, <2>4, <2>6 DEF Faithful
    <3>1. DOMAIN asked[c] = 1 .. Len(asked[c])
      BY <2>1, <2>4 DEF Typed
    <3>2. PICK m \in DOMAIN asked[c] : x.sql = asked[c][m][1]
      BY <2>3, <2>4, <3>1, <3>5 DEF Faithful
    <3>3. x.params = NoParams \/ \E n \in DOMAIN asked[c] : x.params = asked[c][n][2]
      BY <2>3, <2>4, <3>1, <3>5 DEF Faithful
    <3>4. \E n \in DOMAIN asked[c] : x.params \in {NoParams, asked[c][n][2]}
      BY <3>2, <3>3
    <3> QED BY <2>2, <2>3, <2>4, <2>6, <3>2, <3>4, <3>5
  <2> QED BY <2>5, <2>6, <2>7
<1> QED BY <1>1, Invariance, PTL

\* No statement is recorded twice, where no connection goes astray.
LEMMA RecordedOnce ==
  ASSUME Typed, Matched(interactions), Rising(interactions), \A c \in Connection : ~ Astray(c)
  PROVE  Len(interactions) <= Len(executed)
<1>1. PICK l, e \in Nat : l = Len(interactions) /\ e = Len(executed)
  BY DEF Typed
<1>2. \A k \in 1 .. l : Ser(interactions[k]) \in 1 .. e
  BY <1>1 DEF Matched, Sound
<1>3. \A j, k \in 1 .. l : j < k => Ser(interactions[j]) # Ser(interactions[k])
  <2> SUFFICES ASSUME NEW j \in 1 .. l, NEW k \in 1 .. l, j < k,
                      Ser(interactions[j]) = Ser(interactions[k])
               PROVE  FALSE
    OBVIOUS
  <2>2. Ser(interactions[k]) \in 1 .. e
    BY <1>2
  <2>3. executed[Ser(interactions[k])] \in Run
    BY <1>1, <2>2 DEF Typed
  <2>4. ~ Astray(executed[Ser(interactions[k])].on)
    BY <2>3 DEF Run
  <2>1. Ser(interactions[j]) < Ser(interactions[k])
    BY <1>1, <2>4 DEF Rising
  <2> QED BY <2>1, <2>2
<1>4. PICK f : f = [k \in 1 .. l |-> Ser(interactions[k])]
  BY Zenon
<1>5. f \in Injection(1 .. l, 1 .. e)
  <2>1. f \in [1 .. l -> 1 .. e]
    BY <1>2, <1>4
  <2>2. \A j, k \in 1 .. l : f[j] = f[k] => j = k
    <3> SUFFICES ASSUME NEW j \in 1 .. l, NEW k \in 1 .. l, f[j] = f[k], j # k
                 PROVE  FALSE
      OBVIOUS
    <3>1. j < k \/ k < j
      OBVIOUS
    <3> QED BY <1>3, <1>4, <3>1
  <2> QED BY <2>1, <2>2 DEF Injection, IsInjective
<1>6. /\ IsFiniteSet(1 .. e)
      /\ Cardinality(1 .. e) = (IF 1 > e THEN 0 ELSE e - 1 + 1)
      /\ Cardinality(1 .. l) = (IF 1 > l THEN 0 ELSE l - 1 + 1)
  BY FS_Interval
<1>7. Cardinality(1 .. l) <= Cardinality(1 .. e)
  BY <1>5, <1>6, FS_Injection
<1> QED BY <1>1, <1>6, <1>7

\* A driver that has all its answers has its statements in the list.
LEMMA AnsweredAreListed ==
  ASSUME Relayed, IInv, NEW c \in Connection, Readable(c), Ready(c) = syncs[c],
         NEW s \in RunOn(c)
  PROVE  InList(interactions, s)
<1>1. PICK note, shown : Connected(c, note, shown)
  BY DEF IInv
<1>2. /\ Typed /\ Scripted(c, note) /\ Serving(c, note) /\ Spoken(c, note, shown) /\ Listed(c)
      /\ ~ AskedForTls(c)
  BY <1>1 DEF IInv, Readable, Connected, Answering
<1>3. PICK j \in 1 .. Len(Down(c)) : Closes(Down(c)[j]) /\ SerialOf(Down(c)[j]) = s
  BY <1>2 DEF Spoken, Resulted
<1>4. syncs[c] \in Nat
  BY <1>2 DEF Typed
<1>5. CASE syncs[c] = 0
  <2>1. Len(Up(c)) = 0
    BY <1>2, <1>5, Unstarted
  <2>2. Len(Down(c)) = 0
    BY <1>1, <1>2, <2>1, Silent
  <2> QED BY <1>3, <2>2
<1>6. CASE syncs[c] > 0
  <2>1. Taken(c) = Len(Down(c))
    BY <1>2, <1>6, AllAnswered
  <2>2. Kept(c, interactions, Taken(c))
    BY <1>2, Zenon DEF Listed, Taken
  <2>3. j <= Taken(c)
    BY <2>1
  <2> QED BY <1>3, <2>2, <2>3 DEF Kept
<1> QED BY <1>4, <1>5, <1>6

\* A driver that neither pipelines nor asks for TLS finds every statement it has an
\* answer to recorded once, in the order they were run.
THEOREM AnsweredIsRecordedHolds == Spec => []AnsweredIsRecorded
<1>1. ASSUME Relayed, IInv PROVE AnsweredIsRecorded
  <2>1. Typed /\ Matched(interactions) /\ Rising(interactions)
    BY <1>1 DEF IInv
  <2>2. (\A c \in Connection : ~ Astray(c)) => Len(interactions) <= Len(executed)
    BY <2>1, RecordedOnce
  <2>3. ASSUME NEW c \in Connection, Readable(c), Ready(c) = syncs[c]
        PROVE  \E position \in [RunOn(c) -> DOMAIN interactions] :
                  /\ \A s \in RunOn(c) : IsRecordOf(position[s], s)
                  /\ \A s, t \in RunOn(c) : s < t => position[s] < position[t]
    <3>1. /\ DOMAIN interactions = 1 .. Len(interactions) /\ Len(interactions) \in Nat
          /\ DOMAIN executed = 1 .. Len(executed) /\ Len(executed) \in Nat
      BY <2>1 DEF Typed
    <3>2. \A s \in RunOn(c) : \E k \in DOMAIN interactions : Ser(interactions[k]) = s
      BY <1>1, <2>3, <3>1, AnsweredAreListed DEF InList
    <3>3. PICK position :
            position = [s \in RunOn(c) |-> CHOOSE k \in DOMAIN interactions : Ser(interactions[k]) = s]
      BY Zenon
    <3>4. /\ position \in [RunOn(c) -> DOMAIN interactions]
          /\ \A s \in RunOn(c) : Ser(interactions[position[s]]) = s
      BY <3>2, <3>3
    <3>5. \A s \in RunOn(c) : /\ s \in DOMAIN executed /\ executed[s].on = c
                              /\ c \notin Pipelining /\ ~ Astray(c)
      BY <2>3 DEF RunOn, Readable, Astray
    <3>6. ASSUME NEW s \in RunOn(c) PROVE IsRecordOf(position[s], s)
      <4>1. PICK k \in DOMAIN interactions : k = position[s] /\ Ser(interactions[k]) = s
        BY <3>4
      <4>2. Sound(interactions[k])
        BY <2>1, <3>1 DEF Matched
      <4> QED BY <3>5, <4>1, <4>2, SoundRecords
    <3>7. ASSUME NEW s \in RunOn(c), NEW t \in RunOn(c), s < t
          PROVE  position[s] < position[t]
      <4>1. PICK j, k \in 1 .. Len(interactions) :
              /\ j = position[s] /\ Ser(interactions[j]) = s
              /\ k = position[t] /\ Ser(interactions[k]) = t
        BY <3>1, <3>4
      <4>2. k < j => t < s
        BY <2>1, <3>5, <4>1 DEF Rising
      <4>3. s \in Nat /\ t \in Nat
        BY <3>1, <3>5
      <4>4. j # k
        BY <3>7, <4>1, <4>3
      <4>5. ~ (k < j)
        BY <3>7, <4>2, <4>3
      <4> QED BY <4>1, <4>4, <4>5
    <3> QED BY <3>4, <3>6, <3>7
  <2> QED BY <2>2, <2>3 DEF AnsweredIsRecorded
<1> QED BY <1>1, Invariance, PTL
=============================================================================
