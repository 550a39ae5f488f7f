---------------------- MODULE RecordingTcpProxyProofs ----------------------
(***************************************************************************)
(* Proofs about the recording proxy, for every protocol recorder: nothing  *)
(* is assumed of NewRecorder, OnClientData, OnServerData, Completed and    *)
(* Drained, so the theorem says that no parser, however it fails, can      *)
(* change what the proxy relays.                                           *)
(***************************************************************************)
EXTENDS RecordingTcpProxy, TLAPS, SequenceTheorems

Flow == [Connection -> [Direction -> Seq(Byte)]]

\* The variables of the data path; the recorder's are not typed.
TypeInv ==
    /\ bridge \in [Connection -> {"open", "closed"}]
    /\ wire \in Flow
    /\ queue \in Flow
    /\ got \in Flow
    /\ sent \in Flow

\* What one direction of one connection conserves.
Conserved(c, d) ==
    /\ bridge[c] = "open" => sent[c][d] = got[c][d] \o queue[c][d] \o wire[c][d]
    /\ bridge[c] = "closed" => queue[c][d] = <<>>

IsStart(c, d) ==
    /\ Len(got[c][d]) <= Len(sent[c][d])
    /\ got[c][d] = SubSeq(sent[c][d], 1, Len(got[c][d]))

IInv ==
    /\ TypeInv
    /\ \A c \in Connection, d \in Direction : Conserved(c, d) /\ IsStart(c, d)

-----------------------------------------------------------------------------

\* Cutting a sequence loses nothing.
LEMMA Cut ==
    ASSUME NEW S, NEW s \in Seq(S), NEW n \in 1 .. Len(s)
    PROVE  /\ SubSeq(s, 1, n) \in Seq(S)
           /\ SubSeq(s, n + 1, Len(s)) \in Seq(S)
           /\ s = SubSeq(s, 1, n) \o SubSeq(s, n + 1, Len(s))
<1>1. Len(s) \in Nat /\ \A i \in 1 .. Len(s) : s[i] \in S
    BY LenProperties
<1>2. SubSeq(s, 1, n) \in Seq(S)
    BY <1>1, SubSeqProperties
<1>3. SubSeq(s, n + 1, Len(s)) \in Seq(S)
    BY <1>1, SubSeqProperties
<1>4. SubSeq(s, 1, n) \o SubSeq(s, n + 1, Len(s)) = SubSeq(s, 1, Len(s))
    BY <1>1, ConcatAdjacentSubSeq
<1> QED BY <1>2, <1>3, <1>4, SubSeqFull

\* The first part of a concatenation is a start of it.
LEMMA StartOfConcat ==
    ASSUME NEW S, NEW s \in Seq(S), NEW t \in Seq(S)
    PROVE  /\ Len(s) <= Len(s \o t)
           /\ s = SubSeq(s \o t, 1, Len(s))
<1>1. Len(s) \in Nat /\ Len(t) \in Nat /\ Len(s \o t) = Len(s) + Len(t)
    BY LenProperties, ConcatProperties
<1>2. CASE s = <<>>
    BY <1>1, <1>2, SubSeqEmpty, EmptySeq
<1>3. CASE s # <<>>
    <2>1. 1 \in 1 .. Len(s) /\ Len(s) \in 1 .. Len(s)
        BY <1>1, <1>3, EmptySeq
    <2>2. SubSeq(s \o t, 1, Len(s)) = SubSeq(s, 1, Len(s))
        BY <2>1, SubSeqOfConcat1
    <2> QED BY <1>1, <2>2, SubSeqFull
<1> QED BY <1>2, <1>3

LEMMA AssociativeInstance ==
    ASSUME NEW x \in Seq(Byte), NEW y \in Seq(Byte), NEW z \in Seq(Byte)
    PROVE  (x \o y) \o z = x \o (y \o z)
BY ConcatAssociative

LEMMA Associative ==
    \A x, y, z \in Seq(Byte) : (x \o y) \o z = x \o (y \o z)
BY AssociativeInstance, Zenon

\* Where conservation holds, what was received is a start of what was sent.
LEMMA ReceivedIsStart ==
    \A g, q, w \in Seq(Byte) :
        Len(g) <= Len(g \o q \o w) /\ g = SubSeq(g \o q \o w, 1, Len(g))
<1>1. ASSUME NEW g \in Seq(Byte), NEW q \in Seq(Byte), NEW w \in Seq(Byte)
      PROVE  Len(g) <= Len(g \o q \o w) /\ g = SubSeq(g \o q \o w, 1, Len(g))
    <2>1. q \o w \in Seq(Byte)
        BY ConcatProperties
    <2>2. Len(g) <= Len(g \o (q \o w)) /\ g = SubSeq(g \o (q \o w), 1, Len(g))
        BY <2>1, StartOfConcat
    <2>3. g \o q \o w = g \o (q \o w)
        BY Associative, Zenon
    <2> QED BY <2>2, <2>3, Zenon
<1> QED BY <1>1

-----------------------------------------------------------------------------

LEMMA InitIInv == Init => IInv
<1> SUFFICES ASSUME Init PROVE IInv
    OBVIOUS
<1>1. <<>> \in Seq(Byte) /\ <<>> \o <<>> \o <<>> = <<>> /\ Len(<<>>) = 0 /\ SubSeq(<<>>, 1, 0) = <<>>
    BY EmptySeq, ConcatEmptySeq, SubSeqEmpty
<1>2. TypeInv
    BY <1>1 DEF Init, TypeInv, Flow, PerDirection
<1>3. ASSUME NEW c \in Connection, NEW d \in Direction
      PROVE  Conserved(c, d) /\ IsStart(c, d)
    BY <1>1 DEF Init, PerDirection, Conserved, IsStart
<1> QED BY <1>2, <1>3 DEF IInv

\* One direction of one connection moves; the rest of the data path stays.
LEMMA WriteStep ==
    ASSUME IInv, NEW c \in Connection, NEW d \in Direction, NEW bytes \in Seq(Byte),
           Write(c, d, bytes)
    PROVE  IInv'
<1> USE DEF IInv, TypeInv, Flow
<1>1. /\ wire[c][d] \o bytes \in Seq(Byte)
      /\ sent[c][d] \o bytes \in Seq(Byte)
      /\ got[c][d] \o queue[c][d] \in Seq(Byte)
    BY ConcatProperties
<1>2. TypeInv'
    BY <1>1 DEF Write
<1>3. ASSUME NEW c2 \in Connection, NEW d2 \in Direction
      PROVE  Conserved(c2, d2)' /\ IsStart(c2, d2)'
    <2>1. CASE c2 = c /\ d2 = d
        <3>1. sent'[c][d] = (got[c][d] \o queue[c][d] \o wire[c][d]) \o bytes
            BY DEF Write, Conserved
        <3>2. wire'[c][d] = wire[c][d] \o bytes /\ got' = got /\ queue' = queue
            BY DEF Write
        <3>3. got[c][d] \in Seq(Byte) /\ queue[c][d] \in Seq(Byte) /\ wire[c][d] \in Seq(Byte)
            OBVIOUS
        <3>4. sent'[c][d] = got'[c][d] \o queue'[c][d] \o wire'[c][d]
            <4> HIDE DEF IInv, TypeInv, Flow
            <4>1. got[c][d] \o queue[c][d] \o wire[c][d] \o bytes
                    = got[c][d] \o queue[c][d] \o (wire[c][d] \o bytes)
                <5>1. PICK x \in Seq(Byte), w \in Seq(Byte) :
                        x = got[c][d] \o queue[c][d] /\ w = wire[c][d]
                    BY <1>1, <3>3
                <5>2. (x \o w) \o bytes = x \o (w \o bytes)
                    BY Associative
                <5> QED BY <5>1, <5>2
            <4> QED BY <3>1, <3>2, <4>1
        <3>5. bridge'[c] = "open"
            BY DEF Write
        <3>6. IsStart(c, d)'
            <4>1. got'[c][d] \in Seq(Byte) /\ queue'[c][d] \in Seq(Byte) /\ wire'[c][d] \in Seq(Byte)
                BY <1>2
            <4> HIDE DEF IInv, TypeInv, Flow
            <4>2. /\ Len(got'[c][d]) <= Len(got'[c][d] \o queue'[c][d] \o wire'[c][d])
                  /\ got'[c][d] = SubSeq(got'[c][d] \o queue'[c][d] \o wire'[c][d], 1, Len(got'[c][d]))
                BY ONLY <4>1, ReceivedIsStart, Zenon
            <4> QED BY <4>2, <3>4 DEF IsStart
        <3> QED BY <2>1, <3>4, <3>5, <3>6 DEF Conserved
    <2>2. CASE ~ (c2 = c /\ d2 = d)
        <3>1. UNCHANGED <<sent[c2][d2], got[c2][d2], queue[c2][d2], wire[c2][d2], bridge[c2]>>
            BY <2>2 DEF Write
        <3> QED BY <3>1 DEF Conserved, IsStart
    <2> QED BY <2>1, <2>2
<1> QED BY <1>2, <1>3

LEMMA TakeStep ==
    ASSUME IInv, NEW c \in Connection, NEW d \in Direction, Take(c, d)
    PROVE  IInv'
<1> USE DEF IInv, TypeInv, Flow
<1>1. PICK n \in 1 .. Len(queue[c][d]) :
            /\ got' = [got EXCEPT ![c][d] = @ \o SubSeq(queue[c][d], 1, n)]
            /\ queue' = [queue EXCEPT ![c][d] = SubSeq(@, n + 1, Len(@))]
    BY DEF Take
<1> DEFINE taken == SubSeq(queue[c][d], 1, n)
           left  == SubSeq(queue[c][d], n + 1, Len(queue[c][d]))
<1>2. taken \in Seq(Byte) /\ left \in Seq(Byte) /\ queue[c][d] = taken \o left
    BY Cut
<1>3. got[c][d] \o taken \in Seq(Byte)
    BY <1>2, ConcatProperties
<1>4. got'[c][d] = got[c][d] \o taken /\ queue'[c][d] = left
    BY <1>1
<1>5. TypeInv'
    BY <1>1, <1>2, <1>3 DEF Take
<1>6. bridge[c] = "open"
    <2>1. queue[c][d] # <<>>
        BY <1>1, EmptySeq
    <2> QED BY <2>1 DEF Conserved
<1>7. ASSUME NEW c2 \in Connection, NEW d2 \in Direction
      PROVE  Conserved(c2, d2)' /\ IsStart(c2, d2)'
    <2>1. CASE c2 = c /\ d2 = d
        <3> HIDE DEF taken, left
        <3>1. sent[c][d] = got[c][d] \o (taken \o left) \o wire[c][d]
            BY <1>2, <1>6 DEF Conserved
        <3>2. got[c][d] \in Seq(Byte) /\ wire[c][d] \in Seq(Byte)
            OBVIOUS
        <3>3. sent[c][d] = (got[c][d] \o taken) \o left \o wire[c][d]
            <4> HIDE DEF IInv, TypeInv, Flow
            <4>1. got[c][d] \o (taken \o left) \o wire[c][d]
                    = (got[c][d] \o taken) \o left \o wire[c][d]
                <5>1. (got[c][d] \o taken) \o left = got[c][d] \o (taken \o left)
                    BY <1>2, <3>2, Associative, Zenon
                <5> QED BY <5>1, Zenon
            <4> QED BY <3>1, <4>1
        <3>4. sent'[c][d] = got'[c][d] \o queue'[c][d] \o wire'[c][d]
            BY <1>4, <3>3 DEF Take
        <3>5. bridge'[c] = "open"
            BY <1>6 DEF Take
        <3>6. IsStart(c, d)'
            <4>1. got'[c][d] \in Seq(Byte) /\ queue'[c][d] \in Seq(Byte) /\ wire'[c][d] \in Seq(Byte)
                BY <1>5
            <4> HIDE DEF IInv, TypeInv, Flow
            <4>2. /\ Len(got'[c][d]) <= Len(got'[c][d] \o queue'[c][d] \o wire'[c][d])
                  /\ got'[c][d] = SubSeq(got'[c][d] \o queue'[c][d] \o wire'[c][d], 1, Len(got'[c][d]))
                BY ONLY <4>1, ReceivedIsStart, Zenon
            <4> QED BY <4>2, <3>4 DEF IsStart
        <3> QED BY <2>1, <3>4, <3>5, <3>6 DEF Conserved
    <2>2. CASE ~ (c2 = c /\ d2 = d)
        <3>1. /\ got'[c2][d2] = got[c2][d2]
              /\ queue'[c2][d2] = queue[c2][d2]
            BY <1>1, <2>2
        <3>2. UNCHANGED <<sent, wire, bridge>>
            BY DEF Take
        <3> QED BY <3>1, <3>2 DEF Conserved, IsStart
    <2> QED BY <2>1, <2>2
<1> QED BY <1>5, <1>7

LEMMA ForwardStep ==
    ASSUME IInv, NEW c \in Connection, NEW d \in Direction, NEW n \in 1 .. Len(wire[c][d]),
           bridge[c] = "open", Forward(c, d, n), UNCHANGED <<bridge, got, sent>>
    PROVE  IInv'
<1> USE DEF IInv, TypeInv, Flow
<1> DEFINE read == SubSeq(wire[c][d], 1, n)
           left == SubSeq(wire[c][d], n + 1, Len(wire[c][d]))
<1>1. read \in Seq(Byte) /\ left \in Seq(Byte) /\ wire[c][d] = read \o left
    BY Cut
<1>2. queue[c][d] \o read \in Seq(Byte) /\ got[c][d] \o queue[c][d] \in Seq(Byte)
    BY <1>1, ConcatProperties
<1>3. wire'[c][d] = left /\ queue'[c][d] = queue[c][d] \o read
    BY DEF Forward
<1>4. TypeInv'
    BY <1>1, <1>2 DEF Forward
<1>5. ASSUME NEW c2 \in Connection, NEW d2 \in Direction
      PROVE  Conserved(c2, d2)' /\ IsStart(c2, d2)'
    <2>1. CASE c2 = c /\ d2 = d
        <3> HIDE DEF read, left
        <3>1. sent[c][d] = (got[c][d] \o queue[c][d]) \o (read \o left)
            BY <1>1 DEF Conserved
        <3>2. got[c][d] \in Seq(Byte) /\ queue[c][d] \in Seq(Byte)
            OBVIOUS
        <3>3. sent[c][d] = got[c][d] \o (queue[c][d] \o read) \o left
            <4> HIDE DEF IInv, TypeInv, Flow
            <4>1. got[c][d] \o queue[c][d] \o (read \o left)
                    = got[c][d] \o (queue[c][d] \o read) \o left
                <5>1. (got[c][d] \o queue[c][d]) \o (read \o left)
                        = ((got[c][d] \o queue[c][d]) \o read) \o left
                    BY <1>1, <1>2, Associative, Zenon
                <5>2. (got[c][d] \o queue[c][d]) \o read = got[c][d] \o (queue[c][d] \o read)
                    BY <1>1, <3>2, Associative, Zenon
                <5> QED BY <5>1, <5>2, Zenon
            <4> QED BY <3>1, <4>1
        <3>4. sent'[c][d] = got'[c][d] \o queue'[c][d] \o wire'[c][d]
            BY <1>3, <3>3
        <3>5. IsStart(c, d)'
            <4>1. got'[c][d] \in Seq(Byte) /\ queue'[c][d] \in Seq(Byte) /\ wire'[c][d] \in Seq(Byte)
                BY <1>4
            <4> HIDE DEF IInv, TypeInv, Flow
            <4>2. /\ Len(got'[c][d]) <= Len(got'[c][d] \o queue'[c][d] \o wire'[c][d])
                  /\ got'[c][d] = SubSeq(got'[c][d] \o queue'[c][d] \o wire'[c][d], 1, Len(got'[c][d]))
                BY ONLY <4>1, ReceivedIsStart, Zenon
            <4> QED BY <4>2, <3>4 DEF IsStart
        <3> QED BY <2>1, <3>4, <3>5 DEF Conserved
    <2>2. CASE ~ (c2 = c /\ d2 = d)
        <3>1. UNCHANGED <<sent[c2][d2], got[c2][d2], queue[c2][d2], wire[c2][d2], bridge[c2]>>
            BY <2>2 DEF Forward
        <3> QED BY <3>1 DEF Conserved, IsStart
    <2> QED BY <2>1, <2>2
<1> QED BY <1>4, <1>5

LEMMA CloseStep ==
    ASSUME IInv, NEW c \in Connection, close(c)
    PROVE  IInv'
<1> USE DEF IInv, TypeInv, Flow
<1>1. [d \in Direction |-> <<>>] \in [Direction -> Seq(Byte)]
    BY EmptySeq
<1>2. TypeInv'
    BY <1>1 DEF close
<1>3. ASSUME NEW c2 \in Connection, NEW d2 \in Direction
      PROVE  Conserved(c2, d2)' /\ IsStart(c2, d2)'
    <2>1. IsStart(c2, d2)'
        BY DEF close, IsStart
    <2>2. Conserved(c2, d2)'
        BY DEF close, Conserved
    <2> QED BY <2>1, <2>2
<1> QED BY <1>2, <1>3

-----------------------------------------------------------------------------

\* A closed connection has nothing on its wires, so its handlers do not run.
WireClosed == \A c \in Connection, d \in Direction : bridge[c] = "closed" => wire[c][d] = <<>>

Inv == IInv /\ WireClosed

LEMMA NextInv == Inv /\ [Next]_vars => Inv'
<1> SUFFICES ASSUME Inv, [Next]_vars PROVE Inv'
    OBVIOUS
<1> USE DEF Inv
<1>1. CASE UNCHANGED vars
    BY <1>1 DEF vars, IInv, TypeInv, Conserved, IsStart, WireClosed
<1>2. CASE Next
    <2>1. PICK c \in Connection : Proxy(c) \/ Environment(c)
        BY <1>2 DEF Next
    <2>2. ASSUME NEW d \in Direction, NEW n \in 1 .. Len(wire[c][d])
          PROVE  bridge[c] = "open"
        BY <2>2, EmptySeq DEF IInv, TypeInv, Flow, WireClosed
    <2>3. ASSUME ClientData(c) \/ UpstreamData(c)
          PROVE  \E d \in Direction : \E n \in 1 .. Len(wire[c][d]) :
                    Forward(c, d, n) /\ UNCHANGED <<bridge, got, sent>>
        BY <2>3 DEF ClientData, UpstreamData, Direction
    <2>4. CASE ClientData(c) \/ UpstreamData(c)
        <3>1. PICK d \in Direction : \E n \in 1 .. Len(wire[c][d]) :
                    Forward(c, d, n) /\ UNCHANGED <<bridge, got, sent>>
            BY <2>3, <2>4
        <3>2. PICK n \in 1 .. Len(wire[c][d]) :
                    Forward(c, d, n) /\ UNCHANGED <<bridge, got, sent>>
            BY <3>1
        <3>3. IInv'
            BY <2>2, <3>2, ForwardStep
        <3>4. WireClosed'
            BY <2>2, <3>2 DEF Forward, WireClosed, IInv, TypeInv, Flow
        <3> QED BY <3>3, <3>4
    <2>5. CASE OnEnd(c) \/ OnError(c)
        <3>1. close(c)
            BY <2>5 DEF OnEnd, OnError
        <3>2. WireClosed'
            BY <3>1 DEF close, WireClosed, IInv, TypeInv, Flow
        <3> QED BY <3>1, <3>2, CloseStep
    <2>6. CASE Environment(c)
        <3>1. PICK d \in Direction :
                    End(c, d) \/ Take(c, d) \/ \E bytes \in Seq(Byte) : Write(c, d, bytes)
            BY <2>6 DEF Environment
        <3>2. CASE End(c, d)
            BY <3>2 DEF End, IInv, TypeInv, Conserved, IsStart, WireClosed
        <3>3. CASE Take(c, d)
            <4>1. WireClosed'
                BY <3>3 DEF Take, WireClosed
            <4> QED BY <3>3, <4>1, TakeStep
        <3>4. CASE \E bytes \in Seq(Byte) : Write(c, d, bytes)
            <4>1. PICK bytes \in Seq(Byte) : Write(c, d, bytes)
                BY <3>4
            <4>2. WireClosed'
                BY <4>1 DEF Write, WireClosed, IInv, TypeInv, Flow
            <4> QED BY <4>1, <4>2, WriteStep
        <3> QED BY <3>1, <3>2, <3>3, <3>4
    <2> QED BY <2>1, <2>4, <2>5, <2>6 DEF Proxy
<1> QED BY <1>1, <1>2

\* Nothing is lost between the two sides of an open connection, whatever the recorder.
LEMMA InvHolds == Spec => []Inv
<1>1. Init => Inv
    BY InitIInv DEF Init, PerDirection, Inv, WireClosed
<1> QED BY <1>1, NextInv, PTL DEF Spec

-----------------------------------------------------------------------------
(***************************************************************************)
(* The invariant element by element, for those who compose the proxy:      *)
(* `Done` is how much of what the source wrote the proxy has read.         *)
(***************************************************************************)

Done(c, d) == Len(sent[c][d]) - Len(wire[c][d])

Streamed(c, d) ==
    /\ bridge[c] \in {"open", "closed"}
    /\ bridge[c] = "closed" => wire[c][d] = <<>> /\ queue[c][d] = <<>>
    /\ Done(c, d) \in Nat
    /\ Len(sent[c][d]) = Done(c, d) + Len(wire[c][d])
    /\ \A i \in 1 .. Len(wire[c][d]) : wire[c][d][i] = sent[c][d][Done(c, d) + i]
    /\ Len(got[c][d]) <= Done(c, d)
    /\ \A i \in 1 .. Len(got[c][d]) : got[c][d][i] = sent[c][d][i]

LEMMA SuffixOfThree ==
    ASSUME NEW S, NEW g \in Seq(S), NEW q \in Seq(S), NEW w \in Seq(S)
    PROVE  /\ Len(g \o q \o w) = Len(g) + Len(q) + Len(w)
           /\ \A i \in 1 .. Len(w) : w[i] = (g \o q \o w)[Len(g) + Len(q) + i]
OBVIOUS

LEMMA InvIsStreamed == Inv => \A c \in Connection, d \in Direction : Streamed(c, d)
<1> SUFFICES ASSUME Inv, NEW c \in Connection, NEW d \in Direction PROVE Streamed(c, d)
    OBVIOUS
<1>1. wire \in Flow /\ queue \in Flow /\ got \in Flow /\ sent \in Flow
      /\ bridge \in [Connection -> {"open", "closed"}]
    BY DEF Inv, IInv, TypeInv
<1>2. /\ bridge[c] = "open" => sent[c][d] = got[c][d] \o queue[c][d] \o wire[c][d]
      /\ bridge[c] = "closed" => queue[c][d] = <<>> /\ wire[c][d] = <<>>
      /\ Len(got[c][d]) <= Len(sent[c][d])
      /\ got[c][d] = SubSeq(sent[c][d], 1, Len(got[c][d]))
    BY DEF Inv, IInv, WireClosed, Conserved, IsStart
<1>3. PICK g \in Seq(Byte), q \in Seq(Byte), w \in Seq(Byte), s \in Seq(Byte) :
        g = got[c][d] /\ q = queue[c][d] /\ w = wire[c][d] /\ s = sent[c][d]
    BY <1>1 DEF Flow
<1>4. Done(c, d) = Len(s) - Len(w) /\ Len(s) \in Nat /\ Len(w) \in Nat /\ Len(g) \in Nat
    BY <1>3 DEF Done
<1>5. Len(g) <= Len(s) /\ \A i \in 1 .. Len(g) : g[i] = s[i]
    <2>1. Len(g) <= Len(s) /\ g = SubSeq(s, 1, Len(g))
        BY <1>2, <1>3
    <2> QED
        BY <1>4, <2>1
<1>6. CASE bridge[c] = "open"
    <2>1. s = g \o q \o w
        BY <1>2, <1>3, <1>6
    <2>2. /\ Len(s) = Len(g) + Len(q) + Len(w)
          /\ \A i \in 1 .. Len(w) : w[i] = s[Len(g) + Len(q) + i]
        BY <2>1, SuffixOfThree
    <2>3. Done(c, d) = Len(g) + Len(q) /\ Len(q) \in Nat
        BY <1>4, <2>2
    <2>4. Len(s) = Done(c, d) + Len(w) /\ \A i \in 1 .. Len(w) : w[i] = s[Done(c, d) + i]
        BY <1>4, <2>2, <2>3
    <2>5. Done(c, d) \in Nat /\ Len(g) <= Done(c, d)
        BY <1>4, <2>3
    <2> QED
        BY <1>3, <1>5, <1>6, <2>4, <2>5 DEF Streamed
<1>7. CASE bridge[c] = "closed"
    <2>1. w = <<>> /\ Len(w) = 0
        BY <1>2, <1>3, <1>7
    <2>2. queue[c][d] = <<>> /\ wire[c][d] = <<>>
        BY <1>2, <1>7
    <2>3. Done(c, d) = Len(s)
        BY <1>4, <2>1
    <2> QED
        BY <1>3, <1>4, <1>5, <1>7, <2>1, <2>2, <2>3 DEF Streamed
<1> QED
    BY <1>1, <1>6, <1>7

\* Whatever the recorder, the proxy relays both directions byte for byte: the
\* promise of recordingTcpProxy.ts:5-8.
THEOREM RelayIsExactHolds == Spec => []RelayIsExact
<1>1. Inv => RelayIsExact
    BY DEF Inv, IInv, Conserved, IsStart, RelayIsExact
<1> QED BY <1>1, InvHolds, PTL

=============================================================================
