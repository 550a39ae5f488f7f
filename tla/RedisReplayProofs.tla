------------------------- MODULE RedisReplayProofs -------------------------
(***************************************************************************)
(* Proofs about the Redis replay server, for every recording, every set of *)
(* connections and frames and every bound on what the clients send.        *)
(***************************************************************************)
EXTENDS RedisReplay, FiniteSetTheorems, SequenceTheorems, TLAPS

LEMMA TypeInit == Init => TypeOK
  BY MaxSendsAssumption DEF Init, TypeOK

LEMMA TypeStep == TypeOK /\ [Next]_vars => TypeOK'
<1> SUFFICES ASSUME TypeOK, [Next]_vars
             PROVE  TypeOK'
  OBVIOUS
<1> USE RecordedAssumption, FrameAssumption DEF TypeOK
<1>1. ASSUME NEW c \in Connection, NEW frame \in Frame, Send(c, frame)
      PROVE  TypeOK'
  <2>1. /\ wire[c] \o <<frame, frame>> \in Seq(Frame)
        /\ Append(sent[c], frame) \in Seq(Frame)
    <3>1. <<frame, frame>> \in Seq(Frame)
      OBVIOUS
    <3> QED
      BY <3>1
  <2>2. /\ wire' = [wire EXCEPT ![c] = @ \o <<frame, frame>>]
        /\ sent' = [sent EXCEPT ![c] = Append(@, frame)]
    BY <1>1 DEF Send, Halves
  <2>3. wire' \in [Connection -> Seq(Frame)] /\ sent' \in [Connection -> Seq(Frame)]
    BY <2>1, <2>2
  <2>4. /\ sends' \in Nat
        /\ UNCHANGED <<next, matchedCount, missing, history, buffered, offset, running, written>>
    BY <1>1 DEF Send, replayVars
  <2> QED
    BY ONLY TypeOK, <2>3, <2>4
<1>2. ASSUME NEW c \in Connection, Disconnect(c)
      PROVE  TypeOK'
  BY <1>2 DEF Disconnect, replayVars
<1>3. ASSUME NEW c \in Connection, Data(c)
      PROVE  TypeOK'
  <2>1. PICK n \in 1 .. Len(wire[c]) :
           /\ buffered' = [buffered EXCEPT ![c] = @ \o SubSeq(wire[c], 1, n)]
           /\ wire' = [wire EXCEPT ![c] = SubSeq(@, n + 1, Len(@))]
    BY <1>3 DEF Data
  <2>2. /\ SubSeq(wire[c], 1, n) \in Seq(Frame)
        /\ SubSeq(wire[c], n + 1, Len(wire[c])) \in Seq(Frame)
    OBVIOUS
  <2>3. buffered[c] \o SubSeq(wire[c], 1, n) \in Seq(Frame)
    BY <2>2
  <2>4. wire' \in [Connection -> Seq(Frame)] /\ buffered' \in [Connection -> Seq(Frame)]
    BY <2>1, <2>2, <2>3
  <2>5. /\ running' = c /\ offset' = 0
        /\ UNCHANGED <<next, matchedCount, missing, history, written, sent, sends>>
    BY <1>3 DEF Data, replayVars, clientVars
  <2> QED
    BY ONLY TypeOK, <2>4, <2>5
<1>4. ASSUME NEW c \in Connection, Decode(c)
      PROVE  TypeOK'
  <2> DEFINE frame == buffered[c][offset + 2]
  <2>1. frame \in Frame
    BY <1>4 DEF Decode, decoded
  <2>2. CASE IsCommand(frame)
    <3> DEFINE sig == signatureOf(toCommand(frame))
    <3>1. sig \in Signature
      BY <2>1, <2>2
    <3>2. replyTo(c, sig) /\ offset' = offset + 2
                          /\ UNCHANGED <<wire, buffered, running, clientVars>>
      BY <1>4, <2>2 DEF Decode
    <3> HIDE DEF sig
    <3>3. PICK reply \in Reply \union {NoRecording} :
             /\ written' = [written EXCEPT ![c] = Append(@, reply)]
             /\ Answered(sig, reply)
      <4>1. CASE ReplyRecorded(c, sig)
        <5> DEFINE replies == Recorded[sig]
                   index   == IF next[sig] < Len(replies) THEN next[sig] + 1 ELSE Len(replies)
        <5>1. replies \in Seq(Reply) /\ replies # <<>> /\ next[sig] \in Nat
          BY <3>1, <4>1 DEF ReplyRecorded
        <5>2. index \in DOMAIN replies
          BY <5>1
        <5>3. replies[index] \in Reply
          BY <5>1, <5>2
        <5>4. /\ written' = [written EXCEPT ![c] = Append(@, replies[index])]
              /\ Answered(sig, replies[index])
          BY <4>1 DEF ReplyRecorded
        <5> QED
          BY <5>3, <5>4
      <4>2. CASE ReplyMissing(c, sig)
        BY <4>2, Zenon DEF ReplyMissing
      <4> QED
        BY <3>2, <4>1, <4>2 DEF replyTo
    <3>4. Append(written[c], reply) \in Seq(Reply \union {NoRecording})
      OBVIOUS
    <3>5. history' \in Seq([sig : Signature, reply : Reply \union {NoRecording}])
      BY <3>1, <3>3 DEF Answered
    <3>6. /\ next' \in [Signature -> Nat]
          /\ matchedCount' \in Nat
          /\ missing' \in SUBSET Signature
      <4>1. CASE ReplyRecorded(c, sig)
        <5>1. /\ matchedCount' = matchedCount + 1
              /\ next' = [next EXCEPT ![sig] = @ + 1]
              /\ missing' = missing
          BY <4>1 DEF ReplyRecorded
        <5> QED
          BY ONLY TypeOK, <3>1, <5>1
      <4>2. CASE ReplyMissing(c, sig)
        BY <3>1, <4>2 DEF ReplyMissing
      <4> QED
        BY <3>2, <4>1, <4>2 DEF replyTo
    <3>7. written' \in [Connection -> Seq(Reply \union {NoRecording})]
      BY <3>3, <3>4
    <3>8. /\ offset' \in Nat
          /\ UNCHANGED <<wire, buffered, running, sent, sends>>
      BY <3>2 DEF clientVars
    <3> QED
      BY ONLY TypeOK, <3>5, <3>6, <3>7, <3>8
  <2>3. CASE ~ IsCommand(frame)
    BY <1>4, <2>3 DEF Decode, replayVars, clientVars
  <2> QED
    BY <2>2, <2>3
<1>5. ASSUME NEW c \in Connection, Return(c)
      PROVE  TypeOK'
  <2>1. SubSeq(buffered[c], offset + 1, Len(buffered[c])) \in Seq(Frame)
    OBVIOUS
  <2> QED
    BY <1>5, <2>1 DEF Return, replayVars, clientVars
<1>6. CASE UNCHANGED vars
  BY <1>6 DEF vars, replayVars, clientVars
<1> QED
  BY <1>1, <1>2, <1>3, <1>4, <1>5, <1>6 DEF Next, Serve

\* Every variable of the server and of its ghosts keeps its type.
THEOREM TypeCorrect == Spec => []TypeOK
  BY TypeInit, TypeStep, PTL DEF Spec

-----------------------------------------------------------------------------
(***************************************************************************)
(* The refinement.  Its invariant: `next` of a recorded signature is the   *)
(* number of answers given for it, over all connections since the start.   *)
(***************************************************************************)

Counted ==
    \A sig \in Signature :
        Recorded[sig] # <<>> => next[sig] = Cardinality(Service!CallsOf(sig))

Answers == Seq([sig : Signature, reply : Reply \union {NoRecording}])

\* The instance of the abstract module counts as this module does.
LEMMA SameCardinality == \A S : Service!Cardinality(S) = Cardinality(S)
  BY DEF Cardinality, Service!Cardinality

\* One more answer in the history is one more call of its own signature only.
LEMMA AppendCall ==
  ASSUME history \in Answers, NEW s \in Signature, NEW sig \in Signature,
         NEW reply \in Reply \union {NoRecording}, Answered(s, reply)
  PROVE  /\ IsFiniteSet(Service!CallsOf(sig))
         /\ Cardinality(Service!CallsOf(sig)) \in Nat
         /\ Cardinality(Service!CallsOf(sig))' =
              Cardinality(Service!CallsOf(sig)) + (IF sig = s THEN 1 ELSE 0)
<1> DEFINE calls == Service!CallsOf(sig)
           last  == Len(history) + 1
<1>1. /\ history' \in Answers
      /\ Len(history') = last
      /\ history'[last] = [sig |-> s, reply |-> reply]
      /\ \A k \in 1 .. Len(history) : history'[k] = history[k]
  BY DEF Answered, Answers
<1>2. IsFiniteSet(calls) /\ Cardinality(calls) \in Nat
  <2>1. IsFiniteSet(1 .. Len(history))
    BY FS_Interval DEF Answers
  <2>2. calls \in SUBSET (1 .. Len(history))
    BY DEF Answers, Service!CallsOf
  <2> QED
    BY <2>1, <2>2, FS_Subset, FS_CardinalityType
<1>3. last \notin calls
  BY DEF Answers, Service!CallsOf
<1>4. calls' = IF sig = s THEN calls \union {last} ELSE calls
  BY <1>1 DEF Answers, Service!CallsOf
<1>5. Cardinality(calls \union {last}) = Cardinality(calls) + 1
  BY <1>2, <1>3, FS_AddElement
<1> QED
  BY <1>2, <1>4, <1>5

\* What one answer of the server is in the eyes of the abstract service.
LEMMA ReplyIsPromised ==
  ASSUME TypeOK, Counted, NEW c \in Connection, NEW sig \in Signature, replyTo(c, sig)
  PROVE  Service!Call(sig) /\ Counted'
<1> DEFINE calls == Service!CallsOf(sig)
<1>1. history \in Answers
  BY DEF TypeOK, Answers
<1>2. CASE ReplyRecorded(c, sig)
  <2> DEFINE replies == Recorded[sig]
             index   == IF next[sig] < Len(replies) THEN next[sig] + 1 ELSE Len(replies)
  <2>1. /\ replies # <<>> /\ replies \in Seq(Reply)
        /\ Answered(sig, replies[index])
        /\ next' = [next EXCEPT ![sig] = @ + 1]
    BY <1>2, RecordedAssumption DEF ReplyRecorded
  <2>2. next[sig] = Cardinality(calls) /\ next[sig] \in Nat
    BY <2>1 DEF Counted, TypeOK
  <2>3. replies[index] = Service!Promised(sig, Cardinality(calls) + 1)
    BY <2>1, <2>2 DEF Service!Promised
  <2>4. Service!Call(sig)
    BY <2>1, <2>3, SameCardinality DEF Answered, Service!Call
  <2>5. replies[index] \in Reply
    BY <2>1, <2>2
  <2>6. ASSUME NEW other \in Signature, Recorded[other] # <<>>
        PROVE  next'[other] = Cardinality(Service!CallsOf(other))'
    <3>1. Cardinality(Service!CallsOf(other))' =
            Cardinality(Service!CallsOf(other)) + (IF other = sig THEN 1 ELSE 0)
      BY <1>1, <2>1, <2>5, AppendCall
    <3>2. next[other] = Cardinality(Service!CallsOf(other)) /\ next[other] \in Nat
      BY <2>6 DEF Counted, TypeOK
    <3> QED
      BY <2>1, <3>1, <3>2 DEF TypeOK
  <2> QED
    BY <2>4, <2>6 DEF Counted
<1>3. CASE ReplyMissing(c, sig)
  <2>1. Recorded[sig] = <<>> /\ Answered(sig, NoRecording) /\ next' = next
    BY <1>3 DEF ReplyMissing
  <2>2. Service!Call(sig)
    BY <2>1 DEF Answered, Service!Call, Service!Promised
  <2>3. ASSUME NEW other \in Signature, Recorded[other] # <<>>
        PROVE  next'[other] = Cardinality(Service!CallsOf(other))'
    <3>1. Cardinality(Service!CallsOf(other))' = Cardinality(Service!CallsOf(other)) + 0
      BY <1>1, <2>1, <2>3, AppendCall
    <3>2. next[other] = Cardinality(Service!CallsOf(other)) /\ next[other] \in Nat
      BY <2>3 DEF Counted, TypeOK
    <3> QED
      BY <2>1, <3>1, <3>2
  <2> QED
    BY <2>2, <2>3 DEF Counted
<1> QED
  BY <1>2, <1>3 DEF replyTo

LEMMA StepIsCall ==
  ASSUME TypeOK, Counted, [Next]_vars
  PROVE  [Service!Next]_history /\ Counted'
<1>1. ASSUME NEW c \in Connection, Decode(c), IsCommand(buffered[c][offset + 2])
      PROVE  Service!Next /\ Counted'
  <2> DEFINE frame == buffered[c][offset + 2]
             sig   == signatureOf(toCommand(frame))
  <2>1. frame \in Frame
    BY <1>1 DEF TypeOK, Decode, decoded
  <2>2. sig \in Signature
    BY <1>1, <2>1, FrameAssumption
  <2>3. replyTo(c, sig)
    BY <1>1 DEF Decode
  <2> HIDE DEF sig
  <2>4. Service!Call(sig) /\ Counted'
    BY <2>2, <2>3, ReplyIsPromised
  <2> QED
    BY <2>2, <2>4 DEF Service!Next
<1>2. ASSUME UNCHANGED <<next, history>>
      PROVE  [Service!Next]_history /\ Counted'
  BY <1>2 DEF Counted, Service!CallsOf
<1>3. ASSUME NEW c \in Connection, Serve(c)
      PROVE  [Service!Next]_history /\ Counted'
  BY <1>1, <1>2, <1>3 DEF Serve, Data, Decode, Return, replayVars
<1>4. ASSUME NEW c \in Connection,
             Disconnect(c) \/ \E frame \in Frame : Send(c, frame)
      PROVE  [Service!Next]_history /\ Counted'
  BY <1>2, <1>4 DEF Disconnect, Send, replayVars
<1>5. CASE UNCHANGED vars
  BY <1>2, <1>5 DEF vars, replayVars
<1> QED
  BY <1>3, <1>4, <1>5 DEF Next

LEMMA CountedInit == Init => Service!Init /\ Counted
<1> SUFFICES ASSUME Init PROVE Service!Init /\ Counted
  OBVIOUS
<1>1. history = <<>> /\ next = [sig \in Signature |-> 0]
  BY DEF Init
<1>2. \A sig \in Signature : Service!CallsOf(sig) = {}
  BY <1>1 DEF Service!CallsOf
<1> QED
  BY <1>1, <1>2, FS_EmptySet DEF Service!Init, Counted

\* Over every interleaving of connections, chunk boundary and reconnection, the
\* answers the server gives are those of the abstract replay service.
THEOREM Refinement == Spec => ImplementsReplayService
<1>1. Init => TypeOK /\ Service!Init /\ Counted
  BY TypeInit, CountedInit
<1>2. TypeOK /\ Counted /\ [Next]_vars => TypeOK' /\ Counted' /\ [Service!Next]_history
  BY TypeStep, StepIsCall
<1> QED
  BY <1>1, <1>2, PTL DEF Spec, ImplementsReplayService, Service!Spec

-----------------------------------------------------------------------------
(***************************************************************************)
(* Nothing decodable waits in a buffer.  NothingStuck speaks of the moments *)
(* between handlers; what is inductive speaks of every connection whose    *)
(* handler is not on the stack.                                            *)
(***************************************************************************)

Drained == \A c \in Connection : running # c => Len(buffered[c]) < 2

LEMMA DrainedStep ==
  ASSUME TypeOK, Drained, [Next]_vars
  PROVE  Drained'
<1> USE DEF TypeOK, Drained
<1>1. ASSUME NEW c \in Connection, Return(c)
      PROVE  Drained'
  <2>1. Len(SubSeq(buffered[c], offset + 1, Len(buffered[c]))) < 2
    BY <1>1 DEF Return, decoded
  <2> QED
    BY <1>1, <2>1 DEF Return
<1>2. ASSUME NEW c \in Connection, Disconnect(c)
      PROVE  Drained'
  BY <1>2, IdleAssumption DEF Disconnect
<1>3. ASSUME NEW c \in Connection, Data(c)
      PROVE  Drained'
  BY <1>3, IdleAssumption DEF Data
<1>4. ASSUME NEW c \in Connection, Decode(c) \/ \E frame \in Frame : Send(c, frame)
      PROVE  Drained'
  BY <1>4 DEF Decode, Send
<1>5. CASE UNCHANGED vars
  BY <1>5 DEF vars
<1> QED
  BY <1>1, <1>2, <1>3, <1>4, <1>5 DEF Next, Serve

\* Between two handlers no buffer holds a whole command, for any chunking.
THEOREM NothingStuckHolds == Spec => []NothingStuck
<1>1. Init => Drained
  BY DEF Init, Drained
<1>2. Drained => NothingStuck
  BY IdleAssumption DEF Drained, NothingStuck
<1> QED
  BY <1>1, <1>2, TypeInit, TypeStep, DrainedStep, PTL DEF Spec

-----------------------------------------------------------------------------
(***************************************************************************)
(* The summary.                                                            *)
(***************************************************************************)

MatchedCalls == {k \in DOMAIN history : history[k].reply # NoRecording}

LEMMA AppendAnswer ==
  ASSUME history \in Answers, NEW sig \in Signature,
         NEW reply \in Reply \union {NoRecording}, Answered(sig, reply)
  PROVE  /\ Cardinality(MatchedCalls) \in Nat
         /\ Cardinality(MatchedCalls)' =
              Cardinality(MatchedCalls) + (IF reply = NoRecording THEN 0 ELSE 1)
         /\ {history[k].sig : k \in {j \in DOMAIN history :
                                            history[j].reply = NoRecording}}' =
              {history[k].sig : k \in {j \in DOMAIN history :
                                            history[j].reply = NoRecording}}
                \union (IF reply = NoRecording THEN {sig} ELSE {})
<1> DEFINE last == Len(history) + 1
<1>1. /\ history' \in Answers
      /\ Len(history') = last
      /\ history'[last] = [sig |-> sig, reply |-> reply]
      /\ \A k \in 1 .. Len(history) : history'[k] = history[k]
  BY DEF Answered, Answers
<1>2. IsFiniteSet(MatchedCalls) /\ Cardinality(MatchedCalls) \in Nat
  <2>1. IsFiniteSet(1 .. Len(history))
    BY FS_Interval DEF Answers
  <2>2. MatchedCalls \in SUBSET (1 .. Len(history))
    BY DEF Answers, MatchedCalls
  <2> QED
    BY <2>1, <2>2, FS_Subset, FS_CardinalityType
<1>3. last \notin MatchedCalls
  BY DEF Answers, MatchedCalls
<1>4. MatchedCalls' = IF reply = NoRecording THEN MatchedCalls ELSE MatchedCalls \union {last}
  BY <1>1 DEF Answers, MatchedCalls
<1>5. Cardinality(MatchedCalls \union {last}) = Cardinality(MatchedCalls) + 1
  BY <1>2, <1>3, FS_AddElement
<1>6. DOMAIN history = 1 .. Len(history) /\ DOMAIN history' = 1 .. last
  BY <1>1 DEF Answers
<1>7. Len(history) \in Nat
  BY DEF Answers
<1> QED
  BY <1>1, <1>2, <1>4, <1>5, <1>6, <1>7

LEMMA StatsStep ==
  ASSUME TypeOK, StatsAgree, [Next]_vars
  PROVE  StatsAgree'
<1>1. ASSUME NEW c \in Connection, NEW sig \in Signature, replyTo(c, sig)
      PROVE  StatsAgree'
  <2>1. history \in Answers
    BY DEF TypeOK, Answers
  <2>2. CASE ReplyRecorded(c, sig)
    <3>1. PICK reply \in Reply : Answered(sig, reply) /\ matchedCount' = matchedCount + 1
                                                    /\ missing' = missing
      <4> DEFINE replies == Recorded[sig]
                 index   == IF next[sig] < Len(replies) THEN next[sig] + 1 ELSE Len(replies)
      <4>1. /\ replies \in Seq(Reply) /\ replies # <<>>
            /\ next[sig] \in Nat
        BY <2>2, RecordedAssumption DEF ReplyRecorded, TypeOK
      <4>2. replies[index] \in Reply
        BY <4>1
      <4> QED
        BY <2>2, <4>2 DEF ReplyRecorded
    <3>2. reply # NoRecording
      BY NoRecordingAssumption
    <3> QED
      BY <2>1, <3>1, <3>2, AppendAnswer DEF StatsAgree, MatchedCalls
  <2>3. CASE ReplyMissing(c, sig)
    BY <2>1, <2>3, AppendAnswer DEF ReplyMissing, StatsAgree, MatchedCalls
  <2> QED
    BY <1>1, <2>2, <2>3 DEF replyTo
<1>2. ASSUME NEW c \in Connection, Decode(c), IsCommand(buffered[c][offset + 2])
      PROVE  StatsAgree'
  <2>1. buffered[c][offset + 2] \in Frame
    BY <1>2 DEF TypeOK, Decode, decoded
  <2> QED
    BY <1>1, <1>2, <2>1, FrameAssumption DEF Decode
<1>3. ASSUME UNCHANGED <<matchedCount, missing, history>>
      PROVE  StatsAgree'
  BY <1>3 DEF StatsAgree
<1>4. ASSUME NEW c \in Connection, Serve(c)
      PROVE  StatsAgree'
  BY <1>2, <1>3, <1>4 DEF Serve, Data, Decode, Return, replayVars
<1>5. ASSUME NEW c \in Connection,
             Disconnect(c) \/ \E frame \in Frame : Send(c, frame)
      PROVE  StatsAgree'
  BY <1>3, <1>5 DEF Disconnect, Send, replayVars
<1>6. CASE UNCHANGED vars
  BY <1>3, <1>6 DEF vars, replayVars
<1> QED
  BY <1>4, <1>5, <1>6 DEF Next

\* The summary counts every answered call once and names every unrecorded one.
THEOREM StatsAgreeHolds == Spec => []StatsAgree
<1>1. Init => StatsAgree
  BY FS_EmptySet DEF Init, StatsAgree
<1> QED
  BY <1>1, TypeInit, TypeStep, StatsStep, PTL DEF Spec

-----------------------------------------------------------------------------
(***************************************************************************)
(* Replies by position.  What is buffered or on its way is the frames sent *)
(* and not yet dropped from the buffer, twice each; the running handler    *)
(* has worked through some of them, and the socket holds a fitting answer  *)
(* to every command among the frames dropped or worked through.            *)
(***************************************************************************)

Pending(c) == buffered[c] \o wire[c]

Offset(c) == IF running = c THEN offset ELSE 0

Streams(c, dropped, through) ==
    /\ Offset(c) = 2 * through /\ 2 * through <= Len(buffered[c])
    /\ Len(Pending(c)) + 2 * dropped = 2 * Len(sent[c])
    /\ \A i \in dropped + 1 .. Len(sent[c]) :
        /\ Pending(c)[2 * (i - dropped) - 1] = sent[c][i]
        /\ Pending(c)[2 * (i - dropped)] = sent[c][i]

AnsweredTo(c, done) ==
    /\ Len(written[c]) = CommandsIn(sent[c], done)
    /\ \A i \in 1 .. done :
        IsCommand(sent[c][i]) => Fits(written[c][CommandsIn(sent[c], i)], sent[c][i])

InStep(c) ==
    \E dropped, through \in Nat : Streams(c, dropped, through) /\ AnsweredTo(c, dropped + through)

Paired == \A c \in Connection : InStep(c)

LEMMA CountOfNone == \A frames : CommandsIn(frames, 0) = 0
<1>1. \A frames : {j \in 1 .. 0 : IsCommand(frames[j])} = {}
  OBVIOUS
<1> QED
  BY <1>1, FS_EmptySet DEF CommandsIn

LEMMA CountOfCommands ==
  ASSUME NEW frames, NEW i \in Nat
  PROVE  /\ CommandsIn(frames, i) \in Nat
         /\ CommandsIn(frames, i + 1) = CommandsIn(frames, i) + (IF IsCommand(frames[i + 1]) THEN 1 ELSE 0)
<1> DEFINE upto(n) == {j \in 1 .. n : IsCommand(frames[j])}
<1>1. IsFiniteSet(upto(i))
  <2>1. IsFiniteSet(1 .. i) /\ upto(i) \in SUBSET (1 .. i)
    BY FS_Interval
  <2> QED
    BY <2>1, FS_Subset
<1>2. upto(i + 1) = IF IsCommand(frames[i + 1]) THEN upto(i) \union {i + 1} ELSE upto(i)
  <2>1. 1 .. i + 1 = (1 .. i) \union {i + 1}
    OBVIOUS
  <2> QED
    BY <2>1
<1>3. i + 1 \notin upto(i)
  OBVIOUS
<1> HIDE DEF upto
<1>4. Cardinality(upto(i)) \in Nat /\ Cardinality(upto(i) \union {i + 1}) = Cardinality(upto(i)) + 1
  BY <1>1, <1>3, FS_CardinalityType, FS_AddElement
<1>5. CommandsIn(frames, i) = Cardinality(upto(i)) /\ CommandsIn(frames, i + 1) = Cardinality(upto(i + 1))
  BY DEF CommandsIn, upto
<1> QED
  BY <1>2, <1>4, <1>5

\* The count never falls, and grows past every command.
LEMMA CountGrows ==
  ASSUME NEW frames, NEW m \in Nat, NEW n \in Nat, m <= n
  PROVE  /\ CommandsIn(frames, m) <= CommandsIn(frames, n)
         /\ m < n /\ IsCommand(frames[n]) => CommandsIn(frames, m) < CommandsIn(frames, n)
<1> DEFINE upto(k) == {j \in 1 .. k : IsCommand(frames[j])}
<1>1. upto(m) \subseteq upto(n)
  OBVIOUS
<1>2. m < n /\ IsCommand(frames[n]) => n \in upto(n) \ upto(m)
  OBVIOUS
<1>3. IsFiniteSet(upto(n))
  <2>1. IsFiniteSet(1 .. n) /\ upto(n) \in SUBSET (1 .. n)
    BY FS_Interval
  <2> QED
    BY <2>1, FS_Subset
<1>4. CommandsIn(frames, m) = Cardinality(upto(m)) /\ CommandsIn(frames, n) = Cardinality(upto(n))
  BY DEF CommandsIn
<1> HIDE DEF upto
<1>5. /\ Cardinality(upto(m)) <= Cardinality(upto(n))
      /\ upto(m) # upto(n) => Cardinality(upto(m)) < Cardinality(upto(n))
  <2>1. Cardinality(upto(m)) <= Cardinality(upto(n))
        /\ (Cardinality(upto(m)) = Cardinality(upto(n)) => upto(m) = upto(n))
    BY <1>1, <1>3, FS_Subset
  <2>2. Cardinality(upto(m)) \in Nat /\ Cardinality(upto(n)) \in Nat
    BY <1>1, <1>3, FS_Subset, FS_CardinalityType
  <2> QED
    BY <2>1, <2>2
<1> QED
  BY <1>2, <1>4, <1>5

LEMMA HalvesAddUp ==
  ASSUME NEW dropped \in Nat, NEW through \in Nat, NEW here \in Nat, NEW there \in Nat,
         NEW all \in Nat, 2 * through <= here, here + there + 2 * dropped = 2 * all
  PROVE  dropped + through <= all
  OBVIOUS

\* Where no inline command stands, what is asked for is what the server knows.
LEMMA AskedAreCommands ==
  ASSUME NEW frames, NEW i \in Nat, \A j \in 1 .. i : ~ Inline(frames[j])
  PROVE  AskedIn(frames, i) = CommandsIn(frames, i)
<1>1. \A j \in 1 .. i : Asks(frames[j]) <=> IsCommand(frames[j])
  BY DEF Inline, Asks, IsCommand, toCommand
<1>2. {j \in 1 .. i : Asks(frames[j])} = {j \in 1 .. i : IsCommand(frames[j])}
  BY <1>1
<1> QED
  BY <1>2 DEF AskedIn, CommandsIn

LEMMA CommandsAreAsked ==
  ASSUME NEW frames, NEW i \in Nat
  PROVE  CommandsIn(frames, i) \in Nat /\ AskedIn(frames, i) \in Nat
         /\ CommandsIn(frames, i) <= AskedIn(frames, i)
<1> DEFINE asked == {j \in 1 .. i : Asks(frames[j])}
           known == {j \in 1 .. i : IsCommand(frames[j])}
<1>1. IsFiniteSet(asked)
  <2>1. IsFiniteSet(1 .. i) /\ asked \in SUBSET (1 .. i)
    BY FS_Interval
  <2> QED
    BY <2>1, FS_Subset
<1>2. known \subseteq asked
  BY DEF Asks, IsCommand, toCommand
<1> HIDE DEF asked, known
<1>3. Cardinality(known) <= Cardinality(asked) /\ Cardinality(known) \in Nat
      /\ Cardinality(asked) \in Nat
  BY <1>1, <1>2, FS_Subset, FS_CardinalityType
<1> QED
  BY <1>3 DEF AskedIn, CommandsIn, asked, known

LEMMA PairedMatches == TypeOK /\ Paired => RepliesMatchPositions
<1> SUFFICES ASSUME TypeOK, Paired, NEW c \in Connection
             PROVE  /\ Len(written[c]) <= AskedIn(sent[c], Len(sent[c]))
                    /\ \A i \in DOMAIN sent[c] :
                        Asks(sent[c][i]) /\ AskedIn(sent[c], i) <= Len(written[c]) =>
                            \/ \E j \in 1 .. i : Inline(sent[c][j])
                            \/ Fits(written[c][AskedIn(sent[c], i)], sent[c][i])
  BY DEF RepliesMatchPositions
<1>1. PICK dropped \in Nat, through \in Nat :
        Streams(c, dropped, through) /\ AnsweredTo(c, dropped + through)
  BY DEF Paired, InStep
<1> DEFINE done == dropped + through
<1>2. sent[c] \in Seq(Frame) /\ buffered[c] \in Seq(Frame) /\ wire[c] \in Seq(Frame)
  BY DEF TypeOK
<1>3. done \in Nat /\ done <= Len(sent[c]) /\ Len(sent[c]) \in Nat
      /\ DOMAIN sent[c] = 1 .. Len(sent[c])
  <2>1. Len(Pending(c)) = Len(buffered[c]) + Len(wire[c]) /\ Len(wire[c]) \in Nat
        /\ Len(buffered[c]) \in Nat /\ Len(sent[c]) \in Nat
    BY <1>2 DEF Pending
  <2>2. 2 * through <= Len(buffered[c]) /\ Len(Pending(c)) + 2 * dropped = 2 * Len(sent[c])
    BY <1>1 DEF Streams
  <2>3. dropped + through <= Len(sent[c])
    BY <2>1, <2>2, HalvesAddUp
  <2> QED
    BY <1>2, <2>1, <2>3
<1> HIDE DEF done
<1>4. Len(written[c]) = CommandsIn(sent[c], done)
      /\ \A i \in 1 .. done :
            IsCommand(sent[c][i]) => Fits(written[c][CommandsIn(sent[c], i)], sent[c][i])
  BY <1>1 DEF AnsweredTo, done
<1>5. Len(written[c]) <= CommandsIn(sent[c], Len(sent[c]))
  BY <1>3, <1>4, CountGrows
<1>6. ASSUME NEW i \in DOMAIN sent[c], IsCommand(sent[c][i]), CommandsIn(sent[c], i) <= Len(written[c])
      PROVE  Fits(written[c][CommandsIn(sent[c], i)], sent[c][i])
  <2>1. i \in Nat /\ 1 <= i
    BY <1>3
  <2>2. ~ done < i
    <3>1. CommandsIn(sent[c], done) \in Nat /\ CommandsIn(sent[c], i) \in Nat
      BY <1>3, <2>1, CountOfCommands
    <3>2. done < i => CommandsIn(sent[c], done) < CommandsIn(sent[c], i)
      BY <1>3, <1>6, <2>1, CountGrows
    <3> QED
      BY <1>4, <1>6, <3>1, <3>2
  <2> QED
    BY <1>3, <1>4, <1>6, <2>1, <2>2
<1>7. Len(written[c]) <= AskedIn(sent[c], Len(sent[c]))
  <2>1. Len(written[c]) = CommandsIn(sent[c], done) /\ CommandsIn(sent[c], done) \in Nat
    BY <1>3, <1>4, CommandsAreAsked
  <2>2. /\ CommandsIn(sent[c], Len(sent[c])) \in Nat /\ AskedIn(sent[c], Len(sent[c])) \in Nat
        /\ CommandsIn(sent[c], Len(sent[c])) <= AskedIn(sent[c], Len(sent[c]))
    BY <1>3, CommandsAreAsked
  <2> QED
    BY <1>5, <2>1, <2>2
<1>8. ASSUME NEW i \in DOMAIN sent[c], Asks(sent[c][i]), AskedIn(sent[c], i) <= Len(written[c]),
             \A j \in 1 .. i : ~ Inline(sent[c][j])
      PROVE  Fits(written[c][AskedIn(sent[c], i)], sent[c][i])
  <2>1. i \in Nat /\ i \in 1 .. i
    BY <1>3
  <2>2. AskedIn(sent[c], i) = CommandsIn(sent[c], i)
    BY <1>8, <2>1, AskedAreCommands
  <2>3. IsCommand(sent[c][i])
    BY <1>8, <2>1 DEF Inline
  <2> QED
    BY <1>6, <1>8, <2>2, <2>3
<1> QED
  BY <1>7, <1>8

LEMMA OthersInStep ==
  ASSUME NEW d \in Connection, InStep(d), buffered'[d] = buffered[d], wire'[d] = wire[d],
         sent'[d] = sent[d], written'[d] = written[d], Offset(d)' = Offset(d)
  PROVE  InStep(d)'
<1>1. Pending(d)' = Pending(d)
  BY DEF Pending
<1>2. PICK dropped \in Nat, through \in Nat :
        Streams(d, dropped, through) /\ AnsweredTo(d, dropped + through)
  BY DEF InStep
<1>3. Streams(d, dropped, through)'
  BY <1>1, <1>2 DEF Streams
<1>4. AnsweredTo(d, dropped + through)'
  <2> DEFINE done == dropped + through
  <2>1. AnsweredTo(d, done)
    BY <1>2
  <2> HIDE DEF done
  <2>2. AnsweredTo(d, done)'
    BY <2>1 DEF AnsweredTo
  <2> QED
    BY <2>2 DEF done
<1> QED
  BY <1>3, <1>4 DEF InStep

LEMMA StartDropped ==
  ASSUME NEW b \in Seq(Frame), NEW w \in Seq(Frame), NEW n \in 0 .. Len(b)
  PROVE  /\ Len(b \o w) \in Nat
         /\ Len(SubSeq(b, n + 1, Len(b)) \o w) = Len(b \o w) - n
         /\ \A k \in 1 .. Len(b \o w) - n : (SubSeq(b, n + 1, Len(b)) \o w)[k] = (b \o w)[k + n]
<1> DEFINE x == SubSeq(b, n + 1, Len(b))
<1>1. x \in Seq(Frame) /\ Len(x) = Len(b) - n /\ \A k \in 1 .. Len(b) - n : x[k] = b[k + n]
  OBVIOUS
<1>2. Len(b) \in Nat /\ Len(w) \in Nat /\ Len(b \o w) = Len(b) + Len(w) /\ n \in Nat /\ n <= Len(b)
  OBVIOUS
<1> HIDE DEF x
<1>3. Len(x \o w) = Len(b \o w) - n
  <2>1. x \in Seq(Frame)
    BY <1>1
  <2>2. Len(x \o w) = Len(x) + Len(w)
    BY <2>1
  <2> QED
    BY <1>1, <1>2, <2>2
<1>4. ASSUME NEW k \in 1 .. Len(b \o w) - n
      PROVE  (x \o w)[k] = (b \o w)[k + n]
  <2>1. CASE k <= Len(x)
    <3>1. (x \o w)[k] = x[k] /\ x[k] = b[k + n] /\ k + n \in 1 .. Len(b)
      BY <1>1, <1>2, <2>1
    <3> QED
      BY <1>2, <3>1
  <2>2. CASE ~ k <= Len(x)
    <3>1. (x \o w)[k] = w[k - Len(x)] /\ (b \o w)[k + n] = w[(k + n) - Len(b)]
      BY <1>1, <1>2, <2>2
    <3>2. k - Len(x) = (k + n) - Len(b)
      BY <1>1, <1>2
    <3> QED
      BY <3>1, <3>2
  <2> QED
    BY <2>1, <2>2
<1> QED
  BY <1>2, <1>3, <1>4 DEF x

LEMMA Associative ==
  \A x, y, z \in Seq(Frame) : (x \o y) \o z = x \o (y \o z)
<1>1. ASSUME NEW x \in Seq(Frame), NEW y \in Seq(Frame), NEW z \in Seq(Frame)
      PROVE  (x \o y) \o z = x \o (y \o z)
  BY ConcatAssociative
<1> QED
  BY <1>1, Zenon

LEMMA SplitJoins ==
  ASSUME NEW b \in Seq(Frame), NEW w \in Seq(Frame), NEW n \in 1 .. Len(w)
  PROVE  (b \o SubSeq(w, 1, n)) \o SubSeq(w, n + 1, Len(w)) = b \o w
<1> DEFINE x == SubSeq(w, 1, n)
           y == SubSeq(w, n + 1, Len(w))
<1>1. x \in Seq(Frame) /\ y \in Seq(Frame)
  OBVIOUS
<1>2. x \o y = w
  OBVIOUS
<1> HIDE DEF x, y
<1>3. (b \o x) \o y = b \o (x \o y)
  BY <1>1, Associative, Zenon
<1> QED
  BY <1>2, <1>3 DEF x, y

LEMMA TwoAppended ==
  ASSUME NEW S, NEW p \in Seq(S), NEW a \in S
  PROVE  /\ Append(Append(p, a), a) \in Seq(S)
         /\ Len(Append(Append(p, a), a)) = Len(p) + 2
         /\ \A k \in 1 .. Len(p) : Append(Append(p, a), a)[k] = p[k]
         /\ Append(Append(p, a), a)[Len(p) + 1] = a
         /\ Append(Append(p, a), a)[Len(p) + 2] = a
  OBVIOUS

LEMMA AppendedBehind ==
  ASSUME NEW S, NEW b \in Seq(S), NEW w \in Seq(S), NEW a \in S
  PROVE  b \o Append(w, a) = Append(b \o w, a)
  OBVIOUS

LEMMA TwoMore ==
  ASSUME NEW b \in Seq(Frame), NEW w \in Seq(Frame), NEW a \in Frame
  PROVE  b \o (w \o <<a, a>>) = Append(Append(b \o w, a), a)
<1>1. w \o <<a, a>> = Append(Append(w, a), a)
  OBVIOUS
<1>2. Append(w, a) \in Seq(Frame)
  OBVIOUS
<1>3. b \o Append(Append(w, a), a) = Append(b \o Append(w, a), a)
  BY <1>2, AppendedBehind
<1>4. b \o Append(w, a) = Append(b \o w, a)
  BY AppendedBehind
<1> QED
  BY Zenon, <1>1, <1>3, <1>4

LEMMA PendingType ==
  ASSUME TypeOK, NEW c \in Connection
  PROVE  Pending(c) \in Seq(Frame)
<1>1. buffered[c] \in Seq(Frame) /\ wire[c] \in Seq(Frame)
  BY DEF TypeOK
<1>2. \A s, t \in Seq(Frame) : s \o t \in Seq(Frame)
  OBVIOUS
<1> QED
  BY <1>1, <1>2 DEF Pending

LEMMA Measures ==
  ASSUME TypeOK, NEW c \in Connection
  PROVE  \E here \in Nat, there \in Nat, all \in Nat :
            /\ here = Len(buffered[c]) /\ there = Len(wire[c]) /\ all = Len(sent[c])
            /\ Len(Pending(c)) = here + there
<1>1. buffered[c] \in Seq(Frame) /\ wire[c] \in Seq(Frame) /\ sent[c] \in Seq(Frame)
  BY DEF TypeOK
<1>2. PICK here \in Nat : here = Len(buffered[c])
  BY <1>1
<1>3. PICK there \in Nat : there = Len(wire[c])
  BY <1>1
<1>4. PICK all \in Nat : all = Len(sent[c])
  BY <1>1
<1>5. Len(buffered[c] \o wire[c]) = Len(buffered[c]) + Len(wire[c])
  BY <1>1
<1>6. Len(buffered[c] \o wire[c]) = here + there
  BY <1>2, <1>3, <1>5
<1> QED
  BY <1>2, <1>3, <1>4, <1>6 DEF Pending

LEMMA SendInStep ==
  ASSUME TypeOK, NEW c \in Connection, InStep(c), NEW frame \in Frame, Send(c, frame)
  PROVE  InStep(c)'
<1>1. PICK dropped \in Nat, through \in Nat :
        Streams(c, dropped, through) /\ AnsweredTo(c, dropped + through)
  BY DEF InStep
<1>2. PICK here \in Nat, there \in Nat, n \in Nat :
        /\ here = Len(buffered[c]) /\ there = Len(wire[c]) /\ n = Len(sent[c])
        /\ Len(Pending(c)) = here + there
  BY Measures
<1>3. sent[c] \in Seq(Frame) /\ buffered[c] \in Seq(Frame) /\ wire[c] \in Seq(Frame)
  BY DEF TypeOK
<1>4. PICK p \in Seq(Frame) : p = Pending(c)
  BY PendingType
<1>5. PICK l \in Nat : l = here + there
  OBVIOUS
<1>6. /\ sent'[c] = Append(sent[c], frame) /\ wire'[c] = wire[c] \o <<frame, frame>>
      /\ buffered' = buffered /\ written' = written /\ Offset(c)' = Offset(c)
  BY DEF Send, TypeOK, Halves, Offset
<1>7. PICK q : q = Append(Append(p, frame), frame)
  OBVIOUS
<1>8. Pending(c)' = q /\ Len(p) = l
  <2>1. Pending(c)' = buffered[c] \o (wire[c] \o <<frame, frame>>)
    BY <1>6 DEF Pending
  <2>2. p = buffered[c] \o wire[c]
    BY <1>4 DEF Pending
  <2>3. buffered[c] \o (wire[c] \o <<frame, frame>>) = Append(Append(buffered[c] \o wire[c], frame), frame)
    <3>1. PICK b \in Seq(Frame), w \in Seq(Frame) : b = buffered[c] /\ w = wire[c]
      BY <1>3
    <3>2. b \o (w \o <<frame, frame>>) = Append(Append(b \o w, frame), frame)
      BY TwoMore
    <3> QED
      BY <3>1, <3>2
  <2>4. Pending(c)' = q
    BY Zenon, <1>7, <2>1, <2>2, <2>3
  <2> QED
    BY <1>2, <1>4, <1>5, <2>4
<1>9. /\ Len(q) = l + 2
      /\ \A k \in 1 .. l : q[k] = p[k]
      /\ q[l + 1] = frame /\ q[l + 2] = frame
  BY <1>7, <1>8, TwoAppended
<1>10. /\ Len(sent'[c]) = n + 1 /\ sent'[c][n + 1] = frame
      /\ \A i \in 1 .. n : sent'[c][i] = sent[c][i]
  BY <1>2, <1>3, <1>6
<1>11. Offset(c) = 2 * through /\ 2 * through <= here /\ l + 2 * dropped = 2 * n
  BY <1>1, <1>2, <1>5 DEF Streams
<1>12. \A i \in dropped + 1 .. n :
          p[2 * (i - dropped) - 1] = sent[c][i] /\ p[2 * (i - dropped)] = sent[c][i]
  BY <1>1, <1>2, <1>4 DEF Streams
<1>13. ASSUME NEW i \in dropped + 1 .. n + 1
       PROVE  q[2 * (i - dropped) - 1] = sent'[c][i] /\ q[2 * (i - dropped)] = sent'[c][i]
  <2>1. CASE i = n + 1
    <3>1. 2 * (i - dropped) - 1 = l + 1 /\ 2 * (i - dropped) = l + 2
      BY <1>11, <2>1
    <3> QED
      BY <1>9, <1>10, <2>1, <3>1
  <2>2. CASE i # n + 1
    <3>1. i \in dropped + 1 .. n /\ i \in 1 .. n
      BY <2>2
    <3>2. 2 * (i - dropped) - 1 \in 1 .. l /\ 2 * (i - dropped) \in 1 .. l
      BY <1>11, <3>1
    <3> QED
      BY <1>9, <1>10, <1>12, <3>1, <3>2
  <2> QED
    BY <2>1, <2>2
<1>14. Streams(c, dropped, through)'
  <2>1. (l + 2) + 2 * dropped = 2 * (n + 1)
    BY <1>11
  <2> QED
    BY <1>2, <1>6, <1>9, <1>10, <1>11, <1>13, <1>8, <2>1 DEF Streams
<1>15. dropped + through <= n
  BY <1>5, <1>11
<1>16. AnsweredTo(c, dropped + through)'
  <2> DEFINE done == dropped + through
  <2>1. done \in Nat /\ \A i \in 1 .. done : sent'[c][i] = sent[c][i]
    BY <1>10, <1>15
  <2>2. \A i \in 0 .. done : CommandsIn(sent'[c], i) = CommandsIn(sent[c], i)
    <3>1. \A i \in 0 .. done :
            {j \in 1 .. i : IsCommand(sent'[c][j])} = {j \in 1 .. i : IsCommand(sent[c][j])}
      BY <2>1
    <3> QED
      BY <3>1 DEF CommandsIn
  <2>3. AnsweredTo(c, done)
    BY <1>1
  <2> HIDE DEF done
  <2>4. Len(written'[c]) = CommandsIn(sent'[c], done)
    BY <1>6, <2>1, <2>2, <2>3 DEF AnsweredTo
  <2>5. ASSUME NEW i \in 1 .. done, IsCommand(sent'[c][i])
        PROVE  Fits(written'[c][CommandsIn(sent'[c], i)], sent'[c][i])
    <3>1. sent'[c][i] = sent[c][i] /\ CommandsIn(sent'[c], i) = CommandsIn(sent[c], i)
      BY <2>1, <2>2
    <3> QED
      BY <1>6, <2>3, <2>5, <3>1 DEF AnsweredTo
  <2>6. AnsweredTo(c, done)'
    BY <2>4, <2>5 DEF AnsweredTo
  <2> QED
    BY <2>6 DEF done
<1> QED
  BY <1>14, <1>16 DEF InStep

LEMMA DisconnectInStep ==
  ASSUME TypeOK, NEW c \in Connection, Disconnect(c)
  PROVE  InStep(c)'
<1>1. /\ sent'[c] = <<>> /\ wire'[c] = <<>> /\ buffered'[c] = <<>> /\ written'[c] = <<>>
      /\ running' = Idle
  BY DEF Disconnect, TypeOK
<1>2. Offset(c)' = 0 /\ Pending(c)' = <<>>
  BY <1>1, IdleAssumption DEF Offset, Pending
<1>3. Streams(c, 0, 0)'
  BY <1>1, <1>2 DEF Streams
<1>4. AnsweredTo(c, 0)'
  BY <1>1, CountOfNone DEF AnsweredTo
<1>5. 0 \in Nat /\ 0 + 0 = 0
  OBVIOUS
<1> QED
  BY <1>3, <1>4, <1>5 DEF InStep

LEMMA DataInStep ==
  ASSUME TypeOK, NEW c \in Connection, InStep(c), Data(c)
  PROVE  InStep(c)'
<1>1. PICK dropped \in Nat, through \in Nat :
        Streams(c, dropped, through) /\ AnsweredTo(c, dropped + through)
  BY DEF InStep
<1>2. PICK n \in 1 .. Len(wire[c]) :
        /\ buffered' = [buffered EXCEPT ![c] = @ \o SubSeq(wire[c], 1, n)]
        /\ wire' = [wire EXCEPT ![c] = SubSeq(@, n + 1, Len(@))]
  BY DEF Data
<1>3. sent' = sent /\ written' = written /\ Offset(c) = 0 /\ Offset(c)' = 0
  BY IdleAssumption DEF Data, clientVars, Offset
<1>4. buffered[c] \in Seq(Frame) /\ wire[c] \in Seq(Frame)
  BY DEF TypeOK
<1>5. Pending(c)' = Pending(c)
  BY <1>2, <1>4, SplitJoins DEF Pending, TypeOK
<1>6. through = 0
  BY <1>1, <1>3 DEF Streams
<1>7. Len(buffered'[c]) \in Nat
  BY <1>2, <1>4 DEF TypeOK
<1>8. Streams(c, dropped, through)'
  <2>1. 2 * through = 0 /\ 2 * through <= Len(buffered'[c])
    BY <1>6, <1>7
  <2> QED
    BY <1>1, <1>3, <1>5, <2>1 DEF Streams
<1>9. AnsweredTo(c, dropped + through)'
  BY <1>1, <1>3 DEF AnsweredTo
<1> QED
  BY <1>8, <1>9 DEF InStep

LEMMA ReturnInStep ==
  ASSUME TypeOK, NEW c \in Connection, InStep(c), Return(c)
  PROVE  InStep(c)'
<1>1. PICK dropped \in Nat, through \in Nat :
        Streams(c, dropped, through) /\ AnsweredTo(c, dropped + through)
  BY DEF InStep
<1>2. PICK here \in Nat, there \in Nat, n \in Nat :
        /\ here = Len(buffered[c]) /\ there = Len(wire[c]) /\ n = Len(sent[c])
        /\ Len(Pending(c)) = here + there
  BY Measures
<1>3. buffered[c] \in Seq(Frame) /\ wire[c] \in Seq(Frame)
  BY DEF TypeOK
<1>4. PICK p \in Seq(Frame) : p = Pending(c)
  BY PendingType
<1>5. PICK l \in Nat : l = here + there
  OBVIOUS
<1>6. PICK off \in Nat, done \in Nat : off = 2 * through /\ done = dropped + through
  OBVIOUS
<1>7. /\ sent' = sent /\ written' = written /\ wire' = wire /\ Offset(c) = offset /\ Offset(c)' = 0
      /\ buffered'[c] = SubSeq(buffered[c], offset + 1, Len(buffered[c]))
  BY IdleAssumption DEF Return, clientVars, Offset, TypeOK
<1>8. offset = off /\ off <= here /\ l + 2 * dropped = 2 * n
  BY <1>1, <1>2, <1>5, <1>6, <1>7 DEF Streams
<1>9. \A i \in dropped + 1 .. n :
          p[2 * (i - dropped) - 1] = sent[c][i] /\ p[2 * (i - dropped)] = sent[c][i]
  BY <1>1, <1>2, <1>4 DEF Streams
<1>10. PICK q : q = SubSeq(buffered[c], off + 1, Len(buffered[c])) \o wire[c] /\ Pending(c)' = q
  BY <1>7, <1>8 DEF Pending
<1>11. Len(q) = l - off /\ \A k \in 1 .. l - off : q[k] = p[k + off]
  <2>1. off \in 0 .. Len(buffered[c])
    BY <1>2, <1>8
  <2>2. Len(p) = l /\ p = buffered[c] \o wire[c]
    BY <1>2, <1>4, <1>5 DEF Pending
  <2>3. /\ Len(q) = Len(p) - off
        /\ \A k \in 1 .. Len(p) - off : q[k] = p[k + off]
    <3>1. PICK b \in Seq(Frame), w \in Seq(Frame) : b = buffered[c] /\ w = wire[c]
      BY <1>3
    <3>2. PICK x : x = SubSeq(b, off + 1, Len(b)) \o w
      OBVIOUS
    <3>3. /\ Len(x) = Len(b \o w) - off
          /\ \A k \in 1 .. Len(b \o w) - off : x[k] = (b \o w)[k + off]
      <4>1. off \in 0 .. Len(b)
        BY <2>1, <3>1
      <4> QED
        BY ONLY <4>1, <3>2, StartDropped
    <3> QED
      BY <1>10, <2>2, <3>1, <3>2, <3>3
  <2> QED
    BY <2>2, <2>3
<1>12. ASSUME NEW i \in done + 1 .. n
       PROVE  q[2 * (i - done) - 1] = sent[c][i] /\ q[2 * (i - done)] = sent[c][i]
  <2>1. i \in dropped + 1 .. n
    BY <1>6
  <2>2. /\ (2 * (i - done) - 1) + off = 2 * (i - dropped) - 1
        /\ 2 * (i - done) + off = 2 * (i - dropped)
        /\ 2 * (i - done) - 1 \in 1 .. l - off /\ 2 * (i - done) \in 1 .. l - off
    BY <1>6, <1>8
  <2> QED
    BY <1>9, <1>11, <2>1, <2>2
<1>13. Streams(c, done, 0)'
  <2>1. Len(q) + 2 * done = 2 * n
    BY <1>6, <1>8, <1>11
  <2>2. Len(buffered'[c]) \in Nat
    BY <1>3, <1>7, <1>8
  <2> QED
    <3>1. 2 * 0 = 0 /\ 0 <= Len(buffered'[c])
      BY <2>2
    <3> QED
      BY <1>2, <1>7, <1>10, <1>12, <2>1, <3>1 DEF Streams
<1>14. AnsweredTo(c, done + 0)'
  BY <1>1, <1>6, <1>7 DEF AnsweredTo
<1> QED
  BY <1>13, <1>14 DEF InStep

\* One answer more, to the first command not yet answered.
LEMMA OneAnswerMore ==
  ASSUME TypeOK, NEW c \in Connection, NEW done \in Nat, AnsweredTo(c, done),
         sent' = sent, IsCommand(sent[c][done + 1]), NEW reply,
         Fits(reply, sent[c][done + 1]), written'[c] = Append(written[c], reply)
  PROVE  AnsweredTo(c, done + 1)'
<1>1. PICK n \in Nat : n = CommandsIn(sent[c], done)
  BY CountOfCommands
<1>2. CommandsIn(sent[c], done + 1) = n + 1
  BY <1>1, CountOfCommands
<1>3. written[c] \in Seq(Reply \union {NoRecording}) /\ Len(written[c]) = n
  BY <1>1 DEF TypeOK, AnsweredTo
<1>4. Len(written'[c]) = n + 1 /\ written'[c][n + 1] = reply
      /\ \A k \in 1 .. n : written'[c][k] = written[c][k]
  BY <1>3
<1>5. ASSUME NEW i \in 1 .. done + 1, IsCommand(sent[c][i])
      PROVE  Fits(written'[c][CommandsIn(sent[c], i)], sent[c][i])
  <2>1. CASE i = done + 1
    BY <1>2, <1>4, <2>1
  <2>2. CASE i # done + 1
    <3>1. i \in 1 .. done /\ i \in Nat /\ i - 1 \in Nat /\ i - 1 < i /\ i <= done
      BY <2>2
    <3>2. PICK k \in Nat : k = CommandsIn(sent[c], i)
      BY <3>1, CountOfCommands
    <3>3. PICK h \in Nat : h = CommandsIn(sent[c], i - 1)
      BY <3>1, CountOfCommands
    <3>4. k <= n
      BY <1>1, <3>1, <3>2, CountGrows
    <3>5. h < k
      BY <1>5, <3>1, <3>2, <3>3, CountGrows
    <3>6. k \in 1 .. n
      BY <3>4, <3>5
    <3> QED
      BY <1>4, <1>5, <3>1, <3>2, <3>6 DEF AnsweredTo
  <2> QED
    BY <2>1, <2>2
<1> QED
  BY <1>2, <1>4, <1>5 DEF AnsweredTo

LEMMA NoAnswerMore ==
  ASSUME NEW c \in Connection, NEW done \in Nat, AnsweredTo(c, done),
         sent' = sent, ~ IsCommand(sent[c][done + 1]), written' = written
  PROVE  AnsweredTo(c, done + 1)'
<1>1. CommandsIn(sent[c], done + 1) = CommandsIn(sent[c], done)
  BY CountOfCommands
<1>2. ASSUME NEW i \in 1 .. done + 1, IsCommand(sent[c][i])
      PROVE  Fits(written[c][CommandsIn(sent[c], i)], sent[c][i])
  <2>1. i \in 1 .. done
    BY <1>2
  <2> QED
    BY <1>2, <2>1 DEF AnsweredTo
<1> QED
  BY <1>1, <1>2 DEF AnsweredTo

\* What replyTo writes fits the command it answers.
LEMMA ReplyFits ==
  ASSUME TypeOK, NEW c \in Connection, NEW frame \in Frame, IsCommand(frame),
         replyTo(c, signatureOf(toCommand(frame)))
  PROVE  \E reply : Fits(reply, frame) /\ written'[c] = Append(written[c], reply)
<1> DEFINE sig == signatureOf(toCommand(frame))
<1>1. sig \in Signature
  BY FrameAssumption
<1>2. replyTo(c, sig)
  OBVIOUS
<1>3. \A reply : Fits(reply, frame) <=> (IF Recorded[sig] = <<>> THEN reply = NoRecording
                                         ELSE reply \in Range(Recorded[sig]))
  BY DEF Fits
<1> HIDE DEF sig
<1>4. CASE ReplyRecorded(c, sig)
  <2> DEFINE replies == Recorded[sig]
             index   == IF next[sig] < Len(replies) THEN next[sig] + 1 ELSE Len(replies)
  <2>1. /\ replies # <<>> /\ replies \in Seq(Reply) /\ next[sig] \in Nat
        /\ written' = [written EXCEPT ![c] = Append(@, replies[index])]
    BY <1>1, <1>4, RecordedAssumption DEF ReplyRecorded, TypeOK
  <2>2. index \in DOMAIN replies
    BY <2>1
  <2> HIDE DEF index
  <2>3. replies[index] \in Range(replies)
    BY <2>2 DEF Range
  <2>4. written'[c] = Append(written[c], replies[index])
    BY <2>1 DEF TypeOK
  <2> QED
    BY <1>3, <2>1, <2>3, <2>4
<1>5. CASE ReplyMissing(c, sig)
  <2>1. Recorded[sig] = <<>> /\ written'[c] = Append(written[c], NoRecording)
    BY <1>5 DEF ReplyMissing, TypeOK
  <2> QED
    BY <1>3, <2>1
<1> QED
  BY <1>2, <1>4, <1>5 DEF replyTo

LEMMA DecodeInStep ==
  ASSUME TypeOK, NEW c \in Connection, InStep(c), Decode(c)
  PROVE  InStep(c)'
<1>1. PICK dropped \in Nat, through \in Nat :
        Streams(c, dropped, through) /\ AnsweredTo(c, dropped + through)
  BY DEF InStep
<1>2. PICK here \in Nat, there \in Nat, n \in Nat :
        /\ here = Len(buffered[c]) /\ there = Len(wire[c]) /\ n = Len(sent[c])
        /\ Len(Pending(c)) = here + there
  BY Measures
<1>3. sent[c] \in Seq(Frame) /\ buffered[c] \in Seq(Frame) /\ wire[c] \in Seq(Frame)
  BY DEF TypeOK
<1>4. /\ sent' = sent /\ wire' = wire /\ buffered' = buffered
      /\ Offset(c) = offset /\ Offset(c)' = offset + 2
      /\ offset + 2 <= Len(buffered[c])
  BY DEF Decode, decoded, clientVars, Offset
<1>5. PICK done \in Nat, through1 \in Nat, off \in Nat :
        done = dropped + through /\ through1 = through + 1 /\ off = 2 * through
  OBVIOUS
<1>6. offset = off /\ off + 2 <= here /\ (here + there) + 2 * dropped = 2 * n
  BY <1>1, <1>2, <1>4, <1>5 DEF Streams
<1>7. \A i \in dropped + 1 .. n : Pending(c)[2 * (i - dropped)] = sent[c][i]
  BY <1>1, <1>2 DEF Streams
<1>8. done + 1 \in dropped + 1 .. n /\ 2 * ((done + 1) - dropped) = off + 2 /\ off + 2 \in 1 .. here
  BY <1>5, <1>6
<1>9. buffered[c][offset + 2] = sent[c][done + 1] /\ sent[c][done + 1] \in Frame
  <2>1. Pending(c)[off + 2] = sent[c][done + 1]
    BY <1>7, <1>8
  <2>2. Pending(c)[off + 2] = buffered[c][off + 2]
    BY <1>2, <1>3, <1>8 DEF Pending
  <2>3. done + 1 \in 1 .. n
    BY <1>5, <1>8
  <2> QED
    BY <1>2, <1>3, <1>6, <2>1, <2>2, <2>3
<1>10. Streams(c, dropped, through1)'
  <2>1. Offset(c)' = 2 * through1 /\ 2 * through1 <= here
    BY <1>4, <1>5, <1>6
  <2>2. Pending(c)' = Pending(c)
    BY <1>4 DEF Pending
  <2> QED
    BY <1>1, <1>2, <1>4, <2>1, <2>2 DEF Streams
<1>11. AnsweredTo(c, done)
  BY <1>1, <1>5
<1>12. AnsweredTo(c, done + 1)'
  <2>1. CASE IsCommand(sent[c][done + 1])
    <3>1. replyTo(c, signatureOf(toCommand(sent[c][done + 1])))
      BY <1>9, <2>1 DEF Decode
    <3>2. PICK reply : Fits(reply, sent[c][done + 1]) /\ written'[c] = Append(written[c], reply)
      BY <1>9, <2>1, <3>1, ReplyFits
    <3> QED
      BY <1>4, <1>11, <2>1, <3>2, OneAnswerMore
  <2>2. CASE ~ IsCommand(sent[c][done + 1])
    <3>1. written' = written
      BY <1>9, <2>2 DEF Decode
    <3> QED
      BY <1>4, <1>11, <2>2, <3>1, NoAnswerMore
  <2> QED
    BY <2>1, <2>2
<1>13. dropped + through1 = done + 1
  BY <1>5
<1> QED
  BY <1>10, <1>12, <1>13 DEF InStep

LEMMA PairedStep ==
  ASSUME TypeOK, Paired, [Next]_vars
  PROVE  Paired'
<1>1. ASSUME NEW c \in Connection, InStep(c)',
             \A d \in Connection \ {c} :
                /\ buffered'[d] = buffered[d] /\ wire'[d] = wire[d] /\ sent'[d] = sent[d]
                /\ written'[d] = written[d] /\ Offset(d)' = Offset(d)
      PROVE  Paired'
  BY <1>1, OthersInStep DEF Paired
<1>2. ASSUME NEW c \in Connection, NEW frame \in Frame, Send(c, frame)
      PROVE  Paired'
  <2>1. InStep(c)'
    BY <1>2, SendInStep DEF Paired
  <2> QED
    BY <1>1, <1>2, <2>1 DEF Send, TypeOK, Offset
<1>3. ASSUME NEW c \in Connection, Disconnect(c)
      PROVE  Paired'
  <2>1. InStep(c)'
    BY <1>3, DisconnectInStep
  <2> QED
    BY <1>1, <1>3, <2>1 DEF Disconnect, TypeOK, Offset
<1>4. ASSUME NEW c \in Connection, Data(c)
      PROVE  Paired'
  <2>1. InStep(c)'
    BY <1>4, DataInStep DEF Paired
  <2> QED
    BY <1>1, <1>4, <2>1, IdleAssumption DEF Data, TypeOK, Offset, clientVars
<1>5. ASSUME NEW c \in Connection, Return(c)
      PROVE  Paired'
  <2>1. InStep(c)'
    BY <1>5, ReturnInStep DEF Paired
  <2> QED
    BY <1>1, <1>5, <2>1, IdleAssumption DEF Return, TypeOK, Offset, clientVars
<1>6. ASSUME NEW c \in Connection, Decode(c)
      PROVE  Paired'
  <2>1. InStep(c)'
    BY <1>6, DecodeInStep DEF Paired
  <2>2. \A d \in Connection \ {c} : written'[d] = written[d]
    BY <1>6 DEF Decode, replyTo, ReplyRecorded, ReplyMissing, TypeOK
  <2> QED
    BY <1>1, <1>6, <2>1, <2>2 DEF Decode, Offset, clientVars
<1>7. CASE UNCHANGED vars
  <2>1. \A d \in Connection : Offset(d)' = Offset(d)
    BY <1>7 DEF vars, Offset
  <2> QED
    BY <1>7, <2>1, OthersInStep DEF Paired, vars, clientVars
<1> QED
  BY <1>2, <1>3, <1>4, <1>5, <1>6, <1>7 DEF Next, Serve

LEMMA PairedInit == Init => Paired
<1> SUFFICES ASSUME Init, NEW c \in Connection PROVE InStep(c)
  BY DEF Paired
<1>1. /\ sent[c] = <<>> /\ wire[c] = <<>> /\ buffered[c] = <<>> /\ written[c] = <<>>
      /\ Offset(c) = 0 /\ Pending(c) = <<>>
  BY IdleAssumption DEF Init, Offset, Pending
<1>2. Streams(c, 0, 0)
  BY <1>1 DEF Streams
<1>3. AnsweredTo(c, 0)
  BY <1>1, CountOfNone DEF AnsweredTo
<1>4. 0 \in Nat /\ 0 + 0 = 0
  OBVIOUS
<1> QED
  BY <1>2, <1>3, <1>4 DEF InStep

\* redisReplayServer.ts:89-103: the n-th reply a client reads answers the n-th
\* command it sent, however its commands were cut into chunks, pipelined and mixed
\* with values that are no commands, and whatever the other connections do, until it
\* sends an inline one.
THEOREM RepliesMatchPositionsHolds == Spec => []RepliesMatchPositions
  BY TypeInit, TypeStep, PairedInit, PairedStep, PairedMatches, PTL DEF Spec

=============================================================================
