------------------------ MODULE PostgresReplayProofs ------------------------
(***************************************************************************)
(* Proofs about the Postgres replay server, for every recording, every set *)
(* of connections, statements and round trips, and every bound on them.    *)
(***************************************************************************)
EXTENDS PostgresReplay, SequenceTheorems, FiniteSetTheorems, TLAPS

Calls == Seq(Sql \X Params)

Answers == Seq([sig : ListName, reply : Result \union {NoRecording}])

LEMMA NameOfSignature ==
  ASSUME NEW sql \in Sql, NEW params \in Params
  PROVE  /\ <<sql, params>> \in ListName
         /\ RepliesLeft(<<sql, params>>) = bySignature[<<sql, params>>]
         /\ RecordedIn(<<sql, params>>) = RecordedExact[<<sql, params>>]
  BY DEF ListName, RepliesLeft, RecordedIn

LEMMA NameOfText ==
  ASSUME NEW sql \in Sql
  PROVE  /\ <<sql>> \in ListName
         /\ RepliesLeft(<<sql>>) = bySql[sql]
         /\ RecordedIn(<<sql>>) = RecordedLoose[sql]
  BY DEF ListName, RepliesLeft, RecordedIn

LEMMA TwoKindsOfList ==
  ASSUME NEW list \in ListName
  PROVE  \/ \E sql \in Sql, params \in Params : list = <<sql, params>>
         \/ \E sql \in Sql : list = <<sql>>
  BY DEF ListName

LEMMA ListsAreSequences ==
  ASSUME bySignature \in [Sql \X Params -> Seq(Result)], bySql \in [Sql -> Seq(Result)],
         NEW list \in ListName
  PROVE  RepliesLeft(list) \in Seq(Result) /\ RecordedIn(list) \in Seq(Result)
<1>1. CASE \E sql \in Sql, params \in Params : list = <<sql, params>>
  BY <1>1, NameOfSignature, RecordedAssumption
<1>2. CASE \E sql \in Sql : list = <<sql>>
  BY <1>2, NameOfText, RecordedAssumption
<1> QED
  BY <1>1, <1>2, TwoKindsOfList

-----------------------------------------------------------------------------
(***************************************************************************)
(* Types.  One step of the server looks into the lists, runs a statement   *)
(* and answers it, or leaves all of that alone.                            *)
(***************************************************************************)

LEMMA RestIsShorter ==
  ASSUME NEW S, NEW replies \in Seq(S)
  PROVE  Rest(replies) \in Seq(S)
  BY DEF Rest

LEMMA LookupTypes ==
  ASSUME bySignature \in [Sql \X Params -> Seq(Result)], bySql \in [Sql -> Seq(Result)],
         NEW sql \in Sql, NEW params \in Params, lookup(sql, params)
  PROVE  bySignature' \in [Sql \X Params -> Seq(Result)] /\ bySql' \in [Sql -> Seq(Result)]
<1>1. Rest(bySignature[<<sql, params>>]) \in Seq(Result) /\ Rest(bySql[sql]) \in Seq(Result)
  BY RestIsShorter
<1> QED
  BY <1>1 DEF lookup

LEMMA LookedUpIsListed ==
  ASSUME NEW sql \in Sql, NEW params \in Params
  PROVE  ListOf(sql, params) \in ListName /\ ListOf(sql, params)[1] = sql
  BY DEF ListOf, ListName

LEMMA ReplyType ==
  ASSUME TypeOK, NEW sql \in Sql, NEW params \in Params, Found(sql, params)
  PROVE  Head(RepliesLeft(ListOf(sql, params))) \in Result
<1>1. RepliesLeft(ListOf(sql, params)) \in Seq(Result)
  BY LookedUpIsListed, ListsAreSequences DEF TypeOK
<1> QED
  BY <1>1 DEF Found

LEMMA WarningsType ==
  ASSUME NEW kept \in Seq(Kept), NEW written, NEW sql \in Sql, NEW wasRecorded
  PROVE  WarningsAfter(kept, written, sql, wasRecorded) \in Seq(Kept)
<1> DEFINE warning == evaluate(written, sql, wasRecorded)
<1>1. warning = Quiet \/ warning \in Kept
  BY DEF evaluate, Kept
<1>2. WarningsAfter(kept, written, sql, wasRecorded) = kept
        \/ (warning # Quiet /\ WarningsAfter(kept, written, sql, wasRecorded) = Append(kept, warning))
  BY DEF WarningsAfter
<1> HIDE DEF warning
<1> QED
  BY <1>1, <1>2

LEMMA AnswerTypes ==
  ASSUME TypeOK, NEW c \in Connection, NEW sql \in Sql, NEW params \in Params,
         answerFor(c, sql, params)
  PROVE  /\ bySignature' \in [Sql \X Params -> Seq(Result)]
         /\ bySql' \in [Sql -> Seq(Result)]
         /\ matchedCount' \in Nat
         /\ missing' \in SUBSET Sql
         /\ writtenTables' \in SUBSET {About[s].table : s \in Sql}
         /\ warnings' \in Seq(Kept)
         /\ executed' \in [Connection -> Calls]
         /\ history' \in Answers
<1>1. lookup(sql, params)
  BY DEF answerFor, resultFor
<1>2. matchedCount' \in Nat /\ missing' \in SUBSET Sql
  BY DEF answerFor, resultFor, TypeOK
<1>3. executed' \in [Connection -> Calls]
  BY DEF answerFor, TypeOK, Calls
<1>4. history' \in Answers
  BY LookedUpIsListed, ReplyType DEF answerFor, TypeOK, Answers
<1>5. writtenTables' \in SUBSET {About[s].table : s \in Sql}
  BY DEF answerFor, resultFor, WrittenAfter, TypeOK
<1>6. warnings' \in Seq(Kept)
  BY WarningsType DEF answerFor, resultFor, TypeOK
<1> QED
  BY <1>1, <1>2, <1>3, <1>4, <1>5, <1>6, LookupTypes DEF TypeOK

LEMMA OneOrTwo ==
  ASSUME NEW S, NEW a \in S, NEW b \in S
  PROVE  <<>> \in Seq(S) /\ <<a>> \in Seq(S) /\ <<a, b>> \in Seq(S)
  OBVIOUS

LEMMA Joined ==
  ASSUME NEW S, NEW s \in Seq(S), NEW t \in Seq(S)
  PROVE  s \o t \in Seq(S)
  OBVIOUS

LEMMA FramesAreTyped ==
  ASSUME NEW trip \in RoundTrip
  PROVE  FramesOf(trip) \in Seq(Frame)
<1>1. CASE trip \in [kind : {"simple"}, sql : Sql]
  <2>1. [type |-> "Q", sql |-> trip.sql] \in Frame
    BY <1>1 DEF Frame
  <2>2. FramesOf(trip) = <<[type |-> "Q", sql |-> trip.sql]>>
    BY <1>1 DEF FramesOf
  <2> QED
    BY <2>1, <2>2, OneOrTwo
<1>2. CASE trip \in [kind : {"close"}, name : StatementName]
  <2>1. [type |-> "C", name |-> trip.name] \in Frame /\ [type |-> "S"] \in Frame
    BY <1>2 DEF Frame
  <2>2. FramesOf(trip) = <<[type |-> "C", name |-> trip.name], [type |-> "S"]>>
    BY <1>2 DEF FramesOf
  <2> QED
    BY <2>1, <2>2, OneOrTwo
<1>3. CASE trip \in [kind : {"extended"}, name : StatementName, sql : Sql, params : Params,
                     parse : BOOLEAN, describe : BOOLEAN]
  <2> DEFINE parse    == IF trip.parse THEN <<[type |-> "P", name |-> trip.name, sql |-> trip.sql]>>
                                       ELSE <<>>
             bind     == <<[type |-> "B", name |-> trip.name, params |-> trip.params]>>
             describe == IF trip.describe THEN <<[type |-> "D"]>> ELSE <<>>
             run      == <<[type |-> "E"], [type |-> "S"]>>
  <2>1. parse \in Seq(Frame)
    <3>1. [type |-> "P", name |-> trip.name, sql |-> trip.sql] \in Frame
      BY <1>3 DEF Frame
    <3> QED
      BY <3>1, OneOrTwo
  <2>2. bind \in Seq(Frame)
    <3>1. [type |-> "B", name |-> trip.name, params |-> trip.params] \in Frame
      BY <1>3 DEF Frame
    <3> QED
      BY <3>1, OneOrTwo
  <2>3. describe \in Seq(Frame) /\ run \in Seq(Frame)
    <3>1. [type |-> "D"] \in Frame /\ [type |-> "E"] \in Frame /\ [type |-> "S"] \in Frame
      BY DEF Frame
    <3> QED
      BY <3>1, OneOrTwo
  <2>4. FramesOf(trip) = parse \o bind \o describe \o run
    BY <1>3 DEF FramesOf
  <2> HIDE DEF parse, bind, describe, run
  <2> QED
    BY <2>1, <2>2, <2>3, <2>4
<1> QED
  BY <1>1, <1>2, <1>3, RoundTripAssumption

LEMMA ClientTypes ==
  ASSUME NEW known0 \in [StatementName -> Sql \union {Unparsed}], NEW trip \in RoundTrip
  PROVE  KnownAfter(known0, trip) \in [StatementName -> Sql \union {Unparsed}] /\ Runs(trip) \in Calls
<1>1. CASE trip \in [kind : {"simple"}, sql : Sql]
  BY <1>1, SessionAssumption DEF KnownAfter, Runs, Calls
<1>2. CASE trip \in [kind : {"close"}, name : StatementName]
  BY <1>2 DEF KnownAfter, Runs, Calls
<1>3. CASE trip \in [kind : {"extended"}, name : StatementName, sql : Sql, params : Params,
                     parse : BOOLEAN, describe : BOOLEAN]
  BY <1>3 DEF KnownAfter, Runs, Calls
<1> QED
  BY <1>1, <1>2, <1>3, RoundTripAssumption

LEMMA TypeInit == Init => TypeOK
<1> SUFFICES ASSUME Init PROVE TypeOK
  OBVIOUS
<1>1. NewSession \in SessionState
  BY SessionAssumption DEF NewSession, NothingParsed, SessionState
<1>2. NothingParsed \in [StatementName -> Sql \union {Unparsed}]
  BY DEF NothingParsed
<1>3. /\ bySignature \in [Sql \X Params -> Seq(Result)]
      /\ bySql \in [Sql -> Seq(Result)]
      /\ matchedCount \in Nat /\ missing \in SUBSET Sql /\ described \in SUBSET ListName
      /\ trips \in Nat
      /\ writtenTables \in SUBSET {About[s].table : s \in Sql} /\ warnings \in Seq(Kept)
  BY RecordedAssumption DEF Init
<1>4. \A S : <<>> \in Seq(S) /\ [c \in Connection |-> <<>>] \in [Connection -> Seq(S)]
  OBVIOUS
<1>5. /\ wire \in [Connection -> Seq(Frame)]
      /\ asked \in [Connection -> Calls] /\ executed \in [Connection -> Calls]
      /\ history \in Answers
  BY <1>4 DEF Init, Calls, Answers
<1>6. session = [c \in Connection |-> NewSession] /\ known = [c \in Connection |-> NothingParsed]
  BY DEF Init
<1> QED
  BY <1>1, <1>2, <1>3, <1>5, <1>6 DEF TypeOK, Calls, Answers

LEMMA TypeStep == TypeOK /\ [Next]_vars => TypeOK'
<1> SUFFICES ASSUME TypeOK, [Next]_vars PROVE TypeOK'
  OBVIOUS
<1>1. ASSUME NEW c \in Connection, NEW type \in {"SSLRequest", "Startup"}, Greet(c, type)
      PROVE  TypeOK'
  BY <1>1 DEF Greet, TypeOK, lists, totals, clientVars, Frame
<1>2. ASSUME NEW c \in Connection, NEW trip \in RoundTrip, Ask(c, trip)
      PROVE  TypeOK'
  <2>1. wire[c] \o FramesOf(trip) \in Seq(Frame) /\ asked[c] \o Runs(trip) \in Calls
    <3>1. wire[c] \in Seq(Frame) /\ asked[c] \in Calls /\ known[c] \in [StatementName -> Sql \union {Unparsed}]
      BY DEF TypeOK, Calls
    <3>2. FramesOf(trip) \in Seq(Frame) /\ Runs(trip) \in Calls
      BY <3>1, FramesAreTyped, ClientTypes
    <3> QED
      BY <3>1, <3>2, Joined DEF Calls
  <2>2. KnownAfter(known[c], trip) \in [StatementName -> Sql \union {Unparsed}]
    BY ClientTypes DEF TypeOK
  <2>3. /\ wire' \in [Connection -> Seq(Frame)] /\ asked' \in [Connection -> Calls]
        /\ known' \in [Connection -> [StatementName -> Sql \union {Unparsed}]]
        /\ trips' \in Nat
    BY <1>2, <2>1, <2>2 DEF Ask, TypeOK, Calls
  <2> QED
    BY <1>2, <2>3 DEF Ask, TypeOK, lists, totals, Calls
<1>3. ASSUME NEW c \in Connection, Disconnect(c)
      PROVE  TypeOK'
  <2>1. NewSession \in SessionState
    BY SessionAssumption DEF NewSession, NothingParsed, SessionState
  <2>2. NothingParsed \in [StatementName -> Sql \union {Unparsed}]
    BY DEF NothingParsed
  <2> QED
    BY <1>3, <2>1, <2>2 DEF Disconnect, TypeOK, lists, totals
<1>4. ASSUME NEW c \in Connection, handleStartup(c)
      PROVE  TypeOK'
  <2>1. session' \in [Connection -> SessionState]
    <3>1. session \in [Connection -> SessionState]
      BY DEF TypeOK
    <3> QED
      BY <1>4, <3>1 DEF handleStartup, SessionState
  <2>2. wire' \in [Connection -> Seq(Frame)]
    BY <1>4 DEF handleStartup, Arrived, Consume, TypeOK
  <2> QED
    BY <1>4, <2>1, <2>2 DEF handleStartup, TypeOK, lists, totals, clientVars
<1>5. ASSUME NEW c \in Connection, handleFrame(c)
      PROVE  TypeOK'
  <2> DEFINE frame == Head(wire[c])
  <2>1. frame \in Frame /\ wire' \in [Connection -> Seq(Frame)]
    BY <1>5 DEF handleFrame, Consume, TypeOK, Query, Parse, Bind, Describe, Execute, Other, Arrived
  <2>2. /\ session[c].sql \in Sql /\ session[c].params \in Params
        /\ session[c].prepared \in [StatementName -> Sql \union {Unparsed}]
    BY DEF TypeOK, SessionState
  <2>3. UNCHANGED <<known, asked, trips>>
    BY <1>5 DEF handleFrame, clientVars
  <2>4. CASE Query(c)
    <3>1. frame.sql \in Sql /\ NoParams \in Params
      BY <2>1, <2>4, SessionAssumption DEF Query, Arrived, Frame
    <3>2. answerFor(c, frame.sql, NoParams) /\ described' = described
      BY <2>4 DEF Query
    <3>3. session' \in [Connection -> SessionState]
      BY <2>4, <3>1 DEF Query, TypeOK, SessionState
    <3> QED
      BY <2>1, <2>3, <3>1, <3>2, <3>3, AnswerTypes DEF TypeOK, Calls, Answers
  <2>5. CASE Parse(c)
    <3>1. frame.name \in StatementName /\ frame.sql \in Sql
      BY <2>1, <2>5 DEF Parse, Arrived, Frame
    <3>2. session' \in [Connection -> SessionState]
      BY <2>5, <3>1 DEF Parse, TypeOK, SessionState
    <3> QED
      BY <2>1, <2>3, <2>5, <3>2 DEF Parse, TypeOK, lists, totals
  <2>6. CASE Bind(c)
    <3>1. frame.name \in StatementName /\ frame.params \in Params
      BY <2>1, <2>6 DEF Bind, Arrived, Frame
    <3>2. session' \in [Connection -> SessionState]
      <4> DEFINE prepared == session[c].prepared[frame.name]
                 sql      == IF prepared = Unparsed THEN session[c].sql ELSE prepared
      <4>1. sql \in Sql
        BY <2>2, <3>1
      <4>2. session' = [session EXCEPT ![c].sql = sql, ![c].params = frame.params]
        BY <2>6 DEF Bind
      <4> HIDE DEF sql, frame
      <4> QED
        BY <3>1, <4>1, <4>2 DEF TypeOK, SessionState
    <3> QED
      BY <2>1, <2>3, <2>6, <3>2 DEF Bind, TypeOK, lists, totals
  <2>7. CASE Describe(c)
    <3>1. lookup(session[c].sql, session[c].params)
      BY <2>7 DEF Describe, peek
    <3>2. described' \in SUBSET ListName
      BY <2>2, <2>7, LookedUpIsListed DEF Describe, peek, TypeOK
    <3> QED
      BY <2>1, <2>2, <2>3, <2>7, <3>1, <3>2, LookupTypes DEF Describe, TypeOK, totals
  <2>8. CASE Execute(c)
    BY <2>1, <2>2, <2>3, <2>8, AnswerTypes DEF Execute, TypeOK, Calls, Answers
  <2>9. CASE Other(c)
    BY <2>1, <2>3, <2>9 DEF Other, TypeOK, lists, totals
  <2> QED
    BY <1>5, <2>4, <2>5, <2>6, <2>7, <2>8, <2>9 DEF handleFrame
<1>6. CASE UNCHANGED vars
  BY <1>6 DEF vars, lists, totals, clientVars, TypeOK
<1> QED
  BY <1>1, <1>2, <1>3, <1>4, <1>5, <1>6 DEF Next

\* Every variable of the server, of its clients and of the ghosts keeps its type.
THEOREM TypeCorrect == Spec => []TypeOK
  BY TypeInit, TypeStep, PTL DEF Spec

-----------------------------------------------------------------------------
(***************************************************************************)
(* What a step does to the lists, the totals and the history: a Describe   *)
(* looks into one list, an execution takes from one list and is answered,  *)
(* and every other step leaves them alone.                                 *)
(***************************************************************************)

Quietly == UNCHANGED <<lists, totals, described, history>>

Describing(sql, params) == peek(sql, params) /\ UNCHANGED <<totals, history>>

Executing(c, sql, params) == answerFor(c, sql, params) /\ UNCHANGED described

LEMMA StepKinds ==
  ASSUME TypeOK, [Next]_vars
  PROVE  \/ Quietly
         \/ \E sql \in Sql, params \in Params : Describing(sql, params)
         \/ \E c \in Connection, sql \in Sql, params \in Params : Executing(c, sql, params)
<1>1. ASSUME NEW c \in Connection,
             \/ \E type \in {"SSLRequest", "Startup"} : Greet(c, type)
             \/ \E trip \in RoundTrip : Ask(c, trip)
             \/ Disconnect(c)
             \/ handleStartup(c)
      PROVE  Quietly
  BY <1>1 DEF Greet, Ask, Disconnect, handleStartup, Quietly
<1>2. ASSUME NEW c \in Connection, Parse(c) \/ Bind(c) \/ Other(c)
      PROVE  Quietly
  BY <1>2 DEF Parse, Bind, Other, Quietly
<1>3. ASSUME NEW c \in Connection
      PROVE  session[c].sql \in Sql /\ session[c].params \in Params
  BY DEF TypeOK, SessionState
<1>4. ASSUME NEW c \in Connection, Describe(c)
      PROVE  Describing(session[c].sql, session[c].params)
  BY <1>4 DEF Describe, Describing
<1>5. ASSUME NEW c \in Connection, Execute(c)
      PROVE  Executing(c, session[c].sql, session[c].params)
  BY <1>5 DEF Execute, Executing
<1>6. ASSUME NEW c \in Connection, Query(c)
      PROVE  Head(wire[c]).sql \in Sql /\ Executing(c, Head(wire[c]).sql, NoParams)
  <2>1. Head(wire[c]) \in Frame /\ Head(wire[c]).type = "Q"
    BY <1>6 DEF Query, Arrived, TypeOK
  <2>2. Head(wire[c]).sql \in Sql
    BY <2>1 DEF Frame
  <2> QED
    BY <1>6, <2>2 DEF Query, Executing
<1>7. CASE UNCHANGED vars
  BY <1>7 DEF vars, Quietly
<1> QED
  BY <1>1, <1>2, <1>3, <1>4, <1>5, <1>6, <1>7, SessionAssumption DEF Next, handleFrame

\* A lookup takes from the list it looks into, and from no other.
LEMMA LookupTakes ==
  ASSUME TypeOK, NEW sql \in Sql, NEW params \in Params, lookup(sql, params),
         NEW list \in ListName
  PROVE  RepliesLeft(list)' = IF list = ListOf(sql, params) THEN Rest(RepliesLeft(list))
                                                             ELSE RepliesLeft(list)
<1>1. ASSUME NEW other \in Sql, NEW others \in Params
      PROVE  RepliesLeft(<<other, others>>)' = bySignature'[<<other, others>>]
  BY DEF RepliesLeft
<1>2. ASSUME NEW other \in Sql
      PROVE  RepliesLeft(<<other>>)' = bySql'[other]
  BY DEF RepliesLeft
<1>3. bySignature \in [Sql \X Params -> Seq(Result)] /\ bySql \in [Sql -> Seq(Result)]
  BY DEF TypeOK
<1>4. CASE bySignature[<<sql, params>>] # <<>>
  <2>1. /\ bySignature' = [bySignature EXCEPT ![<<sql, params>>] = Rest(@)]
        /\ bySql' = bySql
        /\ ListOf(sql, params) = <<sql, params>>
    BY <1>4 DEF lookup, ListOf
  <2>2. CASE \E other \in Sql, others \in Params : list = <<other, others>>
    <3>1. PICK other \in Sql, others \in Params : list = <<other, others>>
      BY <2>2
    <3>2. list \in Sql \X Params /\ <<sql, params>> \in Sql \X Params
      BY <3>1
    <3>3. bySignature'[list] = IF list = <<sql, params>> THEN Rest(bySignature[list])
                                                         ELSE bySignature[list]
      BY <1>3, <2>1, <3>2
    <3>4. RepliesLeft(list) = bySignature[list] /\ RepliesLeft(list)' = bySignature'[list]
      BY <1>1, <3>1, NameOfSignature
    <3> QED
      BY <2>1, <3>3, <3>4
  <2>3. CASE \E other \in Sql : list = <<other>>
    BY <1>2, <1>3, <2>1, <2>3, NameOfText
  <2> QED
    BY <2>2, <2>3, TwoKindsOfList
<1>5. CASE bySignature[<<sql, params>>] = <<>>
  <2>1. /\ bySql' = [bySql EXCEPT ![sql] = Rest(@)]
        /\ bySignature' = bySignature
        /\ ListOf(sql, params) = <<sql>>
    BY <1>5 DEF lookup, ListOf
  <2>2. CASE \E other \in Sql, others \in Params : list = <<other, others>>
    BY <1>1, <1>3, <2>1, <2>2, NameOfSignature
  <2>3. CASE \E other \in Sql : list = <<other>>
    BY <1>2, <1>3, <2>1, <2>3, NameOfText
  <2> QED
    BY <2>2, <2>3, TwoKindsOfList
<1> QED
  BY <1>4, <1>5

-----------------------------------------------------------------------------
(***************************************************************************)
(* The lists: what is left of each is an end of what was recorded, never   *)
(* an empty one unless nothing was.                                        *)
(***************************************************************************)

EndOf(left, recorded) ==
    IF recorded = <<>> THEN left = <<>>
    ELSE /\ Len(left) \in 1 .. Len(recorded)
         /\ \A i \in 1 .. Len(left) : left[i] = recorded[Len(recorded) - Len(left) + i]

\* The place in the recording of the reply a list gives next.
Cursor(list) == Len(RecordedIn(list)) - Len(RepliesLeft(list)) + 1

ListsAreEnds == \A list \in ListName : EndOf(RepliesLeft(list), RecordedIn(list))

LEMMA AtMostOne ==
  ASSUME NEW n \in Nat, NEW m \in 1 .. n, ~ (m > 1)
  PROVE  m = 1
  OBVIOUS

LEMMA RestIsAnEnd ==
  ASSUME NEW S, NEW left \in Seq(S), NEW recorded \in Seq(S), EndOf(left, recorded)
  PROVE  /\ EndOf(Rest(left), recorded)
         /\ recorded # <<>> =>
              /\ left # <<>>
              /\ Head(left) = recorded[Len(recorded) - Len(left) + 1]
              /\ Len(Rest(left)) = IF Len(left) > 1 THEN Len(left) - 1 ELSE 1
<1>1. CASE recorded = <<>>
  BY <1>1 DEF EndOf, Rest
<1>2. CASE recorded # <<>> /\ Len(left) > 1
  <2>1. /\ Rest(left) = Tail(left) /\ Len(Tail(left)) = Len(left) - 1
        /\ \A i \in 1 .. Len(left) - 1 : Tail(left)[i] = left[i + 1]
    BY <1>2 DEF Rest
  <2>2. /\ Len(left) \in 1 .. Len(recorded) /\ Len(recorded) \in Nat
        /\ \A i \in 1 .. Len(left) : left[i] = recorded[Len(recorded) - Len(left) + i]
    BY <1>2 DEF EndOf
  <2>3. Len(Rest(left)) = Len(left) - 1 /\ Len(left) - 1 \in 1 .. Len(recorded)
    BY <1>2, <2>1, <2>2
  <2>4. ASSUME NEW i \in 1 .. Len(left) - 1
        PROVE  Rest(left)[i] = recorded[Len(recorded) - (Len(left) - 1) + i]
    <3>1. i + 1 \in 1 .. Len(left)
      BY <2>2
    <3>2. Len(recorded) - Len(left) + (i + 1) = Len(recorded) - (Len(left) - 1) + i
      BY <2>2
    <3> QED
      BY <2>1, <2>2, <3>1, <3>2
  <2>5. EndOf(Rest(left), recorded)
    BY <1>2, <2>3, <2>4 DEF EndOf
  <2>6. left # <<>> /\ Head(left) = recorded[Len(recorded) - Len(left) + 1]
    BY <1>2, <2>2
  <2> QED
    BY <1>2, <2>3, <2>5, <2>6
<1>3. CASE recorded # <<>> /\ ~ (Len(left) > 1)
  <2>1. Len(left) \in 1 .. Len(recorded) /\ Len(recorded) \in Nat
    BY <1>3 DEF EndOf
  <2>2. Len(left) = 1
    BY <1>3, <2>1, AtMostOne
  <2>3. left # <<>> /\ Head(left) = recorded[Len(recorded) - Len(left) + 1]
    <3>1. \A i \in 1 .. 1 : left[i] = recorded[Len(recorded) - 1 + i]
      BY <1>3, <2>2 DEF EndOf
    <3>2. 1 \in 1 .. 1
      OBVIOUS
    <3>3. left[1] = recorded[Len(recorded) - 1 + 1]
      BY <3>1, <3>2
    <3>4. left # <<>> /\ Head(left) = left[1]
      BY <2>2
    <3> QED
      BY <2>2, <3>3, <3>4
  <2>4. Rest(left) = left
    BY <1>3 DEF Rest
  <2> QED
    BY <1>3, <2>2, <2>3, <2>4
<1> QED
  BY <1>1, <1>2, <1>3

LEMMA LookupKeepsEnds ==
  ASSUME TypeOK, ListsAreEnds, NEW sql \in Sql, NEW params \in Params, lookup(sql, params)
  PROVE  ListsAreEnds'
<1> SUFFICES ASSUME NEW list \in ListName
             PROVE  EndOf(RepliesLeft(list), RecordedIn(list))'
  BY DEF ListsAreEnds
<1>1. EndOf(RepliesLeft(list), RecordedIn(list))
  BY DEF ListsAreEnds
<1>2. RepliesLeft(list) \in Seq(Result) /\ RecordedIn(list) \in Seq(Result)
  BY ListsAreSequences DEF TypeOK
<1>3. EndOf(Rest(RepliesLeft(list)), RecordedIn(list))
  BY <1>1, <1>2, RestIsAnEnd
<1>4. RepliesLeft(list)' = Rest(RepliesLeft(list)) \/ RepliesLeft(list)' = RepliesLeft(list)
  BY LookupTakes
<1>5. EndOf(RepliesLeft(list)', RecordedIn(list))
  BY <1>1, <1>3, <1>4
<1> QED
  BY <1>5 DEF RecordedIn, EndOf

\* What an execution does: its list and its reply.
LEMMA ExecutionAnswers ==
  ASSUME TypeOK, ListsAreEnds, NEW c \in Connection, NEW sql \in Sql, NEW params \in Params,
         answerFor(c, sql, params)
  PROVE  \E list \in ListName, reply \in Result \union {NoRecording} :
            /\ list = ListOf(sql, params) /\ list[1] = sql
            /\ history' = Append(history, [sig |-> list, reply |-> reply])
            /\ lookup(sql, params)
            /\ Found(sql, params) <=> reply # NoRecording
            /\ IF RecordedIn(list) = <<>> THEN reply = NoRecording /\ list = <<sql>>
               ELSE reply \in Result /\ reply = RecordedIn(list)[Cursor(list)]
<1> DEFINE list  == ListOf(sql, params)
           reply == IF Found(sql, params) THEN Head(RepliesLeft(list)) ELSE NoRecording
<1>1. list \in ListName /\ list[1] = sql
  BY LookedUpIsListed
<1>2. EndOf(RepliesLeft(list), RecordedIn(list))
  BY <1>1 DEF ListsAreEnds
<1>3. RepliesLeft(list) \in Seq(Result) /\ RecordedIn(list) \in Seq(Result)
  BY <1>1, ListsAreSequences DEF TypeOK
<1>4. Found(sql, params) <=> RecordedIn(list) # <<>>
  BY <1>2, <1>3 DEF Found, EndOf
<1>5. RecordedIn(list) = <<>> => list = <<sql>>
  <2>1. CASE bySignature[<<sql, params>>] # <<>>
    <3>1. list = <<sql, params>> /\ RepliesLeft(list) # <<>>
      BY <2>1, NameOfSignature DEF ListOf
    <3> QED
      BY <1>2, <3>1 DEF EndOf
  <2>2. CASE bySignature[<<sql, params>>] = <<>>
    BY <2>2 DEF ListOf
  <2> QED
    BY <2>1, <2>2
<1>6. RecordedIn(list) # <<>> => Head(RepliesLeft(list)) = RecordedIn(list)[Cursor(list)]
  BY <1>2, <1>3, RestIsAnEnd DEF Cursor
<1>7. Found(sql, params) => Head(RepliesLeft(list)) \in Result
  BY ReplyType
<1>8. history' = Append(history, [sig |-> list, reply |-> reply]) /\ lookup(sql, params)
  BY DEF answerFor, resultFor
<1> HIDE DEF list
<1>9. /\ reply \in Result \union {NoRecording}
      /\ Found(sql, params) <=> reply # NoRecording
      /\ IF RecordedIn(list) = <<>> THEN reply = NoRecording /\ list = <<sql>>
         ELSE reply \in Result /\ reply = RecordedIn(list)[Cursor(list)]
  BY <1>4, <1>5, <1>6, <1>7, RecordedAssumption
<1> HIDE DEF reply
<1>10. list = ListOf(sql, params)
  BY DEF list
<1> QED
  BY <1>1, <1>8, <1>9, <1>10

LEMMA AnswerAtTheCursor ==
  ASSUME TypeOK, ListsAreEnds, NEW c \in Connection, NEW sql \in Sql, NEW params \in Params,
         Executing(c, sql, params)
  PROVE  \E list \in ListName, reply \in Result \union {NoRecording} :
            /\ history' = Append(history, [sig |-> list, reply |-> reply])
            /\ IF RecordedIn(list) = <<>> THEN reply = NoRecording
               ELSE reply \in Result /\ reply = RecordedIn(list)[Cursor(list)]
<1>1. answerFor(c, sql, params)
  BY DEF Executing
<1>2. PICK list \in ListName, reply \in Result \union {NoRecording} :
          /\ list = ListOf(sql, params) /\ list[1] = sql
          /\ history' = Append(history, [sig |-> list, reply |-> reply])
          /\ lookup(sql, params)
          /\ Found(sql, params) <=> reply # NoRecording
          /\ IF RecordedIn(list) = <<>> THEN reply = NoRecording /\ list = <<sql>>
             ELSE reply \in Result /\ reply = RecordedIn(list)[Cursor(list)]
  BY <1>1, ExecutionAnswers
<1>3. IF RecordedIn(list) = <<>> THEN reply = NoRecording
      ELSE reply \in Result /\ reply = RecordedIn(list)[Cursor(list)]
  BY <1>2
<1> QED
  BY ONLY <1>2, <1>3, Zenon

-----------------------------------------------------------------------------
(***************************************************************************)
(* The history.  Every answer was recorded for its list at or before the   *)
(* place the list has reached, or says that nothing was.                   *)
(***************************************************************************)

WasServed(list, reply, cursor) ==
    IF RecordedIn(list) = <<>>
    THEN reply = NoRecording /\ list = <<list[1]>>
    ELSE reply \in Result /\ \E a \in 1 .. cursor : RecordedIn(list)[a] = reply

Place == [list \in ListName |-> Cursor(list)]

Served ==
    \A k \in DOMAIN history :
        WasServed(history[k].sig, history[k].reply, Place[history[k].sig])

ServedInv == TypeOK /\ ListsAreEnds /\ Served

LEMMA CursorInRange ==
  ASSUME TypeOK, ListsAreEnds, NEW list \in ListName
  PROVE  RecordedIn(list) # <<>> =>
            /\ Cursor(list) \in 1 .. Len(RecordedIn(list))
            /\ RecordedIn(list) \in Seq(Result)
<1>1. EndOf(RepliesLeft(list), RecordedIn(list))
  BY DEF ListsAreEnds
<1>2. RepliesLeft(list) \in Seq(Result) /\ RecordedIn(list) \in Seq(Result)
  BY ListsAreSequences DEF TypeOK
<1> QED
  BY <1>1, <1>2 DEF EndOf, Cursor

LEMMA OneNearer ==
  ASSUME NEW whole \in Nat, NEW left \in 1 .. whole
  PROVE  whole - (IF left > 1 THEN left - 1 ELSE 1) + 1 =
            IF whole - left + 1 < whole THEN (whole - left + 1) + 1 ELSE whole - left + 1
  OBVIOUS

\* A lookup moves the place its list has reached on by one, up to the last reply.
LEMMA CursorMoves ==
  ASSUME TypeOK, ListsAreEnds, NEW sql \in Sql, NEW params \in Params, lookup(sql, params),
         NEW list \in ListName, RecordedIn(list) # <<>>
  PROVE  Cursor(list)' =
            IF list = ListOf(sql, params) /\ Cursor(list) < Len(RecordedIn(list))
            THEN Cursor(list) + 1 ELSE Cursor(list)
<1>1. EndOf(RepliesLeft(list), RecordedIn(list))
  BY DEF ListsAreEnds
<1>2. RepliesLeft(list) \in Seq(Result) /\ RecordedIn(list) \in Seq(Result)
  BY ListsAreSequences DEF TypeOK
<1>3. /\ Len(RepliesLeft(list)) \in 1 .. Len(RecordedIn(list))
      /\ Len(RecordedIn(list)) \in Nat /\ Len(RepliesLeft(list)) \in Nat
  BY <1>1, <1>2 DEF EndOf
<1>4. Len(Rest(RepliesLeft(list))) =
        IF Len(RepliesLeft(list)) > 1 THEN Len(RepliesLeft(list)) - 1 ELSE 1
  BY <1>1, <1>2, RestIsAnEnd
<1>5. RecordedIn(list)' = RecordedIn(list)
  BY DEF RecordedIn
<1>6. Cursor(list)' = Len(RecordedIn(list)) - Len(RepliesLeft(list)') + 1
  BY <1>5 DEF Cursor
<1> DEFINE left  == Len(RepliesLeft(list))
           whole == Len(RecordedIn(list))
<1>7. Cursor(list) = whole - left + 1
  BY DEF Cursor
<1>8. CASE list = ListOf(sql, params)
  <2>1. Cursor(list)' = whole - (IF left > 1 THEN left - 1 ELSE 1) + 1
    BY <1>4, <1>6, <1>8, LookupTakes
  <2>2. whole - (IF left > 1 THEN left - 1 ELSE 1) + 1 =
            IF whole - left + 1 < whole THEN (whole - left + 1) + 1 ELSE whole - left + 1
    BY <1>3, OneNearer
  <2> QED
    BY <1>7, <1>8, <2>1, <2>2
<1>9. CASE list # ListOf(sql, params)
  BY <1>6, <1>9, LookupTakes DEF Cursor
<1> QED
  BY <1>8, <1>9

LEMMA AnswerAppended ==
  ASSUME history \in Answers, NEW answer, history' = Append(history, answer)
  PROVE  /\ Len(history) \in Nat /\ DOMAIN history = 1 .. Len(history)
         /\ DOMAIN history' = 1 .. Len(history) + 1
         /\ history'[Len(history) + 1] = answer
         /\ \A k \in 1 .. Len(history) : history'[k] = history[k]
  BY DEF Answers

LEMMA ElementOf ==
  ASSUME NEW S, NEW s \in Seq(S), NEW k \in DOMAIN s
  PROVE  s[k] \in S
  OBVIOUS

LEMMA AnswerOf ==
  ASSUME TypeOK, NEW k \in DOMAIN history
  PROVE  history[k].sig \in ListName /\ history[k].reply \in Result \union {NoRecording}
<1>1. history[k] \in [sig : ListName, reply : Result \union {NoRecording}]
  BY ElementOf DEF TypeOK
<1> QED
  BY <1>1

\* An answer given before stays behind the place its list has reached.
LEMMA StaysServed ==
  ASSUME TypeOK, ListsAreEnds, NEW sql \in Sql, NEW params \in Params, lookup(sql, params),
         NEW list \in ListName, NEW reply, WasServed(list, reply, Place[list])
  PROVE  WasServed(list, reply, Place'[list])
<1>1. CASE RecordedIn(list) = <<>>
  BY <1>1 DEF WasServed
<1>2. CASE RecordedIn(list) # <<>>
  <2>1. PICK a \in 1 .. Place[list] : RecordedIn(list)[a] = reply
    BY <1>2 DEF WasServed
  <2>2. Place[list] = Cursor(list) /\ Place'[list] = Cursor(list)'
    BY DEF Place
  <2>3. Place[list] \in Nat /\ (Place'[list] = Place[list] \/ Place'[list] = Place[list] + 1)
    BY <1>2, <2>2, CursorInRange, CursorMoves
  <2>4. a \in 1 .. Place'[list]
    BY <2>3
  <2> QED
    BY <1>2, <2>1, <2>4 DEF WasServed
<1> QED
  BY <1>1, <1>2

LEMMA ServedStep ==
  ASSUME ServedInv, [Next]_vars
  PROVE  ListsAreEnds' /\ Served'
<1> USE DEF ServedInv
<1>1. ASSUME Quietly
      PROVE  ListsAreEnds' /\ Served'
  BY <1>1 DEF Quietly, lists, ListsAreEnds, EndOf, RepliesLeft, Served, Place, Cursor
<1>2. ASSUME NEW sql \in Sql, NEW params \in Params, lookup(sql, params),
             NEW k \in DOMAIN history
      PROVE  WasServed(history[k].sig, history[k].reply, Place'[history[k].sig])
  BY <1>2, AnswerOf, StaysServed DEF Served
<1>3. ASSUME NEW sql \in Sql, NEW params \in Params, Describing(sql, params)
      PROVE  ListsAreEnds' /\ Served'
  <2>1. lookup(sql, params) /\ history' = history
    BY <1>3 DEF Describing, peek
  <2>2. Served'
    BY <1>2, <2>1 DEF Served
  <2> QED
    BY <2>1, <2>2, LookupKeepsEnds
<1>4. ASSUME NEW c \in Connection, NEW sql \in Sql, NEW params \in Params,
             Executing(c, sql, params)
      PROVE  ListsAreEnds' /\ Served'
  <2>1. PICK list \in ListName, reply \in Result \union {NoRecording} :
            /\ list = ListOf(sql, params) /\ list[1] = sql
            /\ history' = Append(history, [sig |-> list, reply |-> reply])
            /\ lookup(sql, params)
            /\ Found(sql, params) <=> reply # NoRecording
            /\ IF RecordedIn(list) = <<>> THEN reply = NoRecording /\ list = <<sql>>
               ELSE reply \in Result /\ reply = RecordedIn(list)[Cursor(list)]
    BY <1>4, ExecutionAnswers DEF Executing
  <2>2. history \in Answers
    BY DEF TypeOK, Answers
  <2> DEFINE last == Len(history) + 1
  <2>3. WasServed(list, reply, Place[list])
    <3>1. CASE RecordedIn(list) = <<>>
      BY <2>1, <3>1 DEF WasServed
    <3>2. CASE RecordedIn(list) # <<>>
      <4>1. Place[list] = Cursor(list) /\ Cursor(list) \in 1 .. Cursor(list)
        BY <3>2, CursorInRange DEF Place
      <4> QED
        BY <2>1, <3>2, <4>1 DEF WasServed
    <3> QED
      BY <3>1, <3>2
  <2>4. WasServed(list, reply, Place'[list])
    BY <2>1, <2>3, StaysServed
  <2>5. /\ DOMAIN history' = 1 .. last /\ DOMAIN history = 1 .. Len(history)
        /\ Len(history) \in Nat
        /\ history'[last] = [sig |-> list, reply |-> reply]
        /\ \A k \in 1 .. Len(history) : history'[k] = history[k]
    BY <2>1, <2>2, AnswerAppended
  <2>6. ASSUME NEW k \in DOMAIN history'
        PROVE  WasServed(history'[k].sig, history'[k].reply, Place'[history'[k].sig])
    <3>1. CASE k = last
      BY <2>4, <2>5, <3>1
    <3>2. CASE k # last
      <4>1. k \in DOMAIN history /\ history'[k] = history[k]
        BY <2>5, <3>2
      <4> QED
        BY <1>2, <2>1, <4>1
    <3> QED
      BY <3>1, <3>2
  <2>7. Served'
    BY <2>6 DEF Served
  <2> QED
    BY <2>1, <2>7, LookupKeepsEnds
<1> QED
  BY <1>1, <1>3, <1>4, StepKinds

LEMMA ServedAtFirst == Init => ListsAreEnds /\ Served
<1> SUFFICES ASSUME Init PROVE ListsAreEnds /\ Served
  OBVIOUS
<1>1. ASSUME NEW list \in ListName
      PROVE  EndOf(RepliesLeft(list), RecordedIn(list))
  <2>1. RepliesLeft(list) = RecordedIn(list)
    BY DEF Init, RepliesLeft, RecordedIn
  <2>2. RecordedIn(list) \in Seq(Result)
    BY TypeInit, ListsAreSequences DEF TypeOK
  <2>3. ASSUME NEW s \in Seq(Result)
        PROVE  EndOf(s, s)
    <3>1. s # <<>> => Len(s) \in 1 .. Len(s)
      OBVIOUS
    <3>2. \A i \in 1 .. Len(s) : Len(s) - Len(s) + i = i
      OBVIOUS
    <3> QED
      BY <3>1, <3>2 DEF EndOf
  <2> QED
    BY <2>1, <2>2, <2>3
<1>2. Served
  BY DEF Init, Served
<1> QED
  BY <1>1, <1>2 DEF ListsAreEnds

LEMMA ServedAlways == Spec => []ServedInv
<1>1. Init => ServedInv
  BY TypeInit, ServedAtFirst DEF ServedInv
<1>2. ServedInv /\ [Next]_vars => ServedInv'
  BY TypeStep, ServedStep DEF ServedInv
<1> QED
  BY <1>1, <1>2, PTL DEF Spec

\* postgresReplayServer.ts:66-77: the replies of one list leave it from its head,
\* for a Describe as for an Execute, so none is served after a later one.
THEOREM NeverGoesBackHolds == Spec => []NeverGoesBack
<1>1. Init => NeverGoesBack
  BY DEF Init, NeverGoesBack
<1>2. ASSUME ServedInv, NeverGoesBack, [Next]_vars
      PROVE  NeverGoesBack'
  <2> USE <1>2 DEF ServedInv
  <2>1. ASSUME history' = history
        PROVE  NeverGoesBack'
    BY <2>1 DEF NeverGoesBack
  <2>2. ASSUME NEW c \in Connection, NEW sql \in Sql, NEW params \in Params,
               Executing(c, sql, params)
        PROVE  NeverGoesBack'
    <3>1. PICK list \in ListName, reply \in Result \union {NoRecording} :
              /\ history' = Append(history, [sig |-> list, reply |-> reply])
              /\ IF RecordedIn(list) = <<>> THEN reply = NoRecording
                 ELSE reply \in Result /\ reply = RecordedIn(list)[Cursor(list)]
      BY ONLY TypeOK, ListsAreEnds, <2>2, AnswerAtTheCursor
    <3> DEFINE last == Len(history) + 1
    <3>2. history \in Answers
      BY DEF TypeOK, Answers
    <3>3. /\ Len(history) \in Nat /\ DOMAIN history = 1 .. Len(history)
          /\ DOMAIN history' = 1 .. last
          /\ history'[last] = [sig |-> list, reply |-> reply]
          /\ \A k \in 1 .. Len(history) : history'[k] = history[k]
      BY <3>1, <3>2, AnswerAppended
    <3>4. ASSUME NEW k \in DOMAIN history', NEW j \in 1 .. k,
                 history'[j].sig = history'[k].sig, history'[k].reply # NoRecording
          PROVE  \E a \in DOMAIN RecordedIn(history'[k].sig) :
                 \E b \in a .. Len(RecordedIn(history'[k].sig)) :
                    /\ RecordedIn(history'[k].sig)[a] = history'[j].reply
                    /\ RecordedIn(history'[k].sig)[b] = history'[k].reply
      <4>1. CASE k # last
        <5>1. k \in DOMAIN history /\ j \in DOMAIN history /\ j \in 1 .. k
          BY <3>3, <4>1
        <5>2. history'[k] = history[k] /\ history'[j] = history[j]
          BY <3>3, <5>1
        <5> QED
          BY <3>4, <5>1, <5>2 DEF NeverGoesBack
      <4>2. CASE k = last
        <5>1. history'[k].sig = list /\ history'[k].reply = reply /\ RecordedIn(list) # <<>>
          BY <3>1, <3>3, <3>4, <4>2
        <5>2. /\ Cursor(list) \in 1 .. Len(RecordedIn(list))
              /\ RecordedIn(list) \in Seq(Result)
              /\ reply = RecordedIn(list)[Cursor(list)]
          BY <3>1, <5>1, CursorInRange
        <5>3. \E a \in 1 .. Cursor(list) : RecordedIn(list)[a] = history'[j].reply
          <6>1. CASE j = last
            BY <3>3, <5>2, <6>1
          <6>2. CASE j # last
            <7>1. j \in DOMAIN history /\ history'[j] = history[j]
              BY <3>3, <6>2
            <7>2. history[j].sig = list /\ Place[list] = Cursor(list)
              BY <3>4, <5>1, <7>1 DEF Place
            <7> QED
              BY <5>1, <7>1, <7>2 DEF Served, WasServed
          <6> QED
            BY <6>1, <6>2
        <5>4. PICK a \in 1 .. Cursor(list) : RecordedIn(list)[a] = history'[j].reply
          BY <5>3
        <5>5. a \in DOMAIN RecordedIn(list) /\ Cursor(list) \in a .. Len(RecordedIn(list))
          BY <5>2
        <5> QED
          BY <5>1, <5>2, <5>4, <5>5
      <4> QED
        BY <4>1, <4>2
    <3> QED
      BY <3>4 DEF NeverGoesBack
  <2> QED
    BY <2>1, <2>2, StepKinds DEF Quietly, Describing
<1> QED
  BY <1>1, <1>2, ServedAlways, PTL DEF Spec

-----------------------------------------------------------------------------
(***************************************************************************)
(* The summary: what was not recorded is named, the rest is counted.       *)
(***************************************************************************)

Matched == {k \in DOMAIN history : history[k].reply # NoRecording}

Missed == {history[k].sig[1] : k \in {j \in DOMAIN history : history[j].reply = NoRecording}}

Summary == missing = Missed /\ matchedCount = Cardinality(Matched)

LEMMA AnswerCounts ==
  ASSUME history \in Answers, NEW list \in ListName, NEW reply \in Result \union {NoRecording},
         history' = Append(history, [sig |-> list, reply |-> reply])
  PROVE  /\ Cardinality(Matched) \in Nat
         /\ Cardinality(Matched)' = Cardinality(Matched) + (IF reply = NoRecording THEN 0 ELSE 1)
         /\ Missed' = Missed \union (IF reply = NoRecording THEN {list[1]} ELSE {})
<1> DEFINE last == Len(history) + 1
<1>1. /\ Len(history) \in Nat /\ DOMAIN history = 1 .. Len(history)
      /\ DOMAIN history' = 1 .. last
      /\ history'[last] = [sig |-> list, reply |-> reply]
      /\ \A k \in 1 .. Len(history) : history'[k] = history[k]
  BY AnswerAppended
<1>2. IsFiniteSet(Matched) /\ Cardinality(Matched) \in Nat
  <2>1. IsFiniteSet(1 .. Len(history))
    BY <1>1, FS_Interval
  <2>2. Matched \in SUBSET (1 .. Len(history))
    BY <1>1 DEF Matched
  <2> QED
    BY <2>1, <2>2, FS_Subset, FS_CardinalityType
<1>3. last \notin Matched
  BY <1>1 DEF Matched
<1>4. Matched' = IF reply = NoRecording THEN Matched ELSE Matched \union {last}
  BY <1>1 DEF Matched
<1>5. Cardinality(Matched \union {last}) = Cardinality(Matched) + 1
  BY <1>2, <1>3, FS_AddElement
<1>6. Missed' = Missed \union (IF reply = NoRecording THEN {list[1]} ELSE {})
  BY <1>1 DEF Missed
<1> QED
  BY <1>2, <1>4, <1>5, <1>6

LEMMA SummaryStep ==
  ASSUME ServedInv, Summary, [Next]_vars
  PROVE  Summary'
<1> USE DEF ServedInv
<1>1. ASSUME UNCHANGED <<totals, history>>
      PROVE  Summary'
  BY <1>1 DEF totals, Summary, Missed, Matched
<1>2. ASSUME NEW c \in Connection, NEW sql \in Sql, NEW params \in Params,
             Executing(c, sql, params)
      PROVE  Summary'
  <2>1. PICK list \in ListName, reply \in Result \union {NoRecording} :
            /\ list[1] = sql
            /\ history' = Append(history, [sig |-> list, reply |-> reply])
            /\ Found(sql, params) <=> reply # NoRecording
    BY <1>2, ExecutionAnswers DEF Executing
  <2>2. IF reply # NoRecording THEN matchedCount' = matchedCount + 1 /\ missing' = missing
        ELSE missing' = missing \union {sql} /\ matchedCount' = matchedCount
    BY <1>2, <2>1 DEF Executing, answerFor, resultFor
  <2>3. history \in Answers
    BY DEF TypeOK, Answers
  <2>4. /\ Cardinality(Matched) \in Nat
        /\ Cardinality(Matched)' = Cardinality(Matched) + (IF reply = NoRecording THEN 0 ELSE 1)
        /\ Missed' = Missed \union (IF reply = NoRecording THEN {list[1]} ELSE {})
    BY <2>1, <2>3, AnswerCounts
  <2> QED
    BY <2>1, <2>2, <2>4 DEF Summary
<1> QED
  BY <1>1, <1>2, StepKinds DEF Quietly, Describing

LEMMA SummaryTells == ServedInv /\ Summary => ErrorOnlyForTheUnrecorded
<1> SUFFICES ASSUME ServedInv, Summary PROVE ErrorOnlyForTheUnrecorded
  OBVIOUS
<1>1. ASSUME NEW k \in DOMAIN history
      PROVE  history[k].reply = NoRecording <=> RecordedLoose[history[k].sig[1]] = <<>>
  <2> DEFINE list == history[k].sig
  <2>1. list \in ListName /\ WasServed(list, history[k].reply, Place[list])
    BY AnswerOf DEF ServedInv, Served
  <2>2. CASE RecordedIn(list) = <<>>
    <3>1. PICK sql \in Sql : list = <<sql>>
      BY <2>1, <2>2, TwoKindsOfList DEF WasServed
    <3> QED
      BY <2>1, <2>2, <3>1, NameOfText DEF WasServed
  <2>3. CASE RecordedIn(list) # <<>>
    <3>1. history[k].reply # NoRecording
      BY <2>1, <2>3, RecordedAssumption DEF WasServed
    <3>2. CASE \E sql \in Sql, params \in Params : list = <<sql, params>>
      BY <2>3, <3>1, <3>2, NameOfSignature, FiledAssumption
    <3>3. CASE \E sql \in Sql : list = <<sql>>
      BY <2>3, <3>1, <3>3, NameOfText
    <3> QED
      BY <2>1, <3>2, <3>3, TwoKindsOfList
  <2> QED
    BY <2>2, <2>3
<1> QED
  BY <1>1 DEF Summary, Missed, Matched, ErrorOnlyForTheUnrecorded

\* Whatever is executed on however many connections, a recorded statement is never
\* answered with an error of the server's own, and one that was not recorded is, is
\* named, and is not counted as matched.
THEOREM ErrorOnlyForTheUnrecordedHolds == Spec => []ErrorOnlyForTheUnrecorded
<1>1. Init => Summary
  BY FS_EmptySet DEF Init, Summary, Missed, Matched
<1> QED
  BY <1>1, ServedAlways, SummaryStep, SummaryTells, PTL DEF Spec

-----------------------------------------------------------------------------
(***************************************************************************)
(* The abstract service.  Until a Describe looks into a list, the place it *)
(* has reached is the number of times it was asked, up to the last reply.  *)
(***************************************************************************)

CallsOf(list) == {k \in DOMAIN history : history[k].sig = list}

PlaceIsCount ==
    \A list \in ListName \ described :
        RecordedIn(list) # <<>> =>
            Cursor(list) = IF Cardinality(CallsOf(list)) < Len(RecordedIn(list))
                           THEN Cardinality(CallsOf(list)) + 1
                           ELSE Len(RecordedIn(list))

LEMMA SameCardinality == \A S : Service!Cardinality(S) = Cardinality(S)
  BY DEF Cardinality, Service!Cardinality

LEMMA CallIsCounted ==
  ASSUME history \in Answers, NEW own \in ListName, NEW reply \in Result \union {NoRecording},
         history' = Append(history, [sig |-> own, reply |-> reply]),
         NEW list \in ListName
  PROVE  /\ Cardinality(CallsOf(list)) \in Nat
         /\ Cardinality(CallsOf(list))' =
              Cardinality(CallsOf(list)) + (IF list = own THEN 1 ELSE 0)
<1> DEFINE last  == Len(history) + 1
           calls == CallsOf(list)
<1>1. /\ Len(history) \in Nat /\ DOMAIN history = 1 .. Len(history)
      /\ DOMAIN history' = 1 .. last
      /\ history'[last] = [sig |-> own, reply |-> reply]
      /\ \A k \in 1 .. Len(history) : history'[k] = history[k]
  BY AnswerAppended
<1>2. IsFiniteSet(calls) /\ Cardinality(calls) \in Nat
  <2>1. IsFiniteSet(1 .. Len(history))
    BY <1>1, FS_Interval
  <2>2. calls \in SUBSET (1 .. Len(history))
    BY <1>1 DEF CallsOf
  <2> QED
    BY <2>1, <2>2, FS_Subset, FS_CardinalityType
<1>3. last \notin calls
  BY <1>1 DEF CallsOf
<1>4. calls' = IF list = own THEN calls \union {last} ELSE calls
  BY <1>1 DEF CallsOf
<1>5. Cardinality(calls \union {last}) = Cardinality(calls) + 1
  BY <1>2, <1>3, FS_AddElement
<1> QED
  BY <1>2, <1>4, <1>5

LEMMA PromisedFor ==
  ASSUME NEW list \in ListName, NEW n
  PROVE  Service!Promised(list, n) =
            IF RecordedIn(list) = <<>> THEN NoRecording
            ELSE IF n <= Len(RecordedIn(list)) THEN RecordedIn(list)[n]
            ELSE RecordedIn(list)[Len(RecordedIn(list))]
  BY DEF Service!Promised

LEMMA PlaceIsCountStep ==
  ASSUME ServedInv, PlaceIsCount, [Next]_vars
  PROVE  PlaceIsCount'
<1> USE DEF ServedInv
<1>1. CASE Quietly
  BY <1>1 DEF Quietly, lists, PlaceIsCount, CallsOf, Cursor, RepliesLeft
<1> SUFFICES ASSUME ~ Quietly, NEW list \in ListName \ described', RecordedIn(list) # <<>>
             PROVE  Cursor(list)' = IF Cardinality(CallsOf(list))' < Len(RecordedIn(list))
                                    THEN Cardinality(CallsOf(list))' + 1
                                    ELSE Len(RecordedIn(list))
  BY <1>1 DEF PlaceIsCount, RecordedIn
<1>2. Cursor(list) \in 1 .. Len(RecordedIn(list)) /\ Len(RecordedIn(list)) \in Nat
  BY CursorInRange
<1>3. ASSUME NEW sql \in Sql, NEW params \in Params, Describing(sql, params)
      PROVE  Cursor(list)' = Cursor(list) /\ list \notin described
             /\ Cardinality(CallsOf(list))' = Cardinality(CallsOf(list))
  <2>1. /\ lookup(sql, params) /\ history' = history
        /\ described' = described \union {ListOf(sql, params)}
    BY <1>3 DEF Describing, peek
  <2>2. Cursor(list)' = Cursor(list)
    BY <2>1, CursorMoves
  <2> QED
    BY <2>1, <2>2 DEF CallsOf
<1>4. ASSUME NEW c \in Connection, NEW sql \in Sql, NEW params \in Params,
             Executing(c, sql, params)
      PROVE  Cursor(list)' = IF Cardinality(CallsOf(list))' < Len(RecordedIn(list))
                             THEN Cardinality(CallsOf(list))' + 1
                             ELSE Len(RecordedIn(list))
  <2>1. PICK own \in ListName, reply \in Result \union {NoRecording} :
            /\ own = ListOf(sql, params)
            /\ history' = Append(history, [sig |-> own, reply |-> reply])
            /\ lookup(sql, params)
    BY <1>4, ExecutionAnswers DEF Executing
  <2>2. history \in Answers
    BY DEF TypeOK, Answers
  <2>3. /\ Cardinality(CallsOf(list)) \in Nat
        /\ Cardinality(CallsOf(list))' =
              Cardinality(CallsOf(list)) + (IF list = own THEN 1 ELSE 0)
    BY <2>1, <2>2, CallIsCounted
  <2>4. Cursor(list) = IF Cardinality(CallsOf(list)) < Len(RecordedIn(list))
                       THEN Cardinality(CallsOf(list)) + 1
                       ELSE Len(RecordedIn(list))
    BY <1>4 DEF PlaceIsCount, Executing
  <2>5. Cursor(list)' = IF list = own /\ Cursor(list) < Len(RecordedIn(list))
                        THEN Cursor(list) + 1 ELSE Cursor(list)
    BY <2>1, CursorMoves
  <2> DEFINE calls == Cardinality(CallsOf(list))
             whole == Len(RecordedIn(list))
  <2> QED
    BY <1>2, <2>3, <2>4, <2>5
<1> QED
  <2>1. CASE \E sql \in Sql, params \in Params : Describing(sql, params)
    BY <1>3, <2>1 DEF PlaceIsCount
  <2> QED
    BY <1>4, <2>1, StepKinds

LEMMA InOrderStep ==
  ASSUME ServedInv, PlaceIsCount, InOrderUnlessDescribed, [Next]_vars
  PROVE  InOrderUnlessDescribed'
<1> USE DEF ServedInv
<1>1. CASE Quietly
  BY <1>1 DEF Quietly, InOrderUnlessDescribed, CallNumber
<1>2. ASSUME NEW sql \in Sql, NEW params \in Params, Describing(sql, params)
      PROVE  InOrderUnlessDescribed'
  BY <1>2 DEF Describing, peek, InOrderUnlessDescribed, CallNumber
<1>3. ASSUME NEW c \in Connection, NEW sql \in Sql, NEW params \in Params,
             Executing(c, sql, params)
      PROVE  InOrderUnlessDescribed'
  <2>1. PICK list \in ListName, reply \in Result \union {NoRecording} :
            /\ history' = Append(history, [sig |-> list, reply |-> reply])
            /\ IF RecordedIn(list) = <<>> THEN reply = NoRecording
               ELSE reply \in Result /\ reply = RecordedIn(list)[Cursor(list)]
    BY <1>3, AnswerAtTheCursor
  <2>2. history \in Answers /\ described' = described
    BY <1>3 DEF TypeOK, Answers, Executing
  <2> DEFINE last == Len(history) + 1
  <2>3. /\ Len(history) \in Nat /\ DOMAIN history = 1 .. Len(history)
        /\ DOMAIN history' = 1 .. last
        /\ history'[last] = [sig |-> list, reply |-> reply]
        /\ \A k \in 1 .. Len(history) : history'[k] = history[k]
    BY <2>1, <2>2, AnswerAppended
  <2>4. ASSUME NEW k \in DOMAIN history'
        PROVE  history'[k].sig \notin described =>
                 history'[k].reply = Service!Promised(history'[k].sig, CallNumber(k)')
    <3>1. CASE k # last
      <4>1. k \in DOMAIN history /\ history'[k] = history[k]
        BY <2>3, <3>1
      <4>2. {j \in 1 .. k : history'[j].sig = history'[k].sig} =
              {j \in 1 .. k : history[j].sig = history[k].sig}
        BY <2>3, <4>1
      <4>3. CallNumber(k)' = CallNumber(k)
        BY <4>2 DEF CallNumber
      <4> QED
        BY <4>1, <4>3 DEF InOrderUnlessDescribed
    <3>2. CASE k = last
      <4>1. {j \in 1 .. k : history'[j].sig = history'[k].sig} = CallsOf(list)'
        BY <2>3, <3>2 DEF CallsOf
      <4>2. CallNumber(k)' = Cardinality(CallsOf(list))'
        BY <4>1 DEF CallNumber
      <4>3. /\ Cardinality(CallsOf(list)) \in Nat
            /\ Cardinality(CallsOf(list))' = Cardinality(CallsOf(list)) + 1
        BY <2>1, <2>2, CallIsCounted
      <4>4. history'[k].sig = list /\ history'[k].reply = reply
        BY <2>3, <3>2
      <4>5. CASE RecordedIn(list) = <<>>
        BY <2>1, <4>4, <4>5, PromisedFor
      <4>6. CASE RecordedIn(list) # <<>> /\ list \notin described
        <5>1. /\ Cursor(list) \in 1 .. Len(RecordedIn(list)) /\ Len(RecordedIn(list)) \in Nat
              /\ Cursor(list) = IF Cardinality(CallsOf(list)) < Len(RecordedIn(list))
                                THEN Cardinality(CallsOf(list)) + 1
                                ELSE Len(RecordedIn(list))
          BY <4>6, CursorInRange DEF PlaceIsCount
        <5>2. Cursor(list) = IF CallNumber(k)' <= Len(RecordedIn(list))
                             THEN CallNumber(k)' ELSE Len(RecordedIn(list))
          BY <4>2, <4>3, <5>1
        <5> QED
          BY <2>1, <4>4, <4>6, <5>2, PromisedFor
      <4> QED
        BY <4>4, <4>5, <4>6
    <3> QED
      BY <3>1, <3>2
  <2> QED
    BY <2>2, <2>4 DEF InOrderUnlessDescribed
<1> QED
  BY <1>1, <1>2, <1>3, StepKinds

\* README.md:33, where no Describe looked into a list: its replies are those of the
\* abstract service, on however many connections the calls were made.
THEOREM InOrderUnlessDescribedHolds == Spec => []InOrderUnlessDescribed
<1>1. Init => PlaceIsCount /\ InOrderUnlessDescribed
  <2> SUFFICES ASSUME Init PROVE PlaceIsCount /\ InOrderUnlessDescribed
    OBVIOUS
  <2>1. InOrderUnlessDescribed
    BY DEF Init, InOrderUnlessDescribed
  <2>2. ASSUME NEW list \in ListName, RecordedIn(list) # <<>>
        PROVE  /\ Cursor(list) = 1 /\ Cardinality(CallsOf(list)) = 0
               /\ Len(RecordedIn(list)) \in Nat \ {0}
    <3>1. RepliesLeft(list) = RecordedIn(list) /\ CallsOf(list) = {}
      BY DEF Init, RepliesLeft, RecordedIn, CallsOf
    <3>2. RecordedIn(list) \in Seq(Result)
      BY TypeInit, ListsAreSequences DEF TypeOK
    <3>3. Len(RecordedIn(list)) \in Nat \ {0}
      BY <2>2, <3>2
    <3> QED
      BY <3>1, <3>3, FS_EmptySet DEF Cursor
  <2> QED
    BY <2>1, <2>2 DEF PlaceIsCount
<1> QED
  BY <1>1, ServedAlways, PlaceIsCountStep, InOrderStep, PTL DEF Spec

-----------------------------------------------------------------------------
(***************************************************************************)
(* The divergence tracker.  Its tables are those of the writes so far; the *)
(* history says of every statement which warning it earned.                *)
(***************************************************************************)

TablesAreExact == writtenTables = WrittenBefore(Len(history) + 1) \ {NoTable}

Texts == [k \in DOMAIN history |-> About[history[k].sig[1]].text]

WarningsOf(kind, texts, calls) == {[kind |-> kind, statement |-> texts[k]] : k \in calls}

Earned == WarningsOf("stale-read", Texts, LostWrites \union LateReads)
            \union WarningsOf("non-deterministic", Texts, VolatileOnly)

Lost(sql, reply) == About[sql].write /\ reply = NoRecording

Stale(sql) == About[sql].read /\ ~ About[sql].write /\ About[sql].table \in writtenTables

LEMMA EarnedIsExact ==
  {Warning("stale-read", k) : k \in LostWrites \union LateReads}
      \union {Warning("non-deterministic", k) : k \in VolatileOnly} = Earned
<1>1. \A k \in DOMAIN history : Texts[k] = About[SqlOf(k)].text
  BY DEF Texts, SqlOf
<1>2. LostWrites \union LateReads \subseteq DOMAIN history /\ VolatileOnly \subseteq DOMAIN history
  BY DEF LostWrites, LateReads, VolatileOnly
<1> QED
  BY <1>1, <1>2 DEF Earned, WarningsOf, Warning

\* What one more statement earns.
LEMMA EarnsMore ==
  ASSUME TypeOK, TablesAreExact, NEW list \in ListName, NEW sql \in Sql, list[1] = sql,
         NEW reply \in Result \union {NoRecording},
         history' = Append(history, [sig |-> list, reply |-> reply])
  PROVE  /\ WrittenBefore(Len(history) + 1)' =
              WrittenBefore(Len(history) + 1)
                \union (IF About[sql].write THEN {About[sql].table} ELSE {})
         /\ Earned' = Earned \union
              (IF Lost(sql, reply) \/ Stale(sql)
               THEN {[kind |-> "stale-read", statement |-> About[sql].text]}
               ELSE IF About[sql].volatile
               THEN {[kind |-> "non-deterministic", statement |-> About[sql].text]}
               ELSE {})
<1> DEFINE before == Len(history)
<1>1. PICK last : last = before + 1
  OBVIOUS
<1>2. /\ before \in Nat /\ DOMAIN history = 1 .. before
      /\ DOMAIN history' = 1 .. last /\ last \notin 1 .. before
      /\ 1 .. last = (1 .. before) \union {last}
      /\ history'[last] = [sig |-> list, reply |-> reply]
      /\ \A k \in 1 .. before : history'[k] = history[k]
  <2>1. history \in Answers
    BY DEF TypeOK, Answers
  <2> QED
    BY <1>1, <2>1, AnswerAppended
<1>3. Len(history') = last
  BY <1>1, <1>2 DEF TypeOK
<1>4. \A k \in 1 .. last : WrittenBefore(k)' = WrittenBefore(k)
  BY <1>1, <1>2 DEF WrittenBefore, SqlOf
<1>5. WrittenBefore(Len(history) + 1)' =
        WrittenBefore(last) \union (IF About[sql].write THEN {About[sql].table} ELSE {})
  <2>1. WrittenBefore(Len(history) + 1)' =
          {About[history'[j].sig[1]].table :
              j \in {i \in 1 .. last : About[history'[i].sig[1]].write}}
    BY <1>1, <1>2, <1>3 DEF WrittenBefore, SqlOf
  <2>2. WrittenBefore(last) =
          {About[history[j].sig[1]].table :
              j \in {i \in 1 .. before : About[history[i].sig[1]].write}}
    BY <1>1, <1>2 DEF WrittenBefore, SqlOf
  <2> HIDE DEF before
  <2> QED
    BY <1>2, <2>1, <2>2
<1>6. LostWrites' = LostWrites \union (IF Lost(sql, reply) THEN {last} ELSE {})
  BY <1>2 DEF LostWrites, SqlOf, Lost
<1>7. LateReads' = LateReads \union (IF Stale(sql) THEN {last} ELSE {})
  <2>1. Stale(sql) <=> /\ About[sql].read /\ ~ About[sql].write
                       /\ About[sql].table \in WrittenBefore(last) \ {NoTable}
    BY <1>1 DEF Stale, TablesAreExact
  <2> QED
    BY <1>2, <1>4, <2>1 DEF LateReads, SqlOf
<1>8. LostWrites \union LateReads \subseteq 1 .. before /\ VolatileOnly \subseteq 1 .. before
  BY <1>2 DEF LostWrites, LateReads, VolatileOnly
<1>9. VolatileOnly' = VolatileOnly \union
        (IF ~ Lost(sql, reply) /\ ~ Stale(sql) /\ About[sql].volatile THEN {last} ELSE {})
  <2>1. LostWrites' \union LateReads' =
          (LostWrites \union LateReads) \union (IF Lost(sql, reply) \/ Stale(sql) THEN {last} ELSE {})
    BY <1>6, <1>7
  <2> QED
    BY <1>2, <1>8, <2>1 DEF VolatileOnly, SqlOf
<1>10. Texts'[last] = About[sql].text /\ \A k \in 1 .. before : Texts'[k] = Texts[k]
  BY <1>2 DEF Texts
<1>11. WarningsOf("stale-read", Texts', LostWrites' \union LateReads') =
         WarningsOf("stale-read", Texts, LostWrites \union LateReads) \union
            (IF Lost(sql, reply) \/ Stale(sql)
             THEN {[kind |-> "stale-read", statement |-> About[sql].text]} ELSE {})
  <2> DEFINE more == IF Lost(sql, reply) \/ Stale(sql) THEN {last} ELSE {}
  <2>1. LostWrites' \union LateReads' = (LostWrites \union LateReads) \union more
    BY <1>6, <1>7
  <2>2. more \subseteq {last} /\ (more = {} <=> ~ (Lost(sql, reply) \/ Stale(sql)))
    OBVIOUS
  <2>3. \A k \in LostWrites \union LateReads : Texts'[k] = Texts[k]
    BY <1>8, <1>10
  <2> HIDE DEF more
  <2>4. WarningsOf("stale-read", Texts', (LostWrites \union LateReads) \union more) =
          WarningsOf("stale-read", Texts, LostWrites \union LateReads) \union
            (IF more = {} THEN {}
             ELSE {[kind |-> "stale-read", statement |-> Texts'[last]]})
    BY <2>2, <2>1, <2>3 DEF WarningsOf
  <2> QED
    BY <1>10, <2>1, <2>2, <2>4
<1>12. WarningsOf("non-deterministic", Texts', VolatileOnly') =
         WarningsOf("non-deterministic", Texts, VolatileOnly) \union
            (IF ~ Lost(sql, reply) /\ ~ Stale(sql) /\ About[sql].volatile
             THEN {[kind |-> "non-deterministic", statement |-> About[sql].text]} ELSE {})
  <2> DEFINE more == IF ~ Lost(sql, reply) /\ ~ Stale(sql) /\ About[sql].volatile
                     THEN {last} ELSE {}
  <2>1. more \subseteq {last}
        /\ (more = {} <=> ~ (~ Lost(sql, reply) /\ ~ Stale(sql) /\ About[sql].volatile))
    OBVIOUS
  <2>2. VolatileOnly' = VolatileOnly \union more
    BY <1>9
  <2>3. \A k \in VolatileOnly : Texts'[k] = Texts[k]
    BY <1>8, <1>10
  <2> HIDE DEF more
  <2>4. WarningsOf("non-deterministic", Texts', (VolatileOnly) \union more) =
          WarningsOf("non-deterministic", Texts, VolatileOnly) \union
            (IF more = {} THEN {}
             ELSE {[kind |-> "non-deterministic", statement |-> Texts'[last]]})
    BY <2>2, <2>1, <2>3 DEF WarningsOf
  <2> QED
    BY <1>10, <2>1, <2>2, <2>4
<1>13. Earned' = WarningsOf("stale-read", Texts', LostWrites' \union LateReads')
                    \union WarningsOf("non-deterministic", Texts', VolatileOnly')
  BY DEF Earned, WarningsOf
<1> QED
  BY <1>1, <1>5, <1>11, <1>12, <1>13 DEF Earned

KeptWarnings == {warnings[n] : n \in DOMAIN warnings}

KeptAreEarned ==
    KeptWarnings = Earned /\ \A m, n \in DOMAIN warnings : warnings[m] = warnings[n] => m = n

LEMMA KeptOnce ==
  ASSUME warnings \in Seq(Kept), NEW warning, KeptAreEarned,
         warnings' = IF warning = Quiet \/ \E n \in DOMAIN warnings : warnings[n] = warning
                     THEN warnings ELSE Append(warnings, warning)
  PROVE  /\ KeptWarnings' = KeptWarnings \union (IF warning = Quiet THEN {} ELSE {warning})
         /\ \A m, n \in DOMAIN warnings' : warnings'[m] = warnings'[n] => m = n
<1>1. CASE warning = Quiet \/ \E n \in DOMAIN warnings : warnings[n] = warning
  BY <1>1 DEF KeptAreEarned, KeptWarnings
<1>2. CASE warning # Quiet /\ \A n \in DOMAIN warnings : warnings[n] # warning
  <2> DEFINE last == Len(warnings) + 1
  <2>1. /\ Len(warnings) \in Nat /\ DOMAIN warnings = 1 .. Len(warnings)
        /\ DOMAIN warnings' = 1 .. last
        /\ warnings'[last] = warning
        /\ \A n \in 1 .. Len(warnings) : warnings'[n] = warnings[n]
    BY <1>2
  <2> QED
    BY <1>2, <2>1 DEF KeptAreEarned, KeptWarnings
<1> QED
  BY <1>1, <1>2

LEMMA WarningsStep ==
  ASSUME ServedInv, TablesAreExact, KeptAreEarned, [Next]_vars
  PROVE  TablesAreExact' /\ KeptAreEarned'
<1> USE DEF ServedInv
<1>1. ASSUME UNCHANGED <<totals, history>>
      PROVE  TablesAreExact' /\ KeptAreEarned'
  <2>1. warnings' = warnings /\ writtenTables' = writtenTables /\ history' = history
    BY <1>1 DEF totals
  <2>2. \A k \in Nat : WrittenBefore(k)' = WrittenBefore(k)
    BY <2>1 DEF WrittenBefore, SqlOf
  <2>3. TablesAreExact'
    BY <2>1 DEF TablesAreExact, WrittenBefore, SqlOf
  <2>4. LostWrites' = LostWrites /\ LateReads' = LateReads /\ Texts' = Texts
    BY <2>1 DEF LostWrites, LateReads, WrittenBefore, SqlOf, Texts
  <2>5. VolatileOnly' = VolatileOnly
    BY <2>1, <2>4 DEF VolatileOnly, SqlOf
  <2>6. Earned' = Earned
    BY <2>4, <2>5 DEF Earned, WarningsOf
  <2> QED
    BY <2>1, <2>3, <2>6 DEF KeptAreEarned, KeptWarnings
<1>2. ASSUME NEW c \in Connection, NEW sql \in Sql, NEW params \in Params,
             Executing(c, sql, params)
      PROVE  TablesAreExact' /\ KeptAreEarned'
  <2>1. PICK list \in ListName, reply \in Result \union {NoRecording} :
            /\ list[1] = sql
            /\ history' = Append(history, [sig |-> list, reply |-> reply])
            /\ Found(sql, params) <=> reply # NoRecording
    BY <1>2, ExecutionAnswers DEF Executing
  <2>2. /\ warnings' = WarningsAfter(warnings, writtenTables, sql, Found(sql, params))
        /\ writtenTables' = WrittenAfter(writtenTables, sql)
    BY <1>2 DEF Executing, answerFor, resultFor
  <2> DEFINE warning == evaluate(writtenTables, sql, Found(sql, params))
             earned  == IF Lost(sql, reply) \/ Stale(sql)
                        THEN {[kind |-> "stale-read", statement |-> About[sql].text]}
                        ELSE IF About[sql].volatile
                        THEN {[kind |-> "non-deterministic", statement |-> About[sql].text]}
                        ELSE {}
  <2>3. /\ WrittenBefore(Len(history) + 1)' =
              WrittenBefore(Len(history) + 1)
                \union (IF About[sql].write THEN {About[sql].table} ELSE {})
        /\ Earned' = Earned \union earned
    BY <2>1, EarnsMore
  <2>4. TablesAreExact'
    BY <2>2, <2>3 DEF TablesAreExact, WrittenAfter
  <2>5. earned = IF warning = Quiet THEN {} ELSE {warning}
    <3>1. Lost(sql, reply) <=> About[sql].write /\ ~ Found(sql, params)
      BY <2>1 DEF Lost
    <3>2. Stale(sql) <=> ~ About[sql].write /\ About[sql].read
                           /\ About[sql].table \in WrittenAfter(writtenTables, sql)
      BY DEF Stale, WrittenAfter
    <3>3. warning = IF Lost(sql, reply) \/ Stale(sql)
                    THEN [kind |-> "stale-read", statement |-> About[sql].text]
                    ELSE IF About[sql].volatile
                    THEN [kind |-> "non-deterministic", statement |-> About[sql].text]
                    ELSE Quiet
      BY <3>1, <3>2 DEF evaluate
    <3>4. /\ [kind |-> "stale-read", statement |-> About[sql].text] # Quiet
          /\ [kind |-> "non-deterministic", statement |-> About[sql].text] # Quiet
      BY DEF Quiet
    <3> QED
      BY <3>3, <3>4
  <2>6. warnings' = IF warning = Quiet \/ \E n \in DOMAIN warnings : warnings[n] = warning
                    THEN warnings ELSE Append(warnings, warning)
    BY <2>2 DEF WarningsAfter
  <2> HIDE DEF warning, earned
  <2>7. /\ KeptWarnings' = KeptWarnings \union (IF warning = Quiet THEN {} ELSE {warning})
        /\ \A m, n \in DOMAIN warnings' : warnings'[m] = warnings'[n] => m = n
    BY <2>6, KeptOnce DEF TypeOK
  <2>8. KeptAreEarned'
    BY <2>3, <2>5, <2>7 DEF KeptAreEarned
  <2> QED
    BY <2>4, <2>8
<1> QED
  BY <1>1, <1>2, StepKinds DEF Quietly, Describing

\* divergence.ts:10-12: whatever runs on whichever connection, the warnings kept are
\* those the statements executed so far have earned, each once: lost writes, reads that
\* follow a write whether or not the recording holds it, and volatile statements.
THEOREM WarningsAreExactHolds == Spec => []WarningsAreExact
<1>1. Init => TablesAreExact /\ KeptAreEarned
  BY DEF Init, TablesAreExact, WrittenBefore, KeptAreEarned, KeptWarnings, Earned, WarningsOf,
         LostWrites, LateReads, VolatileOnly
<1>2. KeptAreEarned => WarningsAreExact
  <2>1. LostWrites \union StaleReads \union EchoedReads = LostWrites \union LateReads
    BY DEF StaleReads, EchoedReads
  <2> QED
    BY <2>1, EarnedIsExact DEF KeptAreEarned, KeptWarnings, WarningsAreExact
<1> QED
  BY <1>1, <1>2, ServedAlways, WarningsStep, PTL DEF Spec

-----------------------------------------------------------------------------
(***************************************************************************)
(* What a connection will run.  A path foresees the frames on the wire: it *)
(* starts at the session as it is, each frame takes it a step further, and *)
(* every frame that runs a statement runs the one asked for next.  At its  *)
(* end all is run, and the names the client holds stand for its statements *)
(***************************************************************************)

Outlook == [prepared : [StatementName -> Sql \union {Unparsed}],
            sql : Sql, params : Params, ran : Nat]

After(s, frame) ==
    CASE frame.type = "Q" -> [s EXCEPT !.sql = frame.sql, !.params = NoParams, !.ran = @ + 1]
      [] frame.type = "P" -> [s EXCEPT !.prepared = [@ EXCEPT ![frame.name] = frame.sql],
                                       !.sql = frame.sql]
      [] frame.type = "B" ->
            [s EXCEPT !.sql = IF s.prepared[frame.name] = Unparsed THEN @
                              ELSE s.prepared[frame.name],
                      !.params = frame.params]
      [] frame.type = "E" -> [s EXCEPT !.ran = @ + 1]
      [] OTHER -> s

RunsAsAsked(s, frame, runs) ==
    frame.type \in {"Q", "E"} => s.ran \in 1 .. Len(runs) /\ runs[s.ran] = <<s.sql, s.params>>

Foresees(path, frames, runs) ==
    /\ path \in [0 .. Len(frames) -> Outlook]
    /\ \A i \in 1 .. Len(frames) :
        path[i] = After(path[i - 1], frames[i]) /\ RunsAsAsked(path[i], frames[i], runs)

Leads(start, frames, runs, end) ==
    \E path : Foresees(path, frames, runs) /\ path[0] = start /\ path[Len(frames)] = end

Now(c) == [prepared |-> session[c].prepared, sql |-> session[c].sql,
           params |-> session[c].params, ran |-> Len(executed[c])]

Holds(end, names, runs) ==
    /\ end \in Outlook
    /\ end.ran = Len(runs)
    /\ \A name \in StatementName : names[name] # Unparsed => end.prepared[name] = names[name]

OnTheWay(c) ==
    \E end : Leads(Now(c), wire[c], asked[c], end) /\ Holds(end, known[c], asked[c])

Repeats(c) == Len(executed[c]) <= Len(asked[c])
                /\ \A n \in DOMAIN executed[c] : executed[c][n] = asked[c][n]

LEMMA Associative ==
  \A x, y, z \in Seq(Frame) : (x \o y) \o z = x \o (y \o z)
<1>1. ASSUME NEW x \in Seq(Frame), NEW y \in Seq(Frame), NEW z \in Seq(Frame)
      PROVE  (x \o y) \o z = x \o (y \o z)
  BY ConcatAssociative
<1> QED
  BY <1>1, Zenon

LEMMA AddedOneByOne ==
  ASSUME NEW S, NEW s \in Seq(S), NEW a \in S, NEW b \in S
  PROVE  s \o <<>> = s /\ s \o <<a>> = Append(s, a) /\ s \o <<a, b>> = Append(Append(s, a), b)
  OBVIOUS

LEMMA AfterType ==
  ASSUME NEW s \in Outlook, NEW frame \in Frame
  PROVE  After(s, frame) \in Outlook
<1>1. CASE frame.type = "Q"
  <2>1. frame.sql \in Sql /\ NoParams \in Params
    BY <1>1, SessionAssumption DEF Frame
  <2>2. s.prepared \in [StatementName -> Sql \union {Unparsed}] /\ s.ran + 1 \in Nat
    BY DEF Outlook
  <2>3. After(s, frame) = [prepared |-> s.prepared, sql |-> frame.sql, params |-> NoParams,
                           ran |-> s.ran + 1]
    BY <1>1 DEF After, Outlook
  <2> QED
    BY <2>1, <2>2, <2>3 DEF Outlook
<1>2. CASE frame.type = "P"
  <2>1. frame.name \in StatementName /\ frame.sql \in Sql
    BY <1>2 DEF Frame
  <2> QED
    BY <1>2, <2>1 DEF After, Outlook
<1>3. CASE frame.type = "B"
  <2>1. frame.name \in StatementName /\ frame.params \in Params
    BY <1>3 DEF Frame
  <2> QED
    BY <1>3, <2>1 DEF After, Outlook
<1>4. CASE frame.type = "E"
  BY <1>4 DEF After, Outlook
<1>5. CASE frame.type \notin {"Q", "P", "B", "E"}
  BY <1>5 DEF After
<1> QED
  BY <1>1, <1>2, <1>3, <1>4, <1>5

LEMMA LeadsNowhere ==
  ASSUME NEW s \in Outlook, NEW runs
  PROVE  Leads(s, <<>>, runs, s)
<1>1. Foresees([i \in 0 .. 0 |-> s], <<>>, runs)
  BY DEF Foresees
<1> QED
  BY <1>1 DEF Leads

LEMMA OneMoreFrame ==
  ASSUME NEW start, NEW frames \in Seq(Frame), NEW runs, NEW end,
         Leads(start, frames, runs, end), NEW frame \in Frame,
         RunsAsAsked(After(end, frame), frame, runs)
  PROVE  Leads(start, Append(frames, frame), runs, After(end, frame))
<1>1. PICK path : Foresees(path, frames, runs) /\ path[0] = start /\ path[Len(frames)] = end
  BY DEF Leads
<1> DEFINE n      == Len(frames)
           longer == [i \in 0 .. n + 1 |-> IF i = n + 1 THEN After(end, frame) ELSE path[i]]
<1>2. n \in Nat /\ Len(Append(frames, frame)) = n + 1
      /\ \A i \in 1 .. n : Append(frames, frame)[i] = frames[i]
      /\ Append(frames, frame)[n + 1] = frame
  OBVIOUS
<1>3. end \in Outlook
  BY <1>1, <1>2 DEF Foresees
<1>4. longer \in [0 .. n + 1 -> Outlook]
  BY <1>1, <1>2, <1>3, AfterType DEF Foresees
<1>5. longer[0] = start /\ longer[n + 1] = After(end, frame) /\ longer[n] = end
  BY <1>1, <1>2
<1>6. ASSUME NEW i \in 1 .. n + 1
      PROVE  longer[i] = After(longer[i - 1], Append(frames, frame)[i])
             /\ RunsAsAsked(longer[i], Append(frames, frame)[i], runs)
  <2>1. CASE i = n + 1
    BY <1>2, <1>5, <2>1
  <2>2. CASE i # n + 1
    <3>1. i \in 1 .. n /\ longer[i] = path[i] /\ longer[i - 1] = path[i - 1]
      BY <1>2, <2>2
    <3> QED
      BY <1>1, <1>2, <3>1 DEF Foresees
  <2> QED
    BY <2>1, <2>2
<1>7. Foresees(longer, Append(frames, frame), runs)
  BY <1>2, <1>4, <1>6 DEF Foresees
<1> HIDE DEF longer
<1> QED
  BY <1>2, <1>5, <1>7 DEF Leads

LEMMA OneFrameLess ==
  ASSUME NEW start, NEW frames \in Seq(Frame), NEW runs, NEW end,
         Leads(start, frames, runs, end), frames # <<>>
  PROVE  /\ Leads(After(start, Head(frames)), Tail(frames), runs, end)
         /\ RunsAsAsked(After(start, Head(frames)), Head(frames), runs)
<1>1. PICK path : Foresees(path, frames, runs) /\ path[0] = start /\ path[Len(frames)] = end
  BY DEF Leads
<1> DEFINE n       == Len(frames)
           shorter == [i \in 0 .. n - 1 |-> path[i + 1]]
<1>2. n \in Nat \ {0} /\ Len(Tail(frames)) = n - 1 /\ Head(frames) = frames[1]
      /\ \A i \in 1 .. n - 1 : Tail(frames)[i] = frames[i + 1]
  OBVIOUS
<1>3. path[1] = After(start, Head(frames)) /\ RunsAsAsked(path[1], Head(frames), runs)
  BY <1>1, <1>2 DEF Foresees
<1>4. shorter \in [0 .. n - 1 -> Outlook]
  BY <1>1, <1>2 DEF Foresees
<1>5. shorter[0] = path[1] /\ shorter[n - 1] = end
  BY <1>1, <1>2
<1>6. ASSUME NEW i \in 1 .. n - 1
      PROVE  shorter[i] = After(shorter[i - 1], Tail(frames)[i])
             /\ RunsAsAsked(shorter[i], Tail(frames)[i], runs)
  <2>1. i + 1 \in 1 .. n /\ (i + 1) - 1 = i /\ i - 1 \in 0 .. n - 1 /\ (i - 1) + 1 = i
    BY <1>2
  <2>2. shorter[i] = path[i + 1] /\ shorter[i - 1] = path[i]
    BY <1>2, <2>1
  <2> QED
    BY <1>1, <1>2, <2>1, <2>2 DEF Foresees
<1>7. Foresees(shorter, Tail(frames), runs)
  BY <1>2, <1>4, <1>6 DEF Foresees
<1> HIDE DEF shorter
<1> QED
  BY <1>2, <1>3, <1>5, <1>7 DEF Leads

LEMMA MoreRuns ==
  ASSUME NEW start, NEW frames \in Seq(Frame), NEW runs \in Calls, NEW more \in Calls, NEW end,
         Leads(start, frames, runs, end)
  PROVE  Leads(start, frames, runs \o more, end)
<1>1. /\ Len(runs) \in Nat /\ Len(runs \o more) \in Nat /\ Len(runs) <= Len(runs \o more)
      /\ \A i \in 1 .. Len(runs) : (runs \o more)[i] = runs[i]
  BY DEF Calls
<1>2. ASSUME NEW s, NEW frame, RunsAsAsked(s, frame, runs)
      PROVE  RunsAsAsked(s, frame, runs \o more)
  BY <1>1, <1>2 DEF RunsAsAsked
<1> QED
  BY <1>2 DEF Leads, Foresees

-----------------------------------------------------------------------------

Foreseen == \A c \in Connection : OnTheWay(c) /\ Repeats(c)

LEMMA OthersStand ==
  ASSUME NEW c \in Connection, OnTheWay(c), Repeats(c),
         session'[c] = session[c], executed'[c] = executed[c], wire'[c] = wire[c],
         asked'[c] = asked[c], known'[c] = known[c]
  PROVE  OnTheWay(c)' /\ Repeats(c)'
<1>1. Now(c)' = Now(c)
  BY DEF Now
<1> QED
  BY <1>1 DEF OnTheWay, Repeats

LEMMA NowType ==
  ASSUME TypeOK, NEW c \in Connection
  PROVE  Now(c) \in Outlook
<1>1. session[c] \in SessionState /\ Len(executed[c]) \in Nat
  BY DEF TypeOK
<1> QED
  BY <1>1 DEF Now, Outlook, SessionState

\* The server takes the first frame: the session goes one step down its path.
LEMMA TakesAStep ==
  ASSUME TypeOK, NEW c \in Connection, OnTheWay(c), wire[c] # <<>>,
         wire' = [wire EXCEPT ![c] = Tail(@)], asked' = asked, known' = known,
         Now(c)' = After(Now(c), Head(wire[c]))
  PROVE  OnTheWay(c)' /\ RunsAsAsked(Now(c)', Head(wire[c]), asked[c])
<1>1. wire[c] \in Seq(Frame) /\ wire'[c] = Tail(wire[c])
  BY DEF TypeOK
<1>2. PICK end : Leads(Now(c), wire[c], asked[c], end) /\ Holds(end, known[c], asked[c])
  BY DEF OnTheWay
<1>3. /\ Leads(After(Now(c), Head(wire[c])), Tail(wire[c]), asked[c], end)
      /\ RunsAsAsked(After(Now(c), Head(wire[c])), Head(wire[c]), asked[c])
  BY <1>1, <1>2, OneFrameLess
<1> QED
  BY <1>1, <1>2, <1>3 DEF OnTheWay

\* A client adds the frames of a round trip, and what it asks for with them.
LEMMA AsksForMore ==
  ASSUME TypeOK, NEW c \in Connection, OnTheWay(c), NEW trip \in RoundTrip, Ask(c, trip)
  PROVE  OnTheWay(c)'
<1>1. /\ wire'[c] = wire[c] \o FramesOf(trip)
      /\ known'[c] = KnownAfter(known[c], trip)
      /\ asked'[c] = asked[c] \o Runs(trip)
      /\ Now(c)' = Now(c)
      /\ Sendable(known[c], trip)
  BY DEF Ask, TypeOK, Now
<1>2. PICK end : Leads(Now(c), wire[c], asked[c], end) /\ Holds(end, known[c], asked[c])
  BY DEF OnTheWay
<1>3. /\ wire[c] \in Seq(Frame) /\ asked[c] \in Calls /\ Runs(trip) \in Calls
      /\ known[c] \in [StatementName -> Sql \union {Unparsed}]
  BY ClientTypes DEF TypeOK, Calls
<1> DEFINE runs == asked[c] \o Runs(trip)
<1>4. Leads(Now(c), wire[c], runs, end)
  BY <1>2, <1>3, MoreRuns
<1>5. ASSUME NEW last, Leads(Now(c), wire[c] \o FramesOf(trip), runs, last),
             Holds(last, KnownAfter(known[c], trip), runs)
      PROVE  OnTheWay(c)'
  BY <1>1, <1>5 DEF OnTheWay
<1>6. end \in Outlook /\ end.ran = Len(asked[c]) /\ Len(asked[c]) \in Nat
      /\ \A name \in StatementName : known[c][name] # Unparsed => end.prepared[name] = known[c][name]
  BY <1>2, <1>3 DEF Holds, Calls
<1>7. CASE trip \in [kind : {"simple"}, sql : Sql]
  <2> DEFINE query == [type |-> "Q", sql |-> trip.sql]
             last  == After(end, query)
  <2>1. query \in Frame
    BY <1>7 DEF Frame
  <2>2. Runs(trip) = <<<<trip.sql, NoParams>>>> /\ FramesOf(trip) = <<query>>
    BY <1>7 DEF Runs, FramesOf
  <2>3. last = [end EXCEPT !.sql = trip.sql, !.params = NoParams, !.ran = end.ran + 1]
    BY DEF After
  <2>4. last.ran = Len(asked[c]) + 1 /\ last.sql = trip.sql /\ last.params = NoParams
        /\ last.prepared = end.prepared
    BY <1>6, <2>3 DEF Outlook
  <2>5. Len(runs) = Len(asked[c]) + 1 /\ runs[Len(asked[c]) + 1] = <<trip.sql, NoParams>>
    BY <1>3, <2>2 DEF Calls
  <2>6. last \in Outlook
    BY <1>6, <2>1, AfterType
  <2>7. RunsAsAsked(last, query, runs)
    <3>1. last.ran \in 1 .. Len(runs)
      BY <1>6, <2>4, <2>5
    <3>2. runs[last.ran] = <<last.sql, last.params>>
      BY <2>4, <2>5
    <3> QED
      BY ONLY <3>1, <3>2 DEF RunsAsAsked
  <2>8. Leads(Now(c), Append(wire[c], query), runs, last)
    BY <1>3, <1>4, <2>1, <2>7, OneMoreFrame
  <2>9. Append(wire[c], query) = wire[c] \o FramesOf(trip)
    BY <1>3, <2>1, <2>2
  <2>10. KnownAfter(known[c], trip) = [known[c] EXCEPT ![Unnamed] = Unparsed]
    BY <1>7 DEF KnownAfter
  <2> HIDE DEF last, runs
  <2>11. Holds(last, KnownAfter(known[c], trip), runs)
    BY <1>3, <1>6, <2>4, <2>5, <2>6, <2>10, SessionAssumption DEF Holds
  <2> QED
    BY <1>5, <2>8, <2>9, <2>11
<1>8. CASE trip \in [kind : {"close"}, name : StatementName]
  <2> DEFINE close == [type |-> "C", name |-> trip.name]
             sync  == [type |-> "S"]
  <2>1. close \in Frame /\ sync \in Frame
    BY <1>8 DEF Frame
  <2>2. Runs(trip) = <<>> /\ FramesOf(trip) = <<close, sync>>
    BY <1>8 DEF Runs, FramesOf
  <2>3. After(end, close) = end /\ After(end, sync) = end
    BY DEF After
  <2>4. RunsAsAsked(end, close, runs) /\ RunsAsAsked(end, sync, runs)
    BY DEF RunsAsAsked
  <2>5. runs = asked[c]
    BY <1>3, <2>2 DEF Calls
  <2> HIDE DEF close, sync, runs
  <2>6. Leads(Now(c), Append(wire[c], close), runs, end)
    BY <1>3, <1>4, <2>1, <2>3, <2>4, OneMoreFrame
  <2>7. Leads(Now(c), Append(Append(wire[c], close), sync), runs, end)
    <3>1. Append(wire[c], close) \in Seq(Frame)
      BY <1>3, <2>1
    <3> QED
      BY <2>1, <2>3, <2>4, <2>6, <3>1, OneMoreFrame
  <2>8. Append(Append(wire[c], close), sync) = wire[c] \o FramesOf(trip)
    BY <1>3, <2>1, <2>2
  <2>9. KnownAfter(known[c], trip) = [known[c] EXCEPT ![trip.name] = Unparsed]
    BY <1>8 DEF KnownAfter
  <2>10. Holds(end, KnownAfter(known[c], trip), runs)
    BY <1>3, <1>6, <1>8, <2>5, <2>9 DEF Holds
  <2> QED
    BY <1>5, <2>7, <2>8, <2>10
<1>9. CASE trip \in [kind : {"extended"}, name : StatementName, sql : Sql, params : Params,
                     parse : BOOLEAN, describe : BOOLEAN]
  <2> DEFINE parse    == [type |-> "P", name |-> trip.name, sql |-> trip.sql]
             bind     == [type |-> "B", name |-> trip.name, params |-> trip.params]
             describe == [type |-> "D"]
             execute  == [type |-> "E"]
             sync     == [type |-> "S"]
             parsed   == IF trip.parse THEN After(end, parse) ELSE end
             bound    == After(parsed, bind)
             run      == After(bound, execute)
  <2>1. parse \in Frame /\ bind \in Frame /\ describe \in Frame /\ execute \in Frame /\ sync \in Frame
    BY <1>9 DEF Frame
  <2>2. trip.name \in StatementName /\ trip.sql \in Sql /\ trip.params \in Params
        /\ trip.sql # Unparsed
    BY <1>9, SessionAssumption
  <2>3. /\ Runs(trip) = <<<<trip.sql, trip.params>>>>
        /\ KnownAfter(known[c], trip) = [known[c] EXCEPT ![trip.name] = trip.sql]
        /\ ~ trip.parse => known[c][trip.name] = trip.sql
        /\ FramesOf(trip) = (IF trip.parse THEN <<parse>> ELSE <<>>) \o <<bind>>
                              \o (IF trip.describe THEN <<describe>> ELSE <<>>)
                              \o <<execute, sync>>
    BY <1>1, <1>9 DEF Runs, KnownAfter, Sendable, FramesOf
  <2>4. parsed \in Outlook /\ parsed.ran = end.ran /\ parsed.prepared[trip.name] = trip.sql
        /\ \A name \in StatementName \ {trip.name} : parsed.prepared[name] = end.prepared[name]
    <3>1. CASE trip.parse
      <4>1. parsed = [end EXCEPT !.prepared = [@ EXCEPT ![trip.name] = trip.sql], !.sql = trip.sql]
        BY <3>1 DEF After
      <4>2. parsed \in Outlook
        BY <1>6, <2>1, <3>1, AfterType
      <4> QED
        BY <1>6, <2>2, <4>1, <4>2 DEF Outlook
    <3>2. CASE ~ trip.parse
      BY <1>6, <2>2, <2>3, <3>2
    <3> QED
      BY <3>1, <3>2
  <2> HIDE DEF parsed
  <2>5. bound \in Outlook /\ bound.ran = end.ran /\ bound.sql = trip.sql
        /\ bound.params = trip.params /\ bound.prepared = parsed.prepared
    <3>1. bound = [parsed EXCEPT !.sql = IF parsed.prepared[trip.name] = Unparsed THEN @
                                         ELSE parsed.prepared[trip.name],
                                 !.params = trip.params]
      BY DEF After
    <3>2. bound = [parsed EXCEPT !.sql = trip.sql, !.params = trip.params]
      BY <2>2, <2>4, <3>1
    <3>3. bound \in Outlook
      BY <2>1, <2>4, AfterType
    <3> QED
      BY <2>4, <3>2, <3>3 DEF Outlook
  <2> HIDE DEF bound
  <2>6. run \in Outlook /\ run.ran = end.ran + 1 /\ run.sql = trip.sql
        /\ run.params = trip.params /\ run.prepared = parsed.prepared
    <3>1. run = [bound EXCEPT !.ran = bound.ran + 1]
      BY DEF After
    <3>2. run \in Outlook
      BY <2>1, <2>5, AfterType
    <3> QED
      BY <2>5, <3>1, <3>2 DEF Outlook
  <2> HIDE DEF run
  <2>7. Len(runs) = Len(asked[c]) + 1 /\ runs[Len(asked[c]) + 1] = <<trip.sql, trip.params>>
    BY <1>3, <2>3 DEF Calls
  <2> HIDE DEF runs
  <2>8. RunsAsAsked(run, execute, runs)
    BY <1>6, <2>6, <2>7 DEF RunsAsAsked
  <2>9. \A s : /\ RunsAsAsked(s, parse, runs) /\ RunsAsAsked(s, bind, runs)
               /\ RunsAsAsked(s, describe, runs) /\ RunsAsAsked(s, sync, runs)
    BY DEF RunsAsAsked
  <2>10. After(bound, describe) = bound /\ After(run, sync) = run /\ After(bound, execute) = run
         /\ After(parsed, bind) = bound /\ (trip.parse => After(end, parse) = parsed)
         /\ (~ trip.parse => end = parsed)
    <3>1. After(bound, describe) = bound /\ After(run, sync) = run
      BY DEF After
    <3>2. After(bound, execute) = run
      BY DEF run
    <3>3. After(parsed, bind) = bound
      BY DEF bound
    <3>4. (trip.parse => After(end, parse) = parsed) /\ (~ trip.parse => end = parsed)
      BY DEF parsed
    <3> QED
      BY <3>1, <3>2, <3>3, <3>4
  <2> HIDE DEF parse, bind, describe, execute, sync
  <2> DEFINE frames1 == IF trip.parse THEN Append(wire[c], parse) ELSE wire[c]
             frames2 == Append(frames1, bind)
             frames3 == IF trip.describe THEN Append(frames2, describe) ELSE frames2
             frames4 == Append(frames3, execute)
             frames5 == Append(frames4, sync)
  <2>11. frames1 \in Seq(Frame) /\ Leads(Now(c), frames1, runs, parsed)
    BY <1>3, <1>4, <2>1, <2>9, <2>10, OneMoreFrame
  <2>12. wire[c] \o FramesOf(trip) = frames5
    <3>1. FramesOf(trip) = (IF trip.parse THEN <<parse>> ELSE <<>>) \o <<bind>>
                              \o (IF trip.describe THEN <<describe>> ELSE <<>>)
                              \o <<execute, sync>>
      BY <2>3 DEF parse, bind, describe, execute, sync
    <3> DEFINE t == IF trip.parse THEN <<parse>> ELSE <<>>
               u == <<bind>>
               v == IF trip.describe THEN <<describe>> ELSE <<>>
               w == <<execute, sync>>
    <3>2. t \in Seq(Frame) /\ u \in Seq(Frame) /\ v \in Seq(Frame) /\ w \in Seq(Frame)
      BY <2>1, OneOrTwo
    <3>3. FramesOf(trip) = t \o u \o v \o w
      BY <3>1
    <3> HIDE DEF t, u, v, w
    <3>4. wire[c] \o FramesOf(trip) = wire[c] \o t \o u \o v \o w
      <4>1. wire[c] \in Seq(Frame)
        BY <1>3
      <4>2. t \in Seq(Frame)
        BY <3>2
      <4>3. u \in Seq(Frame)
        BY <3>2
      <4>4. v \in Seq(Frame)
        BY <3>2
      <4>5. w \in Seq(Frame)
        BY <3>2
      <4>6. t \o u \in Seq(Frame) /\ (t \o u) \o v \in Seq(Frame)
        BY <4>2, <4>3, <4>4
      <4>7. (wire[c] \o t) \o u = wire[c] \o (t \o u)
        BY ONLY <4>1, <4>2, <4>3, Associative, Zenon
      <4>8. (wire[c] \o (t \o u)) \o v = wire[c] \o ((t \o u) \o v)
        BY ONLY <4>1, <4>4, <4>6, Associative, Zenon
      <4>9. (wire[c] \o ((t \o u) \o v)) \o w = wire[c] \o (((t \o u) \o v) \o w)
        BY ONLY <4>1, <4>5, <4>6, Associative, Zenon
      <4> QED
        BY ONLY <3>3, <4>7, <4>8, <4>9, Zenon
    <3> USE DEF t, u, v, w
    <3>5. wire[c] \o t = frames1
      BY <1>3, <2>1, AddedOneByOne
    <3>6. frames1 \in Seq(Frame)
      BY <1>3, <2>1
    <3> HIDE DEF frames1
    <3>7. frames1 \o <<bind>> = frames2 /\ frames2 \in Seq(Frame)
      BY <2>1, <3>6, AddedOneByOne
    <3> HIDE DEF frames2
    <3>8. frames2 \o v = frames3 /\ frames3 \in Seq(Frame)
      BY <2>1, <3>7, AddedOneByOne
    <3> HIDE DEF frames3
    <3>9. frames3 \o <<execute, sync>> = frames5
      BY <2>1, <3>8, AddedOneByOne
    <3> QED
      BY Zenon, <3>4, <3>5, <3>7, <3>8, <3>9
  <2> HIDE DEF frames1
  <2>13. frames2 \in Seq(Frame) /\ Leads(Now(c), frames2, runs, bound)
    BY <2>1, <2>9, <2>10, <2>11, OneMoreFrame
  <2> HIDE DEF frames2
  <2>14. frames3 \in Seq(Frame) /\ Leads(Now(c), frames3, runs, bound)
    BY <2>1, <2>9, <2>10, <2>13, OneMoreFrame
  <2> HIDE DEF frames3
  <2>15. frames4 \in Seq(Frame) /\ Leads(Now(c), frames4, runs, run)
    BY <2>1, <2>8, <2>10, <2>14, OneMoreFrame
  <2> HIDE DEF frames4
  <2>16. Leads(Now(c), frames5, runs, run)
    BY <2>1, <2>9, <2>10, <2>15, OneMoreFrame
  <2>17. Holds(run, KnownAfter(known[c], trip), runs)
    BY <1>3, <1>6, <2>2, <2>3, <2>4, <2>6, <2>7 DEF Holds
  <2> HIDE DEF frames5
  <2> QED
    BY <1>5, <2>12, <2>16, <2>17
<1> QED
  BY <1>7, <1>8, <1>9, RoundTripAssumption


LEMMA OneConnection ==
  ASSUME Foreseen, NEW c \in Connection, OnTheWay(c)', Repeats(c)',
         \A d \in Connection \ {c} :
            /\ session'[d] = session[d] /\ executed'[d] = executed[d] /\ wire'[d] = wire[d]
            /\ asked'[d] = asked[d] /\ known'[d] = known[d]
  PROVE  Foreseen'
<1>1. ASSUME NEW d \in Connection \ {c}
      PROVE  OnTheWay(d)' /\ Repeats(d)'
  BY OthersStand DEF Foreseen
<1> QED
  BY <1>1 DEF Foreseen

LEMMA RunsTheNext ==
  ASSUME TypeOK, NEW c \in Connection, Repeats(c), NEW sql \in Sql, NEW params \in Params,
         executed' = [executed EXCEPT ![c] = Append(@, <<sql, params>>)], asked' = asked,
         Len(executed[c]) + 1 \in 1 .. Len(asked[c]),
         asked[c][Len(executed[c]) + 1] = <<sql, params>>
  PROVE  Repeats(c)'
<1>1. executed[c] \in Calls /\ asked[c] \in Calls /\ <<sql, params>> \in Sql \X Params
      /\ executed'[c] = Append(executed[c], <<sql, params>>) /\ asked'[c] = asked[c]
  BY DEF TypeOK, Calls
<1>2. /\ Len(executed'[c]) = Len(executed[c]) + 1
      /\ DOMAIN executed'[c] = 1 .. Len(executed[c]) + 1
      /\ executed'[c][Len(executed[c]) + 1] = <<sql, params>>
      /\ \A n \in 1 .. Len(executed[c]) : executed'[c][n] = executed[c][n]
      /\ Len(executed[c]) \in Nat /\ DOMAIN executed[c] = 1 .. Len(executed[c])
  BY <1>1 DEF Calls
<1>3. ASSUME NEW n \in DOMAIN executed'[c]
      PROVE  executed'[c][n] = asked[c][n]
  <2>1. CASE n \in 1 .. Len(executed[c])
    <3>1. executed'[c][n] = executed[c][n] /\ n \in DOMAIN executed[c]
      BY <1>2, <2>1
    <3> QED
      BY <3>1 DEF Repeats
  <2>2. CASE n = Len(executed[c]) + 1
    BY <1>2, <2>2
  <2>3. n \in 1 .. Len(executed[c]) \/ n = Len(executed[c]) + 1
    BY <1>2
  <2> QED
    BY <2>1, <2>2, <2>3
<1> QED
  BY <1>1, <1>2, <1>3 DEF Repeats

LEMMA GreetIsForeseen ==
  ASSUME TypeOK, Foreseen, NEW c \in Connection, NEW type \in {"SSLRequest", "Startup"},
         Greet(c, type)
  PROVE  Foreseen'
<1> DEFINE frame == [type |-> type]
<1>1. /\ wire[c] = <<>> /\ wire'[c] = <<frame>> /\ Now(c)' = Now(c)
      /\ asked' = asked /\ known' = known /\ executed' = executed /\ session' = session
      /\ \A d \in Connection \ {c} : wire'[d] = wire[d]
  BY DEF Greet, TypeOK, Now, clientVars
<1>2. PICK end : Leads(Now(c), wire[c], asked[c], end) /\ Holds(end, known[c], asked[c])
  BY DEF Foreseen, OnTheWay
<1>3. frame \in Frame
  BY DEF Frame
<1>4. After(end, frame) = end /\ RunsAsAsked(end, frame, asked[c])
  BY DEF After, RunsAsAsked
<1> HIDE DEF frame
<1>5. <<>> \in Seq(Frame) /\ Append(<<>>, frame) = <<frame>>
  BY <1>3
<1>6. Leads(Now(c), <<frame>>, asked[c], end)
  BY <1>1, <1>2, <1>3, <1>4, <1>5, OneMoreFrame
<1>7. OnTheWay(c)'
  BY <1>1, <1>2, <1>6 DEF OnTheWay
<1>8. Repeats(c)'
  BY <1>1 DEF Foreseen, Repeats
<1> QED
  BY <1>1, <1>7, <1>8, OneConnection

LEMMA AskIsForeseen ==
  ASSUME TypeOK, Foreseen, NEW c \in Connection, NEW trip \in RoundTrip, Ask(c, trip)
  PROVE  Foreseen'
<1>1. OnTheWay(c)'
  BY AsksForMore DEF Foreseen
<1>2. /\ executed' = executed /\ session' = session /\ asked'[c] = asked[c] \o Runs(trip)
      /\ \A d \in Connection \ {c} :
            wire'[d] = wire[d] /\ asked'[d] = asked[d] /\ known'[d] = known[d]
  BY DEF Ask, TypeOK
<1>3. Repeats(c)'
  <2>1. asked[c] \in Calls /\ Runs(trip) \in Calls /\ executed[c] \in Calls
    BY ClientTypes DEF TypeOK, Calls
  <2>2. /\ Len(asked[c]) \in Nat /\ Len(asked'[c]) \in Nat /\ Len(asked[c]) <= Len(asked'[c])
        /\ \A n \in 1 .. Len(asked[c]) : asked'[c][n] = asked[c][n]
    BY <1>2, <2>1 DEF Calls
  <2>3. Len(executed[c]) \in Nat /\ DOMAIN executed[c] = 1 .. Len(executed[c])
    BY <2>1 DEF Calls
  <2>4. Len(executed[c]) <= Len(asked[c])
        /\ \A n \in DOMAIN executed[c] : executed[c][n] = asked[c][n]
    BY DEF Foreseen, Repeats
  <2> QED
    BY <1>2, <2>2, <2>3, <2>4 DEF Repeats
<1> QED
  BY <1>1, <1>2, <1>3, OneConnection

LEMMA DisconnectIsForeseen ==
  ASSUME TypeOK, Foreseen, NEW c \in Connection, Disconnect(c)
  PROVE  Foreseen'
<1>1. /\ session'[c] = NewSession /\ wire'[c] = <<>> /\ known'[c] = NothingParsed
      /\ asked'[c] = <<>> /\ executed'[c] = <<>>
      /\ \A d \in Connection \ {c} :
            /\ session'[d] = session[d] /\ executed'[d] = executed[d] /\ wire'[d] = wire[d]
            /\ asked'[d] = asked[d] /\ known'[d] = known[d]
  BY DEF Disconnect, TypeOK
<1> DEFINE fresh == [prepared |-> NothingParsed, sql |-> NoSql, params |-> NoParams, ran |-> 0]
<1>2. Now(c)' = fresh
  BY <1>1 DEF Now, NewSession
<1>3. fresh \in Outlook
  BY SessionAssumption DEF Outlook, NothingParsed
<1>4. Holds(fresh, NothingParsed, <<>>)
  BY <1>3 DEF Holds, NothingParsed
<1> HIDE DEF fresh
<1>5. OnTheWay(c)'
  BY <1>1, <1>2, <1>3, <1>4, LeadsNowhere DEF OnTheWay
<1>6. Repeats(c)'
  BY <1>1 DEF Repeats
<1> QED
  BY <1>1, <1>5, <1>6, OneConnection

LEMMA StartupIsForeseen ==
  ASSUME TypeOK, Foreseen, NEW c \in Connection, handleStartup(c)
  PROVE  Foreseen'
<1>1. /\ asked' = asked /\ known' = known /\ executed' = executed
      /\ wire' = [wire EXCEPT ![c] = Tail(@)] /\ wire[c] # <<>>
      /\ Head(wire[c]).type \in {"SSLRequest", "Startup"}
  BY DEF handleStartup, Consume, Arrived, clientVars
<1>2. /\ session'[c].prepared = session[c].prepared
      /\ session'[c].sql = session[c].sql /\ session'[c].params = session[c].params
      /\ \A d \in Connection \ {c} : session'[d] = session[d] /\ wire'[d] = wire[d]
  BY <1>1 DEF handleStartup, TypeOK, SessionState
<1>3. Now(c)' = Now(c) /\ After(Now(c), Head(wire[c])) = Now(c)
  BY <1>1, <1>2 DEF Now, After
<1>4. OnTheWay(c)'
  BY <1>1, <1>3, TakesAStep DEF Foreseen
<1>5. Repeats(c)'
  BY <1>1 DEF Foreseen, Repeats
<1> QED
  BY <1>1, <1>2, <1>4, <1>5, OneConnection

LEMMA FrameIsForeseen ==
  ASSUME TypeOK, Foreseen, NEW c \in Connection, handleFrame(c)
  PROVE  Foreseen'
<1> DEFINE frame == Head(wire[c])
<1>1. /\ asked' = asked /\ known' = known
      /\ wire' = [wire EXCEPT ![c] = Tail(@)] /\ wire[c] # <<>> /\ frame \in Frame
      /\ \A d \in Connection \ {c} : wire'[d] = wire[d]
  BY DEF handleFrame, Consume, Arrived, clientVars, Query, Parse, Bind, Describe, Execute, Other,
         TypeOK
<1>2. OnTheWay(c) /\ Repeats(c)
  BY DEF Foreseen
<1>3. /\ session \in [Connection -> SessionState]
      /\ executed \in [Connection -> Calls] /\ Len(executed[c]) \in Nat
      /\ session[c].sql \in Sql /\ session[c].params \in Params
      /\ session[c].prepared \in [StatementName -> Sql \union {Unparsed}]
  BY DEF TypeOK, SessionState, Calls
<1>4. ASSUME executed' = executed, Now(c)' = After(Now(c), frame),
             \A d \in Connection \ {c} : session'[d] = session[d]
      PROVE  Foreseen'
  <2>1. OnTheWay(c)'
    BY <1>1, <1>2, <1>4, TakesAStep
  <2>2. Repeats(c)'
    BY <1>1, <1>2, <1>4 DEF Repeats
  <2> QED
    BY <1>1, <1>4, <2>1, <2>2, OneConnection
<1>5. ASSUME NEW sql \in Sql, NEW params \in Params,
             executed' = [executed EXCEPT ![c] = Append(@, <<sql, params>>)],
             frame.type \in {"Q", "E"}, Now(c)' = After(Now(c), frame),
             After(Now(c), frame).sql = sql, After(Now(c), frame).params = params,
             After(Now(c), frame).ran = Len(executed[c]) + 1,
             \A d \in Connection \ {c} : session'[d] = session[d]
      PROVE  Foreseen'
  <2>1. OnTheWay(c)' /\ RunsAsAsked(Now(c)', frame, asked[c])
    BY <1>1, <1>2, <1>5, TakesAStep
  <2>2. Repeats(c)'
    <3>1. Len(executed[c]) + 1 \in 1 .. Len(asked[c])
          /\ asked[c][Len(executed[c]) + 1] = <<sql, params>>
      BY <1>5, <2>1 DEF RunsAsAsked
    <3> QED
      BY <1>1, <1>2, <1>5, <3>1, RunsTheNext
  <2>3. \A d \in Connection \ {c} : executed'[d] = executed[d]
    BY <1>3, <1>5
  <2> QED
    BY <1>1, <1>5, <2>1, <2>2, <2>3, OneConnection
<1>6. CASE Query(c)
  <2>1. frame.type = "Q" /\ frame.sql \in Sql /\ NoParams \in Params
    BY <1>1, <1>6, SessionAssumption DEF Query, Arrived, Frame
  <2>2. /\ session' = [session EXCEPT ![c].sql = frame.sql, ![c].params = NoParams]
        /\ executed' = [executed EXCEPT ![c] = Append(@, <<frame.sql, NoParams>>)]
    BY <1>6 DEF Query, answerFor
  <2> HIDE DEF frame
  <2>3. /\ session'[c].prepared = session[c].prepared /\ session'[c].sql = frame.sql
        /\ session'[c].params = NoParams
        /\ \A d \in Connection \ {c} : session'[d] = session[d]
    BY <1>3, <2>2 DEF SessionState
  <2>4. Len(executed'[c]) = Len(executed[c]) + 1
    BY <1>3, <2>1, <2>2 DEF Calls
  <2>5. After(Now(c), frame) = [prepared |-> session[c].prepared, sql |-> frame.sql,
                                params |-> NoParams, ran |-> Len(executed[c]) + 1]
    BY <2>1 DEF After, Now
  <2>6. Now(c)' = After(Now(c), frame)
    BY <2>3, <2>4, <2>5 DEF Now
  <2>7. /\ After(Now(c), frame).sql = frame.sql /\ After(Now(c), frame).params = NoParams
        /\ After(Now(c), frame).ran = Len(executed[c]) + 1
    BY <2>5
  <2>8. frame.type \in {"Q", "E"}
    BY <2>1
  <2> QED
    BY Zenon, <1>5, <2>1, <2>2, <2>3, <2>6, <2>7, <2>8
<1>7. CASE Execute(c)
  <2>1. frame.type = "E" /\ session' = session
        /\ executed' = [executed EXCEPT ![c] = Append(@, <<session[c].sql, session[c].params>>)]
    BY <1>7 DEF Execute, Arrived, answerFor
  <2> HIDE DEF frame
  <2>2. Len(executed'[c]) = Len(executed[c]) + 1
    BY <1>3, <2>1 DEF Calls
  <2>3. After(Now(c), frame) = [prepared |-> session[c].prepared, sql |-> session[c].sql,
                                params |-> session[c].params, ran |-> Len(executed[c]) + 1]
    BY <2>1 DEF After, Now
  <2>4. Now(c)' = After(Now(c), frame)
    BY <2>1, <2>2, <2>3 DEF Now
  <2>5. /\ After(Now(c), frame).sql = session[c].sql
        /\ After(Now(c), frame).params = session[c].params
        /\ After(Now(c), frame).ran = Len(executed[c]) + 1
    BY <2>3
  <2>6. frame.type \in {"Q", "E"} /\ \A d \in Connection \ {c} : session'[d] = session[d]
    BY <2>1
  <2> QED
    BY Zenon, <1>3, <1>5, <2>1, <2>4, <2>5, <2>6
<1>8. CASE Parse(c)
  <2>1. frame.type = "P" /\ executed' = executed
        /\ session' = [session EXCEPT ![c].prepared[frame.name] = frame.sql, ![c].sql = frame.sql]
    BY <1>8 DEF Parse, Arrived
  <2> HIDE DEF frame
  <2>2. /\ session'[c].prepared = [session[c].prepared EXCEPT ![frame.name] = frame.sql]
        /\ session'[c].sql = frame.sql /\ session'[c].params = session[c].params
        /\ \A d \in Connection \ {c} : session'[d] = session[d]
    BY <1>3, <2>1 DEF SessionState
  <2>3. After(Now(c), frame) =
            [prepared |-> [session[c].prepared EXCEPT ![frame.name] = frame.sql],
             sql |-> frame.sql, params |-> session[c].params, ran |-> Len(executed[c])]
    BY <2>1 DEF After, Now
  <2>4. Now(c)' = After(Now(c), frame)
    BY <2>1, <2>2, <2>3 DEF Now
  <2> QED
    BY <1>4, <2>1, <2>2, <2>4
<1>9. CASE Bind(c)
  <2> DEFINE prepared == session[c].prepared[frame.name]
             sql      == IF prepared = Unparsed THEN session[c].sql ELSE prepared
  <2>1. frame.type = "B" /\ executed' = executed
        /\ session' = [session EXCEPT ![c].sql = sql, ![c].params = frame.params]
    BY <1>9 DEF Bind, Arrived
  <2>2. After(Now(c), frame) =
            [prepared |-> session[c].prepared, sql |-> sql, params |-> frame.params,
             ran |-> Len(executed[c])]
    BY <2>1 DEF After, Now
  <2> HIDE DEF frame, sql
  <2>3. /\ session'[c].prepared = session[c].prepared
        /\ session'[c].sql = sql /\ session'[c].params = frame.params
        /\ \A d \in Connection \ {c} : session'[d] = session[d]
    BY <1>3, <2>1 DEF SessionState
  <2>4. Now(c)' = After(Now(c), frame)
    BY <2>1, <2>2, <2>3 DEF Now
  <2> QED
    BY <1>4, <2>1, <2>3, <2>4
<1>10. CASE Describe(c) \/ Other(c)
  <2>1. frame.type \in {"D", "S", "C"} /\ executed' = executed /\ session' = session
    BY <1>10 DEF Describe, Other, Arrived
  <2> HIDE DEF frame
  <2>2. After(Now(c), frame) = Now(c) /\ Now(c)' = Now(c)
    BY <2>1 DEF After, Now
  <2> QED
    BY <1>4, <2>1, <2>2
<1> QED
  BY <1>6, <1>7, <1>8, <1>9, <1>10 DEF handleFrame

LEMMA ForeseenInit == Init => Foreseen
<1> SUFFICES ASSUME Init, NEW c \in Connection PROVE OnTheWay(c) /\ Repeats(c)
  BY DEF Foreseen
<1>1. /\ session[c] = NewSession /\ wire[c] = <<>> /\ known[c] = NothingParsed
      /\ asked[c] = <<>> /\ executed[c] = <<>>
  BY DEF Init
<1> DEFINE fresh == [prepared |-> NothingParsed, sql |-> NoSql, params |-> NoParams, ran |-> 0]
<1>2. Now(c) = fresh
  BY <1>1 DEF Now, NewSession
<1>3. fresh \in Outlook
  BY SessionAssumption DEF Outlook, NothingParsed
<1>4. Holds(fresh, NothingParsed, <<>>)
  BY <1>3 DEF Holds, NothingParsed
<1> HIDE DEF fresh
<1>5. OnTheWay(c)
  BY <1>1, <1>2, <1>3, <1>4, LeadsNowhere DEF OnTheWay
<1> QED
  BY <1>1, <1>5 DEF Repeats

LEMMA ForeseenStep == TypeOK /\ Foreseen /\ [Next]_vars => Foreseen'
<1> SUFFICES ASSUME TypeOK, Foreseen, [Next]_vars PROVE Foreseen'
  OBVIOUS
<1>1. CASE UNCHANGED vars
  <2>1. ASSUME NEW c \in Connection
        PROVE  OnTheWay(c)' /\ Repeats(c)'
    BY <1>1, OthersStand DEF vars, clientVars, Foreseen
  <2> QED
    BY <2>1 DEF Foreseen
<1> QED
  BY <1>1, GreetIsForeseen, AskIsForeseen, DisconnectIsForeseen, StartupIsForeseen,
     FrameIsForeseen DEF Next

\* postgresReplayServer.ts:125-130 with :183-195: whatever round trips a client
\* pipelines, and however it prepares, reuses, closes and prepares statements
\* again, its connection runs the statements it meant, in order, each with its
\* own parameters.  Foreseen is inductive: the frames on the wire lead from the
\* session as it is to one where all that was asked has run.
THEOREM ExecutesWhatWasAskedHolds == Spec => []ExecutesWhatWasAsked
<1>1. Foreseen => ExecutesWhatWasAsked
  BY DEF Foreseen, Repeats, ExecutesWhatWasAsked
<1> QED
  BY <1>1, TypeCorrect, ForeseenInit, ForeseenStep, PTL DEF Spec

=============================================================================
