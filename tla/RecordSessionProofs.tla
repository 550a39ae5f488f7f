------------------------ MODULE RecordSessionProofs ------------------------
(***************************************************************************)
(* Proofs about the record session and the HTTP relays, for every set of   *)
(* calls and chunks, every body limit and every bound.                     *)
(***************************************************************************)
EXTENDS RecordSession, TLAPS

Body == [body : Seq(Chunk), bytes : Nat]

CallType ==
    [request : {"none", "open", "ended", "stalled"},
     response : {"none", "failed", "open", "ended", "stalled"},
     gone : BOOLEAN, requestBody : CaptureType, responseBody : CaptureType]

RelayType ==
    /\ call \in [Call -> CallType]
    /\ exchanges \in Seq(ExchangeType)
    /\ crashed \in BOOLEAN
    /\ sent \in [Call -> [{"request", "response"} -> Body]]

\* What a capture knows of the body it has seen so far.
Faithful(capture, body) ==
    /\ capture.totalBytes = body.bytes
    /\ ~ capture.truncated => /\ capture.retained = body.body
                              /\ capture.retainedBytes = body.bytes
    /\ capture.truncated => body.bytes > MaxBytes

Captures ==
    \A x \in Call : /\ Faithful(call[x].requestBody, sent[x].request)
                    /\ Faithful(call[x].responseBody, sent[x].response)

RelayInv == RelayType /\ Captures /\ BodyIsWholeOrAbsent /\ RecordedOnceWhole

-----------------------------------------------------------------------------
(***************************************************************************)
(* Captures.                                                               *)
(***************************************************************************)

LEMMA NewCaptureIsFaithful ==
    NewCapture \in CaptureType /\ NothingSent \in Body /\ Faithful(NewCapture, NothingSent)
BY MaxBytesAssumption DEF NewCapture, CaptureType, NothingSent, Body, Faithful

LEMMA CapturedIsFaithful ==
    ASSUME NEW capture \in CaptureType, NEW body \in Body, NEW chunk \in Chunk,
           Faithful(capture, body)
    PROVE  LET longer == [body |-> Append(body.body, chunk), bytes |-> body.bytes + chunk.bytes]
           IN  /\ Captured(capture, chunk) \in CaptureType
               /\ longer \in Body
               /\ Faithful(Captured(capture, chunk), longer)
<1>1. chunk.bytes \in Nat /\ chunk \in Chunk
    BY ChunkAssumption
<1>2. /\ capture.retained \in Seq(Chunk) /\ body.body \in Seq(Chunk)
      /\ capture.retainedBytes \in 0 .. MaxBytes /\ capture.totalBytes \in Nat
      /\ capture.truncated \in BOOLEAN /\ body.bytes \in Nat
    BY DEF CaptureType, Body
<1>3. Append(capture.retained, chunk) \in Seq(Chunk) /\ Append(body.body, chunk) \in Seq(Chunk)
    BY <1>2
<1>4. MaxBytes \in Nat /\ <<>> \in Seq(Chunk)
    BY MaxBytesAssumption
<1>5. CASE capture.truncated
    BY <1>1, <1>2, <1>3, <1>4, <1>5 DEF CaptureType, Body, Faithful, Captured
<1>6. CASE ~ capture.truncated /\ capture.retainedBytes + chunk.bytes > MaxBytes
    BY <1>1, <1>2, <1>3, <1>4, <1>6 DEF CaptureType, Body, Faithful, Captured
<1>7. CASE ~ capture.truncated /\ ~ capture.retainedBytes + chunk.bytes > MaxBytes
    <2> DEFINE kept == Captured(capture, chunk)
    <2>1. kept = [retained      |-> Append(capture.retained, chunk),
                  retainedBytes |-> capture.retainedBytes + chunk.bytes,
                  totalBytes    |-> capture.totalBytes + chunk.bytes,
                  truncated     |-> capture.truncated]
        BY <1>7 DEF Captured, CaptureType
    <2>2. capture.retainedBytes + chunk.bytes \in 0 .. MaxBytes
        BY <1>1, <1>2, <1>4, <1>7
    <2>3. kept \in CaptureType
        BY <1>1, <1>2, <1>3, <2>1, <2>2 DEF CaptureType
    <2>4. capture.totalBytes = body.bytes /\ capture.retained = body.body
          /\ capture.retainedBytes = body.bytes
        BY <1>7 DEF Faithful
    <2> QED
        BY <1>1, <1>2, <1>3, <1>7, <2>1, <2>3, <2>4 DEF Body, Faithful
<1> QED
    BY <1>5, <1>6, <1>7

\* What is recorded of a body is the whole of it, or nothing.
LEMMA TextIsExpected ==
    ASSUME NEW capture \in CaptureType, NEW body \in Body, Faithful(capture, body)
    PROVE  TextOf(capture) = Expected(body) /\ TextOf(capture) \in Text
<1>1. /\ capture.retained \in Seq(Chunk) /\ capture.retainedBytes \in 0 .. MaxBytes
      /\ capture.truncated \in BOOLEAN /\ body.bytes \in Nat
    BY DEF CaptureType, Body
<1>2. Decoded(capture.retained) \in Text
    BY <1>1 DEF Decoded, Text
<1> QED
    BY <1>1, <1>2, MaxBytesAssumption DEF Faithful, TextOf, Expected, Text

-----------------------------------------------------------------------------
(***************************************************************************)
(* One event of one call.                                                  *)
(***************************************************************************)

IsWhole(state) == state.request = "ended" /\ state.response = "ended"

\* An event that makes no exchange: the call was not whole, or has not changed.
LEMMA QuietStep ==
    ASSUME RelayInv, NEW x \in Call, NEW state \in CallType,
           NEW bodies \in [{"request", "response"} -> Body],
           call' = [call EXCEPT ![x] = state], sent' = [sent EXCEPT ![x] = bodies],
           exchanges' = exchanges, crashed' \in BOOLEAN,
           Faithful(state.requestBody, bodies["request"]),
           Faithful(state.responseBody, bodies["response"]),
           IsWhole(state) <=> Whole(x), Whole(x) => bodies = sent[x]
    PROVE  RelayInv'
<1> USE DEF RelayInv, RelayType
<1>1. RelayType'
    OBVIOUS
<1>2. \A y \in Call : (y # x => call'[y] = call[y] /\ sent'[y] = sent[y])
    OBVIOUS
<1>3. call'[x] = state /\ sent'[x] = bodies
    OBVIOUS
<1>4. Captures'
    BY <1>2, <1>3 DEF Captures
<1>5. \A y \in Call : Whole(y)' <=> Whole(y)
    BY <1>2, <1>3 DEF Whole, IsWhole
<1>6. RecordedOnceWhole'
    BY <1>5 DEF RecordedOnceWhole
<1>7. \A k \in DOMAIN exchanges : exchanges[k].call \in Call /\ Whole(exchanges[k].call)
    <2>1. \A k \in DOMAIN exchanges : exchanges[k] \in ExchangeType
        OBVIOUS
    <2>2. \A k \in DOMAIN exchanges : exchanges[k].call \in Call
        BY <2>1 DEF ExchangeType
    <2> QED
        BY <2>2 DEF RecordedOnceWhole
<1>8. \A k \in DOMAIN exchanges : sent'[exchanges[k].call] = sent[exchanges[k].call]
    BY <1>2, <1>3, <1>7
<1>9. BodyIsWholeOrAbsent'
    BY <1>8 DEF BodyIsWholeOrAbsent
<1> QED
    BY <1>1, <1>4, <1>6, <1>9

LEMMA ExchangeIsWhole ==
    ASSUME RelayInv, NEW x \in Call
    PROVE  /\ Exchange(x) \in ExchangeType
           /\ Exchange(x).call = x
           /\ Exchange(x).requestBody = Expected(sent[x].request)
           /\ Exchange(x).requestBytes = sent[x].request.bytes
           /\ Exchange(x).responseBody = Expected(sent[x].response)
           /\ Exchange(x).responseBytes = sent[x].response.bytes
<1> USE DEF RelayInv, RelayType
<1>1. /\ call[x].requestBody \in CaptureType /\ call[x].responseBody \in CaptureType
      /\ sent[x].request \in Body /\ sent[x].response \in Body
    BY DEF CallType
<1>2. /\ Faithful(call[x].requestBody, sent[x].request)
      /\ Faithful(call[x].responseBody, sent[x].response)
    BY DEF Captures
<1>3. /\ call[x].requestBody.totalBytes = sent[x].request.bytes
      /\ call[x].responseBody.totalBytes = sent[x].response.bytes
      /\ sent[x].request.bytes \in Nat /\ sent[x].response.bytes \in Nat
    BY <1>1, <1>2 DEF Faithful, Body
<1>4. /\ TextOf(call[x].requestBody) = Expected(sent[x].request)
      /\ TextOf(call[x].responseBody) = Expected(sent[x].response)
      /\ TextOf(call[x].requestBody) \in Text /\ TextOf(call[x].responseBody) \in Text
    BY <1>1, <1>2, TextIsExpected
<1> QED
    BY <1>3, <1>4 DEF Exchange, ExchangeType

\* The second of the two ends: the call becomes whole and an exchange at once.
LEMMA ExchangeStep ==
    ASSUME RelayInv, NEW x \in Call, NEW state \in CallType, ~ Whole(x), IsWhole(state),
           state.requestBody = call[x].requestBody, state.responseBody = call[x].responseBody,
           call' = [call EXCEPT ![x] = state], exchanges' = Append(exchanges, Exchange(x)),
           UNCHANGED <<crashed, sent>>
    PROVE  RelayInv'
<1> USE DEF RelayInv, RelayType
<1> DEFINE last == Len(exchanges) + 1
<1>1. Exchange(x) \in ExchangeType /\ Exchange(x).call = x
    BY ExchangeIsWhole
<1>2. /\ exchanges' \in Seq(ExchangeType) /\ Len(exchanges') = last
      /\ exchanges'[last] = Exchange(x)
      /\ \A k \in 1 .. Len(exchanges) : exchanges'[k] = exchanges[k]
    BY <1>1
<1>3. DOMAIN exchanges' = DOMAIN exchanges \union {last} /\ last \notin DOMAIN exchanges
    BY <1>2
<1>4. RelayType'
    BY <1>2
<1>5. call'[x] = state /\ \A y \in Call : (y # x => call'[y] = call[y])
    OBVIOUS
<1>6. Captures'
    BY <1>5 DEF Captures
<1>7. \A y \in Call : Whole(y)' <=> (Whole(y) \/ y = x)
    BY <1>5 DEF Whole, IsWhole
<1>8. \A k \in DOMAIN exchanges : exchanges[k].call # x
    BY DEF RecordedOnceWhole
<1>9. BodyIsWholeOrAbsent'
    BY <1>2, <1>3, ExchangeIsWhole DEF BodyIsWholeOrAbsent
<1>10. \A y \in Call : Whole(y)' <=> \E k \in DOMAIN exchanges' : exchanges'[k].call = y
    BY <1>1, <1>2, <1>3, <1>7, <1>8 DEF RecordedOnceWhole
<1>11. \A j, k \in DOMAIN exchanges' : exchanges'[j].call = exchanges'[k].call => j = k
    BY <1>1, <1>2, <1>3, <1>8 DEF RecordedOnceWhole
<1> QED
    BY <1>4, <1>6, <1>9, <1>10, <1>11 DEF RecordedOnceWhole

-----------------------------------------------------------------------------
(***************************************************************************)
(* The events of relay().                                                  *)
(***************************************************************************)

\* An event that changes a call's streams and not its captures, and ends no body last.
LEMMA StreamStep ==
    ASSUME RelayInv, NEW x \in Call, NEW state \in CallType,
           call' = [call EXCEPT ![x] = state], UNCHANGED <<exchanges, crashed, sent>>,
           state.requestBody = call[x].requestBody, state.responseBody = call[x].responseBody,
           IsWhole(state) <=> Whole(x)
    PROVE  RelayInv'
<1> USE DEF RelayInv, RelayType
<1>1. sent[x] \in [{"request", "response"} -> Body] /\ sent' = [sent EXCEPT ![x] = sent[x]]
    OBVIOUS
<1>2. /\ Faithful(state.requestBody, sent[x]["request"])
      /\ Faithful(state.responseBody, sent[x]["response"])
    BY DEF Captures
<1>3. crashed' \in BOOLEAN /\ exchanges' = exchanges
    OBVIOUS
<1> HIDE DEF RelayInv, RelayType
<1> QED
    BY <1>1, <1>2, <1>3, QuietStep

LEMMA DataStep ==
    ASSUME RelayInv, NEW x \in Call, RequestData(x) \/ ResponseData(x)
    PROVE  RelayInv'
<1>0. /\ call \in [Call -> CallType] /\ call[x] \in CallType
      /\ sent[x] \in [{"request", "response"} -> Body] /\ crashed \in BOOLEAN
      /\ Faithful(call[x].requestBody, sent[x].request)
      /\ Faithful(call[x].responseBody, sent[x].response)
    BY DEF RelayInv, RelayType, Captures
<1>1. CASE RequestData(x)
    <2>1. PICK chunk \in Chunk :
              /\ Sent(x, "request", chunk)
              /\ call' = [call EXCEPT ![x].requestBody = Captured(@, chunk)]
        BY <1>1 DEF RequestData
    <2> DEFINE longer == [body  |-> Append(sent[x].request.body, chunk),
                          bytes |-> sent[x].request.bytes + chunk.bytes]
               bodies == [sent[x] EXCEPT !["request"] = longer]
               state  == [call[x] EXCEPT !.requestBody = Captured(call[x].requestBody, chunk)]
    <2>2. /\ Captured(call[x].requestBody, chunk) \in CaptureType
          /\ longer \in Body
          /\ Faithful(Captured(call[x].requestBody, chunk), longer)
        BY <1>0, CapturedIsFaithful DEF CallType
    <2>3. state \in CallType /\ bodies \in [{"request", "response"} -> Body]
        BY <1>0, <2>2 DEF CallType
    <2>4. call' = [call EXCEPT ![x] = state] /\ sent' = [sent EXCEPT ![x] = bodies]
        BY <2>1 DEF Sent
    <2>5. /\ Faithful(state.requestBody, bodies["request"])
          /\ Faithful(state.responseBody, bodies["response"])
        BY <1>0, <2>2 DEF CallType
    <2>6. ~ IsWhole(state) /\ ~ Whole(x) /\ exchanges' = exchanges /\ crashed' \in BOOLEAN
        BY <1>0, <1>1 DEF RequestData, IsWhole, Whole, CallType
    <2> QED
        BY <2>3, <2>4, <2>5, <2>6, QuietStep
<1>2. CASE ResponseData(x)
    <2>1. PICK chunk \in Chunk :
              /\ Sent(x, "response", chunk)
              /\ call' = [call EXCEPT ![x].responseBody = Captured(@, chunk),
                                      ![x].response = IF call[x].gone THEN "stalled" ELSE "open"]
        BY <1>2 DEF ResponseData
    <2> DEFINE longer == [body  |-> Append(sent[x].response.body, chunk),
                          bytes |-> sent[x].response.bytes + chunk.bytes]
               bodies == [sent[x] EXCEPT !["response"] = longer]
               state  == [call[x] EXCEPT
                             !.responseBody = Captured(call[x].responseBody, chunk),
                             !.response = IF call[x].gone THEN "stalled" ELSE "open"]
    <2>2. /\ Captured(call[x].responseBody, chunk) \in CaptureType
          /\ longer \in Body
          /\ Faithful(Captured(call[x].responseBody, chunk), longer)
        BY <1>0, CapturedIsFaithful DEF CallType
    <2>3. state \in CallType /\ bodies \in [{"request", "response"} -> Body]
        BY <1>0, <2>2 DEF CallType
    <2>4. call' = [call EXCEPT ![x] = state] /\ sent' = [sent EXCEPT ![x] = bodies]
        BY <1>0, <2>1 DEF Sent
    <2>5. /\ Faithful(state.requestBody, bodies["request"])
          /\ Faithful(state.responseBody, bodies["response"])
        BY <1>0, <2>2 DEF CallType
    <2>6. ~ IsWhole(state) /\ ~ Whole(x) /\ exchanges' = exchanges /\ crashed' \in BOOLEAN
        BY <1>0, <1>2 DEF ResponseData, IsWhole, Whole, CallType
    <2> QED
        BY <2>3, <2>4, <2>5, <2>6, QuietStep
<1> QED
    BY <1>1, <1>2

LEMMA RequestEndStep ==
    ASSUME RelayInv, NEW x \in Call, RequestEnd(x)
    PROVE  RelayInv'
<1> DEFINE state == [call[x] EXCEPT !.request = "ended"]
<1>1. call[x] \in CallType
    BY DEF RelayInv, RelayType
<1>2. /\ state \in CallType
      /\ state.requestBody = call[x].requestBody /\ state.responseBody = call[x].responseBody
      /\ call' = [call EXCEPT ![x] = state] /\ ~ Whole(x)
      /\ IsWhole(state) <=> call[x].response = "ended"
    BY <1>1 DEF RequestEnd, CallType, Whole, IsWhole
<1>3. CASE call[x].response = "ended"
    BY <1>2, <1>3, ExchangeStep DEF RequestEnd
<1>4. CASE call[x].response # "ended"
    BY <1>2, <1>4, StreamStep DEF RequestEnd
<1> QED
    BY <1>3, <1>4

LEMMA ResponseEndStep ==
    ASSUME RelayInv, NEW x \in Call, ResponseEnd(x)
    PROVE  RelayInv'
<1> DEFINE state == [call[x] EXCEPT !.response = "ended"]
<1>1. call[x] \in CallType
    BY DEF RelayInv, RelayType
<1>2. /\ state \in CallType
      /\ state.requestBody = call[x].requestBody /\ state.responseBody = call[x].responseBody
      /\ call' = [call EXCEPT ![x] = state] /\ ~ Whole(x)
      /\ IsWhole(state) <=> call[x].request = "ended"
    BY <1>1 DEF ResponseEnd, CallType, Whole, IsWhole
<1>3. CASE call[x].request = "ended"
    BY <1>2, <1>3, ExchangeStep DEF ResponseEnd
<1>4. CASE call[x].request # "ended"
    BY <1>2, <1>4, StreamStep DEF ResponseEnd
<1> QED
    BY <1>3, <1>4

LEMMA RelayStep ==
    ASSUME RelayInv, NEW x \in Call, relay(x)
    PROVE  RelayInv'
<1>0. call \in [Call -> CallType] /\ call[x] \in CallType
    BY DEF RelayInv, RelayType
<1>1. CASE Arrive(x)
    <2> DEFINE state == [call[x] EXCEPT !.request = "open"]
    <2> QED
        BY <1>0, <1>1, StreamStep, state \in CallType DEF Arrive, CallType, Whole, IsWhole
<1>2. CASE UpstreamError(x)
    <2> DEFINE state == [call[x] EXCEPT !.response = "failed",
                                        !.request = IF @ = "open" THEN "stalled" ELSE @]
    <2>1. state \in CallType
        BY <1>0 DEF CallType
    <2>2. call' = [call EXCEPT ![x] = state]
        BY <1>0, <1>2 DEF UpstreamError
    <2>3. /\ state.requestBody = call[x].requestBody
          /\ state.responseBody = call[x].responseBody
        BY <1>0 DEF CallType
    <2>4. IsWhole(state) <=> Whole(x)
        BY <1>0, <1>2 DEF UpstreamError, CallType, Whole, IsWhole
    <2> QED
        BY <1>2, <2>1, <2>2, <2>3, <2>4, StreamStep DEF UpstreamError
<1>3. CASE ResponseHead(x)
    <2> DEFINE state == [call[x] EXCEPT !.response = "open"]
    <2> QED
        BY <1>0, <1>3, StreamStep, state \in CallType DEF ResponseHead, CallType, Whole, IsWhole
<1>4. CASE UpstreamCloses(x)
    <2> DEFINE state == [call[x] EXCEPT !.request = "stalled"]
    <2> QED
        BY <1>0, <1>4, StreamStep, state \in CallType DEF UpstreamCloses, CallType, Whole, IsWhole
<1>5. CASE CallerLeaves(x)
    <2> DEFINE state == [call[x] EXCEPT !.gone = TRUE,
                                        !.response = IF @ = "open" THEN "stalled" ELSE @]
    <2>1. state \in CallType
        BY <1>0 DEF CallType
    <2>2. call' = [call EXCEPT ![x] = state]
        BY <1>0, <1>5 DEF CallerLeaves
    <2>3. /\ state.requestBody = call[x].requestBody
          /\ state.responseBody = call[x].responseBody
        BY <1>0 DEF CallType
    <2>4. IsWhole(state) <=> Whole(x)
        BY <1>0, <1>5 DEF CallerLeaves, CallType, Whole, IsWhole
    <2> QED
        BY <1>5, <2>1, <2>2, <2>3, <2>4, StreamStep DEF CallerLeaves
<1>6. CASE BodyBreaksOff(x)
    BY <1>6 DEF BodyBreaksOff, RelayInv, RelayType, Captures, BodyIsWholeOrAbsent,
                RecordedOnceWhole, Whole
<1> QED
    BY <1>1, <1>2, <1>3, <1>4, <1>5, <1>6, DataStep, RequestEndStep, ResponseEndStep DEF relay

\* A call relayed to the end stays so, and its bodies what they were.
LEMMA WholeStays ==
    ASSUME RelayInv, NEW x \in Call, relay(x), NEW y \in Call, Whole(y)
    PROVE  Whole(y)' /\ sent'[y] = sent[y]
<1>1. call \in [Call -> CallType] /\ call[x] \in CallType
      /\ sent \in [Call -> [{"request", "response"} -> Body]]
    BY DEF RelayInv, RelayType
<1>2. CASE Arrive(x)
    BY <1>1, <1>2 DEF Arrive, Whole, CallType
<1>3. CASE RequestData(x) \/ RequestEnd(x)
    BY <1>1, <1>3 DEF RequestData, RequestEnd, Sent, Whole, CallType
<1>4. CASE ResponseData(x) \/ ResponseEnd(x) \/ ResponseHead(x)
    BY <1>1, <1>4 DEF ResponseData, ResponseEnd, ResponseHead, Sent, Whole, CallType
<1>5. CASE UpstreamError(x) \/ UpstreamCloses(x)
    BY <1>1, <1>5 DEF UpstreamError, UpstreamCloses, Whole, CallType
<1>6. CASE CallerLeaves(x) \/ BodyBreaksOff(x)
    BY <1>1, <1>6 DEF CallerLeaves, BodyBreaksOff, Whole, CallType
<1> QED
    BY <1>2, <1>3, <1>4, <1>5, <1>6 DEF relay

-----------------------------------------------------------------------------
(***************************************************************************)
(* The session.                                                            *)
(***************************************************************************)

SessionType ==
    /\ session \in {"starting", "recording", "written", "rejected"}
    /\ listening \in 0 .. Listeners
    /\ child \in {"none", "running", "exited", "failed"}
    /\ stopAsked \in BOOLEAN /\ forceTimer \in BOOLEAN
    /\ interactions \in Nat
    /\ har \in Seq(HarEntryType) \union {NotWritten}
    /\ dependencies \in Nat \union {NotWritten}
    /\ outlived \in [calls : SUBSET Call, interactions : Nat]

\* The child is gone once the files are written; what it was outlived by stands.
Settled ==
    /\ session = "written" => child \in {"exited", "failed"} /\ har \in Seq(HarEntryType)
    /\ \A x \in outlived.calls : Whole(x)
    /\ outlived.interactions <= interactions

IInv == RelayInv /\ SessionType /\ Settled /\ CaptureOutlivesTheApp

LEMMA TypesAgree == TypeOK <=> RelayType /\ SessionType
BY DEF TypeOK, RelayType, SessionType, CallType, Body

LEMMA InitIInv == Init => IInv
<1> SUFFICES ASSUME Init PROVE IInv
    OBVIOUS
<1> USE DEF Init, RelayInit
<1>1. NewCall \in CallType
    BY NewCaptureIsFaithful DEF NewCall, CallType
<1>2. RelayType
    <2>1. call \in [Call -> CallType] /\ crashed \in BOOLEAN
        BY <1>1
    <2>2. exchanges \in Seq(ExchangeType)
        OBVIOUS
    <2>3. sent \in [Call -> [{"request", "response"} -> Body]]
        BY NewCaptureIsFaithful
    <2> QED
        BY <2>1, <2>2, <2>3 DEF RelayType
<1>3. Captures
    BY NewCaptureIsFaithful DEF Captures, NewCall
<1>4. BodyIsWholeOrAbsent /\ RecordedOnceWhole
    BY DEF BodyIsWholeOrAbsent, RecordedOnceWhole, Whole, NewCall
<1>5. SessionType
    <2>1. outlived \in [calls : SUBSET Call, interactions : Nat]
        OBVIOUS
    <2>2. listening \in 0 .. Listeners
        BY ListenersAssumption
    <2> QED
        BY <2>1, <2>2 DEF SessionType
<1>6. Settled /\ CaptureOutlivesTheApp
    BY DEF Settled, CaptureOutlivesTheApp
<1> QED
    BY <1>2, <1>3, <1>4, <1>5, <1>6 DEF IInv, RelayInv

\* While the relays stand still, so does what is said of them.
LEMMA RelayStands ==
    ASSUME RelayInv, UNCHANGED relayVars
    PROVE  RelayInv' /\ \A y \in Call : Whole(y)' <=> Whole(y)
BY DEF RelayInv, RelayType, Captures, BodyIsWholeOrAbsent, RecordedOnceWhole, Whole, relayVars

LEMMA RelayedStep ==
    ASSUME IInv, NEW x \in Call, Relayed(x)
    PROVE  IInv'
<1>1. RelayInv'
    BY RelayStep DEF IInv, Relayed
<1>2. \A y \in Call : Whole(y) => Whole(y)' /\ sent'[y] = sent[y]
    BY WholeStays DEF IInv, Relayed
<1>3. SessionType' /\ UNCHANGED sessionVars
    BY DEF IInv, SessionType, Relayed, sessionVars
<1>4. \A y \in outlived.calls : y \in Call
    BY DEF IInv, SessionType
<1>5. Settled'
    BY <1>2, <1>3, <1>4 DEF IInv, Settled, sessionVars
<1>6. ASSUME session = "written", NEW k \in DOMAIN har
      PROVE  har[k].call \in Call
    <2>1. har \in Seq(HarEntryType)
        BY <1>6 DEF IInv, Settled
    <2>2. har[k] \in HarEntryType
        BY <1>6, <2>1
    <2> QED
        BY <2>2 DEF HarEntryType
<1>7. CaptureOutlivesTheApp'
    BY <1>2, <1>3, <1>6 DEF IInv, CaptureOutlivesTheApp, AsSent, sessionVars
<1> QED
    BY <1>1, <1>3, <1>5, <1>7 DEF IInv

\* One entry for each exchange, in order.
LEMMA HarIsWellFormed ==
    ASSUME NEW s \in Seq(ExchangeType)
    PROVE  /\ toHar(s) \in Seq(HarEntryType) /\ DOMAIN toHar(s) = DOMAIN s
           /\ \A k \in DOMAIN s : toHar(s)[k] = toHarEntry(s[k])
<1>1. \A e \in ExchangeType : toHarEntry(e) \in HarEntryType
    BY DEF toHarEntry, ExchangeType, HarEntryType
<1>2. \A k \in 1 .. Len(s) : s[k] \in ExchangeType
    OBVIOUS
<1> QED
    BY <1>1, <1>2 DEF toHar

LEMMA FinishStep ==
    ASSUME IInv, Finish
    PROVE  IInv'
<1> USE DEF Finish
<1>1. RelayInv' /\ (\A y \in Call : Whole(y)' <=> Whole(y))
    BY RelayStands DEF IInv
<1>2. exchanges \in Seq(ExchangeType) /\ interactions \in Nat
    BY DEF IInv, RelayInv, RelayType, SessionType
<1>0. toHar(exchanges) \in Seq(HarEntryType) /\ DOMAIN toHar(exchanges) = DOMAIN exchanges
      /\ \A k \in DOMAIN exchanges : toHar(exchanges)[k] = toHarEntry(exchanges[k])
    BY <1>2, HarIsWellFormed
<1>3. SessionType'
    BY <1>0, <1>2 DEF IInv, SessionType
<1>4. \A y \in outlived.calls : y \in Call
    BY DEF IInv, SessionType
<1>5. Settled'
    BY <1>0, <1>1, <1>2, <1>4 DEF IInv, Settled
<1>6. \A k \in DOMAIN exchanges : exchanges[k].call \in Call
    <2>1. \A k \in DOMAIN exchanges : exchanges[k] \in ExchangeType
        BY <1>2
    <2> QED
        BY <2>1 DEF ExchangeType
<1>7. \A y \in outlived.calls : \E k \in DOMAIN exchanges : exchanges[k].call = y
    BY <1>4 DEF IInv, RelayInv, Settled, RecordedOnceWhole
<1>8. \A k \in DOMAIN exchanges : Whole(exchanges[k].call)'
    <2>1. exchanges' = exchanges
        BY DEF relayVars
    <2>2. \A k \in DOMAIN exchanges : Whole(exchanges[k].call)
        BY <1>6 DEF IInv, RelayInv, RecordedOnceWhole
    <2> QED
        BY <1>1, <1>6, <2>1, <2>2 DEF Whole
<1>9. outlived.interactions > 0 => interactions > 0 /\ interactions >= outlived.interactions
    BY <1>2 DEF IInv, Settled, SessionType
<1>10. CaptureOutlivesTheApp'
    <2>1. \A x \in outlived'.calls : \E k \in DOMAIN har' : har'[k].call = x
        BY <1>0, <1>7 DEF toHarEntry
    <2>2. \A k \in DOMAIN har' : Whole(har[k].call)'
        BY <1>0, <1>8 DEF Whole, relayVars, toHarEntry
    <2>4. \A k \in DOMAIN har' : AsSent(har[k])'
        BY <1>0 DEF AsSent, toHarEntry, relayVars, IInv, RelayInv, BodyIsWholeOrAbsent
    <2>3. outlived'.interactions > 0 =>
              dependencies' # NotWritten /\ dependencies' >= outlived'.interactions
        BY <1>2, <1>9, NotWrittenAssumption
    <2> QED
        BY <2>1, <2>2, <2>3, <2>4 DEF CaptureOutlivesTheApp
<1> QED
    BY <1>1, <1>3, <1>5, <1>10 DEF IInv

LEMMA AppDiesStep ==
    ASSUME IInv, child = "running", AppDies
    PROVE  IInv'
<1> USE DEF AppDies
<1>1. RelayInv' /\ (\A y \in Call : Whole(y)' <=> Whole(y))
    BY RelayStands DEF IInv
<1>2. session # "written"
    BY DEF IInv, Settled
<1>3. SessionType'
    BY DEF IInv, SessionType
<1>4. Settled'
    BY <1>1, <1>2 DEF IInv, Settled, SessionType
<1>5. CaptureOutlivesTheApp'
    BY <1>2 DEF CaptureOutlivesTheApp
<1> QED
    BY <1>1, <1>3, <1>4, <1>5 DEF IInv

\* A step of the session that neither ends it nor ends the child.
LEMMA SessionStep ==
    ASSUME IInv, UNCHANGED <<relayVars, har, dependencies, outlived>>, SessionType',
           interactions' >= interactions, session' = "written" <=> session = "written",
           session = "written" => child' = child
    PROVE  IInv'
<1>1. RelayInv' /\ (\A y \in Call : Whole(y)' <=> Whole(y)) /\ call' = call
    BY RelayStands DEF IInv, relayVars
<1>2. \A y \in outlived.calls : y \in Call
    BY DEF IInv, SessionType
<1>3. Settled'
    BY <1>1, <1>2 DEF IInv, Settled, SessionType
<1>4. CaptureOutlivesTheApp'
    BY <1>1 DEF IInv, CaptureOutlivesTheApp, AsSent, Whole, relayVars
<1> QED
    BY <1>1, <1>3, <1>4 DEF IInv

LEMMA NextIInv ==
    ASSUME IInv, [Next]_vars
    PROVE  IInv'
<1>1. CASE Listen
    <2>1. SessionType'
        BY <1>1, ListenersAssumption DEF Listen, IInv, SessionType
    <2> QED
        BY <1>1, <2>1, SessionStep DEF Listen, IInv, SessionType
<1>2. CASE ListenFails
    <2>1. SessionType'
        BY <1>2 DEF ListenFails, IInv, SessionType
    <2> QED
        BY <1>2, <2>1, SessionStep DEF ListenFails, IInv, SessionType
<1>3. CASE Spawn
    <2>1. SessionType'
        BY <1>3 DEF Spawn, IInv, SessionType
    <2> QED
        BY <1>3, <2>1, SessionStep DEF Spawn, IInv, SessionType
<1>4. ASSUME NEW x \in Call, Relayed(x)
      PROVE  IInv'
    BY <1>4, RelayedStep
<1>5. CASE onInteraction
    <2>1. SessionType'
        BY <1>5 DEF onInteraction, IInv, SessionType
    <2> QED
        BY <1>5, <2>1, SessionStep DEF onInteraction, IInv, SessionType
<1>6. CASE AppExits \/ GraceElapses
    BY <1>6, AppDiesStep DEF AppExits, GraceElapses
<1>7. CASE requestStop
    <2>1. SessionType'
        BY <1>7 DEF requestStop, IInv, SessionType
    <2> QED
        BY <1>7, <2>1, SessionStep DEF requestStop, IInv, SessionType
<1>8. CASE Finish
    BY <1>8, FinishStep
<1>9. CASE UNCHANGED vars
    <2>1. SessionType'
        BY <1>9 DEF vars, sessionVars, IInv, SessionType
    <2> QED
        BY <1>9, <2>1, SessionStep DEF vars, sessionVars, IInv, SessionType
<1> QED
    BY <1>1, <1>2, <1>3, <1>4, <1>5, <1>6, <1>7, <1>8, <1>9 DEF Next

-----------------------------------------------------------------------------

LEMMA Invariant == Spec => []IInv
BY InitIInv, NextIInv, PTL DEF Spec

\* The types of the session and the relays, and with them the memory bound of
\* bodyBuffer.ts:5-10.
THEOREM TypeCorrect == Spec => []TypeOK
<1>1. IInv => TypeOK
    BY TypesAgree DEF IInv, RelayInv
<1> QED
    BY <1>1, Invariant, PTL

\* bodyBuffer.ts:12-14: a recorded body is the whole one its sender wrote, or none.
THEOREM BodyIsWholeOrAbsentHolds == Spec => []BodyIsWholeOrAbsent
<1>1. IInv => BodyIsWholeOrAbsent
    BY DEF IInv, RelayInv
<1> QED
    BY <1>1, Invariant, PTL

\* ingressProxy.ts:79-82: a call is an exchange once if relayed to the end, else never.
THEOREM RecordedOnceWholeHolds == Spec => []RecordedOnceWhole
<1>1. IInv => RecordedOnceWhole
    BY DEF IInv, RelayInv
<1> QED
    BY <1>1, Invariant, PTL

\* session.ts:193-200: the files hold what was complete when the app died, and only
\* calls that were relayed to the end.
THEOREM CaptureOutlivesTheAppHolds == Spec => []CaptureOutlivesTheApp
<1>1. IInv => CaptureOutlivesTheApp
    BY DEF IInv
<1> QED
    BY <1>1, Invariant, PTL

=============================================================================
