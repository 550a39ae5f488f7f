------------------------------ MODULE HttpRelay ------------------------------
(***************************************************************************)
(* relay() of src/record/ingressProxy.ts, src/record/egressProxy.ts and    *)
(* src/record/tls/httpsInterceptor.ts, one function in three places: a     *)
(* call is relayed to its destination while both bodies are captured, and  *)
(* becomes an exchange when both have ended.                               *)
(*                                                                         *)
(* The two bodies end in either order, as a server may answer before it    *)
(* has read the request.  Node's streams are external and appear as the    *)
(* events they give relay(): 'data', 'end' and 'error' on either body,     *)
(* 'response' and 'error' on the upstream request.  A stream whose         *)
(* destination closes is unpiped and paused ("stalled"): it emits no data  *)
(* and no end any more.  A body that ends early, a stalled answer too,     *)
(* emits 'error', which rejects its capture; relay() has no handler for    *)
(* that, and an unhandled rejection ends the process.                      *)
(***************************************************************************)
EXTENDS BodyCapture

CONSTANTS
    Call,
    MaxChunks       \* bound: chunks of all bodies in one behaviour

ASSUME MaxChunksAssumption == MaxChunks \in Nat

VARIABLES
    call,           \* per call: its two streams, its caller and its captures
    exchanges,      \* what onExchange has collected
    crashed,        \* an unhandled rejection has ended the process
    sent            \* ghost: the bodies as their senders wrote them, with lengths

relayVars == <<call, exchanges, crashed, sent>>

NewCall ==
    [request |-> "none", response |-> "none", gone |-> FALSE,
     requestBody |-> NewCapture, responseBody |-> NewCapture]

NothingSent == [body |-> <<>>, bytes |-> 0]

RelayInit ==
    /\ call = [x \in Call |-> NewCall]
    /\ exchanges = <<>>
    /\ crashed = FALSE
    /\ sent = [x \in Call |-> [side \in {"request", "response"} |-> NothingSent]]

ChunkCount ==
    LET Count[calls \in SUBSET Call] ==
            IF calls = {} THEN 0
            ELSE LET x == CHOOSE y \in calls : TRUE
                 IN  Len(sent[x].request.body) + Len(sent[x].response.body) + Count[calls \ {x}]
    IN  Count[Call]

Sent(x, side, chunk) ==
    /\ ChunkCount < MaxChunks
    /\ sent' = [sent EXCEPT ![x][side] = [body  |-> Append(@.body, chunk),
                                          bytes |-> @.bytes + chunk.bytes]]

-----------------------------------------------------------------------------

\* The HAR entry a call becomes.
Exchange(x) ==
    [call |-> x,
     requestBody   |-> TextOf(call[x].requestBody),
     requestBytes  |-> call[x].requestBody.totalBytes,
     responseBody  |-> TextOf(call[x].responseBody),
     responseBytes |-> call[x].responseBody.totalBytes]

\* relay() is entered: the upstream request is made and the body piped to it.
Arrive(x) ==
    /\ call[x].request = "none"
    /\ call' = [call EXCEPT ![x].request = "open"]
    /\ UNCHANGED <<exchanges, crashed, sent>>

RequestData(x) ==
    /\ call[x].request = "open"
    /\ \E chunk \in Chunk :
        /\ Sent(x, "request", chunk)
        /\ call' = [call EXCEPT ![x].requestBody = Captured(@, chunk)]
    /\ UNCHANGED <<exchanges, crashed>>

\* capturedRequest resolves; an answer that has ended was waiting for it.
RequestEnd(x) ==
    /\ call[x].request = "open"
    /\ call' = [call EXCEPT ![x].request = "ended"]
    /\ exchanges' = IF call[x].response = "ended" THEN Append(exchanges, Exchange(x)) ELSE exchanges
    /\ UNCHANGED <<crashed, sent>>

\* The upstream request fails before an answer: a 502 to the caller, no exchange.
UpstreamError(x) ==
    /\ call[x].request # "none" /\ call[x].response = "none"
    /\ call' = [call EXCEPT ![x].response = "failed",
                            ![x].request = IF @ = "open" THEN "stalled" ELSE @]
    /\ UNCHANGED <<exchanges, crashed, sent>>

ResponseHead(x) ==
    /\ call[x].request # "none" /\ call[x].response = "none"
    /\ call' = [call EXCEPT ![x].response = "open"]
    /\ UNCHANGED <<exchanges, crashed, sent>>

\* A chunk for a caller that has gone is captured and waits for it for ever.
ResponseData(x) ==
    /\ call[x].response = "open"
    /\ \E chunk \in Chunk :
        /\ Sent(x, "response", chunk)
        /\ call' = [call EXCEPT ![x].responseBody = Captured(@, chunk),
                                ![x].response = IF call[x].gone THEN "stalled" ELSE "open"]
    /\ UNCHANGED <<exchanges, crashed>>

\* Mutant: the answer's end makes the exchange, whatever is left of the request.
ResponseEndAtOnce(x) ==
    /\ call[x].response = "open"
    /\ call' = [call EXCEPT ![x].response = "ended"]
    /\ exchanges' = Append(exchanges, Exchange(x))
    /\ UNCHANGED <<crashed, sent>>

\* Promise.all: the exchange is made now if the request has ended.
ResponseEnd(x) ==
    /\ call[x].response = "open"
    /\ call' = [call EXCEPT ![x].response = "ended"]
    /\ exchanges' = IF call[x].request = "ended" THEN Append(exchanges, Exchange(x)) ELSE exchanges
    /\ UNCHANGED <<crashed, sent>>

\* A server that answered early closes on the rest of the request.
UpstreamCloses(x) ==
    /\ call[x].response = "ended" /\ call[x].request = "open"
    /\ call' = [call EXCEPT ![x].request = "stalled"]
    /\ UNCHANGED <<exchanges, crashed, sent>>

\* The caller closes, its request complete or no longer read.
CallerLeaves(x) ==
    /\ call[x].request \in {"ended", "stalled"} /\ call[x].response \in {"none", "open"}
    /\ ~ call[x].gone
    /\ call' = [call EXCEPT ![x].gone = TRUE,
                            ![x].response = IF @ = "open" THEN "stalled" ELSE @]
    /\ UNCHANGED <<exchanges, crashed, sent>>

\* A body breaks off: the request with its caller, the answer with its server, whether
\* anyone still waits for it or not.
BodyBreaksOff(x) ==
    /\ \/ call[x].request = "open" /\ call[x].response # "ended"
       \/ call[x].response \in {"open", "stalled"}
    /\ crashed' = TRUE
    /\ UNCHANGED <<call, exchanges, sent>>

relay(x) ==
    \/ Arrive(x) \/ RequestData(x) \/ RequestEnd(x) \/ UpstreamError(x)
    \/ ResponseHead(x) \/ ResponseData(x) \/ ResponseEnd(x)
    \/ UpstreamCloses(x) \/ CallerLeaves(x) \/ BodyBreaksOff(x)

-----------------------------------------------------------------------------
(***************************************************************************)
(* Properties.                                                             *)
(***************************************************************************)

Whole(x) == call[x].request = "ended" /\ call[x].response = "ended"

Expected(body) == IF body.bytes > MaxBytes THEN NoText ELSE Decoded(body.body)

\* bodyBuffer.ts:12-14 with ingressProxy.ts:79-82: a recorded body is the whole one
\* its sender wrote or none, never a prefix, and its length is the whole length,
\* whichever side ended first; a body is missing only if too large or not text.
BodyIsWholeOrAbsent ==
    \A k \in DOMAIN exchanges :
        LET e == exchanges[k] IN
        /\ e.requestBody = Expected(sent[e.call].request)
        /\ e.requestBytes = sent[e.call].request.bytes
        /\ e.responseBody = Expected(sent[e.call].response)
        /\ e.responseBytes = sent[e.call].response.bytes

\* A call is an exchange exactly once if both its bodies were relayed to the end,
\* and not at all otherwise: failed, abandoned and half-answered calls leave none.
RecordedOnceWhole ==
    /\ \A x \in Call : Whole(x) <=> \E k \in DOMAIN exchanges : exchanges[k].call = x
    /\ \A j, k \in DOMAIN exchanges : exchanges[j].call = exchanges[k].call => j = k

=============================================================================
