---------------------------- MODULE RecordSession ----------------------------
(***************************************************************************)
(* runRecordSession of src/record/session.ts: start the listeners, spawn   *)
(* the app, relay until it exits, write the capture.  The calls relayed    *)
(* meanwhile are HttpRelay's; the interactions of the dependency proxies   *)
(* are counted, their making is modelled by the recording modules.         *)
(*                                                                         *)
(* The app is external: it exits on its own, on SIGTERM if it honours it,  *)
(* and on SIGKILL.  Its death and the 'exit' event that tells the recorder *)
(* of it are two steps, and what its sockets still held is read before,    *)
(* between or after them.                                                  *)
(***************************************************************************)
EXTENDS HttpRelay

CONSTANTS
    Listeners,          \* how many servers the session starts
    MaxInteractions,    \* bound: dependency interactions in one behaviour
    NotWritten          \* what a file holds before it is written

ASSUME ListenersAssumption == Listeners \in Nat /\ MaxInteractions \in Nat

ASSUME NotWrittenAssumption == NotWritten \notin Nat

VARIABLES
    session,        \* "starting", "recording", "written" or "rejected"
    listening,      \* servers listening
    child,          \* "none", "running", "exited", or "failed" to spawn
    stopAsked,      \* SIGTERM has been passed on
    forceTimer,     \* SHUTDOWN_GRACE_MS is running
    interactions,   \* dependencyInteractions, counted
    har,            \* outputPath
    dependencies,   \* dependencyPath
    outlived        \* ghost: what had been captured whole when the app died

sessionVars ==
    <<session, listening, child, stopAsked, forceTimer, interactions, har, dependencies, outlived>>
vars == <<relayVars, sessionVars>>

Init ==
    /\ RelayInit
    /\ session = "starting"
    /\ listening = 0
    /\ child = "none"
    /\ stopAsked = FALSE
    /\ forceTimer = FALSE
    /\ interactions = 0
    /\ har = NotWritten
    /\ dependencies = NotWritten
    /\ outlived = [calls |-> {}, interactions |-> 0]

-----------------------------------------------------------------------------
(***************************************************************************)
(* Starting: one server after another, then the app.                       *)
(***************************************************************************)

Listen ==
    /\ session = "starting" /\ listening < Listeners
    /\ listening' = listening + 1
    /\ UNCHANGED <<relayVars, session, child, stopAsked, forceTimer, interactions, har,
                   dependencies, outlived>>

\* A port is taken: the session rejects, and what listens already stays so.
ListenFails ==
    /\ session = "starting" /\ listening < Listeners
    /\ session' = "rejected"
    /\ UNCHANGED <<relayVars, listening, child, stopAsked, forceTimer, interactions, har,
                   dependencies, outlived>>

Spawn ==
    /\ session = "starting" /\ listening = Listeners
    /\ session' = "recording"
    /\ child' \in {"running", "failed"}
    /\ UNCHANGED <<relayVars, listening, stopAsked, forceTimer, interactions, har, dependencies,
                   outlived>>

-----------------------------------------------------------------------------
(***************************************************************************)
(* Recording.                                                              *)
(***************************************************************************)

\* The relays, also after the files are written: nothing stops those in flight.
Relayed(x) == session \in {"recording", "written"} /\ relay(x) /\ UNCHANGED sessionVars

onInteraction ==
    /\ session \in {"recording", "written"} /\ interactions < MaxInteractions
    /\ interactions' = interactions + 1
    /\ UNCHANGED <<relayVars, session, listening, child, stopAsked, forceTimer, har, dependencies,
                   outlived>>

\* The app is gone, and its exit event is on its way.
AppDies ==
    /\ child' = "exited"
    /\ outlived' = [calls |-> {x \in Call : Whole(x)}, interactions |-> interactions]
    /\ UNCHANGED <<relayVars, session, listening, stopAsked, forceTimer, interactions, har,
                   dependencies>>

AppExits == child = "running" /\ AppDies

\* Mutant: SIGTERM is passed on and that is all.
RequestStopOnly ==
    /\ session = "recording"
    /\ stopAsked' = TRUE
    /\ UNCHANGED <<relayVars, session, listening, child, forceTimer, interactions, har,
                   dependencies, outlived>>

\* SIGINT or SIGTERM: an exit event on its way does not stop the handler.
requestStop ==
    /\ session = "recording"
    /\ stopAsked' = TRUE
    /\ forceTimer' = TRUE
    /\ UNCHANGED <<relayVars, session, listening, child, interactions, har, dependencies, outlived>>

\* SIGKILL, which no app survives.
GraceElapses == forceTimer /\ child = "running" /\ AppDies

-----------------------------------------------------------------------------
(***************************************************************************)
(* The end: releaseSignals, stopAll and the files, in one go.  The call of *)
(* an exchange stands for all of an entry that is not a body; text and     *)
(* postData are absent where there is NoText.                              *)
(***************************************************************************)

toHarEntry(e) ==
    [call     |-> e.call,
     request  |-> [bodySize |-> e.requestBytes, postData |-> e.requestBody],
     response |-> [bodySize |-> e.responseBytes, text |-> e.responseBody]]

toHar(entries) == [k \in DOMAIN entries |-> toHarEntry(entries[k])]

\* Mutant: the session ends with the signal.
FinishAtTheSignal ==
    /\ session = "recording" /\ (child \in {"exited", "failed"} \/ stopAsked)
    /\ session' = "written"
    /\ forceTimer' = FALSE
    /\ har' = toHar(exchanges)
    /\ dependencies' = IF interactions > 0 THEN interactions ELSE dependencies
    /\ UNCHANGED <<relayVars, listening, child, stopAsked, interactions, outlived>>

Finish ==
    /\ session = "recording" /\ child \in {"exited", "failed"}
    /\ session' = "written"
    /\ forceTimer' = FALSE
    /\ har' = toHar(exchanges)
    /\ dependencies' = IF interactions > 0 THEN interactions ELSE dependencies
    /\ UNCHANGED <<relayVars, listening, child, stopAsked, interactions, outlived>>

-----------------------------------------------------------------------------

Next ==
    /\ ~ crashed
    /\ \/ Listen \/ ListenFails \/ Spawn
       \/ \E x \in Call : Relayed(x)
       \/ onInteraction \/ AppExits \/ requestStop \/ GraceElapses \/ Finish

\* The event loop runs a timer that is due and delivers the exit event.
Fairness == WF_vars(~ crashed /\ GraceElapses) /\ WF_vars(~ crashed /\ Finish)

Spec == Init /\ [][Next]_vars /\ Fairness

-----------------------------------------------------------------------------
(***************************************************************************)
(* Properties.                                                             *)
(***************************************************************************)

CaptureType ==
    [retained : Seq(Chunk), retainedBytes : 0 .. MaxBytes, totalBytes : Nat, truncated : BOOLEAN]

Text == Seq(Chunk) \union {NoText}

ExchangeType ==
    [call : Call, requestBody : Text, requestBytes : Nat, responseBody : Text, responseBytes : Nat]

HarEntryType ==
    [call : Call,
     request : [bodySize : Nat, postData : Text], response : [bodySize : Nat, text : Text]]

\* retainedBytes: bodyBuffer.ts:5-10, no body costs more memory than the limit.
TypeOK ==
    /\ call \in [Call -> [request : {"none", "open", "ended", "stalled"},
                          response : {"none", "failed", "open", "ended", "stalled"},
                          gone : BOOLEAN,
                          requestBody : CaptureType, responseBody : CaptureType]]
    /\ exchanges \in Seq(ExchangeType)
    /\ crashed \in BOOLEAN
    /\ sent \in [Call -> [{"request", "response"} -> [body : Seq(Chunk), bytes : Nat]]]
    /\ session \in {"starting", "recording", "written", "rejected"}
    /\ listening \in 0 .. Listeners
    /\ child \in {"none", "running", "exited", "failed"}
    /\ stopAsked \in BOOLEAN /\ forceTimer \in BOOLEAN
    /\ interactions \in Nat
    /\ har \in Seq(HarEntryType) \union {NotWritten}
    /\ dependencies \in Nat \union {NotWritten}
    /\ outlived \in [calls : SUBSET Call, interactions : Nat]

AsSent(entry) ==
    LET body == sent[entry.call]
    IN  /\ entry.request.postData = Expected(body.request)
        /\ entry.request.bodySize = body.request.bytes
        /\ entry.response.text = Expected(body.response)
        /\ entry.response.bodySize = body.response.bytes

\* session.ts:193-200: the files hold every call and interaction completed before
\* the app died, those completed between the request to stop and its death
\* included, and no call the recorder did not relay to the end; exchange.ts:19-24: an
\* entry has the bodies as they were sent, or none, and the sizes they were sent with.
CaptureOutlivesTheApp ==
    session = "written" =>
        /\ \A x \in outlived.calls : \E k \in DOMAIN har : har[k].call = x
        /\ \A k \in DOMAIN har : Whole(har[k].call) /\ AsSent(har[k])
        /\ outlived.interactions > 0 =>
               dependencies # NotWritten /\ dependencies >= outlived.interactions

\* session.ts:190-200: a recorder asked to stop writes its files in the end, even if
\* the app ignores SIGTERM, unless it crashes first.
StopIsHonoured == stopAsked ~> (session = "written" \/ crashed)

\* session.ts:224-225, "Either way the capture is written before returning."
CaptureIsWritten == crashed /\ exchanges # <<>> => har # NotWritten

=============================================================================
