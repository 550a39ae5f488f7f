---------------------------- MODULE OutgoingCalls ----------------------------
(***************************************************************************)
(* How a call that the recorded app makes finds its way through the        *)
(* recorder: the Node shim (src/record/nodeProxyShim.ts) or a client that  *)
(* reads the proxy variables; the egress proxy's choice of a target and    *)
(* its CONNECT (egressProxy.ts); the interceptor's choice of a certificate *)
(* and a target (tls/httpsInterceptor.ts).  The relaying of the bodies is  *)
(* HttpRelay's.  One call is under way at a time: calls share nothing but  *)
(* the certificates.                                                       *)
(*                                                                         *)
(* A host is a name or an address, written with brackets or without: only  *)
(* an IPv6 address has two ways of being written.  Paths are left out.     *)
(***************************************************************************)
EXTENDS CertificateAuthority

CONSTANTS
    This,           \* the session whose app makes the calls
    NoUrl, NoCall, Nowhere,
    Ipv4, Ipv6      \* addresses; an IPv6 address is not a safe host

ASSUME HostAssumption ==
    /\ This \in Session
    /\ Ipv4 \subseteq SafeHost /\ Ipv6 \intersect SafeHost = {} /\ NoHost \notin Ipv6

NoPort == 0
Loopback == "127.0.0.1"

VARIABLES
    outgoing,       \* the call under way: [stage, call, line, result]
    recorder        \* [egress, authority, roots]: its egress port; openssl is available,
                    \* and says where the system's roots are

callVars == <<outgoing, recorder>>

NoText == [name |-> NoHost, brackets |-> FALSE]
NoLine == [host |-> NoText, port |-> NoPort]
NoResult == [reached |-> Nowhere, recorded |-> Nowhere, named |-> NoHost, reason |-> "none"]

Idle == [stage |-> "none", call |-> NoCall, line |-> NoLine, result |-> NoResult]

DefaultPort(secure) == IF secure THEN 443 ELSE 80

OrDefault(port, default) == IF port # NoPort THEN port ELSE default

Bare(name) == [name |-> name, brackets |-> FALSE]

\* URL.hostname keeps the brackets of an IPv6 address.
Hostname(url) == [name |-> url.name, brackets |-> url.name \in Ipv6]

\* What the app asks for: the server, and the name it is to be told (Host).
Destination(call) ==
    LET name == IF call.hostname # NoHost THEN call.hostname
                ELSE IF call.url # NoUrl THEN call.url.name
                ELSE IF call.host # NoHost THEN call.host ELSE "localhost"
        named == IF call.port # NoPort \/ call.url = NoUrl THEN call.port ELSE call.url.port
        port == OrDefault(named, DefaultPort(call.secure))
    IN  [secure |-> call.secure, name |-> name, port |-> port,
         told |-> IF call.header # NoUrl THEN call.header ELSE [name |-> name, port |-> port]]

At(stage, line) == outgoing' = [outgoing EXCEPT !.stage = stage, !.line = line]

Done(result) == outgoing' = [outgoing EXCEPT !.stage = "done", !.result = result]

Direct(call) == Done([NoResult EXCEPT !.reached = Destination(call)])

-----------------------------------------------------------------------------
(***************************************************************************)
(* In the app: nodeProxyShim.ts.                                           *)
(***************************************************************************)

\* Mutant: the default port of every scheme is 80.
ToOptions80(call) ==
    [hostname |-> IF call.hostname # NoHost \/ call.url = NoUrl THEN Bare(call.hostname)
                  ELSE Hostname(call.url),
     host |-> Bare(call.host),
     port |-> IF call.port # NoPort \/ call.url = NoUrl THEN call.port
              ELSE OrDefault(call.url.port, 80)]

\* (url), (url, options) or (options): options override the URL, name by name.
toOptions(call) ==
    [hostname |-> IF call.hostname # NoHost \/ call.url = NoUrl THEN Bare(call.hostname)
                  ELSE Hostname(call.url),
     host |-> Bare(call.host),
     port |-> IF call.port # NoPort \/ call.url = NoUrl THEN call.port
              ELSE OrDefault(call.url.port, DefaultPort(call.secure))]

hostOf(options) == IF options.hostname # NoText THEN options.hostname ELSE options.host

\* Neither a call for https nor one to the recorder itself.
shouldProxy(call, egress) ==
    LET host == hostOf(toOptions(call)) IN
    /\ ~ call.secure
    /\ host # NoText
    /\ ~ (host.name \in {Loopback, "localhost"} /\ OrDefault(toOptions(call).port, 80) = egress)

\* http.request, http.get: the absolute URL goes into the request line.  Node itself
\* refuses https in the http module.
HttpRequest(egress) ==
    LET call == outgoing.call
        options == toOptions(call)
    IN  /\ outgoing.stage = "made" /\ call.client = "node" /\ call.module = "http"
        /\ IF shouldProxy(call, egress)
           THEN At("relay", [host |-> hostOf(options), port |-> OrDefault(options.port, 80)])
           ELSE IF call.secure THEN Done(NoResult) ELSE Direct(call)

\* https.request, https.get: openTunnel asks for a tunnel to the host.
HttpsRequest ==
    LET call == outgoing.call
        options == toOptions(call)
    IN  /\ outgoing.stage = "made" /\ call.client = "node" /\ call.module = "https"
        /\ IF hostOf(options) = NoText THEN Direct(call)
           ELSE At("connect", [host |-> hostOf(options), port |-> OrDefault(options.port, 443)])

\* Any other client reads HTTP_PROXY or HTTPS_PROXY, and writes addresses as URLs do.
ProxiedRequest ==
    LET to == Destination(outgoing.call) IN
    /\ outgoing.stage = "made" /\ outgoing.call.client = "other"
    /\ At(IF to.secure THEN "connect" ELSE "relay", [host |-> Hostname(to), port |-> to.port])

-----------------------------------------------------------------------------
(***************************************************************************)
(* In the recorder: egressProxy.ts.                                        *)
(***************************************************************************)

\* The shim replaces the Host header by that of the request line.
told == IF outgoing.call.client = "node"
        THEN [name |-> outgoing.line.host.name, port |-> outgoing.line.port]
        ELSE Destination(outgoing.call).told

\* relay(): the target is the URL of the request line.  new URL throws for an IPv6
\* address without brackets, which ends the recorder; with brackets the target does not
\* resolve: a 502.
Relay ==
    LET line == outgoing.line
        target == [secure |-> FALSE, name |-> line.host.name, port |-> line.port, told |-> told]
    IN  /\ outgoing.stage = "relay"
        /\ IF line.host.name \in Ipv6 /\ ~ line.host.brackets
           THEN At("crashed", line)
           ELSE Done(IF line.host.brackets THEN NoResult
                     ELSE [NoResult EXCEPT !.reached = target, !.recorded = target])

\* tunnel(): the host is what is before the first colon.  An IPv6 address has colons:
\* "[", which does not resolve, or nothing, which is this machine.
Tunnel ==
    LET line == outgoing.line
        server(name, port) == [Destination(outgoing.call) EXCEPT !.name = name, !.port = port]
        reached == IF line.host.brackets THEN Nowhere
                   ELSE IF line.host.name \in Ipv6 THEN server("localhost", 443)
                   ELSE server(line.host.name, line.port)
    IN  /\ outgoing.stage = "connect" /\ ~ recorder.authority
        /\ Done([NoResult EXCEPT !.reached = reached, !.reason = "opaque",
                                 !.named = IF line.host.name \in Ipv6 THEN NoHost
                                           ELSE line.host.name])

\* handleConnect: the tunnel is granted, and its target not kept.
handleConnect ==
    /\ outgoing.stage = "connect" /\ recorder.authority
    /\ At("handshake", outgoing.line)

-----------------------------------------------------------------------------
(***************************************************************************)
(* In the recorder: tls/httpsInterceptor.ts.                               *)
(***************************************************************************)

\* The shim names the host whatever it is; no other client sends an address as a name.
sni == IF outgoing.call.client = "other" /\ outgoing.line.host.name \in Ipv4 \union Ipv6
       THEN NoText ELSE outgoing.line.host

isSafeHostname(host) == ~ host.brackets /\ host.name \in SafeHost

NotIntercepted(reason) ==
    Done([NoResult EXCEPT !.named = IF sni = NoText THEN "unknown" ELSE sni.name,
                          !.reason = reason])

\* NODE_EXTRA_CA_CERTS always names the CA, and the shim's handshake takes no TLS
\* options from the call; the other variables are set only if there are system roots.
trustsTheRecorder(call) == call.client = "node" \/ (~ call.pinned /\ recorder.roots)

\* No certificate for a client that names no host, nor for an unusual name.
NoCertificate ==
    /\ outgoing.stage = "handshake" /\ ~ isSafeHostname(sni)
    /\ NotIntercepted("no certificate")
    /\ UNCHANGED certificateVars

\* SNICallback: leafCertificateFor, which takes a while, may throw, and may be a hit.
SNICallback ==
    /\ outgoing.stage = "handshake" /\ isSafeHostname(sni)
    /\ leafCertificateFor(This, sni.name)
    /\ UNCHANGED outgoing

Certify ==
    /\ outgoing.stage = "handshake"
    /\ MakeLeaf(This)
    /\ UNCHANGED outgoing

CertifyFails ==
    /\ outgoing.stage = "handshake"
    /\ OpensslFails(This)
    /\ NotIntercepted("openssl")

\* A key that is not the certificate's is no secure context, and an app checks the rest.
Handshake ==
    /\ outgoing.stage = "handshake" /\ isSafeHostname(sni)
    /\ LET leaf == leafCache[This][sni.name]
       IN  /\ leaf # NotCached
           /\ IF leaf.key = leaf.crt.key /\ leaf.crt.signer = trusted[This]
                    /\ trustsTheRecorder(outgoing.call)
              THEN At("request", outgoing.line) ELSE NotIntercepted("refused")
    /\ UNCHANGED certificateVars

\* Mutant: the port of a decrypted request is always that of https.
targetOf443 == [secure |-> TRUE, name |-> sni.name, port |-> 443,
                told |-> Destination(outgoing.call).told]

\* The host is the one named in the handshake, the port that of the Host header.
targetOf == [secure |-> TRUE, name |-> sni.name, port |-> Destination(outgoing.call).told.port,
             told |-> Destination(outgoing.call).told]

Intercepted ==
    /\ outgoing.stage = "request"
    /\ Done([NoResult EXCEPT !.reached = targetOf, !.recorded = targetOf])

-----------------------------------------------------------------------------

\* The app makes its next call.
MakeCall(call) ==
    /\ outgoing.stage \in {"none", "done"}
    /\ outgoing' = [Idle EXCEPT !.stage = "made", !.call = call]

\* A step of the call under way, with the recorder listening at port egress.
CallStep(egress) ==
    \/ (HttpRequest(egress) \/ HttpsRequest \/ ProxiedRequest) /\ UNCHANGED certificateVars
    \/ (Relay \/ Tunnel \/ handleConnect \/ Intercepted) /\ UNCHANGED certificateVars
    \/ NoCertificate \/ SNICallback \/ Certify \/ CertifyFails \/ Handshake

-----------------------------------------------------------------------------
(***************************************************************************)
(* Properties.                                                             *)
(***************************************************************************)

\* A call the recorder can be expected to follow: it names its host, not by an IPv6
\* address, is not to the recorder itself, uses the module of its scheme, and a Host
\* header of its own names the port.
Usual(call) ==
    LET to == Destination(call) IN
    /\ call.hostname # NoHost \/ call.url # NoUrl \/ call.host # NoHost
    /\ to.name \notin Ipv6
    /\ to.port # recorder.egress
    /\ call.client = "node" => /\ call.module = IF to.secure THEN "https" ELSE "http"
                               /\ ~ to.secure => call.header = NoUrl
    /\ to.told.port = to.port

\* A usual call reached the server it asked for, and is recorded under its address; or it
\* is https that could not be read, and the host is named.
Captured(call, r) ==
    LET to == Destination(call) IN
    CASE r.reason = "none"   -> r.reached = to /\ r.recorded = to
      [] r.reason = "opaque" -> to.secure /\ ~ recorder.authority
                                /\ r.reached = to /\ r.named = to.name
      [] OTHER               ->
            /\ to.secure /\ recorder.authority /\ r.reached = Nowhere
            /\ \/ r.named = to.name
               \/ call.client = "other" /\ to.name \in Ipv4 /\ r.named = "unknown"
            /\ r.reason = "refused" => ~ trustsTheRecorder(call) \/ contended

\* nodeProxyShim.ts:44-48, egressProxy.ts:10-13 and httpsInterceptor.ts:138-143: however an
\* app makes a usual call, it is captured as above, told the name it was to be told; an
\* app that trusts the recorder is refused only if openssl fails or two sessions made
\* the same files.  No call at all is recorded under an address other than that of the
\* server it reached.
CallsAreCaptured ==
    outgoing.stage = "done" =>
        /\ outgoing.result.recorded \in {Nowhere, outgoing.result.reached}
        /\ Usual(outgoing.call) => Captured(outgoing.call, outgoing.result)

=============================================================================
