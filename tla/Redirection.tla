----------------------------- MODULE Redirection -----------------------------
(***************************************************************************)
(* How an app is pointed at the recorder, and later at the recording:      *)
(* src/record/dependencyEnv.ts, the part of src/record/session.ts that     *)
(* starts the servers and makes the environment of the child, and          *)
(* src/replay/session.ts.                                                  *)
(*                                                                         *)
(* An environment maps variables to addresses: a scheme, a host and a port *)
(* (NoPort if the URL has none), or Unparsed if the value is not a URL.    *)
(* Credentials and paths are left out.  Servers start one after the other, *)
(* and a start fails if the port is taken, by this session or elsewhere.   *)
(* While it is recorded the app may make the calls of OutgoingCalls, which *)
(* need the CertificateAuthority this session shares with its rivals.      *)
(***************************************************************************)
EXTENDS OutgoingCalls, Sequences, FiniteSets, SequencesExt

CONSTANTS
    Setups,         \* what may be recorded: [env, calls, roots, rivals]
    Order,          \* the variables, in the order of process.env
    Unparsed,
    ListenPorts, EgressPorts,       \* choices for --port and --egress-port
    DependencyBasePort,             \* where the ports of the dependency proxies begin
    ReplayBasePort                  \* --base-port

Port == 1 .. 65535

ASSUME SetupAssumption ==
    \A s \in Setups :
        /\ s.rivals \subseteq Session \ {This} /\ s.roots \in BOOLEAN
        /\ \A call \in s.calls : /\ call.secure \in BOOLEAN
                                 /\ call.url # NoUrl => call.url.name # NoHost

\* Object.entries lists a variable once; the URL class rejects a port above 65535.
ASSUME EnvironmentAssumption ==
    /\ Order \in Seq(Range(Order))
    /\ \A j, k \in DOMAIN Order : Order[j] = Order[k] => j = k
    /\ \A s \in Setups :
        /\ DOMAIN s.env \subseteq Range(Order)
        /\ \A variable \in DOMAIN s.env :
                s.env[variable] # Unparsed =>
                    /\ DOMAIN s.env[variable] = {"scheme", "host", "port"}
                    /\ s.env[variable].port # NoPort => s.env[variable].port \in Port

\* parsePort checks the ports of a recording; nobody checks that of --base-port.
ASSUME PortAssumption ==
    /\ ListenPorts \subseteq Port /\ EgressPorts \subseteq Port
    /\ DependencyBasePort \in Port /\ ReplayBasePort \in Port

VARIABLE_PROTOCOLS ==
    [DATABASE_URL |-> "postgres", POSTGRES_URL |-> "postgres", POSTGRESQL_URL |-> "postgres",
     PG_URL |-> "postgres", REDIS_URL |-> "redis", REDIS_URI |-> "redis", CACHE_URL |-> "redis",
     MONGO_URL |-> "mongodb", MONGODB_URI |-> "mongodb", MONGODB_URL |-> "mongodb"]

SCHEME_PROTOCOLS ==
    [postgres |-> "postgres", postgresql |-> "postgres", redis |-> "redis", rediss |-> "redis",
     mongodb |-> "mongodb"]

DEFAULT_PORTS == [postgres |-> 5432, redis |-> 6379, mongodb |-> 27017]

\* The variable a replay publishes a protocol under; its scheme has the protocol's name.
PROTOCOL_VARIABLES ==
    [postgres |-> "DATABASE_URL", redis |-> "REDIS_URL", mongodb |-> "MONGODB_URI"]

VARIABLES
    phase,          \* "starting", "recording", "recorded"; "restarting", "replaying";
                    \* "rejected" if a server could not start; "crashed" if a handler threw
    setup,          \* the member of Setups that is recorded
    env,            \* the environment of cvx
    plan,           \* what planRedirects made of it
    listenPort,     \* --port
    listening,      \* the servers of this session, by port
    app,            \* the environment of the child: [connections, PORT, HTTP_PROXY]
    protocols,      \* the protocols of the interactions recorded
    used            \* ghost: the variables through which those interactions came

given == <<setup, plan, listenPort>>
vars == <<phase, given, env, listening, app, protocols, used, callVars, certificateVars>>

-----------------------------------------------------------------------------
(***************************************************************************)
(* planRedirects.                                                          *)
(***************************************************************************)

protocolOf(variable, url) ==
    IF url.scheme \in DOMAIN SCHEME_PROTOCOLS THEN SCHEME_PROTOCOLS[url.scheme]
    ELSE VARIABLE_PROTOCOLS[variable]

Dependency(variable, url, protocol, localPort) ==
    [variable |-> variable, protocol |-> protocol, upstreamHost |-> url.host,
     upstreamPort |-> IF url.port # NoPort THEN url.port ELSE DEFAULT_PORTS[protocol],
     localPort |-> localPort]

Localised(url, port) == [url EXCEPT !.host = Loopback, !.port = port]

\* Mutants: the URL is read after it was rewritten; without its default port.
PlannedAfterRewriting(p, variable) ==
    LET url == p.env[variable]
        here == Localised(url, p.nextPort)
    IN  IF variable \notin DOMAIN VARIABLE_PROTOCOLS \/ url = Unparsed THEN p
        ELSE [env |-> [p.env EXCEPT ![variable] = here],
              dependencies |-> Append(p.dependencies,
                  Dependency(variable, here, protocolOf(variable, url), p.nextPort)),
              nextPort |-> p.nextPort + 1]

PlannedWithoutDefault(p, variable) ==
    LET url == p.env[variable]
    IN  IF variable \notin DOMAIN VARIABLE_PROTOCOLS \/ url = Unparsed THEN p
        ELSE [env |-> [p.env EXCEPT ![variable] = Localised(url, p.nextPort)],
              dependencies |-> Append(p.dependencies,
                  [Dependency(variable, url, protocolOf(variable, url), p.nextPort)
                      EXCEPT !.upstreamPort = url.port]),
              nextPort |-> p.nextPort + 1]

\* One turn of the loop: a variable that is not known, or not a URL, stays as it is.
Planned(p, variable) ==
    LET url == p.env[variable]
    IN  IF variable \notin DOMAIN VARIABLE_PROTOCOLS \/ url = Unparsed THEN p
        ELSE [env |-> [p.env EXCEPT ![variable] = Localised(url, p.nextPort)],
              dependencies |-> Append(p.dependencies,
                  Dependency(variable, url, protocolOf(variable, url), p.nextPort)),
              nextPort |-> p.nextPort + 1]

planRedirects(base, basePort) ==
    LET after[n \in 0 .. Len(Order)] ==
            IF n = 0 THEN [env |-> base, dependencies |-> <<>>, nextPort |-> basePort]
            ELSE IF Order[n] \in DOMAIN base THEN Planned(after[n - 1], Order[n])
            ELSE after[n - 1]
    IN  after[Len(Order)]

-----------------------------------------------------------------------------

NoApp == [connections |-> <<>>, PORT |-> NoPort, HTTP_PROXY |-> NoPort]

Init ==
    /\ phase = "starting"
    /\ setup \in Setups
    /\ env = setup.env
    /\ plan = planRedirects(env, DependencyBasePort)
    /\ listenPort \in ListenPorts
    /\ recorder \in [egress : EgressPorts, authority : BOOLEAN, roots : {setup.roots}]
    /\ outgoing = Idle
    /\ CertificateInit
    /\ listening = <<>>
    /\ app = NoApp
    /\ protocols = {}
    /\ used = {}

-----------------------------------------------------------------------------
(***************************************************************************)
(* runRecordSession: the dependency proxies, the two HTTP proxies, the app.*)
(***************************************************************************)

DependencyServer(d) ==
    [port |-> d.localPort,
     server |-> [proxy |-> IF d.protocol = "postgres" /\ recorder.authority THEN "postgresTls" ELSE "tcp",
                 protocol |-> d.protocol, host |-> d.upstreamHost, to |-> d.upstreamPort]]

appPort == listenPort + 1

RecordServers ==
    [k \in DOMAIN plan.dependencies |-> DependencyServer(plan.dependencies[k])] \o
    <<[port |-> listenPort,
       server |-> [proxy |-> "ingress", protocol |-> "http", host |-> Loopback, to |-> appPort]],
      [port |-> recorder.egress,
       server |-> [proxy |-> "egress", protocol |-> "http", host |-> "any", to |-> NoPort]]>>

\* listen() rejects a port above 65535, as it does one that is taken.
Started(servers, now) ==
    /\ Len(servers) > now
    /\ LET next == servers[now + 1]
       IN  next.port \in Port /\ next.port \notin DOMAIN listening
           /\ listening' = [port \in DOMAIN listening \union {next.port} |->
                                IF port = next.port THEN next.server ELSE listening[port]]

HowMany == Cardinality(DOMAIN listening)

\* isOpensslAvailable, and the CA, before anything else.
Prepare ==
    /\ phase = "starting" /\ recorder.authority
    /\ \/ Ensure(This) /\ UNCHANGED phase
       \/ OpensslFails(This) /\ phase' = "rejected"
    /\ UNCHANGED <<given, env, listening, app, protocols, used, callVars>>

Prepared == recorder.authority => at[This].stage = "ready"

Listen ==
    /\ phase = "starting" /\ Prepared
    /\ Started(RecordServers, HowMany)
    /\ UNCHANGED <<phase, given, env, app, protocols, used, callVars, certificateVars>>

\* EADDRINUSE: always if this session has the port, otherwise perhaps.
ListenFails ==
    /\ \/ phase = "starting" /\ Prepared /\ HowMany < Len(RecordServers)
       \/ phase = "restarting"
    /\ phase' = "rejected"
    /\ UNCHANGED <<given, env, listening, app, protocols, used, callVars,
                   certificateVars>>

childEnvironment ==
    [connections |-> plan.env, PORT |-> appPort, HTTP_PROXY |-> recorder.egress]

Spawn ==
    /\ phase = "starting" /\ Prepared /\ HowMany = Len(RecordServers)
    /\ phase' = "recording"
    /\ app' = childEnvironment
    /\ IF recorder.authority THEN Trust(This) ELSE UNCHANGED certificateVars
    /\ UNCHANGED <<given, env, listening, protocols, used, callVars>>

\* The app dials an address it was given, speaking what the scheme names, and the
\* server there records it if that is its protocol.  What is recorded has no variable.
Interact(variable) ==
    /\ phase = "recording" /\ at[This].stage \notin Making
    /\ variable \in DOMAIN app.connections \ used
    /\ LET url == app.connections[variable]
       IN  /\ url # Unparsed /\ url.host = Loopback /\ url.port \in DOMAIN listening
           /\ url.scheme \in DOMAIN SCHEME_PROTOCOLS
           /\ SCHEME_PROTOCOLS[url.scheme] = listening[url.port].protocol
           /\ protocols' = protocols \union {listening[url.port].protocol}
    /\ used' = used \union {variable}
    /\ UNCHANGED <<phase, given, env, listening, app, callVars, certificateVars>>

\* The app makes a call, or its call gets further; the proxy it was given is there.
Call ==
    /\ phase = "recording"
    /\ \/ \E call \in setup.calls : MakeCall(call) /\ UNCHANGED certificateVars
       \/ /\ app.HTTP_PROXY \in DOMAIN listening
          /\ listening[app.HTTP_PROXY].proxy = "egress"
          /\ CallStep(app.HTTP_PROXY)
    /\ IF outgoing'.stage = "crashed" THEN phase' = "crashed" /\ listening' = <<>>
       ELSE UNCHANGED <<phase, listening>>
    /\ UNCHANGED <<given, env, app, protocols, used, recorder>>

\* The recorder is told of the exit when openssl is not running, and ends.
AppExits ==
    /\ phase = "recording" /\ at[This].stage \notin Making
    /\ phase' = "recorded"
    /\ listening' = <<>>
    /\ app' = NoApp
    /\ outgoing' = Idle
    /\ IF recorder.authority THEN Ends(This) ELSE UNCHANGED certificateVars
    /\ UNCHANGED <<given, env, protocols, used, recorder>>

\* Another recording on the same machine.
Rival ==
    /\ \E s \in setup.rivals : Recorder(s)
    /\ UNCHANGED <<phase, given, env, listening, app, protocols, used, callVars>>

-----------------------------------------------------------------------------
(***************************************************************************)
(* runReplaySession, on this machine or one without these variables.       *)
(***************************************************************************)

StartReplay ==
    /\ phase = "recorded" /\ protocols # {}
    /\ phase' = "restarting"
    /\ env' \in {env, <<>>}
    /\ UNCHANGED <<given, listening, app, protocols, used, callVars, certificateVars>>

protocolsIn ==
    LET present(p) == IF p \in protocols THEN <<p>> ELSE <<>>
    IN  present("mongodb") \o present("postgres") \o present("redis")

ReplayPort(protocol) ==
    ReplayBasePort + (CHOOSE k \in DOMAIN protocolsIn : protocolsIn[k] = protocol) - 1

ReplayServers ==
    [k \in DOMAIN protocolsIn |->
        [port |-> ReplayPort(protocolsIn[k]),
         server |-> [proxy |-> "replay", protocol |-> protocolsIn[k], host |-> Loopback,
                     to |-> NoPort]]]

startFor ==
    /\ phase = "restarting"
    /\ Started(ReplayServers, HowMany)
    /\ UNCHANGED <<phase, given, env, app, protocols, used, callVars, certificateVars>>

ReplayAddress(protocol) == [scheme |-> protocol, host |-> Loopback, port |-> ReplayPort(protocol)]

\* process.env with one variable per protocol set.
replayEnvironment ==
    [variable \in DOMAIN env \union {PROTOCOL_VARIABLES[p] : p \in protocols} |->
        IF \E p \in protocols : PROTOCOL_VARIABLES[p] = variable
        THEN ReplayAddress(VARIABLE_PROTOCOLS[variable])
        ELSE env[variable]]

SpawnReplayed ==
    /\ phase = "restarting" /\ HowMany = Len(ReplayServers)
    /\ phase' = "replaying"
    /\ app' = [NoApp EXCEPT !.connections = replayEnvironment]
    /\ UNCHANGED <<given, env, listening, protocols, used, callVars, certificateVars>>

-----------------------------------------------------------------------------

Next ==
    \/ Prepare \/ Listen \/ ListenFails \/ Spawn
    \/ \E variable \in DOMAIN app.connections : Interact(variable)
    \/ Call \/ AppExits \/ Rival
    \/ StartReplay \/ startFor \/ SpawnReplayed

Spec == Init /\ [][Next]_vars

-----------------------------------------------------------------------------
(***************************************************************************)
(* Properties.                                                             *)
(***************************************************************************)

\* The app of `--port 65535` is told to listen on 65536: appPort need not be a port.
TypeOK ==
    /\ phase \in {"starting", "recording", "recorded", "restarting", "replaying", "rejected",
                 "crashed"}
    /\ env \in {setup.env, <<>>}
    /\ listenPort \in Port
    /\ recorder \in [egress : Port, authority : BOOLEAN, roots : BOOLEAN]
    /\ outgoing.stage \in
            {"none", "made", "relay", "connect", "handshake", "request", "done", "crashed"}
    /\ outgoing.call \in setup.calls \union {NoCall}
    /\ trusted \in [Session -> 0 .. keys]
    /\ \A s \in Session : at[s].host \in SafeHost \union {NoHost}
    /\ DOMAIN listening \subseteq Port
    /\ \A port \in DOMAIN listening :
            /\ listening[port].proxy \in {"tcp", "postgresTls", "ingress", "egress", "replay"}
            /\ listening[port].proxy \in {"tcp", "postgresTls", "ingress"} =>
                    listening[port].to = appPort \/ listening[port].to \in Port
    /\ DOMAIN app.connections \subseteq Range(Order) \union DOMAIN VARIABLE_PROTOCOLS
    /\ protocols \subseteq DOMAIN DEFAULT_PORTS
    /\ used \subseteq Range(Order)

Redirected(variable) == variable \in DOMAIN VARIABLE_PROTOCOLS /\ env[variable] # Unparsed

\* The address leads to a server of this session that goes where `url` did, to the
\* default port of its scheme if it names none.  An unknown scheme has no default.
LeadsTo(address, url) ==
    /\ address.host = Loopback /\ address.scheme = url.scheme
    /\ address.port \in DOMAIN listening
    /\ LET server == listening[address.port] IN
        /\ server.host = url.host
        /\ url.port # NoPort => server.to = url.port
        /\ url.scheme \in DOMAIN SCHEME_PROTOCOLS =>
            /\ server.protocol = SCHEME_PROTOCOLS[url.scheme]
            /\ url.port = NoPort => server.to = DEFAULT_PORTS[server.protocol]

\* dependencyEnv.ts:4-14, :65-71 and session.ts:102-107: whatever app is run, its
\* connections lead through proxies that are already listening to the servers they
\* named, everything else is untouched; and when it is replayed, each recorded
\* protocol is published at the server that replays it.
AddressesLeadToServers ==
    /\ phase = "recording" =>
        /\ \A variable \in DOMAIN env :
            IF Redirected(variable) THEN LeadsTo(app.connections[variable], env[variable])
            ELSE app.connections[variable] = env[variable]
        /\ listening[app.HTTP_PROXY].proxy = "egress"
        /\ \E port \in DOMAIN listening :
                listening[port].proxy = "ingress" /\ listening[port].to = app.PORT
    /\ phase = "replaying" =>
        \A p \in protocols :
            LET address == app.connections[PROTOCOL_VARIABLES[p]]
            IN  /\ address.port \in DOMAIN listening
                /\ listening[address.port].protocol = p /\ listening[address.port].proxy = "replay"

\* replay/README.md:12-14, "rewrites the same variables to point at servers that
\* answer from the recording": a variable that was recorded through is replayed.
SameVariablesAreReplayed ==
    phase = "replaying" =>
        \A variable \in used :
            /\ variable \in DOMAIN app.connections
            /\ app.connections[variable].port \in DOMAIN listening
            /\ listening[app.connections[variable].port].proxy = "replay"

=============================================================================
