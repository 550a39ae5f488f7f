---------------------------- MODULE MCRedirection ----------------------------
(***************************************************************************)
(* An instance of Redirection for TLC: an environment of up to three of    *)
(* four variables, a variable nobody knows, URLs with and without a port,  *)
(* of a scheme the variable's name contradicts, of an unknown scheme, and  *)
(* none.  Some of the ports the user may choose collide.                   *)
(*                                                                         *)
(* An app that makes outgoing calls makes one, any number of times, and    *)
(* has no connections: BOUND.  The Node calls are all there are of a URL,  *)
(* options, or both, with names and addresses; another client writes a     *)
(* URL.  A rival recording runs beside one https call.                     *)
(***************************************************************************)
EXTENDS Redirection

Url(scheme, host, port) == [scheme |-> scheme, host |-> host, port |-> port]

MCOrder == <<"CACHE_URL", "DATABASE_URL", "OTHER_URL", "REDIS_URL">>

MCChoices ==
    [CACHE_URL    |-> {Url("redis", "a", NoPort), Url("postgres", "a", 5433)},
     DATABASE_URL |-> {Url("postgres", "db", NoPort), Url("mongodb", "db", NoPort),
                       Url("mysql", "db", 3306), Unparsed},
     OTHER_URL    |-> {Url("redis", "c", 6379)},
     REDIS_URL    |-> {Url("rediss", "b", 6380)}]

MCEnvironments ==
    UNION {{e \in [names -> UNION {MCChoices[v] : v \in names}] :
                \A v \in names : e[v] \in MCChoices[v]} : names \in SUBSET DOMAIN MCChoices}

MCSafeHost == {"api", "localhost", "10.0.0.1"}

Place(name, port) == [name |-> name, port |-> port]

MCNodeCalls ==
    [client : {"node"}, module : {"http", "https"}, secure : BOOLEAN, pinned : BOOLEAN,
     url : {NoUrl, Place("api", NoPort), Place("api", 8080), Place("::1", 8080)},
     hostname : {NoHost, "10.0.0.1"}, host : {NoHost, "localhost", "::1"},
     port : {NoPort, 16789}, header : {NoUrl, Place("web", 443), Place("web", 8080)}]

MCOtherCalls ==
    [client : {"other"}, module : {"none"}, secure : BOOLEAN, pinned : BOOLEAN,
     url : {Place("api", NoPort), Place("api", 8080), Place("::1", 8080), Place("10.0.0.1", NoPort)},
     hostname : {NoHost}, host : {NoHost}, port : {NoPort}, header : {NoUrl, Place("web", 8080)}]

\* The https module is for https only, and only a TLS client that is not Node may be
\* pinned.
MCCalls ==
    {call \in MCNodeCalls \union MCOtherCalls :
        /\ call.module = "https" => call.secure
        /\ call.pinned => call.secure /\ call.client = "other" /\ call.header = NoUrl}

HttpsCall ==
    [client |-> "node", module |-> "https", secure |-> TRUE, pinned |-> FALSE,
     url |-> Place("api", NoPort), hostname |-> NoHost, host |-> NoHost, port |-> NoPort,
     header |-> NoUrl]

Setup(variables, calls, roots, rivals) ==
    [env |-> variables, calls |-> calls, roots |-> roots, rivals |-> rivals]

MCSetups ==
    {Setup(variables, {}, TRUE, {}) : variables \in MCEnvironments}
        \union {Setup(<<>>, {call}, roots, {}) : call \in MCCalls, roots \in BOOLEAN}
        \union {Setup(<<>>, {HttpsCall}, TRUE, Session \ {This})}

\* A Postgres database and a cache, under the names many hosts give them.
MCUsualSetups ==
    {Setup([DATABASE_URL |-> Url("postgres", "db", NoPort), CACHE_URL |-> Url("redis", "a", NoPort)],
           {}, TRUE, {})}

=============================================================================
