-------------------------- MODULE MCPostgresReplay --------------------------
(***************************************************************************)
(* Instances of PostgresReplay for TLC.  The recording holds a counter     *)
(* read twice with one parameter list and once with another, a write to    *)
(* its table, and a volatile read of the table that a write not recorded   *)
(* is made to.                                                             *)
(***************************************************************************)
EXTENDS PostgresReplay

CONSTANTS p1, p2, p3, s0, s1

MCAbout ==
    [none   |-> [table |-> NoTable, write |-> FALSE, read |-> FALSE, volatile |-> FALSE, text |-> ""],
     count  |-> [table |-> "hits", write |-> FALSE, read |-> TRUE,
                 volatile |-> FALSE, text |-> "select hits"],
     hit    |-> [table |-> "hits", write |-> TRUE, read |-> FALSE,
                 volatile |-> TRUE, text |-> "insert hits"],
     purge  |-> [table |-> "logs", write |-> TRUE, read |-> FALSE,
                 volatile |-> FALSE, text |-> "delete logs"],
     report |-> [table |-> "logs", write |-> FALSE,
                 read |-> TRUE, volatile |-> TRUE, text |-> "select logs join hits"]]

MCSql == DOMAIN MCAbout

Row(value) == [rows |-> <<value>>, error |-> FALSE]
Failure    == [rows |-> <<>>, error |-> TRUE]

MCInteractions ==
    << [protocol |-> "postgres", sql |-> "count",  params |-> p1, result |-> Row(1)],
       [protocol |-> "redis",    sql |-> "purge",  params |-> p3, result |-> Row(0)],
       [protocol |-> "postgres", sql |-> "count",  params |-> p2, result |-> Row(7)],
       [protocol |-> "postgres", sql |-> "hit",    params |-> p3, result |-> Failure],
       [protocol |-> "postgres", sql |-> "count",  params |-> p1, result |-> Row(2)],
       [protocol |-> "postgres", sql |-> "report", params |-> p3, result |-> Row(3)] >>

MCResult == {MCInteractions[k].result : k \in DOMAIN MCInteractions}
MCExact  == FiledExact(MCInteractions)
MCLoose  == FiledLoose(MCInteractions)

MCNoRecording == [rows |-> <<>>, error |-> TRUE, missing |-> TRUE]

Simple(sql) == [kind |-> "simple", sql |-> sql]
Extended(name, sql, params, parse, describe) ==
    [kind |-> "extended", name |-> name, sql |-> sql, params |-> params,
     parse |-> parse, describe |-> describe]

\* A counter read through a named statement, parsed once and reused, described or
\* not; the other reads and the writes through the unnamed one or a simple query.
MCRoundTrip ==
    {Extended(s1, "count", p1, parse, describe) : parse, describe \in BOOLEAN}
        \union {Extended(s0, "count", p3, TRUE, TRUE), Extended(s0, "report", p3, TRUE, FALSE),
                Extended(s1, "report", p3, TRUE, FALSE),
                Simple("hit"), Simple("purge"), [kind |-> "close", name |-> s1]}

=============================================================================
