--------------------------- MODULE PostgresDriver ---------------------------
(***************************************************************************)
(* What a Postgres driver sends, which the recorder and the replay server  *)
(* both read: the frames of a round trip, and the rules a driver keeps     *)
(* about the names of prepared statements.  External: modelled from the    *)
(* frames src/record/protocols/postgresRecorder.ts handles.                *)
(***************************************************************************)
EXTENDS Sequences

CONSTANTS
    NoParams,       \* the empty parameter list of a simple query
    Unnamed,        \* the unnamed prepared statement
    Unparsed        \* what a name stands for before it is parsed

FramesOf(trip) ==
    CASE trip.kind = "simple" -> <<[type |-> "Q", sql |-> trip.sql]>>
      [] trip.kind = "close"  -> <<[type |-> "C", name |-> trip.name], [type |-> "S"]>>
      [] trip.kind = "extended" ->
            (IF trip.parse THEN <<[type |-> "P", name |-> trip.name, sql |-> trip.sql]>>
                           ELSE <<>>)
            \o <<[type |-> "B", name |-> trip.name, params |-> trip.params]>>
            \o (IF trip.describe THEN <<[type |-> "D"]>> ELSE <<>>)
            \o <<[type |-> "E"], [type |-> "S"]>>

\* A driver binds a name only while it stands for the statement it means, and
\* parses a name it does not hold.
Sendable(known, trip) ==
    CASE trip.kind = "simple" -> TRUE
      [] trip.kind = "close"  -> known[trip.name] # Unparsed
      [] trip.kind = "extended" ->
            IF trip.parse THEN trip.name = Unnamed \/ known[trip.name] = Unparsed
                          ELSE known[trip.name] = trip.sql

\* A simple query ends the unnamed statement.
KnownAfter(known, trip) ==
    CASE trip.kind = "simple"   -> [known EXCEPT ![Unnamed] = Unparsed]
      [] trip.kind = "close"    -> [known EXCEPT ![trip.name] = Unparsed]
      [] trip.kind = "extended" -> [known EXCEPT ![trip.name] = trip.sql]

\* The statements a round trip runs: one, or none for a close.
Runs(trip) ==
    CASE trip.kind = "simple"   -> <<<<trip.sql, NoParams>>>>
      [] trip.kind = "close"    -> <<>>
      [] trip.kind = "extended" -> <<<<trip.sql, trip.params>>>>

=============================================================================
