----------------------------- MODULE Divergence -----------------------------
(***************************************************************************)
(* DivergenceTracker of src/replay/divergence.ts, as operators over its    *)
(* state so that the Postgres replay server, which calls observe once per  *)
(* executed statement, can hold it.                                        *)
(*                                                                         *)
(* The regular expressions read a statement's text; About[sql] is what     *)
(* they find there: the first table named (or NoTable), whether it starts  *)
(* with a write verb, with SELECT or WITH, and whether it matches a        *)
(* non-deterministic pattern.  `text` is the statement as `compact` cuts   *)
(* it, which is all a warning keeps of it.                                 *)
(***************************************************************************)
EXTENDS Sequences

CONSTANTS About, NoTable

Quiet == [kind |-> "none"]

\* writtenTables after a statement: recorded writes count like any other, whatever the
\* comment above the class says of them (:43-45).
WrittenAfter(written, sql) ==
    LET s == About[sql]
    IN  IF s.write /\ s.table # NoTable THEN written \union {s.table} ELSE written

\* evaluate, most severe first: an unrecorded write, a read of a table written in
\* this run, a statement that cannot give the same result twice.
evaluate(written, sql, wasRecorded) ==
    LET s         == About[sql]
        lostWrite == s.write /\ ~ wasRecorded
        staleRead == ~ s.write /\ s.read /\ s.table \in WrittenAfter(written, sql)
    IN  IF lostWrite \/ staleRead THEN [kind |-> "stale-read", statement |-> s.text]
        ELSE IF s.volatile        THEN [kind |-> "non-deterministic", statement |-> s.text]
        ELSE Quiet

\* Mutant: every observation is kept.
WarningsRepeated(warnings, written, sql, wasRecorded) ==
    LET warning == evaluate(written, sql, wasRecorded)
    IN  IF warning = Quiet THEN warnings ELSE Append(warnings, warning)

\* observe: a warning is kept once per kind and statement text.
WarningsAfter(warnings, written, sql, wasRecorded) ==
    LET warning == evaluate(written, sql, wasRecorded)
    IN  IF warning = Quiet \/ \E k \in DOMAIN warnings : warnings[k] = warning
        THEN warnings
        ELSE Append(warnings, warning)

=============================================================================
