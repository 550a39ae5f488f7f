------------------------- MODULE MCPostgresRecording -------------------------
(***************************************************************************)
(* Instances of PostgresRecording for TLC: a named statement parsed once   *)
(* and run again with other parameters, a write through the unnamed one, a *)
(* simple query, and a close.                                              *)
(***************************************************************************)
EXTENDS PostgresRecording

CONSTANTS p0, p1, s0, s1

MCRoundTrip ==
    {[kind |-> "extended", name |-> s1, sql |-> "count", params |-> p1,
      parse |-> parse, describe |-> ~ parse] : parse \in BOOLEAN}
        \union {[kind |-> "extended", name |-> s0, sql |-> "hit", params |-> p0,
                 parse |-> TRUE, describe |-> FALSE],
                [kind |-> "simple", sql |-> "count"],
                [kind |-> "close", name |-> s1]}

MCGarbled ==
    [cut \in Frame \X Frame |->
        IF cut[2].type = "E" THEN [type |-> "Q", sql |-> "hit"] ELSE [type |-> "D"]]

=============================================================================
