-------------------------- MODULE MCRedisRecording --------------------------
(***************************************************************************)
(* Instances of RedisRecording for TLC: two connections of which one       *)
(* speaks RESP3, a command that may be followed by a push, one that RESP3  *)
(* answers with a set, chunks cut anywhere.  Until that happens, and on    *)
(* the other connection, they are ordinary commands.                       *)
(***************************************************************************)
EXTENDS RedisRecording

Subscribe == [kind |-> "array", words |-> <<<<"SUBSCRIBE">>, <<"ch">>>>]

SMembers == [kind |-> "array", words |-> <<<<"SMEMBERS">>, <<"k">>>>]

MCFrame == {Subscribe, SMembers}

=============================================================================
