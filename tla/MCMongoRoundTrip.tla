-------------------------- MODULE MCMongoRoundTrip --------------------------
(***************************************************************************)
(* Instances of MongoRoundTrip for TLC, one setup for each hazard, so that *)
(* their bounds add up rather than multiply.                               *)
(***************************************************************************)
EXTENDS MongoRoundTrip

Ok == Field("ok", [double |-> 1])

Asking(opCode, sections, answer) == [opCode |-> opCode, sections |-> sections, answer |-> answer]

Of1(name, target) == Field(name, [string |-> target])

\* A write whose documents come in a sequence.
Insert(target, documents, answer) ==
    Asking("msg", <<[kind |-> 0, fields |-> <<Of1("insert", target)>>],
                    [kind |-> 1, identifier |-> "documents", documents |-> documents]>>, answer)

Find(filter, answer) ==
    Asking("msg", OneDocument(<<Of1("find", "users"), Field("filter", [document |-> filter])>>), answer)

Hello(opCode) == Asking(opCode, OneDocument(<<Field("hello", [int32 |-> 1])>>), <<Ok>>)

EndSessions == Asking("msg", OneDocument(<<Field("endSessions", [array |-> <<>>])>>), <<Ok>>)

Named(value) == <<Field("x", value)>>

-----------------------------------------------------------------------------
\* Two inserts that differ in what they insert, a read, and a write no server answers.
InsertA == Insert("users", <<Named([int32 |-> 1])>>, <<Ok>>)
InsertB == Insert("users", <<Named([int32 |-> 2]), Named([int32 |-> 3])>>, <<Ok>>)
FindX   == Find(Named([int32 |-> 1]), <<Ok>>)
Log     == Insert("log", <<Named([int32 |-> 0])>>, <<>>)

Outstanding ==
    [commands |-> {InsertA, InsertB, FindX, Log}, asked |-> {InsertA, FindX, Log, EndSessions},
     maxCommands |-> 3, maxCalls |-> 2, streams |-> TRUE]

\* The same command again and again, one at a time or not.
Again == [commands |-> {InsertA, FindX}, asked |-> {InsertA}, maxCommands |-> 3, maxCalls |-> 4,
          streams |-> FALSE]

\* Every type of value, in an answer.
Value ==
    {[int32 |-> 1], [int32 |-> -1], [double |-> Fraction], [double |-> NegativeZero],
     [double |-> NotANumber], [double |-> Infinite],
     [int64 |-> MaxInt32], [int64 |-> MaxInt32 + 1], [int64 |-> MaxSafe], [int64 |-> MaxSafe + 1],
     [int64 |-> -MaxInt32 - 1], [int64 |-> -MaxSafe - 1],
     [timestamp |-> MaxSafe + 2], [null |-> TRUE], [undefined |-> TRUE], [string |-> "s"],
     [boolean |-> FALSE], [binary |-> [bytes |-> "b", subtype |-> 0]],
     [binary |-> [bytes |-> "b", subtype |-> 4]], [objectId |-> "o"], [date |-> "d"],
     [regex |-> "r"], [decimal |-> "n"],
     [array |-> <<[int32 |-> 1], [array |-> <<>>], [document |-> Named([date |-> "d"])]>>],
     [document |-> Named([document |-> <<>>])],
     [document |-> Named([document |-> Named([int64 |-> MaxSafe + 1])])]}

Typed(value) ==
    LET find == Find(Named([int32 |-> 1]), <<Ok, Field("cursor", value)>>)
    IN  [commands |-> {find}, asked |-> {find}, maxCommands |-> 1, maxCalls |-> 2, streams |-> FALSE]

\* Values that are close to each other, in filters.
Filtered(v, w) ==
    [commands |-> {Find(Named(v), <<Ok>>), Find(Named(w), <<Ok>>)},
     asked |-> {Find(Named(v), <<Ok>>), Find(Named(w), <<Ok>>)},
     maxCommands |-> 2, maxCalls |-> 2, streams |-> FALSE]

Close ==
    {<<[int64 |-> MaxSafe + 1], [int64 |-> MaxSafe + 2]>>, <<[int32 |-> 5], [double |-> 5]>>,
     <<[objectId |-> "o"], [string |-> "o"]>>, <<[null |-> TRUE], [boolean |-> FALSE]>>}

\* The handshake in its old form, and a driver that compresses.
Forms ==
    [commands |-> {Hello("query"), Hello("msg"), Asking("other", FindX.sections, <<Ok>>), FindX},
     asked |-> {Hello("query"), FindX}, maxCommands |-> 2, maxCalls |-> 2, streams |-> TRUE]

\* Messages the codec cannot read, in either direction, and a date that is none.
FindUnknown == Find(Named([unknown |-> TRUE]), <<Ok>>)
FindNever   == Find(Named([int32 |-> 2]), <<Ok, Field("cursor", [document |-> Named([date |-> FarAway])])>>)

Unreadable ==
    [commands |-> {InsertA, FindUnknown, FindNever}, asked |-> {InsertA, FindUnknown, FindNever},
     maxCommands |-> 3, maxCalls |-> 2, streams |-> FALSE]

\* An answer that holds a $type of the app's own, as the validator of a collection.
ListCollections ==
    Asking("msg", OneDocument(<<Field("listCollections", [int32 |-> 1])>>),
           <<Ok, Field("validator", [document |-> <<Field("$type", [string |-> "string"])>>])>>)

Lookalike == [commands |-> {InsertA, ListCollections}, asked |-> {InsertA, ListCollections},
              maxCommands |-> 2, maxCalls |-> 2, streams |-> FALSE]

MCSetups ==
    {Outstanding, Again, Forms, Unreadable, Lookalike}
        \union {Typed(v) : v \in Value} \union {Filtered(p[1], p[2]) : p \in Close}

=============================================================================
