-------------------------------- MODULE Bson --------------------------------
(***************************************************************************)
(* src/record/protocols/bson.ts: BSON documents as JavaScript values, the  *)
(* JSON of the recording in between, and JavaScript values as BSON.        *)
(*                                                                         *)
(* A BSON value is a record of one field, its type: [int32 |-> 5].  So is  *)
(* a JavaScript value: [number |-> 5].  A document and an object are       *)
(* sequences of fields, which have a name and a value.  Names are not      *)
(* numerals, which JavaScript would put first.  The width of integers is a *)
(* parameter; strings and payloads are whole.                              *)
(***************************************************************************)
EXTENDS Integers, Sequences, SequencesExt

CONSTANTS
    MaxInt32,       \* 2^31 - 1 in the code
    MaxSafe,        \* Number.MAX_SAFE_INTEGER, 2^53 - 1 in the code
    Fraction, NotANumber, Infinite, NegativeZero,   \* doubles that are not integers, and -0
    FarAway         \* a date that a JavaScript Date cannot hold

ASSUME WidthAssumption == MaxInt32 \in Nat /\ MaxSafe \in Nat /\ MaxInt32 + 1 < MaxSafe

Is(v, type) == type \in DOMAIN v

Field(name, value) == [name |-> name, value |-> value]

Names(fields) == {fields[k].name : k \in DOMAIN fields}

Has(fields, name) == name \in Names(fields)

Get(fields, name) == fields[CHOOSE k \in DOMAIN fields : fields[k].name = name].value

Number(n) == [number |-> n]
Text(s)   == [string |-> s]
Null      == [null |-> TRUE]

\* A TaggedValue is an object like any other.
Tagged(type, payload) == [object |-> <<Field("$type", Text(type)), Field("value", [payload |-> payload])>>]

\* object[name] = value: a name that is there keeps its place.
Assigned(fields, f) ==
    IF Has(fields, f.name)
    THEN [k \in DOMAIN fields |-> IF fields[k].name = f.name THEN f ELSE fields[k]]
    ELSE Append(fields, f)

-----------------------------------------------------------------------------
(***************************************************************************)
(* Decoding.                                                               *)
(***************************************************************************)

\* A value and the values in it, for a BSON value as for a JavaScript value.
RECURSIVE Within(_)
Within(v) ==
    {v} \union (IF Is(v, "document") THEN UNION {Within(v.document[k].value) : k \in DOMAIN v.document}
                ELSE IF Is(v, "array") THEN UNION {Within(v.array[k]) : k \in DOMAIN v.array}
                ELSE IF Is(v, "object") THEN UNION {Within(v.object[k].value) : k \in DOMAIN v.object}
                ELSE {})

\* What decodeDocument throws at: a type it does not know, and toISOString of such a date.
Readable(v) ==
    \A w \in Within(v) : ~ Is(w, "unknown") /\ (Is(w, "date") => w.date # FarAway)

FromInt64(n) == IF n \in -MaxSafe .. MaxSafe THEN Number(n) ELSE Tagged("long", n)

\* readElement.  decodeDocument is its case of a document.
RECURSIVE readElement(_)
readElement(v) ==
    CASE Is(v, "document") ->
            [object |-> FoldLeft(Assigned, <<>>,
                [k \in DOMAIN v.document |-> Field(v.document[k].name, readElement(v.document[k].value))])]
      [] Is(v, "array")     -> [array |-> [k \in DOMAIN v.array |-> readElement(v.array[k])]]
      [] Is(v, "double")    -> Number(v.double)
      [] Is(v, "int32")     -> Number(v.int32)
      [] Is(v, "int64")     -> FromInt64(v.int64)
      [] Is(v, "timestamp") -> FromInt64(v.timestamp)
      [] Is(v, "null") \/ Is(v, "undefined") -> Null
      [] Is(v, "string") \/ Is(v, "boolean") -> v
      [] Is(v, "binary")    -> Tagged("binary", v.binary.bytes)
      [] Is(v, "objectId")  -> Tagged("objectId", v.objectId)
      [] Is(v, "date")      -> Tagged("date", v.date)
      [] Is(v, "regex")     -> Tagged("regex", v.regex)
      [] Is(v, "decimal")   -> Tagged("decimal128", v.decimal)

decodeDocument(fields) == readElement([document |-> fields]).object

\* What JSON.stringify writes and JSON.parse reads back.
RECURSIVE Json(_)
Json(v) ==
    CASE Is(v, "object") -> [object |-> [k \in DOMAIN v.object |->
                                            Field(v.object[k].name, Json(v.object[k].value))]]
      [] Is(v, "array")  -> [array |-> [k \in DOMAIN v.array |-> Json(v.array[k])]]
      [] Is(v, "number") -> CASE v.number \in {NotANumber, Infinite} -> Null
                              [] v.number = NegativeZero             -> Number(0)
                              [] OTHER                               -> v
      [] OTHER           -> v

-----------------------------------------------------------------------------
(***************************************************************************)
(* Encoding.                                                               *)
(***************************************************************************)

IsTagged(v) == Is(v, "object") /\ Has(v.object, "$type") /\ Is(Get(v.object, "$type"), "string")

\* A document of the app's that has a string named $type is taken for a TaggedValue;
\* Buffer.from, BigInt and Date throw as it has no value to go with it.  The document
\* at the top is not looked at.
Encodable(fields) ==
    \A w \in Within([object |-> fields]) \ {[object |-> fields]} :
        IsTagged(w) => Has(w.object, "value") /\ Is(Get(w.object, "value"), "payload")

encodeNumber(n) ==
    IF n = NegativeZero THEN [int32 |-> 0]
    ELSE IF n \in -MaxInt32 .. MaxInt32 THEN [int32 |-> n] ELSE [double |-> n]

encodeTagged(type, payload) ==
    CASE type = "objectId" -> [objectId |-> payload]
      [] type = "date"     -> [date |-> payload]
      [] type = "long"     -> [int64 |-> payload]
      [] type = "binary"   -> [binary |-> [bytes |-> payload, subtype |-> 0]]
      [] OTHER             -> [string |-> payload]

RECURSIVE encodeElement(_), encodeDocument(_)
encodeElement(v) ==
    CASE Is(v, "null") \/ Is(v, "boolean") \/ Is(v, "string") -> v
      [] Is(v, "number") -> encodeNumber(v.number)
      [] Is(v, "array")  -> [array |-> [k \in DOMAIN v.array |-> encodeElement(v.array[k])]]
      [] IsTagged(v)     -> encodeTagged(Get(v.object, "$type").string, Get(v.object, "value").payload)
      [] Is(v, "object") /\ ~ IsTagged(v) -> [document |-> encodeDocument(v.object)]

encodeDocument(fields) ==
    [k \in DOMAIN fields |-> Field(fields[k].name, encodeElement(fields[k].value))]

=============================================================================
