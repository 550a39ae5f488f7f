--------------------- MODULE PostgresRecordingInvariant ---------------------
(***************************************************************************)
(* What holds throughout of a recording of Postgres: the invariant that    *)
(* PostgresRecordingProofs shows to be inductive.                          *)
(*                                                                         *)
(* A path of notes runs beside what a driver has written: what a reader    *)
(* knows after each frame, the statement it stands at, its text and its    *)
(* parameters.  A path of accounts runs beside what the server has         *)
(* written: the columns and rows it has shown since its last result.  The  *)
(* recorder is somewhere on both paths, and never behind the server on the *)
(* first: that is why the statement it holds is the one being answered.    *)
(***************************************************************************)
EXTENDS PostgresRecording

ServerFrame ==
    [type : {"Z"}]
        \union [type : {"ssl"}, accepted : BOOLEAN]
        \union [type : {"T"}, columns : {<<sql>> : sql \in Sql}]
        \union [type : {"D"}, row : Nat]
        \union [type : {"C"}, tag : Nat]
        \union [type : {"E"}, error : Nat]

Byte == Frame \union ServerFrame

Prepared == [StatementName -> Sql \union {Unparsed}]

Outcome == [columns : Seq(Sql), rows : Seq(Nat), tag : Nat, error : Nat]

Interaction == [protocol : {"postgres"}, sql : Sql, params : Params, result : Outcome]

Recorder ==
    [phase : {"initial", "awaiting-ssl-reply", "running", "encrypted"},
     clientBuffer : Seq(Frame), serverBuffer : Seq(ServerFrame), prepared : Prepared,
     sql : Sql \union {NoSql}, params : Params, columns : Seq(Sql), rows : Seq(Nat),
     completed : Seq(Interaction)]

Run == [on : Connection, call : Sql \X Params,
        bound : BOOLEAN, failed : BOOLEAN, described : BOOLEAN]

-----------------------------------------------------------------------------
(***************************************************************************)
(* The driver's side: notes.                                               *)
(***************************************************************************)

Ends == {"Startup", "S", "Q"}
Starting == {"none", "SSLRequest"}

Note == [type : Starting \union Ends \union {"P", "B", "D", "E", "C"},
         nth : Nat, ends : Nat, prepared : Prepared,
         sql : Sql \union {NoSql}, params : Params]

Blank ==
    [type |-> "none", nth |-> 0, ends |-> 0,
     prepared |-> [name \in StatementName |-> Unparsed],
     sql |-> NoSql, params |-> NoParams]

\* A frame that begins another statement than the one before it.
Begins(type, frame) == frame.type \in {"P", "Q"} \/ (frame.type = "B" /\ type # "P")

\* What a reader of the frames knows after one more: the kind of the last one, how many
\* statements have begun and round trips have ended, and what the recorder keeps.
After(n, frame) ==
    [type |-> frame.type,
     nth  |-> IF Begins(n.type, frame) THEN n.nth + 1 ELSE n.nth,
     ends |-> IF frame.type \in Ends THEN n.ends + 1 ELSE n.ends,
     prepared |-> IF frame.type = "P" THEN [n.prepared EXCEPT ![frame.name] = frame.sql]
                  ELSE n.prepared,
     sql |-> IF frame.type \in {"P", "Q"} THEN frame.sql
             ELSE IF frame.type = "B" /\ n.prepared[frame.name] # Unparsed
                  THEN n.prepared[frame.name]
             ELSE n.sql,
     params |-> IF frame.type = "Q" THEN NoParams
                ELSE IF frame.type = "B" THEN frame.params ELSE n.params]

Follows(t, u) ==
    \/ t = "none" /\ u \in {"SSLRequest", "Startup"}
    \/ t = "SSLRequest" /\ u = "Startup"
    \/ t \in Ends /\ u \in {"P", "B", "Q", "C"}
    \/ t = "P" /\ u = "B"
    \/ t = "B" /\ u \in {"D", "E"}
    \/ t = "D" /\ u = "E"
    \/ t \in {"E", "C"} /\ u = "S"

\* The text and the parameters are those of the statement the note stands at, which is
\* the nth of those the driver means to run.
Meant(n, runs) ==
    /\ n.type \in Starting => n.ends = 0
    /\ n.nth <= Len(runs)
    /\ IF n.nth = 0 THEN n.sql = NoSql
       ELSE n.sql = runs[n.nth][1] /\ (n.type # "P" => n.params = runs[n.nth][2])
    /\ n.params = NoParams \/ \E m \in 1 .. Len(runs) : n.params = runs[m][2]

Leads(frames, note, runs) ==
    /\ note[0] = Blank
    /\ \A i \in 1 .. Len(frames) :
            note[i] = After(note[i - 1], frames[i]) /\ Follows(note[i - 1].type, frames[i].type)
    /\ \A i \in 0 .. Len(frames) : note[i] \in Note /\ Meant(note[i], runs)
    /\ \A i, j \in 0 .. Len(frames) :
            i <= j => note[i].nth <= note[j].nth /\ note[i].ends <= note[j].ends

-----------------------------------------------------------------------------
(***************************************************************************)
(* The server's side: accounts.                                            *)
(***************************************************************************)

Account == [columns : Seq(Sql), rows : Seq(Nat), ready : Nat]

Nothing == [columns |-> <<>>, rows |-> <<>>, ready |-> 0]

Closes(frame) == frame.type \in {"C", "E"}

\* What has been shown since the last result, and how often the server was ready.
Show(a, frame) ==
    [columns |-> IF frame.type = "T" THEN frame.columns
                 ELSE IF Closes(frame) THEN <<>> ELSE a.columns,
     rows    |-> IF frame.type = "D" THEN Append(a.rows, frame.row)
                 ELSE IF Closes(frame) THEN <<>> ELSE a.rows,
     ready   |-> IF frame.type = "Z" THEN a.ready + 1 ELSE a.ready]

SerialOf(frame) == IF frame.type = "C" THEN frame.tag ELSE frame.error

Tells(frames, shown) ==
    /\ shown[0] = Nothing
    /\ \A j \in 1 .. Len(frames) :
            shown[j] = Show(shown[j - 1], frames[j]) /\ frames[j].type # "ssl"
    /\ \A j \in 0 .. Len(frames) :
            /\ shown[j] \in Account
            /\ IsFiniteSet({k \in 1 .. j : frames[k].type = "Z"})
            /\ Cardinality({k \in 1 .. j : frames[k].type = "Z"}) = shown[j].ready
    /\ \A i, j \in 0 .. Len(frames) : i <= j => shown[i].ready <= shown[j].ready

Columns(sql) == IF sql \in Reads THEN <<sql>> ELSE <<>>

-----------------------------------------------------------------------------
(***************************************************************************)
(* The inductive invariant.  `Done` is how much of what one side wrote the *)
(* proxy has read; once it has closed, nothing is left to read.            *)
(***************************************************************************)

Done(c, d) == Len(sent[c][d]) - Len(wire[c][d])

Up(c)   == Decodable(sent[c]["up"])
Down(c) == Decodable(sent[c]["down"])
Read(c)  == Done(c, "up") \div 2
Heard(c) == Done(c, "down") \div 2

Typed ==
    /\ executed \in Seq(Run)
    /\ interactions \in Seq(Interaction)
    /\ asked \in [Connection -> Seq(Sql \X Params)]
    /\ known \in [Connection -> Prepared]
    /\ served \in [Connection -> Nat] /\ syncs \in [Connection -> Nat] /\ trips \in Nat
    /\ skipping \in [Connection -> BOOLEAN] /\ told \in [Connection -> BOOLEAN]
    /\ recorder \in [Connection -> Recorder]
    /\ \A c \in Connection :
        /\ sent[c]["up"] \in Seq(Frame) /\ sent[c]["down"] \in Seq(ServerFrame)
        /\ recorder[c].completed = <<>>

\* What a driver has written are whole round trips of the statements it means to run.
Scripted(c, note) ==
    LET frames == Up(c)
        N      == Len(frames)
    IN  /\ sent[c]["up"] = HalvesOf(frames)
        /\ Leads(frames, note, asked[c])
        /\ note[N].type \in Ends \union Starting
        /\ note[N].nth = Len(asked[c]) /\ note[N].ends = syncs[c]
        /\ \A name \in StatementName :
                known[c][name] # Unparsed => note[N].prepared[name] = known[c][name]
        /\ AskedForTls(c) => frames[1].type = "SSLRequest" /\ (syncs[c] = 0 => N = 1)

\* The server has run the statements up to the frame it has handled, that of an
\* unfinished one excepted.
Serving(c, note) ==
    LET n == note[served[c]]
    IN  /\ served[c] <= Len(Up(c)) /\ 2 * served[c] <= Len(got[c]["up"])
        /\ IsFiniteSet(RunOn(c))
        /\ Cardinality(RunOn(c)) = IF n.type \in {"P", "B", "D"} /\ ~ skipping[c]
                                   THEN n.nth - 1 ELSE n.nth
        /\ skipping[c] => n.type \in {"P", "B", "D", "E"}
        /\ n.type = "D" /\ ~ skipping[c] => told[c]
        /\ told[c] => n.type \in {"D", "E"}

\* What it has written are the results of what it has run, each once and in that order.
Resulted(c, frames, shown) ==
    LET M == Len(frames)
    IN  /\ \A j \in 1 .. M : Closes(frames[j]) =>
                /\ SerialOf(frames[j]) \in RunOn(c)
                /\ executed[SerialOf(frames[j])].failed <=> frames[j].type = "E"
                /\ frames[j].type = "C" =>
                        Result(shown[j - 1].columns, shown[j - 1].rows, frames[j].tag)
                            = ResultOf(frames[j].tag)
        /\ \A i, j \in 1 .. M : i < j /\ Closes(frames[i]) /\ Closes(frames[j])
                => SerialOf(frames[i]) < SerialOf(frames[j])
        /\ \A s \in RunOn(c) : \E j \in 1 .. M : Closes(frames[j]) /\ SerialOf(frames[j]) = s

Spoken(c, note, shown) ==
    LET frames == Down(c)
        M      == Len(frames)
        n      == note[served[c]]
    IN  /\ sent[c]["down"] = HalvesOf(frames)
        /\ Tells(frames, shown) /\ Resulted(c, frames, shown)
        /\ shown[M].ready = n.ends /\ shown[M].rows = <<>>
        /\ shown[M].columns = IF n.type = "D" /\ ~ skipping[c]
                              THEN Columns(asked[c][n.nth][1]) ELSE <<>>
        /\ n.type \in Ends => M > 0 /\ frames[M].type = "Z"
        /\ served[c] = 0 => M = 0

\* A driver that waits has at most one statement the server has not reached.
Single(c, note) ==
    c \notin Pipelining =>
        \A i \in served[c] + 1 .. Len(Up(c)) : note[i].nth = note[Len(Up(c))].nth

\* Whatever of the driver's frames the recorder has read, when it reads a result it
\* holds the statement that has it, or where the driver pipelines some statement.
Lately(c, note) ==
    \A j \in Heard(c) + 1 .. Len(Down(c)) : Closes(Down(c)[j]) =>
        \A i \in served[c] .. Len(Up(c)) :
            /\ note[i].nth > 0
            /\ c \notin Pipelining =>
                LET run == executed[SerialOf(Down(c)[j])]
                IN  note[i].sql = run.call[1] /\ (run.bound => note[i].params = run.call[2])

\* The recorder is where the proxy is on both paths.
Reader(c, note, shown) ==
    LET r == recorder[c]
    IN  /\ Len(r.clientBuffer) = Done(c, "up") % 2
        /\ \A i \in 1 .. Len(r.clientBuffer) : r.clientBuffer[i] = sent[c]["up"][2 * Read(c) + i]
        /\ Len(r.serverBuffer) = Done(c, "down") % 2
        /\ \A i \in 1 .. Len(r.serverBuffer) :
                r.serverBuffer[i] = sent[c]["down"][2 * Heard(c) + i]
        /\ r.phase = IF Read(c) = 0 THEN "initial" ELSE "running"
        /\ r.prepared = note[Read(c)].prepared
        /\ r.sql = note[Read(c)].sql /\ r.params = note[Read(c)].params
        /\ r.columns = shown[Heard(c)].columns /\ r.rows = shown[Heard(c)].rows

\* Frames whose results, if they are any, are of these statements.
Numbered(serials) == {frame \in ServerFrame : Closes(frame) => SerialOf(frame) \in serials}

\* A recorder asked for TLS takes what follows a refusal for one long frame, and reads
\* none of it before the connection has gone astray.  This is so of a recorder r that
\* has read d elements of the driver's and e of the server's.
UnreadingAt(c, r, d, e) ==
    /\ ~ Astray(c) => r.sql = NoSql
    /\ r.serverBuffer \in Seq(Numbered(RunOn(c)))
    /\ r.phase # "initial" => d >= 2
    /\ r.phase = "initial" =>
        /\ Len(r.clientBuffer) = d /\ d < 2 /\ r.serverBuffer = <<>>
        /\ \A i \in 1 .. Len(r.clientBuffer) : r.clientBuffer[i] = sent[c]["up"][i]
    /\ r.phase = "awaiting-ssl-reply" =>
        e = 0 /\ r.clientBuffer = <<>> /\ r.serverBuffer = <<>>
    /\ r.phase = "running" =>
        /\ e > 0 /\ Len(r.serverBuffer) = (e - 1) % 2
        /\ ~ Astray(c) =>
            /\ Len(r.clientBuffer) = d - 2
            /\ \A i \in 1 .. Len(r.clientBuffer) : r.clientBuffer[i] = sent[c]["up"][2 + i]

Unreading(c) == UnreadingAt(c, recorder[c], Done(c, "up"), Done(c, "down"))

Refusing(c) ==
    /\ sent[c]["down"] # <<>> => Head(sent[c]["down"]).type = "ssl"
    /\ Len(sent[c]["down"]) > 1 => syncs[c] > 0
    /\ sent[c]["down"] \in Seq(Numbered(RunOn(c)))
    /\ served[c] = 0 => sent[c]["down"] = <<>>
    /\ syncs[c] > 0 => got[c]["down"] # <<>> /\ Up(c)[2].type = "Startup"
    /\ Len(recorder[c].serverBuffer) < 2
    /\ bridge[c] = "open" => Unreading(c)

-----------------------------------------------------------------------------
(***************************************************************************)
(* The list.                                                               *)
(***************************************************************************)

\* The statement an interaction was recorded of.
Ser(x) == IF x.result.error = 0 THEN x.result.tag ELSE x.result.error

Faithful(x) ==
    LET run == executed[Ser(x)]
        c   == run.on
    IN  /\ x.result = ResultOf(Ser(x))
        /\ c \notin Pipelining => x.sql = run.call[1] /\ (run.bound => x.params = run.call[2])
        /\ \E m \in 1 .. Len(asked[c]) : x.sql = asked[c][m][1]
        /\ x.params = NoParams \/ \E m \in 1 .. Len(asked[c]) : x.params = asked[c][m][2]

Sound(x) ==
    Ser(x) \in 1 .. Len(executed) /\ (Astray(executed[Ser(x)].on) \/ Faithful(x))

Matched(list) == \A k \in 1 .. Len(list) : Sound(list[k])

Rising(list) ==
    \A j, k \in 1 .. Len(list) :
        /\ j < k /\ executed[Ser(list[j])].on = executed[Ser(list[k])].on
        /\ ~ Astray(executed[Ser(list[k])].on)
        => Ser(list[j]) < Ser(list[k])

InList(list, s) == \E k \in 1 .. Len(list) : Ser(list[k]) = s

\* The results among the first h frames are in the list, and those behind them are of
\* later statements than any there.
Kept(c, list, h) ==
    \A j \in 1 .. Len(Down(c)) : j <= h /\ Closes(Down(c)[j]) => InList(list, SerialOf(Down(c)[j]))

Ahead(c, list, h) ==
    \A j \in h + 1 .. Len(Down(c)) : Closes(Down(c)[j]) =>
        \A k \in 1 .. Len(list) :
            executed[Ser(list[k])].on = c => Ser(list[k]) < SerialOf(Down(c)[j])

Listed(c) ==
    /\ Kept(c, interactions, Len(got[c]["down"]) \div 2)
    /\ bridge[c] = "open" => Kept(c, interactions, Heard(c)) /\ Ahead(c, interactions, Heard(c))

Answering(c, note, shown) ==
    /\ Spoken(c, note, shown) /\ Single(c, note) /\ Lately(c, note)
    /\ Len(recorder[c].serverBuffer) < 2
    /\ bridge[c] = "open" => Reader(c, note, shown)
    /\ Listed(c)

Connected(c, note, shown) ==
    /\ Scripted(c, note) /\ Serving(c, note)
    /\ IF AskedForTls(c) THEN Refusing(c) ELSE Answering(c, note, shown)

IInv ==
    /\ Typed /\ Matched(interactions) /\ Rising(interactions)
    /\ \A c \in Connection : \E note, shown : Connected(c, note, shown)

=============================================================================
