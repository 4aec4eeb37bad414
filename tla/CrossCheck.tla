------------------------------ MODULE CrossCheck ------------------------------
(***************************************************************************)
(* Two views of one scenario. The database server (external) runs the      *)
(* statements of its connections and logs them; an adapter, mycheck        *)
(* (src/mycheck) or pgcheck (src/pgcheck), gives each logged statement a   *)
(* transaction identity, from which crosscheck (src/crosscheck) counts     *)
(* write units. On the client a Session per connection (src/session.go)    *)
(* attributes the same statements from their text.                         *)
(*                                                                         *)
(* Parse reads the log from front to back, so each entry is read as it is  *)
(* logged (ServerLog), and each statement gets its identity when it begins *)
(* and its kind from its text (Classifier) as far as that is known. The    *)
(* log starts while every connection is idle.                              *)
(*                                                                         *)
(* A pgx connection also sends batches, which the tracer of src/e2e        *)
(* brackets for its Session. Bound: no transaction control in a batch.     *)
(***************************************************************************)
EXTENDS ServerLog, FiniteSets

CONSTANTS
    Thread,                 \* connection ids of one run of the server
    Instances               \* bound: the worlds that are explored, by name

\* What connections execute; the marks are those of a scenario.
Command == {"read", "write", "cte", "readCte", "create", "temporary", "begin",
            "autocommitOff", "autocommitOn", "commit", "rollback", "savepoint",
            "rollbackTo", "rollbackWorkTo", "beginMark", "endMark"}
SetsAutocommit(cmd) == cmd \in {"autocommitOff", "autocommitOn"}

\* The dialect, read by mycheck or by pgcheck; the identifiers that the prefix of
\* a PostgreSQL line may have, one at least; what is executed, and the texts each
\* command is written in; texts of entries that are logged besides; whether
\* connections and the server may end in a transaction; whether batches are
\* sent; the runs of the server; the statements logged, which also bound the
\* transactions that a batch adds to and the other entries.
ASSUME CrossCheckAssumption ==
    /\ IsFiniteSet(Thread)
    /\ \A w \in DOMAIN Instances :
         LET given == Instances[w]
         IN /\ given.dialect \in {"mysql", "postgres"}
            /\ given.captures \subseteq SUBSET {"vxid", "xid"}
            /\ given.dialect = "postgres" => {} \notin given.captures
            /\ DOMAIN given.texts \subseteq Command
            /\ \A cmd \in DOMAIN given.texts : given.texts[cmd] \subseteq Seq(STRING)
            /\ given.noise \subseteq Seq(STRING)
            /\ given.unclean \in BOOLEAN /\ given.batches \in BOOLEAN
            /\ given.runs \in Nat /\ given.statements \in Nat
            /\ given.dialect = "postgres" => \A cmd \in DOMAIN given.texts : ~SetsAutocommit(cmd)
            /\ given.batches => given.dialect = "postgres"

VARIABLES
    world,                  \* the name of the instance
    captures,               \* the identifiers in the PostgreSQL line prefix
    logged,                 \* when a PostgreSQL line is written
    run,                    \* the run of the server
    server,                 \* the server's state of each connection
    gone,                   \* connections ended in this run
    parsed,                 \* mycheck's threadState
    tail,                   \* what a further line of the log would belong to
    stmts,                  \* what Parse returns; the command, tx, the transaction
                            \* the server ran it in, and unit, the one that the
                            \* Session attributed it to, are history
    session, txSeq,         \* Session.txID of each connection, Detector.txSeq
    pipeline,               \* the server's view of a batch: it runs in a
                            \* transaction of its "own" or has "joined" one
    implicitBatch           \* connections whose batch the tracer has bracketed

configVars == <<world, captures, logged>>
clientVars == <<session, txSeq>>
batchVars == <<pipeline, implicitBatch>>
vars == <<configVars, run, server, gone, parsed, tail, stmts, clientVars, batchVars>>

World == Instances[world]
MySQL == World.dialect = "mysql"

Fresh == [n |-> 0, open |-> FALSE, wrote |-> FALSE, autocommit |-> TRUE, saved |-> FALSE]
Unseen == [inTx |-> FALSE, txSeq |-> 0, stmtSeq |-> 0]
NoIdentity == <<>>

Init ==
    /\ world \in DOMAIN Instances
    /\ captures \in World.captures
    /\ logged \in {"before", "after"}
    /\ MySQL => logged = "before"
    /\ run = 1
    /\ server = [t \in Thread |-> Fresh]
    /\ gone = {}
    /\ parsed = [t \in Thread |-> Unseen]
    /\ tail = "closed"
    /\ stmts = <<>>
    /\ session = [t \in Thread |-> 0]
    /\ txSeq = 0
    /\ pipeline = [t \in Thread |-> "none"]
    /\ implicitBatch = {}

(***************************************************************************)
(* The server                                                              *)
(***************************************************************************)
Modifies(cmd) == cmd \in {"write", "cte", "create", "temporary"}
Ends(cmd) == cmd \in {"commit", "rollback"}
Touches(cmd) == Modifies(cmd) \/ cmd \in {"read", "readCte", "beginMark", "endMark"}

\* A savepoint is rolled back to only where there is one.
Legal(t, cmd) == /\ cmd \in {"rollbackTo", "rollbackWorkTo"} => server[t].saved
                 /\ pipeline[t] # "none" => Touches(cmd)

\* MySQL commits the open transaction before DDL, before another BEGIN, and when
\* autocommit is turned on again; PostgreSQL runs DDL in the transaction and
\* ignores the BEGIN.
ServerCommitsBefore(t, cmd) ==
    MySQL /\ \/ cmd \in {"create", "begin"}
             \/ cmd = "autocommitOn" /\ ~server[t].autocommit

StartsTx(t, cmd) == ~server[t].open \/ ServerCommitsBefore(t, cmd)

StaysOpen(t, cmd) ==
    \/ cmd = "begin"
    \/ pipeline[t] = "own"
    \/ ~server[t].autocommit /\ Touches(cmd) /\ cmd # "create"
    \/ server[t].open /\ ~Ends(cmd) /\ ~ServerCommitsBefore(t, cmd)

ServerAfter(t, cmd) ==
    [n |-> IF StartsTx(t, cmd) THEN server[t].n + 1 ELSE server[t].n,
     open |-> StaysOpen(t, cmd),
     wrote |-> /\ StaysOpen(t, cmd)
               /\ Modifies(cmd) \/ (~StartsTx(t, cmd) /\ server[t].wrote),
     autocommit |-> cmd = "autocommitOn" \/ (server[t].autocommit /\ cmd # "autocommitOff"),
     saved |-> /\ StaysOpen(t, cmd)
               /\ cmd = "savepoint" \/ (~StartsTx(t, cmd) /\ server[t].saved)]

ServerTx(t, cmd) == <<run, t, ServerAfter(t, cmd).n>>

\* %v and %x of the PostgreSQL line: a line written after the statement shows
\* nothing of a transaction that ended with it, one written before it no %x
\* until an earlier statement wrote. Local numbers start over with the server.
Active(t, cmd) == logged = "before" \/ StaysOpen(t, cmd)
Vxid(t, cmd) == IF Active(t, cmd) THEN <<t, ServerAfter(t, cmd).n>> ELSE <<t, 0>>
HasXid(t, cmd) == IF logged = "before" THEN ~StartsTx(t, cmd) /\ server[t].wrote
                                       ELSE ServerAfter(t, cmd).wrote

(***************************************************************************)
(* The adapters                                                            *)
(***************************************************************************)

\* Mutant: a local number of 0 is taken for an identity.
PgIdentityZero(t, cmd) ==
    CASE "vxid" \in captures -> <<"vxid", Vxid(t, cmd)>>
      [] "vxid" \notin captures /\ HasXid(t, cmd) -> <<"xid", ServerTx(t, cmd)>>
      [] OTHER -> NoIdentity

\* pgcheck's Parse: %v unless its local number is 0, else %x unless it is 0.
PgIdentity(t, cmd) ==
    CASE "vxid" \in captures /\ Vxid(t, cmd)[2] # 0 -> <<"vxid", Vxid(t, cmd)>>
      [] ~("vxid" \in captures /\ Vxid(t, cmd)[2] # 0)
           /\ "xid" \in captures /\ HasXid(t, cmd) -> <<"xid", ServerTx(t, cmd)>>
      [] OTHER -> NoIdentity

Ended(kind) == kind \in {"commit", "rollback"}

\* mycheck's reconstruct of a text and its kind: the identity of the statement
\* and the thread after it.
CommitsImplicitly(kind, text) ==
    kind # "begin" /\ ~Ended(kind) /\ IsImplicitCommit(text)

MyIdentity(t, kind, text) ==
    CASE kind = "begin" -> <<t, "tx", parsed[t].txSeq + 1>>
      [] kind # "begin" /\ parsed[t].inTx /\ ~CommitsImplicitly(kind, text) ->
           <<t, "tx", parsed[t].txSeq>>
      [] OTHER -> <<t, "stmt", parsed[t].stmtSeq + 1>>

StaysInTx(t, kind, text) ==
    \/ kind = "begin"
    \/ parsed[t].inTx /\ ~Ended(kind) /\ ~CommitsImplicitly(kind, text)

\* Mutant: transactions are numbered when they end.
ThreadAfterNumbersAtEnd(t, kind, text) ==
    [inTx |-> StaysInTx(t, kind, text),
     txSeq |-> IF Ended(kind) THEN parsed[t].txSeq + 1 ELSE parsed[t].txSeq,
     stmtSeq |-> parsed[t].stmtSeq + 1]

ThreadAfter(t, kind, text) ==
    [inTx |-> StaysInTx(t, kind, text),
     txSeq |-> IF kind = "begin" THEN parsed[t].txSeq + 1 ELSE parsed[t].txSeq,
     stmtSeq |-> parsed[t].stmtSeq + 1]

Identity(t, cmd, kind, text) ==
    IF MySQL THEN MyIdentity(t, kind, text) ELSE PgIdentity(t, cmd)

\* What has been read of the log when it goes on with an entry.
ReadOn(entry, text) ==
    LET last == IF stmts = <<>> THEN <<>> ELSE stmts[Len(stmts)].text
        read == [text |-> last, tail |-> tail]
    IN IF MySQL THEN MyRead(read, entry, text) ELSE PgRead(read, entry, text)

(***************************************************************************)
(* The client                                                              *)
(***************************************************************************)

\* Mutant: the text of statements does not move the transaction state.
SessionTracksNothing(t, kind) == UNCHANGED clientVars

\* Mutant: a textual BEGIN always opens a transaction.
SessionTracksEveryBegin(t, kind) ==
    /\ txSeq' = IF kind = "begin" THEN txSeq + 1 ELSE txSeq
    /\ session' = [session EXCEPT ![t] =
         CASE kind = "begin" -> txSeq + 1 [] Ended(kind) -> 0 [] OTHER -> @]

\* Session.Observe, of the text that the client sends.
SessionTracks(t, kind) ==
    LET opens == kind = "begin" /\ session[t] = 0
    IN /\ txSeq' = IF opens THEN txSeq + 1 ELSE txSeq
       /\ session' = [session EXCEPT ![t] =
            CASE opens -> txSeq + 1 [] Ended(kind) -> 0 [] OTHER -> @]

(***************************************************************************)
(* Steps                                                                   *)
(***************************************************************************)
Execute(t, cmd, sent) ==
    LET read == ReadOn("statement", sent)
        kind == DefaultClassifier(read.text)
    IN /\ t \notin gone
       /\ Len(stmts) < World.statements
       /\ Legal(t, cmd)
       /\ server' = [server EXCEPT ![t] = ServerAfter(t, cmd)]
       /\ parsed' = [parsed EXCEPT ![t] = ThreadAfter(t, kind, read.text)]
       /\ tail' = read.tail
       /\ SessionTracks(t, DefaultClassifier(sent))
       /\ stmts' = Append(stmts, [text |-> read.text, kind |-> kind, cmd |-> cmd,
                                  id |-> Identity(t, cmd, kind, read.text),
                                  tx |-> ServerTx(t, cmd), unit |-> session'[t]])
       /\ UNCHANGED <<configVars, run, gone, batchVars>>

\* The log goes on with an entry that carries no statement.
Logs(entry, text) ==
    LET read == ReadOn(entry, text)
        last == Len(stmts)
    IN /\ tail' = read.tail
       /\ stmts' = IF last = 0 THEN stmts
                   ELSE [stmts EXCEPT ![last].text = read.text,
                                      ![last].kind = DefaultClassifier(read.text)]

\* A connection prepares a statement, or one fails, and the log has an entry.
LogOther(text) ==
    /\ tail = "statement"
    /\ Logs("other", text)
    /\ UNCHANGED <<configVars, run, server, gone, parsed, clientVars, batchVars>>

\* Mutant: a batch is bracketed inside a transaction, too.
BatchStartBrackets(t) ==
    /\ World.batches /\ t \notin gone /\ pipeline[t] = "none"
    /\ txSeq < World.statements
    /\ pipeline' = [pipeline EXCEPT ![t] = IF server[t].open THEN "joined" ELSE "own"]
    /\ txSeq' = txSeq + 1
    /\ session' = [session EXCEPT ![t] = txSeq + 1]
    /\ implicitBatch' = implicitBatch \cup {t}
    /\ UNCHANGED <<configVars, run, server, gone, parsed, tail, stmts>>

\* The client starts a batch, which the server runs in one transaction. The
\* tracer asks for the state of the connection and brackets an idle one's.
BatchStart(t) ==
    LET idle == ~server[t].open
    IN /\ World.batches /\ t \notin gone /\ pipeline[t] = "none"
       /\ txSeq < World.statements
       /\ pipeline' = [pipeline EXCEPT ![t] = IF idle THEN "own" ELSE "joined"]
       /\ txSeq' = IF idle THEN txSeq + 1 ELSE txSeq
       /\ session' = IF idle THEN [session EXCEPT ![t] = txSeq + 1] ELSE session
       /\ implicitBatch' = IF idle THEN implicitBatch \cup {t} ELSE implicitBatch
       /\ UNCHANGED <<configVars, run, server, gone, parsed, tail, stmts>>

\* The Sync of the batch, and the tracer is told of its end.
BatchEnd(t) ==
    /\ pipeline[t] # "none"
    /\ pipeline' = [pipeline EXCEPT ![t] = "none"]
    /\ server' = IF pipeline[t] = "own" THEN [server EXCEPT ![t].open = FALSE] ELSE server
    /\ implicitBatch' = implicitBatch \ {t}
    /\ session' = IF t \in implicitBatch THEN [session EXCEPT ![t] = 0] ELSE session
    /\ UNCHANGED <<configVars, run, gone, parsed, tail, stmts, txSeq>>

\* The connection is over: its transaction is rolled back, and whoever
\* connects next has a Session of his own; the tracer forgets the connection.
ConnectionEnds(t) ==
    /\ t \notin gone
    /\ gone' = gone \cup {t}
    /\ server' = [server EXCEPT ![t].open = FALSE]
    /\ session' = [session EXCEPT ![t] = 0]
    /\ pipeline' = [pipeline EXCEPT ![t] = "none"]
    /\ implicitBatch' = implicitBatch \ {t}
    /\ UNCHANGED <<configVars, run, tail, stmts, txSeq>>

\* Mutant: the transaction of the thread is left open.
QuitKeepsTransaction(t) == ConnectionEnds(t) /\ UNCHANGED parsed

\* The client takes its leave, and the general log has a Quit entry.
Quit(t) ==
    /\ pipeline[t] = "none"
    /\ ConnectionEnds(t)
    /\ parsed' = [parsed EXCEPT ![t].inTx = FALSE]

\* The connection breaks, and the log says nothing.
Lose(t) ==
    /\ World.unclean \/ ~server[t].open
    /\ ConnectionEnds(t)
    /\ UNCHANGED parsed

\* The server starts again and counts its connections from the start; the
\* banner it writes ends a continued statement and nothing else.
Restart ==
    /\ run < World.runs
    /\ World.unclean \/ \A t \in Thread : ~server[t].open
    /\ run' = run + 1
    /\ server' = [t \in Thread |-> Fresh]
    /\ session' = [t \in Thread |-> 0]
    /\ gone' = {}
    /\ pipeline' = [t \in Thread |-> "none"]
    /\ implicitBatch' = {}
    /\ Logs("banner", <<>>)
    /\ UNCHANGED <<configVars, parsed, txSeq>>

Next ==
    \/ \E t \in Thread :
         \/ \E cmd \in DOMAIN World.texts : \E text \in World.texts[cmd] : Execute(t, cmd, text)
         \/ BatchStart(t)
         \/ BatchEnd(t)
         \/ Quit(t)
         \/ Lose(t)
    \/ \E text \in World.noise : LogOther(text)
    \/ Restart

Spec == Init /\ [][Next]_vars

(***************************************************************************)
(* The verdict                                                             *)
(***************************************************************************)
Whole == DOMAIN stmts

\* Scenario: the statements between the first begin marker and the first end
\* marker after it. Parse has read what came before.
Carrying(literal) == {i \in Whole : ContainsToken(stmts[i].text, {literal})}
Opened == Carrying("'begin'")
First(S) == CHOOSE i \in S : \A j \in S : i <= j
Closed == {i \in Carrying("'end'") : i > First(Opened)}
Delimited == Opened # {} /\ Closed # {}
Scenario == {i \in Whole : First(Opened) < i /\ i < First(Closed)}

WritesAmong(S) == {i \in S : stmts[i].kind = "write"}

\* Mutant: a scenario that changes the autocommit mode is checked all the same.
RejectedNever(S) == FALSE

\* rejectAutocommitChange
Rejected(S) == MySQL /\ \E i \in S : ChangesAutocommit(stmts[i].text)

\* Check fails on a write that has no identity.
Unattributed(S) == \E i \in WritesAmong(S) : stmts[i].id = NoIdentity

WriteUnits(S) == Cardinality({stmts[i].id : i \in WritesAmong(S)})

Verified(S) == ~Rejected(S) /\ ~Unattributed(S)

(***************************************************************************)
(* Properties                                                              *)
(***************************************************************************)
ModifiesAmong(S) == {i \in S : Modifies(stmts[i].cmd)}

\* Transactions of the server that modified something.
ServerUnits(S) == Cardinality({stmts[i].tx : i \in ModifiesAmong(S)})

ClientUnits(S) ==
    Cardinality({stmts[i].unit : i \in WritesAmong(S)} \ {0})
      + Cardinality({i \in WritesAmong(S) : stmts[i].unit = 0})

\* Every variable has its type; a thread that mycheck has in a transaction has
\* opened one.
TypeOK ==
    /\ run \in 1..World.runs \cup {1}
    /\ gone \subseteq Thread
    /\ server \in [Thread -> [n : Nat, open : BOOLEAN, wrote : BOOLEAN,
                              autocommit : BOOLEAN, saved : BOOLEAN]]
    /\ parsed \in [Thread -> [inTx : BOOLEAN, txSeq : Nat, stmtSeq : Nat]]
    /\ \A t \in Thread : parsed[t].inTx => parsed[t].txSeq > 0
    /\ txSeq \in Nat /\ session \in [Thread -> 0..txSeq]
    /\ tail \in {"statement", "other", "closed"}
    /\ pipeline \in [Thread -> {"none", "own", "joined"}]
    /\ implicitBatch \subseteq Thread

\* A text is read as what the server does with its command.
ReadRight(w) ==
    \A cmd \in DOMAIN Instances[w].texts : \A text \in Instances[w].texts[cmd] :
        LET kind == DefaultClassifier(text)
        IN /\ kind = "write" <=> Modifies(cmd)
           /\ kind = "begin" <=> cmd = "begin"
           /\ Ended(kind) <=> Ends(cmd)
           /\ Instances[w].dialect = "mysql" =>
                /\ IsImplicitCommit(text) <=> cmd = "create"
                /\ ChangesAutocommit(text) <=> SetsAutocommit(cmd)

\* DefaultClassifier (classify.go:57-93), and with it the Session and both
\* checkers, takes every text for what the server does with its command: it is a
\* write, a BEGIN or an end of a transaction exactly when the server treats it
\* as one, whatever comments stand around its words; and mycheck recognizes the
\* commands that commit implicitly and those that change the autocommit mode.
TextsRead == ReadRight(world)

\* What mycheck assumes of the server (mycheck.go:67-68; README.md:451 says that it
\* can mis-group otherwise): before entry m of the log, autocommit is not
\* turned off on the connections of the statements of S.
AutocommitKept(m, S) ==
    \A i \in S : \A j \in Whole :
        j < m /\ stmts[j].cmd = "autocommitOff" => stmts[j].tx[2] # stmts[i].tx[2]

\* Two statements have the same identity exactly when the server ran them in
\* the same transaction (the adapter contract, crosscheck.go:26-28): threads
\* that interleave, implicit commits, rollbacks and orderly restarts included,
\* and changes of the autocommit mode, until a connection turns its own off.
GroupedAsRun ==
    \A i, j \in Whole :
        /\ stmts[i].id # NoIdentity /\ AutocommitKept(i, {i})
        /\ stmts[j].id # NoIdentity /\ AutocommitKept(j, {j})
        => (stmts[i].id = stmts[j].id <=> stmts[i].tx = stmts[j].tx)

\* A verdict is right or it is refused: whatever identifiers the log carries
\* and wherever the slice begins, the units counted are the transactions of
\* the server that wrote. A slice whose connections turned autocommit off
\* before it is outside the documented assumption; every other change of the
\* mode is refused in the slice (rejectAutocommitChange) or does no harm.
VerdictSound ==
    /\ Verified(Whole) => WriteUnits(Whole) = ServerUnits(Whole)
    /\ Delimited /\ AutocommitKept(First(Opened) + 1, Scenario) /\ Verified(Scenario) =>
         WriteUnits(Scenario) = ServerUnits(Scenario)

\* A boundary around everything counts the units that the server ran.
ClientAgrees == ClientUnits(Whole) = ServerUnits(Whole)

\* So it does on PostgreSQL, whose BEGIN the Session follows (session.go:74-75):
\* batches that are sent when idle are one unit, batches inside a transaction
\* belong to it, and what came of a lost connection sticks to none of them
\* (e2e/pgxtracer.go:18-23).
ClientAgreesOnPostgres == ~MySQL => ClientAgrees

\* The client may miss a unit, but never reports one that the server did not
\* run: a violation is not a false alarm, unless autocommit is turned off.
NoFalseAlarm ==
    (\A i \in Whole : stmts[i].cmd # "autocommitOff") => ClientUnits(Whole) <= ServerUnits(Whole)
=============================================================================
