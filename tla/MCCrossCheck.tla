---------------------------- MODULE MCCrossCheck ----------------------------
(***************************************************************************)
(* Instances of the two views for TLC.                                     *)
(***************************************************************************)
EXTENDS CrossCheck, SqlText, SequencesExt

CONSTANTS t1, t2

Symmetry == Permutations(Thread)

\* What connections execute, in words; marks are recognized by their literal.
Words == [
    read |-> <<"SELECT", "ID">>,            write |-> <<"INSERT", "ORDERS">>,
    cte |-> <<"WITH", "OLD", "DELETE">>,    readCte |-> <<"WITH", "OLD", "SELECT">>,
    create |-> <<"CREATE", "TABLE">>,       temporary |-> <<"CREATE", "TEMPORARY", "TABLE">>,
    begin |-> <<"START", "TRANSACTION">>,
    autocommitOff |-> <<"SET", "AUTOCOMMIT", "=", "0">>,
    autocommitOn |-> <<"SET", "AUTOCOMMIT", "=", "1">>,
    commit |-> <<"COMMIT">>,                rollback |-> <<"ROLLBACK">>,
    savepoint |-> <<"SAVEPOINT", "S">>,     rollbackTo |-> <<"ROLLBACK", "TO", "S">>,
    beginMark |-> <<"SELECT", "'begin'">>,  endMark |-> <<"SELECT", "'end'">>,
    rollbackWorkTo |-> <<"ROLLBACK", "WORK", "TO", "S">>]

\* A layout is what is written before the first word of a statement, and what
\* before any other. The texts of some commands in some layouts.
TextOf(cmd, layout) ==
    LET words == Words[cmd]
    IN FlattenSeq([i \in DOMAIN words |->
                     Append(IF i = 1 THEN layout.before ELSE layout.between, words[i])])
Texts(commands, layouts) == [cmd \in commands |-> {TextOf(cmd, l) : l \in layouts}]

\* Blanks between words; comments of either kind.
Plain == {[before |-> <<>>, between |-> <<" ">>]}
Commented == {[before |-> <<"-", "-", " ", "TO", NewLine>>,
               between |-> <<NewLine, "/", "*", "TO", "*", "/">>]}

\* A MySQL server that is restarted with nothing open; scenarios between marks,
\* with autocommit turned on or off anywhere; savepoints.
MySQLServer ==
    [dialect |-> "mysql", captures |-> {{}}, noise |-> {}, unclean |-> FALSE, batches |-> FALSE,
     runs |-> 2, statements |-> 3,
     texts |-> Texts({"write", "create", "temporary", "autocommitOff", "autocommitOn", "begin",
                      "commit"}, Plain)]
MySQLScenario ==
    [MySQLServer EXCEPT !.runs = 1, !.statements = 4,
       !.texts = Texts({"write", "begin", "autocommitOn", "beginMark", "endMark"}, Plain)]
MySQLAutocommit ==
    [MySQLScenario EXCEPT !.statements = 5,
       !.texts = Texts({"write", "autocommitOff", "beginMark", "endMark"}, Plain)]
Savepoints ==
    [MySQLServer EXCEPT !.runs = 1, !.statements = 4,
       !.texts = Texts({"write", "savepoint", "rollbackTo", "begin", "rollback"}, Commented)]

\* The identifiers in a PostgreSQL prefix.
Captured == {{"vxid"}, {"xid"}, {"vxid", "xid"}}

\* A PostgreSQL server, with statements one by one and with batches; one that is
\* restarted, so that whoever lost a connection has it again.
PostgreSQLServer ==
    [MySQLServer EXCEPT !.dialect = "postgres", !.unclean = TRUE, !.runs = 1,
       !.captures = Captured,
       !.texts = Texts({"read", "write", "create", "begin", "commit", "rollback"}, Plain)]
PostgreSQLScenario ==
    [PostgreSQLServer EXCEPT !.statements = 4, !.captures = {{"xid"}},
       !.texts = Texts({"write", "begin", "beginMark", "endMark"}, Plain)]
Batches ==
    [PostgreSQLServer EXCEPT !.captures = {{"vxid"}}, !.batches = TRUE,
                             !.texts = Texts({"write", "begin", "commit"}, Plain)]
PostgreSQLRestart ==
    [Batches EXCEPT !.captures = {{"xid"}}, !.runs = 2, !.texts = Texts({"write", "begin"}, Plain)]

\* Statements and other entries, of one line or two, that follow each other.
MySQLLog ==
    [MySQLServer EXCEPT
       !.noise = {<<"SELECT", NewLine, "INSERT">>, <<"INSERT">>},
       !.texts = Texts({"readCte", "write", "begin"}, Commented)]
PostgreSQLLog ==
    [MySQLLog EXCEPT !.dialect = "postgres", !.captures = Captured, !.unclean = TRUE,
                     !.runs = 1]

\* Every command in many layouts, for TextsRead only: nothing is executed.
\* Comments of every short body: in a line comment no newline and, for MySQL, a
\* blank in front, in a block comment no end of it, and no "/" in front, which
\* would look like one.
Bodies == UNION {[1..n -> {"-", "/", "*", "INSERT"}] : n \in 0..2}
Comments ==
    {<<"-", "-", " ">> \o b \o <<NewLine>> : b \in Bodies}
      \cup {<<"/", "*">> \o b \o <<"*", "/">> :
              b \in {x \in Bodies : x = <<>> \/ x[1] # "/"} \ {<<"*", "/">>}}
      \cup {<<"/", "*", NewLine, "-", "-", "*", "/">>}
Gaps == Comments \cup {<<" ">>, <<NewLine>>}
Layouts ==
    [before : {<<>>} \cup Gaps \cup {g \o h : g, h \in {x \in Gaps : Len(x) <= 5}},
     between : {<<" ">>, <<NewLine, "/", "*", "-", "*", "/">>, <<"-", "-", " ", "TO", NewLine>>}]
Reading(dialect, commands) ==
    [MySQLServer EXCEPT !.dialect = dialect, !.captures = {{"vxid"}}, !.runs = 1,
                        !.statements = 0, !.texts = Texts(commands, Layouts)]

Servers ==
    [mysql |-> MySQLServer, mysqlScenario |-> MySQLScenario, mysqlSavepoints |-> Savepoints,
     mysqlLog |-> MySQLLog, postgres |-> PostgreSQLServer,
     mysqlAutocommit |-> MySQLAutocommit, postgresScenario |-> PostgreSQLScenario,
     postgresBatches |-> Batches, postgresRestart |-> PostgreSQLRestart,
     postgresLog |-> PostgreSQLLog,
     mysqlTexts |-> Reading("mysql", DOMAIN Words \ {"cte", "readCte", "rollbackWorkTo"}),
     postgresTexts |-> Reading("postgres", DOMAIN Words \ {"readCte", "autocommitOff",
                                                           "autocommitOn", "rollbackWorkTo"})]

\* What is executed is SQL as SqlText has it.
ASSUME ExecutedTexts ==
    \A w \in DOMAIN Servers :
        \A cmd \in DOMAIN Servers[w].texts : \A text \in Servers[w].texts[cmd] :
            IsTextOf(text, cmd, Words[cmd])

CrashingServer == [mysql |-> [MySQLServer EXCEPT !.unclean = TRUE]]
NestedBegin ==
    [mysql |-> [MySQLServer EXCEPT !.runs = 1, !.statements = 5,
                                   !.texts = Texts({"write", "begin", "commit"}, Plain)]]
RollbackWork ==
    [postgres |-> [PostgreSQLServer EXCEPT !.statements = 5,
                     !.texts = Texts({"write", "savepoint", "rollbackWorkTo", "begin"}, Plain)]]
=============================================================================
