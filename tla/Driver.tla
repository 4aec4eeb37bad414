------------------------------- MODULE Driver -------------------------------
(***************************************************************************)
(* The driver middleware (src/driver.go) between database/sql and a        *)
(* driver, which are external, as is the server. Callers execute           *)
(* statements on the pool, on a reserved sql.Conn or in a sql.Tx. A call   *)
(* on a wrapped connection is one step: database/sql lets one goroutine at *)
(* a time use a connection, and what a call changes is the connection's    *)
(* Session and the atomic txSeq.                                           *)
(*                                                                         *)
(* The pool is freer than the real one (any free connection, or a new      *)
(* one). The server ignores a BEGIN inside a transaction, as PostgreSQL    *)
(* does; MySQL's way is in CrossCheck. Stmt.Exec and Stmt.Query, which     *)
(* database/sql does not call on a wrappedStmt, are left out.              *)
(***************************************************************************)
EXTENDS Naturals

CONSTANTS
    Caller,                 \* goroutines that use the sql.DB
    Conn,                   \* bound: connections open at a time
    NoConn,                 \* no connection
    Executed,               \* bound: the kinds of statements executed
    MaxTries,               \* attempts of database/sql before it gives up
    MaxTx                   \* bound: transactions

Kind == {"read", "write", "begin", "commit", "rollback"}

ASSUME DriverAssumption ==
    /\ NoConn \notin Conn
    /\ Executed \subseteq Kind
    /\ MaxTries \in Nat \ {0}
    /\ MaxTx \in Nat

VARIABLES
    life,                   \* "none", "free", "held", or "broken" inside a Tx
    caller,                 \* what each goroutine does, and on what
    session, txSeq,         \* Session.txID of each connection, Detector.txSeq
    server, serverSeq,      \* the server's transaction of each connection, 0 if none
    units,                  \* history: of writes observed, the server's transaction
                            \* and the unit that the Session gave it
    joined,                 \* history: transactions that a driver-level BEGIN met
    astray                  \* history: connections whose Session was told of a
                            \* BEGIN or an end that the server never got

clientVars == <<session, txSeq>>
serverVars == <<server, serverSeq>>
historyVars == <<units, joined, astray>>
vars == <<life, caller, clientVars, serverVars, historyVars>>

\* A statement of a caller: how often the server ran it and it was observed
\* (history), and whether it is over.
Op(kind, fate) == [kind |-> kind, runs |-> 0, seen |-> 0, fate |-> fate]
NoOp == Op("read", "none")

Idle == [pc |-> "idle", conn |-> NoConn, pinned |-> FALSE, inTx |-> FALSE,
         tries |-> 0, op |-> NoOp]

Init ==
    /\ life = [c \in Conn |-> "none"]
    /\ caller = [g \in Caller |-> Idle]
    /\ session = [c \in Conn |-> 0] /\ txSeq = 0
    /\ server = [c \in Conn |-> 0] /\ serverSeq = 0
    /\ units = {}
    /\ joined = {}
    /\ astray = {}

\* A sql.Conn and a sql.Tx keep their connection.
Fixed(g) == caller[g].pinned \/ caller[g].inTx
KindOf(g) == caller[g].op.kind

(***************************************************************************)
(* database/sql                                                            *)
(***************************************************************************)

\* DB, Conn or Tx is asked to execute a statement, DB or Conn to begin a
\* transaction, DB to reserve a connection.
Submit(g, kind) ==
    /\ caller[g].pc = "idle"
    /\ caller' = [caller EXCEPT ![g].pc = "direct", ![g].op = Op(kind, "open")]
    /\ UNCHANGED <<life, clientVars, serverVars, historyVars>>

Ask(g) ==
    /\ caller[g].pc = "idle" /\ ~caller[g].inTx
    /\ \E pc \in {"begin"} \cup (IF caller[g].pinned THEN {} ELSE {"reserve"}) :
         caller' = [caller EXCEPT ![g].pc = pc, ![g].op = NoOp]
    /\ UNCHANGED <<life, clientVars, serverVars, historyVars>>

\* The goroutine has c; whoever only wanted to reserve it is done.
Got(g, c) ==
    caller' = [caller EXCEPT ![g].conn = c,
                             ![g].pinned = @ \/ caller[g].pc = "reserve",
                             ![g].pc = IF @ = "reserve" THEN "idle" ELSE @,
                             ![g].tries = IF caller[g].pc = "reserve" THEN 0 ELSE @]

Wanting(g) == caller[g].pc # "idle" /\ caller[g].conn = NoConn

\* A free connection is used again: ResetSession is passed on to the driver
\* and the Session stays as it is.
Reuse(g, c) ==
    /\ Wanting(g) /\ life[c] = "free"
    /\ life' = [life EXCEPT ![c] = "held"]
    /\ Got(g, c)
    /\ UNCHANGED <<clientVars, serverVars, historyVars>>

\* Without a retry, or with none left, the caller gets the error.
GivesUp(g) == Fixed(g) \/ caller[g].tries + 1 = MaxTries

\* What the goroutine does after ErrBadConn; a Tx keeps the connection until it
\* ends.
AfterBad(g) ==
    [caller[g] EXCEPT !.pc = IF GivesUp(g) THEN "idle"
                             ELSE IF @ = "prepared" THEN "direct" ELSE @,
                      !.conn = IF caller[g].inTx THEN @ ELSE NoConn,
                      !.pinned = @ /\ caller[g].inTx,
                      !.tries = IF GivesUp(g) THEN 0 ELSE @ + 1,
                      !.op.fate = IF GivesUp(g) /\ @ = "open" THEN "gaveUp" ELSE @]

\* The reset of a free connection says that it is bad.
ReuseFails(g, c) ==
    /\ Wanting(g) /\ life[c] = "free"
    /\ life' = [life EXCEPT ![c] = "none"]
    /\ server' = [server EXCEPT ![c] = 0]
    /\ caller' = [caller EXCEPT ![g] = AfterBad(g)]
    /\ UNCHANGED <<clientVars, serverSeq, historyVars>>

\* The caller has its answer, and op is what came of its statement; the
\* connection goes back to the pool unless a Conn or a Tx keeps it.
Answer(g, op) ==
    /\ caller' = [caller EXCEPT ![g] =
         [caller[g] EXCEPT !.pc = "idle", !.tries = 0, !.op = op,
                           !.conn = IF Fixed(g) THEN @ ELSE NoConn]]
    /\ life' = IF Fixed(g) THEN life ELSE [life EXCEPT ![caller[g].conn] = "free"]

\* sql.Conn.Close
Release(g) ==
    /\ caller[g].pc = "idle" /\ caller[g].pinned /\ ~caller[g].inTx
    /\ life' = [life EXCEPT ![caller[g].conn] = "free"]
    /\ caller' = [caller EXCEPT ![g] = Idle]
    /\ UNCHANGED <<clientVars, serverVars, historyVars>>

(***************************************************************************)
(* Wrapped connections                                                     *)
(***************************************************************************)

\* Mutant: a new connection finds the transaction of an old one.
ConnectKeepsSession(g, c) ==
    /\ Wanting(g) /\ life[c] = "none"
    /\ life' = [life EXCEPT ![c] = "held"]
    /\ Got(g, c)
    /\ UNCHANGED <<clientVars, serverVars, historyVars>>

\* wrappedConnector.Connect and wrappedDriver.Open: a Session of its own.
Connect(g, c) ==
    /\ Wanting(g) /\ life[c] = "none"
    /\ life' = [life EXCEPT ![c] = "held"]
    /\ session' = [session EXCEPT ![c] = 0]
    /\ Got(g, c)
    /\ astray' = astray \ {c}
    /\ UNCHANGED <<txSeq, serverVars, units, joined>>

\* The driver cannot connect, and the caller gets the error.
ConnectFails(g) ==
    /\ Wanting(g)
    /\ caller' = [caller EXCEPT ![g] =
         [Idle EXCEPT !.op = [caller[g].op EXCEPT
            !.fate = IF @ = "open" THEN "gaveUp" ELSE @]]]
    /\ UNCHANGED <<life, clientVars, serverVars, historyVars>>

\* Close, which the pool calls on a connection that is free, or not valid.
Close(c) ==
    /\ life[c] = "free"
    /\ life' = [life EXCEPT ![c] = "none"]
    /\ server' = [server EXCEPT ![c] = 0]
    /\ UNCHANGED <<caller, clientVars, serverSeq, historyVars>>

\* Mutant: ErrBadConn does not keep ExecContext from observing.
ObservesBad(outcome) == outcome # "skip"

\* ExecContext and QueryContext, of connections and of statements: what is
\* observed of a call that returned.
IsObserved(outcome) == outcome \notin {"skip", "bad"}

\* Session.observeKind, on the connection of g.
Observe(g, outcome) ==
    LET c == caller[g].conn
        opens == KindOf(g) = "begin" /\ session[c] = 0
    IN IF IsObserved(outcome)
       THEN /\ opens => txSeq < MaxTx
            /\ txSeq' = IF opens THEN txSeq + 1 ELSE txSeq
            /\ session' = [session EXCEPT ![c] =
                 CASE opens -> txSeq + 1
                   [] KindOf(g) \in {"commit", "rollback"} -> 0
                   [] OTHER -> @]
       ELSE UNCHANGED clientVars

\* History of a call on a wrapped connection or statement.
Told(g, outcome, fate) ==
    [caller[g].op EXCEPT !.runs = IF outcome = "ran" THEN @ + 1 ELSE @,
                         !.seen = IF IsObserved(outcome) THEN @ + 1 ELSE @,
                         !.fate = fate]

Note(g, outcome) ==
    units' = IF IsObserved(outcome) /\ KindOf(g) = "write" /\ caller[g].conn \notin astray
             THEN units \cup {[tx |-> server[caller[g].conn],
                               unit |-> session[caller[g].conn]]}
             ELSE units

AtDriver(g) ==
    /\ caller[g].conn # NoConn /\ life[caller[g].conn] = "held"
    /\ caller[g].pc \in {"direct", "prepared"}

\* The server runs the statement.
Run(g) ==
    LET c == caller[g].conn
        opens == KindOf(g) = "begin" /\ server[c] = 0
    IN /\ AtDriver(g)
       /\ opens => serverSeq < MaxTx
       /\ serverSeq' = IF opens THEN serverSeq + 1 ELSE serverSeq
       /\ server' = [server EXCEPT ![c] =
            CASE opens -> serverSeq + 1
              [] KindOf(g) \in {"commit", "rollback"} -> 0
              [] OTHER -> @]
       /\ Observe(g, "ran")
       /\ Note(g, "ran")
       /\ Answer(g, Told(g, "ran", "done"))
       /\ astray' = IF KindOf(g) \in {"commit", "rollback"} THEN astray \ {c} ELSE astray
       /\ UNCHANGED joined

\* What the server would have done with the statement of g.
Matters(g) ==
    \/ KindOf(g) = "begin" /\ server[caller[g].conn] = 0
    \/ KindOf(g) \in {"commit", "rollback"} /\ server[caller[g].conn] # 0

\* Any other error: the server refuses the statement, the arguments are not
\* converted for a driver that takes no named ones, or the context is done
\* before anything is sent.
Refuse(g) ==
    /\ AtDriver(g)
    /\ Observe(g, "error")
    /\ Note(g, "error")
    /\ Answer(g, Told(g, "error", "done"))
    /\ astray' = IF Matters(g) THEN astray \cup {caller[g].conn} ELSE astray
    /\ UNCHANGED <<serverVars, joined>>

\* ErrSkip, which a driver may answer at any time, and which wrappedConn answers
\* for one that has no Execer(Context) or Queryer(Context): database/sql goes on
\* to prepare the statement.
Skip(g) ==
    /\ caller[g].pc = "direct" /\ caller[g].conn # NoConn
    /\ life[caller[g].conn] = "held"
    /\ Observe(g, "skip")
    /\ Note(g, "skip")
    /\ caller' = [caller EXCEPT ![g].pc = "prepared", ![g].op = Told(g, "skip", "open")]
    /\ UNCHANGED <<life, serverVars, joined, astray>>

\* PrepareContext fails and nothing was executed.
PrepareFails(g) ==
    /\ caller[g].pc = "prepared" /\ life[caller[g].conn] = "held"
    /\ Answer(g, [caller[g].op EXCEPT !.fate = "unprepared"])
    /\ UNCHANGED <<clientVars, serverVars, historyVars>>

\* ErrBadConn, which a driver may return only for what the server did not run.
\* The server loses the connection and its transaction.
Bad(g) ==
    LET c == caller[g].conn
    IN /\ caller[g].pc # "idle" /\ c # NoConn
       /\ life' = [life EXCEPT ![c] = IF caller[g].inTx THEN "broken" ELSE "none"]
       /\ server' = [server EXCEPT ![c] = 0]
       /\ IF caller[g].pc = "begin"
          THEN /\ caller' = [caller EXCEPT ![g] = AfterBad(g)]
               /\ UNCHANGED <<clientVars, units>>
          ELSE /\ Observe(g, "bad")
               /\ Note(g, "bad")
               /\ caller' = [caller EXCEPT ![g] = [AfterBad(g) EXCEPT !.op =
                    Told(g, "bad", IF GivesUp(g) THEN "gaveUp" ELSE "open")]]
       /\ UNCHANGED <<serverSeq, joined, astray>>

\* Mutant: a transaction that the driver begins is not told to the Session.
BeginTxUntold(g) ==
    LET c == caller[g].conn
    IN /\ caller[g].pc = "begin" /\ c # NoConn
       /\ serverSeq < MaxTx /\ txSeq < MaxTx
       /\ serverSeq' = IF server[c] = 0 THEN serverSeq + 1 ELSE serverSeq
       /\ server' = [server EXCEPT ![c] = IF @ = 0 THEN serverSeq + 1 ELSE @]
       /\ caller' = [caller EXCEPT ![g].pc = "idle", ![g].inTx = TRUE, ![g].tries = 0]
       /\ UNCHANGED <<life, clientVars, historyVars>>

\* Mutant: the identifier of the transaction is not drawn from the detector.
BeginTxNotDrawn(g) ==
    LET c == caller[g].conn
    IN /\ caller[g].pc = "begin" /\ c # NoConn
       /\ serverSeq < MaxTx /\ txSeq < MaxTx
       /\ serverSeq' = IF server[c] = 0 THEN serverSeq + 1 ELSE serverSeq
       /\ server' = [server EXCEPT ![c] = IF @ = 0 THEN serverSeq + 1 ELSE @]
       /\ session' = [session EXCEPT ![c] = txSeq + 1]
       /\ caller' = [caller EXCEPT ![g].pc = "idle", ![g].inTx = TRUE, ![g].tries = 0]
       /\ UNCHANGED <<life, txSeq, historyVars>>

\* BeginTx, and Begin of a driver that has nothing newer.
BeginTx(g) ==
    LET c == caller[g].conn
    IN /\ caller[g].pc = "begin" /\ c # NoConn
       /\ serverSeq < MaxTx /\ txSeq < MaxTx
       /\ serverSeq' = IF server[c] = 0 THEN serverSeq + 1 ELSE serverSeq
       /\ server' = [server EXCEPT ![c] = IF @ = 0 THEN serverSeq + 1 ELSE @]
       /\ joined' = IF server[c] = 0 THEN joined ELSE joined \cup {server[c]}
       /\ astray' = IF server[c] = 0 THEN astray \ {c} ELSE astray
       /\ txSeq' = txSeq + 1
       /\ session' = [session EXCEPT ![c] = txSeq + 1]
       /\ caller' = [caller EXCEPT ![g].pc = "idle", ![g].inTx = TRUE, ![g].tries = 0]
       /\ UNCHANGED <<life, units>>

\* The driver declines, or the options are not the default ones and it is old.
BeginFails(g) ==
    /\ caller[g].pc = "begin" /\ caller[g].conn # NoConn
    /\ Answer(g, NoOp)
    /\ UNCHANGED <<clientVars, serverVars, historyVars>>

TxOver(g) ==
    LET c == caller[g].conn
        lost == life[c] = "broken"
    IN /\ caller[g].pc = "idle" /\ caller[g].inTx
       /\ server' = [server EXCEPT ![c] = 0]
       /\ \E bad \in BOOLEAN :
            /\ lost => bad
            /\ life' = [life EXCEPT ![c] = IF bad THEN "none"
                                           ELSE IF caller[g].pinned THEN @ ELSE "free"]
            /\ caller' = [caller EXCEPT ![g] =
                 IF bad \/ ~caller[g].pinned THEN Idle
                 ELSE [@ EXCEPT !.inTx = FALSE, !.op = NoOp]]

\* Mutant: the end of a transaction is not told to the Session.
EndTxUntold(g) == TxOver(g) /\ UNCHANGED <<clientVars, serverSeq, historyVars>>

\* wrappedTx.Commit and Rollback, the latter also called by database/sql when
\* the context of the Tx is done: the Session's transaction is over, whatever
\* the driver says.
EndTx(g) ==
    /\ TxOver(g)
    /\ session' = [session EXCEPT ![caller[g].conn] = 0]
    /\ astray' = astray \ {caller[g].conn}
    /\ UNCHANGED <<txSeq, serverSeq, units, joined>>

Next ==
    \/ \E g \in Caller :
         \/ \E kind \in Executed : Submit(g, kind)
         \/ Ask(g)
         \/ \E c \in Conn : Reuse(g, c) \/ ReuseFails(g, c) \/ Connect(g, c)
         \/ ConnectFails(g)
         \/ Release(g)
         \/ Run(g)
         \/ Refuse(g)
         \/ Skip(g)
         \/ PrepareFails(g)
         \/ Bad(g)
         \/ BeginTx(g)
         \/ BeginFails(g)
         \/ EndTx(g)
    \/ \E c \in Conn : Close(c)

Spec == Init /\ [][Next]_vars

(***************************************************************************)
(* Properties                                                              *)
(***************************************************************************)
\* The identifier of a transaction is drawn by the Session from the detector
\* (Detector.nextTxID); a goroutine in a transaction has a connection.
TypeOK ==
    /\ life \in [Conn -> {"none", "free", "held", "broken"}]
    /\ session \in [Conn -> 0..txSeq]
    /\ server \in [Conn -> 0..serverSeq]
    /\ astray \subseteq Conn
    /\ \A g \in Caller :
         /\ caller[g].pc \in {"idle", "begin", "reserve", "direct", "prepared"}
         /\ caller[g].tries \in 0..(MaxTries - 1)
         /\ caller[g].op \in [kind : Kind, runs : Nat, seen : Nat,
                              fate : {"none", "open", "done", "unprepared", "gaveUp"}]
         /\ Fixed(g) => caller[g].conn \in Conn

\* What the server ran was observed once, and what was observed was one call,
\* whatever path it took: refused, skipped and prepared, tried again on other
\* connections (the comments on double counting, driver.go:130-136).
ObservedOnce ==
    \A g \in Caller : /\ caller[g].op.runs <= caller[g].op.seen
                      /\ caller[g].op.seen <= 1
                      /\ caller[g].op.fate = "done" => caller[g].op.seen = 1

\* Two writes of one unit were sent to the server in one transaction: no
\* violation is missed by merging what callers did on a connection that the
\* pool handed on, or that was broken and opened again (session.go:14-16).
NeverMerged ==
    \A u, v \in units :
        u.unit # 0 => u.tx # 0 /\ (u.unit = v.unit => u.tx = v.tx)

\* Two writes of one transaction belong to one unit: no violation is reported
\* for what the server commits at once. Excepted is a driver-level begin on a
\* connection in a transaction, of which session.go:75-78 warns.
NeverSplit ==
    \A u, v \in units :
        u.tx # 0 => u.unit # 0 /\ (u.tx = v.tx /\ u.tx \notin joined => u.unit = v.unit)

\* The txID of a connection is non-zero exactly while the server has it in a
\* transaction (session.go:33), between calls, in the pool, and after them.
\* Transaction control that never reached the server, and is observed all the
\* same (driver.go:139), misleads the Session until the next end of a
\* transaction on that connection, and no longer.
SessionFollowsServer ==
    \A c \in Conn \ astray :
        life[c] \in {"free", "held"} => (session[c] # 0 <=> server[c] # 0)

\* A statement of a Tx that was answered with ErrBadConn, and is over, has been
\* observed: "database/sql retries on a fresh
\* connection; the retry will be recorded" (driver.go:135).
RetryIsRecorded ==
    \A g \in Caller : caller[g].inTx /\ caller[g].op.fate = "gaveUp" =>
                          caller[g].op.seen = 1
=============================================================================
