# Verification of go-txnproof

txnproof watches the SQL statements of a Go program and reports every *logical
boundary* (a use case, a request, a job) whose writes are spread over two or
more atomic units: distinct transactions, or auto-commit writes, each of which
is a unit of its own. This directory holds TLA+ models of its parts, TLC
configurations that check them on small instances, and TLAPS proofs for every
value of the constants. `PROJECT.json` maps every definition to the lines it
models.

## The system

| part | state | operations | used by |
|---|---|---|---|
| `Detector` (`detector.go`) | the reporters, the options, the atomic counter `txSeq` | `New`, `StartBoundary`, `record`, `finishBoundary` | everything |
| `Boundary` (`detector.go`) | under `mu`: the allow mark, the recorded statements and how many the cap dropped, the tally of write transactions (inline array and overflow map), the number of auto-commit writes, `finished` | `AllowNonAtomic`, `AllowNonAtomicHere`, `record`, `Finish` | request goroutines |
| `Session` (`session.go`) | the transaction its connection is in (`txID`), no lock: a connection is used serially | `Observe`, `BeginTx`, `EndTx` | driver middleware, native integrations |
| `Allowlist` (`allowlist.go`) | under `mu`: per boundary name, the exact counts and the `used` flag | `Add`, `allow`, `UnusedEntries` | `finishBoundary`, CI |
| Reporters (`reporter.go`) | what was reported | `Report` and three optional interfaces | `finishBoundary`, `StartBoundary`, `record` |
| `ThrottlingReporter` (`throttle.go`) | under `mu`: per kind of report and key, when one was last forwarded and how many were suppressed | four `Report…` methods, `Suppressed…` snapshots | wraps a reporter |
| `Baseline`, `BaselineReporter` (`baseline.go`) | names that are tolerated, and whether each suppressed something | `Add`, `covers`, `Save`, `LoadBaseline` | wraps a reporter |
| driver middleware (`driver.go`) | one `Session` per wrapped connection | the `driver.Conn`, `Stmt` and `Tx` methods | `database/sql` |
| `mycheck`, `pgcheck` | per-thread transaction state while a log is replayed | `Parse`, `Verify` | tests |
| `crosscheck` | none | `Check`, `Scenario` | `mycheck`, `pgcheck` |
| `DefaultClassifier` (`classify.go`) | none | text to statement kind | `Session`, `wrappedStmt`, checkers |
| pgx tracer (`e2e/pgxtracer.go`) | under `mu`: a `Session` per connection, the connections whose batch it has bracketed | query and batch callbacks, `forget` | pgx |

They interact by calls only. A statement goes from a wrapped connection to its
`Session`, which moves its transaction state and calls `record` with the
statement's kind and transaction; `record` finds the innermost boundary through
the context and enters that boundary's lock. `Finish` takes the same lock once,
sets `finished`, reads the count and the mark, releases the lock, and decides
on the values it read; then the allowlist is consulted under the allowlist's
lock, the statements are copied without a lock, and the reporters are called one
after the other without a lock.

What is hard about it:

* **Concurrency.** One boundary is reached from several connections, marked from
  any goroutine and finished from any; `Finish` works on after it has unlocked.
* **Ordering.** A statement that was observed may reach `record` after `Finish`.
  Reporters are called outside every lock.
* **Counting at limits.** The tally changes representation after four
  transactions; the timeline stops at a cap while the count may not; the
  statement map of the throttle stops growing and must lose nothing.
* **Text.** One statement comes in many layouts, and is read three times: by the
  client, by the server, and by the checker that has it from a log, line by line.
* **Rot prevention.** An exemption that suppressed nothing must be visible, and
  one that did must not be called unused, while entries come and go.
* **What must eventually happen.** A verdict that is due reaches every reporter.

What makes each part correct:

* Boundary: each unit that reached it while open is counted once, whatever the
  caps; nothing it shows after `Finish` ever changes.
* Session: two transactions never share an identifier.
* Finish: one verdict per boundary, true when it is given and for ever after,
  and given in the end.
* Allowlist: a used entry has suppressed a violation it covers, and an unused
  one has not.
* Driver middleware: what the server ran was observed once, and two writes share
  a unit exactly when the server ran them in one transaction.
* Baseline: a loaded entry is tolerated for the whole run, an entry is unused
  exactly when it suppressed nothing, and a baseline that was saved by halves is
  never taken for a smaller one.
* Server-side checkers: statements have one identity exactly when the server ran
  them in one transaction, and a verdict that cannot be right is refused.
* `DefaultClassifier`: whatever comments and blanks surround its words, a
  statement is a write, a begin or an end exactly when the server takes it so.
* pgx tracer: a batch is one unit exactly when the server runs it as one.
* ThrottlingReporter: no report is lost uncounted; a key is heard of at most
  once per interval, and is never silent without a recent report.

## The modules

### Detector core

| module | |
|---|---|
| `WriteTally` | the data structure of `noteWriteTx`: inline array, overflow set, total |
| `Detector` | sessions, boundaries, allowlist, finishing goroutines |
| `BoundaryPromise` | what the detector promises for a boundary, without saying how |
| `DetectorProperties` | the type invariant, the properties, the refinement mapping |
| `MCDetector` | constants of the TLC instances |
| `WriteTallyProofs`, `DetectorProofs` | the tally, the count, and what freezes |
| `VerdictProofs` | verdicts, the allowlist, identifiers, the timeline |
| `PromiseProofs` | the refinement of `BoundaryPromise`, its safety part |

**State.** `txSeq`, `connTx` and `obs` are the detector's counter, `Session.txID`
of each connection, and the call of `record` that the connection is making.
`started`, `allowed`, `allowUnits`, `statements`, `truncated`, `tally`,
`autoCommitWrites` and `finished` are the fields of each boundary. `call` holds,
for each finishing goroutine, what `finishBoundary` keeps in local variables and
where it stands. `entries` is the allowlist; `violations`, `staleAllows`,
`nested` and `unbounded` are what reporters received. `ledgerTxs` and
`ledgerAutos` are history: which units reached the boundary while it was open,
kept as a set, independently of the tally.

**Steps.** One action is one critical section or one call into another part.

| action | code |
|---|---|
| `StartBoundary`, `AllowNonAtomicHere` | the functions of that name; the option `AllowNonAtomic` is the choice inside `StartBoundary` |
| `Observe`, `BeginTx`, `EndTx` | `Session`: the transaction state moves, then the statement is on its way to `record` |
| `Record`, `RecordUnbounded` | `record`: the locked part, and the part without a boundary |
| `Finish` | the locked part of `finishBoundary` and the decision taken on what it read |
| `SuppressByAllowlist`, `PrepareViolation` | `Allowlist.allow` accepts, or declines and the statements are copied |
| `Report`, `ReportStaleAllow`, `Return` | one turn of the loop over the reporters, and its end |
| `AllowlistAdd` | `Allowlist.Add` |

Between `Observe` and `Record`, and between any two steps of a finishing
goroutine, everything else may run. A context is modelled by its innermost
boundary, which is what `Boundary.Value` returns; a statement by its kind and
transaction; an `AllowNonAtomic` mark or an entry by its set of exact counts.

**Abstraction.** `BoundaryPromise` has a phase, a set of write transactions, a
number of auto-commit writes and a mark per boundary, and says that a closed
boundary with two units or more that nothing excuses is told to every reporter,
once, with that number. It has no tally, no cap, no sessions, no goroutines and
no loop. `Promise` in `DetectorProperties` is the instance over the detector's
state: the units come from the history, `excused` is "finished, unexcused by the
mark, nobody at work on it and the first reporter not told", and `told` is what
each reporter received.

### Throttling reporter

`Throttle` models `admit` and its four callers: `Bypass` (a non-positive interval), `AdmitUntracked` (the map is
full), `AdmitFirst`, `AdmitAgain` and `Suppress` are the branches inside the
mutex, `Deliver` the call of the wrapped reporter after it. `Tick` is the clock,
which may stand still between reports and never goes back (`time.Now` carries a
monotonic reading). A report is its kind and its key. `arrived`, `delivered` and
`admittedAt` are history.

`ThrottleKey` is `unboundedWriteKey`, which makes the key of a statement: one
step per rune of its loop, with the buffer and the pending space as state. A
rune is the sequence of its bytes, so that a key may end in the middle of one.
`Normalized` is the reference: the statement with one blank between words and
none around them. `MCThrottle` explores both in one instance, each while the
other is at rest; `ThrottleProofs` has the proofs about both.

### Driver middleware

`Driver` models `driver.go` between two external parties: above it `database/sql`
(the pool, retries after `driver.ErrBadConn`, the prepared path after
`driver.ErrSkip`, a `sql.Conn` or `sql.Tx` that keeps its connection), below it
a driver and a server. `session` and `txSeq` are the `Session.txID` of each
wrapped connection and the detector's counter; `server` is the transaction that
the server has on each connection. `life` says whether a connection is in the
pool, held, or broken inside a transaction; a place that is `none` is taken by a
new wrapped connection. `units` is history: for each write that was observed,
the server's transaction and the unit the `Session` gave it, and `op` of a
caller counts how often its statement ran and was observed.

| action | code |
|---|---|
| `Connect`, `ConnectFails` | `wrappedDriver.Open`, `wrappedConnector.Connect` |
| `Reuse`, `ReuseFails` | `wrappedConn.ResetSession`, `IsValid` on a free connection |
| `Run`, `Refuse`, `Skip`, `Bad` | `ExecContext` and `QueryContext` of `wrappedConn` and `wrappedStmt`, by what the driver answers; `IsObserved` is the test all of them make |
| `PrepareFails` | `wrappedConn.PrepareContext` |
| `BeginTx`, `BeginFails`, `EndTx` | `wrappedConn.BeginTx` and `Begin`, `wrappedTx.Commit` and `Rollback`; a rollback by `database/sql` when a context is done is an `EndTx` as well |
| `Submit`, `Ask`, `Release`, `Close` | what callers and the pool ask for |

A call is one step: while it runs nobody else uses the connection, and what it
shares with others is the atomic counter. `Refuse` is every error that is
neither `ErrSkip` nor `ErrBadConn`, of every kind of statement: the server
refuses it, a named argument for a legacy driver fails in `namedValuesToValues`,
or the context is done before anything is sent. All of them are observed. When
the statement was a BEGIN or an end that would have changed something
(`Matters`), the `Session` now disagrees with the server: the connection joins
`astray`, and leaves it at the next end of a transaction, or a driver-level
begin that the server takes. What is written there meanwhile is not entered in
`units`, and `SessionFollowsServer` speaks of the other connections: the code
accepts the disagreement (`session.go:25-30` counts what was submitted) and the
property says how long it lasts. `DriverProofs` holds the proofs.

### Server-side checkers

| module | |
|---|---|
| `Classifier` | `DefaultClassifier`, and the token helpers of `mycheck`: functions of a text |
| `SqlText` | how SQL statements are written (external): words, with blanks and comments around them |
| `ServerLog` | the loops of both `Parse`: from lines to statements |
| `CrossCheck` | server, log, adapters, verdict, and the client's Sessions |
| `MCCrossCheck` | the instances: commands as words, their texts in many layouts |
| `CrossCheckProofs` | identities, verdicts and the client's count, for any texts; how texts are read, for any layout |

A text is a sequence of tokens: words, blanks, newlines and the characters that
make comments. `DefaultClassifier`, `SecondToken`, `IsImplicitCommit` and the
rest work on the text alone, as the code does. What the server does with a
statement follows from its command, which it parses as it should: a *world* says
in which texts each command is written, and `TextsRead` says that the classifier
takes every one of them for what the server does with it. So the classifier is
compared with the server, and not with a reading of its own rules. `SqlText` says
how a text of a command looks: its words (`IsCommand`), and any number of gaps
before, between and after them (`AreGaps`), each a blank or a comment as the
server delimits it (`IsGap`), which is not how `StripLeading` looks for the end of
one. The assumption `ExecutedTexts` has TLC check that the texts of the worlds
are such texts.

A log entry is a first line and a line for every further line of its text;
`MyRead` and `PgRead` are what one turn of the loop in `Parse` does with the
first line, by what the regular expressions say of it (a statement, another
entry, a line of the server's own), and how the further lines are joined to what
`tail` says they belong to. `Parse` reads the log from front to back and looks
only at what came before, so an entry is read in the step that logs it.

`CrossCheck` runs one scenario twice, as it were. The server (external) executes
statements on its connections and gives each the transaction it runs in; the
adapter (`MyIdentity` and `ThreadAfter` for `mycheck`, `PgIdentity` for
`pgcheck`) gives the logged statement an identity; a `Session` per connection
attributes it on the client. `stmts` is what `Parse` has returned. The verdict
(`Scenario`, `Rejected`, `Unattributed`, `WriteUnits`, `Verified`) is made of
operators over `stmts`: a pure function of the log.

`Execute` is a statement on a connection, in one of its texts; `LogOther` an entry that
carries no statement; `Quit` an orderly end, which MySQL logs; `Lose` an end
that is not logged; `Restart` a new run of the server, whose thread ids start
over, with the banner it writes. `BatchStart` and `BatchEnd` are the callbacks of
the pgx tracer around a batch, together with the pipelined transaction of the
server; the statements of the batch are `Execute`. `ConnectionEnds`, which is
part of `Quit` and `Lose`, includes the tracer's `forget`.

One specification serves several servers: the constant `Instances` gives each
world its dialect, the texts of its commands and of other entries, what the
prefix of a PostgreSQL line captures (`%v`, `%x` or both), whether connections
may break inside transactions (`unclean`), whether batches are sent, and its
bounds; `Init` picks one. `logged` is the rest of the PostgreSQL configuration:
lines written before the statement (`log_statement`) or after it
(`log_min_duration_statement`).

### Baseline

`Baseline` models `baseline.go` over several runs of a program that share a
file. `Swallow` and `Pass` are `BaselineReporter.Report` by the answer of
`covers`; the wrapped reporter is called outside the mutex (`Forward`). `Save`
takes the names under the mutex, `Truncate` and `WriteOut` are the two halves of
`os.WriteFile`, and `Stop` may fall between them. `Ratchet` is the team removing
the entries that `UnusedEntries` listed after a run. `BaselineProofs` holds the
proofs.

## What the runs check

| run | instance | shows |
|---|---|---|
| `detector_finish` | 2 boundaries of one name, 2 finishing goroutines, 1 connection, 2 reporters of which one takes stale allows, recording cap 1, inline capacity 1, marks and entries `{}` or `{2}`, 3 statements per boundary | `ViolationSound`, `SoleVerdict`, `UsedMeansSuppressed`, `FrozenAfterFinish` |
| `detector_counting` | 1 boundary, 2 connections, 2 transactions, inline capacity 1, recording cap 2, 4 statements, reads, writes, textual and API transactions | `TypeOK`, `TallyExact`, `CountsEveryWrite`, `TimelineExplainsUnits`, `FreshTransaction` |
| `detector_promise` | 1 boundary, 2 finishing goroutines, 1 connection, 2 transactions, 2 reporters, marks and entries, unbounded writes | `EveryVerdictSettles`, `PromiseKept` (the refinement of `BoundaryPromise`, with its fairness) |
| `detector_readd` | 1 boundary, 1 entry that is added twice | finds `UnusedMeansNeverSuppressed` violated (below) |
| `driver` | 2 goroutines, 2 connections, writes, `BEGIN` and `COMMIT` as text, each of which may be refused, 2 transactions, 2 attempts | `TypeOK`, `ObservedOnce`, `NeverMerged`, `NeverSplit`, `SessionFollowsServer` |
| `driver_pinned` | 1 goroutine, 1 connection, 1 transaction | finds `RetryIsRecorded` violated (below) |
| `crosscheck` | 2 connections in each of twelve worlds (below) | `TextsRead`, `TypeOK`, `GroupedAsRun`, `VerdictSound`, `NoFalseAlarm`, `ClientAgreesOnPostgres` |
| `crosscheck_restart` | 1 connection of a MySQL server that may go down inside a transaction | finds `GroupedAsRun` violated (below) |
| `crosscheck_nested` | 1 connection of a MySQL server, 5 statements | finds `ClientAgrees` violated (below) |
| `crosscheck_rollback_work` | 1 connection of a PostgreSQL server, savepoints, 5 statements | finds `NoFalseAlarm` violated (below) |
| `baseline` | 2 names, 2 goroutines, 3 runs | `TypeOK`, `UnusedIsExact`, `LoadedIsCommitted`, `ToleratesLoaded` |
| `throttle` | 2 goroutines, 2 keys over a statement map of one, interval 0 or 2, clock to 4, 4 reports; statements of up to 6 runes of one and two bytes, keys of 4 bytes | `TypeOK`, `Conservation`, `OncePerInterval`, `MemoryBounded`, `SuppressedBehindForward`, `KeyIsNormalizedPrefix` |

The worlds of `crosscheck` (`Servers` in `MCCrossCheck`):

| world | |
|---|---|
| `mysql` | 3 statements: writes, DDL, temporary tables, autocommit turned off and on, transactions; 2 runs of the server, clean ends |
| `mysqlScenario`, `postgresScenario` | 4 statements: writes, `BEGIN`, and the marks of a scenario; on MySQL `SET autocommit = 1` anywhere, on PostgreSQL `%x` and unclean ends |
| `mysqlAutocommit` | 5 statements: writes, marks, and `SET autocommit = 0` before, in and after the scenario |
| `mysqlSavepoints` | 4 statements, `ROLLBACK TO` with comments before and between its words |
| `mysqlLog`, `postgresLog` | 3 statements of several lines, with entries of one line and of two between them |
| `postgres` | 3 statements, every line prefix and both timings, unclean ends |
| `postgresBatches` | 3 statements with `%v`, batches inside and outside of transactions, broken connections |
| `postgresRestart` | the same with `%x` and 2 runs of the server: who lost a connection in a batch or a transaction has it again |
| `mysqlTexts`, `postgresTexts` | every command in hundreds of layouts, for `TextsRead`, which reads them all; nothing is executed |

A layout is what stands before the first word and between words: line comments
with every body of up to two tokens (and the blank that MySQL wants in front of
it), likewise block comments, one or two of them in front, others between the
words.

The bounds are named in the constants (`MaxTx`, `MaxStatements`, `MaxUnbounded`,
`MaxTime`, `MaxReports`, `MaxRuns`, `MaxRunes`, and `runs` and `statements` of a
world) and are guards of the actions that would pass them. They are enough for
the interesting cases: two transactions pass an inline capacity of one and each
is met again on either side of it; four statements pass a recording cap of two
with reads and writes on both sides of it; three statements make zero, one, two
and three units, so that every branch after `units < 2`, and a count that `{2}`
covers and one that it declines, are reached; two goroutines and two boundaries
of one name make two verdicts share an entry. A clock of four ticks with an
interval of two makes a key be forwarded three times, and a cap of one with two
keys makes the map full. Two connections and two transactions are enough for a
connection to be handed on inside a transaction while another one is begun
elsewhere, and two attempts (the library makes three) for a retry and for giving
up; the number of statements is not bounded in `driver`. Six runes fill a key of
four bytes with a pending space, and with half a rune, and go on. Three
statements hold a transaction of one thread with a statement of another inside
it, or one on either side of a restart; four add the marks around two
writes, or a savepoint, and five a `SET autocommit` before, between or behind them. How a text is read does not depend on the statements
before it, so that nothing need be executed where the layouts are. Three runs
save a baseline, load it, ratchet it and load it again.

The capacities of the code (4 transactions inline, 200 statements, 1024 keys)
are constants; the theorems hold for all of them.

`throttle`, `baseline` and the `crosscheck` runs have `CHECK_DEADLOCK FALSE`: the
goroutines of a program may stop reporting, a program and a log may end, and the
instances stop at their bounds. The detector and driver runs check deadlock:
`AllowlistAdd`, boundaries being used, and reserving a connection and giving it
back are always possible.

Goroutines, connections, keys, baseline names and boundaries of one name are
interchangeable, and the runs without liveness take them up to permutation
(`Symmetry`). `driver` also takes states together that differ in what an idle
goroutine executed last (`View`): the next statement replaces it, and only
`ObservedOnce` looks at it.

**Fairness.** `FairSpec` has weak fairness for a goroutine inside `record` and
inside `finishBoundary`. Neither waits for anything except a mutex whose holder
runs a few statements and gives it back; Go schedules a runnable goroutine in
the end. Reporters are assumed to return. No fairness is assumed for callers: a
boundary need not ever be finished, nor a statement executed.

**Assumptions.** In `driver` a statement is either run or refused, a BEGIN in a
transaction is ignored, as PostgreSQL does, a driver without `Execer` is one
that always answers `ErrSkip`, as `wrappedConn` does for it, and a driver
answers `ErrBadConn` only for what the server did not run, as
`database/sql/driver` demands. `NeverSplit` excepts a driver-level begin on a
connection that is in a textual transaction: `wrappedConn.BeginTx` starts a new
unit there, which is what `session.go:75-78` warns integrations of.

`mycheck` assumes that autocommit is enabled (`mycheck.go:67-68`) and says what
follows otherwise: it can mis-group (`README.md:451` of the repository). It refuses
a change of the mode inside the slice that it verifies and ignores one outside.
Three properties state that assumption, each no more of it than it needs:

* `GroupedAsRun` is about statements before which their own connection has not
  turned autocommit off (`AutocommitKept`); what other connections do with theirs
  does not matter;
* `VerdictSound`, of a scenario, supposes that the connections which have
  statements in it did not turn autocommit off before it began. All else is
  covered: `SET autocommit = 1` anywhere (`TestAutocommitChangeOutsideScenarioIsIgnored`),
  changes on other connections and behind the end marker, and any change inside,
  which must be refused. Of the whole log it supposes nothing;
* `NoFalseAlarm` is about logs in which nobody turns autocommit off: the `Session`
  does not follow it, and takes the writes of one such transaction for units
  of their own.

Without the supposition `VerdictSound` is false: after `SET autocommit = 0`, the
begin marker and two writes, which the server runs in one transaction, `mycheck`
counts two units and refuses nothing. To have the mode on again when the scenario
begins would not be enough: `SET autocommit = 1` commits what is open, which
`mycheck` does not follow, so that after `SET autocommit = 0`, `BEGIN` and
`SET autocommit = 1` it has the connection in a transaction that is over.

The texts of `crosscheck` and of `SqlText` are the ones on which code and server
are meant to agree. Left out, each where the code reads something else or gives up:

* a block comment whose body begins with `/` (`stripLeading` looks for the end
  of a comment from its opening on, and takes `/*/` for a whole one), and nested
  block comments, which PostgreSQL has;
* `#` comments, which `mycheck` skips and `DefaultClassifier` does not;
* what looks like a comment and is none to MySQL: `/*! ... */`, which it
  executes, and `--` without a blank behind it. The runs have none, and where
  `SqlText` speaks of a comment, one that the server takes for a comment is meant;
* statements that `IsCommand` does not name, `ROLLBACK WORK TO` among them
  (`crosscheck_rollback_work`, below);
* a word that modifies in a comment or a `FOR UPDATE` of a `WITH` query, which
  `containsWriteToken` counts as a write, on purpose;
* `COMMIT AND CHAIN`, `PREPARE TRANSACTION`, and transaction control inside a
  batch;
* a further line of a MySQL entry that looks like the beginning of an entry or
  like the banner, which the log does not tell apart.

`DetectorAssumption` asks for at least one reporter. With none,
`finishBoundary` runs an empty loop and there is nothing to say.

## Where the code and its documentation disagree

`detector_readd`: `Allowlist.Add` replaces the entry of a name
(`allowlist.go:48`), and with it the flag that the entry has suppressed a
violation. `allowlist.go:72` says that `UnusedEntries` returns the names "that
never suppressed a violation". A name that is registered a second time after it
suppressed one is therefore returned, and a CI job that fails on unused entries
asks for the removal of an entry that is needed. `Baseline.Add`
(`baseline.go:62`) keeps the flag in the same situation.

`driver_pinned`: after `ErrBadConn` a statement is not observed, because
"database/sql retries on a fresh connection; the retry will be recorded"
(`driver.go:135-136`). That is so for a statement on the `sql.DB`, and `driver`
shows that it is then observed once. In a `sql.Tx` or on a `sql.Conn` the
connection is fixed and the error goes to the caller: the write was submitted,
nothing observes it, and a boundary whose second write died this way looks
atomic, although submitted statements are meant to count "whether or not they
later succeed" (`session.go:25-26`).

`crosscheck_restart`: `mycheck` keeps the state of a thread for the whole log
(`mycheck/parse.go:102`). A server that goes down with a transaction open logs no
Quit, counts its threads from the start again, and the statements of the new
connection with that id are attributed to the old transaction. The adapter
contract (`crosscheck/crosscheck.go:27-28`) asks for equal identities "exactly
when the server ran them in the same transaction". With clean ends
(`crosscheck`, world `mysql`) it is kept.

`crosscheck_nested`: a textual BEGIN in a transaction keeps the identifier,
"matching the server's behavior" (`session.go:74-75`). MySQL commits and starts
another transaction, as `mycheck/parse.go:127-129` says, so the client counts one
unit where the server ran two. On PostgreSQL the two agree
(`ClientAgreesOnPostgres`), and on MySQL the client may miss a unit but never
invents one (`NoFalseAlarm`).

`crosscheck_rollback_work`: "ROLLBACK TO [SAVEPOINT] does not end the
transaction" (`classify.go:80`), but `secondTokenIsTo` looks for `TO` right after
the first word, and both servers accept `ROLLBACK WORK TO` (PostgreSQL also
`ROLLBACK TRANSACTION TO`). That is read as the end of the transaction: the
`Session` leaves one which the server still has, the next write is counted as a
unit of its own, and a boundary that is atomic is reported. `mycheck` reads the
statement the same way.

## What is proved

For every set of boundaries, connections, goroutines, reporters, keys and
callers, and every value of the caps:

* **`WriteTallyProofs`.** `NoteWriteTxExact`: `noteWriteTx` keeps the tally exact
  (no identifier stored twice, the overflow set empty until the array is full,
  `n` the number stored) and adds exactly the identifier it is given. This is
  the lemma on which the count rests.
* **`DetectorProofs`.** `TypeCorrect`; `TallyAlwaysExact`; `EveryWriteIsCounted`;
  `Frozen`. The count needs a strengthening: `CountsEveryWrite` compares two
  numbers and is not inductive. The invariant adds that the tally is exact and
  that the identifiers it stores *are* the set `ledgerTxs`; from that and the
  lemma, `n` and the cardinality of the history go up together or not at all.
  `Frozen` needs only that a finished boundary was started.
* **`ThrottleProofs`.** `TypeCorrect`; `NoReportLost`; `Spaced`; `Bounded`;
  `NeverSuppressedAlone`. The invariant `IInv` ties each window to the history:
  the window's start is the last admission of its key, which no admission
  follows until an interval has passed; an untracked key has suppressed nothing
  and, if it was ever let through, found the map full; and the arrivals of a key are what
  was delivered, what is in hand and what was suppressed. Each action is one of
  three steps for a key (untouched, admitted, dropped), and the invariant is
  preserved by each of the three. `KeyExact` is about `unboundedWriteKey`, over
  statements of any number of runes and keys of any length: the invariant says
  that the buffer is the normalized statement cut at the limit, and, while the
  buffer is not full, that a space is pending exactly when a blank is due before
  the next word. What a rune adds to the normalized statement depends on the
  runes before it only (`ReadAppends`); once the buffer is full, nothing that is
  added behind changes the cut (`UpToAppend`), so that stopping early is right.
* **`VerdictProofs`.** `ToldTheTruth`, `OneVerdict`, `UsedHasSuppressed`,
  `TransactionsFresh`, `TimelinesExplain`. `VerdictInv` has a part for every
  goroutine inside `finishBoundary`: its boundary is finished, what it read
  under the lock is still what the boundary says, no reporter from its position
  on has heard of the boundary, and no two goroutines have the same one. `Frozen`
  is what makes this inductive: other goroutines cannot change what was read.
  Fresh identifiers follow from "every identifier in use is at most `txSeq`".
  The timeline's invariant (`TimelineInv`) is that it shows no unit which was not
  counted, and that the units it shows and the statements which the cap dropped
  are together no fewer than the units counted.
* **`PromiseProofs`.** `PromiseNeverBroken`: `Spec => Promise!Spec`. Each action
  is one of the promise's or leaves what the promise sees as it was:
  `StartBoundary` is `Open` (marked or not), `Record` is a write of the promise
  while the boundary is open and nothing afterwards, `Finish` is `Close`,
  `SuppressByAllowlist` is `Excuse`, `Report` is `Tell`. The delicate one is
  `Return`, where a goroutine forgets its boundary: the mapping calls a boundary
  excused when nobody works on it and the first reporter was not told, so the
  proof needs that a goroutine which reports has told every reporter before
  its position (`Handed`), and that there is one.
* **`DriverProofs`.** `TypeCorrect`, `CallsObservedOnce`, `SessionFollows`,
  `UnitsNotMerged`, `UnitsNotSplit`, over any number of goroutines and
  connections and any bound on retries and transactions. The invariant says who
  owns each connection, that outside `astray` the `Session` has a transaction
  exactly when the server has, and that the pair of the two is the one which
  earlier writes in either of them were entered with. Every action is one of six
  kinds of step (nothing changes, a connection is lost, both sides are cleared, a
  transaction begins, one side goes astray, a write is observed), and the
  invariant is kept by each.
* **`CrossCheckProofs`.** `TypeCorrect`, `IdentityIsTransaction`, `VerdictsRight`,
  `AlarmsTrue`, `ClientExactOnPostgres`, for any connections, texts, line
  prefixes, other entries and numbers of statements and runs. All but the first
  are about worlds whose texts are read right: `TextsRead`, which is a property
  of the classifier and of the texts, the same in every state of a behaviour.
  `TextsAreRead` proves it of every world whose texts are SQL (`SqlTexts`: each is
  a text of its command as `SqlText` has it), and `RightOnSql` puts the two
  together, so that nothing is assumed of how texts are read. `TextsAreRead` is
  about layouts of any number and length of blanks and comments. `StripLeading` is
  a loop, in the model a function that refers to itself at a later position
  (`Jump`); that there is one (`FollowExists`), and that it passes any number of
  gaps (`GapsSkipped`), is shown by the least counterexample. A gap is passed at
  once (`GapJumps`: the end that `stripLeading` finds is the end of the comment),
  nothing moves past a word, what is left behind the first word is laid out as the
  text was (`GapsShift`), and so the first two words are those that were written
  (`WordsRead`), which decide what each command is taken for (`TextRead`).
  The first lemmas of the module show that the lines of an entry, put together,
  are its text, so that a kind in the log is the kind of what was executed.
  Two invariants are about the client. `SessionOK`: a connection that the server
  has in a transaction has a `Session` in one, and all its writes since are
  attributed to that one, so that no transaction is split over two units; that
  is `NoFalseAlarm`, by counting (a map from transactions onto units). `UnitsOK`,
  on PostgreSQL: a `Session` is in a transaction only if the server is, so that
  no unit joins two. Two are about the log: on PostgreSQL equal numbers name
  equal transactions, and on MySQL a thread as `mycheck` reconstructs it is in a
  transaction exactly when the server's is, and the number it gives is that of
  the current one (`IdentitiesOK`), as long as the thread has not turned autocommit
  off (`Steady`; until then the server has it on, `ServerOK`). In a slice that is not
  refused nobody turns it off, so that what is steady when the slice begins is
  steady to its end (`SliceKept`). With equal identities exactly where
  transactions are equal, the units that a verdict counts are as many as the
  transactions that wrote, over the whole log and over the slice between marks.
  The two theorems on identities and verdicts hold as long as the numbers last
  (`NumbersLast`): the server is in its first run; or it is a MySQL server whose
  connections all end with a Quit, after which a thread id begins afresh; or it
  is a PostgreSQL server whose identities are made of `%x` alone, as local
  numbers (`%v`) start over with the server. Without it they are false:
  `crosscheck_restart` is the counterexample for MySQL.
* **`BaselineProofs`.** `TypeCorrect`, `UnusedExact`, `OnlyCommittedLoaded`,
  `LoadedTolerated`, over any names, goroutines and number of runs. What a run
  loads is what a whole file had, and a whole file has what was committed; used
  entries are the swallowed ones; what goroutines hold or have forwarded is
  disjoint from what was loaded, as a name that is in `entries` never leaves it
  during a run.

The assumptions are the named `ASSUME`s of the modules: finite sets where
cardinalities are taken, a cap of at least one key, at least one reporter.

Model-checked only: liveness, and with it the fairness part of the refinement
(`EveryVerdictSettles`, `PromiseKept`), which the prover cannot do. Every other
property of the passing runs is stated by a theorem. Of `crosscheck`, the run
still says something of its own: that the texts of `SqlText` exist, and that the
classifier reads them, computed and not reasoned about.

## Not modelled

* The regular expressions that recognize a log line, and the translation of
  `log_line_prefix` into one: what they say of a line is given with it. Messages,
  reasons and labels, and the formatting of `SlogReporter` and of the `Require`
  helpers, are wording.
* Boundary attributes and times are carried along and change nothing. `nullDB`
  has no state. The examples have no logic of their own, and of the end-to-end
  tests only the tracer is an integration.
* In `Driver`: a driver whose `ResetSession` itself ends a transaction, and
  `Stmt.Exec` and `Stmt.Query` called without a context (which `database/sql`
  does not do on a wrapped statement).
* A reporter that panics or never returns.

Each component's status is in `PROJECT.json`.

## Plan

Done: `WriteTally`, `Detector` and `BoundaryPromise` with the refinement;
`Throttle` and `ThrottleKey`; `Classifier`, `ServerLog` and `CrossCheck` with
the pgx tracer; `Driver` over an external `database/sql`; `Baseline` over
several runs; `SqlText`, which says of what the texts of `CrossCheck` are
instances; their runs, and the proofs named above.

Open: `BaselineReporter` composed with `ThrottlingReporter`, in either order: an
entry is used although the report it swallows would have been throttled.
