------------------------------ MODULE Detector ------------------------------
(***************************************************************************)
(* The core of txnproof: Sessions (src/session.go) attribute the           *)
(* statements of their connection to transactions and record them on the   *)
(* boundary of the statement's context; a Boundary (src/detector.go)       *)
(* accumulates them under its mutex until some goroutine finishes it, and  *)
(* the finishing goroutine then decides, outside that mutex, whether each  *)
(* reporter receives a Violation.                                          *)
(*                                                                         *)
(* One action is one critical section or one call into another component.  *)
(* Locks never span two of them, so a lock is implicit in its action.      *)
(* A context is modelled by its innermost boundary (Boundary.Value), and   *)
(* a statement by its kind and the transaction it was attributed to.       *)
(***************************************************************************)
EXTENDS WriteTally, Sequences

CONSTANTS
    Boundary, NoBoundary,   \* boundary handles; a context that carries none
    Conn,                   \* connections, one Session each
    Finisher,               \* goroutines that may call Finish
    Name, NameOf,           \* boundary names, and the name of each boundary
    Reporters,              \* number of reporters, called in index order
    StaleReporters,         \* those that implement StaleAllowReporter
    MaxRecorded,            \* maxRecordedStatements
    ReportNested,           \* WithNestedBoundaryDetection
    ReportUnbounded,        \* WithUnboundedWriteDetection
    MarkCounts,             \* write-unit counts a mark or entry may list
    ObservedKinds,          \* bound: statement kinds the connections execute
    MaxTx,                  \* bound: transaction ids handed out
    MaxStatements,          \* bound: statements observed per boundary
    MaxUnbounded            \* bound: unbounded writes reported

Kind == {"read", "write", "begin", "commit", "rollback", "other"}
Reporter == 1..Reporters
TxId == 1..MaxTx            \* 0 is auto-commit

ASSUME DetectorAssumption ==
    /\ NoBoundary \notin Boundary
    /\ NameOf \in [Boundary -> Name]
    /\ Reporters \in Nat \ {0}
    /\ StaleReporters \subseteq 1..Reporters
    /\ MaxRecorded \in Nat
    /\ ReportNested \in BOOLEAN /\ ReportUnbounded \in BOOLEAN
    /\ MarkCounts \subseteq SUBSET Nat
    /\ ObservedKinds \subseteq Kind
    /\ MaxTx \in Nat /\ MaxStatements \in Nat /\ MaxUnbounded \in Nat

VARIABLES
    txSeq,                  \* Detector.txSeq
    connTx,                 \* Session.txID, 0 outside a transaction
    obs,                    \* the call to record each connection is making
    started,                \* boundaries StartBoundary has returned
    allowed, allowUnits,    \* the in-code allow mark
    statements, truncated,  \* the recorded timeline, the number beyond its cap
    tally,                  \* distinct write transactions (WriteTally)
    autoCommitWrites,
    finished,
    call,                   \* the Finish call each goroutine is making
    entries,                \* the Allowlist
    violations,             \* Violations received, per reporter and boundary
    staleAllows,            \* StaleAllow reports received, likewise
    nested,                 \* <<outer, inner>> pairs reported
    unbounded,              \* number of unbounded writes reported
    ledgerTxs, ledgerAutos  \* history: the write units that reached the boundary
                            \* while it was open, its transactions and the
                            \* number of auto-commit writes

sessionVars == <<txSeq, connTx, obs>>
markVars == <<allowed, allowUnits>>
timelineVars == <<statements, truncated, tally, autoCommitWrites>>
ledgerVars == <<ledgerTxs, ledgerAutos>>
boundaryVars == <<started, finished, markVars, timelineVars, ledgerVars>>
reportVars == <<violations, staleAllows, nested, unbounded>>
vars == <<sessionVars, boundaryVars, call, entries, reportVars>>

Quiet == [ctx |-> NoBoundary, kind |-> "none", tx |-> 0]
NoEntry == [listed |-> FALSE, units |-> {}, used |-> FALSE]
AtRest == [pc |-> "idle", b |-> NoBoundary, units |-> 0, declined |-> {},
           statements |-> <<>>, truncated |-> 0, next |-> 1]

Init ==
    /\ txSeq = 0
    /\ connTx = [c \in Conn |-> 0]
    /\ obs = [c \in Conn |-> Quiet]
    /\ started = {}
    /\ allowed = [b \in Boundary |-> FALSE]
    /\ allowUnits = [b \in Boundary |-> {}]
    /\ statements = [b \in Boundary |-> <<>>]
    /\ truncated = [b \in Boundary |-> 0]
    /\ tally = [b \in Boundary |-> EmptyTally]
    /\ autoCommitWrites = [b \in Boundary |-> 0]
    /\ finished = [b \in Boundary |-> FALSE]
    /\ call = [g \in Finisher |-> AtRest]
    /\ entries = [n \in Name |-> NoEntry]
    /\ violations = [r \in Reporter |-> [b \in Boundary |-> <<>>]]
    /\ staleAllows = [r \in Reporter |-> [b \in Boundary |-> <<>>]]
    /\ nested = {}
    /\ unbounded = 0
    /\ ledgerTxs = [b \in Boundary |-> {}]
    /\ ledgerAutos = [b \in Boundary |-> 0]

(***************************************************************************)
(* Boundaries and marks                                                    *)
(***************************************************************************)

\* Mutant: an allow without counts covers nothing.
CoversListedOnly(counts, units) == units \in counts

\* An allow without counts covers every violating count (coversWriteUnits).
CoversWriteUnits(counts, units) == counts = {} \/ units \in counts

WriteUnits(b) == tally[b].n + autoCommitWrites[b]

\* The last mark wins.
SetMark(b, counts) ==
    /\ allowed' = [allowed EXCEPT ![b] = TRUE]
    /\ allowUnits' = [allowUnits EXCEPT ![b] = counts]

\* StartBoundary, with the AllowNonAtomic option or without it. The nested
\* report names a boundary already in the context, a finished one included.
StartBoundary(b, ctx) ==
    /\ b \notin started
    /\ ctx \in started \cup {NoBoundary}
    /\ started' = started \cup {b}
    /\ \/ UNCHANGED markVars
       \/ \E counts \in MarkCounts : SetMark(b, counts)
    /\ nested' = IF ReportNested /\ ctx # NoBoundary
                 THEN nested \cup {<<ctx, b>>}
                 ELSE nested
    /\ UNCHANGED <<sessionVars, finished, timelineVars, ledgerVars, call,
                   entries, violations, staleAllows, unbounded>>

\* Mutant: the mark is set without testing finished.
AllowEvenLate(b, counts) ==
    /\ b \in started
    /\ SetMark(b, counts)
    /\ UNCHANGED <<sessionVars, started, finished, timelineVars, ledgerVars,
                   call, entries, reportVars>>

\* After Finish the call does nothing.
AllowNonAtomicHere(b, counts) ==
    /\ b \in started
    /\ ~finished[b]
    /\ SetMark(b, counts)
    /\ UNCHANGED <<sessionVars, started, finished, timelineVars, ledgerVars,
                   call, entries, reportVars>>

(***************************************************************************)
(* Sessions: a connection is used serially, so a Session runs one call at  *)
(* a time. Observing a statement first moves the transaction state, then   *)
(* enters the boundary's lock: Finish may come in between.                 *)
(***************************************************************************)

\* Mutant: load and store in place of atomic.Uint64.Add; an increment is lost.
NextTxIDTorn(c) ==
    /\ txSeq < MaxTx
    /\ txSeq' \in {txSeq, txSeq + 1}
    /\ connTx' = [connTx EXCEPT ![c] = txSeq + 1]

NextTxID(c) ==
    /\ txSeq < MaxTx
    /\ txSeq' = txSeq + 1
    /\ connTx' = [connTx EXCEPT ![c] = txSeq + 1]

\* A textual BEGIN opens a transaction unless one is open.
TrackBegin(c) ==
    IF connTx[c] = 0 THEN NextTxID(c) ELSE UNCHANGED <<txSeq, connTx>>

TrackEnd(c) ==
    /\ connTx' = [connTx EXCEPT ![c] = 0]
    /\ UNCHANGED txSeq

Track(c, kind) ==
    \/ kind = "begin" /\ TrackBegin(c)
    \/ kind \in {"commit", "rollback"} /\ TrackEnd(c)
    \/ kind \in {"read", "write", "other"} /\ UNCHANGED <<txSeq, connTx>>

\* Bounds: calls under way may pass each by the number of connections.
WithinBounds(ctx, kind) ==
    IF ctx \in Boundary
    THEN Len(statements[ctx]) + truncated[ctx] < MaxStatements
    ELSE kind = "write" /\ ReportUnbounded => unbounded < MaxUnbounded

Observe(c, ctx, kind) ==
    /\ obs[c] = Quiet
    /\ ctx \in started \cup {NoBoundary}
    /\ WithinBounds(ctx, kind)
    /\ Track(c, kind)
    /\ obs' = [obs EXCEPT ![c] = [ctx |-> ctx, kind |-> kind, tx |-> connTx'[c]]]
    /\ UNCHANGED <<boundaryVars, call, entries, reportVars>>

BeginTx(c) ==
    /\ obs[c] = Quiet
    /\ NextTxID(c)
    /\ UNCHANGED <<obs, boundaryVars, call, entries, reportVars>>

EndTx(c) ==
    /\ obs[c] = Quiet
    /\ TrackEnd(c)
    /\ UNCHANGED <<obs, boundaryVars, call, entries, reportVars>>

\* Mutant: the cap is off by one.
AppendPastCap(b, s) ==
    IF Len(statements[b]) <= MaxRecorded
    THEN /\ statements' = [statements EXCEPT ![b] = Append(statements[b], s)]
         /\ UNCHANGED truncated
    ELSE /\ truncated' = [truncated EXCEPT ![b] = truncated[b] + 1]
         /\ UNCHANGED statements

\* Mutant: a statement beyond the cap leaves no trace.
AppendOrForget(b, s) ==
    /\ statements' = IF Len(statements[b]) < MaxRecorded
                     THEN [statements EXCEPT ![b] = Append(statements[b], s)]
                     ELSE statements
    /\ UNCHANGED truncated

AppendStatement(b, s) ==
    IF Len(statements[b]) < MaxRecorded
    THEN /\ statements' = [statements EXCEPT ![b] = Append(statements[b], s)]
         /\ UNCHANGED truncated
    ELSE /\ truncated' = [truncated EXCEPT ![b] = truncated[b] + 1]
         /\ UNCHANGED statements

\* Mutant: only recorded statements are counted.
CountRecordedWrite(b, txID) ==
    IF Len(statements[b]) >= MaxRecorded
    THEN UNCHANGED <<tally, autoCommitWrites>>
    ELSE IF txID # 0
    THEN /\ tally' = [tally EXCEPT ![b] = NoteWriteTx(tally[b], txID)]
         /\ UNCHANGED autoCommitWrites
    ELSE /\ autoCommitWrites' = [autoCommitWrites EXCEPT ![b] = autoCommitWrites[b] + 1]
         /\ UNCHANGED tally

CountWrite(b, txID) ==
    IF txID # 0
    THEN /\ tally' = [tally EXCEPT ![b] = NoteWriteTx(tally[b], txID)]
         /\ UNCHANGED autoCommitWrites
    ELSE /\ autoCommitWrites' = [autoCommitWrites EXCEPT ![b] = autoCommitWrites[b] + 1]
         /\ UNCHANGED tally

\* History only: the same write, entered in a plain set and a plain number.
EnterInLedger(b, txID) ==
    IF txID # 0
    THEN /\ ledgerTxs' = [ledgerTxs EXCEPT ![b] = ledgerTxs[b] \cup {txID}]
         /\ UNCHANGED ledgerAutos
    ELSE /\ ledgerAutos' = [ledgerAutos EXCEPT ![b] = ledgerAutos[b] + 1]
         /\ UNCHANGED ledgerTxs

RecordOn(b, s) ==
    /\ AppendStatement(b, s)
    /\ IF s.kind = "write"
       THEN CountWrite(b, s.tx) /\ EnterInLedger(b, s.tx)
       ELSE UNCHANGED <<tally, autoCommitWrites, ledgerVars>>

\* Mutant: record does not test finished.
RecordEvenLate(c) ==
    /\ obs[c].kind # "none"
    /\ obs[c].ctx \in Boundary
    /\ RecordOn(obs[c].ctx, [kind |-> obs[c].kind, tx |-> obs[c].tx])
    /\ obs' = [obs EXCEPT ![c] = Quiet]
    /\ UNCHANGED <<txSeq, connTx, started, finished, markVars, call, entries,
                   reportVars>>

\* record, in the boundary's lock; the statement is dropped once finished.
Record(c) ==
    /\ obs[c].kind # "none"
    /\ obs[c].ctx \in Boundary
    /\ IF finished[obs[c].ctx]
       THEN UNCHANGED <<timelineVars, ledgerVars>>
       ELSE RecordOn(obs[c].ctx, [kind |-> obs[c].kind, tx |-> obs[c].tx])
    /\ obs' = [obs EXCEPT ![c] = Quiet]
    /\ UNCHANGED <<txSeq, connTx, started, finished, markVars, call, entries,
                   reportVars>>

\* record with no boundary in the context.
RecordUnbounded(c) ==
    /\ obs[c].kind # "none"
    /\ obs[c].ctx = NoBoundary
    /\ unbounded' = IF obs[c].kind = "write" /\ ReportUnbounded
                    THEN unbounded + 1
                    ELSE unbounded
    /\ obs' = [obs EXCEPT ![c] = Quiet]
    /\ UNCHANGED <<txSeq, connTx, boundaryVars, call, entries, violations,
                   staleAllows, nested>>

(***************************************************************************)
(* Finish                                                                  *)
(***************************************************************************)

\* Mutant: two units are taken for one.
JudgementOffByOne(units, isAllowed, counts) ==
    CASE units <= 2 /\ isAllowed -> "stale"
      [] units <= 2 /\ ~isAllowed -> "idle"
      [] units > 2 /\ isAllowed /\ CoversWriteUnits(counts, units) -> "idle"
      [] OTHER -> "allowlist"

\* What the finishing goroutine does with what it read under the lock.
Judgement(units, isAllowed, counts) ==
    CASE units < 2 /\ isAllowed -> "stale"
      [] units < 2 /\ ~isAllowed -> "idle"
      [] units >= 2 /\ isAllowed /\ CoversWriteUnits(counts, units) -> "idle"
      [] OTHER -> "allowlist"

Judge(g, b) ==
    LET next == Judgement(WriteUnits(b), allowed[b], allowUnits[b]) IN
    call' = [call EXCEPT ![g] =
               IF next = "idle"
               THEN AtRest
               ELSE [pc |-> next, b |-> b, units |-> WriteUnits(b),
                     declined |-> IF allowed[b] THEN allowUnits[b] ELSE {},
                     statements |-> <<>>, truncated |-> 0, next |-> 1]]

\* Mutant: finished is set but not tested.
FinishTwice(g, b) ==
    /\ call[g].pc = "idle"
    /\ b \in started
    /\ finished' = [finished EXCEPT ![b] = TRUE]
    /\ Judge(g, b)
    /\ UNCHANGED <<sessionVars, started, markVars, timelineVars, ledgerVars,
                   entries, reportVars>>

\* The locked section and the decisions on its snapshot. Finishing a boundary
\* that is already finished returns at once and changes nothing.
Finish(g, b) ==
    /\ call[g].pc = "idle"
    /\ b \in started
    /\ ~finished[b]
    /\ finished' = [finished EXCEPT ![b] = TRUE]
    /\ Judge(g, b)
    /\ UNCHANGED <<sessionVars, started, markVars, timelineVars, ledgerVars,
                   entries, reportVars>>

Entry(g) == entries[NameOf[call[g].b]]

EntryApplies(g) ==
    Entry(g).listed /\ CoversWriteUnits(Entry(g).units, call[g].units)

\* Allowlist.allow, when an entry covers the count.
SuppressByAllowlist(g) ==
    /\ call[g].pc = "allowlist"
    /\ EntryApplies(g)
    /\ entries' = [entries EXCEPT ![NameOf[call[g].b]].used = TRUE]
    /\ call' = [call EXCEPT ![g] = AtRest]
    /\ UNCHANGED <<sessionVars, boundaryVars, reportVars>>

\* The finishing goroutine with the Violation it has put together. The counts
\* of the in-code mark are kept when both declined.
WithViolation(g) ==
    [pc |-> "report", b |-> call[g].b, units |-> call[g].units,
     declined |-> IF call[g].declined = {} THEN Entry(g).units ELSE call[g].declined,
     statements |-> statements[call[g].b], truncated |-> truncated[call[g].b],
     next |-> 1]

\* Mutant: an entry that declines is marked used all the same.
DeclineMarksUsed(g) ==
    /\ call[g].pc = "allowlist"
    /\ ~EntryApplies(g)
    /\ entries' = [entries EXCEPT ![NameOf[call[g].b]].used = Entry(g).listed]
    /\ call' = [call EXCEPT ![g] = WithViolation(g)]
    /\ UNCHANGED <<sessionVars, boundaryVars, reportVars>>

\* Allowlist.allow declines; the statements are copied without the lock.
PrepareViolation(g) ==
    /\ call[g].pc = "allowlist"
    /\ ~EntryApplies(g)
    /\ call' = [call EXCEPT ![g] = WithViolation(g)]
    /\ UNCHANGED <<sessionVars, boundaryVars, entries, reportVars>>

Violation(g) ==
    [units |-> call[g].units, declined |-> call[g].declined,
     statements |-> call[g].statements, truncated |-> call[g].truncated]

\* One reporter's Report, called outside every lock.
Report(g) ==
    /\ call[g].pc = "report"
    /\ call[g].next \in Reporter
    /\ violations' = [violations EXCEPT ![call[g].next][call[g].b] =
                        Append(violations[call[g].next][call[g].b], Violation(g))]
    /\ call' = [call EXCEPT ![g].next = call[g].next + 1]
    /\ UNCHANGED <<sessionVars, boundaryVars, entries, staleAllows, nested, unbounded>>

ReportStaleAllow(g) ==
    /\ call[g].pc = "stale"
    /\ call[g].next \in Reporter
    /\ staleAllows' = IF call[g].next \in StaleReporters
                      THEN [staleAllows EXCEPT ![call[g].next][call[g].b] =
                              Append(staleAllows[call[g].next][call[g].b], call[g].units)]
                      ELSE staleAllows
    /\ call' = [call EXCEPT ![g].next = call[g].next + 1]
    /\ UNCHANGED <<sessionVars, boundaryVars, entries, violations, nested, unbounded>>

\* The loop over the reporters ends.
Return(g) ==
    /\ call[g].pc \in {"report", "stale"}
    /\ call[g].next \notin Reporter
    /\ call' = [call EXCEPT ![g] = AtRest]
    /\ UNCHANGED <<sessionVars, boundaryVars, entries, reportVars>>

\* Allowlist.Add: a fresh entry replaces the one the name had.
AllowlistAdd(n, counts) ==
    /\ entries' = [entries EXCEPT ![n] = [listed |-> TRUE, units |-> counts,
                                          used |-> FALSE]]
    /\ UNCHANGED <<sessionVars, boundaryVars, call, reportVars>>

(***************************************************************************)
(* The system. Callers start, mark and finish boundaries and use           *)
(* connections as they please; a goroutine inside Finish or record keeps   *)
(* running, since neither waits for anything but a lock held briefly.      *)
(***************************************************************************)
SessionStep(c) == Record(c) \/ RecordUnbounded(c)

FinisherStep(g) ==
    \/ SuppressByAllowlist(g)
    \/ PrepareViolation(g)
    \/ Report(g)
    \/ ReportStaleAllow(g)
    \/ Return(g)

Next ==
    \/ \E b \in Boundary, ctx \in Boundary \cup {NoBoundary} : StartBoundary(b, ctx)
    \/ \E b \in Boundary, counts \in MarkCounts : AllowNonAtomicHere(b, counts)
    \/ \E c \in Conn :
         \/ \E ctx \in Boundary \cup {NoBoundary}, kind \in ObservedKinds :
              Observe(c, ctx, kind)
         \/ BeginTx(c)
         \/ EndTx(c)
         \/ SessionStep(c)
    \/ \E g \in Finisher : (\E b \in Boundary : Finish(g, b)) \/ FinisherStep(g)
    \/ \E n \in Name, counts \in MarkCounts : AllowlistAdd(n, counts)

Fairness ==
    /\ \A c \in Conn : WF_vars(SessionStep(c))
    /\ \A g \in Finisher : WF_vars(FinisherStep(g))

Spec == Init /\ [][Next]_vars
FairSpec == Spec /\ Fairness
=============================================================================
