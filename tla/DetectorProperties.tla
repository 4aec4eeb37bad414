------------------------- MODULE DetectorProperties -------------------------
(***************************************************************************)
(* What the detector core must satisfy, and the abstract promise it        *)
(* implements (BoundaryPromise).                                           *)
(***************************************************************************)
EXTENDS Detector

Statement == [kind : Kind, tx : 0..MaxTx]
ViolationRecord == [units : Nat, declined : SUBSET Nat,
                    statements : Seq(Statement), truncated : Nat]

SessionsOK ==
    /\ txSeq \in 0..MaxTx
    /\ connTx \in [Conn -> 0..MaxTx]
    /\ obs \in [Conn -> [ctx : Boundary \cup {NoBoundary},
                         kind : Kind \cup {"none"}, tx : 0..MaxTx]]

MarksOK ==
    /\ started \subseteq Boundary
    /\ allowed \in [Boundary -> BOOLEAN]
    /\ allowUnits \in [Boundary -> SUBSET Nat]
    /\ finished \in [Boundary -> BOOLEAN]
    /\ nested \subseteq Boundary \X Boundary

TimelinesOK ==
    /\ statements \in [Boundary -> Seq(Statement)]
    /\ \A b \in Boundary : Len(statements[b]) <= MaxRecorded
    /\ truncated \in [Boundary -> Nat]

CountsOK ==
    /\ tally \in [Boundary -> [inline : [1..InlineCap -> 0..MaxTx],
                               n : Nat, overflow : SUBSET TxId]]
    /\ autoCommitWrites \in [Boundary -> Nat]
    /\ unbounded \in Nat
    /\ ledgerTxs \in [Boundary -> SUBSET TxId]
    /\ ledgerAutos \in [Boundary -> Nat]

Call == [pc : {"idle", "stale", "allowlist", "report"},
         b : Boundary \cup {NoBoundary}, units : Nat, declined : SUBSET Nat,
         statements : Seq(Statement), truncated : Nat, next : 1..Reporters + 1]

VerdictsOK ==
    /\ call \in [Finisher -> Call]
    /\ \A g \in Finisher : call[g].pc # "idle" => call[g].b \in Boundary
    /\ entries \in [Name -> [listed : BOOLEAN, units : SUBSET Nat, used : BOOLEAN]]
    /\ violations \in [Reporter -> [Boundary -> Seq(ViolationRecord)]]
    /\ staleAllows \in [Reporter -> [Boundary -> Seq(Nat)]]

\* Every variable has its type; no timeline outgrows the recording cap.
TypeOK == SessionsOK /\ MarksOK /\ TimelinesOK /\ CountsOK /\ VerdictsOK

(***************************************************************************)
(* Counting                                                                *)
(***************************************************************************)

\* The inline array and the overflow set of every boundary together hold each
\* write transaction once, and writeTxN is their number: noteWriteTx never
\* counts a transaction twice, on either side of the inline capacity.
TallyExact == \A b \in Boundary : Exact(tally[b])

LedgerUnits(b) == Cardinality(ledgerTxs[b]) + ledgerAutos[b]

\* The count Finish evaluates is the number of distinct write transactions plus
\* auto-commit writes that reached the open boundary from all connections: the
\* recording cap of WithMaxRecordedStatements never costs a unit.
CountsEveryWrite == \A b \in Boundary : WriteUnits(b) = LedgerUnits(b)

RecordedWrites(b) ==
    {i \in DOMAIN statements[b] : statements[b][i].kind = "write"}

\* The units a reader can count in the recorded timeline.
RecordedUnits(b) ==
    Cardinality({statements[b][i].tx : i \in RecordedWrites(b)} \ {0})
      + Cardinality({i \in RecordedWrites(b) : statements[b][i].tx = 0})

\* A Violation's timeline accounts for its count: the units missing from the
\* recorded statements are at most the statements the cap dropped, so an
\* untruncated timeline shows exactly WriteUnits units.
TimelineExplainsUnits ==
    \A b \in Boundary :
        /\ RecordedUnits(b) <= WriteUnits(b)
        /\ WriteUnits(b) <= RecordedUnits(b) + truncated[b]

(***************************************************************************)
(* Verdicts                                                                *)
(***************************************************************************)

MarkCovers(b) == allowed[b] /\ CoversWriteUnits(allowUnits[b], WriteUnits(b))

\* Finish has two units or more to answer for, and the mark does not cover them.
Unexcused(b) == finished[b] /\ WriteUnits(b) >= 2 /\ ~MarkCovers(b)

\* What a reporter receives about a boundary is true of the boundary as it
\* stands, at that moment and for ever after: the count is the writes that
\* reached it, no mark covers that count, the statements copied outside the
\* lock are the boundary's whole timeline, and the counts given as declined do
\* not contain the count reported.
ViolationSound ==
    \A r \in Reporter, b \in Boundary : \A i \in DOMAIN violations[r][b] :
        LET v == violations[r][b][i] IN
        /\ Unexcused(b)
        /\ v.units = LedgerUnits(b)
        /\ v.statements = statements[b]
        /\ v.truncated = truncated[b]
        /\ v.units \notin v.declined

Judging(b) == \E g \in Finisher : call[g].pc # "idle" /\ call[g].b = b

\* Finish is idempotent across goroutines: at most one of them is at work on a
\* boundary, a reporter hears of the boundary at most once, and never of both
\* a violation and a stale allow.
SoleVerdict ==
    /\ \A g, h \in Finisher :
         call[g].pc # "idle" /\ call[h].pc # "idle" /\ g # h => call[g].b # call[h].b
    /\ \A r \in Reporter, b \in Boundary :
         Len(violations[r][b]) + Len(staleAllows[r][b]) <= 1

\* The allowlist swallowed the verdict: nobody is at work on it any more and
\* not even the first reporter heard of it.
Suppressed(b) == Unexcused(b) /\ ~Judging(b) /\ violations[1][b] = <<>>

\* An entry is marked used only by a violation it suppressed, one whose count
\* its present exact counts cover: UnusedEntries never hides a stale entry.
UsedMeansSuppressed ==
    \A n \in Name : entries[n].used =>
        \E b \in Boundary :
            /\ NameOf[b] = n
            /\ Suppressed(b)
            /\ CoversWriteUnits(entries[n].units, WriteUnits(b))

\* The opposite direction, as the doc of UnusedEntries has it (allowlist.go:72):
\* a listed entry that is not used never suppressed a violation of its name.
UnusedMeansNeverSuppressed ==
    \A n \in Name : entries[n].listed /\ ~entries[n].used =>
        \A b \in Boundary : NameOf[b] = n => ~Suppressed(b)

(***************************************************************************)
(* Steps                                                                   *)
(***************************************************************************)

\* Identifiers somebody may still count under.
IdsInUse ==
    {connTx[c] : c \in Conn} \cup {obs[c].tx : c \in Conn}
      \cup UNION {TallyIds(tally[b]) : b \in Boundary}

DrawsFresh ==
    \A c \in Conn :
        connTx'[c] # connTx[c] /\ connTx'[c] # 0 => connTx'[c] \notin IdsInUse

\* A session that enters a transaction gets an identifier that no session, no
\* recording in progress and no boundary holds: two transactions, on one
\* connection or on two, are never merged into one unit.
FreshTransaction == [][DrawsFresh]_vars

StaysFrozen ==
    \A b \in Boundary : finished[b] =>
        /\ finished'[b]
        /\ statements'[b] = statements[b] /\ truncated'[b] = truncated[b]
        /\ tally'[b] = tally[b] /\ autoCommitWrites'[b] = autoCommitWrites[b]
        /\ allowed'[b] = allowed[b] /\ allowUnits'[b] = allowUnits[b]

\* Once finished is set under the lock, the timeline, the counts and the mark
\* no longer change: what finishBoundary reads after unlocking cannot be torn.
FrozenAfterFinish == [][StaysFrozen]_vars

(***************************************************************************)
(* Every verdict that is due is given                                      *)
(***************************************************************************)
Settled(b) ==
    \/ MarkCovers(b) /\ WriteUnits(b) >= 2
    \/ LedgerUnits(b) < 2 /\ (allowed[b] => \A r \in StaleReporters :
                                              staleAllows[r][b] = <<WriteUnits(b)>>)
    \/ LedgerUnits(b) >= 2 /\ \A r \in Reporter : Len(violations[r][b]) = 1
    \/ Suppressed(b) /\ entries[NameOf[b]].listed

\* A finished boundary is settled in the end: its mark covers it, an entry of
\* its name suppressed it, or every reporter concerned has been told.
EveryVerdictSettles ==
    \A b \in Boundary : finished[b] ~> Settled(b)

Promise == INSTANCE BoundaryPromise WITH
    Mark <- {[on |-> TRUE, counts |-> m] : m \in MarkCounts},
    Unmarked <- [on |-> FALSE, counts |-> {}],
    phase <- [b \in Boundary |-> IF b \notin started THEN "idle"
                                 ELSE IF finished[b] THEN "closed" ELSE "open"],
    txs <- ledgerTxs,
    autos <- ledgerAutos,
    mark <- [b \in Boundary |-> [on |-> allowed[b], counts |-> allowUnits[b]]],
    excused <- [b \in Boundary |-> Suppressed(b)],
    told <- [r \in Reporter |-> [b \in Boundary |->
               IF violations[r][b] = <<>> THEN 0 ELSE violations[r][b][1].units]]

\* The detector implements the promise: however the sessions, the marks, the
\* allowlist and the finishing goroutines interleave, reporters are told of
\* exactly the boundaries the promise names, with exactly their number of
\* units, and in the end they are told.
PromiseKept == Promise!FairSpec
=============================================================================
