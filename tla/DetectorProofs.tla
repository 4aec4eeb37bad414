--------------------------- MODULE DetectorProofs ---------------------------
(***************************************************************************)
(* The detector core for every number of boundaries, connections,          *)
(* goroutines, reporters and transactions: type correctness, the exactness *)
(* of the write-unit count, and the two action properties.                 *)
(***************************************************************************)
EXTENDS DetectorProperties, WriteTallyProofs

\* The initial state has the types declared.
LEMMA InitTypeOK == Init => TypeOK
<1> SUFFICES ASSUME Init PROVE TypeOK
  OBVIOUS
<1> USE DetectorAssumption DEF Init
<1>1. SessionsOK
  BY DEF SessionsOK, Quiet
<1>2. MarksOK
  BY DEF MarksOK
<1>3. TimelinesOK
  BY DEF TimelinesOK
<1>4. CountsOK
  BY EmptyTallyExact DEF CountsOK, EmptyTally, TxId
<1>5. VerdictsOK
  BY DEF VerdictsOK, Call, AtRest, NoEntry, Reporter
<1> QED
  BY <1>1, <1>2, <1>3, <1>4, <1>5 DEF TypeOK

\* StartBoundary and AllowNonAtomicHere write the mark only.
LEMMA MarkingTypeOK ==
    ASSUME TypeOK, NEW b \in Boundary,
           \/ \E ctx \in Boundary \cup {NoBoundary} : StartBoundary(b, ctx)
           \/ \E counts \in MarkCounts : AllowNonAtomicHere(b, counts)
    PROVE  TypeOK'
<1> USE DetectorAssumption DEF TypeOK
<1>1. UNCHANGED <<sessionVars, timelineVars, ledgerVars, call, entries,
                  violations, staleAllows, unbounded, finished>>
  BY DEF SetMark, StartBoundary, AllowNonAtomicHere, reportVars
<1>2. MarksOK'
  <2>1. ASSUME NEW ctx \in Boundary \cup {NoBoundary}, StartBoundary(b, ctx)
        PROVE  MarksOK'
    <3>1. started' \subseteq Boundary /\ finished' \in [Boundary -> BOOLEAN]
      BY <2>1 DEF SetMark, StartBoundary, MarksOK
    <3>2. allowed' \in [Boundary -> BOOLEAN] /\ allowUnits' \in [Boundary -> SUBSET Nat]
      <4>1. CASE UNCHANGED markVars
        BY <4>1 DEF MarksOK, markVars
      <4>2. ASSUME NEW counts \in MarkCounts,
                   allowed' = [allowed EXCEPT ![b] = TRUE],
                   allowUnits' = [allowUnits EXCEPT ![b] = counts]
            PROVE  allowed' \in [Boundary -> BOOLEAN] /\ allowUnits' \in [Boundary -> SUBSET Nat]
        BY <4>2 DEF MarksOK
      <4> QED
        BY <2>1, <4>1, <4>2 DEF SetMark, StartBoundary
    <3>3. nested' \subseteq Boundary \X Boundary
      BY <2>1 DEF SetMark, StartBoundary, MarksOK
    <3> QED
      BY <3>1, <3>2, <3>3 DEF MarksOK
  <2>2. ASSUME NEW counts \in MarkCounts, AllowNonAtomicHere(b, counts)
        PROVE  MarksOK'
    BY <2>2 DEF SetMark, AllowNonAtomicHere, MarksOK, reportVars
  <2> QED
    BY <2>1, <2>2
<1>3. SessionsOK' /\ TimelinesOK' /\ CountsOK' /\ VerdictsOK'
  BY <1>1 DEF SessionsOK, TimelinesOK, CountsOK, VerdictsOK, sessionVars,
              timelineVars, ledgerVars
<1> QED
  BY <1>2, <1>3

\* Tracking a statement keeps the transaction identifiers within bounds.
LEMMA TrackOK ==
    ASSUME SessionsOK, NEW c \in Conn, NEW kind \in Kind,
           Track(c, kind) \/ NextTxID(c) \/ TrackEnd(c)
    PROVE  txSeq' \in 0..MaxTx /\ connTx' \in [Conn -> 0..MaxTx]
<1> USE DetectorAssumption DEF SessionsOK
<1>1. CASE NextTxID(c)
  BY <1>1 DEF NextTxID
<1>2. CASE TrackEnd(c)
  BY <1>2 DEF TrackEnd
<1>3. CASE UNCHANGED <<txSeq, connTx>>
  BY <1>3
<1> QED
  BY <1>1, <1>2, <1>3 DEF Track, TrackBegin

\* Session.Observe, BeginTx and EndTx change the session only.
LEMMA SessionTypeOK ==
    ASSUME TypeOK, NEW c \in Conn,
           \/ \E ctx \in Boundary \cup {NoBoundary}, kind \in ObservedKinds :
                Observe(c, ctx, kind)
           \/ BeginTx(c)
           \/ EndTx(c)
    PROVE  TypeOK'
<1> USE DetectorAssumption DEF TypeOK
<1>1. UNCHANGED <<boundaryVars, call, entries, reportVars>>
  BY DEF Observe, BeginTx, EndTx
<1>2. SessionsOK'
  <2>1. ASSUME NEW ctx \in Boundary \cup {NoBoundary}, NEW kind \in ObservedKinds,
               Observe(c, ctx, kind)
        PROVE  SessionsOK'
    <3>1. kind \in Kind /\ Track(c, kind)
      BY <2>1 DEF Observe
    <3>2. txSeq' \in 0..MaxTx /\ connTx' \in [Conn -> 0..MaxTx]
      BY <3>1, TrackOK
    <3>3. obs' = [obs EXCEPT ![c] = [ctx |-> ctx, kind |-> kind, tx |-> connTx'[c]]]
      BY <2>1 DEF Observe
    <3>4. obs' \in [Conn -> [ctx : Boundary \cup {NoBoundary},
                             kind : Kind \cup {"none"}, tx : 0..MaxTx]]
      BY <3>1, <3>2, <3>3 DEF SessionsOK
    <3> QED
      BY <3>2, <3>4 DEF SessionsOK
  <2>2. ASSUME BeginTx(c) \/ EndTx(c)
        PROVE  SessionsOK'
    <3>1. UNCHANGED obs /\ (NextTxID(c) \/ TrackEnd(c))
      BY <2>2 DEF BeginTx, EndTx
    <3>2. "other" \in Kind
      BY DEF Kind
    <3> QED
      BY <3>1, <3>2, TrackOK DEF SessionsOK
  <2> QED
    BY <2>1, <2>2
<1>3. MarksOK' /\ TimelinesOK' /\ CountsOK' /\ VerdictsOK'
  BY <1>1 DEF MarksOK, TimelinesOK, CountsOK, VerdictsOK, boundaryVars, markVars,
              timelineVars, ledgerVars, reportVars
<1> QED
  BY <1>2, <1>3

\* The statement an action of Record appends.
LEMMA RecordedStatement ==
    ASSUME TypeOK, NEW c \in Conn, obs[c].kind # "none"
    PROVE  [kind |-> obs[c].kind, tx |-> obs[c].tx] \in Statement
BY DEF TypeOK, SessionsOK, Statement

\* Appending keeps the recorded timeline under its cap.
LEMMA AppendOK ==
    ASSUME TimelinesOK, NEW b \in Boundary, NEW s \in Statement, AppendStatement(b, s)
    PROVE  TimelinesOK'
<1> USE DetectorAssumption DEF TimelinesOK
<1>1. CASE Len(statements[b]) < MaxRecorded
  <2>1. statements' = [statements EXCEPT ![b] = Append(statements[b], s)]
        /\ truncated' = truncated
    BY <1>1 DEF AppendStatement
  <2>2. /\ Append(statements[b], s) \in Seq(Statement)
        /\ Len(Append(statements[b], s)) = Len(statements[b]) + 1
    OBVIOUS
  <2>3. Len(Append(statements[b], s)) <= MaxRecorded
    BY <1>1, <2>2
  <2>4. \A x \in Boundary :
          statements'[x] = IF x = b THEN Append(statements[b], s) ELSE statements[x]
    BY <2>1
  <2> QED
    BY <2>1, <2>2, <2>3, <2>4
<1>2. CASE ~(Len(statements[b]) < MaxRecorded)
  <2>1. truncated' = [truncated EXCEPT ![b] = truncated[b] + 1] /\ statements' = statements
    BY <1>2 DEF AppendStatement
  <2>2. truncated' \in [Boundary -> Nat]
    BY <2>1
  <2> QED
    BY <2>1, <2>2
<1> QED
  BY <1>1, <1>2

\* Counting a write keeps the tally a tally.
LEMMA CountOK ==
    ASSUME TallyExact, CountsOK, NEW b \in Boundary, NEW txID \in 0..MaxTx,
           CountWrite(b, txID), EnterInLedger(b, txID), UNCHANGED unbounded
    PROVE  CountsOK'
<1> USE DetectorAssumption DEF CountsOK
<1>1. CASE txID # 0
  <2>1. txID \in TxId /\ TxId \cup {0} = 0..MaxTx
    BY <1>1 DEF TxId
  <2>2. tally[b] \in Tally(TxId) /\ Exact(tally[b])
    BY <2>1 DEF Tally, TallyExact
  <2>3. NoteWriteTx(tally[b], txID) \in Tally(TxId)
    BY <2>1, <2>2, NoteWriteTxExact
  <2>4. tally' = [tally EXCEPT ![b] = NoteWriteTx(tally[b], txID)]
        /\ UNCHANGED autoCommitWrites
    BY <1>1 DEF CountWrite
  <2>5. ledgerTxs' = [ledgerTxs EXCEPT ![b] = ledgerTxs[b] \cup {txID}]
        /\ UNCHANGED ledgerAutos
    BY <1>1 DEF EnterInLedger
  <2>6. tally' \in [Boundary -> Tally(TxId)]
    BY <2>1, <2>3, <2>4 DEF Tally
  <2>7. ledgerTxs' \in [Boundary -> SUBSET TxId]
    BY <2>1, <2>5
  <2> QED
    BY <2>1, <2>4, <2>5, <2>6, <2>7 DEF Tally
<1>2. CASE txID = 0
  <2>1. autoCommitWrites' = [autoCommitWrites EXCEPT ![b] = autoCommitWrites[b] + 1]
        /\ tally' = tally
    BY <1>2 DEF CountWrite
  <2>2. ledgerAutos' = [ledgerAutos EXCEPT ![b] = ledgerAutos[b] + 1]
        /\ ledgerTxs' = ledgerTxs
    BY <1>2 DEF EnterInLedger
  <2>3. autoCommitWrites' \in [Boundary -> Nat] /\ ledgerAutos' \in [Boundary -> Nat]
    BY <2>1, <2>2
  <2> QED
    BY <2>1, <2>2, <2>3
<1> QED
  BY <1>1, <1>2

\* Session's call into record: the timeline and the counts keep their types.
LEMMA RecordTypeOK ==
    ASSUME TypeOK, TallyExact, NEW c \in Conn, Record(c) \/ RecordUnbounded(c)
    PROVE  TypeOK'
<1> USE DetectorAssumption
<1>1. UNCHANGED <<txSeq, connTx, started, finished, markVars, call, entries,
                  violations, staleAllows, nested>>
  BY DEF Record, RecordUnbounded, boundaryVars, reportVars
<1>2. obs' = [obs EXCEPT ![c] = Quiet]
  BY DEF Record, RecordUnbounded
<1>3. SessionsOK'
  BY <1>1, <1>2 DEF TypeOK, SessionsOK, Quiet
<1>4. TimelinesOK' /\ CountsOK'
  <2>1. CASE Record(c) /\ ~finished[obs[c].ctx]
    <3> DEFINE b == obs[c].ctx
               s == [kind |-> obs[c].kind, tx |-> obs[c].tx]
    <3>1. b \in Boundary /\ s \in Statement /\ RecordOn(b, s) /\ UNCHANGED unbounded
      BY <2>1, RecordedStatement DEF Record, reportVars
    <3>2. TimelinesOK'
      BY <3>1, AppendOK DEF RecordOn, TypeOK
    <3>3. CountsOK'
      <4>1. CASE s.kind = "write"
        <5>1. CountWrite(b, s.tx) /\ EnterInLedger(b, s.tx)
          BY <3>1, <4>1 DEF RecordOn
        <5>2. s.tx \in 0..MaxTx
          BY <3>1 DEF Statement
        <5> QED
          BY <3>1, <5>1, <5>2, CountOK DEF TypeOK
      <4>2. CASE s.kind # "write"
        BY <3>1, <4>2 DEF RecordOn, TypeOK, CountsOK, ledgerVars
      <4> QED
        BY <4>1, <4>2
    <3> QED
      BY <3>2, <3>3
  <2>2. CASE UNCHANGED <<timelineVars, ledgerVars>> /\ unbounded' \in Nat
    BY <2>2 DEF TypeOK, TimelinesOK, CountsOK, timelineVars, ledgerVars
  <2>3. CASE Record(c) /\ finished[obs[c].ctx]
    <3>1. UNCHANGED <<timelineVars, ledgerVars>> /\ unbounded' = unbounded
      BY <2>3 DEF Record, reportVars
    <3> QED
      BY <2>2, <3>1 DEF TypeOK, CountsOK
  <2>4. CASE RecordUnbounded(c)
    <3>1. UNCHANGED <<timelineVars, ledgerVars>>
      BY <2>4 DEF RecordUnbounded, boundaryVars
    <3>2. unbounded' = unbounded \/ unbounded' = unbounded + 1
      BY <2>4 DEF RecordUnbounded
    <3> QED
      BY <2>2, <3>1, <3>2 DEF TypeOK, CountsOK
  <2> QED
    BY <2>1, <2>3, <2>4
<1>5. MarksOK' /\ VerdictsOK'
  BY <1>1 DEF TypeOK, MarksOK, VerdictsOK, markVars
<1> QED
  BY <1>3, <1>4, <1>5 DEF TypeOK

\* A goroutine's call is replaced by another call.
LEMMA CallUpdate ==
    ASSUME VerdictsOK, NEW g \in Finisher, NEW k \in Call,
           k.pc # "idle" => k.b \in Boundary,
           call' = [call EXCEPT ![g] = k]
    PROVE  /\ call' \in [Finisher -> Call]
           /\ \A h \in Finisher : call'[h].pc # "idle" => call'[h].b \in Boundary
<1>1. call \in [Finisher -> Call]
  BY DEF VerdictsOK
<1>2. \A h \in Finisher : call'[h] = IF h = g THEN k ELSE call[h]
  BY <1>1
<1>3. call' \in [Finisher -> Call]
  BY <1>1
<1> QED
  BY <1>2, <1>3 DEF VerdictsOK

\* An entry is marked used.
LEMMA MarkUsedOK ==
    ASSUME VerdictsOK, NEW n \in Name,
           entries' = [entries EXCEPT ![n].used = TRUE]
    PROVE  entries' \in [Name -> [listed : BOOLEAN, units : SUBSET Nat, used : BOOLEAN]]
<1> DEFINE E == [listed : BOOLEAN, units : SUBSET Nat, used : BOOLEAN]
<1>1. entries \in [Name -> E]
  BY DEF VerdictsOK
<1>2. entries[n] \in E
  BY <1>1
<1>3. [entries[n] EXCEPT !.used = TRUE] \in E
  BY <1>2
<1>4. entries' = [entries EXCEPT ![n] = [entries[n] EXCEPT !.used = TRUE]]
  OBVIOUS
<1> HIDE DEF E
<1> QED
  BY <1>1, <1>3, <1>4 DEF E

\* Finish and the steps of the finishing goroutine leave sessions, timelines
\* and counts alone.
LEMMA FinisherTypeOK ==
    ASSUME TypeOK, NEW g \in Finisher,
           (\E b \in Boundary : Finish(g, b)) \/ FinisherStep(g)
    PROVE  TypeOK'
<1> USE DetectorAssumption
<1>1. UNCHANGED <<sessionVars, started, markVars, timelineVars, ledgerVars, nested,
                  unbounded>>
  BY DEF Finish, FinisherStep, SuppressByAllowlist, PrepareViolation, Report,
         ReportStaleAllow, Return, boundaryVars, reportVars
<1>2. SessionsOK' /\ TimelinesOK' /\ CountsOK'
  BY <1>1 DEF TypeOK, SessionsOK, TimelinesOK, CountsOK, sessionVars, timelineVars,
              ledgerVars
<1>3. ASSUME NEW b \in Boundary, Finish(g, b)
      PROVE  MarksOK' /\ VerdictsOK'
  <2>1. MarksOK'
    BY <1>1, <1>3 DEF TypeOK, MarksOK, markVars, Finish
  <2>2. WriteUnits(b) \in Nat
    BY DEF TypeOK, CountsOK, WriteUnits
  <2> DEFINE next == Judgement(WriteUnits(b), allowed[b], allowUnits[b])
             opened == [pc |-> next, b |-> b, units |-> WriteUnits(b),
                        declined |-> IF allowed[b] THEN allowUnits[b] ELSE {},
                        statements |-> <<>>, truncated |-> 0, next |-> 1]
  <2>3. next \in {"idle", "stale", "allowlist"}
    BY DEF Judgement
  <2>4. call' = [call EXCEPT ![g] = IF next = "idle" THEN AtRest ELSE opened]
    BY <1>3 DEF Finish, Judge
  <2>5. opened \in Call /\ AtRest \in Call
    BY <2>2, <2>3 DEF TypeOK, MarksOK, Call, AtRest
  <2>6. call' \in [Finisher -> Call]
        /\ \A h \in Finisher : call'[h].pc # "idle" => call'[h].b \in Boundary
    BY <2>4, <2>5 DEF TypeOK, VerdictsOK, AtRest
  <2>7. UNCHANGED <<entries, violations, staleAllows>>
    BY <1>3 DEF Finish, reportVars
  <2> QED
    BY <2>1, <2>6, <2>7 DEF TypeOK, VerdictsOK
<1>4. ASSUME FinisherStep(g)
      PROVE  MarksOK' /\ VerdictsOK'
  <2>1. MarksOK'
    BY <1>1, <1>4 DEF TypeOK, MarksOK, markVars, FinisherStep, SuppressByAllowlist,
       PrepareViolation, Report, ReportStaleAllow, Return, boundaryVars
  <2> SUFFICES VerdictsOK'
    BY <2>1
  <2>2. /\ call[g] \in Call
        /\ entries \in [Name -> [listed : BOOLEAN, units : SUBSET Nat, used : BOOLEAN]]
        /\ call[g].pc # "idle" => NameOf[call[g].b] \in Name
    BY DEF TypeOK, VerdictsOK
  <2>3. CASE call[g].pc = "idle"
    BY <1>4, <2>3 DEF FinisherStep, SuppressByAllowlist, PrepareViolation, Report,
                      ReportStaleAllow, Return
  <2> DEFINE b == call[g].b
  <2>4. CASE call[g].pc # "idle"
    <3>1. b \in Boundary
      BY <2>4 DEF TypeOK, VerdictsOK
    <3>2. WithViolation(g) \in Call
      <4>1. Entry(g).units \in SUBSET Nat
        BY <2>2, <2>4 DEF Entry
      <4>2. statements[b] \in Seq(Statement) /\ truncated[b] \in Nat
        BY <3>1 DEF TypeOK, TimelinesOK
      <4> QED
        BY <2>2, <4>1, <4>2 DEF WithViolation, Call
    <3>3. AtRest \in Call
      BY DEF AtRest, Call
    <3> HIDE DEF b
    <3>4. CASE SuppressByAllowlist(g)
      <4>1. call' = [call EXCEPT ![g] = AtRest]
            /\ entries' = [entries EXCEPT ![NameOf[b]].used = TRUE]
            /\ UNCHANGED <<violations, staleAllows>>
        BY <3>4 DEF SuppressByAllowlist, reportVars, b
      <4>2. NameOf[b] \in Name
        BY <3>1
      <4>3. call' \in [Finisher -> Call]
            /\ \A h \in Finisher : call'[h].pc # "idle" => call'[h].b \in Boundary
        BY <3>3, <4>1, CallUpdate DEF TypeOK, AtRest
      <4>4. entries' \in [Name -> [listed : BOOLEAN, units : SUBSET Nat, used : BOOLEAN]]
        BY <4>1, <4>2, MarkUsedOK DEF TypeOK
      <4> QED
        BY <4>1, <4>3, <4>4 DEF TypeOK, VerdictsOK
    <3>5. CASE PrepareViolation(g)
      <4>1. call' = [call EXCEPT ![g] = WithViolation(g)]
            /\ UNCHANGED <<entries, violations, staleAllows>>
        BY <3>5 DEF PrepareViolation, reportVars
      <4>2. WithViolation(g).b \in Boundary
        BY <3>1 DEF WithViolation, b
      <4>3. call' \in [Finisher -> Call]
            /\ \A h \in Finisher : call'[h].pc # "idle" => call'[h].b \in Boundary
        BY <3>2, <4>1, <4>2, CallUpdate DEF TypeOK
      <4> QED
        BY <4>1, <4>3 DEF TypeOK, VerdictsOK
    <3> DEFINE r == call[g].next
               k == [pc |-> call[g].pc, b |-> call[g].b, units |-> call[g].units,
                     declined |-> call[g].declined, statements |-> call[g].statements,
                     truncated |-> call[g].truncated, next |-> r + 1]
    <3>6. ASSUME r \in Reporter, call' = [call EXCEPT ![g].next = r + 1]
          PROVE  call' \in [Finisher -> Call]
                 /\ \A h \in Finisher : call'[h].pc # "idle" => call'[h].b \in Boundary
      <4>1. r + 1 \in 1..Reporters + 1
        BY <3>6 DEF Reporter
      <4>2. k \in Call
        BY <2>2, <4>1 DEF Call
      <4>3. k = [call[g] EXCEPT !.next = r + 1]
        <5>1. PICK was \in Call : was = call[g]
          BY <2>2
        <5>2. [was EXCEPT !.next = r + 1]
                = [pc |-> was.pc, b |-> was.b, units |-> was.units, declined |-> was.declined,
                   statements |-> was.statements, truncated |-> was.truncated, next |-> r + 1]
          <6> HIDE DEF r
          <6> QED BY DEF Call
        <5> QED BY <5>1, <5>2
      <4>4. call' = [call EXCEPT ![g] = k]
        BY <3>6, <4>3
      <4>5. k.b \in Boundary
        BY <3>1 DEF b
      <4> QED
        BY <4>2, <4>4, <4>5, CallUpdate DEF TypeOK
    <3>7. CASE Report(g)
      <4>1. /\ r \in Reporter
            /\ call' = [call EXCEPT ![g].next = r + 1]
            /\ violations' = [violations EXCEPT ![r][b] =
                                Append(violations[r][b], Violation(g))]
            /\ UNCHANGED <<entries, staleAllows>>
        BY <3>7 DEF Report, b
      <4>2. Violation(g) \in ViolationRecord
        BY <2>2 DEF Violation, ViolationRecord, Call
      <4>3. violations' \in [Reporter -> [Boundary -> Seq(ViolationRecord)]]
        BY <3>1, <4>1, <4>2 DEF TypeOK, VerdictsOK
      <4> QED
        BY <3>6, <4>1, <4>3 DEF TypeOK, VerdictsOK
    <3>8. CASE ReportStaleAllow(g)
      <4>1. /\ r \in Reporter
            /\ call' = [call EXCEPT ![g].next = r + 1]
            /\ \/ staleAllows' = [staleAllows EXCEPT ![r][b] =
                                    Append(staleAllows[r][b], call[g].units)]
               \/ UNCHANGED staleAllows
            /\ UNCHANGED <<entries, violations>>
        BY <3>8 DEF ReportStaleAllow, b
      <4>2. call[g].units \in Nat
        BY <2>2 DEF Call
      <4>3. staleAllows' \in [Reporter -> [Boundary -> Seq(Nat)]]
        <5>1. Append(staleAllows[r][b], call[g].units) \in Seq(Nat)
          BY <3>1, <4>1, <4>2 DEF TypeOK, VerdictsOK
        <5>2. staleAllows \in [Reporter -> [Boundary -> Seq(Nat)]]
          BY DEF TypeOK, VerdictsOK
        <5>3. CASE staleAllows' = [staleAllows EXCEPT ![r][b] =
                                     Append(staleAllows[r][b], call[g].units)]
          BY <3>1, <4>1, <5>1, <5>2, <5>3
        <5>4. CASE UNCHANGED staleAllows
          BY <5>2, <5>4
        <5> QED
          BY <4>1, <5>3, <5>4
      <4> QED
        BY <3>6, <4>1, <4>3 DEF TypeOK, VerdictsOK
    <3>9. CASE Return(g)
      <4>1. call' = [call EXCEPT ![g] = AtRest]
            /\ UNCHANGED <<entries, violations, staleAllows>>
        BY <3>9 DEF Return, reportVars
      <4>2. call' \in [Finisher -> Call]
            /\ \A h \in Finisher : call'[h].pc # "idle" => call'[h].b \in Boundary
        BY <3>3, <4>1, CallUpdate DEF TypeOK, AtRest
      <4> QED
        BY <4>1, <4>2 DEF TypeOK, VerdictsOK
    <3> QED
      BY <1>4, <3>4, <3>5, <3>7, <3>8, <3>9 DEF FinisherStep
  <2> QED
    BY <2>1, <2>3, <2>4
<1> QED
  BY <1>2, <1>3, <1>4 DEF TypeOK

\* Allowlist.Add replaces an entry.
LEMMA AllowlistAddTypeOK ==
    ASSUME TypeOK, NEW n \in Name, NEW counts \in MarkCounts, AllowlistAdd(n, counts)
    PROVE  TypeOK'
<1> USE DetectorAssumption
<1>1. UNCHANGED <<sessionVars, boundaryVars, call, reportVars>>
  BY DEF AllowlistAdd
<1>2. entries' \in [Name -> [listed : BOOLEAN, units : SUBSET Nat, used : BOOLEAN]]
  BY DEF AllowlistAdd, TypeOK, VerdictsOK
<1> QED
  BY <1>1, <1>2 DEF TypeOK, SessionsOK, MarksOK, TimelinesOK, CountsOK, VerdictsOK,
     sessionVars, boundaryVars, markVars, timelineVars, ledgerVars, reportVars

(***************************************************************************)
(* The count. CountInv ties the tally to the ledger, the plain record of   *)
(* the writes that reached the boundary; with TypeOK it is inductive, and  *)
(* the count is exact by it.                                               *)
(***************************************************************************)
CountInv ==
    \A b \in Boundary :
        /\ Exact(tally[b])
        /\ TallyIds(tally[b]) = ledgerTxs[b]
        /\ autoCommitWrites[b] = ledgerAutos[b]

\* Counting a write keeps tally and ledger together.
LEMMA CountStep ==
    ASSUME TypeOK, CountInv, NEW b \in Boundary, NEW txID \in 0..MaxTx,
           CountWrite(b, txID), EnterInLedger(b, txID)
    PROVE  CountInv'
<1> USE DetectorAssumption
<1>1. CASE txID # 0
  <2>1. txID \in TxId /\ TxId \cup {0} = 0..MaxTx
    BY <1>1 DEF TxId
  <2>2. tally[b] \in Tally(TxId) /\ Exact(tally[b])
    BY <2>1 DEF Tally, CountInv, TypeOK, CountsOK
  <2> DEFINE t == NoteWriteTx(tally[b], txID)
  <2>3. Exact(t) /\ TallyIds(t) = TallyIds(tally[b]) \cup {txID}
    BY <2>1, <2>2, NoteWriteTxExact
  <2>4. tally' = [tally EXCEPT ![b] = t] /\ autoCommitWrites' = autoCommitWrites
    BY <1>1 DEF CountWrite
  <2>5. ledgerTxs' = [ledgerTxs EXCEPT ![b] = ledgerTxs[b] \cup {txID}]
        /\ ledgerAutos' = ledgerAutos
    BY <1>1 DEF EnterInLedger
  <2> HIDE DEF t
  <2>6. \A x \in Boundary :
          /\ tally'[x] = IF x = b THEN t ELSE tally[x]
          /\ ledgerTxs'[x] = IF x = b THEN ledgerTxs[b] \cup {txID} ELSE ledgerTxs[x]
    BY <2>4, <2>5 DEF TypeOK, CountsOK
  <2> QED
    BY <2>3, <2>4, <2>5, <2>6 DEF CountInv
<1>2. CASE txID = 0
  <2>1. autoCommitWrites' = [autoCommitWrites EXCEPT ![b] = autoCommitWrites[b] + 1]
        /\ tally' = tally
    BY <1>2 DEF CountWrite
  <2>2. ledgerAutos' = [ledgerAutos EXCEPT ![b] = ledgerAutos[b] + 1]
        /\ ledgerTxs' = ledgerTxs
    BY <1>2 DEF EnterInLedger
  <2>3. \A x \in Boundary : autoCommitWrites'[x] = ledgerAutos'[x]
    BY <2>1, <2>2 DEF CountInv, TypeOK, CountsOK
  <2> QED
    BY <2>1, <2>2, <2>3 DEF CountInv
<1> QED
  BY <1>1, <1>2

\* TypeOK and CountInv hold initially and are kept by every step.
LEMMA CountInvInductive ==
    /\ Init => TypeOK /\ CountInv
    /\ TypeOK /\ CountInv /\ [Next]_vars => TypeOK' /\ CountInv'
<1>1. Init => TypeOK /\ CountInv
  <2> SUFFICES ASSUME Init PROVE CountInv
    BY InitTypeOK
  <2> QED
    BY EmptyTallyExact DEF Init, CountInv
<1>2. ASSUME TypeOK, CountInv, [Next]_vars
      PROVE  TypeOK' /\ CountInv'
  <2>1. CountInv => TallyExact
    BY DEF CountInv, TallyExact
  <2>2. ASSUME UNCHANGED <<timelineVars, ledgerVars>>
        PROVE  CountInv'
    BY <1>2, <2>2 DEF CountInv, timelineVars, ledgerVars
  <2>3. ASSUME NEW c \in Conn, Record(c), ~finished[obs[c].ctx]
        PROVE  CountInv'
    <3> DEFINE b == obs[c].ctx
               s == [kind |-> obs[c].kind, tx |-> obs[c].tx]
    <3>1. b \in Boundary /\ s \in Statement /\ RecordOn(b, s)
      BY <1>2, <2>3, RecordedStatement DEF Record
    <3>2. s.tx \in 0..MaxTx
      BY <3>1 DEF Statement
    <3>3. CASE s.kind = "write"
      BY <1>2, <3>1, <3>2, <3>3, CountStep DEF RecordOn
    <3>4. CASE s.kind # "write"
      BY <1>2, <3>1, <3>4 DEF RecordOn, CountInv, ledgerVars
    <3> QED
      BY <3>3, <3>4
  <2>4. CASE UNCHANGED vars
    BY <1>2, <2>2, <2>4 DEF vars, TypeOK, SessionsOK, MarksOK, TimelinesOK, CountsOK,
       VerdictsOK, sessionVars, boundaryVars, markVars, timelineVars, ledgerVars, reportVars
  <2>5. ASSUME NEW b \in Boundary, NEW ctx \in Boundary \cup {NoBoundary},
               StartBoundary(b, ctx)
        PROVE  TypeOK' /\ CountInv'
    BY <1>2, <2>2, <2>5, MarkingTypeOK DEF SetMark, StartBoundary
  <2>6. ASSUME NEW b \in Boundary, NEW counts \in MarkCounts,
               AllowNonAtomicHere(b, counts)
        PROVE  TypeOK' /\ CountInv'
    BY <1>2, <2>2, <2>6, MarkingTypeOK DEF SetMark, AllowNonAtomicHere
  <2>7. ASSUME NEW c \in Conn, NEW ctx \in Boundary \cup {NoBoundary},
               NEW kind \in ObservedKinds, Observe(c, ctx, kind)
        PROVE  TypeOK' /\ CountInv'
    BY <1>2, <2>2, <2>7, SessionTypeOK DEF Observe, boundaryVars
  <2>8. ASSUME NEW c \in Conn, BeginTx(c) \/ EndTx(c)
        PROVE  TypeOK' /\ CountInv'
    BY <1>2, <2>2, <2>8, SessionTypeOK DEF BeginTx, EndTx, boundaryVars
  <2>9. ASSUME NEW c \in Conn, SessionStep(c)
        PROVE  TypeOK' /\ CountInv'
    <3>1. TypeOK'
      BY <1>2, <2>1, <2>9, RecordTypeOK DEF SessionStep
    <3>2. CASE Record(c) /\ finished[obs[c].ctx]
      BY <2>2, <3>1, <3>2 DEF Record
    <3>3. CASE RecordUnbounded(c)
      BY <2>2, <3>1, <3>3 DEF RecordUnbounded, boundaryVars
    <3> QED
      BY <2>3, <2>9, <3>1, <3>2, <3>3 DEF SessionStep
  <2>10. ASSUME NEW g \in Finisher,
                (\E b \in Boundary : Finish(g, b)) \/ FinisherStep(g)
         PROVE  TypeOK' /\ CountInv'
    <3>1. UNCHANGED <<timelineVars, ledgerVars>>
      BY <2>10 DEF Finish, FinisherStep, SuppressByAllowlist, PrepareViolation, Report,
                   ReportStaleAllow, Return, boundaryVars
    <3> QED
      BY <1>2, <2>2, <2>10, <3>1, FinisherTypeOK
  <2>11. ASSUME NEW n \in Name, NEW counts \in MarkCounts, AllowlistAdd(n, counts)
         PROVE  TypeOK' /\ CountInv'
    BY <1>2, <2>2, <2>11, AllowlistAddTypeOK DEF AllowlistAdd, boundaryVars
  <2> QED
    BY <1>2, <2>4, <2>5, <2>6, <2>7, <2>8, <2>9, <2>10, <2>11 DEF Next
<1> QED
  BY <1>1, <1>2

\* Type correctness of the detector.
THEOREM TypeCorrect == Spec => []TypeOK
<1> QED
  BY CountInvInductive, PTL DEF Spec

\* noteWriteTx never counts a transaction twice, whatever the inline capacity.
THEOREM TallyAlwaysExact == Spec => []TallyExact
<1>1. CountInv => TallyExact
  BY DEF CountInv, TallyExact
<1> QED
  BY <1>1, CountInvInductive, PTL DEF Spec

\* The count evaluated at Finish is the number of units that reached the open
\* boundary, whatever the recording cap and the interleaving of connections.
THEOREM EveryWriteIsCounted == Spec => []CountsEveryWrite
<1>1. CountInv => CountsEveryWrite
  BY DEF CountInv, CountsEveryWrite, Exact, WriteUnits, LedgerUnits
<1> QED
  BY <1>1, CountInvInductive, PTL DEF Spec

(***************************************************************************)
(* Steps                                                                   *)
(***************************************************************************)

\* Only a started boundary is ever finished.
FinishedStarted == \A b \in Boundary : finished[b] => b \in started

LEMMA FinishedAreStarted == Spec => []FinishedStarted
<1>1. Init => FinishedStarted
  BY DEF Init, FinishedStarted
<1>2. TypeOK /\ FinishedStarted /\ [Next]_vars => FinishedStarted'
  <2> SUFFICES ASSUME TypeOK, FinishedStarted, [Next]_vars
               PROVE  FinishedStarted'
    OBVIOUS
  <2>1. ASSUME UNCHANGED <<started, finished>>
        PROVE  FinishedStarted'
    BY <2>1 DEF FinishedStarted
  <2>2. CASE UNCHANGED vars
    BY <2>1, <2>2 DEF vars, boundaryVars
  <2>3. ASSUME NEW b \in Boundary, NEW ctx \in Boundary \cup {NoBoundary},
               StartBoundary(b, ctx)
        PROVE  FinishedStarted'
    BY <2>3 DEF SetMark, StartBoundary, FinishedStarted
  <2>4. ASSUME NEW g \in Finisher, NEW b \in Boundary, Finish(g, b)
        PROVE  FinishedStarted'
    BY <2>4 DEF Finish, FinishedStarted, TypeOK, MarksOK
  <2>5. ASSUME \/ \E b \in Boundary, counts \in MarkCounts : AllowNonAtomicHere(b, counts)
               \/ \E n \in Name, counts \in MarkCounts : AllowlistAdd(n, counts)
        PROVE  FinishedStarted'
    BY <2>1, <2>5 DEF SetMark, AllowNonAtomicHere, AllowlistAdd, boundaryVars
  <2>6. ASSUME NEW c \in Conn,
               \/ \E ctx \in Boundary \cup {NoBoundary}, kind \in ObservedKinds :
                    Observe(c, ctx, kind)
               \/ BeginTx(c)
               \/ EndTx(c)
               \/ SessionStep(c)
        PROVE  FinishedStarted'
    BY <2>1, <2>6 DEF Observe, BeginTx, EndTx, SessionStep, Record, RecordUnbounded,
                      boundaryVars
  <2>7. ASSUME NEW g \in Finisher, FinisherStep(g)
        PROVE  FinishedStarted'
    BY <2>1, <2>7 DEF FinisherStep, SuppressByAllowlist, PrepareViolation, Report,
                      ReportStaleAllow, Return, boundaryVars
  <2> QED
    BY <2>2, <2>3, <2>4, <2>5, <2>6, <2>7 DEF Next
<1> QED
  BY <1>1, <1>2, TypeCorrect, PTL DEF Spec

\* Once finished is set, the fields read after unlocking never change again.
THEOREM Frozen == Spec => FrozenAfterFinish
<1> DEFINE Same(b) ==
       /\ finished'[b]
       /\ statements'[b] = statements[b] /\ truncated'[b] = truncated[b]
       /\ tally'[b] = tally[b] /\ autoCommitWrites'[b] = autoCommitWrites[b]
       /\ allowed'[b] = allowed[b] /\ allowUnits'[b] = allowUnits[b]
<1>1. ASSUME TypeOK, [Next]_vars, NEW b \in Boundary, b \in started, finished[b]
      PROVE  Same(b)
  <2>1. ASSUME UNCHANGED <<finished, markVars, timelineVars>>
        PROVE  Same(b)
    BY <1>1, <2>1 DEF markVars, timelineVars
  <2>2. CASE UNCHANGED vars
    BY <2>1, <2>2 DEF vars, boundaryVars
  <2>3. ASSUME NEW x \in Boundary, NEW ctx \in Boundary \cup {NoBoundary},
               StartBoundary(x, ctx)
        PROVE  Same(b)
    <3>1. b # x
      BY <1>1, <2>3 DEF SetMark, StartBoundary
    <3>2. allowed'[b] = allowed[b] /\ allowUnits'[b] = allowUnits[b]
      <4>1. CASE UNCHANGED markVars
        BY <4>1 DEF markVars
      <4>2. ASSUME NEW counts \in MarkCounts,
                   allowed' = [allowed EXCEPT ![x] = TRUE],
                   allowUnits' = [allowUnits EXCEPT ![x] = counts]
            PROVE  allowed'[b] = allowed[b] /\ allowUnits'[b] = allowUnits[b]
        BY <1>1, <3>1, <4>2 DEF TypeOK, MarksOK
      <4> QED
        BY <2>3, <4>1, <4>2 DEF SetMark, StartBoundary
    <3>3. UNCHANGED <<finished, timelineVars>>
      BY <2>3 DEF SetMark, StartBoundary
    <3> QED
      BY <1>1, <3>2, <3>3 DEF timelineVars
  <2>4. ASSUME NEW x \in Boundary, NEW counts \in MarkCounts, AllowNonAtomicHere(x, counts)
        PROVE  Same(b)
    <3>1. b # x
      BY <1>1, <2>4 DEF SetMark, AllowNonAtomicHere
    <3>2. allowed'[b] = allowed[b] /\ allowUnits'[b] = allowUnits[b]
      BY <1>1, <2>4, <3>1 DEF SetMark, AllowNonAtomicHere, TypeOK, MarksOK
    <3>3. UNCHANGED <<finished, timelineVars>>
      BY <2>4 DEF SetMark, AllowNonAtomicHere
    <3> QED
      BY <1>1, <3>2, <3>3 DEF timelineVars
  <2>5. ASSUME NEW c \in Conn,
               \/ \E ctx \in Boundary \cup {NoBoundary}, kind \in ObservedKinds :
                    Observe(c, ctx, kind)
               \/ BeginTx(c)
               \/ EndTx(c)
        PROVE  Same(b)
    BY <2>1, <2>5 DEF Observe, BeginTx, EndTx, boundaryVars
  <2>6. ASSUME NEW c \in Conn, Record(c)
        PROVE  Same(b)
    <3>1. UNCHANGED <<finished, markVars>>
      BY <2>6 DEF Record
    <3>2. CASE finished[obs[c].ctx]
      BY <2>1, <2>6, <3>1, <3>2 DEF Record
    <3>3. CASE ~finished[obs[c].ctx]
      <4> DEFINE x == obs[c].ctx
                 s == [kind |-> obs[c].kind, tx |-> obs[c].tx]
      <4>1. x \in Boundary /\ RecordOn(x, s) /\ b # x
        BY <1>1, <2>6, <3>3 DEF Record
      <4> HIDE DEF x, s
      <4>2. statements'[b] = statements[b] /\ truncated'[b] = truncated[b]
        BY <1>1, <4>1 DEF RecordOn, AppendStatement, TypeOK, TimelinesOK
      <4>3. tally'[b] = tally[b] /\ autoCommitWrites'[b] = autoCommitWrites[b]
        BY <1>1, <4>1 DEF RecordOn, CountWrite, TypeOK, CountsOK
      <4> QED
        BY <1>1, <3>1, <4>2, <4>3 DEF markVars
    <3> QED
      BY <3>2, <3>3
  <2>7. ASSUME NEW c \in Conn, RecordUnbounded(c)
        PROVE  Same(b)
    BY <2>1, <2>7 DEF RecordUnbounded, boundaryVars
  <2>8. ASSUME NEW g \in Finisher, NEW x \in Boundary, Finish(g, x)
        PROVE  Same(b)
    BY <1>1, <2>8 DEF Finish, TypeOK, MarksOK, markVars, timelineVars
  <2>9. ASSUME NEW g \in Finisher, FinisherStep(g)
        PROVE  Same(b)
    BY <2>1, <2>9 DEF FinisherStep, SuppressByAllowlist, PrepareViolation, Report,
                      ReportStaleAllow, Return, boundaryVars
  <2>10. ASSUME NEW n \in Name, NEW counts \in MarkCounts, AllowlistAdd(n, counts)
         PROVE  Same(b)
    BY <2>1, <2>10 DEF AllowlistAdd, boundaryVars
  <2> QED
    BY <1>1, <2>2, <2>3, <2>4, <2>5, <2>6, <2>7, <2>8, <2>9, <2>10 DEF Next, SessionStep
<1>2. TypeOK /\ FinishedStarted /\ [Next]_vars => StaysFrozen
  BY <1>1 DEF FinishedStarted, StaysFrozen
<1> QED
  BY <1>2, TypeCorrect, FinishedAreStarted, PTL DEF Spec, FrozenAfterFinish
=============================================================================
