----------------------------- MODULE PromiseProofs -----------------------------
(***************************************************************************)
(* The detector implements what BoundaryPromise says of a boundary, for    *)
(* every value of the constants: each of its steps is a step of the        *)
(* promise or changes nothing that the promise speaks of.                  *)
(***************************************************************************)
EXTENDS VerdictProofs

(***************************************************************************)
(* What the steps rely on besides VerdictInv                               *)
(***************************************************************************)

\* A boundary that was not started carries no mark, and is in no context.
NotBefore ==
    /\ \A b \in Boundary : b \notin started => ~allowed[b] /\ allowUnits[b] = {}
    /\ \A c \in Conn : obs[c].ctx \in Boundary => obs[c].ctx \in started

\* A goroutine that reports a stale allow has no violation to report, and one
\* that reports a violation has told every reporter before the next.
HandedBy(g) ==
    /\ call[g].pc = "stale" => ~Unexcused(call[g].b)
    /\ call[g].pc = "report" =>
         \A r \in Reporter : r < call[g].next => violations[r][call[g].b] # <<>>
Handed == \A g \in Finisher : HandedBy(g)

LEMMA NotBeforeStep ==
    TypeOK /\ NotBefore /\ [Next]_vars => NotBefore'
<1> SUFFICES ASSUME TypeOK, NotBefore, [Next]_vars PROVE NotBefore'
  OBVIOUS
<1>1. ASSUME UNCHANGED <<started, markVars, obs>>
      PROVE  NotBefore'
  BY <1>1 DEF NotBefore, markVars
<1>2. ASSUME NEW b \in Boundary, NEW ctx \in Boundary \cup {NoBoundary}, StartBoundary(b, ctx)
      PROVE  NotBefore'
  <2>1. started' = started \cup {b} /\ UNCHANGED obs
    BY <1>2 DEF StartBoundary, sessionVars
  <2>2. \A x \in Boundary : x # b => allowed'[x] = allowed[x] /\ allowUnits'[x] = allowUnits[x]
    BY <1>2 DEF StartBoundary, SetMark, markVars, TypeOK, MarksOK
  <2> QED BY <2>1, <2>2 DEF NotBefore
<1>3. ASSUME NEW b \in Boundary, NEW counts \in MarkCounts, AllowNonAtomicHere(b, counts)
      PROVE  NotBefore'
  <2>1. UNCHANGED <<started, obs>> /\ b \in started
    BY <1>3 DEF AllowNonAtomicHere, sessionVars
  <2>2. \A x \in Boundary : x # b => allowed'[x] = allowed[x] /\ allowUnits'[x] = allowUnits[x]
    BY <1>3 DEF AllowNonAtomicHere, SetMark, TypeOK, MarksOK
  <2> QED BY <2>1, <2>2 DEF NotBefore
<1>4. ASSUME NEW c \in Conn, NEW ctx \in Boundary \cup {NoBoundary}, NEW kind \in ObservedKinds,
             Observe(c, ctx, kind)
      PROVE  NotBefore'
  <2>1. UNCHANGED <<started, markVars>> /\ ctx \in started \cup {NoBoundary}
    BY <1>4 DEF Observe, boundaryVars
  <2>2. \A d \in Conn : obs'[d].ctx = IF d = c THEN ctx ELSE obs[d].ctx
    BY <1>4 DEF Observe, TypeOK, SessionsOK
  <2> QED BY <2>1, <2>2, DetectorAssumption DEF NotBefore, markVars
<1>5. ASSUME NEW c \in Conn, SessionStep(c)
      PROVE  NotBefore'
  <2>1. UNCHANGED <<started, markVars>> /\ obs' = [obs EXCEPT ![c] = Quiet]
    BY <1>5 DEF SessionStep, Record, RecordUnbounded, boundaryVars
  <2>2. \A d \in Conn : obs'[d].ctx \in {NoBoundary, obs[d].ctx}
    BY <2>1 DEF Quiet, TypeOK, SessionsOK
  <2> QED BY <2>1, <2>2, DetectorAssumption DEF NotBefore, markVars
<1>6. ASSUME \/ UNCHANGED vars
             \/ \E c \in Conn : BeginTx(c) \/ EndTx(c)
             \/ \E g \in Finisher : (\E b \in Boundary : Finish(g, b)) \/ FinisherStep(g)
             \/ \E n \in Name, counts \in MarkCounts : AllowlistAdd(n, counts)
      PROVE  NotBefore'
  <2>1. UNCHANGED <<started, markVars, obs>>
    BY <1>6 DEF vars, BeginTx, EndTx, Finish, FinisherStep, SuppressByAllowlist,
                PrepareViolation, Report, ReportStaleAllow, Return, AllowlistAdd,
                boundaryVars, sessionVars
  <2> QED BY <1>1, <2>1
<1> QED BY <1>2, <1>3, <1>4, <1>5, <1>6 DEF Next

\* What a goroutine decides in Finish: it reports when it must.
LEMMA FinishDecides ==
    ASSUME TypeOK, NEW g \in Finisher, NEW b \in Boundary, Finish(g, b)
    PROVE  /\ \A h \in Finisher \ {g} : call'[h] = call[h]
           /\ call'[g].pc \in {"idle", "stale", "allowlist"}
           /\ call'[g].pc # "idle" => call'[g].b = b
           /\ Unexcused(b)' <=> call'[g].pc = "allowlist"
<1>1. PICK next : next = Judgement(WriteUnits(b), allowed[b], allowUnits[b])
  OBVIOUS
<1>2. call'[g] = IF next = "idle" THEN AtRest
            ELSE [pc |-> next, b |-> b, units |-> WriteUnits(b),
                  declined |-> IF allowed[b] THEN allowUnits[b] ELSE {},
                  statements |-> <<>>, truncated |-> 0, next |-> 1]
  BY <1>1 DEF Finish, Judge, TypeOK, VerdictsOK
<1>3. \A h \in Finisher \ {g} : call'[h] = call[h]
  BY DEF Finish, Judge, TypeOK, VerdictsOK
<1>4. /\ finished'[b] /\ WriteUnits(b)' = WriteUnits(b) /\ WriteUnits(b) \in Nat
      /\ MarkCovers(b)' <=> allowed[b] /\ CoversWriteUnits(allowUnits[b], WriteUnits(b))
  BY DEF Finish, TypeOK, MarksOK, CountsOK, WriteUnits, MarkCovers, markVars, timelineVars
<1>5. /\ next \in {"idle", "stale", "allowlist"}
      /\ next = "allowlist" <=>
           /\ WriteUnits(b) >= 2
           /\ ~(allowed[b] /\ CoversWriteUnits(allowUnits[b], WriteUnits(b)))
  BY <1>1, <1>4 DEF Judgement, TypeOK, MarksOK
<1>6. Unexcused(b)' <=> next = "allowlist"
  BY <1>4, <1>5 DEF Unexcused
<1> QED BY <1>2, <1>3, <1>5, <1>6 DEF AtRest

LEMMA VerdictStays ==
    ASSUME StaysFrozen, NEW b \in Boundary, finished[b]
    PROVE  Unexcused(b)' <=> Unexcused(b)
BY DEF StaysFrozen, WriteUnits, Unexcused, MarkCovers

LEMMA HandedStep ==
    TypeOK /\ VerdictInv /\ StaysFrozen /\ Handed /\ [Next]_vars => Handed'
<1> SUFFICES ASSUME TypeOK, VerdictInv, StaysFrozen, Handed, [Next]_vars PROVE Handed'
  OBVIOUS
<1>1. \A x \in Boundary : finished[x] => (Unexcused(x)' <=> Unexcused(x))
  BY VerdictStays
<1>b. \A g \in Finisher : Busy(g) => call[g].b \in Boundary /\ finished[call[g].b]
  BY DEF VerdictInv, CallsSound
<1>2. ASSUME NEW g \in Finisher, call'[g] = call[g],
             \A r \in Reporter, x \in Boundary : violations[r][x] # <<>> =>
                                                 violations'[r][x] # <<>>
      PROVE  HandedBy(g)'
  <2>1. CASE Busy(g)
    <3>1. PICK x \in Boundary : x = call[g].b /\ x = call'[g].b /\ finished[x]
      BY <1>2, <1>b, <2>1
    <3>2. call[g].pc = "stale" => ~Unexcused(x)'
      BY <1>1, <3>1 DEF Handed, HandedBy
    <3>3. call[g].pc = "report" =>
            \A r \in Reporter : r < call[g].next => violations'[r][x] # <<>>
      BY <1>2, <3>1 DEF Handed, HandedBy
    <3> QED BY <1>2, <3>1, <3>2, <3>3 DEF HandedBy
  <2>2. CASE ~Busy(g)
    BY <1>2, <2>2 DEF HandedBy, Busy
  <2> QED BY <2>1, <2>2
<1>3. ASSUME UNCHANGED <<call, violations>>
      PROVE  Handed'
  BY <1>2, <1>3 DEF Handed
<1>4. ASSUME NEW g \in Finisher, UNCHANGED violations,
             \A h \in Finisher \ {g} : call'[h] = call[h],
             HandedBy(g)'
      PROVE  Handed'
  BY <1>2, <1>4 DEF Handed
<1>5. ASSUME NEW g \in Finisher, NEW b \in Boundary, Finish(g, b)
      PROVE  Handed'
  <2>1. UNCHANGED violations
    BY <1>5 DEF Finish, reportVars
  <2> QED BY <1>4, <1>5, <2>1, FinishDecides DEF HandedBy
<1>6. ASSUME NEW g \in Finisher, SuppressByAllowlist(g) \/ PrepareViolation(g) \/ Return(g)
      PROVE  Handed'
  <2>1. /\ UNCHANGED violations
        /\ \A h \in Finisher \ {g} : call'[h] = call[h]
    BY <1>6 DEF SuppressByAllowlist, PrepareViolation, Return, reportVars, TypeOK, VerdictsOK
  <2>2. call'[g].pc = "idle" \/ (call'[g].pc = "report" /\ call'[g].next = 1)
    BY <1>6 DEF SuppressByAllowlist, PrepareViolation, Return, WithViolation, AtRest,
                TypeOK, VerdictsOK
  <2> QED BY <1>4, <2>1, <2>2 DEF HandedBy, Reporter
<1>7. ASSUME NEW g \in Finisher, ReportStaleAllow(g)
      PROVE  Handed'
  <2>1. /\ UNCHANGED violations
        /\ \A h \in Finisher \ {g} : call'[h] = call[h]
        /\ call'[g].pc = "stale" /\ call'[g].b = call[g].b /\ Busy(g)
    BY <1>7, TurnMoves DEF ReportStaleAllow, Busy
  <2>2. PICK x \in Boundary : x = call[g].b /\ finished[x]
    BY <1>b, <2>1
  <2>3. ~Unexcused(x)'
    BY <1>1, <1>7, <2>2 DEF Handed, HandedBy, ReportStaleAllow
  <2>4. HandedBy(g)'
    BY <2>1, <2>2, <2>3 DEF HandedBy
  <2> QED BY <1>4, <2>1, <2>4
<1>8. ASSUME NEW g \in Finisher, Report(g)
      PROVE  Handed'
  <2>b. PICK b \in Boundary : b = call[g].b
    BY <1>8, <1>b DEF Report, Busy
  <2>n. PICK n \in Reporter : n = call[g].next
    BY <1>8 DEF Report
  <2>1. /\ \A h \in Finisher \ {g} : call'[h] = call[h]
        /\ call'[g].next = n + 1 /\ call'[g].pc = "report" /\ call'[g].b = b
        /\ call[g].pc = "report" /\ Busy(g)
    BY <1>8, <2>b, <2>n, TurnMoves DEF Report, Busy
  <2>2. violations' = [violations EXCEPT ![n][b] = Append(violations[n][b], Violation(g))]
    BY <1>8, <2>b, <2>n DEF Report
  <2>3. \A r \in Reporter, x \in Boundary :
          violations'[r][x] = IF r = n /\ x = b THEN Append(violations[n][b], Violation(g))
                              ELSE violations[r][x]
    BY <2>2 DEF TypeOK, VerdictsOK
  <2>4. violations'[n][b] # <<>>
    <3>1. PICK s \in Seq(ViolationRecord) : s = violations[n][b]
      BY DEF TypeOK, VerdictsOK
    <3>2. PICK v \in ViolationRecord : v = Violation(g)
      BY DEF Violation, ViolationRecord, TypeOK, VerdictsOK, Call
    <3>3. violations'[n][b] = Append(s, v)
      BY <2>3, <3>1, <3>2
    <3>4. Len(Append(s, v)) = Len(s) + 1 /\ Len(s) \in Nat /\ Len(<<>>) = 0
      OBVIOUS
    <3> QED BY <3>3, <3>4
  <2>5. \A r \in Reporter, x \in Boundary : violations[r][x] # <<>> => violations'[r][x] # <<>>
    BY <2>3, <2>4
  <2>6. \A r \in Reporter : r < n + 1 => r < n \/ r = n
    BY DEF Reporter
  <2>7. \A r \in Reporter : r < n => violations[r][b] # <<>>
    BY <2>b, <2>n, <2>1 DEF Handed, HandedBy
  <2>8. \A r \in Reporter : r < call'[g].next => violations'[r][b] # <<>>
    BY <2>1, <2>4, <2>5, <2>6, <2>7
  <2>9. HandedBy(g)'
    BY <2>1, <2>8 DEF HandedBy
  <2> QED BY <1>2, <2>1, <2>5, <2>9 DEF Handed
<1>9. ASSUME \/ UNCHANGED vars
             \/ \E b \in Boundary, ctx \in Boundary \cup {NoBoundary} : StartBoundary(b, ctx)
             \/ \E b \in Boundary, counts \in MarkCounts : AllowNonAtomicHere(b, counts)
             \/ \E c \in Conn : \/ \E ctx \in Boundary \cup {NoBoundary}, kind \in ObservedKinds :
                                     Observe(c, ctx, kind)
                                \/ BeginTx(c) \/ EndTx(c) \/ SessionStep(c)
             \/ \E n \in Name, counts \in MarkCounts : AllowlistAdd(n, counts)
      PROVE  Handed'
  BY <1>3, <1>9 DEF vars, StartBoundary, AllowNonAtomicHere, Observe, BeginTx, EndTx, SessionStep,
                    Record, RecordUnbounded, AllowlistAdd, reportVars
<1> QED BY <1>5, <1>6, <1>7, <1>8, <1>9 DEF Next, FinisherStep

(***************************************************************************)
(* What the promise sees                                                   *)
(***************************************************************************)
PhaseOf(b) == IF b \notin started THEN "idle" ELSE IF finished[b] THEN "closed" ELSE "open"
MarkOf(b) == [on |-> allowed[b], counts |-> allowUnits[b]]
ToldOf(r, b) == IF violations[r][b] = <<>> THEN 0 ELSE violations[r][b][1].units
Marks == {[on |-> TRUE, counts |-> m] : m \in MarkCounts}

SamePhases == \A x \in Boundary : PhaseOf(x)' = PhaseOf(x)
SameMarks == \A x \in Boundary : MarkOf(x)' = MarkOf(x)
SameExcused == \A x \in Boundary : Suppressed(x)' = Suppressed(x)
SameTold == \A r \in Reporter, x \in Boundary : ToldOf(r, x)' = ToldOf(r, x)

Phases == [b \in Boundary |-> IF b \notin started THEN "idle"
                              ELSE IF finished[b] THEN "closed" ELSE "open"]
MarkFun == [b \in Boundary |-> [on |-> allowed[b], counts |-> allowUnits[b]]]
ExcusedFun == [b \in Boundary |-> Suppressed(b)]
ToldFun == [r \in Reporter |-> [b \in Boundary |->
              IF violations[r][b] = <<>> THEN 0 ELSE violations[r][b][1].units]]

LEMMA SameFuns ==
    /\ SamePhases => UNCHANGED Phases
    /\ SameMarks => UNCHANGED MarkFun
    /\ SameExcused => UNCHANGED ExcusedFun
    /\ SameTold => UNCHANGED ToldFun
<1>1. ASSUME SamePhases PROVE UNCHANGED Phases
  BY <1>1 DEF SamePhases, PhaseOf, Phases
<1>2. ASSUME SameMarks PROVE UNCHANGED MarkFun
  BY <1>2 DEF SameMarks, MarkOf, MarkFun
<1>3. ASSUME SameExcused PROVE UNCHANGED ExcusedFun
  BY <1>3 DEF SameExcused, ExcusedFun
<1>4. ASSUME SameTold PROVE UNCHANGED ToldFun
  BY <1>4 DEF SameTold, ToldOf, ToldFun
<1> QED BY <1>1, <1>2, <1>3, <1>4

LEMMA PromiseSame ==
    ASSUME SamePhases, SameMarks, SameExcused, SameTold, UNCHANGED ledgerVars
    PROVE  UNCHANGED Promise!vars
<1>1. UNCHANGED <<Phases, MarkFun, ExcusedFun, ToldFun, ledgerTxs, ledgerAutos>>
  BY SameFuns DEF ledgerVars
<1> QED BY <1>1 DEF Promise!vars, Phases, MarkFun, ExcusedFun, ToldFun

LEMMA SuppressedEither ==
    (\A x \in Boundary : Suppressed(x)' <=> Suppressed(x)) => SameExcused
BY DEF SameExcused, Suppressed

\* One boundary moves to another phase, or gets another mark.
LEMMA OnePhase ==
    ASSUME NEW b \in Boundary, NEW p,
           \A x \in Boundary : PhaseOf(x)' = IF x = b THEN p ELSE PhaseOf(x)
    PROVE  Phases' = [Phases EXCEPT ![b] = p]
BY DEF Phases, PhaseOf

LEMMA OneMark ==
    ASSUME NEW b \in Boundary, NEW m,
           \A x \in Boundary : MarkOf(x)' = IF x = b THEN m ELSE MarkOf(x)
    PROVE  MarkFun' = [MarkFun EXCEPT ![b] = m]
BY DEF MarkFun, MarkOf

LEMMA PromiseOpen ==
    ASSUME NEW b \in Boundary, PhaseOf(b) = "idle", SameExcused, SameTold, UNCHANGED ledgerVars,
           \A x \in Boundary : PhaseOf(x)' = IF x = b THEN "open" ELSE PhaseOf(x),
           NEW m \in Marks \cup {[on |-> FALSE, counts |-> {}]},
           \A x \in Boundary : MarkOf(x)' = IF x = b THEN m ELSE MarkOf(x)
    PROVE  Promise!Open(b)
<1>1. UNCHANGED <<ledgerTxs, ledgerAutos, ExcusedFun, ToldFun>>
  BY SameFuns DEF ledgerVars
<1>2. Phases[b] = "idle" /\ Phases' = [Phases EXCEPT ![b] = "open"]
  BY OnePhase DEF Phases, PhaseOf
<1>3. MarkFun' = [MarkFun EXCEPT ![b] = m]
  BY OneMark
<1> QED BY <1>1, <1>2, <1>3 DEF Promise!Open, Phases, MarkFun, ExcusedFun, ToldFun, Marks

LEMMA PromiseAllow ==
    ASSUME NEW b \in Boundary, PhaseOf(b) = "open", SamePhases, SameExcused, SameTold,
           UNCHANGED ledgerVars,
           NEW m \in Marks, \A x \in Boundary : MarkOf(x)' = IF x = b THEN m ELSE MarkOf(x)
    PROVE  Promise!Allow(b)
<1>1. UNCHANGED <<ledgerTxs, ledgerAutos, Phases, ExcusedFun, ToldFun>>
  BY SameFuns DEF ledgerVars
<1>2. Phases[b] = "open"
  BY DEF Phases, PhaseOf
<1>3. MarkFun' = [MarkFun EXCEPT ![b] = m]
  BY OneMark
<1> QED BY <1>1, <1>2, <1>3 DEF Promise!Allow, Phases, MarkFun, ExcusedFun, ToldFun, Marks

LEMMA PromiseWrite ==
    ASSUME NEW b \in Boundary, PhaseOf(b) = "open", SamePhases, SameMarks, SameExcused, SameTold,
           NEW t \in 0..MaxTx, EnterInLedger(b, t)
    PROVE  Promise!WriteAutoCommit(b) \/ \E u \in TxId : Promise!WriteInTx(b, u)
<1>1. UNCHANGED <<Phases, MarkFun, ExcusedFun, ToldFun>>
  BY SameFuns
<1>2. Phases[b] = "open"
  BY DEF Phases, PhaseOf
<1>3. CASE t = 0
  <2>1. ledgerAutos' = [ledgerAutos EXCEPT ![b] = ledgerAutos[b] + 1] /\ UNCHANGED ledgerTxs
    BY <1>3 DEF EnterInLedger
  <2> QED BY <1>1, <1>2, <2>1 DEF Promise!WriteAutoCommit, Phases, MarkFun, ExcusedFun, ToldFun
<1>4. CASE t # 0
  <2>1. t \in TxId
    BY <1>4, DetectorAssumption DEF TxId
  <2>2. ledgerTxs' = [ledgerTxs EXCEPT ![b] = ledgerTxs[b] \cup {t}] /\ UNCHANGED ledgerAutos
    BY <1>4 DEF EnterInLedger
  <2>3. Promise!WriteInTx(b, t)
    BY <1>1, <1>2, <2>2 DEF Promise!WriteInTx, Phases, MarkFun, ExcusedFun, ToldFun
  <2> QED BY <2>1, <2>3
<1> QED BY <1>3, <1>4

LEMMA PromiseClose ==
    ASSUME NEW b \in Boundary, PhaseOf(b) = "open", SameMarks, SameExcused, SameTold,
           UNCHANGED ledgerVars,
           \A x \in Boundary : PhaseOf(x)' = IF x = b THEN "closed" ELSE PhaseOf(x)
    PROVE  Promise!Close(b)
<1>1. UNCHANGED <<ledgerTxs, ledgerAutos, MarkFun, ExcusedFun, ToldFun>>
  BY SameFuns DEF ledgerVars
<1>2. Phases[b] = "open" /\ Phases' = [Phases EXCEPT ![b] = "closed"]
  BY OnePhase DEF Phases, PhaseOf
<1> QED BY <1>1, <1>2 DEF Promise!Close, Phases, MarkFun, ExcusedFun, ToldFun

\* The promise counts what the history has, and judges it as Finish does.
LEMMA PromiseUnexcused ==
    ASSUME CountInv, FinishedStarted, NEW b \in Boundary
    PROVE  /\ Promise!WriteUnits(b) = WriteUnits(b)
           /\ Unexcused(b) => Promise!Unexcused(b)
<1>0. \A S : Promise!Cardinality(S) = Cardinality(S)
  BY DEF Promise!Cardinality, Cardinality
<1>1. Promise!WriteUnits(b) = WriteUnits(b)
  BY <1>0 DEF CountInv, Exact, WriteUnits, Promise!WriteUnits
<1>2. ASSUME Unexcused(b) PROVE Promise!Unexcused(b)
  <2>1. finished[b] /\ b \in started /\ WriteUnits(b) >= 2 /\ ~MarkCovers(b)
    BY <1>2 DEF Unexcused, FinishedStarted
  <2>2. PICK u : u = WriteUnits(b)
    OBVIOUS
  <2>3. ~(allowed[b] /\ (allowUnits[b] = {} \/ u \in allowUnits[b]))
    BY <2>1, <2>2 DEF MarkCovers, CoversWriteUnits
  <2>4. ~Promise!Covers(MarkFun[b], u)
    BY <2>3 DEF Promise!Covers, MarkFun
  <2>5. Phases[b] = "closed"
    BY <2>1 DEF Phases
  <2> QED BY <1>1, <2>1, <2>2, <2>4, <2>5 DEF Promise!Unexcused, Phases, MarkFun
<1> QED BY <1>1, <1>2

LEMMA PromiseExcuse ==
    ASSUME CountInv, FinishedStarted, NEW b \in Boundary, Unexcused(b), ~Suppressed(b),
           \A r \in Reporter : ToldOf(r, b) = 0,
           SamePhases, SameMarks, SameTold, UNCHANGED ledgerVars,
           \A x \in Boundary : Suppressed(x)' <=> x = b \/ Suppressed(x)
    PROVE  Promise!Excuse(b)
<1>1. UNCHANGED <<ledgerTxs, ledgerAutos, Phases, MarkFun, ToldFun>>
  BY SameFuns DEF ledgerVars
<1>2. Promise!Unexcused(b)
  BY PromiseUnexcused
<1>3. \A x \in Boundary : Suppressed(x)' = IF x = b THEN TRUE ELSE Suppressed(x)
  BY DEF Suppressed
<1>4. ExcusedFun' = [ExcusedFun EXCEPT ![b] = TRUE] /\ ~ExcusedFun[b]
  BY <1>3 DEF ExcusedFun
<1>5. \A r \in Reporter : ToldFun[r][b] = 0
  BY DEF ToldFun, ToldOf
<1> QED BY <1>1, <1>2, <1>4, <1>5 DEF Promise!Excuse, Phases, MarkFun, ExcusedFun, ToldFun

LEMMA PromiseTell ==
    ASSUME CountInv, FinishedStarted, NEW b \in Boundary, Unexcused(b), ~Suppressed(b),
           NEW n \in Reporter, ToldOf(n, b) = 0,
           SamePhases, SameMarks, SameExcused, UNCHANGED ledgerVars,
           \A r \in Reporter, x \in Boundary :
               ToldOf(r, x)' = IF r = n /\ x = b THEN WriteUnits(b) ELSE ToldOf(r, x)
    PROVE  Promise!Tell(n, b)
<1>1. UNCHANGED <<ledgerTxs, ledgerAutos, Phases, MarkFun, ExcusedFun>>
  BY SameFuns DEF ledgerVars
<1>2. Promise!Unexcused(b) /\ Promise!WriteUnits(b) = WriteUnits(b)
  BY PromiseUnexcused
<1>3. PICK u : u = WriteUnits(b)
  OBVIOUS
<1>t. PICK f : f = ToldFun
  OBVIOUS
<1>f. /\ f = [r \in Reporter |-> [x \in Boundary |-> ToldOf(r, x)]]
      /\ ToldFun' = [r \in Reporter |-> [x \in Boundary |-> ToldOf(r, x)']]
  BY <1>t DEF ToldFun, ToldOf
<1>4. ToldFun' = [f EXCEPT ![n][b] = u] /\ f[n][b] = 0
  <2>1. \A r \in Reporter, x \in Boundary : ToldOf(r, x)' = IF r = n /\ x = b THEN u
                                                            ELSE f[r][x]
    BY <1>3, <1>f
  <2>2. \A r \in Reporter \ {n} : [x \in Boundary |-> ToldOf(r, x)'] = f[r]
    BY <1>f, <2>1
  <2>3. [x \in Boundary |-> ToldOf(n, x)'] = [f[n] EXCEPT ![b] = u]
    BY <1>f, <2>1
  <2>h. PICK h : h = [f[n] EXCEPT ![b] = u]
    OBVIOUS
  <2>p. PICK q : q = ToldFun'
    OBVIOUS
  <2>4. /\ f = [r \in Reporter |-> f[r]]
        /\ q = [r \in Reporter |-> q[r]]
        /\ \A r \in Reporter : q[r] = IF r = n THEN h ELSE f[r]
    BY <1>f, <2>2, <2>3, <2>h, <2>p
  <2>5. q = [f EXCEPT ![n] = h]
    BY <2>4
  <2>6. f[n][b] = 0
    BY <1>f
  <2> QED BY <2>5, <2>6, <2>h, <2>p
<1>5. ~ExcusedFun[b]
  BY DEF ExcusedFun
<1> QED BY <1>1, <1>2, <1>3, <1>t, <1>4, <1>5 DEF Promise!Tell, Phases, MarkFun, ExcusedFun, ToldFun

(***************************************************************************)
(* The steps of the detector                                               *)
(***************************************************************************)
Assumed ==
    TypeOK /\ CountInv /\ VerdictInv /\ FinishedStarted /\ NotBefore /\ Handed /\ StaysFrozen

\* Neither the finishing goroutines nor the reporters are concerned.
LEMMA ExcusedStays ==
    ASSUME Assumed, UNCHANGED <<finished, call, violations>>
    PROVE  SameExcused /\ SameTold
<1>1. \A x \in Boundary : Unexcused(x)' <=> Unexcused(x)
  <2> SUFFICES ASSUME NEW x \in Boundary PROVE Unexcused(x)' <=> Unexcused(x)
    OBVIOUS
  <2>1. CASE finished[x]
    BY <2>1, VerdictStays DEF Assumed
  <2>2. CASE ~finished[x]
    BY <2>2 DEF Unexcused
  <2> QED BY <2>1, <2>2
<1>2. \A x \in Boundary : Suppressed(x)' <=> Suppressed(x)
  BY <1>1 DEF Suppressed, Judging
<1> QED BY <1>2, SuppressedEither DEF SameTold, ToldOf

LEMMA StillQuiet ==
    ASSUME Assumed, UNCHANGED <<started, finished, markVars, ledgerVars, call, violations>>
    PROVE  UNCHANGED Promise!vars
<1>1. SamePhases /\ SameMarks
  BY DEF SamePhases, SameMarks, PhaseOf, MarkOf, markVars
<1> QED BY <1>1, ExcusedStays, PromiseSame

LEMMA StartIsOpen ==
    ASSUME Assumed, NEW b \in Boundary, NEW ctx \in Boundary \cup {NoBoundary},
           StartBoundary(b, ctx)
    PROVE  Promise!Open(b)
<1>1. /\ b \notin started /\ started' = started \cup {b}
      /\ UNCHANGED <<finished, call, violations, ledgerVars>>
  BY DEF StartBoundary
<1>2. SameExcused /\ SameTold
  BY <1>1, ExcusedStays
<1>3. ~finished[b]
  BY <1>1 DEF Assumed, FinishedStarted
<1>4. /\ PhaseOf(b) = "idle"
      /\ \A x \in Boundary : PhaseOf(x)' = IF x = b THEN "open" ELSE PhaseOf(x)
  BY <1>1, <1>3 DEF PhaseOf
<1>5. \E m \in Marks \cup {[on |-> FALSE, counts |-> {}]} :
        \A x \in Boundary : MarkOf(x)' = IF x = b THEN m ELSE MarkOf(x)
  <2>1. CASE UNCHANGED markVars
    <3>1. MarkOf(b) = [on |-> FALSE, counts |-> {}]
      BY <1>1 DEF MarkOf, Assumed, NotBefore, TypeOK, MarksOK
    <3>2. \A x \in Boundary : MarkOf(x)' = MarkOf(x)
      BY <2>1 DEF MarkOf, markVars
    <3> QED BY <3>1, <3>2
  <2>2. ASSUME NEW counts \in MarkCounts, SetMark(b, counts)
        PROVE  \A x \in Boundary : MarkOf(x)' = IF x = b THEN [on |-> TRUE, counts |-> counts]
                                                ELSE MarkOf(x)
    BY <2>2 DEF SetMark, MarkOf, Assumed, TypeOK, MarksOK
  <2>3. ASSUME NEW counts \in MarkCounts PROVE [on |-> TRUE, counts |-> counts] \in Marks
    BY DEF Marks
  <2>4. UNCHANGED markVars \/ \E counts \in MarkCounts : SetMark(b, counts)
    BY DEF StartBoundary
  <2> QED BY <2>1, <2>2, <2>3, <2>4
<1> QED BY <1>1, <1>2, <1>4, <1>5, PromiseOpen

LEMMA MarkIsAllow ==
    ASSUME Assumed, NEW b \in Boundary, NEW counts \in MarkCounts, AllowNonAtomicHere(b, counts)
    PROVE  Promise!Allow(b)
<1>1. /\ b \in started /\ ~finished[b] /\ SetMark(b, counts)
      /\ UNCHANGED <<started, finished, call, violations, ledgerVars>>
  BY DEF AllowNonAtomicHere, reportVars
<1>2. SameExcused /\ SameTold
  BY <1>1, ExcusedStays
<1>3. PhaseOf(b) = "open" /\ SamePhases
  BY <1>1 DEF PhaseOf, SamePhases
<1>4. \A x \in Boundary : MarkOf(x)' = IF x = b THEN [on |-> TRUE, counts |-> counts]
                                       ELSE MarkOf(x)
  BY <1>1 DEF SetMark, MarkOf, Assumed, TypeOK, MarksOK
<1>5. [on |-> TRUE, counts |-> counts] \in Marks
  BY DEF Marks
<1> QED BY <1>1, <1>2, <1>3, <1>4, <1>5, PromiseAllow

LEMMA RecordIsWrite ==
    ASSUME Assumed, NEW c \in Conn, SessionStep(c)
    PROVE  \/ UNCHANGED Promise!vars
           \/ \E b \in Boundary : \/ Promise!WriteAutoCommit(b)
                                  \/ \E u \in TxId : Promise!WriteInTx(b, u)
<1>1. UNCHANGED <<started, finished, markVars, call, violations>>
  BY DEF SessionStep, Record, RecordUnbounded, boundaryVars, reportVars
<1>2. CASE UNCHANGED ledgerVars
  BY <1>1, <1>2, StillQuiet
<1>3. CASE ledgerVars' # ledgerVars
  <2>1. PICK b \in Boundary : b = obs[c].ctx /\ ~finished[b] /\ EnterInLedger(b, obs[c].tx)
    BY <1>3 DEF SessionStep, Record, RecordUnbounded, RecordOn, boundaryVars, ledgerVars
  <2>2. b \in started /\ obs[c].tx \in 0..MaxTx
    BY <2>1 DEF Assumed, NotBefore, TypeOK, SessionsOK
  <2>3. PhaseOf(b) = "open" /\ SamePhases /\ SameMarks
    BY <1>1, <2>1, <2>2 DEF PhaseOf, MarkOf, SamePhases, SameMarks, markVars
  <2> QED BY <1>1, <2>1, <2>2, <2>3, ExcusedStays, PromiseWrite
<1> QED BY <1>2, <1>3

LEMMA FinishIsClose ==
    ASSUME Assumed, NEW g \in Finisher, NEW b \in Boundary, Finish(g, b)
    PROVE  Promise!Close(b)
<1>1. /\ b \in started /\ ~finished[b] /\ ~Busy(g)
      /\ finished' = [finished EXCEPT ![b] = TRUE]
      /\ UNCHANGED <<started, markVars, timelineVars, ledgerVars, violations>>
  BY DEF Finish, Busy, reportVars
<1>2. \A x \in Boundary : finished'[x] <=> x = b \/ finished[x]
  BY <1>1 DEF Assumed, TypeOK, MarksOK
<1>3. /\ PhaseOf(b) = "open" /\ SameMarks /\ SameTold
      /\ \A x \in Boundary : PhaseOf(x)' = IF x = b THEN "closed" ELSE PhaseOf(x)
  BY <1>1, <1>2 DEF PhaseOf, MarkOf, ToldOf, SameMarks, SameTold, markVars
<1>4. /\ \A h \in Finisher \ {g} : call'[h] = call[h]
      /\ call'[g].pc # "idle" => call'[g].b = b
      /\ Unexcused(b)' => call'[g].pc # "idle"
  BY FinishDecides DEF Assumed
<1>5. ASSUME NEW x \in Boundary PROVE Suppressed(x)' <=> Suppressed(x)
  <2>1. CASE x = b
    BY <1>1, <1>4, <2>1 DEF Suppressed, Judging, Unexcused
  <2>2. CASE x # b
    <3>1. Unexcused(x)' <=> Unexcused(x)
      BY <1>1, <1>2, <2>2 DEF Unexcused, WriteUnits, MarkCovers, markVars, timelineVars
    <3>2. Judging(x)' <=> Judging(x)
      BY <1>1, <1>4, <2>2 DEF Judging, Busy
    <3> QED BY <1>1, <3>1, <3>2 DEF Suppressed
  <2> QED BY <2>1, <2>2
<1> QED BY <1>1, <1>3, <1>5, SuppressedEither, PromiseClose

\* The boundaries are left alone, and g is still at work on its own, or no more.
LEMMA OthersStay ==
    ASSUME NEW g \in Finisher, NEW b \in Boundary, Busy(g), call[g].b = b, CallsAlone,
           UNCHANGED boundaryVars, \A h \in Finisher \ {g} : call'[h] = call[h],
           call'[g].b = b \/ call'[g].pc = "idle"
    PROVE  /\ SamePhases /\ SameMarks /\ UNCHANGED ledgerVars
           /\ \A x \in Boundary : Unexcused(x)' <=> Unexcused(x)
           /\ \A x \in Boundary \ {b} : Judging(x)' <=> Judging(x)
           /\ Judging(b) /\ ~Suppressed(b)
           /\ Judging(b)' <=> call'[g].pc # "idle"
<1>1. SamePhases /\ SameMarks /\ UNCHANGED ledgerVars
  BY DEF boundaryVars, markVars, SamePhases, SameMarks, PhaseOf, MarkOf
<1>2. \A x \in Boundary : Unexcused(x)' <=> Unexcused(x)
  BY BoundariesStay
<1>3. \A x \in Boundary \ {b} : Judging(x)' <=> Judging(x)
  BY DEF Judging, Busy
<1>4. Judging(b) /\ ~Suppressed(b)
  BY DEF Judging, Busy, Suppressed
<1>5. Judging(b)' <=> call'[g].pc # "idle"
  BY DEF Judging, Busy, CallsAlone
<1> QED BY <1>1, <1>2, <1>3, <1>4, <1>5

LEMMA SuppressIsExcuse ==
    ASSUME Assumed, NEW g \in Finisher, NEW b \in Boundary, b = call[g].b, SuppressByAllowlist(g)
    PROVE  Promise!Excuse(b)
<1>1. /\ Busy(g) /\ call[g].pc = "allowlist" /\ Unexcused(b) /\ call[g].next = 1
      /\ UNCHANGED <<boundaryVars, violations>> /\ CallsAlone
  BY DEF SuppressByAllowlist, Busy, Assumed, VerdictInv, CallsSound, CallsUntold, reportVars
<1>2. call'[g].pc = "idle" /\ \A h \in Finisher \ {g} : call'[h] = call[h]
  BY DEF SuppressByAllowlist, AtRest, Assumed, TypeOK, VerdictsOK
<1>3. \A r \in Reporter : violations[r][b] = <<>>
  BY <1>1 DEF Assumed, VerdictInv, CallsUntold, Reporter
<1>4. 1 \in Reporter
  BY DetectorAssumption DEF Reporter
<1>5. \A x \in Boundary : Suppressed(x)' <=> x = b \/ Suppressed(x)
  <2>1. Unexcused(b)' /\ ~Judging(b)'
    BY <1>1, <1>2, OthersStay
  <2>2. \A x \in Boundary \ {b} : /\ Unexcused(x)' <=> Unexcused(x)
                                  /\ Judging(x)' <=> Judging(x)
    BY <1>1, <1>2, OthersStay
  <2> QED BY <1>1, <1>3, <1>4, <2>1, <2>2 DEF Suppressed
<1>6. SameTold /\ \A r \in Reporter : ToldOf(r, b) = 0
  BY <1>1, <1>3 DEF SameTold, ToldOf
<1>7. SamePhases /\ SameMarks /\ UNCHANGED ledgerVars /\ ~Suppressed(b)
  BY <1>1, <1>2, OthersStay
<1>8. CountInv /\ FinishedStarted
  BY DEF Assumed
<1> QED BY <1>1, <1>5, <1>6, <1>7, <1>8, PromiseExcuse

\* Steps of a goroutine that the promise does not see.
LEMMA WorkIsQuiet ==
    ASSUME Assumed, NEW g \in Finisher, NEW b \in Boundary, b = call[g].b,
           PrepareViolation(g) \/ ReportStaleAllow(g) \/ Return(g)
    PROVE  UNCHANGED Promise!vars
<1>1. /\ Busy(g) /\ CallsAlone /\ UNCHANGED <<boundaryVars, violations>>
      /\ \A h \in Finisher \ {g} : call'[h] = call[h]
  BY DEF PrepareViolation, ReportStaleAllow, Return, Busy, Assumed, VerdictInv, reportVars,
         TypeOK, VerdictsOK
<1>2. \/ call'[g].pc # "idle" /\ call'[g].b = b
      \/ call'[g].pc = "idle" /\ (Unexcused(b) => violations[1][b] # <<>>)
  <2>1. CASE PrepareViolation(g)
    BY <2>1 DEF PrepareViolation, WithViolation, Assumed, TypeOK, VerdictsOK
  <2>2. CASE ReportStaleAllow(g)
    BY <1>1, <2>2, TurnMoves DEF ReportStaleAllow, Busy, Assumed
  <2>3. CASE Return(g)
    <3>1. call'[g].pc = "idle"
      BY <2>3 DEF Return, AtRest, Assumed, TypeOK, VerdictsOK
    <3>2. call[g].pc = "stale" => ~Unexcused(b)
      BY DEF Assumed, Handed, HandedBy
    <3>3. call[g].next \in 1..Reporters + 1 /\ call[g].next \notin Reporter
      BY <2>3 DEF Return, Assumed, TypeOK, VerdictsOK, Call
    <3>4. 1 \in Reporter /\ 1 < call[g].next
      BY <3>3, DetectorAssumption DEF Reporter
    <3>5. call[g].pc = "report" => violations[1][b] # <<>>
      BY <3>4 DEF Assumed, Handed, HandedBy
    <3> QED BY <2>3, <3>1, <3>2, <3>5 DEF Return
  <2> QED BY <2>1, <2>2, <2>3
<1>3. /\ SamePhases /\ SameMarks /\ UNCHANGED ledgerVars /\ ~Suppressed(b)
      /\ \A x \in Boundary : Unexcused(x)' <=> Unexcused(x)
      /\ \A x \in Boundary \ {b} : Judging(x)' <=> Judging(x)
      /\ Judging(b)' <=> call'[g].pc # "idle"
  BY <1>1, <1>2, OthersStay
<1>4. ~Suppressed(b)'
  BY <1>1, <1>2, <1>3 DEF Suppressed
<1>5. \A x \in Boundary : Suppressed(x)' <=> Suppressed(x)
  BY <1>1, <1>3, <1>4 DEF Suppressed
<1>6. SameTold
  BY <1>1 DEF SameTold, ToldOf
<1> QED BY <1>3, <1>5, <1>6, SuppressedEither, PromiseSame

LEMMA ReportIsTell ==
    ASSUME Assumed, NEW g \in Finisher, NEW b \in Boundary, b = call[g].b, Report(g)
    PROVE  \E n \in Reporter : Promise!Tell(n, b)
<1>n. PICK n \in Reporter : n = call[g].next
  BY DEF Report
<1>1. /\ Busy(g) /\ CallsAlone /\ UNCHANGED boundaryVars
      /\ \A h \in Finisher \ {g} : call'[h] = call[h]
      /\ call'[g].pc = "report" /\ call'[g].b = b
  BY TurnMoves DEF Report, Busy, Assumed, VerdictInv
<1>2. Unexcused(b) /\ call[g].units = WriteUnits(b)
  BY DEF Report, Busy, Assumed, VerdictInv, CallsSound
<1>3. violations[n][b] = <<>>
  BY <1>n, <1>1 DEF Assumed, VerdictInv, CallsUntold, Reporter
<1>t. call[g] \in Call
  BY DEF Assumed, TypeOK, VerdictsOK
<1>v. PICK v \in ViolationRecord : v = Violation(g)
  BY <1>t DEF Violation, ViolationRecord, Call
<1>4. v = Violation(g) /\ v.units = WriteUnits(b)
  BY <1>2, <1>v DEF Violation
<1>5. /\ Append(violations[n][b], v) = <<v>> /\ <<v>> # <<>> /\ <<v>>[1] = v
  BY <1>3
<1>6. violations' = [violations EXCEPT ![n][b] = <<v>>]
  BY <1>n, <1>4, <1>5 DEF Report
<1>7. \A r \in Reporter, x \in Boundary :
        violations'[r][x] = IF r = n /\ x = b THEN <<v>> ELSE violations[r][x]
  BY <1>6 DEF Assumed, TypeOK, VerdictsOK
<1>8. \A r \in Reporter, x \in Boundary :
        ToldOf(r, x)' = IF r = n /\ x = b THEN WriteUnits(b) ELSE ToldOf(r, x)
  BY <1>4, <1>5, <1>7 DEF ToldOf
<1>9. /\ SamePhases /\ SameMarks /\ UNCHANGED ledgerVars /\ ~Suppressed(b)
      /\ \A x \in Boundary : Unexcused(x)' <=> Unexcused(x)
      /\ \A x \in Boundary \ {b} : Judging(x)' <=> Judging(x)
      /\ Judging(b)'
  BY <1>1, OthersStay
<1>10. \A x \in Boundary : Suppressed(x)' <=> Suppressed(x)
  <2>1. 1 \in Reporter
    BY DetectorAssumption DEF Reporter
  <2> QED BY <1>7, <1>9, <2>1 DEF Suppressed
<1>11. CountInv /\ FinishedStarted /\ ToldOf(n, b) = 0
  BY <1>3 DEF Assumed, ToldOf
<1> QED BY <1>2, <1>8, <1>9, <1>10, <1>11, SuppressedEither, PromiseTell

LEMMA PromiseStep == Assumed /\ [Next]_vars => [Promise!Next]_(Promise!vars)
<1> SUFFICES ASSUME Assumed, [Next]_vars PROVE [Promise!Next]_(Promise!vars)
  OBVIOUS
<1>1. ASSUME NEW b \in Boundary, NEW ctx \in Boundary \cup {NoBoundary}, StartBoundary(b, ctx)
      PROVE  Promise!Next
  BY <1>1, StartIsOpen DEF Promise!Next
<1>2. ASSUME NEW b \in Boundary, NEW counts \in MarkCounts, AllowNonAtomicHere(b, counts)
      PROVE  Promise!Next
  BY <1>2, MarkIsAllow DEF Promise!Next
<1>3. ASSUME NEW c \in Conn, SessionStep(c)
      PROVE  [Promise!Next]_(Promise!vars)
  BY <1>3, RecordIsWrite DEF Promise!Next
<1>4. ASSUME NEW g \in Finisher, NEW b \in Boundary, Finish(g, b)
      PROVE  Promise!Next
  BY <1>4, FinishIsClose DEF Promise!Next
<1>5. ASSUME NEW g \in Finisher, FinisherStep(g)
      PROVE  [Promise!Next]_(Promise!vars)
  <2>1. PICK b \in Boundary : b = call[g].b
    BY <1>5 DEF FinisherStep, SuppressByAllowlist, PrepareViolation, Report, ReportStaleAllow,
                Return, Assumed, VerdictInv, CallsSound, Busy
  <2>2. CASE SuppressByAllowlist(g)
    BY <2>1, <2>2, SuppressIsExcuse DEF Promise!Next
  <2>3. CASE Report(g)
    BY <2>1, <2>3, ReportIsTell DEF Promise!Next
  <2>4. CASE PrepareViolation(g) \/ ReportStaleAllow(g) \/ Return(g)
    BY <2>1, <2>4, WorkIsQuiet
  <2> QED BY <1>5, <2>2, <2>3, <2>4 DEF FinisherStep
<1>6. ASSUME \/ UNCHANGED vars
             \/ \E c \in Conn : \/ \E ctx \in Boundary \cup {NoBoundary}, kind \in ObservedKinds :
                                     Observe(c, ctx, kind)
                                \/ BeginTx(c) \/ EndTx(c)
             \/ \E n \in Name, counts \in MarkCounts : AllowlistAdd(n, counts)
      PROVE  UNCHANGED Promise!vars
  <2>1. UNCHANGED <<started, finished, markVars, ledgerVars, call, violations>>
    BY <1>6 DEF vars, Observe, BeginTx, EndTx, AllowlistAdd, boundaryVars, reportVars
  <2> QED BY <2>1, StillQuiet
<1> QED BY <1>1, <1>2, <1>3, <1>4, <1>5, <1>6 DEF Next

LEMMA PromiseInit == Init => Promise!Init
<1> SUFFICES ASSUME Init PROVE Promise!Init
  OBVIOUS
<1>1. Phases = [b \in Boundary |-> "idle"]
  BY DEF Init, Phases
<1>2. MarkFun = [b \in Boundary |-> [on |-> FALSE, counts |-> {}]]
  BY DEF Init, MarkFun
<1>3. ExcusedFun = [b \in Boundary |-> FALSE]
  BY DEF Init, ExcusedFun, Suppressed, Unexcused
<1>4. ToldFun = [r \in Reporter |-> [b \in Boundary |-> 0]]
  BY DEF Init, ToldFun
<1>5. ledgerTxs = [b \in Boundary |-> {}] /\ ledgerAutos = [b \in Boundary |-> 0]
  BY DEF Init
<1> QED BY <1>1, <1>2, <1>3, <1>4, <1>5 DEF Promise!Init, Phases, MarkFun, ExcusedFun, ToldFun

\* Whatever the sessions, the marks, the allowlist and the goroutines in
\* finishBoundary do, reporters are told of the boundaries that the promise
\* names, of each once, and with its number of units.
THEOREM PromiseNeverBroken == Spec => Promise!Spec
<1>1. Init => NotBefore
  BY DetectorAssumption DEF Init, NotBefore, Quiet
<1>2. Init => Handed
  BY DEF Init, Handed, HandedBy, AtRest
<1>3. UNCHANGED vars => StaysFrozen
  BY DEF vars, StaysFrozen, boundaryVars, timelineVars, markVars
<1>4. TypeOK /\ NotBefore /\ Next => NotBefore'
  BY NotBeforeStep
<1>5. TypeOK /\ NotBefore /\ UNCHANGED vars => NotBefore'
  BY NotBeforeStep
<1>6. Spec => []NotBefore
  BY <1>1, <1>4, <1>5, TypeCorrect, PTL DEF Spec
<1>7. TypeOK /\ VerdictInv /\ StaysFrozen /\ Handed /\ Next => Handed'
  BY HandedStep
<1>8. TypeOK /\ VerdictInv /\ Handed /\ UNCHANGED vars => Handed'
  BY <1>3, HandedStep
<1>9. Spec => []Handed
  BY <1>2, <1>7, <1>8, VerdictsHold, TypeCorrect, Frozen, PTL DEF Spec, FrozenAfterFinish
<1>10. TypeOK /\ CountInv /\ VerdictInv /\ FinishedStarted /\ NotBefore /\ Handed /\ StaysFrozen
         /\ Next => [Promise!Next]_(Promise!vars)
  BY PromiseStep DEF Assumed
<1>11. TypeOK /\ CountInv /\ VerdictInv /\ FinishedStarted /\ NotBefore /\ Handed
         /\ UNCHANGED vars => [Promise!Next]_(Promise!vars)
  BY <1>3, PromiseStep DEF Assumed
<1> QED BY <1>6, <1>9, <1>10, <1>11, PromiseInit, CountInvInductive, TypeCorrect, VerdictsHold,
           FinishedAreStarted, Frozen, PTL DEF Spec, FrozenAfterFinish, Promise!Spec
=============================================================================
