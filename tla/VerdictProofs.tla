----------------------------- MODULE VerdictProofs -----------------------------
(***************************************************************************)
(* What the detector tells its reporters, for every number of boundaries,  *)
(* finishing goroutines, reporters and entries, and the transactions that  *)
(* sessions draw.                                                          *)
(***************************************************************************)
EXTENDS DetectorProofs

(***************************************************************************)
(* Finishing goroutines                                                    *)
(***************************************************************************)
Busy(g) == call[g].pc # "idle"

\* What a goroutine works on is the boundary as it stands.
CallsSound ==
    \A g \in Finisher : Busy(g) =>
        /\ call[g].b \in Boundary /\ finished[call[g].b]
        /\ call[g].units = WriteUnits(call[g].b)
        /\ call[g].pc \in {"allowlist", "report"} =>
             Unexcused(call[g].b) /\ call[g].units \notin call[g].declined
        /\ call[g].pc = "report" =>
             /\ call[g].statements = statements[call[g].b]
             /\ call[g].truncated = truncated[call[g].b]

\* Nobody else works on it.
CallsAlone ==
    \A g, h \in Finisher : Busy(g) /\ Busy(h) /\ g # h => call[g].b # call[h].b

\* The reporters whose turn is to come have heard nothing of it.
CallsUntold ==
    \A g \in Finisher : Busy(g) =>
        /\ call[g].pc = "allowlist" => call[g].next = 1
        /\ \A r \in Reporter : r >= call[g].next =>
             violations[r][call[g].b] = <<>> /\ staleAllows[r][call[g].b] = <<>>

\* What they have heard is true, and they heard it once.
ToldSound ==
    \A r \in Reporter, b \in Boundary : \A i \in DOMAIN violations[r][b] :
        /\ Unexcused(b)
        /\ violations[r][b][i].units = WriteUnits(b)
        /\ violations[r][b][i].statements = statements[b]
        /\ violations[r][b][i].truncated = truncated[b]
        /\ violations[r][b][i].units \notin violations[r][b][i].declined

ToldOnce ==
    \A r \in Reporter, b \in Boundary :
        /\ ~finished[b] => violations[r][b] = <<>> /\ staleAllows[r][b] = <<>>
        /\ Len(violations[r][b]) + Len(staleAllows[r][b]) <= 1

\* A name without an entry has no counts.
Unlisted == \A n \in Name : ~entries[n].listed => entries[n].units = {}

VerdictInv ==
    CallsSound /\ CallsAlone /\ CallsUntold /\ ToldSound /\ ToldOnce /\ Unlisted
      /\ UsedMeansSuppressed

LEMMA InitVerdict == Init => VerdictInv
<1> SUFFICES ASSUME Init PROVE VerdictInv
  OBVIOUS
<1> USE DEF Init
<1>1. CallsSound /\ CallsAlone /\ CallsUntold
  BY DEF CallsSound, CallsAlone, CallsUntold, Busy, AtRest
<1>2. ToldSound /\ ToldOnce
  BY DEF ToldSound, ToldOnce
<1>3. Unlisted /\ UsedMeansSuppressed
  BY DEF Unlisted, UsedMeansSuppressed, NoEntry
<1> QED BY <1>1, <1>2, <1>3 DEF VerdictInv

\* What stays of a boundary that is finished.
LEMMA FrozenBoundary ==
    ASSUME StaysFrozen, NEW b \in Boundary, finished[b]
    PROVE  /\ finished'[b]
           /\ WriteUnits(b)' = WriteUnits(b)
           /\ Unexcused(b) => Unexcused(b)'
           /\ statements'[b] = statements[b] /\ truncated'[b] = truncated[b]
BY DEF StaysFrozen, WriteUnits, Unexcused, MarkCovers

LEMMA UnexcusedStays ==
    ASSUME StaysFrozen, NEW b \in Boundary, Unexcused(b)
    PROVE  /\ Unexcused(b)' /\ WriteUnits(b)' = WriteUnits(b)
           /\ statements'[b] = statements[b] /\ truncated'[b] = truncated[b]
<1>1. finished[b]
  BY DEF Unexcused
<1> QED BY <1>1, FrozenBoundary

\* The finishing goroutines, the allowlist and the reporters are not concerned.
Calm == UNCHANGED <<finished, call, entries, violations, staleAllows>>

LEMMA CalmKeeps == VerdictInv /\ StaysFrozen /\ Calm => VerdictInv'
<1> SUFFICES ASSUME VerdictInv, StaysFrozen, Calm PROVE VerdictInv'
  OBVIOUS
<1> USE DEF VerdictInv, Calm
<1>1. CallsSound'
  BY FrozenBoundary DEF CallsSound, Busy
<1>2. CallsAlone' /\ CallsUntold'
  BY DEF CallsAlone, CallsUntold, Busy
<1>u. \A b \in Boundary : Unexcused(b) =>
        /\ Unexcused(b)' /\ WriteUnits(b)' = WriteUnits(b)
        /\ statements'[b] = statements[b] /\ truncated'[b] = truncated[b]
  BY UnexcusedStays
<1>3. ToldSound' /\ ToldOnce'
  <2>1. ToldSound'
    BY <1>u DEF ToldSound
  <2> QED BY <2>1 DEF ToldOnce
<1>4. Unlisted'
  BY DEF Unlisted
<1>5. \A b \in Boundary : Suppressed(b) => Suppressed(b)' /\ WriteUnits(b)' = WriteUnits(b)
  BY FrozenBoundary DEF Suppressed, Judging, Unexcused
<1>6. UsedMeansSuppressed'
  BY <1>5 DEF UsedMeansSuppressed
<1> QED BY <1>1, <1>2, <1>3, <1>4, <1>6

\* After Finish nothing happens to the boundary.
LEMMA BoundariesStay ==
    ASSUME UNCHANGED boundaryVars, NEW b \in Boundary
    PROVE  /\ finished'[b] = finished[b] /\ WriteUnits(b)' = WriteUnits(b)
           /\ Unexcused(b)' <=> Unexcused(b)
           /\ statements'[b] = statements[b] /\ truncated'[b] = truncated[b]
BY DEF boundaryVars, markVars, timelineVars, WriteUnits, Unexcused, MarkCovers

LEMMA ToldStays ==
    ASSUME UNCHANGED <<boundaryVars, violations, staleAllows>>, ToldSound, ToldOnce
    PROVE  ToldSound' /\ ToldOnce'
<1>1. ToldSound'
  BY BoundariesStay DEF ToldSound
<1>2. ToldOnce'
  BY BoundariesStay DEF ToldOnce
<1> QED BY <1>1, <1>2

LEMMA AllowlistAddKeeps ==
    ASSUME TypeOK, VerdictInv, NEW n \in Name, NEW counts \in MarkCounts,
           AllowlistAdd(n, counts)
    PROVE  VerdictInv'
<1> USE DEF VerdictInv
<1>1. UNCHANGED <<boundaryVars, call, violations, staleAllows>>
  BY DEF AllowlistAdd, reportVars
<1>2. CallsSound' /\ CallsAlone' /\ CallsUntold'
  BY <1>1, BoundariesStay DEF CallsSound, CallsAlone, CallsUntold, Busy
<1>3. ToldSound' /\ ToldOnce'
  BY <1>1, ToldStays
<1>4. \A m \in Name :
        entries'[m] = IF m = n THEN [listed |-> TRUE, units |-> counts, used |-> FALSE]
                      ELSE entries[m]
  BY DEF AllowlistAdd, TypeOK, VerdictsOK
<1>5. Unlisted'
  BY <1>4 DEF Unlisted
<1>6. \A b \in Boundary : Suppressed(b) => Suppressed(b)' /\ WriteUnits(b)' = WriteUnits(b)
  BY <1>1, BoundariesStay DEF Suppressed, Judging
<1>7. UsedMeansSuppressed'
  BY <1>4, <1>6 DEF UsedMeansSuppressed
<1> QED BY <1>2, <1>3, <1>5, <1>7

\* The goroutine that finishes b first, and no other, goes on.
LEMMA FinishKeeps ==
    ASSUME TypeOK, VerdictInv, StaysFrozen, NEW g \in Finisher, NEW b \in Boundary,
           Finish(g, b)
    PROVE  VerdictInv'
<1> USE DEF VerdictInv
<1>k. PICK k : k = call'[g]
  OBVIOUS
<1>1. /\ UNCHANGED <<markVars, timelineVars, entries, violations, staleAllows>>
      /\ ~finished[b] /\ ~Busy(g)
      /\ finished' = [finished EXCEPT ![b] = TRUE]
  BY DEF Finish, Busy, reportVars
<1>2. /\ \A x \in Boundary : finished'[x] <=> x = b \/ finished[x]
      /\ \A h \in Finisher \ {g} : call'[h] = call[h]
  BY <1>1 DEF Finish, Judge, TypeOK, MarksOK, VerdictsOK
<1>3. /\ \A x \in Boundary : WriteUnits(x)' = WriteUnits(x)
      /\ \A x \in Boundary : MarkCovers(x)' <=> MarkCovers(x)
      /\ UNCHANGED <<statements, truncated>>
  BY <1>1 DEF WriteUnits, MarkCovers, markVars, timelineVars
<1>4. k.pc # "idle" =>
        /\ k.b = b /\ k.units = WriteUnits(b) /\ k.next = 1
        /\ k.pc \in {"stale", "allowlist"}
        /\ k.pc = "allowlist" => Unexcused(b)' /\ k.units \notin k.declined
  <2>1. PICK next : next = Judgement(WriteUnits(b), allowed[b], allowUnits[b])
    OBVIOUS
  <2>2. k = IF next = "idle" THEN AtRest
            ELSE [pc |-> next, b |-> b, units |-> WriteUnits(b),
                  declined |-> IF allowed[b] THEN allowUnits[b] ELSE {},
                  statements |-> <<>>, truncated |-> 0, next |-> 1]
    BY <1>k, <2>1 DEF Finish, Judge, TypeOK, VerdictsOK
  <2>3. WriteUnits(b) \in Nat /\ finished'[b]
    BY <1>1, <1>2 DEF WriteUnits, TypeOK, CountsOK
  <2>4. /\ next \in {"idle", "stale", "allowlist"}
        /\ next = "allowlist" =>
             /\ WriteUnits(b) >= 2
             /\ ~(allowed[b] /\ CoversWriteUnits(allowUnits[b], WriteUnits(b)))
    BY <2>1, <2>3 DEF Judgement, TypeOK, MarksOK
  <2>5. next = "allowlist" => Unexcused(b)'
    BY <1>3, <2>3, <2>4 DEF Unexcused, MarkCovers
  <2>6. next = "allowlist" => WriteUnits(b) \notin (IF allowed[b] THEN allowUnits[b] ELSE {})
    BY <2>4 DEF CoversWriteUnits
  <2> QED BY <2>2, <2>4, <2>5, <2>6 DEF AtRest
<1>5. \A h \in Finisher : Busy(h) => call[h].b # b
  BY <1>1 DEF CallsSound
<1>6. \A h \in Finisher : Busy(h)' =>
        \/ h # g /\ Busy(h) /\ call'[h] = call[h]
        \/ h = g /\ call'[h] = k /\ k.pc # "idle"
  BY <1>k, <1>2 DEF Busy
<1>7. \A x \in Boundary : Unexcused(x) => Unexcused(x)'
  BY UnexcusedStays
<1>8. CallsSound'
  BY <1>2, <1>3, <1>4, <1>6, <1>7 DEF CallsSound
<1>9. CallsAlone'
  BY <1>4, <1>5, <1>6 DEF CallsAlone
<1>10. CallsUntold'
  <2>1. \A r \in Reporter : violations'[r][b] = <<>> /\ staleAllows'[r][b] = <<>>
    BY <1>1 DEF ToldOnce
  <2>2. ASSUME NEW h \in Finisher, Busy(h)'
        PROVE  /\ call'[h].pc = "allowlist" => call'[h].next = 1
               /\ \A r \in Reporter : r >= call'[h].next =>
                    violations'[r][call'[h].b] = <<>> /\ staleAllows'[r][call'[h].b] = <<>>
    <3>1. CASE h # g /\ Busy(h) /\ call'[h] = call[h]
      BY <1>1, <3>1 DEF CallsUntold
    <3>2. CASE h = g /\ call'[h] = k /\ k.pc # "idle"
      BY <1>4, <2>1, <3>2
    <3> QED BY <1>6, <2>2, <3>1, <3>2
  <2> QED BY <2>2 DEF CallsUntold
<1>11. ToldSound'
  BY <1>1, <1>3, <1>7 DEF ToldSound
<1>12. ToldOnce'
  BY <1>1, <1>2 DEF ToldOnce
<1>13. Unlisted'
  BY <1>1 DEF Unlisted
<1>14. \A x \in Boundary : Suppressed(x) => Suppressed(x)' /\ WriteUnits(x)' = WriteUnits(x)
  <2> SUFFICES ASSUME NEW x \in Boundary, Suppressed(x)
               PROVE  Suppressed(x)' /\ WriteUnits(x)' = WriteUnits(x)
    OBVIOUS
  <2>1. x # b /\ Unexcused(x)' /\ ~Judging(x)
    BY <1>1, <1>7 DEF Suppressed, Unexcused
  <2>2. ~Judging(x)'
    BY <1>4, <1>6, <2>1 DEF Judging, Busy
  <2> QED BY <1>1, <1>3, <2>1, <2>2 DEF Suppressed
<1>15. UsedMeansSuppressed'
  BY <1>1, <1>14 DEF UsedMeansSuppressed
<1> QED BY <1>8, <1>9, <1>10, <1>11, <1>12, <1>13, <1>15

LEMMA SuppressKeeps ==
    ASSUME TypeOK, VerdictInv, NEW g \in Finisher, SuppressByAllowlist(g)
    PROVE  VerdictInv'
<1> USE DEF VerdictInv
<1>b. PICK b \in Boundary : b = call[g].b
  BY DEF SuppressByAllowlist, CallsSound, Busy
<1>n. PICK n \in Name : n = NameOf[b]
  BY DetectorAssumption
<1>1. /\ UNCHANGED <<boundaryVars, violations, staleAllows>>
      /\ call[g].pc = "allowlist" /\ Busy(g)
      /\ Unexcused(b) /\ call[g].units = WriteUnits(b)
      /\ entries[n].listed /\ CoversWriteUnits(entries[n].units, WriteUnits(b))
  BY <1>b, <1>n DEF SuppressByAllowlist, Busy, CallsSound, EntryApplies, Entry, reportVars
<1>2. \A h \in Finisher : Busy(h)' => h # g /\ Busy(h) /\ call'[h] = call[h]
  BY DEF SuppressByAllowlist, Busy, AtRest, TypeOK, VerdictsOK
<1>3. \A m \in Name : /\ entries'[m].listed = entries[m].listed
                      /\ entries'[m].units = entries[m].units
                      /\ entries'[m].used => entries[m].used \/ m = n
  BY <1>b, <1>n DEF SuppressByAllowlist, TypeOK, VerdictsOK
<1>4. CallsSound' /\ CallsAlone' /\ CallsUntold'
  BY <1>1, <1>2, BoundariesStay DEF CallsSound, CallsAlone, CallsUntold
<1>5. ToldSound' /\ ToldOnce'
  BY <1>1, ToldStays
<1>6. Unlisted'
  BY <1>3 DEF Unlisted
<1>7. \A x \in Boundary : Suppressed(x) => Suppressed(x)'
  BY <1>1, <1>2, BoundariesStay DEF Suppressed, Judging, Busy
<1>8. Suppressed(b)'
  <2>1. ~Judging(b)'
    BY <1>b, <1>1, <1>2 DEF Judging, Busy, CallsAlone
  <2>2. violations[1][b] = <<>>
    BY <1>b, <1>1, DetectorAssumption DEF CallsUntold, Reporter
  <2> QED BY <1>1, <2>1, <2>2, BoundariesStay DEF Suppressed
<1>9. \A x \in Boundary : WriteUnits(x)' = WriteUnits(x)
  BY <1>1, BoundariesStay
<1>10. UsedMeansSuppressed'
  <2>1. ASSUME NEW m \in Name, entries'[m].used
        PROVE  \E x \in Boundary : /\ NameOf[x] = m /\ Suppressed(x)'
                                   /\ CoversWriteUnits(entries'[m].units, WriteUnits(x)')
    <3>1. CASE entries[m].used
      BY <1>3, <1>7, <1>9, <3>1 DEF UsedMeansSuppressed
    <3>2. CASE m = n
      BY <1>n, <1>1, <1>3, <1>8, <1>9, <3>2
    <3> QED BY <1>3, <2>1, <3>1, <3>2
  <2> QED BY <2>1 DEF UsedMeansSuppressed, CoversWriteUnits
<1> QED BY <1>4, <1>5, <1>6, <1>10

\* A step that leaves the entries, and the first reporter's view of what was
\* suppressed, as they are.
LEMMA SuppressedStays ==
    ASSUME UNCHANGED <<boundaryVars, entries>>, UsedMeansSuppressed,
           \A x \in Boundary : Suppressed(x) =>
               ~Judging(x)' /\ violations'[1][x] = violations[1][x]
    PROVE  UsedMeansSuppressed'
<1>1. \A x \in Boundary : Suppressed(x) => Suppressed(x)' /\ WriteUnits(x)' = WriteUnits(x)
  BY BoundariesStay DEF Suppressed
<1> QED BY <1>1 DEF UsedMeansSuppressed

LEMMA PrepareKeeps ==
    ASSUME TypeOK, VerdictInv, NEW g \in Finisher, PrepareViolation(g)
    PROVE  VerdictInv'
<1> USE DEF VerdictInv
<1>b. PICK b \in Boundary : b = call[g].b
  BY DEF PrepareViolation, CallsSound, Busy
<1>n. PICK n \in Name : n = NameOf[b]
  BY DetectorAssumption
<1>k. PICK k : k = call'[g]
  OBVIOUS
<1>1. /\ UNCHANGED <<boundaryVars, entries, violations, staleAllows>>
      /\ call[g].pc = "allowlist" /\ Busy(g) /\ call[g].next = 1
      /\ Unexcused(b) /\ call[g].units = WriteUnits(b) /\ call[g].units \notin call[g].declined
      /\ entries[n].listed => ~CoversWriteUnits(entries[n].units, WriteUnits(b))
  BY <1>b, <1>n DEF PrepareViolation, Busy, CallsSound, CallsUntold, EntryApplies, Entry,
                    reportVars
<1>2. /\ k.pc = "report" /\ k.b = b /\ k.units = WriteUnits(b) /\ k.next = 1
      /\ k.statements = statements[b] /\ k.truncated = truncated[b]
      /\ k.declined = IF call[g].declined = {} THEN entries[n].units ELSE call[g].declined
  BY <1>b, <1>n, <1>k, <1>1 DEF PrepareViolation, WithViolation, Entry, TypeOK, VerdictsOK
<1>3. k.units \notin k.declined
  BY <1>1, <1>2 DEF Unlisted, CoversWriteUnits
<1>4. \A h \in Finisher : Busy(h)' =>
        \/ h # g /\ Busy(h) /\ call'[h] = call[h]
        \/ h = g /\ call'[h] = k
  BY <1>k DEF PrepareViolation, Busy, TypeOK, VerdictsOK
<1>5. CallsSound'
  <2>1. /\ finished'[b] /\ Unexcused(b)' /\ WriteUnits(b)' = WriteUnits(b)
        /\ statements'[b] = statements[b] /\ truncated'[b] = truncated[b]
    BY <1>1, BoundariesStay DEF Unexcused
  <2> QED BY <1>1, <1>2, <1>3, <1>4, <2>1, BoundariesStay DEF CallsSound
<1>6. CallsAlone'
  BY <1>b, <1>1, <1>2, <1>4 DEF CallsAlone
<1>7. CallsUntold'
  <2>1. \A r \in Reporter : violations[r][b] = <<>> /\ staleAllows[r][b] = <<>>
    BY <1>b, <1>1 DEF CallsUntold, Reporter
  <2> QED BY <1>1, <1>2, <1>4, <2>1 DEF CallsUntold
<1>8. ToldSound' /\ ToldOnce' /\ Unlisted'
  BY <1>1, ToldStays DEF Unlisted
<1>9. UsedMeansSuppressed'
  <2>1. \A x \in Boundary : Suppressed(x) => ~Judging(x)'
    BY <1>b, <1>1, <1>2, <1>4 DEF Suppressed, Judging, Busy
  <2> QED BY <1>1, <2>1, SuppressedStays
<1> QED BY <1>5, <1>6, <1>7, <1>8, <1>9

LEMMA ReturnKeeps ==
    ASSUME TypeOK, VerdictInv, NEW g \in Finisher, Return(g)
    PROVE  VerdictInv'
<1> USE DEF VerdictInv
<1>1. UNCHANGED <<boundaryVars, entries, violations, staleAllows>>
  BY DEF Return, reportVars
<1>2. \A h \in Finisher : Busy(h)' => h # g /\ Busy(h) /\ call'[h] = call[h]
  BY DEF Return, Busy, AtRest, TypeOK, VerdictsOK
<1>3. CallsSound' /\ CallsAlone' /\ CallsUntold'
  BY <1>1, <1>2, BoundariesStay DEF CallsSound, CallsAlone, CallsUntold
<1>4. ToldSound' /\ ToldOnce' /\ Unlisted'
  BY <1>1, ToldStays DEF Unlisted
<1>5. UsedMeansSuppressed'
  <2>1. \A x \in Boundary : Suppressed(x) => ~Judging(x)'
    BY <1>2 DEF Suppressed, Judging, Busy
  <2> QED BY <1>1, <2>1, SuppressedStays
<1> QED BY <1>3, <1>4, <1>5

\* A reporter is told; it is the goroutine's next one.
LEMMA TurnMoves ==
    ASSUME TypeOK, NEW g \in Finisher, Busy(g), call[g].next \in Reporter,
           call' = [call EXCEPT ![g].next = call[g].next + 1]
    PROVE  /\ \A h \in Finisher \ {g} : call'[h] = call[h]
           /\ call'[g].next = call[g].next + 1 /\ Busy(g)'
           /\ call'[g].pc = call[g].pc /\ call'[g].b = call[g].b
           /\ call'[g].units = call[g].units /\ call'[g].declined = call[g].declined
           /\ call'[g].statements = call[g].statements
           /\ call'[g].truncated = call[g].truncated
BY DEF TypeOK, VerdictsOK, Call, Busy

LEMMA TurnKeepsCalls ==
    ASSUME TypeOK, CallsSound, CallsAlone, NEW g \in Finisher, Busy(g),
           call[g].next \in Reporter, UNCHANGED boundaryVars,
           call' = [call EXCEPT ![g].next = call[g].next + 1]
    PROVE  CallsSound' /\ CallsAlone'
<1>1. \A h \in Finisher :
        /\ Busy(h)' <=> Busy(h)
        /\ call'[h].pc = call[h].pc /\ call'[h].b = call[h].b
        /\ call'[h].units = call[h].units /\ call'[h].declined = call[h].declined
        /\ call'[h].statements = call[h].statements /\ call'[h].truncated = call[h].truncated
  BY TurnMoves DEF Busy
<1>2. CallsSound'
  BY <1>1, BoundariesStay DEF CallsSound
<1> QED BY <1>1, <1>2 DEF CallsAlone

LEMMA TurnKeepsUntold ==
    ASSUME TypeOK, CallsSound, CallsAlone, CallsUntold, NEW g \in Finisher, Busy(g),
           call[g].pc # "allowlist", call[g].next \in Reporter,
           call' = [call EXCEPT ![g].next = call[g].next + 1],
           \A r \in Reporter, x \in Boundary :
               r # call[g].next \/ x # call[g].b =>
                   violations'[r][x] = violations[r][x] /\ staleAllows'[r][x] = staleAllows[r][x]
    PROVE  CallsUntold'
<1>1. ASSUME NEW h \in Finisher, Busy(h)'
      PROVE  /\ call'[h].pc = "allowlist" => call'[h].next = 1
             /\ \A r \in Reporter : r >= call'[h].next =>
                  violations'[r][call'[h].b] = <<>> /\ staleAllows'[r][call'[h].b] = <<>>
  <2>1. CASE h = g
    <3>1. call[g].b \in Boundary
      BY DEF CallsSound
    <3>2. \A r \in Reporter : r >= call'[g].next => r >= call[g].next /\ r # call[g].next
      <4>1. PICK n \in Reporter : n = call[g].next
        OBVIOUS
      <4>2. call'[g].next = n + 1
        BY <4>1, TurnMoves
      <4>3. \A r \in Reporter : r >= n + 1 => r >= n /\ r # n
        BY DetectorAssumption DEF Reporter
      <4> QED BY <4>1, <4>2, <4>3
    <3> QED BY <2>1, <3>1, <3>2, TurnMoves DEF CallsUntold
  <2>2. CASE h # g
    <3>1. call'[h] = call[h] /\ Busy(h) /\ call[h].b # call[g].b /\ call[h].b \in Boundary
      BY <1>1, <2>2, TurnMoves DEF Busy, CallsAlone, CallsSound
    <3> QED BY <3>1 DEF CallsUntold
  <2> QED BY <2>1, <2>2
<1> QED BY <1>1 DEF CallsUntold

LEMMA ReportKeeps ==
    ASSUME TypeOK, VerdictInv, NEW g \in Finisher, Report(g)
    PROVE  VerdictInv'
<1> USE DEF VerdictInv
<1>b. PICK b \in Boundary : b = call[g].b
  BY DEF Report, CallsSound, Busy
<1>r. PICK r \in Reporter : r = call[g].next
  BY DEF Report
<1>v. PICK v : v = Violation(g)
  OBVIOUS
<1>1. /\ UNCHANGED <<boundaryVars, entries, staleAllows>>
      /\ call[g].pc = "report" /\ Busy(g)
      /\ call' = [call EXCEPT ![g].next = call[g].next + 1]
      /\ violations[r][b] = <<>> /\ staleAllows[r][b] = <<>>
      /\ Unexcused(b)
  BY <1>b, <1>r DEF Report, Busy, CallsUntold, CallsSound, Reporter
<1>2. /\ v.units = WriteUnits(b) /\ v.units \notin v.declined
      /\ v.statements = statements[b] /\ v.truncated = truncated[b]
  BY <1>b, <1>v, <1>1 DEF Violation, CallsSound
<1>3. \A q \in Reporter, x \in Boundary :
        violations'[q][x] = IF q = r /\ x = b THEN <<v>> ELSE violations[q][x]
  <2>1. violations' = [violations EXCEPT ![r][b] = Append(violations[r][b], v)]
    BY <1>b, <1>r, <1>v DEF Report
  <2>2. Append(violations[r][b], v) = <<v>>
    BY <1>1
  <2> QED BY <2>1, <2>2 DEF TypeOK, VerdictsOK
<1>4. CallsSound' /\ CallsAlone'
  BY <1>r, <1>1, TurnKeepsCalls
<1>5. CallsUntold'
  BY <1>b, <1>r, <1>1, <1>3, TurnKeepsUntold
<1>6. ToldSound'
  BY <1>1, <1>2, <1>3, BoundariesStay DEF ToldSound
<1>7. ToldOnce'
  <2>1. Len(<<v>>) = 1 /\ Len(<<>>) = 0
    OBVIOUS
  <2>2. finished'[b] = TRUE
    BY <1>1, BoundariesStay DEF Unexcused, TypeOK, MarksOK
  <2>3. Len(<<v>>) + Len(staleAllows[r][b]) <= 1
    BY <1>1, <2>1
  <2>4. ASSUME NEW q \in Reporter, NEW x \in Boundary
        PROVE  /\ ~finished'[x] => violations'[q][x] = <<>> /\ staleAllows'[q][x] = <<>>
               /\ Len(violations'[q][x]) + Len(staleAllows'[q][x]) <= 1
    <3>1. staleAllows' = staleAllows /\ finished'[x] = finished[x]
      BY <1>1, BoundariesStay
    <3>2. CASE q = r /\ x = b
      BY <3>1, <3>2, <1>3, <2>2, <2>3
    <3>3. CASE ~(q = r /\ x = b)
      <4>1. violations'[q][x] = violations[q][x]
        BY <3>3, <1>3
      <4> QED BY <3>1, <4>1 DEF ToldOnce
    <3> QED BY <3>2, <3>3
  <2> QED BY <2>4 DEF ToldOnce
<1>8. Unlisted'
  BY <1>1 DEF Unlisted
<1>9. UsedMeansSuppressed'
  <2>1. \A x \in Boundary : Suppressed(x) => ~Judging(x)' /\ x # b
    BY <1>b, <1>r, <1>1, TurnMoves DEF Suppressed, Judging, Busy
  <2>2. 1 \in Reporter
    BY DetectorAssumption DEF Reporter
  <2> QED BY <1>1, <1>3, <2>1, <2>2, SuppressedStays
<1> QED BY <1>4, <1>5, <1>6, <1>7, <1>8, <1>9

LEMMA ReportStaleKeeps ==
    ASSUME TypeOK, VerdictInv, NEW g \in Finisher, ReportStaleAllow(g)
    PROVE  VerdictInv'
<1> USE DEF VerdictInv
<1>b. PICK b \in Boundary : b = call[g].b
  BY DEF ReportStaleAllow, CallsSound, Busy
<1>r. PICK r \in Reporter : r = call[g].next
  BY DEF ReportStaleAllow
<1>u. PICK u : u = call[g].units
  OBVIOUS
<1>1. /\ UNCHANGED <<boundaryVars, entries, violations>>
      /\ call[g].pc = "stale" /\ Busy(g)
      /\ call' = [call EXCEPT ![g].next = call[g].next + 1]
      /\ violations[r][b] = <<>> /\ staleAllows[r][b] = <<>>
      /\ finished[b]
  BY <1>b, <1>r DEF ReportStaleAllow, Busy, CallsUntold, CallsSound, Reporter
<1>2. \A q \in Reporter, x \in Boundary :
        \/ staleAllows'[q][x] = staleAllows[q][x]
        \/ q = r /\ x = b /\ staleAllows'[q][x] = <<u>>
  <2>1. \/ staleAllows' = staleAllows
        \/ staleAllows' = [staleAllows EXCEPT ![r][b] = Append(staleAllows[r][b], u)]
    BY <1>b, <1>r, <1>u DEF ReportStaleAllow
  <2>2. Append(staleAllows[r][b], u) = <<u>>
    BY <1>1
  <2> QED BY <2>1, <2>2 DEF TypeOK, VerdictsOK
<1>3. CallsSound' /\ CallsAlone'
  BY <1>r, <1>1, TurnKeepsCalls
<1>4. CallsUntold'
  BY <1>b, <1>r, <1>1, <1>2, TurnKeepsUntold
<1>5. ToldSound'
  BY <1>1, BoundariesStay DEF ToldSound
<1>6. ToldOnce'
  <2>1. Len(<<u>>) = 1 /\ Len(<<>>) = 0
    OBVIOUS
  <2>2. Len(violations[r][b]) + Len(<<u>>) <= 1
    BY <1>1, <2>1
  <2>3. ASSUME NEW q \in Reporter, NEW x \in Boundary
        PROVE  /\ ~finished'[x] => violations'[q][x] = <<>> /\ staleAllows'[q][x] = <<>>
               /\ Len(violations'[q][x]) + Len(staleAllows'[q][x]) <= 1
    <3>1. violations' = violations /\ finished'[x] = finished[x]
      BY <1>1, BoundariesStay
    <3>2. CASE staleAllows'[q][x] = staleAllows[q][x]
      BY <3>1, <3>2 DEF ToldOnce
    <3>3. CASE q = r /\ x = b /\ staleAllows'[q][x] = <<u>>
      BY <3>1, <3>3, <1>1, <2>2
    <3> QED BY <3>2, <3>3, <1>2
  <2> QED BY <2>3 DEF ToldOnce
<1>7. Unlisted'
  BY <1>1 DEF Unlisted
<1>8. UsedMeansSuppressed'
  <2>1. \A x \in Boundary : Suppressed(x) => ~Judging(x)'
    BY <1>b, <1>r, <1>1, TurnMoves DEF Suppressed, Judging, Busy
  <2> QED BY <1>1, <2>1, SuppressedStays
<1> QED BY <1>3, <1>4, <1>5, <1>6, <1>7, <1>8

\* Every step either leaves verdicts alone or is one of those above.
LEMMA VerdictStep == TypeOK /\ VerdictInv /\ StaysFrozen /\ Next => VerdictInv'
<1> SUFFICES ASSUME TypeOK, VerdictInv, StaysFrozen, Next PROVE VerdictInv'
  OBVIOUS
<1>1. ASSUME NEW b \in Boundary, NEW ctx \in Boundary \cup {NoBoundary}, StartBoundary(b, ctx)
      PROVE  VerdictInv'
  <2>1. Calm
    BY <1>1 DEF Calm, StartBoundary
  <2> QED BY <2>1, CalmKeeps
<1>2. ASSUME NEW b \in Boundary, NEW counts \in MarkCounts, AllowNonAtomicHere(b, counts)
      PROVE  VerdictInv'
  <2>1. Calm
    BY <1>2 DEF Calm, AllowNonAtomicHere, reportVars
  <2> QED BY <2>1, CalmKeeps
<1>3. ASSUME NEW c \in Conn,
             \/ \E ctx \in Boundary \cup {NoBoundary}, kind \in ObservedKinds :
                  Observe(c, ctx, kind)
             \/ BeginTx(c) \/ EndTx(c) \/ SessionStep(c)
      PROVE  VerdictInv'
  <2>1. Calm
    BY <1>3 DEF Calm, Observe, BeginTx, EndTx, SessionStep, Record, RecordUnbounded,
                boundaryVars, reportVars
  <2> QED BY <2>1, CalmKeeps
<1>4. ASSUME NEW g \in Finisher, NEW b \in Boundary, Finish(g, b) PROVE VerdictInv'
  BY <1>4, FinishKeeps
<1>5. ASSUME NEW g \in Finisher, FinisherStep(g) PROVE VerdictInv'
  BY <1>5, SuppressKeeps, PrepareKeeps, ReportKeeps, ReportStaleKeeps, ReturnKeeps
     DEF FinisherStep
<1>6. ASSUME NEW n \in Name, NEW counts \in MarkCounts, AllowlistAdd(n, counts)
      PROVE  VerdictInv'
  BY <1>6, AllowlistAddKeeps
<1> QED BY <1>1, <1>2, <1>3, <1>4, <1>5, <1>6 DEF Next

\* Verdicts follow the boundary as it stands once it is finished.
THEOREM VerdictsHold == Spec => []VerdictInv
<1>1. TypeOK /\ VerdictInv /\ StaysFrozen /\ Next => VerdictInv'
  BY VerdictStep
<1>2. VerdictInv /\ UNCHANGED vars => VerdictInv'
  <2> SUFFICES ASSUME VerdictInv, UNCHANGED vars PROVE VerdictInv'
    OBVIOUS
  <2>1. StaysFrozen /\ Calm
    BY DEF vars, StaysFrozen, Calm, boundaryVars, timelineVars, markVars, reportVars
  <2> QED BY <2>1, CalmKeeps
<1> QED BY <1>1, <1>2, InitVerdict, TypeCorrect, Frozen, PTL DEF Spec, FrozenAfterFinish

\* What a reporter was told of a boundary is true of it for ever
\* (detector.go:399-466).
THEOREM ToldTheTruth == Spec => []ViolationSound
<1>1. VerdictInv /\ CountsEveryWrite => ViolationSound
  BY DEF VerdictInv, ToldSound, CountsEveryWrite, ViolationSound
<1> QED BY <1>1, VerdictsHold, EveryWriteIsCounted, PTL

\* A boundary has one verdict, whoever finishes it (detector.go:401-404).
THEOREM OneVerdict == Spec => []SoleVerdict
<1>1. VerdictInv => SoleVerdict
  BY DEF VerdictInv, CallsAlone, ToldOnce, SoleVerdict, Busy
<1> QED BY <1>1, VerdictsHold, PTL

\* An entry that is marked used has suppressed a violation that its present
\* counts cover.
THEOREM UsedHasSuppressed == Spec => []UsedMeansSuppressed
<1>1. VerdictInv => UsedMeansSuppressed
  BY DEF VerdictInv
<1> QED BY <1>1, VerdictsHold, PTL

(***************************************************************************)
(* Transactions                                                            *)
(***************************************************************************)

\* The detector has handed out every identifier that is in use. What the
\* boundaries hold is in the ledger (CountInv).
IdsBelow ==
    /\ \A c \in Conn : connTx[c] <= txSeq /\ obs[c].tx <= txSeq
    /\ \A b \in Boundary : \A id \in ledgerTxs[b] : id <= txSeq

\* A session moves, by drawing the next identifier if it enters a transaction.
Moves(c) ==
    \/ txSeq' = txSeq + 1 /\ connTx' = [connTx EXCEPT ![c] = txSeq + 1]
    \/ txSeq' = txSeq /\ connTx' = [connTx EXCEPT ![c] = 0]
    \/ UNCHANGED <<txSeq, connTx>>

LEMMA MovesFresh ==
    ASSUME TypeOK, CountInv, IdsBelow, NEW c \in Conn, Moves(c)
    PROVE  /\ DrawsFresh
           /\ txSeq' \in Nat /\ txSeq <= txSeq'
           /\ \A d \in Conn : connTx'[d] \in Nat /\ connTx'[d] <= txSeq'
<1> USE DEF TypeOK, SessionsOK
<1>1. /\ txSeq \in Nat /\ connTx \in [Conn -> Nat]
      /\ \A d \in Conn : obs[d].tx \in Nat
      /\ \A b \in Boundary : ledgerTxs[b] \subseteq Nat
  BY DetectorAssumption DEF CountsOK, TxId
<1>2. \A id \in IdsInUse : id \in Nat /\ id <= txSeq
  BY <1>1 DEF IdsInUse, IdsBelow, CountInv
<1>3. \A d \in Conn : \/ connTx'[d] = txSeq + 1 /\ txSeq' = txSeq + 1
                      \/ connTx'[d] \in {0, connTx[d]} /\ txSeq' \in {txSeq, txSeq + 1}
  BY <1>1 DEF Moves
<1>4. DrawsFresh
  BY <1>1, <1>2, <1>3 DEF DrawsFresh
<1>5. txSeq' \in Nat /\ txSeq <= txSeq'
  BY <1>1 DEF Moves
<1>6. \A d \in Conn : connTx'[d] \in Nat /\ connTx'[d] <= txSeq'
  BY <1>1, <1>3 DEF IdsBelow
<1> QED BY <1>4, <1>5, <1>6

\* Nothing happens to the sessions or the ledger.
LEMMA StillFresh ==
    IdsBelow /\ UNCHANGED <<sessionVars, ledgerVars>> => IdsBelow' /\ DrawsFresh
BY DEF IdsBelow, DrawsFresh, sessionVars, ledgerVars

LEMMA FreshStep ==
    TypeOK /\ CountInv /\ IdsBelow /\ [Next]_vars => IdsBelow' /\ DrawsFresh
<1> SUFFICES ASSUME TypeOK, CountInv, IdsBelow, [Next]_vars PROVE IdsBelow' /\ DrawsFresh
  OBVIOUS
<1>1. CASE UNCHANGED vars
  BY <1>1, StillFresh DEF vars, boundaryVars
<1>2. ASSUME NEW c \in Conn, NEW ctx \in Boundary \cup {NoBoundary}, NEW kind \in ObservedKinds,
             Observe(c, ctx, kind)
      PROVE  IdsBelow' /\ DrawsFresh
  <2>1. Moves(c)
    BY <1>2 DEF Observe, Track, TrackBegin, TrackEnd, NextTxID, Moves
  <2>2. \A d \in Conn : obs'[d].tx = IF d = c THEN connTx'[c] ELSE obs[d].tx
    BY <1>2 DEF Observe, TypeOK, SessionsOK
  <2>3. UNCHANGED ledgerTxs
    BY <1>2 DEF Observe, boundaryVars, ledgerVars
  <2>4. /\ txSeq \in Nat /\ \A d \in Conn : obs[d].tx \in Nat
        /\ \A b \in Boundary : ledgerTxs[b] \subseteq Nat
    BY DetectorAssumption DEF TypeOK, SessionsOK, CountsOK, TxId
  <2> QED BY <2>1, <2>2, <2>3, <2>4, MovesFresh DEF IdsBelow
<1>3. ASSUME NEW c \in Conn, BeginTx(c) \/ EndTx(c)
      PROVE  IdsBelow' /\ DrawsFresh
  <2>1. Moves(c) /\ UNCHANGED <<obs, ledgerTxs>>
    BY <1>3 DEF BeginTx, EndTx, TrackEnd, NextTxID, Moves, boundaryVars, ledgerVars
  <2>2. /\ txSeq \in Nat /\ \A d \in Conn : obs[d].tx \in Nat
        /\ \A b \in Boundary : ledgerTxs[b] \subseteq Nat
    BY DetectorAssumption DEF TypeOK, SessionsOK, CountsOK, TxId
  <2> QED BY <2>1, <2>2, MovesFresh DEF IdsBelow
<1>4. ASSUME NEW c \in Conn, SessionStep(c)
      PROVE  IdsBelow' /\ DrawsFresh
  <2>1. UNCHANGED <<txSeq, connTx>> /\ obs' = [obs EXCEPT ![c] = Quiet]
    BY <1>4 DEF SessionStep, Record, RecordUnbounded
  <2>2. \A b \in Boundary : \A id \in ledgerTxs'[b] : id \in ledgerTxs[b] \/ id = obs[c].tx
    <3>1. CASE UNCHANGED ledgerTxs
      BY <3>1
    <3>2. CASE ledgerTxs' # ledgerTxs
      <4>1. /\ obs[c].ctx \in Boundary
            /\ ledgerTxs' = [ledgerTxs EXCEPT ![obs[c].ctx] =
                               ledgerTxs[obs[c].ctx] \cup {obs[c].tx}]
        BY <1>4, <3>2 DEF SessionStep, Record, RecordUnbounded, RecordOn, EnterInLedger,
                          ledgerVars, boundaryVars
      <4> QED BY <4>1 DEF TypeOK, CountsOK
    <3> QED BY <3>1, <3>2
  <2>3. \A d \in Conn : obs'[d].tx \in {0, obs[d].tx}
    BY <2>1 DEF Quiet, TypeOK, SessionsOK
  <2>4. txSeq \in Nat
    BY DetectorAssumption DEF TypeOK, SessionsOK
  <2>5. DrawsFresh
    BY <2>1 DEF DrawsFresh
  <2> QED BY <2>1, <2>2, <2>3, <2>4, <2>5 DEF IdsBelow
<1>5. ASSUME \/ \E b \in Boundary, ctx \in Boundary \cup {NoBoundary} : StartBoundary(b, ctx)
             \/ \E b \in Boundary, counts \in MarkCounts : AllowNonAtomicHere(b, counts)
             \/ \E g \in Finisher : (\E b \in Boundary : Finish(g, b)) \/ FinisherStep(g)
             \/ \E n \in Name, counts \in MarkCounts : AllowlistAdd(n, counts)
      PROVE  IdsBelow' /\ DrawsFresh
  <2>1. UNCHANGED <<sessionVars, ledgerVars>>
    BY <1>5 DEF StartBoundary, AllowNonAtomicHere, Finish, FinisherStep, SuppressByAllowlist,
                PrepareViolation, Report, ReportStaleAllow, Return, AllowlistAdd, boundaryVars
  <2> QED BY <2>1, StillFresh
<1> QED BY <1>1, <1>2, <1>3, <1>4, <1>5 DEF Next

\* Two transactions are never given one identifier (Session.BeginTx and Observe,
\* Detector.nextTxID).
THEOREM TransactionsFresh == Spec => FreshTransaction
<1>1. Init => IdsBelow
  BY DEF Init, IdsBelow, Quiet
<1> QED BY <1>1, FreshStep, CountInvInductive, PTL DEF Spec, FreshTransaction

(***************************************************************************)
(* Timelines                                                               *)
(***************************************************************************)

\* The write transactions and the auto-commit writes that a timeline shows.
WritesIn(s) == {i \in DOMAIN s : s[i].kind = "write"}
TxsIn(s) == {s[i].tx : i \in WritesIn(s)} \ {0}
AutosIn(s) == {i \in WritesIn(s) : s[i].tx = 0}

LEMMA ShownFinite ==
    ASSUME NEW s \in Seq(Statement)
    PROVE  IsFiniteSet(TxsIn(s)) /\ IsFiniteSet(AutosIn(s))
<1>1. IsFiniteSet(1..Len(s)) /\ DOMAIN s = 1..Len(s)
  BY FS_Interval
<1>2. IsFiniteSet(WritesIn(s))
  BY <1>1, FS_Subset DEF WritesIn
<1>3. IsFiniteSet(1..MaxTx)
  BY DetectorAssumption, FS_Interval
<1>4. TxsIn(s) \subseteq 1..MaxTx
  <2>0. \A i \in DOMAIN s : s[i] \in Statement
    OBVIOUS
  <2>1. \A i \in DOMAIN s : s[i].tx \in 0..MaxTx
    BY <2>0 DEF Statement
  <2>2. \A n \in 0..MaxTx : n # 0 => n \in 1..MaxTx
    BY DetectorAssumption
  <2> QED BY <2>1, <2>2 DEF TxsIn, WritesIn
<1> QED BY <1>2, <1>3, <1>4, FS_Subset DEF AutosIn

\* What one more statement adds to it.
LEMMA OneMore ==
    ASSUME NEW s \in Seq(Statement), NEW e \in Statement
    PROVE  /\ e.kind # "write" =>
                TxsIn(Append(s, e)) = TxsIn(s) /\ AutosIn(Append(s, e)) = AutosIn(s)
           /\ e.kind = "write" /\ e.tx # 0 =>
                /\ TxsIn(Append(s, e)) = TxsIn(s) \cup {e.tx}
                /\ AutosIn(Append(s, e)) = AutosIn(s)
           /\ e.kind = "write" /\ e.tx = 0 =>
                /\ TxsIn(Append(s, e)) = TxsIn(s)
                /\ AutosIn(Append(s, e)) = AutosIn(s) \cup {Len(s) + 1}
<1>a. Append(s, e) \in Seq(Statement)
  OBVIOUS
<1>t. PICK t \in Seq(Statement) : t = Append(s, e)
  BY <1>a
<1>1. /\ DOMAIN t = DOMAIN s \cup {Len(s) + 1} /\ Len(s) + 1 \notin DOMAIN s
      /\ \A i \in DOMAIN s : t[i] = s[i]
      /\ t[Len(s) + 1] = e
  BY <1>t
<1>2. WritesIn(t) = IF e.kind = "write" THEN WritesIn(s) \cup {Len(s) + 1} ELSE WritesIn(s)
  BY <1>1 DEF WritesIn
<1>3. \A i \in WritesIn(s) : t[i] = s[i] /\ i # Len(s) + 1
  BY <1>1 DEF WritesIn
<1>4. AutosIn(t) = IF e.kind = "write" /\ e.tx = 0 THEN AutosIn(s) \cup {Len(s) + 1}
                   ELSE AutosIn(s)
  BY <1>1, <1>2, <1>3 DEF AutosIn
<1>5. TxsIn(t) = IF e.kind = "write" /\ e.tx # 0 THEN TxsIn(s) \cup {e.tx} ELSE TxsIn(s)
  BY <1>1, <1>2, <1>3 DEF TxsIn
<1> QED BY <1>t, <1>4, <1>5

\* The timeline shows no unit that was not counted, and what it lacks was dropped.
TimelineInv ==
    \A b \in Boundary :
        /\ IsFiniteSet(ledgerTxs[b])
        /\ TxsIn(statements[b]) \subseteq ledgerTxs[b]
        /\ Cardinality(AutosIn(statements[b])) <= ledgerAutos[b]
        /\ Cardinality(ledgerTxs[b]) + ledgerAutos[b]
             <= Cardinality(TxsIn(statements[b])) + Cardinality(AutosIn(statements[b]))
                  + truncated[b]

\* The statement is dropped: the cap leaves its mark.
LEMMA DroppedKeeps ==
    ASSUME TypeOK, TimelineInv, NEW b \in Boundary, NEW e \in Statement,
           truncated' = [truncated EXCEPT ![b] = truncated[b] + 1], UNCHANGED statements,
           IF e.kind = "write" THEN EnterInLedger(b, e.tx) ELSE UNCHANGED ledgerVars
    PROVE  TimelineInv'
<1>1. ASSUME NEW x \in Boundary
      PROVE  /\ IsFiniteSet(ledgerTxs'[x])
             /\ TxsIn(statements[x]) \subseteq ledgerTxs'[x]
             /\ Cardinality(AutosIn(statements[x])) <= ledgerAutos'[x]
             /\ Cardinality(ledgerTxs'[x]) + ledgerAutos'[x]
                  <= Cardinality(TxsIn(statements[x])) + Cardinality(AutosIn(statements[x]))
                       + truncated'[x]
  <2>1. /\ Cardinality(TxsIn(statements[x])) \in Nat
        /\ Cardinality(AutosIn(statements[x])) \in Nat
        /\ ledgerAutos[x] \in Nat /\ truncated[x] \in Nat
        /\ IsFiniteSet(ledgerTxs[x]) /\ Cardinality(ledgerTxs[x]) \in Nat
    BY ShownFinite, FS_CardinalityType DEF TypeOK, TimelinesOK, CountsOK, TimelineInv
  <2>2. truncated'[x] = IF x = b THEN truncated[x] + 1 ELSE truncated[x]
    BY DEF TypeOK, TimelinesOK
  <2>3. \/ ledgerTxs'[x] = ledgerTxs[x] /\ ledgerAutos'[x] = ledgerAutos[x]
        \/ x = b /\ ledgerTxs'[x] = ledgerTxs[x] \cup {e.tx} /\ ledgerAutos'[x] = ledgerAutos[x]
        \/ x = b /\ ledgerTxs'[x] = ledgerTxs[x] /\ ledgerAutos'[x] = ledgerAutos[x] + 1
    BY DEF EnterInLedger, ledgerVars, TypeOK, CountsOK
  <2>4. /\ IsFiniteSet(ledgerTxs[x] \cup {e.tx})
        /\ Cardinality(ledgerTxs[x] \cup {e.tx})
             \in {Cardinality(ledgerTxs[x]), Cardinality(ledgerTxs[x]) + 1}
    BY <2>1, FS_AddElement
  <2>5. /\ TxsIn(statements[x]) \subseteq ledgerTxs[x]
        /\ Cardinality(AutosIn(statements[x])) <= ledgerAutos[x]
        /\ Cardinality(ledgerTxs[x]) + ledgerAutos[x]
             <= Cardinality(TxsIn(statements[x])) + Cardinality(AutosIn(statements[x]))
                  + truncated[x]
    BY DEF TimelineInv
  <2>6. CASE ledgerTxs'[x] = ledgerTxs[x] /\ ledgerAutos'[x] = ledgerAutos[x]
    BY <2>1, <2>2, <2>5, <2>6
  <2>7. CASE /\ x = b /\ ledgerTxs'[x] = ledgerTxs[x] \cup {e.tx}
             /\ ledgerAutos'[x] = ledgerAutos[x]
    BY <2>1, <2>2, <2>4, <2>5, <2>7
  <2>8. CASE /\ x = b /\ ledgerTxs'[x] = ledgerTxs[x]
             /\ ledgerAutos'[x] = ledgerAutos[x] + 1
    BY <2>1, <2>2, <2>5, <2>8
  <2> QED BY <2>3, <2>6, <2>7, <2>8
<1> QED BY <1>1 DEF TimelineInv

\* The statement is recorded: it is shown and counted, or neither.
LEMMA RecordedKeeps ==
    ASSUME TypeOK, TimelineInv, NEW b \in Boundary, NEW e \in Statement,
           statements' = [statements EXCEPT ![b] = Append(statements[b], e)],
           UNCHANGED truncated,
           IF e.kind = "write" THEN EnterInLedger(b, e.tx) ELSE UNCHANGED ledgerVars
    PROVE  TimelineInv'
<1>1. ASSUME NEW x \in Boundary
      PROVE  /\ IsFiniteSet(ledgerTxs'[x])
             /\ TxsIn(statements'[x]) \subseteq ledgerTxs'[x]
             /\ Cardinality(AutosIn(statements'[x])) <= ledgerAutos'[x]
             /\ Cardinality(ledgerTxs'[x]) + ledgerAutos'[x]
                  <= Cardinality(TxsIn(statements'[x])) + Cardinality(AutosIn(statements'[x]))
                       + truncated'[x]
  <2>s. PICK s \in Seq(Statement) : s = statements[x]
    BY DEF TypeOK, TimelinesOK
  <2>0. \A y \in Boundary : statements'[y] = IF y = b THEN Append(statements[b], e)
                                             ELSE statements[y]
    BY DEF TypeOK, TimelinesOK
  <2>1. /\ IsFiniteSet(TxsIn(s)) /\ Cardinality(TxsIn(s)) \in Nat
        /\ IsFiniteSet(AutosIn(s)) /\ Cardinality(AutosIn(s)) \in Nat
        /\ ledgerAutos[x] \in Nat /\ truncated[x] \in Nat
        /\ IsFiniteSet(ledgerTxs[x]) /\ Cardinality(ledgerTxs[x]) \in Nat
    BY ShownFinite, FS_CardinalityType DEF TypeOK, TimelinesOK, CountsOK, TimelineInv
  <2>2. /\ TxsIn(s) \subseteq ledgerTxs[x] /\ Cardinality(AutosIn(s)) <= ledgerAutos[x]
        /\ Cardinality(ledgerTxs[x]) + ledgerAutos[x]
             <= Cardinality(TxsIn(s)) + Cardinality(AutosIn(s)) + truncated[x]
    BY <2>s DEF TimelineInv
  <2>3. CASE x # b
    <3>1. /\ statements'[x] = s /\ truncated'[x] = truncated[x]
          /\ ledgerTxs'[x] = ledgerTxs[x] /\ ledgerAutos'[x] = ledgerAutos[x]
      BY <2>s, <2>0, <2>3 DEF EnterInLedger, ledgerVars, TypeOK, CountsOK
    <3> QED BY <2>1, <2>2, <3>1
  <2>4. CASE x = b /\ e.kind # "write"
    <3>1. /\ TxsIn(statements'[x]) = TxsIn(s) /\ AutosIn(statements'[x]) = AutosIn(s)
          /\ ledgerTxs'[x] = ledgerTxs[x] /\ ledgerAutos'[x] = ledgerAutos[x]
      BY <2>s, <2>0, <2>4, OneMore DEF ledgerVars
    <3> QED BY <2>1, <2>2, <3>1
  <2>5. CASE x = b /\ e.kind = "write" /\ e.tx # 0
    <3>1. /\ TxsIn(statements'[x]) = TxsIn(s) \cup {e.tx}
          /\ AutosIn(statements'[x]) = AutosIn(s)
          /\ ledgerTxs'[x] = ledgerTxs[x] \cup {e.tx} /\ ledgerAutos'[x] = ledgerAutos[x]
          /\ truncated'[x] = truncated[x]
      BY <2>s, <2>0, <2>5, OneMore DEF EnterInLedger, TypeOK, CountsOK
    <3>2. /\ IsFiniteSet(ledgerTxs[x] \cup {e.tx})
          /\ Cardinality(ledgerTxs[x] \cup {e.tx}) =
               IF e.tx \in ledgerTxs[x] THEN Cardinality(ledgerTxs[x])
               ELSE Cardinality(ledgerTxs[x]) + 1
      BY <2>1, FS_AddElement
    <3>3. Cardinality(TxsIn(s) \cup {e.tx}) =
            IF e.tx \in TxsIn(s) THEN Cardinality(TxsIn(s)) ELSE Cardinality(TxsIn(s)) + 1
      BY <2>1, FS_AddElement
    <3>4. Cardinality(ledgerTxs[x] \cup {e.tx}) - Cardinality(ledgerTxs[x]) <=
            Cardinality(TxsIn(s) \cup {e.tx}) - Cardinality(TxsIn(s))
      BY <2>1, <2>2, <3>2, <3>3
    <3>5. Cardinality(TxsIn(s) \cup {e.tx}) \in Nat /\ Cardinality(ledgerTxs[x] \cup {e.tx}) \in Nat
      BY <2>1, <3>2, <3>3
    <3>6. /\ Cardinality(ledgerTxs'[x]) = Cardinality(ledgerTxs[x] \cup {e.tx})
          /\ Cardinality(TxsIn(statements'[x])) = Cardinality(TxsIn(s) \cup {e.tx})
          /\ Cardinality(AutosIn(statements'[x])) = Cardinality(AutosIn(s))
      BY <3>1
    <3>7. Cardinality(ledgerTxs'[x]) + ledgerAutos'[x]
            <= Cardinality(TxsIn(statements'[x])) + Cardinality(AutosIn(statements'[x]))
                 + truncated'[x]
      BY <2>1, <2>2, <3>1, <3>4, <3>5, <3>6
    <3> QED BY <2>2, <3>1, <3>2, <3>6, <3>7
  <2>6. CASE x = b /\ e.kind = "write" /\ e.tx = 0
    <3>1. /\ TxsIn(statements'[x]) = TxsIn(s)
          /\ AutosIn(statements'[x]) = AutosIn(s) \cup {Len(s) + 1}
          /\ ledgerTxs'[x] = ledgerTxs[x] /\ ledgerAutos'[x] = ledgerAutos[x] + 1
          /\ truncated'[x] = truncated[x]
      BY <2>s, <2>0, <2>6, OneMore DEF EnterInLedger, TypeOK, CountsOK
    <3>2. Len(s) + 1 \notin AutosIn(s)
      BY DEF AutosIn, WritesIn
    <3>3. Cardinality(AutosIn(s) \cup {Len(s) + 1}) = Cardinality(AutosIn(s)) + 1
      BY <2>1, <3>2, FS_AddElement
    <3>4. /\ Cardinality(ledgerTxs'[x]) = Cardinality(ledgerTxs[x])
          /\ Cardinality(TxsIn(statements'[x])) = Cardinality(TxsIn(s))
          /\ Cardinality(AutosIn(statements'[x])) = Cardinality(AutosIn(s)) + 1
      BY <3>1, <3>3
    <3>5. /\ Cardinality(AutosIn(statements'[x])) <= ledgerAutos'[x]
          /\ Cardinality(ledgerTxs'[x]) + ledgerAutos'[x]
               <= Cardinality(TxsIn(statements'[x])) + Cardinality(AutosIn(statements'[x]))
                    + truncated'[x]
      BY <2>1, <2>2, <3>1, <3>4
    <3> QED BY <2>1, <2>2, <3>1, <3>5
  <2> QED BY <2>3, <2>4, <2>5, <2>6
<1> QED BY <1>1 DEF TimelineInv

LEMMA TimelineStep ==
    TypeOK /\ TimelineInv /\ [Next]_vars => TimelineInv'
<1> SUFFICES ASSUME TypeOK, TimelineInv, [Next]_vars PROVE TimelineInv'
  OBVIOUS
<1>1. ASSUME UNCHANGED <<timelineVars, ledgerVars>>
      PROVE  TimelineInv'
  BY <1>1 DEF TimelineInv, timelineVars, ledgerVars
<1>2. ASSUME NEW c \in Conn, Record(c), ~finished[obs[c].ctx]
      PROVE  TimelineInv'
  <2>1. PICK b \in Boundary, e \in Statement : RecordOn(b, e)
    BY <1>2, RecordedStatement DEF Record
  <2>2. IF e.kind = "write" THEN EnterInLedger(b, e.tx) ELSE UNCHANGED ledgerVars
    BY <2>1 DEF RecordOn, ledgerVars
  <2>3. CASE Len(statements[b]) < MaxRecorded
    <3>1. /\ statements' = [statements EXCEPT ![b] = Append(statements[b], e)]
          /\ UNCHANGED truncated
      BY <2>1, <2>3 DEF RecordOn, AppendStatement
    <3> QED BY <2>2, <3>1, RecordedKeeps
  <2>4. CASE ~(Len(statements[b]) < MaxRecorded)
    <3>1. /\ truncated' = [truncated EXCEPT ![b] = truncated[b] + 1]
          /\ UNCHANGED statements
      BY <2>1, <2>4 DEF RecordOn, AppendStatement
    <3> QED BY <2>2, <3>1, DroppedKeeps
  <2> QED BY <2>3, <2>4
<1>3. ASSUME NEW c \in Conn, SessionStep(c)
      PROVE  TimelineInv'
  BY <1>1, <1>2, <1>3 DEF SessionStep, Record, RecordUnbounded, boundaryVars
<1>4. ASSUME \/ UNCHANGED vars
             \/ \E b \in Boundary, ctx \in Boundary \cup {NoBoundary} : StartBoundary(b, ctx)
             \/ \E b \in Boundary, counts \in MarkCounts : AllowNonAtomicHere(b, counts)
             \/ \E c \in Conn : \/ \E ctx \in Boundary \cup {NoBoundary}, kind \in ObservedKinds :
                                     Observe(c, ctx, kind)
                                \/ BeginTx(c) \/ EndTx(c)
             \/ \E g \in Finisher : (\E b \in Boundary : Finish(g, b)) \/ FinisherStep(g)
             \/ \E n \in Name, counts \in MarkCounts : AllowlistAdd(n, counts)
      PROVE  TimelineInv'
  <2>1. UNCHANGED <<timelineVars, ledgerVars>>
    BY <1>4 DEF vars, StartBoundary, AllowNonAtomicHere, Observe, BeginTx, EndTx, Finish,
                FinisherStep, SuppressByAllowlist, PrepareViolation, Report,
                ReportStaleAllow, Return, AllowlistAdd, boundaryVars
  <2> QED BY <1>1, <2>1
<1> QED BY <1>3, <1>4 DEF Next

\* What the invariant says of the count.
LEMMA TimelineExplains ==
    TypeOK /\ CountInv /\ TimelineInv => TimelineExplainsUnits
<1> SUFFICES ASSUME TypeOK, CountInv, TimelineInv, NEW b \in Boundary
             PROVE  /\ RecordedUnits(b) <= WriteUnits(b)
                    /\ WriteUnits(b) <= RecordedUnits(b) + truncated[b]
  BY DEF TimelineExplainsUnits
<1>1. /\ WriteUnits(b) = Cardinality(ledgerTxs[b]) + ledgerAutos[b]
  BY DEF CountInv, Exact, WriteUnits
<1>2. /\ Cardinality(TxsIn(statements[b])) \in Nat
      /\ Cardinality(AutosIn(statements[b])) \in Nat
      /\ IsFiniteSet(TxsIn(statements[b]))
  BY ShownFinite, FS_CardinalityType DEF TypeOK, TimelinesOK
<1>3. RecordedUnits(b) =
        Cardinality(TxsIn(statements[b])) + Cardinality(AutosIn(statements[b]))
  BY DEF RecordedUnits, RecordedWrites, TxsIn, AutosIn, WritesIn
<1>4. Cardinality(TxsIn(statements[b])) <= Cardinality(ledgerTxs[b])
  BY FS_Subset DEF TimelineInv
<1>5. /\ Cardinality(ledgerTxs[b]) \in Nat /\ ledgerAutos[b] \in Nat
      /\ truncated[b] \in Nat
  BY FS_CardinalityType DEF TimelineInv, TypeOK, TimelinesOK, CountsOK
<1> QED BY <1>1, <1>2, <1>3, <1>4, <1>5 DEF TimelineInv

\* The timeline that finishBoundary copies accounts for the count it reports:
\* what it lacks was dropped by the cap in Boundary.record, and nothing else.
THEOREM TimelinesExplain == Spec => []TimelineExplainsUnits
<1>1. Init => TimelineInv
  <2> SUFFICES ASSUME Init, NEW b \in Boundary
               PROVE  /\ IsFiniteSet(ledgerTxs[b])
                      /\ TxsIn(statements[b]) \subseteq ledgerTxs[b]
                      /\ Cardinality(AutosIn(statements[b])) <= ledgerAutos[b]
                      /\ Cardinality(ledgerTxs[b]) + ledgerAutos[b]
                           <= Cardinality(TxsIn(statements[b]))
                                + Cardinality(AutosIn(statements[b])) + truncated[b]
    BY DEF TimelineInv
  <2>1. /\ ledgerTxs[b] = {} /\ ledgerAutos[b] = 0
        /\ statements[b] = <<>> /\ truncated[b] = 0
    BY DEF Init
  <2>2. WritesIn(<<>>) = {}
    BY DEF WritesIn
  <2>3. TxsIn(<<>>) = {} /\ AutosIn(<<>>) = {}
    BY <2>2 DEF TxsIn, AutosIn
  <2>4. IsFiniteSet({}) /\ Cardinality({}) = 0
    BY FS_EmptySet
  <2>5. TxsIn(statements[b]) = {} /\ AutosIn(statements[b]) = {}
    BY <2>1, <2>3
  <2>6. /\ Cardinality(TxsIn(statements[b])) = 0
        /\ Cardinality(AutosIn(statements[b])) = 0
        /\ Cardinality(ledgerTxs[b]) = 0 /\ IsFiniteSet(ledgerTxs[b])
    BY <2>1, <2>4, <2>5
  <2>7. TxsIn(statements[b]) \subseteq ledgerTxs[b]
    BY <2>5
  <2> QED BY <2>1, <2>6, <2>7
<1> QED BY <1>1, TimelineStep, TimelineExplains, CountInvInductive, PTL DEF Spec
=============================================================================
