---------------------------- MODULE ThrottleProofs ----------------------------
(***************************************************************************)
(* Proofs about the throttling reporter, for any number of callers, keys,  *)
(* reports and ticks and for every interval, and about the key of a        *)
(* statement of any length.                                                *)
(***************************************************************************)
EXTENDS Throttle, ThrottleKey, FiniteSetTheorems, WellFoundedInduction, TLAPS

\* Updating one cell of a table: the table keeps its type, the other cells
\* their values.
LEMMA CellUpdate ==
    ASSUME NEW S, NEW T, NEW V, NEW f \in [S -> [T -> V]],
           NEW s \in S, NEW k \in T, NEW v \in V
    PROVE  /\ [f EXCEPT ![s][k] = v] \in [S -> [T -> V]]
           /\ \A a \in S, b \in T :
                [f EXCEPT ![s][k] = v][a][b] = IF a = s /\ b = k THEN v ELSE f[a][b]
OBVIOUS

\* Arrive counts one report of one key and touches nothing else it names.
LEMMA ArriveCounts ==
    ASSUME TypeOK, NEW g \in Caller, NEW s \in Stream, NEW k \in Key, Arrive(g, s, k)
    PROVE  /\ arrived' \in [Stream -> [Key -> Nat]]
           /\ \A t \in Stream, j \in Key :
                arrived'[t][j] = IF t = s /\ j = k THEN arrived[t][j] + 1
                                                   ELSE arrived[t][j]
           /\ UNCHANGED <<interval, implemented, clock, delivered>>
<1> DEFINE n == arrived[s][k] + 1
<1>1. arrived \in [Stream -> [Key -> Nat]]
  BY DEF TypeOK
<1>2. n \in Nat
  BY <1>1
<1>3. arrived' = [arrived EXCEPT ![s][k] = n]
  BY DEF Arrive
<1>4. UNCHANGED <<interval, implemented, clock, delivered>>
  BY DEF Arrive, configVars
<1>5. /\ arrived' \in [Stream -> [Key -> Nat]]
      /\ \A t \in Stream, j \in Key :
           arrived'[t][j] = IF t = s /\ j = k THEN n ELSE arrived[t][j]
  <2> HIDE DEF n
  <2> QED BY <1>1, <1>2, <1>3, CellUpdate
<1> QED BY <1>4, <1>5

\* LetThrough appends the time to the key's admissions.
LEMMA LetThroughAppends ==
    ASSUME TypeOK, NEW g \in Caller, NEW s \in Stream, NEW k \in Key,
           LetThrough(g, s, k)
    PROVE  /\ admittedAt' \in [Stream -> [Key -> Seq(0..MaxTime)]]
           /\ \A t \in Stream, j \in Key :
                admittedAt'[t][j] = IF t = s /\ j = k
                                    THEN Append(admittedAt[t][j], clock)
                                    ELSE admittedAt[t][j]
           /\ forwarding' \in [Caller -> {Nothing} \cup (Stream \X Key)]
           /\ forwarding' = [forwarding EXCEPT ![g] = <<s, k>>]
<1> DEFINE a == Append(admittedAt[s][k], clock)
<1>1. /\ admittedAt \in [Stream -> [Key -> Seq(0..MaxTime)]]
      /\ clock \in 0..MaxTime
      /\ forwarding \in [Caller -> {Nothing} \cup (Stream \X Key)]
  BY DEF TypeOK
<1>2. a \in Seq(0..MaxTime)
  BY <1>1
<1>3. admittedAt' = [admittedAt EXCEPT ![s][k] = a]
  BY DEF LetThrough
<1>4. /\ admittedAt' \in [Stream -> [Key -> Seq(0..MaxTime)]]
      /\ \A t \in Stream, j \in Key :
           admittedAt'[t][j] = IF t = s /\ j = k THEN a ELSE admittedAt[t][j]
  <2> HIDE DEF a
  <2> QED BY <1>1, <1>2, <1>3, CellUpdate
<1>5. forwarding' = [forwarding EXCEPT ![g] = <<s, k>>]
  BY DEF LetThrough
<1>6. forwarding' \in [Caller -> {Nothing} \cup (Stream \X Key)]
  BY <1>1, <1>5
<1> QED BY <1>4, <1>5, <1>6

\* Replacing one window.
LEMMA WindowUpdate ==
    ASSUME TypeOK, NEW s \in Stream, NEW k \in Key, NEW w \in Window,
           windows' = [windows EXCEPT ![s][k] = w]
    PROVE  /\ windows' \in [Stream -> [Key -> Window]]
           /\ \A t \in Stream, j \in Key :
                windows'[t][j] = IF t = s /\ j = k THEN w ELSE windows[t][j]
<1>1. windows \in [Stream -> [Key -> Window]]
  BY DEF TypeOK
<1> HIDE DEF Window
<1> QED BY <1>1, CellUpdate

NewWindow == [tracked |-> TRUE, last |-> clock, suppressed |-> 0]

\* What each of the three makes of the window of its key.
LEMMA FirstWindow ==
    ASSUME TypeOK, NEW g \in Caller, NEW s \in Stream, NEW k \in Key, AdmitFirst(g, s, k)
    PROVE  /\ windows' \in [Stream -> [Key -> Window]]
           /\ \A t \in Stream, j \in Key :
                windows'[t][j] = IF t = s /\ j = k
                                 THEN NewWindow
                                 ELSE windows[t][j]
<1>1. NewWindow \in Window
  BY DEF TypeOK, Window, NewWindow
<1>2. windows' = [windows EXCEPT ![s][k] = NewWindow]
  BY DEF AdmitFirst, NewWindow
<1> QED BY <1>1, <1>2, WindowUpdate

LEMMA AgainWindow ==
    ASSUME TypeOK, NEW g \in Caller, NEW s \in Stream, NEW k \in Key, AdmitAgain(g, s, k)
    PROVE  /\ windows' \in [Stream -> [Key -> Window]]
           /\ \A t \in Stream, j \in Key :
                windows'[t][j] = IF t = s /\ j = k
                                 THEN [tracked |-> TRUE, last |-> clock,
                                       suppressed |-> windows[s][k].suppressed]
                                 ELSE windows[t][j]
<1> DEFINE w == [tracked |-> TRUE, last |-> clock,
                suppressed |-> windows[s][k].suppressed]
<1>1. w \in Window
  BY DEF TypeOK, Window
<1>2. windows' = [windows EXCEPT ![s][k] = w]
  BY DEF AdmitAgain
<1>3. /\ windows' \in [Stream -> [Key -> Window]]
      /\ \A t \in Stream, j \in Key :
           windows'[t][j] = IF t = s /\ j = k THEN w ELSE windows[t][j]
  <2> HIDE DEF w
  <2> QED BY <1>1, <1>2, WindowUpdate
<1> QED BY <1>3

LEMMA SuppressWindow ==
    ASSUME TypeOK, NEW g \in Caller, NEW s \in Stream, NEW k \in Key, Suppress(g, s, k)
    PROVE  /\ windows' \in [Stream -> [Key -> Window]]
           /\ \A t \in Stream, j \in Key :
                windows'[t][j] = IF t = s /\ j = k
                                 THEN [tracked |-> TRUE, last |-> windows[s][k].last,
                                       suppressed |-> windows[s][k].suppressed + 1]
                                 ELSE windows[t][j]
<1> DEFINE w == [tracked |-> TRUE, last |-> windows[s][k].last,
                suppressed |-> windows[s][k].suppressed + 1]
<1>1. w \in Window
  BY DEF TypeOK, Window
<1>2. windows' = [windows EXCEPT ![s][k] = w]
  BY DEF Suppress
<1>3. /\ windows' \in [Stream -> [Key -> Window]]
      /\ \A t \in Stream, j \in Key :
           windows'[t][j] = IF t = s /\ j = k THEN w ELSE windows[t][j]
  <2> HIDE DEF w
  <2> QED BY <1>1, <1>2, WindowUpdate
<1> QED BY <1>3

LEMMA InitTypeOK == Init => TypeOK
<1> SUFFICES ASSUME Init PROVE TypeOK
  OBVIOUS
<1>1. NoWindow \in Window
  BY ThrottleAssumption DEF NoWindow, Window
<1>2. windows \in [Stream -> [Key -> Window]]
  <2> HIDE DEF Window
  <2> QED BY <1>1 DEF Init
<1>3. admittedAt \in [Stream -> [Key -> Seq(0..MaxTime)]]
  BY DEF Init
<1> QED BY <1>2, <1>3, ThrottleAssumption DEF Init, TypeOK, Nothing

LEMMA StepTypeOK ==
    ASSUME TypeOK, [Next]_vars
    PROVE  TypeOK'
<1> USE DEF TypeOK
<1>1. ASSUME NEW g \in Caller, NEW s \in Stream, NEW k \in Key, Bypass(g, s, k)
      PROVE  TypeOK'
  <2>1. Arrive(g, s, k) /\ LetThrough(g, s, k) /\ UNCHANGED windows
    BY <1>1 DEF Bypass
  <2> QED BY <2>1, ArriveCounts, LetThroughAppends
<1>2. ASSUME NEW g \in Caller, NEW s \in Stream, NEW k \in Key, AdmitUntracked(g, s, k)
      PROVE  TypeOK'
  <2>1. Arrive(g, s, k) /\ LetThrough(g, s, k) /\ UNCHANGED windows
    BY <1>2 DEF AdmitUntracked
  <2> QED BY <2>1, ArriveCounts, LetThroughAppends
<1>3. ASSUME NEW g \in Caller, NEW s \in Stream, NEW k \in Key, AdmitFirst(g, s, k)
      PROVE  TypeOK'
  <2>1. Arrive(g, s, k) /\ LetThrough(g, s, k)
    BY <1>3 DEF AdmitFirst
  <2> QED BY <1>3, <2>1, FirstWindow, ArriveCounts, LetThroughAppends
<1>4. ASSUME NEW g \in Caller, NEW s \in Stream, NEW k \in Key, AdmitAgain(g, s, k)
      PROVE  TypeOK'
  <2>1. Arrive(g, s, k) /\ LetThrough(g, s, k)
    BY <1>4 DEF AdmitAgain
  <2> QED BY <1>4, <2>1, AgainWindow, ArriveCounts, LetThroughAppends
<1>5. ASSUME NEW g \in Caller, NEW s \in Stream, NEW k \in Key, Suppress(g, s, k)
      PROVE  TypeOK'
  <2>1. Arrive(g, s, k) /\ UNCHANGED <<forwarding, admittedAt>>
    BY <1>5 DEF Suppress
  <2> QED BY <1>5, <2>1, SuppressWindow, ArriveCounts
<1>6. ASSUME NEW g \in Caller, NEW s \in Stream, NEW k \in Key, Deliver(g, s, k)
      PROVE  TypeOK'
  <2> DEFINE n == delivered[s][k] + 1
  <2>1. n \in Nat
    OBVIOUS
  <2>2. delivered' = [delivered EXCEPT ![s][k] = n]
    BY <1>6 DEF Deliver
  <2>3. delivered' \in [Stream -> [Key -> Nat]]
    <3> HIDE DEF n
    <3> QED BY <2>1, <2>2, CellUpdate
  <2>4. forwarding' \in [Caller -> {Nothing} \cup (Stream \X Key)]
    BY <1>6 DEF Deliver
  <2>5. UNCHANGED <<interval, implemented, clock, windows, arrived, admittedAt>>
    BY <1>6 DEF Deliver, configVars
  <2> QED BY <2>3, <2>4, <2>5
<1>7. CASE Tick
  BY <1>7, ThrottleAssumption DEF Tick, configVars, historyVars
<1>8. CASE UNCHANGED vars
  BY <1>8 DEF vars, configVars, historyVars
<1> QED BY <1>1, <1>2, <1>3, <1>4, <1>5, <1>6, <1>7, <1>8 DEF Next

\* The windows, the admissions and the counts always have their types.
THEOREM TypeCorrect == Spec => []TypeOK
<1>1. Init => TypeOK
  BY InitTypeOK
<1>2. TypeOK /\ [Next]_vars => TypeOK'
  BY StepTypeOK
<1> QED BY <1>1, <1>2, PTL DEF Spec

(***************************************************************************)
(* The goroutines handing on a report of a key                             *)
(***************************************************************************)
Holders(f, s, k) == {g \in Caller : f[g] = <<s, k>>}

Handing(f, s, k) == Cardinality(Holders(f, s, k))

LEMMA HoldersFinite ==
    ASSUME NEW f, NEW s \in Stream, NEW k \in Key
    PROVE  IsFiniteSet(Holders(f, s, k)) /\ Handing(f, s, k) \in Nat
<1>1. Holders(f, s, k) \subseteq Caller
  BY DEF Holders
<1> QED BY <1>1, FS_Subset, FS_CardinalityType, ThrottleAssumption DEF Handing

\* A goroutine that lets a report through joins its holders.
LEMMA HoldersJoin ==
    ASSUME NEW f, NEW f2,
           NEW g \in Caller, NEW s \in Stream, NEW k \in Key, f[g] = Nothing,
           \A h \in Caller : f2[h] = IF h = g THEN <<s, k>> ELSE f[h],
           NEW t \in Stream, NEW j \in Key
    PROVE  Handing(f2, t, j) =
             IF t = s /\ j = k THEN Handing(f, t, j) + 1 ELSE Handing(f, t, j)
<1>1. CASE t = s /\ j = k
  <2>1. Holders(f2, t, j) = Holders(f, t, j) \cup {g}
    BY <1>1 DEF Holders
  <2>2. g \notin Holders(f, t, j)
    <3>1. <<t, j>> # Nothing
      BY DEF Nothing
    <3> QED BY <3>1 DEF Holders
  <2>3. Cardinality(Holders(f2, t, j)) = Cardinality(Holders(f, t, j)) + 1
    BY <2>1, <2>2, HoldersFinite, FS_AddElement
  <2> QED BY <1>1, <2>3 DEF Handing
<1>2. CASE ~(t = s /\ j = k)
  <2>1. Holders(f2, t, j) = Holders(f, t, j)
    BY <1>2 DEF Holders, Nothing
  <2> QED BY <1>2, <2>1 DEF Handing
<1> QED BY <1>1, <1>2

\* A goroutine that has called the wrapped reporter leaves them.
LEMMA HoldersLeave ==
    ASSUME NEW f, NEW f2,
           NEW g \in Caller, NEW s \in Stream, NEW k \in Key, f[g] = <<s, k>>,
           \A h \in Caller : f2[h] = IF h = g THEN Nothing ELSE f[h],
           NEW t \in Stream, NEW j \in Key
    PROVE  Handing(f2, t, j) =
             IF t = s /\ j = k THEN Handing(f, t, j) - 1 ELSE Handing(f, t, j)
<1>1. CASE t = s /\ j = k
  <2>1. Holders(f2, t, j) = Holders(f, t, j) \ {g}
    BY <1>1 DEF Holders, Nothing
  <2>2. g \in Holders(f, t, j)
    BY <1>1 DEF Holders
  <2>3. Cardinality(Holders(f2, t, j)) = Cardinality(Holders(f, t, j)) - 1
    <3>1. IsFiniteSet(Holders(f, t, j)) /\ Cardinality(Holders(f, t, j)) \in Nat
      BY HoldersFinite DEF Handing
    <3> QED BY <2>1, <2>2, <3>1, FS_RemoveElement
  <2> QED BY <1>1, <2>3 DEF Handing
<1>2. CASE ~(t = s /\ j = k)
  <2>1. Holders(f2, t, j) = Holders(f, t, j)
    BY <1>2 DEF Holders, Nothing
  <2> QED BY <1>2, <2>1 DEF Handing
<1> QED BY <1>1, <1>2

(***************************************************************************)
(* Windows. The invariant that makes the others inductive: an open window  *)
(* starts at the last admission of its key, and a key without a window has *)
(* nothing suppressed.                                                     *)
(***************************************************************************)
KeyInv(s, k) ==
    /\ interval <= 0 => ~windows[s][k].tracked
    /\ ~windows[s][k].tracked => windows[s][k].suppressed = 0
    /\ windows[s][k].tracked =>
         /\ Len(admittedAt[s][k]) > 0
         /\ admittedAt[s][k][Len(admittedAt[s][k])] = windows[s][k].last

WindowInv == \A s \in Stream, k \in Key : KeyInv(s, k)

\* What a step does to one key: nothing, but for a forwarder who may call the
\* wrapped reporter; or it brings a report of the key, in one of five ways.
Untouched(s, k) ==
    /\ windows'[s][k] = windows[s][k]
    /\ admittedAt'[s][k] = admittedAt[s][k]
    /\ arrived'[s][k] = arrived[s][k]
    /\ \/ /\ delivered'[s][k] = delivered[s][k]
          /\ Handing(forwarding', s, k) = Handing(forwarding, s, k)
       \/ /\ delivered'[s][k] = delivered[s][k] + 1
          /\ Handing(forwarding', s, k) = Handing(forwarding, s, k) - 1

Admitted(s, k) ==
    /\ admittedAt'[s][k] = Append(admittedAt[s][k], clock)
    /\ arrived'[s][k] = arrived[s][k] + 1
    /\ delivered'[s][k] = delivered[s][k]
    /\ Handing(forwarding', s, k) = Handing(forwarding, s, k) + 1

Dropped(s, k) ==
    /\ admittedAt'[s][k] = admittedAt[s][k]
    /\ arrived'[s][k] = arrived[s][k] + 1
    /\ delivered'[s][k] = delivered[s][k]
    /\ Handing(forwarding', s, k) = Handing(forwarding, s, k)

KeyStep(s, k) ==
    \/ Untouched(s, k)
    \/ interval <= 0 /\ Admitted(s, k) /\ windows'[s][k] = windows[s][k]
    \/ /\ interval > 0 /\ ~windows[s][k].tracked /\ Full(s)
       /\ Admitted(s, k) /\ windows'[s][k] = windows[s][k]
    \/ /\ interval > 0 /\ ~windows[s][k].tracked /\ ~Full(s)
       /\ Admitted(s, k)
       /\ windows'[s][k] = NewWindow
    \/ /\ interval > 0 /\ windows[s][k].tracked
       /\ clock - windows[s][k].last >= interval
       /\ Admitted(s, k)
       /\ windows'[s][k] = [tracked |-> TRUE, last |-> clock,
                            suppressed |-> windows[s][k].suppressed]
    \/ /\ interval > 0 /\ windows[s][k].tracked
       /\ clock - windows[s][k].last < interval
       /\ Dropped(s, k)
       /\ windows'[s][k] = [tracked |-> TRUE, last |-> windows[s][k].last,
                            suppressed |-> windows[s][k].suppressed + 1]

\* Every step is such a step for every key.
LEMMA EveryStepIsKeyStep ==
    ASSUME TypeOK, [Next]_vars, NEW t \in Stream, NEW j \in Key
    PROVE  KeyStep(t, j) /\ UNCHANGED interval
<1>1. ASSUME NEW g \in Caller, NEW s \in Stream, NEW k \in Key, Bypass(g, s, k)
      PROVE  KeyStep(t, j) /\ UNCHANGED interval
  <2>1. /\ Arrive(g, s, k) /\ LetThrough(g, s, k)
        /\ interval <= 0 /\ UNCHANGED windows
    BY <1>1 DEF Bypass
  <2>2. admittedAt'[t][j] = IF t = s /\ j = k THEN Append(admittedAt[t][j], clock)
                                              ELSE admittedAt[t][j]
    BY <2>1, LetThroughAppends
  <2>3. Handing(forwarding', t, j) = IF t = s /\ j = k
                                     THEN Handing(forwarding, t, j) + 1
                                     ELSE Handing(forwarding, t, j)
    <3>1. forwarding[g] = Nothing
      BY <2>1 DEF Arrive
    <3>2. \A h \in Caller : forwarding'[h] = IF h = g THEN <<s, k>> ELSE forwarding[h]
      BY <2>1 DEF LetThrough, TypeOK
    <3> QED BY <3>1, <3>2, HoldersJoin
  <2>4. /\ UNCHANGED interval /\ delivered'[t][j] = delivered[t][j]
        /\ arrived'[t][j] = IF t = s /\ j = k THEN arrived[t][j] + 1 ELSE arrived[t][j]
    BY <2>1, ArriveCounts
  <2>5. windows'[t][j] = windows[t][j]
    BY <2>1
  <2>6. CASE t = s /\ j = k
    BY <2>1, <2>2, <2>3, <2>4, <2>5, <2>6 DEF KeyStep, Admitted
  <2>7. CASE ~(t = s /\ j = k)
    BY <2>2, <2>3, <2>4, <2>5, <2>7 DEF KeyStep, Untouched
  <2> QED BY <2>6, <2>7
<1>2. ASSUME NEW g \in Caller, NEW s \in Stream, NEW k \in Key, AdmitUntracked(g, s, k)
      PROVE  KeyStep(t, j) /\ UNCHANGED interval
  <2>1. /\ Arrive(g, s, k) /\ LetThrough(g, s, k)
        /\ interval > 0 /\ ~windows[s][k].tracked /\ Full(s) /\ UNCHANGED windows
    BY <1>2 DEF AdmitUntracked
  <2>2. admittedAt'[t][j] = IF t = s /\ j = k THEN Append(admittedAt[t][j], clock)
                                              ELSE admittedAt[t][j]
    BY <2>1, LetThroughAppends
  <2>3. Handing(forwarding', t, j) = IF t = s /\ j = k
                                     THEN Handing(forwarding, t, j) + 1
                                     ELSE Handing(forwarding, t, j)
    <3>1. forwarding[g] = Nothing
      BY <2>1 DEF Arrive
    <3>2. \A h \in Caller : forwarding'[h] = IF h = g THEN <<s, k>> ELSE forwarding[h]
      BY <2>1 DEF LetThrough, TypeOK
    <3> QED BY <3>1, <3>2, HoldersJoin
  <2>4. /\ UNCHANGED interval /\ delivered'[t][j] = delivered[t][j]
        /\ arrived'[t][j] = IF t = s /\ j = k THEN arrived[t][j] + 1 ELSE arrived[t][j]
    BY <2>1, ArriveCounts
  <2>5. windows'[t][j] = windows[t][j]
    BY <2>1
  <2>6. CASE t = s /\ j = k
    BY <2>1, <2>2, <2>3, <2>4, <2>5, <2>6 DEF KeyStep, Admitted
  <2>7. CASE ~(t = s /\ j = k)
    BY <2>2, <2>3, <2>4, <2>5, <2>7 DEF KeyStep, Untouched
  <2> QED BY <2>6, <2>7
<1>3. ASSUME NEW g \in Caller, NEW s \in Stream, NEW k \in Key, AdmitFirst(g, s, k)
      PROVE  KeyStep(t, j) /\ UNCHANGED interval
  <2>1. /\ Arrive(g, s, k) /\ LetThrough(g, s, k)
        /\ interval > 0 /\ ~windows[s][k].tracked /\ ~Full(s)
    BY <1>3 DEF AdmitFirst
  <2>2. admittedAt'[t][j] = IF t = s /\ j = k THEN Append(admittedAt[t][j], clock)
                                              ELSE admittedAt[t][j]
    BY <2>1, LetThroughAppends
  <2>3. Handing(forwarding', t, j) = IF t = s /\ j = k
                                     THEN Handing(forwarding, t, j) + 1
                                     ELSE Handing(forwarding, t, j)
    <3>1. forwarding[g] = Nothing
      BY <2>1 DEF Arrive
    <3>2. \A h \in Caller : forwarding'[h] = IF h = g THEN <<s, k>> ELSE forwarding[h]
      BY <2>1 DEF LetThrough, TypeOK
    <3> QED BY <3>1, <3>2, HoldersJoin
  <2>4. /\ UNCHANGED interval /\ delivered'[t][j] = delivered[t][j]
        /\ arrived'[t][j] = IF t = s /\ j = k THEN arrived[t][j] + 1 ELSE arrived[t][j]
    BY <2>1, ArriveCounts
  <2>5. windows'[t][j] = IF t = s /\ j = k
                         THEN NewWindow
                         ELSE windows[t][j]
    BY <1>3, FirstWindow
  <2>6. CASE t = s /\ j = k
    BY <2>1, <2>2, <2>3, <2>4, <2>5, <2>6 DEF KeyStep, Admitted
  <2>7. CASE ~(t = s /\ j = k)
    BY <2>2, <2>3, <2>4, <2>5, <2>7 DEF KeyStep, Untouched
  <2> QED BY <2>6, <2>7
<1>4. ASSUME NEW g \in Caller, NEW s \in Stream, NEW k \in Key, AdmitAgain(g, s, k)
      PROVE  KeyStep(t, j) /\ UNCHANGED interval
  <2>1. /\ Arrive(g, s, k) /\ LetThrough(g, s, k)
        /\ interval > 0 /\ windows[s][k].tracked /\ clock - windows[s][k].last >= interval
    BY <1>4 DEF AdmitAgain
  <2>2. admittedAt'[t][j] = IF t = s /\ j = k THEN Append(admittedAt[t][j], clock)
                                              ELSE admittedAt[t][j]
    BY <2>1, LetThroughAppends
  <2>3. Handing(forwarding', t, j) = IF t = s /\ j = k
                                     THEN Handing(forwarding, t, j) + 1
                                     ELSE Handing(forwarding, t, j)
    <3>1. forwarding[g] = Nothing
      BY <2>1 DEF Arrive
    <3>2. \A h \in Caller : forwarding'[h] = IF h = g THEN <<s, k>> ELSE forwarding[h]
      BY <2>1 DEF LetThrough, TypeOK
    <3> QED BY <3>1, <3>2, HoldersJoin
  <2>4. /\ UNCHANGED interval /\ delivered'[t][j] = delivered[t][j]
        /\ arrived'[t][j] = IF t = s /\ j = k THEN arrived[t][j] + 1 ELSE arrived[t][j]
    BY <2>1, ArriveCounts
  <2>5. windows'[t][j] = IF t = s /\ j = k
                         THEN [tracked |-> TRUE, last |-> clock,
                               suppressed |-> windows[s][k].suppressed]
                         ELSE windows[t][j]
    BY <1>4, AgainWindow
  <2>6. CASE t = s /\ j = k
    BY <2>1, <2>2, <2>3, <2>4, <2>5, <2>6 DEF KeyStep, Admitted
  <2>7. CASE ~(t = s /\ j = k)
    BY <2>2, <2>3, <2>4, <2>5, <2>7 DEF KeyStep, Untouched
  <2> QED BY <2>6, <2>7
<1>5. ASSUME NEW g \in Caller, NEW s \in Stream, NEW k \in Key, Suppress(g, s, k)
      PROVE  KeyStep(t, j) /\ UNCHANGED interval
  <2>1. /\ Arrive(g, s, k) /\ UNCHANGED <<forwarding, admittedAt>>
        /\ interval > 0 /\ windows[s][k].tracked /\ clock - windows[s][k].last < interval
    BY <1>5 DEF Suppress
  <2>2. admittedAt'[t][j] = admittedAt[t][j]
    BY <2>1
  <2>3. Handing(forwarding', t, j) = Handing(forwarding, t, j)
    BY <2>1
  <2>4. /\ UNCHANGED interval /\ delivered'[t][j] = delivered[t][j]
        /\ arrived'[t][j] = IF t = s /\ j = k THEN arrived[t][j] + 1 ELSE arrived[t][j]
    BY <2>1, ArriveCounts
  <2>5. windows'[t][j] = IF t = s /\ j = k
                         THEN [tracked |-> TRUE, last |-> windows[s][k].last,
                               suppressed |-> windows[s][k].suppressed + 1]
                         ELSE windows[t][j]
    BY <1>5, SuppressWindow
  <2>6. CASE t = s /\ j = k
    BY <2>1, <2>2, <2>3, <2>4, <2>5, <2>6 DEF KeyStep, Dropped
  <2>7. CASE ~(t = s /\ j = k)
    BY <2>2, <2>3, <2>4, <2>5, <2>7 DEF KeyStep, Untouched
  <2> QED BY <2>6, <2>7
<1>6. ASSUME NEW g \in Caller, NEW s \in Stream, NEW k \in Key, Deliver(g, s, k)
      PROVE  KeyStep(t, j) /\ UNCHANGED interval
  <2> DEFINE n == delivered[s][k] + 1
  <2>1. UNCHANGED <<interval, windows, arrived, admittedAt>>
    BY <1>6 DEF Deliver, configVars
  <2>2. delivered' = [delivered EXCEPT ![s][k] = n]
    BY <1>6 DEF Deliver
  <2>3. delivered \in [Stream -> [Key -> Nat]] /\ n \in Nat
    BY DEF TypeOK
  <2>4. delivered'[t][j] = IF t = s /\ j = k THEN n ELSE delivered[t][j]
    <3> HIDE DEF n
    <3> QED BY <2>2, <2>3, CellUpdate
  <2>5. Handing(forwarding', t, j) = IF t = s /\ j = k
                                     THEN Handing(forwarding, t, j) - 1
                                     ELSE Handing(forwarding, t, j)
    <3>1. forwarding[g] = <<s, k>>
      BY <1>6 DEF Deliver
    <3>2. \A h \in Caller : forwarding'[h] = IF h = g THEN Nothing ELSE forwarding[h]
      BY <1>6 DEF Deliver, TypeOK
    <3> QED BY <3>1, <3>2, HoldersLeave
  <2> QED BY <2>1, <2>4, <2>5 DEF KeyStep, Untouched
<1>7. ASSUME UNCHANGED <<interval, windows, forwarding, historyVars>>
      PROVE  KeyStep(t, j) /\ UNCHANGED interval
  BY <1>7 DEF KeyStep, Untouched, historyVars
<1> QED BY <1>1, <1>2, <1>3, <1>4, <1>5, <1>6, <1>7
        DEF Next, Tick, vars, configVars

LEMMA WindowInvInductive ==
    /\ Init => WindowInv
    /\ TypeOK /\ WindowInv /\ [Next]_vars => WindowInv'
<1>1. Init => WindowInv
  BY DEF Init, WindowInv, KeyInv, NoWindow
<1>2. ASSUME TypeOK, WindowInv, [Next]_vars, NEW s \in Stream, NEW k \in Key
      PROVE  KeyInv(s, k)'
  <2>1. KeyStep(s, k) /\ UNCHANGED interval
    BY <1>2, EveryStepIsKeyStep
  <2>2. KeyInv(s, k)
    BY <1>2 DEF WindowInv
  <2>3. /\ admittedAt[s][k] \in Seq(0..MaxTime)
        /\ clock \in 0..MaxTime
        /\ interval \in Int
    BY <1>2, ThrottleAssumption DEF TypeOK
  <2>4. CASE Untouched(s, k)
    BY <2>1, <2>2, <2>4 DEF KeyInv, Untouched
  <2>5. CASE Admitted(s, k) /\ windows'[s][k] = windows[s][k] /\ ~windows[s][k].tracked
    BY <2>1, <2>2, <2>5 DEF KeyInv
  <2>6. ASSUME /\ Admitted(s, k) /\ interval > 0
               /\ windows'[s][k].tracked /\ windows'[s][k].last = clock
        PROVE  KeyInv(s, k)'
    BY <2>1, <2>3, <2>6 DEF KeyInv, Admitted
  <2>7. ASSUME /\ Dropped(s, k) /\ interval > 0
               /\ windows[s][k].tracked /\ windows'[s][k].tracked
               /\ windows'[s][k].last = windows[s][k].last
        PROVE  KeyInv(s, k)'
    BY <2>1, <2>2, <2>7 DEF KeyInv, Dropped
  <2>8. NewWindow.tracked /\ NewWindow.last = clock
    BY DEF NewWindow
  <2>9. interval <= 0 => ~windows[s][k].tracked
    BY <2>2 DEF KeyInv
  <2> QED BY <2>1, <2>4, <2>5, <2>6, <2>7, <2>8, <2>9 DEF KeyStep
<1> QED BY <1>1, <1>2 DEF WindowInv

(***************************************************************************)
(* Spacing                                                                 *)
(***************************************************************************)
LEMMA SpacingInductive ==
    /\ Init => OncePerInterval
    /\ TypeOK /\ WindowInv /\ MemoryBounded /\ OncePerInterval /\ [Next]_vars
         => OncePerInterval'
<1>1. Init => OncePerInterval
  BY DEF Init, OncePerInterval, NoWindow
<1>2. ASSUME TypeOK, WindowInv, MemoryBounded, OncePerInterval, [Next]_vars,
             interval > 0, NEW s \in Stream, NEW k \in Key, windows'[s][k].tracked,
             NEW i \in 1..Len(admittedAt'[s][k]) - 1
      PROVE  admittedAt'[s][k][i + 1] - admittedAt'[s][k][i] >= interval
  <2> DEFINE a == admittedAt[s][k]
  <2>1. KeyStep(s, k) /\ UNCHANGED interval
    BY <1>2, EveryStepIsKeyStep
  <2>2. KeyInv(s, k)
    BY <1>2 DEF WindowInv
  <2>3. /\ a \in Seq(0..MaxTime)
        /\ clock \in 0..MaxTime
        /\ interval \in Int
    BY <1>2, ThrottleAssumption DEF TypeOK
  <2>4. windows[s][k].tracked =>
          \A n \in 1..Len(a) - 1 : a[n + 1] - a[n] >= interval
    BY <1>2 DEF OncePerInterval
  <2>5. ~windows[s][k].tracked /\ a # <<>> => Full(s)
    BY <1>2 DEF MemoryBounded
  <2>6. CASE admittedAt'[s][k] = a /\ windows[s][k].tracked
    BY <1>2, <2>4, <2>6
  <2>7. CASE /\ admittedAt'[s][k] = Append(a, clock) /\ windows[s][k].tracked
             /\ clock - windows[s][k].last >= interval
    <3>1. a[Len(a)] = windows[s][k].last /\ Len(a) > 0
      BY <2>2, <2>7 DEF KeyInv
    <3>2. CASE i = Len(a)
      BY <2>3, <2>7, <3>1, <3>2
    <3>3. CASE i # Len(a)
      BY <1>2, <2>3, <2>4, <2>7, <3>3
    <3> QED BY <3>2, <3>3
  <2>8. CASE admittedAt'[s][k] = Append(a, clock) /\ a = <<>>
    BY <1>2, <2>3, <2>8
  <2>9. \/ admittedAt'[s][k] = a /\ windows[s][k].tracked
        \/ /\ admittedAt'[s][k] = Append(a, clock) /\ windows[s][k].tracked
           /\ clock - windows[s][k].last >= interval
        \/ admittedAt'[s][k] = Append(a, clock) /\ a = <<>>
    <3>1. ~(interval <= 0)
      BY <1>2, <2>3
    <3>2. CASE Untouched(s, k)
      BY <1>2, <3>2 DEF Untouched
    <3>3. CASE Dropped(s, k) /\ windows[s][k].tracked
      BY <3>3 DEF Dropped
    <3>4. CASE Admitted(s, k) /\ windows[s][k].tracked
               /\ clock - windows[s][k].last >= interval
      BY <3>4 DEF Admitted
    <3>5. CASE Admitted(s, k) /\ ~windows[s][k].tracked /\ ~Full(s)
      BY <2>5, <3>5 DEF Admitted
    <3> QED BY <1>2, <2>1, <3>1, <3>2, <3>3, <3>4, <3>5 DEF KeyStep
  <2> QED BY <2>6, <2>7, <2>8, <2>9
<1>3. TypeOK /\ [Next]_vars => UNCHANGED interval
  BY DEF Next, Bypass, AdmitUntracked, AdmitFirst, AdmitAgain, Suppress, Arrive,
         Deliver, Tick, vars, configVars
<1> QED BY <1>1, <1>2, <1>3 DEF OncePerInterval

(***************************************************************************)
(* Memory                                                                  *)
(***************************************************************************)
LEMMA TrackedFinite ==
    ASSUME NEW s \in Stream
    PROVE  /\ IsFiniteSet(Tracked(s)) /\ Cardinality(Tracked(s)) \in Nat
           /\ IsFiniteSet(Tracked(s)') /\ Cardinality(Tracked(s)') \in Nat
<1>1. Tracked(s) \subseteq Key /\ Tracked(s)' \subseteq Key
  BY DEF Tracked
<1> QED BY <1>1, FS_Subset, FS_CardinalityType, ThrottleAssumption

\* A key that has a window keeps it, and a full map stays full.
LEMMA FullStays ==
    ASSUME TypeOK, [Next]_vars, NEW s \in Stream, Full(s)
    PROVE  Full(s)'
<1>1. \A k \in Key : windows[s][k].tracked => windows'[s][k].tracked
  <2> TAKE k \in Key
  <2>1. KeyStep(s, k)
    BY EveryStepIsKeyStep
  <2> QED BY <2>1 DEF KeyStep, Untouched
<1>2. Tracked(s) \subseteq Tracked(s)'
  BY <1>1 DEF Tracked
<1>3. Cardinality(Tracked(s)) <= Cardinality(Tracked(s)')
  BY <1>2, TrackedFinite, FS_Subset
<1> QED BY <1>3, TrackedFinite, ThrottleAssumption DEF Full

\* Only AdmitFirst opens a window, and one only.
LEMMA OnlyFirstTracks ==
    ASSUME TypeOK, [Next]_vars, NEW s \in Stream, NEW k \in Key,
           windows'[s][k].tracked, ~windows[s][k].tracked
    PROVE  \E g \in Caller : AdmitFirst(g, s, k)
<1>1. ASSUME NEW g \in Caller, NEW t \in Stream, NEW j \in Key, AdmitFirst(g, t, j)
      PROVE  \E h \in Caller : AdmitFirst(h, s, k)
  <2>1. windows'[s][k] = IF s = t /\ k = j THEN NewWindow ELSE windows[s][k]
    BY <1>1, FirstWindow
  <2>2. s = t /\ k = j
    BY <2>1
  <2> QED BY <1>1, <2>2
<1>2. ASSUME NEW g \in Caller, NEW t \in Stream, NEW j \in Key, AdmitAgain(g, t, j)
      PROVE  FALSE
  <2>1. windows[t][j].tracked
    BY <1>2 DEF AdmitAgain
  <2>2. windows'[s][k] = IF s = t /\ k = j
                         THEN [tracked |-> TRUE, last |-> clock,
                               suppressed |-> windows[t][j].suppressed]
                         ELSE windows[s][k]
    BY <1>2, AgainWindow
  <2> QED BY <2>1, <2>2
<1>3. ASSUME NEW g \in Caller, NEW t \in Stream, NEW j \in Key, Suppress(g, t, j)
      PROVE  FALSE
  <2>1. windows[t][j].tracked
    BY <1>3 DEF Suppress
  <2>2. windows'[s][k] = IF s = t /\ k = j
                         THEN [tracked |-> TRUE, last |-> windows[t][j].last,
                               suppressed |-> windows[t][j].suppressed + 1]
                         ELSE windows[s][k]
    BY <1>3, SuppressWindow
  <2> QED BY <2>1, <2>2
<1>4. ASSUME UNCHANGED windows PROVE FALSE
  BY <1>4
<1> QED BY <1>1, <1>2, <1>3, <1>4 DEF Next, Bypass, AdmitUntracked, Deliver, Tick, vars

LEMMA FirstTracksOne ==
    ASSUME TypeOK, NEW g \in Caller, NEW s \in Stream, NEW k \in Key, AdmitFirst(g, s, k)
    PROVE  Tracked(s)' \subseteq Tracked(s) \cup {k}
<1>1. \A j \in Key : windows'[s][j] = IF j = k THEN NewWindow ELSE windows[s][j]
  BY FirstWindow
<1> QED BY <1>1 DEF Tracked

LEMMA MemoryInductive ==
    /\ Init => MemoryBounded
    /\ TypeOK /\ WindowInv /\ MemoryBounded /\ [Next]_vars => MemoryBounded'
<1> DEFINE T == Tracked("unbounded")
<1>0. "unbounded" \in Stream
  BY DEF Stream
<1>1. ASSUME Init PROVE MemoryBounded
  <2>1. T = {}
    BY <1>0, <1>1 DEF Init, Tracked, NoWindow
  <2>2. Cardinality(T) <= MaxUnboundedKeys
    <3> HIDE DEF T
    <3> QED BY <2>1, FS_EmptySet, ThrottleAssumption
  <2>3. \A s \in Stream, k \in Key : admittedAt[s][k] = <<>>
    BY <1>1 DEF Init
  <2> QED BY <2>2, <2>3 DEF MemoryBounded
<1>2. ASSUME TypeOK, WindowInv, MemoryBounded, [Next]_vars PROVE MemoryBounded'
  <2>1. Cardinality(T') <= MaxUnboundedKeys
    <3>1. Cardinality(T) <= MaxUnboundedKeys
      BY <1>2 DEF MemoryBounded
    <3>2. CASE T' \subseteq T
      <4>1. Cardinality(T') <= Cardinality(T)
        BY <1>0, <3>2, TrackedFinite, FS_Subset
      <4> QED BY <1>0, <3>1, <4>1, TrackedFinite, ThrottleAssumption
    <3>3. ASSUME NEW k \in Key, k \in T', k \notin T
          PROVE  Cardinality(T') <= MaxUnboundedKeys
      <4>1. windows'["unbounded"][k].tracked /\ ~windows["unbounded"][k].tracked
        BY <3>3 DEF Tracked
      <4>2. PICK g \in Caller : AdmitFirst(g, "unbounded", k)
        BY <1>0, <1>2, <4>1, OnlyFirstTracks
      <4>3. ~Full("unbounded")
        BY <4>2 DEF AdmitFirst
      <4>4. Cardinality(T) < MaxUnboundedKeys
        BY <1>0, <4>3, TrackedFinite, ThrottleAssumption DEF Full
      <4>5. T' \subseteq T \cup {k}
        BY <1>0, <1>2, <4>2, FirstTracksOne
      <4>6. IsFiniteSet(T) /\ Cardinality(T) \in Nat
        BY <1>0, TrackedFinite
      <4>7. /\ IsFiniteSet(T \cup {k})
            /\ Cardinality(T \cup {k}) = Cardinality(T) + 1
        <5> HIDE DEF T
        <5> QED BY <3>3, <4>6, FS_AddElement
      <4>8. Cardinality(T') <= Cardinality(T \cup {k})
        BY <4>5, <4>7, FS_Subset
      <4>9. Cardinality(T') \in Nat
        BY <1>0, TrackedFinite
      <4> QED BY <4>4, <4>6, <4>7, <4>8, <4>9, ThrottleAssumption
    <3>4. T' \subseteq Key
      BY DEF Tracked
    <3> QED BY <3>2, <3>3, <3>4
  <2>2. ASSUME interval' > 0, NEW s \in Stream, NEW k \in Key,
               ~windows'[s][k].tracked, admittedAt'[s][k] # <<>>
        PROVE  Full(s)' /\ windows'[s][k].suppressed = 0
    <3>1. KeyStep(s, k) /\ UNCHANGED interval
      BY <1>2, EveryStepIsKeyStep
    <3>2. \/ Untouched(s, k)
          \/ Full(s) /\ ~windows[s][k].tracked /\ windows'[s][k] = windows[s][k]
      <4>1. ~(interval <= 0)
        BY <1>2, <2>2, <3>1, ThrottleAssumption DEF TypeOK
      <4>2. NewWindow.tracked
        BY DEF NewWindow
      <4> QED BY <2>2, <3>1, <4>1, <4>2 DEF KeyStep
    <3>3. Full(s) /\ windows'[s][k] = windows[s][k]
      BY <1>2, <2>2, <3>1, <3>2 DEF MemoryBounded, Untouched
    <3>4. windows'[s][k].suppressed = 0
      BY <1>2, <2>2, <3>3 DEF WindowInv, KeyInv
    <3> QED BY <1>2, <3>3, <3>4, FullStays
  <2> QED BY <2>1, <2>2 DEF MemoryBounded
<1> QED BY <1>1, <1>2

(***************************************************************************)
(* Conservation                                                            *)
(***************************************************************************)
\* What a poll adds up is what the window has counted.
LEMMA PolledIsSuppressed ==
    ASSUME TypeOK, TypeOK', NEW s \in Stream, NEW k \in Key
    PROVE  /\ Polled(s, k) = windows[s][k].suppressed
           /\ Polled(s, k)' = windows'[s][k].suppressed
<1>1. windows[s][k].suppressed \in Nat /\ windows'[s][k].suppressed \in Nat
  BY DEF TypeOK, Window
<1>2. Polled(s, k) = windows[s][k].suppressed
  <2>1. CASE windows[s][k].suppressed > 0
    BY <2>1 DEF Polled, Snapshot
  <2>2. CASE windows[s][k].suppressed = 0
    BY <2>2 DEF Polled, Snapshot
  <2> QED BY <1>1, <2>1, <2>2
<1>3. Polled(s, k)' = windows'[s][k].suppressed
  <2>1. CASE windows'[s][k].suppressed > 0
    BY <2>1 DEF Polled, Snapshot
  <2>2. CASE windows'[s][k].suppressed = 0
    BY <2>2 DEF Polled, Snapshot
  <2> QED BY <1>1, <2>1, <2>2
<1> QED BY <1>2, <1>3

LEMMA ConservationInductive ==
    /\ Init => Conservation
    /\ TypeOK /\ WindowInv /\ Conservation /\ [Next]_vars => Conservation'
<1>1. ASSUME Init, NEW t \in Stream, NEW j \in Key
      PROVE  arrived[t][j] = delivered[t][j] + Cardinality(Forwarders(t, j)) + Polled(t, j)
  <2>1. Forwarders(t, j) = {}
    <3>1. <<t, j>> # Nothing
      BY DEF Nothing
    <3> QED BY <1>1, <3>1 DEF Init, Forwarders
  <2>2. Cardinality(Forwarders(t, j)) = 0
    BY <2>1, FS_EmptySet
  <2>3. Polled(t, j) = 0
    BY <1>1 DEF Init, NoWindow, Polled, Snapshot
  <2>4. arrived[t][j] = 0 /\ delivered[t][j] = 0
    BY <1>1 DEF Init
  <2> QED BY <2>2, <2>3, <2>4
<1>2. ASSUME TypeOK, WindowInv, Conservation, [Next]_vars,
             NEW t \in Stream, NEW j \in Key
      PROVE  arrived'[t][j] = delivered'[t][j] + Handing(forwarding', t, j) + Polled(t, j)'
  <2> DEFINE q == windows[t][j].suppressed
             q2 == windows'[t][j].suppressed
  <2>1. TypeOK'
    BY <1>2, StepTypeOK
  <2>2. Polled(t, j) = q /\ Polled(t, j)' = q2
    BY <1>2, <2>1, PolledIsSuppressed
  <2>3. arrived[t][j] = delivered[t][j] + Handing(forwarding, t, j) + q
    BY <1>2, <2>2 DEF Conservation, Handing, Holders, Forwarders
  <2>4. /\ arrived[t][j] \in Nat /\ delivered[t][j] \in Nat
        /\ q \in Nat /\ Handing(forwarding, t, j) \in Nat
    BY <1>2, HoldersFinite DEF TypeOK, Window
  <2>5. KeyInv(t, j)
    BY <1>2 DEF WindowInv
  <2>6. KeyStep(t, j)
    BY <1>2, EveryStepIsKeyStep
  <2>7. CASE Untouched(t, j) /\ q2 = q
    <3>1. CASE /\ delivered'[t][j] = delivered[t][j]
               /\ Handing(forwarding', t, j) = Handing(forwarding, t, j)
      BY <2>2, <2>3, <2>4, <2>7, <3>1 DEF Untouched
    <3>2. CASE /\ delivered'[t][j] = delivered[t][j] + 1
               /\ Handing(forwarding', t, j) = Handing(forwarding, t, j) - 1
      <4>1. arrived'[t][j] = arrived[t][j]
        BY <2>7 DEF Untouched
      <4> QED BY <2>2, <2>3, <2>4, <2>7, <3>2, <4>1
    <3> QED BY <2>7, <3>1, <3>2 DEF Untouched
  <2>8. CASE Admitted(t, j) /\ q2 = q
    <3>1. /\ arrived'[t][j] = arrived[t][j] + 1
          /\ delivered'[t][j] = delivered[t][j]
          /\ Handing(forwarding', t, j) = Handing(forwarding, t, j) + 1
      BY <2>8 DEF Admitted
    <3> QED BY <2>2, <2>3, <2>4, <2>8, <3>1
  <2>9. CASE Dropped(t, j) /\ q2 = q + 1
    BY <2>2, <2>3, <2>4, <2>9 DEF Dropped
  <2>10. (Untouched(t, j) /\ q2 = q) \/ (Admitted(t, j) /\ q2 = q) \/ (Dropped(t, j) /\ q2 = q + 1)
    BY <2>5, <2>6 DEF KeyStep, KeyInv, NewWindow, Untouched
  <2> QED BY <2>7, <2>8, <2>9, <2>10
<1> QED BY <1>1, <1>2 DEF Conservation, Handing, Holders, Forwarders

(***************************************************************************)
(* The theorems                                                            *)
(***************************************************************************)
IInv == TypeOK /\ WindowInv /\ MemoryBounded /\ OncePerInterval /\ Conservation

LEMMA Inductive ==
    /\ Init => IInv
    /\ IInv /\ [Next]_vars => IInv'
BY InitTypeOK, StepTypeOK, WindowInvInductive, MemoryInductive, SpacingInductive,
   ConservationInductive DEF IInv

LEMMA IInvHolds == Spec => []IInv
BY Inductive, PTL DEF Spec

\* No report is lost or invented, with any number of callers, under any
\* interval, within the cap of the statement map and beyond it.
THEOREM NoReportLost == Spec => []Conservation
<1>1. IInv => Conservation
  BY DEF IInv
<1> QED BY <1>1, IInvHolds, PTL

\* Reports of a tracked key are let through at least an interval apart.
THEOREM Spaced == Spec => []OncePerInterval
<1>1. IInv => OncePerInterval
  BY DEF IInv
<1> QED BY <1>1, IInvHolds, PTL

\* The statement map stays within its cap and fails open beyond it.
THEOREM Bounded == Spec => []MemoryBounded
<1>1. IInv => MemoryBounded
  BY DEF IInv
<1> QED BY <1>1, IInvHolds, PTL

\* A report is suppressed only behind one that was let through less than an
\* interval before.
THEOREM NeverSuppressedAlone == Spec => SuppressedBehindForward
<1> DEFINE Behind == \A s \in Stream, k \in Key :
                        windows'[s][k].suppressed > windows[s][k].suppressed =>
                           /\ admittedAt[s][k] # <<>>
                           /\ clock - admittedAt[s][k][Len(admittedAt[s][k])] < interval
<1>1. ASSUME IInv, [Next]_vars, NEW s \in Stream, NEW k \in Key,
             windows'[s][k].suppressed > windows[s][k].suppressed
      PROVE  /\ admittedAt[s][k] # <<>>
             /\ clock - admittedAt[s][k][Len(admittedAt[s][k])] < interval
  <2>1. KeyStep(s, k) /\ KeyInv(s, k) /\ windows[s][k].suppressed \in Nat
    BY <1>1, EveryStepIsKeyStep DEF IInv, WindowInv, TypeOK, Window
  <2>2. windows[s][k].tracked /\ clock - windows[s][k].last < interval
    BY <1>1, <2>1 DEF KeyStep, KeyInv, Untouched, NewWindow
  <2>3. /\ Len(admittedAt[s][k]) > 0
        /\ admittedAt[s][k][Len(admittedAt[s][k])] = windows[s][k].last
    BY <2>1, <2>2 DEF KeyInv
  <2> QED BY <2>2, <2>3
<1>2. IInv /\ [Next]_vars => [Behind]_vars
  BY <1>1
<1>3. Spec => [][Behind]_vars
  <2> HIDE DEF Behind
  <2> QED BY <1>2, IInvHolds, PTL DEF Spec
<1> QED BY <1>3 DEF SuppressedBehindForward

(***************************************************************************)
(* The key of a statement                                                  *)
(***************************************************************************)

\* A set of naturals has a least element: the interval up to it has no smaller
\* one inside it.
LEMMA Least ==
    ASSUME NEW T, T \subseteq Nat, T # {}
    PROVE  \E k \in T : \A j \in T : k <= j
<1> DEFINE F == {I \in SUBSET Nat : \E k \in T : I = 0..k}
<1>1. F \subseteq FiniteSubsetsOf(Nat) /\ F # {}
  <2>1. ASSUME NEW I \in F
        PROVE  I \in FiniteSubsetsOf(Nat)
    <3>1. PICK k \in T : I = 0..k
      OBVIOUS
    <3>2. k \in Nat /\ IsFiniteSet(0..k)
      BY FS_Interval
    <3> QED BY <3>1, <3>2 DEF FiniteSubsetsOf
  <2>2. PICK k \in T : TRUE
    OBVIOUS
  <2>3. 0..k \in F
    BY <2>2
  <2> QED BY <2>1, <2>3
<1>2. IsWellFoundedOn(StrictSubsetOrdering(Nat), FiniteSubsetsOf(Nat))
  BY FS_StrictSubsetOrderingWellFounded
<1> HIDE DEF F
<1>3. PICK I \in F : \A J \in F : <<J, I>> \notin StrictSubsetOrdering(Nat)
  BY <1>1, <1>2, WFMin
<1> USE DEF F
<1>4. PICK k \in T : I = 0..k
  OBVIOUS
<1>5. ASSUME NEW j \in T, j < k
      PROVE  FALSE
  <2>1. 0..j \in F /\ 0..j \subseteq I /\ 0..j # I
    <3>1. k \in Nat /\ j \in Nat
      OBVIOUS
    <3>2. k \in 0..k /\ k \notin 0..j
      BY <3>1, <1>5
    <3> QED BY <3>1, <3>2, <1>4, <1>5
  <2> QED BY <2>1, <1>3 DEF StrictSubsetOrdering
<1> QED BY <1>5

\* f[i] is the concatenation of the first i sequences of s.
Flattens(f, s, n) ==
    \A i \in 1..n : f[i] = IF i = 1 THEN s[i] ELSE f[i - 1] \o s[i]

LEMMA FlattensTyped ==
    ASSUME NEW S, NEW s \in Seq(Seq(S)), NEW n \in 0..Len(s), NEW f, Flattens(f, s, n)
    PROVE  \A i \in 1..n : f[i] \in Seq(S)
<1> DEFINE T == {i \in 1..n : f[i] \notin Seq(S)}
<1> SUFFICES ASSUME T # {} PROVE FALSE
  OBVIOUS
<1>1. T \subseteq Nat
  OBVIOUS
<1>2. PICK k \in T : \A j \in T : k <= j
  BY <1>1, Least
<1>3. k \in 1..n /\ k \in Nat /\ n \in Nat /\ n <= Len(s) /\ f[k] \notin Seq(S) /\ s[k] \in Seq(S)
  OBVIOUS
<1>4. CASE k = 1
  BY <1>3, <1>4 DEF Flattens
<1>5. CASE k # 1
  <2>1. k - 1 \in 1..n /\ k - 1 \notin T
    BY <1>2, <1>3, <1>5
  <2>2. f[k - 1] \in Seq(S)
    BY <2>1
  <2>3. f[k] = f[k - 1] \o s[k]
    BY <1>3, <1>5 DEF Flattens
  <2> QED BY <1>3, <2>2, <2>3
<1> QED BY <1>4, <1>5

LEMMA FlattensUnique ==
    ASSUME NEW s, NEW n \in Nat, NEW f, NEW g, Flattens(f, s, n), Flattens(g, s, n)
    PROVE  \A i \in 1..n : f[i] = g[i]
<1> DEFINE T == {i \in 1..n : f[i] # g[i]}
<1> SUFFICES ASSUME T # {} PROVE FALSE
  OBVIOUS
<1>1. T \subseteq Nat
  OBVIOUS
<1>2. PICK k \in T : \A j \in T : k <= j
  BY <1>1, Least
<1>3. k \in 1..n /\ k \in Nat /\ f[k] # g[k]
  OBVIOUS
<1>4. CASE k = 1
  BY <1>3, <1>4 DEF Flattens
<1>5. CASE k # 1
  <2>1. k - 1 \in 1..n /\ k - 1 \notin T
    BY <1>2, <1>3, <1>5
  <2>2. f[k - 1] = g[k - 1]
    BY <2>1
  <2> QED BY <1>3, <1>5, <2>2 DEF Flattens
<1> QED BY <1>4, <1>5

\* The recursive function of FlattenSeq exists.
LEMMA FlattensExists ==
    ASSUME NEW s, NEW n \in Nat
    PROVE  \E f : f = [i \in 1..n |-> IF i = 1 THEN s[i] ELSE f[i - 1] \o s[i]]
<1> DEFINE Has(m) == \E f : f = [i \in 1..m |-> IF i = 1 THEN s[i] ELSE f[i - 1] \o s[i]]
           T == {m \in 0..n : ~Has(m)}
<1> SUFFICES ASSUME T # {} PROVE FALSE
  <2>1. n \in 0..n
    OBVIOUS
  <2> QED BY <2>1
<1> HIDE DEF Has
<1>1. T \subseteq Nat
  OBVIOUS
<1>2. PICK k \in T : \A j \in T : k <= j
  BY <1>1, Least
<1>3. k \in 0..n /\ k \in Nat /\ ~Has(k)
  OBVIOUS
<1>4. k # 0
  <2>1. <<>> = [i \in 1..0 |-> IF i = 1 THEN s[i] ELSE <<>>[i - 1] \o s[i]]
    OBVIOUS
  <2>2. Has(0)
    BY <2>1 DEF Has
  <2> QED BY <1>3, <2>2
<1>5. k - 1 \in 0..n /\ k - 1 \notin T
  BY <1>2, <1>3, <1>4
<1>6. Has(k - 1)
  BY <1>5
<1>7. PICK f : f = [i \in 1..(k - 1) |-> IF i = 1 THEN s[i] ELSE f[i - 1] \o s[i]]
  BY <1>6 DEF Has
<1> DEFINE last == IF k = 1 THEN s[k] ELSE f[k - 1] \o s[k]
           g == [i \in 1..k |-> IF i = k THEN last ELSE f[i]]
<1>8. ASSUME NEW i \in 1..k
      PROVE  g[i] = IF i = 1 THEN s[i] ELSE g[i - 1] \o s[i]
  <2>1. CASE i = k
    <3>1. g[i] = last
      BY <2>1
    <3>2. i # 1 => g[i - 1] = f[i - 1]
      BY <1>3, <2>1
    <3> QED BY <2>1, <3>1, <3>2
  <2>2. CASE i # k
    <3>1. i \in 1..(k - 1) /\ i \in Nat
      BY <1>3, <2>2
    <3>2. g[i] = f[i] /\ (i # 1 => g[i - 1] = f[i - 1])
      BY <1>3, <2>2, <3>1
    <3>3. f[i] = IF i = 1 THEN s[i] ELSE f[i - 1] \o s[i]
      BY <1>7, <3>1
    <3> QED BY <3>2, <3>3
  <2> QED BY <2>1, <2>2
<1>9. g = [i \in 1..k |-> IF i = 1 THEN s[i] ELSE g[i - 1] \o s[i]]
  BY <1>8
<1>10. Has(k)
  BY <1>9 DEF Has
<1> QED BY <1>3, <1>10

\* What FlattenSeq computes, by the recursion that defines it.
LEMMA FlattenIsLast ==
    ASSUME NEW S, NEW s \in Seq(Seq(S)), Len(s) # 0
    PROVE  \E f : Flattens(f, s, Len(s)) /\ FlattenSeq(s) = f[Len(s)]
<1> DEFINE n == Len(s)
           F == CHOOSE f : f = [i \in 1..n |-> IF i = 1 THEN s[i] ELSE f[i - 1] \o s[i]]
<1>1. n \in Nat
  OBVIOUS
<1>2. F = [i \in 1..n |-> IF i = 1 THEN s[i] ELSE F[i - 1] \o s[i]]
  <2> HIDE DEF n
  <2>1. \E f : f = [i \in 1..n |-> IF i = 1 THEN s[i] ELSE f[i - 1] \o s[i]]
    BY <1>1, FlattensExists
  <2> QED BY <2>1
<1>3. FlattenSeq(s) = F[n]
  BY DEF FlattenSeq
<1>4. Flattens(F, s, n)
  <2> HIDE DEF F, n
  <2>1. ASSUME NEW i \in 1..n
        PROVE  F[i] = IF i = 1 THEN s[i] ELSE F[i - 1] \o s[i]
    BY <1>2
  <2> QED BY <2>1 DEF Flattens
<1> QED BY <1>3, <1>4

\* One more sequence is flattened by writing it behind.
LEMMA FlattenAppend ==
    ASSUME NEW S, NEW s \in Seq(Seq(S)), NEW e \in Seq(S)
    PROVE  FlattenSeq(Append(s, e)) = FlattenSeq(s) \o e /\ FlattenSeq(s) \in Seq(S)
<1> DEFINE t == Append(s, e)
           n == Len(s)
<1>1. n \in Nat /\ t \in Seq(Seq(S)) /\ Len(t) = n + 1 /\ t[n + 1] = e
  OBVIOUS
<1>2. \A i \in 1..n : t[i] = s[i]
  OBVIOUS
<1> HIDE DEF t
<1>3. PICK g : Flattens(g, t, n + 1) /\ FlattenSeq(t) = g[n + 1]
  <2>1. Len(t) # 0
    BY <1>1
  <2>2. \E g : Flattens(g, t, Len(t)) /\ FlattenSeq(t) = g[Len(t)]
    BY <1>1, <2>1, FlattenIsLast
  <2> QED BY <1>1, <2>2
<1>4. CASE n = 0
  <2>1. s = <<>> /\ FlattenSeq(s) = <<>>
    BY <1>4 DEF FlattenSeq
  <2>2. g[1] = t[1]
    BY <1>3, <1>4 DEF Flattens
  <2>3. FlattenSeq(t) = e
    BY <1>1, <1>3, <1>4, <2>2
  <2>4. <<>> \o e = e /\ <<>> \in Seq(S)
    OBVIOUS
  <2>5. FlattenSeq(s) \o e = e /\ FlattenSeq(s) \in Seq(S)
    BY <2>1, <2>4
  <2>6. FlattenSeq(t) = FlattenSeq(s) \o e
    BY <2>3, <2>5
  <2> QED BY <2>5, <2>6 DEF t
<1>5. CASE n # 0
  <2>1. PICK f : Flattens(f, s, n) /\ FlattenSeq(s) = f[n]
    BY <1>5, FlattenIsLast
  <2> HIDE DEF n
  <2>2. Flattens(g, s, n)
    <3>1. ASSUME NEW i \in 1..n
          PROVE  g[i] = IF i = 1 THEN s[i] ELSE g[i - 1] \o s[i]
      <4>1. i \in 1..(n + 1)
        BY <1>1
      <4>2. g[i] = IF i = 1 THEN t[i] ELSE g[i - 1] \o t[i]
        BY <1>3, <4>1 DEF Flattens
      <4> QED BY <1>2, <4>2
    <3> QED BY <3>1 DEF Flattens
  <2>3. n \in 1..n /\ n + 1 \in 1..(n + 1) /\ n + 1 # 1 /\ (n + 1) - 1 = n
    BY <1>1, <1>5
  <2>4. f[n] = g[n]
    <3>1. \A i \in 1..n : f[i] = g[i]
      BY <1>1, <2>1, <2>2, FlattensUnique
    <3> QED BY <2>3, <3>1
  <2>5. g[n + 1] = g[n] \o t[n + 1]
    BY <1>3, <2>3 DEF Flattens
  <2>6. f[n] \in Seq(S)
    <3>1. n \in 0..Len(s)
      BY <1>1 DEF n
    <3>2. \A i \in 1..n : f[i] \in Seq(S)
      BY <2>1, <3>1, FlattensTyped
    <3> QED BY <2>3, <3>2
  <2> QED BY <1>1, <1>3, <2>1, <2>4, <2>5, <2>6 DEF t
<1> QED BY <1>4, <1>5

\* Cutting what is already cut at n makes no difference.
LEMMA UpToAppend ==
    ASSUME NEW S, NEW a \in Seq(S), NEW b \in Seq(S), NEW n \in Nat
    PROVE  /\ Len(a) < n => UpTo(a, n) = a
           /\ Len(a) >= n => UpTo(a \o b, n) = UpTo(a, n) /\ Len(UpTo(a, n)) = n
           /\ UpTo(a, n) \in Seq(S)
<1>1. CASE Len(a) < n
  <2>1. UpTo(a, n) = SubSeq(a, 1, Len(a))
    BY <1>1 DEF UpTo
  <2>2. SubSeq(a, 1, Len(a)) = a
    OBVIOUS
  <2>3. ~(Len(a) >= n)
    BY <1>1
  <2> QED BY <2>1, <2>2, <2>3
<1>2. CASE Len(a) >= n
  <2>1. /\ a \o b \in Seq(S) /\ Len(a \o b) = Len(a) + Len(b)
        /\ \A i \in 1..n : (a \o b)[i] = a[i]
    BY <1>2
  <2>2. UpTo(a, n) = SubSeq(a, 1, n)
    <3>1. ~(Len(a) < n)
      BY <1>2
    <3> QED BY <3>1 DEF UpTo
  <2>3. UpTo(a \o b, n) = SubSeq(a \o b, 1, n)
    <3>1. ~(Len(a \o b) < n)
      BY <1>2, <2>1
    <3> QED BY <3>1 DEF UpTo
  <2>4. SubSeq(a, 1, n) \in Seq(S) /\ Len(SubSeq(a, 1, n)) = n
    BY <1>2
  <2>5. SubSeq(a \o b, 1, n) = SubSeq(a, 1, n)
    <3> DEFINE c == a \o b
    <3>1. c \in Seq(S) /\ Len(c) >= n /\ \A i \in 1..n : c[i] = a[i]
      BY <1>2, <2>1
    <3> HIDE DEF c
    <3>2. SubSeq(c, 1, n) = SubSeq(a, 1, n)
      BY <1>2, <3>1
    <3> QED BY <3>2 DEF c
  <2>6. ~(Len(a) < n)
    BY <1>2
  <2> QED BY <2>2, <2>3, <2>4, <2>5, <2>6
<1>3. Len(a) < n \/ Len(a) >= n
  OBVIOUS
<1> QED BY <1>1, <1>2, <1>3

LEMMA BlankTyped == <<Blank>> \in Seq(Byte) /\ <<>> \in Seq(Byte)
<1>1. Blank \in Byte
  BY ThrottleKeyAssumption
<1>2. \A c \in Byte : <<c>> \in Seq(Byte)
  OBVIOUS
<1> QED BY <1>1, <1>2

\* A blank is due before the next word.
Due ==
    /\ query # <<>> /\ IsSpace(query[Len(query)])
    /\ \E j \in 1..Len(query) : ~IsSpace(query[j])

\* What a further rune adds to the normalized statement.
Further(r) == IF IsSpace(r) THEN <<>> ELSE (IF Due THEN <<Blank>> ELSE <<>>) \o r

LEMMA PieceTyped ==
    ASSUME query \in Seq(Rune), NEW i \in 1..Len(query)
    PROVE  Piece(i) \in Seq(Byte)
<1>1. query[i] \in Seq(Byte)
  BY ThrottleKeyAssumption
<1>2. <<>> \in Seq(Byte) /\ <<Blank>> \in Seq(Byte)
  BY BlankTyped
<1> DEFINE d == IF BeginsNextWord(i) THEN <<Blank>> ELSE <<>>
<1>3. d \in Seq(Byte)
  BY <1>2
<1> HIDE DEF d
<1>4. d \o query[i] \in Seq(Byte)
  BY <1>1, <1>3
<1> QED BY <1>2, <1>4 DEF Piece, d

\* The piece of a rune depends on the runes before it only.
LEMMA ReadAppends ==
    ASSUME query \in Seq(Rune), NEW r \in Rune, query' = Append(query, r)
    PROVE  Normalized' = Normalized \o Further(r) /\ Normalized \in Seq(Byte)
           /\ Further(r) \in Seq(Byte)
<1>0. PICK n \in Nat : n = Len(query)
  OBVIOUS
<1> DEFINE s == [i \in 1..n |-> Piece(i)]
           s2 == [i \in 1..(n + 1) |-> Piece(i)']
<1>1. /\ n \in Nat /\ n = Len(query) /\ DOMAIN query = 1..n
      /\ query' \in Seq(Rune) /\ DOMAIN query' = 1..(n + 1)
      /\ Len(query') = n + 1 /\ query'[n + 1] = r /\ \A i \in 1..n : query'[i] = query[i]
  BY <1>0
<1>2. s \in Seq(Seq(Byte)) /\ Len(s) = n
  <2>1. \A i \in 1..n : Piece(i) \in Seq(Byte)
    BY <1>1, PieceTyped
  <2> QED BY <1>1, <2>1
<1>3. Normalized = FlattenSeq(s) /\ Normalized' = FlattenSeq(s2)
  BY <1>1 DEF Normalized
<1>4. ASSUME NEW i \in 1..n
      PROVE  Piece(i)' = Piece(i)
  <2>1. query'[i] = query[i] /\ (i > 1 => query'[i - 1] = query[i - 1])
    BY <1>1
  <2>2. \A j \in 1..(i - 1) : query'[j] = query[j]
    <3>1. \A j \in 1..(i - 1) : j \in 1..n
      BY <1>1
    <3> QED BY <1>1, <3>1
  <2>3. BeginsNextWord(i)' <=> BeginsNextWord(i)
    BY <2>1, <2>2 DEF BeginsNextWord, IsSpace
  <2> QED BY <2>1, <2>3 DEF Piece, IsSpace
<1>5. Piece(n + 1)' = Further(r)
  <2>1. query'[n + 1] = r
    BY <1>1
  <2>2. ~IsSpace(r) => (BeginsNextWord(n + 1)' <=> Due)
    <3>1. (n + 1) - 1 = n /\ (n + 1 > 1 <=> query # <<>>) /\ (n >= 1 => query'[n] = query[n])
      BY <1>1
    <3>2. (\E j \in 1..n : ~IsSpace(query'[j])) <=> (\E j \in 1..n : ~IsSpace(query[j]))
      BY <1>1
    <3>3. query # <<>> => n >= 1
      BY <1>1
    <3>4. ~IsSpace(r) => (BeginsNextWord(n + 1)' <=>
               (n + 1 > 1 /\ IsSpace(query'[n]) /\ \E j \in 1..n : ~IsSpace(query'[j])))
      BY <2>1, <3>1 DEF BeginsNextWord, IsSpace
    <3>5. Due <=> (n + 1 > 1 /\ IsSpace(query[n]) /\ \E j \in 1..n : ~IsSpace(query[j]))
      BY <1>1, <3>1 DEF Due
    <3>6. n + 1 > 1 => query'[n] = query[n]
      BY <1>1, <3>1, <3>3
    <3> QED BY <3>2, <3>4, <3>5, <3>6
  <2> QED BY <2>1, <2>2 DEF Piece, Further, IsSpace
<1>6. Further(r) \in Seq(Byte)
  <2>1. r \in Seq(Byte) /\ <<>> \in Seq(Byte) /\ <<Blank>> \in Seq(Byte)
    BY BlankTyped, ThrottleKeyAssumption
  <2> DEFINE d == IF Due THEN <<Blank>> ELSE <<>>
  <2>2. d \in Seq(Byte)
    BY <2>1
  <2> HIDE DEF d
  <2>3. d \o r \in Seq(Byte)
    BY <2>1, <2>2
  <2> QED BY <2>1, <2>3 DEF Further, d
<1>7. s2 = Append(s, Further(r))
  <2>1. ASSUME NEW i \in 1..(n + 1)
        PROVE  s2[i] = Append(s, Further(r))[i]
    <3>1. CASE i = n + 1
      <4>1. s2[i] = Further(r)
        BY <1>5, <3>1
      <4> HIDE DEF s, s2
      <4> QED BY <1>1, <1>2, <3>1, <4>1
    <3>2. CASE i # n + 1
      <4>1. i \in 1..n
        BY <1>1, <3>2
      <4>2. s2[i] = s[i]
        BY <1>4, <4>1
      <4> HIDE DEF s, s2
      <4> QED BY <1>2, <4>1, <4>2
    <3> QED BY <3>1, <3>2
  <2>2. DOMAIN s2 = 1..(n + 1)
    OBVIOUS
  <2>3. s2 = [i \in 1..(n + 1) |-> s2[i]]
    OBVIOUS
  <2> HIDE DEF s, s2
  <2> DEFINE a == Append(s, Further(r))
  <2>4. a \in Seq(Seq(Byte)) /\ Len(a) = n + 1
    BY <1>1, <1>2, <1>6
  <2>5. \A i \in 1..(n + 1) : s2[i] = a[i]
    BY <2>1
  <2> HIDE DEF a
  <2>6. a = [i \in 1..(n + 1) |-> a[i]]
    BY <2>4
  <2>7. s2 = a
    BY <2>3, <2>5, <2>6
  <2> QED BY <2>7 DEF a
<1> HIDE DEF s, s2
<1>8. FlattenSeq(Append(s, Further(r))) = FlattenSeq(s) \o Further(r) /\ FlattenSeq(s) \in Seq(Byte)
  BY <1>2, <1>6, FlattenAppend
<1> QED BY <1>3, <1>6, <1>7, <1>8

BufferInv ==
    /\ query \in Seq(Rune) /\ key \in [buf : Seq(Byte), pendingSpace : BOOLEAN]
    /\ Normalized \in Seq(Byte)
    /\ Normalized # <<>> <=> \E j \in 1..Len(query) : ~IsSpace(query[j])
    /\ KeyIsNormalizedPrefix
    /\ ~IsFull => key.pendingSpace = Due

LEMMA KeyInitially == KeyInit => BufferInv
<1> SUFFICES ASSUME KeyInit PROVE BufferInv
  OBVIOUS
<1>1. query = <<>> /\ key.buf = <<>> /\ key.pendingSpace = FALSE /\ Len(query) = 0
  BY DEF KeyInit
<1>2. Normalized = <<>>
  <2>1. [i \in DOMAIN query |-> Piece(i)] = <<>>
    BY <1>1
  <2>2. FlattenSeq(<<>>) = <<>>
    BY DEF FlattenSeq
  <2> QED BY <2>1, <2>2 DEF Normalized
<1>3. UpTo(Normalized, KeyLen) = <<>>
  <2>1. Len(<<>>) < KeyLen /\ <<>> \in Seq(Byte) /\ KeyLen \in Nat
    BY ThrottleKeyAssumption
  <2>2. UpTo(<<>>, KeyLen) = <<>>
    BY <2>1, UpToAppend
  <2> QED BY <1>2, <2>2
<1>4. key \in [buf : Seq(Byte), pendingSpace : BOOLEAN]
  BY DEF KeyInit
<1>5. KeyIsNormalizedPrefix
  BY <1>1, <1>3 DEF KeyIsNormalizedPrefix
<1>6. ~Due /\ ~(\E j \in 1..Len(query) : ~IsSpace(query[j]))
  BY <1>1 DEF Due
<1>7. query \in Seq(Rune) /\ Normalized \in Seq(Byte)
  BY <1>1, <1>2
<1>8. key.pendingSpace = Due
  BY <1>1, <1>6 DEF Due
<1>9. Normalized # <<>> <=> \E j \in 1..Len(query) : ~IsSpace(query[j])
  BY <1>2, <1>6
<1> QED BY <1>4, <1>5, <1>7, <1>8, <1>9 DEF BufferInv

\* A rune that is read after the buffer is full would not have changed it.
LEMMA KeyStepInv ==
    ASSUME BufferInv, NEW r \in Rune, ReadRune(r)
    PROVE  BufferInv'
<1> DEFINE N == Normalized
           D == Further(r)
           b == key.buf
<1>1. /\ query \in Seq(Rune) /\ N \in Seq(Byte) /\ b \in Seq(Byte) /\ key.pendingSpace \in BOOLEAN
      /\ b = UpTo(N, KeyLen) /\ KeyLen \in Nat
  BY ThrottleKeyAssumption DEF BufferInv, KeyIsNormalizedPrefix
<1>2. query' = Append(query, r) /\ key' = IF IsFull THEN key ELSE Add(r)
  BY DEF ReadRune
<1>3. Normalized' = N \o D /\ D \in Seq(Byte)
  BY <1>1, <1>2, ReadAppends
<1>4. /\ query' \in Seq(Rune) /\ Len(query') = Len(query) + 1 /\ query'[Len(query')] = r
      /\ query' # <<>> /\ \A i \in 1..Len(query) : query'[i] = query[i]
  <2>1. query' = Append(query, r) /\ query \in Seq(Rune) /\ Len(query) \in Nat
    BY <1>1, <1>2
  <2>2. query' \in Seq(Rune)
    BY <2>1
  <2>3. Len(query') = Len(query) + 1
    BY <2>1
  <2>4. query'[Len(query) + 1] = r
    BY <2>1
  <2>5. \A i \in 1..Len(query) : query'[i] = query[i]
    BY <2>1
  <2> QED BY <2>1, <2>2, <2>3, <2>4, <2>5
<1>5. r \in Seq(Byte) /\ Len(r) > 0
  <2>1. r \in Seq(Byte) /\ r # <<>>
    BY ThrottleKeyAssumption
  <2> QED BY <2>1
<1>6. (\E j \in 1..Len(query') : ~IsSpace(query'[j]))
         <=> ~IsSpace(r) \/ \E j \in 1..Len(query) : ~IsSpace(query[j])
  <2>1. \A j \in 1..Len(query') : j = Len(query') \/ j \in 1..Len(query)
    BY <1>1, <1>4
  <2>2. \A j \in 1..Len(query) : j \in 1..Len(query')
    BY <1>1, <1>4
  <2>3. Len(query') \in 1..Len(query')
    BY <1>1, <1>4
  <2> QED BY <1>4, <2>1, <2>2, <2>3
<1>7. Due' <=> IsSpace(r) /\ \E j \in 1..Len(query) : ~IsSpace(query[j])
  BY <1>4, <1>6 DEF Due, IsSpace
<1>8. N # <<>> <=> \E j \in 1..Len(query) : ~IsSpace(query[j])
  BY DEF BufferInv
<1>9. IsSpace(r) => N \o D = N
  <2>1. IsSpace(r) => D = <<>>
    BY DEF Further
  <2> HIDE DEF N, D
  <2>2. N \o <<>> = N
    BY <1>1
  <2> QED BY <2>1, <2>2
<1>10. ~IsSpace(r) => N \o D # <<>>
  <2> SUFFICES ASSUME ~IsSpace(r) PROVE N \o D # <<>>
    OBVIOUS
  <2> DEFINE d == IF Due THEN <<Blank>> ELSE <<>>
  <2>1. D = d \o r /\ d \in Seq(Byte)
    BY BlankTyped DEF Further
  <2> HIDE DEF N, D, d
  <2>2. Len(D) > 0
    BY <1>5, <2>1
  <2>3. Len(N \o D) > 0
    BY <1>1, <1>3, <2>2
  <2> QED BY <2>3
<1>11. N \o D \in Seq(Byte) /\ (N \o D # <<>> <=> \E j \in 1..Len(query') : ~IsSpace(query'[j]))
  <2>1. N \o D \in Seq(Byte)
    <3> HIDE DEF N, D
    <3> QED BY <1>1, <1>3
  <2> HIDE DEF D
  <2> QED BY <2>1, <1>6, <1>8, <1>9, <1>10
<1>12. /\ KeyIsNormalizedPrefix' <=> key'.buf = UpTo(N \o D, KeyLen)
       /\ IsFull' <=> Len(key'.buf) = KeyLen
       /\ IsFull <=> Len(b) = KeyLen
  BY <1>3 DEF KeyIsNormalizedPrefix, IsFull, UpTo
<1> HIDE DEF N, D
<1>13. /\ Len(N) < KeyLen => UpTo(N, KeyLen) = N
       /\ Len(N) >= KeyLen =>
             UpTo(N \o D, KeyLen) = UpTo(N, KeyLen) /\ Len(UpTo(N, KeyLen)) = KeyLen
  BY <1>1, <1>3, UpToAppend
<1>14. UpTo(N \o D, KeyLen) \in Seq(Byte)
  <2> DEFINE M == N \o D
  <2>1. M \in Seq(Byte)
    BY <1>11
  <2> HIDE DEF M
  <2>2. UpTo(M, KeyLen) \in Seq(Byte)
    BY <1>1, <2>1, UpToAppend
  <2> QED BY <2>2 DEF M
<1>15. CASE IsFull
  <2>1. Len(N) >= KeyLen
    <3>1. Len(N) \in Nat
      BY <1>1
    <3> QED BY <1>1, <1>12, <1>13, <1>15, <3>1
  <2>2. key' = key
    BY <1>2, <1>15
  <2>3. key'.buf = UpTo(N \o D, KeyLen) /\ IsFull'
    BY <1>1, <1>12, <1>13, <1>15, <2>1, <2>2
  <2>4. key' \in [buf : Seq(Byte), pendingSpace : BOOLEAN]
    BY <2>2 DEF BufferInv
  <2> QED BY <1>3, <1>4, <1>11, <1>12, <2>3, <2>4 DEF BufferInv
<1>16. CASE ~IsFull
  <2>1. b = N
    <3>1. Len(N) \in Nat
      BY <1>1
    <3> QED BY <1>1, <1>12, <1>13, <1>16, <3>1
  <2>2. key' = Add(r) /\ key.pendingSpace = Due
    BY <1>2, <1>16 DEF BufferInv
  <2>3. CASE IsSpace(r)
    <3>1. key'.buf = b /\ key'.pendingSpace = (b # <<>>)
      BY <2>2, <2>3 DEF Add, BufferInv
    <3>2. key' \in [buf : Seq(Byte), pendingSpace : BOOLEAN]
      BY <2>2, <2>3 DEF Add, BufferInv
    <3>3. key'.buf = UpTo(N \o D, KeyLen)
      BY <1>1, <1>9, <2>3, <3>1
    <3>4. key'.pendingSpace = Due'
      BY <1>7, <1>8, <2>1, <2>3, <3>1
    <3> QED BY <1>3, <1>4, <1>11, <1>12, <3>2, <3>3, <3>4 DEF BufferInv
  <2>4. CASE ~IsSpace(r)
    <3> DEFINE d == IF Due THEN <<Blank>> ELSE <<>>
    <3>1. key' = [buf |-> UpTo((b \o d) \o r, KeyLen), pendingSpace |-> FALSE]
      BY <2>2, <2>4 DEF Add
    <3>2. D = d \o r /\ d \in Seq(Byte)
      BY <2>4, BlankTyped DEF D, Further
    <3> HIDE DEF d, b
    <3>3. (b \o d) \o r = N \o D
      BY <1>1, <1>5, <2>1, <3>2
    <3>4. key'.buf = UpTo(N \o D, KeyLen) /\ key'.pendingSpace = FALSE
      BY <3>1, <3>3
    <3>5. key' \in [buf : Seq(Byte), pendingSpace : BOOLEAN]
      BY <1>14, <3>1, <3>3
    <3>6. key'.pendingSpace = Due'
      BY <1>7, <2>4, <3>4
    <3> QED BY <1>3, <1>4, <1>11, <1>12, <3>4, <3>5, <3>6 DEF BufferInv
  <2> QED BY <2>3, <2>4
<1> QED BY <1>15, <1>16

\* The throttle key of a statement, whatever its length and layout, is its
\* normalized text cut at the key's length: the loop drops no byte at a word
\* boundary or at a multi-byte rune, and stopping when the buffer is full
\* loses nothing.
THEOREM KeyExact == KeySpec => []KeyIsNormalizedPrefix
<1>1. BufferInv /\ [KeyNext]_keyVars => BufferInv'
  <2>1. ASSUME BufferInv, UNCHANGED keyVars
        PROVE  BufferInv'
    <3>1. query' = query /\ key' = key
      BY <2>1 DEF keyVars
    <3>2. Normalized' = Normalized
      <4>1. \A i \in DOMAIN query : Piece(i)' = Piece(i)
        BY <3>1 DEF Piece, BeginsNextWord, IsSpace
      <4> QED BY <3>1, <4>1 DEF Normalized
    <3> QED BY <2>1, <3>1, <3>2 DEF BufferInv, KeyIsNormalizedPrefix, UpTo, IsFull, Due, IsSpace
  <2> QED BY <2>1, KeyStepInv DEF KeyNext
<1>2. BufferInv => KeyIsNormalizedPrefix
  BY DEF BufferInv
<1> QED BY <1>1, <1>2, KeyInitially, PTL DEF KeySpec
=============================================================================
