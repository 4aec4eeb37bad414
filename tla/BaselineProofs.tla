---------------------------- MODULE BaselineProofs ----------------------------
(***************************************************************************)
(* Proofs about the ratchet, for any names, any number of reporting        *)
(* goroutines and any number of runs.                                      *)
(***************************************************************************)
EXTENDS Baseline, TLAPS

FileType == [state : {"none", "missing", "torn", "taken", "open", "ok"},
             names : SUBSET Name]

Typed ==
    /\ run \in 0..MaxRuns /\ up \in BOOLEAN
    /\ entries \in [names : SUBSET Name, used : SUBSET Name]
    /\ pending \in [Reporting -> SUBSET Name] /\ forwarded \subseteq Name
    /\ file \in FileType /\ file.state \in {"missing", "torn", "ok"}
    /\ writing \in FileType /\ writing.state \in {"none", "taken", "open"}
    /\ loaded \in FileType

\* What suppressed something is what is marked, and only entries are.
Marked == entries.used \subseteq entries.names /\ (up => entries.used = swallowed)

\* What can be loaded, or was, somebody committed.
Committed ==
    /\ file.state = "ok" => file.names \in committed
    /\ loaded # Nothing => loaded.names \in committed

\* An entry that was loaded stays, and no report of its boundary has got past it.
Tolerated ==
    IF up THEN /\ loaded.names \subseteq entries.names
               /\ loaded.names \cap forwarded = {}
               /\ \A g \in Reporting : loaded.names \cap pending[g] = {}
          ELSE \A g \in Reporting : pending[g] = {}

IInv == Typed /\ Marked /\ Committed /\ Tolerated

LEMMA InitHas == Init => IInv
<1> SUFFICES ASSUME Init PROVE IInv
  OBVIOUS
<1>1. None \in [names : SUBSET Name, used : SUBSET Name] /\ None.used = {}
  BY DEF None
<1>2. /\ File("missing", {}) \in FileType /\ File("missing", {}).state = "missing"
      /\ Nothing \in FileType /\ Nothing.state = "none"
  BY DEF File, FileType, Nothing
<1>3. Typed
  <2>1. pending \in [Reporting -> SUBSET Name]
    BY DEF Init
  <2>2. 0 \in 0..MaxRuns
    BY BaselineAssumption
  <2>3. file \in FileType /\ file.state \in {"missing", "torn", "ok"}
    BY <1>2 DEF Init
  <2>4. writing \in FileType /\ writing.state \in {"none", "taken", "open"}
    BY <1>2 DEF Init
  <2> QED BY <1>1, <1>2, <2>1, <2>2, <2>3, <2>4 DEF Init, Typed
<1>4. Marked /\ Tolerated
  BY <1>1 DEF Init, Marked, Tolerated
<1>5. Committed
  BY DEF Init, Committed, File
<1> QED BY <1>3, <1>4, <1>5 DEF IInv

\* A run starts from a file that was committed, or from nothing.
LEMMA StartKeeps ==
    ASSUME IInv, NEW from \in FileType, Starts(from),
           from = Nothing \/ from.names \in committed
    PROVE  IInv'
<1>n. PICK names \in SUBSET Name : names = from.names
  BY DEF FileType
<1>1. entries' = [names |-> names, used |-> {}]
  BY <1>n DEF Starts, None
<1>2. Typed'
  <2>1. entries' \in [names : SUBSET Name, used : SUBSET Name]
    BY <1>1
  <2>2. run' \in 0..MaxRuns
    BY BaselineAssumption DEF IInv, Typed, Starts
  <2> QED BY <2>1, <2>2 DEF IInv, Typed, Starts
<1>3. Marked'
  BY <1>1 DEF Marked, Starts
<1>4. Committed'
  BY DEF IInv, Committed, Starts
<1>5. Tolerated'
  BY <1>n, <1>1 DEF IInv, Tolerated, Starts
<1> QED BY <1>2, <1>3, <1>4, <1>5 DEF IInv

LEMMA StartEmptyKeeps == IInv /\ StartEmpty => IInv'
<1>1. Nothing \in FileType
  BY DEF Nothing, File, FileType
<1> QED BY <1>1, StartKeeps DEF StartEmpty

LEMMA LoadKeeps == IInv /\ LoadBaseline => IInv'
BY StartKeeps DEF LoadBaseline, IInv, Typed, Committed

LEMMA AddKeeps == ASSUME IInv, NEW n \in Name, Add(n) PROVE IInv'
<1> USE DEF IInv, Add
<1>1. Typed'
  BY DEF Typed
<1>2. entries'.names = entries.names \cup {n} /\ entries'.used = entries.used
  BY DEF Typed
<1>3. Marked' /\ Committed' /\ Tolerated'
  BY <1>2 DEF Marked, Committed, Tolerated
<1> QED BY <1>1, <1>3

LEMMA SwallowKeeps ==
    ASSUME IInv, NEW g \in Reporting, NEW n \in Name, Swallow(g, n) PROVE IInv'
<1> USE DEF IInv, Swallow
<1>1. Typed'
  BY DEF Typed
<1>2. entries'.names = entries.names /\ entries'.used = entries.used \cup {n}
  BY DEF Typed
<1>3. Marked' /\ Committed' /\ Tolerated'
  BY <1>2 DEF Marked, Committed, Tolerated
<1> QED BY <1>1, <1>3

LEMMA PassKeeps ==
    ASSUME IInv, NEW g \in Reporting, NEW n \in Name, Pass(g, n) PROVE IInv'
<1> USE DEF IInv, Pass
<1>1. Typed'
  BY DEF Typed
<1>2. Marked' /\ Committed'
  BY DEF Marked, Committed
<1>3. \A h \in Reporting : pending'[h] = IF h = g THEN {n} ELSE pending[h]
  BY DEF Typed
<1>4. Tolerated'
  BY <1>3 DEF Tolerated
<1> QED BY <1>1, <1>2, <1>4

LEMMA ForwardKeeps == ASSUME IInv, NEW g \in Reporting, Forward(g) PROVE IInv'
<1> USE DEF IInv, Forward
<1>1. Typed'
  BY DEF Typed
<1>2. Marked' /\ Committed'
  BY DEF Marked, Committed
<1>3. \A h \in Reporting : pending'[h] = IF h = g THEN {} ELSE pending[h]
  BY DEF Typed
<1>4. Tolerated'
  BY <1>3 DEF Tolerated
<1> QED BY <1>1, <1>2, <1>4

LEMMA SaveKeeps == IInv /\ (Save \/ Truncate \/ WriteOut) => IInv'
<1> SUFFICES ASSUME IInv, Save \/ Truncate \/ WriteOut PROVE IInv'
  OBVIOUS
<1> USE DEF IInv
<1>1. Marked' /\ Tolerated'
  BY DEF Marked, Tolerated, Save, Truncate, WriteOut
<1>2. CASE Save
  <2>1. PICK names \in SUBSET Name : writing' = File("taken", names)
    BY <1>2 DEF Save, Typed
  <2>2. Typed'
    BY <1>2, <2>1 DEF Save, Typed, File, FileType
  <2>3. Committed'
    BY <1>2 DEF Save, Committed
  <2> QED BY <1>1, <2>2, <2>3
<1>3. CASE Truncate
  <2>1. Typed'
    BY <1>3 DEF Truncate, Typed, File, FileType
  <2>2. Committed'
    BY <1>3 DEF Truncate, Committed, File
  <2> QED BY <1>1, <2>1, <2>2
<1>4. CASE WriteOut
  <2>1. Typed'
    BY <1>4 DEF WriteOut, Typed, File, FileType, Nothing
  <2>2. Committed'
    BY <1>4 DEF WriteOut, Committed, File
  <2> QED BY <1>1, <2>1, <2>2
<1> QED BY <1>2, <1>3, <1>4

LEMMA StopKeeps == IInv /\ (Stop \/ Ratchet) => IInv'
<1> SUFFICES ASSUME IInv, Stop \/ Ratchet PROVE IInv'
  OBVIOUS
<1> USE DEF IInv
<1>1. up' = FALSE /\ entries' = None /\ pending' = [g \in Reporting |-> {}] /\ writing' = Nothing
  BY DEF Stop, Ratchet, Stops
<1>2. Marked' /\ Tolerated'
  BY <1>1 DEF Marked, Tolerated, None
<1>3. file' \in FileType /\ file'.state \in {"missing", "torn", "ok"}
  BY DEF Stop, Ratchet, Typed, File, FileType
<1>4. Typed'
  BY <1>1, <1>3 DEF Stop, Ratchet, Typed, None, Nothing, File, FileType
<1>5. Committed'
  BY DEF Stop, Ratchet, Committed, File
<1> QED BY <1>2, <1>4, <1>5

\* The inductive invariant of the ratchet.
THEOREM Invariant == Spec => []IInv
<1>1. IInv /\ Next => IInv'
  BY StartEmptyKeeps, LoadKeeps, AddKeeps, SwallowKeeps, PassKeeps, ForwardKeeps, SaveKeeps,
     StopKeeps DEF Next
<1>2. IInv /\ UNCHANGED vars => IInv'
  BY DEF vars, IInv, Typed, Marked, Committed, Tolerated
<1> QED BY InitHas, <1>1, <1>2, PTL DEF Spec

\* The types, and that used entries and loaded names are entries
\* (baseline.go:84-88).
THEOREM TypeCorrect == Spec => []TypeOK
<1>1. IInv => TypeOK
  BY DEF IInv, Typed, Marked, Tolerated, FileType, TypeOK
<1> QED BY Invariant, <1>1, PTL

\* UnusedEntries is what suppressed nothing in this run (baseline.go:91-94).
THEOREM UnusedExact == Spec => []UnusedIsExact
<1>1. IInv => UnusedIsExact
  BY DEF IInv, Marked, UnusedIsExact, UnusedEntries
<1> QED BY Invariant, <1>1, PTL

\* No run tolerates what a Save that was cut off left (baseline.go:128-130).
THEOREM OnlyCommittedLoaded == Spec => []LoadedIsCommitted
<1>1. IInv => LoadedIsCommitted
  BY DEF IInv, Committed, LoadedIsCommitted
<1> QED BY Invariant, <1>1, PTL

\* What a run loaded is never handed on in it.
THEOREM LoadedTolerated == Spec => []ToleratesLoaded
<1>1. IInv => ToleratesLoaded
  BY DEF IInv, Tolerated, ToleratesLoaded
<1> QED BY Invariant, <1>1, PTL
=============================================================================
