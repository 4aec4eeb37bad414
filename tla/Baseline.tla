------------------------------ MODULE Baseline ------------------------------
(***************************************************************************)
(* The ratchet (src/baseline.go) over several runs of a program: a         *)
(* Baseline that goroutines share through a BaselineReporter, and the file *)
(* that connects the runs. A violation is its boundary's name. Violations  *)
(* only: the other reports are handed on as they are.                      *)
(*                                                                         *)
(* A run may end anywhere, also while Save writes. What the team does with *)
(* the file between runs, as README.md:248-290 asks it to, is external.    *)
(***************************************************************************)
EXTENDS Naturals, FiniteSets

CONSTANTS
    Name,                   \* names of boundaries
    Reporting,              \* goroutines inside BaselineReporter.Report
    MaxRuns                 \* bound: runs of the program

ASSUME BaselineAssumption == MaxRuns \in Nat

VARIABLES
    file,                   \* "missing", "torn", or "ok" with the names in it
    run,                    \* runs so far
    up,                     \* the program runs
    entries,                \* Baseline.entries
    pending,                \* what each goroutine hands on to the wrapped reporter
    forwarded,              \* what the wrapped reporter collected in this run
    writing,                \* what Save has taken and not yet written
    committed,              \* history: what a Save wrote or the team left in the file
    loaded, swallowed       \* history: what this run loaded, and suppressed

vars == <<file, run, up, entries, pending, forwarded, writing, committed,
          loaded, swallowed>>

File(state, names) == [state |-> state, names |-> names]
Nothing == File("none", {})

\* entries as a set of names and a set of those that suppressed something.
None == [names |-> {}, used |-> {}]

Init ==
    /\ file = File("missing", {})
    /\ run = 0
    /\ up = FALSE
    /\ entries = None
    /\ pending = [g \in Reporting |-> {}]
    /\ forwarded = {}
    /\ writing = Nothing
    /\ committed = {}
    /\ loaded = Nothing /\ swallowed = {}

Starts(from) ==
    /\ ~up /\ run < MaxRuns
    /\ up' = TRUE
    /\ run' = run + 1
    /\ entries' = [None EXCEPT !.names = from.names]
    /\ loaded' = from
    /\ swallowed' = {} /\ forwarded' = {}
    /\ UNCHANGED <<file, pending, writing, committed>>

\* NewBaseline: without the file, a run that adopts the ratchet.
StartEmpty == Starts(Nothing)

\* Mutant: a file that cannot be parsed is an empty baseline.
LoadBaselineLenient ==
    \/ file.state = "ok" /\ Starts(file)
    \/ file.state = "torn" /\ Starts(File("ok", {}))

\* LoadBaseline: without a file, or with one that cannot be parsed, an error.
LoadBaseline == file.state = "ok" /\ Starts(file)

\* Mutant: as Allowlist.Add, a name that is added again is unused again.
AddForgets(n) ==
    /\ up
    /\ entries' = [names |-> entries.names \cup {n}, used |-> entries.used \ {n}]
    /\ UNCHANGED <<file, run, up, pending, forwarded, writing, committed, loaded,
                   swallowed>>

Add(n) ==
    /\ up
    /\ entries' = [entries EXCEPT !.names = @ \cup {n}]
    /\ UNCHANGED <<file, run, up, pending, forwarded, writing, committed, loaded,
                   swallowed>>

\* Mutant: an entry is marked before it is looked up.
SwallowUnlisted(g, n) ==
    /\ up /\ pending[g] = {}
    /\ entries' = [entries EXCEPT !.used = @ \cup {n}]
    /\ swallowed' = swallowed \cup {n}
    /\ UNCHANGED <<file, run, up, pending, forwarded, writing, committed, loaded>>

\* BaselineReporter.Report: covers, under the mutex, says yes.
Swallow(g, n) ==
    /\ up /\ pending[g] = {}
    /\ n \in entries.names
    /\ entries' = [entries EXCEPT !.used = @ \cup {n}]
    /\ swallowed' = swallowed \cup {n}
    /\ UNCHANGED <<file, run, up, pending, forwarded, writing, committed, loaded>>

\* Mutant: an entry suppresses one violation only.
PassUsed(g, n) ==
    /\ up /\ pending[g] = {}
    /\ n \notin entries.names \ entries.used
    /\ pending' = [pending EXCEPT ![g] = {n}]
    /\ UNCHANGED <<file, run, up, entries, forwarded, writing, committed, loaded,
                   swallowed>>

\* covers says no, and the violation goes to the wrapped reporter outside.
Pass(g, n) ==
    /\ up /\ pending[g] = {}
    /\ n \notin entries.names
    /\ pending' = [pending EXCEPT ![g] = {n}]
    /\ UNCHANGED <<file, run, up, entries, forwarded, writing, committed, loaded,
                   swallowed>>

Forward(g) ==
    /\ pending[g] # {}
    /\ forwarded' = forwarded \cup pending[g]
    /\ pending' = [pending EXCEPT ![g] = {}]
    /\ UNCHANGED <<file, run, up, entries, writing, committed, loaded, swallowed>>

UnusedEntries == entries.names \ entries.used

\* Save: Boundaries, under the mutex, of the Baseline in use or of one made by
\* BaselineFromViolations; WriteFile empties the file and then writes it.
Save ==
    /\ up /\ writing = Nothing
    /\ \E names \in {entries.names, forwarded} : writing' = File("taken", names)
    /\ UNCHANGED <<file, run, up, entries, pending, forwarded, committed, loaded,
                   swallowed>>

Truncate ==
    /\ writing.state = "taken"
    /\ file' = File("torn", {})
    /\ writing' = [writing EXCEPT !.state = "open"]
    /\ UNCHANGED <<run, up, entries, pending, forwarded, committed, loaded, swallowed>>

WriteOut ==
    /\ writing.state = "open"
    /\ file' = File("ok", writing.names)
    /\ committed' = committed \cup {writing.names}
    /\ writing' = Nothing
    /\ UNCHANGED <<run, up, entries, pending, forwarded, loaded, swallowed>>

Stops ==
    /\ up /\ up' = FALSE
    /\ entries' = None
    /\ pending' = [g \in Reporting |-> {}]
    /\ writing' = Nothing

\* The run ends, or is killed.
Stop == Stops /\ UNCHANGED <<file, run, forwarded, committed, loaded, swallowed>>

\* CI fails on UnusedEntries after a run, and the team removes these entries
\* from the file.
Ratchet ==
    /\ file.state = "ok" /\ file = loaded
    /\ writing = Nothing
    /\ Stops
    /\ file' = File("ok", file.names \ UnusedEntries)
    /\ committed' = committed \cup {file.names \ UnusedEntries}
    /\ UNCHANGED <<run, forwarded, loaded, swallowed>>

Next ==
    \/ StartEmpty \/ LoadBaseline
    \/ \E n \in Name : Add(n)
    \/ \E g \in Reporting :
         \/ \E n \in Name : Swallow(g, n) \/ Pass(g, n)
         \/ Forward(g)
    \/ Save \/ Truncate \/ WriteOut
    \/ Stop \/ Ratchet

Spec == Init /\ [][Next]_vars

(***************************************************************************)
(* Properties                                                              *)
(***************************************************************************)

\* A used entry is an entry (baseline.go:84-88), and what was taken from the
\* file is still there.
TypeOK ==
    /\ file.state \in {"missing", "torn", "ok"} /\ file.names \subseteq Name
    /\ writing.state \in {"none", "taken", "open"} /\ writing.names \subseteq Name
    /\ run \in 0..MaxRuns
    /\ entries.used \subseteq entries.names /\ entries.names \subseteq Name
    /\ \A g \in Reporting : pending[g] \subseteq Name
    /\ up => loaded.names \subseteq entries.names

\* UnusedEntries are exactly the entries that suppressed no violation in this
\* run (baseline.go:91-94), whatever goroutines add and report meanwhile: the
\* team neither removes an entry it needs nor keeps one it does not.
UnusedIsExact == up => UnusedEntries = entries.names \ swallowed

\* A baseline that was loaded is one that somebody committed: a Save that was
\* cut off is noticed and not taken for a smaller baseline (baseline.go:128-130).
LoadedIsCommitted == up /\ loaded # Nothing => loaded.names \in committed

\* What the file has when the run starts is tolerated throughout the run.
ToleratesLoaded ==
    up => loaded.names \cap (forwarded \cup UNION {pending[g] : g \in Reporting}) = {}
=============================================================================
