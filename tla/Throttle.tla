------------------------------- MODULE Throttle -------------------------------
(***************************************************************************)
(* ThrottlingReporter (src/throttle.go): goroutines report; admit decides  *)
(* under the mutex, from the key's window, whether the report goes on, and *)
(* the call of the wrapped reporter follows outside the mutex. Each of the *)
(* four kinds of report has a map of its own. A report is its stream and   *)
(* its key: a boundary name, a pair of names or a normalized statement.    *)
(***************************************************************************)
EXTENDS Integers, FiniteSets, Sequences

LOCAL INSTANCE FiniteSetsExt

CONSTANTS
    Caller,                 \* goroutines that report
    Key,
    Intervals,              \* the intervals a reporter may be built with
    Implementations,        \* the streams a wrapped reporter may implement
    MaxUnboundedKeys,       \* maxUnboundedWriteKeys
    MaxTime,                \* bound: the clock
    MaxReports              \* bound: reports in all

Stream == {"violations", "staleAllows", "unbounded", "nested"}

ASSUME ThrottleAssumption ==
    /\ IsFiniteSet(Caller) /\ IsFiniteSet(Key)
    /\ Intervals \subseteq Int
    /\ \A s \in Implementations : {"violations"} \subseteq s /\ s \subseteq Stream
    /\ MaxUnboundedKeys \in Nat \ {0}
    /\ MaxTime \in Nat /\ MaxReports \in Nat

VARIABLES
    interval, implemented,  \* fixed when the reporter is built
    clock,                  \* what now() returns
    windows,                \* throttleState per stream and key
    forwarding,             \* the report each goroutine is handing on
    arrived, delivered,     \* history: calls by the detector and of the
                            \* wrapped reporter, per stream and key
    admittedAt              \* history: when admit let a report through

configVars == <<interval, implemented>>
historyVars == <<arrived, delivered, admittedAt>>
vars == <<configVars, clock, windows, forwarding, historyVars>>

Nothing == <<>>
NoWindow == [tracked |-> FALSE, last |-> 0, suppressed |-> 0]

Tracked(s) == {k \in Key : windows[s][k].tracked}

\* Mutant: one key too many.
FullLate(s) == s = "unbounded" /\ Cardinality(Tracked(s)) > MaxUnboundedKeys

\* Only the statement-keyed map is capped (maxKeys > 0).
Full(s) == s = "unbounded" /\ Cardinality(Tracked(s)) >= MaxUnboundedKeys

Init ==
    /\ interval \in Intervals
    /\ implemented \in Implementations
    /\ clock = 0
    /\ windows = [s \in Stream |-> [k \in Key |-> NoWindow]]
    /\ forwarding = [g \in Caller |-> Nothing]
    /\ arrived = [s \in Stream |-> [k \in Key |-> 0]]
    /\ delivered = [s \in Stream |-> [k \in Key |-> 0]]
    /\ admittedAt = [s \in Stream |-> [k \in Key |-> <<>>]]

\* Bound: the reports so far.
Reports == MapThenSumSet(LAMBDA r : arrived[r[1]][r[2]], Stream \X Key)

\* A report of a stream that the wrapped reporter does not implement returns
\* at once and is no step.
Arrive(g, s, k) ==
    /\ forwarding[g] = Nothing
    /\ s \in implemented
    /\ Reports < MaxReports
    /\ arrived' = [arrived EXCEPT ![s][k] = arrived[s][k] + 1]
    /\ UNCHANGED <<configVars, clock, delivered>>

\* The report is let through; the wrapped reporter is called later.
LetThrough(g, s, k) ==
    /\ forwarding' = [forwarding EXCEPT ![g] = <<s, k>>]
    /\ admittedAt' = [admittedAt EXCEPT ![s][k] = Append(admittedAt[s][k], clock)]

\* A non-positive interval: admit is not called.
Bypass(g, s, k) ==
    /\ Arrive(g, s, k)
    /\ interval <= 0
    /\ LetThrough(g, s, k)
    /\ UNCHANGED windows

AdmitUntracked(g, s, k) ==
    /\ Arrive(g, s, k)
    /\ interval > 0
    /\ ~windows[s][k].tracked /\ Full(s)
    /\ LetThrough(g, s, k)
    /\ UNCHANGED windows

\* Mutant: the end of the window is kept for its start.
AdmitFirstKeepsEnd(g, s, k) ==
    /\ Arrive(g, s, k)
    /\ interval > 0
    /\ ~windows[s][k].tracked /\ ~Full(s)
    /\ windows' = [windows EXCEPT ![s][k] =
                     [tracked |-> TRUE, last |-> clock + interval, suppressed |-> 0]]
    /\ LetThrough(g, s, k)

AdmitFirst(g, s, k) ==
    /\ Arrive(g, s, k)
    /\ interval > 0
    /\ ~windows[s][k].tracked /\ ~Full(s)
    /\ windows' = [windows EXCEPT ![s][k] =
                     [tracked |-> TRUE, last |-> clock, suppressed |-> 0]]
    /\ LetThrough(g, s, k)

\* Mutant: the new window is not started.
AdmitAgainSameWindow(g, s, k) ==
    /\ Arrive(g, s, k)
    /\ interval > 0
    /\ windows[s][k].tracked /\ clock - windows[s][k].last >= interval
    /\ LetThrough(g, s, k)
    /\ UNCHANGED windows

AdmitAgain(g, s, k) ==
    /\ Arrive(g, s, k)
    /\ interval > 0
    /\ windows[s][k].tracked /\ clock - windows[s][k].last >= interval
    /\ windows' = [windows EXCEPT ![s][k] =
                     [tracked |-> TRUE, last |-> clock,
                      suppressed |-> windows[s][k].suppressed]]
    /\ LetThrough(g, s, k)

\* Mutant: the suppressed report is not counted.
SuppressUncounted(g, s, k) ==
    /\ Arrive(g, s, k)
    /\ interval > 0
    /\ windows[s][k].tracked /\ clock - windows[s][k].last < interval
    /\ UNCHANGED <<windows, forwarding, admittedAt>>

\* Mutant: every report restarts the window.
SuppressAndRestart(g, s, k) ==
    /\ Arrive(g, s, k)
    /\ interval > 0
    /\ windows[s][k].tracked /\ clock - windows[s][k].last < interval
    /\ windows' = [windows EXCEPT ![s][k] =
                     [tracked |-> TRUE, last |-> clock,
                      suppressed |-> windows[s][k].suppressed + 1]]
    /\ UNCHANGED <<forwarding, admittedAt>>

Suppress(g, s, k) ==
    /\ Arrive(g, s, k)
    /\ interval > 0
    /\ windows[s][k].tracked /\ clock - windows[s][k].last < interval
    /\ windows' = [windows EXCEPT ![s][k] =
                     [tracked |-> TRUE, last |-> windows[s][k].last,
                      suppressed |-> windows[s][k].suppressed + 1]]
    /\ UNCHANGED <<forwarding, admittedAt>>

\* The call of the wrapped reporter, outside the mutex.
Deliver(g, s, k) ==
    /\ forwarding[g] = <<s, k>>
    /\ delivered' = [delivered EXCEPT ![s][k] = delivered[s][k] + 1]
    /\ forwarding' = [forwarding EXCEPT ![g] = Nothing]
    /\ UNCHANGED <<configVars, clock, windows, arrived, admittedAt>>

Tick ==
    /\ clock < MaxTime
    /\ clock' = clock + 1
    /\ UNCHANGED <<configVars, windows, forwarding, historyVars>>

\* What SuppressedViolations and its siblings return.
Snapshot(s) ==
    [k \in {x \in Key : windows[s][x].suppressed > 0} |-> windows[s][k].suppressed]

Next ==
    \/ \E g \in Caller, s \in Stream, k \in Key :
         \/ Bypass(g, s, k)
         \/ AdmitUntracked(g, s, k)
         \/ AdmitFirst(g, s, k)
         \/ AdmitAgain(g, s, k)
         \/ Suppress(g, s, k)
         \/ Deliver(g, s, k)
    \/ Tick

Spec == Init /\ [][Next]_vars

(***************************************************************************)
(* Properties                                                              *)
(***************************************************************************)
Window == [tracked : BOOLEAN, last : 0..MaxTime, suppressed : Nat]

\* Every variable has its type.
TypeOK ==
    /\ interval \in Intervals /\ implemented \in Implementations
    /\ clock \in 0..MaxTime
    /\ windows \in [Stream -> [Key -> Window]]
    /\ forwarding \in [Caller -> {Nothing} \cup (Stream \X Key)]
    /\ arrived \in [Stream -> [Key -> Nat]]
    /\ delivered \in [Stream -> [Key -> Nat]]
    /\ admittedAt \in [Stream -> [Key -> Seq(0..MaxTime)]]

Forwarders(s, k) == {g \in Caller : forwarding[g] = <<s, k>>}

\* The count a poll of the snapshot gives for a key; absent keys count zero.
Polled(s, k) == IF k \in DOMAIN Snapshot(s) THEN Snapshot(s)[k] ELSE 0

\* No report is lost or made up: however the callers interleave, what arrived
\* for a key is what the wrapped reporter got, what goroutines are still
\* handing on, and what the snapshot says was suppressed ("recover the true
\* report volume", throttle.go:51-54), overflow keys of the capped map included.
Conservation ==
    \A s \in Stream, k \in Key :
        arrived[s][k] = delivered[s][k] + Cardinality(Forwarders(s, k)) + Polled(s, k)

\* Two reports of a tracked key are let through at least an interval apart; the
\* cap of the statement map never forgets a key and lets it start over.
OncePerInterval ==
    interval > 0 =>
        \A s \in Stream, k \in Key : windows[s][k].tracked =>
            \A i \in 1..Len(admittedAt[s][k]) - 1 :
                admittedAt[s][k][i + 1] - admittedAt[s][k][i] >= interval

\* The statement map never outgrows its cap, and it fails open: a key that was
\* let through and is not tracked found the map full, and loses no report.
MemoryBounded ==
    /\ Cardinality(Tracked("unbounded")) <= MaxUnboundedKeys
    /\ interval > 0 =>
         \A s \in Stream, k \in Key :
            ~windows[s][k].tracked /\ admittedAt[s][k] # <<>> =>
                Full(s) /\ windows[s][k].suppressed = 0

\* A report is suppressed only behind one of the same key that was let through
\* less than an interval before: a key that was quiet for an interval, or was
\* never seen, is not throttled.
SuppressedBehindForward ==
    [][\A s \in Stream, k \in Key :
         windows'[s][k].suppressed > windows[s][k].suppressed =>
            /\ admittedAt[s][k] # <<>>
            /\ clock - admittedAt[s][k][Len(admittedAt[s][k])] < interval]_vars
=============================================================================
