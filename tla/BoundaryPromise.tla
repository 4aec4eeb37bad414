--------------------------- MODULE BoundaryPromise --------------------------
(***************************************************************************)
(* What the detector promises for a boundary, without saying how: a        *)
(* boundary collects the atomic units of its writes (distinct              *)
(* transactions, and auto-commit writes each on its own) while it is open; *)
(* when it is closed with two units or more, and neither the in-code mark  *)
(* nor an allowlist entry excuses it, every reporter is told the number of *)
(* units, once.                                                            *)
(***************************************************************************)
EXTENDS Naturals, FiniteSets

CONSTANTS Boundary, Reporter, TxId,
          Mark,             \* the in-code allow marks: [on, counts]
          Unmarked          \* the mark of a boundary that carries none

VARIABLES phase,            \* "idle", "open" or "closed", per boundary
          txs, autos,       \* write transactions, number of auto-commit writes
          mark,
          excused,          \* an allowlist entry suppressed the violation
          told              \* units told to a reporter about a boundary, 0: none

vars == <<phase, txs, autos, mark, excused, told>>

WriteUnits(b) == Cardinality(txs[b]) + autos[b]

Covers(m, units) == m.on /\ (m.counts = {} \/ units \in m.counts)

Unexcused(b) ==
    /\ phase[b] = "closed"
    /\ WriteUnits(b) >= 2
    /\ ~Covers(mark[b], WriteUnits(b))

Init ==
    /\ phase = [b \in Boundary |-> "idle"]
    /\ txs = [b \in Boundary |-> {}]
    /\ autos = [b \in Boundary |-> 0]
    /\ mark = [b \in Boundary |-> Unmarked]
    /\ excused = [b \in Boundary |-> FALSE]
    /\ told = [r \in Reporter |-> [b \in Boundary |-> 0]]

Open(b) ==
    /\ phase[b] = "idle"
    /\ phase' = [phase EXCEPT ![b] = "open"]
    /\ \E m \in Mark \cup {Unmarked} : mark' = [mark EXCEPT ![b] = m]
    /\ UNCHANGED <<txs, autos, excused, told>>

Allow(b) ==
    /\ phase[b] = "open"
    /\ \E m \in Mark : mark' = [mark EXCEPT ![b] = m]
    /\ UNCHANGED <<phase, txs, autos, excused, told>>

WriteInTx(b, t) ==
    /\ phase[b] = "open"
    /\ txs' = [txs EXCEPT ![b] = txs[b] \cup {t}]
    /\ UNCHANGED <<phase, autos, mark, excused, told>>

WriteAutoCommit(b) ==
    /\ phase[b] = "open"
    /\ autos' = [autos EXCEPT ![b] = autos[b] + 1]
    /\ UNCHANGED <<phase, txs, mark, excused, told>>

Close(b) ==
    /\ phase[b] = "open"
    /\ phase' = [phase EXCEPT ![b] = "closed"]
    /\ UNCHANGED <<txs, autos, mark, excused, told>>

Excuse(b) ==
    /\ Unexcused(b)
    /\ ~excused[b]
    /\ \A r \in Reporter : told[r][b] = 0
    /\ excused' = [excused EXCEPT ![b] = TRUE]
    /\ UNCHANGED <<phase, txs, autos, mark, told>>

Tell(r, b) ==
    /\ Unexcused(b)
    /\ ~excused[b]
    /\ told[r][b] = 0
    /\ told' = [told EXCEPT ![r][b] = WriteUnits(b)]
    /\ UNCHANGED <<phase, txs, autos, mark, excused>>

Next ==
    \E b \in Boundary :
        \/ Open(b)
        \/ Allow(b)
        \/ \E t \in TxId : WriteInTx(b, t)
        \/ WriteAutoCommit(b)
        \/ Close(b)
        \/ Excuse(b)
        \/ \E r \in Reporter : Tell(r, b)

\* A verdict that is due is given: to every reporter, unless excused.
Fairness == \A b \in Boundary, r \in Reporter : WF_vars(Tell(r, b))

Spec == Init /\ [][Next]_vars
FairSpec == Spec /\ Fairness
=============================================================================
