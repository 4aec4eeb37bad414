-------------------------- MODULE WriteTallyProofs --------------------------
(***************************************************************************)
(* Lemmas about noteWriteTx, for every inline capacity and every           *)
(* identifier.                                                             *)
(***************************************************************************)
EXTENDS WriteTally, FiniteSetTheorems, TLAPS

\* The tallies over a set of identifiers; unused cells hold 0.
Tally(Ids) == [inline : [1..InlineCap -> Ids \cup {0}], n : Nat, overflow : SUBSET Ids]

\* The tally of a boundary that has written nothing is exact and empty.
LEMMA EmptyTallyExact ==
    ASSUME NEW Ids
    PROVE  EmptyTally \in Tally(Ids) /\ Exact(EmptyTally) /\ TallyIds(EmptyTally) = {}
<1>1. EmptyTally \in Tally(Ids)
  BY DEF EmptyTally, Tally
<1>2. Used(EmptyTally) = 0
  BY InlineCapAssumption DEF EmptyTally, Used
<1>3. TallyIds(EmptyTally) = {}
  BY <1>2 DEF TallyIds, InlineIds, EmptyTally
<1>4. Exact(EmptyTally)
  <2>1. \A i, j \in 1..Used(EmptyTally) :
           EmptyTally.inline[i] = EmptyTally.inline[j] => i = j
    BY <1>2
  <2>2. EmptyTally.overflow = {} /\ EmptyTally.n = 0
    BY DEF EmptyTally
  <2>3. IsFiniteSet(TallyIds(EmptyTally)) /\ Cardinality(TallyIds(EmptyTally)) = 0
    BY <1>3, FS_EmptySet
  <2> QED
    BY <2>1, <2>2, <2>3 DEF Exact
<1> QED
  BY <1>1, <1>3, <1>4

\* noteWriteTx adds the identifier it is given and nothing else, and keeps the
\* tally exact: a transaction is counted once however often it writes, whether
\* it is held in the inline array or in the overflow set.
LEMMA NoteWriteTxExact ==
    ASSUME NEW Ids, NEW t \in Tally(Ids), Exact(t), NEW txID \in Ids
    PROVE  /\ NoteWriteTx(t, txID) \in Tally(Ids)
           /\ Exact(NoteWriteTx(t, txID))
           /\ TallyIds(NoteWriteTx(t, txID)) = TallyIds(t) \cup {txID}
<1> DEFINE u == NoteWriteTx(t, txID)
<1> USE InlineCapAssumption
<1>1. CASE txID \in TallyIds(t)
  BY <1>1 DEF NoteWriteTx
<1>2. CASE txID \notin TallyIds(t) /\ t.n < InlineCap
  <2>1. /\ u = [t EXCEPT !.inline[t.n + 1] = txID, !.n = t.n + 1]
        /\ t.n + 1 \in 1..InlineCap
    BY <1>2 DEF NoteWriteTx, Tally
  <2>2. u \in Tally(Ids)
    <3>1. u = [inline |-> [t.inline EXCEPT ![t.n + 1] = txID], n |-> t.n + 1,
               overflow |-> t.overflow]
      BY <2>1 DEF Tally
    <3>2. [t.inline EXCEPT ![t.n + 1] = txID] \in [1..InlineCap -> Ids \cup {0}]
      BY <2>1 DEF Tally
    <3> QED
      BY <3>1, <3>2 DEF Tally
  <2>3. /\ u.n = t.n + 1 /\ u.overflow = t.overflow
        /\ u.inline[t.n + 1] = txID
        /\ \A i \in 1..t.n : u.inline[i] = t.inline[i]
    BY <2>1 DEF Tally
  <2>4. Used(t) = t.n /\ Used(u) = t.n + 1
    BY <1>2, <2>3 DEF Used, Tally
  <2>5. InlineIds(u) = InlineIds(t) \cup {txID}
    BY <2>3, <2>4 DEF InlineIds, Tally
  <2>6. TallyIds(u) = TallyIds(t) \cup {txID}
    BY <2>3, <2>5 DEF TallyIds
  <2>7. \A i \in 1..t.n : t.inline[i] # txID
    BY <1>2, <2>4 DEF TallyIds, InlineIds
  <2>8. \A i, j \in 1..Used(u) : u.inline[i] = u.inline[j] => i = j
    <3> SUFFICES ASSUME NEW i \in 1..t.n + 1, NEW j \in 1..t.n + 1,
                        u.inline[i] = u.inline[j]
                 PROVE  i = j
      BY <2>4
    <3>1. CASE i \in 1..t.n /\ j \in 1..t.n
      BY <3>1, <2>3, <2>4 DEF Exact
    <3>2. CASE i = t.n + 1 \/ j = t.n + 1
      BY <3>2, <2>3, <2>7 DEF Tally
    <3> QED
      BY <3>1, <3>2 DEF Tally
  <2>9. u.overflow = {}
    BY <1>2, <2>3 DEF Exact, Tally
  <2>10. IsFiniteSet(TallyIds(u)) /\ u.n = Cardinality(TallyIds(u))
    BY <1>2, <2>3, <2>6, FS_AddElement DEF Exact
  <2> QED
    BY <2>2, <2>6, <2>8, <2>9, <2>10 DEF Exact
<1>3. CASE txID \notin TallyIds(t) /\ ~(t.n < InlineCap)
  <2>1. u = [t EXCEPT !.overflow = t.overflow \cup {txID}, !.n = t.n + 1]
    BY <1>3 DEF NoteWriteTx
  <2>2. u \in Tally(Ids)
    <3>1. u = [inline |-> t.inline, n |-> t.n + 1,
               overflow |-> t.overflow \cup {txID}]
      BY <2>1 DEF Tally
    <3>2. t.overflow \cup {txID} \in SUBSET Ids
      BY DEF Tally
    <3> QED
      BY <3>1, <3>2 DEF Tally
  <2>3. u.inline = t.inline /\ u.n = t.n + 1 /\ u.overflow = t.overflow \cup {txID}
    BY <2>1 DEF Tally
  <2>4. Used(u) = InlineCap /\ Used(t) = InlineCap /\ u.n > InlineCap
    BY <1>3, <2>3 DEF Used, Tally
  <2>5. InlineIds(u) = InlineIds(t)
    BY <2>3, <2>4 DEF InlineIds
  <2>6. TallyIds(u) = TallyIds(t) \cup {txID}
    BY <2>3, <2>5 DEF TallyIds
  <2>7. \A i, j \in 1..Used(u) : u.inline[i] = u.inline[j] => i = j
    BY <2>3, <2>4 DEF Exact
  <2>8. InlineIds(u) \cap u.overflow = {}
    BY <1>3, <2>3, <2>5 DEF Exact, TallyIds
  <2>9. IsFiniteSet(TallyIds(u)) /\ u.n = Cardinality(TallyIds(u))
    BY <1>3, <2>3, <2>6, FS_AddElement DEF Exact
  <2> QED
    BY <2>2, <2>4, <2>6, <2>7, <2>8, <2>9 DEF Exact
<1> QED
  BY <1>1, <1>2, <1>3
=============================================================================
