----------------------------- MODULE WriteTally -----------------------------
(***************************************************************************)
(* The tally of distinct write transactions that a boundary keeps          *)
(* (src/detector.go, Boundary.writeTxInline / writeTxN / writeTxOverflow   *)
(* and noteWriteTx): the first InlineCap identifiers live in a fixed       *)
(* array, whose unused cells hold 0, and the rest in a set; n counts the   *)
(* distinct identifiers seen in total.                                     *)
(***************************************************************************)
EXTENDS Naturals, FiniteSets

CONSTANT InlineCap          \* inlineWriteTxCap, 4 in the code

ASSUME InlineCapAssumption == InlineCap \in Nat

EmptyTally == [inline |-> [i \in 1..InlineCap |-> 0], n |-> 0, overflow |-> {}]

\* The cells of the array in use: min(writeTxN, inlineWriteTxCap).
Used(t) == IF t.n > InlineCap THEN InlineCap ELSE t.n

InlineIds(t) == {t.inline[i] : i \in 1..Used(t)}

TallyIds(t) == InlineIds(t) \cup t.overflow

\* Mutant: the overflow map is not searched.
NoteWriteTxInlineOnly(t, txID) ==
    IF txID \in InlineIds(t)
    THEN t
    ELSE IF t.n < InlineCap
         THEN [t EXCEPT !.inline[t.n + 1] = txID, !.n = t.n + 1]
         ELSE [t EXCEPT !.overflow = t.overflow \cup {txID}, !.n = t.n + 1]

NoteWriteTx(t, txID) ==
    IF txID \in TallyIds(t)
    THEN t
    ELSE IF t.n < InlineCap
         THEN [t EXCEPT !.inline[t.n + 1] = txID, !.n = t.n + 1]
         ELSE [t EXCEPT !.overflow = t.overflow \cup {txID}, !.n = t.n + 1]

(***************************************************************************)
(* The tally is exact: no identifier is stored twice, the set is used only *)
(* once the array is full, and n is the number of identifiers stored.      *)
(***************************************************************************)
Exact(t) ==
    /\ \A i, j \in 1..Used(t) : t.inline[i] = t.inline[j] => i = j
    /\ InlineIds(t) \cap t.overflow = {}
    /\ t.overflow # {} => t.n > InlineCap
    /\ IsFiniteSet(TallyIds(t))
    /\ t.n = Cardinality(TallyIds(t))
=============================================================================
