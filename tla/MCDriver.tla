------------------------------ MODULE MCDriver ------------------------------
(***************************************************************************)
(* Instances of the driver middleware for TLC.                             *)
(***************************************************************************)
EXTENDS Driver, TLC

CONSTANTS g1, g2, c1, c2

\* The statement that an idle goroutine is done with is replaced by its next one;
\* until then it matters to ObservedOnce only.
View ==
    <<life, [g \in Caller |-> IF caller[g].pc = "idle"
                              THEN [caller[g] EXCEPT !.op = ObservedOnce]
                              ELSE caller[g]],
      clientVars, serverVars, historyVars>>

Symmetry == Permutations(Caller) \cup Permutations(Conn)
=============================================================================
