----------------------------- MODULE MCThrottle -----------------------------
(***************************************************************************)
(* Instances of the throttling reporter for TLC.                           *)
(***************************************************************************)
EXTENDS Throttle, ThrottleKey, TLC

OneExtension == {{"violations", "unbounded"}}

Bytes == {"a", "c3", "a9", "c2", "a0", " "}

\* One- and two-byte runes, two of them spaces.
Runes == {<<"a">>, <<"c3", "a9">>, <<" ">>, <<"c2", "a0">>}
SpaceRunes == {<<" ">>, <<"c2", "a0">>}

\* Reading a statement touches nothing of the reporter and starts afresh for
\* each report, so it is explored once, before the first report.
MCInit == Init /\ KeyInit
MCNext ==
    \/ query = <<>> /\ Next /\ UNCHANGED keyVars
    \/ clock = 0 /\ Reports = 0 /\ KeyNext /\ UNCHANGED vars
MCSpec == MCInit /\ [][MCNext]_<<vars, keyVars>>

Symmetry == Permutations(Caller) \cup Permutations(Key)
=============================================================================
