----------------------------- MODULE ThrottleKey -----------------------------
(***************************************************************************)
(* unboundedWriteKey (src/throttle.go): the key under which the reports of *)
(* an unbounded write are throttled, built rune by rune in a buffer of     *)
(* KeyLen bytes so that a long statement costs no more than a short one. A *)
(* rune is the sequence of its bytes; a byte that is not UTF-8 is a rune   *)
(* of its own.                                                             *)
(***************************************************************************)
EXTENDS Naturals, SequencesExt

CONSTANTS
    Byte, Blank,            \* bytes, and ' ', which the key has between words
    Rune, SpaceRune,        \* runes, and those that unicode.IsSpace accepts
    KeyLen,                 \* unboundedWriteKeyLen
    MaxRunes                \* bound: runes of a statement

ASSUME ThrottleKeyAssumption ==
    /\ Blank \in Byte
    /\ \A r \in Rune : r \in Seq(Byte) /\ r # <<>>
    /\ SpaceRune \subseteq Rune
    /\ KeyLen \in Nat \ {0} /\ MaxRunes \in Nat

VARIABLES
    query,                  \* the runes of the statement read so far
    key                     \* the buffer, and whether a space goes in first

keyVars == <<query, key>>

KeyInit ==
    /\ query = <<>>
    /\ key = [buf |-> <<>>, pendingSpace |-> FALSE]

IsSpace(r) == r \in SpaceRune

UpTo(bytes, n) == SubSeq(bytes, 1, IF Len(bytes) < n THEN Len(bytes) ELSE n)

IsFull == Len(key.buf) = KeyLen

\* Mutant: a space in front is pending as well.
AddPendsInFront(r) ==
    IF IsSpace(r) THEN [key EXCEPT !.pendingSpace = TRUE]
    ELSE [buf |-> UpTo(key.buf \o (IF key.pendingSpace THEN <<Blank>> ELSE <<>>) \o r, KeyLen),
          pendingSpace |-> FALSE]

\* A rune is added, or what of it the buffer takes after a pending space.
Add(r) ==
    IF IsSpace(r) THEN [key EXCEPT !.pendingSpace = key.buf # <<>>]
    ELSE [buf |-> UpTo(key.buf \o (IF key.pendingSpace THEN <<Blank>> ELSE <<>>) \o r, KeyLen),
          pendingSpace |-> FALSE]

\* The loop over the statement; once the buffer is full nothing more is read.
ReadRune(r) ==
    /\ Len(query) < MaxRunes
    /\ query' = Append(query, r)
    /\ key' = IF IsFull THEN key ELSE Add(r)

KeyNext == \E r \in Rune : ReadRune(r)

KeySpec == KeyInit /\ [][KeyNext]_keyVars

\* The rune begins a word, and not the first one.
BeginsNextWord(i) ==
    /\ ~IsSpace(query[i]) /\ i > 1 /\ IsSpace(query[i - 1])
    /\ \E j \in 1..(i - 1) : ~IsSpace(query[j])

Piece(i) ==
    IF IsSpace(query[i]) THEN <<>>
    ELSE (IF BeginsNextWord(i) THEN <<Blank>> ELSE <<>>) \o query[i]

\* The statement with one blank between words and none around them.
Normalized == FlattenSeq([i \in DOMAIN query |-> Piece(i)])

\* The key is "whitespace-normalized query text, truncated to
\* unboundedWriteKeyLen bytes" (throttle.go:214-215): it is neither longer, and
\* two layouts of one statement never have two keys, nor shorter, and statements
\* that differ within the limit never share one.
KeyIsNormalizedPrefix == key.buf = UpTo(Normalized, KeyLen)
=============================================================================
