------------------------------ MODULE Classifier ------------------------------
(***************************************************************************)
(* How the text of a statement is read: DefaultClassifier (src/classify.go) *)
(* and the token helpers of mycheck (src/mycheck/parse.go). A text is a    *)
(* sequence of tokens: a word (letter case is folded and the length of a   *)
(* word is not compared, so words are whole and in upper case), or one     *)
(* character that is no part of a word. Two words are never adjacent.      *)
(***************************************************************************)
EXTENDS Naturals, Sequences, FiniteSetsExt

NewLine == "newline"
Blank == {" ", NewLine}
Mark == {"-", "/", "*", "#", "="}

IsWord(x) == x \notin Blank \cup Mark

(***************************************************************************)
(* Tokens                                                                  *)
(***************************************************************************)

\* The comments that run to the end of the line, here and in mycheck.
Dashes == {<<"-", "-">>}
DashesAndHash == Dashes \cup {<<"#">>}

Occurs(q, s, i) == i + Len(s) <= Len(q) + 1 /\ SubSeq(q, i, i + Len(s) - 1) = s

\* The position after the first s at i or later; the end of q when there is none.
Past(q, s, i) ==
    LET at == {k \in i..Len(q) : Occurs(q, s, k)}
    IN IF at = {} THEN Len(q) + 1 ELSE Min(at) + Len(s)

\* Mutant: a block comment ends with its line.
StripLeadingLinewise(q, lineComments) ==
    LET start[i \in 1..Len(q) + 1] ==
          CASE i <= Len(q) /\ q[i] \in Blank -> start[i + 1]
            [] \E c \in lineComments \cup {<<"/", "*">>} : Occurs(q, c, i) ->
                 start[Past(q, <<NewLine>>, i)]
            [] OTHER -> i
    IN SubSeq(q, start[1], Len(q))

\* The search for the end of a block comment begins at its opening "/".
StripLeading(q, lineComments) ==
    LET start[i \in 1..Len(q) + 1] ==
          CASE i <= Len(q) /\ q[i] \in Blank -> start[i + 1]
            [] \E c \in lineComments : Occurs(q, c, i) -> start[Past(q, <<NewLine>>, i)]
            [] Occurs(q, <<"/", "*">>, i) -> start[Past(q, <<"*", "/">>, i)]
            [] OTHER -> i
    IN SubSeq(q, start[1], Len(q))

LeadingToken(q, lineComments) ==
    LET s == StripLeading(q, lineComments)
    IN IF s # <<>> /\ IsWord(s[1]) THEN s[1] ELSE ""

SecondToken(q, lineComments) ==
    LET s == StripLeading(q, lineComments)
    IN IF s # <<>> /\ IsWord(s[1]) THEN LeadingToken(Tail(s), lineComments) ELSE ""

\* containsWriteToken and containsToken: a word of W is anywhere in the text.
ContainsToken(q, W) == \E i \in DOMAIN q : q[i] \in W

(***************************************************************************)
(* DefaultClassifier                                                       *)
(***************************************************************************)
ReadLeader == {"SELECT", "SHOW", "EXPLAIN", "VALUES", "TABLE", "FETCH", "DECLARE"}
WriteLeader == {"INSERT", "UPDATE", "DELETE", "MERGE", "TRUNCATE", "REPLACE", "UPSERT",
                "COPY", "IMPORT", "CREATE", "ALTER", "DROP", "GRANT", "REVOKE",
                "COMMENT", "REFRESH", "CALL", "DO"}
ModifyingWord == {"INSERT", "UPDATE", "DELETE", "MERGE", "TRUNCATE", "REPLACE"}

\* Mutant: ROLLBACK TO ends the transaction as well.
DefaultClassifierEveryRollback(q) ==
    LET first == LeadingToken(q, Dashes)
        OneOf(W) == first \in W
    IN CASE OneOf(ReadLeader) -> "read"
         [] OneOf(WriteLeader) \/ (first = "WITH" /\ ContainsToken(q, ModifyingWord)) ->
              "write"
         [] OneOf({"BEGIN", "START"}) -> "begin"
         [] OneOf({"COMMIT", "END"}) -> "commit"
         [] OneOf({"ROLLBACK", "ABORT"}) -> "rollback"
         [] OTHER -> "other"

DefaultClassifier(q) ==
    LET first == LeadingToken(q, Dashes)
    IN CASE first \in ReadLeader -> "read"
         [] first \in WriteLeader -> "write"
         [] first \in {"BEGIN", "START"} -> "begin"
         [] first \in {"COMMIT", "END"} -> "commit"
         [] first \in {"ROLLBACK", "ABORT"} ->
              IF SecondToken(q, Dashes) = "TO" THEN "other" ELSE "rollback"
         [] first = "WITH" -> IF ContainsToken(q, ModifyingWord) THEN "write" ELSE "read"
         [] OTHER -> "other"

(***************************************************************************)
(* mycheck                                                                 *)
(***************************************************************************)
ImplicitCommitLeader ==
    {"CREATE", "ALTER", "DROP", "RENAME", "TRUNCATE", "GRANT", "REVOKE", "INSTALL",
     "UNINSTALL", "ANALYZE", "CHECK", "OPTIMIZE", "REPAIR", "FLUSH", "CACHE", "LOCK",
     "UNLOCK"}

IsImplicitCommit(q) ==
    LET first == LeadingToken(q, DashesAndHash)
    IN /\ first \in ImplicitCommitLeader
       /\ ~(first \in {"CREATE", "DROP"} /\ SecondToken(q, DashesAndHash) = "TEMPORARY")

\* rejectAutocommitChange, of one statement.
ChangesAutocommit(q) ==
    LeadingToken(q, DashesAndHash) = "SET" /\ ContainsToken(q, {"AUTOCOMMIT"})
=============================================================================
