------------------------------- MODULE SqlText -------------------------------
(***************************************************************************)
(* How a statement may be written (SQL, external): its words, with blanks  *)
(* and comments before, between and after them. Left out, as code and      *)
(* server differ there: a block comment whose body begins with "/", one    *)
(* inside another, and comments that begin with "#". What MySQL does not   *)
(* take for a comment (one that begins with "/*!", or a "--" that no blank *)
(* follows) is not meant to be one here.                                   *)
(***************************************************************************)
EXTENDS Classifier

\* The tokens of q from a up to b, b excluded, are a blank, or a comment that
\* ends with its line or with the text, or one that ends where it says.
IsBlank(q, a, b) == b = a + 1 /\ q[a] \in Blank

IsLineComment(q, a, b) ==
    /\ a + 2 <= b /\ q[a] = "-" /\ q[a + 1] = "-"
    /\ \/ a + 2 < b /\ q[b - 1] = NewLine /\ \A k \in (a + 2)..(b - 2) : q[k] # NewLine
       \/ b = Len(q) + 1 /\ \A k \in (a + 2)..(b - 1) : q[k] # NewLine

IsBlockComment(q, a, b) ==
    /\ a + 4 <= b /\ q[a] = "/" /\ q[a + 1] = "*" /\ q[b - 2] = "*" /\ q[b - 1] = "/"
    /\ \A k \in (a + 1)..(b - 3) : ~(q[k] = "*" /\ q[k + 1] = "/")

IsGap(q, a, b) == IsBlank(q, a, b) \/ IsLineComment(q, a, b) \/ IsBlockComment(q, a, b)

\* Any number of these: the tokens from a up to b can be cut into gaps.
AreGaps(q, a, b) ==
    \E cuts \in SUBSET (a..b) :
        {a, b} \subseteq cuts /\ \A c \in cuts \ {b} : \E d \in cuts : IsGap(q, c, d)

\* The words of q, with their places; and gaps everywhere else.
IsWritten(q, words) ==
    \E at \in [DOMAIN words -> {i \in DOMAIN q : \E n \in DOMAIN words : q[i] = words[n]}] :
        /\ \A n \in DOMAIN words : q[at[n]] = words[n]
        /\ AreGaps(q, 1, at[1])
        /\ \A n \in DOMAIN words : n > 1 => AreGaps(q, at[n - 1] + 1, at[n])
        /\ AreGaps(q, at[Len(words)] + 1, Len(q) + 1)

\* A statement begins with a word, and if anything follows that is not a word,
\* it is no comment.
Leads(words, W) == words # <<>> /\ IsWord(words[1]) /\ words[1] \in W
Follows(words, x) == Len(words) > 1 /\ words[2] = x

\* What each command is, in words (the commands of CrossCheck). COMMIT AND CHAIN
\* and ROLLBACK WORK TO are left out.
IsCommand(cmd, words) ==
    /\ Len(words) > 1 => IsWord(words[2])
    /\ CASE cmd \in {"read", "beginMark", "endMark"} -> Leads(words, ReadLeader)
         [] cmd = "write" ->
              Leads(words, {"INSERT", "UPDATE", "DELETE", "MERGE", "REPLACE", "COPY", "CALL"})
         [] cmd = "cte" -> Leads(words, {"WITH"}) /\ ContainsToken(words, ModifyingWord)
         [] cmd = "readCte" -> Leads(words, {"WITH"}) /\ ~ContainsToken(words, ModifyingWord)
         [] cmd = "create" ->
              /\ Leads(words, {"CREATE", "ALTER", "DROP", "TRUNCATE", "GRANT", "REVOKE"})
              /\ ~Follows(words, "TEMPORARY")
         [] cmd = "temporary" -> Leads(words, {"CREATE", "DROP"}) /\ Follows(words, "TEMPORARY")
         [] cmd = "begin" -> Leads(words, {"BEGIN", "START"})
         [] cmd \in {"autocommitOff", "autocommitOn"} ->
              /\ Leads(words, {"SET"}) /\ ContainsToken(words, {"AUTOCOMMIT"})
              /\ words[Len(words)] \in IF cmd = "autocommitOn" THEN {"1", "ON"} ELSE {"0", "OFF"}
         [] cmd = "commit" -> Leads(words, {"COMMIT", "END"})
         [] cmd = "rollback" -> Leads(words, {"ROLLBACK", "ABORT"}) /\ ~Follows(words, "TO")
         [] cmd = "savepoint" -> Leads(words, {"SAVEPOINT", "RELEASE"})
         [] cmd = "rollbackTo" -> Leads(words, {"ROLLBACK"}) /\ Follows(words, "TO")
         [] OTHER -> FALSE

\* A text of a command; one that begins with WITH has no modifying word in a
\* comment, which DefaultClassifier would count.
IsTextOf(q, cmd, words) ==
    /\ IsCommand(cmd, words) /\ IsWritten(q, words)
    /\ cmd = "readCte" => ~ContainsToken(q, ModifyingWord)
=============================================================================
