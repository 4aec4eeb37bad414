------------------------------- MODULE ServerLog -------------------------------
(***************************************************************************)
(* How mycheck and pgcheck put the entries of a server log together from   *)
(* its lines (Parse of src/mycheck/parse.go and src/pgcheck/parse.go). The *)
(* servers (external) write an entry as a first line, which says what the  *)
(* entry is, and a line for every further line of its text. What the       *)
(* regular expressions tell of a line is given with its entry, and further *)
(* lines all go the same way. Bound: no further line of a MySQL entry looks *)
(* like the beginning of one or like the banner; those of PostgreSQL begin *)
(* with a tab.                                                             *)
(***************************************************************************)
EXTENDS Classifier

\* The first line of a text, and the newline and what comes after it.
LineEnd(text) ==
    CHOOSE k \in 0..Len(text) : /\ k = Len(text) \/ text[k + 1] = NewLine
                                /\ \A j \in 1..k : text[j] # NewLine
FirstLine(text) == SubSeq(text, 1, LineEnd(text))
Further(text) == SubSeq(text, LineEnd(text) + 1, Len(text))

(***************************************************************************)
(* What has been read: the text of the last statement, and what a further  *)
(* line is added to. tail stands for `continuing` and the last entry.      *)
(* An entry carries a "statement", or is an "other" entry of a connection  *)
(* (Prepare, Connect; a parse or bind phase, ERROR), or it is the "banner" *)
(* that the server writes of itself.                                       *)
(***************************************************************************)
Began(text) == [text |-> FirstLine(text), tail |-> "statement"]

Continued(read, lines) ==
    IF read.tail = "statement" THEN [read EXCEPT !.text = @ \o lines] ELSE read

\* Mutant: an entry without a statement does not take its further lines.
MyReadStatementsOnly(read, entry, text) ==
    CASE entry = "statement" -> Continued(Began(text), Further(text))
      [] entry = "other" -> Continued(read, Further(text))
      [] OTHER -> [read EXCEPT !.tail = "closed"]

\* mycheck: any entry may grow, and the banner ends the last one.
MyRead(read, entry, text) ==
    CASE entry = "statement" -> Continued(Began(text), Further(text))
      [] entry = "other" -> Continued([read EXCEPT !.tail = "other"], Further(text))
      [] OTHER -> [read EXCEPT !.tail = "closed"]

\* Mutant: a line that carries no statement leaves the last statement open.
PgReadKeepsContinuing(read, entry, text) ==
    IF entry = "statement" THEN Continued(Began(text), Further(text))
                           ELSE Continued(read, Further(text))

\* pgcheck: only statements may grow, and any line without a tab ends the last.
PgRead(read, entry, text) ==
    IF entry = "statement" THEN Continued(Began(text), Further(text))
                           ELSE Continued([read EXCEPT !.tail = "closed"], Further(text))
=============================================================================
