--------------------------- MODULE CrossCheckProofs ---------------------------
(***************************************************************************)
(* Proofs about the two views of a scenario, for any number of connections *)
(* and statements, any texts and any entries in between, and any server    *)
(* whose statements are read as what they are; and that they are, wherever *)
(* they are SQL.                                                           *)
(***************************************************************************)
EXTENDS CrossCheck, SqlText, FiniteSetTheorems, SequenceTheorems, WellFoundedInduction, TLAPS

(***************************************************************************)
(* Reading the log                                                         *)
(***************************************************************************)

\* A set of naturals has a least element: the interval up to it has no smaller
\* one inside it.
LEMMA Least ==
    ASSUME NEW T, T \subseteq Nat, T # {}
    PROVE  \E k \in T : \A j \in T : k <= j
<1> DEFINE F == {I \in SUBSET Nat : \E k \in T : I = 0..k}
<1>1. F \subseteq FiniteSubsetsOf(Nat) /\ F # {}
  <2>1. ASSUME NEW I \in F
        PROVE  I \in FiniteSubsetsOf(Nat)
    <3>1. PICK k \in T : I = 0..k
      OBVIOUS
    <3>2. k \in Nat /\ IsFiniteSet(0..k)
      BY FS_Interval
    <3> QED BY <3>1, <3>2 DEF FiniteSubsetsOf
  <2>2. PICK k \in T : TRUE
    OBVIOUS
  <2>3. 0..k \in F
    BY <2>2
  <2> QED BY <2>1, <2>3
<1>2. IsWellFoundedOn(StrictSubsetOrdering(Nat), FiniteSubsetsOf(Nat))
  BY FS_StrictSubsetOrderingWellFounded
<1> HIDE DEF F
<1>3. PICK I \in F : \A J \in F : <<J, I>> \notin StrictSubsetOrdering(Nat)
  BY <1>1, <1>2, WFMin
<1> USE DEF F
<1>4. PICK k \in T : I = 0..k
  OBVIOUS
<1>5. ASSUME NEW j \in T, j < k
      PROVE  FALSE
  <2>1. 0..j \in F /\ 0..j \subseteq I /\ 0..j # I
    <3>1. k \in Nat /\ j \in Nat
      OBVIOUS
    <3>2. k \in 0..k /\ k \notin 0..j
      BY <3>1, <1>5
    <3> QED BY <3>1, <3>2, <1>4, <1>5
  <2> QED BY <2>1, <1>3 DEF StrictSubsetOrdering
<1> QED BY <1>5

\* The first line and what follows it are the text.
LEMMA LinesAreText ==
    ASSUME NEW text \in Seq(STRING)
    PROVE  FirstLine(text) \o Further(text) = text
<1> DEFINE P(k) == k = Len(text) \/ text[k + 1] = NewLine
           T == {k \in 0..Len(text) : P(k)}
           k0 == LineEnd(text)
<1>1. Len(text) \in Nat /\ Len(text) \in T
  OBVIOUS
<1>2. T \subseteq Nat
  BY <1>1
<1> HIDE DEF T
<1>3. PICK k \in T : \A j \in T : k <= j
  BY <1>1, <1>2, Least
<1> USE DEF T
<1>4. \A j \in 1..k : text[j] # NewLine
  <2> SUFFICES ASSUME NEW j \in 1..k, text[j] = NewLine PROVE FALSE
    OBVIOUS
  <2>1. j - 1 \in T
    BY <1>1
  <2> QED BY <2>1, <1>3
<1>5. k0 \in 0..Len(text)
  BY <1>3, <1>4 DEF LineEnd
<1> HIDE DEF k0
<1>6. SubSeq(text, 1, k0) \o SubSeq(text, k0 + 1, Len(text)) = text
  <2> DEFINE a == SubSeq(text, 1, k0)
             b == SubSeq(text, k0 + 1, Len(text))
  <2>1. a \in Seq(STRING) /\ Len(a) = k0 /\ \A i \in 1..k0 : a[i] = text[i]
    BY <1>1, <1>5
  <2>2. b \in Seq(STRING) /\ Len(b) = Len(text) - k0
        /\ \A i \in 1..Len(text) - k0 : b[i] = text[k0 + i]
    BY <1>1, <1>5
  <2> HIDE DEF a, b
  <2>3. a \o b \in Seq(STRING) /\ Len(a \o b) = Len(text)
    BY <1>1, <1>5, <2>1, <2>2
  <2>4. ASSUME NEW i \in 1..Len(text)
        PROVE  (a \o b)[i] = text[i]
    <3>1. CASE i <= k0
      BY <3>1, <1>1, <1>5, <2>1, <2>2
    <3>2. CASE i > k0
      <4>1. PICK j \in 1..Len(text) - k0 : k0 + j = i /\ j = i - k0
        BY <3>2, <1>1, <1>5
      <4>2. (a \o b)[i] = b[j]
        BY <4>1, <3>2, <1>1, <1>5, <2>1, <2>2
      <4>3. b[j] = text[k0 + j]
        BY <2>2
      <4> QED BY <4>1, <4>2, <4>3
    <3>3. i <= k0 \/ i > k0
      BY <1>1, <1>5
    <3> QED BY <3>1, <3>2, <3>3
  <2>5. a \o b = text
    <3>1. \A i \in 1..Len(a \o b) : (a \o b)[i] = text[i]
      BY <2>3, <2>4
    <3> QED BY <3>1, <2>3, SeqEqual
  <2> QED BY <2>5 DEF a, b
<1> QED BY <1>6 DEF FirstLine, Further, k0

\* A statement is read with all its lines, and may grow.
LEMMA ReadStatement ==
    ASSUME NEW text \in Seq(STRING)
    PROVE  ReadOn("statement", text) = [text |-> text, tail |-> "statement"]
<1>1. Continued(Began(text), Further(text)) = [text |-> text, tail |-> "statement"]
  BY LinesAreText DEF Continued, Began
<1> QED BY <1>1 DEF ReadOn, MyRead, PgRead

\* Another entry, or the banner, leaves the last statement as it is.
LEMMA ReadOther ==
    ASSUME NEW entry \in {"other", "banner"}, NEW text
    PROVE  /\ stmts # <<>> => ReadOn(entry, text).text = stmts[Len(stmts)].text
           /\ ReadOn(entry, text).tail \in {"other", "closed"}
<1> DEFINE last == IF stmts = <<>> THEN <<>> ELSE stmts[Len(stmts)].text
           read == [text |-> last, tail |-> tail]
<1>1. /\ MyRead(read, entry, text).text = last
      /\ MyRead(read, entry, text).tail \in {"other", "closed"}
  BY DEF MyRead, Continued
<1>2. PgRead(read, entry, text).text = last /\ PgRead(read, entry, text).tail = "closed"
  BY DEF PgRead, Continued
<1> QED BY <1>1, <1>2 DEF ReadOn

(***************************************************************************)
(* Types, and what is known of each statement of the log                   *)
(***************************************************************************)
Kinds == {"read", "write", "begin", "commit", "rollback", "other"}
Transactions == Nat \X Thread \X Nat
Identities ==
    {NoIdentity} \cup ({"vxid"} \X (Thread \X Nat)) \cup ({"xid"} \X Transactions)
      \cup (Thread \X {"tx", "stmt"} \X Nat)

Statements == [text : Seq(STRING), kind : Kinds, cmd : Command, id : Identities,
               tx : Transactions, unit : Nat]

WorldOK ==
    /\ world \in DOMAIN Instances
    /\ captures \in World.captures
    /\ logged \in {"before", "after"}
    /\ MySQL => logged = "before"
    /\ MySQL => \A t \in Thread : pipeline[t] = "none"

\* Each statement was executed, has the text it was sent with, and the kind that
\* the text has.
LogOK ==
    /\ stmts \in Seq(Statements)
    /\ \A i \in Whole : /\ stmts[i].cmd \in DOMAIN World.texts
                        /\ stmts[i].text \in World.texts[stmts[i].cmd]
                        /\ stmts[i].kind = DefaultClassifier(stmts[i].text)

Base == TypeOK /\ WorldOK /\ LogOK

LEMMA KindType == \A text : DefaultClassifier(text) \in Kinds
BY DEF DefaultClassifier, Kinds

\* What Execute adds to the log.
Logged(t, cmd, text) ==
    [text |-> text, kind |-> DefaultClassifier(text), cmd |-> cmd,
     id |-> Identity(t, cmd, DefaultClassifier(text), text),
     tx |-> ServerTx(t, cmd), unit |-> session'[t]]

LEMMA Worlds ==
    ASSUME WorldOK
    PROVE  /\ DOMAIN World.texts \subseteq Command
           /\ \A cmd \in DOMAIN World.texts : World.texts[cmd] \subseteq Seq(STRING)
           /\ World.captures \subseteq SUBSET {"vxid", "xid"}
           /\ World.dialect \in {"mysql", "postgres"}
           /\ ~MySQL => {} \notin World.captures
           /\ ~MySQL => \A cmd \in DOMAIN World.texts : ~SetsAutocommit(cmd)
           /\ World.batches => ~MySQL
           /\ World.runs \in Nat
BY CrossCheckAssumption DEF WorldOK, World, MySQL

LEMMA ExecuteLogs ==
    ASSUME Base, NEW t \in Thread, NEW cmd \in DOMAIN World.texts,
           NEW text \in World.texts[cmd], Execute(t, cmd, text)
    PROVE  /\ stmts' = Append(stmts, Logged(t, cmd, text))
           /\ parsed' = [parsed EXCEPT ![t] = ThreadAfter(t, DefaultClassifier(text), text)]
           /\ tail' = "statement"
<1>1. text \in Seq(STRING)
  BY Worlds DEF Base
<1>2. ReadOn("statement", text) = [text |-> text, tail |-> "statement"]
  BY <1>1, ReadStatement
<1>3. /\ tail' = "statement"
      /\ parsed' = [parsed EXCEPT ![t] = ThreadAfter(t, DefaultClassifier(text), text)]
  <2> DEFINE R(read) == ThreadAfter(t, DefaultClassifier(read.text), read.text)
  <2>1. /\ tail' = ReadOn("statement", text).tail
        /\ parsed' = [parsed EXCEPT ![t] = R(ReadOn("statement", text))]
    BY DEF Execute
  <2>2. R([text |-> text, tail |-> "statement"])
          = ThreadAfter(t, DefaultClassifier(text), text)
    OBVIOUS
  <2>3. tail' = "statement"
    BY <1>2, <2>1
  <2> HIDE DEF R
  <2>4. parsed' = [parsed EXCEPT ![t] = R([text |-> text, tail |-> "statement"])]
    BY <1>2, <2>1
  <2> QED BY <2>2, <2>3, <2>4
<1>4. stmts' = Append(stmts, Logged(t, cmd, text))
  <2> DEFINE R(read) == [text |-> read.text, kind |-> DefaultClassifier(read.text), cmd |-> cmd,
                         id |-> Identity(t, cmd, DefaultClassifier(read.text), read.text),
                         tx |-> ServerTx(t, cmd), unit |-> session'[t]]
  <2>1. stmts' = Append(stmts, R(ReadOn("statement", text)))
    BY DEF Execute
  <2>2. R([text |-> text, tail |-> "statement"]) = Logged(t, cmd, text)
    BY DEF Logged
  <2> HIDE DEF R
  <2> QED BY <1>2, <2>1, <2>2
<1> QED BY <1>3, <1>4

\* The log as it was, and one statement more.
LEMMA LogGrows ==
    ASSUME NEW log \in Seq(Statements), NEW s \in Statements
    PROVE  LET longer == Append(log, s)
           IN /\ longer \in Seq(Statements)
              /\ Len(log) \in Nat /\ DOMAIN log = 1..Len(log)
              /\ DOMAIN longer = 1..Len(log) + 1
              /\ DOMAIN longer = DOMAIN log \cup {Len(log) + 1}
              /\ Len(log) + 1 \notin DOMAIN log
              /\ \A i \in DOMAIN log : longer[i] = log[i]
              /\ longer[Len(log) + 1] = s
OBVIOUS

LEMMA NothingLogged ==
    ASSUME Base, NEW entry \in {"other", "banner"}, NEW text, Logs(entry, text)
    PROVE  stmts' = stmts /\ tail' \in {"other", "closed"}
<1>1. tail' \in {"other", "closed"}
  BY ReadOther DEF Logs
<1>2. stmts \in Seq(Statements) /\ Len(stmts) \in Nat
  BY DEF Base, LogOK
<1>3. CASE Len(stmts) = 0
  BY <1>1, <1>3 DEF Logs
<1>4. CASE Len(stmts) # 0
  <2> DEFINE n == Len(stmts)
  <2>1. n \in Whole /\ stmts # <<>> /\ stmts[n] \in Statements
    BY <1>2, <1>4 DEF Whole
  <2>2. ReadOn(entry, text).text = stmts[n].text
    BY <2>1, ReadOther
  <2>3. DefaultClassifier(stmts[n].text) = stmts[n].kind
    BY <2>1 DEF Base, LogOK
  <2>4. stmts' = [stmts EXCEPT ![n].text = stmts[n].text, ![n].kind = stmts[n].kind]
    BY <1>4, <2>2, <2>3 DEF Logs
  <2>5. PICK r : r = stmts[n]
    OBVIOUS
  <2>6. [r EXCEPT !.text = r.text, !.kind = r.kind] = r
    BY <2>1, <2>5 DEF Statements
  <2>7. stmts' = [stmts EXCEPT ![n] = [r EXCEPT !.text = r.text, !.kind = r.kind]]
    BY <2>1, <2>4, <2>5
  <2> QED BY <1>1, <1>2, <2>1, <2>5, <2>6, <2>7
<1> QED BY <1>2, <1>3, <1>4

ServerStates == [n : Nat, open : BOOLEAN, wrote : BOOLEAN, autocommit : BOOLEAN,
                 saved : BOOLEAN]
ThreadStates == [inTx : BOOLEAN, txSeq : Nat, stmtSeq : Nat]

\* What is appended to the log has its type.
LEMMA LoggedType ==
    ASSUME Base, NEW t \in Thread, NEW cmd \in DOMAIN World.texts,
           NEW text \in World.texts[cmd], session'[t] \in Nat
    PROVE  /\ Logged(t, cmd, text) \in Statements
           /\ ServerAfter(t, cmd) \in ServerStates
           /\ ThreadAfter(t, DefaultClassifier(text), text) \in ThreadStates
<1>1. text \in Seq(STRING) /\ cmd \in Command
  BY Worlds DEF Base
<1>2. DefaultClassifier(text) \in Kinds
  BY KindType
<1>3. server[t] \in ServerStates /\ parsed[t] \in ThreadStates /\ run \in Nat
  BY Worlds DEF Base, TypeOK, ServerStates, ThreadStates
<1>4. ServerAfter(t, cmd) \in ServerStates
  <2>1. StaysOpen(t, cmd) \in BOOLEAN /\ StartsTx(t, cmd) \in BOOLEAN /\ Modifies(cmd) \in BOOLEAN
    BY DEF StaysOpen, StartsTx, Modifies
  <2>2. (IF StartsTx(t, cmd) THEN server[t].n + 1 ELSE server[t].n) \in Nat
    BY <1>3 DEF ServerStates
  <2> QED BY <1>3, <2>1, <2>2 DEF ServerAfter, ServerStates
<1>5. ThreadAfter(t, DefaultClassifier(text), text) \in ThreadStates
  <2>1. StaysInTx(t, DefaultClassifier(text), text) \in BOOLEAN
    BY DEF StaysInTx
  <2> QED BY <1>3, <2>1 DEF ThreadAfter, ThreadStates
<1>6. ServerTx(t, cmd) \in Transactions
  BY <1>3, <1>4 DEF ServerTx, Transactions, ServerStates
<1>7. Identity(t, cmd, DefaultClassifier(text), text) \in Identities
  <2>1. MyIdentity(t, DefaultClassifier(text), text) \in Identities
    BY <1>3 DEF MyIdentity, Identities, ThreadStates
  <2>2. Vxid(t, cmd) \in Thread \X Nat
    BY <1>4 DEF Vxid, ServerStates
  <2>3. PgIdentity(t, cmd) \in Identities
    BY <1>6, <2>2 DEF PgIdentity, Identities
  <2> QED BY <2>1, <2>3 DEF Identity
<1> QED BY <1>1, <1>2, <1>4, <1>5, <1>6, <1>7 DEF Logged, Statements

LEMMA BaseInit == Init => Base
<1> SUFFICES ASSUME Init PROVE Base
  OBVIOUS
<1>1. WorldOK
  BY DEF Init, WorldOK
<1>2. LogOK
  BY DEF Init, LogOK, Whole
<1>3. TypeOK
  BY <1>1, Worlds DEF Init, TypeOK, Fresh, Unseen
<1> QED BY <1>1, <1>2, <1>3 DEF Base

LEMMA TransactionEnds ==
    ASSUME NEW states \in [Thread -> ServerStates], NEW t \in Thread
    PROVE  [states EXCEPT ![t].open = FALSE] \in [Thread -> ServerStates]
<1>1. [states[t] EXCEPT !.open = FALSE] \in ServerStates
  BY DEF ServerStates
<1> QED BY <1>1

LEMMA ConfigSame ==
    ASSUME WorldOK, UNCHANGED configVars, MySQL => pipeline' = pipeline
    PROVE  WorldOK' /\ World' = World /\ (MySQL' <=> MySQL)
BY DEF WorldOK, configVars, World, MySQL

LEMMA LogSame == ASSUME LogOK, stmts' = stmts, World' = World PROVE LogOK'
BY DEF LogOK, Whole

LEMMA BaseStep == Base /\ [Next]_vars => Base'
<1> SUFFICES ASSUME Base, [Next]_vars PROVE Base'
  OBVIOUS
<1> USE DEF Base
<1>0. ASSUME UNCHANGED vars
      PROVE  Base'
  <2>1. UNCHANGED configVars /\ pipeline' = pipeline /\ stmts' = stmts
    BY <1>0 DEF vars, batchVars
  <2>2. TypeOK'
    BY <1>0, <2>1, ConfigSame DEF TypeOK, vars, clientVars, batchVars
  <2> QED BY <2>1, <2>2, ConfigSame, LogSame
<1>1. ASSUME NEW t \in Thread, NEW cmd \in DOMAIN World.texts,
             NEW text \in World.texts[cmd], Execute(t, cmd, text)
      PROVE  Base'
  <2>1. /\ UNCHANGED <<configVars, run, gone, pipeline, implicitBatch>>
        /\ server' = [server EXCEPT ![t] = ServerAfter(t, cmd)]
        /\ SessionTracks(t, DefaultClassifier(text))
    BY <1>1 DEF Execute, batchVars
  <2>2. WorldOK' /\ World' = World
    BY <2>1, ConfigSame
  <2>3. txSeq' \in Nat /\ session' \in [Thread -> 0..txSeq']
    <3>1. txSeq \in Nat /\ txSeq' \in {txSeq, txSeq + 1} /\ session \in [Thread -> 0..txSeq]
      BY <2>1 DEF SessionTracks, TypeOK
    <3> DEFINE kind == DefaultClassifier(text)
               opens == kind = "begin" /\ session[t] = 0
               u == CASE opens -> txSeq + 1 [] Ended(kind) -> 0 [] OTHER -> session[t]
    <3>2. /\ u \in {txSeq + 1, 0, session[t]} /\ (u = txSeq + 1 => txSeq' = txSeq + 1)
          /\ session' = [session EXCEPT ![t] = u]
      <4>1. session' = [session EXCEPT ![t] = u]
        BY <2>1 DEF SessionTracks
      <4>2. opens => u = txSeq + 1 /\ txSeq' = txSeq + 1
        BY <2>1 DEF SessionTracks, Ended
      <4>3. ~opens => u \in {0, session[t]}
        OBVIOUS
      <4>4. session[t] \in 0..txSeq
        BY <3>1
      <4>5. ~opens => u # txSeq + 1
        BY <3>1, <4>3, <4>4
      <4> HIDE DEF opens, u
      <4> QED BY <4>1, <4>2, <4>3, <4>5
    <3> HIDE DEF u
    <3>3. 0..txSeq \subseteq 0..txSeq' /\ session[t] \in 0..txSeq
      BY <3>1
    <3>4. u \in 0..txSeq'
      BY <3>1, <3>2, <3>3
    <3> QED BY <3>1, <3>2, <3>3, <3>4
  <2>4. session'[t] \in Nat
    BY <2>3
  <2>5. /\ Logged(t, cmd, text) \in Statements /\ ServerAfter(t, cmd) \in ServerStates
        /\ ThreadAfter(t, DefaultClassifier(text), text) \in ThreadStates
    BY <2>4, LoggedType
  <2>6. /\ stmts' = Append(stmts, Logged(t, cmd, text)) /\ tail' = "statement"
        /\ parsed' = [parsed EXCEPT ![t] = ThreadAfter(t, DefaultClassifier(text), text)]
    BY <1>1, ExecuteLogs
  <2>7. LogOK'
    <3> DEFINE s == Logged(t, cmd, text)
    <3>1. s.cmd = cmd /\ s.text = text /\ s.kind = DefaultClassifier(text)
      BY DEF Logged
    <3> HIDE DEF s
    <3>2. /\ stmts' \in Seq(Statements) /\ DOMAIN stmts' = Whole \cup {Len(stmts) + 1}
          /\ \A i \in Whole : stmts'[i] = stmts[i]
          /\ stmts'[Len(stmts) + 1] = s
      BY <2>5, <2>6, LogGrows DEF LogOK, s, Whole
    <3> QED BY <2>2, <3>1, <3>2 DEF LogOK, Whole
  <2>8. parsed' \in [Thread -> ThreadStates]
        /\ \A u \in Thread : parsed'[u].inTx => parsed'[u].txSeq > 0
    <3>1. parsed \in [Thread -> ThreadStates]
          /\ \A u \in Thread : parsed[u].inTx => parsed[u].txSeq > 0
      BY DEF TypeOK, ThreadStates
    <3> DEFINE r == ThreadAfter(t, DefaultClassifier(text), text)
    <3>2. r.inTx => r.txSeq > 0
      BY <3>1 DEF ThreadAfter, StaysInTx, ThreadStates
    <3> HIDE DEF r
    <3>3. r \in ThreadStates /\ parsed' = [parsed EXCEPT ![t] = r]
      BY <2>5, <2>6 DEF r
    <3> QED BY <3>1, <3>2, <3>3
  <2>9. server' \in [Thread -> ServerStates]
    BY <2>1, <2>5 DEF TypeOK, ServerStates
  <2>10. TypeOK'
    BY <2>1, <2>2, <2>3, <2>6, <2>8, <2>9 DEF TypeOK, ThreadStates, ServerStates
  <2> QED BY <2>2, <2>7, <2>10
<1>2. ASSUME NEW t \in Thread, BatchStart(t)
      PROVE  Base'
  <2>1. /\ UNCHANGED <<configVars, run, server, gone, parsed, tail, stmts>>
        /\ pipeline' \in [Thread -> {"none", "own", "joined"}]
        /\ implicitBatch' \subseteq Thread
    BY <1>2 DEF BatchStart, TypeOK
  <2>2. ~MySQL
    BY <1>2, Worlds DEF BatchStart
  <2>3. WorldOK' /\ World' = World
    BY <2>1, <2>2, ConfigSame
  <2>4. txSeq' \in Nat /\ session' \in [Thread -> 0..txSeq']
    <3>1. txSeq \in Nat /\ session \in [Thread -> 0..txSeq] /\ 0..txSeq \subseteq 0..(txSeq + 1)
      BY DEF TypeOK
    <3>2. \/ txSeq' = txSeq + 1 /\ session' = [session EXCEPT ![t] = txSeq + 1]
          \/ txSeq' = txSeq /\ session' = session
      BY <1>2 DEF BatchStart
    <3> QED BY <3>1, <3>2
  <2> QED BY <2>1, <2>3, <2>4, LogSame DEF TypeOK
<1>3. ASSUME NEW t \in Thread, BatchEnd(t)
      PROVE  Base'
  <2>1. /\ UNCHANGED <<configVars, run, gone, parsed, tail, stmts, txSeq>>
        /\ pipeline' = [pipeline EXCEPT ![t] = "none"]
        /\ implicitBatch' \subseteq Thread
    BY <1>3 DEF BatchEnd, TypeOK
  <2>4. session' \in [Thread -> 0..txSeq]
    BY <1>3 DEF BatchEnd, TypeOK
  <2>5. server' \in [Thread -> ServerStates]
    BY <1>3, TransactionEnds DEF BatchEnd, TypeOK, ServerStates
  <2>2. ~MySQL
    BY <1>3 DEF BatchEnd, WorldOK
  <2>3. WorldOK' /\ World' = World
    BY <2>1, <2>2, ConfigSame
  <2> QED BY <2>1, <2>3, <2>4, <2>5, LogSame DEF TypeOK, ServerStates
<1>4. ASSUME NEW t \in Thread, ConnectionEnds(t), \/ UNCHANGED parsed
                                                 \/ parsed' = [parsed EXCEPT ![t].inTx = FALSE]
      PROVE  Base'
  <2>1. /\ UNCHANGED <<configVars, run, tail, stmts, txSeq>>
        /\ pipeline' = [pipeline EXCEPT ![t] = "none"] /\ gone' = gone \cup {t}
        /\ implicitBatch' \subseteq Thread
    BY <1>4 DEF ConnectionEnds, TypeOK
  <2>5. session' \in [Thread -> 0..txSeq]
    BY <1>4 DEF ConnectionEnds, TypeOK
  <2>6. server' \in [Thread -> ServerStates]
    BY <1>4, TransactionEnds DEF ConnectionEnds, TypeOK, ServerStates
  <2>2. MySQL => pipeline' = pipeline
    BY <2>1 DEF WorldOK, TypeOK
  <2>3. WorldOK' /\ World' = World
    BY <2>1, <2>2, ConfigSame
  <2>4. parsed' \in [Thread -> ThreadStates]
        /\ \A u \in Thread : parsed'[u].inTx => parsed'[u].txSeq > 0
    <3>1. parsed \in [Thread -> ThreadStates]
          /\ \A u \in Thread : parsed[u].inTx => parsed[u].txSeq > 0
      BY DEF TypeOK, ThreadStates
    <3>2. ASSUME parsed' = [parsed EXCEPT ![t].inTx = FALSE]
          PROVE  /\ \A u \in Thread \ {t} : parsed'[u] = parsed[u]
                 /\ parsed'[t] \in ThreadStates /\ ~parsed'[t].inTx
                 /\ parsed' \in [Thread -> ThreadStates]
      <4>1. PICK r : r = [parsed[t] EXCEPT !.inTx = FALSE]
        OBVIOUS
      <4>2. r \in ThreadStates /\ ~r.inTx
        BY <3>1, <4>1 DEF ThreadStates
      <4>3. parsed' = [parsed EXCEPT ![t] = r]
        BY <3>2, <4>1
      <4> QED BY <3>1, <4>2, <4>3
    <3> QED BY <1>4, <3>1, <3>2
  <2> QED BY <2>1, <2>3, <2>4, <2>5, <2>6, LogSame DEF TypeOK, ServerStates, ThreadStates
<1>5. ASSUME NEW text \in World.noise, LogOther(text)
      PROVE  Base'
  <2>1. stmts' = stmts /\ tail' \in {"other", "closed"}
    BY <1>5, NothingLogged DEF LogOther
  <2>2. UNCHANGED <<configVars, run, server, gone, parsed, session, txSeq, pipeline, implicitBatch>>
    BY <1>5 DEF LogOther, clientVars, batchVars
  <2>3. WorldOK' /\ World' = World
    BY <2>2, ConfigSame
  <2> QED BY <2>1, <2>2, <2>3, LogSame DEF TypeOK
<1>6. ASSUME Restart
      PROVE  Base'
  <2>1. stmts' = stmts /\ tail' \in {"other", "closed"}
    BY <1>6, NothingLogged DEF Restart
  <2>2. /\ UNCHANGED <<configVars, parsed, txSeq>>
        /\ run < World.runs /\ run' = run + 1 /\ gone' = {} /\ implicitBatch' = {}
        /\ server' = [u \in Thread |-> Fresh] /\ session' = [u \in Thread |-> 0]
        /\ pipeline' = [u \in Thread |-> "none"]
    BY <1>6 DEF Restart
  <2>3. WorldOK' /\ World' = World
    BY <2>2 DEF WorldOK, configVars, World, MySQL
  <2>4. run' \in 1..World.runs
    BY <2>2, Worlds DEF TypeOK
  <2> QED BY <2>1, <2>2, <2>3, <2>4, LogSame DEF TypeOK, Fresh
<1> QED BY <1>0, <1>1, <1>2, <1>3, <1>4, <1>5, <1>6 DEF Next, Quit, Lose

\* Every variable has its type in every reachable state.
THEOREM TypeCorrect == Spec => []TypeOK
<1>1. Init => Base
  BY BaseInit
<1>2. Base /\ [Next]_vars => Base'
  BY BaseStep
<1>3. Base => TypeOK
  BY DEF Base
<1> QED BY <1>1, <1>2, <1>3, PTL DEF Spec

(***************************************************************************)
(* Counting                                                                *)
(***************************************************************************)

\* A function has finitely many values on a finite set.
LEMMA FiniteValues ==
    ASSUME NEW I, IsFiniteSet(I), NEW f
    PROVE  IsFiniteSet({f[i] : i \in I}) /\ Cardinality({f[i] : i \in I}) \in Nat
<1> DEFINE F == {f[i] : i \in I}
           ff == [i \in I |-> f[i]]
<1>1. ff \in Surjection(I, F)
  BY DEF Surjection
<1>2. IsFiniteSet(F)
  <2> HIDE DEF ff, F
  <2> QED BY <1>1, FS_Surjection
<1>3. Cardinality(F) \in Nat
  <2> HIDE DEF F
  <2> QED BY <1>2, FS_CardinalityType
<1> QED BY <1>2, <1>3

\* Where f tells indices apart only if g does, it has no more values than g.
LEMMA FewerValues ==
    ASSUME NEW I, IsFiniteSet(I), NEW f, NEW g,
           \A i, j \in I : g[i] = g[j] => f[i] = f[j]
    PROVE  Cardinality({f[i] : i \in I}) <= Cardinality({g[i] : i \in I})
<1> DEFINE F == {f[i] : i \in I}
           G == {g[i] : i \in I}
           h == [y \in G |-> f[CHOOSE i \in I : g[i] = y]]
<1>1. IsFiniteSet(G)
  BY FiniteValues
<1>2. h \in Surjection(G, F)
  <2>1. ASSUME NEW y \in G
        PROVE  h[y] \in F
    BY DEF F
  <2>2. ASSUME NEW x \in F
        PROVE  \E y \in G : h[y] = x
    <3>1. PICK i \in I : f[i] = x
      OBVIOUS
    <3>2. PICK j \in I : /\ j = CHOOSE k \in I : g[k] = g[i]
                         /\ g[j] = g[i]
      BY <3>1
    <3>3. g[i] \in G /\ h[g[i]] = f[j]
      BY <3>1, <3>2
    <3> QED BY <3>1, <3>2, <3>3
  <2>3. h \in [G -> F]
    BY <2>1
  <2> QED BY <2>2, <2>3 DEF Surjection
<1>3. Cardinality(F) <= Cardinality(G)
  <2> HIDE DEF h, F, G
  <2> QED BY <1>1, <1>2, FS_Surjection
<1> QED BY <1>3

\* Where f and g tell the same indices apart, they have as many values.
LEMMA SameValues ==
    ASSUME NEW I, IsFiniteSet(I), NEW f, NEW g,
           \A i, j \in I : f[i] = f[j] <=> g[i] = g[j]
    PROVE  Cardinality({f[i] : i \in I}) = Cardinality({g[i] : i \in I})
<1> DEFINE F == {f[i] : i \in I}
           G == {g[i] : i \in I}
<1>1. IsFiniteSet(F) /\ Cardinality(F) \in Nat
  BY FiniteValues
<1>2. IsFiniteSet(G) /\ Cardinality(G) \in Nat
  BY FiniteValues
<1>3. Cardinality(F) <= Cardinality(G)
  BY FewerValues
<1>4. Cardinality(G) <= Cardinality(F)
  BY FewerValues
<1> HIDE DEF F, G
<1>5. Cardinality(F) = Cardinality(G)
  BY <1>1, <1>2, <1>3, <1>4
<1> QED BY <1>5 DEF F, G

\* Disjoint sets, counted together.
LEMMA DisjointUnion ==
    ASSUME NEW S, NEW T, IsFiniteSet(S), IsFiniteSet(T), S \cap T = {}
    PROVE  Cardinality(S \cup T) = Cardinality(S) + Cardinality(T)
<1>1. Cardinality({}) = 0 /\ Cardinality(S) \in Nat /\ Cardinality(T) \in Nat
  BY FS_EmptySet, FS_CardinalityType
<1>2. Cardinality(S \cup T) = Cardinality(S) + Cardinality(T) - Cardinality(S \cap T)
  BY FS_Union
<1> DEFINE both == Cardinality(S \cup T)
           one == Cardinality(S)
           other == Cardinality(T)
<1>3. both = one + other - 0
  BY <1>1, <1>2
<1> HIDE DEF both, one, other
<1>4. both = one + other
  BY <1>1, <1>3 DEF one, other
<1> QED BY <1>4 DEF both, one, other

(***************************************************************************)
(* What the kinds say                                                      *)
(***************************************************************************)

\* Kinds, and the tests of mycheck, say what the server did.
LEMMA KindsRight ==
    ASSUME Base, TextsRead, NEW i \in Whole
    PROVE  /\ stmts[i].kind = "write" <=> Modifies(stmts[i].cmd)
           /\ stmts[i].cmd = "autocommitOff" => MySQL /\ ChangesAutocommit(stmts[i].text)
<1>1. /\ stmts[i].kind = "write" <=> Modifies(stmts[i].cmd)
      /\ MySQL => (ChangesAutocommit(stmts[i].text) <=> SetsAutocommit(stmts[i].cmd))
  BY DEF Base, LogOK, TextsRead, ReadRight, MySQL, World
<1>2. ~MySQL => ~SetsAutocommit(stmts[i].cmd)
  BY Worlds DEF Base, LogOK
<1>3. stmts[i].cmd = "autocommitOff" => SetsAutocommit(stmts[i].cmd)
  BY DEF SetsAutocommit
<1> QED BY <1>1, <1>2, <1>3

LEMMA SameWrites ==
    ASSUME Base, TextsRead, NEW S, S \subseteq Whole
    PROVE  WritesAmong(S) = ModifiesAmong(S)
BY KindsRight DEF WritesAmong, ModifiesAmong

LEMMA FiniteLog ==
    ASSUME Base, NEW S, S \subseteq Whole
    PROVE  IsFiniteSet(S)
<1>1. Whole = 1..Len(stmts) /\ Len(stmts) \in Nat
  BY DEF Base, LogOK, Whole
<1>2. IsFiniteSet(Whole)
  BY <1>1, FS_Interval
<1> QED BY <1>2, FS_Subset

(***************************************************************************)
(* From attributions to counts                                             *)
(***************************************************************************)
Writing == ModifiesAmong(Whole)

\* What the server ran in one transaction the client counts as one unit at most.
TxInUnit ==
    \A i, j \in Writing :
        stmts[i].tx = stmts[j].tx =>
            stmts[i].unit = stmts[j].unit /\ (stmts[i].unit = 0 => i = j)

\* What the client takes for one unit the server ran in one transaction.
UnitInTx ==
    \A i, j \in Writing :
        stmts[i].unit = stmts[j].unit /\ stmts[i].unit # 0 => stmts[i].tx = stmts[j].tx

\* Statements within a unit, and statements on their own, are counted apart.
LEMMA Counts ==
    ASSUME Base, TextsRead, TxInUnit
    PROVE  /\ ClientUnits(Whole) <= ServerUnits(Whole)
           /\ UnitInTx => ClientUnits(Whole) = ServerUnits(Whole)
<1> DEFINE W == Writing
           alone == {i \in W : stmts[i].unit = 0}
           within == {i \in W : stmts[i].unit # 0}
           self == [i \in Whole |-> i]
           tx == [i \in Whole |-> stmts[i].tx]
           unit == [i \in Whole |-> stmts[i].unit]
           txAlone == {tx[i] : i \in alone}
           txWithin == {tx[i] : i \in within}
           units == {unit[i] : i \in within}
<1>1. W \subseteq Whole /\ alone \subseteq Whole /\ within \subseteq Whole
  BY DEF Writing, ModifiesAmong
<1>2. IsFiniteSet(W) /\ IsFiniteSet(alone) /\ IsFiniteSet(within)
  BY <1>1, FiniteLog
<1>3. Cardinality(alone) = Cardinality(txAlone)
  <2>1. \A i, j \in alone : self[i] = self[j] <=> tx[i] = tx[j]
    BY <1>1 DEF TxInUnit
  <2>2. {self[i] : i \in alone} = alone
    BY <1>1
  <2>3. Cardinality({self[i] : i \in alone}) = Cardinality({tx[i] : i \in alone})
    <3> HIDE DEF alone, self, tx
    <3> QED BY <1>2, <2>1, SameValues
  <2> QED BY <2>2, <2>3
<1>4. /\ Cardinality(units) <= Cardinality(txWithin)
      /\ IsFiniteSet(txWithin) /\ Cardinality(txWithin) \in Nat
      /\ Cardinality(units) \in Nat
  <2>1. \A i, j \in within : tx[i] = tx[j] => unit[i] = unit[j]
    BY <1>1 DEF TxInUnit
  <2> HIDE DEF within, tx, unit
  <2>2. Cardinality(units) <= Cardinality(txWithin)
    BY <1>2, <2>1, FewerValues
  <2>3. IsFiniteSet(txWithin) /\ Cardinality(txWithin) \in Nat /\ Cardinality(units) \in Nat
    BY <1>2, FiniteValues
  <2> QED BY <2>2, <2>3
<1>5. UnitInTx => Cardinality(units) = Cardinality(txWithin)
  <2> HAVE UnitInTx
  <2>1. \A i, j \in within : unit[i] = unit[j] <=> tx[i] = tx[j]
    BY <1>1 DEF TxInUnit, UnitInTx
  <2> HIDE DEF within, tx, unit
  <2> QED BY <1>2, <2>1, SameValues
<1>6. IsFiniteSet(txAlone) /\ Cardinality(txAlone) \in Nat
  <2> HIDE DEF alone, tx
  <2> QED BY <1>2, FiniteValues
<1>7. ServerUnits(Whole) = Cardinality(txAlone) + Cardinality(txWithin)
  <2>1. {stmts[i].tx : i \in W} = txAlone \cup txWithin
    BY <1>1
  <2>2. txAlone \cap txWithin = {}
    <3>1. ASSUME NEW i \in alone, NEW j \in within, tx[i] = tx[j]
          PROVE  FALSE
      BY <3>1, <1>1 DEF TxInUnit
    <3> QED BY <3>1
  <2>3. ServerUnits(Whole) = Cardinality({stmts[i].tx : i \in W})
    BY DEF ServerUnits, Writing
  <2> HIDE DEF W, txAlone, txWithin
  <2>4. Cardinality(txAlone \cup txWithin) = Cardinality(txAlone) + Cardinality(txWithin)
    BY <1>4, <1>6, <2>2, DisjointUnion
  <2> QED BY <2>1, <2>3, <2>4
<1>8. ClientUnits(Whole) = Cardinality(units) + Cardinality(alone)
  <2>1. WritesAmong(Whole) = W
    BY SameWrites DEF Writing
  <2>2. {stmts[i].unit : i \in W} \ {0} = units
    BY <1>1
  <2>3. ClientUnits(Whole)
          = Cardinality({stmts[i].unit : i \in W} \ {0}) + Cardinality({i \in W : stmts[i].unit = 0})
    BY <2>1 DEF ClientUnits
  <2> QED BY <2>2, <2>3
<1>9. /\ Cardinality(units) + Cardinality(alone) <= Cardinality(txAlone) + Cardinality(txWithin)
      /\ UnitInTx =>
           Cardinality(units) + Cardinality(alone) = Cardinality(txAlone) + Cardinality(txWithin)
  <2> HIDE DEF units, alone, txAlone, txWithin
  <2> QED BY <1>3, <1>4, <1>5, <1>6
<1> QED BY <1>7, <1>8, <1>9

\* Identities that tell the writes of a slice apart as the transactions do.
LEMMA CountsByIdentity ==
    ASSUME Base, TextsRead, GroupedAsRun,
           NEW S, S \subseteq Whole, ~Unattributed(S), \A i \in S : AutocommitKept(i, {i})
    PROVE  WriteUnits(S) = ServerUnits(S)
<1> DEFINE W == WritesAmong(S)
           id == [i \in Whole |-> stmts[i].id]
           tx == [i \in Whole |-> stmts[i].tx]
<1>1. W = ModifiesAmong(S) /\ W \subseteq Whole
  BY SameWrites DEF WritesAmong
<1>2. \A i, j \in W : id[i] = id[j] <=> tx[i] = tx[j]
  BY <1>1 DEF GroupedAsRun, Unattributed, WritesAmong
<1>3. IsFiniteSet(W)
  BY <1>1, FiniteLog
<1>4. Cardinality({id[i] : i \in W}) = Cardinality({tx[i] : i \in W})
  <2> HIDE DEF W, id, tx
  <2> QED BY <1>2, <1>3, SameValues
<1>5. {id[i] : i \in W} = {stmts[i].id : i \in W} /\ {tx[i] : i \in W} = {stmts[i].tx : i \in W}
  BY <1>1
<1> QED BY <1>1, <1>4, <1>5 DEF WriteUnits, ServerUnits

\* In a slice that is not refused, from entry m on, autocommit is kept if it has
\* been kept until there.
LEMMA SliceKept ==
    ASSUME Base, TextsRead, NEW S, S \subseteq Whole, NEW m \in Nat, ~Rejected(S),
           AutocommitKept(m, S), \A i \in S : \A j \in Whole : m <= j /\ j < i => j \in S
    PROVE  \A i \in S : AutocommitKept(i, {i})
<1> SUFFICES ASSUME NEW i \in S, NEW j \in Whole, j < i, stmts[j].cmd = "autocommitOff",
                    stmts[j].tx[2] = stmts[i].tx[2]
             PROVE  FALSE
  BY DEF AutocommitKept
<1>1. j \in Nat
  BY DEF Whole, Base, LogOK
<1>2. CASE j < m
  BY <1>2 DEF AutocommitKept
<1>3. CASE m <= j
  <2>1. j \in S
    BY <1>3
  <2> QED BY <2>1, KindsRight DEF Rejected
<1> QED BY <1>1, <1>2, <1>3

\* The verdict on everything, and the one on a scenario, are right.
LEMMA VerdictFollows ==
    ASSUME Base, TextsRead, GroupedAsRun
    PROVE  VerdictSound
<1>1. Scenario \subseteq Whole /\ Whole \subseteq Nat \ {0}
  BY DEF Scenario, Whole, Base, LogOK
<1>2. ASSUME Verified(Whole)
      PROVE  WriteUnits(Whole) = ServerUnits(Whole)
  <2>1. AutocommitKept(1, Whole)
    BY <1>1 DEF AutocommitKept
  <2>2. \A i \in Whole : AutocommitKept(i, {i})
    BY <1>2, <2>1, SliceKept DEF Verified
  <2> QED BY <1>2, <2>2, CountsByIdentity DEF Verified
<1>3. ASSUME NEW T, T \subseteq Whole, T # {}
      PROVE  First(T) \in Nat
  <2>1. \E k \in T : \A j \in T : k <= j
    BY <1>1, <1>3, Least
  <2> QED BY <1>1, <1>3, <2>1 DEF First
<1>4. ASSUME Delimited, AutocommitKept(First(Opened) + 1, Scenario), Verified(Scenario)
      PROVE  WriteUnits(Scenario) = ServerUnits(Scenario)
  <2>1. Opened \subseteq Whole /\ Closed \subseteq Whole
    BY DEF Opened, Closed, Carrying
  <2>2. PICK m \in Nat : m = First(Opened)
    BY <1>3, <1>4, <2>1 DEF Delimited
  <2>3. PICK n \in Nat : n = First(Closed)
    BY <1>3, <1>4, <2>1 DEF Delimited
  <2>4. Scenario = {i \in Whole : m < i /\ i < n}
    BY <2>2, <2>3 DEF Scenario
  <2>5. \A i \in Scenario : \A j \in Whole : m + 1 <= j /\ j < i => j \in Scenario
    BY <1>1, <2>4
  <2>6. AutocommitKept(m + 1, Scenario) /\ m + 1 \in Nat
    BY <1>4, <2>2
  <2>7. \A i \in Scenario : AutocommitKept(i, {i})
    BY <1>1, <1>4, <2>5, <2>6, SliceKept DEF Verified
  <2> QED BY <1>1, <1>4, <2>7, CountsByIdentity DEF Verified
<1> QED BY <1>2, <1>4 DEF VerdictSound

(***************************************************************************)
(* Invariants of the steps                                                 *)
(***************************************************************************)
\* Autocommit is never turned off on a connection, or on any.
Steady(t) == \A i \in Whole : stmts[i].tx[2] = t => stmts[i].cmd # "autocommitOff"
Clean == \A i \in Whole : stmts[i].cmd # "autocommitOff"

\* The transaction that a connection is in, or was in last.
Current(t) == <<run, t, server[t].n>>

\* Autocommit is on where it was never turned off; the transactions of the log
\* are numbered up to the current ones.
ServerOK ==
    /\ \A t \in Thread : Steady(t) => server[t].autocommit
    /\ \A t \in Thread : server[t].open => server[t].n > 0
    /\ \A i \in Whole : /\ stmts[i].tx[1] \in 1..run
                        /\ stmts[i].tx[1] = run =>
                             stmts[i].tx[3] <= server[stmts[i].tx[2]].n

\* The server's batches of their own are the bracketed ones; a connection in a
\* transaction has a Session in one; the writes of the open transaction are
\* attributed to the current unit, and no earlier transaction is split.
SessionOK ==
    /\ \A t \in Thread : t \in implicitBatch <=> pipeline[t] = "own"
    /\ Clean =>
         /\ \A t \in Thread : server[t].open \/ pipeline[t] = "own" => session[t] # 0
         /\ \A t \in Thread : \A i \in Writing :
              server[t].open /\ stmts[i].tx = Current(t) => stmts[i].unit = session[t]
         /\ TxInUnit

\* On PostgreSQL a Session is in a transaction only if its connection is. Units
\* belong to one connection each, and the current ones to open transactions.
UnitsOK ==
    /\ \A i \in Whole : stmts[i].unit <= txSeq
    /\ \A t, u \in Thread : session[t] # 0 /\ session[t] = session[u] => t = u
    /\ ~MySQL =>
         /\ \A t \in Thread : session[t] # 0 => server[t].open \/ pipeline[t] = "own"
         /\ \A t \in Thread : \A i \in Writing :
              session[t] # 0 /\ stmts[i].unit = session[t] =>
                  server[t].open /\ stmts[i].tx = Current(t)
         /\ UnitInTx

\* The identities of a log count as those of its transactions while the numbers
\* that they are made of last: PostgreSQL's local ones start over with the
\* server, and a thread of MySQL that breaks off has no Quit entry.
NumbersLast == \/ run = 1
               \/ MySQL /\ ~World.unclean
               \/ ~MySQL /\ "vxid" \notin captures

\* What pgcheck takes for the identity is the transaction.
PgIdentitiesOK ==
    \A i \in Whole :
        stmts[i].id \in {NoIdentity,
                         IF "vxid" \in captures
                         THEN <<"vxid", <<stmts[i].tx[2], stmts[i].tx[3]>>>>
                         ELSE <<"xid", stmts[i].tx>>}

\* mycheck has a thread in a transaction exactly when the server has, as long as
\* the thread goes on and keeps autocommit on, and that transaction's number is
\* the last one; numbers are given once.
Followed(t) == t \notin gone \/ ~World.unclean

MyIdentitiesOK ==
    /\ \A t \in Thread : Followed(t) /\ Steady(t) => (parsed[t].inTx <=> server[t].open)
    /\ \A i \in Whole :
         LET t == stmts[i].tx[2]
         IN stmts[i].id \in ({t} \X {"tx"} \X (0..parsed[t].txSeq))
                              \cup ({t} \X {"stmt"} \X (0..parsed[t].stmtSeq))
    /\ \A t \in Thread : \A i \in Whole :
         Followed(t) /\ Steady(t) /\ server[t].open =>
             (stmts[i].id = <<t, "tx", parsed[t].txSeq>> <=> stmts[i].tx = Current(t))

IdentitiesOK ==
    /\ ~MySQL => PgIdentitiesOK
    /\ MySQL /\ NumbersLast => MyIdentitiesOK /\ GroupedAsRun

\* What a statement adds to the log and changes in the server.
LEMMA Executed ==
    ASSUME Base, Base', TextsRead, NEW t \in Thread, NEW cmd \in DOMAIN World.texts,
           NEW text \in World.texts[cmd], Execute(t, cmd, text)
    PROVE  \E n \in Whole' :
             /\ Whole' = Whole \cup {n} /\ n \notin Whole
             /\ \A i \in Whole : i \in Nat /\ n \in Nat /\ i < n
             /\ \A i \in Whole : stmts'[i] = stmts[i]
             /\ stmts'[n] = Logged(t, cmd, text)
             /\ \A i \in Writing' : i \in Writing \/ (i = n /\ Modifies(cmd))
<1>1. session'[t] \in Nat
  BY DEF Base, TypeOK
<1>2. /\ Logged(t, cmd, text) \in Statements
      /\ stmts' = Append(stmts, Logged(t, cmd, text))
  BY <1>1, LoggedType, ExecuteLogs
<1>3. Logged(t, cmd, text).cmd = cmd
  BY DEF Logged
<1> DEFINE s == Logged(t, cmd, text)
<1> HIDE DEF s
<1>4. /\ DOMAIN stmts' = DOMAIN stmts \cup {Len(stmts) + 1} /\ Len(stmts) + 1 \notin DOMAIN stmts
      /\ \A i \in DOMAIN stmts : i \in Nat /\ Len(stmts) + 1 \in Nat /\ i < Len(stmts) + 1
      /\ \A i \in DOMAIN stmts : stmts'[i] = stmts[i]
      /\ stmts'[Len(stmts) + 1] = s
  BY <1>2, LogGrows DEF Base, LogOK, s
<1>5. s.cmd = cmd /\ s = Logged(t, cmd, text)
  BY <1>3 DEF s
<1> QED BY <1>4, <1>5 DEF Whole, Writing, ModifiesAmong

\* The text says what the server does.
LEMMA TextRight ==
    ASSUME Base, TextsRead, NEW cmd \in DOMAIN World.texts, NEW text \in World.texts[cmd]
    PROVE  /\ DefaultClassifier(text) = "begin" <=> cmd = "begin"
           /\ Ended(DefaultClassifier(text)) <=> Ends(cmd)
           /\ MySQL => /\ IsImplicitCommit(text) <=> cmd = "create"
                       /\ ChangesAutocommit(text) <=> SetsAutocommit(cmd)
BY DEF TextsRead, ReadRight, MySQL, World

\* The configuration does not change.
LEMMA ConfigKept ==
    ASSUME [Next]_vars
    PROVE  /\ UNCHANGED configVars /\ World' = World /\ (MySQL' <=> MySQL)
           /\ run' = run \/ run' = run + 1
<1> DEFINE Kept == UNCHANGED configVars /\ (run' = run \/ run' = run + 1)
<1>1. ASSUME NEW t \in Thread, NEW cmd, NEW text, Execute(t, cmd, text)
      PROVE  Kept
  BY <1>1 DEF Execute
<1>2. ASSUME NEW t \in Thread, BatchStart(t) \/ BatchEnd(t)
      PROVE  Kept
  BY <1>2 DEF BatchStart, BatchEnd
<1>3. ASSUME NEW t \in Thread, Quit(t) \/ Lose(t)
      PROVE  Kept
  BY <1>3 DEF Quit, Lose, ConnectionEnds
<1>4. ASSUME NEW text, LogOther(text)
      PROVE  Kept
  BY <1>4 DEF LogOther
<1>5. ASSUME Restart
      PROVE  Kept
  BY <1>5 DEF Restart
<1>6. ASSUME UNCHANGED vars
      PROVE  Kept
  BY <1>6 DEF vars
<1> HIDE DEF Kept
<1>7. Kept
  BY <1>1, <1>2, <1>3, <1>4, <1>5, <1>6 DEF Next
<1> QED BY <1>7 DEF Kept, configVars, World, MySQL

\* What is clean has been clean, and connections that are steady have been.
LEMMA CleanBefore ==
    ASSUME Base, Base', TextsRead, NEW t \in Thread, NEW cmd \in DOMAIN World.texts,
           NEW text \in World.texts[cmd], Execute(t, cmd, text)
    PROVE  /\ Clean' => Clean
           /\ \A u \in Thread : Steady(u)' => Steady(u)
           /\ Steady(t)' => cmd # "autocommitOff"
<1>1. PICK n \in Whole' : /\ Whole' = Whole \cup {n} /\ n \notin Whole
                          /\ \A i \in Whole : stmts'[i] = stmts[i]
                          /\ stmts'[n] = Logged(t, cmd, text)
  BY Executed
<1>2. stmts'[n].cmd = cmd /\ stmts'[n].tx[2] = t
  BY <1>1 DEF Logged, ServerTx
<1> QED BY <1>1, <1>2 DEF Clean, Steady

LEMMA CleanIsSteady ==
    ASSUME Clean, NEW t \in Thread
    PROVE  Steady(t)
BY DEF Clean, Steady

\* On PostgreSQL there is nothing to turn off.
LEMMA CleanOnPostgres ==
    ASSUME Base, TextsRead, ~MySQL
    PROVE  Clean
BY KindsRight DEF Clean

LEMMA CleanSame ==
    ASSUME stmts' = stmts
    PROVE  (Clean' <=> Clean) /\ Whole' = Whole /\ Writing' = Writing
           /\ (\A t \in Thread : Steady(t)' <=> Steady(t))
           /\ (TxInUnit' <=> TxInUnit) /\ (UnitInTx' <=> UnitInTx)
BY DEF Clean, Steady, Whole, Writing, ModifiesAmong, TxInUnit, UnitInTx

\* A statement that starts a transaction is in a new one; another is in the
\* current one, which is open.
LEMMA ServerRuns ==
    ASSUME Base, ServerOK, NEW t \in Thread, NEW cmd
    PROVE  /\ ServerTx(t, cmd) = <<run, t, ServerAfter(t, cmd).n>>
           /\ ServerAfter(t, cmd).n \in Nat
           /\ ServerAfter(t, cmd).n >= server[t].n /\ ServerAfter(t, cmd).n > 0
           /\ StartsTx(t, cmd) => \A i \in Whole : stmts[i].tx # ServerTx(t, cmd)
           /\ ~StartsTx(t, cmd) => server[t].open /\ ServerTx(t, cmd) = Current(t)
           /\ ServerAfter(t, cmd).open = StaysOpen(t, cmd)
<1>1. server[t] \in ServerStates /\ run \in Nat
  BY Worlds DEF Base, TypeOK, ServerStates
<1> DEFINE n == ServerAfter(t, cmd).n
<1>2. /\ StartsTx(t, cmd) => n = server[t].n + 1
      /\ ~StartsTx(t, cmd) => n = server[t].n /\ server[t].open
  BY DEF ServerAfter, StartsTx
<1>3. ServerTx(t, cmd) = <<run, t, n>>
  BY DEF ServerTx
<1>4. ServerAfter(t, cmd).open = StaysOpen(t, cmd)
  BY DEF ServerAfter
<1> HIDE DEF n
<1>5. server[t].n \in Nat
  BY <1>1 DEF ServerStates
<1>6. n \in Nat /\ n >= server[t].n /\ n > 0
  BY <1>2, <1>5 DEF ServerOK
<1>7. ASSUME StartsTx(t, cmd), NEW i \in Whole, stmts[i].tx = ServerTx(t, cmd)
      PROVE  FALSE
  <2>1. stmts[i].tx[1] = run /\ stmts[i].tx[2] = t /\ stmts[i].tx[3] = n
    BY <1>3, <1>7
  <2>2. n <= server[t].n
    BY <2>1 DEF ServerOK
  <2> QED BY <1>2, <1>5, <1>7, <2>2
<1> QED BY <1>2, <1>3, <1>4, <1>6, <1>7 DEF n, Current

\* What is not a statement and not a restart: nothing is logged, and the server
\* at most ends transactions.
LEMMA OtherSteps ==
    ASSUME Base, [Next]_vars
    PROVE  \/ \E t \in Thread : \E cmd \in DOMAIN World.texts :
                \E text \in World.texts[cmd] : Execute(t, cmd, text)
           \/ Restart /\ stmts' = stmts
           \/ /\ stmts' = stmts /\ run' = run
              /\ \A t \in Thread : /\ server'[t].n = server[t].n
                                   /\ server'[t].autocommit = server[t].autocommit
                                   /\ server'[t].open => server[t].open
              /\ \/ \E t \in Thread : BatchStart(t) \/ BatchEnd(t) \/ Quit(t) \/ Lose(t)
                 \/ UNCHANGED <<server, parsed, gone, session, txSeq, pipeline, implicitBatch>>
<1> DEFINE Goal == /\ stmts' = stmts /\ run' = run
                   /\ \A t \in Thread : /\ server'[t].n = server[t].n
                                        /\ server'[t].autocommit = server[t].autocommit
                                        /\ server'[t].open => server[t].open
<1>1. ASSUME NEW t \in Thread, BatchStart(t)
      PROVE  Goal
  BY <1>1 DEF BatchStart
<1>2. server \in [Thread -> ServerStates]
  BY DEF Base, TypeOK, ServerStates
<1>3. ASSUME NEW t \in Thread,
             server' = [server EXCEPT ![t].open = FALSE] \/ server' = server
      PROVE  \A u \in Thread : /\ server'[u].n = server[u].n
                               /\ server'[u].autocommit = server[u].autocommit
                               /\ server'[u].open => server[u].open
  BY <1>2, <1>3 DEF ServerStates
<1>4. ASSUME NEW t \in Thread, BatchEnd(t)
      PROVE  Goal
  BY <1>3, <1>4 DEF BatchEnd
<1>5. ASSUME NEW t \in Thread, ConnectionEnds(t)
      PROVE  Goal
  BY <1>3, <1>5 DEF ConnectionEnds
<1>6. ASSUME NEW text \in World.noise, LogOther(text)
      PROVE  Goal /\ UNCHANGED <<server, parsed, gone, session, txSeq, pipeline, implicitBatch>>
  BY <1>6, NothingLogged DEF LogOther, clientVars, batchVars
<1>7. ASSUME UNCHANGED vars
      PROVE  Goal /\ UNCHANGED <<server, parsed, gone, session, txSeq, pipeline, implicitBatch>>
  BY <1>7 DEF vars, clientVars, batchVars
<1>8. ASSUME Restart
      PROVE  stmts' = stmts
  BY <1>8, NothingLogged DEF Restart
<1> HIDE DEF Goal
<1>9. ASSUME NEW t \in Thread, Quit(t) \/ Lose(t)
      PROVE  Goal
  BY <1>5, <1>9 DEF Quit, Lose
<1>10. CASE Next
  <2>1. CASE \E t \in Thread : \E cmd \in DOMAIN World.texts :
               \E text \in World.texts[cmd] : Execute(t, cmd, text)
    BY <2>1
  <2>2. CASE \E t \in Thread : BatchStart(t) \/ BatchEnd(t) \/ Quit(t) \/ Lose(t)
    BY <2>2, <1>1, <1>4, <1>9 DEF Goal
  <2>3. CASE \E text \in World.noise : LogOther(text)
    BY <2>3, <1>6 DEF Goal
  <2>4. CASE Restart
    BY <2>4, <1>8
  <2> QED BY <1>10, <2>1, <2>2, <2>3, <2>4 DEF Next
<1> QED BY <1>7, <1>10 DEF Goal

LEMMA LogTypes ==
    ASSUME Base, NEW i \in Whole
    PROVE  /\ stmts[i] \in Statements /\ stmts[i].unit \in Nat
           /\ stmts[i].tx = <<stmts[i].tx[1], stmts[i].tx[2], stmts[i].tx[3]>>
           /\ stmts[i].tx[1] \in Nat /\ stmts[i].tx[2] \in Thread /\ stmts[i].tx[3] \in Nat
<1>1. stmts[i] \in Statements
  BY DEF Base, LogOK, Whole
<1>2. stmts[i].tx \in Transactions /\ stmts[i].unit \in Nat
  BY <1>1 DEF Statements
<1> QED BY <1>1, <1>2 DEF Transactions

LEMMA ServerStep ==
    ASSUME Base, Base', TextsRead, ServerOK, [Next]_vars
    PROVE  ServerOK'
<1>0. MySQL' <=> MySQL
  BY ConfigKept
<1>1. ASSUME NEW t \in Thread, NEW cmd \in DOMAIN World.texts,
             NEW text \in World.texts[cmd], Execute(t, cmd, text)
      PROVE  ServerOK'
  <2> DEFINE after == ServerAfter(t, cmd)
  <2>1. run' = run /\ server' = [server EXCEPT ![t] = after]
    BY <1>1 DEF Execute
  <2>2. after.autocommit = (cmd = "autocommitOn" \/ (server[t].autocommit /\ cmd # "autocommitOff"))
    BY DEF ServerAfter
  <2>3. /\ server \in [Thread -> ServerStates] /\ stmts \in Seq(Statements)
        /\ run \in Nat \ {0} /\ stmts' \in Seq(Statements)
    BY Worlds DEF Base, TypeOK, ServerStates, LogOK
  <2> HIDE DEF after
  <2>4. server'[t] = after /\ \A u \in Thread \ {t} : server'[u] = server[u]
    BY <2>1, <2>3
  <2>5. ASSUME NEW u \in Thread, Steady(u)'
        PROVE  server'[u].autocommit
    <3>1. Steady(u) /\ (u = t => cmd # "autocommitOff")
      BY <1>1, <2>5, CleanBefore
    <3>2. server[u].autocommit
      BY <3>1 DEF ServerOK
    <3> QED BY <3>1, <3>2, <2>2, <2>4
  <2>6. after.n \in Nat /\ after.n >= server[t].n /\ after.n > 0
    BY ServerRuns DEF after
  <2>7. \A u \in Thread : /\ server'[u].open => server'[u].n > 0
                          /\ server[u].n \in Nat /\ server'[u].n \in Nat
                          /\ server[u].n <= server'[u].n
    BY <2>3, <2>4, <2>6 DEF ServerOK, ServerStates
  <2>8. PICK n \in Whole' : /\ Whole' = Whole \cup {n} /\ n \notin Whole
                            /\ \A i \in Whole : stmts'[i] = stmts[i]
                            /\ stmts'[n] = Logged(t, cmd, text)
    BY <1>1, Executed
  <2>9. ASSUME NEW i \in Whole
        PROVE  /\ stmts'[i].tx[1] \in 1..run
               /\ stmts'[i].tx[1] = run => stmts'[i].tx[3] <= server'[stmts'[i].tx[2]].n
    <3>1. stmts[i] \in Statements
      BY <2>3 DEF Whole
    <3>2. stmts[i].tx[2] \in Thread /\ stmts[i].tx[3] \in Nat
      BY <3>1 DEF Statements, Transactions
    <3>3. server[stmts[i].tx[2]].n <= server'[stmts[i].tx[2]].n
      BY <3>2, <2>7
    <3> QED BY <2>7, <2>8, <3>2, <3>3 DEF ServerOK
  <2>10. stmts'[n].tx = <<run, t, after.n>>
    BY <2>8, ServerRuns DEF Logged, after
  <2>11. ASSUME NEW i \in Whole'
        PROVE  /\ stmts'[i].tx[1] \in 1..run
               /\ stmts'[i].tx[1] = run => stmts'[i].tx[3] <= server'[stmts'[i].tx[2]].n
    BY <2>3, <2>4, <2>6, <2>8, <2>9, <2>10
  <2> QED BY <2>1, <2>5, <2>7, <2>11 DEF ServerOK
<1>2. ASSUME stmts' = stmts, run' = run,
             \A t \in Thread : /\ server'[t].n = server[t].n
                               /\ server'[t].autocommit = server[t].autocommit
                               /\ server'[t].open => server[t].open
      PROVE  ServerOK'
  <2>1. \A i \in Whole : stmts[i].tx[2] \in Thread
    BY LogTypes
  <2> QED BY <1>0, <1>2, <2>1, CleanSame DEF ServerOK
<1>3. ASSUME Restart, stmts' = stmts
      PROVE  ServerOK'
  <2>1. run' = run + 1 /\ server' = [t \in Thread |-> Fresh]
    BY <1>3 DEF Restart
  <2>2. \A t \in Thread : server'[t].autocommit /\ ~server'[t].open
    BY <2>1 DEF Fresh
  <2>3. run \in Nat \ {0} /\ \A i \in Whole : stmts[i].tx[1] \in Nat
    BY Worlds, LogTypes DEF Base, TypeOK
  <2>4. \A i \in Whole : stmts[i].tx[1] \in 1..run' /\ stmts[i].tx[1] # run'
    BY <2>1, <2>3 DEF ServerOK
  <2>5. Whole' = Whole
    BY <1>3 DEF Whole
  <2> QED BY <1>3, <2>2, <2>4, <2>5 DEF ServerOK
<1> QED BY <1>1, <1>2, <1>3, OtherSteps

\* What a statement does to the Session of its connection.
LEMMA SessionMoves ==
    ASSUME Base, TextsRead, NEW t \in Thread, NEW cmd \in DOMAIN World.texts,
           NEW text \in World.texts[cmd], Execute(t, cmd, text)
    PROVE  /\ cmd = "begin" /\ session[t] = 0 => session'[t] = txSeq + 1 /\ txSeq' = txSeq + 1
           /\ ~(cmd = "begin" /\ session[t] = 0) => txSeq' = txSeq
           /\ Ends(cmd) => session'[t] = 0
           /\ ~Ends(cmd) /\ ~(cmd = "begin" /\ session[t] = 0) => session'[t] = session[t]
           /\ \A u \in Thread \ {t} : session'[u] = session[u]
           /\ session[t] \in Nat /\ txSeq \in Nat
<1> DEFINE kind == DefaultClassifier(text)
           opens == kind = "begin" /\ session[t] = 0
           u == CASE opens -> txSeq + 1 [] Ended(kind) -> 0 [] OTHER -> session[t]
<1>1. /\ txSeq' = IF opens THEN txSeq + 1 ELSE txSeq
      /\ session' = [session EXCEPT ![t] = u]
  BY DEF Execute, SessionTracks
<1>2. /\ kind = "begin" <=> cmd = "begin"
      /\ Ended(kind) <=> Ends(cmd)
  BY TextRight
<1>3. /\ opens => u = txSeq + 1
      /\ Ended(kind) => u = 0
      /\ ~opens /\ ~Ended(kind) => u = session[t]
  BY DEF Ended
<1>4. session \in [Thread -> 0..txSeq] /\ txSeq \in Nat
  BY DEF Base, TypeOK
<1>5. opens <=> cmd = "begin" /\ session[t] = 0
  BY <1>2
<1> HIDE DEF u, opens, kind
<1>6. session'[t] = u /\ \A v \in Thread \ {t} : session'[v] = session[v]
  BY <1>1, <1>4
<1>7. session[t] \in Nat
  BY <1>4
<1> QED BY <1>1, <1>2, <1>3, <1>4, <1>5, <1>6, <1>7

LEMMA SessionStep ==
    ASSUME Base, Base', TextsRead, ServerOK, SessionOK, [Next]_vars
    PROVE  SessionOK'
<1>0. MySQL' <=> MySQL
  BY ConfigKept
<1>1. ASSUME NEW t \in Thread, NEW cmd \in DOMAIN World.texts,
             NEW text \in World.texts[cmd], Execute(t, cmd, text)
      PROVE  SessionOK'
  <2>1. /\ UNCHANGED <<run, pipeline, implicitBatch>> /\ Legal(t, cmd)
        /\ server' = [server EXCEPT ![t] = ServerAfter(t, cmd)]
    BY <1>1 DEF Execute, batchVars
  <2>2. SUFFICES ASSUME Clean'
                 PROVE  /\ \A u \in Thread : server'[u].open \/ pipeline[u] = "own" => session'[u] # 0
                        /\ \A u \in Thread : \A i \in Writing' :
                             server'[u].open /\ stmts'[i].tx = Current(u)' =>
                                 stmts'[i].unit = session'[u]
                        /\ TxInUnit'
    BY <2>1 DEF SessionOK
  <2>3. Clean /\ server[t].autocommit
    BY <1>1, <2>2, CleanBefore, CleanIsSteady DEF ServerOK
  <2>4. /\ \A u \in Thread : server[u].open \/ pipeline[u] = "own" => session[u] # 0
        /\ \A u \in Thread : \A i \in Writing :
             server[u].open /\ stmts[i].tx = Current(u) => stmts[i].unit = session[u]
        /\ TxInUnit
    BY <2>3 DEF SessionOK
  <2>5. /\ StaysOpen(t, cmd) /\ ~(cmd = "begin") => ~Ends(cmd)
        /\ StaysOpen(t, cmd) =>
             cmd = "begin" \/ pipeline[t] = "own" \/ server[t].open
        /\ pipeline[t] = "own" => cmd # "begin" /\ ~Ends(cmd)
        /\ Modifies(cmd) => cmd # "begin" /\ ~Ends(cmd)
        /\ Ends(cmd) => cmd # "begin"
    BY <2>1, <2>3 DEF StaysOpen, Legal, Touches, Modifies, Ends
  <2>6. /\ cmd = "begin" => session'[t] # 0
        /\ Ends(cmd) => session'[t] = 0
        /\ ~Ends(cmd) /\ session[t] # 0 => session'[t] = session[t]
        /\ \A u \in Thread \ {t} : session'[u] = session[u]
        /\ session'[t] # session[t] => cmd = "begin" \/ Ends(cmd)
    BY <1>1, SessionMoves, <2>5
  <2>7. /\ server'[t].open = StaysOpen(t, cmd)
        /\ Current(t)' = ServerTx(t, cmd)
        /\ ServerTx(t, cmd)[2] = t
        /\ \A u \in Thread \ {t} : server'[u] = server[u] /\ Current(u)' = Current(u)
                                   /\ Current(u)[2] = u
    <3>1. server \in [Thread -> ServerStates]
      BY DEF Base, TypeOK, ServerStates
    <3>2. server'[t] = ServerAfter(t, cmd) /\ \A u \in Thread \ {t} : server'[u] = server[u]
      BY <2>1, <3>1
    <3> QED BY <2>1, <3>2, ServerRuns DEF Current
  <2>8. /\ StartsTx(t, cmd) => \A i \in Whole : stmts[i].tx # ServerTx(t, cmd)
        /\ ~StartsTx(t, cmd) => server[t].open /\ ServerTx(t, cmd) = Current(t)
    BY ServerRuns
  <2>9. PICK n \in Whole' : /\ Whole' = Whole \cup {n} /\ n \notin Whole
                            /\ \A i \in Whole : stmts'[i] = stmts[i]
                            /\ stmts'[n] = Logged(t, cmd, text)
                            /\ \A i \in Writing' : i \in Writing \/ (i = n /\ Modifies(cmd))
    BY <1>1, Executed
  <2>10. stmts'[n].tx = ServerTx(t, cmd) /\ stmts'[n].unit = session'[t]
    BY <2>9 DEF Logged
  <2>11. Writing \subseteq Whole
    BY DEF Writing, ModifiesAmong
  <2>12. \A i \in Writing : stmts'[i] = stmts[i] /\ i \in Whole
    BY <2>9, <2>11
  \* What was written in the transaction of this statement is in its unit.
  <2>13. ASSUME NEW i \in Writing, stmts[i].tx = ServerTx(t, cmd),
                StaysOpen(t, cmd) \/ Modifies(cmd)
         PROVE  stmts[i].unit = session'[t] /\ session'[t] # 0
    <3>1. server[t].open /\ stmts[i].tx = Current(t)
      BY <2>8, <2>12, <2>13
    <3>2. stmts[i].unit = session[t] /\ session[t] # 0
      BY <2>4, <3>1
    <3>3. ~Ends(cmd)
      BY <2>5, <2>13
    <3> QED BY <2>6, <3>2, <3>3
  <2>14. ASSUME NEW u \in Thread, server'[u].open \/ pipeline[u] = "own"
         PROVE  session'[u] # 0
    BY <2>14, <2>4, <2>5, <2>6, <2>7
  <2>15. ASSUME NEW u \in Thread, NEW i \in Writing', server'[u].open,
                stmts'[i].tx = Current(u)'
         PROVE  stmts'[i].unit = session'[u]
    <3>1. CASE i \in Writing /\ u = t
      BY <3>1, <2>7, <2>12, <2>13, <2>15
    <3>2. CASE i \in Writing /\ u # t
      BY <3>2, <2>4, <2>6, <2>7, <2>12, <2>15
    <3>3. CASE i = n
      BY <3>3, <2>7, <2>10, <2>15
    <3> QED BY <3>1, <3>2, <3>3, <2>9
  <2>16. ASSUME NEW i \in Writing', NEW j \in Writing', stmts'[i].tx = stmts'[j].tx
         PROVE  stmts'[i].unit = stmts'[j].unit /\ (stmts'[i].unit = 0 => i = j)
    <3>1. CASE i \in Writing /\ j \in Writing
      BY <3>1, <2>4, <2>12, <2>16 DEF TxInUnit
    <3>2. CASE i \in Writing /\ j = n /\ Modifies(cmd)
      BY <3>2, <2>10, <2>12, <2>13, <2>16
    <3>3. CASE i = n /\ j \in Writing /\ Modifies(cmd)
      BY <3>3, <2>10, <2>12, <2>13, <2>16
    <3> QED BY <3>1, <3>2, <3>3, <2>9
  <2>17. TxInUnit'
    BY <2>16 DEF TxInUnit
  <2> QED BY <2>14, <2>15, <2>17
<1>2. ASSUME Restart, stmts' = stmts
      PROVE  SessionOK'
  <2>1. \A t \in Thread : /\ ~server'[t].open /\ pipeline'[t] = "none"
                          /\ t \notin implicitBatch'
    BY <1>2 DEF Restart, Fresh
  <2>2. (Clean' <=> Clean) /\ (TxInUnit' <=> TxInUnit)
    BY <1>0, <1>2, CleanSame
  <2> QED BY <2>1, <2>2 DEF SessionOK
<1>3. ASSUME stmts' = stmts, run' = run,
             \A t \in Thread : /\ server'[t].n = server[t].n
                               /\ server'[t].open => server[t].open,
             \A t \in Thread : t \in implicitBatch' <=> pipeline'[t] = "own",
             \A t \in Thread :
               \/ ~server'[t].open /\ (pipeline'[t] = "own" => session'[t] # 0)
               \/ session'[t] = session[t] /\ (pipeline'[t] = "own" => pipeline[t] = "own")
      PROVE  SessionOK'
  <2>1. /\ Clean' <=> Clean
        /\ TxInUnit' <=> TxInUnit
        /\ Writing' = Writing
    BY <1>0, <1>3, CleanSame
  <2>2. \A t \in Thread : Current(t)' = Current(t)
    BY <1>3 DEF Current
  <2> QED BY <1>3, <2>1, <2>2 DEF SessionOK
<1> DEFINE Bracketed ==
             /\ \A u \in Thread : u \in implicitBatch' <=> pipeline'[u] = "own"
             /\ \A u \in Thread :
                  \/ ~server'[u].open /\ (pipeline'[u] = "own" => session'[u] # 0)
                  \/ session'[u] = session[u] /\ (pipeline'[u] = "own" => pipeline[u] = "own")
<1>4. /\ session \in [Thread -> 0..txSeq] /\ txSeq \in Nat
      /\ pipeline \in [Thread -> {"none", "own", "joined"}] /\ server \in [Thread -> ServerStates]
  BY DEF Base, TypeOK, ServerStates
<1>5. ASSUME NEW t \in Thread, BatchStart(t)
      PROVE  Bracketed
  <2>1. CASE server[t].open
    <3>1. /\ server' = server /\ session' = session /\ implicitBatch' = implicitBatch
          /\ pipeline' = [pipeline EXCEPT ![t] = "joined"] /\ pipeline[t] = "none"
      BY <1>5, <2>1 DEF BatchStart
    <3> QED BY <3>1, <1>4 DEF SessionOK
  <2>2. CASE ~server[t].open
    <3>1. /\ server' = server /\ session' = [session EXCEPT ![t] = txSeq + 1]
          /\ implicitBatch' = implicitBatch \cup {t}
          /\ pipeline' = [pipeline EXCEPT ![t] = "own"]
      BY <1>5, <2>2 DEF BatchStart
    <3>2. session'[t] # 0 /\ \A u \in Thread \ {t} : session'[u] = session[u]
      BY <3>1, <1>4
    <3> QED BY <3>1, <3>2, <2>2, <1>4 DEF SessionOK
  <2> QED BY <2>1, <2>2
<1>6. ASSUME NEW t \in Thread, BatchEnd(t)
      PROVE  Bracketed
  <2>1. /\ implicitBatch' = implicitBatch \ {t}
        /\ pipeline' = [pipeline EXCEPT ![t] = "none"]
    BY <1>6 DEF BatchEnd
  <2>2. pipeline'[t] = "none" /\ \A u \in Thread \ {t} : pipeline'[u] = pipeline[u]
    BY <2>1, <1>4
  <2>3. CASE pipeline[t] = "own"
    <3>1. server' = [server EXCEPT ![t].open = FALSE] /\ session' = [session EXCEPT ![t] = 0]
      BY <1>6, <2>3 DEF BatchEnd, SessionOK
    <3>2. ~server'[t].open /\ \A u \in Thread \ {t} : session'[u] = session[u]
      BY <3>1, <1>4 DEF ServerStates
    <3> QED BY <2>1, <2>2, <3>2 DEF SessionOK
  <2>4. CASE pipeline[t] # "own"
    <3>1. server' = server /\ session' = session
      BY <1>6, <2>4 DEF BatchEnd, SessionOK
    <3> QED BY <2>1, <2>2, <3>1 DEF SessionOK
  <2> QED BY <2>3, <2>4
<1>7. ASSUME NEW t \in Thread, ConnectionEnds(t)
      PROVE  Bracketed
  <2>1. /\ implicitBatch' = implicitBatch \ {t}
        /\ pipeline' = [pipeline EXCEPT ![t] = "none"]
        /\ server' = [server EXCEPT ![t].open = FALSE] /\ session' = [session EXCEPT ![t] = 0]
    BY <1>7 DEF ConnectionEnds
  <2>2. pipeline'[t] = "none" /\ \A u \in Thread \ {t} : pipeline'[u] = pipeline[u]
    BY <2>1, <1>4
  <2>3. ~server'[t].open /\ \A u \in Thread \ {t} : session'[u] = session[u]
    BY <2>1, <1>4 DEF ServerStates
  <2> QED BY <2>1, <2>2, <2>3 DEF SessionOK
<1>8. ASSUME UNCHANGED <<server, parsed, gone, session, txSeq, pipeline, implicitBatch>>
      PROVE  Bracketed
  BY <1>8 DEF SessionOK
<1> QED BY <1>1, <1>2, <1>3, <1>5, <1>6, <1>7, <1>8, OtherSteps DEF Quit, Lose

LEMMA UnitsStep ==
    ASSUME Base, Base', TextsRead, ServerOK, SessionOK, UnitsOK, [Next]_vars
    PROVE  UnitsOK'
<1>0. MySQL' <=> MySQL
  BY ConfigKept
<1>1. /\ session \in [Thread -> 0..txSeq] /\ txSeq \in Nat
      /\ session' \in [Thread -> 0..txSeq'] /\ txSeq' \in Nat
      /\ pipeline \in [Thread -> {"none", "own", "joined"}] /\ server \in [Thread -> ServerStates]
  BY DEF Base, TypeOK, ServerStates
<1>2. ASSUME NEW t \in Thread, NEW cmd \in DOMAIN World.texts,
             NEW text \in World.texts[cmd], Execute(t, cmd, text)
      PROVE  UnitsOK'
  <2>1. /\ UNCHANGED <<run, pipeline, implicitBatch>> /\ Legal(t, cmd)
        /\ server' = [server EXCEPT ![t] = ServerAfter(t, cmd)]
    BY <1>2 DEF Execute, batchVars
  <2>2. /\ Modifies(cmd) => cmd # "begin" /\ ~Ends(cmd)
        /\ pipeline[t] = "own" => cmd # "begin" /\ ~Ends(cmd)
    BY <2>1 DEF Legal, Touches, Modifies, Ends
  <2>3. /\ session'[t] \in {0, session[t], txSeq + 1}
        /\ session'[t] # 0 => ~Ends(cmd)
        /\ session'[t] = txSeq + 1 => txSeq' = txSeq + 1
        /\ cmd # "begin" /\ ~Ends(cmd) => session'[t] = session[t]
        /\ session'[t] # session[t] => cmd = "begin" \/ Ends(cmd)
        /\ txSeq' >= txSeq
        /\ \A u \in Thread \ {t} : session'[u] = session[u]
    <3>1. session[t] \in 0..txSeq
      BY <1>1
    <3> QED BY <1>1, <1>2, <3>1, SessionMoves
  <2>4. PICK n \in Whole' : /\ Whole' = Whole \cup {n} /\ n \notin Whole
                            /\ \A i \in Whole : stmts'[i] = stmts[i]
                            /\ stmts'[n] = Logged(t, cmd, text)
                            /\ \A i \in Writing' : i \in Writing \/ (i = n /\ Modifies(cmd))
    BY <1>2, Executed
  <2>5. stmts'[n].tx = ServerTx(t, cmd) /\ stmts'[n].unit = session'[t]
    BY <2>4 DEF Logged
  <2>6. \A i \in Writing : stmts'[i] = stmts[i] /\ i \in Whole
    BY <2>4 DEF Writing, ModifiesAmong
  <2>7. \A i \in Whole : stmts[i].unit \in Nat /\ stmts[i].unit <= txSeq
    BY LogTypes DEF UnitsOK
  <2>8. \A i \in Whole' : stmts'[i].unit <= txSeq'
    <3>1. session'[t] <= txSeq'
      BY <1>1
    <3> QED BY <1>1, <2>3, <2>4, <2>5, <2>7, <3>1
  <2>9. \A u, v \in Thread : session'[u] # 0 /\ session'[u] = session'[v] => u = v
    <3>1. \A u \in Thread \ {t} : session'[t] # 0 => session'[t] # session'[u]
      <4> SUFFICES ASSUME NEW u \in Thread \ {t}, session'[t] # 0, session'[t] = session'[u]
                   PROVE  FALSE
        OBVIOUS
      <4>1. session[u] \in 0..txSeq /\ session[u] = session'[t]
        BY <1>1, <2>3
      <4>2. session'[t] = session[t]
        BY <1>1, <2>3, <4>1
      <4> QED BY <4>1, <4>2 DEF UnitsOK
    <3> QED BY <2>3, <3>1 DEF UnitsOK
  <2> SUFFICES ASSUME ~MySQL
               PROVE  /\ \A u \in Thread : session'[u] # 0 => server'[u].open \/ pipeline[u] = "own"
                      /\ \A u \in Thread : \A i \in Writing' :
                           session'[u] # 0 /\ stmts'[i].unit = session'[u] =>
                               server'[u].open /\ stmts'[i].tx = Current(u)'
                      /\ UnitInTx'
    BY <1>0, <2>1, <2>8, <2>9 DEF UnitsOK
  <2>10. /\ \A u \in Thread : session[u] # 0 => server[u].open \/ pipeline[u] = "own"
         /\ \A u \in Thread : \A i \in Writing :
              session[u] # 0 /\ stmts[i].unit = session[u] =>
                  server[u].open /\ stmts[i].tx = Current(u)
         /\ UnitInTx
    BY DEF UnitsOK
  <2>11. /\ StartsTx(t, cmd) <=> ~server[t].open
         /\ cmd = "begin" \/ pipeline[t] = "own" \/ (server[t].open /\ ~Ends(cmd))
              => StaysOpen(t, cmd)
    BY DEF StartsTx, StaysOpen, ServerCommitsBefore
  <2>12. /\ server'[t].open = StaysOpen(t, cmd)
         /\ Current(t)' = ServerTx(t, cmd)
         /\ \A u \in Thread \ {t} : server'[u] = server[u] /\ Current(u)' = Current(u)
    <3>1. server'[t] = ServerAfter(t, cmd) /\ \A u \in Thread \ {t} : server'[u] = server[u]
      BY <1>1, <2>1
    <3> QED BY <2>1, <3>1, ServerRuns DEF Current
  <2>13. ~StartsTx(t, cmd) => ServerTx(t, cmd) = Current(t)
    BY ServerRuns
  <2>14. session'[t] # 0 => StaysOpen(t, cmd)
    BY <2>3, <2>10, <2>11
  \* What was attributed to the unit of this statement is in its transaction.
  <2>15. ASSUME NEW i \in Writing, session'[t] # 0, stmts[i].unit = session'[t]
         PROVE  stmts[i].tx = ServerTx(t, cmd)
    <3>1. stmts[i].unit <= txSeq /\ stmts[i].unit \in Nat
      BY <2>6, <2>7
    <3>2. session'[t] = session[t]
      BY <1>1, <2>3, <2>15, <3>1
    <3>3. server[t].open /\ stmts[i].tx = Current(t)
      BY <2>10, <2>15, <3>2
    <3> QED BY <2>11, <2>13, <3>3
  <2>16. ASSUME NEW u \in Thread, session'[u] # 0
         PROVE  server'[u].open \/ pipeline[u] = "own"
    BY <2>3, <2>10, <2>12, <2>14, <2>16
  <2>17. ASSUME NEW u \in Thread, NEW i \in Writing', session'[u] # 0,
                stmts'[i].unit = session'[u]
         PROVE  server'[u].open /\ stmts'[i].tx = Current(u)'
    <3>1. CASE u = t /\ i \in Writing
      BY <3>1, <2>6, <2>12, <2>14, <2>15, <2>17
    <3>2. CASE u = t /\ i = n
      BY <3>2, <2>5, <2>12, <2>14, <2>17
    <3>3. CASE u # t /\ i \in Writing
      BY <3>3, <2>3, <2>6, <2>10, <2>12, <2>17
    <3>4. CASE u # t /\ i = n
      BY <3>4, <2>5, <2>9, <2>17
    <3> QED BY <3>1, <3>2, <3>3, <3>4, <2>4
  <2>18. ASSUME NEW i \in Writing', NEW j \in Writing',
                stmts'[i].unit = stmts'[j].unit, stmts'[i].unit # 0
         PROVE  stmts'[i].tx = stmts'[j].tx
    <3>1. CASE i \in Writing /\ j \in Writing
      BY <3>1, <2>6, <2>10, <2>18 DEF UnitInTx
    <3>2. CASE i \in Writing /\ j = n
      BY <3>2, <2>5, <2>6, <2>15, <2>18
    <3>3. CASE i = n /\ j \in Writing
      BY <3>3, <2>5, <2>6, <2>15, <2>18
    <3> QED BY <3>1, <3>2, <3>3, <2>4
  <2>19. UnitInTx'
    BY <2>18 DEF UnitInTx
  <2> QED BY <2>16, <2>17, <2>19
\* Sessions that are left alone, are out of a transaction, or enter a new one.
<1>3. ASSUME stmts' = stmts, txSeq' >= txSeq,
             \A t, u \in Thread : session'[t] # 0 /\ session'[t] = session'[u] => t = u,
             \A t \in Thread :
               \/ session'[t] = 0
               \/ session'[t] = txSeq + 1 /\ pipeline'[t] = "own"
               \/ /\ session'[t] = session[t] /\ server'[t] = server[t] /\ run' = run
                  /\ pipeline[t] = "own" => pipeline'[t] = "own"
      PROVE  UnitsOK'
  <2>1. Whole' = Whole /\ Writing' = Writing /\ (UnitInTx' <=> UnitInTx)
    BY <1>0, <1>3, CleanSame
  <2>2. \A i \in Whole : stmts[i].unit \in Nat /\ stmts[i].unit <= txSeq
    BY LogTypes DEF UnitsOK
  <2>3. \A i \in Writing : i \in Whole /\ stmts[i].unit # txSeq + 1
    BY <1>1, <2>2 DEF Writing, ModifiesAmong
  <2>4. \A i \in Whole : stmts[i].unit <= txSeq'
    BY <1>1, <1>3, <2>2
  <2>5. ASSUME ~MySQL
        PROVE  /\ \A t \in Thread : session'[t] # 0 => server'[t].open \/ pipeline'[t] = "own"
               /\ \A t \in Thread : \A i \in Writing :
                    session'[t] # 0 /\ stmts[i].unit = session'[t] =>
                        server'[t].open /\ stmts[i].tx = Current(t)'
    BY <1>3, <2>3, <2>5 DEF UnitsOK, Current
  <2> QED BY <1>0, <1>3, <2>1, <2>4, <2>5 DEF UnitsOK
<1> DEFINE Entered ==
               /\ txSeq' >= txSeq
               /\ \A t, u \in Thread : session'[t] # 0 /\ session'[t] = session'[u] => t = u
               /\ \A t \in Thread :
                    \/ session'[t] = 0
                    \/ session'[t] = txSeq + 1 /\ pipeline'[t] = "own"
                    \/ /\ session'[t] = session[t] /\ server'[t] = server[t] /\ run' = run
                       /\ pipeline[t] = "own" => pipeline'[t] = "own"
<1>4. ASSUME NEW t \in Thread, BatchStart(t)
      PROVE  Entered
  <2>1. CASE server[t].open
    <3>1. /\ UNCHANGED <<server, session, txSeq, run>> /\ pipeline[t] = "none"
          /\ pipeline' = [pipeline EXCEPT ![t] = "joined"]
      BY <1>4, <2>1 DEF BatchStart
    <3> QED BY <3>1, <1>1 DEF UnitsOK
  <2>2. CASE ~server[t].open
    <3>1. /\ UNCHANGED <<server, run>> /\ txSeq' = txSeq + 1
          /\ session' = [session EXCEPT ![t] = txSeq + 1]
          /\ pipeline' = [pipeline EXCEPT ![t] = "own"]
      BY <1>4, <2>2 DEF BatchStart
    <3>2. /\ session'[t] = txSeq + 1 /\ pipeline'[t] = "own"
          /\ \A u \in Thread \ {t} : session'[u] = session[u] /\ pipeline'[u] = pipeline[u]
      BY <3>1, <1>1
    <3>3. \A u \in Thread : session[u] # txSeq + 1
      <4>1. \A u \in Thread : session[u] \in 0..txSeq
        BY <1>1
      <4> QED BY <4>1, <1>1
    <3>4. \A u, v \in Thread : session'[u] # 0 /\ session'[u] = session'[v] => u = v
      BY <3>2, <3>3 DEF UnitsOK
    <3>5. txSeq' >= txSeq
      BY <3>1, <1>1
    <3> QED BY <3>1, <3>2, <3>4, <3>5
  <2> QED BY <2>1, <2>2
<1>5. ASSUME NEW t \in Thread, txSeq' = txSeq, run' = run,
             session' = [session EXCEPT ![t] = 0], \A u \in Thread \ {t} : server'[u] = server[u],
             pipeline' = [pipeline EXCEPT ![t] = "none"]
      PROVE  Entered
  <2>1. session'[t] = 0
    BY <1>1, <1>5
  <2>2. \A u \in Thread \ {t} : session'[u] = session[u] /\ pipeline'[u] = pipeline[u]
    BY <1>1, <1>5
  <2> QED BY <1>1, <1>5, <2>1, <2>2 DEF UnitsOK
<1>6. ASSUME NEW t \in Thread, BatchEnd(t)
      PROVE  Entered
  <2>1. UNCHANGED <<run, txSeq>> /\ pipeline' = [pipeline EXCEPT ![t] = "none"]
    BY <1>6 DEF BatchEnd
  <2>2. CASE pipeline[t] = "own"
    <3>1. server' = [server EXCEPT ![t].open = FALSE] /\ session' = [session EXCEPT ![t] = 0]
      BY <1>6, <2>2 DEF BatchEnd, SessionOK
    <3>2. \A u \in Thread \ {t} : server'[u] = server[u]
      BY <3>1, <1>1
    <3> QED BY <1>5, <2>1, <3>1, <3>2
  <2>3. CASE pipeline[t] # "own"
    <3>1. server' = server /\ session' = session
      BY <1>6, <2>3 DEF BatchEnd, SessionOK
    <3> QED BY <1>1, <2>1, <2>3, <3>1 DEF UnitsOK
  <2> QED BY <2>2, <2>3
<1>7. ASSUME NEW t \in Thread, ConnectionEnds(t)
      PROVE  Entered
  <2>1. /\ UNCHANGED <<run, txSeq>> /\ session' = [session EXCEPT ![t] = 0]
        /\ pipeline' = [pipeline EXCEPT ![t] = "none"]
        /\ server' = [server EXCEPT ![t].open = FALSE]
    BY <1>7 DEF ConnectionEnds
  <2>2. \A u \in Thread \ {t} : server'[u] = server[u]
    BY <2>1, <1>1
  <2> QED BY <1>5, <2>1, <2>2
<1>8. ASSUME Restart, stmts' = stmts
      PROVE  UnitsOK'
  <2>1. txSeq' = txSeq /\ \A t \in Thread : session'[t] = 0
    BY <1>8 DEF Restart
  <2> QED BY <1>1, <1>3, <1>8, <2>1
<1>9. ASSUME UNCHANGED <<server, parsed, gone, session, txSeq, pipeline, implicitBatch>>, run' = run
      PROVE  Entered
  BY <1>1, <1>9 DEF UnitsOK
<1> QED
  <2>1. ASSUME Entered, stmts' = stmts
        PROVE  UnitsOK'
    BY <1>3, <2>1
  <2> HIDE DEF Entered
  <2> QED BY <1>2, <1>4, <1>6, <1>7, <1>8, <1>9, <2>1, OtherSteps DEF Quit, Lose

LEMMA PgIdentityStep ==
    ASSUME Base, Base', TextsRead, ServerOK, PgIdentitiesOK, ~MySQL, [Next]_vars
    PROVE  PgIdentitiesOK'
<1>1. captures' = captures
  BY ConfigKept DEF configVars
<1>2. ASSUME NEW t \in Thread, NEW cmd \in DOMAIN World.texts,
             NEW text \in World.texts[cmd], Execute(t, cmd, text)
      PROVE  PgIdentitiesOK'
  <2>1. PICK n \in Whole' : /\ Whole' = Whole \cup {n} /\ n \notin Whole
                            /\ \A i \in Whole : stmts'[i] = stmts[i]
                            /\ stmts'[n] = Logged(t, cmd, text)
    BY <1>2, Executed
  <2>2. stmts'[n].tx = ServerTx(t, cmd) /\ stmts'[n].id = PgIdentity(t, cmd)
    BY <2>1 DEF Logged, Identity
  <2> DEFINE m == ServerAfter(t, cmd).n
  <2>3. ServerTx(t, cmd) = <<run, t, m>> /\ m \in Nat /\ m > 0
    BY ServerRuns
  <2>4. ~Active(t, cmd) => ~HasXid(t, cmd)
    BY DEF Base, WorldOK, Active, HasXid, ServerAfter
  <2>5. Vxid(t, cmd) = IF Active(t, cmd) THEN <<t, m>> ELSE <<t, 0>>
    BY DEF Vxid
  <2> HIDE DEF m
  <2>6. PgIdentity(t, cmd) \in {NoIdentity, IF "vxid" \in captures
                                            THEN <<"vxid", <<t, m>>>>
                                            ELSE <<"xid", <<run, t, m>>>>}
    <3>1. CASE "vxid" \in captures /\ Active(t, cmd)
      BY <3>1, <2>3, <2>5 DEF PgIdentity
    <3>2. CASE "vxid" \in captures /\ ~Active(t, cmd)
      BY <3>2, <2>4, <2>5 DEF PgIdentity
    <3>3. CASE "vxid" \notin captures
      BY <3>3, <2>3 DEF PgIdentity
    <3> QED BY <3>1, <3>2, <3>3
  <2> QED BY <1>1, <2>1, <2>2, <2>3, <2>6 DEF PgIdentitiesOK
<1>3. ASSUME stmts' = stmts
      PROVE  PgIdentitiesOK'
  BY <1>1, <1>3 DEF PgIdentitiesOK, Whole
<1> QED BY <1>2, <1>3, OtherSteps

LEMMA PgGrouped ==
    ASSUME Base, ServerOK, PgIdentitiesOK, ~MySQL, NumbersLast
    PROVE  GroupedAsRun
<1> SUFFICES ASSUME NEW i \in Whole, NEW j \in Whole,
                    stmts[i].id # NoIdentity, stmts[j].id # NoIdentity
             PROVE  stmts[i].id = stmts[j].id <=> stmts[i].tx = stmts[j].tx
  BY DEF GroupedAsRun
<1>1. /\ stmts[i].tx = <<stmts[i].tx[1], stmts[i].tx[2], stmts[i].tx[3]>>
      /\ stmts[j].tx = <<stmts[j].tx[1], stmts[j].tx[2], stmts[j].tx[3]>>
  BY LogTypes
<1>2. CASE "vxid" \in captures
  <2>1. run = 1
    BY <1>2 DEF NumbersLast
  <2>2. stmts[i].tx[1] = 1 /\ stmts[j].tx[1] = 1
    BY <2>1 DEF ServerOK
  <2>3. /\ stmts[i].id = <<"vxid", <<stmts[i].tx[2], stmts[i].tx[3]>>>>
        /\ stmts[j].id = <<"vxid", <<stmts[j].tx[2], stmts[j].tx[3]>>>>
    BY <1>2 DEF PgIdentitiesOK
  <2> QED BY <1>1, <2>2, <2>3
<1>3. CASE "vxid" \notin captures
  BY <1>3 DEF PgIdentitiesOK
<1> QED BY <1>2, <1>3

\* What mycheck makes of a statement, of which the server makes the same.
LEMMA MyMoves ==
    ASSUME Base, Base', TextsRead, ServerOK, MySQL, NEW t \in Thread, Steady(t),
           NEW cmd \in DOMAIN World.texts, NEW text \in World.texts[cmd],
           Execute(t, cmd, text), parsed[t].inTx <=> server[t].open
    PROVE  /\ StaysInTx(t, DefaultClassifier(text), text) <=> StaysOpen(t, cmd)
           /\ ~StartsTx(t, cmd) =>
                /\ cmd # "begin"
                /\ Identity(t, cmd, DefaultClassifier(text), text) = <<t, "tx", parsed[t].txSeq>>
           /\ StartsTx(t, cmd) /\ cmd = "begin" =>
                Identity(t, cmd, DefaultClassifier(text), text) = <<t, "tx", parsed[t].txSeq + 1>>
           /\ StartsTx(t, cmd) /\ cmd # "begin" =>
                /\ ~StaysOpen(t, cmd)
                /\ Identity(t, cmd, DefaultClassifier(text), text)
                     = <<t, "stmt", parsed[t].stmtSeq + 1>>
           /\ ThreadAfter(t, DefaultClassifier(text), text).txSeq
                = IF cmd = "begin" THEN parsed[t].txSeq + 1 ELSE parsed[t].txSeq
<1> DEFINE kind == DefaultClassifier(text)
<1>1. /\ kind = "begin" <=> cmd = "begin"
      /\ Ended(kind) <=> Ends(cmd)
      /\ IsImplicitCommit(text) <=> cmd = "create"
  BY TextRight
<1>2. cmd = "create" => cmd # "begin" /\ ~Ends(cmd)
  BY DEF Ends
<1> HIDE DEF kind
<1>3. CommitsImplicitly(kind, text) <=> cmd = "create"
  BY <1>1, <1>2 DEF CommitsImplicitly
<1>4. pipeline[t] = "none" /\ server[t].autocommit
  BY DEF Base, WorldOK, ServerOK
<1>5. StaysOpen(t, cmd) <=>
        cmd = "begin" \/ (server[t].open /\ ~Ends(cmd) /\ cmd \notin {"create", "begin"})
  BY <1>4 DEF StaysOpen, ServerCommitsBefore
<1>6. StartsTx(t, cmd) <=> ~server[t].open \/ cmd \in {"create", "begin"}
  BY <1>4 DEF StartsTx, ServerCommitsBefore
<1>7. StaysInTx(t, kind, text) <=> StaysOpen(t, cmd)
  BY <1>1, <1>3, <1>5 DEF StaysInTx
<1>8. Identity(t, cmd, kind, text) = MyIdentity(t, kind, text)
  BY DEF Identity
<1>9. /\ cmd = "begin" => MyIdentity(t, kind, text) = <<t, "tx", parsed[t].txSeq + 1>>
      /\ cmd # "begin" /\ server[t].open /\ cmd # "create" =>
           MyIdentity(t, kind, text) = <<t, "tx", parsed[t].txSeq>>
      /\ cmd # "begin" /\ (~server[t].open \/ cmd = "create") =>
           MyIdentity(t, kind, text) = <<t, "stmt", parsed[t].stmtSeq + 1>>
  BY <1>1, <1>3 DEF MyIdentity
<1>10. ThreadAfter(t, kind, text).txSeq
         = IF cmd = "begin" THEN parsed[t].txSeq + 1 ELSE parsed[t].txSeq
  BY <1>1 DEF ThreadAfter
<1> QED BY <1>5, <1>6, <1>7, <1>8, <1>9, <1>10 DEF kind

LEMMA MyIdentityExecute ==
    ASSUME Base, Base', TextsRead, ServerOK, MySQL, MyIdentitiesOK, GroupedAsRun,
           NEW t \in Thread, NEW cmd \in DOMAIN World.texts, NEW text \in World.texts[cmd],
           Execute(t, cmd, text)
    PROVE  MyIdentitiesOK' /\ GroupedAsRun'
<1> DEFINE thread == ThreadAfter(t, DefaultClassifier(text), text)
           id == Identity(t, cmd, DefaultClassifier(text), text)
           tx == ServerTx(t, cmd)
<1>1. /\ UNCHANGED <<run, gone>> /\ t \notin gone /\ World' = World
      /\ server' = [server EXCEPT ![t] = ServerAfter(t, cmd)]
      /\ parsed' = [parsed EXCEPT ![t] = thread]
  <2>1. parsed' = [parsed EXCEPT ![t] = thread]
    BY ExecuteLogs
  <2>2. World' = World
    BY ConfigKept DEF Next
  <2>3. /\ UNCHANGED <<run, gone>> /\ t \notin gone
        /\ server' = [server EXCEPT ![t] = ServerAfter(t, cmd)]
    BY DEF Execute
  <2> QED BY <2>1, <2>2, <2>3
<1>2. server \in [Thread -> ServerStates] /\ parsed \in [Thread -> ThreadStates]
  BY DEF Base, TypeOK, ServerStates, ThreadStates
<1>3. /\ \A u \in Thread \ {t} : server'[u] = server[u] /\ parsed'[u] = parsed[u]
                                 /\ Current(u)' = Current(u) /\ Current(u)[2] = u
      /\ server'[t].open = StaysOpen(t, cmd) /\ Current(t)' = tx /\ tx[2] = t
      /\ parsed'[t] = thread
  <2>1. server'[t] = ServerAfter(t, cmd) /\ \A u \in Thread \ {t} : server'[u] = server[u]
    BY <1>1, <1>2
  <2>2. parsed'[t] = thread /\ \A u \in Thread \ {t} : parsed'[u] = parsed[u]
    <3> HIDE DEF thread
    <3> QED BY <1>1, <1>2
  <2> QED BY <1>1, <2>1, <2>2, ServerRuns DEF Current
<1>4. \A u \in Thread : Followed(u)' <=> Followed(u)
  BY <1>1 DEF Followed
<1>5. Steady(t) => (parsed[t].inTx <=> server[t].open)
  BY <1>1 DEF MyIdentitiesOK, Followed
\* What mycheck makes of it in any case, and where autocommit has been on.
<1>6. /\ thread.stmtSeq = parsed[t].stmtSeq + 1
      /\ thread.txSeq \in {parsed[t].txSeq, parsed[t].txSeq + 1}
      /\ id \in {<<t, "tx", thread.txSeq>>, <<t, "stmt", thread.stmtSeq>>}
  <2>1. CASE DefaultClassifier(text) = "begin"
    BY <2>1 DEF ThreadAfter, Identity, MyIdentity
  <2>2. CASE DefaultClassifier(text) # "begin"
    BY <2>2 DEF ThreadAfter, Identity, MyIdentity
  <2> QED BY <2>1, <2>2
<1>7. ASSUME Steady(t)
      PROVE  /\ thread.inTx <=> StaysOpen(t, cmd)
             /\ ~StartsTx(t, cmd) => cmd # "begin" /\ id = <<t, "tx", parsed[t].txSeq>>
             /\ StartsTx(t, cmd) /\ cmd = "begin" => id = <<t, "tx", parsed[t].txSeq + 1>>
             /\ StartsTx(t, cmd) /\ cmd # "begin" =>
                  ~StaysOpen(t, cmd) /\ id = <<t, "stmt", parsed[t].stmtSeq + 1>>
             /\ thread.txSeq = IF cmd = "begin" THEN parsed[t].txSeq + 1 ELSE parsed[t].txSeq
  <2>1. thread.inTx <=> StaysInTx(t, DefaultClassifier(text), text)
    BY DEF ThreadAfter
  <2> QED BY <1>5, <1>7, <2>1, MyMoves
<1>8. /\ StartsTx(t, cmd) => \A i \in Whole : stmts[i].tx # tx
      /\ ~StartsTx(t, cmd) => server[t].open /\ tx = Current(t)
  BY ServerRuns
<1>9. PICK n \in Whole' : /\ Whole' = Whole \cup {n} /\ n \notin Whole
                          /\ \A i \in Whole : i \in Nat /\ n \in Nat /\ i < n
                          /\ \A i \in Whole : stmts'[i] = stmts[i]
                          /\ stmts'[n] = Logged(t, cmd, text)
  BY Executed
<1>10. stmts'[n].tx = tx /\ stmts'[n].id = id
  BY <1>9 DEF Logged
<1>20. \A u \in Thread : Steady(u)' => Steady(u)
  BY CleanBefore
\* Earlier statements are kept as before, and this one where autocommit has been on.
<1>22. /\ \A i \in Whole : AutocommitKept(i, {i})' => AutocommitKept(i, {i})
       /\ AutocommitKept(n, {n})' => Steady(t)
  <2>1. stmts'[n].tx[2] = t
    BY <1>3, <1>10
  <2> QED BY <1>9, <2>1 DEF AutocommitKept, Steady
<1> HIDE DEF thread, id, tx
<1>11. parsed[t].txSeq \in Nat /\ parsed[t].stmtSeq \in Nat
  BY <1>2 DEF ThreadStates
<1>12. \A i \in Whole : stmts[i].id \in ({stmts[i].tx[2]} \X {"tx"} \X (0..parsed[stmts[i].tx[2]].txSeq))
                          \cup ({stmts[i].tx[2]} \X {"stmt"} \X (0..parsed[stmts[i].tx[2]].stmtSeq))
  BY DEF MyIdentitiesOK
\* The numbers that are given next are new.
<1>13. ASSUME NEW i \in Whole
       PROVE  /\ stmts[i].id # <<t, "tx", parsed[t].txSeq + 1>>
              /\ stmts[i].id # <<t, "stmt", parsed[t].stmtSeq + 1>>
              /\ stmts[i].id[1] = stmts[i].tx[2] /\ stmts[i].id # NoIdentity
  <2> DEFINE u == stmts[i].tx[2]
  <2>1. \/ \E k \in 0..parsed[u].txSeq : stmts[i].id = <<u, "tx", k>>
        \/ \E k \in 0..parsed[u].stmtSeq : stmts[i].id = <<u, "stmt", k>>
    BY <1>12
  <2> HIDE DEF u
  <2>2. ASSUME NEW k \in 0..parsed[u].txSeq, stmts[i].id = <<u, "tx", k>>
        PROVE  /\ stmts[i].id # <<t, "tx", parsed[t].txSeq + 1>>
               /\ stmts[i].id # <<t, "stmt", parsed[t].stmtSeq + 1>>
               /\ stmts[i].id[1] = u /\ stmts[i].id # NoIdentity
    BY <2>2, <1>11 DEF NoIdentity
  <2>3. ASSUME NEW k \in 0..parsed[u].stmtSeq, stmts[i].id = <<u, "stmt", k>>
        PROVE  /\ stmts[i].id # <<t, "tx", parsed[t].txSeq + 1>>
               /\ stmts[i].id # <<t, "stmt", parsed[t].stmtSeq + 1>>
               /\ stmts[i].id[1] = u /\ stmts[i].id # NoIdentity
    BY <2>3, <1>11 DEF NoIdentity
  <2> QED BY <2>1, <2>2, <2>3 DEF u
<1>14. id[1] = t
  BY <1>6
\* An earlier statement has the identity of this one exactly if it has its transaction.
<1>15. ASSUME NEW i \in Whole, Steady(t)
       PROVE  stmts[i].id = id <=> stmts[i].tx = tx
  <2>1. CASE StartsTx(t, cmd)
    BY <2>1, <1>7, <1>8, <1>13, <1>15
  <2>2. CASE ~StartsTx(t, cmd)
    <3>1. Followed(t) /\ server[t].open /\ tx = Current(t) /\ id = <<t, "tx", parsed[t].txSeq>>
      BY <2>2, <1>1, <1>7, <1>8, <1>15 DEF Followed
    <3> QED BY <3>1, <1>15 DEF MyIdentitiesOK
  <2> QED BY <2>1, <2>2
<1>16. \A u \in Thread : Followed(u)' /\ Steady(u)' => (parsed'[u].inTx <=> server'[u].open)
  <2>1. \A u \in Thread \ {t} : Followed(u)' /\ Steady(u)' => (parsed'[u].inTx <=> server'[u].open)
    BY <1>3, <1>4, <1>20 DEF MyIdentitiesOK
  <2>2. Steady(t)' => (parsed'[t].inTx <=> server'[t].open)
    BY <1>3, <1>7, <1>20
  <2> QED BY <2>1, <2>2
<1>17. ASSUME NEW i \in Whole'
       PROVE  stmts'[i].id \in
                ({stmts'[i].tx[2]} \X {"tx"} \X (0..parsed'[stmts'[i].tx[2]].txSeq))
                  \cup ({stmts'[i].tx[2]} \X {"stmt"} \X (0..parsed'[stmts'[i].tx[2]].stmtSeq))
  <2>2. \A u \in Thread : /\ 0..parsed[u].txSeq \subseteq 0..parsed'[u].txSeq
                          /\ 0..parsed[u].stmtSeq \subseteq 0..parsed'[u].stmtSeq
    BY <1>2, <1>3, <1>6, <1>11 DEF ThreadStates
  <2>3. CASE i \in Whole
    <3>1. stmts[i].tx[2] \in Thread /\ stmts'[i] = stmts[i]
      BY <2>3, <1>9, LogTypes
    <3> DEFINE u == stmts[i].tx[2]
    <3>2. /\ stmts[i].id \in ({u} \X {"tx"} \X (0..parsed[u].txSeq))
                               \cup ({u} \X {"stmt"} \X (0..parsed[u].stmtSeq))
      BY <2>3, <1>12
    <3>3. /\ 0..parsed[u].txSeq \subseteq 0..parsed'[u].txSeq
          /\ 0..parsed[u].stmtSeq \subseteq 0..parsed'[u].stmtSeq
      BY <2>2, <3>1
    <3> HIDE DEF u
    <3>4. stmts[i].id \in ({u} \X {"tx"} \X (0..parsed'[u].txSeq))
                            \cup ({u} \X {"stmt"} \X (0..parsed'[u].stmtSeq))
      BY <3>2, <3>3
    <3> QED BY <3>1, <3>4 DEF u
  <2>4. CASE i = n
    <3>1. \/ \E k \in 0..parsed'[t].txSeq : id = <<t, "tx", k>>
          \/ \E k \in 0..parsed'[t].stmtSeq : id = <<t, "stmt", k>>
      <4>1. parsed'[t].txSeq \in 0..parsed'[t].txSeq /\ parsed'[t].stmtSeq \in 0..parsed'[t].stmtSeq
        BY <1>3, <1>6, <1>11
      <4> QED BY <4>1, <1>3, <1>6
    <3>2. stmts'[i].id = id /\ stmts'[i].tx[2] = t
      BY <2>4, <1>3, <1>10
    <3> QED BY <3>1, <3>2
  <2> QED BY <2>3, <2>4, <1>9
<1>18. ASSUME NEW u \in Thread, NEW i \in Whole', Followed(u)', Steady(u)', server'[u].open
       PROVE  stmts'[i].id = <<u, "tx", parsed'[u].txSeq>> <=> stmts'[i].tx = Current(u)'
  <2>1. CASE u # t
    <3>1. /\ Followed(u) /\ Steady(u) /\ server[u].open
          /\ parsed'[u] = parsed[u] /\ Current(u)' = Current(u)
      BY <2>1, <1>3, <1>4, <1>18, <1>20
    <3>2. CASE i \in Whole
      BY <3>1, <3>2, <1>9 DEF MyIdentitiesOK
    <3>3. CASE i = n
      <4>1. stmts'[i].id # <<u, "tx", parsed'[u].txSeq>>
        BY <2>1, <3>3, <1>10, <1>14
      <4>2. stmts'[i].tx # Current(u)'
        BY <2>1, <3>3, <1>3, <1>10
      <4> QED BY <4>1, <4>2
    <3> QED BY <3>2, <3>3, <1>9
  <2>2. CASE u = t
    <3>1. Steady(t) /\ StaysOpen(t, cmd) /\ Current(t)' = tx
      BY <2>2, <1>3, <1>18, <1>20
    <3>2. id = <<t, "tx", parsed'[t].txSeq>>
      BY <3>1, <1>3, <1>7
    <3> QED BY <2>2, <3>1, <3>2, <1>9, <1>10, <1>15
  <2> QED BY <2>1, <2>2
<1>19. MyIdentitiesOK'
  BY <1>16, <1>17, <1>18 DEF MyIdentitiesOK
<1>21. ASSUME NEW i \in Whole', NEW j \in Whole', AutocommitKept(i, {i})', AutocommitKept(j, {j})'
       PROVE  stmts'[i].id = stmts'[j].id <=> stmts'[i].tx = stmts'[j].tx
  <2>1. CASE i \in Whole /\ j \in Whole
    <3>1. stmts[i].id # NoIdentity /\ stmts[j].id # NoIdentity
      BY <2>1, <1>13
    <3>2. AutocommitKept(i, {i}) /\ AutocommitKept(j, {j})
      BY <2>1, <1>21, <1>22
    <3> QED BY <2>1, <3>1, <3>2, <1>9 DEF GroupedAsRun
  <2>2. CASE i \in Whole /\ j = n
    BY <2>2, <1>9, <1>10, <1>15, <1>21, <1>22
  <2>3. CASE i = n /\ j \in Whole
    BY <2>3, <1>9, <1>10, <1>15, <1>21, <1>22
  <2> QED BY <2>1, <2>2, <2>3, <1>9
<1> QED BY <1>19, <1>21 DEF GroupedAsRun

LEMMA MyIdentityStep ==
    ASSUME Base, Base', TextsRead, ServerOK, MySQL, NumbersLast', MyIdentitiesOK,
           GroupedAsRun, [Next]_vars
    PROVE  MyIdentitiesOK' /\ GroupedAsRun'
<1>0. World' = World /\ (MySQL' <=> MySQL)
  BY ConfigKept
<1>1. /\ server \in [Thread -> ServerStates] /\ parsed \in [Thread -> ThreadStates]
      /\ run \in 1..World.runs \cup {1}
  BY DEF Base, TypeOK, ServerStates, ThreadStates
<1>2. ASSUME stmts' = stmts
      PROVE  GroupedAsRun' /\ Whole' = Whole
  BY <1>2 DEF GroupedAsRun, AutocommitKept, Whole
\* Threads that are as before, or in no transaction.
<1>3. ASSUME stmts' = stmts,
             \A t \in Thread :
               /\ parsed'[t].txSeq = parsed[t].txSeq /\ parsed'[t].stmtSeq = parsed[t].stmtSeq
               /\ Followed(t)' /\ Steady(t) =>
                    \/ ~parsed'[t].inTx /\ ~server'[t].open
                    \/ Followed(t) /\ parsed'[t] = parsed[t] /\ server'[t] = server[t] /\ run' = run
      PROVE  MyIdentitiesOK' /\ GroupedAsRun'
  <2>1. GroupedAsRun' /\ Whole' = Whole
    BY <1>2, <1>3
  <2>5. \A t \in Thread : Steady(t)' <=> Steady(t)
    BY <1>3, CleanSame
  <2>2. \A t \in Thread : Followed(t)' /\ Steady(t)' => (parsed'[t].inTx <=> server'[t].open)
    BY <1>3, <2>5 DEF MyIdentitiesOK
  <2>3. ASSUME NEW i \in Whole
        PROVE  stmts'[i].id \in
                 ({stmts'[i].tx[2]} \X {"tx"} \X (0..parsed'[stmts'[i].tx[2]].txSeq))
                   \cup ({stmts'[i].tx[2]} \X {"stmt"} \X (0..parsed'[stmts'[i].tx[2]].stmtSeq))
    <3>1. stmts[i].tx[2] \in Thread
      BY LogTypes
    <3> QED BY <3>1, <1>3 DEF MyIdentitiesOK
  <2>4. ASSUME NEW t \in Thread, NEW i \in Whole, Followed(t)', Steady(t)', server'[t].open
        PROVE  stmts'[i].id = <<t, "tx", parsed'[t].txSeq>> <=> stmts'[i].tx = Current(t)'
    <3>1. /\ Followed(t) /\ Steady(t) /\ parsed'[t] = parsed[t] /\ server'[t] = server[t]
          /\ Current(t)' = Current(t)
      BY <1>3, <2>4, <2>5 DEF Current
    <3> QED BY <3>1, <2>4, <1>3 DEF MyIdentitiesOK
  <2> QED BY <2>1, <2>2, <2>3, <2>4 DEF MyIdentitiesOK
<1> DEFINE Apart ==
             \A t \in Thread :
               /\ parsed'[t].txSeq = parsed[t].txSeq /\ parsed'[t].stmtSeq = parsed[t].stmtSeq
               /\ Followed(t)' /\ Steady(t) =>
                    \/ ~parsed'[t].inTx /\ ~server'[t].open
                    \/ Followed(t) /\ parsed'[t] = parsed[t] /\ server'[t] = server[t] /\ run' = run
<1>4. ASSUME NEW t \in Thread, BatchStart(t) \/ BatchEnd(t)
      PROVE  FALSE
  BY <1>4, Worlds DEF BatchStart, BatchEnd, Base, WorldOK
<1>5. ASSUME NEW t \in Thread, ConnectionEnds(t)
      PROVE  /\ run' = run /\ gone' = gone \cup {t}
             /\ ~server'[t].open /\ \A u \in Thread \ {t} : server'[u] = server[u]
  <2>1. run' = run /\ gone' = gone \cup {t} /\ server' = [server EXCEPT ![t].open = FALSE]
    BY <1>5 DEF ConnectionEnds
  <2> QED BY <2>1, <1>1 DEF ServerStates
<1>6. ASSUME NEW t \in Thread, Quit(t)
      PROVE  Apart
  <2>1. /\ run' = run /\ gone' = gone \cup {t}
        /\ ~server'[t].open /\ \A u \in Thread \ {t} : server'[u] = server[u]
    BY <1>5, <1>6 DEF Quit
  <2>2. parsed' = [parsed EXCEPT ![t].inTx = FALSE]
    BY <1>6 DEF Quit
  <2>3. /\ parsed'[t].txSeq = parsed[t].txSeq /\ parsed'[t].stmtSeq = parsed[t].stmtSeq
        /\ ~parsed'[t].inTx
        /\ \A u \in Thread \ {t} : parsed'[u] = parsed[u]
    BY <2>2, <1>1 DEF ThreadStates
  <2> QED BY <2>1, <2>3, <1>0 DEF Followed
<1>7. ASSUME NEW t \in Thread, Lose(t)
      PROVE  Apart
  <2>1. /\ run' = run /\ gone' = gone \cup {t}
        /\ ~server'[t].open /\ \A u \in Thread \ {t} : server'[u] = server[u]
        /\ World.unclean \/ ~server[t].open
        /\ parsed' = parsed
    BY <1>5, <1>7 DEF Lose
  <2>2. Followed(t)' /\ Steady(t) => ~parsed'[t].inTx
    BY <2>1, <1>0 DEF Followed, MyIdentitiesOK
  <2> QED BY <2>1, <2>2, <1>0 DEF Followed
<1>8. ASSUME Restart
      PROVE  Apart
  <2>1. /\ run' = run + 1 /\ parsed' = parsed /\ server' = [t \in Thread |-> Fresh]
        /\ World.unclean \/ \A t \in Thread : ~server[t].open
    BY <1>8 DEF Restart
  <2>2. ~World.unclean
    <3>1. run' # 1
      BY <2>1, <1>1, Worlds DEF Base
    <3> QED BY <3>1, <1>0 DEF NumbersLast
  <2>3. \A t \in Thread : ~server'[t].open /\ (Steady(t) => ~parsed[t].inTx)
    BY <2>1, <2>2 DEF Followed, MyIdentitiesOK, Fresh
  <2> QED BY <2>1, <2>3
<1>9. ASSUME UNCHANGED <<server, parsed, gone, session, txSeq, pipeline, implicitBatch>>, run' = run
      PROVE  Apart
  BY <1>9, <1>0 DEF Followed
<1> QED
  <2>1. ASSUME Apart, stmts' = stmts
        PROVE  MyIdentitiesOK' /\ GroupedAsRun'
    BY <1>3, <2>1
  <2> HIDE DEF Apart
  <2> QED BY <1>4, <1>6, <1>7, <1>8, <1>9, <2>1, OtherSteps, MyIdentityExecute

LEMMA NumbersLasted ==
    ASSUME Base, NumbersLast', [Next]_vars
    PROVE  NumbersLast
<1>1. UNCHANGED configVars /\ World' = World /\ (MySQL' <=> MySQL)
  BY ConfigKept
<1>2. captures' = captures
  BY <1>1 DEF configVars
<1>3. run' = 1 => run = 1
  <2>1. run' = run \/ run' = run + 1
    BY ConfigKept
  <2>2. run \in Nat /\ run # 0
    BY Worlds DEF Base, TypeOK
  <2> QED BY <2>1, <2>2
<1> QED BY <1>1, <1>2, <1>3 DEF NumbersLast

LEMMA IdentitiesStep ==
    ASSUME Base, Base', TextsRead, ServerOK, IdentitiesOK, [Next]_vars
    PROVE  IdentitiesOK'
<1>1. MySQL' <=> MySQL
  BY ConfigKept
<1>2. ~MySQL => PgIdentitiesOK'
  BY PgIdentityStep DEF IdentitiesOK
<1>3. ASSUME MySQL, NumbersLast'
      PROVE  MyIdentitiesOK' /\ GroupedAsRun'
  <2>1. NumbersLast
    BY <1>3, NumbersLasted
  <2> QED BY <1>3, <2>1, MyIdentityStep DEF IdentitiesOK
<1> QED BY <1>1, <1>2, <1>3 DEF IdentitiesOK

(***************************************************************************)
(* Reading texts: of a text written as SqlText has it, the words are read,  *)
(* whatever the number and the length of the blanks and comments.          *)
(***************************************************************************)

LineComments == {Dashes, DashesAndHash}

\* Where StripLeading goes on after looking at position i; i itself where it
\* stops.
Jump(q, lc, i) ==
    CASE i <= Len(q) /\ q[i] \in Blank -> i + 1
      [] \E c \in lc : Occurs(q, c, i) -> Past(q, <<NewLine>>, i)
      [] Occurs(q, <<"/", "*">>, i) -> Past(q, <<"*", "/">>, i)
      [] OTHER -> i

LEMMA Characters ==
    /\ "-" \notin Blank /\ "/" \notin Blank /\ "#" \notin Blank
    /\ "-" # "/" /\ "#" # "/" /\ "*" # "/" /\ "-" # "*" /\ "#" # "-"
    /\ NewLine # "-" /\ NewLine # "/" /\ NewLine # "*"
    /\ \A x : IsWord(x) => x \notin Blank /\ x # "-" /\ x # "/" /\ x # "#"
<1>1. "-" \notin Blank /\ "/" \notin Blank /\ "#" \notin Blank
  BY Zenon DEF Blank, NewLine
<1>2. "-" # "/" /\ "#" # "/" /\ "*" # "/" /\ "-" # "*" /\ "#" # "-"
  BY Zenon
<1>3. NewLine # "-" /\ NewLine # "/" /\ NewLine # "*"
  BY Zenon DEF NewLine
<1>4. \A x : IsWord(x) => x \notin Blank /\ x # "-" /\ x # "/" /\ x # "#"
  BY Zenon DEF IsWord, Mark
<1> QED BY <1>1, <1>2, <1>3, <1>4

LEMMA OccursOne ==
    ASSUME NEW S, NEW q \in Seq(S), NEW x, NEW i \in Nat \ {0}
    PROVE  Occurs(q, <<x>>, i) <=> i <= Len(q) /\ q[i] = x
<1>1. Len(<<x>>) = 1 /\ Len(q) \in Nat
  OBVIOUS
<1>2. CASE i <= Len(q)
  <2>1. SubSeq(q, i, i) = <<q[i]>>
    <3> DEFINE s == SubSeq(q, i, i)
               t == <<q[i]>>
    <3>1. s \in Seq(S) /\ Len(s) = 1 /\ s[1] = q[i]
      BY <1>1, <1>2
    <3>2. q[i] \in S
      BY <1>1, <1>2
    <3>3. t \in Seq(S) /\ Len(t) = 1 /\ t[1] = q[i]
      BY <3>2
    <3> HIDE DEF s, t
    <3>4. \A k \in 1..1 : s[k] = t[k]
      <4>1. \A k \in 1..1 : k = 1
        OBVIOUS
      <4> QED BY <4>1, <3>1, <3>3
    <3>5. s = t
      BY <3>1, <3>3, <3>4
    <3> QED BY <3>5 DEF s, t
  <2>2. <<q[i]>> = <<x>> <=> q[i] = x
    OBVIOUS
  <2>3. i + 1 <= Len(q) + 1 /\ i + 1 - 1 = i
    BY <1>1, <1>2
  <2> QED BY <1>1, <1>2, <2>1, <2>2, <2>3 DEF Occurs
<1>3. CASE ~(i <= Len(q))
  <2>1. ~(i + 1 <= Len(q) + 1)
    BY <1>1, <1>3
  <2> QED BY <1>1, <1>3, <2>1 DEF Occurs
<1> QED BY <1>2, <1>3

LEMMA OccursTwo ==
    ASSUME NEW S, NEW q \in Seq(S), NEW x, NEW y, NEW i \in Nat \ {0}
    PROVE  Occurs(q, <<x, y>>, i) <=> i + 1 <= Len(q) /\ q[i] = x /\ q[i + 1] = y
<1>1. Len(<<x, y>>) = 2 /\ Len(q) \in Nat
  OBVIOUS
<1>2. CASE i + 1 <= Len(q)
  <2>1. SubSeq(q, i, i + 1) = <<q[i], q[i + 1]>>
    <3> DEFINE s == SubSeq(q, i, i + 1)
               t == <<q[i], q[i + 1]>>
    <3>1. s \in Seq(S) /\ Len(s) = 2 /\ s[1] = q[i] /\ s[2] = q[i + 1]
      BY <1>1, <1>2
    <3>2. q[i] \in S /\ q[i + 1] \in S
      BY <1>1, <1>2
    <3>3. t \in Seq(S) /\ Len(t) = 2 /\ t[1] = q[i] /\ t[2] = q[i + 1]
      BY <3>2
    <3> HIDE DEF s, t
    <3>4. \A k \in 1..2 : s[k] = t[k]
      <4>1. \A k \in 1..2 : k = 1 \/ k = 2
        OBVIOUS
      <4> QED BY <4>1, <3>1, <3>3
    <3>5. s = t
      BY <3>1, <3>3, <3>4
    <3> QED BY <3>5 DEF s, t
  <2>2. <<q[i], q[i + 1]>> = <<x, y>> <=> q[i] = x /\ q[i + 1] = y
    OBVIOUS
  <2>3. i + 2 <= Len(q) + 1 /\ i + 2 - 1 = i + 1
    BY <1>1, <1>2
  <2> QED BY <1>1, <1>2, <2>1, <2>2, <2>3 DEF Occurs
<1>3. CASE ~(i + 1 <= Len(q))
  <2>1. ~(i + 2 <= Len(q) + 1)
    BY <1>1, <1>3
  <2> QED BY <1>1, <1>3, <2>1 DEF Occurs
<1> QED BY <1>2, <1>3

LEMMA LeastIsMin ==
    ASSUME NEW T, T \subseteq Nat, T # {}
    PROVE  Min(T) \in T /\ \A j \in T : Min(T) <= j
<1>1. \E k \in T : \A j \in T : k <= j
  BY Least
<1> QED BY <1>1 DEF Min

\* Past is where the first occurrence ends, and ahead of where the search began.
LEMMA PastFirst ==
    ASSUME NEW S, NEW q \in Seq(S), NEW s, Len(s) \in Nat, NEW i \in Nat \ {0},
           NEW k \in i..Len(q), Occurs(q, s, k), \A j \in i..(k - 1) : ~Occurs(q, s, j)
    PROVE  Past(q, s, i) = k + Len(s)
<1> DEFINE T == {j \in i..Len(q) : Occurs(q, s, j)}
<1>1. T \subseteq Nat /\ k \in T /\ k \in Nat
  OBVIOUS
<1>2. Min(T) \in T /\ \A j \in T : Min(T) <= j
  <2> HIDE DEF T
  <2> QED BY <1>1, LeastIsMin
<1>3. Min(T) = k
  <2>1. PICK m \in T : m = Min(T) /\ m <= k
    BY <1>1, <1>2
  <2>2. m \in i..Len(q) /\ Occurs(q, s, m)
    OBVIOUS
  <2>3. m \notin i..(k - 1)
    BY <2>2
  <2> QED BY <1>1, <2>1, <2>2, <2>3
<1>4. T # {}
  BY <1>1
<1>5. Past(q, s, i) = Min(T) + Len(s)
  BY <1>4 DEF Past
<1> QED BY <1>3, <1>5

LEMMA PastNone ==
    ASSUME NEW S, NEW q \in Seq(S), NEW s, NEW i \in Nat \ {0},
           \A j \in i..Len(q) : ~Occurs(q, s, j)
    PROVE  Past(q, s, i) = Len(q) + 1
<1>1. {j \in i..Len(q) : Occurs(q, s, j)} = {}
  OBVIOUS
<1> QED BY <1>1 DEF Past

LEMMA PastAhead ==
    ASSUME NEW S, NEW q \in Seq(S), NEW s, Len(s) \in Nat \ {0}, NEW i \in 1..Len(q)
    PROVE  Past(q, s, i) \in (i + 1)..(Len(q) + 1)
<1> DEFINE T == {j \in i..Len(q) : Occurs(q, s, j)}
<1>1. T \subseteq Nat /\ Len(q) \in Nat /\ i \in Nat /\ i <= Len(q)
  OBVIOUS
<1>2. CASE T = {}
  <2>1. Past(q, s, i) = Len(q) + 1
    BY <1>2 DEF Past
  <2> QED BY <1>1, <2>1
<1>3. CASE T # {}
  <2>1. Past(q, s, i) = Min(T) + Len(s)
    BY <1>3 DEF Past
  <2>2. Min(T) \in T
    <3> HIDE DEF T
    <3> QED BY <1>1, <1>3, LeastIsMin
  <2>3. PICK m \in T : m = Min(T)
    BY <2>2
  <2>4. m \in Nat /\ i <= m /\ m + Len(s) <= Len(q) + 1
    BY <1>1 DEF Occurs
  <2> QED BY <1>1, <2>1, <2>3, <2>4
<1> QED BY <1>2, <1>3

LEMMA Arms ==
    ASSUME NEW S, NEW q \in Seq(S), NEW lc \in LineComments, NEW i \in 1..(Len(q) + 1)
    PROVE  /\ (\E c \in lc : Occurs(q, c, i)) =>
                 /\ i \in 1..Len(q) /\ q[i] \in {"-", "#"}
           /\ Occurs(q, <<"/", "*">>, i) => i \in 1..Len(q) /\ q[i] = "/"
           /\ i \in 1..Len(q) \/ i = Len(q) + 1
<1>1. i \in Nat \ {0} /\ Len(q) \in Nat
  OBVIOUS
<1>2. Occurs(q, <<"-", "-">>, i) => i \in 1..Len(q) /\ q[i] = "-"
  BY <1>1, OccursTwo
<1>3. Occurs(q, <<"#">>, i) => i \in 1..Len(q) /\ q[i] = "#"
  BY <1>1, OccursOne
<1>4. Occurs(q, <<"/", "*">>, i) => i \in 1..Len(q) /\ q[i] = "/"
  BY <1>1, OccursTwo
<1>5. \A c \in lc : c = <<"-", "-">> \/ c = <<"#">>
  BY DEF LineComments, Dashes, DashesAndHash
<1>6. i \in 1..Len(q) \/ i = Len(q) + 1
  BY <1>1
<1> QED BY <1>2, <1>3, <1>4, <1>5, <1>6

\* What Jump is on a blank, at a comment and elsewhere.
LEMMA JumpIs ==
    ASSUME NEW S, NEW q \in Seq(S), NEW lc \in LineComments, NEW i \in 1..(Len(q) + 1)
    PROVE  /\ i <= Len(q) /\ q[i] \in Blank => Jump(q, lc, i) = i + 1
           /\ (\E c \in lc : Occurs(q, c, i)) => Jump(q, lc, i) = Past(q, <<NewLine>>, i)
           /\ Occurs(q, <<"/", "*">>, i) => Jump(q, lc, i) = Past(q, <<"*", "/">>, i)
           /\ ~(i <= Len(q) /\ q[i] \in Blank) /\ ~(\E c \in lc : Occurs(q, c, i))
                 /\ ~Occurs(q, <<"/", "*">>, i) => Jump(q, lc, i) = i
<1> DEFINE A1 == i <= Len(q) /\ q[i] \in Blank
           A2 == \E c \in lc : Occurs(q, c, i)
           A3 == Occurs(q, <<"/", "*">>, i)
<1>1. A2 => ~A1 /\ ~A3
  BY Arms, Characters
<1>2. A3 => ~A1 /\ ~A2
  BY Arms, Characters
<1>3. Jump(q, lc, i) = CASE A1 -> i + 1 [] A2 -> Past(q, <<NewLine>>, i)
                         [] A3 -> Past(q, <<"*", "/">>, i) [] OTHER -> i
  BY DEF Jump
<1> HIDE DEF A1, A2, A3
<1>4. /\ A1 => Jump(q, lc, i) = i + 1
      /\ A2 => Jump(q, lc, i) = Past(q, <<NewLine>>, i)
      /\ A3 => Jump(q, lc, i) = Past(q, <<"*", "/">>, i)
      /\ ~A1 /\ ~A2 /\ ~A3 => Jump(q, lc, i) = i
  BY <1>1, <1>2, <1>3
<1> QED BY <1>4 DEF A1, A2, A3

LEMMA JumpAhead ==
    ASSUME NEW S, NEW q \in Seq(S), NEW lc \in LineComments, NEW i \in 1..(Len(q) + 1)
    PROVE  Jump(q, lc, i) = i \/ Jump(q, lc, i) \in (i + 1)..(Len(q) + 1)
<1>1. Len(q) \in Nat /\ i \in Nat
  OBVIOUS
<1>2. CASE i <= Len(q) /\ q[i] \in Blank
  BY <1>1, <1>2, JumpIs
<1>3. CASE \E c \in lc : Occurs(q, c, i)
  <2>1. i \in 1..Len(q) /\ Jump(q, lc, i) = Past(q, <<NewLine>>, i)
    BY <1>3, JumpIs, Arms
  <2>2. Len(<<NewLine>>) \in Nat \ {0}
    OBVIOUS
  <2> QED BY <2>1, <2>2, PastAhead
<1>4. CASE Occurs(q, <<"/", "*">>, i)
  <2>1. i \in 1..Len(q) /\ Jump(q, lc, i) = Past(q, <<"*", "/">>, i)
    BY <1>4, JumpIs, Arms
  <2>2. Len(<<"*", "/">>) \in Nat \ {0}
    OBVIOUS
  <2> QED BY <2>1, <2>2, PastAhead
<1> QED BY <1>2, <1>3, <1>4, JumpIs

\* A function that follows jumps ahead to where they end exists.
LEMMA FollowExists ==
    ASSUME NEW N \in Nat, NEW g,
           \A i \in 1..N : g[i] = i \/ g[i] \in (i + 1)..N
    PROVE  \E f : f = [i \in 1..N |-> IF g[i] = i THEN i ELSE f[g[i]]]
<1> DEFINE Has(n) == \E f : f = [i \in (N + 1 - n)..N |-> IF g[i] = i THEN i ELSE f[g[i]]]
           T == {n \in 0..N : ~Has(n)}
<1> SUFFICES ASSUME T # {} PROVE FALSE
  <2>1. N \notin T
    OBVIOUS
  <2>2. N \in 0..N /\ N + 1 - N = 1
    OBVIOUS
  <2> HIDE DEF Has
  <2>3. Has(N)
    BY <2>1, <2>2
  <2> QED BY <2>2, <2>3 DEF Has
<1> HIDE DEF Has
<1>1. T \subseteq Nat
  OBVIOUS
<1>2. PICK k \in T : \A j \in T : k <= j
  BY <1>1, Least
<1>3. k \in 0..N /\ k \in Nat /\ ~Has(k)
  OBVIOUS
<1>4. k # 0
  <2>1. (N + 1 - 0)..N = {}
    OBVIOUS
  <2>2. <<>> = [i \in {} |-> IF g[i] = i THEN i ELSE <<>>[g[i]]]
    OBVIOUS
  <2>3. Has(0)
    BY <2>1, <2>2 DEF Has
  <2> QED BY <1>3, <2>3
<1>5. k - 1 \in 0..N /\ k - 1 \notin T
  BY <1>2, <1>3, <1>4
<1>6. Has(k - 1)
  BY <1>5
<1> DEFINE a == N + 1 - k
<1>7. a \in 1..N /\ N + 1 - (k - 1) = a + 1 /\ a \in Nat
  BY <1>3, <1>4
<1>8. PICK f : f = [i \in (a + 1)..N |-> IF g[i] = i THEN i ELSE f[g[i]]]
  BY <1>6, <1>7 DEF Has
<1> HIDE DEF a
<1> DEFINE first == IF g[a] = a THEN a ELSE f[g[a]]
           h == [i \in a..N |-> IF i = a THEN first ELSE f[i]]
<1>9. ASSUME NEW i \in a..N
      PROVE  h[i] = IF g[i] = i THEN i ELSE h[g[i]]
  <2>0. i \in 1..N /\ i \in Nat /\ a <= i
    BY <1>7
  <2>1. g[i] # i => g[i] \in (a + 1)..N /\ g[i] \in a..N /\ g[i] # a
    BY <1>7, <2>0
  <2>2. g[i] # i => h[g[i]] = f[g[i]]
    BY <2>1
  <2>3. CASE i = a
    BY <2>2, <2>3
  <2>4. CASE i # a
    <3>1. i \in (a + 1)..N
      BY <1>7, <2>0, <2>4
    <3>2. h[i] = f[i] /\ f[i] = IF g[i] = i THEN i ELSE f[g[i]]
      BY <1>8, <2>4, <3>1
    <3> QED BY <2>2, <3>2
  <2> QED BY <2>3, <2>4
<1>10. h = [i \in a..N |-> IF g[i] = i THEN i ELSE h[g[i]]]
  BY <1>9
<1>11. Has(k)
  <2> HIDE DEF h
  <2> QED BY <1>10 DEF Has, a
<1> QED BY <1>3, <1>11

\* StripLeading follows the jumps from the first position.
LEMMA Strips ==
    ASSUME NEW S, NEW q \in Seq(S), NEW lc \in LineComments
    PROVE  \E f : /\ StripLeading(q, lc) = SubSeq(q, f[1], Len(q))
                  /\ \A i \in 1..(Len(q) + 1) :
                        f[i] = IF Jump(q, lc, i) = i THEN i ELSE f[Jump(q, lc, i)]
<1> DEFINE N == Len(q) + 1
           g == [i \in 1..N |-> Jump(q, lc, i)]
           Turn(f, i) ==
               CASE i <= Len(q) /\ q[i] \in Blank -> f[i + 1]
                 [] \E c \in lc : Occurs(q, c, i) -> f[Past(q, <<NewLine>>, i)]
                 [] Occurs(q, <<"/", "*">>, i) -> f[Past(q, <<"*", "/">>, i)]
                 [] OTHER -> i
           start == CHOOSE f : f = [i \in 1..N |-> Turn(f, i)]
<1>1. N \in Nat /\ N = Len(q) + 1
  OBVIOUS
<1>2. \A i \in 1..N : g[i] = i \/ g[i] \in (i + 1)..N
  <2>1. \A i \in 1..N : g[i] = Jump(q, lc, i)
    OBVIOUS
  <2> HIDE DEF g
  <2> QED BY <2>1, JumpAhead
<1>3. ASSUME NEW f, NEW i \in 1..N
      PROVE  Turn(f, i) = IF Jump(q, lc, i) = i THEN i ELSE f[Jump(q, lc, i)]
  <2> DEFINE A1 == i <= Len(q) /\ q[i] \in Blank
             A2 == \E c \in lc : Occurs(q, c, i)
             A3 == Occurs(q, <<"/", "*">>, i)
  <2>1. A2 => ~A1 /\ ~A3 /\ i \in 1..Len(q)
    BY Arms, Characters
  <2>2. A3 => ~A1 /\ ~A2 /\ i \in 1..Len(q)
    BY Arms, Characters
  <2>3. /\ A1 => Jump(q, lc, i) = i + 1
        /\ A2 => Jump(q, lc, i) = Past(q, <<NewLine>>, i)
        /\ A3 => Jump(q, lc, i) = Past(q, <<"*", "/">>, i)
        /\ ~A1 /\ ~A2 /\ ~A3 => Jump(q, lc, i) = i
    BY JumpIs
  <2>4. Turn(f, i) = CASE A1 -> f[i + 1] [] A2 -> f[Past(q, <<NewLine>>, i)]
                       [] A3 -> f[Past(q, <<"*", "/">>, i)] [] OTHER -> i
    OBVIOUS
  <2>5. /\ i \in Nat /\ i + 1 # i
        /\ A2 => Past(q, <<NewLine>>, i) # i
        /\ A3 => Past(q, <<"*", "/">>, i) # i
    <3>1. Len(<<NewLine>>) \in Nat \ {0} /\ Len(<<"*", "/">>) \in Nat \ {0}
      OBVIOUS
    <3>2. i \in 1..Len(q) => /\ Past(q, <<NewLine>>, i) \in (i + 1)..(Len(q) + 1)
                             /\ Past(q, <<"*", "/">>, i) \in (i + 1)..(Len(q) + 1)
      BY <3>1, PastAhead
    <3>3. i \in Nat
      OBVIOUS
    <3> HIDE DEF A2, A3
    <3> QED BY <2>1, <2>2, <3>2, <3>3
  <2> HIDE DEF A1, A2, A3, Turn
  <2> QED BY <2>1, <2>2, <2>3, <2>4, <2>5
<1>4. PICK f : f = [i \in 1..N |-> IF g[i] = i THEN i ELSE f[g[i]]]
  <2> HIDE DEF N, g
  <2> QED BY <1>1, <1>2, FollowExists
<1>5. f = [i \in 1..N |-> Turn(f, i)]
  <2>1. \A i \in 1..N : g[i] = Jump(q, lc, i)
    OBVIOUS
  <2> HIDE DEF N, g, Turn
  <2>2. \A i \in 1..N : f[i] = Turn(f, i)
    <3> TAKE i \in 1..N
    <3>1. f[i] = IF g[i] = i THEN i ELSE f[g[i]]
      BY <1>4
    <3>2. g[i] = Jump(q, lc, i)
      BY <2>1
    <3>3. Turn(f, i) = IF Jump(q, lc, i) = i THEN i ELSE f[Jump(q, lc, i)]
      BY <1>3
    <3> QED BY <3>1, <3>2, <3>3
  <2>3. f = [i \in 1..N |-> f[i]]
    BY <1>4
  <2> QED BY <2>2, <2>3
<1>6. start = [i \in 1..N |-> Turn(start, i)]
  <2> HIDE DEF N, Turn
  <2>1. \E s : s = [i \in 1..N |-> Turn(s, i)]
    BY <1>5
  <2> QED BY <2>1
<1>7. StripLeading(q, lc) = SubSeq(q, start[1], Len(q))
  BY DEF StripLeading
<1>8. \A i \in 1..N : start[i] = IF Jump(q, lc, i) = i THEN i ELSE start[Jump(q, lc, i)]
  <2> HIDE DEF start, N, Turn
  <2>1. \A i \in 1..N : start[i] = Turn(start, i)
    BY <1>6
  <2> QED BY <1>3, <2>1
<1> HIDE DEF start
<1> QED BY <1>7, <1>8

\* StripLeading goes past a gap at once, and no further than a word.
LEMMA GapJumps ==
    ASSUME NEW S, NEW q \in Seq(S), NEW lc \in LineComments,
           NEW a \in 1..Len(q), NEW b \in 1..(Len(q) + 1), IsGap(q, a, b)
    PROVE  Jump(q, lc, a) = b /\ b > a
<1>1. Len(q) \in Nat /\ a \in Nat \ {0} /\ b \in Nat \ {0} /\ a \in 1..(Len(q) + 1)
  OBVIOUS
<1>2. CASE IsBlank(q, a, b)
  <2>1. b = a + 1 /\ a <= Len(q) /\ q[a] \in Blank
    BY <1>2 DEF IsBlank
  <2> QED BY <1>1, <2>1, JumpIs
<1>3. CASE IsLineComment(q, a, b)
  <2>1. a + 2 <= b /\ q[a] = "-" /\ q[a + 1] = "-"
    BY <1>3 DEF IsLineComment
  <2>2. Occurs(q, <<"-", "-">>, a)
    BY <1>1, <2>1, OccursTwo
  <2>3. <<"-", "-">> \in lc
    BY DEF LineComments, Dashes, DashesAndHash
  <2>4. Jump(q, lc, a) = Past(q, <<NewLine>>, a)
    BY <1>1, <2>2, <2>3, JumpIs
  <2>5. \A j \in a..Len(q) : Occurs(q, <<NewLine>>, j) <=> q[j] = NewLine
    <3> TAKE j \in a..Len(q)
    <3>1. j \in Nat \ {0} /\ j <= Len(q)
      BY <1>1
    <3> QED BY <3>1, OccursOne
  <2>6. q[a] # NewLine /\ q[a + 1] # NewLine
    BY <2>1, Characters
  <2>7. CASE /\ a + 2 < b /\ q[b - 1] = NewLine
             /\ \A k \in (a + 2)..(b - 2) : q[k] # NewLine
    <3>1. b - 1 \in a..Len(q) /\ b - 1 + 1 = b
      BY <1>1, <2>7
    <3>2. ASSUME NEW j \in a..(b - 1 - 1)
          PROVE  ~Occurs(q, <<NewLine>>, j)
      <4>1. j \in a..Len(q)
        BY <1>1, <3>1
      <4>2. j = a \/ j = a + 1 \/ j \in (a + 2)..(b - 2)
        BY <1>1
      <4>3. q[j] # NewLine
        BY <2>6, <2>7, <4>2
      <4> QED BY <2>5, <4>1, <4>3
    <3>3. Occurs(q, <<NewLine>>, b - 1)
      BY <2>5, <2>7, <3>1
    <3>4. Len(<<NewLine>>) = 1
      OBVIOUS
    <3>5. Past(q, <<NewLine>>, a) = b - 1 + Len(<<NewLine>>)
      <4>1. Len(<<NewLine>>) \in Nat
        BY <3>4
      <4> HIDE DEF IsGap
      <4> QED BY <1>1, <3>1, <3>2, <3>3, <4>1, PastFirst
    <3> QED BY <1>1, <2>1, <2>4, <3>1, <3>4, <3>5
  <2>8. CASE b = Len(q) + 1 /\ \A k \in (a + 2)..(b - 1) : q[k] # NewLine
    <3>1. ASSUME NEW j \in a..Len(q)
          PROVE  ~Occurs(q, <<NewLine>>, j)
      <4>1. j = a \/ j = a + 1 \/ j \in (a + 2)..(b - 1)
        BY <1>1, <2>8
      <4>2. q[j] # NewLine
        BY <2>6, <2>8, <4>1
      <4> QED BY <2>5, <4>2
    <3>2. Past(q, <<NewLine>>, a) = Len(q) + 1
      BY <1>1, <3>1, PastNone
    <3> QED BY <1>1, <2>1, <2>4, <2>8, <3>2
  <2> QED BY <1>3, <2>7, <2>8 DEF IsLineComment
<1>4. CASE IsBlockComment(q, a, b)
  <2>1. /\ a + 4 <= b /\ q[a] = "/" /\ q[a + 1] = "*" /\ q[b - 2] = "*" /\ q[b - 1] = "/"
        /\ \A k \in (a + 1)..(b - 3) : ~(q[k] = "*" /\ q[k + 1] = "/")
    BY <1>4 DEF IsBlockComment
  <2>2. Occurs(q, <<"/", "*">>, a)
    BY <1>1, <2>1, OccursTwo
  <2>3. Jump(q, lc, a) = Past(q, <<"*", "/">>, a)
    BY <1>1, <2>2, JumpIs
  <2>4. b - 2 \in a..Len(q) /\ b - 2 \in Nat \ {0} /\ b - 2 + 1 = b - 1 /\ b - 1 <= Len(q)
    BY <1>1, <2>1
  <2>5. Occurs(q, <<"*", "/">>, b - 2)
    BY <2>1, <2>4, OccursTwo
  <2>6. ASSUME NEW j \in a..(b - 2 - 1)
        PROVE  ~Occurs(q, <<"*", "/">>, j)
    <3>1. j \in Nat \ {0} /\ (j = a \/ j \in (a + 1)..(b - 3))
      BY <1>1
    <3>2. ~(q[j] = "*" /\ q[j + 1] = "/")
      BY <2>1, <3>1, Characters
    <3> QED BY <3>1, <3>2, OccursTwo
  <2>7. Len(<<"*", "/">>) = 2
    OBVIOUS
  <2>8. Past(q, <<"*", "/">>, a) = b - 2 + Len(<<"*", "/">>)
    <3>1. Len(<<"*", "/">>) \in Nat
      BY <2>7
    <3> QED BY <1>1, <2>4, <2>5, <2>6, <3>1, PastFirst
  <2> QED BY <1>1, <2>1, <2>3, <2>7, <2>8
<1> QED BY <1>2, <1>3, <1>4 DEF IsGap

LEMMA WordStays ==
    ASSUME NEW S, NEW q \in Seq(S), NEW lc \in LineComments, NEW m \in 1..(Len(q) + 1),
           m <= Len(q) => IsWord(q[m])
    PROVE  Jump(q, lc, m) = m
<1>1. m \in 1..Len(q) => q[m] \notin Blank /\ q[m] # "-" /\ q[m] # "/" /\ q[m] # "#"
  BY Characters
<1>2. ~(m <= Len(q) /\ q[m] \in Blank)
  BY <1>1
<1>3. ~(\E c \in lc : Occurs(q, c, m)) /\ ~Occurs(q, <<"/", "*">>, m)
  BY <1>1, Arms
<1> QED BY <1>2, <1>3, JumpIs

\* Any number of gaps is skipped: of the cuts from which a follower of the jumps
\* does not get to b, the last would be a counterexample to GapJumps.
LEMMA GapsSkipped ==
    ASSUME NEW S, NEW q \in Seq(S), NEW lc \in LineComments, NEW f,
           \A i \in 1..(Len(q) + 1) :
              f[i] = IF Jump(q, lc, i) = i THEN i ELSE f[Jump(q, lc, i)],
           NEW a \in 1..(Len(q) + 1), NEW b \in 1..(Len(q) + 1), AreGaps(q, a, b)
    PROVE  f[a] = f[b]
<1>1. PICK cuts \in SUBSET (a..b) :
         {a, b} \subseteq cuts /\ \A c \in cuts \ {b} : \E d \in cuts : IsGap(q, c, d)
  BY DEF AreGaps
<1> DEFINE T == {b - c : c \in {d \in cuts : f[d] # f[b]}}
<1>2. ASSUME T # {} PROVE FALSE
  <2>1. T \subseteq Nat
    OBVIOUS
  <2>2. PICK k \in T : \A j \in T : k <= j
    <3> HIDE DEF T
    <3> QED BY <1>2, <2>1, Least
  <2>3. PICK c \in cuts : f[c] # f[b] /\ k = b - c
    OBVIOUS
  <2>4. PICK d \in cuts : IsGap(q, c, d)
    BY <1>1, <2>3
  <2>5. c \in a..b /\ c # b /\ d \in a..b
    BY <2>3
  <2>6. c \in 1..Len(q) /\ d \in 1..(Len(q) + 1) /\ c \in 1..(Len(q) + 1)
    BY <2>5
  <2>7. Jump(q, lc, c) = d /\ d > c
    BY <2>4, <2>6, GapJumps
  <2>8. f[c] = f[d]
    <3>1. f[c] = IF Jump(q, lc, c) = c THEN c ELSE f[Jump(q, lc, c)]
      BY <2>6
    <3>2. Jump(q, lc, c) # c
      BY <2>6, <2>7
    <3> QED BY <2>7, <3>1, <3>2
  <2>9. b - d \in T
    BY <2>3, <2>8
  <2>10. k <= b - d
    BY <2>2, <2>9
  <2> QED BY <2>3, <2>5, <2>6, <2>7, <2>10
<1>3. a \in cuts
  BY <1>1
<1> QED BY <1>2, <1>3

\* What follows gaps is what is left.
LEMMA Stripped ==
    ASSUME NEW S, NEW q \in Seq(S), NEW lc \in LineComments, NEW m \in 1..(Len(q) + 1),
           AreGaps(q, 1, m), m <= Len(q) => IsWord(q[m])
    PROVE  StripLeading(q, lc) = SubSeq(q, m, Len(q))
<1>1. PICK f : /\ StripLeading(q, lc) = SubSeq(q, f[1], Len(q))
               /\ \A i \in 1..(Len(q) + 1) :
                     f[i] = IF Jump(q, lc, i) = i THEN i ELSE f[Jump(q, lc, i)]
  BY Strips
<1>2. 1 \in 1..(Len(q) + 1)
  OBVIOUS
<1>3. f[1] = f[m]
  BY <1>1, <1>2, GapsSkipped
<1>4. f[m] = m
  BY <1>1, WordStays
<1> QED BY <1>1, <1>3, <1>4

LEMMA RestOf ==
    ASSUME NEW S, NEW q \in Seq(S), NEW m \in 1..Len(q)
    PROVE  LET r == SubSeq(q, m, Len(q))
           IN /\ r # <<>> /\ r[1] = q[m]
              /\ Tail(r) \in Seq(S) /\ Len(Tail(r)) = Len(q) - m
              /\ \A k \in 1..Len(Tail(r)) : Tail(r)[k] = q[m + k]
<1> DEFINE r == SubSeq(q, m, Len(q))
<1>1. r \in Seq(S) /\ Len(r) = Len(q) - m + 1 /\ \A k \in 1..Len(r) : r[k] = q[m + k - 1]
  OBVIOUS
<1> HIDE DEF r
<1>2. Len(q) \in Nat /\ m \in Nat /\ m >= 1 /\ m <= Len(q)
  OBVIOUS
<1>3. Len(r) >= 1
  BY <1>1, <1>2
<1>4. r # <<>>
  BY <1>3
<1>5. r[1] = q[m]
  <2>1. 1 \in 1..Len(r) /\ m + 1 - 1 = m
    BY <1>1, <1>2, <1>3
  <2> QED BY <1>1, <2>1
<1>6. /\ Tail(r) \in Seq(S) /\ Len(Tail(r)) = Len(r) - 1
      /\ \A k \in 1..(Len(r) - 1) : Tail(r)[k] = r[k + 1]
  BY <1>1, <1>4
<1>7. Len(Tail(r)) = Len(q) - m
  BY <1>1, <1>2, <1>6
<1>8. ASSUME NEW k \in 1..Len(Tail(r))
      PROVE  Tail(r)[k] = q[m + k]
  <2>1. k \in 1..(Len(r) - 1) /\ k + 1 \in 1..Len(r) /\ m + (k + 1) - 1 = m + k
    BY <1>1, <1>2, <1>6
  <2> QED BY <1>1, <1>6, <2>1
<1> QED BY <1>4, <1>5, <1>6, <1>7, <1>8 DEF r

LEMMA NothingIsLeft ==
    ASSUME NEW S, NEW q \in Seq(S), NEW lc \in LineComments, AreGaps(q, 1, Len(q) + 1)
    PROVE  LeadingToken(q, lc) = ""
<1>1. Len(q) + 1 \in 1..(Len(q) + 1) /\ ~(Len(q) + 1 <= Len(q))
  OBVIOUS
<1>2. StripLeading(q, lc) = SubSeq(q, Len(q) + 1, Len(q))
  BY <1>1, Stripped
<1>3. SubSeq(q, Len(q) + 1, Len(q)) = <<>>
  OBVIOUS
<1> QED BY <1>2, <1>3 DEF LeadingToken

LEMMA FirstIsRead ==
    ASSUME NEW S, NEW q \in Seq(S), NEW lc \in LineComments, NEW m \in 1..Len(q),
           AreGaps(q, 1, m), IsWord(q[m])
    PROVE  /\ LeadingToken(q, lc) = q[m]
           /\ SecondToken(q, lc) = LeadingToken(Tail(SubSeq(q, m, Len(q))), lc)
<1>1. m \in 1..(Len(q) + 1)
  OBVIOUS
<1>2. StripLeading(q, lc) = SubSeq(q, m, Len(q))
  BY <1>1, Stripped
<1>3. SubSeq(q, m, Len(q)) # <<>> /\ SubSeq(q, m, Len(q))[1] = q[m]
  BY RestOf
<1> QED BY <1>2, <1>3 DEF LeadingToken, SecondToken

\* The rest of a text has the gaps of the text.
LEMMA GapShifts ==
    ASSUME NEW S, NEW q \in Seq(S), NEW r \in Seq(S), NEW m \in 1..Len(q),
           Len(r) = Len(q) - m, \A k \in 1..Len(r) : r[k] = q[m + k],
           NEW a \in (m + 1)..Len(q), NEW b \in (m + 1)..(Len(q) + 1), IsGap(q, a, b)
    PROVE  IsGap(r, a - m, b - m)
<1>1. Len(q) \in Nat /\ Len(r) \in Nat /\ m \in Nat /\ a \in Nat /\ b \in Nat /\ m >= 1
  OBVIOUS
<1>2. \A k \in (m + 1)..Len(q) : r[k - m] = q[k]
  <2> TAKE k \in (m + 1)..Len(q)
  <2>1. k - m \in 1..Len(r) /\ m + (k - m) = k
    BY <1>1
  <2> QED BY <2>1
<1>3. CASE IsBlank(q, a, b)
  <2>1. b = a + 1 /\ q[a] \in Blank
    BY <1>3 DEF IsBlank
  <2>2. r[a - m] = q[a] /\ b - m = (a - m) + 1
    BY <1>1, <1>2, <2>1
  <2>3. IsBlank(r, a - m, b - m)
    BY <2>1, <2>2 DEF IsBlank
  <2> QED BY <2>3 DEF IsGap
<1>4. CASE IsLineComment(q, a, b)
  <2>1. a + 2 <= b /\ q[a] = "-" /\ q[a + 1] = "-"
    BY <1>4 DEF IsLineComment
  <2>2. a + 1 \in (m + 1)..Len(q) /\ (a + 1) - m = (a - m) + 1
    BY <1>1, <2>1
  <2>3. (a - m) + 2 <= b - m /\ r[a - m] = "-" /\ r[(a - m) + 1] = "-"
    <3>1. (a - m) + 2 <= b - m
      BY <1>1, <2>1
    <3>2. r[a - m] = q[a] /\ r[(a + 1) - m] = q[a + 1]
      BY <1>2, <2>2
    <3> QED BY <2>1, <2>2, <3>1, <3>2
  <2>4. CASE /\ a + 2 < b /\ q[b - 1] = NewLine
             /\ \A k \in (a + 2)..(b - 2) : q[k] # NewLine
    <3>1. (a - m) + 2 < b - m /\ b - 1 \in (m + 1)..Len(q) /\ (b - 1) - m = (b - m) - 1
      BY <1>1, <2>4
    <3>2. r[(b - m) - 1] = NewLine
      BY <1>2, <2>4, <3>1
    <3>3. ASSUME NEW k \in ((a - m) + 2)..((b - m) - 2)
          PROVE  r[k] # NewLine
      <4>1. k + m \in (a + 2)..(b - 2) /\ k + m \in (m + 1)..Len(q) /\ (k + m) - m = k
        BY <1>1
      <4>2. r[(k + m) - m] = q[k + m]
        BY <1>2, <4>1
      <4> QED BY <2>4, <4>1, <4>2
    <3> QED BY <2>3, <3>1, <3>2, <3>3 DEF IsGap, IsLineComment
  <2>5. CASE b = Len(q) + 1 /\ \A k \in (a + 2)..(b - 1) : q[k] # NewLine
    <3>1. b - m = Len(r) + 1
      BY <1>1, <2>5
    <3>2. ASSUME NEW k \in ((a - m) + 2)..((b - m) - 1)
          PROVE  r[k] # NewLine
      <4>1. k + m \in (a + 2)..(b - 1) /\ k + m \in (m + 1)..Len(q) /\ (k + m) - m = k
        BY <1>1
      <4>2. r[(k + m) - m] = q[k + m]
        BY <1>2, <4>1
      <4> QED BY <2>5, <4>1, <4>2
    <3> QED BY <2>3, <3>1, <3>2 DEF IsGap, IsLineComment
  <2> QED BY <1>4, <2>4, <2>5 DEF IsLineComment
<1>5. CASE IsBlockComment(q, a, b)
  <2>1. /\ a + 4 <= b /\ q[a] = "/" /\ q[a + 1] = "*" /\ q[b - 2] = "*" /\ q[b - 1] = "/"
        /\ \A k \in (a + 1)..(b - 3) : ~(q[k] = "*" /\ q[k + 1] = "/")
    BY <1>5 DEF IsBlockComment
  <2>2. /\ a + 1 \in (m + 1)..Len(q) /\ b - 2 \in (m + 1)..Len(q) /\ b - 1 \in (m + 1)..Len(q)
        /\ (a + 1) - m = (a - m) + 1 /\ (b - 2) - m = (b - m) - 2 /\ (b - 1) - m = (b - m) - 1
        /\ (a - m) + 4 <= b - m
    BY <1>1, <2>1
  <2>3. /\ r[a - m] = q[a] /\ r[(a + 1) - m] = q[a + 1] /\ r[(b - 2) - m] = q[b - 2]
        /\ r[(b - 1) - m] = q[b - 1]
    BY <1>2, <2>2
  <2>4. /\ r[a - m] = "/" /\ r[(a - m) + 1] = "*" /\ r[(b - m) - 2] = "*"
        /\ r[(b - m) - 1] = "/"
    BY <2>1, <2>2, <2>3
  <2>5. ASSUME NEW k \in ((a - m) + 1)..((b - m) - 3)
        PROVE  ~(r[k] = "*" /\ r[k + 1] = "/")
    <3>1. /\ k + m \in (a + 1)..(b - 3) /\ k + m \in (m + 1)..Len(q) /\ (k + m) - m = k
          /\ (k + m) + 1 \in (m + 1)..Len(q) /\ ((k + m) + 1) - m = k + 1
      BY <1>1
    <3>2. r[(k + m) - m] = q[k + m] /\ r[((k + m) + 1) - m] = q[(k + m) + 1]
      BY <1>2, <3>1
    <3> QED BY <2>1, <3>1, <3>2
  <2> QED BY <2>2, <2>4, <2>5 DEF IsGap, IsBlockComment
<1> QED BY <1>3, <1>4, <1>5 DEF IsGap

LEMMA GapsShift ==
    ASSUME NEW S, NEW q \in Seq(S), NEW r \in Seq(S), NEW m \in 1..Len(q),
           Len(r) = Len(q) - m, \A k \in 1..Len(r) : r[k] = q[m + k],
           NEW b \in (m + 1)..(Len(q) + 1), AreGaps(q, m + 1, b)
    PROVE  AreGaps(r, 1, b - m)
<1>1. PICK cuts \in SUBSET ((m + 1)..b) :
         {m + 1, b} \subseteq cuts /\ \A c \in cuts \ {b} : \E d \in cuts : IsGap(q, c, d)
  BY DEF AreGaps
<1>2. Len(q) \in Nat /\ m \in Nat /\ b \in Nat
  OBVIOUS
<1> DEFINE shifted == {c - m : c \in cuts}
<1>3. shifted \in SUBSET (1..(b - m))
  BY <1>2
<1>4. 1 \in shifted /\ b - m \in shifted
  <2>1. 1 = (m + 1) - m
    BY <1>2
  <2> QED BY <1>1, <2>1
<1>5. ASSUME NEW e \in shifted \ {b - m}
      PROVE  \E d \in shifted : IsGap(r, e, d)
  <2>1. PICK c \in cuts : e = c - m
    OBVIOUS
  <2>2. c # b
    BY <2>1
  <2>3. PICK d \in cuts : IsGap(q, c, d)
    BY <1>1, <2>2
  <2>4. c \in (m + 1)..Len(q) /\ d \in (m + 1)..(Len(q) + 1)
    <3>1. c \in (m + 1)..b /\ d \in (m + 1)..b
      OBVIOUS
    <3> QED BY <1>2, <2>2, <3>1
  <2>5. IsGap(r, c - m, d - m)
    BY <2>3, <2>4, GapShifts
  <2>6. d - m \in shifted
    OBVIOUS
  <2> QED BY <2>1, <2>5, <2>6
<1> HIDE DEF shifted
<1> QED BY <1>3, <1>4, <1>5 DEF AreGaps

\* The first two words of a text are read as they were written, and no word is
\* lost.
LEMMA WordsRead ==
    ASSUME NEW S, NEW q \in Seq(S), NEW words \in Seq(S), words # <<>>,
           IsWritten(q, words), IsWord(words[1]), Len(words) > 1 => IsWord(words[2]),
           NEW lc \in LineComments
    PROVE  /\ LeadingToken(q, lc) = words[1]
           /\ SecondToken(q, lc) = IF Len(words) > 1 THEN words[2] ELSE ""
           /\ \A W : ContainsToken(words, W) => ContainsToken(q, W)
<1>1. PICK at \in [DOMAIN words -> {i \in DOMAIN q : \E n \in DOMAIN words : q[i] = words[n]}] :
         /\ \A n \in DOMAIN words : q[at[n]] = words[n]
         /\ AreGaps(q, 1, at[1])
         /\ \A n \in DOMAIN words : n > 1 => AreGaps(q, at[n - 1] + 1, at[n])
         /\ AreGaps(q, at[Len(words)] + 1, Len(q) + 1)
  BY DEF IsWritten
<1>2. Len(words) \in Nat /\ Len(words) >= 1 /\ DOMAIN words = 1..Len(words)
  OBVIOUS
<1>3. 1 \in DOMAIN words /\ (Len(words) > 1 => 2 \in DOMAIN words)
  BY <1>2
<1>4. \A n \in DOMAIN words : at[n] \in 1..Len(q)
  <2>1. \A n \in DOMAIN words : at[n] \in DOMAIN q
    OBVIOUS
  <2> QED BY <2>1
<1>5. PICK m \in 1..Len(q) : m = at[1] /\ q[m] = words[1]
  BY <1>1, <1>3, <1>4
<1>6. /\ LeadingToken(q, lc) = q[m]
      /\ SecondToken(q, lc) = LeadingToken(Tail(SubSeq(q, m, Len(q))), lc)
  BY <1>1, <1>5, FirstIsRead
<1>7. PICK r \in Seq(S) : /\ r = Tail(SubSeq(q, m, Len(q))) /\ Len(r) = Len(q) - m
                          /\ \A k \in 1..Len(r) : r[k] = q[m + k]
  <2> DEFINE rest == Tail(SubSeq(q, m, Len(q)))
  <2>1. /\ rest \in Seq(S) /\ Len(rest) = Len(q) - m
        /\ \A k \in 1..Len(rest) : rest[k] = q[m + k]
    BY RestOf
  <2> HIDE DEF rest
  <2>2. \E r \in Seq(S) : /\ r = rest /\ Len(r) = Len(q) - m
                          /\ \A k \in 1..Len(r) : r[k] = q[m + k]
    BY <2>1
  <2> QED BY <2>2 DEF rest
<1>8. ASSUME Len(words) > 1
      PROVE  SecondToken(q, lc) = words[2]
  <2>1. AreGaps(q, m + 1, at[2])
    <3>1. 2 > 1 /\ 2 - 1 = 1
      OBVIOUS
    <3> QED BY <1>1, <1>3, <1>5, <1>8, <3>1
  <2>2. PICK b \in 1..Len(q) : b = at[2] /\ q[b] = words[2]
    BY <1>1, <1>3, <1>4, <1>8
  <2>3. b \in (m + 1)..(Len(q) + 1) /\ b - m \in 1..Len(r) /\ m + (b - m) = b
    <3>1. m + 1 \in (m + 1)..b
      BY <2>1, <2>2 DEF AreGaps
    <3> QED BY <1>7, <3>1
  <2>4. AreGaps(r, 1, b - m)
    BY <1>7, <2>1, <2>2, <2>3, GapsShift
  <2>5. r[b - m] = words[2]
    BY <1>7, <2>2, <2>3
  <2>6. LeadingToken(r, lc) = r[b - m]
    BY <1>8, <2>3, <2>4, <2>5, FirstIsRead
  <2> QED BY <1>6, <1>7, <2>5, <2>6
<1>9. ASSUME ~(Len(words) > 1)
      PROVE  SecondToken(q, lc) = ""
  <2>1. Len(words) = 1
    BY <1>2, <1>9
  <2>2. AreGaps(q, m + 1, Len(q) + 1)
    BY <1>1, <1>5, <2>1
  <2>3. Len(q) + 1 \in (m + 1)..(Len(q) + 1) /\ (Len(q) + 1) - m = Len(r) + 1
    BY <1>7
  <2>4. AreGaps(r, 1, Len(r) + 1)
    BY <1>7, <2>2, <2>3, GapsShift
  <2>5. LeadingToken(r, lc) = ""
    BY <2>4, NothingIsLeft
  <2> QED BY <1>6, <1>7, <2>5
<1>10. ASSUME NEW W, ContainsToken(words, W)
       PROVE  ContainsToken(q, W)
  <2>1. PICK n \in DOMAIN words : words[n] \in W
    BY <1>10 DEF ContainsToken
  <2>2. at[n] \in DOMAIN q /\ q[at[n]] = words[n]
    BY <1>1
  <2> QED BY <2>1, <2>2 DEF ContainsToken
<1>11. /\ LeadingToken(q, lc) = words[1]
       /\ SecondToken(q, lc) = IF Len(words) > 1 THEN words[2] ELSE ""
  <2>1. LeadingToken(q, lc) = words[1]
    BY <1>5, <1>6
  <2> QED BY <2>1, <1>8, <1>9
<1> QED BY <1>10, <1>11

\* No word leads statements of two kinds.
LEMMA LeadersApart ==
    /\ ReadLeader \cap WriteLeader = {} /\ "WITH" \notin ReadLeader \cup WriteLeader
    /\ \A x \in {"BEGIN", "START", "COMMIT", "END", "ROLLBACK", "ABORT"} :
          x \notin ReadLeader \cup WriteLeader /\ x # "WITH"
    /\ \A x \in {"SAVEPOINT", "RELEASE", "SET"} :
          /\ x \notin ReadLeader \cup WriteLeader /\ x # "WITH"
          /\ x \notin {"BEGIN", "START", "COMMIT", "END", "ROLLBACK", "ABORT"}
    /\ {"BEGIN", "START"} \cap {"COMMIT", "END", "ROLLBACK", "ABORT"} = {}
    /\ {"COMMIT", "END"} \cap {"ROLLBACK", "ABORT"} = {}
  BY DEF ReadLeader, WriteLeader

\* The kind of a text, by its first word.
LEMMA KindByLeader ==
    ASSUME NEW q, NEW first, first = LeadingToken(q, Dashes)
    PROVE  /\ first \in ReadLeader => DefaultClassifier(q) = "read"
           /\ first \in WriteLeader => DefaultClassifier(q) = "write"
           /\ first \in {"BEGIN", "START"} => DefaultClassifier(q) = "begin"
           /\ first \in {"COMMIT", "END"} => DefaultClassifier(q) = "commit"
           /\ first \in {"ROLLBACK", "ABORT"} =>
                DefaultClassifier(q) = IF SecondToken(q, Dashes) = "TO" THEN "other"
                                       ELSE "rollback"
           /\ first = "WITH" =>
                DefaultClassifier(q) = IF ContainsToken(q, ModifyingWord) THEN "write"
                                       ELSE "read"
           /\ first \in {"SAVEPOINT", "RELEASE", "SET"} => DefaultClassifier(q) = "other"
<1> DEFINE R == first \in ReadLeader
           W == first \in WriteLeader
           B == first \in {"BEGIN", "START"}
           C == first \in {"COMMIT", "END"}
           A == first \in {"ROLLBACK", "ABORT"}
           H == first = "WITH"
           O == first \in {"SAVEPOINT", "RELEASE", "SET"}
           to == IF SecondToken(q, Dashes) = "TO" THEN "other" ELSE "rollback"
           with == IF ContainsToken(q, ModifyingWord) THEN "write" ELSE "read"
<1>1. DefaultClassifier(q) =
        CASE R -> "read" [] W -> "write" [] B -> "begin" [] C -> "commit"
          [] A -> to [] H -> with [] OTHER -> "other"
  BY DEF DefaultClassifier
<1>2. /\ R => ~W /\ ~B /\ ~C /\ ~A /\ ~H
      /\ W => ~B /\ ~C /\ ~A /\ ~H
      /\ B => ~C /\ ~A /\ ~H
      /\ C => ~A /\ ~H
      /\ A => ~H
      /\ O => ~R /\ ~W /\ ~B /\ ~C /\ ~A /\ ~H
  BY LeadersApart
<1> HIDE DEF R, W, B, C, A, H, O, to, with
<1>3. /\ R => DefaultClassifier(q) = "read"
      /\ W => DefaultClassifier(q) = "write"
      /\ B => DefaultClassifier(q) = "begin"
      /\ C => DefaultClassifier(q) = "commit"
      /\ A => DefaultClassifier(q) = to
      /\ H => DefaultClassifier(q) = with
      /\ O => DefaultClassifier(q) = "other"
  BY <1>1, <1>2
<1> QED BY <1>3 DEF R, W, B, C, A, H, O, to, with

\* A text of a command is read as what the server does with the command.
LEMMA TextRead ==
    ASSUME NEW q \in Seq(STRING), NEW cmd, NEW words \in Seq(STRING), IsTextOf(q, cmd, words)
    PROVE  LET kind == DefaultClassifier(q)
           IN /\ kind = "write" <=> Modifies(cmd)
              /\ kind = "begin" <=> cmd = "begin"
              /\ Ended(kind) <=> Ends(cmd)
              /\ IsImplicitCommit(q) <=> cmd = "create"
              /\ ChangesAutocommit(q) <=> SetsAutocommit(cmd)
<1> DEFINE first == words[1]
           second == IF Len(words) > 1 THEN words[2] ELSE ""
           kind == DefaultClassifier(q)
<1>1. IsCommand(cmd, words) /\ IsWritten(q, words) /\ (Len(words) > 1 => IsWord(words[2]))
  BY DEF IsTextOf, IsCommand
<1>2. words # <<>> /\ IsWord(words[1])
  BY <1>1 DEF IsCommand, Leads
<1>3. \A lc \in LineComments :
        /\ LeadingToken(q, lc) = first /\ SecondToken(q, lc) = second
        /\ \A W : ContainsToken(words, W) => ContainsToken(q, W)
  BY <1>1, <1>2, WordsRead
<1>4. Dashes \in LineComments /\ DashesAndHash \in LineComments
  BY DEF LineComments
<1>5. /\ LeadingToken(q, Dashes) = first /\ SecondToken(q, Dashes) = second
      /\ LeadingToken(q, DashesAndHash) = first /\ SecondToken(q, DashesAndHash) = second
      /\ \A W : ContainsToken(words, W) => ContainsToken(q, W)
  BY <1>3, <1>4
<1>6. /\ first \in ReadLeader => kind = "read"
      /\ first \in WriteLeader => kind = "write"
      /\ first \in {"BEGIN", "START"} => kind = "begin"
      /\ first \in {"COMMIT", "END"} => kind = "commit"
      /\ first \in {"ROLLBACK", "ABORT"} =>
           kind = IF second = "TO" THEN "other" ELSE "rollback"
      /\ first = "WITH" =>
           kind = IF ContainsToken(q, ModifyingWord) THEN "write" ELSE "read"
      /\ first \in {"SAVEPOINT", "RELEASE", "SET"} => kind = "other"
  <2> HIDE DEF first
  <2> QED BY <1>5, KindByLeader
<1>7. /\ IsImplicitCommit(q) <=> /\ first \in ImplicitCommitLeader
                                 /\ ~(first \in {"CREATE", "DROP"} /\ second = "TEMPORARY")
      /\ ChangesAutocommit(q) <=> first = "SET" /\ ContainsToken(q, {"AUTOCOMMIT"})
  <2> HIDE DEF first, second
  <2> QED BY <1>5 DEF IsImplicitCommit, ChangesAutocommit
<1>8. \A x : Follows(words, x) <=> Len(words) > 1 /\ second = x
  BY DEF Follows
<1>9. "" # "TO" /\ "" # "TEMPORARY"
  BY Zenon
<1>10. /\ Follows(words, "TO") <=> second = "TO"
       /\ Follows(words, "TEMPORARY") <=> second = "TEMPORARY"
  BY <1>8, <1>9
<1> HIDE DEF first, second, kind
<1>11. CASE cmd \in {"read", "beginMark", "endMark"}
  <2>1. first \in ReadLeader
    BY <1>1, <1>11 DEF IsCommand, Leads, first
  <2>2. first \notin ImplicitCommitLeader /\ first # "SET"
    BY <2>1 DEF ReadLeader, ImplicitCommitLeader
  <2>3. kind = "read"
    BY <1>6, <2>1
  <2> QED BY <1>7, <1>11, <2>2, <2>3 DEF Modifies, Ends, Ended, SetsAutocommit, kind
<1>12. CASE cmd = "write"
  <2>1. first \in {"INSERT", "UPDATE", "DELETE", "MERGE", "REPLACE", "COPY", "CALL"}
    BY <1>1, <1>12 DEF IsCommand, Leads, first
  <2>2. first \in WriteLeader /\ first \notin ImplicitCommitLeader /\ first # "SET"
    BY <2>1 DEF WriteLeader, ImplicitCommitLeader
  <2>3. kind = "write"
    BY <1>6, <2>2
  <2> QED BY <1>7, <1>12, <2>2, <2>3 DEF Modifies, Ends, Ended, SetsAutocommit, kind
<1>13. CASE cmd \in {"cte", "readCte"}
  <2>1. first = "WITH" /\ (cmd = "cte" <=> ContainsToken(words, ModifyingWord))
    BY <1>1, <1>13 DEF IsCommand, Leads, first
  <2>2. cmd = "cte" <=> ContainsToken(q, ModifyingWord)
    BY <1>5, <1>13, <2>1 DEF IsTextOf
  <2>3. first \notin ImplicitCommitLeader /\ first # "SET"
    BY <2>1 DEF ImplicitCommitLeader
  <2>4. kind = IF cmd = "cte" THEN "write" ELSE "read"
    BY <1>6, <2>1, <2>2
  <2> QED BY <1>7, <1>13, <2>3, <2>4 DEF Modifies, Ends, Ended, SetsAutocommit, kind
<1>14. CASE cmd = "create"
  <2>1. /\ first \in {"CREATE", "ALTER", "DROP", "TRUNCATE", "GRANT", "REVOKE"}
        /\ second # "TEMPORARY"
    BY <1>1, <1>10, <1>14 DEF IsCommand, Leads, first
  <2>2. first \in WriteLeader /\ first \in ImplicitCommitLeader /\ first # "SET"
    BY <2>1 DEF WriteLeader, ImplicitCommitLeader
  <2>3. kind = "write"
    BY <1>6, <2>2
  <2> QED BY <1>7, <1>14, <2>1, <2>2, <2>3 DEF Modifies, Ends, Ended, SetsAutocommit, kind
<1>15. CASE cmd = "temporary"
  <2>1. first \in {"CREATE", "DROP"} /\ second = "TEMPORARY"
    BY <1>1, <1>10, <1>15 DEF IsCommand, Leads, first
  <2>2. first \in WriteLeader /\ first # "SET"
    BY <2>1 DEF WriteLeader
  <2>3. kind = "write"
    BY <1>6, <2>2
  <2> QED BY <1>7, <1>15, <2>1, <2>2, <2>3 DEF Modifies, Ends, Ended, SetsAutocommit, kind
<1>16. CASE cmd = "begin"
  <2>1. first \in {"BEGIN", "START"}
    BY <1>1, <1>16 DEF IsCommand, Leads, first
  <2>2. first \notin ImplicitCommitLeader /\ first # "SET"
    BY <2>1 DEF ImplicitCommitLeader
  <2>3. kind = "begin"
    BY <1>6, <2>1
  <2> QED BY <1>7, <1>16, <2>2, <2>3 DEF Modifies, Ends, Ended, SetsAutocommit, kind
<1>17. CASE cmd \in {"autocommitOff", "autocommitOn"}
  <2>1. first = "SET" /\ ContainsToken(words, {"AUTOCOMMIT"})
    BY <1>1, <1>17 DEF IsCommand, Leads, first
  <2>2. first \notin ImplicitCommitLeader /\ ContainsToken(q, {"AUTOCOMMIT"})
    BY <1>5, <2>1 DEF ImplicitCommitLeader
  <2>3. kind = "other"
    BY <1>6, <2>1
  <2> QED BY <1>7, <1>17, <2>1, <2>2, <2>3 DEF Modifies, Ends, Ended, SetsAutocommit, kind
<1>18. CASE cmd = "commit"
  <2>1. first \in {"COMMIT", "END"}
    BY <1>1, <1>18 DEF IsCommand, Leads, first
  <2>2. first \notin ImplicitCommitLeader /\ first # "SET"
    BY <2>1 DEF ImplicitCommitLeader
  <2>3. kind = "commit"
    BY <1>6, <2>1
  <2> QED BY <1>7, <1>18, <2>2, <2>3 DEF Modifies, Ends, Ended, SetsAutocommit, kind
<1>19. CASE cmd \in {"rollback", "rollbackTo"}
  <2>1. first \in {"ROLLBACK", "ABORT"} /\ (cmd = "rollbackTo" <=> second = "TO")
    BY <1>1, <1>10, <1>19 DEF IsCommand, Leads, first
  <2>2. first \notin ImplicitCommitLeader /\ first # "SET"
    BY <2>1 DEF ImplicitCommitLeader
  <2>3. kind = IF cmd = "rollbackTo" THEN "other" ELSE "rollback"
    BY <1>6, <2>1
  <2> QED BY <1>7, <1>19, <2>2, <2>3 DEF Modifies, Ends, Ended, SetsAutocommit, kind
<1>20. CASE cmd = "savepoint"
  <2>1. first \in {"SAVEPOINT", "RELEASE"}
    BY <1>1, <1>20 DEF IsCommand, Leads, first
  <2>2. first \notin ImplicitCommitLeader /\ first # "SET"
    BY <2>1 DEF ImplicitCommitLeader
  <2>3. kind = "other"
    BY <1>6, <2>1
  <2> QED BY <1>7, <1>20, <2>2, <2>3 DEF Modifies, Ends, Ended, SetsAutocommit, kind
<1> QED
  <2>1. cmd \in {"read", "beginMark", "endMark", "write", "cte", "readCte", "create",
                 "temporary", "begin", "autocommitOff", "autocommitOn", "commit", "rollback",
                 "savepoint", "rollbackTo"}
    BY <1>1 DEF IsCommand
  <2> QED BY <1>11, <1>12, <1>13, <1>14, <1>15, <1>16, <1>17, <1>18, <1>19, <1>20, <2>1

(***************************************************************************)
(* The theorems                                                            *)
(***************************************************************************)
Inv == Base /\ TextsRead /\ ServerOK /\ SessionOK /\ UnitsOK /\ IdentitiesOK

LEMMA InvInit ==
    ASSUME Init, TextsRead
    PROVE  Inv
<1>1. Base
  BY BaseInit
<1>2. /\ stmts = <<>> /\ Whole = {} /\ Writing = {}
      /\ \A t \in Thread : /\ server[t] = Fresh /\ session[t] = 0 /\ pipeline[t] = "none"
                           /\ parsed[t] = Unseen
      /\ implicitBatch = {}
  BY DEF Init, Whole, Writing, ModifiesAmong
<1>3. TxInUnit /\ UnitInTx
  BY <1>2 DEF TxInUnit, UnitInTx
<1>4. ServerOK
  BY <1>2 DEF ServerOK, Fresh
<1>5. SessionOK
  BY <1>2, <1>3 DEF SessionOK, Fresh
<1>6. UnitsOK
  BY <1>2, <1>3 DEF UnitsOK
<1>7. IdentitiesOK
  BY <1>2 DEF IdentitiesOK, PgIdentitiesOK, MyIdentitiesOK, GroupedAsRun, Fresh, Unseen
<1> QED BY <1>1, <1>4, <1>5, <1>6, <1>7 DEF Inv

LEMMA InvStep == Inv /\ [Next]_vars => Inv'
<1> SUFFICES ASSUME Inv, [Next]_vars PROVE Inv'
  OBVIOUS
<1>1. Base'
  BY BaseStep DEF Inv
<1>2. TextsRead'
  <2>1. world' = world
    BY ConfigKept DEF configVars
  <2> QED BY <2>1 DEF TextsRead, Inv
<1> QED BY <1>1, <1>2, ServerStep, SessionStep, UnitsStep, IdentitiesStep DEF Inv

\* The adapters give two statements one identity exactly when the server ran
\* them in one transaction, however threads interleave, end and break off, as
\* long as the numbers last.
THEOREM IdentityIsTransaction == Spec /\ TextsRead => [](NumbersLast => GroupedAsRun)
<1>1. Init /\ TextsRead => Inv
  BY InvInit
<1>2. Inv /\ [Next]_vars => Inv'
  BY InvStep
<1>3. Inv => (NumbersLast => GroupedAsRun)
  <2> SUFFICES ASSUME Inv, NumbersLast PROVE GroupedAsRun
    OBVIOUS
  <2>1. CASE MySQL
    BY <2>1 DEF Inv, IdentitiesOK
  <2>2. CASE ~MySQL
    BY <2>2, PgGrouped DEF Inv, IdentitiesOK
  <2> QED BY <2>1, <2>2
<1> QED BY <1>1, <1>2, <1>3, PTL DEF Spec

\* A verdict of crosscheck that is not refused counts the transactions of the
\* server that wrote, of the whole log and of any scenario in it.
THEOREM VerdictsRight == Spec /\ TextsRead => [](NumbersLast => VerdictSound)
<1>1. Init /\ TextsRead => Inv
  BY InvInit
<1>2. Inv /\ [Next]_vars => Inv'
  BY InvStep
<1>3. Inv => Base /\ TextsRead
  BY DEF Inv
<1>4. Base /\ TextsRead /\ GroupedAsRun => VerdictSound
  BY VerdictFollows
<1>5. Spec /\ TextsRead => [](NumbersLast => GroupedAsRun)
  BY IdentityIsTransaction
<1> QED BY <1>1, <1>2, <1>3, <1>4, <1>5, PTL DEF Spec

\* A boundary around everything never counts more units than transactions of
\* the server wrote, restarts and lost connections included.
THEOREM AlarmsTrue == Spec /\ TextsRead => []NoFalseAlarm
<1>1. Init /\ TextsRead => Inv
  BY InvInit
<1>2. Inv /\ [Next]_vars => Inv'
  BY InvStep
<1>3. Inv => NoFalseAlarm
  BY Counts DEF Inv, SessionOK, Clean, NoFalseAlarm
<1> QED BY <1>1, <1>2, <1>3, PTL DEF Spec

\* On PostgreSQL it counts exactly those, batches included.
THEOREM ClientExactOnPostgres == Spec /\ TextsRead => []ClientAgreesOnPostgres
<1>1. Init /\ TextsRead => Inv
  BY InvInit
<1>2. Inv /\ [Next]_vars => Inv'
  BY InvStep
<1>3. Inv => ClientAgreesOnPostgres
  <2> SUFFICES ASSUME Inv, ~MySQL PROVE ClientAgrees
    BY DEF ClientAgreesOnPostgres
  <2>1. Clean
    BY CleanOnPostgres DEF Inv
  <2> QED BY <2>1, Counts DEF Inv, SessionOK, UnitsOK, ClientAgrees
<1> QED BY <1>1, <1>2, <1>3, PTL DEF Spec

\* Every text of every world is SQL: words, with blanks and comments around them.
SqlTexts ==
    \A w \in DOMAIN Instances :
        \A cmd \in DOMAIN Instances[w].texts : \A text \in Instances[w].texts[cmd] :
            \E words \in Seq(STRING) : IsTextOf(text, cmd, words)

LEMMA WorldsRead == SqlTexts => \A w \in DOMAIN Instances : ReadRight(w)
<1> SUFFICES ASSUME SqlTexts, NEW w \in DOMAIN Instances,
                    NEW cmd \in DOMAIN Instances[w].texts,
                    NEW text \in Instances[w].texts[cmd]
             PROVE  /\ DefaultClassifier(text) = "write" <=> Modifies(cmd)
                    /\ DefaultClassifier(text) = "begin" <=> cmd = "begin"
                    /\ Ended(DefaultClassifier(text)) <=> Ends(cmd)
                    /\ IsImplicitCommit(text) <=> cmd = "create"
                    /\ ChangesAutocommit(text) <=> SetsAutocommit(cmd)
  BY DEF ReadRight
<1>1. text \in Seq(STRING)
  BY CrossCheckAssumption
<1>2. PICK words \in Seq(STRING) : IsTextOf(text, cmd, words)
  BY DEF SqlTexts
<1> QED BY <1>1, <1>2, TextRead

\* TextsRead, for every set of texts that is written as SQL is.
THEOREM TextsAreRead == SqlTexts /\ Spec => []TextsRead
<1>1. SqlTexts /\ Init => TextsRead
  BY WorldsRead DEF Init, TextsRead
<1>2. TextsRead /\ [Next]_vars => TextsRead'
  BY ConfigKept DEF configVars, TextsRead
<1> QED BY <1>1, <1>2, PTL DEF Spec

\* So of a log of SQL statements all of this holds, with nothing assumed of how
\* the texts are read.
THEOREM RightOnSql ==
    SqlTexts /\ Spec =>
        [](/\ NumbersLast => GroupedAsRun /\ VerdictSound
           /\ NoFalseAlarm /\ ClientAgreesOnPostgres)
<1>1. SqlTexts /\ Spec => []TextsRead
  BY TextsAreRead
<1> QED BY <1>1, IdentityIsTransaction, VerdictsRight, AlarmsTrue, ClientExactOnPostgres, PTL
=============================================================================
