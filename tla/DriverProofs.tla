----------------------------- MODULE DriverProofs -----------------------------
(***************************************************************************)
(* Proofs about the driver middleware, for any number of callers and       *)
(* connections, statements of every kind and any number of attempts. The   *)
(* first part is about the callers: who has which connection, and what was *)
(* observed of whose statement. The second is about the connections: for   *)
(* one of them, every action is one of six steps.                          *)
(***************************************************************************)
EXTENDS Driver, TLAPS

(***************************************************************************)
(* Callers                                                                 *)
(***************************************************************************)
OpType == [kind : Kind, runs : Nat, seen : Nat,
           fate : {"none", "open", "done", "unprepared", "gaveUp"}]

CallerType == [pc : {"idle", "begin", "reserve", "direct", "prepared"},
               conn : Conn \cup {NoConn}, pinned : BOOLEAN, inTx : BOOLEAN,
               tries : 0..(MaxTries - 1), op : OpType]

LifeType == {"none", "free", "held", "broken"}

\* A statement that is on its way has not been executed or observed.
OpInv(op) == /\ op.runs <= op.seen /\ op.seen <= 1
             /\ op.fate = "done" => op.seen = 1

CallerInv(r) ==
    /\ r \in CallerType
    /\ OpInv(r.op)
    /\ r.pc \in {"direct", "prepared"} =>
         r.op.fate = "open" /\ r.op.runs = 0 /\ r.op.seen = 0
    /\ r.pc \in {"begin", "reserve"} => ~r.inTx
    /\ r.pinned \/ r.inTx \/ r.pc = "prepared" => r.conn \in Conn

\* A connection that a caller has is nobody else's and is not in the pool; only
\* inside a Tx may it be broken.
Owned ==
    /\ life \in [Conn -> LifeType]
    /\ caller \in [Caller -> CallerType]
    /\ \A g \in Caller : CallerInv(caller[g])
    /\ \A g \in Caller : caller[g].conn # NoConn =>
         \/ life[caller[g].conn] = "held"
         \/ life[caller[g].conn] = "broken" /\ caller[g].inTx
    /\ \A g, h \in Caller : caller[g].conn # NoConn /\ caller[g].conn = caller[h].conn =>
                              g = h

(***************************************************************************)
(* Connections                                                             *)
(***************************************************************************)
Live(c) == life[c] \in {"free", "held"}

LinkTyped ==
    /\ txSeq \in Nat /\ serverSeq \in Nat
    /\ session \in [Conn -> 0..txSeq] /\ server \in [Conn -> 0..serverSeq]
    /\ units \subseteq [tx : 0..serverSeq, unit : 0..txSeq]
    /\ astray \subseteq Conn

\* Transactions are of one connection, and a dead one has none.
Apart ==
    /\ \A c \in Conn : ~Live(c) => server[c] = 0
    /\ \A c, d \in Conn : session[c] # 0 /\ session[c] = session[d] => c = d
    /\ \A c, d \in Conn : server[c] # 0 /\ server[c] = server[d] => c = d

\* What a connection is in is what the earlier writes of its unit, or of its
\* transaction, were in.
Linked ==
    \A u \in units, c \in Conn \ astray : Live(c) =>
        /\ u.unit # 0 /\ u.unit = session[c] => u.tx = server[c]
        /\ u.tx # 0 /\ u.tx = server[c] /\ u.tx \notin joined => u.unit = session[c]

LinkInv == LinkTyped /\ Apart /\ SessionFollowsServer /\ Linked /\ NeverMerged /\ NeverSplit

(***************************************************************************)
(* The six steps                                                           *)
(***************************************************************************)
SameElsewhere(c) == \A d \in Conn \ {c} : Live(d)' <=> Live(d)

\* Nothing happens to the transactions.
Stays ==
    /\ UNCHANGED <<clientVars, serverVars, historyVars>>
    /\ \A c \in Conn : Live(c)' <=> Live(c)

\* The connection is gone, and the Session is left behind.
Loses(c) ==
    /\ server' = [server EXCEPT ![c] = 0]
    /\ ~Live(c)' /\ SameElsewhere(c)
    /\ UNCHANGED <<clientVars, serverSeq, historyVars>>

\* Neither side has a transaction any more.
Clears(c) ==
    /\ session' = [session EXCEPT ![c] = 0]
    /\ server' = [server EXCEPT ![c] = 0]
    /\ astray' = astray \ {c}
    /\ SameElsewhere(c)
    /\ UNCHANGED <<txSeq, serverSeq, units, joined>>

\* The Session begins a transaction, the server too or it has one.
Begins(c) ==
    /\ Live(c) /\ Live(c)' /\ SameElsewhere(c)
    /\ txSeq' = txSeq + 1 /\ session' = [session EXCEPT ![c] = txSeq + 1]
    /\ \/ /\ server[c] = 0
          /\ serverSeq' = serverSeq + 1 /\ server' = [server EXCEPT ![c] = serverSeq + 1]
          /\ astray' = astray \ {c}
          /\ UNCHANGED joined
       \/ /\ server[c] # 0
          /\ joined' = joined \cup {server[c]}
          /\ UNCHANGED <<serverVars, astray>>
    /\ UNCHANGED units

\* One side begins or ends a transaction, and the other may not know.
Strays(c) ==
    /\ Live(c) /\ Live(c)' /\ SameElsewhere(c)
    /\ astray' = astray \cup {c}
    /\ \/ txSeq' = txSeq /\ \E x \in {0, session[c]} : session' = [session EXCEPT ![c] = x]
       \/ txSeq' = txSeq + 1 /\ session' = [session EXCEPT ![c] = txSeq + 1]
    /\ \/ UNCHANGED serverVars
       \/ serverSeq' = serverSeq + 1 /\ server' = [server EXCEPT ![c] = serverSeq + 1]
    /\ UNCHANGED <<units, joined>>

\* A write is observed.
Writes(c) ==
    /\ Live(c) /\ c \notin astray
    /\ units' = units \cup {[tx |-> server[c], unit |-> session[c]]}
    /\ \A d \in Conn : Live(d)' <=> Live(d)
    /\ UNCHANGED <<clientVars, serverVars, joined, astray>>

LinkStep ==
    \/ Stays
    \/ \E c \in Conn :
         Loses(c) \/ Clears(c) \/ Begins(c) \/ Strays(c) \/ Writes(c)

LEMMA StaysLinked == LinkInv /\ Stays => LinkInv'
<1> SUFFICES ASSUME LinkInv, Stays PROVE LinkInv'
  OBVIOUS
<1> USE DEF LinkInv, Stays, clientVars, serverVars, historyVars
<1>1. LinkTyped'
  BY DEF LinkTyped
<1>2. Apart'
  BY DEF Apart
<1>3. SessionFollowsServer'
  BY DEF SessionFollowsServer, Live
<1>4. Linked'
  BY DEF Linked
<1>5. NeverMerged' /\ NeverSplit'
  BY DEF NeverMerged, NeverSplit
<1> QED BY <1>1, <1>2, <1>3, <1>4, <1>5

LEMMA LosesLinked == ASSUME LinkInv, NEW c \in Conn, Loses(c) PROVE LinkInv'
<1> USE DEF LinkInv, Loses, SameElsewhere, clientVars, historyVars
<1>1. LinkTyped'
  BY DEF LinkTyped
<1>2. Apart'
  BY DEF Apart, LinkTyped
<1>3. SessionFollowsServer'
  BY DEF SessionFollowsServer, Live, LinkTyped
<1>4. Linked'
  BY DEF Linked, LinkTyped
<1>5. NeverMerged' /\ NeverSplit'
  BY DEF NeverMerged, NeverSplit
<1> QED BY <1>1, <1>2, <1>3, <1>4, <1>5

LEMMA ClearsLinked == ASSUME LinkInv, NEW c \in Conn, Clears(c) PROVE LinkInv'
<1> USE DEF LinkInv, Clears, SameElsewhere
<1>1. LinkTyped'
  BY DEF LinkTyped
<1>2. Apart'
  BY DEF Apart, LinkTyped
<1>3. SessionFollowsServer'
  BY DEF SessionFollowsServer, Live, LinkTyped
<1>4. Linked'
  BY DEF Linked, LinkTyped
<1>5. NeverMerged' /\ NeverSplit'
  BY DEF NeverMerged, NeverSplit
<1> QED BY <1>1, <1>2, <1>3, <1>4, <1>5

LEMMA BeginsLinked == ASSUME LinkInv, NEW c \in Conn, Begins(c) PROVE LinkInv'
<1> USE DEF LinkInv, Begins, SameElsewhere, serverVars
<1>1. LinkTyped'
  BY DEF LinkTyped
<1>2. Apart'
  BY DEF Apart, LinkTyped
<1>3. SessionFollowsServer'
  BY DEF SessionFollowsServer, Live, LinkTyped
<1>4. Linked'
  BY DEF Linked, LinkTyped, Apart
<1>5. NeverMerged' /\ NeverSplit'
  BY DEF NeverMerged, NeverSplit
<1> QED BY <1>1, <1>2, <1>3, <1>4, <1>5

LEMMA StraysLinked == ASSUME LinkInv, NEW c \in Conn, Strays(c) PROVE LinkInv'
<1> USE DEF LinkInv, Strays, SameElsewhere, serverVars
<1>1. LinkTyped'
  BY DEF LinkTyped
<1>2. Apart'
  BY DEF Apart, LinkTyped
<1>3. SessionFollowsServer'
  BY DEF SessionFollowsServer, Live, LinkTyped
<1>4. Linked'
  BY DEF Linked, LinkTyped
<1>5. NeverMerged' /\ NeverSplit'
  BY DEF NeverMerged, NeverSplit
<1> QED BY <1>1, <1>2, <1>3, <1>4, <1>5

LEMMA WritesLinked == ASSUME LinkInv, NEW c \in Conn, Writes(c) PROVE LinkInv'
<1> DEFINE w == [tx |-> server[c], unit |-> session[c]]
<1> USE DEF LinkInv, Writes, clientVars, serverVars
<1>1. LinkTyped'
  BY DEF LinkTyped
<1>2. Apart'
  BY DEF Apart
<1>3. SessionFollowsServer'
  BY DEF SessionFollowsServer, Live
<1>4. session[c] # 0 <=> server[c] # 0
  BY DEF SessionFollowsServer, Live
<1>5. Linked'
  BY <1>4 DEF Linked, Apart
<1>6. NeverMerged' /\ NeverSplit'
  BY <1>4 DEF Linked, NeverMerged, NeverSplit
<1> QED BY <1>1, <1>2, <1>3, <1>5, <1>6

LEMMA LinkStepLinked == LinkInv /\ LinkStep => LinkInv'
BY StaysLinked, LosesLinked, ClearsLinked, BeginsLinked, StraysLinked, WritesLinked
   DEF LinkStep

IInv == Owned /\ LinkInv

(***************************************************************************)
(* Every action is one of them                                             *)
(***************************************************************************)

\* A caller that has a connection, and an answer that leaves it alive.
LEMMA HasConn ==
    ASSUME Owned, NEW g \in Caller, caller[g].conn # NoConn
    PROVE  caller[g].conn \in Conn
BY DEF Owned, CallerInv, CallerType

LEMMA AnswerKeeps ==
    ASSUME Owned, NEW g \in Caller, NEW op, Answer(g, op),
           caller[g].conn \in Conn, life[caller[g].conn] = "held"
    PROVE  \A d \in Conn : Live(d)' <=> Live(d)
BY DEF Owned, Answer, Live

LEMMA RunLinks == ASSUME IInv, NEW g \in Caller, Run(g) PROVE LinkStep
<1>c. PICK c \in Conn : c = caller[g].conn
  BY HasConn DEF IInv, Run, AtDriver
<1>1. /\ c = caller[g].conn /\ life[c] = "held" /\ Live(c)
      /\ KindOf(g) \in Kind
  BY <1>c DEF IInv, Run, AtDriver, Live, Owned, CallerInv, CallerType, OpType, KindOf
<1>2. \A d \in Conn : Live(d)' <=> Live(d)
  BY <1>1, AnswerKeeps DEF IInv, Run
<1>3. /\ txSeq \in Nat /\ serverSeq \in Nat
      /\ session \in [Conn -> 0..txSeq] /\ server \in [Conn -> 0..serverSeq]
      /\ c \notin astray => (session[c] # 0 <=> server[c] # 0)
  BY <1>1 DEF IInv, LinkInv, LinkTyped, SessionFollowsServer
<1>4. CASE KindOf(g) \in {"commit", "rollback"}
  <2>1. Clears(c)
    BY <1>1, <1>2, <1>3, <1>4
       DEF Run, Observe, Note, IsObserved, Clears, SameElsewhere
  <2> QED BY <1>1, <2>1 DEF LinkStep
<1>5. CASE KindOf(g) = "begin" /\ c \in astray
  <2>1. astray' = astray \cup {c} /\ UNCHANGED <<units, joined>>
    BY <1>1, <1>5 DEF Run, Note
  <2>2. \/ txSeq' = txSeq /\ session' = [session EXCEPT ![c] = session[c]]
        \/ txSeq' = txSeq + 1 /\ session' = [session EXCEPT ![c] = txSeq + 1]
    BY <1>1, <1>3, <1>5 DEF Run, Observe, IsObserved
  <2>3. \/ UNCHANGED serverVars
        \/ serverSeq' = serverSeq + 1 /\ server' = [server EXCEPT ![c] = serverSeq + 1]
    BY <1>1, <1>3, <1>5 DEF Run, serverVars
  <2>4. Strays(c)
    BY <1>1, <1>2, <2>1, <2>2, <2>3 DEF Strays, SameElsewhere
  <2> QED BY <1>1, <2>4 DEF LinkStep
<1>6. CASE KindOf(g) = "begin" /\ c \notin astray /\ server[c] = 0
  <2>1. astray' = astray \ {c} /\ UNCHANGED <<units, joined>>
    BY <1>1, <1>6 DEF Run, Note
  <2>2. txSeq' = txSeq + 1 /\ session' = [session EXCEPT ![c] = txSeq + 1]
    BY <1>1, <1>3, <1>6 DEF Run, Observe, IsObserved
  <2>3. serverSeq' = serverSeq + 1 /\ server' = [server EXCEPT ![c] = serverSeq + 1]
    BY <1>1, <1>6 DEF Run
  <2>4. Begins(c)
    BY <1>1, <1>2, <1>6, <2>1, <2>2, <2>3 DEF Begins, SameElsewhere
  <2> QED BY <1>1, <2>4 DEF LinkStep
<1>7. CASE KindOf(g) = "begin" /\ c \notin astray /\ server[c] # 0
  <2>1. Stays
    BY <1>1, <1>2, <1>3, <1>7
       DEF Run, Observe, Note, IsObserved, Stays, clientVars, serverVars, historyVars
  <2> QED BY <2>1 DEF LinkStep
<1>8. CASE KindOf(g) = "write" /\ c \notin astray
  <2>1. Writes(c)
    BY <1>1, <1>2, <1>3, <1>8
       DEF Run, Observe, Note, IsObserved, Writes, clientVars, serverVars
  <2> QED BY <1>1, <2>1 DEF LinkStep
<1>9. CASE KindOf(g) = "read" \/ (KindOf(g) = "write" /\ c \in astray)
  <2>1. Stays
    BY <1>1, <1>2, <1>3, <1>9
       DEF Run, Observe, Note, IsObserved, Stays, clientVars, serverVars, historyVars
  <2> QED BY <2>1 DEF LinkStep
<1> QED BY <1>1, <1>4, <1>5, <1>6, <1>7, <1>8, <1>9 DEF Kind

LEMMA RefuseLinks == ASSUME IInv, NEW g \in Caller, Refuse(g) PROVE LinkStep
<1>c. PICK c \in Conn : c = caller[g].conn
  BY HasConn DEF IInv, Refuse, AtDriver
<1>1. /\ c = caller[g].conn /\ life[c] = "held" /\ Live(c)
      /\ KindOf(g) \in Kind
  BY <1>c DEF IInv, Refuse, AtDriver, Live, Owned, CallerInv, CallerType, OpType, KindOf
<1>2. \A d \in Conn : Live(d)' <=> Live(d)
  BY <1>1, AnswerKeeps DEF IInv, Refuse
<1>3. /\ txSeq \in Nat
      /\ session \in [Conn -> 0..txSeq] /\ server \in [Conn -> 0..serverSeq]
      /\ c \notin astray => (session[c] # 0 <=> server[c] # 0)
  BY <1>1 DEF IInv, LinkInv, LinkTyped, SessionFollowsServer
<1>4. CASE KindOf(g) \in {"begin", "commit", "rollback"} /\ (Matters(g) \/ c \in astray)
  <2>1. astray' = astray \cup {c} /\ UNCHANGED <<units, joined, serverVars>>
    BY <1>1, <1>4 DEF Refuse, Note
  <2>2. \/ txSeq' = txSeq /\ session' = [session EXCEPT ![c] = session[c]]
        \/ txSeq' = txSeq /\ session' = [session EXCEPT ![c] = 0]
        \/ txSeq' = txSeq + 1 /\ session' = [session EXCEPT ![c] = txSeq + 1]
    BY <1>1, <1>3, <1>4 DEF Refuse, Observe, IsObserved
  <2>3. Strays(c)
    BY <1>1, <1>2, <2>1, <2>2 DEF Strays, SameElsewhere
  <2> QED BY <1>1, <2>3 DEF LinkStep
<1>5. CASE /\ KindOf(g) \in {"begin", "commit", "rollback"}
           /\ ~Matters(g) /\ c \notin astray
  <2>1. UNCHANGED <<serverVars, historyVars>>
    BY <1>1, <1>5 DEF Refuse, Note, historyVars
  <2>2. CASE KindOf(g) = "begin"
    <3>1. session[c] # 0
      BY <1>1, <1>3, <1>5, <2>2 DEF Matters
    <3>2. txSeq' = txSeq /\ session' = [session EXCEPT ![c] = session[c]]
      BY <1>1, <2>2, <3>1 DEF Refuse, Observe, IsObserved
    <3>3. Stays
      BY <1>2, <1>3, <2>1, <3>2 DEF Stays, clientVars
    <3> QED BY <3>3 DEF LinkStep
  <2>3. CASE KindOf(g) \in {"commit", "rollback"}
    <3>1. session[c] = 0
      BY <1>1, <1>3, <1>5, <2>3 DEF Matters
    <3>2. txSeq' = txSeq /\ session' = [session EXCEPT ![c] = 0]
      BY <1>1, <2>3 DEF Refuse, Observe, IsObserved
    <3>3. Stays
      BY <1>2, <1>3, <2>1, <3>1, <3>2 DEF Stays, clientVars
    <3> QED BY <3>3 DEF LinkStep
  <2> QED BY <1>5, <2>2, <2>3
<1>6. CASE KindOf(g) = "write" /\ c \notin astray
  <2>1. Writes(c)
    BY <1>1, <1>2, <1>3, <1>6
       DEF Refuse, Matters, Observe, Note, IsObserved, Writes, clientVars, serverVars
  <2> QED BY <1>1, <2>1 DEF LinkStep
<1>7. CASE KindOf(g) = "read" \/ (KindOf(g) = "write" /\ c \in astray)
  <2>1. Stays
    BY <1>1, <1>2, <1>3, <1>7
       DEF Refuse, Matters, Observe, Note, IsObserved, Stays, clientVars, serverVars,
           historyVars
  <2> QED BY <2>1 DEF LinkStep
<1> QED BY <1>1, <1>4, <1>5, <1>6, <1>7 DEF Kind

\* The connection is lost: it was free, or the driver says so.
LEMMA CloseLinks == ASSUME IInv, NEW c \in Conn, Close(c) PROVE LinkStep
<1>1. Loses(c)
  BY DEF IInv, Owned, Close, Loses, SameElsewhere, Live, clientVars, historyVars
<1> QED BY <1>1 DEF LinkStep

LEMMA LossLinks ==
    ASSUME IInv, NEW g \in Caller, NEW c \in Conn, ReuseFails(g, c) PROVE LinkStep
<1>1. Loses(c)
  BY DEF IInv, Owned, ReuseFails, Loses, SameElsewhere, Live, clientVars, historyVars
<1> QED BY <1>1 DEF LinkStep

LEMMA BadLinks == ASSUME IInv, NEW g \in Caller, Bad(g) PROVE LinkStep
<1>1. PICK c \in Conn : c = caller[g].conn
  BY HasConn DEF IInv, Bad
<1>2. UNCHANGED <<clientVars, serverSeq, historyVars>>
  BY DEF Bad, Observe, Note, IsObserved, clientVars, historyVars
<1>3. Loses(c)
  BY <1>1, <1>2 DEF IInv, Owned, Bad, Loses, SameElsewhere, Live
<1> QED BY <1>1, <1>3 DEF LinkStep

LEMMA ConnectLinks ==
    ASSUME IInv, NEW g \in Caller, NEW c \in Conn, Connect(g, c) PROVE LinkStep
<1>1. server[c] = 0 /\ server \in [Conn -> 0..serverSeq]
  BY DEF IInv, LinkInv, LinkTyped, Apart, Connect, Live
<1>2. Clears(c)
  BY <1>1 DEF IInv, Owned, Connect, Clears, SameElsewhere, Live, serverVars
<1> QED BY <1>2 DEF LinkStep

LEMMA BeginTxLinks == ASSUME IInv, NEW g \in Caller, BeginTx(g) PROVE LinkStep
<1>c. PICK c \in Conn : c = caller[g].conn
  BY HasConn DEF IInv, BeginTx
<1>1. c = caller[g].conn /\ life[c] = "held"
  BY <1>c DEF IInv, BeginTx, Owned, CallerInv
<1>2. server \in [Conn -> 0..serverSeq]
  BY DEF IInv, LinkInv, LinkTyped
<1>3. /\ Live(c) /\ Live(c)' /\ SameElsewhere(c)
      /\ txSeq' = txSeq + 1 /\ session' = [session EXCEPT ![c] = txSeq + 1]
      /\ UNCHANGED units
  BY <1>1 DEF BeginTx, SameElsewhere, Live
<1>4. \/ /\ server[c] = 0
         /\ serverSeq' = serverSeq + 1 /\ server' = [server EXCEPT ![c] = serverSeq + 1]
         /\ astray' = astray \ {c}
         /\ UNCHANGED joined
      \/ /\ server[c] # 0
         /\ joined' = joined \cup {server[c]}
         /\ UNCHANGED <<serverVars, astray>>
  BY <1>1, <1>2 DEF BeginTx, serverVars
<1>5. Begins(c)
  BY <1>3, <1>4 DEF Begins
<1> QED BY <1>1, <1>5 DEF LinkStep

LEMMA EndTxLinks == ASSUME IInv, NEW g \in Caller, EndTx(g) PROVE LinkStep
<1>1. PICK c \in Conn : c = caller[g].conn
  BY DEF IInv, EndTx, TxOver, Owned, CallerInv
<1>2. Clears(c)
  BY <1>1 DEF IInv, Owned, EndTx, TxOver, Clears, SameElsewhere, Live
<1> QED BY <1>1, <1>2 DEF LinkStep

\* What leaves the transactions alone.
LEMMA ReuseStays ==
    ASSUME IInv, NEW g \in Caller, NEW c \in Conn, Reuse(g, c) PROVE Stays
BY DEF IInv, Stays, Owned, Reuse, Live

LEMMA SubmitStays == ASSUME NEW g, NEW kind, Submit(g, kind) PROVE Stays
BY DEF Submit, Stays, Live

LEMMA OthersStay ==
    ASSUME IInv, NEW g \in Caller,
           \/ Ask(g) \/ ConnectFails(g) \/ Release(g) \/ Skip(g) \/ PrepareFails(g)
           \/ BeginFails(g)
    PROVE  Stays
<1> USE DEF IInv, Stays
<1>1. CASE Ask(g) \/ ConnectFails(g)
  BY <1>1 DEF Ask, ConnectFails, Live
<1>2. CASE Release(g)
  <2>1. caller[g].conn \in Conn /\ life[caller[g].conn] = "held"
    BY <1>2, DriverAssumption DEF Release, Owned, CallerInv
  <2> QED BY <1>2, <2>1 DEF Owned, Release, Live
<1>3. CASE Skip(g)
  BY <1>3 DEF Skip, Observe, Note, IsObserved, Live, clientVars, historyVars
<1>4. CASE PrepareFails(g) \/ BeginFails(g)
  <2>1. caller[g].conn \in Conn /\ life[caller[g].conn] = "held"
    BY <1>4, HasConn, DriverAssumption DEF PrepareFails, BeginFails, Owned, CallerInv
  <2>2. PICK op : Answer(g, op)
    BY <1>4 DEF PrepareFails, BeginFails
  <2> QED BY <1>4, <2>1, <2>2, AnswerKeeps DEF PrepareFails, BeginFails
<1> QED BY <1>1, <1>2, <1>3, <1>4

LEMMA NextLinks == IInv /\ Next => LinkStep
<1> SUFFICES ASSUME IInv, Next PROVE LinkStep
  OBVIOUS
<1>1. ASSUME NEW g \in Caller, NEW kind \in Executed, Submit(g, kind) PROVE LinkStep
  BY <1>1, SubmitStays DEF LinkStep
<1>2. ASSUME NEW g \in Caller,
             \/ Ask(g) \/ ConnectFails(g) \/ Release(g) \/ Skip(g) \/ PrepareFails(g)
             \/ BeginFails(g)
      PROVE  LinkStep
  BY <1>2, OthersStay DEF LinkStep
<1>3. ASSUME NEW g \in Caller, NEW c \in Conn, Reuse(g, c) PROVE LinkStep
  BY <1>3, ReuseStays DEF LinkStep
<1>4. ASSUME NEW g \in Caller, NEW c \in Conn, ReuseFails(g, c) PROVE LinkStep
  BY <1>4, LossLinks
<1>5. ASSUME NEW g \in Caller, NEW c \in Conn, Connect(g, c) PROVE LinkStep
  BY <1>5, ConnectLinks
<1>6. ASSUME NEW g \in Caller, Run(g) \/ Refuse(g) \/ BeginTx(g) \/ EndTx(g) PROVE LinkStep
  BY <1>6, RunLinks, RefuseLinks, BeginTxLinks, EndTxLinks
<1>7. ASSUME NEW g \in Caller, Bad(g) PROVE LinkStep
  BY <1>7, BadLinks
<1>8. ASSUME NEW c \in Conn, Close(c) PROVE LinkStep
  BY <1>8, CloseLinks
<1> QED BY <1>1, <1>2, <1>3, <1>4, <1>5, <1>6, <1>7, <1>8 DEF Next

(***************************************************************************)
(* Who has which connection                                                *)
(***************************************************************************)

\* One caller's record becomes r, and the connections of the others are theirs.
Becomes(g, r) ==
    /\ CallerInv(r)
    /\ caller' = [caller EXCEPT ![g] = r]
    /\ life' \in [Conn -> LifeType]
    /\ r.conn # NoConn => \/ life'[r.conn] = "held"
                          \/ life'[r.conn] = "broken" /\ r.inTx
    /\ \A h \in Caller \ {g} : caller[h].conn # NoConn =>
         /\ caller[h].conn # r.conn
         /\ life'[caller[h].conn] = life[caller[h].conn]

LEMMA OwnedStep == ASSUME Owned, NEW g \in Caller, NEW r, Becomes(g, r) PROVE Owned'
<1> USE DEF Becomes
<1>1. /\ caller' \in [Caller -> CallerType]
      /\ \A h \in Caller : caller'[h] = IF h = g THEN r ELSE caller[h]
  BY DEF Owned, CallerInv
<1>2. \A h \in Caller : CallerInv(caller'[h])
  BY <1>1 DEF Owned
<1>3. \A h \in Caller : caller'[h].conn # NoConn =>
         \/ life'[caller'[h].conn] = "held"
         \/ life'[caller'[h].conn] = "broken" /\ caller'[h].inTx
  BY <1>1 DEF Owned
<1>4. \A h, k \in Caller :
         caller'[h].conn # NoConn /\ caller'[h].conn = caller'[k].conn => h = k
  BY <1>1 DEF Owned
<1> QED BY <1>1, <1>2, <1>3, <1>4 DEF Owned, CallerInv

\* What Owned says of one caller, and of a connection of its own.
LEMMA OfCaller ==
    ASSUME Owned, NEW g \in Caller
    PROVE  /\ CallerInv(caller[g])
           /\ life \in [Conn -> LifeType]
           /\ caller[g].conn # NoConn =>
                \/ life[caller[g].conn] = "held"
                \/ life[caller[g].conn] = "broken" /\ caller[g].inTx
           /\ \A h \in Caller \ {g} : caller[h].conn # NoConn =>
                /\ caller[h].conn \in Conn
                /\ caller[h].conn # caller[g].conn
                /\ life[caller[h].conn] \notin {"free", "none"}
BY DEF Owned, CallerInv, CallerType

LEMMA SubmitOwns ==
    ASSUME Owned, NEW g \in Caller, NEW kind \in Executed, Submit(g, kind) PROVE Owned'
<1>q. PICK q : q = caller[g]
  OBVIOUS
<1>r. PICK r : r = [q EXCEPT !.pc = "direct", !.op = Op(kind, "open")]
  OBVIOUS
<1>1. q \in CallerType /\ CallerInv(q) /\ kind \in Kind
  BY <1>q, OfCaller, DriverAssumption DEF CallerInv
<1>2. Op(kind, "open") \in OpType
  BY <1>1 DEF OpType, Op
<1>3. r \in CallerType /\ r.conn = q.conn /\ r.inTx = q.inTx /\ r.pinned = q.pinned
      /\ r.pc = "direct" /\ r.op = Op(kind, "open")
  BY <1>1, <1>2, <1>r DEF CallerType
<1>4. CallerInv(r)
  BY <1>1, <1>3 DEF CallerInv, OpInv, Op
<1>5. caller' = [caller EXCEPT ![g] = r] /\ life' = life
  BY <1>q, <1>r DEF Submit, Owned
<1>6. Becomes(g, r)
  BY <1>q, <1>3, <1>4, <1>5, OfCaller DEF Becomes
<1> QED BY <1>6, OwnedStep

LEMMA AskOwns == ASSUME Owned, NEW g \in Caller, Ask(g) PROVE Owned'
<1>q. PICK q : q = caller[g]
  OBVIOUS
<1>p. PICK pc \in {"begin", "reserve"} : caller' = [caller EXCEPT ![g].pc = pc, ![g].op = NoOp]
  BY DEF Ask
<1>r. PICK r : r = [q EXCEPT !.pc = pc, !.op = NoOp]
  OBVIOUS
<1>1. q \in CallerType /\ CallerInv(q) /\ ~q.inTx
  BY <1>q, OfCaller DEF CallerInv, Ask
<1>2. NoOp \in OpType
  BY DEF OpType, NoOp, Op, Kind
<1>3. r \in CallerType /\ r.conn = q.conn /\ r.inTx = q.inTx /\ r.pinned = q.pinned
      /\ r.pc = pc /\ r.op = NoOp
  BY <1>1, <1>2, <1>r DEF CallerType
<1>4. CallerInv(r)
  BY <1>1, <1>3 DEF CallerInv, OpInv, NoOp, Op
<1>5. caller' = [caller EXCEPT ![g] = r] /\ life' = life
  BY <1>q, <1>p, <1>r DEF Ask, Owned
<1>6. Becomes(g, r)
  BY <1>q, <1>3, <1>4, <1>5, OfCaller DEF Becomes
<1> QED BY <1>6, OwnedStep

\* A connection that nobody had.
LEMMA GotOwns ==
    ASSUME Owned, NEW g \in Caller, NEW c \in Conn, Wanting(g), Got(g, c),
           life[c] \in {"free", "none"}, life' = [life EXCEPT ![c] = "held"]
    PROVE  Owned'
<1>q. PICK q : q = caller[g]
  OBVIOUS
<1>r. PICK r : r = [q EXCEPT !.conn = c,
                             !.pinned = @ \/ q.pc = "reserve",
                             !.pc = IF @ = "reserve" THEN "idle" ELSE @,
                             !.tries = IF q.pc = "reserve" THEN 0 ELSE @]
  OBVIOUS
<1>1. q \in CallerType /\ CallerInv(q) /\ 0 \in 0..(MaxTries - 1)
  BY <1>q, OfCaller, DriverAssumption DEF CallerInv
<1>2. r \in CallerType /\ r.conn = c /\ r.inTx = q.inTx /\ r.op = q.op
      /\ r.pc = IF q.pc = "reserve" THEN "idle" ELSE q.pc
  BY <1>1, <1>r DEF CallerType
<1>3. CallerInv(r)
  BY <1>1, <1>2 DEF CallerInv
<1>4. caller' = [caller EXCEPT ![g] = r]
  BY <1>q, <1>r DEF Got, Owned
<1>5. /\ life' \in [Conn -> LifeType] /\ life'[c] = "held"
      /\ \A h \in Caller \ {g} : caller[h].conn # NoConn =>
           caller[h].conn # c /\ life'[caller[h].conn] = life[caller[h].conn]
  BY OfCaller DEF LifeType
<1>6. Becomes(g, r)
  BY <1>2, <1>3, <1>4, <1>5 DEF Becomes
<1> QED BY <1>6, OwnedStep

\* An attempt that failed with ErrBadConn, by itself.
LEMMA AfterBadInv ==
    ASSUME Owned, NEW g \in Caller, caller[g].pc # "idle"
    PROVE  /\ CallerInv(AfterBad(g))
           /\ AfterBad(g).op.kind = caller[g].op.kind
           /\ AfterBad(g).inTx = caller[g].inTx
           /\ AfterBad(g).conn = IF caller[g].inTx THEN caller[g].conn ELSE NoConn
<1>q. PICK q : q = caller[g]
  OBVIOUS
<1>b. PICK gives \in BOOLEAN : gives <=> q.pinned \/ q.inTx \/ q.tries + 1 = MaxTries
  OBVIOUS
<1>o. PICK op : op = [q.op EXCEPT !.fate = IF gives /\ @ = "open" THEN "gaveUp" ELSE @]
  OBVIOUS
<1>r. PICK r : r = [q EXCEPT !.pc = IF gives THEN "idle"
                                    ELSE IF @ = "prepared" THEN "direct" ELSE @,
                             !.conn = IF q.inTx THEN @ ELSE NoConn,
                             !.pinned = @ /\ q.inTx,
                             !.tries = IF gives THEN 0 ELSE @ + 1,
                             !.op = op]
  OBVIOUS
<1>1. q \in CallerType /\ CallerInv(q)
  BY <1>q, OfCaller DEF CallerInv
<1>2. op \in OpType /\ op.kind = q.op.kind /\ op.runs = q.op.runs /\ op.seen = q.op.seen
      /\ op.fate = IF gives /\ q.op.fate = "open" THEN "gaveUp" ELSE q.op.fate
  BY <1>1, <1>o DEF CallerType, OpType
<1>3. (IF gives THEN 0 ELSE q.tries + 1) \in 0..(MaxTries - 1)
  BY <1>1, <1>b, DriverAssumption DEF CallerType
<1>4. r \in CallerType /\ r.op = op /\ r.inTx = q.inTx /\ r.pinned = (q.pinned /\ q.inTx)
      /\ r.conn = (IF q.inTx THEN q.conn ELSE NoConn)
      /\ r.pc = (IF gives THEN "idle" ELSE IF q.pc = "prepared" THEN "direct" ELSE q.pc)
  BY <1>1, <1>2, <1>3, <1>r DEF CallerType
<1>5. CallerInv(r)
  BY <1>b, <1>1, <1>2, <1>4 DEF CallerInv, OpInv
<1>6. AfterBad(g) = r
  BY <1>q, <1>b, <1>o, <1>r DEF AfterBad, GivesUp, Fixed
<1> QED BY <1>q, <1>2, <1>4, <1>5, <1>6

LEMMA AfterBadPc ==
    ASSUME Owned, NEW g \in Caller, AfterBad(g).pc \in {"direct", "prepared"}
    PROVE  caller[g].pc \in {"direct", "prepared"} /\ ~GivesUp(g)
<1>q. PICK q \in CallerType : q = caller[g]
  BY OfCaller DEF CallerInv
<1>1. AfterBad(g).pc = IF GivesUp(g) THEN "idle"
                       ELSE IF q.pc = "prepared" THEN "direct" ELSE q.pc
  BY <1>q DEF AfterBad, CallerType
<1> QED BY <1>q, <1>1

LEMMA ReuseFailsOwns ==
    ASSUME Owned, NEW g \in Caller, NEW c \in Conn, ReuseFails(g, c) PROVE Owned'
<1>r. PICK r : r = AfterBad(g)
  OBVIOUS
<1>1. caller[g].conn = NoConn /\ CallerInv(caller[g])
  BY OfCaller DEF ReuseFails, Wanting
<1>2. ~caller[g].inTx
  BY <1>1, DriverAssumption DEF CallerInv
<1>3. CallerInv(r) /\ r.conn = NoConn
  BY <1>r, <1>1, <1>2, AfterBadInv DEF ReuseFails, Wanting
<1>4. caller' = [caller EXCEPT ![g] = r]
  BY <1>r DEF ReuseFails
<1>5. /\ life' \in [Conn -> LifeType]
      /\ \A h \in Caller \ {g} : caller[h].conn # NoConn =>
           life'[caller[h].conn] = life[caller[h].conn]
  BY OfCaller DEF ReuseFails, LifeType
<1>6. Becomes(g, r)
  BY <1>3, <1>4, <1>5 DEF Becomes
<1> QED BY <1>6, OwnedStep

\* A caller that has nothing any more.
LEMMA IdleInv == CallerInv(Idle) /\ Idle.conn = NoConn
BY DriverAssumption DEF CallerInv, CallerType, OpType, OpInv, Idle, NoOp, Op, Kind

LEMMA ConnectFailsOwns == ASSUME Owned, NEW g \in Caller, ConnectFails(g) PROVE Owned'
<1>q. PICK q : q = caller[g].op
  OBVIOUS
<1>o. PICK op : op = [q EXCEPT !.fate = IF @ = "open" THEN "gaveUp" ELSE @]
  OBVIOUS
<1>r. PICK r : r = [Idle EXCEPT !.op = op]
  OBVIOUS
<1>1. q \in OpType /\ OpInv(q)
  BY <1>q, OfCaller DEF CallerInv, CallerType
<1>2. op \in OpType /\ OpInv(op)
  BY <1>1, <1>o DEF OpType, OpInv
<1>3. CallerInv(r) /\ r.conn = NoConn
  <2>1. r \in CallerType /\ r.op = op /\ r.conn = NoConn
    BY <1>2, <1>r, IdleInv DEF CallerInv, CallerType
  <2>2. r.pc = "idle" /\ ~r.pinned /\ ~r.inTx
    BY <1>r DEF Idle
  <2> QED BY <1>2, <2>1, <2>2 DEF CallerInv
<1>4. caller' = [caller EXCEPT ![g] = r] /\ life' = life
  BY <1>q, <1>o, <1>r DEF ConnectFails
<1>5. Becomes(g, r)
  BY <1>3, <1>4, OfCaller DEF Becomes
<1> QED BY <1>5, OwnedStep

LEMMA CloseOwns == ASSUME Owned, NEW c \in Conn, Close(c) PROVE Owned'
<1>1. life' \in [Conn -> LifeType] /\ caller' = caller
  BY DEF Close, Owned, LifeType
<1>2. \A g \in Caller : caller[g].conn # NoConn =>
         life'[caller[g].conn] = life[caller[g].conn]
  BY HasConn DEF Close, Owned
<1> QED BY <1>1, <1>2 DEF Owned

LEMMA ReleaseOwns == ASSUME Owned, NEW g \in Caller, Release(g) PROVE Owned'
<1>c. PICK c \in Conn : c = caller[g].conn
  BY OfCaller DEF Release, CallerInv
<1>1. caller' = [caller EXCEPT ![g] = Idle] /\ life' = [life EXCEPT ![c] = "free"]
  BY <1>c DEF Release
<1>2. /\ life' \in [Conn -> LifeType]
      /\ \A h \in Caller \ {g} : caller[h].conn # NoConn =>
           life'[caller[h].conn] = life[caller[h].conn]
  BY <1>c, <1>1, OfCaller DEF LifeType
<1>3. Becomes(g, Idle)
  BY <1>1, <1>2, IdleInv DEF Becomes
<1> QED BY <1>3, OwnedStep

\* The caller has its answer.
LEMMA AnswerOwns ==
    ASSUME Owned, NEW g \in Caller, NEW op \in OpType, OpInv(op), Answer(g, op),
           caller[g].conn # NoConn
    PROVE  Owned'
<1>q. PICK q : q = caller[g]
  OBVIOUS
<1>c. PICK c \in Conn : c = q.conn
  BY <1>q, HasConn
<1>r. PICK r : r = [q EXCEPT !.pc = "idle", !.tries = 0, !.op = op,
                             !.conn = IF q.pinned \/ q.inTx THEN @ ELSE NoConn]
  OBVIOUS
<1>1. q \in CallerType /\ CallerInv(q) /\ 0 \in 0..(MaxTries - 1)
  BY <1>q, OfCaller, DriverAssumption DEF CallerInv
<1>2. r \in CallerType /\ r.pc = "idle" /\ r.op = op /\ r.inTx = q.inTx
      /\ r.pinned = q.pinned
      /\ r.conn = IF q.pinned \/ q.inTx THEN c ELSE NoConn
  BY <1>1, <1>c, <1>r DEF CallerType
<1>3. CallerInv(r)
  BY <1>2 DEF CallerInv
<1>4. caller' = [caller EXCEPT ![g] = r]
  BY <1>q, <1>r DEF Answer, Fixed
<1>5. life' = IF q.pinned \/ q.inTx THEN life ELSE [life EXCEPT ![c] = "free"]
  BY <1>q, <1>c DEF Answer, Fixed
<1>6. /\ life' \in [Conn -> LifeType]
      /\ \A h \in Caller \ {g} : caller[h].conn # NoConn =>
           /\ caller[h].conn # c
           /\ life'[caller[h].conn] = life[caller[h].conn]
  BY <1>q, <1>c, <1>5, OfCaller DEF LifeType
<1>7. r.conn # NoConn => \/ life'[r.conn] = "held"
                         \/ life'[r.conn] = "broken" /\ r.inTx
  BY <1>q, <1>c, <1>2, <1>5, OfCaller
<1>8. Becomes(g, r)
  BY <1>2, <1>3, <1>4, <1>6, <1>7 DEF Becomes
<1> QED BY <1>8, OwnedStep

\* What is known of a statement after a call on the driver.
LEMMA ToldInv ==
    ASSUME Owned, NEW g \in Caller, caller[g].pc \in {"direct", "prepared"},
           NEW outcome \in {"ran", "error"}
    PROVE  Told(g, outcome, "done") \in OpType /\ OpInv(Told(g, outcome, "done"))
<1>q. PICK q : q = caller[g].op
  OBVIOUS
<1>1. q \in OpType /\ q.runs = 0 /\ q.seen = 0
  BY <1>q, OfCaller DEF CallerInv, CallerType
<1>n. PICK runs : runs = IF outcome = "ran" THEN q.runs + 1 ELSE q.runs
  OBVIOUS
<1>s. PICK seen : seen = IF IsObserved(outcome) THEN q.seen + 1 ELSE q.seen
  OBVIOUS
<1>t. PICK t : t = [q EXCEPT !.runs = runs, !.seen = seen, !.fate = "done"]
  OBVIOUS
<1>2. Told(g, outcome, "done") = t
  BY <1>q, <1>n, <1>s, <1>t DEF Told
<1>3. runs \in Nat /\ runs <= 1 /\ seen = 1
  BY <1>1, <1>n, <1>s DEF IsObserved
<1>4. t \in OpType /\ t.runs = runs /\ t.seen = seen
  BY <1>1, <1>3, <1>t DEF OpType
<1> QED BY <1>2, <1>3, <1>4 DEF OpInv

LEMMA RunOwns == ASSUME Owned, NEW g \in Caller, Run(g) \/ Refuse(g) PROVE Owned'
<1>1. caller[g].conn # NoConn /\ caller[g].pc \in {"direct", "prepared"}
  BY DEF Run, Refuse, AtDriver
<1>2. PICK outcome \in {"ran", "error"} : Answer(g, Told(g, outcome, "done"))
  BY DEF Run, Refuse
<1> QED BY <1>1, <1>2, ToldInv, AnswerOwns

LEMMA PrepareFailsOwns == ASSUME Owned, NEW g \in Caller, PrepareFails(g) PROVE Owned'
<1>q. PICK q : q = caller[g].op
  OBVIOUS
<1>o. PICK op : op = [q EXCEPT !.fate = "unprepared"]
  OBVIOUS
<1>1. q \in OpType /\ OpInv(q)
  BY <1>q, OfCaller DEF CallerInv, CallerType
<1>2. op \in OpType /\ OpInv(op)
  BY <1>1, <1>o DEF OpType, OpInv
<1>3. Answer(g, op) /\ caller[g].conn # NoConn
  BY <1>q, <1>o, OfCaller, DriverAssumption DEF PrepareFails, CallerInv
<1> QED BY <1>2, <1>3, AnswerOwns

LEMMA BeginFailsOwns == ASSUME Owned, NEW g \in Caller, BeginFails(g) PROVE Owned'
<1>1. NoOp \in OpType /\ OpInv(NoOp)
  BY DEF OpType, OpInv, NoOp, Op, Kind
<1> QED BY <1>1, AnswerOwns DEF BeginFails

LEMMA SkipOwns == ASSUME Owned, NEW g \in Caller, Skip(g) PROVE Owned'
<1>q. PICK q : q = caller[g]
  OBVIOUS
<1>o. PICK op : op = [q.op EXCEPT !.fate = "open"]
  OBVIOUS
<1>r. PICK r : r = [q EXCEPT !.pc = "prepared", !.op = op]
  OBVIOUS
<1>1. /\ q \in CallerType /\ CallerInv(q) /\ q.conn \in Conn
      /\ q.op \in OpType /\ q.op.runs = 0 /\ q.op.seen = 0
  BY <1>q, OfCaller, HasConn DEF CallerInv, CallerType, Skip
<1>2. op \in OpType /\ op.runs = 0 /\ op.seen = 0 /\ op.fate = "open"
  BY <1>1, <1>o DEF OpType
<1>3. /\ r \in CallerType /\ r.pc = "prepared" /\ r.op = op
      /\ r.conn = q.conn /\ r.inTx = q.inTx /\ r.pinned = q.pinned
  BY <1>1, <1>2, <1>r DEF CallerType
<1>4. CallerInv(r)
  BY <1>1, <1>2, <1>3 DEF CallerInv, OpInv
<1>5. Told(g, "skip", "open") = op
  <2>1. Told(g, "skip", "open") =
          [q.op EXCEPT !.runs = q.op.runs, !.seen = q.op.seen, !.fate = "open"]
    BY <1>q DEF Told, IsObserved
  <2> QED BY <1>1, <1>o, <2>1 DEF OpType
<1>6. caller' = [caller EXCEPT ![g] = r] /\ life' = life
  BY <1>q, <1>r, <1>5 DEF Skip, Owned
<1>7. Becomes(g, r)
  BY <1>q, <1>3, <1>4, <1>6, OfCaller DEF Becomes
<1> QED BY <1>7, OwnedStep

LEMMA BadOwns == ASSUME Owned, NEW g \in Caller, Bad(g) PROVE Owned'
<1>c. PICK c \in Conn : c = caller[g].conn
  BY HasConn DEF Bad
<1>a. PICK a : a = AfterBad(g)
  OBVIOUS
<1>1. /\ a \in CallerType /\ CallerInv(a) /\ a.inTx = caller[g].inTx
      /\ a.conn = IF caller[g].inTx THEN c ELSE NoConn
  BY <1>c, <1>a, AfterBadInv DEF Bad, CallerInv
<1>2. life' = [life EXCEPT ![c] = IF caller[g].inTx THEN "broken" ELSE "none"]
  BY <1>c DEF Bad
<1>3. /\ life' \in [Conn -> LifeType]
      /\ caller[g].inTx => life'[c] = "broken"
      /\ \A h \in Caller \ {g} : caller[h].conn # NoConn =>
           /\ caller[h].conn # c
           /\ life'[caller[h].conn] = life[caller[h].conn]
  BY <1>c, <1>2, OfCaller DEF LifeType
<1>4. ASSUME NEW r, CallerInv(r), r.conn = a.conn, r.inTx = a.inTx,
             caller' = [caller EXCEPT ![g] = r]
      PROVE  Owned'
  <2>1. Becomes(g, r)
    BY <1>1, <1>3, <1>4 DEF Becomes
  <2> QED BY <2>1, OwnedStep
<1>5. CASE caller[g].pc = "begin"
  <2>1. caller' = [caller EXCEPT ![g] = a]
    BY <1>5, <1>a DEF Bad
  <2> QED BY <1>1, <1>4, <2>1
<1>6. CASE caller[g].pc # "begin"
  <2>f. PICK fate : fate = IF GivesUp(g) THEN "gaveUp" ELSE "open"
    OBVIOUS
  <2>q. PICK q : q = caller[g].op
    OBVIOUS
  <2>o. PICK op : op = [q EXCEPT !.fate = fate]
    OBVIOUS
  <2>r. PICK r : r = [a EXCEPT !.op = op]
    OBVIOUS
  <2>1. q \in OpType /\ OpInv(q)
    BY <2>q, OfCaller DEF CallerInv, CallerType
  <2>2. fate \in {"gaveUp", "open"}
    BY <2>f
  <2>3. /\ op \in OpType /\ OpInv(op)
        /\ op.runs = q.runs /\ op.seen = q.seen /\ op.fate = fate
    BY <2>1, <2>2, <2>o DEF OpType, OpInv
  <2>4. /\ r \in CallerType /\ r.op = op /\ r.pc = a.pc /\ r.conn = a.conn
        /\ r.inTx = a.inTx /\ r.pinned = a.pinned
    BY <1>1, <2>3, <2>r DEF CallerType
  <2>5. r.pc \in {"direct", "prepared"} =>
          caller[g].pc \in {"direct", "prepared"} /\ ~GivesUp(g)
    BY <1>a, <2>4, AfterBadPc DEF Bad
  <2>6. CallerInv(r)
    BY <1>1, <2>f, <2>q, <2>3, <2>4, <2>5, OfCaller DEF CallerInv
  <2>7. Told(g, "bad", fate) = op
    <3>1. Told(g, "bad", fate) = [q EXCEPT !.runs = q.runs, !.seen = q.seen, !.fate = fate]
      BY <2>q DEF Told, IsObserved
    <3> QED BY <2>1, <2>o, <3>1 DEF OpType
  <2>8. caller' = [caller EXCEPT ![g] = r]
    BY <1>6, <1>a, <2>f, <2>r, <2>7 DEF Bad
  <2> QED BY <1>4, <2>4, <2>6, <2>8
<1> QED BY <1>5, <1>6

LEMMA BeginTxOwns == ASSUME Owned, NEW g \in Caller, BeginTx(g) PROVE Owned'
<1>q. PICK q : q = caller[g]
  OBVIOUS
<1>r. PICK r : r = [q EXCEPT !.pc = "idle", !.inTx = TRUE, !.tries = 0]
  OBVIOUS
<1>1. q \in CallerType /\ CallerInv(q) /\ q.conn \in Conn /\ 0 \in 0..(MaxTries - 1)
  BY <1>q, OfCaller, HasConn, DriverAssumption DEF CallerInv, BeginTx
<1>2. /\ r \in CallerType /\ r.pc = "idle" /\ r.inTx = TRUE /\ r.op = q.op
      /\ r.conn = q.conn
  BY <1>1, <1>r DEF CallerType
<1>3. CallerInv(r)
  BY <1>1, <1>2 DEF CallerInv
<1>4. caller' = [caller EXCEPT ![g] = r] /\ life' = life
  BY <1>q, <1>r DEF BeginTx, Owned
<1>5. Becomes(g, r)
  BY <1>q, <1>2, <1>3, <1>4, OfCaller DEF Becomes
<1> QED BY <1>5, OwnedStep

LEMMA EndTxOwns == ASSUME Owned, NEW g \in Caller, EndTx(g) PROVE Owned'
<1>q. PICK q : q = caller[g]
  OBVIOUS
<1>1. q \in CallerType /\ CallerInv(q)
  BY <1>q, OfCaller DEF CallerInv
<1>c. PICK c \in Conn : c = q.conn
  BY <1>q, <1>1 DEF EndTx, TxOver, CallerInv
<1>b. PICK bad \in BOOLEAN :
        /\ life[c] = "broken" => bad
        /\ life' = [life EXCEPT ![c] = IF bad THEN "none"
                                       ELSE IF q.pinned THEN @ ELSE "free"]
        /\ caller' = [caller EXCEPT ![g] =
             IF bad \/ ~q.pinned THEN Idle ELSE [q EXCEPT !.inTx = FALSE, !.op = NoOp]]
  BY <1>q, <1>c DEF EndTx, TxOver
<1>2. /\ life' \in [Conn -> LifeType]
      /\ \A h \in Caller \ {g} : caller[h].conn # NoConn =>
           /\ caller[h].conn # c
           /\ life'[caller[h].conn] = life[caller[h].conn]
  BY <1>q, <1>c, <1>b, OfCaller DEF LifeType
<1>3. CASE bad \/ ~q.pinned
  <2>1. caller' = [caller EXCEPT ![g] = Idle]
    BY <1>b, <1>3
  <2>2. Becomes(g, Idle)
    BY <1>2, <2>1, IdleInv DEF Becomes
  <2> QED BY <2>2, OwnedStep
<1>4. CASE ~bad /\ q.pinned
  <2>r. PICK r : r = [q EXCEPT !.inTx = FALSE, !.op = NoOp]
    OBVIOUS
  <2>1. NoOp \in OpType /\ OpInv(NoOp)
    BY DEF OpType, OpInv, NoOp, Op, Kind
  <2>2. r \in CallerType /\ r.conn = c /\ r.op = NoOp /\ r.pc = q.pc
    BY <1>1, <1>c, <2>1, <2>r DEF CallerType
  <2>3. q.pc = "idle"
    BY <1>q DEF EndTx, TxOver
  <2>4. CallerInv(r)
    BY <2>1, <2>2, <2>3 DEF CallerInv
  <2>5. caller' = [caller EXCEPT ![g] = r]
    BY <1>b, <1>4, <2>r
  <2>6. life'[c] = "held"
    BY <1>q, <1>c, <1>b, <1>4, OfCaller, DriverAssumption DEF LifeType
  <2>7. Becomes(g, r)
    BY <1>2, <2>2, <2>4, <2>5, <2>6 DEF Becomes
  <2> QED BY <2>7, OwnedStep
<1> QED BY <1>3, <1>4

LEMMA NextOwns == Owned /\ Next => Owned'
<1> SUFFICES ASSUME Owned, Next PROVE Owned'
  OBVIOUS
<1>1. ASSUME NEW g \in Caller, NEW kind \in Executed, Submit(g, kind) PROVE Owned'
  BY <1>1, SubmitOwns
<1>2. ASSUME NEW g \in Caller, Ask(g) \/ ConnectFails(g) \/ Release(g) PROVE Owned'
  BY <1>2, AskOwns, ConnectFailsOwns, ReleaseOwns
<1>3. ASSUME NEW g \in Caller, NEW c \in Conn, Reuse(g, c) PROVE Owned'
  BY <1>3, GotOwns DEF Reuse
<1>4. ASSUME NEW g \in Caller, NEW c \in Conn, Connect(g, c) PROVE Owned'
  BY <1>4, GotOwns DEF Connect
<1>5. ASSUME NEW g \in Caller, NEW c \in Conn, ReuseFails(g, c) PROVE Owned'
  BY <1>5, ReuseFailsOwns
<1>6. ASSUME NEW g \in Caller,
             Run(g) \/ Refuse(g) \/ Skip(g) \/ PrepareFails(g) \/ Bad(g)
      PROVE  Owned'
  BY <1>6, RunOwns, SkipOwns, PrepareFailsOwns, BadOwns
<1>7. ASSUME NEW g \in Caller, BeginTx(g) \/ BeginFails(g) \/ EndTx(g) PROVE Owned'
  BY <1>7, BeginTxOwns, BeginFailsOwns, EndTxOwns
<1>8. ASSUME NEW c \in Conn, Close(c) PROVE Owned'
  BY <1>8, CloseOwns
<1> QED BY <1>1, <1>2, <1>3, <1>4, <1>5, <1>6, <1>7, <1>8 DEF Next

(***************************************************************************)
(* The inductive invariant and what follows from it                        *)
(***************************************************************************)
LEMMA InitHas == Init => IInv
<1> SUFFICES ASSUME Init PROVE IInv
  OBVIOUS
<1>1. \A g \in Caller : CallerInv(caller[g]) /\ caller[g].conn = NoConn
  BY IdleInv DEF Init
<1>2. caller \in [Caller -> CallerType]
  BY IdleInv DEF Init, CallerInv
<1>3. Owned
  BY <1>1, <1>2 DEF Owned, Init, LifeType
<1>4. LinkInv
  BY DEF Init, LinkInv, LinkTyped, Apart, SessionFollowsServer, Linked, NeverMerged,
         NeverSplit, Live
<1> QED BY <1>3, <1>4 DEF IInv

LEMMA StutterKeeps == IInv /\ UNCHANGED vars => IInv'
<1> SUFFICES ASSUME IInv, UNCHANGED vars PROVE IInv'
  OBVIOUS
<1>1. Stays /\ UNCHANGED <<life, caller>>
  BY DEF vars, Stays, Live, clientVars, serverVars, historyVars
<1>2. LinkInv'
  BY <1>1, StaysLinked DEF IInv
<1>3. Owned'
  BY <1>1 DEF IInv, Owned
<1> QED BY <1>2, <1>3 DEF IInv

\* Each connection has one caller, and its Session and the server agree on the
\* unit of every write so far.
THEOREM Invariant == Spec => []IInv
<1>1. IInv /\ [Next]_vars => IInv'
  BY NextLinks, LinkStepLinked, NextOwns, StutterKeeps DEF IInv
<1> QED BY InitHas, <1>1, PTL DEF Spec

\* Callers and connections have their types, and whoever has a sql.Conn or a
\* sql.Tx has a connection.
THEOREM TypeCorrect == Spec => []TypeOK
<1>1. IInv => TypeOK
  BY DEF IInv, Owned, CallerInv, CallerType, OpType, LifeType, LinkInv, LinkTyped, TypeOK,
         Fixed
<1> QED BY Invariant, <1>1, PTL

\* What the server ran was observed once (the comments on double counting,
\* driver.go:130-136).
THEOREM CallsObservedOnce == Spec => []ObservedOnce
<1>1. IInv => ObservedOnce
  BY DEF IInv, Owned, CallerInv, OpInv, ObservedOnce
<1> QED BY Invariant, <1>1, PTL

\* A Session is in a transaction exactly while the server is (session.go:33), on
\* every connection that was not misled.
THEOREM SessionFollows == Spec => []SessionFollowsServer
<1>1. IInv => SessionFollowsServer
  BY DEF IInv, LinkInv
<1> QED BY Invariant, <1>1, PTL

\* Writes of two server transactions are never one unit (session.go:14-16).
THEOREM UnitsNotMerged == Spec => []NeverMerged
<1>1. IInv => NeverMerged
  BY DEF IInv, LinkInv
<1> QED BY Invariant, <1>1, PTL

\* Writes of one server transaction are never two units, but for a driver-level
\* begin inside it (session.go:75-78).
THEOREM UnitsNotSplit == Spec => []NeverSplit
<1>1. IInv => NeverSplit
  BY DEF IInv, LinkInv
<1> QED BY Invariant, <1>1, PTL
=============================================================================
