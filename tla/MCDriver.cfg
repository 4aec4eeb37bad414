\* Two goroutines, two connections, writes and textual transactions.
CONSTANTS
    g1 = g1  g2 = g2  c1 = c1  c2 = c2
    NoConn = NoConn
    Caller = {g1, g2}
    Conn = {c1, c2}
    Executed = {"write", "begin", "commit"}
    MaxTries = 2
    MaxTx = 2
SPECIFICATION Spec
SYMMETRY Symmetry
VIEW View
INVARIANTS
    TypeOK
    ObservedOnce
    NeverMerged
    NeverSplit
    SessionFollowsServer
