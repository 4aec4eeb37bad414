\* One goroutine that uses a sql.Tx.
CONSTANTS
    g1 = g1  g2 = g2  c1 = c1  c2 = c2
    NoConn = NoConn
    Caller = {g1}
    Conn = {c1}
    Executed = {"write"}
    MaxTries = 3
    MaxTx = 1
SPECIFICATION Spec
INVARIANTS
    RetryIsRecorded
