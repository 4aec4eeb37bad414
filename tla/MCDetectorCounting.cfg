\* One boundary, two transactions over two connections, past an inline
\* capacity of one and a recording cap of two.
CONSTANTS
    b1 = b1  b2 = b2  g1 = g1  g2 = g2  c1 = c1  c2 = c2  n1 = n1
    InlineCap = 1
    Boundary = {b1}
    NoBoundary = NoBoundary
    Conn = {c1, c2}
    Finisher = {g1}
    Name = {n1}
    NameOf <- OneName
    Reporters = 1
    StaleReporters = {}
    MaxRecorded = 2
    ReportNested = TRUE
    ReportUnbounded = FALSE
    MarkCounts <- NoMarks
    ObservedKinds = {"read", "write", "begin", "commit"}
    MaxTx = 2
    MaxStatements = 4
    MaxUnbounded = 1
SPECIFICATION Spec
SYMMETRY Symmetry
INVARIANTS
    TypeOK
    TallyExact
    CountsEveryWrite
    TimelineExplainsUnits
PROPERTIES
    FreshTransaction
