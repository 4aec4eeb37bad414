\* One boundary name whose entry is added, suppresses, and is added again.
CONSTANTS
    b1 = b1  b2 = b2  g1 = g1  g2 = g2  c1 = c1  c2 = c2  n1 = n1
    InlineCap = 1
    Boundary = {b1}
    NoBoundary = NoBoundary
    Conn = {c1}
    Finisher = {g1}
    Name = {n1}
    NameOf <- OneName
    Reporters = 1
    StaleReporters = {}
    MaxRecorded = 1
    ReportNested = FALSE
    ReportUnbounded = FALSE
    MarkCounts <- PinnedToTwo
    ObservedKinds = {"write"}
    MaxTx = 1
    MaxStatements = 2
    MaxUnbounded = 1
SPECIFICATION Spec
INVARIANT UnusedMeansNeverSuppressed
