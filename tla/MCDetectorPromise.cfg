\* Liveness and the refinement of BoundaryPromise; no symmetry.
CONSTANTS
    b1 = b1  b2 = b2  g1 = g1  g2 = g2  c1 = c1  c2 = c2  n1 = n1
    InlineCap = 1
    Boundary = {b1}
    NoBoundary = NoBoundary
    Conn = {c1}
    Finisher = {g1, g2}
    Name = {n1}
    NameOf <- OneName
    Reporters = 2
    StaleReporters = {2}
    MaxRecorded = 1
    ReportNested = FALSE
    ReportUnbounded = TRUE
    MarkCounts <- MarkOfTwo
    ObservedKinds = {"write"}
    MaxTx = 2
    MaxStatements = 3
    MaxUnbounded = 1
SPECIFICATION FairSpec
PROPERTIES
    EveryVerdictSettles
    PromiseKept
