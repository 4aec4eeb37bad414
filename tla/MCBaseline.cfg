\* Three runs, two names, two goroutines that report.
CONSTANTS
    n1 = n1  n2 = n2  r1 = r1  r2 = r2
    Name = {n1, n2}
    Reporting = {r1, r2}
    MaxRuns = 3
SPECIFICATION Spec
SYMMETRY Symmetry
INVARIANTS
    TypeOK
    UnusedIsExact
    LoadedIsCommitted
    ToleratesLoaded
CHECK_DEADLOCK FALSE
