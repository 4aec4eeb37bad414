\* A MySQL server that goes down with a transaction open.
CONSTANTS
    t1 = t1  t2 = t2
    Thread = {t1}
    Instances <- CrashingServer
SPECIFICATION Spec
INVARIANTS
    GroupedAsRun
CHECK_DEADLOCK FALSE
