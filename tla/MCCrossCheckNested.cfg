\* BEGIN, write and COMMIT on one connection of a MySQL server.
CONSTANTS
    t1 = t1  t2 = t2
    Thread = {t1}
    Instances <- NestedBegin
SPECIFICATION Spec
INVARIANTS
    ClientAgrees
CHECK_DEADLOCK FALSE
