\* Savepoints of a PostgreSQL server that are rolled back to with ROLLBACK WORK.
CONSTANTS
    t1 = t1  t2 = t2
    Thread = {t1}
    Instances <- RollbackWork
SPECIFICATION Spec
INVARIANTS
    NoFalseAlarm
CHECK_DEADLOCK FALSE
