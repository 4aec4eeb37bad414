\* Two connections of one of the servers of Servers: three to five statements
\* on a MySQL server that is restarted once with nothing open, on a PostgreSQL
\* server under each line prefix, and with batches and a restart; scenarios with
\* autocommit changes around and in them; single statements in many layouts;
\* logs with other entries between the statements.
CONSTANTS
    t1 = t1  t2 = t2
    Thread = {t1, t2}
    Instances <- Servers
SPECIFICATION Spec
SYMMETRY Symmetry
INVARIANTS
    TextsRead
    TypeOK
    GroupedAsRun
    VerdictSound
    NoFalseAlarm
    ClientAgreesOnPostgres
CHECK_DEADLOCK FALSE
