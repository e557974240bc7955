\* Stale-row reclamation on PostgreSQL: the duplicate-key error aborts the
\* transaction, so tx.First never reads an expired row left by a killed holder.
CONSTANTS
    Procs = {p1, p2}
    Nil = Nil
    Owner <- MCOwner
    Dialect = "postgres"
    LockTimeout = 2
    MaxCrashes = 1
    MaxRestarts = 1
    MaxGoroutines = 2
    Timely = TRUE
SPECIFICATION FairSpec
PROPERTY OrphanReleased
