\* The GORM locker on MySQL: three processes contend, one of them may be
\* killed while holding and one started again, so expired rows are taken
\* over and a restarted owner meets its own row.  Safety and the reclamation
\* of a killed holder's row are checked under the fairness of the retry
\* loop, the scheduler and the clock (no symmetry: liveness is checked).
CONSTANTS
    Procs = {p1, p2, p3}
    Nil = Nil
    Owner <- MCOwner
    Dialect = "mysql"
    LockTimeout = 2
    MaxCrashes = 1
    MaxRestarts = 1
    MaxGoroutines = 2
    Timely = TRUE
SPECIFICATION FairSpec
INVARIANT TypeOK
INVARIANT HolderOwnsLiveRecord
 
PROPERTY MutexSpec
PROPERTY OrphanReleased
PROPERTY CallerAcquires
