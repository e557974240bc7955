\* The Redis locker: two processes contend, one of them may be killed (and
\* stays down: a restarted holder re-enters without renewal, which the run
\* redis_reentry_after_restart shows), and renewal panics end processes for
\* good.  Safety and the release of an orphaned key are checked under the
\* fairness of the retry loop, the scheduler and the clock.
CONSTANTS
    Procs = {p1, p2}
    Nil = Nil
    Owner <- MCOwner
    LockTimeout = 2
    MaxCrashes = 1
    MaxRestarts = 0
    MaxGoroutines = 2
    Timely = TRUE
SPECIFICATION FairSpec
INVARIANT TypeOK
INVARIANT HolderOwnsLiveRecord
 
PROPERTY MutexSpec
PROPERTY OrphanReleased
