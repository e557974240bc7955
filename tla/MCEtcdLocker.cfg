\* The etcd lease protocol: two processes, one of them may be killed and
\* started again, under the fairness of the retry loop, scheduler and clock.
CONSTANTS
    Procs = {p1, p2}
    Nil = Nil
    Owner <- MCOwner
    LockTimeout = 2
    MaxCrashes = 1
    MaxRestarts = 1
    MaxGoroutines = 2
    Timely = TRUE
SPECIFICATION FairSpec
INVARIANT TypeOK
INVARIANT HolderLeaseAlive
PROPERTY OrphanReleased
