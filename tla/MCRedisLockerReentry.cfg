\* Violation run: MutualExclusion.
CONSTANTS
    Procs = {p1, p2}
    Nil = Nil
    Owner <- MCOwner
    LockTimeout = 2
    MaxCrashes = 1
    MaxRestarts = 1
    MaxGoroutines = 2
    Timely = TRUE
SPECIFICATION Spec
INVARIANT MutualExclusion
