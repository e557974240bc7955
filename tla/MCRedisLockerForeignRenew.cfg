\* Violation run: RenewOnlyOwnRecord.
CONSTANTS
    Procs = {p1, p2}
    Nil = Nil
    Owner <- MCOwner
    LockTimeout = 2
    MaxCrashes = 0
    MaxRestarts = 0
    MaxGoroutines = 2
    Timely = TRUE
SPECIFICATION Spec
PROPERTY RenewOnlyOwnRecord
