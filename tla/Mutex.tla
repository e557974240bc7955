------------------------------- MODULE Mutex -------------------------------
(***************************************************************************)
(* What the Locker interface promises its callers: at any time at most    *)
(* one process holds the named lock, and the lock passes from one process *)
(* to another only through a release.  A holder that dies releases it.    *)
(***************************************************************************)
CONSTANTS Procs, Nil

VARIABLE holder   \* the process whose Lock succeeded and has not released

Init == holder = Nil

\* Lock(ctx) returns nil: the lock was free.
Acquire(p) ==
    /\ holder = Nil
    /\ holder' = p

\* Unlock(ctx) is called, or the holder is gone.
Release(p) ==
    /\ holder = p
    /\ holder' = Nil

Next == \E p \in Procs : Acquire(p) \/ Release(p)

Spec == Init /\ [][Next]_holder
=============================================================================
