---------------------------- MODULE GORMLocker -----------------------------
(***************************************************************************)
(* GORMLocker (pkg/distlock/gorm.go) run by every process in Procs        *)
(* against one row of the locks table, unique on name.  The row is Nil or *)
(* the record of its OwnerID and the ticks left before ExpiredAt; unlike  *)
(* a Redis key, an expired row stays in the table until it is deleted or  *)
(* taken over.                                                            *)
(*                                                                         *)
(* Lock is one db.Transaction; it is one step.  On MySQL the failed       *)
(* INSERT leaves a shared lock on the duplicate row and Save needs an     *)
(* exclusive one, so two transactions taking over the same row deadlock  *)
(* and one is rolled back: the outcomes are those of a serial order.  On  *)
(* PostgreSQL the failed INSERT aborts the transaction and every later    *)
(* statement, tx.First included, fails with 25P02.                        *)
(*                                                                         *)
(* Caller of one instance: "idle" (the retry loop of examples/postgresql, *)
(* calling Lock), "held", "unlockDel" (ticker stopped, Delete pending,    *)
(* l.mu held), "done" (Unlock returned; main returns next).               *)
(***************************************************************************)
EXTENDS Locker

CONSTANT Dialect   \* the database behind *gorm.DB: "mysql" or "postgres"

ASSUME Dialect \in {"mysql", "postgres"}

VARIABLE row   \* the locks row of l.lockName: Nil or [owner, ttl]

vars == <<lockerVars, row>>

Busy == {"unlockDel"}

TypeOK ==
    /\ LockerTypeOK
    /\ pc \in [Procs -> {"idle", "held", "unlockDel", "done"}]
    /\ row \in {Nil} \cup [owner : {Owner[p] : p \in Procs}, ttl : 0..LockTimeout]

Init == LockerInit /\ row = Nil

\* lock.ExpiredAt.Before(now): no tick of the lease is left.
Expired == row # Nil /\ row.ttl = 0

\* Mutant: every dialect aborts the transaction on the duplicate key.
FirstAfterAbort == FALSE

\* tx.First after the duplicate-key error; fails on an aborted transaction.
FirstSucceeds == Dialect = "mysql"

NewRecord(p) == [owner |-> Owner[p], ttl |-> LockTimeout]

(* Mutant: an existing row is taken over whether or not it expired.      *)
LockStealLive(p) ==
    /\ Up(p)
    /\ pc[p] = "idle"
    /\ \/ /\ row = Nil \/ FirstSucceeds
          /\ row' = NewRecord(p)
          /\ pc' = [pc EXCEPT ![p] = "held"]
          /\ StartRenewal(p)
       \/ /\ row # Nil /\ ~FirstSucceeds
          /\ UNCHANGED <<row, pc, ticker, gr>>
    /\ UNCHANGED <<status, crashes, restarts>>

(* Lock: the transaction.  Create succeeds on a missing row; otherwise    *)
(* First reads the row and a row that has not expired is "already held". *)
(* An expired row is saved with our OwnerID and a fresh ExpiredAt.  The   *)
(* ticker and the goroutine start inside the callback, on both paths.    *)
(* A failed Lock returns an error and changes nothing.                    *)
Lock(p) ==
    /\ Up(p)
    /\ pc[p] = "idle"
    /\ \/ /\ row = Nil \/ (FirstSucceeds /\ Expired)
          /\ row' = NewRecord(p)
          /\ pc' = [pc EXCEPT ![p] = "held"]
          /\ StartRenewal(p)
       \/ /\ row # Nil /\ ~(FirstSucceeds /\ Expired)
          /\ UNCHANGED <<row, pc, ticker, gr>>
    /\ UNCHANGED <<status, crashes, restarts>>

(* Unlock: stop and clear l.renewTicker, then Delete by name.            *)
Unlock(p) ==
    /\ Up(p)
    /\ pc[p] = "held"
    /\ StopRenewal(p)
    /\ pc' = [pc EXCEPT ![p] = "unlockDel"]
    /\ UNCHANGED <<row, status, crashes, restarts>>

UnlockDel(p) ==
    /\ Up(p)
    /\ pc[p] = "unlockDel"
    /\ row' = Nil
    /\ pc' = [pc EXCEPT ![p] = "done"]
    /\ UNCHANGED <<ticker, gr, status, crashes, restarts>>

(* Mutant: ExpiredAt set one tick past lockTimeout.                      *)
RenewPastTimeout(p) ==
    /\ Up(p)
    /\ gr[p]["renew"] > 0
    /\ pc[p] \notin Busy
    /\ row' = IF row = Nil THEN Nil ELSE [row EXCEPT !.ttl = LockTimeout + 1]
    /\ RenewDone(p)
    /\ UNCHANGED <<pc, ticker, status, crashes, restarts>>

(* Renew: UPDATE locks SET expired_at WHERE name = ?, from a renewLock    *)
(* goroutine once it gets l.mu.  No OwnerID filter: it extends whatever   *)
(* row is there, expired or not; on no row it updates nothing, no error. *)
Renew(p) ==
    /\ Up(p)
    /\ gr[p]["renew"] > 0
    /\ pc[p] \notin Busy
    /\ row' = IF row = Nil THEN Nil ELSE [row EXCEPT !.ttl = LockTimeout]
    /\ RenewDone(p)
    /\ UNCHANGED <<pc, ticker, status, crashes, restarts>>

(* The clock: ExpiredAt comes closer; the row itself stays.               *)
Tick ==
    /\ ClockMayAdvance(Busy)
    /\ row' = IF row = Nil THEN Nil
              ELSE [row EXCEPT !.ttl = IF @ = 0 THEN 0 ELSE @ - 1]
    /\ TickTickers
    /\ UNCHANGED <<pc, gr, status, crashes, restarts>>

Caller(p) ==
    \/ Lock(p) \/ Unlock(p) \/ UnlockDel(p)
    \/ MainReturns(p) /\ UNCHANGED row

Goroutines(p) ==
    \/ /\ RenewLoopWait(p) \/ RenewLoopPanic(p) \/ RenewRecv(p)
       /\ UNCHANGED row
    \/ Renew(p)

Environment(p) ==
    /\ Crash(p) \/ Restart(p)
    /\ UNCHANGED row

Next ==
    \/ \E p \in Procs : Caller(p) \/ Goroutines(p) \/ Environment(p)
    \/ Tick

(* As for RedisLocker: the retry loop of examples/postgresql sleeps a     *)
(* second between attempts, so a goroutine waiting for l.mu and the clock *)
(* both get their turn.                                                   *)
Fairness ==
    /\ \A p \in Procs : WF_vars(Caller(p)) /\ SF_vars(Goroutines(p))
    /\ SF_vars(Tick)

Spec == Init /\ [][Next]_vars
FairSpec == Spec /\ Fairness

Holder == IF \E p \in Procs : Holds(p) THEN CHOOSE p \in Procs : Holds(p) ELSE Nil

-----------------------------------------------------------------------------
(* Properties *)

\* The row's ExpiredAt is still ahead of the clock.
LeaseLeft == row # Nil /\ row.ttl > 0

(* Every process whose Lock returned nil, and which has not called Unlock,*)
(* owns the row and the row has not expired: the renewal goroutine's      *)
(* UPDATE keeps ExpiredAt ahead of now for as long as the caller holds.   *)
HolderOwnsLiveRecord ==
    \A p \in Procs : Holds(p) => row # Nil /\ row.owner = Owner[p] /\ LeaseLeft

Orphaned == row # Nil /\ ~\E p \in Procs : Holds(p) /\ Owner[p] = row.owner
AllDown == \A p \in Procs : ~Up(p)
OrphanReleased == Orphaned ~> (~Orphaned \/ AllDown)

(* Every running caller in the retry loop of examples/postgresql gets the *)
(* lock in the end: a holder unlocks once and its main returns, a killed  *)
(* holder's row expires and the next transaction takes it over, so no     *)
(* caller retries for ever against a row nobody will release.             *)
CallerAcquires ==
    \A p \in Procs : (Up(p) /\ pc[p] = "idle") ~> (Holds(p) \/ ~Up(p))
=============================================================================
