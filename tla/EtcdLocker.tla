---------------------------- MODULE EtcdLocker -----------------------------
(***************************************************************************)
(* EtcdLocker (pkg/distlock/etcd.go) run by every process in Procs        *)
(* against one etcd key l.lockKey.  Each instance holds the lease of its  *)
(* last Lock in l.leaseID; the key is Nil or the ownerID written by Put   *)
(* and the lease it is attached to.  etcd removes the key when that lease *)
(* expires or is revoked.                                                 *)
(*                                                                         *)
(* Caller of one instance: "idle" (the retry loop, calling Lock), "held", *)
(* "unlockDel" (ticker stopped, Delete pending), "unlockRevoke" (key      *)
(* deleted, Revoke pending), both with l.mu held, "done" (Unlock          *)
(* returned; main returns next).                                          *)
(***************************************************************************)
EXTENDS Locker

VARIABLES
    key,     \* the etcd key: Nil or [owner, lease]
    lease    \* lease[p]: ticks left on p's l.leaseID; 0 once expired or revoked

vars == <<lockerVars, key, lease>>

Busy == {"unlockDel", "unlockRevoke"}

TypeOK ==
    /\ LockerTypeOK
    /\ pc \in [Procs -> {"idle", "held", "unlockDel", "unlockRevoke", "done"}]
    /\ key \in {Nil} \cup [owner : {Owner[p] : p \in Procs}, lease : Procs \cup {Nil}]
    /\ lease \in [Procs -> 0..LockTimeout]

Init == LockerInit /\ key = Nil /\ lease = [p \in Procs |-> 0]

(* Mutant: Put without clientv3.WithLease.                                *)
LockNoLease(p) ==
    /\ Up(p)
    /\ pc[p] = "idle"
    /\ lease' = [lease EXCEPT ![p] = LockTimeout]
    /\ key' = [owner |-> Owner[p], lease |-> Nil]
    /\ pc' = [pc EXCEPT ![p] = "held"]
    /\ StartRenewal(p)
    /\ UNCHANGED <<status, crashes, restarts>>

(* Lock: Grant a lease of lockTimeout, keep its ID in l.leaseID, Put the  *)
(* key with that lease, whoever holds the key now, then start the ticker  *)
(* and the goroutine.  Nothing makes it fail on a held lock.              *)
Lock(p) ==
    /\ Up(p)
    /\ pc[p] = "idle"
    /\ lease' = [lease EXCEPT ![p] = LockTimeout]
    /\ key' = [owner |-> Owner[p], lease |-> p]
    /\ pc' = [pc EXCEPT ![p] = "held"]
    /\ StartRenewal(p)
    /\ UNCHANGED <<status, crashes, restarts>>

(* Unlock: stop and clear l.renewTicker; Delete(l.lockKey), whoever wrote *)
(* it; then Revoke(l.leaseID), which also removes any key on that lease. *)
Unlock(p) ==
    /\ Up(p)
    /\ pc[p] = "held"
    /\ StopRenewal(p)
    /\ pc' = [pc EXCEPT ![p] = "unlockDel"]
    /\ UNCHANGED <<key, lease, status, crashes, restarts>>

UnlockDel(p) ==
    /\ Up(p)
    /\ pc[p] = "unlockDel"
    /\ key' = Nil
    /\ pc' = [pc EXCEPT ![p] = "unlockRevoke"]
    /\ UNCHANGED <<lease, ticker, gr, status, crashes, restarts>>

UnlockRevoke(p) ==
    /\ Up(p)
    /\ pc[p] = "unlockRevoke"
    /\ lease' = [lease EXCEPT ![p] = 0]
    /\ key' = IF key # Nil /\ key.lease = p THEN Nil ELSE key
    /\ pc' = [pc EXCEPT ![p] = "done"]
    /\ UNCHANGED <<ticker, gr, status, crashes, restarts>>

(* Mutant: the kept-alive lease gets one tick more than its TTL.         *)
RenewPastTimeout(p) ==
    /\ Up(p)
    /\ gr[p]["renew"] > 0
    /\ pc[p] \notin Busy
    /\ lease' = [lease EXCEPT ![p] = IF @ = 0 THEN 0 ELSE LockTimeout + 1]
    /\ RenewDone(p)
    /\ UNCHANGED <<key, pc, ticker, status, crashes, restarts>>

(* Renew: KeepAliveOnce(l.leaseID).  It refreshes this instance's own     *)
(* lease, whatever the key holds now; on an expired or revoked lease it   *)
(* is an error that renewLock only logs.                                  *)
Renew(p) ==
    /\ Up(p)
    /\ gr[p]["renew"] > 0
    /\ pc[p] \notin Busy
    /\ lease' = [lease EXCEPT ![p] = IF @ = 0 THEN 0 ELSE LockTimeout]
    /\ RenewDone(p)
    /\ UNCHANGED <<key, pc, ticker, status, crashes, restarts>>

(* The clock: leases run down; etcd deletes the key of an expired lease.  *)
Tick ==
    /\ ClockMayAdvance(Busy)
    /\ lease' = [p \in Procs |-> IF lease[p] = 0 THEN 0 ELSE lease[p] - 1]
    /\ key' = IF key # Nil /\ key.lease # Nil /\ lease'[key.lease] = 0
              THEN Nil ELSE key
    /\ TickTickers
    /\ UNCHANGED <<pc, gr, status, crashes, restarts>>

Caller(p) ==
    \/ Lock(p) \/ Unlock(p) \/ UnlockDel(p) \/ UnlockRevoke(p)
    \/ MainReturns(p) /\ UNCHANGED <<key, lease>>

Goroutines(p) ==
    \/ /\ RenewLoopWait(p) \/ RenewLoopPanic(p) \/ RenewRecv(p)
       /\ UNCHANGED <<key, lease>>
    \/ Renew(p)

Environment(p) ==
    /\ Crash(p) \/ Restart(p)
    /\ UNCHANGED <<key, lease>>

Next ==
    \/ \E p \in Procs : Caller(p) \/ Goroutines(p) \/ Environment(p)
    \/ Tick

(* The same scheduling as the other adapters: the retry loop sleeps, Go's *)
(* mutex hands l.mu to a starving Renew, time passes.                     *)
Fairness ==
    /\ \A p \in Procs : WF_vars(Caller(p)) /\ SF_vars(Goroutines(p))
    /\ SF_vars(Tick)

Spec == Init /\ [][Next]_vars
FairSpec == Spec /\ Fairness

-----------------------------------------------------------------------------
(* Properties *)

(* The lease of every holder stays alive while it holds: the renewal      *)
(* goroutine's KeepAliveOnce comes before the lease's TTL runs out.       *)
HolderLeaseAlive == \A p \in Procs : Holds(p) => lease[p] > 0

(* Two processes with different ownerIDs never both hold the lock (spec   *)
(* section 8, mutual exclusion).                                          *)
MutualExclusion ==
    \A p, q \in Procs : Holds(p) /\ Holds(q) => Owner[p] = Owner[q]

(* A key that no running instance holds is eventually gone: a killed      *)
(* holder's key goes with its lease, which nobody keeps alive any more.   *)
Orphaned == key # Nil /\ ~\E p \in Procs : Holds(p) /\ Owner[p] = key.owner
OrphanReleased == Orphaned ~> ~Orphaned
=============================================================================
