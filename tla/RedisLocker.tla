---------------------------- MODULE RedisLocker ----------------------------
(***************************************************************************)
(* RedisLocker (pkg/distlock, redis adapter) run by every process in      *)
(* Procs against one Redis key l.lockName.  The key is Nil or a record of *)
(* the ownerID stored in it and its remaining time to live in ticks.      *)
(*                                                                         *)
(* Caller of one instance, as in examples/redis: "idle" (the retry loop,  *)
(* calling Lock), "lockGet" (SetNX failed, Get pending, l.mu held),       *)
(* "held" (Lock returned nil), "unlockDel" (ticker stopped, Del pending,  *)
(* l.mu held), "done" (Unlock returned; main returns next: the example    *)
(* locks once).                                                           *)
(***************************************************************************)
EXTENDS Locker

VARIABLE store   \* the Redis key: Nil or [owner, ttl]

vars == <<lockerVars, store>>

\* caller states in which Lock or Unlock holds l.mu between two Redis calls
Busy == {"lockGet", "unlockDel"}

TypeOK ==
    /\ LockerTypeOK
    /\ pc \in [Procs -> {"idle", "lockGet", "held", "unlockDel", "done"}]
    /\ store \in {Nil} \cup [owner : {Owner[p] : p \in Procs}, ttl : 0..LockTimeout]

Init == LockerInit /\ store = Nil

\* Mutant: SetNX with expiration 0, which sets no TTL at all.
KeyTTLNone == 0

\* The expiration SetNX passes: l.lockTimeout.  A key stored with 0 has no
\* TTL and never expires (go-redis sends SETNX without EX).
KeyTTL == LockTimeout

(* Lock: SetNX(lockName, ownerID, lockTimeout).  On success the ticker    *)
(* and the goroutine start; on failure Lock goes on to Get, still under   *)
(* l.mu.                                                                   *)
Lock(p) ==
    /\ Up(p)
    /\ pc[p] = "idle"
    /\ \/ /\ store = Nil
          /\ store' = [owner |-> Owner[p], ttl |-> KeyTTL]
          /\ pc' = [pc EXCEPT ![p] = "held"]
          /\ StartRenewal(p)
       \/ /\ store # Nil
          /\ pc' = [pc EXCEPT ![p] = "lockGet"]
          /\ UNCHANGED <<store, ticker, gr>>
    /\ UNCHANGED <<status, crashes, restarts>>

(* Mutant: the owner comparison dropped, any existing key is "ours".     *)
LockCheckOwnerAny(p) ==
    /\ Up(p)
    /\ pc[p] = "lockGet"
    /\ pc' = [pc EXCEPT ![p] = IF store = Nil THEN "idle" ELSE "held"]
    /\ UNCHANGED <<store, ticker, gr, status, crashes, restarts>>

(* Lock, after a failed SetNX: Get(lockName).  A key gone since SetNX is  *)
(* redis.Nil, an error; another owner's ID is a conflict; our own ID is   *)
(* success, returned without starting the ticker or the goroutine.        *)
LockCheckOwner(p) ==
    /\ Up(p)
    /\ pc[p] = "lockGet"
    /\ pc' = [pc EXCEPT ![p] = IF store # Nil /\ store.owner = Owner[p]
                                THEN "held" ELSE "idle"]
    /\ UNCHANGED <<store, ticker, gr, status, crashes, restarts>>

(* Unlock: stop and clear l.renewTicker, then Del(lockName) whoever owns  *)
(* the key.                                                                *)
Unlock(p) ==
    /\ Up(p)
    /\ pc[p] = "held"
    /\ StopRenewal(p)
    /\ pc' = [pc EXCEPT ![p] = "unlockDel"]
    /\ UNCHANGED <<store, status, crashes, restarts>>

UnlockDel(p) ==
    /\ Up(p)
    /\ pc[p] = "unlockDel"
    /\ store' = Nil
    /\ pc' = [pc EXCEPT ![p] = "done"]
    /\ UNCHANGED <<ticker, gr, status, crashes, restarts>>

(* Mutant: the new time to live one tick past lockTimeout.               *)
RenewPastTimeout(p) ==
    /\ Up(p)
    /\ gr[p]["renew"] > 0
    /\ pc[p] \notin Busy
    /\ store' = IF store = Nil THEN Nil ELSE [store EXCEPT !.ttl = LockTimeout + 1]
    /\ RenewDone(p)
    /\ UNCHANGED <<pc, ticker, status, crashes, restarts>>

(* Renew, called by a renewLock goroutine once it gets l.mu:             *)
(* Expire(lockName, lockTimeout).  It resets the TTL of whatever key is   *)
(* there and is a silent no-op on a missing key (Err() is nil).           *)
Renew(p) ==
    /\ Up(p)
    /\ gr[p]["renew"] > 0
    /\ pc[p] \notin Busy
    /\ store' = IF store = Nil THEN Nil ELSE [store EXCEPT !.ttl = LockTimeout]
    /\ RenewDone(p)
    /\ UNCHANGED <<pc, ticker, status, crashes, restarts>>

(* The clock: Redis drops the key when its TTL runs out; a key with no    *)
(* TTL (0) stays.  Tickers tick.                                          *)
Tick ==
    /\ ClockMayAdvance(Busy)
    /\ store' = CASE store = Nil    -> Nil
                  [] store.ttl = 0  -> store
                  [] store.ttl = 1  -> Nil
                  [] OTHER          -> [store EXCEPT !.ttl = @ - 1]
    /\ TickTickers
    /\ UNCHANGED <<pc, gr, status, crashes, restarts>>

Caller(p) ==
    \/ Lock(p) \/ LockCheckOwner(p) \/ Unlock(p) \/ UnlockDel(p)
    \/ MainReturns(p) /\ UNCHANGED store

Goroutines(p) ==
    \/ /\ RenewLoopWait(p) \/ RenewLoopPanic(p) \/ RenewRecv(p)
       /\ UNCHANGED store
    \/ Renew(p)

Environment(p) ==
    /\ Crash(p) \/ Restart(p)
    /\ UNCHANGED store

Next ==
    \/ \E p \in Procs : Caller(p) \/ Goroutines(p) \/ Environment(p)
    \/ Tick

(* The caller loops on Lock and always Unlocks after its work (examples/  *)
(* redis).  A goroutine waiting for l.mu is only intermittently enabled   *)
(* while the caller retries, but the caller sleeps a second between       *)
(* attempts and sync.Mutex hands the lock to a starving waiter: strong    *)
(* fairness.  Time passes (strong, for the same retry loop).  Killing and *)
(* restarting are not forced.                                             *)
Fairness ==
    /\ \A p \in Procs : WF_vars(Caller(p)) /\ SF_vars(Goroutines(p))
    /\ SF_vars(Tick)

Spec == Init /\ [][Next]_vars
FairSpec == Spec /\ Fairness

-----------------------------------------------------------------------------
(* The refinement mapping to Mutex: the process whose Lock returned nil   *)
(* and which has not yet called Unlock.                                   *)
Holder == IF \E p \in Procs : Holds(p) THEN CHOOSE p \in Procs : Holds(p) ELSE Nil

-----------------------------------------------------------------------------
(* Properties *)

(* Every process whose Lock returned nil, and which has not called Unlock,*)
(* is the owner of the key and the key has not expired: the renewLock     *)
(* goroutine keeps the lease alive for as long as the caller relies on it.*)
HolderOwnsLiveRecord ==
    \A p \in Procs : Holds(p) => store # Nil /\ store.owner = Owner[p]

MutualExclusion ==
    \A p, q \in Procs : Holds(p) /\ Holds(q) => Owner[p] = Owner[q]

(* Renew never extends a key stored by another owner (spec 4.1: Renew     *)
(* fails when the record belongs to a different owner).                   *)
RenewOnlyOwnRecord ==
    [][\A p \in Procs : Renew(p) => store = Nil \/ store.owner = Owner[p]]_vars

(* Unlock stops the renewal goroutine before it can run again (spec 5):   *)
(* no renewLock goroutine ever dereferences the nil l.renewTicker.        *)
NoRenewalPanic == \A p \in Procs : status[p] # "panicked"

(* A key no running instance holds is eventually gone or held again: a    *)
(* killed holder's lock is reclaimed through the TTL (spec 8, stale-lock  *)
(* reclamation).                                                           *)
Orphaned == store # Nil /\ ~\E p \in Procs : Holds(p) /\ Owner[p] = store.owner
OrphanReleased == Orphaned ~> ~Orphaned
=============================================================================
