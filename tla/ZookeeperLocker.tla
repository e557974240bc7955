-------------------------- MODULE ZookeeperLocker --------------------------
(***************************************************************************)
(* ZookeeperLocker (pkg/distlock/gorm.go, second file) run by every       *)
(* process in Procs.  Lock creates the node l.lockPath + "/" + l.ownerID, *)
(* one node per ownerID, persistent (flags 0): the nodes that exist are a *)
(* set of ownerIDs.  Unlock sets l.ownerID to "", the model value Empty; *)
(* the path lockPath + "/" then ends in a slash, which the client rejects *)
(* as an invalid path before it reaches the server.                      *)
(*                                                                         *)
(* Caller of one instance: "idle" (the retry loop, calling Lock), "held", *)
(* "unlockDel" (ticker stopped, Delete pending, l.mu held), "done"        *)
(* (Unlock returned; main returns next).                                  *)
(***************************************************************************)
EXTENDS Locker

CONSTANT Empty   \* the empty ownerID ""

VARIABLES
    nodes,   \* the children of lockPath that exist
    oid      \* oid[p]: l.ownerID of p's instance

vars == <<lockerVars, nodes, oid>>

Busy == {"unlockDel"}

OwnerIDs == {Owner[p] : p \in Procs}

TypeOK ==
    /\ LockerTypeOK
    /\ pc \in [Procs -> {"idle", "held", "unlockDel", "done"}]
    /\ nodes \subseteq OwnerIDs
    /\ oid \in [Procs -> OwnerIDs \cup {Empty}]

Init == LockerInit /\ nodes = {} /\ oid = [p \in Procs |-> Owner[p]]

\* fmt.Sprintf("%s/%s", l.lockPath, l.ownerID) is a valid znode path.
ValidPath(p) == oid[p] # Empty

(* Lock: Create(lockNode).  An existing node is ErrNodeExists, "already   *)
(* held by another owner", even when it is our own; an invalid path is    *)
(* an error too.  Only a new node starts the ticker and the goroutine.    *)
Lock(p) ==
    /\ Up(p)
    /\ pc[p] = "idle"
    /\ \/ /\ ValidPath(p) /\ oid[p] \notin nodes
          /\ nodes' = nodes \cup {oid[p]}
          /\ pc' = [pc EXCEPT ![p] = "held"]
          /\ StartRenewal(p)
       \/ /\ ~ValidPath(p) \/ oid[p] \in nodes
          /\ UNCHANGED <<nodes, pc, ticker, gr>>
    /\ UNCHANGED <<oid, status, crashes, restarts>>

(* Unlock: stop and clear l.renewTicker, then Delete(lockNode, -1).  On  *)
(* an error Unlock returns before it clears l.ownerID.                    *)
Unlock(p) ==
    /\ Up(p)
    /\ pc[p] = "held"
    /\ StopRenewal(p)
    /\ pc' = [pc EXCEPT ![p] = "unlockDel"]
    /\ UNCHANGED <<nodes, oid, status, crashes, restarts>>

UnlockDel(p) ==
    /\ Up(p)
    /\ pc[p] = "unlockDel"
    /\ pc' = [pc EXCEPT ![p] = "done"]
    /\ \/ /\ ValidPath(p) /\ oid[p] \in nodes
          /\ nodes' = nodes \ {oid[p]}
          /\ oid' = [oid EXCEPT ![p] = Empty]
       \/ /\ ~ValidPath(p) \/ oid[p] \notin nodes
          /\ UNCHANGED <<nodes, oid>>
    /\ UNCHANGED <<ticker, gr, status, crashes, restarts>>

(* Renew only takes l.mu and logs: the renewal changes nothing.           *)
Renew(p) ==
    /\ Up(p)
    /\ gr[p]["renew"] > 0
    /\ pc[p] \notin Busy
    /\ RenewDone(p)
    /\ UNCHANGED <<nodes, oid, pc, ticker, status, crashes, restarts>>

(* The clock drives the tickers only: nothing in Zookeeper expires.       *)
Tick ==
    /\ ClockMayAdvance(Busy)
    /\ TickTickers
    /\ UNCHANGED <<nodes, oid, pc, gr, status, crashes, restarts>>

Caller(p) ==
    \/ Lock(p) \/ Unlock(p) \/ UnlockDel(p)
    \/ MainReturns(p) /\ UNCHANGED <<nodes, oid>>

Goroutines(p) ==
    \/ /\ RenewLoopWait(p) \/ RenewLoopPanic(p) \/ RenewRecv(p)
       /\ UNCHANGED <<nodes, oid>>
    \/ Renew(p)

(* A killed process's node is persistent and stays; a restarted process  *)
(* builds a new instance with its configured ownerID.                     *)
Environment(p) ==
    \/ Crash(p) /\ UNCHANGED <<nodes, oid>>
    \/ Restart(p) /\ oid' = [oid EXCEPT ![p] = Owner[p]] /\ UNCHANGED nodes

Next ==
    \/ \E p \in Procs : Caller(p) \/ Goroutines(p) \/ Environment(p)
    \/ Tick

Spec == Init /\ [][Next]_vars

-----------------------------------------------------------------------------
(* Properties *)

(* Two processes with different ownerIDs never both hold the lock (spec   *)
(* section 8, mutual exclusion).                                          *)
MutualExclusion ==
    \A p, q \in Procs : Holds(p) /\ Holds(q) => Owner[p] = Owner[q]
=============================================================================
