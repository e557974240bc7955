------------------------------- MODULE Locker -------------------------------
(***************************************************************************)
(* The part of pkg/distlock that every adapter repeats: one Locker        *)
(* instance per process with its mutex-protected caller operations, the   *)
(* l.renewTicker field, the renewLock goroutines started by Lock, the     *)
(* clock that drives tickers and store expiry, and processes that are     *)
(* killed or panic and are restarted with a fresh instance.               *)
(*                                                                         *)
(* An adapter module EXTENDS this one, adds the store, and defines Lock,   *)
(* Unlock, Renew and the clock step Tick from the operators below.        *)
(***************************************************************************)
EXTENDS Naturals

CONSTANTS
    Procs,          \* processes; each owns one Locker instance
    Owner,          \* Owner[p]: the ownerID option of p's instance
    Nil,            \* a nil pointer / a missing key
    LockTimeout,    \* the lockTimeout option, in clock ticks
    MaxCrashes,     \* bound: processes killed from outside
    MaxRestarts,    \* bound: dead processes started again
    MaxGoroutines,  \* bound: renewLock goroutines alive in one process
    Timely          \* TRUE: the clock never advances past a runnable thread

ASSUME LockTimeout \in Nat /\ LockTimeout \div 2 > 0   \* else NewTicker panics
ASSUME Timely \in BOOLEAN

VARIABLES
    pc,         \* pc[p]: the caller of p's instance ("idle", "held", ...)
    ticker,     \* ticker[p]: l.renewTicker; Nil, or its countdown and buffer
    gr,         \* gr[p][s]: number of p's renewLock goroutines in state s
    status,     \* status[p]: "up", "killed", "panicked" or "exited"
    crashes,    \* processes killed so far
    restarts    \* processes restarted so far

lockerVars == <<pc, ticker, gr, status, crashes, restarts>>

(* A renewLock goroutine is at the top of its for/select ("loop"), blocked *)
(* in the select on the ticker it read ("wait"), or handling a tick by     *)
(* calling l.Renew ("renew").  A goroutine blocked on a stopped ticker     *)
(* never runs again and is not represented.                                *)
GState == {"loop", "wait", "renew"}
NoGoroutines == [s \in GState |-> 0]

\* Mutant: the ticker period is the whole lockTimeout.
RenewIntervalFull == LockTimeout

\* time.NewTicker(l.lockTimeout / 2)
RenewInterval == LockTimeout \div 2

Ticker == [left : 1..RenewInterval, pending : BOOLEAN]

LockerTypeOK ==
    /\ ticker \in [Procs -> Ticker \cup {Nil}]
    /\ gr \in [Procs -> [GState -> 0..MaxGoroutines]]
    /\ status \in [Procs -> {"up", "killed", "panicked", "exited"}]
    /\ crashes \in 0..MaxCrashes
    /\ restarts \in 0..MaxRestarts

Up(p) == status[p] = "up"
Holds(p) == Up(p) /\ pc[p] = "held"
Live(p) == gr[p]["loop"] + gr[p]["wait"] + gr[p]["renew"]

LockerInit ==
    /\ pc = [p \in Procs |-> "idle"]
    /\ ticker = [p \in Procs |-> Nil]
    /\ gr = [p \in Procs |-> NoGoroutines]
    /\ status = [p \in Procs |-> "up"]
    /\ crashes = 0
    /\ restarts = 0

Move(p, from, to) ==
    gr' = [gr EXCEPT ![p][from] = @ - 1, ![p][to] = @ + 1]

(* End of a successful Lock: l.renewTicker = time.NewTicker(...) and       *)
(* go l.renewLock(ctx).  The goroutine bound is a guard of the Lock step. *)
StartRenewal(p) ==
    /\ Live(p) < MaxGoroutines
    /\ ticker' = [ticker EXCEPT ![p] = [left |-> RenewInterval, pending |-> FALSE]]
    /\ gr' = [gr EXCEPT ![p]["loop"] = @ + 1]

(* Start of Unlock: if l.renewTicker != nil { Stop(); l.renewTicker = nil }.*)
(* stopChan is never closed, so goroutines blocked on the stopped ticker   *)
(* stay blocked for ever.                                                  *)
StopRenewal(p) ==
    /\ ticker' = [ticker EXCEPT ![p] = Nil]
    /\ gr' = [gr EXCEPT ![p]["wait"] = 0]

(* The select re-reads l.renewTicker, without l.mu, at every iteration.    *)
RenewLoopWait(p) ==
    /\ Up(p)
    /\ gr[p]["loop"] > 0
    /\ ticker[p] # Nil
    /\ Move(p, "loop", "wait")
    /\ UNCHANGED <<pc, ticker, status, crashes, restarts>>

(* ... and l.renewTicker.C on a nil l.renewTicker is a nil dereference:    *)
(* the runtime panic ends the whole process.                               *)
Die(p, how) ==
    /\ status' = [status EXCEPT ![p] = how]
    /\ pc' = [pc EXCEPT ![p] = "idle"]
    /\ ticker' = [ticker EXCEPT ![p] = Nil]
    /\ gr' = [gr EXCEPT ![p] = NoGoroutines]

RenewLoopPanic(p) ==
    /\ Up(p)
    /\ gr[p]["loop"] > 0
    /\ ticker[p] = Nil
    /\ Die(p, "panicked")
    /\ UNCHANGED <<crashes, restarts>>

(* case <-l.renewTicker.C: one waiting goroutine takes the buffered tick.  *)
RenewRecv(p) ==
    /\ Up(p)
    /\ gr[p]["wait"] > 0
    /\ ticker[p] # Nil
    /\ ticker[p].pending
    /\ ticker' = [ticker EXCEPT ![p].pending = FALSE]
    /\ Move(p, "wait", "renew")
    /\ UNCHANGED <<pc, status, crashes, restarts>>

(* After l.Renew returns, whatever its error, the loop starts over.        *)
RenewDone(p) == Move(p, "renew", "loop")

(* The caller of the examples locks once: after Unlock returns, main      *)
(* prints and returns, and the process ends with all its goroutines.      *)
MainReturns(p) ==
    /\ Up(p)
    /\ pc[p] = "done"
    /\ status' = [status EXCEPT ![p] = "exited"]
    /\ ticker' = [ticker EXCEPT ![p] = Nil]
    /\ gr' = [gr EXCEPT ![p] = NoGoroutines]
    /\ UNCHANGED <<pc, crashes, restarts>>

Crash(p) ==
    /\ Up(p)
    /\ crashes < MaxCrashes
    /\ crashes' = crashes + 1
    /\ Die(p, "killed")
    /\ UNCHANGED restarts

(* A killed or panicked process is started again and builds a new        *)
(* instance: idle, no ticker.  A process whose main returned stays ended. *)
Restart(p) ==
    /\ status[p] \in {"killed", "panicked"}
    /\ restarts < MaxRestarts
    /\ restarts' = restarts + 1
    /\ status' = [status EXCEPT ![p] = "up"]
    /\ UNCHANGED <<pc, ticker, gr, crashes>>

(* One clock tick for every ticker: a Go ticker has a one-slot buffer and  *)
(* drops a tick when the slot is full.                                     *)
TickTickers ==
    ticker' = [p \in Procs |->
                 IF ticker[p] = Nil THEN Nil
                 ELSE IF ticker[p].left = 1
                      THEN [left |-> RenewInterval, pending |-> TRUE]
                      ELSE [ticker[p] EXCEPT !.left = @ - 1]]

(* No thread of a live process can run: every caller is outside l.mu     *)
(* (pc not in busy), and every goroutine is blocked on an empty ticker.   *)
Quiescent(busy) ==
    \A p \in Procs : Up(p) =>
        /\ pc[p] \notin busy
        /\ gr[p]["loop"] = 0
        /\ gr[p]["renew"] = 0
        /\ gr[p]["wait"] > 0 => ~ticker[p].pending

ClockMayAdvance(busy) == ~Timely \/ Quiescent(busy)
=============================================================================
