---------------------------- MODULE MCGORMLocker ----------------------------
(* Model-checking instance of GORMLocker: ownerIDs are the process names  *)
(* and the Mutex refinement mapping.                                      *)
EXTENDS GORMLocker, TLC

MCOwner == [p \in Procs |-> p]

ProcSymmetry == Permutations(Procs)

Abstract == INSTANCE Mutex WITH holder <- Holder

(* The GORM locker implements the Mutex contract: Lock returns nil only   *)
(* while nobody holds, and the lock passes through Unlock.                *)
MutexSpec == Abstract!Spec
=============================================================================
