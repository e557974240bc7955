--------------------------- MODULE MCRedisLocker ---------------------------
(* Model-checking instance of RedisLocker: ownerIDs are the process names *)
(* (WithOwnerID set per process) and the Mutex refinement mapping.        *)
EXTENDS RedisLocker, TLC

MCOwner == [p \in Procs |-> p]

ProcSymmetry == Permutations(Procs)

Abstract == INSTANCE Mutex WITH holder <- Holder

(* The Redis locker implements the Mutex contract. *)
MutexSpec == Abstract!Spec
=============================================================================
