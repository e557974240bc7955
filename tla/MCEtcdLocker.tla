---------------------------- MODULE MCEtcdLocker ----------------------------
(* Model-checking instance of EtcdLocker: ownerIDs are the process names. *)
EXTENDS EtcdLocker, TLC

MCOwner == [p \in Procs |-> p]

ProcSymmetry == Permutations(Procs)
=============================================================================
