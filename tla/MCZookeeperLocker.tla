------------------------- MODULE MCZookeeperLocker -------------------------
(* Model-checking instance of ZookeeperLocker: ownerIDs are the process   *)
(* names.                                                                 *)
EXTENDS ZookeeperLocker, TLC

MCOwner == [p \in Procs |-> p]
=============================================================================
