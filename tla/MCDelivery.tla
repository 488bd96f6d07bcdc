---------------------------- MODULE MCDelivery ------------------------------
(***************************************************************************)
(* Small instances of Delivery for TLC.                                     *)
(***************************************************************************)
EXTENDS Delivery, TLC

CONSTANTS r1, r2, t1, t2, t3

\* Replicas run the same code and no property names one of them.
ReplicaSymmetry == Permutations(Replicas)
=============================================================================
