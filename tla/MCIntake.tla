------------------------------ MODULE MCIntake -------------------------------
(***************************************************************************)
(* Small instances of Intake for TLC.  Two wallets are monitored, and the   *)
(* gateway lists the same transactions for both: t1 was sent from the       *)
(* second to the first, t2 to the second, and t3 to neither.                *)
(***************************************************************************)
EXTENDS Intake, TLC

CONSTANTS r1, r2, w1, w2, p1, t1, t2, t3, u1

MCListed == [w \in Wallets |-> Chain]

MCInputs == [w \in Wallets |-> Chain \cap (IF w = w1 THEN {t1} ELSE {t2})]

\* The element of a plain transfer; t3 creates a contract and is sent to
\* no address.
Transfer == {"from", "to", "currencySlug", "value", "hash", "time"}
MCShown == [t \in Chain |-> IF t = t3 THEN Transfer \ {"to"} ELSE Transfer]

\* t3 is a payment the wallets have made, and is marked as such.
MCShownOutput == [t \in Chain |-> IF t = t3 THEN Transfer \cup {"isOutput"} ELSE Transfer]

ReplicaSymmetry == Permutations(Replicas)
=============================================================================
