----------------------------- MODULE MCRegistry ------------------------------
(***************************************************************************)
(* Small instances of Registry for TLC.                                     *)
(***************************************************************************)
EXTENDS Registry

CONSTANTS r1, r2, i1, i2, i3

\* The table of p_wallets.py: the bitcoin wallet with an id of its own, that of
\* ether and that of a token with one id.
ScriptSeeds == [k \in Keys |-> CASE k = 1 -> i1 [] k \in {2, 3} -> i2 [] OTHER -> NoId]
=============================================================================
