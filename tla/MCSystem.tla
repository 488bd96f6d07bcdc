------------------------------ MODULE MCSystem -------------------------------
(***************************************************************************)
(* A small instance of System for TLC: t1 is sent to the platform's p1, t2  *)
(* and t3 to the one monitored wallet w1, for which the gateway lists them; *)
(* the Exchanger announces t1 and t2.                                       *)
(***************************************************************************)
EXTENDS System

CONSTANTS r1, w1, p1, t1, t2, t3, u1

\* An announcement in advance without a uuid.
MCExpected == {<<Null, p1>>}

MCInputs == [w \in Wallets |-> Chain \ {t1}]

MCListed == MCInputs

MCShown == [t \in Chain |-> {"from", "to", "currencySlug", "value", "hash", "time"}]

MCUuidText == Platform

MCRejected == {Intake!Lower(t) : t \in Chain \cap {t3}}
=============================================================================
