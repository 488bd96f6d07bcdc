------------------------------ MODULE MCBalance ------------------------------
(***************************************************************************)
(* A small instance of Balance for TLC: two currencies with a minimum of    *)
(* one and two thousandths of a dollar and one without, balances and rates  *)
(* around those minima, and answers with up to two wallets.                 *)
(***************************************************************************)
EXTENDS Balance

CONSTANTS a, b, x

MCMinimum == [s \in {a, b} |-> IF s = a THEN 1 ELSE 2]

\* Exactly what the schema demands; with the id that every currency has; and
\* a currency whose rate is empty.
MCShown == {{"slug", "rate", "name"}, {"id", "slug", "rate"}, {"slug", "name"}}

MCAnswers == {{v, w} : v, w \in Wallet}
=============================================================================
