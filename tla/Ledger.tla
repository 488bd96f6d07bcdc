------------------------------- MODULE Ledger --------------------------------
(***************************************************************************)
(* What the `transaction` table promises to those who enter transactions,   *)
(* whoever they are and however many rows they enter at a time: no hash and *)
(* no uuid is ever entered twice, and nothing entered is lost or changed.   *)
(***************************************************************************)
CONSTANTS
  Entry,   \* rows: records with at least the fields hash and uuid
  Null     \* SQL NULL, which unique columns may repeat

VARIABLE rows

\* Two rows that the unique columns of Transaction do not admit together.
Clash(a, b) ==
  \/ a.hash # Null /\ a.hash = b.hash
  \/ a.uuid # Null /\ a.uuid = b.uuid

Compatible(S) == \A a, b \in S : Clash(a, b) => a = b

Init == rows = {}

\* Any number of rows are entered together.
Enter ==
  /\ rows' \in SUBSET Entry
  /\ rows \subseteq rows'
  /\ Compatible(rows')

Next == Enter

Spec == Init /\ [][Next]_rows
=============================================================================
