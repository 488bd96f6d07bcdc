----------------------------- MODULE Lifecycle ------------------------------
(***************************************************************************)
(* What the wallets service promises about a transaction, with no word of   *)
(* how: no replica, pass, lock, database session or crash.                  *)
(*                                                                          *)
(*   - It is given to a remote service only while its status says that it   *)
(*     is that service's turn.                                              *)
(*   - Its status moves on only after the service has received it.          *)
(*   - A confirmation is taken only for transactions the Transactions       *)
(*     service knows, and never takes back a report to the Exchanger.       *)
(*                                                                          *)
(* The status therefore only ever moves forward:                            *)
(*   NEW -> SENT -> CONFIRMED -> REPORTED, or NEW -> CONFIRMED when the     *)
(*   callback comes before the sender has recorded the delivery.            *)
(***************************************************************************)
EXTENDS TrxTable

CONSTANTS
  Trx,       \* transactions that have a hash
  Platform   \* those of platform wallets that carry an exchanger uuid

VARIABLES
  status,    \* status of each transaction
  received   \* for each service, the transactions it has been given

vars == <<status, received>>

Eligible(svc, t) ==
  /\ status[t] = Source(svc)
  /\ svc = "exchanger" => t \in Platform

Init ==
  /\ status = [t \in Trx |-> Absent]
  /\ received = [svc \in Services |-> {}]

\* Transactions are entered, with their hashes.
Register(batch) ==
  /\ \A t \in batch : status[t] = Absent
  /\ status' = [t \in Trx |-> IF t \in batch THEN New ELSE status[t]]
  /\ UNCHANGED received

\* The service is given the transaction, for the first time or again.
Deliver(svc, t) ==
  /\ Eligible(svc, t)
  /\ received' = [received EXCEPT ![svc] = @ \cup {t}]
  /\ UNCHANGED status

\* The delivery is recorded.
Mark(svc, t) ==
  /\ Eligible(svc, t)
  /\ t \in received[svc]
  /\ status' = [status EXCEPT ![t] = Target(svc)]
  /\ UNCHANGED received

\* The Transactions service reports a batch back.
Confirm(batch) ==
  /\ batch \subseteq received["transactions"]
  /\ \A t \in batch : status[t] # Reported
  /\ status' = [t \in Trx |-> IF t \in batch THEN Confirmed ELSE status[t]]
  /\ UNCHANGED received

Next ==
  \/ \E svc \in Services, t \in Trx : Deliver(svc, t) \/ Mark(svc, t)
  \/ \E batch \in SUBSET Trx : Register(batch) \/ Confirm(batch)

Spec == Init /\ [][Next]_vars
=============================================================================
