------------------------------ MODULE TrxTable ------------------------------
(***************************************************************************)
(* The rows of the `transaction` table, as far as the delivery of           *)
(* transactions to the remote services reads and writes them: the status    *)
(* (wallets/utils/consts.py) and whether confirmed_at is set                *)
(* (wallets/common/models.py).  Hash, addresses, value and wallet of a row  *)
(* never change once the row has a hash, so a row is identified by its      *)
(* element of Trx and its fixed attributes are constants of the modules     *)
(* that need them.                                                          *)
(***************************************************************************)

\* The members of TransactionStatus that the scheduled code writes or tests.
\* UNDEFINED, NOT_FOUND, SUCCESSFUL, FAILED and PENDING are declared there,
\* and no scheduled code assigns them to a row.
New       == "NEW"
Sent      == "SENT"
Confirmed == "CONFIRMED"
Reported  == "REPORTED"

\* The row has not been inserted yet.
Absent    == "ABSENT"

Status == {Absent, New, Sent, Confirmed, Reported}

Row == [status : Status, confirmed : BOOLEAN]

NoRow == [status |-> Absent, confirmed |-> FALSE]

\* A row as it is inserted: default status, confirmed_at NULL.
NewRow == [status |-> New, confirmed |-> FALSE]

\* The two remote services transactions are pushed to.
Services == {"transactions", "exchanger"}

\* The status get_data selects for a service.
Source(svc) == IF svc = "transactions" THEN New ELSE Confirmed

\* A wrong version of the next operator, for the checks to substitute:
\* another member of the enumeration.
FaultyTarget(svc) == IF svc = "transactions" THEN "SUCCESSFUL" ELSE Reported

\* The status set_status writes after the service accepted the transaction.
Target(svc) == IF svc = "transactions" THEN Sent ELSE Reported

=============================================================================
