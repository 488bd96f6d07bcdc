------------------------------ MODULE Requests -------------------------------
(***************************************************************************)
(* What ServerMethod.process (wallets/gateway/method_classes.py) makes of a *)
(* message before a handler sees it: from_message and is_valid of the       *)
(* request objects (wallets/request_objects.py).  A request object has only *)
(* the attributes that the message sets, so reading another one raises.     *)
(*                                                                          *)
(* A message is a record: its method, the set of its own fields that are    *)
(* not at their default, and parts, the sets of fields of the messages it   *)
(* contains (the wallet, or the transactions).                              *)
(***************************************************************************)
Wire == INSTANCE Wire

Monitoring == {"StartMonitoring", "StopMonitoring"}

\* The messages of the service.
Shaped(msg) ==
  /\ msg.method \in DOMAIN Wire!Methods
  /\ msg.set \subseteq DOMAIN Wire!Methods[msg.method].takes
  /\ msg.parts \subseteq SUBSET
       CASE msg.method \in Monitoring -> DOMAIN Wire!Wallet
         [] msg.method = "UpdateTrx"  -> DOMAIN Wire!Transaction
         [] OTHER -> {}

\* from_message raises: the constructor reads a field that is not there.
\* A status that is UNDEFINED is not there either.
Unreadable(msg) ==
  \/ /\ msg.method \in Monitoring
     /\ msg.parts = {} \/ \E wallet \in msg.parts : "id" \notin wallet
  \/ /\ msg.method = "UpdateTrx"
     /\ msg.parts = {} \/ \E trx \in msg.parts : "status" \notin trx

\* is_valid raises for the same reason.
Uncheckable(msg) ==
  \/ /\ msg.method \in Monitoring
     /\ \E wallet \in msg.parts : ~({"address", "currency_slug"} \subseteq wallet)
  \/ msg.method = "CheckBalance" /\ ~({"body_currency", "body_amount"} \subseteq msg.set)
  \/ msg.method = "GetInputTransactions" /\ "wallet_id" \notin msg.set

\* is_valid is false.
Invalid(msg) ==
  \/ /\ msg.method = "UpdateTrx"
     /\ \E trx \in msg.parts : ~({"from", "hash", "to", "value", "currencySlug"} \subseteq trx)
  \/ /\ msg.method = "StartMonitoringPlatformWallet"
     /\ \/ ~({"wallet_id", "wallet_address"} \subseteq msg.set)
        \/ {"uuid", "expected_address", "expected_currency"} \cap msg.set = {}
  \/ /\ msg.method = "AddInputTransaction"
     /\ ~(DOMAIN Wire!InputTransactionRequest \subseteq msg.set)

\* The except branch of process() logs request_obj.dict(), and raises itself
\* when there is no request object or its dict() lacks an attribute.
Escapes(msg) == Unreadable(msg) \/ (msg.method \in Monitoring /\ Uncheckable(msg))

\* The handler is not called and the answer is an ERROR.  INVALID_REQUEST is
\* assigned on the way, but the description is then assigned an exception
\* object, which raises TypeError.
Refused(msg) == ~Escapes(msg) /\ (Uncheckable(msg) \/ Invalid(msg))

Accepted(msg) == ~Escapes(msg) /\ ~Refused(msg)
=============================================================================
