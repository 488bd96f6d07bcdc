-------------------------------- MODULE Wire ---------------------------------
(***************************************************************************)
(* The messages the service exchanges, as its generated protobuf modules    *)
(* (wallets/rpc/*_pb2.py) declare them, and what the code around protobuf   *)
(* makes of them: MessageToDict, which leaves out every field that has its  *)
(* default value, the constructors, which refuse a value of the wrong       *)
(* Python type, and the marshmallow schemas, which refuse a dictionary with *)
(* a key they do not declare.                                               *)
(*                                                                          *)
(* A message type maps its fields to their types.  A received message is    *)
(* abstracted to the set of its fields that are not at their default.       *)
(***************************************************************************)

-----------------------------------------------------------------------------
(* wallets.proto: what this service offers.                                  *)

ResponseStatus == {"NOT_SET", "SUCCESS", "ERROR", "INVALID_REQUEST"}

ResponseHeader == [status |-> "enum", description |-> "string"]

HealthzRequest == <<>>

Wallet == [id |-> "int64", currency_slug |-> "string", address |-> "string",
           is_platform |-> "bool", external_id |-> "int64"]

MonitoringRequest == [wallet |-> "message"]

CheckBalanceRequest == [body_currency |-> "string", body_amount |-> "string"]

Transaction ==
  [from |-> "string", to |-> "string", hash |-> "string", value |-> "string",
   wallet_id |-> "int64", currencySlug |-> "string", status |-> "enum",
   is_fee_trx |-> "bool", time_confirmed |-> "int64"]

TransactionRequest == [transaction |-> "repeated"]

InputTransactionsRequest ==
  [wallet_id |-> "int64", wallet_address |-> "string", time_from |-> "int64",
   time_to |-> "int64"]

PlatformWLTMonitoringRequest ==
  [uuid |-> "string", expected_address |-> "string", expected_amount |-> "string",
   wallet_id |-> "int64", wallet_address |-> "string", expected_currency |-> "string"]

InputTransactionRequest ==
  [uuid |-> "string", from_address |-> "string", hash |-> "string",
   wallet_address |-> "string", currency |-> "string", value |-> "string"]

HealthzResponse == [header |-> "message"]
MonitoringResponse == [header |-> "message"]
CheckBalanceResponse == [header |-> "message"]
TransactionResponse == [header |-> "message"]
InputTransactionsResponse == [header |-> "message", transactions |-> "repeated"]
PlatformWLTMonitoringResponse == [header |-> "message"]
InputTransactionResponse == [header |-> "message"]

\* The methods of the service.
Methods ==
  [Healthz              |-> [takes |-> HealthzRequest, returns |-> HealthzResponse],
   StartMonitoring      |-> [takes |-> MonitoringRequest, returns |-> MonitoringResponse],
   StopMonitoring       |-> [takes |-> MonitoringRequest, returns |-> MonitoringResponse],
   CheckBalance         |-> [takes |-> CheckBalanceRequest, returns |-> CheckBalanceResponse],
   UpdateTrx            |-> [takes |-> TransactionRequest, returns |-> TransactionResponse],
   GetInputTransactions |->
     [takes |-> InputTransactionsRequest, returns |-> InputTransactionsResponse],
   StartMonitoringPlatformWallet |->
     [takes |-> PlatformWLTMonitoringRequest, returns |-> PlatformWLTMonitoringResponse],
   AddInputTransaction  |->
     [takes |-> InputTransactionRequest, returns |-> InputTransactionResponse]]

-----------------------------------------------------------------------------
(* transactions.proto, exchanger.proto: where transactions are pushed to.    *)

TransactionsTransaction ==
  [from |-> "string", to |-> "string", hash |-> "string", wallet_id |-> "int64",
   value |-> "string", isOutput |-> "bool", currencySlug |-> "string",
   status |-> "int64", is_fee_trx |-> "bool", time_at_block |-> "int64"]

StartMonitoringRequest == [transactions |-> "repeated"]

StartMonitoringResponse == [header |-> "message"]

TransactionsMethods ==
  [StartMonitoring |-> [takes |-> StartMonitoringRequest, returns |-> StartMonitoringResponse]]

TransactionData == [uuid |-> "string", trx_hash |-> "string", value |-> "string"]

UpdateRequest == [transactions |-> "repeated"]

UpdateResponse == [header |-> "message"]

ExchangerMethods ==
  [UpdateInputTransaction |-> [takes |-> UpdateRequest, returns |-> UpdateResponse]]

-----------------------------------------------------------------------------
(* blockchain_gateway.proto, currencies.proto: what is asked of the chain    *)
(* and of the rates.                                                         *)

GatewayStatus == {"UNDEFINED", "SUCCESS", "NOT_FOUND", "ERROR", "INVALID_REQUEST", "PENDING"}

GetTransactionsListRequest ==
  [walletId |-> "int32", walletAddress |-> "string", fromTime |-> "int32", toTime |-> "int64"]

GetTransactionsListResponse == [status |-> "message", transactions |-> "repeated"]

\* An element of that list.
GetTransactionsResponse ==
  [status |-> "message", hash |-> "string", time |-> "int64", isOutput |-> "bool",
   from |-> "string", to |-> "string", fee |-> "uint64", isError |-> "bool",
   value |-> "string", currencySlug |-> "string"]

GetBalanceBySlugRequest == [slug |-> "string"]

GetBalanceResponse == [status |-> "message", balance |-> "string", time |-> "int64"]

EmptyRequest == <<>>

GetPlatformWalletsBalanceResponse == [status |-> "message", wallets |-> "repeated"]

\* An element of that list.
PlatformWallet == [currencySlug |-> "string", value |-> "string"]

GatewayMethods ==
  [GetTransactionsList |->
     [takes |-> GetTransactionsListRequest, returns |-> GetTransactionsListResponse],
   GetBalanceBySlug |->
     [takes |-> GetBalanceBySlugRequest, returns |-> GetBalanceResponse],
   GetPlatformWalletsBalance |->
     [takes |-> EmptyRequest, returns |-> GetPlatformWalletsBalanceResponse]]

CurrenciesRequest == <<>>

CurrenciesResponse == [header |-> "message", currencies |-> "repeated"]

\* An element of that list.
Currency ==
  [id |-> "int32", name |-> "string", fullname |-> "string", rate |-> "string",
   coefficients |-> "repeated", slug |-> "string", rates |-> "repeated",
   symbol |-> "string", datetime |-> "message"]

CurrenciesMethods ==
  [Get |-> [takes |-> CurrenciesRequest, returns |-> CurrenciesResponse]]

-----------------------------------------------------------------------------
(* Encoding: the keyword arguments of a message constructor, each with the   *)
(* type of the Python value.  None leaves the field alone.                   *)

Takes(kind) ==
  CASE kind = "string" -> {"str", "None"}
    [] kind \in {"int32", "int64", "uint64", "enum"} -> {"int", "bool", "None"}
    [] kind = "bool" -> {"bool", "int", "None"}
    [] OTHER -> {"None"}

\* The constructor of a message takes the arguments.
Encodes(type, arguments) ==
  /\ DOMAIN arguments \subseteq DOMAIN type
  /\ \A f \in DOMAIN arguments : arguments[f] \in Takes(type[f])

-----------------------------------------------------------------------------
(* Decoding: the keys a schema demands and those it knows, and whether       *)
(* load() accepts a dictionary with the given keys.                          *)

Loads(schema, keys) == schema.required \subseteq keys /\ keys \subseteq schema.known

TransactionSchema ==
  [required |-> {"from", "currencySlug", "value", "hash"},
   known    |-> {"id", "from", "to", "currencySlug", "value", "hash", "wallet_id", "time"}]

GetBalanceResponseSchema == [required |-> {}, known |-> {"balance"}]

WalletBalanceSchema == [required |-> {}, known |-> {"currencySlug", "value"}]

CurrencyRateSchema ==
  [required |-> {"slug", "rate"},
   known    |-> {"name", "slug", "symbol", "fullname", "rate", "coefficients", "datetime"}]
=============================================================================
