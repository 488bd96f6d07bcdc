------------------------------ MODULE MCService ------------------------------
(***************************************************************************)
(* A small instance of Service for TLC: two calls next to the passes, with  *)
(* every way to leave out fields that the code tells apart.                 *)
(***************************************************************************)
EXTENDS Service

CONSTANTS c1, c2, i1, i2, t1, t2

\* Two rows of the script with one id, as p_wallets.py makes them.
MCSeeds == [k \in Keys |-> IF k \in {1, 2} THEN i1 ELSE NoId]

Message(m, set, parts, id, ts) ==
  [method |-> m, set |-> set, parts |-> parts, id |-> id, trxs |-> ts]

\* The whole set, and the set without one of its members.
WithGaps(S) == {S} \cup {S \ {x} : x \in S}

WalletFields == {"id", "currency_slug", "address"}
TrxFields == DOMAIN Wire!Transaction \ {"is_fee_trx", "wallet_id", "time_confirmed"}

WalletMessages ==
  {Message(m, {"wallet"}, {WalletFields}, i, {}) : m \in Monitoring, i \in Ids}
  \cup {Message("StartMonitoring", {"wallet"}, {w}, i1, {}) : w \in WithGaps(WalletFields)}
  \cup {Message(m, {}, {}, i1, {}) : m \in Monitoring}

TrxMessages ==
  {Message("UpdateTrx", {"transaction"}, {TrxFields}, i1, ts) : ts \in SUBSET Trxs \ {{}}}
  \cup {Message("UpdateTrx", {"transaction"}, {TrxFields, TrxFields \ {f}}, i1, {t1})
         : f \in {"status", "hash"}}
  \cup {Message("UpdateTrx", {}, {}, i1, {})}

ExchangerMessages ==
  {Message("AddInputTransaction", DOMAIN Wire!InputTransactionRequest, {}, i, {t})
    : i \in Ids, t \in Trxs}
  \cup {Message("StartMonitoringPlatformWallet", set, {}, i1, {t1})
         : set \in WithGaps(DOMAIN Wire!PlatformWLTMonitoringRequest)}
  \cup {Message("AddInputTransaction", {"uuid", "hash"}, {}, i1, {t1})}

OtherMessages ==
  {Message("Healthz", {}, {}, i1, {})}
  \cup {Message("CheckBalance", set, {}, i1, {})
         : set \in {{"body_currency"}, DOMAIN Wire!CheckBalanceRequest}}
  \cup {Message("GetInputTransactions", set, {}, i1, {}) : set \in {{}, {"wallet_id"}}}

MCMessages == WalletMessages \cup TrxMessages \cup ExchangerMessages \cup OtherMessages
=============================================================================
