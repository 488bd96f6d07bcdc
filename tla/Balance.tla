------------------------------- MODULE Balance -------------------------------
(***************************************************************************)
(* CheckWalletMonitor and CompareRemains (wallets/monitoring/common.py):    *)
(* the pass that mails the owners when the balance of a platform wallet     *)
(* gets low, with the two gateways it asks (wallets/bgw_gateway/gateway.py  *)
(* and wallets/currencies_gateway/gateway.py).  No task list names the      *)
(* monitor; this is what a pass does when it is run.                        *)
(*                                                                          *)
(* Amounts are whole numbers: rate * value counts tenths of a thousandth of *)
(* a dollar, minima and what quantize(Decimal('0.001')) returns count       *)
(* thousandths.                                                             *)
(***************************************************************************)
EXTENDS Naturals

Wire == INSTANCE Wire

CONSTANTS
  Slugs,       \* currencies of wallets
  Minimum,     \* MIN_BALANCE_USD: a function on the currencies it knows
  Values,      \* balances in units of a wallet's currency
  Quotes,      \* rates of currencies
  Answers,     \* lists of wallets the blockchain gateway may answer with
  Shown,       \* sets of fields that the elements of a list of rates may show
  None         \* a key that is not there, or the text 'None', which loads as None

ASSUME MinimumAssumption == DOMAIN Minimum \subseteq Slugs /\ Minimum \in [DOMAIN Minimum -> Nat]
ASSUME AmountAssumption == Values \subseteq Nat /\ Quotes \subseteq Nat
ASSUME ShownAssumption == Shown \subseteq SUBSET DOMAIN Wire!Currency
\* The requests are built without arguments, and the answers have what
\* response_attr and the code after handle_response name.
ASSUME RequestAssumption ==
  LET balances == Wire!GatewayMethods.GetPlatformWalletsBalance
      currencies == Wire!CurrenciesMethods.Get IN
  /\ Wire!Encodes(balances.takes, <<>>) /\ {"status", "wallets"} \subseteq DOMAIN balances.returns
  /\ Wire!Encodes(currencies.takes, <<>>) /\ {"header", "currencies"} \subseteq DOMAIN currencies.returns

ASSUME NoneAssumption == None \notin Slugs \cup Values \cup Quotes

VARIABLES
  pc,
  wallets,   \* the list of the blockchain gateway
  rates,     \* rates by currency; empty if they are unavailable
  report,    \* wallets the mail is about
  outcome    \* of the last pass

vars == <<pc, wallets, rates, report, outcome>>

\* An element of the list once loaded; a balance left out by MessageToDict is
\* loaded as zero.
Wallet == [slug : Slugs \cup {None}, value : Values \cup {None}]

ASSUME AnswersAssumption == Answers \subseteq SUBSET Wallet

Rates == UNION {[S -> Quotes \cup {None}] : S \in SUBSET Slugs}

\* The source has None here; `if not rates` makes no difference between None
\* and a dictionary without currencies.
Unavailable == [s \in {} |-> None]

TypeOK ==
  /\ pc \in {"idle", "balances", "rates", "compare", "mail"}
  /\ wallets \in SUBSET Wallet
  /\ rates \in Rates
  /\ report \in SUBSET Wallet
  /\ outcome \in {"none", "done", "raised"}

Init ==
  /\ pc = "idle"
  /\ wallets = {} /\ rates = Unavailable
  /\ report = {}
  /\ outcome = "none"

-----------------------------------------------------------------------------
\* rates.get of a wallet's currency.
RateOf(w) == IF w.slug \in DOMAIN rates THEN rates[w.slug] ELSE None

FaultyRounded(x) == x \div 10        \* ROUND_DOWN
FaultyRoundedUp(x) == x \div 10 + 1  \* always up

\* quantize(Decimal('0.001'), rounding=ROUND_HALF_UP)
Rounded(x) == (x + 5) \div 10

\* The USD balance the pass compares: zero for a rate that is missing or zero.
Remains(w) == IF RateOf(w) \in {None, 0} THEN 0 ELSE Rounded(RateOf(w) * w.value)

\* CompareRemains.calc
Low(w) == Remains(w) <= Minimum[w.slug]

\* A wallet without a currency or with one that has no minimum is a KeyError,
\* a balance of None a TypeError as soon as there is a rate.
Incomparable(w) ==
  \/ w.slug \notin DOMAIN Minimum
  \/ w.value = None /\ RateOf(w) \notin {None, 0}

Raise == pc' = "idle" /\ outcome' = "raised"

-----------------------------------------------------------------------------
Start ==
  /\ pc = "idle"
  /\ pc' = "balances"
  /\ wallets' = {} /\ rates' = Unavailable /\ report' = {}
  /\ outcome' = "none"

\* get_platform_wallets_balance
Balances(answer, keys) ==
  /\ pc = "balances"
  /\ answer # {}
  /\ Wire!Loads(Wire!WalletBalanceSchema, keys)
  /\ pc' = "rates"
  /\ wallets' = answer
  /\ UNCHANGED <<rates, report, outcome>>

\* A bad status, no answer, an unknown key; or no wallets, which leaves the
\* key 'wallets' out of the dictionary.
BalancesRaise ==
  /\ pc = "balances"
  /\ Raise
  /\ UNCHANGED <<wallets, rates, report>>

\* get_currencies.  Any exception, from one element with a field that the
\* schema does not know to no answer at all, makes the rates unavailable.
Currencies(quoted, keys) ==
  /\ pc = "rates"
  /\ pc' = "compare"
  /\ rates' = IF Wire!Loads(Wire!CurrencyRateSchema, keys) THEN quoted ELSE Unavailable
  /\ UNCHANGED <<wallets, report, outcome>>

CompareRaises ==
  /\ pc = "compare"
  /\ \E w \in wallets :
       IF rates = Unavailable THEN w.slug = None ELSE Incomparable(w)
  /\ Raise
  /\ UNCHANGED <<wallets, rates, report>>

\* The mail is about all wallets when there are no rates, about the low ones
\* otherwise, and not sent when it would be about none.
Compare ==
  LET result == IF rates = Unavailable THEN wallets ELSE {w \in wallets : Low(w)} IN
  /\ pc = "compare"
  /\ \A w \in wallets : IF rates = Unavailable THEN w.slug # None ELSE ~Incomparable(w)
  /\ report' = result
  /\ IF result = {}
     THEN pc' = "idle" /\ outcome' = "done"
     ELSE pc' = "mail" /\ UNCHANGED outcome
  /\ UNCHANGED <<wallets, rates>>

\* send_mail.  The text is empty, send_message(''), whatever the report has:
\* that a mail is sent is all there is to it.  The answer of the mail service
\* has been turned into a dictionary when raise_for_status is called on it:
\* AttributeError.
SendMail ==
  /\ pc = "mail"
  /\ Raise
  /\ UNCHANGED <<wallets, rates, report>>

Next ==
  \/ Start
  \/ \E answer \in Answers, keys \in SUBSET DOMAIN Wire!PlatformWallet : Balances(answer, keys)
  \/ BalancesRaise
  \/ \E quoted \in Rates, keys \in Shown : Currencies(quoted, keys)
  \/ CompareRaises \/ Compare \/ SendMail

Spec == Init /\ [][Next]_vars

-----------------------------------------------------------------------------
\* The balance in tenths of a thousandth of a dollar, if it is known.
Known(w) == RateOf(w) # None /\ w.value # None
USD(w) == RateOf(w) * w.value

(* No wallet at or below its minimum is left out, neither from the mail nor  *)
(* by a pass that ends without one: not by rounding, not because the rates   *)
(* could not be had.                                                         *)
NoLowMissed ==
  pc = "mail" \/ outcome = "done" =>
    \A w \in wallets :
      w.slug \in DOMAIN Minimum /\ Known(w) /\ USD(w) <= 10 * Minimum[w.slug] => w \in report

(* A wallet that has a rate is only reported when rounding cannot have put   *)
(* it above the minimum by more than half a thousandth.                      *)
NoFalseAlarm ==
  \A w \in report :
    Known(w) => w.slug \in DOMAIN Minimum /\ USD(w) < 10 * Minimum[w.slug] + 5

(* What makes these inductive: a report belongs to the wallets and the rates *)
(* of the pass that made it.                                                 *)
BalanceInv ==
  /\ TypeOK
  /\ pc \in {"balances", "rates", "compare"} => report = {}
  /\ pc # "idle" => outcome = "none"
  /\ NoLowMissed
  /\ NoFalseAlarm
=============================================================================
