---------------------------- MODULE BalanceProofs ----------------------------
(***************************************************************************)
(* Proofs about Balance, for any wallets, balances, rates and minima.       *)
(***************************************************************************)
EXTENDS Balance, TLAPS

(* Rounding half up never carries an amount over a whole minimum, and not    *)
(* further down than by half a unit.                                         *)
LEMMA Rounding ==
  ASSUME NEW x \in Nat, NEW m \in Nat
  PROVE  /\ x <= 10 * m => Rounded(x) <= m
         /\ Rounded(x) <= m => x < 10 * m + 5
BY DEF Rounded

(* The amounts of a wallet that can be compared are natural numbers.         *)
LEMMA Amounts ==
  ASSUME TypeOK, NEW w \in Wallet, Known(w)
  PROVE  RateOf(w) \in Nat /\ w.value \in Nat /\ USD(w) \in Nat
<1>1. w.slug \in DOMAIN rates
  BY DEF Known, RateOf
<1>2. PICK S \in SUBSET Slugs : rates \in [S -> Quotes \cup {None}]
  BY DEF TypeOK, Rates
<1>3. RateOf(w) \in Nat /\ w.value \in Nat
  BY <1>1, <1>2, AmountAssumption DEF Known, RateOf, Wallet
<1> QED BY <1>3 DEF USD

(* What is low, to the half of a thousandth.                                 *)
LEMMA LowMeans ==
  ASSUME TypeOK, NEW w \in Wallet, Known(w), w.slug \in DOMAIN Minimum
  PROVE  /\ USD(w) <= 10 * Minimum[w.slug] => Low(w)
         /\ Low(w) => USD(w) < 10 * Minimum[w.slug] + 5
<1> DEFINE m == Minimum[w.slug]
<1>1. m \in Nat /\ USD(w) \in Nat /\ RateOf(w) \in Nat /\ w.value \in Nat
  BY Amounts, MinimumAssumption
<1> HIDE DEF m
<1>2. CASE RateOf(w) = 0
  <2>1. USD(w) = 0 /\ Remains(w) = 0
    BY <1>1, <1>2 DEF USD, Remains
  <2> QED BY <1>1, <2>1 DEF Low, m
<1>3. CASE RateOf(w) # 0
  <2>1. Remains(w) = Rounded(USD(w))
    BY <1>3 DEF Remains, Known, USD
  <2> QED BY <1>1, <2>1, Rounding DEF Low, m
<1> QED BY <1>2, <1>3

LEMMA BalanceStart == Init => BalanceInv
BY DEF Init, BalanceInv, TypeOK, NoLowMissed, NoFalseAlarm, Rates, Unavailable

LEMMA BalanceStep == BalanceInv /\ [Next]_vars => BalanceInv'
<1> SUFFICES ASSUME BalanceInv, [Next]_vars PROVE BalanceInv'
  OBVIOUS
<1> USE DEF BalanceInv
<1>1. CASE Start
  BY <1>1 DEF Start, TypeOK, NoLowMissed, NoFalseAlarm, Rates, Unavailable
<1>2. ASSUME NEW answer \in Answers, NEW keys, Balances(answer, keys) PROVE BalanceInv'
  BY <1>2, AnswersAssumption DEF Balances, TypeOK, NoLowMissed, NoFalseAlarm
<1>3. CASE BalancesRaise
  BY <1>3 DEF BalancesRaise, Raise, TypeOK, NoLowMissed, NoFalseAlarm
<1>4. ASSUME NEW quoted \in Rates, NEW keys, Currencies(quoted, keys) PROVE BalanceInv'
  <2>1. Unavailable \in Rates
    BY DEF Unavailable, Rates
  <2> QED BY <1>4, <2>1 DEF Currencies, TypeOK, NoLowMissed, NoFalseAlarm
<1>5. CASE CompareRaises
  BY <1>5 DEF CompareRaises, Raise, TypeOK, NoLowMissed, NoFalseAlarm
<1>6. CASE Compare
  <2>1. /\ UNCHANGED <<wallets, rates>> /\ report' \subseteq wallets
        /\ pc = "compare" /\ pc' \in {"idle", "mail"} /\ outcome' \in {"none", "done"}
        /\ pc' # "idle" => outcome' = outcome
    BY <1>6 DEF Compare, TypeOK
  <2>2. TypeOK'
    BY <2>1 DEF TypeOK
  <2>3. \A w \in wallets : /\ RateOf(w)' = RateOf(w) /\ Known(w)' = Known(w)
                           /\ USD(w)' = USD(w) /\ w \in Wallet
    BY <2>1 DEF RateOf, Known, USD, TypeOK
  <2>4. CASE rates = Unavailable
    <3>1. report' = wallets /\ \A w \in wallets : ~Known(w)
      BY <1>6, <2>4 DEF Compare, Known, RateOf, Unavailable
    <3> QED BY <2>1, <2>2, <2>3, <3>1 DEF NoLowMissed, NoFalseAlarm
  <2>5. CASE rates # Unavailable
    <3>1. /\ report' = {w \in wallets : Low(w)}
          /\ \A w \in wallets : w.slug \in DOMAIN Minimum
      BY <1>6, <2>5 DEF Compare, Incomparable
    <3>2. \A w \in wallets : Known(w) =>
            /\ USD(w) <= 10 * Minimum[w.slug] => Low(w)
            /\ Low(w) => USD(w) < 10 * Minimum[w.slug] + 5
      BY <2>3, <3>1, LowMeans
    <3>3. NoLowMissed'
      BY <2>1, <2>3, <3>1, <3>2 DEF NoLowMissed
    <3>4. NoFalseAlarm'
      BY <2>1, <2>3, <3>1, <3>2 DEF NoFalseAlarm
    <3> QED BY <2>1, <2>2, <3>3, <3>4
  <2> QED BY <2>4, <2>5
<1>7. CASE SendMail
  BY <1>7 DEF SendMail, Raise, TypeOK, NoLowMissed, NoFalseAlarm, RateOf, Known, USD
<1>8. CASE UNCHANGED vars
  BY <1>8 DEF vars, TypeOK, NoLowMissed, NoFalseAlarm, RateOf, Known, USD
<1> QED BY <1>1, <1>2, <1>3, <1>4, <1>5, <1>6, <1>7, <1>8 DEF Next

(* The inductive invariant: a report belongs to the wallets and the rates of *)
(* the pass that made it.                                                    *)
THEOREM BalanceCorrect == Spec => []BalanceInv
BY BalanceStart, BalanceStep, PTL DEF Spec

(* Every variable keeps its type, whatever raises on the way.                *)
THEOREM BalanceTyped == Spec => []TypeOK
<1>1. BalanceInv => TypeOK
  BY DEF BalanceInv
<1> QED BY <1>1, BalanceCorrect, PTL

(* Rounding, missing rates and everything that may raise on the way never    *)
(* hide a low balance.                                                       *)
THEOREM LowAreReported == Spec => []NoLowMissed
<1>1. BalanceInv => NoLowMissed
  BY DEF BalanceInv
<1> QED BY <1>1, BalanceCorrect, PTL

(* Nor do they report one that is more than half a thousandth above its      *)
(* minimum.                                                                  *)
THEOREM ReportedAreLow == Spec => []NoFalseAlarm
<1>1. BalanceInv => NoFalseAlarm
  BY DEF BalanceInv
<1> QED BY <1>1, BalanceCorrect, PTL
=============================================================================
