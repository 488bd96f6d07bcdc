------------------------------- MODULE System --------------------------------
(***************************************************************************)
(* The way of a transaction through the service: Intake enters it in the    *)
(* `transaction` table, Delivery sends it on and takes its confirmation.    *)
(* What Intake sees of the table is a set of rows, what Delivery sees of it *)
(* is the status and the confirmation of each hash; here both are columns   *)
(* of one table, and the passes and handlers of both share the one database *)
(* connection of their replica.                                             *)
(*                                                                          *)
(* The Exchanger names the wallet a transaction is sent to.  That may be a  *)
(* wallet of the platform, which CheckTransactionsMonitor leaves out        *)
(* (is_platform=False), or a monitored one, as get_exchanger_wallet does    *)
(* not look at is_platform: then both may enter one and the same hash.      *)
(***************************************************************************)
EXTENDS Naturals, FiniteSets

CONSTANTS
  Replicas, Wallets, ExchangeWallets, Chain, Listed, Inputs, MixedCase, Uuids,
  Oversized, Null, Free, Orphan, NoWallet, NoTrx, Shown, Attempts, UuidText, Rejected,
  Announced,    \* blockchain transactions the Exchanger announces
  Expected,     \* what it announces before there is a hash: a uuid, or Null, and a wallet
  MaxFaults, MaxCrashes  \* bounds on the faults of Intake and of Delivery

ASSUME AnnouncedAssumption ==
  Announced \subseteq Chain /\ Expected \subseteq (Uuids \cup {Null}) \X ExchangeWallets
ASSUME LockAssumption == Free # Orphan /\ Free \notin Replicas /\ Orphan \notin Replicas
ASSUME AttemptsAssumption == Attempts \in Nat \ {0}
ASSUME BoundAssumption == MaxFaults \in Nat /\ MaxCrashes \in Nat

VARIABLES
  mined, rows, walletLocks, session, intakeFaults,
  table, trxLocks, job, received, answered, deliveryFaults, lapses

Intake == INSTANCE Intake WITH locks <- walletLocks, faults <- intakeFaults

\* A row is known by its hash.
Hashes == {Intake!Lower(t) : t \in Chain} \cup {Intake!Given(t) : t \in Announced}

\* The monitored wallets a transaction is sent to.
Receivers(t) == {w \in Wallets : t \in Inputs[w]}

\* The wallet rows the Exchanger may name for a transaction.
Named(t) == IF Receivers(t) = {} THEN ExchangeWallets \ Wallets ELSE ExchangeWallets \cap Receivers(t)

\* Rows that SendToExchangerService joins with a wallet of the platform.
Platform == {Intake!Given(t) : t \in {u \in Announced : Receivers(u) = {}}}

\* What the gateway lists, and marks for rows and wallets that are not there,
\* as in Intake and Delivery.
ASSUME ListAssumption ==
  /\ Listed \in [Wallets -> SUBSET Chain] /\ Inputs \in [Wallets -> SUBSET Chain]
  /\ Shown \in [Chain -> SUBSET DOMAIN Intake!Wire!GetTransactionsResponse]
  /\ \A w \in Wallets : \A t \in Inputs[w] : "to" \in Shown[t]
  /\ Oversized \subseteq Chain
ASSUME NoneAssumption ==
  /\ NoWallet \notin Wallets /\ NoTrx \notin Hashes
  /\ Null \notin Uuids /\ Null \notin Chain \X {"lower", "given"}

Delivery == INSTANCE Delivery
  WITH Trx <- Hashes, MaxFaults <- MaxCrashes, MaxLapses <- 0,
       locks <- trxLocks, faults <- deliveryFaults

intakeVars == <<mined, rows, walletLocks, session, intakeFaults>>
deliveryVars == <<table, trxLocks, job, received, answered, deliveryFaults, lapses>>
vars == <<intakeVars, deliveryVars>>

Init == Intake!Init /\ Delivery!Init

-----------------------------------------------------------------------------
FaultyEntered == table   \* the senders do not select what is entered

\* The table after Intake has written: new rows have the default status, and
\* no row of Intake's is written again.
Entered ==
  [h \in Hashes |-> IF (\E x \in rows : x.hash = h)' /\ table[h] = Delivery!NoRow
                    THEN Delivery!NewRow ELSE table[h]]

\* A replica does one thing at a time.
FaultyMine(r) == session[r].pc = "idle"     \* a connection for each

Mine(r) == session[r].pc = "idle" /\ job[r].pc = "idle"

OfIntake == table' = Entered /\ UNCHANGED <<trxLocks, job, received, answered, deliveryFaults, lapses>>
OfDelivery == UNCHANGED intakeVars

StartIntake(r) == Mine(r) /\ Intake!StartPass(r) /\ OfIntake

Announce(r, t, u, w) ==
  Mine(r) /\ w \in Named(t) /\ Intake!StartAdd(r, t, u, w) /\ OfIntake

Expect(r, u, w) == Mine(r) /\ Intake!StartExpect(r, u, w) /\ OfIntake

StartSending(r, svc) == Mine(r) /\ Delivery!StartPass(r, svc) /\ OfDelivery

StartUpdate(r, batch) == Mine(r) /\ Delivery!StartUpdate(r, batch) /\ OfDelivery

\* The pass or handler at hand goes on.
Work(r) ==
  \/ (Intake!PassStep(r) \/ Intake!RequestStep(r)) /\ OfIntake
  \/ (Delivery!PassStep(r) \/ Delivery!UpdateStep(r)) /\ OfDelivery

Fail(r) ==
  \/ Intake!Crash(r) /\ OfIntake
  \/ Delivery!Crash(r) /\ OfDelivery
  \/ \E keep \in BOOLEAN : Delivery!UpdateFails(r, keep) /\ OfDelivery

World ==
  \/ \E t \in Chain : Intake!Mine(t) /\ OfIntake
  \/ \E w \in Wallets : (Intake!LockExpires(w) \/ Intake!LockLapses(w)) /\ OfIntake
  \/ \E h \in Hashes : Delivery!LockExpires(h) /\ OfDelivery

Next ==
  \/ \E r \in Replicas :
       \/ StartIntake(r)
       \/ \E t \in Announced, u \in Uuids, w \in ExchangeWallets : Announce(r, t, u, w)
       \/ \E e \in Expected : Expect(r, e[1], e[2])
       \/ \E svc \in Delivery!Services : StartSending(r, svc)
       \/ \E batch \in SUBSET Hashes : StartUpdate(r, batch)
       \/ Work(r) \/ Fail(r)
  \/ World

Spec == Init /\ [][Next]_vars

(* As in Intake and Delivery: every pass and every handler that comes gets   *)
(* the connection again and again, and what has it goes on.                  *)
Fairness ==
  /\ \A r \in Replicas :
       /\ WF_vars(Work(r))
       /\ SF_vars(StartIntake(r))
       /\ \A svc \in Delivery!Services : SF_vars(StartSending(r, svc))
       /\ \A h \in Hashes :
            /\ SF_vars(job[r].cur = h /\ Delivery!CallAccepted(r) /\ OfDelivery)
            /\ SF_vars(StartUpdate(r, {h}))
  /\ \A w \in Wallets : WF_vars(Intake!LockExpires(w) /\ OfIntake)
  /\ \A h \in Hashes : WF_vars(Delivery!LockExpires(h) /\ OfDelivery)

FairSpec == Spec /\ Fairness

-----------------------------------------------------------------------------
(* Whatever a pass of Intake commits, and whenever, is to Delivery some new  *)
(* rows of status NEW between two of its own passes: no row that is being    *)
(* delivered or was confirmed is touched.                                    *)
ImplementsDelivery == Delivery!Spec

(* A row that a pass is about to insert is never refused, although the       *)
(* Exchanger enters rows in between, of the same hashes among others, which  *)
(* would roll back what the pass has stored for all wallets (see Intake).    *)
InsertNeverRefused == Intake!InsertNeverRefused

(* Every input of a monitored wallet is stored, and told to the Transactions *)
(* service, however often passes fail and whatever else the replica does.    *)
InputsAreTold ==
  \A w \in Wallets : \A t \in Listed[w] \cap Inputs[w] :
    Intake!Lower(t) \notin Rejected =>
      (t \in mined ~> Intake!Lower(t) \in received["transactions"])

(* Every transaction to the platform that the Exchanger has been answered    *)
(* SUCCESS for is reported to it once it is confirmed, and it is confirmed   *)
(* in the end.                                                               *)
AnnouncedAreReported ==
  \A h \in Platform \ Rejected :
    (\E x \in rows : x.hash = h) ~> table[h].status = Delivery!Reported
=============================================================================
