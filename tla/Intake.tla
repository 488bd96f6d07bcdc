------------------------------- MODULE Intake --------------------------------
(***************************************************************************)
(* How transactions get into the `transaction` table:                       *)
(* CheckTransactionsMonitor (wallets/monitoring/common.py) copies what the  *)
(* blockchain gateway lists for the monitored wallets, AddInputTransaction  *)
(* and StartMonitoringPlatformWLT (wallets/gateway/method_classes.py) enter *)
(* what the Exchanger announces.  CheckPlatformWalletsMonitor, which would  *)
(* give an announced transaction its hash, is not in __TRANSACTIONS_TASKS__ *)
(* and has no action here.                                                  *)
(*                                                                          *)
(* A replica runs one process() at a time (see Delivery), each in one       *)
(* database transaction: what it inserts is in session[r].wrote until it    *)
(* ends, seen by nobody else but already guarded by the unique indexes.     *)
(* The pass of the monitor is one transaction over all wallets, while its   *)
(* Redis locks are per wallet and released on the way.                      *)
(***************************************************************************)
EXTENDS Naturals, FiniteSets

Wire == INSTANCE Wire

CONSTANTS
  Replicas,
  Wallets,        \* wallet rows on monitoring, active, not of the platform
  ExchangeWallets,\* wallet rows the Exchanger names in its requests
  Chain,          \* blockchain transactions
  Listed,         \* Listed[w]: those the gateway may list for wallet w
  Inputs,         \* Inputs[w]: those sent to the address of w
  MixedCase,      \* those whose hash the Exchanger writes with upper-case letters
  Uuids,          \* ids the Exchanger gives its transactions
  Null, Free, Orphan, NoWallet,
  Oversized,      \* those whose value does not fit into numeric(20, 10)
  Shown,          \* Shown[t]: fields of t's element in a list that are not at their default
  MaxFaults       \* bound on crashes, lapsing locks and passing failures of the gateway

ASSUME ListedAssumption == Listed \in [Wallets -> SUBSET Chain]
ASSUME InputsAssumption == Inputs \in [Wallets -> SUBSET Chain]
ASSUME LockAssumption == Free # Orphan /\ Free \notin Replicas /\ Orphan \notin Replicas
ASSUME ShownAssumption == Shown \in [Chain -> SUBSET DOMAIN Wire!GetTransactionsResponse]
ASSUME AddressAssumption == \A w \in Wallets : \A t \in Inputs[w] : "to" \in Shown[t]
ASSUME OversizedAssumption == Oversized \subseteq Chain
ASSUME WalletAssumption == NoWallet \notin Wallets
ASSUME BoundAssumption == MaxFaults \in Nat
ASSUME NullAssumption == Null \notin Uuids /\ Null \notin Chain \X {"lower", "given"}

VARIABLES
  mined,     \* transactions that are on the chain by now
  rows,      \* committed rows of the table
  locks,     \* Redis: holder of each wallet's key
  session,   \* what each replica is doing
  faults

vars == <<mined, rows, locks, session, faults>>

\* The text of a hash: as TransactionSchema lower-cases it, or as the
\* Exchanger wrote it, which AddInputTransaction keeps.
Hashes == Chain \X {"lower", "given"}

FaultyLower(t) == <<t, "upper">>   \* a schema field of the wrong kind

Lower(t) == <<t, "lower">>

Given(t) == <<t, IF t \in MixedCase THEN "given" ELSE "lower">>

Row == [hash : Hashes \cup {Null}, uuid : Uuids \cup {Null},
        wallet : Wallets \cup ExchangeWallets]

Session ==
  [pc    : {"idle", "scan", "acquire", "list", "check", "release", "unwind",
            "find", "create", "commit"},
   todo  : SUBSET Wallets,
   cur   : Wallets \cup {NoWallet},
   batch : SUBSET Chain,     \* left of the list the gateway returned
   row   : SUBSET Row,       \* what the statement at hand inserts, at most one
   wrote : SUBSET Row]

Idle == [pc |-> "idle", todo |-> {}, cur |-> NoWallet, batch |-> {}, row |-> {}, wrote |-> {}]

TypeOK ==
  /\ mined \in SUBSET Chain
  /\ rows \in SUBSET Row
  /\ locks \in [Wallets -> Replicas \cup {Free, Orphan}]
  /\ session \in [Replicas -> Session]
  /\ faults \in Nat

Init ==
  /\ mined = {}
  /\ rows = {}
  /\ locks = [w \in Wallets |-> Free]
  /\ session = [r \in Replicas |-> Idle]
  /\ faults = 0

Ledgers == INSTANCE Ledger WITH Entry <- Row

-----------------------------------------------------------------------------
(* The database, and the decisions of the code.  Faulty... operators are     *)
(* wrong versions for the checks to substitute.                              *)

\* What the session of r sees.
Visible(r) == rows \cup session[r].wrote

\* manager.exists(Transaction, hash=h)
Exists(r, h) == \E x \in Visible(r) : x.hash = h

\* The list was loaded: TransactionSchema takes every element of it.
Loaded(batch) == \A t \in batch : Wire!Loads(Wire!TransactionSchema, Shown[t])

\* What a call lists, once its answer says SUCCESS.
Answer(w) == Listed[w] \cap mined

FaultyValid(r, t, w) == ~Exists(r, Lower(t))        \* outgoing ones are stored too
FaultyValidNew(r, t, w) == t \in Inputs[w]          \* the hash is not looked up
FaultyValidKnown(r, t, w) == Exists(r, Lower(t)) /\ t \in Inputs[w]   \* `not` is lost

\* trx['address_to'] raises KeyError: the field is not required, and the
\* hash is looked up first.
NoAddress(r, t) == ~Exists(r, Lower(t)) /\ "to" \notin Shown[t]

\* ValidateTRX.is_valid
Valid(r, t, w) == ~Exists(r, Lower(t)) /\ t \in Inputs[w]

FaultyRefused(r, x) == x.hash # Null /\ x.hash[1] \in Oversized   \* no unique columns

\* PostgreSQL refuses x: IntegrityError of a unique index, or DataError.
Refused(r, x) ==
  \/ \E y \in Visible(r) : Ledgers!Clash(x, y)
  \/ x.hash # Null /\ x.hash[1] \in Oversized

\* A unique index makes the insertion of x wait for another transaction's end.
Waits(r, x) == \E q \in Replicas \ {r} : \E y \in session[q].wrote : Ledgers!Clash(x, y)

\* The table after the transaction of r is rolled back: an exception leaves
\* process(), or a database error has made PostgreSQL abort it.
Aborted(r) == rows

Become(r, s) == session' = [session EXCEPT ![r] = s]

Unlocked(r, w) == IF locks[w] = r THEN [locks EXCEPT ![w] = Free] ELSE locks

Rollback(r) == rows' = Aborted(r) /\ Become(r, Idle)

Commit(r) == rows' = rows \cup session[r].wrote /\ Become(r, Idle)

-----------------------------------------------------------------------------
(* CheckTransactionsMonitor.                                                 *)

StartPass(r) ==
  /\ session[r].pc = "idle"
  /\ Become(r, [Idle EXCEPT !.pc = "scan", !.todo = Wallets])
  /\ UNCHANGED <<mined, rows, locks, faults>>

\* process() returns and atomic() commits the whole pass.
EndPass(r) ==
  /\ session[r].pc = "scan"
  /\ session[r].todo = {}
  /\ Commit(r)
  /\ UNCHANGED <<mined, locks, faults>>

SkipLocked(r, w) ==
  /\ session[r].pc = "scan"
  /\ w \in session[r].todo
  /\ locks[w] # Free
  /\ Become(r, [session[r] EXCEPT !.todo = @ \ {w}])
  /\ UNCHANGED <<mined, rows, locks, faults>>

SeeUnlocked(r, w) ==
  /\ session[r].pc = "scan"
  /\ w \in session[r].todo
  /\ locks[w] = Free
  /\ Become(r, [session[r] EXCEPT !.pc = "acquire", !.todo = @ \ {w}, !.cur = w])
  /\ UNCHANGED <<mined, rows, locks, faults>>

\* lock(): SET NX, or LockError out of the pass.
Acquire(r) ==
  LET w == session[r].cur IN
  /\ session[r].pc = "acquire"
  /\ IF locks[w] = Free
     THEN /\ locks' = [locks EXCEPT ![w] = r]
          /\ Become(r, [session[r] EXCEPT !.pc = "list"])
          /\ UNCHANGED rows
     ELSE Rollback(r) /\ UNCHANGED locks
  /\ UNCHANGED <<mined, faults>>

\* get_transactions_list
List(r) ==
  LET w == session[r].cur IN
  /\ session[r].pc = "list"
  /\ Loaded(Answer(w))
  /\ Become(r, [session[r] EXCEPT !.pc = "check", !.batch = Answer(w)])
  /\ UNCHANGED <<mined, rows, locks, faults>>

\* A timeout, a bad status, or ValidationError because of a single element:
\* nothing catches it in the pass.
ListRaises(r) ==
  LET w == session[r].cur IN
  /\ session[r].pc = "list"
  /\ ~Loaded(Answer(w)) \/ faults < MaxFaults
  /\ faults' = IF Loaded(Answer(w)) THEN faults + 1 ELSE faults
  /\ Become(r, [session[r] EXCEPT !.pc = "unwind"])
  /\ UNCHANGED <<mined, rows, locks>>

\* is_valid, and if it is: create, with the wallet filled in by a second
\* statement of the same transaction (SaveTrx.save).
Check(r, t) ==
  LET s == session[r] IN
  /\ s.pc = "check"
  /\ s.row = {}
  /\ t \in s.batch
  /\ ~NoAddress(r, t)
  /\ Become(r, [s EXCEPT !.batch = @ \ {t},
                         !.row = IF Valid(r, t, s.cur)
                                 THEN {[hash |-> Lower(t), uuid |-> Null, wallet |-> s.cur]}
                                 ELSE {}])
  /\ UNCHANGED <<mined, rows, locks, faults>>

CheckRaises(r, t) ==
  LET s == session[r] IN
  /\ s.pc = "check"
  /\ s.row = {}
  /\ t \in s.batch
  /\ NoAddress(r, t)
  /\ Become(r, [s EXCEPT !.pc = "unwind"])
  /\ UNCHANGED <<mined, rows, locks, faults>>

\* The INSERT: accepted or refused, once nobody else is in the way.
Store(r) ==
  LET s == session[r] IN
  /\ s.pc = "check"
  /\ \E x \in s.row :
       /\ ~Waits(r, x)
       /\ IF Refused(r, x)
          THEN Become(r, [s EXCEPT !.pc = "unwind", !.row = {}])
          ELSE Become(r, [s EXCEPT !.row = {}, !.wrote = @ \cup {x}])
  /\ UNCHANGED <<mined, rows, locks, faults>>

Checked(r) ==
  /\ session[r].pc = "check"
  /\ session[r].row = {} /\ session[r].batch = {}
  /\ Become(r, [session[r] EXCEPT !.pc = "release"])
  /\ UNCHANGED <<mined, rows, locks, faults>>

\* The wallet's lock is released; its rows are not committed yet.
Release(r) ==
  LET s == session[r] IN
  /\ s.pc = "release"
  /\ IF locks[s.cur] \in {Free, r}
     THEN /\ locks' = Unlocked(r, s.cur)
          /\ Become(r, [s EXCEPT !.pc = "scan", !.cur = NoWallet])
          /\ UNCHANGED rows
     ELSE Rollback(r) /\ UNCHANGED locks
  /\ UNCHANGED <<mined, faults>>

Unwind(r) ==
  /\ session[r].pc = "unwind"
  /\ locks' = Unlocked(r, session[r].cur)
  /\ Rollback(r)
  /\ UNCHANGED <<mined, faults>>

-----------------------------------------------------------------------------
(* The Exchanger's requests.  A request that names no wallet row is answered *)
(* with ERROR before anything is read or written and has no action.          *)

\* AddInputTransaction(uuid u, hash of t, wallet w)
StartAdd(r, t, u, w) ==
  /\ session[r].pc = "idle"
  /\ Become(r, [Idle EXCEPT !.pc = "find",
                            !.row = {[hash |-> Given(t), uuid |-> u, wallet |-> w]}])
  /\ UNCHANGED <<mined, rows, locks, faults>>

\* find_in_base: ValueError, caught by process() and answered with ERROR.
Find(r) ==
  /\ session[r].pc = "find"
  /\ \E x \in session[r].row :
       IF Exists(r, x.hash)
       THEN Commit(r)
       ELSE Become(r, [session[r] EXCEPT !.pc = "create"]) /\ UNCHANGED rows
  /\ UNCHANGED <<mined, locks, faults>>

\* StartMonitoringPlatformWLT(uuid u, or none, wallet w): the hash is not known
\* yet.  Rows that have neither and agree in the rest are one element of rows.
StartExpect(r, u, w) ==
  /\ session[r].pc = "idle"
  /\ Become(r, [Idle EXCEPT !.pc = "create",
                            !.row = {[hash |-> Null, uuid |-> u, wallet |-> w]}])
  /\ UNCHANGED <<mined, rows, locks, faults>>

\* The INSERT; a refusal is caught by process() and answered with
\* ERROR, and the COMMIT of the aborted transaction is a rollback.
Create(r) ==
  LET s == session[r] IN
  /\ s.pc = "create"
  /\ \E x \in s.row :
       /\ ~Waits(r, x)
       /\ IF Refused(r, x)
          THEN Rollback(r)
          ELSE /\ Become(r, [s EXCEPT !.pc = "commit", !.row = {}, !.wrote = {x}])
               /\ UNCHANGED rows
  /\ UNCHANGED <<mined, locks, faults>>

EndRequest(r) ==
  /\ session[r].pc = "commit"
  /\ Commit(r)
  /\ UNCHANGED <<mined, locks, faults>>

-----------------------------------------------------------------------------
Mine(t) ==
  /\ t \notin mined
  /\ mined' = mined \cup {t}
  /\ UNCHANGED <<rows, locks, session, faults>>

\* Sessions that all wait for one another: PostgreSQL aborts one of them.
DeadlockVictim(r) ==
  /\ \E S \in SUBSET Replicas :
       /\ r \in S
       /\ \A q \in S : /\ session[q].pc \in {"check", "create"}
                       /\ \E p \in S \ {q}, x \in session[q].row :
                            \E y \in session[p].wrote : Ledgers!Clash(x, y)
  /\ IF session[r].pc = "check"
     THEN /\ Become(r, [session[r] EXCEPT !.pc = "unwind", !.row = {}])
          /\ UNCHANGED rows
     ELSE Rollback(r)
  /\ UNCHANGED <<mined, locks, faults>>

\* The process dies, or loses Redis or PostgreSQL, in the middle.
Crash(r) ==
  /\ session[r].pc # "idle"
  /\ faults < MaxFaults
  /\ faults' = faults + 1
  /\ Rollback(r)
  /\ locks' = [w \in Wallets |-> IF locks[w] = r THEN Orphan ELSE locks[w]]
  /\ UNCHANGED mined

LockExpires(w) ==
  /\ locks[w] = Orphan
  /\ locks' = [locks EXCEPT ![w] = Free]
  /\ UNCHANGED <<mined, rows, session, faults>>

\* The same under a live holder, when the watchdog's extension failed.
LockLapses(w) ==
  /\ locks[w] \in Replicas
  /\ faults < MaxFaults
  /\ faults' = faults + 1
  /\ locks' = [locks EXCEPT ![w] = Free]
  /\ UNCHANGED <<mined, rows, session>>

PassStep(r) ==
  \/ EndPass(r)
  \/ \E w \in Wallets : SkipLocked(r, w) \/ SeeUnlocked(r, w)
  \/ Acquire(r) \/ List(r) \/ ListRaises(r)
  \/ \E t \in Chain : Check(r, t) \/ CheckRaises(r, t)
  \/ Store(r) \/ Checked(r) \/ Release(r) \/ Unwind(r)
  \/ DeadlockVictim(r)

RequestStep(r) ==
  \/ Find(r) \/ Create(r) \/ EndRequest(r)

Next ==
  \/ \E r \in Replicas :
       \/ StartPass(r) \/ PassStep(r) \/ RequestStep(r) \/ Crash(r)
       \/ \E u \in Uuids, w \in ExchangeWallets, t \in Chain : StartAdd(r, t, u, w)
       \/ \E u \in Uuids \cup {Null}, w \in ExchangeWallets : StartExpect(r, u, w)
  \/ \E t \in Chain : Mine(t)
  \/ \E w \in Wallets : LockExpires(w) \/ LockLapses(w)

Spec == Init /\ [][Next]_vars

-----------------------------------------------------------------------------
(* Any number of replicas.                                                   *)

(* Replicas that insert the same transactions at the same time, in any       *)
(* order, roll back, deadlock or die never enter a hash or a uuid twice and  *)
(* never take back what was committed.                                       *)
KeepsLedger == Ledgers!Spec

\* Committed rows, and those of open transactions.
Written == rows \cup UNION {session[r].wrote : r \in Replicas}

\* Where a pass is at one of its wallets.
AtWallet == {"acquire", "list", "check", "release", "unwind"}

\* A row with a hash and without a uuid is the monitor's: AddInputTransaction
\* takes no request without a uuid, StartMonitoringPlatformWLT does.
FromInput(x) == x.uuid = Null /\ x.hash # Null => x.hash[1] \in Inputs[x.wallet]

(* What the monitor stores for a wallet was sent to that wallet, even when   *)
(* two monitored wallets list the same transaction.                          *)
InputsOnly == \A x \in rows : FromInput(x)

(* What makes these inductive: what is committed and what is still open,     *)
(* taken together, would pass the unique columns, and whatever is inserted   *)
(* for a wallet was sent to it.                                              *)
IntakeInv ==
  /\ TypeOK
  /\ \A r \in Replicas : session[r].pc \in AtWallet => session[r].cur # NoWallet
  /\ Ledgers!Compatible(Written)
  /\ \A x \in Written : FromInput(x)
  /\ \A r \in Replicas : \A x \in session[r].row : FromInput(x)

(* One replica: the look-up of is_valid settles that the INSERT succeeds,    *)
(* unless the value is too large, so that the pass, which is a single        *)
(* database transaction over all wallets, never trips over its own rows or   *)
(* those of the Exchanger.                                                   *)
InsertNeverRefused ==
  \A r \in Replicas : session[r].pc = "check" =>
    \A x \in session[r].row : Refused(r, x) => x.hash[1] \in Oversized

-----------------------------------------------------------------------------
(* Liveness: run_monitoring starts the pass again and again, the event loop  *)
(* runs what can run, an abandoned key expires.  The gateway must come to    *)
(* answer for all wallets in one pass: MaxFaults bounds its failures, because *)
(* each of them rolls back what the pass has stored for every wallet.        *)
Fairness ==
  /\ \A r \in Replicas :
       /\ WF_vars(PassStep(r) \/ RequestStep(r))
       /\ SF_vars(StartPass(r))
  /\ \A w \in Wallets : WF_vars(LockExpires(w))

FairSpec == Spec /\ Fairness

(* Every input of a monitored wallet is stored in the end.                   *)
NoInputLost ==
  \A w \in Wallets : \A t \in Listed[w] \cap Inputs[w] :
    t \in mined ~> \E x \in rows : x.hash \in {Lower(t), Given(t)}
=============================================================================
