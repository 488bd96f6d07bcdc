# Verification of py-wallets

TLA+ specifications of the wallets service, the TLC configurations that check
them on small instances, and TLAPS proofs of what holds for every number of
replicas and transactions.

The service watches wallets for input transactions, hands them to the
Transactions service for confirmation, takes the confirmation back and reports
those of platform wallets to the Exchanger. It is an asyncio gRPC server with
background passes in the same event loop; its state is in PostgreSQL, its
mutual exclusion in Redis, and it is deployed as two replicas
(`deployment-dev.yaml:53`).

## 1. Inventory

| Component | State | Operations | Interacts with |
|---|---|---|---|
| Sending passes (`monitoring/common.py:346-430`) | `transaction` rows, the copies read by `get_data`, Redis keys | `process`, `_execute`, `set_status` | Transactions and Exchanger services, locks, the synchronous connection of `save()` |
| UpdateTrx callback (`method_classes.py:211-240`) | `transaction` rows | query by hash, update, commit | Transactions service; races with the sending passes |
| Input monitor (`common.py:262-301`) | `transaction` rows, wallet locks | list, `is_valid`, `save`, one commit per pass | blockchain gateway |
| Exchanger requests (`method_classes.py:287-352`) | `transaction` rows | `find_in_base`, create | race with the input monitor |
| Wallet registry (`method_classes.py:95-208`, `scripts/p_wallets.py`) | `wallet` rows | StartMonitoring, StopMonitoring, seeding | decides what the monitor looks at |
| `ServerMethod.process`, request objects (`request_objects.py`) | none | parse, validate, execute, turn exceptions into ERROR | every handler; its `try` is inside `atomic()` |
| Healthz, CheckBalance, GetInputTransactions | none | answered; CheckBalance waits for the blockchain gateway with the connection in its hands | gateway object |
| Messages and schemas (`rpc/*_pb2.py`, `serializers.py`) | none | constructors, `MessageToDict`, `load` | every call in and out |
| Gateways (`gateway/base.py` and the four gateways) | shared channel, `ALLOWED_STATUTES`, `BAD_RESPONSE_MSG` | `_base_request`, `handle_response` | all passes, CheckBalance |
| Locks (aioredlock) | Redis keys with a TTL of 120 s | `is_locked`, `lock`, `unlock`, watchdog | all passes of all replicas |
| Database sessions (`utils/__init__.py:75`, `MyManager`) | one asynchronous connection per replica, one synchronous one | `atomic`, `get_all`, `exists` | everything |
| Task loop (`tasks/__init__.py`, `server.py`) | the scheduled tasks | endless restart, shutdown | all passes |
| Balance monitor (`common.py:91-137`, `211-259`) | none | compare, mail | two gateways, mail; not scheduled |
| `CheckPlatformWalletsMonitor` | `transaction` rows | gives announced transactions their hash | not scheduled (`common.py:437`) |
| gRPC stubs, REST proxy, settings, logging, migrations | | | not modelled |

Where the behaviour is hard:

* Two replicas share the table and Redis. `set_status` saves every column of
  an object that was read at the start of the pass, on another connection than
  the one the pass reads with, while UpdateTrx updates the same rows.
* `is_locked` and `lock` are two steps; a lock outlives a crashed holder and may
  expire under a living one.
* A call may have been carried out although it raised; one gateway retries, the
  other cannot (`@retry` around a coroutine function).
* An exception that is not `EXC_CLASS` ends a whole pass. The input monitor is
  one database transaction over all wallets, so it loses what it stored.
* `process` of the handlers catches exceptions inside `atomic()`: an interrupted
  handler commits what it has done so far, unless PostgreSQL aborted it.
* exists-then-create is protected by unique columns for transactions and by
  nothing for wallets.
* All passes and handlers of a replica wait for one connection and share one
  gateway object, whose error text and channel each request sets and closes.
* A message shows only the fields that are not at their default, and what reads
  one that is not there raises, in places where nothing catches it.

What makes the components correct: a status never claims what did not happen,
and nothing confirmed is lost; the Exchanger hears of exactly the confirmed
platform transactions; one sender at a time; every transaction gets there in
the end; a hash or uuid has one row; only inputs are stored, and all of them;
no second row for a wallet that is there, and a stopped wallet is not watched; a caller gets
an answer, and the answer is true; who is low is reported.

`PROJECT.json` lists every hazard at its line, with the properties that cover it.

## 2. Modules

| Module | Models | EXTENDS / INSTANCE |
|---|---|---|
| `TrxTable` | status values and rows | |
| `Lifecycle` | abstract: what may happen to the status of a transaction | `TrxTable` |
| `Wire` | the messages as the generated descriptors declare them; what constructors take, what schemas load | |
| `Delivery` | sending passes, UpdateTrx, locks, sessions, failures | `TrxTable`; `Wire`; `Lifecycle` as the abstraction |
| `Ledger` | abstract: a table with unique columns from which nothing disappears | |
| `Intake` | input monitor, AddInputTransaction, StartMonitoringPlatformWallet | `Wire`; `Ledger` as the abstraction |
| `System` | one replica's table and connection under both | `Intake` and `Delivery`; `Delivery` also as the abstraction |
| `Registry` | StartMonitoring, StopMonitoring | |
| `Requests` | which messages are accepted, refused, or make `process` raise | `Wire` |
| `Service` | all eight methods from message to answer, the queue for the connection, the gateway object, the passes | `Registry`, `Requests` |
| `Balance` | the pass of CheckWalletMonitor | `Wire` |
| `DeliveryProofs`, `IntakeProofs`, `RegistryProofs`, `ServiceProofs`, `BalanceProofs` | proofs | the module each is about, `TLAPS` |
| `OneReplicaProofs` | proofs about `Delivery` on one replica | `DeliveryProofs` |
| `AnswerProofs` | proofs about what `Service` answers | `ServiceProofs` |
| `SystemProofs` | proofs about the composition | `System`; `OneReplicaProofs` and `IntakeProofs` as instances |
| `MCDelivery`, `MCIntake`, `MCSystem`, `MCRegistry`, `MCService`, `MCBalance` | constants of the instances | the module each instantiates |

### Delivery

`table` are the committed rows, `locks` the Redis keys by transaction,
`received` what the two services have taken in. `job[r]` is the pass or handler
that replica `r` runs: a replica has one asynchronous database connection, and
`process()` holds it from `BEGIN` to `COMMIT`, so it runs one at a time. Between
any two steps of a job, other replicas, Redis and crashes may act.

| Code | Actions |
|---|---|
| `run_monitoring`, `process`, `get_data` | `StartPass`, `EndPass` |
| `if not await is_locked(key)` | `SkipLocked`, `SeeUnlocked` |
| `async with await lock(key)` | `Acquire`, `AcquireFails` |
| `await cls.func([trx])`, `_base_request`, `handle_response` | `CannotEncode`, `CallAccepted`, `CallRejected`, `CallRaises` |
| `set_status`: `trx.save()` | `Save` |
| end of the `async with`, normally or by an exception | `Release`, `Unwind` |
| `UpdateTrxMethod._execute` inside `process` | `StartUpdate`, `UpdateRead`, `UpdateWrite`, `UpdateCommit`, `UpdateFails` |
| PostgreSQL | `RowLockFree` (guards), `DeadlockVictim` |
| other writers, failures, Redis | `Insert`, `Crash`, `LockExpires`, `LockLapses` |

`Save` replaces the row by the copy `job[r].copy[t]` with a new status, because
peewee's `save()` writes all columns. `UpdateWrite` only notes the row in
`job[r].wrote`; `UpdateCommit` makes it visible. A handler updates by primary
key after its query, so it overrides whatever was written in between.

`UuidText` is the set of transactions whose uuid reaches the protobuf message as a
string. With the pinned libraries it is empty (`peewee.UUIDField` returns
`uuid.UUID`); the runs other than `DeliveryUuid` give it a value so that what
lies behind that error can be checked as well.

### Intake

`rows` are committed rows, `session[r].wrote` the rows a replica has inserted in
its open transaction. An insertion first passes the look-up (`Valid`, `Find`),
then waits for other sessions with a clashing uncommitted row (`Waits`), and then
is refused by a committed one (`Refused`) or accepted. The monitor's pass commits at
`EndPass` only, although it releases each wallet's lock at `Release`. A hash is
a transaction together with its spelling: the monitor lower-cases it, the
Exchanger's request keeps what it was given (`MixedCase`).

A list is loaded (`Loaded`) only if `TransactionSchema` takes every element of it;
`Shown[t]` are the fields that the element of `t` shows. An element without an
address raises in `is_valid` (`CheckRaises`), a value that is too large for its
column (`Oversized`) makes PostgreSQL refuse the row.

StartMonitoringPlatformWallet does not demand a uuid (`request_objects.py:261-268`): a
request without one is stored with neither uuid nor hash (`StartExpect` with `Null`), where no
unique column compares it with anything. `FromInput` tells the rows apart accordingly: one
with a hash and no uuid is the monitor's.

### System

`rows` is what `Intake` sees of the table, `table` what `Delivery` sees of it: two
columns of one table, kept together by `Entered`, which gives a row of Intake's the
default status. That both are of the same rows (`OneTable` in `SystemProofs`) holds by this
construction: it is part of the inductive invariant and no result.

`Named(t)` are the wallets the Exchanger may name for a transaction: one of the platform, or
the monitored one that receives it, since `get_exchanger_wallet` does not look at
`is_platform`. In the second case the monitor and the Exchanger enter the same hash, and the
later of the two must find the row of the earlier (`InsertNeverRefused`). `Expected` are the
announcements without a hash. `Mine(r)` is the one connection: a pass or handler starts only if
the replica has none at work. Every step is one of `Intake` or one of `Delivery`, and
`ImplementsDelivery` says that to `Delivery` the former are no more than its `Insert`.

### Registry

`ext` gives every primary key its external id, `on` the rows on monitoring,
`stopped` the ids for which StopMonitoring has found a wallet and answered
SUCCESS. `manager.get` has no ORDER BY: `Get` takes any matching row. `Seeds` are the rows
of `scripts/p_wallets.py`, which gives the ether wallet and those of the tokens one external
id: nothing is assumed of them. `Shared(id)` says that the script has done so with an id.
`OneWalletPerId` is what SaveWallet answers for, that it adds no row to those of an id;
`StoppedIsOff` is about the other wallets, and `StopStopsWallet` about all.

### Requests and Service

A message is the set of its fields that are not at their default, and those of the
messages in it. `Requests` says of each what `from_message`, `is_valid` and `dict()`
make of it: `Escapes` (the handler itself raises), `Refused` (ERROR) or `Accepted`.

`Service` follows a call (`pc[c]`) from `Open` over the queue (`Connect`), `Escape`,
`Refuse` or `Accept` and its handler to `End`. `holder` are the tasks with a
connection, `text` is `BAD_RESPONSE_MSG`, `cut` are the tasks whose stream another one
has closed. Calls are sessions of `Registry`, so that `SaveWallet` and `StopWallet` are
its actions, statement by statement; the rows of the Exchanger's transactions are
reduced to `trx` and written in one step, because `Intake` and `Delivery` take those
handlers apart. Exceptions are `StatementFails` and `Cancel` (the caller went away, what was
done is committed). `process()` catches them inside `atomic()`: when PostgreSQL has aborted
the transaction the COMMIT is a rollback, but an exception of the driver or of Python in
the loop of UpdateTrx leaves the updates made so far to be committed, and the caller is
told ERROR (`AfterError`).
INVALID_REQUEST is never answered: its description is an exception object, which
protobuf does not take. CheckBalance is never answered SUCCESS, because
`GetBalanceResponseSchema` does not know the status that every answer shows, and
GetInputTransactions never, because it names a status that does not exist.

### Balance

Amounts are whole numbers: `rate * value` counts tenths of a thousandth of a dollar, so
that `Rounded` is `quantize(Decimal('0.001'), ROUND_HALF_UP)`. A key that is missing, or
a number whose text is empty, is `None`. Rates that could not be had are an empty
dictionary, where the source has `None`: `if not rates` takes both alike. The mail is the
step `SendMail`; that its text is always empty (`send_message('', msg)`, `common.py:137`)
is in the list of hazards, and no property is about the text.

## 3. Runs

| Run | Instance | Checks | Shows |
|---|---|---|---|
| `DeliveryTwoReplicas` | 2 replicas, 2 platform transactions (one with a uuid that cannot be encoded), 2 attempts, 2 faults, 1 lapse; replicas symmetric | `TypeOK`, `DeliveryInv`, `RowConsistent`, `MarkedWasDelivered`, `OneSender` | what no interleaving of two replicas can break |
| `DeliveryOneReplica` | 1 replica, 3 transactions (1 platform, 1 always rejected), 2 attempts, 1 fault, 1 lapse, fairness | `FreshWhenCalled`, `ConfirmationKept`, `ExchangerAfterMonitoring`, `ImplementsLifecycle`, `EverySent`, `EveryReported` | a single replica implements the lifecycle and gets there in spite of rejection, crash and lapse |
| `DeliveryLostConfirmation` | 2 replicas, 1 transaction, no faults | `ConfirmationKept`, violated | the stale save overwrites a confirmation |
| `DeliveryUuid` | 1 replica, uuids as the library returns them | `EveryReported`, violated | reporting to the Exchanger never succeeds |
| `IntakeTwoReplicas` | 2 replicas, 2 wallets that each list the other's transactions, 3 transactions (1 without an address and too large, 1 with two spellings), 1 uuid, 1 fault; replicas symmetric | `TypeOK`, `InputsOnly`, `IntakeInv`, `KeepsLedger` | the table implements `Ledger` |
| `IntakeStarvation` | 1 replica, 2 wallets, 1 outgoing payment, no faults | `NoInputLost`, violated | one element of one list keeps the inputs of all wallets out |
| `SystemLive` | 1 replica, 1 monitored and 1 platform wallet, 2 transactions (both announced by the Exchanger, 1 also listed for the monitored wallet), 1 uuid, an announcement without uuid, 1 fault in each half, fairness | `InsertNeverRefused`, `ImplementsDelivery`, `InputsAreTold`, `AnnouncedAreReported` | from the chain to the Transactions service, and from the Exchanger back to it |
| `RegistryTwoReplicas` | 2 sessions, 3 ids, 5 rows, 3 of them seeded, 2 with one id | `OneWalletPerId`, violated | two replicas create a wallet twice |
| `RegistryStop` | 1 session, the same seeds, 4 rows | `StopStopsWallet`, violated | of two rows with one id, one stays on monitoring after SUCCESS |
| `ServiceOneReplica` | 2 calls and the pass, 2 ids (1 seeded, with two rows), 4 rows, 2 transactions, 32 messages: complete ones of every method, and those without a field the code tells apart | `ServiceTypeOK`, `ServiceInv`, `OneWalletPerId`, `StoppedIsOff`, `SuccessMeansDone`, `OwnErrorText`, `NoStreamCut`, `OnlyMonitoredAsked`, `OnlyUpdatesOutliveErrors`, `NothingLeftUndone`, `EveryCallEnds` | the answers are true, and every call ends |
| `ServiceNoAnswer` | 1 call | `ProcessReturns`, violated | `process()` raises in its except branch |
| `BalanceMail` | 2 currencies with minima of 1 and 2 thousandths and 1 without, balances 0 to 4, rates 0, 5, 7, answers of up to 2 wallets | `NoLowMissed`, `NoFalseAlarm` | who is reported |

The runs that expect a violation each have an entry under `findings` in
`PROJECT.json`, which quotes the line that says otherwise.

Bounds. `MaxFaults` (`MaxCrashes` for the half of `Delivery` in `System`) bounds crashes,
interrupted handlers and, in `Intake`, lapsing
locks and passing failures of the gateway; `MaxLapses` bounds lapsing locks in
`Delivery`. Every race here is between two replicas, or a replica and a crashed
predecessor, over one row; the second transaction is there for the loop
(the copy of a later element grows stale while an earlier one is sent) and for
deadlocks, which need two rows. Two faults allow a crash in the recovery from a
crash. A call of `Service` is made once: what a third could add to two is a queue
behind a queue. The rows of `Registry` are enough for two of one id beside the others.
The numbers of `Balance` put `rate * value` below, at and above each minimum, and on
both sides of the point where it is rounded to the next thousandth. Nothing
else is bounded: passes, callbacks,
rejections and lost answers may happen any number of times. Deadlock is checked in
all runs. The proofs need none of these bounds.

Fairness. Properties of progress are stated under `FairSpec` and `FairService`.

* Weak fairness of the steps of a pass or handler: the event loop runs
  what can run, and every await ends (the gateways have timeouts).
* Strong fairness of `StartPass` and of `Connect`: `run_monitoring` restarts each pass
  for ever (`tasks/__init__.py:17-30`), and a released connection goes to a waiter
  unless a newcomer was faster, which takes a newcomer each time, so that each pass
  and each call gets its turn although others keep the connection busy in between.
* Strong fairness of `CallAccepted` for a transaction that is asked about again and
  again, and of the callback for a transaction the Transactions service has: the
  services' part of the contract (`common.py:393`, "Where they will monitor and
  also are sent back"). Transactions that are always rejected, or for which the call always
  raises, are outside `EverySent`, `EveryReported`, `InputsAreTold` and `AnnouncedAreReported`.
* Weak fairness of `LockExpires`: Redis expires keys.
* Nothing is assumed of crashes and lapses, which `MaxFaults` bounds. In
  `Intake` it bounds passing failures of the gateway too: each rolls back the
  pass for all wallets, so the gateway must come to answer for all wallets in one
  pass.

Progress is checked on one replica. On two, a confirmation can be lost
(`DeliveryLostConfirmation`), and it only comes back with the next callback.

Every property of a passing run has a mutant in `PROJECT.json`: a wrong version of
one mapped definition (`Faulty...`, defined next to it) which makes TLC find the
property violated.

## 4. Proofs

All theorems hold for every value of the constants that meets the assumptions named in
the modules (`PlatformAssumption`, `LockAssumption` and the like: sets that must be
disjoint are, bounds are natural numbers, a message of the Exchanger names at most one
transaction). TLC evaluates those on every run.

### Any number of replicas

| Theorem | Property |
|---|---|
| `DeliveryProofs!Invariance` | `DeliveryInv`, the inductive invariant |
| `TypeCorrect`, `RowsConsistent`, `MarkedDelivered`, `ExchangerMonitored`, `MutualExclusion` | `TypeOK`, `RowConsistent`, `MarkedWasDelivered`, `ExchangerAfterMonitoring`, `OneSender` |
| `IntakeProofs!IntakeCorrect` | `IntakeInv` |
| `IntakeTyped`, `StoredWasSent`, `ImplementsLedger` | `TypeOK`, `InputsOnly`, `KeepsLedger` |
| `RegistryProofs!RegistryTyped` | `TypeOK` |
| `DeliveryProofs!OnlyStoredSent` | no service hears of a transaction without a committed row |
| `SystemProofs!SystemCorrect` | `SystemInv`, the inductive invariant of the composition |
| `DeliveryImplemented` | `ImplementsDelivery` |
| `IntakeImplemented`, `SystemLedger` | the composition behaves as `Intake` does, and so keeps `Ledger` |
| `SentAreStored` | no service hears of a hash before `Intake` has committed a row with it |
| `BalanceProofs!BalanceCorrect` | `BalanceInv`, for all minima, balances and rates |
| `BalanceTyped`, `LowAreReported`, `ReportedAreLow` | `TypeOK`, `NoLowMissed`, `NoFalseAlarm` |

**Delivery.** None of the properties is inductive alone. `Save` writes a copy that may be
arbitrarily old, so that whether the result is consistent and backed by a
delivery depends on what a job knows of its transactions. `WellFormed` says
it: the copy of every transaction a pass still has before it is a row whose turn it was
(`NEW` without, `CONFIRMED` with a confirmation time), at `save` the service has
received the transaction, and a handler only writes transactions that the
Transactions service has received. These facts are about the job and about
`received`, which only grows; none is about the current table, and that is why they survive
what other replicas do. `HolderHasLock` strengthens `OneSender`: between
`lock()` and `unlock()` the key carries the holder's token unless a lock has lapsed.
The proof has one lemma per part of the state (`ReceivedStep`, `JobStep`,
`RowStep`, `ExchangerStep`, `LockStep`, `CountersStep`), each with a step per
action that can disturb it, and lemmas about single rows and jobs (`StartedJob`,
`SavedRowOK`, `CommittedOK`) that carry the argument.

**Intake.** That the committed rows have no two with one hash or uuid is not inductive: a
commit adds rows that were compared with the others long before. `Inserted` therefore
speaks of the rows that all open transactions would add together with the committed ones:
they are compatible, because an insertion waits for every session with a clashing row
(`Waits`) and is refused by a committed one. A commit (or the commit of half of it, when a
handler is cancelled) is then a step of `Ledger`, and a rollback none. `Typed` says where
the rows at hand come from, which makes `InputsOnly` inductive.

**System.** `SystemProofs` proves nothing about passes and handlers again: it instantiates
the two proof modules with the variables of `System` and shows that each step of `System`
is one of theirs (`ToDelivery`, `ToIntake`). That a step of `Delivery` is none of `Intake` is
plain. The other way, a step of `Intake` that commits nothing must leave
`table` alone, which takes `OneTable` and `RowConsistent` (an absent row is `NoRow`), and one
that commits must be an `Insert` of a replica with no job, which takes `OneConnection`: a
replica is not in the middle of both. `OneTable` is preserved because `Intake` only adds
rows (`InsertStep`) and no job removes a row or makes one: what it saves or commits exists,
since it was selected, or comes from a service that only hears of rows (`Backed`, `Rewritten`).
`SystemInv` is the conjunction of all these. TLC finds it to hold as well (outside the runs, which
do not reach the proof modules) on the instance of `SystemLive`. `SameDelivery` and `SameIntake` say that the definitions of the
instances of `System` and those of the instances of the proofs, which have the same
substitutions, are the same formulas.

### One replica

`OneReplicaProofs`, `OneReplicaInserts` of `IntakeProofs` and `OneSession` of
`RegistryProofs` assume that all elements of `Replicas` (`Sessions`) are equal; on two, the
runs that expect a violation, or the hazard list, show what is lost.

| Theorem | Property |
|---|---|
| `OneReplicaProofs!FreshOnOneReplica`, `KeptOnOneReplica` | `FreshWhenCalled`, `ConfirmationKept` |
| `OneReplicaProofs!OneReplicaImplements` | `ImplementsLifecycle` |
| `IntakeProofs!OneReplicaInserts` | `InsertNeverRefused` of `Intake` |
| `SystemProofs!SystemInserts`, `SystemKeeps`, `SystemLifecycle` | `InsertNeverRefused`, `ConfirmationKept`, `ImplementsLifecycle` of the composition |
| `RegistryProofs!RegistryCorrect` | `OneWalletPerId` and `StoppedIsOff`, as long as one session at a time is at work (`Alone`) |
| `RegistryProofs!OneSession` | the same of a registry with one session |
| `ServiceProofs!ServiceCorrect`, `ServiceTyped` | `ServiceInv`, `ServiceTypeOK` |
| `ServiceImplementsRegistry` | every behaviour of `Service` is one of `Registry` |
| `ServiceWallets`, `StoppedForGood` | `OneWalletPerId`, `StoppedIsOff` |
| `ServiceGateway`, `StreamsNotCut`, `ServiceAsksMonitored` | `OwnErrorText`, `NoStreamCut`, `OnlyMonitoredAsked` |
| `AnswerProofs!AnswersCorrect` | `AnswerInv`, the inductive invariant of the answers |
| `LoopsCorrect` | `LoopInv`, the inductive invariant of the loop of UpdateTrx |
| `AnswersTrue`, `AnswersComplete`, `ErrorsLeaveUpdates` | `SuccessMeansDone`, `NothingLeftUndone`, `OnlyUpdatesOutliveErrors` |
| `NeverAnswered` | CheckBalance and GetInputTransactions are never answered SUCCESS |

`OneReplicaInv` adds to `DeliveryInv` what it cannot say of several replicas: what the job
has read is still what the table says (`UpToDate`). It holds because the connection is
in use from the query to the end of the job, and `Insert` only touches rows that did not
exist. From it a `Save` is a `Mark`, a commit a `Confirm`, and the other steps of the table and
of `received` a `Register` or a `Deliver` of `Lifecycle`.

`ServiceInv` rests on the connection as well: the task that holds it is the only one
past waiting, so that what it has found (`exists`, `get`) stays so until it writes, the
error text in the gateway object is its own, and no other can close its stream. It
implies `Alone`, which makes the theorems of `RegistryProofs` apply. Nothing is assumed of
the rows the script has made.

**Answers.** A SUCCESS speaks of tables that other calls write afterwards, so the first half of
the argument is that nothing an answer can be about is taken back (`Grows`, `TablesGrow`): a
wallet keeps its id, an entered transaction is entered or confirmed. The second
half, `AnswerInv`, says at the moment of answering that it is true: the session of a call is about the
wallet of its message, and what a call has updated was entered before. That StartMonitoring's
SUCCESS is true although it writes nothing when the wallet exists takes `ServiceInv` again.
`NothingLeftUndone` is the other direction and about the moment of answering: UpdateTrx has
come to all transactions of its message by then, and those it has passed by are still not
in the table, because nobody else has written since (`LoopInv`, `LoopKept`).
`OnlyUpdatesOutliveErrors` is an action property: the tables change at the end of a call, and
an ending with ERROR comes before anything is written, with the rollback of it, or
with the commit of what the loop has updated so far, which `LoopInv` says is of the batch
and was entered.

### Only model-checked

* All liveness: `EverySent`, `EveryReported`, `InputsAreTold`, `AnnouncedAreReported`,
  `EveryCallEnds` (TLAPS does not prove liveness under fairness).
* What `Wire` and `Requests` say of messages is evaluated by TLC for the messages of the
  instance. The proofs about `Service` hold whatever `Requests` makes of a message; of the
  schemas they use that GetBalanceResponseSchema does not load (`NoBalance`).
* The runs that expect a violation: that there is a counterexample is TLC's to show.

## 5. Not modelled, and why

* `CheckPlatformWalletsMonitor` is commented out of the tasks (`common.py:437`), and with it
  `get_exchanger_wallet_trx_list`. `CheckWalletMonitor` is not scheduled either, but
  is complete, and is modelled as it would run.
* `watch_config`, which nothing schedules, and the order in which shutdown cancels tasks:
  to the tables a shutdown is a `Crash` or a `Cancel` of each.
* The status in the messages of UpdateTrx: the handler ignores it. The amount
  it re-assigns is the row's own.
* gRPC stubs and the REST proxy (generated routing without state), settings, logging,
  templates, migrations.
* Two wallets with one address: no instance has them, although nothing forbids them.
* Messages of the remote services' methods that nothing here calls.

## 6. What is left

* `System` with two monitored wallets, which takes TLC longer than a run should: the starvation of one
  wallet by another is shown by `Intake` alone.
* `CheckPlatformWalletsMonitor`, once it is scheduled: `Intake` has the rows without
  a hash that it would look for.
