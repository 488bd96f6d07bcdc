------------------------------ MODULE Delivery ------------------------------
(***************************************************************************)
(* How a transaction with a hash leaves the wallets service and comes back  *)
(* confirmed: SendToTransactionService and SendToExchangerService           *)
(* (wallets/monitoring/common.py), the UpdateTrx callback                   *)
(* (wallets/gateway/method_classes.py), the aioredlock locks they take, and *)
(* the database sessions they run in, on any number of replicas.            *)
(*                                                                          *)
(* Every process() runs inside objects.atomic(), and a replica has one      *)
(* asynchronous database connection, so a replica runs one pass or handler  *)
(* at a time: job[r].  The sending passes only read in that transaction;    *)
(* their trx.save() is a synchronous call that goes through the other       *)
(* connection and commits at once.  The handler's updates become visible    *)
(* when its transaction commits: job[r].wrote.                              *)
(***************************************************************************)
EXTENDS TrxTable, Naturals, FiniteSets

CONSTANTS
  Replicas,    \* processes of the service
  Trx,         \* transactions that will get a row with a hash
  Platform,    \* those of platform wallets that carry an exchanger uuid
  Free,        \* lock value: no such key in Redis
  Orphan,      \* lock value: key of a process that will not unlock it
  NoTrx,       \* no transaction at hand
  Attempts,    \* REMOTE_OPERATION_ATTEMPT_NUMBER
  UuidText,    \* those whose uuid, if they have one, reaches protobuf as a string
  Rejected,    \* transactions whose delivery is always answered with an error
  MaxFaults,   \* bound on crashes and interrupted handlers
  MaxLapses    \* bound on locks that expire under a live holder

ASSUME PlatformAssumption == Platform \subseteq Trx
ASSUME LockAssumption == Free # Orphan /\ Free \notin Replicas /\ Orphan \notin Replicas
ASSUME NoTrxAssumption == NoTrx \notin Trx
ASSUME AttemptsAssumption == Attempts \in Nat \ {0}
ASSUME BoundAssumption == MaxFaults \in Nat /\ MaxLapses \in Nat

VARIABLES
  table,     \* committed rows
  locks,     \* Redis: who holds the key of each transaction
  job,       \* what each replica is doing
  received,  \* for each remote service, the transactions it has taken in
  answered,  \* transactions whose confirmation UpdateTrx has committed and answered
  faults, lapses   \* how often a bounded failure has happened

vars == <<table, locks, job, received, answered, faults, lapses>>

Wire == INSTANCE Wire

Job == [kind  : Services \cup {"none", "update"},
        pc    : {"idle", "scan", "acquire", "call", "save", "release",
                 "unwind", "read", "write"},
        todo  : SUBSET Trx,        \* left of the for loop
        cur   : Trx \cup {NoTrx},  \* the loop variable
        copy  : [Trx -> Row],      \* the objects read by get_data
        tries : Nat,               \* attempts made in this call
        wrote : SUBSET Trx]        \* updated in the open database transaction

Idle == [kind |-> "none", pc |-> "idle", todo |-> {}, cur |-> NoTrx,
         copy |-> [t \in Trx |-> NoRow], tries |-> 0, wrote |-> {}]

TypeOK ==
  /\ table \in [Trx -> Row]
  /\ locks \in [Trx -> Replicas \cup {Free, Orphan}]
  /\ job \in [Replicas -> Job]
  /\ received \in [Services -> SUBSET Trx]
  /\ answered \in SUBSET Trx
  /\ faults \in Nat
  /\ lapses \in Nat

Init ==
  /\ table = [t \in Trx |-> NoRow]
  /\ locks = [t \in Trx |-> Free]
  /\ job = [r \in Replicas |-> Idle]
  /\ received = [svc \in Services |-> {}]
  /\ answered = {}
  /\ faults = 0
  /\ lapses = 0

-----------------------------------------------------------------------------
(* The decisions of the code, one operator each.  An operator called         *)
(* Faulty... is a wrong version of the one after it, which the checks        *)
(* substitute to see that a property notices.                                *)

FaultySelected(rows, svc) ==      \* the status condition of get_data is lost
  {t \in Trx : /\ rows[t].status # Absent
               /\ svc = "exchanger" => t \in Platform}

FaultySelectedAll(rows, svc) ==   \* the join with Wallet is lost
  {t \in Trx : rows[t].status = Source(svc)}

\* get_data: the rows a pass will work through.
Selected(rows, svc) ==
  {t \in Trx : /\ rows[t].status = Source(svc)
               /\ svc = "exchanger" => t \in Platform}

FaultyRemaining(todo, t) == todo   \* handled transactions come up again

\* What is left of the for loop when t is taken from it.
Remaining(todo, t) == todo \ {t}

\* Lock.lock(): SET NX succeeds if the key does not exist.
Grantable(t) == locks[t] = Free

FaultyLocked(r, t) == locks       \* is_locked is asked, and lock forgotten

\* async with await lock_manager.lock(key): the key with the caller's token.
Locked(r, t) == [locks EXCEPT ![t] = r]

\* Lock.unlock(): the key must be gone or carry the caller's token.
Unlockable(r, t) == locks[t] \in {Free, r}

Unlocked(r, t) ==
  IF locks[t] = r THEN [locks EXCEPT ![t] = Free] ELSE locks

\* retrying's decorator retries the synchronous exchanger call; around the
\* coroutine function of the asynchronous gateway it only sees the coroutine
\* being created, so that call is made once.
AttemptsOf(svc) == IF svc = "transactions" THEN 1 ELSE Attempts

MoreAttempts(j) == j.tries + 1 < AttemptsOf(j.kind)

FaultyAfterRejection == "save"        \* the bad answer is not raised
FaultyAfterRejectionAbort == "unwind" \* EXC_CLASS is not caught

\* handle_response raises EXC_CLASS, which _execute catches to go on with the
\* next transaction; leaving the async with releases the lock.
AfterRejection == "release"

FaultySavedRow(copy, current, svc) ==   \* save(only=[status])
  [current EXCEPT !.status = Target(svc)]

\* set_status: trx.save() writes every column of the copy read by get_data,
\* whatever the row has become since.
SavedRow(copy, current, svc) == [copy EXCEPT !.status = Target(svc)]

FaultyUpdatable(row) == TRUE     \* REPORTED rows are taken as well

\* UpdateTrx's query.
Updatable(row) == row.status \notin {Absent, Reported}

FaultyUpdatedRow(row) == [row EXCEPT !.confirmed = TRUE]   \* status not assigned

\* UpdateTrx's assignments.
UpdatedRow(row) == [row EXCEPT !.status = Confirmed, !.confirmed = TRUE]

\* The table once r's open database transaction is committed.
Committed(r) ==
  [t \in Trx |-> IF t \in job[r].wrote THEN UpdatedRow(table[t]) ELSE table[t]]

\* Another session's uncommitted update blocks any write to the row.
RowLockFree(r, t) == \A q \in Replicas \ {r} : t \notin job[q].wrote

Goto(r, pc) == job' = [job EXCEPT ![r].pc = pc]

\* The pass or handler is over; the connection goes to the next in the queue.
Finish(r) == job' = [job EXCEPT ![r] = Idle]

-----------------------------------------------------------------------------
(* A sending pass: BaseMonitorClass.process and                              *)
(* SendTrxToExternalService._execute.                                        *)

StartPass(r, svc) ==
  /\ job[r].pc = "idle"
  /\ job' = [job EXCEPT ![r] =
       [Idle EXCEPT !.kind = svc,
                    !.pc   = "scan",
                    !.todo = Selected(table, svc),
                    !.copy = [t \in Trx |-> IF t \in Selected(table, svc)
                                            THEN table[t] ELSE NoRow]]]
  /\ UNCHANGED <<table, locks, received, answered, faults, lapses>>

EndPass(r) ==
  /\ job[r].pc = "scan"
  /\ job[r].todo = {}
  /\ Finish(r)
  /\ UNCHANGED <<table, locks, received, answered, faults, lapses>>

\* is_locked is true: the transaction is left to the next pass.
SkipLocked(r, t) ==
  /\ job[r].pc = "scan"
  /\ t \in job[r].todo
  /\ locks[t] # Free
  /\ job' = [job EXCEPT ![r].todo = Remaining(@, t)]
  /\ UNCHANGED <<table, locks, received, answered, faults, lapses>>

\* is_locked is false; lock() is another request to Redis.
SeeUnlocked(r, t) ==
  /\ job[r].pc = "scan"
  /\ t \in job[r].todo
  /\ locks[t] = Free
  /\ job' = [job EXCEPT ![r].todo = Remaining(@, t), ![r].cur = t, ![r].pc = "acquire"]
  /\ UNCHANGED <<table, locks, received, answered, faults, lapses>>

Acquire(r) ==
  LET t == job[r].cur IN
  /\ job[r].pc = "acquire"
  /\ Grantable(t)
  /\ locks' = Locked(r, t)
  /\ job' = [job EXCEPT ![r].pc = "call", ![r].tries = 0]
  /\ UNCHANGED <<table, received, answered, faults, lapses>>

\* Someone else took the lock first: LockError leaves _execute and the pass.
AcquireFails(r) ==
  /\ job[r].pc = "acquire"
  /\ ~Grantable(job[r].cur)
  /\ Finish(r)
  /\ UNCHANGED <<table, locks, received, answered, faults, lapses>>

\* The method a service is called by.
Method(svc) ==
  IF svc = "exchanger" THEN Wire!ExchangerMethods.UpdateInputTransaction
                       ELSE Wire!TransactionsMethods.StartMonitoring

\* What the gateway hands to the constructor of the message of one
\* transaction: peewee's UUIDField returns a uuid.UUID.  UuidText is empty
\* with the pinned libraries; another UUIDField would fill it.
Pushed(svc, t) ==
  IF svc = "exchanger"
  THEN [uuid |-> IF t \in UuidText THEN "str" ELSE "UUID", value |-> "str", trx_hash |-> "str"]
  ELSE [from |-> "str", to |-> "str", currencySlug |-> "str", wallet_id |-> "int",
        value |-> "str", hash |-> "str"]

\* A field of a wrong type raises TypeError before anything is sent.
Encodable(svc, t) ==
  /\ "transactions" \in DOMAIN Method(svc).takes
  /\ Wire!Encodes(IF svc = "exchanger" THEN Wire!TransactionData ELSE Wire!TransactionsTransaction,
                  Pushed(svc, t))

\* response_attr: where handle_response looks for the status of the answer.
Readable(svc) == "header" \in DOMAIN Method(svc).returns

CannotEncode(r) ==
  /\ job[r].pc = "call"
  /\ ~Encodable(job[r].kind, job[r].cur)
  /\ Goto(r, "unwind")
  /\ UNCHANGED <<table, locks, received, answered, faults, lapses>>

\* An attempt reaches the service and is answered with SUCCESS.
CallAccepted(r) ==
  LET t == job[r].cur IN
  /\ job[r].pc = "call"
  /\ Encodable(job[r].kind, job[r].cur)
  /\ t \notin Rejected
  /\ Readable(job[r].kind)
  /\ received' = [received EXCEPT ![job[r].kind] = @ \cup {t}]
  /\ Goto(r, "save")
  /\ UNCHANGED <<table, locks, answered, faults, lapses>>

\* The attempt is answered with any other status, which is raised as EXC_CLASS.
CallRejected(r) ==
  /\ job[r].pc = "call"
  /\ Encodable(job[r].kind, job[r].cur)
  /\ IF MoreAttempts(job[r])
     THEN job' = [job EXCEPT ![r].tries = @ + 1]
     ELSE Goto(r, AfterRejection)
  /\ UNCHANGED <<table, locks, received, answered, faults, lapses>>

\* No usable answer (timeout, connection): the service may have taken the
\* transaction in or not.  The exception is not an EXC_CLASS.
CallRaises(r, taken) ==
  LET t == job[r].cur IN
  /\ job[r].pc = "call"
  /\ Encodable(job[r].kind, job[r].cur)
  /\ t \notin Rejected
  /\ received' = IF taken THEN [received EXCEPT ![job[r].kind] = @ \cup {t}] ELSE received
  /\ IF MoreAttempts(job[r])
     THEN job' = [job EXCEPT ![r].tries = @ + 1]
     ELSE Goto(r, "unwind")
  /\ UNCHANGED <<table, locks, answered, faults, lapses>>

\* set_status.  The synchronous UPDATE waits for row locks and then commits.
Save(r) ==
  LET t == job[r].cur IN
  /\ job[r].pc = "save"
  /\ RowLockFree(r, t)
  /\ table' = [table EXCEPT ![t] = SavedRow(job[r].copy[t], @, job[r].kind)]
  /\ Goto(r, "release")
  /\ UNCHANGED <<locks, received, answered, faults, lapses>>

\* __aexit__ of the lock, and on to the next transaction; or LockError because
\* the key carries somebody else's token by now.
Release(r) ==
  LET t == job[r].cur IN
  /\ job[r].pc = "release"
  /\ IF Unlockable(r, t)
     THEN /\ locks' = Unlocked(r, t)
          /\ job' = [job EXCEPT ![r].pc = "scan", ![r].cur = NoTrx]
     ELSE /\ Finish(r)
          /\ UNCHANGED locks
  /\ UNCHANGED <<table, received, answered, faults, lapses>>

\* An exception leaves _execute: the lock is released and the pass is over.
Unwind(r) ==
  LET t == job[r].cur IN
  /\ job[r].pc = "unwind"
  /\ locks' = IF Unlockable(r, t) THEN Unlocked(r, t) ELSE locks
  /\ Finish(r)
  /\ UNCHANGED <<table, received, answered, faults, lapses>>

-----------------------------------------------------------------------------
(* The UpdateTrx callback: ServerMethod.process and UpdateTrxMethod._execute. *)

\* The Transactions service reports some of the transactions it was given.
StartUpdate(r, batch) ==
  /\ job[r].pc = "idle"
  /\ batch # {}
  /\ batch \subseteq received["transactions"]
  /\ job' = [job EXCEPT ![r] =
       [Idle EXCEPT !.kind = "update", !.pc = "read", !.todo = batch]]
  /\ UNCHANGED <<table, locks, received, answered, faults, lapses>>

\* The query by hash: committed rows and the handler's own updates.
UpdateRead(r, t) ==
  /\ job[r].pc = "read"
  /\ t \in job[r].todo
  /\ job' = IF Updatable(table[t])
            THEN [job EXCEPT ![r].todo = @ \ {t}, ![r].cur = t, ![r].pc = "write"]
            ELSE [job EXCEPT ![r].todo = @ \ {t}]
  /\ UNCHANGED <<table, locks, received, answered, faults, lapses>>

\* manager.update: not visible to others, and not undone by what they wrote
\* between the query and this.
UpdateWrite(r) ==
  LET t == job[r].cur IN
  /\ job[r].pc = "write"
  /\ RowLockFree(r, t)
  /\ job' = [job EXCEPT ![r].wrote = @ \cup {t}, ![r].cur = NoTrx, ![r].pc = "read"]
  /\ UNCHANGED <<table, locks, received, answered, faults, lapses>>

\* atomic() commits and the response is sent: header.status = SUCCESS.
UpdateCommit(r) ==
  /\ job[r].pc = "read"
  /\ job[r].todo = {}
  /\ table' = Committed(r)
  /\ answered' = answered \cup job[r].wrote
  /\ Finish(r)
  /\ UNCHANGED <<locks, received, faults, lapses>>

\* Handlers that all wait for rows of one another: PostgreSQL aborts one, and
\* the COMMIT of an aborted transaction is a rollback.
DeadlockVictim(r) ==
  /\ \E S \in SUBSET Replicas :
       /\ r \in S
       /\ \A q \in S : /\ job[q].pc = "write"
                       /\ \E p \in S \ {q} : job[q].cur \in job[p].wrote
  /\ Finish(r)
  /\ UNCHANGED <<table, locks, received, answered, faults, lapses>>

\* The handler is interrupted.  A database error rolls back; any other
\* exception (a CancelledError when the caller goes away) is caught inside
\* atomic(), which then commits what was done so far.  No SUCCESS is answered.
UpdateFails(r, keep) ==
  /\ job[r].kind = "update"
  /\ faults < MaxFaults
  /\ faults' = faults + 1
  /\ table' = IF keep THEN Committed(r) ELSE table
  /\ Finish(r)
  /\ UNCHANGED <<locks, received, answered, lapses>>

-----------------------------------------------------------------------------
(* Everything else that touches this state.                                  *)

\* Another process() of the replica commits new rows with a hash: all that a
\* pass of CheckTransactionsMonitor has found, or the one of
\* AddInputTransaction.
Insert(r, batch) ==
  /\ job[r].pc = "idle"
  /\ \A t \in batch : table[t].status = Absent
  /\ table' = [t \in Trx |-> IF t \in batch THEN NewRow ELSE table[t]]
  /\ UNCHANGED <<locks, job, received, answered, faults, lapses>>

\* The process dies and is started again, or an error of Redis or PostgreSQL
\* ends the pass without a chance to unlock.
Crash(r) ==
  /\ job[r].pc # "idle"
  /\ faults < MaxFaults
  /\ faults' = faults + 1
  /\ locks' = [t \in Trx |-> IF locks[t] = r THEN Orphan ELSE locks[t]]
  /\ Finish(r)
  /\ UNCHANGED <<table, received, answered, lapses>>

\* lock_timeout has passed since the last extension of an abandoned key.
LockExpires(t) ==
  /\ locks[t] = Orphan
  /\ locks' = [locks EXCEPT ![t] = Free]
  /\ UNCHANGED <<table, job, received, answered, faults, lapses>>

\* The same under a live holder: its event loop is blocked by a synchronous
\* call, or the watchdog's extension failed (its errors are swallowed).
LockLapses(t) ==
  /\ locks[t] \in Replicas
  /\ lapses < MaxLapses
  /\ lapses' = lapses + 1
  /\ locks' = [locks EXCEPT ![t] = Free]
  /\ UNCHANGED <<table, job, received, answered, faults>>

PassStep(r) ==
  \/ EndPass(r)
  \/ \E t \in Trx : SkipLocked(r, t) \/ SeeUnlocked(r, t)
  \/ Acquire(r) \/ AcquireFails(r)
  \/ CannotEncode(r)
  \/ CallAccepted(r) \/ CallRejected(r)
  \/ \E taken \in BOOLEAN : CallRaises(r, taken)
  \/ Save(r) \/ Release(r) \/ Unwind(r)

UpdateStep(r) ==
  \/ \E t \in Trx : UpdateRead(r, t)
  \/ UpdateWrite(r) \/ UpdateCommit(r) \/ DeadlockVictim(r)

Next ==
  \/ \E r \in Replicas :
       \/ \E svc \in Services : StartPass(r, svc)
       \/ \E batch \in SUBSET Trx : StartUpdate(r, batch) \/ Insert(r, batch)
       \/ PassStep(r)
       \/ UpdateStep(r)
       \/ \E keep \in BOOLEAN : UpdateFails(r, keep)
       \/ Crash(r)
  \/ \E t \in Trx : LockExpires(t) \/ LockLapses(t)

Spec == Init /\ [][Next]_vars

-----------------------------------------------------------------------------
(* What must hold on any number of replicas, whatever fails.                 *)

(* A row carries a confirmation time exactly when its status says that it    *)
(* was confirmed: the full-row save of a stale copy, the handler's update    *)
(* and their interleavings never leave a mixture of two versions of a row.   *)
RowConsistent ==
  \A t \in Trx : table[t].confirmed <=> table[t].status \in {Confirmed, Reported}

(* No status past NEW is claimed for a transaction that the service it tells *)
(* of has not taken in, in spite of rejections, lost answers, retries and    *)
(* stale copies.                                                             *)
MarkedWasDelivered ==
  \A t \in Trx :
    /\ table[t].status \in {Sent, Confirmed, Reported} => t \in received["transactions"]
    /\ table[t].status = Reported => t \in received["exchanger"]

(* The Exchanger only ever hears of platform transactions that have been     *)
(* through the Transactions service and were confirmed by it.                *)
ExchangerAfterMonitoring ==
  received["exchanger"] \subseteq Platform \cap received["transactions"]

\* Between lock() and unlock() of transaction t.
Holding(r, t) ==
  job[r].cur = t /\ job[r].pc \in {"call", "save", "release", "unwind"}

(* As long as no lock lapses under its holder, the gap between is_locked and *)
(* lock, crashes and expiring keys never put two replicas to work on one     *)
(* transaction.                                                              *)
OneSender ==
  lapses = 0 =>
    \A q, r \in Replicas, t \in Trx : Holding(q, t) /\ Holding(r, t) => q = r

(* What makes these inductive: what a job knows of its transactions, rec     *)
(* being what the services have received.                                    *)
WellFormed(j, rec) ==
  /\ j.pc \in {"scan", "acquire", "call", "save", "release", "unwind"} => j.kind \in Services
  /\ j.pc \in {"read", "write"} => j.kind = "update"
  /\ j.pc \in {"acquire", "call", "save", "release", "unwind", "write"} => j.cur \in Trx
  /\ j.kind \in Services =>
       /\ \A t \in Trx : t \in j.todo \/ t = j.cur =>
            /\ j.copy[t] = [status |-> Source(j.kind), confirmed |-> j.kind = "exchanger"]
            /\ j.kind = "exchanger" => t \in Platform \cap rec["transactions"]
       /\ j.pc = "save" => j.cur \in rec[j.kind]
  /\ j.kind = "update" =>
       /\ j.todo \subseteq rec["transactions"]
       /\ j.pc = "write" => j.cur \in rec["transactions"]
  /\ j.wrote \subseteq rec["transactions"]

HolderHasLock ==
  lapses = 0 => \A r \in Replicas, t \in Trx : Holding(r, t) => locks[t] = r

(* The inductive invariant: in every reachable state the copies a pass works *)
(* with are the rows as they were when it was their turn, what a handler     *)
(* writes is known to the Transactions service, and a holder holds its lock. *)
DeliveryInv ==
  /\ TypeOK
  /\ \A r \in Replicas : WellFormed(job[r], received)
  /\ RowConsistent
  /\ MarkedWasDelivered
  /\ ExchangerAfterMonitoring
  /\ HolderHasLock

-----------------------------------------------------------------------------
(* What holds because a replica has one database connection, and is lost     *)
(* when a second replica has another.                                        *)

(* A transaction is only pushed to a service while the table, not only the   *)
(* copy read at the start of the pass, says that it is that service's turn.  *)
FreshWhenCalled ==
  \A r \in Replicas :
    job[r].pc = "call" => table[job[r].cur].status = Source(job[r].kind)

(* Once UpdateTrx has answered SUCCESS for a transaction, its confirmation   *)
(* is never lost from the table.                                             *)
ConfirmationKept ==
  \A t \in answered : table[t].status \in {Confirmed, Reported}

(* The replica implements the lifecycle of Lifecycle.tla.                    *)
Abstract == INSTANCE Lifecycle WITH status <- [t \in Trx |-> table[t].status]
ImplementsLifecycle == Abstract!Spec

-----------------------------------------------------------------------------
(* Liveness.  run_monitoring restarts every pass for ever and connections    *)
(* are handed out in order, so each pass gets its turn again and again; the  *)
(* event loop runs what can run; an abandoned key expires.  Of the outside   *)
(* world: a service that is asked again and again answers in the end, and    *)
(* Transactions goes on reporting a transaction that it has (the docstring   *)
(* of SendToTransactionService).                                             *)
Fairness ==
  /\ \A r \in Replicas :
       /\ WF_vars(PassStep(r))
       /\ WF_vars(UpdateStep(r))
       /\ \A svc \in Services : SF_vars(StartPass(r, svc))
       /\ \A t \in Trx :
            /\ SF_vars(job[r].cur = t /\ CallAccepted(r))
            /\ SF_vars(StartUpdate(r, {t}))
  /\ \A t \in Trx : WF_vars(LockExpires(t))

FairSpec == Spec /\ Fairness

(* Every transaction gets to the Transactions service, except those that     *)
(* never can; these do not hold up the others.                               *)
EverySent ==
  \A t \in Trx \ Rejected :
    table[t].status = New ~> table[t].status \in {Sent, Confirmed, Reported}

(* Every platform transaction is reported to the Exchanger in the end.       *)
EveryReported ==
  \A t \in Platform \ Rejected :
    table[t].status = New ~> table[t].status = Reported
=============================================================================
