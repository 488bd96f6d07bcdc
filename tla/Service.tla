------------------------------- MODULE Service -------------------------------
(***************************************************************************)
(* One replica as its callers see it: the eight methods of WalletsService   *)
(* (wallets/gateway/server.py), from the arrival of a message to the answer *)
(* of ServerMethod.process (wallets/gateway/method_classes.py), next to the *)
(* pass of CheckTransactionsMonitor.                                        *)
(*                                                                          *)
(* process() is decorated with nested_commit_on_success, so that each call  *)
(* and each pass needs a connection for the whole of it, calls to the       *)
(* blockchain gateway included, and the pool of the replica has one.  The   *)
(* gateway object is shared: the text for its errors and its channel.       *)
(*                                                                          *)
(* A call is a session of Registry, whose actions are the statements of     *)
(* StartMonitoring and StopMonitoring.  The statements of the other methods *)
(* are taken together where Intake and Delivery take them apart.            *)
(***************************************************************************)
EXTENDS Registry, Requests

CONSTANTS
  Messages,   \* what callers send: messages with the wallet id and the
              \* transactions that their fields name
  Trxs,       \* transactions of the Exchanger, each with its uuid and hash
  Monitor,    \* the task that runs the passes
  Nobody

ASSUME TaskAssumption == Monitor \notin Sessions /\ Nobody \notin Sessions \cup {Monitor}
ASSUME MessageAssumption ==
  \A msg \in Messages : Shaped(msg) /\ msg.id \in Ids /\ msg.trxs \subseteq Trxs

\* The Exchanger's messages have one uuid and at most one hash.
ASSUME SingleAssumption ==
  \A msg \in Messages :
    msg.method \in {"AddInputTransaction", "StartMonitoringPlatformWallet"} =>
      \A t, u \in msg.trxs : t = u

\* process() sets header.status of the answer, whatever the method.
ASSUME HeaderAssumption ==
  /\ \A m \in DOMAIN Wire!Methods : "header" \in DOMAIN Wire!Methods[m].returns
  /\ "status" \in DOMAIN Wire!ResponseHeader

VARIABLES
  pc,        \* what each task is doing
  request,   \* the message of each call
  answer,    \* and what became of it
  holder,    \* tasks that have a connection
  todo,      \* the for loop of a task: wallets to list, transactions to update
  wrote,     \* transactions updated in the open database transaction
  trx,       \* the rows of the Exchanger's transactions
  asked,     \* the wallet whose transactions the pass is asking for
  text,      \* BAD_RESPONSE_MSG: whose request it speaks of
  about,     \* whose request the description of each call's answer speaks of
  cut        \* tasks whose stream was closed by another one

serviceVars == <<pc, request, answer, holder, todo, wrote, trx, asked, text, about, cut>>

allVars == <<vars, serviceVars>>

Tasks == Sessions \cup {Monitor}

\* No message yet; the answer of process() when it returns; no answer because
\* process() raised; or the caller went away.
Answers == {"none"} \cup Wire!ResponseStatus \cup {"escaped", "lost"}

ServiceTypeOK ==
  /\ TypeOK
  /\ pc \in [Tasks -> {"idle", "waiting", "parse", "handle", "gateway", "ended"}]
  /\ request \in [Sessions -> Messages \cup {Nobody}]
  /\ answer \in [Sessions -> Answers]
  /\ holder \in SUBSET Tasks
  /\ todo \in [Tasks -> SUBSET (Keys \cup Trxs)]
  /\ wrote \in [Sessions -> SUBSET Trxs]
  /\ trx \in [Trxs -> {"absent", "announced", "entered", "confirmed"}]
  /\ asked \in SUBSET Keys
  /\ text \in Tasks \cup {Nobody}
  /\ about \in [Sessions -> Tasks \cup {Nobody}]
  /\ cut \in SUBSET Tasks

ServiceInit ==
  /\ Init
  /\ pc = [p \in Tasks |-> "idle"]
  /\ request = [c \in Sessions |-> Nobody]
  /\ answer = [c \in Sessions |-> "none"]
  /\ holder = {}
  /\ todo = [p \in Tasks |-> {}]
  /\ wrote = [c \in Sessions |-> {}]
  /\ trx = [t \in Trxs |-> "absent"]
  /\ asked = {}
  /\ text = Nobody
  /\ about = [c \in Sessions |-> Nobody]
  /\ cut = {}

-----------------------------------------------------------------------------
(* The decisions of the code; Faulty... operators are wrong versions for the *)
(* checks to substitute.                                                     *)

FaultyConnections == 2

\* PostgresqlDatabase, not PooledPostgresqlDatabase: the pool has size one.
Connections == 1

FaultyReleased(p) == IF p \in Sessions /\ Escapes(request[p]) THEN holder ELSE holder \ {p}

\* atomic() is left, on whatever way: the connection is released.
Released(p) == holder \ {p}

FaultyMonitored == Rows    \* stopped wallets as well

\* CheckTransactionsMonitor.get_data
Monitored == on

\* The rows once updates are committed.
WithUpdates(ts) == [t \in Trxs |-> IF t \in ts THEN "confirmed" ELSE trx[t]]

\* No transaction: what AddInputTransaction has inserted stays.
FaultyAfterError(c, aborted) ==
  [t \in Trxs |-> IF request[c].method = "AddInputTransaction" /\ t \in request[c].trxs
                  THEN "entered" ELSE trx[t]]

\* An exception is caught by process().  If it comes from PostgreSQL, the
\* transaction is aborted and its COMMIT is a rollback; any other, such as the
\* ValueError of the driver for a NUL in a hash, leaves the updates made so
\* far to be committed.
AfterError(c, aborted) == IF aborted THEN trx ELSE WithUpdates(wrote[c])

\* The try statement is around the loop: one unknown hash ends it.
FaultyLooped(c) ==
  todo[c] = {} \/ \E t \in request[c].trxs \ todo[c] : trx[t] \in {"absent", "announced"}

\* UpdateTrx has been through all transactions of its message.
Looped(c) == todo[c] = {}

FaultyAdmits(c, t) == Exists(request[c].id)    \* the unique columns are lost

\* The wallet is found, and find_in_base and the unique columns let the row in.
Admits(c, t) == Exists(request[c].id) /\ trx[t] = "absent"

Method(c) == request[c].method

\* The status of CheckBalance, when the answer of the gateway has the given
\* keys.  MessageToDict always shows its status, which GetBalanceResponseSchema
\* does not know; and the mail about a low balance is rendered by flask
\* outside of a flask application, before the try statement.
BalanceAnswer(keys, low) ==
  IF Wire!Loads(Wire!GetBalanceResponseSchema, keys) /\ ~low THEN "SUCCESS" ELSE "ERROR"

FaultyPhrase(p) == IF p = Monitor THEN p ELSE text   \* CheckBalance assigns none

\* Whose request BAD_RESPONSE_MSG speaks of once p has assigned it.
Phrase(p) == p

\* process() is over; the caller may be gone by now.
End(c, a) ==
  /\ pc' = [pc EXCEPT ![c] = "ended"]
  /\ \E heard \in {a, "lost"} : answer' = [answer EXCEPT ![c] = heard]
  /\ holder' = Released(c)
  /\ todo' = [todo EXCEPT ![c] = {}]
  /\ wrote' = [wrote EXCEPT ![c] = {}]
  /\ UNCHANGED <<request, asked>>

Goto(p, label) == pc' = [pc EXCEPT ![p] = label]

\* What the steps that do not use the gateway leave alone.
OffGateway == UNCHANGED <<text, about, cut>>

-----------------------------------------------------------------------------
(* From the message to the handler.                                          *)

Open(c, msg) ==
  /\ pc[c] = "idle"
  /\ Goto(c, "waiting")
  /\ request' = [request EXCEPT ![c] = msg]
  /\ UNCHANGED <<vars, answer, holder, todo, wrote, trx, asked>> /\ OffGateway

\* run_monitoring comes back to the pass.
WakeMonitor ==
  /\ pc[Monitor] = "idle"
  /\ Goto(Monitor, "waiting")
  /\ UNCHANGED <<vars, request, answer, holder, todo, wrote, trx, asked>> /\ OffGateway

\* A released connection goes to a waiting task, not always in the order of
\* arrival.
Connect(p) ==
  /\ pc[p] = "waiting"
  /\ Cardinality(holder) < Connections
  /\ holder' = holder \cup {p}
  /\ IF p = Monitor
     THEN Goto(p, "handle") /\ todo' = [todo EXCEPT ![p] = Monitored]
     ELSE Goto(p, "parse") /\ UNCHANGED todo
  /\ UNCHANGED <<vars, request, answer, wrote, trx, asked>> /\ OffGateway

Escape(c) ==
  /\ pc[c] = "parse" /\ Escapes(request[c])
  /\ End(c, "escaped")
  /\ UNCHANGED <<vars, trx>> /\ OffGateway

Refuse(c) ==
  /\ pc[c] = "parse" /\ Refused(request[c])
  /\ End(c, "ERROR")
  /\ UNCHANGED <<vars, trx>> /\ OffGateway

Accept(c) ==
  /\ pc[c] = "parse" /\ Accepted(request[c])
  /\ Goto(c, "handle")
  /\ todo' = [todo EXCEPT ![c] = IF Method(c) = "UpdateTrx" THEN request[c].trxs ELSE {}]
  /\ \/ Method(c) = "StartMonitoring" /\ StartMonitoring(c, request[c].id)
     \/ Method(c) = "StopMonitoring" /\ StopMonitoring(c, request[c].id)
     \/ Method(c) \notin Monitoring /\ UNCHANGED vars
  /\ UNCHANGED <<request, answer, holder, wrote, trx, asked>> /\ OffGateway

-----------------------------------------------------------------------------
(* The handlers.                                                             *)

Handling(c, method) == pc[c] = "handle" /\ Method(c) = method

Healthz(c) ==
  /\ Handling(c, "Healthz")
  /\ End(c, "SUCCESS")
  /\ UNCHANGED <<vars, trx>> /\ OffGateway

\* The query names TransactionStatus.status, which does not exist.
GetInputTransactions(c) ==
  /\ Handling(c, "GetInputTransactions")
  /\ End(c, "ERROR")
  /\ UNCHANGED <<vars, trx>> /\ OffGateway

SaveWallet(c) ==
  /\ Handling(c, "StartMonitoring")
  /\ \/ /\ Look(c)
        /\ IF Exists(serving[c].id)
           THEN End(c, "ERROR")
           ELSE UNCHANGED <<pc, request, answer, holder, todo, wrote, asked>>
     \/ (\E k \in Keys : Create(c, k)) /\ End(c, "SUCCESS")
  /\ UNCHANGED trx /\ OffGateway

StopWallet(c) ==
  /\ Handling(c, "StopMonitoring")
  /\ \/ (\E k \in Keys : Get(c, k)) /\ UNCHANGED <<pc, request, answer, holder, todo, wrote, asked>>
     \/ (GetNothing(c) \/ Update(c)) /\ End(c, "SUCCESS")
  /\ UNCHANGED trx /\ OffGateway

\* One round of UpdateTrx's loop: a row that has the hash is updated,
\* whatever status the message says.
UpdateNext(c, t) ==
  /\ Handling(c, "UpdateTrx")
  /\ t \in todo[c]
  /\ todo' = [todo EXCEPT ![c] = @ \ {t}]
  /\ wrote' = IF trx[t] \in {"entered", "confirmed"}
              THEN [wrote EXCEPT ![c] = @ \cup {t}] ELSE wrote
  /\ UNCHANGED <<vars, pc, request, answer, holder, trx, asked>> /\ OffGateway

UpdateAll(c) ==
  /\ Handling(c, "UpdateTrx")
  /\ Looped(c)
  /\ trx' = WithUpdates(wrote[c])
  /\ End(c, "SUCCESS")
  /\ UNCHANGED vars /\ OffGateway

AddInputTransaction(c, t) ==
  /\ Handling(c, "AddInputTransaction")
  /\ t \in request[c].trxs
  /\ IF Admits(c, t)
     THEN trx' = [trx EXCEPT ![t] = "entered"] /\ End(c, "SUCCESS")
     ELSE UNCHANGED trx /\ End(c, "ERROR")
  /\ UNCHANGED vars /\ OffGateway

\* Without a currency no wallet is found, without an address or an amount a
\* NOT NULL column refuses the row; without a uuid the row is stored all the
\* same, and no request can name it any more.
StartMonitoringPlatformWallet(c, t) ==
  LET set == request[c].set IN
  /\ Handling(c, "StartMonitoringPlatformWallet")
  /\ t \in request[c].trxs
  /\ IF /\ {"expected_currency", "expected_address", "expected_amount"} \subseteq set
        /\ IF "uuid" \in set THEN Admits(c, t) ELSE Exists(request[c].id)
     THEN /\ trx' = IF "uuid" \in set THEN [trx EXCEPT ![t] = "announced"] ELSE trx
          /\ End(c, "SUCCESS")
     ELSE UNCHANGED trx /\ End(c, "ERROR")
  /\ UNCHANGED vars /\ OffGateway

\* A statement or its preparation fails, and the exception is caught inside
\* atomic().  StartMonitoring and StopMonitoring have written nothing by then.
StatementFails(c) ==
  /\ pc[c] = "handle"
  /\ Method(c) \notin {"Healthz", "CheckBalance", "GetInputTransactions"}
  /\ IF Method(c) \in Monitoring THEN Abandon(c, FALSE) ELSE UNCHANGED vars
  /\ \E aborted \in BOOLEAN : trx' = AfterError(c, aborted)
  /\ End(c, "ERROR")
  /\ OffGateway

\* The caller goes away.  A call that waits is dropped; in the handler the
\* CancelledError is caught like any exception, and what was done so far is
\* committed.
Cancel(c) ==
  /\ pc[c] \in {"waiting", "handle", "gateway"}
  /\ IF pc[c] = "handle" /\ Method(c) \in Monitoring
     THEN \E keep \in BOOLEAN : Abandon(c, keep)
     ELSE UNCHANGED vars
  /\ trx' = WithUpdates(wrote[c])
  /\ End(c, "lost")
  /\ UNCHANGED <<text, about>> /\ cut' = cut \ {c}

-----------------------------------------------------------------------------
(* The blockchain gateway: BaseAsyncGateway._base_request.                   *)

\* bad_response_msg is assigned to the gateway object, and a stream opened on
\* its channel.
Ask(p) ==
  /\ pc[p] = "handle"
  /\ IF p = Monitor
     THEN \E k \in todo[p] : asked' = {k} /\ todo' = [todo EXCEPT ![p] = @ \ {k}]
     ELSE Method(p) = "CheckBalance" /\ UNCHANGED <<asked, todo>>
  /\ Goto(p, "gateway")
  /\ text' = Phrase(p)
  /\ UNCHANGED <<vars, request, answer, holder, wrote, trx, about, cut>>

\* The pass is over: all wallets are listed, or an exception has ended it.
EndPass ==
  /\ pc' = [pc EXCEPT ![Monitor] = "idle"]
  /\ holder' = Released(Monitor)
  /\ todo' = [todo EXCEPT ![Monitor] = {}]
  /\ asked' = {}
  /\ UNCHANGED <<request, answer, wrote>>

AllListed ==
  /\ pc[Monitor] = "handle" /\ todo[Monitor] = {}
  /\ EndPass
  /\ UNCHANGED <<vars, trx>> /\ OffGateway

\* Streams of others on the channel that p closes.
CutBy(p) == {q \in Tasks \ {p} : pc[q] = "gateway"}

\* The answer is received and the channel closed; a status other than SUCCESS
\* is raised, with the text the object has by now.
Receive(p, status, keys, low) ==
  /\ pc[p] = "gateway" /\ p \notin cut
  /\ cut' = cut \cup CutBy(p)
  /\ IF p = Monitor
     THEN /\ IF status = "SUCCESS"
             THEN /\ Goto(p, "handle") /\ asked' = {}
                  /\ UNCHANGED <<request, answer, holder, todo, wrote>>
             ELSE EndPass
          /\ UNCHANGED about
     ELSE IF status = "SUCCESS"
          THEN End(p, BalanceAnswer(keys, low)) /\ UNCHANGED about
          ELSE End(p, "ERROR") /\ about' = [about EXCEPT ![p] = text]
  /\ UNCHANGED <<vars, trx, text>>

\* No answer in time, or the stream was cut.
NoAnswer(p) ==
  /\ pc[p] = "gateway"
  /\ cut' = cut \ {p}
  /\ IF p = Monitor THEN EndPass ELSE End(p, "ERROR")
  /\ UNCHANGED <<vars, trx, text, about>>

-----------------------------------------------------------------------------
\* The keys of the answer to GetBalanceBySlug, which shows a SUCCESS as its
\* status and leaves out a balance and a time at their default.
BalanceKeys ==
  {keys \in SUBSET DOMAIN Wire!GatewayMethods.GetBalanceBySlug.returns : "status" \in keys}

Work(p) ==
  \/ /\ p \in Sessions
     /\ \/ Escape(p) \/ Refuse(p) \/ Accept(p)
        \/ Healthz(p) \/ GetInputTransactions(p) \/ SaveWallet(p) \/ StopWallet(p)
        \/ \E t \in Trxs : UpdateNext(p, t)
        \/ UpdateAll(p)
        \/ \E t \in Trxs : AddInputTransaction(p, t) \/ StartMonitoringPlatformWallet(p, t)
        \/ StatementFails(p)
  \/ p = Monitor /\ AllListed
  \/ Ask(p)
  \/ \E status \in Wire!GatewayStatus, keys \in BalanceKeys, low \in BOOLEAN :
       Receive(p, status, keys, low)
  \/ NoAnswer(p)

ServiceNext ==
  \/ \E c \in Sessions : Cancel(c) \/ \E msg \in Messages : Open(c, msg)
  \/ WakeMonitor
  \/ \E p \in Tasks : Connect(p) \/ Work(p)

ServiceSpec == ServiceInit /\ [][ServiceNext]_allVars

(* A woken task takes the connection unless a newcomer was faster, which     *)
(* takes a newcomer each time, and the passes sleep in between; the gateway  *)
(* has a time limit.                                                         *)
ServiceFairness == \A p \in Tasks : WF_allVars(Work(p)) /\ SF_allVars(Connect(p))

FairService == ServiceSpec /\ ServiceFairness

-----------------------------------------------------------------------------
(* What a caller who is told of an error may find changed, because handlers   *)
(* catch every exception inside of the database transaction: nothing but     *)
(* confirmations of his own batch, of transactions UpdateTrx had come to.    *)
(* All else changes when SUCCESS is answered, or nobody is there to be told. *)
OnlyUpdatesOutliveErrors ==
  [][ <<ext, on, trx>>' # <<ext, on, trx>> =>
      \E c \in Sessions :
        /\ pc[c] # "ended"
        /\ \/ answer'[c] \in {"SUCCESS", "lost"}
           \/ /\ answer'[c] = "ERROR" /\ Method(c) = "UpdateTrx"
              /\ UNCHANGED <<ext, on>>
              /\ \A t \in Trxs : trx'[t] # trx[t] =>
                   /\ t \in request[c].trxs \ todo[c]
                   /\ trx[t] = "entered" /\ trx'[t] = "confirmed" ]_allVars

(* What SUCCESS says is in the tables, and stays there.                      *)
SuccessMeansDone ==
  \A c \in Sessions : answer[c] = "SUCCESS" =>
    /\ Method(c) = "StartMonitoring" => Exists(request[c].id)
    /\ Method(c) = "AddInputTransaction" =>
         \A t \in request[c].trxs : trx[t] \in {"entered", "confirmed"}
    /\ Method(c) = "StartMonitoringPlatformWallet" /\ "uuid" \in request[c].set =>
         \A t \in request[c].trxs : trx[t] = "announced"

(* When UpdateTrx or StopMonitoring answers SUCCESS it has left nothing       *)
(* undone, although both have read the rows in earlier statements: no        *)
(* transaction of the batch is in the table and not confirmed, and no row of *)
(* the wallet is monitored, unless the script has made several.              *)
NothingLeftUndone ==
  [][ \A c \in Sessions : answer[c] = "none" /\ answer'[c] = "SUCCESS" =>
        /\ Method(c) = "UpdateTrx" => \A t \in request[c].trxs : trx'[t] # "entered"
        /\ Method(c) = "StopMonitoring" =>
             Shared(request[c].id) \/ RowsOf(request[c].id)' \cap on' = {} ]_allVars

(* The description of an error speaks of the caller's own request, although  *)
(* the gateway object keeps the text in one attribute for all requests.      *)
OwnErrorText == \A c \in Sessions : about[c] \in {c, Nobody}

(* Nobody closes the shared channel while another request is on it.          *)
NoStreamCut == cut = {}

(* The pass never asks for the transactions of a wallet that is no longer    *)
(* monitored, although it has read the wallets at its start and asks for     *)
(* each of them much later.                                                  *)
OnlyMonitoredAsked == asked \subseteq on

(* Every call comes to an end, however long the passes, how slow the gateway *)
(* and how malformed the message.                                            *)
EveryCallEnds == \A c \in Sessions : pc[c] = "waiting" ~> pc[c] = "ended"

(* The inductive invariant: the holder of the connection is the only task    *)
(* past waiting, so that what it has read, asked or set is still so.         *)
ServiceInv ==
  /\ ServiceTypeOK
  /\ RegistryInv
  /\ \A c \in Sessions : pc[c] # "idle" => request[c] \in Messages
  /\ \A p, q \in holder : p = q
  /\ \A p \in Tasks : p \in holder <=> pc[p] \in {"parse", "handle", "gateway"}
  /\ \A c \in Sessions : serving[c].pc # "idle" => pc[c] = "handle" /\ Method(c) \in Monitoring
  /\ pc[Monitor] \in {"handle", "gateway"} => todo[Monitor] \cup asked \subseteq on
  /\ asked # {} => pc[Monitor] = "gateway"
  /\ \A p \in Tasks : pc[p] = "gateway" => text = p
  /\ OwnErrorText
  /\ NoStreamCut

(* process() returns a message (its docstring).                              *)
ProcessReturns == \A c \in Sessions : answer[c] # "escaped"
=============================================================================
