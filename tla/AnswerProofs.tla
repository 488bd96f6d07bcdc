---------------------------- MODULE AnswerProofs -----------------------------
(***************************************************************************)
(* Proofs about the answers of a replica (Service), for any number of       *)
(* calls, any messages and any tables: an answer of SUCCESS is true when it *)
(* is given and stays true, and an answer of ERROR leaves the tables alone, *)
(* but for the confirmations UpdateTrx had come to.                         *)
(***************************************************************************)
EXTENDS ServiceProofs

\* Where the transactions are that AddInputTransaction has entered.
Stored == {"entered", "confirmed"}

\* What an answer of SUCCESS to c claims of the tables.
Done(c) ==
  /\ Method(c) = "StartMonitoring" => Exists(request[c].id)
  /\ Method(c) = "AddInputTransaction" => \A t \in request[c].trxs : trx[t] \in Stored
  /\ Method(c) = "StartMonitoringPlatformWallet" /\ "uuid" \in request[c].set =>
       \A t \in request[c].trxs : trx[t] = "announced"

\* Methods that cannot succeed.
Futile == {"CheckBalance", "GetInputTransactions"}

\* What makes the truth of the answers inductive: who has been answered is
\* over, a session of Registry is about the wallet of its message, and what is
\* updated was entered.
AnswerInv ==
  /\ \A c \in Sessions : answer[c] = "SUCCESS" => Done(c) /\ Method(c) \notin Futile
  /\ \A c \in Sessions : answer[c] # "none" => pc[c] = "ended"
  /\ \A c \in Sessions : serving[c].pc # "idle" => serving[c].id = request[c].id
  /\ \A c \in Sessions : \A t \in wrote[c] : trx[t] \in Stored

\* Nothing that an answer can be about is taken back.
Grows ==
  /\ \A k \in Keys : ext[k] # NoId => ext'[k] = ext[k]
  /\ \A t \in Trxs : /\ trx[t] \in Stored => trx'[t] \in Stored
                     /\ trx[t] = "announced" => trx'[t] = "announced"

-----------------------------------------------------------------------------
(* A claim about the tables stays true.                                      *)
LEMMA DoneStays ==
  ASSUME ServiceInv, Grows, NEW c \in Sessions, request'[c] = request[c], request[c] \in Messages,
         Done(c)
  PROVE  Done(c)'
<1>1. request[c].id \in Ids /\ request[c].trxs \subseteq Trxs
  BY MessageAssumption
<1>2. Exists(request[c].id) => Exists(request[c].id)'
  <2> SUFFICES ASSUME NEW k \in RowsOf(request[c].id) PROVE k \in RowsOf(request[c].id)'
    BY DEF Exists
  <2> QED BY <1>1, IdAssumption DEF RowsOf, Grows
<1> QED BY <1>1, <1>2 DEF Done, Method, Grows

(* The updates of a call move what was entered to confirmed.                 *)
LEMMA UpdatesGrow ==
  ASSUME ServiceInv, AnswerInv, NEW c \in Sessions, trx' = WithUpdates(wrote[c]),
         \A k \in Keys : ext[k] # NoId => ext'[k] = ext[k]
  PROVE  Grows
<1>1. \A t \in wrote[c] : trx[t] \in Stored
  BY DEF AnswerInv
<1> QED BY <1>1 DEF WithUpdates, Grows, Stored

LEMMA RowsStay ==
  ASSUME ServiceInv, [ServiceNext]_allVars
  PROVE  \A k \in Keys : ext[k] # NoId => ext'[k] = ext[k]
<1>1. [Next]_vars /\ TypeOK
  BY Implements, Parts DEF RegistryInv
<1>2. ASSUME NEW r \in Sessions, NEW k \in Keys, Create(r, k)
      PROVE  \A l \in Keys : ext[l] # NoId => ext'[l] = ext[l]
  BY <1>1, <1>2 DEF Create, Rows, TypeOK
<1> QED BY <1>1, <1>2 DEF Next, vars, StartMonitoring, StopMonitoring, Look, GetNothing, Update,
           Abandon, Get

LEMMA TablesGrow == ServiceInv /\ AnswerInv /\ [ServiceNext]_allVars => Grows
<1> SUFFICES ASSUME ServiceInv, AnswerInv, [ServiceNext]_allVars PROVE Grows
  OBVIOUS
<1>0. Core /\ \A k \in Keys : ext[k] # NoId => ext'[k] = ext[k]
  BY RowsStay, Parts
<1>s. CASE trx' = trx
  BY <1>0, <1>s DEF Grows
<1>1. ASSUME NEW c \in Sessions, Cancel(c) \/ UpdateAll(c) \/ StatementFails(c) PROVE Grows
  BY <1>0, <1>1, <1>s, UpdatesGrow DEF Cancel, UpdateAll, StatementFails, AfterError
<1>2. ASSUME NEW c \in Sessions, NEW t \in Trxs,
             AddInputTransaction(c, t) \/ StartMonitoringPlatformWallet(c, t)
      PROVE  Grows
  <2>1. \/ trx' = trx
        \/ trx[t] = "absent" /\ \E s \in TrxStates : trx' = [trx EXCEPT ![t] = s]
    BY <1>2 DEF AddInputTransaction, StartMonitoringPlatformWallet, Admits, TrxStates
  <2> QED BY <1>0, <1>s, <2>1 DEF Grows, Stored, Core
<1>3. ASSUME NEW c \in Sessions,
             Accept(c) \/ Escape(c) \/ Refuse(c) \/ Healthz(c) \/ GetInputTransactions(c)
             \/ SaveWallet(c) \/ StopWallet(c)
      PROVE  Grows
  BY <1>3, <1>s DEF Accept, Escape, Refuse, Healthz, GetInputTransactions, SaveWallet, StopWallet
<1>4. ASSUME NEW c \in Sessions, NEW t \in Trxs, UpdateNext(c, t) PROVE Grows
  BY <1>4, <1>s DEF UpdateNext
<1>5. ASSUME NEW c \in Sessions, NEW msg \in Messages, Open(c, msg) PROVE Grows
  BY <1>5, <1>s DEF Open
<1>6. ASSUME NEW p \in Tasks, WakeMonitor \/ AllListed \/ Connect(p) \/ Ask(p) \/ NoAnswer(p)
      PROVE  Grows
  BY <1>6, <1>s DEF WakeMonitor, AllListed, Connect, Ask, NoAnswer
<1>7. ASSUME NEW p \in Tasks, NEW status \in Wire!GatewayStatus, NEW keys \in BalanceKeys,
             NEW low \in BOOLEAN, Receive(p, status, keys, low)
      PROVE  Grows
  BY <1>7, <1>s DEF Receive
<1>8. CASE UNCHANGED allVars
  BY <1>8, <1>s DEF allVars, serviceVars
<1> QED BY <1>1, <1>2, <1>3, <1>4, <1>5, <1>6, <1>7, <1>8, TaskAssumption DEF ServiceNext, Work, Tasks

-----------------------------------------------------------------------------
(* A call ends with an answer that is true.                                  *)
LEMMA EndTrue ==
  ASSUME ServiceInv, AnswerInv, Grows, NEW c \in Sessions, NEW a \in Answers, End(c, a),
         pc[c] \notin {"idle", "ended"},
         a = "SUCCESS" => Done(c)' /\ Method(c) \notin Futile,
         \A s \in Sessions : serving'[s] = serving[s] \/ serving'[s].pc = "idle"
  PROVE  AnswerInv'
<1>0. Core /\ c \in Tasks /\ Sessions \subseteq Tasks
  BY Parts DEF Tasks
<1>1. PICK heard \in {a, "lost"} : answer' = [answer EXCEPT ![c] = heard]
  BY DEF End
<1>2. /\ pc' = [pc EXCEPT ![c] = "ended"] /\ request' = request
      /\ wrote' = [wrote EXCEPT ![c] = {}]
  BY DEF End
<1>3. ASSUME NEW d \in Sessions, answer'[d] = "SUCCESS"
      PROVE  Done(d)' /\ Method(d)' \notin Futile
  <2>1. CASE d = c
    <3>1. a = "SUCCESS"
      BY <1>0, <1>1, <1>3, <2>1 DEF Core
    <3> QED BY <1>2, <2>1, <3>1 DEF Method
  <2>2. CASE d # c
    <3>1. answer[d] = "SUCCESS"
      BY <1>0, <1>1, <1>3, <2>2 DEF Core
    <3>2. pc[d] = "ended" /\ Done(d) /\ Method(d) \notin Futile
      BY <3>1 DEF AnswerInv
    <3>3. request[d] \in Messages
      BY <1>0, <3>2 DEF Core
    <3> QED BY <1>2, <3>2, <3>3, DoneStays DEF Method
  <2> QED BY <2>1, <2>2
<1>4. \A d \in Sessions : answer'[d] # "none" => pc'[d] = "ended"
  BY <1>0, <1>1, <1>2 DEF AnswerInv, Core
<1>5. \A d \in Sessions : serving'[d].pc # "idle" => serving'[d].id = request'[d].id
  BY <1>2 DEF AnswerInv
<1>6. \A d \in Sessions : \A t \in wrote'[d] : trx'[t] \in Stored
  BY <1>0, <1>2 DEF AnswerInv, Grows, Core
<1> QED BY <1>3, <1>4, <1>5, <1>6 DEF AnswerInv

(* A step that answers nobody.                                               *)
LEMMA NoEnd ==
  ASSUME ServiceInv, AnswerInv, Grows, UNCHANGED <<request, answer, wrote>>,
         \A c \in Sessions : pc[c] = "ended" => pc'[c] = "ended",
         \A c \in Sessions : serving'[c].pc # "idle" => serving'[c].id = request[c].id
  PROVE  AnswerInv'
<1>0. Core /\ Sessions \subseteq Tasks
  BY Parts DEF Tasks
<1>1. ASSUME NEW d \in Sessions, answer'[d] = "SUCCESS"
      PROVE  Done(d)' /\ Method(d)' \notin Futile
  <2>1. pc[d] = "ended" /\ Done(d) /\ Method(d) \notin Futile
    BY <1>1 DEF AnswerInv
  <2>2. request[d] \in Messages
    BY <1>0, <2>1 DEF Core
  <2> QED BY <2>1, <2>2, DoneStays DEF Method
<1> QED BY <1>0, <1>1 DEF AnswerInv, Grows, Core

(* The answer of the gateway always shows its status, which the schema for   *)
(* balances does not know.                                                   *)
LEMMA NoBalance ==
  ASSUME NEW keys \in BalanceKeys, NEW low \in BOOLEAN
  PROVE  BalanceAnswer(keys, low) = "ERROR"
BY DEF BalanceKeys, BalanceAnswer, Wire!Loads, Wire!GetBalanceResponseSchema

LEMMA AnswerStep == ServiceInv /\ AnswerInv /\ [ServiceNext]_allVars => AnswerInv'
<1> SUFFICES ASSUME ServiceInv, AnswerInv, [ServiceNext]_allVars PROVE AnswerInv'
  OBVIOUS
<1>0. Core /\ TypeOK /\ Grows /\ {"ERROR", "SUCCESS", "escaped", "lost"} \subseteq Answers
  BY Parts, TablesGrow DEF RegistryInv, Answers, Wire!ResponseStatus
<1>a. Monitor \in Tasks /\ Monitor \notin Sessions /\ Sessions \subseteq Tasks
  BY TaskAssumption DEF Tasks
<1>b. \A c \in Sessions : serving[c].pc # "idle" => serving[c].id = request[c].id
  BY DEF AnswerInv
<1>1. ASSUME NEW c \in Sessions, Escape(c) \/ Refuse(c) \/ Healthz(c) \/ GetInputTransactions(c)
      PROVE  AnswerInv'
  <2>1. UNCHANGED <<vars, trx>> /\ pc[c] \in {"parse", "handle"}
    BY <1>1 DEF Escape, Refuse, Healthz, GetInputTransactions, Handling
  <2>2. CASE End(c, "ERROR") \/ End(c, "escaped")
    BY <1>0, <2>1, <2>2, EndTrue DEF vars
  <2>3. CASE End(c, "SUCCESS") /\ Method(c) = "Healthz"
    <3>1. Done(c)' /\ Method(c) \notin Futile
      BY <2>3 DEF End, Done, Method, Futile
    <3> QED BY <1>0, <2>1, <2>3, <3>1, EndTrue DEF vars
  <2> QED BY <1>1, <2>2, <2>3 DEF Escape, Refuse, Healthz, GetInputTransactions, Handling
<1>2. ASSUME NEW c \in Sessions, Accept(c) PROVE AnswerInv'
  <2>1. /\ pc[c] = "parse" /\ pc' = [pc EXCEPT ![c] = "handle"]
        /\ UNCHANGED <<request, answer, wrote>>
    BY <1>2 DEF Accept, Goto
  <2>2. \A s \in Sessions : serving'[s] = serving[s] \/ (s = c /\ serving'[s].id = request[c].id)
    BY <1>0, <1>2 DEF Accept, StartMonitoring, StopMonitoring, Serve, Idle, TypeOK, vars
  <2> QED BY <1>0, <1>a, <1>b, <2>1, <2>2, NoEnd DEF Core
<1>3. ASSUME NEW c \in Sessions, SaveWallet(c) PROVE AnswerInv'
  <2>1. pc[c] = "handle" /\ Method(c) = "StartMonitoring"
    BY <1>3 DEF SaveWallet, Handling
  <2>2. CASE Look(c) /\ Exists(serving[c].id) /\ End(c, "ERROR")
    <3>1. \A s \in Sessions : serving'[s] = serving[s] \/ serving'[s].pc = "idle"
      BY <1>0, <2>2 DEF Look, Serve, Idle, TypeOK
    <3> QED BY <1>0, <2>1, <2>2, <3>1, EndTrue
  <2>3. CASE /\ Look(c) /\ UNCHANGED <<pc, request, answer, holder, todo, wrote, asked>>
    <3>1. \A s \in Sessions : serving'[s].pc # "idle" =>
             serving[s].pc # "idle" /\ serving'[s].id = serving[s].id
      BY <1>0, <2>3 DEF Look, Serve, Idle, TypeOK, Request
    <3> QED BY <1>0, <1>b, <2>3, <3>1, NoEnd
  <2>4. ASSUME NEW k \in Keys, Create(c, k), End(c, "SUCCESS") PROVE AnswerInv'
    <3>1. \A s \in Sessions : serving'[s] = serving[s] \/ serving'[s].pc = "idle"
      BY <1>0, <2>4 DEF Create, Serve, Idle, TypeOK
    <3>2. serving[c].id = request[c].id /\ request' = request
      BY <1>b, <2>4 DEF Create, End
    <3>3. k \in RowsOf(request[c].id)'
      BY <1>0, <2>4, <3>2 DEF Create, RowsOf, TypeOK
    <3>4. Done(c)' /\ Method(c) \notin Futile
      BY <2>1, <3>2, <3>3 DEF Done, Exists, Method, Futile
    <3> QED BY <1>0, <2>1, <2>4, <3>1, <3>4, EndTrue
  <2> QED BY <1>3, <2>2, <2>3, <2>4 DEF SaveWallet
<1>4. ASSUME NEW c \in Sessions, StopWallet(c) PROVE AnswerInv'
  <2>1. pc[c] = "handle" /\ Method(c) = "StopMonitoring"
    BY <1>4 DEF StopWallet, Handling
  <2>2. ASSUME NEW k \in Keys, Get(c, k),
               UNCHANGED <<pc, request, answer, holder, todo, wrote, asked>>
        PROVE  AnswerInv'
    <3>1. \A s \in Sessions : serving'[s].pc # "idle" =>
             serving[s].pc # "idle" /\ serving'[s].id = serving[s].id
      BY <1>0, <2>2 DEF Get, Serve, TypeOK, Request
    <3> QED BY <1>0, <1>b, <2>2, <3>1, NoEnd
  <2>3. CASE (GetNothing(c) \/ Update(c)) /\ End(c, "SUCCESS")
    <3>1. \A s \in Sessions : serving'[s] = serving[s] \/ serving'[s].pc = "idle"
      BY <1>0, <2>3 DEF GetNothing, Update, Serve, Idle, TypeOK
    <3>2. Done(c)' /\ Method(c) \notin Futile
      BY <2>1, <2>3 DEF End, Done, Method, Futile
    <3> QED BY <1>0, <2>1, <2>3, <3>1, <3>2, EndTrue
  <2> QED BY <1>4, <2>2, <2>3 DEF StopWallet
<1>5. ASSUME NEW c \in Sessions, NEW t \in Trxs, UpdateNext(c, t) PROVE AnswerInv'
  <2>1. /\ UNCHANGED <<vars, pc, request, answer, trx>>
        /\ wrote' = wrote \/ (trx[t] \in Stored /\ wrote' = [wrote EXCEPT ![c] = @ \cup {t}])
    BY <1>5 DEF UpdateNext, Stored
  <2>2. UNCHANGED <<ext, serving>> /\ \A d \in Sessions : Done(d)' = Done(d) /\ Method(d)' = Method(d)
    BY <2>1 DEF vars, Done, Method, Exists, RowsOf
  <2>3. \A d \in Sessions : \A u \in wrote'[d] : trx[u] \in Stored
    BY <1>0, <2>1 DEF AnswerInv, Core
  <2> QED BY <2>1, <2>2, <2>3 DEF AnswerInv
<1>6. ASSUME NEW c \in Sessions, UpdateAll(c) PROVE AnswerInv'
  <2>1. /\ pc[c] = "handle" /\ Method(c) = "UpdateTrx" /\ End(c, "SUCCESS") /\ UNCHANGED vars
    BY <1>6 DEF UpdateAll, Handling
  <2>2. Done(c)' /\ Method(c) \notin Futile
    BY <2>1 DEF End, Done, Method, Futile
  <2> QED BY <1>0, <2>1, <2>2, EndTrue DEF vars
<1>7. ASSUME NEW c \in Sessions, NEW t \in Trxs, AddInputTransaction(c, t) PROVE AnswerInv'
  <2>1. /\ pc[c] = "handle" /\ Method(c) = "AddInputTransaction" /\ UNCHANGED vars
        /\ t \in request[c].trxs
    BY <1>7 DEF AddInputTransaction, Handling
  <2>2. CASE End(c, "ERROR")
    BY <1>0, <2>1, <2>2, EndTrue DEF vars
  <2>3. CASE trx' = [trx EXCEPT ![t] = "entered"] /\ End(c, "SUCCESS")
    <3>1. \A u \in request[c].trxs : u = t
      BY <1>0, <1>a, <2>1, SingleAssumption DEF Core, Method
    <3>2. Done(c)' /\ Method(c) \notin Futile
      BY <1>0, <2>1, <2>3, <3>1 DEF End, Done, Method, Futile, Stored, Core
    <3> QED BY <1>0, <2>1, <2>3, <3>2, EndTrue DEF vars
  <2> QED BY <1>7, <2>2, <2>3 DEF AddInputTransaction
<1>8. ASSUME NEW c \in Sessions, NEW t \in Trxs, StartMonitoringPlatformWallet(c, t)
      PROVE  AnswerInv'
  <2>1. /\ pc[c] = "handle" /\ Method(c) = "StartMonitoringPlatformWallet" /\ UNCHANGED vars
        /\ t \in request[c].trxs
    BY <1>8 DEF StartMonitoringPlatformWallet, Handling
  <2>2. CASE End(c, "ERROR")
    BY <1>0, <2>1, <2>2, EndTrue DEF vars
  <2>3. CASE /\ trx' = IF "uuid" \in request[c].set THEN [trx EXCEPT ![t] = "announced"] ELSE trx
             /\ End(c, "SUCCESS")
    <3>1. \A u \in request[c].trxs : u = t
      BY <1>0, <1>a, <2>1, SingleAssumption DEF Core, Method
    <3>2. Done(c)' /\ Method(c) \notin Futile
      BY <1>0, <2>1, <2>3, <3>1 DEF End, Done, Method, Futile, Core
    <3> QED BY <1>0, <2>1, <2>3, <3>2, EndTrue DEF vars
  <2> QED BY <1>8, <2>2, <2>3 DEF StartMonitoringPlatformWallet
<1>9. ASSUME NEW c \in Sessions, StatementFails(c) \/ Cancel(c) PROVE AnswerInv'
  <2>1. /\ pc[c] \in {"waiting", "handle", "gateway"} /\ (End(c, "ERROR") \/ End(c, "lost"))
        /\ UNCHANGED vars \/ \E keep \in BOOLEAN : Abandon(c, keep)
    BY <1>9 DEF StatementFails, Cancel
  <2>2. \A s \in Sessions : serving'[s] = serving[s] \/ serving'[s].pc = "idle"
    BY <1>0, <2>1 DEF Abandon, Serve, Idle, TypeOK, vars
  <2> QED BY <1>0, <2>1, <2>2, EndTrue
<1>10. ASSUME NEW c \in Sessions, NEW msg \in Messages, Open(c, msg) PROVE AnswerInv'
  <2>1. /\ pc[c] = "idle" /\ pc' = [pc EXCEPT ![c] = "waiting"]
        /\ request' = [request EXCEPT ![c] = msg]
        /\ UNCHANGED <<ext, on, serving, answer, wrote, trx>>
    BY <1>10 DEF Open, Goto, vars
  <2>2. answer[c] = "none" /\ serving[c].pc = "idle"
    BY <1>0, <2>1 DEF AnswerInv, Core
  <2>3. \A d \in Sessions : d # c => request'[d] = request[d]
    BY <1>0, <2>1 DEF Core
  <2>4. \A d \in Sessions : d # c => Done(d)' = Done(d) /\ Method(d)' = Method(d)
    BY <2>1, <2>3 DEF Done, Method, Exists, RowsOf
  <2>5. \A d \in Sessions : d # c => pc'[d] = pc[d]
    BY <1>0, <1>a, <2>1 DEF Core
  <2> QED BY <2>1, <2>2, <2>3, <2>4, <2>5 DEF AnswerInv
<1>11. ASSUME NEW p \in Tasks, WakeMonitor \/ Connect(p) \/ Ask(p) \/ AllListed PROVE AnswerInv'
  <2>1. UNCHANGED <<vars, request, answer, wrote>>
    BY <1>11 DEF WakeMonitor, Connect, Ask, AllListed, EndPass
  <2>2. \A c \in Sessions : pc[c] = "ended" => pc'[c] = "ended"
    BY <1>0, <1>a, <1>11 DEF WakeMonitor, Connect, Ask, AllListed, EndPass, Goto, Core
  <2> QED BY <1>0, <1>b, <2>1, <2>2, NoEnd DEF vars
<1>12. ASSUME NEW p \in Tasks, NoAnswer(p) PROVE AnswerInv'
  <2>1. pc[p] = "gateway" /\ UNCHANGED vars
    BY <1>12 DEF NoAnswer
  <2>2. CASE p = Monitor
    BY <1>0, <1>a, <1>b, <1>12, <2>1, <2>2, NoEnd DEF NoAnswer, EndPass, vars, Core
  <2>3. CASE p # Monitor
    BY <1>0, <1>12, <2>1, <2>3, EndTrue DEF NoAnswer, Tasks, vars
  <2> QED BY <2>2, <2>3
<1>13. ASSUME NEW p \in Tasks, NEW status \in Wire!GatewayStatus, NEW keys \in BalanceKeys,
              NEW low \in BOOLEAN, Receive(p, status, keys, low)
       PROVE  AnswerInv'
  <2>1. pc[p] = "gateway" /\ UNCHANGED vars
    BY <1>13 DEF Receive
  <2>2. CASE p = Monitor
    <3>1. /\ UNCHANGED <<request, answer, wrote>>
          /\ \A c \in Sessions : pc[c] = "ended" => pc'[c] = "ended"
      BY <1>0, <1>a, <1>13, <2>2 DEF Receive, EndPass, Goto, Core
    <3> QED BY <1>0, <1>b, <2>1, <3>1, NoEnd DEF vars
  <2>3. CASE p # Monitor
    <3>1. End(p, "ERROR") /\ p \in Sessions
      BY <1>13, <2>3, NoBalance DEF Receive, Tasks
    <3> QED BY <1>0, <2>1, <3>1, EndTrue DEF vars
  <2> QED BY <2>2, <2>3
<1>14. CASE UNCHANGED allVars
  <2>1. UNCHANGED <<ext, serving, pc, request, answer, wrote, trx>>
    BY <1>14 DEF allVars, serviceVars, vars
  <2> QED BY <1>0, <1>b, <2>1, NoEnd
<1> QED BY <1>1, <1>2, <1>3, <1>4, <1>5, <1>6, <1>7, <1>8, <1>9, <1>10, <1>11, <1>12, <1>13, <1>14,
           <1>a
        DEF ServiceNext, Work

-----------------------------------------------------------------------------
(* The loop of UpdateTrx.                                                    *)

\* What the loop has passed and the table has is among its updates.
Loop(c) ==
  /\ wrote[c] # {} => Handling(c, "UpdateTrx")
  /\ Handling(c, "UpdateTrx") =>
       /\ todo[c] \subseteq request[c].trxs
       /\ wrote[c] \subseteq request[c].trxs \ todo[c]
       /\ \A t \in request[c].trxs \ todo[c] : trx[t] \in Stored => t \in wrote[c]

LoopInv == \A c \in Sessions : Loop(c)

(* Whoever is busy is alone, so that the rows a loop has passed stay.        *)
LEMMA LoopKept ==
  ASSUME Core, NEW d \in Sessions, Loop(d), trx' = trx \/ pc[d] \notin Busy,
         request'[d] = request[d], todo'[d] = todo[d], wrote'[d] = wrote[d], pc'[d] = pc[d]
  PROVE  Loop(d)'
<1>1. CASE trx' = trx
  BY <1>1 DEF Loop, Handling, Method
<1>2. CASE pc[d] \notin Busy
  BY <1>2 DEF Loop, Handling, Busy
<1> QED BY <1>1, <1>2

LEMMA LoopEnds ==
  ASSUME Core, LoopInv, NEW c \in Sessions, NEW a, End(c, a), trx' = trx \/ pc[c] \in Busy
  PROVE  LoopInv'
<1>1. /\ pc' = [pc EXCEPT ![c] = "ended"] /\ request' = request
      /\ todo' = [todo EXCEPT ![c] = {}] /\ wrote' = [wrote EXCEPT ![c] = {}]
  BY DEF End
<1>2. Loop(c)'
  BY <1>1 DEF Core, Loop, Handling, Tasks
<1>3. ASSUME NEW d \in Sessions, d # c PROVE Loop(d)'
  <2>1. trx' = trx \/ pc[d] \notin Busy
    BY <1>3 DEF Core, Tasks
  <2>2. /\ request'[d] = request[d] /\ todo'[d] = todo[d]
        /\ wrote'[d] = wrote[d] /\ pc'[d] = pc[d]
    BY <1>1, <1>3 DEF Core, Tasks
  <2> QED BY <2>1, <2>2, LoopKept DEF LoopInv
<1> QED BY <1>2, <1>3 DEF LoopInv

\* A step of p that is not the end of a call and leaves the rows alone.
LEMMA LoopGoesOn ==
  ASSUME Core, LoopInv, NEW p \in Tasks, trx' = trx,
         \A d \in Sessions \ {p} : /\ request'[d] = request[d] /\ todo'[d] = todo[d]
                                   /\ wrote'[d] = wrote[d] /\ pc'[d] = pc[d],
         p \in Sessions => Loop(p)'
  PROVE  LoopInv'
BY LoopKept DEF LoopInv

LEMMA LoopStep == ServiceInv /\ LoopInv /\ [ServiceNext]_allVars => LoopInv'
<1> SUFFICES ASSUME ServiceInv, LoopInv, [ServiceNext]_allVars PROVE LoopInv'
  OBVIOUS
<1>0. Core /\ Monitor \in Tasks /\ Monitor \notin Sessions /\ Sessions \subseteq Tasks
  BY Parts, TaskAssumption DEF Tasks
<1>1. ASSUME NEW c \in Sessions, Escape(c) \/ Refuse(c) \/ Healthz(c) \/ GetInputTransactions(c)
      PROVE  LoopInv'
  BY <1>0, <1>1, LoopEnds DEF Escape, Refuse, Healthz, GetInputTransactions
<1>2. ASSUME NEW c \in Sessions, Accept(c) PROVE LoopInv'
  <2>1. /\ pc[c] = "parse" /\ trx' = trx /\ UNCHANGED <<request, wrote>>
        /\ pc' = [pc EXCEPT ![c] = "handle"]
        /\ todo' = [todo EXCEPT ![c] = IF Method(c) = "UpdateTrx" THEN request[c].trxs ELSE {}]
    BY <1>2 DEF Accept, Goto
  <2>2. wrote[c] = {}
    BY <1>0, <2>1 DEF LoopInv, Loop, Handling
  <2>3. Loop(c)'
    BY <1>0, <2>1, <2>2 DEF Loop, Handling, Method, Core
  <2> QED BY <1>0, <2>1, <2>3, LoopGoesOn DEF Core
<1>3. ASSUME NEW c \in Sessions, SaveWallet(c) \/ StopWallet(c) PROVE LoopInv'
  <2>1. /\ trx' = trx
        /\ End(c, "ERROR") \/ End(c, "SUCCESS") \/ UNCHANGED <<pc, request, todo, wrote>>
    BY <1>3 DEF SaveWallet, StopWallet
  <2>2. CASE UNCHANGED <<pc, request, todo, wrote>>
    BY <1>0, <2>1, <2>2, LoopKept DEF LoopInv
  <2> QED BY <1>0, <2>1, <2>2, LoopEnds
<1>4. ASSUME NEW c \in Sessions, NEW t \in Trxs, UpdateNext(c, t) PROVE LoopInv'
  <2>1. /\ Handling(c, "UpdateTrx") /\ t \in todo[c] /\ UNCHANGED <<pc, request, trx>>
        /\ todo' = [todo EXCEPT ![c] = @ \ {t}]
        /\ wrote' = IF trx[t] \in Stored THEN [wrote EXCEPT ![c] = @ \cup {t}] ELSE wrote
    BY <1>4 DEF UpdateNext, Stored
  <2>2. /\ todo'[c] = todo[c] \ {t}
        /\ wrote'[c] = IF trx[t] \in Stored THEN wrote[c] \cup {t} ELSE wrote[c]
    BY <1>0, <2>1 DEF Core
  <2>3. t \in request[c].trxs
    BY <2>1 DEF LoopInv, Loop
  <2>4. Loop(c)'
    BY <2>1, <2>2, <2>3 DEF LoopInv, Loop, Handling, Method
  <2> QED BY <1>0, <2>1, <2>4, LoopGoesOn DEF Core
<1>5. ASSUME NEW c \in Sessions, UpdateAll(c) PROVE LoopInv'
  BY <1>0, <1>5, LoopEnds DEF UpdateAll, Handling, Busy
<1>6. ASSUME NEW c \in Sessions, NEW t \in Trxs,
             AddInputTransaction(c, t) \/ StartMonitoringPlatformWallet(c, t)
      PROVE  LoopInv'
  BY <1>0, <1>6, LoopEnds DEF AddInputTransaction, StartMonitoringPlatformWallet, Handling, Busy
<1>7. ASSUME NEW c \in Sessions, StatementFails(c) PROVE LoopInv'
  BY <1>0, <1>7, LoopEnds DEF StatementFails, Busy
<1>8. ASSUME NEW c \in Sessions, Cancel(c) PROVE LoopInv'
  <2>1. CASE pc[c] = "waiting"
    <3>1. wrote[c] = {}
      BY <2>1 DEF LoopInv, Loop, Handling
    <3>2. trx' = trx
      BY <1>0, <1>8, <3>1 DEF Cancel, WithUpdates, Core
    <3> QED BY <1>0, <1>8, <3>2, LoopEnds DEF Cancel
  <2>2. CASE pc[c] # "waiting"
    BY <1>0, <1>8, <2>2, LoopEnds DEF Cancel, Busy
  <2> QED BY <2>1, <2>2
<1>9. ASSUME NEW c \in Sessions, NEW msg \in Messages, Open(c, msg) PROVE LoopInv'
  <2>1. /\ pc[c] = "idle" /\ pc' = [pc EXCEPT ![c] = "waiting"]
        /\ request' = [request EXCEPT ![c] = msg] /\ UNCHANGED <<todo, wrote, trx>>
    BY <1>9 DEF Open, Goto
  <2>2. Loop(c)'
    BY <1>0, <2>1 DEF LoopInv, Loop, Handling, Core
  <2> QED BY <1>0, <2>1, <2>2, LoopGoesOn DEF Core
<1>10. ASSUME WakeMonitor \/ AllListed PROVE LoopInv'
  BY <1>0, <1>10, LoopGoesOn DEF WakeMonitor, AllListed, EndPass, Goto, Core
<1>11. ASSUME NEW p \in Tasks, Connect(p) PROVE LoopInv'
  <2>1. /\ pc[p] = "waiting" /\ UNCHANGED <<request, wrote, trx>>
        /\ \A q \in Tasks \ {p} : pc'[q] = pc[q] /\ todo'[q] = todo[q]
        /\ p \in Sessions => pc'[p] = "parse"
    BY <1>0, <1>11 DEF Connect, Goto, Core
  <2>2. p \in Sessions => Loop(p)'
    BY <2>1 DEF LoopInv, Loop, Handling
  <2> QED BY <1>0, <2>1, <2>2, LoopGoesOn
<1>12. ASSUME NEW p \in Tasks, Ask(p) PROVE LoopInv'
  <2>1. /\ pc[p] = "handle" /\ UNCHANGED <<request, wrote, trx>>
        /\ \A q \in Tasks \ {p} : pc'[q] = pc[q] /\ todo'[q] = todo[q]
        /\ p \in Sessions => pc'[p] = "gateway" /\ Method(p) = "CheckBalance"
    BY <1>0, <1>12 DEF Ask, Goto, Core
  <2>2. p \in Sessions => Loop(p)'
    BY <2>1 DEF LoopInv, Loop, Handling
  <2> QED BY <1>0, <2>1, <2>2, LoopGoesOn
<1>13. ASSUME NEW p \in Tasks, NoAnswer(p) PROVE LoopInv'
  <2>1. CASE p = Monitor
    BY <1>0, <1>13, <2>1, LoopGoesOn DEF NoAnswer, EndPass, Core
  <2>2. CASE p # Monitor
    BY <1>0, <1>13, <2>2, LoopEnds DEF NoAnswer, Tasks
  <2> QED BY <2>1, <2>2
<1>14. ASSUME NEW p \in Tasks, NEW status \in Wire!GatewayStatus, NEW keys \in BalanceKeys,
              NEW low \in BOOLEAN, Receive(p, status, keys, low)
       PROVE  LoopInv'
  <2>1. CASE p = Monitor
    BY <1>0, <1>14, <2>1, LoopGoesOn DEF Receive, EndPass, Goto, Core
  <2>2. CASE p # Monitor
    <3>1. p \in Sessions /\ trx' = trx /\ \E a \in {BalanceAnswer(keys, low), "ERROR"} : End(p, a)
      BY <1>14, <2>2 DEF Receive, Tasks
    <3> QED BY <1>0, <3>1, LoopEnds
  <2> QED BY <2>1, <2>2
<1>15. CASE UNCHANGED allVars
  BY <1>0, <1>15, LoopKept DEF LoopInv, allVars, serviceVars
<1> QED BY <1>0, <1>1, <1>2, <1>3, <1>4, <1>5, <1>6, <1>7, <1>8, <1>9, <1>10, <1>11, <1>12, <1>13,
           <1>14, <1>15
        DEF ServiceNext, Work

-----------------------------------------------------------------------------
\* A step that changes the tables answers SUCCESS, or nobody, or is an
\* UpdateTrx that ends with ERROR.
Told ==
  <<ext, on, trx>>' # <<ext, on, trx>> =>
    \E c \in Sessions :
      /\ pc[c] # "ended"
      /\ \/ answer'[c] \in {"SUCCESS", "lost"}
         \/ /\ answer'[c] = "ERROR" /\ Method(c) = "UpdateTrx"
            /\ UNCHANGED <<ext, on>>
            /\ \A t \in Trxs : trx'[t] # trx[t] =>
                 /\ t \in request[c].trxs \ todo[c]
                 /\ trx[t] = "entered" /\ trx'[t] = "confirmed"

(* What ends a call other than with ERROR may change the tables.             *)
LEMMA Answered ==
  ASSUME ServiceInv, NEW c \in Sessions, pc[c] # "ended", End(c, "SUCCESS") \/ End(c, "lost")
  PROVE  Told
<1>1. Core
  BY Parts
<1>2. answer'[c] \in {"SUCCESS", "lost"}
  BY <1>1 DEF End, Core
<1> QED BY <1>2 DEF Told

LEMMA ToldStep == ServiceInv /\ AnswerInv /\ LoopInv /\ [ServiceNext]_allVars => Told
<1> SUFFICES ASSUME ServiceInv, AnswerInv, LoopInv, [ServiceNext]_allVars PROVE Told
  OBVIOUS
<1>s. CASE UNCHANGED <<ext, on, trx>>
  BY <1>s DEF Told
<1>1. ASSUME NEW c \in Sessions, Escape(c) \/ Refuse(c) \/ Healthz(c) \/ GetInputTransactions(c)
      PROVE  Told
  BY <1>1, <1>s DEF Escape, Refuse, Healthz, GetInputTransactions, vars
<1>2. ASSUME NEW c \in Sessions, Accept(c) PROVE Told
  BY <1>2, <1>s DEF Accept, StartMonitoring, StopMonitoring, vars
<1>3. ASSUME NEW c \in Sessions, SaveWallet(c) PROVE Told
  BY <1>3, <1>s, Answered DEF SaveWallet, Handling, Look
<1>4. ASSUME NEW c \in Sessions, StopWallet(c) PROVE Told
  BY <1>4, <1>s, Answered DEF StopWallet, Handling, Get
<1>5. ASSUME NEW c \in Sessions, UpdateAll(c) PROVE Told
  BY <1>5, Answered DEF UpdateAll, Handling
<1>6. ASSUME NEW c \in Sessions, NEW t \in Trxs,
             UpdateNext(c, t) \/ AddInputTransaction(c, t) \/ StartMonitoringPlatformWallet(c, t)
      PROVE  Told
  BY <1>6, <1>s, Answered
  DEF UpdateNext, AddInputTransaction, StartMonitoringPlatformWallet, Handling, vars
\* An aborted transaction is rolled back; if it is not aborted, what has been
\* updated is committed.
<1>7. ASSUME NEW c \in Sessions, StatementFails(c) PROVE Told
  <2>1. Core /\ c \in Tasks /\ pc[c] = "handle" /\ UNCHANGED <<ext, on>> /\ End(c, "ERROR")
    BY <1>7, Parts DEF StatementFails, Abandon, vars, Tasks
  <2>2. CASE trx' = trx
    BY <1>s, <2>1, <2>2
  <2>3. CASE trx' = WithUpdates(wrote[c])
    <3>1. CASE wrote[c] = {}
      BY <1>s, <2>1, <2>3, <3>1 DEF WithUpdates, Core
    <3>2. CASE wrote[c] # {}
      <4>1. Handling(c, "UpdateTrx") /\ wrote[c] \subseteq request[c].trxs \ todo[c]
        BY <3>2 DEF LoopInv, Loop
      <4>2. answer'[c] \in {"ERROR", "lost"}
        BY <2>1 DEF End, Core
      <4>3. ASSUME NEW t \in Trxs, trx'[t] # trx[t]
            PROVE  t \in wrote[c] /\ trx[t] = "entered" /\ trx'[t] = "confirmed"
        BY <2>3, <4>3 DEF WithUpdates, AnswerInv, Stored
      <4> QED BY <2>1, <4>1, <4>2, <4>3 DEF Told, Handling
    <3> QED BY <3>1, <3>2
  <2> QED BY <1>7, <2>2, <2>3 DEF StatementFails, AfterError
\* What was done so far is committed, but nobody is told.
<1>8. ASSUME NEW c \in Sessions, Cancel(c) PROVE Told
  BY <1>8, Answered DEF Cancel
<1>9. ASSUME NEW c \in Sessions, NEW msg \in Messages, Open(c, msg) PROVE Told
  BY <1>9, <1>s DEF Open, vars
<1>10. ASSUME NEW p \in Tasks, WakeMonitor \/ Connect(p) \/ Ask(p) \/ AllListed \/ NoAnswer(p)
       PROVE  Told
  BY <1>10, <1>s DEF WakeMonitor, Connect, Ask, AllListed, NoAnswer, vars
<1>11. ASSUME NEW p \in Tasks, NEW status \in Wire!GatewayStatus, NEW keys \in BalanceKeys,
              NEW low \in BOOLEAN, Receive(p, status, keys, low)
       PROVE  Told
  BY <1>11, <1>s DEF Receive, vars
<1>12. CASE UNCHANGED allVars
  BY <1>12, <1>s DEF allVars, serviceVars, vars
<1> QED BY <1>1, <1>2, <1>3, <1>4, <1>5, <1>6, <1>7, <1>8, <1>9, <1>10, <1>11, <1>12, TaskAssumption
        DEF ServiceNext, Work, Tasks

-----------------------------------------------------------------------------
(* What an answer of SUCCESS says is complete.                               *)

Complete(c) ==
  /\ Method(c) = "UpdateTrx" => \A t \in request[c].trxs : trx'[t] # "entered"
  /\ Method(c) = "StopMonitoring" =>
       Shared(request[c].id) \/ RowsOf(request[c].id)' \cap on' = {}

(* The answer of a call that ends is its own.                                *)
LEMMA OwnAnswer ==
  ASSUME Core, NEW c \in Sessions, NEW a \in {"ERROR", "escaped", "lost", "SUCCESS"}, End(c, a),
         NEW d \in Sessions, answer[d] = "none", answer'[d] = "SUCCESS"
  PROVE  d = c /\ a = "SUCCESS"
BY DEF End, Core

LEMMA CompleteStep ==
  ASSUME ServiceInv, AnswerInv, LoopInv, [ServiceNext]_allVars,
         NEW d \in Sessions, answer[d] = "none", answer'[d] = "SUCCESS"
  PROVE  Complete(d)
<1>0. /\ Core /\ RegistryInv /\ TypeOK
      /\ Monitor \in Tasks /\ Monitor \notin Sessions /\ Sessions \subseteq Tasks
  BY Parts, TaskAssumption DEF Tasks, RegistryInv
<1>1. ASSUME NEW c \in Sessions, Escape(c) \/ Refuse(c) \/ Healthz(c) \/ GetInputTransactions(c)
      PROVE  Complete(d)
  BY <1>0, <1>1, OwnAnswer
  DEF Escape, Refuse, Healthz, GetInputTransactions, Complete, Handling
<1>2. ASSUME NEW c \in Sessions, Accept(c) PROVE Complete(d)
  BY <1>2 DEF Accept
<1>3. ASSUME NEW c \in Sessions, SaveWallet(c) PROVE Complete(d)
  BY <1>0, <1>3, OwnAnswer DEF SaveWallet, Complete, Handling
<1>4. ASSUME NEW c \in Sessions, StopWallet(c) PROVE Complete(d)
  <2> DEFINE id == request[c].id
  <2>1. Method(c) = "StopMonitoring"
    BY <1>4 DEF StopWallet, Handling
  <2>2. CASE UNCHANGED answer
    BY <2>2
  <2>3. CASE GetNothing(c) /\ End(c, "SUCCESS")
    <3>1. d = c /\ serving[c].id = id /\ ext' = ext /\ RowsOf(serving[c].id) = {}
      BY <1>0, <2>3, OwnAnswer DEF GetNothing, AnswerInv, Exists
    <3>2. request' = request
      BY <2>3 DEF End
    <3> QED BY <2>1, <3>1, <3>2 DEF Complete, RowsOf
  <2>4. CASE Update(c) /\ End(c, "SUCCESS")
    <3>1. d = c /\ serving[c].id = id /\ ext' = ext /\ request' = request
      BY <1>0, <2>4, OwnAnswer DEF Update, AnswerInv, End
    <3>2. PICK k \in RowsOf(id) : serving[c].key = {k}
      BY <1>0, <2>4, <3>1 DEF Update, RegistryInv
    <3>3. on' = on \ {k} /\ id \in Ids
      BY <1>0, <2>4, <3>1, <3>2 DEF Update, AfterUpdate, TypeOK
    <3>4. ~Shared(id) => RowsOf(id) = {k}
      BY <1>0, <3>2, <3>3, IdAssumption DEF RegistryInv, OneWalletPerId, Rows, RowsOf, Shared
    <3> QED BY <2>1, <3>1, <3>3, <3>4 DEF Complete, RowsOf
  <2> QED BY <1>4, <2>2, <2>3, <2>4 DEF StopWallet
<1>5. ASSUME NEW c \in Sessions, UpdateAll(c) PROVE Complete(d)
  <2>1. /\ Handling(c, "UpdateTrx") /\ d = c /\ todo[c] = {} /\ trx' = WithUpdates(wrote[c])
        /\ request[c].trxs \subseteq Trxs
    BY <1>0, <1>5, OwnAnswer, MessageAssumption DEF UpdateAll, Looped, Core, Handling
  <2>2. \A t \in request[c].trxs : trx[t] \in Stored => t \in wrote[c]
    BY <2>1 DEF LoopInv, Loop
  <2> QED BY <2>1, <2>2 DEF Complete, Handling, WithUpdates, Stored
<1>6. ASSUME NEW c \in Sessions, NEW t \in Trxs,
             UpdateNext(c, t) \/ AddInputTransaction(c, t) \/ StartMonitoringPlatformWallet(c, t)
      PROVE  Complete(d)
  BY <1>0, <1>6, OwnAnswer
  DEF UpdateNext, AddInputTransaction, StartMonitoringPlatformWallet, Complete, Handling
<1>7. ASSUME NEW c \in Sessions, StatementFails(c) \/ Cancel(c) PROVE Complete(d)
  BY <1>0, <1>7, OwnAnswer DEF StatementFails, Cancel
<1>8. ASSUME NEW c \in Sessions, NEW msg \in Messages, Open(c, msg) PROVE Complete(d)
  BY <1>8 DEF Open
<1>9. ASSUME NEW p \in Tasks, WakeMonitor \/ Connect(p) \/ Ask(p) \/ AllListed PROVE Complete(d)
  BY <1>9 DEF WakeMonitor, Connect, Ask, AllListed, EndPass
<1>10. ASSUME NEW p \in Tasks, NoAnswer(p) PROVE Complete(d)
  BY <1>0, <1>10, OwnAnswer DEF NoAnswer, EndPass, Tasks
<1>11. ASSUME NEW p \in Tasks, NEW status \in Wire!GatewayStatus, NEW keys \in BalanceKeys,
              NEW low \in BOOLEAN, Receive(p, status, keys, low)
       PROVE  Complete(d)
  BY <1>0, <1>11, NoBalance, OwnAnswer DEF Receive, EndPass, Tasks
<1>12. CASE UNCHANGED allVars
  BY <1>12 DEF allVars, serviceVars
<1> QED BY <1>0, <1>1, <1>2, <1>3, <1>4, <1>5, <1>6, <1>7, <1>8, <1>9, <1>10, <1>11, <1>12
        DEF ServiceNext, Work

-----------------------------------------------------------------------------
(* The inductive invariant behind the answers.                               *)
THEOREM AnswersCorrect == ServiceSpec => []AnswerInv
<1>1. ServiceInit => AnswerInv
  BY DEF ServiceInit, Init, Idle, AnswerInv, Tasks
<1> QED BY <1>1, AnswerStep, ServiceCorrect, PTL DEF ServiceSpec

(* What the loop of UpdateTrx has passed stays as it has left it, whoever    *)
(* else is at work.                                                          *)
THEOREM LoopsCorrect == ServiceSpec => []LoopInv
<1>1. ServiceInit => LoopInv
  BY DEF ServiceInit, LoopInv, Loop, Handling, Tasks
<1> QED BY <1>1, LoopStep, ServiceCorrect, PTL DEF ServiceSpec

(* A caller that has been answered SUCCESS finds the wallet or the           *)
(* transaction of its message in the tables, then and whatever other calls,  *)
(* interrupted or refused, do to them later.                                 *)
THEOREM AnswersTrue == ServiceSpec => []SuccessMeansDone
<1>1. AnswerInv => SuccessMeansDone
  BY DEF AnswerInv, Done, Stored, SuccessMeansDone
<1> QED BY <1>1, AnswersCorrect, PTL

(* SUCCESS of UpdateTrx leaves no transaction of the batch unconfirmed, and  *)
(* SUCCESS of StopMonitoring no row of a wallet of its own id monitored,     *)
(* whatever has happened between the statements of the call.                 *)
THEOREM AnswersComplete == ServiceSpec => NothingLeftUndone
<1>1. ServiceInv /\ AnswerInv /\ LoopInv /\ [ServiceNext]_allVars =>
        [\A c \in Sessions : answer[c] = "none" /\ answer'[c] = "SUCCESS" => Complete(c)]_allVars
  BY CompleteStep
<1>2. ServiceInv /\ AnswerInv /\ LoopInv /\ [ServiceNext]_allVars =>
        [\A c \in Sessions : answer[c] = "none" /\ answer'[c] = "SUCCESS" =>
           /\ Method(c) = "UpdateTrx" => \A t \in request[c].trxs : trx'[t] # "entered"
           /\ Method(c) = "StopMonitoring" =>
                Shared(request[c].id) \/ RowsOf(request[c].id)' \cap on' = {}]_allVars
  BY <1>1 DEF Complete
<1> QED BY <1>2, AnswersCorrect, LoopsCorrect, ServiceCorrect, PTL
        DEF ServiceSpec, NothingLeftUndone

(* A caller that is told of an error finds the tables as they were, though   *)
(* the handler catches every exception inside of its database transaction:   *)
(* only UpdateTrx may have confirmed the part of its batch it had come to.   *)
THEOREM ErrorsLeaveUpdates == ServiceSpec => OnlyUpdatesOutliveErrors
<1>1. ServiceInv /\ AnswerInv /\ LoopInv /\ [ServiceNext]_allVars => [Told]_allVars
  BY ToldStep
<1>2. ServiceInv /\ AnswerInv /\ LoopInv /\ [ServiceNext]_allVars =>
        [<<ext, on, trx>>' # <<ext, on, trx>> =>
           \E c \in Sessions :
             /\ pc[c] # "ended"
             /\ \/ answer'[c] \in {"SUCCESS", "lost"}
                \/ /\ answer'[c] = "ERROR" /\ Method(c) = "UpdateTrx"
                   /\ UNCHANGED <<ext, on>>
                   /\ \A t \in Trxs : trx'[t] # trx[t] =>
                        /\ t \in request[c].trxs \ todo[c]
                        /\ trx[t] = "entered" /\ trx'[t] = "confirmed"]_allVars
  BY <1>1 DEF Told
<1> QED BY <1>2, AnswersCorrect, LoopsCorrect, ServiceCorrect, PTL
        DEF ServiceSpec, OnlyUpdatesOutliveErrors

(* CheckBalance and GetInputTransactions are never answered SUCCESS: the     *)
(* schema of the one does not know a field that every answer of the gateway  *)
(* shows, and the query of the other names a status that does not exist.     *)
THEOREM NeverAnswered ==
  ServiceSpec => [](\A c \in Sessions : answer[c] = "SUCCESS" => Method(c) \notin Futile)
<1>1. AnswerInv => \A c \in Sessions : answer[c] = "SUCCESS" => Method(c) \notin Futile
  BY DEF AnswerInv
<1> QED BY <1>1, AnswersCorrect, PTL
=============================================================================
