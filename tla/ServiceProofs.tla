---------------------------- MODULE ServiceProofs ----------------------------
(***************************************************************************)
(* Proofs about Service, for any number of calls, any messages and any      *)
(* wallets: the replica implements Registry, and its single connection      *)
(* keeps calls and passes from meddling with one another.                   *)
(***************************************************************************)
EXTENDS Service, RegistryProofs, FiniteSetTheorems

Busy == {"parse", "handle", "gateway"}

Labels == {"idle", "waiting", "parse", "handle", "gateway", "ended"}

\* The part of the invariant that is not Registry's.
Core ==
  /\ pc \in [Tasks -> Labels]
  /\ request \in [Sessions -> Messages \cup {Nobody}]
  /\ answer \in [Sessions -> Answers]
  /\ holder \in SUBSET Tasks
  /\ todo \in [Tasks -> SUBSET (Keys \cup Trxs)]
  /\ wrote \in [Sessions -> SUBSET Trxs]
  /\ trx \in [Trxs -> {"absent", "announced", "entered", "confirmed"}]
  /\ asked \in SUBSET Keys
  /\ text \in Tasks \cup {Nobody}
  /\ about \in [Sessions -> Tasks \cup {Nobody}]
  /\ \A c \in Sessions : pc[c] # "idle" => request[c] \in Messages
  /\ \A p, q \in holder : p = q
  /\ \A p \in Tasks : p \in holder <=> pc[p] \in Busy
  /\ \A c \in Sessions : serving[c].pc # "idle" => pc[c] = "handle" /\ Method(c) \in Monitoring
  /\ pc[Monitor] \in {"handle", "gateway"} => todo[Monitor] \cup asked \subseteq on
  /\ asked # {} => pc[Monitor] = "gateway"
  /\ \A p \in Tasks : pc[p] = "gateway" => text = p
  /\ \A c \in Sessions : about[c] \in {c, Nobody}
  /\ cut = {}

LEMMA Parts == ServiceInv <=> RegistryInv /\ Core
BY DEF ServiceInv, ServiceTypeOK, RegistryInv, Core, Labels, Busy, OwnErrorText, NoStreamCut

(* A set without two members is empty or has one.                            *)
LEMMA OneHolder ==
  ASSUME NEW S, \A p, q \in S : p = q, Cardinality(S) < 1
  PROVE  S = {}
<1> SUFFICES ASSUME NEW p \in S PROVE FALSE
  OBVIOUS
<1>1. S = {p}
  OBVIOUS
<1>2. Cardinality(S) = 1
  BY <1>1, FS_Singleton
<1> QED BY <1>2

(* A call that ends leaves the rest as the invariant wants it.               *)
LEMMA EndCore ==
  ASSUME Core, NEW c \in Sessions, NEW a \in Answers, End(c, a),
         pc[c] \in Busy \/ (pc[c] = "waiting" /\ on' = on),
         \A s \in Sessions : serving'[s].pc # "idle" => s # c /\ serving[s].pc # "idle",
         trx' \in [Trxs -> {"absent", "announced", "entered", "confirmed"}],
         text' = text, cut' = {},
         about' = about \/ (pc[c] = "gateway" /\ about' = [about EXCEPT ![c] = text])
  PROVE  Core'
<1>1. PICK heard \in {a, "lost"} : answer' = [answer EXCEPT ![c] = heard]
  BY DEF End
<1>2. /\ pc' = [pc EXCEPT ![c] = "ended"] /\ holder' = holder \ {c}
      /\ todo' = [todo EXCEPT ![c] = {}] /\ wrote' = [wrote EXCEPT ![c] = {}]
      /\ request' = request /\ asked' = asked
  BY DEF End, Released
<1>3. "lost" \in Answers
  BY DEF Answers
<1>4. c # Monitor /\ c \in Tasks /\ Monitor \in Tasks /\ Sessions \subseteq Tasks
  BY TaskAssumption DEF Tasks
<1>5. /\ pc' \in [Tasks -> Labels] /\ answer' \in [Sessions -> Answers] /\ holder' \in SUBSET Tasks
      /\ todo' \in [Tasks -> SUBSET (Keys \cup Trxs)] /\ wrote' \in [Sessions -> SUBSET Trxs]
      /\ \A p \in Tasks : p \in holder' <=> pc'[p] \in Busy
      /\ \A p, q \in holder' : p = q
  BY <1>1, <1>2, <1>3, <1>4 DEF Core, Labels, Busy
<1>6. pc'[Monitor] \in {"handle", "gateway"} => todo'[Monitor] \cup asked' \subseteq on'
  <2>1. pc'[Monitor] = pc[Monitor] /\ todo'[Monitor] = todo[Monitor] /\ Monitor \in Tasks
    BY <1>2, <1>4 DEF Core
  <2>2. CASE on' = on
    BY <1>2, <2>1, <2>2 DEF Core
  <2>3. CASE pc[c] \in Busy
    <3>1. c \in holder /\ Monitor \notin holder
      BY <1>4, <2>3 DEF Core
    <3> QED BY <2>1, <3>1 DEF Core, Busy
  <2> QED BY <2>2, <2>3
<1>7. asked' # {} => pc'[Monitor] = "gateway"
  BY <1>2, <1>4 DEF Core
<1>8. \A p \in Tasks : pc'[p] = "gateway" => text' = p
  BY <1>2 DEF Core
<1>9. about' \in [Sessions -> Tasks \cup {Nobody}] /\ \A d \in Sessions : about'[d] \in {d, Nobody}
  <2>1. CASE about' = about
    BY <2>1 DEF Core
  <2>2. CASE pc[c] = "gateway" /\ about' = [about EXCEPT ![c] = text]
    <3>1. about' = [about EXCEPT ![c] = c]
      BY <1>4, <2>2 DEF Core
    <3> QED BY <1>4, <3>1 DEF Core
  <2> QED BY <2>1, <2>2
<1>10. \A d \in Sessions : serving'[d].pc # "idle" => pc'[d] = "handle" /\ Method(d)' \in Monitoring
  BY <1>2, <1>4 DEF Core, Method
<1>11. \A d \in Sessions : pc'[d] # "idle" => request'[d] \in Messages
  <2>1. pc[c] # "idle"
    BY DEF Busy
  <2> QED BY <1>2, <1>4, <2>1 DEF Core
<1>12. /\ request' \in [Sessions -> Messages \cup {Nobody}] /\ asked' \in SUBSET Keys
       /\ text' \in Tasks \cup {Nobody}
  BY <1>2 DEF Core
<1> QED BY <1>5, <1>6, <1>7, <1>8, <1>9, <1>10, <1>11, <1>12 DEF Core

-----------------------------------------------------------------------------
(* To the other calls and the pass a step is one of Registry's, or nothing.  *)
LEMMA Implements ==
  ASSUME Core, [ServiceNext]_allVars
  PROVE  [Next]_vars
<1>1. ASSUME NEW c \in Sessions, Cancel(c) PROVE [Next]_vars
  BY <1>1 DEF Cancel, Next
<1>2. ASSUME NEW c \in Sessions, StatementFails(c) PROVE [Next]_vars
  BY <1>2 DEF StatementFails, Next
<1>3. ASSUME NEW c \in Sessions, Accept(c) PROVE [Next]_vars
  <2>1. request[c].id \in Ids
    BY <1>3, MessageAssumption DEF Accept, Core, Tasks
  <2> QED BY <1>3, <2>1 DEF Accept, Next
<1>4. ASSUME NEW c \in Sessions, SaveWallet(c) PROVE [Next]_vars
  BY <1>4 DEF SaveWallet, Next
<1>5. ASSUME NEW c \in Sessions, StopWallet(c) PROVE [Next]_vars
  BY <1>5 DEF StopWallet, Next
<1>6. ASSUME NEW c \in Sessions, NEW msg \in Messages, Open(c, msg) PROVE UNCHANGED vars
  BY <1>6 DEF Open
<1>7. ASSUME WakeMonitor PROVE UNCHANGED vars
  BY <1>7 DEF WakeMonitor
<1>8. ASSUME NEW p \in Tasks, Connect(p) PROVE UNCHANGED vars
  BY <1>8 DEF Connect
<1>9. ASSUME NEW c \in Sessions, NEW t \in Trxs,
             UpdateNext(c, t) \/ AddInputTransaction(c, t) \/ StartMonitoringPlatformWallet(c, t)
      PROVE  UNCHANGED vars
  BY <1>9 DEF UpdateNext, AddInputTransaction, StartMonitoringPlatformWallet
<1>10. ASSUME NEW c \in Sessions,
              Escape(c) \/ Refuse(c) \/ Healthz(c) \/ GetInputTransactions(c) \/ UpdateAll(c)
       PROVE  UNCHANGED vars
  BY <1>10 DEF Escape, Refuse, Healthz, GetInputTransactions, UpdateAll
<1>11. ASSUME NEW p \in Tasks, AllListed \/ Ask(p) \/ NoAnswer(p) PROVE UNCHANGED vars
  BY <1>11 DEF AllListed, Ask, NoAnswer
<1>12. ASSUME NEW p \in Tasks, NEW status \in Wire!GatewayStatus, NEW keys \in BalanceKeys,
              NEW low \in BOOLEAN, Receive(p, status, keys, low)
       PROVE  UNCHANGED vars
  BY <1>12 DEF Receive
<1>13. CASE UNCHANGED allVars
  BY <1>13 DEF allVars
<1> QED BY <1>1, <1>2, <1>3, <1>4, <1>5, <1>6, <1>7, <1>8, <1>9, <1>10, <1>11, <1>12, <1>13
        DEF ServiceNext, Work

-----------------------------------------------------------------------------
TrxStates == {"absent", "announced", "entered", "confirmed"}

\* Whatever a call has written, the rows keep their type.
LEMMA TrxTyped ==
  ASSUME Core, NEW c \in Sessions
  PROVE  /\ WithUpdates(wrote[c]) \in [Trxs -> TrxStates]
         /\ \A aborted \in BOOLEAN : AfterError(c, aborted) \in [Trxs -> TrxStates]
BY DEF Core, WithUpdates, AfterError, TrxStates

(* A call that ends without a step of Registry.                              *)
LEMMA QuietEnd ==
  ASSUME Core, NEW c \in Sessions, NEW a \in Answers, End(c, a), UNCHANGED vars,
         pc[c] \in Busy \cup {"waiting"},
         pc[c] # "handle" \/ Method(c) \notin Monitoring,
         trx' \in [Trxs -> TrxStates], text' = text, cut' = {},
         about' = about \/ (pc[c] = "gateway" /\ about' = [about EXCEPT ![c] = text])
  PROVE  Core'
<1>1. on' = on /\ serving' = serving
  BY DEF vars
<1>2. \A s \in Sessions : serving'[s].pc # "idle" => s # c /\ serving[s].pc # "idle"
  BY <1>1 DEF Core
<1> QED BY <1>1, <1>2, EndCore DEF TrxStates

LEMMA CoreStep ==
  ASSUME ServiceInv, [ServiceNext]_allVars
  PROVE  Core'
<1>0. Core /\ TypeOK /\ {"ERROR", "SUCCESS", "escaped", "lost"} \subseteq Answers
  BY Parts DEF RegistryInv, Answers, Wire!ResponseStatus
<1>a. Monitor \in Tasks /\ Monitor \notin Sessions /\ Sessions \subseteq Tasks
  BY TaskAssumption DEF Tasks
<1>b. cut = {} /\ trx \in [Trxs -> TrxStates]
  BY <1>0 DEF Core, TrxStates
<1>1. ASSUME NEW c \in Sessions, Escape(c) \/ Refuse(c) \/ Healthz(c) \/ GetInputTransactions(c)
      PROVE  Core'
  <2>1. \E a \in Answers : End(c, a)
    BY <1>0, <1>1 DEF Escape, Refuse, Healthz, GetInputTransactions
  <2>2. /\ UNCHANGED <<vars, trx, text, about, cut>>
        /\ pc[c] \in Busy /\ (pc[c] # "handle" \/ Method(c) \notin Monitoring)
    BY <1>1 DEF Escape, Refuse, Healthz, GetInputTransactions, Handling, OffGateway, Busy, Monitoring
  <2> QED BY <1>0, <1>b, <2>1, <2>2, QuietEnd
<1>2. ASSUME NEW c \in Sessions, UpdateAll(c) PROVE Core'
  <2>1. End(c, "SUCCESS") /\ trx' \in [Trxs -> TrxStates]
    BY <1>0, <1>2, TrxTyped DEF UpdateAll
  <2>2. /\ UNCHANGED <<vars, text, about, cut>>
        /\ pc[c] \in Busy /\ Method(c) \notin Monitoring
    BY <1>2 DEF UpdateAll, Handling, OffGateway, Busy, Monitoring
  <2> QED BY <1>0, <1>b, <2>1, <2>2, QuietEnd
<1>3. ASSUME NEW c \in Sessions, NEW t \in Trxs,
             AddInputTransaction(c, t) \/ StartMonitoringPlatformWallet(c, t)
      PROVE  Core'
  <2>1. (\E a \in Answers : End(c, a)) /\ trx' \in [Trxs -> TrxStates]
    BY <1>0, <1>3, <1>b DEF AddInputTransaction, StartMonitoringPlatformWallet, TrxStates
  <2>2. /\ UNCHANGED <<vars, text, about, cut>>
        /\ pc[c] \in Busy /\ Method(c) \notin Monitoring
    BY <1>3 DEF AddInputTransaction, StartMonitoringPlatformWallet, Handling, OffGateway, Busy, Monitoring
  <2> QED BY <1>0, <1>b, <2>1, <2>2, QuietEnd
<1>4. ASSUME NEW c \in Sessions, SaveWallet(c) PROVE Core'
  <2>1. pc[c] = "handle" /\ Method(c) = "StartMonitoring" /\ UNCHANGED <<trx, text, about, cut>>
    BY <1>4 DEF SaveWallet, Handling, OffGateway
  <2>2. CASE Look(c) /\ Exists(serving[c].id) /\ End(c, "ERROR")
    <3>1. serving' = [serving EXCEPT ![c] = Idle]
      BY <1>0, <2>2 DEF Look, Serve
    <3>2. \A s \in Sessions : serving'[s].pc # "idle" => s # c /\ serving[s].pc # "idle"
      BY <1>0, <3>1 DEF TypeOK, Idle
    <3> QED BY <1>0, <1>b, <2>1, <2>2, <3>2, EndCore DEF Busy, TrxStates
  <2>3. CASE Look(c) /\ UNCHANGED <<pc, request, answer, holder, todo, wrote, asked>>
    <3>1. on' = on /\ \A s \in Sessions : s # c => serving'[s] = serving[s]
      BY <1>0, <2>3 DEF Look, Serve, TypeOK
    <3> QED BY <1>0, <2>1, <2>3, <3>1 DEF Core, Method, Monitoring
  <2>4. ASSUME NEW k \in Keys, Create(c, k), End(c, "SUCCESS") PROVE Core'
    <3>1. /\ serving' = [serving EXCEPT ![c] = Idle]
      BY <2>4 DEF Create, Serve
    <3>2. \A s \in Sessions : serving'[s].pc # "idle" => s # c /\ serving[s].pc # "idle"
      BY <1>0, <3>1 DEF TypeOK, Idle
    <3> QED BY <1>0, <1>b, <2>1, <2>4, <3>2, EndCore DEF Busy, TrxStates
  <2> QED BY <1>4, <2>2, <2>3, <2>4 DEF SaveWallet
<1>5. ASSUME NEW c \in Sessions, StopWallet(c) PROVE Core'
  <2>1. pc[c] = "handle" /\ Method(c) = "StopMonitoring" /\ UNCHANGED <<trx, text, about, cut>>
    BY <1>5 DEF StopWallet, Handling, OffGateway
  <2>2. ASSUME NEW k \in Keys, Get(c, k),
               UNCHANGED <<pc, request, answer, holder, todo, wrote, asked>>
        PROVE  Core'
    <3>1. on' = on /\ \A s \in Sessions : s # c => serving'[s] = serving[s]
      BY <1>0, <2>2 DEF Get, Serve, TypeOK
    <3> QED BY <1>0, <2>1, <2>2, <3>1 DEF Core, Method, Monitoring
  <2>3. CASE (GetNothing(c) \/ Update(c)) /\ End(c, "SUCCESS")
    <3>1. serving' = [serving EXCEPT ![c] = Idle]
      BY <2>3 DEF GetNothing, Update, Serve
    <3>2. \A s \in Sessions : serving'[s].pc # "idle" => s # c /\ serving[s].pc # "idle"
      BY <1>0, <3>1 DEF TypeOK, Idle
    <3> QED BY <1>0, <1>b, <2>1, <2>3, <3>2, EndCore DEF Busy, TrxStates
  <2> QED BY <1>5, <2>2, <2>3 DEF StopWallet
<1>6. ASSUME NEW c \in Sessions, StatementFails(c) PROVE Core'
  <2>1. /\ pc[c] = "handle" /\ End(c, "ERROR") /\ UNCHANGED <<text, about, cut>>
        /\ trx' \in [Trxs -> TrxStates]
    BY <1>0, <1>6, TrxTyped DEF StatementFails, OffGateway
  <2>2. CASE Method(c) \notin Monitoring
    BY <1>0, <1>b, <1>6, <2>1, <2>2, QuietEnd DEF StatementFails, Busy
  <2>3. CASE Abandon(c, FALSE)
    <3>1. serving' = [serving EXCEPT ![c] = Idle]
      BY <2>3 DEF Abandon, Serve
    <3>2. \A s \in Sessions : serving'[s].pc # "idle" => s # c /\ serving[s].pc # "idle"
      BY <1>0, <3>1 DEF TypeOK, Idle
    <3> QED BY <1>0, <1>b, <2>1, <3>2, EndCore DEF Busy, TrxStates
  <2> QED BY <1>6, <2>2, <2>3 DEF StatementFails
<1>7. ASSUME NEW c \in Sessions, Cancel(c) PROVE Core'
  <2>1. /\ pc[c] \in {"waiting", "handle", "gateway"} /\ End(c, "lost")
        /\ text' = text /\ about' = about /\ cut' = {} /\ trx' \in [Trxs -> TrxStates]
    BY <1>0, <1>b, <1>7, TrxTyped DEF Cancel
  <2>2. CASE ~(pc[c] = "handle" /\ Method(c) \in Monitoring)
    BY <1>0, <1>7, <2>1, <2>2, QuietEnd DEF Cancel, Busy
  <2>3. ASSUME NEW keep \in BOOLEAN, Abandon(c, keep), pc[c] = "handle" PROVE Core'
    <3>1. serving' = [serving EXCEPT ![c] = Idle]
      BY <2>3 DEF Abandon, Serve
    <3>2. \A s \in Sessions : serving'[s].pc # "idle" => s # c /\ serving[s].pc # "idle"
      BY <1>0, <3>1 DEF TypeOK, Idle
    <3> QED BY <1>0, <2>1, <2>3, <3>2, EndCore DEF Busy, TrxStates
  <2> QED BY <1>7, <2>2, <2>3 DEF Cancel
<1>8. ASSUME NEW c \in Sessions, NEW msg \in Messages, Open(c, msg) PROVE Core'
  <2>1. c \in Tasks /\ c # Monitor
    BY <1>a
  <2>2. /\ pc[c] = "idle" /\ pc' = [pc EXCEPT ![c] = "waiting"]
        /\ request' = [request EXCEPT ![c] = msg]
        /\ UNCHANGED <<ext, on, serving, answer, holder, todo, wrote, trx, asked, text, about, cut>>
    BY <1>8 DEF Open, Goto, OffGateway, vars
  <2> QED BY <1>0, <1>a, <2>1, <2>2 DEF Core, Method, Labels, Busy
<1>9. ASSUME WakeMonitor PROVE Core'
  BY <1>0, <1>9, <1>a DEF WakeMonitor, Goto, OffGateway, vars, Core, Method, Labels, Busy
<1>10. ASSUME NEW c \in Sessions, Accept(c) PROVE Core'
  <2>1. /\ pc[c] = "parse" /\ pc' = [pc EXCEPT ![c] = "handle"]
        /\ todo' = [todo EXCEPT ![c] = IF Method(c) = "UpdateTrx" THEN request[c].trxs ELSE {}]
        /\ UNCHANGED <<request, answer, holder, wrote, trx, asked, text, about, cut>>
    BY <1>10 DEF Accept, Goto, OffGateway
  <2>2. todo' \in [Tasks -> SUBSET (Keys \cup Trxs)] /\ c \in Tasks /\ c # Monitor
    BY <1>0, <1>a, <2>1, MessageAssumption DEF Core
  <2>3. on' = on /\ \A s \in Sessions :
          serving'[s] = serving[s] \/ (s = c /\ Method(c) \in Monitoring)
    BY <1>0, <1>10 DEF Accept, StartMonitoring, StopMonitoring, Serve, TypeOK, vars, Monitoring
  <2> QED BY <1>0, <1>a, <2>1, <2>2, <2>3 DEF Core, Method, Labels, Busy
<1>11. ASSUME NEW p \in Tasks, Connect(p) PROVE Core'
  <2>1. pc[p] = "waiting" /\ holder = {} /\ holder' = {p}
    BY <1>0, <1>11, OneHolder DEF Connect, Connections, Core
  <2>2. UNCHANGED <<ext, on, serving, request, answer, wrote, trx, asked, text, about, cut>>
    BY <1>11 DEF Connect, OffGateway, vars
  <2>3. \A q \in Tasks : pc[q] \notin Busy
    BY <1>0, <2>1 DEF Core
  <2>4. CASE p = Monitor
    <3>1. pc' = [pc EXCEPT ![p] = "handle"] /\ todo' = [todo EXCEPT ![p] = on]
      BY <1>11, <2>4 DEF Connect, Goto, Monitored
    <3>2. asked = {} /\ on \subseteq Keys
      BY <1>0, <1>a, <2>3 DEF Core, Busy, TypeOK, Rows
    <3> QED BY <1>0, <1>a, <2>1, <2>2, <2>3, <2>4, <3>1, <3>2 DEF Core, Method, Labels, Busy
  <2>5. CASE p # Monitor
    <3>1. pc' = [pc EXCEPT ![p] = "parse"] /\ todo' = todo /\ p \in Sessions
      BY <1>11, <2>5 DEF Connect, Goto, Tasks
    <3> QED BY <1>0, <1>a, <2>1, <2>2, <2>3, <2>5, <3>1 DEF Core, Method, Labels, Busy
  <2> QED BY <2>4, <2>5
<1>12. ASSUME NEW c \in Sessions, NEW t \in Trxs, UpdateNext(c, t) PROVE Core'
  <2>1. /\ pc[c] = "handle" /\ c \in Tasks /\ c # Monitor
        /\ todo' = [todo EXCEPT ![c] = todo[c] \ {t}]
        /\ wrote' \in [Sessions -> SUBSET Trxs]
        /\ UNCHANGED <<ext, on, serving, pc, request, answer, holder, trx, asked, text, about, cut>>
    BY <1>0, <1>12, <1>a DEF UpdateNext, Handling, OffGateway, vars, Core
  <2> QED BY <1>0, <1>a, <2>1 DEF Core, Method
<1>13. ASSUME NEW p \in Tasks, Ask(p) PROVE Core'
  <2>1. /\ pc[p] = "handle" /\ pc' = [pc EXCEPT ![p] = "gateway"] /\ text' = p
        /\ UNCHANGED <<ext, on, serving, request, answer, holder, wrote, trx, about, cut>>
    BY <1>13 DEF Ask, Goto, Phrase, vars
  <2>2. \A q \in Tasks : pc[q] = "gateway" => q = p
    BY <1>0, <2>1 DEF Core, Busy
  <2>3. CASE p = Monitor
    <3>1. PICK k \in todo[p] : asked' = {k} /\ todo' = [todo EXCEPT ![p] = todo[p] \ {k}]
      BY <1>13, <2>3 DEF Ask
    <3>2. k \in on /\ on \subseteq Keys
      BY <1>0, <1>a, <2>1, <2>3 DEF Core, TypeOK, Rows
    <3> QED BY <1>0, <1>a, <2>1, <2>2, <2>3, <3>1, <3>2 DEF Core, Method, Labels, Busy
  <2>4. CASE p # Monitor
    <3>1. Method(p) = "CheckBalance" /\ asked' = asked /\ todo' = todo /\ p \in Sessions
      BY <1>13, <2>4 DEF Ask, Tasks
    <3>2. serving[p].pc = "idle"
      BY <1>0, <3>1 DEF Core, Monitoring
    <3> QED BY <1>0, <1>a, <2>1, <2>2, <2>4, <3>1, <3>2 DEF Core, Method, Labels, Busy
  <2> QED BY <2>3, <2>4
<1>14. ASSUME EndPass, UNCHANGED <<vars, trx, text, about>>, cut' = {}, pc[Monitor] \in Busy
       PROVE  Core'
  <2>1. /\ pc' = [pc EXCEPT ![Monitor] = "idle"] /\ holder' = holder \ {Monitor}
        /\ todo' = [todo EXCEPT ![Monitor] = {}] /\ asked' = {}
        /\ UNCHANGED <<ext, on, serving, request, answer, wrote>>
    BY <1>14 DEF EndPass, Released, vars
  <2> QED BY <1>0, <1>14, <1>a, <2>1 DEF Core, Method, Labels, Busy
<1>15. ASSUME AllListed PROVE Core'
  BY <1>14, <1>15, <1>b DEF AllListed, OffGateway, Busy
<1>16. ASSUME NEW p \in Tasks, pc[p] = "gateway" PROVE CutBy(p) = {}
  BY <1>0, <1>16 DEF CutBy, Core, Busy
<1>17. ASSUME NEW p \in Tasks, NoAnswer(p) PROVE Core'
  <2>1. pc[p] = "gateway" /\ cut' = {} /\ UNCHANGED <<vars, trx, text, about>>
    BY <1>17, <1>b DEF NoAnswer
  <2>2. CASE p = Monitor
    BY <1>14, <1>17, <2>1, <2>2 DEF NoAnswer, Busy
  <2>3. CASE p # Monitor
    BY <1>0, <1>17, <1>b, <2>1, <2>3, QuietEnd DEF NoAnswer, Busy, Tasks
  <2> QED BY <2>2, <2>3
<1>18. ASSUME NEW p \in Tasks, NEW status \in Wire!GatewayStatus, NEW keys \in BalanceKeys,
              NEW low \in BOOLEAN, Receive(p, status, keys, low)
       PROVE  Core'
  <2>1. pc[p] = "gateway" /\ cut' = {} /\ UNCHANGED <<vars, trx, text>>
    BY <1>16, <1>18, <1>b DEF Receive
  <2>2. CASE p = Monitor /\ status = "SUCCESS"
    <3>1. /\ pc' = [pc EXCEPT ![p] = "handle"] /\ asked' = {}
          /\ UNCHANGED <<ext, on, serving, request, answer, holder, todo, wrote, about>>
      BY <1>18, <2>1, <2>2 DEF Receive, Goto, vars
    <3> QED BY <1>0, <1>a, <2>1, <2>2, <3>1 DEF Core, Method, Labels, Busy
  <2>3. CASE p = Monitor /\ status # "SUCCESS"
    BY <1>14, <1>18, <2>1, <2>3 DEF Receive, Busy
  <2>4. CASE p # Monitor
    <3>1. BalanceAnswer(keys, low) \in Answers
      BY <1>0 DEF BalanceAnswer
    <3>2. p \in Sessions
      BY <2>4 DEF Tasks
    <3>3. PICK a \in Answers : End(p, a)
      BY <1>0, <1>18, <2>4, <3>1 DEF Receive
    <3>4. about' = about \/ about' = [about EXCEPT ![p] = text]
      BY <1>18, <2>4 DEF Receive
    <3> QED BY <1>0, <1>b, <2>1, <3>2, <3>3, <3>4, QuietEnd DEF Busy
  <2> QED BY <2>2, <2>3, <2>4
<1>19. CASE UNCHANGED allVars
  BY <1>0, <1>19 DEF allVars, serviceVars, vars, Core, Method
<1> QED BY <1>1, <1>2, <1>3, <1>4, <1>5, <1>6, <1>7, <1>8, <1>9, <1>10, <1>11, <1>12, <1>13,
           <1>15, <1>17, <1>18, <1>19
        DEF ServiceNext, Work

-----------------------------------------------------------------------------
(* Only the holder of the connection is at work on the wallets.              *)
LEMMA HolderAlone == ServiceInv => Alone
<1> SUFFICES ASSUME ServiceInv, NEW r \in Sessions, NEW s \in Sessions,
                    serving[r].pc # "idle", serving[s].pc # "idle"
             PROVE  r = s
  BY DEF Alone
<1>1. Core /\ r \in Tasks /\ s \in Tasks
  BY Parts DEF Tasks
<1> QED BY <1>1 DEF Core, Busy

LEMMA ServiceStart == ServiceInit => ServiceInv
<1> SUFFICES ASSUME ServiceInit PROVE ServiceInv
  OBVIOUS
<1>1. RegistryInv
  BY RegistryStart DEF ServiceInit
<1>2. Core
  BY TaskAssumption DEF ServiceInit, Init, Idle, Core, Tasks, Labels, Busy, Answers
<1> QED BY <1>1, <1>2, Parts

LEMMA ServiceStep == ServiceInv /\ [ServiceNext]_allVars => ServiceInv'
<1> SUFFICES ASSUME ServiceInv, [ServiceNext]_allVars PROVE ServiceInv'
  OBVIOUS
<1>1. Core /\ RegistryInv
  BY Parts
<1>2. RegistryInv'
  BY <1>1, Implements, HolderAlone, RegistryStep
<1>3. Core'
  BY CoreStep
<1> QED
  BY <1>2, <1>3
  DEF ServiceInv, ServiceTypeOK, RegistryInv, Core, Labels, Busy, OwnErrorText, NoStreamCut

(* The inductive invariant, and with it that only the holder of the          *)
(* connection is past waiting, for any calls and messages.                   *)
THEOREM ServiceCorrect == ServiceSpec => []ServiceInv
<1>1. ServiceInit => ServiceInv
  BY ServiceStart
<1> QED BY <1>1, ServiceStep, PTL DEF ServiceSpec

(* A replica implements Registry: whatever else the calls and the passes do, *)
(* the wallets change by the steps of Start- and StopMonitoring only.        *)
THEOREM ServiceImplementsRegistry == ServiceSpec => Spec
<1>1. ServiceInit => Init
  BY DEF ServiceInit
<1>2. ServiceInv /\ [ServiceNext]_allVars => [Next]_vars
  BY Implements, Parts
<1> QED BY <1>1, <1>2, ServiceCorrect, PTL DEF ServiceSpec, Spec

(* Every variable keeps its type.                                            *)
THEOREM ServiceTyped == ServiceSpec => []ServiceTypeOK
<1>1. ServiceInv => ServiceTypeOK
  BY DEF ServiceInv
<1> QED BY <1>1, ServiceCorrect, PTL

(* With one replica StartMonitoring adds no second wallet for an external id:*)
(* the look-up of SaveWallet and its insertion are one step to every other   *)
(* call.                                                                     *)
THEOREM ServiceWallets == ServiceSpec => []OneWalletPerId
<1>1. ServiceInv => OneWalletPerId
  BY DEF ServiceInv, RegistryInv
<1> QED BY <1>1, ServiceCorrect, PTL

(* A wallet that StopMonitoring has answered SUCCESS for is monitored never  *)
(* again, unless the script has given its id to several rows.                *)
THEOREM StoppedForGood == ServiceSpec => []StoppedIsOff
<1>1. ServiceInv => StoppedIsOff
  BY DEF ServiceInv, RegistryInv
<1> QED BY <1>1, ServiceCorrect, PTL

(* The text for errors, which all requests to the blockchain gateway share,  *)
(* is never that of another request: every error speaks of the caller's own. *)
THEOREM ServiceGateway == ServiceSpec => []OwnErrorText
<1>1. ServiceInv => OwnErrorText
  BY DEF ServiceInv
<1> QED BY <1>1, ServiceCorrect, PTL

(* Nor is the channel closed under another request.                          *)
THEOREM StreamsNotCut == ServiceSpec => []NoStreamCut
<1>1. ServiceInv => NoStreamCut
  BY DEF ServiceInv
<1> QED BY <1>1, ServiceCorrect, PTL

(* The pass asks for monitored wallets only, whenever they were read.        *)
THEOREM ServiceAsksMonitored == ServiceSpec => []OnlyMonitoredAsked
<1>1. ServiceInv => OnlyMonitoredAsked
  BY DEF ServiceInv, OnlyMonitoredAsked
<1> QED BY <1>1, ServiceCorrect, PTL
=============================================================================
