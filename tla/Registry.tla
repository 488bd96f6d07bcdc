------------------------------ MODULE Registry -------------------------------
(***************************************************************************)
(* Which wallets are monitored: StartMonitoring and StopMonitoring          *)
(* (wallets/gateway/method_classes.py) on the `wallet` table, which has an  *)
(* index on external_id but no unique one (wallets/common/models.py), and   *)
(* the rows that wallets/scripts/p_wallets.py puts there.                   *)
(*                                                                          *)
(* A session serves one request at a time in one database transaction, and  *)
(* a replica has one session (see Delivery and Service); a row is its       *)
(* primary key and its external id never changes.                           *)
(***************************************************************************)
EXTENDS Naturals, FiniteSets

CONSTANTS
  Sessions,  \* database sessions of the service
  Keys,      \* primary keys: bounds how many rows can be created
  Ids,       \* external ids of wallets
  NoId,
  Seeds      \* Seeds[k]: external id of the row the script created, or NoId;
             \* p_wallets.py gives the rows of ether and of its tokens one id

ASSUME IdAssumption == NoId \notin Ids
ASSUME SeedAssumption == Seeds \in [Keys -> Ids \cup {NoId}]

VARIABLES
  ext,       \* external_id of each row, NoId if there is no such row
  on,        \* keys of the rows with on_monitoring
  serving,   \* what each session is doing, and for which wallet
  stopped    \* ids for which StopMonitoring found a wallet and answered SUCCESS

vars == <<ext, on, serving, stopped>>

Request == [pc : {"idle", "exists", "create", "get", "update"},
            id : Ids \cup {NoId},
            key : SUBSET Keys]     \* the row that manager.get returned, at most one

Idle == [pc |-> "idle", id |-> NoId, key |-> {}]

Rows == {k \in Keys : ext[k] # NoId}

RowsOf(id) == {k \in Keys : ext[k] = id}

\* The script has given the id to more than one row.
Shared(id) == \E k, l \in Keys : k # l /\ Seeds[k] = id /\ Seeds[l] = id

Init ==
  /\ ext = Seeds
  /\ on = {k \in Keys : Seeds[k] # NoId}
  /\ serving = [r \in Sessions |-> Idle]
  /\ stopped = {}

TypeOK ==
  /\ ext \in [Keys -> Ids \cup {NoId}]
  /\ on \subseteq Rows
  /\ serving \in [Sessions -> Request]
  /\ \A s \in Sessions : serving[s].pc # "idle" => serving[s].id \in Ids
  /\ stopped \in SUBSET Ids

Serve(r, req) == serving' = [serving EXCEPT ![r] = req]

\* A stopped row does not count.
FaultyExists(id) == RowsOf(id) # {} /\ RowsOf(id) \subseteq on

\* manager.exists(Wallet, external_id=id), on committed rows.
Exists(id) == RowsOf(id) # {}

FaultyAfterUpdate(key) == on                \* the update is forgotten
FaultyAfterUpdateOthers(key) == Keys \ key  \* the condition is inverted

\* Rows on monitoring once the wallet's on_monitoring is set to False.
AfterUpdate(key) == on \ key

-----------------------------------------------------------------------------
StartMonitoring(r, id) ==
  /\ serving[r].pc = "idle"
  /\ Serve(r, [Idle EXCEPT !.pc = "exists", !.id = id])
  /\ UNCHANGED <<ext, on, stopped>>

\* SaveWallet._save: ValueError, answered with ERROR, if there is such a wallet.
Look(r) ==
  /\ serving[r].pc = "exists"
  /\ Serve(r, IF Exists(serving[r].id) THEN Idle ELSE [serving[r] EXCEPT !.pc = "create"])
  /\ UNCHANGED <<ext, on, stopped>>

\* manager.create, commit and SUCCESS.  Until the commit nobody sees the row.
Create(r, k) ==
  /\ serving[r].pc = "create"
  /\ k \notin Rows
  /\ ext' = [ext EXCEPT ![k] = serving[r].id]
  /\ on' = on \cup {k}
  /\ Serve(r, Idle)
  /\ UNCHANGED stopped

StopMonitoring(r, id) ==
  /\ serving[r].pc = "idle"
  /\ Serve(r, [Idle EXCEPT !.pc = "get", !.id = id])
  /\ UNCHANGED <<ext, on, stopped>>

\* manager.get: one of the rows, the query has no ORDER BY.
Get(r, k) ==
  /\ serving[r].pc = "get"
  /\ k \in RowsOf(serving[r].id)
  /\ Serve(r, [serving[r] EXCEPT !.pc = "update", !.key = {k}])
  /\ UNCHANGED <<ext, on, stopped>>

\* DoesNotExist: a description, and SUCCESS all the same.
GetNothing(r) ==
  /\ serving[r].pc = "get"
  /\ ~Exists(serving[r].id)
  /\ Serve(r, Idle)
  /\ UNCHANGED <<ext, on, stopped>>

\* manager.update, commit and SUCCESS.
Update(r) ==
  /\ serving[r].pc = "update"
  /\ on' = AfterUpdate(serving[r].key)
  /\ stopped' = stopped \cup {serving[r].id}
  /\ Serve(r, Idle)
  /\ UNCHANGED ext

\* The process dies, or a database error rolls back; or the request is
\* cancelled and process() commits what was done so far.  No SUCCESS is
\* answered.
Abandon(r, keep) ==
  /\ serving[r].pc # "idle"
  /\ on' = IF keep /\ serving[r].pc = "update" THEN AfterUpdate(serving[r].key) ELSE on
  /\ Serve(r, Idle)
  /\ UNCHANGED <<ext, stopped>>

Next ==
  \E r \in Sessions :
    \/ \E id \in Ids : StartMonitoring(r, id) \/ StopMonitoring(r, id)
    \/ Look(r) \/ GetNothing(r) \/ Update(r)
    \/ \E keep \in BOOLEAN : Abandon(r, keep)
    \/ \E k \in Keys : Create(r, k) \/ Get(r, k)

Spec == Init /\ [][Next]_vars

-----------------------------------------------------------------------------
(* SaveWallet lets no second wallet with the same external id in: two rows   *)
(* that share one are both of the script.                                    *)
OneWalletPerId ==
  \A k, l \in Rows : ext[k] = ext[l] => k = l \/ (Seeds[k] # NoId /\ Seeds[l] # NoId)

(* After StopMonitoring has found a wallet and answered SUCCESS, no row of   *)
(* it is monitored, unless the script has made several; StartMonitoring      *)
(* never makes it so again, because the stopped row still counts as existing.*)
StoppedIsOff == \A id \in stopped : ~Shared(id) => RowsOf(id) \cap on = {}

(* After StopMonitoring has answered SUCCESS the wallet is not monitored, as *)
(* tests/gateway/test_server.py asserts of one row: also for the ids of      *)
(* several rows that p_wallets.py makes.                                     *)
StopStopsWallet == \A id \in stopped : RowsOf(id) \cap on = {}

-----------------------------------------------------------------------------
(* What makes these inductive.                                               *)

\* Not more than one session is at work: then the look-up and the insertion
\* of SaveWallet are one step for all others.
Alone == \A r, s \in Sessions : serving[r].pc # "idle" /\ serving[s].pc # "idle" => r = s

(* While one session at a time is at work, what it has looked up stays so    *)
(* until it acts on it, and a wallet once stopped keeps its rows.            *)
RegistryInv ==
  /\ TypeOK
  /\ OneWalletPerId
  /\ StoppedIsOff
  /\ \A k \in Keys : Seeds[k] # NoId => ext[k] = Seeds[k]
  /\ \A id \in stopped : Exists(id)
  /\ \A s \in Sessions :
       /\ serving[s].pc = "create" => ~Exists(serving[s].id)
       /\ serving[s].pc = "update" =>
            \E k \in RowsOf(serving[s].id) : serving[s].key = {k}
=============================================================================
