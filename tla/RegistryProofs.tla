--------------------------- MODULE RegistryProofs ----------------------------
(***************************************************************************)
(* Proofs about Registry: types for any number of sessions, and, as long as *)
(* one session at a time is at work, one wallet per external id and wallets *)
(* that stay stopped, for any wallets, rows and interruptions.              *)
(***************************************************************************)
EXTENDS Registry, TLAPS

(* No step of any session, alone or not, leaves the types.                   *)
LEMMA TypeStep == TypeOK /\ [Next]_vars => TypeOK'
<1> SUFFICES ASSUME TypeOK, [Next]_vars PROVE TypeOK'
  OBVIOUS
<1> USE IdAssumption DEF TypeOK, Rows, Request, Serve
<1>1. ASSUME NEW r \in Sessions, NEW id \in Ids, StartMonitoring(r, id) PROVE TypeOK'
  BY <1>1 DEF StartMonitoring, Idle
<1>2. ASSUME NEW r \in Sessions, NEW id \in Ids, StopMonitoring(r, id) PROVE TypeOK'
  BY <1>2 DEF StopMonitoring, Idle
<1>3. ASSUME NEW r \in Sessions, Look(r) PROVE TypeOK'
  BY <1>3 DEF Look, Idle
<1>4. ASSUME NEW r \in Sessions, GetNothing(r) PROVE TypeOK'
  BY <1>4 DEF GetNothing, Idle
<1>5. ASSUME NEW r \in Sessions, Update(r) PROVE TypeOK'
  BY <1>5 DEF Update, AfterUpdate, Idle
<1>6. ASSUME NEW r \in Sessions, NEW keep \in BOOLEAN, Abandon(r, keep) PROVE TypeOK'
  BY <1>6 DEF Abandon, AfterUpdate, Idle
<1>7. ASSUME NEW r \in Sessions, NEW k \in Keys, Create(r, k) PROVE TypeOK'
  BY <1>7 DEF Create, Idle
<1>8. ASSUME NEW r \in Sessions, NEW k \in Keys, Get(r, k) PROVE TypeOK'
  BY <1>8 DEF Get
<1>9. CASE UNCHANGED vars
  BY <1>9 DEF vars
<1> QED BY <1>1, <1>2, <1>3, <1>4, <1>5, <1>6, <1>7, <1>8, <1>9 DEF Next

(* Every variable keeps its type, for any number of sessions.                *)
THEOREM RegistryTyped == Spec => []TypeOK
<1>1. Init => TypeOK
  BY SeedAssumption, IdAssumption DEF Init, TypeOK, Rows, Request, Idle
<1> QED BY <1>1, TypeStep, PTL DEF Spec

(* One step of a session that is alone keeps the invariant.                  *)
LEMMA RegistryStep == RegistryInv /\ Alone /\ [Next]_vars => RegistryInv'
<1> SUFFICES ASSUME RegistryInv, Alone, [Next]_vars PROVE RegistryInv'
  OBVIOUS
<1> USE IdAssumption DEF RegistryInv
<1>0. TypeOK'
  BY TypeStep
<1> USE DEF OneWalletPerId, StoppedIsOff, Exists, RowsOf, Rows, TypeOK, Request, Serve
<1>1. ASSUME NEW r \in Sessions, NEW id \in Ids, StartMonitoring(r, id) PROVE RegistryInv'
  BY <1>0, <1>1 DEF StartMonitoring, Idle
<1>2. ASSUME NEW r \in Sessions, NEW id \in Ids, StopMonitoring(r, id) PROVE RegistryInv'
  BY <1>0, <1>2 DEF StopMonitoring, Idle
<1>3. ASSUME NEW r \in Sessions, Look(r) PROVE RegistryInv'
  BY <1>0, <1>3 DEF Look, Idle
<1>4. ASSUME NEW r \in Sessions, GetNothing(r) PROVE RegistryInv'
  BY <1>0, <1>4 DEF GetNothing, Idle
<1>5. ASSUME NEW r \in Sessions, Update(r) PROVE RegistryInv'
  <2>1. PICK k \in RowsOf(serving[r].id) : serving[r].key = {k}
    BY <1>5 DEF Update
  <2>2. serving[r].id \in Ids /\ (~Shared(serving[r].id) => RowsOf(serving[r].id) = {k})
    BY <1>5, <2>1 DEF Update, Shared
  <2>3. on' = on \ {k} /\ ext' = ext /\ stopped' = stopped \cup {serving[r].id}
    BY <1>5, <2>1 DEF Update, AfterUpdate
  <2>4. serving' = [serving EXCEPT ![r] = Idle] /\ Idle.pc = "idle"
    BY <1>5 DEF Update, Idle
  <2>5. OneWalletPerId' /\ StoppedIsOff' /\ \A i \in stopped' : Exists(i)'
    BY <2>1, <2>2, <2>3
  <2>6. \A s \in Sessions : serving'[s].pc \in {"create", "update"} => serving'[s] = serving[s]
    BY <2>4
  <2> QED BY <1>0, <2>3, <2>4, <2>5, <2>6
<1>6. ASSUME NEW r \in Sessions, NEW keep \in BOOLEAN, Abandon(r, keep) PROVE RegistryInv'
  <2>1. on' \subseteq on
    BY <1>6 DEF Abandon, AfterUpdate
  <2> QED BY <1>0, <1>6, <2>1 DEF Abandon, Idle
<1>7. ASSUME NEW r \in Sessions, NEW k \in Keys, Create(r, k) PROVE RegistryInv'
  <2> DEFINE id == serving[r].id
  <2>1. id \in Ids /\ ~Exists(id) /\ ext[k] = NoId
    BY <1>7 DEF Create
  <2>2. /\ ext' = [ext EXCEPT ![k] = id] /\ on' = on \cup {k} /\ stopped' = stopped
        /\ serving' = [serving EXCEPT ![r] = Idle]
    BY <1>7 DEF Create
  <2>3. OneWalletPerId'
    BY <2>1, <2>2
  <2>4. StoppedIsOff' /\ \A i \in stopped' : Exists(i)'
    BY <2>1, <2>2
  <2>5. \A s \in Sessions : serving'[s].pc = "idle"
    BY <1>7, <2>2 DEF Create, Alone, Idle
  <2>6. \A j \in Keys : Seeds[j] # NoId => ext'[j] = Seeds[j]
    BY <2>1, <2>2
  <2> QED BY <1>0, <2>3, <2>4, <2>5, <2>6
<1>8. ASSUME NEW r \in Sessions, NEW k \in Keys, Get(r, k) PROVE RegistryInv'
  BY <1>0, <1>8 DEF Get
<1>9. CASE UNCHANGED vars
  BY <1>0, <1>9 DEF vars
<1> QED BY <1>1, <1>2, <1>3, <1>4, <1>5, <1>6, <1>7, <1>8, <1>9 DEF Next

LEMMA RegistryStart == Init => RegistryInv
<1> SUFFICES ASSUME Init PROVE RegistryInv
  OBVIOUS
<1>1. TypeOK
  BY SeedAssumption, IdAssumption DEF Init, TypeOK, Rows, Request, Idle
<1> QED BY <1>1 DEF Init, RegistryInv, OneWalletPerId, StoppedIsOff, Rows, Idle

(* Whoever makes sure that one session at a time is at work has at most one  *)
(* wallet for each external id, and none that is monitored after a stop.     *)
THEOREM RegistryCorrect == Spec /\ []Alone => []RegistryInv
<1>1. Init => RegistryInv
  BY RegistryStart
<1> QED BY <1>1, RegistryStep, PTL DEF Spec

(* A service with a single session needs nobody to make sure of that.        *)
THEOREM OneSession ==
  ASSUME \A r, s \in Sessions : r = s
  PROVE  Spec => [](OneWalletPerId /\ StoppedIsOff)
<1>2. Init => RegistryInv
  BY RegistryStart
<1>3. RegistryInv /\ [Next]_vars => RegistryInv'
  <2>1. Alone
    BY DEF Alone
  <2> QED BY <2>1, RegistryStep
<1>4. RegistryInv => OneWalletPerId /\ StoppedIsOff
  BY DEF RegistryInv
<1> QED BY <1>2, <1>3, <1>4, PTL DEF Spec
=============================================================================
