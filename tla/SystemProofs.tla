---------------------------- MODULE SystemProofs -----------------------------
(***************************************************************************)
(* Proofs about System: over one table and one connection per replica the   *)
(* intake is to the delivery nothing but insertions, and the delivery is    *)
(* nothing to the intake, so that what DeliveryProofs, OneReplicaProofs and  *)
(* IntakeProofs prove of each alone holds of both together.                 *)
(***************************************************************************)
EXTENDS System, TLAPS

DP == INSTANCE OneReplicaProofs
  WITH Trx <- Hashes, MaxFaults <- MaxCrashes, MaxLapses <- 0,
       locks <- trxLocks, faults <- deliveryFaults

IP == INSTANCE IntakeProofs WITH locks <- walletLocks, faults <- intakeFaults

-----------------------------------------------------------------------------
(* The instances of System and those of the proofs are of the same modules   *)
(* with the same substitutions: each definition is the same formula.         *)
LEMMA SameDelivery ==
  /\ (Delivery!Init <=> DP!Init) /\ (Delivery!Next <=> DP!Next)
  /\ \A r : Delivery!PassStep(r) <=> DP!PassStep(r)
  /\ \A r : Delivery!UpdateStep(r) <=> DP!UpdateStep(r)
  /\ \A r : Delivery!Crash(r) <=> DP!Crash(r)
  /\ \A r, keep : Delivery!UpdateFails(r, keep) <=> DP!UpdateFails(r, keep)
<1> USE DEF
        Delivery!Idle, DP!Idle, Delivery!Init, DP!Init, Delivery!Selected, DP!Selected,
        Delivery!Remaining, DP!Remaining, Delivery!Grantable, DP!Grantable, Delivery!Locked,
        DP!Locked, Delivery!Unlockable, DP!Unlockable, Delivery!Unlocked, DP!Unlocked,
        Delivery!AttemptsOf, DP!AttemptsOf, Delivery!MoreAttempts, DP!MoreAttempts,
        Delivery!AfterRejection, DP!AfterRejection, Delivery!SavedRow, DP!SavedRow,
        Delivery!Updatable, DP!Updatable, Delivery!UpdatedRow, DP!UpdatedRow,
        Delivery!Committed, DP!Committed, Delivery!RowLockFree, DP!RowLockFree, Delivery!Goto,
        DP!Goto, Delivery!Finish, DP!Finish, Delivery!StartPass, DP!StartPass, Delivery!EndPass,
        DP!EndPass, Delivery!SkipLocked, DP!SkipLocked, Delivery!SeeUnlocked, DP!SeeUnlocked,
        Delivery!Acquire, DP!Acquire, Delivery!AcquireFails, DP!AcquireFails, Delivery!Method,
        DP!Method, Delivery!Pushed, DP!Pushed, Delivery!Encodable, DP!Encodable,
        Delivery!Readable, DP!Readable, Delivery!CannotEncode, DP!CannotEncode,
        Delivery!CallAccepted, DP!CallAccepted, Delivery!CallRejected, DP!CallRejected,
        Delivery!CallRaises, DP!CallRaises, Delivery!Save, DP!Save, Delivery!Release,
        DP!Release, Delivery!Unwind, DP!Unwind, Delivery!StartUpdate, DP!StartUpdate,
        Delivery!UpdateRead, DP!UpdateRead, Delivery!UpdateWrite, DP!UpdateWrite,
        Delivery!UpdateCommit, DP!UpdateCommit, Delivery!DeadlockVictim, DP!DeadlockVictim,
        Delivery!UpdateFails, DP!UpdateFails, Delivery!Insert, DP!Insert, Delivery!Crash,
        DP!Crash, Delivery!LockExpires, DP!LockExpires, Delivery!LockLapses, DP!LockLapses,
        Delivery!PassStep, DP!PassStep, Delivery!UpdateStep, DP!UpdateStep, Delivery!Next,
        DP!Next, Delivery!New, DP!New, Delivery!Sent, DP!Sent, Delivery!Confirmed, DP!Confirmed,
        Delivery!Reported, DP!Reported, Delivery!Absent, DP!Absent, Delivery!NoRow, DP!NoRow,
        Delivery!NewRow, DP!NewRow, Delivery!Services, DP!Services, Delivery!Source, DP!Source,
        Delivery!Target, DP!Target, Delivery!Wire!Encodes, DP!Wire!Encodes, Delivery!Wire!Takes,
        DP!Wire!Takes, Delivery!Wire!ExchangerMethods, DP!Wire!ExchangerMethods,
        Delivery!Wire!TransactionsMethods, DP!Wire!TransactionsMethods,
        Delivery!Wire!UpdateRequest, DP!Wire!UpdateRequest, Delivery!Wire!UpdateResponse,
        DP!Wire!UpdateResponse, Delivery!Wire!TransactionData, DP!Wire!TransactionData,
        Delivery!Wire!StartMonitoringRequest, DP!Wire!StartMonitoringRequest,
        Delivery!Wire!StartMonitoringResponse, DP!Wire!StartMonitoringResponse,
        Delivery!Wire!TransactionsTransaction, DP!Wire!TransactionsTransaction
<1>1. Delivery!Init <=> DP!Init
  OBVIOUS
<1>2. Delivery!Next <=> DP!Next
  OBVIOUS
<1>3. ASSUME NEW r PROVE Delivery!PassStep(r) <=> DP!PassStep(r)
  OBVIOUS
<1>4. ASSUME NEW r PROVE Delivery!UpdateStep(r) <=> DP!UpdateStep(r)
  OBVIOUS
<1>5. ASSUME NEW r PROVE Delivery!Crash(r) <=> DP!Crash(r)
  OBVIOUS
<1>6. ASSUME NEW r, NEW keep PROVE Delivery!UpdateFails(r, keep) <=> DP!UpdateFails(r, keep)
  OBVIOUS
<1> QED BY <1>1, <1>2, <1>3, <1>4, <1>5, <1>6

LEMMA SameIntake ==
  /\ (Intake!Init <=> IP!Init) /\ (Intake!Next <=> IP!Next)
  /\ (Intake!InsertNeverRefused <=> IP!InsertNeverRefused)
  /\ \A r : Intake!PassStep(r) <=> IP!PassStep(r)
  /\ \A r : Intake!RequestStep(r) <=> IP!RequestStep(r)
  /\ \A r : Intake!Crash(r) <=> IP!Crash(r)
<1> USE DEF Intake!InsertNeverRefused, IP!InsertNeverRefused,
        Intake!Hashes, IP!Hashes, Intake!Lower, IP!Lower, Intake!Given, IP!Given, Intake!Idle,
        IP!Idle, Intake!Init, IP!Init, Intake!Visible, IP!Visible, Intake!Exists, IP!Exists,
        Intake!Loaded, IP!Loaded, Intake!Answer, IP!Answer, Intake!NoAddress, IP!NoAddress,
        Intake!Valid, IP!Valid, Intake!Refused, IP!Refused, Intake!Waits, IP!Waits,
        Intake!Aborted, IP!Aborted, Intake!Become, IP!Become, Intake!Unlocked, IP!Unlocked,
        Intake!Rollback, IP!Rollback, Intake!Commit, IP!Commit, Intake!StartPass, IP!StartPass,
        Intake!EndPass, IP!EndPass, Intake!SkipLocked, IP!SkipLocked, Intake!SeeUnlocked,
        IP!SeeUnlocked, Intake!Acquire, IP!Acquire, Intake!List, IP!List, Intake!ListRaises,
        IP!ListRaises, Intake!Check, IP!Check, Intake!CheckRaises, IP!CheckRaises, Intake!Store,
        IP!Store, Intake!Checked, IP!Checked, Intake!Release, IP!Release, Intake!Unwind,
        IP!Unwind, Intake!StartAdd, IP!StartAdd, Intake!Find, IP!Find, Intake!StartExpect,
        IP!StartExpect, Intake!Create, IP!Create, Intake!EndRequest, IP!EndRequest, Intake!Mine,
        IP!Mine, Intake!DeadlockVictim, IP!DeadlockVictim, Intake!Crash, IP!Crash,
        Intake!LockExpires, IP!LockExpires, Intake!LockLapses, IP!LockLapses, Intake!PassStep,
        IP!PassStep, Intake!RequestStep, IP!RequestStep, Intake!Next, IP!Next,
        Intake!Wire!Loads, IP!Wire!Loads, Intake!Wire!TransactionSchema,
        IP!Wire!TransactionSchema, Intake!Ledgers!Clash, IP!Ledgers!Clash
<1>1. Intake!Init <=> IP!Init
  OBVIOUS
<1>2. Intake!Next <=> IP!Next
  OBVIOUS
<1>3. Intake!InsertNeverRefused <=> IP!InsertNeverRefused
  OBVIOUS
<1>4. ASSUME NEW r PROVE Intake!PassStep(r) <=> IP!PassStep(r)
  OBVIOUS
<1>5. ASSUME NEW r PROVE Intake!RequestStep(r) <=> IP!RequestStep(r)
  OBVIOUS
<1>6. ASSUME NEW r PROVE Intake!Crash(r) <=> IP!Crash(r)
  OBVIOUS
<1> QED BY <1>1, <1>2, <1>3, <1>4, <1>5, <1>6

-----------------------------------------------------------------------------
(* The assumptions of the modules hold in System, and with them what is      *)
(* proved of single steps.                                                   *)
LEMMA DeliveryFacts ==
  /\ DP!Init => DP!DeliveryInv /\ DP!Backed
  /\ DP!DeliveryInv /\ DP!Backed /\ [DP!Next]_DP!vars =>
       DP!DeliveryInv' /\ DP!Backed' /\ DP!Present \subseteq DP!Present'
<1>1. /\ Platform \subseteq Hashes /\ NoTrx \notin Hashes
      /\ MaxCrashes \in Nat /\ 0 \in Nat /\ Attempts \in Nat \ {0}
      /\ Free # Orphan /\ Free \notin Replicas /\ Orphan \notin Replicas
  BY NoneAssumption, BoundAssumption, AttemptsAssumption, LockAssumption DEF Platform, Hashes
<1>2. DP!Init => DP!DeliveryInv
  BY <1>1, DP!InitInv
<1>3. DP!Init => DP!Backed
  BY <1>1, DP!BackedInit
<1>4. DP!DeliveryInv /\ [DP!Next]_DP!vars => DP!DeliveryInv'
  BY <1>1, DP!InvStep
<1>5. DP!DeliveryInv /\ DP!Backed /\ [DP!Next]_DP!vars => DP!Backed'
  BY <1>1, DP!BackedStep
<1>6. DP!DeliveryInv /\ DP!Backed /\ [DP!Next]_DP!vars => DP!Present \subseteq DP!Present'
  BY <1>1, DP!PresentGrows
<1> QED BY <1>2, <1>3, <1>4, <1>5, <1>6

(* What a replica does to the jobs and the table.                            *)
LEMMA DeliveryOwn ==
  ASSUME DP!DeliveryInv, DP!Backed, NEW r \in Replicas,
         \/ DP!PassStep(r) \/ DP!UpdateStep(r) \/ DP!Crash(r)
         \/ \E keep \in BOOLEAN : DP!UpdateFails(r, keep)
  PROVE  /\ job[r].pc # "idle" \/ job'[r].pc = "idle"
         /\ \A q \in Replicas : q # r => job'[q] = job[q]
         /\ DP!Present' = DP!Present
<1>1. /\ Platform \subseteq Hashes /\ NoTrx \notin Hashes
      /\ MaxCrashes \in Nat /\ 0 \in Nat /\ Attempts \in Nat \ {0}
      /\ Free # Orphan /\ Free \notin Replicas /\ Orphan \notin Replicas
  BY NoneAssumption, BoundAssumption, AttemptsAssumption, LockAssumption DEF Platform, Hashes
<1>2. /\ job[r].pc # "idle" \/ job'[r].pc = "idle"
      /\ \A q \in Replicas : q # r => job'[q] = job[q]
  BY <1>1, DP!OwnJob
<1>3. CASE DP!PassStep(r) \/ DP!UpdateStep(r) \/ \E keep \in BOOLEAN : DP!UpdateFails(r, keep)
  BY <1>1, <1>2, <1>3, DP!Rewritten
<1>4. CASE DP!Crash(r)
  BY <1>2, <1>4 DEF DP!Crash, DP!Present
<1> QED BY <1>2, <1>3, <1>4

LEMMA IntakeFacts ==
  /\ IP!Init => IP!Typed /\ IP!Inserted
  /\ IP!Typed /\ IP!Inserted /\ [IP!Next]_IP!vars =>
       IP!Typed' /\ IP!Inserted' /\ rows \subseteq rows'
  /\ \A r \in Replicas :
       IP!Typed /\ (IP!PassStep(r) \/ IP!RequestStep(r) \/ IP!Crash(r)) =>
         session[r].pc # "idle" /\ \A q \in Replicas : q # r => session'[q] = session[q]
<1>1. /\ Listed \in [Wallets -> SUBSET Chain] /\ Inputs \in [Wallets -> SUBSET Chain]
      /\ Shown \in [Chain -> SUBSET DOMAIN IP!Wire!GetTransactionsResponse]
      /\ \A w \in Wallets : \A t \in Inputs[w] : "to" \in Shown[t]
      /\ Oversized \subseteq Chain
  BY ListAssumption DEF Intake!Wire!GetTransactionsResponse, IP!Wire!GetTransactionsResponse
<1>2. /\ Free # Orphan /\ Free \notin Replicas /\ Orphan \notin Replicas
      /\ NoWallet \notin Wallets /\ MaxFaults \in Nat
      /\ Null \notin Uuids /\ Null \notin Chain \X {"lower", "given"}
  BY LockAssumption, BoundAssumption, NoneAssumption
<1>3. IP!Init => IP!Typed /\ IP!Inserted
  BY <1>1, <1>2, IP!InvStart
<1>4. IP!Typed /\ IP!Inserted /\ [IP!Next]_IP!vars => IP!Typed' /\ IP!Inserted'
  BY <1>1, <1>2, IP!InvStep
<1>5. IP!Typed /\ IP!Inserted /\ [IP!Next]_IP!vars => IP!TableStep
  BY <1>1, <1>2, IP!InsertStep
<1>6. IP!TableStep => rows \subseteq rows'
  BY DEF IP!TableStep
<1>7. ASSUME NEW r \in Replicas, IP!Typed, IP!PassStep(r) \/ IP!RequestStep(r) \/ IP!Crash(r)
      PROVE  session[r].pc # "idle" /\ \A q \in Replicas : q # r => session'[q] = session[q]
  BY <1>1, <1>2, <1>7, IP!OwnSession
<1> QED BY <1>3, <1>4, <1>5, <1>6, <1>7

LEMMA OneReplicaFact ==
  ASSUME \A p, q \in Replicas : p = q
  PROVE  IP!Spec => []IP!InsertNeverRefused
<1>1. /\ Listed \in [Wallets -> SUBSET Chain] /\ Inputs \in [Wallets -> SUBSET Chain]
      /\ Shown \in [Chain -> SUBSET DOMAIN IP!Wire!GetTransactionsResponse]
      /\ \A w \in Wallets : \A t \in Inputs[w] : "to" \in Shown[t]
      /\ Oversized \subseteq Chain
  BY ListAssumption DEF Intake!Wire!GetTransactionsResponse, IP!Wire!GetTransactionsResponse
<1>2. /\ Free # Orphan /\ Free \notin Replicas /\ Orphan \notin Replicas
      /\ NoWallet \notin Wallets /\ MaxFaults \in Nat
      /\ Null \notin Uuids /\ Null \notin Chain \X {"lower", "given"}
  BY LockAssumption, BoundAssumption, NoneAssumption
<1> QED BY <1>1, <1>2, IP!OneReplicaInserts

LEMMA LedgerFact == IP!Spec => IP!KeepsLedger
<1>1. /\ Listed \in [Wallets -> SUBSET Chain] /\ Inputs \in [Wallets -> SUBSET Chain]
      /\ Shown \in [Chain -> SUBSET DOMAIN IP!Wire!GetTransactionsResponse]
      /\ \A w \in Wallets : \A t \in Inputs[w] : "to" \in Shown[t]
      /\ Oversized \subseteq Chain
  BY ListAssumption DEF Intake!Wire!GetTransactionsResponse, IP!Wire!GetTransactionsResponse
<1>2. /\ Free # Orphan /\ Free \notin Replicas /\ Orphan \notin Replicas
      /\ NoWallet \notin Wallets /\ MaxFaults \in Nat
      /\ Null \notin Uuids /\ Null \notin Chain \X {"lower", "given"}
  BY LockAssumption, BoundAssumption, NoneAssumption
<1> QED BY <1>1, <1>2, IP!ImplementsLedger

LEMMA OneReplicaKeeps ==
  ASSUME \A p, q \in Replicas : p = q
  PROVE  /\ DP!Spec => []DP!ConfirmationKept
         /\ DP!Spec => DP!ImplementsLifecycle
<1>1. /\ Platform \subseteq Hashes /\ NoTrx \notin Hashes
      /\ MaxCrashes \in Nat /\ 0 \in Nat /\ Attempts \in Nat \ {0}
      /\ Free # Orphan /\ Free \notin Replicas /\ Orphan \notin Replicas
  BY NoneAssumption, BoundAssumption, AttemptsAssumption, LockAssumption DEF Platform, Hashes
<1>2. DP!OneReplica
  BY DEF DP!OneReplica
<1>3. DP!Spec => []DP!ConfirmationKept
  BY <1>1, <1>2, DP!KeptOnOneReplica
<1>4. DP!Spec => DP!ImplementsLifecycle
  BY <1>1, <1>2, DP!OneReplicaImplements
<1> QED BY <1>3, <1>4

-----------------------------------------------------------------------------
\* Intake's view of the table and Delivery's are of the same rows.
OneTable == \A h \in Hashes : (\E x \in rows : x.hash = h) <=> table[h].status # Delivery!Absent

OneConnection == \A r \in Replicas : session[r].pc = "idle" \/ job[r].pc = "idle"

(* The inductive invariant: those of both parts, the agreement of what they  *)
(* see of the table, and that a replica is not in the middle of both.        *)
SystemInv ==
  /\ DP!DeliveryInv /\ DP!Backed
  /\ IP!Typed /\ IP!Inserted
  /\ OneTable
  /\ OneConnection

\* Some row of the table, as Intake sees it, has the hash h.
Stored(h) == \E x \in rows : x.hash = h

IntakeStep == Intake!Next /\ OfIntake
DeliveryStep == Delivery!Next /\ OfDelivery

(* What Delivery takes for no row is one that Intake has not stored.         *)
LEMMA RowsAgree ==
  ASSUME SystemInv
  PROVE  /\ table \in [Hashes -> DP!Row]
         /\ Delivery!NoRow = [status |-> Delivery!Absent, confirmed |-> FALSE]
         /\ \A h \in Hashes : Stored(h) <=> table[h] # Delivery!NoRow
<1>1. table \in [Hashes -> DP!Row]
      /\ \A h \in Hashes : table[h].confirmed <=> table[h].status \in {DP!Confirmed, DP!Reported}
  BY DEF SystemInv, DP!DeliveryInv, DP!TypeOK, DP!RowConsistent
<1>2. \A h \in Hashes : table[h].status = Delivery!Absent => table[h] = Delivery!NoRow
  <2> TAKE h \in Hashes
  <2>1. table[h] \in [status : DP!Status, confirmed : BOOLEAN]
    BY <1>1 DEF DP!Row
  <2>2. table[h].status = Delivery!Absent => table[h].confirmed = FALSE
    BY <1>1, <2>1 DEF Delivery!Absent, DP!Confirmed, DP!Reported
  <2> QED BY <2>1, <2>2 DEF Delivery!NoRow
<1>3. \A h \in Hashes : Stored(h) <=> table[h].status # Delivery!Absent
  BY DEF SystemInv, OneTable, Stored
<1> QED BY <1>1, <1>2, <1>3 DEF Delivery!NoRow

(* A step of Intake that commits nothing leaves Delivery's table alone.      *)
LEMMA NothingEntered ==
  ASSUME SystemInv, OfIntake, rows' = rows
  PROVE  UNCHANGED deliveryVars
<1>1. \A h \in Hashes : ~(Stored(h)' /\ table[h] = Delivery!NoRow)
  BY RowsAgree DEF Stored
<1>2. Entered = table
  BY <1>1, RowsAgree DEF Entered, Stored
<1> QED BY <1>2 DEF OfIntake, deliveryVars

(* One that commits rows is an insertion by a replica that delivers nothing  *)
(* at that time.                                                             *)
LEMMA RowsEntered ==
  ASSUME SystemInv, OfIntake, NEW r \in Replicas, session[r].pc # "idle"
  PROVE  Delivery!Next
<1> DEFINE batch == {h \in Hashes : Stored(h)' /\ table[h] = Delivery!NoRow}
<1>1. job[r].pc = "idle"
  BY DEF SystemInv, OneConnection
<1>2. \A h \in batch : table[h].status = Delivery!Absent
  BY RowsAgree
<1>3. table' = [h \in Hashes |-> IF h \in batch THEN Delivery!NewRow ELSE table[h]]
  BY DEF OfIntake, Entered, Stored
<1>4. Delivery!Insert(r, batch)
  BY <1>1, <1>2, <1>3 DEF OfIntake, Delivery!Insert
<1>5. batch \in SUBSET Hashes
  OBVIOUS
<1> HIDE DEF batch
<1> QED BY <1>4, <1>5 DEF Delivery!Next

(* Both views of the table are of the same rows after an insertion.          *)
LEMMA OneTableEntered ==
  ASSUME SystemInv, OfIntake, rows \subseteq rows'
  PROVE  OneTable'
<1>1. ASSUME NEW h \in Hashes PROVE Stored(h)' <=> table'[h].status # Delivery!Absent
  <2>1. table'[h] = IF Stored(h)' /\ table[h] = Delivery!NoRow THEN Delivery!NewRow ELSE table[h]
    BY DEF OfIntake, Entered, Stored
  <2>2. Stored(h) => Stored(h)'
    BY DEF Stored
  <2>3. Stored(h) <=> table[h].status # Delivery!Absent
    BY DEF SystemInv, OneTable, Stored
  <2>4. Stored(h) <=> table[h] # Delivery!NoRow
    BY RowsAgree
  <2>5. Delivery!NewRow.status # Delivery!Absent
    BY DEF Delivery!NewRow, Delivery!New, Delivery!Absent
  <2> QED BY <2>1, <2>2, <2>3, <2>4, <2>5
<1> QED BY <1>1 DEF OneTable, Stored

(* Every step is one of Intake's or one of Delivery's, and what it does in   *)
(* one of them only the replica does that is in it.                          *)
LEMMA EachStep ==
  ASSUME SystemInv, Next
  PROVE  \/ IntakeStep /\ (rows' = rows \/ \E r \in Replicas : session[r].pc # "idle")
         \/ DeliveryStep /\ DP!Present' = DP!Present
<1>n. Announced \subseteq Chain
  BY AnnouncedAssumption
<1>i. IP!Typed /\ DP!DeliveryInv /\ DP!Backed
  BY DEF SystemInv
<1>1. ASSUME NEW r \in Replicas, StartIntake(r) PROVE IntakeStep /\ rows' = rows
  BY <1>1 DEF StartIntake, IntakeStep, Intake!Next, Intake!StartPass
<1>2. ASSUME NEW r \in Replicas, NEW t \in Announced, NEW u \in Uuids, NEW w \in ExchangeWallets,
             Announce(r, t, u, w)
      PROVE  IntakeStep /\ rows' = rows
  BY <1>n, <1>2 DEF Announce, IntakeStep, Intake!Next, Intake!StartAdd
<1>3. ASSUME NEW r \in Replicas, NEW e \in Expected, Expect(r, e[1], e[2])
      PROVE  IntakeStep /\ rows' = rows
  <2>1. e[1] \in Uuids \cup {Null} /\ e[2] \in ExchangeWallets
    BY AnnouncedAssumption
  <2> QED BY <1>3, <2>1 DEF Expect, IntakeStep, Intake!Next, Intake!StartExpect
<1>4. ASSUME NEW r \in Replicas, NEW svc \in Delivery!Services, StartSending(r, svc)
      PROVE  DeliveryStep /\ DP!Present' = DP!Present
  BY <1>4 DEF StartSending, DeliveryStep, Delivery!Next, Delivery!StartPass, DP!Present
<1>5. ASSUME NEW r \in Replicas, NEW batch \in SUBSET Hashes, StartUpdate(r, batch)
      PROVE  DeliveryStep /\ DP!Present' = DP!Present
  BY <1>5 DEF StartUpdate, DeliveryStep, Delivery!Next, Delivery!StartUpdate, DP!Present
<1>6. ASSUME NEW r \in Replicas, OfIntake,
             Intake!PassStep(r) \/ Intake!RequestStep(r) \/ Intake!Crash(r)
      PROVE  IntakeStep /\ session[r].pc # "idle"
  <2>1. IntakeStep
    BY <1>6 DEF IntakeStep, Intake!Next
  <2> QED BY <2>1, <1>6, <1>i, SameIntake, IntakeFacts
<1>7. ASSUME NEW r \in Replicas, OfDelivery,
             \/ Delivery!PassStep(r) \/ Delivery!UpdateStep(r) \/ Delivery!Crash(r)
             \/ \E keep \in BOOLEAN : Delivery!UpdateFails(r, keep)
      PROVE  DeliveryStep /\ DP!Present' = DP!Present
  <2>1. DeliveryStep
    BY <1>7 DEF DeliveryStep, Delivery!Next
  <2>2. \/ DP!PassStep(r) \/ DP!UpdateStep(r) \/ DP!Crash(r)
        \/ \E keep \in BOOLEAN : DP!UpdateFails(r, keep)
    BY <1>7, SameDelivery
  <2> QED BY <2>1, <2>2, <1>i, DeliveryOwn
<1>8. ASSUME World
      PROVE  (IntakeStep /\ rows' = rows) \/ (DeliveryStep /\ DP!Present' = DP!Present)
  <2>1. ASSUME NEW t \in Chain, Intake!Mine(t), OfIntake PROVE IntakeStep /\ rows' = rows
    BY <2>1 DEF IntakeStep, Intake!Next, Intake!Mine
  <2>2. ASSUME NEW w \in Wallets, Intake!LockExpires(w) \/ Intake!LockLapses(w), OfIntake
        PROVE  IntakeStep /\ rows' = rows
    BY <2>2 DEF IntakeStep, Intake!Next, Intake!LockExpires, Intake!LockLapses
  <2>3. ASSUME NEW h \in Hashes, Delivery!LockExpires(h), OfDelivery
        PROVE  DeliveryStep /\ DP!Present' = DP!Present
    BY <2>3 DEF DeliveryStep, Delivery!Next, Delivery!LockExpires, DP!Present
  <2> QED BY <1>8, <2>1, <2>2, <2>3 DEF World
<1> QED BY <1>1, <1>2, <1>3, <1>4, <1>5, <1>6, <1>7, <1>8 DEF Next, Work, Fail

(* A replica begins nothing while it is in the middle of something.          *)
LEMMA ConnectionKept ==
  ASSUME SystemInv, Next
  PROVE  OneConnection'
<1>i. /\ OneConnection /\ IP!Typed /\ DP!DeliveryInv /\ DP!Backed
      /\ session \in [Replicas -> IP!Good] /\ job \in [Replicas -> DP!Job]
  BY DEF SystemInv, IP!Typed, DP!DeliveryInv, DP!TypeOK
<1>s. ASSUME NEW r \in Replicas, job[r].pc = "idle", UNCHANGED job,
             \A q \in Replicas : q # r => session'[q] = session[q]
      PROVE  OneConnection'
  BY <1>i, <1>s DEF OneConnection
<1>j. ASSUME NEW r \in Replicas, session[r].pc = "idle", UNCHANGED session,
             \A q \in Replicas : q # r => job'[q] = job[q]
      PROVE  OneConnection'
  BY <1>i, <1>j DEF OneConnection
<1>1. ASSUME NEW r \in Replicas, OfIntake, Mine(r),
             \/ Intake!StartPass(r)
             \/ \E t \in Announced, u \in Uuids, w \in ExchangeWallets :
                  Intake!StartAdd(r, t, u, w)
             \/ \E e \in Expected : Intake!StartExpect(r, e[1], e[2])
      PROVE  OneConnection'
  <2>1. \A q \in Replicas : q # r => session'[q] = session[q]
    BY <1>1, <1>i DEF Intake!StartPass, Intake!StartAdd, Intake!StartExpect, Intake!Become
  <2> QED BY <2>1, <1>1, <1>s DEF OfIntake, Mine
<1>2. ASSUME NEW r \in Replicas, OfDelivery, Mine(r),
             \/ \E svc \in Delivery!Services : Delivery!StartPass(r, svc)
             \/ \E batch \in SUBSET Hashes : Delivery!StartUpdate(r, batch)
      PROVE  OneConnection'
  <2>1. \A q \in Replicas : q # r => job'[q] = job[q]
    BY <1>2, <1>i DEF Delivery!StartPass, Delivery!StartUpdate
  <2> QED BY <2>1, <1>2, <1>j DEF OfDelivery, intakeVars, Mine
<1>3. ASSUME NEW r \in Replicas, OfIntake,
             Intake!PassStep(r) \/ Intake!RequestStep(r) \/ Intake!Crash(r)
      PROVE  OneConnection'
  <2>1. session[r].pc # "idle" /\ \A q \in Replicas : q # r => session'[q] = session[q]
    BY <1>3, <1>i, SameIntake, IntakeFacts
  <2> QED BY <2>1, <1>3, <1>i, <1>s DEF OfIntake, OneConnection
<1>4. ASSUME NEW r \in Replicas, OfDelivery,
             \/ Delivery!PassStep(r) \/ Delivery!UpdateStep(r) \/ Delivery!Crash(r)
             \/ \E keep \in BOOLEAN : Delivery!UpdateFails(r, keep)
      PROVE  OneConnection'
  <2>1. \/ DP!PassStep(r) \/ DP!UpdateStep(r) \/ DP!Crash(r)
        \/ \E keep \in BOOLEAN : DP!UpdateFails(r, keep)
    BY <1>4, SameDelivery
  <2>2. /\ job[r].pc # "idle" \/ job'[r].pc = "idle"
        /\ \A q \in Replicas : q # r => job'[q] = job[q]
    BY <2>1, <1>i, DeliveryOwn
  <2>3. UNCHANGED session
    BY <1>4 DEF OfDelivery, intakeVars
  <2> QED BY <2>2, <2>3, <1>i DEF OneConnection
<1>5. ASSUME World PROVE UNCHANGED <<session, job>>
  BY <1>5 DEF World, OfIntake, OfDelivery, intakeVars, Intake!Mine, Intake!LockExpires,
     Intake!LockLapses, Delivery!LockExpires
<1>6. ASSUME UNCHANGED <<session, job>> PROVE OneConnection'
  BY <1>6, <1>i DEF OneConnection
<1> QED BY <1>1, <1>2, <1>3, <1>4, <1>5, <1>6
        DEF Next, StartIntake, Announce, Expect, StartSending, StartUpdate, Work, Fail

(* To Delivery a step is one of its own, or an insertion, or nothing.        *)
LEMMA ToDelivery == SystemInv /\ [Next]_vars => [Delivery!Next]_Delivery!vars
<1> SUFFICES ASSUME SystemInv, [Next]_vars PROVE Delivery!Next \/ UNCHANGED Delivery!vars
  OBVIOUS
<1>1. UNCHANGED deliveryVars => UNCHANGED Delivery!vars
  BY DEF deliveryVars, Delivery!vars
<1>2. UNCHANGED vars => UNCHANGED deliveryVars
  BY DEF vars
<1> QED BY <1>1, <1>2, EachStep, NothingEntered, RowsEntered DEF IntakeStep, DeliveryStep

(* To Intake a step of Delivery is nothing.                                  *)
LEMMA ToIntake == SystemInv /\ [Next]_vars => [Intake!Next]_Intake!vars
<1> SUFFICES ASSUME SystemInv, [Next]_vars PROVE Intake!Next \/ UNCHANGED Intake!vars
  OBVIOUS
<1>1. UNCHANGED intakeVars => UNCHANGED Intake!vars
  BY DEF intakeVars, Intake!vars
<1>2. UNCHANGED vars => UNCHANGED intakeVars
  BY DEF vars
<1> QED BY <1>1, <1>2, EachStep DEF IntakeStep, DeliveryStep, OfDelivery

LEMMA SystemInit == Init => SystemInv
<1> SUFFICES ASSUME Init PROVE SystemInv
  OBVIOUS
<1>1. Delivery!Init /\ Intake!Init
  BY DEF Init
<1>2. DP!DeliveryInv /\ DP!Backed /\ IP!Typed /\ IP!Inserted
  BY <1>1, SameDelivery, SameIntake, DeliveryFacts, IntakeFacts
<1>3. OneTable
  BY <1>1 DEF Delivery!Init, Intake!Init, OneTable, Delivery!NoRow
<1>4. OneConnection
  BY <1>1 DEF Intake!Init, Intake!Idle, OneConnection
<1> QED BY <1>2, <1>3, <1>4 DEF SystemInv

LEMMA SystemStep == SystemInv /\ [Next]_vars => SystemInv'
<1> SUFFICES ASSUME SystemInv, [Next]_vars PROVE SystemInv'
  OBVIOUS
<1>i. DP!DeliveryInv /\ DP!Backed /\ IP!Typed /\ IP!Inserted /\ OneTable /\ OneConnection
  BY DEF SystemInv
<1>d. [DP!Next]_DP!vars
  <2>1. UNCHANGED Delivery!vars => UNCHANGED DP!vars
    BY DEF Delivery!vars, DP!vars
  <2> QED BY <2>1, ToDelivery, SameDelivery
<1>n. [IP!Next]_IP!vars
  <2>1. UNCHANGED Intake!vars => UNCHANGED IP!vars
    BY DEF Intake!vars, IP!vars
  <2> QED BY <2>1, ToIntake, SameIntake
<1>1. DP!DeliveryInv' /\ DP!Backed'
  BY <1>i, <1>d, DeliveryFacts
<1>2. IP!Typed' /\ IP!Inserted' /\ rows \subseteq rows'
  BY <1>i, <1>n, IntakeFacts
<1>3. OneTable'
  <2>1. CASE IntakeStep
    BY <2>1, <1>2, OneTableEntered DEF IntakeStep
  <2>2. CASE DeliveryStep /\ DP!Present' = DP!Present
    <3>1. \A h \in Hashes : h \in DP!Present <=> table[h].status # Delivery!Absent
      BY DEF DP!Present, DP!Absent, Delivery!Absent
    <3>2. \A h \in Hashes : h \in DP!Present' <=> table'[h].status # Delivery!Absent
      BY DEF DP!Present, DP!Absent, Delivery!Absent
    <3>3. rows' = rows
      BY <2>2 DEF DeliveryStep, OfDelivery, intakeVars
    <3> QED BY <2>2, <3>1, <3>2, <3>3, <1>i DEF OneTable
  <2>3. CASE UNCHANGED vars
    BY <2>3, <1>i DEF vars, intakeVars, deliveryVars, OneTable
  <2> QED BY <2>1, <2>2, <2>3, EachStep
<1>4. OneConnection'
  <2>1. CASE UNCHANGED vars
    BY <2>1, <1>i DEF vars, intakeVars, deliveryVars, OneConnection
  <2> QED BY <2>1, ConnectionKept
<1> QED BY <1>1, <1>2, <1>3, <1>4 DEF SystemInv

-----------------------------------------------------------------------------
(* The two parts, one table and one connection per replica stay in order     *)
(* together, on any number of replicas and whatever fails.                   *)
THEOREM SystemCorrect == Spec => []SystemInv
<1> QED BY SystemInit, SystemStep, PTL DEF Spec

(* To Delivery the passes and requests of Intake, with all their rollbacks,  *)
(* are insertions of new rows by replicas that are delivering nothing.       *)
THEOREM DeliveryImplemented == Spec => ImplementsDelivery
<1>1. Init => Delivery!Init
  BY DEF Init
<1> QED BY <1>1, ToDelivery, SystemCorrect, PTL DEF Spec, ImplementsDelivery, Delivery!Spec

(* Intake behaves as it does alone: Delivery touches nothing that it reads.  *)
THEOREM IntakeImplemented == Spec => Intake!Spec
<1>1. Init => Intake!Init
  BY DEF Init
<1> QED BY <1>1, ToIntake, SystemCorrect, PTL DEF Spec, Intake!Spec

(* No remote service hears of a transaction before Intake has committed its  *)
(* row: neither a pass that is rolled back nor a refused request leaves      *)
(* anything behind that is sent.                                             *)
THEOREM SentAreStored ==
  Spec => [](\A svc \in Delivery!Services : \A h \in received[svc] : Stored(h))
<1>1. ASSUME SystemInv PROVE \A svc \in Delivery!Services : \A h \in received[svc] : Stored(h)
  <2>1. \A svc \in Delivery!Services : received[svc] \subseteq DP!Present
    BY <1>1 DEF SystemInv, DP!Backed, Delivery!Services, DP!Services
  <2>2. \A h \in DP!Present : h \in Hashes /\ table[h].status # Delivery!Absent
    BY DEF DP!Present, DP!Absent, Delivery!Absent
  <2> QED BY <2>1, <2>2, <1>1 DEF SystemInv, OneTable, Stored
<1> QED BY <1>1, SystemCorrect, PTL

-----------------------------------------------------------------------------
(* What is proved of Delivery and of Intake alone, of both together.         *)

LEMMA DeliveryAlone == Spec => DP!Spec
<1>1. Init => DP!Init
  BY SameDelivery DEF Init
<1>2. SystemInv /\ [Next]_vars => [DP!Next]_DP!vars
  <2>1. UNCHANGED Delivery!vars => UNCHANGED DP!vars
    BY DEF Delivery!vars, DP!vars
  <2> QED BY <2>1, ToDelivery, SameDelivery
<1> QED BY <1>1, <1>2, SystemCorrect, PTL DEF Spec, DP!Spec

LEMMA IntakeAlone == Spec => IP!Spec
<1>1. Init => IP!Init
  BY SameIntake DEF Init
<1>2. SystemInv /\ [Next]_vars => [IP!Next]_IP!vars
  <2>1. UNCHANGED Intake!vars => UNCHANGED IP!vars
    BY DEF Intake!vars, IP!vars
  <2> QED BY <2>1, ToIntake, SameIntake
<1> QED BY <1>1, <1>2, SystemCorrect, PTL DEF Spec, IP!Spec

(* On one replica, what is_valid and find_in_base have looked up still holds *)
(* at the INSERT, although sending passes and UpdateTrx handlers share the   *)
(* connection with the passes and requests that insert.                      *)
THEOREM SystemInserts ==
  ASSUME \A p, q \in Replicas : p = q
  PROVE  Spec => []InsertNeverRefused
<1>1. IP!Spec => []IP!InsertNeverRefused
  BY OneReplicaFact
<1>2. IP!InsertNeverRefused => InsertNeverRefused
  BY SameIntake DEF InsertNeverRefused
<1> QED BY <1>1, <1>2, IntakeAlone, PTL

(* On one replica a confirmation that UpdateTrx has answered stays in the    *)
(* table, whatever passes and requests of either part come in between.       *)
THEOREM SystemKeeps ==
  ASSUME \A p, q \in Replicas : p = q
  PROVE  Spec => []Delivery!ConfirmationKept
<1>1. DP!Spec => []DP!ConfirmationKept
  BY OneReplicaKeeps
<1>2. DP!ConfirmationKept => Delivery!ConfirmationKept
  BY DEF DP!ConfirmationKept, Delivery!ConfirmationKept, DP!Confirmed, Delivery!Confirmed,
     DP!Reported, Delivery!Reported
<1> QED BY <1>1, <1>2, DeliveryAlone, PTL

(* On one replica the whole service implements Lifecycle: from its entry in  *)
(* the table, by either way, a transaction's status only moves forward, and  *)
(* only to what has happened to it.                                          *)
THEOREM SystemLifecycle ==
  ASSUME \A p, q \in Replicas : p = q
  PROVE  Spec => Delivery!ImplementsLifecycle
<1>1. DP!Spec => DP!ImplementsLifecycle
  BY OneReplicaKeeps
<1>2. DP!Abstract!Init => Delivery!Abstract!Init
  BY DEF DP!Abstract!Init, Delivery!Abstract!Init, DP!Abstract!Absent, Delivery!Abstract!Absent,
     DP!Abstract!Services, Delivery!Abstract!Services
<1>3. [DP!Abstract!Next]_(DP!Abstract!vars) => [Delivery!Abstract!Next]_(Delivery!Abstract!vars)
  BY DEF DP!Abstract!vars, Delivery!Abstract!vars, DP!Abstract!Next, Delivery!Abstract!Next,
     DP!Abstract!Deliver, Delivery!Abstract!Deliver, DP!Abstract!Mark, Delivery!Abstract!Mark,
     DP!Abstract!Register, Delivery!Abstract!Register, DP!Abstract!Confirm,
     Delivery!Abstract!Confirm, DP!Abstract!Eligible, Delivery!Abstract!Eligible,
     DP!Abstract!Source, Delivery!Abstract!Source, DP!Abstract!Target, Delivery!Abstract!Target,
     DP!Abstract!Services, Delivery!Abstract!Services, DP!Abstract!New, Delivery!Abstract!New,
     DP!Abstract!Sent, Delivery!Abstract!Sent, DP!Abstract!Confirmed,
     Delivery!Abstract!Confirmed, DP!Abstract!Reported, Delivery!Abstract!Reported,
     DP!Abstract!Absent, Delivery!Abstract!Absent
<1> QED BY <1>1, <1>2, <1>3, DeliveryAlone, PTL
        DEF DP!ImplementsLifecycle, Delivery!ImplementsLifecycle, DP!Abstract!Spec,
            Delivery!Abstract!Spec

(* On any number of replicas rows are only ever added, whole transactions at *)
(* a time, and hashes and uuids stay unique, with the senders and handlers   *)
(* of Delivery at work on the same rows.                                     *)
THEOREM SystemLedger == Spec => Intake!KeepsLedger
<1>1. IP!Spec => IP!KeepsLedger
  BY LedgerFact
<1>2. IP!Ledgers!Init => Intake!Ledgers!Init
  BY DEF IP!Ledgers!Init, Intake!Ledgers!Init
<1>3. [IP!Ledgers!Next]_rows => [Intake!Ledgers!Next]_rows
  BY DEF IP!Ledgers!Next, Intake!Ledgers!Next, IP!Ledgers!Enter, Intake!Ledgers!Enter,
     IP!Ledgers!Compatible, Intake!Ledgers!Compatible, IP!Ledgers!Clash, Intake!Ledgers!Clash,
     IP!Row, Intake!Row, IP!Hashes, Intake!Hashes
<1> QED BY <1>1, <1>2, <1>3, IntakeAlone, PTL
        DEF IP!KeepsLedger, Intake!KeepsLedger, IP!Ledgers!Spec, Intake!Ledgers!Spec
=============================================================================
