-------------------------- MODULE OneReplicaProofs --------------------------
(***************************************************************************)
(* Proofs about Delivery on one replica, for every set of transactions and   *)
(* every bound on failures: there the one database connection keeps passes   *)
(* and handlers apart, and what a pass has read is still true when it is     *)
(* used.                                                                     *)
(***************************************************************************)
EXTENDS DeliveryProofs

OneReplica == \A q, r \in Replicas : q = r

\* What the job of the only replica has read still is what the table says.
UpToDate(j, rows) ==
  /\ j.kind \in Services =>
       /\ \A t \in j.todo : rows[t].status = Source(j.kind)
       /\ j.pc \in {"acquire", "call", "save"} => rows[j.cur].status = Source(j.kind)
       /\ j.pc \in {"acquire", "call", "save"} => j.cur \notin j.todo
  /\ j.kind = "update" =>
       /\ \A t \in j.wrote : Updatable(rows[t])
       /\ j.pc = "write" => Updatable(rows[j.cur])

OneReplicaInv ==
  /\ \A r \in Replicas : UpToDate(job[r], table)
  /\ ConfirmationKept

-----------------------------------------------------------------------------

\* The rows that a job may rely on are the same afterwards.
LEMMA StillUpToDate ==
  ASSUME NEW j, NEW rows, NEW more, UpToDate(j, rows),
         \A t \in Trx : rows[t].status # Absent => more[t].status = rows[t].status,
         j \in Job, WellFormed(j, received)
  PROVE  UpToDate(j, more)
<1>1. \A svc \in Services : Source(svc) # Absent
  BY DEF Services, Source, New, Confirmed, Absent
<1>2. \A t \in Trx : Updatable(rows[t]) => Updatable(more[t])
  BY DEF Updatable
<1>3. \A t \in Trx, svc \in Services :
        rows[t].status = Source(svc) => more[t].status = Source(svc)
  BY <1>1
<1>4. j.todo \subseteq Trx /\ j.wrote \subseteq Trx
  BY DEF Job
<1> QED
  BY <1>2, <1>3, <1>4 DEF UpToDate, WellFormed

\* A replica with nothing to do relies on nothing.
LEMMA IdleUpToDate == \A rows : UpToDate(Idle, rows)
  BY DEF UpToDate, Idle, Services

\* Every step of the only replica leaves it up to date.
LEMMA UpToDateStep ==
  ASSUME OneReplica, DeliveryInv, OneReplicaInv, [Next]_vars
  PROVE  \A r \in Replicas : UpToDate(job'[r], table')
<1> DEFINE Goal == \A r \in Replicas : UpToDate(job'[r], table')
<1>j. \A r \in Replicas : /\ job[r] \in Job
                          /\ WellFormed(job[r], received)
                          /\ UpToDate(job[r], table)
  BY DEF DeliveryInv, TypeOK, OneReplicaInv
<1>d. job \in [Replicas -> Job] /\ table \in [Trx -> Row]
  BY DEF DeliveryInv, TypeOK
<1>u. ASSUME NEW r \in Replicas, NEW x, UpToDate(x, table'), job' = [job EXCEPT ![r] = x]
      PROVE  Goal
  BY <1>u, <1>d DEF OneReplica
<1>f. ASSUME NEW r \in Replicas, Finish(r) PROVE Goal
  BY <1>f, <1>u, IdleUpToDate DEF Finish
<1>1. ASSUME NEW r \in Replicas, NEW svc \in Services, StartPass(r, svc) PROVE Goal
  <2> DEFINE copy == [t \in Trx |-> IF t \in Selected(table, svc) THEN table[t] ELSE NoRow]
             x == [Idle EXCEPT !.kind = svc, !.pc = "scan",
                               !.todo = Selected(table, svc), !.copy = copy]
  <2>1. job' = [job EXCEPT ![r] = x] /\ table' = table
    BY <1>1 DEF StartPass
  <2>2. UpToDate(x, table)
    BY DEF UpToDate, Idle, Services, Selected
  <2> QED
    BY <1>u, <2>1, <2>2
<1>2. ASSUME NEW r \in Replicas, NEW batch \in SUBSET Trx, StartUpdate(r, batch) PROVE Goal
  <2> DEFINE x == [Idle EXCEPT !.kind = "update", !.pc = "read", !.todo = batch]
  <2>1. job' = [job EXCEPT ![r] = x]
    BY <1>2 DEF StartUpdate
  <2>2. UpToDate(x, table')
    BY DEF UpToDate, Idle, Services
  <2> QED
    BY <1>u, <2>1, <2>2
<1>3. ASSUME NEW r \in Replicas, NEW t \in Trx, SkipLocked(r, t) PROVE Goal
  <2> DEFINE x == [job[r] EXCEPT !.todo = Remaining(@, t)]
  <2>1. job' = [job EXCEPT ![r] = x] /\ table' = table
    BY <1>3 DEF SkipLocked
  <2>2. UpToDate(x, table)
    BY <1>j DEF UpToDate, Remaining, Job
  <2> QED
    BY <1>u, <2>1, <2>2
<1>4. ASSUME NEW r \in Replicas, NEW t \in Trx, SeeUnlocked(r, t) PROVE Goal
  <2> DEFINE x == [job[r] EXCEPT !.todo = Remaining(@, t), !.cur = t, !.pc = "acquire"]
  <2>1. job' = [job EXCEPT ![r] = x] /\ table' = table /\ t \in job[r].todo
        /\ job[r].pc = "scan"
    BY <1>4 DEF SeeUnlocked
  <2>2. job[r].kind \in Services
    BY <2>1, <1>j DEF WellFormed
  <2>3. UpToDate(x, table)
    BY <1>j, <2>1, <2>2 DEF UpToDate, Remaining, Job, Services
  <2> QED
    BY <1>u, <2>1, <2>3
<1>5. ASSUME NEW r \in Replicas, Acquire(r) PROVE Goal
  <2> DEFINE x == [job[r] EXCEPT !.pc = "call", !.tries = 0]
  <2>1. job' = [job EXCEPT ![r] = x] /\ table' = table /\ job[r].pc = "acquire"
    BY <1>5 DEF Acquire
  <2>2. UpToDate(x, table)
    BY <1>j, <2>1 DEF UpToDate, Job
  <2> QED
    BY <1>u, <2>1, <2>2
<1>6. ASSUME NEW r \in Replicas, job[r].pc = "call", table' = table,
             \/ job' = [job EXCEPT ![r].tries = @ + 1]
             \/ job' = [job EXCEPT ![r].pc = "save"]
             \/ job' = [job EXCEPT ![r].pc = "release"]
             \/ job' = [job EXCEPT ![r].pc = "unwind"]
      PROVE  Goal
  <2> DEFINE w == [job[r] EXCEPT !.tries = @ + 1]
             x == [job[r] EXCEPT !.pc = "save"]
             y == [job[r] EXCEPT !.pc = "release"]
             z == [job[r] EXCEPT !.pc = "unwind"]
  <2>1. w \in Job /\ x \in Job /\ y \in Job /\ z \in Job
    BY <1>j DEF Job
  <2>2. UpToDate(w, table) /\ UpToDate(x, table) /\ UpToDate(y, table) /\ UpToDate(z, table)
    BY <1>6, <1>j DEF UpToDate, Job
  <2>3. \/ job' = [job EXCEPT ![r] = w]
        \/ job' = [job EXCEPT ![r] = x]
        \/ job' = [job EXCEPT ![r] = y]
        \/ job' = [job EXCEPT ![r] = z]
    BY <1>6
  <2> QED
    BY <1>6, <1>u, <2>2, <2>3
<1>7. ASSUME NEW r \in Replicas,
             CannotEncode(r) \/ CallAccepted(r) \/ CallRejected(r)
               \/ \E taken \in BOOLEAN : CallRaises(r, taken)
      PROVE  Goal
  BY <1>6, <1>7 DEF CannotEncode, CallAccepted, CallRejected, CallRaises, Goto, AfterRejection
<1>8. ASSUME NEW r \in Replicas, Save(r) PROVE Goal
  <2> DEFINE x == [job[r] EXCEPT !.pc = "release"]
             t == job[r].cur
  <2>1. job' = [job EXCEPT ![r] = x] /\ job[r].pc = "save"
        /\ \A s \in Trx : s # t => table'[s] = table[s]
    BY <1>8, <1>d DEF Save, Goto
  <2>2. job[r].kind \in Services /\ job[r].todo \subseteq Trx
    BY <2>1, <1>j DEF WellFormed, Job
  <2>3. UpToDate(x, table')
    BY <1>j, <2>1, <2>2 DEF UpToDate, Job, Services
  <2> QED
    BY <1>u, <2>1, <2>3
<1>9. ASSUME NEW r \in Replicas, Release(r) PROVE Goal
  <2> DEFINE x == [job[r] EXCEPT !.pc = "scan", !.cur = NoTrx]
  <2>1. CASE Finish(r)
    BY <1>f, <2>1
  <2>2. CASE job' = [job EXCEPT ![r].pc = "scan", ![r].cur = NoTrx]
    <3>1. job' = [job EXCEPT ![r] = x] /\ table' = table
      BY <1>9, <2>2 DEF Release
    <3>2. UpToDate(x, table)
      BY <1>j DEF UpToDate, Job
    <3> QED
      BY <1>u, <3>1, <3>2
  <2> QED
    BY <1>9, <2>1, <2>2 DEF Release
<1>10. ASSUME NEW r \in Replicas, NEW t \in Trx, UpdateRead(r, t) PROVE Goal
  <2> DEFINE x == [job[r] EXCEPT !.todo = @ \ {t}, !.cur = t, !.pc = "write"]
             y == [job[r] EXCEPT !.todo = @ \ {t}]
  <2>1. /\ table' = table /\ job[r].pc = "read"
        /\ \/ job' = [job EXCEPT ![r] = x] /\ Updatable(table[t])
           \/ job' = [job EXCEPT ![r] = y]
    BY <1>10 DEF UpdateRead
  <2>2. job[r].kind = "update"
    BY <1>j, <2>1 DEF WellFormed
  <2>3. UpToDate(y, table) /\ (Updatable(table[t]) => UpToDate(x, table))
    BY <1>j, <2>1, <2>2 DEF UpToDate, Job, Services
  <2> QED
    BY <1>u, <2>1, <2>3
<1>11. ASSUME NEW r \in Replicas, UpdateWrite(r) PROVE Goal
  <2> DEFINE x == [job[r] EXCEPT !.wrote = @ \cup {job[r].cur}, !.cur = NoTrx, !.pc = "read"]
  <2>1. job' = [job EXCEPT ![r] = x] /\ table' = table /\ job[r].pc = "write"
    BY <1>11 DEF UpdateWrite
  <2>2. job[r].kind = "update"
    BY <1>j, <2>1 DEF WellFormed
  <2>3. UpToDate(x, table)
    BY <1>j, <2>1, <2>2 DEF UpToDate, Job, Services
  <2> QED
    BY <1>u, <2>1, <2>3
<1>12. ASSUME NEW r \in Replicas,
              \/ EndPass(r) \/ AcquireFails(r) \/ Unwind(r) \/ UpdateCommit(r)
              \/ DeadlockVictim(r) \/ Crash(r) \/ \E keep \in BOOLEAN : UpdateFails(r, keep)
       PROVE  Goal
  BY <1>12, <1>f DEF EndPass, AcquireFails, Unwind, UpdateCommit, DeadlockVictim, Crash,
     UpdateFails
<1>13. ASSUME NEW r \in Replicas, NEW batch \in SUBSET Trx, Insert(r, batch) PROVE Goal
  <2>1. \A t \in Trx : table[t].status # Absent => table'[t].status = table[t].status
    BY <1>13 DEF Insert
  <2>2. job' = job
    BY <1>13 DEF Insert
  <2> QED
    BY <1>j, <2>1, <2>2, StillUpToDate
<1>14. ASSUME NEW t \in Trx, LockExpires(t) \/ LockLapses(t) PROVE Goal
  BY <1>14, <1>j DEF LockExpires, LockLapses
<1>15. CASE UNCHANGED vars
  BY <1>15, <1>j DEF vars
<1> QED
  BY <1>1, <1>2, <1>3, <1>4, <1>5, <1>7, <1>8, <1>9, <1>10, <1>11, <1>12, <1>13, <1>14,
     <1>15 DEF Next, PassStep, UpdateStep

\* A confirmation that was answered stays in the table.
LEMMA ConfirmationStep ==
  ASSUME OneReplica, DeliveryInv, OneReplicaInv, [Next]_vars
  PROVE  ConfirmationKept'
<1>j. \A r \in Replicas : /\ job[r] \in Job
                          /\ WellFormed(job[r], received)
                          /\ UpToDate(job[r], table)
  BY DEF DeliveryInv, TypeOK, OneReplicaInv
<1>t. table \in [Trx -> Row] /\ answered \subseteq Trx
  BY DEF DeliveryInv, TypeOK
<1>k. \A t \in answered : table[t].status \in {Confirmed, Reported}
  BY DEF OneReplicaInv, ConfirmationKept
<1>1. ASSUME NEW r \in Replicas, Save(r) PROVE ConfirmationKept'
  <2> DEFINE t == job[r].cur
             svc == job[r].kind
  <2>1. svc \in Services /\ t \in Trx /\ table[t].status = Source(svc)
    BY <1>1, <1>j DEF Save, WellFormed, UpToDate
  <2>2. table'[t].status = Target(svc) /\ \A s \in Trx \ {t} : table'[s] = table[s]
    <3>1. job[r].copy[t] \in Row
      BY <1>j, <2>1 DEF Job
    <3> QED
      BY <1>1, <1>t, <2>1, <3>1 DEF Save, SavedRow, Row
  <2>3. t \in answered => svc = "exchanger"
    BY <1>k, <2>1 DEF Services, Source, New, Confirmed, Reported
  <2>4. answered' = answered
    BY <1>1 DEF Save
  <2> QED
    BY <1>k, <1>t, <2>2, <2>3, <2>4 DEF ConfirmationKept, Target
<1>2. ASSUME NEW r \in Replicas, table' = Committed(r),
             answered' \in {answered, answered \cup job[r].wrote}
      PROVE  ConfirmationKept'
  <2>1. \A t \in Trx : table'[t] = IF t \in job[r].wrote THEN UpdatedRow(table[t]) ELSE table[t]
    BY <1>2 DEF Committed
  <2>2. \A t \in Trx : UpdatedRow(table[t]).status = Confirmed
    BY <1>t DEF UpdatedRow, Row
  <2>3. job[r].wrote \subseteq Trx
    BY <1>j DEF Job
  <2> QED
    BY <1>2, <1>k, <1>t, <2>1, <2>2, <2>3 DEF ConfirmationKept
<1>3. ASSUME NEW r \in Replicas, NEW batch \in SUBSET Trx, Insert(r, batch)
      PROVE  ConfirmationKept'
  <2>1. \A t \in answered : t \notin batch /\ table'[t] = table[t]
    BY <1>3, <1>k, <1>t DEF Insert, Absent, Confirmed, Reported
  <2> QED
    BY <1>3, <1>k, <2>1 DEF Insert, ConfirmationKept
<1>4. CASE table' = table /\ answered' = answered
  BY <1>4, <1>k DEF ConfirmationKept
<1>5. ASSUME NEW r \in Replicas, UpdateCommit(r) \/ \E keep \in BOOLEAN : UpdateFails(r, keep)
      PROVE  ConfirmationKept'
  BY <1>2, <1>4, <1>5 DEF UpdateCommit, UpdateFails
<1>6. CASE ~ \E r \in Replicas :
             \/ Save(r) \/ UpdateCommit(r)
             \/ \E keep \in BOOLEAN : UpdateFails(r, keep)
             \/ \E batch \in SUBSET Trx : Insert(r, batch)
  BY <1>4, <1>6 DEF Next, vars, PassStep, UpdateStep, StartPass, StartUpdate, EndPass,
     SkipLocked, SeeUnlocked, Acquire, AcquireFails, CannotEncode, CallAccepted, CallRejected,
     CallRaises, Release, Unwind, UpdateRead, UpdateWrite, DeadlockVictim, Crash, LockExpires,
     LockLapses
<1> QED
  BY <1>1, <1>3, <1>5, <1>6

LEMMA AlwaysUpToDate ==
  ASSUME OneReplica
  PROVE  Spec => [](DeliveryInv /\ OneReplicaInv)
<1>1. Init => OneReplicaInv
  BY IdleUpToDate DEF Init, OneReplicaInv, ConfirmationKept
<1>2. DeliveryInv /\ OneReplicaInv /\ [Next]_vars => OneReplicaInv'
  <2>1. DeliveryInv /\ OneReplicaInv /\ [Next]_vars =>
          (\A r \in Replicas : UpToDate(job'[r], table')) /\ ConfirmationKept'
    BY UpToDateStep, ConfirmationStep
  <2> QED
    BY <2>1 DEF OneReplicaInv
<1> QED
  BY <1>1, <1>2, Invariance, PTL DEF Spec

(* On one replica a transaction is never pushed to a service whose turn it   *)
(* is not, although the pass goes by copies it has read long before.         *)
THEOREM FreshOnOneReplica ==
  ASSUME OneReplica
  PROVE  Spec => []FreshWhenCalled
<1>1. DeliveryInv /\ OneReplicaInv => FreshWhenCalled
  BY DEF DeliveryInv, OneReplicaInv, WellFormed, UpToDate, FreshWhenCalled
<1> QED
  BY <1>1, AlwaysUpToDate, PTL

(* On one replica no confirmation that UpdateTrx has answered is overwritten *)
(* by the full-row save of a sending pass.                                   *)
THEOREM KeptOnOneReplica ==
  ASSUME OneReplica
  PROVE  Spec => []ConfirmationKept
<1>1. OneReplicaInv => ConfirmationKept
  BY DEF OneReplicaInv
<1> QED
  BY <1>1, AlwaysUpToDate, PTL

-----------------------------------------------------------------------------
(* One replica implements Lifecycle.                                         *)

\* The abstract status of every transaction.
StatusOf == [t \in Trx |-> table[t].status]

\* A step of the one replica is a step of the lifecycle or none at all.
LEMMA LifecycleStep ==
  ASSUME OneReplica, DeliveryInv, OneReplicaInv, [Next]_vars
  PROVE  Abstract!Next \/ (UNCHANGED received /\ StatusOf' = StatusOf)
<1> DEFINE Goal == Abstract!Next \/ (UNCHANGED received /\ StatusOf' = StatusOf)
<1>j. \A r \in Replicas : /\ job[r] \in Job
                          /\ WellFormed(job[r], received)
                          /\ UpToDate(job[r], table)
  BY DEF DeliveryInv, TypeOK, OneReplicaInv
<1>t. table \in [Trx -> Row]
  BY DEF DeliveryInv, TypeOK
<1>e. ASSUME NEW r \in Replicas, job[r].pc \in {"call", "save"}
      PROVE  /\ job[r].kind \in Services /\ job[r].cur \in Trx
             /\ Abstract!Eligible(job[r].kind, job[r].cur)
  <2>1. job[r].kind \in Services /\ job[r].cur \in Trx
    BY <1>e, <1>j DEF WellFormed
  <2>2. /\ table[job[r].cur].status = Source(job[r].kind)
        /\ job[r].kind = "exchanger" => job[r].cur \in Platform
    BY <1>e, <1>j, <2>1 DEF WellFormed, UpToDate
  <2> QED
    BY <2>1, <2>2 DEF Abstract!Eligible, Abstract!Source, Source, Abstract!New, New,
       Abstract!Confirmed, Confirmed
<1>n. /\ \A svc \in Services, t \in Trx :
           Abstract!Deliver(svc, t) \/ Abstract!Mark(svc, t) => Abstract!Next
      /\ \A batch \in SUBSET Trx :
           Abstract!Register(batch) \/ Abstract!Confirm(batch) => Abstract!Next
  BY DEF Abstract!Next, Abstract!Services, Services
<1>m. ASSUME NEW svc \in Services, NEW t \in Trx, Abstract!Eligible(svc, t), t \in received[svc],
             StatusOf' = [StatusOf EXCEPT ![t] = Target(svc)], received' = received
      PROVE  Goal
  <2>1. Abstract!Target(svc) = Target(svc)
    BY DEF Abstract!Target, Target, Abstract!Sent, Sent, Abstract!Reported, Reported
  <2>2. Abstract!Mark(svc, t)
    BY <1>m, <2>1 DEF Abstract!Mark, StatusOf
  <2> QED
    BY <1>n, <2>2
<1>c. ASSUME NEW batch \in SUBSET Trx, batch \subseteq received["transactions"],
             \A t \in batch : table[t].status # Reported, received' = received,
             StatusOf' = [t \in Trx |-> IF t \in batch THEN Confirmed ELSE StatusOf[t]]
      PROVE  Goal
  <2>1. Abstract!Confirm(batch)
    BY <1>c DEF Abstract!Confirm, StatusOf, Abstract!Confirmed, Confirmed,
       Abstract!Reported, Reported
  <2> QED
    BY <1>n, <2>1
<1>s. CASE UNCHANGED <<table, received>>
  BY <1>s DEF StatusOf
<1>d. ASSUME NEW r \in Replicas, job[r].pc = "call", table' = table,
             received' = [received EXCEPT ![job[r].kind] = @ \cup {job[r].cur}]
      PROVE  Goal
  <2>1. Abstract!Deliver(job[r].kind, job[r].cur)
    BY <1>d, <1>e DEF Abstract!Deliver
  <2> QED
    BY <1>d, <1>e, <1>n, <2>1
<1>1. ASSUME NEW r \in Replicas, CallAccepted(r) PROVE Goal
  BY <1>1, <1>d DEF CallAccepted
<1>2. ASSUME NEW r \in Replicas, NEW taken \in BOOLEAN, CallRaises(r, taken) PROVE Goal
  BY <1>2, <1>d, <1>s DEF CallRaises
<1>3. ASSUME NEW r \in Replicas, Save(r) PROVE Goal
  <2> DEFINE t == job[r].cur
             svc == job[r].kind
  <2>1. svc \in Services /\ t \in Trx /\ Abstract!Eligible(svc, t) /\ t \in received[svc]
    BY <1>3, <1>e, <1>j DEF Save, WellFormed
  <2>2. table'[t].status = Target(svc) /\ \A s \in Trx \ {t} : table'[s] = table[s]
    <3>1. job[r].copy[t] \in Row
      BY <1>j, <2>1 DEF Job
    <3> QED
      BY <1>3, <1>t, <2>1, <3>1 DEF Save, SavedRow, Row
  <2>3. StatusOf' = [StatusOf EXCEPT ![t] = Target(svc)]
    BY <2>1, <2>2 DEF StatusOf
  <2> QED
    BY <1>3, <1>m, <2>1, <2>3 DEF Save
<1>4. ASSUME NEW r \in Replicas, job[r].kind = "update", table' = Committed(r),
             received' = received
      PROVE  Goal
  <2> DEFINE batch == job[r].wrote
  <2>1. batch \in SUBSET Trx /\ batch \subseteq received["transactions"]
        /\ \A t \in batch : table[t].status # Reported
    BY <1>4, <1>j DEF Job, WellFormed, UpToDate, Updatable
  <2>2. \A t \in Trx : table'[t] = IF t \in batch THEN UpdatedRow(table[t]) ELSE table[t]
    BY <1>4 DEF Committed
  <2>3. \A t \in Trx : UpdatedRow(table[t]).status = Confirmed
    BY <1>t DEF UpdatedRow, Row
  <2>4. StatusOf' = [t \in Trx |-> IF t \in batch THEN Confirmed ELSE StatusOf[t]]
    BY <2>2, <2>3 DEF StatusOf
  <2> QED
    BY <1>4, <1>c, <2>1, <2>4
<1>5. ASSUME NEW r \in Replicas, UpdateCommit(r) PROVE Goal
  <2>1. job[r].kind = "update"
    BY <1>5, <1>j DEF UpdateCommit, WellFormed
  <2> QED
    BY <1>4, <1>5, <2>1 DEF UpdateCommit
<1>6. ASSUME NEW r \in Replicas, NEW keep \in BOOLEAN, UpdateFails(r, keep) PROVE Goal
  BY <1>4, <1>6, <1>s DEF UpdateFails
<1>7. ASSUME NEW r \in Replicas, NEW batch \in SUBSET Trx, Insert(r, batch) PROVE Goal
  <2>1. \A t \in batch : StatusOf[t] = Absent
    BY <1>7 DEF Insert, StatusOf
  <2>2. StatusOf' = [t \in Trx |-> IF t \in batch THEN New ELSE StatusOf[t]]
    BY <1>7 DEF Insert, StatusOf, NewRow
  <2>3. Abstract!Register(batch)
    BY <1>7, <2>1, <2>2 DEF Insert, Abstract!Register, StatusOf, Abstract!Absent, Absent,
       Abstract!New, New
  <2> QED
    BY <1>n, <2>3
<1>8. CASE ~ \E r \in Replicas :
             \/ CallAccepted(r) \/ Save(r) \/ UpdateCommit(r)
             \/ \E taken \in BOOLEAN : CallRaises(r, taken)
             \/ \E keep \in BOOLEAN : UpdateFails(r, keep)
             \/ \E batch \in SUBSET Trx : Insert(r, batch)
  <2>1. UNCHANGED <<table, received>>
    BY <1>8 DEF Next, vars, PassStep, UpdateStep, StartPass, StartUpdate, EndPass,
       SkipLocked, SeeUnlocked, Acquire, AcquireFails, CannotEncode, CallRejected,
       Release, Unwind, UpdateRead, UpdateWrite, DeadlockVictim, Crash, LockExpires,
       LockLapses
  <2> QED
    BY <2>1, <1>s
<1> QED
  BY <1>1, <1>2, <1>3, <1>5, <1>6, <1>7, <1>8

(* One replica implements the lifecycle: deliveries in the order of the      *)
(* statuses, and a status that only moves forward, through every retry,      *)
(* crash, lapsed lock and interrupted handler.                               *)
THEOREM OneReplicaImplements ==
  ASSUME OneReplica
  PROVE  Spec => ImplementsLifecycle
<1>1. Init => Abstract!Init
  BY DEF Init, Abstract!Init, NoRow, Absent, Abstract!Absent, Services, Abstract!Services
<1>2. DeliveryInv /\ OneReplicaInv /\ [Next]_vars => [Abstract!Next]_(Abstract!vars)
  BY LifecycleStep DEF StatusOf, Abstract!vars
<1> QED
  BY <1>1, <1>2, AlwaysUpToDate, PTL DEF Spec, ImplementsLifecycle, Abstract!Spec
=============================================================================
