--------------------------- MODULE DeliveryProofs ---------------------------
(***************************************************************************)
(* Proofs about Delivery for every set of replicas and transactions and     *)
(* every bound on failures.                                                 *)
(***************************************************************************)
EXTENDS Delivery, TLAPS

-----------------------------------------------------------------------------
(* Single jobs. *)

(* A replica with nothing to do is a well-formed job. *)
LEMMA IdleJob == Idle \in Job /\ \A rec : WellFormed(Idle, rec)
<1>1. Idle \in Job
  BY DEF Idle, Job, NoRow, Row, Status, Services, Absent
<1>2. \A rec : WellFormed(Idle, rec)
  BY NoTrxAssumption DEF Idle, WellFormed, Services
<1> QED
  BY <1>1, <1>2

(* What a job knows stays true while the services receive more. *)
LEMMA WellFormedGrows ==
  ASSUME NEW j \in Job, NEW rec, NEW more,
         \A svc \in Services : rec[svc] \subseteq more[svc],
         WellFormed(j, rec)
  PROVE  WellFormed(j, more)
<1>1. "transactions" \in Services
  BY DEF Services
<1> QED
  BY <1>1 DEF WellFormed, Job

(* get_data returns rows whose turn it is, and knows enough about them. *)
LEMMA StartedJob ==
  ASSUME DeliveryInv, NEW svc \in Services
  PROVE  LET j == [Idle EXCEPT !.kind = svc,
                               !.pc   = "scan",
                               !.todo = Selected(table, svc),
                               !.copy = [t \in Trx |-> IF t \in Selected(table, svc)
                                                       THEN table[t] ELSE NoRow]]
         IN  j \in Job /\ WellFormed(j, received)
<1> DEFINE copy == [t \in Trx |-> IF t \in Selected(table, svc) THEN table[t] ELSE NoRow]
           j == [Idle EXCEPT !.kind = svc, !.pc = "scan",
                             !.todo = Selected(table, svc), !.copy = copy]
<1>1. Selected(table, svc) \in SUBSET Trx
  BY DEF Selected
<1>2. copy \in [Trx -> Row]
  BY DEF DeliveryInv, TypeOK, NoRow, Row, Status, Absent
<1> HIDE DEF copy
<1>3. /\ j.kind = svc /\ j.pc = "scan" /\ j.todo = Selected(table, svc)
      /\ j.copy = copy /\ j.cur = NoTrx /\ j.wrote = {}
  BY DEF Idle
<1>4. j \in Job
  BY <1>1, <1>2, IdleJob DEF Job
<1> HIDE DEF j
<1>5. ASSUME NEW t \in Trx, t \in Selected(table, svc)
      PROVE  /\ copy[t] = [status |-> Source(svc), confirmed |-> svc = "exchanger"]
             /\ svc = "exchanger" => t \in Platform \cap received["transactions"]
  <2>1. copy[t] = table[t]
    BY <1>5 DEF copy
  <2>2. table[t] \in Row /\ table[t].status = Source(svc)
    BY <1>5 DEF Selected, DeliveryInv, TypeOK
  <2>3. table[t].confirmed <=> svc = "exchanger"
    BY <2>2 DEF DeliveryInv, RowConsistent, Source, Services, New, Confirmed, Reported
  <2>4. table[t] = [status |-> Source(svc), confirmed |-> svc = "exchanger"]
    BY <2>2, <2>3 DEF Row
  <2>5. svc = "exchanger" => t \in Platform \cap received["transactions"]
    BY <1>5, <2>2 DEF Selected, DeliveryInv, MarkedWasDelivered, Source
  <2> QED
    BY <2>1, <2>4, <2>5
<1>6. WellFormed(j, received)
  BY <1>3, <1>5, NoTrxAssumption DEF WellFormed, Services
<1> QED
  BY <1>4, <1>6 DEF copy, j

-----------------------------------------------------------------------------
(* Steps. *)

(* The services only receive transactions, and only more of them. *)
LEMMA ReceivedStep ==
  DeliveryInv /\ [Next]_vars =>
    /\ received' \in [Services -> SUBSET Trx]
    /\ \A svc \in Services : received[svc] \subseteq received'[svc]
<1> SUFFICES ASSUME DeliveryInv, [Next]_vars
             PROVE  /\ received' \in [Services -> SUBSET Trx]
                    /\ \A svc \in Services : received[svc] \subseteq received'[svc]
  OBVIOUS
<1>t. received \in [Services -> SUBSET Trx]
  BY DEF DeliveryInv, TypeOK
<1>1. ASSUME NEW r \in Replicas, job[r].pc = "call",
             received' = [received EXCEPT ![job[r].kind] = @ \cup {job[r].cur}]
      PROVE  /\ received' \in [Services -> SUBSET Trx]
             /\ \A svc \in Services : received[svc] \subseteq received'[svc]
  <2>1. job[r].kind \in Services /\ job[r].cur \in Trx
    BY <1>1 DEF DeliveryInv, WellFormed
  <2> QED
    BY <1>t, <1>1, <2>1
<1>2. CASE received' = received
  BY <1>t, <1>2
<1>3. ASSUME NEW r \in Replicas, CallAccepted(r) PROVE
        received' = [received EXCEPT ![job[r].kind] = @ \cup {job[r].cur}] /\ job[r].pc = "call"
  BY <1>3 DEF CallAccepted
<1>4. ASSUME NEW r \in Replicas, NEW taken \in BOOLEAN, CallRaises(r, taken) PROVE
        \/ received' = received
        \/ received' = [received EXCEPT ![job[r].kind] = @ \cup {job[r].cur}] /\ job[r].pc = "call"
  BY <1>4 DEF CallRaises
<1>5. CASE \E r \in Replicas : CallAccepted(r)
  BY <1>1, <1>3, <1>5
<1>6. CASE \E r \in Replicas, taken \in BOOLEAN : CallRaises(r, taken)
  BY <1>1, <1>2, <1>4, <1>6
<1>7. CASE ~(\E r \in Replicas : CallAccepted(r))
           /\ ~(\E r \in Replicas, taken \in BOOLEAN : CallRaises(r, taken))
  <2>1. received' = received
    BY <1>7 DEF Next, vars, PassStep, UpdateStep, StartPass, StartUpdate, EndPass, SkipLocked,
       SeeUnlocked, Acquire, AcquireFails, CannotEncode, CallRejected, Save, Release, Unwind,
       UpdateRead, UpdateWrite, UpdateCommit, DeadlockVictim, UpdateFails, Insert, Crash,
       LockExpires, LockLapses
  <2> QED
    BY <1>2, <2>1
<1> QED
  BY <1>5, <1>6, <1>7

(* Every step leaves every replica with a well-formed job. *)
LEMMA JobStep ==
  DeliveryInv /\ [Next]_vars =>
    /\ job' \in [Replicas -> Job]
    /\ \A r \in Replicas : WellFormed(job'[r], received')
<1> DEFINE JobsOK == /\ job' \in [Replicas -> Job]
                    /\ \A r \in Replicas : WellFormed(job'[r], received')
<1> SUFFICES ASSUME DeliveryInv, [Next]_vars PROVE JobsOK
  OBVIOUS
<1>j. \A r \in Replicas : job[r] \in Job /\ WellFormed(job[r], received)
  BY DEF DeliveryInv, TypeOK
<1>g. /\ received' \in [Services -> SUBSET Trx]
      /\ \A svc \in Services : received[svc] \subseteq received'[svc]
  BY ReceivedStep
<1>k. \A r \in Replicas : WellFormed(job[r], received')
  BY <1>j, <1>g, WellFormedGrows
<1>u. ASSUME NEW r \in Replicas, NEW x \in Job, WellFormed(x, received'),
             job' = [job EXCEPT ![r] = x]
      PROVE  JobsOK
  BY <1>j, <1>k, <1>u DEF DeliveryInv, TypeOK
<1>f. ASSUME NEW r \in Replicas, Finish(r) PROVE JobsOK
  BY <1>f, <1>u, IdleJob DEF Finish
<1>s. CASE UNCHANGED job
  BY <1>j, <1>k, <1>s DEF DeliveryInv, TypeOK
<1>1. ASSUME NEW r \in Replicas, NEW svc \in Services, StartPass(r, svc) PROVE JobsOK
  BY <1>1, <1>u, StartedJob DEF StartPass
<1>2. ASSUME NEW r \in Replicas, NEW batch \in SUBSET Trx, StartUpdate(r, batch) PROVE JobsOK
  <2> DEFINE x == [Idle EXCEPT !.kind = "update", !.pc = "read", !.todo = batch]
  <2>1. job' = [job EXCEPT ![r] = x]
    BY <1>2 DEF StartUpdate
  <2>2. x \in Job
    BY IdleJob DEF Idle, Job
  <2>3. WellFormed(x, received')
    BY <1>2, <1>j, <1>g DEF StartUpdate, WellFormed, Job, Services, Idle
  <2> QED
    BY <1>u, <2>1, <2>2, <2>3
<1>3. ASSUME NEW r \in Replicas, NEW t \in Trx, SkipLocked(r, t) PROVE JobsOK
  <2> DEFINE x == [job[r] EXCEPT !.todo = Remaining(@, t)]
  <2>1. job' = [job EXCEPT ![r] = x]
    BY <1>3 DEF SkipLocked
  <2>2. x \in Job
    BY <1>j DEF Job, Remaining
  <2>3. WellFormed(x, received')
    BY <1>3, <1>j, <1>g DEF SkipLocked, WellFormed, Job, Services, Remaining
  <2> QED
    BY <1>u, <2>1, <2>2, <2>3
<1>4. ASSUME NEW r \in Replicas, NEW t \in Trx, SeeUnlocked(r, t) PROVE JobsOK
  <2> DEFINE x == [job[r] EXCEPT !.todo = Remaining(@, t), !.cur = t, !.pc = "acquire"]
  <2>1. job' = [job EXCEPT ![r] = x]
    BY <1>4 DEF SeeUnlocked
  <2>2. x \in Job
    BY <1>j DEF Job, Remaining
  <2>3. WellFormed(x, received')
    BY <1>4, <1>j, <1>g DEF SeeUnlocked, WellFormed, Job, Services, Remaining
  <2> QED
    BY <1>u, <2>1, <2>2, <2>3
<1>5. ASSUME NEW r \in Replicas, Acquire(r) PROVE JobsOK
  <2> DEFINE x == [job[r] EXCEPT !.pc = "call", !.tries = 0]
  <2>1. job' = [job EXCEPT ![r] = x]
    BY <1>5 DEF Acquire
  <2>2. x \in Job
    BY <1>j DEF Job
  <2>3. WellFormed(x, received')
    BY <1>5, <1>j, <1>g DEF Acquire, WellFormed, Job, Services
  <2> QED
    BY <1>u, <2>1, <2>2, <2>3
<1>6. ASSUME NEW r \in Replicas, CannotEncode(r) PROVE JobsOK
  <2> DEFINE x == [job[r] EXCEPT !.pc = "unwind"]
  <2>1. job' = [job EXCEPT ![r] = x]
    BY <1>6 DEF CannotEncode, Goto
  <2>2. x \in Job
    BY <1>j DEF Job
  <2>3. WellFormed(x, received')
    BY <1>6, <1>j, <1>g DEF CannotEncode, WellFormed, Job, Services
  <2> QED
    BY <1>u, <2>1, <2>2, <2>3
<1>7. ASSUME NEW r \in Replicas, CallAccepted(r) PROVE JobsOK
  <2> DEFINE x == [job[r] EXCEPT !.pc = "save"]
  <2>1. job' = [job EXCEPT ![r] = x]
    BY <1>7 DEF CallAccepted, Goto
  <2>2. x \in Job
    BY <1>j DEF Job
  <2>3. WellFormed(x, received')
    BY <1>7, <1>j, <1>g DEF CallAccepted, WellFormed, Job, Services
  <2> QED
    BY <1>u, <2>1, <2>2, <2>3
<1>8. ASSUME NEW r \in Replicas, job[r].pc = "call", UNCHANGED <<table, locks>>,
             \/ job' = [job EXCEPT ![r].tries = @ + 1]
             \/ job' = [job EXCEPT ![r].pc = "release"]
             \/ job' = [job EXCEPT ![r].pc = "unwind"]
      PROVE  JobsOK
  <2> DEFINE x == [job[r] EXCEPT !.tries = @ + 1]
             y == [job[r] EXCEPT !.pc = "release"]
             z == [job[r] EXCEPT !.pc = "unwind"]
  <2>1. x \in Job /\ y \in Job /\ z \in Job
    BY <1>j DEF Job
  <2>2. WellFormed(x, received') /\ WellFormed(y, received') /\ WellFormed(z, received')
    BY <1>8, <1>j, <1>k DEF WellFormed, Job
  <2>3. \/ job' = [job EXCEPT ![r] = x]
        \/ job' = [job EXCEPT ![r] = y]
        \/ job' = [job EXCEPT ![r] = z]
    BY <1>8
  <2> QED
    BY <1>u, <2>1, <2>2, <2>3
<1>9. ASSUME NEW r \in Replicas, CallRejected(r) PROVE JobsOK
  BY <1>8, <1>9 DEF CallRejected, Goto, AfterRejection
<1>10. ASSUME NEW r \in Replicas, NEW taken \in BOOLEAN, CallRaises(r, taken) PROVE JobsOK
  BY <1>8, <1>10 DEF CallRaises, Goto
<1>11. ASSUME NEW r \in Replicas, Save(r) PROVE JobsOK
  <2> DEFINE x == [job[r] EXCEPT !.pc = "release"]
  <2>1. job' = [job EXCEPT ![r] = x]
    BY <1>11 DEF Save, Goto
  <2>2. x \in Job
    BY <1>j DEF Job
  <2>3. WellFormed(x, received')
    BY <1>11, <1>j, <1>g DEF Save, WellFormed, Job, Services
  <2> QED
    BY <1>u, <2>1, <2>2, <2>3
<1>12. ASSUME NEW r \in Replicas, Release(r) PROVE JobsOK
  <2> DEFINE x == [job[r] EXCEPT !.pc = "scan", !.cur = NoTrx]
  <2>1. CASE Finish(r)
    BY <1>f, <2>1
  <2>2. CASE job' = [job EXCEPT ![r].pc = "scan", ![r].cur = NoTrx]
    <3>1. job' = [job EXCEPT ![r] = x]
      BY <2>2
    <3>2. x \in Job
      BY <1>j DEF Job
    <3>3. WellFormed(x, received')
      BY <1>12, <1>j, <1>k, NoTrxAssumption DEF Release, WellFormed, Job
    <3> QED
      BY <1>u, <3>1, <3>2, <3>3
  <2> QED
    BY <1>12, <2>1, <2>2 DEF Release
<1>13. ASSUME NEW r \in Replicas, NEW t \in Trx, UpdateRead(r, t) PROVE JobsOK
  <2> DEFINE x == [job[r] EXCEPT !.todo = @ \ {t}, !.cur = t, !.pc = "write"]
             y == [job[r] EXCEPT !.todo = @ \ {t}]
  <2>1. job' = [job EXCEPT ![r] = x] \/ job' = [job EXCEPT ![r] = y]
    BY <1>13 DEF UpdateRead
  <2>2. x \in Job /\ y \in Job
    BY <1>j DEF Job
  <2>3. WellFormed(x, received') /\ WellFormed(y, received')
    BY <1>13, <1>j, <1>k DEF UpdateRead, WellFormed, Job, Services
  <2> QED
    BY <1>u, <2>1, <2>2, <2>3
<1>14. ASSUME NEW r \in Replicas, UpdateWrite(r) PROVE JobsOK
  <2> DEFINE x == [job[r] EXCEPT !.wrote = @ \cup {job[r].cur}, !.cur = NoTrx, !.pc = "read"]
  <2>1. job' = [job EXCEPT ![r] = x]
    BY <1>14 DEF UpdateWrite
  <2>2. x \in Job
    BY <1>14, <1>j DEF UpdateWrite, WellFormed, Job
  <2>3. WellFormed(x, received')
    BY <1>14, <1>j, <1>g DEF UpdateWrite, WellFormed, Job, Services
  <2> QED
    BY <1>u, <2>1, <2>2, <2>3
<1>15. ASSUME NEW r \in Replicas,
              \/ EndPass(r) \/ AcquireFails(r) \/ Unwind(r) \/ UpdateCommit(r)
              \/ DeadlockVictim(r) \/ Crash(r) \/ \E keep \in BOOLEAN : UpdateFails(r, keep)
       PROVE  JobsOK
  BY <1>15, <1>f DEF EndPass, AcquireFails, Unwind, UpdateCommit, DeadlockVictim, Crash,
     UpdateFails
<1>16. ASSUME NEW t \in Trx, LockExpires(t) \/ LockLapses(t) PROVE JobsOK
  BY <1>16, <1>s DEF LockExpires, LockLapses
<1>18. ASSUME NEW r \in Replicas, NEW batch \in SUBSET Trx, Insert(r, batch) PROVE JobsOK
  BY <1>18, <1>s DEF Insert
<1>17. CASE UNCHANGED vars
  BY <1>17, <1>s DEF vars
<1> QED
  BY <1>1, <1>2, <1>3, <1>4, <1>5, <1>6, <1>7, <1>9, <1>10, <1>11, <1>12, <1>13, <1>14,
     <1>15, <1>16, <1>17, <1>18 DEF Next, PassStep, UpdateStep

(* A row: typed, consistent, and its status backed by what was received. *)
RowOK(row, t, rec) ==
  /\ row \in Row
  /\ row.confirmed <=> row.status \in {Confirmed, Reported}
  /\ row.status \in {Sent, Confirmed, Reported} => t \in rec["transactions"]
  /\ row.status = Reported => t \in rec["exchanger"]

(* The invariant says of each row that it is in order. *)
LEMMA RowsOK == DeliveryInv => \A t \in Trx : RowOK(table[t], t, received)
  BY DEF DeliveryInv, TypeOK, RowConsistent, MarkedWasDelivered, RowOK

(* A row in order stays so while the services receive more. *)
LEMMA RowGrows ==
  ASSUME NEW row, NEW t, NEW rec, NEW more, RowOK(row, t, rec),
         \A svc \in Services : rec[svc] \subseteq more[svc]
  PROVE  RowOK(row, t, more)
  BY DEF RowOK, Services

(* The full-row save of a copy: the copy is a row whose turn it was, and the *)
(* service has the transaction, so what is written is backed as well.        *)
LEMMA SavedRowOK ==
  ASSUME NEW svc \in Services, NEW t \in Trx, NEW rec, NEW copy, NEW current,
         copy = [status |-> Source(svc), confirmed |-> svc = "exchanger"],
         t \in rec[svc],
         svc = "exchanger" => t \in rec["transactions"]
  PROVE  RowOK(SavedRow(copy, current, svc), t, rec)
<1>1. SavedRow(copy, current, svc) = [status |-> Target(svc), confirmed |-> svc = "exchanger"]
  BY DEF SavedRow
<1>2. CASE svc = "transactions"
  <2>1. SavedRow(copy, current, svc) = [status |-> Sent, confirmed |-> FALSE]
    BY <1>1, <1>2 DEF Target
  <2>2. [status |-> Sent, confirmed |-> FALSE] \in Row
    BY DEF Row, Status
  <2>3. ([status |-> Sent, confirmed |-> FALSE]).confirmed <=> Sent \in {Confirmed, Reported}
    BY DEF Sent, Confirmed, Reported
  <2> QED
    BY <1>2, <2>1, <2>2, <2>3 DEF RowOK, Sent, Confirmed, Reported
<1>3. CASE svc = "exchanger"
  <2>1. SavedRow(copy, current, svc) = [status |-> Reported, confirmed |-> TRUE]
    BY <1>1, <1>3 DEF Target
  <2>2. [status |-> Reported, confirmed |-> TRUE] \in Row
    BY DEF Row, Status
  <2>3. ([status |-> Reported, confirmed |-> TRUE]).confirmed <=> Reported \in {Confirmed, Reported}
    BY DEF Sent, Confirmed, Reported
  <2> QED
    BY <1>3, <2>1, <2>2, <2>3 DEF RowOK, Sent, Confirmed, Reported
<1> QED
  BY <1>2, <1>3 DEF Services

(* The commit of a handler. *)
LEMMA CommittedOK ==
  ASSUME DeliveryInv, NEW r \in Replicas, NEW t \in Trx
  PROVE  RowOK(Committed(r)[t], t, received)
<1>1. RowOK(table[t], t, received)
  BY RowsOK
<1>2. CASE t \in job[r].wrote
  <2>1. t \in received["transactions"]
    BY <1>2 DEF DeliveryInv, WellFormed
  <2>2. Committed(r)[t] = UpdatedRow(table[t])
    BY <1>2 DEF Committed
  <2>3. table[t] \in Row
    BY <1>1 DEF RowOK
  <2>4. /\ UpdatedRow(table[t]) \in Row
        /\ UpdatedRow(table[t]).status = Confirmed
        /\ UpdatedRow(table[t]).confirmed = TRUE
    BY <2>3 DEF Row, UpdatedRow, Status
  <2> QED
    BY <2>1, <2>2, <2>4 DEF RowOK, Confirmed, Reported
<1>3. CASE t \notin job[r].wrote
  BY <1>1, <1>3 DEF Committed
<1> QED
  BY <1>2, <1>3

(* Every step leaves every row in order. *)
LEMMA RowStep ==
  DeliveryInv /\ [Next]_vars =>
    /\ table' \in [Trx -> Row]
    /\ \A t \in Trx : RowOK(table'[t], t, received')
<1> DEFINE Goal == /\ table' \in [Trx -> Row]
                  /\ \A t \in Trx : RowOK(table'[t], t, received')
<1> SUFFICES ASSUME DeliveryInv, [Next]_vars PROVE Goal
  OBVIOUS
<1>o. \A t \in Trx : RowOK(table[t], t, received)
  BY RowsOK
<1>d. table \in [Trx -> Row]
  BY DEF DeliveryInv, TypeOK
<1>g. \A svc \in Services : received[svc] \subseteq received'[svc]
  BY ReceivedStep
<1>k. \A t \in Trx : RowOK(table[t], t, received')
  BY <1>o, <1>g, RowGrows
<1>u. ASSUME NEW t \in Trx, NEW row, RowOK(row, t, received'),
             table' = [table EXCEPT ![t] = row]
      PROVE  Goal
  BY <1>u, <1>k, <1>d DEF RowOK
<1>c. ASSUME NEW r \in Replicas, table' = Committed(r), received' = received PROVE Goal
  <2>1. \A t \in Trx : RowOK(Committed(r)[t], t, received)
    BY CommittedOK
  <2>2. \A t \in Trx : Committed(r)[t] \in Row
    BY <2>1 DEF RowOK
  <2>3. Committed(r) \in [Trx -> Row]
    BY <2>2 DEF Committed
  <2> QED
    BY <1>c, <2>1, <2>3
<1>s. CASE table' = table
  BY <1>s, <1>k, <1>d
<1>1. ASSUME NEW r \in Replicas, Save(r) PROVE Goal
  <2> DEFINE t == job[r].cur
             svc == job[r].kind
             row == SavedRow(job[r].copy[t], table[t], svc)
  <2>1. WellFormed(job[r], received) /\ job[r].pc = "save"
    BY <1>1 DEF Save, DeliveryInv
  <2>2. /\ t \in Trx /\ svc \in Services /\ t \in received[svc]
        /\ job[r].copy[t] = [status |-> Source(svc), confirmed |-> svc = "exchanger"]
        /\ svc = "exchanger" => t \in received["transactions"]
    BY <2>1 DEF WellFormed
  <2>3. RowOK(row, t, received)
    BY <2>2, SavedRowOK
  <2>4. table' = [table EXCEPT ![t] = row] /\ received' = received
    BY <1>1 DEF Save
  <2> QED
    BY <2>2, <2>3, <2>4, <1>u
<1>2. ASSUME NEW r \in Replicas, UpdateCommit(r) PROVE Goal
  BY <1>2, <1>c DEF UpdateCommit
<1>3. ASSUME NEW r \in Replicas, NEW keep \in BOOLEAN, UpdateFails(r, keep) PROVE Goal
  BY <1>3, <1>c, <1>s DEF UpdateFails
<1>4. ASSUME NEW r \in Replicas, NEW batch \in SUBSET Trx, Insert(r, batch) PROVE Goal
  <2>1. \A t \in Trx : RowOK(NewRow, t, received')
    BY DEF RowOK, NewRow, Row, Status, New, Sent, Confirmed, Reported
  <2>2. /\ table' = [t \in Trx |-> IF t \in batch THEN NewRow ELSE table[t]]
        /\ NewRow \in Row
    BY <1>4 DEF Insert, NewRow, Row, Status, New
  <2>3. table' \in [Trx -> Row]
    BY <2>2, <1>d
  <2> QED
    BY <2>1, <2>2, <2>3, <1>k
<1>5. CASE /\ ~(\E r \in Replicas : Save(r) \/ UpdateCommit(r))
           /\ ~(\E r \in Replicas, keep \in BOOLEAN : UpdateFails(r, keep))
           /\ ~(\E r \in Replicas, batch \in SUBSET Trx : Insert(r, batch))
  <2>1. table' = table
    BY <1>5 DEF Next, vars, PassStep, UpdateStep, StartPass, StartUpdate, EndPass, SkipLocked,
       SeeUnlocked, Acquire, AcquireFails, CannotEncode, CallAccepted, CallRejected, CallRaises,
       Release, Unwind, UpdateRead, UpdateWrite, DeadlockVictim, Crash, LockExpires, LockLapses
  <2> QED
    BY <2>1, <1>s
<1> QED
  BY <1>1, <1>2, <1>3, <1>4, <1>5

(* Every step keeps the Exchanger to its transactions. *)
LEMMA ExchangerStep == DeliveryInv /\ [Next]_vars => ExchangerAfterMonitoring'
<1> SUFFICES ASSUME DeliveryInv, [Next]_vars PROVE ExchangerAfterMonitoring'
  OBVIOUS
<1>t. received \in [Services -> SUBSET Trx]
  BY DEF DeliveryInv, TypeOK
<1>s. CASE received' = received
  BY <1>s DEF DeliveryInv, ExchangerAfterMonitoring
<1>1. ASSUME NEW r \in Replicas, job[r].pc = "call",
             received' = [received EXCEPT ![job[r].kind] = @ \cup {job[r].cur}]
      PROVE  ExchangerAfterMonitoring'
  <2>1. WellFormed(job[r], received)
    BY DEF DeliveryInv
  <2>2. /\ job[r].kind \in Services
        /\ job[r].cur \in Trx
        /\ job[r].kind = "exchanger" => job[r].cur \in Platform \cap received["transactions"]
    BY <1>1, <2>1 DEF WellFormed
  <2> QED
    BY <1>t, <1>1, <2>2 DEF DeliveryInv, ExchangerAfterMonitoring, Services
<1>2. ASSUME NEW r \in Replicas, CallAccepted(r) PROVE ExchangerAfterMonitoring'
  BY <1>1, <1>2 DEF CallAccepted
<1>3. ASSUME NEW r \in Replicas, NEW taken \in BOOLEAN, CallRaises(r, taken)
      PROVE  ExchangerAfterMonitoring'
  BY <1>1, <1>3, <1>s DEF CallRaises
<1>4. CASE ~(\E r \in Replicas : CallAccepted(r))
           /\ ~(\E r \in Replicas, taken \in BOOLEAN : CallRaises(r, taken))
  <2>1. received' = received
    BY <1>4 DEF Next, vars, PassStep, UpdateStep, StartPass, StartUpdate, EndPass, SkipLocked,
       SeeUnlocked, Acquire, AcquireFails, CannotEncode, CallRejected, Save, Release, Unwind,
       UpdateRead, UpdateWrite, UpdateCommit, DeadlockVictim, UpdateFails, Insert, Crash,
       LockExpires, LockLapses
  <2> QED
    BY <1>s, <2>1
<1> QED
  BY <1>2, <1>3, <1>4

(* Every step leaves the locks to those who hold them. *)
LEMMA LockStep ==
  DeliveryInv /\ [Next]_vars =>
    locks' \in [Trx -> Replicas \cup {Free, Orphan}] /\ HolderHasLock'
<1> DEFINE Goal == locks' \in [Trx -> Replicas \cup {Free, Orphan}] /\ HolderHasLock'
<1> SUFFICES ASSUME DeliveryInv, [Next]_vars PROVE Goal
  OBVIOUS
<1>t. /\ locks \in [Trx -> Replicas \cup {Free, Orphan}]
      /\ job \in [Replicas -> Job]
      /\ lapses \in Nat
  BY DEF DeliveryInv, TypeOK
<1>h. lapses = 0 => \A r \in Replicas, t \in Trx : Holding(r, t) => locks[t] = r
  BY DEF DeliveryInv, HolderHasLock
<1>s. ASSUME UNCHANGED <<locks, lapses>>,
             \A r \in Replicas, t \in Trx : Holding(r, t)' => Holding(r, t)
      PROVE  Goal
  BY <1>s, <1>t, <1>h DEF HolderHasLock
<1>j. ASSUME NEW r \in Replicas, UNCHANGED <<locks, lapses>>,
             \A q \in Replicas \ {r} : job'[q] = job[q],
             \A t \in Trx : Holding(r, t)' => Holding(r, t)
      PROVE  Goal
  <2>1. \A q \in Replicas, t \in Trx : Holding(q, t)' => Holding(q, t)
    BY <1>j DEF Holding
  <2> QED
    BY <1>j, <2>1, <1>s
<1>f. ASSUME NEW r \in Replicas, Finish(r)
      PROVE  /\ \A q \in Replicas \ {r} : job'[q] = job[q]
             /\ \A t \in Trx : ~Holding(r, t)'
  BY <1>f, <1>t, NoTrxAssumption DEF Finish, Holding, Idle
<1>e. ASSUME NEW r \in Replicas, Finish(r), UNCHANGED <<locks, lapses>> PROVE Goal
  BY <1>e, <1>f, <1>j
\* r gives its lock up, or finds that it has lapsed.
<1>l. ASSUME NEW r \in Replicas, NEW u \in Trx, UNCHANGED lapses,
             locks' = locks \/ locks' = Unlocked(r, u),
             \A q \in Replicas \ {r} : job'[q] = job[q],
             \A t \in Trx : ~Holding(r, t)'
      PROVE  Goal
  <2>1. \A q \in Replicas, t \in Trx : Holding(q, t)' => Holding(q, t) /\ q # r
    BY <1>l DEF Holding
  <2>2. locks' \in [Trx -> Replicas \cup {Free, Orphan}]
    BY <1>l, <1>t DEF Unlocked
  <2>3. \A t \in Trx : locks[t] # r => locks'[t] = locks[t]
    BY <1>l, <1>t DEF Unlocked
  <2> QED
    BY <1>l, <1>h, <2>1, <2>2, <2>3 DEF HolderHasLock
<1>1. ASSUME NEW r \in Replicas, NEW svc \in Services, StartPass(r, svc) PROVE Goal
  BY <1>1, <1>t, <1>j, NoTrxAssumption DEF StartPass, Holding, Idle
<1>2. ASSUME NEW r \in Replicas, NEW batch \in SUBSET Trx, StartUpdate(r, batch) PROVE Goal
  BY <1>2, <1>t, <1>j, NoTrxAssumption DEF StartUpdate, Holding, Idle
<1>3. ASSUME NEW r \in Replicas, NEW t \in Trx, SkipLocked(r, t) PROVE Goal
  BY <1>3, <1>t, <1>j DEF SkipLocked, Holding, Job
<1>4. ASSUME NEW r \in Replicas, NEW t \in Trx, SeeUnlocked(r, t) PROVE Goal
  BY <1>4, <1>t, <1>j DEF SeeUnlocked, Holding, Job
<1>5. ASSUME NEW r \in Replicas, Acquire(r) PROVE Goal
  <2> DEFINE u == job[r].cur
  <2>1. /\ locks[u] = Free /\ u \in Trx
        /\ locks' = [locks EXCEPT ![u] = r]
        /\ UNCHANGED lapses
    BY <1>5 DEF Acquire, Grantable, Locked, DeliveryInv, WellFormed
  <2>2. \A q \in Replicas \ {r} : job'[q] = job[q]
    BY <1>5, <1>t DEF Acquire
  <2>3. job'[r].cur = u
    BY <1>5, <1>t DEF Acquire, Job
  <2>4. \A q \in Replicas \ {r}, t \in Trx : Holding(q, t)' => Holding(q, t)
    BY <2>2 DEF Holding
  <2>5. \A t \in Trx : Holding(r, t)' => t = u
    BY <2>3 DEF Holding
  <2>6. \A q \in Replicas, t \in Trx : lapses = 0 /\ Holding(q, t)' => locks'[t] = q
    BY <2>1, <2>4, <2>5, <1>t, <1>h, LockAssumption
  <2> QED
    BY <2>1, <2>6, <1>t DEF HolderHasLock
<1>6. ASSUME NEW r \in Replicas,
             CannotEncode(r) \/ CallAccepted(r) \/ CallRejected(r)
               \/ \E taken \in BOOLEAN : CallRaises(r, taken)
      PROVE  Goal
  <2>1. UNCHANGED <<locks, lapses>> /\ job[r].pc = "call"
    BY <1>6 DEF CannotEncode, CallAccepted, CallRejected, CallRaises
  <2>2. \/ job' = [job EXCEPT ![r].tries = @ + 1]
        \/ \E pc \in {"save", "release", "unwind"} : job' = [job EXCEPT ![r].pc = pc]
    BY <1>6 DEF CannotEncode, CallAccepted, CallRejected, CallRaises, Goto, AfterRejection
  <2>3. \A q \in Replicas \ {r} : job'[q] = job[q]
    BY <2>2, <1>t
  <2>4. job'[r].cur = job[r].cur
    BY <2>2, <1>t DEF Job
  <2>5. \A t \in Trx : Holding(r, t)' => Holding(r, t)
    BY <2>1, <2>4 DEF Holding
  <2> QED
    BY <2>1, <2>3, <2>5, <1>j
<1>7. ASSUME NEW r \in Replicas, Save(r) PROVE Goal
  BY <1>7, <1>t, <1>j DEF Save, Goto, Holding, Job
<1>8. ASSUME NEW r \in Replicas, Release(r) PROVE Goal
  <2>1. CASE Unlockable(r, job[r].cur)
    <3>1. job[r].cur \in Trx
      BY <1>8 DEF Release, DeliveryInv, WellFormed
    <3>2. /\ \A q \in Replicas \ {r} : job'[q] = job[q]
          /\ \A t \in Trx : ~Holding(r, t)'
      BY <1>8, <2>1, <1>t, NoTrxAssumption DEF Release, Holding, Job
    <3>3. UNCHANGED lapses /\ locks' = Unlocked(r, job[r].cur)
      BY <1>8, <2>1 DEF Release
    <3> QED
      BY <3>1, <3>2, <3>3, <1>l
  <2>2. CASE ~Unlockable(r, job[r].cur)
    BY <1>8, <2>2, <1>e DEF Release
  <2> QED
    BY <2>1, <2>2
<1>9. ASSUME NEW r \in Replicas, Unwind(r) PROVE Goal
  <2>1. job[r].cur \in Trx
    BY <1>9 DEF Unwind, DeliveryInv, WellFormed
  <2> QED
    BY <1>9, <2>1, <1>f, <1>l DEF Unwind
<1>10. ASSUME NEW r \in Replicas, NEW t \in Trx, UpdateRead(r, t) PROVE Goal
  BY <1>10, <1>t, <1>j DEF UpdateRead, Holding, Job
<1>11. ASSUME NEW r \in Replicas, UpdateWrite(r) PROVE Goal
  BY <1>11, <1>t, <1>j DEF UpdateWrite, Holding, Job
<1>12. ASSUME NEW r \in Replicas,
              EndPass(r) \/ AcquireFails(r) \/ UpdateCommit(r) \/ DeadlockVictim(r)
                \/ \E keep \in BOOLEAN : UpdateFails(r, keep)
       PROVE  Goal
  BY <1>12, <1>e DEF EndPass, AcquireFails, UpdateCommit, DeadlockVictim, UpdateFails
<1>13. ASSUME NEW r \in Replicas, Crash(r) PROVE Goal
  <2>1. /\ \A q \in Replicas \ {r} : job'[q] = job[q]
        /\ \A t \in Trx : ~Holding(r, t)'
    BY <1>13, <1>f DEF Crash
  <2>2. locks' \in [Trx -> Replicas \cup {Free, Orphan}]
    BY <1>13, <1>t DEF Crash
  <2>3. \A t \in Trx : locks[t] # r => locks'[t] = locks[t]
    BY <1>13 DEF Crash
  <2>4. \A q \in Replicas, t \in Trx : Holding(q, t)' => Holding(q, t) /\ q # r
    BY <2>1 DEF Holding
  <2> QED
    BY <1>13, <1>h, <2>2, <2>3, <2>4 DEF HolderHasLock, Crash
<1>14. ASSUME NEW r \in Replicas, NEW batch \in SUBSET Trx, Insert(r, batch) PROVE Goal
  BY <1>14, <1>s DEF Insert, Holding
<1>15. ASSUME NEW t \in Trx, LockExpires(t) PROVE Goal
  <2>1. \A r \in Replicas, u \in Trx : Holding(r, u)' <=> Holding(r, u)
    BY <1>15 DEF LockExpires, Holding
  <2> QED
    BY <1>15, <2>1, <1>t, <1>h, LockAssumption DEF LockExpires, HolderHasLock
<1>16. ASSUME NEW t \in Trx, LockLapses(t) PROVE Goal
  BY <1>16, <1>t DEF LockLapses, HolderHasLock
<1>17. CASE UNCHANGED vars
  BY <1>17, <1>s DEF vars, Holding
<1> QED
  BY <1>1, <1>2, <1>3, <1>4, <1>5, <1>6, <1>7, <1>8, <1>9, <1>10, <1>11, <1>12, <1>13,
     <1>14, <1>15, <1>16, <1>17 DEF Next, PassStep, UpdateStep

(* The rest of the state keeps its type. *)
LEMMA CountersStep ==
  DeliveryInv /\ [Next]_vars => answered' \in SUBSET Trx /\ faults' \in Nat /\ lapses' \in Nat
<1> SUFFICES ASSUME DeliveryInv, [Next]_vars
             PROVE  answered' \in SUBSET Trx /\ faults' \in Nat /\ lapses' \in Nat
  OBVIOUS
<1>t. answered \in SUBSET Trx /\ faults \in Nat /\ lapses \in Nat
  BY DEF DeliveryInv, TypeOK
<1>1. \A r \in Replicas : answered \cup job[r].wrote \in SUBSET Trx
  BY <1>t DEF DeliveryInv, TypeOK, Job
<1>2. \/ UNCHANGED answered
      \/ \E r \in Replicas : answered' = answered \cup job[r].wrote
  BY DEF Next, vars, PassStep, UpdateStep, StartPass, StartUpdate, EndPass, SkipLocked,
     SeeUnlocked, Acquire, AcquireFails, CannotEncode, CallAccepted, CallRejected, CallRaises,
     Save, Release, Unwind, UpdateRead, UpdateWrite, UpdateCommit, DeadlockVictim, UpdateFails,
     Insert, Crash, LockExpires, LockLapses
<1>3. (faults' = faults \/ faults' = faults + 1) /\ (lapses' = lapses \/ lapses' = lapses + 1)
  BY DEF Next, vars, PassStep, UpdateStep, StartPass, StartUpdate, EndPass, SkipLocked,
     SeeUnlocked, Acquire, AcquireFails, CannotEncode, CallAccepted, CallRejected, CallRaises,
     Save, Release, Unwind, UpdateRead, UpdateWrite, UpdateCommit, DeadlockVictim, UpdateFails,
     Insert, Crash, LockExpires, LockLapses
<1> QED
  BY <1>t, <1>1, <1>2, <1>3

-----------------------------------------------------------------------------
(* Theorems. *)

(* The empty table with all replicas idle satisfies the invariant. *)
LEMMA InitInv == Init => DeliveryInv
<1> SUFFICES ASSUME Init PROVE DeliveryInv
  OBVIOUS
<1>1. TypeOK
  BY IdleJob DEF Init, TypeOK, NoRow, Row, Status, Absent
<1>2. \A r \in Replicas : WellFormed(job[r], received)
  BY IdleJob DEF Init
<1>3. RowConsistent /\ MarkedWasDelivered
  BY DEF Init, RowConsistent, MarkedWasDelivered, NoRow, Absent, Sent, Confirmed, Reported
<1>4. ExchangerAfterMonitoring
  BY DEF Init, ExchangerAfterMonitoring, Services
<1>5. HolderHasLock
  BY NoTrxAssumption DEF Init, HolderHasLock, Holding, Idle
<1> QED
  BY <1>1, <1>2, <1>3, <1>4, <1>5 DEF DeliveryInv

(* Every action of every replica, and every failure, preserves it. *)
LEMMA InvStep == DeliveryInv /\ [Next]_vars => DeliveryInv'
<1> SUFFICES ASSUME DeliveryInv, [Next]_vars PROVE DeliveryInv'
  OBVIOUS
<1>1. TypeOK'
  BY ReceivedStep, JobStep, RowStep, LockStep, CountersStep DEF TypeOK
<1>2. \A r \in Replicas : WellFormed(job[r], received)'
  BY JobStep
<1>3. RowConsistent' /\ MarkedWasDelivered'
  BY RowStep DEF RowOK, RowConsistent, MarkedWasDelivered
<1>4. ExchangerAfterMonitoring' /\ HolderHasLock'
  BY ExchangerStep, LockStep
<1> QED
  BY <1>1, <1>2, <1>3, <1>4 DEF DeliveryInv

(* The inductive invariant holds in every reachable state. *)
THEOREM Invariance == Spec => []DeliveryInv
<1>1. Init => DeliveryInv
  BY InitInv
<1>2. DeliveryInv /\ [Next]_vars => DeliveryInv'
  BY InvStep
<1> QED
  BY <1>1, <1>2, PTL DEF Spec

(* Every variable keeps its type, on any number of replicas. *)
THEOREM TypeCorrect == Spec => []TypeOK
<1>1. DeliveryInv => TypeOK
  BY DEF DeliveryInv
<1> QED
  BY <1>1, Invariance, PTL

(* No interleaving of full-row saves and handlers mixes two versions of a    *)
(* row.                                                                      *)
THEOREM RowsConsistent == Spec => []RowConsistent
<1>1. DeliveryInv => RowConsistent
  BY DEF DeliveryInv
<1> QED
  BY <1>1, Invariance, PTL

(* A status never claims a delivery that did not happen. *)
THEOREM MarkedDelivered == Spec => []MarkedWasDelivered
<1>1. DeliveryInv => MarkedWasDelivered
  BY DEF DeliveryInv
<1> QED
  BY <1>1, Invariance, PTL

(* The Exchanger only hears of monitored platform transactions. *)
THEOREM ExchangerMonitored == Spec => []ExchangerAfterMonitoring
<1>1. DeliveryInv => ExchangerAfterMonitoring
  BY DEF DeliveryInv
<1> QED
  BY <1>1, Invariance, PTL

(* While no lock lapses, a transaction has at most one sender. *)
THEOREM MutualExclusion == Spec => []OneSender
<1>1. DeliveryInv => OneSender
  BY DEF DeliveryInv, HolderHasLock, OneSender
<1> QED
  BY <1>1, Invariance, PTL

-----------------------------------------------------------------------------
(* What the services hear of is in the table.                                *)

\* Transactions that have a row.
Present == {t \in Trx : table[t].status # Absent}

\* A pass works on rows, and so do the services: a handler has its
\* transactions from them (WellFormed).
Backed ==
  /\ \A svc \in Services : received[svc] \subseteq Present
  /\ \A r \in Replicas : job[r].kind \in Services =>
       \A t \in Trx : t \in job[r].todo \/ t = job[r].cur => t \in Present

(* What a pass saves and what a handler commits are rows that exist.         *)
LEMMA Rewritten ==
  ASSUME DeliveryInv, Backed, NEW r \in Replicas,
         PassStep(r) \/ UpdateStep(r) \/ \E keep \in BOOLEAN : UpdateFails(r, keep)
  PROVE  Present' = Present
<1>t. table \in [Trx -> Row] /\ WellFormed(job[r], received)
  BY DEF DeliveryInv, TypeOK
<1>s. CASE table' = table
  BY <1>s DEF Present
<1>1. CASE Save(r)
  <2> DEFINE t == job[r].cur
  <2>1. /\ t \in Trx /\ job[r].kind \in Services
        /\ table' = [table EXCEPT ![t] = SavedRow(job[r].copy[t], table[t], job[r].kind)]
    BY <1>t, <1>1 DEF Save, WellFormed
  <2>2. t \in Present
    BY <2>1 DEF Backed
  <2>3. table'[t].status = Target(job[r].kind) /\ \A u \in Trx : u # t => table'[u] = table[u]
    <3>1. job[r].copy[t] \in Row
      BY <2>1 DEF DeliveryInv, TypeOK, Job
    <3> QED BY <1>t, <2>1, <3>1 DEF SavedRow, Row
  <2>4. table'[t].status # Absent
    BY <2>1, <2>3 DEF Target, Services, Sent, Reported, Absent
  <2> QED BY <2>2, <2>3, <2>4 DEF Present
<1>2. CASE table' = Committed(r)
  <2>1. job[r].wrote \subseteq Present
    BY <1>t DEF WellFormed, Backed, Services
  <2>2. \A t \in Trx : UpdatedRow(table[t]).status = Confirmed
    BY <1>t DEF UpdatedRow, Row
  <2>3. \A t \in Trx : table'[t] = IF t \in job[r].wrote THEN UpdatedRow(table[t]) ELSE table[t]
    BY <1>2 DEF Committed
  <2> QED BY <2>1, <2>2, <2>3 DEF Present, Confirmed, Absent
<1> QED
  BY <1>s, <1>1, <1>2 DEF PassStep, UpdateStep, EndPass, SkipLocked,
     SeeUnlocked, Acquire, AcquireFails, CannotEncode, CallAccepted, CallRejected, CallRaises,
     Release, Unwind, UpdateRead, UpdateWrite, UpdateCommit, DeadlockVictim, UpdateFails

(* No row is ever removed.                                                   *)
LEMMA PresentGrows == DeliveryInv /\ Backed /\ [Next]_vars => Present \subseteq Present'
<1> SUFFICES ASSUME DeliveryInv, Backed, [Next]_vars PROVE Present \subseteq Present'
  OBVIOUS
<1>s. CASE table' = table
  BY <1>s DEF Present
<1>1. ASSUME NEW r \in Replicas, NEW batch \in SUBSET Trx, Insert(r, batch)
      PROVE  Present \subseteq Present'
  BY <1>1 DEF Insert, Present, NewRow, New, Absent
<1>2. ASSUME NEW r \in Replicas,
             PassStep(r) \/ UpdateStep(r) \/ \E keep \in BOOLEAN : UpdateFails(r, keep)
      PROVE  Present \subseteq Present'
  BY <1>2, Rewritten
<1> QED
  BY <1>s, <1>1, <1>2 DEF Next, vars, StartPass, StartUpdate, Crash, LockExpires, LockLapses

(* One job moves on to transactions that have a row.                         *)
LEMMA JobBacked ==
  ASSUME DeliveryInv, Backed, Present \subseteq Present',
         \A svc \in Services : received'[svc] \subseteq Present',
         NEW r \in Replicas, NEW x, job' = [job EXCEPT ![r] = x],
         x.kind \in Services => \A t \in Trx : t \in x.todo \/ t = x.cur => t \in Present'
  PROVE  Backed'
<1>1. \A q \in Replicas : job'[q] = job[q] \/ job'[q] = x
  BY DEF DeliveryInv, TypeOK
<1> QED BY <1>1 DEF Backed

LEMMA BackedStep == DeliveryInv /\ Backed /\ [Next]_vars => Backed'
<1> SUFFICES ASSUME DeliveryInv, Backed, [Next]_vars PROVE Backed'
  OBVIOUS
<1>t. /\ received \in [Services -> SUBSET Trx] /\ job \in [Replicas -> Job]
      /\ \A r \in Replicas : job[r] \in Job /\ WellFormed(job[r], received)
  BY DEF DeliveryInv, TypeOK
<1>g. Present \subseteq Present'
  BY PresentGrows
<1>r. \A svc \in Services : received'[svc] \subseteq Present'
  <2>1. ASSUME NEW r \in Replicas, job[r].pc = "call",
               received' = [received EXCEPT ![job[r].kind] = @ \cup {job[r].cur}]
        PROVE  \A svc \in Services : received'[svc] \subseteq Present'
    <3>1. job[r].kind \in Services /\ job[r].cur \in Present
      BY <1>t, <2>1 DEF WellFormed, Backed
    <3> QED BY <1>t, <1>g, <2>1, <3>1 DEF Backed
  <2>2. CASE received' = received
    BY <1>g, <2>2 DEF Backed
  <2> QED
    BY <2>1, <2>2 DEF Next, vars, PassStep, UpdateStep, StartPass, StartUpdate, EndPass, SkipLocked,
       SeeUnlocked, Acquire, AcquireFails, CannotEncode, CallAccepted, CallRejected, CallRaises,
       Save, Release, Unwind, UpdateRead, UpdateWrite, UpdateCommit, DeadlockVictim, UpdateFails,
       Insert, Crash, LockExpires, LockLapses
<1>s. CASE job' = job
  BY <1>g, <1>r, <1>s DEF Backed
<1>f. ASSUME NEW r \in Replicas, Finish(r) PROVE Backed'
  <2>1. Idle.kind \notin Services
    BY DEF Idle, Services
  <2> QED BY <1>f, <1>g, <1>r, <2>1, JobBacked DEF Finish
\* The job keeps its kind and takes up nothing new.
<1>k. ASSUME NEW r \in Replicas, NEW x, job' = [job EXCEPT ![r] = x],
             x.kind = job[r].kind, x.todo \subseteq job[r].todo,
             x.cur \in {NoTrx, job[r].cur} \cup job[r].todo
      PROVE  Backed'
  <2>1. x.kind \in Services => \A t \in Trx : t \in x.todo \/ t = x.cur => t \in Present'
    BY <1>g, <1>k, NoTrxAssumption DEF Backed
  <2> QED BY <1>g, <1>k, <1>r, <2>1, JobBacked
<1>1. ASSUME NEW r \in Replicas, NEW svc \in Services, StartPass(r, svc) PROVE Backed'
  <2> DEFINE x == [Idle EXCEPT !.kind = svc, !.pc = "scan", !.todo = Selected(table, svc),
                               !.copy = [t \in Trx |-> IF t \in Selected(table, svc)
                                                       THEN table[t] ELSE NoRow]]
  <2>1. x.todo = Selected(table, svc) /\ x.cur = NoTrx /\ job' = [job EXCEPT ![r] = x]
    BY <1>1 DEF StartPass, Idle
  <2> HIDE DEF x
  <2>2. Selected(table, svc) \subseteq Present
    BY DEF Selected, Present, Source, New, Confirmed, Absent
  <2> QED BY <1>g, <1>r, <2>1, <2>2, NoTrxAssumption, JobBacked
<1>2. ASSUME NEW r \in Replicas, NEW batch \in SUBSET Trx, StartUpdate(r, batch) PROVE Backed'
  <2> DEFINE x == [Idle EXCEPT !.kind = "update", !.pc = "read", !.todo = batch]
  <2>1. x.kind \notin Services /\ job' = [job EXCEPT ![r] = x]
    BY <1>2 DEF StartUpdate, Idle, Services
  <2> HIDE DEF x
  <2> QED BY <1>g, <1>r, <2>1, JobBacked
<1>3. ASSUME NEW r \in Replicas, NEW t \in Trx, SkipLocked(r, t) PROVE Backed'
  <2> DEFINE x == [job[r] EXCEPT !.todo = Remaining(@, t)]
  <2>1. job' = [job EXCEPT ![r] = x]
    BY <1>3 DEF SkipLocked
  <2>2. x.kind = job[r].kind /\ x.todo = job[r].todo \ {t} /\ x.cur = job[r].cur
    BY <1>t DEF Job, Remaining
  <2> HIDE DEF x
  <2> QED BY <1>k, <2>1, <2>2
<1>4. ASSUME NEW r \in Replicas, NEW t \in Trx, SeeUnlocked(r, t) PROVE Backed'
  <2> DEFINE x == [job[r] EXCEPT !.todo = Remaining(@, t), !.cur = t, !.pc = "acquire"]
  <2>1. job' = [job EXCEPT ![r] = x] /\ t \in job[r].todo
    BY <1>4 DEF SeeUnlocked
  <2>2. x.kind = job[r].kind /\ x.todo = job[r].todo \ {t} /\ x.cur = t
    BY <1>t DEF Job, Remaining
  <2> HIDE DEF x
  <2> QED BY <1>k, <2>1, <2>2
\* Steps that only move the label or count the attempts.
<1>5. ASSUME NEW r \in Replicas, NEW x, job' = [job EXCEPT ![r] = x],
             \/ \E label : x = [job[r] EXCEPT !.pc = label]
             \/ \E n : x = [job[r] EXCEPT !.tries = n]
      PROVE  Backed'
  <2>1. x.kind = job[r].kind /\ x.todo = job[r].todo /\ x.cur = job[r].cur
    BY <1>t, <1>5 DEF Job
  <2> QED BY <1>k, <1>5, <2>1
<1>6. ASSUME NEW r \in Replicas, NEW label, Goto(r, label) PROVE Backed'
  BY <1>5, <1>6 DEF Goto
<1>7. ASSUME NEW r \in Replicas, job' = [job EXCEPT ![r].tries = @ + 1] PROVE Backed'
  BY <1>5, <1>7
<1>8. ASSUME NEW r \in Replicas, Acquire(r) PROVE Backed'
  <2> DEFINE x == [job[r] EXCEPT !.pc = "call", !.tries = 0]
  <2>1. job' = [job EXCEPT ![r] = x]
    BY <1>t, <1>8 DEF Acquire
  <2> HIDE DEF x
  <2>2. x.kind = job[r].kind /\ x.todo = job[r].todo /\ x.cur = job[r].cur
    BY <1>t DEF Job, x
  <2> QED BY <1>k, <2>1, <2>2
<1>9. ASSUME NEW r \in Replicas, Release(r) PROVE Backed'
  <2>1. CASE Finish(r)
    BY <1>f, <2>1
  <2>2. CASE job' = [job EXCEPT ![r].pc = "scan", ![r].cur = NoTrx]
    <3> DEFINE x == [job[r] EXCEPT !.pc = "scan", !.cur = NoTrx]
    <3>1. job' = [job EXCEPT ![r] = x]
      BY <1>t, <2>2
    <3> HIDE DEF x
    <3>2. x.kind = job[r].kind /\ x.todo = job[r].todo /\ x.cur = NoTrx
      BY <1>t DEF Job, x
    <3> QED BY <1>k, <3>1, <3>2
  <2> QED BY <1>9, <2>1, <2>2 DEF Release
<1>10. ASSUME NEW r \in Replicas,
              \/ CannotEncode(r) \/ CallAccepted(r) \/ CallRejected(r) \/ Save(r)
              \/ \E taken \in BOOLEAN : CallRaises(r, taken)
       PROVE  Backed'
  BY <1>6, <1>7, <1>10 DEF CannotEncode, CallAccepted, CallRejected, CallRaises, Save
<1>11. ASSUME NEW r \in Replicas,
              \/ EndPass(r) \/ AcquireFails(r) \/ Unwind(r) \/ UpdateCommit(r)
              \/ DeadlockVictim(r) \/ Crash(r) \/ \E keep \in BOOLEAN : UpdateFails(r, keep)
       PROVE  Backed'
  BY <1>f, <1>11 DEF EndPass, AcquireFails, Unwind, UpdateCommit, DeadlockVictim, Crash, UpdateFails
\* A handler takes up only what the services have told it.
<1>12. ASSUME NEW r \in Replicas, NEW x, job' = [job EXCEPT ![r] = x], x.kind = job[r].kind,
              job[r].pc \in {"read", "write"}
       PROVE  Backed'
  <2>1. x.kind \notin Services
    BY <1>t, <1>12 DEF WellFormed, Services
  <2> QED BY <1>g, <1>r, <1>12, <2>1, JobBacked
<1>13. ASSUME NEW r \in Replicas, NEW t \in Trx, UpdateRead(r, t) PROVE Backed'
  <2>1. /\ [job[r] EXCEPT !.todo = @ \ {t}, !.cur = t, !.pc = "write"].kind = job[r].kind
        /\ [job[r] EXCEPT !.todo = @ \ {t}].kind = job[r].kind
    BY <1>t DEF Job
  <2> QED BY <1>12, <1>13, <2>1 DEF UpdateRead
<1>14. ASSUME NEW r \in Replicas, UpdateWrite(r) PROVE Backed'
  <2>1. [job[r] EXCEPT !.wrote = @ \cup {job[r].cur}, !.cur = NoTrx, !.pc = "read"].kind = job[r].kind
    BY <1>t DEF Job
  <2> QED BY <1>12, <1>14, <2>1 DEF UpdateWrite
<1>15. CASE UNCHANGED vars
  BY <1>15, <1>s DEF vars
<1> QED
  BY <1>s, <1>1, <1>2, <1>3, <1>4, <1>8, <1>9, <1>10, <1>11, <1>13, <1>14, <1>15
  DEF Next, PassStep, UpdateStep, Insert, LockExpires, LockLapses

LEMMA BackedInit == Init => Backed
  BY DEF Init, Backed, Idle, Services

(* No service ever hears of a transaction whose row is not committed.        *)
THEOREM OnlyStoredSent ==
  Spec => [](\A svc \in Services : received[svc] \subseteq Present)
<1>1. Backed => \A svc \in Services : received[svc] \subseteq Present
  BY DEF Backed
<1> QED
  BY <1>1, BackedInit, BackedStep, Invariance, PTL DEF Spec

-----------------------------------------------------------------------------
(* What a replica does leaves the jobs of the others alone, and needs a job, *)
(* or ends one.                                                              *)
LEMMA OwnJob ==
  ASSUME DeliveryInv, NEW r \in Replicas,
         PassStep(r) \/ UpdateStep(r) \/ Crash(r) \/ \E keep \in BOOLEAN : UpdateFails(r, keep)
  PROVE  /\ job[r].pc # "idle" \/ job'[r].pc = "idle"
         /\ \A q \in Replicas : q # r => job'[q] = job[q]
<1>t. job \in [Replicas -> Job]
  BY DEF DeliveryInv, TypeOK
<1>1. \A q \in Replicas : q # r => job'[q] = job[q]
  BY <1>t DEF PassStep, UpdateStep, EndPass, SkipLocked,
     SeeUnlocked, Acquire, AcquireFails, CannotEncode, CallAccepted, CallRejected, CallRaises,
     Save, Release, Unwind, UpdateRead, UpdateWrite, UpdateCommit, DeadlockVictim, UpdateFails,
     Crash, Goto, Finish
<1>2. CASE Finish(r)
  BY <1>t, <1>1, <1>2 DEF Finish, Idle
<1>3. CASE ~Finish(r)
  BY <1>1, <1>3 DEF PassStep, UpdateStep, EndPass, SkipLocked,
     SeeUnlocked, Acquire, AcquireFails, CannotEncode, CallAccepted, CallRejected, CallRaises,
     Save, Release, Unwind, UpdateRead, UpdateWrite, UpdateCommit, DeadlockVictim, UpdateFails,
     Crash
<1> QED BY <1>2, <1>3

=============================================================================
