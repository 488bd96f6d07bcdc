---------------------------- MODULE IntakeProofs -----------------------------
(***************************************************************************)
(* Proofs about Intake, for any number of replicas, wallets, transactions   *)
(* and failures: the table implements Ledger and holds what was sent to the *)
(* wallets; and on one replica no insertion of the monitor is refused for   *)
(* its hash.                                                                *)
(***************************************************************************)
EXTENDS Intake, TLAPS

(* Tokens of locks and texts of hashes are what the types say.               *)
LEMMA HashTypes ==
  ASSUME NEW t \in Chain
  PROVE  /\ Lower(t) \in Hashes /\ Lower(t) # Null /\ Lower(t)[1] = t
         /\ Given(t) \in Hashes /\ Given(t) # Null
BY NullAssumption DEF Lower, Given, Hashes

(* A session of the right type, which knows its wallet while it is at one.   *)
Good == {s \in Session : s.pc \in AtWallet => s.cur # NoWallet}

Typed ==
  /\ mined \in SUBSET Chain
  /\ rows \in SUBSET Row
  /\ locks \in [Wallets -> Replicas \cup {Free, Orphan}]
  /\ session \in [Replicas -> Good]
  /\ faults \in Nat

(* One session moves on, and the rest keeps its types.                       *)
LEMMA Moved ==
  ASSUME Typed, NEW r \in Replicas, NEW s \in Good, Become(r, s),
         mined' = mined, rows' \in SUBSET Row, faults' \in Nat,
         locks' \in [Wallets -> Replicas \cup {Free, Orphan}]
  PROVE  Typed'
BY DEF Become, Typed

LEMMA IdleGood == Idle \in Good
BY DEF Idle, Session, Good, AtWallet

(* A database transaction ends.                                              *)
LEMMA EndTyped ==
  ASSUME Typed, NEW r \in Replicas, Commit(r) \/ Rollback(r),
         mined' = mined, faults' \in Nat,
         locks' \in [Wallets -> Replicas \cup {Free, Orphan}]
  PROVE  Typed'
<1>1. session[r].wrote \in SUBSET Row
  BY DEF Typed, Good, Session, Good, AtWallet
<1>2. Become(r, Idle) /\ rows' \in SUBSET Row
  BY <1>1 DEF Commit, Rollback, Aborted, Typed
<1> QED BY <1>2, Moved, IdleGood

(* No step of any replica leaves the types.                                  *)
LEMMA TypeStep == Typed /\ [Next]_vars => Typed'
<1> SUFFICES ASSUME Typed, [Next]_vars PROVE Typed'
  OBVIOUS
<1>0. \A r \in Replicas : session[r] \in Good
  BY DEF Typed
<1>s. ASSUME NEW r \in Replicas, StartPass(r) PROVE Typed'
  BY <1>s, <1>0, Moved, IdleGood DEF StartPass, Typed, Idle, Session, Good, AtWallet
<1>1. ASSUME NEW r \in Replicas, EndPass(r) PROVE Typed'
  BY <1>1, EndTyped DEF EndPass, Typed
<1>2. ASSUME NEW r \in Replicas, NEW w \in Wallets, SkipLocked(r, w) PROVE Typed'
  BY <1>2, <1>0 DEF SkipLocked, Become, Typed, Session, Good, AtWallet
<1>3. ASSUME NEW r \in Replicas, NEW w \in Wallets, SeeUnlocked(r, w) PROVE Typed'
  <2>1. [session[r] EXCEPT !.pc = "acquire", !.todo = @ \ {w}, !.cur = w] \in Good
    BY <1>0, WalletAssumption DEF Good, Session, AtWallet
  <2> QED BY <1>3, <2>1, Moved DEF SeeUnlocked, Typed
<1>4. ASSUME NEW r \in Replicas, Acquire(r) PROVE Typed'
  <2>1. CASE locks[session[r].cur] = Free
    BY <1>4, <1>0, <2>1 DEF Acquire, Become, Typed, Session, Good, AtWallet
  <2>2. CASE locks[session[r].cur] # Free
    BY <1>4, <2>2, EndTyped DEF Acquire, Typed
  <2> QED BY <2>1, <2>2
<1>5. ASSUME NEW r \in Replicas, List(r) PROVE Typed'
  <2>1. Answer(session[r].cur) \in SUBSET Chain
    BY DEF Answer, Typed
  <2> QED BY <1>5, <1>0, <2>1 DEF List, Become, Typed, Session, Good, AtWallet
<1>6. ASSUME NEW r \in Replicas, ListRaises(r) PROVE Typed'
  BY <1>6, <1>0 DEF ListRaises, Become, Typed, Session, Good, AtWallet
<1>7. ASSUME NEW r \in Replicas, NEW t \in Chain, Check(r, t) PROVE Typed'
  <2> DEFINE row == {[hash |-> Lower(t), uuid |-> Null, wallet |-> session[r].cur]}
  <2>1. session[r].pc = "check"
    BY <1>7 DEF Check
  <2>2. session[r].cur \in Wallets
    BY <2>1, <1>0 DEF Good, Session, AtWallet
  <2>3. row \in SUBSET Row
    BY <2>2, HashTypes DEF Row
  <2>4. [session[r] EXCEPT !.batch = @ \ {t},
                           !.row = IF Valid(r, t, session[r].cur) THEN row ELSE {}] \in Good
    BY <2>3, <1>0 DEF Good, Session, AtWallet
  <2> QED BY <1>7, <2>4, Moved DEF Check, Typed
<1>8. ASSUME NEW r \in Replicas, NEW t \in Chain, CheckRaises(r, t) PROVE Typed'
  BY <1>8, <1>0 DEF CheckRaises, Become, Typed, Session, Good, AtWallet
<1>9. ASSUME NEW r \in Replicas, Store(r) PROVE Typed'
  <2>1. PICK x \in session[r].row :
          IF Refused(r, x)
          THEN Become(r, [session[r] EXCEPT !.pc = "unwind", !.row = {}])
          ELSE Become(r, [session[r] EXCEPT !.row = {}, !.wrote = @ \cup {x}])
    BY <1>9 DEF Store
  <2>2. session[r].pc = "check" /\ x \in Row
    BY <1>9, <1>0, <2>1 DEF Store, Good, Session
  <2>3. [session[r] EXCEPT !.pc = "unwind", !.row = {}] \in Good
    BY <1>0, <2>2 DEF Good, Session, AtWallet
  <2>4. [session[r] EXCEPT !.row = {}, !.wrote = @ \cup {x}] \in Good
    BY <1>0, <2>2 DEF Good, Session, AtWallet
  <2> QED BY <1>9, <2>1, <2>3, <2>4, Moved DEF Store, Typed
<1>10. ASSUME NEW r \in Replicas, Checked(r) PROVE Typed'
  BY <1>10, <1>0 DEF Checked, Become, Typed, Session, Good, AtWallet
<1>11. ASSUME NEW r \in Replicas, Release(r) PROVE Typed'
  <2>1. CASE locks[session[r].cur] \in {Free, r}
    <3>1. [session[r] EXCEPT !.pc = "scan", !.cur = NoWallet] \in Good
      BY <1>0 DEF Good, Session, AtWallet
    <3> QED BY <1>11, <2>1, <3>1, Moved DEF Release, Unlocked, Typed
  <2>2. CASE locks[session[r].cur] \notin {Free, r}
    BY <1>11, <2>2, EndTyped DEF Release, Typed
  <2> QED BY <2>1, <2>2
<1>12. ASSUME NEW r \in Replicas, Unwind(r) PROVE Typed'
  BY <1>12, EndTyped DEF Unwind, Unlocked, Typed
<1>13. ASSUME NEW r \in Replicas, NEW t \in Chain, NEW u \in Uuids,
              NEW w \in ExchangeWallets, StartAdd(r, t, u, w) PROVE Typed'
  <2>1. [hash |-> Given(t), uuid |-> u, wallet |-> w] \in Row
    BY HashTypes DEF Row
  <2> QED BY <1>13, <2>1 DEF StartAdd, Become, Typed, Idle, Session, Good, AtWallet
<1>14. ASSUME NEW r \in Replicas, Find(r) PROVE Typed'
  <2>1. CASE Commit(r)
    BY <1>14, <2>1, EndTyped DEF Find, Typed
  <2>2. CASE ~Commit(r)
    BY <1>14, <1>0, <2>2 DEF Find, Become, Typed, Session, Good, AtWallet
  <2> QED BY <2>1, <2>2
<1>15. ASSUME NEW r \in Replicas, NEW u \in Uuids \cup {Null}, NEW w \in ExchangeWallets,
              StartExpect(r, u, w) PROVE Typed'
  <2>1. [hash |-> Null, uuid |-> u, wallet |-> w] \in Row
    BY DEF Row
  <2>2. [Idle EXCEPT !.pc = "create", !.row = {[hash |-> Null, uuid |-> u, wallet |-> w]}] \in Good
    BY <2>1 DEF Idle, Good, Session, AtWallet
  <2> QED BY <1>15, <2>2, Moved DEF StartExpect, Typed
<1>16. ASSUME NEW r \in Replicas, Create(r) PROVE Typed'
  <2>1. CASE Rollback(r)
    BY <1>16, <2>1, EndTyped DEF Create, Typed
  <2>2. CASE ~Rollback(r)
    <3>1. PICK x \in session[r].row :
            Become(r, [session[r] EXCEPT !.pc = "commit", !.row = {}, !.wrote = {x}])
      BY <1>16, <2>2 DEF Create
    <3>2. [session[r] EXCEPT !.pc = "commit", !.row = {}, !.wrote = {x}] \in Good
      BY <1>0, <3>1 DEF Good, Session, AtWallet
    <3> QED BY <1>16, <2>2, <3>1, <3>2, Moved DEF Create, Typed
  <2> QED BY <2>1, <2>2
<1>17. ASSUME NEW r \in Replicas, EndRequest(r) PROVE Typed'
  BY <1>17, EndTyped DEF EndRequest, Typed
<1>18. ASSUME NEW t \in Chain, Mine(t) PROVE Typed'
  BY <1>18 DEF Mine, Typed
<1>19. ASSUME NEW r \in Replicas, DeadlockVictim(r) PROVE Typed'
  <2>1. CASE session[r].pc = "check"
    <3>1. [session[r] EXCEPT !.pc = "unwind", !.row = {}] \in Good
      BY <1>0, <2>1 DEF Good, Session, AtWallet
    <3> QED BY <1>19, <2>1, <3>1, Moved DEF DeadlockVictim, Typed
  <2>2. CASE session[r].pc # "check"
    BY <1>19, <2>2, EndTyped DEF DeadlockVictim, Typed
  <2> QED BY <2>1, <2>2
<1>20. ASSUME NEW r \in Replicas, Crash(r) PROVE Typed'
  BY <1>20, EndTyped DEF Crash, Typed
<1>21. ASSUME NEW w \in Wallets, LockExpires(w) \/ LockLapses(w) PROVE Typed'
  BY <1>21 DEF LockExpires, LockLapses, Typed
<1>22. CASE UNCHANGED vars
  BY <1>22 DEF vars, Typed
<1> QED
  BY <1>s, <1>1, <1>2, <1>3, <1>4, <1>5, <1>6, <1>7, <1>8, <1>9, <1>10, <1>11, <1>12, <1>13,
     <1>14, <1>15, <1>16, <1>17, <1>18, <1>19, <1>20, <1>21, <1>22
  DEF Next, PassStep, RequestStep

-----------------------------------------------------------------------------
(* Rows.  A step of the session of r either adds nothing to what is written, *)
(* or one row that no other clashes with; an end of a database transaction   *)
(* takes nothing back that was committed and commits nothing new to Written. *)

LEMMA Subset ==
  ASSUME NEW S, NEW T, T \subseteq S, Ledgers!Compatible(S)
  PROVE  Ledgers!Compatible(T)
BY DEF Ledgers!Compatible

(* The rows of other sessions stay when the session of r moves on.           *)
LEMMA Kept ==
  ASSUME Typed, NEW r \in Replicas, NEW s \in Good, Become(r, s),
         rows' \subseteq Written, s.wrote \subseteq session[r].wrote
  PROVE  Written' \subseteq Written
<1>1. \A q \in Replicas : session'[q].wrote \subseteq session[q].wrote
  BY DEF Become, Typed
<1> QED BY <1>1 DEF Written

(* An accepted insertion adds a row that passes the unique columns.          *)
LEMMA Added ==
  ASSUME Typed, Ledgers!Compatible(Written), NEW r \in Replicas, NEW x \in Row,
         ~Waits(r, x), ~Refused(r, x), NEW s \in Good, Become(r, s), rows' = rows,
         s.wrote \subseteq session[r].wrote \cup {x}
  PROVE  Ledgers!Compatible(Written') /\ Written' \subseteq Written \cup {x}
<1>1. \A q \in Replicas : session'[q].wrote \subseteq session[q].wrote \cup {x}
  BY DEF Become, Typed
<1>2. Written' \subseteq Written \cup {x}
  BY <1>1 DEF Written
<1>3. \A y \in Written : ~Ledgers!Clash(x, y)
  BY DEF Written, Waits, Refused, Visible
<1>4. \A y \in Written : ~Ledgers!Clash(y, x)
  BY <1>3 DEF Ledgers!Clash
<1>5. Ledgers!Compatible(Written \cup {x})
  BY <1>3, <1>4 DEF Ledgers!Compatible
<1> QED BY <1>2, <1>5, Subset

(* The end of a database transaction.                                        *)
LEMMA Ended ==
  ASSUME Typed, NEW r \in Replicas, Commit(r) \/ Rollback(r)
  PROVE  /\ rows \subseteq rows' /\ rows' \subseteq Written
         /\ Written' \subseteq Written
         /\ Become(r, Idle)
<1>1. Become(r, Idle)
  BY DEF Commit, Rollback
<1>2. rows \subseteq rows' /\ rows' \subseteq Written
  BY DEF Commit, Rollback, Aborted, Written
<1>3. Written' \subseteq Written
  BY <1>1, <1>2, Kept, IdleGood DEF Idle
<1> QED BY <1>1, <1>2, <1>3

(* The inductive invariant without the types.                                *)
Inserted ==
  /\ Ledgers!Compatible(Written)
  /\ \A x \in Written : FromInput(x)
  /\ \A r \in Replicas : \A x \in session[r].row : FromInput(x)

LEMMA Parts == IntakeInv <=> Typed /\ Inserted
<1>1. session \in [Replicas -> Good] <=>
        /\ session \in [Replicas -> Session]
        /\ \A r \in Replicas : session[r].pc \in AtWallet => session[r].cur # NoWallet
  BY DEF Good
<1> QED BY <1>1 DEF IntakeInv, TypeOK, Typed, Inserted

(* What a step of Intake does to the table.                                  *)
TableStep == rows \subseteq rows' /\ rows' \subseteq Written /\ Inserted'

(* A step that inserts nothing.                                              *)
LEMMA Quiet ==
  ASSUME Typed, Inserted, NEW r \in Replicas, NEW s \in Good, Become(r, s),
         rows' = rows, s.wrote \subseteq session[r].wrote,
         \A x \in s.row : FromInput(x)
  PROVE  TableStep
<1>1. Written' \subseteq Written
  BY Kept DEF Written
<1>2. \A q \in Replicas : \A x \in session'[q].row : FromInput(x)
  BY DEF Become, Typed, Inserted
<1>3. rows \subseteq Written
  BY DEF Written
<1> QED BY <1>1, <1>2, <1>3, Subset DEF TableStep, Inserted, FromInput

LEMMA EndedStep ==
  ASSUME Typed, Inserted, NEW r \in Replicas, Commit(r) \/ Rollback(r)
  PROVE  TableStep
<1>1. /\ rows \subseteq rows' /\ rows' \subseteq Written
      /\ Written' \subseteq Written /\ Become(r, Idle)
  BY Ended
<1>2. \A q \in Replicas : \A x \in session'[q].row : FromInput(x)
  BY <1>1 DEF Become, Idle, Typed, Inserted
<1> QED BY <1>1, <1>2, Subset DEF TableStep, Inserted, FromInput

(* Steps that leave sessions and rows alone.                                 *)
LEMMA Still ==
  ASSUME Inserted, UNCHANGED <<rows, session>>
  PROVE  TableStep
BY DEF TableStep, Inserted, Written, FromInput

(* Every step of Intake enters rows that were compatible with all others, or *)
(* none.                                                                     *)
LEMMA InsertStep == Typed /\ Inserted /\ [Next]_vars => TableStep
<1> SUFFICES ASSUME Typed, Inserted, [Next]_vars PROVE TableStep
  OBVIOUS
<1>0. \A r \in Replicas : session[r] \in Good /\ \A x \in session[r].row : FromInput(x) /\ x \in Row
  BY DEF Typed, Good, Session, Inserted
<1>t. \A r \in Replicas : session'[r] \in Good
  BY TypeStep DEF Typed
<1>b. ASSUME NEW r \in Replicas, NEW s, Become(r, s) PROVE s \in Good
  BY <1>b, <1>t DEF Become, Typed
\* Steps that neither insert nor end a database transaction.
<1>1. ASSUME NEW r \in Replicas,
             \/ StartPass(r) \/ List(r) \/ ListRaises(r) \/ Checked(r)
             \/ \E w \in Wallets : SkipLocked(r, w) \/ SeeUnlocked(r, w)
             \/ \E t \in Chain : CheckRaises(r, t)
      PROVE  TableStep
  <2> DEFINE s == session'[r]
             Goal == /\ Become(r, s) /\ rows' = rows
                     /\ s.wrote \in {session[r].wrote, {}} /\ s.row \in {session[r].row, {}}
  <2>1. ASSUME StartPass(r) PROVE Goal
    BY <2>1, <1>0 DEF StartPass, Idle, Become, Typed, Good, Session
  <2>2. ASSUME List(r) PROVE Goal
    BY <2>2, <1>0 DEF List, Become, Typed, Good, Session
  <2>3. ASSUME ListRaises(r) PROVE Goal
    BY <2>3, <1>0 DEF ListRaises, Become, Typed, Good, Session
  <2>4. ASSUME Checked(r) PROVE Goal
    BY <2>4, <1>0 DEF Checked, Become, Typed, Good, Session
  <2>5. ASSUME NEW w \in Wallets, SkipLocked(r, w) PROVE Goal
    BY <2>5, <1>0 DEF SkipLocked, Become, Typed, Good, Session
  <2>6. ASSUME NEW w \in Wallets, SeeUnlocked(r, w) PROVE Goal
    BY <2>6, <1>0 DEF SeeUnlocked, Become, Typed, Good, Session
  <2>7. ASSUME NEW t \in Chain, CheckRaises(r, t) PROVE Goal
    BY <2>7, <1>0 DEF CheckRaises, Become, Typed, Good, Session
  <2>8. Goal
    BY <1>1, <2>1, <2>2, <2>3, <2>4, <2>5, <2>6, <2>7
  <2> QED BY <2>8, <1>t, <1>0, Quiet
<1>2. ASSUME NEW r \in Replicas, NEW t \in Chain, Check(r, t) PROVE TableStep
  <2> DEFINE x == [hash |-> Lower(t), uuid |-> Null, wallet |-> session[r].cur]
             s == [session[r] EXCEPT !.batch = @ \ {t},
                                     !.row = IF Valid(r, t, session[r].cur) THEN {x} ELSE {}]
  <2>1. Become(r, s) /\ rows' = rows
    BY <1>2 DEF Check
  <2>2. s.wrote = session[r].wrote /\ s.row = IF Valid(r, t, session[r].cur) THEN {x} ELSE {}
    BY <1>0 DEF Good, Session
  <2>3. Valid(r, t, session[r].cur) => FromInput(x)
    BY HashTypes DEF Valid, FromInput
  <2>4. \A y \in s.row : FromInput(y)
    BY <2>2, <2>3
  <2>5. s \in Good
    BY <2>1, <1>b
  <2> HIDE DEF s
  <2> QED BY <2>1, <2>2, <2>4, <2>5, Quiet
<1>3. ASSUME NEW r \in Replicas, NEW t \in Chain, NEW u \in Uuids,
             NEW w \in ExchangeWallets, StartAdd(r, t, u, w) PROVE TableStep
  <2> DEFINE s == [Idle EXCEPT !.pc = "find",
                               !.row = {[hash |-> Given(t), uuid |-> u, wallet |-> w]}]
  <2>1. Become(r, s) /\ rows' = rows
    BY <1>3 DEF StartAdd
  <2>2. s.wrote = {} /\ \A y \in s.row : FromInput(y)
    BY NullAssumption DEF Idle, FromInput
  <2>3. s \in Good
    BY <2>1, <1>b
  <2> HIDE DEF s
  <2> QED BY <2>1, <2>2, <2>3, Quiet
<1>4. ASSUME NEW r \in Replicas, NEW u \in Uuids \cup {Null}, NEW w \in ExchangeWallets,
             StartExpect(r, u, w) PROVE TableStep
  <2> DEFINE s == [Idle EXCEPT !.pc = "create",
                               !.row = {[hash |-> Null, uuid |-> u, wallet |-> w]}]
  <2>1. Become(r, s) /\ rows' = rows
    BY <1>4 DEF StartExpect
  <2>2. s.wrote = {} /\ \A y \in s.row : FromInput(y)
    BY NullAssumption DEF Idle, FromInput
  <2>3. s \in Good
    BY <2>1, <1>b
  <2> HIDE DEF s
  <2> QED BY <2>1, <2>2, <2>3, Quiet
\* The two INSERT statements.
<1>5. ASSUME NEW r \in Replicas, Store(r) PROVE TableStep
  <2>1. PICK x \in session[r].row :
          /\ ~Waits(r, x)
          /\ IF Refused(r, x)
             THEN Become(r, [session[r] EXCEPT !.pc = "unwind", !.row = {}])
             ELSE Become(r, [session[r] EXCEPT !.row = {}, !.wrote = @ \cup {x}])
    BY <1>5 DEF Store
  <2>2. rows' = rows
    BY <1>5 DEF Store
  <2>3. CASE Refused(r, x)
    <3> DEFINE s == [session[r] EXCEPT !.pc = "unwind", !.row = {}]
    <3>1. Become(r, s) /\ s \in Good /\ s.wrote = session[r].wrote /\ s.row = {}
      BY <2>1, <2>3, <1>b, <1>0 DEF Good, Session
    <3> HIDE DEF s
    <3> QED BY <3>1, <2>2, Quiet
  <2>4. CASE ~Refused(r, x)
    <3> DEFINE s == [session[r] EXCEPT !.row = {}, !.wrote = @ \cup {x}]
    <3>1. Become(r, s) /\ s \in Good /\ s.wrote = session[r].wrote \cup {x} /\ s.row = {}
      BY <2>1, <2>4, <1>b, <1>0 DEF Good, Session
    <3> HIDE DEF s
    <3>2. Ledgers!Compatible(Written') /\ Written' \subseteq Written \cup {x}
      BY <3>1, <2>1, <2>2, <2>4, <1>0, Added DEF Inserted
    <3> QED BY <3>1, <3>2, <2>2, <1>0 DEF TableStep, Inserted, Written, FromInput, Become, Typed
  <2> QED BY <2>3, <2>4
<1>6. ASSUME NEW r \in Replicas, Create(r) PROVE TableStep
  <2>1. CASE Rollback(r)
    BY <2>1, EndedStep
  <2>2. CASE ~Rollback(r)
    <3>1. PICK x \in session[r].row :
            /\ ~Waits(r, x) /\ ~Refused(r, x) /\ rows' = rows
            /\ Become(r, [session[r] EXCEPT !.pc = "commit", !.row = {}, !.wrote = {x}])
      BY <1>6, <2>2 DEF Create
    <3> DEFINE s == [session[r] EXCEPT !.pc = "commit", !.row = {}, !.wrote = {x}]
    <3>2. Become(r, s) /\ s \in Good /\ s.wrote = {x} /\ s.row = {}
      BY <3>1, <1>b, <1>0 DEF Good, Session
    <3> HIDE DEF s
    <3>3. Ledgers!Compatible(Written') /\ Written' \subseteq Written \cup {x}
      BY <3>1, <3>2, <1>0, Added DEF Inserted
    <3> QED BY <3>1, <3>2, <3>3, <1>0 DEF TableStep, Inserted, Written, FromInput, Become, Typed
  <2> QED BY <2>1, <2>2
<1>7. ASSUME NEW r \in Replicas, EndPass(r) \/ Unwind(r) \/ EndRequest(r) \/ Crash(r)
      PROVE  TableStep
  BY <1>7, EndedStep DEF EndPass, Unwind, EndRequest, Crash
\* Steps that may end the database transaction.
<1>8. ASSUME NEW r \in Replicas, ~Commit(r), ~Rollback(r),
             Acquire(r) \/ Release(r) \/ Find(r) \/ DeadlockVictim(r)
      PROVE  TableStep
  <2> DEFINE s == session'[r]
             Goal == /\ Become(r, s) /\ rows' = rows
                     /\ s.wrote = session[r].wrote /\ s.row \in {session[r].row, {}}
  <2>1. ASSUME Acquire(r) PROVE Goal
    BY <2>1, <1>8, <1>0 DEF Acquire, Become, Typed, Good, Session
  <2>2. ASSUME Release(r) PROVE Goal
    <3>1. Become(r, [session[r] EXCEPT !.pc = "scan", !.cur = NoWallet]) /\ rows' = rows
      BY <2>2, <1>8 DEF Release
    <3> QED BY <3>1, <1>0 DEF Become, Typed, Good, Session
  <2>3. ASSUME Find(r) PROVE Goal
    <3>1. Become(r, [session[r] EXCEPT !.pc = "create"]) /\ rows' = rows
      BY <2>3, <1>8 DEF Find
    <3> QED BY <3>1, <1>0 DEF Become, Typed, Good, Session
  <2>4. ASSUME DeadlockVictim(r) PROVE Goal
    <3>1. Become(r, [session[r] EXCEPT !.pc = "unwind", !.row = {}]) /\ rows' = rows
      BY <2>4, <1>8 DEF DeadlockVictim
    <3> QED BY <3>1, <1>0 DEF Become, Typed, Good, Session
  <2>5. Goal
    BY <1>8, <2>1, <2>2, <2>3, <2>4
  <2> QED BY <2>5, <1>t, <1>0, Quiet
<1>9. ASSUME NEW r \in Replicas, Commit(r) \/ Rollback(r) PROVE TableStep
  BY <1>9, EndedStep
\* Steps of the world.
<1>10. ASSUME \/ \E t \in Chain : Mine(t)
              \/ \E w \in Wallets : LockExpires(w) \/ LockLapses(w)
              \/ UNCHANGED vars
       PROVE  TableStep
  BY <1>10, Still DEF Mine, LockExpires, LockLapses, vars
<1> QED
  BY <1>1, <1>2, <1>3, <1>4, <1>5, <1>6, <1>7, <1>8, <1>9, <1>10 DEF Next, PassStep, RequestStep

-----------------------------------------------------------------------------
LEMMA InvStart == Init => Typed /\ Inserted
<1> SUFFICES ASSUME Init PROVE Typed /\ Inserted
  OBVIOUS
<1>1. Typed
  BY IdleGood, BoundAssumption DEF Init, Typed
<1>2. Written = {}
  BY DEF Init, Written, Idle
<1>3. Inserted
  BY <1>2 DEF Init, Inserted, Idle, Ledgers!Compatible
<1> QED BY <1>1, <1>3

LEMMA InvStep == Typed /\ Inserted /\ [Next]_vars => Typed' /\ Inserted'
BY TypeStep, InsertStep DEF TableStep

LEMMA AlwaysInv == Spec => [](Typed /\ Inserted)
BY InvStart, InvStep, PTL DEF Spec

(* The inductive invariant: the rows that are committed and those of all     *)
(* open database transactions would together pass the unique columns.        *)
THEOREM IntakeCorrect == Spec => []IntakeInv
BY Parts, AlwaysInv, PTL

(* Every variable keeps its type.                                            *)
THEOREM IntakeTyped == Spec => []TypeOK
<1>1. IntakeInv => TypeOK
  BY DEF IntakeInv
<1> QED BY <1>1, IntakeCorrect, PTL

(* What the monitor stores for a wallet was sent to that wallet.             *)
THEOREM StoredWasSent == Spec => []InputsOnly
<1>1. IntakeInv => InputsOnly
  BY DEF IntakeInv, InputsOnly, Written
<1> QED BY <1>1, IntakeCorrect, PTL

(* The table of any number of replicas is the ledger: no hash and no uuid is *)
(* entered twice, and nothing committed is lost, whatever sessions wait for  *)
(* each other, are rolled back or die.                                       *)
THEOREM ImplementsLedger == Spec => KeepsLedger
<1>1. Init => Ledgers!Init
  BY DEF Init, Ledgers!Init
<1>2. Typed /\ Inserted /\ Typed' /\ [Next]_vars => [Ledgers!Next]_rows
  <2> SUFFICES ASSUME Typed, Inserted, Typed', [Next]_vars PROVE Ledgers!Next
    OBVIOUS
  <2>1. TableStep
    BY InsertStep
  <2>2. Ledgers!Compatible(rows')
    BY <2>1, Subset DEF TableStep, Inserted
  <2> QED BY <2>1, <2>2 DEF TableStep, Typed, Ledgers!Next, Ledgers!Enter
<1> QED BY <1>1, <1>2, AlwaysInv, PTL DEF Spec, KeepsLedger, Ledgers!Spec

-----------------------------------------------------------------------------
(* One replica.  What is_valid has found stays so until the INSERT, because  *)
(* nobody else writes.                                                       *)
Looked ==
  \A r \in Replicas :
    /\ session[r].pc \notin {"check", "find", "create"} => session[r].row = {}
    /\ session[r].pc = "check" =>
         \A x \in session[r].row :
           /\ x.uuid = Null /\ x.hash # Null
           /\ \A y \in Visible(r) : y.hash # x.hash

LEMMA LookedAll ==
  ASSUME \A p, q \in Replicas : p = q, Typed, NEW r \in Replicas, NEW s, Become(r, s),
         s.row = {} \/ s.pc \in {"find", "create"}
  PROVE  Looked'
<1>1. session'[r] = s
  BY DEF Become, Typed
<1>2. \A q \in Replicas : session'[q] = s
  BY <1>1
<1> QED BY <1>2 DEF Looked

LEMMA LookedStep ==
  ASSUME \A p, q \in Replicas : p = q, Typed, Looked, [Next]_vars
  PROVE  Looked'
<1>0. \A r \in Replicas :
        session[r] \in Good /\ (session[r].pc \notin {"check", "find", "create"} => session[r].row = {})
  BY DEF Typed, Looked
<1>s. \A r \in Replicas : session'[r] \in Good
  BY TypeStep DEF Typed
\* Nothing is at hand after the step.
<1>1. ASSUME NEW r \in Replicas, StartPass(r) PROVE Looked'
  <2>1. Become(r, session'[r]) /\ session'[r].row = {}
    BY <1>1 DEF StartPass, Idle, Become, Typed
  <2> QED BY <2>1, LookedAll
<1>2. ASSUME NEW r \in Replicas, List(r) \/ ListRaises(r) PROVE Looked'
  <2>1. Become(r, session'[r]) /\ session'[r].row = {}
    <3>1. CASE List(r)
      BY <3>1, <1>0 DEF List, Become, Typed, Good, Session
    <3>2. CASE ListRaises(r)
      BY <3>2, <1>0 DEF ListRaises, Become, Typed, Good, Session
    <3> QED BY <1>2, <3>1, <3>2
  <2> QED BY <2>1, LookedAll
<1>3. ASSUME NEW r \in Replicas, NEW w \in Wallets, SkipLocked(r, w) PROVE Looked'
  <2>1. Become(r, session'[r]) /\ session'[r].row = {}
    BY <1>3, <1>0 DEF SkipLocked, Become, Typed, Good, Session
  <2> QED BY <2>1, LookedAll
<1>4. ASSUME NEW r \in Replicas, NEW w \in Wallets, SeeUnlocked(r, w) PROVE Looked'
  <2>1. Become(r, session'[r]) /\ session'[r].row = {}
    BY <1>4, <1>0 DEF SeeUnlocked, Become, Typed, Good, Session
  <2> QED BY <2>1, LookedAll
<1>5. ASSUME NEW r \in Replicas, NEW t \in Chain, CheckRaises(r, t) PROVE Looked'
  <2>1. Become(r, session'[r]) /\ session'[r].row = {}
    BY <1>5, <1>0 DEF CheckRaises, Become, Typed, Good, Session
  <2> QED BY <2>1, LookedAll
<1>6. ASSUME NEW r \in Replicas, Checked(r) PROVE Looked'
  <2>1. Become(r, session'[r]) /\ session'[r].row = {}
    BY <1>6, <1>0 DEF Checked, Become, Typed, Good, Session
  <2> QED BY <2>1, LookedAll
<1>7. ASSUME NEW r \in Replicas, Commit(r) \/ Rollback(r) PROVE Looked'
  BY <1>7, LookedAll DEF Commit, Rollback, Idle
<1>8. ASSUME NEW r \in Replicas, ~Rollback(r), Acquire(r) PROVE Looked'
  <2>1. Become(r, [session[r] EXCEPT !.pc = "list"]) /\ session[r].pc = "acquire"
    BY <1>8 DEF Acquire
  <2>2. Become(r, session'[r]) /\ session'[r].row = {}
    BY <2>1, <1>0 DEF Become, Typed, Good, Session
  <2> QED BY <2>2, LookedAll
<1>9. ASSUME NEW r \in Replicas, ~Rollback(r), Release(r) PROVE Looked'
  <2>1. /\ Become(r, [session[r] EXCEPT !.pc = "scan", !.cur = NoWallet])
        /\ session[r].pc = "release"
    BY <1>9 DEF Release
  <2>2. Become(r, session'[r]) /\ session'[r].row = {}
    BY <2>1, <1>0 DEF Become, Typed, Good, Session
  <2> QED BY <2>2, LookedAll
<1>10. ASSUME NEW r \in Replicas, Store(r) PROVE Looked'
  <2>1. PICK x \in session[r].row :
          \/ Become(r, [session[r] EXCEPT !.pc = "unwind", !.row = {}])
          \/ Become(r, [session[r] EXCEPT !.row = {}, !.wrote = @ \cup {x}])
    BY <1>10 DEF Store
  <2>2. ASSUME Become(r, [session[r] EXCEPT !.pc = "unwind", !.row = {}])
        PROVE  Become(r, session'[r]) /\ session'[r].row = {}
    BY <2>2, <1>0 DEF Become, Typed, Good, Session
  <2>3. ASSUME Become(r, [session[r] EXCEPT !.row = {}, !.wrote = @ \cup {x}])
        PROVE  Become(r, session'[r]) /\ session'[r].row = {}
    BY <2>3, <1>0 DEF Become, Typed, Good, Session
  <2> QED BY <2>1, <2>2, <2>3, LookedAll
<1>11. ASSUME NEW r \in Replicas, ~Rollback(r), DeadlockVictim(r) PROVE Looked'
  <2>1. Become(r, [session[r] EXCEPT !.pc = "unwind", !.row = {}])
    BY <1>11 DEF DeadlockVictim
  <2>2. Become(r, session'[r]) /\ session'[r].row = {}
    BY <2>1, <1>0 DEF Become, Typed, Good, Session
  <2> QED BY <2>2, LookedAll
\* The requests of the Exchanger.
<1>12. ASSUME NEW r \in Replicas, NEW t \in Chain, NEW u \in Uuids,
              NEW w \in ExchangeWallets, StartAdd(r, t, u, w) PROVE Looked'
  <2>1. Become(r, session'[r]) /\ session'[r].pc = "find"
    BY <1>12 DEF StartAdd, Idle, Become, Typed
  <2> QED BY <2>1, LookedAll
<1>13. ASSUME NEW r \in Replicas, NEW u \in Uuids \cup {Null}, NEW w \in ExchangeWallets,
              StartExpect(r, u, w) PROVE Looked'
  <2>1. Become(r, session'[r]) /\ session'[r].pc = "create"
    BY <1>13 DEF StartExpect, Idle, Become, Typed
  <2> QED BY <2>1, LookedAll
<1>14. ASSUME NEW r \in Replicas, ~Commit(r), Find(r) PROVE Looked'
  <2>1. Become(r, [session[r] EXCEPT !.pc = "create"])
    BY <1>14 DEF Find
  <2>2. Become(r, session'[r]) /\ session'[r].pc = "create"
    BY <2>1, <1>0 DEF Become, Typed, Good, Session
  <2> QED BY <2>2, LookedAll
<1>15. ASSUME NEW r \in Replicas, ~Rollback(r), Create(r) PROVE Looked'
  <2>1. PICK x \in session[r].row :
          Become(r, [session[r] EXCEPT !.pc = "commit", !.row = {}, !.wrote = {x}])
    BY <1>15 DEF Create
  <2>2. Become(r, session'[r]) /\ session'[r].row = {}
    BY <2>1, <1>0 DEF Become, Typed, Good, Session
  <2> QED BY <2>2, LookedAll
\* The look-up itself.
<1>16. ASSUME NEW r \in Replicas, NEW t \in Chain, Check(r, t) PROVE Looked'
  <2> DEFINE x == [hash |-> Lower(t), uuid |-> Null, wallet |-> session[r].cur]
  <2>1. /\ session[r].pc = "check" /\ rows' = rows
        /\ Become(r, [session[r] EXCEPT !.batch = @ \ {t},
                         !.row = IF Valid(r, t, session[r].cur) THEN {x} ELSE {}])
    BY <1>16 DEF Check
  <2>2. /\ session'[r].pc = "check" /\ session'[r].wrote = session[r].wrote
        /\ session'[r].row = IF Valid(r, t, session[r].cur) THEN {x} ELSE {}
    BY <2>1, <1>0 DEF Become, Typed, Good, Session
  <2>3. Visible(r)' = Visible(r)
    BY <2>1, <2>2 DEF Visible
  <2>4. Valid(r, t, session[r].cur) => \A y \in Visible(r) : y.hash # x.hash
    BY DEF Valid, Exists
  <2>5. x.uuid = Null /\ x.hash # Null
    BY HashTypes
  <2> HIDE DEF x
  <2>6. \A y \in session'[r].row : y = x /\ Valid(r, t, session[r].cur)
    BY <2>2
  <2> QED BY <2>2, <2>3, <2>4, <2>5, <2>6 DEF Looked
<1>17. ASSUME UNCHANGED <<rows, session>> PROVE Looked'
  BY <1>17 DEF Looked, Visible
<1> QED
  BY <1>1, <1>2, <1>3, <1>4, <1>5, <1>6, <1>7, <1>8, <1>9, <1>10, <1>11, <1>12, <1>13, <1>14,
     <1>15, <1>16, <1>17
  DEF Next, PassStep, RequestStep, EndPass, Unwind, EndRequest, Crash, Mine, LockExpires,
      LockLapses, vars

(* The look-up of one replica settles that the INSERT passes the unique      *)
(* columns: only a value too large for its column is refused.                *)
THEOREM OneReplicaInserts ==
  ASSUME \A p, q \in Replicas : p = q
  PROVE  Spec => []InsertNeverRefused
<1>1. Init => Looked
  BY DEF Init, Looked, Idle
<1>2. Typed /\ Looked /\ [Next]_vars => Looked'
  BY LookedStep
<1>3. Looked => InsertNeverRefused
  BY DEF Looked, InsertNeverRefused, Refused, Ledgers!Clash
<1> QED BY <1>1, <1>2, <1>3, AlwaysInv, PTL DEF Spec

-----------------------------------------------------------------------------
(* What a replica does leaves the sessions of the others alone, and needs    *)
(* something to do.                                                          *)
LEMMA OwnSession ==
  ASSUME Typed, NEW r \in Replicas, PassStep(r) \/ RequestStep(r) \/ Crash(r)
  PROVE  /\ session[r].pc # "idle"
         /\ \A q \in Replicas : q # r => session'[q] = session[q]
<1>1. ASSUME NEW s, Become(r, s)
      PROVE  \A q \in Replicas : q # r => session'[q] = session[q]
  BY <1>1 DEF Become, Typed
<1>2. \E s : Become(r, s)
  BY DEF PassStep, RequestStep, Crash, EndPass, SkipLocked, SeeUnlocked, Acquire, List, ListRaises,
     Check, CheckRaises, Store, Checked, Release, Unwind, DeadlockVictim, Find, Create, EndRequest,
     Rollback, Commit
<1>3. session[r].pc # "idle"
  BY DEF PassStep, RequestStep, Crash, EndPass, SkipLocked, SeeUnlocked, Acquire, List, ListRaises,
     Check, CheckRaises, Store, Checked, Release, Unwind, DeadlockVictim, Find, Create, EndRequest
<1> QED BY <1>1, <1>2, <1>3
=============================================================================
