------------------------ MODULE EventConsumer_proofs ------------------------
(***************************************************************************)
(* Theorems about EventConsumer for any number of transactions, of scans   *)
(* and any threshold, through broker, database, cache and process faults.  *)
(* The properties speak of what a worker has done; the invariant ties that *)
(* to where the worker is, separately for the two kinds of workers, since  *)
(* they pass the same code in a different order.                           *)
(***************************************************************************)
EXTENDS EventConsumer, TLAPS

\* A transaction that is not stored has no handler yet.
HandlerHasTx == \A t \in Tx : tx[t] = "absent" => worker[t].pc = "idle"

\* A handler does not run the scan's code; it carries the transaction's
\* notification until it has created a subscription, and that one after.
HandlerOrder ==
    \A t \in Tx :
        /\ worker[t].pc \notin {"scan", "match", "update", "publish"}
        /\ worker[t].pc \in {"idle", "queued", "fetch", "cooldown", "claim",
                             "history", "existing", "create"}
             => worker[t].note = "transaction"
        /\ worker[t].note = "transaction"
             => sub[t] = "none" /\ rows[t]["subscription"] = 0

\* A scan does not run the detection of a handler, and what it notifies about
\* is a subscription; it creates one at the most, before it publishes.
ScanOrder ==
    \A s \in Scan :
        /\ worker[s].note = "subscription"
        /\ worker[s].pc \notin {"cooldown", "claim", "history", "existing"}
        /\ worker[s].pc \in {"idle", "match", "create"} => sub[s] = "none"
        /\ rows[s]["transaction"] = 0
        /\ worker[s].pc \notin {"request", "done"}
             => rows[s]["subscription"] = 0

\* The row of a notification is not there before the step that writes it.
RowNotAhead ==
    \A t \in Tx :
        worker[t].pc \in {"idle", "queued", "fetch", "notify", "row"}
            => rows[t][worker[t].note] = 0

\* What a handler owes it carries through the notification of its transaction,
\* up to the cooldown.
OwedOnWay ==
    \A t \in Tx : t \in owed =>
        /\ worker[t].pc \in {"notify", "row", "request", "cooldown"}
        /\ worker[t].note = "transaction"

\* A request follows a row that nothing has repeated so far.
RequestFollowsRow ==
    \A p \in Worker : worker[p].pc = "request" =>
        /\ rows[p][worker[p].note] = 1
        /\ queue[p][worker[p].note] = 0
        /\ copies[p][worker[p].note] = 0

IInv ==
    /\ TypeOK
    /\ HandlerHasTx
    /\ HandlerOrder
    /\ ScanOrder
    /\ RowNotAhead
    /\ OwedOnWay
    /\ RequestFollowsRow
    /\ ToldAndCopiedOnce

-----------------------------------------------------------------------------

\* Before anything is announced nobody is told anything.
LEMMA InitIInv == Init => IInv
<1> SUFFICES ASSUME Init PROVE IInv
    OBVIOUS
<1> USE ConsumerAssumption DEF Init, Worker, Note
<1>1. TypeOK
    BY DEF TypeOK, Pc
<1>2. HandlerHasTx /\ HandlerOrder /\ ScanOrder
    BY DEF HandlerHasTx, HandlerOrder, ScanOrder
<1>3. RowNotAhead /\ OwedOnWay /\ RequestFollowsRow /\ ToldAndCopiedOnce
    BY DEF RowNotAhead, OwedOnWay, RequestFollowsRow, ToldAndCopiedOnce
<1> QED
    BY <1>1, <1>2, <1>3 DEF IInv

WorkerType == [Worker -> [pc : Pc, note : Note, about : Worker \cup {NoSub}]]

\* After names two places of a handler.
LEMMA AfterType == ASSUME NEW p \in Worker PROVE After(p) \in {"cooldown", "done"}
BY DEF After

\* Going somewhere keeps the workers' types.
LEMMA GotoType ==
    ASSUME worker \in WorkerType, NEW p \in Worker, NEW pc \in Pc, Goto(p, pc)
    PROVE  worker' \in WorkerType
BY DEF WorkerType, Goto

\* Every step keeps the types.
LEMMA TypeStep ==
    ASSUME TypeOK, [Next]_vars PROVE TypeOK'
<1>0. worker \in WorkerType /\ (TypeOK' <=>
        /\ tx' \in [Tx -> {"absent", "live", "deleted"}]
        /\ sub' \in [Worker -> {"none", "active", "inactive", "deleted"}]
        /\ cooldown' \in BOOLEAN
        /\ worker' \in WorkerType
        /\ rows' \in [Worker -> [Note -> Nat]]
        /\ queue' \in [Worker -> [Note -> Nat]]
        /\ copies' \in [Worker -> [Note -> Nat]]
        /\ owed' \in SUBSET Tx)
    BY DEF TypeOK, WorkerType
<1> USE ConsumerAssumption, <1>0 DEF TypeOK
<1>1. ASSUME NEW t \in Tx, Create(t) PROVE TypeOK'
  <2>1. tx' \in [Tx -> {"absent", "live", "deleted"}]
    BY <1>1 DEF Create
  <2>2. worker' \in WorkerType
    BY <1>1, GotoType DEF Create, Pc, Worker
  <2> QED
    BY <1>1, <2>1, <2>2 DEF Create
<1>2. ASSUME NEW t \in Tx, DeleteTx(t) PROVE TypeOK'
    BY <1>2 DEF DeleteTx
<1>3. ASSUME NEW s \in Scan, StartScan(s) PROVE TypeOK'
  <2>1. \E pc \in Pc : Goto(s, pc)
    BY <1>3, AfterType DEF StartScan, Pc
  <2>2. worker' \in WorkerType
    BY <2>1, GotoType DEF Worker
  <2> QED
    BY <1>3, <2>2 DEF StartScan
<1>4. ASSUME NEW p \in Worker, Take(p) PROVE TypeOK'
  <2>1. \E pc \in Pc : Goto(p, pc)
    BY <1>4, AfterType DEF Take, Pc
  <2>2. worker' \in WorkerType
    BY <2>1, GotoType
  <2> QED
    BY <1>4, <2>2 DEF Take
<1>5. ASSUME NEW p \in Worker, Fetch(p) PROVE TypeOK'
  <2>1. \E pc \in Pc : Goto(p, pc)
    BY <1>5, AfterType DEF Fetch, Pc
  <2>2. worker' \in WorkerType
    BY <2>1, GotoType
  <2>3. owed' \in SUBSET Tx
    BY <1>5 DEF Fetch
  <2> QED
    BY <1>5, <2>2, <2>3 DEF Fetch
<1>6. ASSUME NEW p \in Worker, Notify(p) PROVE TypeOK'
  <2>1. \E pc \in Pc : Goto(p, pc)
    BY <1>6, AfterType DEF Notify, Pc
  <2>2. worker' \in WorkerType
    BY <2>1, GotoType
  <2> QED
    BY <1>6, <2>2 DEF Notify
<1>7. ASSUME NEW p \in Worker, Row(p) PROVE TypeOK'
  <2>1. \E pc \in Pc : Goto(p, pc)
    BY <1>7, AfterType DEF Row, Pc
  <2>2. worker' \in WorkerType
    BY <2>1, GotoType
  <2>3. rows' \in [Worker -> [Note -> Nat]]
    BY <1>7 DEF Row
  <2> QED
    BY <1>7, <2>2, <2>3 DEF Row
<1>8. ASSUME NEW p \in Worker, Request(p) PROVE TypeOK'
  <2>1. \E pc \in Pc : Goto(p, pc)
    BY <1>8, AfterType DEF Request, Pc
  <2>2. worker' \in WorkerType
    BY <2>1, GotoType
  <2>3. queue' \in [Worker -> [Note -> Nat]]
    <3>1. CASE UNCHANGED queue
      BY <3>1 DEF TypeOK
    <3>2. CASE queue' = [queue EXCEPT ![p][worker[p].note] = @ + 1]
      <4>1. worker[p].note \in Note
        BY <1>0 DEF WorkerType
      <4> QED
        BY <3>2, <4>1 DEF TypeOK
    <3> QED
      BY <1>8, <3>1, <3>2 DEF Request
  <2> QED
    BY <1>8, <2>2, <2>3 DEF Request
<1>9. ASSUME NEW p \in Worker, Cooldown(p) PROVE TypeOK'
  <2>1. \E pc \in Pc : Goto(p, pc)
    BY <1>9, AfterType DEF Cooldown, Pc
  <2>2. worker' \in WorkerType
    BY <2>1, GotoType
  <2>3. owed' \in SUBSET Tx
    BY <1>9 DEF Cooldown
  <2> QED
    BY <1>9, <2>2, <2>3 DEF Cooldown
<1>10. ASSUME NEW p \in Worker, Claim(p) PROVE TypeOK'
  <2>1. \E pc \in Pc : Goto(p, pc)
    BY <1>10, AfterType DEF Claim, Pc
  <2>2. worker' \in WorkerType
    BY <2>1, GotoType
  <2>3. cooldown' \in BOOLEAN
    BY <1>10 DEF Claim
  <2> QED
    BY <1>10, <2>2, <2>3 DEF Claim
<1>11. ASSUME NEW p \in Worker, History(p) PROVE TypeOK'
  <2>1. \E pc \in Pc : Goto(p, pc)
    BY <1>11, AfterType DEF History, Pc
  <2>2. worker' \in WorkerType
    BY <2>1, GotoType
  <2> QED
    BY <1>11, <2>2 DEF History
<1>12. ASSUME NEW p \in Worker, Existing(p) PROVE TypeOK'
  <2>1. \E pc \in Pc : Goto(p, pc)
    BY <1>12, AfterType DEF Existing, Pc
  <2>2. worker' \in WorkerType
    BY <2>1, GotoType
  <2> QED
    BY <1>12, <2>2 DEF Existing
<1>13. ASSUME NEW p \in Worker, CreateSub(p) PROVE TypeOK'
  <2>1. worker' \in WorkerType
    BY <1>13 DEF CreateSub, WorkerType, Pc, Note
  <2>2. sub' \in [Worker -> {"none", "active", "inactive", "deleted"}]
    BY <1>13 DEF CreateSub
  <2> QED
    BY <1>13, <2>1, <2>2 DEF CreateSub
<1>14. ASSUME NEW p \in Worker, Match(p) PROVE TypeOK'
  <2>1. CASE Goto(p, "create")
    <3>1. worker' \in WorkerType
      BY <2>1, GotoType DEF Pc
    <3> QED
      BY <1>14, <3>1 DEF Match
  <2>2. CASE ~Goto(p, "create")
    <3>1. PICK m \in Stored : worker' = [worker EXCEPT ![p] =
              [pc |-> "update", note |-> "subscription", about |-> m]]
      BY <1>14, <2>2 DEF Match
    <3>2. m \in Worker
      BY DEF Stored
    <3>3. [pc |-> "update", note |-> "subscription", about |-> m]
             \in [pc : Pc, note : Note, about : Worker \cup {NoSub}]
      BY <3>2 DEF Pc, Note
    <3>4. worker' \in WorkerType
      BY <3>1, <3>3 DEF WorkerType
    <3> QED
      BY <1>14, <3>4 DEF Match
  <2> QED
    BY <2>1, <2>2
<1>15. ASSUME NEW p \in Worker, Update(p) PROVE TypeOK'
  <2>1. \E pc \in Pc : Goto(p, pc)
    BY <1>15, AfterType DEF Update, Pc
  <2>2. worker' \in WorkerType
    BY <2>1, GotoType
  <2> QED
    BY <1>15, <2>2 DEF Update
<1>16. ASSUME NEW p \in Worker, Publish(p) PROVE TypeOK'
  <2>1. \E pc \in Pc : Goto(p, pc)
    BY <1>16, AfterType DEF Publish, Pc
  <2>2. worker' \in WorkerType
    BY <2>1, GotoType
  <2> QED
    BY <1>16, <2>2 DEF Publish
<1>17. ASSUME NEW p \in Worker, TakeDetected(p) PROVE TypeOK'
  <2>1. \E pc \in Pc : Goto(p, pc)
    BY <1>17, AfterType DEF TakeDetected, Pc
  <2>2. worker' \in WorkerType
    BY <2>1, GotoType
  <2> QED
    BY <1>17, <2>2 DEF TakeDetected
<1>18. ASSUME NEW p \in Worker, FetchDetected(p) PROVE TypeOK'
  <2>1. \E pc \in Pc : Goto(p, pc)
    BY <1>18, AfterType DEF FetchDetected, Pc
  <2>2. worker' \in WorkerType
    BY <2>1, GotoType
  <2> QED
    BY <1>18, <2>2 DEF FetchDetected
<1>19. ASSUME NEW p \in Worker, Manage(p) PROVE TypeOK'
    BY <1>19 DEF Manage
<1>20. ASSUME NEW p \in Worker, DatabaseError(p) PROVE TypeOK'
  <2>1. \E pc \in Pc : Goto(p, pc)
    BY <1>20, AfterType DEF DatabaseError, Pc
  <2>2. worker' \in WorkerType
    BY <2>1, GotoType
  <2> QED
    BY <1>20, <2>2 DEF DatabaseError
<1>21. ASSUME NEW p \in Worker, Crash(p) PROVE TypeOK'
  <2>1. \E pc \in Pc : Goto(p, pc)
    BY <1>21, AfterType DEF Crash, Pc
  <2>2. worker' \in WorkerType
    BY <2>1, GotoType
  <2> QED
    BY <1>21, <2>2 DEF Crash
<1>22. CASE CooldownExpires
    BY <1>22 DEF CooldownExpires
<1>23. ASSUME NEW p \in Worker, NEW note \in Note, Copy(p, note) PROVE TypeOK'
  <2>1. queue' \in [Worker -> [Note -> Nat]]
    BY <1>23 DEF Copy
  <2>2. copies' \in [Worker -> [Note -> Nat]]
    <3>1. CASE copies' = [copies EXCEPT ![p][note] = @ + 1]
      BY <3>1 DEF TypeOK
    <3>2. CASE UNCHANGED copies
      BY <3>2 DEF TypeOK
    <3> QED
      BY <1>23, <3>1, <3>2 DEF Copy
  <2> QED
    BY <1>23, <2>1, <2>2 DEF Copy
<1>24. CASE UNCHANGED vars
    BY <1>24 DEF vars
<1> QED
    BY <1>1, <1>2, <1>3, <1>4, <1>5, <1>6, <1>7, <1>8, <1>9, <1>10, <1>11,
       <1>12, <1>13, <1>14, <1>15, <1>16, <1>17, <1>18, <1>19, <1>20, <1>21,
       <1>22, <1>23, <1>24 DEF Next, Step, Worker

\* The types that the order of the handlers' steps rests on.
CoreTypes ==
    /\ tx \in [Tx -> {"absent", "live", "deleted"}]
    /\ sub \in [Worker -> {"none", "active", "inactive", "deleted"}]
    /\ worker \in WorkerType
    /\ rows \in [Worker -> [Note -> Nat]]

LEMMA CoreTyped == ASSUME TypeOK PROVE CoreTypes
BY DEF TypeOK, CoreTypes, WorkerType

\* Only Create starts a handler, and it stores the row first.
LEMMA HandlerHasTxStep ==
    ASSUME TypeOK, HandlerHasTx, [Next]_vars PROVE HandlerHasTx'
<1> USE ConsumerAssumption, CoreTyped DEF CoreTypes, WorkerType, Worker, HandlerHasTx
<1>1. ASSUME NEW t \in Tx, Create(t) PROVE HandlerHasTx'
    BY <1>1 DEF Create, Goto
<1>2. ASSUME NEW t \in Tx, DeleteTx(t) PROVE HandlerHasTx'
    BY <1>2 DEF DeleteTx
<1>3. ASSUME NEW s \in Scan, StartScan(s) PROVE HandlerHasTx'
    BY <1>3 DEF StartScan, Goto
<1>4. ASSUME NEW p \in Worker, Take(p) PROVE HandlerHasTx'
    BY <1>4 DEF Take, Goto
<1>5. ASSUME NEW p \in Worker, Fetch(p) PROVE HandlerHasTx'
    BY <1>5 DEF Fetch, Goto
<1>6. ASSUME NEW p \in Worker, Notify(p) PROVE HandlerHasTx'
    BY <1>6 DEF Notify, After, Goto
<1>7. ASSUME NEW p \in Worker, Row(p) PROVE HandlerHasTx'
    BY <1>7 DEF Row, After, Goto
<1>8. ASSUME NEW p \in Worker, Request(p) PROVE HandlerHasTx'
    BY <1>8 DEF Request, After, Goto
<1>9. ASSUME NEW p \in Worker, Cooldown(p) PROVE HandlerHasTx'
    BY <1>9 DEF Cooldown, Goto
<1>10. ASSUME NEW p \in Worker, Claim(p) PROVE HandlerHasTx'
    BY <1>10 DEF Claim, Goto
<1>11. ASSUME NEW p \in Worker, History(p) PROVE HandlerHasTx'
    BY <1>11 DEF History, Goto
<1>12. ASSUME NEW p \in Worker, Existing(p) PROVE HandlerHasTx'
    BY <1>12 DEF Existing, Goto
<1>13. ASSUME NEW p \in Worker, CreateSub(p) PROVE HandlerHasTx'
    BY <1>13 DEF CreateSub
<1>14. ASSUME NEW p \in Worker, Match(p) PROVE HandlerHasTx'
    BY <1>14 DEF Match, Goto
<1>15. ASSUME NEW p \in Worker, Update(p) PROVE HandlerHasTx'
    BY <1>15 DEF Update, Goto
<1>16. ASSUME NEW p \in Worker, Publish(p) PROVE HandlerHasTx'
    BY <1>16 DEF Publish, Goto
<1>17. ASSUME NEW p \in Worker, TakeDetected(p) PROVE HandlerHasTx'
    BY <1>17 DEF TakeDetected, Goto
<1>18. ASSUME NEW p \in Worker, FetchDetected(p) PROVE HandlerHasTx'
    BY <1>18 DEF FetchDetected, Goto
<1>19. ASSUME NEW p \in Worker, Manage(p) PROVE HandlerHasTx'
    BY <1>19 DEF Manage
<1>20. ASSUME NEW p \in Worker, DatabaseError(p) PROVE HandlerHasTx'
    BY <1>20 DEF DatabaseError, After, Goto
<1>21. ASSUME NEW p \in Worker, Crash(p) PROVE HandlerHasTx'
    BY <1>21 DEF Crash, Goto
<1>22. CASE CooldownExpires
    BY <1>22 DEF CooldownExpires
<1>23. ASSUME NEW p \in Worker, NEW note \in Note, Copy(p, note) PROVE HandlerHasTx'
    BY <1>23 DEF Copy
<1>24. CASE UNCHANGED vars
    BY <1>24 DEF vars
<1> QED
    BY <1>1, <1>2, <1>3, <1>4, <1>5, <1>6, <1>7, <1>8, <1>9, <1>10, <1>11,
       <1>12, <1>13, <1>14, <1>15, <1>16, <1>17, <1>18, <1>19, <1>20, <1>21,
       <1>22, <1>23, <1>24 DEF Next, Step

\* The notification about a new subscription comes after its creation, and
\* a handler creates one at the most.
LEMMA HandlerOrderStep ==
    ASSUME TypeOK, HandlerHasTx, HandlerOrder, [Next]_vars PROVE HandlerOrder'
<1> USE ConsumerAssumption, CoreTyped DEF CoreTypes, WorkerType, Worker, Note, HandlerHasTx, HandlerOrder, Stored
<1>1. ASSUME NEW t \in Tx, Create(t) PROVE HandlerOrder'
    BY <1>1 DEF Create, Goto
<1>2. ASSUME NEW t \in Tx, DeleteTx(t) PROVE HandlerOrder'
    BY <1>2 DEF DeleteTx
<1>3. ASSUME NEW s \in Scan, StartScan(s) PROVE HandlerOrder'
    BY <1>3 DEF StartScan, Goto
<1>4. ASSUME NEW p \in Worker, Take(p) PROVE HandlerOrder'
    BY <1>4 DEF Take, Goto
<1>5. ASSUME NEW p \in Worker, Fetch(p) PROVE HandlerOrder'
  <2>1. CASE Goto(p, "notify")
      BY <1>5, <2>1 DEF Fetch, Goto
  <2>2. CASE Goto(p, "done")
      BY <1>5, <2>2 DEF Fetch, Goto
  <2> QED
      BY <1>5, <2>1, <2>2 DEF Fetch
<1>6. ASSUME NEW p \in Worker, Notify(p) PROVE HandlerOrder'
    BY <1>6 DEF Notify, After, Goto
<1>7. ASSUME NEW p \in Worker, Row(p) PROVE HandlerOrder'
    BY <1>7 DEF Row, After, Goto
<1>8. ASSUME NEW p \in Worker, Request(p) PROVE HandlerOrder'
    BY <1>8 DEF Request, After, Goto
<1>9. ASSUME NEW p \in Worker, Cooldown(p) PROVE HandlerOrder'
  <2>1. CASE Goto(p, "done")
      BY <1>9, <2>1 DEF Cooldown, Goto
  <2>2. CASE Goto(p, "claim")
      BY <1>9, <2>2 DEF Cooldown, Goto
  <2> QED
      BY <1>9, <2>1, <2>2 DEF Cooldown
<1>10. ASSUME NEW p \in Worker, Claim(p) PROVE HandlerOrder'
    BY <1>10 DEF Claim, Goto
<1>11. ASSUME NEW p \in Worker, History(p) PROVE HandlerOrder'
    BY <1>11 DEF History, Goto
<1>12. ASSUME NEW p \in Worker, Existing(p) PROVE HandlerOrder'
  <2>1. CASE Goto(p, "done")
      BY <1>12, <2>1 DEF Existing, Goto
  <2>2. CASE Goto(p, "create")
      BY <1>12, <2>2 DEF Existing, Goto
  <2> QED
      BY <1>12, <2>1, <2>2 DEF Existing
<1>13. ASSUME NEW p \in Worker, CreateSub(p) PROVE HandlerOrder'
    BY <1>13 DEF CreateSub
<1>14. ASSUME NEW p \in Worker, Match(p) PROVE HandlerOrder'
  <2>1. CASE Goto(p, "create")
      BY <1>14, <2>1 DEF Match, Goto
  <2>2. CASE ~ Goto(p, "create")
      BY <1>14, <2>2 DEF Match
  <2> QED
      BY <2>1, <2>2
<1>15. ASSUME NEW p \in Worker, Update(p) PROVE HandlerOrder'
    BY <1>15 DEF Update, Goto
<1>16. ASSUME NEW p \in Worker, Publish(p) PROVE HandlerOrder'
    BY <1>16 DEF Publish, Goto
<1>17. ASSUME NEW p \in Worker, TakeDetected(p) PROVE HandlerOrder'
    BY <1>17 DEF TakeDetected, Goto
<1>18. ASSUME NEW p \in Worker, FetchDetected(p) PROVE HandlerOrder'
    BY <1>18 DEF FetchDetected, Goto
<1>19. ASSUME NEW p \in Worker, Manage(p) PROVE HandlerOrder'
    BY <1>19 DEF Manage
<1>20. ASSUME NEW p \in Worker, DatabaseError(p) PROVE HandlerOrder'
  <2>1. CASE Goto(p, After(p))
      BY <1>20, <2>1 DEF DatabaseError, After, Goto
  <2>2. CASE Goto(p, "done")
      BY <1>20, <2>2 DEF DatabaseError, Goto
  <2> QED
      BY <1>20, <2>1, <2>2 DEF DatabaseError
<1>21. ASSUME NEW p \in Worker, Crash(p) PROVE HandlerOrder'
    BY <1>21 DEF Crash, Goto
<1>22. CASE CooldownExpires
    BY <1>22 DEF CooldownExpires
<1>23. ASSUME NEW p \in Worker, NEW note \in Note, Copy(p, note) PROVE HandlerOrder'
    BY <1>23 DEF Copy
<1>24. CASE UNCHANGED vars
    BY <1>24 DEF vars
<1> QED
    BY <1>1, <1>2, <1>3, <1>4, <1>5, <1>6, <1>7, <1>8, <1>9, <1>10, <1>11,
       <1>12, <1>13, <1>14, <1>15, <1>16, <1>17, <1>18, <1>19, <1>20, <1>21,
       <1>22, <1>23, <1>24 DEF Next, Step

\* A scan passes the creation, the event and the notification in this order.
LEMMA ScanOrderStep ==
    ASSUME TypeOK, ScanOrder, [Next]_vars PROVE ScanOrder'
<1> USE ConsumerAssumption, CoreTyped DEF CoreTypes, WorkerType, Worker, Note, ScanOrder, Stored
<1>1. ASSUME NEW t \in Tx, Create(t) PROVE ScanOrder'
  <2>1. CASE Goto(t, "queued")
      BY <1>1, <2>1 DEF Create, Goto
  <2>2. CASE UNCHANGED worker
      BY <1>1, <2>2 DEF Create
  <2> QED
      BY <1>1, <2>1, <2>2 DEF Create
<1>2. ASSUME NEW t \in Tx, DeleteTx(t) PROVE ScanOrder'
    BY <1>2 DEF DeleteTx
<1>3. ASSUME NEW s \in Scan, StartScan(s) PROVE ScanOrder'
    BY <1>3 DEF StartScan, Goto
<1>4. ASSUME NEW p \in Worker, Take(p) PROVE ScanOrder'
    BY <1>4 DEF Take, Goto
<1>5. ASSUME NEW p \in Worker, Fetch(p) PROVE ScanOrder'
    BY <1>5 DEF Fetch, Goto
<1>6. ASSUME NEW p \in Worker, Notify(p) PROVE ScanOrder'
    BY <1>6 DEF Notify, After, Goto
<1>7. ASSUME NEW p \in Worker, Row(p) PROVE ScanOrder'
    BY <1>7 DEF Row, After, Goto
<1>8. ASSUME NEW p \in Worker, Request(p) PROVE ScanOrder'
    BY <1>8 DEF Request, After, Goto
<1>9. ASSUME NEW p \in Worker, Cooldown(p) PROVE ScanOrder'
  <2>1. CASE Goto(p, "done")
      BY <1>9, <2>1 DEF Cooldown, Goto
  <2>2. CASE Goto(p, "claim")
      BY <1>9, <2>2 DEF Cooldown, Goto
  <2> QED
      BY <1>9, <2>1, <2>2 DEF Cooldown
<1>10. ASSUME NEW p \in Worker, Claim(p) PROVE ScanOrder'
    BY <1>10 DEF Claim, Goto
<1>11. ASSUME NEW p \in Worker, History(p) PROVE ScanOrder'
    BY <1>11 DEF History, Goto
<1>12. ASSUME NEW p \in Worker, Existing(p) PROVE ScanOrder'
  <2>1. CASE Goto(p, "done")
      BY <1>12, <2>1 DEF Existing, Goto
  <2>2. CASE Goto(p, "create")
      BY <1>12, <2>2 DEF Existing, Goto
  <2> QED
      BY <1>12, <2>1, <2>2 DEF Existing
<1>13. ASSUME NEW p \in Worker, CreateSub(p) PROVE ScanOrder'
    BY <1>13 DEF CreateSub
<1>14. ASSUME NEW p \in Worker, Match(p) PROVE ScanOrder'
    BY <1>14 DEF Match, Goto
<1>15. ASSUME NEW p \in Worker, Update(p) PROVE ScanOrder'
    BY <1>15 DEF Update, Goto
<1>16. ASSUME NEW p \in Worker, Publish(p) PROVE ScanOrder'
    BY <1>16 DEF Publish, Goto
<1>17. ASSUME NEW p \in Worker, TakeDetected(p) PROVE ScanOrder'
    BY <1>17 DEF TakeDetected, Goto
<1>18. ASSUME NEW p \in Worker, FetchDetected(p) PROVE ScanOrder'
    BY <1>18 DEF FetchDetected, Goto
<1>19. ASSUME NEW p \in Worker, Manage(p) PROVE ScanOrder'
    BY <1>19 DEF Manage
<1>20. ASSUME NEW p \in Worker, DatabaseError(p) PROVE ScanOrder'
    BY <1>20 DEF DatabaseError, After, Goto
<1>21. ASSUME NEW p \in Worker, Crash(p) PROVE ScanOrder'
    BY <1>21 DEF Crash, Goto
<1>22. CASE CooldownExpires
    BY <1>22 DEF CooldownExpires
<1>23. ASSUME NEW p \in Worker, NEW note \in Note, Copy(p, note) PROVE ScanOrder'
    BY <1>23 DEF Copy
<1>24. CASE UNCHANGED vars
    BY <1>24 DEF vars
<1> QED
    BY <1>1, <1>2, <1>3, <1>4, <1>5, <1>6, <1>7, <1>8, <1>9, <1>10, <1>11,
       <1>12, <1>13, <1>14, <1>15, <1>16, <1>17, <1>18, <1>19, <1>20, <1>21,
       <1>22, <1>23, <1>24 DEF Next, Step

\* A handler writes each of its rows at Row, and leaves Row at once.
LEMMA RowNotAheadStep ==
    ASSUME TypeOK, HandlerHasTx, HandlerOrder, RowNotAhead, [Next]_vars PROVE RowNotAhead'
<1> USE ConsumerAssumption, CoreTyped DEF CoreTypes, WorkerType, Worker, Note, HandlerHasTx, HandlerOrder, RowNotAhead
<1>1. ASSUME NEW t \in Tx, Create(t) PROVE RowNotAhead'
    BY <1>1 DEF Create, Goto
<1>2. ASSUME NEW t \in Tx, DeleteTx(t) PROVE RowNotAhead'
    BY <1>2 DEF DeleteTx
<1>3. ASSUME NEW s \in Scan, StartScan(s) PROVE RowNotAhead'
    BY <1>3 DEF StartScan, Goto
<1>4. ASSUME NEW p \in Worker, Take(p) PROVE RowNotAhead'
    BY <1>4 DEF Take, Goto
<1>5. ASSUME NEW p \in Worker, Fetch(p) PROVE RowNotAhead'
    BY <1>5 DEF Fetch, Goto
<1>6. ASSUME NEW p \in Worker, Notify(p) PROVE RowNotAhead'
  <2>1. CASE Goto(p, "row")
    BY <1>6, <2>1 DEF Notify, Goto
  <2>2. CASE Goto(p, After(p))
    BY <1>6, <2>2 DEF Notify, After, Goto
  <2> QED
    BY <1>6, <2>1, <2>2 DEF Notify
<1>7. ASSUME NEW p \in Worker, Row(p) PROVE RowNotAhead'
    BY <1>7 DEF Row, After, Goto
<1>8. ASSUME NEW p \in Worker, Request(p) PROVE RowNotAhead'
    BY <1>8 DEF Request, After, Goto
<1>9. ASSUME NEW p \in Worker, Cooldown(p) PROVE RowNotAhead'
    BY <1>9 DEF Cooldown, Goto
<1>10. ASSUME NEW p \in Worker, Claim(p) PROVE RowNotAhead'
    BY <1>10 DEF Claim, Goto
<1>11. ASSUME NEW p \in Worker, History(p) PROVE RowNotAhead'
    BY <1>11 DEF History, Goto
<1>12. ASSUME NEW p \in Worker, Existing(p) PROVE RowNotAhead'
    BY <1>12 DEF Existing, Goto
<1>13. ASSUME NEW p \in Worker, CreateSub(p) PROVE RowNotAhead'
    BY <1>13 DEF CreateSub
<1>14. ASSUME NEW p \in Worker, Match(p) PROVE RowNotAhead'
    BY <1>14 DEF Match, Goto
<1>15. ASSUME NEW p \in Worker, Update(p) PROVE RowNotAhead'
    BY <1>15 DEF Update, Goto
<1>16. ASSUME NEW p \in Worker, Publish(p) PROVE RowNotAhead'
    BY <1>16 DEF Publish, Goto
<1>17. ASSUME NEW p \in Worker, TakeDetected(p) PROVE RowNotAhead'
    BY <1>17 DEF TakeDetected, Goto
<1>18. ASSUME NEW p \in Worker, FetchDetected(p) PROVE RowNotAhead'
    BY <1>18 DEF FetchDetected, Goto
<1>19. ASSUME NEW p \in Worker, Manage(p) PROVE RowNotAhead'
    BY <1>19 DEF Manage
<1>20. ASSUME NEW p \in Worker, DatabaseError(p) PROVE RowNotAhead'
    BY <1>20 DEF DatabaseError, After, Goto
<1>21. ASSUME NEW p \in Worker, Crash(p) PROVE RowNotAhead'
    BY <1>21 DEF Crash, Goto
<1>22. CASE CooldownExpires
    BY <1>22 DEF CooldownExpires
<1>23. ASSUME NEW p \in Worker, NEW note \in Note, Copy(p, note) PROVE RowNotAhead'
    BY <1>23 DEF Copy
<1>24. CASE UNCHANGED vars
    BY <1>24 DEF vars
<1> QED
    BY <1>1, <1>2, <1>3, <1>4, <1>5, <1>6, <1>7, <1>8, <1>9, <1>10, <1>11,
       <1>12, <1>13, <1>14, <1>15, <1>16, <1>17, <1>18, <1>19, <1>20, <1>21,
       <1>22, <1>23, <1>24 DEF Next, Step

\* Whatever becomes of its notification, a handler goes on to the cooldown.
LEMMA OwedOnWayStep ==
    ASSUME TypeOK, HandlerHasTx, HandlerOrder, RowNotAhead, OwedOnWay, [Next]_vars PROVE OwedOnWay'
<1> USE ConsumerAssumption, CoreTyped DEF CoreTypes, WorkerType, Worker, Note, HandlerHasTx, HandlerOrder,
    RowNotAhead, OwedOnWay
<1>1. ASSUME NEW t \in Tx, Create(t) PROVE OwedOnWay'
    BY <1>1 DEF Create, Goto
<1>2. ASSUME NEW t \in Tx, DeleteTx(t) PROVE OwedOnWay'
    BY <1>2 DEF DeleteTx
<1>3. ASSUME NEW s \in Scan, StartScan(s) PROVE OwedOnWay'
    BY <1>3 DEF StartScan, Goto
<1>4. ASSUME NEW p \in Worker, Take(p) PROVE OwedOnWay'
    BY <1>4 DEF Take, Goto
<1>5. ASSUME NEW p \in Worker, Fetch(p) PROVE OwedOnWay'
    BY <1>5 DEF Fetch, Goto
<1>6. ASSUME NEW p \in Worker, Notify(p) PROVE OwedOnWay'
    BY <1>6 DEF Notify, After, Goto
<1>7. ASSUME NEW p \in Worker, Row(p) PROVE OwedOnWay'
    BY <1>7 DEF Row, After, Goto
<1>8. ASSUME NEW p \in Worker, Request(p) PROVE OwedOnWay'
    BY <1>8 DEF Request, After, Goto
<1>9. ASSUME NEW p \in Worker, Cooldown(p) PROVE OwedOnWay'
    BY <1>9 DEF Cooldown, Goto
<1>10. ASSUME NEW p \in Worker, Claim(p) PROVE OwedOnWay'
    BY <1>10 DEF Claim, Goto
<1>11. ASSUME NEW p \in Worker, History(p) PROVE OwedOnWay'
    BY <1>11 DEF History, Goto
<1>12. ASSUME NEW p \in Worker, Existing(p) PROVE OwedOnWay'
    BY <1>12 DEF Existing, Goto
<1>13. ASSUME NEW p \in Worker, CreateSub(p) PROVE OwedOnWay'
    BY <1>13 DEF CreateSub
<1>14. ASSUME NEW p \in Worker, Match(p) PROVE OwedOnWay'
    BY <1>14 DEF Match, Goto
<1>15. ASSUME NEW p \in Worker, Update(p) PROVE OwedOnWay'
    BY <1>15 DEF Update, Goto
<1>16. ASSUME NEW p \in Worker, Publish(p) PROVE OwedOnWay'
    BY <1>16 DEF Publish, Goto
<1>17. ASSUME NEW p \in Worker, TakeDetected(p) PROVE OwedOnWay'
    BY <1>17 DEF TakeDetected, Goto
<1>18. ASSUME NEW p \in Worker, FetchDetected(p) PROVE OwedOnWay'
    BY <1>18 DEF FetchDetected, Goto
<1>19. ASSUME NEW p \in Worker, Manage(p) PROVE OwedOnWay'
    BY <1>19 DEF Manage
<1>20. ASSUME NEW p \in Worker, DatabaseError(p) PROVE OwedOnWay'
  <2>1. CASE worker[p].pc \in {"notify", "row"}
      BY <1>20, <2>1 DEF DatabaseError, After, Goto
  <2>2. CASE worker[p].pc \notin {"notify", "row"}
      BY <1>20, <2>2 DEF DatabaseError, Goto
  <2> QED
      BY <1>20, <2>1, <2>2 DEF DatabaseError
<1>21. ASSUME NEW p \in Worker, Crash(p) PROVE OwedOnWay'
    BY <1>21 DEF Crash, Goto
<1>22. CASE CooldownExpires
    BY <1>22 DEF CooldownExpires
<1>23. ASSUME NEW p \in Worker, NEW note \in Note, Copy(p, note) PROVE OwedOnWay'
    BY <1>23 DEF Copy
<1>24. CASE UNCHANGED vars
    BY <1>24 DEF vars
<1> QED
    BY <1>1, <1>2, <1>3, <1>4, <1>5, <1>6, <1>7, <1>8, <1>9, <1>10, <1>11,
       <1>12, <1>13, <1>14, <1>15, <1>16, <1>17, <1>18, <1>19, <1>20, <1>21,
       <1>22, <1>23, <1>24 DEF Next, Step

\* The only way to the request is through the row; only the request and the
\* queue's handler count copies.
LEMMA RequestFollowsRowStep ==
    ASSUME TypeOK, ScanOrder, RowNotAhead, RequestFollowsRow, ToldAndCopiedOnce,
           [Next]_vars
    PROVE  RequestFollowsRow'
<1> USE DEF TypeOK, Worker, Note
<1>1. ASSUME NEW p \in Worker, Row(p) PROVE RequestFollowsRow'
  <2> DEFINE n == worker[p].note
  <2>1. rows[p][n] = 0
    BY <1>1 DEF Row, RowNotAhead, ScanOrder
  <2>2. queue[p][n] = 0 /\ copies[p][n] = 0
    <3>1. n \in Note
      OBVIOUS
    <3>2. queue[p][n] \in Nat /\ copies[p][n] \in Nat
      BY <3>1
    <3>3. queue[p][n] + copies[p][n] <= 0
      BY <2>1, <3>1 DEF ToldAndCopiedOnce
    <3> HIDE DEF n
    <3>4. ASSUME NEW x \in Nat, NEW y \in Nat, x + y <= 0 PROVE x = 0 /\ y = 0
      BY <3>4
    <3> QED
      BY <3>2, <3>3, <3>4
  <2>3. worker'[p].note = n /\ rows'[p][n] = 1
    BY <1>1, <2>1, AfterType DEF Row, Goto
  <2>4. ASSUME NEW q \in Worker \ {p}
        PROVE  worker'[q] = worker[q] /\ rows'[q] = rows[q]
    BY <1>1 DEF Row, Goto
  <2>5. UNCHANGED <<queue, copies>>
    BY <1>1 DEF Row
  <2> QED
    BY <2>2, <2>3, <2>4, <2>5 DEF RequestFollowsRow
<1>2. ASSUME NEW p \in Worker, Request(p) PROVE RequestFollowsRow'
  <2>1. worker'[p].pc # "request"
    BY <1>2, AfterType DEF Request, Goto
  <2>2. ASSUME NEW q \in Worker \ {p}
        PROVE  worker'[q] = worker[q] /\ queue'[q] = queue[q]
    BY <1>2 DEF Request, Goto
  <2>3. UNCHANGED <<rows, copies>>
    BY <1>2 DEF Request
  <2> QED
    BY <2>1, <2>2, <2>3 DEF RequestFollowsRow
<1>3. ASSUME NEW p \in Worker, NEW note \in Note, Copy(p, note)
      PROVE  RequestFollowsRow'
  <2>1. worker[p].pc = "request" => note # worker[p].note
    BY <1>3 DEF Copy, RequestFollowsRow
  <2>2. ASSUME NEW q \in Worker, NEW n \in Note, q # p \/ n # note
        PROVE  queue'[q][n] = queue[q][n] /\ copies'[q][n] = copies[q][n]
    BY <1>3, <2>2 DEF Copy
  <2>3. UNCHANGED <<worker, rows>>
    BY <1>3 DEF Copy
  <2> QED
    BY <2>1, <2>2, <2>3 DEF RequestFollowsRow
<1>4. ASSUME \A p \in Worker : ~Row(p) /\ ~Request(p),
             \A p \in Worker, note \in Note : ~Copy(p, note)
      PROVE  RequestFollowsRow'
  <2>1. UNCHANGED <<rows, queue, copies>>
    BY <1>4 DEF Next, Step, vars, Create, DeleteTx, StartScan, Take, Fetch, Notify,
       Cooldown, Claim, History, Existing, CreateSub, Match, Update, Publish,
       TakeDetected, FetchDetected, Manage, DatabaseError, Crash, CooldownExpires
  <2>2. ASSUME NEW q \in Worker, worker'[q].pc = "request"
        PROVE  worker'[q] = worker[q]
    <3>1. CASE UNCHANGED worker
      BY <3>1
    <3>2. CASE \E p \in Worker, pc \in Pc \ {"request"} : Goto(p, pc)
      BY <2>2, <3>2 DEF Goto
    <3>3. CASE \E p \in Worker : CreateSub(p) \/ Match(p)
      BY <2>2, <3>3 DEF CreateSub, Match, Goto, Stored
    <3>4. ASSUME \A p \in Worker : ~CreateSub(p) /\ ~Match(p), worker' # worker
          PROVE  \E p \in Worker, pc \in Pc \ {"request"} : Goto(p, pc)
      BY <1>4, <3>4, AfterType DEF Next, Step, vars, Create, DeleteTx, StartScan, Take, Fetch,
         Notify, Cooldown, Claim, History, Existing, Update, Publish, TakeDetected,
         FetchDetected, Manage, DatabaseError, Crash, CooldownExpires, Pc
    <3> QED
      BY <3>1, <3>2, <3>3, <3>4
  <2> QED
    BY <2>1, <2>2 DEF RequestFollowsRow
<1> QED
    BY <1>1, <1>2, <1>3, <1>4

\* Row writes a row that is not there yet, Request asks for a copy that nothing
\* has asked for, and the queue's handler turns a message into a row or drops it.
LEMMA ToldAndCopiedOnceStep ==
    ASSUME TypeOK, ScanOrder, RowNotAhead, RequestFollowsRow, ToldAndCopiedOnce,
           [Next]_vars
    PROVE  ToldAndCopiedOnce'
<1> USE DEF TypeOK, Worker, Note
<1>1. ASSUME NEW p \in Worker, Row(p) PROVE ToldAndCopiedOnce'
  <2>1. rows[p][worker[p].note] = 0
    BY <1>1 DEF Row, RowNotAhead, ScanOrder
  <2>2. ASSUME NEW q \in Worker, NEW n \in Note
        PROVE  rows'[q][n] = IF q = p /\ n = worker[p].note THEN 1 ELSE rows[q][n]
    BY <1>1, <2>1 DEF Row
  <2>3. UNCHANGED <<queue, copies>>
    BY <1>1 DEF Row
  <2> QED
    BY <2>1, <2>2, <2>3 DEF ToldAndCopiedOnce
<1>2. ASSUME NEW p \in Worker, Request(p) PROVE ToldAndCopiedOnce'
  <2> DEFINE n0 == worker[p].note
  <2>1. rows[p][n0] = 1 /\ queue[p][n0] = 0 /\ copies[p][n0] = 0
    BY <1>2 DEF Request, RequestFollowsRow
  <2>2. ASSUME NEW q \in Worker, NEW n \in Note
        PROVE  \/ queue'[q][n] = queue[q][n]
               \/ q = p /\ n = n0 /\ queue'[q][n] = 1
    BY <1>2, <2>1 DEF Request
  <2>3. UNCHANGED <<rows, copies>>
    BY <1>2 DEF Request
  <2> SUFFICES ASSUME NEW q \in Worker, NEW n \in Note
               PROVE  queue'[q][n] + copies'[q][n] <= rows'[q][n] /\ rows'[q][n] <= 1
    BY DEF ToldAndCopiedOnce
  <2>4. CASE queue'[q][n] = queue[q][n]
    BY <2>3, <2>4 DEF ToldAndCopiedOnce
  <2>5. CASE q = p /\ n = n0 /\ queue'[q][n] = 1
    BY <2>1, <2>3, <2>5
  <2> QED
    BY <2>2, <2>4, <2>5
<1>3. ASSUME NEW p \in Worker, NEW note \in Note, Copy(p, note)
      PROVE  ToldAndCopiedOnce'
  <2>1. ASSUME NEW q \in Worker, NEW n \in Note
        PROVE  queue'[q][n] + copies'[q][n] <= queue[q][n] + copies[q][n]
    <3>1. queue[q][n] \in Nat /\ copies[q][n] \in Nat
      OBVIOUS
    <3>2. CASE q = p /\ n = note
      <4>1. queue'[q][n] = queue[q][n] - 1
        BY <1>3, <3>2 DEF Copy
      <4>2. copies'[q][n] = copies[q][n] + 1 \/ copies'[q][n] = copies[q][n]
        BY <1>3, <3>2 DEF Copy
      <4> QED
        BY <3>1, <4>1, <4>2
    <3>3. CASE q # p \/ n # note
      BY <1>3, <3>1, <3>3 DEF Copy
    <3> QED
      BY <3>2, <3>3
  <2>2. ASSUME NEW q \in Worker, NEW n \in Note
        PROVE  /\ rows'[q][n] = rows[q][n]
               /\ rows[q][n] \in Nat /\ queue[q][n] \in Nat /\ copies[q][n] \in Nat
               /\ queue'[q][n] \in Nat /\ copies'[q][n] \in Nat
    <3>1. CASE q = p /\ n = note
      BY <1>3, <3>1 DEF Copy
    <3>2. CASE q # p \/ n # note
      BY <1>3, <3>2 DEF Copy
    <3> QED
      BY <3>1, <3>2
  <2> SUFFICES ASSUME NEW q \in Worker, NEW n \in Note
               PROVE  /\ queue'[q][n] + copies'[q][n] <= rows'[q][n]
                      /\ rows'[q][n] <= 1
    BY DEF ToldAndCopiedOnce
  <2>3. queue[q][n] + copies[q][n] <= rows[q][n] /\ rows[q][n] <= 1
    BY DEF ToldAndCopiedOnce
  <2> QED
    BY <2>1, <2>2, <2>3
<1>4. ASSUME \A p \in Worker : ~Row(p) /\ ~Request(p),
             \A p \in Worker, note \in Note : ~Copy(p, note)
      PROVE  UNCHANGED <<rows, queue, copies>>
    BY <1>4 DEF Next, Step, vars, Create, DeleteTx, StartScan, Take, Fetch, Notify,
       Cooldown, Claim, History, Existing, CreateSub, Match, Update, Publish,
       TakeDetected, FetchDetected, Manage, DatabaseError, Crash, CooldownExpires
<1> QED
    BY <1>1, <1>2, <1>3, <1>4 DEF ToldAndCopiedOnce

-----------------------------------------------------------------------------
(* The theorems *)

\* The inductive invariant holds in every reachable state.
THEOREM Invariance == Spec => []IInv
<1>1. IInv /\ [Next]_vars => IInv'
    BY TypeStep, HandlerHasTxStep, HandlerOrderStep, ScanOrderStep, RowNotAheadStep,
       OwedOnWayStep, RequestFollowsRowStep, ToldAndCopiedOnceStep DEF IInv
<1> QED
    BY InitIInv, <1>1, PTL DEF Spec

\* Handlers, scans, rows and the cooldown stay in their types.
THEOREM TypeCorrect == Spec => []TypeOK
<1>1. IInv => TypeOK
    BY DEF IInv
<1> QED
    BY <1>1, Invariance, PTL

\* Through crashes, errors and lost messages an event causes one in-app row at
\* the most, and the notifications queue at most one copy of it, and none of a
\* row that was not written (RabbitMQConsumer, NotificationService).
THEOREM RowAndCopyOnce == Spec => []ToldAndCopiedOnce
<1>1. IInv => ToldAndCopiedOnce
    BY DEF IInv
<1> QED
    BY <1>1, Invariance, PTL

\* A handler that found its transaction and has ended has come to the detection
\* of subscriptions, whatever became of preferences, row, push and request, unless
\* the process died (handleTransactionCreated).
THEOREM BranchesApart == Spec => []BranchesIndependent
<1>1. IInv => BranchesIndependent
    BY DEF IInv, OwedOnWay, BranchesIndependent
<1> QED
    BY <1>1, Invariance, PTL

\* The only step that makes a subscription active which has been paused,
\* cancelled or deleted is the user's, and none revives a deleted one.
LEMMA ChoiceStep ==
    ASSUME IInv, [Next]_vars, NEW m \in Worker,
           sub[m] \in {"inactive", "deleted"}, sub'[m] = "active"
    PROVE  sub[m] = "inactive" /\ UNCHANGED worker
<1> USE DEF IInv, TypeOK
<1>1. CASE \E p \in Worker : CreateSub(p)
  <2>1. PICK p \in Worker : CreateSub(p)
    BY <1>1
  <2>2. sub[p] = "none"
    BY <2>1 DEF CreateSub, Worker, HandlerOrder, ScanOrder
  <2>3. sub'[m] = sub[m]
    BY <2>1, <2>2 DEF CreateSub
  <2> QED
    BY <2>3
<1>2. CASE \E p \in Worker : Manage(p)
    BY <1>2 DEF Manage, Stored
<1>3. CASE ~\E p \in Worker : CreateSub(p) \/ Manage(p)
  <2>1. UNCHANGED sub
    BY <1>3 DEF Next, Step, vars, Create, DeleteTx, StartScan, Take, Fetch, Notify,
       Row, Request, Cooldown, Claim, History, Existing, Match, Update, Publish,
       TakeDetected, FetchDetected, DatabaseError, Crash, CooldownExpires, Copy
  <2> QED
    BY <2>1
<1> QED
    BY <1>1, <1>2, <1>3

\* No scan and no event undoes what the user has decided about a subscription
\* (saveDetectedSubscriptions, checkForSubscriptionPattern).
THEOREM ChoiceStands == Spec => UserChoiceStands
<1>1. IInv /\ [Next]_vars =>
        [\A m \in Worker :
           sub[m] \in {"inactive", "deleted"} /\ sub'[m] = "active"
             => sub[m] = "inactive" /\ UNCHANGED worker]_vars
    BY ChoiceStep
<1> QED
    BY <1>1, Invariance, PTL DEF Spec, UserChoiceStands
=============================================================================
