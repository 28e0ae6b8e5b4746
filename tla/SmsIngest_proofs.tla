-------------------------- MODULE SmsIngest_proofs --------------------------
(***************************************************************************)
(* Theorems about SmsIngest for every set of messages, timestamps and      *)
(* concurrent calls, and for every combination of faults.  The invariant   *)
(* follows a call's SmsLog: only the call whose log carries the link of a  *)
(* transaction publishes it, the unique index leaves one such call, and it *)
(* leaves the publishing step for good when the event is out.              *)
(*                                                                         *)
(* Then theorems about AiService, which the ingestion asks to read its     *)
(* messages: what an answer was computed from, why the two parsers and the *)
(* two detectors agree, and how old an answer in the proxy's cache may be. *)
(***************************************************************************)
EXTENDS SmsIngest, AiService, FiniteSetTheorems, TLAPS

(* SmsIngest *)

\* A call that has started carries a key.
HasKey == \A c \in Call : call[c].pc # "idle" => call[c].key \in Key

\* How far the call's SmsLog has got when the call is at a given await.
LogFollowsPc ==
    \A c \in Call :
        /\ call[c].pc \in {"idle", "find", "log"} => log[c] = "none"
        /\ call[c].pc \in {"upsert", "link"} => log[c] = "parsed"
        /\ call[c].pc = "publish" => log[c] = "linked"
        /\ log[c] # "none" => call[c].pc # "idle"

\* The unique index on SmsLog.transactionId.
LinkUnique ==
    \A c, d \in Call :
        log[c] = "linked" /\ log[d] = "linked" /\ call[c].key = call[d].key
            => c = d

\* An announced transaction was announced by the one call it is linked to.
EventsFromLinked ==
    \A k \in Key :
        /\ events[k] <= 1
        /\ events[k] > 0 => \E c \in Call : /\ log[c] = "linked"
                                            /\ call[c].key = k
                                            /\ call[c].pc = "done"

\* A call past its upsert works on a row that exists.
RowExists ==
    \A c \in Call : call[c].pc \in {"link", "publish"} =>
        tx[call[c].key] # "absent"

IInv ==
    /\ TypeOK
    /\ HasKey
    /\ LogFollowsPc
    /\ LinkUnique
    /\ EventsFromLinked
    /\ RowExists
    /\ TransactionHasLog

-----------------------------------------------------------------------------

LEMMA KeyOfCall ==
    ASSUME NEW sms \in Sms, NEW stamp \in Stamp
    PROVE DedupKey(sms, stamp) \in Key
<1> QED
    BY DEF Key

LEMMA InitIInv == Init => IInv
<1> SUFFICES ASSUME Init PROVE IInv
    OBVIOUS
<1>1. TypeOK
    BY DEF Init, TypeOK, Handler, Pc
<1>2. HasKey /\ LogFollowsPc /\ LinkUnique /\ RowExists
    BY DEF Init, HasKey, LogFollowsPc, LinkUnique, RowExists
<1>3. EventsFromLinked /\ TransactionHasLog
    BY DEF Init, EventsFromLinked, TransactionHasLog
<1> QED
    BY <1>1, <1>2, <1>3 DEF IInv

\* The tables keep their types as long as running calls carry a key.
LEMMA TypeStep ==
    ASSUME TypeOK, HasKey, [Next]_vars PROVE TypeOK'
<1> USE DEF TypeOK, Handler, Pc, HasKey
<1>1. ASSUME NEW c \in Call, NEW sms \in Sms, NEW stamp \in Stamp,
             Arrive(c, sms, stamp) PROVE TypeOK'
    BY <1>1, KeyOfCall DEF Arrive
<1>2. ASSUME NEW c \in Call, Find(c) PROVE TypeOK'
    BY <1>2 DEF Find, Goto
<1>3. ASSUME NEW c \in Call, CreateLog(c) PROVE TypeOK'
    BY <1>3 DEF CreateLog, Goto
<1>4. ASSUME NEW c \in Call, Parse(c) PROVE TypeOK'
    BY <1>4 DEF Parse
<1>5. ASSUME NEW c \in Call, MarkParsed(c) PROVE TypeOK'
    BY <1>5 DEF MarkParsed, Goto
<1>6. ASSUME NEW c \in Call, Upsert(c) PROVE TypeOK'
    BY <1>6 DEF Upsert
<1>7. ASSUME NEW c \in Call, Link(c) PROVE TypeOK'
    BY <1>7 DEF Link, Goto
<1>8. ASSUME NEW c \in Call, Publish(c) PROVE TypeOK'
    BY <1>8 DEF Publish, Goto
<1>9. ASSUME NEW c \in Call, DatabaseError(c) PROVE TypeOK'
    BY <1>9 DEF DatabaseError, Goto
<1>10. ASSUME NEW c \in Call, Crash(c) PROVE TypeOK'
    BY <1>10 DEF Crash, Goto, InFlight
<1>11. ASSUME NEW k \in Key, Edit(k) PROVE TypeOK'
    BY <1>11 DEF Edit
<1>12. ASSUME NEW k \in Key, Delete(k) PROVE TypeOK'
    BY <1>12 DEF Delete
<1>13. CASE UNCHANGED vars
    BY <1>13 DEF vars
<1> QED
    BY <1>1, <1>2, <1>3, <1>4, <1>5, <1>6, <1>7, <1>8, <1>9, <1>10, <1>11,
       <1>12, <1>13 DEF Next, HandlerStep

\* A call gets its key when it arrives and keeps it.
LEMMA HasKeyStep ==
    ASSUME TypeOK, HasKey, [Next]_vars PROVE HasKey'
<1> USE DEF TypeOK, Handler, HasKey
<1>1. ASSUME NEW c \in Call, NEW sms \in Sms, NEW stamp \in Stamp,
             Arrive(c, sms, stamp) PROVE HasKey'
    BY <1>1, KeyOfCall DEF Arrive
<1>2. ASSUME NEW c \in Call, Find(c) PROVE HasKey'
    BY <1>2 DEF Find, Goto
<1>3. ASSUME NEW c \in Call, CreateLog(c) PROVE HasKey'
    BY <1>3 DEF CreateLog, Goto
<1>4. ASSUME NEW c \in Call, Parse(c) PROVE HasKey'
    BY <1>4 DEF Parse
<1>5. ASSUME NEW c \in Call, MarkParsed(c) PROVE HasKey'
    BY <1>5 DEF MarkParsed, Goto
<1>6. ASSUME NEW c \in Call, Upsert(c) PROVE HasKey'
    BY <1>6 DEF Upsert
<1>7. ASSUME NEW c \in Call, Link(c) PROVE HasKey'
    BY <1>7 DEF Link, Goto
<1>8. ASSUME NEW c \in Call, Publish(c) PROVE HasKey'
    BY <1>8 DEF Publish, Goto
<1>9. ASSUME NEW c \in Call, DatabaseError(c) PROVE HasKey'
    BY <1>9 DEF DatabaseError, Goto
<1>10. ASSUME NEW c \in Call, Crash(c) PROVE HasKey'
    BY <1>10 DEF Crash, Goto, InFlight
<1>11. ASSUME NEW k \in Key, Edit(k) PROVE HasKey'
    BY <1>11 DEF Edit
<1>12. ASSUME NEW k \in Key, Delete(k) PROVE HasKey'
    BY <1>12 DEF Delete
<1>13. CASE UNCHANGED vars
    BY <1>13 DEF vars
<1> QED
    BY <1>1, <1>2, <1>3, <1>4, <1>5, <1>6, <1>7, <1>8, <1>9, <1>10, <1>11,
       <1>12, <1>13 DEF Next, HandlerStep

\* The log is written before the upsert and linked before the publish.
LEMMA LogFollowsPcStep ==
    ASSUME TypeOK, LogFollowsPc, [Next]_vars PROVE LogFollowsPc'
<1> USE DEF TypeOK, Handler, LogFollowsPc
<1>1. ASSUME NEW c \in Call, NEW sms \in Sms, NEW stamp \in Stamp,
             Arrive(c, sms, stamp) PROVE LogFollowsPc'
    BY <1>1 DEF Arrive
<1>2. ASSUME NEW c \in Call, Find(c) PROVE LogFollowsPc'
    BY <1>2 DEF Find, Goto
<1>3. ASSUME NEW c \in Call, CreateLog(c) PROVE LogFollowsPc'
    BY <1>3 DEF CreateLog, Goto
<1>4. ASSUME NEW c \in Call, Parse(c) PROVE LogFollowsPc'
    BY <1>4 DEF Parse
<1>5. ASSUME NEW c \in Call, MarkParsed(c) PROVE LogFollowsPc'
    BY <1>5 DEF MarkParsed, Goto
<1>6. ASSUME NEW c \in Call, Upsert(c) PROVE LogFollowsPc'
    BY <1>6 DEF Upsert
<1>7. ASSUME NEW c \in Call, Link(c) PROVE LogFollowsPc'
    BY <1>7 DEF Link, Goto
<1>8. ASSUME NEW c \in Call, Publish(c) PROVE LogFollowsPc'
    BY <1>8 DEF Publish, Goto
<1>9. ASSUME NEW c \in Call, DatabaseError(c) PROVE LogFollowsPc'
    BY <1>9 DEF DatabaseError, Goto
<1>10. ASSUME NEW c \in Call, Crash(c) PROVE LogFollowsPc'
    BY <1>10 DEF Crash, Goto, InFlight
<1>11. ASSUME NEW k \in Key, Edit(k) PROVE LogFollowsPc'
    BY <1>11 DEF Edit
<1>12. ASSUME NEW k \in Key, Delete(k) PROVE LogFollowsPc'
    BY <1>12 DEF Delete
<1>13. CASE UNCHANGED vars
    BY <1>13 DEF vars
<1> QED
    BY <1>1, <1>2, <1>3, <1>4, <1>5, <1>6, <1>7, <1>8, <1>9, <1>10, <1>11,
       <1>12, <1>13 DEF Next, HandlerStep

\* Link checks the index; nothing else links.
LEMMA LinkUniqueStep ==
    ASSUME TypeOK, LogFollowsPc, LinkUnique, [Next]_vars PROVE LinkUnique'
<1> USE DEF TypeOK, Handler, LogFollowsPc, LinkUnique
<1>1. ASSUME NEW c \in Call, NEW sms \in Sms, NEW stamp \in Stamp,
             Arrive(c, sms, stamp) PROVE LinkUnique'
    BY <1>1 DEF Arrive
<1>2. ASSUME NEW c \in Call, Find(c) PROVE LinkUnique'
    BY <1>2 DEF Find, Goto
<1>3. ASSUME NEW c \in Call, CreateLog(c) PROVE LinkUnique'
    BY <1>3 DEF CreateLog, Goto
<1>4. ASSUME NEW c \in Call, Parse(c) PROVE LinkUnique'
    BY <1>4 DEF Parse
<1>5. ASSUME NEW c \in Call, MarkParsed(c) PROVE LinkUnique'
    BY <1>5 DEF MarkParsed, Goto
<1>6. ASSUME NEW c \in Call, Upsert(c) PROVE LinkUnique'
    BY <1>6 DEF Upsert
<1>7. ASSUME NEW c \in Call, Link(c) PROVE LinkUnique'
    BY <1>7 DEF Link, Goto, LinkedToOther
<1>8. ASSUME NEW c \in Call, Publish(c) PROVE LinkUnique'
    BY <1>8 DEF Publish, Goto
<1>9. ASSUME NEW c \in Call, DatabaseError(c) PROVE LinkUnique'
    BY <1>9 DEF DatabaseError, Goto
<1>10. ASSUME NEW c \in Call, Crash(c) PROVE LinkUnique'
    BY <1>10 DEF Crash, Goto, InFlight
<1>11. ASSUME NEW k \in Key, Edit(k) PROVE LinkUnique'
    BY <1>11 DEF Edit
<1>12. ASSUME NEW k \in Key, Delete(k) PROVE LinkUnique'
    BY <1>12 DEF Delete
<1>13. CASE UNCHANGED vars
    BY <1>13 DEF vars
<1> QED
    BY <1>1, <1>2, <1>3, <1>4, <1>5, <1>6, <1>7, <1>8, <1>9, <1>10, <1>11,
       <1>12, <1>13 DEF Next, HandlerStep

\* Two announcements would need two linked calls, or one that publishes twice.
LEMMA EventsStep ==
    ASSUME TypeOK, HasKey, LogFollowsPc, LinkUnique, EventsFromLinked, [Next]_vars PROVE EventsFromLinked'
<1> USE DEF TypeOK, Handler, HasKey, LogFollowsPc, LinkUnique, EventsFromLinked
<1>1. ASSUME NEW c \in Call, NEW sms \in Sms, NEW stamp \in Stamp,
             Arrive(c, sms, stamp) PROVE EventsFromLinked'
    BY <1>1 DEF Arrive
<1>2. ASSUME NEW c \in Call, Find(c) PROVE EventsFromLinked'
    BY <1>2 DEF Find, Goto
<1>3. ASSUME NEW c \in Call, CreateLog(c) PROVE EventsFromLinked'
    BY <1>3 DEF CreateLog, Goto
<1>4. ASSUME NEW c \in Call, Parse(c) PROVE EventsFromLinked'
    BY <1>4 DEF Parse
<1>5. ASSUME NEW c \in Call, MarkParsed(c) PROVE EventsFromLinked'
    BY <1>5 DEF MarkParsed, Goto
<1>6. ASSUME NEW c \in Call, Upsert(c) PROVE EventsFromLinked'
    BY <1>6 DEF Upsert
<1>7. ASSUME NEW c \in Call, Link(c) PROVE EventsFromLinked'
    BY <1>7 DEF Link, Goto, LinkedToOther
<1>8. ASSUME NEW c \in Call, Publish(c) PROVE EventsFromLinked'
    BY <1>8 DEF Publish, Goto
<1>9. ASSUME NEW c \in Call, DatabaseError(c) PROVE EventsFromLinked'
    BY <1>9 DEF DatabaseError, Goto
<1>10. ASSUME NEW c \in Call, Crash(c) PROVE EventsFromLinked'
    BY <1>10 DEF Crash, Goto, InFlight
<1>11. ASSUME NEW k \in Key, Edit(k) PROVE EventsFromLinked'
    BY <1>11 DEF Edit
<1>12. ASSUME NEW k \in Key, Delete(k) PROVE EventsFromLinked'
    BY <1>12 DEF Delete
<1>13. CASE UNCHANGED vars
    BY <1>13 DEF vars
<1> QED
    BY <1>1, <1>2, <1>3, <1>4, <1>5, <1>6, <1>7, <1>8, <1>9, <1>10, <1>11,
       <1>12, <1>13 DEF Next, HandlerStep

\* Rows are tombstoned, never removed.
LEMMA RowExistsStep ==
    ASSUME TypeOK, HasKey, RowExists, [Next]_vars PROVE RowExists'
<1> USE DEF TypeOK, Handler, HasKey, RowExists
<1>1. ASSUME NEW c \in Call, NEW sms \in Sms, NEW stamp \in Stamp,
             Arrive(c, sms, stamp) PROVE RowExists'
    BY <1>1 DEF Arrive
<1>2. ASSUME NEW c \in Call, Find(c) PROVE RowExists'
    BY <1>2 DEF Find, Goto
<1>3. ASSUME NEW c \in Call, CreateLog(c) PROVE RowExists'
    BY <1>3 DEF CreateLog, Goto
<1>4. ASSUME NEW c \in Call, Parse(c) PROVE RowExists'
    BY <1>4 DEF Parse
<1>5. ASSUME NEW c \in Call, MarkParsed(c) PROVE RowExists'
    BY <1>5 DEF MarkParsed, Goto
<1>6. ASSUME NEW c \in Call, Upsert(c) PROVE RowExists'
    BY <1>6 DEF Upsert
<1>7. ASSUME NEW c \in Call, Link(c) PROVE RowExists'
    BY <1>7 DEF Link, Goto
<1>8. ASSUME NEW c \in Call, Publish(c) PROVE RowExists'
    BY <1>8 DEF Publish, Goto
<1>9. ASSUME NEW c \in Call, DatabaseError(c) PROVE RowExists'
    BY <1>9 DEF DatabaseError, Goto
<1>10. ASSUME NEW c \in Call, Crash(c) PROVE RowExists'
    BY <1>10 DEF Crash, Goto, InFlight
<1>11. ASSUME NEW k \in Key, Edit(k) PROVE RowExists'
    BY <1>11 DEF Edit
<1>12. ASSUME NEW k \in Key, Delete(k) PROVE RowExists'
    BY <1>12 DEF Delete
<1>13. CASE UNCHANGED vars
    BY <1>13 DEF vars
<1> QED
    BY <1>1, <1>2, <1>3, <1>4, <1>5, <1>6, <1>7, <1>8, <1>9, <1>10, <1>11,
       <1>12, <1>13 DEF Next, HandlerStep

\* The call that inserts the row has already parsed its log.
LEMMA HasLogStep ==
    ASSUME TypeOK, HasKey, LogFollowsPc, TransactionHasLog, [Next]_vars PROVE TransactionHasLog'
<1> USE DEF TypeOK, Handler, HasKey, LogFollowsPc, TransactionHasLog
<1>1. ASSUME NEW c \in Call, NEW sms \in Sms, NEW stamp \in Stamp,
             Arrive(c, sms, stamp) PROVE TransactionHasLog'
    BY <1>1 DEF Arrive
<1>2. ASSUME NEW c \in Call, Find(c) PROVE TransactionHasLog'
    BY <1>2 DEF Find, Goto
<1>3. ASSUME NEW c \in Call, CreateLog(c) PROVE TransactionHasLog'
    BY <1>3 DEF CreateLog, Goto
<1>4. ASSUME NEW c \in Call, Parse(c) PROVE TransactionHasLog'
    BY <1>4 DEF Parse
<1>5. ASSUME NEW c \in Call, MarkParsed(c) PROVE TransactionHasLog'
    BY <1>5 DEF MarkParsed, Goto
<1>6. ASSUME NEW c \in Call, Upsert(c) PROVE TransactionHasLog'
    BY <1>6 DEF Upsert
<1>7. ASSUME NEW c \in Call, Link(c) PROVE TransactionHasLog'
    BY <1>7 DEF Link, Goto
<1>8. ASSUME NEW c \in Call, Publish(c) PROVE TransactionHasLog'
    BY <1>8 DEF Publish, Goto
<1>9. ASSUME NEW c \in Call, DatabaseError(c) PROVE TransactionHasLog'
    BY <1>9 DEF DatabaseError, Goto
<1>10. ASSUME NEW c \in Call, Crash(c) PROVE TransactionHasLog'
    BY <1>10 DEF Crash, Goto, InFlight
<1>11. ASSUME NEW k \in Key, Edit(k) PROVE TransactionHasLog'
    BY <1>11 DEF Edit
<1>12. ASSUME NEW k \in Key, Delete(k) PROVE TransactionHasLog'
    BY <1>12 DEF Delete
<1>13. CASE UNCHANGED vars
    BY <1>13 DEF vars
<1> QED
    BY <1>1, <1>2, <1>3, <1>4, <1>5, <1>6, <1>7, <1>8, <1>9, <1>10, <1>11,
       <1>12, <1>13 DEF Next, HandlerStep

THEOREM Invariant == Spec => []IInv
<1>1. IInv /\ [Next]_vars => IInv'
    BY TypeStep, HasKeyStep, LogFollowsPcStep, LinkUniqueStep, EventsStep,
       RowExistsStep, HasLogStep
    DEF IInv
<1> QED
    BY InitIInv, <1>1, PTL DEF Spec

\* The tables and the handlers' state keep their types.
THEOREM TypeCorrect == Spec => []TypeOK
<1> QED
    BY Invariant, PTL DEF IInv

\* However many calls carry one message, however they interleave, fail and
\* crash, the broker gets at most one transaction.created for it.
THEOREM SingleAnnouncement == Spec => []AtMostOneEvent
<1>1. IInv => AtMostOneEvent
    BY DEF IInv, EventsFromLinked, AtMostOneEvent
<1> QED
    BY Invariant, <1>1, PTL

\* At most one of the racing calls answers transactionCreated.
THEOREM CreationReportedOnce == Spec => []CreatedReportedOnce
<1>1. IInv => CreatedReportedOnce
    BY DEF IInv, LinkUnique, CreatedReportedOnce, Created
<1> QED
    BY Invariant, <1>1, PTL

\* The raw message outlives every failure of the call that carried it.
THEOREM RawMessageKept == Spec => []TransactionHasLog
<1> QED
    BY Invariant, PTL DEF IInv

-----------------------------------------------------------------------------
(* Refinement: the upsert that inserts records, the soft delete withdraws,  *)
(* the publish that reaches the broker announces; every other step stutters. *)

LEMMA LedgerInit == Init => Ledger!Init
    BY DEF Init, Ledger!Init

LEMMA LedgerStep ==
    ASSUME IInv, [Next]_vars PROVE [Ledger!Next]_<<tx, events>>
<1> USE DEF IInv, TypeOK, Handler, HasKey
<1>1. ASSUME NEW c \in Call, Upsert(c) PROVE [Ledger!Next]_<<tx, events>>
    <2>1. call[c].key \in Key
        BY <1>1 DEF Upsert
    <2>2. CASE tx[call[c].key] = "absent"
        BY <1>1, <2>1, <2>2 DEF Upsert, Ledger!Next, Ledger!Record
    <2>3. CASE tx[call[c].key] # "absent"
        BY <1>1, <2>3 DEF Upsert
    <2> QED
        BY <2>2, <2>3
<1>2. ASSUME NEW c \in Call, Publish(c) PROVE [Ledger!Next]_<<tx, events>>
    <2> DEFINE k == call[c].key
    <2>1. k \in Key /\ log[c] = "linked" /\ tx[k] # "absent"
        BY <1>2 DEF Publish, LogFollowsPc, RowExists
    <2>2. events[k] = 0
        <3>1. SUFFICES ASSUME events[k] > 0 PROVE FALSE
            BY <2>1
        <3>2. PICK d \in Call : /\ log[d] = "linked"
                                /\ call[d].key = k
                                /\ call[d].pc = "done"
            BY <2>1, <3>1 DEF EventsFromLinked
        <3>3. c = d
            BY <2>1, <3>2 DEF LinkUnique
        <3> QED
            BY <1>2, <3>2, <3>3 DEF Publish
    <2>3. CASE UNCHANGED events
        BY <1>2, <2>3 DEF Publish
    <2>4. CASE events' = [events EXCEPT ![k] = @ + 1]
        <3>1. events' = [events EXCEPT ![k] = 1]
            BY <2>1, <2>2, <2>4
        <3> QED
            BY <1>2, <2>1, <2>2, <3>1
            DEF Publish, Ledger!Next, Ledger!Announce
    <2> QED
        BY <1>2, <2>3, <2>4 DEF Publish
<1>3. ASSUME NEW k \in Key, Delete(k) PROVE [Ledger!Next]_<<tx, events>>
    BY <1>3 DEF Delete, Ledger!Next, Ledger!Withdraw
<1>4. ASSUME NEW c \in Call, NEW sms \in Sms, NEW stamp \in Stamp,
             Arrive(c, sms, stamp)
      PROVE UNCHANGED <<tx, events>>
    BY <1>4 DEF Arrive
<1>5. ASSUME NEW c \in Call,
             \/ Find(c) \/ CreateLog(c) \/ Parse(c) \/ MarkParsed(c)
             \/ Link(c) \/ DatabaseError(c) \/ Crash(c)
      PROVE UNCHANGED <<tx, events>>
    BY <1>5 DEF Find, CreateLog, Parse, MarkParsed, Link, DatabaseError, Crash
<1>6. ASSUME NEW k \in Key, Edit(k) PROVE UNCHANGED <<tx, events>>
    BY <1>6 DEF Edit
<1>7. CASE UNCHANGED vars
    BY <1>7 DEF vars
<1> QED
    BY <1>1, <1>2, <1>3, <1>4, <1>5, <1>6, <1>7 DEF Next, HandlerStep

\* ingestSms and the writers around it implement TransactionLedger: one
\* record per message, withdrawn for good, announced at most once and never
\* before it is recorded.
THEOREM Refinement == Spec => ImplementsLedger
<1>1. IInv /\ [Next]_vars => [Ledger!Next]_<<tx, events>>
    BY LedgerStep
<1> QED
    BY LedgerInit, Invariant, <1>1, PTL DEF Spec, ImplementsLedger, Ledger!Spec

-----------------------------------------------------------------------------
(* AiService *)

\* What an answer was computed from: a detection from the last 90 days of what
\* the request has read, a parsed message from that message by one of the
\* parsers.  While something is still being read there is no answer.
AnswerFits ==
    /\ unread # {} => answer = NoAnswer
    /\ answer.status = 200 /\ answer.endpoint = "subscriptions" =>
         answer.body = DetectByAi(Recent(sent.txs, DetectionWindow))
    /\ answer.status = 200 /\ answer.endpoint = "sms" =>
         /\ answer.message \in Message
         /\ \E ai \in {"up", "down", "off"} : answer.body = ParseSms(answer.message, ai)

\* Only a request with a context reads the records.
ReadsAreContexts == part # "context" => unread = {}

AiIInv == AiTypeOK /\ AnswerFits /\ ReadsAreContexts

\* A context without any rows is one that the backend can send.
LEMMA BlankFits == Blank \in Context
  BY DEF Blank, Context

\* A read fills in its part of the context and keeps the others.
LEMMA FetchFits ==
    ASSUME NEW p \in Parts, NEW c \in Context, NEW into \in Context
    PROVE  Fetch(p, c, into) \in Context
<1>1. CASE p = "transactions"
    BY <1>1 DEF Fetch, Context
<1>2. CASE p = "subscriptions"
    BY <1>2 DEF Fetch, Context
<1>3. CASE p = "budgets"
    BY <1>3 DEF Fetch, Context
<1>4. CASE p = "goals"
    BY <1>4 DEF Fetch, Context
<1> QED
    BY <1>1, <1>2, <1>3, <1>4 DEF Parts

\* Whatever the other services do to the records, what is left is a context,
\* and the request in progress does not see it.
LEMMA RecordsStep ==
    ASSUME AiTypeOK, Records
    PROVE  /\ ctx' \in Context /\ changes' \in 0 .. MaxChanges
           /\ UNCHANGED <<sent, unread, answer>>
<1> DEFINE Fits == /\ ctx' \in Context /\ changes' \in 0 .. MaxChanges
                   /\ UNCHANGED <<sent, unread, answer>>
<1>0. ctx \in Context /\ changes \in 0 .. MaxChanges /\ MaxChanges \in Nat
    BY AiServiceAssumption DEF AiTypeOK
<1>9. ASSUME NEW c \in Context, Record(c) PROVE Fits
    BY <1>0, <1>9 DEF Record
<1> HIDE DEF Fits
<1>1. ASSUME NEW e \in Entry, PostEntry(e) PROVE Fits
  <2>1. [ctx EXCEPT !.txs = @ \cup {e}] \in Context
    BY <1>0 DEF Context
  <2> QED
    BY <1>1, <1>9, <2>1 DEF PostEntry
<1>2. ASSUME NEW e \in Entry, DeleteTx(e) PROVE Fits
  <2>1. [ctx EXCEPT !.txs = @ \ {e}, !.impulse = @ \ {e}, !.night = @ \ {e}] \in Context
    BY <1>0 DEF Context
  <2> QED
    BY <1>2, <1>9, <2>1 DEF DeleteTx
<1>3. ASSUME NEW e \in Entry, Tag(e) PROVE Fits
  <2>1. Tags({e}).impulse \subseteq Entry /\ Tags({e}).night \subseteq Entry
    BY DEF Tags
  <2>2. [ctx EXCEPT !.impulse = (@ \ {e}) \cup Tags({e}).impulse,
                    !.night = (@ \ {e}) \cup Tags({e}).night] \in Context
    BY <1>0, <2>1 DEF Context
  <2> QED
    BY <1>3, <1>9, <2>2 DEF Tag
<1>4. ASSUME NEW s \in Sub, Subscribe(s) PROVE Fits
  <2>1. [ctx EXCEPT !.subs = @ \cup {s}, !.active = @ \cup {s}] \in Context
    BY <1>0 DEF Context
  <2> QED
    BY <1>4, <1>9, <2>1 DEF Subscribe
<1>5. ASSUME NEW s \in Sub, Suspend(s) PROVE Fits
  <2>1. [ctx EXCEPT !.active = @ \ {s}] \in Context
    BY <1>0 DEF Context
  <2> QED
    BY <1>5, <1>9, <2>1 DEF Suspend
<1>6. ASSUME NEW b \in Budget, SetBudget(b) PROVE Fits
  <2>1. [ctx EXCEPT !.budgets = @ \cup {b}] \in Context
    BY <1>0 DEF Context
  <2> QED
    BY <1>6, <1>9, <2>1 DEF SetBudget
<1>7. ASSUME NEW g \in Goal, SetGoal(g) PROVE Fits
  <2>1. [ctx EXCEPT !.goals = @ \cup {g}] \in Context
    BY <1>0 DEF Context
  <2> QED
    BY <1>7, <1>9, <2>1 DEF SetGoal
<1>8. ASSUME NEW g \in Goal, Contribute(g) PROVE Fits
  <2> DEFINE saved == ctx.saved[g] + 1
             done  == IF saved >= GoalOf[g].target THEN ctx.done \cup {g} ELSE ctx.done
  <2>1. saved \in Nat /\ done \subseteq Goal
    BY <1>0, <1>8 DEF Contribute, Context
  <2>2. [ctx EXCEPT !.saved[g] = saved, !.done = done] \in Context
    <3> HIDE DEF saved, done
    <3> QED
      BY <1>0, <2>1 DEF Context
  <2> QED
    BY <1>8, <1>9, <2>2 DEF Contribute
<1> QED
  <2>1. Fits
    BY <1>1, <1>2, <1>3, <1>4, <1>5, <1>6, <1>7, <1>8, Zenon DEF Records
  <2> QED
    BY <2>1 DEF Fits

\* What a step of a request leaves behind.
Answered200 == answer'.status \in {0, 200, 503} /\ AnswerFits'

\* Every reply waits until all is read.  A list of subscriptions is what the
\* detector of the AI service finds in the last 90 days of it.
LEMMA ReplyFits ==
    ASSUME AiIInv, Ready, UNCHANGED <<ctx, sent, unread, changes>>,
           answer'.status \in {200, 503}, answer'.endpoint # "sms",
           answer'.status = 200 /\ answer'.endpoint = "subscriptions" =>
             answer'.body = DetectByAi(Recent(sent.txs, DetectionWindow))
    PROVE  Answered200
<1>1. unread' = {}
    BY DEF AiIInv, AnswerFits, Ready
<1> QED
    BY <1>1 DEF Answered200, AnswerFits

\* Requests leave the records alone, and what they have read of them is a
\* context.
LEMMA RequestsStep ==
    ASSUME AiIInv, Requests
    PROVE  /\ UNCHANGED <<ctx, changes>>
           /\ sent' \in Context /\ unread' \in SUBSET Parts
           /\ Answered200
<1> DEFINE Fits == /\ UNCHANGED <<ctx, changes>>
                   /\ sent' \in Context /\ unread' \in SUBSET Parts
                   /\ Answered200
<1> SUFFICES Fits
    OBVIOUS
<1>0. ctx \in Context /\ sent \in Context /\ unread \in SUBSET Parts /\ AnswerFits
    BY DEF AiIInv, AiTypeOK
<1>1. ASSUME Ready, UNCHANGED <<ctx, sent, unread, changes>>,
             answer'.status \in {200, 503}, answer'.endpoint \notin {"sms", "subscriptions"}
      PROVE  Fits
    BY <1>0, <1>1, ReplyFits
<1>2. ASSUME NEW reads \in {Parts, {"transactions"}}, Begin(reads) PROVE Fits
  <2>1. answer' = NoAnswer
    BY <1>2 DEF Begin
  <2>2. Answered200
    BY <2>1 DEF Answered200, AnswerFits, NoAnswer
  <2> QED
    BY <1>0, <1>2, <2>2 DEF Begin, Parts
<1>3. ASSUME NEW p \in Parts, Read(p) PROVE Fits
  <2>1. sent' \in Context
    BY <1>0, <1>3, FetchFits DEF Read
  <2>2. answer = NoAnswer
    BY <1>0, <1>3 DEF Read, AnswerFits
  <2>3. answer' \in {NoAnswer, [status |-> 0, reads |-> "done"]}
    BY <1>3, <2>2 DEF Read
  <2>4. unread' # {} => answer' = NoAnswer
    BY <1>3, <2>2 DEF Read
  <2>5. answer'.status = 0
    BY <2>3 DEF NoAnswer
  <2>6. Answered200
    BY <2>4, <2>5 DEF Answered200, AnswerFits
  <2> QED
    BY <1>0, <1>3, <2>1, <2>6 DEF Read
<1>4. CASE Finish
  <2>1. answer' = NoAnswer
    BY <1>4 DEF Finish
  <2>2. Answered200
    BY <2>1 DEF Answered200, AnswerFits, NoAnswer
  <2> QED
    BY <1>0, <1>4, <2>2, BlankFits DEF Finish
<1>5. CASE SummaryRequest
  <2>1. answer' = [status |-> 200, endpoint |-> "summary", body |-> MonthlySpend(ctx)]
    BY <1>5 DEF SummaryRequest
  <2>2. UNCHANGED <<ctx, sent, unread, changes>> /\ unread = {}
    BY <1>5 DEF SummaryRequest, Reading
  <2>3. Answered200
    BY <2>1, <2>2 DEF Answered200, AnswerFits
  <2> QED
    BY <1>0, <2>2, <2>3
<1> HIDE DEF Fits
<1>6. CASE Unavailable
    BY <1>1, <1>6 DEF Unavailable, Reply
<1>7. CASE HealthScoreRequest
    BY <1>1, <1>7 DEF HealthScoreRequest, Reply
<1>8. CASE LeaksRequest
    BY <1>1, <1>8 DEF LeaksRequest, Reply
<1>9. ASSUME NEW days \in {7, 30}, BehaviourRequest(days) PROVE Fits
    BY <1>1, <1>9 DEF BehaviourRequest, Reply
<1>10. CASE ArchetypeRequest
    BY <1>1, <1>10 DEF ArchetypeRequest, Reply
<1>11. CASE CardsRequest
    BY <1>1, <1>11 DEF CardsRequest, Reply
<1>12. CASE DashboardRequest
    BY <1>1, <1>12 DEF DashboardRequest, Reply
<1>13. CASE WeeklyRequest
    BY <1>1, <1>13 DEF WeeklyRequest, Reply
<1>14. CASE DetectRequest
  <2>1. Ready /\ UNCHANGED <<ctx, sent, unread, changes>>
    BY <1>14 DEF DetectRequest, Reply
  <2>2. /\ answer'.status \in {200, 503} /\ answer'.endpoint = "subscriptions"
        /\ answer'.status = 200 => answer'.body = DetectByAi(Recent(sent.txs, DetectionWindow))
    BY <1>14 DEF DetectRequest, Reply
  <2> QED
    BY <1>0, <2>1, <2>2, ReplyFits DEF Fits
<1>15. CASE AnomaliesRequest
    BY <1>1, <1>15 DEF AnomaliesRequest, Reply
<1>16. CASE PredictRequest
    BY <1>1, <1>16 DEF PredictRequest, Reply
<1>17. ASSUME NEW q \in Queries, NEW llm \in {"none", "up", "down"}, Ask(q, llm)
       PROVE  Fits
    BY <1>1, <1>17 DEF Ask, Reply
<1>18. ASSUME NEW period \in {"week", "month"}, NEW offset \in BOOLEAN,
              SpendingRequest(period, offset)
       PROVE  Fits
    BY <1>1, <1>18 DEF SpendingRequest, Reply
<1>19. ASSUME NEW m \in Merchant, NEW month \in 1 .. 12, NEW day \in {28, 31},
              PatternRequest(m, month, day)
       PROVE  Fits
    BY <1>1, <1>19 DEF PatternRequest, Reply
<1> QED
    BY <1>2, <1>3, <1>4, <1>5, <1>6, <1>7, <1>8, <1>9, <1>10, <1>11, <1>12, <1>13,
       <1>14, <1>15, <1>16, <1>17, <1>18, <1>19 DEF Requests

-----------------------------------------------------------------------------
(* The cache.  CacheFresh is about filled keys only; what makes it inductive *)
(* is the same bound for the requests that hold an answer on its way.        *)

\* No key was deleted in the future, and no answer is from there.
PastOnly == \A f \in Feature : since[f] <= version

\* The first read of a request that no deletion of its key has overtaken saw
\* the records as they were at the last deletion, or later.
ReadersFresh ==
    \A r \in Reader :
        HasRead(r) /\ ~reader[r].late => reader[r].version >= since[reader[r].key]

\* The AI service is called when all has been read.
AllIsRead ==
    \A r \in Reader : reader[r].at \in {"call", "fill"} => reader[r].unread = {}

CacheInv ==
    /\ CacheTypeOK
    /\ PastOnly
    /\ ReadersFresh
    /\ AllIsRead
    /\ CacheFresh

\* No key is filled at the start.
LEMMA CacheInitInv == CacheInit => CacheInv
<1> SUFFICES ASSUME CacheInit PROVE CacheInv
    OBVIOUS
<1>1. CacheTypeOK
  <2>1. 0 \in Version
    BY AiCacheAssumption DEF Version
  <2> QED
    BY <2>1 DEF CacheInit, CacheTypeOK, Empty, Resting
<1>2. PastOnly /\ ReadersFresh /\ AllIsRead /\ CacheFresh
    BY DEF CacheInit, PastOnly, ReadersFresh, AllIsRead, HasRead, CacheFresh, Resting
<1> QED
    BY <1>1, <1>2 DEF CacheInv

\* Every step of the cache keeps the types.
LEMMA CacheTypeStep ==
    ASSUME CacheTypeOK, [CacheNext]_cvars PROVE CacheTypeOK'
<1> USE AiCacheAssumption DEF CacheTypeOK
<1>1. CASE Change
    BY <1>1 DEF Change, Version
<1>2. CASE Invalidate
    BY <1>2 DEF Invalidate
<1>3. ASSUME NEW f \in Feature, Drop(f) PROVE CacheTypeOK'
  <2> DEFINE Waiting == [at : {"build", "call", "fill"}, key : Feature,
                         unread : SUBSET Table, version : Version, late : BOOLEAN]
             Request == {Resting} \cup Waiting
  <2>1. ASSUME NEW r \in Reader PROVE reader'[r] \in Request
    <3>1. CASE HasRead(r) /\ reader[r].key = f
      <4>1. reader[r] \in Waiting
        BY <3>1 DEF HasRead
      <4>2. [reader[r] EXCEPT !.late = TRUE] \in Waiting
        BY <4>1
      <4> QED
        BY <1>3, <3>1, <4>2 DEF Drop
    <3>2. CASE ~(HasRead(r) /\ reader[r].key = f)
        BY <1>3, <3>2 DEF Drop
    <3> QED
        BY <3>1, <3>2
  <2>2. reader' \in [Reader -> Request]
    BY <1>3, <2>1, Zenon DEF Drop
  <2> QED
    BY <1>3, <2>2 DEF Drop
<1>4. ASSUME NEW f \in Feature, DropFails(f) PROVE CacheTypeOK'
    BY <1>4 DEF DropFails
<1>5. ASSUME NEW f \in Feature, Expire(f) PROVE CacheTypeOK'
    BY <1>5 DEF Expire
<1>6. ASSUME NEW r \in Reader, NEW f \in Feature, Miss(r, f) PROVE CacheTypeOK'
    BY <1>6 DEF Miss
<1>7. ASSUME NEW r \in Reader, NEW t \in Table, Build(r, t) PROVE CacheTypeOK'
  <2>1. /\ reader[r].key \in Feature /\ reader[r].unread \in SUBSET Table
        /\ reader[r].version \in Version /\ reader[r].late \in BOOLEAN
    BY <1>7 DEF Build, Resting
  <2> QED
    BY <1>7, <2>1 DEF Build
<1>8. ASSUME NEW r \in Reader, Answered(r) PROVE CacheTypeOK'
    BY <1>8 DEF Answered, Resting
<1>9. ASSUME NEW r \in Reader, BuildFails(r) \/ Refused(r) \/ FillFails(r)
      PROVE  CacheTypeOK'
    BY <1>9 DEF BuildFails, Refused, FillFails
<1>10. ASSUME NEW r \in Reader, Fill(r) PROVE CacheTypeOK'
    BY <1>10 DEF Fill, Filled, Resting
<1>11. CASE UNCHANGED cvars
    BY <1>11 DEF cvars
<1> QED
    BY <1>1, <1>2, <1>3, <1>4, <1>5, <1>6, <1>7, <1>8, <1>9, <1>10, <1>11 DEF CacheNext

\* A deletion marks the requests that have read before it, and the first read
\* of the others is still to come.
LEMMA DropFresh ==
    ASSUME CacheInv, NEW f \in Feature, Drop(f) PROVE ReadersFresh' /\ AllIsRead'
<1> USE DEF CacheInv, CacheTypeOK
<1> DEFINE Marked(r) == HasRead(r) /\ reader[r].key = f
<1>1. ASSUME NEW r \in Reader
      PROVE  reader'[r] = IF Marked(r) THEN [reader[r] EXCEPT !.late = TRUE] ELSE reader[r]
    BY DEF Drop
<1>2. ASSUME NEW r \in Reader, Marked(r)
      PROVE  /\ reader'[r].late
             /\ reader'[r].at = reader[r].at /\ reader'[r].unread = reader[r].unread
    BY <1>1, <1>2 DEF HasRead
<1> HIDE DEF Marked
<1>3. AllIsRead'
    BY <1>1, <1>2 DEF AllIsRead
<1>4. ASSUME NEW r \in Reader, HasRead(r)', ~reader'[r].late
      PROVE  reader'[r].version >= since'[reader'[r].key]
  <2>1. ~Marked(r) /\ reader'[r] = reader[r]
    BY <1>1, <1>2, <1>4
  <2>2. HasRead(r) /\ reader[r].key # f
    BY <1>4, <2>1 DEF HasRead, Marked
  <2>3. reader[r].key \in Feature
    BY <2>2 DEF HasRead
  <2>4. since'[reader[r].key] = since[reader[r].key]
    BY <2>2, <2>3 DEF Drop
  <2> QED
    BY <1>4, <2>1, <2>2, <2>4 DEF ReadersFresh
<1> QED
    BY <1>3, <1>4 DEF ReadersFresh

\* The first read of a request is as new as the records; the others do not
\* make its answer older.
LEMMA BuildFresh ==
    ASSUME CacheInv, NEW r \in Reader, NEW t \in Table, Build(r, t)
    PROVE  ReadersFresh' /\ AllIsRead'
<1> USE DEF CacheInv, CacheTypeOK
<1> DEFINE left == reader[r].unread \ {t}
           seen == IF HasRead(r) THEN reader[r].version ELSE version
<1>1. reader[r] # Resting /\ reader[r].key \in Feature
    BY DEF Build, Resting
<1>2. reader' = [reader EXCEPT ![r] =
                   [at |-> IF left = {} THEN "call" ELSE "build", key |-> reader[r].key,
                    unread |-> left, version |-> seen, late |-> reader[r].late]]
    BY DEF Build
<1>3. ~reader[r].late => seen >= since[reader[r].key]
  <2>1. CASE HasRead(r)
    BY <2>1 DEF ReadersFresh
  <2>2. CASE ~HasRead(r)
    BY <1>1, <2>2 DEF PastOnly
  <2> QED
    BY <2>1, <2>2
<1>4. since' = since
    BY DEF Build
<1> HIDE DEF left, seen
<1>5. /\ reader'[r].at \in {"call", "fill"} => reader'[r].unread = {}
      /\ ~reader'[r].late => reader'[r].version >= since'[reader'[r].key]
    BY <1>2, <1>3, <1>4
<1>6. ASSUME NEW q \in Reader, q # r PROVE reader'[q] = reader[q]
    BY <1>2, <1>6
<1>7. AllIsRead'
    BY <1>5, <1>6 DEF AllIsRead
<1>8. ASSUME NEW q \in Reader, HasRead(q)', ~reader'[q].late
      PROVE  reader'[q].version >= since'[reader'[q].key]
  <2>1. CASE q = r
    BY <1>5, <1>8, <2>1
  <2>2. CASE q # r
    BY <1>4, <1>6, <1>8, <2>2 DEF ReadersFresh, HasRead
  <2> QED
    BY <2>1, <2>2
<1> QED
    BY <1>7, <1>8 DEF ReadersFresh

\* Every step of the cache keeps the bounds.
LEMMA CacheFreshStep ==
    ASSUME CacheInv, [CacheNext]_cvars
    PROVE  PastOnly' /\ ReadersFresh' /\ AllIsRead' /\ CacheFresh'
<1> USE DEF CacheInv, CacheTypeOK, PastOnly, ReadersFresh, AllIsRead, HasRead, CacheFresh
<1> DEFINE Kept == PastOnly' /\ ReadersFresh' /\ AllIsRead' /\ CacheFresh'
<1>1. CASE Change
    BY <1>1 DEF Change, Version
<1>2. ASSUME NEW f \in Feature, Drop(f) PROVE Kept
  <2>1. PastOnly'
    BY <1>2 DEF Drop, Version
  <2>2. CacheFresh'
    BY <1>2 DEF Drop, Empty
  <2>3. ReadersFresh' /\ AllIsRead'
    BY <1>2, DropFresh
  <2> QED
    BY <2>1, <2>2, <2>3
<1>3. ASSUME NEW f \in Feature, Expire(f) PROVE Kept
    BY <1>3 DEF Expire, Empty
<1>4. ASSUME NEW r \in Reader, NEW f \in Feature, Miss(r, f) PROVE Kept
    BY <1>4 DEF Miss
<1>5. ASSUME NEW r \in Reader, NEW t \in Table, Build(r, t) PROVE Kept
  <2>1. ReadersFresh' /\ AllIsRead'
    BY <1>5, BuildFresh
  <2> QED
    BY <1>5, <2>1 DEF Build
<1>6. ASSUME NEW r \in Reader, Answered(r) PROVE Kept
    BY <1>6 DEF Answered, Resting
<1>7. ASSUME NEW r \in Reader, BuildFails(r) \/ Refused(r) \/ FillFails(r) PROVE Kept
    BY <1>7 DEF BuildFails, Refused, FillFails, Resting
<1>8. ASSUME NEW r \in Reader, Fill(r) PROVE Kept
  <2>1. HasRead(r)
    BY <1>8, AiCacheAssumption DEF Fill, Resting
  <2>2. ~reader[r].late => reader[r].version >= since[reader[r].key]
    BY <2>1
  <2>3. CacheFresh'
    BY <1>8, <2>2 DEF Fill
  <2>4. ReadersFresh' /\ AllIsRead'
    BY <1>8 DEF Fill, Resting
  <2> QED
    BY <1>8, <2>3, <2>4 DEF Fill
<1>9. CASE UNCHANGED <<version, cached, reader, since>>
    BY <1>9
<1> QED
    BY <1>1, <1>2, <1>3, <1>4, <1>5, <1>6, <1>7, <1>8, <1>9
       DEF CacheNext, cvars, Invalidate, DropFails

-----------------------------------------------------------------------------
(* The service *)

\* At the start nothing has been read or answered.
LEMMA AiInitInv == AiInit => AiIInv /\ CacheInv
<1> SUFFICES ASSUME AiInit PROVE AiIInv
    BY CacheInitInv DEF AiInit
<1>1. ctx \in Context
    BY BlankFits, AiServiceAssumption DEF AiInit
<1>2. CacheTypeOK
    BY CacheInitInv DEF AiInit, CacheInv
<1>3. AiTypeOK
    BY <1>1, <1>2, BlankFits, AiServiceAssumption DEF AiInit, AiTypeOK, NoAnswer
<1>4. AnswerFits
    BY DEF AiInit, AnswerFits, NoAnswer
<1> QED
    BY <1>3, <1>4 DEF AiInit, AiIInv, ReadsAreContexts

\* A parsed message is what one of the parsers made of it.
LEMMA ParseFits ==
    ASSUME AiIInv, NEW m \in Messages, NEW ai \in {"up", "down", "off"},
           ParseMessage(m, ai), part = "sms"
    PROVE  UNCHANGED <<ctx, sent, unread, changes>> /\ Answered200
<1>1. UNCHANGED <<ctx, sent, unread, changes>>
    BY DEF ParseMessage
<1>2. answer' = [status |-> 200, endpoint |-> "sms", message |-> m, ai |-> ai,
                 body |-> ParseSms(m, ai), classified |-> Classify(m),
                 category |-> Categorize(m)]
    BY DEF ParseMessage
<1>3. /\ answer'.status = 200 /\ answer'.endpoint = "sms"
      /\ answer'.message = m /\ answer'.body = ParseSms(m, ai)
    BY <1>2
<1>4. m \in Message
    BY AiServiceAssumption
<1>5. unread' = {}
    BY <1>1 DEF AiIInv, ReadsAreContexts
<1> QED
    BY <1>1, <1>3, <1>4, <1>5 DEF Answered200, AnswerFits

\* The records, the requests and the messages leave the cache alone.
LEMMA CacheUntouched ==
    ASSUME [AiNext]_aivars PROVE part' = part /\ [CacheNext]_cvars
  BY Zenon DEF AiNext, aivars

\* Every step keeps the invariant.
LEMMA AiStep ==
    ASSUME AiIInv, CacheInv, [AiNext]_aivars
    PROVE  AiIInv'
<1>1. CacheTypeOK /\ [CacheNext]_cvars => CacheTypeOK'
    BY CacheTypeStep
<1>2. part' = part /\ [CacheNext]_cvars
    BY CacheUntouched
<1>3. CacheTypeOK'
    BY <1>1, <1>2 DEF CacheInv
<1>4. CASE Records /\ part = "context"
  <2>1. ctx' \in Context /\ changes' \in 0 .. MaxChanges /\ UNCHANGED <<sent, unread, answer>>
    BY <1>4, RecordsStep DEF AiIInv
  <2>2. AiTypeOK'
    BY <1>2, <1>3, <2>1 DEF AiIInv, AiTypeOK
  <2>3. AnswerFits'
    BY <2>1 DEF AiIInv, AnswerFits
  <2> QED
    BY <1>2, <1>4, <2>2, <2>3 DEF AiIInv, ReadsAreContexts
<1>5. CASE Requests /\ part = "context"
  <2>1. /\ UNCHANGED <<ctx, changes>>
        /\ sent' \in Context /\ unread' \in SUBSET Parts
        /\ Answered200
    BY <1>5, RequestsStep
  <2>2. AiTypeOK'
    BY <1>2, <1>3, <2>1 DEF AiIInv, AiTypeOK, Answered200
  <2> QED
    BY <1>2, <1>5, <2>1, <2>2 DEF AiIInv, ReadsAreContexts, Answered200
<1>6. CASE /\ part = "sms"
           /\ \E m \in Messages, ai \in {"up", "down", "off"} : ParseMessage(m, ai)
  <2>1. UNCHANGED <<ctx, sent, unread, changes>> /\ Answered200
    BY <1>6, ParseFits
  <2>2. AiTypeOK'
    BY <1>2, <1>3, <2>1 DEF AiIInv, AiTypeOK, Answered200
  <2> QED
    BY <1>2, <2>1, <2>2 DEF AiIInv, ReadsAreContexts, Answered200
<1>7. CASE UNCHANGED xvars
  <2>1. AiTypeOK'
    BY <1>2, <1>3, <1>7 DEF AiIInv, AiTypeOK, xvars
  <2>2. AnswerFits' /\ ReadsAreContexts'
    BY <1>2, <1>7 DEF AiIInv, AnswerFits, ReadsAreContexts, xvars
  <2> QED
    BY <1>2, <2>1, <2>2 DEF AiIInv
<1> QED
    BY <1>2, <1>4, <1>5, <1>6, <1>7, Zenon DEF AiNext, aivars

-----------------------------------------------------------------------------
(* The parsers and the detectors *)

\* The direction of a message comes from the first of two lists with a keyword
\* in it; so parsers that differ have read a keyword that one of them lists
\* and the other does not.
LEMMA DirectionFromLists ==
    ASSUME NEW m \in Message, NEW C1, NEW D1, NEW C2, NEW D2,
           TypeIn(C1, D1, m) # Unread, TypeIn(C2, D2, m) # Unread,
           TypeIn(C1, D1, m) # TypeIn(C2, D2, m)
    PROVE  m.words \cap ((C1 \ C2) \cup (C2 \ C1)) # {}
  BY DEF TypeIn

\* What Judged adds to a parse leaves its direction as it is.
LEMMA DirectionKept ==
    ASSUME NEW m
    PROVE  /\ AiParse(m).type = TypeIn(AiCreditWords, AiDebitWords, m)
           /\ LocalParse(m).type = TypeIn(CreditWords, DebitWords, m)
  BY DEF AiParse, LocalParse, Judged, Fields

\* The best of the grades 0, a and b, of which 0 is always reached.
LEMMA GradeOfThree ==
    ASSUME NEW p, NEW q, NEW a \in Nat, NEW b \in Nat
    PROVE  Grade({<<TRUE, 0>>, <<p, a>>, <<q, b>>}) \in {0, a, b}
<1> DEFINE grades  == {<<TRUE, 0>>, <<p, a>>, <<q, b>>}
           reached == {g[2] : g \in {x \in grades : x[1]}}
<1>1. reached \subseteq {0, a, b}
  <2>1. ASSUME NEW g \in grades PROVE g[2] \in {0, a, b}
    <3>1. <<TRUE, 0>>[2] = 0 /\ <<p, a>>[2] = a /\ <<q, b>>[2] = b
      OBVIOUS
    <3>2. g = <<TRUE, 0>> \/ g = <<p, a>> \/ g = <<q, b>>
      BY <2>1, Zenon
    <3>3. g[2] = 0 \/ g[2] = a \/ g[2] = b
      BY <3>1, <3>2, Zenon
    <3> QED
      BY <3>3, Zenon
  <2> QED
    BY <2>1, Zenon
<1>2. 0 \in reached
  <2>1. <<TRUE, 0>> \in {x \in grades : x[1]}
    OBVIOUS
  <2>2. <<TRUE, 0>>[2] = 0
    OBVIOUS
  <2> QED
    BY <2>1, <2>2
<1> HIDE DEF reached
<1>3. \E x \in reached : \A y \in reached : x >= y
  <2>1. CASE b \in reached /\ b >= a
    BY <1>1, <2>1
  <2>2. CASE a \in reached /\ (a >= b \/ b \notin reached)
    BY <1>1, <2>2
  <2>3. CASE b \in reached /\ a \notin reached
    BY <1>1, <2>3
  <2>4. CASE a \notin reached /\ b \notin reached
    BY <1>1, <1>2, <2>4
  <2> QED
    BY <2>1, <2>2, <2>3, <2>4
<1>4. Max(reached) \in reached
    BY <1>3 DEF Max
<1>5. Grade(grades) = Max(reached)
    BY DEF Grade, reached
<1> QED
    BY <1>1, <1>4, <1>5

\* The same for one grade beside 0.
LEMMA GradeOfTwo ==
    ASSUME NEW p, NEW a \in Nat
    PROVE  Grade({<<TRUE, 0>>, <<p, a>>}) \in {0, a}
<1>1. {<<TRUE, 0>>, <<p, a>>} = {<<TRUE, 0>>, <<p, a>>, <<p, a>>}
    OBVIOUS
<1>2. Grade({<<TRUE, 0>>, <<p, a>>, <<p, a>>}) \in {0, a, a}
    BY GradeOfThree
<1> QED
    BY <1>1, <1>2

\* The smaller of two numbers.
LEMMA MinOfTwo ==
    ASSUME NEW a \in Int, NEW b \in Int
    PROVE  Min({a, b}) = IF a <= b THEN a ELSE b
<1>1. CASE a <= b
    BY <1>1 DEF Min
<1>2. CASE b < a
    BY <1>2 DEF Min
<1> QED
    BY <1>1, <1>2

\* What was paid twice passes the threshold of the AI service: the deductions
\* never exceed what two payments add.
LEMMA PaidTwiceIsFound ==
    ASSUME NEW S, Cardinality(S) \in Nat, Cardinality(S) >= 2
    PROVE  AiConfidence(S) >= 50
<1> DEFINE n == Cardinality(S)
           steady == Grade({<<TRUE, 0>>, <<VariesBelow(S, 20, 1), 10>>,
                            <<VariesBelow(S, 10, 1), 20>>})
           erratic == Grade({<<TRUE, 0>>, <<~VariesBelow(S, 50, 1), 10>>})
           regular == Grade({<<TRUE, 0>>, <<n >= 3 /\ GapsVaryBelow(S, 7), 5>>,
                             <<n >= 3 /\ GapsVaryBelow(S, 3), 15>>})
           often == Min({5 * n, 20})
<1>1. steady \in {0, 10, 20}
    BY GradeOfThree
<1>2. erratic \in {0, 10}
    BY GradeOfTwo
<1>3. regular \in {0, 5, 15}
    BY GradeOfThree
<1>4. often \in Nat /\ often >= 10 /\ often <= 20
    BY MinOfTwo
<1>5. AiConfidence(S) = Min({100, 50 + often + steady - erratic + regular})
    BY DEF AiConfidence
<1> HIDE DEF steady, erratic, regular, often
<1>6. /\ 50 + often + steady - erratic + regular \in Int
      /\ 50 + often + steady - erratic + regular >= 50
    BY <1>1, <1>2, <1>3, <1>4
<1> QED
    BY <1>5, <1>6, MinOfTwo

\* The detector of the AI service lists every merchant with two payments.
LEMMA TwoPaymentsListed ==
    ASSUME NEW S \in SUBSET Entry, NEW m \in Merchant, Cardinality(At(S, m)) >= 2
    PROVE  AiFound(At(S, m)) \in DetectByAi(S)
<1>1. IsFiniteSet(At(S, m))
  <2>1. At(S, m) \subseteq Entry
    BY DEF At
  <2> QED
    BY <2>1, AiContextAssumption, FS_Subset
<1>2. Cardinality(At(S, m)) \in Nat /\ At(S, m) # {}
    BY <1>1, FS_CardinalityType, FS_EmptySet
<1>3. AiConfidence(At(S, m)) >= 50
    BY <1>2, PaidTwiceIsFound
<1>4. m \in {EntryOf[e].merchant : e \in S} \ {None}
    BY <1>2, AiContextAssumption DEF At
<1> QED
    BY <1>3, <1>4 DEF DetectByAi

-----------------------------------------------------------------------------
(* The theorems *)

\* The invariants hold in every state of the service and the proxy's cache.
THEOREM AiInvariance == AiSpec => [](AiIInv /\ CacheInv)
<1>1. AiIInv /\ CacheInv /\ [AiNext]_aivars => AiIInv' /\ CacheInv'
    BY AiStep, CacheUntouched, CacheTypeStep, CacheFreshStep DEF CacheInv
<1> QED
    BY <1>1, AiInitInv, PTL DEF AiSpec

\* The records of the user, the request in progress, its answer and the cache
\* stay in their types (buildUserContext, AiProxyService, withCache).
THEOREM AiTypeCorrect == AiSpec => []AiTypeOK
<1>1. AiIInv => AiTypeOK
    BY DEF AiIInv
<1> QED
    BY <1>1, AiInvariance, PTL

\* Whatever a user has bought, two entries of the last 90 days at one merchant
\* are enough for the AI service to list them (SubscriptionDetectorService).
THEOREM TwoPaymentsAreListed == AiSpec => []PaidTwiceIsListed
<1>1. ASSUME AiIInv PROVE PaidTwiceIsListed
  <2> DEFINE rows == Recent(sent.txs, DetectionWindow)
  <2> SUFFICES ASSUME answer.status = 200, answer.endpoint = "subscriptions",
                      NEW m \in Merchant, Cardinality(At(rows, m)) >= 2
               PROVE  \E f \in answer.body : f.entries = At(rows, m)
      BY DEF PaidTwiceIsListed, DetectionAnswered
  <2>1. rows \in SUBSET Entry
      BY <1>1 DEF AiIInv, AiTypeOK, Context, Recent
  <2>2. answer.body = DetectByAi(rows)
      BY <1>1 DEF AiIInv, AnswerFits
  <2> HIDE DEF rows
  <2>3. AiFound(At(rows, m)) \in DetectByAi(rows)
      BY <2>1, TwoPaymentsListed
  <2>4. AiFound(At(rows, m)).entries = At(rows, m)
      BY DEF AiFound
  <2> QED
      BY <2>2, <2>3, <2>4
<1> QED
    BY <1>1, AiInvariance, PTL

\* Counting whole days in n gaps instead of hours makes the frequency one step
\* shorter at most, and never longer: no two thresholds are a day apart
\* (_analyze_frequency of the AI service, analyzeFrequency of the backend).
THEOREM WholeDaysCostOneStep ==
    ASSUME NEW n \in Nat \ {0}, NEW hours \in Nat, NEW days \in Nat,
           24 * days <= hours, hours < 24 * days + 24 * n
    PROVE  \E i \in DOMAIN Pace :
             /\ Frequency(hours, 24 * n) = Pace[i]
             /\ Frequency(days, n) \in {Pace[i], Pace[IF i = 1 THEN 1 ELSE i - 1]}
<1> DEFINE above(k) == k * (24 * n) < hours
           over(k)  == k * n < days
<1>1. /\ over(2) => above(2)
      /\ over(10) => above(10) /\ over(2) /\ above(2)
      /\ over(40) => above(40) /\ over(10) /\ above(10)
      /\ over(100) => above(100) /\ over(40) /\ above(40)
    OBVIOUS
<1>2. /\ above(10) => over(2) /\ above(2)
      /\ above(40) => over(10) /\ above(10)
      /\ above(100) => over(40) /\ above(40)
    OBVIOUS
<1>3. Frequency(hours, 24 * n) =
        CASE ~above(2) -> "DAILY" [] above(2) /\ ~above(10) -> "WEEKLY"
          [] above(10) /\ ~above(40) -> "MONTHLY" [] above(40) /\ ~above(100) -> "QUARTERLY"
          [] OTHER -> "YEARLY"
    BY DEF Frequency
<1>4. Frequency(days, n) =
        CASE ~over(2) -> "DAILY" [] over(2) /\ ~over(10) -> "WEEKLY"
          [] over(10) /\ ~over(40) -> "MONTHLY" [] over(40) /\ ~over(100) -> "QUARTERLY"
          [] OTHER -> "YEARLY"
    BY DEF Frequency
<1> DEFINE Apart(i) == /\ Frequency(hours, 24 * n) = Pace[i]
                       /\ Frequency(days, n) \in {Pace[i], Pace[IF i = 1 THEN 1 ELSE i - 1]}
<1> HIDE DEF above, over
<1>5. CASE ~above(2)
  <2>1. Apart(1)
    BY <1>1, <1>2, <1>3, <1>4, <1>5 DEF Pace
  <2> QED
    BY <2>1 DEF Pace
<1>6. CASE above(2) /\ ~above(10)
  <2>1. Apart(2)
    BY <1>1, <1>2, <1>3, <1>4, <1>6 DEF Pace
  <2> QED
    BY <2>1 DEF Pace
<1>7. CASE above(10) /\ ~above(40)
  <2>1. Apart(3)
    BY <1>1, <1>2, <1>3, <1>4, <1>7 DEF Pace
  <2> QED
    BY <2>1 DEF Pace
<1>8. CASE above(40) /\ ~above(100)
  <2>1. Apart(4)
    BY <1>1, <1>2, <1>3, <1>4, <1>8 DEF Pace
  <2> QED
    BY <2>1 DEF Pace
<1>9. CASE above(100)
  <2>1. Apart(5)
    BY <1>1, <1>2, <1>3, <1>4, <1>9 DEF Pace
  <2> QED
    BY <2>1 DEF Pace
<1> QED
    BY <1>2, <1>5, <1>6, <1>7, <1>8, <1>9

\* What the AI service rounds to hundredths is at most half a hundredth away
\* from the quotient that the backend stores.
THEOREM RoundedAmountsAreClose ==
    ASSUME NEW amount \in Nat, NEW n \in Nat \ {0}
    PROVE  CloseAmounts((200 * amount + n) \div (2 * n), <<amount, n>>)
  BY DEF CloseAmounts

\* Whether the AI service could be reached changes the direction of a message
\* only by a keyword that one parser has for credits and the other has not
\* (parseSms).
THEOREM OneDirection == AiSpec => []DirectionAgrees
<1>1. ASSUME AiIInv PROVE DirectionAgrees
  <2> SUFFICES ASSUME answer.status = 200, answer.endpoint = "sms",
                      Complete(answer.body), Complete(LocalParse(answer.message)),
                      answer.body.type # LocalParse(answer.message).type
               PROVE  answer.message.words
                        \cap ((AiCreditWords \ CreditWords) \cup (CreditWords \ AiCreditWords))
                        # {}
      BY DEF DirectionAgrees
  <2> DEFINE m == answer.message
  <2>1. m \in Message /\ answer.body \in {AiParse(m), LocalParse(m)}
      BY <1>1 DEF AiIInv, AnswerFits, ParseSms
  <2>2. answer.body = AiParse(m)
      BY <2>1
  <2>3. AiParse(m).type # Unread /\ LocalParse(m).type # Unread
      BY <2>2 DEF Complete
  <2>4. /\ TypeIn(AiCreditWords, AiDebitWords, m) # Unread
        /\ TypeIn(CreditWords, DebitWords, m) # Unread
        /\ TypeIn(AiCreditWords, AiDebitWords, m) # TypeIn(CreditWords, DebitWords, m)
      BY <2>2, <2>3, DirectionKept
  <2>5. m.words \cap ((AiCreditWords \ CreditWords) \cup (CreditWords \ AiCreditWords)) # {}
      BY <2>1, <2>4, DirectionFromLists
  <2> QED
      BY <2>5
<1> QED
    BY <1>1, AiInvariance, PTL

\* Where one of the reads behind a cached answer is older than the last deletion
\* of its key, the first of them came before that deletion and the answer was
\* filled in after it (withCache, buildUserContext, invalidateUser).
THEOREM NoOtherStaleAnswer == AiSpec => []CacheFresh
<1>1. CacheInv => CacheFresh
    BY DEF CacheInv
<1> QED
    BY <1>1, AiInvariance, PTL
=============================================================================
