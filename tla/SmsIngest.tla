----------------------------- MODULE SmsIngest -----------------------------
(***************************************************************************)
(* SmsService.ingestSms: concurrent calls that carry bank messages, some   *)
(* of them the same message again.  A call looks its dedup key up, writes  *)
(* an SmsLog, parses, and upserts a Transaction on the unique index        *)
(* (userId, externalReferenceId); it then links its log to the transaction *)
(* under the unique index on SmsLog.transactionId, and publishes           *)
(* transaction.created if the row it got back looks new.  Each await is an *)
(* action.  The user edits and soft-deletes transactions meanwhile.        *)
(*                                                                         *)
(* One user is modelled: the key starts with the user id.                  *)
(***************************************************************************)
EXTENDS Integers, FiniteSets

CONSTANTS
    Sms,           \* messages: sender and body
    Stamp,         \* millisecond timestamps a device reports for a message
    Call,          \* ingest calls, each handled once
    NoKey,         \* placeholder of a call that has not started
    RegexParsed,   \* messages in which the local parser finds amount and type
    UseAiParser,   \* SMS_USE_AI_PARSER
    Bumps,         \* what an upsert with an empty update may do to updatedAt:
                   \* leave it (FALSE) or set it (TRUE)
    Faults         \* the kinds of failure that may happen

ASSUME IngestAssumption ==
    /\ Stamp \subseteq Nat
    /\ RegexParsed \subseteq Sms
    /\ UseAiParser \in BOOLEAN
    /\ Bumps \subseteq BOOLEAN
    /\ Faults \subseteq {"database", "crash", "broker"}

\* computeDedupHash: message and timestamp floored to the second.
DedupKey(sms, stamp) == <<sms, stamp \div 1000>>
Key == {DedupKey(sms, stamp) : sms \in Sms, stamp \in Stamp}

ASSUME KeyAssumption == NoKey \notin Key

VARIABLES
    tx,        \* Transaction row of each key; "deleted" has deletedAt set
    touched,   \* keys whose row has updatedAt # createdAt
    log,       \* SmsLog row of each call
    call,      \* the handlers' local state
    events,    \* transaction.created messages in the broker, per key
    bumps      \* which member of Bumps the database follows

vars == <<tx, touched, log, call, events, bumps>>

-----------------------------------------------------------------------------
(* Types *)

Pc == {"idle", "find", "log", "parse", "mark", "upsert", "link", "publish",
       "done", "failed", "crashed"}
\* parse: whether amount and type were both found; row: whether the upserted
\* row has createdAt = updatedAt.
Handler == [pc : Pc, key : Key \cup {NoKey},
            parse : {"none", "complete", "partial"},
            row : {"none", "fresh", "stale"}]

TypeOK ==
    /\ tx \in [Key -> {"absent", "live", "deleted"}]
    /\ touched \in SUBSET Key
    /\ log \in [Call -> {"none", "raw", "parsed", "linked"}]
    /\ call \in [Call -> Handler]
    /\ events \in [Key -> Nat]
    /\ bumps \in Bumps

InFlight(c) == call[c].pc \notin {"idle", "done", "failed", "crashed"}
Goto(c, pc) == call' = [call EXCEPT ![c].pc = pc]

\* transactionCreated of the response: set between linking and publishing.
Created(c) == log[c] = "linked" /\ call[c].row = "fresh"

-----------------------------------------------------------------------------
(* The handler *)

Arrive(c, sms, stamp) ==
    /\ call[c].pc = "idle"
    /\ call' = [call EXCEPT ![c] =
                  [pc |-> "find", key |-> DedupKey(sms, stamp),
                   parse |-> "none", row |-> "none"]]
    /\ UNCHANGED <<tx, touched, log, events, bumps>>

\* The soft-delete middleware hides tombstones from findUnique.
Find(c) ==
    /\ call[c].pc = "find"
    /\ Goto(c, IF tx[call[c].key] = "live" THEN "done" ELSE "log")
    /\ UNCHANGED <<tx, touched, log, events, bumps>>

CreateLog(c) ==
    /\ call[c].pc = "log"
    /\ log' = [log EXCEPT ![c] = "raw"]
    /\ Goto(c, "parse")
    /\ UNCHANGED <<tx, touched, events, bumps>>

\* The AI parse counts only when complete; the regex parser is the fallback
\* for an incomplete answer, an error and a timeout alike.
Parse(c) ==
    /\ call[c].pc = "parse"
    /\ \E parse \in {"complete", "partial"} :
         /\ parse = "partial" => call[c].key[1] \notin RegexParsed
         /\ parse = "complete" => UseAiParser \/ call[c].key[1] \in RegexParsed
         /\ call' = [call EXCEPT ![c] = [pc |-> "mark", key |-> call[c].key,
                                        parse |-> parse, row |-> "none"]]
    /\ UNCHANGED <<tx, touched, log, events, bumps>>

\* Mutant of MarkParsed: the log is left for later.
MarkParsedLater(c) ==
    /\ call[c].pc = "mark"
    /\ Goto(c, IF call[c].parse = "complete" THEN "upsert" ELSE "done")
    /\ UNCHANGED <<tx, touched, log, events, bumps>>

\* Mutant of MarkParsed: the outcome of the parse is stored for the flag.
MarkParsedOutcome(c) ==
    /\ call[c].pc = "mark"
    /\ log' = [log EXCEPT ![c] = call[c].parse]
    /\ Goto(c, IF call[c].parse = "complete" THEN "upsert" ELSE "done")
    /\ UNCHANGED <<tx, touched, events, bumps>>

MarkParsed(c) ==
    /\ call[c].pc = "mark"
    /\ log' = [log EXCEPT ![c] = "parsed"]
    /\ Goto(c, IF call[c].parse = "complete" THEN "upsert" ELSE "done")
    /\ UNCHANGED <<tx, touched, events, bumps>>

\* Mutant of Upsert: the update branch clears deletedAt.
UpsertRevives(c) ==
    LET k == call[c].key IN
    /\ call[c].pc = "upsert"
    /\ tx' = [tx EXCEPT ![k] = "live"]
    /\ call' = [call EXCEPT ![c] =
                  [pc |-> "link", key |-> k, parse |-> call[c].parse,
                   row |-> IF k \in touched THEN "stale" ELSE "fresh"]]
    /\ UNCHANGED <<touched, log, events, bumps>>

\* upsert sees tombstones; update: {} keeps the row as it is.
Upsert(c) ==
    LET k == call[c].key IN
    /\ call[c].pc = "upsert"
    /\ IF tx[k] = "absent"
         THEN /\ tx' = [tx EXCEPT ![k] = "live"]
              /\ UNCHANGED touched
         ELSE /\ touched' = IF bumps THEN touched \cup {k} ELSE touched
              /\ UNCHANGED tx
    /\ call' = [call EXCEPT ![c] =
                  [pc |-> "link", key |-> k, parse |-> call[c].parse,
                   row |-> IF k \in touched' THEN "stale" ELSE "fresh"]]
    /\ UNCHANGED <<log, events, bumps>>

LinkedToOther(c) ==
    \E d \in Call : d # c /\ log[d] = "linked" /\ call[d].key = call[c].key

\* Mutant of Link: SmsLog.transactionId without its unique index.
LinkUnchecked(c) ==
    /\ call[c].pc = "link"
    /\ log' = [log EXCEPT ![c] = "linked"]
    /\ Goto(c, IF call[c].row = "fresh" THEN "publish" ELSE "done")
    /\ UNCHANGED <<tx, touched, events, bumps>>

\* A second log for the transaction violates the unique index; the error is
\* caught and the call answers success without a transaction.
Link(c) ==
    /\ call[c].pc = "link"
    /\ IF LinkedToOther(c)
         THEN /\ Goto(c, "done")
              /\ UNCHANGED log
         ELSE /\ log' = [log EXCEPT ![c] = "linked"]
              /\ Goto(c, IF call[c].row = "fresh" THEN "publish" ELSE "done")
    /\ UNCHANGED <<tx, touched, events, bumps>>

\* emit swallows a broker error: the event is dropped.
Publish(c) ==
    /\ call[c].pc = "publish"
    /\ \/ events' = [events EXCEPT ![call[c].key] = @ + 1]
       \/ "broker" \in Faults /\ UNCHANGED events
    /\ Goto(c, "done")
    /\ UNCHANGED <<tx, touched, log, bumps>>

\* A database call rejects: outside the try block the call answers 500,
\* inside it the error is logged and the call answers success.
DatabaseError(c) ==
    /\ "database" \in Faults
    /\ \/ call[c].pc \in {"find", "log", "mark"} /\ Goto(c, "failed")
       \/ call[c].pc \in {"upsert", "link"} /\ Goto(c, "done")
    /\ UNCHANGED <<tx, touched, log, events, bumps>>

Crash(c) ==
    /\ "crash" \in Faults
    /\ InFlight(c)
    /\ Goto(c, "crashed")
    /\ UNCHANGED <<tx, touched, log, events, bumps>>

-----------------------------------------------------------------------------
(* Other writers of the Transaction table *)

\* TransactionService.update, or the behaviour tag of the enrichment.
Edit(k) ==
    /\ tx[k] = "live"
    /\ touched' = touched \cup {k}
    /\ UNCHANGED <<tx, log, call, events, bumps>>

\* TransactionService.delete sets deletedAt.
Delete(k) ==
    /\ tx[k] = "live"
    /\ tx' = [tx EXCEPT ![k] = "deleted"]
    /\ touched' = touched \cup {k}
    /\ UNCHANGED <<log, call, events, bumps>>

-----------------------------------------------------------------------------

Init ==
    /\ tx = [k \in Key |-> "absent"]
    /\ touched = {}
    /\ log = [c \in Call |-> "none"]
    /\ call = [c \in Call |-> [pc |-> "idle", key |-> NoKey, parse |-> "none",
                               row |-> "none"]]
    /\ events = [k \in Key |-> 0]
    /\ bumps \in Bumps

HandlerStep(c) ==
    \/ Find(c)
    \/ CreateLog(c)
    \/ Parse(c)
    \/ MarkParsed(c)
    \/ Upsert(c)
    \/ Link(c)
    \/ Publish(c)

Next ==
    \/ \E c \in Call, sms \in Sms, stamp \in Stamp : Arrive(c, sms, stamp)
    \/ \E c \in Call : HandlerStep(c) \/ DatabaseError(c) \/ Crash(c)
    \/ \E k \in Key : Edit(k) \/ Delete(k)

Spec == Init /\ [][Next]_vars

-----------------------------------------------------------------------------
(* Properties *)

\* However the duplicates of a message interleave, fail and are retried, the
\* transaction is announced at most once: the unique index on
\* SmsLog.transactionId decides which of the racers may publish.
AtMostOneEvent == \A k \in Key : events[k] <= 1

\* No two calls report transactionCreated for the same transaction, so the
\* counts of the batch response add up to rows.
CreatedReportedOnce ==
    \A c, d \in Call :
        c # d /\ Created(c) /\ Created(d) => call[c].key # call[d].key

\* "Persist the raw SMS first": a transaction always has a parsed log of its
\* message behind it, even when the call that made it failed or was cut.
TransactionHasLog ==
    \A k \in Key : tx[k] # "absent" =>
        \E c \in Call : call[c].key = k /\ log[c] \in {"parsed", "linked"}

\* The ingest path implements the ledger's promise.
Ledger == INSTANCE TransactionLedger
            WITH Entry <- Key, ledger <- tx, announcements <- events
ImplementsLedger == Ledger!Spec

-----------------------------------------------------------------------------
(* What comments and tests of the repository say, refuted by the code. *)

\* rabbitmq.consumer.ts:57-59: ingestSms publishes a single event for the
\* transaction it upserts.  Checked with every call finished, no fault, and the
\* empty update a no-op, as its comment says.
FinishedMeansAnnounced ==
    (\A c \in Call : ~InFlight(c))
        => \A k \in Key : tx[k] = "live" => events[k] = 1
=============================================================================
