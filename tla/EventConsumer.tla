---------------------------- MODULE EventConsumer ----------------------------
(***************************************************************************)
(* RabbitMQConsumer: the handlers of transaction.created (its notification *)
(* and subscription branch), subscription.detected and notifications, with *)
(* the NotificationService they call; and the subscription scan that runs  *)
(* beside them.  One user and one merchant are modelled, all transactions  *)
(* are debits.  The enrichment branch shares nothing with this one.        *)
(*                                                                         *)
(* Preferences may change at any time, so whether a notification is wanted *)
(* and pushed is a free choice each time they are read.                    *)
(***************************************************************************)
EXTENDS Naturals, FiniteSets, TLC

CONSTANTS
    Tx,          \* transactions of the merchant; each is announced at most once
    Scan,        \* subscription scans: the weekly cron, POST /subscriptions/detect
    Threshold,   \* transactions that make a pattern (3)
    NameIsKey,   \* whether the merchant's name is in lower case, trimmed
    NoSub,       \* placeholder
    Faults       \* "broker", "database", "cache", "crash"

Worker == Tx \cup Scan

ASSUME ConsumerAssumption ==
    /\ Tx \cap Scan = {}
    /\ NameIsKey \in BOOLEAN
    /\ NoSub \notin Worker
    /\ Threshold \in Nat \ {0}
    /\ Faults \subseteq {"broker", "database", "cache", "crash"}

VARIABLES
    tx,        \* Transaction rows; "deleted" has deletedAt set
    sub,       \* Subscription row made by each worker
    cooldown,  \* whether the cache holds the merchant's detection key
    worker,    \* local state of handlers and scans
    rows,      \* in-app Notification rows that each worker has caused, by kind
    queue,     \* messages on the notifications queue that repeat such a row
    copies,    \* PUSH Notification rows written from those messages
    owed       \* transactions that a handler has found and owes the subscription
               \* check; auxiliary

vars == <<tx, sub, cooldown, worker, rows, queue, copies, owed>>

-----------------------------------------------------------------------------
(* Types *)

Note == {"transaction", "subscription"}
Pc == {"idle", "queued", "fetch", "notify", "row", "request", "cooldown",
       "claim", "history", "existing", "create", "scan", "match", "update",
       "publish", "done"}

TypeOK ==
    /\ tx \in [Tx -> {"absent", "live", "deleted"}]
    /\ sub \in [Worker -> {"none", "active", "inactive", "deleted"}]
    /\ cooldown \in BOOLEAN
    /\ worker \in [Worker -> [pc : Pc, note : Note, about : Worker \cup {NoSub}]]
    /\ rows \in [Worker -> [Note -> Nat]]
    /\ queue \in [Worker -> [Note -> Nat]]
    /\ copies \in [Worker -> [Note -> Nat]]
    /\ owed \in SUBSET Tx

Goto(p, pc) == worker' = [worker EXCEPT ![p].pc = pc]

\* The finds of the soft-delete middleware see these subscriptions.
Stored == {m \in Worker : sub[m] \in {"active", "inactive"}}
Active == {m \in Worker : sub[m] = "active"}

\* A scan stores the lower-case key as the subscription's merchant; the
\* handler looks for the name as the transaction has it.
Known == {m \in Active : m \in Tx \/ NameIsKey}

Pattern == Cardinality({t \in Tx : tx[t] = "live"}) >= Threshold

\* Where a handler goes when a notification is over, however it went.
After(p) == IF worker[p].note = "transaction" THEN "cooldown" ELSE "done"

-----------------------------------------------------------------------------
(* handleTransactionCreated *)

\* A transaction is stored and its event published, or dropped by emit.
Create(t) ==
    /\ tx[t] = "absent"
    /\ tx' = [tx EXCEPT ![t] = "live"]
    /\ \/ Goto(t, "queued")
       \/ "broker" \in Faults /\ UNCHANGED worker
    /\ UNCHANGED <<sub, cooldown, rows, queue, copies, owed>>

\* The broker hands the message over and forgets it: noAck is not set, and the
\* default of the transport, which is not in the repository, is to confirm on
\* delivery.  No handler could confirm by itself, none has the channel.
Take(t) ==
    /\ t \in Tx
    /\ worker[t].pc = "queued"
    /\ Goto(t, "fetch")
    /\ UNCHANGED <<tx, sub, cooldown, rows, queue, copies, owed>>

Fetch(t) ==
    /\ t \in Tx
    /\ worker[t].pc = "fetch"
    /\ IF tx[t] = "live"
          THEN Goto(t, "notify") /\ owed' = owed \cup {t}
          ELSE Goto(t, "done") /\ UNCHANGED owed
    /\ UNCHANGED <<tx, sub, cooldown, rows, queue, copies>>

-----------------------------------------------------------------------------
(* NotificationService: preferences, the row, push and the request          *)

Notify(p) ==
    /\ worker[p].pc = "notify"
    /\ \/ Goto(p, "row")
       \/ Goto(p, After(p))
    /\ UNCHANGED <<tx, sub, cooldown, rows, queue, copies, owed>>

\* The in-app row; with push disabled that is all.
Row(p) ==
    /\ worker[p].pc = "row"
    /\ rows' = [rows EXCEPT ![p][worker[p].note] = @ + 1]
    /\ Goto(p, "request") \/ Goto(p, After(p))
    /\ UNCHANGED <<tx, sub, cooldown, queue, copies, owed>>

\* sendPushNotification: the push, then a request on the notifications queue.
\* An error of the database ends it before the request, a broken broker is
\* only logged, and what follows depends on neither.
Request(p) ==
    /\ worker[p].pc = "request"
    /\ \/ queue' = [queue EXCEPT ![p][worker[p].note] = @ + 1]
       \/ Faults \cap {"broker", "database"} # {} /\ UNCHANGED queue
    /\ Goto(p, After(p))
    /\ UNCHANGED <<tx, sub, cooldown, rows, copies, owed>>

\* handleNotificationRequest: a second row, of the channel PUSH, with the
\* title and the text of the first.  The message is gone whether or not the
\* row can be written.
Copy(p, note) ==
    /\ queue[p][note] > 0
    /\ queue' = [queue EXCEPT ![p][note] = @ - 1]
    /\ \/ copies' = [copies EXCEPT ![p][note] = @ + 1]
       \/ Faults \cap {"database", "crash"} # {} /\ UNCHANGED copies
    /\ UNCHANGED <<tx, sub, cooldown, worker, rows, owed>>

-----------------------------------------------------------------------------
(* maybeCheckForSubscriptionPattern and checkForSubscriptionPattern         *)

\* A cache that fails counts as a free cooldown.
Cooldown(t) ==
    /\ worker[t].pc = "cooldown"
    /\ owed' = owed \ {t}
    /\ \/ cooldown /\ Goto(t, "done")
       \/ (~cooldown \/ "cache" \in Faults) /\ Goto(t, "claim")
    /\ UNCHANGED <<tx, sub, cooldown, rows, queue, copies>>

Claim(t) ==
    /\ worker[t].pc = "claim"
    /\ \/ cooldown' = TRUE
       \/ "cache" \in Faults /\ UNCHANGED cooldown
    /\ Goto(t, "history")
    /\ UNCHANGED <<tx, sub, rows, queue, copies, owed>>

History(t) ==
    /\ worker[t].pc = "history"
    /\ Goto(t, IF Pattern THEN "existing" ELSE "done")
    /\ UNCHANGED <<tx, sub, cooldown, rows, queue, copies, owed>>

\* Amounts that vary too much are no subscription.
Existing(t) ==
    /\ worker[t].pc = "existing"
    /\ \/ Goto(t, "done")
       \/ Known = {} /\ Goto(t, "create")
    /\ UNCHANGED <<tx, sub, cooldown, rows, queue, copies, owed>>

\* Mutant of CreateSub: a status that the enum does not have.
CreateSubDetected(p) ==
    /\ worker[p].pc = "create"
    /\ sub' = [sub EXCEPT ![p] = "detected"]
    /\ Goto(p, "done")
    /\ UNCHANGED <<tx, cooldown, rows, queue, copies, owed>>

\* The new subscription is notified about like a payment that is due.
CreateSub(p) ==
    /\ worker[p].pc = "create"
    /\ sub' = [sub EXCEPT ![p] = "active"]
    /\ worker' = [worker EXCEPT ![p] =
                    [pc |-> IF p \in Scan THEN "publish" ELSE "notify",
                     note |-> "subscription", about |-> p]]
    /\ UNCHANGED <<tx, cooldown, rows, queue, copies, owed>>

-----------------------------------------------------------------------------
(* detectSubscriptions, saveDetectedSubscriptions and the event they send   *)

StartScan(s) ==
    /\ worker[s].pc = "idle"
    /\ \/ Pattern /\ Goto(s, "match")
       \/ Goto(s, "done")
    /\ UNCHANGED <<tx, sub, cooldown, rows, queue, copies, owed>>

Match(s) ==
    /\ worker[s].pc = "match"
    /\ \/ \E m \in Stored : worker' = [worker EXCEPT ![s] =
            [pc |-> "update", note |-> "subscription", about |-> m]]
       \/ Stored = {} /\ Goto(s, "create")
    /\ UNCHANGED <<tx, sub, cooldown, rows, queue, copies, owed>>

\* Mutant of Update: the status is set along with amount and frequency.
UpdateReactivates(s) ==
    /\ worker[s].pc = "update"
    /\ sub' = [sub EXCEPT ![worker[s].about] = "active"]
    /\ Goto(s, "publish")
    /\ UNCHANGED <<tx, cooldown, rows, queue, copies, owed>>

\* Amount and frequency are updated; a row deleted meanwhile is an error.
Update(s) ==
    /\ worker[s].pc = "update"
    /\ Goto(s, IF worker[s].about \in Stored THEN "publish" ELSE "done")
    /\ UNCHANGED <<tx, sub, cooldown, rows, queue, copies, owed>>

Publish(s) ==
    /\ worker[s].pc = "publish"
    /\ \/ Goto(s, "queued")
       \/ "broker" \in Faults /\ Goto(s, "done")
    /\ UNCHANGED <<tx, sub, cooldown, rows, queue, copies, owed>>

\* handleSubscriptionDetected
TakeDetected(s) ==
    /\ s \in Scan
    /\ worker[s].pc = "queued"
    /\ Goto(s, "fetch")
    /\ UNCHANGED <<tx, sub, cooldown, rows, queue, copies, owed>>

FetchDetected(s) ==
    /\ s \in Scan
    /\ worker[s].pc = "fetch"
    /\ Goto(s, IF worker[s].about \in Stored THEN "notify" ELSE "done")
    /\ UNCHANGED <<tx, sub, cooldown, rows, queue, copies, owed>>

-----------------------------------------------------------------------------
(* The user, the cache and failures *)

DeleteTx(t) ==
    /\ tx[t] = "live"
    /\ tx' = [tx EXCEPT ![t] = "deleted"]
    /\ UNCHANGED <<sub, cooldown, worker, rows, queue, copies, owed>>

\* Pause and cancel, resume, delete.
Manage(m) ==
    /\ m \in Stored
    /\ \E status \in {"active", "inactive", "deleted"} \ {sub[m]} :
          sub' = [sub EXCEPT ![m] = status]
    /\ UNCHANGED <<tx, cooldown, worker, rows, queue, copies, owed>>

CooldownExpires ==
    /\ cooldown
    /\ cooldown' = FALSE
    /\ UNCHANGED <<tx, sub, worker, rows, queue, copies, owed>>

\* Mutant of DatabaseError: a notification that fails takes the detection along.
DatabaseErrorUncaught(p) ==
    /\ "database" \in Faults
    /\ worker[p].pc \in {"fetch", "notify", "row", "history", "existing", "create",
                        "match", "update"}
    /\ Goto(p, "done")
    /\ UNCHANGED <<tx, sub, cooldown, rows, queue, copies, owed>>

\* A call to the database rejects.  Only the notification of a transaction
\* has a catch of its own: the detection runs all the same.
DatabaseError(p) ==
    /\ "database" \in Faults
    /\ \/ /\ worker[p].pc \in {"notify", "row"}
          /\ Goto(p, After(p))
       \/ /\ worker[p].pc \in {"fetch", "history", "existing", "create", "match",
                               "update"}
          /\ Goto(p, "done")
    /\ UNCHANGED <<tx, sub, cooldown, rows, queue, copies, owed>>

\* Mutant of Crash: the message of a handler that is cut is redelivered.
CrashRequeues(p) ==
    /\ "crash" \in Faults
    /\ worker[p].pc \notin {"idle", "queued", "done"}
    /\ Goto(p, IF p \in Tx THEN "queued" ELSE "done")
    /\ UNCHANGED <<tx, sub, cooldown, rows, queue, copies, owed>>

\* The process dies: the handler is over, and so is what it owed.
Crash(p) ==
    /\ "crash" \in Faults
    /\ worker[p].pc \notin {"idle", "queued", "done"}
    /\ Goto(p, "done")
    /\ owed' = owed \ {p}
    /\ UNCHANGED <<tx, sub, cooldown, rows, queue, copies>>

-----------------------------------------------------------------------------

Init ==
    /\ tx = [t \in Tx |-> "absent"]
    /\ sub = [m \in Worker |-> "none"]
    /\ cooldown = FALSE
    /\ worker = [p \in Worker |->
                   [pc |-> "idle", about |-> NoSub,
                    note |-> IF p \in Tx THEN "transaction" ELSE "subscription"]]
    /\ rows = [p \in Worker |-> [note \in Note |-> 0]]
    /\ queue = [p \in Worker |-> [note \in Note |-> 0]]
    /\ copies = [p \in Worker |-> [note \in Note |-> 0]]
    /\ owed = {}

\* What Node and the broker do on their own.
Step(p) ==
    \/ Take(p) \/ Fetch(p)
    \/ Notify(p) \/ Row(p) \/ Request(p)
    \/ Cooldown(p) \/ Claim(p) \/ History(p) \/ Existing(p) \/ CreateSub(p)
    \/ Match(p) \/ Update(p) \/ Publish(p)
    \/ TakeDetected(p) \/ FetchDetected(p)

Next ==
    \/ \E t \in Tx : Create(t) \/ DeleteTx(t)
    \/ \E s \in Scan : StartScan(s)
    \/ \E p \in Worker : Step(p) \/ Manage(p) \/ DatabaseError(p) \/ Crash(p)
    \/ \E p \in Worker, note \in Note : Copy(p, note)
    \/ CooldownExpires

Spec == Init /\ [][Next]_vars

-----------------------------------------------------------------------------
(* Properties *)

\* No event is handled twice, through crashes and errors: it causes one in-app
\* row at the most.  The queue repeats that row once at the most, and only a
\* row that was written.
ToldAndCopiedOnce ==
    \A p \in Worker, note \in Note :
        queue[p][note] + copies[p][note] <= rows[p][note] /\ rows[p][note] <= 1

\* "Failures in one branch must not break the others": a handler that found
\* its transaction and has ended has come to the subscription check, whatever
\* failed in the notification, before or after its row, unless it was cut by
\* the end of the process.
BranchesIndependent ==
    \A t \in Tx : worker[t].pc = "done" => t \notin owed

\* A scan or an event never revives a subscription that the user has ended:
\* only a step of the user's own, which moves no worker, does that.
UserChoiceStands ==
    [][\A m \in Worker :
         sub[m] \in {"inactive", "deleted"} /\ sub'[m] = "active"
           => sub[m] = "inactive" /\ UNCHANGED worker]_vars

\* Handlers are alike.
Symmetry == Permutations(Tx)

=============================================================================
