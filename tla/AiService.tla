----------------------------- MODULE AiService -----------------------------
(***************************************************************************)
(* The AI service behind the backend's AI proxy, for one user.  The user's *)
(* records change; a request builds a context from four reads and is       *)
(* answered from it.  The service keeps nothing between requests.  The     *)
(* texts of messages and the cache of the proxy have nothing in common     *)
(* with the contexts, so that a behaviour takes one part through all of    *)
(* its interleavings.                                                      *)
(***************************************************************************)
EXTENDS HealthScore, MoneyLeaks, Behaviour, Archetype, ActionCardDeck,
        SpendingInsights, Assistant, RecurringPayments, SmsText, AiCache

CONSTANTS
    Start,           \* contexts that users have at the start
    Queries,         \* questions that are asked
    Messages,        \* messages that are parsed
    MaxChanges       \* bound: changes of the records

ASSUME AiServiceAssumption ==
    /\ Start \subseteq Context
    /\ Queries \subseteq Query
    /\ Messages \subseteq Message
    /\ MaxChanges \in Nat

VARIABLES
    part,        \* "context", "sms" or "cache"
    ctx,         \* the user's records
    sent,        \* the records as the reads of the request in progress saw them
    unread,      \* the reads it still waits for
    answer,      \* the last answer
    changes      \* changes so far

xvars  == <<ctx, sent, unread, answer, changes>>
aivars == <<part, xvars, cvars>>

NoAnswer == [status |-> 0]
Reading  == unread # {}

AiTypeOK ==
    /\ part \in {"context", "sms", "cache"}
    /\ ctx \in Context /\ sent \in Context
    /\ unread \in SUBSET Parts
    /\ answer.status \in {0, 200, 503}
    /\ changes \in 0 .. MaxChanges
    /\ part = "cache" => CacheTypeOK

AiInit ==
    /\ part \in {"context", "sms", "cache"}
    /\ ctx \in IF part = "context" THEN Start ELSE {Blank}
    /\ sent = Blank
    /\ unread = {}
    /\ answer = NoAnswer
    /\ changes = 0
    /\ CacheInit

-----------------------------------------------------------------------------
(* The records: what other services of the backend do to them *)

Record(c) ==
    /\ changes < MaxChanges
    /\ changes' = changes + 1
    /\ ctx' = c
    /\ UNCHANGED <<sent, unread, answer>>

PostEntry(e) ==
    /\ e \notin ctx.txs
    /\ Record([ctx EXCEPT !.txs = @ \cup {e}])

DeleteTx(e) ==
    /\ e \in ctx.txs
    /\ Record([ctx EXCEPT !.txs = @ \ {e}, !.impulse = @ \ {e}, !.night = @ \ {e}])

\* Enrichment stores what tag_transactions answers for one transaction.
Tag(e) ==
    /\ e \in ctx.txs
    /\ Record([ctx EXCEPT !.impulse = (@ \ {e}) \cup Tags({e}).impulse,
                          !.night = (@ \ {e}) \cup Tags({e}).night])

Subscribe(s) ==
    /\ s \notin ctx.subs
    /\ Record([ctx EXCEPT !.subs = @ \cup {s}, !.active = @ \cup {s}])

Suspend(s) ==
    /\ s \in ctx.active
    /\ Record([ctx EXCEPT !.active = @ \ {s}])

SetBudget(b) ==
    /\ b \notin ctx.budgets
    /\ Record([ctx EXCEPT !.budgets = @ \cup {b}])

SetGoal(g) ==
    /\ g \notin ctx.goals
    /\ Record([ctx EXCEPT !.goals = @ \cup {g}])

Contribute(g) ==
    /\ g \in ctx.goals \ ctx.done
    /\ LET saved == ctx.saved[g] + 1
       IN  Record([ctx EXCEPT !.saved[g] = saved,
                              !.done = IF saved >= GoalOf[g].target THEN @ \cup {g} ELSE @])

-----------------------------------------------------------------------------
(* Requests *)

\* detectSubscriptions reads transactions only.
Begin(reads) ==
    /\ ~Reading
    /\ answer = NoAnswer
    /\ sent = Blank
    /\ unread' = reads
    /\ UNCHANGED <<ctx, sent, answer, changes>>

Read(p) ==
    /\ p \in unread
    /\ sent' = Fetch(p, ctx, sent)
    /\ unread' = unread \ {p}
    /\ answer' = IF unread' = {} THEN [status |-> 0, reads |-> "done"] ELSE answer
    /\ UNCHANGED <<ctx, changes>>

Ready == answer # NoAnswer /\ answer.status = 0

Reply(endpoint, fails, body) ==
    /\ Ready
    /\ answer' = IF fails THEN [status |-> 503, endpoint |-> endpoint]
                 ELSE [status |-> 200, endpoint |-> endpoint, body |-> body]
    /\ UNCHANGED <<ctx, sent, unread, changes>>

\* The mutant: the failure of the AI service is passed on as it is.
UnavailablePassedOn ==
    /\ Ready
    /\ answer' = [status |-> 500, endpoint |-> "any"]
    /\ UNCHANGED <<ctx, sent, unread, changes>>

\* An unreachable AI service, a timeout, or a refused internal token.
Unavailable == Reply("any", TRUE, "none")

\* buildUserContext asks for 30 days of transactions unless told otherwise.
Told == Within(sent, 30)

HealthScoreRequest == Reply("health-score", FALSE, Health(Told))
LeaksRequest       == Reply("leaks", UsageUnreadable(Told), LeakReport(Told))
ArchetypeRequest   == Reply("archetype", FALSE, Profile(Told))

BehaviourRequest(days) == Reply("behavior", FALSE, Habits(Within(sent, days)))

\* The proxy sends the context alone: no leaks, and a savings rate of 0.
CardsRequest == Reply("action-cards", FALSE, Deck(Told, <<>>, TRUE))

DashboardRequest ==
    Reply("dashboard",
          UsageUnreadable(Told) \/ InsightsFail(Told.txs, "month", TRUE),
          [health |-> Health(Told), profile |-> Profile(Told),
           cards |-> Deck(Told, Leaks(Told), ~RateAtLeast(Told.txs, 10)),
           habits |-> Habits(Told).rating, insights |-> Insights(Told.txs, "month")])

Ask(q, llm) == Reply("assistant", AssistantFails(Told, q), ProcessQuery(Told, q, llm))

\* The week is what is dated within seven days; its dates carry an offset.
WeeklyRequest ==
    LET week == Current(sent.txs, "week")
    IN  Reply("weekly-summary", FALSE,
              WeeklySummary([sent EXCEPT !.txs = week, !.impulse = @ \cap week,
                                         !.night = @ \cap week],
                            Previous(sent.txs, "week"), TRUE))

\* The last 90 days, of both types.
DetectionWindow == 90
DetectRequest == Reply("subscriptions", FALSE, DetectByAi(Recent(sent.txs, DetectionWindow)))

\* Endpoints that the backend does not call; their dates may carry no offset.
SpendingRequest(period, offset) ==
    Reply("spending", InsightsFail(sent.txs, period, offset), Insights(sent.txs, period))
AnomaliesRequest == Reply("anomalies", FALSE, Anomalies(sent.txs))
PredictRequest   == Reply("predict", FALSE, Predictions(sent.txs))

\* month and day: of the last payment.
PatternRequest(m, month, day) ==
    /\ day <= DaysIn(month)
    /\ Reply("pattern", PatternFails(At(sent.txs, m), month, day), Pattern(At(sent.txs, m)))

\* Answered by the backend itself, from its own rows.
SummaryRequest ==
    /\ ~Reading /\ sent = Blank
    /\ answer = NoAnswer
    /\ answer' = [status |-> 200, endpoint |-> "summary", body |-> MonthlySpend(ctx)]
    /\ UNCHANGED <<ctx, sent, unread, changes>>

\* The client has the answer.
Finish ==
    /\ answer.status # 0
    /\ answer' = NoAnswer
    /\ sent' = Blank
    /\ UNCHANGED <<ctx, unread, changes>>

ParseMessage(m, ai) ==
    /\ answer = NoAnswer
    /\ answer' = [status |-> 200, endpoint |-> "sms", message |-> m, ai |-> ai,
                  body |-> ParseSms(m, ai), classified |-> Classify(m),
                  category |-> Categorize(m)]
    /\ UNCHANGED <<ctx, sent, unread, changes>>

Records ==
    \/ \E e \in Entry : PostEntry(e) \/ DeleteTx(e) \/ Tag(e)
    \/ \E s \in Sub : Subscribe(s) \/ Suspend(s)
    \/ \E b \in Budget : SetBudget(b)
    \/ \E g \in Goal : SetGoal(g) \/ Contribute(g)

Requests ==
    \/ \E reads \in {Parts, {"transactions"}} : Begin(reads)
    \/ \E p \in Parts : Read(p)
    \/ Unavailable \/ Finish
    \/ HealthScoreRequest \/ LeaksRequest \/ ArchetypeRequest
    \/ \E days \in {7, 30} : BehaviourRequest(days)
    \/ CardsRequest \/ DashboardRequest \/ WeeklyRequest \/ DetectRequest
    \/ AnomaliesRequest \/ PredictRequest
    \/ \E q \in Queries, llm \in {"none", "up", "down"} : Ask(q, llm)
    \/ \E period \in {"week", "month"}, offset \in BOOLEAN : SpendingRequest(period, offset)
    \/ SummaryRequest
    \/ \E m \in Merchant, month \in 1 .. 12, day \in {28, 31} : PatternRequest(m, month, day)

AiNext ==
    /\ UNCHANGED part
    /\ \/ part = "context" /\ (Records \/ Requests) /\ UNCHANGED cvars
       \/ part = "sms" /\ (\E m \in Messages, ai \in {"up", "down", "off"} : ParseMessage(m, ai))
                       /\ UNCHANGED cvars
       \/ part = "cache" /\ CacheNext /\ UNCHANGED xvars

AiSpec == AiInit /\ [][AiNext]_aivars

-----------------------------------------------------------------------------
(* Properties *)

\* The frequencies, the shortest period first.
Pace == <<"DAILY", "WEEKLY", "MONTHLY", "QUARTERLY", "YEARLY">>

\* a and b are at most half a hundredth apart.
CloseAmounts(a, b) == 2 * b[2] * a - 200 * b[1] \in -b[2] .. b[2]

DetectionAnswered == answer.status = 200 /\ answer.endpoint = "subscriptions"

\* What the backend's detector finds in all debits of the user, the detector of
\* the AI service finds in the 90 days it is sent, with the same payments, if
\* none of them is older and none of the merchant's entries is a credit.  The
\* amounts differ by the rounding alone; as the AI service counts whole days, it
\* may call the payments one step more frequent, never less frequent and never
\* two steps (subscription_detector.py, SubscriptionService.detectSubscriptions).
SameFindings ==
    DetectionAnswered =>
        \A b \in DetectByBackend(sent.txs) :
            /\ b.entries \subseteq Recent(sent.txs, DetectionWindow)
            /\ \E m \in Merchant : b.entries = At(sent.txs, m)
            => \E f \in answer.body :
                 /\ f.entries = b.entries
                 /\ CloseAmounts(f.hundredths, b.amount)
                 /\ \E i \in DOMAIN Pace :
                      b.frequency = Pace[i] /\ f.frequency \in {Pace[i], Pace[Max({i - 1, 1})]}

\* Whatever was paid twice at a merchant in the 90 days is found: the confidence
\* never falls below the threshold of the AI service's detector.
PaidTwiceIsListed ==
    DetectionAnswered =>
        LET rows == Recent(sent.txs, DetectionWindow)
        IN  \A m \in Merchant :
              Cardinality(At(rows, m)) >= 2 => \E f \in answer.body : f.entries = At(rows, m)

DetectorsAgree == SameFindings /\ PaidTwiceIsListed

\* Whether the AI service could be reached changes the direction of the money
\* in a message that both parsers read only where a keyword of the message is
\* on the credit list of one of them alone: what is a debit when the service is
\* up is not booked as a credit when it is down, whatever the debit lists say
\* (SmsService.parseSms, SMS_CREDIT_KEYWORDS).
DirectionAgrees ==
    answer.status = 200 /\ answer.endpoint = "sms" =>
        LET other == LocalParse(answer.message)
            OneSided(ai, local) == (ai \ local) \cup (local \ ai)
        IN  Complete(answer.body) /\ Complete(other) /\ answer.body.type # other.type =>
                answer.message.words \cap OneSided(AiCreditWords, CreditWords) # {}
=============================================================================
