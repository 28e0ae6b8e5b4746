------------------------------ MODULE ApiRoutes ------------------------------
(***************************************************************************)
(* The HTTP surface of the backend and what the two clients ask of it.  A  *)
(* controller is the sequence of its routes in the order the class         *)
(* declares them, which is the order the router tries them in; a route     *)
(* that takes a body says which fields it must and may carry (the global   *)
(* validation pipe refuses a body with any other field).  A request names  *)
(* a verb, a path and the fields of its body; Id stands for the identifier *)
(* of a row, in a request, and for a path parameter, in a route.           *)
(***************************************************************************)
EXTENDS Naturals, Sequences, FiniteSetsExt

Id == "ID"
Anything == "anything"                  \* a body typed `any`: no pipe looks at it

Route(verb, path) == [verb |-> verb, path |-> path, must |-> {}, may |-> {}]
Taking(verb, path, must, may) ==
    [verb |-> verb, path |-> path, must |-> must, may |-> must \cup may]

-----------------------------------------------------------------------------
(* The backend's controllers. *)

CreateAccountDto ==
    [must |-> {"accountType", "accountName"},
     may  |-> {"providerName", "maskedAccountNumber", "ifscCode", "balance",
               "currency", "color", "icon", "isPrimary"}]
CreateGoalDto ==
    [must |-> {"name", "targetAmount"},
     may  |-> {"currentAmount", "currency", "targetDate", "category", "icon",
               "color", "autoAllocate", "allocationPercent", "priority"}]
CreateBudgetDto ==
    [must |-> {"name", "amountLimit"},
     may  |-> {"categoryId", "currency", "period", "startDate", "endDate",
               "alertThreshold", "rollover", "notes"}]
CreateTransactionDto ==
    [must |-> {"amount", "type"},
     may  |-> {"userId", "accountId", "categoryId", "category", "merchantName",
               "merchant", "description", "transactionDate", "date", "source",
               "rawSms", "subscriptionId"}]
UpdateTransactionDto ==
    [must |-> {},
     may  |-> {"amount", "type", "categoryId", "merchantName", "description",
               "transactionDate", "isUserConfirmed"}]
CreateActionCardDto ==
    [must |-> {"type", "title", "description"},
     may  |-> {"priority", "impactAmount", "impactType", "actionData", "expiresAt"}]
PreferencesDto ==
    [must |-> {},
     may  |-> {"pushEnabled", "emailEnabled", "smsEnabled", "transactionAlerts",
               "subscriptionAlerts", "budgetAlerts", "insightAlerts",
               "securityAlerts", "minAmountForAlert"}]
SmsIngestDto ==
    [must |-> {"body", "sender"},
     may  |-> {"userId", "phoneNumber", "timestamp", "receivedAt"}]

WithBody(verb, path, dto) == Taking(verb, path, dto.must, dto.may)
\* PartialType: every field of the create form, none required.
Partial(verb, path, dto) == Taking(verb, path, {}, dto.must \cup dto.may)

AccountController ==
    << WithBody("POST", <<"accounts">>, CreateAccountDto),
       Route("GET", <<"accounts">>), Route("GET", <<"accounts", "net-worth">>),
       Route("GET", <<"accounts", Id>>),
       Partial("PUT", <<"accounts", Id>>, CreateAccountDto),
       Route("DELETE", <<"accounts", Id>>), Route("POST", <<"accounts", Id, "primary">>),
       Route("POST", <<"accounts", Id, "sync">>) >>

GoalController ==
    << WithBody("POST", <<"goals">>, CreateGoalDto), Route("GET", <<"goals">>),
       Route("GET", <<"goals", "summary">>), Route("GET", <<"goals", Id>>),
       Partial("PUT", <<"goals", Id>>, CreateGoalDto), Route("DELETE", <<"goals", Id>>),
       Taking("POST", <<"goals", Id, "contribute">>, {"amount"}, {}) >>

BudgetController ==
    << WithBody("POST", <<"budgets">>, CreateBudgetDto), Route("GET", <<"budgets">>),
       Route("GET", <<"budgets", "summary">>), Route("GET", <<"budgets", Id>>),
       Partial("PUT", <<"budgets", Id>>, CreateBudgetDto), Route("DELETE", <<"budgets", Id>>) >>

TransactionController ==
    << WithBody("POST", <<"transactions">>, CreateTransactionDto),
       Route("GET", <<"transactions">>),
       Route("GET", <<"transactions", "analytics", "categories">>),
       Route("GET", <<"transactions", "analytics", "monthly">>),
       Route("GET", <<"transactions", "search">>), Route("GET", <<"transactions", Id>>),
       WithBody("PUT", <<"transactions", Id>>, UpdateTransactionDto),
       Route("DELETE", <<"transactions", Id>>) >>

SubscriptionController ==
    << Taking("POST", <<"subscriptions">>, {"name", "amount", "frequency"},
              {"userId", "merchantName", "categoryId", "nextBillingDate", "notes"}),
       Route("GET", <<"subscriptions">>), Route("GET", <<"subscriptions", "summary">>),
       Route("GET", <<"subscriptions", "upcoming">>), Route("GET", <<"subscriptions", Id>>),
       Taking("PUT", <<"subscriptions", Id>>, {},
              {"name", "amount", "frequency", "merchantName", "categoryId",
               "nextBillingDate", "status", "notes"}),
       Route("DELETE", <<"subscriptions", Id>>),
       Route("POST", <<"subscriptions", Id, "cancel">>),
       Route("POST", <<"subscriptions", Id, "pause">>),
       Route("POST", <<"subscriptions", Id, "resume">>),
       Route("POST", <<"subscriptions", "detect">>) >>

NotificationController ==
    << Route("GET", <<"notifications">>), Route("GET", <<"notifications", "unread", "count">>),
       Route("GET", <<"notifications", "preferences">>),
       WithBody("PUT", <<"notifications", "preferences">>, PreferencesDto),
       Route("GET", <<"notifications", Id>>), Route("PUT", <<"notifications", Id, "read">>),
       Route("POST", <<"notifications", "read-all">>),
       Route("DELETE", <<"notifications", Id>>),
       Taking("POST", <<"notifications">>, {"type", "title", "body"},
              {"userId", "channel", "priority", "data", "sendPush"}) >>

ActionCardController ==
    << WithBody("POST", <<"action-cards">>, CreateActionCardDto),
       Taking("POST", <<"action-cards", "sync">>, {"cards"}, {"replacePending"}),
       Route("GET", <<"action-cards">>), Route("GET", <<"action-cards", Id>>),
       Partial("PUT", <<"action-cards", Id>>, CreateActionCardDto),
       Route("POST", <<"action-cards", Id, "dismiss">>),
       Route("POST", <<"action-cards", Id, "complete">>),
       Route("DELETE", <<"action-cards", Id>>) >>

AiProxyController ==
    << Route("GET", <<"ai", "dashboard">>), Route("GET", <<"ai", "health-score">>),
       Route("GET", <<"ai", "leaks">>), Route("GET", <<"ai", "behavior">>),
       Route("GET", <<"ai", "archetype">>),
       Route("POST", <<"ai", "action-cards", "generate">>),
       Taking("POST", <<"ai", "ask">>, {"query"}, {}),
       Taking("POST", <<"ai", "sms", "parse">>, {"body", "sender"}, {"timestamp"}),
       Route("POST", <<"ai", "subscriptions", "detect">>) >>

InsightsController ==
    << Route("GET", <<"insights", "spending">>),
       Route("GET", <<"insights", "recommendations">>),
       Route("GET", <<"insights", "predictions">>),
       Route("GET", <<"insights", "anomalies">>), Route("GET", <<"insights">>) >>

WeeklySummaryController ==
    << Route("GET", <<"weekly-summary", "current">>),
       Route("GET", <<"weekly-summary", "history">>),
       Route("GET", <<"weekly-summary", Id>>),
       Route("POST", <<"weekly-summary", "generate">>) >>

SmsController ==
    << WithBody("POST", <<"sms", "ingest">>, SmsIngestDto),
       Taking("POST", <<"sms", "ingest", "batch">>, {}, {"messages"}),
       Route("GET", <<"sms", "unprocessed">>), Route("GET", <<"sms", "history">>),
       Route("POST", <<"sms", "reprocess", Id>>) >>

UserController ==
    << Route("GET", <<"users", "me">>),
       [Route("PUT", <<"users", "me">>) EXCEPT !.may = {Anything}],
       Route("GET", <<"users", "dashboard">>), Route("GET", <<"users", Id>>) >>

AuthController ==
    << Taking("POST", <<"auth", "register">>, {"email", "password"}, {"name", "phone"}),
       Taking("POST", <<"auth", "login">>, {"email", "password"}, {}),
       Taking("POST", <<"auth", "refresh">>, {"refreshToken"}, {}),
       Taking("POST", <<"auth", "logout">>, {}, {"refreshToken"}) >>

PushController ==
    << Taking("POST", <<"push", "register">>, {"token", "platform"},
              {"deviceId", "appVersion"}),
       Route("GET", <<"push", "tokens">>), Route("DELETE", <<"push", "tokens", Id>>),
       Taking("POST", <<"push", "test">>, {}, {"title", "body"}) >>

HealthController == << Route("GET", <<"health">>), Route("GET", <<"health", "ready">>) >>

Routes ==
    AccountController \o GoalController \o BudgetController \o TransactionController
        \o SubscriptionController \o NotificationController \o ActionCardController
        \o AiProxyController \o InsightsController \o WeeklySummaryController
        \o SmsController \o UserController \o AuthController \o PushController
        \o HealthController

-----------------------------------------------------------------------------
(* The router and the validation pipe. *)

\* A parameter of the route takes any segment, a word of it only itself.
Matches(route, request) ==
    /\ route.verb = request.verb
    /\ Len(route.path) = Len(request.path)
    /\ \A i \in DOMAIN route.path : route.path[i] \in {Id, request.path[i]}

Taken(request) == {n \in DOMAIN Routes : Matches(Routes[n], request)}
\* The first route declared that matches handles the request.
Handler(request) == Routes[Min(Taken(request))]

\* A word bound to a parameter is looked up as a row and found missing.
Served(request) ==
    Taken(request) # {} /\ Handler(request).path = request.path

\* whitelist and forbidNonWhitelisted: no field missing, none unknown.
Accepted(request) ==
    /\ Served(request)
    /\ LET route == Handler(request)
       IN  \/ Anything \in route.may
           \/ route.must \subseteq request.body /\ request.body \subseteq route.may

=============================================================================
