------------------------------ MODULE MobileApp ------------------------------
(***************************************************************************)
(* The mobile app: the requests of its API client, the queries and the     *)
(* mutations its hooks make of them, and its screens.  For a screen `ui`   *)
(* is its own state and `s` what its hooks show it: s.rows is the cached   *)
(* answer of its main query, s.known says that there is one, s.loading     *)
(* that its first fetch is under way, s.busy which mutations are pending,  *)
(* s.some that some query of the screen has data, s.fetching that some is  *)
(* being fetched, s.allFailed that all have failed and none has data.      *)
(***************************************************************************)
EXTENDS ClientUi

-----------------------------------------------------------------------------
(* The API client. *)

AuthApi ==
    [login |-> Carrying(Post(<<"auth", "login">>), {"email", "password"}),
     register |-> Carrying(Post(<<"auth", "register">>), {"email", "password", "name"}),
     logout |-> Carrying(Post(<<"auth", "logout">>), {"refreshToken"}),
     getProfile |-> Get(<<"users", "me">>), updateProfile |-> Put(<<"users", "me">>)]
TransactionsApi ==
    [getAll |-> Get(<<"transactions">>), getById |-> Get(<<"transactions", Id>>),
     create |-> Post(<<"transactions">>), update |-> Put(<<"transactions", Id>>),
     delete |-> Delete(<<"transactions", Id>>),
     getCategories |-> Get(<<"transactions", "analytics", "categories">>),
     getMonthlyStats |-> Get(<<"transactions", "analytics", "monthly">>)]
SmsApi == [ingest |-> Carrying(Post(<<"sms", "ingest">>), {"body", "sender", "timestamp"})]
SubscriptionsApi ==
    [getAll |-> Get(<<"subscriptions">>), getSummary |-> Get(<<"subscriptions", "summary">>),
     getUpcoming |-> Get(<<"subscriptions", "upcoming">>),
     cancel |-> Post(<<"subscriptions", Id, "cancel">>),
     pause |-> Post(<<"subscriptions", Id, "pause">>),
     resume |-> Post(<<"subscriptions", Id, "resume">>),
     detect |-> Post(<<"subscriptions", "detect">>)]
InsightsApi ==
    [getAll |-> Get(<<"insights">>), getSpending |-> Get(<<"insights", "spending">>),
     getRecommendations |-> Get(<<"insights", "recommendations">>),
     getPredictions |-> Get(<<"insights", "predictions">>),
     getAnomalies |-> Get(<<"insights", "anomalies">>)]
NotificationsApi ==
    [getAll |-> Get(<<"notifications">>),
     getUnreadCount |-> Get(<<"notifications", "unread", "count">>),
     markAsRead |-> Put(<<"notifications", Id, "read">>),
     markAllAsRead |-> Post(<<"notifications", "read-all">>),
     getPreferences |-> Get(<<"notifications", "preferences">>),
     updatePreferences |-> Put(<<"notifications", "preferences">>)]
DashboardApi == [getStats |-> Get(<<"users", "dashboard">>)]
GoalsApi ==
    [getAll |-> Get(<<"goals">>), getById |-> Get(<<"goals", Id>>),
     getSummary |-> Get(<<"goals", "summary">>), create |-> Post(<<"goals">>),
     update |-> Put(<<"goals", Id>>), delete |-> Delete(<<"goals", Id>>),
     contribute |-> Post(<<"goals", Id, "contribute">>)]
BudgetsApi ==
    [getAll |-> Get(<<"budgets">>), getById |-> Get(<<"budgets", Id>>),
     getSummary |-> Get(<<"budgets", "summary">>), create |-> Post(<<"budgets">>),
     update |-> Put(<<"budgets", Id>>), delete |-> Delete(<<"budgets", Id>>)]
AccountsApi ==
    [getAll |-> Get(<<"accounts">>), getById |-> Get(<<"accounts", Id>>),
     getNetWorth |-> Get(<<"accounts", "net-worth">>), create |-> Post(<<"accounts">>),
     update |-> Put(<<"accounts", Id>>), delete |-> Delete(<<"accounts", Id>>),
     setPrimary |-> Post(<<"accounts", Id, "set-primary">>),
     recompute |-> Post(<<"accounts", Id, "recompute">>)]
ActionCardsApi ==
    [getAll |-> Get(<<"action-cards">>), getSummary |-> Get(<<"action-cards", "summary">>),
     dismiss |-> Post(<<"action-cards", Id, "dismiss">>),
     complete |-> Post(<<"action-cards", Id, "complete">>)]
AiApi ==
    [analyzeBehavior |-> Post(<<"ai", "behavior", "analyze">>),
     getHealthScore |-> Post(<<"ai", "health-score", "calculate">>),
     detectLeaks |-> Post(<<"ai", "leaks", "detect">>),
     ask |-> Carrying(Post(<<"ai", "assistant", "query">>), {"query"}),
     determineArchetype |-> Post(<<"ai", "profile", "archetype">>),
     generateActionCards |-> Post(<<"ai", "action-cards", "generate">>),
     getPersonalizedDashboard |-> Post(<<"ai", "dashboard", "personalized">>)]
WeeklySummaryApi ==
    [getList |-> Get(<<"weekly-summary">>),
     getCurrent |-> Get(<<"weekly-summary", "current">>),
     getById |-> Get(<<"weekly-summary", Id>>),
     generate |-> Post(<<"weekly-summary", "generate">>)]

-----------------------------------------------------------------------------
(* The hooks.  List is the key of a resource's list, One that of a row. *)

List(resource) == <<resource, "list">>
One(resource) == <<resource, "detail">>
All(resource) == {<<resource>>}

AccountQueries ==
    [useAccounts |-> Query(List("accounts"), AccountsApi.getAll),
     useAccount |-> Query(One("accounts"), AccountsApi.getById),
     useNetWorth |-> Query(<<"accounts", "net-worth">>, AccountsApi.getNetWorth)]
AccountMutations ==
    [useCreateAccount |-> Mutation(AccountsApi.create, All("accounts")),
     useUpdateAccount |-> Mutation(AccountsApi.update, All("accounts")),
     useDeleteAccount |-> Mutation(AccountsApi.delete, All("accounts")),
     useSetPrimaryAccount |-> Mutation(AccountsApi.setPrimary, All("accounts")),
     useRecomputeAccount |-> Mutation(AccountsApi.recompute, All("accounts"))]
GoalQueries ==
    [useGoals |-> Query(List("goals"), GoalsApi.getAll),
     useGoal |-> Query(One("goals"), GoalsApi.getById),
     useGoalsSummary |-> Query(<<"goals", "summary">>, GoalsApi.getSummary)]
GoalMutations ==
    [useCreateGoal |-> Mutation(GoalsApi.create, All("goals")),
     useUpdateGoal |-> Mutation(GoalsApi.update, {<<"goals">>, One("goals")}),
     useContributeGoal |-> Mutation(GoalsApi.contribute, {<<"goals">>, One("goals")}),
     useDeleteGoal |-> Mutation(GoalsApi.delete, All("goals"))]
BudgetQueries ==
    [useBudgets |-> Query(List("budgets"), BudgetsApi.getAll),
     useBudget |-> Query(One("budgets"), BudgetsApi.getById),
     useBudgetsSummary |-> Query(<<"budgets", "summary">>, BudgetsApi.getSummary)]
BudgetMutations ==
    [useCreateBudget |-> Mutation(BudgetsApi.create, All("budgets")),
     useUpdateBudget |-> Mutation(BudgetsApi.update, All("budgets")),
     useDeleteBudget |-> Mutation(BudgetsApi.delete, All("budgets"))]
SubscriptionQueries ==
    [useSubscriptions |-> Query(List("subscriptions"), SubscriptionsApi.getAll),
     useSubscriptionsSummary |->
         Query(<<"subscriptions", "summary">>, SubscriptionsApi.getSummary),
     useUpcomingSubscriptions |->
         Query(<<"subscriptions", "upcoming">>, SubscriptionsApi.getUpcoming)]
SubscriptionMutations ==
    [useCancelSubscription |-> Mutation(SubscriptionsApi.cancel, All("subscriptions")),
     usePauseSubscription |-> Mutation(SubscriptionsApi.pause, All("subscriptions")),
     useResumeSubscription |-> Mutation(SubscriptionsApi.resume, All("subscriptions")),
     useDetectSubscriptions |-> Mutation(SubscriptionsApi.detect, All("subscriptions"))]
TransactionQueries ==
    [useTransactions |-> Query(List("transactions"), TransactionsApi.getAll),
     useTransaction |-> Query(One("transactions"), TransactionsApi.getById),
     useCategoryBreakdown |->
         Query(<<"transactions", "categories">>, TransactionsApi.getCategories),
     useMonthlyStats |->
         Query(<<"transactions", "monthly">>, TransactionsApi.getMonthlyStats)]
TransactionMutations ==
    [useCreateTransaction |->
         Mutation(TransactionsApi.create, {<<"transactions">>, <<"dashboard">>, <<"budgets">>}),
     useUpdateTransaction |->
         Mutation(TransactionsApi.update,
                  {<<"transactions">>, One("transactions"), <<"dashboard">>}),
     useDeleteTransaction |->
         Mutation(TransactionsApi.delete, {<<"transactions">>, <<"dashboard">>})]
NotificationQueries ==
    [useNotifications |-> Query(List("notifications"), NotificationsApi.getAll),
     useUnreadCount |->
         Query(<<"notifications", "unread-count">>, NotificationsApi.getUnreadCount),
     useNotificationPreferences |->
         Query(<<"notifications", "preferences">>, NotificationsApi.getPreferences)]
NotificationMutations ==
    [useMarkAsRead |-> Mutation(NotificationsApi.markAsRead, All("notifications")),
     useMarkAllAsRead |-> Mutation(NotificationsApi.markAllAsRead, All("notifications")),
     useUpdateNotificationPreferences |->
         Mutation(NotificationsApi.updatePreferences, {<<"notifications", "preferences">>})]
ActionCardQueries ==
    [useActionCards |-> Query(List("action-cards"), ActionCardsApi.getAll),
     useActionCardsSummary |-> Query(<<"action-cards", "summary">>, ActionCardsApi.getSummary)]
ActionCardMutations ==
    [useDismissActionCard |-> Mutation(ActionCardsApi.dismiss, All("action-cards")),
     useCompleteActionCard |-> Mutation(ActionCardsApi.complete, All("action-cards")),
     useGenerateActionCards |-> Mutation(AiApi.generateActionCards, All("action-cards"))]
AiQueries ==
    [useHealthScore |-> Query(<<"ai", "health-score">>, AiApi.getHealthScore),
     useMoneyLeaks |-> Query(<<"ai", "leaks">>, AiApi.detectLeaks),
     useArchetype |-> Query(<<"ai", "archetype">>, AiApi.determineArchetype),
     useBehaviorAnalysis |-> Query(<<"ai", "behavior">>, AiApi.analyzeBehavior),
     usePersonalizedDashboard |->
         Query(<<"ai", "dashboard">>, AiApi.getPersonalizedDashboard)]
AiMutations == [useAskAi |-> Mutation(AiApi.ask, {<<"ai", "dashboard">>})]
InsightQueries ==
    [useInsights |-> Query(<<"insights">>, InsightsApi.getAll),
     useSpendingInsights |-> Query(<<"insights", "spending">>, InsightsApi.getSpending),
     useRecommendations |->
         Query(<<"insights", "recommendations">>, InsightsApi.getRecommendations),
     usePredictions |-> Query(<<"insights", "predictions">>, InsightsApi.getPredictions),
     useAnomalies |-> Query(<<"insights", "anomalies">>, InsightsApi.getAnomalies)]
WeeklySummaryQueries ==
    [useWeeklySummaryList |-> Query(List("weekly-summary"), WeeklySummaryApi.getList),
     useCurrentWeeklySummary |->
         Query(<<"weekly-summary", "current">>, WeeklySummaryApi.getCurrent),
     useWeeklySummary |-> Query(One("weekly-summary"), WeeklySummaryApi.getById)]
WeeklySummaryMutations ==
    [useGenerateWeeklySummary |-> Mutation(WeeklySummaryApi.generate, All("weekly-summary"))]
DashboardQueries == [useDashboard |-> Query(<<"dashboard">>, DashboardApi.getStats)]

\* What screens and the session store send without a hook: nothing is dropped.
DirectCalls ==
    [login |-> Mutation(AuthApi.login, {}), register |-> Mutation(AuthApi.register, {}),
     logout |-> Mutation(AuthApi.logout, {}), ingestSms |-> Mutation(SmsApi.ingest, {}),
     testPush |-> Mutation(Carrying(Post(<<"push", "test">>), {"title", "body"}), {})]

Queries ==
    Joined({AccountQueries, GoalQueries, BudgetQueries, SubscriptionQueries,
            TransactionQueries, NotificationQueries, ActionCardQueries, AiQueries,
            InsightQueries, WeeklySummaryQueries, DashboardQueries})
Mutations ==
    Joined({AccountMutations, GoalMutations, BudgetMutations, SubscriptionMutations,
            TransactionMutations, NotificationMutations, ActionCardMutations,
            AiMutations, WeeklySummaryMutations, DirectCalls})

-----------------------------------------------------------------------------
(* The screens.  <Name>Screen is what the screen shows, <Name>Presses what *)
(* its body offers; cards and modals are components of their own.          *)

AccountsScreen(ui, s) == IF s.loading THEN "spinner" ELSE Listing(Listed(ui, s))
AccountCard(ui, s, a) ==
    If(s.rows[a] = "plain", {Calls(ui, "useSetPrimaryAccount", a)})
        \cup {Calls(ui, "useRecomputeAccount", a), Opens(ui, "confirm", a)}
\* As AddAccountModal, with the fields kept as the call is sent.
AddAccountModalKeepsFields(ui, s) ==
    {Closes(ui)} \cup
    If(Typed(ui, "create"),
       {Submits(ui, ui, "create", "useCreateAccount", 0,
                {"accountType", "accountName", "providerName", "balance"}, "create")})
\* The fields are emptied as the call is sent, the sheet closes on its success.
AddAccountModal(ui, s) ==
    {Closes(ui)} \cup
    If(Typed(ui, "create"),
       {Submits(ui, Cleared(ui, "create"), "create", "useCreateAccount", 0,
                {"accountType", "accountName", "providerName", "balance"}, "create")})
AccountsPresses(ui, s) ==
    Uncovered(ui, {Opens(ui, "create", 0)} \cup
                  Each(Listed(ui, s), LAMBDA a : AccountCard(ui, s, a)))
        \cup In(ui, "create", AddAccountModal(ui, s))
        \cup In(ui, "confirm",
                {Closes(ui), Calls(Closed(ui), "useDeleteAccount", ui.on)})

\* No check of the loading state: an answer not yet known is an empty list.
GoalsScreen(ui, s) == Listing(Listed(ui, s))
GoalCard(ui, s, g) == {Opens(ui, "contribute", g), Opens(ui, "confirm", g)}
CreateGoalModal(ui, s) ==
    {Closes(ui)} \cup
    If(Typed(ui, "create"),
       {Submits(ui, Cleared(ui, "create"), "create", "useCreateGoal", 0,
                {"name", "targetAmount", "category"}, "create")})
ContributeModal(ui, s) ==
    {Closes(ui)} \cup
    If(Typed(ui, "contribute"),
       {Submits(ui, Cleared(ui, "contribute"), "contribute", "useContributeGoal", ui.on,
                {"amount"}, "contribute")})
GoalsPresses(ui, s) ==
    Uncovered(ui, {Opens(ui, "create", 0)} \cup Chooses(ui, {"all", "plain", "marked"})
                  \cup Each(Listed(ui, s), LAMBDA g : GoalCard(ui, s, g)))
        \cup In(ui, "create", CreateGoalModal(ui, s))
        \cup In(ui, "contribute", ContributeModal(ui, s))
        \cup In(ui, "confirm", {Closes(ui), Calls(Closed(ui), "useDeleteGoal", ui.on)})

BudgetsScreen(ui, s) == Listing(Listed(ui, s))
BudgetCard(ui, s, b) == {Opens(ui, "confirm", b)}
CreateBudgetModal(ui, s) ==
    {Closes(ui)} \cup
    If(Typed(ui, "create"),
       {Submits(ui, Cleared(ui, "create"), "create", "useCreateBudget", 0,
                {"name", "category", "limit", "amount", "period"}, "create")})
BudgetsPresses(ui, s) ==
    Uncovered(ui, {Opens(ui, "create", 0)} \cup
                  Each(Listed(ui, s), LAMBDA b : BudgetCard(ui, s, b)))
        \cup In(ui, "create", CreateBudgetModal(ui, s))
        \cup In(ui, "confirm", {Closes(ui), Calls(Closed(ui), "useDeleteBudget", ui.on)})

\* Only active subscriptions are listed, whatever the tab.
SubscriptionsScreen(ui, s) == Listing(Rows(s.rows, {"plain"}))
SubscriptionCard(ui, s, b) ==
    {Calls(ui, "usePauseSubscription", b), Opens(ui, "confirm", b)}
CancelGuideModal(ui, s) ==
    {Closes(ui), Calls(Closed(ui), "useCancelSubscription", ui.on)}
SubscriptionsPresses(ui, s) ==
    Uncovered(ui, Each(Rows(s.rows, {"plain"}), LAMBDA b : SubscriptionCard(ui, s, b)))
        \cup In(ui, "confirm", {Closes(ui), Opens(ui, "guide", ui.on)})
        \cup In(ui, "guide", CancelGuideModal(ui, s))

TransactionsScreen(ui, s) == Listing(Rows(s.rows, Present))
TransactionRow(ui, s, t) ==
    If(s.rows[t] = "plain",
       {Edits(ui, "useUpdateTransaction", t, {"isUserConfirmed"}),
        Edits(ui, "useUpdateTransaction", t, {"isUserConfirmed", NamedCategory})})
\* The type is part of the key: choosing one shows another query.
FilterModal(ui, s) == {Closes(ui), Requery(ui)}
TransactionsPresses(ui, s) ==
    Uncovered(ui, {Opens(ui, "pick", 0), Requery(ui)} \cup
                  Each(Rows(s.rows, Present), LAMBDA t : TransactionRow(ui, s, t)))
        \cup In(ui, "pick", FilterModal(ui, s))

\* The row shown is a transaction's; without an answer there is only a spinner.
TransactionDetailScreen(ui, s) ==
    IF s.loading \/ Rows(s.rows, Present) = {} THEN "spinner" ELSE "rows"
TransactionDetailPresses(ui, s) ==
    Uncovered(ui, Each(Rows(s.rows, Present), LAMBDA t :
        {Opens(ui, "confirm", t), Opens(ui, "pick", t), Opens(ui, "edit", t),
         Edits(ui, "useUpdateTransaction", t, {"isImpulse"})}))
        \cup In(ui, "pick",
                {Closes(ui), Edits(Closed(ui), "useUpdateTransaction", ui.on, {NamedCategory})})
        \cup In(ui, "edit",
                {Closes(ui), Edits(Closed(ui), "useUpdateTransaction", ui.on, {"description"})})
        \cup In(ui, "confirm",
                {Closes(ui),
                 Press(Closed(ui), "useDeleteTransaction", ui.on, {}, 0, Leave)})
\* What was typed stays until the call succeeds: the button waits for it.
AddTransactionPresses(ui, s) ==
    If(Typed(ui, "form") /\ "useCreateTransaction" \notin s.busy,
       {Submits(ui, ui, "form", "useCreateTransaction", 0,
                {"type", "amount", "merchant", "description", NamedCategory,
                 "accountId", "date"}, Leave)})

NotificationsScreen(ui, s) ==
    Listing(Rows(s.rows, IF ui.show = "all" THEN Present ELSE {"plain"}))
NotificationItem(ui, s, n) ==
    If(s.rows[n] = "plain", {Calls(ui, "useMarkAsRead", n)})    \* the item
        \cup {Calls(ui, "useMarkAsRead", n)}                    \* its dismissal
NotificationsPresses(ui, s) ==
    Uncovered(ui,
        If(Rows(s.rows, {"plain"}) # {}, {Calls(ui, "useMarkAllAsRead", 0)})
            \cup Chooses(ui, {"all", "plain"})
            \cup Each(Rows(s.rows, Present), LAMBDA n : NotificationItem(ui, s, n)))

WeeklySummaryScreen(ui, s) ==
    IF s.loading THEN "spinner" ELSE Listing(Rows(s.rows, Present))
\* The button's label waits for the call, the button does not.
WeeklySummaryPresses(ui, s) ==
    If(~s.loading /\ Rows(s.rows, Present) = {},
       {Calls(ui, "useGenerateWeeklySummary", 0)})

InsightsScreen(ui, s) == IF s.loading THEN "spinner" ELSE Listing(Rows(s.rows, Present))
InsightsPresses(ui, s) == If(~s.loading, {Requery(ui)})

\* Fixing or dismissing a leak is remembered by the screen alone.
MoneyLeaksScreen(ui, s) ==
    IF s.loading THEN "spinner"
    ELSE Listing(Rows(s.rows, IF ui.show = "all" THEN Present ELSE {}))
MoneyLeaksPresses(ui, s) == If(~s.loading, Chooses(ui, {"all", "marked"}))

HealthScoreScreen(ui, s) ==
    CASE s.loading -> "spinner" [] ~s.loading /\ ~s.known -> "empty" [] OTHER -> "rows"
HealthScorePresses(ui, s) == If(~s.loading /\ ~s.known, {Refetch(ui)})

AIAssistantScreen(ui, s) == IF "useAskAi" \in s.busy THEN "spinner" ELSE "form"
AIAssistantPresses(ui, s) ==
    If("useAskAi" \notin s.busy,
       {Calls(ui, "useAskAi", 0)}                               \* a suggestion
           \cup If(Typed(ui, "form"),
                   {Submits(ui, Cleared(ui, "form"), "form", "useAskAi", 0, {}, None)}))

\* Eight queries: the spinner needs all of them without data, so does the
\* error screen.
HomeScreen(ui, s) ==
    CASE ~s.some /\ s.fetching -> "spinner"
      [] ~s.some /\ s.allFailed -> "failed"
      [] OTHER -> "rows"
HomePresses(ui, s) == If(s.some \/ s.allFailed, {Refetch(ui)})

\* The switches are the screen's own; no preference is read or written.
SettingsScreen(ui, s) == "rows"
SettingsPresses(ui, s) == {Calls(ui, "testPush", 0)}
SmsForwardPresses(ui, s) ==
    If(Typed(ui, "form") /\ "ingestSms" \notin s.busy,
       {Submits(ui, ui, "form", "ingestSms", 0, {}, None),
        Becomes(Cleared(ui, "form"))})                          \* add another
LoginPresses(ui, s) ==
    If(Typed(ui, "form") /\ "login" \notin s.busy,
       {Submits(ui, ui, "form", "login", 0, {}, Leave)})
RegisterPresses(ui, s) ==
    If(Typed(ui, "form") /\ "register" \notin s.busy,
       {Submits(ui, ui, "form", "register", 0, {}, Leave)})

-----------------------------------------------------------------------------
(* Which screen it is: the hooks it uses, its main query first, the state  *)
(* it starts in, what it shows and what it offers.                         *)

Uses ==
    [Accounts |-> <<"useAccounts">>, Goals |-> <<"useGoals">>, Budgets |-> <<"useBudgets">>,
     Subscriptions |-> <<"useSubscriptions">>, Transactions |-> <<"useTransactions">>,
     TransactionDetail |-> <<"useTransaction", "useTransactions">>,
     AddTransaction |-> <<"useTransactions", "useAccounts">>,
     Notifications |-> <<"useNotifications", "useUnreadCount">>,
     WeeklySummary |-> <<"useCurrentWeeklySummary">>,
     Insights |-> <<"useSpendingInsights", "useBehaviorAnalysis">>,
     MoneyLeaks |-> <<"useMoneyLeaks">>, HealthScore |-> <<"useHealthScore">>,
     AIAssistant |-> <<>>,
     Home |-> <<"useDashboard", "useHealthScore", "useMoneyLeaks", "useActionCards",
                "useGoals", "useUpcomingSubscriptions", "useArchetype",
                "useSubscriptions">>,
     Settings |-> <<"useUnreadCount", "useHealthScore">>, SmsForward |-> <<>>,
     Login |-> <<>>, Register |-> <<>>]

FormScreens == {"AddTransaction", "AIAssistant", "SmsForward", "Login", "Register"}
Start(screen) ==
    CASE screen \in FormScreens -> Starts("form")
      [] screen = "Goals" -> Shows("plain")
      [] OTHER -> Shows("all")

Face(screen, ui, s) ==
    CASE screen = "Accounts" -> AccountsScreen(ui, s)
      [] screen = "Goals" -> GoalsScreen(ui, s)
      [] screen = "Budgets" -> BudgetsScreen(ui, s)
      [] screen = "Subscriptions" -> SubscriptionsScreen(ui, s)
      [] screen = "Transactions" -> TransactionsScreen(ui, s)
      [] screen = "TransactionDetail" -> TransactionDetailScreen(ui, s)
      [] screen = "Notifications" -> NotificationsScreen(ui, s)
      [] screen = "WeeklySummary" -> WeeklySummaryScreen(ui, s)
      [] screen = "Insights" -> InsightsScreen(ui, s)
      [] screen = "MoneyLeaks" -> MoneyLeaksScreen(ui, s)
      [] screen = "HealthScore" -> HealthScoreScreen(ui, s)
      [] screen = "AIAssistant" -> AIAssistantScreen(ui, s)
      [] screen = "Home" -> HomeScreen(ui, s)
      [] screen = "Settings" -> SettingsScreen(ui, s)
      [] OTHER -> "form"

Presses(screen, ui, s) ==
    CASE screen = "Accounts" -> AccountsPresses(ui, s)
      [] screen = "Goals" -> GoalsPresses(ui, s)
      [] screen = "Budgets" -> BudgetsPresses(ui, s)
      [] screen = "Subscriptions" -> SubscriptionsPresses(ui, s)
      [] screen = "Transactions" -> TransactionsPresses(ui, s)
      [] screen = "TransactionDetail" -> TransactionDetailPresses(ui, s)
      [] screen = "AddTransaction" -> AddTransactionPresses(ui, s)
      [] screen = "Notifications" -> NotificationsPresses(ui, s)
      [] screen = "WeeklySummary" -> WeeklySummaryPresses(ui, s)
      [] screen = "Insights" -> InsightsPresses(ui, s)
      [] screen = "MoneyLeaks" -> MoneyLeaksPresses(ui, s)
      [] screen = "HealthScore" -> HealthScorePresses(ui, s)
      [] screen = "AIAssistant" -> AIAssistantPresses(ui, s)
      [] screen = "Home" -> HomePresses(ui, s)
      [] screen = "Settings" -> SettingsPresses(ui, s)
      [] screen = "SmsForward" -> SmsForwardPresses(ui, s)
      [] screen = "Login" -> LoginPresses(ui, s)
      [] screen = "Register" -> RegisterPresses(ui, s)
=============================================================================
