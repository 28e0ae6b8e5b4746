-------------------------------- MODULE WebApp --------------------------------
(***************************************************************************)
(* The web client: the requests of its API client (the proxy hands them on *)
(* to the backend under the same paths), the queries and mutations its     *)
(* hooks make of them, and its pages.  `ui` is a page's own state and `s`  *)
(* what its hooks show it, as in MobileApp.  A modal of the web can be     *)
(* left by its overlay, its cross or Escape even while its buttons wait.   *)
(***************************************************************************)
EXTENDS ClientUi

-----------------------------------------------------------------------------
(* The API client. *)

AuthApi ==
    [login |-> Carrying(Post(<<"auth", "login">>), {"email", "password"}),
     register |-> Carrying(Post(<<"auth", "register">>), {"email", "password", "name"}),
     logout |-> Carrying(Post(<<"auth", "logout">>), {"refreshToken"})]
DashboardApi == [getStats |-> Get(<<"users", "dashboard">>)]
TransactionsApi ==
    [getAll |-> Get(<<"transactions">>), getById |-> Get(<<"transactions", Id>>),
     create |-> Post(<<"transactions">>), update |-> Put(<<"transactions", Id>>),
     delete |-> Delete(<<"transactions", Id>>)]
SubscriptionsApi ==
    [getAll |-> Get(<<"subscriptions">>), getSummary |-> Get(<<"subscriptions", "summary">>),
     getUpcoming |-> Get(<<"subscriptions", "upcoming">>),
     cancel |-> Post(<<"subscriptions", Id, "cancel">>),
     pause |-> Post(<<"subscriptions", Id, "pause">>),
     resume |-> Post(<<"subscriptions", Id, "resume">>),
     detect |-> Post(<<"subscriptions", "detect">>)]
InsightsApi == [getSpending |-> Get(<<"insights", "spending">>)]
GoalsApi ==
    [getAll |-> Get(<<"goals">>), getSummary |-> Get(<<"goals", "summary">>),
     create |-> Post(<<"goals">>), update |-> Put(<<"goals", Id>>),
     delete |-> Delete(<<"goals", Id>>), contribute |-> Post(<<"goals", Id, "contribute">>)]
BudgetsApi ==
    [getAll |-> Get(<<"budgets">>), getSummary |-> Get(<<"budgets", "summary">>),
     create |-> Post(<<"budgets">>), update |-> Put(<<"budgets", Id>>),
     delete |-> Delete(<<"budgets", Id>>)]
AccountsApi ==
    [getAll |-> Get(<<"accounts">>), getNetWorth |-> Get(<<"accounts", "net-worth">>),
     create |-> Post(<<"accounts">>), update |-> Put(<<"accounts", Id>>),
     delete |-> Delete(<<"accounts", Id>>), setPrimary |-> Post(<<"accounts", Id, "primary">>),
     sync |-> Post(<<"accounts", Id, "sync">>)]
ActionCardsApi == [getAll |-> Get(<<"action-cards">>)]
NotificationsApi ==
    [getAll |-> Get(<<"notifications">>),
     getUnreadCount |-> Get(<<"notifications", "unread", "count">>),
     getPreferences |-> Get(<<"notifications", "preferences">>),
     updatePreferences |-> Put(<<"notifications", "preferences">>),
     markRead |-> Put(<<"notifications", Id, "read">>),
     markAllRead |-> Post(<<"notifications", "read-all">>),
     delete |-> Delete(<<"notifications", Id>>)]
WeeklySummaryApi ==
    [getCurrent |-> Get(<<"weekly-summary", "current">>),
     getHistory |-> Get(<<"weekly-summary", "history">>),
     generate |-> Post(<<"weekly-summary", "generate">>)]
UsersApi == [me |-> Get(<<"users", "me">>), update |-> Put(<<"users", "me">>)]
PushApi == [test |-> Carrying(Post(<<"push", "test">>), {"title", "body"})]
AiApi ==
    [getHealthScore |-> Post(<<"ai", "health-score", "calculate">>),
     detectLeaks |-> Post(<<"ai", "leaks", "detect">>),
     determineArchetype |-> Post(<<"ai", "profile", "archetype">>),
     analyzeBehavior |-> Post(<<"ai", "behavior", "analyze">>),
     ask |-> Carrying(Post(<<"ai", "assistant", "query">>), {"query"})]

-----------------------------------------------------------------------------
(* The hooks. *)

AccountQueries ==
    [useAccounts |-> Query(<<"accounts">>, AccountsApi.getAll),
     useNetWorth |-> Query(<<"accounts", "net-worth">>, AccountsApi.getNetWorth)]
AccountsScope == {<<"accounts">>, <<"dashboard">>}
AccountMutations ==
    [useCreateAccount |-> Mutation(AccountsApi.create, AccountsScope),
     useUpdateAccount |-> Mutation(AccountsApi.update, AccountsScope),
     useDeleteAccount |-> Mutation(AccountsApi.delete, AccountsScope),
     useSetPrimaryAccount |-> Mutation(AccountsApi.setPrimary, AccountsScope),
     useSyncAccount |-> Mutation(AccountsApi.sync, AccountsScope)]
GoalQueries ==
    [useGoals |-> Query(<<"goals", "list">>, GoalsApi.getAll),
     useGoalsSummary |-> Query(<<"goals", "summary">>, GoalsApi.getSummary)]
GoalsScope == {<<"goals">>, <<"dashboard">>}
GoalMutations ==
    [useCreateGoal |-> Mutation(GoalsApi.create, GoalsScope),
     useUpdateGoal |-> Mutation(GoalsApi.update, GoalsScope),
     useDeleteGoal |-> Mutation(GoalsApi.delete, GoalsScope),
     useContributeGoal |-> Mutation(GoalsApi.contribute, GoalsScope)]
BudgetQueries ==
    [useBudgets |-> Query(<<"budgets", "list">>, BudgetsApi.getAll),
     useBudgetSummary |-> Query(<<"budgets", "summary">>, BudgetsApi.getSummary)]
BudgetScope == {<<"budgets">>, <<"dashboard">>}
BudgetMutations ==
    [useCreateBudget |-> Mutation(BudgetsApi.create, BudgetScope),
     useUpdateBudget |-> Mutation(BudgetsApi.update, BudgetScope),
     useDeleteBudget |-> Mutation(BudgetsApi.delete, BudgetScope)]
SubscriptionQueries ==
    [useSubscriptions |-> Query(<<"subscriptions", "list">>, SubscriptionsApi.getAll),
     useSubscriptionsSummary |->
         Query(<<"subscriptions", "summary">>, SubscriptionsApi.getSummary)]
SubsScope == {<<"subscriptions">>, <<"dashboard">>}
SubscriptionMutations ==
    [useCancelSubscription |-> Mutation(SubscriptionsApi.cancel, SubsScope),
     usePauseSubscription |-> Mutation(SubscriptionsApi.pause, SubsScope),
     useResumeSubscription |-> Mutation(SubscriptionsApi.resume, SubsScope),
     useDetectSubscriptions |-> Mutation(SubscriptionsApi.detect, SubsScope)]
TransactionQueries ==
    [useTransactions |-> Query(<<"transactions", "list">>, TransactionsApi.getAll),
     useTransaction |-> Query(<<"transactions", Id>>, TransactionsApi.getById)]
TxScope == {<<"transactions">>, <<"dashboard">>, <<"insights">>, <<"ai">>}
TransactionMutations ==
    [useCreateTransaction |-> Mutation(TransactionsApi.create, TxScope),
     useUpdateTransaction |-> Mutation(TransactionsApi.update, TxScope),
     useDeleteTransaction |-> Mutation(TransactionsApi.delete, TxScope)]
NotificationQueries ==
    [useNotifications |-> Query(<<"notifications", "list">>, NotificationsApi.getAll),
     useUnreadCount |->
         Query(<<"notifications", "unread-count">>, NotificationsApi.getUnreadCount),
     useNotificationPreferences |->
         Query(<<"notifications", "preferences">>, NotificationsApi.getPreferences)]
\* As NotificationMutations, with the list not dropped after a removal.
NotificationMutationsNarrow ==
    [useMarkNotificationRead |-> Mutation(NotificationsApi.markRead, {<<"notifications">>}),
     useMarkAllNotificationsRead |->
         Mutation(NotificationsApi.markAllRead, {<<"notifications">>}),
     useDeleteNotification |->
         Mutation(NotificationsApi.delete, {<<"notifications", "unread-count">>}),
     useUpdateNotificationPreferences |->
         Optimistic(NotificationsApi.updatePreferences, {<<"notifications", "preferences">>})]
\* Only the preferences are written to the cache before the backend answers.
NotificationMutations ==
    [useMarkNotificationRead |-> Mutation(NotificationsApi.markRead, {<<"notifications">>}),
     useMarkAllNotificationsRead |->
         Mutation(NotificationsApi.markAllRead, {<<"notifications">>}),
     useDeleteNotification |-> Mutation(NotificationsApi.delete, {<<"notifications">>}),
     useUpdateNotificationPreferences |->
         Optimistic(NotificationsApi.updatePreferences, {<<"notifications", "preferences">>})]
DashboardQueries ==
    [useDashboard |-> Query(<<"dashboard">>, DashboardApi.getStats),
     useHealthScore |-> Query(<<"ai", "health-score">>, AiApi.getHealthScore),
     useArchetype |-> Query(<<"ai", "archetype">>, AiApi.determineArchetype),
     useMoneyLeaks |-> Query(<<"ai", "leaks">>, AiApi.detectLeaks),
     useActionCards |-> Query(<<"action-cards">>, ActionCardsApi.getAll),
     useUpcomingSubscriptions |->
         Query(<<"subscriptions", "upcoming">>, SubscriptionsApi.getUpcoming),
     useActiveSubscriptions |-> Query(<<"subscriptions", "active">>, SubscriptionsApi.getAll)]
InsightQueries ==
    [useSpendingInsights |-> Query(<<"insights", "spending">>, InsightsApi.getSpending),
     useBehaviorAnalysis |-> Query(<<"ai", "behavior">>, AiApi.analyzeBehavior)]
WeeklySummaryQueries ==
    [useCurrentWeeklySummary |->
         Query(<<"weekly-summary", "current">>, WeeklySummaryApi.getCurrent),
     useWeeklySummaryHistory |->
         Query(<<"weekly-summary", "history">>, WeeklySummaryApi.getHistory)]
WeeklySummaryMutations ==
    [useGenerateWeeklySummary |->
         Mutation(WeeklySummaryApi.generate, {<<"weekly-summary">>})]
UserMutations ==
    [useUpdateProfile |-> Mutation(UsersApi.update, {<<"users", "me">>}),
     useSendTestPush |-> Mutation(PushApi.test, {})]
AiMutations == [useAskAi |-> Mutation(AiApi.ask, {})]
\* What the session store sends without a hook.
SessionCalls ==
    [login |-> Mutation(AuthApi.login, {}), register |-> Mutation(AuthApi.register, {}),
     logout |-> Mutation(AuthApi.logout, {})]

Queries ==
    Joined({AccountQueries, GoalQueries, BudgetQueries, SubscriptionQueries,
            TransactionQueries, NotificationQueries, DashboardQueries,
            InsightQueries, WeeklySummaryQueries})
Mutations ==
    Joined({AccountMutations, GoalMutations, BudgetMutations, SubscriptionMutations,
            TransactionMutations, NotificationMutations, WeeklySummaryMutations,
            UserMutations, AiMutations, SessionCalls})

-----------------------------------------------------------------------------
(* The pages.  A list that loads is a skeleton. *)

\* Leaving a modal of a form empties it.
Leaves(ui, form) == Becomes(Closed(Cleared(ui, form)))
Unless(busy, presses) == IF busy THEN {} ELSE presses
\* The confirmation of a removal stays until the removal has succeeded.
RemovalModal(ui, s, op) ==
    {Closes(ui)} \cup
    Unless(op \in s.busy, {Press(ui, op, ui.on, {}, 0, "confirm")})

AccountsScreen(ui, s) == IF s.loading THEN "spinner" ELSE Listing(Listed(ui, s))
AccountCard(ui, s, a) ==
    If(s.rows[a] = "plain", {Calls(ui, "useSetPrimaryAccount", a)})
        \cup {Calls(ui, "useSyncAccount", a), Opens(ui, "confirm", a)}
CreateAccountModal(ui, s) ==
    {Leaves(ui, "create")} \cup
    If(Typed(ui, "create") /\ "useCreateAccount" \notin s.busy,
       {Submits(ui, Cleared(ui, "create"), "create", "useCreateAccount", 0,
                {"accountType", "accountName", "providerName", "maskedAccountNumber",
                 "balance"}, "create")})
AccountsPresses(ui, s) ==
    Uncovered(ui, {Opens(ui, "create", 0)} \cup
                  If(~s.loading, Each(Listed(ui, s), LAMBDA a : AccountCard(ui, s, a))))
        \cup In(ui, "create", CreateAccountModal(ui, s))
        \cup In(ui, "confirm", RemovalModal(ui, s, "useDeleteAccount"))

GoalsScreen(ui, s) == IF s.loading THEN "spinner" ELSE Listing(Listed(ui, s))
GoalCard(ui, s, g) ==
    If(s.rows[g] = "plain", {Opens(ui, "contribute", g)}) \cup {Opens(ui, "confirm", g)}
CreateGoalModal(ui, s) ==
    {Leaves(ui, "create")} \cup
    If(Typed(ui, "create") /\ "useCreateGoal" \notin s.busy,
       {Submits(ui, Cleared(ui, "create"), "create", "useCreateGoal", 0,
                {"name", "targetAmount", "category", "targetDate"}, "create")})
ContributeModal(ui, s) ==
    {Leaves(ui, "contribute")} \cup
    If(Typed(ui, "contribute") /\ "useContributeGoal" \notin s.busy,
       {Submits(ui, Cleared(ui, "contribute"), "contribute", "useContributeGoal", ui.on,
                {"amount"}, "contribute")})
GoalsPresses(ui, s) ==
    Uncovered(ui, {Opens(ui, "create", 0)} \cup Chooses(ui, {"all", "plain", "marked"})
                  \cup If(~s.loading, Each(Listed(ui, s), LAMBDA g : GoalCard(ui, s, g))))
        \cup In(ui, "create", CreateGoalModal(ui, s))
        \cup In(ui, "contribute", ContributeModal(ui, s))
        \cup In(ui, "confirm", RemovalModal(ui, s, "useDeleteGoal"))

BudgetsScreen(ui, s) == IF s.loading THEN "spinner" ELSE Listing(Listed(ui, s))
BudgetCard(ui, s, b) == {Opens(ui, "confirm", b)}
CreateBudgetModal(ui, s) ==
    {Leaves(ui, "create")} \cup
    If(Typed(ui, "create") /\ "useCreateBudget" \notin s.busy,
       {Submits(ui, Cleared(ui, "create"), "create", "useCreateBudget", 0,
                {"name", "amountLimit", NamedCategory, "period"}, "create")})
BudgetsPresses(ui, s) ==
    Uncovered(ui, {Opens(ui, "create", 0)} \cup
                  If(~s.loading, Each(Listed(ui, s), LAMBDA b : BudgetCard(ui, s, b))))
        \cup In(ui, "create", CreateBudgetModal(ui, s))
        \cup In(ui, "confirm", RemovalModal(ui, s, "useDeleteBudget"))

\* Whatever the tab, only active subscriptions are listed.
SubscriptionsScreen(ui, s) ==
    IF s.loading THEN "spinner" ELSE Listing(Rows(s.rows, {"plain"}))
SubscriptionCard(ui, s, b) ==
    {Calls(ui, "usePauseSubscription", b), Opens(ui, "guide", b)}
CancelGuideModal(ui, s) ==
    {Closes(ui), Calls(Closed(ui), "useCancelSubscription", ui.on)}
SubscriptionsPresses(ui, s) ==
    Uncovered(ui, If(~s.loading, Each(Rows(s.rows, {"plain"}),
                                      LAMBDA b : SubscriptionCard(ui, s, b))))
        \cup In(ui, "guide", CancelGuideModal(ui, s))

TransactionsScreen(ui, s) ==
    IF s.loading THEN "spinner" ELSE Listing(Rows(s.rows, Present))
TransactionsPresses(ui, s) ==
    {Requery(ui)}                       \* the type and the search are part of the key

NewTransactionPresses(ui, s) ==
    If(Typed(ui, "form") /\ "useCreateTransaction" \notin s.busy,
       {Submits(ui, ui, "form", "useCreateTransaction", 0,
                {"type", "amount", "merchant", "description", NamedCategory,
                 "accountId", "date"}, Leave)})

TransactionDetailScreen(ui, s) ==
    IF s.loading \/ Rows(s.rows, Present) = {} THEN "spinner" ELSE "rows"
TransactionDetailPresses(ui, s) ==
    Each(Rows(s.rows, Present), LAMBDA t :
        {Opens(ui, "pick", t), Opens(ui, "edit", t), Closes(ui),
         Edits(ui, "useUpdateTransaction", t, {"isImpulse"}),
         Press(ui, "useDeleteTransaction", t, {}, 0, Leave)})
        \cup In(ui, "pick", {Edits(Closed(ui), "useUpdateTransaction", ui.on, {"category"})})
        \cup In(ui, "edit",
                {Edits(Closed(ui), "useUpdateTransaction", ui.on, {"description"})})

NotificationsScreen(ui, s) ==
    IF s.loading THEN "spinner" ELSE Listing(Listed(ui, s))
NotificationRow(ui, s, n) ==
    If(s.rows[n] = "plain", {Calls(ui, "useMarkNotificationRead", n)})
        \cup {Calls(ui, "useDeleteNotification", n)}
NotificationsPresses(ui, s) ==
    If(Rows(s.rows, {"plain"}) # {},
       Unless("useMarkAllNotificationsRead" \in s.busy,
              {Calls(ui, "useMarkAllNotificationsRead", 0)}))
        \cup Chooses(ui, {"all", "plain"})
        \cup If(~s.loading, Each(Listed(ui, s), LAMBDA n : NotificationRow(ui, s, n)))

WeeklySummaryScreen(ui, s) ==
    IF s.loading THEN "spinner" ELSE Listing(Rows(s.rows, Present))
WeeklySummaryPresses(ui, s) ==
    Unless("useGenerateWeeklySummary" \in s.busy, {Calls(ui, "useGenerateWeeklySummary", 0)})

InsightsScreen(ui, s) == IF s.loading THEN "spinner" ELSE Listing(Rows(s.rows, Present))
InsightsPresses(ui, s) == If(~s.loading, {Requery(ui)})

MoneyLeaksScreen(ui, s) ==
    IF s.loading THEN "spinner"
    ELSE Listing(Rows(s.rows, IF ui.show = "all" THEN Present ELSE {}))
MoneyLeaksPresses(ui, s) == If(~s.loading, Chooses(ui, {"all", "marked"}))

\* The skeleton stays for as long as there is no answer.
HealthScoreScreen(ui, s) == IF s.loading \/ ~s.known THEN "spinner" ELSE "rows"

\* The button waits for the answer, the Enter key does not.
AiCoachScreen(ui, s) == IF "useAskAi" \in s.busy THEN "spinner" ELSE "form"
AiCoachPresses(ui, s) ==
    If(Typed(ui, "form"), {Submits(ui, Cleared(ui, "form"), "form", "useAskAi", 0, {}, None)})
        \cup Unless("useAskAi" \in s.busy, {Calls(ui, "useAskAi", 0)})

\* As DashboardScreen, without the screen for the case that all failed.
DashboardScreenUntilData(ui, s) == IF s.some THEN "rows" ELSE "spinner"
DashboardScreen(ui, s) ==
    CASE ~s.some /\ s.fetching -> "spinner"
      [] ~s.some /\ s.allFailed -> "failed"
      [] OTHER -> "rows"
DashboardPresses(ui, s) == If(~s.some /\ s.allFailed, {Refetch(ui)})

\* A switch sends the opposite of what it shows, which is its default while the
\* preferences are not known; both modals use one mutation.
PreferenceSwitch(ui, s, p) ==
    {Edits(ui, "useUpdateNotificationPreferences", p, {"pushEnabled"})}
ProfileEditModal(ui, s) ==
    {Leaves(ui, "edit")} \cup
    If(Typed(ui, "edit") /\ "useUpdateProfile" \notin s.busy,
       {Submits(ui, ui, "edit", "useUpdateProfile", 0, {"name", "email", "phone"}, "edit")})
PasswordModal(ui, s) ==
    {Leaves(ui, "create")} \cup
    If(Typed(ui, "create") /\ "useUpdateProfile" \notin s.busy,
       {Submits(ui, ui, "create", "useUpdateProfile", 0, {"password"}, "create")})
SettingsPresses(ui, s) ==
    Uncovered(ui, {Opens(Cleared(ui, "edit"), "edit", 0),
                   Opens(Cleared(ui, "create"), "create", 0), Opens(ui, "confirm", 0)}
                  \cup Unless("useSendTestPush" \in s.busy, {Calls(ui, "useSendTestPush", 0)})
                  \cup Each(Item, LAMBDA p : PreferenceSwitch(ui, s, p)))
        \cup In(ui, "edit", ProfileEditModal(ui, s))
        \cup In(ui, "create", PasswordModal(ui, s))
        \cup In(ui, "confirm",
                {Closes(ui), Press(Closed(ui), "logout", 0, {}, 0, Leave)})

LoginPresses(ui, s) ==
    If(Typed(ui, "form") /\ "login" \notin s.busy,
       {Submits(ui, ui, "form", "login", 0, {}, Leave)})
RegisterPresses(ui, s) ==
    If(Typed(ui, "form") /\ "register" \notin s.busy,
       {Submits(ui, ui, "form", "register", 0, {}, Leave)})

-----------------------------------------------------------------------------
(* Which page it is. *)

Uses ==
    [Accounts |-> <<"useAccounts">>, Goals |-> <<"useGoals">>, Budgets |-> <<"useBudgets">>,
     Subscriptions |-> <<"useSubscriptions">>, Transactions |-> <<"useTransactions">>,
     AddTransaction |-> <<"useAccounts">>, TransactionDetail |-> <<"useTransaction">>,
     Notifications |-> <<"useNotifications", "useUnreadCount">>,   \* the bell
     WeeklySummary |-> <<"useCurrentWeeklySummary", "useWeeklySummaryHistory">>,
     Insights |-> <<"useSpendingInsights", "useBehaviorAnalysis">>,
     MoneyLeaks |-> <<"useMoneyLeaks">>, HealthScore |-> <<"useHealthScore">>,
     AIAssistant |-> <<>>,
     Home |-> <<"useDashboard", "useHealthScore", "useGoals", "useArchetype",
                "useMoneyLeaks", "useActionCards", "useUpcomingSubscriptions",
                "useActiveSubscriptions">>,
     Settings |-> <<"useNotificationPreferences">>,     \* and the bell's count
     Login |-> <<>>, Register |-> <<>>]

FormScreens == {"AddTransaction", "AIAssistant", "Login", "Register"}
Start(screen) ==
    CASE screen \in FormScreens -> Starts("form")
      [] screen = "Goals" -> Shows("plain")
      [] OTHER -> Shows("all")

Face(screen, ui, s) ==
    CASE screen = "Accounts" -> AccountsScreen(ui, s)
      [] screen = "Goals" -> GoalsScreen(ui, s)
      [] screen = "Budgets" -> BudgetsScreen(ui, s)
      [] screen = "Subscriptions" -> SubscriptionsScreen(ui, s)
      [] screen = "Transactions" -> TransactionsScreen(ui, s)
      [] screen = "TransactionDetail" -> TransactionDetailScreen(ui, s)
      [] screen = "Notifications" -> NotificationsScreen(ui, s)
      [] screen = "WeeklySummary" -> WeeklySummaryScreen(ui, s)
      [] screen = "Insights" -> InsightsScreen(ui, s)
      [] screen = "MoneyLeaks" -> MoneyLeaksScreen(ui, s)
      [] screen = "HealthScore" -> HealthScoreScreen(ui, s)
      [] screen = "AIAssistant" -> AiCoachScreen(ui, s)
      [] screen = "Home" -> DashboardScreen(ui, s)
      [] OTHER -> "form"

Presses(screen, ui, s) ==
    CASE screen = "Accounts" -> AccountsPresses(ui, s)
      [] screen = "Goals" -> GoalsPresses(ui, s)
      [] screen = "Budgets" -> BudgetsPresses(ui, s)
      [] screen = "Subscriptions" -> SubscriptionsPresses(ui, s)
      [] screen = "Transactions" -> TransactionsPresses(ui, s)
      [] screen = "AddTransaction" -> NewTransactionPresses(ui, s)
      [] screen = "TransactionDetail" -> TransactionDetailPresses(ui, s)
      [] screen = "Notifications" -> NotificationsPresses(ui, s)
      [] screen = "WeeklySummary" -> WeeklySummaryPresses(ui, s)
      [] screen = "Insights" -> InsightsPresses(ui, s)
      [] screen = "MoneyLeaks" -> MoneyLeaksPresses(ui, s)
      [] screen = "HealthScore" -> {}
      [] screen = "AIAssistant" -> AiCoachPresses(ui, s)
      [] screen = "Home" -> DashboardPresses(ui, s)
      [] screen = "Settings" -> SettingsPresses(ui, s)
      [] screen = "Login" -> LoginPresses(ui, s)
      [] screen = "Register" -> RegisterPresses(ui, s)
=============================================================================
