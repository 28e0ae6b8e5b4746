\* Every screen of both clients, one at a time.
SPECIFICATION ClientSpec
CONSTANTS
  Item = {1, 2}
  Opened = {"Accounts", "Goals", "Budgets", "Subscriptions", "Transactions",
            "TransactionDetail", "AddTransaction", "Notifications", "WeeklySummary",
            "Insights", "MoneyLeaks", "HealthScore", "AIAssistant", "Home", "Settings",
            "SmsForward", "Login", "Register"}
  MaxQueries = 3
  MaxDrafts = 2
  MaxSent = 2
INVARIANTS ClientTypeOK OneCallPerDraft ShowsOwnWrites
PROPERTY WaitingEnds
\* A screen that was left, or has nothing left to send, stops.
CHECK_DEADLOCK FALSE
