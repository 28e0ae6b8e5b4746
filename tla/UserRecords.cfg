SPECIFICATION Spec
CONSTANTS
    Account = {a1, a2}
    Name = {n1, n2}
    NoName = NoName
    NoAccount = NoAccount
    AccountHandler = {h1, h2}
    MaxAccountCalls = 5
    Goal = {g1}
    Amount = {0, 1, 2}
    Keep = Keep
    GoalHandler = {h1, h2}
    MaxGoalCalls = 4
    Tx <- MCTx
    Cost <- MCCost
    Credit = {"pay"}
    Category = {c1, c2}
    AnyCategory = AnyCategory
    Budget = {b1}
    Week = Week
    SpendHandler = {h1, h2}
    MaxSpendCalls = 5
    Pref = {p1, p2}
    Unset = Unset
    PrefHandler = {h1, h2}
    MaxPrefCalls = 4
INVARIANTS TypeOK PrimaryStands GoalExact StoredTotalsFresh PrefsKept
CHECK_DEADLOCK FALSE
