SPECIFICATION AiSpec
CONSTANTS
    Entry = {"e1", "e2", "e3", "e4", "e5", "e6"}
    EntryOf <- MCEntryOf
    None = None
    Merchant = {"zomato", "shop"}
    Category = {"food"}
    Sub = {"s1", "s2", "s3"}
    SubOf <- MCSubOf
    Budget = {"b1", "b2"}
    BudgetOf <- MCBudgetOf
    Goal = {"g1", "g2"}
    GoalOf <- MCGoalOf
    DaysNeeded = 2
    SmallAmount = 2
    PurchasesNeeded = 1
    ImpulseMerchant = {"zomato"}
    ImpulseCategory = {"food"}
    SmallStep = 1
    DiscretionaryCategory = {"food"}
    ManySubs = 2
    TopCards = 4
    AnomalyNeeds = 3
    UnusualFactor = 2
    Question = {0, 5, 25}
    DetectionThreshold = 2
    Word = {"debited", "payment", "reward", "refund", "pizza"}
    Rupees = {0, 7}
    Unread = Unread
    Feature = {"health-score", "behavior"}
    Dropped = {"health-score"}
    Table = {"transactions", "goals"}
    Reader = {r1, r2}
    MaxVersion = 2
    Start <- MCStart
    Queries <- MCQueries
    Messages <- MCMessages
    MaxChanges = 2
INVARIANTS AiTypeOK DetectorsAgree DirectionAgrees CacheFresh
CHECK_DEADLOCK FALSE
