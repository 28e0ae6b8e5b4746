---------------------------- MODULE HealthScore ----------------------------
(***************************************************************************)
(* FinancialHealthService of the AI service: seven components of the       *)
(* health score, their weights, the rating and the advice.                 *)
(***************************************************************************)
EXTENDS AiContext

CONSTANT DaysNeeded      \* days with spending before consistency is judged

ASSUME DaysNeeded \in Nat \ {0}

\* A budget without a category is charged with the spending that has none.
BudgetSpent(c, b) == SpentIn(c.txs, BudgetOf[b].category)
Exceeded(c) == {b \in c.budgets : BudgetSpent(c, b) > BudgetOf[b].limit}

SavingsScore(c) ==
    Grade({<<TRUE, 0>>} \cup
          {<<RateAtLeast(c.txs, g[1]), g[2]>> :
              g \in {<<0, 30>>, <<5, 50>>, <<10, 70>>, <<15, 85>>, <<20, 100>>}})

BudgetScore(c) ==
    IF c.budgets = {} THEN 70
    ELSE (100 * Cardinality(c.budgets \ Exceeded(c))) \div Cardinality(c.budgets)

LowUsage(c) == {s \in c.active : SubOf[s].low}
Dearer(c)   == {s \in c.active : SubOf[s].raised}

SubscriptionScore(c) ==
    100 - Min({10 * Cardinality(LowUsage(c)), 30})
        - Min({5 * Cardinality(Dearer(c)), 15})

\* The squared coefficient of variation of n daily totals with sum s and sum
\* of squares q is n * (n * q - s^2) / ((n - 1) * s^2).
Days(c)   == {EntryOf[e].day : e \in Debits(c.txs)}
DayTotal(c, d) == Outgo({e \in c.txs : EntryOf[e].day = d})

ConsistencyScore(c) ==
    LET n == Cardinality(Days(c))
        s == Outgo(c.txs)
        q == MapThenSumSet(LAMBDA d : DayTotal(c, d) * DayTotal(c, d), Days(c))
        Below(tenths) == n = 1 \/ 100 * n * (n * q - s * s) < tenths * tenths * (n - 1) * s * s
    IN  IF n < DaysNeeded THEN 70
        ELSE Grade({<<TRUE, 30>>, <<Below(10), 50>>, <<Below(7), 70>>,
                    <<Below(5), 85>>, <<Below(3), 100>>})

\* Flagged rows of either type, over debits only.
ImpulseScore(c) ==
    LET n == Cardinality(c.impulse)
        d == Cardinality(Debits(c.txs))
        AtMost(percent) == 100 * n <= percent * d
    IN  IF d = 0 THEN 100
        ELSE Grade({<<TRUE, 30>>, <<AtMost(30), 50>>, <<AtMost(20), 75>>,
                    <<AtMost(10), 90>>, <<AtMost(5), 100>>})

\* The average progress of the open goals, each capped at its target, over
\* the common denominator of the targets.
GoalScore(c) ==
    LET open == c.goals \ c.done
        scale == FoldSet(LAMBDA g, p : GoalOf[g].target * p, 1, open)
        Part(g) == Min({c.saved[g], GoalOf[g].target}) * (scale \div GoalOf[g].target)
        Average(percent) ==
            100 * MapThenSumSet(Part, open) >= percent * scale * Cardinality(open)
    IN  IF c.goals = {} THEN 70
        ELSE IF open = {} THEN 100
        ELSE Grade({<<TRUE, 50>>, <<Average(25), 70>>, <<Average(50), 85>>,
                    <<Average(75), 100>>})

CreditScore == 75

\* calculate_health_score, in hundredths.
Score(c) ==
    25 * SavingsScore(c) + 20 * BudgetScore(c) + 15 * SubscriptionScore(c)
  + 15 * ConsistencyScore(c) + 10 * ImpulseScore(c) + 10 * GoalScore(c)
  + 5 * CreditScore

Rating(score) ==
    CASE score >= 8500 -> "EXCELLENT"
      [] score >= 7000 -> "GOOD"
      [] score >= 5500 -> "FAIR"
      [] score >= 4000 -> "NEEDS_ATTENTION"
      [] OTHER         -> "CRITICAL"

\* _generate_insights; the impulse ratio is a percentage there and is compared
\* with 0.15.
Advice(c) ==
    {a \in {"SAVINGS_RATE", "BUDGET_ADHERENCE", "SUBSCRIPTION_HEALTH", "IMPULSE_CONTROL"} :
        CASE a = "SAVINGS_RATE"        -> SavingsScore(c) < 70
          [] a = "BUDGET_ADHERENCE"    -> Exceeded(c) # {}
          [] a = "SUBSCRIPTION_HEALTH" -> LowUsage(c) # {}
          [] a = "IMPULSE_CONTROL"     ->
                /\ Debits(c.txs) # {}
                /\ 10000 * Cardinality(c.impulse) > 15 * Cardinality(Debits(c.txs))}

Health(c) == [score |-> Score(c), rating |-> Rating(Score(c)), advice |-> Advice(c)]
=============================================================================
