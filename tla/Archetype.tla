----------------------------- MODULE Archetype -----------------------------
(***************************************************************************)
(* UserProfilerService of the AI service: which of five kinds of user the  *)
(* context makes one.  Scores are percentages.                             *)
(***************************************************************************)
EXTENDS AiContext

CONSTANTS
    DiscretionaryCategory,   \* names on the list of discretionary categories
    ManySubs                 \* 5 subscriptions; twice as many are very many

ASSUME DiscretionaryCategory \subseteq Category /\ ManySubs \in Nat \ {0}

Discretionary(S) ==
    MapThenSumSet(LAMBDA k : SpentIn(S, k), Categories(S) \cap DiscretionaryCategory)

\* discretionary_ratio in percent lies in [low, high]; 0 when nothing is spent.
DiscretionaryAtMost(c, p)  == 100 * Discretionary(c.txs) <= p * Outgo(c.txs)
DiscretionaryAtLeast(c, p) ==
    Outgo(c.txs) > 0 /\ 100 * Discretionary(c.txs) >= p * Outgo(c.txs)

\* subscription_to_income_ratio > p percent; 0 without income.
SubsAbove(c, p) ==
    Earned(c.txs) > 0 /\ 100 * Price(Monthly(c.active)) > p * Earned(c.txs)

RateAtMost(S, p) ==
    IF Earned(S) = 0 THEN 0 <= p ELSE 100 * Net(S) <= p * Earned(S)

SpendHeavy(c) ==
    Grade({<<TRUE, 0>>, <<~DiscretionaryAtMost(c, 30), 25>>, <<~DiscretionaryAtMost(c, 40), 40>>})
  + Grade({<<TRUE, 0>>, <<~RateAtLeast(c.txs, 15), 20>>, <<~RateAtLeast(c.txs, 10), 35>>})

SavingsFocused(c) ==
    Grade({<<TRUE, 0>>, <<RateAtLeast(c.txs, 15), 25>>, <<RateAtLeast(c.txs, 20), 40>>,
           <<RateAtLeast(c.txs, 30), 50>>})
  + Grade({<<TRUE, 0>>, <<~DiscretionaryAtLeast(c, 20), 30>>})

CreditUser(c) == 0

SubscriptionHeavy(c) ==
    Grade({<<TRUE, 0>>, <<Cardinality(c.active) >= ManySubs, 20>>,
           <<Cardinality(c.active) >= 2 * ManySubs, 30>>})
  + Grade({<<TRUE, 0>>, <<SubsAbove(c, 10), 25>>, <<SubsAbove(c, 15), 40>>})

Balanced(c) ==
    50
  + Grade({<<TRUE, 0>>, <<RateAtLeast(c.txs, 15) /\ RateAtMost(c.txs, 25), 20>>})
  + Grade({<<TRUE, 0>>, <<DiscretionaryAtLeast(c, 20) /\ DiscretionaryAtMost(c, 35), 15>>})
  + Grade({<<TRUE, 0>>, <<Earned(c.txs) = 0
                            \/ 100 * Price(Monthly(c.active)) < 10 * Earned(c.txs), 15>>})

\* In the order of the dictionary: max() keeps the first of equal scores.
ArchetypeScores(c) ==
    << <<"SPEND_HEAVY", SpendHeavy(c)>>, <<"SAVINGS_FOCUSED", SavingsFocused(c)>>,
       <<"CREDIT_USER", CreditUser(c)>>, <<"SUBSCRIPTION_HEAVY", SubscriptionHeavy(c)>>,
       <<"BALANCED", Balanced(c)>> >>

\* Widget order of the dashboard, by the first widget of each list.
DashboardPriority(archetype) ==
    CASE archetype = "SPEND_HEAVY"        -> "leak_alerts"
      [] archetype = "SAVINGS_FOCUSED"    -> "goal_progress"
      [] archetype = "CREDIT_USER"        -> "credit_card_due_dates"
      [] archetype = "SUBSCRIPTION_HEAVY" -> "subscription_calendar"
      [] OTHER                            -> "spending_summary"

ProfileAdvice(archetype) ==
    CASE archetype = "SPEND_HEAVY"        -> {"BUDGET", "AUTOMATION", "ALERT"}
      [] archetype = "SAVINGS_FOCUSED"    -> {"INVESTMENT", "GOAL"}
      [] archetype = "SUBSCRIPTION_HEAVY" -> {"REVIEW", "CANCEL"}
      [] archetype = "CREDIT_USER"        -> {"PAYMENT", "ALERT"}
      [] OTHER                            -> {}

\* Without transactions the answer has no priorities and no recommendations.
Profile(c) ==
    LET scores == ArchetypeScores(c)
        best   == CHOOSE i \in 1 .. 5 :
                    /\ \A j \in 1 .. 5 : scores[j][2] <= scores[i][2]
                    /\ \A j \in 1 .. i - 1 : scores[j][2] < scores[i][2]
    IN  IF c.txs = {} THEN [archetype |-> "BALANCED", confidence |-> 0,
                            first |-> None, advice |-> {}]
        ELSE [archetype |-> scores[best][1], confidence |-> scores[best][2],
              first |-> DashboardPriority(scores[best][1]),
              advice |-> ProfileAdvice(scores[best][1])]
=============================================================================
