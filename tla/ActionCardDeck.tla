--------------------------- MODULE ActionCardDeck ---------------------------
(***************************************************************************)
(* ActionCardGenerator of the AI service: one card per thing to fix, by    *)
(* urgency and impact, and only the first ten of them.  Impacts are in     *)
(* twelfths of a rupee, as the savings of leaks are.                       *)
(***************************************************************************)
EXTENDS AiContext

CONSTANT TopCards        \* how many cards are kept
ASSUME TopCards \in Nat \ {0}

Urgency == [URGENT |-> 0, HIGH |-> 1, MEDIUM |-> 2, LOW |-> 3]

Card(kind, about, priority, impact) ==
    [kind |-> kind, about |-> about, priority |-> priority, impact |-> impact]

\* The generator knows fewer services than the leak detector does, and asks
\* for low usage by the flag alone.
Rivals(c, service) ==
    {s \in c.active : SubOf[s].service = service /\ SubOf[s].listed}

SubscriptionCards(c) ==
    {Card("CANCEL_SUBSCRIPTION", s, "HIGH", 12 * SubOf[s].amount) :
        s \in {x \in c.active : SubOf[x].low}}
    \cup {Card("REVIEW_SUBSCRIPTION", s, "MEDIUM", 12 * (SubOf[s].amount - SubOf[s].was)) :
        s \in {x \in c.active : SubOf[x].raised}}
    \cup {Card("CANCEL_SUBSCRIPTION", v, "HIGH",
               12 * (Price(Rivals(c, v)) - Min({SubOf[s].amount : s \in Rivals(c, v)}))) :
        v \in {x \in {"music", "video", "cloud"} : Cardinality(Rivals(c, x)) > 1}}

\* Cards for those of the first five leaks that are not about subscriptions.
LeakCards(leaks) ==
    LET first == {leaks[i] : i \in 1 .. Min({5, Len(leaks)})}
        Cards(leak, kind, priority) ==
            {Card(kind, l.about, priority, l.saves) : l \in {x \in first : x.kind = leak}}
    IN  Cards("IMPULSE_PURCHASES", "AVOID_IMPULSE", "HIGH")
        \cup Cards("LATE_NIGHT_SPENDING", "AVOID_IMPULSE", "MEDIUM")
        \cup Cards("SMALL_FREQUENT", "REDUCE_SPENDING", "MEDIUM")

BudgetCards(c) ==
    LET Limit(b) == BudgetOf[b].limit
        Spent(b) == SpentIn(c.txs, BudgetOf[b].category)
        Used(b, percent) == 100 * Spent(b) > percent * Limit(b)
    IN  IF c.budgets = {} THEN {Card("SET_BUDGET", "budgets", "MEDIUM", 0)}
        ELSE {Card("REDUCE_SPENDING", b,
                   CASE Used(b, 100) -> "URGENT"
                     [] Used(b, 90) /\ ~Used(b, 100) -> "HIGH"
                     [] OTHER -> "MEDIUM",
                   Max({0, 12 * (Spent(b) - Limit(b))})) :
                b \in {x \in c.budgets : Used(x, 75)}}

\* low: the health score that came with the context gives a savings rate
\* below 10 percent, or no health score came with it.
SavingsCards(low) ==
    When(low, {Card("INCREASE_SAVINGS", "rate", "HIGH", 0)})
    \cup {Card("EMERGENCY_FUND", "fund", "MEDIUM", 0)}

GoalCards(c) ==
    IF c.goals = {} THEN {Card("SET_GOAL", "goals", "LOW", 0)}
    ELSE {Card("TRACK_GOAL", g, "MEDIUM", 0) :
            g \in {x \in c.goals \ c.done :
                     GoalOf[x].dated /\ 2 * c.saved[x] < GoalOf[x].target}}

MoreUrgent(x, y) ==
    \/ Urgency[x.priority] < Urgency[y.priority]
    \/ x.priority = y.priority /\ x.impact > y.impact

\* generate_action_cards.
Deck(c, leaks, low) ==
    LET cards == SubscriptionCards(c) \cup LeakCards(leaks) \cup BudgetCards(c)
                 \cup SavingsCards(low) \cup GoalCards(c)
        sorted == Sorted(cards, MoreUrgent)
    IN  SubSeq(sorted, 1, Min({TopCards, Len(sorted)}))
=============================================================================
