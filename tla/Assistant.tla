----------------------------- MODULE Assistant -----------------------------
(***************************************************************************)
(* AIAssistantService of the AI service: a question is classified by the   *)
(* patterns it matches and answered from the context.  A query is the set  *)
(* of intents some pattern of which it matches, and the number in it.      *)
(* The context that the backend sends has no leak analysis, so that waste  *)
(* is always nothing.                                                      *)
(***************************************************************************)
EXTENDS AiContext

CONSTANT Question      \* the amounts a question may name

ASSUME Question \subseteq Nat

\* In the order of intent_patterns.
Intents == <<"spending_summary", "waste_analysis", "affordability_check",
             "savings_advice", "subscription_help", "budget_help", "goal_help",
             "prediction", "comparison">>

Query == [matches : SUBSET ToSet(Intents), number : Question \cup {None}]

ClassifyIntent(q) ==
    IF q.matches = {} THEN "unknown"
    ELSE SelectSeq(Intents, LAMBDA i : i \in q.matches)[1]

\* Answers that have figures carry them.
Say(text, figures) == [text |-> text, figures |-> figures]

SpendingSummary(c) == Say("summary", <<Outgo(c.txs), Earned(c.txs)>>)

WasteAnalysis(c) == Say("waste", <<0>>)

\* amount / savings, when nothing was saved or lost.
AffordabilityFails(c, q) ==
    q.number # None /\ q.number > 0 /\ Net(c.txs) = 0

Affordability(c, q) ==
    LET net == Net(c.txs)
    IN  CASE q.number = None -> Say("no amount", <<>>)
          [] q.number # None /\ net >= q.number -> Say("yes", <<net>>)
          [] q.number # None /\ net < q.number /\ RateAtLeast(c.txs, 20)
                /\ 3 * net >= q.number -> Say("soon", <<net>>)
          [] OTHER -> Say("think twice", <<net>>)

\* The three categories with most spent, if they are above 15 percent.
Reducible(c) ==
    LET sorted == Sorted(Categories(c.txs),
                               LAMBDA x, y : SpentIn(c.txs, x) > SpentIn(c.txs, y))
    IN  {k \in {sorted[i] : i \in 1 .. Min({3, Len(sorted)})} :
            100 * SpentIn(c.txs, k) > 15 * Outgo(c.txs)}

\* None.replace("_", " "): the spending without a category is one of them.
SavingsAdviceFails(c) == None \in Reducible(c)

SavingsAdvice(c) ==
    Say("advice", Listed({<<k, SpentIn(c.txs, k)>> : k \in Reducible(c)}))

\* What is left lasts for so many days of average spending.
Runway(c) ==
    LET days == Cardinality({EntryOf[e].day : e \in Debits(c.txs)})
    IN  IF days = 0 THEN Say("no data", <<>>)
        ELSE Say("runway", <<Max({0, (Net(c.txs) * days) \div Outgo(c.txs)})>>)

SubscriptionHelp(c) ==
    Say("subscriptions", <<Cardinality(c.active), Price(Monthly(c.active)),
                           Cardinality({s \in c.active : SubOf[s].low}),
                           Cardinality({s \in c.active : SubOf[s].raised})>>)

\* Budget and goal questions have no handler of their own; with an LLM key
\* the text comes from the model, whose failure is answered with an apology.
General(llm) ==
    Say(CASE llm = "none" -> "help" [] llm = "up" -> "model" [] OTHER -> "apology", <<>>)

AssistantFails(c, q) ==
    \/ ClassifyIntent(q) = "affordability_check" /\ AffordabilityFails(c, q)
    \/ ClassifyIntent(q) = "savings_advice" /\ SavingsAdviceFails(c)

ProcessQuery(c, q, llm) ==
    LET intent == ClassifyIntent(q)
    IN  CASE intent = "spending_summary"    -> SpendingSummary(c)
          [] intent = "waste_analysis"      -> WasteAnalysis(c)
          [] intent = "affordability_check" -> Affordability(c, q)
          [] intent = "savings_advice"      -> SavingsAdvice(c)
          [] intent = "prediction"          -> Runway(c)
          [] intent = "subscription_help"   -> SubscriptionHelp(c)
          [] intent = "comparison"          -> Say("coming soon", <<>>)
          [] OTHER                          -> General(llm)
=============================================================================
