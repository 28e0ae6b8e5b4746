-------------------------- MODULE SpendingInsights --------------------------
(***************************************************************************)
(* InsightsGeneratorService of the AI service and the weekly summary that  *)
(* main.py puts together.                                                  *)
(* offset says whether the dates of a payload carry a UTC offset, as those *)
(* of the backend do: such dates cannot be compared with utcnow().         *)
(***************************************************************************)
EXTENDS AiContext

CONSTANTS
    AnomalyNeeds,        \* debits before anomalies are looked for (5)
    UnusualFactor        \* times the average that is unusual in a week (4)

ASSUME AnomalyNeeds \in Nat \ {0} /\ UnusualFactor \in Nat \ {0}

DaysOf(period) ==
    CASE period = "week" -> 7 [] period = "quarter" -> 90 [] period = "year" -> 365
      [] OTHER -> 30

Current(S, period)  == Recent(S, DaysOf(period))
Previous(S, period) == Recent(S, 2 * DaysOf(period)) \ Current(S, period)

Breakdown(S) == [k \in Categories(S) |-> SpentIn(S, k)]

\* The keys with most spent, most first.
Top(n, keys, Of(_)) ==
    LET sorted == Sorted(keys, LAMBDA x, y : Of(x) > Of(y))
    IN  SubSeq(sorted, 1, Min({n, Len(sorted)}))

\* Entries without a merchant are left out here, and named "Unknown" in the
\* weekly summary.
TopMerchants(S) == Top(5, Merchants(S) \ {None}, LAMBDA m : Outgo(At(S, m)))

Trends(now, before) ==
    LET known == {k \in Categories(before) : SpentIn(before, k) > 0}
        Change(k) == 100 * (SpentIn(now, k) - SpentIn(before, k))
    IN  {<<"INCREASING", k>> : k \in {x \in known : Change(x) > 15 * SpentIn(before, x)}}
        \cup {<<"DECREASING", k>> : k \in {x \in known : Change(x) < -15 * SpentIn(before, x)}}

HighSpend(S) == {k \in Categories(S) : 100 * SpentIn(S, k) > 25 * Outgo(S)}

\* ", ".join of the categories, one of which is None.
NamesUnjoinable(S) == None \in HighSpend(S)

Recommendations(S) ==
    When(HighSpend(S) # {}, {"SPENDING_ANALYSIS"})
    \cup When(Earned(S) > 0 /\ ~RateAtLeast(S, 20), {"RECOMMENDATION"})

\* In hundredths: five percent more than was spent.
Prediction(S) == 105 * Outgo(S)

InsightsFail(S, period, offset) ==
    (offset /\ S # {}) \/ NamesUnjoinable(Current(S, period))

Insights(S, period) ==
    LET now == Current(S, period)
    IN  [breakdown |-> Breakdown(now), merchants |-> TopMerchants(now),
         trends |-> Trends(now, Previous(S, period)),
         advice |-> Recommendations(now), next |-> Prediction(now)]

\* detect_anomalies: debits more than two standard deviations above average.
Anomalies(S) ==
    LET n == Cardinality(Debits(S))
        s == Outgo(S)
        q == MapThenSumSet(LAMBDA e : EntryOf[e].amount * EntryOf[e].amount, Debits(S))
        Over(e) == n * EntryOf[e].amount - s
    IN  When(n >= AnomalyNeeds /\ n > 1 /\ n * q > s * s,
             {e \in Debits(S) : /\ Over(e) > 0
                                /\ Over(e) * Over(e) * (n - 1) > 4 * n * (n * q - s * s)})

\* generate_predictions, without data to predict from.
Predictions(S) == IF S = {} THEN 0 ELSE Prediction(S)

-----------------------------------------------------------------------------
(* generate_weekly_summary: the week's entries, their flags, the week before *)

Unusual(S) ==
    {e \in Debits(S) : EntryOf[e].amount * Cardinality(Debits(S)) > UnusualFactor * Outgo(S)}

SpentChanged(S, before, p) ==
    Outgo(before) > 0 /\ 100 * (Outgo(S) - Outgo(before)) > p * Outgo(before)
SpentDropped(S, before, p) ==
    Outgo(before) > 0 /\ 100 * (Outgo(S) - Outgo(before)) < -p * Outgo(before)

Wins(c, before) ==
    When(RateAtLeast(c.txs, 20), {"saved"})
    \cup When(SpentDropped(c.txs, before, 10), {"spent less"})
    \cup When(Debits(c.impulse \cup c.night) = {}, {"no impulse"})

Improvements(c, before) ==
    When(Debits(c.impulse) # {}, {"impulse"})
    \cup When(Earned(c.txs) > 0 /\ ~RateAtLeast(c.txs, 10), {"savings rate"})
    \cup When(SpentChanged(c.txs, before, 20), {"spent more"})

\* _local_summary_fallback and the fallback of the LLM service: the sentiment.
Sentiment(S) ==
    CASE RateAtLeast(S, 20) -> "strong"
      [] RateAtLeast(S, 10) /\ ~RateAtLeast(S, 20) -> "decent"
      [] RateAtLeast(S, 0) /\ ~RateAtLeast(S, 10) -> "tight"
      [] OTHER -> "overspent"

\* A failure of the recommendations leaves them out.
WeeklySummary(c, before, offset) ==
    [top |-> Top(5, Categories(c.txs), LAMBDA k : SpentIn(c.txs, k)),
     merchants |-> Top(5, Merchants(c.txs), LAMBDA m : Outgo(At(c.txs, m))),
     unusual |-> Unusual(c.txs), wins |-> Wins(c, before),
     improvements |-> Improvements(c, before), sentiment |-> Sentiment(c.txs),
     advice |-> IF InsightsFail(c.txs, "week", offset) THEN {}
                ELSE Recommendations(Current(c.txs, "week"))]
=============================================================================
