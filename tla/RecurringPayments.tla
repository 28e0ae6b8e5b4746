------------------------- MODULE RecurringPayments -------------------------
(***************************************************************************)
(* Both detectors of recurring payments: SubscriptionDetectorService of    *)
(* the AI service and detectSubscriptions of the backend's                 *)
(* SubscriptionService, which the scan and the endpoint of the backend use *)
(* to save subscriptions.  Confidences are in hundredths.                  *)
(***************************************************************************)
EXTENDS AiContext

CONSTANT DetectionThreshold      \* payments the backend asks for (3)
ASSUME RecurringAssumption == DetectionThreshold \in Nat \ {0, 1}

\* The ages of the payments, oldest first, and the gaps between them: in hours,
\* as exact as the dates are, and in the whole days that delta.days leaves.
Ages(S) ==
    LET sorted == Sorted(S, LAMBDA x, y : Age(x) > Age(y))
    IN  [i \in DOMAIN sorted |-> Age(sorted[i])]
Gaps(S)    == [i \in 1 .. Cardinality(S) - 1 |-> Ages(S)[i] - Ages(S)[i + 1]]
DayGaps(S) == [i \in DOMAIN Gaps(S) |-> Gaps(S)[i] \div 24]

Squares(f) == FoldFunction(LAMBDA x, sum : x * x + sum, 0, f)
SumOf(f)   == FoldFunction(LAMBDA x, sum : x + sum, 0, f)

\* From the sum of n gaps.
Frequency(sum, n) ==
    CASE sum <= 2 * n -> "DAILY"
      [] 2 * n < sum /\ sum <= 10 * n -> "WEEKLY"
      [] 10 * n < sum /\ sum <= 40 * n -> "MONTHLY"
      [] 40 * n < sum /\ sum <= 100 * n -> "QUARTERLY"
      [] OTHER -> "YEARLY"

AiFrequency(S)      == Frequency(SumOf(DayGaps(S)), Cardinality(S) - 1)
BackendFrequency(S) == Frequency(SumOf(Gaps(S)), 24 * (Cardinality(S) - 1))

\* The coefficient of variation is below p percent: of the sample for the AI
\* service (less one degree of freedom), of the population for the backend.
VariesBelow(S, p, less) ==
    LET n == Cardinality(S)
        amounts == [e \in S |-> EntryOf[e].amount]
        s == SumOf(amounts)
    IN  10000 * n * (n * Squares(amounts) - s * s) < p * p * (n - less) * s * s

\* The sample deviation of the gaps is below d days.
GapsVaryBelow(S, d) ==
    LET gaps == DayGaps(S)
        n == Len(gaps)
    IN  n * Squares(gaps) - SumOf(gaps) * SumOf(gaps) < d * d * n * (n - 1)

AiConfidence(S) ==
    LET n == Cardinality(S)
    IN  Min({100,
          50 + Min({5 * n, 20})
        + Grade({<<TRUE, 0>>, <<VariesBelow(S, 20, 1), 10>>, <<VariesBelow(S, 10, 1), 20>>})
        - Grade({<<TRUE, 0>>, <<~VariesBelow(S, 50, 1), 10>>})
        + Grade({<<TRUE, 0>>, <<n >= 3 /\ GapsVaryBelow(S, 7), 5>>,
                 <<n >= 3 /\ GapsVaryBelow(S, 3), 15>>})})

BackendConfidence(S) ==
    Min({100,
      50 + Min({5 * Cardinality(S), 20})
    + Grade({<<TRUE, 0>>, <<VariesBelow(S, 20, 0), 10>>, <<VariesBelow(S, 10, 0), 20>>})})

\* The AI service rounds the mean to hundredths, here its unit; the backend
\* passes the quotient on, here the amount of all payments and their number.
AiFound(S) ==
    [entries |-> S, frequency |-> AiFrequency(S), confidence |-> AiConfidence(S),
     hundredths |-> (200 * Amount(S) + Cardinality(S)) \div (2 * Cardinality(S))]

BackendFound(S) ==
    [entries |-> S, frequency |-> BackendFrequency(S), confidence |-> BackendConfidence(S),
     amount |-> <<Amount(S), Cardinality(S)>>]

\* The mutant: three payments, as the backend asks for.
DetectByAiLate(S) ==
    {AiFound(T) :
        T \in {U \in {At(S, m) : m \in {EntryOf[e].merchant : e \in S} \ {None}} :
                 Cardinality(U) >= 3 /\ AiConfidence(U) >= 50}}

\* The AI service is sent entries of both types.
DetectByAi(S) ==
    {AiFound(T) :
        T \in {U \in {At(S, m) : m \in {EntryOf[e].merchant : e \in S} \ {None}} :
                 Cardinality(U) >= 2 /\ AiConfidence(U) >= 50}}

\* The backend looks at all debits the user has.
DetectByBackend(S) ==
    {BackendFound(T) :
        T \in {U \in {At(Debits(S), m) : m \in Merchants(S) \ {None}} :
                 Cardinality(U) >= DetectionThreshold /\ BackendConfidence(U) >= 50}}

\* analyze_merchant_pattern.
Pattern(S) ==
    IF Cardinality(S) < 2 THEN [subscription |-> FALSE, confidence |-> 0]
    ELSE [subscription |-> AiConfidence(S) >= 50, confidence |-> AiConfidence(S)]

\* _calculate_next_payment: replacing only the month of a date whose day the
\* new month does not have raises ValueError, once more in the handler.
DaysIn(month) ==
    CASE month = 2 -> 28 [] month \in {4, 6, 9, 11} -> 30 [] OTHER -> 31

NextMonth(frequency, month) ==
    CASE frequency = "MONTHLY"   -> (month % 12) + 1
      [] frequency = "QUARTERLY" -> ((month + 2) % 12) + 1
      [] OTHER                   -> month

NextPaymentFails(frequency, month, day) ==
    frequency \in {"MONTHLY", "QUARTERLY"} /\ day > DaysIn(NextMonth(frequency, month))

PatternFails(S, month, day) ==
    Cardinality(S) >= 2 /\ NextPaymentFails(AiFrequency(S), month, day)

\* getSummary of the backend, in twelfths: here daily payments count.
MonthlySpend(c) ==
    MapThenSumSet(LAMBDA s :
        SubOf[s].amount * CASE SubOf[s].frequency = "DAILY"     -> 360
                            [] SubOf[s].frequency = "WEEKLY"    -> 48
                            [] SubOf[s].frequency = "MONTHLY"   -> 12
                            [] SubOf[s].frequency = "QUARTERLY" -> 4
                            [] SubOf[s].frequency = "YEARLY"    -> 1, c.active)
=============================================================================
