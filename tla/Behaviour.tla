----------------------------- MODULE Behaviour -----------------------------
(***************************************************************************)
(* BehavioralAnalyzerService of the AI service: late-night, weekend and    *)
(* impulse spending, and the flags that enrichment stores with a           *)
(* transaction.  late says that the time of day is from 22:00 to 06:00 as  *)
(* the timestamp reads, which is UTC.                                      *)
(***************************************************************************)
EXTENDS AiContext

CONSTANTS
    ImpulseMerchant,     \* names on the list of impulse merchants
    ImpulseCategory,     \* and of impulse categories
    SmallStep            \* 100 rupees; the next steps are 500 and 1000

ASSUME BehaviourAssumption ==
    /\ ImpulseMerchant \subseteq Merchant
    /\ ImpulseCategory \subseteq Category
    /\ SmallStep \in Nat \ {0}

\* The impulse score in tenths.
ImpulseTenths(e) ==
    LET row == EntryOf[e]
        points == {<<row.late, 3>>,
                   <<row.amount <= SmallStep, 3>>,
                   <<SmallStep < row.amount /\ row.amount <= 5 * SmallStep, 2>>,
                   <<5 * SmallStep < row.amount /\ row.amount <= 10 * SmallStep, 1>>}
        listed == 2 * Cardinality({row.category} \cap ImpulseCategory)
                + 2 * Cardinality({row.merchant} \cap ImpulseMerchant)
    IN  Min({10, listed + MapThenSumSet(LAMBDA p : p[2], {p \in points : p[1]})})

\* impulse_score > 0.6 on floats: 0.3 + 0.3 is 0.6, and every other way to
\* six tenths is 0.6000000000000001.
IsImpulse(e) ==
    \/ ImpulseTenths(e) > 6
    \/ ImpulseTenths(e) = 6 /\ ~(EntryOf[e].late /\ EntryOf[e].amount <= SmallStep)

\* tag_transactions does not ask whether the entry is a debit.
Tags(S) == [impulse |-> {e \in S : IsImpulse(e)}, night |-> {e \in S : EntryOf[e].late}]

Night(S)   == {e \in Debits(S) : EntryOf[e].late}
Weekend(S) == {e \in Debits(S) : EntryOf[e].weekend}
Impulse(S) == {e \in Debits(S) : IsImpulse(e)}

\* _calculate_behavioral_score: the score times what was spent.
Habit(S) == 40 * Amount(Night(S)) + 40 * Amount(Impulse(S)) + 10 * Amount(Weekend(S))

HabitRating(S) ==
    LET Above(p) == Habit(S) > p * Outgo(S)
    IN  CASE Outgo(S) = 0 -> "NO_DATA"
          [] Outgo(S) > 0 /\ Above(40) -> "NEEDS_ATTENTION"
          [] Outgo(S) > 0 /\ Above(25) /\ ~Above(40) -> "MODERATE"
          [] Outgo(S) > 0 /\ Above(10) /\ ~Above(25) -> "GOOD"
          [] OTHER -> "EXCELLENT"

\* _generate_insights: <<kind, severity>>.
HabitInsights(S) ==
    LET Share(p) == 100 * Amount(Night(S)) > p * Outgo(S)
        many == Cardinality(Impulse(S)) > 5
    IN  When(Share(10), {<<"LATE_NIGHT_SPENDING", IF Share(20) THEN "HIGH" ELSE "MEDIUM">>})
        \cup When(Weekend(S) # {}, {<<"WEEKEND_SPENDING", "INFO">>})
        \cup When(Impulse(S) # {}, {<<"IMPULSE_SPENDING", IF many THEN "HIGH" ELSE "MEDIUM">>})

Habits(c) ==
    IF c.txs = {} THEN [insights |-> {}, rating |-> "NO_DATA"]
    ELSE [insights |-> HabitInsights(c.txs), rating |-> HabitRating(c.txs)]
=============================================================================
