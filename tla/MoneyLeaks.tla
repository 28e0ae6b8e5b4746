----------------------------- MODULE MoneyLeaks -----------------------------
(***************************************************************************)
(* LeakDetectorService of the AI service.  A leak is a record with its     *)
(* kind, what it is about, the amount that counts for the score (0 for the *)
(* kinds that have none) and what fixing it saves, in twelfths of a rupee. *)
(***************************************************************************)
EXTENDS AiContext

CONSTANTS
    SmallAmount,         \* up to here a purchase is small
    PurchasesNeeded      \* small purchases at a merchant that make a leak

ASSUME SmallAmount \in Nat /\ PurchasesNeeded \in Nat \ {0}

Services == {"music", "video", "cloud", "news"}

LeakOf(kind, about, amount, saves) ==
    [kind |-> kind, about |-> about, amount |-> amount, saves |-> saves]

\* float(None): usageScore is sent as null when the column is NULL.
UsageUnreadable(c) == \E s \in c.active : SubOf[s].usage = None

MonthlyTwelfths(s) ==
    CASE SubOf[s].frequency = "WEEKLY"    -> 48 * SubOf[s].amount
      [] SubOf[s].frequency = "YEARLY"    -> SubOf[s].amount
      [] SubOf[s].frequency = "QUARTERLY" -> 4 * SubOf[s].amount
      [] OTHER                            -> 12 * SubOf[s].amount

UnusedLeaks(c) ==
    {LeakOf("UNUSED_SUBSCRIPTION", s, SubOf[s].amount, MonthlyTwelfths(s)) :
        s \in {x \in c.active : SubOf[x].low \/ SubOf[x].usage < 3}}

Competing(c, service) == {s \in c.active : SubOf[s].service = service}
Cheapest(S) == CHOOSE s \in S : \A t \in S : SubOf[s].amount <= SubOf[t].amount

DuplicateLeaks(c) ==
    {LeakOf("DUPLICATE_SERVICES", v, Price(Competing(c, v)),
            12 * Price(Competing(c, v) \ {Cheapest(Competing(c, v))})) :
        v \in {x \in Services : Cardinality(Competing(c, x)) > 1}}

PriceLeaks(c) ==
    {LeakOf("PRICE_INCREASES", s, 0, 12 * (SubOf[s].amount - SubOf[s].was)) :
        s \in {x \in c.active : /\ SubOf[x].raised
                                /\ SubOf[x].was > 0
                                /\ SubOf[x].amount > SubOf[x].was}}

Small(S) == {e \in Debits(S) : EntryOf[e].amount <= SmallAmount}

\* The five merchants with most spent in small purchases, most first.
SmallLeaks(c) ==
    LET often == {m \in Merchants(c.txs) :
                    Cardinality(At(Small(c.txs), m)) >= PurchasesNeeded}
        leaks == {LeakOf("SMALL_FREQUENT", m, 0, 12 * Amount(At(Small(c.txs), m))) :
                    m \in often}
        sorted == Sorted(leaks, LAMBDA x, y : x.saves > y.saves)
    IN  SubSeq(sorted, 1, Min({5, Len(sorted)}))

\* One leak for all debits with a flag set; half of late-night spending is
\* taken as avoidable.
FlaggedLeak(kind, S, twelfths) ==
    IF S = {} THEN <<>> ELSE <<LeakOf(kind, kind, 0, twelfths * Amount(S))>>

\* The leaks in the order of detect_leaks.
Leaks(c) ==
    Listed(UnusedLeaks(c)) \o Listed(DuplicateLeaks(c)) \o Listed(PriceLeaks(c))
    \o SmallLeaks(c)
    \o FlaggedLeak("IMPULSE_PURCHASES", Debits(c.impulse), 12)
    \o FlaggedLeak("LATE_NIGHT_SPENDING", Debits(c.night), 6)

LeakAmount(leaks)  == FoldSeq(LAMBDA l, sum : l.amount + sum, 0, leaks)
LeakSavings(leaks) == FoldSeq(LAMBDA l, sum : l.saves + sum, 0, leaks)

\* In hundredths.  The lowest band ends at 0.3 and the next begins at 30.
LeakScore(c, amount) ==
    LET spent == Outgo(c.txs)
        Ratio(percent) == 100 * amount <= percent * spent
    IN  CASE spent = 0 -> 0
          [] spent > 0 /\ Ratio(5) -> (600 * amount) \div spent
          [] spent > 0 /\ ~Ratio(5) /\ Ratio(25) -> 2000 + (20000 * amount) \div spent
          [] OTHER -> Min({4000 + (12000 * amount) \div spent, 10000})

LeakSummary(leaks) ==
    [kind \in {l.kind : l \in ToSet(leaks)} |->
        Len(SelectSeq(leaks, LAMBDA l : l.kind = kind))]

LeakReport(c) ==
    [leaks |-> Leaks(c), savings |-> LeakSavings(Leaks(c)),
     score |-> LeakScore(c, LeakAmount(Leaks(c))), summary |-> LeakSummary(Leaks(c))]
=============================================================================
