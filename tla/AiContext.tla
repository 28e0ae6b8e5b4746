----------------------------- MODULE AiContext -----------------------------
(***************************************************************************)
(* What the backend tells the AI service about one user: the rows that     *)
(* AiProxyService.buildUserContext reads.  The rows a user may have come   *)
(* from constant catalogues; a context says which of them there are.       *)
(* Amounts are whole rupees and dates are in hours, so that every ratio of *)
(* the code is compared exactly, by cross-multiplication.                  *)
(***************************************************************************)
EXTENDS Integers, FiniteSetsExt, SequencesExt

CONSTANTS
    Entry, EntryOf,     \* transactions, and what each one is
    None,               \* a column the row leaves NULL
    Merchant, Category,
    Sub, SubOf,         \* subscriptions
    Budget, BudgetOf,
    Goal, GoalOf

\* An entry is dated day days and hour hours ago.
EntryRow == [amount : Nat \ {0}, credit : BOOLEAN, day : Nat, hour : 0 .. 23,
             late : BOOLEAN, weekend : BOOLEAN, merchant : Merchant \cup {None},
             category : Category \cup {None}]

\* service is the group of competing services that the name falls in; listed:
\* the shorter list of the card generator knows it too.  usage is usageScore
\* in tenths; was is originalAmount.
SubRow == [amount : Nat \ {0}, frequency : {"DAILY", "WEEKLY", "MONTHLY", "QUARTERLY", "YEARLY"},
           service : {"music", "video", "cloud", "news", "other"}, listed : BOOLEAN,
           usage : (0 .. 10) \cup {None}, low : BOOLEAN, raised : BOOLEAN, was : Nat]

BudgetRow == [category : Category \cup {None}, limit : Nat \ {0}]
GoalRow   == [target : Nat \ {0}, dated : BOOLEAN]

ASSUME AiContextAssumption ==
    /\ IsFiniteSet(Entry) /\ IsFiniteSet(Sub) /\ IsFiniteSet(Budget) /\ IsFiniteSet(Goal)
    /\ None \notin Merchant \cup Category
    /\ EntryOf \in [Entry -> EntryRow]
    /\ SubOf \in [Sub -> SubRow]
    /\ BudgetOf \in [Budget -> BudgetRow]
    /\ GoalOf \in [Goal -> GoalRow]

\* The payload of every call.  impulse and night are the entries whose row
\* has isImpulse and isLateNight set.
Context == [txs : SUBSET Entry, impulse : SUBSET Entry, night : SUBSET Entry,
            subs : SUBSET Sub, active : SUBSET Sub, budgets : SUBSET Budget,
            goals : SUBSET Goal, saved : [Goal -> Nat], done : SUBSET Goal]

Parts == {"transactions", "subscriptions", "budgets", "goals"}

Blank == [txs |-> {}, impulse |-> {}, night |-> {}, subs |-> {}, active |-> {},
          budgets |-> {}, goals |-> {}, saved |-> [g \in Goal |-> 0], done |-> {}]

\* One of the four reads that buildUserContext starts together.
Fetch(part, c, into) ==
    CASE part = "transactions"  -> [into EXCEPT !.txs = c.txs, !.impulse = c.impulse,
                                                !.night = c.night]
      [] part = "subscriptions" -> [into EXCEPT !.subs = c.subs, !.active = c.active]
      [] part = "budgets"       -> [into EXCEPT !.budgets = c.budgets]
      [] part = "goals"         -> [into EXCEPT !.goals = c.goals, !.saved = c.saved,
                                                !.done = c.done]

\* The rows of the last so many days, all that fetchTransactions asks for.
Age(e) == 24 * EntryOf[e].day + EntryOf[e].hour
Recent(S, days) == {e \in S : Age(e) <= 24 * days}
Within(c, days) ==
    LET rows == Recent(c.txs, days)
    IN  [c EXCEPT !.txs = rows, !.impulse = @ \cap rows, !.night = @ \cap rows]

-----------------------------------------------------------------------------
(* What every service computes first from the transactions *)

Amount(S)  == MapThenSumSet(LAMBDA e : EntryOf[e].amount, S)
Credits(S) == {e \in S : EntryOf[e].credit}
Debits(S)  == S \ Credits(S)
Earned(S)  == Amount(Credits(S))
Outgo(S)   == Amount(Debits(S))
Net(S)     == Earned(S) - Outgo(S)

In(S, category) == {e \in S : EntryOf[e].category = category}
At(S, merchant) == {e \in S : EntryOf[e].merchant = merchant}

\* The dictionaries keyed by tx.get("category") and tx.get("merchant"): the
\* keys that some debit has, None among them.
Categories(S) == {EntryOf[e].category : e \in Debits(S)}
Merchants(S)  == {EntryOf[e].merchant : e \in Debits(S)}
SpentIn(S, category) == Outgo(In(S, category))

\* savings_rate >= p percent; without income the rate counts as 0.
RateAtLeast(S, p) ==
    IF Earned(S) = 0 THEN 0 >= p ELSE 100 * Net(S) >= p * Earned(S)

When(condition, S) == IF condition THEN S ELSE {}

\* The score of the best grade that is reached; grades are <<reached, score>>.
Grade(grades) == Max({g[2] : g \in {x \in grades : x[1]}})

\* A set as a sequence, in the order of Before; equals in any order, as the
\* rows come from the database.
Sorted(S, Before(_, _)) ==
    LET Place(x, seq) == Cardinality({i \in DOMAIN seq : ~Before(x, seq[i])})
    IN  FoldSet(LAMBDA x, seq : InsertAt(seq, Place(x, seq) + 1, x), <<>>, S)

Listed(S) == Sorted(S, LAMBDA x, y : FALSE)

Price(S) == MapThenSumSet(LAMBDA s : SubOf[s].amount, S)
Monthly(S) == {s \in S : SubOf[s].frequency = "MONTHLY"}
=============================================================================
