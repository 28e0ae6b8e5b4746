--------------------------- MODULE SpendingRecords ---------------------------
(***************************************************************************)
(* What the backend stores about the transactions of one user besides the *)
(* transactions themselves: Budget.amountSpent, which every read of a      *)
(* budget recomputes and writes back (computeSpentAndSerialize), and the   *)
(* WeeklySummary row of the current week (generateForRange).  Both are     *)
(* computed from one reading of the ledger and written by a later call.    *)
(* A transaction is a debit or a credit of a fixed amount in a category;   *)
(* all of them fall into the period of every budget and of the week.       *)
(***************************************************************************)
EXTENDS Integers, FiniteSetsExt

CONSTANTS
    Tx, Cost,        \* transactions and what each one amounts to
    Credit,          \* those of type CREDIT; the others are debits
    Category,
    AnyCategory,     \* a budget without categoryId
    Budget,
    Week,            \* the key of the summary row
    SpendHandler,    \* requests that may be in progress at once
    MaxSpendCalls    \* bound: requests in a behaviour

ASSUME SpendAssumption ==
    /\ Cost \in [Tx -> Nat]
    /\ Credit \subseteq Tx
    /\ AnyCategory \notin Category
    /\ Week \notin Budget
    /\ Category # {}
    /\ MaxSpendCalls \in Nat

VARIABLES
    tx,       \* Transaction rows
    cat,      \* their categories
    budget,   \* Budget rows
    week,     \* the WeeklySummary row of the current week
    scall,    \* the request each handler serves
    scalls,   \* requests so far
    fresh     \* stored totals that were computed alone from today's ledger

svars == <<tx, cat, budget, week, scall, scalls, fresh>>

-----------------------------------------------------------------------------
(* Types *)

Scope == Category \cup {AnyCategory}
BudgetRow == [state : {"absent", "live", "deleted"}, scope : Scope, spent : Nat]
NoWeek == [state |-> "absent"]
WeekRow == {NoWeek} \cup
           [state : {"stored"}, spent : Nat, income : Nat, text : {"none", "ai"}]

SpendIdle == [op |-> "idle"]

\* Requests on a budget: "sum" is before the aggregate, "store" after it.
\* alone: no other request on the row and no ledger change since it began.
BudgetCall ==
    [op : {"compute"}, at : {"sum"}, id : Budget, alone : BOOLEAN, row : BudgetRow]
    \cup [op : {"compute"}, at : {"store"}, id : Budget, alone : BOOLEAN,
          row : BudgetRow, sum : Nat]
    \cup [op : {"update"}, at : {"write"}, id : Budget, alone : BOOLEAN, scope : Scope]
    \cup [op : {"delete"}, at : {"write"}, id : Budget, alone : BOOLEAN]

WeekCall ==
    [op : {"generate"}, at : {"read"}, id : {Week}, alone : BOOLEAN]
    \cup [op : {"generate"}, at : {"ai", "upsert"}, id : {Week}, alone : BOOLEAN,
          spent : Nat, income : Nat, text : {"none", "ai"}]

SpendTypeOK ==
    /\ tx \in [Tx -> {"absent", "live", "deleted"}]
    /\ cat \in [Tx -> Category]
    /\ budget \in [Budget -> BudgetRow]
    /\ week \in WeekRow
    /\ scall \in [SpendHandler -> {SpendIdle} \cup BudgetCall \cup WeekCall]
    /\ scalls \in 0 .. MaxSpendCalls
    /\ fresh \in SUBSET (Budget \cup {Week})

SpendInit ==
    /\ tx = [t \in Tx |-> "absent"]
    /\ cat = [t \in Tx |-> CHOOSE c \in Category : TRUE]
    /\ budget = [b \in Budget |-> [state |-> "absent", scope |-> AnyCategory, spent |-> 0]]
    /\ week = NoWeek
    /\ scall = [h \in SpendHandler |-> SpendIdle]
    /\ scalls = 0
    /\ fresh = {}

LiveTx == {t \in Tx : tx[t] = "live"}
Total(S) == MapThenSumSet(LAMBDA t : Cost[t], S)

\* The aggregate of computeSpentAndSerialize.
Spent(scope) ==
    Total({t \in LiveTx \ Credit : scope \in {AnyCategory, cat[t]}})

\* aggregate of the weekly summary.
Income  == Total(LiveTx \cap Credit)
Outflow == Total(LiveTx \ Credit)

\* savingsRate is a Decimal(5, 4): beyond -9.9999 the row cannot be stored.
RateFits(income, spent) == income = 0 \/ spent < 11 * income

-----------------------------------------------------------------------------
(* The ledger: TransactionService.create, update and delete *)

\* Whatever is being computed was read before this change.
LedgerChanged ==
    /\ scall' = [h \in SpendHandler |->
                   IF scall[h] = SpendIdle THEN SpendIdle
                   ELSE [scall[h] EXCEPT !.alone = FALSE]]
    /\ fresh' = {}
    /\ scalls < MaxSpendCalls
    /\ scalls' = scalls + 1
    /\ UNCHANGED <<budget, week>>

PostTx(t) ==
    /\ tx[t] = "absent"
    /\ tx' = [tx EXCEPT ![t] = "live"]
    /\ \E c \in Category : cat' = [cat EXCEPT ![t] = c]
    /\ LedgerChanged

RecategoriseTx(t) ==
    /\ tx[t] = "live"
    /\ \E c \in Category \ {cat[t]} : cat' = [cat EXCEPT ![t] = c]
    /\ LedgerChanged
    /\ UNCHANGED tx

RemoveTx(t) ==
    /\ tx[t] = "live"
    /\ tx' = [tx EXCEPT ![t] = "deleted"]
    /\ LedgerChanged
    /\ UNCHANGED cat

-----------------------------------------------------------------------------
(* Requests *)

Busy(h, k) == scall[h] # SpendIdle /\ scall[h].id = k

SpendBegin(h, c) ==
    /\ scall[h] = SpendIdle
    /\ scalls < MaxSpendCalls
    /\ scall' = [k \in SpendHandler |->
                   IF k = h
                   THEN [c EXCEPT !.alone = \A j \in SpendHandler : ~Busy(j, c.id)]
                   ELSE IF Busy(k, c.id) THEN [scall[k] EXCEPT !.alone = FALSE]
                   ELSE scall[k]]
    /\ scalls' = scalls + 1

\* The end of a computation that wrote its total.
Stored(h) ==
    /\ scall' = [scall EXCEPT ![h] = SpendIdle]
    /\ fresh' = IF scall[h].alone THEN fresh \cup {scall[h].id}
                ELSE fresh \ {scall[h].id}
    /\ UNCHANGED scalls

\* The end of a request that wrote no total.
Dropped(h) ==
    /\ scall' = [scall EXCEPT ![h] = SpendIdle]
    /\ UNCHANGED <<scalls, fresh>>

\* create: the row, with nothing spent, then the computation.
CreateBudget(h) ==
    \E b \in Budget, s \in Scope :
        LET new == [state |-> "live", scope |-> s, spent |-> 0] IN
        /\ budget[b].state = "absent"
        /\ budget' = [budget EXCEPT ![b] = new]
        /\ SpendBegin(h, [op |-> "compute", at |-> "sum", id |-> b, alone |-> TRUE,
                          row |-> new])
        /\ UNCHANGED <<tx, cat, week, fresh>>

\* findOne, and findAll (getSummary too) for each of its rows.
FindBudget(h) ==
    \E b \in Budget :
        /\ budget[b].state = "live"
        /\ SpendBegin(h, [op |-> "compute", at |-> "sum", id |-> b, alone |-> TRUE,
                          row |-> budget[b]])
        /\ UNCHANGED <<tx, cat, budget, week, fresh>>

FindBudgetForUpdate(h) ==
    \E b \in Budget, s \in Scope :
        /\ budget[b].state = "live"
        /\ SpendBegin(h, [op |-> "update", at |-> "write", id |-> b, alone |-> TRUE,
                          scope |-> s])
        /\ UNCHANGED <<tx, cat, budget, week, fresh>>

FindBudgetForDelete(h) ==
    \E b \in Budget :
        /\ budget[b].state = "live"
        /\ SpendBegin(h, [op |-> "delete", at |-> "write", id |-> b, alone |-> TRUE])
        /\ UNCHANGED <<tx, cat, budget, week, fresh>>

\* The updated row comes back with the total it had, and is computed anew.
WriteBudget(h) ==
    LET c   == scall[h]
        new == [budget[c.id] EXCEPT !.scope = c.scope] IN
    /\ c.op = "update"
    /\ IF budget[c.id].state = "live"
       THEN /\ budget' = [budget EXCEPT ![c.id] = new]
            /\ scall' = [scall EXCEPT ![h] =
                 [op |-> "compute", at |-> "sum", id |-> c.id, alone |-> c.alone,
                  row |-> new]]
            /\ fresh' = fresh \ {c.id}
            /\ UNCHANGED scalls
       ELSE Dropped(h) /\ UNCHANGED budget
    /\ UNCHANGED <<tx, cat, week>>

DeleteBudget(h) ==
    /\ scall[h].op = "delete"
    /\ budget' = [budget EXCEPT ![scall[h].id].state = "deleted"]
    /\ Dropped(h)
    /\ UNCHANGED <<tx, cat, week>>

SumBudget(h) ==
    LET c == scall[h] IN
    /\ c.op = "compute"
    /\ c.at = "sum"
    /\ scall' = [scall EXCEPT ![h] =
         [op |-> "compute", at |-> "store", id |-> c.id, alone |-> c.alone,
          row |-> c.row, sum |-> Spent(c.row.scope)]]
    /\ UNCHANGED <<tx, cat, budget, week, scalls, fresh>>

\* Mutant of StoreBudget: the total is kept once it has been computed.
StoreFirstTotal(h) ==
    LET c == scall[h] IN
    /\ c.op = "compute"
    /\ c.at = "store"
    /\ IF c.row.spent = 0 /\ c.sum # 0 /\ budget[c.id].state = "live"
       THEN /\ budget' = [budget EXCEPT ![c.id].spent = c.sum]
            /\ Stored(h)
       ELSE /\ IF c.alone THEN Stored(h) ELSE Dropped(h)
            /\ UNCHANGED budget
    /\ UNCHANGED <<tx, cat, week>>

\* Written only if it differs from the total in the row that was read.
StoreBudget(h) ==
    LET c == scall[h] IN
    /\ c.op = "compute"
    /\ c.at = "store"
    /\ IF c.row.spent # c.sum /\ budget[c.id].state = "live"
       THEN /\ budget' = [budget EXCEPT ![c.id].spent = c.sum]
            /\ Stored(h)
       ELSE /\ IF c.alone THEN Stored(h) ELSE Dropped(h)
            /\ UNCHANGED budget
    /\ UNCHANGED <<tx, cat, week>>

-----------------------------------------------------------------------------
(* WeeklySummaryService *)

\* generate, and getOrGenerateCurrent when no row is stored; when one is, it
\* is returned as it stands.
BeginWeek(h) ==
    /\ SpendBegin(h, [op |-> "generate", at |-> "read", id |-> Week, alone |-> TRUE])
    /\ UNCHANGED <<tx, cat, budget, week, fresh>>

\* Mutant of ReadWeek: what came in is taken off what went out.
ReadWeekNet(h) ==
    LET c == scall[h] IN
    /\ c.op = "generate"
    /\ c.at = "read"
    /\ scall' = [scall EXCEPT ![h] =
         [op |-> "generate", at |-> "ai", id |-> Week, alone |-> c.alone,
          spent |-> Outflow - Income, income |-> Income, text |-> "none"]]
    /\ UNCHANGED <<tx, cat, budget, week, scalls, fresh>>

\* The two readings of the ledger; only the first is stored.
ReadWeek(h) ==
    LET c == scall[h] IN
    /\ c.op = "generate"
    /\ c.at = "read"
    /\ scall' = [scall EXCEPT ![h] =
         [op |-> "generate", at |-> "ai", id |-> Week, alone |-> c.alone,
          spent |-> Outflow, income |-> Income, text |-> "none"]]
    /\ UNCHANGED <<tx, cat, budget, week, scalls, fresh>>

\* The AI service is asked for its words; without it there are none.
AskAi(h) ==
    /\ scall[h].op = "generate"
    /\ scall[h].at = "ai"
    /\ \E text \in {"none", "ai"} :
          scall' = [scall EXCEPT ![h].at = "upsert", ![h].text = text]
    /\ UNCHANGED <<tx, cat, budget, week, scalls, fresh>>

\* The upsert replaces every column, and fails if the rate does not fit.
UpsertWeek(h) ==
    LET c == scall[h] IN
    /\ c.op = "generate"
    /\ c.at = "upsert"
    /\ IF RateFits(c.income, c.spent)
       THEN /\ week' = [state |-> "stored", spent |-> c.spent, income |-> c.income,
                        text |-> c.text]
            /\ Stored(h)
       ELSE Dropped(h) /\ UNCHANGED week
    /\ UNCHANGED <<tx, cat, budget>>

SpendNext ==
    \/ \E t \in Tx : PostTx(t) \/ RecategoriseTx(t) \/ RemoveTx(t)
    \/ \E h \in SpendHandler :
          \/ CreateBudget(h) \/ FindBudget(h)
          \/ FindBudgetForUpdate(h) \/ WriteBudget(h)
          \/ FindBudgetForDelete(h) \/ DeleteBudget(h)
          \/ SumBudget(h) \/ StoreBudget(h)
          \/ BeginWeek(h) \/ ReadWeek(h) \/ AskAi(h) \/ UpsertWeek(h)

SpendSpec == SpendInit /\ [][SpendNext]_svars

-----------------------------------------------------------------------------
(* Properties *)

\* A total that was computed while no other request worked on its row and
\* the ledger stood still is the ledger's total, and stays so until the
\* ledger or the budget changes or an overlapping computation writes
\* (computeSpentAndSerialize, generateForRange).
StoredTotalsFresh ==
    /\ \A b \in fresh \cap Budget :
          budget[b].state = "live" => budget[b].spent = Spent(budget[b].scope)
    /\ Week \in fresh =>
          week.state = "stored" /\ week.spent = Outflow /\ week.income = Income
=============================================================================
