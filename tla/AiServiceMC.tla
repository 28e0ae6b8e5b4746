---------------------------- MODULE AiServiceMC ----------------------------
(* An instance of AiService for TLC; amounts are in hundreds of rupees.     *)
EXTENDS AiService

MCEntryOf ==
    [e1 |-> [amount |-> 30, credit |-> TRUE, day |-> 6, hour |-> 0, late |-> FALSE,
             weekend |-> FALSE, merchant |-> "zomato", category |-> None],
     e2 |-> [amount |-> 8, credit |-> FALSE, day |-> 2, hour |-> 0, late |-> TRUE,
             weekend |-> TRUE, merchant |-> "zomato", category |-> "food"],
     e3 |-> [amount |-> 2, credit |-> FALSE, day |-> 3, hour |-> 12, late |-> TRUE,
             weekend |-> FALSE, merchant |-> "shop", category |-> None],
     e4 |-> [amount |-> 20, credit |-> FALSE, day |-> 11, hour |-> 0, late |-> FALSE,
             weekend |-> FALSE, merchant |-> "shop", category |-> None],
     e5 |-> [amount |-> 1, credit |-> FALSE, day |-> 42, hour |-> 10, late |-> FALSE,
             weekend |-> TRUE, merchant |-> "zomato", category |-> "food"],
     e6 |-> [amount |-> 2, credit |-> FALSE, day |-> 90, hour |-> 3, late |-> FALSE,
             weekend |-> FALSE, merchant |-> "shop", category |-> None]]

MCSubOf ==
    [s1 |-> [amount |-> 3, frequency |-> "MONTHLY", service |-> "video", listed |-> TRUE,
             usage |-> None, low |-> FALSE, raised |-> FALSE, was |-> 0],
     s2 |-> [amount |-> 2, frequency |-> "WEEKLY", service |-> "video", listed |-> TRUE,
             usage |-> 1, low |-> TRUE, raised |-> FALSE, was |-> 0],
     s3 |-> [amount |-> 4, frequency |-> "MONTHLY", service |-> "video", listed |-> FALSE,
             usage |-> 9, low |-> FALSE, raised |-> TRUE, was |-> 3]]

MCBudgetOf == [b1 |-> [category |-> "food", limit |-> 8], b2 |-> [category |-> None, limit |-> 1]]
MCGoalOf   == [g1 |-> [target |-> 2, dated |-> TRUE], g2 |-> [target |-> 3, dated |-> FALSE]]

Rich == [txs |-> {"e1", "e2", "e3", "e5"}, impulse |-> {}, night |-> {"e2"},
         subs |-> {"s2", "s3"}, active |-> {"s2", "s3"}, budgets |-> {"b1", "b2"},
         goals |-> {"g1", "g2"}, saved |-> [g \in Goal |-> 0], done |-> {}]

MCStart == {Blank, Rich}

Q(intents, n) == [matches |-> intents, number |-> n]
MCQueries ==
    {Q({i}, None) : i \in ToSet(Intents)}
    \cup {Q({}, None), Q({"affordability_check"}, 0), Q({"affordability_check"}, 5),
          Q({"affordability_check"}, 25), Q({"waste_analysis", "savings_advice"}, 5)}

MCMessages == {m \in Message : m.balance = m.merchant}
=============================================================================
