----------------------------- MODULE GoalRecords -----------------------------
(***************************************************************************)
(* GoalService: the Goal rows of one user.  update, delete and contribute  *)
(* read the row in one call of the database and write it in another, so    *)
(* two requests may compute from the same reading.  Amounts are small      *)
(* naturals (the DTOs ask for amounts >= 0, for a contribution > 0);       *)
(* names, dates and the other columns a goal only carries are left out.    *)
(***************************************************************************)
EXTENDS Naturals

CONSTANTS
    Goal,
    Amount,          \* amounts that targets, openings and contributions take
    Keep,            \* a field that the update's dto leaves out
    GoalHandler,     \* requests that may be in progress at once
    MaxGoalCalls     \* bound: requests in a behaviour

ASSUME GoalAssumption ==
    /\ Amount \subseteq Nat
    /\ Keep \notin Nat
    /\ MaxGoalCalls \in Nat

VARIABLES
    goal,        \* Goal rows
    gcall,       \* the request each handler serves
    gcalls,      \* requests so far
    overlapped,  \* goals that two requests have changed at the same time
    due          \* what each goal would hold had its requests run one by one

gvars == <<goal, gcall, gcalls, overlapped, due>>

-----------------------------------------------------------------------------
(* Types *)

Absent == [state |-> "absent", target |-> 0, current |-> 0, done |-> FALSE]
GoalRow == [state : {"absent", "live", "deleted"}, target : Nat, current : Nat,
            done : BOOLEAN]

GoalIdle == [op |-> "idle"]
GoalCall == {GoalIdle}
    \cup [op : {"update"}, id : Goal, target : Amount \cup {Keep},
          current : Amount \cup {Keep}]
    \cup [op : {"delete"}, id : Goal]
    \cup [op : {"contribute"}, id : Goal, amount : Amount, seen : GoalRow]

GoalTypeOK ==
    /\ goal \in [Goal -> GoalRow]
    /\ gcall \in [GoalHandler -> GoalCall]
    /\ gcalls \in 0 .. MaxGoalCalls
    /\ overlapped \in SUBSET Goal
    /\ due \in [Goal -> Nat]

GoalInit ==
    /\ goal = [g \in Goal |-> Absent]
    /\ gcall = [h \in GoalHandler |-> GoalIdle]
    /\ gcalls = 0
    /\ overlapped = {}
    /\ due = [g \in Goal |-> 0]

Least(m, n) == IF m <= n THEN m ELSE n
On(h, g) == gcall[h] # GoalIdle /\ gcall[h].id = g

-----------------------------------------------------------------------------
(* The start of a request: findFirst, and the refusals that change nothing *)

GoalBegin(h, c) ==
    /\ gcall[h] = GoalIdle
    /\ gcalls < MaxGoalCalls
    /\ gcall' = [gcall EXCEPT ![h] = c]
    /\ gcalls' = gcalls + 1
    /\ overlapped' = overlapped \cup
         {g \in {c.id} : \E k \in GoalHandler : On(k, g)}

GoalFinish(h) ==
    /\ gcall' = [gcall EXCEPT ![h] = GoalIdle]
    /\ UNCHANGED <<gcalls, overlapped>>

\* create is one call; isCompleted starts false whatever the amounts are.
CreateGoal(h) ==
    \E g \in Goal, t, c \in Amount :
        /\ gcall[h] = GoalIdle
        /\ gcalls < MaxGoalCalls
        /\ goal[g].state = "absent"
        /\ goal' = [goal EXCEPT ![g] =
                      [state |-> "live", target |-> t, current |-> c, done |-> FALSE]]
        /\ due' = [due EXCEPT ![g] = c]
        /\ gcalls' = gcalls + 1
        /\ UNCHANGED <<gcall, overlapped>>

FindForUpdate(h) ==
    \E g \in Goal, t, c \in Amount \cup {Keep} :
        /\ goal[g].state = "live"
        /\ GoalBegin(h, [op |-> "update", id |-> g, target |-> t, current |-> c])
        /\ UNCHANGED <<goal, due>>

FindForDelete(h) ==
    \E g \in Goal :
        /\ goal[g].state = "live"
        /\ GoalBegin(h, [op |-> "delete", id |-> g])
        /\ UNCHANGED <<goal, due>>

\* A completed goal takes no contribution (400).
FindForContribute(h) ==
    \E g \in Goal, m \in Amount \ {0} :
        /\ goal[g].state = "live"
        /\ ~goal[g].done
        /\ GoalBegin(h, [op |-> "contribute", id |-> g, amount |-> m, seen |-> goal[g]])
        /\ UNCHANGED <<goal, due>>

-----------------------------------------------------------------------------
(* The write; a row deleted meanwhile is not found and the request fails *)

\* The fields that the dto names; isCompleted is not recomputed.
WriteUpdate(h) ==
    LET c == gcall[h] IN
    /\ c.op = "update"
    /\ IF goal[c.id].state = "live"
       THEN /\ goal' = [goal EXCEPT
                 ![c.id].target  = IF c.target = Keep THEN @ ELSE c.target,
                 ![c.id].current = IF c.current = Keep THEN @ ELSE c.current]
            /\ due' = [due EXCEPT ![c.id] = IF c.current = Keep THEN @ ELSE c.current]
       ELSE UNCHANGED <<goal, due>>
    /\ GoalFinish(h)

WriteDelete(h) ==
    /\ gcall[h].op = "delete"
    /\ goal' = [goal EXCEPT ![gcall[h].id].state = "deleted"]
    /\ GoalFinish(h)
    /\ UNCHANGED due

\* Mutant of WriteContribute: the sum is not capped at the target.
WriteUncapped(h) ==
    LET c   == gcall[h]
        sum == c.seen.current + c.amount IN
    /\ c.op = "contribute"
    /\ IF goal[c.id].state = "live"
       THEN /\ goal' = [goal EXCEPT ![c.id].current = sum,
                                    ![c.id].done = sum >= c.seen.target]
            /\ due' = [due EXCEPT ![c.id] = Least(@ + c.amount, goal[c.id].target)]
       ELSE UNCHANGED <<goal, due>>
    /\ GoalFinish(h)

\* Computed from the row that was read, not from the row that is written.
WriteContribute(h) ==
    LET c   == gcall[h]
        sum == c.seen.current + c.amount IN
    /\ c.op = "contribute"
    /\ IF goal[c.id].state = "live"
       THEN /\ goal' = [goal EXCEPT ![c.id].current = Least(sum, c.seen.target),
                                    ![c.id].done = sum >= c.seen.target]
            /\ due' = [due EXCEPT ![c.id] = Least(@ + c.amount, goal[c.id].target)]
       ELSE UNCHANGED <<goal, due>>
    /\ GoalFinish(h)

GoalNext ==
    \E h \in GoalHandler :
        \/ CreateGoal(h)
        \/ FindForUpdate(h) \/ FindForDelete(h) \/ FindForContribute(h)
        \/ WriteUpdate(h) \/ WriteDelete(h) \/ WriteContribute(h)

GoalSpec == GoalInit /\ [][GoalNext]_gvars

-----------------------------------------------------------------------------
(* Properties *)

\* A goal that no two requests ever changed at the same time holds what its
\* requests, one after the other, put into it, each contribution cut at the
\* target (GoalService.contribute): nothing is credited twice or lost.
GoalExact == \A g \in Goal \ overlapped : goal[g].current = due[g]
=============================================================================
