-------------------------------- MODULE Client --------------------------------
(***************************************************************************)
(* A screen of one of the two clients at work: its query cache, the calls  *)
(* it has in flight, the backend's table behind them and the user who      *)
(* types and presses.  MobileApp and WebApp say what the screens are; here *)
(* is what they share: how a query is fetched and invalidated, how a       *)
(* mutation is sent, answered and refused (the client library both use),   *)
(* and what the backend does with the requests it accepts.  Requests and   *)
(* answers overtake one another and are lost.                              *)
(***************************************************************************)
EXTENDS ClientUi, SequencesExt

CONSTANTS Opened,         \* the names of the screens that are opened
          MaxQueries,     \* bound on the queries of a screen that are followed
          MaxDrafts,      \* bound on the forms filled
          MaxSent         \* bound on the presses that send something
ASSUME ClientAssumption == MaxQueries \in Nat

Mobile == INSTANCE MobileApp
Web == INSTANCE WebApp

Screens ==
    ({"mobile"} \X (Opened \cap DOMAIN Mobile!Uses))
        \cup ({"web"} \X (Opened \cap DOMAIN Web!Uses))

VARIABLES
    at,       \* <<client, screen>>
    rows,     \* the backend's table behind the screen's main query
    cache,    \* for each hook of the screen, the answer it holds and its fetch
    ui,       \* the screen's own state
    calls,    \* the mutations in flight, in the order they were sent
    drafts,   \* how many forms were filled
    sent,     \* how many presses sent something
    missed    \* hooks whose answer may be older than the backend's table with
              \* nothing in flight that replaces it

clientvars == <<at, rows, cache, ui, calls, drafts, sent, missed>>

OnWeb == at[1] = "web"
Screen == at[2]
AllQueries == [web |-> Web!Queries, mobile |-> Mobile!Queries]
AllMutations == [web |-> Web!Mutations, mobile |-> Mobile!Mutations]
Queries == AllQueries[at[1]]
Mutations == AllMutations[at[1]]
Uses(place) ==
    LET uses == IF place[1] = "web" THEN Web!Uses ELSE Mobile!Uses
    IN  SubSeq(uses[place[2]], 1, Min({MaxQueries, Len(uses[place[2]])}))
Hooks == DOMAIN cache

\* Preferences share their path with the notifications, not their table.
Resource(request) ==
    IF "preferences" \in ToSet(request.path) THEN "preferences" ELSE Head(request.path)
Asks(h) == Queries[h].request
TableOf(hook) == Resource(Asks(hook))
MainHook == Head(Uses(at))
OwnTable(h) == TableOf(h) = TableOf(MainHook)

Known(h) == cache[h].data # <<>>
View ==
    LET any == Uses(at) # <<>>
    IN  [rows |-> IF any /\ Known(MainHook) THEN cache[MainHook].data ELSE NoRows,
         known |-> any /\ Known(MainHook),
         loading |-> any /\ ~Known(MainHook) /\ cache[MainHook].fetch # "idle",
         busy |-> {calls[n].op : n \in {m \in DOMAIN calls : calls[m].observed}},
         some |-> \E h \in Hooks : Known(h),
         fetching |-> \E h \in Hooks : cache[h].fetch # "idle",
         allFailed |-> \A h \in Hooks : cache[h].failed /\ ~Known(h)]
Face == IF OnWeb THEN Web!Face(Screen, ui, View) ELSE Mobile!Face(Screen, ui, View)
Presses == IF OnWeb THEN Web!Presses(Screen, ui, View) ELSE Mobile!Presses(Screen, ui, View)

-----------------------------------------------------------------------------
(* The query cache. *)

\* As Again, with an answer on its way kept.
AgainKeepsAnswer(entry) ==
    IF entry.fetch = "idle" \/ entry.data # <<>>
    THEN [entry EXCEPT !.fetch = "asked"] ELSE entry

\* Drops an answer: what is shown is fetched again.  A fetch under way is
\* started anew, unless it is the first.
Again(entry) ==
    IF entry.fetch = "idle" \/ entry.data # <<>>
    THEN [entry EXCEPT !.fetch = "asked", !.got = <<>>] ELSE entry
Afresh(hooks) == [h \in Hooks |-> IF h \in hooks THEN Again(cache[h]) ELSE cache[h]]
Dropped(drops) == {h \in Hooks : \E d \in drops : IsPrefix(d, Queries[h].key)}

ServeFetch(h) ==
    /\ cache[h].fetch = "asked"
    /\ Accepted(Asks(h))
    /\ Id \in ToSet(Asks(h).path) => Rows(rows, Present) # {}
    /\ cache' = [cache EXCEPT ![h].fetch = "read",
                              ![h].got = IF OwnTable(h) THEN rows ELSE NoRows]
    /\ missed' = missed \ {h}
    /\ UNCHANGED <<at, rows, ui, calls, drafts, sent>>

DeliverFetch(h) ==
    /\ cache[h].fetch = "read"
    /\ cache' = [cache EXCEPT ![h] = [data |-> @.got, failed |-> FALSE,
                                      fetch |-> "idle", got |-> <<>>]]
    /\ UNCHANGED <<at, rows, ui, calls, drafts, sent, missed>>

\* Refused, or lost on the way there or back, retries included.
FailFetch(h) ==
    /\ cache[h].fetch # "idle"
    /\ cache' = [cache EXCEPT ![h].failed = TRUE, ![h].fetch = "idle", ![h].got = <<>>]
    /\ UNCHANGED <<at, rows, ui, calls, drafts, sent, missed>>

-----------------------------------------------------------------------------
(* What the backend does with a request it accepts: the tables it may leave. *)

RequestOf(c) == Carrying(Mutations[c.op].request, c.fields)
Opposite(flag) == IF flag = "plain" THEN "marked" ELSE "plain"
Adding(table) == {[table EXCEPT ![i] = "plain"] : i \in Rows(table, {"absent"})}
Turned(table, i, flag) == {[table EXCEPT ![i] = flag]}
Created(request) == request.verb = "POST" /\ Len(request.path) = 1

AccountEffects(table, c, request) ==
    CASE Last(request.path) = "primary" ->
           {[i \in Item |-> CASE i = c.on -> "marked" [] table[i] = "absent" -> "absent"
                              [] OTHER -> "plain"]}
      [] OTHER -> {table}
GoalEffects(table, c, request) ==
    CASE Last(request.path) = "contribute" -> {table} \cup Turned(table, c.on, "marked")
      [] OTHER -> {table}
SubscriptionEffects(table, c, request) ==
    CASE Last(request.path) \in {"cancel", "pause"} -> Turned(table, c.on, "marked")
      [] Last(request.path) = "resume" -> Turned(table, c.on, "plain")
      [] OTHER -> {table}
TransactionEffects(table, c, request) ==
    IF "isUserConfirmed" \in request.body THEN Turned(table, c.on, "marked") ELSE {table}
NotificationEffects(table, c, request) ==
    CASE Last(request.path) = "read" -> Turned(table, c.on, "marked")
      [] Last(request.path) = "read-all" ->
           {[i \in Item |-> IF table[i] = "plain" THEN "marked" ELSE table[i]]}
      [] OTHER -> {table}
\* Only the switches named in the body change; a switch that was pressed before
\* the preferences were known sends the opposite of its default, whatever that is.
PreferenceEffects(table, c) ==
    IF c.prev = <<>> THEN Turned(table, c.on, "plain") \cup Turned(table, c.on, "marked") ELSE Turned(table, c.on, Opposite(c.prev[c.on]))
WeeklySummaryEffects(table) == Turned(table, Min(Item), "plain")

Effects(table, c) ==
    LET request == RequestOf(c)
        resource == Resource(request)
    IN  IF Uses(at) = <<>> \/ resource # TableOf(MainHook) THEN {table}
        ELSE IF Created(request) THEN Adding(table)
        ELSE IF request.verb = "DELETE" THEN Turned(table, c.on, "absent")
        ELSE CASE resource = "accounts" -> AccountEffects(table, c, request)
               [] resource = "goals" -> GoalEffects(table, c, request)
               [] resource = "subscriptions" -> SubscriptionEffects(table, c, request)
               [] resource = "transactions" -> TransactionEffects(table, c, request)
               [] resource = "notifications" -> NotificationEffects(table, c, request)
               [] resource = "preferences" -> PreferenceEffects(table, c)
               [] resource = "weekly-summary" -> WeeklySummaryEffects(table)
               [] OTHER -> {table}

-----------------------------------------------------------------------------
(* Mutations. *)

\* Sends a call: of the calls of one hook only the last is observed.
Sending(c) ==
    Append([n \in DOMAIN calls |->
               IF calls[n].op = c.op THEN [calls[n] EXCEPT !.observed = FALSE]
               ELSE calls[n]], c)

\* An answer the cache has, with row i changed.
Flipped(answer, i) ==
    IF answer = <<>> THEN answer ELSE [answer EXCEPT ![i] = Opposite(@)]
\* Stops the fetches of the optimistic queries and shows the change.
Guessed(hooks, i) ==
    [h \in Hooks |->
        IF h \notin hooks THEN cache[h]
        ELSE [cache[h] EXCEPT !.fetch = "idle", !.got = <<>>, !.data = Flipped(@, i)]]

Send(p) ==
    LET m == Mutations[p.op]
        hooks == IF m.optimistic THEN Dropped(m.drops) ELSE {}
        before == IF hooks = {} THEN <<>> ELSE cache[MainHook].data
    IN  /\ calls' = Sending([op |-> p.op, on |-> p.on, fields |-> p.fields,
                             draft |-> p.draft, then |-> p.then, prev |-> before,
                             served |-> FALSE, observed |-> TRUE])
        /\ cache' = IF hooks = {} THEN cache ELSE Guessed(hooks, p.on)

ServeCall(n) ==
    /\ ~calls[n].served
    /\ Accepted(RequestOf(calls[n]))
    /\ calls[n].on # 0 => rows[calls[n].on] # "absent"
    /\ \E table \in Effects(rows, calls[n]) : rows' = table
    /\ calls' = [calls EXCEPT ![n].served = TRUE]
    /\ UNCHANGED <<at, cache, ui, drafts, sent, missed>>

\* The success closes the sheet it is about only if that sheet is open.
After(c) ==
    CASE c.then = Leave -> [ui EXCEPT !.sheet = Leave]
      [] c.observed /\ c.then = ui.sheet -> Closed(ui)
      [] OTHER -> ui

AnswerCall(n) ==
    LET hooks == Dropped(Mutations[calls[n].op].drops)
    IN  /\ calls[n].served
        /\ cache' = Afresh(hooks)
        /\ missed' = missed \cup {h \in hooks : ~Known(h) /\ cache[h].fetch = "read"}
        /\ ui' = After(calls[n])
        /\ calls' = RemoveAt(calls, n)
        /\ UNCHANGED <<at, rows, drafts, sent>>

\* Refused, or lost before or after it was served: the client cannot tell.
FailCall(n) ==
    LET m == Mutations[calls[n].op]
        hooks == Dropped(m.drops)
        before == calls[n].prev
    IN  /\ cache' = IF ~m.optimistic THEN cache
                    ELSE [h \in Hooks |->
                             IF h \notin hooks THEN cache[h]
                             ELSE Again(IF before = <<>> THEN cache[h]
                                        ELSE [cache[h] EXCEPT !.data = before])]
        /\ missed' = IF calls[n].served /\ ~m.optimistic THEN missed \cup hooks
                     ELSE missed \cup {h \in hooks : m.optimistic /\ ~Known(h)}
        /\ calls' = RemoveAt(calls, n)
        /\ UNCHANGED <<at, rows, ui, drafts, sent>>

-----------------------------------------------------------------------------
(* The user. *)

Type(form) ==
    /\ form = ui.sheet
    /\ ~Typed(ui, form)
    /\ drafts < MaxDrafts
    /\ drafts' = drafts + 1
    /\ ui' = [ui EXCEPT !.full[form] = drafts + 1]
    /\ UNCHANGED <<at, rows, cache, calls, sent, missed>>

Turns(p) ==
    /\ p.op = None
    /\ ui' = p.ui
    /\ UNCHANGED <<at, rows, cache, calls, drafts, sent, missed>>

\* Another key of the main query has no answer yet.
Looks(p) ==
    /\ p.op \in {"refetch", "requery"}
    /\ sent < MaxSent
    /\ sent' = sent + 1
    /\ cache' = IF p.op = "refetch" THEN Afresh(Hooks)
                ELSE [cache EXCEPT ![MainHook] = [data |-> <<>>, failed |-> FALSE,
                                                  fetch |-> "asked", got |-> <<>>]]
    /\ UNCHANGED <<at, rows, ui, calls, drafts, missed>>

Acts(p) ==
    /\ p.op \notin {None, "refetch", "requery"}
    /\ sent < MaxSent
    /\ sent' = sent + 1
    /\ ui' = p.ui
    /\ Send(p)
    /\ UNCHANGED <<at, rows, drafts, missed>>

-----------------------------------------------------------------------------

Fresh == [data |-> <<>>, failed |-> FALSE, fetch |-> "asked", got |-> <<>>]
\* Plain rows first, then marked ones, then none; a transaction's detail is a
\* table of one row, and every switch of the settings page is there.
FirstTables(place) ==
    {table \in Table :
        /\ \A i, j \in Item : i < j /\ table[j] # "absent" => table[i] \in {"plain", table[j]}
        /\ Rows(table, {"marked"}) # Item
        /\ place[2] = "TransactionDetail" => Cardinality(Rows(table, Present)) = 1
        /\ place = <<"web", "Settings">> => Rows(table, Present) = Item}

ClientInit ==
    /\ at \in Screens
    /\ rows \in FirstTables(at)
    /\ cache = [h \in ToSet(Uses(at)) |-> Fresh]
    /\ ui = IF OnWeb THEN Web!Start(Screen) ELSE Mobile!Start(Screen)
    /\ calls = <<>> /\ drafts = 0 /\ sent = 0 /\ missed = {}

\* A screen that was left is not followed further.
Followed == ui.sheet # Leave
FetchStep == Followed /\ \E h \in Hooks : DeliverFetch(h) \/ FailFetch(h)
CallStep == Followed /\ \E n \in DOMAIN calls : AnswerCall(n) \/ FailCall(n)
BackendStep ==
    /\ Followed
    /\ (\E h \in Hooks : ServeFetch(h)) \/ \E n \in DOMAIN calls : ServeCall(n)
UserStep ==
    /\ Followed
    /\ \/ \E form \in Forms : Type(form)
       \/ \E p \in Presses : Turns(p) \/ Looks(p) \/ Acts(p)
ClientNext == BackendStep \/ FetchStep \/ CallStep \/ UserStep

\* A request ends: with the backend's answer or with an error.
ClientSpec ==
    /\ ClientInit
    /\ [][ClientNext]_clientvars
    /\ WF_clientvars(FetchStep)
    /\ WF_clientvars(CallStep)

-----------------------------------------------------------------------------
(* Properties. *)

\* The state has its type, and an answer on its way is only that of a fetch
\* that was served and neither started anew nor given up.
Answers == Table \cup {<<>>}
ClientTypeOK ==
    /\ at \in Screens
    /\ rows \in Table
    /\ cache \in [Hooks -> [data : Answers, failed : BOOLEAN,
                            fetch : {"idle", "asked", "read"}, got : Answers]]
    /\ \A h \in Hooks : (cache[h].got # <<>>) = (cache[h].fetch = "read")
    /\ ui \in Ui
    /\ \A form \in Forms : ui.full[form] \in 0..drafts
    /\ \A n \in DOMAIN calls : calls[n].op \in DOMAIN Mutations
    /\ missed \subseteq Hooks

\* What was typed in a form once is never in two calls at once, whatever the
\* order of presses and answers: a second press, a sheet closed and opened
\* again or an answer that comes late does not send it again.
OneCallPerDraft ==
    \A m, n \in DOMAIN calls : calls[m].draft # 0 /\ calls[m].draft = calls[n].draft => m = n

\* A screen comes to show what its user has done: once no call is in flight
\* and a query is at rest with an answer, that answer is the backend's table,
\* unless the query failed since or the client could not know of a change.
ShowsOwnWrites ==
    calls = <<>> =>
        \A h \in Hooks \ missed :
            OwnTable(h) /\ Known(h) /\ cache[h].fetch = "idle" /\ ~cache[h].failed
                => cache[h].data = rows

\* The screens that show nothing else when their query has failed.
NoErrorState ==
    {<<"web", "HealthScore">>, <<"web", "TransactionDetail">>,
     <<"mobile", "TransactionDetail">>}
\* Any other screen that shows a spinner stops showing it, answered or not.
WaitingEnds ==
    (at \notin NoErrorState /\ Followed /\ Face = "spinner") ~> (~Followed \/ Face # "spinner")
=============================================================================
