------------------------------- MODULE ClientUi -------------------------------
(***************************************************************************)
(* What the screens of both clients are made of.  A screen reads the       *)
(* answers its queries hold in the cache, keeps a little state of its own  *)
(* (which sheet is open, on which row, which list is shown, what has been  *)
(* typed in its forms) and offers presses.  A press changes that state     *)
(* and may send one call.  The rows a screen lists are those of one table; *)
(* a row is plain or marked, and what the mark means is the table's: the   *)
(* primary account, a completed goal, a subscription that is not active, a *)
(* notification that was read, a transaction that was confirmed.           *)
(***************************************************************************)
EXTENDS ApiRoutes

CONSTANT Item                       \* the rows a table may hold
ASSUME ItemAssumption == Item # {} /\ 0 \notin Item

None == "none"
Flags == {"absent", "plain", "marked"}
Table == [Item -> Flags]
NoRows == [i \in Item |-> "absent"]
Rows(table, flags) == {i \in Item : table[i] \in flags}
Present == {"plain", "marked"}

\* Requests, and what the hooks of a client build from them: a query keeps its
\* answer under a key, a mutation drops every answer under some prefixes.
Get(path) == [verb |-> "GET", path |-> path, body |-> {}]
Post(path) == [verb |-> "POST", path |-> path, body |-> {}]
Put(path) == [verb |-> "PUT", path |-> path, body |-> {}]
Delete(path) == [verb |-> "DELETE", path |-> path, body |-> {}]
Carrying(request, fields) == [request EXCEPT !.body = @ \cup fields]

Query(key, request) == [key |-> key, request |-> request]
Mutation(request, drops) == [request |-> request, drops |-> drops, optimistic |-> FALSE]
\* Shows what was asked for before it is answered.
Optimistic(request, drops) == [Mutation(request, drops) EXCEPT !.optimistic = TRUE]
\* The hooks of all files of a client; no two files have a hook of one name.
Joined(files) ==
    [hook \in UNION {DOMAIN f : f \in files} |->
        (CHOOSE f \in files : hook \in DOMAIN f)[hook]]

\* A category's name sent where its identifier belongs: no row has it.
NamedCategory == "categoryId that names no category"

-----------------------------------------------------------------------------
(* The state of a screen. *)

Forms == {"create", "contribute", "edit", "form"}
Leave == "leave"                      \* the screen was left for another
Sheets == Forms \cup {None, "confirm", "guide", "pick", Leave}
Ui == [sheet : Sheets, on : Item \cup {0}, show : {"all", "plain", "marked"},
       full : [Forms -> Nat]]        \* the number of the draft typed, 0 for none
Shows(show) == [sheet |-> None, on |-> 0, show |-> show,
                full |-> [f \in Forms |-> 0]]
Starts(form) == [Shows("all") EXCEPT !.sheet = form]

Closed(ui) == [ui EXCEPT !.sheet = None, !.on = 0]
Cleared(ui, form) == [ui EXCEPT !.full[form] = 0]

Listed(ui, s) ==
    Rows(s.rows, IF ui.show = "all" THEN Present ELSE {ui.show})
Listing(rows) == IF rows = {} THEN "empty" ELSE "rows"

-----------------------------------------------------------------------------
(* Presses. *)

Press(ui, op, i, fields, draft, then) ==
    [ui |-> ui, op |-> op, on |-> i, fields |-> fields, draft |-> draft, then |-> then]

Becomes(ui) == Press(ui, None, 0, {}, 0, None)
Opens(ui, sheet, i) == Becomes([ui EXCEPT !.sheet = sheet, !.on = i])
Closes(ui) == Becomes(Closed(ui))
Chooses(ui, shows) == {Becomes([ui EXCEPT !.show = f]) : f \in shows}

\* Two calls that no mutation sends: fetch every query of the screen again,
\* and show the main query under another key.
Refetch(ui) == Press(ui, "refetch", 0, {}, 0, None)
Requery(ui) == Press(ui, "requery", 0, {}, 0, None)
Calls(ui, op, i) == Press(ui, op, i, {}, 0, None)
Edits(ui, op, i, fields) == Press(ui, op, i, fields, 0, None)
\* The press that sends what was typed; `then` is the sheet that the success
\* of the call closes, or Leave.
Submits(ui, after, form, op, i, fields, then) ==
    Press(after, op, i, fields, ui.full[form], then)

\* Only while no sheet covers the screen.
Uncovered(ui, presses) == IF ui.sheet = None THEN presses ELSE {}
\* Only in a sheet.
In(ui, sheet, presses) == IF ui.sheet = sheet THEN presses ELSE {}
If(condition, presses) == IF condition THEN presses ELSE {}
Each(rows, Presses(_)) == UNION {Presses(i) : i \in rows}
Typed(ui, form) == ui.full[form] # 0
=============================================================================
