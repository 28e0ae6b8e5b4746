----------------------------- MODULE Enrichment -----------------------------
(***************************************************************************)
(* TransactionEnrichmentService.enrich, the other branch of the handler of *)
(* transaction.created: it tags the transaction, and unless a cooldown is  *)
(* on it recomputes the user's health score and regenerates the action     *)
(* cards in parallel, then drops the AI proxy's cached answers.  Clients   *)
(* read the score through the same cache, and users act on their cards.    *)
(*                                                                         *)
(* One user is modelled.  A score is the set of transactions it was        *)
(* computed from; the health-score key stands for the other cached answers *)
(* that invalidateUser drops; a batch of cards is one card.                *)
(***************************************************************************)
EXTENDS Naturals, FiniteSets

CONSTANTS
    Tx,        \* transactions; each one's event is handled once
    Viewer,    \* clients of GET /ai/health-score
    Faults     \* "ai", "database", "cache", "crash"

ASSUME EnrichmentAssumption ==
    /\ Tx \cap Viewer = {}
    /\ Faults \subseteq {"ai", "database", "cache", "crash"}

VARIABLES
    tx,        \* Transaction rows; "deleted" has deletedAt set
    tagged,    \* transactions with their behaviour flags set
    cooldown,  \* whether the cache holds the user's cooldown key
    cache,     \* the cached score: {} or a singleton
    score,     \* User.financialHealthScore
    card,      \* the ActionCard that each run has made
    run,       \* where the handler of each transaction is
    health,    \* its health-score branch
    deck,      \* its action-card branch
    seen       \* the score in the hands of a run or a reader

vars == <<tx, tagged, cooldown, cache, score, card, run, health, deck, seen>>

-----------------------------------------------------------------------------
(* Types *)

Live == {t \in Tx : tx[t] = "live"}

TypeOK ==
    /\ tx \in [Tx -> {"absent", "live", "deleted"}]
    /\ tagged \in SUBSET Tx
    /\ cooldown \in BOOLEAN
    /\ cache \in SUBSET SUBSET Tx
    /\ Cardinality(cache) <= 1
    /\ score \in SUBSET Tx
    /\ card \in [Tx -> {"none", "pending", "acted", "replaced"}]
    /\ run \in [Tx -> {"idle", "tag", "flag", "cooldown", "claim", "heavy", "done"}]
    /\ health \in [Tx \cup Viewer -> {"idle", "get", "context", "fill", "store"}]
    /\ deck \in [Tx -> {"idle", "clear", "create", "failed"}]
    /\ seen \in [Tx \cup Viewer -> SUBSET Tx]

-----------------------------------------------------------------------------
(* tagBehavior *)

\* A transaction is stored and its event taken off the queue.
Create(t) ==
    /\ tx[t] = "absent"
    /\ tx' = [tx EXCEPT ![t] = "live"]
    /\ run' = [run EXCEPT ![t] = "tag"]
    /\ UNCHANGED <<tagged, cooldown, cache, score, card, health, deck, seen>>

\* The row is read and the AI service asked; it may be down.
Tag(t) ==
    /\ run[t] = "tag"
    /\ run' = [run EXCEPT ![t] =
                 IF tx[t] = "live" THEN "flag" ELSE "cooldown"]
    /\ UNCHANGED <<tx, tagged, cooldown, cache, score, card, health, deck, seen>>

\* The flags are written unless the answer has none, the service or the
\* database fails, or the row was deleted meanwhile: the middleware filters
\* updates as well.
Flag(t) ==
    /\ run[t] = "flag"
    /\ \/ tx[t] = "live" /\ tagged' = tagged \cup {t}
       \/ UNCHANGED tagged
    /\ run' = [run EXCEPT ![t] = "cooldown"]
    /\ UNCHANGED <<tx, cooldown, cache, score, card, health, deck, seen>>

-----------------------------------------------------------------------------
(* The cooldown; an error of the cache ends the enrichment *)

Cooldown(t) ==
    /\ run[t] = "cooldown"
    /\ \/ ~cooldown /\ run' = [run EXCEPT ![t] = "claim"]
       \/ (cooldown \/ "cache" \in Faults) /\ run' = [run EXCEPT ![t] = "done"]
    /\ UNCHANGED <<tx, tagged, cooldown, cache, score, card, health, deck, seen>>

Claim(t) ==
    /\ run[t] = "claim"
    /\ \/ /\ cooldown' = TRUE
          /\ run' = [run EXCEPT ![t] = "heavy"]
          /\ health' = [health EXCEPT ![t] = "get"]
          /\ deck' = [deck EXCEPT ![t] = "clear"]
       \/ /\ "cache" \in Faults
          /\ run' = [run EXCEPT ![t] = "done"]
          /\ UNCHANGED <<cooldown, health, deck>>
    /\ UNCHANGED <<tx, tagged, cache, score, card, seen>>

CooldownExpires ==
    /\ cooldown
    /\ cooldown' = FALSE
    /\ UNCHANGED <<tx, tagged, cache, score, card, run, health, deck, seen>>

-----------------------------------------------------------------------------
(* AiProxyService.getHealthScore with its read-through cache, for a client  *)
(* or for recomputeHealthScore, which stores what it gets                   *)

\* A client's answer from the cache changes nothing; a miss starts a fill.
Read(r) ==
    /\ health[r] = "idle"
    /\ cache = {} \/ "cache" \in Faults
    /\ health' = [health EXCEPT ![r] = "context"]
    /\ UNCHANGED <<tx, tagged, cooldown, cache, score, card, run, deck, seen>>

CacheGet(t) ==
    /\ health[t] = "get"
    /\ \/ \E value \in cache :
            /\ health' = [health EXCEPT ![t] = "store"]
            /\ seen' = [seen EXCEPT ![t] = value]
       \/ /\ cache = {} \/ "cache" \in Faults
          /\ health' = [health EXCEPT ![t] = "context"]
          /\ UNCHANGED seen
    /\ UNCHANGED <<tx, tagged, cooldown, cache, score, card, run, deck>>

\* buildUserContext reads the transactions, then the AI service is asked.
Context(p) ==
    /\ health[p] = "context"
    /\ health' = [health EXCEPT ![p] = "fill"]
    /\ seen' = [seen EXCEPT ![p] = Live]
    /\ UNCHANGED <<tx, tagged, cooldown, cache, score, card, run, deck>>

\* A viewer returns the value, a run goes on to store it.
Got(p) == IF p \in Viewer THEN "idle" ELSE "store"

\* Mutant of CacheSet: entries are added to those that are there.
CacheSetAppends(p) ==
    /\ health[p] = "fill"
    /\ cache' = cache \cup {seen[p]}
    /\ health' = [health EXCEPT ![p] = Got(p)]
    /\ seen' = [seen EXCEPT ![p] = IF p \in Viewer THEN {} ELSE @]
    /\ UNCHANGED <<tx, tagged, cooldown, score, card, run, deck>>

CacheSet(p) ==
    /\ health[p] = "fill"
    /\ \/ /\ cache' = {seen[p]}
          /\ health' = [health EXCEPT ![p] = Got(p)]
       \/ /\ "cache" \in Faults
          /\ health' = [health EXCEPT ![p] = Got(p)]
          /\ UNCHANGED cache
       \/ /\ Faults \cap {"ai", "database"} # {}
          /\ health' = [health EXCEPT ![p] = "idle"]
          /\ UNCHANGED cache
    /\ seen' = [seen EXCEPT ![p] = IF p \in Viewer THEN {} ELSE @]
    /\ UNCHANGED <<tx, tagged, cooldown, score, card, run, deck>>

\* An answer without a numeric score is not stored.
Store(t) ==
    /\ health[t] = "store"
    /\ \/ score' = seen[t]
       \/ Faults \cap {"ai", "database"} # {} /\ UNCHANGED score
    /\ health' = [health EXCEPT ![t] = "idle"]
    /\ UNCHANGED <<tx, tagged, cooldown, cache, card, run, deck, seen>>

CacheExpires ==
    /\ cache # {}
    /\ cache' = {}
    /\ UNCHANGED <<tx, tagged, cooldown, score, card, run, health, deck, seen>>

-----------------------------------------------------------------------------
(* regenerateActionCards and ActionCardService.bulkSync *)

\* Mutant of ClearDeck: the status is left out of the deletion's filter.
ClearDeckAll(t) ==
    /\ deck[t] = "clear"
    /\ card' = [c \in Tx |-> IF card[c] \in {"pending", "acted"} THEN "replaced"
                                                                ELSE card[c]]
    /\ deck' = [deck EXCEPT ![t] = "create"]
    /\ UNCHANGED <<tx, tagged, cooldown, cache, score, run, health, seen>>

\* The AI service may be down, or have no cards; then nothing is deleted.
ClearDeck(t) ==
    /\ deck[t] = "clear"
    /\ \/ /\ card' = [c \in Tx |-> IF card[c] = "pending" THEN "replaced"
                                                         ELSE card[c]]
          /\ deck' = [deck EXCEPT ![t] = "create"]
       \/ deck' = [deck EXCEPT ![t] = "idle"] /\ UNCHANGED card
    /\ UNCHANGED <<tx, tagged, cooldown, cache, score, run, health, seen>>

\* Mutant of CreateCard: the pending cards are deleted once more, afterwards.
CreateCardThenClear(t) ==
    /\ deck[t] = "create"
    /\ card' = [c \in Tx |-> IF c = t \/ card[c] = "pending" THEN "replaced"
                                                            ELSE card[c]]
    /\ deck' = [deck EXCEPT ![t] = "idle"]
    /\ UNCHANGED <<tx, tagged, cooldown, cache, score, run, health, seen>>

CreateCard(t) ==
    /\ deck[t] = "create"
    /\ \/ /\ card' = [card EXCEPT ![t] = "pending"]
          /\ deck' = [deck EXCEPT ![t] = "idle"]
       \/ /\ "database" \in Faults
          /\ deck' = [deck EXCEPT ![t] = "failed"]
          /\ UNCHANGED card
    /\ UNCHANGED <<tx, tagged, cooldown, cache, score, run, health, seen>>

\* The user completes, dismisses or deletes a card; what becomes of it
\* afterwards is the user's business.
ActOnCard(c) ==
    /\ card[c] = "pending"
    /\ card' = [card EXCEPT ![c] = "acted"]
    /\ UNCHANGED <<tx, tagged, cooldown, cache, score, run, health, deck, seen>>

-----------------------------------------------------------------------------

\* Mutant of Settled: a branch that has failed is waited for.
SettledOnlyIfDone(t) == health[t] = "idle" /\ deck[t] = "idle"

Settled(t) == health[t] = "idle" /\ deck[t] \in {"idle", "failed"}

\* Both branches are over: the cached answers are dropped.
InvalidateUser(t) ==
    /\ run[t] = "heavy"
    /\ Settled(t)
    /\ cache' = {} \/ ("cache" \in Faults /\ UNCHANGED cache)
    /\ run' = [run EXCEPT ![t] = "done"]
    /\ seen' = [seen EXCEPT ![t] = {}]
    /\ UNCHANGED <<tx, tagged, cooldown, score, card, health, deck>>

DeleteTx(t) ==
    /\ tx[t] = "live"
    /\ tx' = [tx EXCEPT ![t] = "deleted"]
    /\ UNCHANGED <<tagged, cooldown, cache, score, card, run, health, deck, seen>>

\* The process dies; a card branch that has deleted stays without its card.
Crash(t) ==
    /\ "crash" \in Faults
    /\ run[t] \notin {"idle", "done"}
    /\ run' = [run EXCEPT ![t] = "done"]
    /\ health' = [health EXCEPT ![t] = "idle"]
    /\ deck' = [deck EXCEPT ![t] =
                   IF @ \in {"create", "failed"} THEN "failed" ELSE "idle"]
    /\ seen' = [seen EXCEPT ![t] = {}]
    /\ UNCHANGED <<tx, tagged, cooldown, cache, score, card>>

Init ==
    /\ tx = [t \in Tx |-> "absent"]
    /\ tagged = {}
    /\ cooldown = FALSE
    /\ cache = {}
    /\ score = {}
    /\ card = [t \in Tx |-> "none"]
    /\ run = [t \in Tx |-> "idle"]
    /\ health = [p \in Tx \cup Viewer |-> "idle"]
    /\ deck = [t \in Tx |-> "idle"]
    /\ seen = [p \in Tx \cup Viewer |-> {}]

Main(t)  == Tag(t) \/ Flag(t) \/ Cooldown(t) \/ Claim(t) \/ InvalidateUser(t)
Score(t) == CacheGet(t) \/ Context(t) \/ CacheSet(t) \/ Store(t)
Cards(t) == ClearDeck(t) \/ CreateCard(t)

Next ==
    \/ \E t \in Tx : \/ Create(t) \/ DeleteTx(t) \/ Crash(t)
                     \/ Main(t) \/ Score(t) \/ Cards(t) \/ ActOnCard(t)
    \/ \E r \in Viewer : Read(r) \/ Context(r) \/ CacheSet(r)
    \/ CooldownExpires
    \/ CacheExpires

Spec == Init /\ [][Next]_vars

\* Node goes on with each of a handler's concurrent branches once its await
\* settles; calls to the AI service settle within AI_TIMEOUT_MS.
FairSpec ==
    /\ Spec
    /\ \A t \in Tx : WF_vars(Main(t)) /\ WF_vars(Score(t)) /\ WF_vars(Cards(t))

-----------------------------------------------------------------------------
(* Properties *)

\* Pending cards go only when a fresh batch comes: a user whose cards were
\* replaced has a batch, has dealt with one, or has a run that is about to
\* create one or failed to.
DeckExplained ==
    (\E c \in Tx : card[c] = "replaced") =>
        \E c \in Tx : \/ card[c] \in {"pending", "acted"}
                      \/ deck[c] \in {"create", "failed"}

\* "Keeps any user-acted cards": no regeneration replaces a card that the
\* user has completed or dismissed, whenever that happened.
ActedCardsKept ==
    [][\A c \in Tx : card[c] = "acted" => card'[c] # "replaced"]_vars

\* "All three steps are independent and best-effort": whatever fails, and
\* whatever other runs and viewers do, an enrichment comes to an end.
EnrichmentEnds ==
    \A t \in Tx : run[t] = "tag" ~> run[t] = "done"

=============================================================================
