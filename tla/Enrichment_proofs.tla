-------------------------- MODULE Enrichment_proofs --------------------------
(***************************************************************************)
(* Theorems about the enrichment of transactions for any number of         *)
(* transactions and viewers.                                               *)
(***************************************************************************)
EXTENDS Enrichment, FiniteSetTheorems, TLAPS

\* The branches of a run start at its claim of the cooldown, and a run starts
\* with its transaction; so no run loses the trace of a batch it has replaced.
BranchesAfterClaim ==
    \A t \in Tx :
        /\ tx[t] = "absent" => run[t] = "idle"
        /\ run[t] \in {"idle", "tag", "flag", "cooldown", "claim"} => deck[t] = "idle"

IInv == TypeOK /\ BranchesAfterClaim /\ DeckExplained

\* The cache holds one score or none.
LEMMA OneScore ==
    /\ Cardinality({}) <= 1
    /\ \A S : Cardinality({S}) <= 1
<1>1. Cardinality({}) = 0
    BY FS_EmptySet, Zenon
<1>2. ASSUME NEW S PROVE Cardinality({S}) <= 1
  <2>1. Cardinality({S}) = 1
    BY FS_Singleton, Zenon
  <2> QED
    BY <2>1
<1>3. Cardinality({}) <= 1
    BY <1>1
<1> QED
    BY <1>2, <1>3, Zenon

\* At the start there are no transactions, no answers and no cards.
LEMMA InitIInv == Init => IInv
<1> SUFFICES ASSUME Init PROVE IInv
    OBVIOUS
<1>1. TypeOK
    BY OneScore DEF Init, TypeOK
<1>2. BranchesAfterClaim /\ DeckExplained
    BY DEF Init, BranchesAfterClaim, DeckExplained
<1> QED
    BY <1>1, <1>2 DEF IInv


\* Every step keeps the types.
LEMMA TypeStep ==
    ASSUME TypeOK, [Next]_vars
    PROVE  TypeOK'
<1> USE EnrichmentAssumption, OneScore DEF TypeOK, Live
<1>1. ASSUME NEW t \in Tx, Create(t) PROVE TypeOK'
    BY <1>1 DEF Create
<1>2. ASSUME NEW t \in Tx, DeleteTx(t) PROVE TypeOK'
    BY <1>2 DEF DeleteTx
<1>3. ASSUME NEW t \in Tx, Crash(t) PROVE TypeOK'
    BY <1>3 DEF Crash
<1>4. ASSUME NEW t \in Tx, Tag(t) PROVE TypeOK'
    BY <1>4 DEF Tag
<1>5. ASSUME NEW t \in Tx, Flag(t) PROVE TypeOK'
    BY <1>5 DEF Flag
<1>6. ASSUME NEW t \in Tx, Cooldown(t) PROVE TypeOK'
    BY <1>6 DEF Cooldown
<1>7. ASSUME NEW t \in Tx, Claim(t) PROVE TypeOK'
  <2>1. cooldown' \in BOOLEAN
    BY <1>7 DEF Claim
  <2>2. run' \in [Tx -> {"idle", "tag", "flag", "cooldown", "claim", "heavy", "done"}]
    BY <1>7 DEF Claim
  <2>3. /\ health' \in [Tx \cup Viewer -> {"idle", "get", "context", "fill", "store"}]
        /\ deck' \in [Tx -> {"idle", "clear", "create", "failed"}]
    BY <1>7 DEF Claim
  <2> QED
    BY <1>7, <2>1, <2>2, <2>3 DEF Claim
<1>8. ASSUME NEW t \in Tx, InvalidateUser(t) PROVE TypeOK'
    BY <1>8 DEF InvalidateUser
<1>9. ASSUME NEW t \in Tx, CacheGet(t) PROVE TypeOK'
    BY <1>9 DEF CacheGet
<1>10. ASSUME NEW t \in Tx, Store(t) PROVE TypeOK'
    BY <1>10 DEF Store
<1>11. ASSUME NEW t \in Tx, ClearDeck(t) PROVE TypeOK'
    BY <1>11 DEF ClearDeck
<1>12. ASSUME NEW t \in Tx, CreateCard(t) PROVE TypeOK'
    BY <1>12 DEF CreateCard
<1>13. ASSUME NEW t \in Tx, ActOnCard(t) PROVE TypeOK'
    BY <1>13 DEF ActOnCard
<1>14. ASSUME NEW r \in Viewer, Read(r) PROVE TypeOK'
    BY <1>14 DEF Read
<1>15. ASSUME NEW p \in Tx \cup Viewer, Context(p) PROVE TypeOK'
    BY <1>15 DEF Context
<1>16. ASSUME NEW p \in Tx \cup Viewer, CacheSet(p) PROVE TypeOK'
  <2>1. cache' = {seen[p]} \/ cache' = cache
    BY <1>16 DEF CacheSet
  <2>2. cache' \in SUBSET SUBSET Tx
    BY <2>1
  <2>3. Cardinality(cache') <= 1
    <3>1. CASE cache' = {seen[p]}
      <4>1. Cardinality({seen[p]}) <= 1
        BY OneScore
      <4> QED
        BY <3>1, <4>1
    <3> QED
      BY <2>1, <3>1
  <2>4. health' \in [Tx \cup Viewer -> {"idle", "get", "context", "fill", "store"}]
    BY <1>16 DEF CacheSet, Got
  <2>5. seen' \in [Tx \cup Viewer -> SUBSET Tx]
    BY <1>16 DEF CacheSet
  <2> QED
    BY <1>16, <2>2, <2>3, <2>4, <2>5 DEF CacheSet
<1>17. CASE CooldownExpires
    BY <1>17 DEF CooldownExpires
<1>18. CASE CacheExpires
    BY <1>18 DEF CacheExpires
<1>19. CASE UNCHANGED vars
    BY <1>19 DEF vars
<1> QED
    BY <1>1, <1>2, <1>3, <1>4, <1>5, <1>6, <1>7, <1>8, <1>9, <1>10, <1>11,
       <1>12, <1>13, <1>14, <1>15, <1>16, <1>17, <1>18, <1>19 DEF Next, Main,
       Score, Cards

\* Claim is the one step that starts branches.
LEMMA BranchesStep ==
    ASSUME TypeOK, BranchesAfterClaim, [Next]_vars
    PROVE  BranchesAfterClaim'
<1> USE EnrichmentAssumption DEF TypeOK, BranchesAfterClaim
<1>1. ASSUME NEW t \in Tx, Create(t) PROVE BranchesAfterClaim'
    BY <1>1 DEF Create
<1>2. ASSUME NEW t \in Tx, DeleteTx(t) PROVE BranchesAfterClaim'
    BY <1>2 DEF DeleteTx
<1>3. ASSUME NEW t \in Tx, Crash(t) PROVE BranchesAfterClaim'
    BY <1>3 DEF Crash
<1>4. ASSUME NEW t \in Tx, Tag(t) PROVE BranchesAfterClaim'
    BY <1>4 DEF Tag
<1>5. ASSUME NEW t \in Tx, Flag(t) PROVE BranchesAfterClaim'
    BY <1>5 DEF Flag
<1>6. ASSUME NEW t \in Tx, Cooldown(t) PROVE BranchesAfterClaim'
    BY <1>6 DEF Cooldown
<1>7. ASSUME NEW t \in Tx, Claim(t) PROVE BranchesAfterClaim'
    BY <1>7 DEF Claim
<1>8. ASSUME NEW t \in Tx, InvalidateUser(t) PROVE BranchesAfterClaim'
    BY <1>8 DEF InvalidateUser
<1>9. ASSUME NEW t \in Tx, CacheGet(t) PROVE BranchesAfterClaim'
    BY <1>9 DEF CacheGet
<1>10. ASSUME NEW t \in Tx, Store(t) PROVE BranchesAfterClaim'
    BY <1>10 DEF Store
<1>11. ASSUME NEW t \in Tx, ClearDeck(t) PROVE BranchesAfterClaim'
    BY <1>11 DEF ClearDeck
<1>12. ASSUME NEW t \in Tx, CreateCard(t) PROVE BranchesAfterClaim'
    BY <1>12 DEF CreateCard
<1>13. ASSUME NEW t \in Tx, ActOnCard(t) PROVE BranchesAfterClaim'
    BY <1>13 DEF ActOnCard
<1>14. ASSUME NEW r \in Viewer, Read(r) PROVE BranchesAfterClaim'
    BY <1>14 DEF Read
<1>15. ASSUME NEW p \in Tx \cup Viewer, Context(p) PROVE BranchesAfterClaim'
    BY <1>15 DEF Context
<1>16. ASSUME NEW p \in Tx \cup Viewer, CacheSet(p) PROVE BranchesAfterClaim'
    BY <1>16 DEF CacheSet, Got
<1>17. CASE CooldownExpires
    BY <1>17 DEF CooldownExpires
<1>18. CASE CacheExpires
    BY <1>18 DEF CacheExpires
<1>19. CASE UNCHANGED vars
    BY <1>19 DEF vars
<1> QED
    BY <1>1, <1>2, <1>3, <1>4, <1>5, <1>6, <1>7, <1>8, <1>9, <1>10, <1>11,
       <1>12, <1>13, <1>14, <1>15, <1>16, <1>17, <1>18, <1>19 DEF Next, Main,
       Score, Cards

\* Pending cards are replaced in the step that announces a fresh batch.
LEMMA DeckStep ==
    ASSUME TypeOK, BranchesAfterClaim, DeckExplained, [Next]_vars
    PROVE  DeckExplained'
<1> USE EnrichmentAssumption DEF TypeOK, BranchesAfterClaim, DeckExplained
<1>1. ASSUME NEW t \in Tx, Create(t) PROVE DeckExplained'
    BY <1>1 DEF Create
<1>2. ASSUME NEW t \in Tx, DeleteTx(t) PROVE DeckExplained'
    BY <1>2 DEF DeleteTx
<1>3. ASSUME NEW t \in Tx, Crash(t) PROVE DeckExplained'
    BY <1>3 DEF Crash
<1>4. ASSUME NEW t \in Tx, Tag(t) PROVE DeckExplained'
    BY <1>4 DEF Tag
<1>5. ASSUME NEW t \in Tx, Flag(t) PROVE DeckExplained'
    BY <1>5 DEF Flag
<1>6. ASSUME NEW t \in Tx, Cooldown(t) PROVE DeckExplained'
    BY <1>6 DEF Cooldown
<1>7. ASSUME NEW t \in Tx, Claim(t) PROVE DeckExplained'
    BY <1>7 DEF Claim
<1>8. ASSUME NEW t \in Tx, InvalidateUser(t) PROVE DeckExplained'
    BY <1>8 DEF InvalidateUser
<1>9. ASSUME NEW t \in Tx, CacheGet(t) PROVE DeckExplained'
    BY <1>9 DEF CacheGet
<1>10. ASSUME NEW t \in Tx, Store(t) PROVE DeckExplained'
    BY <1>10 DEF Store
<1>11. ASSUME NEW t \in Tx, ClearDeck(t) PROVE DeckExplained'
    BY <1>11 DEF ClearDeck
<1>12. ASSUME NEW t \in Tx, CreateCard(t) PROVE DeckExplained'
    BY <1>12 DEF CreateCard
<1>13. ASSUME NEW t \in Tx, ActOnCard(t) PROVE DeckExplained'
    BY <1>13 DEF ActOnCard
<1>14. ASSUME NEW r \in Viewer, Read(r) PROVE DeckExplained'
    BY <1>14 DEF Read
<1>15. ASSUME NEW p \in Tx \cup Viewer, Context(p) PROVE DeckExplained'
    BY <1>15 DEF Context
<1>16. ASSUME NEW p \in Tx \cup Viewer, CacheSet(p) PROVE DeckExplained'
    BY <1>16 DEF CacheSet, Got
<1>17. CASE CooldownExpires
    BY <1>17 DEF CooldownExpires
<1>18. CASE CacheExpires
    BY <1>18 DEF CacheExpires
<1>19. CASE UNCHANGED vars
    BY <1>19 DEF vars
<1> QED
    BY <1>1, <1>2, <1>3, <1>4, <1>5, <1>6, <1>7, <1>8, <1>9, <1>10, <1>11,
       <1>12, <1>13, <1>14, <1>15, <1>16, <1>17, <1>18, <1>19 DEF Next, Main,
       Score, Cards

\* The inductive invariant holds in every reachable state.
THEOREM Invariance == Spec => []IInv
<1>1. IInv /\ [Next]_vars => IInv'
    BY TypeStep, BranchesStep, DeckStep DEF IInv
<1> QED
    BY InitIInv, <1>1, PTL DEF Spec

\* Rows, keys, runs and what they hold stay in their types, and at most one
\* score is cached.
THEOREM TypeCorrect == Spec => []TypeOK
<1>1. IInv => TypeOK
    BY DEF IInv
<1> QED
    BY <1>1, Invariance, PTL

\* However many runs overlap and wherever they are cut, cards are replaced only
\* for a batch that is there, was dealt with, is about to be created or could
\* not be (regenerateActionCards, ActionCardService.bulkSync).
THEOREM CardsExplained == Spec => []DeckExplained
<1>1. IInv => DeckExplained
    BY DEF IInv
<1> QED
    BY <1>1, Invariance, PTL

\* No step replaces a card that the user has acted on.
LEMMA ActedStep ==
    ASSUME TypeOK, [Next]_vars, NEW c \in Tx, card[c] = "acted"
    PROVE  card'[c] # "replaced"
<1> USE DEF TypeOK
<1>1. ASSUME NEW t \in Tx, ClearDeck(t) PROVE card'[c] # "replaced"
    BY <1>1 DEF ClearDeck
<1>2. ASSUME NEW t \in Tx, CreateCard(t) PROVE card'[c] # "replaced"
    BY <1>2 DEF CreateCard
<1>3. ASSUME NEW t \in Tx, ActOnCard(t) PROVE card'[c] # "replaced"
    BY <1>3 DEF ActOnCard
<1>4. CASE UNCHANGED card
    BY <1>4
<1> QED
    BY <1>1, <1>2, <1>3, <1>4
    DEF Next, Main, Score, Cards, vars, Create, DeleteTx, Crash, Tag, Flag, Cooldown,
        Claim, InvalidateUser, CacheGet, Context, CacheSet, Store, Read,
        CooldownExpires, CacheExpires

\* A card that the user has completed or dismissed survives every regeneration
\* (bulkSync).
THEOREM ActedCardsStay == Spec => ActedCardsKept
<1>1. IInv /\ [Next]_vars
         => [\A c \in Tx : card[c] = "acted" => card'[c] # "replaced"]_vars
    BY ActedStep DEF IInv
<1> QED
    BY <1>1, Invariance, PTL DEF Spec, ActedCardsKept
==============================================================================
