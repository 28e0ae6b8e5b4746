# Formal models of the money-management app

The app is a NestJS backend over PostgreSQL, RabbitMQ and Redis, a FastAPI service that scores spending, a
Next.js web app whose server side proxies the backend, and an Expo mobile app. This directory holds TLA+
modules of the parts that decide something, the TLC configurations that check them, and TLAPS proofs.
Paths below are relative to `src/` of the repository; `modules/` is `backend/src/modules/`.

## 1. The system

| Part | State it keeps | Operations | What makes it hard |
|---|---|---|---|
| Session service (`modules/user/auth.service.ts`, passport strategies) | `User` (tokenVersion, passwordHash), `RefreshToken` rows | login, register, refresh, logout, logout everywhere, guards | several database calls per request, requests overlap, the process may die between two of them |
| SMS ingestion (`modules/sms`) | `SmsLog`, `Transaction` with a dedup key | `ingestSms`, batch, parsing | the same message arrives several times at once; the unique indexes arbitrate; two parsers stand in for each other |
| Event publisher and consumer (`config/rabbitmq.service.ts`, `common/consumers`) | three queues | publish, handlers | best-effort publishing, cooldowns kept in a cache |
| Enrichment, AI proxy, action cards (`modules/ai-proxy`, `modules/action-card`) | cache entries, `ActionCard`, `financialHealthScore` | tag, recompute, regenerate, invalidate | read-through cache filled and dropped concurrently |
| Subscriptions, notifications (`modules/subscription`, `modules/notification`) | their tables, the preferences column | detect, save, weekly scan, notify, update preferences | check-then-create without a unique index; read-modify-write of one JSON column |
| Push (`modules/push`, `mobile/src/services/push.ts`) | `DeviceToken` rows, the phone's cached token | register, unregister, send, process tickets | one phone, several users; registrations that outlive a session; tickets that come late |
| Money records (`modules/account`, `goal`, `budget`, `transaction`, `weekly-summary`) | their tables | create, update, delete, set primary, contribute, recompute, generate | several database calls without a transaction |
| Web session routes (`web/src/app/api`, `web/src/lib`) | two cookies in the browser | proxy, login, logout, me | parallel requests, answers in any order, refresh and retry |
| Mobile session client (`mobile/src/services/api.ts`, `store/auth.store.ts`) | two tokens in SecureStore, a copy in the store | interceptors, shared refresh, login, logout | every storage access is an await |
| Both clients (`web/src/lib/api.ts`, `hooks`, pages; `mobile/src/services`, `hooks`, screens) | query cache, forms, sheets | fetch, mutate, invalidate, optimistic update | requests and answers overtake one another; presses while a call is pending |
| AI service (`ai-service`) | none | stateless scoring, detection, parsing, questions | thresholds, missing values, two implementations of one question |

Clients call the backend over HTTP; the ingestion publishes `transaction.created`, whose consumer notifies,
detects subscriptions and enriches; enrichment and the AI proxy call the AI service with a context read from the
user's rows. The clients share the session service and the HTTP API and nothing else.

Node runs one callback at a time, so the code between two awaits is atomic and every await is a point where
another request may run. Each action of the backend modules is therefore the code from one await to the next.

## 2. Modules

| Module | Models | EXTENDS |
|---|---|---|
| `AuthSession` | the session service, one action per database call | standard modules |
| `TransactionLedger` | what ingestion promises: a message is recorded once, a withdrawn record stays withdrawn, it is announced at most once | standard modules |
| `SmsIngest` | `ingestSms` for one user, edits and deletions beside it; implements `TransactionLedger` | standard modules |
| `SessionBackend` | the session service as its clients see it: pairs of tokens numbered in the order they are minted | standard modules |
| `WebSession` | the web routes and the browser's cookies | `SessionBackend` |
| `MobileSession` | the axios interceptors, SecureStore and the auth store | `SessionBackend` |
| `EventConsumer` | the handlers of `transaction.created` (notification, subscription detection), `subscription.detected` and `notifications`, the subscription scan beside them | standard modules |
| `Enrichment` | the enrichment branch of `transaction.created`: tagging, cooldown, health score through the cache, action cards, invalidation | standard modules |
| `AccountRecords`, `GoalRecords`, `SpendingRecords`, `PreferenceRecords` | the handlers that write accounts, goals, budgets with the weekly summary, and preferences | standard modules |
| `UserRecords` | those four, one at a time | the four |
| `DevicePush` | a phone that several users sign in on, its DeviceToken row, pushes and tickets | standard modules |
| `AiContext` | the context the backend sends to the AI service, and how it is read | standard modules |
| `HealthScore`, `MoneyLeaks`, `Behaviour`, `Archetype`, `ActionCardDeck`, `SpendingInsights`, `Assistant`, `RecurringPayments` | one service class of the AI service each; `RecurringPayments` also the backend's own detector | `AiContext` |
| `SmsText` | both SMS parsers | standard modules |
| `AiCache` | `withCache` and `invalidateUser` | standard modules |
| `AiService` | all of these behind the AI proxy, over changing records | the eleven above |
| `ApiRoutes` | every route of the backend in declaration order, the fields of its body, and what the router and the validation pipe do with a request | standard modules |
| `ClientUi` | what screens are made of: sheets, forms, presses, waiting and error faces | `ApiRoutes` |
| `MobileApp`, `WebApp` | the requests, hooks and screens of each client | `ClientUi` |
| `Client` | a screen at work: its query cache, its calls, the backend's table and the user | `ClientUi`, instances of the two |
| `*MC` | values and symmetry sets of the instances TLC checks | the module |
| `*_proofs` | theorems (section 5) | the module, `TLAPS` |

### AuthSession

`req[q]` is the local state of a handler: `pc` is the database call it makes next. `LoginRead`/`LoginStamp`
are the two calls of `validateUser`; `RegisterCheck`/`RegisterCreate`/`RegisterAccount` those of `register`;
`RefreshLookup`/`RefreshConsume` those of `refreshTokens`; `Sign`/`Save` are `issueSessionForUserId`.
`AuthorizeLogout` and `AuthorizeForUser` are the guard, `LogoutOne`, `LogoutAll` and `ChangePassword` the writes
behind it. A JWT has no unique id and signing is deterministic, so a token is the record (user, version,
second), and a second login in one second trips the unique index on `tokenHash`: `CanSave`. `Abort` is a
database error or the death of the process, `Tick` moves the clock. `savedUnder` of a row is auxiliary.
`UserService.delete` is modelled although no route calls it today. A wrong password changes no state and is
left out. A session returned to a client that then loses the answer is the same state with one more
token that nobody presents.

### SmsIngest and TransactionLedger

A call walks through `find`, `log`, `parse`, `mark`, `upsert`, `link` and `publish`. The parser's result is
abstracted to "complete" (amount and type found) or "partial": the AI parser may say either, the regular
expressions say "complete" for the messages in `RegexParsed`. `findUnique` is rewritten by the soft-delete
middleware and ignores tombstones; `upsert` sees them. The code compares `createdAt` with `updatedAt` to decide who created the
row. Its comment calls the empty update a no-op (`sms.service.ts:146`); whether the ORM moves `updatedAt` all the same is not shown by the repository.
`Bumps` says which of the two to explore: both in `sms_ingest`, whose properties then rest on neither, and the no-op alone in `sms_lost_event`. `bumps` is the member a
behaviour follows. `Edit` and `Delete` merge the find and
the write of `TransactionService.update` and `delete`. One user is modelled, because the dedup key starts with
the user's id. `Faults` selects database errors, crashes and an unreachable broker.

### SessionBackend, WebSession, MobileSession

The clients cannot see the inside of a rotation, so `Rotate` is one step; `RotationSingleUse`, proved for
`AuthSession`, is what makes that sound, and `RotateInVain` is a refresh that dies after its deletion.
`root` remembers the login a pair descends from and is auxiliary. In `WebSession` a handler works on the
cookies its request carried, `Deliver` applies the answer's Set-Cookie headers to `jar`, and answers are delivered in
any order or lost. In `MobileSession` reads and writes of SecureStore are steps of their own; `promise` is
`refreshPromise`, led by the request that found none, and `Settle` resumes everyone who waits for it.
An access cookie expires only after its token (its max-age is longer); the seven-day expiry of refresh tokens and
restarts of the mobile app (`loadUser`) are not modelled.

### EventConsumer

One worker per transaction event and per scan. `Take` is the delivery: the consumers do not set `noAck`, and the transport's default, which
is not in the repository, is that the broker forgets a message it has handed over; no handler has the channel it would need to acknowledge one itself. So `Crash` loses
it. `Fetch`, `Notify`, `Row`, `Request` are the calls of `handleTransactionCreated` and `NotificationService`; whether the preferences ask for a
notification, and for a push, is a free choice at the step that reads them. With a push, `Request` puts a message on the notifications queue (`queue`), and `Copy` is the handler that
writes a second row from it, of the channel PUSH (`copies`). `Cooldown`/`Claim` are the get and set
of `maybeCheckForSubscriptionPattern`, `History`/`Existing`/`CreateSub` those of `checkForSubscriptionPattern`. A
scan walks `StartScan`, `Match`, `Update` or `CreateSub`, `Publish`. A scan stores the lower-cased merchant and the
handler searches the name as written: `NameIsKey` says whether the two are the same. `owed` is auxiliary: the handlers that have found their transaction and have not come
to the subscription check. Left out: other users and merchants, whose cooldowns and rows are separate.

### Enrichment

A run per transaction has three program counters: `run` for `enrich` itself, `health` for `recomputeHealthScore` and
`deck` for `regenerateActionCards`, which go on in parallel. A score is the set of transactions it was computed from, so
that staleness is visible. `CacheGet`, `Context`, `CacheSet` are `withCache` around `getHealthScore`; a `Viewer` is a client whose call
misses, goes to the AI service and fills the cache; `InvalidateUser` ends a run. A batch of cards is one card, named after the run that made it. The two branches of the handler of
`transaction.created` share no state, hence two modules.

### AccountRecords, GoalRecords, SpendingRecords, PreferenceRecords, UserRecords

Every handler has a record of its own that says which call of the database comes next and what it has read; a request
refused before its first write is a stuttering step. Only the columns that several calls decide on are kept: the primary flag,
name and soft deletion of an account (`primary` may still hold deleted rows: a soft delete leaves the flag), target, amount and
completion of a goal, scope and `amountSpent` of a budget, totals of the week's summary. `raced`, `claim`, `overlapped`, `due`,
`alone`, `fresh`, `crossed` and `asked` are auxiliary: they record which requests overlapped and what a serial order would have
left, so that the properties can except exactly the overlaps and nothing else. A handler touches only rows of its own part;
`part` therefore picks one part per behaviour instead of interleaving what does not interact.

### DevicePush

`session`, `cached` and `logout` are the phone; `reg` the runs of `registerForPushNotifications`, which login starts and does not
wait for; `row` the one `DeviceToken` row of the phone's token; `push` the notifications on their way. The access token that
goes along with `POST /push/register` is the one stored when it is sent, which is how a registration begun by one user
can be stored for the next. Expo refuses a push with `DeviceNotRegistered` only while the app is removed, and gives a reinstalled
app the same token. `served`, `since`, `excused` and `stands` are auxiliary; `excused` lists the ways a sign-out can fail to silence
the phone, each at the action where it happens. `stands` is set when a registration of the signed-in user is stored while nothing is in the backend that undoes
it (`Threatened`: another user's registration, the user's own late DELETE, a refusal to the app as it was), and is cleared when the session ends.

### The AI service

A context is a set of catalogue rows, dated in hours before now; `Within` cuts it to the days that `fetchTransactions` asks for, 30 unless told otherwise and 90 for the detection. Ratios of the Python code are compared exactly, by cross-multiplication; amounts are
whole, so that what depends on floating-point rounding at an exact threshold is outside the model. `AiService` reads a context in
the four calls of `buildUserContext`, between which the records may change, and answers every endpoint from what was
read; `Reply` with a failure is the 503 of the proxy, with the `...Fails` operators saying which contexts make the Python
code raise. Texts are the names of what they say; an answer of the language model is present, absent or failed. `SmsText`
abstracts a message to the keywords in it and the forms of its figures. `RecurringPayments` has both detectors: that of the AI service counts the whole days between payments, both types and the last 90 days, and rounds
the mean amount; the backend's divides milliseconds and takes every debit. `AiCache` is the proxy's cache in front of this, with
gets, reads, sets and deletions that may fail. The reads of a context run side by side and the pages of transactions one after the other; `Build` is one of
them, changes and deletions fall between any two. `version` of an answer is that of its first read, and `late` says that its key was deleted after that read and before the answer was stored.

### The HTTP API and the clients

`ApiRoutes` lists each controller's routes in the order they are declared, because that is the order the router tries them in, and
which body fields the global validation pipe demands and admits (`whitelist`, `forbidNonWhitelisted`). `MobileApp` and `WebApp`
say for each of eighteen screens which queries it uses, when it waits, fails or shows data, which presses it offers in each state and
what a press sends. A switch of the web settings can be pressed before the preferences are known and then sends the opposite of its default. `Client` supplies the semantics of the client library, `@tanstack/react-query` 5: a query is asked for, read by
the backend and delivered; an invalidation restarts a fetch in flight only if the query has data already, so that
a first load is not restarted (such a hook joins `missed`, as do those of a served call whose answer is lost); callbacks of a hook's earlier call are dropped once a later one is sent;
an optimistic mutation cancels fetches, guesses, and restores a snapshot on failure. A call may be lost before or after the
backend has served it. Rows are interchangeable and carry one mark, whose meaning is the table's. Polling,
`staleTime` and refetch on focus are left out: they only add fetches, which would hide an answer that is never refetched.

## 3. Runs

| Run | Instance | Shows |
|---|---|---|
| `auth_session` | 1 user, 4 requests, clock to 2, one version bump | at most one request gets past a token's deletion; logout everywhere leaves no older row; rejection is permanent |
| `sms_ingest` | 2 messages, stamps 999 and 1000, 3 calls, all faults | at most one row and one announcement per message, always with a log behind it; refines `TransactionLedger` |
| `sms_lost_event` | 1 message, 3 calls, no faults, the empty update a no-op | refuted: an edit between the upserts of two racers can leave a live transaction unannounced |
| `web_session` | 4 requests, 3 pairs, all faults | a retry never repeats a call that ran, the answer tells the truth, no rollback |
| `mobile_session` | a call, 2 logins, a logout, 3 pairs, all faults | the replay runs a call once; a used-up token is neither presented nor kept, faults apart |
| `event_consumer` | 2 transactions, 1 scan, all faults | an event causes one row and one copy of it at most; a failure anywhere in the notification never skips the detection; scans and events revive no subscription that the user ended |
| `enrichment` | 2 overlapping runs, all faults | cards go only for a batch; the user's own cards stay |
| `enrichment_ends` | 1 run, 1 client, fair run, all faults | an enrichment always ends |
| `user_records` | 2 handlers at a time; 2 accounts and names, 1 goal with amounts 0-2, 1 budget and the week over 3 transactions, 2 switches; 4-5 requests | primary account, goal, stored totals and preferences are those of a serial order unless requests on the same rows overlapped |
| `device_push` | 2 users, 3 sign-ins, 2 registrations, 2 pushes | which sign-outs silence the phone, whose the phone is while its user is signed in, which registrations a late ticket can undo |
| `ai_service` | 6 entries on both sides of the 30 and the 90 days, 3 subscriptions, 2 budgets, 2 goals, 2 changes; all messages over 5 keywords and 2 figures; 2 readers of 2 keys with 2 reads each, 3 versions | the two detectors differ by rounding and one step of frequency at most, the two parsers by one-sided keywords; no cached answer is older than the deletion of its key unless its first read was |
| `client` | both clients, 18 screens, 2 rows, 3 queries, 2 forms, 2 calls | a form is not sent twice at once; a screen comes to show what its user has done; every screen but three stops waiting |

**Bounds.** `Req`, `Call` bound the requests of a run, each handled once: two suffice for a race between
handlers, a third and a fourth let a login precede it and a logout or another duplicate join it. `MaxTime` 2
with lifetimes 1 and 2 lets an access token and a refresh token expire in turn. `MaxVersion` 1 allows one
logout everywhere. `MaxPair` 3 allows a login and two rotations. Stamps 999 and 1000 are the two sides of a second.
`Threshold` is 2 instead of 3, which two transactions reach. Two enrichment runs overlap once the cooldown lapses, and each
stands in for the other's cache reader; with a client of its own and one run the liveness run still covers fills that land at any moment.
In `user_records` two requests must overlap after a state worth disturbing has been built: two accounts, the first primary, take
two requests, a goal with an amount takes two, a total takes a transaction and a budget. Costs 1, 2 and 11 with one credit of 1 put the
week on both sides of the savings rate that the column can hold. Three sign-ins let a user return after another
one. Two reads of a context are enough for a change and a deletion to fall before, between and after them. `ai_service` scales the thresholds (`DaysNeeded`, `TopCards`, ...) down with the catalogue so that both sides of each are
reached; amounts stand for hundreds. In `client` two presses let one call overtake another, three queries are what a screen uses
at most, but for Home, which uses eight and is followed with the first three. At a bound the action is disabled, never wrapped.

**Deadlock** is not checked: when every request has been handled, the system may stop.

**Fairness** is assumed in two places. `FairSpec` of `Enrichment`: weak fairness of the next step of each of a run's
three branches, because Node resumes an async function whose await has settled, and calls to the AI service settle within
`AI_TIMEOUT_MS`. `Spec` of `Client`: weak fairness of the end of a fetch and of a call, with an answer or an error, because both HTTP clients
have a timeout (`mobile/src/services/api.ts`; the browser's own and the proxy's on the web) and the library retries a bounded number of times. Nothing forces
the backend to serve, a user to press, an expiry or a crash to happen or not to happen. `EnrichmentEnds` counts a run that a crash has
cut as ended; `WaitingEnds` excepts the three screens that have no error face (`NoErrorState`).

**Excuses.** Where the code lets two steps overlap that it should not, a property that forbade the result would only fail; the outcome is then listed in
section 4 and the property states what holds apart from it. `RowsPostdateLogoutAll` is about the rows that a logout finds, not those inserted late.
`DeadTokenExplained` excuses the moment between the two writes to SecureStore. `UserChoiceStands` and `DeckExplained` permit duplicates, and the latter a run that failed.
`PrimaryStands`, `GoalExact`, `StoredTotalsFresh` and `PrefsKept` excuse overlapping requests on the same rows: they are about sequences of requests, in the presence of others.
`QuietAfterLogout`, `TicketsDisableTheGone` and `SignedInIsServed` name the late registrations, restarts and refusals that they leave out. `DirectionAgrees` excuses a keyword on one credit list
only, `CacheFresh` an answer whose first read came before the deletion.

## 4. Disagreements between text and code

The `violation` run checks a sentence of the repository against what the code does; PROJECT.json quotes
both. Seen while modelling and left without a run of their own:

Sessions
- `refreshTokens` (`auth.service.ts:108`) never compares the token's `tv`, although `jwt-refresh.strategy.ts:26-28` says it does: a login in flight across
  a logout everywhere saves a row that can be refreshed.
- `jwt.config.ts:27-30` says that rotating credentials bumps `tokenVersion`; a password change (`user.service.ts:114`) does not.
- The loser of a parallel refresh answers 401 and clears both cookies even after the winner's answer has set good ones
  (`route.ts:98`; `route.ts:18-20` says no serialisation is needed).
- `backendLogout` (`api-server.ts:135`) sends no access token to the guarded `/auth/logout`, so the refresh token outlives
  a web logout, against `docs/API.md:110`.
- A pair refreshed before a 502 is not handed to the browser (`route.ts:122`, `126-131`) although `route.ts:117-119` keeps it
  for backend errors. A refresh in the same second as the login mints the same JWT string.

Ingestion, events, enrichment
- An event dropped while the broker is down is never published again, although `rabbitmq.service.ts:26-27` calls that
  recoverable; a retried SMS finds its row and publishes nothing.
- Stamps 999 and 1000 ms fall in different seconds, so jitter can make two transactions in spite of `sms.service.ts:48-49`.
- An unparsed message gets another log on every retry although `sms.service.ts:63-67` speaks of returning the existing one.
- `rabbitmq.consumer.ts:210-212` calls the race of the detection cooldown harmless; two handlers create two active subscriptions to one merchant.
- `main.ts:160` speaks of requeuing failed handlers; the handlers swallow their errors, `noAck` is not set and
  no handler takes the channel that an acknowledgement needs. Were a message redelivered after a crash, its user would be told twice: the mutant `CrashRequeues`.
- With push enabled the user gets two rows for one event, with the same title and text: `NotificationService.create` writes one, and the request it publishes another
  (`notification.service.ts:145-156`, `rabbitmq.consumer.ts:172-201`). Both are listed.
- The health score stored after a transaction may have been cached before it (`transaction-enrichment.service.ts:184`; invalidation comes last). The cooldown
  passes 60 to a cache whose lifetimes are milliseconds elsewhere (`ai-proxy.service.ts:147`).
- A scan stores a merchant in lower case, so a later event for "Netflix" does not find it and creates another
  subscription; after a cancellation an event creates a new active one as well.
- Two overlapping regenerations that both delete before either creates leave two batches of pending cards.

Records and push
- `AccountService.create` with `isPrimary` clears the flag of the others and may then be refused with 409: the user has no primary account.
- Changing a goal's target never recomputes `isCompleted`; an older generation of a week's summary may overwrite a newer one, and fails when
  the rate does not fit `Decimal(5,4)` (`schema.prisma:594`).
- `sentAt` of a notification is set although Expo failed; `getMonthlyStats` drops the month's last day (`transaction.service.ts:193`).
- After a restart of the app a logout does not unregister the phone; nor does a session that `loadUser` finds refused. A registration that is in the backend when its user signs out is stored
  afterwards and takes the phone from the next user until that one registers again.

AI service
- `/insights/dashboard` compares dates with an offset with naive ones (`insights_generator.py:46`): TypeError, a 503 of the proxy for every user with a
  transaction, although `main.py:1122-1123` documents its answer.
- A subscription without `usageScore`, which is how the backend sends new ones, fails the leak report and the dashboard (`leak_detector.py:136`).
- "Can I afford" divides by a net income of 0 (`ai_assistant.py:298`); entries without a category fail further answers (about line 358); a next payment on day
  29-31 can be no date (`subscription_detector.py:284-296`).
- The weekly recommendations are always empty (`main.py:619-625`); categories arrive as ids and are compared with names; late night is taken in UTC.
- Completing a goal can lower the health score; the leak score jumps at a band's edge (`leak_detector.py:381-393`).
- The cache key of the behaviour report is not among those `invalidateUser` deletes. A reader that started before an invalidation fills the key after it, and its answer may mix reads
  from before and after a change (`ai-proxy.service.ts:313-319`): it stays until its time to live ends.
- The two detectors disagree near their thresholds: payments 40.4 days apart are MONTHLY for `subscription_detector.py:122` and QUARTERLY for `subscription.service.ts:153`; an older payment is in
  the backend's history and not in the 90 days that the AI service is sent.

Clients and API
- Both clients call AI routes that the backend does not serve (`mobile/src/services/api.ts:505`; `web/src/lib/api.ts:379-401`): always a 404, and the
  assistant answers from a local fallback. Mobile `POST accounts/:id/set-primary` and `/recompute`, `GET weekly-summary` as a list and
  `DELETE weekly-summary/:id` have no handler either; `GET action-cards/summary` is taken by `:id`.
- The validation pipe refuses the mobile budget form (no `amountLimit`), the mobile impulse toggle (`isImpulse`) and the web's re-categorisation (`category`);
  category names are sent where a UUID is a foreign key.
- Web health score and both transaction details show a spinner for ever when their query fails; other screens show an empty list while loading.
- ContributeModal keeps the typed amount for another goal; a retried AddTransaction posts twice; paused subscriptions are not listed; the cache is not cleared
  on logout; the toggles of the mobile settings are local only; `actionRoute`, which `App.tsx:92` navigates by, is never written.

## 5. Proofs

Proved for every value of the constants: see `theorems` in PROJECT.json. Each module proves an inductive invariant that adds to the
properties what they leave unsaid, with one lemma per part of it, and derives the properties from it.

`AuthSession_proofs`: row ids are unique and below `nextRow`; a handler past `consume` holds an id that is no longer in
the table and no other such handler holds it; every live row was saved under the live version; an issued token's
version is at most the live one, and a user who is gone stays gone. Single use follows because deleting an id that is
missing throws; permanence because versions, the clock and `gone` only move one way.

`SmsIngest_proofs`: at most one call per key has a linked log, and only that call, with a fresh row, may stand
before `publish` or have published; an event implies a linked log; a key with a row has a parsed log. The
refinement maps `tx` to the ledger and `events` to the announcements: upsert records or stutters, delete withdraws,
publish announces or stutters, everything else stutters.

Its second half is about `AiService`, which ingestion asks for a parse. `AnswerFits` says what an answer was computed from; what it says is then a
matter of operators. Both parsers try the credit keywords first, so two that differ have met a credit keyword that one of them lacks, whatever the
debit lists are. `TwoPaymentsAreListed`: two payments are worth 60 hundredths, of which erratic amounts take 10 at most, and 50 are enough.
`WholeDaysCostOneStep` and `RoundedAmountsAreClose` are the arithmetic behind the other half of `DetectorsAgree`: the whole days of n gaps fall short of their exact sum by less than n
days, so that the means are less than a day apart, and no two thresholds are as close as that. The cache: a request that has read something and whose key was not deleted since has a first read no older than that
deletion (`ReadersFresh`); a request with nothing left to read has read (`AllIsRead`); no version is from the future. What is claimed of filled keys follows when a request fills one.

`Client_proofs`: about `DevicePush`, a user who is not signed in and not excused is silent: no registration is under way on the user's behalf and
the row, if the user's, is inactive. For that to survive the end of a logout, the same must already hold of the user whose DELETE has been
processed, and nothing may be left on the phone that would register that user (`LogoutIsSilent`). The second half is about who is served:
an active row is that of the user served last, or nobody is served; every stored registration ends the claim (`since`) of the pushes
and refusals before it; so a refusal that still has one is for an app that is gone. The third is about whose the phone is (`Undisturbed`): while `stands` holds, the
row is active and the signed-in user's and nothing in the backend undoes that, because what a phone sends from then on goes along with that user's
access token, a DELETE is sent by a logout only, which ends the claim, and Expo refuses nothing while the app is installed.

The rest of it is about `Client`. A screen that sends what was typed either empties the form in the same step or keeps it and has the button wait
while that mutation is the one observed (`Fits`, shown for every press of every screen of the two clients; `Keeps` names the five screens of the
second kind and their mutation). `OneCallForADraft` follows from `DraftInv`: a call whose draft a form still holds is of the screen's
kept mutation and is observed, so its button is busy; no two forms hold one draft. Without the second part a screen could type a draft into one form and send it from another.

`WritesShow` rests on the tables of hooks of both clients. `Covers`: what a mutation may change is a table, and the keys it drops are prefixes of
the keys that table's queries are kept under. `FoundUnder`: a query that reads a table is kept under such a key. Both are proved hook by hook; only the
mutations and queries of the eight tables whose calls change what a screen shows count. Hence `WritesReach`: a call that changes
the table drops every query of the screen that reads it. The invariant is `ClientInv`, of `DraftInv`, `TypeInv` and `OwnInv`. `OwnInv` says more than
the property, which speaks of moments without a call: with calls in flight, a query is to show the table, or to have the table on its way, unless it
is `Awaited`, that is unless a call whose end will drop it has been served or is optimistic. The answer of a call drops them and they
are asked again, as does the failure of an optimistic one; a first load that was read already is not restarted and joins `missed`, and so do the
queries of a call that is served and whose answer is lost, because that failure drops nothing.

`WebSession_proofs`: each handler's place in its program says how often its call has run (`NothingRunYet`), from which
`AnswerMatchesEffect` follows. For `NoRollback` the pairs of one login form a chain, and the backend stores only its last link (`RowsAreTips`). A
pair that a handler has minted and not yet answered with is in no other hand: not in the browser, not in another answer, not in a
request (`HeldByOne`), and it is the last link (`HeldIsTip`), because only who presents it could add another. So an answer
that brings a pair brings one newer than any the browser has of that login. Every action is a step that mints for one handler
(`MintsFor`) or one that mints nothing (`Quiet`), and the five parts about pairs are proved for these two kinds.

`MobileSession_proofs`: one request leads the promise and the others wait (`OneLeader`); the leader is the only one to read the
refresh token for a refresh, to present it and to store its successor. What it has read is good unless a fault is on record
(`HeldGood`), because a login or a logout that replaces the stored pair in the meantime does not use the old one up. Steps are of four kinds,
`Quiet`, `Reads`, `MintsFor` and `Stores`. `ReplayRunsOnce` follows from the places of the requests alone.

`EventConsumer_proofs`: the handler's calls come in their order (`HandlerOrder`, `ScanOrder`) and a row of a notification is written at one
place only, which its writer leaves at once (`RowNotAhead`); a request follows a row that nothing has repeated so far (`RequestFollowsRow`); so `ToldAndCopiedOnce`. What a handler
owes it carries from its transaction to the check (`OwedOnWay`), so `BranchesIndependent`. `UserChoiceStands` is about single steps: none sets a status from ended to active.

`Enrichment_proofs`: the branches of a run start only after its claim (`BranchesAfterClaim`), and a batch that is gone has a replacement, or a run
between its deletion and its creation (`DeckExplained`, which is inductive with it).

`UserRecords_proofs`: one invariant per part, and the fact that a step of the composition is a step of one part and a stutter of the
rest. Accounts: without an overlap there is one setter at most, and once it has cleared the flags only the account it is about
to set may carry one. Goals: a goal worked on by one request at a time still is as that request read it. Preferences: what
is about to be written is what was asked before, merged with the request. Totals: a handler that is alone on a row has a row to itself
(`AloneOnRow`), and a total it has read stays what the ledger adds up to until `crossed` says otherwise (`ReadingsStand`); `StoredTotalsFresh` is that
about the stored column. That a total is a natural number is proved too: the induction theorems are out of reach, but a
minimal counterexample is not. The sizes of the sets without a sum would have a least element, because `<` on the naturals is well-founded
(`NatLessThanWellFounded`, `WFMin`), and dropping one transaction from such a set gives a smaller one.

The assumptions used are the named ones of the modules (`AuthAssumption`, `IngestAssumption`, `KeyAssumption`, `PushAssumption`, `PairAssumption`,
`FaultAssumption`, `MobileAssumption`, `ConsumerAssumption`, `EnrichmentAssumption`, `AiCacheAssumption`, `AccountAssumption`, `GoalAssumption`,
`SpendAssumption`, `PrefAssumption`, `AiContextAssumption`, `AiServiceAssumption`, `RecurringAssumption`, `ItemAssumption`, `ClientAssumption`): the shape of the constants, and that a name for "none" is not a member of the set it stands beside.

Only model-checked:
- `EnrichmentEnds` and `WaitingEnds`, which are liveness and out of the prover's reach;
- the scores, cards, leaks and insights of the AI service: `AiService` fires them, and no property is claimed of their values;
- `SameFindings`, one half of `DetectorsAgree`: its sums of gaps are folds over a sorted sequence, whose value the installed provers cannot compute for every input. What it says of sums
  once they are taken is proved (`WholeDaysCostOneStep`, `RoundedAmountsAreClose`);
- that one of two racers may leave a transaction unannounced: `sms_lost_event` is a counterexample.

Not claimed: that `AuthSession` implements `SessionBackend`. A rotation is two steps of `AuthSession`, the deletion of the old row and the
insertion of the new, and a logout everywhere between them does not stop the second; no mapping makes that one
step of `Rotate`. `SessionBackend` is what the clients need of it, a rotation that at most one presenter survives, and that is
`RotationSingleUse`, which is proved.

## 6. Plan

1. Done: every module of section 2; every safety property of every passing run is a theorem, except for the half of `DetectorsAgree` that section 5 names.
2. Abstract specifications of the session handlers, finer than `SessionBackend`, that `AuthSession` does implement.

## 7. Not modelled, and why

- `SplitExpense` and `Onboarding` of the mobile app: local arithmetic and a wizard; they send nothing but the profile.
- Styles, animations, navigation and the layout of either client: rendering only.
- `modules/insights/insights.service.ts`: aggregates of rows read once, with nothing written; `SpendingInsights` covers the same ground in the AI service.
- The SMS inbox reader of the mobile app: a native module whose state is Android's; its batches are calls of `SmsIngest`.
- Texts: what a language model answers, the wording of notifications, cards and summaries.
- Pagination, filters and monthly statistics of transactions: single reads.
- Infrastructure, seeds, migrations, the health endpoint and the bootstrap, except for the validation pipe (`ApiRoutes`) and the
  queues (`EventConsumer`).
