# Formal models of erp-gescom-compta-saas

TLA+ models of the parts of this ERP that several actors change at once, and of what its two
user interfaces make of them, model-checked with TLC on small instances and, for the API's
money, stock, ledger, entitlements and sessions, for the mobile queue, forms and screens and for
the pages of the web application, proved with TLAPS for every value of the constants.

Run from this directory: `tlc -config BillingSafety.cfg MCBilling` (each `.cfg` names its
constants and properties; `PROJECT.json` lists the module each belongs to), and
`tlapm BillingProofs.tla`, and likewise TradingProofs, JournalProofs, EntitlementsProofs,
SessionsProofs, OfflineProofs, MobileProofs and WebProofs.

## 1. The system

A multi-tenant ERP: a NestJS API over PostgreSQL (`apps/api`), a Next.js front end that
proxies it (`apps/web`), an Electron window around that (`apps/desktop`), and an Expo
application with an offline queue (`apps/mobile`). All the state lives in PostgreSQL, except
the caches of the API's processes and the store of each mobile device. Requests interleave
at the statements they send: the API runs its transactions at READ COMMITTED, and at
SERIALIZABLE with retries where it reads the stock and then writes it.

| Component (apps/api/src unless noted) | State | Operations | What is hard | What makes it correct |
|---|---|---|---|---|
| payments, subscriptions, tenant/cross-tenant | payments, invoices, invoice_counters, subscriptions, subscription_events, audit_logs | webhook, payment expiry job, trial and grace job, plan change, payment bootstrap | duplicate and contradictory deliveries, jobs over batches read earlier, transactions that update by id, restarts between two commits | a success is invoiced once; settled is final; access is paid for; every change is recorded |
| sales, purchases, stock, invoicing, serializable-retry | documents and lines, stock_movements, sales_invoices and their counter | create, confirm, cancel, move, invoice, mark paid, void | write skew on stock, bounded retries, replays under idempotency keys, check then act | never sold below zero; posted with its document, once; numbers without gap; one row per key |
| apps/mobile/src/lib: offline, auth-context, api, queries | mutation_queue (SQLite), refresh token (secure store), session in memory, isProcessing | enqueue, replay, back off, log in, restore, log out, purge | awaits between any two steps, lost answers, kills, account changes, expired tokens | nothing lost, nothing taken for done, in order, in the tenant of its author |
| auth, users/invitations | refresh_tokens, users (failure count, lock), auth_tokens, status cache per process | login, second factor, refresh, logout, reset, links, guard | rotation and one-time tokens without compare-and-swap, stale cache | an ended session stays ended; one holder per family; wrong passwords are bounded; a link works once |
| entitlements, common/guards | LRU cache with TTL | getCurrent, invalidate, quota guard | resolution in flight across an invalidation; count then insert | a change shows in bounded time; a quota is exceeded by racing requests only |
| accounting | journal_entries and lines, their counter, accounts | create entry, trial balance, accounts CRUD | replay, numbering, two reads of one report | entries balance; numbers without gap |
| provisioning, onboarding, roles | enterprises, users, roles, accounts | register (one transaction), then mail and tokens | failure after the commit | all or nothing |
| super-admin, plans-admin | enterprises, plans | suspend, reactivate, catalogue | two transactions per suspension | a suspended tenant cannot act |
| users, customers, suppliers, products, settings, reports | rows | CRUD, aggregates | last write wins | - |
| packages/permissions, controllers, guards | none | decide who may call what | three guards, 42 routes, seven roles | only writers write |
| tenant context, RLS, prisma | a session variable per transaction | run | - | rows of one tenant only |
| apps/mobile/src/screens, packages/validation | the inputs of a form, local state of a list | type, pick, send, return, refetch | the fiche or the options change under the form; answers come late or never | a mutation says what the screen showed, once |
| apps/mobile/src/lib/queries, App.tsx | the query cache, the stack of screens | fetch, invalidate, deactivate, confirm | answers on their way, hooks of screens that were left, pages that vanish | one's own writes are shown; an applied action is not offered again |
| apps/web | the query cache, one form and one selection per page, the session of the tab | create, edit, confirm, page, sign in and out | one form for all rows, writes that wait for the network, the cache outlives the account | rows keep their values; one's own writes are shown |
| apps/desktop, docker, docs | none | - | - | - |

They meet in five places. The webhook and the jobs share the payment and subscription rows.
Sales and purchases post movements through the stock repository, inside their own
transaction; invoices read sales. The mobile queue calls the same endpoints as the front
end, with an `Idempotency-Key` that only document creations honour (ADR-0019). The
entitlements cache and the status guard read what billing and the super-admin write. The
screens see the queue, and the API, through the query cache, which each write invalidates by
key.

`PROJECT.json` lists every component with its status, and under `hazards` each place where
such behaviour bites, with the properties that watch it or the reason there is none yet.

## 2. Plan

| | Modules | State |
|---|---|---|
| 1 | Billing, PaymentSettlement, BillingProofs | modelled, checked, proved but for liveness |
| 2 | Trading, Inventory, TradingProofs | modelled, checked, proved but for liveness |
| 3 | OfflineQueue, Outbox, OfflineProofs | modelled, checked, proved but for liveness (the order, where nothing comes late) |
| 4 | Journal, Ledger, JournalProofs | modelled, checked, proved |
| 5 | Entitlements, EntitlementsProofs | modelled, checked, proved |
| 6 | Sessions, SessionsProofs | modelled, checked, proved |
| 7 | MobileForms, MobileProofs: what the forms of the mobile application send | modelled, checked, proved |
| 8 | MobileViews, MobileProofs: what its screens show | modelled, checked, proved |
| 9 | Access, WebPages, WebProofs: who may call what, and the pages of the web application over it | modelled, checked, proved |
| 10 | line totals and VAT as operators against a reference; provisioning; Entitlements composed with Billing's plan change | planned |

Parameters are CONSTANTS with named assumptions, each operation is one action per
statement it sends (per gesture, answer or await in the user interfaces), no module uses
RECURSIVE where something is proved. Where many components have one shape, the components
are constants of a module (a record each: `ClientForm`, `UseConfirmSale`, `SalesPage`,
`CustomersController`) and the actions are those of the shape.

## 3. Billing

`Billing` has one variable per table and one record per request or job in flight, which
holds what the handler keeps between two of its statements. A step is a statement, or a
whole transaction where its inner order cannot be seen from outside.

* *Webhook* (`payments-webhook.service.ts`): `Receive` reads the payment and classifies the
  event; `LazyExpire`, `RecordConflict` and `Claim`/`Commit` are the three branches;
  `AuditWebhook` and `Ignore` end the request. `Claim` is the compare-and-swap with the reads
  of the transaction, `Commit` its writes: between the two, `Locked` keeps other writers of
  the same payment waiting, as the row lock does, while the subscription row is free.
* *Jobs*: `StartSweep`, `TransitionRow`, `SweepEvent`, `SweepAudit`, `SweepRowFails`,
  `NextPhase` for `subscription-lifecycle.service.ts`; `StartExpiry`, `ExpirePayment`,
  `ExpiryAudit`, `ExpiryAuditFails` for `payment-lifecycle.service.ts`. Batches are read once.
* *Plan change*: `ReadForPlanChange`, `ChangeSubscriptionPlan`, `PlanChangeAudit`.
* *Faults*: a process restarts (its handlers vanish) or a statement fails, at most MaxFaults
  times. `Tick` moves the clock up to MaxTime.

`PaymentSettlement` is what billing promises about money: payments open, close, or are paid
together with an invoice that takes the next number. `ImplementsSettlement` is that
`Billing` implements it.

| Run | Instance | Shows |
|---|---|---|
| billing_safety | 2 payments, 2 requests, both jobs, clock to 1, 1 fault | a payment is invoiced exactly when it succeeds, once; numbers 1, 2, ...; paid access is invoiced, a restriction has its cause, changes are recorded unless a statement failed; resolved in time; `ImplementsSettlement` |
| billing_liveness | 2 payments, 1 request, both jobs, a plan change between 2 plans before the first transition, clock to 1 | pending payments, trials and grace periods end |

One enterprise is enough: enterprises share no row, and the proofs cover any number. Two
requests give every race on a row (a claim has one winner and one loser). Two payments let
a subscription be paid and then fail, or fail and then be paid. The clock needs one tick past
each deadline. One fault falls at every step. MaxEvents bounds the history for plan changes
only. Enterprises, payments and requests are interchangeable, hence the symmetry in the safety
run; the liveness run has none.

Fairness (`FairSpec`): a request or a job run that has started goes on (WF per handler), jobs
are started again each hour (WF of the start, which is part of the job's step), the clock
advances. No payment is ever assumed to receive a webhook.

## 4. Trading

`Trading` models one tenant, since tenants share no row. Documents, invoices and requests are
records; stock is kept as the sums the code computes from the movements, and `posted`
counts how often the movements of a document were inserted. Prices are left out; the
quantities of the lines are the constant `Quantity`.

* Serializable transactions (`BeginMovement`/`CommitMovement`, `BeginConfirm`/`CommitConfirm`)
  take their snapshot in one step and commit in another. Whoever commits dooms the open
  transactions whose reads it has changed (`Conflicting`, `Committed`), and a doomed
  transaction can only fail (`SerializationFails`): it is tried again, at most MaxAttempts
  times. A failure that PostgreSQL reports without such a conflict is allowed too.
* READ COMMITTED handlers are one action per statement: `ReadForCancel`, `Cancel`;
  `LookUpDraft`, `InsertDraft`; `LookUpInvoice`, `ReadSale`, `CheckNotInvoiced`,
  `InsertInvoice`, `InsertInvoiceFails`, `Recover`, `RecoverBySale`; `ReadForStatus`,
  `SetStatus`. The increment of the counter and the insertion are one step, because the row
  lock of the counter keeps them together until the end of the transaction.
* Unique indexes are guards of the insertions; their failure is an action.

`Inventory` is the abstract stock: atomic movements that never take it below zero, and
documents posted at most once. `ImplementsInventory` is the refinement.

| Run | Instance | Shows |
|---|---|---|
| trading_stock | 2 sales, 1 purchase, 2 products, manual movements; 2 requests, 2 attempts | never oversold, posted with its document, `ImplementsInventory` |
| trading_invoices | 2 invoice rows, 2 keys that the calls reuse; 2 requests, 2 attempts | what is invoiced has left, invoices are regular, one draft per key, every request ends |

The sets of calls are in `MCTrading`: each pair of conflicting operations on one row is in
one of them, and two requests in flight give every race of two transactions. Two attempts
are one retry and the giving up. MaxOnHand bounds what is received.

Fairness: every request that has started goes on (WF per request); the database answers.

## 5. OfflineQueue

One device, its accounts and the API as the device sees it. `author`, `status` and
`retryCount` are the table; a deleted row keeps its index with status "deleted". `at`,
`batch`, `seen`, `deps`, `current`, `token`, `reply` are the local variables of the pass
under way (`isProcessing` is `at # "idle"`), which stop at each await. `deps` is either the
ref of the sync engine, read when it is used, or the token a hook has closed over: the
difference matters after a logout. `due` counts the calls of `processQueue` that are
to come: hooks, the effect of the sync engine, the timers of the backoff.

The API's side is the set of tokens issued and expired, and per tenant how often each
mutation had an effect. `Accepts` and `Handles` say what each kind of request does when it is
delivered again: a document is deduplicated by its key, a record is not, an update
overwrites, a transition is refused. An answer may be lost after the effect, and a request
the device has given up may be served later (`late`).

`Outbox` is the abstract queue: mutations are accepted, and those that take effect do so in
the order they were accepted, some perhaps never. `ImplementsOutbox` shows it for a
device whose requests are not served after their timeout; with one that is,
`AppliedInOrder` fails (finding).

| Run | Instance | Shows |
|---|---|---|
| offline_replay | 2 accounts, 2 documents, 2 sessions, 1 kill, 1 expired token | snapshots are current, done is applied, `ImplementsOutbox` |
| offline_liveness | 1 account, 2 documents, 1 late request, no kill, no expiry | every mutation of a lasting session is done or failed |

Two mutations are enough for an order, two sessions for a change of account or a restart;
one kill and one expiry fall at every step. MaxTransientRetries is 2 instead of 5: one retry
and the giving up. Effects are counted up to 2, calls in `due` are told apart up to MaxDue:
`isProcessing` makes the further ones return at once.

The run offers documents only: with records, or a mixed queue, the instance is too large for it
(more than 14 million states explored, no violation met). `DoneIsApplied` is stated for every
kind, and `DoneWasApplied` proves it for every queue: what leaves the queue as done had its
effect, in the tenant of its author or, for a customer, supplier or product, which nothing ties to
its author, in that of a user of the device.

Fairness: the network keeps going and coming back (WF), and
JavaScript, its timers and the API take every step that is possible online again and again
(SF of the steps taken online, of `Serve` and of `Receive`). Without SF an application
that loses the network before every answer would never be done.

Left out: failures of SQLite. The cache of queries and `assertMutationSucceeded` are in
`MobileForms` and `MobileViews`.

## 6. Journal

`Journal` is the general ledger of all enterprises: `entries`, `counter`, `account` (who owns
each account), `audited` (the audit rows of entries), one record per request, and one trial
balance under way (`report`).

* `Receive` checks the lines (double entry, one side per line). `LookUp`, `CheckAccounts`,
  `TakeNumber`, `Insert` and `Commit` are the statements of the transaction of
  `JournalRepository.create`, `Audit` the statement of the service after it. `Holding` is the
  row lock of the counter: whoever has incremented it keeps the others of the enterprise
  waiting until `Commit` or `Fail`.
* The printed number of an entry starts with eight characters of the enterprise's id, and is
  unique on the platform: `Prefixes` may coincide, and then `Insert` fails (`Collide`).
* The trial balance is two statements, `ReadAccounts` and `SumLines`, with `CreateAccount`
  and entries in between.

`Ledger` is the abstract list: entries in double entry are appended, at most one per key.
`ImplementsLedger` is the refinement.

| Run | Instance | Shows |
|---|---|---|
| journal_entries | 2 requests that share 1 key, 2 enterprises, 2 prefixes, 3 accounts, 3 inputs | answers name entries, the report is exact unless an account was created under it, `ImplementsLedger` |

Two requests give each race on the counter, the key and the prefix; three accounts let both
enterprises post and leave one to be created late. The inputs are two entries in double
entry and one that is not. Amounts are 1 and 2: what is added is not looked at.

## 7. Entitlements

`Entitlements` is the cache of each process (`cache`, a sequence in the order of the
JavaScript Map, the oldest first), the subscription it stands for, and an invitation through
`SubscriptionAccessGuard`, `LimitGuard` and `InvitationsService.invite`. A step is what runs
between two awaits: `Hit` is a lookup that ends in the same tick, `Miss`, `Resolve` and
`Resolved` are one that queries the database, so that a change and its `Invalidate` may fall
between the query and the store. `Change` stands for plan changes, webhooks and jobs:
the first two invalidate the cache of their own process afterwards, jobs and other
processes do not. The value of a subscription is what the guards look at: whether the status
lets writes through, and the limit on users.

Time is relative: `left` until expiry of an entry, `age` since the last change of a
subscription (history, not in the code), `wait` since a query. All stop where they no longer
matter, so the state space is finite although time is not bounded.

| Run | Instance | Shows |
|---|---|---|
| entitlements_cache | 2 requests, 1 process with room for 1 of 2 tenants, 3 subscriptions of one and no limit for the other, TTL 2 | what the cache answers is out of date for at most TTL + MaxWait, a quota is exceeded by less than the requests in flight |

One process is enough: caches share nothing but the database, and a change made by another
process is a `Change` without invalidation. The proofs cover any number. TTL 2 tells an
entry that is renewed from one that is not. MaxUsers 3 is one more than the largest quota.

MaxWait is the longest time between a query and the store of its answer. The code does not
name it: the query runs in an interactive transaction, which Prisma aborts after a timeout.
The bound proved is TTL + MaxWait and not 0: the comment in entitlements.service.ts:33 that
invalidate removes the drift holds neither for a query in flight, which stores what it
read before, nor for changes made by jobs and other processes.

## 8. Sessions

`Sessions` is one account: its row with the failure count and the lock, its refresh tokens in
families, the links it was mailed, the status the guard has cached, and the requests being
served. A step is a statement or a transaction; argon2 and every query let others in between.

* *Login* (`auth.service.ts`): `Login` reads the row, `Refuse` and `Accept` write the count from
  that read, `VerifyMfa` answers the challenge of a super-admin, `Issue` inserts the token.
* *Refresh*: `Refresh` reads the token and decides (`Verdict`); `Create` inserts the
  successor, `Rotate` marks the token by id; `Revoke` and `Expire` are the other ends.
* *The guard* (`jwt-auth.guard.ts`): `Hit`, or `Miss`, `Lookup` and `Store`, before a `Logout`.
* *Links* (`account-recovery.service.ts`, `invitations.service.ts`): `RequestReset` and `Send`;
  `Follow` reads a link, `Reset`, `VerifyEmail` and `AcceptInvitation` use it.
* *Suspension* (`super-admin.service.ts`): `Suspend`, then `RevokeAll` in another transaction.
* Time, and failures: `Tick`, `Lapse`, `Unlock`, `Fail`, `Restart`.

| Run | Instance | Shows |
|---|---|---|
| sessions | 2 requests, 3 tokens, 2 links, MaxAttempts 3, TTL 1, MaxWait 1, six mixes of operations | an ended session has no live token again; one client holds a live token of a family unless two refreshes of one token overlapped; wrong passwords before a lock are bounded; a link changes the account once per request that was serving it; a suspension is seen in TTL + MaxWait |

Two requests give each race; three tokens are a session, its successor and a second one that
a fork or a login gives; two links are an old and a new one. The mixes (`Loads`, in
`MCSessions`) hold together the operations that touch one row: all nine at once would only
multiply them. MaxAttempts is 3 instead of 5, so that the worst series under two
requests, MaxAttempts (MaxAttempts + 3) / 2, is 9, and MaxTries 10 lets one more happen. The
bound is stated, and proved, for any number of requests: the number of `Standings`, which for n
requests is the binomial of MaxAttempts + n over n, less one.

The bounds are weaker than one may think, and the code gives no better: two refreshes of one
token fork its family, two logins lose a failure or undo a lock, a link read by two
requests works for both. Left out: the enrolment of a second factor, tokens of the platform,
mails.

## 9. MobileForms

Nine forms of `apps/mobile/src/screens`, one behaviour about one form (`subject`). A form is a
record, `ClientForm` to `InvoiceForm`: its fields with the rule of the schema of
`packages/validation` for each, its empty line, whether it edits a fiche. The actions are
those of the components: `TypeText`, `TypeNumber`, `PickParty`, `PickInLine`, `TypeQuantity`,
`ChooseType`, `ChooseSign`, `AddLine`, ...; `Submit` is `handleSubmit` with the schema, then
the queueing; `Process`, `Replay` and `Serve` are the queue as the form sees it; `Return` is
what the `onSubmit` does after its await: its `goBack` is unconditional, and when the user
has left the form by then it closes the form that is open instead; `Refetch` is a fiche
that comes (again) and resets the form. Values are what the rules tell apart (not typed,
blank, malformed, one another); numbers count halves, because a fraction can be typed.

| Run | Instance | Shows |
|---|---|---|
| mobile_forms | all nine forms, numbers 0, -1 and 3/2, 3 lines, 1 or 2 openings, 2 to 6 inputs, 1 change by others | the sign of a correction is the one on the screen; an opening leaves at most one mutation that is done or may be; a PATCH changes only what was typed, if the fiche was loaded when it was sent and has not changed since |

The shortest document takes two or three inputs (an entry five): the bounds are one more. Two
openings are needed where an earlier form, left while its mutation waits, returns over a
later one and closes it: hence the exception in RefusedFormsStay, and FormsCloseThemselves
among the findings. The forms do not interact but through the queue and that `goBack`, so one
at a time is enough. CHECK_DEADLOCK is off: the user may stop.

## 10. MobileViews

What the screens show. A behaviour is about one button of Home (`HomeScreen`) and all that it
opens. `stack` is the stack of react-navigation with the local state of each
screen, `cache` has one entry per key: a query (`UseCustomers`, ..., as in `lib/queries`) with its
filter and page. Data is seen by its rows, by whether it misses one of the user's own writes
(`misses`) and whether it did so already when its key was invalidated (`late`); a fetch is asked,
read (on its way back) or paused. `writes` are the mutations of the 18 hooks; a hook is what the API changes and the
keys it invalidates, in order. The actions: `Navigate`, `Back`, `Filter`, `Turn`, `Save`,
`Act`, `Ask`, `Renounce`, `Deactivate` are gestures; `ProcessQueue`, `TimerFires`, `ProcessOne` the queue;
`AssertSucceeded`, `Refresh`, `Refreshed`, `Finish` the awaits of a hook; `Reads`, `Answer`,
`Receive`, `FailToFetch` a fetch; `Disconnect` and `Reconnect` the network, with the sync
engine that invalidates everything.

| Run | Instance | Shows |
|---|---|---|
| mobile_views | the nine screens of Home and what they open, 2 rows of one page each, 2 writes, 1 disconnection or failed fetch, 4 or 5 gestures | at rest, no mounted screen misses a write its hook has seen through, but in error or by an answer older than the invalidation; nobody is on a page that does not exist without a way back; an applied action is not offered again, but while its refetch waits for the network |

Five gestures are the longest way that matters: open, filter, open a form or a detail, act, go
back. Four are enough in the catalogues (open, turn, ask, deactivate) and where purchases and invoices
repeat what five check for sales. Two writes race through one pass and through two. The pickers are in `MobileForms`; the
removal of keys that no screen has observed for five minutes is left out.
CHECK_DEADLOCK is off: gestures are bounded.

The behaviour of @tanstack/react-query and react-navigation is modelled from how the code uses
them, and marked external in `map`:

* A key that a screen observes is fetched, whatever the cache has, unless its fetch is under way
  already: then it is joined (`Observed`), after `Filter`, `Turn` and `Navigate` alike. The fetch of a
  key that is left goes on. `placeholderData` keeps the rows of the last key (`Shown`).
* `invalidateQueries` fetches the mounted keys again. The fetch under way is cancelled only if the key has
  data; a first load is joined, and what no screen observes is only marked (`Invalidated`). An answer read
  before the write may thus stay on a screen: `late` marks it, OwnWritesAreShown excepts it
  and nothing else, and NothingIsMissed (section 13) is the property without the exception.
* What the hook awaits (`awaits`) are the fetches of the mounted keys that are not paused: one that
  waits for the network ends the await at once, and the detail offers its action again.
  ActionsAreNotRepeated excepts that case only; AppliedActionsAreGone (section 13) does not.
* `goBack` pops the screen on top when it is called. The forms call it after their await, whoever
  is on top by then (`Finish`), hence OnlyUsersGoBack in section 13.

## 11. Access and WebPages

`Access` is a table: the permissions and default roles of `packages/permissions`, the route of
each controller that the pages call with the permission, feature and subscription it asks for, and
the three guards as decisions. `Entitlements` models how the plan they read is known.

`WebPages` is one tab: `session`, the `page` shown with its state in `tab` (filter, row
selected, row asked about, row edited and what its form holds), the query cache by key (a query
with its filter, its row, or for a picker), and the `writes` that were sent. A page is a record too (`ClientsPage`, ..., `UsersPage`): its queries,
forms, buttons and filters. `Modify`, `CancelEdit`, `Type`, `Submit`, `Ask`, `Press`,
`Show`, `Go`, `Logout`, `Login` are gestures; `Apply`, `Acknowledge`, `Refuse`, `Lose` the API's
side of a write, behind `CanActivate`; `Answer`, `Receive`, `Deny`, `FailToFetch` that of a
query. A write of react-query waits while the tab is offline and is not retried; its options
are those of the last rendering, hence `Bound`. First loads are joined, fetches of what has data
are cancelled, and `late` marks an answer older than the invalidation, as in `MobileViews`.

| Run | Instance | Shows |
|---|---|---|
| web_pages | seven roles on ten pages by address; plans without the feature or restricted; two pages by the menu; a second account in the tab; 2 rows, 2 writes, 1 fault, 1 to 5 gestures | at rest a page shows every write made from it that was answered, but in error or by an answer older than its invalidation; a write is applied only for an account with more than read in its module; a row never takes the values the form held for another, but through a paused save |

Gestures are 5 where two accounts follow each other, 4 on the catalogue whose form edits, 3 or 2
elsewhere, 1 for roles that only repeat what an administrator does on a page of documents.
Suppliers and products have the code of customers. Rows are interchangeable.
CHECK_DEADLOCK is off: gestures are bounded. OnlyWritersWrite is about the default roles: no route
of the API changes them.

Left out: pagers, the removal of keys that no page has observed for five minutes, what other users
write, the pages of the super-admin, of authentication,
onboarding, subscription and settings.

## 12. What is proved

`BillingProofs` proves, from `BillingAssumption` alone (durations and bounds are naturals,
NULL is no value, payments are finite), that `TypeOK /\ HandlersConsistent` is inductive.
`HandlersConsistent` says what a handler keeps between two statements is true of the tables: a
webhook about to commit holds a payment that is still PENDING and nobody else holds, with
a legal target; a job and a plan change hold rows that exist. Types alone are not
inductive: `Commit` would write a status computed from nothing.

`BillingProofs` then shows (`MoneySteps`) that every step leaves payments' statuses,
owners and the invoices alone, or opens, closes or pays one payment. The rest follows from
this small view: `InvoicedOnce`, `NumbersAreConsecutive` (by the auxiliary invariant that the
counter of an enterprise is the number of its invoices), `SettlementIsFinal`,
`BillingSettles` (refinement).

The rest of `BillingProofs` says in the same way what a step does to one request (`WebhookMove`), one
subscription (`SubscriptionMove`), one run of the job (`SweepMoves`) and one history
(`HistoryMove`). None of the invariants about access is inductive alone, since a handler decides
from a row it read earlier: `ClaimsAreLegal` says that whoever is about to commit decided
legally, for a tenant that had paid if the row said so (a failure is only turned into PAST_DUE
from a row read as ACTIVE or PAST_DUE; a success brings its own invoice); `BatchIsOver` that the
trials of a batch were over when it was read, which stays true because `trialEndDate` never
changes; `ClaimsAreTimely` that a payment to be settled was read before its deadline;
`PlanChangesAreLegal` that a plan change keeps what it checked. The theorems: AccessIsPaidFor,
RestrictionsAreCaused, ResolutionIsTimely, HistoryIsLegal, and, as long as no fault has
happened, StatusesAreRecorded and SettlementsAreAudited: whoever writes a status or settles a
payment still has the event or the audit row to write (`SettledByWhoAudits`, `AuditsFollow`).

`TradingProofs` proves `TradingInv` inductive: types, NeverOversold, PostedWithItsDocument,
InvoicedSalesHaveLeft, and for each request that its statement fits its call (`Fits`) and
that what it has checked still holds unless it is doomed (`Sound`). `Sound` is the heart: a
serializable transaction that may still commit has enough stock *now*, since anybody who
changed it has doomed the transaction. NeverOversold is not inductive without it. The
theorems: TradingTypes, StockIsThere, PostedOnce, SnapshotsAreCurrent, InvoicedHaveLeft,
TradingKeepsStock (refinement of `Inventory`). Two more rest on small views of a step: an
invoice is issued under the next number for a sale and a key that have none, or all keep what
they were issued with (`Issues`, `KeepsIssued`), hence InvoicesStayRegular; a document takes a
key that no other has, or keeps its own, and a cancellation never frees it, hence
OneDraftForEveryKey.

`JournalProofs` proves `JournalInv` inductive: shapes, numbers without gap, that a request past
the counter holds the next number alone (`HoldsNext`), that entries and inserted rows have no
unique value in common (`NoCollision`), and double entry. Answers and audit rows follow from
a second invariant (`Trace`), that a request past its transaction names an entry it has
created or found. ReportIsExact needs a third (`OwnAccounts`): entries, and requests past the check of their
accounts, post to accounts of their enterprise, which an account created meanwhile leaves true. A
column over the accounts of the enterprise is then a total of the entry (`WholeColumns`), and the two totals
agree. That the sums agree when the columns of each entry do (`SumsAgree`) takes no
induction: a sum of the community modules is the function chosen for an equation, and it is
enough that the two equations say the same (`SumIsTotal`). That a sum is a natural does: `TotalsExist` and
`TotalIsNat` take it on the size of a finite set, as the absence of a least counterexample
(`LeastOfAny`), since the induction theorems of the library cannot be applied here.

`EntitlementsProofs` proves `EntitlementsInv` inductive: types, CacheFits,
StalenessIsBounded, QuotaIsNearlyKept, and `Carried`, that what a request brings to
the cache is out of date for no longer than it has waited: without it `Resolved` could store
anything. Lemmas say what delete, set and eviction do to a sequence (`Removed`, `Deleted`,
`WasSet`, `Evicted`). QuotaIsNearlyKept is preserved because whoever counts sees at least one place
left, and those who have counted and not inserted are among the requests. It assumes
finitely many requests.

`SessionsProofs` rests on two descriptions of any step: what it does to one request
(`RequestMove`) and to one refresh token (`TokenMove`). Type correctness says also that tokens
belong to families that exist and that requests name rows that exist: a login opens a
family that nobody has used, and EndedStay needs no more. OneHolder comes from `OneChain`: in
a family that no overlap forked, there is one live token held, or the one token that is being
exchanged, and a successor belongs to the family of its token. LinksOnce needs that a link
not consumed was never used; Suspension that an answer of the guard, kept or on its way, is no
older than its time (`CacheIsRecent`, `AnswersAreRecent`). It assumes finitely many requests.
GuessesStayBounded adds nothing to that assumption: it holds for any MaxAttempts and any number of
requests. Logins overlap, and each writes the count it has read plus one, over a higher one or over
a lock. `Reach(w)` is who may still guess with w attempts or more left before a lock: the logins that have
read such a count, and every request while the account is open at one. `Standing` counts them
at each w. A wrong password takes one login from its distance; it may open the account nearer
the lock, where everybody may come, but never farther off. So the standing it leaves is `Above` the
one it makes: fewer at some distance, no more at any greater one. `GuessInv` says that each guess of the
series has left a standing of its own behind, above the one there is now. All of them are
`Standings`, and the one there is now is not among them, hence the bound (`StandingsAreFinite`,
`StandingType`, `AboveOrders`). `NewSeries` and `SameSeries` are the steps that guess nothing, `RefusedGuess`
the one that does.

`OfflineProofs` proves `QueueInv` inductive: types in six parts and `Snapshot`. The types need
that a token is never kept for a session that was not opened, in a timer either (`DueTypes`);
the bound of `retryCount` needs SnapshotIsCurrent, since a pass decides whether to
give up from the count it read before its awaits; and that needs `Ordered`, that whatever is pending and not in hand comes
later than what is. DoneIsApplied, for queues of any kinds, adds `HomeInv`: whatever had an effect
was queued, an effect is in its author's tenant unless it is that of a customer, supplier or
product, and an answer of success tells of one that there was (`HadEffect`). That effects of these three stay
in the tenant of their author is not so: OfflineForeign. One theorem adds an assumption. Where the API serves
nothing that the device gave up (`MaxDelayed = 0`), `OrderInv` says that the work to come is younger
than all that had an effect, and each step maps to a step of `Outbox` or to a stutter. The
assumption is necessary: OfflineLate is what happens without it.

`MobileProofs` proves `FormsInv` inductive for any forms offered, options, numbers typed and
bounds, from `FormsAssumption` and `OfferedAssumption` (only forms of the table are opened). The table of
the forms is read once (`FormShapes`, `Rates`, `Movements`). A step does one of five things to the
form (`Closes`, `Opens`, `InputMove`, `Goes`, `Rereads`) and little to a row (`RowMove`). SignIsShown is
inductive once a movement has exactly one line (`LinesInv`). OneMutationPerOpening needs
`OpeningInv`: until a row has returned it is the last of its opening and those before it were refused and
have returned, so the form cannot be sent meanwhile; and that a pass only holds rows that wait
(`PassInv`), or an answer could revive a refused one. PatchesChangeWhatWasTyped needs that a form
that edits agrees with the fiche loaded on what was not typed (`FicheInv`), that the body of a row
repeats it (`RowsInv`), and that a rate is never missing from a fiche, since the schema would
put its default there. RefusedFormsStay follows from `OpeningInv` too: the `onSubmit`
of a refused mutation closes nothing, and one that goes back while the form shows a refusal is of an earlier opening,
which the property excepts.

The second part of `MobileProofs` proves `ViewsInv` inductive for any screens of Home, rows and bounds,
from `ViewsAssumption` (the roots are buttons of Home, the rows are finitely many and the row followed
is one of them, the bounds are naturals). The tables of screens, queries and hooks
are those of the program, and five lemmas read them once: the screens below a root and what they show and do
(`Parts`), that a list shows one query and has the filter "all" or several (`ListFilters`), what a detail shows and what its actions refresh
(`Details`), the keys of a hook (`Refreshes`), and `HooksCover`: a hook invalidates the
key of every query below its root that its write changes. Beside types, `ViewsInv` has a part for each
property.

- OwnWritesAreShown holds at rest, and is not inductive: an answer under way may have been read before the
  write, and the hook may not have got to the key. `ShownInv` adds that a key whose answer on its way misses a
  write without being marked late (`WillMiss`), or that a screen shows without one and that is neither in
  error, late nor being fetched (`Misses`), is `Covered`: it is due in the `invalidateQueries` left to a
  hook or in those of the sync engine. That invalidation cancels the answer, or marks it late. `QueueInv`
  keeps what is due: a hook waits for the pass that serves its write, and one that is refetching has a key left.
- NobodyIsStranded needs, for the lists that have no other filter, that the page is at most the number of
  rows (`PageInv`): the rows of such a list never leave it, so that each read has them all.
- ActionsAreNotRepeated needs `ActionInv`: below an applied action the row is settled at the server,
  and either the document in the cache, and any answer on its way, is settled or about to be read again, or
  the hook still has its key to invalidate. Between the two, the hook awaits what it has asked for
  (`AwaitsInv`: what is awaited is being fetched), and `Act` waits for a fetch under way, so only a fetch
  that is paused can show the old status with its buttons; that is what the property excepts. `WaitsInv`
  says that the hook a detail waits for has not returned and acts on its document, `SeenInv` that a
  detail that has acted shows one. An error shown in place of the document offers nothing.

A gesture moves the stack (`StackNext`), an answer one entry (`CacheNext`), a hook one write and the
entries of a key (`WritesNext`, `RefreshMoves`); one lemma per action then says that `ViewsInv` is kept. The
conjuncts were checked with TLC on the instance of mobile_views first.

`WebProofs` proves the invariants of `WebPages` for any accounts, pages visited, rows, writes and
faults, from `PagesAssumption` and `StartsAssumption` (the accounts have default roles and
visit pages of the menu). The tables of queries, forms, pages and routes are those of the program;
lemmas read them once: what a page invalidates covers what its writes change of what it shows
(`FormsCover`, `ButtonsCover`), each of its routes asks for more than reading, and a form belongs to one page. A step is
described for one key by three views, `QueryMove` (its entry is kept, starts, receives, breaks
or misses one write more), `MountMove` (what is observed anew is being fetched) and
`AckMove` (an acknowledged write has what it refreshes fetched, and an answer on its way without it,
which nothing cancels, marked late), and for one write by
`SaveMove`. The invariant, beside types: `TabInv` (filter and drafts are those of the page),
`WritesInv` (a write comes from its page and was allowed), `ContentInv`, `MissesInv` (a query
only misses what changes it), `DataInv` (without data there is nothing to miss) and `ShownInv`:
an answer on its way that misses an acknowledged write of a page that shows it is late, and what is
shown without it is in error, late, or being fetched. OwnWritesAreShown is `ShownInv` at rest; it is not inductive alone,
because the answer under way may have been read before the write. The conjuncts were checked with TLC on a smaller instance first.

Only proved, since no run names them: Billing TypeOK, HandlersConsistent, SettledIsFinal,
SettlementIsAudited and RecordedTransitionsAreAllowed; Trading TypeOK and SnapshotsHold; Journal
TypeOK, NumbersWithoutGap, AuditedByItsCreator and PrintedOnce; Entitlements TypeOK, CacheFits and
LockedOutInTime; Sessions TypeOK; OfflineQueue TypeOK; MobileForms TypeOK and RefusedFormsStay;
MobileViews ViewsOK; WebPages TypeOK and DraftsAreKept.

Only model-checked: the liveness properties, of Billing, Trading and OfflineQueue (fairness and
ENABLED are out of the prover's reach).

Stated, and checked by naming it in the configuration of the same instance, but in no run:
MobileForms ValidDraftsCanBeSent.

## 13. Findings

What the models show the code to do against its own comments. Five are quoted in
`PROJECT.json`; the properties are stated in the modules, at their end, no run expects them to
hold, and the configuration named reproduces each.

| Property | Configuration | What happens |
|---|---|---|
| ConfirmedIsNotCancelled | TradingCancelled | a cancellation overwrites a confirmation whose goods have left (sales.repository.ts:273) |
| EffectsStayHome | OfflineForeign | a pass that outlives a logout sends rows with the next account's token (mutation-queue.ts:105) |
| SurvivesKill | OfflineColdStart | a cold start without network purges the queue (auth-context.tsx:109) |
| TerminalIsFinal | BillingTerminal | a webhook overwrites the EXPIRED the job committed after it read the subscription (payments-webhook.service.ts:250) |
| LoserGetsTheRow | TradingReplay | the recovery of a duplicate creation reads in an aborted transaction: 500 (sales.repository.ts:152) |
| OnlyDuplicatesAreIgnored | BillingIgnored | a success that loses to a failure or to the expiry job is answered as a duplicate (payments-webhook.service.ts:310) |
| SuspendedAfterGrace | BillingGrace | the job suspends a subscription whose grace period restarted after its batch was read (cross-tenant.repository.ts:115) |
| EveryTransitionIsRecorded | BillingHistory | the job's event is lost when its statement fails after the status is committed (subscription-lifecycle.service.ts:81) |
| TerminalPlanIsFrozen | BillingTerminalPlan | the plan of a subscription changes after it has expired (cross-tenant.repository.ts:52) |
| PaidOrVoidIsFinal | TradingVoided | a payment and a cancellation of one invoice both succeed (invoicing.repository.ts:327) |
| ReplayIsNotRefused | TradingInvoiceReplay | a replay is told 409 for the invoice its own key created (invoicing.repository.ts:148) |
| PendingIsReplayed | OfflineIdle | a row queued during a pass waits, online, for an unrelated event (mutation-queue.ts:87) |
| AppliedInOrder | OfflineLate | a request served after its timeout overwrites a later one (mutation-queue.ts:130) |
| RetriedAfterExpiry | OfflineExpiry | after a 401 nothing renews the token the row waits for (mutation-queue.ts:149) |
| TrialBalances | JournalTrialBalance | a trial balance misses an account created, and posted to, between its two queries, and does not balance (accounts.repository.ts:105) |
| SavesReachTheirRow | WebPages | a save that waits for the network reaches the row edited when it comes back (customer-form.tsx:78) |
| MenuIsTheirOwn | WebPages | the next account of a tab sees the menu of the one before (auth-provider.tsx:98) |
| EditsStay | MobileForms | what was typed is lost when the fiche comes again (ClientFormScreen.tsx:82) |
| EditsChangeWhatWasTyped | MobileForms | a form sent before its fiche has come PATCHes the defaults; of two edits offline, the second reverts the first |
| NothingHiddenIsSent | MobileForms | an option that has left the list is still sent |
| FormsCloseThemselves | MobileForms | the `goBack` of a form that was left while it waited closes the form opened since (ClientFormScreen.tsx:89) |
| OnlyUsersGoBack | MobileViews | or the list, detail or menu on top (ClientFormScreen.tsx:89) |
| AppliedActionsAreGone | MobileViews | the network drops between an action and the refetch: the action is offered again (use-sales.ts:128-135) |
| NothingIsMissed | MobileViews | a first load that is answered before a write and received after its invalidation stays on the screen (use-stock.ts:112) |
| NothingIsMissed | WebPages | the same, in a tab (stock-movement-form.tsx:53) |

For the last ten, name the property in the configuration in place of its INVARIANTS and PROPERTIES.

What modelling showed besides, without a property of its own:

* *Sessions.* A failing login that was read before a lock writes the row unlocked, with a lower
  count (auth.service.ts:87-96). "Un seul lien valide à la fois" (account-recovery.service.ts:40)
  does not hold when two requests for a reset overlap. A reset that "invalide toutes les sessions
  existantes" (account-recovery.service.ts:91) does not stop a login or a refresh in flight.
  `Rotate` writes ROTATED over REVOKED.
* *Mobile screens.* A list turned while it still shows the rows of the filter before, or whose
  last row of the last page is deactivated, is past its last page and the buttons of the pages are gone
  (ClientsListScreen.tsx:149); the other filter is the way out, hence the exception in
  NobodyIsStranded. The end of one deactivation closes the question asked about another row.
  An optional field once filled cannot be cleared, and a VAT rate
  that is cleared is sent as 1800.
* *Web.* A save's success drops what was typed for another row meanwhile. Modify starts from
  the list as it is, so that a save made before the list is fetched again is reverted. A save
  whose answer is lost and that is sent again creates twice: the web application sends no
  Idempotency-Key. The buttons of a row come back before the list does. Confirming a sale
  invalidates sales, not the stock. The access token is not renewed while a page stays open;
  the refresh that a page starts with may answer after a login and replace its session; two
  tabs that reload together trip the detection of reuse.
* *Roles.* nav-config.ts:1-3 speaks of roles, permissions and plan; the menu looks at permissions
  only. Forms of creation are shown to roles without the permission, and the API refuses. CAISSIER
  may create sales and not read the products to choose from. default-roles.ts:3-5 says an
  administrator can change roles; no route does.

## 14. What is not modelled

| Part | Why |
|---|---|
| registration, onboarding | one transaction, whose row is the initial state of Billing; then mails and tokens that may fail |
| plan catalogue, settings, profile, roles | single rows, the last write wins, nobody acts on a stale read of them except through the cache of Entitlements |
| aggregates of the reports, prices, line totals, VAT | read-only, or data the properties do not tell apart; when a report is out of date is in MobileViews and WebPages |
| signatures and calls of the payment providers | functions over bytes, and a service: Billing takes their result as an input |
| row-level security | enforced by PostgreSQL; the models keep tenants apart as the policies do |
| super-admin, authentication, onboarding and subscription pages of the web application, login and settings of the mobile one | forms that send one request, without lists |
| mails, notifications, logging, rate limits, health, configuration, desktop shell, infrastructure | no state that actors race for |
