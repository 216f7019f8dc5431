# A verification of the marketplace backend

TLA+ modules that model the stateful core of the marketplace (a modular
monolith in Go: `src/internal/<context>`, one PostgreSQL database, a process
for the API and one for the jobs), TLC runs that check small instances, and
theorems that the TLA+ proof system checks for every instance.

The first part is an inventory of the system, then come the modules, what is
checked and proved, what is not, and the plan.

## 1. The system

| context | state it keeps | operations | talks to | what is hard |
|---|---|---|---|---|
| ordering | orders; one checkout saga per order | place order, cancel, retry payment, resume; jobs: payment event, stalled, expire, compensate, complete; fulfilment | calls inventory, pricing, payment, cart; consumes `payment.authorized` | every handler is a chain of transactions and calls that may stop anywhere, and up to six goroutines may be inside one checkout |
| payment | payments, refunds, webhook log | create, capture, cancel, refund, webhook, reconcile | HTTP to the provider, events through the outbox | transaction, call, transaction: the row may have changed, the answer may be lost |
| sandbox provider | intents, refunds, stored answers, webhook attempts | intent, capture, cancel, refund, pay page, webhook delivery | calls the webhook of payment | check and store of the idempotency key are two critical sections; deliveries are repeated, late, lost |
| inventory | stock items, holds, journal of movements | set stock, reserve, commit, release, restore, expire | called by ordering and seller | several rows per command, locked one by one; a batch job over items, not reservations |
| pricing | promo codes with redemptions, promotions, prices | redeem, release, copy a price, compare-at, promotions, quote | called by ordering and cart; consumes offer events | limits under optimistic locking; rounding of a discount over the lines |
| cart | carts of users and devices | add, change, merge, remove ordered items, purge | asks catalog, inventory and pricing; called by ordering | two devices and the order at one cart; the preview and the order must agree |
| catalog | category tree, products, images, variant groups, offers, imports | define attributes, edit, submit, publish, upload and process images, import by a worker | events to search and pricing | parts read in several queries under a version of one row; stale imports are queued again |
| search | index tables A and B, offers, figures, reindex jobs | index a product, cover, offer, stock, seller; reindex and swap; search in pages | consumes events of catalog, inventory, seller | events during a reindex; no transaction around a handler |
| identity | accounts, sessions, challenges | register, confirm, sign in, refresh, revoke, block, roles | its worker consumes `user.blocked` | rotation of refresh tokens under concurrency; the block beside a refresh |
| seller | sellers with documents, members, bank account; commissions | open, edit, submit, approve, suspend, rate | events to search, rates to settlement | an edit beside a decision |
| settlement | one entry per order and seller | accrue, report | consumes `order.completed`, asks seller for rates | once, though the event is repeated and the rates change |
| shipping | none | quote a tariff | called by cart and ordering | nothing |
| shared platform | outbox, inbox, idempotency keys, breaker, advisory locks | relay, deduplicate, replay an answer, refuse calls, run a job in one process | used by all | order, attempts, back-off, late answers |

What makes each of them correct, in words: the *checkout* ends, either with
the buyer charged, the units sold and the promo code used, or with none of
it; the *payment* row never disagrees with the money at the provider, and
money is charged and returned at most once; the *inventory* neither loses nor
invents units, sells a reservation whole or not at all, and gives back what
is due; a *quote* is what the order adds up to, and a *cart* loses nothing
nobody removed; a *session*'s token is exchanged once and a block ends it;
what *moderation* publishes is what was submitted; an *import* ends once;
*search* ends up showing what is published; a *settlement* is made once; the
*platform* delivers every event after the change it announces, runs one
instance of a job, and lets a client repeat a request. `PROJECT.json` lists
the places in the code where these can go wrong under `hazards`, with the
properties that cover them.

## 2. The modules

```
   Reservation  <---- implemented by ----  Inventory
        ^  (INSTANCE: Stock)
   Checkout ---- (INSTANCE: Pay) ---->  Payment  <---- PaymentProofs
        ^                                                  ^  (INSTANCE: PP)
        +----------------- CheckoutProofs -----------------+

   Quota        <---- implemented by ----  PromoCode  <---- StorefrontProofs
   Delivery     <---- implemented by ----  Outbox     <---- OutboxProofs

   Inventory, Settlement (Seller)     <---- SupplyProofs
   Identity, Idempotency, Pricing     <---- StorefrontProofs
   Cart, Quotation (Calculator)       <---- CartProofs
   Catalog, Imports, Paging           <---- CatalogProofs
   Sums         <---- EXTENDS ----  SupplyProofs, CartProofs

   Lists        <---- EXTENDS ----  Cart, Calculator
   Calculator   <---- EXTENDS ----  Quotation
   Seller       <---- EXTENDS ----  Settlement

   MCStorefront = PromoCode | Identity | Idempotency | Breaker | Cart | Pricing | Quotation
   MCSupply     = Settlement (Seller) | Catalog | Imports | Search | Paging
```

### The checkout and the money

**Payment** is the payment context with its provider. A caller is a goroutine
in one of the four commands; `pc` is the place between two of its
transactions and calls (`initiate`, `intent`, `attach`, `load`, `lookup`,
`provider`, `commit`, ...), `cmd` what it was called with, and a result stays
in `pc` until `Return`. `pay`, `refund`, `outbox` are rows; `intent`,
`returned`, `left` belong to the provider, `exposed` says that a redirect URL
has left the marketplace, so that the buyer can use the pay page. `lookup` and
`provider` are two steps because the provider's own idempotency check is. A
fault is a lost call, a lost answer (the provider has acted), a delivery given
up or a caller that stops.

The provider delivers a webhook inside the buyer's request to the pay page
(`server.go:312`), one delivery after the other, and a delivery is known by the
number `left` with it. It is given up after five seconds (`LoseWebhook`), and all
that are left are when the buyer leaves (`BuyerLeaves`, `server.go:361`); `gone`
records this. The handler of a delivery that was given up may have committed
before it notices, or may be voiding: `handling` has such handlers, so that the
next delivery overlaps with them, and two late voids with each other. Amounts are not modelled: ordering captures the whole amount and asks
for refund amount 0, "all that is left", so a refund is of everything or of
nothing.

**Inventory** is one transaction per command: `want` are the rows its query
selected and it has not locked, `lock` the locks taken, in the order of the
sku; when it has all it reads the holds and applies the change to each item
(`Work`), or fails as a whole. The query of the expiry job precedes its
locks, so what it selected may have changed (`before` is what it saw). Stock
items are numbered in the order of their sku.

**Reservation** is the abstract specification: a reservation is one thing,
held, then sold, given back or lapsed, and only a sold one returns. One batch
of the expiry job may lapse several at once. Inventory
implements it (`KeepsContract`, refinement mapping `StateOf`), and Checkout
uses it in place of Inventory. The state a client cannot see, a hold that
lapsed on one item and was given back on another, maps to "lapsed".

**Checkout** is the checkout of one order. Workers are goroutines; `Roles`
says which handlers one may run, so that an instance can be the buyer beside a
single job goroutine or jobs that overlap. `at` is the step of the handler: a
step is one transaction of ordering (with the row locks of order and saga), one call to
inventory or pricing, or the start or the answer of a payment command, whose
own steps are those of an instance of Payment with `Callers <- Workers`. What
a handler read and keeps while others run is explicit: `doing` is the
compensation it read from the saga, `subject` the payment it is about. A
trouble is a call that fails, a lost answer or a worker that stops between
two steps; the stopped handler's work is left to the jobs. `late` is the deadline of
the payment, which is the end of the reservation's TTL as well (both 20
minutes).

**PromoCode** is the row of a promo code with its redemptions, and sessions
that each run one command in one transaction at the level read committed. Each
query is a step and sees what is committed by then; `seen` and `usage` are
what a session has read and keeps. Nothing is locked before the row is saved,
and `Save` succeeds only if the version is the one read first: that is all
that protects the limits, of which one is counted from another table. A
redemption may be refused at any time (`RollBack`), which stands for the
period of the code, the smallest cart and failures.

**Quota** is what it implements (`KeepsQuota`): a use is taken or given back
in one step, within the limits, and taken only while the code is active.

**Outbox** is the relay of each worker process, the dispatcher and the inbox. A relay
(`at`) is idle, dispatching a batch, inside a handler (`handle`) or
about to commit the pair of consumer and event (`commit`); `lock` is the
advisory lock of its transaction. `batch`, `tried` and `failed` are the local
variables of `Publish`. A relay whose connection is lost (`Disconnect`) loses
the lock and goes on dispatching what it has fetched, beside the relay that
gets the lock next; only the insert into the inbox keeps the two apart. A
handler that has succeeded and whose inbox transaction does not commit is
called again: `handled` may be ahead of `inbox`, so that a handler has to bear
repetition, as those of Checkout do.

**Delivery** is what it implements (`KeepsDelivery`): every pair is received
once, and an event is published when all its subscribers have received it.

### What serves the customer

Each of these modules has the same form: a request is a goroutine in one
handler, and each query and each commit of it is a step at the level read
committed. Nothing is locked; a save succeeds if the version of its one row
is the one that was read. What a request has read and keeps is explicit.

**Identity** (`op`, `at`, `user`, `session`, `challenge` of a request) has
accounts with their roles, the one challenge by which an e-mail is confirmed,
and sessions. A refresh token is a number; `tokenOf` is what a session
accepts and the tokens before are kept, so that reuse is recognised.
`exchanged` records which token was given for which. The worker that ends
the sessions of a blocked user lists them and then revokes them one by one.

**Idempotency** is the middleware: an attempt upserts the row of its key
(`begin`), loads the row that was in its way (`load`), runs the handler and
completes or releases the row. A handler may change state and still answer
with a refusal, as `PlaceOrder` does when the redemption of the promo code is
refused after the order was saved, or with an error. `ttls` counts rows that have outlived their day.

**Breaker** is the breaker around the provider's calls. The mutex makes
`acquire` and `release` atomic; calls run outside and end in any order.

**Cart** has the cart of a customer and of devices. A command asks the
catalog and the stock first and then reads, changes and saves the cart;
merging saves one cart and deletes another in one transaction.

**Pricing** has the price of an offer that follows the events of the catalog,
the seller's compare-at price, and the life of a promotion.

**Calculator** is the price calculator, operators without state: rules
applied one after the other or exclusively, the promo code and the spreading
of its discount over the lines (`Shares`). **Quotation** has the two ways
from a cart to a quote: `Assemble` is the preview with its statuses, issues
and shipping, `Draft` the order of `PlaceOrder` with its parts by seller. A
behaviour is one preview and one order in an unchanged world, of which the
instance enumerates 2160 (items, offers, stock, prices, promotions, codes).
**Lists** has what several handlers do with a slice: keep some of its elements
in their order (`Keep`).

### What serves the sellers and the search

**Seller** is the life of a seller from application to termination with what
is reviewed (`submitted`), documents, bank account, members, rating and
commissions. A command reads the row and then its children, two queries.
**Settlement** extends it by the entries: a worker asks for the rate of every
item and then writes one entry for each seller in one transaction.

**Catalog** is the category tree with inherited attributes, products with
moderation and images, and groups of variants. `ancestors` of a category
stands for its materialised path, from which `Chain` and `Below` are read. `submitted`, `announced` and
`answered` record what was submitted for moderation, which cover the events
named last and which changes of a group were answered. The worker that
processes images renders between two transactions. The client may put another
object in place of the one it confirmed, as long as the URL is good, and what
the probe of the first half megabyte accepted may not be decodable (`broken`):
then rendering fails. A failed attempt, by rendering or a conflict, counts in
`attempts`, and for those events of the same product that were fetched with it
and blocked; at `MaxAttempts` (ten in the code) the event is fetched no more.

**Imports** has the offers of a seller and import jobs. A worker is the relay
at the event of a job; it may lose its relay transaction and work on, and the
job is then queued again beside it. Rows are transactions of their own.

**Search** has the two index tables and the view that shows one of them, the
figures by product, the handlers of the events, statement by statement, the
reindex job with its steps (truncate, scan a batch, save its documents one
by one, swap the view, swap the state). The relay runs one handler at a time; an
event whose handler has failed waits (`failed`) while later ones of its aggregate
may be handled, and what is handled late overwrites what is newer (`outdated`).
A change of a product takes its time before its transaction (`support.go:213`),
so that one that was on its way when a reindex started (`lagging`) and commits
during it is older, by `updated_at`, than what the second round looks for
(`missed`). Search has one `RECURSIVE` definition, so that no theorem is stated
about it.

**Paging** is a reader who turns the pages of a result, by keyset: what each of
the five orders compares (`SortKey`), what its cursor holds of the last row
shown (`EncodeCursor`) and what the query for the next page compares with it
(`KeysetKey`), three things the code says in three places. The index stays as
it is meanwhile, so that it needs nothing of Search.

### The two composites

These components share no state that the models would show, and each has one
or more small instances. `MCStorefront` and `MCSupply` put them side by side:
a behaviour begins with the choice of an instance, `focus`, and takes the
steps of that instance only, so that each composite is the union of the
behaviours of its instances and not their product. A property of a composite
names those of the instances; a behaviour with another focus leaves their
variables alone. `MCStorefront` extends `PromoCode`, `Idempotency`, `Pricing`,
`Identity`, `Cart` and `Quotation`, and `MCSupply` extends `Catalog`, `Imports`,
`Paging` and `Settlement` with `Seller`, so that what is proved of these modules
(`KeepsQuota`, `DoneOnce`, `PricesKept`, `SecretsSpent`, `ItemsKept`,
`OrderKeepsQuote`, `ReadyIsAccepted`, `CatalogHolds`, `FinishedOnce`, `PagesOnce`,
`ApprovedAsSubmitted`, `AccruedOnce`) is checked there on the very definitions
that are proved.

### External parts and variants

Two parts are external to the source and modelled by how it uses them: the
buyer at the pay page, and database row locks.

Definitions with a comment that starts with "Faulty:" are not part of any
specification. Each is a variant of the definition that follows it with a
plausible mistake, and `PROJECT.json` ("mutants") says which property catches
it. They show that no property holds by the shape of the model alone.

### How time and scheduling are modelled

Nothing depends on the length of an interval, so none is modelled: a job may
come at any time and between its query and its work anything may happen; the
back-off of a compensation or event (in Outbox: `waiting`) and the five minutes after which a
checkout counts as stalled may elapse at any moment. This allows more than the
code, so that safety carries over. The limit of ten attempts of an event is in
Outbox (`MaxAttempts`) and not in Checkout: Checkout
assumes, for liveness, that an event is delivered until its handler succeeds,
which `EventsArrive` grants as long as fewer calls fail than there are attempts.

Fairness is assumed of what the process does by itself: a started handler or
command goes on, unless it stops, which is a bounded trouble (weak fairness);
the provider goes on delivering a webhook (weak); the clock reaches the
deadline, and the expiry job of inventory runs (weak); the relay, the stalled,
the expiry and the compensation job take a checkout again and again that is in
their query (strong, since another worker may have the saga at the moment: in
`cmd/worker` each job runs on a ticker for ever). In Outbox every relay
goes on and polls again after it rests, and a back-off ends (weak). In Inventory a waiting
session gets a row lock that becomes free again and again (strong: PostgreSQL
queues waiters). In the storefront and supply instances the worker's handlers go on (weak) and
the relay delivers an event whose handler has failed again (strong, in
competition with other events; of an image, until its attempts are used up); a call to the provider ends, since it has a
timeout, and the breaker's cool-down passes; a stale import is found by its
job. Nothing is assumed of people: buyer, seller and support may
never act.

`CHECK_DEADLOCK FALSE` in the checkout's runs: a checkout that is settled has
nothing left to do; so in Outbox and the composites, where bounds end what
can happen. Payment and Inventory are checked for deadlock.

## 3. What the runs show

| run | instance | shows |
|---|---|---|
| `payment` | 1 payment, 2 refund ids, 2 callers, 3 deliveries, 2 faults | `LedgerAgrees`, `CancelReleasesHold`, `RefundedOnce`; `ApprovalArrives`: fewer lost deliveries than attempts do not lose the approval of a buyer who stays |
| `inventory` | 2 items, a reservation of both and one of the first, 2 sessions, batch of 1, 1 fault | `StockAddsUp` (quantities agree with holds and journal, a reservation is resolved whole), `KeepsContract` (implements Reservation), `HoldsSettle` (no deadlock on row locks; the bounded batch starves nobody) |
| `checkout` | buyer and support beside one job goroutine, promo code, 1 trouble, 1 payment fault | `CompletedMeansPaid`, `CompensatedSettles`, `OrderMatchesSaga`, `UsesContexts` |
| `checkout_retry` | a buyer who replaces declined payments from two devices, 3 payments, 1 trouble | `AuthorisationsSettle`: the approval of a superseded attempt is voided, if its webhook arrives (no webhook is lost in this run) |
| `checkout_jobs` | event relay, stalled, expiry and compensation job in four goroutines, beside the buyer who places and cancels | `CompensationIsFinal`: after the compensations, no slower goroutine takes units, money or the order again |
| `checkout_live` | buyer beside jobs, 4 compensation attempts, 1 trouble | `Settles`: checkouts end, units are not held for ever |
| `outbox` | 3 events of 2 aggregates, 2 consumers, 2 relays, batches of 2, 2 attempts, 2 failing calls, 1 lost connection or stop | `OnceOnly`, `OrderedUnlessFailed`, `EventsArrive`, `KeepsDelivery` |
| `storefront` | 8 instances, see below | `SecretsSpent`, `BlockEndsSessions`, `DoneOnce`, `ProbeEnds`, `ItemsKept`, `PricesKept`, `KeepsQuota`, `OrderKeepsQuote`, `ReadyIsAccepted` |
| `supply` | 12 instances, see below | `ApprovedAsSubmitted`, `AccruedOnce`, `CatalogHolds`, `ImagesProcessed`, `FinishedOnce`, `ImportsSettle`, `IndexCatchesUp`, `PagesOnce` |

The instances of `storefront`:

| `focus` | instance |
|---|---|
| `promo` | orders of two buyers, two of them of one, limits 2 in total and 1 each, 2 sessions |
| `accounts` | an account and a session, 3 refresh tokens, a customer on one goroutine beside support and another device on a second; the revoking worker is one of them |
| `keys` | 3 attempts of one key with 2 bodies, 1 failure, 1 row that outlives its time |
| `provider` | 4 calls, breaker that opens after 3 failures: one each for before, during and after a probe, and one more |
| `carts` | an item in the customer's cart and another in a device's; merge or add beside every other command |
| `offers`, `campaigns` | one offer with 3 prices of 2 currencies, one promotion with 2 contents; 2 requests |
| `quotes` | 2160 worlds: up to three lines of two sellers, scarce stock, zero prices, exclusive and stacked rules, percentage and fixed codes |

The instances of `supply`:

| `focus` | instance |
|---|---|
| `moderation` | a seller who edits, attaches and submits beside a moderator who decides; metrics bad enough to suspend |
| `accruals` | an order of 3 items of 2 sellers, 2 workers, a lost relay, rates that change meanwhile |
| `tree`, `moderated`, `variants` | attributes defined and removed in a tree of two; a product edited beside moderation and the image worker; variants of two groups added and removed |
| `photos` | a product with two images, whose author confirms, puts again, reorders and removes them beside the worker; decodable objects or not, 2 attempts |
| `jobs`, `offers` | a file of 2 rows of one seller SKU, 2 workers and a stale job; 2 clients who change the offers being imported |
| `index`, `rebuild` | 2 products and a reindex beside events; 1 product and two reindexes of which one may fail |
| `feed` | an offer with its stock and seller, 1 failing statement, later events that overtake |
| `reader` | 3 products, each with one of 6 combinations of price, offers, date and rank, 5 orders, pages of two |

The bounds. Two callers (workers, requests) are enough for a pair of handlers
to interleave, and every hazard listed is one of a pair; `keys` and the catalog
have three, `checkout_jobs` five. That run injects no failure: the goroutines
fail anyway where a payment or a reservation is no longer what they expect.
One payment suffices in `payment`, since payments share nothing but callers;
the theorems hold for any number. Two reservations, of both items and of the first,
are the least with sessions that wait for each other's rows, with a reservation that two batches take
in parts, and with a batch that takes such a part together with the whole of another. Three payments are the least with two retries that race after a
declined attempt. One trouble in the checkout is a stop, a failed call or a
lost answer at each step there is. With four
attempts one trouble cannot use up the compensation's attempts, which is what
`checkout_live` asks; with one or two the saga reaches `manual`. Transactions
that begin at versions 1 to 4 of a promo code are enough for it to be filled up, emptied and
filled again while two sessions read it. In `outbox` the two failing calls
can use up the attempts of an event, and a batch of two leaves out one of three due events.
`MaxVersion` in the composites bounds how often a row is saved before no new
command begins on it, one that has begun goes on: enough for each of two
requests to save between the other's read and save.

`UsesContexts` is the link between the modules: every step of Checkout is a
step of Payment and of Reservation, or leaves them alone. Payment lets a
caller be started only on a payment nobody else is creating; that
Checkout never creates one payment twice at a time, though its id is chosen
before and `RetryPayment` can run twice, is what has to be checked. With it
the theorems about Payment hold of the payments of a checkout, and what
Inventory is checked for holds of its reservation.

`OrderMatchesSaga` has two parts: a closed order means a saga that compensates
or has compensated, and an order to be shipped is paid for and its units
sold. It is checked with one job goroutine, where it holds; with two the
second part does not (finding on `complete` below).

What some properties leave out, and why: `ApprovalArrives` asks nothing when
the buyer leaves the pay page during a delivery; `ImagesProcessed` nothing of
an image whose event has used up its attempts; `EventsArrive` nothing of an event
that has, though it may never have been handled but only blocked by another
(half of the hazard at `relay.go:151` is stated and not excluded);
`IndexCatchesUp` asks for the right
cover only if no batch of the rebuild was overtaken and no event handled after a
later one, for a product only if no change of it was on its way when the rebuild
started, and for figures only of offers that search knew of before their
stock and of which, as of its seller, no event was handled late; that a
rebuild takes nothing from the
results is asked of `index`, with one job and no failure; `CodesUnique` asks
nothing when two definitions of one code overlap on a path; `PagesOnce` asks
nothing of a search by price with unpriced products, nor of one by offers for
words that rank the products differently, and the second search with corrected
words (`search.go:97`) is outside Paging; `CompensatedSettles`
allows money to stay when the refund is recorded as failed. Each of these is
something the code does not do; they are listed below.

### Where the code disagrees

Each has a run that TLC must find violated, and an entry in `findings`.

| run, property | what happens |
|---|---|
| `checkout_refund`, `MoneyBack` | a refund that failed is answered without error when it is repeated under its id, so the compensation counts it as done and the buyer stays charged (`payments.go:302`) |
| `checkout_overlap`, `ShippedIsKept` | two goroutines in `advance`: the slower finds the order shipped, takes that for a failed checkout and refunds a shipped order (`progress.go:117`) |
| `cart_currency`, `OneCurrency` | an emptied cart keeps its currency; a device's cart in another currency is absorbed into it, and items of the first are accepted beside those (`cart.go:143`) |

Three configurations beside the runs show further disagreements in the same way:

- `MCCheckoutPromo.cfg` (of `MCCheckout`), `PromoBack`: the promo code is
  redeemed after the compensation released it and the buyer has lost the use
  (`place_order.go:237`; `checkout_test.go:282` expects none left).
- `MCOutboxOrder.cfg` (of `MCOutbox`), `InOrder`: an event written while an
  earlier one of its aggregate is in back-off, or has used up its attempts, is
  fetched without it and handled first (`relay.go:150`; `dispatcher_test.go:118`).
- `MCOrderTotal.cfg` (of `MCStorefront`), `PreviewTotalHolds`: the preview of a
  cart adds no shipping for a seller whose part costs nothing, the order does
  (`cart/application/view.go:228`, `place_order.go:185`; `marketplace.v1.yaml:2883`).

Two definitions state what does not hold and are in no configuration:
`ImportEnds` of Imports (a job that is queued again gets no event, so no worker
takes it up again: `process_import.go:291`) and `PromoSpreads` of Quotation
(the last line may get a share larger than its price, and the quote fails with
a negative amount: `calculator.go:163`).

Seen while modelling:

- *Checkout and stock.* `CompensationFailed` does not look at the saga's
  status (`saga.go:209`), so that a failure recorded late takes a saga that
  support has resumed, or that another worker has compensated to the end, to
  `manual`. A payment created after `settlePayment`
  found none stays pending without a URL that anyone knows; it holds nothing.
  An item filled up to the limit of a quantity makes every expiry batch it is
  in roll back (`stock_item.go:230`). `SetStock` under a known key sets the
  stock and writes no movement
  (`inventory/infrastructure/postgres/repositories.go:153`).
- *Identity.* A refresh token that races its own rotation is answered with a
  conflict and does not revoke the session as reuse does. A sign-in whose read
  of the account precedes a block leaves an active session behind; the refresh
  that follows ends it.
- *Idempotency.* After a crash a key stays in progress until its day is over;
  an attempt that outlives its row completes the row of another.
- *Cart and pricing.* Items added again between the checkout's read and
  `RemoveOrdered` are removed too. An offer's events applied out of order after
  a retry leave the older price. A code with its smallest cart in another
  currency makes the cart impossible to show.
- *Payment.* The provider's deliveries run in the buyer's request, so that a
  buyer who closes the pay page after approving leaves the payment pending:
  the deadline then cancels it.
- *Catalog.* An image whose object cannot be decoded, though its header can, stays
  uploaded when its attempts are used up, and may take those of the product's other
  images with it. Two overlapping definitions of one code, above and below, are both
  saved. A group keeps the axis values a product had when it was added.
- *Seller.* Approval and verification act on the bank account current at the
  commit. Imports of a suspended seller go on.
- *Search.* An offer's event that is retried after a later one puts the old
  status and price back, since `SaveOffer` compares nothing (`index.go:126`). A
  product published by a transaction that takes its time before a reindex
  starts and commits after the first scan has passed it is in neither round
  (`reindex.go:79`). A reindex whose second update fails between the swap of the view
  and that of the state, or a second reindex requested beside the first,
  truncates the table being shown. A crash leaves a reindex running for ever.
  A late copy of a batch overwrites a newer cover. The stock of an offer that
  search does not know yet is dropped. The price of a product without a price
  is 0 in a cursor, so that such products are repeated by the next page. The
  order by offers compares the rank before the id, and the condition on the
  next page does not (`read_model.go:126`), so that a search for words in this
  order may repeat a product or skip it.

## 4. What is proved

`PaymentProofs` proves the type invariant and the five safety invariants of
Payment for every set of payments, refund ids and callers and every number of
deliveries and faults, from `PaymentAssumption` alone (None is not an id, at
least one delivery).

The invariants are not inductive: that a row is captured only if the provider
has charged depends on what the capturing command saw before its second
transaction. The inductive invariant is

    IInv == TypeOK /\ CallOK /\ PayOK /\ RefundOK /\ OneCreator /\ StepOK

- `CallOK(c)`: operation and label of a command fit together, and it is about
  a payment (and refund) that exists;
- `PayOK(p)`: how row, intent, exposure and outbox of a payment go together. The core
  is that an intent whose URL has never left the marketplace cannot be
  approved, so that cancelling without asking the provider is sound just then;
- `StepOK(c)`: what a command in flight may rely on at each label, the
  facts established by its earlier steps that no other step takes back;
- `OneCreator`: one creation of a payment at a time, without which a second
  creation could expose an intent that the first one's cancellation passed by;
- `RefundOK(p)`: at most one refund of a payment is outstanding or paid.

The argument is assume/guarantee: `Stability` collects what no step of anybody
takes back, `OthersKeep` derives that a step of one caller keeps `StepOK` of
the others, `MoverEstablishes` that it establishes its own at the next label.
`TypeInvariant`, `PayInvariant`, `RefundInvariant` and `OneCreatorInvariant` are the
other conjuncts, one step per action. `Inductive` and `Initially` give
`Invariance`, `Consequences` the listed invariants.

`CheckoutProofs` proves every invariant of the run `checkout`, and that the
handlers use payment and inventory as these assume (`UsesContexts`), for any
workers, roles, number of payments, attempts and faults (`CheckoutAssumption`). It
rests on PaymentProofs, of which it takes an instance `PP` for the payments of the
checkout (`SamePayment`: the operators of `PP` are those of `Pay`). Neither half of

    IInv == CInv /\ PP!IInv

is inductive alone: the payment context keeps its invariant because its
callers create a payment once and hand its URL out only while nobody cancels it
(`PayMoves`, from `NoCreator` and `NoCanceller`), and the handlers rely on what its answers
and rows mean (`PayFacts`) and on what it never takes back (`PP!Stability`,
`PP!PendingKept`, `PP!ChargeKept`). `CInv` has, for each worker, the command it
waits for (`CommandOK`) and what it may rely on while it places the order (`PlaceOK`:
it is alone with its payment), compensates (`UndoOK`: the compensation it
has read, and its effect once executed) or retries (`RetryOK`: no two
retries share a payment); and for the saga, what a recorded step has
achieved as long as the saga has not turned (`ProgressOK`) and what a recorded
compensation has achieved for good (`DoneOK`). A step is recorded after the call
it stands for, by whichever worker comes first, so that `ProgressOK` speaks of the
step and of all workers on the way to it. From it follow
`CompletedMeansPaid`, `CompensatedSettles` and that a closed order never has a saga
that still runs (`ClosedAlwaysCompensates`).

The other half of `OrderMatchesSaga`, that a paid order stays charged and sold, is
proved under `OneAdvancer`: of the workers only one runs the event and the stalled
handlers. The run `checkout` has this assignment of roles. It is a hypothesis and
no assumption of the module, because the worker process does not guarantee
it: the run `checkout_overlap` lets two advance and shows an order refunded after it
was shipped (a finding). The theorem says that nothing else can do that: no
cancellation, expiry, retry, support or crash. `AbortOK` is why: a worker that may
abort has not seen the checkout complete, and the only one that can complete it
meanwhile is itself.

`StorefrontProofs` has the proofs for promo codes and for idempotency keys. It
proves `UsedIsCounted`, `LimitsHold` and the refinement of Quota
for any orders, limits and number of sessions (`PromoCodeAssumption`). The
invariant `SeenOK(s)` says that a session whose version still stands has
read what is there, the count of the customer's redemptions included, because
whoever changes a redemption moves the version on: `OthersKeep`. `RedeemTakes` and
`ReleaseGivesBack` are the two visible steps, `TakingCounts` and
`GivingBackCounts` what they do to the cardinalities.

`OutboxProofs` proves `TypeOK`, `OnceOnly`, `OrderedUnlessFailed` and the refinement
of Delivery for any events, subscriptions, relays and limits (`OutboxAssumption`:
ids are natural numbers). `RelayOK(r)`: what a relay has fetched is there, while it
has the lock nobody else has recorded it, and a pair it has tried is in the
inbox or its event has failed. `PublishedOK`: all subscribers of a published
event have registered it. For the order, `OInv`: a batch misses an earlier
event of the aggregate only if that is published or has failed before
(`FirstOfIsInitial`: a batch is an initial part of what is due), so that a
pair that is called next comes after all the earlier ones (`CurrentIsNext`).

For Inventory, `SupplyProofs` proves that a reservation is whole (`AllOrNothing`), that
sessions never wait for each other in a circle (`NoWaitCycle`), and the
refinement of Reservation, for any finite set of items and any reservations and sessions
(`InventoryAssumption`: skus are numbers, in the order in which rows are
locked, and a reservation has a line). The invariant is

    IInv == Typed /\ (\A w : RowsOK(w)) /\ (\A r : HoldsOK(r))

`RowsOK(w)`: a session about a reservation has locked, or waits for, exactly
the rows of its lines, and waits for later ones than it has; `HoldsOK(r)`: only
the expiry takes lines of a reservation apart. Of the sessions that hold a row
that somebody waits for, the holder of the last such row can go on. For the
refinement, `ReserveTakes`, `ResolveMoves` and `ExpireLapses` are the visible
steps; a batch maps to the lapse of all reservations of which it takes the
first line, and to a stutter when it takes the rest of some.

The quantities have an invariant of their own, `QInv`: what is reserved of an
item is the sum of its holds (`QuantityOK`), a sum over a set of any size. The
facts about such sums are in `Sums`: what `SumFunctionOnSet` of the community
modules comes to with one element less (`SumWithout`), split in two
(`SumOfParts`) or of two summands each (`SumOfSums`), and that it is a number
(`SumIsNat`), for any finite set. The library's induction theorems are out of
reach here, since they take a predicate as an operator; `SubsetInduction`
states induction over the subsets of a finite set with the *set* of those for
which something holds instead, and `AddsUp` gives the recursive definition
under the fold its one equation. Each step then balances (`ReserveMoves`,
`ResolveMovesUnits`, `ExpireMoves`, `SetMoves`). The result is `TypeCorrect`,
`ReservedAlwaysHeld`, and `StockAlwaysAddsUp` under the hypothesis
`ClientKeys = {}`: when a seller repeats a key, `SetStock` sets the quantity
again and the journal refuses the movement, so that the two part
(the hazard at `repositories.go:153`).

For Identity, `StorefrontProofs` proves that a refresh token is exchanged once, with no
assumption, and that no challenge is guessed at more often than allowed, if
that is a positive number (`SecretsSpent`). A token is in one place:
the session that accepts it, the request that has just generated it, or the
past (`DigestsOK`, `RequestOK`, `Apart`); a request has read the session as it is or at
an older version, with which its save is refused. The second invariant,
`CountInv`, says the same of the challenge, whose row counts the guesses as
long as an account is registered by one request at a time (`Alone`).

For Idempotency it proves `DoneOnce` for any keys, bodies and attempts: as
long as no row has outlived its day, an attempt that is in its handler, or
whose work stands, is the one its key's row belongs to (`OwnersOK`); and an answer
that a row stores is one an attempt was given for its work (`StoredOK`). It
also proves the type invariant of Pricing and the action property `PricesKept`,
for any SKUs, promotions, events and requests (`PricingAssumption`: amounts are
natural numbers). `ReadOK` says that
a command has read the row as it is or at an older version. The methods of
the aggregate (`SyncedIsOK`, `ComparedIsOK`, `ChangedIsOK`) keep a row's
compare-at price above its price, and a save at an older version is refused, so
that what a command decides is a step of the row as it is.

`CatalogProofs` proves the type invariant of Catalog and `CatalogHolds`: what is
published is what was submitted, the cover announced last is the cover, a
group has what was added to it, and a product's category has a schema. It does so
for any tree, products, images, groups, requests and bounds (`CatalogAssumption`:
a category is created under a category, and the contents of a request are what
its parser lets through). The invariant is

    CatalogInv == RequestsOK /\ CategoriesOK /\ ProductsOK /\ GroupsOK

- `CategoriesOK`: an existing category is under an existing parent and on its
  path, and of two categories on one path one is above the other (`PathOK`). A
  request that defines an attribute has seen none of its code above and, after
  its second query, none below (`CategoryCall`), unless two definitions have
  overlapped (`raced`): without that exception the code would not keep
  `CodesUnique`, which is why `CatalogHolds` makes it.
- `ProductsOK`: of the parts a request has read in several queries, those read
  at the version the row still has are the row's; a product that is being
  inserted is inserted by one request (`InsertsApart`).
- `GroupsOK`: the same of the members of a group, and a group has what was
  answered.

`ProductSaved`, `CategoryChanged` and `GroupSaved` say what one save does to all
other requests, which is that it makes their versions stale; each operation is then
a lemma of its own. The work is in the tree: that a category inserted under a
parent read before (`CategoryCreated`) and an attribute saved after its queries
(`ChangesCategory`) leave every path with one definition of a code.

It also proves `FinishedOnce` for any jobs, files and workers, if a file has a
number of rows (`FilesHaveRows`). `HeldJob`: what a worker has of a job is
what is in the table, in progress, or an older version of it; so that of two
workers at a job that was queued again only one can end it. And it proves
`ArchivedStays`, with no assumption: no import that found an offer before it
was archived, and no request that read it before, changes it or brings it
back. `OfferSeen`: what a row or a request has of an offer is the offer, or an
older version of it; `RowOK` adds that a row is about an offer that was for sale.

For Seller, `SupplyProofs` proves the action property `ApprovedAsSubmitted` with no
assumption. `RowOK(c)`: the row a request has read, whose children came from a
second query, agrees with the seller in all a decision is about, or is
older than the seller and cannot be saved. `Methods` collects what the methods
of the aggregate may do to a row, `Commits` is the only step that matters.

It also proves the type invariant of Seller (`TypeInv`: what a request has read
and was asked has its type, too), for which a rating must have a score
from 0 to 100: `RatioBounded`, `StarsBounded` and `MeanBounded` bound the parts
of `Calculate` and their weighted mean, and a weighted mean is defined because
`SellerAssumption` says what the code validates: rates are basis points, and
of the weights, none of them negative, some count.

For Settlement it proves `SettlementTypeOK` and `AccruedOnce`, for any
orders, items, workers and faults, and whatever the seller context does meanwhile
(`SettlementAssumption`: an order has items, whose amounts are natural
numbers). The invariant is

    SettledInv == TypeInv /\ SettlementTypeOK /\ (\A w : WorkOK(work[w])) /\ EntriesOK

`WorkOK(q)`: what a worker has added up for a seller is what is owed for the items
it has asked about (`OwedBefore`), and the commission so far does not exceed it,
since that of each item is a part of its amount (`CommissionBounded`) at whatever
rate was in force then (`RateBounded`). So nothing that `Accrue` is called with is
refused, and a net amount is not negative. `EntriesOK`: an entry has the whole of its
seller's part, a handled order has an entry for each of its sellers.
`SavingWrites` is the visible step, `EntriesStay` what it leaves alone, and
`ReportAddsUp` sums the entries of any number of orders.

For Paging, `CatalogProofs` proves `PagesOnce`: turning the pages shows every
product that matches once and in the order asked for, for any products with
any figures and any length of a page, where the cursor says all that the order
compares (`Comparable`). There the comparison with a cursor is the one with its
row (`CursorTells`), and the order is one (`PrecedesTransitive`); so what has been
shown is in order and what is left is what comes after the last row shown, for
which the cursor stands (`PagesInv`). `PagingAssumption` says that figures are
natural numbers, that a page has a row at least, and that a missing cursor is
not a cursor.

`CartProofs` has three parts, for the cart and for what becomes of it.

*The cart.* It proves the action property `ItemsKept` (no request loses what
another has put into a cart: a line goes only by a command that names it, by a
merge that takes it over or has a reason to leave it out, or with a cart that has
expired), that a cart has one line of a SKU (`CartLines`) and the type invariant,
for any SKUs, devices, requests, limits and versions, if a customer is not a
device and quantities are natural numbers (`CartAssumption`). The invariant is

    CInv == CartsTyped /\ CartsKnown
                /\ (\A r : Commanded(request[r]) /\ RowsSeen(request[r]))

`RowsSeen(c)`: the cart a request has read, and the device's cart for a merge, is
the one that is there, or has an older version, or has been deleted; in the last two cases
its save is refused. `CartsKnown`: the id and the version of a cart have been given to it, so that
the next id is new. That a cart's methods keep its lines apart rests on what
they do to slices: `KeepPicks` says which elements `Keep` leaves, `AbsorbsLines`
what a merge makes of two carts, line by line.

*The quote.* A rule takes something between nothing and what is left of a line
(`DiscountBounded`, `ReduceBounded`, `LineFinalBounded`), a promo code between
nothing and the subtotal (`PromoDiscountBounded`). The shares of the lines add up
to the discount, however they are rounded, because no line takes more
than is left and the last takes the rest (`SharesAddUp`); a quote in which the
rest is more than the last line costs is refused. Sums over a sequence and over the sets of lines of each seller meet in
`TotalsAddUp`, by `SumOfClasses` of Sums.

*Preview and order.* It proves `OrderKeepsQuote` (an order, added up seller by
seller, has the total and the discount of the quote of its cart, its code accepts
the sum it is checked against, and gives what it promises of it),
`ReadyIsAccepted` (what the preview calls ready is not refused by the order)
and that no amount is negative (`QuotationTypeCorrect`), for any
worlds in which the code can be: `QuotationAssumption` says what a cart has
(`CartLines`), what `DiscountSpec.validate` and `CreatePromoCode` let
through (`IsRule`, `IsPromo`) and that prices and quantities are natural
numbers. `QInv` says that preview and order are what `Assemble` and `Draft` make
of the world; the preview's items are the cart's with what the catalog says
(`PreviewItems`), and if none has an issue, then what it quotes is all the order quotes (`QuoteIsOrdered`, `ReadyIsQuoted`).

A fold has a defining equation but no theorem to unfold it here, so Sums proves one for
both kinds the model uses (`FoldsExist`, `LeftFoldRuns`): the fold is the last of a
list of intermediate results, each made from the one before. An invariant
of that list, by induction over its positions, then is a fact about the fold.

The properties proved of the components of the two composites are those that
`storefront` and `supply` check on their instances; the theorems are about the
specification of the component itself.

Only model-checked: Breaker and Search; the type
invariants of Idempotency, Identity, Imports, Breaker and Search as parts of
`StorefrontTypeOK` and `SupplyTypeOK`; and liveness, which is out of this
prover's reach.

## 5. What is not modelled

- Amounts, currencies and partial captures or refunds of payments; saved
  payment methods; the reconciliation report, which changes nothing; signatures.
- Refund webhooks, which payment handles and the sandbox does not send.
- `ReturnStock`, `StockItem.ReturnUnits` and `StockItem.Restock`: no caller.
- Several orders sharing items or a promo code in Checkout: items are
  Inventory's, the limits of a code PromoCode's.
- The deletion of outbox and inbox rows after a week.
- The quote beside a change of prices, stock or cart: preview and order each
  read once and an order is what it was quoted at placing.
- Overflow of amounts of 64 bits; the period of promotions and codes.
- The ranking and text search, facets, filters and suggestions: PostgreSQL's.
- Password hashing, mail, the parsing of an import's file, image rendering.
- The rate limiter: one atomic script in Redis.
- Queries that change nothing, HTTP, authentication of a request,
  configuration, object store, audit, metrics, the wiring of the processes: pure I/O.

## 6. Plan

Done: the checkout with its contexts, promo codes and delivery with abstract
specifications and proofs; identity, idempotency, breaker, cart, pricing and
quotes; sellers, settlement, catalog, imports, search and its pages; the proofs of part 4.

What is left, in order:

1. **Pool**: the worker's connections. A job holds one for its lock and needs
   another, the relay up to three; the least `DATABASE_MAX_CONNS` with which
   they never wait for each other for ever.
2. Proofs for Breaker and for the index of Search, after its one recursive
   operator is written as a function.
3. An abstract specification of the checkout as one decision (complete or
   undo) that Checkout refines, and of a session as a chain of tokens.
4. A composition of the order with the settlement and of offers with search
   through Outbox instead of an abstract queue.

## 7. Running

    tlc -config MCPayment.cfg MCPayment      # and the other runs of PROJECT.json
    tlapm PaymentProofs.tla                  # and Sums and the other modules that end in Proofs
