# CatalogSync: a TLA+ model of the marketplace's write side, saga, projector and cache

CatalogSync (`src/`) is a multi-vendor marketplace: vendors keep listings and
stock in a Postgres write side, buyers place orders that span vendors, a
projector copies changes into a denormalised view, and catalog queries read
that view through a Redis cache. This directory models the parts whose
correctness depends on the order of steps of several processes, checks the
models with TLC on small instances, and proves for every instance, with TLAPS,
the safety properties of stock, saga, marketplace commands, projector and cache,
that the saga keeps its abstract all-or-nothing promise, and that the view is
an abstract read model of the listings (section 6).

Paths below are relative to `src/src/` unless they start with `docs/` or
`prisma/`, which are under `src/`.

## 1. Inventory

| Component | State | Operations | Talks to |
|---|---|---|---|
| Order coordinator (`ordering/order-saga.service.ts`) | local lists of one `placeOrder` call; rows of `customer_orders`, `vendor_suborders`, `saga_steps` | check cart, insert order, reserve per vendor, confirm or compensate | inventory table, order tables; the sweep only through these |
| Sweep (`ordering/saga-reconciliation.service.ts`) | `isSweeping`, a snapshot of stuck orders | read stuck orders, release, roll back, fail | same tables |
| Inventory table (`common/db/write-db.service.ts`, `prisma/migrations/0001_init/migration.sql`) | on-hand and reserved quantity of each listing | guarded reserve, release, count | coordinators, sweep, vendors |
| Catalog commands (`catalog-write/commands/`) | `product_listings`, `inventory` | create, update, delist, adjust stock | outbox triggers |
| Stock rules of the domain (`catalog-write/domain/inventory.aggregate.ts`) | the same quantities | reserve, release, adjust | nothing: only unit tests construct it |
| Vendors (`vendors/vendors.service.ts`) | `vendors.slug`, `vendors.status` | register, set status | read by placement, creation and projector |
| Outbox triggers (`migration.sql`) | `outbox_events` | draw an id and append in the writer's transaction, visible at its commit | projector |
| Projector (`projector/outbox-projector.service.ts`) | `isProcessing`, a batch; `catalog_listings_view` | poll, read live rows, write view, mark, record failure, delete keys | outbox, view, Redis |
| Catalog queries and cache (`catalog-read/`, `common/redis/`) | Redis entries, `isConnected` | look up, read view, store; delete; expire | view, projector |
| Not modelled | | authentication, role grants, metrics, health, process start-up, categories, listing aggregate | see section 8 |

What is hard in it:

- **Nothing spans two calls.** Every database call of the saga, the sweep and
  the projector is a transaction of its own, no call is conditioned on the
  status it overwrites, and no lock outlives a call. Every pair of processes
  interleaves at every `await`.
- **Crashes.** `placeOrder` has no `catch`: a throw or a stop leaves whatever
  was written. The sweep is the only recovery, and it sees only rows.
- **Time.** The sweep decides by the age of an order, not by whether somebody
  works on it.
- **Retries.** A failed outbox event is retried after its successors.
- **Ids before commits.** An outbox event can appear after one with a higher id.
- **One rule, two texts.** Tests exercise the aggregate, the program runs SQL.
- **Copies.** View and cache are copies kept right by deletion and replay.

What makes each part correct: the table never oversells and follows the domain
rules; reserved units are exactly what live orders hold; statuses of an order
and its suborders agree and terminal ones are final; nothing is compensated
twice; every order ends; the view never drifts silently and the lag gauge tells
the truth; a cached entry goes stale in known ways only, a stale one dies, and what
buyers read comes to be what vendors wrote; placement charges a price that was
asked, respects suspensions and loses no item; a repeated registration
reinstates nobody.

## 2. Modules

| Module | What it is |
|---|---|
| `InventoryAggregate` | the stock rules as the domain model states them: `Reserve`, `Release`, `AdjustOnHand`, and their specification `AggregateSpec` |
| `StockTable` | the inventory table: `ReserveStock`, `ReleaseStock`, `TryRelease` (the caller ignores the result), `AdjustOnHand`, each one guarded SQL update; its own small specification `StockSpec`; `RowsFollowDomain` says that it implements `AggregateSpec` |
| `StockTableProofs` | proofs about `StockSpec` |
| `AllOrNothing` | the abstract promise: an order is placed, its lines are held and dropped, it ends confirmed with everything held or failed with nothing held |
| `OrderSaga` | coordinator and sweep over `StockTable`, one action per database call |
| `OrderSagaProps` | the saga's properties and its refinement of `AllOrNothing` |
| `OrderSagaProofs` | proofs about `OrderSaga`: types and stock |
| `OrderSagaAudit` | proofs about `OrderSaga`: what the audit trail says of a decision |
| `OrderSagaStatus` | proofs about `OrderSaga`: the statuses of orders and suborders |
| `OrderSagaStock` | proofs about `OrderSaga`: holds, accounting, and the refinement of `AllOrNothing` |
| `Marketplace` | the commands before the saga: register and suspend a vendor, create, update, delist a listing, and placement up to the insertion of the order |
| `MarketplaceProofs` | proofs about `Marketplace` |
| `ReadModel` | the abstract read model: numbered writes of a source, what a view shows of each key, and which writes it has acknowledged |
| `OutboxProjector` | writers, triggers, outbox, view and any number of projector processes; its refinement of `ReadModel` |
| `OutboxProjectorProofs` | proofs about `OutboxProjector` with one projector process |
| `CatalogCache` | the whole read side: `OutboxProjector` with the invalidation that follows a mark, Redis, and the queries |
| `CatalogCacheProofs` | proofs about `CatalogCache`: it implements `OutboxProjector`; the ways in which an entry goes stale |
| `MCOrderSaga`, `MCMarketplace`, `MCOutboxProjector`, `MCCatalogCache` | the small instances TLC checks |

`OrderSaga` EXTENDS `StockTable` and so composes coordinators, sweepers and
restocking vendors over one table. `Marketplace` ends where `OrderSaga` begins
(the `PENDING` order with its suborders). `CatalogCache` EXTENDS
`OutboxProjector` and composes writers, projector, Redis and queries: its steps
are the projector's own, except that a mark also starts the deletion of keys.

## 3. How the models correspond to the code

**Steps.** An action is one awaited call together with the synchronous code up
to the next `await`; its phase (`pc`, `at`, `phase`, `rphase`) names the call
that comes next. A stop of a process and a throw of a call have the same
effect in the saga, because nothing catches; in the projector a throw is caught
and recorded (`Throw`, `RecordFailure`) and a stop is not (`Crash`).

**OrderSaga.** `queue`, `ven` and `todo` are the loops over suborders and line
items, `won` is `suborderResults`. `ReserveRefused` is the failed guarded
update with the `break`; `LinesReserved` is `successfullyReservedItems`. A
cart's order is the buyer's choice and the queries have no `ORDER BY`, so loops
take their elements in any order. `saga_steps` is a set of (type, vendor)
pairs: no property counts repeated rows. Of the sweep, `batch` is
`stuckOrders`, and `seen` the suborder statuses it read and has not yet
handled, so the model acts on the snapshot as the code does. The snapshot has
two parts: Prisma's `include` is a second query, so the orders are selected in
one step (`SweepBegin`) and their suborders' statuses read in a later one
(`SweepReadSuborders`). `expired` stands for `created_at < cutoff`. `CrashPoints` names the phases where a process may
stop; `Overlap` says whether the timeout may expire on a live coordinator.

**StockTable.** The `CHECK` constraints of `inventory` are not enforced by the
model: `NoOversell` states them, so a wrong guard is a violated invariant and
not a step the model refuses.

**InventoryAggregate.** A method that throws changes nothing, so what makes it
throw is negated in its guard. The events it applies are left out: nobody
publishes them. `RowsFollowDomain` is `AggregateSpec` with the table's rows as
the aggregate's state.

**Marketplace.** A vendor stands for its slug, since nothing else about
registration can conflict: `LookUpSlug` is the early check, `InsertVendor` the
insert that the unique index guards. `at` is the handler's next call, `seen`
the rows it read.
`blocked` and `quoted` are history: the vendors suspended since a request
began, and the prices a listing had since then. No action depends on them.

**OutboxProjector.** Event ids are positions in `outbox`, in the order in which
they are drawn. An update of a listing or of its inventory draws the id, and is
`open` and invisible until its `Commit`; its row is locked meanwhile, so events
of one row appear in id order and those of a listing and of its inventory may
not. Creation and deletion are one step: both rows are theirs, so no other
event of that listing can come between. A writer that aborts after drawing an
id leaves a gap; to a poll that is an event that is never committed. The
inventory trigger of a cascading delete may find no vendor to note; no step
reads that column. A listing's title, price and status are one revision.
`changed` is history: the last id drawn when a vendor's status was set. `FOR
UPDATE SKIP LOCKED` runs outside a transaction: its locks end with the query
and are not modelled.

**CatalogCache.** `stage` and `owed` are what the projector has still to
delete. The category of the pages to delete is taken from the view at the mark;
the code takes it from the event, or from the row it has just written, which is
the same row while one projector runs. One key stands for all pages and price
ranges of a category, since they differ only in a suffix that the deleted
pattern covers. The rows and the total of a page are two queries side by side
(`ReadPage`), so an entry may mix two moments. KEYS and DEL are two steps.
While Redis is down a lookup misses and a store or deletion does nothing; Redis
may keep or lose its entries. With `TtlSeconds = 0` entries have no expiry, as
in `RedisService.set`.

Definitions that stand directly before another one and are not used
(`NextVendorEager`, `PollNewestFirst`, `SavedRow`, `StoredWhenUp`, ...) are
variants a careless edit would leave in the code. Replacing the definition by
its variant must break the property that guards it.

## 4. Runs

### Saga

Two orders compete for the stock of two vendors. In the full instance `o1`
has two lines of `l1` and one of `l2`, `o2` one unit of `l1` and two of `l2`;
the "few" instance leaves out one line of each. In the "wide" one `o1` also buys
of a third vendor, so that a refusal can fall between two successes: compensating
at the first refusal would go unseen with two vendors. Stock counts are chosen so that
an order may be refused at its first, a middle or no line, and so that both
orders cannot always succeed.

| Run | Instance and faults | Shows |
|---|---|---|
| `saga_gentle` | wide, stops outside the leak and double-release points | `ExactAccounting`, `GatherBeforeCompensate`, refinement of `AllOrNothing` (`AllOrNothingPromise`), after crash and sweep too |
| `saga_leaky` | full, stops at leak points too, vendors restock | `HoldsBacked`, `ConfirmedBacked`: stock may be stranded, never given away; `CompensatedOnce` |
| `saga_crashes` | few, two sweep processes, stops everywhere | `TypeOK`, `StatusesAgree`, `AnswerHolds`, `TerminalIsFinal` |
| `saga_live` | few, coordinators stop everywhere or are overtaken, fair | `NoOversell`, `ConfirmationJustified`, `RowsFollowDomain`, `StuckOrdersResolve` |
| `saga_double_release` | violated: `ConfirmedBacked` | a crash before `ROLLED_BACK` releases twice |
| `saga_slow_coordinator` | violated: `ConfirmedMeansReserved` | the sweep overtakes a live coordinator |

The conditions are part of the result. *Leak points* (`reserve`, `undo`,
`succeed`) are the phases in which units are reserved and no row says so;
*double-release points* (`release`, `rollback` and the sweep's two) those in
which units are released and the row still says `RESERVED`. A process that
stops at none of them leaves exact accounting, at leak points strands stock,
at double-release points endangers other orders. `saga_leaky` states only what
survives a leak: `ExactAccounting` is false there, by the units of the crashed
reservation. The result of a
compensating release is ignored by the code and by `TryRelease`; where the
accounting is exact, no release can miss.

The two sweepers of `saga_crashes` are interchangeable and symmetric in TLC.
What holds with two of them is what the statuses say; the accounting
is claimed for one, since two release the same suborder twice without any stop.

### Marketplace, projector and cache

| Run | Instance | Shows |
|---|---|---|
| `market_orders` | two requests, four vendors of which one is not registered, four listings, carts with repeated, mixed, invalid and too many vendors; requests are symmetric | `PricesWereAsked`, `SubordersPartitionCart`, `SuspensionBlocksNewBusiness`, `DelistedStaysDelisted`, `RequestsReinstateNobody` |
| `projector_ordered` | one event per poll, two updates open at once, one projector, any call may throw, fair | `TypeOK`, `NoSilentDrift`, `NoLagMeansInSync`, `AcknowledgedShown`, `DeletedStaysDeleted`, `SyncGoesBackOnlyOvertaken`, `EventsSettle`, refinement of `ReadModel` (`ViewFollowsSource`) |
| `projector_batch` | batches of three of one listing's five events, one update open at a time, suspensions, stops at any call, no throws | `NoSilentDrift`, `DeletedStaysDeleted`, `AcknowledgedReflected`, `AcknowledgedShown`, `VendorStatusCarried` |
| `projector_retry` | violated: `NoSilentDrift` | a retry undoes a later event of its batch |
| `cache_misses` | one listing, one query beside the projector, batches of two, four events: a move to another category, a deletion; outages, a mark that throws, stops during the deletion | `ListingGoesStaleOnlyMissed`, `CategoryGoesStaleOnlyMissed`: no entry goes stale but by the misses named there |
| `cache_backstop` | one listing, one query, three events: creation and one update of the listing or of its stock; races, outages, a mark that throws, stops during the deletion, fair | `StaleEntriesDie`, `QueriesAnswered`, `ReadsConverge` |

`projector_ordered` fetches one event per poll: a failed event is then always
retried before its successors, or dead-lettered visibly, which is the condition
under which retries are harmless. `projector_retry` has batches of two.
`projector_batch` has one listing, since no property relates two and the proofs
cover any number, and five events instead: creation, an update, a deletion. The
update's event may then be applied after the deletion was committed, finds no
inventory row and writes a stock of 0 that no event carries. `AcknowledgedShown`
allows it (`Left`: what a deletion of an inventory row may leave); with four
events the case does not exist, and it was the attempt to prove the property
that showed it.
`AcknowledgedShown` compares contents, per source table, and so survives ids
that appear out of order. `AcknowledgedReflected` and
`SyncGoesBackOnlyOvertaken` compare ids, and name what may put a later event
before an earlier one (`OvertakenBy`): a retry in a batch, or an update of the
other table of the listing that was open beside this one. The overlap is reached
in `projector_ordered`; a retry in a batch is in no passing run, and that the two
are the only exceptions together is what section 6 proves.
`ViewFollowsSource` compares a listing's contents with its own writes, and so
holds with overlaps too; of the stock it says nothing, since a listing event
takes the live quantity, which is no write of that event.

The two properties of `cache_misses` follow an entry from the write of the view
to the deletion of its key. An entry is fresh, or its deletion is under way
(`FreshOrOwed`): the row was written and the mark has still to come, or the key
is among those the projector owes. It stops being so only by a miss
(`Missed`): a query stores what the view no longer says, Redis is away when the
projector deletes, the process stops or the mark throws first. A page of a
category also goes stale when a row leaves it (`RowLeaves`). All of these happen
in the run; what becomes of the entry then is `StaleEntriesDie`.

**Bounds.** `MaxEvents` bounds the source writes of the projector (4 and 5) and of the
two cache runs (4 and 3): creation takes two events, and one or two more already
give every order of an event against an earlier, a later and a repeated one.
`MaxOpen` 2 lets a higher id appear first. Two attempts separate a retry from
giving up; the cache runs have one, since there a mark that throws matters by
the deletion it skips, and a second attempt is only the same event again; in
`cache_backstop` such an event is never processed, so that `ReadsConverge` claims
nothing of it. The race of query and projector involves one of each; a second
query adds a second entry in flight. Both cache runs ask for a listing and the
first category, so that the listing can also leave the pages. A deletion takes
four events: `cache_misses` has it, `cache_backstop` has not, and neither has
stock other than 0 or a delisted row. No instance asks for a vendor's
pages: the module has them, nothing deletes them, and their only rule is the
expiry they share with all keys. Two registrations of the one free slug need two requests.
Two orders
are enough for any stock conflict, since a conflict is about what the others
hold; two vendors give a success beside a failure; two lines of one suborder
give a partial reservation. Quantities of 1 and 2 make equal counts of lines
and of units differ.

**Deadlock** is checked in every run. Restocks, status changes or the empty
poll keep every model able to step.

## 5. Fairness

- Coordinators and sweep: weak fairness of each live process's next step and of
  the timeout. A Node process runs its next continuation; the sweep's interval
  timer starts the next pass. No fairness of placing, crashing or restocking.
  `saga_live` has no crash of the sweep itself: a sweep that stops in every
  pass resolves nothing.
- Projector: weak fairness of its next step (the poll interval), which a throw
  may take the place of; no fairness of source writes. `EventsSettle` counts
  giving up after `MaxAttempts` as settling.
- Read side (`CacheFairSpec`): weak fairness of the projector with its
  deletions, of a query that has begun, and of the expiry of an entry with a
  TTL. None of writers, of commits, of new queries, or of Redis coming back.
  `ReadsConverge` is conditional on every event being processed for good, which
  a dead-lettered event or a writer that never rests prevents.

## 6. Proofs

All proofs are checked by TLAPS from nothing, without assumptions beyond the
named `ASSUME`s on the constants (`SagaAssumption`, `StockAssumption`,
`MarketAssumption`, `ProjectorAssumption`) and, where a theorem states one, a
condition on how the system is run. Every condition is met by a run. Without
`~Overlap`, the double-release condition or `InOrder` the run named below is
violated; why the others (one sweep process, no stop at a leak point, one
projector) are needed is said where they are
introduced. Every inductive invariant was checked with TLC on the instances of
section 4 before it was proved.

**Stock.**

- `StockTableProofs!StockTableSafe`: `StockSpec => [](StockTypeOK /\ NoOversell)`.
  The conjunction is inductive; one lemma per kind of update. The type is
  needed because a reserved quantity must be a natural number for the guard to
  say anything; `NoOversell` needs the guards of reserve and of the count.
- `StockTableProofs!TableIsDomain`: `StockSpec <=> RowsFollowDomain`. The guarded
  SQL updates and the aggregate's methods have the same behaviours: not only
  does the table do nothing the domain forbids, it refuses nothing the domain
  allows. Statement by statement (`SameStatements`), then step by step
  (`SameSteps`), under the type invariant, without which a difference of
  quantities says nothing about a sum.
- `OrderSagaProofs!SagaTypeCorrect`: `Spec => []TypeOK`. `TypeOK` is inductive
  as it stands; one step per action. In particular a release never lowers
  `reserved` below zero, whoever calls it.
- `OrderSagaProofs!SagaImplementsStock`: `Spec => StockSpec`. Every action of
  coordinator, sweep and vendor is a step of `StockNext` or leaves the
  inventory alone; the type invariant places each quantity in `Quantities`.
- `OrderSagaProofs!SagaFollowsDomain`: `Spec => RowsFollowDomain`, from the last
  theorem and `TableIsDomain`.
- `OrderSagaProofs!SagaNeverOversells`: `Spec => []NoOversell`, from
  `SagaImplementsStock` and `StockTableSafe`: what the table promises, it
  promises to the saga, for any number of orders, lines and sweepers, stops at
  any call, and a sweep that overtakes.

**What the audit trail says.**

- `OrderSagaAudit!SagaGathersFirst`: `Spec => []GatherBeforeCompensate`, and
  `OrderSagaAudit!SagaConfirmsWithReason`: `Spec => []ConfirmationJustified`.
  The inductive invariant is `Audit`: an order is CONFIRMED only when its
  coordinator has ended so (`Confirmation`); the vendors counted as won are on
  record, and in the loop every vendor is waiting, current or resolved
  (`Gathering`); compensation begins only when all are resolved
  (`Compensation`). Neither property is inductive by itself: the record of a
  decision depends on `pc`, `queue`, `ven` and `won` at the moment it is taken.
  The proof has one step per action of the coordinator; of everything else it
  uses only that it records no step of a coordinator and confirms nothing
  (`SweptOnly`).

**Statuses** (`OrderSagaStatus`), on the condition `~Overlap`: the saga timeout
is longer than a coordinator lives. `saga_slow_coordinator` shows what happens
otherwise.

- `SagaStatusesAgree`, `SagaAnswerHolds`, `SagaTerminalIsFinal`: the statuses of
  an order and its suborders agree, the buyer's answer stays true, a terminal
  status is never left, for any number of sweepers and stops at any call. The
  inductive invariant `StatusInv` says, phase by phase, what the suborders'
  statuses are while a coordinator reserves (`Reserving`) or compensates
  (`Compensating`), what a sweeper's snapshot still says of an order whose
  coordinator is gone, and that only such an order has expired. It is stronger
  than the three properties because a snapshot may be several calls old when it
  is acted upon: what makes the action right is that nobody but sweepers has
  touched the order since. Each proof has a step per action; the lemmas
  `Untouched`, `OtherOrders` and `CoordinatorAlone` dispose of the orders and
  processes an action does not concern.

**Units** (`OrderSagaStock`), on the condition `Undisturbed`: `~Overlap`, one
sweep process, no stop at a double-release point, finitely many lines
(`saga_double_release` shows the third is needed).

- `SagaCompensatesOnce` (`~Overlap` and one sweeper suffice, whatever stops):
  when the sweep records a compensation, it was not recorded before.
  The snapshot is then the present but for the suborder just marked
  (`SnapshotCurrent`), and recorded suborders are `ROLLED_BACK`.
- `SagaHoldsBacked`, `SagaConfirmedBacked`: what suborders hold stays reserved,
  though units may be stranded, and so does what was confirmed. The invariant
  is an inequality between a table entry and a sum over lines; the proof shows
  for every action which lines begin or cease to be held (`HoldStep`) and that
  the guarded update changes the reserved quantity by their units.
- `SagaAccountsExactly`, `SagaKeepsPromise`: without stops at the leak points
  the inequality is an equation, and every step of coordinator and sweep
  is a step of `AllOrNothing` under the refinement mapping, or a stutter.
- One sweep process is a condition because two release a suborder twice without
  any stop (section 7); no stop at a leak point, because `ExactAccounting` is
  false in `saga_leaky`, by the units of the crashed reservation.

**Commands** (`MarketplaceProofs`), without conditions.

- `MarketPricesWereAsked`, `MarketBlocksSuspended`, `MarketReinstatesNobody`,
  `MarketKeepsDelisted`. A request decides from what it read in an earlier call.
  The invariant `MarketInv` says for each call a request may be about to make
  what is still true of what it read: rows have prices that were asked since it
  began, vendors found active are not among those suspended all along, a listing
  whose owner was verified is there.
- `MarketPartitionsCart`: `Spec => []SubordersPartitionCart`. Every item is a
  line of its vendor's suborder, a subtotal is the worth of the suborder's own
  lines, and the total that of all lines. The first part needs no sum: items and
  lines correspond one to one (`AsManyLines`), and vendors divide them. For the
  rest, what `SumFunctionOnSet` computes is the number of units in blocks, one
  block for each element with as many units as its value: two finite sets in a
  bijection have one size, and disjoint ones add up. That the recursion over
  subsets computes this number (`SumIsBlocks`) is shown without an induction
  theorem, by a smallest subset for which it would fail. So a sum may be
  reindexed from items to lines (`SumReindexed`) and split by vendor
  (`SumByGroup`).

**Projector** (`OutboxProjectorProofs`), for any listings, contents, batch size,
number of attempts, events and open updates. The conditions are
`OneProjector`, and `InOrder`, that moreover a poll selects one event or no call
throws, so that no poll passes a failed event before its retry
(`projector_retry` shows the need of it).

- `BaseInv` relates the source tables, the outbox and the process, and is
  inductive with one projector. `History` says what the outbox tells of the
  tables: an open update is the last event of its row and its row is there, a
  deletion is the last event of its row, the latest committed event of a row
  says what the row is, and a listing with events has committed ones of both
  tables. From it `ProjectorTypeOK` follows. One projector is a condition
  because two that took the same event can both fail on it, which takes its
  attempts past the maximum.
- `ProjectorCarriesVendor` (one projector, any throws, stops and batches): by
  `VendorInv`, a status in a row, or in the process's hands, that is not the
  present one was read before the last change, and so was whatever is processed
  or about to be marked.
- `OrderInv` (one projector): no pending or open event has been passed by a later
  one of its row, and the batch leaves none out, unless the event was tried
  before in a batch (`Retried`). It needs that an open event is the
  last of its row, so that a poll which cannot see it misses nothing. In order
  nothing is so retried (`NoneRetried`).
- `ShownInv` (in order): every column of a row comes from an event of its table
  that is committed and no older than any processed one (`UpToDate`); a missing
  row has a deletion to come after every processed write; between write and mark
  the row shows the event at hand. The stock a listing event reads comes from
  the latest inventory event, processed or not. From `OrderInv` and `ShownInv`
  follow `ProjectorShowsAcknowledged` and `ProjectorKeepsDeleted`, and with
  `History` that a listing whose committed events are all processed is in sync
  (`SettledInSync`): this is `ProjectorLagIsTruth`, and, with dead letters,
  `ProjectorNoSilentDrift`. All four hold when ids appear out of order.
- `ProjectorFollowsSource` (in order): `Spec => ViewFollowsSource`. Under the
  refinement mapping the writes of the read model are the committed listing
  events, numbered by their ids; those marked are acknowledged; what is shown is
  category and revision of the row. A commit, a creation or a deletion is
  `Write`: by `OpenIsLast` its number is higher than those committed before it
  of that listing, though not of others, and by `DeletionIsLast` nothing follows
  a deletion. The write of the view is `Show`, never of an older write than one
  marked, by `OrderInv`; the mark is `Acknowledge`, of what is shown by then, by
  `Written`. Everything else, throws and stops included, is a stutter, and so is
  what an inventory event does. `Numbers` are the ids up to `MaxEvents`, and
  the outbox never grows past it (`Bounded`).
- `ProjectorLosesNothing` and `ProjectorGoesBackOnlyOvertaken` (one projector,
  nothing else: any batch, any throw, any overlap). By `SyncInv` nothing pending
  or open is older than what its row reflects, unless that had overtaken it, and
  between write and mark the row reflects the event at hand. A row therefore goes
  back only by an event that was retried in a batch or overlapped with one of the
  other table, and no event is lost but behind such a one. Exceptions last: an
  event that was tried stays so (`OvertakenKept`).

**Read side** (`CatalogCacheProofs`).

- `CacheImplementsProjector`: `CacheSpec => Spec`, whatever Redis and the
  queries do, on the condition (`StopsAlike`) that a process which may stop
  between two deletions may stop before the first call of an event. By
  `DeletingInv` a projector that deletes keys is between two events or done with
  its pass, so that such a stop is to the view a `Crash`, or nothing. Every
  theorem about the projector is therefore one about the whole read side; for
  the read model this is stated (`ReadSideFollowsSource`).
- `CacheListingsGoStaleOnlyMissed` and `CacheCategoriesGoStaleOnlyMissed`, with
  one projector and no other condition: queries run beside it, Redis comes and
  goes, calls throw and the process stops anywhere. The invariant is
  `ReadSideInv`: that of the projector, `DeletingInv`, and the keys owed are
  keys. From it, one lemma per kind of step. A write of the view changes the
  content only of keys it is about to mark, or takes a row out of a category
  (`WriteListing`, `WriteCategory`); a mark turns these into keys owed, an
  inventory event included, whose category is that of the row
  (`ProjectorCovers`); DEL, KEYS and DEL forget none while Redis answers
  (`DeletionInTime`); a query's store, an expiry and an outage make no entry
  stale that was not, but for a late store (`StaysCovered`).

**Only model-checked.** Liveness (`StuckOrdersResolve`, `EventsSettle`,
`StaleEntriesDie`, `QueriesAnswered`, `ReadsConverge`), since fairness and
ENABLED are outside the prover's reach. No module uses a RECURSIVE operator.

## 7. Where code and documents disagree

Three disagreements are shown by a run whose counterexample is the argument
(`PROJECT.json`, "findings", quotes the documents):

- `saga_double_release`: a coordinator stops between a release and
  `ROLLED_BACK`, the sweep releases again, and the units of another, confirmed
  order are given away.
- `saga_slow_coordinator`: the sweep overtakes a live coordinator, which then
  confirms an order with a rolled-back suborder.
- `projector_retry`: a retried event overwrites a later one, and nothing
  reports it.

Others shaped the conditions under which properties are claimed, and are listed
under "hazards":

- a stop during a reservation strands stock for good (`LeakPoints`);
- two sweep processes release the same suborder twice: with two, statuses
  survive and the accounting is not claimed;
- two projector processes apply the same events interleaved: one in every
  instance;
- a sweep that stops after `ROLLED_BACK` and before its audit row never writes
  that row; `CompensatedOnce` says only that it does not release again;
- `last_synced_outbox_id` can go back when two updates of one listing overlap,
  against `prisma/migrations/0001_init/migration.sql:145-147` ("the highest
  outbox_events.id this row reflects"), and when an event is retried in a batch.
  `SyncGoesBackOnlyOvertaken` says that these are the only ways. The contents are
  still right after an overlap (`AcknowledgedShown`);
- a vendor's status is copied into the view and no event updates it:
  `NoSilentDrift` leaves it out, `VendorStatusCarried` says when it arrives;
- a mark that throws leaves the cache stale until a retry, or until the TTL when
  it was the last attempt; so do a late store, a deletion lost to a stop or to an
  outage, and a row that leaves a category. `ListingGoesStaleOnlyMissed` and
  `CategoryGoesStaleOnlyMissed` say that there is nothing else, and
  `StaleEntriesDie` that the TTL ends all of these, a deleted listing's entry
  and a vendor's pages apart: the module has both, and the run reaches neither;
- the price is captured before the reservation, not at it (`PricesWereAsked`
  states what does hold).

## 8. Not modelled

- Authentication, database roles, metrics, health probes and start-up have no
  behaviour in time that a decision depends on.
- Creating a category is a lookup and an insert under a unique index, as
  registering a vendor is, into a table that nothing updates later.
- The `ProductListing` aggregate sets fields without a rule, and the domain
  events of `catalog-write/domain/` are published by nobody.
- Pagination and price ranges are abstracted into one key per category or
  vendor; `getOrder`, `getVendor`, `getCategories` and the stuck list only read.
- Two projector processes are in the module and in no instance; a repeated
  `placeOrder` after a client's timeout is just another order.

## 9. Plan

1. Compose placement with the saga, so that one model has prices, suspensions
   and stock together.
