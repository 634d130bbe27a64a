# Formal verification of the order platform

The platform takes berry orders for a small farm shop: customers order from a
storefront, staff manage orders, harvest capacity, seasons, products, themes
and payments. It is a Next.js application over one libSQL/SQLite database.
Its hard part is that capacity is counted in one column (`reservedMl` of an
availability row), while every operation finds the row it should count on again
from the calendar of the moment, and that an order travels over an unreliable
network to a handler that retries.

This directory holds TLA+ modules of that part, the TLC configurations that
model-check them, and theorems checked by TLAPS. Paths below are relative to
the repository, which the manifest knows as `src/`; the application's code is
`src/src/`. `PROJECT.json` maps each definition to the lines it models, and
lists runs, mutants, findings, hazards and theorems.

## 1. Inventory

### Components

| Component | Code | State | Operations | Modelled |
|---|---|---|---|---|
| Order status machine | `domain/order-transitions.ts` | none (a table) | legal transitions per status, method and total | `OrderLifecycle` |
| Harvest capacity | `domain/availability.ts`, the planner (`app/admin/availability/`) | availability rows: capacity, reserved, accepts, sold out; the rows a planner page holds | plan a range of dates, update one row, resolve a row, reserve, release | `OrderCapacity`, `CapacityLedger`; the planner's pages in `CapacityPlanner` |
| Order intake | `domain/orders.ts` (`submitOrder`, `createExternalOrder`), `domain/order-intake.ts`, `app/[locale]/order-form.tsx` | orders, idempotency key and fingerprint; the form's key, pending flag and receipt | submit, replay, conflict, busy retry, fallback | `OrderIntake`, `OnceOnlyOrders`; the reservation in `OrderCapacity`, the customer in `CustomerRecords` |
| Order desk | `domain/orders.ts`, `domain/operations.ts`, `domain/admin-order-actions.ts`, the order's page | order rows with a version, payments, refunds, what a page shows | edit, reprice, transition, pay, refund, archive, delete, historical entry | `OrderDesk`; capacity in `OrderCapacity` |
| Harvest seasons | `domain/seasons.ts` | seasons; the product's legacy window | create, clone, update, extend, delete | `OrderCapacity` |
| Products and packages | `domain/products.ts` | products, windows, packages, default package | update (closes and reopens rows), package creation, update and deletion, choice of the default | `ProductWindow`, `PackageCatalog`; volumes in `OrderCapacity` |
| Payment methods | `domain/payment-methods.ts` | a row per method: enabled or not | enable, disable, delete | `PaymentMethods` |
| Storefront themes | `domain/storefront-themes.ts`, the settings page | versions with a status, the shop's live theme, what a page shows | save, publish, roll back, discard | `StorefrontThemes` |
| Notifications and outbox | `domain/operations.ts` (`runAutomation`), `domain/notifications.ts` | notifications and outbox jobs by event key | run the day's automation, notify, mark read | `OrderAutomation` |
| Sessions and access | `lib/session-lifecycle/`, `domain/access.ts`, `domain/admin-user-actions.ts` | a session's expiry at the server and in each tab; staff with role, password, activity | status, touch, sign out, tell other tabs; suspend, demote, reset, rename, create, change password | `SessionTabs`, `StaffAccess` |
| Reviews | `domain/reviews.ts` | reviews with status, acknowledgement and shown name; the shop's rating | submit, import, moderate, confirm, rename, edit, delete, recount | `ReviewBoard` |
| Customers | `domain/customers.ts`, `domain/admin-customer-actions.ts`, `scripts/customer-retention.ts`, matching in `domain/order-intake.ts` | customer records, the orders' references to them | match, create, edit, merge, anonymize, retain | `CustomerRecords` |
| Reporting and search | `domain/reports.ts`, `dashboard.ts`, `admin-search.ts`, `order-triage.ts` | none | none | not modelled: changes no state |
| Web pages and routes | `app/` | what a page shows and waits for | request, abort, show the answer | partly: the customers page, the order inspector and four lists in `AdminPages`; the order form in `OrderIntake`, pages whose stale contents reach an operation in `OrderDesk`, `StorefrontThemes`, `CapacityPlanner`, `SessionTabs` |

### How they interact

* Intake, the desk and capacity planning meet on the availability rows. Intake
  picks a season for the date and reserves on the season's row; the desk later
  finds a row from the order's product, date and (sometimes) season; planning
  changes capacity and flags of the same row.
* The season calendar decides which row all of them find. Season edits take
  effect at once and do not touch existing orders or rows.
* `updateProduct` closes and reopens rows and must not strand orders outside
  the product's window. Every season edit ends in `syncProductLegacyWindow`,
  which rewrites that window.
* `updatePackage` changes the volume that later edits of an order compute.
* A form talks to intake over HTTP: requests may be repeated, responses may be
  lost, and a handler goes on when its browser has given up.

* The desk's pages hold a copy of an order, the planner's a copy of availability
  rows, and send back the version they read; the settings pages of themes hold a
  copy without a version. `updateProduct` rewrites rows and leaves their version.
* Settings, reviews, customers and the staff list are written by calls that
  read, check and write in separate statements: they interact with each other
  only through what they read too early.
* The admin pages ask again whenever staff pick another record or filter, and
  answers come back in any order: what a page shows, and what its buttons act on,
  depends on which requests it gives up.
* The tabs of a session share one cookie and one server row, and tell each
  other of touches and ends by events that no order relates to the answers.

### What is hard here

Orders hold no pointer to the row they were reserved on (stale calendar); the
volume is computed again at every edit (stale package); a release is
conditional and one caller ignores that it failed (partial failure); several
writers compete for the last millilitres (interleaving); a read for a replay
precedes the transaction (stale read); busy retries are nested (timeout and
retry); a failed commit may have been carried out (crash); the fallback after
an error does not compare payloads (partial failure). Outside the order path
most operations are not in a transaction: between the read and the write of a
call lies an `await`, and another request may change what was read (settings,
packages, windows, reviews, merges, staff). The automation and the product edit
may stop between two statements and are run again. `PROJECT.json` lists 40
hazards at their lines, with the properties that watch them; where the code takes
the step and the property names it as its exception, the note says so. Two have none: an
order placed where seasons overlap, since no document says which season is
right; and an edit that writes contacts back into a record anonymized
meanwhile, which `CustomerRecords` performs but nothing in the repository
forbids (`ErasureHolds` proves that only an edit can).

### What makes each component correct

* *Capacity*: never overcommitted, never negative; `reservedMl` is the sum of
  what orders hold; a release always finds its row; a deletion gives back; a
  completed or historical order never changes capacity; a closed row sells
  nothing.
* *Planner*: a page saves only over the row it shows; a change of capacity neither
  shuts a date nor puts a shut one back on sale.
* *Intake*: one order per key; a receipt is for a committed order and for what
  its form asked for; every order carries its reservation; retries end.
* *Order desk*: a page that passes the version check shows the truth; payments
  less refunds is what the shop holds; nothing is handed over without the price
  its way asks for.
* *Products*: no live order outside its product's window; an edit that ends
  repairs what edits that died left; one default package, on sale; an ordered
  package is not deleted; a closure by staff survives window changes (it does
  not, see Findings).
* *Payment methods*: a method stays enabled.
* *Themes*: one published version, which is what customers see; a published
  version stays as it was; a page publishes what it shows.
* *Automation*: only what is due is picked; a reminder and its job exist
  together, once.
* *Sessions*: no tab leaves while the session lives. *Staff list*: somebody
  remains in control; a password reset is not undone.
* *Reviews*: public only with an acknowledgement and a moderator's last word;
  the rating is that of the approved reviews.
* *Customers*: an order's customer is on record; retention checks again.
* *Pages*: staff see, and act on, what they picked last.

## 2. Modules

| Module | What it is |
|---|---|
| `OrderLifecycle` | The transition table and status sets, as pure operators |
| `CapacityLedger` | Abstract: each order holds its whole volume in one place; places are never overbooked |
| `OrderCapacity` | Every operation that reads or writes capacity; implements `CapacityLedger` |
| `OrderCapacityProofs` | TLAPS proofs about `OrderCapacity` |
| `OnceOnlyOrders` | Abstract: a key buys at most one order, a receipt tells the truth |
| `OrderIntake` | Form, handlers, retries, crashes; implements `OnceOnlyOrders` |
| `OrderIntakeProofs` | TLAPS proofs about `OrderIntake`, refinement included |
| `PaymentMethods`, `StorefrontThemes`, `ProductWindow`, `PackageCatalog`, `CapacityPlanner` | What staff set up for the shop, one module per part |
| `ShopSettings` | Composes those five |
| `ShopSettingsProofs` | TLAPS proofs about the five, and about the five together |
| `OrderDesk`, `OrderAutomation`, `ReviewBoard`, `CustomerRecords`, `SessionTabs`, `StaffAccess` | The work of the back office, one module per part |
| `AdminPages` | What admin pages show while answers are on their way |
| `BackOffice` | Composes those seven |
| `OrderDeskProofs`, `OrderAutomationProofs`, `ReviewBoardProofs`, `CustomerRecordsProofs` | TLAPS proofs about four of them |
| `BackOfficeProofs` | TLAPS proofs about the staff list, the tabs and the admin pages, and about the seven together |
| `MC_OrderCapacity`, `MC_OrderIntake`, `MC_ShopSettings`, `MC_BackOffice` | Constants and symmetry sets for TLC |

### OrderCapacity

`cell[r]` is the availability row for `r = [product, season, date]` and `rows`
the rows that exist; `season` and `seasons` are the season table; `window` the
product's `availableFrom`/`availableThrough`; `size` the package volumes;
`order[o]` what the orders table says. `held` is a history variable: the row an
order's volume was last added to. The code has nothing of the kind, and the
properties compare the two.

Rows are found in three ways, because the code has three:
`IntakeSeasons` (`getHarvestSeasonForDate`, the first of several covering
seasons in the order of the query), `Resolves`/`SoleSeason`
(`resolveSeasonForAvailability`, which throws on more than one), and
`ReleaseSeasons` (the season on the order, else the calendar of today).

| Action | Code |
|---|---|
| `IntakeOrder`, `IntakeOverride` | `intakeOrderCore`, without and with `allowDateOverride` |
| `EditOrder`, `MoveOrder` | `updateManagerOrder`, without and with `capacityChanged` |
| `AdvanceOrder`, `ReleaseOrder` | `transitionOrder`, keeping and giving back the volume |
| `DeleteOrder` | `deleteManagerOrder`, which goes on when its release finds no row |
| `CreateHistorical` | `createHistoricalOrder` |
| `UpdateAvailability`, `PlanAvailability` | `updateAvailability`, `planAvailability` |
| `CreateSeason`, `UpdateSeason`, `DeleteSeason` | `createHarvestSeason`/`cloneHarvestSeason`, `updateHarvestSeason`/`extendHarvestSeason`, `deleteHarvestSeason`, each with the window sync it ends in |
| `UpdateProduct`, `ResizePackage` | `updateProduct`, `updatePackage` |
| `Midnight` | the business date passes |

A status is kept up to its stage (OPEN, PREPARING, OUT, CLOSED), and the moves
between stages are computed from the table of `OrderLifecycle`, so an edit of
the table reaches this module. Each action is one step. For intake and the
order operations this is what the code has: reads and conditional updates in
one write transaction. For `updateProduct` and the season edits it is an
abstraction, as the code runs several statements without a transaction;
`ProductWindow` has the statements of `updateProduct` one by one.

`Careful` is an assumption about the staff, not about the code. With
`Careful = TRUE`, season edits leave the seasons that cover the date of an
existing row as they are (`CalendarKept`), and a package is resized only when
no existing order uses it. Nothing in the code enforces either: a season is
deleted without a look at the rows and orders that name it (`DeleteSeason`),
which keep an id that no later season gets (`NewSeasonId`). The two
violation runs below show what happens otherwise, and `capacity_open` and the
theorems `TypeCorrect` and `CapacityRespected` what survives without it.

### OrderIntake

`form[k]` is a browser form with its key; `call[c]` a request at the server with
its phase and retry counters; `lock` the open write transaction; `orders` and
`reserved` the database. The phases follow the awaits of the code:

| Step | Code |
|---|---|
| `ReadPrior` | the read for a replay before the transaction |
| `Begin` | the write transaction opens, the replay read again, the reservation |
| `Commit` | the rest of the transaction, and its commit |
| `Busy`, `Retried` | `SQLITE_BUSY`: the retry of `intakeOrderCore`, then that of `submitOrder` |
| `StatementFails`, `TransactionFails` | any other error; a commit reported as failed may have been carried out |
| `ReadFallback` | `submitOrder` answers with the order its key has, payload uncompared |
| `Crash` | all running calls are lost; the open transaction was committed or not |
| `DeleteOrder` | staff delete an order |
| `Submit`, `Receive`, `LoseResponse` | the form |

A payload stands for what `idempotencyFingerprint` covers. Begin and Commit are
two steps, so other calls read in between, and a crash may fall there. A write
transaction excludes other writers but not readers: `BEGIN IMMEDIATE` on the
write-ahead log of hosted libSQL, which is configured outside this repository.
For that reason a busy error comes from opening the transaction only, and the unique-violation branch of `intakeOrderCore` is not
modelled: the read for a replay and the insert are in one write transaction, so
a second insert of the key cannot happen. One availability row stands for all:
which row is found is the subject of `OrderCapacity`.

### How the other parts are modelled

Three conventions hold in all twelve modules below.

*Where a call is cut.* An operation in one transaction is one action. An
operation that is not is cut where another request can come in: `Begin...`
reads and checks and keeps what it read in the caller's entry (`methodCall`,
`packCall`, `edit`, `call`, `keeper`, `deed`), `Finish...` writes. A caller has
one call at a time, and as many callers as the constant says are active at
once. `Abandon...`, `...Dies`, `GiveUp` and `RunEnds` are the process stopping or
the write being refused: what was written before stays.

*Race flags.* Where the code lets an overlap break its own rule, a history
variable (`methodRaced`, `windowRaced`, `staleMark`, `packsOutrun`, `resaved`,
`overlapped`, `countOff`, `crossed`, `superseded`, `excused`, `repriced`,
`feeTaken`, `retired`, `unseen` in a planner's copies, and `stray`, `calm`,
`last` in `AdminPages`) records that exactly this overlap took place, and the
property excuses it. The flag is part of the statement: "an order's package is
on record, unless it was ordered after its deletion had looked" says which
interleaving the code is exposed to and that there is no other. A property
without the excuse would fail, and its mutants show that the excuse does not
swallow it. Nothing in the repository promises that these overlaps are
excluded, so they are listed as hazards and not as findings.

*Composition.* The parts share no column (payments apart, which `OrderDesk` and
`PaymentMethods` see from two sides, and the availability row, which
`ProductWindow` and `CapacityPlanner` each have an account of), so a behaviour of the whole is an
interleaving of behaviours of the parts, and a property of one part holds in all
of them if it holds in those that move this part only. `ShopSettings` and
`BackOffice` therefore carry `focus`, which picks the part that moves: the sum of
the parts' states is explored, not the product.

| Module | State and actions, against the code |
|---|---|
| `PaymentMethods` | `methodRow[m]`: the row of `m`, none meaning enabled. `EnableMethod`, `BeginCall`/`FinishCall` are `setPaymentMethod` and the deletion, cut between the count of the other methods and the write; `UseMethod` the check in `recordPayment` |
| `StorefrontThemes` | `versions`: the table, in order of creation; `liveTheme`: `shops.storefrontTheme`; `themePage[s]`: what a settings page last loaded. `SaveDraft`, `PublishDraft`, `RestoreVersion`, `DiscardDraft` are the transactions, `ShowThemes` and `AnswerLost` the page's reload or its failure |
| `ProductWindow` | `shopWindow`, `dayRow[d]`: the window and the availability rows of one product. `BeginEdit`, `CheckRows`, `ListRows`, `SaveWindow`, `CloseRows`, `ReopenRows` are the statements of `updateProduct`; `AbandonEdit` stops after any of them; `TakeOrder`, `DropOrder`, `MarkRow` are the orders and the planning in between |
| `PackageCatalog` | `pack[k]`: kept, active, default. `BeginCreate`, `BeginUpdate`, `BeginDefault`, `BeginDrop` read and check, `FinishPackCall` writes (`Written` has the effect of each kind); `OrderPack` is an order naming a package |
| `CapacityPlanner` | `plannedRow`, `dateInside`: one availability row, and whether its date is in the window; `copy[s]`, `answer[s]`: the row as a planner page shows it, and as its answer will. Versions only grow, so none is counted: a copy whose version has passed is `Passed` for good. `AskRows`, `ReadRows`, `ShowRows`, `RowsLost` are the page's query with its cache of two seconds; `AdjustCapacity`, `SaveCapacity`, `FreezeDate`, `ReopenDate`, `OverrideCutoff` its buttons, each a `Save` (`updateAvailability`); `PlanDate`, `ReserveVolume`, `ReleaseVolume`, `EditProduct` the other writers |
| `OrderDesk` | `deskOrder`: status, method, price, payments of one order; `deskPage[c]`: whether `c`'s page holds the version, and shows the truth; `till`: history, the money that changed hands. One action per operation of the desk; `Move` is `transitionOrder` with the guards of `OrderLifecycle` |
| `OrderAutomation` | `run[r]`: the step a run of `runAutomation` is at, and its list; `raised` and `queued`: event keys of notifications and outbox jobs. `StartRun`, `PickOne`, `ListOverdue`, `ListReady`, `Raise`, `Enqueue` are its statements; `StaffMoves`, `StaffReschedules`, `Waits`, `HourPasses` what goes on meanwhile |
| `ReviewBoard` | `review[v]`: status, acknowledgement, shown name, rating; `rollup`: the shop's star distribution. `BeginModerate`, `BeginConfirm`, `BeginIdentity` read, and settle whether the call will count (`Counts`: the identity call only if it changes the status it read), `WriteReview` writes the columns computed from it, `CountApproved` and `StoreCounts` are the two statements of the recount; `BulkModerate`, `UpdateFull`, `DeleteReview` the rest |
| `CustomerRecords` | `customer[c]`, `custOrder[o]`: records and references. `MatchOrder`, `NewWithOrder` the matching at intake; `BeginCreateCustomer`, `BeginUpdateCustomer`, `BeginEnrich`, `BeginResolve` with `FinishCustomerCall` the staff's calls; `MergeCustomers` the merge that is one transaction; `ReportRetention`, `ApplyRetention` the script |
| `SessionTabs` | `session`: expiry at the server; `tab[t]`: the deadline a tab believes in and where it got it; `asked`, `touched`: answers on their way; `news`: events between tabs. `RefreshStatus`/`ReceiveStatus`, `TouchSession`/`ReceiveTouch`, `HearTouched`, `HearRevoked`, `Tick`, `SignOut`/`ServeSignOut`, `Remount`; answers are late, lost, or overtake each other |
| `StaffAccess` | `member[u]`: role, activity, password, session; `deed[u]`: a request between its checks and its write. `BeginRole`, `BeginName`, `BeginActive`, `BeginReset`, `BeginCreate`, `BeginPassword` with `Finish`; `SignIn`, `SignOutOf`, `PasswordLapses` |
| `AdminPages` | `page`: the page staff look at; `profiles`: the customers page, its list, selection, profile and open requests (`PickCustomer`, `SelectFirst`, `ProfileArrives`, `RefreshArrives`, `StartAnonymization`); `inspector`: the order in the title, the detail under it, requests, saved notes and reloads (`MoveTo`, `LoadOrder`, `DetailArrives`, `ChooseTransition`, `AddNote`, `ReloadArrives`); `list`: what a list was asked for, waits for and shows (`ChangeOrders`, `ChangeReviews`, `ChangeProducts`, `ChangeReport`, `TimerEnds`, `ListArrives`, `ArchiveAnswered`). `Abandon` is the abort, or the request number, that each page uses |

## 3. Runs

| Run | Instance | Shows |
|---|---|---|
| `capacity_dates` | 2 orders, 1 package, 2 dates, 1 season, volumes {1,2}, capacity 2, careful | `OnRecord`, `CompletedIsSettled`, `DeletionGivesBack`, `ReservedWithinCapacity`, `TypeOK` |
| `capacity_sizes` | 3 orders, 2 packages, 1 date, 1 season, capacities {2,3}, careful | `Balanced`, `ReleaseAlwaysPossible`, and `KeepsLedger`: the module implements `CapacityLedger` |
| `capacity_open` | 2 orders, 1 package of changing size, 1 date, 1 season that comes and goes over orders, not careful | What any staff can rely on: `HistoricalHoldsNothing`, `SoldOutNeverSells` (`CapacityRespected` proves the third, `ReservedWithinCapacity`) |
| `capacity_release` | 2 orders, 1 package, 1 date, 2 seasons, not careful | Violation: an order taken on a legacy row cannot be declined after a season covers its date |
| `capacity_locked` | as `capacity_release` | Violation: editing metadata of a completed order moves capacity |
| `intake_race` | 3 requests of one storefront form, 2 payloads, retries 1 and 1, no errors | `KeepsOncePromise` (refinement), `ReceiptMatches`, and the liveness property `AnsweredInTheEnd` |
| `intake_faults` | 3 requests of a storefront form and an API client, any statement may fail | `OneOrderPerKey`, `ReceiptKept`, `OrdersCovered`, `TypeOK` |
| `intake_fallback` | 2 requests of one form, errors | Violation: a form shows a receipt for something it no longer asks for |
| `settings_parts` | 2 members of staff, 3 payment methods, 2 themes and 4 versions, 2 dates and 1 order, 2 packages, 2 planner pages and a capacity of 2 | `AMethodRemains`, `LiveIsPublished`, `PublishedIsKept`, `PublishesWhatItShows`, `OrdersInWindow`, `EditRepairs`, `DefaultsKept`, `OrderedPackStays`, `PlannersActOnTruth`, `SettingsTypeOK` |
| `window_closures` | 1 member of staff, 2 dates | Violation: a date that staff closed is back on sale after the window shrank and grew |
| `back_office` | 2 clerks, runs, moderators, keepers, tabs, members of staff; 1 order, 1 review, 2 customer records; on a page 2 entries and 2 queries | `PageShowsTruth`, `BooksBalance`, `HandoverIsPriced`, `PicksWhatIsDue`, `RemindersAreQueued`, `PublicIsCleared`, `RollupTells`, `OrdersKeepCustomer`, `RetentionRechecks`, `NoEarlyGoodbye`, `ControlStays`, `PagesFollowStaff`, `OfficeTypeOK` |
| `stale_price` | 2 clerks, 1 order | Violation: a page with an old price passes the version check after a payment priced a historical order |

*Bounds.* Two dates and one season are what it takes for an order to sit on a
legacy row, a season row, or the other date. Capacity 2 with volumes 1 and 2
makes two orders fit, or one exclude the other, and lets an edit grow or shrink
within a row; capacity 3 in `capacity_sizes` lets staff cut capacity to the
limit while three orders compete. In `capacity_open` one order's edit must not
give back what the other holds, on a legacy row, a season's row, or the row of a
season that was deleted; its properties are proved for any number of seasons,
orders and dates (`HistoryHoldsNothing`, `SoldOutRowsNeverGrow`). Two seasons,
enough for an overlap, are in the two violation runs. In
intake the payloads need 1 and 2 of a capacity of 3: one key could be served
twice, so its orders are kept apart by the code and not by the row, and two
orders of the larger payload exclude each other; three requests are the smallest number with one committing while a second
replays and a third comes from the edited form. `MaxBusy` and `MaxOuter` stand
for the 10 and 4 of the code: 1 reaches every branch of the two nested loops.
Season statuses other than ACTIVE only order the seasons the intake query
returns; with equal statuses that order leaves ties to the start date, and the
choice stays nondeterministic. The proofs use none of these bounds.

*Bounds of the settings and the back office.* Every race in these parts is
between two calls, hence two callers. Three payment methods let two be switched
off at once while a third is not a party to it; two dates let a window shrink
and grow; four versions are a draft, a published and a superseded one and a
second draft. A capacity of 2 (`MostCapacity`) can be raised and lowered by a step with a
unit reserved. One order and one review are enough where the property speaks of
one order or one review at a time and calls on different ones share nothing but
the callers. The rating is the exception, a sum over reviews: `RatingTells` is
proved for any number of them. Two customer records are what a merge takes;
three were tried outside the listed runs, with the same result. Two members of
staff are the smallest list on which control can be lost, but not the largest
case: with three, one member can be suspended by a second while the second is
acted on by the third, and a request can fall on somebody promoted since it was
checked. `OvertakenBy` names both, and `ControlIsKept` covers any number.
`IdleTicks` 2 and `Lifetime` 3 let a session be prolonged once and then hit its
absolute end; `MaxDelay` 1 lets one answer be overtaken by another. `MaxItems`,
`MaxFee` and `CatalogPrice` 1 tell apart unset, zero and positive prices, and
a total below and above what was paid. A page overtaken by an
answer takes an older pick and a newer one, hence two entries and two queries;
three entries were tried outside the listed runs, with the same result.

*Symmetry.* Orders and requests are interchangeable: no definition picks a particular one (the CHOOSEs are over
packages, products, statuses and payloads). Symmetry is used in safety runs
only, never in `intake_race`, which checks liveness. In the settings two
members of staff are interchangeable, in the back office the two values that
stand for clerks, runs, keepers, moderators, tabs and customer records at once;
members of the staff list are not, as one of them starts the list.

*Fairness.* `FairSpec` assumes that an awaited read or the start of a
transaction comes back with some result: the driver resolves or rejects every
promise. Nothing is assumed of the holder of the write lock, of customers, of
staff or of the network. `AnsweredInTheEnd` therefore rests on the retry bounds
of the code, not on the lock being released; its mutant, which drops the
counter, retries for ever. The settings and back office runs are safety runs:
no code runs a call there again by itself, nobody is obliged to press a button,
and nothing in the repository consumes the outbox, so there is no fairness to
justify and no liveness to state.

*Deadlock* is checked in the capacity runs. The intake runs switch it off
because the instance has finitely many requests and ends when they are used up;
the back office runs, because a session, a deleted order and a day do end.

## 4. Proofs

**OrderCapacity, any team.** `BaseInv` is `TypeOK`, `ReservedWithinCapacity` and
`AbsentRowsEmpty` (a row nobody created is empty; without it `IntakeOverride`
could create a row with a reservation already on it). Each action keeps it, one
lemma per action; `TypeCorrect` and `CapacityRespected` follow. So the CHECK
constraint of the availability table never fires, whatever staff do.

**OrderCapacity, a careful team.** `CarefulInvariant`, `LedgerBalanced`,
`RecordFindsRow` and `ReleaseNeverFails` assume `Careful`. `CarefulInv` adds
`LegacyRowsOffSeason` (a legacy row stands only where no season does),
`SizesKept` (an order's volume is what its package measures), `HeldOnRows`,
`OnRecord` and `Balanced`. None is inductive alone. An edit releases on a row it
finds in the calendar, so `Balanced` needs `OnRecord` to know that this is the
row held; `OnRecord` needs `LegacyRowsOffSeason` to know that the calendar names
that row; and the release condition needs `Balanced` to know that enough is
reserved. Sums are cardinalities of sets of claims (`CapacityLedger!Claims`),
one element per millilitre, so the arithmetic of a reservation is cardinality
of a disjoint union, and no induction over orders is needed.

**OrderIntake.** `IntakeInv` is `TypeOK`, `LockHolds` (the holder of the lock is
the one call in its transaction, and no order of its key exists), `CallsCarry`
(a call carries an order with its own id), `AnswersKept`, `ReceiptKept` and
`OneOrderPerKey`. `LockHolds` is the point: the second read under the lock
excludes what the first read missed. It holds for any number of forms, requests,
errors, crashes and any retry limits. `ReceiptsMatch` and `KeepsPromise` assume
`NoFallback`: there are no public forms, or no errors. `MatchInv` adds that every
answer is about the call's own key and payload, and that a form waits for the
call that carries what it sent last. `KeepsPromise` maps each step to a step of
`OnceOnlyOrders` or a stutter. The assumption is necessary: `intake_fallback`
is the counterexample without it.

`CapacityCoversOrders` needs `CoveredInv`: the orders that exist claim no more
than is reserved, and while a transaction is open its order still fits. The
second part carries what `Begin` compared to the moment of `Commit`, and it holds
in between because nobody else can write. What orders claim is a set with one
element per millilitre, as in the ledger.

`RequestsEnd` is the part of `AnsweredInTheEnd` that needs no fairness. `Budget`
weighs the attempts that `MaxBusy` and `MaxOuter` leave a request, and the phases
left in this attempt; every step of a request lowers it, a retry because the new
attempt costs more than going back to `PRIOR` regains (`BudgetShrinks`). So a
request takes at most `Budget(Idle)` steps. That it takes the next one is
fairness, and remains with TLC.

**The abstract specifications.** A refinement is worth what the abstract
specification says. `PromiseIsKept` shows that whatever implements
`OnceOnlyOrders` has one order per key and tells the truth in its receipts;
`LedgerNeverOverbooks`, that whatever implements `CapacityLedger` overbooks no
place: an operation checks the place it moves a holding to, and the others carry
no more than before (`HeldElsewhere`).

The theorems rest on named assumptions about the constants (`CapacityConstants`,
`IntakeConstants`, `PagesConstants`, and one per other part), which TLC evaluates in every run of a
module that extends theirs.

**OrderCapacity, the rest of its properties.** `HistoryHoldsNothing` and
`SoldOutRowsNeverGrow` hold for any team, from `BaseInv`: the first with
`IdleInv` (an unused or historical order holds nothing), the second because
every way to reserve asks for a row that is not sold out, and an edit that
returns a volume to a sold-out row can only lower it. `CompletedStaysSettled` and
`DeletionReturnsVolume` assume `Careful`: a completed order's volume is what its
package measures (`SizesKept`), so an edit never finds it changed, and the
release a deletion attempts always finds its row (`LiveIsReleasable`), so that
the branch that ignores a failed release is not taken. `ImplementsLedger` is the
refinement: intake is `Reserve`, an edit that changes capacity is `Move`, a
transition or deletion that gives back is `Release`, every other step is `Plan`
or a stutter, and `Balanced'` with `ReservedWithinCapacity'` gives the ledger's
own guard, that no place is overbooked.

**The other parts.** Each has an inductive invariant of its own, and each is
proved of the part's own specification, for any number of callers, records,
dates, versions and prices.

| Module | Invariant, and why it is needed |
|---|---|
| `PaymentMethods` | `MethodsInv`: unless calls overlapped, at most one call is switching a method off and another method is on beside it (`DisablesAlone`): what the count saw still holds at the write |
| `PackageCatalog` | `PacksInv`: what each kind of call may still count on when it writes (`PackCallHolds`): a new id is still unused, a default written back is on sale, a package being deleted is not ordered, or counted among those that outran the deletion |
| `ProductWindow` | `WindowInv` (and `RowsCount` for `RowsCountOrders`: a date's row counts the orders on the date): at each statement of an edit that nothing overlapped, which orders are inside, which rows are already closed and which are listed to reopen (`EditHolds`); and a row the window closed accepts nothing |
| `StorefrontThemes` | `ThemesInv`: one draft and one published version, the live theme is its theme, and a page whose draft still is one shows its theme, unless it was saved again (`PageHolds`) |
| `CapacityPlanner` | `PlannerInv`: a date outside the window is shut by the window; a copy that may still be saved is the row, but for flags an edit of the product changed unseen, and then a date inside the window is on sale (`CopyHolds`): an old page can shut it, never open it |
| `OrderDesk` | `DeskInv`: the total is the sum of items and fee, a pickup has no fee, and no page shows an order that does not exist yet; without the sum, a change of one part would not carry over to the total a handover asks for. `OrdersMoveForward` ranks the statuses along the transition table (`Progress`) and shows that no operation goes back |
| `OrderAutomation` | `AutomationInv`: a listed order not marked as changed is still due (`ListedAreDue`), and the reminder a run is about to enqueue was raised (`KeysHeld`) |
| `ReviewBoard` | `ReviewInv`: what each call is about to write is what the review's acknowledgement and status allow, unless it was overtaken (`ReadHolds`), and a call that will not count leaves the number of approved reviews alone unless it was; the rollup is right whenever nobody is counting |
| `CustomerRecords` | `CustomersInv`: every order names some record, and a merge under way two different ones. `ErasureHolds`, from the same, is an action property: a record that is gone stays gone, and only an edit brings contacts back into an anonymized one |
| `StaffAccess` | `StaffInv`: a request against a member is of somebody else who was active with a password of their own, and an administrator if the target was one (`Sound`) |
| `SessionTabs` | `TabsInv`: nobody was told of a later end than the session has (`NobodyToldMore`), and the session ends by `until + lag` of each tab that has heard everything (`TabsKnowTheEnd`). A tab counts from the moment an answer reaches it, so its clock is late by the time the answer took; that is why a late answer to a touch may set `until` back and still no tab leaves early. What a tab has not heard is on its way, or counted in `missed` (`WordUnderWay`) |
| `AdminPages` | `PagesInv`, one part per page: the customers page waits for one profile at most, that of the selected customer; the inspector for the order it was moved to, but for a note or reload marked `stray`; a list for what it asked for last |

The proofs found an error in an earlier form of `PackageCatalog`: the arms of
the `CASE` that computes what a call writes were not exclusive, so TLC, which
takes the first, and the logic, which may take any, disagreed. The arms are
exclusive now.

**The compositions.** `OfficeRunsItsParts` and `SettingsRunTheirParts`: a
behaviour of `BackOffice` or `ShopSettings` is a behaviour of each of its parts,
as a step of another part is a stutter for it. So every theorem about a part
holds of the whole (`OfficeIsSafe`, `SettingsAreSafe` list what the runs check),
and the types of the parts are the types of the whole (`OfficeTyped`,
`SettingsTyped`). The argument does not lean on `focus`: it would be the same if
any part could move at any step. For the types two more facts were needed: a row of `ProductWindow`
never counts fewer orders than none, which follows from `RowsCount`, and what an
edit is to save is a window (`WindowsSaved`).

**Only model-checked.** `AnsweredInTheEnd`, which is liveness: the provers have
neither `ENABLED` nor fairness, and `RequestsEnd` is as far as a proof goes. All
other properties that a passing run checks are stated by a theorem. What the
violation runs check is false, as they show.

## 5. Findings

1. *Code* (`capacity_release`). `transitionOrder` looks a row up again from the
   calendar of today when the order has no season. An order reserved on a
   legacy row, then a season created over its date: the release matches no row
   and throws `Capacity release invariant failed`, and the order can neither be
   declined nor cancelled.
2. *Code and comment* (`capacity_locked`). `updateManagerOrder` says that items
   and pricing are locked on completed orders, and computes the volume from the
   package of today. After a resize, saving metadata moves capacity.
3. *Code and plan document* (`intake_fallback`). The design says that a key with
   another payload is answered `IDEMPOTENCY_CONFLICT`. After an error that is not a
   busy one, `submitOrder` answers with the receipt of the order the key has.

4. *Code and comment* (`window_closures`). `updateProduct` says that closures by
   staff remain when the window is expanded. Shrinking the window overwrites
   the reason of every row outside it, a member of staff's too; the next
   expansion takes the row for one of its own and reopens it.
5. *Code and document* (`stale_price`). `docs/domain/invariants.md` says that
   mutable order operations use the version. `recordPayment` prices a historical
   order that has no price and leaves the version: a page opened before passes
   for current with the old price.

Noticed on the way and not a run: the manual order page
(`manual-orders-workspace.tsx:160`) sends no `idempotencyKey`, which the route
it posts to requires.

Excused by `PlannersActOnTruth`, or beside it, as the repository promises nothing
about them:

* `updateProduct` writes the flags of rows without counting the version
  (`products.ts:170`). A planner page read while the window had a date closed may
  still save after the window has grown: it shuts the date again, as the member of
  staff only meant to change its capacity. From the capacity dialog, which says
  nothing of `acceptsOrders`, the row is left accepting but sold out, with the
  window's reason: a state no later edit of the product reopens.
* Applying a plan names no version of its preview, and takes the sold-out mark off
  every date in it, whoever froze it (`availability.ts:526`). A frozen date goes on
  refusing storefront orders, as a plan leaves `acceptsOrders`; a manual order gets
  through.
* Choosing a season asks with the season chosen before
  (`availability-workspace.tsx:158`): from one season to another, the page shows
  no row until it asks again.
* After its own save a page may be given the rows of up to two seconds before
  (`use-availability-query-controller.ts:14`): its next save is refused.

Excused by `RollupTells`, as the repository promises nothing about it: the change
of a reviewer's name counts again only if the status it writes is not the one it
had read (`reviews.ts:947`). It may read a review that waits for confirmation,
and write that status back after the review was confirmed and approved: the
review is no longer public, and stays in the rating until the next count. The
excuse holds only for a review that was written between the read and the write
(`overlapped`), so a call nobody overtook has to count.

Excused by `PagesFollowStaff`, as the repository promises nothing about them:

* The order inspector does not give up the reload that follows an action or a
  note (`order-inspector.tsx:58`). Moved on before it comes, the inspector has the
  title of one order over the detail and the actions of another.
* The dialog that confirms an anonymization names, and acts on, the profile of
  each moment (`customers-workspace.tsx:1205`, `:266`): opened while another
  profile loads, it changes under the reader.
* The refresh after archiving orders is the one of the render in which it began
  (`use-order-bulk-action-controller.ts:34`), so the list of an earlier filter
  replaces that of the later one.
* A failed load of the products page is silent (`products-workspace.tsx:105`): the
  list of the earlier filter stays.

## 6. Not modelled, and why

*In intake and capacity.* Row and order versions, reasons, contact channels,
cutoffs and active flags can only refuse an operation that another legal input
performs, so leaving them out adds behaviours and removes none. Notifications
and snapshots are written in the intake transaction and touch nothing modelled
here. An order's package stands for package and quantity.

*At the desk.* Notes and delivery exceptions only add rows that nothing else
reads. List, queue and triage views are queries.

*At the planner.* The cutoff override itself, planning a date that has no row
(`OrderCapacity` has it), and who may press which button. A save is one step from
the page to the row: a request delayed on its way names its version all the same.
The statements of `updateProduct` are one step here and apart in `ProductWindow`.

*In the settings.* Instructions, merchant details, names, photos and the order
of lists are data without a rule; archiving and deleting a product are guarded
by the same references as deleting a package.

*In the back office.* Texts and replies of reviews, links to orders, the
switch that hides all reviews; names, notes, consent and the conflict mark of
customers; permission grants (anybody may have been granted the management of
users), the audit trail and rate limits. The role CONTENT_CREATOR is treated by
the modelled checks as STAFF is. A revocation of sessions by staff is the same
step as a sign-out. A merge of a record with itself is left out, as the page
offers the other records only. Foreign keys are not assumed to be enforced: no
code switches them on for the server's connections. Where they are, they can only
refuse a deletion, of a season that rows or orders name for one. Filters of the notification
list by severity and text are left out, and no worker consumes the outbox, so
its delivery is not modelled.

*Pages.* `AdminPages` takes four facts from the framework: a timer of no delay
runs before the next click, an open dialog covers what is beneath it, a filter
and the page number it resets change in one render, and leaving a page ends what
it waited for. The state a page writes into its own address, a report with an
invalid range, and the shared cache of queries are left out. Two pages are left
out because they give up nothing, so that no order of answers could be promised:
the details of a member of staff, whose `abort` has no controller to act on
(`users-workspace.tsx:265`), and the search that links a review to an order
(`link-identity-modal.tsx:47`).

*Rendering, reports and search.* About 23,000 of the 42,000 implementation lines are
components that render and style what they fetch, with no state a property
could see; reports, dashboard, search and triage are queries; the rest of the
remainder is validation and formatting of requests, texts and translations,
seeds and scripts of the build. The modelled share of the implementation is
therefore about an eighth of its lines, and most of its rules: every domain
operation that changes state and that another operation's guard depends on is
in a module. The pages whose contents go stale under an operation, or under their
own requests, are modelled.

## 7. What is left

The other pages of the back office, once they give up the requests they no longer
wait for. A specification of the deployment: several server instances and the
migration of the database are configured outside the repository, and
`OrderIntake` takes from them only that there is one writer. If a worker for the outbox is written, `OrderAutomation` is where its deliveries and
retries belong, and with them a liveness property. If overlapping seasons get a
rule, `IntakeSeasons` and `Resolves` should be shown to agree on it.

## 8. Running

    tlc -workers 2 -config OrderCapacity_dates.cfg MC_OrderCapacity.tla
    tlc -workers 2 -config OrderIntake_race.cfg MC_OrderIntake.tla
    tlc -workers 2 -config ShopSettings_parts.cfg MC_ShopSettings.tla
    tlc -workers 2 -config BackOffice_parts.cfg MC_BackOffice.tla
    tlapm OrderCapacityProofs.tla
    tlapm ShopSettingsProofs.tla
    tlapm BackOfficeProofs.tla

The other runs and proof modules go the same way; `PROJECT.json` pairs each
configuration with its module.
