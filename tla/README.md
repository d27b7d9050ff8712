# A TLA+ model of JEronAI Operations

This directory holds TLA+ specifications of the operations tracker in `src/`
(FastAPI, SQLAlchemy, one SQLite file), the TLC configurations that check them on
small instances, and TLAPS proofs about the stock ledger, the business day (with and
without overlapping requests), the refunds and the invoice of a sale, the documents, the
start of the program and its backups, for instances of any size.
`PROJECT.json` maps every definition to the lines it models.

## The system

| component | state | operations | what makes it correct |
|---|---|---|---|
| inventory (`services/inventory_service.py`) | ledger of stock movements; product totals and location balances cached beside it; reservations | receipts (draft, line, post, cancel), reserve, release, dispatch, reverse, issue for a sale, return, transfer, repair | caches reproduce the ledger; reserved goods are on the shelf and can always be delivered; goods are neither lost nor counted twice |
| delivery notes (`routes/jobs.py`) | note, rows, what became of the goods of each row | add and delete rows, dispatch, delete, convert | a row's goods are reserved, issued or back in stock, one of the three |
| sales engine (`services/sales_service.py`) | sales, lines, payments, refunds | sale from lines or a document, refunds by amount or by line, seller correction, invoice hand-off | one sale per document; refunds within what was sold |
| cashier shifts | shifts, cash movements | open, move cash, close | one open shift per seller and per register; the cash counted is the cash recorded |
| daily closing | closing per date, versioned snapshots | close, reopen | a closed date stands still and equals its snapshot; versions are never lost |
| documents (work orders, quotes) | jobs and rows, numbers, print snapshots | create, update, clone, convert, delete, print | one copy per type, numbers that stand once printed, no deletion of referenced documents |
| invoice follow-up | settlement status and dates of a sale | transfer, confirm paid or unpaid, remind | an invoice that is not paid comes back to the queue |
| master data | products, barcodes, customers, suppliers, users, registers, settings | create, update, import | unique names |
| backups | backup files, scheduler thread, maintenance depth | back up, restore, retain | a restore can be undone; retention leaves a complete backup; the last content is backed up |
| migration bootstrap | schema and Alembic version of the file | classify, back up, stamp, upgrade, start | the stamp tells the truth; a changed file was copied first; a restart continues; a served file is complete |
| reports, dashboard, audit log | none of their own | queries, append | - |

The components meet in the database. A sale of a delivery note calls the
inventory (`_consume_delivery_note_item_reservations`) inside its own
transaction, a line refund calls `return_stock_for_refund`, every write to the
cash side asks `assert_business_date_open`, and every posting asks
`assert_inventory_cache_consistent`.

**How requests run.** A request is served by a worker thread with a session of
its own (`autoflush=False`). The services read and check first; these SELECTs run
outside a transaction. The first flush takes SQLite's write lock, which is kept
until commit or rollback, and the ORM writes the absolute values it computed. A
`ValueError` rolls the whole request back. So a request that is not overlapped by
another is atomic, and one that is overlapped is a *read* step and a *write* step:
only unique indexes and triggers are evaluated at the second. The modules are
split along that line: `StockLedger` and `CashDay` let requests run one after the
other, `CashRaces` and `Documents` let them overlap, and so does `Settlement` for the
follow-up of the invoice. Routes declared `async` without an `await` of their own run
to their end on the event loop; two of them never overlap.

Two more things run beside the requests. The backup scheduler is a daemon thread
that wakes after an interval, backs up and deletes old backups; its retention, the
retention of backups asked for on the page and a restore share one directory
without a lock. And every start of the program works on the database file itself:
`python -m app.migration_bootstrap`, then the application's own start, either of
which can be killed between two commits.

**What is hard here**: long sequences of legal calls on a delivery note and its
sale (reserve, dispatch, sell, delete, refund, restock in any order), caches
updated by hand in a dozen places, the same figure counted in two ways (a stored
shift figure or a fresh sum), closing and reopening dates, check-then-write races,
documents that are committed before they are numbered, settings written back from an
old read, rounding of parts that must add up, retention on lists that are out of date,
and a file that can be at any of fourteen schema revisions, half migrated, or put back
from an older one. `PROJECT.json` lists the hazards at their lines.

## Modules

`Totals` defines sums over rows as the number of their units. That makes every
fact about sums a fact about cardinalities of finite sets, provable without
induction over data; `TotalTheorems` proves them.

`StockLedger` is the stock side of the inventory service, of the delivery note
routes and of the sales engine.

| variable | code |
|---|---|
| `stock` | `Product.current_inventory_quantity` |
| `onHand`, `reserved` | `InventoryBalance.quantity_on_hand`, `quantity_reserved` per shelf (product and location) |
| `ledger` | sum of `InventoryTransaction.quantity_change` per shelf |
| `receipt`, `lines` | `GoodsReceipt.status`; its lines, merged per shelf |
| `row`, `qty`, `alloc` | a `JobItem` of a delivery note, what became of its goods, its quantity and its `InventoryReservation` rows per location |
| `note` | whether the note is open, has a `Sale`, or is deleted |
| `sold`, `refunded`, `restocked` | `SaleLine.quantity` and the sums over its `RefundLine` rows |

An action is a whole committed request: `CreateGoodsReceipt`,
`AddGoodsReceiptLine`, `PostGoodsReceipt`, `CancelGoodsReceipt`,
`AddDeliveryNoteItem` (with its reservation, first fit in location order),
`DeleteDeliveryNoteItem` (release or reversal), `DispatchDeliveryNote`,
`DeleteDeliveryNote`, `SellDeliveryNote`, `SellFromStock`, `RefundSaleLine`,
`RestockRefundedLine`, `TransferStock`. The consistency check that guards the
postings is a guard (`Consistent`), so a cache that went wrong would block them
as it does in the code. Abstracted: prices, costs and the value columns, users,
activation flags, `quantity_available` (always on hand minus reserved). A counter
sale is taken line by line; the lines of one receipt on one shelf are added up; a
product stays a stock product (`is_stock_item` is not switched) and row ids are not
used twice. Removing a row whose goods a sale consumed changes no quantity and is
not a step. The guards on deleting printed or cloned documents are refusals, which
are no steps either.

`DayBook` is what the daily closing promises: figures of a date are recorded only
while its book is not closed, closing archives the book under the next version,
nothing archived changes. `CashDay` is the code: shifts, cash movements, sales and
refunds with or without a shift, closing and reopening with the checks of
`sales_service.py` in the `May*` operators and what is stored in the `Store*`
operators. Its `Figures` are those of `build_daily_closing_snapshot` per seller and
per shift (the code stores the sum over shifts of the last). `BookKept` is the
refinement: book = the figures the code would compute now, state = the closing's
status, archive = the stored snapshots. Both kinds of refund, by amount and by
line, are `AddRefund`. Abstracted: VAT, discounts, the counted amount, roles,
sales without a credited seller, payment methods other than cash or not cash.

`CashRaces` extends `CashDay` and splits every request at the write lock. A worker
remembers what it read (`pending`) and later writes just that. It reuses the
`May*` and `Store*` operators, so both modules describe the same services.

`Settlement` is one sale after it is recorded, in whole cents and whole units.

| variable | code |
|---|---|
| `lines` | `Sale.lines`: quantity, total, cost, whether it is a stock line, VAT rate |
| `back` | per line the sums over its `RefundLine` rows: quantity, gross, and of the restocked ones quantity and cost |
| `refunded`, `status` | the sum over `Sale.refunds`; `Sale.status` |
| `settlement`, `due`, `followUp` | `Sale.settlement_status`, `due_date`, `next_follow_up_at` |
| `task` | the columns of the UPDATE a follow-up request is about to commit |

`AddRefund` and `AddLineRefund` are whole requests. The four follow-up requests
(`TransferToInvoicing`, `ConfirmPaid`, `ConfirmUnpaid`, `ReminderSent`) are a read, in
which `AskUpdate` settles which columns the ORM will write, and a `Commit`; they
overlap. A column whose new value equals the one read is left out of the UPDATE. The
follow-up time is the exception: it is read without a zone, set with UTC, and so always
written. That asymmetry is what saves the follow-up of an invoice when two requests
overlap, and the mutant that removes it is caught. `invoice_follow_up_status`, the
alerts and the queue's default view are operators over the state and the day.
Abstracted: prices are totals of lines; VAT amounts, the amount confirmed as
received, shifts and users are left out.

`Documents` is work orders, quotes and delivery notes with their numbers, print
snapshots, copies and sales.

| variable | code |
|---|---|
| `docs` | `Job` by id: type, `source_job_id`, `receipt_number` |
| `prints` | `Receipt` rows, the printed snapshots |
| `sales` | `Sale`: `job_id`, idempotency key, `sale_document_number` |
| `next`, `nextSale` | the settings of the two number sequences |
| `task` | where each request is, and what it has read |

A step is what a request does between two points where another can commit:
`create_job` commits the document and then numbers it (`Create`, `ReadNumber`,
`WriteNumber`), a print numbers first where it has to (`AskPrint`, then
`ReadSnapshot`, `InsertSnapshot`), a deletion checks and erases (`AskDelete`,
`Erase`), a conversion checks and clones (`AskClone`, `Clone`), a sale checks and
inserts (`AskSell`, `Sell`), a change of language reads and writes back every setting
(`AskLanguage`, `StoreSettings`). Unique indexes are guards of the second step. A
killed process loses what it had not committed (`Kill`). An id is given again
(`NewId`), as SQLite does without AUTOINCREMENT. Abstracted: a document's rows, stock,
texts and status. `crossed` remembers the documents two requests worked on at once:
without that excuse the last three properties fail (a print beside a deletion, a copy
beside a deletion, two copies at once), since the checks are reads before the write
lock; the hazards name those lines. `SaleNumbersSequential` and `SoldOnce` have no
excuse, because each stands on one transaction with unique indexes.

`Backups` is the running program's backup directory. A step is what one thread does
between two points where another matters to it: create the file, fill and check it
(`Copy`), list the directory (`List`), delete what the list has too many (`Prune`),
replace the database (`Replace`), commit a write (`Commit`). `AskWrite` is a request that
`block_writes_during_maintenance` refuses while a restore runs. `AskPrint` is a page that
is printed for the first time: a GET, which the same function always lets through,
although `ensure_receipt_number` and `ensure_print_snapshot` commit. The two commits are
one in the model, and the action stands for the other pages that insert rows when they
are first shown (default statuses, roles, the default warehouse).

| variable | code |
|---|---|
| `live` | the content of the database file |
| `shelf`, `content` | the backup files by modification time, and what each holds |
| `task` | what each thread is doing: the file it fills, the one it restores, what its list says to delete |
| `depth` | `_maintenance_depth` |
| `crossed` | whether the restore began beside a write or another restore, or a list was made beside it while the newest files were crowded out |
| `printed` | whether a first print was asked for since a restore that still runs began |

A failed copy leaves its file, a killed process leaves half a file, and both count in
retention as they do in the code. The scheduler's interval ends whenever it does, also
beside a restore or a manual backup (`IntervalBeside`, one of the events `MaxEvents`
counts). When no request works on the files (`IntervalAlone`, any number of times) their
names are renumbered, which keeps the state finite without changing anything the threads
can tell apart. The setting of the number of files kept is not validated; the model assumes
one or more (none would delete every file). Retention can still delete the last complete
copy: when a list is made while each of the newest `Keep` files is empty or on another
thread's list, the one complete file is beyond them. `Crowded` is that moment; it excuses
`CompleteRemains`, and through `crossed` `ReplacesWhatIsSaved`. The latter also excuses
`printed`; `SafetyBackupIsCurrent` is the same without that excuse, and fails. Abstracted: audit rows, the
order of files with equal times.

`SchemaHistory` is what each of the fourteen migrations adds, what an application
start adds by itself, and how `classify_schema` recognises a file. An object stands
for the tables, columns, indexes and settings of one revision that are created
together; `Exact[r]` is the schema after revision `r`. `Startup` is the program coming
up on a file.

| variable | code |
|---|---|
| `db` | the file: objects, Alembic stamp, whether a finalized sale has no number, whether rows await a backfill |
| `copies` | backups, of this run and of earlier versions |
| `phase`, `matched`, `plan`, `seen` | where `run_bootstrap` is, what it classified, planned and inspected |
| `statement` | DDL statements of the running migration that are already committed |
| `origin` | whether the file served came through the bootstrap, the bare application, or a restore |

`Inspect`, `Plan`, `Refuse`, `BackUp`, `StampFile`, `Migrate`, `CommitMigration` and
`FailMigration` are the bootstrap; `CreateTables`, `AddMissingColumns` and `Serve` the
lifespan of the application; `StartWithoutBootstrap` is uvicorn alone. DDL before the
first row a migration writes is committed statement by statement, the rest with the
stamp. The initial files are those of every revision, stamped or not, and unstamped
ones that lack an object or have one too many.

## Runs

| run | instance | shows |
|---|---|---|
| `stock_ledger` | one product, two locations, a receipt of up to 3 units, one note with two rows, one counter row, quantities 1 and 2 (617 k states) | `TypeOK`, `CachesFollowLedger`, `ReservationsBacked`, `NoOverReservation`, `ReservationHonoured`, `StockAccountedFor` |
| `stock_sold_row` | the same | `SaleKeepsItsIssue` fails: a row of a dispatched and sold note can be removed, and its goods return to stock |
| `cash_day` | shifts optional; one seller, shift and sale of 2, two refunds, two dates, two closings (562 k) | `TypeOK`, `ClosedShiftCounted`, `RefundsWithinTotal`, `VersionIsLatest`, `BookKept` |
| `cash_day_required` | shifts required; two sellers and shifts on one register, two dates (637 k) | `OneOpenShift`, `DayClosedAfterItsShifts`, `BookKept` |
| `cash_races` | two workers, five requests, two sellers, registers and shifts (228 k) | `OneOpenShift` holds because of the two partial unique indexes |
| `cash_races_closed_day` | two workers, four requests, no shifts | `ClosedDayMatchesSnapshot` fails: a sale checked before the closing commits after it |
| `settlement` | four baskets whose lines do not divide by their quantities, refunds by amount of 1 and 4 cents, two follow-up requests, four requests, three days (273 k) | `TypeOK`, `LineRefundsAddUp`, `RestockedAtCost`, `StatusFollowsRefunds`, `PassedDateAlerts`, and that `InvoiceIsFollowedUp` |
| `documents` | two requests at once, two types, three documents, five requests or kills (1.07 M) | `TypeOK`, `SaleNumbersSequential`, `SoldOnce`, `PrintedNumberStands`, `HistoryStands`, `OneCopy` |
| `backups` | the scheduler and two request threads, two backups kept, one write or print, two events: requests, intervals beside them, failures or kills (202 k) | `TypeOK`, `CompleteRemains`, `ReplacesWhatIsSaved`, and that `MaintenanceEnds` and `ContentIsBackedUp` |
| `backups_print` | as `backups` | `SafetyBackupIsCurrent` fails: a page printed for the first time beside a restore is replaced and in no file |
| `startup` | 649 initial files, one fault, one start without the bootstrap, one restore (187 k) | `TypeOK`, `StampKept`, `ChangesAreBackedUp`, `ConsistentUpgradeRuns`, `KillLeavesConsistent`, `ServesComplete`, and that `ConsistentIsServed` |
| `startup_numbering` | the files of `startup` without older backups, no fault | `StampedIsNotRefused` fails: a file stamped before the numbering revision, with a finalized sale, is refused |

Bounds. Two locations are the least with which a reservation can be split and a
transfer can happen; two rows of one note make dispatch of several rows, a row left
behind and a row released beside an active one happen; three units let one row be
reserved while another sale, transfer or cancellation competes. Two dates are the
least for a refund on another day than its sale, two closings for a version 2
after a reopening, two refunds for partial refunds adding up. In `CashRaces` two
workers are enough for every pair of overlapping requests, and five requests for two
openings, a sale and a closing around them. In `Settlement` a line of three units for
10 cents rounds both ways, one of four units for 2 cents has parts worth nothing, and
two rates refuse refunds by amount. In `Documents` three ids let an id be given again
while a copy of its former owner is there, and five events are a copy, its source's
sale and print, a deletion and a change of language. In `Backups` two files kept are
crowded out by two unfilled ones, or by one and a list, with the threads there are; two
events let a restore fail or be killed beside a backup, or two restores overlap. (Two
restores of which one fails would need three; `FilesStayWellFormed` proves for any number
that the depth of maintenance is the number of restores under way.) In `Startup` one fault
can fall at every commit of a start, and every later start runs on what it left. `MaxReceived`, `MaxClosings`, `MaxDrawer`,
`MaxRequests`, `MaxEvents`, `MaxWrites`, `MaxId`, `MaxFiles`, `Horizon`, `MaxFaults`,
`MaxReloads` and `MaxRestores` are bounds of the model, not of the code; none of
them is needed by the proofs beyond being a natural number.

### Fairness, and runs that may stop

Requests come from users, who owe the system nothing, so no request is fair. What
runs without a user is:

- `Startup`: `WF(BootstrapStep)` and `WF(StartStep)`. A started process runs on, and
  a process that ended is started again (`restart: unless-stopped` in
  docker-compose.yml; the image's command is the bootstrap and then uvicorn).
  Faults, restores and starts by hand are not fair.
- `Backups`: `WF` of each thread's steps, of `Interval` (the scheduler's loop waits
  for its event with a timeout) and of `Start`. Failed copies and kills are not fair,
  and are finitely many by the bound `MaxEvents`; what `ContentIsBackedUp` says is
  that nothing they leave behind stops the backups after them.
- `Settlement`: `WF(NextDay)`. Days pass. The commits of the follow-up need no
  fairness: a request that dies changes nothing, and the sale is still followed up.
  Follow-up dates lie before the horizon, so nobody postpones an invoice for ever.

A run in which only users act may stop, and the bounds end the others: deadlock is not
checked where the configuration says so. `Startup` and `Backups` never
stop, and there it is checked.

Each property of a passing run has a mutant in `PROJECT.json`: a plausible slip in
one definition (cancelling against the product's stock instead of the shelf's, a
reversal that forgets the product total, a note deleted by cascade, retention that
keeps the oldest, a plan that skips the backup, and so on) that the run must catch.

### What the failing runs say

1. `delete_job_item` (`routes/jobs.py:611`) reverses the issue of a dispatched row
   although the note has a sale that reports this issue as its cost. Deleting the
   note is refused in that state; deleting its row is not.
2. README.md:168 of the repository says a closed date blocks sales. The check
   (`assert_business_date_open`) is a read before the write lock, so a sale that
   passed it lands on the date after the snapshot was taken.
3. docs/Database.md:58 says a stamped database is upgraded normally. `classify_schema`
   runs first for stamped files too, and (migration_bootstrap.py:1042) does not
   accept a finalized sale without a document number at any revision, although it
   is the numbering revision that would fill the numbers in. A file of revisions 1 to
   6 with such a sale is refused, stamped or not.
4. README.md:325 says a restore makes a safety backup before it replaces the database.
   Maintenance keeps writes out between the two, but by method (`main.py:88`): a receipt
   page read with GET is let in, and the first time it numbers the document and stores
   its print snapshot. The trace of `SafetyBackupIsCurrent`: the restore fills its safety
   file, the page commits, the database is replaced; the printed paper then has a number
   and a text that neither the database nor any backup knows.
   tests/test_backups.py:106 checks that a POST is refused.

### Seen on the way

Behaviour met while modelling that no run refutes, or that a property excuses by name:

- README.md:166 of the repository says all shifts must be closed before a date is closed;
  `create_daily_closing` enforces it only with `require_cashier_shift`, off by default
  (tests/test_sales_cash.py:375 expects a day with an open shift to close). The open shift
  cannot be counted until the date is reopened. `DayClosedAfterItsShifts` is therefore
  stated of the run that requires shifts.
- A restore whose selected file is deleted by another thread's retention after its
  validation opens, and so creates, an empty file and puts it in place of the database
  (`Replace`); the safety copy taken before is what remains.
- An application started without the bootstrap, or a migration killed between its
  statements, can leave a schema ahead of its stamp, which the bootstrap then refuses
  at every start until someone puts a backup back (`~Consistent`).
- A file that is still being filled, or whose copy failed, counts as a backup. As many of
  them as files are kept, or files another thread is about to delete, crowd the only
  complete copy out of the newest, and the next retention deletes it (`Crowded`).
- The scheduler waits a full interval after a start before its first backup, so a
  program restarted more often than that never backs up by itself.
- `confirm_invoice_paid` accepts any amount, and a confirmation overlapped by a request
  that read the sale before it can be lost; the sale then comes back to the queue,
  which is what `InvoiceIsFollowedUp` requires.
- `create_sale_from_lines` without a job and without a key is not protected
  against a form sent twice.

## Proofs

`StockLedgerProofs` proves, for any finite sets of products, locations, receipts,
notes and rows and any quantities, that `Spec` implies `[]TypeOK`,
`[]CachesFollowLedger`, `[]ReservationsBacked`, `[]NoOverReservation`,
`[]ReservationHonoured` and `[]StockAccountedFor`.

The inductive invariant is `TypeOK` with `CachesFollowLedger`,
`ReservationsBacked`, `NoOverReservation` and `AllocationsComplete` (the
reservations of an active or issued row add up to its quantity). None is inductive
alone: that `reserved` never drops below zero in a release needs it to be
the goods of the active rows; that a dispatch does not make `stock` negative needs
the reserved goods to be on the shelf and the product total to be the sum of its
shelves; and that a dispatch is never refused needs complete allocations.
`StockAccountedFor` is then proved as a second invariant over the first, action by
action, by splitting each of the four sums at the row, receipt or line that the
action touches.

The assumptions are those the modules state: finite sets, locations that are
numbers (their ids, which order the shelves), rows with one note and one product.
All sums go through `TotalTheorems` (`TotalPlus`, `TotalMinus`, `TotalSplit`,
`TotalExchange`, ...), themselves proved from the cardinality theorems of the
library.

`CashDayProofs` proves, for any finite sets of sellers, shifts, sales, refunds and
dates and any registers, prices and amounts, that `Spec` of `CashDay` implies `[]TypeOK`,
`[]OneOpenShift`, `[]ClosedShiftCounted`, `[]RefundsWithinTotal`,
`[]VersionIsLatest` and `BookKept`, and, where shifts are required,
`[]DayClosedAfterItsShifts`. Each strand has its own small inductive invariant over
the types; `RefundsWithinTotal` needs `RefundsOfSold` beside it (a refund is of a
sale that exists and of a positive amount), since otherwise a new sale could find
money already refunded. The refinement rests on one frame lemma per request: the
request leaves the figures of every date but the one it checked alone, and counting
a shift leaves all of them alone, because the figure stored is the figure a fresh
sum would give. Closing then appends what the book holds, under the number
`VersionIsLatest` says is next.

`SettlementProofs` proves, for any baskets, amounts, requests and horizon, that `Spec`
of `Settlement` implies `[]TypeOK`, `[]LineRefundsAddUp`, `[]RestockedAtCost` and
`[]StatusFollowsRefunds`. The basis is what rounding half up does: `Money(a, b)` is
within half a cent of `a / b` (`MoneyRounds`), from which a part is off by at most half
a cent a unit (`PartRounds`) and a share of a cost never exceeds it (`MoneyWithin`).
`LineAfter` says what a line refund leaves, `RefundingSteps` that only three
requests touch the refunds. `RestockedAtCost` and `LineRefundsAddUp` are inductive
beside `TypeOK`; that the last part of a line settles it rests on the remaining quantity
being counted over all refunds. `StatusFollowsRefunds` adds the sums over lines.

It also proves `[]PassedDateAlerts`, the safety half of the follow-up: the dates of an
unpaid invoice never pass unseen, whatever overlaps. The invariant `Chased` speaks of the
sale and of each UPDATE still to be written (`Sent`): a status that only a follow-up date
can bring back (`unpaid`, `reminder_sent`) is written with one, a date is cleared only
with `paid`, and a due date, once there, stays. That every one of these UPDATEs carries
its follow-up date is what the ORM's comparison of dates with and without a zone gives
(`AskChased`); `CommitChased` is the write over whatever others have written since.

`DocumentsProofs` proves, for any requests, types, targets, forms and bounds, that `Spec` of `Documents` implies `[]TypeOK`,
`[]SaleNumbersSequential`, `[]SoldOnce`, `[]PrintedNumberStands`, `[]HistoryStands` and
`[]OneCopy`. There are two invariants, one over the other. `Typed` adds to `TypeOK` what
each request may still write (`Prepared`): the number a change of language writes back
is an old reading, at most the next one, and the numbers of the sales stay a sequence
because a sale takes the first free number from there on. `Standing` is the three properties about documents
with `Grounded`: a request that has its document to itself can still rely, when it
writes, on what it read. Without the excuse `crossed` that is false, and so are the
three properties; with it, it is inductive, because every other request that touches
the document marks it (`Untouched`, `OthersGoOn`). That `NewId` finds a free id
is a fact about cardinalities (`NewIdIsFree`).

`StartupProofs` proves, for any number of faults, reloads and restores and any backups
of earlier versions, that `Spec` of `Startup` implies `[]TypeOK`, `[]StampKept`,
`[]ChangesAreBackedUp`, `[]ConsistentUpgradeRuns`, `[]KillLeavesConsistent` and
`[]ServesComplete`. The first invariant is that the file and every copy are `Truthful`
(a restore may put any copy back), with `Course`: what the bootstrap knows is true of
the file it inspected, up to the first change, and of a running migration the
statements counted are committed. `MigrationMakes` shows, migration by migration, that
all objects of a revision are made either by those statements or with the stamp;
`MigrationCompletes` adds what the earlier ones made, and `SatisfiedIsTruthful` says
that the classification may be trusted with a stamp.

Over it stands `Outcome`, about how a start ends. Every file and copy is `Clean`: a
rebuild can only have been cut off in the revision after the stamp, `products.sku` is
filled from its revision on, and sales are in files with tables. While a consistent file is
upgraded, all that is newer than its stamp was made by the migration that runs, except a
`products.sku` still to be filled (`NewerIsMade`): at first nothing is newer, because the
classification found no evidence of a later revision (`NothingNewer`), and each migration
makes objects of its own revision, each once (`MigrationMakesOnce`). So none meets what it
is about to create, with which an upgrade can only be cut off, never fail; and the bootstrap
leaves its upgrade at the head revision, from where the application's start adds and fills
without taking away. Between two migrations nothing is newer than the stamp and nothing up
to it is missing, so the next inspection recognises exactly the stamp
(`RecognisedByStamp`, which needs that every revision made something, `RevisionMade`). That
is `KillLeavesConsistent`: of the starts that found a consistent file, only one killed
inside a migration can leave a file the bootstrap then refuses.

`CashRacesProofs` proves, for any workers, sellers, registers, shifts, sales and dates,
that `RacesSpec` of `CashRaces` implies `[]TypeOK` and `[]OneOpenShift`, although every
check of a request may be out of date when it writes. The types are kept because what a
worker remembers is itself typed (`PendingTyped`) and rows are never taken back
(`RowsRemain`), so what was read refers to something that is still there. One open shift
per seller and register then rests on the two partial unique indexes alone, which is where
the code puts it.

`BackupsProofs` proves, for any requests, any number of files kept from one on and any
bounds, that `Spec` of `Backups` implies `[]TypeOK`, `CompleteRemains` and
`ReplacesWhatIsSaved`. `PostsWaitForRestores` says what maintenance mode does give: a manual
backup or a write of a refused method begins only while no restore is under way, and is
refused only while one is; pages read with GET are not part of it. `Orderly` is what the
threads hold: only a thread about to delete has a list, threads that copy have files of
their own that nobody has filled, the depth of maintenance is the number of restores under
way, and while a restore is not `Disturbed` (neither `crossed` nor `printed`) it is
alone and no write can come. `Guarded` is why a restore can be undone: as long as it is not
disturbed, some file `Guards` the content about to be replaced. That file is on no list, it
holds the content or is the safety copy still to be filled, and every file newer than it
holds the content or nothing; so a list made beside the restore either leaves it among the
newest, or marks the restore as crossed. What a list names is older than what it leaves
(`SurplusOlder`), and deleting by list keeps the order of the rest (`WithoutRest`), which
is a fact about numbering the members of a finite set (`NthMember`).

Every invariant and action property that a passing run checks is proved. Only
model-checked are the four liveness properties (`InvoiceIsFollowedUp`, `MaintenanceEnds`,
`ContentIsBackedUp`, `ConsistentIsServed`): they rest on fairness, and so on ENABLED, which
is beyond the prover. For three of them the safety half is proved: the dates that alert,
the restore that ends the maintenance, the upgrade that does not fail and,
killed between two migrations, can be taken up again. The failing runs
are counterexamples, and TLC's alone.

## Not modelled, and the plan

The plan, in order; each line is a module with its run:

1. `StockRaces`: overlapping inventory requests (double posting, lost updates,
   double dispatch, the repair of the caches) and the `is_stock_item` switch under
   active reservations.
2. `Costing`: weighted averages, values per shelf and landed-cost split in integer
   cents; whether the consistency check can block postings through rounding.
3. With `StockRaces`, the proof that the partial states its requests leave are those its
   excuses name; with `Costing`, that landed costs and line costs add up for any lines.

Left out for good: reports, dashboard, translations, templates, settings forms and
the audit log (queries, texts and appends), the amounts of VAT (sums of rounded
figures nobody reads back), CSV parsing and barcode checks (validation of single
values), customers, suppliers and the edit of document texts (single rows without a
state of several steps), password hashing, cookies and the first-administrator form
(one check and one insert).
