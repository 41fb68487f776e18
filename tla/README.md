# Specifications of VaryaOne

TLA+ models of VaryaOne: what its commands do to the rows, files and processes they
share, and what happens when two requests, two processes, a slow answer or a crash
meet. Every module models code of this repository; `PROJECT.json` maps the
definitions to the lines they stand for (a helper whose lines lie inside those of the
operation that uses it goes with that operation's entry), and lists the hazards the
properties are for.

## The system

VaryaOne is an ERP system in Go over PostgreSQL (`internal/`), with a Svelte
frontend (`web/`), a deploy script (`deploy.sh`) and a desktop package
(`internal/platform/desktop`, `cmd/varyaone-client`). Several API and worker
processes share one database and one storage directory; short-lived command-line
processes (`cmd/varyaone`) back up, restore, migrate and resolve.

| Part | State it keeps | What is hard | What makes it correct |
|---|---|---|---|
| Outbox worker | rows of `outbox_events` | workers overtake one another after five minutes; crashes | the latest run decides; every event is settled |
| Command idempotency | `command_idempotency_records` | repeated and concurrent deliveries, lost answers | one effect, true answers |
| Operation control, `deploy.sh` | `state.json`, `operation.lock`, journals, keys | crash anywhere, failing writes, two kinds of claim (lock, deadline), an operator | a half-changed installation is out of service; one changer |
| Restore, promote, prune | databases, storage tree, retired copies | non-atomic renames, lost replies, ending contexts, partial moves | "unchanged" is true; nothing old is lost; success is whole |
| Backup | advisory lock, snapshot, archive | uploads at the same time; failure with the barrier held | an archive is one instant; writers go on |
| Desktop stack | cluster, secrets, ports, schema, service | power cut at first boot, busy ports, updates, the service manager's restarts | secrets, cluster and schema fit together; it serves again |
| Demo company | the company, `demo_state`, a session lock | three builders, interrupted anywhere | READY is whole; it comes back |
| Warehouse transfers | transfers, lines, reservations, movements | partial receipts, damage, decisions in any order | counters, transit stock and reservations agree with the ledger |
| Stock ledger, stock counts | movements, positions, cost layers, serials, counts | times taken when a transaction begins, seen when it commits; counting while stock moves | projections follow the ledger; a posted count leaves what was counted |
| Sales | orders, dispatches, invoices, returns, allocations, reservations | drafts that outlive their source; long chains cancelled in any order | what is left of a line can be shipped; goods move and are billed once |
| Credit, amounts, exchange rates | limits, documents, lines, cached rates | what counts against a limit; roundings in a chain; providers that fail | debt is allowed; amounts add up; an outage is seen |
| Purchasing | orders, receipts, bills, returns, landed costs | the same goods offered by several pages | counted once; what is offered can be taken |
| Finance | party ledger, open items, allocations, plans, accounts | allocation and its reversal in any order | balances are explained; dues are exact |
| Payroll, human resources | runs, payslips, timesheets, employments, wages, advances, deliveries | inputs read before the transaction that uses them; mail outside any transaction | a run freezes what was verified; money is explained |
| Registry: parties, products, prices, taxes, images, users, leads, imports | cards, versions, jobs, sessions, files | forms read in several statements, claims that lapse, two representatives | nothing is overwritten unseen; one claim, one effect |
| Reporting, dashboard, HTTP handlers, frontend | none of their own | | not modelled |

The parts interact through the database (rows, advisory locks, triggers), the
storage directory and the control directory. A restore runs under the lease of
operation control and replaces the database and the tree; a backup excludes the
requests that write; every business command reserves its key in its own transaction
and leaves an outbox row for the workers. Sales, purchasing, transfers and counts
meet in stock positions; documents meet finance in the party ledger.

## Modules

| Module | Models | Run |
|---|---|---|
| `Outbox` | the worker loop | `commands` |
| `Idempotency`, `ExactlyOnce` | ReserveTx/CompleteTx in the business transaction; what they promise | `commands` |
| `Opctl` | phases, lease, journal, deploy record, keys, operator | `operations` |
| `Backup` | the write barrier between uploads and backups | `operations` |
| `Desktop` | first boot, cluster, secrets, ports, migrations, server and worker, service manager, control commands | `operations` |
| `Demo` | Ensure, Reset, RequestReset, the scheduler | `operations` |
| `Restore` | what an operation under the lease does to databases and files | `restore` |
| `Transfers` | transfer commands with their triggers | `inventory` |
| `StockLedger`, `StockCount` | movements and their reversal, positions, layers, serials; the count over them | `inventory` |
| `Sales` | one order, the documents made from it, its reservations and stock | `sales` |
| `Customers` | quotes, orders and documents against a customer's limit | `sales` |
| `DocumentMath` | the amounts of a line: engine, sales, conversion, purchase | `sales` |
| `Exchange` | rates fetched, cached and handed to documents | `sales` |
| `Purchasing` | an order and what follows it | `purchasing` |
| `Finance` | ledger, open items, payments, allocations, plans, accounts | `finance` |
| `Workforce`, `Timesheet`, `Advances`, `Payroll` | one employee: employment and wages, months, advances, runs and payment | `people` |
| `PayrollMath` | the payroll engine over a year | `people` |
| `Delivery` | payslips and their mailing | `people` |
| `FixedAssets` | things handed to employees | `people` |
| `Parties`, `Identity`, `Crm`, `Catalogue`, `Imports`, `Media` | the records documents refer to | `registry` |
| `CommandsProofs` | theorems about `Outbox`, `Idempotency` and `Restore` | |
| `OperationsProofs` | theorems about `Opctl`, `Backup`, `Demo` and `Desktop` | |
| `SumTheorems` | what sums over finite sets obey, for the next three | |
| `TransfersProofs` | theorems about `Transfers` | |
| `RecordsProofs` | theorems about `Sales`, `Customers`, `Payroll`, `FixedAssets`, `Media`, `Delivery` and `Exchange` | |
| `FinanceProofs` | theorems about `Finance` | |
| `RegistryProofs` | theorems about `Crm` and `Identity` | |
| `CardsProofs` | theorems about `Parties`, `Catalogue` and `Imports` | |

An `MC` module composes the modules of its run. Where parts share state the
composition is one module on top of the others (`Payroll` over `Timesheet` and
`Advances` over `Workforce`, `StockCount` over `StockLedger`). Where they do not, the `MC` module has a variable `scene`,
chosen by the initial state: one part acts and the others stand still. Most of these
modules have no variable and no table in common. `Catalogue` and `Imports` have no
variable but two tables in common, the price entries and the barcodes: so `Catalogue`
has the import's price rows as actions of its own (`BeginImportPrice`, `ImportPrice`),
counts its card and variant rows, which lock the card, among the commands on cards, and
`Imports` has the catalogue's commands as `KeepCard` and `KeepVariant`.

How state and actions correspond to the code:

- **Outbox.** `Select` and `Stamp` are the two statements of the claiming transaction
  (the row lock in between is `RowLocked`), `Handle` is the handler's return, `Ack`,
  `DeadLetter` and `Retry` the conditional UPDATEs. Time is two sets: rows whose stamp
  is older than five minutes and rows whose retry delay has not passed.
- **Idempotency.** An attempt takes a snapshot, inserts (waiting for an open
  transaction with the same key), reads, writes, completes and commits; at the
  serializable level a row committed after the snapshot is a failure.
- **Opctl.** A record has an id, a phase, and for a deploy a claim with a deadline.
  `Write` is a journal write with its three ways to fail. `Crash` drops the lock and
  keeps the file. `Resolve` is two actions because it is not done under the lock.
- **Restore.** Each SQL statement of the swap and each rename of a storage entry is an
  action; a statement can be refused, applied without a reply, or end the context for
  all later ones. Pruning runs beside everything. `Opctl` has the journal in detail
  and the change as one flag, `Restore` the other way round.
- **Backup.** The barrier is a fair shared/exclusive lock; each upload puts a file,
  then commits its row, and cleans up on error.
- **Desktop.** `stack` is the supervisor's position in its start-up; a secret is 0 (no
  file), -1 (an empty file) or a number; `files.loose` are the secrets no flush has
  reached yet, and a power cut may empty them (`files.lost`); the schema is the set of
  applied migrations and a binary the highest migration it carries. Crashes, power
  cuts, failing tools and foreign programs on a port are actions with a common bound.
- **Demo.** A builder is the worker, a visitor's request or the operator's command;
  the seeder is a set of parts, written one at a time.
- **Transfers.** A command is one transaction that locks the transfer first, so it is
  one action, including the movements it posts and the triggers that may refuse them.
  What refuses a movement and lies outside the transfer (a locked count scope, an
  inactive variant, a lot past its date) comes and goes as `bars`.
  A refused command is no step, here and in all modules where a command is one
  transaction.
- **StockLedger, StockCount.** Starting a count is one step: its first statement locks
  the warehouse's row (`service.go:163`), which every movement locks before it is
  inserted (`service.go:183`), so none commits between the count's instant and the
  reading of the positions. A movement's time is that of its transaction's beginning
  and it is visible from its commit, so a transaction is `Begin` and `Commit`. A count
  locks its row in every command; posting evaluates first and locks the stock
  identities later (`PostStockCountEngine` in two steps), and movements may commit in
  between.
- **Sales.** Every command is a serializable transaction and one action. A document is
  its status, its source and the quantity it takes of each line; the rows of
  `commercial_line_allocations` follow from that (RESERVED in a draft, CONSUMED when
  posted, deleted on cancellation), so the ledger queries are sums over documents.
  Posting first sets the document POSTED and then checks the ledger with it included,
  as the code does. The stock policy is the default, BLOCK.
- **Customers.** The same documents reduced to what they commit and owe, with the card,
  the product and the clerk's rights changing meanwhile; `excused` remembers what the
  code lets pass on purpose.
- **DocumentMath, PayrollMath.** The exact fractions of the code are fractions; every
  rounding of the code is a rounding here. The last stored decimal is the unit; the
  whole a percentage refers to (`Hundred`, `RateScale`) and the digits of a quotient
  (`DivScale`) are scaled down so that a rounded digit matters for small amounts. The
  steps of drafting, converting and billing a line, and of a year's months, are actions.
- **Exchange.** A caller reads the cache, claims the refresh, fetches and stores, each a
  step; time is counted in steps of the minute that protects a claim.
- **Purchasing, Finance.** Commands are serializable transactions and single steps. What
  the code reads back (offers of a page, remaining amounts, aging) are operators, and
  properties compare the readers with one another and with the commands.
- **Workforce, Timesheet, Advances, Payroll.** One employee. `Calculate` fingerprints
  before its transaction and reads again in it; `Finalize` verifies before and takes
  the run with a version check; a day's trigger reads the month without a lock; a raise of
  the minimum wage reads the terms and writes them later (`raises`); a command on an
  advance may have a snapshot older than the deductions it waited for (`late`). Each of
  these points is a step.
- **Delivery.** A file is stored, a row is inserted, an error deletes the file; a batch
  reads its recipients once, sends each mail outside a transaction and records each
  delivery on its own.
- **FixedAssets, Media, Parties, Crm, Identity, Catalogue, Imports.** Commands that lock
  the row they decide on, or check its version, are one step; those that read without
  a lock and write later are split there (a form and its saving, a claim from a list,
  the deletion of a company and its fallback, an image's file and its row, an import's
  claim, rows and outcome, the statement that wins the deals of an accepted quote).

## Runs

| Run | Properties | Shows |
|---|---|---|
| `commands` | OneVerdict, VerdictOfLatestRun, EventuallySettled; KeepsPromise, EveryAttemptEnds | only the latest run of a handler decides a row and every event is settled; the replay contract implements `ExactlyOnce` and nobody waits for ever |
| `operations` | OperationsAreSafe, NeverWedged; ArchiveIsWhole, WritersContinue; DesktopIsWhole, DesktopComesUp; DemoIsWhole, DemoComesBack | one operation changes the installation, once per request, and half-done work is on record; archives are one instant and waiting requests go on; the desktop keeps its secrets and cluster together and serves again; a READY demo is whole and comes back |
| `restore` | OldIsKept, VerdictIsTrue | old files and database survive and COMMITTED is whole through failed statements, lost replies and crashes; FAILED_UNCHANGED is true when every statement was answered and the opening not refused |
| `inventory` | TransfersAreExplained, OpenCanBeCancelled; LedgerIsExact, CountSettles | counters, transit stock, reservations, positions, layers and serials follow the ledger; a shipped transfer can be cancelled unless a bar meets its way back; a posted count leaves the stock as counted |
| `sales` | OrderIsExplained, DebtIsAllowed, AmountsAddUp, OutageIsSeen | reservations hold what is still to be shipped, status and stock are those of the documents, nothing is billed beyond the order; a limit is passed only by leave; amounts agree along the chain; a provider's outage is seen |
| `purchasing` | GoodsAreCountedOnce, OffersCanBeTaken | counters, allocations, stock and landed costs follow the posted documents; the pages agree and what a conversion drafts can be posted, but for the cases named below |
| `finance` | BalanceIsExplained, DuesAreExact | balances agree with open items, nothing is paid twice, readers agree, automatic allocation fits |
| `people` | MoneyIsExplained, VerifiedIsFrozen, HistoryIsKept, MailedOnce, YearAddsUp, CustodyIsOne | see PROJECT.json; the races the code leaves open are named in the properties |
| `registry` | NothingOverwritten, PagesAreWhole, AccessIsSound, SellersAgree, CatalogueIsCoherent, AppliedOnce, RowsHaveFiles | two users at a time, but for the races named in the properties |

Three runs end in a counterexample, each against a sentence of the code
(`findings` in PROJECT.json): `operations_race` (an operation begins while `system
resolve` is between its probe and its write), `restore_reply` (a lost reply during the
swap) and `sales_billed` (an invoice posted after the dispatch it was drafted from was
cancelled).

`HistoryIsKept`,
`VerifiedIsFrozen`, `NothingOverwritten` and `CountSettles` are action properties: they
speak of the step in which a wage begins, a run is finalised, a card is saved or a
count is posted, and compare the state before it with what was read earlier.
`KeepsPromise` is the refinement of `ExactlyOnce`.

### Bounds

Bounds are named constants or the sets in the cfg files. Each is as small as lets the
case it is for happen.

- `commands`: two workers and two events let one worker overtake another on one row
  while a second row competes; two attempts reach the retry and the exhausted case;
  `MaxFaults` 2 lets a row be lost twice. One key (keys are independent), three
  deliveries (one running, one waiting, one later) and two payloads.
- `operations`: two processes and four operations (`MaxOps`): one that died, its
  successor, a deploy and one more; one key used twice. Three uploads (before, during
  and after the barrier), two backups (`MaxBackups`). Desktop: two releases
  (`MaxBinary`, an update and a downgrade), two ports (`PgPorts`: one taken, one free),
  two faults (`MaxTrouble`: a fault during the recovery from a fault) and one order
  (`MaxOrders`). Demo: two parts of a seed (`SeedParts`: half and whole), two
  interruptions (`MaxCuts`). `operations_race`: three operations and the operator
  who resolves while one begins.
- `restore`: two file names (one moved, one not), three operations (a restore, a second
  over its remains, a promotion back), retention at its smallest.
- `inventory`: two transfers in opposite directions over one product, three lines with
  up to two units; no receipt repeats an equal entry
  (`EqualEntries`), net other stock within one unit (`MaxOutside`); one bar at a time (`MaxBars`) of three
  kinds (`Barriers`). Four stock identities
  (plain, lot, unit and serial of two variants), two transactions, four movements
  (`MaxMoves`) and four readings of the clock (`MaxClock`): a movement before, across and after the
  count's instant. Beside a count, `Small` keeps to a receipt and an issue.
- `sales`: an order of two units of one line and one of another; documents take one of
  each or one of the first, so that one line is used up while the other is open; two
  dispatches and two invoices (a source and its rival), one return; no spare stock.
  Documents of a kind are interchangeable (symmetry). Credit: two orders and a quote,
  limits 0 and 2, debt to 3 (`MaxOwed`), collections
  of one at a time. Lines: prices, quantities, discount chains and tax
  profiles chosen so that each rounding and each kind of component occurs. Rates: one
  caller refreshes by hand, the other stands for documents and the worker; the two
  providers publish for different days; three minutes (`MaxMinute`).
- `purchasing`: one order of two products and a service, two receipts of one unit of each
  product (together they fill one line and exceed the other), two bills, a return and a
  landed cost of 4; receipts and bills are interchangeable (symmetry). Beside a landed
  cost there is one bill at most: the two share only the receipt, which
  a bill keeps from being cancelled and a landed cost only reads.
- `finance`: two invoices of one dispatch, a return of it, a manual entry, a collection
  and a payment, a transfer between accounts and one between parties, a plan of two
  instalments, at most two rows of a kind (`MaxRows`), requests of up to two units
  (`MaxInput`, the largest amount there is). Plans are followed while entries,
  transfers and closed accounts stand still, and those without a plan.
- `people`: three months of one day, two wages, two entry dates, two employments, two
  terms and packs; two runs with one manual component and two calculations; two advances
  of up to two with three rows (`MaxRows`: paid out, deducted, and settled by a command that
  saw no deduction); two employees, two batches and two printers; one thing with two
  handovers (`MaxCustody`) and five versions (`MaxEdits`: two handovers, the return between
  them and an edit that crosses them). At most one calculation and one
  finalisation are under way at a time.
- `registry`: two of everything that competes (cards, clerks, sign-ins, representatives,
  lists, jobs, requests, images); three companies (two that cross, one to fall back to);
  three ledger entries on pages of one (`PageSize`); three days (`Horizon`) for two prices; four
  changes of a card (`MaxChanges`), four of an opportunity (`MaxMoves`: linked, moved under
  the winning statement, and on), one call of a
  lead (`MaxCalls`), two time steps (`MaxStep`), two failures (`MaxFailures`), two
  secrets (`MaxSecrets`), two variants of a card (`MaxCombinations`), three versions of an image
  (`MaxPictureVersion`). In the scene of the pipeline the won stage alone comes and goes; in
  that of the calls a call back is agreed upon only as the outcome `CALLBACK`; a price list
  starts in one of two like currencies. Some scenes start further on (a company with two parties, leads
  already on lists, a card with a variant), in states the earlier scenes reach.

### Fairness

`Outbox`: workers run their loop and time passes; nothing is assumed of handlers'
outcomes, and faults are bounded. `Idempotency`: a received request's goroutine goes on.
`Opctl`: a running process finishes or dies, a script likewise, a resolve command
returns, deadlines pass. `Backup`: requests and backups that can go on do, PostgreSQL
grants the barrier in order, and the wait for it is limited to 30 seconds. `Desktop`:
the service manager starts and restarts what it is configured to (the installer sets
automatic start and the recovery actions), and a process that can take a step does.
`Demo`: the worker is started, its ticker ticks, time passes, and a running builder
goes on or is interrupted; visitors and operators need not act. The other modules state
no liveness: their commands are taken by users who may stop at any time.

`CHECK_DEADLOCK FALSE` is used throughout: in every scene the bounded operations are
used up in the end (all deliveries answered, all documents cancelled, all versions
taken), and the system may then stop.

## Proofs

TLC checks the instances of the runs. The theorems below hold for every value of the
constants that satisfies the `ASSUME`s of the module: numbers are naturals, the limits
are positive, and a value that stands for nobody or nothing is not a member of the set
it is added to. Each rests on an inductive invariant, true initially and kept by every
action; it is described here because the property alone is seldom inductive.

| Theorem | States, for every run of the module's specification |
|---|---|
| `OutboxOneVerdict`, `OutboxVerdictOfLatestRun` | one worker owns a row's stamp; the verdict is the latest run's outcome |
| `OutboxOvertaken` | (action) only the owner of a stamp clears it |
| `EffectsOnce`, `PromiseKept` | one effect per key; the replay contract implements `ExactlyOnce` |
| `OneOperationAtATime`, `KeysSwitchOnce` | one process changes the installation; a key never starts two switches |
| `OperationsSafe` | `OperationsAreSafe`, with an operator who resolves only what is dead, and sets holds |
| `EveryArchiveIsWhole` | `ArchiveIsWhole` |
| `NothingIsLost`, `VerdictsAreTrue` | `OldIsKept`, `VerdictIsTrue` of a restore, its refused opening excepted |
| `DemoStaysWhole`, `DesktopStaysWhole` | `DemoIsWhole`, `DesktopIsWhole`, where a power cut may empty what was not flushed |
| `CustodyStaysOne`, `RowsKeepFiles` | `CustodyIsOne`, `RowsHaveFiles` |
| `MailsStayOnce`, `OutageStaysSeen` | `MailedOnce`, `OutageIsSeen` |
| `SellersStayAgreed`, `AccessStaysSound` | `SellersAgree`, with the stage moves that cross a winning statement as a named case; `AccessIsSound` |
| `TransfersKeepStock` | no transfer command makes or loses stock, whatever a receipt repeats |
| `TransfersStayExplained`, `TransfersCanBeCancelled` | `TransfersAreExplained`, `OpenCanBeCancelled` (but for bars on the way back), where no receipt repeats an equal entry |
| `OrderStaysExplained`, `DebtStaysAllowed` | `OrderIsExplained`, `DebtIsAllowed` |
| `MoneyStaysExplained` | `MoneyIsExplained`, but for advances a command and a payroll settled unseen by one another |
| `BalanceStaysExplained`, `DuesStayExact` | `BalanceIsExplained`, `DuesAreExact` |
| `FrozenWasVerified`, `HistoryStaysKept` | (action) `VerifiedIsFrozen`; `HistoryIsKept`, but for terms a raise overtook |
| `FormsReplaceWhatTheyShow` | (action) `NothingOverwritten` |
| `CatalogueStaysCoherent`, `ImportsApplyOnce` | `CatalogueIsCoherent`, with the import's unlocked price rows as writers; `AppliedOnce` |

and type correctness of `Outbox`, `Idempotency`, `Opctl`, `Backup` and `Restore`, as
`OutboxTypeOK`, `BackupTypeCorrect` and `TypeCorrect`; the other modules' types are a conjunct of their
inductive invariants.

**Outbox.** A worker in a cycle has an event; stamps handed out are at most the clock
and no two busy workers hold the same one (`StampsOK`); a worker whose token is the
row's stamp ran the row's latest attempt (`OwnerOK`); an outcome it returned is recorded
for that attempt (`OutcomeOK`). A verdict is written only by a worker that still owns the
row, hence by the latest run, and a worker that was overtaken finds another stamp.

**Idempotency.** Only the transaction that inserted a key's row gets as far as the
business writes, it holds the row until it ends (`InsertedOK`), and the row commits with
the effect: so a row is committed exactly where an effect is (`RecordOK`), and a key
that is held has none (`HolderOK`). No answer is given before the end (`AnswerOK`). With
these, each step is a step of `ExactlyOnce` or changes nothing it sees.

**Operation control.** What holds whatever the operator does (`Base`): a process with an
operation holds the lock (`LockOK`), and a key's entry names the only operation that may
switch under it (`KeysOK`). From these follow one changer among the processes, and one
switch per key. That half-changed work is on record needs more: the record is the
process's own and the phase it will write last is destructive while something is half
done (`LeaseOK`), a deploy between its intent and its result keeps its own record
(`DeployOK`), and between the halves of a resolve nothing runs (`ResolverOK`). This part
is proved for `Careful` operators, who resolve only dead operations, race none that
start, and may set holds; `operations_race` shows what another one can do.

**Backup.** The barrier carries the argument. A request that has begun to write is in the
shared lock (`SharedOK`), and its file was put there by a request that came that far
(`StoredOK`); the backup holds the lock alone while it takes its snapshot and walks the
tree, and works afterwards on what it pinned (`PinnedOK`). So what is published is that
one instant, and an archive that must be complete skips nothing (`CompleteOK`).

**Restore.** `ControlOK` says which operation can be where, with which phase and verdict;
`NamesOK` what each database name can hold; `SwapOK` follows the database that was live
through the two renames; `KeptOK` says that the last one that was live is live still or
is the newest set aside, which no pruning takes; `FilesOK` that staged files are whole
until they land, and land before anything is swept; `UntouchedOK` that failures before the
swap put everything back. `VerdictIsTrue` becomes inductive only with the conjunct that
the verdict is "unchanged" until the switch begins.

**Sums.** What documents add up to is a sum over a finite set of them or of their lines.
`SumTheorems` proves, from the library's definition and by induction over the subsets of
a finite set (a smallest counterexample loses an element), that such a sum does not depend
on the order its elements are taken in, splits over disjoint parts (`SumUnion`,
`SumOfParts`), follows a change of one summand (`SumPull`, `SumSame`) and keeps its bounds.

**Transfers.** Sums over a transfer's lines are taken over all lines with what is not meant
masked to zero, so each command changes some summands and leaves the others alone.
`Standing` says of every line how far its movements have come in its status, that a
position's reservations are what the lines between request and shipment hold, and that
stock is made or lost by nobody; it is kept by every command without exception. `Counted`
adds that a line's counters say what left transit, and it is kept where no receipt repeats
an equal entry (`EqualEntries`), the case the section below tells of. From `Counted` follow the
explanation of the transit stock and that a cancellation finds what it sends back; the
bars are left alone by the transfers and are an assumption on no step.

**Sales.** What counts on an order line are five sets of documents: dispatches that hold
goods, that left, invoices that bill, returns, and direct invoices. A step brings one
document into some of them or takes it out, so each total moves by that document's
quantity; a draft moves nothing. A source of a document is posted or cancelled, and can
be drafted no more while the document stands on it, so no step changes what another document counts for
(`DocsIn`). The reservation's row is what the dispatches consumed and what was given back
(`HoldsOK`), the ledger's entries are the dispatches and direct invoices that left
(`LedgerOK`), and the status follows the totals. The proof asks for finitely many documents and
at least one line.

**Customers.** What is committed to a customer is never negative, and an order or invoice
that exceeds the limit carries a waiver (`CreditOK`). A step that adds to the debt passed
the check, and one that takes from it leaves the waivers of those that remain.

**Payroll.** The wages of the days before one carry over from the old terms to the new ones
and back (`Carries`), for a wage entered, inherited or raised; so the history is kept. A
raise writes terms it read earlier: each was open and began before the day, so one that
is still there carries over, and one that is not belongs to an employment it overtook. A
slip remembers the wage it was fingerprinted with, and, when its inputs stood still, the
checksum and the manual components (`SlipOK`); a finalisation under way holds a slip that
agrees with the inputs it saw, and while the run has the version it read, that is the
run's active one (`FinOK`). Taking the row compares the version, and nobody counts it
while the row is held, so what is frozen is that slip. An advance is paid out by its first
row only, and each row moves two sums of it by its amount: what is owed (`Owed`) and the
cash it explains (`CashOf`); the cash account is the sum of the latter over the advances
less what paid runs cost (`CashOK`). A deduction planned for an advance is within what it
is owed as long as no command races it (`PlanOK`), so settling it keeps the rest from
being settled twice (`OwedOK`). A command with an old snapshot saw a first part of the
advance's rows that ends before a deduction (`LateOK`), and what it settles is marked. The proof asks for finitely many runs.

**Finance.** The ledger of a party is the sum of three tables: what posted documents,
posted payments and transfers put on it (`Booked`). An allocation row that counts is on a
posted item of the payment's party, on the side that the payment settles (`RowsOK`), and
what counts on an item never exceeds it (`NothingPaidTwice`, itself inductive: an item is
reversed only when nothing counts on it, and rows that are added fit in what is open). Of
the rows as a table of payments and items, the sum by rows is the sum by columns
(`SumSwap`), which turns `Booked` into `BalanceIsExplained`. A plan's installments add up to
what it covers of each item, and an item has one active plan (`PlansOK`): amounts laid end to
end and cut at the items' limits telescope (`Telescope`, `SplitAddsUp`). So do the dues
that payments close from the front (`InstallmentsAddUp`), hence every reader finds the same
amount (`ReadersDo`), and an amount handed out in an order of its portions is used up or
leaves none of them open (`InTurn`, `FIFOIs`). The proof asks for finitely many documents,
payments, transfers and plans, and for ids that order the items.

**Demo.** A builder's place says its job and whether it holds the session lock
(`PlaceOK`), so two rebuilds do not overlap; unless a first build crossed a rebuild
(`CrossedOK`), the parts behind a builder are in the company (`DoneOK`), and a READY row
that reports a build names a whole company (`ReadyOK`).

**Desktop.** A cluster is founded only where there is no whole one and with a password
already written (`FoundingOK`), a key is drawn only before anything was encrypted with it
(`KeyOK`), an empty secret beside them is one that a power cut took before its flush, the stack connects to the port of the postmaster it started or found
(`PortOK`), and a stopped service has no process while a worker runs in a stack that
serves (`ServiceOK`). With these the five parts of `DesktopIsWhole` are kept by every
step, crash, update and order; the port a start takes is the least free one, which exists
because naturals are well ordered (`LeastPort`).

**Assets and images.** A card's version moves with its custody, so a form whose version
still fits wants a status that fits the custody of now (`FormOK`); a card is ASSIGNED
exactly while somebody holds the asset, and one employee does (`CardOK`). An upload has
its file and no row yet (`UploadOK`), and a row its file unless an answer was lost
(`RowOK`); whoever makes a picture the primary one takes the flag from the live rows in
the same transaction (`OnePrimary`).

**Deliveries.** Batches that were over before another began stay over (`AfterOK`), and a
mail that is not recorded is the last one of its batch (`KeptOK`); so whoever a batch has
still to mail was mailed by none of the batches before it and shares no address
(`TodoOK`). A printer between its file and its row has the file (`PrintedOK`).

**Exchange rates.** A success on record left a rate fetched at that time (`SuccessOK`); a
refresh asks for rates newer than the interval, and a call that was let through without a
refused claim finds one (`CallOK`). The times of stored rates only grow.

**Call lists and deals.** Claims under way know of one another (`MetOK`), and a lead that a
claim has seen and another list gave away since was taken by a claim that met it
(`SeenOK`). On the deals' side the winning statement has begun with a snapshot of the stages
(`WinningOK`); it settles every linked deal that is still where it saw it, and a deal that
was moved or linked meanwhile is marked (`RowOutcome`, `WonSettles`).

**Identity.** The owner works in every real company (`OwnerOK`); a company that is gone
has no members (`GoneOK`); tokens name companies that stand (`TokenOK`), and so do
sessions (`SeatOK`), unless deletions crossed; only the owner deletes, from an open
session, and falls back to another company (`DeletionOK`). At the door, a code is held by
one attempt and was then not used (`HeldOK`); used time steps lie behind the factor's last
one, used recovery codes are off the list (`UsedOK`), also across a replacement of the
factor.

**Parties.** A card's version grows with every change. What `Get` has read of a card, its
row first and its details later, was read at a version the card has had, and is what the
card says while the card is still at that version (`FormsOK`). `Update` compares versions
and changes nothing when they differ, so what it replaces is what the form showed.

**Catalogue.** Three invariants, of three groups of tables. Rates are whole periods that do
not overlap (`RowsOK`); prices of one list and target that begin on one day do not overlap
unless a form wrote one past the check or an import crossed another entry (`PeriodsOK`):
what is valid on the day of a row being imported was written since the row looked
(`PendingOK`). The latest beginning wins, so other overlaps an open-ended import makes
are decided. Prices carry the list's currency (`TariffsOK`), where an
entry written while the currency was changing (`SwitchOK`) is excused. A
variant's values are an allowed selection and tell it from the others of its card
(`SkusOK`, `SkusDiffer`), a barcode names a variant exactly where its card has them
(`BarcodesOK`), and so do stock rows, but for one that crossed the switch (`StockOK`).
What lies between two steps is part of it: what was checked before a card's settings are
saved still holds when they are (`SettingOK`), and a stock row about to be written names
what it must, unless the switch came in between (`PostingOK`).

**Imports.** A call that holds the claim of a job finds the job COMMITTING under its own
token and with the mapping its caller confirmed, or is marked as having lost it
(`CallsOK`); a posting counts once, on a known card, for a card file on the card with the
row's own identifier (`BooksOK`). The rows are a recursive function over the file; since
a file has at most two rows in the model, `RowsApplied` unrolls it, and `RowKeeps` says of
any row what it may do: open its own stock once and leave every card's identifier alone.

Model-checked only: liveness and `ENABLED`, which are out of the prover's reach
(`EventuallySettled`, `EveryAttemptEnds`, `NeverWedged`, `WritersContinue`,
`DesktopComesUp`, `DemoComesBack`); what recursive definitions and folds over sequences
compute, which needs induction over data (`LedgerIsExact`, `AmountsAddUp`, `YearAddsUp`,
and the balances on the pages of `PagesAreWhole`); `GoodsAreCountedOnce` and
`OffersCanBeTaken`, whose sums are within reach of `SumTheorems` but whose invariants are
not worked out; and `CountSettles`, which compares a posted count with
what `LedgerIsExact` says of the stock.

## What the code leaves open

Met while modelling. The properties hold outside these cases, and name them where they
touch one.

Operation:

- A deploy that is still running can be resolved by hand: `Resolve` probes the lock,
  which a deploy does not hold, although its message says that an operation in progress
  cannot be resolved (`opctl.go:271`). `OperatorMay` keeps the operator of `operations`
  from it.
- The two secrets are written without being synced (`password` in
  `desktop/postgres.go:508`, `masterKey` in `supervisor.go:253`), while initdb and
  PostgreSQL sync what they write. A power cut soon after can leave an empty file beside
  a whole cluster, or beside data encrypted with the key; so can one between creating the
  file and writing it, before there is a cluster. Every later boot then fails.
  `DesktopIsWhole` names the first case, `NeedsHelp` both; stopping a service whose restart is pending succeeds and the service manager starts
  it again; a repair's uninstall can meet that restart; the API serves on a newer
  schema, only the worker is gated; a postmaster that dies under a serving stack is
  noticed by nobody. `NeedsHelp` names the cases from which no restart recovers.
- A swap whose last statement, the opening of the live database, is answered with a
  refusal ends in a plain error (`candidate.go:261-263`), and the operation is recorded
  FAILED_UNCHANGED although the live database was replaced and is closed; `VerdictIsTrue`
  excepts it (`LeftShut`).
- A demo reset interrupted after it marked the row leaves RESETTING: the timer and the
  visitor's request both refuse, only `demo reset` helps. `Ensure` takes no lock and may
  cross a reset, announcing READY for a purged company; a seed that failed half way is
  accepted by later `Ensure`s until the next timed reset.
- An upload whose commit took effect but was not answered deletes the files of a row
  that exists (`media/service.go:197`, `payroll/delivery/service.go`, `hr/document`).

Stock, sales, purchasing, finance:

- A receipt that lists a line twice with the same quantities passes the check that a
  repeated line would fail (`inventory/service.go:3724`; `EqualEntries` in `Transfers`).
- A shipped transfer cannot be cancelled while a count has its scope locked, after its
  variant was made inactive, or when its lot is past its date: the movement that brings
  the goods back is refused as any other (`OpenCanBeCancelled` names these bars). That a
  location is inactive refuses a movement too; no code makes one so.
- A movement that began before a count's instant and commits after it is counted by
  neither side (`stock_count_engine.go:422`); `CountSettles` is exact about it. A count
  with a scan that was never placed cannot be posted. The check for overlapping counts
  precedes the locks.
- A confirmed order that is not shipped commits nothing against the limit
  (`commerce/risk.go:38`), and dispatches ask no limit; an accepted quote can be
  converted any number of times; the list's invoicing status and the detail's differ.
- Withholding falls back to the whole tax when the VAT component is zero
  (`sales/commercial.go:2733`); a converted fixed discount is carried as a rounded
  percentage, so the two paths of a line may differ in the last decimal.
- After a failed fetch, and while one is under way, documents of the same minute take
  the cached rate silently; a slow fetch under the old preference marks the refresh
  done; after a change of source a later day of the old provider still wins
  (`exchange/service.go`).
- A return drafted from an invoice is posted after its cancellation
  (`finance/service.go:2408`); the settlement page lists reversed payments.
- Purchase documents drafted from an offer and posted after their source was reversed
  are caught by counters, not by the source's state (`purchasing/conversion.go:398`).
- The detail of a purchase order offers billing for goods of which nothing is received
  beyond what was billed; the list does not. An order with a product of which nothing has
  come is not converted to an invoice at all (`conversion.go:398-405`), goods billed
  through the order's own lines are offered again by their receipt and refused
  (`service.go:2347`), and a return is offered for goods that have left the stock.
  `ReadersAgree` and `ConvertedFits` name these. A bill with two identical lines is one
  line in the model.

People:

- Inputs of a run are fingerprinted before the transaction, so a change in between is
  seen at finalisation and not at calculation (`payroll/run/calculate.go:80`); open
  advances are read without the lock a comment claims (`:615`); a command on an advance
  takes its snapshot when it looks for a replay (`advance/service.go:399`), before it
  waits for the row, and settles again what a payroll deducted meanwhile
  (`NothingSettledTwice` names both); the checksum of a month
  leaves the leave type out; several regular runs of one month are possible.
- Raising the minimum wage reads the open terms without a lock and updates each by its id
  (`employment/service.go:559-602`): a term that was ended, or replaced by a new wage,
  meanwhile is stretched or cut again (`HistoryIsKept` names it). The pack is activated in
  one transaction and the terms move in another, which may fail. Not modelled: two wages
  entered at once for two employments of one person may both stay open, and `CreateTerm`
  reads the minimum before its transaction.
- Two batches at once, or a lost record, mail a payslip twice
  (`payroll/delivery/service.go:826`).
- A comment says that a resend does not skip the recipient checks
  (`payroll/delivery/service.go:830-832`). It does: `BuildPreview` puts a payslip that
  went out into the class of those whatever its address has become
  (`preview.go:27-40`), so taking the other classes away (`:842-847`) removes none, and
  an address that is now shared by two employees receives it. `MailedOnce` claims the
  check for first mails only.
- A comment says that net pay never falls as gross rises
  (`payroll/calculation/calculator.go:267-268`). It falls by a cent where two roundings
  meet (gross 100,007.24 to 100,007.25 under the real tables). `YearAddsUp` checks that it
  never falls by more, and that the bisection that rests on the comment still ends within
  two cents of its target.
- An asset can be handed to an employee who is leaving in the same moment
  (`fixedasset/service.go`).

Registry:

- Two companies deleted at once, each falling back to the other, leave the owner with
  none (`identity/organization.go:314`); a sign-in code is spent even when the session
  fails.
- Two representatives can claim one lead from two lists (`crm/calllists.go:709`); a quote
  accepted while it is being linked wins nothing (`crm/pipeline.go`); nor does it win a
  deal that is moved to another open stage while the winning statement runs, whose join
  on the stage passes the row over (`pipeline.go:663-666`). Cancelling an accepted quote
  leaves the deals it won as they are, and its event, if late, still wins linked ones.
- The variant form passes a price's end and beginning in the wrong order, so overlapping
  prices are accepted (`products/variants.go:1066`); an imported price is checked against the
  present day only, without a lock (`imports/catalog.go:190-196`), so it may overlap a later
  one, and two prices from one day on arise when another is entered meanwhile; a stock row and a change of the
  variant mode can cross; a list's currency is checked and changed separately.
- An import whose claim was taken over applies rows of a preview its caller never saw
  (`imports/service.go:610`); a crash during the analysis leaves ANALYZING; a replay
  overwrites later edits.
- The duplicate check of tax numbers takes no lock in `Update`; pages of a statement are
  separate snapshots (`party/service.go`).

## Not modelled

- **Out of reach or without a protocol.** HTTP handlers (decode, authorise, call a
  service; the two with a protocol, `system.go` and `scope.go`, are in `Opctl` and
  `Backup`), reporting, dashboard, pulse, agenda, preferences, modules (queries and
  single-row settings), generated queries and contracts, configuration, static files,
  the desktop client and the web frontend.
- **Formats.** Archives and journals, checksums, disk-space estimates, XML of rates,
  import files, layouts of payslips and documents, bank files, e-documents.
- **Left out of modelled parts.** Stock: locations, cost amounts, expiry, unit
  conversion, several warehouses, negative-stock policies, the legacy count. Sales:
  documents with several sources (`NoDoc` has one), period locks, the legacy invoice commands of
  `sales/service.go`, which no handler calls. Purchasing: bills of several orders,
  damaged and rejected units, unit conversions. Finance: currencies, period locks,
  instruments. Desktop: network mode, firewall, mDNS, paused services, PostgreSQL
  upgrades. Demo: the seeded content, the request guard's one-second cache. HR:
  schedules, calendars, leave balances. Identity: passwords, CSRF, branch and warehouse
  scopes. CRM: scripts, phone changes, reports. Registry: searches, sorted lists,
  addresses, units, code prefixes, tax exemptions.
- **Three hazards without a property** (notes in PROJECT.json): a manual hold against an
  advancing deploy, uploads during a restore through the API, the order of row locks
  of transfer commands.

## Plan

Of the properties, those of purchasing remain to be proved with `SumTheorems`; their sums
range over receipts and bills as those of sales do over documents. Of the code, the legacy sales service, stock locations and cost amounts, HR
schedules and leave balances, and the hazards without a property are open.
