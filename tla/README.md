# LocalLedger in TLA+

LocalLedger is a bookkeeping program for one company at a time: a Go process
that serves a single-page interface on localhost and keeps everything in a
*workspace*, a directory with a SQLite database (`ledger.db`), the attachments
and an inbox. Swedish law shapes its core: bookings are numbered without holes,
are never changed once they are sealed, and closed periods stay closed.

This directory holds a formal model of it, of the core of the ledger and of the
page: TLA+ modules translated from the source, TLC configurations that check them
on small workspaces, and theorems about them checked with TLAPS. Paths below are
relative to the repository.

## 1. The system

| Component | State | Operations | Hard behaviours |
|---|---|---|---|
| Verification series (`internal/ledger/verification.go`, `storno.go`, `locks.go`, `maintenance.go`) | tables `verifications`, `verification_rows`, `period_locks`, `fiscal_years`, files in `attachments/` | post, storno, void a draft, lock a month, lock a year, fill gaps | every order of these; a refused posting with its file already written; a crash between file and commit |
| WORM seal (`internal/ledger/worm.go`) | column `hash` of `verifications` | seal all or only drafts older than 24 h, verify the chain, the goroutine that seals after a posting | the goroutine checks outside a transaction and compares UTC with local time; the chain must not get holes |
| VAT transfer (`internal/ledger/vat.go`) | as above | report, transfer | three transactions or queries in a row, with other requests between them; the request sent twice |
| Invoices (`internal/ledger/invoice.go`) | `invoices`, `invoice_items`, settings' start number | create, credit, update, delete, post, pay, settle | PostInvoice reads before its transaction; credits against payments in any order |
| Fiscal years, year close (`fiscal_years.go`, `year_close.go`) | `fiscal_years`, opening balances | create a year, generate the opening balance | balances and the check for an earlier opening balance are read before the transaction |
| SIE import/export (`sie_import.go`, `sie4.go`) | the series | preview, import, export | the preview decides what is skipped before the transaction |
| Opening a workspace (`ledger.go`, `init.go`) | `ledger.db`, its backup, `schema_version` | back up, migrate, recover, refuse a downgrade | crashes between remove and rename |
| Inbox and cloud fetch (`internal/inbox`) | `inbox/`, `inbox_items`, the cloud directory | save, delete, fetch, report orphans | a file and a row written one after the other |
| Backup and restore (`internal/api/backup.go`) | an archive; the whole workspace | export, restore | the snapshot against the attachments; a restore stopped halfway |
| HTTP server (`internal/api/server.go`) | `lastPing`, `unloadTimer`, `shutdownChan` | ping, unload, watchdog, shutdown | timers against pings; the database closed under a goroutine |
| Setup and configuration (`setup.go`, `config.go`, `settings.go`, `logo.go`) | list of workspaces, `company_settings` | read, change, write | lost updates |
| The rest of the server (reports, PDF, dashboard, OCR, accounts, customers, audit log, routes, CLI) | — | queries, single statements, layout | none that a test would not reach |
| Posting form and inbox of the page (`frontend/static/js/app.js`) | the form, its receipt, the list of the inbox, the flag of the scan | drop, load, scan, template, type, submit | a reader, a scan, a load and a submit under way at the same time, all writing to one form |
| Invoice page (`app.js`) | the open invoice, the list, the customers | open, edit, save, post, pay, credit, settle, delete | calls of several requests that read the open invoice anew after each |
| Ledger views (`app.js`) | years, active year, list, sums, accounts | change of year and every operation that refreshes | answers out of order |
| Reports and VAT page (`app.js`) | periods, reports | report, transfer, save | what is sent is read after the question; files named when the answer comes; clock changes |
| SIE, year close, export (`app.js`, `tools.js`) | file, year, preview, busy flags | preview, import, opening balance, export | choices changed while a request is under way |
| Settings page, backup and restore dialogs (`app.js`, `index.html`) | the form, two dialogs | save, upload, export, restore | whole-row writes; answers after a dialog was closed |
| Toasts, questions, armed buttons, printing (`app.js`, `tools.js`) | timers, a promise, a flag | show, ask, click twice, print | timers of earlier uses |
| Shell and palette (`app.js`, `command-palette.js`) | licence keys, views, pings, the palette's focus and list | start, accept, navigate, shut down, run a command | a hidden field that has the focus; pings after the shutdown |
| Amounts of the page (`app.js`) | rows in kronor, totals of an invoice | template, type, submit, recalculate | floating point |

How they interact. All handlers share one database. `OpenLedger` opens it with
`_txlock=immediate`, so each transaction holds the write lock from its first
statement and two transactions never overlap; a handler that reads with
`l.db.QueryRow` *before* it begins its transaction gets no such protection.
`postVerificationTx` is the one way in for postings, VAT transfers, invoices,
payments, opening balances and imports; `sealVerificationsTx` the one way to
seal, and it calls `fillSequenceGapsTx` first. SQLite triggers refuse changes
of sealed verifications and of posted invoices. The page is one JavaScript object:
its handlers run one at a time up to each `await`, and whatever is read after one
may have been changed by another handler. It calls the routes, shows what they
answer, and keeps nothing but the keys of the licence.

What makes the components correct:

- *series and seal*: sealed numbers are a prefix of the series; the chain
  verifies at any time; what is sealed only grows at its end; a closed month
  holds no draft and never changes; a storno cancels what it reverses; the
  24 hours of a draft are respected;
- *VAT*: a month is transferred at most once, whatever is retried; nothing
  enters a closed month; drafts of a locked month get sealed; the transfer
  empties the account;
- *invoices*: numbers without holes; an invoice is booked once with its total,
  paid once, and frozen once posted; credits stay within the invoice; nothing
  is owed when all is closed;
- *page*: no receipt leaves the inbox unbooked, no form is booked twice, what was
  asked about is what is done, and once all is answered the screen is what the
  server has; nothing is erased that the user did not change; what has a timer
  ends; amounts are sent to the öre and dates name the days they mean.

## 2. Modules

| Module | What it is |
|---|---|
| `WormLog` | the abstract promise: a log to which entries are only appended |
| `Verifications` | the series, its locks, gaps, seal and auto-seal goroutine |
| `VatTransfer` | extends `Verifications` with `TransferVat` in several steps |
| `Invoices` | invoices, `PostInvoice` in several steps |
| `PostingForm` | the form of a verification, its receipt, the scan and the inbox of the page |
| `InvoicePage` | the open invoice, the list and the calls of its buttons |
| `LedgerView` | years, lists and sums, and the operations that refresh them |
| `ReportView` | VAT report and transfer, annual report, saved files |
| `SieImport` | both import pages, the opening balance, the export |
| `SettingsPage` | the settings form and the logo against the row of the server |
| `Restore` | the two dialogs of backup and restore |
| `Widgets` | toasts, questions, buttons clicked twice, printing |
| `Shell`, `Palette` | the start and the frame of the page; the palette extends the shell |
| `Periods`, `Amounts` | dates and sums the page works out itself |
| `SeriesProofs` | the theorems about `Verifications` and `VatTransfer` |
| `FrameProofs` | those about `Widgets`, `Shell` and `Palette` |
| `ViewsProofs` | those about the other parts of the page, and about the types in `MCPage` |
| `InvoicesProofs`, `PostingFormProofs`, `InvoicePageProofs`, `AmountsProofs` | those about the module of that name |
| `SumTheorems` | lemmas about sums over sets, for the balance of a period and of an invoice |
| `MC…` | constants for TLC; `MCPage` runs the small parts of the page one after the other |

### Verifications

State: `ver` is the table of verifications (with `amt`, the balance its rows
leave on one account the reader picks, standing for the rows), `seq` is the
`AUTOINCREMENT` counter, `hash` the hash column, `locks` and `fiscalYears` the
two kinds of lock, `files` the attachment files, `clock` the wall clock and
`autoSeal` the stages at which auto-seal goroutines are.

| Action | Code |
|---|---|
| `PostVerification`, `RejectVerification` | `verification.go` `PostVerification` / `postVerificationTx`; the file is written before the year, period and account checks |
| `StornoVerification` | `storno.go`; dated today, refuses a second reversal, a reversal of a reversal and one without rows |
| `VoidDraftVerification` | `verification.go:359` |
| `LockPeriod`, `LockFiscalYear` | `locks.go`; lock and seal of all drafts in one transaction |
| `SealVerifications`, `FillSequenceGaps` | `worm.go:26`, `maintenance.go:11` as the maintenance routes call them |
| `AutoSealCheck`, `AutoSealRun` | the goroutine at `verification.go:88`: the query, then the seal |
| `Restart` | the process killed and opened again: rows survive, goroutines do not, a posting cut short may leave its file |
| `Tick` | time |

Abstractions, each with its reason:

- *Dates are months.* Locks, gap fillers and stornos compare months and years
  only.
- *Rows are one balance.* That a verification balances over all its accounts is
  checked on the request alone, before anything is read (`verification.go:37-57`);
  what several steps can break shows on any single account. A posting that leaves
  that account alone is not distinguished from none, so `amt = 0` can stand for a
  verification without rows.
- *A hash is what was hashed.* SHA-256 is taken to be free of collisions, so the
  hash of a verification is the function from the numbers chained so far to
  their payloads. `Payload` holds the fields of the code's payload; the type and
  `storno_ref_id` are not in it, as in the code.
- *One transaction is one action*, because of `BEGIN IMMEDIATE`. An action that
  fails with no effect is left out, one that fails with an effect
  (`RejectVerification`) is there.
- *Goroutines are a set of stages.* They carry no data, so two at the same stage
  behave like one that may stay there.
- *Holes.* `AUTOINCREMENT` alone leaves none in this version (ids of rolled
  back inserts are rolled back too), but the code repairs workspaces that have
  them; `InitialIds` gives such a workspace.

### VatTransfer

`TransferVat` is four steps: `VatCheck` (year and locks), `VatRead` (the balance
query), `VatPost` or `VatReject` (the transaction that books and locks) and
`VatSeal` (another transaction, whose failure is only logged). Between them
everything in `Verifications`, and other transfers, may happen. The check and the
balance query are one step each: several queries make them up, but splitting
the check allows nothing that the gap after it does not. `amt` is the balance on
the one VAT account that is followed.

### Invoices

`invoice` is the table, with `total` for the header and `items` for what the rows
add up to, `booking` the bag of verifications that invoices and payments leave
on account 1510, and `post` how far the PostInvoice requests are. PostInvoice takes
three steps (header, rows with the credit check, transaction). `CreateInvoice`,
`UpdateInvoice` and `DeleteInvoice` are one step each: the triggers of migration 15
check again inside the write. `CreateCreditInvoice` reads a posted invoice, which
cannot change, and the sum of its credits; it makes drafts only, which are checked
again when they are posted. The ledger's own refusals (locked period) are the
choice of `PostFails`.

### PostingForm

The form holds an attachment, the id of the inbox item it came from, a text that
is either the user's or of a scan, and rows, which are one content that is fresh
each time the user types. `loads`, `reads` and `scans` are what is under way, and
`submit` has a press of the button through request, answer and the deletion of
the item. `FillIn` is all typing, and `PerformOCR` the whole end of a scan: which
fields it fills depends on what the parser found and on what the form holds.
`archived`, `discarded`, `copies` and `mishap` record the past for the properties.
A deletion may be refused, or be done and its answer lost: then the item is gone
from the inbox and stays in the drawer.

### InvoicePage

An invoice is a body (a number that is fresh for each edit), a status, and whether
its customer still has a name: `AnonymizeCustomer` erases the names in the drafts of
a customer (`customer.go:49-52`), any set of drafts in the model. A call
is one press: it goes through question, save, post or other request, and the
fetch of the list, and reads `selectedInvoice` where the code reads it after an
`await`. `wanted` is what the user clicked last, `astray` the invoices posted or
deleted that no question was about. The server is its checks and updates
(`May`, `Serves`, `StoresCustomer`), each in one step with its answer; an invoice may
be credited in parts, for which a credit may be refused though `May` allows it. A
credit writes the customer of its original into the register again
(`invoice.go:16-50`), which the page does not notice: `customers = "rewritten"`.

### The rest of the page

`LedgerView` gives the books of each year two version numbers and lets answers
come in any order. It has every operation that books, those of the invoice view
(`postInvoice`, `payInvoice`, `settleInvoice`) too, which fetch neither list nor
sums, and the auto-seal, which changes the list with no page involved (`AutoSeals`).
What these change of the active year is `unseen` until it is fetched. `ReportView`
takes a VAT period as the year it is in, or as none when the user has cleared one of
its dates (`SetVatDates`); `CalculateVatReport` is then not called, and the report
of before stays. `ReportView`, `SieImport`, `SettingsPage` and `Restore` keep
the requests under way with what they were sent with, and compare when an answer
comes what it was asked for with what the page makes of it. A page of settings that
is loaded anew leaves requests behind (`stray`), which the server may still serve.
`Widgets` has a clock
for armed buttons and sets of running timers; `PrintThrows` is an exception in the
`onload` of a print, after which nothing takes the flag down. `Shell` has the keys in the
browser's storage across loads of the page, `Palette` the focus and the list.
`Periods` moves dates as `Date` does between local time and UTC. `Amounts` rounds
as IEEE numbers do, with `Precision` bits, which are 53 in a browser and 13 in the
runs, where the amounts that cannot be posted are those of a browser (6, 7, 9, 12,
18 öre, …). Rows stand in
öre, from which their kronor follow; a field that was cleared is the empty string,
with which a row counts as filled in (`app.js:2046`), and `Submits` takes any
choice of these.

The user is careful or not: `haste`, `rush`, `impatience` and the like count how
often he acts while something is under way, `failures`, `losses`, `errors` how
many requests were refused or lost. Their bounds are constants; properties that
only hold for who waits say so by the counter, and the others hold for everyone.

## 3. Runs

`CHECK_DEADLOCK FALSE` everywhere: ids and the clock are bounded, and an idle
server with nothing left to do is no error.

| Run | Shows | Bounds |
|---|---|---|
| `Series` | frozen months without drafts, storno and the 24 hours in every order of operations, in a workspace that opens with number 2 only: the gap filler comes before the seal | 3 months in 2 years, 4 numbers, 2 instants, 1 attachment |
| `Liveness` | a woken goroutine gets the first old draft sealed; drafts of locked months get sealed | 2 months, 2 numbers, 4 instants, two transfers, local time one tick ahead of UTC |
| `Vat` | two transfers, everything between them, restarts; the chain verifies, and the sealed part is a `WormLog` | 2 months, 3 numbers, a draft to start with |
| `Invoices` | two concurrent posts among all operations; the number series | 3 invoices, 2 totals |
| `PostingForm` | the receipts and the form | one item, one file, two presses, one hasty act, any number of lost requests |
| `InvoicePage` | the open invoice, the list, the customers | 2 invoices, 2 calls, one hasty act, one failure |
| `Page` | all other parts of the page | 2 years, 2 files, 2 logos, 2 archives, 2 workspaces, 3 toasts, 3 prints; amounts to 30 öre in 3 rows on 3 accounts; the calendar of 2024–2028 |

Why these bounds. A reversal, what it reverses and one more verification are
three numbers; a locked month, an open one and one in another year are three
months; a young and an old draft need two instants when a draft of the one before
is old (`Day = 0`; `Liveness` has a day of one tick). Requests interact pairwise
(the check of one, the transaction of another), so two transfers or two posts
suffice, and three invoices make an original with two credits, or a number series
with a hole in the middle. `MaxId`, `MaxInvoice` and `MaxClock` only cut the run
short: they are guards of no handler in the code. `Requests`, `Posts`, calls, items
and presses are symmetric in the safety runs; the liveness run uses no symmetry.

On the page, an answer that is late and the one that overtakes it are two
requests, what is replaced and what replaces it two values of a kind, and a third
toast or print shows what the timer of the first does to it. Two fiscal years
make the one left and the one entered.

`MCPage` is a way to check the small parts in one run: `part` says which one a
behaviour is about, and the variables of the others stand still. It is no model of
how the parts work on each other. Where one view changes what another shows, the
operation is in the module of the other (the bookings of an invoice in
`LedgerView`), and `InvoicePage` is checked on its own because its states times
those of the ledger do not fit in a run. Ledger and settings are given one trouble
at a time, a hasty act or a lost request (`rush' + losses' <= 1`).

The properties of a small part of the page are the conjuncts of one invariant,
which the runs name: `ScanOfForm`, `PageIsServer`, `ReportAsAsked`, `SieAsShown`,
`SettingsKept`, `RestoreAsShown`, `WidgetsInOrder`, `ShellInOrder`,
`PaletteInOrder`, `DatesNear` and `FiguresAgree`. Each conjunct has a name and a
comment of its own in the module.

Each property of a passing run has a mutant, and each conjunct of those has one
too: an operator next to the definition it replaces (`StornoAgain`,
`VatPostTrustsCheck`, …) with a plausible mistake, under which TLC finds the
property violated.

### What the documents say and the code does not do

Five runs are expected to fail. Each checks a sentence of the documentation, of
the interface or of a comment:

| Run | Sentence | What happens |
|---|---|---|
| `VatStaleBalance` | the transfer empties the accounts atomically (`docs/system_documentation.md:42`) | the balance is read before the transaction |
| `InboxReceipt` | the item that was booked is deleted from the inbox (`frontend/static/js/app.js:2068`) | the form remembers an item whose file it turned down (a `.webp`, which the inbox takes), and the next posting deletes it |
| `FloatBalance` | no floats for currency (`AGENT_RULES.md:6`), "Verifikationen balanserar inte!" (`app.js:2037`) | rows that balance to the öre are refused, because sums of binary fractions are compared exactly |
| `QuarterDates` | "Kvartal 1 (Jan-Mar)", … (`frontend/views/index.html:641`) | moved in local time and written in UTC: January to 30 March, 31 March to 29 June |
| `ErasedName` | "Detta raderar personuppgifter enligt GDPR" (`app.js:433`) | the server erases the name in the drafts, the page does not fetch the open one, and saving it unedited writes the name back to the draft and to the customer (`invoice.go:298-303`) |

Others are in the models as behaviours and without a run of their own, since
the properties that do hold are stated around them:

- drafts older than 24 hours are sealed only when somebody posts
  (`index.html:366` says they are);
- a posting refused after its file was written leaves the file
  (`ARCHITECTURE.md:58` says it is removed);
- two credits of an invoice posted at the same time can exceed it
  (`decision_ledger.md:111` says they cannot);
- a credit settled after its invoice was paid stays on 1510
  (`decision_ledger.md:125`);
- a draft deleted while it is posted is booked (`invoice.go:388`);
- list and dashboard do not show what posting, paying or settling an invoice has
  booked until they are fetched for another reason (`app.js:594-647`; the watcher of
  the year is there to "keep dashboard, verifications, and dates in sync",
  `app.js:322`): `ActiveYearShown` excepts it by `unseen`;
- crediting an invoice of a customer who was made anonymous brings his name back
  into the register (`StoresCustomer`; `invoice.go:298-303` and `:16-50`), and the
  page does not fetch the customers after a credit: `CustomersKnown` excepts it;
- an exception while the print dialog opens blocks printing until the page is
  loaded anew (`app.js:720-733`): `PrintingEnds` excepts it.

## 4. Fairness

The run `Liveness` uses `VatFairSpec`: weak fairness of

- the two steps of the auto-seal goroutine, because the Go scheduler runs a
  sleeping goroutine sooner or later and nothing can keep it from its query or
  from its transaction (SQLite's busy timeout aside);
- the next step of each transfer under way: a handler that has started runs on,
  and `net/http` does not stop it;
- `Tick`, because time passes.

No request is fair: nobody has to send one. The process stays up; with a restart
nothing is promised, as the goroutine is lost. The page has no liveness stated
under fairness: nothing makes a server answer or a user act. That what is waited
for is still to come is stated as invariants instead (`QuestionIsShown`,
`PrintingEnds`, `ToastHasItsTimer`, `LoadingEnds`, `ArmedIsTimed`).

`AutoSealCatchesUp` is about the first draft: the seal stops at the first young
one. The run has UTC behind local time, the direction in which the goroutine is
the stricter of the two; in the other it wakes a seal that then leaves the young
draft alone (`YoungDraftsKept`).

`LockedDraftsGetSealed` holds for a series without holes; with holes in it and
the current month locked the seal fails and is only logged.

## 5. Proofs

`SeriesProofs` proves, for every calendar, clock, offset, number of gaps,
set of amounts and attachments and every initial set of holes allowed by
`CalendarAssumption` and `DataAssumption`:

| Theorem | States |
|---|---|
| `TypeCorrect` | `Spec => []TypeOK` |
| `SealedPrefix` | `Spec => []SealedIsPrefix` |
| `ChainAlwaysVerifies` | `Spec => []ChainVerifies` |
| `ClosedMonthsAreSealed` | `Spec => []ClosedIsSealed` |
| `ClosedMonthsAreFrozen` | `Spec => ClosedMonthFrozen` |
| `SealedPartIsWormLog` | `Spec => ImplementsWormLog` |
| `StornosCancel` | `Spec => []StornoCancels` |
| `YoungDraftsAreKept` | `Spec => YoungDraftsKept` |

The inductive invariant is

    IInv == TypeOK /\ SealedIsPrefix /\ ChainVerifies /\ ClosedIsSealed /\ AttachmentsOnDisk

None of the parts is inductive alone. A new hash is chained to the hash of the
highest sealed number; that this is the chain over *all* sealed numbers
(`PreviousHashIsWholeChain`) needs the chain to verify before. That the numbers
sealed next come after it, so that no earlier hash covers less than it should,
needs the sealed numbers to be a prefix; that the seal reaches every number below
needs the gaps to be filled first (`FillingGaps`), and for that the type
invariant: numbers run up to `seq`. An attachment of a sealed verification is on
disk because that of every verification is, drafts included
(`AttachmentsOnDisk`). A closed month stays sealed because nothing can be booked
in it (`OpenIsNotClosed`), not even by the gap filler, and the step that closes
it seals all (`LockAndSeal`).

The lemmas follow the operations: `FillingGaps`, `Sealing`, `Booking` state what
the helpers do to the invariant, one lemma per handler (`…IInv`) puts them
together, and `NextIInv` splits on `Next`. For the two properties of steps,
`FillingKeeps`, `SealingKeeps`, `BookingKeeps` and `VoidingKeeps` state that each
leaves sealed rows, closed months and the sealed log as they were, and `NextKeeps`
collects them.

`SInv` is `IInv` without `ClosedIsSealed`. `StornoCancels` is inductive beside it:
new reversals look for one there is already, and what voiding leaves at nothing
is excepted. `YoungDraftsKept` needs the types alone: of the steps that seal, a
lock changes the locks, and the other seals take drafts older than 24 hours only
(`SealTakesOldDrafts`).

`SeriesProofs` also proves of the series with its transfers, for any number of
requests, of months and of accounts' balances:

| Theorem | States |
|---|---|
| `TransfersAreTyped` | `VatSpec => []VatTypeOK` |
| `ChainVerifiesWithTransfers` | `VatSpec => []ChainVerifies` |
| `SealedPrefixWithTransfers` | `VatSpec => []SealedIsPrefix` |
| `SealedPartIsWormLogWithTransfers` | `VatSpec => ImplementsWormLog` |
| `StornosCancelWithTransfers` | `VatSpec => []StornoCancels` |
| `TransfersAreUnique` | `VatSpec => []TransferredOnce` |
| `ClosedMonthsAreComplete` | `VatSpec => ClosedMonthNotExtended` |
| `DraftsAreOfTransfers` | `VatFairSpec => []DraftsOnlyDuringTransfer`, if `InitialIds = 1..LastInitialId` |

They rest on invariants of their own, since a transfer leaves drafts in closed
months and `ClosedIsSealed` of the series does not carry over: the month of every
transfer is locked, locks are never lifted, and `VatPost` looks at the lock again.
`SInv` is inductive with transfers too, and the chain verifies by it. Each helper
keeps what is sealed by `SInv` alone (`SealingKeeps` and the others), so that the
sealed part is a log beside transfers as well (`KeepingIsWriting`). What needs
`ClosedIsSealed` does not carry over and is not claimed: between the two
transactions of a transfer its draft, and drafts of the month it locked, can still
be voided (`ClosedMonthFrozen`), and its seal takes drafts of any age
(`YoungDraftsKept`). The last theorem is about runs without a restart, which would leave the draft of a transfer
between its two transactions, and its assumption is one about the workspace: with
holes in the series the seal may fail, and the draft stays in the closed month too.
The lemma `NoGapKept` shows that without holes at the start there never are any.

`InvoicesProofs`, for any totals, start number, invoices and requests:

| Theorem | States |
|---|---|
| `InvoicesTyped` | `Spec => []TypeOK` |
| `InvoiceNumbersUnbroken` | `Spec => []NumbersUnbroken` |
| `PostedInvoicesAreFrozen` | `Spec => PostedFrozen` |
| `PostedInvoicesAreBooked` | `Spec => []PostedIsBooked` |
| `UncreditedInvoicesClear` | `Spec => []UncreditedClears` |

The numbers are an interval whose length is the number of posted invoices; the
step that posts adds the next one (`NextNumber` is the highest plus one, or the
start), and cardinalities come from `FiniteSetTheorems`. What is booked is a bag:
`BookingInv` says of each invoice which rows are in it and how often (none for a
draft, the invoice's row once for a posted one, the payment's too for a paid one),
and what is receivable is a sum over one or two rows. The sums of `FiniteSetsExt`
are a fold; `SumTheorems` shows of it that there is such a sum for every finite
set, that it is an integer, and what it is for one element and for two.

`PostingFormProofs`, for any items, files, presses and counters:

| Theorem | States |
|---|---|
| `FormTyped` | `Spec => []TypeOK` |
| `NoReceiptIsLost` | `Spec => []ReceiptsKept` |
| `FormsAreBookedOnce` | `Spec => []BookedOnce` |
| `ScansStayWithTheirForm` | `Spec => []ScanOfForm` |

The inductive invariant is the types, `FlagMeansScan`, `OneAtATime` (who waits
has one call, download, reading or scan under way, never two), `FormKnown` (the
item the form remembers is the one whose file it holds, and what is being deleted
has been booked) and `Fresh` (what is in the form was not booked before).

`InvoicePageProofs`, for any invoices, calls and counters:

| Theorem | States |
|---|---|
| `PageTyped` | `Spec => []TypeOK` |
| `LastClickIsShown` | `Spec => []LastClickWins` |
| `ConfirmedIsWhatIsDone` | `Spec => []ConfirmedIsDone` |
| `RestingPageIsServer` | `Spec => []PageIsServer` |
| `DraftsHaveNoTwins` | `Spec => []NoTwins` |
| `CustomersAreKnown` | `Spec => []CustomersKnown` |

The properties speak of a page at rest, the invariants of one that is not: for
who waits one call at a time is under way, and it still has on the screen what it
saw when it began (`QuietInv`); and if nothing failed, the screen is what the
server has (but for a name it has erased from a draft since) or a fetch or call is
under way that opens it again, the list is that
of the server or a call will fetch it, and bodies differ (`FreshInv`). The attempt
to prove this showed that the `CASE` of `GoesAhead` had two arms that could
both hold, of which TLA+ leaves open which one is taken: it is now a disjunction
of cases that exclude each other.

`FrameProofs`, for `Widgets`, `Shell` and `Palette`:

| Theorem | States |
|---|---|
| `WidgetsStayInOrder` | `WidgetsInOrder`, from `ToastTimed`, `QuestionShown`, `ArmedTimed`, `DoubleClickHarmless`, `PrintingHasAnEnd` and `PrintsOneByOne` |
| `ShellStaysInOrder` | `ShellSpec => []ShellInOrder`, from `LicenceFirst`, `KeysDoNotGather`, `ViewsExclude` and `StopComes` |
| `PaletteStaysInOrder` | `PaletteSpec => []PaletteInOrder`, from `ClosedPaletteRests`, `LicenceOnTop` and `HighlightIsRun` |
| `ShellInOrderUnderPalette` | `PaletteSpec => [](ShellTypeOK /\ ShellInOrder)` |

Each widget has a specification of its own, and no two have a variable in common:
the theorem about all of them is about the conjunction of the four. That the
highlight is the command that runs comes from a lemma about places in a list:
numbering the members of a finite set is one to one, so a place below the length
is that of one command. A command of the palette is no step of the shell, since
`ShellNext` changes the view only when nothing covers the page and the palette
does not ask: the palette does not implement the shell, and the last theorem
proves the invariant of the shell over again for the steps of the palette.

`ViewsProofs`, for the other parts of the page:

| Theorem | States |
|---|---|
| `ActiveYearIsShown` | `LedgerSpec => []ActiveYearShown` |
| `ReportsAreAsAsked` | `ReportSpec => []ReportAsAsked` |
| `SieIsAsShown` | `SieSpec => []SieAsShown` |
| `SettingsAreKept` | `SettingsSpec => []SettingsKept` |
| `DialogsDoWhatTheyShow` | `RestoreSpec => []RestoreAsShown` |
| `MovedDatesAreNear` | `PeriodsSpec => []DatesNear`, from `DueDatesAreNear`, `PresetsAreNear` and `QuartersCoverTheYear` |
| `PageKeepsItsTypes` | `PageSpec => []PageTypeOK` |

The list of the active year is the one of the server because an answer to come
will replace it. `CalmInv` makes this an invariant: with no hasty act and nothing
lost, what is asked for is asked for of the active year; what is on the screen and
is not of it is asked for again; and while an operation is under way, nothing else
is. What has changed with nobody to fetch it stays in `unseen` until some fetch is
answered. `LedgerSpec` allows hasty acts and losses together and in any number
(`MaxRush`, `MaxLosses`), beyond the one trouble that `Page` gives it. The others
follow the same scheme: what a request was sent with (`TransferInv`, `NamedInv`,
`PickedInv`) holds for everyone, what the screen shows beside it (`PatientInv`,
`SieQuietInv`, `CarefulInv`, `WaitingInv`) for who waits, as the properties say.

Those of `Periods` hold for any calendar with increasing months and any set of
summer times, so that the day that is lost is never more than one.

`PageKeepsItsTypes` is about `MCPage`, every step of which is by construction one
of some part that leaves the rest alone (`PageStep`). Only shell and palette share
variables; for these `PageFrameInv` is proved of the steps of both, and that the
palette is closed where the shell runs alone. The promises of the parts are proved
of the parts themselves: that they hold of the union would say nothing more.

`AmountsProofs`, for any number of rows, accounts and items of an invoice and for
amounts that `AmountsAssumption` allows:

| Theorem | States |
|---|---|
| `FiguresOfPageAgree` | `AmountsSpec => []FiguresAgree` |

The page compares totals that were rounded once per row, and sends rows that were
rounded on the way to kronor and back. The invariant is simple: the rows are of
the form's types, what was sent last had equal totals in kronor (`PostedInv`), what
was added to the dashboard is what those rows make (`SummedInv`), and the total of
an invoice is that of its items (`BillInv`). What has to be shown is that equal
totals in kronor are equal in öre. `FloatNear` bounds the error of one rounding by
half a unit, for any power of two that is large enough for the number; `UnitExists`
finds a `Unit` that is large enough for the total of all rows and so small that the
errors of two totals, at most `MaxRows` units each (`NearAdds`), add up to less
than an öre (`DiffTells`); `RoundTrip` shows that a single amount survives. The
assumption is the price: 16 times an amount, times the square of the number of
rows, is at most `2^Precision`. In a browser, with 53 bits, this allows 500 million
kronor in each of 100 rows. The other direction, that what balances in öre does
so in kronor, is false (`FloatBalance`).

Sums and choices of rows are recursive over a sequence, and induction is not to be
had of an operator. It is of a set, though: `UpTo` takes the least number outside a
set, by `WFMin` of the library, and `Recursion` shows with it that a recursive
function exists and what its values are, of which the lemmas about powers, sums
and chosen rows are instances. For this the module has recursive functions where
`2^n`, `SelectSeq` or a fold might stand.

Only model-checked: the liveness properties `AutoSealCatchesUp` and
`LockedDraftsGetSealed`, whose proofs need `ENABLED` for the fairness of their
steps. The five runs that are expected to fail have no theorem either; each is a
counterexample.

## 6. How it was built, and what could follow

First the series with its proofs, then what writes to it (VAT, invoices), then
the page, from the form where receipts can be lost to the widgets. What would
add most from here: the year close on top of `Verifications` (an opening balance
read before its transaction), the attachments with torn files and failing
commits, and the invoices joined with the series.

## 7. Not modelled

- *Year close and creation of years* (`year_close.go`, `fiscal_years.go`), *SIE
  import* (`sie_import.go`): loops over accounts and rows around
  `postVerificationTx`; the pages that start them are modelled.
- *Opening a workspace* (`ledger.go`), *inbox and cloud fetch* (`internal/inbox`),
  *the archive of a backup* (`backup.go`): steps of the file system, whose
  failures the code does not tell apart.
- *Setup and the list of workspaces* (`setup.go`, `config.go`, `setup.html`), *the
  unload timer* (`server.go`): nothing of the books depends on them. The watchdog
  is in `Shell`.
- *Reports, PDF, dashboard, SIE export, OCR, accounts, customers, audit log*:
  queries, single statements or text conversion without a protocol. The routes
  decode requests and choose error codes; what they allow a client to call is the
  `\E` of each `Next`.
- *Of the page*: the filter of the list, the answer of `runVerification`, the
  inspector of receipts, formatting, the clipboard, the shortcut on the desktop, and
  the card "Skapa Faktura", which closes the open invoice 50 ms after it has shown
  the invoice view (`index.html:303`).
- *`app_served*.js`*: three earlier copies of `app.js` that nothing loads.

The encryption of backups, the HTTP token and the logo filter are left aside.
Amounts of the server are 64-bit integers in öre, a range no ledger comes near,
and are plain integers here.

Hazards of the server that follow from what is left out, beside those listed in
`PROJECT.json`:

- a torn attachment after a crash is never written again (`verification.go:149`),
  and a commit that fails removes a file that another posting may use by then
  (`verification.go:65`);
- with more than 1000 missing numbers every seal, and every lock with it, fails
  (`maintenance.go:74`; the guard is `CanFillGaps`, and the theorems hold for any limit);
- a new year's opening balance is booked as type NORMAL and without the lock
  checks, and is not seen when one is generated later (`fiscal_years.go:143`);
  the result of the seal after that is ignored (`year_close.go:147`);
- the import decides what to skip before its transaction (`sie_import.go:442`);
- a crash after a failed migration leaves no `ledger.db` (`ledger.go:78`), and the
  check for a downgrade comes after the migrations (`ledger.go:104`);
- inbox and cloud fetch lose track of a file when they are stopped between file
  and row (`inbox.go:98`, `inbox.go:138`, `cloud_fetch.go:94`);
- an unload timer may have fired when a ping stops it (`server.go:337`), and the
  shutdown closes the database under a waiting goroutine (`server.go:178`), which
  then changes nothing;
- a backup takes the database and the attachments one after the other
  (`backup.go:121`), and the list of workspaces is written as a whole
  (`config.go:125`).

What the models narrow, beside the bounds:

- `Invoices.MayHold` takes the rows of a credit as one value, where
  `invoice.go:258-286` matches them one by one by their description; and the totals
  of a draft are those of the model's items, where the server takes over what the
  client sends (`invoice.go:65`, `:340`) until it posts the invoice. `StartNumber` is
  positive, which `settings.go:33` does not check.
- `SettingsKept` is about settings that have a name, and a user who waits for them:
  settings without one are not fetched, and the next save erases the rest
  (`app.js:1040`). Of this part of the hazard the property says nothing.
- `BookedOnce` is about presses after an answer. Two presses before the first answer
  book twice (`app.js:2060`); the model has the behaviour and no property forbids it.
- A VAT period has no first and last day of its own in `ReportView`; `Periods` has
  the days of the presets.
- The requests of the invoice view are served in one step with their answers, and a
  second credit of an invoice needs a third id, which the run does not have; the
  theorems hold for any number.

Two behaviours are in the models without a property that forbids them. A draft
that has been reversed can be voided, after which its storno reverses nothing
(`StornoCancels` leaves voided verifications out). Between the two transactions of
a VAT transfer drafts of the months just locked can still be voided.

## 8. Running

    tlc -config Series.cfg MCVerifications.tla
    tlc -config Vat.cfg MCVatTransfer.tla
    tlc -config Invoices.cfg MCInvoices.tla
    tlc -config PostingForm.cfg MCPostingForm.tla
    tlc -config InvoicePage.cfg MCInvoicePage.tla
    tlc -config Page.cfg MCPage.tla
    tlapm SeriesProofs.tla      # and the other …Proofs modules

The longest runs, `Liveness` and `Page`, take three to four minutes with two workers.

`PROJECT.json` lists the runs with their modules, the correspondence of every
definition with the lines it stands for, the hazards and the theorems.
