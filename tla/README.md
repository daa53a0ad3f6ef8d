# TLA+ models of erp-connector

erp-connector is a Windows daemon in Go, `erp-connectord`, that gives a web
shop an HTTP API in front of an ERP (Hasavshevet or SAP), and a settings GUI,
`erp-connector`. The delicate part is `POST /api/sendOrder`: an order gets a
number from a file, waits in an in-memory queue, is written as a pair of import
files (`IMOVEIN.doc`, `IMOVEIN.prm`) that all orders share, is imported by
another vendor's program, and is then printed and mailed. The other requests
read prices and stock or run an SQL query on the ERP's database. This
directory holds TLA+ models of the system, the TLC runs that check them, and
TLAPS proofs.

All paths below are relative to the root of the repository.

## 1. Inventory

| Component | Source | State | Operations | Interacts with |
|---|---|---|---|---|
| Order number store | `internal/erp/hasavshevet/order_number.go` | `lastOrderNumber.json`, a mutex | `Next` | called by `Submit` from HTTP goroutines |
| Order queue | `internal/erp/hasavshevet/queue.go` | bounded channel, `jobs` map, worker goroutine, its context | `Submit`, `Start`/`run`, `Status`, `Stop` | handlers on one side, Sender and hooks on the other |
| Send-order handler | `internal/api/handlers/send_order.go` | none | validate, map, `Submit`, answer 202/400/503 | queue |
| Send-order pipeline | `internal/erp/hasavshevet/send_order.go` | files of `SendOrderDir` | `processOrderWithNumber` | database, files, importer |
| Importer launch | `internal/erp/hasavshevet/exec_windows.go`, `exec_stub.go` | a child process | start, wait, kill on cancel | has.exe, or a BAT file through cmd.exe |
| IMOVEIN generator | `internal/erp/hasavshevet/imovein.go` | none | fixed-width records, Windows-1255 | pipeline |
| Post-order hook | `internal/erp/hasavshevet/pdf_hook.go` | temporary files, `invoice_<n>.pdf` | fetch HTML from the backend, render, save, print, mail | called by the worker |
| PDF, print, e-mail | `internal/pdf`, `internal/print`, `internal/email` | none | headless Chrome, print engines, SMTP, each with a time limit | hook |
| Daemon | `cmd/erp-connectord/app.go`, `main.go`, `internal/platform/autostart/service_windows.go` | queue, database pool, HTTP server, error channel | `Start`, `Stop`, service commands | everything above |
| Service control | `internal/platform/autostart/service_manage_windows.go` | Windows service record | create, start, stop, wait | GUI, service manager, daemon |
| Configuration store | `internal/config/io.go` | `config.yaml` | `Load`, `Save` | GUI writes, daemon reads at start |
| Secret store | `internal/secrets/secrets.go` | one file per secret | `Set`, `Get` | GUI writes, daemon reads at start |
| Settings GUI | `cmd/erp-connector/main.go`, `pdf_settings.go` | form, `f.cfg`, `f.busy` | save, start, stop, restart | the four above, stored procedures |
| API server, middleware | `internal/api/server.go`, `internal/api/middleware` | request contexts | routing, token, logging | handlers |
| SQL handler | `internal/api/handlers/sql.go` | none | check a statement, run it, collect record sets up to a limit | database |
| Price and stock | `internal/api/handlers/price_stock.go`, `internal/erp/hasavshevet/price_stock.go`, `internal/erp/sap/price_stock.go` | rows in the ERP's table `GETPRICE` | queries, merge by SKU | database |
| Stored procedures | `internal/erp/hasavshevet/gprice_bulk.go`, `onhand_stock_proc.go` | database objects | create if absent | GUI, price and stock |
| Database connection | `internal/db` | a pool of at most ten connections | open, close, lend | handlers and worker |
| File access | `internal/files/files.go`, `handlers/file.go`, `handlers/folders.go` | none | path checks, listing | image folders |
| Logger, paths | `internal/logger`, `internal/platform/paths` | log files | write | everything |

**How an order travels.** The handler validates, `Submit` takes a number from
the store (mutex, file), enters the job in `jobs` (mutex) and sends it to the
channel without waiting. The worker receives, sets the status, runs the
pipeline (database lookups, four file writes, importer), sets the status, and
runs the hooks (fetch, render, save, print, mail). All of it happens in one
process that the service manager, a signal, or a power failure may end at any
point; only the files survive, and with them the importer and the print engine,
which are processes of their own.

**How a price request travels.** The handler derives a deadline from the
request's context. In Hasavshevet the stored procedure `GPRICE_Bulk` enters the
items in `GETPRICE`, a table of the ERP, has the ERP price them there, reads
them back and deletes them; then every warehouse is asked for its stock, and Go
code merges the answers. In SAP one long statement does all of it. Each query
takes a connection from a pool that the SQL handler and the order worker share.

**What is hard about it, and what correctness means.**

- *Order numbers* are taken by concurrent handlers and must be unique across
  restarts; the file is truncated before it is rewritten.
- *The queue* takes three separate steps in `Submit` while the worker runs.
  The `jobs` map must be true of every accepted order, a refused order must
  leave nothing, none may be processed twice, sequential clients must be served
  in order, no handler may block, and one failed order must not stop the worker.
- *The pipeline* must never let the importer see a mixture of two orders'
  files or a torn file, an order reported as failed must not have been
  imported, and its permanent copies must stay. The record itself is laid out
  by two independent lists of 86 widths and must say what was ordered.
- *Shutdown* must end the worker although the importer is a foreign program.
- *Post-order work* must not change an order's outcome nor hold the next order;
  an invoice must be printed at most once, whole, and for its own order, by an
  engine that may hang or outlive the daemon.
- *The daemon and its owner*: starts, stops and restarts overlap with time
  limits on both sides, an operator and crashes; settings are files replaced by
  remove and rename.
- *Reading the ERP*: concurrent requests share one table and one pool; the ERP
  changes while they read; a deadline may pass anywhere. An answer must be
  right, whole and fresh, or be an error, and nothing may stay behind.

## 2. Modules

| Module | What it is |
|---|---|
| `NumberSequence` | abstract: an indivisible counter that may refuse, and may be lost only while a call is in progress |
| `OrderNumberStore` | `Next`, one action per system call; crash and I/O errors anywhere; implements `NumberSequence` |
| `OrderService` | abstract: what a client of sendOrder is promised |
| `OrderQueue` | handler, `Submit`, `run`, `Stop`, the queue's context, end and restart of the process; uses `NumberSequence`, implements `OrderService` |
| `SendOrder` | extends `OrderQueue` with `processOrderWithNumber`, the files and the importer process; implements `OrderQueue` |
| `PostOrderHook` | extends `SendOrder` with the inside of the hook and the print engine's process |
| `Settings` | the saves of the main form and of the PDF dialog, `secrets.Set`, `config.Save`, end and reopening of the GUI |
| `ServiceControl` | the daemon's `Start` and `Stop`, Windows service and console, the GUI's Start, Stop and Restart |
| `SqlStatement`, `PriceMerge`, `SapPrices`, `ImportRecord` | pure algorithms: the checks of a query's text, the merge by SKU, the SAP query, the import record; each with a reference it is compared with |
| `ApiServer` | extends those four with the requests that read the ERP, the worker's queries, contexts, pool and database |
| `MC*` | instances for TLC, one for each checked module |
| `OrderNumberStore_proof`, `OrderQueue_proof`, `OrderQueueService_proof`, `SendOrder_proof`, `PostOrderHook_proof`, `ServiceControl_proof`, `Settings_proof`, `ApiServer_proof` | theorems checked by TLAPS |

The stack is `PostOrderHook`, `SendOrder => OrderQueue => OrderService` and
`OrderNumberStore => NumberSequence <= OrderQueue`: each arrow is a property of
a run, and each is also proved. `ApiServer`,
`ServiceControl` and `Settings` stand beside it; they share no variable with it,
because what crosses between them is small: a configuration version, the end of
the process, and the worker's use of the pool, which each side models for itself.

An operator whose comment begins with "Mutant" is no part of the model. It is a
definition with a plausible mistake; putting it in place of the definition that
follows it makes a named property fail (`mutants` in `PROJECT.json`), which
shows that the property depends on the code.

### OrderNumberStore

`file` is the number the JSON file yields; `holder` the mutex; `pc[c]`, `data[c]`
each call's place and its local struct. `os.ReadFile` and `json.Unmarshal` are
one step because their errors are treated alike: a missing, empty, torn or
unreadable file yields 0. `os.WriteFile` is split into the opening with
`O_TRUNC` and the write, as a crash, or a full disk, can fall in between. A
partial write is not told apart from none: both leave text that does not parse.
`json.MarshalIndent` of a struct of one integer cannot fail and has no action.
`lost` is a history variable: it becomes true exactly when a read error, a
write error or a crash makes the store forget a number above zero. Every
promise of uniqueness is conditional on `~lost`, because the code breaks it
otherwise; see the findings.

### OrderQueue

`handler[r]` follows one HTTP request; `num[r]` is its number and job ID; `jobs`,
`ch`, `closed` and `cancelled` are the fields of the queue and its context;
`worker` is the goroutine's place in `run` with its job. The steps of `Submit`
that take the mutex or touch the channel are separate actions, because the
worker runs between them. Three simplifications: the send and the 202 are one
step (nothing observes the moment between); the fallback to a random job ID
without a number store, used only by unit tests, is left out; `JobResult` is
reduced to its status. `Exit` is the end of the process for whatever reason: a
crash, or the return of `main` after `serverApp.Stop`, which does not wait for
the worker. `Cancel` is the first statement of `serverApp.Stop`; handlers in
flight, and new connections until the listener closes, still reach `Submit`
after it. The daemon never calls `OrderQueue.Stop`; with `CallsStop` an owner
that does, at any moment, is modelled, so that the safety properties hold for
such an owner too. Nothing is promised of how `Stop` ends: its comment
(`queue.go:168`) says the worker exits after its current job, the closed channel
still hands out what it holds, and the model follows the code. `fate` and
`before` are history variables.

### SendOrder

`disk` maps the active pair (directory 0) and each order's history pair
(directory `n`) to the order the content was generated from, or to `Torn` or
`Absent`. `stage` and `target` are the program counter of
`processOrderWithNumber` and of its write loop. All early returns before the
directory is made (settings, validation, account lookup, generator error) are
`PrepareFails`; the rate lookup never fails an order. `importer[r]` is the
process started for an order, with a life of its own: it reads the active files
at any moment while it runs and exits with any result. `KillImporter` is what
`exec.CommandContext` does on cancellation: it kills has.exe when started
directly (`Importer = "exe"`), but only cmd.exe for a BAT file, so that
`CombinedOutput` keeps waiting for the pipe has.exe inherited. When the daemon
ends, a running importer may survive it (`orphans`).

### PostOrderHook

`hook` is the program counter of `AfterOrder` while the worker is at "hooks";
`pdfCfg` holds the settings it was built with when the daemon started, among
them whether it was registered at all; `written` is `pdfWritten`; `invoice` maps
the directory of a number to what its PDF shows, `Torn` between `WriteFile`'s
truncation and its write. Every external stage either succeeds, fails, or is cut
off by its time limit or the cancelled context: one failing action stands for
all three, because the code treats them alike. Only the print engine is
followed beyond its call: `engine[r]` reads the file when it likes, may exit
without printing, hang, be killed, or outlive the daemon. `paper` and `mailed`
are history variables. That a killed engine leaves no child that keeps its
output pipe open is an assumption (it fails for the importer's BAT file).
`HookSpec` replaces the single step that `SendOrder` has for the hooks; every
other action is that of `SendOrder`, unchanged.

### Settings

`disk` holds the configuration and the two secrets, `cfg` is `f.cfg`, `busy` is
`f.busy`. Every click on a Save or Start button is a save with its own goroutine
(`pc[s]`). A group of settings is abstracted to the save it was entered for, so
that a configuration is a pair: whose form settings, whose dialog settings. A
save replaces the files of its `Plan` one after the other (`step[s]`), each by
a temporary file, a removal and a rename. `copy[s]` is the configuration it
writes: the form's saves take theirs from `f.cfg` at the click
(`readFormConfig`), the dialog's only when they come to `config.Save(*cfg)`.
That goroutine reads `*cfg` without a lock while the UI thread may assign to it;
the copy is therefore two steps, one for each group. `Restart` is the end of the
GUI anywhere, which takes its goroutines along, and its next start with
`LoadOrDefault`. `ERP` is fixed in an instance (`NeedsPassword`), so one secret
holds the database password. Left out: clicks that a form check refuses before
anything changes, the connection tests (they set and clear `f.busy` too), and
errors in reading a configuration that exists. Starting the service is one step
here that succeeds or fails; `ServiceControl` opens it. History variables:
`kept`, `stored`, `cut`, `swallowed`, `overlapped`, `behind`.

### ServiceControl

`app` is the place of the daemon in `serverApp.Start`, `Execute` or `main`, and
`serverApp.Stop`; `http`, `db`, `worker` and `errCh` are the resources it holds;
`inflight` counts requests. `console` chooses between a service and a console,
which differ in what they do with a server error and in waiting for `errCh` at
the end. The configuration is a version: `file` on disk, `loaded` in the daemon.
`gui` is the goroutine of one click, `report` what it told the form. The waits
of the code (ten seconds for `Shutdown`, 20 and 30 for the service's state) are
pairs of steps: what was waited for has happened, or the time is up; time itself
is not modelled, so that every relation of the limits to each other is covered.
The service manager, an operator with services.msc and the crash of the daemon
are external. `overdue`, `seen` and `ran` are history variables.

### ApiServer and its operators

`load` is what the daemon finds: its ERP, the requests it will get, the order in
hand, a SAP database. What the ERP holds is named by a `version` that grows with
every change, so that a price is known by whose it is and when it was read.
`pc`, `query` and `got` follow each client through its queries, `conns` is the
pool, `getprice` the table, `gone` the requests whose context has ended,
`answer` what they were told. `BreaksOff` is the driver giving up a statement
whose context has ended: the procedure's `CATCH` does not see it, so its rows
stay. `StatementFails` is an error the procedure does catch. The body of
`GPRICE_Bulk` is three steps, as it runs without a transaction of its own; the
ERP's procedure `GPRICE`, which it calls, is external.

The requests of `load` are assumed to be what JSON decodes to: a statement with
the record sets it would return, at least one, or lists of SKUs and warehouses
(`LoadsAssumption`). An ERP that has no price query is answered
`ERP_NOT_SUPPORTED` before any query. `got` keeps the `total` of
`collectRecordsets`, which counts over all record sets of a statement.

- `SqlStatement`: the checks of the text of a query, which scan it and do not
  parse it. A text is a sequence of tokens: words, single marks and single
  white-space characters, where `"return"` stands for every white space the check
  of the first word does not know. The double quotes and brackets of T-SQL are
  marks like any other for this scanner, and so they are here: a quote inside of
  them opens a literal, a word inside of them may be one of the twelve keywords.
  `IsOutside` says by counting quotes what the scan should return. What an
  accepted text does in the database is no matter of these checks: nothing is
  said here of it, and in particular not that it only reads. (A word that a
  literal cuts in two is two words in the model, one in the code.)
- `PriceMerge`: `uniqueStrings`, the default warehouse, and the merge by SKU.
- `SapPrices`: the statement of `sap/price_stock.go`, one operator per common
  table expression, over whole-number prices. `Owed` says what a row of the
  answer owes its reader without the cascade of the final `SELECT`; what a NULL
  in a rule, a promotion or a stock does to it is part of it. `ListPriced` are
  the SKUs that get a row, those on the customer's price list. `StockOwed` is the
  stock of the scarcest part that has a number in the warehouse; a part without
  one does not limit the kit. `IsSapDatabase` is what SAP's tables are: finite,
  one card for a customer, with numbers or NULL in the numeric columns.
  Where the SQL leaves an order open, any is taken (`Listed`, `SapRows`). The
  statement is evaluated at one moment, although it reads without locks.
- `ImportRecord`: a text is what it says, its length, and whether it holds a
  line break; a character is one byte, as in Windows-1255. The importer, which
  is outside the repository, cuts the record where the PRM file says;
  `SaysWhatWasOrdered` is stated from its side, so that the two lists of widths
  are compared with each other. A field that has no room for its value is cut
  (`padW1255`): `Whole` says that it was not, and is promised for numbers and
  keys that fit (`OfDigits`, `Amounts`). Titles, names, address, city, telephone
  and the comment are rid of newlines (`sanitizeField`, `sanitizeComment`). The
  account's key, agent and HProtect (`send_order.go:265`, `274`, `282`), the
  currency and the SKU are copied as they stand (`KeysCopied`): where one of them
  has a newline so has its field, and what is promised is that no other field of
  the record has one. Apostrophes and carriage returns are not modelled.

## 3. Runs

| Run | Instance | Question |
|---|---|---|
| `NumberStore` | 3 calls, legacy number 2, 1 crash, 1 I/O error | are numbers unique and persisted first, is the store the counter its callers take it for? |
| `NumberStoreContinues` | 2 calls, 1 crash | does the sequence always continue above the legacy number? **No** |
| `Queue` | 3 requests (symmetric), channel of 2, 1 crash, 1 failed reservation, `Stop` at any time | do map, channel and worker agree; is `OrderService` implemented? |
| `QueueLiveness` | 2 requests, channel of 1, 1 crash, 1 fault, cancellation at any time | is every request answered, every order settled? |
| `SendOrder` | 3 requests (symmetric), has.exe, 1 crash, 1 file error | does the importer see whole files of its own order, are history copies complete and permanent, is the queue's specification kept? |
| `SendOrderCancel` | 2 requests, has.exe and a print engine that may hang, 1 crash, three PDF settings | is paper the order's own invoice and printed once, does mail wait for the printer, do hooks release the worker, does cancelling end it? |
| `SendOrderBatCancel` | 1 request, BAT file | does cancelling end the worker with a BAT file? **No** |
| `SendOrderOrphan` | 2 requests, 1 crash | are the active files never written during an import? **No** |
| `Settings` | 2 form saves, 1 dialog save, 1 end of the GUI, 1 file error | do the two windows leave each other's settings alone, does a save store its password first? |
| `SettingsDialog` | 1 form save, 1 dialog save | does the dialog never put back settings of the form? **No** |
| `Service` | 2 clicks, 2 interventions by hand, 1 crash, 1 request, 1 saved configuration | do requests have their database, is the form told the truth, does a daemon that is told to stop end, does every click end? |
| `Api` | 2 requests and the worker, pool of 2, 2 rows at most, 1 change of the data, 1 database error | does Hasavshevet answer every SKU with its own fresh price and stocks, SAP what it owes for the items it prices, does an SQL answer say what became of the statement, is `GETPRICE` left clean, does the import record say what was ordered, is every request answered? |

**Bounds.** Two requests are enough for every race in `Submit` and `run`, as
all of their steps involve one request and the worker or two requests; the
third lets one wait behind two others, so that order and overflow are seen with
the worker busy. A channel of two shows order in the channel, one of one shows
overflow with few requests; the code's 64 differs in nothing but length. One
crash separates two lives of the process, and one fault is enough because the
code has no retry that a second one could break; `SendOrder` sets the number
faults aside (`MaxFaults = 0`), which `Queue` covers. `MaxNumber` is the legacy
number plus the number of requests, so that it never blocks a reservation.
Two form saves and a dialog save are one more than a stale copy takes (one save
to make the copy stale, one to write it back).

`SendOrderCancel` needs two orders, so that an engine left over from the first
runs while the second is worked on, with one life of the daemon between them;
the three settings are hook with print and mail, hook with print only, no hook.
`Service`: the second click meets what the first left, while one more start or
stop by hand, and a crash, fall anywhere between; a restart of a daemon with an
older configuration needs one saved one. `Api`: two requests meet in `GETPRICE`,
and with the worker they are one more than the pool. A limit of two rows is
reached exactly, by one set and by two, and exceeded. One change of the ERP's
data makes two versions, which is what a stale answer takes. The pure algorithms
are checked over the inputs of `Loads`: eleven Hasavshevet loads with repeated,
blank and missing SKUs, a configuration without a database, every answer of the
text checks (keywords in literals, in brackets and in the open; three ways to go
on behind the first word), texts with newlines in the order and in the account,
all three document types, a foreign currency with and without a rate, discounts
of 99.99 and 100 percent, a comment longer than its field; and SAP databases with all discount
modes, six sets of rules and promotions (expired ones, ones for others, ones
without a percentage, sums over 100, a discount of 100, two promotions for one
item) and four special prices, for requests with and without a date, over an
item and a kit, one of whose parts has no stock on record in places; and one ERP
without a price query.
`CHECK_DEADLOCK FALSE` everywhere: after the last request, click or save an
instance legitimately stops. Symmetry is used only for safety properties.

**Fairness.** `FairSpec` of the queue: weak fairness for each handler inside
`Submit`, for the worker, for the end of processing, and for the restart of a
stopped daemon (automatic service start); nothing is assumed of clients, of
cancellation or of crashes. That processing ends is an assumption in
`QueueLiveness` and is taken back in `SendOrderCancel`, where neither the
importer nor the print engine ever has to exit: `HookFairSpec` assumes only
that the worker goes on whenever it can, which includes the time limits inside
the hook, and that `os/exec` kills what its context tells it to. `select` is not
assumed to be fair between its cases: `CancelEndsWorker` holds because channel
contents are finite in an instance, and in the code because a random choice does
not prefer the channel for ever. `FairSpec` of `ServiceControl`: the daemon's
own steps go on and its time limits expire (`DaemonStep`), `ListenAndServe`
listens or fails, and so does the goroutine of a click (`GuiStep`); nothing is
assumed of requests, the operator or crashes, so that `StopsWhenTold` rests on
the limit of `Shutdown`. `FairSpec` of `ApiServer`: deadlines pass, the driver
notices (`BreaksOff`) and the handler closes its rows; the database owes
nothing, so that `RequestsAreAnswered` rests on the contexts. The other
specifications have no liveness property and no fairness.

**Conditions.** Uniqueness of numbers and whatever rests on it is promised while
nothing was lost (`~lost`). `SettingsKept` excludes saves that overlapped and a
start that failed: in both cases the code does put back older settings
(findings); a missing file is allowed only where a replacement stopped between
remove and rename (`cut`). `RequestsHaveDatabase` excludes a stop whose ten
seconds were not enough, `SqlAnswersAreHonest` allows missing record sets only
to a context that has ended (the reader is not told: `sql.go:358`),
`LeftoversOnlyWhenCut` allows rows only to a statement that was broken off: in
each case the code really does that. `PasswordBeforeConfig` has two exemptions,
both of which the code reaches: a secret whose rename failed (section 4),
and dialog settings that were never saved by the dialog. The dialog
puts them into `f.cfg` at the click (`pdf_settings.go:256-276`), before it stores
the SMTP password; if that fails, or is still under way, the next save of the
form copies `f.cfg` (`main.go:554`) and the file relies on a password that was
not stored. Once a save of the dialog wrote its settings, or was reported to have
succeeded, the password is required; that of the form's settings always is.
`HasavshevetAnswersAreTrue` demands an item for every SKU, `SapAnswersAreOwed`
exactly the SKUs on the customer's price list: SAP's statement leaves out the
others, and all SKUs of an unknown card, and answers 200 with what is left, even
nothing. `Owed` takes no notice of a kit's part that has no stock on record.
`EarlyAnswer` leaves out DB_UNAVAILABLE: the daemon does not come to serve without
a pool (`app.go:82-88`).
`Owed` promises a rule of the reported type only where no rule lacks a percentage,
and a sum no less than its parts only where no rule is a surcharge.
`ApiServer` assumes of the orders what `validateOrderRequest` lets through
(`OrdersAssumption`) and of SAP's tables what `IsSapDatabase` says
(`SapAssumption`).

## 4. Findings

1. A crash or full disk while `lastOrderNumber.json` is rewritten empties it and
   the sequence restarts at 1 (`order_number.go:45`, run `NumberStoreContinues`).
2. With a BAT file, cancelling the queue does not end the worker while the
   importer runs (`exec_windows.go:36`, run `SendOrderBatCancel`).
3. An importer that outlives the daemon runs while the restarted daemon writes
   the active files (`send_order.go:187`, run `SendOrderOrphan`).
4. When `onStartServer` has saved the form but cannot start the service, `f.cfg`
   keeps the older settings, and the next save of the PDF dialog writes them back
   (`pdf_settings.go:292`, run `SettingsDialog`).

Seen while modelling, without a run of its own; the models follow the code in
each of these:

- *Orders.* The hooks run also after a failed import (`send_order.go:203`;
  `docs/pdf-email.md:117` says "after `has.exe` succeeds"). Any error of `Submit`
  is answered QUEUE_FULL, also a failed reservation on an empty queue
  (`handlers/send_order.go:151`). `OrderQueue.Stop` lets the worker process all
  buffered jobs, where its comment says it exits after the current one
  (`queue.go:168`). The worker's database queries have no deadline.
- *Daemon.* `serverApp.Stop` closes the database without waiting for the worker.
  In a console, a server error ends the process without `Stop`. A restart whose
  stop failed is reported as "Server service restarted." when the old daemon was
  still running, with the old configuration; so is a start of a running service.
- *Settings.* `secrets.Set` returns nil when its rename fails (`secrets.go:94`):
  the old password is gone and the save is reported as done, where
  `docs/pdf-email.md:55` says that a saved password persists. What a failed save
  of the dialog put into `f.cfg` reaches the file with the next save of the
  form, without its password (`main.go:554`).
- *Import record.* The agent and HProtect of the account are not sanitized
  (`send_order.go:274`, `282`), where name, address, city and telephone are.
- *SQL.* The check of the first word knows a space, a newline and a tab behind
  it (`sql.go:261`): a query with Windows line ends or `SELECT*` is refused,
  where `docs/sql-validation.md:20` has white space normalized first. A keyword
  is refused also as the name of a column in brackets. `NextResultSet` also
  returns false when the context has just ended, and `rows.Err` is not asked
  after it (`sql.go:358`): a 200 may lack whole record sets. A large whole
  number that is not an int64 is converted all the same (`sql.go:162`).
- *Prices.* A `GPRICE_Bulk` that is broken off leaves its rows in the ERP's
  table. Its items are cut to 20 characters. SAP answers no item without a list
  price, and nothing at all for an unknown card, where Hasavshevet answers every
  item; several valid promotions repeat an item; discounts over 100 give
  negative prices in the modes that do not cap them; a rule without a percentage
  sorts first in `DiscountRuleType`, so that its type is reported for another
  rule's discount (`price_stock.go:182`); a part of a kit without a row for the
  warehouse does not limit the kit (`sap/price_stock.go:264`).
- *Docs.* Some routes of `docs/api.md` and `README.md` are not those of
  `server.go` (one price route instead of two).

## 5. Proofs

`OrderNumberStore_proof`, for every set of calls, every legacy number and every
number of crashes and faults (`StoreAssumption`: they are naturals):

- `StoreTypeCorrect`, `StoreNumbersUnique`, `StorePersistsFirst`;
- `StoreImplementsSequence`: each step of the store is a step of
  `NumberSequence` or a stutter under the refinement mapping of the module.

Uniqueness is not inductive: a second call could read the file while the first
has not written yet. The inductive invariant `StoreInv` adds that a call past
`Lock` is the holder (`Exclusion`), what the call in the critical section knows
of the file (`Progress`: it read the present number, the file is empty between
truncation and write), and that every number issued is counted by the file or,
during that gap, by the number about to be written (`Counted`). The refinement
needs the same facts, since `Value`, which survives in memory while the file is
empty, is defined through the one call that has it open.

`OrderQueue_proof`, for every set of requests, every capacity, and any number of
faults, cancellations and restarts (`QueueAssumption`):

- `QueueTypeCorrect`;
- `QueueNumbersUnique`, from `NumbersCounted`: a request has no number until it
  has reserved one, and unless the file was lost no number exceeds `last`;
- `QueueProcessesOnce`, from `Places`: whatever is in the channel or in the
  worker's hands was answered 202 by this process, has no outcome, and is there
  once; outcomes exist only for orders that were answered 202. Two lemmas say
  what sending and receiving do to the elements of the channel.
- `QueueStatusIsTrue` and `QueueQueuedIsOnItsWay`: what the jobs map says of an
  order answered 202 is so, and a "queued" entry stands for an order on its way.
  Neither is inductive: they also need `UniqueOrderNumbers` and `HoldsNumber` (two
  orders never share an entry, since each holds a number of its own), `EnteredFirst`
  (an order is in the map before it is in the channel, so that the worker's
  "running" is never overwritten; a process that is down has an empty map), and
  `Places` (an order is in the channel or in the worker's hands, never in both).

`OrderQueueService_proof`, over the same assumption and the invariants of
`OrderQueue_proof` (`KnownOfQueue`):

- `QueueUsesNumberSequence` and `QueueImplementsService`: each step of the queue,
  seen through the mappings `AbsCall` and `AbsOrder`, is a step of the abstract
  counter, and of the service its clients are promised, or a stutter. The second
  needs that no order in hand waits in the channel as well: otherwise `Take`
  would serve it twice.
- `QueueInOrderOfArrival`, with `BeforeServed`: whatever a request came after had
  been answered 202, so that it has its number and its place already.

`SendOrder_proof`, for every set of orders, every way of importing, and any
number of crashes and file errors (`SendOrderAssumption`):

- `SendImplementsQueue`: each step of the pipeline is one of the queue's or leaves
  its variables alone, so that every theorem about the queue holds of `SendSpec`.
  The other proofs take `QueueInv` from there.
- `SendTypeCorrect`, with `StageFollowsWorker`: the pipeline runs exactly while
  the worker is processing.
- `SendImportsOwnOrder` and `SendFailedNeverImported`. Neither is inductive: an
  importer reads at any moment, so that what is on disk at that moment must be
  known. `FilesWritten` says which of the four files already hold the order, and
  that all do from the start of the importer to its return; `ImportersKnown`
  that the one importer running under this daemon is the one the worker waits
  for, and that an order it was started for has not failed; `ReadsKnown` carries
  both to what was read.
- `SendHistoryIsPermanent` and `SendHistoryOfProcessed`, from `HistoryOwned`: a
  history directory holds only the order whose number it has, and the worker has
  passed every file of it that is there. It rests on the uniqueness of numbers,
  and so on `~lost`.

`PostOrderHook_proof`, for every set of orders and customers with an address,
every setting of the hook, and any number of failures (`HookAssumption`):

- `HookImplementsPipeline`: the hook is what `SendOrder` leaves open between an
  outcome and the next order, so that all of the above holds of `HookSpec`;
- `HookTypeCorrect`, and `HookPaperIsOwnInvoice` from three invariants:
  `HookFollowsWorker` (the hook is inside the worker, for a settled order),
  `EnginesKnown` (an engine is started once for an order, and hands its file over
  once), `InvoicesOwn` (what an engine is given, and whatever it has handed over,
  is the whole invoice of its order, because no other order writes there);
- `HookMailNotHeldByPrinter`, an action property.

`ServiceControl_proof`, for any number of saves, clicks, interventions by hand,
crashes and requests (`ServiceAssumption`):

- `ServiceTypeCorrect`, together with `SentOnce`: the error channel is empty
  until the server is closed, so that its one sender never blocks;
- `RequestsKeepDatabase`, from `HandleOpen`: the handle is open from before the
  listener until `Shutdown` is over, the daemon is not past `Shutdown` while the
  server listens, and past it there are no requests or its time was over;
- `ReportsTrue`, from `ClickSeesService` and `RestartedIsFresh`: once a restart
  has seen the service stopped there is no process, so that every daemon that
  gets Running afterwards has read settings no older than the click.

`Settings_proof`, for any number of saves in either window, ends of the GUI and
file errors (`SettingsAssumption`: the saves of the windows differ, and "no
file" is no configuration):

- `SettingsTypeCorrect`;
- `SettingsPasswordBeforeConfig`, from `PasswordStored`: every save past its
  password has stored it; `Finished`: what was reported as saved is past it; and
  `FormsTrusted`: form settings get into `f.cfg` and into any copy of it only
  behind their password. The dialog's do not, which is why the property exempts
  those that only a form save wrote (section 3);
- `SettingsAreKept`, from three invariants. `OneAtATime`: without overlap one
  save is in progress. `NeverGone`: the file is missing only before the first
  save, during a replacement or after one that stopped. `Agreement`: while no
  saves overlapped and no start failed, the file, `f.cfg`, and the copies of the
  save in progress agree with what was last saved.

`ApiServer_proof`, for every set of requests and loads, any size of the pool, any
row limit, and any number of changes of the ERP and failures of the database
(`ApiAssumption`, `LoadsAssumption`, `OrdersAssumption`, `SapAssumption`):

- `UniqueStringsKeepsEachOnce`: for every list, the loop of `uniqueStrings` keeps
  what is not blank, each once, in order of appearance;
- `StrippingKeepsWhatIsOutside`: for every text, the scan with its look-ahead for
  doubled quotes returns exactly the tokens with an even number of quotes before
  them. Both are inductions on the rounds of a loop. The library's induction
  theorems take an operator as a parameter, which the installed provers cannot
  instantiate; `Induction` and `Recursion` say the same of sets and functions,
  and are proved from the well-foundedness of finite sets under inclusion.
- `ApiTypeCorrect`, from `Places`: where every client may be, that a connection
  is held exactly by those at a statement (so that the pool is never exceeded),
  and that a row of `GETPRICE` is one its request entered;
- `LeftoversAreOfCutStatements`: whatever ends a request takes its rows with it,
  except where a statement is broken off;
- `SqlIsAnsweredHonestly`, from `Statement`: what has been read is a prefix of
  the record sets, a part of the one after them, and its count never passes the
  limit, so that "one row more at the limit" means more rows than the limit. That
  an answer has all of its record sets is proved only for contexts that had not
  ended;
- `HasavshevetIsAnsweredRight`, from `Hasavshevet`: a request's rows are none,
  all entered, or all priced at one moment since it was received, whoever else
  works on the table; what is read of them, and the stocks after them, stays
  fresh, and the merge puts each to its SKU and warehouse
  (`HasavshevetAnswersAreTrue`);
- `SapStatementIsRight`: for every SAP database and every request, each row of
  the result of SAP's statement is `Owed`, the rows come by item code, and their
  SKUs are exactly those of `ListPriced`. `Extremes` gives `MIN`, `MAX` and the
  first row of an `ORDER BY`, over any finite table; `SumOfIsReached` and
  `MixedIsReached` that the recursive sum and product are what their rounds say,
  from which `AverageIsBetween`, `SumCoversEach` and `MixedCoversEach` bound the
  discount of each mode (`BestIsPromised`); `SourcesInTurn` that the cascade of
  the final `SELECT` lets a special price go before the rules, these before a
  promotion, and the list last; `StockIsScarcest` the stock; `ListingExists`, by
  induction on the number of rows, that the joined rows can be ordered.
- `SapIsAnsweredAsOwed`: `SapAnswersAreOwed` in every state of the server: no
  interleaving, failure or other request makes anything else of that result.
- `ImportRateIsOfTheTime`: what the worker writes is the record of the order in
  hand, at a rate the ERP had since the order was taken, or at 1.0 for a currency
  without a rate or a lookup that failed.
- `DocSaysWhatWasOrdered`: for every validated order, the DOC read as the PRM
  says holds the order's number, customer, document type, discount and rate, and
  for each line the item, quantity, price, discount and packs, whole where they
  fit, and a newline only in the field of a key or code that came with one.
  `DocPositions` is the heart of it: by induction on the fields as they are
  written, each ends where the PRM lets its line end, although the two follow
  different listings; `NumbersFit` that a number of so many digits has room.
- `ImportsCarryTheirOrders`: `ImportCarriesOrder` in every state, from the two
  before it and `Places`.

With these, every invariant and every action property of the passing runs is
the statement of a theorem. Only model-checked: the liveness properties
(`SubmitAnswers`, `AcceptedIsSettled`, `HooksRelease`,
`CancelEndsWorker`, `StopsWhenTold`, `ClickEnds`, `RequestsAreAnswered`), as
fairness and `ENABLED` are out of the prover's reach; and the four refutations of
section 4, which are counterexamples.

## 6. Not modelled, and the plan

What a next step could add: the statement of SAP over several moments, as it
reads without locks; the parameters of POST /api/sql; the message and attachments
of an e-mail, of which only the sending is modelled.

Outside the models, with the reason:

- *File access* (`internal/files`, `handlers/file.go`, `folders.go`): checks of
  one path against the file system, character by character, without state.
- *Logger, paths and shared types*: output, constants and structs.
- *Routing, the token comparison and the middleware's log lines*: each looks at
  one request and keeps nothing.
- *The parameters of POST /api/sql* (`buildNamedArgs`): conversions of single
  values by Go type.
- *Creation of the stored procedures*: one idempotent statement each; their
  bodies are modelled. Connection strings are formatting.
- *The GUI's widgets, form checks and connection tests*; field-by-field
  validation of requests is abstracted to "valid or not".
- *SMTP, TLS, HTML fetching, page layout, the Windows encryption call*: the
  inside of steps that succeed or fail as a whole.
