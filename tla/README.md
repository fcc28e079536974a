# Verification of the ERP's stateful core

TLA+ models of the parts of the ERP where several requests, processes or
messages meet on shared state, the TLC configurations that check them on small
instances, and machine-checked proofs of the properties that matter most. Paths
are relative to the repository's root.

The program is an Express server over PostgreSQL (`server/`), a React client
(`client/`) and mobile and desktop shells. Several server instances may run
against one database, and share nothing else. Nearly everything that makes the
system hard happens between SQL statements of concurrent
transactions at READ COMMITTED, between a transaction and what is done after it
(a message, an answer), and between a request and its retry. Within one process,
exports compete for a slot and leave archives on disk.

Contents: [inventory of components](#1-components),
[modules](#2-modules-and-how-they-correspond-to-the-code), [runs](#3-runs),
[proofs](#4-proofs), [findings](#5-findings),
[what is left out](#6-what-is-not-modelled), [plan](#7-plan).

To check a run: `tlc -config <cfg> <MC module>`; to check the proofs:
`tlapm <module>Proofs.tla`.

## 1. Components

### Scheduled WhatsApp delivery (modelled)

`server/services/scheduler/scheduledWhatsAppDelivery.ts`, `stock-report.ts`,
`whatsapp-send.ts`, `server/startup-schema/030-*.ts`.

- *State*: a row per occurrence (company, recipient, local day) with status,
  claim token, lease and start of delivery; a row per attachment; the day of the
  last report in the settings; the provider, outside.
- *Operations*: claim the newest occurrence worth a retry, or today's; prepare,
  begin, send, finish or leave uncertain each attachment; renew the lease;
  finalise; mark as sent.
- *Interactions*: every server instance runs the hourly job. Instances meet only
  in the two tables.
- *Hard*: a slow run outlives its lease and goes on beside its successor; a
  process dies between any two statements; the provider's answer is lost; the
  day changes during a run; some of the files fail.
- *Correct when*: no file is delivered twice; a send whose outcome is unknown is
  never repeated; "sent" means delivered in full; claims do not stay for ever.

### Inventory costing (partly modelled)

`server/inventoryHelper.ts`, `server/lib/inventoryMath.ts`,
`server/services/inventory/exactValueInventory.ts`, and the writers that call
them or that write `inventory` themselves (section 2).

- *State*: one row per location and item (quantity, average rate, value), and
  the open negative layers, that is, quantities issued while there was no stock.
- *Operations*: receive, issue, restore and reverse; post, edit and delete the
  documents that do so; recost.
- *Interactions*: every document of the system ends here. Transactions meet at
  the row lock (`SELECT .. FOR UPDATE`), and without a row at the unique index.
- *Hard*: two columns rounded separately over a long history; documents undone
  after the row has moved on; shortage; the first insert; stale recosting.
- *Correct when*: quantity is what the documents say; rate and value agree; a
  row without stock has no value but remembers its cost; the layers are the
  shortage; concurrent movements are serializable.

### POS sales (partly modelled)

`server/services/pos/createSaleService.ts` and what it calls,
`server/services/pos/edit/*.ts`, `server/routes/voucher-entries/delete.ts`.

- *State*: vouchers and sales items, the client's identity of a sale (unique
  index), inventory rows, advisory locks on client identities.
- *Operations*: create with a retry, edit, delete.
- *Interactions*: many tills sell from one location; clients resubmit what they
  did not hear about; managers edit and delete beside them.
- *Hard*: two requests for one sale; a commit reported as an error; availability
  that changed since it was checked; locks on several rows; a failure in the
  middle.
- *Correct when*: a sale is stored once and whole, together with its stock;
  a sale stored by a commit that was reported as an error is found again; sales do
  not deadlock; who has no permission does not oversell; every request ends.

### Fiscal close and period guard (partly modelled)

`server/storage/accounting/fiscal-periods.ts`,
`server/services/accounting/closedPeriodGuard.ts` (triggers in the database).

- *State*: vouchers and their lines, opening balances of the accounts, the
  closures of a company, its advisory lock.
- *Operations*: insert, move, delete and restore a voucher; change a line; close
  a period; reopen the latest; edit an opening balance.
- *Interactions*: every financial write passes the triggers. They take the
  shared side of the lock and a close or a reopening the exclusive side.
- *Hard*: a write that began before a close and goes on after it; a line whose
  voucher is moved beside it; opening balances that nothing guards; closures made
  again after a reopening.
- *Correct when*: the books of a closed period do not change; its journal settles
  exactly what is in it; closed periods leave no gap; a reopening undoes its close.

### Location stock delivery (partly modelled)

`server/services/locationStockWhatsAppDelivery.ts`,
`server/services/scheduler/location-stock-report.ts`,
`server/routes/location/*.ts`, `server/startup-schema/018-*.ts`.

- *State*: a row per delivery with an idempotency key and the delivery it is a
  retry of; the schedule of the location with the date it was last claimed for;
  the provider, outside.
- *Operations*: the tick claims a date and delivers; a user sends a report, or
  retries a failed one; whoever comes by declares deliveries stale after 20
  minutes and releases a date that was claimed and never delivered.
- *Interactions*: server instances and requests meet in the two tables and their
  unique indexes. There are no leases and no tokens.
- *Hard*: a sender is slow, not dead, when it is recovered; the answer is lost;
  recording the outcome fails.
- *Correct when*: the server sends the report of a date once; a record tells what
  happened; a retry repeats a report only if its outcome was in doubt.

### Heavy export (modelled)

`server/services/heavyExportCoordinator.ts`, `exportJobManager.ts`,
`server/helpers/temporaryExportArchive.ts`, `scheduledExportArtifact.ts`,
`server/routes/exportRoutes.ts`.

- *State*, in one process: slots and a bounded queue, a list of jobs, archives on
  disk.
- *Operations*: start an export, wait, work, offer or send the archive, download
  it, clean up jobs.
- *Interactions*: requests, the scheduler and e-mail share the slot; downloads
  and the cleanup timer share the list and the archives.
- *Hard*: refusal, timeout and failure at every place, each with an archive half
  written; a job deleted while it runs; two downloads of one archive.
- *Correct when*: the count of slots is the work going on; the queue is exact;
  nothing stays on disk without an owner; every export ends.

### Planned

- *Central posting and reversal* (`server/services/accounting/*`). State:
  vouchers, entries, idempotency keys and reservations. Hard: a repeated posting
  with a different payload, a crash between reservation and completion. Correct
  when postings balance, happen once, and a reversal is exact.
- *Stock document idempotency and revisions*
  (`server/services/inventory/stockDocumentIdempotency.ts`,
  `stockTransferRevisionLifecycle.ts`). State: chains of revisions and the
  canonical movement journal. Correct when journal and row agree and one
  revision of a chain is live.
- *Remote support* (`remoteSupportCommandAuditQueue.ts`): a bounded queue of
  audit records with retries. Correct when a record is written or its loss
  reported.
- *Read microcache* (`server/routes/performance/readMicrocache*.ts`): an
  in-process cache invalidated across instances. Correct when a read after a
  committed write does not see the value before it beyond the allowed delay.
- *Client offline queue* (`client/src/lib/offlineQueue.ts`, `syncEngine.ts`):
  replay of queued requests. It is switched off in the shipped client.

### Not modelled

Retail ledger, factory costing, historical cost repair, rental and payroll,
Golden Coast accounting, company scope and permissions, HTTP routes and reports,
the clients. `PROJECT.json` gives the reason for each: arithmetic without
concurrency of its own, access control, layout and input.

## 2. Modules, and how they correspond to the code

Each definition that translates code is listed with its lines in `PROJECT.json`
under `map`. Operators commented "Mutation of .." are plausible bugs, kept beside
the definition they change; no specification uses them. They show that each
property can fail.

### Delivery

`WhatsAppDelivery` has one action per SQL statement or provider call, so that a
crash, an expiring lease or another run can come between any two.

| variable | in the code |
|---|---|
| `status`, `token`, `leased`, `started`, `recent` | columns `status`, `claim_token`, `claim_expires_at > now()`, `delivery_started_at IS NOT NULL`, `created_at >= now() - 36 h` of `scheduled_whatsapp_occurrences` |
| `att` | `status` of `scheduled_whatsapp_attachments` |
| `lastSent` | local day of `whatsapp_stock_settings.last_sent_at` |
| `run` | local variables of one run of the hourly job |
| `delivered` | what the provider has accepted (outside the program) |

A claim token is a fresh UUID per run; a run forgets it when it ends, so the
worker stands for it. Statements that join the occurrence without locking it
(`Prepare`) see a snapshot; the write to the attachment is a later action.
`Crash` also stands for a statement that throws. `MCWhatsAppDelivery` is the
instance; `OncePerFile` is the promise: a file is offered, withdrawn after a
refusal, and accepted at most once.

### Inventory

Four modules share one vocabulary.

- `StockArithmetic`: what each writer does to one row and to the total of its
  layers, as functions on a record. `Incoming`, `Outgoing`, `FirstIncoming`,
  `FirstOutgoing`, `Merged` are `adjustInventory`; `ReverseExact`,
  `RestoreExact`, `RestoreSale`, `ReleaseResolved` undo; `Offload`, `Produce`,
  `Consume` are the writers that do not use the helper.
- `InventoryDocuments`: documents of six kinds posted, edited and deleted in any
  order on one row, one transaction a step.
- `NegativeLayers`: the layers one by one, and the two loops that consume them.
  It justifies that the others keep only their total (`TotalIsSettled`).
- `InventoryRow`: `adjustInventory` as statements of concurrent transactions,
  with row and layer locks, `INSERT .. ON CONFLICT`, rollbacks and retries, and
  a recosting that reads and writes in two statements. `AtomicStock` is the
  promise: whole adjustments, one after the other.

Abstractions: quantities are integers in units of the last decimal place,
`Scale` of them to the unit of a rate. The code carries intermediates at six
decimals before it rounds to two; the model rounds the exact quotient once. The
two can differ by a cent when the exact value lies within half of 10^-6 of a
rounding boundary; no property distinguishes that cent. Parsing of columns and
guards against malformed numbers are left out.

### POS sales

`PosSale` has one action per statement that reads or locks shared state. Sellers
run `createPosSale`, maintainers run `applyPosSaleUpdateTx` or the delete route.

| variable | in the code |
|---|---|
| `stock` | committed `inventory.quantity` by item of one location |
| `sale` | committed voucher and sales items of a client sale id; a deleted one keeps its row |
| `rowLock` | `FOR UPDATE` on inventory rows |
| `keyLock` | `pg_advisory_xact_lock` on the client sale id |
| `saleLock` | the edit's locks on the voucher and its items |
| `tx` | variables of a request, and the rows it has written but not committed |
| `answer` | what the client was told |

The correspondence, in order: `Submit` and `CheckItem` (checks before the
transaction, without locks), `LockKey`, `Replay` / `Collide` / `InsertVoucher`
(the sale is there, was deleted, or is new), `Deduct` or `Refuse` per item in
order of item id, `CommitSale`, which may be reported as an error, and
`Recheck`. `BeginEdit`, `Restore`, `BeginRebuild`, `Look`, `Issue`,
`CommitEdit`; `BeginDelete`, `PutBack`, `CommitDelete`. `Fail` is an exception in
the transaction or the choice as a deadlock's victim. `PassOn` is an error outside
it, be it in the second look itself, which goes to the client as it is. `Lose` is
the death of the server or of its connection: the client learns nothing. Reading
a stored sale back to answer it again may fail: `Submit` and `Replay` choose.
`SaleLedger` is the promise: `Sell`, `Amend` and `Withdraw` whole sales with
their stock.

Abstractions: lines of one sale for one item are added up; rows exist (a sale of
an item without one is refused); what a movement does to rate and value is
`StockArithmetic`. The items of a sale are read and written under the locks of
its voucher in an edit, so one lock stands for them. A deletion locks nothing
until its own `DELETE` and `UPDATE` wait for `saleLock`; items an edit wrote in
between survive it (`CommitDelete` chooses). A deleted sale is not revived.

### Fiscal close

The processes of `FiscalClose` are database transactions at READ COMMITTED.

| variable | in the code |
|---|---|
| `voucher` | committed `vouchers` (date; deleted or optional) with the sum of their entries per account |
| `opening` | `ledger_accounts.opening_balance`, debit-positive |
| `closures` | `fiscal_period_closures` with status CLOSED |
| `held` | the advisory lock of the company: the shared side, or the exclusive one for a transaction at `"totalled"` |
| `rowLock` | row locks on vouchers |
| `tx` | what a transaction has read and not committed |
| `late` | history: a line went into the closed books |

A guarded write is `WriteHeader` or `WriteLine`, which is the statement up to its
trigger and reads the dates to check; `Guard`, which waits for the shared side
and then looks at the closures with a fresh snapshot; and `CommitWrite`. A
transaction may write a header and then a line of the same voucher. A close is
`Total` (lock, check of contiguity, totals, closing journal) and `Finish` (closure,
opening balances, commit), since an edit of an opening balance may come between;
`Reopen` is one action, since nothing that the guard does not exclude touches what
it reads. Its opening balances come from the snapshot, or for older closures are
reconstructed. `EditOpening` is the account form.

Abstractions: amounts are integers; only income and expense accounts exist, since
the line on retained earnings is the opposite of the others; an account does not
change its type; a voucher has one date. A change of an effective date is guarded
like that of the date, but never totalled. Writes that bypass the triggers for
maintenance are left out. Behaviours are followed up to the first late line.

### Location stock delivery

`LocationStockDelivery` has one action per SQL statement or provider call, each
committed on its own.

| variable | in the code |
|---|---|
| `delivery` | `location_whatsapp_stock_deliveries`: source, date, retried row and status |
| `schedule` | `last_scheduled_for`, `last_status = 'running'` of the location's schedule |
| `pc`, `tx` | a tick or a request and its local variables |
| `accepted` | how often the provider took the file of a delivery (outside) |
| `doubted` | history: declared stale, or given up after the file had gone out |

`Begin` and `Reset` are `recoverStaleLocationStockDeliveries`; `FindOrphan`,
`Release` and `ClaimDate` the tick; `Manual` and `Lookup` the requests; `Insert`,
`NotInserted`, `Send`, `Complete`, `Fail` and `Dispose` are
`deliverLocationStockWhatsApp`; `Finish` is `finishSchedule`. A statement that
throws changes nothing and is one action with what its `catch` does.

Abstractions: time is not counted, so any running delivery may be declared stale;
due dates are chosen freely; `failed` includes `skipped_empty`; a request may
repeat the key of any earlier request of its kind, since clients choose their
keys; a look at the history recovers and leaves at the lookup.

### Heavy export

`HeavyExport` is one single-threaded process: an action is what runs between two
awaits.

| variable | in the code |
|---|---|
| `active`, `queue` | the coordinator's counter and its waiting tickets |
| `pc`, `kind` | where each export is, and whether it is for download, e-mail, the scheduler or built in memory |
| `listed`, `status`, `path` | `jobs` of `exportJobManager.ts`, `job.status`, `job.zipFilePath` |
| `file` | archives in the temporary directory |
| `reader` | requests to the download route |
| `evicted` | history: jobs deleted from the list while they ran |

`Dispatch` is the loop of that name, applied to the queue after an append
(`Acquire`) or with a slot given back (`EndWork`). `Abandon`, refusal (in
`Acquire`), `TimeOut` and a throwing `EndWork` lead to `Fail`, which removes the
archive. `Offer` hands it to its job; `Send` and `Dispose` are the exports that are
sent. `Ask`, `Open` and `Close` are a download, which may overlap another and the
cleanup. `"buffered"` stands for `writeWorkbook` and the manual WhatsApp archive,
which are built in memory.

Abstractions: the contents of archives; the age of jobs, so that the timer may
delete any oldest ones at any time; a restart forgets all, and what it leaves on
disk, which is swept by age when a process starts, is not followed. The
coordinator lets through an export that asks for a slot while it holds one;
no caller does, and it is left out. `writeGuardedExportResponse` has no caller.

## 3. Runs

| run | instance | what it shows |
|---|---|---|
| `delivery` | 2 workers, 2 days, 1 file | No two runs send one file, no file is delivered twice, an ambiguous send is final, `OncePerFile` is implemented. |
| `delivery_live` | 2 workers, 1 day, 2 files, fair | An occurrence of which one file fails and the other is sent is marked sent only when both were accepted. Once runs stop dying, a claim is released, unless an ambiguous send holds it, the look-back window closed, or a retrying run died (finding below). |
| `documents` | 4 documents of 6 kinds, amounts of a third and a whole unit, rates 1 and 4 | Quantity is what the documents say and rate agrees with value for all kinds; while only sales and transfers are posted, layers are the shortage, the cost-memory policy holds, and an unchanged edit gives back quantity and layers, and the value up to a cent. |
| `row_serial` | 4 transactions on a row at -2, rollbacks | Layers are locked only under the row, layers are the shortage, transactions are serializable. |
| `row_first` | 3 transactions create a row, 1 recosts, fair | No quantity is lost, the merged row keeps the cost-memory policy, every transaction ends. |
| `layers` | 3 vouchers, up to 4 layers, amounts 1 to 3 | Both loops take what the totals say; receipts take the oldest, reversals the sale's own layers first. |
| `pos_requests` | 2 cashiers, one of them privileged, 1 manager who is not, 2 sales of 2 of 3 items, fair | The stock is what was sold, `SaleLedger` is implemented, cashiers never deadlock among themselves, only a cashier with the permission, and an edit for an item it adds, oversell, the second look finds what was stored, every request ends. |
| `pos_deletes` | 1 cashier, 2 managers who delete | *Violated*: overlapping deletions put a sale back twice. |
| `fiscal` | 2 sessions, 2 dates, 1 voucher, 2 closing journals, 1 account | Closing journals keep settling their periods, closed periods cover the closed books, closed books change only in the one known race, a reopening gives back what its close took. |
| `fiscal_zeroed` | as `fiscal` | *Violated*: a close leaves an account with an opening balance at minus that balance. |
| `location` | 2 processes, 3 deliveries, 2 dates | The server sends the report of a date once, a record tells the outcome or is in doubt, and a report is repeated only in doubt. |
| `exports` | 3 exports, 1 slot, 1 place, 2 listed jobs, 2 downloads, fair | Slots and queue are exact, no archive is left but by the one known case, every export ends. |

### Bounds, and why they are enough

- *Delivery*: an occurrence is one row and a race needs two runs; a third has no
  role the second does not have after its own end. Two days are the least with a
  retry of yesterday's beside today's and a midnight. With one file per day the
  two days already multiply; several files, thus partial outcomes and what
  `SentMeansDelivered` says of them, are in `delivery_live`. The proofs remove all three bounds for the safety properties.
- *Documents*: amounts 1 and 3 make receipts that fall short of, meet and exceed
  a shortage, and sums that meet zero; rates 1 and 4 differ enough for an average
  to round. With four documents, one can be undone after any two others and an
  edit. `Scale = 3` makes the amounts a third and a whole unit, so that both
  columns round. At `Scale = 2` the same amounts never end: unchanged edits add
  cent after cent (section 5), and there is no bound to the states.
- *Rows*: the amounts -3, 1 and 4 cross zero in both directions from -2. Four
  transactions give three waiters; two are enough for every conflict.
- *Layers*: a receipt of 3 spans three layers, and four leave one untouched.
- *POS*: both sales are of the same two items, so that locks can be taken in two
  orders, and the stock holds one of them. Two cashiers may be asked for the same
  sale or for different ones; a retry is a second `Submit` by either, any number of
  times. One cashier may oversell, the other and the manager may not. One manager
  is the most for which the stock is right (`pos_deletes`). The edits move a sale
  to the third item and back to the first, which a cashier may have sold meanwhile:
  the one case in which an edit oversells. Without the exception for it TLC refutes
  `OnlyPrivilegedOversell`.

- *Fiscal*: two sessions make every pair of a write, a close and a reopening, and
  a line beside the move of its voucher. Two dates make two periods or one, and
  two journals a second closure or a close after a reopening. One voucher with a
  line of -1 to 1 and an opening balance of 2 make every total distinguishable.
- *Location*: a delivery, its retry and a second retry or a scheduled one; a
  process that is slow and one that recovers it. Two dates let one be claimed
  while the other runs.
- *Exports*: one slot (as shipped), one waiting, and a third that is refused. Two
  listed jobs are full with the third. Two downloads meet at one archive.

`CHECK_DEADLOCK FALSE` is set where the instance comes to its end by design: the
last day, the last document, the last transaction; in `pos_deletes` only the
stock is asked about; in `fiscal` and `location` nobody has to come, in `exports`
they come to their end. `layers` and `pos_requests` check for deadlock.

Symmetry is used over interchangeable workers, documents, transactions,
sessions, dates of reports and vouchers, in runs without liveness.

### Fairness

- *Delivery* (`FairSpec`): the claim of a retry by a tick, and each statement of a
  run, are weakly fair: cron ticks on, and a run that did not die proceeds.
  Leases expire and occurrences age because time passes. Nothing makes a crash
  stop: the property assumes it.
- *Rows*: PostgreSQL queues the waiters of a row lock in order, which is strong
  fairness of what waits. A deadlock is broken by aborting one of its
  transactions; `Deadlocked(p) /\ Abort(p)` is weakly fair and is enabled only
  in a real cycle. No other abort is assumed to happen.
- *POS*: the same two. `EveryRequestEnds` fails without the second: an edit, or
  a deletion, does deadlock with a sale.

- *Exports* (`FairSpec`): each export goes on by itself (`Proceed`): its queries,
  its writing and the provider answer or time out. That a wait for the slot times
  out is not assumed: a waiting export is served because the one at work ends.

## 4. Proofs

TLAPS checks every theorem for all values of the constants that satisfy the
modules' assumptions: any number of workers, days and files; of documents,
amounts and rates and any scale; of transactions; of requests, sales and items;
of sessions, vouchers, accounts and dates; of deliveries; of slots, places and
exports.

| module | theorems | assumptions beyond the constants |
|---|---|---|
| `WhatsAppDeliveryProofs` | `TypeCorrect`, `OneSenderHolds`, `AtMostOnceHolds`, `SentMeansDeliveredHolds`, `AmbiguousIsFinalHolds`, `Refinement` | none |
| `InventoryDocumentsProofs` | `HelpersKeepLayersHolds`, `HelpersKeepPolicyHolds`, `Typing`, `QuantityIsDocumentedHolds`, `RateMatchesValueHolds`, `NoopEditIsNeutralHolds` | none |
| `InventoryRowProofs` | `RowInvariance`, `QuantityIsExactHolds` | none |
| | `CostMemoryPolicyHolds` | the initial row keeps the policy (a missing one does) |
| | `LayersUnderRowHolds`, `Refinement`, `ShortageIsLayeredHolds` | `Existing`: the row exists and nobody recosts; for the last, that it starts with its layers in step |
| `PosSaleProofs` | `TypeCorrect`, `SalesNeverDeadlockHolds`, `CommittedIsNotFailedHolds`, `OnlyPrivilegedOversellHolds` | none |
| | `Refinement`, `StockIsSoldHolds` | one maintainer |
| `FiscalCloseProofs` | `FiscalTyping`, `FiscalClosesExactly`, `FiscalPeriodsCoverBooks`, `FiscalFrozenUnlessMoved`, `FiscalReopenRestores` | none |
| `LocationStockDeliveryProofs` | `LocationTypeCorrect`, `LocationScheduledOnce`, `LocationOutcomeIsTold`, `LocationDuplicatesInDoubt` | none |
| `HeavyExportProofs` | `ExportTypeCorrect`, `ExportSlotsAreHeld`, `ExportArchivesAreOwned` | none |

`StockArithmeticProofs` has the lemmas on the operators. Each helper maps a sound
stock (layers are the shortage, no value without stock, nothing negative) to a
sound one. Every writer, helper or not, moves the quantity by what it is told
(`...Moves`) and leaves a rate that matches the value (`...Matches`). Undoing a
sale and making it again leaves a value that is a cent away at most
(`ReissuedSaleIsNear`), and in whole units gives the row back (`ReissuedSaleIsSame`).
The last part is about sums: a sum over a finite set
is an integer, and changes with one term by as much as the term does
(`SumInInt`, `SumChanges`). The induction these need is over sets of indices
instead of over predicates, which the provers cannot instantiate: the partial sums
of a function are constructed as a function on the subsets of its domain.

### The arguments

*Delivery.* `AtMostOnce` is not inductive. `IndInv` adds: what a run's variables
are at each statement (`RunOK`); while a run is between beginning an attempt and
recording its outcome the attachment says "sending" and it is alone there
(`SenderOK`, `OneSender`); a pending or failed attachment was not accepted, one
marked sent was accepted once (`RowOK`); an occurrence, or a run, that says "sent"
has all its files sent (`OccurrenceOK`). The reason the lease does not matter for
safety is in `BeginAttempt`: only one update from pending or failed to sending
succeeds. The refinement maps a file to *offered* while its row says sending and
to *accepted* once the provider took it.

*Documents.* `IndInv` is `KindKnown` (a document that can be undone has its kind
in the history) and, while only helper kinds were posted, `Sound`: the two
properties, a missing row has nothing, and stored documents carry no negative rate
or value. Each action is one lemma of `StockArithmeticProofs`. For the quantity the
invariant is `DocumentedInv`: a document is only there with its row, and posting
and undoing change one term of the sum. For the rate it is `MatchedInv`, and no
history is needed: every writer computes rate and value anew from one exact amount
and rounds each once, so that the two differ by half a unit of each column at most,
whatever they were before (`RoundedIsNear`, `ExactRateMatches`). Rounding does not
accumulate. The unchanged edit rests on it: a quantity added at a rate that matches
the value leaves a rate that differs by so little (`RateIsNearlyKept`) that taking
the quantity off again misses the old value by a cent at most
(`ValueIsNearlyKept`). That the row comes back exactly in whole units needs
`WholeInv` besides: there the rate is the rounded value per unit, and a quantity
added at the rounded rate does not change what the rest rounds to
(`RoundedIsKept`).

*Row.* `Inv`, of every instance, says what the lock is worth: whoever is past the
`SELECT` of a row holds it (`LockOK`), what he has read is the committed row and
what he has written is moved by his quantity and keeps the policy (`RowOK`), and
layers he has settled are locked and still there (`LayersOK`). An insert that meets
a row is merged into it, and so moves the quantity as well: a commit changes one
term of the sum in `QuantityIsExact`. `ExistingInv` adds, for a row that exists,
that what is written is that row adjusted once (`WrittenOK`), so that a commit is
one step of `AtomicStock`.

*POS.* `SellersInv`: a seller holds rows of lower items than it waits for, and
its key. In a set of sales that waits on itself, the one at the greatest item
that is waited for would wait for a seller holding a row above what that seller
waits for. Its second part says that what a seller without permission has
written is not negative. For an editor without it that is `MaintainersInv`: rows
it has taken back stay locked, so that what it looks at there is what it issues
from, and a row it puts back is no lower than it was. The rows of items it adds
are not locked, hence the exception. A sale that its request has stored is not
unstored by anybody (`NeverUnsold`, `StoredIsThere`), so that the second look finds
it (`CommittedIsNotFailed`). `LedgerInv`: every request has moved every row by
`Delta` from the committed one, which its lock keeps still; the sale it works on
is the one it read, because sellers of one identity exclude each other and only
one request maintains. A commit is then a step of `SaleLedger`, which changes
one sale and moves the stock by the difference: `StockIsSold` follows, with a sum
for each item.

*Fiscal.* `Inv` adds to the two invariants: a transaction past the guard holds the
lock, and one at its totals holds it alone (`Locks`); a writer's dates were open
and, while it holds the lock, still are (`Guarded`); what a close has totalled is
still in the books (`Totalled`), since every writer would need the lock; periods are
in order (`Periods`). Sums over vouchers are never computed: two of them are equal
because each of their terms is (`SameActivity`). That they are integers is a second
invariant (`AmountsTyped`), which `ReopenRestores` needs: what a journal moved less
the activity it settled is the opening balance it took over only for numbers. The
other action property follows from `Guarded`.

*Location.* There is no lease to appeal to. `Inv` says who is at work on which
delivery (`Placed`, `Alone`), and that a running delivery has not gone out until
its process sends it, unless it is in doubt (`Sending`, `Told`). `ScheduledOnce`
then follows from the unique key of a date (`OnePerDate`), which is kept by rows
that are never deleted, and `DuplicatesInDoubt` from the index on active retries
(`OneActive`): what has been retried is failed or in doubt, and stays so.

*Exports.* Two invariants. `Slots` speaks of any queue and any places (`Queued`,
`Counted`), so that one group of lemmas on removing the front of a queue serves
every action that dispatches. `Archives` says what is on disk at each place of an
export, and that a job at work is listed or was evicted.

### Only model-checked

- Liveness (`ClaimsAreReleased`, `EveryTransactionEnds`, `EveryRequestEnds`,
  `EveryExportEnds`), since TLAPS does not handle fairness and `ENABLED`.
- What the loops over layers compute (`TotalIsSettled`, `OldestFirst`,
  `OwnLayersFirst`), which needs induction over the sequence of the layers.

`RateMatchesValue` was first stated of all stock on hand. At scales above one TLC
refuted that form: a small receipt may have a value that rounds to nothing, and
the row then keeps its rate as cost memory. The property now excepts a value of
zero, which is what the code keeps to and what is proved.

## 5. Findings

### Shown by a run

1. *Two deletions of one sale restore its stock twice* (`pos_deletes`).
   `server/routes/voucher-entries/delete.ts:272` reads the items without a lock
   and whether or not the sale is deleted. The deletion of a transfer does lock
   (`server/services/stockTransferDeletion.ts:104`).
2. *A close leaves minus the opening balance* (`fiscal_zeroed`). The closing
   journal moves the opening balance with the activity of the period
   (`fiscal-periods.ts:146`), and the close then zeroes the opening balance as well
   (line 242). `tests/fiscal-period-close-reopen.test.ts:5` has it zero every
   balance exactly.

### Met while modelling, outside the runs

Delivery:

- A run that dies while it retries an occurrence leaves it `claimed` with
  `delivery_started_at` set, which no claim takes over
  (`scheduledWhatsAppDelivery.ts:138`), although `startup-schema/030:6` says that
  known failures remain retryable. `ClaimsAreReleased` names the case
  (`StrandedByRetry`).
- A run of yesterday's occurrence that completes after midnight suppresses today's
  report: `stock-report.ts:344` sets `last_sent_at` to now for whichever day's
  occurrence, and `whatsapp-send.ts:97` reads it as the current period.

Inventory (`HelperWritten` excludes the writers concerned):

- An offload or production onto a row that stays short stores a negative value
  (`execute.ts:243`, `transfers-create.ts:531`) against
  `docs/inventory-cost-memory-policy.md:20`; a consumption below zero adds no
  layer (`transfers-create.ts:534`) against its line 23.
- An offload writes the row itself (`execute.ts:261`), so that it settles no layer,
  while `docs/inventory-flow.md:39` has it go through `adjustInventory`.
- The reversal of an offload passes no company, so the shortage it causes gets no
  layer (`offload-lifecycle/reverse.ts:39`).
- An unchanged edit of a fractional quantity can move the value by a cent
  (`reverseOriginalSaleInventory.ts:158`), although line 157 calls it neutral.
  `NoopEditIsNeutral` allows one edit that cent, but repeated edits add up: with
  half a unit left, worth 0.03, and a sale of one and a half, each unchanged edit
  adds a cent to the value and two to the rate, without end.
  `tests/inventory-valuation-regressions.test.ts:126` expects a repeated no-op
  edit to be neutral; its quantities are whole, where that is proved.
- A deleted sale comes back at its cost price, an edited one at the current rate
  (`delete.ts:288`, `reverseOriginalSaleInventory.ts:108`).
- Two transactions that both find no row: the loser's insert merges quantity and
  value, but the layers it added or settled were computed without the winner's
  row (`inventoryHelper.ts:339`). `ShortageIsLayered` is therefore claimed for
  existing rows.
- A recosting writes the value of a quantity it read before
  (`syncSalesItemCosts.ts:68`).

POS:

- The comment at `buildSaleItems.ts:115` promises that the lock order prevents
  deadlocks. Among sales it does (proved). An edit locks its old items and then
  its new ones, a deletion locks in no order: both can deadlock with a sale,
  which the server then breaks.
- An edit looks at the available quantity before it locks the row
  (`rebuildSaleItems.ts:58`), so that an editor without permission can oversell an
  item the edit adds, against `docs/pos-flow.md:40`. `OnlyPrivilegedOversell`
  confines it to that case, and TLC refutes it without the exception.
- When the second look after a commit that was reported as an error fails too,
  `createSaleService.ts:337` passes its error on (`posSalesRoutes.ts:76`), and the
  client is told that a stored sale failed. Submitting it again finds it.
- A retry with the identity of a deleted sale always fails on the unique index
  (`startup-schema/008`), `Collide`.
- The intercompany mirror is posted after the commit
  (`createSaleService.ts:400`): a crash in between loses it.
- `delete.ts:420` refreshes employee balances outside the transaction.

Fiscal close:

- The trigger on a line reads the date of its voucher without locking it and then
  waits for the advisory lock (`closedPeriodGuard.ts:123`). A voucher that is moved
  into a period, which is then closed, in between gets the line nevertheless.
  `FrozenUnlessMoved` says that this is the only gap.
- An opening balance that is edited while a close is between its totals and its
  end is zeroed, although the snapshot has the old one (`fiscal-periods.ts:242`).
- The number of a closing journal is counted within the company
  (`fiscal-periods.ts:172`), while `shared/schema/erp/vouchers.ts:32` makes it
  unique over all of them: a second company cannot close on the same date.

Location delivery:

- If the removal of the temporary file fails after "sent" was recorded, the record
  becomes "failed" (`locationStockWhatsAppDelivery.ts:430`), and may be retried.
- The index on active retries, and the check before it
  (`locationWhatsappDeliveryRoutes.ts:84`), see the retries of one delivery only: a
  failed retry may be retried while its original is retried again.
  `DuplicatesInDoubt` relates a delivery to its own retries and these to each other.
- A tick that finds the row of its date there writes that row's status, possibly
  an old "running", to the schedule after the sender wrote "sent"
  (`location-stock-report.ts:248`).

Exports:

- A job that still runs after 30 minutes is deleted from the list
  (`exportJobManager.ts:68`); when it finishes, its archive is out of reach and
  stays until a later process sweeps it.
- The comment at `exportRoutes.ts:349` calls an archive single-use; two concurrent
  downloads both get it.
- An archive that is young when its process dies is not old enough for the sweep
  of the next one.

## 6. What is not modelled

- Of the modelled components: credit and debit notes, transfer edits and
  revisions, landed-cost corrections, bulk deletion in `voucher-writes.ts`;
  accounting entries, shifts and the intercompany mirror of a sale, a sale that
  moves to another location, sales edited through the general voucher route, the
  Golden Coast branch of the delete route.
- Database failures beyond an aborted transaction: a committed transaction stays.
- Of the fiscal close, the location delivery and the exports: what section 2 lists
  as their abstractions.
- Access control and company scope.
- The components of section 1 that are planned or not modelled.

## 7. Plan

Order: the parts that lose stock, money or messages first.

1. `WhatsAppDelivery`, `OncePerFile`: done, proved.
2. `StockArithmetic`, `InventoryDocuments`, `InventoryRow`, `AtomicStock`: done,
   proved but for liveness; the layers of a row that is being created follow the
   shortage only once it exists. `NegativeLayers`: done, model-checked.
3. `PosSale`, `SaleLedger`: done, proved for one maintainer.
4. `FiscalClose`: done, proved.
5. `LocationStockDelivery`: done, proved.
6. `HeavyExport`: done, proved but for liveness.
7. Further proofs: that the loops of `NegativeLayers` settle the total.
8. Candidates after that: remote-support audit queue, central posting with
   reservations, transfer revisions, the read microcache.
