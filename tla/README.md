# A restaurant P&L back end, in TLA+

The program (`src/backend`, FastAPI, Celery, PostgreSQL, Redis) collects what a restaurant
bought and sold, from uploaded invoices, mailboxes, bank statements, the Toast point of sale
and labor and advertising services, and computes a profit-and-loss statement per location.
Its state is in PostgreSQL. API requests and Celery tasks change it concurrently, each in
transactions of its own, at READ COMMITTED. Nothing but row locks, a few unique indexes and
the order of commits and messages keeps the books right; the models are about that.

This directory holds the modules that model it, the small instances TLC checks, the theorems
TLAPS proves, and `PROJECT.json`, which maps every definition to its source lines, lists the
hazards of the code with the properties that cover them, and names the runs, the mutants and
the theorems. Paths below are relative to `src/backend/app`.

Run an instance with `tlc -config Documents.cfg MCDocumentPipeline`, the proofs with
`tlapm DocumentPipelineProofs.tla`, and likewise the other modules named `...Proofs`.

## 1. The system

### How the parts meet

```
 browser --> API (api/v1/endpoints) ----------------+--> PostgreSQL <--+
                |  .delay / .apply_async            |                  |
                v                                   |            Celery workers (workers/tasks)
             Redis: queues default, sync, ocr, ai --+----------> --concurrency=2
                ^                                                      |
                +---- Celery beat (workers/celery_beat.py)             +--> OCR, Anthropic, Toast,
                                                                            Push, Pipeboard, mail
```

* A request runs in one session that `get_db` commits when the handler returns and rolls back
  when it raises; several handlers commit earlier, before they publish a message.
* A task runs in a session of its own, and commits at several points.
* A message is acknowledged when its task ends (`task_acks_late`), and delivered again when
  its worker is lost (`task_reject_on_worker_lost`). A task that raises is acknowledged
  too; only the advertising and review tasks ask for a retry.
* The worker of `docker-compose.yml` has two processes, so two tasks run at once.

### Components

The column "correct" is what would make each one correct; section 4 says which of it is
stated, and holds.

| Component | State | Operations | What is hard | Correct |
|---|---|---|---|---|
| Document pipeline: `services/document_service.py`, `api/v1/endpoints/documents.py`, `workers/tasks/ocr_process.py`, `db/repositories/document_repo.py` | `documents`, `expenses`, OCR messages | upload, OCR delivery, duplicate by checksum and by content, book or backfill, reprocess, delete, delete all | deliveries, reprocess and delete requests interleave; message before commit; errors in a broken session | one expense per document; extracted means booked; no purchase twice or not at all; every document ends |
| Categorization: `workers/tasks/ai_categorize.py`, `services/ai/categorization_service.py`, `db/repositories/expense_repo.py`, `api/v1/endpoints/expenses.py` | category columns of `expenses`, ai messages | book, suggest, override, recategorize, remove | a long model call between a read and a flush of the changed columns | the user's override stands; every expense gets a category; columns agree |
| Bank statements: `ocr_process.py:118-207, 428-922, 1062-1145`, `services/statements` | expenses of the lines, commissions, `bank_deposits` | read a CSV or the pages of a PDF, filter, book each line, replace deposits, book commissions, reprocess, delete, override | delete by date range and insert, twice at once; lines of an aborted delivery; a page no model can read | each line and deposit once; what is shown as extracted is in the books; a user's row stays |
| Toast sync: `workers/tasks/toast_sync.py`, `services/toast/sync_service.py`, `api/v1/endpoints/toast_integrations.py` | `toast_sync_configs` (cursor, flags), `toast_sync_jobs`, orders | connect, manual sync, disconnect, dispatch, windows, import chunks | jobs and messages are separate; crash between chunks; stale sweep; orders change during a fetch | cursor passes nothing that is not stored; imports end; changes arrive |
| Reconciliation: `services/reconciliation/engine.py`, `workers/tasks/reconciliation.py` | `reconciliation_runs`, `reconciliation_flags`, HST of bank lines | trigger, read and flag in several queries, complete, fail, resolve a flag | queries of one run see different books; half a run is committed; redelivery | a flag was true; nothing wrong is missed; the counts agree; a run ends |
| P&L: `services/pnl/calculator.py`, `workers/tasks/pnl.py`, `db/repositories/pnl_repo.py` | none (computed), `pnl_snapshots` | load, deduplicate one charge in its forms, add up, store the month | order of the deduplications; several queries; a nullable key | each charge counted once; the sums agree; one snapshot a month |
| E-mail: `services/email/processing_service.py`, `gmail_client.py`, `workers/tasks/email_sync.py` | accounts with cursors, jobs, messages, documents | dispatch, request, list or scan, fetch, ingest attachments, commit | overlapping syncs; cursor over failed attachments; one commit at the end | no message lost; a row has its documents; no file twice |
| Push labor: `services/labor/push_sync_service.py`, `workers/tasks/push_sync.py` | labor rows, the account | realtime, trailing, manual and historical pull, in chunks | overlapping pulls; everything in one transaction | the latest fetch wins; corrections arrive |
| Advertising: `services/pipeboard`, `workers/tasks/pipeboard_tasks.py`, `services/google_ads_optimization_*` | campaigns, daily metrics, `last_sync_at`, recommendations, actions | sync, backfill, recommend, execute at Google | a failure that is swallowed; two tasks move one cursor; an outside effect before the commit | past days are stored in full; a change is made once and recorded |
| Reviews: `workers/tasks/reviews_sync.py`, `db/repositories/reviews_repo.py`, `api/v1/endpoints/reviews.py` | configurations with pins, reviews, snapshots | connect, pin, repoint, refresh from Places, import all | a location read before a repoint; a configuration deleted at the target | rows are where a configuration is; a pin lasts; reviews arrive |
| Celery runtime: `workers/celery_app.py`, `celery_beat.py`, `base_task.py` | queues, `job_runs` | deliver, acknowledge, redeliver, record a run | redelivery after a crash; records of dead workers | at least once; a run record ends |
| Auth and tenants, inventory, external platforms, AI insights, adapters, storage, dashboards, front end | see `PROJECT.json` | | mostly reads, single rows, idempotent upserts, or calls outside | |

### Where it is hard

`PROJECT.json` lists the hazards, each at its line. They come in few shapes:

1. *Message before commit* (`document_service.py:157`, `ocr_process.py:601`, mail sync):
   the consumer may look before there is anything to see.
2. *Read, long call, write* (`ai_categorize.py`, OCR, fetches from Toast, Push, Google):
   what was read is stale.
3. *Check, then insert*, with no unique index (content duplicates, expense of a document,
   lines of a statement, snapshots).
4. *Commit, then publish*: a crash or a broker that refuses leaves a row with no message.
5. *Redelivery* of a task that had already committed part of its work.
6. *The error handler writes in the session that failed*, or its record is rolled back.
7. *A cursor moves past something skipped.*
8. *Several queries, one conclusion*: at READ COMMITTED each sees other books.

## 2. The modules

| Module | Models | Instance | Proofs |
|---|---|---|---|
| `DocumentPipeline` | requests on documents and the deliveries of `process_document` | `MCDocumentPipeline` | `DocumentPipelineProofs` |
| `Categorization` | the category columns, from booking to removal | `MCCategorization` | `CategorizationProofs` |
| `BankStatement` | the statement path of `process_document`, with the requests that meet it | `MCBankStatement` | `BankStatementProofs` |
| `ToastSync` | connect, dispatch, windows, chunks, cursor of one location | `MCToastSync` | `ToastSyncProofs` |
| `Reconciliation` | the request, the task, the engine's queries and flags, while the books change | `MCReconciliation` | `ReconciliationProofs` |
| `CostSource` | abstract: from which kind of document a cost is counted | refined by `ProfitAndLoss` | |
| `ProfitAndLoss` | the calculator's deduplications and sums, a report's queries, the monthly snapshot | `MCProfitAndLoss` | `ProfitAndLaborProofs` |
| `MailboxSync` | Gmail and Outlook: jobs, lists, cursor, attachments, documents | `MCMailboxSync` | `MailboxSyncProofs` |
| `PushLabor` | the overlapping pulls of labor rows | `MCPushLabor` | `ProfitAndLaborProofs` |
| `AdCampaigns` | the sync of advertising metrics and the optimizer, which share an account | `MCAdCampaigns` | `GoogleProofs` |
| `Reviews` | configurations, pins and repoints, and the two sources of reviews | `MCReviews` | `GoogleProofs` |

Four conventions hold in all of them.

* **Tables are functions from ids to records**, of committed rows. What a transaction has
  written and not committed is kept with its owner (the record of a request or a delivery),
  and so are its row locks.
* **A step ends where another transaction can come between**: at a commit, at a call to the
  broker or an outside service, between a read and a write. Everything the code does between
  two such points is one action.
* **Failures and requests are bounded**: they are actions of their own, switched on by name
  (`Faults`, `Ops`, `Happens`, `Occurs`) or counted by `MaxEvents` or
  `MaxOccurred`, the bound on all of them together.
* **History variables say what went before**, and no guard reads them. A property that holds
  "but for" something names that something by such a variable (`raced`, `lost`, `excused`,
  `skipped`, ...), so that what the code does not promise is in the open.

"Mutant" definitions beside the real ones are the bugs that the properties are tested against;
no action uses them.

### DocumentPipeline

| Model | Code |
|---|---|
| `docs[d]`: `status`, `isDuplicate`, `duplicateOf`, `extracted` | row of `documents`; `extracted` is "vendor, date and total are stored", what `find_content_duplicate` needs |
| `exps[e]`: `row`, `doc`, `overridden`, `hasAmount`, `manual` | row of `expenses` |
| `tasks[t]` | one message on the ocr queue and the delivery that runs it, `pc` its place in `_process_async` |
| `reqs[r]` | one request handler: what its open transaction has deleted or will insert |
| `UploadBegin`, `UploadCommit` | `ingest_document` up to its `.delay`; the commit of the caller |
| `ReprocessBegin/Commit/Enqueue` | the DELETE, the status with the commit, the message |
| `DeleteOneBegin`, `DeleteAllBegin`, `DeleteCommit` | the DELETE of the expenses; that of the documents, with ON DELETE SET NULL |
| `OcrStart` ... `OcrDispatch` | `_process_async` in order: status committed; OCR answered and the row flushed; content duplicate; lookup; insert, reuse or backfill with the commit; message for the category |
| `DocFree`, `RowFree` | the row locks: a task holds its document from `update_extracted_data` to the commit, a request its deleted rows |
| `DeadlockVictim` | PostgreSQL ends one of two transactions that wait for each other |
| `Abort` | a statement fails: the handler cannot write in that session, the message is acknowledged |

The file, the OCR text and the amounts are abstracted to what the pipeline distinguishes: two
relations (`SameBytes`, `SameInvoice`) say which documents find each other as duplicates, and
`Reading` whether a total, or all three key fields, were found. `NonExpense` are documents of a
type that books nothing. `raced` are pairs of documents that two deliveries each found to be
original (`Original`) before either had committed: READ COMMITTED hides one from the other.

### Categorization

`exps[e].cols` has the columns `category`, `ai_suggested_category`, `is_ai_categorized` and
`user_overridden`. `Flushed` is what SQLAlchemy does at a flush: it updates the columns that
differ from what was read, and no other. That is why two overlapping runs can leave columns of
different origin, and why an override survives some races and not others. `TaskRead` and
`TaskApply` are the two halves of `_categorize_async` around the model call, `OverrideBegin`
and `OverrideEnd` those of `override_category`. A statement's lines are "open" until the
statement commits. `chosen` is a history variable: what the user last set.

### BankStatement

A statement is a CSV, read as it is, or a PDF, whose pages a model reads: `Readings` lets it
leave out lines, since a page that cannot be parsed is skipped without a word. `Expenses` is
the filter of the code: transfers, card payments and noise are not expenses, the rent and an
owner's vehicle are all the same. `BookLine` is one turn of the loop, with `bank_line_exists`
(`Booked`), the override a user gave the same charge elsewhere (`Inherits`) and the message for
an unknown vendor, which comes before the commit and may fail (`Fails`, "broker").
`Deposits` looks up the rows to delete, by document and by the range of dates, and the
commission of a delivery platform; `Commit` deletes, inserts, and shows the document as
extracted. The rows a run has looked up and another has deleted meanwhile are passed over.

`docs[d].read` and `.paid` remember the reading that the document shows. `raced` are deposits
that two runs replaced at once, `lost` those a statement deleted that it does not itself have.

### ToastSync

The clock, the orders of Toast with their modification times, the configuration row with its
cursor, jobs, messages, requests and dispatchers. `ReadConfig` chooses the first range of a
run; `Fetch` and `StoreWindow` (or `StoreChunk`) handle one window (or chunk); `Chain` sends
the next chunk as a message of its own; `Final` is the end of the import. `Age` makes a job
older than the 60 minutes of the sweep. `base` and the `low` of a message are histories: what
the cursor stands for, and what a run has covered before its range, begin there. `excused` are
orders a fetch skipped or a slower run put back to an older version, and imports whose end the
database refused. Orders stand for everything a window stores and may update.

### Reconciliation

What the expenses are is constant; `exps` says where each one is. A run reads the books
(`ReadBooks`), the amounts the bank has debited (`ReadBank`), the invoices of the franchisor
(`ReadPaper`) and the bank lines (`ReadLines`), each in a query of its own, and inserts flags
in between (`FlagBooks`, `FlagBank`, `FlagLines`). A flag names an expense, or the period
(`NoExp`), or a day. An expense that is deleted before its flag is inserted violates the
foreign key and breaks the session (`Break`); an error of the program is stored with the flags
so far (`Fail`). `Wrong(E, D)` is what is wrong at one time; `ever` and `steady` collect it
over the run, and the properties compare the flags with them.

### CostSource and ProfitAndLoss

`Counted` is the chain of deduplications in the order of `_load_expenses`; `Labor`,
`ProratedRent`, `Opex`, `Ebitda`, `NetProfit` and `Breakdown` are the sums. The books change by
whole documents. `Charges` and `AccountOf` say what a row is really a record of, which the code
has to find out from vendor words and amounts. Amounts are equal or not; the code takes two for
equal that are within a dollar or half a percent.

A month is two tasks: the beat sends the monthly one (`Beat`), which a worker takes
(`DeliverTask`) and which sends a message for the snapshot (`Dispatch`); a worker takes that
(`Deliver`), computes and stores. Either is acknowledged when it has ended (`Ack`) and goes back
to its queue when its worker is lost before that, so a monthly task that was lost after it had
sent its message sends another. `again` records these months. One tenant stands for the loop over
all. The monthly task works out which month is meant when it runs, and the model takes it for the
one it was sent for: it is not delivered again a month late.

`CostSource` is the abstract specification: an account is counted from one kind of document at
a time, one more document never moves it to a worse kind and one less never to a better.
`OneSource == Costs!Spec` is the refinement, with `records` mapped to the number of rows of an
account and `source` to the kind of the rows the report counts. It is about the accounts that the
rules can tell (`Told`): a vendor whose debits all bear the names of its invoices (`Vendor`), the
franchisor with its weekly debits (`FranchisorAccount`), or one royalty charge of an amount of its
own (`RoyaltyCharge`). Of a royalty vendor with several charges the code keeps a line that matches
no invoice beside the invoices, and such an account is not told. Reports, snapshots and the
switching of the integration are stuttering steps of it.

### MailboxSync

Messages are numbered by arrival, so a cursor is a number. A sync lists what is new (`List`) or
scans (`Scan`, then `Profile` for the cursor), takes message by message, inserts the row under
the unique index (`Insert` waits for another sync's uncommitted row), makes documents of the
attachments (`Ingest`), and moves the cursor and commits (`Finish`). `Fail` commits what was
done, `Break` and `Deadlock` nothing, and leave the job running. `docs` is what enters the
document pipeline.

### PushLabor

A row has a version at Push and one here. A sync has a range of days by its kind, fetches it in
chunks, upserts, and commits once at the end; a failure rolls everything back, the job's record
too. `known` is what Push had when the last sync to commit began, `overtaken` are rows that a
slow sync overwrote with an older fetch.

### AdCampaigns

`metrics[f][d]` is the day on which the row of day `d` was last written: a day is `Full` when
it was written after it was over. `StartSync` begins at the day of `last_sync_at`; `Campaigns`
and `Metrics` go through the platforms of a chunk, and `MetricsFail` is the failure that is
logged and passed over. The optimizer (`StartRun`, `Generate`, `Call`, `FinishRun`) changes
things at Google before it commits, and moves the same `last_sync_at`. A call ends in one of four
ways: it is carried out and answered (`Call`); it fails, or times out, or its answer cannot be
read, with the change made or not, and is stored as failed (`CallFails`); or the answer is empty
or an error of the protocol, which the client takes for a success (`CallMisread`). `calls`, `lost`,
`unread`, `raced`, `swallowed` and `skipped` are histories.

### Reviews

A configuration stands at a location and may be pinned to an account. `StartReviews`, `Page` and
`FinishReviews` import all reviews; `StartRefresh` and `FinishRefresh` take a few from Places,
and repoint a configuration with its rows to the location of its place, over the one that
stands there (`Repoint`, `Move`). `rows` keeps the two sources apart, as their ids do.

## 3. The runs

Twelve, each a question of its own. Sizes are distinct states.

| Run | Question | Bounds | States |
|---|---|---|---|
| `documents` | Do requests and deliveries keep documents and books right, is a purchase counted once, is a booked row sent on? (fair) | 3 documents of which two are equal, 2 rows, 2 messages, 2 requests, 2 workers, 1 loss, broker, API and OCR faults | 95k |
| `early_message` | Does an uploaded receipt always get its OCR? **Violated** | 1 document, no fault | |
| `category` | Do overlapping runs, overrides and statements keep the columns right, and does every row with a message get a category? (fair) | 1 row at a time, with a keyword or without, 2 messages, 2 requests, any one fault | 92k |
| `category_clobbered` | Does an override stand? **Violated** | 1 row, 1 message, no fault | |
| `statements` | Are lines, commissions and deposits in the books once, and do they stay? | a CSV and a PDF of one month, 4 lines, 2 deposits, 2 deliveries, 1 request, 3 events | 267k |
| `toast` | Does the cursor pass only what is stored, does every change arrive, does an import end? (fair) | 1 order, 2 jobs, 3 messages, 2 workers, 4 ticks, windows and chunks of 1, any one fault | 247k |
| `reconciliation` | Is every flag true, nothing missed, and does a run end? (fair) | 6 expenses of 5 documents, 1 run, 3 events | 203k |
| `pnl` | Is each charge counted once and no cost lost, do the sums agree, is there one snapshot, one source? | every subset of 7 documents with 16 rows at the start, 2 months, 1 worker, 2 events | 421k |
| `mailbox` | Is every message read once, with its documents? (fair) | 2 syncs, 2 messages, 3 files, Gmail and Outlook, 1 event | 504k |
| `labor` | Are rows as new as the syncs knew, and do corrections arrive? (fair) | 2 syncs, 2 days, 1 row, 2 versions, 1 event | 228k |
| `ads` | Are past days stored in full, are changes made once and recorded? (fair) | 2 processes, 2 days, 1 platform, 2 recommendations, 1 event | 394k |
| `reviews` | Do rows follow configurations, do pins last, do reviews arrive? (fair) | 2 processes, 2 locations, 2 configurations, 1 review, 1 event | 150k |

**Why the bounds are enough.** What goes wrong here goes wrong between two: two deliveries, a
delivery and a request, a sync and a change. So there are two of everything that can race, and
the least data that tells the properties apart: for documents a pair of equal ones and one that
books nothing; for a statement a line of each kind the filter knows, on a CSV and on a PDF that
overlap; for the P&L each form of a charge, and two months for a debit to come later than its
invoice; for a sync two windows, and a change before, in and after the fetch of each. The
theorems of section 5 say that the invariants of the runs, but for two sums of the P&L, hold at
every size.

**What narrows an instance.** `ACTION_CONSTRAINTS` leave out steps, and so behaviours.
`InOrder` gives out ids in order, which loses nothing as ids are alike. `OneThing` (documents)
allows one complication at a time: a second document uploaded by two requests, whose messages two workers take at once or not;
or a lost worker; or what users do to the rows of one message. `OneExpense` and `FewAtOnce`
(categories) study one row, and two open requests only where nothing has failed and one message
is under way. `FewAtOnce` (Toast) allows an import, a fault, a disconnection and the sweep only
with few other things, and two tasks at once while a chunk of the first import waits to be
stored, which is how an older version overtakes a newer one. `MCInit` of `reconciliation` starts with the payroll booked and the two
lines of a statement together. Liveness under these constraints is about the behaviours that
remain. Symmetry is used only in `statements`, which checks no liveness. Instances stutter
(`Idle`, `OutOfIds`, `Quiet`) where the system has nothing to do or the instance has no id
left, so a deadlock TLC reports would be a wait that nothing ends.

**Fairness** is stated beside `Next` in each module. Workers, beat and API processes go on
with what they began (weak fairness). It is strong for the steps of a task that wait for a
row lock or for a worker, and for the start of a scheduled sync: PostgreSQL grants a lock, and
the queue gives out messages, in order of arrival, so nobody who repeats a request keeps
another out for ever. Nothing makes a client act, a component fail, a user leave a row alone,
or a day end.

## 4. What holds, and what the code does not promise

### Documents and categories

Hold: *one expense per document* - there is no unique index; it holds because
`update_extracted_data` flushes, and so locks the document row, before `get_by_document`
looks; without the lock (mutant `DocFreeUnlocked`) it fails. *Extracted is booked*, *a user's
row survives reprocessing*, *a processing document has a delivery, or the database aborted
it*, *a purchase counts once* but where two deliveries looked for a duplicate before
either had committed, *a booked row is sent to categorization*. *A categorized row shows the suggestion*, *later runs leave an override
alone*, *an expense whose message finds its row gets a category*; the message of a statement line
that comes before the commit finds none, and no property covers it.

Two disagreements with what the repository says are checked as violated, and are findings:

* `early_message`: the OCR message is published before the upload commits. A worker that is
  fast enough finds no document and drops the message; the document stays pending.
* `category_clobbered`: an override that commits during the model call is overwritten,
  because the guard looks at the object loaded before the call.

Not promised, and reached by the models (`raced`): two workers that process two copies of an
invoice at once book both, and two that reprocess them at once flag each as the other's duplicate; a
payment receipt processed before its invoice makes the invoice the duplicate; the row a task
books while its document is being deleted survives with no document, and the row it books while
a reprocess request waits for its lock survives with the old amount; the model may answer with
a manual-only category.

### Statements

Hold: *a line and a commission are booked once*, because `bank_line_exists` looks under the
lock of the document; *what is shown as extracted is in the books*; *a deposit counts once*
unless two runs replace the same days at once; *a deposit stays* until a statement that covers
its day has not read it; *an override stays* with its document.

Not promised: two equal charges (vendor, amount, date) of one statement become one row; a page
that cannot be read drops its lines silently, and a later such reading deletes the deposits of
its days; the message of a line is sent before the statement commits, so the line may stay
without a category.

### Toast

Hold: *the cursor covers what it passes, changes arrive, started imports end*, but for what is
`excused`: an order whose fetch failed, and one that an older version has replaced. Of these two
the code promises nothing, and no property covers them.

Not promised: an order that cannot be fetched by its guid is skipped and the cursor passes it;
with the two worker processes of the deployment a run that has fetched early and stores late
puts an older version over a newer one, behind the cursor, where no sync asks for the order
again until it changes - `sync_service.py:6-7` says "ON CONFLICT DO NOTHING" and "never
overwrites historical records for orders", but `toast_repo.py:232` updates on conflict,
whatever the version; payments and time entries are `ON CONFLICT DO NOTHING` and are never
corrected (not in the model); two dispatchers or a manual sync give a location two active jobs;
an import whose first message the broker refused stays pending.

### Reconciliation

Hold: *a flag was true at some time of its run*, *what is wrong all the time is flagged*, *the
count agrees with the rows* unless the run was delivered again after its end, *a running run is
executed* unless its session broke, *a run ends*.

Not promised, hence `Coherent`: the variance of the franchisor compares totals of two queries,
and may never have been true, or be missed. Also: every statement with more than one line is
flagged as a duplicate expense; a CSV stores no line items, so that, once it is there, every
invoice counts as not paid by the bank; with `MIN_VENDOR_SAMPLES` at 5 an amount can be three
deviations off only from the eleventh on.

### P&L

Hold: *no charge is counted twice*, unless two statements of the franchisor list it and no
invoice does; *nothing vanishes*: what a report leaves out has a row of the period in its place,
which is counted or has given way in turn to one that is; *the breakdown adds up*; *a month has one
snapshot* unless one of its two messages was delivered again after its task had done its work;
*an account has one source*, if the rules can tell it (the refinement).

Not promised:

* what is dropped depends on the period asked for. A report of two months may count less than the
  two together, where an invoice and its debit are in different months; or more: of one royalty
  vendor, an invoice of 100 in January and in February a debit of 100 and an invoice of 150 count
  100 and 100 by the month, and 250 together, as the debit for which February drops its invoice is
  itself dropped for that of January;
* an unmatched debit of royalties is kept beside the invoices of its vendor, if their names do not
  agree, and drops them, paid or not, if they do. So does any debit of a vendor. In the instance
  the invoice of the jingle takes the place of its debit and then gives way to another debit of
  that vendor: neither of the two is counted;
* a monthly task or snapshot task that is delivered again after its work stores a second snapshot:
  the unique constraint has a nullable column, so the upsert never conflicts;
* the queries of one report see different books.

### Mail, labor, advertising, reviews

Hold: a *mailbox* passes no message that could be read, a row has its documents, no file is
booked twice, mail arrives. *Labor* rows are as new as Push had them when the last sync began,
and corrections in the window arrive. *Metrics* of past days are stored in full; what the
optimizer did is recorded (as a failure if the answer was not read), and done once. *Reviews* and snapshots stay where a configuration
is, a pin lasts, reviews arrive.

Not promised, each behind a history variable or a window:

* mail: two syncs that meet a file in two messages at once both make a document of it, and so
  do two that wait at a row which a third commits without the file, its download having failed;
  attachments that fail are dropped; an Outlook message whose attachments could not be
  listed is abandoned; a full scan misses what arrives before it asks for the cursor; two syncs
  may deadlock and leave a job running; a job whose message was not sent stays pending;
* labor: the record of a failed job is rolled back; rows deleted at Push stay; a slow sync
  overwrites a quicker one; a correction after the window never arrives;
* advertising: a failed fetch of metrics is swallowed while `last_sync_at` moves on; the
  optimizer moves it without a sync, and a sync that ends on a later day moves it over a day;
  a failed fetch of campaigns puts a stub over the campaign; a lost worker forgets what was
  done at Google; two runs at once do it twice; a change whose answer did not come or could not be
  read is on record as failed, and its recommendation as skipped, and an empty answer as a
  success; the presets of the API reach back 90 days;
* reviews: the two sources name one review differently, and it is stored twice; a sync of the
  old location writes there after a repoint; repointing deletes the configuration at the
  target with its pin, and connecting again resets a pin; deleted reviews stay.

## 5. What is proved

For every value of the constants under the named assumption of each module, which says of what
sort they are, keeps sentinels apart and bounds apart from zero where the code divides time by
them. Four say more. `StatementAssumption` lets a PDF and a CSV list any lines, but a deposit
has one day. `ReconciliationAssumption` has finitely many expenses and days, and all the lines
of a statement are of the kind "line". `PlatformAssumption` has the widest preset
(`LAST_90_DAYS`, `pipeboard_adapter.py:192`) reach back to the first day: an instance is a
period of at most 91 days, and what a sync can never ask for is outside of it. `LedgerAssumption`
has finitely many rows. One theorem, `NotTwice`, has a hypothesis of its own, see below.
Each theorem is about `Spec`, without
fairness.

The proofs have one pattern. The property is made inductive by naming what a process or a
request *knows* between its steps, and the hard lemma is the step of *another* process: that
it leaves standing what was known, because of a lock, an index, or a history variable that
records the exception.

**`DocumentPipelineProofs`**: `BooksHold` (`Spec => []BooksInv`), and from it `TypesHold`,
`OneExpense` and `Booked`; `Delivered`, `Kept` and `CountedOnce` rest on it too. `OneExpensePerDocument` alone is not inductive: an insert keeps it
only if the lookup that preceded it still stands. `BooksInv` adds

* `LocksHeld`: past the flush, a delivery alone has its document, which stays stored;
* `LookupStands`: what the lookup found is still so: no row before an insert; before a
  backfill or reuse, a row that only a user's own removal can have taken;
* `RowsLocked`, `TargetsKnown`, `NewHasNoRows`: the rows a request is about to delete are live
  rows of its documents and its alone; a document being uploaded belongs to one request;
* `ExtractedIsBooked` and the types.

The argument: to break `LookupStands`, another step must make or drop a row of the document
between lookup and commit. Another delivery is excluded by `LocksHeld`. An upload books only
for a document of its own that no delivery knows as stored. A reprocess or delete request
needs the document's lock to commit. There remain the user's removals, which `removed`
records. The proof has one lemma per conjunct of `BooksInv`, with one step per action.

`Delivered` is inductive together with `BooksInv`: a step that ends a delivery has moved its
document on under its lock, and only `OcrStart` puts one into processing. Attempting the proof
showed that a delivery in `ocr_dispatch` has already done so, and made the property stronger
(`Undecided`). `Kept`, the action property, needs one conjunct more, `AutomaticLocked`: the
rows a reprocess request has deleted and not committed were not overridden, and the lock keeps
an override out.

`CountedOnce` is `InvoiceCountedOnce` for any number of documents and workers. A document counts
when it is committed, but its delivery decides when it looks for a duplicate, two transactions
before. `OneClaim` therefore counts a document from that decision on (`Claims`): of two documents
of one invoice only one claims. The step that could break it is `OcrCheckDuplicate`. If the other
document is stored, extracted and not flagged, `find_content_duplicate` returns it; if a delivery
is about to commit it, the pair is `raced`. The lock of the document keeps a second delivery from
taking back what the first one found (`OldOriginals`, `ClaimKept`).

**`CategorizationProofs`**: `ColumnsHold` (`Spec => []ColumnsInv`), and from it
`ColumnsTyped`, `Applied` and `LaterRuns`. The flush of a run depends on what it read, so
`ColumnsInv` says, of each asked message and each pending override, that the stored row is
*no older* than what was read (`SeenStands`): overrides, suggestions and categories are never
taken back. `SuggestFlush` is the heart: merging the changed columns of a suggestion into
such a row keeps `category` and `ai_suggested_category` together, because a row not yet
categorized by a run has no suggestion, and its category, if any, is its keyword's, which is
all a run can then answer.

**`BankStatementProofs`**: `StatementTypes`, and from `BookInvHolds` (`Spec => []BookInv`) the
theorems `BookedOnce`, `Complete` and `Overridden`; from `MoneyInv`, `MoneyCountedOnce` and
`MoneyStays`. `LineBookedOnce` is kept by a commit only if
what the run inserts is not there by then, so `BookInv` adds

* `OneHolder`: two runs do not hold one document;
* `NewAbsent`, `CommissionAbsent`: what a run has inserted and not committed, the tables lack;
* `ReadBooked`, `LinesOver`: each line a run has read is to be booked, is inserted, or was
  there, and none is to be booked once the loop is over;
* `SeesThere`, `SeesApart`: the rows a request deletes are there, each for one request, and a
  reprocess leaves the overridden ones.

`RunAlone` covers the steps of a run that change no table, `AddedBooks` those that end it with
new rows (a commit, or a failure that commits half the lines), `FinishBooks` the request that
deletes: `DocFree` keeps it out of documents a run holds, so `NewAbsent` and `ReadBooked` of
the others stand. `Overridden` is the action property: `NewAbsent` says that a run writes over
no row, `SeesThere` that a reprocess takes no overridden one.

`MoneyInv` says of two runs that have looked up what they replace that their common days are
`raced` (`Races`), and of one that it replaces every row of the deposits it stores, but for
raced ones (`SeesAll`); a deposit is then stored once, or looked up by all who add it.

**`ToastSyncProofs`**: `Typed` and `Covered`, from `SyncInv`. The cursor is moved by runs whose
ranges were read from it long before, or passed from message to message; so the invariant says
of each delivery what it has covered (`Sound`): what changed after `low` and up to the start of
its range is stored, what it has in hand is what Toast had of its range, and the cursor in a
chunk's message stands for everything since the beginning of the import. `Kept` is the lemma
about the others: a tick, a fetch and an upsert leave stored what was, where nothing has changed
since, or excuse it. The proof holds for any number of workers; it was the attempt that showed
the overwriting of section 4, which the former instance with one worker could not reach, and a
last window that the model had taken too long.

**`ReconciliationProofs`**: `Typed`, `FlagsTrue`, `MissesNothing` and `RunningHasDelivery`, from
`ReconInv`; `RaisedStored` beside it. Of each run it says that what it has read was in the books (`Seen`); that what it
has found, and what it will conclude from what it has read, was true at some time (`Sound`);
that what is wrong all the time is in what it has read or found (`Full`); and what its record
shows (`Shows`). The books change between any two queries: `ever` grows and `steady` shrinks with
them, in step with what the queries can still see. `RaisedStored` counts: a run knows what it has
found, the table how often each flag is in it, and `ToldInv` says that the rows of an execution are
those it has told of, one each, and what an earlier execution left besides. The count is the
cardinality of a set of pairs (`Stored`), so that the library's theorems on finite sets apply.

**`MailboxSyncProofs`**: `MailHolds` (`Spec => []MailInv`), and from it `MailTypes`, `Covered`,
`Documented` and `BookedOnce`, for any number of messages, files and overlapping syncs. Beside
the types and the three properties `MailInv` has

* `OneSyncPerJob`: two syncs do not execute one job;
* `ListCovers`: what a sync has listed and not yet handled, what it has inserted, and what is
  stored or passed over make up everything its new cursor will pass;
* `RowsAreOnes`: an uncommitted row belongs to one sync: the unique index makes another wait;
* `StoredIsDone`: of a row that a sync has inserted it has made the documents, or is about to;
* `MadeOnce`: a document in hand is of a file that has none yet, or that is `raced`.

The hard lemma is the commit of *another* sync: what this one has listed may be stored by then,
and the file it is about to look up may have its document. The attempt for any number of syncs
showed that the property was false for three: the first commits a message's row with an attachment
that could not be downloaded, and two that had waited at the index for it both make the document.
TLC confirmed it with three syncs, and `raced` now names the case.

**`GoogleProofs`**, for `AdCampaigns`: `PastFull` from `DaysInv`; `Recorded` and `OnceAtGoogle`
from `CallsInv`.
`DaysInv` says that each sync has stored the days it has gone through (`Progress`) and does not
begin after the last sync of its account (`Anchored`), so that `last_sync_at` never jumps over
a day but where `skipped` says so. `CallsInv` says that two runs list the same recommendation
only where they raced (`Apart`); that what is on a list was changed at most once, and only if its
run has the call behind it, with a success or with a failure whose answer was not read (`Counted`);
and that what was changed is no longer pending, or will not be when its run commits (`Settled`),
whatever the outcome of the call, so that no later run takes it up.

For `Reviews`: `ReviewsTyped`, `Followed` and `Pinning`, from `RefreshInv`, which adds to the two
properties the types and that a configuration without a location is none.

**`ProfitAndLaborProofs`**, for `ProfitAndLoss`: `LedgerTypes`, `OneSnapshot`, `NotTwice`,
`NothingLost`, `SourceRefines`. `OneSnapshot` is about the two messages of a month. Until the
snapshot is there, and unless `again` names the month, they and the executions that hold them are
one in all (`OneMessage`): the monthly task is sent once, turns into the message of the snapshot,
and that into the snapshot. Only a worker lost in `dispatched` or `acking` adds to them.

`NotTwice` is about the chain of rules. What the code can go by is data, so the
theorem has it as its hypothesis: `Matchable` says that two records of one charge are a bank line
and an invoice one of the four rules can tell it by (`PaidBy`), or a statement of the franchisor
and what it lists. `MCProfitAndLoss` checks it of its books as an assumption. The theorem says
that the *order* of the rules then loses nothing: each takes away from what the one before has
left, and none needs a row that an earlier one may have dropped, for any period and any subset of
documents (`Survives`, `PaidOnce`). Without a name in common, or with two royalty debits of one
amount, the code has nothing to go by, and a charge may count twice. `NothingLost` needs no such
hypothesis: it follows each rule, and what each drops has its reason among the rows that the rule
saw (`AmountMatched`, `GivesWay`); as the last rule drops only invoices for debits, and none drops
a debit after it, a row gives way twice at most.

`SourceRefines` holds for any books, as `Told` is about constants. For each of the three shapes
the report counts an account's best kind of document and nothing else (`VendorSource`,
`FranchisorSource`, `RoyaltySource`, together `SourceIsBest`); a best kind grows with the
documents that are in (`BestGrows`), and so a step of the books is one of `CostSource`
(`SourceStep`), and every other step leaves it alone.

For `PushLabor`: `KnownRows` and `OneWriter`, from `LaborInv`: what a sync has gone through
is as new as Push was when it began (`Current`), what it is about to store is as new as what is
known, or `overtaken` (`Waiting`), and no two hold one row (`Apart`).

Two modules hold the proofs of two components each: they extend both, over variables that do not
meet. This is why `PushLabor` and `Reviews` name the operators, variables and constants that their
neighbours also have in their own way (`LaborInit`, `ReviewsNext`, `Handler`, `occurred`).

**Model-checked only.**

* Liveness under fairness, which the prover does not handle: `BookedIsCategorized`,
  `MessageCategorizes`, `ChangesArrive`, `ImportEnds`, `RunEnds`, `MailArrives`, `LaborArrives`,
  `MetricsArrive`, `ReviewsArrive`.
* Sums, whose operators fold over a set and would need induction over data: `BreakdownTies`, the
  bound on edits in `LaborTypeOK`.

## 6. Plan

What is left, in this order:

1. *Composition*: `MailboxSync` with the upload of `DocumentPipeline`, for what a mailbox's one
   commit at the end does to the messages it has sent; `BankStatement` with `Categorization`.
2. *Modules*: the bank view of the P&L (`bank_pnl.py`) with its partner split; the window of
   purchases between two inventory counts; `job_runs`; reset and refresh tokens.

## 7. Not modelled, and why

* **OCR adapters, model prompts, parsers, spreadsheets**: text processing; an answer, a
  failure, or a partial reading in the models.
* **Storage and virus scan**: run before anything is written; a failure ends the request.
* **Payments, time entries and the line items of invoices**: inserted once with their parent
  and never changed; the balance checks of the reconciliation that read them.
* **Alerts, category mappings, statistics, AI insights, external platforms**: derived from
  stored rows, or append-only text; nothing reads them back into what is modelled.
* **Drive sync, payroll files**: nothing schedules the first; the second inserts rows of a file.
* **Inventory and cost of goods**: a pure function of two counts and the purchases between.
* **The bank view, the partner split, sales taxes, exports, dashboards, health, front end,
  scripts**: they read.
* **Accounts, tenants, tokens**: single rows that one request reads and one writes.
* **Configuration and migrations**: constants of the models. Beat schedules and the API sends
  tasks whose modules the worker's `include` list does not import; a model would restate the
  list.
* **`job_runs`**: written around each task, read by the job list only.
