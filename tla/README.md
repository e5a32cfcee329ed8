# Verification of the Astro Telegram Mini App backend

TLA+ models of the backend of this repository (`src/backend`, FastAPI, SQLAlchemy,
Redis, arq, APScheduler), the TLC runs that check them on small instances, and
TLAPS proofs of what matters most for every value of the constants.

The models follow the code, not the documentation.  Where a comment, docstring or
text of the repository promises something the code does not do, a run whose
expected outcome is a violation shows it, and `PROJECT.json` quotes the line;
section 7 lists the disagreements that no run shows.

## 1. The system

One PostgreSQL database, one Redis, an API process (`uvicorn`, two workers, each an
asyncio event loop that also runs an APScheduler), an arq worker process, the
Telegram Bot API and YuKassa.  Inside a process a handler can be interrupted at every
`await`; between processes everything interleaves.  `get_db` opens one session per
request and commits it after the handler returns (`db/database.py`); with
`expire_on_commit=False` and `autoflush=False` a session keeps the objects as it loaded
them, for as long as the request lasts (an LLM call lasts up to minutes).

| Component | State it keeps | What is hard | What makes it correct | Module |
|---|---|---|---|---|
| Payments and refunds (`api/routes/payments.py`, `services/payments/*`, `admin.py`, `admin_stars.py`) | `purchases`, `subscriptions`; the provider's payments and refunds | notifications are repeated, concurrent and unordered; money moves before rows are saved; commits of stale rows | a row only for a paid payment, one row per payment, an acknowledged payment is recorded, a refund is final | `Payments`, `Access` |
| Pricing (`services/payments/pricing.py`, `admin_stars.py`) | price overrides in Redis | a price changes between list, invoice, payment and refund; Telegram lists a hundred transactions | what is asked is what was listed, receipts and refunds are of what was paid, a row ends by a refund or a revoked subscription | `Prices` |
| Natal report jobs (`api/routes/natal.py`, `services/tasks/natal_pdf_task.py`, `services/job_status.py`) | `natal_charts` row, cache entry, dedup lock, job status, arq queue | lock expiry, worker timeout and death, two dedup mechanisms, minutes between read and write | one task per user, statuses go forward, a PDF prints the chart it draws, locks end | `PdfJobs` |
| Natal readings (`/mini`, `/full`, `/wheel-svg`) | other fields of the same entry and row; the wheel's picture in Redis, in the row and in the kept PDF | blind read-modify-write around LLM calls; uploads and PDFs that straddle an edit | a report under a hash was written from that input, a mini text for its gender; once a chart's picture is posted, its PDF shows it | `NatalCache`, `Wheels` |
| Natal report text (`services/astro/natal_report.py`, `fact_context.py`) | none | answers that are malformed, partial, doubled or refused | every fact has one text that speaks of it and contradicts none | `NatalReport`, `NatalTexts` |
| Natal descriptions (`services/astro/natal_descriptions.py`, `quality_validator.py`) | none | batches, rate limits, two rounds of repair | accepted texts stay, unfit or doubled ones are not shown | `NatalDescriptions`, `NatalTexts` |
| Report pages (`services/natal_pdf_html.py`, `natal_pdf.py`, `destiny_matrix_pdf_html.py`, `destiny_matrix_v3_pdf.py`) | none | packing by measured or counted size; page numbers given out before the pages exist and before they break over sheets | nothing is lost or cut, the contents name the page where each part begins | `NatalPages`, `PlainPages`, `MatrixPages` |
| Destiny matrix (`api/routes/destiny_matrix*.py`, `services/destiny_matrix/*`) | reading row, interpretation, sections | numbers recomputed under a text being written; row locks held during LLM calls; deadlocks; birthdays by two clocks | a text speaks of the stored numbers and is written once; a text made for an answer is saved and gives way only to a request already under way; numbers are arcana that agree with each other | `Arcana`, `MatrixReading`, `MatrixSections`, `YearSection` |
| Aspects, transits, dominants (`services/astro/natal.py`, `synastry.py`, `transits.py`, `dominants.py`) | none | the wrap of the zodiac, rounded against raw orbs | one event for each approach, on its closest day, and on that day's page while the planet stands near | `SkyEvents` |
| Synastry invites (`api/routes/synastry.py`) and the monthly limit (`services/ratelimit.py`) | `synastry_requests`, counters | two people accept one invite, expiry against acceptance, both hide at once | a result is that of its pair, hidden stays hidden, at most the limit | `Synastry` |
| Generated texts (`transit_interpreter.py`, `synastry_interpreter.py`, `horoscope.py`, `transits.py`, `tarot.py`) | text tables, cached pages, horoscopes and narratives | pages cached while their texts are being written; commits of several rows that collide | nothing refused is kept, a long-lived page shows the table's texts | `GeneratedTexts` |
| Tarot and MAC (`api/routes/tarot.py`, `mac.py`, `core/periods.py`) | readings, counters | double taps, local midnight, UTC stamps of a transaction's begin | one draw per period | `Draws` |
| LLM rate (`services/rate_limiter.py`) | bucket in Redis | the clock is read in another round trip than it is used | no more than capacity and rate is granted | `TokenBucket` |
| Daily push (`main.py`, `core/scheduler_lock.py`, `services/notifications/*`) | leader lock, `push_logs` | every worker ticks; one commit after many sends | one push a day | `DailyPush` |
| News (`services/news/*`) | feed | one transaction per morning | announced once, not missed | `News` |
| Downloads and locked sections (`natal.py`, `destiny_matrix*.py`, `users.py`) | tokens in Redis | access and birth date change around links and builds | paid text only for a request that had access, the natal descriptions excepted | `Downloads` |
| Users, referrals, acquisition (`users.py`, `referrals.py`, `services/analytics/*`) | `users`, `user_events` | fields set once are tested and written in two steps | what is set once stays | `Accounts` |
| Support (`api/routes/support.py`) | mapping in Redis, tickets | best-effort writes, repeated updates | a ticket marked answered was answered | `Support` |
| Admin panel, authentication, ephemeris, prompts, frontend, migrations | | | | see section 6 |

Money, reports and pushes share with each other only the `users` row and the access it
gives, so each module takes the other's effect as a choice: `RightsChange` in
`Downloads`, `TaskFail` in `PdfJobs`, `Buyers` in `Synastry`, `hasFull` in
`MatrixReading`; `Payments` models how that access begins and ends.

## 2. Plan, and what is left of it

Everything planned in the first version of this document is in the directory: the money
path with its refinement, the report jobs, push, invites, the matrix, the natal cache,
draws, the bucket, support and accounts; after them came the texts and pages of the
reports, prices and downloads.  Every invariant and action property the runs check is
proved, and so is that `Payments` implements `Access`.  What would be next, in this order:

1. the composition of `Downloads` with `Payments`, so that rights change by webhooks;
2. the order of a period's events by day, the modalities and the dominant planet;
3. the hero and key-aspects texts, the moon pages, the funnels of the admin panel.

Everything a run needs to vary is a CONSTANT, with a named assumption where a proof uses
it; there are no RECURSIVE operators.  A definition whose name has a suffix after an
underscore (`Admit_CheckFirst`) is a bug the definition under it could plausibly have;
the runs' properties are checked to tell the two apart (`mutants` in `PROJECT.json`).

## 3. The modules and the code

### Payments, Access

State: `users` and `rows` are committed table rows (`rows` holds purchases and
subscriptions; `key` is the unique payment id or the gift key `admin-grant-{uid}-{time}`).
`settled`, `refunded`, `notices` are the provider: how a payment ended, which money went
back, which notifications it will repeat because no 200 came.  A handler is `pc[w]`, what
it was called with (`req[w]`), and its session: rows added (`ins[w]`) and columns changed
(`upd[w]`).  A session's UPDATE writes only the columns it changed, as SQLAlchemy does;
`Commit` applies it to the rows as they are then, `CommitFails` is the IntegrityError or
connection error, `Crash` a process that dies.

| Action | Code |
|---|---|
| `TelegramWebhook`, `YukassaWebhook`, `RefundWebhook` | the three webhook branches of `api/routes/payments.py`; YuKassa's body is only a hint, the status comes from the API |
| `Grant`, `GrantFlush` | `grant_product_access`: select by payment id, insert, flush |
| `RefundSelect`, `Cut` | `apply_yukassa_refund_to_db` |
| `AdminStart`, `AdminRefundRow`, `AdminGrantUser`, `AdminRevokeUser`, `Extend` | the operator's actions in `admin.py`, row by row, with one commit at the end |
| `ReconcileSelect`, `ReconcileInsert` | `reconcile_all` in `admin_stars.py`, one session for all charges |
| `Settle`, `CabinetRefund` | the payer, and refunds made outside the backend (external) |

`Access` is what a payer is promised: access opens once, only after payment, and what
was closed stays closed.  `Payments` implements it with `live` and `ended` read off the
committed rows; deleting the account is `Forget`.  `Open` takes a set of payments: a
webhook's commit opens one, that of a reconciliation all it found.

### Prices

One product's price through its life: `SetPrice`, `ClearPrice` (overrides), `ListProducts`,
`CreateInvoice` and `CreateYukassaPayment`, `PayInvoice`, `GrantRow`, `AskRefund` and
`CommitRefund` (the operator's refund is answered by YuKassa before its commit),
`CabinetReturns` and `RefundNotice`, `RevokePremium` (the panel's action, which cancels
subscriptions and returns nothing) and `StarsReturned` (stars sent back, external).
`prStars` is Telegram's list of transactions, payments and returns; what the overview of
stars sees of it is at most `StarsLimit` of them (100 in the code) from one end of the
list, `StarsAnswers`, and its total adds whatever it sees.  Who may be granted what is
`Payments`.

### PdfJobs

One user's report.  A *version* stands for the chart a text is written for (the input
hash); `chart` is the committed one, `stored` and `cached` the version of the reading in
the row and in Redis, `lock` the dedup key, `status` the job's blob, `task` the arq task.
A request keeps `seen` (the chart it loaded) and `snap` (the reading it loaded) for as
long as it runs: this is the session that is never refreshed.  `StartCheck` to `Enqueue`
are the awaits of `start_natal_pdf`, `PageRead` to `PageCache` those of an inline PDF,
`EditFlush` to `EditCommit` those of `setup_birth_data`, the `Task...` actions those of
`generate_natal_pdf_task`.  A saved reading carries its version and the form of its hash:
an inline PDF hashes aspects without their `applying`, so what it saves or caches is of no
stored chart's hash and is never found again, where the chart has aspects (`Aspected`).
Redis expiry and arq's `_job_id`, `job_timeout` and `max_tries=1` are external.

### NatalCache, Wheels

The same entry and row as `/mini`, `/full`, the report generator, the wheel upload and
the profile edits see them.  `entry` is the Redis value, `row` the columns; a request
keeps the copies it loaded and merges its text into them (`MiniWrite`, `FullAnswer`,
`ReportCache`, `WheelStore`).  A mini text keeps the signs it was written from beside the
gender it is marked with, as the code keeps only the mark.  `honest` records whether every
answer that was called fresh was about the row its request had loaded, `crossed` whether a
request that may write the entry back has crossed the last edit.

`Wheels` is the picture: posted by the frontend to Redis and the row (`UploadLoad`,
`UploadHot`, `UploadSave`), left in Redis by an edit (`EditLoad`, `EditSave`), drawn from
Redis before the row and kept under a key that covers only the row (`PdfLoad` to
`PdfKeep`).  `wlClean` turns false when pictures of two charts were posted under one birth.

### NatalReport, NatalDescriptions

One generation from the facts of a chart to printed items.  A text is what it mentions,
what it claims of it and whether its form is right (`NatalReport`), or its content, its
length and the faults found in it (`NatalDescriptions`); the patterns that find this in
prose are left out.  `AskedFirst`, `Answered`, `NotOne`, `CallFails`, `Judge` are the
first and the corrective call of a group; `CallsOf`, `Replied`, `RateLimited`,
`CallFailed`, `Gather`, `Repair`, `Marked` the batches, repairs and hiding of the other.
Groups and batches run in parallel in the code but share nothing, so one order of them
stands for all.  `Chosen` is the part of a sequence at some places, which is how both
the facts without a text and those with an earlier double are picked.  `NatalTexts` puts
the two modules side by side to state what they have in common.

### NatalPages, PlainPages, MatrixPages

From texts to pages: `Chunks`, `PlaceItem` and `EndSection` split and pack by heights or
words, `Document` and `PageNamed` are the pages and the contents' numbers; `BeginBlock`
and `DrawLine` move the cursor of the ReportLab report, in tenths of a point;
`AddSection`, `Appendix`, `Contents` number the pages of the matrix reports, each of which
the browser may break over several sheets (`Sheets`).  The count of words that decides how
the HTML report fills a column, `Cost`, stands for the code's estimate; no property is
about it.

### Arcana, MatrixReading, MatrixSections, YearSection

`Arcana` is the arithmetic: one birth date's payload and the arcana each prompt cites.
`MatrixReading` is one reading row: `numbers` and `text` as committed, `holder` the
transaction that holds their row locks, `mreq` the requests and the background task of
POST /calculate with its own session.  `Ask` drops what it will replace and keeps the
locks through the LLM call; `Unblock` is the waiting transaction's turn.
`MatrixSections` is one report's parallel upserts in one transaction, the waits they
cause and the deadlock PostgreSQL breaks.  A row names the request that wrote it, as an
upsert overwrites what is there; `rivals` are the requests that were in progress when it
was committed, `given` the rows generated for an answer.  `YearSection` is the clock of the
reader and that of the server around a birthday, by quarters of an hour: `BirthdayJob` is a
beat at a quarter past the hour, which one worker, both or none may run.

### SkyEvents

The ephemeris is a constant, as is the order in which it lists what it finds
(`SkPlace`, which decides between events of the same weight); `AspectsOf` and
`PairAspectsOf` are the aspects of one and two charts, `WalkDay` the loop of
`calculate_period_events` with its peaks kept rounded to hundredths, `Timeline` which
events it returns.  The walk samples noons; `DayShown` is the page of a day under a sky,
which is that of midnight or of the moment (`SkHours`).  The routes ask for no changes of
sign of the moon, so the walk finds none.  Angles are in thousandths of a degree.  That the
events returned are sorted by date is left out.

### DailyPush, News

`tick` and `phase` are the hour and whether a scheduler may still fire for it
(APScheduler's grace time of one second).  `Fire` is the `SET NX EX` of
`with_leader_lock`, `Release` its `finally`, which deletes the key whoever set it.
`Select`, `NextUser`, `Send...`, `Commit` are the loop of `send_daily_pushes`: `pending`
are the log rows of its one open transaction, `barred` the users whose `push_enabled` it
cleared there.  `due[u]` abbreviates time-zone arithmetic to the tick that is nine
o'clock for the user.  `News` is the same lock around one morning's notes, one per
change of the sky over three noons, committed together.

### Synastry, Draws, TokenBucket

A row is one `synastry_requests` row; its `result` is abbreviated to the pair it was
calculated for.  `Accept` and `Hide` read the row (`req[h].row`), `AcceptSave`,
`AcceptExpire` and `HideSave` write the columns those handlers change into the row as it
is by then; an UPDATE of a row that is gone raises and saves nothing.  `Admit` and
`GiveBack` are the INCR and DECR of `enforce_monthly_limit`; `TakeSlot` and `ReturnSlot`
are the same two in `Draws`.  There a row is stamped `created` when its transaction
began and seen when it commits; `stamp` orders begins and commits, `hourNow` is UTC and
`PeriodStart` the midnight, or Monday, in Minsk.  `TokenBucket` reads the clock
(`ReadTime`) and runs the script (`Granted`, `Refused`) in two steps.

### GeneratedTexts, Support, Accounts, Downloads

`GeneratedTexts` keeps the three text tables, the cached transit pages with the
background task that completes them, advice blocks, horoscopes and narratives; what an
LLM answer becomes is `Judged`, per service.  `Support` is the relay, each of whose
writes may fail alone, and `Redelivered` an update that comes again.  In `Accounts` each
request reads a row and commits the columns it decided on then.  `Downloads` is who gets
paid text: direct, sent and linked PDFs, teasers, the natal report on the screen
(`ReadFull` asks for access, `ReadDescriptions` does not), and the profile's lists.

## 4. What the runs check

Bounds are in the `.cfg` files.  "Violation" runs check one promise of the repository
that the code does not keep; the counterexample TLC prints is the finding.

| Run | Instance | Shows |
|---|---|---|
| `payments_refunds` | 1 user, 3 payments (two Stars, one of them for a product outside the catalogue, and one YuKassa), 2 handlers, 2 operator requests, 1 crash | one row per payment, rows are paid for, acknowledged payments are recorded, refunds revoke, `Access` is implemented |
| `payments_accounts` | 3 payments; a second account without a users row that may be deleted, two charges to reconcile in one session, cabinet refunds | what has ended stays ended, `Access` |
| `payments_live` | 1 user, 2 payments (Stars, YuKassa), one operator request, fairness | every paid payment is granted, every refund is applied |
| `payments_stranger` | a payer without a users row | violation: a 200 although nothing was granted |
| `payments_cabinet` | a refund that overtakes its grant | violation: a refunded payment keeps its access |
| `payments_reconcile` | two charges, one of a stranger | violation: charges reported as granted have no row |
| `reports` | PDF jobs: 1 request, 2 jobs, 1 edit, 1 fault; sections: 2 transactions, 2 sections, 1 fault; fairness | one task, a PDF is of its chart, forward status, the lock ends, a task that began publishes; a text made for an answer is saved and gives way only to a request under way, every report request is answered; the year section and the pages: see below |
| `pdf_timeout` | no faults | violation: arq's own timeout leaves a job `processing` for good |
| `daily_push` | 2 users, 2 workers, 2 ticks, 1 edit, 1 failure, 1 overrun, fairness | one push a day, one leader per tick, nothing unlogged, the lock ends |
| `synastry_lost` | 2 requests, no faults | violation: a completed request vanishes from both histories |
| `requests` | eighteen parts, each alone: see below | the eighteen properties of the components that serve requests |
| `matrix_stale` | several hundred birth dates | violation: numbers made today that the code takes for the old format |

`requests` checks components that share nothing but the process.  `MCRequests` extends
them all; the variable `part` names the one that moves in a behaviour, the others rest in
an initial state.  That is one run instead of many and loses nothing: no action of one
part reads a variable of another.

| Part | Bounds | Property |
|---|---|---|
| `synastry` | 3 users, 1 buyer, 2 requests, 1 invite, limit 1, 1 dead request | `ResultMatchesPair`, `LimitHolds`, `SlotsAreReturned`, `HideSticks` |
| `natal` | 2 requests at a time, 4 in all, 1 edit of the birth data | `NatalIsOwn` (its texts) |
| `wheel` | 2 requests, 1 edit of the birth data | `NatalIsOwn` (its wheel) |
| `matrix` | 2 requests or tasks, 2 changes of gender, 1 death | `TextOfTheNumbers`, `WrittenOnce` |
| `arcana` | some hundred dates, three days | `NumbersAgree` |
| `draws` | 2 requests, 3 spreads, 4 instants around two midnights and a Monday, limit 1 | `OneDrawPerPeriod` |
| `bucket` | 2 callers, capacity 2, clock readings one tick late | `GrantsWithinRate` |
| `support` | 3 messages, 2 forwards, 1 repeat | `AnsweredWasSent` |
| `news` | 2 workers, 2 planets of which one turns back, 3 mornings, 2 faults | `NewsNotMissed` |
| `accounts` | 2 accounts, 2 requests at a time, 3 in all | `SetOnce` |
| `transits`, `pair`, `daily` | 2 requests with a task each, 2 charts, 2 aspects | `KeptTexts` |
| `report`, `descriptions` | charts with and without a birth time, seven and five kinds of text | `TextsAreSound` |
| `sky` | births around the equinox, weeks in which a planet turns a hundredth of a degree from an exact aspect, pages at noon and at midnight | `NumbersAgree` |
| `prices` | 2 products, 2 invoices, 1 edit of prices, 2 operators, 2 transactions listed | `AmountsAgree` |
| `downloads` | 1 request, 3 reports, 2 subscriptions, 2 birth dates | `PaidTextsArePaidFor` |

`MCReports` is built the same way; besides `jobs`, `store` (a PDF job and an edit) and
`sections` its parts are:

| Part | Bounds | Property |
|---|---|---|
| `year` | offsets from Samoa to Kiribati, two and a half days by the quarter of an hour, from the day before the birthday | `YearMovesOn` |
| `pages`, `plain`, `matrix_pages` | texts around the limits of a chunk and a page; up to 2 sheets for a page of the matrix | `PagesComplete` |

The parts of `requests` have their types checked by `TypesOK`; the types of `Payments`,
`DailyPush` and `PdfJobs` are proved and not checked again.

Why the bounds are enough for what they are meant to show: each hazard in `PROJECT.json`
needs two actors and one fault or edit, and the instances have them; two handlers give
every order of reads and writes of two sessions.  Two payments are one more than any
property relates; two charges of Stars are what a reconciliation needs to open several.
Two ticks give a leader of the previous hour, a mover between hours and a late worker.  A
limit of one makes the first concurrent request exceed it.  One invite suffices because
rows interact only through the per-user counter.  The texts and charts of the pure parts
are chosen at the limits of each comparison; plain texts have the fewest and the most
words that the code's template makes of two planets' names (99 and 109, under the
validator's floor of 112).  Two transactions listed of up to four put some beyond the
list, and two sheets for a page are one more than its number counts.  What a third
concurrent session could add is settled by proof for the properties of section 5, and is
not settled for the rest.  Handlers of the synastry invites (in `synastry_lost` strangers
too) are symmetric where a cfg says `SYMMETRY` (no liveness property is checked there).

Deadlock is not checked (`CHECK_DEADLOCK FALSE`): once the bounded counters are used up
and every request is answered, the instance stops.

Some properties are weaker than one would wish, because the code offers no more:
`OncePerDay` allows one more message per failure or overrun (the log is committed after
the last message), `OneLeader` holds while no job outlasts its hour (a late `finally`
deletes the next leader's lock), `SlotsAreReturned` forgives a slot per dead request,
`OneDrawPerPeriod` lets requests that overlap both draw, `SetOnce` lets a request that
had read the row before win, `NewsNotMissed` needs one of two mornings to succeed,
`WrittenOnce` leaves out dates whose numbers look old.  Of the properties that follow, the
code breaks the stronger form, which section 7 lists:

- `NatalIsOwn`: the signs of a mini text are the row's as long as no request that writes
  the entry back crossed the edit; the wheel is the chart's once its picture is posted and
  no two charts' pictures met under one birth.
- `SectionsStay`: a saved section gives way to a request that was in progress when it was
  committed, so two reports at once may show two texts.
- `YearMovesOn`: only after a beat while it is the birthday on both calendars, with nothing
  old being written.
- `PagesComplete`: the contents count pages, and the sheets agree with them as long as no
  earlier page took a second one.
- `NumbersAgree` (`SkyAgrees`): rounding by half a hundredth of a degree; an announced
  aspect is on its day's page while the planet is within half a degree of its noon.
- `TextsAreSound`: an important aspect the model gave no words for shows the plain text,
  in which the validator finds that it is too short and nothing else.
- `AmountsAgree`: the ledger of stars is complete up to its limit, and its total adds a
  returned payment again.
- `PaidTextsArePaidFor`: of the natal descriptions only that the report was asked for with
  access, whether or not that has ended.

And what they do not catch: `EndedStaysEnded` sees only an ended access revived, not a
running year lost by the commit of a stale session; `OneDrawPerPeriod` not the double tap
itself; `GrantsWithinRate` not the callers that proceed without tokens once they waited too
long.

Fairness.  Handlers, tasks and jobs run on an event loop that keeps serving
(`WF` on each one's next step); time passes, Redis expires keys and PostgreSQL breaks a
deadlock (`WF`).  A provider repeats a notification until it sees a 200, so a delivery
that can be made again and again is made (`SF` on `Deliver`, `DeliverRefund`): weak
fairness would not do, as every handler may be busy from time to time.  Nothing makes a
scheduler fire in time, an operator act, or a user open a link, and no liveness property
relies on it.

## 5. What is proved

TLAPS checks the following for all values of the constants that meet the assumptions named
in the modules.  Those are disjoint sets and counters in `Nat`; finitely many requests and
workers (processes of one machine); markers that are not values of what they mark the
absence of (`Nothing` no input, `"free"` no worker); prices, override amounts and the
ledger's limit in `Nat`; pages of at least one sheet; plain texts of 99 to 109 words;
skies at a page's hours of the same planets as at noon; charts whose planets and houses
are lists without doubles, as the code's dictionaries give them; charts with a sun, tracks
whose days have the same planets, degrees on the circle, and dates with a day, a month and
a year; texts, blocks and sections that are lists with lengths and heights in `Nat`; and
of the model's answers that two with the same content are the same text and that none has
the content of a fallback or a plain text, which the code writes itself.  What the proofs
have in common is an invariant that says for each program position what a session, request
or task holds.

**Payments_proofs**: `TypeCorrect`, `WebhooksAreSound` (`AcknowledgedIsRecorded`),
`GrantsArePaidFor`, `GrantedOnce`, `EndIsFinal`, `RefundsRevoke`, `ImplementsAccess`.
None of them is inductive: that a payment about to be acknowledged has its row follows
from the handler's earlier position.  `IInv` therefore says that a handler at `grant`
serves a paid payment (`GrantInv`), its uncommitted rows are paid for and do not collide
(`PendingInv`), at `commit` the row is in the session and at `ack` in the table
(`AnswerInv`); buyers who can neither be missing nor be deleted have their users row
(`UsersInv`), without which the foreign key turns the grant into an IntegrityError.
`RefundsRevoke` assumes `RefundsAreOurs`: no refund is made in the cabinet and no YuKassa
buyer is deletable; without it `payments_cabinet` is the counterexample.

`ImplementsAccess` is the refinement, step by step: `Settle` is `Pay` or nothing,
`DeleteUser` is `Forget`, every other step but `Commit` leaves the committed rows alone.
`Commit` is `Open` when the session adds rows of payments and `Close` when it changes
rows; `SessionInv` says that no session does both.  The attempt to prove it showed that
`Access` was wrong: it opened one payment at a time, and a reconciliation opens several in
one commit.  The instances checked until then had one charge to reconcile at most; they
have two now.

**PdfJobs_proofs**: `TypeCorrect`, `OneTaskAtATime`, `StatusGoesForward`,
`PrintsItsChart`.  `PdfInv` ties each program position of a request, an edit and a task
to the lock, the queue and the version of what they hold, and the hash of a saved reading
to the version and the path it was saved by.

**Synastry_proofs**: `TypeCorrect`, `ResultsMatch`, `LimitIsKept`, `SlotsComeBack`,
`HiddenStays`.  For the limit the invariant `SlotInv` counts the denials in flight: the
counter lies between admitted work plus denials and that plus dead requests, so giving a
slot back never frees one somebody uses; this needs the cardinality lemmas.  For hiding,
`RowInv` says that what a request read before its calculation still names the same invite
with the same initiator, and that a deleted id does not return.

**DailyPush_proofs**: `TypeCorrect`, `OneLeaderAtATime`, `NothingUnlogged`,
`OncePerDayHolds`.  `LeaderInv` says that, without overruns, the one runner is at the
current tick and behind the lock while the tick still fires; when the lock lapses the tick
no longer fires.  `OncePerDay` needs a count: there are no more runners than overruns, and
one more once the lock is taken or the grace time over (`RunnersInv`); a message that is
not logged lies in some runner's open transaction or was lost by a failure, and a message
being sent counts as sent (`CountInv`).  A runner about to send to a user is not one whose
transaction names him (`PendingInv`), so the two sets of runners are disjoint.

**Readings_proofs**, the readings that are kept.  The matrix: `NumbersTypeCorrect`,
`TextMatchesNumbers`, `TextWrittenOnce`, `SectionsAreKept`, `YearHasMovedOn`.
`NumbersInv` says that a writer who does not hold the row locks started from new numbers,
which no one takes back, and that whoever holds or waits for old numbers has seen the one
text they came with and drops it.  `OnceInv` adds that, while the gender stands, no
request is about to drop a text of new numbers.  `YearInv` says where a section of the
past year can no longer come from: after such a beat none is stored, none is being
written, and the server stands in the new one.  `SecInv` adds to the types that whoever is
about to write a row another has committed is among its `rivals`.  The natal readings:
`NatalTextsHold`.  Each *copy* of a row or an entry is sound by itself, wherever a request
carries it (`OwnEntry`, `OwnRow`), which is why an old copy written back does its texts no harm;
what a fresh answer needs is that the reading found ready is of the row loaded with it.
The texts of transits, pairs, horoscopes and spreads: `KeptTextsHold`.  `TxInv` says that
what a request or a task is about to store was accepted, that a key and version have one
row, and that a page marked for hours agrees with the table also while it is on its way to
the cache; a row that gets advice keeps its text.

There too, the numbers behind the readings: `ArcanaAgreeHolds` and `SkyAgreesHolds`.  A
digit sum is a recursion downwards, by as many steps as a number has digits; that the
function exists is a lemma on any such descent (`DescentExists`: its beginnings exist, and
two of them agree where both are given), and that a reduction ends in the 22 follows from
the sum being smaller than the number.  The rest of `ArcanaAgree` is arithmetic on them,
the same sums reached by different ways.  For the sky, `OrbIs` and `MeetsIs` say that the
shorter arc is what two longitudes make wherever the zodiac begins, and `OneFits` that at
most one of the five aspects is near enough: they are further apart than two limits.
`PeaksInv` is what the walk keeps: of a combination that came near on any day so far, the
peak's rounded orb is at most the rounded orb of that day, and its raw orb exceeds that
day's by no more than the rounding of half a hundredth.  The first alone does not give the
second, nor the second alone the next step, as each comparison is of a rounded orb with a
raw one.  `SignsInv` says that the changes of sign found are those between two days
walked, the moon's not looked for.  A shorter list keeps the heaviest because fewer events
precede a heavier one, which needs that what is counted is finite.

**Texts_proofs**, of a birth chart: `ReportIsSoundHolds`, `DescriptionsAreSound`, together
`TextsSoundHolds`.  `NrInv`: in the group at work every accepted text fits its fact and no
two are the same; every group that is done has an item for each of its facts in their
order.  Its lemmas say that `Chosen` gives a sequence with every chosen element once
(ranks count places, so each number is the rank of one), hence that no two facts of a
group share an id.  `NdInv`: no key comes twice in a list, and what has taken an entry's
place since the batches came took that of a bad text.  That the validator finds in a plain
text its length and nothing else follows from its 99 to 109 words.  The code builds these
lists with loops, the module with recursive functions; that such a function exists and
keeps what each step keeps is proved by the least index at which it would fail
(`FoldExists`, `StepByStep`), which needs no induction theorem.

**Services_proofs**: `FieldsSetOnce`, `AccountTypesHold`, `AnsweredWasSentHolds`,
`NewsIsNotMissed`, `AmountsAgreeHolds`.  What a request writes into a field set once is
either the value it saw there or replaces none.  That accounts do not share a referral
code, and that who counts as new today has a row, needs `UnderWay`: only a request that
mints writes a code, and one whose account is not there yet creates it.  A reply that has
got past the copy was received, and what is received stays so.  A morning's run holds the
lock, and each change it detected is still to be looked at, about to be added, or in the
feed (`NewsRuns`); after it, all are in the feed.  `PrInv`: what a payment is asked for is
fixed when it is made, and its rows, its receipts and what went back are bounded by that;
the list the buyer looks at is the current one unless a price was edited since.  Every
row of stars is of a payment in Telegram's list (`StarsInv`), and the ledger is compared by
a sum that two equal functions share.

There too, what a reader may draw, ask and download: `RateIsKept`, `DrawnOnce`,
`DrawTypesHold`, `PaidTextsHold`.  `BucketIInv` bounds what was granted by the capacity
plus what the stored time has regained, for clock readings in any order.  `DrawInv`: rows
and requests that began later are stamped later, so the newest row stands for every
earlier one, and a request that has decided to draw began before every draw of its period
was committed.  `SlotsInv` says that the month's counter is at least the number of refused
draws that are about to give their slot back, for which the set of those is shown to be
finite at every moment; so it never falls below zero.  `DownloadsInv`: a request for a
file is taken up only with access, and carries it and the birth date to its end; a natal
report is there only if a reader with access asked for it, which is all that is known of
who reads its descriptions.  `WlInv`, behind `NatalIsOwnHolds`: as long as the pictures
posted under a birth are of one chart, another one in Redis is left over from before, and
the row has had none under this birth, so that nothing was loaded, drawn or kept of a row
that carries its own.

At the end, the process that serves them all: `RequestTypesHold` (`TypesOK`),
`NumbersAgreeHolds` and `NatalIsOwnHolds`.  A step of `MCRequests` is a step of one part
and leaves the variables of the others as they are (`StepOfOne`), so that a behaviour of
it is a behaviour of each part, and what is proved of the parts holds of it.

**Pages_proofs**, the pages of the three paid reports: `MatrixPagesHold`,
`PlainPagesHold`, `NatalPagesHold`, together `PagesHold` (`PagesComplete`).  `MpInv`:
numbers run on from sheet to sheet and stay where a page goes over to a second one
(`Runs`), and the page kept for an added section is its only text page; so the contents,
which are made last, name the right page, and until a page has gone over the sheet too.
`PpInv`: the lines drawn so far are the finished blocks' lines in order, each below the
last or on a later page, nothing lies under the cursor, and a heading that is drawn has
kept room for its first line.  `NpInv`: what is on finished pages, the page at work and
what is left are together the items of the section (`NpPrinted`); the height counted for
the page at work is the one it will be rendered with (`NpMeasured`), which is why nothing
that fits is cut off.  Chunks are cut by a recursion whose every step takes words from the
front; that it takes all of them and that the spans meet is proved step by step, as above.

Only model-checked is liveness (`PaidIsGranted`, `RefundIsApplied`, both `LockEnds`,
`ProcessingEnds`, `ReportsAnswered`): it rests on fairness and so on ENABLED, which this
prover does not reason about.

## 6. Not modelled

- The numerics of the ephemeris and the moon, houses, prompts, static texts, glossary,
  and the patterns that find facts and faults in prose: a text is what they find in it.
- The modalities and the dominant planet of a chart, and the order in which a day's and
  a period's events are listed.
- Fonts, colours and drawings of the PDFs, and the estimates of the drawn report's
  contents page.  The fixed pages of the matrix reports (cover, contents, glossary, summary
  and the tables but the karmic program) are taken to fit one sheet.
- Which end of its list of transactions Telegram counts from: both are taken.
- The browser.  A client is whatever sequence of requests arrives.
- Authentication (`verify_init_data`): every request has a known caller.
- The half-hour life of a status blob and the poll endpoint, which only reads.
- Free-form editing in the admin panel, its lists and funnels.
- Migrations, scripts and deployment.
- Isolation: PostgreSQL runs at READ COMMITTED; a flushed UPDATE is modelled as holding
  its row (`RowFree`, `holder`, `Blocks`) where another modelled session updates that row.

## 7. Disagreements met that no run shows

Where the code and its own words differ and a run would only restate one line:

- `transits.py:477` files advice for a transit without a current row under the column's
  default version `"legacy"`, where the lookup ("cached per triple") never finds it.
- `users.py:377` deletes only the natal cache on an edit of the birth data; cached transit
  pages and the personal horoscope stay for up to six hours and a day.
- `users.py:379` also leaves the wheel in Redis, and a finished PDF is kept under a key that
  does not cover Redis: until the frontend posts the new chart's picture, a PDF may show the
  wheel of the birth before and be kept with it, against `natal.py:729` ("embeds the exact
  frontend wheel") and the docstring of `upload_natal_wheel_svg` ("the exact same chart").
  An upload that loaded the row before the edit writes the old chart data back
  (`natal.py:1178`).
- `natal.py:674` cuts the aspects down before the inline report is hashed, without their
  `applying`, which the expected hash has (`:347`): what an inline PDF saves is not found
  again, and the next one calls the LLM once more.
- `natal.py:437` takes a mini text for fresh by gender and version: one written back after
  an edit of the birth data (`:993`, `:1020`) is served although its signs are old.
- `natal.py:1136`, GET /natal/descriptions, has no check of access and returns the planets',
  houses' and aspects' texts, which `stars.py:51` sells, to a reader whose access has ended;
  /full (`:1054`) asks for it.  The docstring of `_get_stored_descriptions` (`:566`) says
  that they are written again when that endpoint is opened; it only reads.
- `year_energy_scheduler.py:18` says that after a missed beat the stale row "lingers until
  the user opens the app and triggers `/regenerate`"; no route of that name exists, and the
  row stays for the year when the last beat of the day on both calendars is missed.
- `v3_interpreter.py:952` overwrites on conflict: two reports at once show two texts, and
  the later commit stays.
- `destiny_matrix_pdf_html.py:1120` says that "TOC / footer stays consistent": numbers and
  `TOTAL_PAGES_TOKEN` (`:1157`) count pages, and the CSS (`:100-122`) lets a page grow over
  several sheets, with one footer at its end.
- `natal_descriptions.py:933` and `:1225` say that an important aspect is not hidden for its
  quality; `:1243` hides it unless its text is empty.  The plain text it then gets (`:949`)
  is under the validator's floor of 112 words.
- An aspect announced for a day from its noon (`services/astro/transits.py:214`) need not be
  on the day's page, drawn at midnight or now (`api/routes/transits.py:227`, `:262`), when
  the planet moves fast: the moon's above all.
- `admin.py:185` cancels paid subscriptions with nothing returned, after which the refund
  button skips them (`:433`).
- `admin_stars.py:172` asks for 100 transactions and no next page, and `:206` adds what went
  back to the total instead of subtracting it.
- `natal_descriptions.py:889` and `:918` say that a repair never makes a text worse: the
  test for a bad old text is always true there, so an answer without a full text replaces
  a thin one.  Keys of a failed batch are not asked for again.
- `natal_pdf_html.py:1515` says "Overflow is impossible": one item that is taller than
  a page stands alone on a page that clips it.
- `natal.py:767` caches the plain PDF of a failed HTML build under the same key.
- `transits.py` compares a peak kept rounded with raw orbs, and its limit "< 1.5" is
  "at most 1.5" after rounding (up to 1.505).
- `payments.py:147` answers, and `stars.py:184`, `:197` record, the catalogue's stars
  although the invoice asks for the override.  A refund of a part in YuKassa's cabinet
  revokes the whole row.
- `synastry.py:666` shows stored aspects beside the charts as they are now.
- `destiny_matrix.py:612` promises the meanings for the reader's gender; the first row
  wins unless a later one is "any", and the query has no order.
- `payments/refunds.py` names the admin button as its caller; `admin.py` changes rows
  itself.
