# TLA+ verification of Titan ERP

Titan ERP is a set of Odoo 19 modules for an equipment dealer and the worker
scripts that feed them: a Sparex parts catalog that is crawled, staged, judged
and published by scheduled workers, card payments at a Stripe reader, service
cases, equipment brokerage, bank coding, a customer portal and rentals. This
directory holds TLA+ models of the parts where the order of events matters,
their TLC runs, and proofs that TLAPS checks.

Paths below are relative to the repository. `PROJECT.json` maps every modelled
definition to its source lines.

## 1. The system and its components

Everything in Odoo is a *model method that runs in one PostgreSQL transaction*:
it is rolled back when it raises, two transactions see snapshots (repeatable
read), and a method that locks a row (`SELECT ... FOR UPDATE`) or writes a row
that changed since its snapshot is retried or refused. Workers outside Odoo call
methods over XML-RPC through `scripts/odoo_runtime/client.py`, which sends a call
up to three times when the transport fails; a call whose reply was lost has
still happened. Processes die at any moment: systemd stops a unit at its
`TimeoutStartSec`, timers start the next one.

| Component | State it keeps | Operations | Interacts with | Hard behaviour | What makes it correct | Status |
|---|---|---|---|---|---|---|
| Catalog dispatch control plane (`southern_parts_intelligence/models/catalog_sync.py`, `automation_control.py`) | workflow state, approval, schedule flags, cooldown and next-allowed time, warning streak; automation runs with lease and outcome | cron batch, recovery of expired claims, queue, claim, report, begin/finish of a recorded run, some fifteen buttons | dispatch worker, discovery runs, catalog release backlog | operators press buttons while a run executes; leases against kill timeouts; batches that raise undo the recovery before them | one run at a time behind a gate only time opens, outcomes are final, warnings stop a release, every claim ends once the cron is on | modelled |
| Product dispatch worker (`scripts/odoo_product_dispatch_worker.py`, `odoo_record_product_automation_run.py`, `cloud/aws/*.service`) | claimed run, subprocess, report | claim, execute, report, second report from the `except` branch | control plane | lost replies, kill at any point | a worker only executes a run it holds | modelled |
| Sparex discovery runs (`models/sparex_discovery.py`) | runs with cursor, lease, counters; URL rows; recorded pages; items with evidence | start, configure, repair queue, claim, page report, failure report, reconciliation | discovery script, catalog agents | leases that run out in the middle of a page, repairs against frontier, lost replies | cursor is work, reconciliation is exact, live leases exclude, sweeps complete | modelled, but for metrics and the migration of text frontiers |
| Discovery script (`scripts/sparex_catalog_discovery.py`) | one checkpoint: position in its loop, page being fetched | start, claim, fetch, record, fail | discovery runs | killed or slow between claim and report | does not disturb a run it lost | modelled |
| Cost recovery, creation plan (`sparex_discovery.py`, `scripts/sparex_catalog_agents/cost_recovery.py`) | recovery state, claim and attempts of an item; creation review; supplier prices | refresh, claim, read, record, plan, apply, roll back; create drafts | discovery items, products, portal | claims that lapse under a live script, rollback after edits, lost replies | a price is applied under its own claim, a rollback restores what it replaced, claims end | modelled |
| Catalog agents and publication (`models/catalog_agents.py`, `sparex_discovery.py`, `scripts/sparex_catalog_agents/*`) | pipelines of tasks, repairs, publication state | seed, claim, complete, hand over, repair, publish, confirm, roll back | products, evidence, website | two processes with locks of their own; plans stale at publication; three-step undo | what is on the website stays complete and shown; a rollback keeps a person's work | modelled, but for verdict contents |
| Stripe terminal payments (`southern_stripe_terminal`) | terminal payment with intent id, idempotency key, amount, fee invoice, accounting payment | pay, retry, cancel, refresh, webhook, registration, polling cron | Stripe (intents, reader, events), invoices and Odoo's payment register | requests that survive a rollback, events late or before the commit, two cashiers | accounted only when charged, once per invoice, every charge followed | modelled, but for draft-invoice fees and configuration |
| Manifest ingestion (`models/sparex_manifest.py`, `scripts/sparex_catalog_queue_worker.py`, `sparex_catalog_manifest.py`) | queue and dead letters, ledger of manifests and rejections, sweep marker of items, sweeps | publish, receive, ingest, delete, redrive, sweep checkpoint and completion | SQS, S3, vendor catalog | at-least-once delivery, workers killed or stalled, partial failure, dead letters | no record is lost, a repeated delivery changes nothing, newer observations win, an absent item was unseen | modelled |
| Vendor catalog (`models/vendor_catalog.py`, `scripts/sparex_catalog_media_worker.py`, `sparex_catalog_promotion_worker.py`) | staged items with match, readiness and stored image; promotion plans; products with supplier record, price and override flags | observe, dealer cost, media batch, plan, promote, refresh, edits by staff | manifests, products, publication gate | evidence changes between plan and apply, downloads of an image that has changed, two workers, lost replies | no second product, no old image counts as verified | modelled, but for diagnostics and sources |
| Service operations (`southern_service_operations`) | cases, jobs, work items, quotations and their lines, estimates | open, route, quote, sync, send, confirm, apply an estimate | project tasks, sale orders, repairs | one quotation reached from four sides; lines kept in step with work while Sales edits them | links agree, sold lines stand, a quotation carries the work, jobs are reused | quotation protocol modelled; inspections and registers not |
| Accounting guardrails (`southern_accounting_guardrails`) | coding rules, runs, candidates; review flags | seed, evaluate, approve, reject, apply | bank lines, journal entries | overlapping transactions, targets edited after approval | settlements never to revenue, a line proposed once, a coded line kept | bank coding modelled; the rest not |
| Odoo client runtime (`scripts/odoo_runtime`) | none | call with retries, archive artifacts, match text | all workers | repeated calls | its retries are the lost and repeated calls of the models | partly |
| Product quality (`product_quality.py`, `product_template.py`) | quality state, publication gate | compute, gate, safeguard sweep | agents, website | gates read before a later write | published products pass the gates | the gate, in two modules |
| Customer portal (`southern_customer_portal`) | orders under review, applications | submit, review, approve, expire | sale orders, partners | hourly cron against reviewers | no order confirmed without its reviews | not modelled |
| Equipment brokerage (`southern_equipment_brokerage`) | deals, comparables, valuations | gather, approve, offer, close | CRM, products | stale comparables under an approval | an offer rests on an approved valuation | not modelled |
| Evidence queue, sourcing (`evidence_queue.py`, `sparex_sourcing.py`) | observed prices, sourcing rows | refresh by cron, approve, apply | products | a refresh between approval and application | an applied price is the approved one | not modelled |
| Rentals (`cs_rental_inspection`) | inspections | draft, complete | rental orders | gates at two ends of one order | no return without inspection | not modelled |
| Stripe configuration, operations control, client equipment, setup wizard, payroll tables | configuration, registers, reports | forms, imports, computed fields | users | none of their own | field constraints | not modelled |

## 2. Plan

The order is by what a mistake costs and how badly a test reaches it: first the
control plane that decides what automation may do, then the crawl it drives,
then money, then what reaches customers.

Done:

1. `CatalogDispatch`, its abstract specification `DispatchContract`, and
   `CatalogDispatch_proofs`.
2. `SparexDiscovery`, its abstract specification `SweepContract`, and
   `SparexDiscovery_proofs`: runs, URLs and reconciliation.
3. `StripeTerminal`, `PaymentContract`, `StripeTerminal_proofs`.
4. `ManifestIngestion`, `IngestionContract`, `ManifestIngestion_proofs`: manifests, queue,
   ingestion and sweeps.
5. `VendorPromotion`, `VendorPromotion_proofs`: observations, media, promotion and refresh.
6. `CostRecovery`, `CostRecovery_proofs`: readiness, cost-recovery queue, creation plan, rollback.
7. `CatalogRelease`, `ReleaseContract`, `CatalogRelease_proofs`: agents, repairs, publication by
   two processes.
8. `ServiceQuote`: cases, jobs, work items and one quotation.
9. `BankCoding`, `BankCoding_proofs`: evaluations and reviews in overlapping
   transactions.

Left, in this order: `BrokerageDeal` (valuation approval and its staleness), `PortalOrder`
(review states against the cron), `EvidencePrice` (refresh against approval and
application), `RentalInspection`; a module of two workflows whose claims run under
snapshot isolation; and dispatch composed with discovery, where the job of a dispatch
worker is a session of `SparexDiscovery`.

Theorems to come: abstract specifications of promotion, cost recovery and bank coding, stated and
proved like the five contracts there are, and `ServiceQuote` once its handlers are written without
folds over operators (section 5).

All modules are written for proof: parameters are constants with named
assumptions, every operation is one action, and nothing uses RECURSIVE.

## 3. Modules

| Module | Contents |
|---|---|
| `CatalogDispatch` | one workflow, its automation runs, cron, operators, workers |
| `DispatchContract` | what the control plane promises, without leases and approvals |
| `CatalogDispatch_proofs` | theorems about `CatalogDispatch` |
| `SparexDiscovery` | sweeps, URL queue, pages, items, checkpoint scripts |
| `SweepContract` | what a listing sweep promises, without scripts, cursors and lost answers |
| `SparexDiscoveryMC` | names of the two hosts |
| `SparexDiscovery_proofs` | theorems about `SparexDiscovery` |
| `StripeTerminal` | terminal payments, transactions in flight, intents, reader, events |
| `PaymentContract` | what card payments promise the books, without readers, transactions and events |
| `StripeTerminal_proofs` | theorems about `StripeTerminal` |
| `ManifestIngestion` | manifests, FIFO queue, queue workers, ingestion ledger, catalog items, sweeps |
| `IngestionContract` | what ingestion promises the vendor catalog, without queue and workers |
| `ManifestIngestionMC` | page artifacts and what they show, worker symmetry |
| `ManifestIngestion_proofs` | theorems about `ManifestIngestion` |
| `VendorPromotion` | vendor items, products, media worker, promotion workers, staff |
| `VendorPromotionMC` | worker symmetry |
| `VendorPromotion_proofs` | theorems about `VendorPromotion` |
| `CostRecovery` | items without cost, their recovery by scripts, creation of drafts, people |
| `CostRecovery_proofs` | theorems about `CostRecovery` |
| `CatalogRelease` | products, agent pipelines, orchestrator and publication worker |
| `ReleaseContract` | what the release of products promises the website, without agents and processes |
| `CatalogRelease_proofs` | theorems about `CatalogRelease` |
| `ServiceQuote` | cases, jobs, work items, quotations and lines |
| `BankCoding` | coding rules, bank lines, candidates, evaluations and reviews in flight |
| `BankCodingMC` | which rule matches which line, symmetry of calls and candidates |
| `BankCoding_proofs` | theorems about `BankCoding` |

Operators named like *Mutated form of X* in a comment are plausible wrong versions
of a definition. They are unused by the specifications; replacing X by one of them
must break the property named beside it in `PROJECT.json`.

### 3.1 CatalogDispatch

`sync` is the workflow record (`southern.parts.catalog.sync`), `run` the automation
runs (`southern.automation.run`), `worker` the AWS processes, and `discovery` the state of the
latest discovery run as far as `_run_one_batch` reads it. Stored times (cooldown,
next allowed run, lease expiry) are kept as the time left and counted down by
`Tick`; a lease of -1 is one that has run out.

- `Cron` is `_cron_run_active_syncs`: the recovery of expired claims and then the
  batch, in one transaction. If the batch raises, the whole step does not happen.
- Each button of the form is one action (`Operator`); `RunNow` runs the batch at
  once, `QueueApprovedApply` queues a release.
- `BeginExternalRun`/`FinishExternalRun` are the recording script, which begins a
  run without a claim and finishes it.
- `Claim`, `JobEnds`, `Report`, `SecondReport`, `Crash` are a worker: the claim may
  lose its reply (the lease stands, nobody works), the report may lose its reply (the
  `except` branch reports a second time with another outcome), and systemd kills
  it at `JobTimeout` at the latest.

`sync.timer` is whether the `ir.cron` of all workflows is active. It ships inactive
(`data/catalog_sync_cron.xml:32`), Enable Schedule and Enable Continuous switch it on, no code
switches it off, and `Cron` takes no step without it.

Abstractions. One workflow. A finished run drops its job and mode;
the one later use of them, the number of releases since the last discovery, is
`sync.releases`. The backlog status is any of its four values at each batch. A full
run table (`MaxRuns`) queues nothing. `recover_stale_runs` handles at most 20 runs a
call, more than a bounded run table holds. Form fields are not edited directly.

### 3.2 SparexDiscovery

`run` holds the sweeps with cursor, lease, counters and reconciliation state; `url`
the URL rows with repair request and recorded page; `item` the discovery items shared
by all sweeps; `session` the checkpoint scripts; `witnessed` is a history variable, the
items each sweep has recorded. A session walks through the script: start or resume a
run, configure it, queue due repairs, then claim / fetch / record until the run
completes or its checkpoint is full. After a lost reply (`"lost"`) it sends the page again.

`Selections` is `_select_next_url` and `Visited` the bookkeeping of
`record_discovery_page`; the links and the products of a page are free at every visit,
so the portal may change its mind. Priorities of URLs are left out: any waiting URL
of the right kind may be next, which contains every order. `MaxPages` is
`max_pages_total`.

`Start` is a dispatch: the worker's timer polls Odoo, and a script starts only when a run was queued and
claimed there. So nothing in this module makes `Start` happen; what does, `CatalogDispatch` and the people who
resume a workflow, is the premise `Dispatched` of `SweepCompletes`. `Work` is a script that has started.

Left out: the 24-hour age of due repairs (a session may queue any set of them), the
migration of text frontiers of old runs, backfills, metrics counters, run states
`failed` and `cancelled` (nothing writes them), the check that agents are active.

`SweepContract` is what remains for a reader of the catalog: how far a sweep is (absent, open, completed),
the pages it knows and has fetched, the repairs it owes, the part of its page budget that is spent, and the
worker whose lease is live. `KeepsContract` maps rows that exist to known pages, recorded pages to fetched ones,
`page_count` to what is spent. Cursor, kind, cooldown, counters and scripts are gone: a page is fetched because it is
new and within the budget, or because its repair is owed, and its fetch completes the sweep exactly
when nothing of either is left. A page may be fetched by a worker whose lease has run out, since the code
accepts it from the last owner.

### 3.3 StripeTerminal

A payment and the PaymentIntent made under its idempotency key share a number. A
transaction that talks to the reader checks its guards on a snapshot (`Pay`,
`Retry`), sends its requests (`Send`), and commits or is rolled back (`End`): the
requests stand either way. `flight` is the open transaction with the payment it
read and the payment it would write; it does not commit over a concurrent change of the
same payment. The other methods are one step. `CardCharged` and `ReaderGivesUp` are
Stripe; `Deliver` and `DeliverFails` are the webhook controller, which marks an event processed
(it leaves `events`) or fails, so that Stripe sends it again. `FeePayment` settles
a fee invoice by hand, `OtherPayment` lowers an invoice by another route.

Assumed of what is outside the repository: a reader may replace a payment whose card has
not been presented; Stripe answers a repeated idempotency key from memory or carries
it out; two undelivered events of one type for one payment are one; Odoo's payment wizard
either registers the payment or leaves nothing (what it leaves when it raises
half-way is not in this repository). One company with one default reader, as
`stripe_terminal_config.py` enforces.

`PaymentContract` keeps three things: what an invoice owes (`residual`), the charges made (the intents that
have succeeded), and which charge has settled which invoice (the accounted payments). Payments, readers, transactions in
flight and events are behind it; a step of theirs is a charge, a booking, a receipt by other means, or nothing.

### 3.4 ManifestIngestion

`Publish` archives a page artifact and sends its manifest; `queue`, `holder`, `received`
and `dead` are the SQS FIFO queue of the CloudFormation stack with its redrive policy.
All messages have one message group, so only the head can be delivered, and not while a
process holds it. `Receive`, `Ingest`, `Fail` and `Delete` are the queue worker, which is
killed or stalls at any point; `Reappear` is a visibility that runs out, also under a worker
that lives on and calls Odoo later. `Redrive` is an operator who returns a dead letter; it
counts its receives anew. `Ingest` is `ingest_manifest` with the upsert of each record;
its reply may be lost, and then the client calls again. `RecordCheckpoint` and `CompleteSweep` are
`southern.sparex.catalog.sweep`. `item.from` and `late` are history.

Abstractions. Each Odoo method is one step, since all of them take one advisory lock. A
record of a manifest is accepted, or rejected for a passing or a permanent reason, by
itself: a slice of fifty that fails is halved until single records remain, which the six
levels of bisection suffice for. An SKU occurs once in a manifest. An artifact is
named by its checksum, so the same artifact always shows the same records; several
artifacts of a manifest count as its first, as in the code. A message that SQS drops at the end of its
retention period is not modelled: the queue keeps what it was given. Archived and discontinued items,
the match and readiness an upsert computes and the other writers of vendor items
(media, dealer cost, stage import) are in `VendorPromotion`. A transaction's snapshot is older
than its grant of the lock; a call that meets a row written in between is retried or
refused as a whole, and one with an unseen unique key fails, which is a rejection here. A permanent failure of a whole
manifest (`existing.failure_class in PERMANENT_FAILURES`) is never written by any code.

`IngestionContract` keeps the page of each published manifest, which manifests are done (complete in the ledger),
the records refused, and what the catalog holds. Every ingestion, of a first, repeated, late or redriven
delivery, is `Apply`: some records are applied as the page shows them, the refusals are written, and the
manifest is done exactly when every record is one or the other. It takes no manifest that is done.

### 3.5 VendorPromotion

`item` holds the vendor catalog items with what readiness depends on, `product` the
products of their references with the supplier record, `media` the batch in the hands of the
media worker, `worker` the promotion workers. `Observe` is one record of
`upsert_catalog_items`, `DealerCost` one of `apply_dealer_cost_evidence_batch`;
`ReadImages`, `ApplyImages` and `DropImages` are the media worker. A promotion worker goes
through `Choose` (its search and `prepare_promotion_plan`), `Begin` and `Apply` or `Refuse`
(`apply_promotion_plan`), and `Refresh` (`apply_operational_batch`); replies may be lost, and then the
client calls again. `Begin` is a step of its own because the transaction has its snapshot before
it waits for the lock: the search for an existing product sees `seen`, while locked item rows are
compared as they are. A plan records which of its items have been written since
(`stale`), which is what the comparison of write dates sees.

`Allowed` is the two constraints of a product; a write that would break one undoes the
whole batch, and that is what `Refreshable` says. The supplier record has no constraint, and
`Refresh` writes it after the product.

Abstractions. The items are of one source, each with a reference of its own, fewer than a
batch holds; order by demand is left out. A cost stands for the sales price computed
from it (35 % margin) and for the supplier's price; an image source stands for the
content found there. An observation whose record says itself that its image is verified (`vendor_catalog.py:428`) is
not modelled: verification comes from the media batch and the dealer cost, and fails when Odoo does not
store the very content it was sent (`exact`). `cost = 0` also stands for the other blockers of an observation
(name, URL, currency, category). A product is published on the cost-plus basis; evidence URL,
website category and description are taken as given. Staff put an image of their own on a
product together with its override flag. Products are not deleted or renamed, and nobody
archives or restores an item by hand: one seen as discontinued is archived, and then neither observed
nor given a cost again (see findings). Publication is in `CatalogRelease`.

### 3.6 CostRecovery

`item` and `product` are a discovery item with its recovery claim and creation review, and its
product with the one Sparex supplier line; `script` holds what each recovery script has read
and claimed, `plan` the creation plan of a discovery script. A script claims a batch, reads prices
in the portal (which accepts, fails or refuses with a cooldown), applies the accepted ones in
one call, verifies them and rolls back when the verification asks for it; or it stages them where the
durable pipeline is configured. Every call is a step; its reply may be lost, and then the
script believes nothing was written. `Refresh` is one row of `refresh_readiness_batch`, which is
also the only thing that gives up the claim of a dead script. `ClaimAges` is the 30
minutes after which a claim no longer counts; the script may live on. `PlanCreation`,
`ApplyCreation` and `RollbackCreation` create drafts from listings, `Person` edits
products in Odoo's forms.

Abstractions. One item stands for a batch of one; with more items all rows or none are
written, as in the code. Prices are two values and `Markup` any value above them. The URL, the
currency and the pack of the supplier line are taken as exact. The recovery order (demand, then age) is
any order.

### 3.7 CatalogRelease

A pipeline is the chain of tasks of one product for one write date: the stage it has reached and the
state of the task there, since each task is queued when the one before completes.
`worker` is the local state of the processes of `orchestrator.py`
and `publication_worker.py`; both walk through seeding, the stages, preparation, publication,
page verification and confirmation, and the orchestrator begins with the repairs of links and
copy. When the publication part fails it undoes releases, copy and links in three calls. A process holds the
snapshots of the rows it planned (`valid`), as they are written they leave it (`Voided`). `orphans` is
history: releases whose process was killed or never heard of them.

Abstractions. Five agents are `Depth` stages; what an agent concludes is any decision the stage
accepts. `url` stands for the URL with its image; `blocked`, `failed` and `cancelled` are one
state (`stopped`); a price is none, present, or present with a verified basis. Products are seeded
one by one in any order. The standalone `worker.py` does a part of what the orchestrator does
and is left out. `Cancel` is the button, `EvidenceChanges` what sweeps and cost recovery leave.

`ReleaseContract` keeps the product and the publication state of each pipeline, which products are on the
website, and which a person has hidden. Agents, plans, repairs, locks and processes are behind it: releases begin, are
approved, published, verified or withdrawn, those of one batch together, and people show and hide products.

### 3.8 ServiceQuote

The state is five tables: cases, orders, jobs, work items, lines. A handler is an operator
from the book its transaction sees to the set of books it may leave; an exception is the
empty set. So the chains of the code compose as they do there: `SendQuote` is
`Ordered` and `Synced`, after which Odoo's mail composer opens; `Confirmed` is Odoo's confirmation with the tasks it
creates or reuses, the adoption of the order's jobs and the case. `CreateJob`, `WriteJob`,
`CreateItem`, `WriteItem`, `DeleteItem` are saves in forms, and `Sales` the
order's own form: adding, editing and deleting lines, confirming, cancelling, reopening and deleting. Sales may
edit the quantities of a sold order and add lines to it, and such a line gets its task at once.

Abstractions. The mail of a quotation is sent later, in a transaction of Odoo's own, which writes the
state `sent`; the code never tells it from `draft` (each guard asks for either), and here they are one (Odoo
itself has a sent quotation cancelled before it is deleted). What
Sales changes between the sync and the mail is sent as changed. Each button is one step, and two that
overlap are not modelled (see findings). A case with two quotations, which a test makes by direct
writes, cannot be made in the forms. Drafts of hours, notes and the technician copies between job, order and case are left
out, and so are the section and note lines of `action_create_quotation`. The stages of a case are live and
ended. An estimate adds one item or none. A created job has the default labor product with a price;
`WriteJob` may take it. A refused shop routing is a step not taken. Deleting jobs, copying tasks and
orders, and the data that confirmation validates are left out. Quantities are hours or units in one number.

### 3.9 BankCoding

Rules, lines and candidates, with the evaluations and reviews that are in flight. A transaction
reads a snapshot: what it read of its rows is kept with it, and a row it will write that another
commit writes meanwhile makes it `stale`; Odoo then begins the call again without showing the button
again (`EvaluateAgain`, `Again`). An evaluation writes the match count of each rule it counts on,
and that write alone serialises two of them. A review is one of three buttons that the form shows in
some states (`Shown`); the methods themselves check no state.

Abstractions. Rules are tried in the order of their numbers. A rule here is a record: the
seed overlooks retired records (`bank_coding.py:159` reads the active ones) and makes another. Each evaluation belongs to a run of its own,
so its state is left out. A candidate's line and rule are not edited. `Refuse` is Odoo's refusal of the
account or of the line, `Leave` and `LeaveEvaluation` a call that fails. Bookkeepers code and undo
lines in Odoo's reconciliation (`Bookkeep`).

## 4. Runs

| Run | Instance | States | Shows |
|---|---|---|---|
| `dispatch_disciplined` | 2 workers, 2 runs, lease 1, cooldown 2, fairness | 200 k | With operators who act between runs: the workflow implements `DispatchContract` - one run at a time behind a gate that time alone opens (`KeepsContract`, a refinement) -, a live worker holds its lease (`JobHoldsLease`), and with the cron active every claimed run ends (`ClaimedRunEnds`) |
| `discovery_sweep` | 2 URLs, page limit 2, 2 hosts, 1 item, 1 sweep, fairness | 210 k | The cursor is work, a completed sweep settles every item, a live lease excludes the other host, sweeps complete once disturbances stop and while scripts are dispatched; the sweep implements `SweepContract`: pages once within the limit and again for repairs, complete exactly when nothing is left |
| `stripe_payments` | 1 invoice of 2 units, 2 payments without fee | 904 k | The payments implement `PaymentContract`: a charge is booked once, for exactly what the invoice owes |
| `stripe_notices` | 1 payment with fee, fairness | 2.8 k | A payment is accounted, and its fee invoiced, only if charged; a charge whose notice finds its payment ends accounted for or under review |
| `ingestion_queue` | 2 workers, 2 manifests of 2 pages and 2 SKUs, 1 sweep, 2 receives | 1.1 M | Every record ends in the catalog or the rejection ledger, newer observations win, a repeated delivery of a complete manifest changes nothing |
| `promotion` | 1 item, 1 image, 2 promotion workers, costs 1 and 2, 2 products of which staff edit one | 651 k | At most one product by the pipeline; a ready item has a cost and no image of an older source |
| `cost_recovery` | 1 item, 2 scripts, 1 creator, prices 1 and 2, 2 attempts, 2 edits, fairness | 274 k | A price is applied under the claim it was read for, a rollback restores what it replaced, the attempt limit holds (in `TypeOK`), claims end |
| `catalog_release` | 1 product, orchestrator and publication worker, 2 stages, 2 pipelines, 2 troubles | 1.3 M | Releases implement `ReleaseContract`, what is shown is complete, no publication is left half done by a live process, a person's work survives rollbacks |
| `service_quote` | 2 cases, orders, jobs and items, 4 lines, 5 steps | 317 k | Links agree, generated lines are held, sold lines change only where Sales edits them, a quotation that is opened for sending or confirmed carries the work and forgets no line but that of an item that became labor, jobs are reused |
| `bank_coding` | 2 rules, 2 lines, 2 candidates, 2 evaluations, 2 reviews, 1 edit | 939 k | Settlements are never coded to revenue, a line waits once per rule, a coded line is not coded again |
| `stripe_unnoticed` | 1 payment, fairness | violation | see findings |
| `ingestion_absence` | 1 worker, 1 SKU, 3 sweeps | violation | see findings |

**Bounds.** Two runs and two workers are what an overlap, a late report and a recovery
need: the third run of a behaviour meets a workflow record no different from the second's.
`Warnings = 2` (3 in the code), so that a streak can be below, at and beyond the limit
with two runs; the proof has it for every number. `Lease = JobTimeout = 1` is the tight
case of `JobTimeout <= Lease` (12 minutes against 900 s); `Cooldown = 2 > NextWindow = 1`
keeps the order of 60 and 15 minutes. Two URLs with a page limit of two
reach every combination of a row that is queued, active, visited and under
repair; a row that the limit cuts off takes a third URL: `SweepContract` was checked on three
pages and a limit of two as well (232 k states), and `SweepsKeepContract` has it for every portal and limit. With one item and one sweep after an earlier one, every kind of evidence appears.
Two payments of one invoice are two cashiers, a retry beside a new payment, or a payment
after a canceled one; `Balance = 2` tells full, partial and no residual apart.
Two manifests with two receives each are what a repeated
delivery, a stalled worker and a dead letter behind a later manifest need; two SKUs make
a manifest partly fail.
One item suffices for two workers with the same plan, a plan made stale, a download made
stale and a duplicate reference (a product by staff beside one by the pipeline); two costs
tell a changed cost from an equal one.
In `cost_recovery` two scripts with two attempts reach a claim that lapses and is taken by another
script while the first still applies, and two edits a change of the price both before and after
the application. In `catalog_release` two stages tell a hand-over from an end, two pipelines are two seedings of
one product (before and after an edit), and `MaxTroubles = 2` counts changes by people, kills and
lost replies together: a lost reply followed by an edit is the longest case a property needs.
`service_quote` bounds behaviours by five buttons or saves (`MaxSteps`), beginning with no record, or with a
case that has its quotation and a first job; one quotation reached from two sides, a line left by
an item that changed, and a routing repeated after a confirmation take three to five. In `bank_coding` one
line is a settlement, the other ordinary with a suspense account that the form does not know by
name; one edit of a rule, target or line may fall anywhere between the steps of four open
transactions.
Symmetry is used only in runs without liveness: on workers and on the candidates, evaluations
and reviews of `BankCoding`.

**Deadlock** is checked in the dispatch, discovery, promotion and bank-coding runs. The others may
properly end: every key used, every event delivered and every invoice settled (Stripe); every manifest
ingested and every sweep complete (ingestion); an item handed to a person after its last
attempt (cost recovery); every pipeline used (release); the last button pressed (service).

**Fairness.** `CatalogDispatch`: an active cron runs every minute (`WF(Cron)`, and `Cron` is enabled only
when `sync.timer` is), time passes, and systemd ends every worker, by its own end or by `TimeoutStartSec`
(`WF(WorkerEnds(w))`). No operator and no claim is fair. Whether the cron is active is up to people, so
`ClaimedRunEnds` has it as a premise: it says nothing of a run claimed before the first Enable Schedule or
Enable Continuous, and such a run may indeed stay (see findings). `SparexDiscovery`: time passes
and a script that was dispatched goes on until it ends or is killed (`WF(Work(s))`); scripts started by hand need
not, and no start is fair. `SweepCompletes` has two premises. From some time on no page fails, no process is
killed or outlives its lease, and no repairs are requested or come due: each of these,
repeated for ever, does keep a sweep from completing. And scripts go on being dispatched (`Dispatched`): the
schedule is on and the cron active, an idle workflow selects discovery and not only releases, and somebody
resumes a workflow in error or paused. The code does not see to that by itself: one failed script without a warning
pattern is enough to set the workflow to `error` (`automation_control.py:566`), and the cron selects idle ones
(`catalog_sync.py:54`). What the property leaves to the code is that a dispatched script can always
claim an unfinished sweep again and gets on with it. `StripeTerminal`: Stripe
redelivers an event until it is acknowledged, requests are answered or time out, and the
polling cron runs. That cron ships disabled (`data/ir_cron.xml`); `NoticedChargeIsFollowed`
holds for installations that switched it on. `CostRecovery`: time passes (`WF(ClaimAges)`) and
every dispatch poll refreshes the rows refreshed least recently (`WF(Refresh)`), which needs a schedule that is
on: a continuous release or further release runs, since rows are refreshed by `continuous_release_status` and by the release script
(`refresh_readiness_batch`) and by nothing else; scripts, portal and
people owe nothing. The other modules are checked for safety only: a person or a script that
never comes back leaves tasks and candidates where they are, and the code promises nothing else.

`Disciplined` in `CatalogDispatch` is a premise on people, not on the code: operators
act only while no run is running, and do not ask again for approval during a
continuous release. Only the theorem `ContractIsKept` needs it, as it must: the contract is
false without (see findings).

## 5. Proofs

TLAPS checks the following for every value of the constants that meets the
assumptions named in the modules, by an inductive invariant `IInv` in each proof module
(`Init => IInv`, `IInv /\ [Next]_vars => IInv'`, `IInv` implies the property). Five components are shown
to implement an abstract specification, each in the same way: the initial states map to initial states, and
under the invariant every action maps to an action of the contract or to a stutter, one lemma per action.

`CatalogDispatch_proofs` - from `WorkersAssumption` and `TimesAssumption`
(`JobTimeout <= Lease`, `NextWindow <= Cooldown`, at least one warning), any operator:

- `TypeCorrect`: `Spec => []TypeOK`.
- `LeaseHeld`: `Spec => []JobHoldsLease`. The property is not inductive: a worker keeps
  its lease only because the time it has lived and the time left on its lease add up to the
  whole lease. `WorkerOK` says so, and `Tick` cannot pass `JobTimeout`.
- `WithinLimit`: `Spec => []ContinuousWithinLimit`; `SyncOK` is the conjunct that carries it,
  through `Warned`, by cases on how many warnings a recovery brings at once.
- `OutcomesAreFinal`: the action property `TerminalIsFinal`, from `RunsOK`: only a
  running run has an owner, so recovery, report and second report all miss a finished one.
- `ContractIsKept`: under `Disciplined`, `Spec => KeepsContract`, the refinement of
  `DispatchContract`. The mapping takes the runs to their status (`Shown`) and the two stored times to the
  later of them (`Gate`). Every step `Keeps`: it is a step of the contract or stutters, and leaves
  runs alone (`RunsAlone`, the invariant): a run that executes is the only one, the workflow says
  `running`, and the gate it came through is still open. The last part is what lets an outcome
  overwrite the stored times: a success that sets 15 minutes never shortens 60, since nothing
  is left to wait while a run executes. `Settles` composes the recovery and the batch of one cron step.

`StripeTerminal_proofs` - from `AmountsAssumption`, any number of invoices and payments:

- `TypeCorrect`, `OnlyChargesAreAccounted`, `InvoiceIsAccountedOnce`,
  `AccountedNeedsNoReview`, `CanceledStaysCanceled`. "Once" is not inductive: it needs
  that an accounted payment has left its invoice with nothing to pay (`PaymentOK`), that
  registration asks for a positive residual, and that an open transaction has
  not touched what registration writes (`FlightOK`), or its commit would bring a stale
  copy back.
- `PaymentsKeepContract`: `Spec => KeepsContract`, the refinement of `PaymentContract`. An accounting payment is
  written by registration and nothing else changes it, so a commit or rollback of an open transaction must
  leave the books alone: that is `FlightOK` again. A booking takes exactly what is owed because
  registration reads the residual in the step that pays it.

`BankCoding_proofs` - from `CodingAssumption` and `NoneAssumption`, any number of rules, lines,
candidates and overlapping transactions:

- `TypeCorrect`: with `ReviewedExists`, that a review is on a candidate that exists (`WellFormed`).
- `SettlementsCleared`: `Codable` looks at the target that the apply has read, and a row it reads is
  the row it writes.
- `CodingKept`: the action property `CodingIsNotReplaced`. A line found open may have been coded since,
  so the invariant `ReadIsCurrent` is needed: what an apply read of its line is current unless
  it was marked as moved, and then it cannot commit.
- `NeverProposedTwice`: `ProposedOnce` is not inductive. `OnceInv` adds `DueIsNew`: what an
  evaluation that is not stale is about to create is pending nowhere, since whoever
  created it has written the same rule.

`SparexDiscovery_proofs` - from `PortalAssumption`, `SessionsAssumption` and `BoundsAssumption`
(at least one sweep, page and unit of lease), any portal, sweeps, scripts and items:

- `TypeCorrect`: a counter of a run never falls below zero. The counters are not recomputed
  from the rows, so this needs which rows each step moves (`RowsOK`).
- `CursorStaysWork`, `CompletedIsExhaustive` (`SweepIsExhaustive`). Neither is inductive: `RunOK` says of each run what its
  state implies for its queue - before the start all is blank, then the cursor is work (`WorkAt`), at
  the end no owner, no repair, and nothing queued but beyond the page limit - and
  `ScriptsHaveRuns` that a script at work is on a started run.
- `LeaseKeepsOthersOut`: the action property `LeaseExcludes`: while a lease is live, only a step of a script
  of its owner moves the run.
- `OnlySweepReconciles`: `CompletedIsReconciled` for a sweep that is the only one started. The
  premise is needed: a second sweep overwrites `last_seen_run_id` (see findings), and
  `discovery_sweep` too has one sweep.
- `SweepsKeepContract`: `Spec => KeepsContract`, the refinement of `SweepContract`. Beside `IInv` it needs `Tight`: a visited
  row has a recorded page and a repair is of a known page (`Exact`), or known pages and fetched ones would
  not say what is queued; and the frontier cursor of an unfinished sweep is within the page limit (`Spare`), which
  holds because the limit is tested when a cursor is selected and only a frontier page uses it up. `SelectedRows`,
  `AskedRows` and `FetchedRows` say what the three operations on the queue do to the contract's sets,
  `NothingQueued` that with no active row an empty queue means all known pages are fetched.

`ManifestIngestion_proofs` - from `PagesAssumption`, `QueueAssumption` and `BoundsAssumption`, which ask
for a page, a version and a receive, any number of workers, manifests, sweeps and SKUs:

- `TypeCorrect`, with `WellFormed`: manifests are numbered as published, sweeps and
  what a worker holds exist.
- `NothingLost` (`NothingIsLost`), `RepeatsHarmless` (`RepeatIsHarmless`), `ObservedInOrder`
  (`ObservationsInOrder`), all from `Orderly`. The queue is in the order of publication (`InOrder`), a
  published manifest is in it, complete or dead (`Accounted`), and what a worker holds, also one
  that stalled and lost its visibility, was preceded only by manifests that are complete or were
  dead letters (`Held`, `Behind`). That last part is what makes a late call of a stalled worker harmless.
  `Kept` is what a complete manifest leaves of each record.
- `IngestionKeepsContract`: `Spec => KeepsContract`, the refinement of `IngestionContract`. A manifest
  in the hands of a worker is a published one, also when it has become a dead letter, and an
  ingestion of a complete one returns before it writes.

`VendorPromotion_proofs` - from `ItemsAssumption` (there is an item), `ImagesAssumption` and
`BoundsAssumption`, any number of items, images, workers and products:

- `TypeCorrect`, with `Linked`: an item knows a product exactly while it is matched.
- `PromotesOnce` (`PromotedOnce`): `OneEach` adds that an item whose reference has a product of the
  pipeline does not miss one, so a plan from an older snapshot fails at the locked item row.
- `ReadyStaysSound` (`ReadyIsSound`): `Sound` holds of every item, flagged and unmatched ones too, since
  readiness is recomputed by some writers only.

`CostRecovery_proofs` - from `CostConstants`, any items, scripts, prices, attempts and edits:

- `TypeCorrect`: in it the attempt limit, which needs `TriesLeft`: whoever is queued or waits has an
  attempt left.
- `AppliesItsOwnClaim` (`AppliesOwnClaim`) and `RollbackRestores` (`RollbackRestoresCost`), two action
  properties. Application compares only the worker's name, so `SameClaim` says that where a
  script still holds an item it works on, it knows that claim's attempt; `Stood`, that an
  applied price has replaced the one the claim had read.

`CatalogRelease_proofs` - from `ReleaseConstants` (at least two stages: five agents in the code, and a release
is approved by the last of them, never by its seeding), any products, processes, pipelines, stages and
troubles:

- `TypeCorrect`, with `Chained`: tasks and publications belong to pipelines that are in use.
- `StaffIsKept` (`RepairKeepsStaff`): a copy is written to the planned rows that nobody has written
  since, and `CopyIsPlanned` says that these still lack theirs.
- `ShownStaysComplete` (`ShownIsComplete`) and `PublicationStaysHeld` (`PublicationIsHeld`) are inductive
  given `WellFormed`.
- `ReleaseStaysShown` (`ReleaseIsShown`): the property forbids a second unconfirmed release. Confirming
  the first of two would turn a state it allows into one it does not, so `OutOnce` forbids any second
  release, verified ones too, of a product that nobody hid.
- `ReleaseKeepsContract`: `Spec => KeepsContract`, the refinement of `ReleaseContract`. `Waiting` is needed
  beside the other invariants: a pipeline whose publication has begun has passed its last stage, and none
  of its tasks is queued or claimed, so no late decision approves it again. A batch is published as one step because
  its pipelines have different products, and each is looked at again under the row lock.

The invariants were checked by TLC on the instances above before they were proved, `RunsAlone` and the
invariant of discovery also with one more run and one more sweep.

`ContinuousWithinLimit`, `TerminalIsFinal`, `AccountedIsNotReviewed`, `CanceledCannotCollect`, `AccountedOnce`,
`ReleaseIsShown` and `SweepIsExhaustive` are proved and no longer run: each was checked on
the instances above with its mutants first, and the last three are what a contract that is
run says of one case. `IngestionContract` too is proved and not run: TLC agreed with it on the instance of
`ingestion_queue`, with one receive and with two, but takes longer over it than a regular run should. The
other contracts are both run and proved.

Only model-checked: all of `ServiceQuote`. Its handlers map a book to the set of books they may
leave, and run one after another over the rows of a table by folds whose argument is an operator; a fact
about such a fold is an induction over data with an operator as a parameter, which the installed
provers cannot instantiate. Liveness too is left to TLC (`ClaimedRunEnds`, `SweepCompletes`,
`NoticedChargeIsFollowed`, `ClaimsEnd`), since it needs ENABLED. No module uses RECURSIVE.

## 6. Findings

Two statements of the repository that the code does not keep have a run whose counterexample TLC finds.

1. `stripe_unnoticed` - the successful charge is registered (module README). A transaction
   rolled back after its Stripe requests leaves a charge no record refers to, and its webhook
   events are acknowledged.
2. `ingestion_absence` - the sweep marker is written with each accepted observation (a
   comment). An observation of the same content in the same artifact does not write it, so a
   sweep counts items as absence candidates that it has observed.

Met while modelling, without a run of their own. The models have the code's behaviour in each case
that lies inside a module.

Dispatch:

- `docs/ODOO_NATIVE_SYSTEMS.md:57-58` says another running workflow blocks a run, and
  `docs/SPAREX_CATALOG_DISCOVERY.md:136` that there is one non-overlapping path. The guard
  (`automation_control.py:151`) reads the workflow state, which Pause, Resume, Reset Cursor, the disable
  buttons and a queued batch overwrite during a run: with `Disciplined = FALSE` TLC finds
  two runs side by side.
- Queue Approved Apply (`catalog_sync.py:68-87`) queues a release, for any worker to claim, also while the
  cron is inactive. When that worker is killed or the reply to its claim is lost, no one recovers the claim: the run and the
  workflow stay `running` until somebody enables a schedule.
- One discovery script that fails without a warning pattern sets the workflow to `error`
  (`automation_control.py:566`); the cron passes it over (`catalog_sync.py:54`), and the sweep stands still until a
  person resumes it, also under a continuous release, which is switched off then.
- An expired claim is blocked and released (`tests/test_automation_control.py:314`). Recovery and batch
  share a transaction; with approval requested again during a continuous release the batch raises
  (`catalog_sync.py:374-375`) at every cron run, and the recovery is undone each time.
- Two workers may claim runs of two workflows at once (`automation_control.py:157`): each
  transaction sees the other workflow idle, takes no advisory lock and writes other rows.

Discovery, vendor catalog and cost recovery:

- `docs/SPAREX_CATALOG_DISCOVERY.md:54-55`: records not seen by a run become stale when it
  completes. `_complete_reconciliation` reads `last_seen_run_id`, which a second sweep under
  another run key overwrites, so items that the completing run did see become stale.
- `test_sparex_discovery.py:231` expects `queued_url_count` 1 after a seed page with one new
  link; the code subtracts the seed, which it never counted, and stores 0.
- Queueing repairs makes a run in portal cooldown ready, so a checkpoint started by hand goes to
  the portal during the 60 minutes of `docs/SPAREX_CATALOG_DISCOVERY.md:59`.
- A rejected creation review is reset to `review_required` by the next observation of the missing item
  (`sparex_discovery.py:1207-1211`), and the creation plan takes `review_required`: a rejected SKU is created.
- `cost_recovery.py` says every partial verified write must be rolled back. When the reply of an application
  is lost, or one row changed since, the rollback is not asked for or refused for all rows.
- `rollback_cost_recovery` restores list and standard price from the snapshot of the claim: what a
  person changed between claim and application is lost. Evidence columns stay, and the
  evidence check never compares prices.
- A portal cooldown releases every claim of the batch with an attempt counted, fetched or not.
- `docs/sparex-durable-catalog-pipeline.md:29`: the pipeline owns cost and supplier information.
  `apply_operational_batch` writes a positive price to an Ask for Pricing product, which
  `product_template.py:224` refuses; and a changed cost to a published product, which the
  gate refuses because the supplier record still has the old price. The batch is undone, the rows
  stay ready, and every later run selects them again.
- A discontinued item is archived, and the search of `upsert_catalog_items`
  (`vendor_catalog.py:469`) overlooks archived items: when the vendor offers it again, its
  creation collides with the unique SKU, and the record is rejected for good.

Release:

- `prepare_publication_plan` blocks a task but leaves it `ready` (`catalog_agents.py:804`), which keeps the
  product out of every later seeding, although older corrected records are to keep moving
  (`docs/SPAREX_CATALOG_DISCOVERY.md`).
- A claimed task has no lease (`catalog_agents.py:721`): after the death of its worker its
  product waits until someone edits it. `action_cancel` handles only queued and claimed tasks.
- `test_vendor_catalog.py:183-193` expects `apply_quote_publication_plan` to publish; the
  publication gate refuses every product with Ask for Pricing (`catalog_agents.py:167`), as
  `test_catalog_agents.py:297` expects.
- A product that the gate refuses fails the publication of its whole batch in every run.
- When the links are repaired and the copy plan is refused, the links stay.

Service:

- A work item that becomes labor leaves the part line it had on the quotation (`project_task.py:401-411`): the
  customer is billed for both. `QuoteCarriesWork` excepts exactly this case.
- A part line belongs to the first job of the order that is synced; an item changed while the order
  is sold or cancelled is skipped without a message, and stays stale when Sales reopens and confirms the order.
- Routing or confirming again resets the case's state and clears its technicians, and the case notes
  overwrite those of the task.
- Two concurrent routings may create two jobs: nothing they write is shared.

Bank coding:

- `southern_accounting_guardrails/README.md:15` says direct-to-revenue settlements and direct-expense payroll
  withdrawals are blocked from approval. `action_apply` marks lines as reviewed itself, and only
  settlements are guarded, not payroll withdrawals, nor an account of type `income_other`.
- README `:34` says the module does not reconcile; an apply codes and reconciles a line.
- `action_approve` and `action_reject` ask for no state: a page that was open, or a retried call,
  approves a rejected candidate or rejects an applied one. Targets of rules and candidates can be edited
  after approval, so what is applied need not be what was approved.
- An approved rule whose target is cleared makes every evaluation with a matching line fail as a whole, and the
  `failed` state it writes is rolled back with it.
- The daily job proposes lines of its own date only; a line imported later is never proposed, nor is one
  whose coding a bookkeeper undid.

Customer portal (read, not modelled): the hourly cron sends desk decisions back to
`supplier_verification` whenever a purchase order exists (`sale_order.py:230`), mailing the
customer each time; a suspended membership is reactivated by confirming an order with a membership line.

## 7. Not modelled

- Equipment brokerage, evidence queue, Sparex sourcing, rental inspections: the next modules of the plan.
- Customer portal: its states are rewritten by design of an hourly cron, so what a model could state is
  mostly what the code does not promise; it comes after the brokerage.
- Within modelled components: inspections and equipment registers of the service module; review
  flags, Shop Boss documents, commercial orders and daily controls of the accounting module; fee lines of
  draft invoices; progress metrics and the migration of text frontiers; the duplicate report; product
  quality scores.
- Not planned: parsing of portal pages, matching of texts, report layout, XML views and access rules
  (no protocol); the setup wizard and payroll tables (one-time or pure tables); Odoo, Stripe, SQS and
  PostgreSQL themselves, which appear as what this code relies on.
