# DealFlow 360 in TLA+

A verification project for the quote-to-cash system of this repository: TLA+ modules that model its
handlers and pages, TLC configurations that check them on small instances, and theorems proved with
TLAPS for every value of the constants. Paths below are relative to the repository (`src/` here).

- `tlc -config MCDeal.cfg MCDeal` runs a configuration (the table of runs names module and cfg),
- `tlapm DealProofs.tla` checks the proofs of a module.

`PROJECT.json` lists the components, runs, theorems, hazards and findings, and maps every definition
to the lines it models.

## 1. The system

A Node/Express API (`apps/api`) over MongoDB, an Angular web application (`apps/web`) with an internal
shell and a customer portal, and a shared package (`packages/shared`) of pure logic both use. A sales
rep drafts a quotation, the risk engine scores its discounts, the score decides who must approve it,
the customer counters or confirms in the portal, a confirmed quotation becomes an order, which is
split over warehouses, shipped, invoiced and billed.

| Component | State | Operations | Correct when |
|---|---|---|---|
| Quotations (`modules/quotations`) | `Quotation`: stage, lines, risk, version, references | create, PATCH with version, submit, portal link | a stage is backed by the approval or order it stands on; edits are not lost |
| Approvals (`modules/approvals`) | `Approval`: status, steps, current step | approve, return, reject | the chain is walked in order by the right roles; a decision reaches the quotation, once |
| Portal negotiation (`modules/portal`) | writes `Quotation`, `Approval`, `NegotiationEvent` | counter, confirm, comment | new terms beyond the limits go back through approval; what a customer types is said once, of the line it is about |
| Order conversion (`modules/orders`) | `Order`, `Fulfillment`, `Subscription`, first `Invoice` | `createOrderFromQuotation` | one order per quotation, with the terms that were approved |
| Configuration (`modules/config`) | `ApprovalChainConfig` | PUT re-scores every open quotation | scores and waiting approvals follow the configuration |
| Risk engine (`shared/logic/risk.ts`) | none | score, level, chain of a set of lines | more discount never means less review; a dilution or a split changes nothing |
| Prices (`pricing.ts`, `pricing.service.ts`, `modules/pricelists`) | price rules of a tier | price a line, save a rule | a line costs what the customer's list asks; a page shows what is stored |
| Builder (`web/.../quotation-builder.store.ts`) | a tab's draft lines and the version it holds | edits, save, submit, reload | what is saved replaces what was seen; news of others' changes reaches the tab |
| Fulfillment, planner, stock (`modules/fulfillment`, `shared/logic/warehouse.ts`, `modules/stock`) | `Fulfillment`, `Stock` | plan, accept, override, ship, consolidate, adjust | units are reserved once, taken once and never below zero |
| Invoices, payments (`modules/invoices`) | `Invoice`, `qtyInvoiced` | generate, send, pay, void | nothing is invoiced before it ships, or twice; no overpayment |
| Subscriptions, billing run (`modules/subscriptions`, `modules/billing`) | `Subscription` and its schedule | modify, pause, resume, cancel, run-schedule | a period is billed once; a stopped subscription never |
| Access (`middleware/auth.ts`, `modules/auth`, `modules/users`, portal tokens) | users, tokens, sockets | create and change accounts, reissue and expire links, connect | an administrator remains; one live link per quotation; a connection hears what concerns its holder and nothing else |
| Browser session (`session.store.ts`, guards, interceptor) | session, address, calls under way | sign in and out, navigate, 401s | signing in returns to the page wanted; no navigation circles |
| Realtime, notifications (`realtime/`, `modules/notifications`, the bell) | rooms, notification rows, badge | emit, push, list, mark read | whoever may see a change is told of it; an open panel heals |
| Deal health (`modules/dealHealth`) | `DealHealthAlert` | evaluate, nudge, escalate | what managers did about an alert is kept |
| Catalogue (`modules/products`, plans, customers) | `Product`, `SubscriptionPlan`, `Customer` | create, edit, change a tier | cycle follows subscription, price list follows tier, opening stock is counted |
| Reporting, upsell, negotiation history, audit | read-only or append-only | lists, computations | |

**How components interact.** Handlers share state only through the collections. A handler reads
documents, changes its copies, and saves them one after the other. Approval decisions write the
quotation (`Quotation.updateOne`), counter-offers write the approval, PUT /config writes both, the
conversion writes an order and then the quotation, fulfillment moves the order's shipped counts,
invoicing reads them and moves the invoiced ones. After a write a handler emits an event to rooms
(`realtime/emit.ts`); the web application reloads what it shows over HTTP.

**What is hard.** Every `await` lets another request run. `save()` writes the paths that differ from
the copy the handler read, with no condition on what is stored by then: `models.ts:43` sets
`versionKey: false`, and the application's own `version` field is compared only in PATCH, in memory.
Apart from the fulfillment handlers nothing runs in a transaction, so a restart between two saves
leaves the first; the transactions that there are call their callback again, on documents that the
aborted attempt has changed. In the browser, answers overtake each other and announcements, frames
are missed while a socket is down, and rooms are given when a socket connects. `PROJECT.json`
"hazards" lists each of these at its line, with the properties that watch it.

## 2. Modules

```
DealRecords      documents, and what each handler does to a document in memory      (no state)
 |- Deal         one action per handler, requests one at a time
 |   |- DealScreens    which buttons the pages of a deal offer, and what the API takes of them
 |   '- DealProofs     theorems about Deal (EXTENDS DealScreens)
 |- DealRequests       each handler as a sequence of database accesses, interleaved, with crashes
 |   '- DealSettled    the refinement: DealRequests, not overlapping, implements Deal
 '- DealRecordsProofs  lemmas on the documents; DealSettledProofs, on DealRequests and DealSettled, rests on it
RiskEngine       the blended discount risk as pure operators
 |- QuoteLines   the lines of one quotation under edits, counter-offers and new ceilings
 '- GoldCustomer the quotations and configurations the MC modules of Deal use
SplitPlanner     the warehouse split and the test of a covered backorder, as pure operators
 |- OrderSplits  the planner over every small order and stock
 '- Inventory    stock, fulfillments and what orders have had shipped, requests one at a time
     |- OrderScreens     the pages of an order; OrderScreensProofs its theorems
     '- InventoryTxn     the handlers overlapping, in transactions that conflict and are retried
BillingMath      dates, proration and settlement of shared/logic/billing.ts, as pure operators
 '- Billing      invoices, payments, subscriptions and the billing run, access by access
     '- BillingScreens   the pages on the books; BillingProofs the theorems of both
Realtime         rooms of a connection and audience of an event, as pure operators
 '- Access       accounts, links and a connection, handlers overlapping; AccessProofs its theorems
Pricing          prices of a quotation's lines and a tab of the builder
LiveTab          a tab on the builder or the approval page, its socket and its calls; LiveTabProofs its theorems
WebSession       session, guards and interceptor of a tab
Bell, Picker, ListPage, Negotiation, DealHealth, Catalogue    parts that share no state
 '- Parts        these and Pricing, one of them at work in a behaviour; PartsProofs its theorems
MCDeal, MCDealRequests, MCDealSettled, MCRules, MCInventory, MCInventoryTxn, MCBilling, MCAccess
                 constants for TLC
```

`MCRules` puts OrderSplits and QuoteLines, and `Parts` puts Pricing, Bell, Picker, ListPage,
Negotiation, DealHealth and Catalogue under one specification each: these share no state, and
`part` says which of them a behaviour is about. LiveTab and WebSession are checked as they are.

Definitions marked *Fault* or named `..._NextWaits`, `..._NoBump` and the like belong to no
specification. Each is the definition after it with a plausible mistake, and each property of a
passing run is violated when the mistake is put in: that is how we know a property would notice.

### The deal

**DealRecords** gives a record type to each Mongoose schema and an operator to each change a handler
makes in memory: `Submitted`, `Countered`, `Reconfigured`, `Confirmed` for a quotation,
`SubmittedApproval`, `ReopenedApproval`, `ApprovedStep`, `ReturnedStep`, `RejectedStep`,
`WaivedApproval`, `RescoredApproval` for an approval. Both state machines use the same operators, so
they differ only in when things happen.

What the lines of a quotation say is a member of `Terms` (or `NoLines`), a saved configuration a member
of `Configs`, and `Assess[config][terms]` is the risk engine's answer: score, level and chain. The
proofs hold for every such function; TLC uses the one `RiskEngine` computes for the quotations of
`GoldCustomer`. `active` is the code's `currentStepIndex + 1`. Names, amounts, dates, trails, audit
rows and notifications are left out: no handler reads them back to decide anything modelled here.

**Deal** has one action per handler:

| Action | Code |
|---|---|
| `Create`, `PatchLines`, `PatchNotes`, `Submit` | `quotations.routes.ts` POST /, PATCH /:id, POST /:id/submit |
| `Approve`, `Return`, `Reject` | `approvals.routes.ts` |
| `CounterWithin`, `CounterOver` | `portal.routes.ts` POST /q/:number/counter, by the outcome of the new score |
| `Convert` | `orders.service.ts createOrderFromQuotation`, from the portal's confirm and from orders |
| `SaveConfig` | `config.routes.ts` PUT / with its loop over the open quotations |

A request the code answers with an error changes nothing, so it is no step. `SaveConfig` writes one
pending approval per quotation it re-scores, as `updateOne` does; if there were several, any of them.
The branch of the counter-offer that opens an approval where there is none cannot be reached from
submit (a quotation that is not a draft has an approval), and the model keeps it all the same.

**DealRequests** splits each handler at its database accesses. A request slot holds a label and the
handler's copies. `QuoteWritten`, `ApprovalWritten` and `DecisionWritten` are Mongoose's `save()`: a
path that differs from the copy is written, one that does not keeps what is stored. Where the code
assigns an equal nested value (lines, risk), Mongoose may or may not see a difference in the parts the
model leaves out, and `touched` chooses. A decision writes `steps.<i>.status`; over an array that
became shorter MongoDB appends an element without a role (`NoStep`), and such an approval fails
validation when it is saved again (`Valid`). `Load` is a browser tab that keeps the quotation, with its
version, for a later PATCH. `Fail` is a handler that dies between two accesses.

The inserting of fulfillment, subscriptions and first invoices inside `createOrderFromQuotation` lies
between `ConvertCreate` and `ConvertSave`; there it only makes that gap longer. What it inserts is
`Confirm` of Inventory and `Convert` of Billing.

**DealSettled** adds `settled`, the collections when last no handler was under way, and states that
their behaviour is `Deal`'s (`ImplementsDeal`, an `INSTANCE` of Deal over `settled`).

**DealScreens** translates the conditions under which the quotation page, the approval page, the board,
the lists and the customer's page show a deal and enable a button, next to the conditions under which
the API accepts the request from that role. A page is taken to show the deal as it is (LiveTab has the
pages that do not), and the customer to have an active portal contact.

**RiskEngine** translates `calculateBlendedRisk`, `resolveRiskLevel` and `resolveAllowedDiscount` into
integer arithmetic: percentages in hundredths of a point (what `roundToTwo` keeps), the weighted average
as an exact quotient, `Math.round` as rounding a half up. **QuoteLines** drives it with the builder's
edits (`addProduct`, `setQty`, `setDiscount`, `removeLine`), the customer's counter on a line, and new
ceilings.

**Pricing** prices a line by the catalogue and the price list of the customer's tier when it is saved
(POST, PATCH); submissions and counter-offers keep prices and look at ceilings only, with the tier
stored in the quotation. `tab` is one builder, with the version it was sent, its draft and whether it
is dirty; its load, save and submission are sent, handled and answered in separate steps, while others
edit, return and counter the quotation and change prices, rules and tiers. `given` remembers the
prices the list has asked. Quantities, taxes and categories do not change a unit price; per-product
entries and variants are never sent by a page. Each handler is one step: DealRequests interleaves them.

### Orders

**SplitPlanner** translates `warehouse.ts`. A demand is the sequence of an order's stockable lines, an
allocation gives units per warehouse and line; the loops of the two passes are a fold over the set of
visits, in the order of `Earlier` (warehouse by rank, line by line), whose only state is the allocation, `remaining` and
`virtualAvailable` being what it leaves. **OrderSplits** adds lines and counts stock in any order and
states what the plan of each case promises.

**Inventory** keeps `stock` (rows of `inStock` and `reserved`), `fulfillment` and the part of `order`
that fulfillment writes, with one action per handler:

| Action | Code |
|---|---|
| `Confirm` | `orders.service.ts createOrderFromQuotation`: the first plan |
| `Plan`, `Accept`, `Override`, `Ship`, `Consolidate` | `fulfillment.routes.ts` |
| `Adjust` | `stock.routes.ts` POST /adjust, with the fulfillments it marks as ready to consolidate |

`shipped` is the set of warehouses whose allocation has left, `back` the backorder of each line,
`ready` whether `consolidationAvailableAt` is set. Two details of the code are kept because they
matter: `Plan` reads stock outside its transaction (`Transactions` says whether the database has them),
so it plans against the stock before its own release; and `Consolidate` picks any row that covers a
backorder, since `Stock.find()` promises no order. Whether a product is a subscription, warehouses
switched off and the denormalised `available` are left out.

**InventoryTxn** lets these handlers overlap. `Ask` is what a handler reads before its transaction, at
one instant; `Begin` takes the snapshot; `Commit` succeeds unless a document it writes was written
since, else `Abort` keeps the changed documents in memory and the callback runs again on them, as
`withTransaction` does. `Adjusted` stores the absolute count an adjustment computed. `changed` and
`since` record what others wrote since the snapshot and since the first read. A conflict is noticed
when the attempt ends, and a commit is not lost.

**OrderScreens** has the list of orders awaiting fulfillment, the page of a fulfillment (buttons,
banner, backorder table, editor of the split) and the stepper of the order, next to what the API
accepts. In the editor the rows of a line that name one warehouse are one row.

**BillingMath** and **Billing**: the arithmetic of `shared/logic/billing.ts` in integers (`Dates` is the
calendar, any function, which TLC gets from the code's arithmetic), and the handlers access by access:

| Action | Code |
|---|---|
| `GenerateRead`, `GenerateInsert`, `GenerateSave` | `invoices.routes.ts` POST / for what has shipped |
| `PayRead`, `PaySave`, `PayOrder` | POST /:id/payments |
| `Convert`, `ConvertSubscribe`, `ConvertInvoice` | `orders.service.ts`: the subscriptions and first invoices |
| `Modify`, `Cancel`, `Pause`, `Resume`, `IssueCredit`, `SubscriptionSave` | `subscriptions.routes.ts` |
| `RunRead`, `RunInsert`, `RunSave` | `billing.routes.ts` POST /run-schedule, subscription by subscription |
| `Ship`, `Tick`, `Fail` | shipping (Inventory has it) as one step, a later date, a handler that dies |

`accidents` counts overlaps and deaths, `Calm` says there was none. A change of a subscription is
effective now (the pages send no other date); discounts and taxes are in the constants.
**BillingScreens** has the invoice and subscription lists, the invoice page, the order's stepper and
the billing page, every order being of a customer of its own.

### Access, sessions and pages

**Realtime** puts a connection into rooms by its identity and names the rooms of each event.
**Access** has the accounts, the handlers that create and change them and reissue links (read, then
save what differs), companies switched on and off, links that expire, and one connection that is made
by an account or a link, subscribes, and outlives changes of both. An e-mail is the account's
identity, the bodies are those the Users page sends, and what one PATCH reads it reads at one instant.
`overlap` records that two handlers on accounts or links overlapped, or one died.

**WebSession** is one tab: `session`, `at` (a page followed by the address its `redirect` names), `going`
(where the router is on its way to), the calls under way and the guards and interceptor that answer
them. `Tab` is what the tab does by itself, `Server` what answers, `User` and `World` the rest.

**LiveTab** is one tab on a quotation or an approval: the page, the store's document, dirty edits, the
timer of `liveRefresh`, the joined room, frames on the wire, calls sent, served and answered in any
order. A deal is one document with the version and stage its quotation and approval share.

**Bell** has the rows of a user, handlers that push a row and count unread ones as separate jobs, and
tabs with badge, panel, loads and optimistic marks (`Drop` is any loss of a frame: a socket that is
down, a handler that dies after its commit). **Picker** is the search-and-select box, **ListPage** a
list screen with its debounced search, filter, paginator and form. **Negotiation** is the customer's
page: what they type beside lines, the request that carries it, late loads, the switcher to another
quotation. **DealHealth** has evaluations, nudges and escalations as reads and writes that overlap.
**Catalogue** has the product, plan and customer forms' requests, which may overlap and die between
the product and its opening stock.

## 3. What TLC checks

### Properties that hold

| Run | What it asks | Bounds | States |
|---|---|---|---|
| `deal` | are quotation, approval, order and score consistent, and do the screens keep every deal moving, requests one at a time | 2 quotations, 2 approvals, 2 orders, 2 terms, configurations MEDIUM / HIGH on the same terms, 7 writes each | 199,363 |
| `one_at_a_time` | do the split handlers, not overlapping, implement Deal; is the review real; do decisions reach their quotation | 1 quotation, 1 handler at a time that does not die, 2 terms, 2 configurations, 5 writes | 41,232 |
| `interleaved` | what survives any interleaving of two handlers that may die | 1 quotation, 1 term, 1 configuration, 2 handlers, 4 writes | 1,940,391 |
| `rules` | does a plan keep the planner's promises; what may the risk score depend on | 3 warehouses, 2 products, lines of 1 to 4 units, 3 stock counts; quotations of 2 lines, 6 discounts, 4 sets of ceilings | 173,268 |
| `inventory` | do units and reservations add up, in the documents and on the pages | 2 warehouses, 2 products, 2 orders, counts of one unit up or down, at most 2 and 1 units by a restock | 229,060 |
| `inventory_txn` | what do transactions that conflict and are retried keep of it | 2 warehouses, 1 product, 2 orders, 2 handlers at a time, 3 requests | 98,792 |
| `billing` | is anything billed twice, and do the pages follow the books | 1 order: of 2 units, or a weekly subscription of 2 periods; 3 dates, 2 handlers, 1 accident, 4 invoices, 2 credit notes | 822,784 |
| `access` | who gets in, and what a connection hears | 2 staff accounts and a customer's, 2 companies, 2 quotations, 2 links, 2 handlers, 4 writes | 584,255 |
| `live_tab` | is a tab left behind | 2 deals, 2 writes by others, 2 visits, 2 calls at a time | 1,607,634 |
| `web_session` | does navigation settle and lead back | 2 accounts, 1 link, 5 steps of users and the world | 512,910 |
| `parts` | bell, select box, list, customer's page, deal health, catalogue, prices: what does each keep whatever overtakes | `Parts.cfg`: 1 or 2 of everything, 2 to 5 steps of users | 1,504,198 |

**The deal.**

- **StageAgreesWithApproval**: a waiting quotation has a pending approval of its own that shows its
  current score; an approved one was approved or needed nobody; a rejected one was rejected.
- **OneApprovalPerQuotation**: no second approval of a quotation can be decided behind its back.
- **PendingStepsInOrder**: a pending approval always has one active step, those before it approved and
  those after it waiting, through returns, resubmissions, reopenings and re-scoring.
- **ScoreIsCurrent**: the loop of PUT /config leaves no open quotation with a score of an older
  configuration. (Not so once there is an order: see `confirmed_reopened`.)
- **OneOrderPerQuotation**: one order, of the confirmed terms.
- **ScreensServeTheDeal**: whatever is not finished appears in somebody's list, whose page offers a
  button that the API accepts; an approver is offered exactly the decisions the API takes from them.
- **ReviewIsReal**: with one handler at a time, whatever waits can be decided by an administrator, and
  while the configuration stays, a quotation the customer may confirm needs nobody or has an approved
  step for each role it needs - through returns, resubmissions, counter-offers and decisions of
  approvals left behind by a counter-offer.
- **EditReplacesWhatWasSeen**: with one handler at a time an edit replaces exactly the quotation its
  author was looking at.
- **ImplementsDeal**: nothing of a handler is lost or repeated between its accesses when it runs alone.
- **ReferencesHold**: because the code saves the referenced document first and stores a stage together
  with its reference in one save, no interleaving or crash leaves a reference to nothing or a confirmed
  quotation without its order. (`createOrderFromQuotation` relies on it when it looks for one.)
- **DecisionReachesQuotation** (liveness).
- **ReviewFollowsOverage**: an edit that only gives more away, or a ceiling that only goes down, never
  lowers score or level; price lists and splitting a line change nothing; eight points over are HIGH,
  and whole-number rounding auto-approves an overage only below a sixth of a point.
- **PricesAreTheServers**: every stored price is one the customer's list has asked; a tab without edits
  that holds the stored version shows the stored lines; what it submits is what was shown, unless
  somebody wrote the quotation since (a submission carries no version).

**Orders.**

- **PlanIsSound**: a plan fits free stock, what waits is exactly what all warehouses together lack, one
  warehouse (the preferred one) is used where one suffices, and lines stay whole where they can.
- **ShownUnitsAddUp**: through plans, replans, overrides and shipments a row reserves what the
  fulfillments still to ship hold of it (or more, once one was consolidated too early); allocation and
  backorder make up each line, and what counts as shipped is what the shipped allocations carried. The
  editor of the split shows this, and sending it back untouched changes nothing.
- **OffersFitTheOrder**: Ship is offered exactly when the API takes it, the consolidation banner stands
  over a coverable backorder, whoever is owed goods is listed, the status chip is true, and what has
  left can be billed and not be replanned.
- **OnlyWriteDownsOvercommit**: only a write-down makes a row promise more than it has. (It may:
  POST /stock/adjust looks at `inStock` alone, and a shipment then takes `inStock` below zero.)
- **ShippingIsFinal**: what has left is never planned again, and outside stock counts no unit appears or
  disappears, unless an override gave a line more than was ordered.
- **FreshIsSerial**: a handler whose documents nobody wrote does in its transaction what Inventory says
  it does alone. **OnlyStaleChecksOvercommit**: units are promised twice only by a handler that checked
  stock outside its transaction and lost a race for that row, or by a write-down.
- **Consistent**: counters, balances, schedules and references of the books, under any overlap or crash.
  **UnitsBilledOnce**, **BooksAreTrue**, **StoppedIsNotBilled**: without an accident no unit, period or
  payment counts twice, the lists, offers, steppers and next bill dates follow the books, and a paused
  or cancelled subscription is not billed.

**Access and pages.**

- **AnAdminRemains**, **TypedIsReplaced**, **OneLiveLink**: unless handlers overlapped or died. `TypeOK` of
  Access also says that only a customer has a company and that rooms are those of the identity.
- **TheConcernedHear**: a customer hears all deals of their company and nothing of another or of the
  staff; the staff hear orders, stock and thresholds, an owner their deals, the role the chain waits
  for its approvals - although rooms are given once and accounts change later.
- **NobodyIsLeftBehind**, **NewsArrives**: a quiet page shows what was announced or says that there is
  something newer, unless frames were missed, answers crossed or its user acted in another tab
  (`Excused`, whose comment names each).
- **NavigationSettles**, **SignInReturns**, **EndedMeansSignIn**: guards never circle, whoever signs in
  again comes back to the page they were on, an ended session ends at the sign-in screen.
- **NothingStrayShown**, **OpenBellHeals**: no row twice, no page that a list does not have, no answer to
  an earlier search in the select box; a user who goes on opening the bell ends with the server's rows.
- **RequestsSayItOnce**, **ActionsAreKept**, **CatalogueAgrees**: what a customer types beside a line
  reaches one line, once; overlapping managers and evaluations lose no action; price list follows tier,
  cycle follows subscription and opening stock is counted, where nobody overlapped or died.

**Fairness.** DealRequests' `FairSpec` has weak fairness of each handler's continuation: Node always runs
the continuation of a database call that was answered. LiveTab's: the server serves calls and emits
announcements, the browser runs its timers and callbacks. WebSession's: the router finishes what it
started and the server answers. Bell's: handlers end, frames arrive or their socket drops, requests are
answered or fail. Users, retries and faults are nowhere assumed to happen; `OpenBellHeals` takes as its
premise that the user goes on opening the panel and that calls stop failing.

**Why the bounds are enough.** Seven writes let a quotation be created, edited, submitted, returned,
resubmitted and decided, or countered within the limits while it waits, confirmed, reopened by the
approval left behind and brought to the point where a second order could be made: each mistake of the
*Fault* definitions is found within them. Under the two configurations of `deal` the same terms need
nobody, the sales manager, or both (the table in `GoldCustomer`), so a new one waives, lowers, raises or
leaves a review; two quotations show that each gets its own. Two approval and order ids are one more
than a correct quotation needs. Two interleaved handlers exhibit every lost update found; with more,
each pair behaves as two do (and `ReferencesHold` is proved for any number). `MaxVersion` bounds only
the writes of a quotation; when it and the ids are used up, PUT /config with the configuration that is
saved stays possible (`MayRescore` leaves one write for it), so these runs also check for deadlock.

Three warehouses are the fewest at which rank, weight and cost can all decide; lines of four units can
need two warehouses, all three, or more than there is, and the counts give each warehouse none, one or
two free units, or fewer than it has reserved. In `inventory` the orders compete for one product, and
the second has a line that starts on backorder: it can be split, accepted, overridden, shipped in part
and consolidated, before and after the other order takes the units it was planned with. With
`Transactions = FALSE` the run passes too. In `inventory_txn` the third request meets what two
overlapping ones left.

In `billing` two units are shipped and billed in two parts, two periods leave one to bill after a change
or a pause in the first, the dates are before, within and after it, and one accident is any one overlap
or death; more orders would share no document. In `access` one administrator and one manager are the
fewest who can switch each other off, the customer has two companies to move between, and four writes
create the accounts, change one and reissue a link. Two deals, visits and calls make answers, frames
and pages cross in `live_tab`; five steps lead a session through sign-in, a page, its end and back.
In `parts` each part gets as many actors as it takes to overlap (two administrators, managers, handlers
or requests) and two options, pages, rows, deals or lines. Runs that stop where their bounds are used
up (`billing`, `inventory_txn`, `access`, `live_tab`, `web_session`, `parts`) do not check for deadlock.

### Where code and documents disagree

`confirmed_reopened` expects a violation: enums/index.ts:45 calls CONFIRMED a stage in which "the deal is
finished", and a counter within the limits leaves a pending approval that is decided after the order
exists. The other sentences of the repository that the models refute are stated beside them, and
these configurations show a counterexample of each (TLC stops at the first: use `-continue`, or
comment out the others):

| Property | Sentence | What happens | Reproduce with |
|---|---|---|---|
| `ConfirmRespectsThresholds` | BUSINESS_RULES.md:429, risk is recomputed when a customer confirms | it is not | DealRefuted.cfg |
| `OffersAreAccepted` | enums/index.ts:20-22, the UI hides what "always 403s" | FINANCE is offered Save, Submit and Reissue | DealRefuted.cfg |
| `RequestsAreAccepted` | the customer's page offers Send | also on a confirmed or rejected quotation | DealRefuted.cfg |
| `OneOrderEach` | orders.service.ts:70, "Idempotent" | two conversions that overlap insert two orders | Interleaved.cfg with `MCTwoTerms`, `MCTwoTermsAssess`, `MaxVersion = 6` |
| `ShippedMeansAllLeft` | fulfillment.routes.ts:463, "Every allocated line has left the warehouse." | consolidating before shipping sets SHIPPED; the allocations stay reserved for good | Inventory.cfg |
| `ShipSendsSomething` | fulfillment-detail.page.ts:278, "Stock has left the warehouse" | Ship stays offered on a part shipment with nothing left to send | Inventory.cfg |
| `TheRestCanShip` | USER_FLOWS.md:1140, "the rest ships" | a restock never marks a partially shipped order (stock.routes.ts:63-67), which cannot be replanned either: it is stuck | Inventory.cfg |
| `ShippedHasLeft` | fulfillment.routes.ts:407 | a shipment retried after a conflict on the order counts units as shipped and does not take them | InventoryTxn.cfg (PROPERTY) |
| `AcceptedOnce` | fulfillment.routes.ts:218, "already been accepted" | two acceptances that overlap reserve twice | InventoryTxn.cfg |
| `PaidMeansInvoiced` | BUSINESS_RULES.md:346-347 | the order is PAID after any paid invoice (invoices.routes.ts:306-315) | Billing.cfg, also `MaxAccidents = 0` |
| `CreditsAreCovered` | BUSINESS_RULES.md:322, :339 | a later change drops an earlier, unbilled charge and its cancellation credits it | Billing.cfg, also `MaxAccidents = 0` |
| `NextBillIsAhead` | USER_FLOWS.md:1149 | the next bill date after the conversion is the one already billed (orders.service.ts:172) | Billing.cfg, also `MaxAccidents = 0` |
| `NoSocketWhenSwitchedOff` | server.ts:63-65 | a deactivated user keeps the connection | Access.cfg |
| `LinkHearsItsQuotation` | server.ts:9, a link "unlocks exactly one quotation" | it joins the company's room | Access.cfg with `CompanyOf <- MCOneCompany` |
| `LinkStaysOpen` | CREDENTIALS.md:40-46, USER_FLOWS.md:136 | the bell's 401 ends a guest's session (portal-shell.ts:11) | WebSession.cfg with `Spec`, `MaxSteps = 4` |
| `SignInAlwaysReturns` | USER_FLOWS.md:1023 | a mistyped password, or a second 401, drops the way back (api.interceptor.ts:43-44) | WebSession.cfg with `Spec`, `MaxSteps = 4` |
| `DecidesWhatIsShown` | approval-detail.page.ts:299-304 | the bell leads to another approval; until it is loaded the buttons decide that one, unseen | LiveTab.cfg with `Spec` |
| `NeverOverwritesWork` | quotation-detail.page.ts:493, "Never overwrite work in progress" | a late answer replaces edits | LiveTab.cfg with `Spec` |
| `PreviewNeverDisagrees` | quotation-builder.store.ts:36 | an added line is shown without the tier's list | PartsRefuted.cfg |
| `LimitsAreTheServers` | quotation-detail.page.ts:566 | limits are taken from the tier the page was loaded with | PartsRefuted.cfg |
| `AllPriceAlike` | pricing.service.ts:5-7 | a submission keeps prices, of an old list too | PartsRefuted.cfg |
| `FixedPriceIsAPrice` | pricelists.page.ts:79 | the form sends the percentage | PartsRefuted.cfg |
| `ThreadsStayWithTheirLine` | quotations.routes.ts:165, ids "collision-free even after lines are removed" | the last line's id is given again, with its thread | PartsRefuted.cfg |
| `ConfirmedAsPresented` | portal.routes.ts:552 | a confirmation carries no version | PartsRefuted.cfg |
| `RouteDrivesThePage` | portal-quotation.page.ts:239-242 | a late answer shows the other quotation | PartsRefuted.cfg |
| `NothingTypedIsDropped`, `NotesSaidOnce` | the page's drafts | what is typed during a request is dropped; a note is sent again | PartsRefuted.cfg |
| `EmptyTableIsEmpty`, `TableIsOfTheSearch` | list-query.ts:50 | stepping back loads nothing; a late answer of another search is shown | PartsRefuted.cfg |
| `FirstRowCanBeAdded` | warehouses.page.ts:45, plans.page.ts:46 | the dialog is part of the table an empty list does not show | PartsRefuted.cfg |
| `TilesCountWhatIs` | deal-health.page.ts:26, :44 | alerts are never resolved | PartsRefuted.cfg |
| `EscalationLands` | dealHealth.routes.ts:160-161 | the escalating manager is the recipient, and dropped | PartsRefuted.cfg |
| `StatusIsOfTheLastAction`, `FindingsNeverGoBack` | UI_SPEC.md:504-505 | overlapping saves | PartsRefuted.cfg |
| `NoStaleCycle` | products.routes.ts:265 | overlapping edits | PartsRefuted.cfg |
| `QuantityNeverDisagrees` | product-list.page.ts:202 | restocking leaves the product's quantity alone | PartsRefuted.cfg |
| `SubscriptionsAreCategorised`, `PlansBillSubscriptions` | product-list.page.ts:121, subscriptionPlans.routes.ts:56-60 | the product page changes either later | PartsRefuted.cfg |

Where no cfg lists the property, add it as an INVARIANT (or PROPERTY where the table says so, and for
those of LiveTab and WebSession) to the configuration named.

Seen while modelling, without a property of their own:

- PUT /config raises the risk of a pending approval and keeps its steps (config.routes.ts:158), so an
  approval opened at MEDIUM and raised to HIGH is completed without finance (BUSINESS_RULES.md:420);
  with overlapping handlers a decision that read before a rejection writes after it
  (BUSINESS_RULES.md:425, "Reject is terminal").
- The planner is greedy and may use more shipments than needed (warehouse.ts:9); an order completed by a
  consolidation stays CONFIRMED (fulfillment.routes.ts:552); the editor's copy of the split is not
  renewed by a live reload, and its warehouses are those of the first page of stock.
- A consolidation retried after a conflict joins the units twice, or throws on documents the first
  attempt changed; plans and overrides retried may leave a reservation behind.
- `available`, which stock.routes.ts clamps at 0 on a save and `$inc`s move later, is not always
  `inStock - reserved` as models.ts:175 says; nothing reads it to decide, and it is not modelled.
- `cancellationSettlement` does not clamp the days that remain (billing.ts:182-185); resuming bills the
  paused periods; monthly dates drift after the 31st of January; OVERDUE is never set, and its chip
  never counts; Modify and Cancel are offered for cancelled subscriptions.
- `SUBSCRIPTION_UPDATED` has no listener in the web application; plan, accept, override, pause, resume,
  modify and the billing run emit nothing; a customer moved to another company hears the old one
  until the next connection.
- The toast of a nudge says that the owner was notified, also when nobody was (deal-health.page.ts:139).
- A reconnected tab fetches and joins nothing again; the echo of another tab of the same user is ignored.

### What overlap and crashes break

Four properties of `one_at_a_time` hold because it leaves handlers alone. Changing one constant of
its configuration shows what each depends on:

| Property | Holds with | Violated with | How |
|---|---|---|---|
| `EditReplacesWhatWasSeen` (DECISIONS.md:158, no silent overwriting) | `Concurrency = 1` | `Concurrency = 2` | two PATCHes with one version are both accepted |
| `ReviewIsReal`, an administrator may decide what waits (approvals.routes.ts:141) | `Concurrency = 1` | `Concurrency = 2` | a late decision damages an approval that was reopened, and nobody can decide it |
| `ReviewIsReal`, what may be confirmed was signed off (USER_FLOWS.md:1104) | `Concurrency = 1` | `Concurrency = 2` | a final approval races a counter-offer |
| `DecisionReachesQuotation` (BUSINESS_RULES.md:423) | `Failures = FALSE` | `Failures = TRUE` | the process dies between the two writes |

Billing and Access state their properties for behaviours without an accident, which they count or mark
(`Calm`, `overlap`); without that premise each is violated: DECISIONS.md:164, "never double-bills", by
two runs of the schedule or one that dies between the invoice and the subscription; AnAdminRemains by
two administrators who switch each other off.

### What orders that repeat a product break

The builder's `addProduct` appends a line every time, so two lines of an order may be of one product.
The planner's first step and the acceptance compare each of them with the whole free stock. With
`MaxLines = 2` in `Rules.cfg` the promises of the planner are violated; in `Inventory`, a `Demand` of
two lines of one product violates `OnlyWriteDownsOvercommit` (a plan of two units is accepted where one
is free), and `LinesAddUp` and `UnitsAreKept` within the other two (consolidation looks a backorder up by
its product and ships both on the first line). `ReservedIsHeld` and `ShippedStaysShipped` still hold.

## 4. What is proved

Forty-six theorems, in seven modules that rest on the lemmas of `DealRecordsProofs` and their own. Each holds
for every value of the constants, so for any number of quotations, handlers, orders, accounts and so on.

| Module | Theorem | Statement |
|---|---|---|
| `DealProofs` | `DealInvariant` | `Spec => []DealInv` |
| | `TypeCorrect`, `ApprovalIsUnique`, `StageAndApprovalAgree` | its three parts |
| | `StepsStayInOrder`, `OrderIsUnique`, `ScoreStaysCurrent` | `[]PendingStepsInOrder`, `[]OneOrderPerQuotation`, `[]ScoreIsCurrent` |
| | `VersionMovesWithEveryWrite`, `RejectionIsTerminal`, `OrdersAreKept` | action properties `EveryWriteBumpsVersion`, `RejectedIsTerminal`, `OrderIsKept` |
| | `ScreensAlwaysServe` | `[]ScreensServeTheDeal` |
| `DealSettledProofs` | `RequestsInvariant`, `ReferencesAlwaysHold` | `[]RequestsInv`, `[]ReferencesHold`, whatever overlaps, fails or dies |
| | `SettledInvariant` | `[]SettledInv` |
| | `OneAtATimeIsDeal` | `SettledSpec => ImplementsDeal`: the refinement |
| | `NoEditIsLost` | `EditReplacesWhatWasSeen` |
| | `ReviewsAreReal` | `[]ReviewIsReal` |
| `BillingProofs` | `BillingStaysConsistent` | `[]Consistent`, under any overlap and crash |
| | `NothingIsBilledTwice`, `StoppedStaysUnbilled`, `BooksAreAlwaysTrue` | `[]NothingBilledTwice`, `StoppedIsNotBilled`, `[]BooksAreTrue`, for behaviours without an accident |
| | `UnitsAreBilledOnce` | `[]UnitsBilledOnce`, likewise, whatever the number of part shipments and invoices |
| `AccessProofs` | `AccessInvariant`, `AccountsKeepTheirSide`, `SomebodyIsInCharge`, `ResetIsFollowedByAChange`, `AReissueRetiresTheOthers` | `[]AccessInv` and its parts `TypeOK`, `AnAdminRemains`, `TypedIsReplaced`, `OneLiveLink` |
| | `ConnectionsHearWhatConcernsThem` | `[]TheConcernedHear` |
| `PartsProofs` | `PricingInvariant`, `QuotedPricesAreTheServers` | `PricingSpec => []PricingInv`, `[]PricesAreTheServers` |
| | `PartsInvariant` | `Spec => []PartsInv` |
| | `NothingStrayIsShown`, `RequestsAreSaidOnce`, `ActionsStay`, `CatalogueStaysInAgreement`, `PricesStayTheServers` | `[]NothingStrayShown`, `[]RequestsSayItOnce`, `[]ActionsAreKept`, `[]CatalogueAgrees`, `[]PricesAreTheServers` |
| `LiveTabProofs` | `LiveInvariant`, `NobodyStaysBehind` | `[]LiveInv`, `[]NobodyIsLeftBehind` |
| `OrderScreensProofs` | `StatusSaysWhereItStands`, `ScreensFollowTheOrder` | `[]StandingInv`, `[]OffersFitTheOrder` |
| | `PassFits` | a pass of the planner gives no line too much and takes no more than is free |
| | `GoodsAreAccountedFor`, `ReservationsAreHeld` | `[]GoodsInv`, `[](TypeOK /\ ReservedIsHeld)` |
| | `ShownUnitsDoAddUp`, `OnlyWriteDownsDoOvercommit`, `ShippedIsForGood` | `[]ShownUnitsAddUp`, `OnlyWriteDownsOvercommit`, `ShippingIsFinal`, of orders that name no product twice |

**Assumptions.** The named ASSUMEs of the modules, which TLC evaluates on every run: the assessment is a
function to risks, totals, prices and dates have their types, the markers of absence are not ids, roles or
documents (`NoneIsNoRole`, `NoneIsNoDocument` and the like), and the bounds of Parts are natural numbers
(`PartsAssumption`). Nothing is assumed of how many ids there are, of what an assessment or a price list says, of
the calendar, or of the demands and the opening stock. `OneAtATimeIsDeal`, `NoEditIsLost` and `ReviewsAreReal` have two
hypotheses that select the behaviours they are about: `Concurrency = 1` and `Failures = FALSE`, and
`ShownUnitsDoAddUp`, `OnlyWriteDownsDoOvercommit` and `ShippedIsForGood` have one, `ProductsOnce`: no two
lines of an order are of one product. Without them the statements are false (section 3).

**The deal, one request at a time.** `DealInv == TypeOK /\ OneApprovalPerQuotation /\
StageAgreesWithApproval`. None of the three is inductive alone. `TypeOK` is not, because a submission or a
counter-offer reuses the approval a quotation refers to, and without `StageAgreesWithApproval` that could
be absent. `StageAgreesWithApproval` is not, because a decision writes the quotation named in the
approval: only `OneApprovalPerQuotation` says that this quotation refers to that approval. And
`OneApprovalPerQuotation` is kept by a submission only because a draft that has an approval had it
returned, so that it is used again. Each action has a lemma per conjunct it can disturb; `SaveConfig`,
which writes many documents at once, is handled per quotation: at most one pending approval matches.
The other invariants are inductive relative to `DealInv`, the action properties follow from it in one
step, and `ScreensServeTheDeal` from it and `PendingStepsInOrder` by cases of the stage.

**Handlers, overlapping.** `RequestsInv` says what a handler holds at each of its labels - copies of
stored documents that still belong to the same quotation, or documents it is about to insert, which no
other handler inserts - and what is stored meanwhile. It needs little of the copies' contents: documents
are never removed and references never change owner (`Grows`), so what one handler relies on survives
every step of another. Late decisions may leave padded steps in an approval, so approvals are typed by
`PaddedApproval` here.

**The refinement.** `SettledInv` adds that at most one handler is under way and how far it has come
(`Progress`): which of the documents are already those of Deal's step from `settled`, which still
those before it, and that its copies are what is stored. A step that leaves a handler under way
changes nothing of `settled`; the one that ends it is shown, label by label, to be a step of Deal or a
stutter. So the theorems of DealProofs hold of the handlers too, as long as they do not overlap.
`NoEditIsLost` adds `TabsAreOlder`: a copy a tab holds is the stored quotation if the versions are equal,
because every write moves the version and none takes it back.

**Reviews.** `ReviewIsReal` says of the stored documents that an administrator may decide what waits and
that what may be confirmed was signed off. It is proved of Deal first. `ReviewInv` adds to `DealInv`
that, as long as the saved configuration stays what it is, a quotation shows the risk of its terms and, if
that needs somebody, waits on a step for each of those roles, and goes towards an order only when
each of them has approved. `ReviewsAreReal` then takes it to the split handlers: while nobody is under way the
stored documents are those of Deal, and while somebody is, `settled` is.

**Billing.** `BillingInv` holds under any overlap and crash: a handler's copies of counters never exceed
the stored ones (they only grow), its invoice is one of the store's, and balances of copies add up like
stored ones. From that `Consistent`. `CalmInv == Calm => Orderly` is about behaviours without an
accident: at most one handler is under way, its copy is what is stored, every invoice's payments were
counted once, and each subscription's schedule names, for each billed period, the invoice of that period
and amount, unless the handler under way is just about to write it. `PagesInv == Calm => Shown` adds that
an invoice bills lines of one kind, that INVOICED and PAID orders have their invoice, and when a
subscription has a next bill date. The three are checked by TLC on the whole state space of `billing`
(822,784 states), and so is `UnitsInv == Calm => UnitsCounted /\ CountersRead`, which is about sums: what
the invoices of an order bill of a line is what its counter records, plus, if a handler is between
inserting its invoice and saving the counters, what that handler is about to record. Nothing weaker is
inductive, because the counter alone says how much the next invoice will bill. A sum over a set is
`CHOOSE` applied to a recursive equation, and the library's theorems about such equations take an
operator as a parameter. `SumUnfolds` and `SumWithout` (a sum is any one of its summands and the sum of
the others) avoid that: they are proved with `WFMin`, which needs no such parameter, for a set of
subsets, on the strict subset ordering of the summands (`SubsetInduction`). From them a step that adds an
invoice adds its units (`AnotherInvoiceBillsMore`).

**Access.** `AccessInv` says that what a handler holds since it read is sound by itself: saved on the
accounts it saw, the result has an administrator and asks for a typed password to be replaced, and
the links a reissue saw are revoked when it inserts its own. Saved on anything else, it counts as an
overlap. `SidesInv` adds that links and connections belong to
customers or staff who stay on their side, which is what makes rooms given once remain right.

**Pricing.** `PricingInv` compares a copy - the tab's, the one a load brings, the one a call carries -
with the stored quotation: its version is not later, at the same version it has the stored lines,
and without edits the draft is those lines; every price, stored or held, was asked by the list.

**The parts that share no state.** A behaviour of Parts is one part's, so `PartsInv` is the conjunction of
an invariant for each, and a step of one leaves the others' alone.

- The bell (`BellInv`): what is on its way to a tab - jobs of handlers, frames, answers of loads, which
  come in any order - names rows that exist, and every answer lists each of them once; a frame about a
  new row reads the list at the moment it is sent, so a row that is shown is not put in front again.
- The search box (`PickerInv`): answers carry the number of their request; the one with the latest
  number is of the term on screen, and a later page follows the pages shown. The list screen
  (`ListInv`): the page is one of the pages the last answer counted.
- The customer's page (`PortalInv`). `ThreadInv`: an id has been given to at most one line, because the
  next number is above all that are there; `PageInv`: the page holds at most one write and one load
  for it; `TextInv`: a text is either a note or said beside a line; `SaidInv`: a draft that has been
  said belongs to the request that is under way. Only the last can fail, when an answer is lost.
- The board (`HealthInv`): an alert holds the actions that were saved, in order, and one that was acted on is
  not open; a request about an alert that was not open when it was read finds it so when it writes.
- The catalogue (`CatalogueInv`): what each request holds of its product or customer, which of them may be
  about the same one (`ApartInv`), and for a product nobody has touched since, that its stock rows are
  either not written yet or sum up to its quantity. The sum is a function of the rows, so no induction
  over it is needed.

**Live pages.** `LiveInv` looks at the last call under way whose answer will replace what is shown (`Final`).
As long as nothing was missed and nothing overtook anything, what that answer carries - or what is
shown, if no such call is under way - is at least as new as everything the page is due (`PageInv`): the
version announced of its deal and those the tab has written and the server has yet to announce. The
latter are needed because a tab ignores the frames of its own writes. Otherwise there is a
warning: the dialog, a dismissed dialog, an error, the timer of a burst, or a frame of somebody else on the
wire. A call is served from what is stored, and nothing is announced before it is stored (`ServerInv`); it
becomes the last answer only if no later one has been served, which `CallsInv` says: while
everything is in order the served calls come before those only sent. Looking for this invariant showed
that the answer to a decision withdraws an error that an earlier load left on the page, although nothing
has been loaded yet; the page then counts as one that missed news (`Excused`), as when an answer
withdraws the dialog.

**Order pages.** `StandingInv` says what each status of a fulfillment means (what is reserved, what is on
backorder, what has left) and that a fulfillment that can be replanned has had nothing shipped.

**Goods.** `GoodsInv` adds quantities to it, per order line and per row of stock. Of a line: what counts as
shipped is what the allocations marked as shipped carried, up to what was ordered, and its backorder
is what the allocation lacks. Of a row: beyond what was reserved at the start it reserves what the
fulfillments still to ship hold. Neither half is inductive alone. A replan gives back the units a
fulfillment is said to hold, which keeps the row right only if what it holds is what it reserved; a
shipment counts what its unmarked allocations carry, which keeps the line right only if the marked
ones were counted before. Once a fulfillment was consolidated with allocations left behind
(`LeftBehind`) the row reserves more, and the line counts less. Where an order names a product twice, a
consolidation gives one line what another waits for, so the backorder of a line is only claimed there until
the fulfillment is SHIPPED; what rows reserve is right all the same (`ReservationsAreHeld` needs no hypothesis).
TLC finds `GoodsInv` true in all 229,060 states of `inventory`, and in 73,192 of a variant whose order names
a product twice.

Each step moves one order, so it is enough to compare what that order's fulfillment holds before and after
with what the row reserves (`GoodsMove`), and, for `ShippedIsForGood`, what leaves the rows with what its
lines are sent: both are the sum of one table of warehouses and lines, by rows and by columns
(`SumsSwap`). The lemmas about sums are those of BillingProofs, stated again because the two modules
are about different variables. The first plan and the replans rest on `PassFits`: the two passes of the
planner are a fold over a set of visits, taken in the order of `Earlier`, and what holds of the fold is
shown for every subset of the visits, from the smaller ones to the larger (`PassUnfolds`,
`SubsetInduction`).

**Only model-checked.** Liveness, which the proof system does not handle (nor ENABLED):
`DecisionReachesQuotation`, `NewsArrives`, the properties of WebSession, `OpenBellHeals`. The risk engine
(`ReviewFollowsOverage`), whose folds run over sequences, and of `PlanIsSound` what goes beyond `PassFits`: that
a plan leaves nothing waiting that a warehouse has, and which warehouse it prefers. InventoryTxn's
properties, which compare a handler's step with Inventory's over retries. WebSession has no proofs.

## 5. Not modelled, and the plan

Not modelled: audit rows and negotiation history (written last, never read back to decide), reports,
upsell and the preview computations (read-only), credit notes beyond what Billing needs of them, the
billing and deal-health settings of the configuration as variables (they are constants), switching a
warehouse off while it holds stock, editing plans and the other fields of customers, DTO types and
validation schemas, file formats, hashing and JWT signing, seeding, the rendering of pages. The map of
`PROJECT.json` covers about 30 % of the repository's implementation lines; the rest is mostly the pages'
templates, type declarations, seeds and reports.

What further work would bring most:

1. **Overlapping fulfillment.** An invariant of InventoryTxn's snapshots and retries, from which
   `FreshIsSerial` and `OnlyStaleChecksOvercommit` would follow from the theorems about Inventory.
2. **Liveness beyond TLC's instances**, once the prover handles it: `DecisionReachesQuotation` first.
