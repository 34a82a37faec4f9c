# A verification project for HexProcure

HexProcure is a procure-to-pay server (Next.js, PostgreSQL through Drizzle).
This directory holds TLA+ models of its services, TLC configurations that check
them on small instances, and theorems that TLAPS proves for every instance.
`PROJECT.json` lists components, runs, mutants, findings, hazards and theorems,
and maps every definition to the lines it models. Paths below are relative to
the repository's `src/lib/` unless they start elsewhere; `p2p/` stands for
`services/p2p/`, `master-data/` for `services/master-data/`.

## 1. The system

A requester creates a requisition and submits it, or a template generates it;
approvers decide the steps of its approval chain; a manager turns the approved
requisition into a purchase order (PO), which reserves budget and is mailed to
the supplier; goods and services are received; an invoice is entered, often from
an uploaded document, matched against order and receipts, and approved. Every
change is a database transaction at READ COMMITTED; some of them store an event
in an outbox, which dispatch runs deliver to connectors (QuickBooks, webhook,
CSV, e-mail).

| Component | State | Operations | Hard behaviour | What makes it correct |
|---|---|---|---|---|
| Three-way match (`src/domain/matching.ts`) | none | `matchInvoice` | several lines on one order line, tolerances, service amounts | the verdict is that of the invoice as a whole |
| Invoice intake (`components/InvoiceForm.tsx`, `invoice-draft.ts`, `domain/invoice-lines.ts`) | the form's draft, extractions under way | choose order, upload, apply, edit, submit | an answer arrives after the form moved on | a draft bills what its source says |
| Fulfilment (`p2p/receipts.ts`, `p2p/invoices.ts`, `cancelPurchaseOrder`) | order status, receipt lines, invoices, reservation | add receipt; create, match, approve invoice; cancel | concurrent calls on one order; reads before the order's lock | nothing billed beyond what came in; budget released only for what was never spent |
| Requisitions and approvals (`p2p/requisitions.ts`) | requisition status, approval rows, events | submit, decide | two approvers at once, decisions out of sequence, no lock at all | the outcome follows the decisions |
| Approval rules (`src/domain/approval.ts`, `master-data/approval-rules.ts`) | rules with bands and escalations | create, update, archive; chain of an amount | two edits at once, bands that touch | the active rules always yield a chain, one band decides |
| Ordering and budgets (`p2p/purchase-orders.ts`, `master-data/budgets.ts`, `src/domain/budget.ts`) | orders, reservations, budgets, month | order, cancel, create (restore), update, archive budget | budget checked and edited at once; lock order | money is not spent twice; an open order has its reservation |
| Outbox dispatch (`integrations/dispatch.ts`, `scheduler.ts`) | events with attempts and delivered connectors, runs in memory | select, call, record, settle | overlapping runs, lost answers, crashes, partial failure | delivered means accepted by all; given up means hopeless; everything settles |
| QuickBooks connector and connection (`integrations/qbo-*.ts`) | tokens, connection status, sync map | deliver, refresh, revoke, disconnect, reconnect | check, POST and insert are three steps; token rotation; consent withdrawn | one document per event, one vendor per supplier, the newest token kept |
| Recurring orders (`services/recurring.ts`) | templates, next run date | create template, generate due | two callers generate the same template; months of unequal length | every date exactly once |
| Suppliers and cost centers (`master-data/*.ts`) | rows with a unique active name | create, update, archive, CSV import | import beside edits; reads before transactions | archived rows stay; references are to active rows |
| PO sending (`services/po-document.ts`, `db/index.ts`) | audit, mail, pool of connections | `sendPurchaseOrder` | mail inside a transaction; reads beside it through one pool | no cancelled order is sent; every call ends |
| Sessions, tokens, attachments (`services/sessions.ts`, `api-tokens.ts`, `attachments.ts`) | rows, files | log in, identify, revoke, purge; upload, read, delete | revocation between check and use; file and row apart | a dead credential does not act; files match rows |
| Request guards (`api/request-guards.ts`) | in-memory counters | rate limit, login limit | the stores at their limits; the check around a password check | limits hold; nobody is throttled for another |

Interactions. Requisition status is written by approvals *and* by ordering and
cancelling. Orders, receipts, invoices and cancellation meet at the
`purchase_orders` row, whose `FOR UPDATE` lock orders them; ordering, and the
edits of a budget, meet at the `budgets` row. Services and dispatcher meet only
through `integration_events`. Chains are computed from the rules at submission
and then stored as approval rows. Templates and requisitions refer to suppliers
and cost centers that are edited meanwhile. Sends and all other calls meet at the
connection pool.

## 2. How the code became TLA+

* **A call is a transaction, cut where another call can be seen**: what it reads
  without a lock, what it reads once it holds a row, and its commit, which publishes all
  its writes and releases the row. Where no transaction is held (connectors,
  attachments, log-in), a call is cut at every await. A call in progress is a record with
  a `phase`. `*Read` actions are unlocked reads, `*Lock` actions take a row lock
  and evaluate the checks made under it, `*Commit` and `*Write` actions write.
  Calls that read nothing stale before their writes are single actions.
* **Abort** (or `Fail`) ends a call in progress: a thrown `DomainError`, a lost
  connection, a crash, the victim of a deadlock. In a transaction it is a rollback; elsewhere what was done stays done.
* **Documents** do not change once stored, so contents of invoices and receipts are
  constants (`Doc`, `Delivery`); what varies is their status.
* **Left out**: audit rows (but for those of sends), logging, messages, document numbers, users beyond
  role and identity. A rule's sequence number is present only as the tie it may break.
* **Variables that the program does not have** are marked `history` or `external`
  where they are declared. History: `peak` (largest amount a budget was ever given), `raced`
  (two calls, or two runs, had the same row in hand), `tangled` (a stored token was overtaken by another call's), `lost` (answers
  that were not recorded), `overtaken`, `unaudited` (sends), `torn` (attachments of a request that failed half-way),
  `met` (rows of a call that others had in hand), `since`, `drafted` (dates of templates), `admitted`, `spilled` (limiter), `basis` (source of a draft),
  `refused`, `unsure` (answers of connectors). External: `accepted`, `docs`, `vendors`, `intuit`, `mailed`. No guard reads a history variable,
  but for the bound `MaxRequests` on `admitted`;
  a property that exempts what raced or was lost thereby says exactly what the code does not guard against.
* **Counters that a guard caps**: `MaxFaults` (failures and crashes), `MaxRefresh`, `MaxVendor` (`QboSync`), `MaxTime` (`RequestGuards`,
  `Access`), `MaxRequests` (`RequestGuards`), `MaxEdits` (`Catalogue`), `MaxCalls` (`Sending`), `MaxProposed` (lines of an
  extraction). The unbounded originals are attempts, refreshes and the clock; nothing else is cut.

| Module | Models | Uses |
|---|---|---|
| `Totals` | sums over finite sets, as the cardinality of a set of units, so that no recursion is needed | |
| `ThreeWayMatch` | `matchInvoice` as operators: `ExamineLine` folded over lines | `Totals` |
| `InvoiceIntake` | the form, the extraction's lines (rounding, finding the order line, totals that disagree), submission, match | `ThreeWayMatch` |
| `Fulfilment` | `addReceipt`, `createInvoice`, `matchInvoiceById`, `approveInvoice`, `cancelPurchaseOrder` | `ThreeWayMatch` |
| `OrderLedger` | the abstract promise: per order line, what may be billed and what is billed | |
| `ApprovalFlow` | `submitRequisition`, `decideApproval`, and what ordering and cancelling do to a requisition | |
| `ApprovalRules` | the rule-set check, `resolveApprovalChain`, create, update, archive under the table lock | |
| `Ordering` | `createPurchaseOrder`, `cancelPurchaseOrder`, all edits of budgets, month ends | `Totals` |
| `OutboxDispatch` | `dispatchPendingEvents` and `deliverToPending`, runs in parallel | |
| `QboSync` | one delivery to QuickBooks: health check, sync map, token and its refresh, vendor, POST, record; connect, callback, disconnect, withdrawal | |
| `Catalogue` | suppliers and cost centers: create, update, archive, import, under the unique index of active names | |
| `Recurring` | templates, requisitions made by hand and generated, cadences | `Catalogue` |
| `RequestGuards` | a limiter store (for API routes, for authentication, or for failed logins): hit by class of request, sweep, eviction, overflow; login attempts | `Totals` |
| `Access` | log-in, identification, handler, log-out, revocation, purge; API tokens | |
| `Attachments` | upload, read and delete within the requests of `Access` | `Access` |
| `Sending` | `sendPurchaseOrder` and the pool | |
| `*Proofs` | theorems: `FulfilmentProofs` (on `InvoiceIntake`, too), `OrderingProofs` (on `Sending`, too), `ApprovalFlowProofs` (on `ApprovalRules`, too), `OutboxDispatchProofs`, `QboSyncProofs`, `RecurringProofs` (with `Catalogue`), `RequestGuardsProofs`, `AttachmentsProofs` (with `Access`) | the module named |
| `MC*` | constants for TLC | the module named |

Compositions. `Recurring` runs `Catalogue`'s actions beside its own, `Attachments` those of `Access`; both
share the variables. `Fulfilment` takes the invoice's verdict as the summary (`Summary`, `WithinLimits`)
that the run `match` shows `matchInvoice` to be equivalent to; it is the same
operator, so the two models cannot drift apart. `Ordering` and `ApprovalFlow` each
take the other's effect on the requisition as an action (`Decide`;
`CreatePurchaseOrder`, `CancelPurchaseOrder`) without the other's detail; `Sending` takes closing and cancelling the same way.

## 3. What the runs check

No state constraint cuts a behaviour off: documents, orders, events and rules are finite sets, and each
is created once. Deadlock is not checked where an instance ends when its
documents, orders, events or counters are used up (only `recurring` never ends).

Passing runs:

* **match** (`MCThreeWayMatch`, module `InvoiceIntake`). Two orders with goods, a service and a second goods line; two
  uploads at a time whose answers have up to three lines, among them halves of a unit, unreadable prices,
  totals that disagree, lines found by name or by size only; edits; and every posted invoice of up to two
  lines with prices within, at and beyond the tolerance (50, 51, 52 against 50) for every receipt and prior total.
  `MatchedIffTotalsFit`: the running totals decide exactly as a check of the whole invoice would.
  `DraftBillsExtraction`: a draft written from an extraction bills what it says, and an answer for another order bills nothing.
  `PrefilledDraftMatches`: an untouched draft of a fully received order passes. Two posted lines are
  enough for a running total to matter: an order line sees at most an earlier and a later line.
* **fulfilment** (`MCFulfilment`): two concurrent calls; one order with three
  goods and a service, another with one good; four invoices, among them two that compete for
  goods and service, one that re-uses a number and one that bills a line of another order.
  `NeverOverbilled`, `ChecksStayTrue` (what was checked under the lock holds until the commit), `ClosedExactlyWhenReceived`, `SpendIsReserved`,
  `CommittedStays`, and `ImplementsLedger`: the refinement of
  `OrderLedger`. All races here are between two holders or readers of one row, so two calls suffice; a third
  call could only repeat one of their positions.
* **approvals** (`MCApprovalFlow`): two requisitions, one with two possible chains (the rules were
  edited before it was submitted), three calls. `OutcomeFollowsDecisions`: as long as calls on a requisition
  come one at a time, in whatever order steps are decided and whatever is ordered
  or cancelled meanwhile, the status follows from the decisions and was announced. It excludes
  requisitions on which two calls raced, because the code takes no lock: see section 6.
  `NothingOrderedUndecided` holds under every race of decisions; one of the three calls submits, because two submissions of one draft insert the chain twice.
* **ordering** (`MCOrdering`): two requisitions that do not fit a budget together,
  two months, two orders, two calls. `NoDoubleSpend`, `ReservedWhileOpen`. Amounts 2 and 3 against costs 1 and 2 make each budget hold one, either or both.
* **rules** (`MCApprovalRules`): three rules, two currencies, amounts 0 to 2, so bands
  touch, overlap, nest and leave gaps; two concurrent edits. `RulesStayUsable`,
  `UpperBandDecides`, `ArchivedForGood`. An overlap needs two rules; the third
  is the one in the other currency, or the escalation.
* **dispatch** (`MCOutboxDispatch`): an event that no connector handles and one
  with two connectors, two overlapping runs, two faults at any point.
  `DeliveredWasAccepted`, `AcceptedOnce`, `GivenUpWhenHopeless`, `SettledForGood`, and the liveness
  property `EventuallySettled`. Two connectors give every mixture of success, failure and
  refusal; two faults are enough for a failed retry of a crashed call.
* **qbo** (`MCQboSync`): one event, two deliveries at a time, two companies that consent one after the other, one refresh that
  falls due, one failure, crash, rename or withdrawal at any await. `OneDocument` and `OneVendor` (the stored vendor row wins),
  `TokenIsNewest`, and the liveness property `SettledWhileConnected`. Two deliveries are what two dispatch runs can
  do to one event; the second company is what a late answer of the first can damage.
* **guards** (`MCRequestGuards`): each of the three stores in turn, with three clients and room for two keys, so eviction, sweep, overflow and the
  last resort all happen; two logins at once. A window of two in a time of two (`MaxTime`) lets hits leave it, and five admitted requests
  (`MaxRequests`) fill both keys and an overflow. `KeysAreBounded`, `LimitHolds`, `OnlySelfThrottled`, `FailuresBounded`,
  `LighterKept`. Limits of two reads and one mutation let one counter be below, at and above each of its limits, and a mixture
  be admitted by one class and refused by the other; the original limits (300, 60 and 10) differ only in size.
* **recurring** (`MCRecurring`): two callers, a monthly and a quarterly template that start on 31 January, a supplier that may be renamed, archived and
  replaced by imports of one and two lines, one cost center, two edits. `NothingSkipped`, `TwiceOnlyInRaces`, `ArchivedIsFrozen`,
  `ImportTakesEffect`, `RefersToActive`. A start on the 31st reaches the clamp to a shorter month at the first step.
* **access** (`MCAttachments`): two requests, two credentials, an administrator and a user, a clock that passes expiry and purge,
  one attachment, one failure. `ActsByLiveCredential`, `RefusedOnlyWhenDead`, `FilesMatchRows`.
* **sending** (`MCSending`): a pool of two connections, two sends of two orders and one other call, three reads per document,
  one failure. `SentWhileOpen`, and the liveness property `CallsEnd`: it names the one situation in which calls wait for ever, which TLC reaches.
  A pool of ten deadlocks with ten sends as one of two does with two.

One run TLC finds violated, against a line of the repository's own documentation:

* **approval_stuck** (`MCApprovalStuck.cfg`): `EveryStepApprovedAdvances`. Two approvers of the last two steps at
  once: neither count sees the other, and the requisition stays SUBMITTED with every step approved
  and nothing left to decide (`p2p/requisitions.ts:160-169`; `docs/functional-spec.md:32`).

Each property of a passing run has a mutant in `PROJECT.json`: a plausible bug in a mapped definition (a
lock ignored, a status forgotten, a release left out) with which TLC finds the
property violated. The mutants stand beside the definitions they replace.

## 4. Fairness

Liveness is claimed where a process, not a person, has to go on; people's steps have no fairness and only safety is claimed of them.

* `OutboxDispatch`: weak fairness of `Step(d)` for each dispatcher. The scheduler's timer starts runs for as long as the process lives
  (`integrations/scheduler.ts:6-22`), the deployment guide adds an external cron call, and what a run waits for,
  a connector's answer or the database's, comes in the end, as success or as failure. A
  crash is not obliged to happen and happens finitely often (`MaxFaults`), nor is an event
  obliged to be published.
* `QboSync`: weak fairness of `Step(d)` for each delivery. It is called again while its event is open (what `OutboxDispatch`
  shows of its attempts), and each HTTP call and statement ends. Consent, withdrawal, disconnection and failures have none, so
  `SettledWhileConnected` assumes a connection that stays.
* `Sending`: weak fairness of `Step(c)` for each call that has what it needs: PostgreSQL answers, the mail transport has time
  limits. A call that waits for a connection is served when its turn comes and one is free, which is part of the guard
  (`Connect`) and not assumed: that is what makes the deadlock of sends visible.

## 5. What is proved

`tlapm` checks every theorem for arbitrary sets of orders, lines, invoices, requisitions,
budgets, rules, events, connectors, credentials, users and concurrent calls, under the named assumptions of
the modules (finite sets of documents, typed constants, an order has a line).

* **FulfilmentProofs**: `TypeCorrect`, `CommittedSpendCovered` (`[]NeverOverbilled`)
  and `LockedChecksHold` (`[]ChecksStayTrue`). `NeverOverbilled` is not inductive: a match
  commits on the strength of a verdict computed earlier. The invariant therefore adds `LockExclusive` (one
  holder per order row) and `ChecksStayTrue` (a held verdict is still the verdict now). A step of another call keeps the
  verdict because every write that could change it needs the same lock; what remains is arithmetic
  of finite sums (the laws of `Totals`, proved in the modules that use them): adding an invoice to a set adds what it bills.
* **FulfilmentProofs**, second part: `OrdersCloseInTime` (`[]ClosedExactlyWhenReceived`), `ReleasedIsUnspent` (`[]SpendIsReserved`),
  `CommitmentsStay` (`CommittedStays`) and `ServicesImplementLedger` (`ImplementsLedger`): every step of every call maps to a
  step of `OrderLedger` or a stutter. The invariant adds that lines with received quantity have a receipt, that a cancelled
  order has no receipts and no committed bill, and that a committed invoice is clean and so passes its match again.
* **FulfilmentProofs**, third part, on `ThreeWayMatch` and `InvoiceIntake`. `MatchIsOfTheWhole`: for every order, every prior and
  received quantity and every invoice of whatever number of lines, `matchInvoice` finds no discrepancy exactly when the invoice's
  totals per order line fit. What the loop knows after `k` lines (`Known`: the bad lines so far, and per order line the sum of the first `k`)
  is shown for every `k` by the least one that fails (`SetInduction`); that turning a set of lines into an array loses none
  (`SetToSeqEnumerates`) is shown the same way. `MatchedIffTotalsFitHolds` follows for what the form stores (`FormInv`, `StoredInv`: what is posted
  passes `validateInvoiceLine`); `DraftBillsExtractionHolds` and `PrefilledDraftMatchesHolds` from `DraftInv`, which ties the lines of an
  untouched draft to the order or the upload it was made from.
* **OrderingProofs**: `TypeCorrect`, `BudgetNotOverspent` (`[]NoDoubleSpend`), `RoomIsKept`
  (`[]HolderHasRoom`, not among the runs' properties because it is a step of the argument), `ReservationsMatchOrders` (`[]ReservedWhileOpen`). The invariant adds
  `LockExclusive`, `ReadsWereGiven` (an amount a call has read is one the budget was given, so at
  most `peak`) and `BudgetsBelong` (a call holds a budget of its requisition's cost center). It shows why
  overspending is bounded by the *largest* amount given, not by the current one (section 6).
* **OrderingProofs**, second part, on `Sending`: `SendsMailOpenOrders` (`[]SentWhileOpen`). A call that goes on to its mail has read an open order, or the
  order was cancelled since and the history says so (`OpenOrOvertaken`); and the mails of an order are its audit rows, the sends that failed after the mail and the calls
  that are between mail and audit (`MailsAddUp`).
* **ApprovalFlowProofs**: `TypeCorrect`; `OrderedIsDecided` (`[]NothingOrderedUndecided`, if submissions come one at a time) and
  `OutcomeFollows` (`[]OutcomeFollowsDecisions`). There is no lock to lean on. Under races a count that was complete
  stays complete, because a decision is never undone and a submitted requisition gets no further steps (`CountsHold`,
  `SubmittedOnce`). Without races, everything a call has read still holds (`CallsSound`), and the status, the announcements
  and the order of a requisition agree with its rows (`StateSound`).
* **ApprovalFlowProofs**, second part, on `ApprovalRules`: `RulesTypeCorrect`, `RulesUsable` (`[]RulesStayUsable`),
  `BoundaryIsUpper` (`[]UpperBandDecides`), `ArchivedStays` (`ArchivedForGood`). The invariant
  adds `LockExclusive`, `HeldFits` (what the holder of the table lock checked still fits) and
  `RuleKnown`. With bands that overlap at most in a boundary, two distinct bands contain an amount
  only as upper and lower neighbour.
* **OutboxDispatchProofs**: `DeliveriesAreReal` (`[]DeliveredWasAccepted`), `GivenUpIsHopeless` (`[]GivenUpWhenHopeless`),
  `TakenOnce` (`[]AcceptedOnce`), `SettledStays` (`SettledForGood`). A run works on the copy of an event it selected; the
  invariant says of every copy and every answer in a run's memory that what it claims was accepted or refused indeed was,
  and, for events two runs never shared, that the copy is exact (`CopiesAreExact`) and has one owner (`OneOwner`).
* **QboSyncProofs**: `QboOneDocument` (`[]OneDocument`), `QboOneVendor` (`[]OneVendor`), `QboTokenIsNewest` (`[]TokenIsNewest`). The invariant says,
  phase by phase of a delivery, what it may rely on after its last await: that the company it was granted is that of its token (`GrantInv`), that a document
  exists only where a row, a delivery about to write one, or a lost answer says so (`DocumentInv`), the same of vendors (`VendorInv`), and that a stored token that is
  not the newest is in the hands of a delivery about to replace it, or tangled, or lost (`TokenInv`).
* **RecurringProofs**, on `Recurring` with `Catalogue`: `NothingSkippedHolds` (`[]NothingSkipped`) and `TwiceOnlyInRacesHolds` (`[]TwiceOnlyInRaces`): a
  template's dates are drafted up to, and not including, its next run date, but for the one a generation has drafted and not yet moved past (`CadenceInv`), and
  a date twice drafted is one of a template two generations held (`RaceInv`). `RefersToActiveHolds`, `ArchivedIsFrozenHolds` and `ImportTakesEffectHolds`: what a call has
  read of a row still holds unless another call met that row (`ReadInv`, `ImportInv`), by a lemma on whose step writes which rows (`RowsWrittenBy`) and one on the history
  `met` (`MetInv`).
* **RequestGuardsProofs**: `KeysAreBoundedHolds`, `LimitHoldsAlways`, `OnlySelfThrottledHolds`, `FailuresBoundedHolds` (the four invariants) and
  `LighterKeptHolds` (`LighterKept`), all from `GuardsIInvHolds`, for any limits of the classes. What the functions of a store do is proved for any store: evictions, sweeps and
  clearings only take counters away (`Shrunk`) and keep the live ones (`LiveKept`), what a request finds is the store but for those and an empty
  counter or overflow (`Ready`), and what a failed login finds lacks a live pair only of a heavier client (`Admits`). The invariant is not
  about the current window alone, since a window moves: for *every* start `t` not yet left behind, a counter has at most as many hits since `t` as its
  client had admissions (`HitsInv`), and a client that never spilled has at most as many admissions under a key as the key's counter has hits
  (`CountsInv`). A tick keeps both, as it leaves fewer starts. Such a client's admissions of a path keep, in every window, to the limit of each class and
  to one of the limits in all (`PathsOK`): a request of a class passes only while the counter, which has all of them, is below the class's limit.
  For logins, each one that has looked at a counter and not yet raised it is worth
  one failure (`FailuresInv`).
* **AttachmentsProofs**: `OnlyLiveCredentialsAct` (`[]ActsByLiveCredential`), `RefusalsAreDeserved` (`RefusedOnlyWhenDead`),
  `FilesAlwaysMatchRows` (`[]FilesMatchRows`). A purge takes only what has long expired, and a credential once dead stays dead.

Assumptions on constants, beyond types and finiteness. Orders, receipts and earlier invoices have no negative quantities, and an extraction's
answer no negative prices (`IntakeAssumption`: `parseAmount` yields none); what a user types may be any integer, and that stored lines are natural numbers follows from
`validateInvoiceLine` (`p2p/invoices.ts:26-46`). `None`, the absent date, token,
company or list of hits, is none of the values it stands beside (columns that are null or typed, entries a map lacks). Templates start on dates. Callers, senders and logins in progress are finite
sets: a server runs finitely many calls at a time.

Only model-checked is what is out of the prover's reach: liveness under fairness (`EventuallySettled`, `SettledWhileConnected`,
`CallsEnd`) and `ENABLED`. The library's induction theorems take an operator and cannot be instantiated; where a fact about
sequences of any length is needed, the recursion is a function on an interval and the step is taken at the least element of the set of
exceptions.

## 6. Observations

What writing the models showed. The models contain each of the races below; the properties of the passing runs exempt exactly
them. Of what is exempt, no property says more: in particular `TokenIsNewest` (overlapping refreshes), `RefersToActive`, `ArchivedIsFrozen` and
`ImportTakesEffect` (rows of two calls), `FilesMatchRows` (a failure between file and row), `SentWhileOpen` (an order overtaken while it is sent),
`OneDocument` and `SettledForGood` (an event of two runs) and `CallsEnd` (a pool that is all waiting) do not bound what a race, or that failure, leaves behind.

Approvals and ordering
* Two decisions of one step overwrite each other, and a rejection of another step that commits between the count and the write of the
  last approval is lost: APPROVED with a rejected step (`p2p/requisitions.ts:112-170`; `docs/functional-spec.md:51`: "Reject on any step rejects the
  requisition").
* Two submissions of one draft insert the chain twice (`p2p/requisitions.ts:21-36`). Any undecided step of a chain may be decided, in any order; `OutcomeFollowsDecisions` holds nevertheless.
* The budget's amount is read before its lock: an order can be placed against a budget lowered or archived meanwhile
  (`p2p/purchase-orders.ts:162-169`, whose comment claims to guard it; `docs/architecture.md:74`).
* Restoring an archived budget may change its currency under live reservations (`master-data/budgets.ts:66-72`), though it is "fixed once reservations may exist" (`:28`).
* `cancelPurchaseOrder` stores no event (`p2p/purchase-orders.ts:198-229`), while `README.md:66` lists `PO_CANCELLED`.
* `docs/api-contract.md:32` lets any authenticated user order; the code requires MANAGER, FINANCE or ADMIN.

Invoices
* A re-match reads the invoice's status before it has the order's lock; an approval in between is overwritten with MATCHED, and the invoice
  can be approved, and exported, a second time (`p2p/invoices.ts:257-294`; "Approved invoice cannot be re-matched").
* An extraction's answer for an order that is no longer chosen sets every quantity of the new draft to zero, and of several extracted lines for
  one order line only the last counts (`invoice-draft.ts:51-60`). `parseAmount` always scales by 100, whatever the currency.

Integrations
* Events that no connector handles keep zero attempts and come first in every batch: as many as a batch holds starve all others
  (`integrations/dispatch.ts:60-78`; the comment there says the order is to prevent starving). In `dispatch` batches are large enough.
* Two overlapping runs may call a connector twice, and a late failure undoes DELIVERED or FAILED. `docs/deployment.md` asks for
  a single scheduler but keeps the cron call as a fallback. `docs/functional-spec.md:106` says the last registered connector wins; the code delivers to all.
* 401 and 403 on a document are answered as not retryable (`qbo-connector.ts:182-185`), so the event is given up, where
  `docs/qbo-live-spec.md:153` has events of a revoked connection stay PENDING. Any failed refresh, a 5xx included, marks the connection EXPIRED (`qbo-connection.ts:150`).
* The vendor map is kept per supplier, not per company (`qbo-connector.ts:74-76`): after a new consent to another company the old vendor's id is
  used. `OneVendor` speaks of one company's documents.
* A refresh in flight restores the tokens a disconnection wiped, or overwrites those of a new consent (`qbo-connection.ts:158-168`; `docs/qbo-live-spec.md:92`, `:155`);
  a late authentication failure revokes the connection made meanwhile (`:173-177`). Two first callbacks at once may insert two connection rows.
* The existence check of a CSV file and the append are two steps: two deliveries may write two header lines (`csv.ts:115-117`).

Recurring orders, master data, sending, access
* "Row-level locks prevent double generation" (`services/recurring.ts:84-85`), but the selection is not repeated under the lock: two generations draft one date twice.
* Templates move to the clamped day and stay there (documented at `recurring-cadence.ts:14-15`); the date check accepts dates that do not exist (`recurring.ts:27`).
* An import may write an address to a supplier renamed or archived meanwhile, and calls that read a row before its archival still write it.
* As many concurrent sends as the pool has connections (ten) block the server for good: each holds one and waits for another
  (`po-document.ts:220-238`, `db/index.ts:4`). An order cancelled after the unlocked read is mailed, and a mail whose transaction fails has no audit row.
* A password verified before "revoke all sessions" creates a live session after it; API tokens survive it. `registerUser` looks an e-mail up as typed and stores it
  in lower case (`services/auth.ts:33`, `:41`).
* Reads and mutations of a path share one counter, compared with 300 or 60 by the method of the request at hand: after 60 reads
  of a path its next mutation is refused, though `docs/mvp3-spec.md:53-54` has them as classes of their own. What holds is that no mixture
  gets more of a class through than its limit (`LimitHolds`), and that a refusal is earned by requests of one's own (`OnlySelfThrottled`). A limit given as a fraction
  (`limitsPerMinute` takes any positive number) acts as the next whole number.
* In a full store of login failures in which every client has one pair, a client that has none yet evicts a bystander's only pair, which
  `api/request-guards.ts:289` says never happens.
* Spend reports multiply quantity and unit price and so miss the amounts of service lines, and cast to 32 bits (`services/analytics.ts:45`, `:91`).

## 7. What is not modelled

* Within modelled components: `createRequisition`'s lines and the editing of drafts (a requisition starts as DRAFT, `Recurring` has its references only); in a dispatch run,
  the failure of a database statement beside other calls that go on; changes of the connector registry while the server
  runs; QuickBooks events of before supplier ids, notices to administrators, and document contents but for company and vendor; the formats of webhook, CSV
  and e-mail; registration, password hashing, cookies, the origin check and the parsing of client addresses; limits on the size and type of
  attachments; the layout of the PDF. Deadlocks between row locks show
  only as `Abort` (PostgreSQL ends one of the two transactions).
* Whole components, with the reason in `PROJECT.json`: money formatting, licensing and token encryption (pure functions);
  reads and analytics (queries); OCR and MCP services (stateless wrappers); the user interface but for the invoice form; schema, migrations and scripts.

## 8. Plan

1. Done: the modules of section 2, with compositions of catalogue and templates, access and attachments, and intake and match; the theorems of section 5;
   the refinement `Fulfilment => OrderLedger`, model-checked and proved.
2. Left to model: `OutboxDispatch` with `QboSync` as one of its connectors (each now assumes of the other what that one's run shows);
   a composition `ProcureToPay` in which one requisition passes through approval, ordering and fulfilment; the money and CSV
   algorithms against reference definitions.
3. Every invariant and every action property of the passing runs is proved. Abstract
   specifications worth stating and proving: `BudgetControl` (grant, reserve, release) for `Ordering`, at-least-once delivery for `OutboxDispatch`.
