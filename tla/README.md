# FlowChain: a formal model of the authoritative core

FlowChain is an ERP for small companies: purchase requests and orders, receiving, stock, sales
orders, shipments, returns, and the invoices and payments that follow them. Its authoritative
state lives in PostgreSQL and is written by *command services*
(`server/domain/*-command-service.mjs`), each with a *policy* beside it that computes a plan from
what it reads and says whether the plan is allowed. Some workspaces still run on JSON documents,
written through a mutex per file. This directory holds TLA+ modules for who may change that
state, when, and what must be true of it afterwards.

Paths below are relative to the repository root. A definition is translated from the lines that
`PROJECT.json` gives for it under `map`.

## The system

### Components, their state and their operations

| Component | State | Operations | Module |
|---|---|---|---|
| Purchase order approval (`procurement-db-command-service`) and receiving (`mobile-operations-service`, `receiving-posting-command-service`) | order status and its base; documents with lines, workflow and posting status; received quantities | approve, reject, return for revision; create, revise, submit, post, reverse | `Receiving` |
| Sales orders (`sales-order-workbench-service`) and outbound (`outbound-posting-command-service`) | orders, lines, reservations, shipments and their allocations | create, revise, confirm, hold, resume; reserve, release; draft, cancel, post, reverse | `Outbound` |
| Inventory operations (`inventory-operations-command-service`) | transfers, adjustments, cycle counts | create, revise, ready, cancel, post, reverse; submit and review counts | `InventoryOperations` |
| Return governance (`return-governance-command-service`) | requests, authorizations | create, revise, submit, cancel, authorize, reject; cancel or expire an authorization | `ReturnGovernance` |
| Customer returns, quarantine release, supplier returns (three services) | postings; quarantine balances and the lineage of what is in them | create, revise, ready, cancel, post, reverse | `Returns` |
| Stock tables (`InventoryBalance`, `InventoryMovement`) | on hand, reserved, available, version per (sku, warehouse, location); the ledger | written by all of the above | `StockBalance`, `StockFlow`, `StockContract` |
| Command execution (the `execute` wrapper) | one row per (tenant, command, key) | look up, replay, create, complete | `CommandExecution`, `CommandContract` |
| Pilot import (`pilot-import-service`) | batches; opening balances, master data | dry run, cancel, commit | `PilotImport` |
| Payables (`operational-finance-command-service`) | supplier invoices, match exceptions, payables, credit memos | create, revise, submit, match, review, approve, hold, release, export; credit memos | `Payables`, `Obligations` |
| Receivables (`operational-finance-o2c-command-service`) | customer invoices, receivables, disputes, credit notes | create, submit, approve, issue, dispute, resolve; credit notes | `Receivables`, `Obligations` |
| Internal settlement, advances, transfers (three services) | settlements, advances and their applications, transfers, cashbook entries | create, revise, submit, approve, reject, cancel, post, reverse | `Settlement` |
| JSON runtimes (`runtime-file-mutex`, `durable-*-repository`) | a document in a file, a chain of promises, copies | transact, load, crash | `FileRuntime`, `AtomicDocument` |
| Procurement workflow (`procurement-workflow-service`) | requests, quotations, orders, idempotency records | create, edit, transition, source by quotation or direct order | `ProcurementWorkflow` |
| Mobile sync (`mobile-sync-service`) | devices, sessions, change feed, cursors | register, initial, changes, acknowledge, revoke | `MobileSync` |
| Row locks, bank statements, authorization, AI assistant, read models, attachments, web client | | | not modelled, see below |

### How they interact

* **Through shared rows.** The services never call each other. Receiving, outbound, inventory
  operations and returns meet in the row of a balance; invoices, credits, disputes, settlements
  and advances meet in the row of an obligation. What keeps them apart is a quantity kept in that
  row (reserved, outstanding), compared in every plan, and the version of the row.
* **Through the ledger.** A reversal reads the movements of its document; the rebuild of a balance
  adds up those of everyone; a settlement's reversal adds an entry to the cashbook.
* **Through documents.** A return names the line of a receipt or shipment, an invoice the lines it
  bills, a credit the return it pays for. The named document may be reversed later.
* **Through the transaction.** A command is one `SERIALIZABLE` transaction: pending execution
  row, locks, plan, writes, completed row. What a client sees is the answer of the wrapper, which
  may be that of an earlier delivery.
* **Through the feed.** Commands insert feed rows that devices read by sequence.

### What is hard

1. A document is checked when it is drafted and executed much later, after others.
2. Goods are reserved, shipped or sent back before the document that brought them is reversed;
   money is credited, disputed or held between a payment's approval and its posting.
3. The same quantity is kept in many places (line, reservation, balance, status), in step by hand.
4. Workflow status and posting status together say what a document is; both must be looked at.
5. A count is taken, submitted and reviewed while everyone goes on working.
6. Deliveries of one request race, answers are lost, transactions are given up, servers stop.
7. A lookup or a mark is outside the transaction it belongs to (imports, procurement workflow).
8. Feed rows become visible in another order than their sequence.

`PROJECT.json` lists these as hazards at the line where each bites, with the properties that would
catch it.

## The modules

    Quantities ─┬─ StockBalance ─┬─ Receiving ────────────────┐
                │                ├─ Outbound ─────────────────┤
                │                ├─ InventoryOperations ──────┼─ StockFlow ── implements ── StockContract
                │                ├─ ReturnGovernance ─ Returns ┘
                │                └─ PilotImport
                └─ Obligations ──┬─ Payables ────┐
                                 ├─ Receivables ─┼─ FinanceFlow
                                 └─ Settlement ──┘
    CommandExecution ── implements ── CommandContract
    FileRuntime ── implements ── AtomicDocument        ProcurementWorkflow        MobileSync
    proofs: QuantityLemmas, StockFlowProofs ─ ReturnsProofs, FinanceProofs, PilotImportProofs,
            CommandExecutionProofs, FileRuntimeProofs, ProcurementWorkflowProofs

In the stock and finance modules an action is the *commit* of one command: its conjuncts are the
blocking issues of the plan, its primed variables the writes of the service. A command that fails
rolls back and is no step. Serializable isolation is what justifies one action per transaction;
where the code does something outside its transaction the module has more than one step
(`CommandExecution`, `PilotImport`, `ProcurementWorkflow`, `FileRuntime`, `MobileSync`). The `Next`
relations list what the routes dispatch, which is what `map` gives for them. Names follow the code.

* **`Quantities`** defines `Total(q)`, the sum of a finite family of naturals, as the number of its
  units. It is not recursive, so that one can prove about it.
* **`StockBalance`** has the shared stock. `balance[b]` is a row; `movement[b]` keeps the sums of the
  quantity columns of its movements, because that is all the rebuild reads of the ledger.
* **`Receiving`**. A draft may be written for an order of *any* status, as in the code; only the
  posting looks at the order. Imported orders start open and partly received.
* **`Outbound`**. Shipments and releases carry a quantity per reservation; the lines of a shipment
  are sums over the reservations of one order line.
* **`InventoryOperations`**. A count keeps the balance rows it saw, version included.
* **`ReturnGovernance`** and **`Returns`**. A source line is a line of an earlier shipment or receipt,
  which may be reversed while nothing is returned of it. One set of draft and posting actions
  serves the three kinds, which differ in where goods come from and go to. `allocation` is the
  lineage: which customer receipt the goods a consumer takes out of quarantine came with, oldest
  first, with the balance from before lineage in front.
* **`StockFlow`** composes the four. It adds `movedSince`, what the query for downstream movements of
  `buildReceivingReversalPlan` sees, and, for the properties alone, `writtenSince`: the balances written
  since the snapshot of each count, which no guard reads. It is about balances and not the ledger,
  because a return into quarantine posts a movement for a key without writing its balance. **`StockContract`** is the abstract specification: what is on hand
  and what is promised for each key, and the few ways in which they change together.
* **`PilotImport`**. A commit is a lookup of its key, a transaction with its unique indexes, and,
  after a failure, the mark of the batch in a statement of its own. Someone else may create a
  record between the preview and the commit.
* **`Obligations`** has the row that finance shares, keyed by its invoice. **`Payables`** has the plan
  that limits what an invoice claims, the three-way match and the review of its exceptions. A price
  may deviate from that of its order line by the larger of an absolute tolerance and a percentage
  of that line's price (`PriceThreshold`), rounded down as in the code; the percentage is whole, so that
  `multiply` has nothing to round.
  **`Receivables`** invoices, disputes and the passing of due dates; **`Settlement`** the workflow of
  documents, the cashbook and advances. **`FinanceFlow`** lets them loose on the same rows.
* **`CommandExecution`** is the `execute` wrapper, step by step, for several deliveries at once on one
  versioned document. The insert of a key waits for the transaction that holds it and then fails
  as a duplicate or as a serialization failure. `LooksInside` are the commands that look up their
  key once more inside the transaction. `GiveUp`, `LoseAnswer`, `Crash` are what goes wrong. The first
  answer of any kind settles a request: after a 409 the client drops its preview and loads the
  document, and what its user then confirms is another request (under a new key in
  `ReceivingPostingWorkbench.tsx:87`, under the old key with the new version in
  `OutboundWorkbench.tsx:932`; the instance has two requests under one key). While it has no
  answer it may send again. **`CommandContract`** is what a client may rely on; in particular no one is
  ever told that a command is in progress, for a pending row is never committed.
* **`FileRuntime`** is the chain of promises of `withRuntimeFileMutex` with every await a step: who is
  queued behind whom, who still finds the chain in the map, the working copy, the rename, and the
  copies of the repositories. **`AtomicDocument`** is a document whose writes happen in one step.
* **`ProcurementWorkflow`**. A change is one atomic write of the document, which `FileRuntime` shows.
  The two sourcing commands look up their idempotency record first, so that a call is two steps.
* **`MobileSync`**. A transaction takes its sequence when it inserts and is seen when it commits. A
  device has a cursor, a session or nothing; a response may be lost.

Definitions commented as a *variant* are the slips a later change could make (a dropped guard, a
sum checked line by line, a column forgotten). No specification uses them: they are listed as
mutants in `PROJECT.json`, one for each property, and each makes TLC find the property violated.

## The runs

Deadlock is not checked: a workspace whose documents are all posted and reversed has nothing left
to do. Times are of two workers.

| Run | Instance | Distinct states | What it shows |
|---|---|---|---|
| `receiving` | an order of two lines (2 and 1 units), an imported one with 1 of 2 received; two documents of up to two lines; three places | 145,264 (50–80 s) | Orders, documents and received quantities agree through every draft, posting and reversal |
| `outbound` | two orders, three lines of up to 2 units, two places with 2 and 1 units, two reservations, two shipments | 506,309 (40–70 s) | Nothing is oversold; reservations, lines, shipments and statuses agree |
| `stock_flow` | sales from two places beside receiving, beside operations, or beside returns | 698,055 (100–190 s) | Everyone who writes stock keeps `StockContract`; nobody takes what is promised |
| `returns` | a sold and a bought line, two requests, two authorizations, three postings, a unit in stock and one in quarantine from before | 239,216 (55–100 s) | Goods and their lineage are conserved; nothing is sent back twice |
| `finance` | two invoices, two credits on either side; two settlements, an application, a transfer; two people | 401,807 (70–125 s) | Nothing is billed or paid beyond goods and agreement, and every amount is accounted for |
| `command_execution` | three requests under two keys, four deliveries, two troubles | 22,116 (17 s) | Each request takes effect at most once; every answer is true and every delivery gets one |
| `pilot_import` | two of four files, two calls, two keys | 218,584 (15 s) | Imports are atomic, stock is opened once, a dead batch stays dead |
| `file_runtime` | three writes, two repositories, one crash | 26,660 (5 s) | Writes refine `AtomicDocument`; the queue does not get stuck |
| `procurement_workflow` | a request that makes two orders, two calls, two quotations, four orders | 117,623 (18 s) | A request is sourced one way at a time, ordered once, as approved |
| `stock_flow_reversal` | that of `stock_flow` | violated | Finding 1 |
| `inventory_ledger` | a transfer, an adjustment, a count; two places | violated | Finding 2 |
| `sync_convergence` | two records, two transactions, no lost response | violated | Finding 3 |

### The properties

*Agreement of what different commands keep.* `ReceivedMatchesDocuments`,
`OrderStatusMatchesReceipts`, `LinesMatchReservations`, `ReservationsMatchShipments`,
`StatusesMatchQuantities`, `StockIsExplained`, `GoodsAreConserved`, `LineageFits`,
`OutstandingIsExplained`, `AdvancesAreConserved`, `StatusTellsWhatIsPaid`, `DisputesAgree`,
`OnHandMatchesMovements`, `EveryEffectIsRecorded` and `ImportsAreAtomic` recompute one record from
others: the stock from every posted document, an outstanding amount from the credits, settlements
and advances that stand, an execution row from the history.

*Limits that several documents share.* `NeverOverReceived`, `StockNeverOversold`,
`PostedWithinAuthorized`, `SentBackWithinReceipt`, `InvoicedWithinReceived`, `BilledWithinShipped`,
`StockIsOpenedOnce`, `KeyNamesOneImport`, `OneSourceAtATime`, `OrderedOnce`,
`OrdersCarryApprovedLines`, `NothingPayableUnreviewed`.

*What remains possible.* `PromisesSurvive`: what is reserved can ship and what was shipped can come
back whatever receiving, operations and returns do meanwhile. `PaymentsCanBeTakenBack`: a posted
payment or application can be reversed, whatever was credited or disputed since, as far as the
obligation is concerned.

*What a step may never do.* `PostedDocumentsAreFacts`, `HeldOrdersDoNotMove`,
`CountsPostUnderTheirPromises`, `BlockedObligationsAreNotPaid`, `DeadBatchesStayDead`.
`VersionNamesContent` (no two contents of a balance have the same version) is what the check of
counts rests on.

*Refinement and liveness.* `FlowKeepsContract`, `KeepsContract`, `WritesAreAtomic`;
`EveryDeliveryIsAnswered`, `EveryWriteLeavesTheQueue`.

*Types.* Every module has a type invariant beside its variables. Each is part of what is proved.
`MobileSync` has no theorems.

### The bounds, and why they are enough

* Two documents of a kind are what it takes for one to be posted between the drafting and the
  posting of the other. Two lines in a document, or two reservations in a request, are what it
  takes for lines to fit one by one and not together. With one unit of slack partial, full and
  excess quantities all occur.
* Two places for one item let a transfer, a receipt or a reservation go where another did not, and
  an opening stock of 0 at one of them lets it run out.
* `MaxOrdered`, `MaxMoved`, `MaxCounted`, `MaxReceivingLines`, `MaxOperationLines`, `MaxReturned` and the
  sets of drafts and instructions bound the inputs. `MaxVersion` bounds the edits of a request,
  `MaxSequence`, `MaxAuthorization` and `MaxLost` the steps of a device's surroundings, `MaxCrashes` and
  `MaxTrouble` the failures; the first two let a stale caller be behind by more than one edit, the
  last let both deliveries of a request, or a delivery and its answer, fail.
* The prices ordered are 4 and 1, the tolerances 50 per cent and 1 for prices and 2 for amounts: the
  percentage decides for the first line, the absolute tolerance for the second. Invoices deviate by
  what the percentage just allows (more than the absolute tolerance), by more than that on the
  first line, and by more than the absolute tolerance on the second, in opposite directions. A line of an opening import may open with 0.
* Identifiers are interchangeable, hence `SYMMETRY` in `MCReceiving`, `MCOutbound`, `MCPilotImport` and
  `MCProcurementWorkflow`, none of which checks liveness, and `InOrder` (the first identifier is used
  first) in the others.

Four instances are cut by a state constraint, for which the next larger one takes hours:

* `MCStockFlow` lets sales meet one side at a time: receiving, operations or returns (`scenario`). They
  meet each other only through the rows that `FlowKeepsContract` shows each to keep, and the theorems
  of `StockFlowProofs` hold with all sides at once. Beside
  operations one unit is ordered; an adjustment meets the sales alone, a transfer also a count.
  In the returns scenario the source lines stand and goods come back to one place.
* `MCReturns` has two cases: two postings for one unit of each line, reversals of the sources and
  deadlines included; or three postings for two units of the shipment, which is what a partial
  release followed by a return to the supplier takes, without deadlines.
* `MCFinanceFlow` has five scenarios: purchases and sales alone, with two invoices over the same goods
  or one with credits; the cashbook alone, on obligations that exist; either side with
  settlements, one invoice and one credit. `OneSettlement`: a transfer meets one settlement, or two
  settlements meet each other.
* `MCPilotImport` has two files at a time (`TwoFiles`) of any kind.

### Fairness

`CommandFairness` asks weak fairness of `Serve(a)`: the server goes on with a request that it has
received; PostgreSQL grants a lock once its holder has committed or aborted, and each transaction
has a timeout. Nothing is asked of the client, which sends when a person confirms and may never
do so: `EveryDeliveryIsAnswered` speaks of deliveries that have reached the server. No fairness is
asked of `GiveUp`, `LoseAnswer` and `Crash`: a delivery ends with an answer unless one of them happens
after it has come, and that they do not go on for ever is the bound `MaxTrouble`.

`RuntimeFairness` asks weak fairness of `Proceed(w)`, the next step of a write: a promise that is
settled runs its continuations, and file operations end. That an operation throws (`Fail`) or the
process stops (`Crash`) is never required and always possible.

The other specifications have no fairness and claim no liveness: their commands wait for people.

## What is proved

Each proof module has an inductive invariant, one lemma per action, and theorems for every value of
the constants. They assume only the named `ASSUME`s of the modules: sets of documents are finite
where sums range over them, quantities and prices are naturals, an import brings at most what was
ordered, supplier and customer invoices (and purchase and sales orders) are different things.

* **`QuantityLemmas`**: a sum is at least each member, changes by as much as one member changes
  (`TotalChange`), grows with its members (`TotalMonotone`), and the sums of two families add up
  (`TotalAdd`), as do those of its shares (`TotalByShares`); families that are member by member no
  greater and in sum no less are the same (`TotalEqual`). `Share(f, b, q)` is the part of a family
  that `f` sends to `b`: the allocations of the reservations at one key, or the credits of one
  invoice. Most invariants about amounts are equations between such shares.
* **`StockFlowProofs`**, receiving (`ReceivingInv`): `ReceivingTypeCorrect`; `ReceiptsAreExact`
  (`ReceivedMatchesDocuments`); `OrdersAreNotExceeded` (`NeverOverReceived`); `ReceiptsReachStock`;
  `OrdersFollowReceipts` (`OrderStatusMatchesReceipts`); `PostedStaysPosted` (`PostedDocumentsAreFacts`).
  That a reversal leaves a natural number needs that a line has received at least what this
  document accepted; that the status is right needs that a document lists only lines of its own
  order and that an order awaiting approval has received nothing. Hence `DocumentsBelongToOrders`
  and `UnapprovedOrdersAreEmpty` in the invariant. It has two halves: `OrdersInv` does not speak of
  stock and holds beside everyone else; `ReceiptStockInv` says that receipts explain the stock, which
  is so only when nobody else writes it.
* **`StockFlowProofs`**, sales (`SalesInv`): `PromisesAreCovered` (`StockNeverOversold`), `LinesAreExact`
  (`LinesMatchReservations`), `UnitsShipOnce` (`ReservationsMatchShipments`), `StatusesFollow`
  (`StatusesMatchQuantities`), `HeldOrdersStay` (`HeldOrdersDoNotMove`). A command changes several
  reservations at once; `Rewrites` says what it does to each, and the sums by line and by key follow.
  The invariant needs that a shipment takes from reservations of its own order only, and that its
  allocation is in force exactly while it can be posted.
* **`StockFlowProofs`**, the composition (`FlowInv`): the invariants of the four sides together. What receiving,
  operations and returns do to stock is one formula, `PromisesStand`: nothing reserved changes,
  what is left covers it, the columns of a row add up, and a row that changes gets a higher version.
  Each of their actions satisfies it (`ReceivingStands`, `OperationsStand`, `ReturnsStand`), the promises
  survive it (`PromisesKept`), and nobody touches another's documents (`OperationsFrame`, `ReturnsFrame`). From
  this `PromisesStandForAll` (`PromisesSurvive`), `SharedStockIsCovered`, `SharedReceiptsAreExact`, and
  `StockContractHolds`, the refinement of `StockContract` (`FlowKeepsContract`), step by step.
  `OperationsInv` has what a snapshot needs to be compared, and `CountsRemember` that a recorded
  version is no higher than that of the balance, and that a balance at that version is the
  recorded one and has not been written since. Hence `VersionsNameContents` (`VersionNamesContent`)
  and `CountsPostUntouched` (`CountsPostUnderTheirPromises`). `ReturnsInv` says that the route of a
  posting follows its kind and that what it executes is named by its authorization: hence
  `ReturnsStayAuthorized` (`PostedWithinAuthorized`) for postings drafted side by side.
  `StockHasDocuments` (`StockIsExplained`) adds two conjuncts to `FlowInv`. `StockExplained` is the equation
  itself, as sums over the documents that are posted. Each side changes what is on hand by what it
  adds to its own term, its posting by one member that joins (`NetJoins`), its reversal by one that
  leaves (`NetLeaves`), and every other term stays (`ReceiptsExplain`, `ShipmentsExplain`,
  `OperationsExplain`, `ReturnsExplain`). `PostedAreReady` says that a posted document has its lines
  and a counted one its quantities, so that what a reversal takes back is a number and that of the
  posting.
* **`ReturnsProofs`**: `GoodsStayWhole` (`GoodsAreConserved`) compares what returns write by key with what their
  lines hold: by each kind, goods come, change sides or go (`GoodsOfKind`), and over all keys that is
  the total of the lines (`MovedByKeys`). It needs that a posting has a key for each line and that
  the quarantine is never overdrawn (`GoodsInv`).
  `SentBackOnce` (`SentBackWithinReceipt`) needs what a request may still send, its `Claim`: all it asks
  for while it is open, and what its authorization allows once a posting was drafted under it, for
  then the authorization can no longer be cancelled. `SupplyInv` says that the claims of all requests fit
  in the receipt, that a request to a supplier has one live authorization whose status it has, and
  that an executed authorization is executed to the last unit. No command but the submission lets a
  claim grow (`GovernedStep`, `FramedStep`), and a submission is checked against what others occupy
  and what was executed, which together cover their claims (`ClaimCovered`).
  `LineageStays` (`LineageFits`) rests on `LineageInv`: customer receipts have different places in the order
  of posting, allocations run between posted returns only, no receipt gives more than it brought and
  no consumer is allocated more than it took. `TakenIsDue` says that taking in order takes exactly
  what is due: one receipt is the last that is reached (`LastReached`), the older ones are taken
  whole and the newer ones not at all. A posting then moves the tracked goods by what it brings less
  what is due (`LineagePosted`), a reversal undoes both (`LineageReversed`), for a return that is reversed
  is untouched. Together they give `ReturnsTypes` (`ReturnsTypeOK`). Nobody else writes these tables,
  so that lineage and claims stand in the whole of `StockFlow`, too (`SharedReturnsAreExact`).
* **`FinanceProofs`** (`FinanceInv`): `EveryAmountIsExplained` (`OutstandingIsExplained`), `StatusesTellPayments`
  (`StatusTellsWhatIsPaid`), `AdvancesStayWhole` (`AdvancesAreConserved`), `PaymentsAreReversible`
  (`PaymentsCanBeTakenBack`), `DisputesStayOpen` (`DisputesAgree`), `InvoicedIsReceived`, `BilledIsShipped`,
  `PayablesAreReviewed` (`NothingPayableUnreviewed`), `BlockedStayUnpaid` (`BlockedObligationsAreNotPaid`).
  An obligation exists only for an approved or issued invoice, so that its approval starts from
  nothing; an advance only for a posted settlement, so that a posting starts from none; the two
  states of a document agree. What is paid of an obligation is a sum over settlements and one over
  applications, which change in one member at a time: the posted one. `DeviationsAreMarked` carries
  what the match saw through reviews, revisions and approvals; `ThresholdIsTheLarger` says that what
  exceeds the threshold of a line is what exceeds both its tolerances.
* **`CommandExecutionProofs`** (`CommandInv`): `EffectsAreRecorded`, and `CommandsKeepContract`, the
  refinement of `CommandContract`, without the bound on troubles. The invariant says what an attempt
  holds (its snapshot is no older than what its request expects, its key is unused while it holds
  it, the document is the one it read once its work is done), that one attempt at a time holds a
  key and one the document, and that a reply that was computed is true. `Truth` of a reply is
  stable because the history only grows, which makes a late answer as good as an early one.
* **`FileRuntimeProofs`** (`RuntimeInv`): `RuntimeIsAtomic`, the refinement of `AtomicDocument`;
  `CopiesAreEarlierDocuments`; `MutualExclusion`. The state has only the last promise of the chain
  and, for each writer, the one before it. `QueueInv` says that there *is* a finite sequence of the
  live writers, each waiting for the one before, the first of which may run and the last of which
  is the tail; its steps append to it and drop its head. A crash empties it.
* **`PilotImportProofs`** (`ImportInv`): `ImportsHappenWhole` (`ImportsAreAtomic`), `StockOpensOnce`
  (`StockIsOpenedOnce`), `ImportsAreUnique` (`KeyNamesOneImport`), `DeadBatchesAreNotImported` (`DeadBatchesStayDead`). The
  invariant ties every record to the completed batch it came from, both ways (`Origins`).
* **`ProcurementWorkflowProofs`** (`WorkflowInv`): `RequestsHaveOneSource`, `RequestsAreOrderedOnce`,
  `OrdersAreAsApproved`. `RequestInv` says that orders belong to converted requests only, as many
  as the lines make groups, and that the lines of an approved request are the approved ones.

A proof that fails says something, too. `CountsPostUnderTheirPromises` once spoke of the ledger: no
movement between a count and its posting. Its proof found the step that breaks this, the return into
quarantine, and TLC the trace; the code promises it for the balance, which is what the property
now says.

*Only model-checked:* the liveness of `EveryDeliveryIsAnswered` and `EveryWriteLeavesTheQueue`, which
TLAPS does not do. Every safety invariant and action property of a passing run has a theorem.

## Findings

1. **The downstream check of a receipt reversal finds nothing** (`stock_flow_reversal`).
   `docs/receiving-posting-workbench.md:32` promises that the reverse preview checks downstream
   consumption. `DOWNSTREAM_MOVEMENT_TYPES` (`receiving-transaction-policy.mjs:6`) names types that no
   command writes: shipments write `shipment_posting`, transfers `stock_transfer_out`. What protects
   the stock is the comparison with what is available, and `stock_flow` shows that this is enough
   for `StockContract`; the refusal that the documentation describes does not happen.
2. **An adjustment is counted twice by the rebuild** (`inventory_ledger`). Movements of adjustments and
   counts carry the quantity in `quantityIn` or `quantityOut` and again in `adjustmentQty`
   (`inventory-operations-policy.mjs:706`, `788`, `907`), while `calculateMovementBalance` adds up all
   three, as `receiving-posting-transaction.test.mjs:8` has it.
3. **A device can miss a change for good** (`sync_convergence`). Feed sequences are taken at the insert
   and seen at the commit, and the watermark of a snapshot is the highest sequence *seen*. A
   transaction that took a lower one and commits later is behind every cursor, although
   `docs/phase-5-2c1-mobile-sync-controls-plan.md:87` says that it is replayed.

### Observations

What the models show, or the reading for them did, that no document of the repository decides or no
run checks:

* Outbound commands lock balances in the order of their natural keys, inventory operations in that
  of their row identifiers, receiving writes them in the order of the lines of its document. Two
  commands of different services on two balances can wait for each other; PostgreSQL aborts one of
  them, and its caller is told of a conflict.
* `docs/outbound-posting-foundation.md:77` gives one order of locks for the outbound commands: order, lines,
  shipment, reservations, balances. A release locks reservations before lines
  (`outbound-posting-command-service.mjs:228`, `230`), and so do the posting and the reversal of a shipment
  (`289`, `290`); drafts do it the other way round. What keeps them apart is the lock of the sales
  order, which all of these take first.
* The close of a release authorization sets the request to `submitted`
  (`return-governance-command-service.mjs:1047`), also one that was received in full: it can be
  authorized and received again. `SentBackWithinReceipt` bounds what can follow for receipts.
* The reconciliation of a balance adds up all posted movements of its key
  (`receiving-posting-command-service.mjs:572`), those into quarantine included.
* A second delivery of an import that has succeeded meanwhile can be told "Import commit failed
  atomically" (`pilot-import-service.mjs:119`); the batch stays completed.
* A credit memo can be approved after its supplier return was reversed
  (`operational-finance-command-service.mjs:1481` looks only at the memo), and credits are limited per
  pair of invoice line and return line (`operational-finance-o2c-policy.mjs:379`), so that two
  invoices can be credited for one returned unit.
* A credit note approved before its invoice is issued leaves the receivable at its full amount
  (`operational-finance-o2c-command-service.mjs:903`).
* A receivable that was ever disputed cannot be settled again
  (`internal-settlement-command-service.mjs:171` wants `none`), though it can take advances
  (`obligation-status-policy.mjs:27` accepts `resolved`).
* A device that repeats a call whose response was lost is given the page after the lost one
  (`mobile-sync-service.mjs:176`); outbound commands change balances without feed rows for them.
* `reviseGroup` (`bank-reconciliation-service.mjs:89`) and the validation and row decisions of statement
  batches (`bank-statement-service.mjs:128`, `166`, `176`) check a status before their transaction and not
  in it: a group confirmed in between is revised, and a batch committed in between is a draft
  again.

## Not modelled, and why

* *Row locks.* A command of the stock and finance modules is its commit, and that the database gives a
  transaction up is `GiveUp`. Where a circle of waiting commands comes from is not modelled.
* *Bank statements and reconciliation.* They read the cashbook and write no row of another service.
  Beyond the race above, their hazard is evidence reversed after a confirmation, for which the
  service has detectors of its own.
* *Lots and serial numbers*, *versions of documents within a transaction*, *tax*, *currencies*, *duplicate
  numbers*: they refuse commands, and change no quantity or amount of the models. The version a
  *caller* holds is in `CommandExecution`, that of a *balance* in every stock module.
* *Data that no property tells apart*: a credit memo is for one line of one return, where the code takes
  several; the initial call of a device to `MobileSync` is one step, and its session does not expire;
  the documents that invoices refer to are reversed at any time in `Payables` and `Receivables`, where the
  services that reverse them ask for more; `recordPathDecision` is refused for linked documents that
  its copy of the repository shows, which may be an old one, and is never refused for them in
  `ProcurementWorkflow`.
* *Permissions, tenants, warehouse scopes, master data*: checked first and changed by none of these
  commands. Who created and who may approve a settlement is modelled, because the policy of the
  workspace makes it part of the workflow.
* *The approval path over a JSON repository* (`mobile-operations-service.mjs:79-86`): its route answers in
  database mode only, where the authority is always there, so that nothing reaches it.
* *Attachments*: a row and a stored file of opaque bytes that no other service reads.
* *What the single JSON runtimes write*, apart from procurement: plain records.
* *Audit log*: written in the same transactions, read by no command.
* *AI assistant, read models, reports, drafts in memory*: they change none of these tables.
* *Web client*: rendering. What it does with an answer, or without one, is the caller of
  `CommandExecution`.

## What is left

1. Bank reconciliation on the cashbook of `Settlement`: groups, their revision in two steps, and the
   reversal of what they matched.
2. The rows that commands lock and in which order, for circles within a service and between two.
3. `MobileSync` with a feed that holds its watermark back until earlier transactions have ended, as
   a property that then holds.
