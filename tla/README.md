# Verification of KiotViet-Off

TLA+ models of the backend under `src/backend` and of the parts of the
frontend that move money or keep the session, the TLC runs that check them, and TLAPS proofs of
their main properties. The server is a NestJS monolith over
PostgreSQL (through Prisma) and Redis. Several processes may serve the same
database; within one of them every `await` lets other calls run. Transactions
use READ COMMITTED, with row locks, unique keys, advisory locks and conditional
updates (compare-and-swap on a version or a quantity) where the code asks for
them. What can go wrong is therefore the order in which the statements of
several calls meet, and what a failure leaves between two statements. That is
what the modules are about; amounts, names and texts are abstracted to what the
properties can tell apart.

## 1. Inventory of the system

Paths are relative to `backend/src/modules`.

| component | state | operations | interacts with |
|---|---|---|---|
| checkout | `checkout_operations`, `vouchers.usedCount` | reserve, replay, reclaim, sale transaction, release of the key | cart, inventory, invoice, payment, customer-point, discount |
| cart | one JSON value per cashier in Redis | add, update, remove, clear | read and deleted by checkout |
| inventory | `inventories` (quantity, avgCost), `inventory_movements` | `recordMovement`, called by every document that moves goods | checkout, purchasing, transfer, stock-count, adjustment, sales-return |
| supplier-debt | `supplier_payment_operations`, `debts`, `payments` | create payment, balance | purchasing writes debts |
| purchase-order | order, items, status, version | create, approve, receive, cancel | inventory, debts |
| purchase-return | return, items, status, version | create with quantity check, approve, complete, cancel | purchase-order, inventory, debts |
| sales-return | return, items, refunds, `sales_return_refund_operations` | draft, submit, approve, receive, complete, cancel; refund and its transitions | invoice, inventory |
| transfer | transfer, items with captured cost | create, approve, receive, cancel | inventory of two warehouses |
| stock-count | count, items with system quantity | create, start, cancel, complete | inventory |
| inventory-adjustment | adjustment, items | create, submit, approve, complete, cancel | inventory |
| usage-limit, subscription-lifecycle, plan changer | `organization_subscriptions`, the live rows of five kinds | lock, read limit, count; change of plan; hourly expiry | user, branch, warehouse, product, customer |
| customer-point | ledger with running balance, `customers.totalPoint` | add, use (also inside a checkout); event handler | checkout, customer |
| branch, warehouse, category | rows with status, version, default, parent | create, update, archive, restore, move | usage-limit, inventory |
| auth, rbac | sessions, roles and their permissions, `permissionVersion`, access tokens | login, refresh, logout, reset; assign and remove roles, replace permissions | user |
| trial-signup | codes and counters in Redis, finalization rows | request and verify a code, finalize | organization, auth, mail |
| product, price, barcode, brand, unit, supplier, customer | master data with a version | create, update, delete, restore | usage-limit |
| discount, entitlement, reports, audit log, metrics, sequence codes | pure functions, queries, logs, one atomic upsert | | |
| backup | `.dump` and `.partial` files, the database restored into | backup with retention, restore | PostgreSQL tools |
| session refresh of the frontend | generation, mutex and Web Lock of the browser; the token in each tab; messages between tabs; the refresh cookie | one request asks, waits, decides, calls or listens; tabs are closed | auth (`POST /auth/refresh`) |
| frontend forms for payments and refunds | key and fingerprint kept in refs | submit, answer, close, open | supplier-debt, sales-return |
| bootstrap, queue, mail, websocket, the rest of the frontend | none that the rest depends on | | |

**How components interact.** A module calls another's service directly,
passing its transaction `tx` where the effects must be atomic
(`InventoryDomainService.recordMovement(tx, ...)`). Shared state is in the
database. Events are published in process after the commit, best effort.

**The hard behaviours**, each listed with its line in `PROJECT.json`:

* *Idempotent commands.* Checkout, supplier payment and refund keep a row per
  `Idempotency-Key`: find, insert or reclaim, then a transaction whose last
  statement completes the row, then work after the commit, all inside one
  `catch` that marks the row FAILED. No lock spans these statements; ownership
  of a row is by its id, not by the call, and a row PROCESSING for two minutes
  counts as abandoned.
* *Read, compute, compare-and-swap.* The inventory reads a row unlocked and
  writes it where the quantity is unchanged.
* *Check then insert.* Balances, eligible quantities, refund caps and quotas
  are sums taken before an insert; they are right only under a lock that covers
  both, and some of them have none.
* *Documents with a life cycle*, whose transitions must post stock and debt
  once, whatever other transition overtakes them.
* *Caches and copies that lag*: `customers.totalPoint`, the permissions inside a
  token, the tree of categories as `listAll` sees it.
* *Time*: stuck thresholds, trials that end between two statements, codes that
  expire, files named by the second.

**What makes each component correct** is stated by the properties of section 4;
for what is not modelled, section 7.

## 2. Modules

| module | models | actions correspond to |
|---|---|---|
| `IdempotentCommand` | abstract: what the money commands promise per key | `Execute`, `Answer` |
| `Checkout` | `checkout.service.ts`, `checkout-operation.service.ts`, its repository, the voucher repository | one action per awaited statement: `Find`, `Create`, `TryReclaim`, `Replay`, `ReadCart`, `ReadVoucher`, `Commit`/`Rollback` (the sale transaction), `ClearCart`, `Finish`, `MarkFailed` |
| `AverageCost` | `average-cost.util.ts` on integers of the column's scale, rounding included | operators |
| `StockLedger` | abstract: whole documents posted one at a time | `Post` |
| `Inventory` | `prisma-inventory.repository.ts` `recordMovement` in concurrent transactions | `Begin`, `Read`, `Update`, `Insert`, `Commit`, `RollBack`; PostgreSQL's row locks, visibility and deadlock detector |
| `SupplierPayment` | `supplier-debt.service.ts`, operation service, repositories | as Checkout, with the transaction opened up: `Lock`, `SumDebts`, `SumPayments`, `Commit` |
| `Purchasing` | purchase orders and purchase returns of one supplier, with stock and debt | the transitions of both documents; `StartReturn`, `CheckLine`, `InsertReturn` statement by statement |
| `SalesReturn` | the returns and refunds of one invoice | the transitions; `LockItems`, `Check`, `Post`; `LockReturn`, `ReadRefunds`, `InsertRefund` |
| `StockDocuments` | transfers, counts and adjustments beside purchases and sales | `StartCall` (the read outside the transaction), `Approve`, `Receive`, `Cancel`, `CompleteCount`, ... |
| `RefundCommand` | extends `SalesReturn`: the idempotency row around the transaction of a refund | `Find`, `Create`, `TryReclaim`, `Replay`, `Proceed` and `Commit` (the steps of the transaction), `Finish`, `MarkFailed` |
| `CustomerPoint` | the ledger of points of one customer and its cache | `LockCustomer`, `ReadBalance`, `CommitPoints`, `RollBackPoints`, `Publish`, `SyncTotalPoint` |
| `Access` | roles, permissions and the tokens that embed them | `CheckOwner`, `BeginReplace`/`Replace`, `FindHolders`, `AssignRole`, `RemoveRole`, `IncrementVersion`; `FindUser`, `ReadRoles`, `ReadCodes`, `SignToken` |
| `TrialSignup` | codes, proofs and finalizations of one e-mail address | `CheckCooldown`, `IncrementSendCount`, `StartCooldown`, `SaveOtp`; `VerifyOtp` (one Redis script); `FindFinalization`, `CreateFinalization`, `TryReclaimFailed`, `Provision`, `MarkFailed`, `IssueSession` |
| `Category` | the tree of categories | a check that reads the tree, then a write: `CheckUpdate`/`Update`, `CheckRemove`/`SoftDelete`, `CheckRestore`/`Restore`, `CheckCreate`/`Create` |
| `Backup` | backup and restore scripts | `OpenPartial`, `DumpExits`, `Verified`, `RenamePartial`, `ReadDirectory`, `DeleteOld`; `TargetExists`, `CreateDatabase`, `Restored`, `RestoreFails` |
| `PaymentDialog` | frontend: the dialog that pays a supplier, the panel that refunds a return | `OpenForm`, `Submit`, `Serve` (the server), `OnSuccess`, `OnError`, `CloseForm` |
| `RefreshCoordination` | frontend: how the tabs of a browser share one refresh, and the rotation of the session behind it | `Ask`, `AcquireLock` (Web Locks) or `ReadMutex`/`WriteMutex`/`ConfirmMutex` (localStorage), `Decide`, `Answer`, `TimeOut`, `Receive`, `StopListening`, `Return`, `CloseTab`; `FindSession`, `RotateSession` (the server) |
| `Quota` | usage limits, change of plan, end of a trial | `Lock`, `ReadLimit`, `Count`, `Write`; `LockNext`, `ReadSubscription`, `CountNext`, `ChangePlan`; `Remove`, `TrialEnds`, `ExpireDueTrials` |
| `MC...` | instances for TLC: data of the constants, symmetry sets, and the composition of several modules in one run | |
| `SumTheorems` | what the sums of `FiniteSetsExt`, `SequencesExt` and `Functions` do when an element is added, taken away or changed | lemmas |
| `...Proofs` | theorems, one module per component or group of components (section 5) | |

`Checkout`, `SupplierPayment` and `RefundCommand` implement `IdempotentCommand`, `Inventory`
implements `StockLedger` (each by `INSTANCE ... WITH` a mapping of the rows to
what a client or an auditor sees). `Inventory` and `StockDocuments` share
`AverageCost`. A transaction of one module that posts to another is one step
where the posted rows stay locked to its end, and the module that owns the rows
opens the same transaction up: the stock of a sale, a receipt or a transfer is
`Inventory`'s subject, the debts of `Purchasing` are the actions `Buy` and
`Return` of `SupplierPayment`. `RefundCommand` composes the two parts of a refund
statement by statement: its calls drive the very actions of `SalesReturn`, while
others complete the return and process or cancel its refunds. `PaymentDialog`
takes from `SupplierPayment` and `RefundCommand` what they promise of a key.

Modelling notes a reader of the code will look for:

* A commit makes everything visible at once; reads before it see the last
  committed version or the transaction's own.
* A lost process and a failed statement look alike to the database, and are one
  action where the code cannot tell them apart either.
* `MarkFailed` is `UPDATE ... WHERE id`, unconditional, as in the code; so is
  the completion of a row.
* In `Checkout` the checks of product, price, customer and branch are a
  nondeterministic refusal, and points are left out.
* In `SalesReturn` a draft may be replaced by any plausible lines, which is
  more than the service lets through: the quantities are decided at receipt.
  Values per unit are whole, so the rounding of a share is left out.
* In `StockDocuments` a count is exempt from the check for negative stock, and
  its difference is taken to the quantity at its creation, as in the code.
* `AllowNegative` is the setting `inventory.allowNegativeStock`, in `Purchasing`
  as in the other stock modules: with it the checks of outgoing goods are skipped.
  The runs take the default, FALSE; every theorem but
  `AverageBounded` holds for both values.
* In `CustomerPoint` the ledger is in the order of the commits. The code orders by
  `createdAt`, taken inside the lock of the customer; two entries in one
  millisecond, or from hosts whose clocks disagree, are left out.
* In `Access` a DELETE does not see what another transaction commits after it
  began, so two overlapping replacements of a role leave both sets of rows.
* In `TrialSignup` an answer to a commit is not lost; section 7 says what the
  code does when it is. A retry of a refused call keeps its proof.
* In `PaymentDialog` an attempt is a run of unchanged submissions since the form
  was opened or emptied: a content that is changed and changed back is a new
  intent, as the hooks have it. The exit animation of the dialog is left out.
* In `Backup` what pg_dump has written may reach the disk as late as the exit of
  the process, as the pipe is not awaited.
* In `Category` what a call reads is read at once, INACTIVE stands for DRAFT too.
* In `RefreshCoordination` a session and the access token issued with it bear the
  name of the request that made the call, so the cookie, the tokens in the tabs
  and the messages can be compared; a token's own life is left out, as every
  request starts where a token is missing or refused. "refresh-failed" and
  "logout" are one message because a tab receives them alike. A request is one
  use of `requestCoordinatedRefresh`; without Web Locks a closed tab's mutex is
  taken over when it is ten seconds old, which here is when nobody works on it.
* In `Quota` the last write and the commit are one step, removal stands for
  `softDelete` and for archiving a branch, and any kind may be restored.

## 3. Environment and fairness

Faults are a constant, so each run and theorem says which it admits: `crash`
(the process dies at any await), `stall` (a call is still at work when the two
minutes have passed), `redis` (deleting the cart fails), `lost_ack` (the commit
succeeds and its caller sees an exception), `overlap` (a cashier has several
calls open). Nothing in the code excludes the last: two calls of one cashier under
two keys both read the cart before either deletes it, and both sell its lines.
`LineSoldOnce` is therefore a statement about calls that do not overlap.

Fairness is assumed only in the liveness properties. `Checkout!FairSpec`: weak
fairness of the steps of a call, because the event loop runs a pending
continuation sooner or later; a crash disables them. No fairness is put on
retries, on time or on crashes. `Inventory!FairSpec`: weak fairness of a
transaction's statements and of PostgreSQL's deadlock detector; a waiting
statement is granted when the row is released. Losing the connection is never
required.

`RefreshCoordination!FairSpec`: weak fairness of what a request does next,
the answer to its call included: a tab runs its continuations and timers, and a
call is answered or runs into its eight seconds. Nothing is assumed of the
channel between the tabs, of the tabs' being closed, or of a 401 arriving.

All configurations have `CHECK_DEADLOCK FALSE`: the calls of an instance are a
finite set and each one ends, so every behaviour comes to rest.

## 4. Runs

Passing runs:

| run | instance | shows |
|---|---|---|
| `checkout_once` | 3 calls, 2 keys, 2 bodies, 1 cashier, crash and overlap | at most one invoice per key; a replay is of the same payload; FAILED means nothing was sold; COMPLETED is final; the key is released by the call itself; `IdempotentCommand` is implemented |
| `checkout_all_faults` | 3 calls, 2 keys, 2 cashiers, 2 lines, crash, stall, redis and lost_ack | what holds whatever fails: a COMPLETED row names a sale of its key, a voucher is used within its limit, a cart line is sold once unless the call was cut short |
| `inventory` | 3 transactions on 2 cells, documents of one and two lines in opposite lock order | committed stock equals its chain of movements and is never negative, `StockLedger` implemented, every transaction ends |
| `payments` | 3 calls, 2 keys, 2 amounts; crashes alone, or stall and lost_ack (to the database a crash is then a slow call that never returns) | whatever fails: paid never exceeds bought, one payload per key; where only crashes happen: only the owner fails a row, `IdempotentCommand` implemented |
| `returns` | 2 items, 2 returns, 3 calls, 2 keys, crash | returned within sold, restored once, refunds within the return; refunds under shared keys implement `IdempotentCommand` |
| `stock` | purchasing: 2 orders, 3 items, 3 returns, repeated lines included; documents: 2 warehouses, a transfer, a count, an adjustment, 3 calls, 2 prices | every document is posted to stock (and debt) exactly once; returns created one at a time stay within what was received; costs stay between the prices paid |
| `administration` | quota: 2 writers, 2 changes of plan, 2 kinds, 5 rows, 3 plans; points: 3 calls, deaths; access: 2 users, 2 changes, a login; signup: 2 codes, 2 verifications, 2 finalizations, 2 intents; forms: 3 submissions of 2 contents; backup: 2 runs, 2 restores, 3 seconds, one file kept | within the limits, no circular wait, one late row at most, a paid plan never expires; every balance is the sum of its points; no token grants what was taken away by a change carried through; one organization per code; one payment per attempt; the newest backups are kept |
| `tabs` | 2 tabs, one of them reloaded, 3 requests; a browser with Web Locks where calls are late or lost and tabs closed, and one without where tabs are closed; one call given up | with Web Locks: one call to the backend per generation; several tabs never log anybody out by themselves; every request ends |

Five runs put a choice in front of the behaviour instead of the configuration:
`focus` in `returns`, `stock` and `administration` picks the part that moves, the
others staying as they begin, `environment` in `payments` picks which faults
may happen, and `browser` in `tabs` whether there are Web Locks and which faults. The parts of one run share no state that a property relates, so
letting them move together would multiply the states and show nothing more; they
are given common values for their calls so that one symmetry serves all.

Runs that exhibit a disagreement between the code and its documentation:

| run | the disagreement |
|---|---|
| `checkout_redis_failure` | The catch block that fails the row also covers the deletion of the cart after the commit: when Redis fails there, a sold key becomes FAILED and may be used again. |
| `purchasing_race` | Two purchase returns created at the same time both pass the quantity check, which takes no lock. |
| `category_cycle` | `update` looks for a cycle among the rows that are not deleted: with A above B above C, B is archived and A moved under C, and the stored rows form a cycle; the implementation report of the categories calls that theoretical. One caller is enough. |
| `return_discounted` | A discount, voucher or points on the whole invoice is not spread over its items, so returning everything refunds more than was paid. |

**Bounds.** They bound the instance, not the code: numbers of calls, keys,
documents and rows (constants), `MaxDebt` (SupplierPayment), `MaxVersion`
(drafts in SalesReturn, writes in Category, where three let a row be created,
deleted and restored), `MaxBought` (StockDocuments),
`MaxSubmissions` (PaymentDialog), `LastSecond` (Backup), `MaxAbandoned` (tabs). Two calls are enough
for a race, the third is the retry that comes after it or overtakes it, and it
is what reclaims a row twice. Two keys show that keys do not touch each other
except through the voucher, the cart and the balance. A voucher limit of one
puts the last use in dispute, an initial stock of two the last unit. Two cells
and two-line documents give the shortest circular wait. Two prices are the
fewest at which an average can leave its range. Two writers, a limit of two
with one row taken and two changes of plan let a downgrade, an upgrade and
both halves of a last free place meet; the theorems about quotas hold for any
number. Two changes of roles and one login let a token be issued in the middle
of one change and outlive it, and two replacements of a role overlap; one
permission besides the owner's is one to lose. Two tries of a code against two
calls that verify it put its last try in dispute; two proofs, two intents and
two callers give every branch of the reservation. Three submissions are a
first, its repetition and one after the form was opened again. Keeping one
backup of one that exists makes two runs compete for the place. Two tabs with
three requests have one race between tabs and one inside a tab, and the third
request begins in the old generation, or in the one that the first left; one call
given up leaves a session in doubt that the next call meets. Symmetry is
used for sets whose members no definition tells apart, and never in a run with
a liveness property.

Every property of a passing run is paired in `PROJECT.json` with a mutant: an
operator of the module that alters one mapped definition the way a plausible
bug would, and under which the run refutes the property. The definitions named
"Mutant of ..." in the modules are these and are used by nothing else.

## 5. Proofs

TLAPS proves, for all values of the constants that satisfy the named `ASSUME`s
of the modules:

| module | theorems |
|---|---|
| `CheckoutProofs` | `TypeCorrect`; under every fault `VoucherNeverExceeded`, `CompletedRowSound`; under every fault but overlapping calls of one cashier `LineSoldOnce`; under `Punctual` (only crashes and overlapping calls) `OneSalePerKey`, `ReplayFaithful`, `FailedCertifies`, `CompletedStays`, `ImplementsAtMostOnce` |
| `InventoryProofs` | `TypeCorrect`, `LedgerFaithful`, `NeverNegative`, `WholeDocuments` |
| `SupplierPaymentProofs` | under every fault `TypeCorrect`, `NeverOverpaid`, `OneIntent`; under `OnlyCrashes` `OwnerAloneFails`, `ImplementsAtMostOnce` |
| `SalesReturnProofs` | whatever is slow or dies `TypeCorrect`, `NoMoreBackThanSold`, `GoodsBackOnce`, `RefundsCovered`; under `OnlyCrashes` `ImplementsAtMostOnce` |
| `StockProofs` | `TypesCorrect`, `ReturnedWithinReceived`; `DocumentsPostedOnce` if a count names the item once; `AverageBounded` if the stock may not go below zero |
| `AdministrationProofs` | quota: `TypeCorrect`, `NeverOverLimit`, `NeverDeadlocked`, `AtMostOneLateRow`, `PaidStaysActive`; points: `BalancesExplained`; access: `NoStaleGrant`; signup: `OneOrganization`; forms: `AttemptsPaidOnce`; backup: `NewestBackupsKept`; all of them: `TypesCorrect` |
| `RefreshCoordinationProofs` | `TypeCorrect`, `OneCall`, `NoLogout` |

**Checkout.** `VoucherLimit` is not inductive by itself: the commit may count
up only because the count remembered by the call was below the limit, and
because a call at its transaction has no invoice yet, so that the set of
voucher sales grows by exactly one. `SalesSound` adds both. At most one sale
per key needs to know who may still sell: `CInv` says that an undecided call
(between its reserve and its commit or failure) holds its row PROCESSING,
fresh and alone, that an invoice and the COMPLETED row of its key name each
other, and that a call past its commit or replay remembers that sale. `Punctual`
is exactly what the first of these needs: without `stall` a held row cannot
become stuck, without `redis` and `lost_ack` a call that reaches the catch has
sold nothing. The refinement follows step by step: a commit is `Execute`, an
answer or a replay is `Answer`, everything else stutters.

`CartLineSoldOnce` compares the lines of invoices, which the carts no longer
hold. `CartInv` follows a line through its life: the carts of two cashiers are
disjoint; what a call has read stays in its cart until the call deletes it, since
the cashier has no other call; and what a call that deleted its cart has sold is
in no cart again, since a line is a new one each time it is added. A call that
sells takes lines out of its own cart, so they are neither in another cashier's
nor among those sold before.

**Inventory.** `StockIsLedger` speaks of committed rows; a commit installs
drafts. `DraftsContinue` says that the draft of a held cell continues the
committed chain of movements, which holds because the row a statement matches
has the quantity that was read. The lemmas `ChainAppend` and `ChainConcat` carry
chains over an appended movement and over the concatenation at a commit.
`NeverNegative` adds that drafts and rows read are not negative and that the
line about to be written will not make them so.

`WholeDocuments` is the refinement of `StockLedger`, for documents of any number
of lines. `PostedSoFar` says of each transaction at work that some document and
some number n of its lines account for all it has written: the drafts of the
cells it holds are the committed quantities plus the `Total` of these lines, its
entries are `MovesAlong` up to n, and a cell it does not hold is named by none
of them. A cell has one holder, so no other transaction can move the committed
quantity that a draft was built on; this is where the lock matters. `HoldersWork`
says that who has ended holds nothing, so that a transaction begins with n = 0. A write
takes n to n + 1 (`OneMoreLine`), a commit comes at the last line and is `Post`,
every other step stutters: a rollback leaves no trace. `MovesAlong` is a
recursive function, so that it unfolds (`MovesUnfold`) has to be proved first: were
there a number of lines without such a function there would be a least one
(`LeastNumber`), and the function of one line less extends to it.

**Supplier payment.** `LockInv`: a call in its transaction holds the advisory
lock, what it read of the payments is still their sum, and what it read of the
debts is at most what was bought, since purchasing only adds to that and a
return only lowers the sum. Hence a covered payment keeps `paid <= bought`.
`IntentInv`: fingerprints agree between a row, the calls that own it and the
payments under its key, and a reclaim does not write the fingerprint. `OwnInv` is
about an environment in which calls may die but are never slow and every commit
is acknowledged: a call holds its row PROCESSING, fresh and alone until it has
paid, and a payment and the COMPLETED row of its key name each other. Only a row
without a living owner goes stuck there, so that nobody takes a held row, and a call
that reaches the catch has not paid. Commit is then `Execute` of the command.

**Sums.** Most properties of the documents compare a quantity with a sum over
documents, lines or payments. The library defines these sums by recursion over a
finite set, and an induction theorem that takes a formula as its parameter is
out of the provers' reach. `SumTheorems` gets round that: if the equation that
takes one element out of a sum failed, it would fail for a set with no smaller
counterexample (`SmallestSubset`, from the well-foundedness of strict inclusion
on finite sets), and that set reduces to smaller ones. From the equation follow
the lemmas that are cited everywhere: a sum over an empty set, over one more
element (`SumAdd`), after one value has changed (`SumUpdate`), of naturals,
of zeros, and between two functions of which one is never above the other. The
same argument on intervals gives every set of numbers its least one
(`LeastNumber`).

**Returns and refunds.** `ReturnsInv`: a call that posts a return holds the
advisory locks of its items, so what it found eligible is so when the return
becomes RECEIVED (`CheckedHolds`); a call between the lock of the return and the
insertion of a refund holds the row, and the refunds it read have not grown since
(`ReadHolds`), because a refund only becomes active under that lock.
`RestoredOnce` needs that a return restores at its one change to RECEIVED.
`RefundsWithinReturn` compares with a total that is fixed from then on. None of
it depends on the idempotency rows: `CommandInv` only adds where each call of
`RefundCommand` is in the transaction it drives. For `ImplementsAtMostOnce` the argument is the
one for payments: `InStep` says that the transaction runs exactly while its
call is in it, and the rest of `Inv` is what `OwnInv` is for payments.

**Purchasing.** `PurchasingInv`: stock and debt are the sums over the documents
in their present status (`StockExplained`, `DebtExplained`), preserved by each
transition because it changes one status and posts exactly the difference;
`ReceivedOnce` and `ReturnCreated` say that what a document posts is what it
was created with. For the quantities, `OneIsAlone` says that a creation that was
alone from its start has no other beside it, and `CheckedHolds` that what such a
creation has found free for its lines so far stays free: receipts only add, and
only another creation could take. A return whose creation was not alone may take too
much, which is the disagreement `purchasing_race` exhibits; `CarefulWithinReceived`
is therefore about the careful returns by themselves, and the property follows
since it speaks of items that nobody else has returned.

**Transfers, counts, adjustments.** A call reads its document before its
transaction and posts what it read, so the document may have moved on. `SeenBefore`
says that a version is at most what the row has now, and that equal versions
mean an equal row; the claim compares versions, hence what is posted is what
the row says (`ClaimSettles`). `TransferHistory` says which status has which
version and that an approved transfer has a cost. `DocumentsPostedOnce` assumes
`CountedOnce`, as the instance of `stock` does: an item submitted on two lines of a count
is posted twice by the code while its row keeps the second quantity
(section 6), so without it the statement is false. `AverageBounded` assumes
that stock may not go below zero, as `stock` does: a negative quantity
makes a weighted mean leave the range of what it weighs. `PricesInv` adds
`NeverNegative`, and `MeanBetween` shows that a mean of two costs, weighted by
quantities that are not negative and rounded as in `average-cost.util.ts`, lies
between them.

**Quota.** `LockInv` says who holds which advisory locks. Under it `RoomInv`
says that what a call has counted still holds when it writes, because only
removals need no lock; counting is carried over steps by lemmas on the
cardinality of the live rows. A change of plan holds every lock, so no call is
between its count and its write when the limits change. `OneLateRow` follows
because a call past the check holds the lock of its kind, and the next one sees
that the trial is over. For `NeverDeadlocked`, a waiting call that is waited for
must be a change of plan, since a creating call holds nothing while it waits; it
wants a resource later in the canonical order than any it holds. In a set of
calls that wait only for each other the one that wants the last resource would
wait for one that wants a later one; that such a last one exists follows from
`LeastNumber`.

**Access.** `StaleGrantRejected` says what holds when no change is half done, so
the invariant has to say what holds in between. `TokenInv`: a login or token
that holds what its user no longer has is of an old version, or its user is
`Threatened`, that is, a change has written its rows and has still to raise that
user's version. A change that dies there threatens nobody any more, which is
why the invariant speaks of states where none has (`Carried`, the property's
`Unfinished`). Reading the version before the roles is what carries the
argument: the mutant that signs the version read last refutes it.

**Trial signup.** `CodeInv`: the code in Redis has been proved by nobody and was
compared as often as its record says, and a code not mailed yet has not been
compared at all, so that saving it starts at zero. `RowInv`: a call between its
reservation and its commit owns a PROCESSING row alone, with its own intent;
a row is COMPLETED exactly when its proof has an organization. A dead owner
leaves its row PROCESSING for good, hence nobody else ever reaches the insert.

**Points.** `PointsLocked`: a call between its lock and its commit is the only
one there; `BalanceRead`: what it read is the last committed balance. So an
entry continues the sum before it. `EventsCommitted` says that an event carries a
balance the ledger has had, and that is all that holds of the cache: events
are handled in any order (section 6).

**Payment forms.** `SentKeys` and `FormKnown` tie what the form remembers to what
was sent: a fingerprint in the form belongs to the key next to it. From them
`OneContent` (a key is sent with one content) and `OneKey` (an intent that is
repeated while its form stays open is sent with the key it had) carry over each
step, and the promise of the server per key does the rest.

**Backup.** `OldOutdated`: what a run has read as old has enough newer files
beside it, and `NewestKept` that the newest are there: a run deletes only
what others outnumber, and others delete no more than that. `PartialOwned` and
`RestorerHasDatabase` say which run a `.partial` file and which restore
a database belongs to.

`administration` composes six components that share no state. `BehavesAsEach` shows
that a behaviour of the composition is one of each of them, so a theorem about one
carries over to the run, and `TypesCorrect` is stated for the composition.

**Tabs.** `OneCallPerCycle` compares any two calls, past ones too, so the
invariant has to say what a finished call leaves behind. `CycleInv`: with Web
Locks whoever decides, refreshes or listens has the lock; a generation is the
stamp of a request that is past its call; and a call that is over has left the
generation in which it began to wait. Then a request that finds the generation
unchanged under the lock is the first of its generation to call, unless the one
before it was closed. `Harmless` is about the time before any call is given up,
which is a prefix of the behaviour, since `abandoned` only grows: the one call
underway belongs to the request that refreshes and carries the live cookie, and
only good news is in the channels. Without Web Locks neither holds (section 6).

**Only model-checked.** Liveness (`KeyReleased`, `EveryTransactionEnds`, `EveryRequestEnds`): the
prover does not reach fairness and ENABLED. `OnlyOwnerFails` and `ImplementsCommand` of `payments`
are stated in `MCSupplierPayment`, for the environment a behaviour of that run has
chosen; the theorems `OwnerAloneFails` and `ImplementsAtMostOnce` state the same of
`SupplierPayment` itself.

## 6. Disagreements without a run of their own

Met while modelling, each with the place that says otherwise:

* A slow call completes the checkout row another payload has reclaimed, by id
  only (`prisma-checkout-operation.repository.ts:98`); the second payload is
  then replayed the first one's sale, against `RFC-T013-sales-foundation.md`,
  section 19, principle 3. A slow payment fails a reclaimed row the same way
  (`prisma-supplier-payment-operation.repository.ts:102`). `stall` is
  what separates `checkout_once` from `checkout_all_faults`, and the two
  environments of `payments`.
* One item on two lines of a purchase return is checked line by line
  (`prisma-purchase-return.repository.ts:47`), against
  `T045-PURCHASE-DOMAIN-SPEC.md:175`. `Lines` of `stock` contains such
  returns and `ReturnsOneAtATime` excludes them.
* The compare-and-swap of the stock compares the quantity only
  (`prisma-inventory.repository.ts:175`): after a change and its reversal a
  stale average cost is written.
* With negative stock allowed the moving average
  (`average-cost.util.ts:18`) may leave the range of the prices paid: one unit
  short at 5 and two bought at 7 give an average of 9. `AverageBounded` and the run
  `stock` are about stock that may not go below zero.
* A count posts the difference to the quantity at its creation
  (`prisma-stock-count.repository.ts:213`): movements during the count shift the
  result, which may be negative; an item submitted twice is posted twice.
* The comment on `runBackup` (`backup-runner.ts:57`) says that a failed backup
  keeps its `.partial`; the code removes it, unless the run dies. A full disk
  raises an error nobody handles and leaves the file. The exit of pg_dump does not
  wait for the last bytes, so a verified and renamed file may still be cut off if
  the process dies at once; a restore that dies leaves its database half filled.
* The mutex in localStorage is a read, a write and a read
  (`auth-coordination.ts:273`), so two tabs of a browser without Web Locks can
  both hold it and both call with the same cookie, and the later call may raise
  the alarm about reuse. The comment at line 323 and SPEC-T031, FR10, promise
  one call. `OneCallPerCycle` as an invariant of `tabs` shows it in eleven steps.
* There, a second request of the tab that holds the mutex waits for a "storage"
  event, which a browser sends to other tabs only, and one that waits for a tab
  that was closed waits for an event nobody causes: both hang, against
  `FRONTEND_FOUNDATION_RC1_REPORT.md:35`. This is why `EveryRequestEnds` asks for
  Web Locks.
* A refresh that runs into its eight seconds or a broken network is reported as
  failed and logs every tab out, while the comment at `api-client.ts:191` keeps
  that for a failure the backend reports; a lost answer also leaves the browser
  with a cookie that has been used up, and the next refresh raises the alarm.
* Two events of the points of one customer handled out of order leave
  `totalPoint` at the older balance for good (`customer-point.subscriber.ts:27`),
  while `prompt-032-report.md:75` says that it can only be late.
* Two categories moved under each other at the same time close a cycle as well
  (`category.service.ts:154`), with no deletion involved.
* Two branches archived at the same time can leave no active branch
  (`prisma-branch.repository.ts:166`).
* A purchase return credits quantity times unit cost while its order was charged
  less a discount (`purchase-order.service.ts:94`); `Purchasing` has discounts,
  and `DebtExplained`, a part of `PostedOnce`, states the rule as the code has it.

## 7. Not modelled

`PROJECT.json` lists every component with the reason. The map covers a small
share of the lines of the repository because most of them hold no behaviour to
check: forms, tables and pages of the frontend, DTOs and their validation,
mappers, reports, and master data that is written one row at a time under a
version. What is left out, and why:

* *Pure parts*: discounts, entitlements, reports, logs, metrics. Codes from
  `sequence-code-generator.service.ts` are unique by one atomic upsert outside
  the transaction that uses them. The functions that find stuck rows or delete
  expired ones are called by no code.
* *Logout, lists of sessions, password reset, mobile clients.* A refresh checks
  its session and revokes it later, so one that overlaps a logout of all sessions
  survives it, or raises the alarm after it; the attempts at a reset code are read and
  written apart, which the comment at `redis-signup-otp.repository.ts:15` says
  itself. The code has no guard here that a property could hold it to.
* *A role change whose process dies* between the rows and the version leaves
  tokens accepted with what was taken away; `StaleGrantRejected` speaks of
  changes carried through (`Unfinished`). The check that the owner keeps
  `role:update` reads what a concurrent change removes, so two changes together
  can take it away.
* *Trial signup beyond the model*: a commit whose answer is lost is followed by
  `markFailed`, which overwrites COMPLETED, and the proof may be used again; a
  call that dies leaves its row PROCESSING for good; INCR and EXPIRE of the send
  count are two calls, and a death between them keeps the address from asking
  again.
* *Carts.* Changes load and save the whole value: overlapping ones are lost. In
  `Checkout` a line is added in one step.
* *Branches and warehouses* beyond the quota: the guards against archiving the
  last branch, or a branch with live warehouses, count and then write, each call
  for itself.
* *Bootstrap, queue, mail, websocket*: one-off tools and delivery.

## 8. Plan

Order of what exists: Checkout with its abstract command, Inventory with its
ledger, SupplierPayment, Purchasing, SalesReturn, StockDocuments, Quota; then
RefundCommand, CustomerPoint, Access, TrialSignup, PaymentDialog, Backup,
Category and RefreshCoordination: money first, then goods, then limits, then what
surrounds them. Next,
in order:

1. Proofs: the two properties of `payments` in the form that run states them.
2. `DiscountEngine` as operators checked against a reference.
3. Logout, branches and carts, once the code promises something of them.
