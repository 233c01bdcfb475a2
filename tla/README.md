# The store and the programme of Aryavartham, in TLA+

Formal models of the backend (`src/backend`, NestJS on PostgreSQL): the shop, and the
batches, teams and companies of the programme. They are checked with TLC and, in part,
proved with TLAPS. The models are written from the
code; `docs/COMMERCE_ARCHITECTURE.md` and the comments in the code are used as the
statement of what it is meant to do. Where the two disagree, the model follows the code
and the disagreement is listed below.

## 1. The system

The repository is the backend and the web client of a programme for young founders and
of its shop. The backend is one NestJS process, run in several replicas behind a load
balancer; all durable state is in PostgreSQL (READ COMMITTED), Redis holds sessions and
the leader locks of some crons. Everything hard about it happens between database
transactions of concurrent requests, webhooks and crons.

| Component | State | Operations | Talks to |
|---|---|---|---|
| inventory | `stock_levels` (onHand, reserved, version), `stock_reservations`, `stock_movements` | reserveMany, releaseReservation, commitReservation, restock, receiveStock, adjust, transfer | called inside the transactions of orders, returns, purchasing |
| cart, coupons | carts and their items, coupons, redemptions | add, remove, apply, convert; validate, redeem, expire | checkout |
| orders | `orders`, `number_sequences`, order events | checkout, Razorpay webhooks, transitionStatus, refundOrder | inventory, cart, coupons, Razorpay, shipping, returns |
| store-jobs | none of its own | reservationExpiry (5 min), reorderAlerts (daily), courierSync | orders, inventory, purchasing, shipping |
| returns | `return_requests`, `return_items` | request, approve, reject, in transit, receive | orders.refundOrder, inventory.restock |
| shipping | `shipments`, `shipment_events` | ship, ingestWebhook | orders.transitionStatus, courier |
| purchasing | suppliers, purchase orders, lines | create, place, cancel, receive, reorderToDraftPo | inventory.receiveStock |
| invoicing, tax | invoices, `invoice_sequences`, PDFs | issue, credit note; GST of a line | orders, returns, object storage |
| reviews | reviews, helpful votes, rating of a product | submit, vote, moderate | catalog |
| batch, applicant, eligibility | batches, statuses of applicants, the queue `batch-queue` | sign-up, capacity check, screening, removal, cascade | team, notifications |
| team, matching, mentor | teams, departments, requests | match, move, lock, request, approve, remove | applicant, election |
| election | elections, nominations, votes | start, nominate, vote, advance | team |
| equity, automation | companies, holders, equity events, timers | create, record event, vest, timer, approve, hand over | team |
| payment | pledge of an applicant | createOrder, webhook | Razorpay, applicant |
| store-auth, auth | customers, refresh tokens | login, refresh, logout | cart (merge) |
| the rest | catalog, content, settings, notifications, realtime, analytics, web client | CRUD, reads, best-effort messages | |

**How they interact.** A checkout reads the cart without a lock, then in one transaction
locks the cart, draws an order number, reserves stock, redeems the coupon and converts
the cart; the Razorpay order is created after the commit and its id patched on. The
webhook of Razorpay compares-and-sets the order and commits its reservations; the
expiry cron releases reservations after 30 minutes and cancels unpaid orders after 45;
the administrator moves and cancels orders. A shipment and a courier webhook drive the
order to DELIVERED; a return claims delivered units, pays back through `refundOrder` and
puts units on stock; a purchase order brings units in.

**What keeps them apart.** Advisory locks (one per stock row, per order status, per
cart, per return, per purchase order, per shipment), compare-and-set updates (`version`,
`status`, `refundedTotal`, `restocked`), row locks of plain updates. Not every writer of
a row uses the same one of these, and calls to Razorpay lie outside of every
transaction. The hazards in `PROJECT.json` name each line where this bites.

**What makes each part correct.**
- *inventory*: reserved is the sum of the active reservations, never exceeds onHand; a
  reservation ends once; the movement ledger explains both counters; primitives are
  atomic and do not deadlock.
- *checkout*: one order per cart, gapless numbers, coupons within their limits, no
  discount without a redemption; the order is what the customer saw.
- *orders*: legal transitions only, holds end with PENDING_PAYMENT, units are sold once
  and come back when a paid order is cancelled, unpaid orders end.
- *returns*: never more units than ordered, never more money than collected, units put
  back once, a received return is settled in the end.
- *shipping*: one live shipment per order, its status never goes back and catches up
  with the timeline, a delivery reaches the order.
- *cohort*: one batch open, one follow-up of each full batch, counters that add up, as
  many members as seats.
- *team*: a request moves its member once, a locked team stays as it is, no team is
  overfilled, a department has one holder.
- *equity*: stakes always make up the company, aggregates and audit follow, nobody gives
  more than his part, nothing vests beyond a stake.
- *invoicing, reviews, election*: gapless numbers and one document per event; a rating that
  is the sum of what was approved; a leader who won the election.
- *purchasing*: never over-received, stock is what the lines say, a cancelled order
  stays cancelled, no duplicate drafts.

## 2. The modules

### Stock — the tables of the stock engine
What Inventory and InventoryTx share: the keys (pairs of SKU and warehouse), the rows of
`stock_reservations`, the totals of `stock_movements` and what `writeMovement` does to
them, and `Demands`, the coalesced line sets.

### Inventory — the contract of the stock engine
Every primitive is one atomic action (`ReserveMany`, `ReleaseReservation`,
`CommitReservation`, `Restock`, `ReceiveStock`, `Adjust`, `Transfer`, and `SeedLevels` of
the catalog). `rows`, `onHand`, `reserved` are the columns of `stock_levels`, `res` the
reservations, `ledger` the movements of a row reduced to their totals and the last
`balanceAfter`. This is what callers rely on; it is also the abstract specification
InventoryTx implements.

### InventoryTx — the engine, statement by statement
A process is a database session; `ReadReservation`, `TakeLock`, `ReadLevel`,
`UpdateLevel`, `FlipReservation`, `Commit`, `Abort` are its SQL statements. Writes stay
in the session (`newLevel`, `newRes`) until `Commit`, and a row written by one session
blocks the others, as at READ COMMITTED. The advisory lock is `hashtext(key)`, a constant
of the model, so that collisions can be given to it. The refinement mapping is on the
committed tables; `ImplementsInventory == Tables!Spec`.

### OrderPayment — one order from commit to delivery
`job[w]` is the transaction of session `w`: a webhook (`WebhookCas` first, so it holds the
row), a transition (`TransitionLock`, `TransitionRead`, lines, `TransitionWrite`: an
unconditional write), or the expiry of one reservation. `ListHolds` reads the
reservations once, `ReadHold` and `FlipHold` are the unlocked and the locked read of a
primitive. `Pay` is the environment: an attempt may fail or be captured, and every
webhook may arrive any number of times. `taken` counts the units the order has out of
stock, so that what the two tables say can be compared.

### Checkout — from the cart to the unpaid order
Edits of a cart are a check (`StartEdit`) and an unconditional write (`WriteEdit`).
`ReadCart` stands for phases 1 to 6, which take no lock; `LockCart`, `FindExisting`,
`NextNumber`, `Place` are the transaction; `PatchRazorpayOrderId` follows the commit.
Everything after `NextNumber` is one step, because the row of the sequence is held until
the commit and every checkout needs it.

### ReturnRefund — returns and the money
One delivered order with one line. `ClaimReturn` (also the re-entry), `ReserveRefund`,
the call to Razorpay (`RazorpayPays`, `RazorpayRefuses`, `AnswerLost`), `Compensate` or
`FinalizeOrder`, `RestockItems`, `FinalizeReturn` are separate steps because they are
separate transactions; `Die` may come between any two.

### Shipping — parcels and the reports of the courier
`ReadOrder` and `Ship` are ship() before and inside its transaction. A webhook is
`Receive`, one `InsertEvent` for each report, `Advance`, `CheckOrder`, `Deliver`,
`Acknowledge`: each commits by itself. The text of a report is the set of the keywords it
contains, which is all that `mapStatus` looks at.

### Purchasing — goods coming in
`StartDraft`, `CheckSupplier`, `InsertDraft` (by an administrator or by `Reorder`, the
cron), `PlacePurchaseOrder`, `StartCancel` and `CancelPurchaseOrder`, `StartReceive` and
`ReceivePurchaseOrder`. Only the receipt holds `po_receive_<id>`.

### Cohort — batches, seats and the queue
`ReadFilling`, `Mint`, `Join` are a sign-up; `Take` starts a job of `batch-queue`, which
is retried `Attempts` times and then lost (`Fail`). `CheckCapacity`, `Recount`,
`FlipFull`, `MakeNext` are checkAndCreateBatch: the flip and the next batch are separate
transactions. `StartBackfill` reads the candidates of a cascade and `MoveOne` moves them
one transaction at a time. `RemoveApplicant`, `RemoveNonResponders`, `HardDelete` and
`RemoveTeam` take people out and write the counter; `RecordDecision` (a rejected interview)
takes one out and does not; `RemoveTeam` alone queues no cascade, so its seats stay empty.
`drift` names the paths that are known to leave the counter wrong (an OTP sign-up and a
rejected interview are not counted, for two), so that `CountersAddUp` speaks about all
others: with `drift` empty, the clamp of removeTeam at the counter never takes effect.
formTeams and executeMatch are in Cohort by their effects only: they write statuses as
`SetStatus` does and close the batch as `TransitionStatus` does.

### Team — who is in which team
A call is its reads and its write, two steps; what it read is in `job`. `latch` is the
advisory lock of the *source* team, which approvals and lockTeam take and matches, moves
and removals do not. A SERIALIZABLE move is `doomed` when a row it writes was written
since its snapshot.

### CapTable — the equity of one company
`TakeLock` reads the holders under `equity_<company>` and computes all that the commit
will write; `CommitEvent` writes it. `StartHandover` and `ExecuteHandover` are the same for
the handover, by an administrator or by `Sweep`, the cron. The timer, vesting and the
status of the company are read and written outside of that lock. The leftover units of a
split go to any holders, because the query that lists them has no order.

### Invoicing, Reviews, Election
Three smaller modules, each with a configuration of its own name. They have the same
shape: a request reads, and writes later what follows from that read.

`PROJECT.json` maps every definition to its lines. The `MC…` modules only give constants
their values. Definitions marked *Faulty* are plausible bugs; each stands before the
definition it would replace and shows that a property notices it.

## 3. What is checked

| Run | Question | Size |
|---|---|---|
| `inventory` | Do the primitives, in any order, keep counters, reservations and ledger together? | 1 SKU, 2 warehouses, 3 reservations |
| `inventory_tx` | Are they atomic at the grain of statements, does the compare-and-set never lose, is there no deadlock? Refines `Inventory`. | 2 rows, 2 sessions, all primitives, aborts anywhere |
| `order_payment` | Do webhooks, cron and administrator, at once, keep the order, its reservations and the stock together, and does every unpaid order end? (also liveness) | 2 lines, 3 sessions, 1 abort |
| `checkout` | One order per cart, gapless numbers, coupon limits under double submits and deaths | 2 carts of one person, 2 requests, 1 unit |
| `returns` | Cap, units, rounding, settlement with refusals, a lost answer and a crash | 2 returns, 2 sessions, 3 units |
| `returns_double` | Is a return paid once? It is not: see section 4 | 2 receipts of one return |
| `shipping` | Two clerks, an administrator and two webhooks with one fault | 1 order, 2 AWBs, 3 reports |
| `shipping_live` | Without faults a recorded delivery reaches the order (liveness) | 2 reports |
| `purchasing` | Do receipts, cancels, drafts and sales keep orders and stock together? | 2 SKUs, 2 sessions, 2 orders |
| `cohort` | Is one batch open, is each full batch followed up once, do the counters add up? | 2 people, 2 batches of one seat, 1 job in the queue |
| `team` | Do requests move once and never out of a locked team, do moves respect the size? | 2 members, 2 teams of one, 1 request |
| `equity` | Do stakes, aggregates and audit rows agree, is a dilution fair? | 2 founders, 6 units, 4 events |

Invoicing, Reviews and Election have a configuration each and no line in this table; what
holds of them is in section 4, with what does not.

**Bounds.** Every bound is a constant with a name (`MaxQty`, `MaxOnHand`, `MaxAborts`,
`MaxEdits`, `MaxFaults`, …). Each hazard needs two actors on one row, and the third
session of OrderPayment lets administrator, webhook and cron meet. Two lines are needed
for a partly finished transaction; two returns of three units for rounding and for the
tally; three reports for a status that is overtaken and for a second delivery. `version`
is kept modulo a small number, which only makes the compare-and-set weaker.
CHECK_DEADLOCK is off where the modelled work ends: a sold cart, a settled return, a
shipped order, the last purchase order. `SYMMETRY` is used for clerks, hooks, sessions and
SKUs in runs of safety properties only; nothing in those modules tells them apart.

Three runs have a VIEW, which leaves out of a state what neither a guard nor a property
of the run reads, and so merges only states with the same future: vestedPct in `equity`,
memberCount in `team`, and in `cohort` the counters once they are known to have drifted
(no guard reads currentCount: a capacity check counts anew, and removeTeam reads it only to
write it), which of the batches an administrator made, and the queue job in hand when a
failure would not queue it again.

**Fairness.** `PendingEnds` (`order_payment`) assumes that time passes, that the cron fires,
that a session which again and again can run its next statement does (PostgreSQL serves
lock queues in order), that the deadlock detector aborts a session of every circle, and
that requests about one order stop some day. Nothing is assumed of customers or of
Razorpay. A death of the checkout before the id is patched is one of the cases covered.
`shipping_live` assumes that a webhook being handled is handled to its end; no report has
to be made.

**Properties worth a second look.** `HoldsEndWithPending` relates the order to its
reservations whatever session moved it; `SoldOnce` relates both to the stock;
`PaidLosesOnlyExpired` says that a live paid order lacks a line for one reason only;
`CapCoversMoney` bounds the money out and in flight by `refundedTotal` at every instant, also
between the parts of a refund; `CouponWithinLimits` holds although every validation is
stale by the time it is used; `FrozenAgainstRequests` holds whenever the lock of a team
lands, because both sides take the lock of the source team; `CountersAddUp` holds through
cascades that are retried in the middle; `TableSums` holds although only changed rows are
written; `StatusCaughtUp` holds although the status is read before
the lock and events arrive in any order.

## 4. Disagreements between the code and what is said of it

One is a run of the project (`returns_double`, with the quotation in `PROJECT.json`): two
receipts of one return both pay it (`returns.service.ts:747`), where the comment at 705
says that a retry does not double-pay.

The others are reproduced by a configuration kept beside the modules
(`tlc -config <file>.cfg <module>`). Each configuration lists every property that TLC
refutes for its module, and stops at the first; leave one to see its counterexample.

| Configuration | Refutes | What happens |
|---|---|---|
| MCInventoryTxCapture | NoDeadlock | A capture commits reservations in the order of an unsorted query (orders.service.ts:778-790); two captures deadlock. |
| MCOrderPaymentRefuted | PaidOrderHasStock | A capture between 30 and 45 minutes confirms an order whose reservations have expired. |
| | CancelReturnsStock | A cancel of an unpaid order races its capture: consumed units are neither released nor restocked. |
| | CronSparesPaidOrders | The cron cancels an order paid after it was listed; store-jobs.scheduler.ts:109 relies on an illegal-transition guard, but CONFIRMED to CANCELLED is legal. |
| | NoLockCycle | Webhook: order row, then stock lock. Cancel: stock lock, then order row. |
| MCReturnRefundRefuted | FailedAttemptFreesCap | The compensation matches nothing once another refund was reserved. |
| | NeverOverRefunded | An answer of Razorpay is lost; the retry pays again. |
| | RefundedOrderStays | Two refunds finalise in the other order: REFUNDED becomes PARTIALLY_REFUNDED. |
| | ReceivedIsSettled | The node dies after a full refund was paid; retries stop at the cap for ever. |
| MCCheckoutRefuted | OrderIsItsCart | An item added between the read of the cart and its conversion is lost. |
| | DoubleSubmitReuses | The second submit comes before the Razorpay id is patched and fails instead of reusing. |
| MCShippingRefuted | OutForDeliveryIsNotDelivered | "out for delivery" contains "deliver", which is looked for first (shipping.service.ts:94). |
| | DeliveryReachesOrder | A death between event and delivery: the redelivered event is a duplicate and the order stays SHIPPED. |
| | FailedIsReshippable | ship() wants PACKED, an order whose parcel failed is SHIPPED. |
| | EventsOnce | Without id and time, the hash is one of the time of arrival. |
| MCPurchasingRefuted | CancelledStays | The receipt overwrites a CANCELLED that came after its read. |
| | NoDuplicateDraft | Two replicas of the reorder cron draft the same SKU. |
| | NoOrderToInactiveSupplier | The check inside the transaction takes no lock. |
| MCCohortRefuted | CohortSize | No sign-up looks at the count: people join until the queued check has closed the batch, and also after, when they had read it open. |
| | SeatsRefilled | Two cascades for one batch read the same candidates; the second finds them gone and the seat stays empty. |
| | FlippedWasFull | The count and the flip are two statements, and a removal takes no `batch_create` lock. |
| | PhasesInOrder | transitionStatus checks a phase it read and writes without comparing it. |
| | ScreeningSparesRemoved | A removal between the read and the verdict is overwritten by the verdict. |
| MCTeamRefuted | NeverOverfilled | The recount in the transaction is of committed rows; two matches pass it together. |
| | DepartmentOnce | Two members pass the check of one department. |
| | CountTellsMembers | A removal by status, or of a whole team, leaves memberCount as it was. |
| | FrozenOnceLocked | A match, move or removal checks isLocked before the lock lands. |
| | LockedIsComplete | lockTeam reads its members before it writes isLocked; one leaves in between. |
| | VerdictStays | A rejection does not compare the status and overwrites an approval. |
| MCCapTableRefuted | VestedWithin | The stake shrinks between the read and the write of vestedPct. |
| | TimerStartsOnce | Two calls both read a timer that does not run; the second moves its start. |
| | AuditIsOfItsTime | The row of a vesting or an override has the aggregates that were read before, without the lock. |
| | HandoverVestsInFull | computeVesting after the handover writes the schedule's part over what was vested in full. |
| Invoicing | OneInvoicePerOrder | The second look (invoicing.service.ts:204, 349) comes before the lock of the series; two calls both issue. |
| | PdfNamesBuyer | The fast path of a credit note (332) renders `buyerName`, which is the marker CN:<return>. |
| | OnePutInFlight | Two calls find no key and both upload. |
| Reviews | RatingIsApproved | moderateReview reads the review before the lock and never again, although its comment says "Re-read the review UNDER the lock": two approvals count it twice. |
| Election | OneActiveElection | Two starts both find no active election. |
| | NoLateVote, WinnerHasMost | A vote passes its check, the election is tallied and finalised, the vote is written. |
| | SoleIsUnopposed | A nomination arrives between the read of the sole nominee and his election. |

What holds of the last three: of Invoicing, SeriesIsGapless and IssuedForever; of Reviews,
HelpfulIsVotes, and RatingIsApproved with a single moderator; of Election, FinalizedOnce
and LeaderWasElected. Two more configurations hold: MCInventoryTxReceipt (sorted receipts of
several lines do not deadlock) and MCReturnRefundRetry (with one session and refusals
only, receiving again settles a return). `hashtext` is a constant of InventoryTx: where two
keys collide, the ascending order of the keys is not one of the locks, and NoDeadlock
does not hold (inventory.service.ts:154-156 calls collisions harmless).

Reading the programme's code for Cohort showed more facts that are no property of the
model: approveBatch wants `consentGiven`, which nothing sets; a process that dies
after the flip of a full batch has opened no next one, until a sign-up does; and a rejected
interview (interview.service.ts:122-126) leaves currentCount as it was, and the replacement
it queues (163-164) is then counted as well.

## 5. What is proved

InventoryProofs proves, for every set of SKUs, warehouses and reservations and every
bound, from `InventoryAssumption` only (there is a key, the bounds are natural numbers):

| Theorem | Says |
|---|---|
| `TypeCorrect` | `Spec => []TypeOK` |
| `ReservedIsSumOfActive` | `Spec => []HeldIsReserved` |
| `NeverOversold` | `Spec => []NoOversell` |
| `LedgerCorrect` | `Spec => []LedgerExplainsLevel` |
| `NeverStranded` | `Spec => []NoStrandedReservation` |
| `TerminalIsFinal` | `Spec => FinishedOnce` |

The argument: `IInv` is the conjunction of TypeOK, HeldIsReserved, NoOversell,
LedgerExplainsLevel and `ActiveHolds` (an active reservation holds at least one unit).
The sum of the reservations of a row is the cardinality of a set of units, `HeldUnits`,
so that no induction over data is needed: finishing a reservation removes exactly its
units (`FinishHeld`), reserving adds disjoint ones (`ReserveHeld`), every other
primitive leaves them alone (`SameHeld`). HeldIsReserved is what makes release and
commit safe: a reservation's quantity cannot exceed the counter. NoStrandedReservation
follows from the invariant and is not inductive alone.

Its second part is about InventoryTx, for every number of sessions and every table, from
`InventoryAssumption` and `InventoryTxAssumption` (ids are natural numbers, a version has
two values or more):

| Theorem | Says | Assumes also |
|---|---|---|
| `SessionsTypeCorrect` | `TxSpec => []TxTypeOK` | |
| `CompareAndSetHolds` | `TxSpec => []CasNeverLoses` | |
| `OneCallIsAtomic` | `TxSpec => ImplementsInventory` | `MaxCalls = 1` |
| `NoCircleOfWaits` | `TxSpec => []NoDeadlock` | `MaxCalls = 1`, finitely many sessions, `Unhashed` |
| `NoCircleOfReceipts` | `TxSpec => []NoDeadlock` | `NoFinish`, finitely many sessions, `Unhashed` |

- `TypeInv` is TxTypeOK and that a busy session has a call. `LocksInv`: a lock has one holder
  (`Exclusive`), and a session holds the locks of the rows it has written, and from `level`
  on of those it will write; the version it read is then the version of the row it
  sees (`OwnLocks`). Two sessions that meet at a row would both hold its lock, and
  CasNeverLoses follows: for any number of calls, and whatever keys hash to one lock.
- `SingleInv` says what a transaction of one call has done so far: the rows it has written are
  `Changed` by its `Plan` over the committed rows, those left are still to be changed by it,
  and each reserved line has inserted one reservation (`Lines`). It survives the commits of
  others because the rows it speaks of are locked, and because a reservation once read
  keeps its key and quantity (`PlanStays`): a reservation is read before any lock, and only
  its status can be stale. When the transaction is `Done` its commit applies the plan at once
  (`CommitApplies`) and each kind of call is shown to be the action of Inventory of that name
  (`ReserveMaps`, `FinishMaps`, `OneRowMaps`, `TransferMaps`); every other step of a session
  leaves the committed tables alone, and CreateSku is SeedLevels. A transaction of more
  calls commits several actions of Inventory at once, so the refinement is of one call.
- `AscendingInv`: the locks a session holds are all before those it wants. `CompareAndSetHolds`
  leaves no wait for a stock row, `FlipFree` none for a reservation, so that all waits are for
  locks and go up in the order of lockKeys; finitely many sessions cannot all wait.
  The assumptions are needed: with two calls MCInventoryTxCapture.cfg finds a deadlock, and
  `Unhashed` (different rows have different locks) fails when hashtext() collides, where two
  reservations of two lines can deadlock (section 4).
- `ClimbingInv` does the same for transactions of any length in which no call finishes a
  reservation (`NoFinish`): the receipts of receivePurchaseOrder, beside single reserves,
  restocks, adjustments and transfers. The rows a session has locked are before those
  it wants and before those of every call to come (`Below`), because the lines of a receipt
  are sorted (`TransactionsInOrder`). The hypothesis is the one the capture of an order
  fails: its commits come in the order of the reservations, not of the rows.

ShippingProofs proves, for every set of orders, AWBs, clerks, hooks and reports and any
number of faults, from `ShippingAssumption` only (no order is called "none", the reports
are about AWBs, in words of the table of keywords, at times that are natural numbers):

| Theorem | Says |
|---|---|
| `TypeCorrect` | `Spec => []TypeOK` |
| `OneParcel` | `Spec => []OneLiveShipment` |
| `NeverShippedCancelled` | `Spec => []CancelledIsNotShipped` |
| `StatusRises` | `Spec => NeverRegresses` |
| `StatusCatchesUp` | `Spec => []StatusCaughtUp` |
| `DatesStay` | `Spec => DatedOnce` |

Its `IInv` adds to TypeOK and OneLiveShipment what the code relies on without saying it:
`RowsExist` (an AWB with no row is blank; whatever is reported or handled has a row) and
`Underway` (the order of a shipment is SHIPPED or DELIVERED). CancelledIsNotShipped alone is
not inductive, since nothing in it keeps the order of a shipment out of PACKED, from where it
could be cancelled; Underway is, because no transition leads back. Every change of a row is
Ship's, on a blank row, or Advance's, which keeps the higher rank (`AdvancedRow`); a
parcel that is FAILED or RETURNED outranks every live one, so Advance never revives it and
the check of ship() for a live shipment is enough. `MapStatusType` shows that every text has a status.
StatusCaughtUp speaks only of moments when nobody works on the shipment, and is not inductive.
`EventsCarried` is: unless a fault has happened, an event of the timeline is
outranked by its shipment or carried by a hook that has still to advance it (`Covers`).
A hook that advances ranks all that it carried, and a status never sinks (`RankedStays`).

TeamProofs proves, for every set of members, teams, sessions and departments and any
number of requests, from `TeamAssumption` only:

| Theorem | Says |
|---|---|
| `TypeCorrect` | `Spec => []TypeOK` |
| `MovedOnce` | `Spec => []RequestMovesOnce` |
| `NeverOutOfLockedTeam` | `Spec => FrozenAgainstRequests` |
| `MovesWithinCap` | `Spec => MoveWithinCap` |

Its `IInv` adds to TypeOK and RequestMovesOnce three facts about sessions: `Named` (what a
record asks for exists), `Holding` (who is approving or locking holds the advisory lock
of the source team) and `ClaimStands` (from the claim of a request until its commit
the request is PENDING and its source team is not locked). The last is
the reason for the lock: of two approvals only one can hold it, and lockTeam waits for
the same one. For MoveWithinCap, `MovingFits`: a SERIALIZABLE move that is not doomed still has a
place in its target. Whoever joins that team meanwhile writes a row the move writes too,
and dooms it (`MoveKeepsFits`).

PurchasingProofs proves, for every set of SKUs and sessions and any number of orders and
units, from `PurchasingAssumption` only:

| Theorem | Says |
|---|---|
| `TypeCorrect` | `Spec => []TypeOK` |
| `WithinTheOrder` | `Spec => []NeverOverReceived` |
| `StatusIsTrue` | `Spec => []StatusTellsReceipts` |
| `StockIsReceipts` | `Spec => []StockIsWhatWasReceived` |

Its `IInv` is TypeOK, `Named` (a cancel and a receipt are of an order that exists, a receipt
is of something), NeverOverReceived and StatusTellsReceipts, which are proved together:
a DRAFT or SUBMITTED order has received nothing, and that is what a cancel needs. The
stock is again the cardinality of a set of units, `ReceivedUnits`; StockIsWhatWasReceived is
inductive under IInv, because a receipt adds units disjoint from those the line had.

CheckoutProofs proves, for every set of workers, carts, customers and SKUs and every limit
of the coupon, from `CheckoutAssumption` only:

| Theorem | Says |
|---|---|
| `TypeCorrect` | `Spec => []TypeOK` |
| `OneOrderEach` | `Spec => []OneOrderPerCart` |
| `NoGaps` | `Spec => []NumbersGapless` |
| `CouponLimited` | `Spec => []CouponWithinLimits` |
| `DiscountsPaid` | `Spec => []DiscountsAreRedeemed` |

Its `IInv` has three parts. `Tables`: the rows have their types, the numbers of the orders
are 1 to lastNumber and tell the orders apart (`ByNumber`), a cart is CONVERTED exactly when
one order was made of it (`Converted`), and both properties of the coupon. `Locks`: a lock has
one holder at most. `Requests`: what a request has in hand fits what it does (`Fit`) and
`NextInLine`, without which neither numbers nor coupons could be proved: who is about to
place an order holds the row of the sequence, so the number it drew is still the next one.

CohortProofs proves, for any people and sessions, any capacity, number of attempts, batches
and jobs, from `CohortAssumption` only:

| Theorem | Says |
|---|---|
| `FollowedUpOnce` | `Spec => []FilledOnce` |
| `OneOpenBatch` | `Spec => []OneFilling` |
| `CountersTrue` | `Spec => []CountersAddUp` |

Its `IInv` adds to FilledOnce `Typed`, `JobsKnown` and `SessionsSound` (what a job or a session
names exists; nobody writes FILLING over another status, so a batch that is followed up
stays closed) and `OpenOrOpening`. OneFilling alone is not inductive: between the flip of
the last batch and MakeNext a sign-up may open a batch. OpenOrOpening counts the follow-up of the
last batch as an open batch already; it is preserved because MakeNext looks for a
later batch under the lock (`NoneAfter`) and Mint opens one only when none is FILLING and
then takes the follow-up's place. CountersAddUp is inductive under IInv: each step
moves a counter by as many as it moves people (`OneMore`, `MovedRow`).

TotalsProofs proves in its first part, for every set of returns, sessions and parts of a price, every
price, and any number of units, refusals, lost answers and deaths, from
`ReturnRefundAssumption` only (the sets are finite, prices natural, at least one unit):

| Theorem | Says |
|---|---|
| `TypeCorrect` | `Spec => []TypeOK` |
| `CapCovered` | `Spec => []CapCoversMoney` |
| `UnitsBackOnce` | `Spec => []PutBackOnce` |
| `ClaimsWithinLine` | `Spec => []NeverOverReturned` |
| `RefundedSettled` | `Spec => []RefundedIsSettled` |
| `RoundingWithinHalf` | `Spec => []RoundingBounded` |
| `LifecycleKept` | `Spec => ReturnLifecycle` |

Sums are counted, not folded: `Total(S, f)` is the number of pairs <<x, i>> with i in 1..f[x],
so that adding an element (`TotalSplit`), changing one (`TotalChange`) and taking a
subset (`TotalSubset`) are facts about disjoint sets of pairs. `TotalCompare`, which carries a
bound on each summand to the sum, needs an induction; it takes a smallest counterexample among
the subsets of a finite set instead (`MinimalSubset`). `IInv` adds to the properties that the
amount of a return is its share of the line (`AmountIsShare`) and what a request knows between
two transactions (`Knows`): its return is received, what it has reserved is the old
total and the amount, what it has paid or restocked stays so. CapCoversMoney goes through as
an equation on what is `Held` in flight (`FlightMoves`): a compare-and-set that matches
releases or reserves exactly its own amount. RoundingBounded is arithmetic (`HalfUp`,
`ShareRounds`) summed over parts and returns.

Its second part is CapTable, for any number of founders and sessions, any stakes, amounts
and days, from `CapTableAssumption` (some founders, finitely many; as many units as they are):

| Theorem | Says |
|---|---|
| `StakesAddUp` | `EquitySpec => []TableSums` |
| `AuditAgrees` | `EquitySpec => []AuditExplainsTable` |
| `DilutedInProportion` | `EquitySpec => DilutionIsFair` |

`EquityInv` adds to the first two what a session has computed and not yet written
(`Planned`): it holds the lock, what it writes leaves natural stakes that add up, and its
audit row has the sums of that table. The lock makes the plan stay true, since the
stakes change at a commit under it and nowhere else. The first table needs that a split
gives out all of the total (`SplitAddsUp`); that no stake becomes negative, which recordEvent
does not check (its sum skips negative stakes), follows for a dilution from
`ReductionsAreFair`: who is rounded up has a remainder, because fewer are rounded up than
have one (`TooManyRoundedUp`), and a share rounded up from a remainder is within the stake
(`NearShare`).

OrderPaymentProofs proves, for any lines, sessions, targets and times, from
`OrderPaymentAssumption` only:

| Theorem | Says |
|---|---|
| `TypeCorrect` | `Spec => []TypeOK` |
| `HoldsEnd` | `Spec => []HoldsEndWithPending` |
| `OnceSold` | `Spec => []SoldOnce` |
| `PaidKeepsLines` | `Spec => []PaidLosesOnlyExpired` |
| `CancelRestocks` | `Spec => PaidCancelReturnsStock` |
| `LegalMoves` | `Spec => LegalTransitions` |

None of the three invariants is inductive: what a commit does to the rows was decided many
statements, and commits of others, before. `IInv` says what a transaction may still rely
on. `Rows` is what the committed rows say of one another. `Exclusive`: one session at most
has written the order, is beyond order_status, or has changed a given line. `Sound`, of each
transaction, has five parts: its place in its program (`Shape`), its write of the order
(`Written`), its notes of lines against the rows (`NotesAgree`), that it has forgotten
no line (`Complete`), and `StillRead`, the fact on which the unconditional last UPDATE of a
transition depends: the status it read is still the status, unless it read
PENDING_PAYMENT, which a webhook may have moved meanwhile, and then a cancel is legal from
what the webhook made of it. `StepKeeps` carries all of it through a step that
commits nothing; `CommitKeepsRows` and `CommitSparesOthers` are the two halves of a commit.
LegalTransitions is in no run: the theorem covers every instance.

Only model-checked: everything
about Invoicing, Reviews and Election, and liveness, PendingEnds and DeliveryReachesOrder
among it (fairness and ENABLED are beyond the prover). NoDeadlock has no theorem where it
is false: transactions that finish several reservations, and keys that collide.

## 6. Plan

1. **PledgePayment**: the second Razorpay webhook and the status of the applicant.
2. **Tax**: the GST of a line as pure operators against a reference over bounded inputs,
   and the shares of a credit note against the refund of its return.
3. Compositions: OrderPayment over Inventory (the reservations of the order are those of
   the engine), Shipping with ReturnRefund (the window for returns starts with the
   delivery), Purchasing over Inventory, Cohort with Team (a removal frees a seat of both).
4. Proofs: SeriesIsGapless of Invoicing, HelpfulIsVotes of Reviews, FinalizedOnce of Election.

## 7. Not modelled

Reads, reports, notifications, realtime pushes and uploads change nothing the properties
speak of. Prices are frozen integers; GST is in the plan. Logins and tokens are out of scope. Warehouses, suppliers and coupons are
created by administrators and are constants. The Redis leader lock of the expiry cron is
left out: the model allows any overlap of sweeps, so nothing depends on it. The polling cron of
shipping has no provider that returns events. The client repeats rules of the backend
and keeps no state of its own. Reasons for each remaining module are in `PROJECT.json`.
