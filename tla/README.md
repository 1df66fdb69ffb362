# TLA+ models of the Menuza regional API

Menuza runs restaurants: websites that take orders, tables that are reserved, tills, loyalty, staff. All durable
state of one restaurant organization is kept by the *regional API* (`apps/tenant-api`), one SQLite database per
organization, behind which web apps, tills and kiosks are clients. This directory models the parts of it where
money, capacity and points meet time: a website order with its payment, the discount and the points that ride on it, a
table's tab paid from a phone, a sale that several tills and the server hold copies of, and a reservation with its
deposit or the fee it leaves when nobody comes.

Paths below are relative to the repository; `services/` is `apps/tenant-api/src/services/`.

## 1. The system

| Component | State | Operations | What is hard |
|---|---|---|---|
| Website orders (`services/order-service.ts`, `order-refund-service.ts`) | `restaurant_orders`, `restaurant_order_refunds`, slot reservations | place, sweep lapsed holds, bind a payment session, apply a payment event, operator update, record a refund, read a receipt | the guest pays while the hold lapses; provider events late, repeated, out of order; operators act at the same time |
| Discounts (`services/discount-apply.ts`, `discount-quote.ts`) | `discount_redemptions`, a snapshot on the order | quote, reserve, consume, release, refund, record again | limited uses shared by orders that may still be paid; uses that stop counting by the clock |
| Loyalty ledger (`services/loyalty-ledger.ts`) | `loyalty_ledger`, `loyalty_balances` | post, hold, release | two tables that must agree through every retry |
| Loyalty rewards (`services/loyalty-redemption-service.ts`) | `loyalty_redemptions` | reserve and bind, consume, release, restore, review, resolve | decided by whichever of payment, lapse, refund or operator comes first |
| Loyalty purchases and outbox (`services/loyalty-purchase-service.ts`, `restaurant/loyalty-sources.ts`) | `loyalty_purchases`, `loyalty_outbox` | claim, settle, reverse, park, resolve, requeue | reconciled after the order committed: crashes, leases, failures, an operator in between |
| Loyalty tick (`services/loyalty-tick-service.ts`, `lib/org-alarm.ts`) | an alarm per organization | sweep, timed step, drain | reads a list, then acts on it |
| Loyalty members, terms, erasure (`services/loyalty-member-service.ts`, `loyalty-erasure.ts`) | `loyalty_members` | join, suspend, erase, merge, adjust | a member goes while their orders are open |
| Write lock and scope (`lib/concurrency.ts`, `lib/loyalty-write.ts`) | a lock per organization and process | run exclusive, settle after commit | not re-entrant; work queued by a transaction runs after it |
| App checkout and webhooks (`apps/app/app/utils/restaurant-orders/`) | checkout rows, provider sessions | start checkout, dispatch terminal payments | the provider's at-least-once delivery |
| QR tabs (`services/qr-tab-service.ts`, `qr-dine-in.ts`, `discount-tab.ts`) | `qr_tabs`, its rounds, `qr_tab_payments` | open, add a round, ask to pay, quote, bind a page, apply a payment event, stop, lock, close, void | the price is read, paged and bound in three steps; rounds, closes and late or second payments meet |
| Loyalty at the till (`services/pos-loyalty-service.ts`, `loyalty-code-service.ts`) | codes, bindings, approvals | issue, redeem offline, sync | tills offline, one sale synced many times |
| POS sync (`services/pos-service.ts`, `apps/station`) | `pos_orders`, `pos_order_transfers`, `pos_held_uploads`; a copy and an outbox on each till | sell, pay, refund, void, upload, hold, claim and adopt a tab, check in | tills offline; older revisions after newer ones; a tab that moves while its old till sells on |
| Reservation holds, bookings (`services/rsv-hold-service.ts`, `rsv-booking-service.ts`) | `rsv_holds`, `rsv_bookings` | hold, book, move, cancel, no-show | two guests and one table |
| Reservation payments (`services/rsv-payment-service.ts`, `rsv-outbox.ts`) | `rsv_payments`, refunds, outbox | bind, apply status, restore, refund, fee, dispute | a deposit captured after the booking lapsed; a refund claimed, sent, recorded; a fee charged to the card while its guest pays a link |
| Reservation messages, waitlist | `rsv_messages`, waitlist rows | enqueue, claim, send, retry; offer, accept | sent or not, after a crash |
| Kitchen display, time clock, scheduling, hiring, marketing journeys, e-invoicing, voice agents | their own tables | | less shared state |
| Platform: alarms, routing, cache, authentication, jobs, web and mobile apps | | | enters as fairness, or not at all |

Calls go one way. A client calls a handler; the handler takes the organization's lock, runs the expiry sweep in a
transaction of its own, then its own transaction; order handlers call the discount functions inside that
transaction and queue the orders they changed in `loyalty_outbox` in it as well. When it has committed, the loyalty
write scope reconciles what was queued, each order in a transaction of its own. If the process stops before that, the
tick finds the row. Providers talk to the App, and the App sends the region terminal payment events. A till writes to
its own database first and uploads whole copies of a sale from its outbox, one at a time.

## 2. Modules

| Module | Models | Extends |
|---|---|---|
| `RestaurantOrders` | the order lifecycle and its environment | |
| `OrderDiscounts` | the uses of one limited discount through every order handler | `RestaurantOrders` |
| `PointSums` | sums of points and cents as counts of a set | |
| `PointsWallet` | what is promised of members' points: held, spent, given back, earned and adjusted once | |
| `LoyaltyOrders` | ledger, reward, purchase, outbox and tick through every order handler; implements `PointsWallet` | `RestaurantOrders`, `PointSums`, instantiates `PointsWallet` |
| `DepositLedger` | what is promised of a deposit's money: kept, owed or back | |
| `ReservationPayments` | a reservation's deposit, its refunds and the table it pays for; implements `DepositLedger` | `PointSums`, instantiates `DepositLedger` |
| `FeeCharge` | what is promised of a booking's fee: taken once, while it is due | |
| `ReservationFees` | the fee of a no-show or a late cancellation: card on file, link and undo; implements `FeeCharge` | instantiates `FeeCharge` |
| `QrTabs` | one tab of a table: guests, staff, the App's checkout and the provider | `PointSums` |
| `SaleRecord` | what the region promises of one sale, as a single record | |
| `PosSync` | one sale on the tills of a location and on the server; implements `SaleRecord` | instantiates `SaleRecord` |
| `MCRestaurantOrders`, `MCOrderDiscounts`, `MCLoyaltyOrders`, `MCReservationPayments`, `MCReservationFees`, `MCQrTabs`, `MCPosSync` | the instances TLC checks | |
| `RestaurantOrders_proofs` | what is proved of the lifecycle | `RestaurantOrders`, `TLAPS` |
| `OrderDiscounts_proofs` | what is proved of discount uses | `OrderDiscounts`, `RestaurantOrders_proofs` |
| `PointSums_proofs` | how a sum changes with its set and its function | `PointSums`, `FiniteSetTheorems`, `TLAPS` |
| `ReservationPayments_proofs` | what is proved of tables, late payments and a deposit's money, the refinement included | `ReservationPayments`, `PointSums_proofs`, `SequenceTheorems`, `TLAPS` |
| `ReservationFees_proofs` | what is proved of fees, the refinement included | `ReservationFees`, `TLAPS` |
| `LoyaltyOrders_proofs` | what is proved of points and rewards, the refinement included | `LoyaltyOrders`, `RestaurantOrders_proofs`, `PointSums_proofs` |
| `QrTabs_proofs` | what is proved of tabs | `QrTabs`, `PointSums_proofs`, `TLAPS` |
| `PosSync_proofs` | what is proved of sales on tills, the refinement included | `PosSync`, `TLAPS` |

### RestaurantOrders

A row is `[status, method, payment, session, refunded]`. A handler runs under the organization's lock, first the
sweep, then itself, so it is one action: `Swept` is what it sees after the sweep, and the primed `order` is built on
`Swept`. Handlers that refuse a request *return* the refusal, which commits, so a refused request is
`SweepExpiredHolds`. `RecordOrderRefund` is the one handler that does not sweep.

Time is not a number. What the code asks of the clock is whether an order's hold still runs (`hold_expires_at`) and
whether a page opened for it may still take money (`restaurantOrderPayableUntil`), so each order has a `phase`: `hold`,
`lapsed`, `closed`. A page is over before its order is `closed`; the constant behind it
(`ONLINE_PAYABLE_AFTER_HOLD_MS`) is chosen for that in the code. A page exists only once its session is bound: the App
binds before it shows the page to the guest. `BindPaymentSession` does not ask for a running hold, because the region
does not; the App does, on a copy it read before, and that is why the action needs only a page that can still be open.

The provider delivers `paid` once or more after a capture, and nothing prevents it from delivering it after a repeat of
`failed`; a declined card leaves the page open for another try. `page = "settled"` records that the region gave the
event a final answer.

### OrderDiscounts

A use is a row of `discount_redemptions`; an order has at most two, its own and the one recorded again as
`<id>:late`. Every action is an order action and what it does to the uses (`Move` is `moveRedemptions` on both rows).
`Counted` is what `loadDiscountUsageCounts` counts: consumed uses, and reserved ones unless `Stale`. Staleness looks the
order up by its id, so a `:late` row is never stale. `overdue` stands for the day after which an unfinished order's use
no longer counts. One discount with one limit is enough: the limits per code and per customer count fewer rows of the
same table in the same way.

### LoyaltyOrders and PointsWallet

The functions named `...InTx` in the code are operators on a record of what one order's transaction reads, and
`Commit` writes it back. The order handlers queue (`QueueAndSettle`: the outbox row in the transaction, the order in
the memory of the handler). `settling[w]` is what settler `w` has in hand. A driver is a tick that works through the
outbox, one row at a time; it takes a pending row (`ClaimRow`), also one that another driver or the handler still has in
hand, since a lease runs out while its holder goes on and a handler never has one. `Handler` is what write scopes
reconcile after their commit. Two handlers with the same order in hand are one `Handler`: the second reconciliation is
that of a driver. `Reconcile` is one order's reconciliation by whoever has it in hand. Neither looks at the row again, so
it also runs on a row that another finished or parked meanwhile, and `MarkDone` closes only a pending one;
`ReconcileFails` is the path where it throws, and counting that failure (`CountFailure`) asks a driver for its lease. The
parking of an order is two actions (`CountFailure`, `ParkReview`) since the code does it in two transactions; the tick's
timed step is two (`ListTimed`, `QueueTimed`). `Crash` loses everything in memory. Prices and earning rules are constants:
`Award`, and `PointsAfter[o][r]`, what the sale is worth once `r` cents came back, between 0 and the award.

`PointsWallet` knows no ledger, no verdict and no queue. It has the members' points, what is held of them, where the
reward of each order stands, what each sale has earned and not given up, and which adjustments counted. It moves them in
three ways: `Hold` takes points that are neither held nor spent, `Settle` takes the reward and the sale of one order
forward and the owner's points by exactly what they account for, `Adjust` counts a key once. `WalletIsHonest` maps the
accounts to it: a reward in review is held, a purchase keeps `awarded - reversed`, and an adjustment counts when
the ledger has its entry. `PlaceWithReward` is `Hold`; a reconciliation, a parking's review and an operator's decision
are `Settle`; everything else leaves the wallet as it was.

### ReservationPayments and DepositLedger

`res[b]` is the booking with its table, `pay[b]` the deposit row, `refunds[b]` the refund rows oldest first. A handler is
again one action on what the sweep left (`SweptRes`, `SweptPay`); here a refused request throws and rolls the sweep
back, so it is no step, and `SweepExpired` is the tick or a handler that answers without a change of its own. The
sweep also closes the payment session of the bookings it expires, and the deposit keeps its session so that a
payment which still arrives is matched (`Unpaid`). A paid event then confirms, keeps, restores or refunds, by the state the
booking is in by now; `PaidTooLate` may happen to any expired booking since pool bookings, experiences and pacing rules
refuse restores the table alone would allow.

`refundedMinor` is reserved when a refund is queued and given back when it fails. A refund row is `requested` until an
App worker claims it (`ClaimRefund`), `charging` while the claim's lease runs, and recorded with what the provider says.
`hand` holds the claims a worker has and has not sent; `answers[b][k]` is what the provider has said of refund `k`, and any
of it may be reported at any time and again, by the worker, the webhook or the reconcile, which are the same endpoint.
The provider answers a repeated request as the first, because every refund has one idempotency key; that is the only
thing assumed of it. The clock is what a handler asks of it: may the guest cancel for free, late, or not at all, and
has the booking started. `from` is the status an undo returns to, computed when the status changes rather than from
the events when it is undone.

`DepositLedger` is a deposit as three purses: what the restaurant keeps, what it owes to the guest, what is back. A
payment fills one of the first two, a promise and a refusal move money between them, and only what is owed comes back.
`DepositIsAccounted` reads the purses off the rows: a settled deposit keeps what `refundedMinor` does not reserve
(`Keeps`), owes what is reserved and which the provider has not given back (`Owes`), and is back what the provider
succeeded with, whether the region has heard of it or not (`Backs`). So a cent moves when the provider gives it, and the
late results, repeated claims and recorded statuses of the region are steps that move nothing.

### ReservationFees and FeeCharge

A booking with a saved card, and the fees staff ask of it: `fee[<<b, kind, n>>]` is the `rsv_payments` row of a kind's
attempt `n`, `booking[b]` the reservation's status and what it says of its money. An App worker claims a fee (`hand`, and
`leased` while the claim's ten minutes run), asks the provider (`card`, what it decided) and reports what it heard
(`heard`). It may stop, or hear nothing, at any point (`LoseWorker`), and another worker may claim the fee once the lease is
over. The key the provider is asked under is made of the fee and its attempt, and the provider answers a repeated key as
the first time; that is the only thing assumed of it. A disconnected account or a missing customer is the outcome
`failed`. The link goes out with the message of a card that needs its owner's consent, so `OpenLink` waits for that;
each visit without a bound page gets a new one, whose binding replaces `fee[f].page`. `page` is the provider's side: a
page may be paid whether the row still names it or not, and its event counts only if it does (`PaidEvent`). The
processor is Stripe, whose pages have ids of their own; a Checkout.com fee page shares a reference, as on tabs, and is
left out. `Settling(b)` does not look at `b`, as the query in the code does not.

`FeeCharge` is the cashier a guest would expect: a booking leaves and may return, a fee is charged to the card while the
booking is due for it or paid by link, once for a booking, and the booking is told afterwards. `ChargeGoesForward` maps
the card's and the pages' outcomes at the provider to what was taken, and the booking's `paymentStatus` to what it was
told.

### QrTabs

One tab, from its first round to its settlement. `tab` is the `qr_tabs` row with its pay request (`amount`, `tip`,
`cut`) and the session of its page; `round` the kitchen's state of each order on it, `settled` the orders marked paid;
`reserved` and `consumed` the cents the discount takes off each round while the use waits and once it counts; `reward`
the loyalty redemption of the request (`none`, `bound`, `review`, `consumed`); `review` the `qr_tab_payments` rows.
Every handler runs under the lock and is one action, and a refused one is no step. What is not one action is the App's
checkout: `ReadQuote` takes the price, the page is made for it, and `BindPage` binds it, with anything in between; a
page that is not bound is never shown. All Checkout.com pages of a tab share one session (`Ref`), a Stripe page is its
own (`SessionOf`), and `processor` is chosen at the start. `CurrentPayable` prices the tab again from its rounds, what
the uses and the reward took off and the tip, and answers nothing when a discounted line is gone or the reward is not
bound any more. `age` is what the code asks of `payment_event_at`: the freeze or the hold runs, has lapsed, or the
page can take nothing more; the last step waits for what was paid on the bound page to be reported, for which
`ONLINE_PAYABLE_AFTER_HOLD_MS` is chosen. The provider reports a payment at any time and again.

Loyalty may move the reward without the tab: the outbox gives up on a tab an operator queued and sets its reward aside
(`ParkReward`), an operator decides one in review (`ResolveReward`), and the settlement of a closed or cancelled tab
spends it or gives it back (`SettleReward`). So a page may be paid whose reward is gone, which is what `CurrentPayable` asks
for. Refunds of a sale made with a reward are in `LoyaltyOrders`.

A discount takes one cent off each of its rounds and a reward one cent off one round: what the properties ask is which
lines are cut and that the sums agree, not the rates. `Unbound`, `Released` and `SetAside` are the three ways the code
forgets a request, and which of them an action uses is the code's choice, the places where it keeps something included
(`NewTableCode`).

### PosSync and SaleRecord

`local[t]` is the copy of the sale in a till's database, with its revision, lines, removed lines, payments and
refunds, and `sync[t]` the state of its outbox row; `job[t]` is the upload a till waits for, `wire` the requests on
their way, `server` and `owner` the `pos_orders` row, `moved` the rows of `pos_order_transfers`, `held` the uploads
held for a person, `claimed[t]` the answer to a claim not stored yet, `asked` the tills whose claim had no answer and
which still list the tab. A step is one transaction of a till's database or of the region. `Stored`, `Repeats`, `Hold`
and `Postpone` are the four things `upsertPosOrder` and `holdUpload` make of an upload, from what a newer revision
must keep (`Continues`). `GiveUp` is a time-out: the request may still arrive, and a request lost on its way or on its
way back cannot be told apart by the till. `Reload` is the page closed at any point. An upload held is never taken out
of `held`; a person may have settled it by then, which is why `Postpone` and `Hold` both stay possible for a full list
of settled ones. Only an upload that can be read is answered with `moved`.

A bill in `Free` comes to nothing: it is saved closed (`CreateFree`) or closed later (`CloseFree`) without a payment,
and no other bill closes without one (`Adds`, which holds of every copy; `Balances` is what the server's schema asks
of an upload). A tab moves with `ClaimTab`; a till that lost the answer (`LoseClaim`) may claim it again, and
`ClaimAgain` gives it the row as it is by then, whatever its status. `Adopted` is what a till makes of either answer:
an open tab with no refunds.

`taken` remembers every payment a guest made and at which till; it is read by the properties, and by `AddPayment` so
that ids are new. `regained` remembers the tills that took the tab back after another one had it; only properties read
it. The server's lists of what a till may claim are always fresh: a claim that names an older revision is refused,
which is no step.

`SaleRecord` is the sale kept in one place: a payment is nowhere, then on a till, perhaps held for a person, then
recorded; the bill is fixed by its first payment; the sale closes once, covered by what it records, or is cancelled
with no money; a bill that comes to nothing closes with no payment; only recorded money is refunded. Payments of a
till that took the tab back are `exposed`: a till may lose them before they are recorded or held, and no others.
`SaleGoesForward` maps the tills, their outboxes and the server to it (`Where`, `Sale`).

## 3. Runs

| Run | Instance | Shows |
|---|---|---|
| `orders` | the module `OrderDiscounts`: an order of 2 cents and a free one, capacity 1, limit 1 | the place is given once and only an operator overbooks it; stopped orders stay stopped; recorded money stays recorded and within the total; holds end; a use follows its order, refunded in steps or paid at placement, and is consumed by its sale; the limit is passed only knowingly |
| `loyalty` | 1 order of 2 cents, reward 2 points, award 3, 2 attempts, a driver and the handler, 1 manual adjustment | the balance is what ledger and holds rebuild to; a reward is paid once and decided once; quiet orders are settled; a full refund undoes all; parked orders wait for their decisions; every step moves the points as `PointsWallet` does |
| `loyalty_live` | 1 order of 1 cent, reward 1 point, 2 attempts | an abandoned checkout does not hold its points for ever |
| `deposits` | 1 booking, a deposit of 3 cents, a fee of 2, half of it back when late, 2 refunds by operators | what is reserved is what was asked and has not failed; "refunded" means returned; the fee comes back to the cent; every step moves the deposit as `DepositLedger` does |
| `reservation_table` | 2 bookings, deposits of 1 cent, symmetry | one booking holds the table; a refunded late payment brings no booking back; a payment for an expired booking goes back |
| `refund_live` | 1 booking of 2 cents, disputes | every queued refund ends |
| `fees` | 1 booking, both kinds of fee, two attempts each, 2 pages per fee, symmetry of pages | a booking pays one fee, by card or link and not both; money taken is on its fee and the booking says so; every step charges as `FeeCharge` does, so no card is charged for a booking brought back |
| `fee_pages` | 1 booking, one kind of fee, 2 pages | the violation run on fees, see 5 |
| `tabs` | 2 rounds of 2 cents, the discount on one, a reward on either, 2 pages, either provider, symmetry of pages, the reward parked, decided or settled at any time | every payment settles the tab or waits for a person; rounds are paid with their tab; uses are decided with it; a payment closes the tab only for exactly what it costs |
| `pos_sync` | 2 tills, 2 lines, both together a free bill, 2 payments that cover any other, the tab moves once, symmetry of all | no payment is lost; what a till counts as delivered is safe; status and money agree on every copy; the sale goes forward as `SaleRecord` |
| `pos_adopt` | the same, the tab moves twice | the violation run on tills, see 5 |
| `answered_payment` | 1 order of 2 cents | the violation run on orders, see 5 |

`CHECK_DEADLOCK FALSE` everywhere: once every order is finished and every event delivered the system does stop, until
the next order.

**Bounds.** Two orders and one place are the smallest instance where a place can be given twice; likewise two orders
and one use. With one place both orders are discounted only when the first is stopped, late, under review or finished;
two unpaid orders that are both placed and share a use are left to the proofs, which hold for every capacity. Two
cents let a refund be partial and repeated. `PointsAfter` keeps one of three points after half of the money, so a
reversal taken from scratch takes back five. Two attempts let a row fail, be retried and be parked. A driver and the
handler are the two that can have one row in hand at once. The loyalty run has one order since a transaction touches
one order and its owner; two orders of one member already have millions of states, so that orders sharing a wallet
never hold the same points is left to the proof (`PointsMoveAsPromised`), which holds for any number of them. Three
cents and a fee of two make every rounding of a fee share differ from its exact value, and three refunds (`MaxRefunds`
by operators, one by a cancellation or a late payment) can be claimed, fail and follow one another in every order. Two
bookings are enough to take a table from each other; the second one needs no refund by an operator. A fee has two
attempts in the code as in the model; two pages are the fewest of which one can be replaced, and the fees of one
booking meet those of another only in the query of an undo (5).

Two rounds are the fewest of which one can be discounted, cancelled or left in the kitchen while the other is paid
for, and two pages the fewest that can both be paid; both cost 2 cents so that a wrong set of cut lines with the right
size would still add up and only the properties on lines can tell. Two payments cover the bill, so a tab is open with
money on it and a till that was offline can pay part of what another one closes. `MaxHeld` is the code's limit, cut to
1 so that the list is full. `MaxRevision` and `MaxWire` bound the model only: three revisions make a copy, a change
and a change during its upload, on either side of a move, and two uploads can overtake each other or one of a dead
page meet its repetition. `MaxMoves` is 1 where everything is checked and 2 in `pos_adopt`: with two lines and two
moves TLC takes too long, and that a tab moved back and forth loses nothing else is left to the proofs, which hold for
any number of moves. Nothing else is bounded: order refunds are bounded by the total, adjustments by their idempotency
keys.

**Fairness.** Time passes, pages end, and the sweep runs: every order read runs it and so does the tick, which an
alarm repeats. For the loyalty tick: it lists what is due and claims what is queued again and again (weak), and it
finishes what it has in hand over and over (strong on `QueueTimed` and on each driver's `Reconcile`, not on the
handler's): a crash or a failure can cut any tick short, but the code retries after each and crashes do not hit every
one. Attempts are counted, so failing for ever parks the order, which `HeldRewardEnds` admits. Guests, operators and
the provider owe nothing.

For `refund_live`: the outbox and the hourly reconcile claim what waits and a lease ends (weak); a worker that is handed a
refund again and again at last sends it (strong: any one of them may be lost); the provider decides a pending refund and
its decision is reported (weak), by the webhook or by the reconcile that asks for it. Tabs, tills and fees have safety
properties only: a guest may never pay, a till may never come back online, and a fee may be left unrecorded
(5).

## 4. Proofs

Every safety property of a run is stated by a theorem. `OnlyCapturedMoneyIsPaid`, `FeeIsDecidedOnce`, `NothingReturnedTwice`,
`ChargedOnlyWhileDue`, `ReviewShows` and `SaleEarnsOnce` are proved only: they hold for every instance, and what the runs
check of deposits, fees and points (`DepositIsAccounted`, `ChargeGoesForward`, `WalletIsHonest`) says the same of a step, so no
run repeats them. `OrdersTypeCorrect` is part of what `DiscountsTypeOK` says of a run.

`RestaurantOrders_proofs` proves for every finite set of orders, every total and every capacity:

* `OrdersTypeCorrect`: `OrdersTypeOK`, with refunds within the total. Inductive as it stands; `SweptRows` says what the
  sweep every handler starts from leaves alone.
* `OnlyCapturedMoneyIsPaid`: `PaidMeansCaptured`. Only a paid event marks an online order, and it settles the page.
* `StoppedOrdersStayStopped`: `NeverResurrected`, from `RowSteps`: every step changes a row in one of a few ways.
* `RecordedMoneyStays`: `PaymentsNeverRegress`. The step property is not preserved by itself: it needs `MoneyInv`,
  that an order not yet placed has no payment, and that refunded money is online and paid; both are inductive.
* `SlotIsNeverOverbooked`: `NeverOverbooked`. Only a placement adds an active order out of nothing
  (`OnlyPlacementPlaces`) and only an order in review comes back (`OnlyReviewComesBack`). A placement adds at most one
  to a set whose size it has just compared with the capacity; any other step that brings no order back from review
  can only shrink the set of active orders. The cardinalities are the library's theorems on finite sets.

The assumption is `OrdersAssumption`: finitely many orders, natural totals, a positive capacity.

`ReservationPayments_proofs` proves for every finite set of bookings, every deposit, fee, policy and bound on refunds, from
`PaymentsAssumption` alone:

* `TableHasOneBooking`: `OneBookingPerTable`. The invariant is `SoundTable`: besides one holder, a row that holds the
  table has a status that may hold it, and what an undo would return to is a status that kept one. Only a creation, a
  restoration by a late payment and an undo take the table, each after looking at it; the sweep and every other
  change only give it back (`SweptIsSound`, `ChangedIsSound`). The part on `from` is needed for the undo, which takes
  its target from the row.
* `LatePaymentOpensNothing`: `LateRefundMeansNoBooking`. The invariant `LateInv` adds `LateIsClosed`: a late
  refund that has not failed means a closed row and a settled deposit. The settled deposit is what keeps the row closed:
  a second paid event finds it so and restores nothing, and only the undo
  of a finished visit leads away from such a row, to a seated one that no undo leaves.
* `FeeIsDecidedOnce`: `FeeDecidedOnce`, from `NextStep`: no step removes a refund, and only the first claim of a
  requested one writes its fee.

The shapes of deposits and refunds (`PayShape`, `RefundShape`) carry the fields these proofs read and leave the amounts
free, since none of the three results depends on them.

The second half of the module is about the money of the deposit, under the same assumption, for every amount, fee and
number of refunds. `PointSums` writes a sum as the number of elements of a set, so what adding, removing or rewriting
a row does to it (`PointSums_proofs`, `MoneyOf`) follows from the library's theorems on finite sets, without
induction.

* `PaymentsTypeCorrect` (`PaymentsTypeOK`), `ReserveStaysExact` (`ReserveIsExact`), `NothingReturnedTwice`
  (`NeverMoreThanPaid`), `RefundedIsReturned` (`RefundedMeansReturned`), `FeeIsBackInFull` (`FeeGoesBackInFull`) and
  `ExpiredPaymentIsReturned` (`ExpiredPaymentGoesBack`) follow from one invariant, `RefundInv`, which has a part per question:
  * `RefundsSound`: the reserve is the sum of the refunds that have not failed and within the deposit; a result is only
    recorded as it was heard, of a refund that was claimed, and the provider never says both (`Heard`). A refund that has
    succeeded at the provider therefore still reserves, which bounds what was returned.
  * `FeesFit`: the fee shares of the claimed refunds that have not failed fit into the fee, and make up all of it as soon
    as their amounts make up the deposit. It needs both halves: the last claim tops the sum up to the fee, which takes that the
    earlier ones have not passed it, and a failure takes amount and fee away together (`ClaimedFee`, `FailKeepsSound`).
    That a rounded share is never more than the fee is `FeeShare`.
  * `FlowSound`: where deposit, page and booking stand together. A deposit with refunds is settled, so a late refund is
    the first of its deposit, and a settled page never goes with an unpaid booking.
  * `HandSound`: what a worker has in hand is claimed and unheard of, so what it sends is answered once.
* `EveryCentIsAccounted` (`DepositIsAccounted`): the region, the App and the provider implement `DepositLedger`. One step
  touches one deposit (`OneMove`, `NoMove`), so each handler gets a lemma (`CreateLedger` to `AnswerLedger`) that compares
  `Purse(b)` before and after and names the movement it makes. Most make none. An unsettled deposit has empty
  purses (`UnsettledIsEmpty`), which is what a payment fills; a reserve comes with its refund (`QueueLedger`,
  `OperatorRefundLedger`) and leaves with its refusal (`FailedLedger`); and `Say` needs that the recorded refunds, which
  the region adds up, are among those the provider gave (`BackFits`, `BackInFull`).

`ReservationFees_proofs` proves for any bookings, kinds of fee and pages, from `FeesAssumption`, what the run checks of one
booking. All five results come from one invariant, `FeesInv`:

* `Answered` and `LinksAsked` tie a fee's status to the provider's side: a fee that has failed was refused, one that waits for
  the guest has a card that asked for it, and only such a fee ever had a page. Card and link of one fee therefore exclude each
  other.
* `OneLive`: at most one fee of a booking is paid or may still be. It is what `InFlight` and `AlreadyCharged` are for, and it
  gives `OneFeeIsTaken` (`OneFeeTaken`), since money that was taken is on a live fee (`TakenIsLive`). A fee whose claim was lost
  stays `charging`, and so stays live.
* `MoneyFits`: the booking says charged exactly when a fee of it succeeded; with `Answered`, `ChargeStaysOnTheFee`
  (`ChargeIsOnTheFee`).
* `UnaskedIsDue`: a fee the provider was not asked for is still due. The undo looks at the fees, not at the claims, and
  a worker may hold a claim for any time; so the invariant also says that what it holds, unasked, is `charging`. It
  gives `ChargedOnlyWhileDue`: the card is charged for the status the booking has at that moment.

`ChargedAsPromised` (`ChargeGoesForward`) is the refinement of `FeeCharge`: `AskProvider` is `Charge`, `GuestPays` is `Pay`,
what the region hears of either is `Tell`, and every other step leaves what was taken as it was. That a booking
told of a charge never returns follows since its fee succeeded and an undo looks for that.

`OrderDiscounts_proofs` proves all four properties of `OrderDiscounts`, for any orders, totals, capacity and limit, from
`OrdersAssumption` and `LimitAssumption`:

* `UsesTypeCorrect`: `DiscountsTypeOK`. The part on orders is `OrdersTypeStep`, since every step is one of the order lifecycle
  (`OrdersStep`).
* `UsesFollowOrders` and `SoldUsesAreConsumed`: `UseFollowsOrder`, `SoldUseIsConsumed`. Neither is inductive: the
  invariant `UseFits` says for each status of the row which states its two uses may be in. A second row exists only for
  an online payment whose first use was given back; an order under review has its uses all gone or one recorded again;
  an active discounted order has one live use, or none after its last cent was refunded; and a use is still reserved
  only while nothing was paid. Each handler is shown to lead from one allowed combination to another, on the rows the sweep
  left (`SweptFits`).
* `LimitIsPassedKnowingly`: `LimitPassedKnowingly`. What counts depends on the clock and on the rows of all orders, so the proof
  compares the counting rows before and after each step: time and refunds only take some away (`QuietLimit`,
  `RefundLimit`), a payment, a cancellation or a completion turns rows that counted into rows that count unless the
  use had gone stale (`PaidLimit`, `OperateLimit`), and a placement or a late payment adds one row to fewer than the
  limit (`OneMore`). That a late payment is flagged *now* needs `FlaggedArePaid`: an order flagged before is paid, so its
  payment cannot arrive late again.

`LoyaltyOrders_proofs` proves every safety property of `LoyaltyOrders`, for any orders, members, rewards, awards,
adjustments and number of attempts, from `OrdersAssumption` and `LoyaltyAssumption`. Two invariants carry it.

* `LoyaltyInv` is about the account. `LoyaltyTypeCorrect`, `BalanceStaysRebuilt`, `RewardIsPaidOnce` and `SaleEarnsOnce`
  (`LoyaltyTypeOK`, `BalanceIsRebuilt`, `RewardPaidOnce`, `EarnedOnce`) are parts of it. `BalanceIsRebuilt` is not inductive
  alone: whether a post is a repeat is found in the ledger, so the invariant also says which entries an order in each
  state has (`EntriesFit`) and what they sum to (`OrderFits`), and that a purchase knows of no refund its order does not
  (`RefundsKnown`). A key found in the ledger then means that its points were counted, which is what makes a repeated
  reversal harmless. Everything is shown on the record one transaction works on: each `...InTx` operator takes a record
  that fits to one that fits (`ConsumeFits`, `ReleaseFits`, `RestoreFits`, `RefundsFit`, `SettleFits`, `SyncFits`,
  `FollowFits`, `ReconcileFits`), and a record that fits may be committed (`CommitFits`), since all it adds to the ledger is
  its own order's.
* `RewardIsDecidedOnce`, `NoEarningOverReleasedReward` and `ParkedStaysParked` (`RewardDecidedOnce`, `NoDiscountWithPointsBack`,
  `ParkedUntilDecided`) are about steps, from the same lemmas: `AccountStep` lists the ways a step may touch the accounts.
  `ParkedStaysParked` holds for any number of drivers, each of which may still have in hand, and reconcile, an order that
  another has parked: a parked row is closed only by a decision, or is queued again, since `MarkDone` and
  `CountFailure` look for a pending one (`ParkedSteps`, with the shape of rows in `QueueInv`).
* `FullRefundIsUndone` and `QuietStaysSettled` (`FullRefundUndoes`, `QuietIsSettled`) are about orders nothing is
  queued for. The invariant `IdleInv` says of an order whose row is not due that its reward and purchase agree with
  what the order says (`Agrees`), or that the tick's timed step will find it (`Ending`). The rest of it is needed for
  the operators: a held reward and its purchase wait for the same decision (`DecidedTogether`), so that deciding one,
  which may close the row, leaves nothing to do on the other. A reconciliation establishes `Agrees`
  (`ReconcileAgrees`), whatever the row, since nobody looks at the row again; a handler that changes an order queues
  it; and a page that ends turns a reward that waited for a payment into one the timed step finds (`PassedLeftSound`).
* `PointsMoveAsPromised` (`WalletIsHonest`) is the refinement of `PointsWallet`, for any number of orders of one member. It does
  not follow the `...InTx` operators again: what a transaction added to the ledger is only of its own order
  (`Grown`), the sums of an order's entries are decided by the states of its reward and purchase before and after
  (`OrderFits`), and the balance is the sum of all entries. So the difference of the balances is the difference of the states
  (`AddedByKind`, `OwnShare`), whatever path led from one to the other. That a hold is never taken twice from the same
  points is the comparison in `CanSpend`, made on a `reserved` that is the sum of all other holds (`BalanceIsRebuilt`). The one
  thing to add is that an adjustment is known by its key alone (`HandFits`), which makes a retry find it.

`QrTabs_proofs` proves for any finite sets of rounds and pages, any prices, tips and discounted rounds, from
`QrTabsAssumption`: `QrTabsTypeCorrect` (`QrTabsTypeOK`; the sums in it are counts of finite sets, as in `PointSums`),
`NoPaymentIsForgotten` (`MoneyIsAccounted`), `ReviewShows` (`ReviewIsFlagged`), `RoundsArePaidTogether`
(`RoundsFollowTab`), `UsesAreDecided` (`UsesFollowTab`) and `OnlineCloseTakesTheBill` (`OnlineCloseIsExact`). The
invariant `TabInv` is those four with `SettledHow` (a paid tab is closed, and one settled online is paid), `OnlyHeard`
(what the region heard of was captured, and a tab settled online names the page that did it) and `Ready` (while a pay
request stands, no round is in the kitchen, and a page asks for something). `Ready` is what makes the online close
exact: the event compares the price, but only the request looked at the kitchen, so no step may bring a round back
while the request stands. Discounted cents stay unexpanded sums in all of it: an exact close follows from the
comparison of the price in `Matches`. It also needs the reward bound at that very step, which is what the event looks
at: `OnlyReward` says that a step of loyalty changes nothing but the reward, and so disturbs none of the other parts.

`PosSync_proofs` proves, for any tills, all of which take tabs over as often as they like, any lines, free bills, payments and
bounds, from `PosSyncAssumption` alone: `PosTypeCorrect` (`PosTypeOK`: on every copy, on a till, on its way, held or stored,
the status agrees with the money), and

* `NoPaymentIsLost` (`PaymentsAreKept`) and `DeliveredIsSafe` (`SyncedIsSafe`). Both speak of tills that have not taken the tab
  back: a till that does may replace what it never sent (`pos_adopt`), and the properties name that case instead of
  assuming it away. What is proved is that this is the only one: however often the tab moves, and whatever the tills that took
  it back do meanwhile, no other till loses a payment or counts as delivered what is not. The invariant is `TabInv`. Most of it
  is about a till on its one turn (`OneTurn`), which a till loses when it takes the tab back:
  * `AtOneTill`, `InTurn`: before the server has the tab one till has something of it; from then on a till has
    something of it only once it was given it, and what a till on its one turn was answered to its claim, or would be
    to a repeated one, is what the server has until it stores it.
  * `InOrder`: the copies of such a till, in its database, in its outbox and on their way, and the sale it grew are
    one after the other. `Numbered` lets revisions tell a copy from none.
  * `Delivered`: what it was told is on the server is there, held or outgrown. An upload that is neither stored nor held is
    answered with a retry, and the till keeps it; that is where a payment would go missing.
  * `OnlyTaken`: every payment on a copy was made by a guest.
* `SaleIsOneRecord` (`SaleGoesForward`): the initial state maps to `SaleRecord`'s, and every step maps to one of its
  steps or changes nothing of it. A sale of a till is `Take`, a held upload `Keep`, a stored one `Record`, a tab taken back
  `Expose`; `AdoptTab` is `Lose` of exposed payments at most, and a late upload that brings one back is `Keep` or `Record`.

Only model-checked: the three liveness properties (`HoldsEnd`, `HeldRewardEnds`, `RefundEnds`), which are out of the
prover's reach, and what the violation runs show.

## 5. Where documents and code differ

With a run:

* `answered_payment`: a payment for an order staff already moved on is refused with 409 `payment_state_conflict`, which
  the contract does not list among the final refusals; the App acknowledges it and the money is not on the order.
* `pos_adopt`: `adoptTab` is said never to replace a change not sent yet. It compares revisions: a till whose tab was
  taken over before its last change was sent, changed further elsewhere and taken back, loses that change; a payment
  taken with it is then nowhere.

* `fee_pages`: a fee that is pending because a page of its link is open may be claimed for the card on file, and the panel
  offers it. The result brings it back to `requires_action` while the page stays open, the next visit of the link gets a
  second page, and the guest can pay both. The event of the first page then matches no row.

Met while modelling, without a run of their own:

* `recentTransfersAway` (`services/pos-service.ts:2681`) returns every move away from a till in the last week and does
  not ask whether the tab came back. At its next check-in the till that took its tab back marks it as taken over, and
  no longer edits it or takes its payment (`CheckIn`).
* An undo is refused with "Money already moved for this reservation" (`services/rsv-booking-service.ts:3459`) also when the
  money moved for another reservation: the query joins its conditions with an `OR` outside the comparison with the
  reservation (`Settling`).
* A charge that did not go through is said to be retried with the same key. The panel has its button on pending fees only
  (`payment-panel.tsx:563`); a fee whose worker stopped after its claim stays `charging`, which the region would let another
  worker claim, and nobody asks it to (`ClaimFee`).
* An undo looks for fees that are paid or being charged. While a card waits for its owner's consent the fee is neither,
  the booking is brought back, and the guest can still pay its fee through the link (`Undo`, `OpenLink`).
* The contract wants a session that expired at the provider released for the guest's retry. The region expires the order
  and keeps the session (`ExpiredEvent`).
* The discount plan ends the use with a full refund. A late payment's use is still reserved while an operator has the
  order, and a refund moves consumed uses only (`Refund`).
* A restaurant's cancellation is said to return everything. A deposit whose partial refund the provider refused is in
  `review`, which the cancellation does not look at, so it queues nothing.
* `restaurant/loyalty-sources.ts:218-219` says a session is only ever bound before the hold lapses. The region checks the
  status, and a hold that lapses expires only an accepted order (`BindPaymentSession`).
* A dispute that is won sets the booking's money to `paid`, also when the deposit was refunded meanwhile
  (`RecordDispute`). The refund path only tests that column for `none` and `pending`.
* `services/loyalty-redemption-service.ts:378-383` keeps a reward whose page can still be paid. A tab whose page lapsed and
  that is asked to pay again with the same reward keeps the reward and forgets the page, so a third request without it
  gives it back while the first page can still be paid (`AskToPay`). That payment then waits for review.
* A new code for a table drops the pay request but leaves what it reserved until the tab is settled (`NewTableCode`).
* A till that sends an older revision again after its tab came back to it is answered `ok` (`AlreadyHas`), and a copy
  that a till kept after its upload was held counts as delivered. Both are safe for the payments of a till that has
  not taken the tab back (`SyncedIsSafe`).
* When the answer to a claim is lost the till says that the tab stays where it is; the server moved it (`LoseClaim`).
* `adoptTab` says that it stores exactly what the server holds (`apps/station/src/lib/orders.ts:814`). It stores any
  row as an open tab without refunds, and a repeated claim is answered with the row whatever its status
  (`services/pos-service.ts:2622-2628`). A till that took its tab back without hearing the answer, whose own late
  upload then closed the sale, and that claims it again, has the closed sale as an open tab that counts as sent
  (`ClaimAgain`, `Adopted`).

## 6. Not modelled

See `PROJECT.json`, `components`, for the parts left out and why. Within the modelled parts:

* orders and loyalty: idempotent replays of a placement, prices, POS and tab sources, the lengths of leases and
  back-off, expiry of points;
* deposits and fees: setting a card guarantee up, disputed and refunded fees, Checkout.com fee pages, the seven days a fee
  link lives, table plans and changes of a reservation's time;
* tabs: setting tables and codes up, guest sessions, the resolution of a payment in review, and the kitchen's own two
  states of a round in preparation or ready (`accepted` and `served` stand for what the tab asks);
* tills: several tabs and the renumbering of order numbers, terminals paired again, rejected rows, fiscal documents,
  the review of a held upload, the week after which a move is no longer reported, and a check-in answered late;
  whether the outbox empties at last.

The sources come to some 745000 lines, most of them interfaces, generated files and services of other products. What is
modelled is the code where several actors change the same money, place or points; a model of the rest would restate forms.
Presentation, authentication and encoding are left out for good.

## 7. Plan

1. `RestaurantOrders`, `OrderDiscounts`, `LoyaltyOrders`, `ReservationPayments`, `ReservationFees`, `QrTabs`, `PosSync`
   with the promises `SaleRecord`, `DepositLedger`, `FeeCharge` and `PointsWallet`, and the proofs above: done.
2. `LoyaltyOutbox` with back-off and its batch; `LoyaltyTill`; the review of held uploads.
3. Reservation holds, messages and the waitlist; the organization lock; the alarms.
