-------------------------- MODULE RestaurantOrders --------------------------
(***************************************************************************)
(* The life of a website order in the regional API: placement under a      *)
(* capacity limit, the checkout hold and its expiry sweep, the payment     *)
(* session and the provider's events, the operator's transitions and the   *)
(* recorded refunds (apps/tenant-api/src/services/order-service.ts and     *)
(* order-refund-service.ts).                                               *)
(*                                                                         *)
(* Every handler is one transaction under the organization's lock, so it   *)
(* is one action.  Time is not a number here: an order only needs to know  *)
(* whether its hold still runs and whether its payment page can still take *)
(* money.  The payment provider and the App in front of it are the         *)
(* environment: they bind pages, take money, and deliver events late, more *)
(* than once and in any order.                                             *)
(***************************************************************************)
EXTENDS Integers, FiniteSets

CONSTANTS
    Orders,     \* order ids, one per placement the run allows
    Total,      \* Total[o]: the cents due after every discount
    Capacity    \* maxOrdersPerSlot of the one pickup slot modelled

ASSUME OrdersAssumption ==
    /\ IsFiniteSet(Orders)
    /\ Total \in [Orders -> Nat]
    /\ Capacity \in Nat \ {0}

VARIABLES
    order,      \* the restaurant_orders row
    phase,      \* where the clock stands for the order's hold and page
    page,       \* the provider's payment page (environment)
    declined    \* the provider has sent a "failed" event (environment)

orderVars == <<order, phase, page, declined>>

-----------------------------------------------------------------------------
\* Rows and their values

Statuses == {"none", "accepted", "preparing", "ready", "completed",
             "cancelled", "expired", "payment_review"}
Payments == {"unpaid", "pending", "paid", "failed", "expired", "not_required"}
Methods  == {"online", "handoff"}
Sessions == {"none", "bound"}

\* "hold": the checkout hold runs.  "lapsed": it ended, but a page opened for
\* the order may still be paid.  "closed": no page of it can be paid.
Phases == {"hold", "lapsed", "closed"}

\* "captured": the guest paid and the event is on its way; "settled": the
\* region has answered that event, so the provider need not send it again.
Pages == {"none", "open", "shut", "captured", "settled"}

OrderRow == [status : Statuses, method : Methods, payment : Payments,
             session : Sessions, refunded : Nat]

NoOrder == [status |-> "none", method |-> "handoff", payment |-> "unpaid",
            session |-> "none", refunded |-> 0]

\* RESTAURANT_ORDER_ACTIVE_STATUSES: the statuses that consume capacity.
ActiveStatuses == {"accepted", "preparing", "ready", "completed"}

OperatorTransitions(from) ==
    CASE from = "accepted"  -> {"preparing", "ready", "completed", "cancelled"}
      [] from = "preparing" -> {"ready", "completed", "cancelled"}
      [] from = "ready"     -> {"completed", "cancelled"}
      [] from = "payment_review" ->
                               {"preparing", "ready", "completed", "cancelled"}
      [] OTHER -> {}

OrdersTypeOK ==
    /\ order \in [Orders -> OrderRow]
    /\ phase \in [Orders -> Phases]
    /\ page \in [Orders -> Pages]
    /\ declined \in [Orders -> BOOLEAN]
    /\ \A o \in Orders : order[o].refunded <= Total[o]

Active(rows) == {o \in Orders : rows[o].status \in ActiveStatuses}

-----------------------------------------------------------------------------
\* The expiry sweep every handler runs first, in its own transaction

\* Mutant: only holds with a payment page lapse.
LapsedWithSession == {o \in Orders : /\ order[o].method = "online"
                                     /\ order[o].status = "accepted"
                                     /\ order[o].payment = "pending"
                                     /\ order[o].session = "bound"
                                     /\ phase[o] # "hold"}

Lapsed == {o \in Orders : /\ order[o].method = "online"
                          /\ order[o].status = "accepted"
                          /\ order[o].payment = "pending"
                          /\ phase[o] # "hold"}

\* The rows as the handler sees them once expireHolds has run.
Swept == [o \in Orders |->
            IF o \in Lapsed
            THEN [order[o] EXCEPT !.status = "expired", !.payment = "expired"]
            ELSE order[o]]

OrdersInit ==
    /\ order = [o \in Orders |-> NoOrder]
    /\ phase = [o \in Orders |-> "hold"]
    /\ page = [o \in Orders |-> "none"]
    /\ declined = [o \in Orders |-> FALSE]

\* sweepExpiredHolds, and every handler below that refuses its request after
\* the sweep: a refusal is returned, not thrown, so the sweep commits.
SweepExpiredHolds ==
    /\ Lapsed # {}
    /\ order' = Swept
    /\ UNCHANGED <<phase, page, declined>>

\* The row placeOrder inserts.  An order with nothing to pay is not_required
\* whichever way it would have been paid.
NewOrder(o, m) ==
    [status   |-> "accepted",
     method   |-> m,
     payment  |-> IF Total[o] = 0 THEN "not_required"
                  ELSE IF m = "online" THEN "pending" ELSE "unpaid",
     session  |-> "none",
     refunded |-> 0]

\* Mutant: the slot is full one order too late.
PlaceOrderOffByOne(o, m) ==
    /\ order[o].status = "none"
    /\ Cardinality(Active(Swept)) <= Capacity
    /\ order' = [Swept EXCEPT ![o] = NewOrder(o, m)]
    /\ UNCHANGED <<phase, page, declined>>

\* placeOrder: sweep, check the slot, insert.
PlaceOrder(o, m) ==
    /\ order[o].status = "none"
    /\ Cardinality(Active(Swept)) < Capacity
    /\ order' = [Swept EXCEPT ![o] = NewOrder(o, m)]
    /\ UNCHANGED <<phase, page, declined>>

\* bindPaymentSession.  It refuses an expired order and a payment that has
\* ended, but not one that an operator cancelled or already started on: the
\* App asks for a session whenever it last saw the hold running.
BindPaymentSession(o) ==
    /\ Swept[o].method = "online"
    /\ Swept[o].status \notin {"none", "expired"}
    /\ Swept[o].payment = "pending"
    /\ Swept[o].session = "none"
    /\ phase[o] # "closed"
    /\ order' = [Swept EXCEPT ![o].session = "bound"]
    /\ page' = [page EXCEPT ![o] = "open"]
    /\ UNCHANGED <<phase, declined>>

\* applyPaymentEvent, status 'paid', on time.
PaidOnTime(o) ==
    /\ Swept[o].status = "accepted"
    /\ Swept[o].payment = "pending"
    /\ order' = [Swept EXCEPT ![o].payment = "paid"]

\* Late: the money is kept for an operator to decide on.
PaidLate(o) ==
    /\ Swept[o].status \in {"expired", "cancelled"}
    /\ Swept[o].payment \in {"pending", "expired", "failed"}
    /\ order' = [Swept EXCEPT ![o].status = "payment_review",
                              ![o].payment = "paid"]

\* Neither: a duplicate of a payment already recorded, or an order the
\* operator moved on before it was paid (payment_state_conflict).  Either way
\* the answer is final for the provider.
PaidNoChange(o) ==
    /\ \/ Swept[o].payment = "paid"
       \/ /\ Swept[o].status \notin {"accepted", "expired", "cancelled"}
          /\ Swept[o].payment # "paid"
    /\ order' = Swept

PaidEvent(o) ==
    /\ page[o] \in {"captured", "settled"}
    /\ order[o].session = "bound"
    /\ PaidOnTime(o) \/ PaidLate(o) \/ PaidNoChange(o)
    /\ page' = [page EXCEPT ![o] = "settled"]
    /\ UNCHANGED <<phase, declined>>

\* Mutant: a failed attempt is believed whatever was paid since.
FailedEventUnguarded(o) ==
    /\ declined[o]
    /\ Swept[o].status = "accepted"
    /\ order' = [Swept EXCEPT ![o].status = "cancelled", ![o].payment = "failed"]
    /\ UNCHANGED <<phase, page, declined>>

\* Mutant: the provider's expiry also ends an order that was cancelled.
ExpiredEventUnguarded(o) ==
    /\ page[o] = "shut"
    /\ Swept[o].payment = "pending"
    /\ order' = [Swept EXCEPT ![o].status = "expired", ![o].payment = "expired"]
    /\ UNCHANGED <<phase, page, declined>>

\* applyPaymentEvent, status 'failed' and status 'expired'; in any other
\* state they only sweep.
FailedEvent(o) ==
    /\ declined[o]
    /\ Swept[o].status = "accepted"
    /\ Swept[o].payment = "pending"
    /\ order' = [Swept EXCEPT ![o].status = "cancelled", ![o].payment = "failed"]
    /\ UNCHANGED <<phase, page, declined>>

ExpiredEvent(o) ==
    /\ page[o] = "shut"
    /\ Swept[o].status = "accepted"
    /\ Swept[o].payment = "pending"
    /\ order' = [Swept EXCEPT ![o].status = "expired", ![o].payment = "expired"]
    /\ UNCHANGED <<phase, page, declined>>

\* updateOperatorOrder: a status change, a payment taken at the counter, or
\* both.  Online payments are never marked by hand, and a free order has
\* nothing to mark.
OperatorUpdate(o, to, markPaid) ==
    LET row   == Swept[o]
        moves == to # row.status
        marks == markPaid /\ row.payment # "not_required"
    IN  /\ row.status # "none"
        /\ moves => to \in OperatorTransitions(row.status)
        /\ markPaid => /\ row.method = "handoff"
                       /\ row.payment \in {"unpaid", "paid", "not_required"}
        /\ moves \/ marks
        /\ order' = [Swept EXCEPT ![o].status = to,
                                  ![o].payment = IF marks THEN "paid" ELSE @]
        /\ UNCHANGED <<phase, page, declined>>

\* Mutant: every refund is checked against the whole payment.
RecordOrderRefundUncapped(o, amount) ==
    /\ order[o].method = "online"
    /\ order[o].payment = "paid"
    /\ amount \in 1 .. Total[o]
    /\ order' = [order EXCEPT ![o].refunded = @ + amount]
    /\ UNCHANGED <<phase, page, declined>>

\* recordOrderRefund: what an operator refunded in the provider's dashboard.
\* This handler does not sweep.
RecordOrderRefund(o, amount) ==
    /\ order[o].method = "online"
    /\ order[o].payment = "paid"
    /\ amount \in 1 .. (Total[o] - order[o].refunded)
    /\ order' = [order EXCEPT ![o].refunded = @ + amount]
    /\ UNCHANGED <<phase, page, declined>>

-----------------------------------------------------------------------------
\* The environment: the clock, the provider and the guest

\* A page closes before the region stops waiting for it
\* (ONLINE_PAYABLE_AFTER_HOLD_MS covers the page's own life).
PassTime(o) ==
    /\ order[o].status # "none"
    /\ \/ phase[o] = "hold" /\ phase' = [phase EXCEPT ![o] = "lapsed"]
       \/ /\ phase[o] = "lapsed"
          /\ page[o] # "open"
          /\ phase' = [phase EXCEPT ![o] = "closed"]
    /\ UNCHANGED <<order, page, declined>>

CapturePayment(o) ==
    /\ page[o] = "open"
    /\ page' = [page EXCEPT ![o] = "captured"]
    /\ UNCHANGED <<order, phase, declined>>

\* A declined card; the guest may try again on the same page.
DeclinePayment(o) ==
    /\ page[o] = "open"
    /\ ~declined[o]
    /\ declined' = [declined EXCEPT ![o] = TRUE]
    /\ UNCHANGED <<order, phase, page>>

ShutPage(o) ==
    /\ page[o] = "open"
    /\ page' = [page EXCEPT ![o] = "shut"]
    /\ UNCHANGED <<order, phase, declined>>

Environment(o) ==
    PassTime(o) \/ CapturePayment(o) \/ DeclinePayment(o) \/ ShutPage(o)

OrdersNext ==
    \/ SweepExpiredHolds
    \/ \E o \in Orders :
         \/ \E m \in Methods : PlaceOrder(o, m)
         \/ BindPaymentSession(o)
         \/ PaidEvent(o)
         \/ FailedEvent(o)
         \/ ExpiredEvent(o)
         \/ \E to \in Statuses, p \in BOOLEAN : OperatorUpdate(o, to, p)
         \/ \E a \in 1 .. Total[o] : RecordOrderRefund(o, a)
         \/ Environment(o)

\* Time passes, pages end, and the loyalty tick and every order read run the
\* sweep; guests, operators and the provider's events owe nothing.
OrdersFairness ==
    /\ WF_orderVars(SweepExpiredHolds)
    /\ \A o \in Orders : WF_orderVars(PassTime(o)) /\ WF_orderVars(ShutPage(o))

OrdersSpec == OrdersInit /\ [][OrdersNext]_orderVars /\ OrdersFairness

-----------------------------------------------------------------------------
\* Properties

\* The number of orders that use the slot grows past its limit only when an
\* operator accepts an order held for payment review.
OverbookedByOperator ==
    Cardinality(Active(order')) > Cardinality(Active(order))
      => \/ Cardinality(Active(order')) <= Capacity
         \/ \E o \in Orders : /\ order[o].status = "payment_review"
                              /\ order'[o].status \in ActiveStatuses

\* No placement and no payment event, however late, overbooks the slot.
NeverOverbooked == [][OverbookedByOperator]_orderVars

\* A stopped order only ever moves to an operator's desk.
StaysStopped ==
    \A o \in Orders :
      order[o].status \in {"expired", "cancelled"} =>
        order'[o].status \in {order[o].status, "payment_review"}

\* An order that expired or was cancelled gave its place away; no event that
\* arrives afterwards gives it back.
NeverResurrected == [][StaysStopped]_orderVars

\* A recorded payment stays, refunds add up, and only recorded online money
\* is refunded.
KeepsMoney ==
    \A o \in Orders :
      /\ order[o].payment = "paid" => order'[o].payment = "paid"
      /\ order'[o].refunded >= order[o].refunded
      /\ order'[o].refunded > 0 =>
           order'[o].method = "online" /\ order'[o].payment = "paid"

\* Money recorded as taken stays recorded, whatever late or repeated failure
\* events follow, and refunds never run ahead of it.
PaymentsNeverRegress == [][KeepsMoney]_orderVars

\* The region never records a payment no guest made on its page: an online
\* order is paid only if the provider captured the money.
PaidMeansCaptured ==
    \A o \in Orders :
      (order[o].method = "online" /\ order[o].payment = "paid")
        => page[o] = "settled"

\* An unpaid online order does not keep its place for ever.
HoldsEnd ==
    \A o \in Orders :
      (order[o].status = "accepted" /\ order[o].payment = "pending")
        ~> ~(order[o].status = "accepted" /\ order[o].payment = "pending")

\* The contract lets the region refuse a payment for good only when the order
\* is unknown, the session is not bound or the amount differs.  So once it
\* has answered the provider's event for a bound page, the order is paid.
AnsweredPaymentIsRecorded ==
    \A o \in Orders : page[o] = "settled" => order[o].payment = "paid"

=============================================================================
