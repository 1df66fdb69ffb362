----------------------- MODULE RestaurantOrders_proofs -----------------------
(***************************************************************************)
(* What holds of the order lifecycle for every set of orders, every total  *)
(* and every capacity.                                                     *)
(***************************************************************************)
EXTENDS RestaurantOrders, FiniteSetTheorems, TLAPS

-----------------------------------------------------------------------------
\* The sweep

\* The sweep leaves rows rows, and only lapsed holds change, to expired.
LEMMA SweptRows ==
    ASSUME OrdersTypeOK
    PROVE  /\ Swept \in [Orders -> OrderRow]
           /\ \A o \in Orders : /\ Swept[o].method = order[o].method
                                /\ Swept[o].session = order[o].session
                                /\ Swept[o].refunded = order[o].refunded
                                /\ o \notin Lapsed => Swept[o] = order[o]
                                /\ o \in Lapsed =>
                                     /\ order[o].status = "accepted"
                                     /\ order[o].payment = "pending"
                                     /\ Swept[o].status = "expired"
                                     /\ Swept[o].payment = "expired"
  BY DEF OrdersTypeOK, Swept, Lapsed, OrderRow, Statuses, Payments

-----------------------------------------------------------------------------
\* Type correctness

\* A change of a row's status and payment leaves a row, with the amount
\* refunded it had.
LEMMA EditedRow ==
    ASSUME NEW row \in OrderRow, NEW to \in Statuses, NEW pay \in Payments
    PROVE  /\ [row EXCEPT !.status = to, !.payment = pay] \in OrderRow
           /\ [row EXCEPT !.status = to, !.payment = pay].refunded = row.refunded
  BY DEF OrderRow

\* Every step keeps the rows well typed and the refunds within the totals.
LEMMA OrdersTypeStep ==
    ASSUME OrdersTypeOK, [OrdersNext]_orderVars
    PROVE  OrdersTypeOK'
<1> USE OrdersAssumption, SweptRows
<1>0. ASSUME NEW o \in Orders, NEW to \in Statuses, NEW pay \in Payments,
             order' = [Swept EXCEPT ![o].status = to, ![o].payment = pay],
             UNCHANGED <<phase, page, declined>>
      PROVE  OrdersTypeOK'
  <2> DEFINE row == [Swept[o] EXCEPT !.status = to, !.payment = pay]
  <2>1. Swept \in [Orders -> OrderRow] /\ Swept[o] \in OrderRow
    OBVIOUS
  <2>2. row \in OrderRow /\ row.refunded = Swept[o].refunded
    BY <2>1, EditedRow, Zenon
  <2>3. order' = [Swept EXCEPT ![o] = row]
    BY <1>0
  <2> HIDE DEF row
  <2>4. order' \in [Orders -> OrderRow]
    BY <2>1, <2>2, <2>3
  <2>5. ASSUME NEW x \in Orders PROVE order'[x].refunded = Swept[x].refunded
    <3>1. order'[x] = IF x = o THEN row ELSE Swept[x]
      BY <2>1, <2>3
    <3> QED
      BY <2>2, <3>1
  <2> QED
    BY <1>0, <2>4, <2>5 DEF OrdersTypeOK
<1>1. CASE SweepExpiredHolds
  BY <1>1 DEF SweepExpiredHolds, OrdersTypeOK
<1>2. ASSUME NEW o \in Orders, NEW m \in Methods, PlaceOrder(o, m)
      PROVE  OrdersTypeOK'
  <2>1. NewOrder(o, m) \in OrderRow /\ NewOrder(o, m).refunded = 0
    BY DEF NewOrder, OrderRow, Statuses, Payments, Sessions
  <2> QED
    BY <1>2, <2>1 DEF PlaceOrder, OrdersTypeOK
<1>3. ASSUME NEW o \in Orders, BindPaymentSession(o)
      PROVE  OrdersTypeOK'
  <2>1. order' \in [Orders -> OrderRow]
    BY <1>3 DEF BindPaymentSession, OrderRow, Sessions
  <2>2. \A x \in Orders : order'[x].refunded = Swept[x].refunded
    BY <1>3 DEF BindPaymentSession, OrderRow, Sessions
  <2>3. page' \in [Orders -> Pages]
    BY <1>3 DEF BindPaymentSession, OrdersTypeOK, Pages
  <2> QED
    BY <1>3, <2>1, <2>2, <2>3 DEF BindPaymentSession, OrdersTypeOK
<1>4. ASSUME NEW o \in Orders, PaidEvent(o)
      PROVE  OrdersTypeOK'
  <2>1. order' \in [Orders -> OrderRow]
    BY <1>4 DEF PaidEvent, PaidOnTime, PaidLate, PaidNoChange, OrderRow,
                Statuses, Payments, Sessions
  <2>2. \A x \in Orders : order'[x].refunded = Swept[x].refunded
    BY <1>4 DEF PaidEvent, PaidOnTime, PaidLate, PaidNoChange, OrderRow
  <2>3. page' \in [Orders -> Pages]
    BY <1>4 DEF PaidEvent, OrdersTypeOK, Pages
  <2> QED
    BY <1>4, <2>1, <2>2, <2>3 DEF PaidEvent, OrdersTypeOK
<1>5. ASSUME NEW o \in Orders, FailedEvent(o)
      PROVE  OrdersTypeOK'
  <2>1. "cancelled" \in Statuses /\ "failed" \in Payments
    BY DEF Statuses, Payments
  <2>2. /\ order' = [Swept EXCEPT ![o].status = "cancelled", ![o].payment = "failed"]
        /\ UNCHANGED <<phase, page, declined>>
    BY <1>5, Zenon DEF FailedEvent
  <2> QED
    BY <1>0, <2>1, <2>2, Zenon
<1>6. ASSUME NEW o \in Orders, ExpiredEvent(o)
      PROVE  OrdersTypeOK'
  <2>1. "expired" \in Statuses /\ "expired" \in Payments
    BY DEF Statuses, Payments
  <2>2. /\ order' = [Swept EXCEPT ![o].status = "expired", ![o].payment = "expired"]
        /\ UNCHANGED <<phase, page, declined>>
    BY <1>6, Zenon DEF ExpiredEvent
  <2> QED
    BY <1>0, <2>1, <2>2, Zenon
<1>7. ASSUME NEW o \in Orders, NEW to \in Statuses, NEW p \in BOOLEAN,
             OperatorUpdate(o, to, p)
      PROVE  OrdersTypeOK'
  <2>1. PICK pay \in Payments :
          order' = [Swept EXCEPT ![o].status = to, ![o].payment = pay]
    <3>1. Swept[o].payment \in Payments
      BY DEF OrderRow
    <3> QED
      BY <1>7, <3>1 DEF OperatorUpdate, Payments
  <2>2. UNCHANGED <<phase, page, declined>>
    BY <1>7 DEF OperatorUpdate
  <2> QED
    BY <1>0, <2>1, <2>2, Zenon
<1>8. ASSUME NEW o \in Orders, NEW a \in 1 .. Total[o], RecordOrderRefund(o, a)
      PROVE  OrdersTypeOK'
  BY <1>8 DEF RecordOrderRefund, OrdersTypeOK, OrderRow
<1>9. ASSUME NEW o \in Orders, Environment(o)
      PROVE  OrdersTypeOK'
  BY <1>9 DEF Environment, PassTime, CapturePayment, DeclinePayment, ShutPage,
              OrdersTypeOK, Phases, Pages
<1>10. CASE UNCHANGED orderVars
  BY <1>10 DEF orderVars, OrdersTypeOK
<1> QED
  BY <1>1, <1>2, <1>3, <1>4, <1>5, <1>6, <1>7, <1>8, <1>9, <1>10 DEF OrdersNext

\* Every state of the order lifecycle is well typed, and no order has had
\* more refunded than its total (recordOrderRefund's cap).
THEOREM OrdersTypeCorrect == OrdersSpec => []OrdersTypeOK
<1> USE OrdersAssumption
<1>1. OrdersInit => OrdersTypeOK
  BY DEF OrdersInit, OrdersTypeOK, NoOrder, OrderRow, Statuses, Payments,
         Methods, Phases, Pages, Sessions
<1>2. OrdersTypeOK /\ [OrdersNext]_orderVars => OrdersTypeOK'
  BY OrdersTypeStep
<1> QED
  BY <1>1, <1>2, PTL DEF OrdersSpec

-----------------------------------------------------------------------------
\* Money

\* A captured or settled page never goes back, so a payment, once recorded,
\* stays backed by money the provider holds.
THEOREM OnlyCapturedMoneyIsPaid == OrdersSpec => []PaidMeansCaptured
<1>1. OrdersInit => PaidMeansCaptured
  BY DEF OrdersInit, PaidMeansCaptured, NoOrder
<1>2. OrdersTypeOK /\ PaidMeansCaptured /\ [OrdersNext]_orderVars
        => PaidMeansCaptured'
  <2> SUFFICES ASSUME OrdersTypeOK, PaidMeansCaptured, [OrdersNext]_orderVars,
                      NEW x \in Orders,
                      order'[x].method = "online", order'[x].payment = "paid"
               PROVE  page'[x] = "settled"
    BY DEF PaidMeansCaptured
  <2>0. Swept[x].method = "online" /\ Swept[x].payment = "paid"
           => page[x] = "settled"
    BY SweptRows DEF PaidMeansCaptured
  <2>1. CASE SweepExpiredHolds
    BY <2>0, <2>1 DEF SweepExpiredHolds
  <2>2. ASSUME NEW o \in Orders, NEW m \in Methods, PlaceOrder(o, m)
        PROVE  page'[x] = "settled"
    <3>1. NewOrder(o, m).payment # "paid"
      BY DEF NewOrder
    <3> QED
      BY <2>0, <2>2, <3>1, SweptRows DEF PlaceOrder
  <2>3. ASSUME NEW o \in Orders, BindPaymentSession(o)
        PROVE  page'[x] = "settled"
    BY <2>0, <2>3, SweptRows DEF BindPaymentSession, OrderRow, OrdersTypeOK
  <2>4. ASSUME NEW o \in Orders, PaidEvent(o)
        PROVE  page'[x] = "settled"
    BY <2>0, <2>4, SweptRows
       DEF PaidEvent, PaidOnTime, PaidLate, PaidNoChange, OrdersTypeOK
  <2>5. ASSUME NEW o \in Orders, FailedEvent(o)
        PROVE  page'[x] = "settled"
    BY <2>0, <2>5, SweptRows DEF FailedEvent
  <2>6. ASSUME NEW o \in Orders, ExpiredEvent(o)
        PROVE  page'[x] = "settled"
    BY <2>0, <2>6, SweptRows DEF ExpiredEvent
  <2>7. ASSUME NEW o \in Orders, NEW to \in Statuses, NEW p \in BOOLEAN,
               OperatorUpdate(o, to, p)
        PROVE  page'[x] = "settled"
    BY <2>0, <2>7, SweptRows DEF OperatorUpdate
  <2>8. ASSUME NEW o \in Orders, NEW a \in 1 .. Total[o], RecordOrderRefund(o, a)
        PROVE  page'[x] = "settled"
    <3>1. order'[x].method = order[x].method /\ order'[x].payment = order[x].payment
      BY <2>8 DEF RecordOrderRefund, OrdersTypeOK, OrderRow
    <3> QED
      BY <2>8, <3>1 DEF RecordOrderRefund, PaidMeansCaptured
  <2>9. ASSUME NEW o \in Orders, Environment(o)
        PROVE  page'[x] = "settled"
    BY <2>9 DEF Environment, PassTime, CapturePayment, DeclinePayment, ShutPage,
                PaidMeansCaptured, OrdersTypeOK
  <2>10. CASE UNCHANGED orderVars
    BY <2>10 DEF orderVars, PaidMeansCaptured
  <2> QED
    BY <2>1, <2>2, <2>3, <2>4, <2>5, <2>6, <2>7, <2>8, <2>9, <2>10 DEF OrdersNext
<1> QED
  BY <1>1, <1>2, OrdersTypeCorrect, PTL DEF OrdersSpec

-----------------------------------------------------------------------------
\* One row, one step

\* What a step may do to the row of order x: leave it or sweep it, create it,
\* bind a page, apply one of the provider's events, follow an operator, or
\* record a refund.
Placed(x) == /\ order[x].status = "none"
             /\ \E m \in Methods : order'[x] = NewOrder(x, m)

Bound(x) == order'[x] = [Swept[x] EXCEPT !.session = "bound"]

PaidNow(x) == \/ /\ Swept[x].status = "accepted"
                 /\ Swept[x].payment = "pending"
                 /\ order'[x] = [Swept[x] EXCEPT !.payment = "paid"]
              \/ /\ Swept[x].status \in {"expired", "cancelled"}
                 /\ order'[x] = [Swept[x] EXCEPT !.status = "payment_review",
                                                !.payment = "paid"]

Ended(x) == /\ Swept[x].status = "accepted"
            /\ Swept[x].payment = "pending"
            /\ \/ order'[x] = [Swept[x] EXCEPT !.status = "cancelled",
                                              !.payment = "failed"]
               \/ order'[x] = [Swept[x] EXCEPT !.status = "expired",
                                              !.payment = "expired"]

Operated(x) ==
    \E to \in Statuses, pay \in Payments :
      /\ Swept[x].status # "none"
      /\ to # Swept[x].status => to \in OperatorTransitions(Swept[x].status)
      /\ pay # Swept[x].payment => Swept[x].method = "handoff" /\ pay = "paid"
      /\ order'[x] = [Swept[x] EXCEPT !.status = to, !.payment = pay]

RefundTaken(x) ==
    /\ order[x].method = "online"
    /\ order[x].payment = "paid"
    /\ \E a \in 1 .. (Total[x] - order[x].refunded) :
         order'[x] = [order[x] EXCEPT !.refunded = @ + a]

RowStep(x) == \/ order'[x] = order[x] \/ order'[x] = Swept[x]
              \/ Placed(x) \/ Bound(x) \/ PaidNow(x) \/ Ended(x)
              \/ Operated(x) \/ RefundTaken(x)

LEMMA RowSteps ==
    ASSUME OrdersTypeOK, [OrdersNext]_orderVars, NEW x \in Orders
    PROVE  RowStep(x)
<1> USE SweptRows
<1>1. CASE SweepExpiredHolds
  BY <1>1 DEF SweepExpiredHolds, RowStep
<1>2. ASSUME NEW o \in Orders, NEW m \in Methods, PlaceOrder(o, m)
      PROVE  RowStep(x)
  BY <1>2, Zenon DEF PlaceOrder, RowStep, Placed
<1>3. ASSUME NEW o \in Orders, BindPaymentSession(o)
      PROVE  RowStep(x)
  BY <1>3, Zenon DEF BindPaymentSession, RowStep, Bound
<1>4. ASSUME NEW o \in Orders, PaidEvent(o)
      PROVE  RowStep(x)
  <2>1. CASE PaidOnTime(o)
    BY <2>1, Zenon DEF PaidOnTime, RowStep, PaidNow
  <2>2. CASE PaidLate(o)
    BY <2>2, Zenon DEF PaidLate, RowStep, PaidNow
  <2> QED
    BY <1>4, <2>1, <2>2, Zenon DEF PaidEvent, PaidNoChange, RowStep
<1>5. ASSUME NEW o \in Orders, FailedEvent(o) \/ ExpiredEvent(o)
      PROVE  RowStep(x)
  BY <1>5, Zenon DEF FailedEvent, ExpiredEvent, RowStep, Ended
<1>6. ASSUME NEW o \in Orders, NEW to \in Statuses, NEW p \in BOOLEAN,
             OperatorUpdate(o, to, p)
      PROVE  RowStep(x)
  <2>1. Swept[o].payment \in Payments
    BY DEF OrderRow
  <2>2. PICK pay \in Payments :
          /\ order' = [Swept EXCEPT ![o].status = to, ![o].payment = pay]
          /\ pay # Swept[o].payment => Swept[o].method = "handoff" /\ pay = "paid"
    BY <1>6, <2>1 DEF OperatorUpdate, Payments
  <2>3. CASE x = o
    <3>1. order'[x] = [Swept[x] EXCEPT !.status = to, !.payment = pay]
      BY <2>2, <2>3, Zenon
    <3> QED
      <4>1. /\ Swept[x].status # "none"
            /\ to # Swept[x].status => to \in OperatorTransitions(Swept[x].status)
        BY <1>6, <2>3, Zenon DEF OperatorUpdate
      <4>2. Operated(x)
        BY <2>2, <2>3, <3>1, <4>1, Zenon DEF Operated
      <4> QED
        BY <4>2 DEF RowStep
  <2>4. CASE x # o
    BY <2>2, <2>4 DEF RowStep
  <2> QED
    BY <2>3, <2>4
<1>7. ASSUME NEW o \in Orders, NEW a \in 1 .. Total[o], RecordOrderRefund(o, a)
      PROVE  RowStep(x)
  BY <1>7, Zenon DEF RecordOrderRefund, RowStep, RefundTaken, OrdersTypeOK
<1>8. ASSUME NEW o \in Orders, Environment(o)
      PROVE  RowStep(x)
  BY <1>8 DEF Environment, PassTime, CapturePayment, DeclinePayment, ShutPage, RowStep
<1>9. CASE UNCHANGED orderVars
  BY <1>9 DEF orderVars, RowStep
<1> QED
  BY <1>1, <1>2, <1>3, <1>4, <1>5, <1>6, <1>7, <1>8, <1>9 DEF OrdersNext

-----------------------------------------------------------------------------
\* No way back

\* An order that expired or was cancelled never takes its place again by
\* itself: whatever arrives, it stays or goes before an operator.
THEOREM StoppedOrdersStayStopped == OrdersSpec => NeverResurrected
<1>1. ASSUME OrdersTypeOK, [OrdersNext]_orderVars, NEW x \in Orders,
             order[x].status \in {"expired", "cancelled"}
      PROVE  order'[x].status \in {order[x].status, "payment_review"}
  <2>1. Swept[x] = order[x] /\ order[x] \in OrderRow
    BY <1>1, SweptRows DEF OrdersTypeOK
  <2>2. RowStep(x)
    BY <1>1, RowSteps
  <2> QED
    BY <1>1, <2>1, <2>2
       DEF RowStep, Placed, Bound, PaidNow, Ended, Operated, RefundTaken,
           OperatorTransitions, OrderRow
<1>2. OrdersTypeOK /\ [OrdersNext]_orderVars => [StaysStopped]_orderVars
  BY <1>1 DEF StaysStopped
<1> QED
  BY <1>2, OrdersTypeCorrect, PTL DEF OrdersSpec, NeverResurrected

-----------------------------------------------------------------------------
\* Recorded money

\* An order not placed yet has no money on it, and only online orders that
\* are paid have refunds.
MoneyInv ==
    \A x \in Orders :
      /\ order[x].status = "none" =>
           order[x].payment = "unpaid" /\ order[x].refunded = 0
      /\ order[x].refunded > 0 =>
           order[x].method = "online" /\ order[x].payment = "paid"

LEMMA MoneyStep ==
    ASSUME OrdersTypeOK, MoneyInv, [OrdersNext]_orderVars
    PROVE  MoneyInv'
<1> SUFFICES ASSUME NEW x \in Orders
             PROVE  /\ order'[x].status = "none" =>
                         order'[x].payment = "unpaid" /\ order'[x].refunded = 0
                    /\ order'[x].refunded > 0 =>
                         order'[x].method = "online" /\ order'[x].payment = "paid"
  BY DEF MoneyInv
<1>1. RowStep(x) /\ order[x] \in OrderRow /\ Swept[x] \in OrderRow
  BY RowSteps, SweptRows DEF OrdersTypeOK
<1>2. CASE order'[x] = order[x]
  BY <1>2 DEF MoneyInv
<1>3. CASE order'[x] = Swept[x]
  BY <1>3, SweptRows DEF MoneyInv
<1>4. CASE Placed(x)
  BY <1>4 DEF Placed, NewOrder
<1>5. CASE Bound(x)
  BY <1>1, <1>5, SweptRows DEF Bound, MoneyInv, OrderRow
<1>6. CASE PaidNow(x)
  BY <1>1, <1>6, SweptRows DEF PaidNow, MoneyInv, OrderRow
<1>7. CASE Ended(x)
  <2>1. order[x].payment # "paid" /\ order[x].refunded = Swept[x].refunded
    BY <1>7, SweptRows DEF Ended
  <2>2. order[x].refunded = 0
    BY <1>1, <2>1 DEF MoneyInv, OrderRow
  <2>3. order'[x].status # "none" /\ order'[x].refunded = 0
    BY <1>1, <1>7, <2>1, <2>2 DEF Ended, OrderRow
  <2> QED
    BY <2>3
<1>8. CASE Operated(x)
  <2>1. PICK to \in Statuses, pay \in Payments :
          /\ to # "none"
          /\ pay # Swept[x].payment => Swept[x].method = "handoff"
          /\ order'[x] = [Swept[x] EXCEPT !.status = to, !.payment = pay]
    BY <1>8 DEF Operated, OperatorTransitions
  <2>2. /\ order'[x].status # "none"
        /\ order'[x].refunded = order[x].refunded
        /\ order'[x].method = order[x].method
        /\ order'[x].payment = pay
    BY <1>1, <2>1, SweptRows DEF OrderRow
  <2>3. order[x].refunded > 0 => order[x].payment = "paid" /\ pay = "paid"
    BY <2>1, SweptRows DEF MoneyInv
  <2> QED
    BY <2>2, <2>3 DEF MoneyInv
<1>9. CASE RefundTaken(x)
  BY <1>1, <1>9 DEF RefundTaken, MoneyInv, OrderRow
<1> QED
  BY <1>1, <1>2, <1>3, <1>4, <1>5, <1>6, <1>7, <1>8, <1>9 DEF RowStep

LEMMA MoneyInvHolds == OrdersSpec => []MoneyInv
<1>1. OrdersInit => MoneyInv
  BY DEF OrdersInit, MoneyInv, NoOrder
<1>2. OrdersTypeOK /\ MoneyInv /\ [OrdersNext]_orderVars => MoneyInv'
  BY MoneyStep
<1> QED
  BY <1>1, <1>2, OrdersTypeCorrect, PTL DEF OrdersSpec

\* A step keeps recorded payments and takes no refund back.
LEMMA MoneyKept ==
    ASSUME OrdersTypeOK, MoneyInv, MoneyInv', [OrdersNext]_orderVars,
           NEW x \in Orders
    PROVE  /\ order[x].payment = "paid" => order'[x].payment = "paid"
           /\ order'[x].refunded >= order[x].refunded
           /\ order'[x].refunded > 0 =>
                order'[x].method = "online" /\ order'[x].payment = "paid"
<1>1. RowStep(x) /\ order[x] \in OrderRow /\ Swept[x] \in OrderRow
  BY RowSteps, SweptRows DEF OrdersTypeOK
<1>2. /\ order[x].payment = "paid" => order'[x].payment = "paid"
      /\ order'[x].refunded >= order[x].refunded
  <2> USE <1>1, SweptRows
  <2>1. CASE order'[x] = order[x] \/ order'[x] = Swept[x]
    BY <2>1 DEF OrderRow
  <2>2. CASE Placed(x)
    BY <2>2 DEF Placed, NewOrder, MoneyInv
  <2>3. CASE Bound(x)
    BY <2>3 DEF Bound, OrderRow
  <2>4. CASE PaidNow(x)
    <3>1. order'[x].payment = "paid"
      BY <2>4 DEF PaidNow, OrderRow
    <3>2. order'[x].refunded = order[x].refunded
      BY <2>4 DEF PaidNow, OrderRow
    <3> QED
      BY <3>1, <3>2 DEF OrderRow
  <2>5. CASE Ended(x)
    <3>1. order[x].payment # "paid" /\ order'[x].refunded = order[x].refunded
      BY <2>5 DEF Ended, OrderRow
    <3> QED
      BY <3>1 DEF OrderRow
  <2>6. CASE Operated(x)
    <3>1. PICK to \in Statuses, pay \in Payments :
            /\ pay # Swept[x].payment => pay = "paid"
            /\ order'[x] = [Swept[x] EXCEPT !.status = to, !.payment = pay]
      BY <2>6 DEF Operated
    <3>2. order'[x].payment = pay /\ order'[x].refunded = order[x].refunded
      BY <3>1 DEF OrderRow
    <3>3. order[x].payment = "paid" => Swept[x].payment = "paid"
      OBVIOUS
    <3> QED
      BY <3>1, <3>2, <3>3 DEF OrderRow
  <2>7. CASE RefundTaken(x)
    BY <2>7 DEF RefundTaken, OrderRow
  <2> QED
    BY <2>1, <2>2, <2>3, <2>4, <2>5, <2>6, <2>7 DEF RowStep
<1> QED
  BY <1>2 DEF MoneyInv

\* Recorded money never disappears, and refunds stay within it.
THEOREM RecordedMoneyStays == OrdersSpec => PaymentsNeverRegress
<1>1. OrdersTypeOK /\ MoneyInv /\ MoneyInv' /\ [OrdersNext]_orderVars
        => [KeepsMoney]_orderVars
  BY MoneyKept DEF KeepsMoney
<1> QED
  BY <1>1, MoneyInvHolds, OrdersTypeCorrect, PTL DEF OrdersSpec, PaymentsNeverRegress

-----------------------------------------------------------------------------
\* Capacity

\* Only placeOrder brings an order into being.
LEMMA OnlyPlacementPlaces ==
    ASSUME OrdersTypeOK, MoneyInv, [OrdersNext]_orderVars, NEW x \in Orders,
           order[x].status = "none", order'[x].status # "none"
    PROVE  \E m \in Methods : PlaceOrder(x, m)
<1>0. /\ Swept[x] = order[x] /\ order[x] \in OrderRow
      /\ order[x].payment = "unpaid"
  BY SweptRows DEF OrdersTypeOK, MoneyInv
<1>1. ~ SweepExpiredHolds
  BY <1>0 DEF SweepExpiredHolds
<1>2. ASSUME NEW o \in Orders, NEW m \in Methods, PlaceOrder(o, m)
      PROVE  o = x
  BY <1>0, <1>2, SweptRows DEF PlaceOrder
<1>3. ASSUME NEW o \in Orders,
             BindPaymentSession(o) \/ PaidEvent(o) \/ FailedEvent(o) \/ ExpiredEvent(o)
      PROVE  FALSE
  <2>1. Swept[o].status # "none" \/ order' = Swept
    BY <1>3, SweptRows DEF BindPaymentSession, PaidEvent, PaidOnTime, PaidLate,
         PaidNoChange, FailedEvent, ExpiredEvent
  <2>2. order'[x] = Swept[x] \/ o = x
    BY <1>3, SweptRows DEF BindPaymentSession, PaidEvent, PaidOnTime, PaidLate,
         PaidNoChange, FailedEvent, ExpiredEvent
  <2> QED
    BY <1>0, <2>1, <2>2
<1>4. ASSUME NEW o \in Orders, NEW to \in Statuses, NEW p \in BOOLEAN,
             OperatorUpdate(o, to, p)
      PROVE  FALSE
  <2>1. Swept[o].status # "none"
    BY <1>4 DEF OperatorUpdate
  <2>2. order'[x] = Swept[x] \/ o = x
    BY <1>4, SweptRows DEF OperatorUpdate
  <2> QED
    BY <1>0, <2>1, <2>2
<1>5. ASSUME NEW o \in Orders, NEW a \in 1 .. Total[o], RecordOrderRefund(o, a)
      PROVE  FALSE
  <2>1. order'[x] = order[x] \/ o = x
    BY <1>5 DEF RecordOrderRefund, OrdersTypeOK
  <2> QED
    BY <1>0, <1>5, <2>1 DEF RecordOrderRefund
<1>6. ASSUME NEW o \in Orders, Environment(o)
      PROVE  FALSE
  BY <1>6 DEF Environment, PassTime, CapturePayment, DeclinePayment, ShutPage
<1>7. ~ UNCHANGED orderVars
  BY DEF orderVars
<1> QED
  BY <1>1, <1>2, <1>3, <1>4, <1>5, <1>6, <1>7 DEF OrdersNext

\* An existing order starts to use capacity only out of payment review.
LEMMA OnlyReviewComesBack ==
    ASSUME OrdersTypeOK, [OrdersNext]_orderVars, NEW x \in Orders,
           order[x].status \notin ActiveStatuses \cup {"none"},
           order'[x].status \in ActiveStatuses
    PROVE  order[x].status = "payment_review"
<1>1. RowStep(x) /\ order[x] \in OrderRow /\ Swept[x] = order[x]
  BY RowSteps, SweptRows DEF OrdersTypeOK, ActiveStatuses
<1> QED
  BY <1>1 DEF RowStep, Placed, Bound, PaidNow, Ended, Operated, RefundTaken,
              OperatorTransitions, ActiveStatuses, OrderRow, Statuses

\* Neither a placement nor any payment event takes the slot past its limit.
THEOREM SlotIsNeverOverbooked == OrdersSpec => NeverOverbooked
<1>1. ASSUME OrdersTypeOK, MoneyInv, [OrdersNext]_orderVars
      PROVE  OverbookedByOperator
  <2> USE <1>1, OrdersAssumption
  <2>1. CASE \E o \in Orders, m \in Methods : PlaceOrder(o, m)
    <3>1. PICK o \in Orders, m \in Methods : PlaceOrder(o, m)
      BY <2>1
    <3>2. Active(order') \subseteq Active(Swept) \cup {o}
      BY <3>1, SweptRows DEF PlaceOrder, Active
    <3>3. /\ IsFiniteSet(Active(Swept))
          /\ Cardinality(Active(Swept)) \in Nat
      BY FS_Subset, FS_CardinalityType DEF Active, OrdersAssumption
    <3>4. /\ IsFiniteSet(Active(Swept) \cup {o})
          /\ Cardinality(Active(Swept) \cup {o}) <= Cardinality(Active(Swept)) + 1
      <4>1. /\ IsFiniteSet(Active(Swept) \cup {o})
            /\ Cardinality(Active(Swept) \cup {o}) =
                 IF o \in Active(Swept) THEN Cardinality(Active(Swept))
                 ELSE Cardinality(Active(Swept)) + 1
        BY <3>3, FS_AddElement, Zenon
      <4> QED
        BY <3>3, <4>1
    <3>5. Cardinality(Active(order')) <= Cardinality(Active(Swept) \cup {o})
      BY <3>2, <3>4, FS_Subset
    <3>6. Cardinality(Active(order')) \in Nat
      BY <3>2, <3>4, FS_Subset, FS_CardinalityType
    <3>7. Cardinality(Active(Swept) \cup {o}) \in Nat
      BY <3>4, FS_CardinalityType
    <3>8. Cardinality(Active(Swept)) < Capacity
      BY <3>1 DEF PlaceOrder
    <3> QED
      BY <3>3, <3>4, <3>5, <3>6, <3>7, <3>8 DEF OverbookedByOperator, OrdersAssumption
  <2>2. CASE \E o \in Orders : /\ order[o].status = "payment_review"
                              /\ order'[o].status \in ActiveStatuses
    BY <2>2 DEF OverbookedByOperator
  <2>3. CASE /\ ~ \E o \in Orders, m \in Methods : PlaceOrder(o, m)
             /\ ~ \E o \in Orders : /\ order[o].status = "payment_review"
                                    /\ order'[o].status \in ActiveStatuses
    <3>1. Active(order') \subseteq Active(order)
      <4> SUFFICES ASSUME NEW x \in Orders, order'[x].status \in ActiveStatuses
                   PROVE  order[x].status \in ActiveStatuses
        BY DEF Active
      <4>1. order[x].status # "none"
        BY <2>3, OnlyPlacementPlaces DEF ActiveStatuses
      <4> QED
        BY <2>3, <4>1, OnlyReviewComesBack
    <3>2. IsFiniteSet(Active(order))
      <4>1. Active(order) \in SUBSET Orders
        BY DEF Active
      <4> QED
        BY <4>1, FS_Subset DEF OrdersAssumption
    <3>3. /\ Cardinality(Active(order')) <= Cardinality(Active(order))
          /\ Cardinality(Active(order')) \in Nat
          /\ Cardinality(Active(order)) \in Nat
      BY <3>1, <3>2, FS_Subset, FS_CardinalityType
    <3> QED
      BY <3>3 DEF OverbookedByOperator
  <2> QED
    BY <2>1, <2>2, <2>3
<1>2. OrdersTypeOK /\ MoneyInv /\ [OrdersNext]_orderVars
        => [OverbookedByOperator]_orderVars
  BY <1>1
<1> QED
  BY <1>2, MoneyInvHolds, OrdersTypeCorrect, PTL DEF OrdersSpec, NeverOverbooked

=============================================================================
