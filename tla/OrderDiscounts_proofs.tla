------------------------ MODULE OrderDiscounts_proofs ------------------------
(***************************************************************************)
(* What holds of the uses of a discount for any number of orders, any      *)
(* totals and any limit.                                                   *)
(***************************************************************************)
EXTENDS OrderDiscounts, RestaurantOrders_proofs

-----------------------------------------------------------------------------
\* The invariant

\* What the row of an order says about its uses.  A row recorded again belongs
\* to a late payment, and the first one was given back before it.
Fits(o, row, u) ==
    LET full == row.refunded > 0 /\ row.refunded = Total[o]
    IN  /\ row.session = "bound" => row.method = "online"
        /\ row.status = "none" => u["own"] = "none"
        /\ u["own"] = "none" => u["late"] = "none"
        /\ u["late"] # "none" => u["own"] = "released" /\ row.payment = "paid" /\ row.method = "online"
        /\ u["own"] \in {"consumed", "refunded"} =>
             row.payment \in {"paid", "not_required"} \/ row.status = "completed"
        /\ row.status \in {"expired", "cancelled"} =>
             u["own"] \notin Live /\ u["late"] \notin Live
        /\ row.status = "payment_review" =>
             /\ row.method = "online" /\ row.payment = "paid"
             /\ u["own"] = "none" \/ (u["own"] = "released" /\ u["late"] = "reserved")
        /\ row.status \in ActiveStatuses /\ u["own"] # "none" =>
             \/ u["late"] = "none" /\ (u["own"] \in Live \/ (u["own"] = "refunded" /\ full))
             \/ u["own"] = "released" /\ u["late"] = "consumed"
             \/ u["own"] = "released" /\ u["late"] = "refunded" /\ full
        /\ row.status \in ActiveStatuses /\ u["own"] = "reserved" =>
             /\ row.status # "completed" /\ row.payment # "paid"
             /\ ~(row.method = "online" /\ row.payment = "not_required")

UseFits == \A o \in Orders : Fits(o, order[o], use[o])

DiscountsInv == DiscountsTypeOK /\ UseFits

USE DEF Rows, UseStates, Live, ActiveStatuses

-----------------------------------------------------------------------------
\* What moves do to the rows of an order

LEMMA Moves ==
    ASSUME NEW u \in [Rows -> UseStates], NEW from \in UseStates, NEW to \in UseStates
    PROVE  /\ Move(u, from, to) \in [Rows -> UseStates]
           /\ \A r \in Rows : Move(u, from, to)[r] = IF u[r] = from THEN to ELSE u[r]
  BY DEF Move

LEMMA Again ==
    ASSUME NEW u \in [Rows -> UseStates]
    PROVE  /\ RecordedAgain(u) \in [Rows -> UseStates]
           /\ RecordedAgain(u)["own"] = u["own"]
           /\ RecordedAgain(u)["late"] =
                IF u["own"] = "released" /\ u["late"] = "none" THEN "reserved" ELSE u["late"]
  BY DEF RecordedAgain, GivenBack

\* The order every handler but the refund finds.
LEMMA SweptFits ==
    ASSUME DiscountsInv
    PROVE  /\ Swept \in [Orders -> OrderRow] /\ SweptUse \in [Orders -> [Rows -> UseStates]]
           /\ \A o \in Orders : Fits(o, Swept[o], SweptUse[o])
  <1>1. Swept \in [Orders -> OrderRow]
    BY DEF DiscountsInv, DiscountsTypeOK, OrdersTypeOK, Swept, OrderRow, Statuses, Payments
  <1>2. SweptUse \in [Orders -> [Rows -> UseStates]]
    BY DEF DiscountsInv, DiscountsTypeOK, SweptUse, Released, Move
  <1>3. ASSUME NEW o \in Orders PROVE Fits(o, Swept[o], SweptUse[o])
    <2>1. Fits(o, order[o], use[o])
      BY DEF DiscountsInv, UseFits
    <2>2. CASE o \notin Lapsed
      BY <2>1, <2>2 DEF Swept, SweptUse
    <2>3. CASE o \in Lapsed
      <3>1. /\ order[o].method = "online" /\ order[o].status = "accepted"
            /\ order[o].payment = "pending"
        BY <2>3 DEF Lapsed
      <3>2. /\ Swept[o].status = "expired" /\ Swept[o].payment = "expired"
            /\ Swept[o].method = "online" /\ Swept[o].session = order[o].session
        BY <2>3, <3>1 DEF Swept, DiscountsInv, DiscountsTypeOK, OrdersTypeOK, OrderRow
      <3>3. \A r \in Rows : SweptUse[o][r] = IF use[o][r] = "reserved" THEN "released" ELSE use[o][r]
        BY <2>3, Moves DEF SweptUse, Released, DiscountsInv, DiscountsTypeOK
      <3>4. use[o] \in [Rows -> UseStates]
        BY DEF DiscountsInv, DiscountsTypeOK
      <3> QED  BY <2>1, <3>1, <3>2, <3>3, <3>4 DEF Fits
    <2> QED  BY <2>2, <2>3
  <1> QED  BY <1>1, <1>2, <1>3

-----------------------------------------------------------------------------
\* The handlers

\* A handler changes its own order after the sweep; if that still fits, all do.
LEMMA OneOrder ==
    ASSUME DiscountsInv, NEW o \in Orders, NEW row, NEW u,
           order' = [Swept EXCEPT ![o] = row], use' = [SweptUse EXCEPT ![o] = u],
           Fits(o, row, u)
    PROVE  UseFits'
  <1> SUFFICES ASSUME NEW x \in Orders PROVE Fits(x, order'[x], use'[x])
    BY DEF UseFits, Fits
  <1>1. CASE x = o
    BY <1>1, SweptFits
  <1>2. CASE x # o
    BY <1>2, SweptFits
  <1> QED  BY <1>1, <1>2

\* One whose row alone changes.
LEMMA SameUse ==
    ASSUME DiscountsInv, NEW o \in Orders, NEW row,
           order' = [Swept EXCEPT ![o] = row], use' = SweptUse, Fits(o, row, SweptUse[o])
    PROVE  UseFits'
  <1>1. use' = [SweptUse EXCEPT ![o] = SweptUse[o]]
    BY SweptFits
  <1> QED  BY <1>1, OneOrder

LEMMA SweepFits == ASSUME DiscountsInv, Sweep PROVE UseFits'
  BY SweptFits DEF Sweep, SweepExpiredHolds, KeepsUses, UseFits, Fits

LEMMA PlaceFits ==
    ASSUME DiscountsInv, NEW o \in Orders, NEW m \in Methods,
           PlacePlain(o, m) \/ PlaceDiscounted(o, m)
    PROVE  UseFits'
  <1>1. order[o].status = "none" /\ order' = [Swept EXCEPT ![o] = NewOrder(o, m)]
    BY DEF PlacePlain, PlaceDiscounted, PlaceOrder
  <1>2. SweptUse[o]["own"] = "none" /\ SweptUse[o]["late"] = "none"
    BY <1>1, SweptFits DEF Fits, Swept, Lapsed
  <1>3. CASE use' = SweptUse
    <2>1. Fits(o, NewOrder(o, m), SweptUse[o])
      BY <1>2 DEF NewOrder, Fits, Methods
    <2> QED  BY <1>1, <1>3, <2>1, SameUse
  <1>4. CASE use' = [SweptUse EXCEPT ![o] = FirstUse(o, m)]
    <2>1. Fits(o, NewOrder(o, m), FirstUse(o, m))
      BY DEF NewOrder, FirstUse, Fits, Methods
    <2> QED  BY <1>1, <1>4, <2>1, OneOrder
  <1> QED  BY <1>3, <1>4 DEF PlacePlain, PlaceDiscounted, KeepsUses, SetUse

LEMMA BindFits == ASSUME DiscountsInv, NEW o \in Orders, Bind(o) PROVE UseFits'
  <1> DEFINE row == [Swept[o] EXCEPT !.session = "bound"]
  <1>1. /\ Swept[o].method = "online" /\ use' = SweptUse
        /\ order' = [Swept EXCEPT ![o] = row]
    BY DEF Bind, BindPaymentSession, KeepsUses
  <1>2. Fits(o, row, SweptUse[o])
    BY <1>1, SweptFits DEF Fits, OrderRow
  <1> HIDE DEF row
  <1> QED  BY <1>1, <1>2, SameUse

LEMMA PaidFits == ASSUME DiscountsInv, NEW o \in Orders, PaidArrives(o) PROVE UseFits'
  <1>1. CASE order' = Swept /\ use' = SweptUse
    BY <1>1, SweptFits DEF UseFits, Fits
  <1>2. Swept[o].method = "online"
    BY SweptRows DEF PaidArrives, PaidEvent, Fits, DiscountsInv, UseFits, DiscountsTypeOK
  <1>3. CASE PaidOnTime(o) /\ SetUse(o, Consumed(SweptUse[o]))
    <2> DEFINE row == [Swept[o] EXCEPT !.payment = "paid"]
    <2>1. /\ order' = [Swept EXCEPT ![o] = row]
          /\ use' = [SweptUse EXCEPT ![o] = Consumed(SweptUse[o])]
      BY <1>3 DEF PaidOnTime, SetUse
    <2>2. Fits(o, row, Consumed(SweptUse[o]))
      BY <1>2, <1>3, SweptFits, Moves DEF Consumed, PaidOnTime, Fits, OrderRow
    <2> HIDE DEF row
    <2> QED  BY <2>1, <2>2, OneOrder
  <1>4. CASE PaidLate(o) /\ LatePayment(o)
    <2> DEFINE row == [Swept[o] EXCEPT !.status = "payment_review", !.payment = "paid"]
    <2>1. /\ order' = [Swept EXCEPT ![o] = row]
          /\ use' = [SweptUse EXCEPT ![o] = RecordedAgain(SweptUse[o])]
      BY <1>4, SweptFits DEF PaidLate, LatePayment, OrderRow
    <2>2. Fits(o, row, RecordedAgain(SweptUse[o]))
      BY <1>2, <1>4, SweptFits, Again DEF PaidLate, Fits, OrderRow
    <2> HIDE DEF row
    <2> QED  BY <2>1, <2>2, OneOrder
  <1>5. PaidOnTime(o) => order'[o].status = "accepted"
    BY SweptFits DEF PaidOnTime, OrderRow
  <1>6. PaidLate(o) => order'[o].status = "payment_review" /\ order'[o] # Swept[o]
    BY SweptFits DEF PaidLate, OrderRow
  <1>7. PaidOnTime(o) => order'[o] # Swept[o]
    BY SweptFits DEF PaidOnTime, OrderRow
  <1> QED  BY <1>1, <1>3, <1>4, <1>5, <1>6, <1>7
           DEF PaidArrives, PaidEvent, PaidNoChange, KeepsUses

LEMMA EndFits == ASSUME DiscountsInv, NEW o \in Orders, EndedByProvider(o) PROVE UseFits'
  <1>1. PICK status \in {"cancelled", "expired"}, payment \in {"failed", "expired"} :
          order' = [Swept EXCEPT ![o] = [Swept[o] EXCEPT !.status = status, !.payment = payment]]
    BY DEF EndedByProvider, FailedEvent, ExpiredEvent
  <1> DEFINE row == [Swept[o] EXCEPT !.status = status, !.payment = payment]
  <1>2. Swept[o].status = "accepted" /\ Swept[o].payment = "pending"
    BY DEF EndedByProvider, FailedEvent, ExpiredEvent
  <1>3. use' = [SweptUse EXCEPT ![o] = Released(SweptUse[o])]
    BY DEF EndedByProvider, SetUse
  <1>4. Fits(o, row, Released(SweptUse[o]))
    BY <1>2, SweptFits, Moves DEF Released, Fits, OrderRow
  <1> HIDE DEF row
  <1>5. order' = [Swept EXCEPT ![o] = row]
    BY <1>1 DEF row
  <1> QED  BY <1>3, <1>4, <1>5, OneOrder

LEMMA OperateFits ==
    ASSUME DiscountsInv, NEW o \in Orders, NEW to \in Statuses, NEW p \in BOOLEAN,
           Operate(o, to, p)
    PROVE  UseFits'
  <1> DEFINE from == Swept[o].status
             u == SweptUse[o]
             moved == to # from
             marks == p /\ Swept[o].payment # "not_required"
             pay == IF marks THEN "paid" ELSE Swept[o].payment
             row == [Swept[o] EXCEPT !.status = to, !.payment = pay]
             settled == IF moved /\ to = "cancelled" THEN Refunded(Released(u))
                        ELSE IF from = "payment_review" /\ moved
                             THEN Consumed(RecordedAgain(u))
                        ELSE IF (moved /\ to = "completed") \/ marks THEN Consumed(u)
                        ELSE u
  <1>1. order' = [Swept EXCEPT ![o] = row] /\ use' = [SweptUse EXCEPT ![o] = settled]
    BY SweptFits DEF Operate, OperatorUpdate, SetUse, OrderRow
  <1>2. /\ from # "none"
        /\ moved => /\ from \in {"accepted", "preparing", "ready", "payment_review"}
                    /\ to \in {"preparing", "ready", "completed", "cancelled"}
        /\ marks => Swept[o].method = "handoff"
        /\ moved \/ marks
    BY DEF Operate, OperatorUpdate, OperatorTransitions
  <1>3. /\ row.status = to /\ row.payment = pay
        /\ row.method = Swept[o].method /\ row.session = Swept[o].session
        /\ row.refunded = Swept[o].refunded
    BY SweptFits DEF OrderRow
  <1>4. Fits(o, Swept[o], u) /\ u \in [Rows -> UseStates]
    BY SweptFits
  <1> HIDE DEF row
  <1>5. Fits(o, row, settled)
    <2>1. CASE moved /\ to = "cancelled"
      <3>1. \A r \in Rows : settled[r] = IF u[r] = "reserved" THEN "released"
                                        ELSE IF u[r] = "consumed" THEN "refunded" ELSE u[r]
        BY <1>4, <2>1, Moves DEF Refunded, Released
      <3> HIDE DEF settled, u
      <3> QED  BY <1>2, <1>3, <1>4, <2>1, <3>1 DEF Fits
    <2>2. CASE moved /\ to # "cancelled" /\ from = "payment_review"
      <3>1. settled = Consumed(RecordedAgain(u))
        BY <2>2
      <3>2. \A r \in Rows : settled[r] = IF RecordedAgain(u)[r] = "reserved" THEN "consumed"
                                        ELSE RecordedAgain(u)[r]
        BY <1>4, <3>1, Moves, Again DEF Consumed
      <3> HIDE DEF settled, u
      <3> QED  BY <1>2, <1>3, <1>4, <2>2, <3>2, Again DEF Fits
    <2>3. CASE /\ (moved /\ to = "completed") \/ marks
               /\ ~(moved /\ to = "cancelled") /\ ~(moved /\ from = "payment_review")
      <3>1. \A r \in Rows : settled[r] = IF u[r] = "reserved" THEN "consumed" ELSE u[r]
        BY <1>4, <2>3, Moves DEF Consumed
      <3> HIDE DEF settled, u
      <3> QED  BY <1>2, <1>3, <1>4, <2>3, <3>1 DEF Fits
    <2>4. CASE moved /\ to \notin {"completed", "cancelled"} /\ from # "payment_review" /\ ~marks
      <3>1. settled = u
        BY <2>4
      <3> HIDE DEF settled, u
      <3> QED  BY <1>2, <1>3, <1>4, <2>4, <3>1 DEF Fits
    <2> HIDE DEF settled, moved, marks, from
    <2> QED  BY <1>2, <2>1, <2>2, <2>3, <2>4
  <1> HIDE DEF settled
  <1> QED  BY <1>1, <1>5, OneOrder

\* A refund does not sweep: the rows of the other orders are as they were.
LEMMA RefundFits ==
    ASSUME DiscountsInv, NEW o \in Orders, NEW a \in 1 .. Total[o], Refund(o, a)
    PROVE  UseFits'
  <1> SUFFICES ASSUME NEW x \in Orders PROVE Fits(x, order'[x], use'[x])
    BY DEF UseFits, Fits
  <1>1. Fits(x, order[x], use[x])
    BY DEF DiscountsInv, UseFits
  <1>2. CASE x # o
    BY <1>1, <1>2 DEF Refund, RecordOrderRefund, DiscountsInv, DiscountsTypeOK, OrdersTypeOK
  <1>3. CASE x = o
    <2>1. /\ order[o] \in OrderRow /\ Total[o] \in Nat /\ order[o].refunded <= Total[o]
          /\ use[o] \in [Rows -> UseStates]
      BY OrdersAssumption DEF DiscountsInv, DiscountsTypeOK, OrdersTypeOK
    <2>2. /\ order[o].method = "online" /\ order[o].payment = "paid"
          /\ order[o].refunded < Total[o]
          /\ order'[o] = [order[o] EXCEPT !.refunded = @ + a]
      BY <2>1 DEF Refund, RecordOrderRefund, DiscountsInv, DiscountsTypeOK, OrdersTypeOK, OrderRow
    <2>3. /\ order'[o].status = order[o].status /\ order'[o].method = "online"
          /\ order'[o].payment = "paid" /\ order'[o].session = order[o].session
          /\ order'[o].refunded <= Total[o] /\ order'[o].refunded > 0
          /\ order'[o].refunded \in Nat
      BY <2>1, <2>2 DEF OrderRow, Refund, RecordOrderRefund
    <2>4. CASE order'[o].refunded >= Total[o]
      <3>1. \A r \in Rows : use'[o][r] = IF use[o][r] = "consumed" THEN "refunded" ELSE use[o][r]
        BY <2>1, <2>4, Moves DEF Refund, Refunded, DiscountsInv, DiscountsTypeOK
      <3>2. order'[o].refunded = Total[o]
        BY <2>1, <2>3, <2>4
      <3> QED  BY <1>1, <1>3, <2>1, <2>2, <2>3, <3>1, <3>2 DEF Fits
    <2>5. CASE ~(order'[o].refunded >= Total[o])
      <3>1. use'[o] = use[o] /\ order'[o].refunded # Total[o]
        BY <2>1, <2>3, <2>5 DEF Refund, DiscountsInv, DiscountsTypeOK
      <3> QED  BY <1>1, <1>3, <2>1, <2>2, <2>3, <3>1 DEF Fits
    <2> QED  BY <2>4, <2>5
  <1> QED  BY <1>2, <1>3

-----------------------------------------------------------------------------
\* The invariant holds

\* The uses only watch the orders: each step is one of the order lifecycle.
LEMMA OrdersStep == ASSUME [DiscountsNext]_vars PROVE [OrdersNext]_orderVars
  BY DEF DiscountsNext, OrdersNext, vars, orderVars, Sweep, Bind, PlacePlain, PlaceDiscounted,
         PaidArrives, EndedByProvider, Operate, Refund, TurnOverdue

LEMMA UseTypeStep == ASSUME DiscountsTypeOK, [DiscountsNext]_vars PROVE DiscountsTypeOK'
  <1>0. /\ SweptUse \in [Orders -> [Rows -> UseStates]]
        /\ use \in [Orders -> [Rows -> UseStates]]
        /\ flagged \in [Orders -> BOOLEAN] /\ overdue \in [Orders -> BOOLEAN]
    BY DEF DiscountsTypeOK, SweptUse, Released, Move
  <1>1. OrdersTypeOK'
    BY OrdersStep, OrdersTypeStep DEF DiscountsTypeOK
  <1>2. SUFFICES /\ use' \in [Orders -> [Rows -> UseStates]]
                 /\ flagged' \in [Orders -> BOOLEAN] /\ overdue' \in [Orders -> BOOLEAN]
    BY <1>1 DEF DiscountsTypeOK
  <1>3. CASE KeepsUses
    BY <1>0, <1>3 DEF KeepsUses
  <1>4. ASSUME NEW o \in Orders, NEW u \in [Rows -> UseStates], SetUse(o, u)
        PROVE  use' \in [Orders -> [Rows -> UseStates]] /\ UNCHANGED <<flagged, overdue>>
    BY <1>0, <1>4 DEF SetUse
  <1>5. CASE \E o \in Orders, m \in Methods : PlaceDiscounted(o, m)
    <2>1. \A o \in Orders, m \in Methods : FirstUse(o, m) \in [Rows -> UseStates]
      BY DEF FirstUse
    <2> QED  BY <1>0, <1>4, <1>5, <2>1 DEF PlaceDiscounted
  <1>6. CASE \E o \in Orders : PaidArrives(o)
    <2>1. PICK o \in Orders : PaidArrives(o)
      BY <1>6
    <2>2. Consumed(SweptUse[o]) \in [Rows -> UseStates]
      BY <1>0, Moves DEF Consumed
    <2>3. RecordedAgain(SweptUse[o]) \in [Rows -> UseStates]
      BY <1>0, Again
    <2>4. CASE LatePayment(o)
      <3>1. use' \in [Orders -> [Rows -> UseStates]] /\ overdue' = overdue
        BY <1>0, <2>3, <2>4 DEF LatePayment
      <3>2. flagged' \in [Orders -> BOOLEAN]
        BY <1>0, <2>4 DEF LatePayment
      <3> QED  BY <1>0, <3>1, <3>2
    <2> QED  BY <1>0, <1>3, <1>4, <2>1, <2>2, <2>4 DEF PaidArrives
  <1>7. CASE \E o \in Orders : EndedByProvider(o)
    <2>1. \A o \in Orders : Released(SweptUse[o]) \in [Rows -> UseStates]
      BY <1>0, Moves DEF Released
    <2> QED  BY <1>0, <1>4, <1>7, <2>1 DEF EndedByProvider
  <1>8. CASE \E o \in Orders, to \in Statuses, p \in BOOLEAN : Operate(o, to, p)
    <2>1. PICK o \in Orders, to \in Statuses, p \in BOOLEAN : Operate(o, to, p)
      BY <1>8
    <2>2. /\ Refunded(Released(SweptUse[o])) \in [Rows -> UseStates]
          /\ Consumed(RecordedAgain(SweptUse[o])) \in [Rows -> UseStates]
          /\ Consumed(SweptUse[o]) \in [Rows -> UseStates]
          /\ SweptUse[o] \in [Rows -> UseStates]
      BY <1>0, Moves, Again DEF Refunded, Released, Consumed
    <2>3. \E u \in [Rows -> UseStates] : SetUse(o, u)
      BY <2>1, <2>2, Zenon DEF Operate
    <2> QED  BY <1>0, <1>4, <2>3
  <1>9. CASE \E o \in Orders : \E a \in 1 .. Total[o] : Refund(o, a)
    <2>1. \A o \in Orders : Refunded(use[o]) \in [Rows -> UseStates]
      BY <1>0, Moves DEF Refunded
    <2> QED  BY <1>0, <1>9, <2>1 DEF Refund
  <1>10. CASE \/ UNCHANGED discountVars \/ \E o \in Orders : TurnOverdue(o)
    BY <1>0, <1>10 DEF discountVars, TurnOverdue
  <1> QED
    BY <1>3, <1>5, <1>6, <1>7, <1>8, <1>9, <1>10
       DEF DiscountsNext, vars, Sweep, Bind, PlacePlain

LEMMA DiscountsInvHolds == DiscountsSpec => []DiscountsInv
  <1>1. DiscountsInit => DiscountsInv
    <2> SUFFICES ASSUME DiscountsInit PROVE DiscountsInv
      OBVIOUS
    <2>1. OrdersTypeOK
      BY OrdersAssumption
         DEF DiscountsInit, OrdersInit, OrdersTypeOK, NoOrder, OrderRow, Statuses, Payments,
             Methods, Phases, Pages, Sessions
    <2>2. DiscountsTypeOK
      BY <2>1 DEF DiscountsInit, DiscountsTypeOK
    <2> QED
      BY <2>2 DEF DiscountsInv, DiscountsInit, OrdersInit, NoOrder, UseFits, Fits
  <1>2. DiscountsInv /\ [DiscountsNext]_vars => DiscountsInv'
    <2> SUFFICES ASSUME DiscountsInv, [DiscountsNext]_vars PROVE DiscountsInv'
      OBVIOUS
    <2>1. DiscountsTypeOK'
      BY UseTypeStep DEF DiscountsInv
    <2>2. ASSUME order' = order, use' = use PROVE UseFits'
      BY <2>2 DEF DiscountsInv, UseFits, Fits
    <2>3. ASSUME NEW o \in Orders,
                 (Environment(o) /\ UNCHANGED discountVars) \/ TurnOverdue(o)
          PROVE  UseFits'
      BY <2>2, <2>3 DEF orderVars, discountVars, Environment, PassTime, CapturePayment,
                        DeclinePayment, ShutPage, TurnOverdue
    <2>4. ASSUME UNCHANGED vars PROVE UseFits'
      BY <2>2, <2>4 DEF vars, orderVars, discountVars
    <2>5. UseFits'
      BY <2>3, <2>4, SweepFits, PlaceFits, BindFits, PaidFits, EndFits, OperateFits, RefundFits
         DEF DiscountsNext
    <2> QED  BY <2>1, <2>5 DEF DiscountsInv
  <1> QED  BY <1>1, <1>2, PTL DEF DiscountsSpec

\* The uses of every order stay well typed, whatever the handlers interleave.
THEOREM UsesTypeCorrect == DiscountsSpec => []DiscountsTypeOK
  <1>1. DiscountsInv => DiscountsTypeOK
    BY DEF DiscountsInv
  <1> QED  BY <1>1, DiscountsInvHolds, PTL

\* A discounted order counts at most once, at least once while it may still be
\* or was sold, and never once it stopped (moveRedemptions and
\* reReserveReleasedDiscounts, called from the order handlers).
THEOREM UsesFollowOrders == DiscountsSpec => []UseFollowsOrder
  <1>1. DiscountsInv => UseFollowsOrder
    <2> SUFFICES ASSUME DiscountsInv, NEW o \in Orders, EverUsed(o)
                 PROVE  /\ Cardinality(Lives(o)) <= 1
                        /\ order[o].status \in {"expired", "cancelled"} => Lives(o) = {}
                        /\ (order[o].status \in ActiveStatuses \cup {"payment_review"}
                            /\ ~(order[o].refunded > 0 /\ order[o].refunded = Total[o]))
                             => Lives(o) # {}
      BY DEF UseFollowsOrder
    <2>1. Fits(o, order[o], use[o]) /\ use[o] \in [Rows -> UseStates]
      BY DEF DiscountsInv, UseFits, DiscountsTypeOK
    <2>2. Lives(o) = {} \/ Lives(o) = {"own"} \/ Lives(o) = {"late"}
      BY <2>1 DEF Lives, Fits
    <2>3. Cardinality(Lives(o)) <= 1
      BY <2>2, FS_EmptySet, FS_Singleton
    <2>4. order[o].status \in {"expired", "cancelled"} => Lives(o) = {}
      BY <2>1 DEF Lives, Fits
    <2>5. use[o]["own"] # "none"
      BY <2>1 DEF EverUsed, Fits
    <2>6. ASSUME order[o].status \in ActiveStatuses \cup {"payment_review"},
                 ~(order[o].refunded > 0 /\ order[o].refunded = Total[o])
          PROVE  Lives(o) # {}
      BY <2>1, <2>5, <2>6 DEF Lives, Fits
    <2> QED  BY <2>3, <2>4, <2>6
  <1> QED  BY <1>1, DiscountsInvHolds, PTL

\* No sale is left with a use that a day later stops counting.
THEOREM SoldUsesAreConsumed == DiscountsSpec => []SoldUseIsConsumed
  <1>1. DiscountsInv => SoldUseIsConsumed
    BY DEF DiscountsInv, UseFits, DiscountsTypeOK, SoldUseIsConsumed, Fits
  <1> QED  BY <1>1, DiscountsInvHolds, PTL

-----------------------------------------------------------------------------
\* The limit

\* Row r of order x counts against the limit, before and after the sweep.
Counts(x, r) ==
    \/ use[x][r] = "consumed"
    \/ use[x][r] = "reserved" /\ ~(r = "own" /\ Stale(x))

CountsSwept(x, r) ==
    \/ SweptUse[x][r] = "consumed"
    \/ SweptUse[x][r] = "reserved" /\ ~(r = "own" /\ Stale(x))

LEMMA RowsCount ==
    /\ \A x \in Orders, r \in Rows : <<x, r>> \in Counted(use) <=> Counts(x, r)
    /\ \A x \in Orders, r \in Rows : <<x, r>> \in Counted(SweptUse) <=> CountsSwept(x, r)
    /\ Counted(use) \subseteq Orders \X Rows /\ Counted(SweptUse) \subseteq Orders \X Rows
  BY DEF Counted, Counts, CountsSwept

LEMMA FewRows == IsFiniteSet(Orders \X Rows)
  <1>1. IsFiniteSet({"own"} \cup {"late"})
    BY FS_Singleton, FS_Union
  <1>2. Rows = {"own"} \cup {"late"}
    OBVIOUS
  <1> QED  BY <1>1, <1>2, FS_Product, OrdersAssumption

\* A step after which no row counts that did not count before.
LEMMA NoMore ==
    ASSUME \A x \in Orders, r \in Rows : Counts(x, r)' => Counts(x, r)
    PROVE  Used(use)' <= Used(use)
  <1>1. Counted(use)' \subseteq Counted(use)
    BY DEF Counted, Counts
  <1>2. IsFiniteSet(Counted(use))
    BY FewRows, RowsCount, FS_Subset
  <1> QED  BY <1>1, <1>2, FS_Subset DEF Used

\* One more row, where the limit left a use.
LEMMA OneMore ==
    ASSUME NEW o \in Orders, NEW r \in Rows, Used(SweptUse) < Limit,
           \A x \in Orders, y \in Rows :
             Counts(x, y)' => CountsSwept(x, y) \/ (x = o /\ y = r)
    PROVE  Used(use)' <= Limit
  <1>1. Counted(use)' \subseteq Counted(SweptUse) \cup {<<o, r>>}
    BY DEF Counted, Counts, CountsSwept
  <1>2. IsFiniteSet(Counted(SweptUse))
    BY FewRows, RowsCount, FS_Subset
  <1> DEFINE before == Counted(SweptUse)
             after == Counted(use)'
             k == <<o, r>>
             grown == before \cup {k}
  <1> HIDE DEF before, after, k
  <1>3. Cardinality(before) \in Nat /\ Cardinality(before) < Limit
    BY <1>2, FS_CardinalityType DEF before, Used
  <1>4. IsFiniteSet(grown) /\ Cardinality(grown) <= Cardinality(before) + 1
    <2>1. IsFiniteSet(before)
      BY <1>2 DEF before
    <2>2. /\ IsFiniteSet(grown)
          /\ Cardinality(grown) = IF k \in before THEN Cardinality(before)
                                  ELSE Cardinality(before) + 1
      BY <2>1, FS_AddElement
    <2> QED  BY <1>3, <2>2
  <1>5. IsFiniteSet(after) /\ Cardinality(after) <= Cardinality(grown)
    BY <1>1, <1>4, FS_Subset DEF before, after, k
  <1>6. Cardinality(after) \in Nat /\ Cardinality(grown) \in Nat
    BY <1>4, <1>5, FS_CardinalityType
  <1>7. Cardinality(after) <= Limit
    BY <1>3, <1>4, <1>5, <1>6, LimitAssumption
  <1> QED
    BY <1>7 DEF after, Used

\* The rows of an order that is only swept.
LEMMA SweptRow ==
    ASSUME DiscountsInv, NEW x \in Orders, NEW r \in Rows,
           order'[x] = Swept[x], use'[x] = SweptUse[x], phase' = phase, overdue' = overdue,
           Counts(x, r)'
    PROVE  Counts(x, r) /\ CountsSwept(x, r)
  <1>1. CASE x \in Lapsed
    <2>1. SweptUse[x][r] = IF use[x][r] = "reserved" THEN "released" ELSE use[x][r]
      BY <1>1, Moves DEF SweptUse, Released, DiscountsInv, DiscountsTypeOK
    <2> QED  BY <2>1 DEF Counts, CountsSwept
  <1>2. CASE x \notin Lapsed
    <2>1. SweptUse[x] = use[x] /\ order'[x] = order[x]
      BY <1>2 DEF SweptUse, Swept
    <2>2. Stale(x)' <=> Stale(x)
      BY <2>1 DEF Stale, Lapsed
    <2> QED  BY <2>1, <2>2 DEF Counts, CountsSwept
  <1> QED  BY <1>1, <1>2

\* Only the row of a payment held for review, and only if it is paid.
FlaggedArePaid ==
    \A o \in Orders : flagged[o] => order[o].payment = "paid" /\ order[o].status # "none"

LEMMA FlaggedStep ==
    ASSUME DiscountsInv, FlaggedArePaid, [DiscountsNext]_vars
    PROVE  FlaggedArePaid'
  <1> SUFFICES ASSUME NEW x \in Orders, flagged'[x]
               PROVE  order'[x].payment = "paid" /\ order'[x].status # "none"
    BY DEF FlaggedArePaid
  <1>0. /\ OrdersTypeOK /\ order[x] \in OrderRow /\ Swept[x] \in OrderRow
        /\ flagged \in [Orders -> BOOLEAN]
    BY SweptRows DEF DiscountsInv, DiscountsTypeOK, OrdersTypeOK
  <1>1. CASE flagged[x]
    <2>1. order[x].payment = "paid" /\ order[x].status # "none" /\ Swept[x] = order[x]
      BY <1>0, <1>1, SweptRows DEF FlaggedArePaid
    <2>2. RowStep(x)
      BY <1>0, OrdersStep, RowSteps
    <2> QED
      BY <1>0, <2>1, <2>2 DEF RowStep, Placed, Bound, PaidNow, Ended, Operated, RefundTaken,
                              OperatorTransitions, OrderRow
  <1>2. CASE ~flagged[x]
    <2>1. PICK o \in Orders : PaidArrives(o) /\ LatePayment(o) /\ order'[o].status = "payment_review"
      BY <1>2 DEF DiscountsNext, vars, discountVars, Sweep, Bind, PlacePlain, PlaceDiscounted,
                  PaidArrives, EndedByProvider, Operate, Refund, TurnOverdue, KeepsUses, SetUse
    <2>2. x = o
      BY <1>0, <1>2, <2>1 DEF LatePayment
    <2>3. PaidLate(o)
      <3>1. order'[o] # Swept[o]
        BY <1>0, <1>2, <2>1, <2>2 DEF PaidArrives, KeepsUses, SetUse
      <3>2. PaidOnTime(o) => order'[o].status = "accepted"
        BY <1>0, SweptRows DEF PaidOnTime, OrderRow
      <3> QED  BY <2>1, <3>1, <3>2 DEF PaidArrives, PaidEvent, PaidNoChange
    <2> QED  BY <1>0, <2>2, <2>3, SweptRows DEF PaidLate, OrderRow
  <1> QED  BY <1>1, <1>2

\* A handler that changes its own order after the sweep adds no counting row
\* if that order has none it had not before.
LEMMA OwnRows ==
    ASSUME DiscountsInv, NEW o \in Orders, NEW row, NEW u,
           order' = [Swept EXCEPT ![o] = row], use' = [SweptUse EXCEPT ![o] = u],
           phase' = phase, overdue' = overdue,
           \A r \in Rows : Counts(o, r)' => Counts(o, r)
    PROVE  Used(use)' <= Used(use)
  <1> SUFFICES ASSUME NEW x \in Orders, NEW r \in Rows, Counts(x, r)' PROVE Counts(x, r)
    BY NoMore
  <1>1. CASE x # o
    BY <1>1, SweptFits, SweptRow
  <1> QED  BY <1>1

\* An order whose handler found it waiting, unlapsed, as it was.
LEMMA Unlapsed ==
    ASSUME DiscountsInv, NEW o \in Orders, Swept[o].status # "expired"
    PROVE  o \notin Lapsed /\ Swept[o] = order[o] /\ SweptUse[o] = use[o]
  BY SweptRows DEF SweptUse, DiscountsInv, DiscountsTypeOK

\* No discounted order is placed beyond the limit.
LEMMA PlaceLimit ==
    ASSUME DiscountsInv, NEW o \in Orders, NEW m \in Methods,
           PlacePlain(o, m) \/ PlaceDiscounted(o, m)
    PROVE  Used(use)' <= Used(use) \/ Used(use)' <= Limit
  <1>1. /\ order[o].status = "none" /\ order' = [Swept EXCEPT ![o] = NewOrder(o, m)]
        /\ phase' = phase /\ overdue' = overdue
    BY DEF PlacePlain, PlaceDiscounted, PlaceOrder, KeepsUses, SetUse
  <1>2. SweptUse[o]["own"] = "none" /\ SweptUse[o]["late"] = "none"
    BY <1>1, SweptFits DEF Fits, Swept, Lapsed
  <1>3. CASE use' = SweptUse
    <2>1. use' = [SweptUse EXCEPT ![o] = SweptUse[o]] /\ use'[o] = SweptUse[o]
      BY <1>3, SweptFits
    <2>2. \A r \in Rows : ~Counts(o, r)'
      BY <1>2, <2>1 DEF Counts
    <2> QED  BY <1>1, <2>1, <2>2, OwnRows
  <1>4. CASE use' = [SweptUse EXCEPT ![o] = FirstUse(o, m)] /\ Used(SweptUse) < Limit
    <2>1. use'[o]["late"] = "none"
      BY <1>4, SweptFits DEF FirstUse
    <2>2. ASSUME NEW x \in Orders, NEW y \in Rows, Counts(x, y)'
          PROVE  CountsSwept(x, y) \/ (x = o /\ y = "own")
      <3>1. CASE x = o
        BY <2>1, <2>2, <3>1 DEF Counts
      <3>2. CASE x # o
        BY <1>1, <1>4, <2>2, <3>2, SweptFits, SweptRow
      <3> QED  BY <3>1, <3>2
    <2> QED  BY <1>4, <2>2, OneMore
  <1> QED  BY <1>3, <1>4 DEF PlacePlain, PlaceDiscounted, KeepsUses, SetUse

\* A payment on time settles a use; a late one passes the limit only flagged.
LEMMA PaidLimit ==
    ASSUME DiscountsInv, FlaggedArePaid, NEW o \in Orders, PaidArrives(o)
    PROVE  \/ Used(use)' <= Used(use) \/ Used(use)' <= Limit
           \/ flagged'[o] /\ ~flagged[o]
           \/ overdue[o] /\ use'[o] # use[o]
  <1>0. /\ phase' = phase /\ overdue' = overdue
        /\ Fits(o, Swept[o], SweptUse[o]) /\ SweptUse[o] \in [Rows -> UseStates]
    BY SweptFits DEF PaidArrives, PaidEvent, KeepsUses, SetUse, LatePayment
  <1>1. CASE order'[o] = Swept[o] /\ KeepsUses /\ PaidNoChange(o)
    <2>1. order' = [Swept EXCEPT ![o] = Swept[o]] /\ use' = [SweptUse EXCEPT ![o] = SweptUse[o]]
      BY <1>1, SweptFits DEF PaidNoChange, KeepsUses
    <2>2. \A r \in Rows : Counts(o, r)' => Counts(o, r)
      BY <1>0, <1>1, <2>1, SweptFits, SweptRow DEF KeepsUses
    <2> QED  BY <1>0, <2>1, <2>2, OwnRows
  <1>2. CASE PaidOnTime(o) /\ SetUse(o, Consumed(SweptUse[o]))
    <2> DEFINE row == [Swept[o] EXCEPT !.payment = "paid"]
    <2>1. /\ order' = [Swept EXCEPT ![o] = row]
          /\ use' = [SweptUse EXCEPT ![o] = Consumed(SweptUse[o])]
      BY <1>2 DEF PaidOnTime, SetUse
    <2>2. o \notin Lapsed /\ SweptUse[o] = use[o]
      BY <1>2, Unlapsed DEF PaidOnTime
    <2>3. \A r \in Rows : use'[o][r] = IF use[o][r] = "reserved" THEN "consumed" ELSE use[o][r]
      BY <1>0, <2>1, <2>2, Moves, SweptFits DEF Consumed
    <2>4. ASSUME ~(overdue[o] /\ use'[o] # use[o]), NEW r \in Rows, Counts(o, r)'
          PROVE  Counts(o, r)
      BY <2>2, <2>3, <2>4 DEF Counts, Stale
    <2> HIDE DEF row
    <2> QED  BY <1>0, <2>1, <2>4, OwnRows
  <1>3. CASE PaidLate(o) /\ LatePayment(o)
    <2> DEFINE row == [Swept[o] EXCEPT !.status = "payment_review", !.payment = "paid"]
    <2>1. /\ order' = [Swept EXCEPT ![o] = row]
          /\ use' = [SweptUse EXCEPT ![o] = RecordedAgain(SweptUse[o])]
      BY <1>3, SweptFits DEF PaidLate, LatePayment, OrderRow
    <2>2. /\ SweptUse[o]["own"] \notin Live /\ SweptUse[o]["late"] \notin Live
          /\ use'[o] = RecordedAgain(SweptUse[o])
      BY <1>0, <1>3, <2>1, SweptFits DEF PaidLate, Fits
    <2> HIDE DEF row
    <2>3. CASE ~GivenBack(SweptUse[o])
      <3>1. \A r \in Rows : ~Counts(o, r)'
        BY <2>2, <2>3 DEF RecordedAgain, Counts
      <3> QED  BY <1>0, <2>1, <3>1, OwnRows
    <2>4. CASE GivenBack(SweptUse[o]) /\ Used(SweptUse) >= Limit
      <3>1. Swept[o].payment # "paid" /\ Swept[o].payment \in {"pending", "expired", "failed"}
        BY <1>3 DEF PaidLate
      <3>2. order[o].payment # "paid"
        BY <3>1, SweptRows DEF DiscountsInv, DiscountsTypeOK
      <3>3. ~flagged[o]
        BY <3>2 DEF FlaggedArePaid
      <3>4. flagged'[o]
        BY <1>3, <2>4 DEF LatePayment, DiscountsInv, DiscountsTypeOK
      <3> QED  BY <3>3, <3>4
    <2>5. CASE ~(Used(SweptUse) >= Limit)
      <3>1. Used(SweptUse) < Limit
        <4>1. Used(SweptUse) \in Nat
          BY FewRows, RowsCount, FS_Subset, FS_CardinalityType DEF Used
        <4> QED  BY <2>5, <4>1, LimitAssumption
      <3>2. use'[o]["own"] \notin Live
        BY <1>0, <2>2, Again
      <3>3. ASSUME NEW x \in Orders, NEW y \in Rows, Counts(x, y)'
            PROVE  CountsSwept(x, y) \/ (x = o /\ y = "late")
        <4>1. CASE x = o
          BY <3>2, <3>3, <4>1 DEF Counts
        <4>2. CASE x # o
          BY <1>0, <2>1, <3>3, <4>2, SweptFits, SweptRow
        <4> QED  BY <4>1, <4>2
      <3> QED  BY <3>1, <3>3, OneMore
    <2> QED  BY <2>3, <2>4, <2>5
  <1>4. PaidOnTime(o) => order'[o].status = "accepted" /\ order'[o] # Swept[o]
    BY SweptFits DEF PaidOnTime, OrderRow
  <1>5. PaidLate(o) => order'[o].status = "payment_review" /\ order'[o] # Swept[o]
    BY SweptFits DEF PaidLate, OrderRow
  <1>6. PaidNoChange(o) => order'[o] = Swept[o]
    BY DEF PaidNoChange
  <1> QED  BY <1>1, <1>2, <1>3, <1>4, <1>5, <1>6 DEF PaidArrives, PaidEvent

LEMMA EndLimit ==
    ASSUME DiscountsInv, NEW o \in Orders, EndedByProvider(o)
    PROVE  Used(use)' <= Used(use)
  <1>1. PICK status \in {"cancelled", "expired"}, payment \in {"failed", "expired"} :
          order' = [Swept EXCEPT ![o] = [Swept[o] EXCEPT !.status = status, !.payment = payment]]
    BY DEF EndedByProvider, FailedEvent, ExpiredEvent
  <1> DEFINE row == [Swept[o] EXCEPT !.status = status, !.payment = payment]
  <1>2. /\ order' = [Swept EXCEPT ![o] = row]
        /\ use' = [SweptUse EXCEPT ![o] = Released(SweptUse[o])]
        /\ phase' = phase /\ overdue' = overdue /\ Swept[o].status = "accepted"
    BY <1>1 DEF EndedByProvider, FailedEvent, ExpiredEvent, SetUse
  <1>3. use'[o] = Released(use[o]) /\ use[o] \in [Rows -> UseStates]
    BY <1>2, Unlapsed, SweptFits DEF DiscountsInv, DiscountsTypeOK
  <1>4. \A r \in Rows : Counts(o, r)' => Counts(o, r)
    BY <1>3, Moves DEF Released, Counts
  <1> HIDE DEF row
  <1> QED  BY <1>2, <1>4, OwnRows

\* An operator adds no use, except by settling an order left for a day.
LEMMA OperateLimit ==
    ASSUME DiscountsInv, NEW o \in Orders, NEW to \in Statuses, NEW p \in BOOLEAN,
           Operate(o, to, p)
    PROVE  Used(use)' <= Used(use) \/ (overdue[o] /\ use'[o] # use[o])
  <1> DEFINE from == Swept[o].status
             u == SweptUse[o]
             marks == p /\ Swept[o].payment # "not_required"
             pay == IF marks THEN "paid" ELSE Swept[o].payment
             row == [Swept[o] EXCEPT !.status = to, !.payment = pay]
  <1>0. /\ phase' = phase /\ overdue' = overdue /\ order' = [Swept EXCEPT ![o] = row]
        /\ Fits(o, Swept[o], u) /\ u \in [Rows -> UseStates]
    BY SweptFits DEF Operate, OperatorUpdate, SetUse, OrderRow
  <1>1. /\ to # from => /\ from \in {"accepted", "preparing", "ready", "payment_review"}
                        /\ to \in {"preparing", "ready", "completed", "cancelled"}
        /\ marks => Swept[o].method = "handoff"
        /\ to # from \/ marks
    BY DEF Operate, OperatorUpdate, OperatorTransitions
  <1>2. PICK after \in [Rows -> UseStates] :
          /\ use' = [SweptUse EXCEPT ![o] = after]
          /\ \/ /\ to = from \/ to # "cancelled"
                /\ \A r \in Rows : after[r] = IF u[r] = "reserved" THEN "consumed" ELSE u[r]
             \/ \A r \in Rows : after[r] \notin Live
             \/ to \in {"preparing", "ready"} /\ from \in {"accepted", "preparing", "ready"} /\ after = u
    <2>1. CASE to # from /\ to = "cancelled"
      <3>1. /\ Refunded(Released(u)) \in [Rows -> UseStates]
            /\ \A r \in Rows : Refunded(Released(u))[r] \notin Live
        BY <1>0, Moves DEF Refunded, Released
      <3>2. use' = [SweptUse EXCEPT ![o] = Refunded(Released(u))]
        BY <2>1 DEF Operate, SetUse
      <3> QED  BY <3>1, <3>2
    <2>2. CASE to # from /\ to # "cancelled" /\ from = "payment_review"
      <3>1. RecordedAgain(u) = u
        BY <1>0, <2>2 DEF Fits, RecordedAgain, GivenBack
      <3>2. /\ Consumed(u) \in [Rows -> UseStates]
            /\ \A r \in Rows : Consumed(u)[r] = IF u[r] = "reserved" THEN "consumed" ELSE u[r]
        BY <1>0, Moves DEF Consumed
      <3>3. use' = [SweptUse EXCEPT ![o] = Consumed(u)]
        BY <2>2, <3>1 DEF Operate, SetUse
      <3> QED  BY <2>2, <3>2, <3>3
    <2>3. CASE /\ (to # from /\ to = "completed") \/ marks
               /\ ~(to # from /\ to = "cancelled") /\ ~(to # from /\ from = "payment_review")
      <3>1. /\ Consumed(u) \in [Rows -> UseStates]
            /\ \A r \in Rows : Consumed(u)[r] = IF u[r] = "reserved" THEN "consumed" ELSE u[r]
        BY <1>0, Moves DEF Consumed
      <3>2. use' = [SweptUse EXCEPT ![o] = Consumed(u)]
        BY <2>3 DEF Operate, SetUse
      <3> QED  BY <2>3, <3>1, <3>2
    <2>4. CASE /\ to # from /\ to \notin {"completed", "cancelled"}
               /\ from # "payment_review" /\ ~marks
      <3>1. use' = [SweptUse EXCEPT ![o] = u]
        BY <2>4 DEF Operate, SetUse
      <3> QED  BY <1>0, <1>1, <2>4, <3>1
    <2> HIDE DEF marks, from
    <2> QED  BY <1>1, <2>1, <2>2, <2>3, <2>4
  <1>3. use'[o] = after /\ order'[o].status = to
    BY <1>0, <1>2, SweptFits DEF OrderRow
  <1>4. ASSUME ~(overdue[o] /\ use'[o] # use[o]), NEW r \in Rows, Counts(o, r)'
        PROVE  Counts(o, r)
    <2>1. CASE \A y \in Rows : after[y] = IF u[y] = "reserved" THEN "consumed" ELSE u[y]
      <3>1. after[r] = "consumed" /\ u[r] \in {"reserved", "consumed"}
        BY <1>0, <1>3, <1>4, <2>1 DEF Counts
      <3>2. o \notin Lapsed => u = use[o]
        BY Unlapsed DEF SweptUse, DiscountsInv, DiscountsTypeOK
      <3>3. o \in Lapsed => u[r] # "reserved" /\ (u[r] = "consumed" => use[o][r] = "consumed")
        BY Moves DEF SweptUse, Released, DiscountsInv, DiscountsTypeOK
      <3> HIDE DEF u
      <3> QED  BY <1>3, <1>4, <3>1, <3>2, <3>3 DEF Counts, Stale
    <2>2. CASE \A y \in Rows : after[y] \notin Live
      BY <1>3, <1>4, <2>2 DEF Counts
    <2>3. CASE /\ to \in {"preparing", "ready"} /\ after = u
               /\ from \in {"accepted", "preparing", "ready"}
      <3>1. o \notin Lapsed /\ u = use[o] /\ order[o].status = from
        BY <2>3, Unlapsed
      <3>2. Stale(o) => Stale(o)'
        BY <1>0, <1>3, <2>3, <3>1 DEF Stale
      <3> QED  BY <1>3, <1>4, <2>3, <3>1, <3>2 DEF Counts
    <2> QED  BY <1>2, <2>1, <2>2, <2>3
  <1> HIDE DEF row
  <1> QED  BY <1>0, <1>2, <1>4, OwnRows

LEMMA RefundLimit ==
    ASSUME DiscountsInv, NEW o \in Orders, NEW a \in 1 .. Total[o], Refund(o, a)
    PROVE  Used(use)' <= Used(use)
  <1> SUFFICES ASSUME NEW x \in Orders, NEW r \in Rows, Counts(x, r)' PROVE Counts(x, r)
    BY NoMore
  <1>0. order[o] \in OrderRow /\ order \in [Orders -> OrderRow]
        /\ use \in [Orders -> [Rows -> UseStates]]
    BY DEF DiscountsInv, DiscountsTypeOK, OrdersTypeOK
  <1>1. /\ order'[x].status = order[x].status /\ order'[x].method = order[x].method
        /\ order'[x].payment = order[x].payment
        /\ phase' = phase /\ overdue' = overdue
    BY <1>0 DEF Refund, RecordOrderRefund, OrderRow
  <1>2. use'[x][r] = use[x][r] \/ use'[x][r] \notin Live
    BY <1>0, Moves DEF Refund, Refunded
  <1> QED  BY <1>1, <1>2 DEF Counts, Stale, Lapsed

\* Time only makes uses stale.
LEMMA QuietLimit ==
    ASSUME DiscountsInv, NEW o \in Orders,
           \/ Environment(o) /\ UNCHANGED discountVars
           \/ TurnOverdue(o)
    PROVE  Used(use)' <= Used(use)
  <1>1. order' = order /\ use' = use
    BY DEF Environment, PassTime, CapturePayment, DeclinePayment, ShutPage, TurnOverdue,
           discountVars, orderVars
  <1>2. \A x \in Orders : (phase[x] # "hold" => phase'[x] # "hold") /\ (overdue[x] => overdue'[x])
    BY DEF Environment, PassTime, CapturePayment, DeclinePayment, ShutPage, TurnOverdue,
           discountVars, orderVars, DiscountsInv, DiscountsTypeOK, OrdersTypeOK, Phases
  <1>3. \A x \in Orders, r \in Rows : Counts(x, r)' => Counts(x, r)
    BY <1>1, <1>2 DEF Counts, Stale, Lapsed
  <1> QED  BY <1>3, NoMore

\* The limit of a discount is passed only with a late payment, flagged for the
\* operator, or with an order settled a day after its time
\* (loadDiscountUsageCounts, staleReservedUse and reReserveReleasedDiscounts).
THEOREM LimitIsPassedKnowingly == DiscountsSpec => LimitPassedKnowingly
  <1>1. DiscountsInit => FlaggedArePaid
    BY DEF DiscountsInit, FlaggedArePaid
  <1>2. DiscountsInv /\ FlaggedArePaid /\ [DiscountsNext]_vars => FlaggedArePaid'
    BY FlaggedStep
  <1>3. DiscountsInv /\ FlaggedArePaid /\ [DiscountsNext]_vars => [LimitStep]_vars
    <2> SUFFICES ASSUME DiscountsInv, FlaggedArePaid, DiscountsNext,
                        Used(use)' > Used(use), Used(use)' > Limit
                 PROVE  \E o \in Orders : \/ flagged'[o] /\ ~flagged[o]
                                          \/ overdue[o] /\ use'[o] # use[o]
      BY DEF LimitStep
    <2>0. Used(use) \in Nat /\ Used(use)' \in Nat
      <3>1. Used(use) \in Nat
        BY FewRows, RowsCount, FS_Subset, FS_CardinalityType DEF Used
      <3>2. IsFiniteSet(Counted(use)')
        BY FewRows, FS_Subset DEF Counted
      <3> QED  BY <3>1, <3>2, FS_CardinalityType DEF Used
    <2>1. ~(Used(use)' <= Used(use)) /\ ~(Used(use)' <= Limit)
      BY <2>0, LimitAssumption
    <2>2. ASSUME Sweep PROVE FALSE
      <3>1. \A x \in Orders, r \in Rows : Counts(x, r)' => Counts(x, r)
        BY <2>2, SweptFits, SweptRow DEF Sweep, SweepExpiredHolds, KeepsUses
      <3> QED  BY <2>1, <3>1, NoMore
    <2>3. ASSUME NEW o \in Orders, Bind(o) PROVE FALSE
      <3>1. /\ order' = [Swept EXCEPT ![o] = [Swept[o] EXCEPT !.session = "bound"]]
            /\ use' = SweptUse /\ phase' = phase /\ overdue' = overdue
            /\ Swept[o].status # "expired"
        BY <2>3 DEF Bind, BindPaymentSession, KeepsUses
      <3>2. /\ o \notin Lapsed /\ Swept[o] = order[o] /\ SweptUse[o] = use[o]
            /\ order[o] \in OrderRow
        BY <3>1, Unlapsed DEF DiscountsInv, DiscountsTypeOK, OrdersTypeOK
      <3>3. /\ order'[o].status = order[o].status /\ order'[o].payment = order[o].payment
            /\ order'[o].method = order[o].method
        BY <3>1, <3>2, SweptFits DEF OrderRow
      <3>4. \A r \in Rows : Counts(o, r)' => Counts(o, r)
        BY <3>1, <3>2, <3>3 DEF Counts, Stale, Lapsed
      <3>5. use' = [SweptUse EXCEPT ![o] = SweptUse[o]]
        BY <3>1, SweptFits
      <3> QED  BY <2>1, <3>1, <3>4, <3>5, OwnRows
    <2> QED
      BY <2>1, <2>2, <2>3, PlaceLimit, PaidLimit, EndLimit, OperateLimit, RefundLimit, QuietLimit
         DEF DiscountsNext
  <1> QED
    BY <1>1, <1>2, <1>3, DiscountsInvHolds, PTL DEF DiscountsSpec, LimitPassedKnowingly
=============================================================================
