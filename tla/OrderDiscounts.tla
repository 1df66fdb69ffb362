--------------------------- MODULE OrderDiscounts ---------------------------
(***************************************************************************)
(* Uses of one limited discount on website orders: recorded as reserved    *)
(* when an order is placed, consumed when it is paid or completed, given   *)
(* back when it stops, and recorded a second time when an order is paid    *)
(* after its use was given back (apps/tenant-api/src/services/             *)
(* discount-apply.ts, called from the order handlers of RestaurantOrders). *)
(*                                                                         *)
(* A use changes in the transaction of the order it belongs to, so each    *)
(* action is an order action with what it does to the uses.  Which of the  *)
(* limits a discount has (its total, a code's, a customer's) does not      *)
(* matter here: one discount with a limit on all of its uses is modelled.  *)
(***************************************************************************)
EXTENDS RestaurantOrders

CONSTANT Limit      \* the uses the discount allows

ASSUME LimitAssumption == Limit \in Nat \ {0}

VARIABLES
    use,        \* the order's discount_redemptions rows
    flagged,    \* limitExceeded on the order's discount snapshot
    overdue     \* the order is a day past its time (environment)

discountVars == <<use, flagged, overdue>>
vars == <<orderVars, discountVars>>

-----------------------------------------------------------------------------
\* The rows of an order: its own, and the one recorded again as '<id>:late'

Rows == {"own", "late"}
UseStates == {"none", "reserved", "consumed", "released", "refunded"}
Live == {"reserved", "consumed"}

DiscountsTypeOK ==
    /\ OrdersTypeOK
    /\ use \in [Orders -> [Rows -> UseStates]]
    /\ flagged \in [Orders -> BOOLEAN]
    /\ overdue \in [Orders -> BOOLEAN]

DiscountsInit ==
    /\ OrdersInit
    /\ use = [o \in Orders |-> [r \in Rows |-> "none"]]
    /\ flagged = [o \in Orders |-> FALSE]
    /\ overdue = [o \in Orders |-> FALSE]

\* Mutant: a move looks for the order's own row only.
MoveOwnOnly(u, from, to) == [u EXCEPT !["own"] = IF @ = from THEN to ELSE @]

\* moveRedemptions, on both rows of an order.
Move(u, from, to) == [r \in Rows |-> IF u[r] = from THEN to ELSE u[r]]

Consumed(u) == Move(u, "reserved", "consumed")
Released(u) == Move(u, "reserved", "released")
Refunded(u) == Move(u, "consumed", "refunded")

\* What the expiry sweep leaves: lapsed holds give their use back.
SweptUse == [o \in Orders |-> IF o \in Lapsed THEN Released(use[o]) ELSE use[o]]

\* staleReservedUse: a reserved use that no longer counts, of a lapsed hold or
\* of an order nobody finished a day after its time.  The row recorded again
\* has another source id, so neither applies to it.
Stale(o) == \/ o \in Lapsed
            \/ order[o].status \in {"accepted", "preparing", "ready"} /\ overdue[o]

\* loadDiscountUsageCounts: the rows of uses that count.
Counted(uses) ==
    {k \in Orders \X Rows :
       \/ uses[k[1]][k[2]] = "consumed"
       \/ uses[k[1]][k[2]] = "reserved" /\ ~(k[2] = "own" /\ Stale(k[1]))}

Used(uses) == Cardinality(Counted(uses))

\* reReserveReleasedDiscounts: an order whose uses were all given back has one
\* recorded again, unless that row exists already.
GivenBack(u) == /\ \E r \in Rows : u[r] = "released"
                /\ \A r \in Rows : u[r] \in {"none", "released"}

RecordedAgain(u) ==
    IF GivenBack(u) /\ u["late"] = "none" THEN [u EXCEPT !["late"] = "reserved"]
    ELSE u

-----------------------------------------------------------------------------
\* The order handlers and what they do to the uses

KeepsUses == use' = SweptUse /\ UNCHANGED <<flagged, overdue>>

SetUse(o, u) == /\ use' = [SweptUse EXCEPT ![o] = u]
                /\ UNCHANGED <<flagged, overdue>>

Sweep == SweepExpiredHolds /\ KeepsUses

Bind(o) == BindPaymentSession(o) /\ KeepsUses

PlacePlain(o, m) == PlaceOrder(o, m) /\ KeepsUses

\* reserveOrderDiscounts.  A free online order is placed and paid in one, so
\* its use is consumed at once; a free order at handoff waits to be completed.
FirstUse(o, m) == [own  |-> IF m = "online" /\ Total[o] = 0 THEN "consumed"
                            ELSE "reserved",
                   late |-> "none"]

\* Mutant: only the uses of paid orders are held against the limit.
PlaceDiscountedOnConsumed(o, m) ==
    /\ PlaceOrder(o, m)
    /\ Cardinality({k \in Orders \X Rows : use[k[1]][k[2]] = "consumed"}) < Limit
    /\ SetUse(o, FirstUse(o, m))

\* The discount applies when its limit leaves a use.
PlaceDiscounted(o, m) ==
    /\ PlaceOrder(o, m)
    /\ Used(SweptUse) < Limit
    /\ SetUse(o, FirstUse(o, m))

\* Mutant: a payment held for review does not take its use again.
LatePaymentKeepsUses(o) == KeepsUses

\* A late payment is honoured whatever the limit says now, and flagged when
\* others have used the discount up since.
LatePayment(o) ==
    /\ use' = [SweptUse EXCEPT ![o] = RecordedAgain(@)]
    /\ flagged' = [flagged EXCEPT ![o] =
                     @ \/ (GivenBack(SweptUse[o]) /\ Used(SweptUse) >= Limit)]
    /\ UNCHANGED overdue

PaidArrives(o) ==
    /\ PaidEvent(o)
    /\ \/ order'[o] = Swept[o] /\ KeepsUses
       \/ /\ order'[o] # Swept[o]
          /\ order'[o].status = "accepted"
          /\ SetUse(o, Consumed(SweptUse[o]))
       \/ /\ order'[o] # Swept[o]
          /\ order'[o].status = "payment_review"
          /\ LatePayment(o)

EndedByProvider(o) ==
    /\ FailedEvent(o) \/ ExpiredEvent(o)
    /\ SetUse(o, Released(SweptUse[o]))

\* An operator's cancellation gives a use back, reserved or consumed.  One
\* that finishes the order, takes the money or accepts a late payment
\* consumes it.
Operate(o, to, markPaid) ==
    LET from     == Swept[o].status
        u        == SweptUse[o]
        moved    == to # from
        accepted == from = "payment_review" /\ moved
        marked   == markPaid /\ Swept[o].payment # "not_required"
    IN  /\ OperatorUpdate(o, to, markPaid)
        /\ SetUse(o, IF moved /\ to = "cancelled" THEN Refunded(Released(u))
                     ELSE IF accepted THEN Consumed(RecordedAgain(u))
                     ELSE IF (moved /\ to = "completed") \/ marked THEN Consumed(u)
                     ELSE u)

\* recordOrderRefund gives the use back with the last cent.
Refund(o, amount) ==
    /\ RecordOrderRefund(o, amount)
    /\ use' = [use EXCEPT ![o] = IF order'[o].refunded >= Total[o]
                                 THEN Refunded(@) ELSE @]
    /\ UNCHANGED <<flagged, overdue>>

\* A day passes the order's time.
TurnOverdue(o) ==
    /\ order[o].status # "none"
    /\ phase[o] # "hold"
    /\ ~overdue[o]
    /\ overdue' = [overdue EXCEPT ![o] = TRUE]
    /\ UNCHANGED <<orderVars, use, flagged>>

DiscountsNext ==
    \/ Sweep
    \/ \E o \in Orders :
         \/ \E m \in Methods : PlacePlain(o, m) \/ PlaceDiscounted(o, m)
         \/ Bind(o)
         \/ PaidArrives(o)
         \/ EndedByProvider(o)
         \/ \E to \in Statuses, p \in BOOLEAN : Operate(o, to, p)
         \/ \E a \in 1 .. Total[o] : Refund(o, a)
         \/ Environment(o) /\ UNCHANGED discountVars
         \/ TurnOverdue(o)

DiscountsSpec == DiscountsInit /\ [][DiscountsNext]_vars

\* The fairness of the order lifecycle.
FairDiscountsSpec == DiscountsSpec /\ OrdersFairness

-----------------------------------------------------------------------------
\* Properties

\* The limit is passed knowingly or not at all: one more use than it allows
\* starts to count only when a late payment is flagged for the operator, or
\* when an order nobody finished for a day is settled after all.
LimitStep ==
    (Used(use)' > Used(use) /\ Used(use)' > Limit)
      => \E o \in Orders : \/ flagged'[o] /\ ~flagged[o]
                           \/ overdue[o] /\ use'[o] # use[o]

LimitPassedKnowingly == [][LimitStep]_vars

Lives(o) == {r \in Rows : use[o][r] \in Live}
EverUsed(o) == \E r \in Rows : use[o][r] # "none"

\* A discounted order counts once while it may still be or was sold, however
\* its money and its hold raced, and not at all once it stopped.
UseFollowsOrder ==
    \A o \in Orders : EverUsed(o) =>
      /\ Cardinality(Lives(o)) <= 1
      /\ order[o].status \in {"expired", "cancelled"} => Lives(o) = {}
      /\ (order[o].status \in ActiveStatuses \cup {"payment_review"}
          /\ ~(order[o].refunded > 0 /\ order[o].refunded = Total[o]))
           => Lives(o) # {}

\* A use is settled with its sale: nothing finished or paid online is left
\* with a reserved use, which would stop counting after a day.
SoldUseIsConsumed ==
    \A o \in Orders :
      (\/ order[o].status = "completed"
       \/ /\ order[o].status \in ActiveStatuses
          /\ \/ order[o].payment = "paid"
             \/ order[o].method = "online" /\ order[o].payment = "not_required")
        => \A r \in Rows : use[o][r] # "reserved"

=============================================================================
