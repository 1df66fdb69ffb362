------------------------ MODULE ReservationPayments ------------------------
(***************************************************************************)
(* A reservation's deposit, from the unpaid booking to the last refund     *)
(* (apps/tenant-api/src/services/rsv-payment-service.ts,                   *)
(* rsv-payment-refunds.ts, rsv-booking-service.ts and                      *)
(* rsv-public-booking-service.ts).                                         *)
(*                                                                         *)
(* Every regional handler is one transaction under the organization's lock *)
(* that first sweeps the bookings whose payment window is over, so it is   *)
(* one action over the swept rows.  A refused request throws, which rolls  *)
(* the sweep back: it is no step at all.  The App and the provider are the *)
(* environment: the App claims a refund, sends it under the refund's own   *)
(* idempotency key and reports what it heard, as do the webhooks and the   *)
(* hourly reconcile, late, repeatedly and in any order.                    *)
(*                                                                         *)
(* The bookings compete for one table at one time.                         *)
(***************************************************************************)
EXTENDS Sequences, PointSums

CONSTANTS
    Bookings,       \* reservation ids, one per booking the run allows
    Amount,         \* amountMinor of a deposit
    PlatformFee,    \* platformFeeMinor taken from a deposit
    LateRefundBp,   \* partialRefundBp of the policy: 0 keeps all of it
    OperatorMoves,  \* the statuses operators set, besides "cancelled"
    DisputeEvents,  \* the dispute statuses the provider reports
    MaxRefunds      \* bound: refunds of a deposit before operators stop asking

ASSUME PaymentsAssumption ==
    /\ IsFiniteSet(Bookings)
    /\ Amount \in Nat \ {0}
    /\ PlatformFee \in 0 .. Amount
    /\ LateRefundBp \in 0 .. 10000
    /\ "cancelled" \notin OperatorMoves
    /\ DisputeEvents \subseteq {"opened", "won", "lost"}
    /\ MaxRefunds \in Nat

VARIABLES
    clock,      \* how far the evening of the bookings is
    window,     \* window[b]: the payment window (paymentExpiresAt) still runs
    res,        \* the rsv_reservations row and its table
    pay,        \* the rsv_payments row of the deposit
    refunds,    \* the rsv_payments rows of kind "refund", oldest first
    page,       \* the provider's hosted page of the bound session
    answers,    \* answers[b][k]: what the provider has said of refund k so far
    hand        \* the refunds an App worker has in hand and has not sent yet

paymentVars == <<clock, window, res, pay, refunds, page, answers, hand>>
outside     == <<clock, window, page, answers>>

-----------------------------------------------------------------------------
\* Rows and their values

\* "free": the guest may cancel and gets everything back; "late": may cancel,
\* past the policy's deadline; "closed": may not cancel; then the start.
Hours == {"free", "late", "closed", "started"}
LaterThan(hour) ==
    CASE hour = "free"   -> {"late", "closed", "started"}
      [] hour = "late"   -> {"closed", "started"}
      [] hour = "closed" -> {"started"}
      [] OTHER           -> {}

Statuses == {"none", "pending_payment", "booked", "confirmed", "arrived",
             "seated", "finished", "cancelled", "no_show", "expired"}
Money    == {"none", "pending", "paid", "refund_pending", "refunded",
             "partially_refunded", "review", "disputed"}
Deposits == {"none", "created", "pending", "expired", "succeeded",
             "partially_refunded", "refunded", "review"}
Refunds  == {"requested", "charging", "refund_pending", "succeeded", "failed"}
Pages    == {"none", "open", "shut", "captured", "settled"}
Answers  == {"pending", "succeeded", "failed"}
Disputes == DisputeEvents \union {"none"}

\* from: the status the last change left, when an undo may return to it.
ReservationRow == [status : Statuses, from : Statuses, money : Money,
                   table : BOOLEAN]
DepositRow     == [status : Deposits, bound : BOOLEAN, refunded : 0 .. Amount,
                   dispute : Disputes]
RefundRow      == [status : Refunds, amount : 1 .. Amount, late : BOOLEAN,
                   fee : 0 .. PlatformFee, leased : BOOLEAN]

NoReservation == [status |-> "none", from |-> "none", money |-> "none",
                  table |-> FALSE]
NoDeposit     == [status |-> "none", bound |-> FALSE, refunded |-> 0,
                  dispute |-> "none"]

Over        == {"finished", "cancelled", "no_show", "expired"}
Kept        == {"booked", "confirmed", "arrived", "seated"}
Cancellable == {"pending_payment", "booked", "confirmed"}
InFlight    == {"requested", "charging", "refund_pending"}
Counted     == {"charging", "refund_pending", "succeeded"}
Closed      == {"succeeded", "failed"}

Live(rs) == {k \in DOMAIN rs : rs[k].status /= "failed"}
Done(rs) == {k \in DOMAIN rs : rs[k].status = "succeeded"}

AmountOf(rs, S) == Sum(S, [k \in DOMAIN rs |-> rs[k].amount])
FeeOf(rs, S)    == Sum(S, [k \in DOMAIN rs |-> rs[k].fee])

PaymentsTypeOK ==
    /\ clock \in Hours
    /\ window \in [Bookings -> BOOLEAN]
    /\ res \in [Bookings -> ReservationRow]
    /\ pay \in [Bookings -> DepositRow]
    /\ \A b \in Bookings : refunds[b] \in Seq(RefundRow)
    /\ page \in [Bookings -> Pages]
    /\ \A b \in Bookings : answers[b] \in [DOMAIN refunds[b] -> SUBSET Answers]
    /\ \A h \in hand : h[1] \in Bookings /\ h[2] \in DOMAIN refunds[h[1]]

-----------------------------------------------------------------------------
\* Status changes

OperatorTransitions(from) ==
    CASE from = "pending_payment" -> {"booked", "confirmed", "cancelled"}
      [] from = "booked" ->
             {"confirmed", "arrived", "seated", "cancelled", "no_show"}
      [] from = "confirmed" -> {"arrived", "seated", "cancelled", "no_show"}
      [] from = "arrived"   -> {"seated", "cancelled", "no_show"}
      [] from = "seated"    -> {"finished"}
      [] OTHER -> {}

\* canTransition for an operator, on the way back.
Returnable(status) ==
    CASE status = "confirmed" -> {"booked"}
      [] status = "arrived"   -> {"booked", "confirmed"}
      [] status = "seated"    -> {"booked", "confirmed", "arrived"}
      [] status = "finished"  -> {"seated"}
      [] status = "cancelled" -> {"booked", "confirmed"}
      [] status = "no_show"   -> {"booked", "confirmed", "arrived"}
      [] OTHER -> {}

\* A booking that is over gives its table back.
Changed(row, to) ==
    [row EXCEPT !.status = to,
                !.from = IF row.status \in Returnable(to) THEN row.status
                                                          ELSE "none",
                !.table = row.table /\ to \notin Over]

TableFree(rows, b) == \A c \in Bookings \ {b} : ~rows[c].table

-----------------------------------------------------------------------------
\* The sweep and what it closes

Overdue(b) == res[b].status = "pending_payment" /\ ~window[b]

\* releaseExpiredPaymentSessions: the row keeps its session, to be matched
\* by a payment that still arrives.
ReleasedDeposit(row) ==
    IF row.status \in {"created", "pending"}
    THEN [row EXCEPT !.status = "expired"] ELSE row
ReleasedMoney(row) ==
    IF row.money = "pending" THEN [row EXCEPT !.money = "none"] ELSE row

SweptRes ==
    [b \in Bookings |->
        IF Overdue(b)
        THEN ReleasedMoney(Changed(res[b], "expired"))
        ELSE res[b]]
SweptPay ==
    [b \in Bookings |-> IF Overdue(b) THEN ReleasedDeposit(pay[b]) ELSE pay[b]]

\* One booking's rows as a handler writes them.
Write(b, row, deposit) ==
    /\ res' = [SweptRes EXCEPT ![b] = row]
    /\ pay' = [SweptPay EXCEPT ![b] = deposit]

\* The tick, and every handler that answers without a change of its own: a
\* declined card, a repeated event, a claim that finds nothing to claim.
SweepExpired ==
    /\ \E b \in Bookings : Overdue(b)
    /\ res' = SweptRes
    /\ pay' = SweptPay
    /\ UNCHANGED <<outside, refunds, hand>>

-----------------------------------------------------------------------------
\* The guest books and opens the payment page

\* createBooking from a hold, with a deposit to pay.
CreateBooking(b) ==
    /\ res[b].status = "none"
    /\ clock /= "started"
    /\ TableFree(SweptRes, b)
    /\ Write(b, [NoReservation EXCEPT !.status = "pending_payment",
                                      !.money = "pending", !.table = TRUE],
                [NoDeposit EXCEPT !.status = "created"])
    /\ UNCHANGED <<outside, refunds, hand>>

BindPaymentSession(b) ==
    /\ SweptRes[b].status = "pending_payment"
    /\ ~pay[b].bound
    /\ pay[b].status = "created"
    /\ Write(b, SweptRes[b], [pay[b] EXCEPT !.bound = TRUE, !.status = "pending"])
    /\ page' = [page EXCEPT ![b] = "open"]
    /\ UNCHANGED <<clock, window, answers, refunds, hand>>

-----------------------------------------------------------------------------
\* Refund rows

AddRefund(b, row) ==
    /\ refunds' = [refunds EXCEPT ![b] = Append(@, row)]
    /\ answers' = [answers EXCEPT ![b] = Append(@, {})]

\* queueRefundRequest: the amount is reserved on the deposit at once.
QueueRefundRequest(b, row, amount) ==
    /\ Write(b, [row EXCEPT !.money = "refund_pending"],
                [SweptPay[b] EXCEPT !.refunded = @ + amount])
    /\ AddRefund(b, [status |-> "requested", amount |-> amount, late |-> FALSE,
                     fee |-> 0, leased |-> FALSE])

\* Mutant: the late refund is queued without its reservation.
QueueLateRefundUnreserved(b) ==
    /\ Write(b, [SweptRes[b] EXCEPT !.money = "refund_pending"],
                [SweptPay[b] EXCEPT !.status = "succeeded"])
    /\ AddRefund(b, [status |-> "charging", amount |-> Amount, late |-> TRUE,
                     fee |-> PlatformFee, leased |-> TRUE])
    /\ hand' \in {hand, hand \union {<<b, Len(refunds[b]) + 1>>}}

\* queueLateRefund: the row starts as a claim, which the answer to the App
\* carries; the App need not receive it.
QueueLateRefund(b) ==
    /\ Write(b, [SweptRes[b] EXCEPT !.money = "refund_pending"],
                [SweptPay[b] EXCEPT !.status = "succeeded", !.refunded = Amount])
    /\ AddRefund(b, [status |-> "charging", amount |-> Amount, late |-> TRUE,
                     fee |-> PlatformFee, leased |-> TRUE])
    /\ hand' \in {hand, hand \union {<<b, Len(refunds[b]) + 1>>}}

-----------------------------------------------------------------------------
\* applyPaymentStatus

\* Mutant: a session the sweep released is taken for settled.
UnpaidUnlessReleased(b) == SweptPay[b].status = "pending"

Unpaid(b) == SweptPay[b].status \in {"pending", "expired"}

Confirm(b, row) ==
    /\ Write(b, row, [SweptPay[b] EXCEPT !.status = "succeeded"])
    /\ UNCHANGED <<refunds, answers, hand>>

PaidInTime(b) ==
    /\ SweptRes[b].status = "pending_payment"
    /\ Confirm(b, [Changed(SweptRes[b], "booked") EXCEPT !.money = "paid"])

\* Paid after an operator confirmed the booking by hand.
PaidAfterwards(b) ==
    /\ SweptRes[b].status \in Kept
    /\ Confirm(b, [SweptRes[b] EXCEPT !.money = "paid"])

\* Mutant: the restore does not look at the table.
PaidRestoresBlindly(b) ==
    /\ SweptRes[b].status = "expired"
    /\ clock /= "started"
    /\ Confirm(b, [Changed(SweptRes[b], "booked")
                      EXCEPT !.money = "paid", !.table = TRUE])

\* tryRestoreExpiredBooking, when the table is still to be had.
PaidRestores(b) ==
    /\ SweptRes[b].status = "expired"
    /\ clock /= "started"
    /\ TableFree(SweptRes, b)
    /\ Confirm(b, [Changed(SweptRes[b], "booked")
                      EXCEPT !.money = "paid", !.table = TRUE])

\* Cancelled, finished, no-show, or an expired booking that cannot come back:
\* its table is gone, its time has passed, or a rule of the book refuses it.
PaidTooLate(b) ==
    /\ SweptRes[b].status \in {"cancelled", "finished", "no_show", "expired"}
    /\ QueueLateRefund(b)

\* A repeat: the deposit is settled already.
PaidAgain(b) ==
    /\ ~Unpaid(b)
    /\ Write(b, SweptRes[b], SweptPay[b])
    /\ UNCHANGED <<refunds, answers, hand>>

\* A paid event, delivered once or more.
PaidEvent(b) ==
    /\ page[b] \in {"captured", "settled"}
    /\ \/ PaidAgain(b)
       \/ /\ Unpaid(b)
          /\ \/ PaidInTime(b)
             \/ PaidAfterwards(b)
             \/ PaidRestores(b)
             \/ PaidTooLate(b)
    /\ page' = [page EXCEPT ![b] = "settled"]
    /\ UNCHANGED <<clock, window>>

\* A page that ended unpaid frees its booking for another page while the
\* booking can still be paid.
ExpiredEvent(b) ==
    /\ page[b] = "shut"
    /\ SweptPay[b].status = "pending"
    /\ IF SweptRes[b].status = "pending_payment"
       THEN /\ Write(b, SweptRes[b], [pay[b] EXCEPT !.bound = FALSE,
                                                    !.status = "created"])
            /\ page' = [page EXCEPT ![b] = "none"]
       ELSE /\ Write(b, SweptRes[b], [pay[b] EXCEPT !.status = "expired"])
            /\ UNCHANGED page
    /\ UNCHANGED <<clock, window, answers, refunds, hand>>

-----------------------------------------------------------------------------
\* The restaurant and the guest change the booking

\* handleCancellationPayments, on a deposit: the share of what remains that
\* the policy gives back.
CancellationRefund(remaining, keepsSome) ==
    IF keepsSome THEN (remaining * LateRefundBp) \div 10000 ELSE remaining

Refundable(b) == pay[b].status \in {"succeeded", "partially_refunded"}

Cancel(b, keepsSome) ==
    LET old == SweptRes[b]
        row == Changed(old, "cancelled")
        due == IF Refundable(b)
               THEN CancellationRefund(Amount - pay[b].refunded, keepsSome)
               ELSE 0
    IN  \/ /\ old.status = "pending_payment"
           /\ Write(b, ReleasedMoney(row), ReleasedDeposit(SweptPay[b]))
           /\ UNCHANGED <<answers, refunds>>
        \/ /\ old.status /= "pending_payment"
           /\ due > 0
           /\ QueueRefundRequest(b, row, due)
        \/ /\ old.status /= "pending_payment"
           /\ due = 0
           /\ Write(b, row, SweptPay[b])
           /\ UNCHANGED <<answers, refunds>>

GuestCancel(b) ==
    /\ SweptRes[b].status \in Cancellable
    /\ clock \in {"free", "late"}
    /\ Cancel(b, clock = "late")
    /\ UNCHANGED <<clock, window, page, hand>>

RestaurantCancel(b) ==
    /\ "cancelled" \in OperatorTransitions(SweptRes[b].status)
    /\ Cancel(b, FALSE)
    /\ UNCHANGED <<clock, window, page, hand>>

\* Every other status an operator, or the tick for a no-show, may set.
OperatorTransition(b) ==
    /\ \E to \in OperatorTransitions(SweptRes[b].status) \cap OperatorMoves :
          Write(b, Changed(SweptRes[b], to), SweptPay[b])
    /\ UNCHANGED <<outside, refunds, hand>>

\* Mutant: the undo asks for no refund.
UndoWhateverWasPaid(b) ==
    /\ res[b].from /= "none"
    /\ res[b].status \in {"cancelled", "finished"} => TableFree(SweptRes, b)
    /\ Write(b, [res[b] EXCEPT
                    !.status = res[b].from,
                    !.from = "none",
                    !.table = @ \/ /\ res[b].status \in Over
                                   /\ TableFree(SweptRes, b)],
                SweptPay[b])
    /\ UNCHANGED <<outside, refunds, hand>>

\* undoReservationTransition.  A cancelled or finished booking comes back only
\* with its table, a no-show also without (the table it had last, when the
\* change had none to give back); a cancellation and a no-show only while no
\* money has moved.
Undo(b) ==
    /\ res[b].from /= "none"
    /\ res[b].status \in {"cancelled", "no_show"} => Live(refunds[b]) = {}
    /\ res[b].status \in {"cancelled", "finished"} => TableFree(SweptRes, b)
    /\ Write(b, [res[b] EXCEPT
                    !.status = res[b].from,
                    !.from = "none",
                    !.table = @ \/ /\ res[b].status \in Over
                                   /\ TableFree(SweptRes, b)],
                SweptPay[b])
    /\ UNCHANGED <<outside, refunds, hand>>

\* Mutant: the remainder is not looked at.
RequestOperatorRefundUncapped(b) ==
    /\ Refundable(b)
    /\ Len(refunds[b]) < MaxRefunds
    /\ \E amount \in 1 .. Amount :
          QueueRefundRequest(b, SweptRes[b], amount)
    /\ UNCHANGED <<clock, window, page, hand>>

RequestOperatorRefund(b) ==
    /\ Refundable(b)
    /\ Len(refunds[b]) < MaxRefunds
    /\ \E amount \in 1 .. Amount - pay[b].refunded :
          QueueRefundRequest(b, SweptRes[b], amount)
    /\ UNCHANGED <<clock, window, page, hand>>

-----------------------------------------------------------------------------
\* The App executes refunds and reports them

\* Mutant: only the refunds that have succeeded count.
FeeReversalOfDone(rs, k) ==
    LET others == Done(rs) \ {k}
        after  == AmountOf(rs, others) + rs[k].amount
        target == IF after >= Amount
                  THEN PlatformFee
                  ELSE (2 * PlatformFee * after + Amount) \div (2 * Amount)
        owed   == target - FeeOf(rs, others)
    IN  IF owed > 0 THEN owed ELSE 0

\* computeFeeReversal: what refund k gives back of the platform fee, after the
\* refunds that count already (proportionalFeeRefund, rounded half up).
FeeReversal(rs, k) ==
    LET others == {j \in DOMAIN rs : rs[j].status \in Counted} \ {k}
        after  == AmountOf(rs, others) + rs[k].amount
        target == IF after >= Amount
                  THEN PlatformFee
                  ELSE (2 * PlatformFee * after + Amount) \div (2 * Amount)
        owed   == target - FeeOf(rs, others)
    IN  IF owed > 0 THEN owed ELSE 0

\* Mutant: a claim whose lease is over is nobody's.
ClaimRequestedOnly(b, k) ==
    /\ refunds[b][k].status = "requested"
    /\ refunds' = [refunds EXCEPT ![b][k].status = "charging",
                                  ![b][k].leased = TRUE,
                                  ![b][k].fee = FeeReversal(refunds[b], k)]
    /\ hand' = IF answers[b][k] = {} THEN hand \union {<<b, k>>} ELSE hand
    /\ res' = SweptRes
    /\ pay' = SweptPay
    /\ UNCHANGED outside

\* claimRefunds on one row: a request, or a claim whose lease is over.  Only
\* the first claim decides the fee reversal.
ClaimRefund(b, k) ==
    /\ \/ refunds[b][k].status = "requested"
       \/ refunds[b][k].status = "charging" /\ ~refunds[b][k].leased
    /\ refunds' = [refunds EXCEPT ![b][k].status = "charging",
                                  ![b][k].leased = TRUE,
                                  ![b][k].fee =
                       IF refunds[b][k].status = "requested"
                       THEN FeeReversal(refunds[b], k) ELSE @]
    /\ hand' = IF answers[b][k] = {} THEN hand \union {<<b, k>>} ELSE hand
    /\ res' = SweptRes
    /\ pay' = SweptPay
    /\ UNCHANGED outside

\* (The lease says nothing of a row that is no longer a claim.)
RefundRecorded(b, k, status) ==
    refunds' = [refunds EXCEPT ![b][k].status = status, ![b][k].leased = FALSE]

RefundPending(b, k) ==
    /\ RefundRecorded(b, k, "refund_pending")
    /\ Write(b, [SweptRes[b] EXCEPT !.money = "refund_pending"], SweptPay[b])

\* Mutant: a refused refund keeps its reservation.
RefundFailedKeepsReserve(b, k) ==
    /\ RefundRecorded(b, k, "failed")
    /\ Write(b, [SweptRes[b] EXCEPT !.money = "review"],
                [SweptPay[b] EXCEPT !.status = "review"])

\* A refund the provider refuses gives its reservation back and leaves the
\* payment to a manager.
RefundFailed(b, k) ==
    LET left == pay[b].refunded - refunds[b][k].amount
    IN  /\ RefundRecorded(b, k, "failed")
        /\ Write(b, [SweptRes[b] EXCEPT !.money = "review"],
                    [SweptPay[b] EXCEPT !.status = "review",
                                        !.refunded = IF left > 0 THEN left ELSE 0])

\* Mutant: the reservation is taken for what is back.
RefundSucceededByReserve(b, k) ==
    LET more == \E j \in DOMAIN refunds[b] \ {k} :
                    refunds[b][j].status \in InFlight
        back == IF pay[b].refunded >= Amount
                THEN "refunded" ELSE "partially_refunded"
    IN  /\ RefundRecorded(b, k, "succeeded")
        /\ Write(b, [SweptRes[b] EXCEPT
                        !.money = IF more THEN "refund_pending" ELSE back],
                    [SweptPay[b] EXCEPT !.status = back])

RefundSucceeded(b, k) ==
    LET full == AmountOf(refunds[b], Done(refunds[b]) \union {k}) >= Amount
        more == \E j \in DOMAIN refunds[b] \ {k} :
                    refunds[b][j].status \in InFlight
        back == IF full THEN "refunded" ELSE "partially_refunded"
    IN  /\ RefundRecorded(b, k, "succeeded")
        /\ Write(b, [SweptRes[b] EXCEPT
                        !.money = IF more THEN "refund_pending" ELSE back],
                    [SweptPay[b] EXCEPT !.status = back])

\* recordRefundResult: from the App that sent the refund, from a webhook, or
\* from the reconcile.  A final result is recorded once.
RecordRefundResult(b, k) ==
    /\ refunds[b][k].status \notin Closed
    /\ \/ "pending"   \in answers[b][k] /\ RefundPending(b, k)
       \/ "failed"    \in answers[b][k] /\ RefundFailed(b, k)
       \/ "succeeded" \in answers[b][k] /\ RefundSucceeded(b, k)
    /\ UNCHANGED <<outside, hand>>

\* recordDispute.
RecordDispute(b) ==
    /\ page[b] = "settled"
    /\ \E status \in DisputeEvents \ {pay[b].dispute} :
          Write(b, IF status \in {"opened", "lost"}
                   THEN [SweptRes[b] EXCEPT !.money = "disputed"]
                   ELSE IF SweptRes[b].money = "disputed"
                        THEN [SweptRes[b] EXCEPT !.money = "paid"]
                        ELSE SweptRes[b],
                   [SweptPay[b] EXCEPT !.dispute = status])
    /\ UNCHANGED <<outside, refunds, hand>>

-----------------------------------------------------------------------------
\* The environment: time, the provider, the App's workers

PassTime ==
    /\ \E hour \in LaterThan(clock) : clock' = hour
    /\ UNCHANGED <<window, res, pay, refunds, page, answers, hand>>

EndWindow(b) ==
    /\ res[b].status = "pending_payment"
    /\ window[b]
    /\ window' = [window EXCEPT ![b] = FALSE]
    /\ UNCHANGED <<clock, res, pay, refunds, page, answers, hand>>

EndLease(b, k) ==
    /\ refunds[b][k].leased
    /\ refunds' = [refunds EXCEPT ![b][k].leased = FALSE]
    /\ UNCHANGED <<outside, res, pay, hand>>

\* A page outlives its booking's window: the provider's shortest is longer.
EndPage(b, how) ==
    /\ page[b] = "open"
    /\ page' = [page EXCEPT ![b] = how]
    /\ UNCHANGED <<clock, window, res, pay, refunds, answers, hand>>

\* The refund's idempotency key makes a repeated request answer as the first,
\* so only the first one is a step.
SendRefund(b, k) ==
    /\ <<b, k>> \in hand
    /\ \E answer \in Answers : answers' = [answers EXCEPT ![b][k] = {answer}]
    /\ hand' = hand \ {<<b, k>>}
    /\ UNCHANGED <<clock, window, res, pay, refunds, page>>

SettleRefund(b, k) ==
    /\ answers[b][k] = {"pending"}
    /\ \E answer \in Closed : answers' = [answers EXCEPT ![b][k] = @ \union {answer}]
    /\ UNCHANGED <<clock, window, res, pay, refunds, page, hand>>

\* The App's process ends, or its answer from the region is lost.
LoseClaim(b, k) ==
    /\ <<b, k>> \in hand
    /\ hand' = hand \ {<<b, k>>}
    /\ UNCHANGED <<outside, res, pay, refunds>>

-----------------------------------------------------------------------------
PaymentsInit ==
    /\ clock = "free"
    /\ window = [b \in Bookings |-> TRUE]
    /\ res = [b \in Bookings |-> NoReservation]
    /\ pay = [b \in Bookings |-> NoDeposit]
    /\ refunds = [b \in Bookings |-> <<>>]
    /\ page = [b \in Bookings |-> "none"]
    /\ answers = [b \in Bookings |-> <<>>]
    /\ hand = {}

OnBooking(b) ==
    \/ CreateBooking(b)
    \/ BindPaymentSession(b)
    \/ PaidEvent(b)
    \/ ExpiredEvent(b)
    \/ GuestCancel(b)
    \/ RestaurantCancel(b)
    \/ OperatorTransition(b)
    \/ Undo(b)
    \/ RequestOperatorRefund(b)
    \/ RecordDispute(b)
    \/ EndWindow(b)
    \/ EndPage(b, "captured")
    \/ EndPage(b, "shut")

OnRefund(b, k) ==
    \/ ClaimRefund(b, k)
    \/ RecordRefundResult(b, k)
    \/ EndLease(b, k)
    \/ SendRefund(b, k)
    \/ SettleRefund(b, k)
    \/ LoseClaim(b, k)

PaymentsNext ==
    \/ SweepExpired
    \/ PassTime
    \/ \E b \in Bookings : OnBooking(b)
    \/ \E b \in Bookings : \E k \in DOMAIN refunds[b] : OnRefund(b, k)

PaymentsSpec == PaymentsInit /\ [][PaymentsNext]_paymentVars

\* The outbox and the hourly reconcile claim what waits, a lease ends, an App
\* worker that is given a refund again and again at last sends it, and the
\* provider decides and its decision is delivered.
RefundFairness(b, k) ==
    /\ WF_paymentVars(k \in DOMAIN refunds[b] /\ ClaimRefund(b, k))
    /\ WF_paymentVars(k \in DOMAIN refunds[b] /\ EndLease(b, k))
    /\ SF_paymentVars(k \in DOMAIN refunds[b] /\ SendRefund(b, k))
    /\ WF_paymentVars(k \in DOMAIN refunds[b] /\ SettleRefund(b, k))
    /\ WF_paymentVars(/\ k \in DOMAIN refunds[b]
                      /\ RecordRefundResult(b, k)
                      /\ refunds'[b][k].status \in Closed)

\* One refund more than operators ask for: a cancellation's.
RefundIds == 1 .. MaxRefunds + 1

FairPaymentsSpec ==
    PaymentsSpec /\ \A b \in Bookings, k \in RefundIds : RefundFairness(b, k)

-----------------------------------------------------------------------------
\* What must hold

\* What refundedMinor reserves is what the refunds that have not failed ask
\* for, whatever order their results come in (queueRefundRequest: "two
\* requests can never refund more than was paid").
ReserveIsExact ==
    \A b \in Bookings :
        pay[b].refunded = AmountOf(refunds[b], Live(refunds[b]))

Returned(b) ==
    AmountOf(refunds[b], {k \in DOMAIN refunds[b] : "succeeded" \in answers[b][k]})

\* The three purses of a deposit: what a settled one neither reserves nor gave
\* back is kept, what it reserves is owed until the provider gives it back.
Keeps == [b \in Bookings |->
             IF page[b] = "settled" THEN Amount - pay[b].refunded ELSE 0]
Owes  == [b \in Bookings |-> pay[b].refunded - Returned(b)]
Backs == [b \in Bookings |-> Returned(b)]
CalledRefunded == {b \in Bookings : pay[b].status = "refunded"}

Ledger == INSTANCE DepositLedger WITH
    kept <- Keeps, owed <- Owes, back <- Backs, said <- CalledRefunded

\* Every step of the region, the App and the provider is one movement of the
\* deposit's money, or none: no cent is promised twice, given back unpromised,
\* or lost between a refusal and a result that arrives out of order.
DepositIsAccounted == Ledger!LedgerSpec

\* The provider never gives back more than the guest paid, through operator
\* refunds, cancellations, late payments, lost results and claims taken twice.
NeverMoreThanPaid == \A b \in Bookings : Returned(b) <= Amount

\* A booking whose payment came too late and goes back is never open again:
\* neither an undo nor a restore gives the guest both the money and the table.
\* (A visit that was finished may be undone to "seated": the undo asks for no
\* money then.)
LateRefundMeansNoBooking ==
    \A b \in Bookings :
        (\E k \in Live(refunds[b]) : refunds[b][k].late)
            => res[b].status \notin {"pending_payment", "booked", "confirmed", "arrived"}

\* Nobody pays for nothing: a payment the region has answered for a booking
\* that stays expired is on its way back.
ExpiredPaymentGoesBack ==
    \A b \in Bookings :
        page[b] = "settled" /\ res[b].status = "expired"
            => \E k \in DOMAIN refunds[b] : refunds[b][k].late

\* Whatever sweeps, restores, cancels and undoes, two bookings never hold the
\* table, and a booking that is over holds none.
OneBookingPerTable ==
    /\ \A b, c \in Bookings : res[b].table /\ res[c].table => b = c
    /\ \A b \in Bookings :
           res[b].table => res[b].status \in Kept \union {"pending_payment"}

\* A deposit is called refunded only when the provider returned all of it, and
\* the guest is told so only then.
RefundedMeansReturned ==
    \A b \in Bookings :
        /\ pay[b].status = "refunded" => Returned(b) = Amount
        /\ res[b].money = "refunded" => pay[b].status = "refunded"

\* Once a deposit is back in full, so is the platform's fee on it, to the cent,
\* although each refund's share was decided when it was claimed, between the
\* claims and failures of others (computeFeeReversal: "so reversals sum to the
\* snapshot").
FeeGoesBackInFull ==
    \A b \in Bookings :
        pay[b].status = "refunded"
            => FeeOf(refunds[b], Done(refunds[b])) = PlatformFee

\* A claim taken over sends exactly the fee reversal the first one decided: the
\* provider refuses other parameters under the same key (directiveFor).
FeeDecidedOnce ==
    [][\A b \in Bookings : \A k \in DOMAIN refunds[b] :
          refunds[b][k].status /= "requested"
              => refunds'[b][k].fee = refunds[b][k].fee]_paymentVars

\* Every refund the region promised is sent and recorded, through lost answers
\* and workers that end (claimRefunds and its lease).
RefundEnds ==
    \A b \in Bookings, k \in RefundIds :
        k \in DOMAIN refunds[b]
            ~> k \in DOMAIN refunds[b] /\ refunds[b][k].status \in Closed

=============================================================================
