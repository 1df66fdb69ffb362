--------------------- MODULE ReservationPayments_proofs ---------------------
(***************************************************************************)
(* What holds of deposits and their tables for every set of bookings,      *)
(* every amount and every policy.                                          *)
(***************************************************************************)
EXTENDS ReservationPayments, PointSums_proofs, SequenceTheorems, TLAPS

-----------------------------------------------------------------------------
\* The table

Holding == Kept \union {"pending_payment"}

\* A row that may hold its table, and whose undo leads back to a kept booking.
SoundRow(row) ==
    /\ row \in ReservationRow
    /\ row.table => row.status \in Holding
    /\ row.from \in Kept \union {"none"}
    /\ row.status \in {"pending_payment", "expired"} => row.from = "none"
    /\ row.status = "finished" => row.from \in {"seated", "none"}

\* Sound rows, of which one at most holds the table.
SoundTable(rows) ==
    /\ rows \in [Bookings -> ReservationRow]
    /\ \A b \in Bookings : SoundRow(rows[b])
    /\ \A b, c \in Bookings : rows[b].table /\ rows[c].table => b = c

\* A status change keeps a row sound and never takes a table; what an undo
\* returns to can keep one.
LEMMA ChangedIsSound ==
    ASSUME NEW row \in ReservationRow, SoundRow(row), NEW to \in Statuses \ {"none"}
    PROVE  /\ SoundRow(Changed(row, to))
           /\ Changed(row, to).status = to
           /\ Changed(row, to).table => row.table
  BY DEF SoundRow, Changed, ReservationRow, Statuses, Holding, Kept, Over, Returnable

\* The money on a row has no part in its table.
LEMMA MoneyIsSound ==
    ASSUME NEW row \in ReservationRow, SoundRow(row), NEW m \in Money
    PROVE  /\ SoundRow([row EXCEPT !.money = m])
           /\ [row EXCEPT !.money = m].table = row.table
           /\ [row EXCEPT !.money = m].status = row.status
  BY DEF SoundRow, ReservationRow

\* The sweep only gives tables back.
LEMMA SweptIsSound ==
    ASSUME SoundTable(res)
    PROVE  /\ SoundTable(SweptRes)
           /\ \A b \in Bookings : SweptRes[b].table => res[b].table
           /\ \A b \in Bookings : ~Overdue(b) => SweptRes[b] = res[b]
<1>1. ASSUME NEW b \in Bookings
      PROVE  /\ SoundRow(SweptRes[b])
             /\ SweptRes[b].table => res[b].table
  <2>1. SoundRow(res[b])
    BY DEF SoundTable
  <2>2. /\ SoundRow(Changed(res[b], "expired"))
        /\ Changed(res[b], "expired").table => res[b].table
    BY <2>1, ChangedIsSound DEF Statuses, SoundRow
  <2>3. /\ SoundRow(ReleasedMoney(Changed(res[b], "expired")))
        /\ ReleasedMoney(Changed(res[b], "expired")).table
               = Changed(res[b], "expired").table
    BY <2>2, MoneyIsSound DEF ReleasedMoney, Money, SoundRow
  <2> QED
    BY <2>1, <2>2, <2>3 DEF SweptRes
<1>2. SweptRes \in [Bookings -> ReservationRow]
  BY <1>1 DEF SweptRes, SoundRow
<1> QED
  BY <1>1, <1>2 DEF SoundTable, SweptRes

\* A handler that writes one sound row keeps the table sound when the row had
\* the table already, or takes one that nobody holds.
LEMMA WriteIsSound ==
    ASSUME SoundTable(res), NEW b \in Bookings, NEW row, NEW deposit,
           SoundRow(row),
           row.table => SweptRes[b].table \/ TableFree(SweptRes, b),
           Write(b, row, deposit)
    PROVE  SoundTable(res')
<1>1. SoundTable(SweptRes)
  BY SweptIsSound
<1>2. res' = [SweptRes EXCEPT ![b] = row]
  BY DEF Write
<1> QED
  BY <1>1, <1>2 DEF SoundTable, SoundRow, TableFree

\* A handler that changes a status writes a sound row without a table of
\* its own making, and one that changes the money as well.
LEMMA ChangeIsSound ==
    ASSUME SoundTable(res), NEW b \in Bookings, NEW to \in Statuses \ {"none"}
    PROVE  LET row == Changed(SweptRes[b], to)
           IN  /\ SoundRow(row)
               /\ row.status = to
               /\ row.table => SweptRes[b].table
               /\ \A m \in Money :
                     /\ SoundRow([row EXCEPT !.money = m])
                     /\ [row EXCEPT !.money = m].table => SweptRes[b].table
<1>1. SoundRow(SweptRes[b]) /\ SweptRes[b] \in ReservationRow
  BY SweptIsSound DEF SoundTable, SoundRow
<1>2. /\ SoundRow(Changed(SweptRes[b], to))
      /\ Changed(SweptRes[b], to).status = to
      /\ Changed(SweptRes[b], to).table => SweptRes[b].table
  BY <1>1, ChangedIsSound
<1>3. Changed(SweptRes[b], to) \in ReservationRow
  BY <1>2 DEF SoundRow
<1>4. \A m \in Money :
          /\ SoundRow([Changed(SweptRes[b], to) EXCEPT !.money = m])
          /\ [Changed(SweptRes[b], to) EXCEPT !.money = m].table
                 = Changed(SweptRes[b], to).table
  BY <1>2, <1>3, MoneyIsSound
<1> QED
  BY <1>2, <1>4

\* Rows of the bookings a handler leaves where they are.
LEMMA RepriceIsSound ==
    ASSUME SoundTable(res), NEW b \in Bookings
    PROVE  /\ SoundRow(SweptRes[b])
           /\ \A m \in Money :
                 /\ SoundRow([SweptRes[b] EXCEPT !.money = m])
                 /\ [SweptRes[b] EXCEPT !.money = m].table => SweptRes[b].table
<1>1. SoundRow(SweptRes[b]) /\ SweptRes[b] \in ReservationRow
  BY SweptIsSound DEF SoundTable, SoundRow
<1> QED
  BY <1>1, MoneyIsSound

-----------------------------------------------------------------------------
\* The handlers, one by one

LEMMA CreateKeepsTable ==
    ASSUME SoundTable(res), NEW b \in Bookings, CreateBooking(b)
    PROVE  SoundTable(res')
<1> DEFINE row == [NoReservation EXCEPT !.status = "pending_payment",
                                        !.money = "pending", !.table = TRUE]
<1>1. SoundRow(row)
  BY DEF SoundRow, NoReservation, ReservationRow, Statuses, Money, Holding
<1>2. Write(b, row, [NoDeposit EXCEPT !.status = "created"])
  BY DEF CreateBooking
<1>3. TableFree(SweptRes, b)
  BY DEF CreateBooking
<1> HIDE DEF row
<1> QED
  BY <1>1, <1>2, <1>3, WriteIsSound

LEMMA PaidKeepsTable ==
    ASSUME SoundTable(res), NEW b \in Bookings, PaidEvent(b)
    PROVE  SoundTable(res')
<1>1. SoundRow(SweptRes[b]) /\ SweptRes[b] \in ReservationRow
  BY SweptIsSound DEF SoundTable, SoundRow
<1>2. CASE PaidAgain(b)
  BY <1>1, <1>2, WriteIsSound DEF PaidAgain
<1>3. CASE PaidInTime(b)
  <2>1. /\ SoundRow([Changed(SweptRes[b], "booked") EXCEPT !.money = "paid"])
        /\ [Changed(SweptRes[b], "booked") EXCEPT !.money = "paid"].table
               => SweptRes[b].table
    BY ChangeIsSound DEF Statuses, Money
  <2> QED
    BY <1>3, <2>1, WriteIsSound DEF PaidInTime, Confirm
<1>4. CASE PaidAfterwards(b)
  <2>1. /\ SoundRow([SweptRes[b] EXCEPT !.money = "paid"])
        /\ [SweptRes[b] EXCEPT !.money = "paid"].table => SweptRes[b].table
    BY RepriceIsSound DEF Money
  <2> QED
    BY <1>4, <2>1, WriteIsSound DEF PaidAfterwards, Confirm
<1>5. CASE PaidRestores(b)
  <2> DEFINE old == Changed(SweptRes[b], "booked")
             row == [old EXCEPT !.money = "paid", !.table = TRUE]
  <2>1. SoundRow(old) /\ old \in ReservationRow /\ old.status = "booked"
    BY ChangeIsSound DEF Statuses, SoundRow
  <2>2. Write(b, row, [SweptPay[b] EXCEPT !.status = "succeeded"])
    BY <1>5 DEF PaidRestores, Confirm
  <2>3. TableFree(SweptRes, b)
    BY <1>5 DEF PaidRestores
  <2> HIDE DEF old
  <2>4. SoundRow(row)
    BY <2>1 DEF SoundRow, ReservationRow, Money, Holding, Kept
  <2> HIDE DEF row
  <2> QED
    BY <2>2, <2>3, <2>4, WriteIsSound
<1>6. CASE PaidTooLate(b)
  <2>1. /\ SoundRow([SweptRes[b] EXCEPT !.money = "refund_pending"])
        /\ [SweptRes[b] EXCEPT !.money = "refund_pending"].table
               => SweptRes[b].table
    BY RepriceIsSound DEF Money
  <2> QED
    BY <1>6, <2>1, WriteIsSound DEF PaidTooLate, QueueLateRefund
<1> QED
  BY <1>2, <1>3, <1>4, <1>5, <1>6 DEF PaidEvent

LEMMA CancelKeepsTable ==
    ASSUME SoundTable(res), NEW b \in Bookings, NEW keepsSome \in BOOLEAN,
           Cancel(b, keepsSome)
    PROVE  SoundTable(res')
<1> DEFINE row == Changed(SweptRes[b], "cancelled")
<1>1. /\ SoundRow(row)
      /\ row.table => SweptRes[b].table
      /\ \A m \in Money : /\ SoundRow([row EXCEPT !.money = m])
                           /\ [row EXCEPT !.money = m].table => SweptRes[b].table
  BY ChangeIsSound DEF Statuses
<1>2. \E new, deposit : /\ Write(b, new, deposit)
                        /\ \/ new = row
                           \/ new = ReleasedMoney(row)
                           \/ new = [row EXCEPT !.money = "refund_pending"]
  BY DEF Cancel, QueueRefundRequest
<1> HIDE DEF row
<1>3. row \in ReservationRow
  BY <1>1 DEF SoundRow
<1>4. /\ SoundRow([row EXCEPT !.money = "none"])
      /\ [row EXCEPT !.money = "none"].table => SweptRes[b].table
      /\ SoundRow([row EXCEPT !.money = "refund_pending"])
      /\ [row EXCEPT !.money = "refund_pending"].table => SweptRes[b].table
  BY <1>1, <1>3, MoneyIsSound DEF Money
<1>5. ReleasedMoney(row) \in {row, [row EXCEPT !.money = "none"]}
  BY DEF ReleasedMoney
<1> QED
  BY <1>1, <1>2, <1>4, <1>5, WriteIsSound

LEMMA TransitionKeepsTable ==
    ASSUME SoundTable(res), NEW b \in Bookings, OperatorTransition(b)
    PROVE  SoundTable(res')
<1>1. PICK to \in OperatorTransitions(SweptRes[b].status) :
          Write(b, Changed(SweptRes[b], to), SweptPay[b])
  BY DEF OperatorTransition
<1>2. to \in Statuses \ {"none"}
  BY DEF OperatorTransitions, Statuses
<1>3. /\ SoundRow(Changed(SweptRes[b], to))
      /\ Changed(SweptRes[b], to).table => SweptRes[b].table
  BY <1>2, ChangeIsSound
<1> QED
  BY <1>1, <1>3, WriteIsSound

LEMMA UndoKeepsTable ==
    ASSUME SoundTable(res), NEW b \in Bookings, Undo(b)
    PROVE  SoundTable(res')
<1> DEFINE old == res[b]
           kept == old.table \/ (old.status \in Over /\ TableFree(SweptRes, b))
           row == [old EXCEPT !.status = old.from, !.from = "none", !.table = kept]
<1>1. SoundRow(old) /\ old \in ReservationRow /\ old.from \in Kept
  BY DEF SoundTable, SoundRow, Undo
<1>2. Write(b, row, SweptPay[b])
  BY DEF Undo
<1>3. SweptRes[b] = old
  BY <1>1, SweptIsSound DEF Overdue, SoundRow, Kept
<1>4. SoundRow(row)
  BY <1>1 DEF SoundRow, ReservationRow, Statuses, Holding, Kept
<1>5. row.table => SweptRes[b].table \/ TableFree(SweptRes, b)
  BY <1>1, <1>3 DEF ReservationRow
<1> HIDE DEF row
<1> QED
  BY <1>2, <1>4, <1>5, WriteIsSound

LEMMA RefundKeepsTable ==
    ASSUME SoundTable(res), NEW b \in Bookings, NEW k \in DOMAIN refunds[b],
           RecordRefundResult(b, k)
    PROVE  SoundTable(res')
<1>1. \E m \in Money : \E deposit :
          Write(b, [SweptRes[b] EXCEPT !.money = m], deposit)
  BY DEF RecordRefundResult, RefundPending, RefundFailed, RefundSucceeded, Money
<1> QED
  BY <1>1, RepriceIsSound, WriteIsSound

LEMMA DisputeKeepsTable ==
    ASSUME SoundTable(res), NEW b \in Bookings, RecordDispute(b)
    PROVE  SoundTable(res')
<1>1. \E new, deposit : /\ Write(b, new, deposit)
                        /\ \/ new = SweptRes[b]
                           \/ new = [SweptRes[b] EXCEPT !.money = "disputed"]
                           \/ new = [SweptRes[b] EXCEPT !.money = "paid"]
  BY DEF RecordDispute
<1>2. /\ SoundRow(SweptRes[b])
      /\ SoundRow([SweptRes[b] EXCEPT !.money = "disputed"])
      /\ [SweptRes[b] EXCEPT !.money = "disputed"].table => SweptRes[b].table
      /\ SoundRow([SweptRes[b] EXCEPT !.money = "paid"])
      /\ [SweptRes[b] EXCEPT !.money = "paid"].table => SweptRes[b].table
  BY RepriceIsSound DEF Money
<1> QED
  BY <1>1, <1>2, WriteIsSound

LEMMA OperatorRefundKeepsTable ==
    ASSUME SoundTable(res), NEW b \in Bookings, RequestOperatorRefund(b)
    PROVE  SoundTable(res')
<1>1. \E deposit :
          Write(b, [SweptRes[b] EXCEPT !.money = "refund_pending"], deposit)
  BY DEF RequestOperatorRefund, QueueRefundRequest
<1> QED
  BY <1>1, RepriceIsSound, WriteIsSound DEF Money

LEMMA BookingKeepsTable ==
    ASSUME SoundTable(res), NEW b \in Bookings, OnBooking(b)
    PROVE  SoundTable(res')
<1>1. CASE CreateBooking(b)
  BY <1>1, CreateKeepsTable
<1>2. CASE BindPaymentSession(b) \/ ExpiredEvent(b)
  <2>1. \E deposit : Write(b, SweptRes[b], deposit)
    BY <1>2 DEF BindPaymentSession, ExpiredEvent
  <2> QED
    BY <2>1, RepriceIsSound, WriteIsSound
<1>3. CASE PaidEvent(b)
  BY <1>3, PaidKeepsTable
<1>4. CASE GuestCancel(b) \/ RestaurantCancel(b)
  <2>1. PICK keepsSome \in BOOLEAN : Cancel(b, keepsSome)
    BY <1>4 DEF GuestCancel, RestaurantCancel
  <2> QED
    BY <2>1, CancelKeepsTable
<1>5. CASE OperatorTransition(b)
  BY <1>5, TransitionKeepsTable
<1>6. CASE Undo(b)
  BY <1>6, UndoKeepsTable
<1>7. CASE RequestOperatorRefund(b)
  BY <1>7, OperatorRefundKeepsTable
<1>8. CASE RecordDispute(b)
  BY <1>8, DisputeKeepsTable
<1>9. CASE EndWindow(b) \/ EndPage(b, "captured") \/ EndPage(b, "shut")
  BY <1>9 DEF EndWindow, EndPage
<1> QED
  BY <1>1, <1>2, <1>3, <1>4, <1>5, <1>6, <1>7, <1>8, <1>9 DEF OnBooking

LEMMA NextKeepsTable ==
    ASSUME SoundTable(res), [PaymentsNext]_paymentVars
    PROVE  SoundTable(res')
<1>1. CASE SweepExpired
  BY <1>1, SweptIsSound DEF SweepExpired
<1>2. CASE PassTime
  BY <1>2 DEF PassTime
<1>3. ASSUME NEW b \in Bookings, OnBooking(b)
      PROVE  SoundTable(res')
  BY <1>3, BookingKeepsTable
<1>4. ASSUME NEW b \in Bookings, NEW k \in DOMAIN refunds[b], OnRefund(b, k)
      PROVE  SoundTable(res')
  <2>1. CASE ClaimRefund(b, k)
    BY <2>1, SweptIsSound DEF ClaimRefund
  <2>2. CASE RecordRefundResult(b, k)
    BY <2>2, RefundKeepsTable
  <2>3. CASE EndLease(b, k) \/ SendRefund(b, k) \/ SettleRefund(b, k) \/ LoseClaim(b, k)
    BY <2>3 DEF EndLease, SendRefund, SettleRefund, LoseClaim
  <2> QED
    BY <1>4, <2>1, <2>2, <2>3 DEF OnRefund
<1>5. CASE UNCHANGED paymentVars
  BY <1>5 DEF paymentVars
<1> QED
  BY <1>1, <1>2, <1>3, <1>4, <1>5 DEF PaymentsNext

\* Whatever sweeps, restores, cancels and undoes, two bookings never hold the
\* table and one that is over holds none: for any number of bookings.
THEOREM TableHasOneBooking == PaymentsSpec => []OneBookingPerTable
<1>1. PaymentsInit => SoundTable(res)
  BY DEF PaymentsInit, SoundTable, SoundRow, NoReservation, ReservationRow,
         Statuses, Money, Kept
<1>2. SoundTable(res) /\ [PaymentsNext]_paymentVars => SoundTable(res)'
  BY NextKeepsTable DEF SoundTable, SoundRow
<1>3. SoundTable(res) => OneBookingPerTable
  BY DEF SoundTable, SoundRow, OneBookingPerTable, Holding
<1> QED
  BY <1>1, <1>2, <1>3, PTL DEF PaymentsSpec

-----------------------------------------------------------------------------
\* Refund rows: what a step does to them

\* The shape of a row; which amounts it holds plays no part here.
RefundOf(F) == [status : Refunds, amount : F, late : BOOLEAN, fee : F,
                leased : BOOLEAN]
RefundShape == \E F : refunds \in [Bookings -> Seq(RefundOf(F))]

\* A row is never removed or made another's; a failed refund stays failed, and
\* only a first claim writes the fee.
RowStep(old, new) ==
    /\ new.late = old.late
    /\ old.status = "failed" => new.status = "failed"
    /\ old.status /= "requested" => new.fee = old.fee
OldRowsStep ==
    \A x \in Bookings : \A k \in DOMAIN refunds[x] :
        k \in DOMAIN refunds'[x] /\ RowStep(refunds[x][k], refunds'[x][k])
NewRowsAre(b, late) ==
    \A x \in Bookings : \A k \in DOMAIN refunds'[x] \ DOMAIN refunds[x] :
        refunds'[x][k].late => x = b /\ late

\* What every step does to the refund rows: only b gets a late one, if at all.
RefundsStep(b, late) == RefundShape' /\ OldRowsStep /\ NewRowsAre(b, late)

LEMMA ShapeGrows ==
    ASSUME NEW F, NEW T, F \subseteq T, NEW rs \in Seq(RefundOf(F))
    PROVE  rs \in Seq(RefundOf(T))
<1>1. RefundOf(F) \subseteq RefundOf(T)
  BY DEF RefundOf
<1> QED
  BY <1>1, SeqMonotonic

LEMMA AddingRefund ==
    ASSUME RefundShape, NEW b \in Bookings, NEW T, NEW row \in RefundOf(T),
           AddRefund(b, row)
    PROVE  RefundsStep(b, row.late)
<1>1. PICK F : refunds \in [Bookings -> Seq(RefundOf(F))]
  BY DEF RefundShape
<1> DEFINE U == F \union T
<1>2. \A x \in Bookings : refunds[x] \in Seq(RefundOf(U))
  BY <1>1, ShapeGrows
<1>3. row \in RefundOf(U)
  BY DEF RefundOf
<1> DEFINE R == RefundOf(U)
           old == refunds[b]
           new == Append(old, row)
<1>4. old \in Seq(R) /\ row \in R
  BY <1>2, <1>3
<1>5. refunds' = [refunds EXCEPT ![b] = new]
  BY DEF AddRefund
<1>6. \A x \in Bookings : refunds[x] \in Seq(R)
  BY <1>2
<1> HIDE DEF U, R, old
<1>7. /\ new \in Seq(R)
      /\ Len(new) = Len(old) + 1
      /\ \A i \in 1 .. Len(old) : new[i] = old[i]
      /\ new[Len(old) + 1] = row
  BY <1>4, AppendProperties
<1>8. /\ Len(old) \in Nat
      /\ DOMAIN old = 1 .. Len(old)
      /\ DOMAIN new = 1 .. Len(old) + 1
  BY <1>4, <1>7, LenProperties
<1> HIDE DEF new
<1>9. /\ refunds' \in [Bookings -> Seq(R)]
      /\ \A x \in Bookings : refunds'[x] = IF x = b THEN new ELSE refunds[x]
  BY <1>1, <1>5, <1>6, <1>7
<1>10. RefundShape'
  BY <1>9 DEF RefundShape, R
<1>11. OldRowsStep
  BY <1>7, <1>8, <1>9 DEF OldRowsStep, RowStep, old
<1>12. NewRowsAre(b, row.late)
  <2> SUFFICES ASSUME NEW x \in Bookings,
                      NEW k \in DOMAIN refunds'[x] \ DOMAIN refunds[x]
               PROVE  x = b /\ refunds'[x][k] = row
    BY DEF NewRowsAre
  <2>1. x = b
    BY <1>9
  <2>2. k = Len(old) + 1
    BY <1>8, <1>9, <2>1 DEF old
  <2> QED
    BY <1>7, <1>9, <2>1, <2>2
<1> QED
  BY <1>10, <1>11, <1>12 DEF RefundsStep

LEMMA EditingRefund ==
    ASSUME RefundShape, NEW b \in Bookings, NEW k \in DOMAIN refunds[b],
           NEW T, NEW row \in RefundOf(T), RowStep(refunds[b][k], row),
           refunds' = [refunds EXCEPT ![b] = [refunds[b] EXCEPT ![k] = row]]
    PROVE  RefundsStep(b, FALSE)
<1>1. PICK F : refunds \in [Bookings -> Seq(RefundOf(F))]
  BY DEF RefundShape
<1> DEFINE U == F \union T
<1>2. \A x \in Bookings : refunds[x] \in Seq(RefundOf(U))
  BY <1>1, ShapeGrows
<1>3. row \in RefundOf(U)
  BY DEF RefundOf
<1>4. DOMAIN refunds[b] = 1 .. Len(refunds[b])
  BY <1>1, LenProperties
<1> DEFINE new == [refunds[b] EXCEPT ![k] = row]
<1>5. /\ new \in Seq(RefundOf(U))
      /\ Len(new) = Len(refunds[b])
      /\ \A j \in 1 .. Len(refunds[b]) : new[j] = IF j = k THEN row ELSE refunds[b][j]
  BY <1>2, <1>3, <1>4, ExceptSeq
<1>6. DOMAIN new = DOMAIN refunds[b]
  BY DEF new
<1> HIDE DEF U, new
<1>7. /\ refunds' \in [Bookings -> Seq(RefundOf(U))]
      /\ \A x \in Bookings : refunds'[x] = IF x = b THEN new ELSE refunds[x]
  BY <1>1, <1>2, <1>5 DEF new
<1>8. OldRowsStep
  BY <1>4, <1>5, <1>6, <1>7 DEF OldRowsStep, RowStep
<1>9. NewRowsAre(b, FALSE)
  BY <1>6, <1>7 DEF NewRowsAre
<1> QED
  BY <1>7, <1>8, <1>9 DEF RefundsStep, RefundShape

LEMMA LeavingRefunds ==
    ASSUME RefundShape, NEW b, refunds' = refunds
    PROVE  RefundsStep(b, FALSE)
  BY DEF RefundShape, RefundsStep, OldRowsStep, NewRowsAre, RowStep

-----------------------------------------------------------------------------
\* Deposits

DepositOf(F) == [status : Deposits, bound : BOOLEAN, refunded : F,
                 dispute : Disputes]
PayShape == \E F : pay \in [Bookings -> DepositOf(F)]

\* The guest's money was taken, and no event can take it again.
Settled == {"succeeded", "partially_refunded", "refunded", "review"}

LEMMA SweptDeposits ==
    ASSUME NEW F, pay \in [Bookings -> DepositOf(F)]
    PROVE  /\ SweptPay \in [Bookings -> DepositOf(F)]
           /\ \A b \in Bookings : ~Overdue(b) => SweptPay[b] = pay[b]
           /\ \A b \in Bookings : pay[b].status \in Settled => SweptPay[b] = pay[b]
  BY DEF SweptPay, ReleasedDeposit, DepositOf, Deposits, Settled

LEMMA WritingDeposit ==
    ASSUME PayShape, NEW b \in Bookings, NEW row, NEW T,
           NEW deposit \in DepositOf(T), Write(b, row, deposit)
    PROVE  PayShape'
<1>1. PICK F : pay \in [Bookings -> DepositOf(F)]
  BY DEF PayShape
<1>2. SweptPay \in [Bookings -> DepositOf(F)]
  BY <1>1, SweptDeposits
<1> DEFINE U == F \union T
<1>3. DepositOf(F) \subseteq DepositOf(U) /\ deposit \in DepositOf(U)
  BY DEF DepositOf
<1> HIDE DEF U
<1>4. pay' \in [Bookings -> DepositOf(U)]
  BY <1>2, <1>3 DEF Write
<1> QED
  BY <1>4 DEF PayShape

-----------------------------------------------------------------------------
\* A late payment that goes back

LateRefund(b) == \E k \in Live(refunds[b]) : refunds[b][k].late

\* Nothing but the undo of a finished visit leads away from these, and that
\* only to a seated row which no undo leaves again.
ClosedRow(row) ==
    /\ row.status \in {"cancelled", "finished", "no_show", "expired", "seated"}
    /\ row.status = "seated" => row.from = "none"

LateIsClosed ==
    \A b \in Bookings : LateRefund(b) => ClosedRow(res[b]) /\ pay[b].status \in Settled

LateInv == SoundTable(res) /\ PayShape /\ RefundShape /\ LateIsClosed

\* A late refund of the next state is one already, or has just been added.
LEMMA LateRefundsStay ==
    ASSUME NEW b, NEW late, OldRowsStep, NewRowsAre(b, late),
           NEW x \in Bookings, LateRefund(x)'
    PROVE  LateRefund(x) \/ (x = b /\ late)
<1>1. PICK k \in DOMAIN refunds'[x] :
          refunds'[x][k].status /= "failed" /\ refunds'[x][k].late
  BY DEF LateRefund, Live
<1>2. CASE k \in DOMAIN refunds[x]
  <2>1. refunds[x][k].late /\ refunds[x][k].status /= "failed"
    BY <1>1, <1>2 DEF OldRowsStep, RowStep
  <2> QED
    BY <1>2, <2>1 DEF LateRefund, Live
<1>3. CASE k \notin DOMAIN refunds[x]
  BY <1>1, <1>3 DEF NewRowsAre
<1> QED
  BY <1>2, <1>3

\* A booking with a late refund is not swept.
LEMMA ClosedIsNotSwept ==
    ASSUME SoundTable(res), PayShape, NEW b \in Bookings, ClosedRow(res[b])
    PROVE  SweptRes[b] = res[b] /\ SweptPay[b] = pay[b]
<1>1. ~Overdue(b)
  BY DEF Overdue, ClosedRow
<1> QED
  BY <1>1, SweptIsSound, SweptDeposits DEF PayShape

\* A handler that writes b keeps the invariant when, should b have a late
\* refund afterwards, it writes a closed row and a settled deposit.
LEMMA WriteKeepsLate ==
    ASSUME LateInv, NEW b \in Bookings, NEW row, NEW deposit,
           Write(b, row, deposit), NEW late, RefundsStep(b, late),
           LateRefund(b) \/ late => ClosedRow(row) /\ deposit.status \in Settled
    PROVE  LateIsClosed'
<1> SUFFICES ASSUME NEW x \in Bookings, LateRefund(x)'
             PROVE  ClosedRow(res'[x]) /\ pay'[x].status \in Settled
  BY DEF LateIsClosed
<1>1. LateRefund(x) \/ (x = b /\ late)
  BY LateRefundsStay DEF RefundsStep
<1>2. PICK F : pay \in [Bookings -> DepositOf(F)]
  BY DEF LateInv, PayShape
<1>3. /\ SweptRes \in [Bookings -> ReservationRow]
      /\ SweptPay \in [Bookings -> DepositOf(F)]
  BY <1>2, SweptIsSound, SweptDeposits DEF LateInv, SoundTable
<1>4. CASE x = b
  BY <1>1, <1>3, <1>4 DEF Write
<1>5. CASE x /= b
  <2>1. ClosedRow(res[x]) /\ pay[x].status \in Settled
    BY <1>1, <1>5 DEF LateInv, LateIsClosed
  <2>2. res'[x] = SweptRes[x] /\ pay'[x] = SweptPay[x]
    BY <1>3, <1>5 DEF Write
  <2> QED
    BY <2>1, <2>2, ClosedIsNotSwept DEF LateInv
<1> QED
  BY <1>4, <1>5

\* What a step keeps besides the table.
LateStep == PayShape' /\ RefundShape' /\ LateIsClosed' /\ OldRowsStep

LEMMA HandlerStep ==
    ASSUME LateInv, NEW b \in Bookings, NEW row, NEW T, NEW deposit \in DepositOf(T),
           Write(b, row, deposit), NEW late, RefundsStep(b, late),
           LateRefund(b) \/ late => ClosedRow(row) /\ deposit.status \in Settled
    PROVE  LateStep
<1>1. LateIsClosed'
  BY WriteKeepsLate
<1>2. PayShape'
  BY WritingDeposit DEF LateInv
<1> QED
  BY <1>1, <1>2 DEF LateStep, RefundsStep

\* What a handler finds in the rows of its booking.
LEMMA FoundRows ==
    ASSUME LateInv, NEW b \in Bookings
    PROVE  /\ SoundRow(SweptRes[b]) /\ SweptRes[b] \in ReservationRow
           /\ SoundRow(res[b]) /\ res[b] \in ReservationRow
           /\ \E F : SweptPay[b] \in DepositOf(F) /\ pay[b] \in DepositOf(F)
           /\ LateRefund(b) => /\ ClosedRow(res[b])
                              /\ SweptRes[b] = res[b]
                              /\ pay[b].status \in Settled
                              /\ SweptPay[b] = pay[b]
<1>1. /\ SoundRow(SweptRes[b]) /\ SweptRes[b] \in ReservationRow
      /\ SoundRow(res[b]) /\ res[b] \in ReservationRow
  BY SweptIsSound DEF LateInv, SoundTable, SoundRow
<1>2. \E F : SweptPay[b] \in DepositOf(F) /\ pay[b] \in DepositOf(F)
  <2>1. PICK F : pay \in [Bookings -> DepositOf(F)]
    BY DEF LateInv, PayShape
  <2>2. SweptPay \in [Bookings -> DepositOf(F)]
    BY <2>1, SweptDeposits
  <2> QED
    BY <2>1, <2>2
<1>3. LateRefund(b) => ClosedRow(res[b]) /\ pay[b].status \in Settled
  BY DEF LateInv, LateIsClosed
<1> QED
  BY <1>1, <1>2, <1>3, ClosedIsNotSwept DEF LateInv

\* The sweep alone.
LEMMA SweepingStep ==
    ASSUME LateInv, NEW b \in Bookings, Write(b, SweptRes[b], SweptPay[b]),
           RefundsStep(b, FALSE)
    PROVE  LateStep
<1>1. PICK F : SweptPay[b] \in DepositOf(F)
  BY FoundRows
<1>2. LateRefund(b) => ClosedRow(SweptRes[b]) /\ SweptPay[b].status \in Settled
  BY FoundRows
<1> QED
  BY <1>1, <1>2, HandlerStep

LEMMA SweptIsWritten ==
    ASSUME LateInv, NEW b \in Bookings, res' = SweptRes, pay' = SweptPay
    PROVE  Write(b, SweptRes[b], SweptPay[b])
<1>1. /\ SweptRes = [SweptRes EXCEPT ![b] = SweptRes[b]]
      /\ SweptPay = [SweptPay EXCEPT ![b] = SweptPay[b]]
  BY DEF SweptRes, SweptPay
<1> QED
  BY <1>1 DEF Write

LEMMA CreateStep ==
    ASSUME LateInv, NEW b \in Bookings, CreateBooking(b)
    PROVE  LateStep
<1>1. RefundsStep(b, FALSE)
  BY LeavingRefunds DEF CreateBooking, LateInv
<1>2. ~LateRefund(b)
  BY FoundRows DEF CreateBooking, ClosedRow
<1>3. [NoDeposit EXCEPT !.status = "created"] \in DepositOf({0})
  BY DEF NoDeposit, DepositOf, Deposits, Disputes
<1> QED
  BY <1>1, <1>2, <1>3, HandlerStep DEF CreateBooking

LEMMA SessionStep ==
    ASSUME LateInv, NEW b \in Bookings, BindPaymentSession(b) \/ ExpiredEvent(b)
    PROVE  LateStep
<1>1. RefundsStep(b, FALSE)
  BY LeavingRefunds DEF BindPaymentSession, ExpiredEvent, LateInv
<1>2. ~LateRefund(b)
  BY FoundRows DEF BindPaymentSession, ExpiredEvent, Settled
<1>3. PICK F : pay[b] \in DepositOf(F)
  BY FoundRows
<1>4. /\ [pay[b] EXCEPT !.bound = TRUE, !.status = "pending"] \in DepositOf(F)
      /\ [pay[b] EXCEPT !.bound = FALSE, !.status = "created"] \in DepositOf(F)
      /\ [pay[b] EXCEPT !.status = "expired"] \in DepositOf(F)
  BY <1>3 DEF DepositOf, Deposits
<1>5. \E row, deposit : deposit \in DepositOf(F) /\ Write(b, row, deposit)
  BY <1>4 DEF BindPaymentSession, ExpiredEvent
<1> QED
  BY <1>1, <1>2, <1>5, HandlerStep

LEMMA PaidStep ==
    ASSUME LateInv, NEW b \in Bookings, PaidEvent(b)
    PROVE  LateStep
<1>1. PICK F : SweptPay[b] \in DepositOf(F)
  BY FoundRows
<1>2. CASE PaidAgain(b)
  <2>1. RefundsStep(b, FALSE)
    BY <1>2, LeavingRefunds DEF PaidAgain, LateInv
  <2> QED
    BY <1>2, <2>1, SweepingStep DEF PaidAgain
<1>3. CASE Unpaid(b) /\ (PaidInTime(b) \/ PaidAfterwards(b) \/ PaidRestores(b))
  <2>1. \E row : Confirm(b, row)
    BY <1>3 DEF PaidInTime, PaidAfterwards, PaidRestores
  <2>2. RefundsStep(b, FALSE)
    BY <2>1, LeavingRefunds DEF Confirm, LateInv
  <2>3. ~LateRefund(b)
    BY <1>3, FoundRows DEF Unpaid, Settled
  <2>4. [SweptPay[b] EXCEPT !.status = "succeeded"] \in DepositOf(F)
    BY <1>1 DEF DepositOf, Deposits
  <2> QED
    BY <2>1, <2>2, <2>3, <2>4, HandlerStep DEF Confirm
<1>4. CASE PaidTooLate(b)
  <2> DEFINE row == [SweptRes[b] EXCEPT !.money = "refund_pending"]
             deposit == [SweptPay[b] EXCEPT !.status = "succeeded", !.refunded = Amount]
             refund == [status |-> "charging", amount |-> Amount, late |-> TRUE,
                        fee |-> PlatformFee, leased |-> TRUE]
  <2>1. refund \in RefundOf({Amount, PlatformFee}) /\ refund.late = TRUE
    BY DEF RefundOf, Refunds
  <2>2. Write(b, row, deposit) /\ AddRefund(b, refund)
    BY <1>4 DEF PaidTooLate, QueueLateRefund
  <2>3. deposit \in DepositOf(F \union {Amount}) /\ deposit.status = "succeeded"
    BY <1>1 DEF DepositOf, Deposits
  <2>4. ClosedRow(row)
    <3>1. row.status = SweptRes[b].status
      BY FoundRows DEF ReservationRow
    <3> QED
      BY <1>4, <3>1 DEF PaidTooLate, ClosedRow
  <2> HIDE DEF row, deposit, refund
  <2>5. RefundsStep(b, TRUE)
    BY <2>1, <2>2, AddingRefund DEF LateInv
  <2> QED
    BY <2>2, <2>3, <2>4, <2>5, HandlerStep DEF Settled
<1> QED
  BY <1>2, <1>3, <1>4 DEF PaidEvent

LEMMA QueueStep ==
    ASSUME LateInv, NEW b \in Bookings, NEW row, NEW amount,
           QueueRefundRequest(b, row, amount),
           LateRefund(b) => ClosedRow([row EXCEPT !.money = "refund_pending"])
    PROVE  LateStep
<1> DEFINE deposit == [SweptPay[b] EXCEPT !.refunded = @ + amount]
           refund == [status |-> "requested", amount |-> amount, late |-> FALSE,
                      fee |-> 0, leased |-> FALSE]
<1>1. refund \in RefundOf({amount, 0}) /\ refund.late = FALSE
  BY DEF RefundOf, Refunds
<1>2. PICK F : SweptPay[b] \in DepositOf(F)
  BY FoundRows
<1>3. /\ deposit \in DepositOf(F \union {SweptPay[b].refunded + amount})
      /\ deposit.status = SweptPay[b].status
  BY <1>2 DEF DepositOf
<1>4. /\ Write(b, [row EXCEPT !.money = "refund_pending"], deposit)
      /\ AddRefund(b, refund)
  BY DEF QueueRefundRequest
<1> HIDE DEF deposit, refund
<1>5. RefundsStep(b, FALSE)
  BY <1>1, <1>4, AddingRefund DEF LateInv
<1>6. LateRefund(b) => deposit.status \in Settled
  BY <1>3, FoundRows
<1> QED
  BY <1>3, <1>4, <1>5, <1>6, HandlerStep

\* A cancellation finds no booking whose late payment goes back.
LEMMA CancelStep ==
    ASSUME LateInv, NEW b \in Bookings, GuestCancel(b) \/ RestaurantCancel(b)
    PROVE  LateStep
<1>1. ~LateRefund(b)
  BY FoundRows DEF GuestCancel, RestaurantCancel, Cancellable, OperatorTransitions,
                   ClosedRow
<1>2. PICK keepsSome \in BOOLEAN : Cancel(b, keepsSome)
  BY DEF GuestCancel, RestaurantCancel
<1>3. CASE \E row, due : QueueRefundRequest(b, row, due)
  BY <1>1, <1>3, QueueStep
<1>4. CASE \E row, deposit : /\ deposit \in {SweptPay[b], ReleasedDeposit(SweptPay[b])}
                             /\ Write(b, row, deposit)
                             /\ UNCHANGED refunds
  <2>1. PICK F : SweptPay[b] \in DepositOf(F)
    BY FoundRows
  <2>2. ReleasedDeposit(SweptPay[b]) \in DepositOf(F)
    BY <2>1 DEF ReleasedDeposit, DepositOf, Deposits
  <2>3. RefundsStep(b, FALSE)
    BY <1>4, LeavingRefunds DEF LateInv
  <2> QED
    BY <1>1, <1>4, <2>1, <2>2, <2>3, HandlerStep
<1> QED
  BY <1>2, <1>3, <1>4 DEF Cancel

LEMMA TransitionStep ==
    ASSUME LateInv, NEW b \in Bookings, OperatorTransition(b)
    PROVE  LateStep
<1>1. PICK to \in OperatorTransitions(SweptRes[b].status) :
          Write(b, Changed(SweptRes[b], to), SweptPay[b])
  BY DEF OperatorTransition
<1>2. RefundsStep(b, FALSE)
  BY LeavingRefunds DEF OperatorTransition, LateInv
<1>3. PICK F : SweptPay[b] \in DepositOf(F)
  BY FoundRows
<1>4. ASSUME LateRefund(b)
      PROVE  ClosedRow(Changed(SweptRes[b], to)) /\ SweptPay[b].status \in Settled
  <2>1. ClosedRow(SweptRes[b])
    BY <1>4, FoundRows
  <2>2. to = "finished"
    BY <2>1 DEF OperatorTransitions, ClosedRow
  <2>3. Changed(SweptRes[b], to).status = "finished"
    BY <2>2, FoundRows, ChangedIsSound DEF Statuses
  <2> QED
    BY <1>4, <2>3, FoundRows DEF ClosedRow
<1> QED
  BY <1>1, <1>2, <1>3, <1>4, HandlerStep

\* An undo finds no late refund at a cancelled or no-show booking, and nothing
\* to undo at an expired one; a finished one comes back only to "seated".
LEMMA UndoStep ==
    ASSUME LateInv, NEW b \in Bookings, Undo(b)
    PROVE  LateStep
<1> DEFINE kept == res[b].table \/ (res[b].status \in Over /\ TableFree(SweptRes, b))
           row == [res[b] EXCEPT !.status = res[b].from, !.from = "none", !.table = kept]
<1>1. Write(b, row, SweptPay[b])
  BY DEF Undo
<1>2. RefundsStep(b, FALSE)
  BY LeavingRefunds DEF Undo, LateInv
<1>3. PICK F : SweptPay[b] \in DepositOf(F)
  BY FoundRows
<1>4. ASSUME LateRefund(b)
      PROVE  ClosedRow(row) /\ SweptPay[b].status \in Settled
  <2>1. res[b].status \notin {"cancelled", "no_show"}
    BY <1>4 DEF LateRefund, Undo
  <2>2. res[b].from = "seated"
    BY <1>4, <2>1, FoundRows DEF ClosedRow, SoundRow, Undo
  <2>3. row.status = "seated" /\ row.from = "none"
    BY <2>2, FoundRows DEF ReservationRow
  <2> QED
    BY <1>4, <2>3, FoundRows DEF ClosedRow
<1> HIDE DEF row
<1> QED
  BY <1>1, <1>2, <1>3, <1>4, HandlerStep

LEMMA OperatorRefundStep ==
    ASSUME LateInv, NEW b \in Bookings, RequestOperatorRefund(b)
    PROVE  LateStep
<1>1. PICK amount : QueueRefundRequest(b, SweptRes[b], amount)
  BY DEF RequestOperatorRefund
<1>2. LateRefund(b) => ClosedRow([SweptRes[b] EXCEPT !.money = "refund_pending"])
  BY FoundRows DEF ClosedRow, ReservationRow
<1> QED
  BY <1>1, <1>2, QueueStep

\* A handler that writes the money of a booking and no status.
LEMMA MoneyStep ==
    ASSUME LateInv, NEW b \in Bookings, NEW row, NEW T, NEW deposit \in DepositOf(T),
           row = SweptRes[b] \/ \E m \in Money : row = [SweptRes[b] EXCEPT !.money = m],
           Write(b, row, deposit), RefundsStep(b, FALSE),
           LateRefund(b) => deposit.status \in Settled
    PROVE  LateStep
<1>1. LateRefund(b) => ClosedRow(row)
  BY FoundRows DEF ClosedRow, ReservationRow
<1> QED
  BY <1>1, HandlerStep

LEMMA DisputeStep ==
    ASSUME LateInv, NEW b \in Bookings, RecordDispute(b)
    PROVE  LateStep
<1>1. PICK F : SweptPay[b] \in DepositOf(F)
  BY FoundRows
<1>2. PICK status, row :
          /\ status \in Disputes
          /\ \/ row = SweptRes[b]
             \/ \E m \in Money : row = [SweptRes[b] EXCEPT !.money = m]
          /\ Write(b, row, [SweptPay[b] EXCEPT !.dispute = status])
  BY DEF RecordDispute, Disputes, Money
<1>3. /\ [SweptPay[b] EXCEPT !.dispute = status] \in DepositOf(F)
      /\ [SweptPay[b] EXCEPT !.dispute = status].status = SweptPay[b].status
  BY <1>1, <1>2 DEF DepositOf
<1>4. RefundsStep(b, FALSE)
  BY LeavingRefunds DEF RecordDispute, LateInv
<1> QED
  BY <1>2, <1>3, <1>4, FoundRows, MoneyStep

LEMMA FoundRefund ==
    ASSUME LateInv, NEW b \in Bookings, NEW k \in DOMAIN refunds[b]
    PROVE  \E F : /\ refunds \in [Bookings -> Seq(RefundOf(F))]
                  /\ refunds[b][k] \in RefundOf(F)
<1>1. PICK F : refunds \in [Bookings -> Seq(RefundOf(F))]
  BY DEF LateInv, RefundShape
<1>2. refunds[b] \in Seq(RefundOf(F)) /\ DOMAIN refunds[b] = 1 .. Len(refunds[b])
  BY <1>1, LenProperties
<1>3. refunds[b][k] \in RefundOf(F)
  BY <1>2, ElementOfSeq
<1> QED
  BY <1>1, <1>3

\* Recording a result writes one row's status and lets its lease go.
LEMMA RecordedStep ==
    ASSUME LateInv, NEW b \in Bookings, NEW k \in DOMAIN refunds[b],
           NEW status \in Refunds, refunds[b][k].status /= "failed",
           RefundRecorded(b, k, status)
    PROVE  RefundsStep(b, FALSE)
<1> DEFINE row == [refunds[b][k] EXCEPT !.status = status, !.leased = FALSE]
<1>1. PICK F : /\ refunds \in [Bookings -> Seq(RefundOf(F))]
               /\ refunds[b][k] \in RefundOf(F)
  BY FoundRefund
<1>2. row \in RefundOf(F) /\ RowStep(refunds[b][k], row)
  BY <1>1 DEF RefundOf, RowStep
<1>3. refunds' = [refunds EXCEPT ![b] = [refunds[b] EXCEPT ![k] = row]]
  BY <1>1 DEF RefundRecorded
<1> HIDE DEF row
<1> QED
  BY <1>2, <1>3, EditingRefund DEF LateInv

LEMMA ResultStep ==
    ASSUME LateInv, NEW b \in Bookings, NEW k \in DOMAIN refunds[b],
           RecordRefundResult(b, k)
    PROVE  LateStep
<1>1. PICK F : SweptPay[b] \in DepositOf(F)
  BY FoundRows
<1>2. refunds[b][k].status /= "failed"
  BY DEF RecordRefundResult, Closed
<1>3. CASE RefundPending(b, k)
  <2>1. RefundsStep(b, FALSE)
    BY <1>2, <1>3, RecordedStep DEF RefundPending, Refunds
  <2>2. \E m \in Money :
            Write(b, [SweptRes[b] EXCEPT !.money = m], SweptPay[b])
    BY <1>3 DEF RefundPending, Money
  <2> QED
    BY <1>1, <2>1, <2>2, FoundRows, MoneyStep
<1>4. CASE RefundFailed(b, k)
  <2>1. RefundsStep(b, FALSE)
    BY <1>2, <1>4, RecordedStep DEF RefundFailed, Refunds
  <2>2. PICK left : Write(b, [SweptRes[b] EXCEPT !.money = "review"],
                          [SweptPay[b] EXCEPT !.status = "review", !.refunded = left])
    BY <1>4 DEF RefundFailed
  <2> DEFINE deposit == [SweptPay[b] EXCEPT !.status = "review", !.refunded = left]
  <2>3. deposit \in DepositOf(F \union {left}) /\ deposit.status \in Settled
    BY <1>1 DEF DepositOf, Deposits, Settled
  <2>4. \E m \in Money : Write(b, [SweptRes[b] EXCEPT !.money = m], deposit)
    BY <2>2 DEF Money
  <2> HIDE DEF deposit
  <2> QED
    BY <2>1, <2>3, <2>4, MoneyStep
<1>5. CASE RefundSucceeded(b, k)
  <2>1. RefundsStep(b, FALSE)
    BY <1>2, <1>5, RecordedStep DEF RefundSucceeded, Refunds
  <2>2. PICK m \in Money, back \in {"refunded", "partially_refunded"} :
            Write(b, [SweptRes[b] EXCEPT !.money = m],
                     [SweptPay[b] EXCEPT !.status = back])
    BY <1>5 DEF RefundSucceeded, Money
  <2>3. /\ [SweptPay[b] EXCEPT !.status = back] \in DepositOf(F)
        /\ [SweptPay[b] EXCEPT !.status = back].status \in Settled
    BY <1>1 DEF DepositOf, Deposits, Settled
  <2> QED
    BY <2>1, <2>2, <2>3, MoneyStep
<1> QED
  BY <1>3, <1>4, <1>5 DEF RecordRefundResult

LEMMA ClaimStep ==
    ASSUME LateInv, NEW b \in Bookings, NEW k \in DOMAIN refunds[b], ClaimRefund(b, k)
    PROVE  LateStep
<1> DEFINE old == refunds[b][k]
           fee == IF old.status = "requested" THEN FeeReversal(refunds[b], k) ELSE old.fee
           row == [old EXCEPT !.status = "charging", !.leased = TRUE, !.fee = fee]
<1>1. PICK F : refunds \in [Bookings -> Seq(RefundOf(F))] /\ old \in RefundOf(F)
  BY FoundRefund
<1>2. old.status /= "failed"
  BY DEF ClaimRefund
<1>3. refunds' = [refunds EXCEPT ![b] = [refunds[b] EXCEPT ![k] = row]]
  BY <1>1 DEF ClaimRefund
<1>4. fee = old.fee \/ old.status = "requested"
  OBVIOUS
<1> HIDE DEF fee
<1>5. row \in RefundOf(F \union {fee}) /\ RowStep(old, row)
  BY <1>1, <1>2, <1>4 DEF RefundOf, Refunds, RowStep
<1> HIDE DEF row
<1>6. RefundsStep(b, FALSE)
  BY <1>3, <1>5, EditingRefund DEF LateInv
<1>7. Write(b, SweptRes[b], SweptPay[b])
  BY SweptIsWritten DEF ClaimRefund
<1> QED
  BY <1>6, <1>7, SweepingStep

\* Steps that leave bookings and deposits alone.
LEMMA OutsideStep ==
    ASSUME LateInv, NEW b, res' = res, pay' = pay, RefundsStep(b, FALSE)
    PROVE  LateStep
<1>1. \A x \in Bookings : LateRefund(x)' => LateRefund(x)
  BY LateRefundsStay DEF RefundsStep
<1>2. LateIsClosed'
  BY <1>1 DEF LateInv, LateIsClosed, ClosedRow
<1> QED
  BY <1>2 DEF LateStep, LateInv, RefundsStep, PayShape

LEMMA LeaseStep ==
    ASSUME LateInv, NEW b \in Bookings, NEW k \in DOMAIN refunds[b], EndLease(b, k)
    PROVE  LateStep
<1> DEFINE row == [refunds[b][k] EXCEPT !.leased = FALSE]
<1>1. PICK F : /\ refunds \in [Bookings -> Seq(RefundOf(F))]
               /\ refunds[b][k] \in RefundOf(F)
  BY FoundRefund
<1>2. row \in RefundOf(F) /\ RowStep(refunds[b][k], row)
  BY <1>1 DEF RefundOf, RowStep
<1>3. refunds' = [refunds EXCEPT ![b] = [refunds[b] EXCEPT ![k] = row]]
  BY <1>1 DEF EndLease
<1> HIDE DEF row
<1>4. RefundsStep(b, FALSE)
  BY <1>2, <1>3, EditingRefund DEF LateInv
<1> QED
  BY <1>4, OutsideStep DEF EndLease

-----------------------------------------------------------------------------
\* The invariant and what follows from it

LEMMA NextStep ==
    ASSUME LateInv, [PaymentsNext]_paymentVars
    PROVE  LateStep
<1>1. CASE SweepExpired
  <2>1. PICK b \in Bookings : Overdue(b)
    BY <1>1 DEF SweepExpired
  <2>2. Write(b, SweptRes[b], SweptPay[b])
    BY <1>1, SweptIsWritten DEF SweepExpired
  <2>3. RefundsStep(b, FALSE)
    BY <1>1, LeavingRefunds DEF SweepExpired, LateInv
  <2> QED
    BY <2>2, <2>3, SweepingStep
<1>2. CASE \/ PassTime
           \/ UNCHANGED paymentVars
           \/ \E b \in Bookings : \/ EndWindow(b)
                                \/ EndPage(b, "captured")
                                \/ EndPage(b, "shut")
           \/ \E b \in Bookings : \E k \in DOMAIN refunds[b] :
                  SendRefund(b, k) \/ SettleRefund(b, k) \/ LoseClaim(b, k)
  <2>1. UNCHANGED <<res, pay, refunds>>
    BY <1>2 DEF PassTime, paymentVars, EndWindow, EndPage, SendRefund,
                SettleRefund, LoseClaim
  <2>2. RefundsStep(NoReservation, FALSE)
    BY <2>1, LeavingRefunds DEF LateInv
  <2> QED
    BY <2>1, <2>2, OutsideStep
<1>3. ASSUME NEW b \in Bookings, OnBooking(b),
             ~(EndWindow(b) \/ EndPage(b, "captured") \/ EndPage(b, "shut"))
      PROVE  LateStep
  BY <1>3, CreateStep, SessionStep, PaidStep, CancelStep, TransitionStep,
     UndoStep, OperatorRefundStep, DisputeStep DEF OnBooking
<1>4. ASSUME NEW b \in Bookings, NEW k \in DOMAIN refunds[b], OnRefund(b, k),
             ~(SendRefund(b, k) \/ SettleRefund(b, k) \/ LoseClaim(b, k))
      PROVE  LateStep
  BY <1>4, ClaimStep, ResultStep, LeaseStep DEF OnRefund
<1> QED
  BY <1>1, <1>2, <1>3, <1>4 DEF PaymentsNext

LEMMA LateInvHolds == PaymentsSpec => []LateInv
<1>1. PaymentsInit => LateInv
  <2> SUFFICES ASSUME PaymentsInit PROVE LateInv
    OBVIOUS
  <2>1. SoundTable(res)
    BY DEF PaymentsInit, SoundTable, SoundRow, NoReservation, ReservationRow,
           Statuses, Money, Kept
  <2>2. pay \in [Bookings -> DepositOf({0})]
    BY DEF PaymentsInit, NoDeposit, DepositOf, Deposits, Disputes
  <2>3. refunds \in [Bookings -> Seq(RefundOf({0}))]
    BY EmptySeq DEF PaymentsInit
  <2>4. LateIsClosed
    BY DEF PaymentsInit, LateIsClosed, LateRefund, Live
  <2> QED
    BY <2>1, <2>2, <2>3, <2>4 DEF LateInv, PayShape, RefundShape
<1>2. LateInv /\ [PaymentsNext]_paymentVars => LateInv'
  <2> SUFFICES ASSUME LateInv, [PaymentsNext]_paymentVars PROVE LateInv'
    OBVIOUS
  <2>1. LateStep
    BY NextStep
  <2>2. SoundTable(res')
    BY NextKeepsTable DEF LateInv
  <2> QED
    BY <2>1, <2>2 DEF LateInv, LateStep, SoundTable, SoundRow
<1> QED
  BY <1>1, <1>2, PTL DEF PaymentsSpec

\* A booking whose payment came too late and goes back is never open again, by
\* whatever way it was closed and whoever undoes or pays what.
THEOREM LatePaymentOpensNothing == PaymentsSpec => []LateRefundMeansNoBooking
<1>1. LateInv => LateRefundMeansNoBooking
  BY DEF LateInv, LateIsClosed, LateRefund, ClosedRow, LateRefundMeansNoBooking
<1> QED
  BY <1>1, LateInvHolds, PTL

\* A claim taken over sends the fee reversal the first one decided: no step
\* writes the fee of a refund that is no longer just requested.
THEOREM FeeIsDecidedOnce == PaymentsSpec => FeeDecidedOnce
<1> DEFINE Once == \A b \in Bookings : \A k \in DOMAIN refunds[b] :
                       refunds[b][k].status /= "requested"
                           => refunds'[b][k].fee = refunds[b][k].fee
<1>1. LateInv /\ [PaymentsNext]_paymentVars => Once
  BY NextStep DEF LateStep, OldRowsStep, RowStep
<1> QED
  BY <1>1, LateInvHolds, PTL DEF PaymentsSpec, FeeDecidedOnce

-----------------------------------------------------------------------------
\* The money of a deposit, for every amount, fee and number of refunds: what is
\* reserved, what the provider has returned, and whose the fee is.

\* The invariant, part by part.  rs, an, p, r and pg stand for one booking's
\* refunds, answers, deposit, reservation and page.

Counting(rs) == {k \in DOMAIN rs : rs[k].status \in Counted}

RefundsTyped(rs, an) ==
    /\ rs \in Seq(RefundRow)
    /\ an \in [DOMAIN rs -> SUBSET Answers]

\* A result is recorded as it was heard, only of a refund that was claimed,
\* and the provider decides once.
HeardOf(status, said) ==
    /\ status = "requested" => said = {}
    /\ status = "failed"    => "failed" \in said
    /\ status = "succeeded" => "succeeded" \in said
    /\ ~ ("failed" \in said /\ "succeeded" \in said)
Heard(rs, an) == \A k \in DOMAIN rs : HeardOf(rs[k].status, an[k])

\* The fees decided so far never pass the fee, and once the refunds that count
\* reach the deposit they make up all of it.
FeesFit(rs) ==
    /\ FeeOf(rs, Counting(rs)) <= PlatformFee
    /\ AmountOf(rs, Counting(rs)) = Amount
           => FeeOf(rs, Counting(rs)) = PlatformFee

\* The refunds of a deposit of which n is reserved.
RefundsSound(rs, an, n) ==
    /\ RefundsTyped(rs, an)
    /\ n \in 0 .. Amount
    /\ n = AmountOf(rs, Live(rs))
    /\ Heard(rs, an)
    /\ FeesFit(rs)

\* Where the deposit, its page and its reservation stand together.
FlowSound(r, p, rs, pg) ==
    /\ p \in DepositRow
    /\ pg \in Pages
    /\ rs /= <<>> => p.status \in Settled
    /\ pg = "none" => p.status \in {"none", "created", "expired"}
    /\ pg \in {"open", "shut", "captured"} => p.status \in {"pending", "expired"}
    /\ pg = "settled" => p.status \in Settled
    /\ pg = "settled" => r.status \notin {"none", "pending_payment"}
    /\ r.status = "none" => p.status = "none"
    /\ p.status = "refunded" => AmountOf(rs, Done(rs)) = Amount
    /\ r.money = "refunded" => p.status = "refunded"
    /\ pg = "settled" /\ r.status = "expired" => \E k \in DOMAIN rs : rs[k].late

DepositSound(r, p, rs, an, pg) ==
    RefundsSound(rs, an, p.refunded) /\ FlowSound(r, p, rs, pg)

\* What a worker has in hand was claimed, and nobody has heard of it yet.
HandSound ==
    \A h \in hand : /\ h \in Bookings \X Nat
                    /\ h[2] \in DOMAIN refunds[h[1]]
                    /\ refunds[h[1]][h[2]].status = "charging"
                    /\ answers[h[1]][h[2]] = {}

RowsPerBooking ==
    /\ clock \in Hours
    /\ window \in [Bookings -> BOOLEAN]
    /\ DOMAIN pay = Bookings
    /\ DOMAIN refunds = Bookings
    /\ DOMAIN answers = Bookings
    /\ DOMAIN page = Bookings

MoneyInv ==
    /\ RowsPerBooking
    /\ \A b \in Bookings :
           DepositSound(res[b], pay[b], refunds[b], answers[b], page[b])
    /\ HandSound

RefundInv == SoundTable(res) /\ MoneyInv

-----------------------------------------------------------------------------
\* Sums over a deposit's refunds

LEMMA RowsAre ==
    ASSUME NEW rs \in Seq(RefundRow)
    PROVE  /\ IsFiniteSet(DOMAIN rs)
           /\ DOMAIN rs \subseteq Nat
           /\ \A k \in DOMAIN rs : rs[k] \in RefundRow
           /\ [k \in DOMAIN rs |-> rs[k].amount] \in [DOMAIN rs -> 0 .. Amount]
           /\ [k \in DOMAIN rs |-> rs[k].fee] \in [DOMAIN rs -> 0 .. PlatformFee]
<1>1. DOMAIN rs = 1 .. Len(rs) /\ Len(rs) \in Nat
  BY LenProperties
<1>2. \A k \in DOMAIN rs : rs[k] \in RefundRow
  BY <1>1, ElementOfSeq
<1>3. IsFiniteSet(DOMAIN rs)
  BY <1>1, FS_Interval
<1> QED
  BY <1>1, <1>2, <1>3, PaymentsAssumption DEF RefundRow

\* Amounts and fees are sums of natural numbers.
LEMMA MoneyOf ==
    ASSUME NEW rs \in Seq(RefundRow), NEW S \in SUBSET DOMAIN rs
    PROVE  /\ AmountOf(rs, S) \in Nat
           /\ FeeOf(rs, S) \in Nat
           /\ \A T \in SUBSET S : /\ AmountOf(rs, T) <= AmountOf(rs, S)
                                  /\ FeeOf(rs, T) <= FeeOf(rs, S)
           /\ \A k \in DOMAIN rs \ S :
                  /\ AmountOf(rs, S \union {k}) = AmountOf(rs, S) + rs[k].amount
                  /\ FeeOf(rs, S \union {k}) = FeeOf(rs, S) + rs[k].fee
           /\ \A k \in S :
                  /\ AmountOf(rs, S \ {k}) = AmountOf(rs, S) - rs[k].amount
                  /\ FeeOf(rs, S \ {k}) = FeeOf(rs, S) - rs[k].fee
<1> DEFINE D == DOMAIN rs
           amounts == [k \in D |-> rs[k].amount]
           fees == [k \in D |-> rs[k].fee]
<1>1. /\ IsFiniteSet(D)
      /\ amounts \in [D -> Nat]
      /\ fees \in [D -> Nat]
  BY RowsAre, PaymentsAssumption
<1>3. /\ \A T : AmountOf(rs, T) = Sum(T, amounts)
      /\ \A T : FeeOf(rs, T) = Sum(T, fees)
  BY DEF AmountOf, FeeOf
<1>4. \A k \in D : amounts[k] = rs[k].amount /\ fees[k] = rs[k].fee
  OBVIOUS
<1>5. S \in SUBSET D
  OBVIOUS
<1> HIDE DEF D, amounts, fees
<1>6. Sum(S, amounts) \in Nat /\ Sum(S, fees) \in Nat
  BY <1>1, <1>5, SumType, Zenon
<1>7. \A T \in SUBSET S : /\ Sum(T, amounts) <= Sum(S, amounts)
                          /\ Sum(T, fees) <= Sum(S, fees)
  BY <1>1, <1>5, SumMono, Zenon
<1>8. \A k \in D \ S : /\ Sum(S \union {k}, amounts) = Sum(S, amounts) + amounts[k]
                       /\ Sum(S \union {k}, fees) = Sum(S, fees) + fees[k]
  <2> TAKE k \in D \ S
  <2> DEFINE T == S \union {k}
  <2>1. T \in SUBSET D /\ k \in T /\ T \ {k} = S
    BY <1>5
  <2>2. amounts[k] \in Nat /\ fees[k] \in Nat
    BY <1>1
  <2> HIDE DEF T
  <2>3. /\ Sum(S, amounts) = Sum(T, amounts) - amounts[k]
        /\ Sum(S, fees) = Sum(T, fees) - fees[k]
    <3>1. Sum(T \ {k}, amounts) = Sum(T, amounts) - amounts[k]
      BY <1>1, <2>1, SumRemove, ZenonT(60)
    <3>2. Sum(T \ {k}, fees) = Sum(T, fees) - fees[k]
      BY <1>1, <2>1, SumRemove, ZenonT(60)
    <3> QED
      BY <2>1, <3>1, <3>2, Zenon
  <2>4. Sum(T, amounts) \in Nat /\ Sum(T, fees) \in Nat
    BY <1>1, <2>1, SumType, Zenon
  <2>5. Sum(T, amounts) = Sum(S, amounts) + amounts[k]
    BY <2>2, <2>3, <2>4
  <2>6. Sum(T, fees) = Sum(S, fees) + fees[k]
    BY <2>2, <2>3, <2>4
  <2> QED
    BY <2>5, <2>6 DEF T
<1>9. \A k \in S : /\ Sum(S \ {k}, amounts) = Sum(S, amounts) - amounts[k]
                   /\ Sum(S \ {k}, fees) = Sum(S, fees) - fees[k]
  BY <1>1, <1>5, SumRemove, Zenon
<1>10. \A k \in D \ S :
          /\ AmountOf(rs, S \union {k}) = AmountOf(rs, S) + rs[k].amount
          /\ FeeOf(rs, S \union {k}) = FeeOf(rs, S) + rs[k].fee
  BY <1>3, <1>4, <1>8
<1>11. \A k \in S :
          /\ AmountOf(rs, S \ {k}) = AmountOf(rs, S) - rs[k].amount
          /\ FeeOf(rs, S \ {k}) = FeeOf(rs, S) - rs[k].fee
  BY <1>3, <1>4, <1>5, <1>9
<1> QED
  BY <1>3, <1>6, <1>7, <1>10, <1>11, Zenon DEF D

LEMMA NoMoney ==
    ASSUME NEW rs
    PROVE  AmountOf(rs, {}) = 0 /\ FeeOf(rs, {}) = 0
  BY SumEmpty DEF AmountOf, FeeOf

\* Sums over rows that agree.
LEMMA SameMoney ==
    ASSUME NEW rs, NEW es, NEW S \in SUBSET DOMAIN rs, S \subseteq DOMAIN es
    PROVE  /\ (\A j \in S : es[j].amount = rs[j].amount)
                  => AmountOf(es, S) = AmountOf(rs, S)
           /\ (\A j \in S : es[j].fee = rs[j].fee)
                  => FeeOf(es, S) = FeeOf(rs, S)
<1>1. ASSUME \A j \in S : es[j].amount = rs[j].amount
      PROVE  AmountOf(es, S) = AmountOf(rs, S)
  <2> DEFINE f == [k \in DOMAIN es |-> es[k].amount]
             g == [k \in DOMAIN rs |-> rs[k].amount]
  <2>1. \A x \in S : f[x] = g[x]
    BY <1>1
  <2> HIDE DEF f, g
  <2>2. Sum(S, f) = Sum(S, g)
    BY <2>1, SumSame
  <2> QED
    BY <2>2 DEF AmountOf, f, g
<1>2. ASSUME \A j \in S : es[j].fee = rs[j].fee
      PROVE  FeeOf(es, S) = FeeOf(rs, S)
  <2> DEFINE f == [k \in DOMAIN es |-> es[k].fee]
             g == [k \in DOMAIN rs |-> rs[k].fee]
  <2>1. \A x \in S : f[x] = g[x]
    BY <1>2
  <2> HIDE DEF f, g
  <2>2. Sum(S, f) = Sum(S, g)
    BY <2>1, SumSame
  <2> QED
    BY <2>2 DEF FeeOf, f, g
<1> QED
  BY <1>1, <1>2

\* A row that is written again keeps its amount, so every sum of amounts is
\* what it was.
LEMMA EditedRows ==
    ASSUME NEW rs \in Seq(RefundRow), NEW k \in DOMAIN rs, NEW row \in RefundRow,
           row.amount = rs[k].amount, NEW es, es = [rs EXCEPT ![k] = row]
    PROVE  /\ es \in Seq(RefundRow)
           /\ DOMAIN es = DOMAIN rs
           /\ \A j \in DOMAIN rs : es[j] = IF j = k THEN row ELSE rs[j]
           /\ \A S \in SUBSET DOMAIN rs :
                  /\ AmountOf(es, S) = AmountOf(rs, S)
                  /\ k \notin S \/ row.fee = rs[k].fee => FeeOf(es, S) = FeeOf(rs, S)
<1>1. DOMAIN rs = 1 .. Len(rs)
  BY LenProperties
<1>2. es \in Seq(RefundRow)
  BY <1>1, ExceptSeq
<1>3. DOMAIN es = DOMAIN rs
  OBVIOUS
<1>4. \A j \in DOMAIN rs : es[j] = IF j = k THEN row ELSE rs[j]
  OBVIOUS
<1>5. \A j \in DOMAIN rs : es[j].amount = rs[j].amount
  BY <1>4
<1>6. ASSUME NEW S \in SUBSET DOMAIN rs
      PROVE  /\ AmountOf(es, S) = AmountOf(rs, S)
             /\ k \notin S \/ row.fee = rs[k].fee => FeeOf(es, S) = FeeOf(rs, S)
  <2>1. S \in SUBSET DOMAIN rs /\ S \subseteq DOMAIN es
    BY <1>3
  <2>2. \A j \in S : es[j].amount = rs[j].amount
    BY <1>5
  <2>3. AmountOf(es, S) = AmountOf(rs, S)
    BY <2>1, <2>2, SameMoney
  <2>4. ASSUME k \notin S \/ row.fee = rs[k].fee
        PROVE  FeeOf(es, S) = FeeOf(rs, S)
    <3>1. \A j \in S : es[j].fee = rs[j].fee
      BY <1>4, <2>4
    <3> QED
      BY <2>1, <3>1, SameMoney
  <2> QED
    BY <2>3, <2>4
<1> QED
  BY <1>2, <1>3, <1>4, <1>6

\* A row that is added leaves the others what they were.
LEMMA AddedRow ==
    ASSUME NEW rs \in Seq(RefundRow), NEW row \in RefundRow
    PROVE  /\ Append(rs, row) \in Seq(RefundRow)
           /\ Len(Append(rs, row)) = Len(rs) + 1
           /\ Len(rs) + 1 \notin DOMAIN rs
           /\ Len(rs) + 1 \in Nat
           /\ DOMAIN Append(rs, row) = DOMAIN rs \union {Len(rs) + 1}
           /\ Append(rs, row)[Len(rs) + 1] = row
           /\ \A j \in DOMAIN rs : Append(rs, row)[j] = rs[j]
<1>1. DOMAIN rs = 1 .. Len(rs) /\ Len(rs) \in Nat
  BY LenProperties
<1> DEFINE es == Append(rs, row)
<1>2. /\ es \in Seq(RefundRow)
      /\ Len(es) = Len(rs) + 1
      /\ \A j \in 1 .. Len(rs) : es[j] = rs[j]
      /\ es[Len(rs) + 1] = row
  BY AppendProperties
<1>3. DOMAIN es = 1 .. Len(es)
  BY <1>2, LenProperties
<1> HIDE DEF es
<1>4. DOMAIN es = DOMAIN rs \union {Len(rs) + 1}
  BY <1>1, <1>2, <1>3
<1> QED
  BY <1>1, <1>2, <1>4 DEF es

-----------------------------------------------------------------------------
\* What a step does to one deposit's refunds

\* A row written again that counts, lives and costs what it did.
LEMMA EditKeepsSound ==
    ASSUME NEW rs, NEW an, NEW n, RefundsSound(rs, an, n),
           NEW k \in DOMAIN rs, NEW row \in RefundRow,
           row.amount = rs[k].amount, row.fee = rs[k].fee,
           row.status = "failed" <=> rs[k].status = "failed",
           row.status \in Counted <=> rs[k].status \in Counted,
           HeardOf(row.status, an[k])
    PROVE  RefundsSound([rs EXCEPT ![k] = row], an, n)
<1> DEFINE es == [rs EXCEPT ![k] = row]
<1>1. rs \in Seq(RefundRow) /\ an \in [DOMAIN rs -> SUBSET Answers]
  BY DEF RefundsSound, RefundsTyped
<1>2. /\ es \in Seq(RefundRow)
      /\ DOMAIN es = DOMAIN rs
      /\ \A j \in DOMAIN rs : es[j] = IF j = k THEN row ELSE rs[j]
      /\ \A S \in SUBSET DOMAIN rs : /\ AmountOf(es, S) = AmountOf(rs, S)
                                     /\ FeeOf(es, S) = FeeOf(rs, S)
  BY <1>1, EditedRows
<1> HIDE DEF es
<1>3. Live(es) = Live(rs) /\ Live(rs) \in SUBSET DOMAIN rs
  BY <1>2 DEF Live
<1>4. Counting(es) = Counting(rs) /\ Counting(rs) \in SUBSET DOMAIN rs
  BY <1>2 DEF Counting
<1>5. n = AmountOf(es, Live(es)) /\ n \in 0 .. Amount
  BY <1>2, <1>3 DEF RefundsSound
<1>6. FeesFit(es)
  BY <1>2, <1>4 DEF RefundsSound, FeesFit
<1>7. Heard(es, an)
  BY <1>2 DEF RefundsSound, Heard
<1> QED
  BY <1>1, <1>2, <1>5, <1>6, <1>7 DEF RefundsSound, RefundsTyped, es

\* A refund that fails no longer lives or counts: what it reserved is free
\* again, and whatever fee it was to give back is open again.
LEMMA FailKeepsSound ==
    ASSUME NEW rs, NEW an, NEW n, RefundsSound(rs, an, n),
           NEW k \in DOMAIN rs, NEW row \in RefundRow,
           row.amount = rs[k].amount, row.fee = rs[k].fee,
           row.status = "failed", rs[k].status \in Counted,
           HeardOf("failed", an[k])
    PROVE  /\ RefundsSound([rs EXCEPT ![k] = row], an, n - rs[k].amount)
           /\ n - rs[k].amount >= 0
<1> DEFINE es == [rs EXCEPT ![k] = row]
<1>1. rs \in Seq(RefundRow) /\ an \in [DOMAIN rs -> SUBSET Answers]
  BY DEF RefundsSound, RefundsTyped
<1>2. /\ es \in Seq(RefundRow)
      /\ DOMAIN es = DOMAIN rs
      /\ \A j \in DOMAIN rs : es[j] = IF j = k THEN row ELSE rs[j]
      /\ \A S \in SUBSET DOMAIN rs : /\ AmountOf(es, S) = AmountOf(rs, S)
                                     /\ FeeOf(es, S) = FeeOf(rs, S)
  BY <1>1, EditedRows
<1> HIDE DEF es
<1>3. rs[k] \in RefundRow /\ rs[k].amount \in 1 .. Amount /\ rs[k].fee \in 0 .. PlatformFee
  BY <1>1, RowsAre DEF RefundRow
<1>4. /\ Live(es) = Live(rs) \ {k}
      /\ Live(rs) \in SUBSET DOMAIN rs
      /\ k \in Live(rs)
      /\ Counting(es) = Counting(rs) \ {k}
      /\ Counting(rs) \in SUBSET Live(rs)
      /\ k \in Counting(rs)
  BY <1>2 DEF Live, Counting, Counted
<1>5. /\ AmountOf(es, Live(es)) = AmountOf(rs, Live(rs)) - rs[k].amount
      /\ AmountOf(es, Counting(es)) = AmountOf(rs, Counting(rs)) - rs[k].amount
      /\ FeeOf(es, Counting(es)) = FeeOf(rs, Counting(rs)) - rs[k].fee
  <2>1. /\ AmountOf(es, Live(es)) = AmountOf(rs, Live(rs) \ {k})
        /\ AmountOf(es, Counting(es)) = AmountOf(rs, Counting(rs) \ {k})
        /\ FeeOf(es, Counting(es)) = FeeOf(rs, Counting(rs) \ {k})
    BY <1>2, <1>4
  <2>2. /\ AmountOf(rs, Live(rs) \ {k}) = AmountOf(rs, Live(rs)) - rs[k].amount
        /\ AmountOf(rs, Counting(rs) \ {k}) = AmountOf(rs, Counting(rs)) - rs[k].amount
        /\ FeeOf(rs, Counting(rs) \ {k}) = FeeOf(rs, Counting(rs)) - rs[k].fee
    BY <1>1, <1>4, MoneyOf
  <2> QED
    BY <2>1, <2>2
<1>6. /\ AmountOf(rs, Live(rs)) = n /\ n \in 0 .. Amount
      /\ AmountOf(rs, Counting(rs)) \in Nat
      /\ AmountOf(rs, Counting(rs)) <= n
      /\ FeeOf(rs, Counting(rs)) \in Nat
      /\ FeeOf(rs, Counting(rs)) <= PlatformFee
      /\ AmountOf(es, Live(es)) \in Nat
  BY <1>1, <1>2, <1>4, MoneyOf DEF RefundsSound, FeesFit
<1>7. Amount \in Nat /\ PlatformFee \in Nat
  BY PaymentsAssumption
<1>8. n - rs[k].amount \in 0 .. Amount /\ n - rs[k].amount = AmountOf(es, Live(es))
  BY <1>3, <1>5, <1>6, <1>7
<1>9. FeesFit(es)
  BY <1>3, <1>5, <1>6, <1>7 DEF FeesFit
<1>10. Heard(es, an)
  BY <1>2 DEF RefundsSound, Heard
<1> QED
  BY <1>1, <1>2, <1>7, <1>8, <1>9, <1>10 DEF RefundsSound, RefundsTyped, es

\* A division by a positive number, from below and from above.
LEMMA DivisionBounds ==
    ASSUME NEW x \in Nat, NEW d \in Nat \ {0}, NEW q \in Nat, x < d * (q + 1)
    PROVE  x \div d \in 0 .. q
<1>1. x \div d \in Int /\ d * (x \div d) <= x /\ x \div d >= 0
  OBVIOUS
<1>2. d * (x \div d) < d * (q + 1)
  BY <1>1
<1>3. x \div d < q + 1
  BY <1>1, <1>2
<1> QED
  BY <1>1, <1>3

\* The share of the fee that belongs to a part of the deposit is never more
\* than the fee.
LEMMA FeeShare ==
    ASSUME NEW after \in Nat, after < Amount
    PROVE  (2 * PlatformFee * after + Amount) \div (2 * Amount) \in 0 .. PlatformFee
<1>1. Amount \in Nat \ {0} /\ PlatformFee \in Nat
  BY PaymentsAssumption
<1>2. PlatformFee * after \in Nat /\ PlatformFee * Amount \in Nat
  BY <1>1
<1>3. PlatformFee * after <= PlatformFee * Amount
  BY <1>1
<1> DEFINE x == 2 * PlatformFee * after + Amount
<1>4. x \in Nat /\ x = 2 * (PlatformFee * after) + Amount
  BY <1>1, <1>2
<1>5. (2 * Amount) * (PlatformFee + 1) = 2 * (PlatformFee * Amount) + 2 * Amount
  BY <1>1
<1> HIDE DEF x
<1>6. x < (2 * Amount) * (PlatformFee + 1)
  BY <1>1, <1>2, <1>3, <1>4, <1>5
<1>7. 2 * Amount \in Nat \ {0}
  BY <1>1
<1> QED
  BY <1>1, <1>4, <1>6, <1>7, DivisionBounds DEF x

\* What a first claim decides to give back of the fee, beside what the refunds
\* that count already give back.
LEMMA ClaimedFee ==
    ASSUME NEW rs, NEW an, NEW n, RefundsSound(rs, an, n),
           NEW k \in DOMAIN rs, rs[k].status = "requested"
    PROVE  LET C     == Counting(rs)
               after == AmountOf(rs, C) + rs[k].amount
               fee   == FeeReversal(rs, k)
           IN  /\ fee \in 0 .. PlatformFee
               /\ FeeOf(rs, C) + fee <= PlatformFee
               /\ after = Amount => FeeOf(rs, C) + fee = PlatformFee
<1> DEFINE C == Counting(rs)
           after == AmountOf(rs, C) + rs[k].amount
           share == (2 * PlatformFee * after + Amount) \div (2 * Amount)
           target == IF after >= Amount THEN PlatformFee ELSE share
           owed == target - FeeOf(rs, C)
<1>1. rs \in Seq(RefundRow)
  BY DEF RefundsSound, RefundsTyped
<1>2. rs[k].amount \in 1 .. Amount
  BY <1>1, RowsAre DEF RefundRow
<1>3. Amount \in Nat \ {0} /\ PlatformFee \in Nat
  BY PaymentsAssumption
<1>4. C \in SUBSET DOMAIN rs /\ k \notin C
  BY DEF Counting, Counted
<1>5. AmountOf(rs, C) \in Nat /\ FeeOf(rs, C) \in Nat
  BY <1>1, <1>4, MoneyOf
<1>6. after \in Nat
  BY <1>2, <1>3, <1>5
<1>7. target \in 0 .. PlatformFee /\ (after >= Amount => target = PlatformFee)
  <2> HIDE DEF after
  <2>1. after < Amount => share \in 0 .. PlatformFee
    BY <1>6, FeeShare
  <2> HIDE DEF share
  <2> QED
    BY <1>3, <1>6, <2>1
<1>8. FeeReversal(rs, k) = IF owed > 0 THEN owed ELSE 0
  <2>1. {j \in DOMAIN rs : rs[j].status \in Counted} \ {k} = C
    BY <1>4 DEF Counting
  <2> QED
    BY <2>1 DEF FeeReversal
<1>9. FeeOf(rs, C) <= PlatformFee
  BY DEF RefundsSound, FeesFit
<1> HIDE DEF C, after, share, target
<1> QED
  BY <1>3, <1>5, <1>6, <1>7, <1>8, <1>9 DEF C, after

\* A first claim: the refund counts from now on, with the fee it decides.
LEMMA ClaimKeepsSound ==
    ASSUME NEW rs, NEW an, NEW n, RefundsSound(rs, an, n),
           NEW k \in DOMAIN rs, rs[k].status = "requested",
           NEW row \in RefundRow, row.status = "charging",
           row.amount = rs[k].amount, row.fee = FeeReversal(rs, k)
    PROVE  RefundsSound([rs EXCEPT ![k] = row], an, n)
<1> DEFINE es == [rs EXCEPT ![k] = row]
           C == Counting(rs)
           after == AmountOf(rs, C) + rs[k].amount
           fee == FeeReversal(rs, k)
<1>1. rs \in Seq(RefundRow) /\ an \in [DOMAIN rs -> SUBSET Answers]
  BY DEF RefundsSound, RefundsTyped
<1>2. /\ es \in Seq(RefundRow)
      /\ DOMAIN es = DOMAIN rs
      /\ \A j \in DOMAIN rs : es[j] = IF j = k THEN row ELSE rs[j]
      /\ \A S \in SUBSET DOMAIN rs :
             /\ AmountOf(es, S) = AmountOf(rs, S)
             /\ k \notin S => FeeOf(es, S) = FeeOf(rs, S)
  BY <1>1, EditedRows
<1> HIDE DEF es
<1>3. /\ fee \in 0 .. PlatformFee
      /\ FeeOf(rs, C) + fee <= PlatformFee
      /\ after = Amount => FeeOf(rs, C) + fee = PlatformFee
  BY ClaimedFee
<1> HIDE DEF fee
<1>4. /\ C \in SUBSET DOMAIN rs
      /\ k \in DOMAIN rs \ C
      /\ C \union {k} \in SUBSET DOMAIN rs
  BY DEF Counting, Counted
<1>5. Live(es) = Live(rs) /\ Live(rs) \in SUBSET DOMAIN rs /\ Counting(es) = C \union {k}
  BY <1>2 DEF Live, Counting, Counted
<1>6. AmountOf(es, Live(es)) = n /\ n \in 0 .. Amount
  BY <1>2, <1>5 DEF RefundsSound
<1>7. AmountOf(es, Counting(es)) = after
  <2>1. AmountOf(rs, C \union {k}) = after
    BY <1>1, <1>4, MoneyOf
  <2> QED
    BY <1>2, <1>4, <1>5, <2>1
<1>8. FeeOf(es, Counting(es)) = FeeOf(rs, C) + fee
  <2>1. FeeOf(es, C \union {k}) = FeeOf(es, C) + es[k].fee
    BY <1>2, <1>4, MoneyOf
  <2>2. FeeOf(es, C) = FeeOf(rs, C)
    BY <1>2, <1>4
  <2>3. es[k].fee = fee
    BY <1>2 DEF fee
  <2> QED
    BY <1>5, <2>1, <2>2, <2>3
<1>9. FeesFit(es)
  BY <1>3, <1>7, <1>8 DEF FeesFit
<1>10. Heard(es, an)
  BY <1>2 DEF RefundsSound, Heard, HeardOf
<1> QED
  BY <1>1, <1>2, <1>6, <1>9, <1>10 DEF RefundsSound, RefundsTyped, es

LEMMA AddedAnswer ==
    ASSUME NEW rs, NEW an, RefundsTyped(rs, an), NEW es \in Seq(RefundRow),
           Len(es) = Len(rs) + 1
    PROVE  /\ Append(an, {}) \in [DOMAIN es -> SUBSET Answers]
           /\ \A j \in DOMAIN rs : Append(an, {})[j] = an[j]
           /\ Append(an, {})[Len(rs) + 1] = {}
<1>1. rs \in Seq(RefundRow) /\ an \in [DOMAIN rs -> SUBSET Answers]
  BY DEF RefundsTyped
<1>2. DOMAIN rs = 1 .. Len(rs) /\ Len(rs) \in Nat /\ DOMAIN es = 1 .. Len(es)
  BY <1>1, LenProperties
<1>3. an \in [1 .. Len(rs) -> SUBSET Answers]
  BY <1>1, <1>2
<1>4. an \in Seq(SUBSET Answers) /\ Len(an) = Len(rs)
  BY <1>2, <1>3
<1>5. {} \in SUBSET Answers
  OBVIOUS
<1>6. /\ Append(an, {}) \in Seq(SUBSET Answers)
      /\ Len(Append(an, {})) = Len(an) + 1
      /\ \A i \in 1 .. Len(an) : Append(an, {})[i] = an[i]
      /\ Append(an, {})[Len(an) + 1] = {}
  BY <1>4, <1>5, AppendProperties
<1>7. Append(an, {}) \in [1 .. Len(Append(an, {})) -> SUBSET Answers]
  BY <1>6, LenProperties
<1> QED
  BY <1>2, <1>4, <1>6, <1>7

\* A refund that is asked for reserves its amount at once; it counts for the
\* fee when it is claimed.
LEMMA RequestKeepsSound ==
    ASSUME NEW rs, NEW an, NEW n, RefundsSound(rs, an, n),
           NEW a \in 1 .. Amount - n,
           NEW row \in RefundRow, row.status = "requested", row.amount = a
    PROVE  /\ RefundsSound(Append(rs, row), Append(an, {}), n + a)
           /\ \A j \in DOMAIN rs : Append(an, {})[j] = an[j]
<1> DEFINE es == Append(rs, row)
           k == Len(rs) + 1
<1>1. rs \in Seq(RefundRow) /\ an \in [DOMAIN rs -> SUBSET Answers] /\ n \in 0 .. Amount
  BY DEF RefundsSound, RefundsTyped
<1>2. Amount \in Nat \ {0} /\ PlatformFee \in Nat
  BY PaymentsAssumption
<1>3. row \in RefundRow
  OBVIOUS
<1>4. row.amount = a /\ row.status = "requested"
  OBVIOUS
<1>5. /\ es \in Seq(RefundRow)
      /\ k \notin DOMAIN rs
      /\ k \in Nat
      /\ DOMAIN es = DOMAIN rs \union {k}
      /\ es[k] = row
      /\ \A j \in DOMAIN rs : es[j] = rs[j]
  BY <1>1, <1>3, AddedRow
<1>5a. \A S \in SUBSET DOMAIN rs :
          /\ AmountOf(es, S) = AmountOf(rs, S)
          /\ FeeOf(es, S) = FeeOf(rs, S)
  <2> HIDE DEF es
  <2> TAKE S \in SUBSET DOMAIN rs
  <2>1. S \subseteq DOMAIN es
    BY <1>5
  <2>2. \A j \in S : es[j].amount = rs[j].amount /\ es[j].fee = rs[j].fee
    BY <1>5
  <2> QED
    BY <2>1, <2>2, SameMoney
<1>6. Len(es) = Len(rs) + 1
  BY <1>1, <1>3, AppendProperties
<1>7. /\ Append(an, {}) \in [DOMAIN es -> SUBSET Answers]
      /\ \A j \in DOMAIN rs : Append(an, {})[j] = an[j]
      /\ Append(an, {})[k] = {}
  BY <1>5, <1>6, AddedAnswer DEF RefundsSound
<1> DEFINE ao == Append(an, {})
<1> HIDE DEF es, k, ao
<1>8. /\ Live(rs) \in SUBSET DOMAIN rs /\ Counting(rs) \in SUBSET DOMAIN rs
      /\ Live(es) = Live(rs) \union {k} /\ Counting(es) = Counting(rs)
  BY <1>4, <1>5 DEF Live, Counting, Counted
<1>9. AmountOf(es, Live(es)) = n + a
  <2>1. AmountOf(es, Live(rs) \union {k}) = AmountOf(es, Live(rs)) + es[k].amount
    BY <1>5, <1>8, MoneyOf
  <2>2. AmountOf(es, Live(rs)) = n
    BY <1>5a, <1>8 DEF RefundsSound
  <2> QED
    BY <1>4, <1>5, <1>8, <2>1, <2>2
<1>10. FeesFit(es)
  BY <1>5a, <1>8 DEF RefundsSound, FeesFit
<1>11. Heard(es, ao)
  BY <1>4, <1>5, <1>7 DEF RefundsSound, Heard, HeardOf, ao
<1>12. n + a \in 0 .. Amount
  BY <1>1, <1>2
<1>13. RefundsSound(es, ao, n + a)
  BY <1>5, <1>7, <1>9, <1>10, <1>11, <1>12 DEF RefundsSound, RefundsTyped, ao
<1> QED
  BY <1>7, <1>13 DEF es, ao

\* A late refund is the first of its deposit: all of it, and all of its fee.
LEMMA LateKeepsSound ==
    ASSUME NEW rs, NEW an, NEW n, RefundsSound(rs, an, n), DOMAIN rs = {},
           NEW row \in RefundRow, row.status = "charging",
           row.amount = Amount, row.fee = PlatformFee
    PROVE  RefundsSound(Append(rs, row), Append(an, {}), Amount)
<1> DEFINE es == Append(rs, row)
           k == Len(rs) + 1
<1>1. rs \in Seq(RefundRow) /\ an \in [DOMAIN rs -> SUBSET Answers]
  BY DEF RefundsSound, RefundsTyped
<1>2. Amount \in Nat \ {0} /\ PlatformFee \in Nat
  BY PaymentsAssumption
<1>3. row \in RefundRow
  OBVIOUS
<1>4. row.amount = Amount /\ row.status = "charging" /\ row.fee = PlatformFee
  OBVIOUS
<1>5. /\ es \in Seq(RefundRow)
      /\ k \notin DOMAIN rs
      /\ DOMAIN es = DOMAIN rs \union {k}
      /\ es[k] = row
  BY <1>1, <1>3, AddedRow
<1>6. Len(es) = Len(rs) + 1
  BY <1>1, <1>3, AppendProperties
<1>7. /\ Append(an, {}) \in [DOMAIN es -> SUBSET Answers]
      /\ Append(an, {})[k] = {}
  BY <1>5, <1>6, AddedAnswer DEF RefundsSound
<1>8. DOMAIN rs = {}
  OBVIOUS
<1> DEFINE ao == Append(an, {})
<1> HIDE DEF es, k, ao
<1>9. DOMAIN es = {} \union {k} /\ Live(es) = {} \union {k} /\ Counting(es) = {} \union {k}
  BY <1>4, <1>5, <1>8 DEF Live, Counting, Counted
<1>10. /\ AmountOf(es, {} \union {k}) = AmountOf(es, {}) + es[k].amount
       /\ FeeOf(es, {} \union {k}) = FeeOf(es, {}) + es[k].fee
  <2>1. {} \in SUBSET DOMAIN es /\ k \in DOMAIN es \ {}
    BY <1>5
  <2> QED
    BY <1>5, <2>1, MoneyOf
<1>11. /\ AmountOf(es, {} \union {k}) = Amount
       /\ FeeOf(es, {} \union {k}) = PlatformFee
  BY <1>2, <1>4, <1>5, <1>10, NoMoney
<1>12. AmountOf(es, Live(es)) = Amount /\ FeesFit(es)
  BY <1>2, <1>9, <1>11 DEF FeesFit
<1>13. Heard(es, ao)
  BY <1>4, <1>5, <1>7, <1>9 DEF Heard, HeardOf, ao
<1> QED
  BY <1>2, <1>5, <1>7, <1>12, <1>13 DEF RefundsSound, RefundsTyped, es, ao

\* What the provider says of a refund is told once it was claimed.
LEMMA AnswerKeepsSound ==
    ASSUME NEW rs, NEW an, NEW n, RefundsSound(rs, an, n),
           NEW k \in DOMAIN rs, NEW said \in SUBSET Answers,
           HeardOf(rs[k].status, said)
    PROVE  RefundsSound(rs, [an EXCEPT ![k] = said], n)
  BY DEF RefundsSound, RefundsTyped, Heard

\* Rows keep their amount and their kind, and what has succeeded stays so.
RowsGrow(rs, es) ==
    \A j \in DOMAIN rs :
        /\ j \in DOMAIN es
        /\ es[j].amount = rs[j].amount
        /\ es[j].late = rs[j].late
        /\ rs[j].status = "succeeded" => es[j].status = "succeeded"

\* What is back in full stays back in full.
LEMMA BackInFullStays ==
    ASSUME NEW rs, NEW an, NEW n, RefundsSound(rs, an, n),
           NEW es, NEW am, NEW m, RefundsSound(es, am, m),
           RowsGrow(rs, es), AmountOf(rs, Done(rs)) = Amount
    PROVE  AmountOf(es, Done(es)) = Amount
<1>1. rs \in Seq(RefundRow) /\ es \in Seq(RefundRow)
  BY DEF RefundsSound, RefundsTyped
<1>2. /\ Done(rs) \in SUBSET DOMAIN rs
      /\ Done(rs) \in SUBSET Done(es)
      /\ Done(es) \in SUBSET Live(es)
      /\ Live(es) \in SUBSET DOMAIN es
      /\ Done(es) \in SUBSET DOMAIN es
  BY DEF Done, Live, RowsGrow
<1>3. AmountOf(es, Done(rs)) = AmountOf(rs, Done(rs))
  BY <1>2, SameMoney DEF RowsGrow
<1>4. /\ AmountOf(es, Done(rs)) <= AmountOf(es, Done(es))
      /\ AmountOf(es, Done(es)) <= AmountOf(es, Live(es))
      /\ AmountOf(es, Done(es)) \in Nat
      /\ AmountOf(es, Live(es)) \in Nat
  BY <1>1, <1>2, MoneyOf
<1>5. AmountOf(es, Live(es)) <= Amount /\ Amount \in Nat
  BY PaymentsAssumption DEF RefundsSound
<1> QED
  BY <1>3, <1>4, <1>5

-----------------------------------------------------------------------------
\* Where the deposit stands: what a step may do to it

\* A step that leaves the refunds and the page alone, and the deposit where it
\* stood.
LEMMA FlowStays ==
    ASSUME NEW r, NEW p, NEW rs, NEW pg, FlowSound(r, p, rs, pg),
           NEW s, NEW q \in DepositRow, q.status = p.status,
           s.status = r.status \/ s.status \notin {"none", "pending_payment", "expired"},
           s.money = "refunded" => r.money = "refunded"
    PROVE  FlowSound(s, q, rs, pg)
  BY DEF FlowSound

\* A step that leaves the page alone and the deposit settled, whatever it does
\* to the refunds.
LEMMA FlowRefunds ==
    ASSUME NEW r, NEW p, NEW rs, NEW pg, FlowSound(r, p, rs, pg), pg = "settled",
           NEW s, NEW q \in DepositRow, q.status \in Settled, NEW es, RowsGrow(rs, es),
           s.status = r.status \/ s.status \notin {"none", "pending_payment", "expired"},
           q.status = "refunded" => AmountOf(es, Done(es)) = Amount,
           s.money = "refunded" => q.status = "refunded"
    PROVE  FlowSound(s, q, es, pg)
<1>1. s.status \notin {"none", "pending_payment"}
  BY DEF FlowSound
<1>2. s.status = "expired" => \E k \in DOMAIN es : es[k].late
  BY DEF FlowSound, RowsGrow
<1> QED
  BY <1>1, <1>2 DEF FlowSound, Settled

\* The sweep ends the booking and its deposit, which nobody has paid.
LEMMA FlowSwept ==
    ASSUME NEW r \in ReservationRow, NEW p, NEW rs, NEW pg, FlowSound(r, p, rs, pg),
           r.status = "pending_payment"
    PROVE  FlowSound(ReleasedMoney(Changed(r, "expired")), ReleasedDeposit(p), rs, pg)
<1> DEFINE s == ReleasedMoney(Changed(r, "expired"))
           q == ReleasedDeposit(p)
<1>1. s.status = "expired" /\ (s.money = "refunded" => r.money = "refunded")
  BY DEF ReleasedMoney, Changed, ReservationRow
<1>2. /\ q \in DepositRow
      /\ q.status = IF p.status \in {"created", "pending"} THEN "expired" ELSE p.status
  BY DEF ReleasedDeposit, DepositRow, Deposits, FlowSound
<1> HIDE DEF s, q
<1>3. pg /= "settled"
  BY DEF FlowSound
<1> QED
  BY <1>1, <1>2, <1>3 DEF FlowSound, Settled, s, q

-----------------------------------------------------------------------------
\* From one booking to all of them

LEMMA SweptSound ==
    ASSUME RefundInv, NEW b \in Bookings
    PROVE  /\ DepositSound(SweptRes[b], SweptPay[b], refunds[b], answers[b], page[b])
           /\ SweptRes[b] \in ReservationRow
           /\ SweptPay[b] \in DepositRow
           /\ SweptPay[b].refunded = pay[b].refunded
           /\ pay[b].status \notin {"created", "pending"} => SweptPay[b] = pay[b]
<1>1. DepositSound(res[b], pay[b], refunds[b], answers[b], page[b])
  BY DEF RefundInv, MoneyInv
<1>2. res[b] \in ReservationRow /\ SweptRes[b] \in ReservationRow
  BY SweptIsSound DEF RefundInv, SoundTable
<1>3. pay[b] \in DepositRow
  BY <1>1 DEF DepositSound, FlowSound
<1>4. /\ SweptRes[b] = IF Overdue(b) THEN ReleasedMoney(Changed(res[b], "expired"))
                                     ELSE res[b]
      /\ SweptPay[b] = IF Overdue(b) THEN ReleasedDeposit(pay[b]) ELSE pay[b]
  BY DEF SweptRes, SweptPay
<1>5. /\ ReleasedDeposit(pay[b]) \in DepositRow
      /\ ReleasedDeposit(pay[b]).refunded = pay[b].refunded
      /\ pay[b].status \notin {"created", "pending"} => ReleasedDeposit(pay[b]) = pay[b]
  BY <1>3 DEF ReleasedDeposit, DepositRow, Deposits
<1>6. CASE Overdue(b)
  <2>1. FlowSound(SweptRes[b], SweptPay[b], refunds[b], page[b])
    BY <1>1, <1>2, <1>4, <1>6, FlowSwept DEF DepositSound, Overdue
  <2> QED
    BY <1>1, <1>2, <1>4, <1>5, <1>6, <2>1 DEF DepositSound
<1>7. CASE ~Overdue(b)
  BY <1>1, <1>2, <1>3, <1>4, <1>7
<1> QED
  BY <1>6, <1>7

\* A step that writes at most one booking's rows, over the swept ones.
Elsewhere(b) ==
    /\ RowsPerBooking'
    /\ \A x \in Bookings \ {b} :
          /\ res'[x] = SweptRes[x] /\ pay'[x] = SweptPay[x]
          /\ refunds'[x] = refunds[x] /\ answers'[x] = answers[x]
          /\ page'[x] = page[x]

LEMMA OneBookingStep ==
    ASSUME RefundInv, NEW b \in Bookings, Elsewhere(b), HandSound',
           DepositSound(res'[b], pay'[b], refunds'[b], answers'[b], page'[b])
    PROVE  MoneyInv'
<1>1. ASSUME NEW x \in Bookings
      PROVE  DepositSound(res'[x], pay'[x], refunds'[x], answers'[x], page'[x])
  <2>1. CASE x = b
    BY <2>1
  <2>2. CASE x /= b
    BY <2>2, SweptSound DEF Elsewhere
  <2> QED
    BY <2>1, <2>2
<1> QED
  BY <1>1 DEF MoneyInv, Elsewhere

\* What is in hand stays claimed and unheard of while nobody writes that row
\* or speaks of it.
LEMMA HandStays ==
    ASSUME RefundInv, hand' \subseteq hand,
           \A x \in Bookings : \A k \in DOMAIN refunds[x] :
               <<x, k>> \in hand' => /\ k \in DOMAIN refunds'[x]
                                     /\ refunds'[x][k].status = refunds[x][k].status
                                     /\ answers'[x][k] = answers[x][k]
    PROVE  HandSound'
<1> SUFFICES ASSUME NEW h \in hand'
             PROVE  /\ h \in Bookings \X Nat
                    /\ h[2] \in DOMAIN refunds'[h[1]]
                    /\ refunds'[h[1]][h[2]].status = "charging"
                    /\ answers'[h[1]][h[2]] = {}
  BY DEF HandSound
<1>1. /\ h \in Bookings \X Nat
      /\ h[2] \in DOMAIN refunds[h[1]]
      /\ refunds[h[1]][h[2]].status = "charging"
      /\ answers[h[1]][h[2]] = {}
  BY DEF RefundInv, MoneyInv, HandSound
<1>2. h = <<h[1], h[2]>> /\ h[1] \in Bookings
  BY <1>1
<1> QED
  BY <1>1, <1>2

LEMMA HandUntouched ==
    ASSUME RefundInv, UNCHANGED <<refunds, answers, hand>>
    PROVE  HandSound'
  BY HandStays

\* A handler that writes a booking and its deposit, and no refund.
LEMMA RowsWritten ==
    ASSUME RefundInv, NEW b \in Bookings, NEW row, NEW deposit,
           Write(b, row, deposit)
    PROVE  /\ DOMAIN pay' = Bookings
           /\ res'[b] = row /\ pay'[b] = deposit
           /\ \A x \in Bookings \ {b} : res'[x] = SweptRes[x] /\ pay'[x] = SweptPay[x]
  BY DEF Write, SweptRes, SweptPay

LEMMA HandlerSound ==
    ASSUME RefundInv, NEW b \in Bookings, NEW row, NEW deposit,
           Write(b, row, deposit), UNCHANGED <<clock, window, refunds, answers, hand>>,
           DOMAIN page' = Bookings, \A x \in Bookings \ {b} : page'[x] = page[x],
           deposit.refunded = pay[b].refunded,
           FlowSound(row, deposit, refunds[b], page'[b])
    PROVE  MoneyInv'
<1>1. /\ DOMAIN pay' = Bookings
      /\ res'[b] = row /\ pay'[b] = deposit
      /\ \A x \in Bookings \ {b} : res'[x] = SweptRes[x] /\ pay'[x] = SweptPay[x]
  BY RowsWritten
<1>2. RowsPerBooking
  BY DEF RefundInv, MoneyInv
<1>3. Elsewhere(b)
  BY <1>1, <1>2 DEF Elsewhere, RowsPerBooking
<1>4. RefundsSound(refunds[b], answers[b], pay[b].refunded)
  BY DEF RefundInv, MoneyInv, DepositSound
<1>5. DepositSound(res'[b], pay'[b], refunds'[b], answers'[b], page'[b])
  BY <1>1, <1>4 DEF DepositSound
<1> QED
  BY <1>3, <1>5, HandUntouched, OneBookingStep

-----------------------------------------------------------------------------
\* The handlers that write no refund

\* A booking's row with another status or other money.
LEMMA RowFields ==
    ASSUME NEW r \in ReservationRow
    PROVE  /\ \A to : /\ Changed(r, to).status = to
                      /\ Changed(r, to).money = r.money
                      /\ \A m : /\ [Changed(r, to) EXCEPT !.money = m].status = to
                                /\ [Changed(r, to) EXCEPT !.money = m].money = m
           /\ \A m : /\ [r EXCEPT !.money = m].status = r.status
                     /\ [r EXCEPT !.money = m].money = m
  BY DEF Changed, ReservationRow

LEMMA DepositFields ==
    ASSUME NEW p \in DepositRow, NEW status \in Deposits
    PROVE  /\ [p EXCEPT !.status = status] \in DepositRow
           /\ [p EXCEPT !.status = status].status = status
           /\ [p EXCEPT !.status = status].refunded = p.refunded
           /\ \A bound \in BOOLEAN :
                 /\ [p EXCEPT !.bound = bound, !.status = status] \in DepositRow
                 /\ [p EXCEPT !.bound = bound, !.status = status].status = status
                 /\ [p EXCEPT !.bound = bound, !.status = status].refunded = p.refunded
  BY DEF DepositRow

\* Facts of the booking a handler finds, before and after its sweep.
LEMMA FoundDeposit ==
    ASSUME RefundInv, NEW b \in Bookings
    PROVE  /\ FlowSound(SweptRes[b], SweptPay[b], refunds[b], page[b])
           /\ FlowSound(res[b], pay[b], refunds[b], page[b])
           /\ RefundsSound(refunds[b], answers[b], pay[b].refunded)
           /\ res[b] \in ReservationRow /\ SoundRow(res[b])
           /\ SweptRes[b] \in ReservationRow
           /\ pay[b] \in DepositRow
           /\ SweptPay[b] \in DepositRow
           /\ SweptPay[b].refunded = pay[b].refunded
           /\ SweptPay[b].status \in Settled => SweptPay[b] = pay[b]
           /\ pay[b].status \in Settled => SweptPay[b] = pay[b]
           /\ ~Overdue(b) => SweptRes[b] = res[b] /\ SweptPay[b] = pay[b]
           /\ Overdue(b) => SweptRes[b].status = "expired"
<1>1. DepositSound(res[b], pay[b], refunds[b], answers[b], page[b])
  BY DEF RefundInv, MoneyInv
<1>2. res[b] \in ReservationRow /\ SoundRow(res[b])
  BY DEF RefundInv, SoundTable
<1>3. pay[b] \in DepositRow
  BY <1>1 DEF DepositSound, FlowSound
<1>4. SweptPay[b].status \in Settled => SweptPay[b] = pay[b]
  BY <1>3 DEF SweptPay, ReleasedDeposit, DepositRow, Settled
<1>5. pay[b].status \in Settled => SweptPay[b] = pay[b]
  BY SweptSound DEF Settled
<1>6. ~Overdue(b) => SweptRes[b] = res[b] /\ SweptPay[b] = pay[b]
  BY DEF SweptRes, SweptPay
<1>7. Overdue(b) => SweptRes[b].status = "expired"
  BY <1>2 DEF SweptRes, ReleasedMoney, Changed, ReservationRow
<1> QED
  BY <1>1, <1>2, <1>3, <1>4, <1>5, <1>6, <1>7, SweptSound DEF DepositSound

LEMMA CreateMoney ==
    ASSUME RefundInv, NEW b \in Bookings, CreateBooking(b)
    PROVE  MoneyInv'
<1> DEFINE row == [NoReservation EXCEPT !.status = "pending_payment",
                                        !.money = "pending", !.table = TRUE]
           deposit == [NoDeposit EXCEPT !.status = "created"]
<1>1. res[b].status = "none" /\ FlowSound(res[b], pay[b], refunds[b], page[b])
  BY FoundDeposit DEF CreateBooking
<1>2. pay[b].status = "none" /\ page[b] = "none" /\ refunds[b] = <<>>
  BY <1>1 DEF FlowSound, Settled, Pages
<1>3. pay[b].refunded = 0
  <2>1. Live(refunds[b]) = {}
    BY <1>2 DEF Live
  <2> QED
    BY <2>1, FoundDeposit, NoMoney DEF RefundsSound
<1>4. deposit \in DepositRow /\ deposit.status = "created" /\ deposit.refunded = 0
  <2>1. 0 \in 0 .. Amount /\ "none" \in Disputes
    BY PaymentsAssumption DEF Disputes
  <2>2. NoDeposit \in DepositRow /\ NoDeposit.refunded = 0
    BY <2>1 DEF NoDeposit, DepositRow, Deposits
  <2> QED
    BY <2>2 DEF DepositRow, Deposits
<1>5. row.status = "pending_payment" /\ row.money = "pending"
  BY DEF NoReservation
<1>6. Write(b, row, deposit) /\ UNCHANGED <<outside, refunds, hand>>
  BY DEF CreateBooking
<1> HIDE DEF row, deposit
<1>7. FlowSound(row, deposit, refunds[b], page[b])
  BY <1>2, <1>4, <1>5 DEF FlowSound, Pages
<1>8. DOMAIN page = Bookings
  BY DEF RefundInv, MoneyInv, RowsPerBooking
<1> QED
  BY <1>3, <1>4, <1>6, <1>7, <1>8, HandlerSound DEF outside

LEMMA BindMoney ==
    ASSUME RefundInv, NEW b \in Bookings, BindPaymentSession(b)
    PROVE  MoneyInv'
<1> DEFINE deposit == [pay[b] EXCEPT !.bound = TRUE, !.status = "pending"]
<1>1. /\ deposit \in DepositRow /\ deposit.status = "pending"
      /\ deposit.refunded = pay[b].refunded
  <2>1. pay[b] \in DepositRow
    BY FoundDeposit
  <2> QED
    BY <2>1 DEF DepositRow, Deposits
<1>2. Write(b, SweptRes[b], deposit) /\ page' = [page EXCEPT ![b] = "open"]
  BY DEF BindPaymentSession
<1>3. UNCHANGED <<clock, window, refunds, answers, hand>>
  BY DEF BindPaymentSession
<1> HIDE DEF deposit
<1>4. DOMAIN page = Bookings
  BY DEF RefundInv, MoneyInv, RowsPerBooking
<1>5. FlowSound(SweptRes[b], deposit, refunds[b], "open")
  <2>1. SweptRes[b].status = "pending_payment" /\ pay[b].status = "created"
    BY DEF BindPaymentSession
  <2>2. /\ FlowSound(SweptRes[b], SweptPay[b], refunds[b], page[b])
        /\ FlowSound(res[b], pay[b], refunds[b], page[b])
        /\ ~Overdue(b)
    BY <2>1, FoundDeposit
  <2>3. SweptRes[b] = res[b]
    BY <2>2, FoundDeposit
  <2> QED
    BY <1>1, <2>1, <2>2, <2>3 DEF FlowSound, Settled, Pages
<1> QED
  BY <1>1, <1>2, <1>3, <1>4, <1>5, HandlerSound

LEMMA ExpiredMoney ==
    ASSUME RefundInv, NEW b \in Bookings, ExpiredEvent(b)
    PROVE  MoneyInv'
<1>1. /\ FlowSound(SweptRes[b], SweptPay[b], refunds[b], page[b])
      /\ page[b] = "shut" /\ SweptPay[b].status = "pending"
  BY FoundDeposit DEF ExpiredEvent
<1>2. UNCHANGED <<clock, window, refunds, answers, hand>>
  BY DEF ExpiredEvent
<1>3. DOMAIN page = Bookings
  BY DEF RefundInv, MoneyInv, RowsPerBooking
<1>4. CASE SweptRes[b].status = "pending_payment"
  <2> DEFINE deposit == [pay[b] EXCEPT !.bound = FALSE, !.status = "created"]
  <2>1. Write(b, SweptRes[b], deposit) /\ page' = [page EXCEPT ![b] = "none"]
    BY <1>4 DEF ExpiredEvent
  <2>2. /\ deposit \in DepositRow /\ deposit.status = "created"
        /\ deposit.refunded = pay[b].refunded
    <3>1. pay[b] \in DepositRow
      BY FoundDeposit
    <3> QED
      BY <3>1 DEF DepositRow, Deposits
  <2> HIDE DEF deposit
  <2>3. FlowSound(SweptRes[b], deposit, refunds[b], "none")
    BY <1>1, <1>4, <2>2 DEF FlowSound, Settled, Pages
  <2> QED
    BY <1>2, <1>3, <2>1, <2>2, <2>3, HandlerSound
<1>5. CASE SweptRes[b].status /= "pending_payment"
  <2> DEFINE deposit == [pay[b] EXCEPT !.status = "expired"]
  <2>1. Write(b, SweptRes[b], deposit) /\ page' = page
    BY <1>5 DEF ExpiredEvent
  <2>2. /\ deposit \in DepositRow /\ deposit.status = "expired"
        /\ deposit.refunded = pay[b].refunded
    <3>1. pay[b] \in DepositRow
      BY FoundDeposit
    <3> QED
      BY <3>1 DEF DepositRow, Deposits
  <2> HIDE DEF deposit
  <2>3. FlowSound(SweptRes[b], deposit, refunds[b], page[b])
    BY <1>1, <2>2 DEF FlowSound, Settled, Pages
  <2> QED
    BY <1>2, <1>3, <2>1, <2>2, <2>3, HandlerSound
<1> QED
  BY <1>4, <1>5

\* A handler that changes the booking's status, its undo included, and leaves
\* the deposit where it stands.
LEMMA StatusMoney ==
    ASSUME RefundInv, NEW b \in Bookings, NEW row, NEW deposit \in DepositRow,
           Write(b, row, deposit), UNCHANGED <<outside, refunds, hand>>,
           deposit.status = SweptPay[b].status,
           deposit.refunded = SweptPay[b].refunded,
           row.status = SweptRes[b].status
               \/ row.status \notin {"none", "pending_payment", "expired"},
           row.money = "refunded" => SweptRes[b].money = "refunded"
    PROVE  MoneyInv'
<1>1. FlowSound(SweptRes[b], SweptPay[b], refunds[b], page[b])
  BY FoundDeposit
<1>2. FlowSound(row, deposit, refunds[b], page[b])
  BY <1>1, FlowStays
<1>3. deposit.refunded = pay[b].refunded
  BY FoundDeposit
<1>4. DOMAIN page = Bookings
  BY DEF RefundInv, MoneyInv, RowsPerBooking
<1> QED
  BY <1>2, <1>3, <1>4, HandlerSound DEF outside

LEMMA TransitionMoney ==
    ASSUME RefundInv, NEW b \in Bookings, OperatorTransition(b)
    PROVE  MoneyInv'
<1>1. PICK to \in OperatorTransitions(SweptRes[b].status) :
          Write(b, Changed(SweptRes[b], to), SweptPay[b])
  BY DEF OperatorTransition
<1>2. to \notin {"none", "pending_payment", "expired"}
  BY DEF OperatorTransitions
<1>3. SweptRes[b] \in ReservationRow /\ SweptPay[b] \in DepositRow
  BY FoundDeposit
<1>4. /\ Changed(SweptRes[b], to).status = to
      /\ Changed(SweptRes[b], to).money = SweptRes[b].money
  BY <1>3, RowFields
<1>5. UNCHANGED <<outside, refunds, hand>>
  BY DEF OperatorTransition
<1> QED
  BY <1>1, <1>2, <1>3, <1>4, <1>5, StatusMoney

LEMMA UndoMoney ==
    ASSUME RefundInv, NEW b \in Bookings, Undo(b)
    PROVE  MoneyInv'
<1> DEFINE kept == res[b].table \/ (res[b].status \in Over /\ TableFree(SweptRes, b))
           row == [res[b] EXCEPT !.status = res[b].from, !.from = "none", !.table = kept]
<1>1. Write(b, row, SweptPay[b]) /\ UNCHANGED <<outside, refunds, hand>>
  BY DEF Undo
<1>2. res[b] \in ReservationRow /\ SweptPay[b] \in DepositRow
  BY FoundDeposit
<1>3. res[b].from \in Kept /\ ~Overdue(b)
  BY FoundDeposit DEF SoundRow, Undo, Overdue
<1>4. row.status = res[b].from /\ row.money = res[b].money
  BY <1>2 DEF ReservationRow
<1>5. SweptRes[b] = res[b]
  BY <1>3, FoundDeposit
<1> HIDE DEF row
<1> QED
  BY <1>1, <1>2, <1>3, <1>4, <1>5, StatusMoney DEF Kept

LEMMA DisputeMoney ==
    ASSUME RefundInv, NEW b \in Bookings, RecordDispute(b)
    PROVE  MoneyInv'
<1>1. SweptRes[b] \in ReservationRow /\ SweptPay[b] \in DepositRow
  BY FoundDeposit
<1> DEFINE Rows == {SweptRes[b], [SweptRes[b] EXCEPT !.money = "disputed"],
                    [SweptRes[b] EXCEPT !.money = "paid"]}
<1>2. PICK status \in Disputes, row \in Rows :
          Write(b, row, [SweptPay[b] EXCEPT !.dispute = status])
  BY DEF RecordDispute, Disputes
<1> DEFINE deposit == [SweptPay[b] EXCEPT !.dispute = status]
<1>3. /\ deposit \in DepositRow /\ deposit.status = SweptPay[b].status
      /\ deposit.refunded = SweptPay[b].refunded
  BY <1>1 DEF DepositRow
<1>4. /\ row.status = SweptRes[b].status
      /\ row.money = "refunded" => SweptRes[b].money = "refunded"
  BY <1>1, <1>2 DEF ReservationRow
<1>5. UNCHANGED <<outside, refunds, hand>>
  BY DEF RecordDispute
<1> HIDE DEF deposit
<1>6. Write(b, row, deposit)
  BY <1>2 DEF deposit
<1> QED
  BY <1>3, <1>4, <1>5, <1>6, StatusMoney

LEMMA SweepMoney ==
    ASSUME RefundInv, res' = SweptRes, pay' = SweptPay,
           UNCHANGED <<outside, refunds, hand>>
    PROVE  MoneyInv'
<1>1. RowsPerBooking'
  BY DEF RefundInv, MoneyInv, RowsPerBooking, outside, SweptPay
<1>2. \A b \in Bookings :
          DepositSound(res'[b], pay'[b], refunds'[b], answers'[b], page'[b])
  BY SweptSound DEF outside
<1>3. HandSound'
  BY HandUntouched DEF outside
<1> QED
  BY <1>1, <1>2, <1>3 DEF MoneyInv

\* A step that changes no row at all, or only what a page shows.
LEMMA OutsideMoney ==
    ASSUME RefundInv, UNCHANGED <<res, pay, refunds, answers, hand>>,
           clock' \in Hours, window' \in [Bookings -> BOOLEAN],
           \/ page' = page
           \/ \E b \in Bookings, how \in {"captured", "shut"} :
                 page[b] = "open" /\ page' = [page EXCEPT ![b] = how]
    PROVE  MoneyInv'
<1>1. RowsPerBooking'
  BY DEF RefundInv, MoneyInv, RowsPerBooking
<1>2. ASSUME NEW b \in Bookings
      PROVE  DepositSound(res'[b], pay'[b], refunds'[b], answers'[b], page'[b])
  <2>1. DepositSound(res[b], pay[b], refunds[b], answers[b], page[b])
    BY DEF RefundInv, MoneyInv
  <2>2. page'[b] = page[b] \/ (page[b] = "open" /\ page'[b] \in {"captured", "shut"})
    BY DEF RefundInv, MoneyInv, RowsPerBooking
  <2> QED
    BY <2>1, <2>2 DEF DepositSound, FlowSound, Pages
<1>3. HandSound'
  BY HandUntouched
<1> QED
  BY <1>1, <1>2, <1>3 DEF MoneyInv

-----------------------------------------------------------------------------
\* The payment, and the handlers that write refunds

\* A handler that writes a booking, its deposit and its refunds.
LEMMA RefundHandler ==
    ASSUME RefundInv, NEW b \in Bookings, NEW row, NEW deposit, NEW es, NEW ao,
           Write(b, row, deposit), UNCHANGED <<clock, window>>,
           refunds' = [refunds EXCEPT ![b] = es],
           answers' = [answers EXCEPT ![b] = ao],
           DOMAIN page' = Bookings, \A x \in Bookings \ {b} : page'[x] = page[x],
           RefundsSound(es, ao, deposit.refunded),
           FlowSound(row, deposit, es, page'[b]), HandSound'
    PROVE  MoneyInv'
<1>1. /\ DOMAIN pay' = Bookings
      /\ res'[b] = row /\ pay'[b] = deposit
      /\ \A x \in Bookings \ {b} : res'[x] = SweptRes[x] /\ pay'[x] = SweptPay[x]
  BY RowsWritten
<1>2. RowsPerBooking
  BY DEF RefundInv, MoneyInv
<1>3. Elsewhere(b)
  BY <1>1, <1>2 DEF Elsewhere, RowsPerBooking
<1>4. refunds'[b] = es /\ answers'[b] = ao
  BY <1>2 DEF RowsPerBooking
<1>5. DepositSound(res'[b], pay'[b], refunds'[b], answers'[b], page'[b])
  BY <1>1, <1>4 DEF DepositSound
<1> QED
  BY <1>3, <1>5, OneBookingStep

\* The guest's money arrives while nothing was refunded yet.
LEMMA ConfirmMoney ==
    ASSUME RefundInv, NEW b \in Bookings, NEW row, Confirm(b, row), Unpaid(b),
           UNCHANGED <<clock, window>>, page' = [page EXCEPT ![b] = "settled"],
           row.status \in Kept, row.money = "paid"
    PROVE  MoneyInv'
<1> DEFINE deposit == [SweptPay[b] EXCEPT !.status = "succeeded"]
<1>1. /\ FlowSound(SweptRes[b], SweptPay[b], refunds[b], page[b])
      /\ SweptPay[b] \in DepositRow
      /\ SweptPay[b].refunded = pay[b].refunded
  BY FoundDeposit
<1>2. /\ deposit \in DepositRow /\ deposit.status = "succeeded"
      /\ deposit.refunded = pay[b].refunded
  BY <1>1 DEF DepositRow, Deposits
<1>3. refunds[b] = <<>>
  BY <1>1 DEF FlowSound, Unpaid, Settled
<1>4. Write(b, row, deposit) /\ UNCHANGED <<refunds, answers, hand>>
  BY DEF Confirm
<1> HIDE DEF deposit
<1>5. FlowSound(row, deposit, refunds[b], "settled")
  BY <1>2, <1>3 DEF FlowSound, Settled, Pages, Kept
<1>6. DOMAIN page = Bookings
  BY DEF RefundInv, MoneyInv, RowsPerBooking
<1> QED
  BY <1>2, <1>4, <1>5, <1>6, HandlerSound

\* The row of a late refund.
LateRow == [status |-> "charging", amount |-> Amount, late |-> TRUE,
            fee |-> PlatformFee, leased |-> TRUE]

LEMMA LateRowIs ==
    /\ LateRow \in RefundRow /\ LateRow.status = "charging" /\ LateRow.late
    /\ LateRow.amount = Amount /\ LateRow.fee = PlatformFee
<1>1. Amount \in 1 .. Amount /\ PlatformFee \in 0 .. PlatformFee
  BY PaymentsAssumption
<1> QED
  BY <1>1 DEF LateRow, RefundRow, Refunds

\* The guest's money arrives too late and goes back.
LEMMA LateMoney ==
    ASSUME RefundInv, NEW b \in Bookings, PaidTooLate(b), Unpaid(b),
           UNCHANGED <<clock, window>>, page' = [page EXCEPT ![b] = "settled"]
    PROVE  MoneyInv'
<1> DEFINE row == [SweptRes[b] EXCEPT !.money = "refund_pending"]
           deposit == [SweptPay[b] EXCEPT !.status = "succeeded", !.refunded = Amount]
           es == Append(refunds[b], LateRow)
           ao == Append(answers[b], {})
           k == Len(refunds[b]) + 1
<1>1. /\ FlowSound(SweptRes[b], SweptPay[b], refunds[b], page[b])
      /\ SweptPay[b] \in DepositRow /\ SweptRes[b] \in ReservationRow
      /\ RefundsSound(refunds[b], answers[b], pay[b].refunded)
  BY FoundDeposit
<1>2. Amount \in 0 .. Amount
  BY PaymentsAssumption
<1>3. /\ deposit \in DepositRow /\ deposit.status = "succeeded"
      /\ deposit.refunded = Amount
  BY <1>1, <1>2 DEF DepositRow, Deposits
<1>4. row.status = SweptRes[b].status /\ row.money = "refund_pending"
  BY <1>1 DEF ReservationRow
<1>5. refunds[b] = <<>>
  BY <1>1 DEF FlowSound, Unpaid, Settled
<1>6. DOMAIN refunds[b] = {} /\ refunds[b] \in Seq(RefundRow)
  BY <1>1, <1>5 DEF RefundsSound, RefundsTyped
<1>7. RefundsSound(es, ao, Amount)
  BY <1>1, <1>6, LateRowIs, LateKeepsSound
<1>8. DOMAIN es = DOMAIN refunds[b] \union {k} /\ es[k] = LateRow
  BY <1>6, LateRowIs, AddedRow
<1>9. ao[k] = {}
  <2>1. es \in Seq(RefundRow) /\ Len(es) = Len(refunds[b]) + 1
    BY <1>6, LateRowIs, AppendProperties
  <2> QED
    BY <1>1, <2>1, AddedAnswer DEF RefundsSound
<1>10. /\ Write(b, row, deposit)
       /\ refunds' = [refunds EXCEPT ![b] = es]
       /\ answers' = [answers EXCEPT ![b] = ao]
       /\ hand' \subseteq hand \union {<<b, k>>}
  BY DEF PaidTooLate, QueueLateRefund, AddRefund, LateRow
<1>11. SweptRes[b].status \in {"cancelled", "finished", "no_show", "expired"}
  BY DEF PaidTooLate
<1>12. RowsPerBooking
  BY DEF RefundInv, MoneyInv
<1>13. k \in Nat
  BY <1>6, LenProperties
<1> HIDE DEF row, deposit, es, ao, k
<1>14. FlowSound(row, deposit, es, "settled")
  BY <1>3, <1>4, <1>8, <1>11, LateRowIs DEF FlowSound, Settled, Pages
<1>15. refunds'[b] = es /\ answers'[b] = ao
  BY <1>10, <1>12 DEF RowsPerBooking
<1>16. HandSound'
  <2> SUFFICES ASSUME NEW h \in hand'
               PROVE  /\ h \in Bookings \X Nat
                      /\ h[2] \in DOMAIN refunds'[h[1]]
                      /\ refunds'[h[1]][h[2]].status = "charging"
                      /\ answers'[h[1]][h[2]] = {}
    BY DEF HandSound
  <2>1. CASE h = <<b, k>>
    BY <1>8, <1>9, <1>13, <1>15, <2>1, LateRowIs
  <2>2. CASE h \in hand
    <3>1. /\ h \in Bookings \X Nat
          /\ h[2] \in DOMAIN refunds[h[1]]
          /\ refunds[h[1]][h[2]].status = "charging"
          /\ answers[h[1]][h[2]] = {}
      BY <2>2 DEF RefundInv, MoneyInv, HandSound
    <3>2. h[1] /= b /\ h[1] \in Bookings
      BY <1>6, <3>1
    <3>3. refunds'[h[1]] = refunds[h[1]] /\ answers'[h[1]] = answers[h[1]]
      BY <1>10, <1>12, <3>2 DEF RowsPerBooking
    <3> QED
      BY <3>1, <3>3
  <2> QED
    BY <1>10, <2>1, <2>2
<1>17. /\ DOMAIN page' = Bookings /\ page'[b] = "settled"
       /\ \A x \in Bookings \ {b} : page'[x] = page[x]
  BY <1>12 DEF RowsPerBooking
<1> QED
  BY <1>3, <1>7, <1>10, <1>14, <1>16, <1>17, RefundHandler

LEMMA PaidMoney ==
    ASSUME RefundInv, NEW b \in Bookings, PaidEvent(b)
    PROVE  MoneyInv'
<1>1. /\ FlowSound(SweptRes[b], SweptPay[b], refunds[b], page[b])
      /\ SweptRes[b] \in ReservationRow
      /\ SweptPay[b].refunded = pay[b].refunded
  BY FoundDeposit
<1>2. UNCHANGED <<clock, window>> /\ page' = [page EXCEPT ![b] = "settled"]
  BY DEF PaidEvent
<1>3. DOMAIN page = Bookings
  BY DEF RefundInv, MoneyInv, RowsPerBooking
<1>4. CASE PaidAgain(b)
  <2>1. page[b] = "settled"
    BY <1>1, <1>4 DEF PaidAgain, PaidEvent, Unpaid, FlowSound
  <2>2. Write(b, SweptRes[b], SweptPay[b]) /\ UNCHANGED <<refunds, answers, hand>>
    BY <1>4 DEF PaidAgain
  <2> QED
    BY <1>1, <1>2, <1>3, <2>1, <2>2, HandlerSound
<1>5. CASE Unpaid(b) /\ PaidInTime(b)
  <2> DEFINE row == [Changed(SweptRes[b], "booked") EXCEPT !.money = "paid"]
  <2>1. row.status = "booked" /\ row.money = "paid" /\ Confirm(b, row)
    BY <1>1, <1>5, RowFields DEF PaidInTime
  <2> HIDE DEF row
  <2> QED
    BY <1>2, <1>5, <2>1, ConfirmMoney DEF Kept
<1>6. CASE Unpaid(b) /\ PaidAfterwards(b)
  <2> DEFINE row == [SweptRes[b] EXCEPT !.money = "paid"]
  <2>1. row.status \in Kept /\ row.money = "paid" /\ Confirm(b, row)
    BY <1>1, <1>6, RowFields DEF PaidAfterwards
  <2> HIDE DEF row
  <2> QED
    BY <1>2, <1>6, <2>1, ConfirmMoney
<1>7. CASE Unpaid(b) /\ PaidRestores(b)
  <2> DEFINE row == [Changed(SweptRes[b], "booked") EXCEPT !.money = "paid",
                                                           !.table = TRUE]
  <2>1. row.status = "booked" /\ row.money = "paid" /\ Confirm(b, row)
    BY <1>1, <1>7 DEF PaidRestores, Changed, ReservationRow
  <2> HIDE DEF row
  <2> QED
    BY <1>2, <1>7, <2>1, ConfirmMoney DEF Kept
<1>8. CASE Unpaid(b) /\ PaidTooLate(b)
  BY <1>2, <1>8, LateMoney
<1> QED
  BY <1>4, <1>5, <1>6, <1>7, <1>8 DEF PaidEvent

\* A refund is asked for, of what the deposit still has.
LEMMA QueueMoney ==
    ASSUME RefundInv, NEW b \in Bookings, NEW row \in ReservationRow,
           NEW a \in 1 .. Amount - pay[b].refunded, QueueRefundRequest(b, row, a),
           Refundable(b), UNCHANGED <<clock, window, page, hand>>,
           row.status = SweptRes[b].status
               \/ row.status \notin {"none", "pending_payment", "expired"}
    PROVE  MoneyInv'
<1> DEFINE new == [row EXCEPT !.money = "refund_pending"]
           deposit == [SweptPay[b] EXCEPT !.refunded = @ + a]
           request == [status |-> "requested", amount |-> a, late |-> FALSE,
                       fee |-> 0, leased |-> FALSE]
           es == Append(refunds[b], request)
           ao == Append(answers[b], {})
<1>1. /\ FlowSound(SweptRes[b], SweptPay[b], refunds[b], page[b])
      /\ SweptPay[b] \in DepositRow
      /\ RefundsSound(refunds[b], answers[b], pay[b].refunded)
  BY FoundDeposit
<1>2. SweptPay[b] = pay[b] /\ pay[b].status \in {"succeeded", "partially_refunded"}
  BY FoundDeposit DEF Refundable, Settled
<1>3. page[b] = "settled"
  BY <1>1, <1>2 DEF FlowSound, Pages
<1>4. /\ Amount \in Nat /\ PlatformFee \in Nat
      /\ pay[b].refunded \in 0 .. Amount
      /\ a \in 1 .. Amount
      /\ pay[b].refunded + a \in 0 .. Amount
  BY PaymentsAssumption, <1>1 DEF RefundsSound
<1>5. /\ deposit \in DepositRow /\ deposit.status = pay[b].status
      /\ deposit.refunded = pay[b].refunded + a
  BY <1>1, <1>2, <1>4 DEF DepositRow
<1>6. new.status = row.status /\ new.money = "refund_pending"
  BY DEF ReservationRow
<1>7. /\ request \in RefundRow /\ request.status = "requested" /\ request.amount = a
  BY <1>4 DEF RefundRow, Refunds
<1>8. /\ Write(b, new, deposit)
      /\ refunds' = [refunds EXCEPT ![b] = es]
      /\ answers' = [answers EXCEPT ![b] = ao]
  BY DEF QueueRefundRequest, AddRefund
<1> HIDE DEF new, deposit, request
<1>9. refunds[b] \in Seq(RefundRow)
  BY <1>1 DEF RefundsSound, RefundsTyped
<1>10. /\ RefundsSound(es, ao, pay[b].refunded + a)
       /\ \A j \in DOMAIN refunds[b] : ao[j] = answers[b][j]
  BY <1>1, <1>7, RequestKeepsSound
<1>11. \A j \in DOMAIN refunds[b] : j \in DOMAIN es /\ es[j] = refunds[b][j]
  BY <1>7, <1>9, AddedRow
<1> HIDE DEF es, ao
<1>12. RowsGrow(refunds[b], es)
  BY <1>11 DEF RowsGrow
<1>13. FlowSound(new, deposit, es, page[b])
  BY <1>1, <1>2, <1>3, <1>5, <1>6, <1>12, FlowRefunds DEF Settled
<1>14. RowsPerBooking
  BY DEF RefundInv, MoneyInv
<1>15. HandSound'
  <2>1. \A x \in Bookings : \A k \in DOMAIN refunds[x] :
            /\ k \in DOMAIN refunds'[x]
            /\ refunds'[x][k] = refunds[x][k]
            /\ answers'[x][k] = answers[x][k]
    BY <1>8, <1>10, <1>11, <1>14 DEF RowsPerBooking
  <2> QED
    BY <2>1, HandStays
<1>16. DOMAIN page' = Bookings /\ page' = page
  BY <1>14 DEF RowsPerBooking
<1> QED
  BY <1>5, <1>8, <1>10, <1>13, <1>15, <1>16, RefundHandler

\* A share of an amount is never more than the amount.
LEMMA CancellationShare ==
    ASSUME NEW remaining \in Nat, NEW keepsSome \in BOOLEAN
    PROVE  CancellationRefund(remaining, keepsSome) \in 0 .. remaining
<1>1. CASE keepsSome
  <2>1. LateRefundBp \in Nat /\ LateRefundBp <= 10000
    BY PaymentsAssumption
  <2>2. remaining * LateRefundBp \in Nat /\ remaining * LateRefundBp <= remaining * 10000
    BY <2>1
  <2>3. remaining * LateRefundBp < 10000 * (remaining + 1)
    BY <2>2
  <2>4. (remaining * LateRefundBp) \div 10000 \in 0 .. remaining
    BY <2>2, <2>3, DivisionBounds
  <2> QED
    BY <1>1, <2>4 DEF CancellationRefund
<1>2. CASE ~keepsSome
  BY <1>2 DEF CancellationRefund
<1> QED
  BY <1>1, <1>2

LEMMA CancelMoney ==
    ASSUME RefundInv, NEW b \in Bookings, NEW keepsSome \in BOOLEAN,
           Cancel(b, keepsSome), UNCHANGED <<clock, window, page, hand>>
    PROVE  MoneyInv'
<1> DEFINE row == Changed(SweptRes[b], "cancelled")
           due == IF Refundable(b)
                  THEN CancellationRefund(Amount - pay[b].refunded, keepsSome)
                  ELSE 0
<1>1. /\ FlowSound(SweptRes[b], SweptPay[b], refunds[b], page[b])
      /\ SweptRes[b] \in ReservationRow
      /\ SweptPay[b] \in DepositRow
      /\ SweptPay[b].refunded = pay[b].refunded
      /\ RefundsSound(refunds[b], answers[b], pay[b].refunded)
      /\ SoundTable(res)
  BY FoundDeposit DEF RefundInv
<1>2. /\ row \in ReservationRow
      /\ row.status = "cancelled" /\ row.money = SweptRes[b].money
  <2>1. "cancelled" \in Statuses \ {"none"}
    BY DEF Statuses
  <2>2. SoundRow(row)
    BY <1>1, <2>1, ChangeIsSound
  <2>3. row.status = "cancelled" /\ row.money = SweptRes[b].money
    BY <1>1, RowFields
  <2> QED
    BY <2>2, <2>3 DEF SoundRow
<1>3. CASE /\ Write(b, row, SweptPay[b])
           /\ UNCHANGED <<answers, refunds>>
  BY <1>1, <1>2, <1>3, StatusMoney DEF outside
<1>4. CASE /\ due > 0
           /\ QueueRefundRequest(b, row, due)
  <2>1. Refundable(b)
    BY <1>4
  <2>2. due = CancellationRefund(Amount - pay[b].refunded, keepsSome)
    BY <2>1
  <2> HIDE DEF due
  <2>3. Amount \in Nat /\ pay[b].refunded \in 0 .. Amount
    BY <1>1, PaymentsAssumption DEF RefundsSound
  <2>4. Amount - pay[b].refunded \in Nat
    BY <2>3
  <2>5. due \in 0 .. Amount - pay[b].refunded
    BY <2>2, <2>4, CancellationShare
  <2>6. due \in 1 .. Amount - pay[b].refunded
    BY <1>4, <2>3, <2>5
  <2> HIDE DEF row
  <2> QED
    BY <1>2, <1>4, <2>1, <2>6, QueueMoney
<1>5. CASE /\ SweptRes[b].status = "pending_payment"
           /\ Write(b, ReleasedMoney(row), ReleasedDeposit(SweptPay[b]))
           /\ UNCHANGED <<answers, refunds>>
  <2> DEFINE deposit == ReleasedDeposit(SweptPay[b])
             new == ReleasedMoney(row)
  <2>1. /\ deposit \in DepositRow
        /\ deposit.refunded = SweptPay[b].refunded
        /\ deposit.status = IF SweptPay[b].status \in {"created", "pending"}
                            THEN "expired" ELSE SweptPay[b].status
    BY <1>1 DEF ReleasedDeposit, DepositRow, Deposits
  <2>2. new.status = "cancelled" /\ (new.money = "refunded" => row.money = "refunded")
    BY <1>2 DEF ReleasedMoney, ReservationRow
  <2> HIDE DEF new, deposit, row
  <2>3. FlowSound(new, deposit, refunds[b], page[b])
    BY <1>1, <1>2, <1>5, <2>1, <2>2 DEF FlowSound, Settled
  <2>4. DOMAIN page = Bookings
    BY DEF RefundInv, MoneyInv, RowsPerBooking
  <2>5. Write(b, new, deposit)
    BY <1>5 DEF new, deposit
  <2> QED
    BY <1>1, <1>5, <2>1, <2>3, <2>4, <2>5, HandlerSound
<1> QED
  BY <1>3, <1>4, <1>5 DEF Cancel

LEMMA OperatorRefundMoney ==
    ASSUME RefundInv, NEW b \in Bookings, RequestOperatorRefund(b)
    PROVE  MoneyInv'
<1>1. PICK a \in 1 .. Amount - pay[b].refunded :
          QueueRefundRequest(b, SweptRes[b], a)
  BY DEF RequestOperatorRefund
<1>2. SweptRes[b] \in ReservationRow
  BY FoundDeposit
<1> QED
  BY <1>1, <1>2, QueueMoney DEF RequestOperatorRefund

-----------------------------------------------------------------------------
\* Claims, results and leases: one refund's row is written again

LEMMA FoundClaim ==
    ASSUME RefundInv, NEW b \in Bookings, NEW k \in DOMAIN refunds[b]
    PROVE  /\ refunds[b] \in Seq(RefundRow)
           /\ k \in Nat
           /\ refunds[b][k] \in RefundRow
           /\ HeardOf(refunds[b][k].status, answers[b][k])
           /\ answers[b][k] \in SUBSET Answers
           /\ pay[b].status \in Settled
           /\ page[b] = "settled"
           /\ SweptPay[b] = pay[b]
<1>1. /\ FlowSound(res[b], pay[b], refunds[b], page[b])
      /\ RefundsSound(refunds[b], answers[b], pay[b].refunded)
  BY FoundDeposit
<1>2. /\ refunds[b] \in Seq(RefundRow)
      /\ answers[b] \in [DOMAIN refunds[b] -> SUBSET Answers]
      /\ HeardOf(refunds[b][k].status, answers[b][k])
  BY <1>1 DEF RefundsSound, RefundsTyped, Heard
<1>3. refunds[b][k] \in RefundRow /\ k \in Nat
  BY <1>2, RowsAre
<1>4. refunds[b] /= <<>>
  OBVIOUS
<1>5. pay[b].status \in Settled
  BY <1>1, <1>4 DEF FlowSound
<1>6. page[b] = "settled"
  BY <1>1, <1>5 DEF FlowSound, Settled, Pages
<1>7. SweptPay[b] = pay[b]
  BY <1>5, FoundDeposit
<1> QED
  BY <1>2, <1>3, <1>5, <1>6, <1>7

\* Nothing is in hand that was closed or heard of before.
LEMMA HandRewritten ==
    ASSUME RefundInv, NEW b \in Bookings, NEW k \in DOMAIN refunds[b], NEW row,
           refunds' = [refunds EXCEPT ![b] = [refunds[b] EXCEPT ![k] = row]],
           answers' = answers, hand' \subseteq hand \union {<<b, k>>},
           <<b, k>> \in hand' => row.status = "charging" /\ answers[b][k] = {}
    PROVE  HandSound'
<1>1. RowsPerBooking
  BY DEF RefundInv, MoneyInv
<1>2. /\ \A x \in Bookings \ {b} : refunds'[x] = refunds[x]
      /\ DOMAIN refunds'[b] = DOMAIN refunds[b]
      /\ refunds'[b][k] = row
      /\ \A j \in DOMAIN refunds[b] \ {k} : refunds'[b][j] = refunds[b][j]
  BY <1>1 DEF RowsPerBooking
<1>3. k \in Nat
  BY FoundClaim
<1> SUFFICES ASSUME NEW h \in hand'
             PROVE  /\ h \in Bookings \X Nat
                    /\ h[2] \in DOMAIN refunds'[h[1]]
                    /\ refunds'[h[1]][h[2]].status = "charging"
                    /\ answers'[h[1]][h[2]] = {}
  BY DEF HandSound
<1>4. CASE h = <<b, k>>
  BY <1>2, <1>3, <1>4
<1>5. CASE h \in hand /\ h /= <<b, k>>
  <2>1. /\ h \in Bookings \X Nat
        /\ h[2] \in DOMAIN refunds[h[1]]
        /\ refunds[h[1]][h[2]].status = "charging"
        /\ answers[h[1]][h[2]] = {}
    BY <1>5 DEF RefundInv, MoneyInv, HandSound
  <2>2. h[1] \in Bookings /\ h = <<h[1], h[2]>>
    BY <2>1
  <2>3. CASE h[1] = b
    <3>1. h[2] /= k
      BY <1>5, <2>2, <2>3
    <3> QED
      BY <1>2, <2>1, <2>3, <3>1
  <2>4. CASE h[1] /= b
    BY <1>2, <2>1, <2>2, <2>4
  <2> QED
    BY <2>3, <2>4
<1> QED
  BY <1>4, <1>5

\* A row written again is the only one that changes.
LEMMA RewrittenGrows ==
    ASSUME NEW rs, NEW k \in DOMAIN rs, NEW row,
           row.amount = rs[k].amount, row.late = rs[k].late,
           rs[k].status = "succeeded" => row.status = "succeeded"
    PROVE  RowsGrow(rs, [rs EXCEPT ![k] = row])
  BY DEF RowsGrow

LEMMA RewriteMoney ==
    ASSUME RefundInv, NEW b \in Bookings, NEW k \in DOMAIN refunds[b],
           NEW row, NEW deposit \in DepositRow, Write(b, row, deposit),
           UNCHANGED outside, NEW es, refunds' = [refunds EXCEPT ![b] = es],
           RefundsSound(es, answers[b], deposit.refunded),
           RowsGrow(refunds[b], es), row.status = SweptRes[b].status,
           deposit.status \in Settled,
           deposit.status = "refunded" => AmountOf(es, Done(es)) = Amount,
           row.money = "refunded" => deposit.status = "refunded",
           HandSound'
    PROVE  MoneyInv'
<1>1. /\ page[b] = "settled"
      /\ FlowSound(SweptRes[b], SweptPay[b], refunds[b], page[b])
  BY FoundClaim, FoundDeposit
<1>2. FlowSound(row, deposit, es, page[b])
  BY <1>1, FlowRefunds
<1>3. RowsPerBooking
  BY DEF RefundInv, MoneyInv
<1>4. UNCHANGED <<clock, window, page, answers>>
  BY DEF outside
<1>5. /\ DOMAIN pay' = Bookings
      /\ res'[b] = row /\ pay'[b] = deposit
      /\ \A x \in Bookings \ {b} : res'[x] = SweptRes[x] /\ pay'[x] = SweptPay[x]
  BY RowsWritten
<1>6. Elsewhere(b) /\ refunds'[b] = es
  BY <1>3, <1>4, <1>5 DEF Elsewhere, RowsPerBooking
<1>7. DepositSound(res'[b], pay'[b], refunds'[b], answers'[b], page'[b])
  BY <1>2, <1>4, <1>5, <1>6 DEF DepositSound
<1> QED
  BY <1>6, <1>7, OneBookingStep

LEMMA SweptWrites ==
    ASSUME NEW b \in Bookings, res' = SweptRes, pay' = SweptPay
    PROVE  Write(b, SweptRes[b], SweptPay[b])
<1>1. /\ SweptRes = [SweptRes EXCEPT ![b] = SweptRes[b]]
      /\ SweptPay = [SweptPay EXCEPT ![b] = SweptPay[b]]
  BY DEF SweptRes, SweptPay
<1> QED
  BY <1>1 DEF Write

LEMMA ClaimMoney ==
    ASSUME RefundInv, NEW b \in Bookings, NEW k \in DOMAIN refunds[b],
           ClaimRefund(b, k)
    PROVE  MoneyInv'
<1> DEFINE old == refunds[b][k]
           fee == IF old.status = "requested" THEN FeeReversal(refunds[b], k) ELSE old.fee
           new == [old EXCEPT !.status = "charging", !.leased = TRUE, !.fee = fee]
           es == [refunds[b] EXCEPT ![k] = new]
<1>1. /\ old \in RefundRow
      /\ HeardOf(old.status, answers[b][k])
      /\ pay[b].status \in Settled /\ SweptPay[b] = pay[b]
  BY FoundClaim
<1>2. old.status = "requested" \/ (old.status = "charging" /\ fee = old.fee)
  BY DEF ClaimRefund
<1>3. RefundsSound(refunds[b], answers[b], pay[b].refunded)
  BY FoundDeposit
<1>4. fee \in 0 .. PlatformFee
  <2>1. CASE old.status = "requested"
    <3>1. FeeReversal(refunds[b], k) \in 0 .. PlatformFee
      BY <1>3, <2>1, ClaimedFee
    <3> QED
      BY <2>1, <3>1
  <2>2. CASE old.status /= "requested"
    BY <1>1, <2>2 DEF RefundRow
  <2> QED
    BY <2>1, <2>2
<1>5. old.status = "requested" => fee = FeeReversal(refunds[b], k)
  OBVIOUS
<1>6. DOMAIN refunds = Bookings
  BY DEF RefundInv, MoneyInv, RowsPerBooking
<1>7. refunds' = [refunds EXCEPT ![b] = es]
  BY <1>6 DEF ClaimRefund
<1> HIDE DEF fee
<1>8. /\ new \in RefundRow /\ new.status = "charging" /\ new.amount = old.amount
      /\ new.late = old.late /\ new.fee = fee
  BY <1>1, <1>4 DEF RefundRow, Refunds
<1> HIDE DEF new, old
<1>9. RefundsSound(es, answers[b], pay[b].refunded)
  <2>1. CASE old.status = "requested"
    BY <1>3, <1>5, <1>8, <2>1, ClaimKeepsSound DEF old
  <2>2. CASE old.status = "charging" /\ fee = old.fee
    BY <1>1, <1>3, <1>8, <2>2, EditKeepsSound DEF old, HeardOf, Counted
  <2> QED
    BY <1>2, <2>1, <2>2
<1>10. RowsGrow(refunds[b], es)
  BY <1>2, <1>8, RewrittenGrows DEF old
<1>11. HandSound'
  <2>1. /\ answers' = answers
        /\ hand' = IF answers[b][k] = {} THEN hand \union {<<b, k>>} ELSE hand
    BY DEF ClaimRefund, outside
  <2>2. <<b, k>> \in hand => answers[b][k] = {}
    BY DEF RefundInv, MoneyInv, HandSound
  <2>3. hand' \subseteq hand \union {<<b, k>>}
    BY <2>1
  <2>4. <<b, k>> \in hand' => answers[b][k] = {}
    BY <2>1, <2>2
  <2> QED
    BY <1>7, <1>8, <2>1, <2>3, <2>4, HandRewritten
<1>12. /\ FlowSound(SweptRes[b], SweptPay[b], refunds[b], page[b])
       /\ pay[b] \in DepositRow
  BY FoundDeposit
<1>13. pay[b].status = "refunded" => AmountOf(es, Done(es)) = Amount
  BY <1>1, <1>3, <1>9, <1>10, <1>12, BackInFullStays DEF FlowSound
<1>14. SweptRes[b].money = "refunded" => pay[b].status = "refunded"
  BY <1>1, <1>12 DEF FlowSound
<1>15. Write(b, SweptRes[b], pay[b]) /\ UNCHANGED outside
  BY <1>1, SweptWrites DEF ClaimRefund
<1> QED
  BY <1>1, <1>7, <1>9, <1>10, <1>11, <1>12, <1>13, <1>14, <1>15, RewriteMoney

\* The row a result is recorded in.
Recorded(row, status) == [row EXCEPT !.status = status, !.leased = FALSE]

\* What a result finds: a claimed refund, which no worker has in hand.
LEMMA ResultFinds ==
    ASSUME RefundInv, NEW b \in Bookings, NEW k \in DOMAIN refunds[b],
           NEW status \in Refunds, RefundRecorded(b, k, status),
           refunds[b][k].status \notin Closed, answers[b][k] /= {},
           UNCHANGED <<outside, hand>>
    PROVE  /\ refunds[b][k].status \in {"charging", "refund_pending"}
           /\ Recorded(refunds[b][k], status) \in RefundRow
           /\ Recorded(refunds[b][k], status).status = status
           /\ Recorded(refunds[b][k], status).amount = refunds[b][k].amount
           /\ Recorded(refunds[b][k], status).fee = refunds[b][k].fee
           /\ refunds' = [refunds EXCEPT ![b] =
                            [refunds[b] EXCEPT ![k] = Recorded(refunds[b][k], status)]]
           /\ RowsGrow(refunds[b], [refunds[b] EXCEPT ![k] =
                                        Recorded(refunds[b][k], status)])
           /\ HandSound'
<1> DEFINE old == refunds[b][k]
           new == Recorded(old, status)
           es  == [refunds[b] EXCEPT ![k] = new]
<1>1. old \in RefundRow /\ HeardOf(old.status, answers[b][k])
  BY FoundClaim
<1>2. old.status \in {"charging", "refund_pending"}
  BY <1>1 DEF HeardOf, Closed, RefundRow, Refunds
<1>3. DOMAIN refunds = Bookings
  BY DEF RefundInv, MoneyInv, RowsPerBooking
<1>4. refunds' = [refunds EXCEPT ![b] = es]
  BY <1>3 DEF RefundRecorded, Recorded
<1>5. /\ new \in RefundRow /\ new.status = status /\ new.amount = old.amount
      /\ new.fee = old.fee /\ new.late = old.late
  BY <1>1 DEF RefundRow, Recorded
<1> HIDE DEF new
<1>6. RowsGrow(refunds[b], es)
  BY <1>2, <1>5, RewrittenGrows
<1>7. HandSound'
  <2>1. <<b, k>> \notin hand
    BY DEF RefundInv, MoneyInv, HandSound
  <2>2. answers' = answers /\ hand' \subseteq hand \union {<<b, k>>} /\ <<b, k>> \notin hand'
    BY <2>1 DEF outside
  <2> QED
    BY <1>4, <2>2, HandRewritten
<1> QED
  BY <1>2, <1>4, <1>5, <1>6, <1>7 DEF new

LEMMA PendingMoney ==
    ASSUME RefundInv, NEW b \in Bookings, NEW k \in DOMAIN refunds[b],
           RefundPending(b, k), refunds[b][k].status \notin Closed,
           answers[b][k] /= {}, UNCHANGED <<outside, hand>>
    PROVE  MoneyInv'
<1> DEFINE old == refunds[b][k]
           new == Recorded(old, "refund_pending")
           es  == [refunds[b] EXCEPT ![k] = new]
           row == [SweptRes[b] EXCEPT !.money = "refund_pending"]
<1>1. RefundRecorded(b, k, "refund_pending") /\ "refund_pending" \in Refunds
  BY DEF RefundPending, Refunds
<1>2. /\ old.status \in {"charging", "refund_pending"}
      /\ new \in RefundRow
      /\ new.status = "refund_pending" /\ new.amount = old.amount
      /\ new.fee = old.fee
      /\ refunds' = [refunds EXCEPT ![b] = es]
      /\ RowsGrow(refunds[b], es)
      /\ HandSound'
  BY <1>1, ResultFinds
<1>3. /\ HeardOf(old.status, answers[b][k])
      /\ pay[b].status \in Settled /\ SweptPay[b] = pay[b]
  BY FoundClaim
<1>4. /\ FlowSound(SweptRes[b], SweptPay[b], refunds[b], page[b])
      /\ RefundsSound(refunds[b], answers[b], pay[b].refunded)
      /\ pay[b] \in DepositRow /\ SweptRes[b] \in ReservationRow
  BY FoundDeposit
<1> HIDE DEF new
<1>5. RefundsSound(es, answers[b], pay[b].refunded)
  <2>1. HeardOf(new.status, answers[b][k])
    BY <1>2, <1>3 DEF HeardOf
  <2>2. /\ new.status = "failed" <=> refunds[b][k].status = "failed"
        /\ new.status \in Counted <=> refunds[b][k].status \in Counted
    BY <1>2 DEF Counted
  <2> QED
    BY <1>2, <1>4, <2>1, <2>2, EditKeepsSound
<1> HIDE DEF es
<1>6. pay[b].status = "refunded" => AmountOf(es, Done(es)) = Amount
  BY <1>2, <1>3, <1>4, <1>5, BackInFullStays DEF FlowSound
<1>7. row.status = SweptRes[b].status /\ row.money = "refund_pending"
  BY <1>4, RowFields
<1>8. Write(b, row, pay[b])
  BY <1>3 DEF RefundPending
<1> HIDE DEF row
<1>9. row.money = "refunded" => pay[b].status = "refunded"
  BY <1>7
<1> QED
  BY <1>2, <1>3, <1>4, <1>5, <1>6, <1>7, <1>8, <1>9, RewriteMoney

LEMMA FailedMoney ==
    ASSUME RefundInv, NEW b \in Bookings, NEW k \in DOMAIN refunds[b],
           RefundFailed(b, k), refunds[b][k].status \notin Closed,
           "failed" \in answers[b][k], UNCHANGED <<outside, hand>>
    PROVE  MoneyInv'
<1> DEFINE old == refunds[b][k]
           new == Recorded(old, "failed")
           es  == [refunds[b] EXCEPT ![k] = new]
           row == [SweptRes[b] EXCEPT !.money = "review"]
           left == pay[b].refunded - old.amount
           deposit == [SweptPay[b] EXCEPT !.status = "review",
                                          !.refunded = IF left > 0 THEN left ELSE 0]
<1>1. RefundRecorded(b, k, "failed") /\ "failed" \in Refunds /\ answers[b][k] /= {}
  BY DEF RefundFailed, Refunds
<1>2. /\ old.status \in {"charging", "refund_pending"}
      /\ new \in RefundRow
      /\ new.status = "failed" /\ new.amount = old.amount
      /\ new.fee = old.fee
      /\ refunds' = [refunds EXCEPT ![b] = es]
      /\ RowsGrow(refunds[b], es)
      /\ HandSound'
  BY <1>1, ResultFinds
<1>3. /\ HeardOf(old.status, answers[b][k])
      /\ SweptPay[b] = pay[b]
      /\ old \in RefundRow
  BY FoundClaim
<1>4. /\ RefundsSound(refunds[b], answers[b], pay[b].refunded)
      /\ pay[b] \in DepositRow /\ SweptRes[b] \in ReservationRow
  BY FoundDeposit
<1> HIDE DEF new
<1>5. RefundsSound(es, answers[b], left) /\ left >= 0
  <2>1. HeardOf("failed", answers[b][k])
    BY <1>3 DEF HeardOf
  <2>2. refunds[b][k].status \in Counted
    BY <1>2 DEF Counted
  <2> QED
    BY <1>2, <1>4, <2>1, <2>2, FailKeepsSound
<1> HIDE DEF es
<1>6. left \in 0 .. Amount
  BY <1>5 DEF RefundsSound
<1> HIDE DEF left
<1>7. (IF left > 0 THEN left ELSE 0) = left
  BY <1>6, PaymentsAssumption
<1>8. /\ deposit \in DepositRow /\ deposit.status = "review"
      /\ deposit.refunded = left
  BY <1>3, <1>4, <1>6, <1>7 DEF DepositRow, Deposits
<1>9. row.status = SweptRes[b].status /\ row.money = "review"
  BY <1>4, RowFields
<1>10. Write(b, row, deposit)
  BY DEF RefundFailed, left
<1> HIDE DEF row, deposit
<1>11. /\ deposit.status \in Settled
       /\ deposit.status = "refunded" => AmountOf(es, Done(es)) = Amount
       /\ row.money = "refunded" => deposit.status = "refunded"
  BY <1>8, <1>9 DEF Settled
<1>12. RefundsSound(es, answers[b], deposit.refunded)
  BY <1>5, <1>8
<1> QED
  BY <1>2, <1>8, <1>9, <1>10, <1>11, <1>12, RewriteMoney

LEMMA SucceededMoney ==
    ASSUME RefundInv, NEW b \in Bookings, NEW k \in DOMAIN refunds[b],
           RefundSucceeded(b, k), refunds[b][k].status \notin Closed,
           "succeeded" \in answers[b][k], UNCHANGED <<outside, hand>>
    PROVE  MoneyInv'
<1> DEFINE old == refunds[b][k]
           new == Recorded(old, "succeeded")
           es  == [refunds[b] EXCEPT ![k] = new]
           full == AmountOf(refunds[b], Done(refunds[b]) \union {k}) >= Amount
           back == IF full THEN "refunded" ELSE "partially_refunded"
           more == \E j \in DOMAIN refunds[b] \ {k} : refunds[b][j].status \in InFlight
           row == [SweptRes[b] EXCEPT !.money = IF more THEN "refund_pending" ELSE back]
           deposit == [SweptPay[b] EXCEPT !.status = back]
<1>1. RefundRecorded(b, k, "succeeded") /\ "succeeded" \in Refunds /\ answers[b][k] /= {}
  BY DEF RefundSucceeded, Refunds
<1>2. /\ old.status \in {"charging", "refund_pending"}
      /\ new \in RefundRow
      /\ new.status = "succeeded" /\ new.amount = old.amount
      /\ new.fee = old.fee
      /\ refunds' = [refunds EXCEPT ![b] = es]
      /\ RowsGrow(refunds[b], es)
      /\ HandSound'
  BY <1>1, ResultFinds
<1>3. /\ HeardOf(old.status, answers[b][k])
      /\ SweptPay[b] = pay[b]
      /\ refunds[b] \in Seq(RefundRow)
  BY FoundClaim
<1>4. /\ RefundsSound(refunds[b], answers[b], pay[b].refunded)
      /\ pay[b] \in DepositRow /\ SweptRes[b] \in ReservationRow
  BY FoundDeposit
<1>5. Write(b, row, deposit)
  BY DEF RefundSucceeded
<1>6. back \in {"refunded", "partially_refunded"}
  OBVIOUS
<1>7. /\ deposit \in DepositRow /\ deposit.status = back
      /\ deposit.refunded = pay[b].refunded
  BY <1>3, <1>4, <1>6 DEF DepositRow, Deposits
<1>8. row.status = SweptRes[b].status /\ (row.money = "refunded" => back = "refunded")
  BY <1>4, RowFields
<1> HIDE DEF new, row, deposit, more
<1>9. RefundsSound(es, answers[b], pay[b].refunded)
  <2>1. HeardOf(new.status, answers[b][k])
    BY <1>2, <1>3 DEF HeardOf
  <2>2. /\ new.status = "failed" <=> refunds[b][k].status = "failed"
        /\ new.status \in Counted <=> refunds[b][k].status \in Counted
    BY <1>2 DEF Counted
  <2> QED
    BY <1>2, <1>4, <2>1, <2>2, EditKeepsSound
<1>10. back = "refunded" => AmountOf(es, Done(es)) = Amount
  <2>1. /\ DOMAIN es = DOMAIN refunds[b]
        /\ \A j \in DOMAIN refunds[b] : es[j] = IF j = k THEN new ELSE refunds[b][j]
        /\ \A S \in SUBSET DOMAIN refunds[b] : AmountOf(es, S) = AmountOf(refunds[b], S)
    BY <1>2, <1>3, EditedRows
  <2> HIDE DEF es
  <2>2. /\ Done(es) = Done(refunds[b]) \union {k}
        /\ Done(es) \in SUBSET Live(es)
        /\ Done(es) \in SUBSET DOMAIN refunds[b]
        /\ Live(es) \in SUBSET DOMAIN es
    BY <1>2, <2>1 DEF Done, Live
  <2>3. AmountOf(es, Done(es)) = AmountOf(refunds[b], Done(refunds[b]) \union {k})
    BY <2>1, <2>2
  <2>4. /\ es \in Seq(RefundRow)
        /\ AmountOf(es, Live(es)) = pay[b].refunded
        /\ pay[b].refunded \in 0 .. Amount
    BY <1>9 DEF RefundsSound, RefundsTyped
  <2>5. AmountOf(es, Done(es)) \in Nat /\ AmountOf(es, Done(es)) <= AmountOf(es, Live(es))
    BY <2>2, <2>4, MoneyOf
  <2>6. full => AmountOf(es, Done(es)) >= Amount
    BY <2>3
  <2> HIDE DEF full
  <2> QED
    BY <2>4, <2>5, <2>6, PaymentsAssumption
<1> HIDE DEF back, es
<1>11. /\ deposit.status \in Settled
       /\ deposit.status = "refunded" => AmountOf(es, Done(es)) = Amount
       /\ row.money = "refunded" => deposit.status = "refunded"
       /\ RefundsSound(es, answers[b], deposit.refunded)
  BY <1>6, <1>7, <1>8, <1>9, <1>10 DEF Settled
<1> QED
  BY <1>2, <1>5, <1>7, <1>8, <1>11, RewriteMoney

LEMMA ResultMoney ==
    ASSUME RefundInv, NEW b \in Bookings, NEW k \in DOMAIN refunds[b],
           RecordRefundResult(b, k)
    PROVE  MoneyInv'
<1>1. refunds[b][k].status \notin Closed /\ UNCHANGED <<outside, hand>>
  BY DEF RecordRefundResult
<1>2. CASE "pending" \in answers[b][k] /\ RefundPending(b, k)
  <2>1. answers[b][k] /= {}
    BY <1>2
  <2> QED
    BY <1>1, <1>2, <2>1, PendingMoney
<1>3. CASE "failed" \in answers[b][k] /\ RefundFailed(b, k)
  BY <1>1, <1>3, FailedMoney
<1>4. CASE "succeeded" \in answers[b][k] /\ RefundSucceeded(b, k)
  BY <1>1, <1>4, SucceededMoney
<1> QED
  BY <1>2, <1>3, <1>4 DEF RecordRefundResult

-----------------------------------------------------------------------------
\* What happens outside the region

\* A step outside the region writes no booking and no deposit.
LEMMA AwayMoney ==
    ASSUME RefundInv, NEW b \in Bookings, UNCHANGED <<clock, window, res, pay, page>>,
           DOMAIN refunds' = Bookings, DOMAIN answers' = Bookings,
           \A x \in Bookings \ {b} : refunds'[x] = refunds[x] /\ answers'[x] = answers[x],
           RefundsSound(refunds'[b], answers'[b], pay[b].refunded),
           RowsGrow(refunds[b], refunds'[b]), refunds[b] /= <<>>, HandSound'
    PROVE  MoneyInv'
<1>1. /\ FlowSound(res[b], pay[b], refunds[b], page[b])
      /\ RefundsSound(refunds[b], answers[b], pay[b].refunded)
  BY FoundDeposit
<1>2. pay[b] \in DepositRow /\ pay[b].status \in Settled /\ page[b] = "settled"
  BY <1>1 DEF FlowSound, Settled, Pages
<1>3. pay[b].status = "refunded" => AmountOf(refunds'[b], Done(refunds'[b])) = Amount
  BY <1>1, BackInFullStays DEF FlowSound
<1>4. res[b].money = "refunded" => pay[b].status = "refunded"
  BY <1>1 DEF FlowSound
<1>5. FlowSound(res[b], pay[b], refunds'[b], page[b])
  BY <1>1, <1>2, <1>3, <1>4, FlowRefunds
<1>6. RowsPerBooking'
  BY DEF RefundInv, MoneyInv, RowsPerBooking
<1>7. ASSUME NEW x \in Bookings
      PROVE  DepositSound(res'[x], pay'[x], refunds'[x], answers'[x], page'[x])
  <2>1. CASE x = b
    BY <1>5, <2>1 DEF DepositSound
  <2>2. CASE x /= b
    BY <2>2 DEF RefundInv, MoneyInv
  <2> QED
    BY <2>1, <2>2
<1> QED
  BY <1>6, <1>7 DEF MoneyInv

LEMMA LeaseMoney ==
    ASSUME RefundInv, NEW b \in Bookings, NEW k \in DOMAIN refunds[b], EndLease(b, k)
    PROVE  MoneyInv'
<1> DEFINE old == refunds[b][k]
           new == [old EXCEPT !.leased = FALSE]
           es == [refunds[b] EXCEPT ![k] = new]
<1>1. old \in RefundRow /\ HeardOf(old.status, answers[b][k])
  BY FoundClaim
<1>2. RefundsSound(refunds[b], answers[b], pay[b].refunded)
  BY FoundDeposit
<1>3. /\ DOMAIN refunds = Bookings /\ DOMAIN answers = Bookings
  BY DEF RefundInv, MoneyInv, RowsPerBooking
<1>4. refunds' = [refunds EXCEPT ![b] = es]
  BY <1>3 DEF EndLease
<1>5. /\ new \in RefundRow /\ new.status = old.status /\ new.amount = old.amount
      /\ new.fee = old.fee /\ new.late = old.late
  BY <1>1 DEF RefundRow
<1>6. UNCHANGED <<clock, window, res, pay, page, answers, hand>>
  BY DEF EndLease, outside
<1>7. refunds[b] /= <<>>
  OBVIOUS
<1> HIDE DEF new
<1>8. RefundsSound(es, answers[b], pay[b].refunded)
  BY <1>1, <1>2, <1>5, EditKeepsSound
<1>9. RowsGrow(refunds[b], es)
  BY <1>5, RewrittenGrows
<1>10. HandSound'
  <2>1. hand' \subseteq hand \union {<<b, k>>}
    BY <1>6
  <2>2. <<b, k>> \in hand' => new.status = "charging" /\ answers[b][k] = {}
    BY <1>5, <1>6 DEF RefundInv, MoneyInv, HandSound
  <2> QED
    BY <1>4, <1>6, <2>1, <2>2, HandRewritten
<1> HIDE DEF es
<1>11. /\ refunds'[b] = es
       /\ DOMAIN refunds' = Bookings /\ DOMAIN answers' = Bookings
       /\ answers'[b] = answers[b]
       /\ \A x \in Bookings \ {b} : refunds'[x] = refunds[x] /\ answers'[x] = answers[x]
  BY <1>3, <1>4, <1>6
<1>12. /\ RefundsSound(refunds'[b], answers'[b], pay[b].refunded)
       /\ RowsGrow(refunds[b], refunds'[b])
  BY <1>8, <1>9, <1>11
<1> QED
  BY <1>6, <1>7, <1>10, <1>11, <1>12, AwayMoney

\* The provider says something of a refund that was claimed.
LEMMA SaidMoney ==
    ASSUME RefundInv, NEW b \in Bookings, NEW k \in DOMAIN refunds[b],
           NEW said \in SUBSET Answers, HeardOf(refunds[b][k].status, said),
           answers' = [answers EXCEPT ![b][k] = said],
           UNCHANGED <<clock, window, res, pay, refunds, page>>,
           hand' \subseteq hand, <<b, k>> \notin hand'
    PROVE  MoneyInv'
<1>1. RefundsSound(refunds[b], answers[b], pay[b].refunded)
  BY FoundDeposit
<1>2. DOMAIN refunds = Bookings /\ DOMAIN answers = Bookings
  BY DEF RefundInv, MoneyInv, RowsPerBooking
<1>3. /\ DOMAIN answers' = Bookings
      /\ answers'[b] = [answers[b] EXCEPT ![k] = said]
      /\ \A x \in Bookings \ {b} : answers'[x] = answers[x]
  BY <1>2
<1>4. RefundsSound(refunds[b], [answers[b] EXCEPT ![k] = said], pay[b].refunded)
  BY <1>1, AnswerKeepsSound
<1>5. RowsGrow(refunds[b], refunds[b])
  BY DEF RowsGrow
<1>6. HandSound'
  <2>1. \A x \in Bookings : \A j \in DOMAIN refunds[x] :
            <<x, j>> \in hand' => answers'[x][j] = answers[x][j]
    BY <1>2, <1>3
  <2> QED
    BY <2>1, HandStays
<1>7. refunds[b] /= <<>>
  OBVIOUS
<1> QED
  BY <1>2, <1>3, <1>4, <1>5, <1>6, <1>7, AwayMoney

LEMMA SendMoney ==
    ASSUME RefundInv, NEW b \in Bookings, NEW k \in DOMAIN refunds[b], SendRefund(b, k)
    PROVE  MoneyInv'
<1>1. PICK answer \in Answers : answers' = [answers EXCEPT ![b][k] = {answer}]
  BY DEF SendRefund
<1>2. refunds[b][k].status = "charging"
  BY DEF SendRefund, RefundInv, MoneyInv, HandSound
<1>3. {answer} \in SUBSET Answers /\ HeardOf(refunds[b][k].status, {answer})
  BY <1>2 DEF HeardOf
<1>4. /\ UNCHANGED <<clock, window, res, pay, refunds, page>>
      /\ hand' \subseteq hand /\ <<b, k>> \notin hand'
  BY DEF SendRefund
<1> QED
  BY <1>1, <1>3, <1>4, SaidMoney

LEMMA SettleMoney ==
    ASSUME RefundInv, NEW b \in Bookings, NEW k \in DOMAIN refunds[b], SettleRefund(b, k)
    PROVE  MoneyInv'
<1>1. PICK answer \in Closed :
          answers' = [answers EXCEPT ![b][k] = @ \union {answer}]
  BY DEF SettleRefund
<1> DEFINE said == {"pending"} \union {answer}
<1>2. answers[b][k] = {"pending"} /\ HeardOf(refunds[b][k].status, answers[b][k])
  BY FoundClaim DEF SettleRefund
<1>3. said \in SUBSET Answers /\ HeardOf(refunds[b][k].status, said)
  BY <1>2 DEF HeardOf, Answers, Closed
<1>4. answers' = [answers EXCEPT ![b][k] = said]
  BY <1>1, <1>2 DEF RefundInv, MoneyInv, RowsPerBooking
<1>5. <<b, k>> \notin hand
  BY <1>2 DEF RefundInv, MoneyInv, HandSound
<1>6. /\ UNCHANGED <<clock, window, res, pay, refunds, page>>
      /\ hand' \subseteq hand /\ <<b, k>> \notin hand'
  BY <1>5 DEF SettleRefund
<1> HIDE DEF said
<1> QED
  BY <1>3, <1>4, <1>6, SaidMoney

LEMMA LoseMoney ==
    ASSUME RefundInv, UNCHANGED <<outside, res, pay, refunds>>, hand' \subseteq hand
    PROVE  MoneyInv'
<1>1. HandSound'
  BY HandStays DEF outside
<1>2. RowsPerBooking'
  BY DEF RefundInv, MoneyInv, RowsPerBooking, outside
<1> QED
  BY <1>1, <1>2 DEF RefundInv, MoneyInv, outside

-----------------------------------------------------------------------------
\* The invariant and what follows from it

LEMMA BookingMoney ==
    ASSUME RefundInv, NEW b \in Bookings, OnBooking(b)
    PROVE  MoneyInv'
<1>1. CASE GuestCancel(b)
  <2>1. (clock = "late") \in BOOLEAN
    OBVIOUS
  <2> QED
    BY <1>1, <2>1, CancelMoney DEF GuestCancel
<1>2. CASE RestaurantCancel(b)
  BY <1>2, CancelMoney DEF RestaurantCancel
<1>3. CASE EndWindow(b)
  <2>1. window' \in [Bookings -> BOOLEAN] /\ clock' \in Hours
    BY <1>3 DEF EndWindow, RefundInv, MoneyInv, RowsPerBooking
  <2> QED
    BY <1>3, <2>1, OutsideMoney DEF EndWindow
<1>4. ASSUME NEW how \in {"captured", "shut"}, EndPage(b, how)
      PROVE  MoneyInv'
  <2>1. window' \in [Bookings -> BOOLEAN] /\ clock' \in Hours
    BY <1>4 DEF EndPage, RefundInv, MoneyInv, RowsPerBooking
  <2> QED
    BY <1>4, <2>1, OutsideMoney DEF EndPage
<1> QED
  BY <1>1, <1>2, <1>3, <1>4, CreateMoney, BindMoney, PaidMoney, ExpiredMoney,
     TransitionMoney, UndoMoney, OperatorRefundMoney, DisputeMoney DEF OnBooking

LEMMA NextMoney ==
    ASSUME RefundInv, [PaymentsNext]_paymentVars
    PROVE  MoneyInv'
<1>1. CASE UNCHANGED paymentVars
  BY <1>1, LoseMoney DEF paymentVars, outside
<1>2. CASE SweepExpired
  BY <1>2, SweepMoney DEF SweepExpired
<1>3. CASE PassTime
  <2>1. clock' \in Hours /\ window' \in [Bookings -> BOOLEAN]
    BY <1>3 DEF PassTime, LaterThan, Hours, RefundInv, MoneyInv, RowsPerBooking
  <2> QED
    BY <1>3, <2>1, OutsideMoney DEF PassTime
<1>4. ASSUME NEW b \in Bookings, NEW k \in DOMAIN refunds[b], OnRefund(b, k)
      PROVE  MoneyInv'
  <2>1. CASE LoseClaim(b, k)
    BY <2>1, LoseMoney DEF LoseClaim
  <2> QED
    BY <1>4, <2>1, ClaimMoney, ResultMoney, LeaseMoney, SendMoney, SettleMoney DEF OnRefund
<1> QED
  BY <1>1, <1>2, <1>3, <1>4, BookingMoney DEF PaymentsNext

LEMMA RefundInvHolds == PaymentsSpec => []RefundInv
<1>1. PaymentsInit => RefundInv
  <2> SUFFICES ASSUME PaymentsInit PROVE RefundInv
    OBVIOUS
  <2>1. SoundTable(res)
    BY DEF PaymentsInit, SoundTable, SoundRow, NoReservation, ReservationRow,
           Statuses, Money, Kept
  <2>2. RowsPerBooking /\ HandSound
    BY DEF PaymentsInit, RowsPerBooking, Hours, HandSound
  <2>3. RefundsSound(<<>>, <<>>, 0)
    <3>1. <<>> \in Seq(RefundRow) /\ DOMAIN <<>> = {}
      BY EmptySeq
    <3>2. RefundsTyped(<<>>, <<>>)
      BY <3>1 DEF RefundsTyped
    <3>3. Live(<<>>) = {} /\ Counting(<<>>) = {}
      BY DEF Live, Counting
    <3>4. /\ AmountOf(<<>>, {}) = 0 /\ FeeOf(<<>>, {}) = 0
      BY NoMoney
    <3>5. Heard(<<>>, <<>>)
      BY <3>1 DEF Heard
    <3>6. Amount \in Nat \ {0} /\ PlatformFee \in Nat
      BY PaymentsAssumption
    <3>7. FeesFit(<<>>)
      BY <3>3, <3>4, <3>6 DEF FeesFit
    <3>8. 0 \in 0 .. Amount
      BY <3>6
    <3>9. AmountOf(<<>>, Live(<<>>)) = 0
      BY <3>3, <3>4
    <3> QED
      BY <3>2, <3>5, <3>7, <3>8, <3>9 DEF RefundsSound
  <2>4. FlowSound(NoReservation, NoDeposit, <<>>, "none")
    <3>1. NoDeposit \in DepositRow
      BY PaymentsAssumption DEF NoDeposit, DepositRow, Deposits, Disputes
    <3> QED
      BY <3>1 DEF FlowSound, NoReservation, NoDeposit, Pages
  <2>5. ASSUME NEW b \in Bookings
        PROVE  DepositSound(res[b], pay[b], refunds[b], answers[b], page[b])
    <3>1. /\ res[b] = NoReservation /\ pay[b] = NoDeposit /\ refunds[b] = <<>>
          /\ answers[b] = <<>> /\ page[b] = "none" /\ NoDeposit.refunded = 0
      BY DEF PaymentsInit, NoDeposit
    <3> QED
      BY <2>3, <2>4, <3>1 DEF DepositSound
  <2> QED
    BY <2>1, <2>2, <2>5 DEF RefundInv, MoneyInv
<1>2. RefundInv /\ [PaymentsNext]_paymentVars => RefundInv'
  <2> SUFFICES ASSUME RefundInv, [PaymentsNext]_paymentVars PROVE RefundInv'
    OBVIOUS
  <2>1. MoneyInv'
    BY NextMoney
  <2>2. SoundTable(res')
    BY NextKeepsTable DEF RefundInv
  <2> QED
    BY <2>1, <2>2 DEF RefundInv, SoundTable, SoundRow
<1> QED
  BY <1>1, <1>2, PTL DEF PaymentsSpec

LEMMA PagesTyped == PaymentsSpec => [](page \in [Bookings -> Pages])
<1> DEFINE Typed == page \in [Bookings -> Pages]
<1>1. PaymentsInit => Typed
  BY DEF PaymentsInit, Pages
<1>2. Typed /\ [PaymentsNext]_paymentVars => Typed'
  <2> SUFFICES ASSUME Typed, [PaymentsNext]_paymentVars PROVE Typed'
    OBVIOUS
  <2>1. CASE UNCHANGED paymentVars \/ SweepExpired \/ PassTime
    BY <2>1 DEF paymentVars, SweepExpired, PassTime, outside
  <2>2. ASSUME NEW b \in Bookings, OnBooking(b)
        PROVE  \/ page' = page
               \/ \E pg \in Pages : page' = [page EXCEPT ![b] = pg]
    <3>1. CASE CreateBooking(b) \/ OperatorTransition(b) \/ Undo(b) \/ RecordDispute(b)
      BY <3>1 DEF CreateBooking, OperatorTransition, Undo, RecordDispute, outside
    <3>2. CASE \/ GuestCancel(b) \/ RestaurantCancel(b) \/ RequestOperatorRefund(b)
               \/ EndWindow(b)
      BY <3>2 DEF GuestCancel, RestaurantCancel, RequestOperatorRefund, EndWindow
    <3>3. CASE BindPaymentSession(b) \/ PaidEvent(b) \/ ExpiredEvent(b)
      BY <3>3 DEF BindPaymentSession, PaidEvent, ExpiredEvent, Pages
    <3>4. CASE EndPage(b, "captured") \/ EndPage(b, "shut")
      BY <3>4 DEF EndPage, Pages
    <3> QED
      BY <2>2, <3>1, <3>2, <3>3, <3>4 DEF OnBooking
  <2>3. ASSUME NEW b \in Bookings, NEW k \in DOMAIN refunds[b], OnRefund(b, k)
        PROVE  page' = page
    BY <2>3 DEF OnRefund, ClaimRefund, RecordRefundResult, EndLease, SendRefund,
                SettleRefund, LoseClaim, outside
  <2> QED
    BY <2>1, <2>2, <2>3 DEF PaymentsNext
<1> QED
  BY <1>1, <1>2, PTL DEF PaymentsSpec

\* Types: no handler, whatever order they come in, writes a status, an amount
\* or an answer that is none.
THEOREM PaymentsTypeCorrect == PaymentsSpec => []PaymentsTypeOK
<1>1. ASSUME RefundInv, LateInv, page \in [Bookings -> Pages]
      PROVE  PaymentsTypeOK
  <2>1. PICK F : pay \in [Bookings -> DepositOf(F)]
    BY <1>1 DEF LateInv, PayShape
  <2>2. \A b \in Bookings : pay[b] \in DepositRow
    BY <1>1 DEF RefundInv, MoneyInv, DepositSound, FlowSound
  <2>3. pay \in [Bookings -> DepositRow]
    BY <2>1, <2>2
  <2>4. \A b \in Bookings : /\ refunds[b] \in Seq(RefundRow)
                            /\ answers[b] \in [DOMAIN refunds[b] -> SUBSET Answers]
    BY <1>1 DEF RefundInv, MoneyInv, DepositSound, RefundsSound, RefundsTyped
  <2>5. \A h \in hand : h[1] \in Bookings /\ h[2] \in DOMAIN refunds[h[1]]
    BY <1>1 DEF RefundInv, MoneyInv, HandSound
  <2>6. /\ clock \in Hours /\ window \in [Bookings -> BOOLEAN]
        /\ res \in [Bookings -> ReservationRow]
    BY <1>1 DEF RefundInv, SoundTable, MoneyInv, RowsPerBooking
  <2> QED
    BY <1>1, <2>3, <2>4, <2>5, <2>6 DEF PaymentsTypeOK
<1> QED
  BY <1>1, RefundInvHolds, LateInvHolds, PagesTyped, PTL

\* What the provider has given back of the refunds rs, when it said an.
BackOf(rs, an) == AmountOf(rs, {k \in DOMAIN rs : "succeeded" \in an[k]})

\* What is back was reserved.
LEMMA BackFits ==
    ASSUME NEW rs, NEW an, NEW n, RefundsSound(rs, an, n)
    PROVE  BackOf(rs, an) \in 0 .. n
<1> DEFINE back == {k \in DOMAIN rs : "succeeded" \in an[k]}
<1>1. /\ rs \in Seq(RefundRow)
      /\ AmountOf(rs, Live(rs)) = n
      /\ back \in SUBSET Live(rs)
      /\ Live(rs) \in SUBSET DOMAIN rs
  BY DEF RefundsSound, RefundsTyped, Heard, HeardOf, Live
<1> HIDE DEF back
<1>2. /\ AmountOf(rs, back) <= AmountOf(rs, Live(rs))
      /\ AmountOf(rs, back) \in Nat
      /\ AmountOf(rs, Live(rs)) \in Nat
  BY <1>1, MoneyOf
<1>3. AmountOf(rs, back) \in 0 .. n
  BY <1>1, <1>2
<1> QED
  BY <1>3 DEF BackOf, back

LEMMA BackInFull ==
    ASSUME NEW rs, NEW an, NEW n, RefundsSound(rs, an, n),
           AmountOf(rs, Done(rs)) = Amount
    PROVE  BackOf(rs, an) = Amount
<1> DEFINE back == {k \in DOMAIN rs : "succeeded" \in an[k]}
<1>1. /\ rs \in Seq(RefundRow)
      /\ Done(rs) \in SUBSET back
      /\ back \in SUBSET DOMAIN rs
  BY DEF RefundsSound, RefundsTyped, Heard, HeardOf, Done
<1> HIDE DEF back
<1>2. AmountOf(rs, Done(rs)) <= AmountOf(rs, back) /\ AmountOf(rs, back) \in Nat
  BY <1>1, MoneyOf
<1>3. BackOf(rs, an) = AmountOf(rs, back)
  BY DEF BackOf, back
<1>4. BackOf(rs, an) \in 0 .. n /\ n \in 0 .. Amount
  BY BackFits DEF RefundsSound
<1> QED
  BY <1>2, <1>3, <1>4, PaymentsAssumption

\* What a deposit reserves is what its refunds that have not failed ask for:
\* for any amount, any number of refunds and any order of their results.
THEOREM ReserveStaysExact == PaymentsSpec => []ReserveIsExact
<1>1. RefundInv => ReserveIsExact
  BY DEF RefundInv, MoneyInv, DepositSound, RefundsSound, ReserveIsExact
<1> QED
  BY <1>1, RefundInvHolds, PTL

\* The provider never gives back more than the guest paid: what it has returned
\* is reserved still, because a refund that succeeded there never fails here.
THEOREM NothingReturnedTwice == PaymentsSpec => []NeverMoreThanPaid
<1>1. ASSUME RefundInv, NEW b \in Bookings
      PROVE  Returned(b) <= Amount
  <2>1. /\ RefundsSound(refunds[b], answers[b], pay[b].refunded)
        /\ pay[b].refunded \in 0 .. Amount
    BY <1>1, FoundDeposit DEF RefundsSound
  <2>2. Returned(b) \in 0 .. pay[b].refunded
    BY <2>1, BackFits DEF Returned, BackOf
  <2> QED
    BY <2>1, <2>2, PaymentsAssumption
<1>2. RefundInv => NeverMoreThanPaid
  BY <1>1 DEF NeverMoreThanPaid
<1> QED
  BY <1>2, RefundInvHolds, PTL

\* A deposit, and its booking, are called refunded only when the provider has
\* returned all of it.
THEOREM RefundedIsReturned == PaymentsSpec => []RefundedMeansReturned
<1>1. ASSUME RefundInv, NEW b \in Bookings
      PROVE  /\ pay[b].status = "refunded" => Returned(b) = Amount
             /\ res[b].money = "refunded" => pay[b].status = "refunded"
  <2>1. /\ RefundsSound(refunds[b], answers[b], pay[b].refunded)
        /\ FlowSound(res[b], pay[b], refunds[b], page[b])
    BY <1>1, FoundDeposit
  <2>2. pay[b].status = "refunded" => BackOf(refunds[b], answers[b]) = Amount
    BY <2>1, BackInFull DEF FlowSound
  <2> QED
    BY <2>1, <2>2 DEF FlowSound, Returned, BackOf
<1>2. RefundInv => RefundedMeansReturned
  BY <1>1 DEF RefundedMeansReturned
<1> QED
  BY <1>2, RefundInvHolds, PTL

\* Once a deposit is back in full, the refunds that succeeded give back all of
\* the platform's fee on it: no other refund counts then, since each has an
\* amount and nothing is left to ask for.
THEOREM FeeIsBackInFull == PaymentsSpec => []FeeGoesBackInFull
<1>1. ASSUME RefundInv, NEW b \in Bookings, pay[b].status = "refunded"
      PROVE  FeeOf(refunds[b], Done(refunds[b])) = PlatformFee
  <2> DEFINE rs == refunds[b]
             C == Counting(rs)
  <2>1. /\ RefundsSound(rs, answers[b], pay[b].refunded)
        /\ AmountOf(rs, Done(rs)) = Amount
    BY <1>1, FoundDeposit DEF FlowSound
  <2>2. /\ rs \in Seq(RefundRow)
        /\ AmountOf(rs, Live(rs)) = pay[b].refunded
        /\ pay[b].refunded \in 0 .. Amount
        /\ FeesFit(rs)
    BY <2>1 DEF RefundsSound, RefundsTyped
  <2>3. /\ Done(rs) \in SUBSET C
        /\ C \in SUBSET Live(rs)
        /\ Live(rs) \in SUBSET DOMAIN rs
        /\ C \in SUBSET DOMAIN rs
    BY DEF Done, Counting, Counted, Live
  <2> HIDE DEF rs
  <2>4. /\ AmountOf(rs, C) <= AmountOf(rs, Live(rs))
        /\ AmountOf(rs, Done(rs)) <= AmountOf(rs, C)
        /\ AmountOf(rs, C) \in Nat
    BY <2>2, <2>3, MoneyOf
  <2>5. AmountOf(rs, C) = Amount
    BY <2>1, <2>2, <2>4, PaymentsAssumption
  <2>6. C \subseteq Done(rs)
    <3> SUFFICES ASSUME NEW k \in C, k \notin Done(rs) PROVE FALSE
      OBVIOUS
    <3>1. Done(rs) \in SUBSET (C \ {k}) /\ C \ {k} \in SUBSET DOMAIN rs
      BY <2>3
    <3>2. rs[k].amount \in 1 .. Amount
      BY <2>2, <2>3, RowsAre DEF RefundRow
    <3>3. AmountOf(rs, C \ {k}) = AmountOf(rs, C) - rs[k].amount
      BY <2>2, <2>3, MoneyOf
    <3>4. AmountOf(rs, Done(rs)) <= AmountOf(rs, C \ {k})
      BY <2>2, <3>1, MoneyOf
    <3> QED
      BY <2>1, <2>5, <3>2, <3>3, <3>4, PaymentsAssumption
  <2>7. FeeOf(rs, C) = PlatformFee
    BY <2>2, <2>5 DEF FeesFit
  <2>8. C = Done(rs)
    BY <2>3, <2>6
  <2> HIDE DEF C
  <2> QED
    BY <2>7, <2>8 DEF rs
<1>2. RefundInv => FeeGoesBackInFull
  BY <1>1 DEF FeeGoesBackInFull
<1> QED
  BY <1>2, RefundInvHolds, PTL

\* Nobody pays for nothing: a payment the region has answered for a booking
\* that stays expired has a refund of its own.
THEOREM ExpiredPaymentIsReturned == PaymentsSpec => []ExpiredPaymentGoesBack
<1>1. RefundInv => ExpiredPaymentGoesBack
  BY DEF RefundInv, MoneyInv, DepositSound, FlowSound, ExpiredPaymentGoesBack
<1> QED
  BY <1>1, RefundInvHolds, PTL

-----------------------------------------------------------------------------
\* The deposit's money, one movement at a time

\* A row that is written again or added gives nothing back by itself.
LEMMA EditGivesNothing ==
    ASSUME NEW rs \in Seq(RefundRow), NEW k \in DOMAIN rs, NEW row \in RefundRow,
           row.amount = rs[k].amount, NEW an
    PROVE  BackOf([rs EXCEPT ![k] = row], an) = BackOf(rs, an)
<1> DEFINE es == [rs EXCEPT ![k] = row]
           back == {j \in DOMAIN rs : "succeeded" \in an[j]}
<1>1. /\ DOMAIN es = DOMAIN rs
      /\ \A S \in SUBSET DOMAIN rs : AmountOf(es, S) = AmountOf(rs, S)
  BY EditedRows
<1> HIDE DEF es
<1>2. AmountOf(es, back) = AmountOf(rs, back)
  BY <1>1
<1> QED
  BY <1>1, <1>2 DEF BackOf, es

LEMMA AddGivesNothing ==
    ASSUME NEW rs, NEW an, RefundsTyped(rs, an), NEW row \in RefundRow
    PROVE  BackOf(Append(rs, row), Append(an, {})) = BackOf(rs, an)
<1> DEFINE es == Append(rs, row)
           ao == Append(an, {})
           n == Len(rs) + 1
           back == {j \in DOMAIN rs : "succeeded" \in an[j]}
<1>1. rs \in Seq(RefundRow)
  BY DEF RefundsTyped
<1>2. /\ es \in Seq(RefundRow)
      /\ Len(es) = n
      /\ DOMAIN es = DOMAIN rs \union {n}
      /\ \A j \in DOMAIN rs : es[j] = rs[j]
  BY <1>1, AddedRow
<1>3. /\ \A j \in DOMAIN rs : ao[j] = an[j]
      /\ ao[n] = {}
  BY <1>2, AddedAnswer
<1> HIDE DEF es, ao, n
<1>4. {j \in DOMAIN es : "succeeded" \in ao[j]} = back
  BY <1>2, <1>3
<1>5. back \in SUBSET DOMAIN rs /\ back \subseteq DOMAIN es
  BY <1>2
<1>6. \A j \in back : es[j].amount = rs[j].amount
  BY <1>2
<1> HIDE DEF back
<1>7. AmountOf(es, back) = AmountOf(rs, back)
  BY <1>5, <1>6, SameMoney
<1> QED
  BY <1>4, <1>7 DEF BackOf, back, es, ao

\* An answer gives back its refund's amount if it is the first to say so.
LEMMA AnswerGivesBack ==
    ASSUME NEW rs, NEW an, RefundsTyped(rs, an), NEW k \in DOMAIN rs,
           NEW said, "succeeded" \notin an[k]
    PROVE  /\ "succeeded" \in said =>
                  BackOf(rs, [an EXCEPT ![k] = said]) = BackOf(rs, an) + rs[k].amount
           /\ "succeeded" \notin said =>
                  BackOf(rs, [an EXCEPT ![k] = said]) = BackOf(rs, an)
<1> DEFINE ao == [an EXCEPT ![k] = said]
           back == {j \in DOMAIN rs : "succeeded" \in an[j]}
           given == {j \in DOMAIN rs : "succeeded" \in ao[j]}
<1>1. rs \in Seq(RefundRow) /\ DOMAIN an = DOMAIN rs
  BY DEF RefundsTyped
<1>2. \A j \in DOMAIN rs : ao[j] = IF j = k THEN said ELSE an[j]
  BY <1>1
<1>3. /\ "succeeded" \in said => given = back \union {k}
      /\ "succeeded" \notin said => given = back
  BY <1>2
<1>4. back \in SUBSET DOMAIN rs /\ k \in DOMAIN rs \ back
  OBVIOUS
<1>5. BackOf(rs, ao) = AmountOf(rs, given) /\ BackOf(rs, an) = AmountOf(rs, back)
  BY DEF BackOf
<1> HIDE DEF ao, back, given
<1>6. AmountOf(rs, back \union {k}) = AmountOf(rs, back) + rs[k].amount
  BY <1>1, <1>4, MoneyOf
<1> QED
  BY <1>3, <1>5, <1>6 DEF ao

\* One deposit's purses, and whether it is called refunded.
Purse(b) == <<Keeps[b], Owes[b], Backs[b], b \in CalledRefunded>>

LEMMA PurseIs ==
    ASSUME NEW b \in Bookings
    PROVE  /\ Keeps[b] = IF page[b] = "settled" THEN Amount - pay[b].refunded ELSE 0
           /\ Owes[b] = pay[b].refunded - BackOf(refunds[b], answers[b])
           /\ Backs[b] = BackOf(refunds[b], answers[b])
           /\ b \in CalledRefunded <=> pay[b].status = "refunded"
  BY DEF Keeps, Owes, Backs, CalledRefunded, Returned, BackOf

LEMMA PurseBecomes ==
    ASSUME NEW b \in Bookings
    PROVE  /\ Keeps'[b] = IF page'[b] = "settled" THEN Amount - pay'[b].refunded ELSE 0
           /\ Owes'[b] = pay'[b].refunded - BackOf(refunds'[b], answers'[b])
           /\ Backs'[b] = BackOf(refunds'[b], answers'[b])
           /\ b \in CalledRefunded' <=> pay'[b].status = "refunded"
  BY DEF Keeps, Owes, Backs, CalledRefunded, Returned, BackOf

LEMMA PurseNumbers ==
    ASSUME RefundInv, NEW b \in Bookings
    PROVE  /\ Amount \in Nat \ {0}
           /\ pay[b].refunded \in 0 .. Amount
           /\ BackOf(refunds[b], answers[b]) \in 0 .. pay[b].refunded
  BY FoundDeposit, BackFits, PaymentsAssumption DEF RefundsSound

\* A deposit that is not settled has given nothing and owes nothing.
LEMMA UnsettledIsEmpty ==
    ASSUME RefundInv, NEW b \in Bookings, pay[b].status \notin Settled
    PROVE  /\ page[b] /= "settled" /\ refunds[b] = <<>>
           /\ pay[b].refunded = 0
           /\ BackOf(refunds[b], answers[b]) = 0
<1>1. /\ FlowSound(res[b], pay[b], refunds[b], page[b])
      /\ RefundsSound(refunds[b], answers[b], pay[b].refunded)
  BY FoundDeposit
<1>2. page[b] /= "settled" /\ refunds[b] = <<>>
  BY <1>1 DEF FlowSound
<1>3. Live(refunds[b]) = {}
  BY <1>2 DEF Live
<1>4. pay[b].refunded = 0
  BY <1>1, <1>3, NoMoney DEF RefundsSound
<1> QED
  BY <1>2, <1>4, PurseNumbers

\* The money of every deposit but b's is where it was.
OthersStay(b) == \A x \in Bookings \ {b} : Purse(x)' = Purse(x)

LEMMA PurseStays ==
    ASSUME NEW b \in Bookings,
           pay'[b].refunded = pay[b].refunded,
           pay'[b].status = "refunded" <=> pay[b].status = "refunded",
           page'[b] = "settled" <=> page[b] = "settled",
           BackOf(refunds'[b], answers'[b]) = BackOf(refunds[b], answers[b])
    PROVE  Purse(b)' = Purse(b)
<1>1. /\ Keeps'[b] = Keeps[b] /\ Owes'[b] = Owes[b] /\ Backs'[b] = Backs[b]
      /\ (b \in CalledRefunded') = (b \in CalledRefunded)
  BY PurseIs, PurseBecomes
<1> QED
  BY <1>1 DEF Purse

LEMMA OneMove ==
    ASSUME NEW b \in Bookings, OthersStay(b)
    PROVE  /\ Keeps' = [Keeps EXCEPT ![b] = Keeps'[b]]
           /\ Owes' = [Owes EXCEPT ![b] = Owes'[b]]
           /\ Backs' = [Backs EXCEPT ![b] = Backs'[b]]
           /\ Keeps'[b] = Keeps[b] => Keeps' = Keeps
           /\ Owes'[b] = Owes[b] => Owes' = Owes
           /\ Backs'[b] = Backs[b] => Backs' = Backs
           /\ b \in CalledRefunded' => CalledRefunded' = CalledRefunded \union {b}
           /\ (b \in CalledRefunded') = (b \in CalledRefunded)
                  => CalledRefunded' = CalledRefunded
<1>1. ASSUME NEW x \in Bookings \ {b}
      PROVE  /\ Keeps'[x] = Keeps[x] /\ Owes'[x] = Owes[x] /\ Backs'[x] = Backs[x]
             /\ (x \in CalledRefunded') = (x \in CalledRefunded)
  BY DEF OthersStay, Purse
<1>2. /\ DOMAIN Keeps' = Bookings /\ DOMAIN Owes' = Bookings /\ DOMAIN Backs' = Bookings
      /\ DOMAIN Keeps = Bookings /\ DOMAIN Owes = Bookings /\ DOMAIN Backs = Bookings
      /\ CalledRefunded \subseteq Bookings /\ CalledRefunded' \subseteq Bookings
      /\ Keeps' = [x \in Bookings |-> Keeps'[x]]
      /\ Owes' = [x \in Bookings |-> Owes'[x]]
      /\ Backs' = [x \in Bookings |-> Backs'[x]]
      /\ Keeps = [x \in Bookings |-> Keeps[x]]
      /\ Owes = [x \in Bookings |-> Owes[x]]
      /\ Backs = [x \in Bookings |-> Backs[x]]
  BY DEF Keeps, Owes, Backs, CalledRefunded
<1>3. Keeps' = [Keeps EXCEPT ![b] = Keeps'[b]]
  BY <1>1, <1>2
<1>4. Owes' = [Owes EXCEPT ![b] = Owes'[b]]
  BY <1>1, <1>2
<1>5. Backs' = [Backs EXCEPT ![b] = Backs'[b]]
  BY <1>1, <1>2
<1>6. /\ b \in CalledRefunded' => CalledRefunded' = CalledRefunded \union {b}
      /\ (b \in CalledRefunded') = (b \in CalledRefunded)
             => CalledRefunded' = CalledRefunded
  BY <1>1, <1>2
<1>7. /\ Keeps = [Keeps EXCEPT ![b] = Keeps[b]]
      /\ Owes = [Owes EXCEPT ![b] = Owes[b]]
      /\ Backs = [Backs EXCEPT ![b] = Backs[b]]
  BY DEF Keeps, Owes, Backs
<1> QED
  BY <1>3, <1>4, <1>5, <1>6, <1>7

LEMMA NoMove ==
    ASSUME NEW b \in Bookings, OthersStay(b), Purse(b)' = Purse(b)
    PROVE  UNCHANGED Ledger!ledger
<1>1. /\ Keeps'[b] = Keeps[b] /\ Owes'[b] = Owes[b] /\ Backs'[b] = Backs[b]
      /\ (b \in CalledRefunded') = (b \in CalledRefunded)
  BY DEF Purse
<1> QED
  BY <1>1, OneMove DEF Ledger!ledger

\* The steps of the ledger, read off one deposit's purses.
LEMMA EarnMove ==
    ASSUME NEW b \in Bookings, OthersStay(b), Ledger!NotPaid(b),
           Keeps'[b] = Amount, Owes'[b] = Owes[b], Backs'[b] = Backs[b],
           (b \in CalledRefunded') = (b \in CalledRefunded)
    PROVE  Ledger!LedgerNext
<1>1. UNCHANGED <<Owes, Backs, CalledRefunded>>
  BY OneMove
<1>2. Ledger!Earn(b)
  BY <1>1, OneMove DEF Ledger!Earn
<1> QED
  BY <1>2 DEF Ledger!LedgerNext

LEMMA OweMove ==
    ASSUME NEW b \in Bookings, OthersStay(b), Ledger!NotPaid(b),
           Owes'[b] = Amount, Keeps'[b] = Keeps[b], Backs'[b] = Backs[b],
           (b \in CalledRefunded') = (b \in CalledRefunded)
    PROVE  Ledger!LedgerNext
<1>1. UNCHANGED <<Keeps, Backs, CalledRefunded>>
  BY OneMove
<1>2. Ledger!OweAll(b)
  BY <1>1, OneMove DEF Ledger!OweAll
<1> QED
  BY <1>2 DEF Ledger!LedgerNext

LEMMA PromiseMove ==
    ASSUME NEW b \in Bookings, OthersStay(b), NEW n \in 1 .. Amount, n <= Keeps[b],
           Keeps'[b] = Keeps[b] - n, Owes'[b] = Owes[b] + n, Backs'[b] = Backs[b],
           (b \in CalledRefunded') = (b \in CalledRefunded)
    PROVE  Ledger!LedgerNext
<1>1. UNCHANGED <<Backs, CalledRefunded>>
  BY OneMove
<1>2. Ledger!Promise(b, n)
  BY <1>1, OneMove DEF Ledger!Promise
<1> QED
  BY <1>2 DEF Ledger!LedgerNext

LEMMA RefuseMove ==
    ASSUME NEW b \in Bookings, OthersStay(b), NEW n \in 1 .. Amount, n <= Owes[b],
           Keeps'[b] = Keeps[b] + n, Owes'[b] = Owes[b] - n, Backs'[b] = Backs[b],
           (b \in CalledRefunded') = (b \in CalledRefunded)
    PROVE  Ledger!LedgerNext
<1>1. UNCHANGED <<Backs, CalledRefunded>>
  BY OneMove
<1>2. Ledger!Refuse(b, n)
  BY <1>1, OneMove DEF Ledger!Refuse
<1> QED
  BY <1>2 DEF Ledger!LedgerNext

LEMMA BackMove ==
    ASSUME NEW b \in Bookings, OthersStay(b), NEW n \in 1 .. Amount, n <= Owes[b],
           Owes'[b] = Owes[b] - n, Backs'[b] = Backs[b] + n, Keeps'[b] = Keeps[b],
           (b \in CalledRefunded') = (b \in CalledRefunded)
    PROVE  Ledger!LedgerNext
<1>1. UNCHANGED <<Keeps, CalledRefunded>>
  BY OneMove
<1>2. Ledger!GiveBack(b, n)
  BY <1>1, OneMove DEF Ledger!GiveBack
<1> QED
  BY <1>2 DEF Ledger!LedgerNext

LEMMA SayMove ==
    ASSUME NEW b \in Bookings, OthersStay(b), Backs[b] = Amount, b \in CalledRefunded',
           Owes'[b] = Owes[b], Backs'[b] = Backs[b], Keeps'[b] = Keeps[b]
    PROVE  Ledger!LedgerNext
<1>1. UNCHANGED <<Keeps, Owes, Backs>>
  BY OneMove
<1>2. Ledger!Say(b)
  BY <1>1, OneMove DEF Ledger!Say
<1> QED
  BY <1>2 DEF Ledger!LedgerNext

-----------------------------------------------------------------------------
\* Each handler is one movement of its deposit's money, or none

LedgerStep == [Ledger!LedgerNext]_(Ledger!ledger)

\* The sweep moves no money.
LEMMA SweptPurse ==
    ASSUME RefundInv, NEW b \in Bookings, pay'[b] = SweptPay[b], page'[b] = page[b],
           refunds'[b] = refunds[b], answers'[b] = answers[b]
    PROVE  Purse(b)' = Purse(b)
<1>1. SweptPay[b].refunded = pay[b].refunded
  BY FoundDeposit
<1>2. SweptPay[b].status = "refunded" <=> pay[b].status = "refunded"
  BY FoundDeposit DEF Settled
<1> QED
  BY <1>1, <1>2, PurseStays

LEMMA WriteMovesOne ==
    ASSUME RefundInv, NEW b \in Bookings, NEW row, NEW deposit,
           Write(b, row, deposit),
           \A x \in Bookings \ {b} : /\ page'[x] = page[x]
                                     /\ refunds'[x] = refunds[x]
                                     /\ answers'[x] = answers[x]
    PROVE  OthersStay(b) /\ pay'[b] = deposit
<1>1. pay'[b] = deposit /\ \A x \in Bookings \ {b} : pay'[x] = SweptPay[x]
  BY RowsWritten
<1>2. ASSUME NEW x \in Bookings \ {b}
      PROVE  Purse(x)' = Purse(x)
  BY <1>1, SweptPurse
<1> QED
  BY <1>1, <1>2 DEF OthersStay

\* A handler that writes no refund and settles no page.
LEMMA QuietHandler ==
    ASSUME RefundInv, NEW b \in Bookings, NEW row, NEW deposit,
           Write(b, row, deposit), UNCHANGED <<refunds, answers>>,
           \A x \in Bookings \ {b} : page'[x] = page[x],
           page'[b] = "settled" <=> page[b] = "settled",
           deposit.refunded = pay[b].refunded,
           deposit.status = "refunded" <=> pay[b].status = "refunded"
    PROVE  LedgerStep
<1>1. OthersStay(b) /\ pay'[b] = deposit
  BY WriteMovesOne
<1>2. Purse(b)' = Purse(b)
  BY <1>1, PurseStays
<1> QED
  BY <1>1, <1>2, NoMove DEF LedgerStep

\* ... and leaves the deposit as the sweep left it.
LEMMA SweptHandler ==
    ASSUME RefundInv, NEW b \in Bookings, NEW row, NEW deposit,
           Write(b, row, deposit), UNCHANGED <<refunds, answers, page>>,
           deposit.refunded = SweptPay[b].refunded,
           deposit.status = SweptPay[b].status
    PROVE  LedgerStep
<1>1. /\ deposit.refunded = pay[b].refunded
      /\ deposit.status = "refunded" <=> pay[b].status = "refunded"
  BY FoundDeposit DEF Settled
<1> QED
  BY <1>1, QuietHandler

LEMMA CreateLedger ==
    ASSUME RefundInv, NEW b \in Bookings, CreateBooking(b)
    PROVE  LedgerStep
<1> DEFINE deposit == [NoDeposit EXCEPT !.status = "created"]
<1>1. pay[b].status = "none"
  BY FoundDeposit DEF CreateBooking, FlowSound
<1>2. pay[b].refunded = 0
  BY <1>1, UnsettledIsEmpty DEF Settled
<1>3. deposit.refunded = 0 /\ deposit.status = "created"
  BY DEF NoDeposit
<1> HIDE DEF deposit
<1>4. \E row : Write(b, row, deposit)
  BY DEF CreateBooking, deposit
<1> QED
  BY <1>1, <1>2, <1>3, <1>4, QuietHandler DEF CreateBooking, outside

LEMMA BindLedger ==
    ASSUME RefundInv, NEW b \in Bookings, BindPaymentSession(b)
    PROVE  LedgerStep
<1> DEFINE deposit == [pay[b] EXCEPT !.bound = TRUE, !.status = "pending"]
<1>1. pay[b].status = "created" /\ pay[b] \in DepositRow
  BY FoundDeposit DEF BindPaymentSession
<1>2. page[b] /= "settled"
  BY <1>1, UnsettledIsEmpty DEF Settled
<1>3. deposit.refunded = pay[b].refunded /\ deposit.status = "pending"
  BY <1>1 DEF DepositRow
<1> HIDE DEF deposit
<1>4. Write(b, SweptRes[b], deposit) /\ page' = [page EXCEPT ![b] = "open"]
  BY DEF BindPaymentSession, deposit
<1>5. page'[b] = "open" /\ \A x \in Bookings \ {b} : page'[x] = page[x]
  BY <1>4 DEF RefundInv, MoneyInv, RowsPerBooking
<1>6. UNCHANGED <<refunds, answers>>
  BY DEF BindPaymentSession
<1> QED
  BY <1>1, <1>2, <1>3, <1>4, <1>5, <1>6, QuietHandler

LEMMA ExpiredLedger ==
    ASSUME RefundInv, NEW b \in Bookings, ExpiredEvent(b)
    PROVE  LedgerStep
<1>1. /\ page[b] = "shut" /\ SweptPay[b].status = "pending"
      /\ UNCHANGED <<refunds, answers>>
  BY DEF ExpiredEvent
<1>2. pay[b] \in DepositRow /\ pay[b].status /= "refunded"
  BY <1>1, FoundDeposit DEF Settled
<1>3. PICK deposit :
          /\ Write(b, SweptRes[b], deposit)
          /\ deposit.refunded = pay[b].refunded
          /\ deposit.status \in {"created", "expired"}
  <2> DEFINE freed == [pay[b] EXCEPT !.bound = FALSE, !.status = "created"]
             ended == [pay[b] EXCEPT !.status = "expired"]
  <2>1. /\ freed.refunded = pay[b].refunded /\ freed.status = "created"
        /\ ended.refunded = pay[b].refunded /\ ended.status = "expired"
    BY <1>2 DEF DepositRow
  <2>2. Write(b, SweptRes[b], freed) \/ Write(b, SweptRes[b], ended)
    BY DEF ExpiredEvent
  <2> HIDE DEF freed, ended
  <2> QED
    BY <2>1, <2>2
<1>4. page' = page \/ page' = [page EXCEPT ![b] = "none"]
  BY DEF ExpiredEvent
<1>5. page'[b] /= "settled" /\ \A x \in Bookings \ {b} : page'[x] = page[x]
  BY <1>1, <1>4 DEF RefundInv, MoneyInv, RowsPerBooking
<1> QED
  BY <1>1, <1>2, <1>3, <1>5, QuietHandler

LEMMA TransitionLedger ==
    ASSUME RefundInv, NEW b \in Bookings, OperatorTransition(b) \/ Undo(b)
    PROVE  LedgerStep
<1>1. \E row : Write(b, row, SweptPay[b])
  BY DEF OperatorTransition, Undo
<1>2. UNCHANGED <<refunds, answers, page>>
  BY DEF OperatorTransition, Undo, outside
<1> QED
  BY <1>1, <1>2, SweptHandler

LEMMA DisputeLedger ==
    ASSUME RefundInv, NEW b \in Bookings, RecordDispute(b)
    PROVE  LedgerStep
<1>1. PICK row, status : Write(b, row, [SweptPay[b] EXCEPT !.dispute = status])
  BY DEF RecordDispute
<1> DEFINE deposit == [SweptPay[b] EXCEPT !.dispute = status]
<1>2. deposit.refunded = SweptPay[b].refunded /\ deposit.status = SweptPay[b].status
  BY FoundDeposit DEF DepositRow
<1>3. UNCHANGED <<refunds, answers, page>>
  BY DEF RecordDispute, outside
<1> HIDE DEF deposit
<1> QED
  BY <1>1, <1>2, <1>3, SweptHandler DEF deposit

\* A step that writes no row, whatever it does to a page that is not settled.
LEMMA AwayLedger ==
    ASSUME UNCHANGED <<pay, refunds, answers>>,
           \A x \in Bookings : page'[x] = "settled" <=> page[x] = "settled"
    PROVE  LedgerStep
<1>1. Keeps' = Keeps /\ Owes' = Owes /\ Backs' = Backs /\ CalledRefunded' = CalledRefunded
  BY DEF Keeps, Owes, Backs, CalledRefunded, Returned
<1> QED
  BY <1>1 DEF LedgerStep, Ledger!ledger

\* The guest's payment arrives: the restaurant keeps it, or owes all of it.
LEMMA PaymentFinds ==
    ASSUME RefundInv, NEW b \in Bookings, Unpaid(b)
    PROVE  /\ page[b] /= "settled" /\ refunds[b] = <<>>
           /\ pay[b].refunded = 0 /\ pay[b].status \notin Settled
           /\ BackOf(refunds[b], answers[b]) = 0
           /\ Ledger!NotPaid(b)
<1>1. pay[b].status \notin Settled
  BY FoundDeposit DEF Unpaid, Settled
<1>2. /\ page[b] /= "settled" /\ refunds[b] = <<>> /\ pay[b].refunded = 0
      /\ BackOf(refunds[b], answers[b]) = 0
  BY <1>1, UnsettledIsEmpty
<1>3. Keeps[b] = 0 /\ Owes[b] = 0 /\ Backs[b] = 0
  BY <1>2, PurseIs
<1> QED
  BY <1>1, <1>2, <1>3 DEF Ledger!NotPaid

LEMMA ConfirmLedger ==
    ASSUME RefundInv, NEW b \in Bookings, NEW row, Confirm(b, row), Unpaid(b),
           page' = [page EXCEPT ![b] = "settled"]
    PROVE  LedgerStep
<1> DEFINE deposit == [SweptPay[b] EXCEPT !.status = "succeeded"]
<1>1. /\ pay[b].refunded = 0 /\ pay[b].status \notin Settled
      /\ BackOf(refunds[b], answers[b]) = 0
      /\ Ledger!NotPaid(b)
  BY PaymentFinds
<1>2. deposit.refunded = 0 /\ deposit.status = "succeeded"
  BY <1>1, FoundDeposit DEF DepositRow
<1>3. Write(b, row, deposit) /\ UNCHANGED <<refunds, answers>>
  BY DEF Confirm
<1> HIDE DEF deposit
<1>4. page'[b] = "settled" /\ \A x \in Bookings \ {b} : page'[x] = page[x]
  BY DEF RefundInv, MoneyInv, RowsPerBooking
<1>5. OthersStay(b) /\ pay'[b] = deposit
  BY <1>3, <1>4, WriteMovesOne
<1>6. Amount - 0 = Amount /\ 0 - 0 = 0
  BY PaymentsAssumption
<1>7. Keeps'[b] = Amount /\ Owes'[b] = 0 /\ Backs'[b] = 0 /\ b \notin CalledRefunded'
  BY <1>1, <1>2, <1>3, <1>4, <1>5, <1>6, PurseBecomes
<1>8. Owes[b] = 0 /\ Backs[b] = 0 /\ b \notin CalledRefunded
  BY <1>1, <1>6, PurseIs DEF Settled
<1> QED
  BY <1>1, <1>5, <1>7, <1>8, EarnMove DEF LedgerStep

LEMMA LateLedger ==
    ASSUME RefundInv, NEW b \in Bookings, PaidTooLate(b), Unpaid(b),
           page' = [page EXCEPT ![b] = "settled"]
    PROVE  LedgerStep
<1> DEFINE deposit == [SweptPay[b] EXCEPT !.status = "succeeded", !.refunded = Amount]
<1>1. /\ page[b] /= "settled"
      /\ pay[b].refunded = 0 /\ pay[b].status \notin Settled
      /\ BackOf(refunds[b], answers[b]) = 0
      /\ Ledger!NotPaid(b)
  BY PaymentFinds
<1>2. deposit.refunded = Amount /\ deposit.status = "succeeded"
  BY FoundDeposit DEF DepositRow
<1>3. PICK row :
          /\ Write(b, row, deposit)
          /\ refunds' = [refunds EXCEPT ![b] = Append(refunds[b], LateRow)]
          /\ answers' = [answers EXCEPT ![b] = Append(answers[b], {})]
  BY DEF PaidTooLate, QueueLateRefund, AddRefund, LateRow
<1> HIDE DEF deposit
<1>4. /\ page'[b] = "settled"
      /\ refunds'[b] = Append(refunds[b], LateRow)
      /\ answers'[b] = Append(answers[b], {})
      /\ \A x \in Bookings \ {b} : /\ page'[x] = page[x] /\ refunds'[x] = refunds[x]
                                   /\ answers'[x] = answers[x]
  BY <1>3 DEF RefundInv, MoneyInv, RowsPerBooking
<1>5. OthersStay(b) /\ pay'[b] = deposit
  BY <1>3, <1>4, WriteMovesOne
<1>6. BackOf(refunds'[b], answers'[b]) = 0
  BY <1>1, <1>4, FoundDeposit, LateRowIs, AddGivesNothing DEF RefundsSound
<1>7. Amount - 0 = Amount /\ Amount - Amount = 0 /\ 0 - 0 = 0
  BY PaymentsAssumption
<1>8. Keeps'[b] = 0 /\ Owes'[b] = Amount /\ Backs'[b] = 0 /\ b \notin CalledRefunded'
  BY <1>2, <1>4, <1>5, <1>6, <1>7, PurseBecomes
<1>9. Keeps[b] = 0 /\ Backs[b] = 0 /\ b \notin CalledRefunded
  BY <1>1, PurseIs DEF Settled
<1> QED
  BY <1>1, <1>5, <1>8, <1>9, OweMove DEF LedgerStep

LEMMA PaidLedger ==
    ASSUME RefundInv, NEW b \in Bookings, PaidEvent(b)
    PROVE  LedgerStep
<1>1. page' = [page EXCEPT ![b] = "settled"]
  BY DEF PaidEvent
<1>2. CASE PaidAgain(b)
  <2>1. page[b] = "settled"
    BY <1>2, FoundDeposit DEF PaidAgain, PaidEvent, Unpaid, FlowSound
  <2>2. page'[b] = "settled" /\ \A x \in Bookings \ {b} : page'[x] = page[x]
    BY <1>1 DEF RefundInv, MoneyInv, RowsPerBooking
  <2>3. /\ SweptPay[b].refunded = pay[b].refunded
        /\ SweptPay[b].status = "refunded" <=> pay[b].status = "refunded"
    BY FoundDeposit DEF Settled
  <2> QED
    BY <1>2, <2>1, <2>2, <2>3, QuietHandler DEF PaidAgain
<1>3. CASE Unpaid(b) /\ (PaidInTime(b) \/ PaidAfterwards(b) \/ PaidRestores(b))
  <2>1. \E row : Confirm(b, row)
    BY <1>3 DEF PaidInTime, PaidAfterwards, PaidRestores
  <2> QED
    BY <1>1, <1>3, <2>1, ConfirmLedger
<1>4. CASE Unpaid(b) /\ PaidTooLate(b)
  BY <1>1, <1>4, LateLedger
<1> QED
  BY <1>2, <1>3, <1>4 DEF PaidEvent

\* A refund is asked for: a promise of what the deposit still keeps.
LEMMA QueueLedger ==
    ASSUME RefundInv, NEW b \in Bookings, NEW row, Refundable(b),
           NEW a \in 1 .. Amount - pay[b].refunded, QueueRefundRequest(b, row, a),
           page' = page
    PROVE  LedgerStep
<1> DEFINE deposit == [SweptPay[b] EXCEPT !.refunded = @ + a]
           request == [status |-> "requested", amount |-> a, late |-> FALSE,
                       fee |-> 0, leased |-> FALSE]
           n == pay[b].refunded
           m == BackOf(refunds[b], answers[b])
<1>1. /\ SweptPay[b] = pay[b] /\ pay[b] \in DepositRow
      /\ RefundsTyped(refunds[b], answers[b])
      /\ page[b] = "settled"
  BY FoundDeposit DEF Refundable, Settled, RefundsSound, FlowSound, Pages
<1>2. deposit.refunded = n + a /\ deposit.status = pay[b].status
  BY <1>1 DEF DepositRow
<1>3. Amount \in Nat /\ PlatformFee \in Nat /\ n \in 0 .. Amount /\ m \in 0 .. n
  BY PurseNumbers, PaymentsAssumption
<1>4. a \in 1 .. Amount
  BY <1>3
<1>5. request \in RefundRow
  BY <1>3, <1>4 DEF RefundRow, Refunds
<1>6. PICK new :
          /\ Write(b, new, deposit)
          /\ refunds' = [refunds EXCEPT ![b] = Append(refunds[b], request)]
          /\ answers' = [answers EXCEPT ![b] = Append(answers[b], {})]
  BY DEF QueueRefundRequest, AddRefund
<1> HIDE DEF deposit, request
<1>7. /\ refunds'[b] = Append(refunds[b], request)
      /\ answers'[b] = Append(answers[b], {})
      /\ \A x \in Bookings \ {b} : refunds'[x] = refunds[x] /\ answers'[x] = answers[x]
  BY <1>6 DEF RefundInv, MoneyInv, RowsPerBooking
<1>8. OthersStay(b) /\ pay'[b] = deposit
  BY <1>6, <1>7, WriteMovesOne
<1>9. BackOf(refunds'[b], answers'[b]) = m
  BY <1>1, <1>5, <1>7, AddGivesNothing
<1> HIDE DEF m, n
<1>10. /\ Keeps'[b] = Amount - (n + a) /\ Owes'[b] = (n + a) - m /\ Backs'[b] = m
       /\ b \in CalledRefunded' <=> pay[b].status = "refunded"
  BY <1>1, <1>2, <1>8, <1>9, PurseBecomes
<1>11. /\ Keeps[b] = Amount - n /\ Owes[b] = n - m /\ Backs[b] = m
       /\ b \in CalledRefunded <=> pay[b].status = "refunded"
  BY <1>1, PurseIs DEF m, n
<1>12. a <= Amount - n /\ a \in Int
  BY <1>3 DEF n
<1>13. Keeps'[b] = Keeps[b] - a /\ Owes'[b] = Owes[b] + a /\ a <= Keeps[b]
  <2>1. Amount \in Int /\ n \in Int /\ m \in Int
    BY <1>3
  <2> QED
    BY <1>10, <1>11, <1>12, <2>1
<1>14. (b \in CalledRefunded') = (b \in CalledRefunded)
  BY <1>10, <1>11
<1> QED
  BY <1>4, <1>8, <1>10, <1>11, <1>13, <1>14, PromiseMove DEF LedgerStep

LEMMA CancelLedger ==
    ASSUME RefundInv, NEW b \in Bookings, NEW keepsSome \in BOOLEAN,
           Cancel(b, keepsSome), page' = page
    PROVE  LedgerStep
<1> DEFINE row == Changed(SweptRes[b], "cancelled")
           due == IF Refundable(b)
                  THEN CancellationRefund(Amount - pay[b].refunded, keepsSome)
                  ELSE 0
<1>1. CASE due > 0 /\ QueueRefundRequest(b, row, due)
  <2>1. Refundable(b)
    BY <1>1
  <2>2. due = CancellationRefund(Amount - pay[b].refunded, keepsSome)
    BY <2>1
  <2> HIDE DEF due, row
  <2>3. Amount \in Nat /\ pay[b].refunded \in 0 .. Amount
    BY PurseNumbers
  <2>4. Amount - pay[b].refunded \in Nat
    BY <2>3
  <2>5. due \in 0 .. Amount - pay[b].refunded
    BY <2>2, <2>4, CancellationShare
  <2>6. due \in 1 .. Amount - pay[b].refunded
    BY <1>1, <2>3, <2>5
  <2> QED
    BY <1>1, <2>1, <2>6, QueueLedger
<1>2. CASE Write(b, row, SweptPay[b]) /\ UNCHANGED <<answers, refunds>>
  <2> HIDE DEF row
  <2> QED
    BY <1>2, SweptHandler
<1>3. CASE /\ Write(b, ReleasedMoney(row), ReleasedDeposit(SweptPay[b]))
           /\ UNCHANGED <<answers, refunds>>
  <2> DEFINE deposit == ReleasedDeposit(SweptPay[b])
             new == ReleasedMoney(row)
  <2>1. SweptPay[b] \in DepositRow /\ SweptPay[b].refunded = pay[b].refunded
    BY FoundDeposit
  <2>2. /\ deposit.refunded = pay[b].refunded
        /\ deposit.status = "refunded" <=> SweptPay[b].status = "refunded"
    BY <2>1 DEF ReleasedDeposit, DepositRow
  <2>3. deposit.status = "refunded" <=> pay[b].status = "refunded"
    BY <2>2, FoundDeposit DEF Settled
  <2>4. Write(b, new, deposit)
    BY <1>3
  <2> HIDE DEF row, new, deposit
  <2> QED
    BY <1>3, <2>2, <2>3, <2>4, QuietHandler
<1> QED
  BY <1>1, <1>2, <1>3 DEF Cancel

LEMMA OperatorRefundLedger ==
    ASSUME RefundInv, NEW b \in Bookings, RequestOperatorRefund(b)
    PROVE  LedgerStep
<1>1. PICK a \in 1 .. Amount - pay[b].refunded :
          QueueRefundRequest(b, SweptRes[b], a)
  BY DEF RequestOperatorRefund
<1> QED
  BY <1>1, QueueLedger DEF RequestOperatorRefund

\* A refund's row is written again: who claims it and what was heard of it move
\* no money, a refusal takes its promise back, and the last success is said.
LEMMA ResultWrites ==
    ASSUME RefundInv, NEW b \in Bookings, NEW k \in DOMAIN refunds[b], NEW new,
           new \in RefundRow, new.amount = refunds[b][k].amount,
           refunds' = [refunds EXCEPT ![b] = [refunds[b] EXCEPT ![k] = new]],
           NEW row, NEW deposit, Write(b, row, deposit), UNCHANGED outside
    PROVE  /\ OthersStay(b) /\ pay'[b] = deposit
           /\ page'[b] = "settled" /\ page[b] = "settled"
           /\ BackOf(refunds'[b], answers'[b]) = BackOf(refunds[b], answers[b])
<1>1. /\ answers' = answers /\ page' = page
      /\ refunds'[b] = [refunds[b] EXCEPT ![k] = new]
      /\ \A x \in Bookings \ {b} : refunds'[x] = refunds[x]
  BY DEF RefundInv, MoneyInv, RowsPerBooking, outside
<1>2. OthersStay(b) /\ pay'[b] = deposit
  BY <1>1, WriteMovesOne
<1>3. refunds[b] \in Seq(RefundRow) /\ page[b] = "settled"
  BY FoundClaim
<1>4. BackOf(refunds'[b], answers'[b]) = BackOf(refunds[b], answers[b])
  BY <1>1, <1>3, EditGivesNothing
<1> QED
  BY <1>1, <1>2, <1>3, <1>4

LEMMA RewriteLedger ==
    ASSUME RefundInv, NEW b \in Bookings, NEW k \in DOMAIN refunds[b], NEW new,
           new \in RefundRow, new.amount = refunds[b][k].amount,
           refunds' = [refunds EXCEPT ![b] = [refunds[b] EXCEPT ![k] = new]],
           NEW row, Write(b, row, SweptPay[b]), UNCHANGED outside
    PROVE  LedgerStep
<1>1. /\ OthersStay(b) /\ pay'[b] = SweptPay[b]
      /\ page'[b] = "settled" /\ page[b] = "settled"
      /\ BackOf(refunds'[b], answers'[b]) = BackOf(refunds[b], answers[b])
  BY ResultWrites
<1>2. SweptPay[b] = pay[b]
  BY FoundClaim
<1>3. Purse(b)' = Purse(b)
  BY <1>1, <1>2, PurseStays
<1> QED
  BY <1>1, <1>3, NoMove DEF LedgerStep

LEMMA ClaimLedger ==
    ASSUME RefundInv, NEW b \in Bookings, NEW k \in DOMAIN refunds[b],
           ClaimRefund(b, k)
    PROVE  LedgerStep
<1> DEFINE old == refunds[b][k]
           fee == IF old.status = "requested" THEN FeeReversal(refunds[b], k) ELSE old.fee
           new == [old EXCEPT !.status = "charging", !.leased = TRUE, !.fee = fee]
<1>1. old \in RefundRow
  BY FoundClaim
<1>2. fee \in 0 .. PlatformFee
  <2>1. CASE old.status = "requested"
    <3>1. RefundsSound(refunds[b], answers[b], pay[b].refunded)
      BY FoundDeposit
    <3>2. FeeReversal(refunds[b], k) \in 0 .. PlatformFee
      BY <2>1, <3>1, ClaimedFee
    <3> QED
      BY <2>1, <3>2
  <2>2. CASE old.status /= "requested"
    BY <1>1, <2>2 DEF RefundRow
  <2> QED
    BY <2>1, <2>2
<1>3. refunds' = [refunds EXCEPT ![b] = [refunds[b] EXCEPT ![k] = new]]
  BY DEF ClaimRefund, RefundInv, MoneyInv, RowsPerBooking
<1> HIDE DEF fee
<1>4. new \in RefundRow /\ new.amount = old.amount
  BY <1>1, <1>2 DEF RefundRow, Refunds
<1>5. Write(b, SweptRes[b], SweptPay[b]) /\ UNCHANGED outside
  BY SweptWrites DEF ClaimRefund
<1> HIDE DEF new
<1> QED
  BY <1>3, <1>4, <1>5, RewriteLedger

LEMMA PendingLedger ==
    ASSUME RefundInv, NEW b \in Bookings, NEW k \in DOMAIN refunds[b],
           RefundPending(b, k), refunds[b][k].status \notin Closed,
           answers[b][k] /= {}, UNCHANGED <<outside, hand>>
    PROVE  LedgerStep
<1> DEFINE new == Recorded(refunds[b][k], "refund_pending")
<1>1. /\ new \in RefundRow /\ new.amount = refunds[b][k].amount
      /\ refunds' = [refunds EXCEPT ![b] = [refunds[b] EXCEPT ![k] = new]]
  BY ResultFinds DEF RefundPending, Refunds
<1>2. \E row : Write(b, row, SweptPay[b])
  BY DEF RefundPending
<1> HIDE DEF new
<1> QED
  BY <1>1, <1>2, RewriteLedger

\* A deposit that is back in full has no refund left that could be refused.
LEMMA BackInFullIsOver ==
    ASSUME RefundInv, NEW b \in Bookings, NEW k \in DOMAIN refunds[b],
           refunds[b][k].status \notin Closed
    PROVE  pay[b].status /= "refunded"
<1> SUFFICES ASSUME pay[b].status = "refunded" PROVE FALSE
  OBVIOUS
<1> DEFINE rs == refunds[b]
           others == Live(rs) \ {k}
<1>1. /\ rs \in Seq(RefundRow)
      /\ AmountOf(rs, Live(rs)) \in 0 .. Amount
      /\ AmountOf(rs, Done(rs)) = Amount
  BY FoundDeposit DEF RefundsSound, RefundsTyped, FlowSound
<1>2. /\ k \in Live(rs) /\ Live(rs) \in SUBSET DOMAIN rs
      /\ Done(rs) \in SUBSET others /\ others \in SUBSET DOMAIN rs
  BY DEF Live, Done, Closed
<1>3. rs[k].amount \in 1 .. Amount
  BY FoundClaim DEF RefundRow
<1> HIDE DEF rs, others
<1>4. AmountOf(rs, Live(rs) \ {k}) = AmountOf(rs, Live(rs)) - rs[k].amount
  BY <1>1, <1>2, MoneyOf
<1>5. AmountOf(rs, Done(rs)) <= AmountOf(rs, others)
  BY <1>1, <1>2, MoneyOf
<1> QED
  BY <1>1, <1>3, <1>4, <1>5, PaymentsAssumption DEF others

LEMMA FailedLedger ==
    ASSUME RefundInv, NEW b \in Bookings, NEW k \in DOMAIN refunds[b],
           RefundFailed(b, k), refunds[b][k].status \notin Closed,
           "failed" \in answers[b][k], UNCHANGED <<outside, hand>>
    PROVE  LedgerStep
<1> DEFINE old == refunds[b][k]
           new == Recorded(old, "failed")
           a == old.amount
           n == pay[b].refunded
           m == BackOf(refunds[b], answers[b])
           left == IF n - a > 0 THEN n - a ELSE 0
           deposit == [SweptPay[b] EXCEPT !.status = "review", !.refunded = left]
           row == [SweptRes[b] EXCEPT !.money = "review"]
<1>1. /\ new \in RefundRow /\ new.amount = a
      /\ refunds' = [refunds EXCEPT ![b] = [refunds[b] EXCEPT ![k] = new]]
  BY ResultFinds DEF RefundFailed, Refunds
<1>2. Write(b, row, deposit)
  BY DEF RefundFailed
<1>3. deposit.refunded = left /\ deposit.status = "review"
  BY FoundDeposit DEF DepositRow
<1> HIDE DEF new, row, deposit
<1>4. /\ OthersStay(b) /\ pay'[b] = deposit
      /\ page'[b] = "settled" /\ page[b] = "settled"
      /\ BackOf(refunds'[b], answers'[b]) = m
  BY <1>1, <1>2, ResultWrites
<1>5. a \in 1 .. Amount /\ Amount \in Nat /\ n \in 0 .. Amount /\ m \in 0 .. n
  BY FoundClaim, PurseNumbers DEF RefundRow
<1>6. /\ a + m <= n
      /\ pay[b].status /= "refunded"
  <2>1. RefundsSound(refunds[b], answers[b], n) /\ RefundsTyped(refunds[b], answers[b])
    BY FoundDeposit DEF RefundsSound
  <2> DEFINE back == {j \in DOMAIN refunds[b] : "succeeded" \in answers[b][j]}
             rs == refunds[b]
  <2>2. /\ rs \in Seq(RefundRow) /\ n = AmountOf(rs, Live(rs))
        /\ back \union {k} \in SUBSET Live(rs)
        /\ Live(rs) \in SUBSET DOMAIN rs
        /\ k \in DOMAIN rs \ back /\ back \in SUBSET DOMAIN rs
    BY <2>1 DEF RefundsSound, RefundsTyped, Heard, HeardOf, Live, Closed
  <2>3. m = AmountOf(rs, back)
    BY DEF BackOf
  <2> HIDE DEF back, rs, m
  <2>4. AmountOf(rs, back \union {k}) = AmountOf(rs, back) + rs[k].amount
    BY <2>2, MoneyOf
  <2>5. AmountOf(rs, back \union {k}) <= AmountOf(rs, Live(rs))
    BY <2>2, MoneyOf
  <2>6. m + a <= n
    BY <2>2, <2>3, <2>4, <2>5 DEF rs
  <2> HIDE DEF a, n
  <2> QED
    BY <1>5, <2>6, BackInFullIsOver
<1> HIDE DEF m, n, a
<1>7. left = n - a
  BY <1>5, <1>6
<1> HIDE DEF left
<1>8. /\ Keeps'[b] = Amount - left /\ Owes'[b] = left - m /\ Backs'[b] = m
      /\ b \notin CalledRefunded'
  BY <1>3, <1>4, PurseBecomes
<1>9. /\ Keeps[b] = Amount - n /\ Owes[b] = n - m /\ Backs[b] = m
      /\ b \notin CalledRefunded
  BY <1>4, <1>6, PurseIs DEF m, n
<1>10. Keeps'[b] = Keeps[b] + a /\ Owes'[b] = Owes[b] - a /\ a <= Owes[b]
  BY <1>5, <1>6, <1>7, <1>8, <1>9
<1> QED
  BY <1>4, <1>5, <1>8, <1>9, <1>10, RefuseMove DEF LedgerStep

LEMMA SucceededLedger ==
    ASSUME RefundInv, RefundInv', NEW b \in Bookings, NEW k \in DOMAIN refunds[b],
           RefundSucceeded(b, k), refunds[b][k].status \notin Closed,
           "succeeded" \in answers[b][k], UNCHANGED <<outside, hand>>
    PROVE  LedgerStep
<1> DEFINE new == Recorded(refunds[b][k], "succeeded")
<1>1. /\ new \in RefundRow /\ new.amount = refunds[b][k].amount
      /\ refunds' = [refunds EXCEPT ![b] = [refunds[b] EXCEPT ![k] = new]]
  BY ResultFinds DEF RefundSucceeded, Refunds
<1>2. SweptPay[b] = pay[b] /\ pay[b] \in DepositRow
  BY FoundClaim, FoundDeposit
<1>3. PICK row, deposit :
          /\ Write(b, row, deposit)
          /\ deposit.refunded = pay[b].refunded
          /\ deposit.status \in {"refunded", "partially_refunded"}
  <2> DEFINE full == AmountOf(refunds[b], Done(refunds[b]) \union {k}) >= Amount
             back == IF full THEN "refunded" ELSE "partially_refunded"
             deposit == [SweptPay[b] EXCEPT !.status = back]
  <2>1. \E row : Write(b, row, deposit)
    BY DEF RefundSucceeded
  <2>2. deposit.refunded = pay[b].refunded /\ deposit.status = back
    BY <1>2 DEF DepositRow
  <2>3. back \in {"refunded", "partially_refunded"}
    OBVIOUS
  <2> HIDE DEF deposit, back
  <2> QED
    BY <2>1, <2>2, <2>3
<1> HIDE DEF new
<1>4. /\ OthersStay(b) /\ pay'[b] = deposit
      /\ page'[b] = "settled" /\ page[b] = "settled"
      /\ BackOf(refunds'[b], answers'[b]) = BackOf(refunds[b], answers[b])
  BY <1>1, <1>3, ResultWrites
<1>5. pay[b].status /= "refunded"
  BY BackInFullIsOver
<1>6. CASE deposit.status = "partially_refunded"
  <2>1. Purse(b)' = Purse(b)
    BY <1>3, <1>4, <1>5, <1>6, PurseStays
  <2> QED
    BY <1>4, <2>1, NoMove DEF LedgerStep
<1>7. CASE deposit.status = "refunded"
  <2>1. Keeps'[b] = Keeps[b] /\ Owes'[b] = Owes[b] /\ Backs'[b] = Backs[b]
        /\ b \in CalledRefunded'
    BY <1>3, <1>4, <1>7, PurseIs, PurseBecomes
  <2>2. Backs[b] = Amount
    <3>1. /\ RefundsSound(refunds'[b], answers'[b], pay'[b].refunded)
          /\ AmountOf(refunds'[b], Done(refunds'[b])) = Amount
      BY <1>4, <1>7 DEF RefundInv, MoneyInv, DepositSound, FlowSound
    <3>2. BackOf(refunds'[b], answers'[b]) = Amount
      BY <3>1, BackInFull
    <3> QED
      BY <1>4, <3>2, PurseIs
  <2> QED
    BY <1>4, <2>1, <2>2, SayMove DEF LedgerStep
<1> QED
  BY <1>3, <1>6, <1>7

LEMMA ResultLedger ==
    ASSUME RefundInv, RefundInv', NEW b \in Bookings, NEW k \in DOMAIN refunds[b],
           RecordRefundResult(b, k)
    PROVE  LedgerStep
<1>1. refunds[b][k].status \notin Closed /\ UNCHANGED <<outside, hand>>
  BY DEF RecordRefundResult
<1>2. CASE "pending" \in answers[b][k] /\ RefundPending(b, k)
  <2>1. answers[b][k] /= {}
    BY <1>2
  <2> QED
    BY <1>1, <1>2, <2>1, PendingLedger
<1>3. CASE "failed" \in answers[b][k] /\ RefundFailed(b, k)
  BY <1>1, <1>3, FailedLedger
<1>4. CASE "succeeded" \in answers[b][k] /\ RefundSucceeded(b, k)
  BY <1>1, <1>4, SucceededLedger
<1> QED
  BY <1>2, <1>3, <1>4 DEF RecordRefundResult

LEMMA LeaseLedger ==
    ASSUME RefundInv, NEW b \in Bookings, NEW k \in DOMAIN refunds[b], EndLease(b, k)
    PROVE  LedgerStep
<1> DEFINE new == [refunds[b][k] EXCEPT !.leased = FALSE]
<1>1. refunds[b] \in Seq(RefundRow) /\ refunds[b][k] \in RefundRow
  BY FoundClaim
<1>2. new \in RefundRow /\ new.amount = refunds[b][k].amount
  BY <1>1 DEF RefundRow
<1>3. /\ refunds'[b] = [refunds[b] EXCEPT ![k] = new]
      /\ \A x \in Bookings \ {b} : refunds'[x] = refunds[x]
      /\ UNCHANGED <<pay, answers, page>>
  BY DEF EndLease, outside, RefundInv, MoneyInv, RowsPerBooking
<1> HIDE DEF new
<1>4. BackOf(refunds'[b], answers'[b]) = BackOf(refunds[b], answers[b])
  BY <1>1, <1>2, <1>3, EditGivesNothing
<1>5. \A x \in Bookings : Purse(x)' = Purse(x)
  BY <1>3, <1>4, PurseStays
<1> QED
  BY <1>5, NoMove DEF OthersStay, LedgerStep

\* The provider answers of a refund: with a success it gives the money back,
\* which was owed.
LEMMA AnswerLedger ==
    ASSUME RefundInv, RefundInv', NEW b \in Bookings, NEW k \in DOMAIN refunds[b],
           NEW said, answers' = [answers EXCEPT ![b][k] = said],
           "succeeded" \notin answers[b][k], UNCHANGED <<pay, refunds, page>>
    PROVE  LedgerStep
<1> DEFINE a == refunds[b][k].amount
           n == pay[b].refunded
           m == BackOf(refunds[b], answers[b])
           given == BackOf(refunds'[b], answers'[b])
<1>1. /\ answers'[b] = [answers[b] EXCEPT ![k] = said]
      /\ \A x \in Bookings \ {b} : answers'[x] = answers[x]
  BY DEF RefundInv, MoneyInv, RowsPerBooking
<1>2. /\ RefundsTyped(refunds[b], answers[b])
      /\ refunds[b][k] \in RefundRow
  BY FoundDeposit, FoundClaim DEF RefundsSound
<1>3. /\ "succeeded" \in said => given = m + a
      /\ "succeeded" \notin said => given = m
  BY <1>1, <1>2, AnswerGivesBack
<1>4. OthersStay(b)
  BY <1>1, PurseStays DEF OthersStay
<1>5. /\ a \in 1 .. Amount /\ Amount \in Nat
      /\ n \in 0 .. Amount /\ m \in 0 .. n
  BY <1>2, PurseNumbers DEF RefundRow
<1>6. given \in 0 .. n
  <2>1. RefundsSound(refunds'[b], answers'[b], n)
    BY DEF RefundInv, MoneyInv, DepositSound
  <2> QED
    BY <2>1, BackFits
<1>7. CASE "succeeded" \notin said
  <2>1. Purse(b)' = Purse(b)
    BY <1>3, <1>7, PurseStays
  <2> QED
    BY <1>4, <2>1, NoMove DEF LedgerStep
<1>8. CASE "succeeded" \in said
  <2>1. /\ Keeps'[b] = Keeps[b] /\ Owes'[b] = n - given /\ Backs'[b] = given
        /\ Owes[b] = n - m /\ Backs[b] = m
        /\ (b \in CalledRefunded') = (b \in CalledRefunded)
    BY PurseIs, PurseBecomes
  <2>2. given = m + a
    BY <1>3, <1>8
  <2> HIDE DEF a, n, m, given
  <2>3. Owes'[b] = Owes[b] - a /\ Backs'[b] = Backs[b] + a /\ a <= Owes[b]
    BY <1>5, <1>6, <2>1, <2>2
  <2> QED
    BY <1>4, <1>5, <2>1, <2>3, BackMove DEF LedgerStep
<1> QED
  BY <1>7, <1>8

LEMMA ProviderLedger ==
    ASSUME RefundInv, RefundInv', NEW b \in Bookings, NEW k \in DOMAIN refunds[b],
           SendRefund(b, k) \/ SettleRefund(b, k)
    PROVE  LedgerStep
<1>1. \E said : answers' = [answers EXCEPT ![b][k] = said]
  <2>1. CASE SendRefund(b, k)
    BY <2>1 DEF SendRefund
  <2>2. CASE SettleRefund(b, k)
    <3>1. PICK answer \in Closed :
              answers' = [answers EXCEPT ![b][k] = @ \union {answer}]
      BY <2>2 DEF SettleRefund
    <3>2. answers' = [answers EXCEPT ![b][k] = answers[b][k] \union {answer}]
      BY <3>1 DEF RefundInv, MoneyInv, RowsPerBooking
    <3> QED
      BY <3>2
  <2> QED
    BY <2>1, <2>2
<1>2. "succeeded" \notin answers[b][k]
  BY DEF SendRefund, SettleRefund, RefundInv, MoneyInv, HandSound
<1>3. UNCHANGED <<pay, refunds, page>>
  BY DEF SendRefund, SettleRefund
<1> QED
  BY <1>1, <1>2, <1>3, AnswerLedger

LEMMA BookingLedger ==
    ASSUME RefundInv, NEW b \in Bookings, OnBooking(b)
    PROVE  LedgerStep
<1>1. CASE GuestCancel(b) \/ RestaurantCancel(b)
  <2>1. PICK keepsSome \in BOOLEAN : Cancel(b, keepsSome)
    BY <1>1 DEF GuestCancel, RestaurantCancel
  <2>2. page' = page
    BY <1>1 DEF GuestCancel, RestaurantCancel
  <2> QED
    BY <2>1, <2>2, CancelLedger
<1>2. CASE EndWindow(b)
  BY <1>2, AwayLedger DEF EndWindow
<1>3. ASSUME NEW how \in {"captured", "shut"}, EndPage(b, how)
      PROVE  LedgerStep
  <2>1. \A x \in Bookings : page'[x] = "settled" <=> page[x] = "settled"
    BY <1>3 DEF EndPage, RefundInv, MoneyInv, RowsPerBooking
  <2> QED
    BY <1>3, <2>1, AwayLedger DEF EndPage
<1> QED
  BY <1>1, <1>2, <1>3, CreateLedger, BindLedger, PaidLedger, ExpiredLedger,
     TransitionLedger, OperatorRefundLedger, DisputeLedger DEF OnBooking

LEMMA NextLedger ==
    ASSUME RefundInv, RefundInv', [PaymentsNext]_paymentVars
    PROVE  LedgerStep
<1>1. CASE UNCHANGED paymentVars \/ PassTime
  BY <1>1, AwayLedger DEF paymentVars, PassTime
<1>2. CASE SweepExpired
  <2>1. PICK b \in Bookings : Overdue(b)
    BY <1>2 DEF SweepExpired
  <2>2. Write(b, SweptRes[b], SweptPay[b])
    BY <1>2, SweptWrites DEF SweepExpired
  <2> QED
    BY <1>2, <2>2, SweptHandler DEF SweepExpired, outside
<1>3. ASSUME NEW b \in Bookings, NEW k \in DOMAIN refunds[b], OnRefund(b, k)
      PROVE  LedgerStep
  <2>1. CASE LoseClaim(b, k)
    BY <2>1, AwayLedger DEF LoseClaim, outside
  <2> QED
    BY <1>3, <2>1, ClaimLedger, ResultLedger, LeaseLedger, ProviderLedger DEF OnRefund
<1> QED
  BY <1>1, <1>2, <1>3, BookingLedger DEF PaymentsNext

\* Bookings, payments, refunds, claims and results implement the ledger: every
\* cent of a deposit is kept, owed or back, and moves one promise, refusal or
\* answer at a time, for any amount and any number of refunds in any order.
THEOREM EveryCentIsAccounted == PaymentsSpec => DepositIsAccounted
<1>1. PaymentsInit => Ledger!LedgerInit
  <2> SUFFICES ASSUME PaymentsInit PROVE Ledger!LedgerInit
    OBVIOUS
  <2>1. ASSUME NEW b \in Bookings
        PROVE  /\ Returned(b) = 0 /\ pay[b].refunded = 0
               /\ pay[b].status /= "refunded" /\ page[b] /= "settled"
    <3>1. /\ refunds[b] = <<>> /\ pay[b] = NoDeposit /\ page[b] = "none"
          /\ DOMAIN refunds[b] = {}
      BY EmptySeq DEF PaymentsInit
    <3>2. Returned(b) = 0
      BY <3>1, NoMoney DEF Returned
    <3> QED
      BY <3>1, <3>2 DEF NoDeposit
  <2> QED
    BY <2>1 DEF Ledger!LedgerInit, Keeps, Owes, Backs, CalledRefunded
<1>2. RefundInv /\ RefundInv' /\ [PaymentsNext]_paymentVars
          => [Ledger!LedgerNext]_(Ledger!ledger)
  BY NextLedger DEF LedgerStep
<1> QED
  BY <1>1, <1>2, RefundInvHolds, PTL
  DEF PaymentsSpec, DepositIsAccounted, Ledger!LedgerSpec

=============================================================================
