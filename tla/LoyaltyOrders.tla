--------------------------- MODULE LoyaltyOrders ---------------------------
(***************************************************************************)
(* Points and rewards on website orders: the ledger and its balance, the   *)
(* reward held on an order, the purchase that earns, and the outbox that   *)
(* reconciles both with what the order itself says                         *)
(* (apps/tenant-api/src/services/loyalty-*.ts, restaurant/loyalty-         *)
(* sources.ts), composed with the order lifecycle of RestaurantOrders.     *)
(*                                                                         *)
(* An order handler queues the orders it changed in its own transaction    *)
(* and reconciles them afterwards, from memory.  A crash loses that.  The  *)
(* tick claims what is still queued and reconciles it in its turn; a       *)
(* failure is counted, and after MaxAttempts the order is parked for an    *)
(* operator, in two transactions.                                          *)
(*                                                                         *)
(* A transaction of one order works on a record of what it reads: the      *)
(* order's redemption and purchase, the owner's balance and the ledger.    *)
(* The xxxInTx functions of the code are operators on that record, and     *)
(* Commit writes the last one back.                                        *)
(***************************************************************************)
EXTENDS RestaurantOrders, PointSums

CONSTANTS
    Members,        \* loyalty members
    Owner,          \* Owner[o]: the member signed in when o is placed
    Cost,           \* Cost[o]: points of the reward the guest may pick on o
    Award,          \* Award[o]: points o earns, promotions included
    PointsAfter,    \* PointsAfter[o][r]: what o keeps once r cents came back
    MaxAttempts,    \* LOYALTY_OUTBOX_MAX_ATTEMPTS
    Drivers,        \* those that work through the outbox: cron, alarm, interval
    Handler,        \* the handlers that settle what they queued, as one
    Nobody,         \* a row no driver has a lease on
    AdjustKeys,     \* idempotency keys of manual adjustments
    AdjustDeltas,   \* the manual adjustments operators make
    MemberMoves     \* the statuses operators (or an erasure) give members

ASSUME LoyaltyAssumption ==
    /\ Owner \in [Orders -> Members]
    /\ Cost \in [Orders -> Nat \ {0}]
    /\ Award \in [Orders -> Nat]
    /\ \A o \in Orders :
         /\ PointsAfter[o] \in [0 .. Total[o] -> 0 .. Award[o]]
         /\ Total[o] > 0 => PointsAfter[o][Total[o]] = 0
    /\ MaxAttempts \in Nat \ {0}
    /\ Handler \notin Drivers /\ Nobody \notin Drivers
    /\ AdjustKeys \cap Orders = {}
    /\ AdjustDeltas \subseteq Int \ {0}
    /\ MemberMoves \subseteq {"active", "suspended", "erased"}

VARIABLES
    member,     \* loyalty_members.status
    red,        \* the order's redemption: its state
    pur,        \* the order's purchase
    points,     \* loyalty_balances.points
    reserved,   \* loyalty_balances.reserved
    ledger,     \* loyalty_ledger, append-only
    outbox,     \* the order's loyalty_outbox row
    settling,   \* what each settler is about to reconcile (in memory)
    parking,    \* parked orders whose review is still to be written (in memory)
    listed      \* orders the tick read as due and is about to queue (in memory)

accountVars == <<red, pur, points, reserved, ledger>>
memoryVars == <<settling, parking, listed>>
queueVars == <<outbox, memoryVars>>
loyaltyVars == <<member, accountVars, queueVars>>
vars == <<orderVars, loyaltyVars>>

-----------------------------------------------------------------------------
\* Rows and their values

MemberStatuses == {"active", "suspended", "erased"}

\* A reward picked on an order is bound to it when it is placed, so 'reserved'
\* does not occur here.
RedStates == {"none", "bound", "consumed", "released", "review", "restored"}
HoldingStates == {"bound", "review"}

\* "cancelled" is 'excluded' for the reason 'cancelled', the one exclusion of
\* an order that a later truth undoes.
PurStates == {"none", "open", "completed", "review", "cancelled", "excluded"}
Unsettled == {"open", "review"}
Reopenable == {"cancelled"}

PurchaseRow == [state : PurStates, awarded : Nat, reversed : Nat, refunded : Nat]
NoPurchase == [state |-> "none", awarded |-> 0, reversed |-> 0, refunded |-> 0]

OutboxStatuses == {"none", "pending", "done", "failed"}
OutboxRow == [status : OutboxStatuses, attempts : 0 .. MaxAttempts,
              lease : Drivers \cup {Nobody}]
NoRow == [status |-> "none", attempts |-> 0, lease |-> Nobody]

Settlers == Drivers \cup {Handler}

Credits == {"earn", "restore", "credit"}
Debits  == {"reverse", "redeem", "debit"}

\* An entry and its event key: kind, src and nth (the refund total a reversal
\* answers) identify it.
LedgerEntry == [kind : Credits \cup Debits, src : Orders \cup AdjustKeys,
                nth : Nat, member : Members, points : Nat]

SameKey(e, f) ==
    /\ e.member = f.member /\ e.src = f.src /\ e.nth = f.nth
    /\ e.kind = f.kind \/ {e.kind, f.kind} \subseteq {"credit", "debit"}

Delta(e) == IF e.kind \in Credits THEN e.points ELSE -e.points

LoyaltyTypeOK ==
    /\ OrdersTypeOK
    /\ member \in [Members -> MemberStatuses]
    /\ red \in [Orders -> RedStates]
    /\ pur \in [Orders -> PurchaseRow]
    /\ points \in [Members -> Int]
    /\ reserved \in [Members -> Nat]
    /\ IsFiniteSet(ledger) /\ ledger \subseteq LedgerEntry
    /\ outbox \in [Orders -> OutboxRow]
    /\ settling \in [Settlers -> SUBSET Orders]
    /\ parking \subseteq Orders
    /\ listed \subseteq Orders

LoyaltyInit ==
    /\ OrdersInit
    /\ member = [m \in Members |-> "active"]
    /\ red = [o \in Orders |-> "none"]
    /\ pur = [o \in Orders |-> NoPurchase]
    /\ points = [m \in Members |-> 0]
    /\ reserved = [m \in Members |-> 0]
    /\ ledger = {}
    /\ outbox = [o \in Orders |-> NoRow]
    /\ settling = [w \in Settlers |-> {}]
    /\ parking = {}
    /\ listed = {}

-----------------------------------------------------------------------------
\* What the order says: restaurantOrderVerdict

Paid(o) == order[o].payment \in {"paid", "not_required"}
Stopped(o) == order[o].status \in {"cancelled", "expired", "payment_review"}
FullyRefunded(o) == order[o].refunded >= Total[o]

\* The page opened for the order can still take money.
Payable(o) == /\ order[o].method = "online"
              /\ order[o].session = "bound"
              /\ phase[o] # "closed"

Verdict(o, holding) ==
    LET status == order[o].status
    IN  CASE Stopped(o) /\ Paid(o) /\ FullyRefunded(o) -> "cancelled"
          [] status = "payment_review" /\ ~(Paid(o) /\ FullyRefunded(o)) -> "review"
          [] status \in {"cancelled", "expired"} /\ Paid(o) /\ ~FullyRefunded(o)
               -> "review"
          [] status \in {"cancelled", "expired"} /\ ~Paid(o) ->
               IF holding /\ Payable(o) THEN "open" ELSE "cancelled"
          [] status = "completed" /\ Paid(o) -> "completed"
          [] status = "completed" /\ ~Paid(o) -> "review"
          [] OTHER -> "open"

-----------------------------------------------------------------------------
\* One order's transaction

Current(o) == [red |-> red[o], pur |-> pur[o], points |-> points[Owner[o]],
               reserved |-> reserved[Owner[o]], ledger |-> ledger]

Commit(o, t) ==
    /\ red' = [red EXCEPT ![o] = t.red]
    /\ pur' = [pur EXCEPT ![o] = t.pur]
    /\ points' = [points EXCEPT ![Owner[o]] = t.points]
    /\ reserved' = [reserved EXCEPT ![Owner[o]] = t.reserved]
    /\ ledger' = t.ledger

Entry(o, kind, nth, n) ==
    [kind |-> kind, src |-> o, nth |-> nth, member |-> Owner[o], points |-> n]

\* postLedgerEntryInTx: an event key is posted once; a repeat changes nothing.
Posted(t, e) == \E f \in t.ledger : SameKey(e, f)

PostInTx(t, e) ==
    IF Posted(t, e) THEN t
    ELSE [t EXCEPT !.ledger = @ \cup {e}, !.points = @ + Delta(e)]

\* Mutant: a spent reward keeps its points on hold.
ConsumeKeepsHold(o, t) ==
    IF t.red \notin HoldingStates THEN t
    ELSE PostInTx([t EXCEPT !.red = "consumed"], Entry(o, "redeem", 0, Cost[o]))

ConsumeInTx(o, t) ==
    IF t.red \notin HoldingStates THEN t
    ELSE PostInTx([t EXCEPT !.red = "consumed", !.reserved = @ - Cost[o]],
                  Entry(o, "redeem", 0, Cost[o]))

\* Mutant: a release does not look at the state first.
ReleaseUnguarded(o, t) ==
    [t EXCEPT !.red = "released", !.reserved = @ - Cost[o]]

ReleaseInTx(o, t) ==
    IF t.red \notin HoldingStates THEN t
    ELSE [t EXCEPT !.red = "released", !.reserved = @ - Cost[o]]

ReviewRedemptionInTx(t) ==
    IF t.red = "bound" THEN [t EXCEPT !.red = "review"] ELSE t

\* Mutant: the points come back, but the reward still counts as spent.
RestoreKeepsState(o, t) ==
    IF t.red # "consumed" THEN t
    ELSE PostInTx(t, Entry(o, "restore", 0, Cost[o]))

RestoreInTx(o, t) ==
    IF t.red # "consumed" THEN t
    ELSE PostInTx([t EXCEPT !.red = "restored"], Entry(o, "restore", 0, Cost[o]))

\* applyPurchaseRefundsInTx: take back what the refunds so far cost the
\* purchase, less what was taken back before.
ApplyPurchaseRefundsInTx(o, t) ==
    LET reverse == t.pur.awarded - PointsAfter[o][t.pur.refunded] - t.pur.reversed
        entry == Entry(o, "reverse", t.pur.refunded, reverse)
    IN  IF t.pur.state # "completed" \/ reverse <= 0 \/ Posted(t, entry) THEN t
        ELSE [PostInTx(t, entry) EXCEPT !.pur.reversed = @ + reverse]

\* Mutant: the sale earns whatever became of its reward.
SettleKeepsDiscount(o, t, trusted) ==
    IF t.pur.state \notin Unsettled \cup Reopenable THEN t
    ELSE IF member[Owner[o]] # "active" THEN [t EXCEPT !.pur.state = "excluded"]
    ELSE LET awarded == [t EXCEPT !.pur.state = "completed",
                                  !.pur.awarded = Award[o]]
             earned == IF Award[o] = 0 THEN awarded
                       ELSE PostInTx(awarded, Entry(o, "earn", 0, Award[o]))
         IN  IF t.pur.refunded = 0 THEN earned
             ELSE ApplyPurchaseRefundsInTx(o, earned)

\* settlePurchaseInTx.  A discount whose reward was given back needs an
\* operator; someone who is no longer an active member does not earn.
SettlePurchaseInTx(o, t, trusted) ==
    IF t.pur.state \notin Unsettled \cup Reopenable THEN t
    ELSE IF ~trusted /\ t.red = "released" THEN [t EXCEPT !.pur.state = "review"]
    ELSE IF member[Owner[o]] # "active" THEN [t EXCEPT !.pur.state = "excluded"]
    ELSE LET awarded == [t EXCEPT !.pur.state = "completed",
                                  !.pur.awarded = Award[o]]
             earned == IF Award[o] = 0 THEN awarded
                       ELSE PostInTx(awarded, Entry(o, "earn", 0, Award[o]))
         IN  IF t.pur.refunded = 0 THEN earned
             ELSE ApplyPurchaseRefundsInTx(o, earned)

\* syncRefundedMinorInTx
SyncRefundedInTx(o, t) ==
    IF t.pur.state = "none" \/ order[o].refunded <= t.pur.refunded THEN t
    ELSE [t EXCEPT !.pur.refunded = order[o].refunded]

\* Mutant: any refund gives the reward back.
RestoreOnAnyRefund(o, t) ==
    IF order[o].refunded = 0 THEN t
    ELSE RestoreInTx(o, ApplyPurchaseRefundsInTx(o, t))

\* applySourceRefundsInTx: only an order with refunds gets here.
ApplySourceRefundsInTx(o, t) ==
    LET reversed == ApplyPurchaseRefundsInTx(o, t)
    IN  IF order[o].refunded = 0 THEN t
        ELSE IF Total[o] > 0 /\ FullyRefunded(o) THEN RestoreInTx(o, reversed)
        ELSE reversed

\* Mutant: a decision does not look back at refunds recorded before it.
AfterDecisionForgetsRefunds(o, t) == t

\* applyRefundsAfterDecisionInTx
AfterDecisionInTx(o, t) ==
    IF (t.red # "consumed" /\ t.pur.state # "completed") \/ order[o].refunded = 0
    THEN t
    ELSE ApplySourceRefundsInTx(o, SyncRefundedInTx(o, t))

\* Loyalty tracks the order: it has a purchase or an active redemption.
Tracked(o) == pur[o].state # "none" \/ red[o] \notin {"none", "released"}

\* reconcileSourceInTx, the verdict's part.
FollowVerdictInTx(o, t, trusted) ==
    LET verdict == Verdict(o, t.red \in HoldingStates)
        released == ReleaseInTx(o, t)
        reviewed == ReviewRedemptionInTx(t)
    IN  CASE verdict = "open" -> t
          [] verdict = "cancelled" ->
               IF t.pur.state \in Unsettled
               THEN [released EXCEPT !.pur.state = "cancelled"] ELSE released
          [] verdict = "review" ->
               IF t.pur.state \in Unsettled \cup Reopenable
               THEN [reviewed EXCEPT !.pur.state = "review"] ELSE reviewed
          [] verdict = "completed" ->
               SettlePurchaseInTx(o, ConsumeInTx(o, t), trusted)

ReconcileInTx(o, trusted) ==
    IF ~Tracked(o) THEN Current(o)
    ELSE ApplySourceRefundsInTx(o,
           FollowVerdictInTx(o, SyncRefundedInTx(o, Current(o)), trusted))

-----------------------------------------------------------------------------
\* The outbox

Pending == [NoRow EXCEPT !.status = "pending"]

\* queueLoyaltySourceInTx: a tracked order is due again from scratch, however
\* its row stood and whoever had a lease on it.
Queued(S) == [o \in Orders |->
                IF o \in S /\ Tracked(o) THEN Pending ELSE outbox[o]]

InHand(w, S) == [settling EXCEPT ![w] = @ \cup S]
Done(w, o)   == [settling EXCEPT ![w] = @ \ {o}]

\* Mutant: the handler reconciles without leaving a row behind.
SettleWithoutQueueing(S) ==
    /\ settling' = InHand(Handler, {o \in S : Tracked(o)})
    /\ UNCHANGED <<member, red, pur, points, reserved, ledger, outbox, parking, listed>>

\* A handler queues the orders in S in its transaction and keeps them to
\* reconcile once that has committed.
QueueAndSettle(S) ==
    /\ outbox' = Queued(S)
    /\ settling' = InHand(Handler, {o \in S : Tracked(o)})
    /\ UNCHANGED <<member, accountVars, parking, listed>>

\* Mutant: whoever reconciled the order closes its row, also a parked one.
MarkDoneAnyway(o) ==
    outbox' = [outbox EXCEPT ![o].status = "done", ![o].lease = Nobody]

\* markOutboxDoneInTx: only a pending row is closed.
MarkDone(o) ==
    outbox' = IF outbox[o].status # "pending" THEN outbox
              ELSE [outbox EXCEPT ![o].status = "done", ![o].lease = Nobody]

\* closeParkedSourceInTx, after the decision t: a parked row is closed once
\* nothing on the order is in review.
CloseParked(o, t) ==
    outbox' = [outbox EXCEPT ![o].status =
                 IF @ = "failed" /\ t.pur.state # "review" /\ t.red # "review"
                 THEN "done" ELSE @]

-----------------------------------------------------------------------------
\* The order handlers, with what they tell loyalty

Sweep == SweepExpiredHolds /\ QueueAndSettle(Lapsed)

\* The signed-in member's order is claimed for them while they are active.
Claimed(o) ==
    IF member[Owner[o]] = "active" THEN [NoPurchase EXCEPT !.state = "open"]
    ELSE NoPurchase

\* Mutant: any points that are not held will do.
CanSpendOnCredit(o) == points[Owner[o]] - reserved[Owner[o]] >= 0

\* holdPointsInTx: the member must be able to spend what is not held already.
CanSpend(o) == points[Owner[o]] - reserved[Owner[o]] >= Cost[o]

Place(o, m) ==
    /\ PlaceOrder(o, m)
    /\ pur' = [pur EXCEPT ![o] = Claimed(o)]
    /\ outbox' = Queued(Lapsed)
    /\ settling' = InHand(Handler, {x \in Lapsed : Tracked(x)})
    /\ UNCHANGED <<member, red, points, reserved, ledger, parking, listed>>

\* With a reward: reserveRedemptionInTx holds its points and binds it.  A
\* member who cannot spend fails the whole placement.
PlaceWithReward(o, m) ==
    /\ PlaceOrder(o, m)
    /\ member[Owner[o]] = "active"
    /\ CanSpend(o)
    /\ reserved' = [reserved EXCEPT ![Owner[o]] = @ + Cost[o]]
    /\ red' = [red EXCEPT ![o] = "bound"]
    /\ pur' = [pur EXCEPT ![o] = Claimed(o)]
    /\ outbox' = Queued(Lapsed)
    /\ settling' = InHand(Handler, {x \in Lapsed : Tracked(x)})
    /\ UNCHANGED <<member, points, ledger, parking, listed>>

Bind(o) == BindPaymentSession(o) /\ QueueAndSettle(Lapsed)

\* A paid event tells loyalty only when it changed the order.
PaidArrives(o) ==
    /\ PaidEvent(o)
    /\ QueueAndSettle(IF order'[o] = Swept[o] THEN Lapsed ELSE Lapsed \cup {o})

EndedByProvider(o) ==
    /\ FailedEvent(o) \/ ExpiredEvent(o)
    /\ QueueAndSettle(Lapsed \cup {o})

Operate(o, to, markPaid) ==
    /\ OperatorUpdate(o, to, markPaid)
    /\ QueueAndSettle(Lapsed \cup {o})

Refund(o, amount) ==
    /\ RecordOrderRefund(o, amount)
    /\ QueueAndSettle({o})

-----------------------------------------------------------------------------
\* Reconciliation

\* processLoyaltyOutbox: a driver with nothing in hand takes a pending row, on
\* which the lease another may have had has run out.
ClaimRow(d, o) ==
    /\ outbox[o].status = "pending"
    /\ settling[d] = {}
    /\ outbox' = [outbox EXCEPT ![o].lease = d]
    /\ settling' = InHand(d, {o})
    /\ UNCHANGED <<orderVars, member, accountVars, parking, listed>>

\* reconcileLoyaltySource, for the handler that queued o or a driver that
\* claimed it.  Neither looks at the row or its lease again, so it also
\* reconciles an order another has since finished or parked.
Reconcile(w, o) ==
    /\ o \in settling[w]
    /\ Commit(o, ReconcileInTx(o, FALSE))
    /\ MarkDone(o)
    /\ settling' = Done(w, o)
    /\ UNCHANGED <<orderVars, member, parking, listed>>

\* recordOutboxFailure, its first transaction: the attempt is counted, and
\* the last one parks the row.  A driver counts only under its own lease; a
\* handler has none, and whether another's still runs is left open.
CountFailure(w, o) ==
    LET attempts == outbox[o].attempts + 1
        park == attempts >= MaxAttempts
    IN  /\ outbox[o].status = "pending"
        /\ w \in Drivers => outbox[o].lease = w
        /\ outbox' = [outbox EXCEPT
                        ![o] = [status |-> IF park THEN "failed" ELSE "pending",
                                attempts |-> attempts, lease |-> Nobody]]
        /\ parking' = IF park THEN parking \cup {o} ELSE parking

\* The reconciliation threw.  The failure is counted only while the row is
\* still due and still this driver's, and counting it may fail as well.
ReconcileFails(w, o) ==
    /\ o \in settling[w]
    /\ settling' = Done(w, o)
    /\ CountFailure(w, o) \/ UNCHANGED <<outbox, parking>>
    /\ UNCHANGED <<orderVars, member, accountVars, listed>>

\* Its second transaction: what the parked order held waits for an operator.
ParkReview(o) ==
    /\ o \in parking
    /\ parking' = parking \ {o}
    /\ Commit(o, LET t == ReviewRedemptionInTx(Current(o))
                 IN  IF t.pur.state \in Unsettled
                     THEN [t EXCEPT !.pur.state = "review"] ELSE t)
    /\ UNCHANGED <<orderVars, member, outbox, settling, listed>>

\* The process stops: what it only had in memory is gone.
Crash ==
    /\ parking \cup listed \cup UNION {settling[w] : w \in Settlers} # {}
    /\ settling' = [w \in Settlers |-> {}]
    /\ parking' = {}
    /\ listed' = {}
    /\ UNCHANGED <<orderVars, member, accountVars, outbox>>

\* Mutant: the tick only looks for orders whose hold ran out.
TimedDueExpiredOnly(o) ==
    /\ red[o] = "bound"
    /\ order[o].method = "online"
    /\ order[o].status = "expired"
    /\ order[o].payment # "paid"
    /\ phase[o] # "hold"
    /\ ~Payable(o)
    /\ outbox[o].status \notin {"pending", "failed"}

\* The tick's timed step: a reward still bound on an order that stopped
\* unpaid, once no page of it can take money.
TimedDue(o) ==
    /\ red[o] = "bound"
    /\ order[o].method = "online"
    /\ order[o].status \in {"cancelled", "expired"}
    /\ order[o].payment # "paid"
    /\ phase[o] # "hold"
    /\ ~Payable(o)
    /\ outbox[o].status \notin {"pending", "failed"}

\* The tick lists what is due, and queues each order in a transaction of its
\* own without asking again.
ListTimed(o) ==
    /\ TimedDue(o)
    /\ o \notin listed
    /\ listed' = listed \cup {o}
    /\ UNCHANGED <<orderVars, member, accountVars, outbox, settling, parking>>

QueueTimed(o) ==
    /\ o \in listed
    /\ listed' = listed \ {o}
    /\ outbox' = Queued({o})
    /\ UNCHANGED <<orderVars, member, accountVars, settling, parking>>

-----------------------------------------------------------------------------
\* Operators' decisions

\* resolveRedemption
ResolveRedemption(o, spent) ==
    LET decided == IF spent THEN ConsumeInTx(o, Current(o))
                   ELSE ReleaseInTx(o, Current(o))
        after == AfterDecisionInTx(o, decided)
    IN  /\ red[o] = "review"
        /\ Commit(o, after)
        /\ CloseParked(o, after)
        /\ UNCHANGED <<orderVars, member, memoryVars>>

\* resolvePurchase, 'exclude'
ExcludePurchase(o) ==
    LET after == AfterDecisionInTx(o, [Current(o) EXCEPT !.pur.state = "excluded"])
    IN  /\ pur[o].state = "review"
        /\ Commit(o, after)
        /\ CloseParked(o, after)
        /\ UNCHANGED <<orderVars, member, memoryVars>>

\* resolvePurchase, 'award': only a finished sale can be awarded.
AwardPurchase(o) ==
    LET after == ReconcileInTx(o, TRUE)
    IN  /\ pur[o].state = "review"
        /\ after.pur.state = "completed"
        /\ Commit(o, after)
        /\ CloseParked(o, after)
        /\ UNCHANGED <<orderVars, member, memoryVars>>

\* requeueLoyaltySource: a tracked source is retried whatever its row says; a
\* parked one with nothing left to reconcile is closed.
Requeue(o) ==
    /\ \/ /\ Tracked(o)
          /\ outbox' = Queued({o})
          /\ settling' = InHand(Handler, {o})
       \/ /\ ~Tracked(o)
          /\ outbox[o].status = "failed"
          /\ outbox' = [outbox EXCEPT ![o].status = "done"]
          /\ UNCHANGED settling
    /\ UNCHANGED <<orderVars, member, accountVars, parking, listed>>

\* adjustMemberPoints: a retry posts nothing, and the balance may go negative.
AdjustPoints(m, k, d) ==
    LET entry == [kind |-> IF d > 0 THEN "credit" ELSE "debit", src |-> k,
                  nth |-> 0, member |-> m, points |-> IF d > 0 THEN d ELSE -d]
        t == PostInTx([ledger |-> ledger, points |-> points[m]], entry)
    IN  /\ member[m] # "erased"
        /\ ledger' = t.ledger
        /\ points' = [points EXCEPT ![m] = t.points]
        /\ UNCHANGED <<orderVars, member, red, pur, reserved, queueVars>>

\* setMemberStatus and eraseLoyaltyMembersInTx.  Neither touches a redemption
\* that is bound to an order.
SetMemberStatus(m, status) ==
    /\ member[m] # "erased"
    /\ member' = [member EXCEPT ![m] = status]
    /\ UNCHANGED <<orderVars, accountVars, queueVars>>

-----------------------------------------------------------------------------

OrderHandlers ==
    \/ Sweep
    \/ \E o \in Orders :
         \/ \E m \in Methods : Place(o, m) \/ PlaceWithReward(o, m)
         \/ Bind(o)
         \/ PaidArrives(o)
         \/ EndedByProvider(o)
         \/ \E to \in Statuses, p \in BOOLEAN : Operate(o, to, p)
         \/ \E a \in 1 .. Total[o] : Refund(o, a)

Reconciliation ==
    \/ Crash
    \/ \E o \in Orders : \/ ParkReview(o) \/ ListTimed(o) \/ QueueTimed(o)
                        \/ \E d \in Drivers : ClaimRow(d, o)
                        \/ \E w \in Settlers : Reconcile(w, o) \/ ReconcileFails(w, o)

Decisions ==
    \/ \E o \in Orders : \/ \E spent \in BOOLEAN : ResolveRedemption(o, spent)
                        \/ ExcludePurchase(o) \/ AwardPurchase(o) \/ Requeue(o)
    \/ \E m \in Members : \/ \E k \in AdjustKeys, d \in AdjustDeltas :
                               AdjustPoints(m, k, d)
                         \/ \E s \in MemberMoves : SetMemberStatus(m, s)

LoyaltyNext ==
    \/ OrderHandlers
    \/ Reconciliation
    \/ Decisions
    \/ (\E o \in Orders : Environment(o)) /\ UNCHANGED loyaltyVars

\* Time passes and pages end, and the tick keeps coming: it sweeps, lists what
\* is due and claims what is queued.  Crashes may cut any tick short but not
\* every one, so what it has in hand over and over it finishes in the end.
\* Guests and operators owe nothing.
Clock(o) == (PassTime(o) \/ ShutPage(o)) /\ UNCHANGED loyaltyVars
Tick(o) == ListTimed(o) \/ \E d \in Drivers : ClaimRow(d, o)

LoyaltyFairness ==
    /\ WF_vars(Sweep)
    /\ \A o \in Orders : /\ WF_vars(Clock(o))
                         /\ WF_vars(Tick(o))
                         /\ SF_vars(QueueTimed(o))
                         /\ \A d \in Drivers : SF_vars(Reconcile(d, o))

LoyaltySpec == LoyaltyInit /\ [][LoyaltyNext]_vars /\ LoyaltyFairness

-----------------------------------------------------------------------------
\* Properties

Posts(kinds, m) == {e \in ledger : e.kind \in kinds /\ e.member = m}
PointsIn(S) == Sum(S, [e \in S |-> e.points])
Holds(m) == {o \in Orders : red[o] \in HoldingStates /\ Owner[o] = m}

\* Whatever was retried, lost or decided, a stored balance is what the ledger
\* and the open holds rebuild to, so findBalanceMismatches finds none.
BalanceIsRebuilt ==
    \A m \in Members :
      /\ points[m] = PointsIn(Posts(Credits, m)) - PointsIn(Posts(Debits, m))
      /\ reserved[m] = Sum(Holds(m), Cost)

Of(o, kind) == {e \in ledger : e.src = o /\ e.kind = kind}

\* A reward is paid for exactly when it is spent, and paid back exactly when
\* it is restored, each once, in the same transaction as its state.
RewardPaidOnce ==
    \A o \in Orders :
      /\ PointsIn(Of(o, "redeem")) =
           (IF red[o] \in {"consumed", "restored"} THEN Cost[o] ELSE 0)
      /\ PointsIn(Of(o, "restore")) = (IF red[o] = "restored" THEN Cost[o] ELSE 0)

\* A sale earns once, and refunds never take back more than it earned.
EarnedOnce ==
    \A o \in Orders :
      /\ PointsIn(Of(o, "earn")) =
           (IF pur[o].state = "completed" THEN Award[o] ELSE 0)
      /\ PointsIn(Of(o, "reverse")) = pur[o].reversed
      /\ pur[o].reversed <= pur[o].awarded

\* The account as a wallet sees it.
RewardOf(r) == CASE r \in HoldingStates -> "held"
                 [] r = "consumed"      -> "spent"
                 [] OTHER               -> r
Kept(p)     == p.awarded - p.reversed
ByHand      == {e \in ledger : e.kind \in {"credit", "debit"}}

Wallet == INSTANCE PointsWallet WITH
    Keys <- AdjustKeys, Deltas <- AdjustDeltas,
    worth <- points, held <- reserved,
    reward <- [o \in Orders |-> RewardOf(red[o])],
    earned <- {o \in Orders : pur[o].awarded > 0},
    kept <- [o \in Orders |-> Kept(pur[o])],
    adjusted <- {<<e.member, e.src>> : e \in ByHand}

\* Whatever the handlers, the tick, the operators and their retries do, each
\* step moves the members' points as a wallet would: no two orders hold the
\* same points, nothing is spent, given back, earned or adjusted twice, and no
\* reconciliation of an order moves more than that order accounts for.
WalletIsHonest == Wallet!WalletSpec

\* Nothing is on its way to the order's account.
Quiet(o) == /\ outbox[o].status \in {"none", "done"}
            /\ \A w \in Settlers : o \notin settling[w]
            /\ ~TimedDue(o)

\* Once nothing is queued and no operator is asked, the account agrees with
\* the order: reconciling again would change nothing but the copy of the
\* refund total on a sale that never earned.
QuietIsSettled ==
    \A o \in Orders :
      (Quiet(o) /\ red[o] # "review" /\ pur[o].state # "review")
        => [ReconcileInTx(o, FALSE) EXCEPT !.pur.refunded = pur[o].refunded]
             = Current(o)

\* Every cent back gives the reward back and takes every point back, whether
\* the refund, the reconciliation or an operator's decision came first.
FullRefundUndoes ==
    \A o \in Orders :
      (Quiet(o) /\ order[o].refunded > 0 /\ FullyRefunded(o))
        => /\ red[o] # "consumed"
           /\ pur[o].state = "completed" => pur[o].reversed = pur[o].awarded

\* The reward's way: a decision is final, and a spent reward comes back only
\* when the whole order was refunded.
RewardStep ==
    \A o \in Orders : red'[o] # red[o] =>
      /\ red[o] \notin {"released", "restored"}
      /\ red[o] = "consumed" =>
           red'[o] = "restored" /\ order[o].refunded = Total[o] /\ Total[o] > 0

RewardDecidedOnce == [][RewardStep]_vars

\* A sale that kept a discount whose reward was given back never earns by
\* itself: an operator has it in review first.
EarnStep ==
    \A o \in Orders :
      (/\ pur[o].state # "completed"
       /\ pur'[o].state = "completed"
       /\ red'[o] = "released") => pur[o].state = "review"

NoDiscountWithPointsBack == [][EarnStep]_vars

\* A parked order stops counting only when it is queued again or when nothing
\* on it is left in review.
ParkedStep ==
    \A o \in Orders :
      (outbox[o].status = "failed" /\ outbox'[o].status = "done")
        => red'[o] # "review" /\ pur'[o].state # "review"

ParkedUntilDecided == [][ParkedStep]_vars

\* The checkout of an order with a reward was abandoned: it is unpaid and
\* nobody cooks it.
Abandoned(o) ==
    /\ red[o] = "bound"
    /\ order[o].method = "online"
    /\ order[o].payment # "paid"
    /\ order[o].status \in {"accepted", "cancelled", "expired"}

\* An abandoned checkout does not keep its reward held for ever, although no
\* timer releases it while a page may still take money: the reward is given
\* back or handed to an operator, the order is parked, or a late payment or
\* an operator takes the order up after all.
HeldRewardEnds ==
    \A o \in Orders :
      Abandoned(o) ~> (~Abandoned(o) \/ outbox[o].status = "failed")

=============================================================================
