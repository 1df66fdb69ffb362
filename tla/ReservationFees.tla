--------------------------- MODULE ReservationFees ---------------------------
(***************************************************************************)
(* The fee of a no-show or a late cancellation, charged to the card a      *)
(* booking was guaranteed with (services/rsv-payment-service.ts, the undo  *)
(* of services/rsv-booking-service.ts, and the App's fee worker and        *)
(* checkout in apps/app/app/utils/reservations/payments.server.ts).        *)
(*                                                                         *)
(* Staff ask for a fee; an App worker claims it, asks the provider for the *)
(* money under the fee's own idempotency key and reports what it heard.  A *)
(* card whose bank wants the guest's consent is settled through a link.    *)
(* Every regional handler is one transaction, so one action, and a refused *)
(* request is no step.  Processor: Stripe, whose pages have ids of their   *)
(* own.                                                                    *)
(***************************************************************************)
EXTENDS Naturals, FiniteSets

CONSTANTS
    Bookings,   \* bookings with a saved card
    Kinds,      \* the kinds of fee, named as the status they are due for
    Pages,      \* bound: the hosted pages one fee's link may get
    NoPage

ASSUME FeesAssumption ==
    /\ Kinds \subseteq {"no_show", "late_cancel"}
    /\ NoPage \notin Pages

Fees == Bookings \X Kinds \X (1 .. 2)   \* booking, kind, attempt

VARIABLES
    booking,    \* the rsv_reservations row: its status and paymentStatus
    fee,        \* the rsv_payments rows of fees
    card,       \* what the provider decided on a fee's charge of the card
    page,       \* page[f][p]: the provider's page p for the link of fee f
    hand,       \* fees claimed by a worker that has the provider to ask
    heard       \* fees whose worker has the provider's answer to report

rows == <<booking, fee>>
vars == <<booking, fee, card, page, hand, heard>>

-----------------------------------------------------------------------------
\* Rows

Statuses == {"kept", "cancelled"} \cup Kinds
Money    == {"guaranteed", "none", "fee_pending", "fee_charged", "fee_failed"}
FeeRow   == [status : {"none", "pending", "charging", "requires_action",
                       "succeeded", "failed"},
             page : Pages \cup {NoPage},
             leased : BOOLEAN]      \* a claim of at most ten minutes ago
Outcomes == {"succeeded", "requires_action", "failed"}
PageStates == {"none", "open", "paid", "shut"}

NoFee == [status |-> "none", page |-> NoPage, leased |-> FALSE]

FeesOf(b)  == {f \in Fees : f[1] = b}
With(S, s) == {f \in S : fee[f].status \in s}

FeesInit ==
    /\ booking = [b \in Bookings |-> [status |-> "kept", money |-> "guaranteed"]]
    /\ fee = [f \in Fees |-> NoFee]
    /\ card = [f \in Fees |-> "unasked"]
    /\ page = [f \in Fees |-> [p \in Pages |-> "none"]]
    /\ hand = {}
    /\ heard = {}

-----------------------------------------------------------------------------
\* The booking

\* A no-show, or a cancellation past the deadline: the card stays on file.
FallDue(b, kind) ==
    /\ booking[b].status = "kept"
    /\ booking' = [booking EXCEPT ![b].status = kind]
    /\ UNCHANGED <<fee, card, page, hand, heard>>

\* handleCancellationPayments releases the card of any other cancellation.
CancelFree(b) ==
    /\ booking[b].status = "kept"
    /\ booking' = [booking EXCEPT
          ![b] = [status |-> "cancelled",
                  money |-> IF @.money = "guaranteed" THEN "none" ELSE @.money]]
    /\ UNCHANGED <<fee, card, page, hand, heard>>

\* Mutant: a fee that is being charged does not count as money that moves.
SettlingUnlessCharging(b) == With(Fees, {"succeeded", "pending"}) /= {}

\* The query of undoReservationTransition for fees that are or may be charged.
\* Its OR is outside the comparison with the booking: it finds any booking's.
Settling(b) == With(Fees, {"succeeded", "charging", "pending"}) /= {}

Undo(b) ==
    /\ booking[b].status /= "kept"
    /\ ~Settling(b)
    /\ booking' = [booking EXCEPT ![b].status = "kept"]
    /\ UNCHANGED <<fee, card, page, hand, heard>>

-----------------------------------------------------------------------------
\* Staff ask for the fee

\* Mutant: a fee whose answer is still out does not block the next.
InFlightUncharged(b) ==
    With(FeesOf(b), {"pending", "requires_action"}) /= {}

InFlight(b) ==
    With(FeesOf(b), {"pending", "charging", "requires_action"}) /= {}

AlreadyCharged(b, kind) == With(FeesOf(b), {"succeeded"}) /= {}

\* requestOperatorFee: the second attempt only after the first has failed.
RequestFee(b, kind) ==
    /\ booking[b].status = kind
    /\ ~AlreadyCharged(b, kind)
    /\ ~InFlight(b)
    /\ \E n \in 1 .. 2 :
          LET f == <<b, kind, n>>
          IN  /\ fee[f].status = "none"
              /\ \A m \in 1 .. n - 1 : fee[<<b, kind, m>>].status /= "none"
              /\ fee' = [fee EXCEPT ![f].status = "pending"]
    /\ booking' = [booking EXCEPT ![b].money = "fee_pending"]
    /\ UNCHANGED <<card, page, hand, heard>>

-----------------------------------------------------------------------------
\* An App worker charges the card (chargeReservationFee)

\* A claim may be taken again when its lease is over.
ClaimFee(f) ==
    /\ \/ fee[f].status = "pending"
       \/ fee[f].status = "charging" /\ ~fee[f].leased
    /\ fee' = [fee EXCEPT ![f].status = "charging", ![f].leased = TRUE]
    /\ hand' = hand \cup {f}
    /\ UNCHANGED <<booking, card, page, heard>>

LeaseEnds(f) ==
    /\ fee[f].status = "charging"
    /\ fee[f].leased
    /\ fee' = [fee EXCEPT ![f].leased = FALSE]
    /\ UNCHANGED <<booking, card, page, hand, heard>>

\* Mutant: the provider is asked under a key of the worker's own.
AskProviderAnew(f) ==
    /\ f \in hand
    /\ \E outcome \in Outcomes : card' = [card EXCEPT ![f] = outcome]
    /\ hand' \in {hand, hand \ {f}}
    /\ heard' = heard \cup {f}
    /\ UNCHANGED <<rows, page>>

\* Mutant: a provider that cannot be reached is reported like an answer.
AskProviderOnce(f) ==
    /\ f \in hand
    /\ \/ \E outcome \in Outcomes : card' = [card EXCEPT ![f] = outcome]
       \/ UNCHANGED card
    /\ hand' = hand \ {f}
    /\ heard' = heard \cup {f}
    /\ UNCHANGED <<rows, page>>

\* The key is the fee's and the attempt's: asked again, by the same worker or
\* another, the provider answers as the first time.
AskProvider(f) ==
    /\ f \in hand
    /\ IF card[f] = "unasked"
       THEN \E outcome \in Outcomes : card' = [card EXCEPT ![f] = outcome]
       ELSE UNCHANGED card
    /\ hand' \in {hand, hand \ {f}}
    /\ heard' = heard \cup {f}
    /\ UNCHANGED <<rows, page>>

\* The claim's answer is lost, the provider stays unavailable, the process
\* stops, or the report fails three times: nothing is recorded.
LoseWorker(f) ==
    /\ f \in hand \cup heard
    /\ hand' = hand \ {f}
    /\ heard' = heard \ {f}
    /\ UNCHANGED <<rows, card, page>>

MoneyAfter(outcome) ==
    CASE outcome = "succeeded"       -> "fee_charged"
      [] outcome = "requires_action" -> "fee_pending"
      [] outcome = "failed"          -> "fee_failed"

ResultOpen(f) == fee[f].status \in {"charging", "pending"}

\* recordFeeResult; the report is repeated when its answer is lost.
RecordFeeResult(f) ==
    /\ f \in heard
    /\ heard' \in {heard, heard \ {f}}
    /\ IF ResultOpen(f)
       THEN /\ fee' = [fee EXCEPT ![f].status = card[f], ![f].leased = FALSE]
            /\ booking' = [booking EXCEPT ![f[1]].money = MoneyAfter(card[f])]
       ELSE UNCHANGED rows
    /\ UNCHANGED <<card, page, hand>>

-----------------------------------------------------------------------------
\* The guest pays through the link

\* A page that is bound and pending is served again, which is no step.
Linkable(f) == fee[f].status \in {"requires_action", "failed"}

\* createReservationHostedCheckout and bindPaymentSession.  The guest has the
\* link from the message a card that needs their consent sends.
OpenLink(f, p) ==
    /\ card[f] = "requires_action"
    /\ Linkable(f)
    /\ page[f][p] = "none"
    /\ fee' = [fee EXCEPT ![f].status = "pending", ![f].page = p]
    /\ page' = [page EXCEPT ![f][p] = "open"]
    /\ UNCHANGED <<booking, card, hand, heard>>

GuestPays(f, p) ==
    /\ page[f][p] = "open"
    /\ page' = [page EXCEPT ![f][p] = "paid"]
    /\ UNCHANGED <<rows, card, hand, heard>>

PageEnds(f, p) ==
    /\ page[f][p] = "open"
    /\ page' = [page EXCEPT ![f][p] = "shut"]
    /\ UNCHANGED <<rows, card, hand, heard>>

\* applyPaymentStatus and recordFeePaidViaLink, once or more.  A page another
\* one has replaced on the row is refused, which is no step.
PaidEvent(f, p) ==
    /\ page[f][p] = "paid"
    /\ fee[f].page = p
    /\ fee[f].status /= "succeeded"
    /\ fee' = [fee EXCEPT ![f].status = "succeeded", ![f].leased = FALSE]
    /\ booking' = [booking EXCEPT ![f[1]].money = "fee_charged"]
    /\ UNCHANGED <<card, page, hand, heard>>

ExpiredEvent(f, p) ==
    /\ page[f][p] = "shut"
    /\ fee[f].page = p
    /\ fee[f].status = "pending"
    /\ fee' = [fee EXCEPT ![f].status = "requires_action", ![f].page = NoPage]
    /\ UNCHANGED <<booking, card, page, hand, heard>>

-----------------------------------------------------------------------------

BookingNext(b) ==
    \/ \E kind \in Kinds : FallDue(b, kind) \/ RequestFee(b, kind)
    \/ CancelFree(b)
    \/ Undo(b)

WorkerNext(f) == \/ ClaimFee(f) \/ LeaseEnds(f) \/ AskProvider(f)
                 \/ LoseWorker(f) \/ RecordFeeResult(f)

LinkNext(f, p) == \/ OpenLink(f, p) \/ GuestPays(f, p) \/ PageEnds(f, p)
                  \/ PaidEvent(f, p) \/ ExpiredEvent(f, p)

FeesNext ==
    \/ \E b \in Bookings : BookingNext(b)
    \/ \E f \in Fees : WorkerNext(f) \/ \E p \in Pages : LinkNext(f, p)

FeesSpec == FeesInit /\ [][FeesNext]_vars

-----------------------------------------------------------------------------
\* Properties

CardTaken(f) == card[f] = "succeeded"
LinkPaid(f)  == \E p \in Pages : page[f][p] = "paid"

\* Rows, provider and workers are well typed, and a worker reports only what
\* the provider answered.
FeesTypeOK ==
    /\ booking \in [Bookings -> [status : Statuses, money : Money]]
    /\ fee \in [Fees -> FeeRow]
    /\ card \in [Fees -> Outcomes \cup {"unasked"}]
    /\ page \in [Fees -> [Pages -> PageStates]]
    /\ hand \subseteq Fees
    /\ heard \subseteq {f \in Fees : card[f] /= "unasked"}

\* A guest pays for one fee of a booking only, and through the card or the
\* link, never both, whatever two attempts, two kinds, an undo in between,
\* repeated claims and late results do.
OneFeeTaken ==
    \A b \in Bookings :
       /\ \A f, g \in FeesOf(b) :
             (CardTaken(f) \/ LinkPaid(f)) /\ (CardTaken(g) \/ LinkPaid(g))
             => f = g
       /\ \A f \in FeesOf(b) : ~(CardTaken(f) /\ LinkPaid(f))

\* Money taken from the card is on its fee, or the fee waits for exactly that
\* answer and can be neither paid otherwise nor asked for again; no fee is
\* recorded as paid without the money; and the booking says that a fee was
\* charged exactly when one was, although results of the card and of the link
\* meet in any order.
ChargeIsOnTheFee ==
    \A f \in Fees :
       /\ CardTaken(f) => fee[f].status \in {"charging", "succeeded"}
       /\ fee[f].status = "succeeded" => CardTaken(f) \/ LinkPaid(f)
       /\ booking[f[1]].money = "fee_charged"
            <=> With(FeesOf(f[1]), {"succeeded"}) /= {}

\* No card is charged for a booking that was brought back in the meantime.
ChargedWhileDueStep ==
    \A f \in Fees :
       card'[f] = "succeeded" /\ ~CardTaken(f) => booking[f[1]].status = f[2]

ChargedWhileDue == [][ChargedWhileDueStep]_vars

Promise == INSTANCE FeeCharge WITH
    due     <- [b \in Bookings |-> booking[b].status],
    charged <- {f \in Fees : CardTaken(f)},
    paid    <- {f \in Fees : LinkPaid(f)},
    told    <- {b \in Bookings : booking[b].money = "fee_charged"}

\* Workers, provider, links and events together charge a booking as one cashier
\* would: once, while it is due, and for good (FeeCharge).
ChargeGoesForward == Promise!ChargeSpec

\* What the binding of a page says of itself (a fee that is being charged never
\* gets a second path, and two requests never end with two live pages): a guest
\* who pays every page they are shown pays a fee once.
FeeTakenOnce ==
    \A f \in Fees : Cardinality({p \in Pages : page[f][p] = "paid"}) <= 1

=============================================================================
