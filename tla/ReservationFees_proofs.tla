----------------------- MODULE ReservationFees_proofs -----------------------
(***************************************************************************)
(* What holds of no-show and cancellation fees for every set of bookings,  *)
(* kinds of fee and pages.                                                 *)
(***************************************************************************)
EXTENDS ReservationFees, TLAPS

-----------------------------------------------------------------------------
\* The invariant, part by part

Taken(f) == CardTaken(f) \/ LinkPaid(f)

\* What a fee's status says of the card and of who is at work on it.
Answered(f) ==
    /\ fee[f].status = "none" => card[f] = "unasked" /\ f \notin hand
    /\ fee[f].status = "pending" => card[f] \in {"unasked", "requires_action"}
    /\ fee[f].status = "requires_action" => card[f] = "requires_action"
    /\ fee[f].status = "failed" => card[f] = "failed"
    /\ fee[f].status = "succeeded" => Taken(f)

\* A fee has a page only once its card has asked for the guest's consent.
LinksAsked(f) ==
    \A p \in Pages : page[f][p] /= "none" => card[f] = "requires_action"

\* A fee that the provider was not asked for is still due, and waits for the
\* worker, so that neither an undo nor another status can come first.
UnaskedIsDue(f) ==
    /\ card[f] = "unasked" /\ fee[f].status /= "none"
           => /\ fee[f].status \in {"pending", "charging"}
              /\ booking[f[1]].status = f[2]
    /\ card[f] = "unasked" /\ f \in hand => fee[f].status = "charging"

\* A fee that was paid, or may still be.
Live == {"pending", "charging", "requires_action", "succeeded"}

OneLive(b) == \A f, g \in With(FeesOf(b), Live) : f = g

MoneyFits(b) ==
    booking[b].money = "fee_charged" <=> With(FeesOf(b), {"succeeded"}) /= {}

FeesInv ==
    /\ FeesTypeOK
    /\ \A f \in Fees : Answered(f) /\ LinksAsked(f) /\ UnaskedIsDue(f)
    /\ \A b \in Bookings : OneLive(b) /\ MoneyFits(b)
-----------------------------------------------------------------------------
\* Fees and their bookings

LEMMA FeeParts ==
    ASSUME NEW f \in Fees
    PROVE  f[1] \in Bookings /\ f[2] \in Kinds /\ f \in FeesOf(f[1])
  BY DEF Fees, FeesOf

LEMMA FeesOfBooking ==
    ASSUME NEW b \in Bookings, NEW f \in FeesOf(b)
    PROVE  f \in Fees /\ f[1] = b
  BY DEF FeesOf

\* A booking that fell due has a status of its own.
LEMMA KindsAreDue ==
    "kept" \notin Kinds /\ "cancelled" \notin Kinds
  BY FeesAssumption

\* Money that was taken is on a fee that is paid or waits for its answer.
LEMMA TakenIsLive ==
    ASSUME FeesInv, NEW f \in Fees
    PROVE  /\ CardTaken(f) => fee[f].status \in {"charging", "succeeded"}
           /\ LinkPaid(f) => card[f] = "requires_action"
           /\ Taken(f) => fee[f].status \in Live
  BY DEF FeesInv, FeesTypeOK, FeeRow, Outcomes, Answered, LinksAsked,
         Taken, CardTaken, LinkPaid, Live

-----------------------------------------------------------------------------
\* One lemma per step

LEMMA InitSound == FeesInit => FeesInv
<1> SUFFICES ASSUME FeesInit PROVE FeesInv
  OBVIOUS
<1>1. FeesTypeOK
  BY DEF FeesInit, FeesTypeOK, Statuses, Money, FeeRow, PageStates, NoFee
<1>2. ASSUME NEW f \in Fees PROVE Answered(f) /\ LinksAsked(f) /\ UnaskedIsDue(f)
  BY <1>2 DEF FeesInit, NoFee, Answered, LinksAsked, UnaskedIsDue
<1>3. ASSUME NEW b \in Bookings PROVE OneLive(b) /\ MoneyFits(b)
  BY <1>3 DEF FeesInit, NoFee, OneLive, MoneyFits, With, FeesOf, Live
<1> QED
  BY <1>1, <1>2, <1>3 DEF FeesInv

\* A step of one booking and the fees of it alone: the rest is as it was.
LEMMA RestIsSound ==
    ASSUME FeesInv, FeesTypeOK', NEW b \in Bookings,
           \A f \in Fees : f[1] /= b =>
               /\ fee'[f] = fee[f] /\ card'[f] = card[f] /\ page'[f] = page[f]
               /\ f \in hand' => f \in hand,
           \A c \in Bookings : c /= b => booking'[c] = booking[c],
           \A f \in FeesOf(b) : (Answered(f) /\ LinksAsked(f) /\ UnaskedIsDue(f))',
           (OneLive(b) /\ MoneyFits(b))'
    PROVE  FeesInv'
<1>1. ASSUME NEW f \in Fees PROVE (Answered(f) /\ LinksAsked(f) /\ UnaskedIsDue(f))'
  <2>1. CASE f[1] = b
    BY <2>1, FeeParts
  <2>2. CASE f[1] /= b
    BY <2>2, FeeParts DEF FeesInv, Answered, LinksAsked, UnaskedIsDue,
                          Taken, CardTaken, LinkPaid
  <2> QED
    BY <2>1, <2>2
<1>2. ASSUME NEW c \in Bookings PROVE (OneLive(c) /\ MoneyFits(c))'
  <2>1. CASE c = b
    BY <2>1
  <2>2. CASE c /= b
    BY <2>2, FeesOfBooking DEF FeesInv, OneLive, MoneyFits, With, FeesOf
  <2> QED
    BY <2>1, <2>2
<1> QED
  BY <1>1, <1>2 DEF FeesInv

\* A step that leaves the rows alone: the fee it is about is all that counts.
LEMMA RowsKeptIsSound ==
    ASSUME FeesInv, FeesTypeOK', UNCHANGED rows,
           \A f \in Fees : (Answered(f) /\ LinksAsked(f) /\ UnaskedIsDue(f))'
    PROVE  FeesInv'
  BY DEF FeesInv, rows, OneLive, MoneyFits, With

\* The booking changes and its fees do not.
LEMMA FallDueSound ==
    ASSUME FeesInv, NEW b \in Bookings, NEW kind \in Kinds, FallDue(b, kind)
    PROVE  FeesInv'
<1> USE DEF FallDue
<1>1. FeesTypeOK'
  BY DEF FeesInv, FeesTypeOK, Statuses
<1>2. ASSUME NEW f \in FeesOf(b) PROVE (Answered(f) /\ LinksAsked(f) /\ UnaskedIsDue(f))'
  BY FeesOfBooking, FeeParts, KindsAreDue
  DEF FeesInv, Answered, LinksAsked, UnaskedIsDue, Taken, CardTaken, LinkPaid
<1>3. (OneLive(b) /\ MoneyFits(b))'
  BY DEF FeesInv, FeesTypeOK, OneLive, MoneyFits, With
<1>4. \A c \in Bookings : c /= b => booking'[c] = booking[c]
  BY DEF FeesInv, FeesTypeOK
<1> QED
  BY <1>1, <1>2, <1>3, <1>4, RestIsSound

LEMMA CancelFreeSound ==
    ASSUME FeesInv, NEW b \in Bookings, CancelFree(b)
    PROVE  FeesInv'
<1> USE DEF CancelFree
<1>1. FeesTypeOK'
  BY DEF FeesInv, FeesTypeOK, Statuses, Money
<1>2. ASSUME NEW f \in FeesOf(b) PROVE (Answered(f) /\ LinksAsked(f) /\ UnaskedIsDue(f))'
  BY FeesOfBooking, FeeParts, KindsAreDue
  DEF FeesInv, Answered, LinksAsked, UnaskedIsDue, Taken, CardTaken, LinkPaid
<1>3. (OneLive(b) /\ MoneyFits(b))'
  BY DEF FeesInv, FeesTypeOK, OneLive, MoneyFits, With
<1>4. \A c \in Bookings : c /= b => booking'[c] = booking[c]
  BY DEF FeesInv, FeesTypeOK
<1> QED
  BY <1>1, <1>2, <1>3, <1>4, RestIsSound

\* No fee waits for its worker while a booking is brought back.
LEMMA UndoSound ==
    ASSUME FeesInv, NEW b \in Bookings, Undo(b)
    PROVE  FeesInv'
<1> USE DEF Undo
<1>1. FeesTypeOK'
  BY DEF FeesInv, FeesTypeOK, Statuses
<1>2. ASSUME NEW f \in FeesOf(b) PROVE (Answered(f) /\ LinksAsked(f) /\ UnaskedIsDue(f))'
  <2>1. f \in Fees /\ fee[f].status \notin {"pending", "charging"}
    BY FeesOfBooking DEF Settling, With
  <2> QED
    BY <2>1
    DEF FeesInv, Answered, LinksAsked, UnaskedIsDue, Taken, CardTaken, LinkPaid
<1>3. (OneLive(b) /\ MoneyFits(b))'
  BY DEF FeesInv, FeesTypeOK, OneLive, MoneyFits, With
<1>4. \A c \in Bookings : c /= b => booking'[c] = booking[c]
  BY DEF FeesInv, FeesTypeOK
<1> QED
  BY <1>1, <1>2, <1>3, <1>4, RestIsSound

\* The next fee is asked for when no other is paid or may be.
LEMMA RequestFeeSound ==
    ASSUME FeesInv, NEW b \in Bookings, NEW kind \in Kinds, RequestFee(b, kind)
    PROVE  FeesInv'
<1>1. PICK n \in 1 .. 2 :
          /\ fee[<<b, kind, n>>].status = "none"
          /\ fee' = [fee EXCEPT ![<<b, kind, n>>].status = "pending"]
  BY DEF RequestFee
<1> DEFINE f == <<b, kind, n>>
<1>2. f \in Fees /\ f[1] = b /\ f[2] = kind
  BY DEF Fees
<1>3. With(FeesOf(b), Live) = {}
  BY DEF RequestFee, AlreadyCharged, InFlight, With, Live
<1>4. /\ booking[b].status = kind
      /\ booking' = [booking EXCEPT ![b].money = "fee_pending"]
      /\ UNCHANGED <<card, page, hand, heard>>
  BY DEF RequestFee
<1>5. \A g \in Fees : g /= f => fee'[g] = fee[g]
  BY <1>1, <1>2 DEF FeesInv, FeesTypeOK
<1>6. fee'[f] = [fee[f] EXCEPT !.status = "pending"] /\ fee'[f].status = "pending"
  BY <1>1, <1>2 DEF FeesInv, FeesTypeOK, FeeRow
<1>7. /\ \A c \in Bookings : c /= b => booking'[c] = booking[c]
      /\ \A c \in Bookings : booking'[c].status = booking[c].status
      /\ booking'[b].money = "fee_pending"
  BY <1>4 DEF FeesInv, FeesTypeOK
<1>8. FeesTypeOK'
  <2>1. fee' \in [Fees -> FeeRow]
    <3> HIDE DEF f
    <3>1. DOMAIN fee' = Fees /\ fee' = [g \in Fees |-> fee'[g]]
      BY <1>1 DEF FeesInv, FeesTypeOK
    <3>2. fee'[f] \in FeeRow
      BY <1>2, <1>6 DEF FeesInv, FeesTypeOK, FeeRow
    <3> QED
      BY <1>5, <3>1, <3>2 DEF FeesInv, FeesTypeOK
  <2>2. booking' \in [Bookings -> [status : Statuses, money : Money]]
    BY <1>4 DEF FeesInv, FeesTypeOK, Money
  <2> QED
    BY <1>4, <2>1, <2>2 DEF FeesInv, FeesTypeOK
<1>9. ASSUME NEW g \in FeesOf(b) PROVE (Answered(g) /\ LinksAsked(g) /\ UnaskedIsDue(g))'
  <2>1. g \in Fees /\ g[1] = b
    BY FeesOfBooking
  <2>2. CASE g = f
    BY <1>1, <1>2, <1>4, <1>6, <1>7, <2>2
    DEF FeesInv, Answered, LinksAsked, UnaskedIsDue
  <2>3. CASE g /= f
    BY <1>4, <1>5, <1>7, <2>1, <2>3
    DEF FeesInv, Answered, LinksAsked, UnaskedIsDue, Taken, CardTaken, LinkPaid
  <2> QED
    BY <2>2, <2>3
<1>10. (OneLive(b) /\ MoneyFits(b))'
  <2>1. \A g \in FeesOf(b) : g /= f => fee'[g].status \notin Live
    BY <1>3, <1>5, FeesOfBooking DEF With
  <2> QED
    BY <2>1, <1>6, <1>7 DEF OneLive, MoneyFits, With, Live
<1> QED
  <2> \A g \in Fees : g[1] /= b => fee'[g] = fee[g]
    BY <1>2, <1>5
  <2> QED
    BY <1>4, <1>7, <1>8, <1>9, <1>10, RestIsSound

-----------------------------------------------------------------------------
\* Steps of one fee

\* A fee changes among the statuses that may still be paid, and its booking is
\* not told.
LEMMA MovedIsSound ==
    ASSUME FeesInv, FeesTypeOK', NEW f \in Fees, UNCHANGED <<booking, card>>,
           \A g \in Fees : g /= f => fee'[g] = fee[g] /\ page'[g] = page[g],
           \A g \in Fees : g \in hand' => g \in hand \/ g = f,
           fee[f].status \in Live \ {"succeeded"},
           fee'[f].status \in Live \ {"succeeded"},
           (Answered(f) /\ LinksAsked(f) /\ UnaskedIsDue(f))'
    PROVE  FeesInv'
<1>1. f[1] \in Bookings /\ f \in FeesOf(f[1])
  BY FeeParts
<1>2. ASSUME NEW g \in FeesOf(f[1]) PROVE (Answered(g) /\ LinksAsked(g) /\ UnaskedIsDue(g))'
  BY FeesOfBooking, <1>1
  DEF FeesInv, Answered, LinksAsked, UnaskedIsDue, Taken, CardTaken, LinkPaid
<1>3. /\ \A g \in FeesOf(f[1]) : fee'[g].status \in Live <=> fee[g].status \in Live
      /\ \A g \in FeesOf(f[1]) :
            fee'[g].status = "succeeded" <=> fee[g].status = "succeeded"
  BY <1>1, FeesOfBooking
<1>4. (OneLive(f[1]) /\ MoneyFits(f[1]))'
  BY <1>1, <1>3 DEF FeesInv, OneLive, MoneyFits, With
<1> QED
  BY <1>1, <1>2, <1>4, RestIsSound

LEMMA ClaimFeeSound ==
    ASSUME FeesInv, NEW f \in Fees, ClaimFee(f)
    PROVE  FeesInv'
<1>1. FeesTypeOK'
  BY DEF ClaimFee, FeesInv, FeesTypeOK, FeeRow
<1>2. /\ \A g \in Fees : g /= f => fee'[g] = fee[g]
      /\ fee'[f].status = "charging"
      /\ fee[f].status \in {"pending", "charging"}
  BY DEF ClaimFee, FeesInv, FeesTypeOK, FeeRow
<1>3. (Answered(f) /\ LinksAsked(f) /\ UnaskedIsDue(f))'
  BY <1>2 DEF ClaimFee, FeesInv, Answered, LinksAsked, UnaskedIsDue
<1> QED
  BY <1>1, <1>2, <1>3, MovedIsSound DEF ClaimFee, Live

LEMMA LeaseEndsSound ==
    ASSUME FeesInv, NEW f \in Fees, LeaseEnds(f)
    PROVE  FeesInv'
<1>1. FeesTypeOK'
  BY DEF LeaseEnds, FeesInv, FeesTypeOK, FeeRow
<1>2. /\ \A g \in Fees : g /= f => fee'[g] = fee[g]
      /\ fee'[f].status = "charging"
      /\ fee[f].status = "charging"
  BY DEF LeaseEnds, FeesInv, FeesTypeOK, FeeRow
<1>3. (Answered(f) /\ LinksAsked(f) /\ UnaskedIsDue(f))'
  BY <1>2 DEF LeaseEnds, FeesInv, Answered, LinksAsked, UnaskedIsDue
<1> QED
  BY <1>1, <1>2, <1>3, MovedIsSound DEF LeaseEnds, Live

\* The provider decides on a card once, and only for a fee that was claimed.
LEMMA AskProviderSound ==
    ASSUME FeesInv, NEW f \in Fees, AskProvider(f)
    PROVE  FeesInv'
<1>1. FeesTypeOK'
  BY DEF AskProvider, FeesInv, FeesTypeOK, Outcomes, rows
<1>2. \A g \in Fees : \/ card'[g] = card[g]
                      \/ card[g] = "unasked" /\ g = f /\ f \in hand
  BY DEF AskProvider, FeesInv, FeesTypeOK
<1>3. ASSUME NEW g \in Fees PROVE (Answered(g) /\ LinksAsked(g) /\ UnaskedIsDue(g))'
  <2>1. CASE card'[g] = card[g]
    BY <2>1 DEF AskProvider, rows, FeesInv, Answered, LinksAsked, UnaskedIsDue,
                Taken, CardTaken, LinkPaid
  <2>2. CASE card[g] = "unasked" /\ g = f /\ f \in hand /\ card'[g] /= card[g]
    <3>1. /\ fee[g].status = "charging"
          /\ fee'[g].status = "charging"
          /\ \A p \in Pages : page'[g][p] = "none"
      BY <2>2 DEF AskProvider, rows, FeesInv, LinksAsked, UnaskedIsDue
    <3> QED
      BY <2>2, <3>1 DEF Answered, LinksAsked, UnaskedIsDue
  <2> QED
    BY <1>2, <2>1, <2>2
<1> QED
  BY <1>1, <1>3, RowsKeptIsSound DEF AskProvider

LEMMA LoseWorkerSound ==
    ASSUME FeesInv, NEW f \in Fees, LoseWorker(f)
    PROVE  FeesInv'
<1>1. FeesTypeOK'
  BY DEF LoseWorker, FeesInv, FeesTypeOK, rows
<1>2. ASSUME NEW g \in Fees PROVE (Answered(g) /\ LinksAsked(g) /\ UnaskedIsDue(g))'
  BY DEF LoseWorker, rows, FeesInv, Answered, LinksAsked, UnaskedIsDue,
         Taken, CardTaken, LinkPaid
<1> QED
  BY <1>1, <1>2, RowsKeptIsSound DEF LoseWorker

\* A fee that may still be paid is settled one way or the other, and its
\* booking is told which.
LEMMA SettledIsSound ==
    ASSUME FeesInv, FeesTypeOK', NEW f \in Fees, UNCHANGED <<card, page, hand>>,
           \A g \in Fees : g /= f => fee'[g] = fee[g],
           \A c \in Bookings : c /= f[1] => booking'[c] = booking[c],
           booking'[f[1]].status = booking[f[1]].status,
           booking'[f[1]].money = "fee_charged" <=> fee'[f].status = "succeeded",
           fee[f].status \in Live \ {"succeeded"},
           (Answered(f) /\ UnaskedIsDue(f))'
    PROVE  FeesInv'
<1>1. f[1] \in Bookings /\ f \in FeesOf(f[1])
  BY FeeParts
<1>2. ASSUME NEW g \in FeesOf(f[1]) PROVE (Answered(g) /\ LinksAsked(g) /\ UnaskedIsDue(g))'
  BY FeesOfBooking, <1>1
  DEF FeesInv, Answered, LinksAsked, UnaskedIsDue, Taken, CardTaken, LinkPaid
<1>3. \A g \in FeesOf(f[1]) : g /= f => fee'[g].status \notin Live
  <2> SUFFICES ASSUME NEW g \in FeesOf(f[1]), g /= f, fee[g].status \in Live
               PROVE  FALSE
    BY FeesOfBooking, <1>1
  <2> QED
    BY <1>1 DEF FeesInv, OneLive, With
<1>4. (OneLive(f[1]) /\ MoneyFits(f[1]))'
  BY <1>1, <1>3 DEF OneLive, MoneyFits, With, Live
<1>5. \A g \in Fees : g[1] /= f[1] => fee'[g] = fee[g]
  OBVIOUS
<1> QED
  BY <1>1, <1>2, <1>4, <1>5, RestIsSound

\* A result heard twice, or too late, changes nothing.
LEMMA RecordFeeResultSound ==
    ASSUME FeesInv, NEW f \in Fees, RecordFeeResult(f)
    PROVE  FeesInv'
<1>1. card[f] \in Outcomes
  BY DEF RecordFeeResult, FeesInv, FeesTypeOK
<1>2. CASE ResultOpen(f)
  <2>1. /\ fee' = [fee EXCEPT ![f].status = card[f], ![f].leased = FALSE]
        /\ booking' = [booking EXCEPT ![f[1]].money = MoneyAfter(card[f])]
        /\ UNCHANGED <<card, page, hand>>
    BY <1>2 DEF RecordFeeResult
  <2>2. /\ MoneyAfter(card[f]) \in Money
        /\ MoneyAfter(card[f]) = "fee_charged" <=> card[f] = "succeeded"
    BY <1>1 DEF MoneyAfter, Money, Outcomes
  <2>3. /\ \A g \in Fees : g /= f => fee'[g] = fee[g]
        /\ fee'[f].status = card[f]
        /\ fee[f].status \in {"pending", "charging"}
    BY <1>2, <2>1 DEF ResultOpen, FeesInv, FeesTypeOK, FeeRow
  <2>4. /\ \A c \in Bookings : c /= f[1] => booking'[c] = booking[c]
        /\ booking'[f[1]].status = booking[f[1]].status
        /\ booking'[f[1]].money = MoneyAfter(card[f])
    BY <2>1, FeeParts DEF FeesInv, FeesTypeOK
  <2>5. FeesTypeOK'
    <3>1. fee' \in [Fees -> FeeRow]
      BY <1>1, <2>1 DEF FeesInv, FeesTypeOK, FeeRow, Outcomes
    <3>2. booking' \in [Bookings -> [status : Statuses, money : Money]]
      BY <2>1, <2>2 DEF FeesInv, FeesTypeOK
    <3> QED
      BY <2>1, <3>1, <3>2 DEF FeesInv, FeesTypeOK, RecordFeeResult
  <2>6. (Answered(f) /\ UnaskedIsDue(f))'
    BY <1>1, <2>1, <2>3
    DEF Outcomes, Answered, UnaskedIsDue, Taken, CardTaken
  <2> QED
    BY <2>1, <2>2, <2>3, <2>4, <2>5, <2>6, SettledIsSound DEF Live
<1>3. CASE ~ResultOpen(f)
  <2>1. UNCHANGED rows /\ UNCHANGED <<card, page, hand>> /\ heard' \subseteq heard
    BY <1>3 DEF RecordFeeResult
  <2>2. FeesTypeOK'
    BY <2>1 DEF FeesInv, FeesTypeOK, rows
  <2>3. ASSUME NEW g \in Fees PROVE (Answered(g) /\ LinksAsked(g) /\ UnaskedIsDue(g))'
    BY <2>1 DEF rows, FeesInv, Answered, LinksAsked, UnaskedIsDue,
                Taken, CardTaken, LinkPaid
  <2> QED
    BY <2>1, <2>2, <2>3, RowsKeptIsSound
<1> QED
  BY <1>2, <1>3

-----------------------------------------------------------------------------
\* Steps of a link

LEMMA OpenLinkSound ==
    ASSUME FeesInv, NEW f \in Fees, NEW p \in Pages, OpenLink(f, p)
    PROVE  FeesInv'
<1>1. FeesTypeOK'
  <2>1. fee' \in [Fees -> FeeRow]
    BY DEF OpenLink, FeesInv, FeesTypeOK, FeeRow
  <2>2. page' \in [Fees -> [Pages -> PageStates]]
    BY DEF OpenLink, FeesInv, FeesTypeOK, PageStates
  <2> QED
    BY <2>1, <2>2 DEF OpenLink, FeesInv, FeesTypeOK
<1>2. card[f] = "requires_action" /\ fee[f].status = "requires_action"
  BY DEF OpenLink, Linkable, FeesInv, Answered
<1>3. /\ \A g \in Fees : g /= f => fee'[g] = fee[g] /\ page'[g] = page[g]
      /\ fee'[f].status = "pending"
  BY DEF OpenLink, FeesInv, FeesTypeOK, FeeRow
<1>4. (Answered(f) /\ LinksAsked(f) /\ UnaskedIsDue(f))'
  BY <1>2, <1>3 DEF OpenLink, Answered, LinksAsked, UnaskedIsDue
<1> QED
  BY <1>1, <1>2, <1>3, <1>4, MovedIsSound DEF OpenLink, Live

\* Paid or shut, a page is of a card that asked for consent.
LEMMA PageClosesSound ==
    ASSUME FeesInv, NEW f \in Fees, NEW p \in Pages, NEW to \in {"paid", "shut"},
           page[f][p] = "open",
           page' = [page EXCEPT ![f][p] = to],
           UNCHANGED <<rows, card, hand, heard>>
    PROVE  FeesInv'
<1>1. FeesTypeOK'
  <2>1. page' \in [Fees -> [Pages -> PageStates]]
    BY DEF FeesInv, FeesTypeOK, PageStates
  <2> QED
    BY <2>1 DEF FeesInv, FeesTypeOK, rows
<1>2. \A g \in Fees, q \in Pages : page'[g][q] = page[g][q] \/ (g = f /\ q = p)
  BY DEF FeesInv, FeesTypeOK
<1>3. ASSUME NEW g \in Fees PROVE (Answered(g) /\ LinksAsked(g) /\ UnaskedIsDue(g))'
  <2>1. LinkPaid(g) => LinkPaid(g)'
    BY <1>2 DEF LinkPaid
  <2> QED
    BY <1>2, <2>1 DEF rows, FeesInv, Answered, LinksAsked, UnaskedIsDue,
                      Taken, CardTaken
<1> QED
  BY <1>1, <1>3, RowsKeptIsSound

\* The link's money comes to a fee that nothing else has settled.
LEMMA PaidEventSound ==
    ASSUME FeesInv, NEW f \in Fees, NEW p \in Pages, PaidEvent(f, p)
    PROVE  FeesInv'
<1>1. LinkPaid(f) /\ fee[f].status \in Live \ {"succeeded"}
  BY TakenIsLive DEF PaidEvent, LinkPaid, Taken
<1>2. /\ \A g \in Fees : g /= f => fee'[g] = fee[g]
      /\ fee'[f].status = "succeeded"
  BY DEF PaidEvent, FeesInv, FeesTypeOK, FeeRow
<1>3. /\ \A c \in Bookings : c /= f[1] => booking'[c] = booking[c]
      /\ booking'[f[1]].status = booking[f[1]].status
      /\ booking'[f[1]].money = "fee_charged"
  BY FeeParts DEF PaidEvent, FeesInv, FeesTypeOK
<1>4. FeesTypeOK'
  <2>1. fee' \in [Fees -> FeeRow]
    <3>1. fee' = [fee EXCEPT ![f].status = "succeeded", ![f].leased = FALSE]
      BY DEF PaidEvent
    <3> QED
      BY <3>1 DEF FeesInv, FeesTypeOK, FeeRow
  <2>2. booking' \in [Bookings -> [status : Statuses, money : Money]]
    BY DEF PaidEvent, FeesInv, FeesTypeOK, Money
  <2> QED
    BY <2>1, <2>2 DEF PaidEvent, FeesInv, FeesTypeOK
<1>5. (Answered(f) /\ UnaskedIsDue(f))'
  BY <1>1, <1>2, TakenIsLive DEF PaidEvent, Answered, UnaskedIsDue, Taken, LinkPaid
<1> QED
  BY <1>1, <1>2, <1>3, <1>4, <1>5, SettledIsSound DEF PaidEvent

LEMMA ExpiredEventSound ==
    ASSUME FeesInv, NEW f \in Fees, NEW p \in Pages, ExpiredEvent(f, p)
    PROVE  FeesInv'
<1>1. FeesTypeOK'
  <2>1. fee' = [fee EXCEPT ![f].status = "requires_action", ![f].page = NoPage]
    BY DEF ExpiredEvent
  <2>2. fee' \in [Fees -> FeeRow]
    BY <2>1 DEF FeesInv, FeesTypeOK, FeeRow
  <2> QED
    BY <2>2 DEF ExpiredEvent, FeesInv, FeesTypeOK
<1>2. card[f] = "requires_action"
  BY DEF ExpiredEvent, FeesInv, LinksAsked
<1>3. /\ \A g \in Fees : g /= f => fee'[g] = fee[g]
      /\ fee'[f].status = "requires_action"
      /\ fee[f].status = "pending"
  BY DEF ExpiredEvent, FeesInv, FeesTypeOK, FeeRow
<1>4. (Answered(f) /\ LinksAsked(f) /\ UnaskedIsDue(f))'
  BY <1>2, <1>3 DEF ExpiredEvent, FeesInv, Answered, LinksAsked, UnaskedIsDue
<1> QED
  BY <1>1, <1>3, <1>4, MovedIsSound DEF ExpiredEvent, Live

-----------------------------------------------------------------------------
\* The theorems

LEMMA NextSound == FeesInv /\ [FeesNext]_vars => FeesInv'
<1> SUFFICES ASSUME FeesInv, [FeesNext]_vars PROVE FeesInv'
  OBVIOUS
<1>1. ASSUME NEW b \in Bookings, BookingNext(b) PROVE FeesInv'
  BY <1>1, FallDueSound, CancelFreeSound, UndoSound, RequestFeeSound
  DEF BookingNext
<1>2. ASSUME NEW f \in Fees, WorkerNext(f) PROVE FeesInv'
  BY <1>2, ClaimFeeSound, LeaseEndsSound, AskProviderSound, LoseWorkerSound,
     RecordFeeResultSound
  DEF WorkerNext
<1>3. ASSUME NEW f \in Fees, NEW p \in Pages, LinkNext(f, p) PROVE FeesInv'
  <2>1. CASE GuestPays(f, p)
    BY <2>1, PageClosesSound DEF GuestPays
  <2>2. CASE PageEnds(f, p)
    BY <2>2, PageClosesSound DEF PageEnds
  <2> QED
    BY <1>3, <2>1, <2>2, OpenLinkSound, PaidEventSound, ExpiredEventSound
    DEF LinkNext
<1>4. CASE UNCHANGED vars
  BY <1>4 DEF vars, rows, FeesInv, FeesTypeOK, Answered, LinksAsked, UnaskedIsDue,
              OneLive, MoneyFits, With, Taken, CardTaken, LinkPaid
<1> QED
  BY <1>1, <1>2, <1>3, <1>4 DEF FeesNext

THEOREM FeesInvHolds == FeesSpec => []FeesInv
  BY InitSound, NextSound, PTL DEF FeesSpec

\* Every row of bookings and fees, every answer of the provider and every page
\* is well typed, and a worker has only answers to report that were given.
THEOREM FeesTypeCorrect == FeesSpec => []FeesTypeOK
<1>1. FeesInv => FeesTypeOK
  BY DEF FeesInv
<1> QED
  BY <1>1, FeesInvHolds, PTL

\* The guest pays for one fee of a booking, by card or by link: whatever is
\* paid is live, and at most one fee of a booking ever is.
THEOREM OneFeeIsTaken == FeesSpec => []OneFeeTaken
<1>1. FeesInv => OneFeeTaken
  <2> SUFFICES ASSUME FeesInv, NEW b \in Bookings, NEW f \in FeesOf(b)
               PROVE  /\ \A g \in FeesOf(b) : Taken(f) /\ Taken(g) => f = g
                      /\ ~(CardTaken(f) /\ LinkPaid(f))
    BY DEF OneFeeTaken, Taken
  <2>1. \A g \in FeesOf(b) : Taken(g) => g \in With(FeesOf(b), Live)
    BY FeesOfBooking, TakenIsLive DEF With
  <2>2. \A g \in FeesOf(b) : Taken(f) /\ Taken(g) => f = g
    BY <2>1 DEF FeesInv, OneLive
  <2>3. ~(CardTaken(f) /\ LinkPaid(f))
    BY FeesOfBooking, TakenIsLive DEF CardTaken
  <2> QED
    BY <2>2, <2>3
<1> QED
  BY <1>1, FeesInvHolds, PTL

\* Money taken from a card stays with its fee, a paid fee has its money, and the
\* booking says so exactly when one is paid.
THEOREM ChargeStaysOnTheFee == FeesSpec => []ChargeIsOnTheFee
<1>1. FeesInv => ChargeIsOnTheFee
  <2> SUFFICES ASSUME FeesInv, NEW f \in Fees
               PROVE  /\ CardTaken(f) => fee[f].status \in {"charging", "succeeded"}
                      /\ fee[f].status = "succeeded" => CardTaken(f) \/ LinkPaid(f)
                      /\ MoneyFits(f[1])
    BY DEF ChargeIsOnTheFee, MoneyFits
  <2> QED
    BY TakenIsLive, FeeParts DEF FeesInv, Answered, Taken
<1> QED
  BY <1>1, FeesInvHolds, PTL

\* The card is charged only in the state the booking is due in: a claimed fee
\* keeps an undo away until the provider has been asked.
THEOREM ChargedOnlyWhileDue == FeesSpec => ChargedWhileDue
<1>1. FeesInv /\ [FeesNext]_vars => ChargedWhileDueStep
  <2> SUFFICES ASSUME FeesInv, [FeesNext]_vars, NEW f \in Fees,
                      card'[f] = "succeeded", ~CardTaken(f)
               PROVE  booking[f[1]].status = f[2]
    BY DEF ChargedWhileDueStep
  <2>1. PICK g \in Fees : AskProvider(g)
    <3>1. card' /= card
      BY DEF CardTaken
    <3> QED
      BY <3>1
      DEF FeesNext, BookingNext, WorkerNext, LinkNext, FallDue, RequestFee,
          CancelFree, Undo, ClaimFee, LeaseEnds, LoseWorker, RecordFeeResult,
          OpenLink, GuestPays, PageEnds, PaidEvent, ExpiredEvent, vars
  <2>2. f = g /\ f \in hand /\ card[f] = "unasked"
    BY <2>1 DEF AskProvider, CardTaken, FeesInv, FeesTypeOK
  <2> QED
    BY <2>2 DEF FeesInv, UnaskedIsDue
<1> QED
  BY <1>1, FeesInvHolds, PTL DEF FeesSpec, ChargedWhileDue

-----------------------------------------------------------------------------
\* The promise: every step is one of FeeCharge's or changes nothing of it

Due     == [b \in Bookings |-> booking[b].status]
Charged == {f \in Fees : CardTaken(f)}
PaidFor == {f \in Fees : LinkPaid(f)}
Told    == {b \in Bookings : booking[b].money = "fee_charged"}

LEMMA Mapped ==
    /\ Promise!charge = <<Due, Charged, PaidFor, Told>>
    /\ \A b : Promise!TakenFor(b) = {f \in Fees : f[1] = b /\ Taken(f)}
  BY DEF Promise!charge, Promise!TakenFor, Due, Charged, PaidFor, Told, Taken

LEMMA MoneyStays ==
    ASSUME UNCHANGED <<card, page>>
    PROVE  UNCHANGED <<Charged, PaidFor>>
  BY DEF Charged, PaidFor, CardTaken, LinkPaid

LEMMA BookingStays ==
    ASSUME \A b \in Bookings : booking'[b].status = booking[b].status,
           \A b \in Bookings : booking'[b].money = "fee_charged"
                                   <=> booking[b].money = "fee_charged"
    PROVE  UNCHANGED <<Due, Told>>
  BY DEF Due, Told

\* Only the fee in hand can be taken while it waits.
LEMMA NothingElseTaken ==
    ASSUME FeesInv, NEW f \in Fees, fee[f].status \in Live, ~Taken(f)
    PROVE  Promise!TakenFor(f[1]) = {}
<1> SUFFICES ASSUME NEW g \in Fees, g[1] = f[1], Taken(g) PROVE FALSE
  BY Mapped
<1>1. f \in With(FeesOf(f[1]), Live) /\ g \in With(FeesOf(f[1]), Live)
  BY TakenIsLive DEF With, FeesOf
<1> QED
  BY <1>1, FeeParts DEF FeesInv, OneLive

LEMMA LeavesPromised ==
    ASSUME FeesInv, NEW b \in Bookings, NEW status \in Statuses \ {"kept"},
           booking[b].status = "kept", UNCHANGED <<card, page>>,
           booking' = [booking EXCEPT ![b] = booking'[b]],
           booking'[b].status = status,
           booking'[b].money = "fee_charged" <=> booking[b].money = "fee_charged"
    PROVE  Promise!Leave(b, status)
<1>1. Due' = [Due EXCEPT ![b] = status] /\ Due[b] = "kept"
  BY DEF Due, FeesInv, FeesTypeOK
<1>2. Told' = Told
  BY DEF Told, FeesInv, FeesTypeOK
<1> QED
  BY <1>1, <1>2, MoneyStays DEF Promise!Leave, Due, Told, Charged, PaidFor

LEMMA UndoPromised ==
    ASSUME FeesInv, NEW b \in Bookings, Undo(b)
    PROVE  Promise!Return(b)
<1>1. /\ ~Settling(b)
      /\ booking' = [booking EXCEPT ![b].status = "kept"]
      /\ UNCHANGED <<card, page>>
  BY DEF Undo
<1>2. \A f \in Fees : fee[f].status \notin {"succeeded", "charging"}
  BY <1>1 DEF Settling, With
<1>3. b \notin Told
  BY <1>2, FeesOfBooking DEF FeesInv, MoneyFits, With, Told
<1>4. \A f \in Charged : f[1] # b
  BY <1>2, TakenIsLive DEF Charged
<1>5. Due' = [Due EXCEPT ![b] = "kept"] /\ Told' = Told
  BY <1>1 DEF Due, Told, FeesInv, FeesTypeOK
<1> QED
  BY <1>1, <1>3, <1>4, <1>5, MoneyStays DEF Promise!Return, Due, Told, Charged, PaidFor

\* A booking that is told of a charge had one.
LEMMA TellsPromised ==
    ASSUME FeesInv, NEW f \in Fees, Taken(f), UNCHANGED <<card, page>>,
           booking' = [booking EXCEPT ![f[1]].money = "fee_charged"]
    PROVE  Promise!Tell(f[1])
<1>1. f[1] \in Bookings /\ Promise!TakenFor(f[1]) # {}
  BY FeeParts, Mapped
<1>2. Due' = Due /\ Told' = Told \cup {f[1]}
  BY <1>1 DEF Due, Told, FeesInv, FeesTypeOK
<1> QED
  BY <1>1, <1>2, MoneyStays DEF Promise!Tell, Due, Told, Charged, PaidFor

LEMMA AskProviderPromised ==
    ASSUME FeesInv, NEW f \in Fees, AskProvider(f)
    PROVE  Promise!Charge(f) \/ UNCHANGED Promise!charge
<1>1. UNCHANGED <<booking, page>>
  BY DEF AskProvider, rows
<1>2. UNCHANGED <<Due, PaidFor, Told>>
  BY <1>1 DEF Due, PaidFor, Told, LinkPaid
<1>3. CASE card' = card
  BY <1>1, <1>2, <1>3, MoneyStays DEF Promise!charge, Due, Charged, PaidFor, Told
<1>4. CASE card' # card
  <2>1. PICK outcome \in Outcomes : card' = [card EXCEPT ![f] = outcome]
    BY <1>4 DEF AskProvider
  <2>2. f \in hand /\ card[f] = "unasked"
    BY <1>4 DEF AskProvider
  <2>3. fee[f].status = "charging" /\ booking[f[1]].status = f[2]
    BY <2>2 DEF FeesInv, UnaskedIsDue
  <2>4. CASE outcome = "succeeded"
    <3>1. ~Taken(f)
      BY <2>2, TakenIsLive DEF Taken, CardTaken
    <3>2. Charged' = Charged \cup {f}
      BY <2>1, <2>4 DEF Charged, CardTaken, FeesInv, FeesTypeOK
    <3>3. Due[f[1]] = f[2]
      BY <2>3, FeeParts DEF Due
    <3>4. Promise!TakenFor(f[1]) = {}
      BY <2>3, <3>1, NothingElseTaken DEF Live
    <3> QED
      BY <1>2, <3>2, <3>3, <3>4 DEF Promise!Charge, Due, Told, Charged, PaidFor
  <2>5. CASE outcome # "succeeded"
    <3>1. Charged' = Charged
      BY <2>1, <2>2, <2>5 DEF Charged, CardTaken, FeesInv, FeesTypeOK
    <3> QED
      BY <1>2, <3>1, Mapped DEF Promise!charge, Due, Told, Charged, PaidFor
  <2> QED
    BY <2>4, <2>5
<1> QED
  BY <1>3, <1>4

\* A second page of a fee that was paid takes nothing from another fee.
LEMMA GuestPaysPromised ==
    ASSUME FeesInv, NEW f \in Fees, NEW p \in Pages, GuestPays(f, p)
    PROVE  Promise!Pay(f) \/ UNCHANGED Promise!charge
<1>1. /\ page[f][p] = "open"
      /\ page' = [page EXCEPT ![f][p] = "paid"]
      /\ UNCHANGED <<booking, card>>
  BY DEF GuestPays, rows
<1>2. UNCHANGED <<Due, Charged, Told>>
  BY <1>1 DEF Due, Charged, Told, CardTaken
<1>3. PaidFor' = PaidFor \cup {f}
  <2>1. \A g \in Fees, q \in Pages :
            page'[g][q] = IF g = f /\ q = p THEN "paid" ELSE page[g][q]
    BY <1>1 DEF FeesInv, FeesTypeOK
  <2> QED
    BY <1>1, <2>1 DEF PaidFor, LinkPaid
<1>4. CASE LinkPaid(f)
  BY <1>2, <1>3, <1>4 DEF Promise!charge, Due, Charged, PaidFor, Told
<1>5. CASE ~LinkPaid(f)
  <2>1. card[f] = "requires_action" /\ ~Taken(f)
    BY <1>1, <1>5 DEF FeesInv, LinksAsked, Taken, CardTaken
  <2>2. fee[f].status \in Live
    BY <2>1 DEF FeesInv, FeesTypeOK, FeeRow, Answered, Live
  <2> QED
    BY <1>2, <1>3, <2>1, <2>2, NothingElseTaken
    DEF Promise!Pay, Due, Charged, PaidFor, Told
<1> QED
  BY <1>4, <1>5

LEMMA RequestFeePromised ==
    ASSUME FeesInv, NEW b \in Bookings, NEW kind \in Kinds, RequestFee(b, kind)
    PROVE  UNCHANGED Promise!charge
<1>1. booking[b].money # "fee_charged"
  BY DEF RequestFee, AlreadyCharged, FeesInv, MoneyFits
<1>2. /\ booking' = [booking EXCEPT ![b].money = "fee_pending"]
      /\ UNCHANGED <<card, page>>
  BY DEF RequestFee
<1>3. UNCHANGED <<Due, Told>>
  BY <1>1, <1>2, BookingStays DEF FeesInv, FeesTypeOK
<1> QED
  BY <1>2, <1>3, MoneyStays, Mapped DEF Promise!charge, Due, Charged, PaidFor, Told

LEMMA RecordFeeResultPromised ==
    ASSUME FeesInv, NEW f \in Fees, RecordFeeResult(f)
    PROVE  Promise!Tell(f[1]) \/ UNCHANGED Promise!charge
<1>1. card[f] \in Outcomes /\ UNCHANGED <<card, page>>
  BY DEF RecordFeeResult, FeesInv, FeesTypeOK
<1>2. CASE ~ResultOpen(f)
  BY <1>1, <1>2, MoneyStays
  DEF RecordFeeResult, rows, Promise!charge, Due, Charged, PaidFor, Told
<1>3. CASE ResultOpen(f)
  <2>1. booking' = [booking EXCEPT ![f[1]].money = MoneyAfter(card[f])]
    BY <1>3 DEF RecordFeeResult
  <2>2. CASE card[f] = "succeeded"
    <3>1. booking' = [booking EXCEPT ![f[1]].money = "fee_charged"]
      BY <2>1, <2>2 DEF MoneyAfter
    <3> QED
      BY <1>1, <2>2, <3>1, TellsPromised DEF Taken, CardTaken
  <2>3. CASE card[f] # "succeeded"
    <3>1. MoneyAfter(card[f]) # "fee_charged"
      BY <1>1, <2>3 DEF MoneyAfter, Outcomes
    <3>2. booking[f[1]].money # "fee_charged"
      <4>1. f \in With(FeesOf(f[1]), Live) /\ fee[f].status # "succeeded"
        BY <1>3, FeeParts DEF ResultOpen, With, Live
      <4>2. With(FeesOf(f[1]), {"succeeded"}) = {}
        BY <4>1, FeeParts DEF FeesInv, OneLive, With, Live
      <4> QED
        BY <4>2, FeeParts DEF FeesInv, MoneyFits
    <3>3. UNCHANGED <<Due, Told>>
      BY <2>1, <3>1, <3>2, FeeParts, BookingStays DEF FeesInv, FeesTypeOK
    <3> QED
      BY <1>1, <3>3, MoneyStays DEF Promise!charge, Due, Charged, PaidFor, Told
  <2> QED
    BY <2>2, <2>3
<1> QED
  BY <1>2, <1>3

\* Workers, provider, links and events implement the promise of FeeCharge: a
\* booking is charged once, while it is due, and for good.
THEOREM ChargedAsPromised == FeesSpec => ChargeGoesForward
<1>1. FeesInit => Promise!ChargeInit
  BY DEF FeesInit, Promise!ChargeInit, CardTaken, LinkPaid
<1>2. FeesInv /\ [FeesNext]_vars => [Promise!ChargeNext]_(Promise!charge)
  <2> SUFFICES ASSUME FeesInv, [FeesNext]_vars
               PROVE  [Promise!ChargeNext]_(Promise!charge)
    OBVIOUS
  <2>1. ASSUME NEW b \in Bookings, BookingNext(b)
        PROVE  [Promise!ChargeNext]_(Promise!charge)
    <3>1. ASSUME NEW kind \in Kinds, FallDue(b, kind)
          PROVE  \E status \in Statuses : Promise!Leave(b, status)
      BY <3>1, KindsAreDue, LeavesPromised DEF FallDue, FeesInv, FeesTypeOK, Statuses
    <3>2. CASE CancelFree(b)
      <4>1. Promise!Leave(b, "cancelled")
        <5>1. /\ booking[b].status = "kept"
              /\ booking'[b].status = "cancelled"
              /\ booking'[b].money = "fee_charged" <=> booking[b].money = "fee_charged"
              /\ booking' = [booking EXCEPT ![b] = booking'[b]]
              /\ UNCHANGED <<card, page>>
          BY <3>2 DEF CancelFree, FeesInv, FeesTypeOK
        <5>2. "cancelled" \in Statuses \ {"kept"}
          BY DEF Statuses
        <5> QED
          BY <5>1, <5>2, LeavesPromised
      <4> QED
        BY <4>1 DEF Promise!ChargeNext, Statuses
    <3> QED
      BY <2>1, <3>1, <3>2, UndoPromised, RequestFeePromised
      DEF BookingNext, Promise!ChargeNext
  <2>2. ASSUME NEW f \in Fees, WorkerNext(f)
        PROVE  [Promise!ChargeNext]_(Promise!charge)
    <3>1. CASE ClaimFee(f) \/ LeaseEnds(f) \/ LoseWorker(f)
      <4>1. UNCHANGED <<booking, card, page>>
        BY <3>1 DEF ClaimFee, LeaseEnds, LoseWorker, rows
      <4> QED
        BY <4>1, MoneyStays DEF Promise!charge, Due, Charged, PaidFor, Told
    <3> QED
      BY <2>2, <3>1, FeeParts, AskProviderPromised, RecordFeeResultPromised
      DEF WorkerNext, Promise!ChargeNext
  <2>3. ASSUME NEW f \in Fees, NEW p \in Pages, LinkNext(f, p)
        PROVE  [Promise!ChargeNext]_(Promise!charge)
    <3>1. CASE OpenLink(f, p) \/ PageEnds(f, p) \/ ExpiredEvent(f, p)
      <4>1. UNCHANGED <<booking, card>>
        BY <3>1 DEF OpenLink, PageEnds, ExpiredEvent, rows
      <4>2. \A g \in Fees, q \in Pages : page'[g][q] = "paid" <=> page[g][q] = "paid"
        BY <3>1 DEF OpenLink, PageEnds, ExpiredEvent, FeesInv, FeesTypeOK
      <4>3. UNCHANGED <<Due, Charged, PaidFor, Told>>
        BY <4>1, <4>2 DEF Due, Charged, PaidFor, Told, CardTaken, LinkPaid
      <4> QED
        BY <4>3 DEF Promise!charge, Due, Charged, PaidFor, Told
    <3>2. CASE PaidEvent(f, p)
      <4>1. Promise!Tell(f[1])
        BY <3>2, TellsPromised DEF PaidEvent, Taken, LinkPaid
      <4> QED
        BY <4>1, FeeParts DEF Promise!ChargeNext
    <3> QED
      BY <2>3, <3>1, <3>2, GuestPaysPromised DEF LinkNext, Promise!ChargeNext
  <2>4. CASE UNCHANGED vars
    <3>1. UNCHANGED <<booking, card, page>>
      BY <2>4 DEF vars, rows
    <3> QED
      BY <3>1, MoneyStays DEF Promise!charge, Due, Charged, PaidFor, Told
  <2> QED
    BY <2>1, <2>2, <2>3, <2>4 DEF FeesNext
<1> QED
  BY <1>1, <1>2, FeesInvHolds, PTL DEF FeesSpec, ChargeGoesForward, Promise!ChargeSpec
=============================================================================
