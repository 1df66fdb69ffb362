------------------------------- MODULE QrTabs -------------------------------
(***************************************************************************)
(* One tab of a table: guests add rounds from their phones, one of them    *)
(* asks to pay and does so on a hosted page, staff close, void, lock or    *)
(* stop it, and the provider reports what it captured whenever it likes    *)
(* (apps/tenant-api/src/services/qr-tab-service.ts, qr-dine-in.ts,         *)
(* discount-tab.ts; the App's checkout in between).                        *)
(*                                                                         *)
(* Every handler runs under the organization's lock in one transaction, so *)
(* it is one action; a refused request changes nothing.  What is not one   *)
(* action is the App's checkout: it reads the price, opens a page for it   *)
(* and binds the page afterwards.                                          *)
(***************************************************************************)
EXTENDS PointSums

CONSTANTS
    Rounds,     \* the orders sent to the tab
    Pages,      \* payment pages, and the payment taken on each
    Price,      \* what each round costs
    Offer,      \* the rounds the automatic discount takes a cent off
    Tips,       \* the tips a guest may pick
    Ref,        \* the reference all Checkout.com pages of a tab share
    NoPage      \* no session is bound

ASSUME QrTabsAssumption ==
    /\ IsFiniteSet(Rounds) /\ IsFiniteSet(Pages)
    /\ Price \in [Rounds -> Nat]
    /\ Offer \subseteq Rounds
    /\ Tips \subseteq Nat /\ 0 \in Tips
    /\ Ref # NoPage /\ Ref \notin Pages /\ NoPage \notin Pages

VARIABLES
    processor,  \* the organization's payment provider
    round,      \* status of each round
    settled,    \* the rounds whose order is marked paid
    tab,        \* the qr_tabs row
    reserved,   \* cents of reserved discount uses, by round
    consumed,   \* cents of consumed discount uses, by round
    reward,     \* the loyalty redemption of the tab
    age,        \* how old the tab's payment_event_at is
    page,       \* hosted pages
    review      \* qr_tab_payments: payments kept for a person to look at

vars == <<processor, round, settled, tab, reserved, consumed, reward, age, page, review>>

-----------------------------------------------------------------------------
\* State

Processors == {"connect", "checkout"}

\* An accepted round may be in preparation, a served one is ready or completed.
RoundStates == {"none", "accepted", "served", "cancelled"}
TabStates == {"none", "open", "closed", "cancelled"}
PaymentStates == {"unpaid", "pending", "paid", "review"}
Ages == {"running", "lapsed", "over"}
PageStates == {"none", "quoted", "open", "captured", "ended"}

NoAmount == -1

TabRow == [status : TabStates, payment : PaymentStates,
           session : Pages \cup {Ref, NoPage}, amount : Int, tip : Tips,
           cut : {0, 1}, locked : BOOLEAN,
           method : {"none", "counter", "online"}, total : Int]

\* The cart is what a redemption was priced on: the rounds that count and the
\* discounts taken off them.  A spent one still takes the tab's only place.
RewardRow == [state : {"none", "bound", "review", "consumed"}, line : SUBSET Rounds,
              cart : (SUBSET Rounds) \X (SUBSET Rounds)]

PageRow == [state : PageStates, amount : Int, delivered : BOOLEAN]

QrTabsTypeOK ==
    /\ processor \in Processors
    /\ round \in [Rounds -> RoundStates]
    /\ settled \subseteq Rounds
    /\ tab \in TabRow
    /\ reserved \in [Rounds -> {0, 1}]
    /\ consumed \in [Rounds -> {0, 1}]
    /\ reward \in RewardRow
    /\ age \in Ages
    /\ page \in [Pages -> PageRow]
    /\ review \subseteq Pages

NoTab == [status |-> "none", payment |-> "unpaid", session |-> NoPage,
          amount |-> NoAmount, tip |-> 0, cut |-> 0, locked |-> FALSE,
          method |-> "none", total |-> 0]

NoReward == [state |-> "none", line |-> {}, cart |-> <<{}, {}>>]
NoCents == [r \in Rounds |-> 0]

\* A page that takes no money any more; what it asked for no longer matters.
NoPayment(state) == [state |-> state, amount |-> 0, delivered |-> FALSE]

QrTabsInit ==
    /\ processor \in Processors
    /\ round = [r \in Rounds |-> "none"]
    /\ settled = {}
    /\ tab = NoTab
    /\ reserved = NoCents /\ consumed = NoCents
    /\ reward = NoReward
    /\ age = "running"
    /\ page = [p \in Pages |-> NoPayment("none")]
    /\ review = {}

-----------------------------------------------------------------------------
\* Prices

\* listTabRounds, less the void ones.
Live == {r \in Rounds : round[r] \notin {"none", "cancelled"}}

\* roundsPending: the kitchen still works on one.
RoundsPending == \E r \in Rounds : round[r] = "accepted"

Bill == Sum(Live, Price)

\* What discounts took off each round, and off which ones.
Cents == [r \in Rounds |-> consumed[r] + reserved[r]]
CutLines == {r \in Rounds : Cents[r] > 0}

\* Mutant: what became of the reward is not looked at.
PayableAnyhow ==
    LET lines == CutLines \cup (IF tab.cut > 0 THEN reward.line ELSE {})
    IN  IF lines \subseteq Live
          THEN Bill - Sum(Rounds, Cents) - tab.cut + tab.tip ELSE NoAmount

\* currentPayableCents: what the tab costs now with everything its pay request
\* bound, or nothing when that no longer fits the rounds.
CurrentPayable ==
    LET rewardFits == tab.cut = 0 \/ reward.state = "bound"
        lines      == CutLines \cup (IF tab.cut > 0 THEN reward.line ELSE {})
    IN  IF rewardFits /\ lines \subseteq Live
          THEN Bill - Sum(Rounds, Cents) - tab.cut + tab.tip ELSE NoAmount

\* isTabPaymentOpen: a page is bound and still young, or the guest asked to
\* pay not long ago.
PaymentOpen ==
    /\ age = "running"
    /\ tab.payment = "pending" \/ tab.amount # NoAmount

\* A bound reward; one in review waits for a person and a spent one stays.
Released(row) == IF row.state = "bound" THEN NoReward ELSE row

\* qrTabPayableUntil: the bound page may still take money.
BoundPagePayable == tab.payment = "pending" /\ tab.session # NoPage /\ age # "over"

\* setAsideSourceRedemptionInTx: what an earlier pay request held is given
\* back, or kept for review while its page can still be paid.
SetAside ==
    IF reward.state = "bound" /\ tab.cut > 0 /\ BoundPagePayable
      THEN [reward EXCEPT !.state = "review"]
      ELSE Released(reward)

\* UNBIND: the pay request and its page are forgotten.
Unbound(row) == [row EXCEPT !.session = NoPage, !.amount = NoAmount, !.tip = 0]

-----------------------------------------------------------------------------
\* The guests

\* placeOrder, dine-in: the first round opens the tab.  A payment that was
\* started long ago and never finished is forgotten.  Once the tab is closed
\* the table's code opens another one.
AddRound(r) ==
    LET stale == tab.amount # NoAmount /\ tab.payment \in {"unpaid", "pending"}
    IN  /\ round[r] = "none"
        /\ tab.status \in {"none", "open"} /\ ~tab.locked
        /\ ~PaymentOpen
        /\ round' = [round EXCEPT ![r] = "accepted"]
        /\ IF stale
             THEN /\ tab' = [Unbound(tab) EXCEPT !.payment = "unpaid", !.cut = 0]
                  /\ reward' = SetAside
                  /\ reserved' = NoCents
             ELSE /\ tab' = [tab EXCEPT !.status = "open"]
                  /\ UNCHANGED <<reward, reserved>>
        /\ UNCHANGED <<processor, settled, consumed, age, page, review>>

\* Mutant: the uses of an earlier pay request are not given back first.
ReserveOnTop(cuts) == [r \in Rounds |-> reserved[r] + IF r \in cuts THEN 1 ELSE 0]

\* releaseTabDiscounts, then reserveOrderDiscounts for the tab.
Reserve(cuts) == [r \in Rounds |-> IF r \in cuts THEN 1 ELSE 0]

\* prepareTabPayment with a discount on the given lines and a reward on at
\* most one line.  While a page is live the same request is answered with its
\* amount and any other is refused; neither changes anything.
AskToPay(tip, cuts, line) ==
    LET cart == <<Live, cuts>>
        keep == /\ line # {} /\ reward.state = "bound"
                /\ reward.cart = cart /\ reward.line = line
        left == IF keep THEN reward ELSE SetAside
        bill == Bill - Cardinality(cuts) - Cardinality(line)
        same == age = "running" /\ tab.payment = "unpaid" /\ tab.amount # NoAmount
    IN  /\ tab.status = "open" /\ ~tab.locked
        /\ ~RoundsPending
        /\ tab.payment = "unpaid" \/ (tab.payment = "pending" /\ age # "running")
        /\ bill > 0
        /\ line # {} => keep \/ left.state = "none"
        /\ reward' = IF line = {} \/ keep THEN left
                     ELSE [state |-> "bound", line |-> line, cart |-> cart]
        /\ reserved' = Reserve(cuts)
        /\ age' = IF same THEN age ELSE "running"
        /\ tab' = [tab EXCEPT !.payment = "unpaid", !.session = NoPage, !.tip = tip,
                              !.amount = bill + tip, !.cut = Cardinality(line)]
        /\ UNCHANGED <<processor, round, settled, consumed, page, review>>

-----------------------------------------------------------------------------
\* Staff

\* OPERATOR_STATUS_TRANSITIONS, of a round.  A completed one is no longer
\* cancelled, a ready one may be.
KitchenTransitions == {<<"accepted", "served">>, <<"accepted", "cancelled">>,
                       <<"served", "cancelled">>}

\* updateOperatorOrder: a round moves whatever its tab does; it is never marked
\* paid alone.
MoveRound(r, to) ==
    /\ <<round[r], to>> \in KitchenTransitions
    /\ round' = [round EXCEPT ![r] = to]
    /\ UNCHANGED <<processor, settled, tab, reserved, consumed, reward, age, page, review>>

\* releaseTabPayment
StopPayment ==
    /\ tab.status = "open"
    /\ tab.payment \in {"unpaid", "pending"}
    /\ tab' = [Unbound(tab) EXCEPT !.payment = "unpaid", !.cut = 0]
    /\ reward' = Released(reward)
    /\ reserved' = NoCents
    /\ age' = "running"
    /\ UNCHANGED <<processor, round, settled, consumed, page, review>>

\* lockTab: a pay request with no page yet dies with the lock.
LockTab ==
    /\ tab.status = "open"
    /\ IF tab.payment = "unpaid"
         THEN /\ tab' = [tab EXCEPT !.locked = TRUE, !.amount = NoAmount,
                                    !.tip = 0, !.cut = 0]
              /\ reward' = Released(reward)
              /\ reserved' = NoCents
         ELSE /\ tab' = [tab EXCEPT !.locked = TRUE]
              /\ UNCHANGED <<reward, reserved>>
    /\ UNCHANGED <<processor, round, settled, consumed, age, page, review>>

\* patchQrTable with a new code for the table: the pay request is dropped, what
\* it held is not.
NewTableCode ==
    /\ tab.status = "open" /\ tab.payment = "unpaid"
    /\ tab' = Unbound(tab)
    /\ UNCHANGED <<processor, round, settled, reserved, consumed, reward, age, page, review>>

\* loadOpenTab: staff may settle the tab.
Settleable == tab.status = "open" /\ ~(tab.payment = "pending" /\ age = "running")

\* Mutant: a counter close leaves what an unfinished payment reserved.
CloseKeepsUses(tip, cuts) ==
    /\ Settleable
    /\ settled' = settled \cup Live
    /\ tab' = [Unbound(tab) EXCEPT !.status = "closed", !.method = "counter",
                 !.payment = IF @ = "review" THEN "review" ELSE "paid",
                 !.cut = 0, !.tip = tip, !.total = Bill + tip]
    /\ UNCHANGED <<processor, round, reserved, consumed, reward, age, page, review>>

\* closeTabAtCounter.  What an unfinished phone payment held comes back; the
\* discounts of this close are recorded and consumed, unless a till rang the
\* tab up.
CloseAtCounter(tip, cuts) ==
    /\ Settleable
    /\ settled' = settled \cup Live
    /\ reward' = Released(reward)
    /\ reserved' = NoCents
    /\ consumed' = [r \in Rounds |-> consumed[r] + IF r \in cuts THEN 1 ELSE 0]
    /\ tab' = [Unbound(tab) EXCEPT !.status = "closed", !.method = "counter",
                 !.payment = IF @ = "review" THEN "review" ELSE "paid",
                 !.cut = 0, !.tip = tip,
                 !.total = Bill - Cardinality(cuts) + tip]
    /\ UNCHANGED <<processor, round, age, page, review>>

\* voidTab: rounds the kitchen has not finished are cancelled.
VoidTab ==
    /\ Settleable
    /\ round' = [r \in Rounds |-> IF round[r] = "accepted" THEN "cancelled" ELSE round[r]]
    /\ reward' = Released(reward)
    /\ reserved' = NoCents
    /\ tab' = [Unbound(tab) EXCEPT !.status = "cancelled", !.cut = 0]
    /\ UNCHANGED <<processor, settled, consumed, age, page, review>>

-----------------------------------------------------------------------------
\* The App's checkout and the provider

\* The session a page is bound as: all Checkout.com pages of a tab share one.
SessionOf(p) == IF processor = "checkout" THEN Ref ELSE p

\* getTabQuote, read by createRestaurantOrderHostedCheckout.  With a page bound
\* the guest is sent to that one.
ReadQuote(p) ==
    /\ page[p].state = "none"
    /\ tab.status = "open" /\ tab.payment = "unpaid" /\ ~tab.locked
    /\ tab.amount # NoAmount /\ CurrentPayable = tab.amount
    /\ page' = [page EXCEPT ![p] = [state |-> "quoted", amount |-> tab.amount,
                                    delivered |-> FALSE]]
    /\ UNCHANGED <<processor, round, settled, tab, reserved, consumed, reward, age, review>>

\* bindTabPaymentSession: the tab takes one page, if it still costs what it was
\* asked for.  A page that is not bound is never shown.
BindPage(p) ==
    LET accepted == /\ tab.status = "open" /\ tab.amount # NoAmount
                    /\ tab.payment \in {"unpaid", "pending"} /\ ~tab.locked
                    /\ tab.session \in {NoPage, SessionOf(p)}
                    /\ CurrentPayable = tab.amount
    IN  /\ page[p].state = "quoted"
        /\ page' = [page EXCEPT ![p] = IF accepted THEN [@ EXCEPT !.state = "open"]
                                       ELSE NoPayment("ended")]
        /\ IF accepted /\ tab.session = NoPage
             THEN /\ tab' = [tab EXCEPT !.session = SessionOf(p), !.payment = "pending"]
                  /\ age' = "running"
             ELSE UNCHANGED <<tab, age>>
        /\ UNCHANGED <<processor, round, settled, reserved, consumed, reward, review>>

GuestPays(p) ==
    /\ page[p].state = "open"
    /\ page' = [page EXCEPT ![p].state = "captured"]
    /\ UNCHANGED <<processor, round, settled, tab, reserved, consumed, reward, age, review>>

\* The page ends unpaid: by itself, or expired by the App when staff stopped it.
PageEnds(p) ==
    /\ page[p].state = "open"
    /\ page' = [page EXCEPT ![p] = NoPayment("ended")]
    /\ UNCHANGED <<processor, round, settled, tab, reserved, consumed, reward, age, review>>

\* Mutant: any payment of the page's session is a repeat.
SettledBySession(p) == tab.payment = "paid" /\ tab.method = "online"

\* The event is a repeat of the payment that settled the tab.
SettledBy(p) == tab.payment = "paid" /\ tab.method = "online" /\ tab.session = p

\* The event is for the bound page and for what the tab costs now.
Matches(p) ==
    /\ tab.session = SessionOf(p) /\ tab.amount = page[p].amount
    /\ tab.status = "open" /\ tab.payment \notin {"paid", "review"}
    /\ CurrentPayable = page[p].amount

\* Mutant: the rounds of a tab paid from the phone are not marked paid.
SettleTabOnly(p) ==
    /\ tab' = [tab EXCEPT !.status = "closed", !.method = "online", !.payment = "paid",
                          !.session = p, !.total = page[p].amount]
    /\ consumed' = Cents
    /\ reserved' = NoCents /\ age' = "running"
    /\ UNCHANGED <<settled, review>>

\* A payment that closes the tab.  The reward stays bound: the settlement that
\* follows the commit spends it.
SettleOnline(p) ==
    /\ settled' = settled \cup Live
    /\ tab' = [tab EXCEPT !.status = "closed", !.method = "online", !.payment = "paid",
                          !.session = p, !.total = page[p].amount]
    /\ consumed' = Cents
    /\ reserved' = NoCents
    /\ age' = "running"
    /\ UNCHANGED review

\* keepForReview: one row per payment; an unsettled tab is flagged.
KeepForReview(p) ==
    /\ review' = review \cup {p}
    /\ IF p \notin review /\ tab.payment # "paid"
         THEN tab' = [tab EXCEPT !.payment = "review"] /\ age' = "running"
         ELSE UNCHANGED <<tab, age>>
    /\ UNCHANGED <<settled, reserved, consumed>>

\* applyTabPaymentEvent, paid: delivered once or again.
PaidEvent(p) ==
    /\ page[p].state = "captured"
    /\ page' = [page EXCEPT ![p].delivered = TRUE]
    /\ \/ SettledBy(p) /\ UNCHANGED <<settled, tab, reserved, consumed, age, review>>
       \/ ~SettledBy(p) /\ Matches(p) /\ SettleOnline(p)
       \/ ~SettledBy(p) /\ ~Matches(p) /\ KeepForReview(p)
    /\ UNCHANGED <<processor, round, reward>>

\* applyTabPaymentEvent, failed or expired: the bound Stripe page is over.  A
\* declined card on a Checkout.com page leaves everything as it is.
EndedEvent(p) ==
    /\ processor = "connect"
    /\ page[p].state = "ended" /\ tab.session = p
    /\ tab.payment \notin {"paid", "review"}
    /\ tab' = [Unbound(tab) EXCEPT !.payment = "unpaid", !.cut = 0]
    /\ reward' = Released(reward)
    /\ reserved' = NoCents
    /\ age' = "running"
    /\ UNCHANGED <<processor, round, settled, consumed, page, review>>

\* Time since payment_event_at.  The freeze or the hold lapses first; then the
\* bound page is over and what was paid on it has been reported
\* (ONLINE_PAYABLE_AFTER_HOLD_MS is chosen for that).
PassTime ==
    /\ tab.status = "open" /\ tab.amount # NoAmount
    /\ \/ age = "running" /\ age' = "lapsed"
       \/ /\ age = "lapsed" /\ age' = "over"
          /\ \A p \in Pages : SessionOf(p) = tab.session =>
               /\ page[p].state # "open"
               /\ page[p].state = "captured" => page[p].delivered
    /\ UNCHANGED <<processor, round, settled, tab, reserved, consumed, reward, page, review>>

-----------------------------------------------------------------------------
\* Loyalty, which holds the reward's points

\* drainOutbox gives up on the tab, which an operator may queue at any time: a
\* bound reward waits for a person, whatever the tab is doing.
ParkReward ==
    /\ reward.state = "bound"
    /\ reward' = [reward EXCEPT !.state = "review"]
    /\ UNCHANGED <<processor, round, settled, tab, reserved, consumed, age, page, review>>

\* resolveRedemption: an operator says whether the sale happened with it.
ResolveReward ==
    /\ reward.state = "review"
    /\ reward' \in {NoReward, [reward EXCEPT !.state = "consumed"]}
    /\ UNCHANGED <<processor, round, settled, tab, reserved, consumed, age, page, review>>

\* reconcileSourceInTx after the verdict on the tab (qrTabVerdict): nothing
\* while it is open.  It is spent by the phone payment it was priced into and
\* comes back from every other end, but one that money under review clouds; a
\* tab that a till rang up gives it back even then.
SettleReward ==
    LET clouded == tab.status = "closed" /\ tab.payment = "review"
        spent   == tab.method = "online" /\ tab.cut > 0
    IN  /\ tab.status \in {"closed", "cancelled"}
        /\ reward.state \in {"bound", "review"}
        /\ \/ clouded /\ reward' = [reward EXCEPT !.state = "review"]
           \/ clouded /\ reward' = NoReward
           \/ ~clouded /\ spent /\ reward' = [reward EXCEPT !.state = "consumed"]
           \/ ~clouded /\ ~spent /\ reward' = NoReward
        /\ UNCHANGED <<processor, round, settled, tab, reserved, consumed, age, page, review>>

-----------------------------------------------------------------------------
\* Specification

\* A request without a discounts field asks for none.
Discounts == {{}, Offer \cap Live}
RewardLines == {{}} \cup {{r} : r \in Live}

Guests == \/ \E r \in Rounds : AddRound(r)
          \/ \E tip \in Tips, cuts \in Discounts, line \in RewardLines :
               AskToPay(tip, cuts, line)

Staff == \/ \E r \in Rounds, to \in RoundStates : MoveRound(r, to)
         \/ StopPayment \/ LockTab \/ NewTableCode \/ VoidTab
         \/ \E tip \in Tips, cuts \in Discounts : CloseAtCounter(tip, cuts)

Checkout == \E p \in Pages : ReadQuote(p) \/ BindPage(p)
Provider == \E p \in Pages : GuestPays(p) \/ PageEnds(p) \/ PaidEvent(p) \/ EndedEvent(p)

Loyalty == ParkReward \/ ResolveReward \/ SettleReward

QrTabsNext == Guests \/ Staff \/ Checkout \/ Provider \/ Loyalty \/ PassTime

QrTabsSpec == QrTabsInit /\ [][QrTabsNext]_vars

-----------------------------------------------------------------------------
\* Properties

\* Every payment the region heard of either settled the tab or is one for a
\* person to look at, never both and never neither, through repeats, stopped
\* and replaced pages, and pages that share a session.
MoneyIsAccounted ==
    \A p \in Pages : page[p].delivered =>
      ((p \in review) # (tab.method = "online" /\ tab.session = p))

\* Money under review shows on the tab until the tab was settled some other
\* way first, so that staff look before they charge again.
ReviewIsFlagged ==
    review # {} => \/ tab.payment = "review"
                   \/ tab.payment = "paid" /\ tab.status = "closed"

\* Every round that counts is paid when its tab is, and none before, although
\* rounds, closes and payments meet in any order.
RoundsFollowTab ==
    /\ tab.status = "closed" => Live \subseteq settled
    /\ tab.status # "closed" => settled = {}

\* The uses of a discount are decided with the tab: a settled tab leaves none
\* reserved and only a closed one consumes them.
UsesFollowTab ==
    /\ tab.status \in {"closed", "cancelled"} => reserved = NoCents
    /\ tab.status # "closed" => consumed = NoCents

\* A payment closes the tab only for exactly what its rounds cost by then, with
\* the discounts and the reward that were priced into it still held, whatever
\* loyalty did with the reward since, and with nothing left in the kitchen.
OnlineCloseStep ==
    (tab'.method = "online" /\ tab.method # "online") =>
      /\ tab'.total = Bill - Sum(Rounds, consumed') - tab'.cut + tab'.tip
      /\ {r \in Rounds : consumed'[r] > 0} \subseteq Live
      /\ tab'.cut > 0 => reward'.state = "bound" /\ reward'.line \subseteq Live
      /\ ~RoundsPending

OnlineCloseIsExact == [][OnlineCloseStep]_vars

=============================================================================
