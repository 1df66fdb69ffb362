---------------------------- MODULE QrTabs_proofs ----------------------------
(***************************************************************************)
(* What holds of a tab for any number of rounds, pages, prices and tips.   *)
(***************************************************************************)
EXTENDS QrTabs, PointSums_proofs, TLAPS

-----------------------------------------------------------------------------
\* The invariant

\* Sums of prices are left untyped: what they come to has no part in how a tab
\* is settled.
Shape ==
    /\ DOMAIN round = Rounds
    /\ DOMAIN page = Pages
    /\ tab \in [status : TabStates, payment : PaymentStates,
                session : Pages \cup {Ref, NoPage}, amount : {tab.amount}, tip : {tab.tip},
                cut : {tab.cut}, locked : BOOLEAN,
                method : {"none", "counter", "online"}, total : {tab.total}]
    /\ \A p \in Pages : page[p] \in [state : PageStates, amount : {page[p].amount},
                                     delivered : BOOLEAN]
    /\ review \subseteq Pages

\* How a tab was settled.
SettledHow ==
    /\ tab.payment = "paid" => tab.status = "closed"
    /\ tab.method = "online" => tab.status = "closed" /\ tab.payment = "paid"
    /\ tab.status = "none" => tab = NoTab /\ \A p \in Pages : page[p].state = "none"

\* The region only hears of payments that were made.
OnlyHeard ==
    /\ \A p \in Pages : page[p].delivered => page[p].state = "captured"
    /\ \A p \in review : page[p].delivered
    /\ tab.method = "online" => tab.session \in Pages /\ page[tab.session].delivered

\* While a pay request stands the kitchen is done with the rounds, and a page
\* asks for something.
Ready ==
    /\ tab.amount # NoAmount /\ tab.payment \in {"unpaid", "pending"} => ~RoundsPending
    /\ \A p \in Pages : page[p].amount # NoAmount

TabInv ==
    /\ Shape /\ SettledHow /\ OnlyHeard /\ Ready
    /\ MoneyIsAccounted /\ ReviewIsFlagged /\ RoundsFollowTab /\ UsesFollowTab

USE DEF TabStates, PaymentStates, PageStates, RoundStates, NoAmount

-----------------------------------------------------------------------------
LEMMA InitHolds == QrTabsInit => TabInv
  BY QrTabsAssumption
     DEF QrTabsInit, TabInv, Shape, SettledHow, OnlyHeard, Ready, MoneyIsAccounted,
         ReviewIsFlagged, RoundsFollowTab, UsesFollowTab, NoTab, NoPayment, RoundsPending, Live

\* What forgetting a pay request leaves of the tab.
LEMMA UnboundRow ==
    ASSUME Shape, NEW row, row = [Unbound(tab) EXCEPT !.payment = "unpaid", !.cut = 0]
    PROVE  /\ row.status = tab.status /\ row.method = tab.method
           /\ row.payment = "unpaid" /\ row.amount = NoAmount
  BY DEF Shape, Unbound

LEMMA AddRoundKeeps == ASSUME TabInv, NEW r \in Rounds, AddRound(r) PROVE TabInv'
  <1> DEFINE stale == tab.amount # NoAmount /\ tab.payment \in {"unpaid", "pending"}
  <1>1. tab.status \in {"none", "open"} /\ tab.method # "online" /\ tab.payment # "paid"
    BY DEF TabInv, SettledHow, AddRound
  <1>2. /\ \/ /\ stale
              /\ tab' = [Unbound(tab) EXCEPT !.payment = "unpaid", !.cut = 0]
              /\ reserved' = NoCents
           \/ ~stale /\ tab' = [tab EXCEPT !.status = "open"] /\ reserved' = reserved
        /\ round' = [round EXCEPT ![r] = "accepted"]
        /\ UNCHANGED <<settled, consumed, page, review>>
    BY DEF AddRound
  <1>3. tab.status = "none" => ~stale
    BY DEF TabInv, SettledHow, NoTab
  <1>4. tab'.status = "open" /\ tab'.method = tab.method /\ tab'.payment # "paid"
    <2>1. CASE stale
      BY <1>1, <1>2, <1>3, <2>1, UnboundRow DEF TabInv
    <2>2. CASE ~stale
      BY <1>1, <1>2, <2>2 DEF TabInv, Shape
    <2> QED  BY <2>1, <2>2
  <1>5. Shape'
    BY <1>2, QrTabsAssumption DEF TabInv, Shape, Unbound
  <1>6. SettledHow'
    BY <1>1, <1>4 DEF SettledHow
  <1>7. OnlyHeard'
    BY <1>1, <1>2, <1>4 DEF TabInv, OnlyHeard
  <1>8. Ready'
    BY <1>1, <1>2 DEF TabInv, Shape, Unbound, Ready
  <1>9. MoneyIsAccounted'
    BY <1>1, <1>2, <1>4 DEF TabInv, MoneyIsAccounted
  <1>10. ReviewIsFlagged'
    BY <1>1, <1>2 DEF TabInv, Shape, Unbound, ReviewIsFlagged
  <1>11. RoundsFollowTab' /\ UsesFollowTab'
    BY <1>1, <1>2, <1>4 DEF TabInv, RoundsFollowTab, UsesFollowTab
  <1> QED  BY <1>5, <1>6, <1>7, <1>8, <1>9, <1>10, <1>11 DEF TabInv

LEMMA AskKeeps ==
    ASSUME TabInv, NEW tip, NEW cuts, NEW line, AskToPay(tip, cuts, line)
    PROVE  TabInv'
  <1>1. Shape' /\ SettledHow' /\ OnlyHeard'
    BY QrTabsAssumption DEF TabInv, Shape, AskToPay, SettledHow, OnlyHeard
  <1>2. Ready'
    BY DEF TabInv, Shape, AskToPay, Ready, RoundsPending
  <1>3. MoneyIsAccounted' /\ ReviewIsFlagged' /\ RoundsFollowTab' /\ UsesFollowTab'
    BY DEF TabInv, Shape, SettledHow, AskToPay, MoneyIsAccounted, ReviewIsFlagged,
           RoundsFollowTab, UsesFollowTab
  <1> QED  BY <1>1, <1>2, <1>3 DEF TabInv

LEMMA MoveRoundKeeps ==
    ASSUME TabInv, NEW r \in Rounds, NEW to, MoveRound(r, to)
    PROVE  TabInv'
  <1>1. /\ <<round[r], to>> \in KitchenTransitions /\ round' = [round EXCEPT ![r] = to]
        /\ UNCHANGED <<settled, tab, reserved, consumed, page, review>>
    BY DEF MoveRound
  <1>2. Shape' /\ SettledHow' /\ OnlyHeard' /\ MoneyIsAccounted' /\ ReviewIsFlagged' /\ UsesFollowTab'
    BY <1>1 DEF TabInv, Shape, SettledHow, OnlyHeard, MoneyIsAccounted, ReviewIsFlagged,
                UsesFollowTab
  <1>3. Ready'
    BY <1>1 DEF TabInv, Shape, Ready, RoundsPending, KitchenTransitions
  <1>4. Live' \subseteq Live
    BY <1>1 DEF TabInv, Shape, Live, KitchenTransitions
  <1>5. RoundsFollowTab'
    BY <1>1, <1>4 DEF TabInv, RoundsFollowTab
  <1> QED  BY <1>2, <1>3, <1>5 DEF TabInv

LEMMA StopKeeps == ASSUME TabInv, StopPayment PROVE TabInv'
  <1>1. /\ tab.status = "open" /\ tab.payment \in {"unpaid", "pending"}
        /\ tab' = [Unbound(tab) EXCEPT !.payment = "unpaid", !.cut = 0]
        /\ UNCHANGED <<round, settled, consumed, page, review>>
    BY DEF StopPayment
  <1>2. Shape'
    BY <1>1, QrTabsAssumption DEF TabInv, Shape, Unbound
  <1>3. /\ tab'.status = "open" /\ tab'.method = tab.method
        /\ tab'.payment = "unpaid" /\ tab'.amount = NoAmount
    BY <1>1, UnboundRow DEF TabInv
  <1>4. tab.method # "online" /\ review = {}
    BY <1>1 DEF TabInv, SettledHow, ReviewIsFlagged
  <1>5. SettledHow' /\ OnlyHeard' /\ Ready'
    BY <1>1, <1>3, <1>4 DEF TabInv, SettledHow, OnlyHeard, Ready
  <1>6. MoneyIsAccounted' /\ ReviewIsFlagged' /\ RoundsFollowTab' /\ UsesFollowTab'
    BY <1>1, <1>3, <1>4 DEF TabInv, MoneyIsAccounted, ReviewIsFlagged, RoundsFollowTab,
                            UsesFollowTab
  <1> QED  BY <1>2, <1>5, <1>6 DEF TabInv

LEMMA LockKeeps == ASSUME TabInv, LockTab PROVE TabInv'
  <1>1. /\ tab.status = "open"
        /\ \/ tab' = [tab EXCEPT !.locked = TRUE, !.amount = NoAmount, !.tip = 0, !.cut = 0]
           \/ tab' = [tab EXCEPT !.locked = TRUE]
        /\ UNCHANGED <<round, settled, consumed, page, review>>
    BY DEF LockTab
  <1>2. Shape'
    BY <1>1 DEF TabInv, Shape
  <1>3. /\ tab'.status = "open" /\ tab'.method = tab.method
        /\ tab'.payment = tab.payment /\ tab'.amount \in {NoAmount, tab.amount}
    BY <1>1 DEF TabInv, Shape
  <1>4. tab.method # "online"
    BY <1>1 DEF TabInv, SettledHow
  <1>5. SettledHow' /\ OnlyHeard' /\ Ready'
    BY <1>1, <1>3, <1>4 DEF TabInv, SettledHow, OnlyHeard, Ready, RoundsPending
  <1>6. MoneyIsAccounted' /\ ReviewIsFlagged' /\ RoundsFollowTab' /\ UsesFollowTab'
    BY <1>1, <1>3, <1>4 DEF TabInv, MoneyIsAccounted, ReviewIsFlagged, RoundsFollowTab,
                            UsesFollowTab
  <1> QED  BY <1>2, <1>5, <1>6 DEF TabInv

LEMMA NewCodeKeeps == ASSUME TabInv, NewTableCode PROVE TabInv'
  <1>1. /\ tab.status = "open" /\ tab.payment = "unpaid" /\ tab' = Unbound(tab)
        /\ UNCHANGED <<round, settled, reserved, consumed, page, review>>
    BY DEF NewTableCode
  <1>2. Shape'
    BY <1>1, QrTabsAssumption DEF TabInv, Shape, Unbound
  <1>3. /\ tab'.status = "open" /\ tab'.method = tab.method
        /\ tab'.payment = "unpaid" /\ tab'.amount = NoAmount
    BY <1>1 DEF TabInv, Shape, Unbound
  <1>4. tab.method # "online"
    BY <1>1 DEF TabInv, SettledHow
  <1>5. SettledHow' /\ OnlyHeard' /\ Ready'
    BY <1>1, <1>3, <1>4 DEF TabInv, SettledHow, OnlyHeard, Ready
  <1>6. MoneyIsAccounted' /\ ReviewIsFlagged' /\ RoundsFollowTab' /\ UsesFollowTab'
    BY <1>1, <1>3, <1>4 DEF TabInv, MoneyIsAccounted, ReviewIsFlagged, RoundsFollowTab,
                            UsesFollowTab
  <1> QED  BY <1>2, <1>5, <1>6 DEF TabInv

LEMMA CloseKeeps == ASSUME TabInv, NEW tip, NEW cuts, CloseAtCounter(tip, cuts) PROVE TabInv'
  <1> DEFINE payment == IF tab.payment = "review" THEN "review" ELSE "paid"
  <1>1. /\ tab.status = "open" /\ settled' = settled \cup Live
        /\ reserved' = NoCents
        /\ tab' = [Unbound(tab) EXCEPT !.status = "closed", !.method = "counter",
                      !.payment = payment, !.cut = 0, !.tip = tip,
                      !.total = Bill - Cardinality(cuts) + tip]
        /\ UNCHANGED <<round, page, review>>
    BY DEF CloseAtCounter, Settleable, TabInv, Shape, Unbound
  <1>2. Shape'
    BY <1>1, QrTabsAssumption DEF TabInv, Shape, Unbound
  <1>3. /\ tab'.status = "closed" /\ tab'.method = "counter"
        /\ tab'.payment = payment /\ tab'.amount = NoAmount
    BY <1>1 DEF TabInv, Shape, Unbound
  <1>4. tab.method # "online" /\ Live' = Live
    BY <1>1 DEF TabInv, SettledHow, Live
  <1>5. SettledHow' /\ OnlyHeard' /\ Ready'
    BY <1>1, <1>3, <1>4 DEF TabInv, SettledHow, OnlyHeard, Ready
  <1>6. MoneyIsAccounted' /\ ReviewIsFlagged' /\ RoundsFollowTab' /\ UsesFollowTab'
    BY <1>1, <1>3, <1>4 DEF TabInv, MoneyIsAccounted, ReviewIsFlagged, RoundsFollowTab,
                            UsesFollowTab, NoCents
  <1> QED  BY <1>2, <1>5, <1>6 DEF TabInv

LEMMA VoidKeeps == ASSUME TabInv, VoidTab PROVE TabInv'
  <1>1. /\ tab.status = "open" /\ reserved' = NoCents
        /\ round' = [r \in Rounds |-> IF round[r] = "accepted" THEN "cancelled" ELSE round[r]]
        /\ tab' = [Unbound(tab) EXCEPT !.status = "cancelled", !.cut = 0]
        /\ UNCHANGED <<settled, consumed, page, review>>
    BY DEF VoidTab, Settleable
  <1>2. Shape'
    BY <1>1, QrTabsAssumption DEF TabInv, Shape, Unbound
  <1>3. /\ tab'.status = "cancelled" /\ tab'.method = tab.method
        /\ tab'.payment = tab.payment /\ tab'.amount = NoAmount
    BY <1>1 DEF TabInv, Shape, Unbound
  <1>4. tab.method # "online" /\ tab.payment # "paid"
    BY <1>1 DEF TabInv, SettledHow
  <1>5. SettledHow' /\ OnlyHeard' /\ Ready'
    BY <1>1, <1>3, <1>4 DEF TabInv, SettledHow, OnlyHeard, Ready
  <1>6. MoneyIsAccounted' /\ ReviewIsFlagged' /\ RoundsFollowTab' /\ UsesFollowTab'
    BY <1>1, <1>3, <1>4 DEF TabInv, MoneyIsAccounted, ReviewIsFlagged, RoundsFollowTab,
                            UsesFollowTab, NoCents
  <1> QED  BY <1>2, <1>5, <1>6 DEF TabInv

-----------------------------------------------------------------------------
\* Pages

\* A page that was not heard of may go any way, while the tab stays as it is or
\* waits for a page from now on.
LEMMA PageMoves ==
    ASSUME TabInv, NEW p \in Pages, NEW session \in Pages \cup {Ref},
           page[p].state # "captured", tab.status # "none",
           NEW amount, amount # NoAmount,
           NEW row \in [state : PageStates, amount : {amount}, delivered : BOOLEAN],
           ~row.delivered,
           page' = [page EXCEPT ![p] = row],
           \/ tab' = tab
           \/ /\ tab.status = "open" /\ tab.payment \in {"unpaid", "pending"}
              /\ tab' = [tab EXCEPT !.session = session, !.payment = "pending"],
           UNCHANGED <<round, settled, reserved, consumed, review>>
    PROVE  TabInv'
  <1>1. Shape'
    BY DEF TabInv, Shape
  <1>2. /\ tab'.status = tab.status /\ tab'.method = tab.method /\ tab'.amount = tab.amount
        /\ \/ tab'.payment = tab.payment
           \/ tab.payment \in {"unpaid", "pending"} /\ tab'.payment = "pending"
        /\ tab.method = "online" => tab'.session = tab.session
    BY DEF TabInv, Shape, SettledHow
  <1>3. ~page[p].delivered /\ p \notin review
    BY DEF TabInv, OnlyHeard
  <1>4. \A q \in Pages : \/ page'[q] = page[q]
                         \/ q = p /\ ~page'[q].delivered /\ page'[q].amount # NoAmount
    BY DEF TabInv, Shape
  <1>5. SettledHow'
    BY <1>2 DEF TabInv, SettledHow
  <1>6. OnlyHeard'
    <2>1. \A q \in Pages : page'[q].delivered => page'[q].state = "captured"
      BY <1>4 DEF TabInv, OnlyHeard
    <2>2. \A q \in review' : page'[q].delivered
      BY <1>3, <1>4 DEF TabInv, Shape, OnlyHeard
    <2>3. tab'.method = "online" => tab'.session \in Pages /\ page'[tab'.session].delivered
      <3> SUFFICES ASSUME tab'.method = "online"
                   PROVE  tab'.session \in Pages /\ page'[tab'.session].delivered
        OBVIOUS
      <3>1. tab.session \in Pages /\ page[tab.session].delivered /\ tab'.session = tab.session
        BY <1>2 DEF TabInv, OnlyHeard
      <3>2. page'[tab.session] = page[tab.session]
        BY <1>3, <1>4, <3>1
      <3> QED  BY <3>1, <3>2
    <2> QED  BY <2>1, <2>2, <2>3 DEF OnlyHeard
  <1>7. Ready'
    BY <1>2, <1>4 DEF TabInv, Ready, RoundsPending
  <1>8. MoneyIsAccounted'
    <2> SUFFICES ASSUME NEW q \in Pages, page'[q].delivered
                 PROVE  (q \in review') # (tab'.method = "online" /\ tab'.session = q)
      BY DEF MoneyIsAccounted
    <2>1. page[q].delivered
      BY <1>4
    <2>2. (q \in review) # (tab.method = "online" /\ tab.session = q)
      BY <2>1 DEF TabInv, MoneyIsAccounted
    <2> QED  BY <2>2, <1>2
  <1>9. ReviewIsFlagged' /\ RoundsFollowTab' /\ UsesFollowTab'
    BY <1>2 DEF TabInv, ReviewIsFlagged, RoundsFollowTab, Live, UsesFollowTab, NoCents
  <1> QED  BY <1>1, <1>5, <1>6, <1>7, <1>8, <1>9 DEF TabInv

LEMMA QuoteKeeps == ASSUME TabInv, NEW p \in Pages, ReadQuote(p) PROVE TabInv'
  <1> DEFINE row == [state |-> "quoted", amount |-> tab.amount, delivered |-> FALSE]
  <1>1. /\ page[p].state = "none" /\ tab.status = "open" /\ tab.amount # NoAmount
        /\ page' = [page EXCEPT ![p] = row]
        /\ UNCHANGED <<round, settled, tab, reserved, consumed, review>>
    BY DEF ReadQuote
  <1>2. /\ row \in [state : PageStates, amount : {tab.amount}, delivered : BOOLEAN]
        /\ ~row.delivered
    OBVIOUS
  <1> HIDE DEF row
  <1> QED  BY <1>1, <1>2, PageMoves

LEMMA EndKeeps == ASSUME TabInv, NEW p \in Pages, PageEnds(p) PROVE TabInv'
  <1>1. /\ page[p].state = "open" /\ page' = [page EXCEPT ![p] = NoPayment("ended")]
        /\ UNCHANGED <<round, settled, tab, reserved, consumed, review>>
    BY DEF PageEnds
  <1>2. /\ NoPayment("ended") \in [state : PageStates, amount : {0}, delivered : BOOLEAN]
        /\ ~NoPayment("ended").delivered /\ 0 # NoAmount
    BY DEF NoPayment
  <1>3. tab.status # "none"
    BY <1>1 DEF TabInv, SettledHow
  <1> QED  BY <1>1, <1>2, <1>3, PageMoves

LEMMA PayKeeps == ASSUME TabInv, NEW p \in Pages, GuestPays(p) PROVE TabInv'
  <1> DEFINE row == [page[p] EXCEPT !.state = "captured"]
  <1>1. /\ page[p].state = "open" /\ page' = [page EXCEPT ![p] = row]
        /\ UNCHANGED <<round, settled, tab, reserved, consumed, review>>
    BY DEF GuestPays
  <1>2. /\ row \in [state : PageStates, amount : {page[p].amount}, delivered : BOOLEAN]
        /\ ~row.delivered /\ page[p].amount # NoAmount
    BY <1>1 DEF TabInv, Shape, OnlyHeard, Ready
  <1>3. tab.status # "none"
    BY <1>1 DEF TabInv, SettledHow
  <1> HIDE DEF row
  <1> QED  BY <1>1, <1>2, <1>3, PageMoves

LEMMA BindKeeps == ASSUME TabInv, NEW p \in Pages, BindPage(p) PROVE TabInv'
  <1>1. /\ page[p].state = "quoted"
        /\ UNCHANGED <<round, settled, reserved, consumed, review>>
    BY DEF BindPage
  <1>2. tab.status # "none" /\ SessionOf(p) \in Pages \cup {Ref}
    BY <1>1 DEF TabInv, SettledHow, SessionOf
  <1>3. \/ tab' = tab
        \/ /\ tab.status = "open" /\ tab.payment \in {"unpaid", "pending"}
           /\ tab' = [tab EXCEPT !.session = SessionOf(p), !.payment = "pending"]
    BY DEF BindPage
  <1>4. CASE page' = [page EXCEPT ![p] = NoPayment("ended")]
    <2>1. /\ NoPayment("ended") \in [state : PageStates, amount : {0}, delivered : BOOLEAN]
          /\ ~NoPayment("ended").delivered /\ 0 # NoAmount
      BY DEF NoPayment
    <2> QED  BY <1>1, <1>2, <1>3, <1>4, <2>1, PageMoves
  <1>5. CASE page' = [page EXCEPT ![p] = [page[p] EXCEPT !.state = "open"]]
    <2> DEFINE row == [page[p] EXCEPT !.state = "open"]
    <2>1. /\ row \in [state : PageStates, amount : {page[p].amount}, delivered : BOOLEAN]
          /\ ~row.delivered /\ page[p].amount # NoAmount
      BY <1>1 DEF TabInv, Shape, OnlyHeard, Ready
    <2>2. page' = [page EXCEPT ![p] = row]
      BY <1>5
    <2> HIDE DEF row
    <2> QED  BY <1>1, <1>2, <1>3, <2>1, <2>2, PageMoves
  <1> QED  BY <1>4, <1>5 DEF BindPage

-----------------------------------------------------------------------------
\* What the provider reports

LEMMA EndedKeeps == ASSUME TabInv, NEW p \in Pages, EndedEvent(p) PROVE TabInv'
  <1>1. /\ page[p].state = "ended" /\ tab.payment \in {"unpaid", "pending"}
        /\ tab' = [Unbound(tab) EXCEPT !.payment = "unpaid", !.cut = 0]
        /\ reserved' = NoCents
        /\ UNCHANGED <<round, settled, consumed, page, review>>
    BY DEF EndedEvent, TabInv, Shape
  <1>2. Shape'
    BY <1>1, QrTabsAssumption DEF TabInv, Shape, Unbound
  <1>3. /\ tab'.status = tab.status /\ tab'.method = tab.method
        /\ tab'.payment = "unpaid" /\ tab'.amount = NoAmount
    BY <1>1, UnboundRow DEF TabInv
  <1>4. tab.method # "online" /\ tab.status # "none"
    BY <1>1 DEF TabInv, SettledHow
  <1>5. review = {}
    BY <1>1 DEF TabInv, ReviewIsFlagged
  <1>6. SettledHow' /\ OnlyHeard' /\ Ready'
    BY <1>1, <1>3, <1>4 DEF TabInv, SettledHow, OnlyHeard, Ready
  <1>7. MoneyIsAccounted' /\ ReviewIsFlagged' /\ RoundsFollowTab' /\ UsesFollowTab'
    BY <1>1, <1>3, <1>4, <1>5 DEF TabInv, MoneyIsAccounted, ReviewIsFlagged, RoundsFollowTab,
                                  Live, UsesFollowTab, NoCents
  <1> QED  BY <1>2, <1>6, <1>7 DEF TabInv

\* While the tab is open and nothing is under review, no payment was heard of.
LEMMA NothingHeard ==
    ASSUME TabInv, tab.status = "open", tab.payment \in {"unpaid", "pending"}
    PROVE  review = {} /\ \A p \in Pages : ~page[p].delivered
  <1>1. review = {} /\ tab.method # "online"
    BY DEF TabInv, SettledHow, ReviewIsFlagged
  <1> QED  BY <1>1 DEF TabInv, MoneyIsAccounted

\* A payment that is heard of again, or settles or flags the tab.
LEMMA PaidKeeps == ASSUME TabInv, NEW p \in Pages, PaidEvent(p) PROVE TabInv'
  <1>1. /\ page[p].state = "captured" /\ round' = round
        /\ page' = [page EXCEPT ![p].delivered = TRUE]
    BY DEF PaidEvent
  <1>2. \A q \in Pages : /\ page'[q].state = page[q].state /\ page'[q].amount = page[q].amount
                         /\ page'[q].delivered <=> (q = p \/ page[q].delivered)
    BY <1>1 DEF TabInv, Shape
  <1>3. /\ DOMAIN page' = Pages /\ DOMAIN round' = Rounds /\ Live' = Live
        /\ \A q \in Pages : page'[q] \in [state : PageStates, amount : {page'[q].amount},
                                          delivered : BOOLEAN]
    BY <1>1 DEF TabInv, Shape, Live
  <1>4. tab.status # "none"
    BY <1>1 DEF TabInv, SettledHow
  <1>5. CASE SettledBy(p) /\ UNCHANGED <<settled, tab, reserved, consumed, review>>
    <2>1. page[p].delivered
      BY <1>5 DEF SettledBy, TabInv, OnlyHeard
    <2>2. \A q \in Pages : page'[q].delivered <=> page[q].delivered
      BY <1>2, <2>1
    <2>3. Shape' /\ SettledHow'
      BY <1>3, <1>4, <1>5 DEF TabInv, Shape, SettledHow
    <2>4. OnlyHeard' /\ Ready'
      BY <1>1, <1>2, <1>5, <2>2 DEF TabInv, Shape, OnlyHeard, Ready, RoundsPending
    <2>5. MoneyIsAccounted' /\ ReviewIsFlagged' /\ RoundsFollowTab' /\ UsesFollowTab'
      BY <1>3, <1>5, <2>2 DEF TabInv, MoneyIsAccounted, ReviewIsFlagged, RoundsFollowTab,
                              UsesFollowTab, NoCents
    <2> QED  BY <2>3, <2>4, <2>5 DEF TabInv
  <1>6. CASE Matches(p) /\ SettleOnline(p)
    <2>1. tab.status = "open" /\ tab.payment \in {"unpaid", "pending"}
      BY <1>6 DEF Matches, TabInv, Shape
    <2>2. review = {} /\ \A q \in Pages : ~page[q].delivered
      BY <2>1, NothingHeard
    <2>3. /\ tab' = [tab EXCEPT !.status = "closed", !.method = "online", !.payment = "paid",
                                !.session = p, !.total = page[p].amount]
          /\ settled' = settled \cup Live /\ reserved' = NoCents /\ review' = review
      BY <1>6 DEF SettleOnline
    <2>4. /\ Shape' /\ tab'.status = "closed" /\ tab'.method = "online"
          /\ tab'.payment = "paid" /\ tab'.session = p
      BY <1>3, <2>3 DEF TabInv, Shape
    <2>5. SettledHow' /\ OnlyHeard' /\ Ready'
      BY <1>1, <1>2, <2>2, <2>3, <2>4 DEF TabInv, SettledHow, OnlyHeard, Ready
    <2>6. MoneyIsAccounted' /\ ReviewIsFlagged'
      BY <1>2, <2>2, <2>3, <2>4 DEF MoneyIsAccounted, ReviewIsFlagged
    <2>7. RoundsFollowTab' /\ UsesFollowTab'
      BY <1>3, <2>3, <2>4 DEF RoundsFollowTab, UsesFollowTab, NoCents
    <2> QED  BY <2>4, <2>5, <2>6, <2>7 DEF TabInv
  <1>7. CASE ~SettledBy(p) /\ KeepForReview(p)
    <2>1. /\ review' = review \cup {p}
          /\ UNCHANGED <<settled, reserved, consumed>>
          /\ \/ tab' = tab /\ (p \in review \/ tab.payment = "paid")
             \/ tab' = [tab EXCEPT !.payment = "review"] /\ tab.payment # "paid"
      BY <1>7 DEF KeepForReview
    <2>2. /\ Shape' /\ tab'.status = tab.status /\ tab'.method = tab.method
          /\ tab'.session = tab.session /\ tab'.amount = tab.amount
          /\ \/ tab'.payment = tab.payment /\ (p \in review \/ tab.payment = "paid")
             \/ tab'.payment = "review" /\ tab.payment # "paid"
      BY <1>3, <2>1 DEF TabInv, Shape
    <2>3. SettledHow'
      BY <1>4, <2>2 DEF TabInv, SettledHow
    <2>4. OnlyHeard'
      BY <1>1, <1>2, <2>1, <2>2 DEF TabInv, Shape, OnlyHeard
    <2>5. Ready'
      BY <1>1, <1>2, <2>2 DEF TabInv, Ready, RoundsPending
    <2>6. ~(tab.method = "online" /\ tab.session = p)
      BY <1>7 DEF SettledBy, TabInv, SettledHow
    <2>7. MoneyIsAccounted'
      BY <1>2, <2>1, <2>2, <2>6 DEF TabInv, MoneyIsAccounted
    <2>8. ReviewIsFlagged'
      BY <2>1, <2>2 DEF TabInv, SettledHow, ReviewIsFlagged
    <2>9. RoundsFollowTab' /\ UsesFollowTab'
      BY <1>3, <2>1, <2>2 DEF TabInv, RoundsFollowTab, UsesFollowTab, NoCents
    <2> QED  BY <2>2, <2>3, <2>4, <2>5, <2>7, <2>8, <2>9 DEF TabInv
  <1> QED  BY <1>5, <1>6, <1>7 DEF PaidEvent

\* Loyalty touches nothing but the reward.
LEMMA OnlyReward ==
    ASSUME Loyalty
    PROVE  UNCHANGED <<processor, round, settled, tab, reserved, consumed, age, page, review>>
  BY DEF Loyalty, ParkReward, ResolveReward, SettleReward

LEMMA StepKeeps == TabInv /\ [QrTabsNext]_vars => TabInv'
  <1> SUFFICES ASSUME TabInv, [QrTabsNext]_vars PROVE TabInv'
    OBVIOUS
  <1>1. CASE Guests
    BY <1>1, AddRoundKeeps, AskKeeps DEF Guests
  <1>2. CASE Staff
    BY <1>2, MoveRoundKeeps, StopKeeps, LockKeeps, NewCodeKeeps, VoidKeeps, CloseKeeps DEF Staff
  <1>3. CASE Checkout
    BY <1>3, QuoteKeeps, BindKeeps DEF Checkout
  <1>4. CASE Provider
    BY <1>4, PayKeeps, EndKeeps, PaidKeeps, EndedKeeps DEF Provider
  <1>5. CASE Loyalty \/ PassTime \/ UNCHANGED vars
    <2>1. UNCHANGED <<round, settled, tab, reserved, consumed, page, review>>
      BY <1>5, OnlyReward DEF PassTime, vars
    <2> QED  BY <2>1 DEF TabInv, Shape, SettledHow, OnlyHeard, Ready, RoundsPending,
                         MoneyIsAccounted, ReviewIsFlagged, RoundsFollowTab, UsesFollowTab, Live,
                         NoCents
  <1> QED  BY <1>1, <1>2, <1>3, <1>4, <1>5 DEF QrTabsNext

LEMMA TabInvHolds == QrTabsSpec => []TabInv
  <1> QED  BY InitHolds, StepKeeps, PTL DEF QrTabsSpec

\* Only a payment that matches the tab closes it as paid online.
LEMMA OnlineByPayment ==
    ASSUME TabInv, QrTabsNext, tab'.method = "online", tab.method # "online"
    PROVE  \E p \in Pages : Matches(p) /\ SettleOnline(p) /\ UNCHANGED <<round, reward>>
  <1>1. CASE Guests
    <2>1. CASE \E r \in Rounds : AddRound(r)
      <3>1. \/ tab' = [Unbound(tab) EXCEPT !.payment = "unpaid", !.cut = 0]
            \/ tab' = [tab EXCEPT !.status = "open"]
        BY <2>1 DEF AddRound
      <3> QED  BY <3>1, UnboundRow DEF TabInv, Shape
    <2>2. CASE \E tip \in Tips, cuts \in Discounts, line \in RewardLines : AskToPay(tip, cuts, line)
      BY <2>2 DEF AskToPay, TabInv, Shape
    <2> QED  BY <1>1, <2>1, <2>2 DEF Guests
  <1>2. CASE Staff
    <2>1. CASE StopPayment
      BY <2>1, UnboundRow DEF StopPayment, TabInv
    <2>2. CASE VoidTab
      BY <2>2 DEF VoidTab, Unbound, TabInv, Shape
    <2>3. CASE \E tip \in Tips, cuts \in Discounts : CloseAtCounter(tip, cuts)
      BY <2>3 DEF CloseAtCounter, Unbound, TabInv, Shape
    <2> QED  BY <1>2, <2>1, <2>2, <2>3
             DEF Staff, MoveRound, LockTab, NewTableCode, Unbound, TabInv, Shape
  <1>3. CASE Checkout
    BY <1>3 DEF Checkout, ReadQuote, BindPage, TabInv, Shape
  <1>4. CASE Provider
    <2>1. CASE \E p \in Pages : EndedEvent(p)
      BY <2>1, UnboundRow DEF EndedEvent, TabInv
    <2>2. CASE \E p \in Pages : PaidEvent(p)
      BY <2>2 DEF PaidEvent, KeepForReview, TabInv, Shape
    <2> QED  BY <1>4, <2>1, <2>2 DEF Provider, GuestPays, PageEnds
  <1>5. CASE Loyalty
    BY <1>5, OnlyReward
  <1> QED  BY <1>1, <1>2, <1>3, <1>4, <1>5 DEF QrTabsNext, PassTime

-----------------------------------------------------------------------------
\* Types

\* What a row goes back to is well typed.
LEMMA RowsReleased ==
    ASSUME QrTabsTypeOK
    PROVE  /\ Released(reward) \in RewardRow /\ SetAside \in RewardRow
           /\ NoCents \in [Rounds -> {0, 1}]
           /\ NoAmount \in Int /\ 0 \in Tips /\ NoPage \in Pages \cup {Ref, NoPage}
           /\ \A state \in PageStates : NoPayment(state) \in PageRow
  <1>1. NoReward \in RewardRow
    BY DEF NoReward, RewardRow
  <1>2. SetAside \in RewardRow
    BY <1>1 DEF QrTabsTypeOK, RewardRow, SetAside, Released
  <1> QED  BY <1>1, <1>2, QrTabsAssumption
           DEF QrTabsTypeOK, Released, NoCents, NoPayment, PageRow

LEMMA UnboundTyped ==
    ASSUME QrTabsTypeOK
    PROVE  /\ Unbound(tab) \in TabRow
           /\ [Unbound(tab) EXCEPT !.payment = "unpaid", !.cut = 0] \in TabRow
           /\ [Unbound(tab) EXCEPT !.status = "cancelled", !.cut = 0] \in TabRow
  BY RowsReleased DEF QrTabsTypeOK, TabRow, Unbound

\* What is taken off a tab is counted in rounds.
LEMMA OffTyped ==
    ASSUME NEW S \in SUBSET Rounds
    PROVE  Cardinality(S) \in Nat
  BY QrTabsAssumption, FS_Subset, FS_CardinalityType

LEMMA BillTyped == Bill \in Nat
  <1>1. Live \in SUBSET Rounds
    BY DEF Live
  <1> QED  BY <1>1, QrTabsAssumption, SumType DEF Bill

LEMMA LineTyped ==
    ASSUME NEW line \in RewardLines
    PROVE  line \in SUBSET Rounds /\ Cardinality(line) \in {0, 1}
  BY FS_EmptySet, FS_Singleton DEF RewardLines, Live

LEMMA CutsTyped ==
    ASSUME NEW cuts \in Discounts
    PROVE  cuts \in SUBSET Rounds /\ Cardinality(cuts) \in Nat
  BY OffTyped DEF Discounts, Live

LEMMA GuestsTyped == ASSUME QrTabsTypeOK, Guests PROVE QrTabsTypeOK'
  <1>1. ASSUME NEW r \in Rounds, AddRound(r) PROVE QrTabsTypeOK'
    <2>1. round' \in [Rounds -> RoundStates]
      BY <1>1 DEF AddRound, QrTabsTypeOK
    <2>2. tab' \in TabRow
      <3>1. \/ tab' = [Unbound(tab) EXCEPT !.payment = "unpaid", !.cut = 0]
            \/ tab' = [tab EXCEPT !.status = "open"]
        BY <1>1 DEF AddRound
      <3>2. [tab EXCEPT !.status = "open"] \in TabRow
        BY DEF QrTabsTypeOK, TabRow
      <3> QED  BY <3>1, <3>2, UnboundTyped
    <2>3. reward' \in RewardRow /\ reserved' \in [Rounds -> {0, 1}]
      BY <1>1, RowsReleased DEF AddRound, QrTabsTypeOK
    <2> QED  BY <1>1, <2>1, <2>2, <2>3 DEF AddRound, QrTabsTypeOK
  <1>2. ASSUME NEW tip \in Tips, NEW cuts \in Discounts, NEW line \in RewardLines,
               AskToPay(tip, cuts, line)
        PROVE  QrTabsTypeOK'
    <2> DEFINE bill == Bill - Cardinality(cuts) - Cardinality(line)
    <2>1. tab' = [tab EXCEPT !.payment = "unpaid", !.session = NoPage, !.tip = tip,
                             !.amount = bill + tip, !.cut = Cardinality(line)]
      BY <1>2 DEF AskToPay
    <2>2. bill + tip \in Int /\ Cardinality(line) \in {0, 1}
      BY BillTyped, CutsTyped, LineTyped, QrTabsAssumption
    <2>3. tab' \in TabRow
      <3> HIDE DEF bill
      <3> QED  BY <2>1, <2>2 DEF QrTabsTypeOK, TabRow
    <2>4. reward' \in RewardRow
      <3>1. \/ reward' \in {reward, SetAside}
            \/ reward' = [state |-> "bound", line |-> line, cart |-> <<Live, cuts>>]
        BY <1>2 DEF AskToPay
      <3>2. Live \in SUBSET Rounds /\ cuts \in SUBSET Rounds /\ line \in SUBSET Rounds
        BY CutsTyped, LineTyped DEF Live
      <3> QED  BY <3>1, <3>2, RowsReleased DEF QrTabsTypeOK, RewardRow
    <2>5. reserved' \in [Rounds -> {0, 1}]
      BY <1>2 DEF AskToPay, Reserve
    <2>6. age' \in Ages
      BY <1>2 DEF AskToPay, QrTabsTypeOK, Ages
    <2> QED  BY <1>2, <2>3, <2>4, <2>5, <2>6 DEF AskToPay, QrTabsTypeOK
  <1> QED  BY <1>1, <1>2 DEF Guests

LEMMA StaffTyped == ASSUME QrTabsTypeOK, UsesFollowTab, Staff PROVE QrTabsTypeOK'
  <1>1. ASSUME NEW r \in Rounds, NEW to \in RoundStates, MoveRound(r, to)
        PROVE  QrTabsTypeOK'
    BY <1>1 DEF MoveRound, QrTabsTypeOK
  <1>2. ASSUME StopPayment PROVE QrTabsTypeOK'
    BY <1>2, UnboundTyped, RowsReleased DEF StopPayment, QrTabsTypeOK, Ages
  <1>3. ASSUME LockTab PROVE QrTabsTypeOK'
    <2>1. \/ tab' = [tab EXCEPT !.locked = TRUE, !.amount = NoAmount, !.tip = 0, !.cut = 0]
          \/ tab' = [tab EXCEPT !.locked = TRUE]
      BY <1>3 DEF LockTab
    <2>2. tab' \in TabRow
      BY <2>1, RowsReleased DEF QrTabsTypeOK, TabRow
    <2> QED  BY <1>3, <2>2, RowsReleased DEF LockTab, QrTabsTypeOK
  <1>4. ASSUME NewTableCode PROVE QrTabsTypeOK'
    BY <1>4, UnboundTyped DEF NewTableCode, QrTabsTypeOK
  <1>5. ASSUME VoidTab PROVE QrTabsTypeOK'
    <2>1. round' \in [Rounds -> RoundStates]
      BY <1>5 DEF VoidTab, QrTabsTypeOK
    <2> QED  BY <1>5, <2>1, UnboundTyped, RowsReleased DEF VoidTab, QrTabsTypeOK
  <1>6. ASSUME NEW tip \in Tips, NEW cuts \in Discounts, CloseAtCounter(tip, cuts)
        PROVE  QrTabsTypeOK'
    <2> DEFINE payment == IF Unbound(tab).payment = "review" THEN "review" ELSE "paid"
               total == Bill - Cardinality(cuts) + tip
    <2>1. tab' = [Unbound(tab) EXCEPT !.status = "closed", !.method = "counter",
                     !.payment = payment, !.cut = 0, !.tip = tip, !.total = total]
      BY <1>6 DEF CloseAtCounter
    <2>2. total \in Int /\ payment \in PaymentStates
      BY BillTyped, CutsTyped, QrTabsAssumption
    <2>3. tab' \in TabRow
      <3> HIDE DEF total, payment
      <3> QED  BY <2>1, <2>2, UnboundTyped DEF TabRow
    <2>4. consumed' \in [Rounds -> {0, 1}]
      <3>1. consumed = NoCents
        BY <1>6 DEF CloseAtCounter, Settleable, UsesFollowTab
      <3> QED  BY <1>6, <3>1 DEF CloseAtCounter, NoCents
    <2>5. settled' \in SUBSET Rounds
      BY <1>6 DEF CloseAtCounter, QrTabsTypeOK, Live
    <2> QED  BY <1>6, <2>3, <2>4, <2>5, RowsReleased DEF CloseAtCounter, QrTabsTypeOK
  <1> QED  BY <1>1, <1>2, <1>3, <1>4, <1>5, <1>6 DEF Staff

LEMMA CheckoutTyped == ASSUME QrTabsTypeOK, Checkout PROVE QrTabsTypeOK'
  <1>1. ASSUME NEW p \in Pages, ReadQuote(p) PROVE QrTabsTypeOK'
    <2>1. tab.amount \in Int
      BY DEF QrTabsTypeOK, TabRow
    <2>2. page' \in [Pages -> PageRow]
      BY <1>1, <2>1 DEF ReadQuote, QrTabsTypeOK, PageRow
    <2> QED  BY <1>1, <2>2 DEF ReadQuote, QrTabsTypeOK
  <1>2. ASSUME NEW p \in Pages, BindPage(p) PROVE QrTabsTypeOK'
    <2>1. \/ page' = [page EXCEPT ![p] = [page[p] EXCEPT !.state = "open"]]
          \/ page' = [page EXCEPT ![p] = NoPayment("ended")]
      BY <1>2 DEF BindPage, QrTabsTypeOK
    <2>2. page' \in [Pages -> PageRow]
      BY <2>1, RowsReleased DEF QrTabsTypeOK, PageRow
    <2>3. SessionOf(p) \in Pages \cup {Ref, NoPage}
      BY DEF SessionOf
    <2>4. tab' \in TabRow /\ age' \in Ages
      BY <1>2, <2>3 DEF BindPage, QrTabsTypeOK, TabRow, Ages
    <2> QED  BY <1>2, <2>2, <2>4 DEF BindPage, QrTabsTypeOK
  <1> QED  BY <1>1, <1>2 DEF Checkout

LEMMA ProviderTyped == ASSUME QrTabsTypeOK, UsesFollowTab, Provider PROVE QrTabsTypeOK'
  <1>1. ASSUME NEW p \in Pages, GuestPays(p) PROVE QrTabsTypeOK'
    BY <1>1 DEF GuestPays, QrTabsTypeOK, PageRow
  <1>2. ASSUME NEW p \in Pages, PageEnds(p) PROVE QrTabsTypeOK'
    BY <1>2, RowsReleased DEF PageEnds, QrTabsTypeOK
  <1>3. ASSUME NEW p \in Pages, PaidEvent(p) PROVE QrTabsTypeOK'
    <2>1. page' \in [Pages -> PageRow]
      BY <1>3 DEF PaidEvent, QrTabsTypeOK, PageRow
    <2>2. ASSUME SettledBy(p), UNCHANGED <<settled, tab, reserved, consumed, age, review>>
          PROVE  QrTabsTypeOK'
      BY <1>3, <2>1, <2>2 DEF PaidEvent, QrTabsTypeOK
    <2>3. ASSUME Matches(p), SettleOnline(p) PROVE QrTabsTypeOK'
      <3>1. page[p].amount \in Int
        BY DEF QrTabsTypeOK, PageRow
      <3>2. tab' \in TabRow
        BY <2>3, <3>1 DEF SettleOnline, QrTabsTypeOK, TabRow
      <3>3. consumed' \in [Rounds -> {0, 1}]
        <4>1. consumed = NoCents
          BY <2>3 DEF Matches, UsesFollowTab
        <4> QED  BY <2>3, <4>1 DEF SettleOnline, Cents, NoCents, QrTabsTypeOK
      <3>4. settled' \in SUBSET Rounds
        BY <2>3 DEF SettleOnline, QrTabsTypeOK, Live
      <3> QED  BY <1>3, <2>1, <2>3, <3>2, <3>3, <3>4, RowsReleased
               DEF PaidEvent, SettleOnline, QrTabsTypeOK, Ages
    <2>4. ASSUME KeepForReview(p) PROVE QrTabsTypeOK'
      <3>1. tab' \in TabRow /\ age' \in Ages
        BY <2>4 DEF KeepForReview, QrTabsTypeOK, TabRow, Ages
      <3> QED  BY <1>3, <2>1, <2>4, <3>1 DEF PaidEvent, KeepForReview, QrTabsTypeOK
    <2> QED  BY <1>3, <2>2, <2>3, <2>4 DEF PaidEvent
  <1>4. ASSUME NEW p \in Pages, EndedEvent(p) PROVE QrTabsTypeOK'
    BY <1>4, UnboundTyped, RowsReleased DEF EndedEvent, QrTabsTypeOK, Ages
  <1> QED  BY <1>1, <1>2, <1>3, <1>4 DEF Provider

LEMMA TypeHolds == QrTabsSpec => []QrTabsTypeOK
  <1>1. QrTabsInit => QrTabsTypeOK
    BY QrTabsAssumption
       DEF QrTabsInit, QrTabsTypeOK, NoTab, TabRow, NoReward, RewardRow, NoCents,
           NoPayment, PageRow, Ages
  <1>2. TabInv /\ QrTabsTypeOK /\ [QrTabsNext]_vars => QrTabsTypeOK'
    <2> SUFFICES ASSUME UsesFollowTab, QrTabsTypeOK, [QrTabsNext]_vars
                 PROVE  QrTabsTypeOK'
      BY DEF TabInv
    <2>1. CASE PassTime \/ UNCHANGED vars
      BY <2>1 DEF PassTime, vars, QrTabsTypeOK, Ages
    <2>2. CASE Loyalty
      <3>1. reward' \in RewardRow
        BY <2>2, RowsReleased
           DEF Loyalty, ParkReward, ResolveReward, SettleReward, QrTabsTypeOK, RewardRow, NoReward
      <3> QED  BY <2>2, <3>1, OnlyReward DEF QrTabsTypeOK
    <2> QED  BY <2>1, <2>2, GuestsTyped, StaffTyped, CheckoutTyped, ProviderTyped
             DEF QrTabsNext
  <1> QED  BY <1>1, <1>2, TabInvHolds, PTL DEF QrTabsSpec

-----------------------------------------------------------------------------
\* The theorems

\* Every row is well typed: no discount is taken off a round twice, and no
\* pay request takes more than one reward.
THEOREM QrTabsTypeCorrect == QrTabsSpec => []QrTabsTypeOK
  BY TypeHolds

\* Every payment heard of settled the tab or waits for a person, never both,
\* for any number of pages and events.
THEOREM NoPaymentIsForgotten == QrTabsSpec => []MoneyIsAccounted
  BY TabInvHolds, PTL DEF TabInv

\* Money under review always shows on the tab, or came after it was settled.
THEOREM ReviewShows == QrTabsSpec => []ReviewIsFlagged
  BY TabInvHolds, PTL DEF TabInv

\* All the rounds of a tab are paid with it, and none before.
THEOREM RoundsArePaidTogether == QrTabsSpec => []RoundsFollowTab
  BY TabInvHolds, PTL DEF TabInv

\* A settled tab reserves no discount use and only a closed one consumes any.
THEOREM UsesAreDecided == QrTabsSpec => []UsesFollowTab
  BY TabInvHolds, PTL DEF TabInv

\* A payment closes a tab only for what its rounds cost by then.
THEOREM OnlineCloseTakesTheBill == QrTabsSpec => OnlineCloseIsExact
  <1>1. TabInv /\ [QrTabsNext]_vars => [OnlineCloseStep]_vars
    <2> SUFFICES ASSUME TabInv, [QrTabsNext]_vars, tab'.method = "online", tab.method # "online"
                 PROVE  OnlineCloseStep
      BY DEF OnlineCloseStep
    <2>1. PICK p \in Pages : Matches(p) /\ SettleOnline(p) /\ UNCHANGED <<round, reward>>
      BY OnlineByPayment DEF vars
    <2>2. /\ tab' = [tab EXCEPT !.status = "closed", !.method = "online", !.payment = "paid",
                                !.session = p, !.total = page[p].amount]
          /\ consumed' = Cents
      BY <2>1 DEF SettleOnline
    <2>3. tab'.total = page[p].amount /\ tab'.cut = tab.cut /\ tab'.tip = tab.tip
      BY <2>2 DEF TabInv, Shape
    <2>4. CurrentPayable # NoAmount /\ CurrentPayable = tab'.total
      BY <2>1, <2>3 DEF Matches, TabInv, Ready
    <2>5. /\ tab.cut = 0 \/ reward.state = "bound"
          /\ CutLines \cup (IF tab.cut > 0 THEN reward.line ELSE {}) \subseteq Live
          /\ CurrentPayable = Bill - Sum(Rounds, Cents) - tab.cut + tab.tip
      BY <2>4 DEF CurrentPayable
    <2>6. ~RoundsPending
      BY <2>1, <2>4, <2>3 DEF Matches, TabInv, Shape, Ready
    <2>7. tab'.total = Bill - Sum(Rounds, consumed') - tab'.cut + tab'.tip
      BY <2>2, <2>3, <2>4, <2>5
    <2>8. {r \in Rounds : consumed'[r] > 0} \subseteq Live
      BY <2>2, <2>5 DEF CutLines
    <2>9. tab'.cut > 0 => reward'.state = "bound" /\ reward'.line \subseteq Live
      BY <2>1, <2>3, <2>5
    <2> QED  BY <2>6, <2>7, <2>8, <2>9 DEF OnlineCloseStep
  <1> QED  BY <1>1, TabInvHolds, PTL DEF QrTabsSpec, OnlineCloseIsExact
=============================================================================
