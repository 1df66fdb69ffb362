--------------------------- MODULE DepositLedger ---------------------------
(***************************************************************************)
(* What is promised of the money of a deposit, whatever the guest, the     *)
(* restaurant, the provider and the App do and in whatever order their     *)
(* calls arrive.  A deposit is paid once, in whole.  From then on every    *)
(* cent of it is kept by the restaurant, owed to the guest or back with    *)
(* the guest: what is owed comes back or, refused, is kept again, and what *)
(* is back stays back.  A payment nobody can use is owed as it arrives.  A *)
(* deposit is called refunded once all of it is back, and for good.        *)
(***************************************************************************)
EXTENDS Integers

CONSTANTS
    Bookings,
    Amount      \* what a deposit is

VARIABLES
    kept,       \* kept[b]: what the restaurant may keep of the deposit
    owed,       \* owed[b]: what is promised to the guest and not yet back
    back,       \* back[b]: what the provider has given back
    said        \* the deposits that are called refunded

ledger == <<kept, owed, back, said>>

NotPaid(b) == kept[b] = 0 /\ owed[b] = 0 /\ back[b] = 0

LedgerInit ==
    /\ kept = [b \in Bookings |-> 0]
    /\ owed = [b \in Bookings |-> 0]
    /\ back = [b \in Bookings |-> 0]
    /\ said = {}

\* A payment arrives for a booking that is open, or can be opened again.
Earn(b) ==
    /\ NotPaid(b)
    /\ kept' = [kept EXCEPT ![b] = Amount]
    /\ UNCHANGED <<owed, back, said>>

\* A payment arrives too late for its booking.
OweAll(b) ==
    /\ NotPaid(b)
    /\ owed' = [owed EXCEPT ![b] = Amount]
    /\ UNCHANGED <<kept, back, said>>

\* A cancellation or an operator promises some of what is kept.
Promise(b, n) ==
    /\ n <= kept[b]
    /\ kept' = [kept EXCEPT ![b] = @ - n]
    /\ owed' = [owed EXCEPT ![b] = @ + n]
    /\ UNCHANGED <<back, said>>

\* The provider refuses a refund.
Refuse(b, n) ==
    /\ n <= owed[b]
    /\ owed' = [owed EXCEPT ![b] = @ - n]
    /\ kept' = [kept EXCEPT ![b] = @ + n]
    /\ UNCHANGED <<back, said>>

GiveBack(b, n) ==
    /\ n <= owed[b]
    /\ owed' = [owed EXCEPT ![b] = @ - n]
    /\ back' = [back EXCEPT ![b] = @ + n]
    /\ UNCHANGED <<kept, said>>

Say(b) ==
    /\ back[b] = Amount
    /\ said' = said \union {b}
    /\ UNCHANGED <<kept, owed, back>>

LedgerNext ==
    \E b \in Bookings :
        \/ Earn(b) \/ OweAll(b) \/ Say(b)
        \/ \E n \in 1 .. Amount : Promise(b, n) \/ Refuse(b, n) \/ GiveBack(b, n)

LedgerSpec == LedgerInit /\ [][LedgerNext]_ledger

=============================================================================
