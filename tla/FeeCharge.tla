------------------------------ MODULE FeeCharge ------------------------------
(***************************************************************************)
(* What is promised to a guest whose booking has a card on file, however   *)
(* often a fee is asked for and claimed, and in whatever order the card    *)
(* and the link are answered: one fee of the booking is taken at most, by  *)
(* card only while the booking is due for it, money that was taken stays   *)
(* taken and is told to the booking afterwards, and a booking whose card   *)
(* was charged, or that was told of a charge, is never brought back.       *)
(***************************************************************************)
CONSTANTS
    Bookings,
    Fees,       \* tuples that start with the booking and what it is due for
    Statuses

VARIABLES
    due,        \* the status of each booking
    charged,    \* the fees taken from a card
    paid,       \* the fees paid through a link
    told        \* the bookings that say a fee was charged

charge == <<due, charged, paid, told>>

\* What was taken for a booking.
TakenFor(b) == {f \in charged \cup paid : f[1] = b}

ChargeInit ==
    /\ due = [b \in Bookings |-> "kept"]
    /\ charged = {} /\ paid = {} /\ told = {}

\* A no-show or a cancellation.
Leave(b, status) ==
    /\ due[b] = "kept" /\ status # "kept"
    /\ due' = [due EXCEPT ![b] = status]
    /\ UNCHANGED <<charged, paid, told>>

\* Staff take a status back.
Return(b) ==
    /\ b \notin told
    /\ \A f \in charged : f[1] # b
    /\ due' = [due EXCEPT ![b] = "kept"]
    /\ UNCHANGED <<charged, paid, told>>

Charge(f) ==
    /\ due[f[1]] = f[2]
    /\ TakenFor(f[1]) = {}
    /\ charged' = charged \cup {f}
    /\ UNCHANGED <<due, paid, told>>

Pay(f) ==
    /\ TakenFor(f[1]) = {}
    /\ paid' = paid \cup {f}
    /\ UNCHANGED <<due, charged, told>>

Tell(b) ==
    /\ TakenFor(b) # {}
    /\ told' = told \cup {b}
    /\ UNCHANGED <<due, charged, paid>>

ChargeNext ==
    \/ \E b \in Bookings :
          Return(b) \/ Tell(b) \/ \E status \in Statuses : Leave(b, status)
    \/ \E f \in Fees : Charge(f) \/ Pay(f)

ChargeSpec == ChargeInit /\ [][ChargeNext]_charge

=============================================================================
