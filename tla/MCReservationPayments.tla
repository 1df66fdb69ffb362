----------------------- MODULE MCReservationPayments -----------------------
(* Small instances of ReservationPayments for TLC.                         *)
EXTENDS ReservationPayments, TLC

CONSTANTS b1, b2

\* Nothing in the module names or orders bookings.
MCSymmetry == Permutations({b1, b2})
=============================================================================
