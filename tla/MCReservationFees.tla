-------------------------- MODULE MCReservationFees --------------------------
(* Small instances of ReservationFees for TLC.                             *)
EXTENDS ReservationFees, TLC

CONSTANTS b1, p1, p2

\* Nothing names or orders pages.
MCSymmetry == Permutations({p1, p2})
=============================================================================
