-------------------------- MODULE MCOrderDiscounts --------------------------
(* A small instance of OrderDiscounts for TLC.                             *)
EXTENDS OrderDiscounts, TLC

CONSTANTS o1, o2

\* Two orders compete for one place and one use; one is refunded in two
\* steps, the other has nothing to pay.
MCTotal == [o \in Orders |-> IF o = o1 THEN 2 ELSE 0]
=============================================================================
