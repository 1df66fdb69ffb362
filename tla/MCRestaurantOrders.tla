------------------------- MODULE MCRestaurantOrders -------------------------
(* A small instance of RestaurantOrders for TLC.                           *)
EXTENDS RestaurantOrders

CONSTANT o1

\* An order of two cents.
MCTotal == [o \in Orders |-> 2]
=============================================================================
