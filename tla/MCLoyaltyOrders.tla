-------------------------- MODULE MCLoyaltyOrders --------------------------
(* Small instances of LoyaltyOrders for TLC.                               *)
EXTENDS LoyaltyOrders

CONSTANTS o1, o2, m1, k1, d1, d2

MCOwner == [o \in Orders |-> m1]

\* The safety instance: an order of two cents, so that a refund can be
\* partial; its reward costs two points and it earns three.
MCTotal == [o \in Orders |-> 2]
MCCost == [o \in Orders |-> 2]
MCAward == [o \in Orders |-> 3]
MCAdjustDeltas == {2}

\* One of three points stays after half of the money came back.
MCPointsAfter == [o \in Orders |-> [r \in 0 .. Total[o] |->
                    IF r = 0 THEN Award[o] ELSE IF r < Total[o] THEN 1 ELSE 0]]

\* The liveness instance: an order of one cent that earns nothing, with a
\* reward of one point.
LiveTotal == [o \in Orders |-> 1]
LiveCost == [o \in Orders |-> 1]
LiveAward == [o \in Orders |-> 0]
LiveAdjustDeltas == {1}
=============================================================================
