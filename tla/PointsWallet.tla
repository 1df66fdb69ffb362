---------------------------- MODULE PointsWallet ----------------------------
(***************************************************************************)
(* What is promised of a member's points, whatever is retried, lost or     *)
(* decided twice.  A reward is held out of what can be spent and is not    *)
(* held already; it ends once, spent or released, and only a spent one     *)
(* comes back.  A sale earns once and from then on only gives points up.   *)
(* The points change by exactly what the orders and the adjustments change,*)
(* and an adjustment counts once.                                          *)
(***************************************************************************)
EXTENDS Integers

CONSTANTS
    Orders, Members,
    Owner,      \* Owner[o]: the member whose order o is
    Cost,       \* Cost[o]: what the reward on o costs
    Award,      \* Award[o]: what o may earn
    Keys,       \* of adjustments
    Deltas

VARIABLES
    worth,      \* worth[m]: the member's points
    held,       \* held[m]: those that rewards are waiting for
    reward,     \* reward[o]: where the reward on o stands
    earned,     \* the orders that have earned
    kept,       \* kept[o]: what they have earned and not given up
    adjusted    \* the adjustments that count, <<member, key>>

wallet == <<worth, held, reward, earned, kept, adjusted>>

Rewards == {"none", "held", "spent", "released", "restored"}

\* Where a reward may go in one transaction.
Onward(r) == {r} \union
    CASE r = "held"  -> {"spent", "released", "restored"}
      [] r = "spent" -> {"restored"}
      [] OTHER       -> {}

HoldOf(o, r)  == IF r = "held" THEN Cost[o] ELSE 0
SpentOn(o, r) == IF r = "spent" THEN Cost[o] ELSE 0

WalletInit ==
    /\ worth = [m \in Members |-> 0]
    /\ held = [m \in Members |-> 0]
    /\ reward = [o \in Orders |-> "none"]
    /\ earned = {}
    /\ kept = [o \in Orders |-> 0]
    /\ adjusted = {}

Hold(o) ==
    /\ reward[o] = "none"
    /\ held[Owner[o]] + Cost[o] <= worth[Owner[o]]
    /\ reward' = [reward EXCEPT ![o] = "held"]
    /\ held' = [held EXCEPT ![Owner[o]] = @ + Cost[o]]
    /\ UNCHANGED <<worth, earned, kept, adjusted>>

\* The sale of o is left with k points.
Earns(o, k) ==
    \/ k = kept[o] /\ earned' = earned
    \/ o \notin earned /\ earned' = earned \union {o}
    \/ o \in earned /\ k <= kept[o] /\ earned' = earned

\* One order's transaction: its reward and its sale go forward, and the
\* owner's points go with them.
Settle(o, r, k) ==
    /\ r \in Onward(reward[o])
    /\ Earns(o, k)
    /\ reward' = [reward EXCEPT ![o] = r]
    /\ kept' = [kept EXCEPT ![o] = k]
    /\ held' = [held EXCEPT ![Owner[o]] = @ - HoldOf(o, reward[o]) + HoldOf(o, r)]
    /\ worth' = [worth EXCEPT ![Owner[o]] =
                    @ + (k - kept[o]) - (SpentOn(o, r) - SpentOn(o, reward[o]))]
    /\ UNCHANGED adjusted

Adjust(m, k, d) ==
    /\ <<m, k>> \notin adjusted
    /\ adjusted' = adjusted \union {<<m, k>>}
    /\ worth' = [worth EXCEPT ![m] = @ + d]
    /\ UNCHANGED <<held, reward, earned, kept>>

WalletNext ==
    \/ \E o \in Orders :
          Hold(o) \/ \E r \in Rewards, k \in 0 .. Award[o] : Settle(o, r, k)
    \/ \E m \in Members, k \in Keys, d \in Deltas : Adjust(m, k, d)

WalletSpec == WalletInit /\ [][WalletNext]_wallet

=============================================================================
