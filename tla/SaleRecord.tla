----------------------------- MODULE SaleRecord -----------------------------
(***************************************************************************)
(* What the region promises of one sale, whoever rings it up and however   *)
(* its uploads travel: a payment is on a till, then perhaps held for a     *)
(* person, then on the recorded sale, and never goes back; one that is     *)
(* exposed may be lost from a till before that.  The bill is fixed by its  *)
(* first payment; the sale closes once, covered by what it records or as a *)
(* bill that comes to nothing, or is cancelled with no money; only         *)
(* recorded money is refunded.                                             *)
(***************************************************************************)
CONSTANTS
    Payments, Lines,
    Free,       \* the bills that come to nothing
    Covering    \* the sets of payments that cover any other bill

VARIABLES
    where,      \* where each payment is on record
    sale,       \* the state of the recorded sale
    bill,       \* its lines
    back,       \* the payments it records as refunded
    exposed     \* the payments a till may lose

record == <<where, sale, bill, back, exposed>>

Recorded == {p \in Payments : where[p] = "recorded"}

SaleInit ==
    /\ where = [p \in Payments |-> "nowhere"]
    /\ sale = "none" /\ bill = {} /\ back = {} /\ exposed = {}

\* The payments of S are on record at a place from now on.
Put(S, place) == where' = [p \in Payments |-> IF p \in S THEN place ELSE where[p]]

\* A guest pays at a till, which may have taken the tab back.
Take(p) ==
    /\ where[p] = "nowhere"
    /\ Put({p}, "till")
    /\ exposed' \in {exposed, exposed \cup {p}}
    /\ UNCHANGED <<sale, bill, back>>

\* A till takes the tab back with what it took before.
Expose(S) ==
    /\ \A p \in S : where[p] # "nowhere"
    /\ exposed' = exposed \cup S
    /\ UNCHANGED <<where, sale, bill, back>>

\* Such a till drops payments that are nowhere else.
Lose(S) ==
    /\ S \subseteq exposed /\ \A p \in S : where[p] = "till"
    /\ Put(S, "lost")
    /\ UNCHANGED <<sale, bill, back, exposed>>

\* An upload that cannot be applied is kept for a person.  One that was on its
\* way may bring back what its till lost.
Keep(S) ==
    /\ \A p \in S : where[p] \in {"till", "lost"}
    /\ Put(S, "held")
    /\ UNCHANGED <<sale, bill, back, exposed>>

\* An upload is applied, with the payments it brings.
Record(S) ==
    /\ \A p \in S : where[p] \in {"till", "lost", "held"}
    /\ Put(S, "recorded")
    /\ sale # "void" /\ sale' \in {"open", "closed", "void"}
    /\ sale = "closed" => sale' = "closed" /\ bill' = bill /\ S = {}
    /\ Recorded' \in Covering => sale' = "closed"
    /\ sale' = "closed" => Recorded' \in Covering \/ bill' \in Free
    /\ sale' = "void" \/ bill' \in Free => Recorded' = {}
    /\ bill' \in SUBSET Lines
    /\ Recorded # {} => bill' = bill
    /\ back' \in SUBSET Recorded' /\ back \subseteq back'
    /\ sale' # "closed" => back' = {}
    /\ UNCHANGED exposed

SaleNext ==
    \/ \E S \in SUBSET Payments : Expose(S) \/ Lose(S) \/ Keep(S) \/ Record(S)
    \/ \E p \in Payments : Take(p)

SaleSpec == SaleInit /\ [][SaleNext]_record

=============================================================================
