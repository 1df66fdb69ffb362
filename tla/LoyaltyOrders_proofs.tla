------------------------ MODULE LoyaltyOrders_proofs ------------------------
(***************************************************************************)
(* What holds of points and rewards for any orders, members, costs, awards *)
(* and adjustments.                                                        *)
(***************************************************************************)
EXTENDS LoyaltyOrders, RestaurantOrders_proofs, PointSums_proofs

-----------------------------------------------------------------------------
\* Sums of entries

\* The entries of a ledger L for member m, and those of order o.
PostsIn(L, kinds, m) == {e \in L : e.kind \in kinds /\ e.member = m}
OfIn(L, o, kind) == {e \in L : e.src = o /\ e.kind = kind}

Ledgers == {L \in SUBSET LedgerEntry : IsFiniteSet(L)}

LEMMA EntryPoints ==
    ASSUME NEW L \in Ledgers
    PROVE  /\ PointsIn(L) \in Nat
           /\ \A e \in LedgerEntry \ L :
                /\ L \union {e} \in Ledgers
                /\ PointsIn(L \union {e}) = PointsIn(L) + e.points
<1>1. IsFiniteSet(L) /\ L \subseteq LedgerEntry
  BY DEF Ledgers
<1>2. PointsIn(L) \in Nat
  <2> DEFINE f == [e \in L |-> e.points]
  <2>1. f \in [L -> Nat] /\ L \in SUBSET L
    BY <1>1 DEF LedgerEntry
  <2> HIDE DEF f
  <2>2. Sum(L, f) \in Nat
    BY <1>1, <2>1, SumType
  <2> QED
    BY <2>2 DEF PointsIn, f
<1>3. ASSUME NEW e \in LedgerEntry \ L
      PROVE  /\ L \union {e} \in Ledgers
             /\ PointsIn(L \union {e}) = PointsIn(L) + e.points
  <2> DEFINE D == L \union {e}
             f == [x \in L |-> x.points]
             g == [x \in D |-> x.points]
  <2>1. IsFiniteSet(D)
    BY <1>1, FS_AddElement
  <2>2. g \in [D -> Nat] /\ L \in SUBSET D /\ e \in D /\ e \notin L
    <3>1. \A x \in D : x \in LedgerEntry
      BY <1>1
    <3>2. \A x \in LedgerEntry : x.points \in Nat
      BY DEF LedgerEntry
    <3>3. L \in SUBSET D /\ e \in D
      OBVIOUS
    <3> HIDE DEF D
    <3>4. g \in [D -> Nat]
      BY <3>1, <3>2
    <3> QED
      BY <3>3, <3>4
  <2>3. \A x \in L : g[x] = f[x]
    OBVIOUS
  <2>4. g[e] = e.points
    OBVIOUS
  <2>5. PointsIn(L) = Sum(L, f) /\ PointsIn(L \union {e}) = Sum(D, g)
    BY DEF PointsIn
  <2>6. D = L \union {e} /\ D \in Ledgers
    BY <1>1, <2>1 DEF Ledgers
  <2> HIDE DEF D, f, g
  <2>7. Sum(L, g) = Sum(L, f)
    BY <2>3, SumSame
  <2>8. Sum(L \union {e}, g) = Sum(L, g) + g[e]
    BY <2>1, <2>2, SumAdd
  <2> QED
    BY <2>4, <2>5, <2>6, <2>7, <2>8
<1> QED
  BY <1>2, <1>3

LEMMA NoPoints == PointsIn({}) = 0
  BY SumEmpty DEF PointsIn

\* Parts of a ledger are ledgers.
LEMMA LedgerParts ==
    ASSUME NEW L \in Ledgers
    PROVE  /\ \A kinds, m : PostsIn(L, kinds, m) \in Ledgers
           /\ \A o, kind : OfIn(L, o, kind) \in Ledgers
<1>1. ASSUME NEW T \in SUBSET L PROVE T \in Ledgers
  BY <1>1, FS_Subset DEF Ledgers
<1> QED
  BY <1>1 DEF PostsIn, OfIn

\* What a new entry does to the sums over the parts of a ledger.
LEMMA EntryAdds ==
    ASSUME NEW L \in Ledgers, NEW e \in LedgerEntry \ L
    PROVE  /\ L \union {e} \in Ledgers
           /\ \A kinds, m :
                PointsIn(PostsIn(L \union {e}, kinds, m)) =
                  PointsIn(PostsIn(L, kinds, m))
                    + (IF e.kind \in kinds /\ e.member = m THEN e.points ELSE 0)
           /\ \A o, kind :
                PointsIn(OfIn(L \union {e}, o, kind)) =
                  PointsIn(OfIn(L, o, kind))
                    + (IF e.src = o /\ e.kind = kind THEN e.points ELSE 0)
<1>1. ASSUME NEW kinds, NEW m
      PROVE  PointsIn(PostsIn(L \union {e}, kinds, m)) =
               PointsIn(PostsIn(L, kinds, m))
                 + (IF e.kind \in kinds /\ e.member = m THEN e.points ELSE 0)
  <2>1. PostsIn(L, kinds, m) \in Ledgers /\ e \notin PostsIn(L, kinds, m)
    <3>1. PostsIn(L, kinds, m) \in Ledgers
      BY LedgerParts
    <3>2. e \notin PostsIn(L, kinds, m)
      BY DEF PostsIn
    <3> QED
      BY <3>1, <3>2
  <2>2. PostsIn(L \union {e}, kinds, m) =
          IF e.kind \in kinds /\ e.member = m THEN PostsIn(L, kinds, m) \union {e}
          ELSE PostsIn(L, kinds, m)
    BY DEF PostsIn
  <2>3. PointsIn(PostsIn(L, kinds, m)) \in Nat
        /\ PointsIn(PostsIn(L, kinds, m) \union {e}) = PointsIn(PostsIn(L, kinds, m)) + e.points
    BY <2>1, EntryPoints
  <2>4. CASE e.kind \in kinds /\ e.member = m
    BY <2>2, <2>3, <2>4
  <2>5. CASE ~(e.kind \in kinds /\ e.member = m)
    <3>1. PostsIn(L \union {e}, kinds, m) = PostsIn(L, kinds, m)
      BY <2>2, <2>5
    <3> QED
      BY <2>3, <2>5, <3>1
  <2> QED
    BY <2>4, <2>5
<1>2. ASSUME NEW o, NEW kind
      PROVE  PointsIn(OfIn(L \union {e}, o, kind)) =
               PointsIn(OfIn(L, o, kind))
                 + (IF e.src = o /\ e.kind = kind THEN e.points ELSE 0)
  <2>1. OfIn(L, o, kind) \in Ledgers /\ e \notin OfIn(L, o, kind)
    <3>1. OfIn(L, o, kind) \in Ledgers
      BY LedgerParts
    <3>2. e \notin OfIn(L, o, kind)
      BY DEF OfIn
    <3> QED
      BY <3>1, <3>2
  <2>2. OfIn(L \union {e}, o, kind) =
          IF e.src = o /\ e.kind = kind THEN OfIn(L, o, kind) \union {e}
          ELSE OfIn(L, o, kind)
    BY DEF OfIn
  <2>3. PointsIn(OfIn(L, o, kind)) \in Nat
        /\ PointsIn(OfIn(L, o, kind) \union {e}) = PointsIn(OfIn(L, o, kind)) + e.points
    BY <2>1, EntryPoints
  <2>4. CASE e.src = o /\ e.kind = kind
    BY <2>2, <2>3, <2>4
  <2>5. CASE ~(e.src = o /\ e.kind = kind)
    <3>1. OfIn(L \union {e}, o, kind) = OfIn(L, o, kind)
      BY <2>2, <2>5
    <3> QED
      BY <2>3, <2>5, <3>1
  <2> QED
    BY <2>4, <2>5
<1> QED
  BY <1>1, <1>2, EntryPoints

-----------------------------------------------------------------------------
\* One order's account

Account == [red : RedStates, pur : PurchaseRow, points : Int, reserved : Int,
            ledger : Ledgers]

Spent == {"consumed", "restored"}

\* The entries of order o in the ledger L belong to a state its reward r and
\* its purchase p are in.
EntriesFit(o, r, p, L) ==
    \A e \in L : e.src = o =>
      /\ e.member = Owner[o]
      /\ e.kind = "redeem" => r \in Spent
      /\ e.kind = "restore" => r = "restored"
      /\ e.kind = "earn" => p.state = "completed"
      /\ e.kind = "reverse" =>
           /\ p.state = "completed"
           /\ e.nth \in 0 .. Total[o]
           /\ p.awarded - PointsAfter[o][e.nth] <= p.reversed

\* And they sum to what those states cost and earn.
RewardSums(o, r, L) ==
    /\ PointsIn(OfIn(L, o, "redeem")) = (IF r \in Spent THEN Cost[o] ELSE 0)
    /\ PointsIn(OfIn(L, o, "restore")) = (IF r = "restored" THEN Cost[o] ELSE 0)

SaleSums(o, p, L) ==
    /\ PointsIn(OfIn(L, o, "earn")) = (IF p.state = "completed" THEN Award[o] ELSE 0)
    /\ PointsIn(OfIn(L, o, "reverse")) = p.reversed
    /\ p.awarded = (IF p.state = "completed" THEN Award[o] ELSE 0)
    /\ p.reversed <= p.awarded

OrderFits(o, r, p, L) ==
    EntriesFit(o, r, p, L) /\ RewardSums(o, r, L) /\ SaleSums(o, p, L)

\* The owner's balance is what the ledger and the holds make it.
PointsFit(o, t) ==
    t.points = PointsIn(PostsIn(t.ledger, Credits, Owner[o]))
                 - PointsIn(PostsIn(t.ledger, Debits, Owner[o]))

OtherHolds(o) == Holds(Owner[o]) \ {o}

HoldFits(o, t) ==
    t.reserved = Sum(OtherHolds(o), Cost)
                   + (IF t.red \in HoldingStates THEN Cost[o] ELSE 0)

OrderKinds == {"earn", "restore", "reverse", "redeem"}

\* What the transaction adds to the ledger is about its own order.
Grown(o, t) ==
    /\ ledger \subseteq t.ledger
    /\ \A e \in t.ledger \ ledger :
          e.src = o /\ e.member = Owner[o] /\ e.kind \in OrderKinds

Fits(o, t) ==
    /\ t \in Account
    /\ OrderFits(o, t.red, t.pur, t.ledger)
    /\ PointsFit(o, t)
    /\ HoldFits(o, t)
    /\ Grown(o, t)

LEMMA Sums ==
    ASSUME NEW t \in Account, NEW o
    PROVE  \A k \in OrderKinds : PointsIn(OfIn(t.ledger, o, k)) \in Nat
  BY LedgerParts, EntryPoints DEF Account

LEMMA OwnConstants ==
    ASSUME NEW o \in Orders
    PROVE  /\ Owner[o] \in Members /\ Cost[o] \in Nat \ {0} /\ Award[o] \in Nat
           /\ Total[o] \in Nat
           /\ \A n \in 0 .. Total[o] : PointsAfter[o][n] \in 0 .. Award[o]
           /\ Total[o] > 0 => PointsAfter[o][Total[o]] = 0
  BY LoyaltyAssumption, OrdersAssumption

LEMMA EntryIs ==
    ASSUME NEW o \in Orders, NEW kind \in OrderKinds, NEW n \in Nat, NEW c \in Nat
    PROVE  /\ Entry(o, kind, n, c) \in LedgerEntry
           /\ Entry(o, kind, n, c).src = o
           /\ Entry(o, kind, n, c).kind = kind
           /\ Entry(o, kind, n, c).nth = n
           /\ Entry(o, kind, n, c).member = Owner[o]
           /\ Entry(o, kind, n, c).points = c
  BY OwnConstants DEF Entry, LedgerEntry, OrderKinds, Credits, Debits

\* An entry of the order with the same kind and number was posted before.
LEMMA PostedIs ==
    ASSUME NEW t \in Account, NEW o \in Orders, NEW kind \in OrderKinds,
           NEW n \in Nat, NEW c \in Nat, Posted(t, Entry(o, kind, n, c))
    PROVE  \E f \in t.ledger : f.src = o /\ f.kind = kind /\ f.nth = n
<1>1. PICK f \in t.ledger : SameKey(Entry(o, kind, n, c), f)
  BY DEF Posted
<1> QED
  BY <1>1, EntryIs DEF SameKey, OrderKinds

Rebooked(t, L, n) == [t EXCEPT !.ledger = L, !.points = n]

LEMMA EditedAccount ==
    ASSUME NEW t \in Account, NEW L \in Ledgers, NEW n \in Int
    PROVE  /\ Rebooked(t, L, n) \in Account
           /\ Rebooked(t, L, n).red = t.red
           /\ Rebooked(t, L, n).pur = t.pur
           /\ Rebooked(t, L, n).reserved = t.reserved
           /\ Rebooked(t, L, n).ledger = L
           /\ Rebooked(t, L, n).points = n
  BY DEF Account, Rebooked

\* The account u is t with the entry e of its order posted.
Books(o, t, u, e) ==
    /\ u \in Account
    /\ u.red = t.red /\ u.pur = t.pur /\ u.reserved = t.reserved
    /\ u.ledger = t.ledger \union {e}
    /\ PointsFit(o, u)
    /\ Grown(o, u)
    /\ e.src = o /\ e.member = Owner[o]
    /\ PointsIn(OfIn(u.ledger, o, e.kind))
         = PointsIn(OfIn(t.ledger, o, e.kind)) + e.points
    /\ \A k \in OrderKinds \ {e.kind} :
         PointsIn(OfIn(u.ledger, o, k)) = PointsIn(OfIn(t.ledger, o, k))

\* Posting an entry that is not there yet.
LEMMA NewEntry ==
    ASSUME NEW t \in Account, NEW o \in Orders, NEW kind \in OrderKinds,
           NEW n \in Nat, NEW c \in Nat, ~Posted(t, Entry(o, kind, n, c)),
           PointsFit(o, t), Grown(o, t)
    PROVE  Books(o, t, PostInTx(t, Entry(o, kind, n, c)), Entry(o, kind, n, c))
<1> DEFINE e == Entry(o, kind, n, c)
           u == PostInTx(t, e)
           L == t.ledger
<1>1. /\ e \in LedgerEntry /\ e.src = o /\ e.kind = kind /\ e.nth = n
      /\ e.member = Owner[o] /\ e.points = c
  BY EntryIs
<1>2. L \in Ledgers /\ t.points \in Int
  BY DEF Account
<1>3. e \notin L
  BY <1>1 DEF Posted, SameKey
<1>4. u = Rebooked(t, L \union {e}, t.points + Delta(e))
  BY DEF PostInTx, Rebooked
<1> HIDE DEF e, u, L
<1>5. /\ L \union {e} \in Ledgers
      /\ \A kinds, m :
           PointsIn(PostsIn(L \union {e}, kinds, m)) =
             PointsIn(PostsIn(L, kinds, m))
               + (IF e.kind \in kinds /\ e.member = m THEN e.points ELSE 0)
      /\ \A x, k :
           PointsIn(OfIn(L \union {e}, x, k)) =
             PointsIn(OfIn(L, x, k))
               + (IF e.src = x /\ e.kind = k THEN e.points ELSE 0)
  BY <1>1, <1>2, <1>3, EntryAdds
<1>6. Delta(e) \in Int /\ Delta(e) = IF kind \in Credits THEN c ELSE -c
  BY <1>1 DEF Delta
<1>7. /\ u \in Account /\ u.red = t.red /\ u.pur = t.pur
      /\ u.reserved = t.reserved /\ u.ledger = L \union {e}
      /\ u.points = t.points + Delta(e)
  <2>1. t.points + Delta(e) \in Int
    BY <1>2, <1>6
  <2>2. L \union {e} \in Ledgers
    BY <1>5
  <2> DEFINE K == L \union {e}
             n2 == t.points + Delta(e)
  <2>3. u = Rebooked(t, K, n2) /\ K \in Ledgers /\ n2 \in Int
    BY <1>4, <2>1, <2>2
  <2>4. K = L \union {e} /\ n2 = t.points + Delta(e)
    OBVIOUS
  <2> HIDE DEF K, n2
  <2>5. /\ Rebooked(t, K, n2) \in Account
        /\ Rebooked(t, K, n2).red = t.red
        /\ Rebooked(t, K, n2).pur = t.pur
        /\ Rebooked(t, K, n2).reserved = t.reserved
        /\ Rebooked(t, K, n2).ledger = K
        /\ Rebooked(t, K, n2).points = n2
    BY <2>3, EditedAccount
  <2> QED
    BY <2>3, <2>4, <2>5
<1>8. PointsFit(o, u)
  <2> DEFINE in == PointsIn(PostsIn(L, Credits, Owner[o]))
             out == PointsIn(PostsIn(L, Debits, Owner[o]))
  <2>1. /\ PointsIn(PostsIn(u.ledger, Credits, Owner[o]))
             = in + (IF kind \in Credits THEN c ELSE 0)
        /\ PointsIn(PostsIn(u.ledger, Debits, Owner[o]))
             = out + (IF kind \in Debits THEN c ELSE 0)
    <3>1. \A kinds : PointsIn(PostsIn(L \union {e}, kinds, Owner[o])) =
                       PointsIn(PostsIn(L, kinds, Owner[o]))
                         + (IF kind \in kinds THEN c ELSE 0)
      BY <1>1, <1>5, Zenon
    <3> QED
      BY <1>7, <3>1, Zenon
  <2>2. in \in Nat /\ out \in Nat
    BY <1>2, LedgerParts, EntryPoints
  <2>3. t.points = in - out
    BY DEF PointsFit, L
  <2>4. kind \in Credits <=> kind \notin Debits
    BY DEF OrderKinds, Credits, Debits
  <2> HIDE DEF in, out
  <2>5. u.points = t.points + IF kind \in Credits THEN c ELSE -c
    BY <1>6, <1>7
  <2>6. u.points = PointsIn(PostsIn(u.ledger, Credits, Owner[o]))
                     - PointsIn(PostsIn(u.ledger, Debits, Owner[o]))
    BY <2>1, <2>2, <2>3, <2>4, <2>5
  <2> QED
    BY <2>6 DEF PointsFit
<1>9. Grown(o, u)
  BY <1>1, <1>7 DEF Grown, L
<1>10. /\ PointsIn(OfIn(u.ledger, o, e.kind))
            = PointsIn(OfIn(t.ledger, o, e.kind)) + e.points
       /\ \A k \in OrderKinds \ {e.kind} :
            PointsIn(OfIn(u.ledger, o, k)) = PointsIn(OfIn(t.ledger, o, k))
  <2>1. \A k : PointsIn(OfIn(L, o, k)) \in Nat
    BY <1>2, LedgerParts, EntryPoints
  <2>2. u.ledger = L \union {e} /\ e.src = o
    BY <1>1, <1>7
  <2>3. ASSUME NEW k, e.kind # k
        PROVE  PointsIn(OfIn(u.ledger, o, k)) = PointsIn(OfIn(L, o, k))
    <3>1. PointsIn(OfIn(L \union {e}, o, k)) = PointsIn(OfIn(L, o, k)) + 0
      BY <1>5, <2>3, Zenon
    <3> QED
      BY <2>1, <2>2, <3>1
  <2>4. PointsIn(OfIn(u.ledger, o, e.kind)) = PointsIn(OfIn(L, o, e.kind)) + e.points
    BY <1>5, <2>2, Zenon
  <2> QED
    BY <2>3, <2>4, Zenon DEF L
<1>11. Books(o, t, u, e)
  BY <1>1, <1>7, <1>8, <1>9, <1>10 DEF Books, L
<1> QED
  BY <1>11 DEF e, u

-----------------------------------------------------------------------------
\* The reward

USE DEF HoldingStates, Spent

\* A reward whose state changes, with its hold.
Rewarding(t, r, n) == [t EXCEPT !.red = r, !.reserved = n]

LEMMA Rewarded ==
    ASSUME NEW t \in Account, NEW r \in RedStates, NEW n \in Int
    PROVE  /\ Rewarding(t, r, n) \in Account
           /\ Rewarding(t, r, n).red = r
           /\ Rewarding(t, r, n).reserved = n
           /\ Rewarding(t, r, n).pur = t.pur
           /\ Rewarding(t, r, n).points = t.points
           /\ Rewarding(t, r, n).ledger = t.ledger
  BY DEF Account, Rewarding

\* The balance of the others does not depend on the order's own reward.
LEMMA OthersHold ==
    ASSUME LoyaltyTypeOK, NEW o \in Orders
    PROVE  Sum(OtherHolds(o), Cost) \in Nat
<1>1. OtherHolds(o) \in SUBSET Orders /\ IsFiniteSet(Orders) /\ Cost \in [Orders -> Nat]
  BY LoyaltyAssumption, OrdersAssumption DEF OtherHolds, Holds
<1> QED
  BY <1>1, SumType

LEMMA ConsumeFits ==
    ASSUME LoyaltyTypeOK, NEW o \in Orders, NEW t, Fits(o, t)
    PROVE  /\ Fits(o, ConsumeInTx(o, t))
           /\ ConsumeInTx(o, t).pur = t.pur
           /\ ConsumeInTx(o, t).red =
                IF t.red \in HoldingStates THEN "consumed" ELSE t.red
<1>1. CASE t.red \notin HoldingStates
  BY <1>1 DEF ConsumeInTx
<1>2. CASE t.red \in HoldingStates
  <2> DEFINE n == t.reserved - Cost[o]
             v == Rewarding(t, "consumed", n)
             e == Entry(o, "redeem", 0, Cost[o])
             u == PostInTx(v, e)
  <2>0. /\ t \in Account /\ OrderFits(o, t.red, t.pur, t.ledger) /\ PointsFit(o, t)
        /\ HoldFits(o, t) /\ Grown(o, t)
    BY DEF Fits
  <2>1. /\ Cost[o] \in Nat /\ Sum(OtherHolds(o), Cost) \in Nat /\ t.reserved \in Int
        /\ n \in Int /\ n = t.reserved - Cost[o]
        /\ "redeem" \in OrderKinds /\ 0 \in Nat /\ "consumed" \in RedStates
    BY <2>0, OwnConstants, OthersHold DEF Account, OrderKinds, RedStates
  <2>2. ConsumeInTx(o, t) = u
    BY <1>2 DEF ConsumeInTx, Rewarding
  <2> HIDE DEF n
  <2>3. /\ v \in Account /\ v.red = "consumed" /\ v.pur = t.pur
        /\ v.reserved = n /\ v.points = t.points /\ v.ledger = t.ledger
    BY <2>0, <2>1, Rewarded
  <2> HIDE DEF v
  <2>4. PointsFit(o, v) /\ Grown(o, v)
    BY <2>0, <2>3 DEF PointsFit, Grown
  <2>5. ~Posted(v, e)
    BY <1>2, <2>0, <2>1, <2>3, PostedIs DEF OrderFits, EntriesFit
  <2>6. Books(o, v, u, e)
    BY <2>1, <2>3, <2>4, <2>5, NewEntry
  <2>7. e.kind = "redeem" /\ e.points = Cost[o]
    BY DEF Entry
  <2> HIDE DEF u, e
  <2>8. EntriesFit(o, u.red, u.pur, u.ledger)
    BY <1>2, <2>0, <2>3, <2>6, <2>7 DEF OrderFits, EntriesFit, Books
  <2>9. RewardSums(o, u.red, u.ledger) /\ SaleSums(o, u.pur, u.ledger)
    <3>1. /\ PointsIn(OfIn(u.ledger, o, "redeem"))
               = PointsIn(OfIn(t.ledger, o, "redeem")) + Cost[o]
          /\ PointsIn(OfIn(u.ledger, o, "restore")) = PointsIn(OfIn(t.ledger, o, "restore"))
          /\ PointsIn(OfIn(u.ledger, o, "earn")) = PointsIn(OfIn(t.ledger, o, "earn"))
          /\ PointsIn(OfIn(u.ledger, o, "reverse")) = PointsIn(OfIn(t.ledger, o, "reverse"))
      BY <2>3, <2>6, <2>7 DEF Books, OrderKinds
    <3> QED
      BY <1>2, <2>0, <2>1, <2>3, <2>6, <3>1
         DEF OrderFits, RewardSums, SaleSums, Books
  <2>10. HoldFits(o, u)
    BY <1>2, <2>0, <2>1, <2>3, <2>6 DEF HoldFits, Books
  <2> QED
    BY <1>2, <2>2, <2>3, <2>6, <2>8, <2>9, <2>10 DEF Fits, OrderFits, Books
<1> QED
  BY <1>1, <1>2

\* A reward that is held, kept for an operator or given up costs nothing yet.
LEMMA HeldFits ==
    ASSUME LoyaltyTypeOK, NEW o \in Orders, NEW t, Fits(o, t), t.red \in HoldingStates,
           NEW v \in Account, v.pur = t.pur, v.points = t.points, v.ledger = t.ledger,
           \/ v.red \in HoldingStates /\ v.reserved = t.reserved
           \/ v.red = "released" /\ v.reserved = t.reserved - Cost[o]
    PROVE  Fits(o, v)
<1>0. /\ t \in Account /\ OrderFits(o, t.red, t.pur, t.ledger) /\ PointsFit(o, t)
      /\ HoldFits(o, t) /\ Grown(o, t)
  BY DEF Fits
<1>1. Cost[o] \in Nat /\ Sum(OtherHolds(o), Cost) \in Nat /\ t.reserved \in Int
  BY <1>0, OwnConstants, OthersHold DEF Account
<1>2. OrderFits(o, v.red, v.pur, v.ledger)
  BY <1>0 DEF OrderFits, EntriesFit, RewardSums, SaleSums
<1>3. PointsFit(o, v) /\ Grown(o, v)
  BY <1>0 DEF PointsFit, Grown
<1>4. HoldFits(o, v)
  BY <1>0, <1>1 DEF HoldFits
<1> QED
  BY <1>2, <1>3, <1>4 DEF Fits

LEMMA ReleaseFits ==
    ASSUME LoyaltyTypeOK, NEW o \in Orders, NEW t, Fits(o, t)
    PROVE  /\ Fits(o, ReleaseInTx(o, t))
           /\ ReleaseInTx(o, t).pur = t.pur
           /\ ReleaseInTx(o, t).red =
                IF t.red \in HoldingStates THEN "released" ELSE t.red
<1>1. CASE t.red \notin HoldingStates
  BY <1>1 DEF ReleaseInTx
<1>2. CASE t.red \in HoldingStates
  <2> DEFINE n == t.reserved - Cost[o]
             v == Rewarding(t, "released", n)
  <2>1. t \in Account /\ n \in Int /\ "released" \in RedStates
    BY OwnConstants DEF Fits, Account, RedStates
  <2>2. ReleaseInTx(o, t) = v
    BY <1>2 DEF ReleaseInTx, Rewarding
  <2>3. n = t.reserved - Cost[o]
    OBVIOUS
  <2> HIDE DEF n
  <2>4. /\ v \in Account /\ v.red = "released" /\ v.reserved = n
        /\ v.pur = t.pur /\ v.points = t.points /\ v.ledger = t.ledger
    BY <2>1, Rewarded
  <2> HIDE DEF v
  <2>5. Fits(o, v)
    BY <1>2, <2>3, <2>4, HeldFits
  <2> QED
    BY <1>2, <2>2, <2>4, <2>5
<1> QED
  BY <1>1, <1>2

\* A reward that changes its state only.
Redeeming(t, r) == [t EXCEPT !.red = r]

LEMMA Redeemed ==
    ASSUME NEW t \in Account, NEW r \in RedStates
    PROVE  /\ Redeeming(t, r) \in Account
           /\ Redeeming(t, r).red = r
           /\ Redeeming(t, r).reserved = t.reserved
           /\ Redeeming(t, r).pur = t.pur
           /\ Redeeming(t, r).points = t.points
           /\ Redeeming(t, r).ledger = t.ledger
  BY DEF Account, Redeeming

LEMMA ReviewFits ==
    ASSUME LoyaltyTypeOK, NEW o \in Orders, NEW t, Fits(o, t)
    PROVE  /\ Fits(o, ReviewRedemptionInTx(t))
           /\ ReviewRedemptionInTx(t).pur = t.pur
           /\ ReviewRedemptionInTx(t).red = IF t.red = "bound" THEN "review" ELSE t.red
<1>1. CASE t.red # "bound"
  BY <1>1 DEF ReviewRedemptionInTx
<1>2. CASE t.red = "bound"
  <2> DEFINE v == Redeeming(t, "review")
  <2>1. t \in Account /\ "review" \in RedStates
    BY DEF Fits, RedStates
  <2>2. ReviewRedemptionInTx(t) = v
    BY <1>2 DEF ReviewRedemptionInTx, Redeeming
  <2>3. /\ v \in Account /\ v.red = "review" /\ v.reserved = t.reserved
        /\ v.pur = t.pur /\ v.points = t.points /\ v.ledger = t.ledger
    BY <2>1, Redeemed
  <2> HIDE DEF v
  <2>4. Fits(o, v)
    BY <1>2, <2>3, HeldFits
  <2> QED
    BY <1>2, <2>2, <2>3, <2>4
<1> QED
  BY <1>1, <1>2

LEMMA RestoreFits ==
    ASSUME LoyaltyTypeOK, NEW o \in Orders, NEW t, Fits(o, t)
    PROVE  /\ Fits(o, RestoreInTx(o, t))
           /\ RestoreInTx(o, t).pur = t.pur
           /\ RestoreInTx(o, t).red = IF t.red = "consumed" THEN "restored" ELSE t.red
<1>1. CASE t.red # "consumed"
  BY <1>1 DEF RestoreInTx
<1>2. CASE t.red = "consumed"
  <2> DEFINE v == Redeeming(t, "restored")
             e == Entry(o, "restore", 0, Cost[o])
             u == PostInTx(v, e)
  <2>0. /\ t \in Account /\ OrderFits(o, t.red, t.pur, t.ledger) /\ PointsFit(o, t)
        /\ HoldFits(o, t) /\ Grown(o, t)
    BY DEF Fits
  <2>1. /\ Cost[o] \in Nat /\ "restore" \in OrderKinds /\ 0 \in Nat
        /\ "restored" \in RedStates
    BY OwnConstants DEF OrderKinds, RedStates
  <2>2. RestoreInTx(o, t) = u
    BY <1>2 DEF RestoreInTx, Redeeming
  <2>3. /\ v \in Account /\ v.red = "restored" /\ v.pur = t.pur
        /\ v.reserved = t.reserved /\ v.points = t.points /\ v.ledger = t.ledger
    BY <2>0, <2>1, Redeemed
  <2> HIDE DEF v
  <2>4. PointsFit(o, v) /\ Grown(o, v)
    BY <2>0, <2>3 DEF PointsFit, Grown
  <2>5. ~Posted(v, e)
    BY <1>2, <2>0, <2>1, <2>3, PostedIs DEF OrderFits, EntriesFit
  <2>6. Books(o, v, u, e)
    BY <2>1, <2>3, <2>4, <2>5, NewEntry
  <2>7. e.kind = "restore" /\ e.points = Cost[o]
    BY DEF Entry
  <2> HIDE DEF u, e
  <2>8. EntriesFit(o, u.red, u.pur, u.ledger)
    BY <1>2, <2>0, <2>3, <2>6, <2>7 DEF OrderFits, EntriesFit, Books
  <2>9. RewardSums(o, u.red, u.ledger) /\ SaleSums(o, u.pur, u.ledger)
    <3>1. /\ PointsIn(OfIn(u.ledger, o, "restore"))
               = PointsIn(OfIn(t.ledger, o, "restore")) + Cost[o]
          /\ PointsIn(OfIn(u.ledger, o, "redeem")) = PointsIn(OfIn(t.ledger, o, "redeem"))
          /\ PointsIn(OfIn(u.ledger, o, "earn")) = PointsIn(OfIn(t.ledger, o, "earn"))
          /\ PointsIn(OfIn(u.ledger, o, "reverse")) = PointsIn(OfIn(t.ledger, o, "reverse"))
      BY <2>3, <2>6, <2>7 DEF Books, OrderKinds
    <3> QED
      BY <1>2, <2>0, <2>1, <2>3, <2>6, <3>1
         DEF OrderFits, RewardSums, SaleSums, Books
  <2>10. HoldFits(o, u)
    BY <1>2, <2>0, <2>1, <2>3, <2>6 DEF HoldFits, Books
  <2> QED
    BY <1>2, <2>2, <2>3, <2>6, <2>8, <2>9, <2>10 DEF Fits, OrderFits, Books
<1> QED
  BY <1>1, <1>2

-----------------------------------------------------------------------------
\* The purchase

\* A purchase that changes alone.
Buying(t, p) == [t EXCEPT !.pur = p]

LEMMA Bought ==
    ASSUME NEW t \in Account, NEW p \in PurchaseRow
    PROVE  /\ Buying(t, p) \in Account
           /\ Buying(t, p).pur = p
           /\ Buying(t, p).red = t.red
           /\ Buying(t, p).reserved = t.reserved
           /\ Buying(t, p).points = t.points
           /\ Buying(t, p).ledger = t.ledger
  BY DEF Account, Buying

\* Every point the refunds recorded on the sale cost it was taken back.
TakenBack(o, p) ==
    p.state = "completed" /\ p.refunded > 0 =>
      p.awarded - PointsAfter[o][p.refunded] <= p.reversed

LEMMA RefundsFit ==
    ASSUME LoyaltyTypeOK, NEW o \in Orders, NEW t, Fits(o, t),
           t.pur.refunded \in 0 .. Total[o]
    PROVE  /\ Fits(o, ApplyPurchaseRefundsInTx(o, t))
           /\ ApplyPurchaseRefundsInTx(o, t).red = t.red
           /\ ApplyPurchaseRefundsInTx(o, t).pur.state = t.pur.state
           /\ ApplyPurchaseRefundsInTx(o, t).pur.refunded = t.pur.refunded
           /\ TakenBack(o, ApplyPurchaseRefundsInTx(o, t).pur)
<1> DEFINE p == t.pur
           kept == PointsAfter[o][p.refunded]
           n == p.awarded - kept - p.reversed
           e == Entry(o, "reverse", p.refunded, n)
           r == [p EXCEPT !.reversed = p.reversed + n]
           v == PostInTx(t, e)
<1>0. /\ t \in Account /\ OrderFits(o, t.red, p, t.ledger) /\ PointsFit(o, t)
      /\ HoldFits(o, t) /\ Grown(o, t)
  BY DEF Fits
<1>1. /\ p \in PurchaseRow /\ p.awarded \in Nat /\ p.reversed \in Nat
      /\ p.refunded \in Nat /\ p.refunded \in 0 .. Total[o] /\ kept \in Nat
      /\ n \in Int
  BY <1>0, OwnConstants DEF Account, PurchaseRow
<1>2. CASE p.state # "completed" \/ n <= 0
  <2>1. ApplyPurchaseRefundsInTx(o, t) = t
    BY <1>2 DEF ApplyPurchaseRefundsInTx
  <2>2. TakenBack(o, p)
    BY <1>1, <1>2 DEF TakenBack
  <2> QED
    BY <2>1, <2>2
<1>3. CASE p.state = "completed" /\ ~(n <= 0) /\ Posted(t, e)
  <2>0. n \in Nat /\ "reverse" \in OrderKinds
    BY <1>1, <1>3 DEF OrderKinds
  <2>1. PICK f \in t.ledger : f.src = o /\ f.kind = "reverse" /\ f.nth = p.refunded
    <3> HIDE DEF n, p
    <3> QED
      BY <1>0, <1>1, <1>3, <2>0, PostedIs
  <2>2. p.awarded - kept <= p.reversed
    BY <1>0, <2>1 DEF OrderFits, EntriesFit
  <2> QED
    BY <1>1, <1>3, <2>2
<1>4. CASE p.state = "completed" /\ ~(n <= 0) /\ ~Posted(t, e)
  <2> DEFINE u == Buying(v, r)
  <2>1. n \in Nat /\ "reverse" \in OrderKinds
    BY <1>1, <1>4 DEF OrderKinds
  <2>2. ApplyPurchaseRefundsInTx(o, t) = [v EXCEPT !.pur.reversed = @ + n]
    BY <1>4 DEF ApplyPurchaseRefundsInTx
  <2>3. e.kind = "reverse" /\ e.points = n /\ e.nth = p.refunded
    BY DEF Entry
  <2>4. n = p.awarded - kept - p.reversed
    OBVIOUS
  <2>5. /\ r \in PurchaseRow /\ r.state = p.state /\ r.awarded = p.awarded
        /\ r.refunded = p.refunded /\ r.reversed = p.reversed + n
    <3> HIDE DEF n, p
    <3> QED
      BY <1>1, <2>1 DEF PurchaseRow
  <2> HIDE DEF n
  <2>6. Books(o, t, v, e)
    BY <1>0, <1>1, <1>4, <2>1, NewEntry
  <2> HIDE DEF v, e
  <2>7. [v EXCEPT !.pur.reversed = @ + n] = u
    BY <2>6 DEF Books, Buying, Account, PurchaseRow
  <2> HIDE DEF r
  <2>8. /\ u \in Account /\ u.pur = r /\ u.red = t.red /\ u.reserved = t.reserved
        /\ u.points = v.points /\ u.ledger = v.ledger
    BY <2>5, <2>6, Bought DEF Books
  <2> HIDE DEF u
  <2>9. r.awarded - kept <= r.reversed /\ r.reversed <= r.awarded /\ p.reversed <= r.reversed
    BY <1>1, <2>1, <2>4, <2>5
  <2>10. EntriesFit(o, u.red, u.pur, u.ledger)
    <3> SUFFICES ASSUME NEW f \in u.ledger, f.src = o
                 PROVE  /\ f.member = Owner[o]
                        /\ f.kind = "redeem" => u.red \in Spent
                        /\ f.kind = "restore" => u.red = "restored"
                        /\ f.kind = "earn" => u.pur.state = "completed"
                        /\ f.kind = "reverse" =>
                             /\ u.pur.state = "completed"
                             /\ f.nth \in 0 .. Total[o]
                             /\ u.pur.awarded - PointsAfter[o][f.nth] <= u.pur.reversed
      BY DEF EntriesFit
    <3>1. CASE f = e
      BY <1>1, <1>4, <2>3, <2>5, <2>6, <2>8, <2>9, <3>1 DEF Books
    <3>2. CASE f \in t.ledger
      <4>1. /\ f.member = Owner[o]
            /\ f.kind = "redeem" => t.red \in Spent
            /\ f.kind = "restore" => t.red = "restored"
            /\ f.kind = "earn" => p.state = "completed"
            /\ f.kind = "reverse" => /\ f.nth \in 0 .. Total[o]
                                     /\ p.awarded - PointsAfter[o][f.nth] <= p.reversed
        BY <1>0, <3>2 DEF OrderFits, EntriesFit
      <4>2. f.kind = "reverse" => PointsAfter[o][f.nth] \in Nat
        BY <4>1, OwnConstants
      <4> HIDE DEF p
      <4> QED
        BY <1>1, <1>4, <2>5, <2>8, <2>9, <4>1, <4>2
    <3> QED
      BY <2>6, <2>8, <3>1, <3>2 DEF Books
  <2>11. RewardSums(o, u.red, u.ledger) /\ SaleSums(o, u.pur, u.ledger)
    <3>1. /\ PointsIn(OfIn(u.ledger, o, "reverse"))
               = PointsIn(OfIn(t.ledger, o, "reverse")) + n
          /\ PointsIn(OfIn(u.ledger, o, "redeem")) = PointsIn(OfIn(t.ledger, o, "redeem"))
          /\ PointsIn(OfIn(u.ledger, o, "earn")) = PointsIn(OfIn(t.ledger, o, "earn"))
          /\ PointsIn(OfIn(u.ledger, o, "restore")) = PointsIn(OfIn(t.ledger, o, "restore"))
      BY <2>3, <2>6, <2>8 DEF Books, OrderKinds
    <3> QED
      BY <1>0, <2>5, <2>8, <2>9, <3>1 DEF OrderFits, RewardSums, SaleSums
  <2>12. HoldFits(o, u) /\ PointsFit(o, u) /\ Grown(o, u)
    BY <1>0, <2>6, <2>8 DEF HoldFits, PointsFit, Grown, Books
  <2>13. TakenBack(o, u.pur)
    BY <2>5, <2>8, <2>9 DEF TakenBack
  <2> QED
    BY <2>2, <2>5, <2>7, <2>8, <2>10, <2>11, <2>12, <2>13 DEF Fits, OrderFits
<1> QED
  BY <1>2, <1>3, <1>4

\* A sale that neither begins nor ends to count keeps its points.
LEMMA BoughtFits ==
    ASSUME NEW o \in Orders, NEW t, Fits(o, t), NEW q \in PurchaseRow,
           q.awarded = t.pur.awarded, q.reversed = t.pur.reversed,
           q.state = t.pur.state \/ "completed" \notin {q.state, t.pur.state}
    PROVE  Fits(o, Buying(t, q))
<1>0. /\ t \in Account /\ OrderFits(o, t.red, t.pur, t.ledger) /\ PointsFit(o, t)
      /\ HoldFits(o, t) /\ Grown(o, t)
  BY DEF Fits
<1>1. /\ Buying(t, q) \in Account /\ Buying(t, q).pur = q /\ Buying(t, q).red = t.red
      /\ Buying(t, q).reserved = t.reserved /\ Buying(t, q).points = t.points
      /\ Buying(t, q).ledger = t.ledger
  BY <1>0, Bought
<1>2. OrderFits(o, t.red, q, t.ledger)
  BY <1>0 DEF OrderFits, EntriesFit, RewardSums, SaleSums
<1>3. /\ PointsFit(o, Buying(t, q)) /\ HoldFits(o, Buying(t, q)) /\ Grown(o, Buying(t, q))
  BY <1>0, <1>1 DEF PointsFit, HoldFits, Grown
<1> QED
  BY <1>1, <1>2, <1>3 DEF Fits

\* A purchase given another state.
Stated(p, s) == [p EXCEPT !.state = s]

LEMMA StatedRow ==
    ASSUME NEW p \in PurchaseRow, NEW s \in PurStates
    PROVE  /\ Stated(p, s) \in PurchaseRow
           /\ Stated(p, s).state = s
           /\ Stated(p, s).awarded = p.awarded
           /\ Stated(p, s).reversed = p.reversed
           /\ Stated(p, s).refunded = p.refunded
  BY DEF PurchaseRow, Stated

\* A sale that has not counted waits, is cancelled or is excluded.
LEMMA StatedFits ==
    ASSUME NEW o \in Orders, NEW t, Fits(o, t), t.pur.state # "completed",
           NEW s \in PurStates \ {"completed"}
    PROVE  /\ Fits(o, [t EXCEPT !.pur.state = s])
           /\ [t EXCEPT !.pur.state = s].red = t.red
           /\ [t EXCEPT !.pur.state = s].pur.state = s
           /\ [t EXCEPT !.pur.state = s].pur.refunded = t.pur.refunded
<1> DEFINE q == Stated(t.pur, s)
<1>1. t \in Account /\ t.pur \in PurchaseRow
  BY DEF Fits, Account
<1>2. [t EXCEPT !.pur.state = s] = Buying(t, q)
  BY <1>1 DEF Buying, Stated, Account
<1>3. /\ q \in PurchaseRow /\ q.state = s /\ q.awarded = t.pur.awarded
      /\ q.reversed = t.pur.reversed /\ q.refunded = t.pur.refunded
  BY <1>1, StatedRow
<1> HIDE DEF q
<1>4. Fits(o, Buying(t, q))
  BY <1>3, BoughtFits
<1>5. Buying(t, q).pur = q /\ Buying(t, q).red = t.red
  BY <1>1, <1>3, Bought
<1> QED
  BY <1>2, <1>3, <1>4, <1>5

\* The sale counts, once, for what the order earns.
Awarded(o, p) == [p EXCEPT !.state = "completed", !.awarded = Award[o]]

Earned(o, t) ==
    IF Award[o] = 0 THEN Buying(t, Awarded(o, t.pur))
    ELSE PostInTx(Buying(t, Awarded(o, t.pur)), Entry(o, "earn", 0, Award[o]))

LEMMA EarnFits ==
    ASSUME LoyaltyTypeOK, NEW o \in Orders, NEW t, Fits(o, t),
           t.pur.state # "completed"
    PROVE  /\ Fits(o, Earned(o, t))
           /\ Earned(o, t).red = t.red
           /\ Earned(o, t).pur.state = "completed"
           /\ Earned(o, t).pur.refunded = t.pur.refunded
<1> DEFINE p == t.pur
           q == Awarded(o, p)
           v == Buying(t, q)
           e == Entry(o, "earn", 0, Award[o])
           u == PostInTx(v, e)
<1>0. /\ t \in Account /\ OrderFits(o, t.red, p, t.ledger) /\ PointsFit(o, t)
      /\ HoldFits(o, t) /\ Grown(o, t)
  BY DEF Fits
<1>1. /\ p \in PurchaseRow /\ p.awarded = 0 /\ p.reversed = 0
      /\ Award[o] \in Nat /\ "earn" \in OrderKinds /\ 0 \in Nat
  BY <1>0, OwnConstants DEF Account, PurchaseRow, OrderFits, SaleSums, OrderKinds
<1>2. /\ q \in PurchaseRow /\ q.state = "completed" /\ q.awarded = Award[o]
      /\ q.reversed = 0 /\ q.refunded = p.refunded
  <2> HIDE DEF p
  <2> QED
    BY <1>1 DEF PurchaseRow, PurStates, Awarded
<1> HIDE DEF q
<1>3. /\ v \in Account /\ v.pur = q /\ v.red = t.red /\ v.reserved = t.reserved
      /\ v.points = t.points /\ v.ledger = t.ledger
  BY <1>0, <1>2, Bought
<1>4. Earned(o, t) = IF Award[o] = 0 THEN v ELSE u
  BY DEF Earned, q
<1> HIDE DEF v
<1>5. HoldFits(o, v) /\ PointsFit(o, v) /\ Grown(o, v)
  BY <1>0, <1>3 DEF HoldFits, PointsFit, Grown
<1>6. EntriesFit(o, v.red, v.pur, v.ledger)
  BY <1>0, <1>2, <1>3 DEF OrderFits, EntriesFit
<1>7. CASE Award[o] = 0
  <2>1. RewardSums(o, v.red, v.ledger) /\ SaleSums(o, v.pur, v.ledger)
    BY <1>0, <1>1, <1>2, <1>3, <1>7 DEF OrderFits, RewardSums, SaleSums
  <2> QED
    BY <1>2, <1>3, <1>4, <1>5, <1>6, <1>7, <2>1 DEF Fits, OrderFits
<1>8. CASE Award[o] # 0
  <2>1. ~Posted(v, e)
    BY <1>0, <1>1, <1>3, PostedIs DEF OrderFits, EntriesFit
  <2>2. Books(o, v, u, e)
    BY <1>1, <1>3, <1>5, <2>1, NewEntry
  <2>3. e.kind = "earn" /\ e.points = Award[o]
    BY DEF Entry
  <2> HIDE DEF u, e
  <2>4. EntriesFit(o, u.red, u.pur, u.ledger)
    BY <1>2, <1>3, <1>6, <2>2, <2>3 DEF EntriesFit, Books
  <2>5. RewardSums(o, u.red, u.ledger) /\ SaleSums(o, u.pur, u.ledger)
    <3>1. /\ PointsIn(OfIn(u.ledger, o, "earn"))
               = PointsIn(OfIn(t.ledger, o, "earn")) + Award[o]
          /\ PointsIn(OfIn(u.ledger, o, "redeem")) = PointsIn(OfIn(t.ledger, o, "redeem"))
          /\ PointsIn(OfIn(u.ledger, o, "restore")) = PointsIn(OfIn(t.ledger, o, "restore"))
          /\ PointsIn(OfIn(u.ledger, o, "reverse")) = PointsIn(OfIn(t.ledger, o, "reverse"))
      BY <1>3, <2>2, <2>3 DEF Books, OrderKinds
    <3> QED
      BY <1>0, <1>1, <1>2, <1>3, <2>2, <3>1
         DEF OrderFits, RewardSums, SaleSums, Books
  <2>6. HoldFits(o, u)
    BY <1>3, <1>5, <2>2 DEF HoldFits, Books
  <2> QED
    BY <1>2, <1>3, <1>4, <1>8, <2>2, <2>4, <2>5, <2>6 DEF Fits, OrderFits, Books
<1> QED
  BY <1>7, <1>8

\* What settling makes of a purchase that still waits, or was cancelled.
Outcome(o, r, trusted) ==
    IF ~trusted /\ r = "released" THEN "review"
    ELSE IF member[Owner[o]] # "active" THEN "excluded" ELSE "completed"

Settling == Unsettled \cup Reopenable

LEMMA SettleFits ==
    ASSUME LoyaltyTypeOK, NEW o \in Orders, NEW t, Fits(o, t),
           t.pur.refunded \in 0 .. Total[o], NEW trusted \in BOOLEAN
    PROVE  /\ Fits(o, SettlePurchaseInTx(o, t, trusted))
           /\ SettlePurchaseInTx(o, t, trusted).red = t.red
           /\ SettlePurchaseInTx(o, t, trusted).pur.refunded = t.pur.refunded
           /\ SettlePurchaseInTx(o, t, trusted).pur.state =
                IF t.pur.state \in Settling THEN Outcome(o, t.red, trusted) ELSE t.pur.state
           /\ TakenBack(o, t.pur) \/ t.pur.state \in Settling =>
                TakenBack(o, SettlePurchaseInTx(o, t, trusted).pur)
<1>1. t \in Account /\ Settling = {"open", "review", "cancelled"}
  BY DEF Fits, Settling, Unsettled, Reopenable
<1>2. CASE t.pur.state \notin Settling
  BY <1>2 DEF SettlePurchaseInTx, Settling
<1>3. CASE t.pur.state \in Settling /\ ~trusted /\ t.red = "released"
  <2>1. SettlePurchaseInTx(o, t, trusted) = [t EXCEPT !.pur.state = "review"]
    BY <1>3 DEF SettlePurchaseInTx, Settling
  <2>2. t.pur.state # "completed" /\ "review" \in PurStates \ {"completed"}
    BY <1>1, <1>3 DEF PurStates
  <2> QED
    BY <1>3, <2>1, <2>2, StatedFits DEF TakenBack, Outcome
<1>4. CASE /\ t.pur.state \in Settling /\ ~(~trusted /\ t.red = "released")
           /\ member[Owner[o]] # "active"
  <2>1. SettlePurchaseInTx(o, t, trusted) = [t EXCEPT !.pur.state = "excluded"]
    BY <1>4 DEF SettlePurchaseInTx, Settling
  <2>2. t.pur.state # "completed" /\ "excluded" \in PurStates \ {"completed"}
    BY <1>1, <1>4 DEF PurStates
  <2> QED
    BY <1>4, <2>1, <2>2, StatedFits DEF TakenBack, Outcome
<1>5. CASE /\ t.pur.state \in Settling /\ ~(~trusted /\ t.red = "released")
           /\ member[Owner[o]] = "active"
  <2> DEFINE u == Earned(o, t)
  <2>1. [t EXCEPT !.pur.state = "completed", !.pur.awarded = Award[o]]
          = Buying(t, Awarded(o, t.pur))
    BY <1>1 DEF Account, PurchaseRow, Buying, Awarded
  <2>2. SettlePurchaseInTx(o, t, trusted) =
          IF t.pur.refunded = 0 THEN u ELSE ApplyPurchaseRefundsInTx(o, u)
    <3> DEFINE w == [t EXCEPT !.pur.state = "completed", !.pur.awarded = Award[o]]
               e == IF Award[o] = 0 THEN w ELSE PostInTx(w, Entry(o, "earn", 0, Award[o]))
    <3>1. SettlePurchaseInTx(o, t, trusted) =
            IF t.pur.refunded = 0 THEN e ELSE ApplyPurchaseRefundsInTx(o, e)
      BY <1>5 DEF SettlePurchaseInTx, Settling
    <3> HIDE DEF w
    <3>2. w = Buying(t, Awarded(o, t.pur))
      BY <2>1 DEF w
    <3>3. e = u
      BY <3>2 DEF Earned
    <3> QED
      BY <3>1, <3>3
  <2>3. /\ Fits(o, u) /\ u.red = t.red /\ u.pur.state = "completed"
        /\ u.pur.refunded = t.pur.refunded
    BY <1>1, <1>5, EarnFits
  <2>4. Outcome(o, t.red, trusted) = "completed"
    BY <1>5 DEF Outcome
  <2> HIDE DEF u
  <2>5. CASE t.pur.refunded = 0
    BY <1>5, <2>2, <2>3, <2>4, <2>5 DEF TakenBack
  <2>6. CASE t.pur.refunded # 0
    BY <1>5, <2>2, <2>3, <2>4, <2>6, RefundsFit
  <2> QED
    BY <2>5, <2>6
<1> QED
  BY <1>2, <1>3, <1>4, <1>5

-----------------------------------------------------------------------------
\* Reconciliation

\* The customer has every cent back.
Full(o) == order[o].refunded > 0 /\ FullyRefunded(o)

\* The row as far as reconciliation needs it.
LEMMA RowIs ==
    ASSUME LoyaltyTypeOK, NEW o \in Orders
    PROVE  /\ order[o] \in OrderRow /\ order[o].refunded \in 0 .. Total[o]
           /\ Total[o] \in Nat
           /\ order[o].refunded \in Nat
           /\ FullyRefunded(o) => order[o].refunded = Total[o]
<1>1. order[o] \in OrderRow /\ order[o].refunded <= Total[o]
  BY DEF LoyaltyTypeOK, OrdersTypeOK
<1>2. order[o].refunded \in Nat /\ Total[o] \in Nat
  BY <1>1, OwnConstants DEF OrderRow
<1> QED
  BY <1>1, <1>2 DEF FullyRefunded

LEMMA SourceRefundsFit ==
    ASSUME LoyaltyTypeOK, NEW o \in Orders, NEW t, Fits(o, t),
           t.pur.refunded \in 0 .. Total[o]
    PROVE  /\ Fits(o, ApplySourceRefundsInTx(o, t))
           /\ ApplySourceRefundsInTx(o, t).red =
                IF Full(o) /\ t.red = "consumed" THEN "restored" ELSE t.red
           /\ ApplySourceRefundsInTx(o, t).pur.state = t.pur.state
           /\ ApplySourceRefundsInTx(o, t).pur.refunded = t.pur.refunded
           /\ order[o].refunded > 0 => TakenBack(o, ApplySourceRefundsInTx(o, t).pur)
<1> DEFINE v == ApplyPurchaseRefundsInTx(o, t)
<1>1. /\ Fits(o, v) /\ v.red = t.red /\ v.pur.state = t.pur.state
      /\ v.pur.refunded = t.pur.refunded /\ TakenBack(o, v.pur)
  BY RefundsFit
<1>2. ApplySourceRefundsInTx(o, t) =
        IF order[o].refunded = 0 THEN t
        ELSE IF Total[o] > 0 /\ FullyRefunded(o) THEN RestoreInTx(o, v) ELSE v
  BY DEF ApplySourceRefundsInTx
<1> HIDE DEF v
<1>3. /\ Fits(o, RestoreInTx(o, v)) /\ RestoreInTx(o, v).pur = v.pur
      /\ RestoreInTx(o, v).red = IF v.red = "consumed" THEN "restored" ELSE v.red
  BY <1>1, RestoreFits
<1>4. /\ order[o].refunded \in Nat
      /\ Full(o) <=> (order[o].refunded # 0 /\ Total[o] > 0 /\ FullyRefunded(o))
  BY RowIs DEF Full
<1>5. CASE order[o].refunded = 0
  BY <1>2, <1>4, <1>5
<1>6. CASE order[o].refunded # 0 /\ Total[o] > 0 /\ FullyRefunded(o)
  BY <1>1, <1>2, <1>3, <1>4, <1>6
<1>7. CASE order[o].refunded # 0 /\ ~(Total[o] > 0 /\ FullyRefunded(o))
  BY <1>1, <1>2, <1>4, <1>7
<1> QED
  BY <1>5, <1>6, <1>7

LEMMA SyncFits ==
    ASSUME LoyaltyTypeOK, NEW o \in Orders, NEW t, Fits(o, t),
           t.pur.refunded <= order[o].refunded
    PROVE  /\ Fits(o, SyncRefundedInTx(o, t))
           /\ SyncRefundedInTx(o, t).red = t.red
           /\ SyncRefundedInTx(o, t).pur.state = t.pur.state
           /\ SyncRefundedInTx(o, t).pur.refunded \in 0 .. order[o].refunded
           /\ t.pur.state # "none" =>
                SyncRefundedInTx(o, t).pur.refunded = order[o].refunded
           /\ t.pur.state = "none" => SyncRefundedInTx(o, t) = t
<1>1. t \in Account /\ t.pur \in PurchaseRow /\ t.pur.refunded \in Nat /\ order[o].refunded \in Nat
  BY RowIs DEF Fits, Account, PurchaseRow
<1>2. CASE t.pur.state = "none" \/ order[o].refunded <= t.pur.refunded
  BY <1>1, <1>2 DEF SyncRefundedInTx
<1>3. CASE ~(t.pur.state = "none" \/ order[o].refunded <= t.pur.refunded)
  <2> DEFINE q == [t.pur EXCEPT !.refunded = order[o].refunded]
  <2>1. SyncRefundedInTx(o, t) = Buying(t, q)
    BY <1>1, <1>3 DEF SyncRefundedInTx, Buying, Account
  <2>2. /\ q \in PurchaseRow /\ q.state = t.pur.state /\ q.awarded = t.pur.awarded
        /\ q.reversed = t.pur.reversed /\ q.refunded = order[o].refunded
    BY <1>1 DEF PurchaseRow
  <2> HIDE DEF q
  <2>3. Fits(o, Buying(t, q))
    BY <2>2, BoughtFits
  <2>4. Buying(t, q).pur = q /\ Buying(t, q).red = t.red
    BY <1>1, <2>2, Bought
  <2> QED
    BY <1>1, <1>3, <2>1, <2>2, <2>3, <2>4
<1> QED
  BY <1>2, <1>3

\* Where a verdict takes a reward and a purchase.
FollowedRed(verdict, r) ==
    IF verdict = "cancelled" /\ r \in HoldingStates THEN "released"
    ELSE IF verdict = "review" /\ r = "bound" THEN "review"
    ELSE IF verdict = "completed" /\ r \in HoldingStates THEN "consumed"
    ELSE r

FollowedState(o, verdict, r, s, trusted) ==
    IF verdict = "cancelled" /\ s \in Unsettled THEN "cancelled"
    ELSE IF verdict = "review" /\ s \in Settling THEN "review"
    ELSE IF verdict = "completed" /\ s \in Settling THEN Outcome(o, r, trusted)
    ELSE s

Verdicts == {"open", "cancelled", "review", "completed"}

LEMMA VerdictIs ==
    ASSUME NEW o, NEW holding
    PROVE  Verdict(o, holding) \in Verdicts
  BY DEF Verdict, Verdicts

LEMMA FollowFits ==
    ASSUME LoyaltyTypeOK, NEW o \in Orders, NEW t, Fits(o, t),
           t.pur.refunded \in 0 .. Total[o], NEW trusted \in BOOLEAN,
           NEW verdict, verdict = Verdict(o, t.red \in HoldingStates)
    PROVE  /\ Fits(o, FollowVerdictInTx(o, t, trusted))
           /\ FollowVerdictInTx(o, t, trusted).red = FollowedRed(verdict, t.red)
           /\ FollowVerdictInTx(o, t, trusted).pur.refunded = t.pur.refunded
           /\ FollowVerdictInTx(o, t, trusted).pur.state =
                FollowedState(o, verdict, FollowedRed(verdict, t.red), t.pur.state, trusted)
<1> DEFINE u == FollowVerdictInTx(o, t, trusted)
           released == ReleaseInTx(o, t)
           reviewed == ReviewRedemptionInTx(t)
           consumed == ConsumeInTx(o, t)
<1> SUFFICES /\ Fits(o, u) /\ u.red = FollowedRed(verdict, t.red)
             /\ u.pur.refunded = t.pur.refunded
             /\ u.pur.state =
                  FollowedState(o, verdict, FollowedRed(verdict, t.red), t.pur.state, trusted)
  OBVIOUS
<1>0. Settling = {"open", "review", "cancelled"} /\ Unsettled = {"open", "review"}
  BY DEF Settling, Unsettled, Reopenable
<1>1. verdict \in Verdicts
  BY VerdictIs
<1>2. CASE verdict = "open"
  <2>1. u = t
    BY <1>2 DEF FollowVerdictInTx
  <2> QED
    BY <1>2, <2>1 DEF FollowedRed, FollowedState
<1>3. CASE verdict = "cancelled"
  <2>1. u = IF t.pur.state \in Unsettled
            THEN [released EXCEPT !.pur.state = "cancelled"] ELSE released
    BY <1>3 DEF FollowVerdictInTx
  <2>2. /\ Fits(o, released) /\ released.pur = t.pur
        /\ released.red = FollowedRed(verdict, t.red)
    BY <1>3, ReleaseFits DEF FollowedRed
  <2> HIDE DEF released, u
  <2>3. "cancelled" \in PurStates \ {"completed"}
    BY DEF PurStates
  <2>4. CASE t.pur.state \in Unsettled
    <3>1. released.pur.state # "completed"
      BY <1>0, <2>2, <2>4
    <3> QED
      BY <1>3, <2>1, <2>2, <2>3, <2>4, <3>1, StatedFits DEF FollowedState
  <2>5. CASE t.pur.state \notin Unsettled
    BY <1>3, <2>1, <2>2, <2>5 DEF FollowedState
  <2> QED
    BY <2>4, <2>5
<1>4. CASE verdict = "review"
  <2>1. u = IF t.pur.state \in Settling
            THEN [reviewed EXCEPT !.pur.state = "review"] ELSE reviewed
    BY <1>4 DEF FollowVerdictInTx, Settling
  <2>2. /\ Fits(o, reviewed) /\ reviewed.pur = t.pur
        /\ reviewed.red = FollowedRed(verdict, t.red)
    BY <1>4, ReviewFits DEF FollowedRed
  <2> HIDE DEF reviewed, u
  <2>3. "review" \in PurStates \ {"completed"}
    BY DEF PurStates
  <2>4. CASE t.pur.state \in Settling
    <3>1. reviewed.pur.state # "completed"
      BY <1>0, <2>2, <2>4
    <3> QED
      BY <1>4, <2>1, <2>2, <2>3, <2>4, <3>1, StatedFits DEF FollowedState
  <2>5. CASE t.pur.state \notin Settling
    BY <1>4, <2>1, <2>2, <2>5 DEF FollowedState
  <2> QED
    BY <2>4, <2>5
<1>5. CASE verdict = "completed"
  <2>1. u = SettlePurchaseInTx(o, consumed, trusted)
    BY <1>5 DEF FollowVerdictInTx
  <2>2. /\ Fits(o, consumed) /\ consumed.pur = t.pur
        /\ consumed.red = FollowedRed(verdict, t.red)
    BY <1>5, ConsumeFits DEF FollowedRed
  <2> HIDE DEF consumed, u
  <2>3. /\ Fits(o, u) /\ u.red = consumed.red /\ u.pur.refunded = consumed.pur.refunded
        /\ u.pur.state = IF consumed.pur.state \in Settling
                         THEN Outcome(o, consumed.red, trusted) ELSE consumed.pur.state
    BY <2>1, <2>2, SettleFits
  <2>4. u.pur.state = FollowedState(o, verdict, FollowedRed(verdict, t.red), t.pur.state, trusted)
    BY <1>5, <2>2, <2>3 DEF FollowedState
  <2> QED
    BY <2>2, <2>3, <2>4
<1> QED
  BY <1>1, <1>2, <1>3, <1>4, <1>5 DEF Verdicts

\* Reconciling an order loyalty tracks.
LEMMA ReconcileFits ==
    ASSUME LoyaltyTypeOK, NEW o \in Orders, Tracked(o), Fits(o, Current(o)),
           pur[o].refunded <= order[o].refunded, NEW trusted \in BOOLEAN,
           NEW verdict, verdict = Verdict(o, red[o] \in HoldingStates),
           NEW r, r = FollowedRed(verdict, red[o])
    PROVE  /\ Fits(o, ReconcileInTx(o, trusted))
           /\ ReconcileInTx(o, trusted).red =
                IF Full(o) /\ r = "consumed" THEN "restored" ELSE r
           /\ ReconcileInTx(o, trusted).pur.state =
                FollowedState(o, verdict, r, pur[o].state, trusted)
           /\ ReconcileInTx(o, trusted).pur.refunded <= order[o].refunded
           /\ pur[o].state # "none" =>
                ReconcileInTx(o, trusted).pur.refunded = order[o].refunded
           /\ order[o].refunded > 0 => TakenBack(o, ReconcileInTx(o, trusted).pur)
<1> DEFINE t == Current(o)
           v == SyncRefundedInTx(o, t)
           w == FollowVerdictInTx(o, v, trusted)
           u == ApplySourceRefundsInTx(o, w)
<1>1. ReconcileInTx(o, trusted) = u
  BY DEF ReconcileInTx
<1>2. t.red = red[o] /\ t.pur = pur[o]
  BY DEF Current
<1> HIDE DEF t
<1>3. /\ Fits(o, v) /\ v.red = red[o] /\ v.pur.state = pur[o].state
      /\ v.pur.refunded \in 0 .. order[o].refunded
      /\ pur[o].state # "none" => v.pur.refunded = order[o].refunded
  <2>1. Fits(o, t) /\ t.pur.refunded <= order[o].refunded
    BY <1>2 DEF t
  <2> QED
    BY <1>2, <2>1, SyncFits
<1> HIDE DEF v
<1>4. v.pur.refunded \in 0 .. Total[o] /\ order[o].refunded \in Nat
  BY <1>3, RowIs
<1>5. verdict = Verdict(o, v.red \in HoldingStates)
  BY <1>3
<1>6. /\ Fits(o, w) /\ w.red = FollowedRed(verdict, v.red)
      /\ w.pur.refunded = v.pur.refunded
      /\ w.pur.state =
           FollowedState(o, verdict, FollowedRed(verdict, v.red), v.pur.state, trusted)
  BY <1>3, <1>4, <1>5, FollowFits
<1> HIDE DEF w
<1>7. /\ Fits(o, u)
      /\ u.red = IF Full(o) /\ w.red = "consumed" THEN "restored" ELSE w.red
      /\ u.pur.state = w.pur.state
      /\ u.pur.refunded = w.pur.refunded
      /\ order[o].refunded > 0 => TakenBack(o, u.pur)
  BY <1>4, <1>6, SourceRefundsFit
<1> HIDE DEF u
<1> QED
  BY <1>1, <1>3, <1>4, <1>6, <1>7

\* A decision looks back at the refunds recorded before it.
LEMMA DecisionFits ==
    ASSUME LoyaltyTypeOK, NEW o \in Orders, NEW t, Fits(o, t),
           t.pur.refunded <= order[o].refunded
    PROVE  /\ Fits(o, AfterDecisionInTx(o, t))
           /\ AfterDecisionInTx(o, t).red =
                IF Full(o) /\ t.red = "consumed" THEN "restored" ELSE t.red
           /\ AfterDecisionInTx(o, t).pur.state = t.pur.state
           /\ AfterDecisionInTx(o, t).pur.refunded <= order[o].refunded
           /\ order[o].refunded > 0 =>
                /\ TakenBack(o, AfterDecisionInTx(o, t).pur)
                /\ AfterDecisionInTx(o, t).pur.state = "completed" =>
                     AfterDecisionInTx(o, t).pur.refunded = order[o].refunded
<1>1. order[o].refunded \in Nat
  BY RowIs
<1>2. CASE (t.red # "consumed" /\ t.pur.state # "completed") \/ order[o].refunded = 0
  BY <1>1, <1>2 DEF AfterDecisionInTx, TakenBack, Full
<1>3. CASE ~((t.red # "consumed" /\ t.pur.state # "completed") \/ order[o].refunded = 0)
  <2> DEFINE v == SyncRefundedInTx(o, t)
             u == ApplySourceRefundsInTx(o, v)
  <2>1. AfterDecisionInTx(o, t) = u
    BY <1>3 DEF AfterDecisionInTx
  <2>2. /\ Fits(o, v) /\ v.red = t.red /\ v.pur.state = t.pur.state
        /\ v.pur.refunded \in 0 .. order[o].refunded
        /\ t.pur.state # "none" => v.pur.refunded = order[o].refunded
    BY SyncFits
  <2> HIDE DEF v
  <2>3. v.pur.refunded \in 0 .. Total[o]
    BY <2>2, RowIs
  <2>4. /\ Fits(o, u)
        /\ u.red = IF Full(o) /\ v.red = "consumed" THEN "restored" ELSE v.red
        /\ u.pur.state = v.pur.state
        /\ u.pur.refunded = v.pur.refunded
        /\ order[o].refunded > 0 => TakenBack(o, u.pur)
    BY <2>2, <2>3, SourceRefundsFit
  <2> HIDE DEF u
  <2> QED
    BY <1>1, <2>1, <2>2, <2>4
<1> QED
  BY <1>2, <1>3

-----------------------------------------------------------------------------
\* The invariant of the accounts

AccountsFit == \A o \in Orders : OrderFits(o, red[o], pur[o], ledger)

\* A sale knows of no refund the order does not, and nothing is on an order
\* before it is placed.
RefundsKnown ==
    \A o \in Orders :
      /\ pur[o].refunded <= order[o].refunded
      /\ order[o].status = "none" => red[o] = "none" /\ pur[o] = NoPurchase

LoyaltyInv ==
    /\ LoyaltyTypeOK
    /\ MoneyInv
    /\ AccountsFit
    /\ BalanceIsRebuilt
    /\ RefundsKnown

\* The holds of an order's owner, told by the order's own reward.
LEMMA OwnerHolds ==
    ASSUME LoyaltyTypeOK, NEW o \in Orders, NEW H \in SUBSET Orders, o \notin H
    PROVE  /\ Sum(H, Cost) \in Nat
           /\ Sum(H \union {o}, Cost) = Sum(H, Cost) + Cost[o]
<1>1. IsFiniteSet(Orders) /\ Cost \in [Orders -> Nat]
  BY LoyaltyAssumption, OrdersAssumption
<1> QED
  BY <1>1, SumType, SumAdd

LEMMA CurrentFits ==
    ASSUME LoyaltyInv, NEW o \in Orders
    PROVE  /\ Fits(o, Current(o))
           /\ Current(o).red = red[o] /\ Current(o).pur = pur[o]
           /\ Current(o).pur.refunded <= order[o].refunded
<1> DEFINE t == Current(o)
           m == Owner[o]
<1>1. LoyaltyTypeOK /\ AccountsFit /\ BalanceIsRebuilt /\ RefundsKnown
  BY DEF LoyaltyInv
<1>2. m \in Members
  BY OwnConstants
<1>3. /\ t.red = red[o] /\ t.pur = pur[o] /\ t.points = points[m]
      /\ t.reserved = reserved[m] /\ t.ledger = ledger
  BY DEF Current
<1>4. t \in Account
  BY <1>1, <1>2 DEF LoyaltyTypeOK, Account, Ledgers, Current
<1> HIDE DEF t
<1>5. OrderFits(o, t.red, t.pur, t.ledger)
  BY <1>1, <1>3 DEF AccountsFit
<1>6. PointsFit(o, t)
  <2>1. points[m] = PointsIn(Posts(Credits, m)) - PointsIn(Posts(Debits, m))
    BY <1>1, <1>2 DEF BalanceIsRebuilt
  <2>2. \A kinds : Posts(kinds, m) = PostsIn(ledger, kinds, m)
    BY DEF Posts, PostsIn
  <2> QED
    BY <1>3, <2>1, <2>2 DEF PointsFit
<1>7. HoldFits(o, t)
  <2>1. reserved[m] = Sum(Holds(m), Cost)
    BY <1>1, <1>2 DEF BalanceIsRebuilt
  <2>2. OtherHolds(o) \in SUBSET Orders /\ o \notin OtherHolds(o)
    BY DEF OtherHolds, Holds
  <2>3. /\ Sum(OtherHolds(o), Cost) \in Nat
        /\ Sum(OtherHolds(o) \union {o}, Cost) = Sum(OtherHolds(o), Cost) + Cost[o]
    BY <1>1, <2>2, OwnerHolds
  <2>4. CASE red[o] \in HoldingStates
    <3>1. Holds(m) = OtherHolds(o) \union {o}
      BY <2>4 DEF OtherHolds, Holds
    <3> QED
      BY <1>3, <2>1, <2>3, <2>4, <3>1 DEF HoldFits
  <2>5. CASE red[o] \notin HoldingStates
    <3>1. Holds(m) = OtherHolds(o)
      BY <2>5 DEF OtherHolds, Holds
    <3> QED
      BY <1>3, <2>1, <2>3, <2>5, <3>1 DEF HoldFits
  <2> QED
    BY <2>4, <2>5
<1>8. Grown(o, t)
  BY <1>3 DEF Grown
<1>9. t.pur.refunded <= order[o].refunded
  BY <1>1, <1>3 DEF RefundsKnown
<1> QED
  BY <1>3, <1>4, <1>5, <1>6, <1>7, <1>8, <1>9 DEF Fits, t

\* What a committed transaction leaves of the accounts.
AccountsType ==
    /\ red \in [Orders -> RedStates]
    /\ pur \in [Orders -> PurchaseRow]
    /\ points \in [Members -> Int]
    /\ reserved \in [Members -> Nat]
    /\ IsFiniteSet(ledger) /\ ledger \subseteq LedgerEntry

LEMMA CommitFits ==
    ASSUME LoyaltyInv, NEW o \in Orders, NEW t, Fits(o, t), Commit(o, t)
    PROVE  /\ AccountsType' /\ AccountsFit' /\ BalanceIsRebuilt'
           /\ red'[o] = t.red /\ pur'[o] = t.pur
           /\ \A x \in Orders \ {o} : red'[x] = red[x] /\ pur'[x] = pur[x]
<1>0. /\ t \in Account /\ OrderFits(o, t.red, t.pur, t.ledger) /\ PointsFit(o, t)
      /\ HoldFits(o, t) /\ Grown(o, t)
  BY DEF Fits
<1>1. LoyaltyTypeOK /\ AccountsFit /\ BalanceIsRebuilt
  BY DEF LoyaltyInv
<1>2. /\ t.red \in RedStates /\ t.pur \in PurchaseRow /\ t.points \in Int
      /\ t.ledger \in Ledgers
  BY <1>0 DEF Account
<1>3. /\ red' = [red EXCEPT ![o] = t.red]
      /\ pur' = [pur EXCEPT ![o] = t.pur]
      /\ points' = [points EXCEPT ![Owner[o]] = t.points]
      /\ reserved' = [reserved EXCEPT ![Owner[o]] = t.reserved]
      /\ ledger' = t.ledger
  BY DEF Commit
<1>4. Owner[o] \in Members /\ Cost[o] \in Nat
  BY OwnConstants
<1>5. /\ red \in [Orders -> RedStates] /\ pur \in [Orders -> PurchaseRow]
      /\ points \in [Members -> Int] /\ reserved \in [Members -> Nat]
  BY <1>1 DEF LoyaltyTypeOK
<1>6. t.reserved \in Nat
  <2>1. Sum(OtherHolds(o), Cost) \in Nat
    BY <1>1, OthersHold
  <2> QED
    BY <1>0, <1>4, <2>1 DEF HoldFits
<1>7. AccountsType'
  <2>1. IsFiniteSet(t.ledger) /\ t.ledger \subseteq LedgerEntry
    BY <1>2 DEF Ledgers
  <2> QED
    BY <1>2, <1>3, <1>4, <1>5, <1>6, <2>1 DEF AccountsType
<1>8. /\ red'[o] = t.red /\ pur'[o] = t.pur
      /\ \A x \in Orders \ {o} : red'[x] = red[x] /\ pur'[x] = pur[x]
  BY <1>3, <1>5
<1>9. AccountsFit'
  <2> SUFFICES ASSUME NEW x \in Orders
               PROVE  OrderFits(x, red'[x], pur'[x], t.ledger)
    BY <1>3 DEF AccountsFit, OrderFits, EntriesFit, RewardSums, SaleSums, OfIn
  <2>1. CASE x = o
    BY <1>0, <1>8, <2>1
  <2>2. CASE x # o
    <3>1. OrderFits(x, red[x], pur[x], ledger)
      BY <1>1 DEF AccountsFit
    <3>2. \A e \in t.ledger : e.src = x => e \in ledger
      BY <1>0, <2>2 DEF Grown
    <3>3. \A k : OfIn(t.ledger, x, k) = OfIn(ledger, x, k)
      BY <1>0, <3>2 DEF OfIn, Grown
    <3>4. EntriesFit(x, red[x], pur[x], t.ledger)
      BY <3>1, <3>2 DEF OrderFits, EntriesFit
    <3>5. RewardSums(x, red[x], t.ledger) /\ SaleSums(x, pur[x], t.ledger)
      BY <3>1, <3>3 DEF OrderFits, RewardSums, SaleSums
    <3> QED
      BY <1>8, <2>2, <3>4, <3>5 DEF OrderFits
  <2> QED
    BY <2>1, <2>2
<1>10. BalanceIsRebuilt'
  <2> SUFFICES ASSUME NEW m \in Members
               PROVE  /\ points'[m] = PointsIn(PostsIn(t.ledger, Credits, m))
                                        - PointsIn(PostsIn(t.ledger, Debits, m))
                      /\ reserved'[m] = Sum(Holds(m)', Cost)
    <3>1. \A kinds, m : Posts(kinds, m)' = PostsIn(t.ledger, kinds, m)
      BY <1>3 DEF Posts, PostsIn
    <3> QED
      BY <3>1 DEF BalanceIsRebuilt, PointsIn
  <2>1. CASE m = Owner[o]
    <3>1. points'[m] = t.points /\ reserved'[m] = t.reserved
      BY <1>3, <1>4, <1>5, <2>1
    <3>2. Holds(m)' = IF t.red \in HoldingStates THEN OtherHolds(o) \union {o} ELSE OtherHolds(o)
      BY <1>8, <2>1 DEF Holds, OtherHolds
    <3>3. /\ Sum(OtherHolds(o), Cost) \in Nat
          /\ Sum(OtherHolds(o) \union {o}, Cost) = Sum(OtherHolds(o), Cost) + Cost[o]
      <4>1. OtherHolds(o) \in SUBSET Orders /\ o \notin OtherHolds(o)
        BY DEF OtherHolds, Holds
      <4> QED
        BY <1>1, <4>1, OwnerHolds
    <3>4. reserved'[m] = Sum(Holds(m)', Cost)
      BY <1>0, <3>1, <3>2, <3>3 DEF HoldFits
    <3> QED
      BY <1>0, <2>1, <3>1, <3>4 DEF PointsFit
  <2>2. CASE m # Owner[o]
    <3>1. points'[m] = points[m] /\ reserved'[m] = reserved[m]
      BY <1>3, <1>5, <2>2
    <3>2. Holds(m)' = Holds(m)
      BY <1>8, <2>2 DEF Holds
    <3>3. \A kinds : PostsIn(t.ledger, kinds, m) = Posts(kinds, m)
      BY <1>0, <2>2 DEF Grown, PostsIn, Posts
    <3> QED
      BY <1>1, <3>1, <3>2, <3>3 DEF BalanceIsRebuilt
  <2> QED
    BY <2>1, <2>2
<1> QED
  BY <1>7, <1>8, <1>9, <1>10

-----------------------------------------------------------------------------
\* The decisions and the reconciliation of one order

\* The ways of a reward in one transaction.
RedMove(o, r, s) ==
    s # r => /\ r \notin {"none", "released", "restored"} /\ s # "none"
             /\ r = "consumed" => s = "restored" /\ Full(o)

\* What a transaction on the order commits.
Sound(o, t) ==
    /\ Fits(o, t)
    /\ t.pur.refunded <= order[o].refunded
    /\ RedMove(o, red[o], t.red)
    /\ pur[o] = NoPurchase /\ red[o] = "none" => t.pur = NoPurchase

LEMMA ReconcileSound ==
    ASSUME LoyaltyInv, NEW o \in Orders, NEW trusted \in BOOLEAN
    PROVE  /\ Sound(o, ReconcileInTx(o, trusted))
           /\ ReconcileInTx(o, trusted).pur.state = "completed"
              /\ pur[o].state # "completed" /\ ~trusted =>
                   ReconcileInTx(o, trusted).red # "released"
<1> DEFINE u == ReconcileInTx(o, trusted)
           verdict == Verdict(o, red[o] \in HoldingStates)
           r == FollowedRed(verdict, red[o])
<1>1. /\ Fits(o, Current(o)) /\ Current(o).red = red[o] /\ Current(o).pur = pur[o]
      /\ pur[o].refunded <= order[o].refunded
  BY CurrentFits
<1>2. CASE ~Tracked(o)
  <2>1. u = Current(o)
    BY <1>2 DEF ReconcileInTx
  <2> QED
    BY <1>1, <2>1 DEF Sound, RedMove
<1>3. CASE Tracked(o)
  <2>1. LoyaltyTypeOK
    BY DEF LoyaltyInv
  <2>2. verdict = Verdict(o, red[o] \in HoldingStates) /\ r = FollowedRed(verdict, red[o])
    OBVIOUS
  <2> HIDE DEF verdict, r
  <2>3. /\ Fits(o, u)
        /\ u.red = IF Full(o) /\ r = "consumed" THEN "restored" ELSE r
        /\ u.pur.state = FollowedState(o, verdict, r, pur[o].state, trusted)
        /\ u.pur.refunded <= order[o].refunded
    BY <1>1, <1>3, <2>1, <2>2, ReconcileFits
  <2> HIDE DEF u
  <2>4. RedMove(o, red[o], u.red)
    BY <2>2, <2>3 DEF RedMove, FollowedRed
  <2>5. ~(pur[o] = NoPurchase /\ red[o] = "none")
    BY <1>3 DEF Tracked, NoPurchase
  <2>6. u.pur.state = "completed" /\ pur[o].state # "completed" /\ ~trusted
           => u.red # "released"
    BY <2>3 DEF FollowedState, Outcome
  <2> QED
    BY <2>3, <2>4, <2>5, <2>6 DEF Sound, u
<1> QED
  BY <1>2, <1>3

\* What was refunded so far is taken into account.
Undoes(o, t) ==
    /\ t.pur.state = "completed" /\ order[o].refunded > 0 =>
         TakenBack(o, t.pur) /\ t.pur.refunded = order[o].refunded
    /\ Full(o) => t.red # "consumed"

\* resolveRedemption's transaction.
Resolved(o, spent) ==
    AfterDecisionInTx(o, IF spent THEN ConsumeInTx(o, Current(o))
                         ELSE ReleaseInTx(o, Current(o)))

LEMMA ResolveSound ==
    ASSUME LoyaltyInv, NEW o \in Orders, red[o] = "review", NEW spent \in BOOLEAN
    PROVE  /\ Sound(o, Resolved(o, spent))
           /\ Resolved(o, spent).pur.state = pur[o].state
           /\ Resolved(o, spent).red \in {"consumed", "released", "restored"}
           /\ Undoes(o, Resolved(o, spent))
<1> DEFINE c == Current(o)
           t == IF spent THEN ConsumeInTx(o, c) ELSE ReleaseInTx(o, c)
           u == AfterDecisionInTx(o, t)
<1>1. LoyaltyTypeOK
  BY DEF LoyaltyInv
<1>2. /\ Fits(o, c) /\ c.red = "review" /\ c.pur = pur[o]
      /\ c.pur.refunded <= order[o].refunded
  BY CurrentFits
<1> HIDE DEF c
<1>3. /\ Fits(o, t) /\ t.pur = pur[o] /\ t.red = IF spent THEN "consumed" ELSE "released"
  BY <1>1, <1>2, ConsumeFits, ReleaseFits
<1> HIDE DEF t
<1>4. /\ Fits(o, u) /\ u.pur.state = t.pur.state /\ u.pur.refunded <= order[o].refunded
      /\ u.red = IF Full(o) /\ t.red = "consumed" THEN "restored" ELSE t.red
      /\ order[o].refunded > 0 =>
           /\ TakenBack(o, u.pur)
           /\ u.pur.state = "completed" => u.pur.refunded = order[o].refunded
  BY <1>1, <1>2, <1>3, DecisionFits
<1>5. Resolved(o, spent) = u
  BY DEF Resolved, t, c
<1> HIDE DEF u
<1>6. Undoes(o, u)
  BY <1>4 DEF Undoes
<1> QED
  BY <1>3, <1>4, <1>5, <1>6 DEF Sound, RedMove

\* resolvePurchase's transaction, 'exclude'.
Excluded(o) == AfterDecisionInTx(o, [Current(o) EXCEPT !.pur.state = "excluded"])

LEMMA ExcludeSound ==
    ASSUME LoyaltyInv, NEW o \in Orders, pur[o].state = "review"
    PROVE  /\ Sound(o, Excluded(o))
           /\ Excluded(o).pur.state = "excluded"
           /\ Excluded(o).red \in {red[o], "restored"}
           /\ Undoes(o, Excluded(o))
<1> DEFINE c == Current(o)
           t == [c EXCEPT !.pur.state = "excluded"]
           u == AfterDecisionInTx(o, t)
<1>1. LoyaltyTypeOK /\ "excluded" \in PurStates \ {"completed"}
  BY DEF LoyaltyInv, PurStates
<1>2. /\ Fits(o, c) /\ c.red = red[o] /\ c.pur = pur[o]
      /\ c.pur.refunded <= order[o].refunded
  BY CurrentFits
<1> HIDE DEF c
<1>3. /\ Fits(o, t) /\ t.red = red[o] /\ t.pur.state = "excluded"
      /\ t.pur.refunded <= order[o].refunded
  BY <1>1, <1>2, StatedFits
<1> HIDE DEF t
<1>4. /\ Fits(o, u) /\ u.pur.state = t.pur.state /\ u.pur.refunded <= order[o].refunded
      /\ u.red = IF Full(o) /\ t.red = "consumed" THEN "restored" ELSE t.red
      /\ order[o].refunded > 0 =>
           /\ TakenBack(o, u.pur)
           /\ u.pur.state = "completed" => u.pur.refunded = order[o].refunded
  BY <1>1, <1>3, DecisionFits
<1>5. Excluded(o) = u
  BY DEF Excluded, t, c
<1>6. pur[o] # NoPurchase
  BY DEF NoPurchase
<1> HIDE DEF u
<1>7. Undoes(o, u)
  BY <1>4 DEF Undoes
<1> QED
  BY <1>3, <1>4, <1>5, <1>6, <1>7 DEF Sound, RedMove

\* What the second transaction of a parking leaves.
Parked(o) ==
    LET t == ReviewRedemptionInTx(Current(o))
    IN  IF t.pur.state \in Unsettled THEN [t EXCEPT !.pur.state = "review"] ELSE t

LEMMA ParkSound ==
    ASSUME LoyaltyInv, NEW o \in Orders
    PROVE  /\ Sound(o, Parked(o))
           /\ Parked(o).red = IF red[o] = "bound" THEN "review" ELSE red[o]
           /\ Parked(o).pur.state =
                IF pur[o].state \in Unsettled THEN "review" ELSE pur[o].state
           /\ pur[o].state \notin Unsettled => Parked(o).pur = pur[o]
<1> DEFINE c == Current(o)
           t == ReviewRedemptionInTx(c)
           u == IF t.pur.state \in Unsettled THEN [t EXCEPT !.pur.state = "review"] ELSE t
<1>1. LoyaltyTypeOK /\ "review" \in PurStates \ {"completed"}
  BY DEF LoyaltyInv, PurStates
<1>2. /\ Fits(o, c) /\ c.red = red[o] /\ c.pur = pur[o]
      /\ c.pur.refunded <= order[o].refunded
  BY CurrentFits
<1>3. Parked(o) = u
  BY DEF Parked
<1> HIDE DEF c
<1>4. /\ Fits(o, t) /\ t.pur = pur[o] /\ t.red = IF red[o] = "bound" THEN "review" ELSE red[o]
  BY <1>1, <1>2, ReviewFits
<1> HIDE DEF t
<1>5. CASE t.pur.state \in Unsettled
  <2>1. t.pur.state # "completed" /\ t.pur.state # "none"
    BY <1>5 DEF Unsettled
  <2>2. pur[o] # NoPurchase
    BY <1>4, <2>1 DEF NoPurchase
  <2>3. /\ Fits(o, u) /\ u.red = t.red /\ u.pur.state = "review"
        /\ u.pur.refunded = t.pur.refunded
    BY <1>1, <1>4, <1>5, <2>1, StatedFits
  <2> HIDE DEF u
  <2> QED
    BY <1>2, <1>3, <1>4, <1>5, <2>2, <2>3 DEF Sound, RedMove
<1>6. CASE t.pur.state \notin Unsettled
  BY <1>2, <1>3, <1>4, <1>6 DEF Sound, RedMove
<1> QED
  BY <1>5, <1>6

-----------------------------------------------------------------------------
\* A new order

\* Before an order is placed nothing is on it.
LEMMA NotPlaced ==
    ASSUME LoyaltyInv, NEW o \in Orders, order[o].status = "none"
    PROVE  /\ red[o] = "none" /\ pur[o] = NoPurchase
           /\ Claimed(o) \in PurchaseRow
           /\ Claimed(o).state # "completed" /\ Claimed(o).awarded = 0
           /\ Claimed(o).reversed = 0 /\ Claimed(o).refunded = 0
<1>1. red[o] = "none" /\ pur[o] = NoPurchase
  BY DEF LoyaltyInv, RefundsKnown
<1>2. [NoPurchase EXCEPT !.state = "open"] =
        [state |-> "open", awarded |-> 0, reversed |-> 0, refunded |-> 0]
  BY DEF NoPurchase
<1> QED
  BY <1>1, <1>2 DEF Claimed, NoPurchase, PurchaseRow, PurStates

LEMMA ClaimFits ==
    ASSUME LoyaltyInv, NEW o \in Orders, order[o].status = "none"
    PROVE  Fits(o, Buying(Current(o), Claimed(o)))
<1>1. Fits(o, Current(o)) /\ Current(o).pur = NoPurchase
  BY CurrentFits, NotPlaced
<1>2. Current(o).pur.awarded = 0 /\ Current(o).pur.reversed = 0 /\ Current(o).pur.state = "none"
  BY <1>1 DEF NoPurchase
<1> QED
  BY <1>1, <1>2, NotPlaced, BoughtFits

LEMMA PlaceCommits ==
    ASSUME LoyaltyInv, NEW o \in Orders, NEW m \in Methods, Place(o, m)
    PROVE  Commit(o, Buying(Current(o), Claimed(o)))
<1> DEFINE c == Current(o)
           t == Buying(c, Claimed(o))
<1>1. order[o].status = "none" /\ pur' = [pur EXCEPT ![o] = Claimed(o)]
      /\ UNCHANGED <<red, points, reserved, ledger>>
  BY DEF Place, PlaceOrder
<1>2. /\ c.red = red[o] /\ c.points = points[Owner[o]]
      /\ c.reserved = reserved[Owner[o]] /\ c.ledger = ledger
  BY DEF Current
<1>3. c \in Account /\ Claimed(o) \in PurchaseRow
  BY <1>1, CurrentFits, NotPlaced DEF Fits
<1> HIDE DEF c
<1>4. /\ t.pur = Claimed(o) /\ t.red = red[o] /\ t.points = points[Owner[o]]
      /\ t.reserved = reserved[Owner[o]] /\ t.ledger = ledger
  BY <1>2, <1>3, Bought
<1> HIDE DEF t
<1>5. /\ red \in [Orders -> RedStates] /\ points \in [Members -> Int]
      /\ reserved \in [Members -> Nat]
  BY DEF LoyaltyInv, LoyaltyTypeOK
<1>6. Commit(o, t)
  BY <1>1, <1>4, <1>5 DEF Commit
<1> QED
  BY <1>6 DEF t, c

\* The account of an order placed with a reward.
WithReward(o) ==
    Rewarding(Buying(Current(o), Claimed(o)), "bound", reserved[Owner[o]] + Cost[o])

LEMMA RewardFits ==
    ASSUME LoyaltyInv, NEW o \in Orders, order[o].status = "none"
    PROVE  /\ Fits(o, WithReward(o))
           /\ WithReward(o).red = "bound" /\ WithReward(o).pur = Claimed(o)
           /\ WithReward(o).points = points[Owner[o]]
           /\ WithReward(o).reserved = reserved[Owner[o]] + Cost[o]
           /\ WithReward(o).ledger = ledger
<1> DEFINE c == Current(o)
           v == Buying(c, Claimed(o))
           n == reserved[Owner[o]] + Cost[o]
           t == Rewarding(v, "bound", n)
<1>1. LoyaltyTypeOK /\ Owner[o] \in Members /\ Cost[o] \in Nat
  BY OwnConstants DEF LoyaltyInv
<1>2. reserved[Owner[o]] \in Nat
  BY <1>1 DEF LoyaltyTypeOK
<1>3. /\ c.red = "none" /\ c.points = points[Owner[o]]
      /\ c.reserved = reserved[Owner[o]] /\ c.ledger = ledger
  BY NotPlaced DEF Current
<1>4. c \in Account /\ Claimed(o) \in PurchaseRow
  BY CurrentFits, NotPlaced DEF Fits
<1>5. Fits(o, v)
  BY ClaimFits
<1> HIDE DEF c
<1>6. /\ v \in Account /\ v.pur = Claimed(o) /\ v.red = "none" /\ v.points = points[Owner[o]]
      /\ v.reserved = reserved[Owner[o]] /\ v.ledger = ledger
  BY <1>3, <1>4, Bought
<1> HIDE DEF v
<1>7. n \in Int /\ n = v.reserved + Cost[o] /\ "bound" \in RedStates
  BY <1>1, <1>2, <1>6 DEF RedStates
<1> HIDE DEF n
<1>8. /\ t \in Account /\ t.red = "bound" /\ t.reserved = n /\ t.pur = v.pur
      /\ t.points = v.points /\ t.ledger = v.ledger
  BY <1>6, <1>7, Rewarded
<1> HIDE DEF t
<1>9. /\ OrderFits(o, v.red, v.pur, v.ledger) /\ PointsFit(o, v)
      /\ HoldFits(o, v) /\ Grown(o, v)
  BY <1>5 DEF Fits
<1>10. OrderFits(o, t.red, t.pur, t.ledger)
  BY <1>6, <1>8, <1>9 DEF OrderFits, EntriesFit, RewardSums, SaleSums
<1>11. PointsFit(o, t) /\ Grown(o, t)
  BY <1>8, <1>9 DEF PointsFit, Grown
<1>12. HoldFits(o, t)
  <2>1. Sum(OtherHolds(o), Cost) \in Nat
    BY <1>1, OthersHold
  <2> QED
    BY <1>1, <1>6, <1>7, <1>8, <1>9, <2>1 DEF HoldFits
<1>13. Fits(o, t)
  BY <1>8, <1>10, <1>11, <1>12 DEF Fits
<1>14. WithReward(o) = t /\ n = reserved[Owner[o]] + Cost[o]
  BY DEF WithReward, t, v, c, n
<1> QED
  BY <1>6, <1>8, <1>13, <1>14

LEMMA RewardCommits ==
    ASSUME LoyaltyInv, NEW o \in Orders, NEW m \in Methods, PlaceWithReward(o, m)
    PROVE  Commit(o, WithReward(o))
<1>1. /\ order[o].status = "none" /\ pur' = [pur EXCEPT ![o] = Claimed(o)]
      /\ red' = [red EXCEPT ![o] = "bound"]
      /\ reserved' = [reserved EXCEPT ![Owner[o]] = @ + Cost[o]]
      /\ UNCHANGED <<points, ledger>>
  BY DEF PlaceWithReward, PlaceOrder
<1>2. /\ WithReward(o).red = "bound" /\ WithReward(o).pur = Claimed(o)
      /\ WithReward(o).points = points[Owner[o]]
      /\ WithReward(o).reserved = reserved[Owner[o]] + Cost[o]
      /\ WithReward(o).ledger = ledger
  BY <1>1, RewardFits
<1>3. points \in [Members -> Int] /\ reserved \in [Members -> Nat] /\ Owner[o] \in Members
  BY OwnConstants DEF LoyaltyInv, LoyaltyTypeOK
<1> QED
  BY <1>1, <1>2, <1>3 DEF Commit

-----------------------------------------------------------------------------
\* A manual adjustment

LEMMA AccountsStay ==
    ASSUME red' = red, pur' = pur,
           \A o \in Orders : OrderFits(o, red[o], pur[o], ledger')
    PROVE  AccountsFit'
  BY DEF AccountsFit, OrderFits, EntriesFit, RewardSums, SaleSums, OfIn

LEMMA AdjustFits ==
    ASSUME LoyaltyInv, NEW m \in Members, NEW k \in AdjustKeys, NEW d \in AdjustDeltas,
           AdjustPoints(m, k, d)
    PROVE  /\ AccountsType' /\ AccountsFit' /\ BalanceIsRebuilt'
           /\ red' = red /\ pur' = pur
<1> DEFINE e == [kind |-> IF d > 0 THEN "credit" ELSE "debit", src |-> k,
                 nth |-> 0, member |-> m, points |-> IF d > 0 THEN d ELSE -d]
           s == [ledger |-> ledger, points |-> points[m]]
<1>1. d \in Int /\ k \notin Orders
  BY LoyaltyAssumption
<1>2. /\ e \in LedgerEntry /\ e.src = k /\ e.member = m /\ e.points \in Nat
      /\ e.kind \in {"credit", "debit"}
  BY <1>1 DEF LedgerEntry, Credits, Debits
<1>3. /\ ledger' = PostInTx(s, e).ledger
      /\ points' = [points EXCEPT ![m] = PostInTx(s, e).points]
      /\ red' = red /\ pur' = pur /\ reserved' = reserved
  BY DEF AdjustPoints
<1>4. s.ledger = ledger /\ s.points = points[m]
  OBVIOUS
<1>5. /\ AccountsType /\ ledger \in Ledgers /\ AccountsFit /\ BalanceIsRebuilt
      /\ points \in [Members -> Int]
  BY DEF LoyaltyInv, LoyaltyTypeOK, AccountsType, Ledgers
<1>6. CASE Posted(s, e)
  <2>1. PostInTx(s, e) = s
    BY <1>6 DEF PostInTx
  <2> HIDE DEF e, s
  <2>2. ledger' = ledger /\ points' = points
    BY <1>3, <1>4, <1>5, <2>1
  <2>3. AccountsType'
    BY <1>3, <1>5, <2>2 DEF AccountsType
  <2>4. AccountsFit'
    BY <1>3, <1>5, <2>2, AccountsStay DEF AccountsFit
  <2>5. \A x \in Members : Holds(x)' = Holds(x)
    BY <1>3 DEF Holds
  <2>6. BalanceIsRebuilt'
    BY <1>3, <1>5, <2>2, <2>5 DEF BalanceIsRebuilt, Posts, PointsIn
  <2> QED
    BY <1>3, <2>3, <2>4, <2>6
<1>7. CASE ~Posted(s, e)
  <2>1. PostInTx(s, e).ledger = ledger \union {e} /\ PostInTx(s, e).points = points[m] + Delta(e)
    BY <1>7 DEF PostInTx
  <2>2. e \notin ledger
    BY <1>7 DEF Posted, SameKey
  <2> HIDE DEF e, s
  <2>3. /\ ledger' = ledger \union {e}
        /\ points' = [points EXCEPT ![m] = points[m] + Delta(e)]
    BY <1>3, <2>1
  <2>4. Delta(e) \in Int /\ Delta(e) = IF e.kind \in Credits THEN e.points ELSE -e.points
    BY <1>2 DEF Delta
  <2>5. /\ ledger \union {e} \in Ledgers
        /\ \A kinds, x :
             PointsIn(PostsIn(ledger \union {e}, kinds, x)) =
               PointsIn(PostsIn(ledger, kinds, x))
                 + (IF e.kind \in kinds /\ e.member = x THEN e.points ELSE 0)
    BY <1>2, <1>5, <2>2, EntryAdds
  <2>6. AccountsType'
    BY <1>3, <1>5, <2>3, <2>4, <2>5 DEF AccountsType, Ledgers
  <2>7. AccountsFit'
    <3> SUFFICES ASSUME NEW o \in Orders
                 PROVE  OrderFits(o, red[o], pur[o], ledger \union {e})
      BY <1>3, <2>3, AccountsStay
    <3>1. OrderFits(o, red[o], pur[o], ledger)
      BY <1>5 DEF AccountsFit
    <3>2. e.src # o
      BY <1>1, <1>2
    <3>3. \A kind : OfIn(ledger \union {e}, o, kind) = OfIn(ledger, o, kind)
      BY <3>2 DEF OfIn
    <3>4. EntriesFit(o, red[o], pur[o], ledger \union {e})
      BY <3>1, <3>2 DEF OrderFits, EntriesFit
    <3>5. RewardSums(o, red[o], ledger \union {e}) /\ SaleSums(o, pur[o], ledger \union {e})
      BY <3>1, <3>3 DEF OrderFits, RewardSums, SaleSums
    <3> QED
      BY <3>4, <3>5 DEF OrderFits
  <2>8. BalanceIsRebuilt'
    <3> SUFFICES ASSUME NEW x \in Members
                 PROVE  /\ points'[x] = PointsIn(PostsIn(ledger \union {e}, Credits, x))
                                          - PointsIn(PostsIn(ledger \union {e}, Debits, x))
                        /\ reserved'[x] = Sum(Holds(x)', Cost)
      <4>1. \A kinds, x : Posts(kinds, x)' = PostsIn(ledger \union {e}, kinds, x)
        BY <2>3 DEF Posts, PostsIn
      <4> QED
        BY <4>1 DEF BalanceIsRebuilt, PointsIn
    <3>1. /\ points[x] = PointsIn(PostsIn(ledger, Credits, x))
                           - PointsIn(PostsIn(ledger, Debits, x))
          /\ reserved[x] = Sum(Holds(x), Cost)
      <4>1. \A kinds : Posts(kinds, x) = PostsIn(ledger, kinds, x)
        BY DEF Posts, PostsIn
      <4> QED
        BY <1>5, <4>1 DEF BalanceIsRebuilt
    <3>2. Holds(x)' = Holds(x)
      BY <1>3 DEF Holds
    <3>3. /\ PointsIn(PostsIn(ledger, Credits, x)) \in Nat
          /\ PointsIn(PostsIn(ledger, Debits, x)) \in Nat
      BY <1>5, LedgerParts, EntryPoints
    <3>4. e.kind \in Credits <=> e.kind \notin Debits
      BY <1>2 DEF Credits, Debits
    <3>5. points'[x] = points[x] + (IF x = m THEN Delta(e) ELSE 0)
      BY <1>5, <2>3, <2>4
    <3> DEFINE in == PointsIn(PostsIn(ledger, Credits, x))
               out == PointsIn(PostsIn(ledger, Debits, x))
    <3>6. /\ PointsIn(PostsIn(ledger \union {e}, Credits, x))
               = in + (IF e.kind \in Credits /\ e.member = x THEN e.points ELSE 0)
          /\ PointsIn(PostsIn(ledger \union {e}, Debits, x))
               = out + (IF e.kind \in Debits /\ e.member = x THEN e.points ELSE 0)
      BY <2>5, Zenon
    <3> HIDE DEF in, out
    <3>7. in \in Nat /\ out \in Nat /\ points[x] = in - out /\ e.member = m /\ e.points \in Nat
      BY <1>2, <3>1, <3>3 DEF in, out
    <3>8. points'[x] = PointsIn(PostsIn(ledger \union {e}, Credits, x))
                         - PointsIn(PostsIn(ledger \union {e}, Debits, x))
      BY <2>4, <3>4, <3>5, <3>6, <3>7
    <3> QED
      BY <1>3, <3>1, <3>2, <3>8
  <2> QED
    BY <1>3, <2>6, <2>7, <2>8
<1> QED
  BY <1>6, <1>7

-----------------------------------------------------------------------------
\* Every step

\* Loyalty only watches the orders: each step is one of the order lifecycle.
LEMMA OrdersStep == ASSUME [LoyaltyNext]_vars PROVE [OrdersNext]_orderVars
<1>1. CASE OrderHandlers
  BY <1>1 DEF OrderHandlers, OrdersNext, Sweep, Place, PlaceWithReward, Bind, PaidArrives,
              EndedByProvider, Operate, Refund
<1>2. CASE Reconciliation
  BY <1>2 DEF Reconciliation, Crash, ClaimRow, Reconcile, ReconcileFails, ParkReview,
              ListTimed, QueueTimed
<1>3. CASE Decisions
  BY <1>3 DEF Decisions, ResolveRedemption, ExcludePurchase, AwardPurchase, Requeue,
              AdjustPoints, SetMemberStatus
<1>4. CASE \E o \in Orders : Environment(o)
  BY <1>4 DEF OrdersNext
<1>5. CASE UNCHANGED vars
  BY <1>5 DEF vars
<1> QED
  BY <1>1, <1>2, <1>3, <1>4, <1>5 DEF LoyaltyNext

\* What it sees of them.
LEMMA RowMoves ==
    ASSUME LoyaltyInv, [LoyaltyNext]_vars
    PROVE  /\ OrdersTypeOK' /\ MoneyInv'
           /\ \A o \in Orders :
                /\ order'[o].refunded >= order[o].refunded
                /\ order'[o].status = "none" => order[o].status = "none"
<1>1. OrdersTypeOK /\ MoneyInv /\ [OrdersNext]_orderVars
  BY OrdersStep DEF LoyaltyInv, LoyaltyTypeOK
<1>2. OrdersTypeOK' /\ MoneyInv'
  BY <1>1, OrdersTypeStep, MoneyStep
<1>3. ASSUME NEW o \in Orders PROVE order'[o].refunded >= order[o].refunded
  BY <1>1, <1>2, MoneyKept
<1>4. ASSUME NEW o \in Orders, order'[o].status = "none" PROVE order[o].status = "none"
  <2>1. RowStep(o) /\ order[o] \in OrderRow
    BY <1>1, RowSteps DEF OrdersTypeOK
  <2>2. /\ Swept[o] \in OrderRow
        /\ order[o].status # "none" => Swept[o].status # "none"
    BY <1>1, SweptRows
  <2>3. ~Placed(o)
    <3>1. \A m \in Methods : NewOrder(o, m).status = "accepted"
      BY DEF NewOrder
    <3> QED
      BY <1>4, <3>1 DEF Placed
  <2>4. CASE Bound(o) \/ RefundTaken(o)
    BY <1>4, <2>1, <2>2, <2>4 DEF Bound, RefundTaken, OrderRow
  <2>5. CASE PaidNow(o) \/ Ended(o)
    BY <1>4, <2>1, <2>2, <2>5 DEF PaidNow, Ended, OrderRow
  <2>6. CASE Operated(o)
    <3>1. PICK to \in Statuses, pay \in Payments :
            /\ to = Swept[o].status \/ to # "none"
            /\ order'[o] = [Swept[o] EXCEPT !.status = to, !.payment = pay]
      <4>1. \A from : "none" \notin OperatorTransitions(from)
        BY DEF OperatorTransitions
      <4> QED
        BY <2>6, <4>1 DEF Operated
    <3>2. order'[o].status = to
      BY <2>2, <3>1 DEF OrderRow
    <3> QED
      BY <1>4, <2>2, <3>1, <3>2
  <2> QED
    BY <1>4, <2>1, <2>2, <2>3, <2>4, <2>5, <2>6 DEF RowStep
<1> QED
  BY <1>2, <1>3, <1>4

\* The steps as far as the accounts see them: they stay, an order is placed,
\* one order's account is written, or a balance is adjusted by hand.
Settles(o) ==
    \E t : /\ Sound(o, t)
           /\ Commit(o, t)
           /\ (t.pur.state = "completed" /\ pur[o].state # "completed"
                 /\ t.red = "released") => pur[o].state = "review"

Opens(o) ==
    /\ order[o].status = "none" /\ order'[o].status = "accepted"
    /\ \E t : /\ Fits(o, t) /\ Commit(o, t) /\ t.pur = Claimed(o)

AccountStep ==
    \/ UNCHANGED accountVars
    \/ \E o \in Orders : Opens(o)
    \/ UNCHANGED order /\ \E o \in Orders : Settles(o)
    \/ UNCHANGED order /\ \E m \in Members, k \in AdjustKeys, d \in AdjustDeltas :
                            AdjustPoints(m, k, d)

LEMMA PlacedRow ==
    ASSUME LoyaltyInv, NEW o \in Orders, NEW m \in Methods, PlaceOrder(o, m)
    PROVE  order[o].status = "none" /\ order'[o].status = "accepted"
<1>1. Swept \in [Orders -> OrderRow]
  BY SweptRows DEF LoyaltyInv, LoyaltyTypeOK
<1> QED
  BY <1>1 DEF PlaceOrder, NewOrder

LEMMA HandlerSteps ==
    ASSUME LoyaltyInv, OrderHandlers
    PROVE  AccountStep
<1>1. ASSUME NEW o \in Orders, NEW m \in Methods, Place(o, m) PROVE Opens(o)
  <2> DEFINE t == Buying(Current(o), Claimed(o))
  <2>1. order[o].status = "none" /\ order'[o].status = "accepted"
    BY <1>1, PlacedRow DEF Place
  <2>2. Fits(o, t) /\ Commit(o, t)
    BY <1>1, <2>1, ClaimFits, PlaceCommits
  <2>3. t.pur = Claimed(o)
    BY <2>1, NotPlaced, CurrentFits, Bought DEF Fits
  <2> HIDE DEF t
  <2> QED
    BY <2>1, <2>2, <2>3 DEF Opens
<1>2. ASSUME NEW o \in Orders, NEW m \in Methods, PlaceWithReward(o, m) PROVE Opens(o)
  <2>1. order[o].status = "none" /\ order'[o].status = "accepted"
    BY <1>2, PlacedRow DEF PlaceWithReward
  <2>2. /\ Fits(o, WithReward(o)) /\ Commit(o, WithReward(o))
        /\ WithReward(o).pur = Claimed(o)
    BY <1>2, <2>1, RewardFits, RewardCommits
  <2> QED
    BY <2>1, <2>2 DEF Opens
<1>3. CASE \E S : QueueAndSettle(S)
  BY <1>3 DEF QueueAndSettle, AccountStep, accountVars
<1> QED
  BY <1>1, <1>2, <1>3 DEF OrderHandlers, AccountStep, Sweep, Bind, PaidArrives,
                          EndedByProvider, Operate, Refund

LEMMA ReconciliationSteps ==
    ASSUME LoyaltyInv, Reconciliation
    PROVE  AccountStep
<1>1. ASSUME NEW w \in Settlers, NEW o \in Orders, Reconcile(w, o) PROVE AccountStep
  <2> DEFINE t == ReconcileInTx(o, FALSE)
  <2>1. Commit(o, t) /\ UNCHANGED order
    BY <1>1 DEF Reconcile, orderVars
  <2>2. Sound(o, t) /\ (t.pur.state = "completed" /\ pur[o].state # "completed"
                          => t.red # "released")
    BY ReconcileSound
  <2> HIDE DEF t
  <2>3. Settles(o)
    BY <2>1, <2>2 DEF Settles
  <2> QED
    BY <2>1, <2>3 DEF AccountStep
<1>2. ASSUME NEW o \in Orders, ParkReview(o) PROVE AccountStep
  <2>1. Commit(o, Parked(o)) /\ UNCHANGED order
    BY <1>2 DEF ParkReview, Parked, orderVars
  <2>2. Sound(o, Parked(o)) /\ (Parked(o).pur.state = "completed" => pur[o].state = "completed")
    BY ParkSound
  <2>3. Settles(o)
    BY <2>1, <2>2 DEF Settles
  <2> QED
    BY <2>1, <2>3 DEF AccountStep
<1> QED
  BY <1>1, <1>2 DEF Reconciliation, AccountStep, Crash, ClaimRow, ReconcileFails,
                    ListTimed, QueueTimed

LEMMA DecisionSteps ==
    ASSUME LoyaltyInv, Decisions
    PROVE  AccountStep
<1>1. ASSUME NEW o \in Orders, NEW spent \in BOOLEAN, ResolveRedemption(o, spent)
      PROVE  AccountStep
  <2>1. Commit(o, Resolved(o, spent)) /\ UNCHANGED order /\ red[o] = "review"
    BY <1>1 DEF ResolveRedemption, Resolved, orderVars
  <2>2. Sound(o, Resolved(o, spent)) /\ Resolved(o, spent).pur.state = pur[o].state
    BY <2>1, ResolveSound
  <2>3. Settles(o)
    BY <2>1, <2>2 DEF Settles
  <2> QED
    BY <2>1, <2>3 DEF AccountStep
<1>2. ASSUME NEW o \in Orders, ExcludePurchase(o) PROVE AccountStep
  <2>1. Commit(o, Excluded(o)) /\ UNCHANGED order /\ pur[o].state = "review"
    BY <1>2 DEF ExcludePurchase, Excluded, orderVars
  <2>2. Sound(o, Excluded(o))
    BY <2>1, ExcludeSound
  <2>3. Settles(o)
    BY <2>1, <2>2 DEF Settles
  <2> QED
    BY <2>1, <2>3 DEF AccountStep
<1>3. ASSUME NEW o \in Orders, AwardPurchase(o) PROVE AccountStep
  <2> DEFINE t == ReconcileInTx(o, TRUE)
  <2>1. Commit(o, t) /\ UNCHANGED order /\ pur[o].state = "review"
    BY <1>3 DEF AwardPurchase, orderVars
  <2>2. Sound(o, t)
    BY ReconcileSound
  <2> HIDE DEF t
  <2>3. Settles(o)
    BY <2>1, <2>2 DEF Settles
  <2> QED
    BY <2>1, <2>3 DEF AccountStep
<1>4. ASSUME NEW m \in Members, NEW k \in AdjustKeys, NEW d \in AdjustDeltas,
             AdjustPoints(m, k, d)
      PROVE  AccountStep
  BY <1>4 DEF AccountStep, AdjustPoints, orderVars
<1> QED
  BY <1>1, <1>2, <1>3, <1>4 DEF Decisions, AccountStep, Requeue, SetMemberStatus

LEMMA AccountSteps ==
    ASSUME LoyaltyInv, [LoyaltyNext]_vars
    PROVE  AccountStep
  BY HandlerSteps, ReconciliationSteps, DecisionSteps
     DEF LoyaltyNext, AccountStep, vars, loyaltyVars

\* What holds of the accounts after any step, and how a reward moves.
LEMMA AccountsKept ==
    ASSUME LoyaltyInv, [LoyaltyNext]_vars
    PROVE  /\ AccountsType' /\ AccountsFit' /\ BalanceIsRebuilt' /\ RefundsKnown'
           /\ RewardStep /\ EarnStep
<1>1. /\ OrdersTypeOK' /\ MoneyInv'
      /\ \A o \in Orders :
           /\ order'[o].refunded >= order[o].refunded
           /\ order'[o].status = "none" => order[o].status = "none"
  BY RowMoves
<1>2. /\ LoyaltyTypeOK /\ AccountsType /\ AccountsFit /\ BalanceIsRebuilt /\ RefundsKnown
  BY DEF LoyaltyInv, LoyaltyTypeOK, AccountsType
<1>3. \A o \in Orders : order[o].refunded \in Nat /\ order'[o].refunded \in Nat
                        /\ pur[o] \in PurchaseRow
  BY <1>1, <1>2 DEF LoyaltyTypeOK, OrdersTypeOK, OrderRow
<1>4. ASSUME red' = red, pur' = pur
      PROVE  RefundsKnown' /\ RewardStep /\ EarnStep
  <2>1. RefundsKnown'
    BY <1>1, <1>2, <1>3, <1>4 DEF RefundsKnown, PurchaseRow
  <2> QED
    BY <1>4, <2>1 DEF RewardStep, EarnStep
<1>5. CASE UNCHANGED accountVars
  <2>1. UNCHANGED <<red, pur, points, reserved, ledger>>
    BY <1>5 DEF accountVars
  <2>2. AccountsType'
    BY <1>2, <2>1 DEF AccountsType
  <2>3. AccountsFit'
    BY <1>2, <2>1, AccountsStay DEF AccountsFit
  <2>4. BalanceIsRebuilt'
    BY <1>2, <2>1 DEF BalanceIsRebuilt, Posts, Holds
  <2> QED
    BY <1>4, <2>1, <2>2, <2>3, <2>4
<1>6. ASSUME NEW o \in Orders, Opens(o)
      PROVE  /\ AccountsType' /\ AccountsFit' /\ BalanceIsRebuilt' /\ RefundsKnown'
             /\ RewardStep /\ EarnStep
  <2>1. PICK t : Fits(o, t) /\ Commit(o, t) /\ t.pur = Claimed(o)
    BY <1>6 DEF Opens
  <2>2. order[o].status = "none" /\ order'[o].status = "accepted"
    BY <1>6 DEF Opens
  <2>3. /\ AccountsType' /\ AccountsFit' /\ BalanceIsRebuilt'
        /\ red'[o] = t.red /\ pur'[o] = t.pur
        /\ \A x \in Orders \ {o} : red'[x] = red[x] /\ pur'[x] = pur[x]
    BY <2>1, CommitFits
  <2>4. /\ red[o] = "none" /\ Claimed(o).state # "completed"
        /\ Claimed(o).refunded = 0
    BY <2>2, NotPlaced
  <2>5. RefundsKnown'
    <3> SUFFICES ASSUME NEW x \in Orders
                 PROVE  /\ pur'[x].refunded <= order'[x].refunded
                        /\ order'[x].status = "none" =>
                             red'[x] = "none" /\ pur'[x] = NoPurchase
      BY DEF RefundsKnown
    <3>1. CASE x = o
      BY <1>3, <2>1, <2>2, <2>3, <2>4, <3>1
    <3>2. CASE x # o
      BY <1>1, <1>2, <1>3, <2>3, <3>2 DEF RefundsKnown, PurchaseRow
    <3> QED
      BY <3>1, <3>2
  <2>6. RewardStep /\ EarnStep
    BY <2>1, <2>3, <2>4 DEF RewardStep, EarnStep
  <2> QED
    BY <2>3, <2>5, <2>6
<1>7. ASSUME NEW o \in Orders, Settles(o), UNCHANGED order
      PROVE  /\ AccountsType' /\ AccountsFit' /\ BalanceIsRebuilt' /\ RefundsKnown'
             /\ RewardStep /\ EarnStep
  <2>1. PICK t : /\ Sound(o, t) /\ Commit(o, t)
                 /\ (t.pur.state = "completed" /\ pur[o].state # "completed"
                       /\ t.red = "released") => pur[o].state = "review"
    BY <1>7 DEF Settles
  <2>2. /\ Fits(o, t) /\ t.pur.refunded <= order[o].refunded
        /\ RedMove(o, red[o], t.red)
        /\ pur[o] = NoPurchase /\ red[o] = "none" => t.pur = NoPurchase
    BY <2>1 DEF Sound
  <2>3. /\ AccountsType' /\ AccountsFit' /\ BalanceIsRebuilt'
        /\ red'[o] = t.red /\ pur'[o] = t.pur
        /\ \A x \in Orders \ {o} : red'[x] = red[x] /\ pur'[x] = pur[x]
    BY <2>1, <2>2, CommitFits
  <2>4. RefundsKnown'
    <3> SUFFICES ASSUME NEW x \in Orders
                 PROVE  /\ pur'[x].refunded <= order[x].refunded
                        /\ order[x].status = "none" =>
                             red'[x] = "none" /\ pur'[x] = NoPurchase
      BY <1>7 DEF RefundsKnown
    <3>1. CASE x = o
      BY <1>2, <2>2, <2>3, <3>1 DEF RefundsKnown, RedMove
    <3>2. CASE x # o
      BY <1>2, <2>3, <3>2 DEF RefundsKnown
    <3> QED
      BY <3>1, <3>2
  <2>5. EarnStep
    BY <2>1, <2>3 DEF EarnStep
  <2>6. RewardStep
    <3>1. Full(o) => order[o].refunded = Total[o] /\ Total[o] > 0
      BY <1>2, RowIs DEF Full
    <3> QED
      BY <2>2, <2>3, <3>1 DEF RewardStep, RedMove
  <2> QED
    BY <2>3, <2>4, <2>5, <2>6
<1>8. ASSUME NEW m \in Members, NEW k \in AdjustKeys, NEW d \in AdjustDeltas,
             AdjustPoints(m, k, d)
      PROVE  /\ AccountsType' /\ AccountsFit' /\ BalanceIsRebuilt' /\ RefundsKnown'
             /\ RewardStep /\ EarnStep
  BY <1>4, <1>8, AdjustFits
<1> QED
  BY <1>5, <1>6, <1>7, <1>8, AccountSteps DEF AccountStep

-----------------------------------------------------------------------------
\* The outbox and what the processes remember

\* A row that is still due has attempts left.
DueRow == {row \in OutboxRow : row.status = "pending" => row.attempts < MaxAttempts}

QueueInv ==
    /\ member \in [Members -> MemberStatuses]
    /\ outbox \in [Orders -> DueRow]
    /\ settling \in [Settlers -> SUBSET Orders]
    /\ parking \subseteq Orders
    /\ listed \subseteq Orders

LEMMA DueRows ==
    ASSUME QueueInv
    PROVE  /\ \A S : Queued(S) \in [Orders -> DueRow]
           /\ \A o \in Orders, s \in OutboxStatuses \ {"pending"} :
                [outbox EXCEPT ![o].status = s] \in [Orders -> DueRow]
           /\ \A o \in Orders : [outbox EXCEPT ![o].status = @] = outbox
<1>1. MaxAttempts \in Nat \ {0} /\ outbox \in [Orders -> DueRow]
  BY LoyaltyAssumption DEF QueueInv
<1>2. Pending \in DueRow
  BY <1>1 DEF Pending, NoRow, DueRow, OutboxRow, OutboxStatuses
<1>3. \A S : Queued(S) \in [Orders -> DueRow]
  BY <1>1, <1>2 DEF Queued
<1>4. ASSUME NEW o \in Orders, NEW s \in OutboxStatuses \ {"pending"}
      PROVE  [outbox EXCEPT ![o].status = s] \in [Orders -> DueRow]
  <2>1. [outbox[o] EXCEPT !.status = s] \in DueRow
    BY <1>1, <1>4 DEF DueRow, OutboxRow
  <2> QED
    BY <1>1, <2>1
<1>5. ASSUME NEW o \in Orders PROVE [outbox EXCEPT ![o].status = @] = outbox
  <2>1. outbox[o] \in DueRow
    BY <1>1
  <2>2. [outbox[o] EXCEPT !.status = @] = outbox[o]
    BY <2>1 DEF DueRow, OutboxRow
  <2> QED
    BY <1>1, <2>2
<1> QED
  BY <1>3, <1>4, <1>5

LEMMA ClosedRows ==
    ASSUME QueueInv, NEW o \in Orders,
           MarkDone(o) \/ \E t : CloseParked(o, t)
    PROVE  outbox' \in [Orders -> DueRow]
<1>1. /\ "done" \in OutboxStatuses \ {"pending"}
      /\ outbox \in [Orders -> DueRow] /\ outbox[o] \in DueRow
  BY DEF OutboxStatuses, QueueInv
<1>2. CASE MarkDone(o)
  <2>1. [outbox[o] EXCEPT !.status = "done", !.lease = Nobody] \in DueRow
    BY <1>1 DEF DueRow, OutboxRow
  <2>2. \/ outbox' = outbox
        \/ outbox' = [outbox EXCEPT ![o] =
                         [outbox[o] EXCEPT !.status = "done", !.lease = Nobody]]
    BY <1>1, <1>2 DEF MarkDone
  <2> QED
    BY <1>1, <2>1, <2>2
<1>3. CASE \E t : CloseParked(o, t)
  <2>1. \/ outbox' = [outbox EXCEPT ![o].status = "done"]
        \/ outbox' = [outbox EXCEPT ![o].status = @]
    BY <1>3 DEF CloseParked
  <2> QED
    BY <1>1, <2>1, DueRows
<1> QED
  BY <1>2, <1>3

\* A driver's lease on a row.
LEMMA LeasedRows ==
    ASSUME QueueInv, NEW d \in Drivers, NEW o \in Orders, ClaimRow(d, o)
    PROVE  outbox' \in [Orders -> DueRow]
<1>1. [outbox[o] EXCEPT !.lease = d] \in DueRow
  BY DEF QueueInv, DueRow, OutboxRow
<1> QED
  BY <1>1 DEF QueueInv, ClaimRow

\* What is in hand stays a set of orders for each settler.
LEMMA HandsTyped ==
    ASSUME QueueInv, NEW w \in Settlers, NEW S, S \subseteq Orders, NEW o
    PROVE  /\ InHand(w, S) \in [Settlers -> SUBSET Orders]
           /\ Done(w, o) \in [Settlers -> SUBSET Orders]
  BY DEF QueueInv, InHand, Done

LEMMA HandlerHand ==
    ASSUME QueueInv, NEW S, S \subseteq Orders
    PROVE  InHand(Handler, {x \in S : Tracked(x)}) \in [Settlers -> SUBSET Orders]
<1>1. Handler \in Settlers /\ {x \in S : Tracked(x)} \subseteq Orders
  BY DEF Settlers
<1> QED
  BY <1>1, HandsTyped

LEMMA FailedRows ==
    ASSUME QueueInv, NEW w, NEW o \in Orders, CountFailure(w, o)
    PROVE  outbox' \in [Orders -> DueRow] /\ parking' \subseteq Orders
<1> DEFINE n == outbox[o].attempts + 1
           row == [status |-> IF n >= MaxAttempts THEN "failed" ELSE "pending", attempts |-> n,
                   lease |-> Nobody]
<1>1. MaxAttempts \in Nat \ {0} /\ outbox[o] \in DueRow /\ outbox \in [Orders -> DueRow]
  BY LoyaltyAssumption DEF QueueInv
<1>2. n \in 0 .. MaxAttempts
  BY <1>1 DEF CountFailure, DueRow, OutboxRow
<1>3. row \in DueRow
  BY <1>1, <1>2 DEF DueRow, OutboxRow, OutboxStatuses
<1>4. outbox' = [outbox EXCEPT ![o] = row] /\ parking' \subseteq parking \union {o}
  BY DEF CountFailure
<1> HIDE DEF row
<1> QED
  BY <1>1, <1>3, <1>4 DEF QueueInv

LEMMA QueueStep ==
    ASSUME QueueInv, [LoyaltyNext]_vars
    PROVE  QueueInv'
<1> USE DEF QueueInv
<1>1. ASSUME NEW S, S \subseteq Orders, QueueAndSettle(S) PROVE QueueInv'
  BY <1>1, DueRows, HandlerHand DEF QueueAndSettle
<1>2. CASE OrderHandlers
  <2>0. Lapsed \subseteq Orders
    BY DEF Lapsed
  <2>1. ASSUME NEW o \in Orders, NEW m \in Methods, Place(o, m) \/ PlaceWithReward(o, m)
        PROVE  QueueInv'
    <3>1. /\ outbox' = Queued(Lapsed) /\ UNCHANGED <<member, parking, listed>>
          /\ settling' = InHand(Handler, {x \in Lapsed : Tracked(x)})
      BY <2>1 DEF Place, PlaceWithReward
    <3> QED
      BY <2>0, <3>1, DueRows, HandlerHand
  <2>2. CASE Sweep
    BY <1>1, <2>0, <2>2 DEF Sweep
  <2>3. ASSUME NEW o \in Orders, Bind(o) PROVE QueueInv'
    BY <1>1, <2>0, <2>3 DEF Bind
  <2>4. ASSUME NEW o \in Orders, PaidArrives(o) PROVE QueueInv'
    <3>1. Lapsed \union {o} \subseteq Orders
      BY <2>0
    <3> QED
      BY <1>1, <2>0, <2>4, <3>1 DEF PaidArrives
  <2>5. ASSUME NEW o \in Orders, EndedByProvider(o) PROVE QueueInv'
    <3>1. Lapsed \union {o} \subseteq Orders
      BY <2>0
    <3> QED
      BY <1>1, <2>5, <3>1 DEF EndedByProvider
  <2>6. ASSUME NEW o \in Orders, NEW to \in Statuses, NEW p \in BOOLEAN, Operate(o, to, p)
        PROVE  QueueInv'
    <3>1. Lapsed \union {o} \subseteq Orders
      BY <2>0
    <3> QED
      BY <1>1, <2>6, <3>1 DEF Operate
  <2>7. ASSUME NEW o \in Orders, NEW a \in 1 .. Total[o], Refund(o, a) PROVE QueueInv'
    <3>1. {o} \subseteq Orders
      OBVIOUS
    <3> QED
      BY <1>1, <2>7, <3>1 DEF Refund
  <2> QED
    BY <1>2, <2>1, <2>2, <2>3, <2>4, <2>5, <2>6, <2>7 DEF OrderHandlers
<1>3. CASE Reconciliation
  <2>1. CASE Crash
    BY <2>1 DEF Crash
  <2>2. ASSUME NEW o \in Orders, ListTimed(o) \/ ParkReview(o) PROVE QueueInv'
    BY <2>2 DEF ListTimed, ParkReview
  <2>3. ASSUME NEW w \in Settlers, NEW o \in Orders, Reconcile(w, o) PROVE QueueInv'
    BY <2>3, ClosedRows, HandsTyped DEF Reconcile
  <2>4. ASSUME NEW w \in Settlers, NEW o \in Orders, ReconcileFails(w, o) PROVE QueueInv'
    <3>1. settling' \in [Settlers -> SUBSET Orders]
      BY <2>4, HandsTyped DEF ReconcileFails
    <3> QED
      BY <2>4, <3>1, FailedRows DEF ReconcileFails
  <2>6. ASSUME NEW d \in Drivers, NEW o \in Orders, ClaimRow(d, o) PROVE QueueInv'
    <3>1. d \in Settlers /\ {o} \subseteq Orders
      BY DEF Settlers
    <3> QED
      BY <2>6, <3>1, LeasedRows, HandsTyped DEF ClaimRow
  <2>5. ASSUME NEW o \in Orders, QueueTimed(o) PROVE QueueInv'
    BY <2>5, DueRows DEF QueueTimed
  <2> QED
    BY <1>3, <2>1, <2>2, <2>3, <2>4, <2>5, <2>6 DEF Reconciliation
<1>4. CASE Decisions
  <2>1. ASSUME NEW o \in Orders, NEW t, CloseParked(o, t), UNCHANGED <<member, memoryVars>>
        PROVE  QueueInv'
    BY <2>1, ClosedRows DEF memoryVars
  <2>2. ASSUME NEW o \in Orders, NEW spent \in BOOLEAN, ResolveRedemption(o, spent)
        PROVE  QueueInv'
    BY <2>1, <2>2 DEF ResolveRedemption
  <2>3. ASSUME NEW o \in Orders, ExcludePurchase(o) \/ AwardPurchase(o) PROVE QueueInv'
    BY <2>1, <2>3 DEF ExcludePurchase, AwardPurchase
  <2>4. ASSUME NEW o \in Orders, Requeue(o) PROVE QueueInv'
    <3>1. "done" \in OutboxStatuses \ {"pending"}
      BY DEF OutboxStatuses
    <3>2. InHand(Handler, {o}) \in [Settlers -> SUBSET Orders]
      BY HandsTyped DEF Settlers
    <3>3. /\ UNCHANGED <<member, parking, listed>>
          /\ \/ outbox' = Queued({o}) /\ settling' = InHand(Handler, {o})
             \/ outbox' = [outbox EXCEPT ![o].status = "done"] /\ UNCHANGED settling
      BY <2>4 DEF Requeue
    <3>4. outbox' \in [Orders -> DueRow]
      BY <3>1, <3>3, DueRows
    <3> QED
      BY <3>2, <3>3, <3>4
  <2>5. ASSUME NEW m \in Members, NEW k \in AdjustKeys, NEW d \in AdjustDeltas,
               AdjustPoints(m, k, d)
        PROVE  QueueInv'
    BY <2>5 DEF AdjustPoints, queueVars, memoryVars
  <2>6. ASSUME NEW m \in Members, NEW s \in MemberMoves, SetMemberStatus(m, s)
        PROVE  QueueInv'
    BY <2>6, LoyaltyAssumption DEF SetMemberStatus, queueVars, memoryVars, MemberStatuses
  <2> QED
    BY <1>4, <2>2, <2>3, <2>4, <2>5, <2>6 DEF Decisions
<1>5. CASE UNCHANGED loyaltyVars
  BY <1>5 DEF loyaltyVars, queueVars, memoryVars
<1> QED
  BY <1>2, <1>3, <1>4, <1>5 DEF LoyaltyNext, vars

-----------------------------------------------------------------------------
\* The invariant holds

LEMMA LoyaltyStep ==
    ASSUME LoyaltyInv, QueueInv, [LoyaltyNext]_vars
    PROVE  LoyaltyInv' /\ QueueInv'
<1>1. /\ OrdersTypeOK' /\ MoneyInv'
      /\ AccountsType' /\ AccountsFit' /\ BalanceIsRebuilt' /\ RefundsKnown'
      /\ QueueInv'
  BY RowMoves, AccountsKept, QueueStep
<1>2. LoyaltyTypeOK'
  <2>1. \A row : row \in DueRow => row \in OutboxRow
    BY DEF DueRow
  <2> QED
    BY <1>1, <2>1 DEF LoyaltyTypeOK, AccountsType, QueueInv
<1> QED
  BY <1>1, <1>2 DEF LoyaltyInv

LEMMA LoyaltyStarts ==
    ASSUME LoyaltyInit
    PROVE  LoyaltyInv /\ QueueInv
<1> USE DEF LoyaltyInit
<1>1. OrdersTypeOK /\ MoneyInv
  BY OrdersAssumption
     DEF OrdersInit, OrdersTypeOK, MoneyInv, NoOrder, OrderRow, Statuses, Methods, Payments,
         Sessions, Phases, Pages
<1>2. AccountsType
  BY FS_EmptySet DEF AccountsType, RedStates, PurchaseRow, NoPurchase, PurStates
<1>3. QueueInv
  BY LoyaltyAssumption
     DEF QueueInv, NoRow, DueRow, OutboxRow, OutboxStatuses, MemberStatuses
<1>4. \A o, kind : OfIn({}, o, kind) = {}
  BY DEF OfIn
<1>5. AccountsFit
  <2>1. NoPurchase.state = "none" /\ NoPurchase.awarded = 0 /\ NoPurchase.reversed = 0
    BY DEF NoPurchase
  <2>2. ASSUME NEW o \in Orders PROVE OrderFits(o, "none", NoPurchase, {})
    <3>1. \A kind : PointsIn(OfIn({}, o, kind)) = 0
      BY <1>4, NoPoints
    <3>2. EntriesFit(o, "none", NoPurchase, {})
      BY DEF EntriesFit
    <3>3. RewardSums(o, "none", {}) /\ SaleSums(o, NoPurchase, {})
      BY <2>1, <3>1 DEF RewardSums, SaleSums
    <3> QED
      BY <3>2, <3>3 DEF OrderFits
  <2>3. \A o \in Orders : red[o] = "none" /\ pur[o] = NoPurchase
    OBVIOUS
  <2>4. ledger = {}
    OBVIOUS
  <2> QED
    BY <2>2, <2>3, <2>4, Zenon DEF AccountsFit
<1>6. BalanceIsRebuilt
  <2>1. \A kinds, m : Posts(kinds, m) = {}
    BY DEF Posts
  <2>2. \A m \in Members : Holds(m) = {}
    BY DEF Holds
  <2>3. PointsIn({}) = 0 /\ Sum({}, Cost) = 0
    BY NoPoints, SumEmpty
  <2>4. \A m \in Members : points[m] = 0 /\ reserved[m] = 0
    OBVIOUS
  <2>5. ASSUME NEW m \in Members
        PROVE  /\ points[m] = PointsIn(Posts(Credits, m)) - PointsIn(Posts(Debits, m))
               /\ reserved[m] = Sum(Holds(m), Cost)
    <3> HIDE DEF LoyaltyInit
    <3>1. Posts(Credits, m) = {} /\ Posts(Debits, m) = {} /\ Holds(m) = {}
      BY <2>1, <2>2
    <3> QED
      BY <2>3, <2>4, <3>1
  <2> QED
    BY <2>5, Zenon DEF BalanceIsRebuilt
<1>7. RefundsKnown
  BY DEF RefundsKnown, NoPurchase, OrdersInit, NoOrder
<1>8. LoyaltyTypeOK
  <2>1. \A row : row \in DueRow => row \in OutboxRow
    BY DEF DueRow
  <2> QED
    BY <1>1, <1>2, <1>3, <2>1 DEF LoyaltyTypeOK, AccountsType, QueueInv
<1> QED
  BY <1>1, <1>3, <1>5, <1>6, <1>7, <1>8 DEF LoyaltyInv

LEMMA LoyaltyInvHolds == LoyaltySpec => [](LoyaltyInv /\ QueueInv)
<1>1. LoyaltyInit => LoyaltyInv /\ QueueInv
  BY LoyaltyStarts
<1>2. LoyaltyInv /\ QueueInv /\ [LoyaltyNext]_vars => LoyaltyInv' /\ QueueInv'
  BY LoyaltyStep
<1> QED
  BY <1>1, <1>2, PTL DEF LoyaltySpec

-----------------------------------------------------------------------------
\* What a reader should know

\* The rows of every order, account and queue stay well typed: no hold goes
\* below zero and no row that is still due runs out of attempts.
THEOREM LoyaltyTypeCorrect == LoyaltySpec => []LoyaltyTypeOK
<1>1. LoyaltyInv => LoyaltyTypeOK
  BY DEF LoyaltyInv
<1> QED
  BY <1>1, LoyaltyInvHolds, PTL

\* A stored balance is always what the ledger and the open holds rebuild to
\* (postLedgerEntryInTx, holdPointsInTx and the release of a hold, against
\* findBalanceMismatches).
THEOREM BalanceStaysRebuilt == LoyaltySpec => []BalanceIsRebuilt
<1>1. LoyaltyInv => BalanceIsRebuilt
  BY DEF LoyaltyInv
<1> QED
  BY <1>1, LoyaltyInvHolds, PTL

\* A reward is paid for exactly when it is spent and paid back exactly when it
\* is restored, each once (consumeRedemptionInTx, restoreRedemptionInTx).
THEOREM RewardIsPaidOnce == LoyaltySpec => []RewardPaidOnce
<1>1. LoyaltyInv => RewardPaidOnce
  <2>1. \A o, kind : Of(o, kind) = OfIn(ledger, o, kind)
    BY DEF Of, OfIn
  <2> QED
    BY <2>1 DEF LoyaltyInv, AccountsFit, OrderFits, RewardSums, RewardPaidOnce
<1> QED
  BY <1>1, LoyaltyInvHolds, PTL

\* A sale earns once, and refunds never take back more than it earned
\* (settlePurchaseInTx, applyPurchaseRefundsInTx).
THEOREM SaleEarnsOnce == LoyaltySpec => []EarnedOnce
<1>1. LoyaltyInv => EarnedOnce
  <2>1. \A o, kind : Of(o, kind) = OfIn(ledger, o, kind)
    BY DEF Of, OfIn
  <2> QED
    BY <2>1 DEF LoyaltyInv, AccountsFit, OrderFits, SaleSums, EarnedOnce
<1> QED
  BY <1>1, LoyaltyInvHolds, PTL

\* A decision on a reward is final, and a spent one comes back only with the
\* whole order's money.
THEOREM RewardIsDecidedOnce == LoyaltySpec => RewardDecidedOnce
<1>1. LoyaltyInv /\ [LoyaltyNext]_vars => [RewardStep]_vars
  BY AccountsKept
<1> QED
  BY <1>1, LoyaltyInvHolds, PTL DEF LoyaltySpec, RewardDecidedOnce

\* A sale that kept a discount whose reward was given back earns only after an
\* operator had it in review (settlePurchaseInTx's check of the redemption).
THEOREM NoEarningOverReleasedReward == LoyaltySpec => NoDiscountWithPointsBack
<1>1. LoyaltyInv /\ [LoyaltyNext]_vars => [EarnStep]_vars
  BY AccountsKept
<1> QED
  BY <1>1, LoyaltyInvHolds, PTL DEF LoyaltySpec, NoDiscountWithPointsBack

LEMMA ParkedSteps ==
    ASSUME LoyaltyInv, QueueInv, [LoyaltyNext]_vars
    PROVE  ParkedStep
<1> SUFFICES ASSUME NEW x \in Orders, outbox[x].status = "failed",
                    outbox'[x].status = "done"
             PROVE  red'[x] # "review" /\ pur'[x].state # "review"
  BY DEF ParkedStep
<1>0. /\ outbox \in [Orders -> DueRow] /\ red \in [Orders -> RedStates]
      /\ pur \in [Orders -> PurchaseRow]
      /\ \A row \in DueRow : row \in OutboxRow
  BY DEF QueueInv, LoyaltyInv, LoyaltyTypeOK, DueRow
<1>1. ~UNCHANGED outbox
  OBVIOUS
<1>2. \A S : outbox' # Queued(S)
  BY <1>0 DEF Queued, Pending, NoRow
<1>3. ASSUME NEW o \in Orders, MarkDone(o) PROVE FALSE
  BY <1>0, <1>3 DEF MarkDone, DueRow, OutboxRow
<1>4. ASSUME NEW w, NEW o \in Orders, CountFailure(w, o) PROVE FALSE
  BY <1>0, <1>4 DEF CountFailure
<1>5. ASSUME NEW o \in Orders, NEW t, Commit(o, t), CloseParked(o, t)
      PROVE  red'[x] # "review" /\ pur'[x].state # "review"
  <2>1. x = o
    BY <1>0, <1>5 DEF CloseParked
  <2>2. t.red # "review" /\ t.pur.state # "review"
    BY <1>0, <1>5, <2>1 DEF CloseParked, DueRow, OutboxRow
  <2> QED
    BY <1>0, <1>5, <2>1, <2>2 DEF Commit
<1>6. ASSUME NEW o \in Orders, Requeue(o)
      PROVE  red'[x] # "review" /\ pur'[x].state # "review"
  <2>1. outbox' = [outbox EXCEPT ![o].status = "done"] /\ ~Tracked(o)
        /\ red' = red /\ pur' = pur
    BY <1>2, <1>6 DEF Requeue, accountVars
  <2>2. x = o
    BY <1>0, <2>1
  <2> QED
    BY <2>1, <2>2 DEF Tracked
<1>7. CASE OrderHandlers
  BY <1>2, <1>7 DEF OrderHandlers, Sweep, Place, PlaceWithReward, Bind, PaidArrives,
                    EndedByProvider, Operate, Refund, QueueAndSettle
<1>10. ASSUME NEW d, NEW o \in Orders, ClaimRow(d, o) PROVE FALSE
  BY <1>0, <1>10 DEF ClaimRow, DueRow, OutboxRow
<1>8. CASE Reconciliation
  BY <1>1, <1>2, <1>3, <1>4, <1>8, <1>10
     DEF Reconciliation, Crash, Reconcile, ReconcileFails, ParkReview,
         ListTimed, QueueTimed
<1>9. CASE Decisions
  <2>1. ASSUME NEW m \in Members PROVE
          /\ \A k \in AdjustKeys, d \in AdjustDeltas : ~AdjustPoints(m, k, d)
          /\ \A s \in MemberMoves : ~SetMemberStatus(m, s)
    BY <1>1 DEF AdjustPoints, SetMemberStatus, queueVars
  <2>2. ASSUME NEW o \in Orders, NEW spent \in BOOLEAN, ResolveRedemption(o, spent)
        PROVE  red'[x] # "review" /\ pur'[x].state # "review"
    BY <1>5, <2>2 DEF ResolveRedemption
  <2>3. ASSUME NEW o \in Orders, ExcludePurchase(o) \/ AwardPurchase(o)
        PROVE  red'[x] # "review" /\ pur'[x].state # "review"
    BY <1>5, <2>3 DEF ExcludePurchase, AwardPurchase
  <2> QED
    BY <1>6, <1>9, <2>1, <2>2, <2>3 DEF Decisions
<1> QED
  BY <1>1, <1>7, <1>8, <1>9 DEF LoyaltyNext, vars, loyaltyVars, queueVars

\* A parked order stops counting only when it is queued again or when nothing
\* on it is left in review (closeParkedSourceInTx, requeueLoyaltySource).
THEOREM ParkedStaysParked == LoyaltySpec => ParkedUntilDecided
<1>1. LoyaltyInv /\ QueueInv /\ [LoyaltyNext]_vars => [ParkedStep]_vars
  BY ParkedSteps
<1> QED
  BY <1>1, LoyaltyInvHolds, PTL DEF LoyaltySpec, ParkedUntilDecided

-----------------------------------------------------------------------------
\* The account of an order nothing is queued for

\* The checkout stopped unpaid and no page of it can take money: the tick's
\* timed step finds the reward if it is still bound.
Ending(o) ==
    /\ order[o].method = "online"
    /\ order[o].status \in {"cancelled", "expired"}
    /\ order[o].payment # "paid"
    /\ phase[o] # "hold"
    /\ ~Payable(o)

\* What a reconciliation of order o with reward r and purchase p would find to
\* do: nothing, or what the timed step queues it for.
Agrees(o, r, p) ==
    /\ r = "bound" => Verdict(o, TRUE) = "open" \/ Ending(o)
    /\ p.state = "open" /\ r # "bound" => Verdict(o, FALSE) = "open"
    /\ p.state = "cancelled" => Verdict(o, FALSE) \in {"open", "cancelled"}
    /\ p.state = "completed" /\ order[o].refunded > 0 =>
         p.awarded - PointsAfter[o][order[o].refunded] <= p.reversed
    /\ Full(o) => r # "consumed"

\* A reward and the purchase beside it are decided together.
Together(r, p) ==
    /\ r = "bound" => p.state \notin {"review", "cancelled"}
    /\ r = "review" => p.state \notin {"open", "cancelled"}

\* Loyalty has nothing on the order.
Bare(r, p) == r \in {"none", "released"} /\ p.state = "none"

DecidedTogether == \A o \in Orders : Together(red[o], pur[o])
IdleAgrees ==
    \A o \in Orders :
      outbox[o].status \in {"none", "done"} => Agrees(o, red[o], pur[o])

LEMMA BareAgrees ==
    ASSUME NEW o, NEW r, NEW p, Bare(r, p)
    PROVE  Agrees(o, r, p) /\ Together(r, p)
  BY DEF Bare, Agrees, Together

\* Only whether a stopped unpaid order is given up depends on a held reward.
LEMMA HoldingVerdict ==
    ASSUME NEW o \in Orders
    PROVE  /\ Verdict(o, TRUE) # "open" => Verdict(o, FALSE) = Verdict(o, TRUE)
           /\ Verdict(o, TRUE) = "open" => Verdict(o, FALSE) \in {"open", "cancelled"}
           /\ Verdict(o, TRUE) \in Verdicts
  BY DEF Verdict, Verdicts

LEMMA ReconcileAgrees ==
    ASSUME LoyaltyInv, DecidedTogether, NEW o \in Orders, NEW trusted \in BOOLEAN
    PROVE  /\ Agrees(o, ReconcileInTx(o, trusted).red, ReconcileInTx(o, trusted).pur)
           /\ Together(ReconcileInTx(o, trusted).red, ReconcileInTx(o, trusted).pur)
<1> DEFINE u == ReconcileInTx(o, trusted)
           h == red[o] \in HoldingStates
           verdict == Verdict(o, h)
           r == FollowedRed(verdict, red[o])
<1>1. /\ Fits(o, Current(o)) /\ Current(o).red = red[o] /\ Current(o).pur = pur[o]
      /\ pur[o].refunded <= order[o].refunded
  BY CurrentFits
<1>2. CASE ~Tracked(o)
  <2>1. u.red = red[o] /\ u.pur = pur[o]
    BY <1>1, <1>2 DEF ReconcileInTx
  <2>2. Bare(u.red, u.pur)
    BY <1>2, <2>1 DEF Tracked, Bare
  <2> QED
    BY <2>2, BareAgrees
<1>3. CASE Tracked(o)
  <2>1. LoyaltyTypeOK /\ Together(red[o], pur[o])
    BY DEF LoyaltyInv, DecidedTogether
  <2>2. h \in BOOLEAN /\ h = (red[o] \in HoldingStates)
    OBVIOUS
  <2>3. verdict = Verdict(o, red[o] \in HoldingStates) /\ r = FollowedRed(verdict, red[o])
    OBVIOUS
  <2>4. /\ u.red = IF Full(o) /\ r = "consumed" THEN "restored" ELSE r
        /\ u.pur.state = FollowedState(o, verdict, r, pur[o].state, trusted)
        /\ pur[o].state # "none" => u.pur.refunded = order[o].refunded
        /\ order[o].refunded > 0 => TakenBack(o, u.pur)
    <3> HIDE DEF verdict, r
    <3> QED
      BY <1>1, <1>3, <2>1, <2>3, ReconcileFits
  <2>5. verdict \in Verdicts /\ verdict = Verdict(o, h)
    BY VerdictIs
  <2>6. Settling = {"open", "review", "cancelled"} /\ Unsettled = {"open", "review"}
    BY DEF Settling, Unsettled, Reopenable
  <2>7. Outcome(o, r, trusted) \in {"review", "excluded", "completed"}
    BY DEF Outcome
  <2> HIDE DEF u, h, verdict
  <2>8. /\ u.red = "bound" => verdict = "open" /\ red[o] = "bound"
        /\ u.red = "review" =>
             verdict \in {"open", "review"} /\ red[o] \in HoldingStates
             /\ (verdict = "open" => red[o] = "review")
        /\ red[o] = "bound" /\ verdict = "open" => u.red = "bound"
        /\ Full(o) => u.red # "consumed"
    BY <2>4, <2>5 DEF FollowedRed, Verdicts
  <2>9. /\ u.pur.state = "open" => verdict = "open" /\ pur[o].state = "open"
        /\ u.pur.state = "cancelled" =>
             verdict = "cancelled" \/ (verdict = "open" /\ pur[o].state = "cancelled")
        /\ verdict = "open" => u.pur.state = pur[o].state
        /\ verdict = "review" => u.pur.state \notin {"open", "cancelled"}
        /\ pur[o].state = "none" => u.pur.state = "none"
    BY <2>4, <2>5, <2>6, <2>7 DEF FollowedState, Verdicts
  <2> HIDE DEF r
  <2>10. Together(u.red, u.pur)
    BY <2>1, <2>8, <2>9 DEF Together
  <2>11. u.red = "bound" => Verdict(o, TRUE) = "open"
    BY <2>2, <2>5, <2>8
  <2>12. u.pur.state = "open" /\ u.red # "bound" => Verdict(o, FALSE) = "open"
    BY <2>1, <2>2, <2>5, <2>8, <2>9 DEF Together
  <2>13. u.pur.state = "cancelled" => Verdict(o, FALSE) \in {"open", "cancelled"}
    BY <2>1, <2>2, <2>5, <2>9, HoldingVerdict DEF Together
  <2>14. u.pur.state = "completed" /\ order[o].refunded > 0 =>
           u.pur.awarded - PointsAfter[o][order[o].refunded] <= u.pur.reversed
    BY <2>4, <2>9 DEF TakenBack
  <2>15. Agrees(o, u.red, u.pur)
    BY <2>8, <2>11, <2>12, <2>13, <2>14 DEF Agrees
  <2> QED
    BY <2>10, <2>15 DEF u
<1> QED
  BY <1>2, <1>3

LEMMA DecisionAgrees ==
    ASSUME NEW o \in Orders, NEW t, Undoes(o, t), t.red # "bound",
           t.pur.state \notin {"open", "cancelled"}
    PROVE  Agrees(o, t.red, t.pur)
  BY DEF Agrees, Undoes, TakenBack

LEMMA ResolveAgrees ==
    ASSUME LoyaltyInv, DecidedTogether, NEW o \in Orders, red[o] = "review",
           NEW spent \in BOOLEAN
    PROVE  /\ Agrees(o, Resolved(o, spent).red, Resolved(o, spent).pur)
           /\ Together(Resolved(o, spent).red, Resolved(o, spent).pur)
<1> DEFINE t == Resolved(o, spent)
<1>1. /\ t.pur.state = pur[o].state /\ t.red \in {"consumed", "released", "restored"}
      /\ Undoes(o, t)
  BY ResolveSound
<1>2. pur[o].state \notin {"open", "cancelled"}
  BY DEF DecidedTogether, Together
<1> HIDE DEF t
<1>3. Agrees(o, t.red, t.pur) /\ Together(t.red, t.pur)
  BY <1>1, <1>2, DecisionAgrees DEF Together
<1> QED
  BY <1>3 DEF t

LEMMA ExcludeAgrees ==
    ASSUME LoyaltyInv, DecidedTogether, NEW o \in Orders, pur[o].state = "review"
    PROVE  /\ Agrees(o, Excluded(o).red, Excluded(o).pur)
           /\ Together(Excluded(o).red, Excluded(o).pur)
<1> DEFINE t == Excluded(o)
<1>1. t.pur.state = "excluded" /\ t.red \in {red[o], "restored"} /\ Undoes(o, t)
  BY ExcludeSound
<1>2. red[o] # "bound"
  BY DEF DecidedTogether, Together
<1> HIDE DEF t
<1>3. Agrees(o, t.red, t.pur) /\ Together(t.red, t.pur)
  BY <1>1, <1>2, DecisionAgrees DEF Together
<1> QED
  BY <1>3 DEF t

\* Parking leaves an account that agreed in agreement.
LEMMA ParkAgrees ==
    ASSUME LoyaltyInv, DecidedTogether, NEW o \in Orders
    PROVE  /\ Agrees(o, red[o], pur[o]) => Agrees(o, Parked(o).red, Parked(o).pur)
           /\ Together(Parked(o).red, Parked(o).pur)
<1> DEFINE t == Parked(o)
<1>1. /\ t.red = IF red[o] = "bound" THEN "review" ELSE red[o]
      /\ t.pur.state = IF pur[o].state \in Unsettled THEN "review" ELSE pur[o].state
      /\ pur[o].state \notin Unsettled => t.pur = pur[o]
  BY ParkSound
<1>2. Together(red[o], pur[o])
  BY DEF DecidedTogether
<1> HIDE DEF t
<1>3. Together(t.red, t.pur)
  BY <1>1, <1>2 DEF Together, Unsettled
<1>4. Agrees(o, red[o], pur[o]) => Agrees(o, t.red, t.pur)
  BY <1>1 DEF Agrees, Unsettled
<1> QED
  BY <1>3, <1>4 DEF t

\* What a step has to leave of order x.
LeftSound(x) ==
    /\ Together(red'[x], pur'[x])
    /\ outbox'[x].status \in {"none", "done"} => Agrees(x, red[x], pur[x])'

Still(x) == order'[x] = order[x] /\ phase'[x] = phase[x]
SameAccount(x) == red'[x] = red[x] /\ pur'[x] = pur[x]
IdleInv == QueueInv /\ DecidedTogether /\ IdleAgrees

LEMMA StillLeftSound ==
    ASSUME NEW x \in Orders, Still(x), Together(red'[x], pur'[x]),
           outbox'[x].status \in {"none", "done"} => Agrees(x, red'[x], pur'[x])
    PROVE  LeftSound(x)
<1>1. \A h : Verdict(x, h)' = Verdict(x, h)
  BY DEF Still, Verdict, Stopped, Paid, FullyRefunded, Payable
<1>2. Ending(x)' = Ending(x) /\ Full(x)' = Full(x)
  BY DEF Still, Ending, Payable, Full, FullyRefunded
<1> QED
  BY <1>1, <1>2 DEF LeftSound, Agrees, Still

LEMMA KeptLeftSound ==
    ASSUME IdleInv, NEW x \in Orders, Still(x), SameAccount(x),
           outbox'[x] = outbox[x]
    PROVE  LeftSound(x)
<1>1. Together(red'[x], pur'[x])
  BY DEF IdleInv, DecidedTogether, SameAccount
<1>2. outbox'[x].status \in {"none", "done"} => Agrees(x, red'[x], pur'[x])
  BY DEF IdleInv, IdleAgrees, SameAccount
<1> QED
  BY <1>1, <1>2, StillLeftSound

LEMMA QueuedLeftSound ==
    ASSUME IdleInv, LoyaltyInv, NEW x \in Orders, SameAccount(x), NEW S, outbox' = Queued(S),
           x \in S \/ Still(x)
    PROVE  LeftSound(x)
<1>1. Together(red'[x], pur'[x])
  BY DEF IdleInv, DecidedTogether, SameAccount
<1>2. outbox'[x] = IF x \in S /\ Tracked(x) THEN Pending ELSE outbox[x]
  BY DEF Queued
<1>3. CASE x \in S /\ Tracked(x)
  <2>1. outbox'[x].status = "pending"
    BY <1>2, <1>3 DEF Pending, NoRow
  <2> QED
    BY <1>1, <2>1 DEF LeftSound
<1>4. CASE ~Tracked(x)
  <2>1. Bare(red'[x], pur'[x])
    BY <1>4 DEF Tracked, Bare, SameAccount
  <2>2. Agrees(x, red[x], pur[x])'
    BY <2>1 DEF Bare, Agrees
  <2> QED
    BY <1>1, <2>2 DEF LeftSound
<1>5. CASE x \notin S
  BY <1>2, <1>5, KeptLeftSound
<1> QED
  BY <1>3, <1>4, <1>5

\* A page opened for an order no other step of the handler changes.
LEMMA BoundLeftSound ==
    ASSUME IdleInv, LoyaltyInv, NEW x \in Orders, SameAccount(x), outbox'[x] = outbox[x],
           order[x].method = "online", order[x].payment = "pending",
           order[x].status # "expired", phase[x] # "closed",
           order'[x] = [order[x] EXCEPT !.session = "bound"], phase'[x] = phase[x]
    PROVE  LeftSound(x)
<1>1. order[x] \in OrderRow
  BY DEF LoyaltyInv, LoyaltyTypeOK, OrdersTypeOK
<1>2. /\ order'[x].method = "online" /\ order'[x].payment = "pending"
      /\ order'[x].status = order[x].status /\ order'[x].session = "bound"
      /\ order'[x].refunded = order[x].refunded
  BY <1>1 DEF OrderRow
<1>3. Payable(x)' /\ ~Paid(x) /\ ~Paid(x)'
  BY <1>2 DEF Payable, Paid
<1>4. Verdict(x, FALSE)' = Verdict(x, FALSE)
  BY <1>2, <1>3 DEF Verdict, Stopped
<1>5. Verdict(x, TRUE) = "open" \/ Ending(x) => Verdict(x, TRUE)' = "open"
  BY <1>2, <1>3 DEF Verdict, Stopped, Ending
<1>6. Full(x)' = Full(x)
  BY <1>2 DEF Full, FullyRefunded
<1>7. Together(red'[x], pur'[x])
  BY DEF IdleInv, DecidedTogether, SameAccount
<1>8. outbox'[x].status \in {"none", "done"} => Agrees(x, red[x], pur[x])
  BY DEF IdleInv, IdleAgrees
<1>9. Agrees(x, red[x], pur[x]) => Agrees(x, red[x], pur[x])'
  BY <1>2, <1>4, <1>5, <1>6 DEF Agrees, SameAccount
<1> QED
  BY <1>7, <1>8, <1>9 DEF LeftSound

\* The clock.
LEMMA PassedLeftSound ==
    ASSUME IdleInv, LoyaltyInv, NEW x \in Orders, SameAccount(x), outbox'[x] = outbox[x],
           order'[x] = order[x],
           \/ phase[x] = "hold" /\ phase'[x] = "lapsed"
           \/ phase[x] = "lapsed" /\ phase'[x] = "closed"
    PROVE  LeftSound(x)
<1>1. Paid(x)' = Paid(x) /\ Stopped(x)' = Stopped(x) /\ FullyRefunded(x)' = FullyRefunded(x)
  BY DEF Paid, Stopped, FullyRefunded
<1>2. Verdict(x, FALSE)' = Verdict(x, FALSE)
  BY <1>1 DEF Verdict
<1>3. Payable(x)' => Payable(x)
  BY DEF Payable
<1>4. Verdict(x, TRUE) = "open" => Verdict(x, TRUE)' = "open" \/ Ending(x)'
  <2>1. CASE Payable(x)' <=> Payable(x)
    BY <1>1, <2>1 DEF Verdict
  <2>2. CASE Payable(x) /\ ~Payable(x)'
    <3>1. order[x].method = "online" /\ phase'[x] # "hold"
      BY <2>2 DEF Payable
    <3>2. CASE order[x].status \in {"cancelled", "expired"} /\ ~Paid(x)
      BY <2>2, <3>1, <3>2 DEF Ending, Paid
    <3>3. CASE ~(order[x].status \in {"cancelled", "expired"} /\ ~Paid(x))
      BY <1>1, <3>3 DEF Verdict
    <3> QED
      BY <3>2, <3>3
  <2> QED
    BY <1>3, <2>1, <2>2
<1>5. Ending(x) => Ending(x)'
  BY <1>3 DEF Ending
<1>6. Full(x)' = Full(x)
  BY <1>1 DEF Full
<1>7. Together(red'[x], pur'[x])
  BY DEF IdleInv, DecidedTogether, SameAccount
<1>8. outbox'[x].status \in {"none", "done"} => Agrees(x, red[x], pur[x])
  BY DEF IdleInv, IdleAgrees
<1>9. Agrees(x, red[x], pur[x]) => Agrees(x, red[x], pur[x])'
  BY <1>2, <1>4, <1>5, <1>6 DEF Agrees, SameAccount
<1> QED
  BY <1>7, <1>8, <1>9 DEF LeftSound

\* A new order.
LEMMA OpenedLeftSound ==
    ASSUME NEW x \in Orders, order'[x].status = "accepted", order'[x].refunded = 0,
           pur'[x].state \in {"none", "open"}, red'[x] \in {"none", "bound"}
    PROVE  LeftSound(x)
<1>1. \A h : Verdict(x, h)' = "open"
  BY DEF Verdict, Stopped
<1>2. ~Full(x)'
  BY DEF Full
<1> QED
  BY <1>1, <1>2 DEF LeftSound, Together, Agrees

LEMMA HandlersLeaveSound ==
    ASSUME IdleInv, LoyaltyInv, OrderHandlers, NEW x \in Orders
    PROVE  LeftSound(x)
<1>0. /\ \A y \in Orders \ Lapsed : Swept[y] = order[y]
      /\ Swept \in [Orders -> OrderRow]
      /\ red \in [Orders -> RedStates] /\ pur \in [Orders -> PurchaseRow]
      /\ order \in [Orders -> OrderRow]
  BY SweptRows DEF LoyaltyInv, LoyaltyTypeOK, OrdersTypeOK
<1>1. ASSUME NEW S, QueueAndSettle(S), x \in S \/ Still(x)
      PROVE  LeftSound(x)
  BY <1>1, QueuedLeftSound DEF QueueAndSettle, SameAccount, accountVars
<1>2. ASSUME phase' = phase, NEW o \in Orders,
             \A y \in Orders \ {o} : order'[y] = Swept[y], x # o
      PROVE  x \in Lapsed \/ Still(x)
  BY <1>0, <1>2 DEF Still
<1>3. ASSUME NEW o \in Orders, NEW m \in Methods, Place(o, m) \/ PlaceWithReward(o, m)
      PROVE  LeftSound(x)
  <2>1. /\ phase' = phase /\ outbox' = Queued(Lapsed)
        /\ \A y \in Orders \ {o} : order'[y] = Swept[y]
    BY <1>0, <1>3 DEF Place, PlaceWithReward, PlaceOrder
  <2>2. /\ order[o].status = "none" /\ order'[o].status = "accepted"
        /\ order'[o].refunded = 0
    BY <1>0, <1>3 DEF Place, PlaceWithReward, PlaceOrder, NewOrder
  <2>3. /\ pur' = [pur EXCEPT ![o] = Claimed(o)]
        /\ red' = red \/ red' = [red EXCEPT ![o] = "bound"]
    BY <1>3 DEF Place, PlaceWithReward
  <2>4. CASE x = o
    <3>1. red[o] = "none"
      BY <2>2, NotPlaced
    <3>2. Claimed(o).state \in {"none", "open"}
      BY DEF Claimed, NoPurchase
    <3>3. pur'[x].state \in {"none", "open"} /\ red'[x] \in {"none", "bound"}
      BY <1>0, <2>3, <2>4, <3>1, <3>2
    <3> QED
      BY <2>2, <2>4, <3>3, OpenedLeftSound
  <2>5. CASE x # o
    <3>1. SameAccount(x)
      BY <1>0, <2>3, <2>5 DEF SameAccount
    <3> QED
      BY <1>2, <2>1, <2>5, <3>1, QueuedLeftSound
  <2> QED
    BY <2>4, <2>5
<1>4. CASE Sweep
  <2>1. order' = Swept /\ phase' = phase /\ QueueAndSettle(Lapsed)
    BY <1>4 DEF Sweep, SweepExpiredHolds
  <2>2. x \in Lapsed \/ Still(x)
    BY <1>0, <2>1 DEF Still
  <2> QED
    BY <1>1, <2>1, <2>2
<1>5. ASSUME NEW o \in Orders, Bind(o) PROVE LeftSound(x)
  <2>1. /\ order' = [Swept EXCEPT ![o].session = "bound"] /\ phase' = phase
        /\ QueueAndSettle(Lapsed)
        /\ Swept[o].method = "online" /\ Swept[o].status # "expired"
        /\ Swept[o].payment = "pending" /\ phase[o] # "closed"
    BY <1>5 DEF Bind, BindPaymentSession
  <2>2. CASE x # o
    BY <1>0, <1>1, <1>2, <2>1, <2>2
  <2>3. CASE x = o
    <3>1. o \notin Lapsed
      BY <2>1, SweptRows DEF LoyaltyInv, LoyaltyTypeOK
    <3>2. Swept[o] = order[o]
      BY <1>0, <3>1
    <3>3. order'[o] = [order[o] EXCEPT !.session = "bound"]
      BY <1>0, <2>1, <3>2
    <3>4. SameAccount(o) /\ outbox'[o] = outbox[o]
      BY <2>1, <3>1 DEF QueueAndSettle, SameAccount, accountVars, Queued
    <3> QED
      BY <2>1, <2>3, <3>2, <3>3, <3>4, BoundLeftSound
  <2> QED
    BY <2>2, <2>3
<1>6. ASSUME NEW o \in Orders, PaidArrives(o) PROVE LeftSound(x)
  <2>1. /\ phase' = phase /\ \A y \in Orders \ {o} : order'[y] = Swept[y]
        /\ QueueAndSettle(IF order'[o] = Swept[o] THEN Lapsed ELSE Lapsed \union {o})
    BY <1>0, <1>6 DEF PaidArrives, PaidEvent, PaidOnTime, PaidLate, PaidNoChange
  <2>2. CASE order'[o] = Swept[o]
    <3>1. x \in Lapsed \/ Still(x)
      BY <1>0, <2>1, <2>2 DEF Still
    <3> QED
      BY <1>1, <2>1, <2>2, <3>1
  <2>3. CASE order'[o] # Swept[o]
    BY <1>1, <1>2, <2>1, <2>3
  <2> QED
    BY <2>2, <2>3
<1>7. ASSUME NEW o \in Orders,
             EndedByProvider(o) \/ \E to \in Statuses, p \in BOOLEAN : Operate(o, to, p)
      PROVE  LeftSound(x)
  <2>1. /\ phase' = phase /\ \A y \in Orders \ {o} : order'[y] = Swept[y]
        /\ QueueAndSettle(Lapsed \union {o})
    BY <1>0, <1>7 DEF EndedByProvider, FailedEvent, ExpiredEvent, Operate, OperatorUpdate
  <2> QED
    BY <1>1, <1>2, <2>1
<1>8. ASSUME NEW o \in Orders, NEW a \in 1 .. Total[o], Refund(o, a) PROVE LeftSound(x)
  <2>1. /\ phase' = phase /\ \A y \in Orders \ {o} : order'[y] = order[y]
        /\ QueueAndSettle({o})
    BY <1>0, <1>8 DEF Refund, RecordOrderRefund
  <2>2. x \in {o} \/ Still(x)
    BY <2>1 DEF Still
  <2> QED
    BY <1>1, <2>1, <2>2
<1> QED
  BY <1>3, <1>4, <1>5, <1>6, <1>7, <1>8 DEF OrderHandlers

LEMMA CommitLeftSound ==
    ASSUME IdleInv, LoyaltyInv, NEW o \in Orders, NEW t, Commit(o, t), NEW x \in Orders,
           Still(x), Together(t.red, t.pur), x # o => outbox'[x] = outbox[x],
           x = o /\ outbox'[x].status \in {"none", "done"} => Agrees(o, t.red, t.pur)
    PROVE  LeftSound(x)
<1>1. red \in [Orders -> RedStates] /\ pur \in [Orders -> PurchaseRow]
  BY DEF LoyaltyInv, LoyaltyTypeOK
<1>2. /\ red' = [red EXCEPT ![o] = t.red] /\ pur' = [pur EXCEPT ![o] = t.pur]
  BY DEF Commit
<1>3. CASE x = o
  <2>1. red'[x] = t.red /\ pur'[x] = t.pur
    BY <1>1, <1>2, <1>3
  <2> QED
    BY <1>3, <2>1, StillLeftSound
<1>4. CASE x # o
  <2>1. SameAccount(x)
    BY <1>1, <1>2, <1>4 DEF SameAccount
  <2> QED
    BY <1>4, <2>1, KeptLeftSound
<1> QED
  BY <1>3, <1>4

LEMMA ReconciliationLeavesSound ==
    ASSUME IdleInv, LoyaltyInv, Reconciliation, NEW x \in Orders
    PROVE  LeftSound(x)
<1>0. /\ Still(x) /\ DecidedTogether
      /\ outbox \in [Orders -> DueRow]
  BY DEF Reconciliation, Crash, ClaimRow, Reconcile, ReconcileFails, ParkReview, ListTimed,
         QueueTimed, Still, orderVars, IdleInv, QueueInv
<1>1. CASE UNCHANGED <<accountVars, outbox>>
  BY <1>0, <1>1, KeptLeftSound DEF accountVars, SameAccount
<1>2. ASSUME NEW w \in Settlers, NEW o \in Orders, Reconcile(w, o) PROVE LeftSound(x)
  <2> DEFINE t == ReconcileInTx(o, FALSE)
  <2>1. Commit(o, t) /\ MarkDone(o)
    BY <1>2 DEF Reconcile
  <2>2. Agrees(o, t.red, t.pur) /\ Together(t.red, t.pur)
    BY <1>0, ReconcileAgrees
  <2>3. x # o => outbox'[x] = outbox[x]
    BY <1>0, <2>1 DEF MarkDone
  <2> HIDE DEF t
  <2> QED
    BY <1>0, <2>1, <2>2, <2>3, CommitLeftSound
<1>3. ASSUME NEW w \in Settlers, NEW o \in Orders, ReconcileFails(w, o) PROVE LeftSound(x)
  <2>1. SameAccount(x)
    BY <1>3 DEF ReconcileFails, accountVars, SameAccount
  <2>2. CASE outbox' = outbox
    BY <1>0, <2>1, <2>2, KeptLeftSound
  <2>3. CASE CountFailure(w, o)
    <3>1. CASE x = o
      <4>1. outbox'[x].status \in {"failed", "pending"}
        BY <1>0, <2>3, <3>1 DEF CountFailure
      <4>2. Together(red'[x], pur'[x])
        BY <1>0, <2>1 DEF DecidedTogether, SameAccount
      <4> QED
        BY <4>1, <4>2 DEF LeftSound
    <3>2. CASE x # o
      <4>1. outbox'[x] = outbox[x]
        BY <1>0, <2>3, <3>2 DEF CountFailure
      <4> QED
        BY <1>0, <2>1, <4>1, KeptLeftSound
    <3> QED
      BY <3>1, <3>2
  <2> QED
    BY <1>3, <2>2, <2>3 DEF ReconcileFails
<1>4. ASSUME NEW o \in Orders, ParkReview(o) PROVE LeftSound(x)
  <2>1. Commit(o, Parked(o)) /\ outbox' = outbox
    BY <1>4 DEF ParkReview, Parked
  <2>2. /\ Agrees(o, red[o], pur[o]) => Agrees(o, Parked(o).red, Parked(o).pur)
        /\ Together(Parked(o).red, Parked(o).pur)
    BY <1>0, ParkAgrees
  <2>3. outbox[o].status \in {"none", "done"} => Agrees(o, red[o], pur[o])
    BY DEF IdleInv, IdleAgrees
  <2> QED
    BY <1>0, <2>1, <2>2, <2>3, CommitLeftSound
<1>5. ASSUME NEW o \in Orders, QueueTimed(o) PROVE LeftSound(x)
  <2>1. SameAccount(x) /\ outbox' = Queued({o})
    BY <1>5 DEF QueueTimed, accountVars, SameAccount
  <2> QED
    BY <1>0, <2>1, QueuedLeftSound
<1>6. ASSUME NEW d \in Drivers, NEW o \in Orders, ClaimRow(d, o) PROVE LeftSound(x)
  <2>1. SameAccount(x)
    BY <1>6 DEF ClaimRow, accountVars, SameAccount
  <2>2. CASE x = o
    <3>1. outbox'[x].status = "pending" /\ Together(red'[x], pur'[x])
      BY <1>0, <1>6, <2>1, <2>2 DEF ClaimRow, DueRow, OutboxRow, DecidedTogether, SameAccount
    <3> QED
      BY <3>1 DEF LeftSound
  <2>3. CASE x # o
    <3>1. outbox'[x] = outbox[x]
      BY <1>0, <1>6, <2>3 DEF ClaimRow
    <3> QED
      BY <1>0, <2>1, <3>1, KeptLeftSound
  <2> QED
    BY <2>2, <2>3
<1> QED
  BY <1>1, <1>2, <1>3, <1>4, <1>5, <1>6 DEF Reconciliation, Crash, ListTimed

LEMMA DecisionsLeaveSound ==
    ASSUME IdleInv, LoyaltyInv, Decisions, NEW x \in Orders
    PROVE  LeftSound(x)
<1>0. /\ Still(x) /\ DecidedTogether
      /\ outbox \in [Orders -> DueRow]
  BY DEF Decisions, ResolveRedemption, ExcludePurchase, AwardPurchase, Requeue, AdjustPoints,
         SetMemberStatus, Still, orderVars, IdleInv, QueueInv
<1>1. ASSUME NEW o \in Orders, NEW t, Commit(o, t), CloseParked(o, t),
             Agrees(o, t.red, t.pur), Together(t.red, t.pur)
      PROVE  LeftSound(x)
  <2>1. x # o => outbox'[x] = outbox[x]
    BY <1>0, <1>1 DEF CloseParked
  <2> QED
    BY <1>0, <1>1, <2>1, CommitLeftSound
<1>2. ASSUME NEW o \in Orders, NEW spent \in BOOLEAN, ResolveRedemption(o, spent)
      PROVE  LeftSound(x)
  <2>1. /\ Commit(o, Resolved(o, spent)) /\ CloseParked(o, Resolved(o, spent))
        /\ red[o] = "review"
    BY <1>2 DEF ResolveRedemption, Resolved
  <2> QED
    BY <1>0, <1>1, <2>1, ResolveAgrees
<1>3. ASSUME NEW o \in Orders, ExcludePurchase(o) PROVE LeftSound(x)
  <2>1. Commit(o, Excluded(o)) /\ CloseParked(o, Excluded(o)) /\ pur[o].state = "review"
    BY <1>3 DEF ExcludePurchase, Excluded
  <2> QED
    BY <1>0, <1>1, <2>1, ExcludeAgrees
<1>4. ASSUME NEW o \in Orders, AwardPurchase(o) PROVE LeftSound(x)
  <2> DEFINE t == ReconcileInTx(o, TRUE)
  <2>1. Commit(o, t) /\ CloseParked(o, t)
    BY <1>4 DEF AwardPurchase
  <2>2. Agrees(o, t.red, t.pur) /\ Together(t.red, t.pur)
    BY <1>0, ReconcileAgrees
  <2> HIDE DEF t
  <2> QED
    BY <1>1, <2>1, <2>2
<1>5. ASSUME NEW o \in Orders, Requeue(o) PROVE LeftSound(x)
  <2>1. SameAccount(x)
    BY <1>5 DEF Requeue, accountVars, SameAccount
  <2>2. CASE outbox' = Queued({o})
    BY <1>0, <2>1, <2>2, QueuedLeftSound
  <2>3. CASE ~Tracked(o) /\ outbox' = [outbox EXCEPT ![o].status = "done"]
    <3>1. CASE x = o
      <4>1. Bare(red'[x], pur'[x]) /\ Bare(red[x], pur[x])
        BY <2>1, <2>3, <3>1 DEF Bare, Tracked, SameAccount
      <4>2. Agrees(x, red'[x], pur'[x]) /\ Together(red'[x], pur'[x])
        BY <4>1, BareAgrees
      <4> QED
        BY <1>0, <4>2, StillLeftSound
    <3>2. CASE x # o
      <4>1. outbox'[x] = outbox[x]
        BY <1>0, <2>3, <3>2
      <4> QED
        BY <1>0, <2>1, <4>1, KeptLeftSound
    <3> QED
      BY <3>1, <3>2
  <2> QED
    BY <1>5, <2>2, <2>3 DEF Requeue
<1>6. ASSUME NEW m \in Members, NEW k \in AdjustKeys, NEW d \in AdjustDeltas,
             AdjustPoints(m, k, d)
      PROVE  LeftSound(x)
  BY <1>0, <1>6, KeptLeftSound DEF AdjustPoints, queueVars, SameAccount
<1>7. ASSUME NEW m \in Members, NEW s \in MemberMoves, SetMemberStatus(m, s)
      PROVE  LeftSound(x)
  BY <1>0, <1>7, KeptLeftSound DEF SetMemberStatus, queueVars, accountVars, SameAccount
<1> QED
  BY <1>2, <1>3, <1>4, <1>5, <1>6, <1>7 DEF Decisions

LEMMA ClockLeavesSound ==
    ASSUME IdleInv, LoyaltyInv, NEW o \in Orders, Environment(o), UNCHANGED loyaltyVars,
           NEW x \in Orders
    PROVE  LeftSound(x)
<1>1. SameAccount(x) /\ outbox'[x] = outbox[x] /\ order'[x] = order[x]
  BY DEF loyaltyVars, accountVars, queueVars, SameAccount, Environment, PassTime,
         CapturePayment, DeclinePayment, ShutPage
<1>2. phase \in [Orders -> Phases]
  BY DEF LoyaltyInv, LoyaltyTypeOK, OrdersTypeOK
<1>3. \/ phase'[x] = phase[x]
      \/ phase[x] = "hold" /\ phase'[x] = "lapsed"
      \/ phase[x] = "lapsed" /\ phase'[x] = "closed"
  BY <1>2 DEF Environment, PassTime, CapturePayment, DeclinePayment, ShutPage
<1>4. CASE phase'[x] = phase[x]
  BY <1>1, <1>4, KeptLeftSound DEF Still
<1>5. CASE phase'[x] # phase[x]
  BY <1>1, <1>3, <1>5, PassedLeftSound
<1> QED
  BY <1>4, <1>5

LEMMA IdleStep ==
    ASSUME IdleInv, LoyaltyInv, [LoyaltyNext]_vars
    PROVE  IdleInv'
<1>1. QueueInv'
  BY QueueStep DEF IdleInv
<1>2. ASSUME NEW x \in Orders PROVE LeftSound(x)
  <2>1. CASE UNCHANGED vars
    <3>1. Still(x) /\ SameAccount(x) /\ outbox'[x] = outbox[x]
      BY <2>1 DEF vars, orderVars, loyaltyVars, accountVars, queueVars, Still, SameAccount
    <3> QED
      BY <3>1, KeptLeftSound
  <2> QED
    BY <2>1, HandlersLeaveSound, ReconciliationLeavesSound, DecisionsLeaveSound,
       ClockLeavesSound DEF LoyaltyNext
<1>3. DecidedTogether'
  BY <1>2 DEF LeftSound, DecidedTogether, Together
<1>4. IdleAgrees'
  BY <1>2 DEF LeftSound, IdleAgrees
<1> QED
  BY <1>1, <1>3, <1>4 DEF IdleInv

LEMMA IdleInvHolds == LoyaltySpec => [](LoyaltyInv /\ IdleInv)
<1>1. LoyaltyInit => LoyaltyInv /\ IdleInv
  <2> SUFFICES ASSUME LoyaltyInit PROVE LoyaltyInv /\ IdleInv
    OBVIOUS
  <2>1. LoyaltyInv /\ QueueInv
    BY LoyaltyStarts
  <2>2. ASSUME NEW o \in Orders PROVE Bare(red[o], pur[o])
    BY DEF LoyaltyInit, Bare, NoPurchase
  <2> QED
    BY <2>1, <2>2, BareAgrees DEF IdleInv, DecidedTogether, IdleAgrees
<1>2. LoyaltyInv /\ QueueInv /\ [LoyaltyNext]_vars => LoyaltyInv' /\ QueueInv'
  BY LoyaltyStep
<1>3. LoyaltyInv /\ IdleInv /\ [LoyaltyNext]_vars => IdleInv'
  BY IdleStep
<1>4. IdleInv => QueueInv
  BY DEF IdleInv
<1> QED
  BY <1>1, <1>2, <1>3, <1>4, PTL DEF LoyaltySpec

\* An order that is quiet agrees with its account, and a reward still bound on
\* it waits for a payment that may come.
LEMMA QuietAgrees ==
    ASSUME LoyaltyInv, IdleInv, NEW o \in Orders, Quiet(o)
    PROVE  /\ Agrees(o, red[o], pur[o])
           /\ red[o] = "bound" => Verdict(o, TRUE) = "open"
<1>1. Agrees(o, red[o], pur[o])
  BY DEF Quiet, IdleInv, IdleAgrees
<1>2. red[o] = "bound" => ~Ending(o)
  BY DEF Quiet, TimedDue, Ending
<1> QED
  BY <1>1, <1>2 DEF Agrees

\* Every cent back gives the reward back and takes every point back, whether
\* the refund, the reconciliation or an operator's decision came first
\* (applySourceRefundsInTx, applyRefundsAfterDecisionInTx).
THEOREM FullRefundIsUndone == LoyaltySpec => []FullRefundUndoes
<1>1. LoyaltyInv /\ IdleInv => FullRefundUndoes
  <2> SUFFICES ASSUME LoyaltyInv, IdleInv, NEW o \in Orders, Quiet(o),
                      order[o].refunded > 0, FullyRefunded(o)
               PROVE  /\ red[o] # "consumed"
                      /\ pur[o].state = "completed" => pur[o].reversed = pur[o].awarded
    BY DEF FullRefundUndoes
  <2>1. Agrees(o, red[o], pur[o]) /\ Full(o)
    BY QuietAgrees DEF Full
  <2>2. /\ order[o].refunded = Total[o] /\ Total[o] > 0
        /\ PointsAfter[o][order[o].refunded] = 0
    BY RowIs, OwnConstants DEF LoyaltyInv
  <2>3. /\ pur[o].awarded \in Nat /\ pur[o].reversed \in Nat
        /\ pur[o].reversed <= pur[o].awarded
    BY DEF LoyaltyInv, LoyaltyTypeOK, PurchaseRow, AccountsFit, OrderFits, SaleSums
  <2> QED
    BY <2>1, <2>2, <2>3 DEF Agrees
<1> QED
  BY <1>1, IdleInvHolds, PTL

\* The verdict finds nothing to do on an account that agrees with it.
LEMMA FollowedAlready ==
    ASSUME NEW o \in Orders, NEW t,
           t.red # "review", t.pur.state # "review",
           Agrees(o, t.red, t.pur),
           t.red = "bound" => Verdict(o, TRUE) = "open"
    PROVE  FollowVerdictInTx(o, t, FALSE) = t
<1> DEFINE verdict == Verdict(o, t.red \in HoldingStates)
<1>1. verdict \in Verdicts
  BY VerdictIs
<1>2. CASE verdict = "open"
  BY <1>2 DEF FollowVerdictInTx
<1>3. CASE verdict # "open"
  <2>1. t.red \notin HoldingStates /\ t.red # "bound"
    BY <1>3 DEF HoldingStates
  <2>2. verdict = Verdict(o, FALSE)
    <3>1. (t.red \in HoldingStates) = FALSE
      BY <2>1
    <3> QED
      BY <3>1
  <2>3. t.pur.state # "open" /\ (t.pur.state = "cancelled" => verdict = "cancelled")
    BY <1>3, <2>1, <2>2 DEF Agrees
  <2>4. ReleaseInTx(o, t) = t /\ ReviewRedemptionInTx(t) = t /\ ConsumeInTx(o, t) = t
    BY <2>1 DEF ReleaseInTx, ReviewRedemptionInTx, ConsumeInTx
  <2>5. t.pur.state \notin Unsettled
    BY <2>3 DEF Unsettled
  <2>6. CASE verdict = "cancelled"
    BY <2>4, <2>5, <2>6 DEF FollowVerdictInTx
  <2>7. CASE verdict = "review"
    BY <2>3, <2>4, <2>5, <2>7 DEF FollowVerdictInTx, Reopenable
  <2>8. CASE verdict = "completed"
    <3>1. SettlePurchaseInTx(o, t, FALSE) = t
      BY <2>3, <2>5, <2>8 DEF SettlePurchaseInTx, Reopenable
    <3> QED
      BY <2>4, <2>8, <3>1 DEF FollowVerdictInTx
  <2> QED
    BY <1>1, <1>3, <2>6, <2>7, <2>8 DEF Verdicts
<1> QED
  BY <1>2, <1>3

\* Nor do the refunds.
LEMMA RefundsTakenAlready ==
    ASSUME LoyaltyTypeOK, NEW o \in Orders, NEW t \in Account,
           Agrees(o, t.red, t.pur),
           t.pur.state = "completed" => t.pur.refunded = order[o].refunded
    PROVE  ApplySourceRefundsInTx(o, t) = t
<1>1. CASE order[o].refunded = 0
  BY <1>1 DEF ApplySourceRefundsInTx
<1>2. CASE order[o].refunded # 0
  <2>1. order[o].refunded > 0 /\ order[o].refunded \in 0 .. Total[o]
    BY <1>2, RowIs
  <2>2. ApplyPurchaseRefundsInTx(o, t) = t
    <3>1. CASE t.pur.state # "completed"
      BY <3>1 DEF ApplyPurchaseRefundsInTx
    <3>2. CASE t.pur.state = "completed"
      <4>1. t.pur.awarded \in Nat /\ t.pur.reversed \in Nat
        BY DEF Account, PurchaseRow
      <4>2. PointsAfter[o][order[o].refunded] \in Nat
        BY <2>1, OwnConstants
      <4>3. t.pur.awarded - PointsAfter[o][order[o].refunded] <= t.pur.reversed
        BY <2>1, <3>2 DEF Agrees
      <4>4. t.pur.awarded - PointsAfter[o][t.pur.refunded] - t.pur.reversed <= 0
        BY <3>2, <4>1, <4>2, <4>3
      <4> QED
        BY <4>4 DEF ApplyPurchaseRefundsInTx
    <3> QED
      BY <3>1, <3>2
  <2>3. FullyRefunded(o) => RestoreInTx(o, t) = t
    BY <2>1 DEF RestoreInTx, Agrees, Full
  <2> QED
    BY <1>2, <2>2, <2>3 DEF ApplySourceRefundsInTx
<1> QED
  BY <1>1, <1>2

\* Taking the order's refund total over touches nothing else.
LEMMA SyncOnly ==
    ASSUME NEW o \in Orders, pur[o] \in PurchaseRow
    PROVE  [SyncRefundedInTx(o, Current(o)) EXCEPT !.pur.refunded = pur[o].refunded]
             = Current(o)
<1> DEFINE t == Current(o)
<1>1. t.pur = pur[o]
  BY DEF Current
<1>2. [t EXCEPT !.pur.refunded = pur[o].refunded] = t
  BY DEF Current, PurchaseRow
<1>3. CASE pur[o].state = "none" \/ order[o].refunded <= pur[o].refunded
  <2>1. SyncRefundedInTx(o, t) = t
    BY <1>1, <1>3 DEF SyncRefundedInTx
  <2> QED
    BY <1>2, <2>1
<1>4. CASE ~(pur[o].state = "none" \/ order[o].refunded <= pur[o].refunded)
  <2>1. SyncRefundedInTx(o, t) = [t EXCEPT !.pur.refunded = order[o].refunded]
    BY <1>1, <1>4 DEF SyncRefundedInTx
  <2> DEFINE n == order[o].refunded
             p == [pur[o] EXCEPT !.refunded = n]
             u == [red |-> red[o], pur |-> p, points |-> points[Owner[o]],
                   reserved |-> reserved[Owner[o]], ledger |-> ledger]
  <2>2. [t EXCEPT !.pur.refunded = n] = u
    BY DEF Current
  <2>3. [p EXCEPT !.refunded = pur[o].refunded] = pur[o]
    BY DEF PurchaseRow
  <2>4. u.pur = p
    OBVIOUS
  <2>5. [u EXCEPT !.pur = pur[o]] = t
    BY DEF Current
  <2>6. [u EXCEPT !.pur.refunded = pur[o].refunded]
          = [u EXCEPT !.pur = [p EXCEPT !.refunded = pur[o].refunded]]
    BY <2>4
  <2> HIDE DEF p, u
  <2> QED
    BY <2>1, <2>2, <2>3, <2>5, <2>6
<1> QED
  BY <1>3, <1>4

\* Once nothing is queued and no operator is asked, reconciling again changes
\* nothing but the copy of the refund total on a sale that never earned
\* (reconcileSourceInTx, and the rows a handler or the tick leaves due).
THEOREM QuietStaysSettled == LoyaltySpec => []QuietIsSettled
<1>1. LoyaltyInv /\ IdleInv => QuietIsSettled
  <2> SUFFICES ASSUME LoyaltyInv, IdleInv, NEW o \in Orders, Quiet(o),
                      red[o] # "review", pur[o].state # "review"
               PROVE  [ReconcileInTx(o, FALSE) EXCEPT !.pur.refunded = pur[o].refunded]
                        = Current(o)
    BY DEF QuietIsSettled
  <2> DEFINE v == SyncRefundedInTx(o, Current(o))
  <2>1. LoyaltyTypeOK /\ pur[o] \in PurchaseRow
    BY DEF LoyaltyInv, LoyaltyTypeOK
  <2>2. [v EXCEPT !.pur.refunded = pur[o].refunded] = Current(o)
    BY <2>1, SyncOnly
  <2>3. /\ Fits(o, Current(o)) /\ Current(o).red = red[o] /\ Current(o).pur = pur[o]
        /\ Current(o).pur.refunded <= order[o].refunded
    BY CurrentFits
  <2>4. CASE ~Tracked(o)
    <3>1. ReconcileInTx(o, FALSE) = Current(o)
      BY <2>4 DEF ReconcileInTx
    <3>2. [Current(o) EXCEPT !.pur.refunded = pur[o].refunded] = Current(o)
      BY <2>1 DEF Current, PurchaseRow
    <3> QED
      BY <3>1, <3>2
  <2>5. CASE Tracked(o)
    <3>1. /\ v \in Account /\ v.red = red[o] /\ v.pur.state = pur[o].state
          /\ pur[o].state # "none" => v.pur.refunded = order[o].refunded
      <4> DEFINE t == Current(o)
      <4>1. /\ Fits(o, t) /\ t.red = red[o] /\ t.pur = pur[o]
            /\ t.pur.refunded <= order[o].refunded
        BY <2>3
      <4> HIDE DEF t
      <4>2. /\ Fits(o, SyncRefundedInTx(o, t)) /\ SyncRefundedInTx(o, t).red = t.red
            /\ SyncRefundedInTx(o, t).pur.state = t.pur.state
            /\ t.pur.state # "none" =>
                 SyncRefundedInTx(o, t).pur.refunded = order[o].refunded
        BY <2>1, <4>1, SyncFits
      <4> QED
        BY <4>1, <4>2 DEF Fits, t
    <3>2. v.pur.awarded = pur[o].awarded /\ v.pur.reversed = pur[o].reversed
      BY <2>1 DEF SyncRefundedInTx, Current, PurchaseRow
    <3>3. /\ Agrees(o, red[o], pur[o])
          /\ red[o] = "bound" => Verdict(o, TRUE) = "open"
      BY QuietAgrees
    <3>4. ReconcileInTx(o, FALSE) = ApplySourceRefundsInTx(o, FollowVerdictInTx(o, v, FALSE))
      BY <2>5 DEF ReconcileInTx
    <3> HIDE DEF v
    <3>5. Agrees(o, v.red, v.pur)
      BY <3>1, <3>2, <3>3 DEF Agrees
    <3>6. FollowVerdictInTx(o, v, FALSE) = v
      BY <3>1, <3>3, <3>5, FollowedAlready
    <3>7. ApplySourceRefundsInTx(o, v) = v
      BY <2>1, <3>1, <3>5, RefundsTakenAlready
    <3> QED
      BY <2>2, <3>4, <3>6, <3>7
  <2> QED
    BY <2>4, <2>5
<1> QED
  BY <1>1, IdleInvHolds, PTL

-----------------------------------------------------------------------------
\* The wallet: what one order's transaction moves

LEMMA LedgerUnion ==
    ASSUME NEW A \in Ledgers, NEW B \in Ledgers, A \cap B = {}
    PROVE  PointsIn(A \union B) = PointsIn(A) + PointsIn(B)
<1> DEFINE D == A \union B
           f == [e \in D |-> e.points]
           a == [e \in A |-> e.points]
           b == [e \in B |-> e.points]
<1>1. IsFiniteSet(D) /\ D \subseteq LedgerEntry /\ A \in SUBSET D /\ B \in SUBSET D
  BY FS_Union DEF Ledgers
<1>2. \A e \in LedgerEntry : e.points \in Nat
  BY DEF LedgerEntry
<1>3. \A e \in A : f[e] = a[e]
  OBVIOUS
<1>4. \A e \in B : f[e] = b[e]
  OBVIOUS
<1>5. /\ PointsIn(D) = Sum(D, f)
      /\ PointsIn(A) = Sum(A, a) /\ PointsIn(B) = Sum(B, b)
  BY DEF PointsIn
<1>6. D = A \union B
  OBVIOUS
<1> HIDE DEF D
<1>7. f \in [D -> Nat]
  BY <1>1, <1>2
<1> HIDE DEF f, a, b
<1>8. Sum(A, f) = Sum(A, a) /\ Sum(B, f) = Sum(B, b)
  BY <1>3, <1>4, SumSame
<1>9. Sum(A \union B, f) = Sum(A, f) + Sum(B, f)
  BY <1>1, <1>7, SumUnion
<1> QED
  BY <1>5, <1>6, <1>8, <1>9

\* The entries a transaction adds, by kind.
Added(t, o, kind) == PointsIn(OfIn(t.ledger \ ledger, o, kind))

LEMMA AddedByKind ==
    ASSUME LoyaltyInv, NEW o \in Orders, NEW t, Fits(o, t)
    PROVE  /\ \A k \in OrderKinds :
                /\ Added(t, o, k) \in Nat
                /\ PointsIn(OfIn(ledger, o, k)) \in Nat
                /\ PointsIn(OfIn(t.ledger, o, k))
                     = PointsIn(OfIn(ledger, o, k)) + Added(t, o, k)
           /\ t.points = points[Owner[o]]
                + (Added(t, o, "earn") - Added(t, o, "reverse"))
                - (Added(t, o, "redeem") - Added(t, o, "restore"))
<1> DEFINE L == t.ledger
           N == L \ ledger
           m == Owner[o]
<1>0. /\ ledger \subseteq L
      /\ \A e \in N : e.src = o /\ e.member = m /\ e.kind \in OrderKinds
      /\ PointsFit(o, t) /\ t \in Account
  BY DEF Fits, Grown
<1>1. ledger \in Ledgers /\ L \in Ledgers /\ N \in Ledgers
  <2>1. L \in Ledgers
    BY <1>0 DEF Account
  <2>2. \A T \in SUBSET L : T \in Ledgers
    BY <2>1, FS_Subset DEF Ledgers
  <2> QED
    BY <1>0, <2>1, <2>2
<1>2. points[m] = PointsIn(PostsIn(ledger, Credits, m)) - PointsIn(PostsIn(ledger, Debits, m))
  <2>1. PointsFit(o, Current(o)) /\ Current(o).ledger = ledger /\ Current(o).points = points[m]
    BY CurrentFits DEF Fits, Current
  <2> QED
    BY <2>1 DEF PointsFit
<1>3. t.points = PointsIn(PostsIn(L, Credits, m)) - PointsIn(PostsIn(L, Debits, m))
  BY <1>0 DEF PointsFit
<1> HIDE DEF L
<1>4. L = ledger \union N /\ ledger \cap N = {}
  BY <1>0
<1> HIDE DEF N
<1>5. \A k \in OrderKinds :
        /\ PointsIn(OfIn(N, o, k)) \in Nat
        /\ PointsIn(OfIn(ledger, o, k)) \in Nat
        /\ PointsIn(OfIn(L, o, k)) = PointsIn(OfIn(ledger, o, k)) + PointsIn(OfIn(N, o, k))
  <2> TAKE k \in OrderKinds
  <2>1. OfIn(L, o, k) = OfIn(ledger, o, k) \union OfIn(N, o, k)
        /\ OfIn(ledger, o, k) \cap OfIn(N, o, k) = {}
    BY <1>4 DEF OfIn
  <2>2. OfIn(ledger, o, k) \in Ledgers /\ OfIn(N, o, k) \in Ledgers
    BY <1>1, LedgerParts
  <2> QED
    BY <2>1, <2>2, LedgerUnion, EntryPoints
<1>6. ASSUME NEW kinds, NEW a \in OrderKinds, NEW b \in OrderKinds, a # b,
             \A k \in OrderKinds : k \in kinds <=> k \in {a, b}
      PROVE  /\ PointsIn(PostsIn(ledger, kinds, m)) \in Nat
             /\ PointsIn(PostsIn(L, kinds, m)) = PointsIn(PostsIn(ledger, kinds, m))
                  + (PointsIn(OfIn(N, o, a)) + PointsIn(OfIn(N, o, b)))
  <2>1. PostsIn(N, kinds, m) = OfIn(N, o, a) \union OfIn(N, o, b)
        /\ OfIn(N, o, a) \cap OfIn(N, o, b) = {}
    BY <1>0, <1>6 DEF PostsIn, OfIn
  <2>2. PostsIn(L, kinds, m) = PostsIn(ledger, kinds, m) \union PostsIn(N, kinds, m)
        /\ PostsIn(ledger, kinds, m) \cap PostsIn(N, kinds, m) = {}
    BY <1>4 DEF PostsIn
  <2>3. /\ OfIn(N, o, a) \in Ledgers /\ OfIn(N, o, b) \in Ledgers
        /\ PostsIn(ledger, kinds, m) \in Ledgers /\ PostsIn(N, kinds, m) \in Ledgers
    BY <1>1, LedgerParts
  <2>4. PointsIn(PostsIn(N, kinds, m)) = PointsIn(OfIn(N, o, a)) + PointsIn(OfIn(N, o, b))
    BY <2>1, <2>3, LedgerUnion
  <2>5. PointsIn(PostsIn(L, kinds, m))
          = PointsIn(PostsIn(ledger, kinds, m)) + PointsIn(PostsIn(N, kinds, m))
    BY <2>2, <2>3, LedgerUnion
  <2> QED
    BY <2>3, <2>4, <2>5, EntryPoints
<1>7. /\ PointsIn(PostsIn(ledger, Credits, m)) \in Nat
      /\ PointsIn(PostsIn(L, Credits, m)) = PointsIn(PostsIn(ledger, Credits, m))
           + (PointsIn(OfIn(N, o, "earn")) + PointsIn(OfIn(N, o, "restore")))
  <2>1. \A k \in OrderKinds : k \in Credits <=> k \in {"earn", "restore"}
    BY DEF OrderKinds, Credits
  <2>2. "earn" \in OrderKinds /\ "restore" \in OrderKinds /\ "earn" # "restore"
    BY DEF OrderKinds
  <2> QED
    BY <1>6, <2>1, <2>2
<1>8. /\ PointsIn(PostsIn(ledger, Debits, m)) \in Nat
      /\ PointsIn(PostsIn(L, Debits, m)) = PointsIn(PostsIn(ledger, Debits, m))
           + (PointsIn(OfIn(N, o, "reverse")) + PointsIn(OfIn(N, o, "redeem")))
  <2>1. \A k \in OrderKinds : k \in Debits <=> k \in {"reverse", "redeem"}
    BY DEF OrderKinds, Debits
  <2>2. "reverse" \in OrderKinds /\ "redeem" \in OrderKinds /\ "reverse" # "redeem"
    BY DEF OrderKinds
  <2> QED
    BY <1>6, <2>1, <2>2
<1>9. \A k : Added(t, o, k) = PointsIn(OfIn(N, o, k))
  BY DEF Added, N, L
<1>10. t.points = points[m] + (Added(t, o, "earn") - Added(t, o, "reverse"))
                            - (Added(t, o, "redeem") - Added(t, o, "restore"))
  <2>1. \A k \in OrderKinds : Added(t, o, k) \in Nat
    BY <1>5, <1>9
  <2>2. {"earn", "restore", "reverse", "redeem"} = OrderKinds
    BY DEF OrderKinds
  <2>3. /\ Added(t, o, "earn") \in Nat /\ Added(t, o, "reverse") \in Nat
        /\ Added(t, o, "redeem") \in Nat /\ Added(t, o, "restore") \in Nat
    BY <2>1, <2>2
  <2> DEFINE in == PointsIn(PostsIn(ledger, Credits, m))
             out == PointsIn(PostsIn(ledger, Debits, m))
             in2 == PointsIn(PostsIn(L, Credits, m))
             out2 == PointsIn(PostsIn(L, Debits, m))
  <2>4. /\ in \in Nat /\ in2 = in + (Added(t, o, "earn") + Added(t, o, "restore"))
        /\ out \in Nat /\ out2 = out + (Added(t, o, "reverse") + Added(t, o, "redeem"))
        /\ points[m] = in - out /\ t.points = in2 - out2
    BY <1>2, <1>3, <1>7, <1>8, <1>9
  <2> HIDE DEF in, out, in2, out2
  <2> QED
    BY <2>3, <2>4
<1> QED
  BY <1>5, <1>9, <1>10 DEF L

\* A transaction that fits moves the owner's points by what the order's sale
\* and reward account for, and neither earns nor gives back less than before.
LEMMA OwnShare ==
    ASSUME LoyaltyInv, NEW o \in Orders, NEW t, Fits(o, t)
    PROVE  /\ t.points = points[Owner[o]] + (Kept(t.pur) - Kept(pur[o]))
                - (Wallet!SpentOn(o, RewardOf(t.red)) - Wallet!SpentOn(o, RewardOf(red[o])))
           /\ t.reserved = reserved[Owner[o]] - Wallet!HoldOf(o, RewardOf(red[o]))
                + Wallet!HoldOf(o, RewardOf(t.red))
           /\ Kept(t.pur) \in 0 .. Award[o] /\ Kept(pur[o]) \in 0 .. Award[o]
           /\ RewardOf(t.red) \in Wallet!Rewards
           /\ pur[o].awarded = 0 => Kept(pur[o]) = 0
           /\ t.pur.awarded = 0 => Kept(t.pur) = 0
           /\ pur[o].awarded > 0 =>
                t.pur.awarded > 0 /\ Kept(t.pur) <= Kept(pur[o])
<1> DEFINE c == Current(o)
           p == pur[o]
           q == t.pur
           r == red[o]
           s == t.red
<1>0. /\ t \in Account /\ OrderFits(o, s, q, t.ledger) /\ HoldFits(o, t)
  BY DEF Fits
<1>1. /\ Fits(o, c) /\ c.red = r /\ c.pur = p /\ c.ledger = ledger
      /\ c.reserved = reserved[Owner[o]]
  BY CurrentFits DEF Current
<1>2. OrderFits(o, r, p, ledger) /\ HoldFits(o, c)
  BY <1>1 DEF Fits
<1>3. /\ p \in PurchaseRow /\ q \in PurchaseRow /\ r \in RedStates /\ s \in RedStates
      /\ reserved[Owner[o]] \in Nat /\ t.reserved \in Int
      /\ Cost[o] \in Nat /\ Award[o] \in Nat
      /\ Sum(OtherHolds(o), Cost) \in Nat
  BY <1>0, OwnConstants, OthersHold DEF LoyaltyInv, LoyaltyTypeOK, Account
<1>4. /\ p.awarded \in Nat /\ p.reversed \in Nat /\ q.awarded \in Nat /\ q.reversed \in Nat
  BY <1>3 DEF PurchaseRow
<1>5. /\ Wallet!SpentOn(o, RewardOf(r)) = (IF r = "consumed" THEN Cost[o] ELSE 0)
      /\ Wallet!SpentOn(o, RewardOf(s)) = (IF s = "consumed" THEN Cost[o] ELSE 0)
      /\ Wallet!HoldOf(o, RewardOf(r)) = (IF r \in HoldingStates THEN Cost[o] ELSE 0)
      /\ Wallet!HoldOf(o, RewardOf(s)) = (IF s \in HoldingStates THEN Cost[o] ELSE 0)
      /\ RewardOf(s) \in Wallet!Rewards
  <2>1. ASSUME NEW x \in RedStates
        PROVE  /\ RewardOf(x) = "spent" <=> x = "consumed"
               /\ RewardOf(x) = "held" <=> x \in HoldingStates
               /\ RewardOf(x) \in {"none", "held", "spent", "released", "restored"}
    BY DEF RewardOf, RedStates
  <2> QED
    BY <1>3, <2>1 DEF Wallet!SpentOn, Wallet!HoldOf, Wallet!Rewards
<1>6. t.reserved = reserved[Owner[o]] - Wallet!HoldOf(o, RewardOf(r))
                     + Wallet!HoldOf(o, RewardOf(s))
  BY <1>0, <1>1, <1>2, <1>3, <1>5 DEF HoldFits
<1> DEFINE earn == Added(t, o, "earn")
           reverse == Added(t, o, "reverse")
           redeem == Added(t, o, "redeem")
           restore == Added(t, o, "restore")
<1>7. /\ earn \in Nat /\ reverse \in Nat /\ redeem \in Nat /\ restore \in Nat
      /\ PointsIn(OfIn(t.ledger, o, "earn")) = PointsIn(OfIn(ledger, o, "earn")) + earn
      /\ PointsIn(OfIn(t.ledger, o, "reverse")) = PointsIn(OfIn(ledger, o, "reverse")) + reverse
      /\ PointsIn(OfIn(t.ledger, o, "redeem")) = PointsIn(OfIn(ledger, o, "redeem")) + redeem
      /\ PointsIn(OfIn(t.ledger, o, "restore")) = PointsIn(OfIn(ledger, o, "restore")) + restore
  <2>1. OrderKinds = {"earn", "restore", "reverse", "redeem"}
    BY DEF OrderKinds
  <2> QED
    BY <2>1, AddedByKind
<1>8. t.points = points[Owner[o]] + (earn - reverse) - (redeem - restore)
  BY AddedByKind
<1> HIDE DEF earn, reverse, redeem, restore
<1>9. /\ q.awarded = p.awarded + earn /\ q.reversed = p.reversed + reverse
      /\ p.awarded \in {0, Award[o]} /\ q.awarded \in {0, Award[o]}
      /\ p.reversed <= p.awarded /\ q.reversed <= q.awarded
  BY <1>0, <1>2, <1>4, <1>7 DEF OrderFits, SaleSums
<1>10. redeem - restore = (IF s = "consumed" THEN Cost[o] ELSE 0)
                            - (IF r = "consumed" THEN Cost[o] ELSE 0)
  BY <1>0, <1>2, <1>3, <1>7 DEF OrderFits, RewardSums
<1>11. points[Owner[o]] \in Int
  BY OwnConstants DEF LoyaltyInv, LoyaltyTypeOK
<1>12. earn - reverse = Kept(q) - Kept(p)
  BY <1>4, <1>7, <1>9 DEF Kept
<1>13. t.points = points[Owner[o]] + (Kept(q) - Kept(p))
                    - (Wallet!SpentOn(o, RewardOf(s)) - Wallet!SpentOn(o, RewardOf(r)))
  BY <1>5, <1>8, <1>10, <1>12
<1>14. /\ Kept(q) \in 0 .. Award[o] /\ Kept(p) \in 0 .. Award[o]
       /\ p.awarded = 0 => Kept(p) = 0
       /\ q.awarded = 0 => Kept(q) = 0
       /\ p.awarded > 0 => q.awarded > 0 /\ Kept(q) <= Kept(p)
  <2> HIDE DEF p, q
  <2> QED
    BY <1>3, <1>4, <1>7, <1>9 DEF Kept
<1> QED
  BY <1>5, <1>6, <1>13, <1>14

-----------------------------------------------------------------------------
\* The wallet: every step is one of PointsWallet's or changes nothing of it

RewardMap == [o \in Orders |-> RewardOf(red[o])]
EarnedSet == {o \in Orders : pur[o].awarded > 0}
KeptMap   == [o \in Orders |-> Kept(pur[o])]
Adjusted  == {<<e.member, e.src>> : e \in ByHand}

WalletVars == <<points, reserved, RewardMap, EarnedSet, KeptMap, Adjusted>>

LEMMA WalletSettle ==
    \A o, r, k :
      Wallet!Settle(o, r, k) <=>
        /\ r \in Wallet!Onward(RewardMap[o])
        /\ \/ k = KeptMap[o] /\ EarnedSet' = EarnedSet
           \/ o \notin EarnedSet /\ EarnedSet' = EarnedSet \union {o}
           \/ o \in EarnedSet /\ k <= KeptMap[o] /\ EarnedSet' = EarnedSet
        /\ RewardMap' = [RewardMap EXCEPT ![o] = r]
        /\ KeptMap' = [KeptMap EXCEPT ![o] = k]
        /\ reserved' = [reserved EXCEPT ![Owner[o]] =
              @ - Wallet!HoldOf(o, RewardMap[o]) + Wallet!HoldOf(o, r)]
        /\ points' = [points EXCEPT ![Owner[o]] =
              @ + (k - KeptMap[o])
                - (Wallet!SpentOn(o, r) - Wallet!SpentOn(o, RewardMap[o]))]
        /\ Adjusted' = Adjusted
  BY DEF Wallet!Settle, Wallet!Earns, RewardMap, EarnedSet, KeptMap, Adjusted

\* Manual adjustments are told apart by their key alone.
HandFits == \A e \in ByHand : e.nth = 0

LEMMA ByHandKept ==
    ASSUME NEW o, NEW t, Fits(o, t), Commit(o, t)
    PROVE  ByHand' = ByHand
<1>1. /\ ledger' = t.ledger /\ ledger \subseteq t.ledger
      /\ \A e \in t.ledger \ ledger : e.kind \in OrderKinds
  BY DEF Fits, Grown, Commit
<1> QED
  BY <1>1 DEF ByHand, OrderKinds

\* What a commit writes of the wallet.
LEMMA CommitMaps ==
    ASSUME LoyaltyInv, NEW o \in Orders, NEW t, Fits(o, t), Commit(o, t)
    PROVE  /\ RewardMap[o] = RewardOf(red[o]) /\ KeptMap[o] = Kept(pur[o])
           /\ RewardMap' = [RewardMap EXCEPT ![o] = RewardOf(t.red)]
           /\ KeptMap' = [KeptMap EXCEPT ![o] = Kept(t.pur)]
           /\ EarnedSet' = (EarnedSet \ {o}) \union {x \in {o} : t.pur.awarded > 0}
           /\ points' = [points EXCEPT ![Owner[o]] = t.points]
           /\ reserved' = [reserved EXCEPT ![Owner[o]] = t.reserved]
           /\ Adjusted' = Adjusted
<1>1. /\ red'[o] = t.red /\ pur'[o] = t.pur
      /\ \A x \in Orders \ {o} : red'[x] = red[x] /\ pur'[x] = pur[x]
  BY CommitFits
<1>2. Adjusted' = Adjusted
  BY ByHandKept DEF Adjusted
<1>3. RewardMap' = [RewardMap EXCEPT ![o] = RewardOf(t.red)]
  BY <1>1 DEF RewardMap
<1>4. KeptMap' = [KeptMap EXCEPT ![o] = Kept(t.pur)]
  BY <1>1 DEF KeptMap
<1>5. EarnedSet' = (EarnedSet \ {o}) \union {x \in {o} : t.pur.awarded > 0}
  BY <1>1 DEF EarnedSet
<1> QED
  BY <1>2, <1>3, <1>4, <1>5 DEF Commit, RewardMap, KeptMap

\* A reward only goes forward.
LEMMA GoesOnward ==
    ASSUME NEW o \in Orders, NEW r \in RedStates, NEW s \in RedStates, RedMove(o, r, s)
    PROVE  RewardOf(s) \in Wallet!Onward(RewardOf(r))
<1>1. CASE s = r
  BY <1>1 DEF Wallet!Onward
<1>2. CASE s # r
  <2>1. r \in {"bound", "review", "consumed"} /\ s # "none"
        /\ (r = "consumed" => s = "restored")
    BY <1>2 DEF RedMove, RedStates
  <2>2. CASE r = "consumed"
    BY <2>1, <2>2 DEF RewardOf, Wallet!Onward
  <2>3. CASE r \in {"bound", "review"}
    <3>1. RewardOf(r) = "held"
      BY <2>3 DEF RewardOf
    <3>2. RewardOf(s) \in {"held", "spent", "released", "restored"}
      BY <2>1 DEF RewardOf, RedStates
    <3> QED
      BY <3>1, <3>2 DEF Wallet!Onward
  <2> QED
    BY <2>1, <2>2, <2>3
<1> QED
  BY <1>1, <1>2

\* A reconciliation, a review or a decision settles its order.
LEMMA SettlesInWallet ==
    ASSUME LoyaltyInv, NEW o \in Orders, Settles(o)
    PROVE  Wallet!WalletNext
<1>1. PICK t : Sound(o, t) /\ Commit(o, t)
  BY DEF Settles
<1>2. Fits(o, t) /\ RedMove(o, red[o], t.red) /\ t.red \in RedStates /\ t.pur \in PurchaseRow
  BY <1>1 DEF Sound, Fits, Account
<1>3. red[o] \in RedStates /\ pur[o] \in PurchaseRow
  BY DEF LoyaltyInv, LoyaltyTypeOK
<1> DEFINE s == RewardOf(t.red)
           k == Kept(t.pur)
<1>4. /\ t.points = points[Owner[o]] + (k - Kept(pur[o]))
            - (Wallet!SpentOn(o, s) - Wallet!SpentOn(o, RewardOf(red[o])))
      /\ t.reserved = reserved[Owner[o]] - Wallet!HoldOf(o, RewardOf(red[o]))
            + Wallet!HoldOf(o, s)
      /\ k \in 0 .. Award[o] /\ s \in Wallet!Rewards
  BY <1>2, OwnShare
<1>5. /\ pur[o].awarded = 0 => Kept(pur[o]) = 0
      /\ t.pur.awarded = 0 => k = 0
      /\ pur[o].awarded > 0 => t.pur.awarded > 0 /\ k <= Kept(pur[o])
  BY <1>2, OwnShare
<1>6. /\ RewardMap[o] = RewardOf(red[o]) /\ KeptMap[o] = Kept(pur[o])
      /\ RewardMap' = [RewardMap EXCEPT ![o] = s]
      /\ KeptMap' = [KeptMap EXCEPT ![o] = k]
      /\ EarnedSet' = (EarnedSet \ {o}) \union {x \in {o} : t.pur.awarded > 0}
      /\ points' = [points EXCEPT ![Owner[o]] = t.points]
      /\ reserved' = [reserved EXCEPT ![Owner[o]] = t.reserved]
      /\ Adjusted' = Adjusted
  BY <1>1, <1>2, CommitMaps
<1>7. s \in Wallet!Onward(RewardMap[o])
  BY <1>2, <1>3, <1>6, GoesOnward
<1>8. \/ k = KeptMap[o] /\ EarnedSet' = EarnedSet
      \/ o \notin EarnedSet /\ EarnedSet' = EarnedSet \union {o}
      \/ o \in EarnedSet /\ k <= KeptMap[o] /\ EarnedSet' = EarnedSet
  <2>1. pur[o].awarded \in Nat /\ t.pur.awarded \in Nat
        /\ (o \in EarnedSet <=> pur[o].awarded > 0)
    BY <1>2, <1>3 DEF PurchaseRow, EarnedSet
  <2>2. CASE o \in EarnedSet
    BY <1>5, <1>6, <2>1, <2>2
  <2>3. CASE o \notin EarnedSet /\ t.pur.awarded > 0
    BY <1>6, <2>3
  <2>4. CASE o \notin EarnedSet /\ ~(t.pur.awarded > 0)
    BY <1>5, <1>6, <2>1, <2>4
  <2> QED
    BY <2>2, <2>3, <2>4
<1> HIDE DEF s, k
<1>9. Wallet!Settle(o, s, k)
  BY <1>4, <1>6, <1>7, <1>8, WalletSettle
<1> QED
  BY <1>4, <1>9 DEF Wallet!WalletNext

\* An order that is placed changes nothing of the wallet without a reward.
LEMMA PlaceInWallet ==
    ASSUME LoyaltyInv, NEW o \in Orders, NEW m \in Methods, Place(o, m)
    PROVE  UNCHANGED WalletVars
<1>1. /\ order[o].status = "none" /\ pur' = [pur EXCEPT ![o] = Claimed(o)]
      /\ UNCHANGED <<red, points, reserved, ledger>>
  BY DEF Place, PlaceOrder
<1>2. /\ pur[o] = NoPurchase /\ Claimed(o).awarded = 0 /\ Claimed(o).reversed = 0
      /\ pur \in [Orders -> PurchaseRow]
  BY <1>1, NotPlaced DEF LoyaltyInv, LoyaltyTypeOK
<1>3. \A x \in Orders : pur'[x].awarded = pur[x].awarded /\ pur'[x].reversed = pur[x].reversed
  BY <1>1, <1>2 DEF NoPurchase
<1>4. EarnedSet' = EarnedSet /\ KeptMap' = KeptMap
  BY <1>3 DEF EarnedSet, KeptMap, Kept
<1> QED
  BY <1>1, <1>4 DEF WalletVars, RewardMap, Adjusted, ByHand

\* With one, it holds the points.
LEMMA HoldInWallet ==
    ASSUME LoyaltyInv, NEW o \in Orders, NEW m \in Methods, PlaceWithReward(o, m)
    PROVE  Wallet!WalletNext
<1>1. /\ order[o].status = "none" /\ pur' = [pur EXCEPT ![o] = Claimed(o)]
      /\ red' = [red EXCEPT ![o] = "bound"]
      /\ reserved' = [reserved EXCEPT ![Owner[o]] = @ + Cost[o]]
      /\ CanSpend(o) /\ UNCHANGED <<points, ledger>>
  BY DEF PlaceWithReward, PlaceOrder
<1>2. /\ red[o] = "none" /\ pur[o] = NoPurchase
      /\ Claimed(o).awarded = 0 /\ Claimed(o).reversed = 0
      /\ pur \in [Orders -> PurchaseRow] /\ red \in [Orders -> RedStates]
  BY <1>1, NotPlaced DEF LoyaltyInv, LoyaltyTypeOK
<1>3. \A x \in Orders : pur'[x].awarded = pur[x].awarded /\ pur'[x].reversed = pur[x].reversed
  BY <1>1, <1>2 DEF NoPurchase
<1>4. EarnedSet' = EarnedSet /\ KeptMap' = KeptMap /\ Adjusted' = Adjusted
  BY <1>1, <1>3 DEF EarnedSet, KeptMap, Kept, Adjusted, ByHand
<1>5. RewardMap[o] = "none" /\ RewardMap' = [RewardMap EXCEPT ![o] = "held"]
  BY <1>1, <1>2 DEF RewardMap, RewardOf
<1>6. reserved[Owner[o]] + Cost[o] <= points[Owner[o]]
  BY <1>1, OwnConstants DEF CanSpend, LoyaltyInv, LoyaltyTypeOK
<1>7. Wallet!Hold(o)
  BY <1>1, <1>4, <1>5, <1>6 DEF Wallet!Hold, RewardMap, EarnedSet, KeptMap, Adjusted
<1> QED
  BY <1>7 DEF Wallet!WalletNext

\* An adjustment counts under its key, once.
LEMMA AdjustInWallet ==
    ASSUME LoyaltyInv, HandFits, NEW m \in Members, NEW k \in AdjustKeys,
           NEW d \in AdjustDeltas, AdjustPoints(m, k, d)
    PROVE  Wallet!WalletNext \/ UNCHANGED WalletVars
<1> DEFINE e == [kind |-> IF d > 0 THEN "credit" ELSE "debit", src |-> k,
                 nth |-> 0, member |-> m, points |-> IF d > 0 THEN d ELSE -d]
           s == [ledger |-> ledger, points |-> points[m]]
<1>1. /\ e.src = k /\ e.member = m /\ e.nth = 0 /\ e.kind \in {"credit", "debit"}
      /\ Delta(e) = d
  BY LoyaltyAssumption DEF Delta, Credits
<1>2. /\ ledger' = PostInTx(s, e).ledger
      /\ points' = [points EXCEPT ![m] = PostInTx(s, e).points]
      /\ red' = red /\ pur' = pur /\ reserved' = reserved
  BY DEF AdjustPoints
<1>3. points \in [Members -> Int] /\ s.ledger = ledger /\ s.points = points[m]
  BY DEF LoyaltyInv, LoyaltyTypeOK
<1>4. RewardMap' = RewardMap /\ EarnedSet' = EarnedSet /\ KeptMap' = KeptMap
  BY <1>2 DEF RewardMap, EarnedSet, KeptMap
<1>5. CASE Posted(s, e)
  <2>1. PostInTx(s, e) = s
    BY <1>5 DEF PostInTx
  <2> HIDE DEF s, e
  <2>2. ledger' = ledger /\ points' = points
    BY <1>2, <1>3, <2>1
  <2> QED
    BY <1>2, <1>4, <2>2 DEF WalletVars, Adjusted, ByHand
<1>6. CASE ~Posted(s, e)
  <2>1. PostInTx(s, e).ledger = ledger \union {e} /\ PostInTx(s, e).points = points[m] + Delta(e)
    BY <1>6 DEF PostInTx
  <2>2. \A f \in ledger : ~SameKey(e, f)
    BY <1>3, <1>6 DEF Posted
  <2> HIDE DEF s, e
  <2>3. \A f \in ByHand : ~(f.member = m /\ f.src = k)
    BY <1>1, <2>2 DEF HandFits, ByHand, SameKey
  <2>4. <<m, k>> \notin Adjusted
    BY <2>3 DEF Adjusted
  <2>5. ByHand' = ByHand \union {e}
    BY <1>1, <1>2, <2>1 DEF ByHand
  <2>6. Adjusted' = Adjusted \union {<<m, k>>}
    BY <1>1, <2>5 DEF Adjusted
  <2>7. points' = [points EXCEPT ![m] = @ + d]
    BY <1>1, <1>2, <2>1
  <2>8. Wallet!Adjust(m, k, d)
    BY <1>2, <1>4, <2>4, <2>6, <2>7
       DEF Wallet!Adjust, RewardMap, EarnedSet, KeptMap, Adjusted
  <2> QED
    BY <2>8 DEF Wallet!WalletNext
<1> QED
  BY <1>5, <1>6

LEMMA HandStep ==
    ASSUME LoyaltyInv, HandFits, [LoyaltyNext]_vars
    PROVE  HandFits'
<1>1. CASE UNCHANGED accountVars
  BY <1>1 DEF accountVars, HandFits, ByHand
<1>2. ASSUME NEW o \in Orders, Opens(o) PROVE HandFits'
  BY <1>2, ByHandKept DEF Opens, HandFits
<1>3. ASSUME NEW o \in Orders, Settles(o) PROVE HandFits'
  BY <1>3, ByHandKept DEF Settles, Sound, HandFits
<1>4. ASSUME NEW m \in Members, NEW k \in AdjustKeys, NEW d \in AdjustDeltas,
             AdjustPoints(m, k, d)
      PROVE  HandFits'
  <2>1. \A f \in ledger' : f \in ledger \/ f.nth = 0
    BY <1>4 DEF AdjustPoints, PostInTx
  <2> QED
    BY <2>1 DEF HandFits, ByHand
<1> QED
  BY <1>1, <1>2, <1>3, <1>4, AccountSteps DEF AccountStep

LEMMA HandFitsHolds == LoyaltySpec => [](LoyaltyInv /\ HandFits)
<1>1. LoyaltyInit => HandFits
  BY DEF LoyaltyInit, HandFits, ByHand
<1>2. LoyaltyInv /\ HandFits /\ [LoyaltyNext]_vars => HandFits'
  BY HandStep
<1> QED
  BY <1>1, <1>2, LoyaltyInvHolds, PTL DEF LoyaltySpec

\* What does not write an account leaves the wallet alone.
LEMMA WalletStays ==
    ASSUME UNCHANGED accountVars
    PROVE  UNCHANGED WalletVars
  BY DEF accountVars, WalletVars, RewardMap, EarnedSet, KeptMap, Adjusted, ByHand

LEMMA WalletSteps ==
    ASSUME LoyaltyInv, HandFits, [LoyaltyNext]_vars
    PROVE  Wallet!WalletNext \/ UNCHANGED WalletVars
<1>1. CASE OrderHandlers
  <2>1. CASE \E S : QueueAndSettle(S)
    BY <2>1, WalletStays DEF QueueAndSettle
  <2> QED
    BY <1>1, <2>1, PlaceInWallet, HoldInWallet
       DEF OrderHandlers, Sweep, Bind, PaidArrives, EndedByProvider, Operate, Refund
<1>2. CASE AccountStep /\ UNCHANGED order
  <2>1. ASSUME NEW o \in Orders PROVE ~Opens(o)
    BY <1>2 DEF Opens
  <2> QED
    BY <1>2, <2>1, SettlesInWallet, AdjustInWallet, WalletStays DEF AccountStep
<1>3. CASE Reconciliation
  <2>1. UNCHANGED order
    BY <1>3 DEF Reconciliation, Crash, ClaimRow, Reconcile, ReconcileFails, ParkReview,
                ListTimed, QueueTimed, orderVars
  <2> QED
    BY <1>2, <1>3, <2>1, ReconciliationSteps
<1>4. CASE Decisions
  <2>1. UNCHANGED order
    BY <1>4 DEF Decisions, ResolveRedemption, ExcludePurchase, AwardPurchase, Requeue,
                AdjustPoints, SetMemberStatus, orderVars
  <2> QED
    BY <1>2, <1>4, <2>1, DecisionSteps
<1>5. CASE UNCHANGED accountVars
  BY <1>5, WalletStays
<1> QED
  BY <1>1, <1>3, <1>4, <1>5 DEF LoyaltyNext, vars, loyaltyVars

\* Handlers, reconciliations, operators and their retries move the points as
\* PointsWallet promises (holdPointsInTx, postLedgerEntryInTx): no two orders
\* of a member hold the same points, and what an order's transaction moves is
\* what its own sale and reward account for, however often it is repeated.
THEOREM PointsMoveAsPromised == LoyaltySpec => WalletIsHonest
<1>1. LoyaltyInit => Wallet!WalletInit
  BY DEF LoyaltyInit, Wallet!WalletInit, RewardOf, Kept, ByHand, NoPurchase
<1>2. LoyaltyInv /\ HandFits /\ [LoyaltyNext]_vars => [Wallet!WalletNext]_(Wallet!wallet)
  <2>1. UNCHANGED WalletVars => UNCHANGED Wallet!wallet
    BY DEF WalletVars, Wallet!wallet, RewardMap, EarnedSet, KeptMap, Adjusted
  <2> QED
    BY <2>1, WalletSteps
<1> QED
  BY <1>1, <1>2, HandFitsHolds, PTL DEF LoyaltySpec, WalletIsHonest, Wallet!WalletSpec

=============================================================================
