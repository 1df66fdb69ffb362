--------------------------- MODULE PosSync_proofs ---------------------------
(***************************************************************************)
(* What holds of a tab on the tills of a location, for any number of       *)
(* tills, lines, payments, revisions and requests on their way.            *)
(***************************************************************************)
EXTENDS PosSync, FiniteSetTheorems, TLAPS

USE DEF tillVars, region, history

-----------------------------------------------------------------------------
\* Steps

\* A till saves its next revision: payments are only added, one at a time, and
\* a first revision is that of a tab nobody else has.
SavesAs(t, c) ==
    /\ local' = [local EXCEPT ![t] = c]
    /\ sync' = [sync EXCEPT ![t] = "pending"]
    /\ asked' = asked \ {t}
    /\ c.rev = local[t].rev + 1 /\ c.status # "none"
    /\ \/ c.payments = local[t].payments /\ taken' = taken
       \/ \E p \in Payments \ Made : /\ c.payments = local[t].payments \cup {p}
                                     /\ taken' = taken \cup {<<t, p>>}
    /\ \/ local[t].status # "none"
       \/ /\ server = NoCopy /\ wire = {}
          /\ \A u \in Tills : local[u] = NoCopy /\ job[u] = Idle
    /\ UNCHANGED <<away, job, wire, server, owner, moved, held, claimed, regained>>

LEMMA NoCopyIsCopy == /\ NoCopy \in Copy /\ NoCopy \in CopyRow /\ Balances(NoCopy)
                      /\ NoCopy.rev = 0 /\ NoCopy.payments = {}
                      /\ NoCopy.status = "none" /\ NoCopy.lines = {}
                      /\ NoCopy.refunds = {}
<1>1. /\ NoCopy \in CopyRow /\ NoCopy.rev = 0 /\ NoCopy.payments = {}
      /\ NoCopy.status = "none" /\ NoCopy.lines = {} /\ NoCopy.refunds = {}
  BY PosSyncAssumption DEF NoCopy, CopyRow, Statuses
<1>2. Adds(NoCopy) /\ ~Covered(NoCopy)
  BY <1>1, FS_EmptySet, PosSyncAssumption DEF Adds, Covered
<1> QED
  BY <1>1, <1>2 DEF Copy, Balances

LEMMA NewPayments ==
    ASSUME NEW c \in CopyRow, NEW payments \in SUBSET Payments,
           c.refunds = {}, c.lines \in Free => payments = {}
    PROVE  /\ WithPayments(c, payments) \in Copy
           /\ WithPayments(c, payments).rev = c.rev
           /\ WithPayments(c, payments).payments = payments
           /\ WithPayments(c, payments).status \in {"open", "paid"}
<1> DEFINE d == WithPayments(c, payments)
<1>1. /\ d \in CopyRow /\ d.rev = c.rev /\ d.payments = payments /\ d.refunds = {}
      /\ d.lines = c.lines
      /\ d.status = IF Cardinality(payments) >= Due THEN "paid" ELSE "open"
  BY DEF WithPayments, CopyRow, Statuses
<1>2. {r[2] : r \in {}} = {}
  OBVIOUS
<1> HIDE DEF d
<1>3. Adds(d)
  BY <1>1, <1>2 DEF Adds, Covered
<1> QED
  BY <1>1, <1>3 DEF Copy, d

\* A saved copy is the given one with the next revision.
LEMMA SavedForm ==
    ASSUME PosTypeOK, NEW t \in Tills, NEW c \in Copy, Saved(t, c)
    PROVE  \E d \in Copy :
             /\ local' = [local EXCEPT ![t] = d]
             /\ sync' = [sync EXCEPT ![t] = "pending"]
             /\ d.rev = local[t].rev + 1 /\ d.status = c.status
             /\ d.payments = c.payments /\ asked' = asked \ {t}
             /\ UNCHANGED <<away, job, wire, server, owner, moved, held, claimed, regained>>
<1> DEFINE d == [c EXCEPT !.rev = local[t].rev + 1]
<1>1. local[t].rev \in 0 .. MaxRevision /\ local[t].rev < MaxRevision
  BY DEF PosTypeOK, Copy, CopyRow, Saved
<1>2. /\ d \in CopyRow /\ d.rev = local[t].rev + 1 /\ d.status = c.status
      /\ d.payments = c.payments /\ d.refunds = c.refunds /\ d.lines = c.lines
  BY <1>1, PosSyncAssumption DEF Copy, CopyRow
<1>3. d \in Copy
  <2> HIDE DEF d
  <2> QED
    BY <1>2 DEF Copy, Adds, Covered
<1> QED
  BY <1>2, <1>3 DEF Saved

\* What the outbox and the rest of the model rely on is the revision and the
\* money of a copy; every operation at the counter is such a step.
LEMMA WorkForm ==
    ASSUME PosTypeOK, NEW t \in Tills, Work(t), ~Prune(t)
    PROVE  \E c \in Copy : SavesAs(t, c)
<1> USE PosSyncAssumption, NoCopyIsCopy
<1> local[t] \in Copy
  BY DEF PosTypeOK
<1>0. local[t] \in CopyRow /\ Adds(local[t])
  BY DEF Copy
<1>1. ASSUME NEW lines \in SUBSET Lines, UpdateTab(t, lines)
      PROVE  \E c \in Copy : SavesAs(t, c)
  <2> DEFINE c == [local[t] EXCEPT !.lines = lines,
                                   !.voids = @ \cup (local[t].lines \ lines)]
  <2>1. /\ c \in CopyRow /\ c.status = local[t].status
        /\ c.payments = local[t].payments /\ c.refunds = local[t].refunds
    BY DEF Copy, CopyRow
  <2>2. local[t].status = "open" /\ local[t].payments = {}
    BY <1>1 DEF UpdateTab
  <2>3. Saved(t, c) /\ taken' = taken
    BY <1>1 DEF UpdateTab
  <2> HIDE DEF c
  <2>4. c \in Copy
    BY <1>0, <2>1, <2>2 DEF Copy, Adds
  <2> QED
    BY <2>1, <2>2, <2>3, <2>4, SavedForm DEF SavesAs
<1>2. ASSUME NEW lines \in SUBSET Lines, NEW payments \in SUBSET Payments,
             CreateOrder(t, lines, payments)
      PROVE  \E c \in Copy : SavesAs(t, c)
  <2> DEFINE e == [NoCopy EXCEPT !.lines = lines]
             c == WithPayments(e, payments)
  <2>1. e \in CopyRow /\ e.refunds = {} /\ e.lines = lines
    BY DEF NoCopy, Copy, CopyRow
  <2>2. lines \in Free => payments = {}
    BY <1>2 DEF CreateOrder
  <2>3. c \in Copy /\ c.payments = payments /\ c.status # "none"
    <3> HIDE DEF e
    <3> QED
      BY <2>1, <2>2, NewPayments
  <2>4. /\ Saved(t, c) /\ taken' = {t} \X payments /\ taken = {}
        /\ \A p, q \in payments : p = q
        /\ server = NoCopy /\ wire = {}
        /\ \A u \in Tills : local[u] = NoCopy /\ job[u] = Idle
    BY <1>2 DEF CreateOrder, NewTab
  <2>5. Made = {}
    BY <2>4 DEF Made
  <2>6. payments = {} \/ \E p \in Payments : payments = {p}
    BY <2>4
  <2>7. \A p : {t} \X {p} = {<<t, p>>}
    OBVIOUS
  <2> HIDE DEF c
  <2>8. local[t].payments = {}
    BY <2>4
  <2>9. \/ c.payments = local[t].payments /\ taken' = taken
        \/ \E p \in Payments \ Made : /\ c.payments = local[t].payments \cup {p}
                                      /\ taken' = taken \cup {<<t, p>>}
    BY <2>3, <2>4, <2>5, <2>6, <2>7, <2>8
  <2> QED
    BY <2>3, <2>4, <2>9, SavedForm DEF SavesAs
<1>3. ASSUME NEW p \in Payments, AddPayment(t, p)
      PROVE  \E c \in Copy : SavesAs(t, c)
  <2> DEFINE all == local[t].payments \cup {p}
             c == WithPayments(local[t], all)
  <2>1. /\ local[t] \in CopyRow /\ local[t].refunds = {}
        /\ all \in SUBSET Payments /\ local[t].status = "open"
        /\ local[t].lines \notin Free
    BY <1>0, <1>3 DEF AddPayment, CopyRow, Adds
  <2>2. c \in Copy /\ c.payments = all /\ c.status # "none"
    <3> HIDE DEF all
    <3> QED
      BY <2>1, NewPayments
  <2>3. Saved(t, c) /\ taken' = taken \cup {<<t, p>>} /\ p \notin Made
    BY <1>3 DEF AddPayment
  <2> HIDE DEF c
  <2> QED
    BY <2>1, <2>2, <2>3, SavedForm DEF SavesAs
<1>4. ASSUME Void(t)
      PROVE  \E c \in Copy : SavesAs(t, c)
  <2> DEFINE c == [local[t] EXCEPT !.status = "void"]
  <2>1. /\ c \in CopyRow /\ c.status = "void" /\ local[t].status = "open"
        /\ local[t].payments = {} /\ c.payments = {} /\ c.refunds = local[t].refunds
    BY <1>4 DEF Void, Copy, CopyRow, Statuses
  <2>2. c \in Copy
    <3> HIDE DEF c
    <3> QED
      BY <1>0, <2>1 DEF Copy, Adds
  <2>3. Saved(t, c) /\ taken' = taken
    BY <1>4 DEF Void
  <2> HIDE DEF c
  <2> QED
    BY <2>1, <2>2, <2>3, SavedForm DEF SavesAs
<1>5. ASSUME NEW payments \in SUBSET Payments, Refund(t, payments)
      PROVE  \E c \in Copy : SavesAs(t, c)
  <2> DEFINE refunds == local[t].refunds \cup ({t} \X payments)
             all == local[t].payments \subseteq {r[2] : r \in refunds}
             c == [local[t] EXCEPT !.refunds = refunds,
                                   !.status = IF all THEN "refunded" ELSE "paid"]
  <2>1. /\ refunds \in SUBSET (Tills \X Payments)
        /\ {r[2] : r \in refunds} \subseteq local[t].payments
        /\ local[t].status = "paid"
    BY <1>0, <1>5 DEF Refund, CopyRow, Adds
  <2>2. /\ c \in CopyRow /\ c.status \in {"paid", "refunded"} /\ c.lines = local[t].lines
        /\ c.payments = local[t].payments /\ c.refunds = refunds
    <3> HIDE DEF refunds, all
    <3> QED
      BY <2>1 DEF Copy, CopyRow, Statuses
  <2>3. c \in Copy
    <3> HIDE DEF c, refunds
    <3> QED
      BY <1>0, <2>1, <2>2 DEF Copy, Adds, Covered
  <2>4. Saved(t, c) /\ taken' = taken
    BY <1>5 DEF Refund
  <2> HIDE DEF c
  <2> QED
    BY <2>1, <2>2, <2>3, <2>4, SavedForm DEF SavesAs
<1>6. ASSUME CloseFree(t)
      PROVE  \E c \in Copy : SavesAs(t, c)
  <2> DEFINE c == [local[t] EXCEPT !.status = "paid"]
  <2>1. /\ c \in CopyRow /\ c.status = "paid" /\ local[t].status = "open"
        /\ c.lines = local[t].lines /\ local[t].lines \in Free
        /\ c.payments = local[t].payments /\ c.refunds = local[t].refunds
    BY <1>6 DEF CloseFree, Copy, CopyRow, Statuses
  <2>2. c \in Copy
    <3> HIDE DEF c
    <3> QED
      BY <1>0, <2>1 DEF Copy, Adds
  <2>3. Saved(t, c) /\ taken' = taken
    BY <1>6 DEF CloseFree
  <2> HIDE DEF c
  <2> QED
    BY <2>1, <2>2, <2>3, SavedForm DEF SavesAs
<1>7. ASSUME NEW lines \in Free, CreateFree(t, lines)
      PROVE  \E c \in Copy : SavesAs(t, c)
  <2> DEFINE c == [NoCopy EXCEPT !.lines = lines, !.status = "paid"]
  <2>1. /\ c \in CopyRow /\ c.status = "paid" /\ c.lines = lines
        /\ c.payments = {} /\ c.refunds = {}
    BY DEF NoCopy, CopyRow, Statuses
  <2>2. c \in Copy
    <3> HIDE DEF c
    <3> QED
      BY <2>1 DEF Copy, Adds
  <2>3. /\ Saved(t, c) /\ taken' = taken
        /\ server = NoCopy /\ wire = {}
        /\ \A u \in Tills : local[u] = NoCopy /\ job[u] = Idle
    BY <1>7 DEF CreateFree, NewTab
  <2>4. local[t].payments = {}
    BY <2>3
  <2> HIDE DEF c
  <2> QED
    BY <2>1, <2>2, <2>3, <2>4, SavedForm DEF SavesAs
<1> QED
  BY <1>1, <1>2, <1>3, <1>4, <1>5, <1>6, <1>7 DEF Work

-----------------------------------------------------------------------------
\* Type correctness

\* The server knows who has the tab as soon as it has one.
TypeInv == PosTypeOK /\ (owner = NoTill => server = NoCopy)

\* The actions that touch neither what the tills hold nor what the server does.
LEMMA AnswersAreTyped ==
    ASSUME PosTypeOK, NEW u \in Upload, NEW r \in Results, Answered(u, r)
    PROVE  /\ wire' \subseteq wire
           /\ job' \in [Tills -> Job]
           /\ UNCHANGED <<local, sync, away, moved, claimed, asked, taken, regained>>
<1>1. u.till \in Tills /\ job[u.till] \in Job
  BY DEF PosTypeOK, Upload
<1>2. [job[u.till] EXCEPT !.state = "answered", !.result = r] \in Job
  BY <1>1 DEF Job
<1> QED
  BY <1>1, <1>2 DEF Answered, PosTypeOK

LEMMA SettledAreTyped ==
    ASSUME PosTypeOK, NEW t \in Tills, NEW state \in SyncStates, NEW gone \in BOOLEAN,
           Settle(t, state, gone)
    PROVE  sync' \in [Tills -> SyncStates] /\ away' \in [Tills -> BOOLEAN]
  BY DEF Settle, PosTypeOK

\* The copy a till stores of the server's row can be stored, and is that row
\* when it is open.
LEMMA AdoptedIs ==
    ASSUME NEW c \in Copy
    PROVE  /\ Adopted(c) \in Copy
           /\ Adopted(c).rev = c.rev /\ Adopted(c).payments = c.payments
           /\ Adopted(c).status = "open"
           /\ c.status = "open" => Adopted(c) = c
<1> DEFINE d == Adopted(c)
<1>1. /\ d \in CopyRow /\ d.rev = c.rev /\ d.payments = c.payments /\ d.lines = c.lines
      /\ d.status = "open" /\ d.refunds = {}
  BY DEF Adopted, Copy, CopyRow, Statuses
<1>2. {r[2] : r \in {}} = {}
  OBVIOUS
<1>3. d \in Copy
  <2> HIDE DEF d
  <2> QED
    BY <1>1, <1>2 DEF Copy, Adds
<1>4. c.status = "open" => d = c
  <2>1. c.status = "open" => c.refunds = {}
    BY DEF Copy, Adds
  <2> QED
    BY <2>1 DEF Adopted, Copy, CopyRow
<1> QED
  BY <1>1, <1>3, <1>4

LEMMA TypeInvHolds == PosSpec => []TypeInv
<1> USE PosSyncAssumption, NoCopyIsCopy
<1>1. PosInit => TypeInv
  BY DEF PosInit, TypeInv, PosTypeOK, Idle, Job, Results, SyncStates
<1>2. TypeInv /\ [PosNext]_vars => TypeInv'
  <2> SUFFICES ASSUME TypeInv, [PosNext]_vars
               PROVE  TypeInv'
    OBVIOUS
  <2> USE DEF TypeInv
  <2>1. ASSUME NEW t \in Tills, Work(t), ~Prune(t)
        PROVE  TypeInv'
    <3>1. PICK c \in Copy : SavesAs(t, c)
      BY <2>1, WorkForm
    <3>2. c.payments \subseteq Payments
      BY DEF Copy, CopyRow
    <3>3. taken' \subseteq Tills \X Payments
      BY <3>1 DEF SavesAs, PosTypeOK
    <3> QED
      BY <3>1, <3>3 DEF SavesAs, PosTypeOK, SyncStates
  <2>2. ASSUME NEW t \in Tills, Prune(t)
        PROVE  TypeInv'
    BY <2>2 DEF Prune, PosTypeOK, SyncStates
  <2>3. ASSUME NEW t \in Tills, ClaimNext(t)
        PROVE  TypeInv'
    <3>1. [till |-> t, copy |-> local[t]] \in Upload
      BY DEF Upload, PosTypeOK
    <3>2. [Idle EXCEPT !.state = "sent", !.copy = local[t]] \in Job
      BY DEF Idle, Job, Results, PosTypeOK
    <3> QED
      <4>1. job' \in [Tills -> Job] /\ wire' \subseteq Upload
        BY <2>3, <3>1, <3>2 DEF ClaimNext, PosTypeOK
      <4> QED
        BY <2>3, <4>1 DEF ClaimNext, PosTypeOK, SyncStates
  <2>4. ASSUME NEW t \in Tills, TakeAnswer(t) \/ GiveUp(t) \/ Reload(t)
        PROVE  TypeInv'
    <3>1. Idle \in Job
      BY DEF Idle, Job, Results
    <3>2. sync' \in [Tills -> SyncStates] /\ away' \in [Tills -> BOOLEAN]
      <4>1. {"pending", "synced"} \subseteq SyncStates /\ FALSE \in BOOLEAN
        BY DEF SyncStates
      <4>3. CASE TakeAnswer(t)
        <5> DEFINE state == IF job[t].result = "retry" THEN "pending" ELSE "synced"
                   gone == job[t].result = "moved" /\ job[t].copy.status = "open"
        <5>1. Settle(t, state, gone)
          BY <4>3 DEF TakeAnswer
        <5>2. state \in SyncStates /\ gone \in BOOLEAN
          BY <4>1
        <5> HIDE DEF state, gone
        <5> QED
          BY <5>1, <5>2, SettledAreTyped
      <4>4. CASE GiveUp(t)
        BY <4>1, <4>4, SettledAreTyped DEF GiveUp
      <4>5. CASE Reload(t)
        BY <4>5 DEF Reload, PosTypeOK
      <4> QED
        BY <2>4, <4>3, <4>4, <4>5
    <3>3. /\ job' = [job EXCEPT ![t] = Idle]
          /\ UNCHANGED <<local, wire, server, owner, moved, held, taken, regained>>
          /\ asked' \subseteq asked
      BY <2>4 DEF TakeAnswer, GiveUp, Reload
    <3>4. claimed' \in [Tills -> Copy]
      BY <2>4 DEF TakeAnswer, GiveUp, Reload, PosTypeOK
    <3> QED
      BY <3>1, <3>2, <3>3, <3>4 DEF PosTypeOK
  <2>5. ASSUME NEW u \in wire, Receive(u)
        PROVE  TypeInv'
    <3>0. u \in Upload /\ u.till \in Tills /\ u.copy \in Copy
      BY DEF PosTypeOK, Upload
    <3>1. PICK r \in Results : Answered(u, r)
      BY <2>5 DEF Receive, Results
    <3>2. CASE Accept(u)
      <4>1. \/ server' = u.copy /\ Balances(u.copy) /\ owner' = u.till
            \/ UNCHANGED <<server, owner>>
        BY <3>2 DEF Accept, Stored
      <4> QED
        BY <3>0, <3>1, <3>2, <4>1, AnswersAreTyped DEF Accept, PosTypeOK
    <3>3. CASE Hold(u) \/ Postpone(u)
      BY <3>0, <3>1, <3>3, AnswersAreTyped DEF Hold, Postpone, PosTypeOK
    <3> QED
      BY <2>5, <3>2, <3>3 DEF Receive
  <2>6. ASSUME NEW u \in wire, LoseRequest(u)
        PROVE  TypeInv'
    BY <2>6 DEF LoseRequest, PosTypeOK
  <2>7. ASSUME NEW t \in Tills, ClaimTab(t)
        PROVE  TypeInv'
    <3>1. owner # NoTill /\ owner \in Tills
      BY <2>7 DEF ClaimTab, PosTypeOK
    <3> QED
      BY <2>7, <3>1 DEF ClaimTab, PosTypeOK
  <2>8. ASSUME NEW t \in Tills, AdoptTab(t)
        PROVE  TypeInv'
    <3>1. Adopted(claimed[t]) \in Copy
      BY <2>8, AdoptedIs DEF PosTypeOK, AdoptTab
    <3>2. local' \in [Tills -> Copy] /\ sync' \in [Tills -> SyncStates]
      BY <2>8, <3>1 DEF AdoptTab, PosTypeOK, SyncStates
    <3> QED
      BY <2>8, <3>2 DEF AdoptTab, PosTypeOK
  <2>10. ASSUME NEW t \in Tills, ClaimAgain(t) \/ LoseClaim(t) \/ CheckIn(t)
         PROVE  TypeInv'
    <3>1. CASE ClaimAgain(t)
      BY <3>1 DEF ClaimAgain, PosTypeOK
    <3>2. CASE LoseClaim(t)
      BY <3>2 DEF LoseClaim, PosTypeOK
    <3>3. CASE CheckIn(t)
      BY <3>3 DEF CheckIn, PosTypeOK
    <3> QED
      BY <2>10, <3>1, <3>2, <3>3
  <2>9. CASE UNCHANGED vars
    BY <2>9 DEF vars, PosTypeOK
  <2> QED
    BY <2>1, <2>2, <2>3, <2>4, <2>5, <2>6, <2>7, <2>8, <2>9, <2>10
       DEF PosNext, Work, Outbox, Move, Network
<1> QED
  BY <1>1, <1>2, PTL DEF PosSpec

\* Every state is well typed, and on every copy of the tab, on a till, on its
\* way, held or stored, the status agrees with the money: it is paid exactly
\* when its payments cover it, and never cancelled with money on it.
THEOREM PosTypeCorrect == PosSpec => []PosTypeOK
<1>1. TypeInv => PosTypeOK
  BY DEF TypeInv
<1> QED
  BY <1>1, TypeInvHolds, PTL

-----------------------------------------------------------------------------
\* The turns of the tills

\* A till that never took the tab back has had it for one turn at most: it made
\* or adopted it, and from the moment another till takes it over it is not given
\* it again.
OneTurn(t) == t \in Tills \ regained

\* A later copy of the same tab.
Older(c, d) == c = d \/ (c.rev < d.rev /\ c.payments \subseteq d.payments)

\* The till has something of the tab, its own copy or an upload.
Has(t) == local[t].rev > 0 \/ job[t] # Idle \/ \E u \in wire : u.till = t

\* A copy is held for a person, or the sale has grown from it.
Safe(t, c) == [till |-> t, copy |-> c] \in held \/ Older(c, server)

\* Revisions tell a copy from none.
Numbered ==
    /\ \A t \in Tills : /\ local[t].rev = 0 => local[t] = NoCopy
                        /\ local[t].rev > 0 => local[t].status # "none"
                        /\ sync[t] # "none" => local[t].rev > 0
                        /\ job[t] # Idle => job[t].copy.rev > 0
                        /\ claimed[t] # NoCopy => claimed[t].rev > 0
    /\ \A u \in wire : u.copy.rev > 0 /\ u.copy.status # "none"
    /\ server = NoCopy \/ (server.rev > 0 /\ server.status # "none")

\* Before the server has the tab it is at one till at most.
AtOneTill ==
    server = NoCopy =>
      /\ owner = NoTill /\ moved = {} /\ asked = {}
      /\ \A t \in Tills : claimed[t] = NoCopy
      /\ \A t, u \in Tills : Has(t) /\ Has(u) => t = u

\* From then on a till has something of it only once it was given it, and what a
\* till on its one turn was answered is what the server has until it adopts it.
InTurn ==
    /\ \A t \in Tills : owner \notin {NoTill, t} /\ ~MovedFrom(t) => ~Has(t)
    /\ \A t \in Tills : t \in asked => claimed[t] = NoCopy
    /\ \A t \in Tills : t \in asked \/ claimed[t] # NoCopy => owner = t \/ MovedFrom(t)
    /\ \A t \in Tills : OneTurn(t) /\ claimed[t] # NoCopy =>
         /\ ~Has(t) /\ claimed[t].status = "open" /\ Older(claimed[t], server)
         /\ owner = t => claimed[t] = server
    /\ \A t \in Tills : OneTurn(t) /\ t \in asked /\ owner = t =>
         ~Has(t) /\ server.status = "open"

\* The copies of a till on its one turn, and the sale it has grown, are one
\* after the other.
InOrder ==
    /\ \A u \in wire : OneTurn(u.till) /\ local[u.till].rev > 0 => Older(u.copy, local[u.till])
    /\ \A t \in Tills : OneTurn(t) /\ job[t] # Idle /\ local[t].rev > 0
                          => Older(job[t].copy, local[t])
    /\ \A t \in Tills : OneTurn(t) /\ owner = t /\ local[t].rev > 0 => Older(server, local[t])
    /\ \A u, v \in wire : OneTurn(u.till) /\ u.till = v.till
                            => Older(u.copy, v.copy) \/ Older(v.copy, u.copy)
    /\ \A u \in wire : OneTurn(u.till) /\ u.till = owner
                         => Older(u.copy, server) \/ Older(server, u.copy)

\* What such a till was told is on the server is there.
Delivered ==
    /\ \A t \in Tills : OneTurn(t) /\ sync[t] = "synced" => Safe(t, local[t])
    /\ \A t \in Tills : OneTurn(t) /\ job[t].state = "answered" /\ job[t].result # "retry"
                          => Safe(t, job[t].copy)

\* Payments on copies were taken from guests.
OnlyTaken ==
    /\ server.payments \cup ForReview \cup OnTills \subseteq Made
    /\ \A u \in wire : u.copy.payments \subseteq Made
    /\ \A t \in Tills : claimed[t].payments \subseteq server.payments

TabInv == TypeInv /\ Numbered /\ AtOneTill /\ InTurn /\ InOrder /\ Delivered /\ OnlyTaken
            /\ PaymentsAreKept

LEMMA OlderIsOrder ==
    ASSUME NEW c \in Copy, NEW d \in Copy, NEW e \in Copy
    PROVE  /\ Older(c, c)
           /\ Older(c, d) /\ Older(d, e) => Older(c, e)
           /\ Older(c, d) => c.payments \subseteq d.payments
           /\ Older(c, d) /\ d.rev <= c.rev => c = d
           /\ c.rev \in Nat
           /\ d.rev > 0 => Older(NoCopy, d)
  BY NoCopyIsCopy, PosSyncAssumption DEF Older, Copy, CopyRow

\* The four things the server makes of an upload.
Stores(u) == /\ Stored(u) /\ server' = u.copy /\ owner' = u.till /\ held' = held
             /\ Answered(u, "ok")
Skips(u) == /\ Repeats(u) /\ UNCHANGED <<server, owner, held>> /\ Answered(u, "ok")
Holds(u) == /\ held' = held \cup {u} /\ UNCHANGED <<server, owner>>
            /\ \E r \in {"moved", "held"} : Answered(u, r)
Defers(u) == UNCHANGED <<server, owner, held>> /\ Answered(u, "retry")

LEMMA ReceiveForm ==
    ASSUME NEW u, Receive(u)
    PROVE  Stores(u) \/ Skips(u) \/ Holds(u) \/ Defers(u)
  BY DEF Receive, Accept, Hold, Postpone, Stores, Skips, Holds, Defers

\* A till's next state of the outbox, once an answer or nothing came.
LEMMA JobEnds ==
    ASSUME NEW t \in Tills, TakeAnswer(t) \/ GiveUp(t) \/ Reload(t), TypeInv
    PROVE  /\ job' = [job EXCEPT ![t] = Idle]
           /\ job[t] # Idle
           /\ \/ UNCHANGED <<claimed, asked>>
              \/ /\ claimed' = [claimed EXCEPT ![t] = NoCopy]
                 /\ asked' = asked \ {t}
           /\ \/ sync' = sync
              \/ /\ local[t].rev = job[t].copy.rev
                 /\ \/ sync' = [sync EXCEPT ![t] = "pending"]
                    \/ /\ sync' = [sync EXCEPT ![t] = "synced"]
                       /\ job[t].state = "answered" /\ job[t].result # "retry"
           /\ UNCHANGED <<local, wire, server, owner, moved, held, taken, regained>>
  BY DEF TakeAnswer, GiveUp, Reload, Settle, Idle

\* Every step, in the forms above.
LEMMA StepForms ==
    ASSUME TypeInv, [PosNext]_vars
    PROVE  \/ \E t \in Tills, c \in Copy : SavesAs(t, c)
           \/ \E t \in Tills : \/ Prune(t) \/ ClaimNext(t)
                               \/ TakeAnswer(t) \/ GiveUp(t) \/ Reload(t)
                               \/ ClaimTab(t) \/ ClaimAgain(t) \/ AdoptTab(t)
                               \/ LoseClaim(t) \/ CheckIn(t)
           \/ \E u \in wire : \/ Stores(u) \/ Skips(u) \/ Holds(u) \/ Defers(u)
                              \/ LoseRequest(u)
           \/ UNCHANGED vars
<1>1. ASSUME NEW t \in Tills, Work(t)
      PROVE  Prune(t) \/ \E c \in Copy : SavesAs(t, c)
  BY <1>1, WorkForm DEF TypeInv
<1> QED
  BY <1>1, ReceiveForm DEF PosNext, Outbox, Move, Network

\* What a till may hold of the tab after an answer to it.
LEMMA AnsweredJob ==
    ASSUME TypeInv, NEW u \in wire, NEW r, Answered(u, r)
    PROVE  /\ wire' = wire \ {u} /\ u.till \in Tills /\ u.copy \in Copy
           /\ \A t \in Tills : /\ job'[t].copy = job[t].copy
                               /\ job'[t] # Idle => job[t] # Idle
                               /\ job'[t] = job[t] \/ ( /\ job[t].copy = u.copy /\ t = u.till
                                                        /\ job'[t].result = r)
           /\ UNCHANGED <<local, sync, away, moved, claimed, asked, taken, regained>>
<1>1. u.till \in Tills /\ u.copy \in Copy /\ job \in [Tills -> Job]
  BY DEF TypeInv, PosTypeOK, Upload
<1> DEFINE j == job[u.till]
           k == [j EXCEPT !.state = "answered", !.result = r]
<1>2. /\ wire' = wire \ {u}
      /\ job' = [job EXCEPT ![u.till] = IF j.state = "sent" /\ j.copy = u.copy THEN k ELSE j]
      /\ UNCHANGED <<local, sync, away, moved, claimed, asked, taken, regained>>
  BY DEF Answered
<1>3. k.copy = j.copy /\ k.result = r
  BY <1>1 DEF Job
<1>4. j.state = "sent" => j # Idle
  BY DEF Idle
<1> HIDE DEF k
<1> QED
  BY <1>1, <1>2, <1>3, <1>4

LEMMA NumberedKept ==
    ASSUME TypeInv, [PosNext]_vars, Numbered
    PROVE  Numbered'
<1> USE PosSyncAssumption, NoCopyIsCopy
<1>0. /\ \A t \in Tills : /\ local[t] \in Copy /\ local[t].rev \in Nat
                          /\ claimed[t] \in Copy /\ claimed[t].rev \in Nat
      /\ server.rev \in Nat
      /\ DOMAIN local = Tills /\ DOMAIN sync = Tills /\ DOMAIN job = Tills
      /\ DOMAIN claimed = Tills
  BY DEF TypeInv, PosTypeOK, Copy, CopyRow
<1>1. ASSUME NEW t \in Tills, NEW c \in Copy, SavesAs(t, c)
      PROVE  Numbered'
  BY <1>0, <1>1 DEF SavesAs, Numbered
<1>2. ASSUME NEW t \in Tills, Prune(t)
      PROVE  Numbered'
  BY <1>0, <1>2 DEF Prune, Numbered
<1>3. ASSUME NEW t \in Tills, ClaimNext(t)
      PROVE  Numbered'
  BY <1>0, <1>3 DEF ClaimNext, Numbered, Idle
<1>4. ASSUME NEW t \in Tills, TakeAnswer(t) \/ GiveUp(t) \/ Reload(t)
      PROVE  Numbered'
  BY <1>0, <1>4, JobEnds DEF Numbered
<1>5. ASSUME NEW t \in Tills, ClaimTab(t) \/ ClaimAgain(t) \/ LoseClaim(t) \/ CheckIn(t)
      PROVE  Numbered'
  BY <1>0, <1>5 DEF ClaimTab, ClaimAgain, LoseClaim, CheckIn, Numbered
<1>6. ASSUME NEW t \in Tills, AdoptTab(t)
      PROVE  Numbered'
  <2>1. claimed[t] # NoCopy /\ claimed[t].rev > 0 /\ claimed[t] \in Copy
    BY <1>0, <1>6 DEF AdoptTab, Numbered
  <2>2. /\ UNCHANGED <<job, wire, server>> /\ claimed' = [claimed EXCEPT ![t] = NoCopy]
        /\ \/ UNCHANGED <<local, sync>>
           \/ /\ local' = [local EXCEPT ![t] = Adopted(claimed[t])]
              /\ sync' = [sync EXCEPT ![t] = "synced"]
    BY <1>6 DEF AdoptTab
  <2> QED
    BY <1>0, <2>1, <2>2, AdoptedIs DEF Numbered
<1>7. ASSUME NEW u \in wire, Stores(u) \/ Skips(u) \/ Holds(u) \/ Defers(u)
      PROVE  Numbered'
  <2>1. PICK r : Answered(u, r)
    BY <1>7 DEF Stores, Skips, Holds, Defers
  <2>2. server' = server \/ server' = u.copy
    BY <1>7 DEF Stores, Skips, Holds, Defers
  <2> QED
    BY <2>1, <2>2, AnsweredJob DEF Numbered
<1>8. ASSUME NEW u \in wire, LoseRequest(u)
      PROVE  Numbered'
  BY <1>8 DEF LoseRequest, Numbered
<1>9. CASE UNCHANGED vars
  BY <1>9 DEF vars, Numbered
<1> QED
  BY <1>1, <1>2, <1>3, <1>4, <1>5, <1>6, <1>7, <1>8, <1>9, StepForms

\* The sale only grows, and what is held stays held.
LEMMA SaleGrows ==
    ASSUME TypeInv, [PosNext]_vars, Numbered
    PROVE  Older(server, server') /\ held \subseteq held'
             /\ server.payments \subseteq server'.payments /\ ForReview \subseteq ForReview'
<1>1. ASSUME NEW u \in wire, Stores(u)
      PROVE  Older(server, server') /\ held' = held
  <2>1. u.copy \in Copy /\ u.copy.rev > 0 /\ server' = u.copy /\ server \in Copy
    BY <1>1, AnsweredJob DEF Stores, Numbered, TypeInv, PosTypeOK
  <2> QED
    BY <1>1, <2>1, OlderIsOrder DEF Stores, Stored, Continues, Older
<1>2. (\E u \in wire : Stores(u)) \/ (server' = server /\ held \subseteq held')
  BY StepForms DEF SavesAs, Prune, ClaimNext, TakeAnswer, GiveUp, Reload, ClaimTab, ClaimAgain,
       AdoptTab, LoseClaim, CheckIn, Skips, Holds, Defers, LoseRequest, vars
<1>3. Older(server, server') /\ held \subseteq held'
  BY <1>1, <1>2 DEF Older
<1> QED
  BY <1>3 DEF Older, ForReview

\* A step that gives no till anything and changes neither the sale nor whose it is.
LEMMA QuietTurns ==
    ASSUME TypeInv, AtOneTill, InTurn, UNCHANGED <<server, owner, moved>>,
           \A t \in Tills : Has(t)' => Has(t),
           regained \subseteq regained', asked' \subseteq asked,
           \A t \in Tills : /\ claimed'[t] \in {claimed[t], NoCopy}
                            /\ t \in asked' => claimed'[t] = claimed[t]
    PROVE  AtOneTill' /\ InTurn'
<1>1. \A t \in Tills : MovedFrom(t)' <=> MovedFrom(t)
  BY DEF MovedFrom
<1>2. AtOneTill'
  BY DEF AtOneTill
<1>3. InTurn'
  BY <1>1 DEF InTurn, OneTurn, Older
<1> QED
  BY <1>2, <1>3

LEMMA TurnsKept ==
    ASSUME TypeInv, [PosNext]_vars, Numbered, AtOneTill, InTurn
    PROVE  AtOneTill' /\ InTurn'
<1> USE PosSyncAssumption, NoCopyIsCopy
<1>0. /\ \A t \in Tills : local[t] \in Copy /\ local[t].rev \in Nat /\ claimed[t] \in Copy
      /\ DOMAIN local = Tills /\ DOMAIN sync = Tills /\ DOMAIN job = Tills
      /\ DOMAIN claimed = Tills /\ asked \subseteq Tills /\ server \in Copy
      /\ owner \in Tills \cup {NoTill} /\ (owner = NoTill => server = NoCopy)
  BY DEF TypeInv, PosTypeOK, Copy, CopyRow
<1>1. ASSUME NEW t \in Tills, NEW c \in Copy, SavesAs(t, c)
      PROVE  AtOneTill' /\ InTurn'
  <2>1. CASE local[t].status # "none"
    <3>1. Has(t)
      BY <1>0, <2>1 DEF Numbered, Has
    <3>2. \A u \in Tills : Has(u)' => Has(u)
      BY <1>0, <1>1, <3>1 DEF SavesAs, Has
    <3> QED
      BY <1>1, <3>2, QuietTurns DEF SavesAs
  <2>2. CASE /\ server = NoCopy /\ wire = {}
             /\ \A u \in Tills : local[u] = NoCopy /\ job[u] = Idle
    <3>1. \A u \in Tills : Has(u)' => u = t
      BY <1>0, <1>1, <2>2 DEF SavesAs, Has
    <3>2. /\ owner = NoTill /\ moved = {} /\ asked = {}
          /\ \A u \in Tills : claimed[u] = NoCopy
      BY <2>2 DEF AtOneTill
    <3>3. UNCHANGED <<server, owner, moved, claimed>> /\ asked' = {}
      BY <1>1, <3>2 DEF SavesAs
    <3> QED
      BY <2>2, <3>1, <3>2, <3>3 DEF AtOneTill, InTurn
  <2> QED
    BY <1>1, <2>1, <2>2 DEF SavesAs
<1>2. ASSUME NEW t \in Tills, Prune(t)
      PROVE  AtOneTill' /\ InTurn'
  <2>1. \A u \in Tills : Has(u)' => Has(u)
    BY <1>0, <1>2 DEF Prune, Has
  <2> QED
    BY <1>2, <2>1, QuietTurns DEF Prune, history
<1>3. ASSUME NEW t \in Tills, ClaimNext(t)
      PROVE  AtOneTill' /\ InTurn'
  <2>1. Has(t)
    BY <1>3 DEF ClaimNext, Numbered, Has
  <2>2. \A u \in Tills : Has(u)' => Has(u)
    BY <1>0, <1>3, <2>1 DEF ClaimNext, Has
  <2> QED
    BY <1>3, <2>2, QuietTurns DEF ClaimNext
<1>4. ASSUME NEW t \in Tills, TakeAnswer(t) \/ GiveUp(t) \/ Reload(t)
      PROVE  AtOneTill' /\ InTurn'
  <2>1. \A u \in Tills : Has(u)' => Has(u)
    BY <1>0, <1>4, JobEnds DEF Has
  <2>2. /\ asked' \subseteq asked
        /\ \A u \in Tills : /\ claimed'[u] \in {claimed[u], NoCopy}
                            /\ u \in asked' => claimed'[u] = claimed[u]
    BY <1>0, <1>4, JobEnds
  <2>3. UNCHANGED <<server, owner, moved, regained>>
    BY <1>4, JobEnds
  <2> QED
    BY <2>1, <2>2, <2>3, QuietTurns
<1>5. ASSUME NEW t \in Tills, ClaimTab(t)
      PROVE  AtOneTill' /\ InTurn'
  <2>1. /\ server.status = "open" /\ server # NoCopy /\ owner # NoTill /\ owner # t
        /\ owner \in Tills /\ claimed[t] = NoCopy
    BY <1>0, <1>5 DEF ClaimTab
  <2>2. /\ server' = server /\ owner' = t /\ moved' = moved \cup {<<owner, t>>}
        /\ claimed' = [claimed EXCEPT ![t] = server] /\ asked' = asked \ {t}
        /\ regained \subseteq regained' /\ (t \notin regained' => ~MovedFrom(t))
    BY <1>5 DEF ClaimTab
  <2>3. \A u \in Tills : Has(u)' <=> Has(u)
    BY <1>5 DEF ClaimTab, Has
  <2>4. \A u \in Tills : MovedFrom(u) \/ u = owner => MovedFrom(u)'
    BY <1>0, <2>1, <2>2 DEF MovedFrom
  <2>5. t \notin regained' => ~Has(t)
    BY <2>1, <2>2 DEF InTurn
  <2>6. \A u \in Tills : u # t => claimed'[u] = claimed[u] /\ (u \in asked' <=> u \in asked)
    BY <1>0, <2>2
  <2>7. claimed'[t] = server /\ t \notin asked'
    BY <1>0, <2>2
  <2>8. ASSUME NEW u \in Tills, u # t
        PROVE  /\ owner' # u
               /\ ~MovedFrom(u)' => ~Has(u)'
               /\ u \in asked' => claimed'[u] = NoCopy
               /\ u \in asked' \/ claimed'[u] # NoCopy => MovedFrom(u)'
               /\ u \notin regained' /\ claimed'[u] # NoCopy =>
                    ~Has(u)' /\ claimed'[u].status = "open" /\ Older(claimed'[u], server')
    BY <2>1, <2>2, <2>3, <2>4, <2>6, <2>8 DEF InTurn, OneTurn
  <2>9. InTurn'
    BY <2>1, <2>2, <2>3, <2>5, <2>7, <2>8 DEF InTurn, OneTurn, Older
  <2> QED
    BY <2>1, <2>2, <2>9 DEF AtOneTill
<1>6. ASSUME NEW t \in Tills, AdoptTab(t)
      PROVE  AtOneTill' /\ InTurn'
  <2>1. /\ claimed[t] # NoCopy /\ claimed' = [claimed EXCEPT ![t] = NoCopy]
        /\ UNCHANGED <<job, wire, server, owner, moved, regained, asked>>
        /\ \A u \in Tills : u # t => local'[u] = local[u]
    BY <1>0, <1>6 DEF AdoptTab
  <2>2. server # NoCopy /\ t \notin asked /\ (owner = t \/ MovedFrom(t))
    BY <2>1 DEF AtOneTill, InTurn
  <2>3. \A u \in Tills : u # t => (Has(u)' <=> Has(u)) /\ claimed'[u] = claimed[u]
    BY <1>0, <2>1 DEF Has
  <2>4. claimed'[t] = NoCopy /\ \A u \in Tills : MovedFrom(u)' <=> MovedFrom(u)
    BY <1>0, <2>1 DEF MovedFrom
  <2>5. InTurn'
    BY <2>1, <2>2, <2>3, <2>4 DEF InTurn, OneTurn, Older
  <2> QED
    BY <2>1, <2>2, <2>5 DEF AtOneTill
<1>7. ASSUME NEW u \in wire, Stores(u)
      PROVE  AtOneTill' /\ InTurn'
  <2>0. Answered(u, "ok") /\ u.till \in Tills /\ u.copy \in Copy /\ u.copy # NoCopy
    BY <1>7, AnsweredJob DEF Stores, Numbered
  <2>1. /\ \A t \in Tills : Has(t)' => Has(t)
        /\ UNCHANGED <<claimed, asked, moved, regained>>
    BY <1>0, <2>0, AnsweredJob DEF Has
  <2>2. Has(u.till) /\ owner \in {NoTill, u.till}
    BY <1>7, <2>0 DEF Has, Stores, Stored, Belongs
  <2>3. server' = u.copy /\ owner' = u.till
    BY <1>7 DEF Stores
  <2>4. \A t \in Tills : MovedFrom(t)' <=> MovedFrom(t)
    BY <2>1 DEF MovedFrom
  <2>5. ASSUME owner = NoTill
        PROVE  InTurn'
    <3>1. /\ asked = {} /\ \A t \in Tills : claimed[t] = NoCopy
          /\ \A t \in Tills : Has(t) => t = u.till
      BY <1>0, <2>0, <2>2, <2>5 DEF AtOneTill
    <3> QED
      BY <2>0, <2>1, <2>3, <3>1 DEF InTurn
  <2>6. ASSUME owner = u.till
        PROVE  InTurn'
    <3>1. Older(server, server')
      BY SaleGrows
    <3>2. \A t \in Tills : Older(claimed[t], server) => Older(claimed[t], server')
      BY <1>0, <2>0, <2>3, <3>1, OlderIsOrder
    <3>3. ASSUME NEW t \in Tills, OneTurn(t)', claimed'[t] # NoCopy
          PROVE  /\ ~Has(t)' /\ claimed'[t].status = "open" /\ Older(claimed'[t], server')
                 /\ owner' # t
      <4>1. /\ claimed[t] # NoCopy /\ OneTurn(t) /\ claimed'[t] = claimed[t]
        BY <2>1, <3>3 DEF OneTurn
      <4>2. ~Has(t) /\ claimed[t].status = "open" /\ Older(claimed[t], server)
        BY <4>1 DEF InTurn
      <4> QED
        BY <2>1, <2>2, <2>3, <3>2, <4>1, <4>2
    <3>4. ASSUME NEW t \in Tills, OneTurn(t)', t \in asked', owner' = t
          PROVE  FALSE
      BY <2>1, <2>2, <2>3, <2>6, <3>4 DEF InTurn, OneTurn
    <3>5. \A t \in Tills : /\ t \in asked' => claimed'[t] = NoCopy
                           /\ owner' \notin {NoTill, t} /\ ~MovedFrom(t)' => ~Has(t)'
                           /\ t \in asked' \/ claimed'[t] # NoCopy => owner' = t \/ MovedFrom(t)'
      BY <2>0, <2>1, <2>3, <2>4, <2>6 DEF InTurn
    <3> QED
      BY <3>3, <3>4, <3>5, Zenon DEF InTurn
  <2> QED
    BY <2>0, <2>2, <2>3, <2>5, <2>6 DEF AtOneTill
<1>8. ASSUME NEW u \in wire, Skips(u) \/ Holds(u) \/ Defers(u)
      PROVE  AtOneTill' /\ InTurn'
  <2>1. PICK r : Answered(u, r)
    BY <1>8 DEF Skips, Holds, Defers
  <2>2. /\ \A t \in Tills : (Has(t)' => Has(t))
        /\ UNCHANGED <<claimed, asked, moved, regained>>
    BY <1>0, <2>1, AnsweredJob DEF Has
  <2>3. UNCHANGED <<server, owner>>
    BY <1>8 DEF Skips, Holds, Defers
  <2> QED
    BY <2>2, <2>3, QuietTurns
<1>9. ASSUME NEW u \in wire, LoseRequest(u)
      PROVE  AtOneTill' /\ InTurn'
  <2>1. \A t \in Tills : Has(t)' => Has(t)
    BY <1>9 DEF LoseRequest, Has
  <2> QED
    BY <1>9, <2>1, QuietTurns DEF LoseRequest
<1>10. ASSUME NEW t \in Tills, CheckIn(t)
       PROVE  AtOneTill' /\ InTurn'
  <2>1. \A u \in Tills : Has(u)' => Has(u)
    BY <1>10 DEF CheckIn, Has
  <2> QED
    BY <1>10, <2>1, QuietTurns DEF CheckIn
<1>11. ASSUME NEW t \in Tills, LoseClaim(t)
       PROVE  AtOneTill' /\ InTurn'
  <2>1. /\ claimed[t] # NoCopy /\ claimed' = [claimed EXCEPT ![t] = NoCopy]
        /\ asked' = asked \cup {t}
        /\ UNCHANGED <<local, job, wire, server, owner, moved, regained>>
    BY <1>11 DEF LoseClaim
  <2>2. server # NoCopy
    BY <2>1 DEF AtOneTill
  <2>3. \A u \in Tills : (Has(u)' <=> Has(u)) /\ (MovedFrom(u)' <=> MovedFrom(u))
    BY <2>1 DEF Has, MovedFrom
  <2>4. \A u \in Tills : /\ u # t => claimed'[u] = claimed[u] /\ (u \in asked' <=> u \in asked)
                         /\ u = t => claimed'[u] = NoCopy
    BY <1>0, <2>1
  <2>5. InTurn'
    BY <2>1, <2>3, <2>4 DEF InTurn, OneTurn, Older
  <2> QED
    BY <2>1, <2>2, <2>5 DEF AtOneTill
<1>12. ASSUME NEW t \in Tills, ClaimAgain(t)
       PROVE  AtOneTill' /\ InTurn'
  <2>1. /\ t \in asked /\ owner = t /\ claimed' = [claimed EXCEPT ![t] = server]
        /\ asked' = asked \ {t}
        /\ UNCHANGED <<local, job, wire, server, owner, moved, regained>>
    BY <1>12 DEF ClaimAgain
  <2>2. server # NoCopy
    BY <2>1 DEF AtOneTill
  <2>3. \A u \in Tills : (Has(u)' <=> Has(u)) /\ (MovedFrom(u)' <=> MovedFrom(u))
    BY <2>1 DEF Has, MovedFrom
  <2>4. \A u \in Tills : /\ u # t => claimed'[u] = claimed[u] /\ (u \in asked' <=> u \in asked)
                         /\ u = t => claimed'[u] = server /\ u \notin asked'
    BY <1>0, <2>1
  <2>5. InTurn'
    BY <2>1, <2>3, <2>4 DEF InTurn, OneTurn, Older
  <2> QED
    BY <2>1, <2>2, <2>5 DEF AtOneTill
<1>13. CASE UNCHANGED vars
  <2>1. \A u \in Tills : Has(u)' => Has(u)
    BY <1>13 DEF vars, Has
  <2> QED
    BY <1>13, <2>1, QuietTurns DEF vars
<1> QED
  BY <1>1, <1>2, <1>3, <1>4, <1>5, <1>6, <1>7, <1>8, <1>9, <1>10, <1>11, <1>12, <1>13, StepForms

LEMMA InOrderKept ==
    ASSUME TypeInv, [PosNext]_vars, Numbered, AtOneTill, InTurn, InOrder
    PROVE  InOrder'
<1> USE PosSyncAssumption, NoCopyIsCopy
<1>0. /\ \A t \in Tills : local[t] \in Copy /\ local[t].rev \in Nat /\ job[t].copy \in Copy
      /\ \A u \in wire : u.till \in Tills /\ u.copy \in Copy
      /\ server \in Copy
      /\ DOMAIN local = Tills /\ DOMAIN sync = Tills /\ DOMAIN job = Tills
      /\ \A t \in Tills : t # NoTill
      /\ \A t \in Tills : claimed[t] \in Copy
  BY DEF TypeInv, PosTypeOK, Copy, CopyRow, Upload, Job
\* A step that changes no copy, and sends none.
<1>a. ASSUME wire' \subseteq wire, UNCHANGED <<server, owner>>, regained \subseteq regained',
             \A t \in Tills : /\ local'[t] = local[t] \/ local'[t].rev = 0
                              /\ job'[t].copy = job[t].copy \/ job'[t] = Idle
                              /\ job'[t] # Idle => job[t] # Idle
      PROVE  InOrder'
  BY <1>0, <1>a DEF InOrder, OneTurn
<1>1. ASSUME NEW t \in Tills, NEW c \in Copy, SavesAs(t, c)
      PROVE  InOrder'
  <2>1. UNCHANGED <<job, wire, server, owner, regained>> /\ local' = [local EXCEPT ![t] = c]
    BY <1>1 DEF SavesAs
  <2>2. CASE local[t].status # "none"
    <3>1. local[t].rev > 0
      BY <1>0, <2>2 DEF Numbered
    <3>2. Older(local[t], c)
      BY <1>0, <1>1 DEF SavesAs, Older
    <3>3. \A d \in Copy : Older(d, local[t]) => Older(d, c)
      BY <1>0, <3>2, OlderIsOrder
    <3> QED
      BY <1>0, <2>1, <3>1, <3>3 DEF InOrder, OneTurn
  <2>3. CASE /\ server = NoCopy /\ wire = {}
             /\ \A u \in Tills : local[u] = NoCopy /\ job[u] = Idle
    <3>1. owner = NoTill
      BY <2>3 DEF AtOneTill
    <3> QED
      BY <1>0, <2>1, <2>3, <3>1 DEF InOrder, OneTurn
  <2> QED
    BY <1>1, <2>2, <2>3 DEF SavesAs
<1>2. ASSUME NEW t \in Tills, Prune(t)
      PROVE  InOrder'
  BY <1>0, <1>2, <1>a DEF Prune
<1>3. ASSUME NEW t \in Tills, ClaimNext(t)
      PROVE  InOrder'
  <2> DEFINE n == [till |-> t, copy |-> local[t]]
             k == [Idle EXCEPT !.state = "sent", !.copy = local[t]]
  <2>1. /\ wire' = wire \cup {n} /\ job' = [job EXCEPT ![t] = k]
        /\ UNCHANGED <<local, server, owner, regained>> /\ local[t].rev > 0
    BY <1>3 DEF ClaimNext, Numbered
  <2>2. n.till = t /\ n.copy = local[t] /\ k.copy = local[t] /\ Older(local[t], local[t])
    BY DEF Idle, Older
  <2>3. \A u \in wire : OneTurn(t) /\ u.till = t => Older(u.copy, local[t])
    BY <2>1 DEF InOrder, OneTurn
  <2>4. OneTurn(t) /\ owner = t => Older(server, local[t])
    BY <2>1 DEF InOrder, OneTurn
  <2> HIDE DEF n, k
  <2>5. \A u \in wire' : OneTurn(u.till) /\ local'[u.till].rev > 0 => Older(u.copy, local'[u.till])
    BY <2>1, <2>2 DEF InOrder, OneTurn
  <2>6. \A s \in Tills : OneTurn(s) /\ job'[s] # Idle /\ local'[s].rev > 0 => Older(job'[s].copy, local'[s])
    BY <1>0, <2>1, <2>2 DEF InOrder, OneTurn
  <2>7. \A u, v \in wire' : OneTurn(u.till) /\ u.till = v.till => Older(u.copy, v.copy) \/ Older(v.copy, u.copy)
    BY <2>1, <2>2, <2>3 DEF InOrder, OneTurn
  <2>8. \A u \in wire' : OneTurn(u.till) /\ u.till = owner => Older(u.copy, server) \/ Older(server, u.copy)
    BY <2>1, <2>2, <2>4 DEF InOrder, OneTurn
  <2> QED
    BY <2>1, <2>5, <2>6, <2>7, <2>8 DEF InOrder, OneTurn, Older
<1>4. ASSUME NEW t \in Tills, TakeAnswer(t) \/ GiveUp(t) \/ Reload(t)
      PROVE  InOrder'
  BY <1>0, <1>4, JobEnds, <1>a
<1>5. ASSUME NEW t \in Tills, ClaimTab(t)
      PROVE  InOrder'
  <2>1. /\ owner # NoTill /\ owner # t
        /\ UNCHANGED <<local, job, wire, server>> /\ owner' = t
        /\ regained \subseteq regained' /\ (t \notin regained' => ~MovedFrom(t))
    BY <1>5 DEF ClaimTab, TypeInv
  <2>2. t \notin regained' => ~Has(t)
    BY <2>1 DEF InTurn
  <2> QED
    BY <2>1, <2>2 DEF Has, InOrder, OneTurn, Older
<1>6. ASSUME NEW t \in Tills, AdoptTab(t)
      PROVE  InOrder'
  <2>1. /\ claimed[t] # NoCopy /\ UNCHANGED <<job, wire, server, owner, regained>>
        /\ local' = local \/ local' = [local EXCEPT ![t] = Adopted(claimed[t])]
    BY <1>6 DEF AdoptTab
  <2>2. CASE OneTurn(t)
    <3>1. /\ ~Has(t) /\ Adopted(claimed[t]) = claimed[t]
          /\ owner = t => claimed[t] = server
      BY <1>0, <2>1, <2>2, AdoptedIs DEF InTurn
    <3> QED
      BY <1>0, <2>1, <3>1 DEF Has, InOrder, OneTurn, Older
  <2>3. CASE ~OneTurn(t)
    BY <1>0, <2>1, <2>3 DEF InOrder, OneTurn
  <2> QED
    BY <2>2, <2>3
<1>7. ASSUME NEW u \in wire, Stores(u)
      PROVE  InOrder'
  <2>1. Answered(u, "ok") /\ server' = u.copy /\ owner' = u.till
    BY <1>7 DEF Stores
  <2>2. wire' \subseteq wire /\ UNCHANGED <<local, regained>>
        /\ \A t \in Tills : job'[t].copy = job[t].copy /\ (job'[t] # Idle => job[t] # Idle)
    BY <2>1, AnsweredJob
  <2> QED
    BY <1>0, <2>1, <2>2 DEF InOrder, OneTurn, Older
<1>8. ASSUME NEW u \in wire, Skips(u) \/ Holds(u) \/ Defers(u)
      PROVE  InOrder'
  <2>1. PICK r : Answered(u, r)
    BY <1>8 DEF Skips, Holds, Defers
  <2>2. wire' \subseteq wire /\ UNCHANGED <<local, server, owner, regained>>
        /\ \A t \in Tills : job'[t].copy = job[t].copy /\ (job'[t] # Idle => job[t] # Idle)
    BY <1>8, <2>1, AnsweredJob DEF Skips, Holds, Defers
  <2> QED
    BY <2>2, <1>a
<1>9. ASSUME NEW u \in wire, LoseRequest(u)
      PROVE  InOrder'
  BY <1>9, <1>a DEF LoseRequest
<1>10. ASSUME NEW t \in Tills, ClaimAgain(t) \/ LoseClaim(t) \/ CheckIn(t)
       PROVE  InOrder'
  BY <1>10, <1>a DEF ClaimAgain, LoseClaim, CheckIn
<1>11. CASE UNCHANGED vars
  BY <1>11, <1>a DEF vars
<1> QED
  BY <1>1, <1>2, <1>3, <1>4, <1>5, <1>6, <1>7, <1>8, <1>9, <1>10, <1>11, StepForms

LEMMA DeliveredKept ==
    ASSUME TypeInv, [PosNext]_vars, Numbered, AtOneTill, InTurn, InOrder, Delivered, TypeInv'
    PROVE  Delivered'
<1> USE PosSyncAssumption, NoCopyIsCopy
<1>0. /\ \A t \in Tills : local[t] \in Copy /\ local[t].rev \in Nat /\ job[t].copy \in Copy
      /\ \A u \in wire : u.till \in Tills /\ u.copy \in Copy
      /\ server \in Copy /\ server' \in Copy
      /\ \A t \in Tills : claimed[t] \in Copy
      /\ DOMAIN local = Tills /\ DOMAIN sync = Tills /\ DOMAIN job = Tills
  BY DEF TypeInv, PosTypeOK, Copy, CopyRow, Upload, Job
\* What was safe stays so.
<1>s. \A t \in Tills, c \in Copy : Safe(t, c) => Safe(t, c)'
  <2> SUFFICES ASSUME NEW t \in Tills, NEW c \in Copy, Safe(t, c)
               PROVE  Safe(t, c)'
    OBVIOUS
  <2>1. Older(server, server') /\ held \subseteq held'
    BY SaleGrows
  <2>2. Older(c, server) => Older(c, server')
    BY <1>0, <2>1, OlderIsOrder
  <2> QED
    BY <2>1, <2>2 DEF Safe, Older
\* A step after which no till was told anything new.
<1>a. ASSUME regained \subseteq regained',
             \A t \in Tills : /\ sync'[t] = "synced" => sync[t] = "synced" /\ local'[t] = local[t]
                              /\ job'[t] = job[t] \/ job'[t].state # "answered"
      PROVE  Delivered'
  BY <1>0, <1>a, <1>s DEF Delivered, OneTurn
<1>1. ASSUME NEW t \in Tills, NEW c \in Copy, SavesAs(t, c)
      PROVE  Delivered'
  BY <1>0, <1>1, <1>a DEF SavesAs
<1>2. ASSUME NEW t \in Tills, Prune(t)
      PROVE  Delivered'
  BY <1>0, <1>2, <1>a DEF Prune
<1>3. ASSUME NEW t \in Tills, ClaimNext(t)
      PROVE  Delivered'
  BY <1>0, <1>3, <1>a DEF ClaimNext, Idle
<1>4. ASSUME NEW t \in Tills, TakeAnswer(t) \/ GiveUp(t) \/ Reload(t)
      PROVE  Delivered'
  <2>1. /\ local' = local /\ job' = [job EXCEPT ![t] = Idle] /\ Idle.state # "answered"
        /\ regained' = regained
    BY <1>4, JobEnds DEF Idle
  <2>2. CASE /\ local[t].rev = job[t].copy.rev
             /\ sync' = [sync EXCEPT ![t] = "synced"]
             /\ job[t].state = "answered" /\ job[t].result # "retry"
    <3>1. job[t] # Idle /\ job[t].copy.rev > 0
      BY <2>2 DEF Idle, Numbered
    <3>2. OneTurn(t) => Older(job[t].copy, local[t]) /\ Safe(t, job[t].copy)
      <4>1. sync[t] # "none" \/ local[t].rev > 0
        BY <1>0, <2>2, <3>1
      <4> QED
        BY <1>0, <2>2, <3>1, <4>1 DEF InOrder, Delivered
    <3>3. OneTurn(t) => job[t].copy = local[t]
      BY <1>0, <2>2, <3>2, OlderIsOrder
    <3> QED
      BY <1>0, <1>s, <2>1, <2>2, <3>2, <3>3 DEF Delivered, OneTurn
  <2>3. CASE sync' = sync \/ sync' = [sync EXCEPT ![t] = "pending"]
    BY <1>0, <2>1, <2>3, <1>a
  <2> QED
    BY <1>4, <2>2, <2>3, JobEnds
<1>5. ASSUME NEW t \in Tills, ClaimTab(t) \/ ClaimAgain(t) \/ LoseClaim(t) \/ CheckIn(t)
      PROVE  Delivered'
  BY <1>5, <1>a DEF ClaimTab, ClaimAgain, LoseClaim, CheckIn
<1>6. ASSUME NEW t \in Tills, AdoptTab(t)
      PROVE  Delivered'
  <2>1. claimed[t] # NoCopy /\ UNCHANGED <<job, server, held, regained>>
    BY <1>6 DEF AdoptTab
  <2>2. OneTurn(t) => Adopted(claimed[t]) = claimed[t] /\ Safe(t, claimed[t])
    BY <1>0, <2>1, AdoptedIs DEF InTurn, Safe
  <2>3. CASE /\ local' = [local EXCEPT ![t] = Adopted(claimed[t])]
             /\ sync' = [sync EXCEPT ![t] = "synced"]
    BY <1>0, <1>s, <2>1, <2>2, <2>3 DEF Delivered, OneTurn
  <2>4. CASE UNCHANGED <<local, sync>>
    BY <2>1, <2>4, <1>a
  <2> QED
    BY <1>6, <2>3, <2>4 DEF AdoptTab
\* An answer that says the upload arrived.
<1>b. ASSUME NEW u \in wire, NEW r, Answered(u, r),
             OneTurn(u.till) /\ r # "retry" => Safe(u.till, u.copy)'
      PROVE  Delivered'
  <2>1. UNCHANGED <<local, sync, regained>>
    BY <1>b, AnsweredJob
  <2> SUFFICES ASSUME NEW t \in Tills, OneTurn(t), job'[t].state = "answered", job'[t].result # "retry"
               PROVE  Safe(t, job[t].copy)'
    BY <1>0, <1>s, <2>1 DEF Delivered, OneTurn, Safe
  <2>2. CASE job'[t] = job[t]
    BY <1>0, <1>s, <2>2 DEF Delivered, OneTurn, Safe
  <2>3. CASE job[t].copy = u.copy /\ t = u.till /\ job'[t].result = r
    <3>1. job'[t].copy = u.copy
      BY <1>b, <2>3, AnsweredJob
    <3> QED
      BY <1>b, <2>3, <3>1 DEF Safe
  <2> QED
    BY <1>b, <2>2, <2>3, AnsweredJob
<1>7. ASSUME NEW u \in wire, Stores(u)
      PROVE  Delivered'
  <2>1. Safe(u.till, u.copy)'
    BY <1>7 DEF Stores, Safe, Older
  <2> QED
    BY <1>7, <2>1, <1>b DEF Stores
<1>8. ASSUME NEW u \in wire, Skips(u)
      PROVE  Delivered'
  <2>1. owner \in {NoTill, u.till} /\ (server.rev > u.copy.rev \/ server = u.copy)
    BY <1>8 DEF Skips, Repeats, Belongs, AlreadyHas
  <2>2. u.copy.rev > 0 /\ owner # NoTill
    <3>1. u.copy.rev \in Nat /\ u.copy.rev > 0
      BY <1>0, OlderIsOrder DEF Numbered
    <3> QED
      BY <2>1, <3>1 DEF TypeInv
  <2>3. OneTurn(u.till) => Older(u.copy, server)
    <3>1. OneTurn(u.till) => Older(u.copy, server) \/ Older(server, u.copy)
      BY <2>1, <2>2 DEF InOrder
    <3> QED
      BY <1>0, <2>1, <3>1, OlderIsOrder DEF Older
  <2>4. OneTurn(u.till) => Safe(u.till, u.copy)'
    BY <1>8, <2>3 DEF Skips, Safe, Older
  <2> QED
    BY <1>8, <2>4, <1>b DEF Skips
<1>9. ASSUME NEW u \in wire, Holds(u)
      PROVE  Delivered'
  <2>1. u = [till |-> u.till, copy |-> u.copy]
    BY DEF TypeInv, PosTypeOK, Upload
  <2>2. Safe(u.till, u.copy)'
    BY <1>9, <2>1 DEF Holds, Safe
  <2> QED
    BY <1>9, <2>2, <1>b DEF Holds
<1>10. ASSUME NEW u \in wire, Defers(u)
      PROVE  Delivered'
  BY <1>10, <1>b DEF Defers
<1>11. ASSUME NEW u \in wire, LoseRequest(u)
       PROVE  Delivered'
  BY <1>11, <1>a DEF LoseRequest
<1>12. CASE UNCHANGED vars
  BY <1>12, <1>a DEF vars
<1> QED
  BY <1>1, <1>2, <1>3, <1>4, <1>5, <1>6, <1>7, <1>8, <1>9, <1>10, <1>11, <1>12, StepForms

\* Where the payments of a step end up: on the till that took one, and nowhere
\* else that they were not.
LEMMA PaymentsMove ==
    ASSUME TypeInv, [PosNext]_vars, Numbered, AtOneTill, InTurn, Delivered, OnlyTaken
    PROVE  /\ \A t \in Tills : OneTurn(t)' =>
                local[t].payments \subseteq local'[t].payments \cup server.payments \cup ForReview
           /\ \A p \in OnTills' : p \in OnTills \cup server.payments \/ p \in Made'
           /\ Made \subseteq Made'
           /\ \A x \in taken' : x \in taken \/ x[2] \in local'[x[1]].payments
<1> USE PosSyncAssumption, NoCopyIsCopy
<1>0. /\ DOMAIN local = Tills /\ taken \subseteq Tills \X Payments
      /\ \A t \in Tills : claimed[t] \in Copy /\ local[t].rev \in Nat
  BY DEF TypeInv, PosTypeOK, Copy, CopyRow
<1>a. ASSUME UNCHANGED <<local, taken>>
      PROVE  OnTills' = OnTills /\ Made' = Made
  BY <1>a DEF OnTills, Made
<1>1. ASSUME NEW t \in Tills, NEW c \in Copy, SavesAs(t, c)
      PROVE  /\ \A u \in Tills : local[u].payments \subseteq local'[u].payments
             /\ \A p \in OnTills' : p \in OnTills \/ p \in Made'
             /\ Made \subseteq Made'
             /\ \A x \in taken' : x \in taken \/ x[2] \in local'[x[1]].payments
  <2>1. /\ local' = [local EXCEPT ![t] = c] /\ local[t].payments \subseteq c.payments
        /\ taken \subseteq taken'
    BY <1>1 DEF SavesAs
  <2>2. \A x \in taken' : x \in taken \/ x[2] \in local'[x[1]].payments
    BY <1>0, <1>1, <2>1 DEF SavesAs
  <2>3. Made \subseteq Made'
    BY <2>1 DEF Made
  <2>4. \A p \in c.payments : p \in local[t].payments \/ p \in Made'
    <3>1. \A p : <<t, p>> \in taken' => p \in Made'
      <4>1. \A p : <<t, p>>[2] = p
        OBVIOUS
      <4> QED
        BY <4>1 DEF Made
    <3> QED
      BY <1>1, <3>1 DEF SavesAs
  <2>5. \A p \in OnTills' : p \in OnTills \/ p \in Made'
    BY <1>0, <2>1, <2>4 DEF OnTills
  <2> QED
    BY <1>0, <2>1, <2>2, <2>3, <2>5
<1>2. ASSUME NEW t \in Tills, Prune(t)
      PROVE  /\ \A u \in Tills : u # t => local'[u] = local[u]
             /\ OnTills' \subseteq OnTills /\ UNCHANGED <<taken, regained>>
  BY <1>0, <1>2 DEF Prune, OnTills
<1>3. ASSUME NEW t \in Tills, Prune(t), OneTurn(t)
      PROVE  local[t].payments \subseteq server.payments \cup ForReview
  <2>1. Safe(t, local[t])
    BY <1>3 DEF Prune, Delivered
  <2> QED
    BY <2>1 DEF Safe, Older, ForReview
<1>4. ASSUME NEW t \in Tills, AdoptTab(t)
      PROVE  /\ \A u \in Tills : u # t => local'[u] = local[u]
             /\ OneTurn(t) => local[t].payments = {}
             /\ OnTills' \subseteq OnTills \cup server.payments /\ UNCHANGED <<taken, regained>>
  <2>1. /\ claimed[t] # NoCopy /\ UNCHANGED <<taken, regained>>
        /\ local' = local \/ local' = [local EXCEPT ![t] = Adopted(claimed[t])]
    BY <1>4 DEF AdoptTab
  <2>2. OneTurn(t) => local[t] = NoCopy
    BY <1>0, <2>1 DEF InTurn, Has, Numbered
  <2>3. Adopted(claimed[t]).payments \subseteq server.payments
    BY <1>0, AdoptedIs DEF OnlyTaken
  <2> QED
    BY <1>0, <2>1, <2>2, <2>3 DEF OnTills
<1>5. ASSUME NEW u \in wire, Stores(u) \/ Skips(u) \/ Holds(u) \/ Defers(u) \/ LoseRequest(u)
      PROVE  UNCHANGED <<local, taken>>
  BY <1>5 DEF Stores, Skips, Holds, Defers, Answered, LoseRequest
<1>6. ASSUME NEW t \in Tills, \/ ClaimNext(t) \/ TakeAnswer(t) \/ GiveUp(t) \/ Reload(t)
                              \/ ClaimTab(t) \/ ClaimAgain(t) \/ LoseClaim(t) \/ CheckIn(t)
      PROVE  UNCHANGED <<local, taken>>
  BY <1>6 DEF ClaimNext, TakeAnswer, GiveUp, Reload, ClaimTab, ClaimAgain, LoseClaim, CheckIn
<1>7. UNCHANGED vars => UNCHANGED <<local, taken>>
  BY DEF vars
<1>8. CASE UNCHANGED <<local, taken>>
  BY <1>8, <1>a
<1>9. ASSUME NEW t \in Tills, Prune(t) \/ AdoptTab(t)
      PROVE  /\ Made' = Made /\ OnTills' \subseteq OnTills \cup server.payments
             /\ taken' = taken
             /\ \A u \in Tills : OneTurn(u)' =>
                  local[u].payments \subseteq local'[u].payments \cup server.payments \cup ForReview
  <2>1. UNCHANGED <<taken, regained>> /\ OnTills' \subseteq OnTills \cup server.payments
    BY <1>2, <1>4, <1>9
  <2>2. Made' = Made
    BY <2>1 DEF Made
  <2>3. \A u \in Tills : OneTurn(u) =>
          local[u].payments \subseteq local'[u].payments \cup server.payments \cup ForReview
    BY <1>2, <1>3, <1>4, <1>9
  <2> QED
    BY <2>1, <2>2, <2>3 DEF OneTurn
<1> QED
  BY <1>1, <1>5, <1>6, <1>7, <1>8, <1>9, StepForms

LEMMA MoneyKept ==
    ASSUME TypeInv, [PosNext]_vars, Numbered, AtOneTill, InTurn, Delivered, OnlyTaken,
           PaymentsAreKept, TypeInv'
    PROVE  OnlyTaken' /\ PaymentsAreKept'
<1>0. /\ taken' \subseteq Tills \X Payments /\ DOMAIN claimed = Tills
      /\ server.payments \subseteq server'.payments /\ ForReview \subseteq ForReview'
  BY SaleGrows DEF TypeInv, PosTypeOK
<1>1. PaymentsAreKept'
  <2> SUFFICES ASSUME NEW t \in Tills, NEW p \in Payments, <<t, p>> \in taken',
                      t \notin regained'
               PROVE  p \in server'.payments \cup ForReview' \cup local'[t].payments
    BY DEF PaymentsAreKept
  <2>1. OneTurn(t)'
    BY DEF OneTurn
  <2>2. CASE <<t, p>> \in taken
    <3>1. regained \subseteq regained'
      BY StepForms DEF SavesAs, Prune, ClaimNext, TakeAnswer, GiveUp, Reload, ClaimTab,
           ClaimAgain, AdoptTab, LoseClaim, CheckIn, Stores, Skips, Holds, Defers, Answered,
           LoseRequest, vars
    <3>2. p \in server.payments \cup ForReview \cup local[t].payments
      BY <2>2, <3>1 DEF PaymentsAreKept
    <3> QED
      BY <1>0, <2>1, <3>2, PaymentsMove
  <2>3. CASE <<t, p>> \notin taken
    BY <2>3, PaymentsMove
  <2> QED
    BY <2>2, <2>3
<1>2. OnTills' \subseteq Made'
  BY PaymentsMove DEF OnlyTaken
<1>3. \A u \in wire' : u.copy.payments \subseteq Made'
  <2>1. ASSUME NEW t \in Tills, ClaimNext(t)
        PROVE  wire' \subseteq wire \cup {[till |-> t, copy |-> local[t]]}
                 /\ local[t].payments \subseteq OnTills
    BY <2>1 DEF ClaimNext, OnTills
  <2>2. (\E t \in Tills : ClaimNext(t)) \/ wire' \subseteq wire
    BY StepForms DEF SavesAs, Prune, TakeAnswer, GiveUp, Reload, ClaimTab, ClaimAgain, AdoptTab,
         LoseClaim, CheckIn, Stores, Skips, Holds, Defers, Answered, LoseRequest, vars
  <2> QED
    BY <2>1, <2>2, PaymentsMove DEF OnlyTaken
<1>4. server'.payments \cup ForReview' \subseteq Made'
  <2>1. ASSUME NEW u \in wire, Stores(u)
        PROVE  server' = u.copy /\ held' = held
    BY <2>1 DEF Stores
  <2>2. ASSUME NEW u \in wire, Holds(u)
        PROVE  server' = server /\ held' = held \cup {u}
    BY <2>2 DEF Holds
  <2>3. \/ \E u \in wire : Stores(u) \/ Holds(u)
        \/ server' = server /\ held' = held
    BY StepForms DEF SavesAs, Prune, ClaimNext, TakeAnswer, GiveUp, Reload, ClaimTab, ClaimAgain,
         AdoptTab, LoseClaim, CheckIn, Skips, Defers, LoseRequest, vars
  <2> QED
    BY <2>1, <2>2, <2>3, PaymentsMove DEF OnlyTaken, ForReview
<1>5. \A t \in Tills : claimed'[t].payments \subseteq server'.payments
  <2>1. ASSUME NEW t \in Tills, ClaimTab(t) \/ ClaimAgain(t)
        PROVE  claimed' = [claimed EXCEPT ![t] = server]
    BY <2>1 DEF ClaimTab, ClaimAgain
  <2>2. \/ \E t \in Tills : ClaimTab(t) \/ ClaimAgain(t)
        \/ claimed' = claimed
        \/ \E t \in Tills : claimed' = [claimed EXCEPT ![t] = NoCopy]
    BY StepForms DEF SavesAs, Prune, ClaimNext, TakeAnswer, GiveUp, Reload, AdoptTab,
         LoseClaim, CheckIn, Stores, Skips, Holds, Defers, Answered, LoseRequest, vars
  <2> QED
    BY <1>0, <2>1, <2>2, NoCopyIsCopy DEF OnlyTaken
<1> QED
  BY <1>1, <1>2, <1>3, <1>4, <1>5 DEF OnlyTaken

LEMMA TabInvHolds == PosSpec => []TabInv
<1>1. PosInit => TabInv
  <2> SUFFICES ASSUME PosInit PROVE TabInv
    OBVIOUS
  <2>1. TypeInv
    BY PosSyncAssumption, NoCopyIsCopy
       DEF PosInit, TypeInv, PosTypeOK, Idle, Job, Results, SyncStates
  <2>2. \A t \in Tills : /\ local[t] = NoCopy /\ job[t] = Idle /\ sync[t] = "none"
                         /\ claimed[t] = NoCopy /\ ~Has(t)
    BY NoCopyIsCopy DEF PosInit, Has
  <2>3. /\ wire = {} /\ server = NoCopy /\ owner = NoTill /\ taken = {} /\ held = {}
        /\ moved = {} /\ asked = {}
    BY DEF PosInit
  <2>4. OnTills = {} /\ ForReview = {}
    BY <2>2, <2>3, NoCopyIsCopy DEF OnTills, ForReview
  <2> QED
    BY <2>1, <2>2, <2>3, <2>4, NoCopyIsCopy, PosSyncAssumption
       DEF TabInv, Numbered, AtOneTill, InTurn, InOrder, Delivered, OnlyTaken, PaymentsAreKept,
           Idle
<1>2. TabInv /\ TypeInv' /\ [PosNext]_vars => TabInv'
  BY NumberedKept, TurnsKept, InOrderKept, DeliveredKept, MoneyKept DEF TabInv
<1> QED
  BY <1>1, <1>2, TypeInvHolds, PTL DEF PosSpec

\* Whichever tills take the tab over, and however often, no payment is lost that
\* was made at a till on its one turn: it is on the recorded sale, on an upload
\* held for a person or on that till's own copy.
THEOREM NoPaymentIsLost == PosSpec => []PaymentsAreKept
<1>1. TabInv => PaymentsAreKept
  BY DEF TabInv
<1> QED
  BY <1>1, TabInvHolds, PTL

\* And what such a till counts as delivered the server has, so that clearing it
\* from the till loses nothing.
THEOREM DeliveredIsSafe == PosSpec => []SyncedIsSafe
<1>1. TabInv => SyncedIsSafe
  BY DEF TabInv, Delivered, OneTurn, Safe, Older, SyncedIsSafe
<1> QED
  BY <1>1, TabInvHolds, PTL

-----------------------------------------------------------------------------
\* The sale is one record

LEMMA WhereIs ==
    ASSUME NEW p \in Payments
    PROVE  /\ Where(p) = "recorded" <=> p \in server.payments
           /\ Where(p) = "held" <=> p \notin server.payments /\ p \in ForReview
           /\ Where(p) = "till" <=> p \notin server.payments \cup ForReview /\ p \in OnTills
           /\ Where(p) = "lost" <=> /\ p \notin server.payments \cup ForReview \cup OnTills
                                    /\ p \in Made
           /\ Where(p) = "nowhere" <=>
                p \notin server.payments \cup ForReview \cup OnTills \cup Made
  BY DEF Where

\* What a step does to the record, stated of each payment.
Moves(S, place) ==
    \A p \in Payments : Where(p)' = IF p \in S THEN place ELSE Where(p)

LEMMA PutIs ==
    ASSUME NEW S, NEW place, Moves(S, place)
    PROVE  Record!Put(S, place)
  BY DEF Moves, Record!Put

LEMMA RecordedIs == TypeInv => Record!Recorded = server.payments
  BY WhereIs DEF Record!Recorded, TypeInv, PosTypeOK, Copy, CopyRow

\* A step that records nothing and holds nothing may lose what is at risk.
LEMMA NothingIsStored ==
    ASSUME TabInv, TabInv', UNCHANGED <<server, held, taken, regained>>,
           OnTills' \subseteq OnTills \cup server.payments \cup ForReview
    PROVE  [Record!SaleNext]_(Record!record)
<1> PICK S \in SUBSET Payments : S = {p \in Payments : Where(p) = "till" /\ Where(p)' = "lost"}
  OBVIOUS
<1>1. /\ ForReview' = ForReview /\ Made' = Made /\ AtRisk' = AtRisk /\ Sale' = Sale
      /\ OnTills \subseteq Made
  BY DEF ForReview, Made, AtRisk, Sale, TabInv, OnlyTaken
<1>2. Moves(S, "lost")
  BY <1>1 DEF Moves, Where
<1>3. ASSUME NEW p \in S
      PROVE  p \in AtRisk
  <2>1. p \in Made /\ p \notin server.payments \cup ForReview \cup OnTills'
    BY <1>1 DEF Where
  <2>2. PICK x \in taken : x[2] = p
    BY <2>1 DEF Made
  <2>3. x[1] \in Tills /\ x = <<x[1], p>> /\ p \in Payments
    BY <2>2 DEF TabInv, TypeInv, PosTypeOK
  <2>4. p \notin local'[x[1]].payments
    BY <2>1, <2>3 DEF OnTills
  <2>5. x[1] \in regained
    BY <1>1, <2>1, <2>2, <2>3, <2>4 DEF TabInv, PaymentsAreKept
  <2> QED
    BY <2>2, <2>5 DEF AtRisk
<1>4. Record!Put(S, "lost")
  BY <1>2, PutIs
<1>5. \A p \in S : [q \in Payments |-> Where(q)][p] = "till"
  OBVIOUS
<1>6. Record!Lose(S)
  BY <1>1, <1>3, <1>4, <1>5 DEF Record!Lose
<1> QED
  BY <1>6 DEF Record!SaleNext

LEMMA SavesTakes ==
    ASSUME TabInv, TabInv', NEW t \in Tills, NEW c \in Copy, SavesAs(t, c)
    PROVE  [Record!SaleNext]_(Record!record)
<1>1. /\ UNCHANGED <<server, held, regained>> /\ ForReview' = ForReview /\ Sale' = Sale
  BY DEF SavesAs, ForReview, Sale
<1>2. OnTills' = OnTills \cup c.payments /\ local[t].payments \subseteq OnTills
  BY DEF SavesAs, OnTills, TabInv, TypeInv, PosTypeOK
<1>3. CASE c.payments = local[t].payments /\ taken' = taken
  BY <1>1, <1>2, <1>3, NothingIsStored
<1>4. ASSUME NEW p \in Payments \ Made, c.payments = local[t].payments \cup {p},
             taken' = taken \cup {<<t, p>>}
      PROVE  [Record!SaleNext]_(Record!record)
  <2>1. p \in Payments /\ p \notin Made
    OBVIOUS
  <2>2. p \notin server.payments \cup ForReview \cup OnTills
    BY <2>1 DEF TabInv, OnlyTaken
  <2>3. /\ OnTills' = OnTills \cup {p} /\ taken' = taken \cup {<<t, p>>}
    BY <1>2, <1>4
  <2>4. Made' = Made \cup {p} /\ AtRisk' \in {AtRisk, AtRisk \cup {p}}
    <3> DEFINE x == <<t, p>>
    <3>1. x[1] = t /\ x[2] = p /\ taken' = taken \cup {x} /\ regained' = regained
      BY <1>1, <2>3
    <3> HIDE DEF x
    <3>2. Made' = Made \cup {p}
      BY <3>1 DEF Made
    <3>3. {y \in taken' : y[1] \in regained'} =
            IF t \in regained THEN {y \in taken : y[1] \in regained} \cup {x}
                              ELSE {y \in taken : y[1] \in regained}
      BY <3>1
    <3>4. AtRisk' = IF t \in regained THEN AtRisk \cup {p} ELSE AtRisk
      BY <3>1, <3>3 DEF AtRisk
    <3> QED
      BY <3>2, <3>4
  <2>5. Moves({p}, "till") /\ Where(p) = "nowhere"
    BY <1>1, <2>1, <2>2, <2>3, <2>4 DEF Moves, Where
  <2>6. Record!Put({p}, "till")
    BY <2>5, PutIs
  <2>7. Record!Take(p)
    BY <1>1, <2>1, <2>4, <2>5, <2>6 DEF Record!Take
  <2> QED
    BY <2>1, <2>7 DEF Record!SaleNext
<1> QED
  BY <1>3, <1>4 DEF SavesAs

LEMMA HoldsKeeps ==
    ASSUME TabInv, TabInv', NEW u \in wire, Holds(u)
    PROVE  [Record!SaleNext]_(Record!record)
<1> PICK S \in SUBSET Payments :
      S = {p \in Payments : p \in u.copy.payments /\ Where(p) \in {"till", "lost"}}
  OBVIOUS
<1>1. /\ server' = server /\ OnTills' = OnTills /\ Made' = Made /\ AtRisk' = AtRisk
      /\ ForReview' = ForReview \cup u.copy.payments /\ Sale' = Sale
  BY DEF Holds, Answered, OnTills, ForReview, Made, AtRisk, Sale
<1>2. u.copy.payments \subseteq Made
  BY DEF TabInv, OnlyTaken
<1>3. Moves(S, "held")
  BY <1>1, <1>2 DEF Moves, Where
<1>4. Record!Put(S, "held")
  BY <1>3, PutIs
<1>5. Record!Keep(S)
  BY <1>1, <1>4 DEF Record!Keep
<1> QED
  BY <1>5 DEF Record!SaleNext

\* A till that takes the tab back exposes what it took.
LEMMA ClaimExposes ==
    ASSUME TabInv, NEW t \in Tills, ClaimTab(t)
    PROVE  [Record!SaleNext]_(Record!record)
<1> DEFINE S == AtRisk'
<1>1. /\ UNCHANGED <<server, held, local, taken>> /\ regained \subseteq regained'
  BY DEF ClaimTab
<1>2. /\ UNCHANGED <<OnTills, ForReview, Made, Sale>> /\ AtRisk \subseteq S /\ S \subseteq Made
  BY <1>1 DEF OnTills, ForReview, Made, Sale, AtRisk
<1>3. S \subseteq Payments
  BY <1>2 DEF Made, TabInv, TypeInv, PosTypeOK
<1>4. \A p \in Payments : Where(p)' = Where(p)
  BY <1>1, <1>2 DEF Where
<1>5. \A p \in S : [q \in Payments |-> Where(q)][p] # "nowhere"
  BY <1>2, <1>3 DEF Where
<1>6. AtRisk' = AtRisk \cup S
  BY <1>2
<1> HIDE DEF S
<1>7. Record!Expose(S)
  BY <1>1, <1>2, <1>4, <1>5, <1>6 DEF Record!Expose
<1> QED
  BY <1>3, <1>7 DEF Record!SaleNext

LEMMA StoresRecords ==
    ASSUME TabInv, TabInv', NEW u \in wire, Stores(u)
    PROVE  [Record!SaleNext]_(Record!record)
<1> USE PosSyncAssumption
<1> DEFINE c == u.copy
<1> PICK S \in SUBSET Payments : S = {p \in Payments : p \in c.payments /\ p \notin server.payments}
  OBVIOUS
<1>1. /\ server' = c /\ OnTills' = OnTills /\ ForReview' = ForReview
      /\ Made' = Made /\ AtRisk' = AtRisk
      /\ server = NoCopy \/ Continues(c)
      /\ Balances(c)
  BY DEF Stores, Stored, Answered, OnTills, ForReview, Made, AtRisk
<1>2. c \in Copy /\ server \in Copy /\ c.status # "none"
  BY DEF TabInv, TypeInv, PosTypeOK, Upload, Numbered
<1>3. c.payments \subseteq Made
  BY DEF TabInv, OnlyTaken
<1>4. server.payments \subseteq c.payments
  BY <1>1, NoCopyIsCopy DEF Continues
<1>5. Moves(S, "recorded") /\ \A p \in S : Where(p) \in {"till", "lost", "held"}
  BY <1>1, <1>3, <1>4 DEF Moves, Where
<1>6. Record!Put(S, "recorded")
  BY <1>5, PutIs
<1>7. Record!Recorded = server.payments /\ (Record!Recorded)' = c.payments
  BY <1>1, RecordedIs DEF TabInv, TypeInv, PosTypeOK, Copy, CopyRow, Record!Recorded, Where
<1>8. /\ c.status \in {"open", "paid", "refunded", "void"}
      /\ Cardinality(c.payments) >= Due => c.status \in {"paid", "refunded"}
      /\ c.status \in {"paid", "refunded"} => Cardinality(c.payments) >= Due \/ c.lines \in Free
      /\ c.status = "void" \/ c.lines \in Free => c.payments = {}
      /\ c.payments \in SUBSET Payments
  <2>1. c.payments = {} => ~(Cardinality(c.payments) >= Due)
    BY FS_EmptySet
  <2> QED
    BY <1>1, <1>2, <2>1 DEF Balances, Adds, Covered, Copy, CopyRow, Statuses
<1>9. /\ server.status # "void"
      /\ server.status \in {"paid", "refunded"} =>
           c.status \in {"paid", "refunded"} /\ c.lines = server.lines /\ S = {}
  BY <1>1, <1>2, NoCopyIsCopy DEF Continues
<1>10. c.lines \in SUBSET Lines /\ (server.payments # {} => c.lines = server.lines)
  BY <1>1, <1>2, NoCopyIsCopy DEF Continues, Copy, CopyRow
<1>11. /\ {r[2] : r \in c.refunds} \in SUBSET c.payments
       /\ {r[2] : r \in server.refunds} \subseteq {r[2] : r \in c.refunds}
       /\ c.status \notin {"paid", "refunded"} => {r[2] : r \in c.refunds} = {}
  <2>1. server.refunds \subseteq c.refunds
    BY <1>1, NoCopyIsCopy DEF Continues
  <2>2. {r[2] : r \in c.refunds} \in SUBSET c.payments
    BY <1>2 DEF Copy, Adds
  <2>3. c.status \notin {"paid", "refunded"} => c.refunds = {}
    BY <1>2 DEF Copy, Adds
  <2> QED
    BY <2>1, <2>2, <2>3
<1> HIDE DEF c
<1>12. Sale' = IF c.status \in {"paid", "refunded"} THEN "closed" ELSE c.status
  BY <1>1 DEF Sale
<1>13. /\ Sale # "void" /\ Sale' \in {"open", "closed", "void"}
       /\ Sale = "closed" => Sale' = "closed" /\ server'.lines = server.lines /\ S = {}
       /\ Sale' = "void" \/ server'.lines \in Free => (Record!Recorded)' = {}
       /\ Cardinality(c.payments) >= Due => Sale' = "closed"
       /\ Sale' = "closed" => Cardinality(c.payments) >= Due \/ server'.lines \in Free
  <2>1. Sale # "void"
    BY <1>9 DEF Sale
  <2>2. Sale = "closed" <=> server.status \in {"paid", "refunded"}
    <3>1. server.status # "closed"
      BY <1>2 DEF Copy, CopyRow, Statuses
    <3> QED
      BY <3>1 DEF Sale
  <2>3. Sale' \in {"open", "closed", "void"}
    BY <1>8, <1>12
  <2>4. Sale' = "closed" <=> c.status \in {"paid", "refunded"}
    BY <1>8, <1>12
  <2>5. Sale' = "void" <=> c.status = "void"
    BY <1>8, <1>12
  <2> QED
    BY <1>1, <1>7, <1>8, <1>9, <2>1, <2>2, <2>3, <2>4, <2>5
<1>14. /\ server'.lines \in SUBSET Lines
       /\ Record!Recorded # {} => server'.lines = server.lines
       /\ {r[2] : r \in server'.refunds} \in SUBSET (Record!Recorded)'
       /\ {r[2] : r \in server.refunds} \subseteq {r[2] : r \in server'.refunds}
       /\ Sale' # "closed" => {r[2] : r \in server'.refunds} = {}
  BY <1>1, <1>7, <1>10, <1>11, <1>12
<1>15. \A p \in S : [q \in Payments |-> Where(q)][p] \in {"till", "lost", "held"}
  BY <1>5
<1>16. (Record!Recorded)' \in {P \in SUBSET Payments : Cardinality(P) >= Due}
         <=> Cardinality(c.payments) >= Due
  BY <1>7, <1>8
<1>17. Record!Record(S)
  BY <1>1, <1>6, <1>13, <1>14, <1>15, <1>16 DEF Record!Record
<1> QED
  BY <1>17 DEF Record!SaleNext

\* The tills and the server together keep one record of the sale: payments only
\* go forward to the recorded sale, which is closed when its payments cover the
\* bill and not before, unless the bill comes to nothing; only a till that took
\* the tab back can lose one on the way.
THEOREM SaleIsOneRecord == PosSpec => SaleGoesForward
<1>1. PosInit => Record!SaleInit
  <2> SUFFICES ASSUME PosInit PROVE Record!SaleInit
    OBVIOUS
  <2>1. OnTills = {} /\ ForReview = {} /\ Made = {} /\ AtRisk = {} /\ server = NoCopy
    BY NoCopyIsCopy DEF PosInit, OnTills, ForReview, Made, AtRisk
  <2> QED
    BY <2>1, NoCopyIsCopy DEF Record!SaleInit, Where, Sale
<1>2. TabInv /\ TabInv' /\ [PosNext]_vars => [Record!SaleNext]_(Record!record)
  <2> SUFFICES ASSUME TabInv, TabInv', [PosNext]_vars
               PROVE  [Record!SaleNext]_(Record!record)
    OBVIOUS
  <2>1. ASSUME NEW t \in Tills, \/ Prune(t) \/ ClaimNext(t)
                                \/ TakeAnswer(t) \/ GiveUp(t) \/ Reload(t)
                                \/ ClaimAgain(t) \/ AdoptTab(t) \/ LoseClaim(t) \/ CheckIn(t)
        PROVE  [Record!SaleNext]_(Record!record)
    <3>1. UNCHANGED <<server, held, taken, regained>>
      BY <2>1 DEF Prune, ClaimNext, TakeAnswer, GiveUp, Reload, ClaimAgain, AdoptTab,
                  LoseClaim, CheckIn
    <3>2. OnTills' \subseteq OnTills \cup server.payments
      <4>1. CASE local' = local
        BY <4>1 DEF OnTills
      <4>2. CASE \/ local' = [local EXCEPT ![t] = NoCopy]
                 \/ local' = [local EXCEPT ![t] = Adopted(claimed[t])]
        <5>1. Adopted(claimed[t]).payments \subseteq server.payments
          BY AdoptedIs DEF TabInv, TypeInv, PosTypeOK, OnlyTaken
        <5> QED
          BY <4>2, <5>1, NoCopyIsCopy DEF OnTills, TabInv, TypeInv, PosTypeOK
      <4> QED
        BY <2>1, <4>1, <4>2 DEF Prune, ClaimNext, TakeAnswer, GiveUp, Reload, ClaimAgain,
                  AdoptTab, LoseClaim, CheckIn
    <3> QED
      BY <3>1, <3>2, NothingIsStored
  <2>2. ASSUME NEW u \in wire, Skips(u) \/ Defers(u) \/ LoseRequest(u)
        PROVE  [Record!SaleNext]_(Record!record)
    <3>1. UNCHANGED <<server, held, local, taken, regained>>
      BY <2>2 DEF Skips, Defers, Answered, LoseRequest
    <3> QED
      BY <3>1, NothingIsStored DEF OnTills
  <2>3. CASE UNCHANGED vars
    BY <2>3, NothingIsStored DEF vars, OnTills
  <2> QED
    BY <2>1, <2>2, <2>3, SavesTakes, HoldsKeeps, StoresRecords, ClaimExposes, StepForms
       DEF TabInv
<1> QED
  BY <1>1, <1>2, TabInvHolds, PTL DEF PosSpec, SaleGoesForward, Record!SaleSpec

=============================================================================
