------------------------------- MODULE PosSync -------------------------------
(***************************************************************************)
(* One tab on the tills of a location and on the server.  A till works on  *)
(* its own copy whether it is online or not and uploads each revision; the *)
(* server stores what it can and holds the rest for a person; another till *)
(* may take an open tab over (apps/station/src/lib/orders.ts, outbox.ts;   *)
(* apps/tenant-api/src/services/pos-service.ts, routes/pos.ts).            *)
(*                                                                         *)
(* A step is one IndexedDB transaction of a till or one transaction of the *)
(* region.  Requests and answers take their time, are lost, and a request  *)
(* whose answer nobody waits for any more may still arrive.                *)
(***************************************************************************)
EXTENDS Integers, FiniteSets

CONSTANTS
    Tills,      \* the terminals of one location
    Lines,      \* the lines that may be on the bill
    Free,       \* the bills that come to nothing: comped, discounted whole
    Payments,   \* the payments a till may take
    Due,        \* how many payments cover any other bill
    MaxHeld,    \* MAX_HELD_PER_DEVICE
    NoTill,     \* the server does not know the tab
    MaxMoves,   \* bound on the ways the tab moves between two tills
    MaxRevision, \* bound on the revisions of the tab
    MaxWire     \* bound on the uploads that are on their way at once

ASSUME PosSyncAssumption ==
    /\ IsFiniteSet(Tills) /\ NoTill \notin Tills
    /\ Free \subseteq SUBSET Lines
    /\ Due \in Nat \ {0} /\ MaxHeld \in Nat \ {0}
    /\ MaxRevision \in Nat \ {0} /\ MaxWire \in Nat \ {0} /\ MaxMoves \in Nat

VARIABLES
    local,      \* the copy of the tab on each till
    sync,       \* where that copy is in the till's outbox
    away,       \* the till believes another one took the tab over
    job,        \* the outbox of each till: the upload it waits for
    wire,       \* uploads on their way to the server
    server,     \* the copy the server has
    owner,      \* the till the server has it from
    moved,      \* pos_order_transfers
    held,       \* uploads held for a person, those already settled included
    claimed,    \* the answer to a claim that each till has yet to store
    asked,      \* the tills that still list a tab they had no answer for
    taken,      \* every payment taken from a guest, with the till that took it
    regained    \* the tills that took the tab back after another one had it

tillVars == <<local, sync, away, job, claimed, asked>>
region == <<server, owner, moved, held>>
history == <<taken, regained>>
vars == <<tillVars, wire, region, history>>

-----------------------------------------------------------------------------
\* State

Statuses == {"none", "open", "paid", "refunded", "void"}
SyncStates == {"none", "pending", "syncing", "synced"}
Results == {"ok", "held", "moved", "retry"}

\* A refund is the till's own row of the payment it gives back.
CopyRow == [rev : 0 .. MaxRevision, status : Statuses, lines : SUBSET Lines,
            voids : SUBSET Lines, payments : SUBSET Payments,
            refunds : SUBSET (Tills \X Payments)]

Covered(c) == Cardinality(c.payments) >= Due

\* A bill is closed once its payments cover it, or without one when it comes to
\* nothing; one that took a payment is never cancelled, and only what was paid
\* is refunded.
Adds(c) ==
    /\ c.status \in {"paid", "refunded"} => Covered(c) \/ c.lines \in Free
    /\ c.status \in {"none", "void"} \/ c.lines \in Free => c.payments = {}
    /\ c.refunds # {} => c.status \in {"paid", "refunded"}
    /\ {r[2] : r \in c.refunds} \subseteq c.payments

\* posOrderRequestSchema asks as much of an upload, and that a bill whose
\* payments cover it is not open.  A copy a till adopted may be.
Balances(c) == Adds(c) /\ (Covered(c) => c.status # "open")

Copy == {c \in CopyRow : Adds(c)}

Upload == [till : Tills, copy : Copy]

Job == [state : {"idle", "sent", "answered"}, copy : Copy, result : Results]

PosTypeOK ==
    /\ local \in [Tills -> Copy]
    /\ sync \in [Tills -> SyncStates]
    /\ away \in [Tills -> BOOLEAN]
    /\ job \in [Tills -> Job]
    /\ wire \subseteq Upload
    /\ server \in Copy /\ Balances(server)
    /\ owner \in Tills \cup {NoTill}
    /\ moved \subseteq Tills \X Tills
    /\ held \subseteq Upload
    /\ claimed \in [Tills -> Copy]
    /\ asked \subseteq Tills
    /\ taken \subseteq Tills \X Payments
    /\ regained \subseteq Tills

NoCopy == [rev |-> 0, status |-> "none", lines |-> {}, voids |-> {},
           payments |-> {}, refunds |-> {}]

Idle == [state |-> "idle", copy |-> NoCopy, result |-> "ok"]

PosInit ==
    /\ local = [t \in Tills |-> NoCopy]
    /\ sync = [t \in Tills |-> "none"]
    /\ away = [t \in Tills |-> FALSE]
    /\ job = [t \in Tills |-> Idle]
    /\ wire = {} /\ held = {}
    /\ server = NoCopy /\ owner = NoTill /\ moved = {}
    /\ claimed = [t \in Tills |-> NoCopy] /\ asked = {}
    /\ taken = {} /\ regained = {}

-----------------------------------------------------------------------------
\* Work at a till

\* touched: a changed copy is a new revision and is queued again.  Whoever works
\* on a bill has left the list of other tills' tabs.
Saved(t, copy) ==
    /\ local[t].rev < MaxRevision
    /\ local' = [local EXCEPT ![t] = [copy EXCEPT !.rev = local[t].rev + 1]]
    /\ sync' = [sync EXCEPT ![t] = "pending"]
    /\ asked' = asked \ {t}
    /\ UNCHANGED <<away, job, claimed, wire, region, regained>>

\* statusFor: the bill is paid once its payments cover it.
WithPayments(copy, payments) ==
    [copy EXCEPT !.payments = payments,
                 !.status = IF Cardinality(payments) >= Due THEN "paid" ELSE "open"]

\* The payments guests have made.
Made == {x[2] : x \in taken}

\* The till makes the id of a new tab, so no other one has it yet.
NewTab(t) ==
    /\ server = NoCopy /\ wire = {} /\ taken = {}
    /\ \A u \in Tills : local[u] = NoCopy /\ job[u] = Idle

\* createOrder, with or without a first payment.
CreateOrder(t, lines, payments) ==
    /\ NewTab(t)
    /\ lines # {} /\ \A p, q \in payments : p = q
    /\ lines \in Free => payments = {}
    /\ Saved(t, WithPayments([NoCopy EXCEPT !.lines = lines], payments))
    /\ taken' = {t} \X payments

\* createFreeOrder: a bill that comes to nothing is saved closed.
CreateFree(t, lines) ==
    /\ NewTab(t)
    /\ lines # {} /\ lines \in Free
    /\ Saved(t, [NoCopy EXCEPT !.lines = lines, !.status = "paid"])
    /\ UNCHANGED taken

\* closeFreeOrder asks neither for a payment nor whether the tab is elsewhere.
CloseFree(t) ==
    /\ local[t].status = "open" /\ local[t].lines \in Free
    /\ Saved(t, [local[t] EXCEPT !.status = "paid"])
    /\ UNCHANGED taken

\* updateTab: what comes off is recorded; a bill that took a payment is frozen.
\* A dish ordered again after it came off is a line of its own.
UpdateTab(t, lines) ==
    /\ local[t].status = "open" /\ ~away[t] /\ local[t].payments = {}
    /\ lines # {} /\ lines # local[t].lines /\ lines \cap local[t].voids = {}
    /\ Saved(t, [local[t] EXCEPT !.lines = lines, !.voids = @ \cup (local[t].lines \ lines)])
    /\ UNCHANGED taken

\* addPayment, of no more than is left to pay.
AddPayment(t, p) ==
    /\ local[t].status = "open" /\ ~away[t]
    /\ ~Covered(local[t]) /\ local[t].lines \notin Free
    /\ p \notin Made
    /\ Saved(t, WithPayments(local[t], local[t].payments \cup {p}))
    /\ taken' = taken \cup {<<t, p>>}

\* Mutant: an open tab is cancelled whatever it took.
VoidWhileOpen(t) ==
    /\ local[t].status = "open"
    /\ Saved(t, [local[t] EXCEPT !.status = "void"])
    /\ UNCHANGED taken

\* voidTab asks only whether the bill took a payment.
Void(t) ==
    /\ local[t].status = "open" /\ local[t].payments = {}
    /\ Saved(t, [local[t] EXCEPT !.status = "void"])
    /\ UNCHANGED taken

\* refundOrder: some or all of what is left.
Refund(t, payments) ==
    LET refunds == local[t].refunds \cup ({t} \X payments)
        all     == local[t].payments \subseteq {r[2] : r \in refunds}
    IN  /\ local[t].status = "paid"
        /\ payments # {}
        /\ payments \subseteq local[t].payments \ {r[2] : r \in local[t].refunds}
        /\ Saved(t, [local[t] EXCEPT !.refunds = refunds,
                                     !.status = IF all THEN "refunded" ELSE "paid"])
        /\ UNCHANGED taken

\* Mutant: a tab taken over is forgotten although it was not sent.
PruneTakenOver(t) ==
    /\ away[t] \/ (sync[t] = "synced" /\ local[t].status # "open")
    /\ local' = [local EXCEPT ![t] = NoCopy]
    /\ sync' = [sync EXCEPT ![t] = "none"]
    /\ away' = [away EXCEPT ![t] = FALSE]
    /\ UNCHANGED <<job, claimed, asked, wire, region, history>>

\* pruneSettledOrders: a finished sale, or a tab taken over, is forgotten two
\* weeks after it was sent.
Prune(t) ==
    /\ sync[t] = "synced"
    /\ local[t].status # "open" \/ away[t]
    /\ local' = [local EXCEPT ![t] = NoCopy]
    /\ sync' = [sync EXCEPT ![t] = "none"]
    /\ away' = [away EXCEPT ![t] = FALSE]
    /\ UNCHANGED <<job, claimed, asked, wire, region, history>>

-----------------------------------------------------------------------------
\* The outbox of a till

\* claimNext: a row still syncing with no upload running was left by a page
\* that died and is taken again.
ClaimNext(t) ==
    /\ job[t] = Idle
    /\ sync[t] \in {"pending", "syncing"}
    /\ Cardinality(wire) < MaxWire
    /\ sync' = [sync EXCEPT ![t] = "syncing"]
    /\ job' = [job EXCEPT ![t] = [Idle EXCEPT !.state = "sent", !.copy = local[t]]]
    /\ wire' = wire \cup {[till |-> t, copy |-> local[t]]}
    /\ UNCHANGED <<local, away, claimed, asked, region, history>>

\* Mutant: the answer settles whatever the row holds by now.
SettleBlindly(t, state, gone) ==
    /\ sync' = [sync EXCEPT ![t] = state]
    /\ away' = [away EXCEPT ![t] = @ \/ gone]

\* settle: only the revision that was sent.
Settle(t, state, gone) ==
    IF local[t].rev = job[t].copy.rev
      THEN /\ sync' = [sync EXCEPT ![t] = state]
           /\ away' = [away EXCEPT ![t] = @ \/ gone]
      ELSE UNCHANGED <<sync, away>>

\* flushOutbox with an answer in hand.  A held upload is safe on the server; a
\* tab that moved stops being one here.
TakeAnswer(t) ==
    /\ job[t].state = "answered"
    /\ Settle(t, IF job[t].result = "retry" THEN "pending" ELSE "synced",
              job[t].result = "moved" /\ job[t].copy.status = "open")
    /\ job' = [job EXCEPT ![t] = Idle]
    /\ UNCHANGED <<local, claimed, asked, wire, region, history>>

\* The request timed out or failed on its way there or back.
GiveUp(t) ==
    /\ job[t].state \in {"sent", "answered"}
    /\ Settle(t, "pending", FALSE)
    /\ job' = [job EXCEPT ![t] = Idle]
    /\ UNCHANGED <<local, claimed, asked, wire, region, history>>

\* The page is closed or reloaded: the row stays as it is.
Reload(t) ==
    /\ job[t] # Idle
    /\ job' = [job EXCEPT ![t] = Idle]
    /\ claimed' = [claimed EXCEPT ![t] = NoCopy]
    /\ asked' = asked \ {t}
    /\ UNCHANGED <<local, sync, away, wire, region, history>>

-----------------------------------------------------------------------------
\* The server

\* An older revision, or the stored one again, changes nothing.
AlreadyHas(copy) == server.rev > copy.rev \/ server = copy

\* What upsertPosOrder asks of a newer revision: recorded money and removed
\* items stay, a bill that took a payment keeps its lines, a closed sale only
\* gains refunds on the same bill and a cancelled tab nothing.
Continues(copy) ==
    /\ server.rev < copy.rev
    /\ server.payments \subseteq copy.payments
    /\ server.refunds \subseteq copy.refunds
    /\ server.voids \subseteq copy.voids
    /\ server.status # "void"
    /\ server.payments # {} \/ server.status # "open" => copy.lines = server.lines
    /\ server.status \in {"paid", "refunded"} =>
         /\ copy.status \in {"paid", "refunded"}
         /\ copy.payments = server.payments /\ copy.voids = server.voids

\* A tab another till took over from this one.
MovedFrom(t) == \E u \in Tills : <<t, u>> \in moved

Belongs(u) == owner \in {NoTill, u.till}

\* Mutant: what comes last from the tab's own till is stored.
StoredAsItComes(u) == Belongs(u) /\ Balances(u.copy)

\* What the server makes of an upload it can read: stored, a repeat, or neither.
Stored(u) == Belongs(u) /\ Balances(u.copy) /\ (server = NoCopy \/ Continues(u.copy))
Repeats(u) == Belongs(u) /\ Balances(u.copy) /\ AlreadyHas(u.copy)

\* POST /orders, upsertPosOrder
Accept(u) ==
    /\ Stored(u) \/ Repeats(u)
    /\ IF Stored(u) THEN server' = u.copy /\ owner' = u.till
                    ELSE UNCHANGED <<server, owner>>
    /\ UNCHANGED held

\* holdUpload: what the server cannot apply is kept for a person.
Hold(u) ==
    /\ ~Stored(u) /\ ~Repeats(u)
    /\ held' = held \cup {u}
    /\ UNCHANGED <<server, owner>>

\* The till has as many uploads waiting as it may: it is told to try later.
\* How many of those held were settled by now is left open.
Postpone(u) ==
    /\ ~Stored(u) /\ ~Repeats(u)
    /\ u \notin held /\ Cardinality({h \in held : h.till = u.till}) >= MaxHeld
    /\ UNCHANGED <<server, owner, held>>

\* The answer reaches the till if it still waits for it.
Answered(u, result) ==
    /\ u \in wire
    /\ wire' = wire \ {u}
    /\ job' = [job EXCEPT ![u.till] =
                 IF @.state = "sent" /\ @.copy = u.copy
                   THEN [@ EXCEPT !.state = "answered", !.result = result] ELSE @]
    /\ UNCHANGED <<local, sync, away, claimed, asked, moved, history>>

Receive(u) ==
    \/ Accept(u) /\ Answered(u, "ok")
    \/ Hold(u) /\ Answered(u, IF ~Belongs(u) /\ MovedFrom(u.till) /\ Balances(u.copy)
                                  THEN "moved" ELSE "held")
    \/ Postpone(u) /\ Answered(u, "retry")

\* The network drops a request.
LoseRequest(u) ==
    /\ u \in wire
    /\ wire' = wire \ {u}
    /\ UNCHANGED <<tillVars, region, history>>

-----------------------------------------------------------------------------
\* A tab moves

\* claimTab, from the list of other tills' open tabs.  A claim that names an
\* older revision is refused.
ClaimTab(t) ==
    /\ server.status = "open" /\ owner # t
    /\ claimed[t] = NoCopy /\ Cardinality(moved) < MaxMoves
    /\ owner' = t
    /\ moved' = moved \cup {<<owner, t>>}
    /\ claimed' = [claimed EXCEPT ![t] = server]
    /\ asked' = asked \ {t}
    /\ regained' = IF MovedFrom(t) THEN regained \cup {t} ELSE regained
    /\ UNCHANGED <<local, sync, away, job, wire, server, held, taken>>

\* claimTab once more, by the till that was left without an answer: the tab is
\* its own by now, and it is given the row whatever became of it.
ClaimAgain(t) ==
    /\ t \in asked /\ owner = t
    /\ claimed[t] = NoCopy
    /\ claimed' = [claimed EXCEPT ![t] = server]
    /\ asked' = asked \ {t}
    /\ UNCHANGED <<local, sync, away, job, wire, region, history>>

\* What adoptTab makes of the server's row: an open tab with no refunds.
Adopted(tab) == [tab EXCEPT !.status = "open", !.refunds = {}]

\* adoptTab: the server's copy, unless the till's own is newer or is one it has
\* still to send.
AdoptTab(t) ==
    LET tab    == claimed[t]
        unsent == sync[t] # "synced" /\ local[t].rev >= tab.rev
        keep   == local[t] # NoCopy /\ (local[t].rev > tab.rev \/ unsent)
    IN  /\ tab # NoCopy
        /\ claimed' = [claimed EXCEPT ![t] = NoCopy]
        /\ away' = [away EXCEPT ![t] = FALSE]
        /\ IF keep THEN UNCHANGED <<local, sync>>
           ELSE /\ local' = [local EXCEPT ![t] = Adopted(tab)]
                /\ sync' = [sync EXCEPT ![t] = "synced"]
        /\ UNCHANGED <<job, asked, wire, region, history>>

\* The answer to a claim does not arrive, or cannot be saved: the list stays on
\* the screen.
LoseClaim(t) ==
    /\ claimed[t] # NoCopy
    /\ claimed' = [claimed EXCEPT ![t] = NoCopy]
    /\ asked' = asked \cup {t}
    /\ UNCHANGED <<local, sync, away, job, wire, region, history>>

\* verifyPairing: the till is told of every move away from it in the last week.
CheckIn(t) ==
    /\ MovedFrom(t)
    /\ local[t].status = "open" /\ ~away[t]
    /\ away' = [away EXCEPT ![t] = TRUE]
    /\ UNCHANGED <<local, sync, job, claimed, asked, wire, region, history>>

-----------------------------------------------------------------------------
\* Specification

Work(t) ==
    \/ \E lines \in SUBSET Lines : UpdateTab(t, lines)
    \/ \E lines \in SUBSET Lines, payments \in SUBSET Payments : CreateOrder(t, lines, payments)
    \/ \E lines \in Free : CreateFree(t, lines)
    \/ \E p \in Payments : AddPayment(t, p)
    \/ CloseFree(t) \/ Void(t) \/ Prune(t)
    \/ \E payments \in SUBSET Payments : Refund(t, payments)

Outbox(t) == ClaimNext(t) \/ TakeAnswer(t) \/ GiveUp(t) \/ Reload(t)

Move(t) == ClaimTab(t) \/ ClaimAgain(t) \/ AdoptTab(t) \/ LoseClaim(t) \/ CheckIn(t)

Network == \E u \in wire : Receive(u) \/ LoseRequest(u)

PosNext == (\E t \in Tills : Work(t) \/ Outbox(t) \/ Move(t)) \/ Network

PosSpec == PosInit /\ [][PosNext]_vars

-----------------------------------------------------------------------------
\* Properties

\* Where payments are: on the recorded sale, on uploads held for a person, on
\* the copies of the tills.
OnTills == UNION {local[t].payments : t \in Tills}
ForReview == UNION {u.copy.payments : u \in held}

\* No payment a guest made is ever nowhere, through lost and late requests,
\* reloads, edits during an upload, tabs that move from till to till while their
\* old tills sell on, and the clearing of old sales, unless its till took the tab
\* back after another one had it: see AdoptKeepsUnsent.
PaymentsAreKept ==
    \A t \in Tills, p \in Payments : <<t, p>> \in taken =>
      t \in regained \/ p \in server.payments \cup ForReview \cup local[t].payments

\* A copy a till counts as delivered is the server's own, or one the server
\* grew from, or held for a person: pruning it or replacing it loses nothing.
\* Again a till that took the tab back is left out.
SyncedIsSafe ==
    \A t \in Tills \ regained : sync[t] = "synced" =>
      \/ [till |-> t, copy |-> local[t]] \in held
      \/ local[t] = server
      \/ local[t].rev < server.rev /\ local[t].payments \subseteq server.payments

\* The sale that the tills and the server make together, as one record.
Where(p) == IF p \in server.payments THEN "recorded"
            ELSE IF p \in ForReview THEN "held"
            ELSE IF p \in OnTills THEN "till"
            ELSE IF p \in Made THEN "lost" ELSE "nowhere"

Sale == IF server.status \in {"paid", "refunded"} THEN "closed" ELSE server.status

\* The payments of tills that took the tab back.
AtRisk == {x[2] : x \in {y \in taken : y[1] \in regained}}

Record == INSTANCE SaleRecord
            WITH Covering <- {S \in SUBSET Payments : Cardinality(S) >= Due},
                 where <- [p \in Payments |-> Where(p)], sale <- Sale,
                 bill <- server.lines, back <- {r[2] : r \in server.refunds},
                 exposed <- AtRisk

\* Whatever order the uploads of the tills arrive in, the sale goes forward as
\* one kept at a single place would (SaleRecord).
SaleGoesForward == Record!SaleSpec

\* The comment on adoptTab and its test: a change that was not sent yet, here a
\* payment the server does not know of, is never replaced by the server's copy.
AdoptKeepsUnsent ==
    [][\A t \in Tills :
         (AdoptTab(t) /\ sync[t] = "pending" /\ ~(local[t].payments \subseteq server.payments))
           => local'[t] = local[t]]_vars

=============================================================================
