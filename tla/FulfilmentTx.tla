----------------------------- MODULE FulfilmentTx -----------------------------
(***************************************************************************)
(* The handlers of Fulfilment that touch stock, taken apart.  Each request *)
(* has a database session of its own (core/database.py): READ COMMITTED,   *)
(* no row is read for update, autoflush is off, and objects expire at a    *)
(* commit.  So a handler works on rows it read earlier, writes the columns *)
(* whose values it changed, as absolute values, and what it wrote before   *)
(* one of its commits stays when a later step fails.                       *)
(*                                                                         *)
(* The steps of a stock handler are: load the rows, draw the next          *)
(* reference code, write and commit, and for those that commit twice, the  *)
(* second commit.  Writing and committing is one step: what is written but *)
(* not committed is seen by no one, and whoever wants to write the same    *)
(* row or the same code waits for the commit.  The other handlers commit   *)
(* once and are the actions of Fulfilment; that they, too, read before     *)
(* they write is left out.                                                 *)
(***************************************************************************)
EXTENDS Fulfilment

CONSTANTS
    Sessions,   \* the sessions that run stock handlers
    Crashes,    \* whether a handler may die between its steps
    Alone       \* whether other handlers wait while a stock handler runs

ASSUME SessionsAssumption == Crashes \in BOOLEAN /\ Alone \in BOOLEAN

VARIABLES
    sessions,   \* what each session has in memory
    cut         \* history: whether a handler died between its two commits

txvars == <<inventory, requests, returns, reservations, rfqs, orders, asns, transfers,
            adjusted, sessions, cut>>

NoRequest == [qty |-> 0, type |-> "none", ref |-> NoRef]
NoReturn  == [qty |-> 0, decision |-> "replenish", status |-> "pending", transfer |-> 0, rfq |-> 0]

\* No handler runs.  "op" is the handler: fulfilling a request from stock, by a split or
\* by an RFQ, resolving a return from stock or by an order, an inspection.  "id" is the
\* request, return or notice it is for, "held" the reservations a delivery found, "code"
\* the reference code drawn.
Free == [pc |-> "idle", op |-> "none", id |-> 0, accepted |-> 0, rejected |-> 0,
         stock |-> [onHand |-> 0, available |-> 0], request |-> NoRequest, ret |-> NoReturn,
         held |-> {}, code |-> 0]

TxInit == Init /\ sessions = [s \in Sessions |-> Free] /\ cut = FALSE

Becomes(s, session) ==
    /\ sessions' = [sessions EXCEPT ![s] = session]
    /\ UNCHANGED cut

-----------------------------------------------------------------------------
(* What a commit makes of a row in the database: the columns the handler      *)
(* changed get its values, the others keep what is there.                     *)
Written(loaded, new, current) ==
    [c \in DOMAIN loaded |-> IF new[c] = loaded[c] THEN current[c] ELSE new[c]]

WrittenRequest(loaded, new, current) ==
    [Written(loaded, new, current) EXCEPT !.ref = Written(loaded.ref, new.ref, current.ref)]

OwnerOf(session) ==
    CASE session.op \in {"stock", "split", "rfq"} -> RequestOwner(session.id)
      [] session.op \in {"replenish", "order"} -> ReturnOwner(session.id)
      [] session.op = "inspect" -> rfqs[orders[asns[session.id].po].rfq].owner

-----------------------------------------------------------------------------
(* Loading *)

LoadRequest(s, p, op) ==
    /\ sessions[s].pc = "idle"
    /\ MayFulfil(p)
    /\ op = "stock" => CanReserve(requests[p].qty)
    /\ Becomes(s, [Free EXCEPT !.pc = "loaded", !.op = op, !.id = p,
                               !.stock = inventory, !.request = requests[p]])
    /\ UNCHANGED vars

LoadReturn(s, r) ==
    /\ sessions[s].pc = "idle"
    /\ MayResolve(r)
    /\ returns[r].decision = "replenish"
    /\ Becomes(s, [Free EXCEPT !.pc = "loaded", !.id = r, !.stock = inventory, !.ret = returns[r],
                               !.op = IF CanReserve(returns[r].qty) THEN "replenish" ELSE "order"])
    /\ UNCHANGED vars

\* The receipt is written at once, and the notice of a receipt is unique: a second
\* inspection of a notice waits for the first.
NeverInspecting(a) == FALSE
Inspecting(a) ==
    \E s \in Sessions :
        sessions[s].op = "inspect" /\ sessions[s].id = a /\ sessions[s].pc \in {"loaded", "drawn"}

\* record_goods_receipt reads the order, the notice and its receipt one after the other: one
\* step here.
LoadNotice(s, a, accepted, rejected) ==
    /\ sessions[s].pc = "idle"
    /\ asns[a].receipt = NoReceipt
    /\ ~Inspecting(a)
    /\ Counted(a, accepted, rejected)
    /\ Becomes(s, [Free EXCEPT !.pc = "loaded", !.op = "inspect", !.id = a, !.stock = inventory,
                               !.accepted = accepted, !.rejected = rejected])
    /\ UNCHANGED vars

-----------------------------------------------------------------------------
(* Drawing the next code: one more than the largest present.  A delivery first *)
(* reads the reservation and whom it is for; an inspection that accepts        *)
(* nothing reads the stock only here.                                          *)

Table(op) == IF op \in {"split", "rfq", "order"} THEN Len(rfqs) ELSE Len(transfers)

NextCode(session) == [session EXCEPT !.pc = "drawn", !.code = Table(session.op) + 1]

FoundBy(session) ==
    LET owner == OwnerOf(session)
    IN  [session EXCEPT
            !.stock   = IF session.accepted = 0 THEN inventory ELSE @,
            !.held    = ReservationsOf(owner),
            !.request = IF owner.kind = "request" THEN requests[owner.id] ELSE @,
            !.ret     = IF owner.kind = "return" THEN returns[owner.id] ELSE @]

Delivers(session) == Completes(asns[session.id].po, session.accepted)

\* With units rejected, the vendor return written before locks the inventory row, and
\* the code is drawn in the same step as the rest is written.
DrawCode(s) ==
    LET me == sessions[s]
    IN  /\ me.pc = "loaded"
        /\ IF me.op = "inspect"
           THEN /\ Delivers(me)
                /\ me.rejected = 0
                /\ Becomes(s, NextCode(FoundBy(me)))
           ELSE Becomes(s, NextCode(me))
        /\ UNCHANGED vars

\* The code is unique, so of two sessions that drew the same one the later fails,
\* before its first commit.  So does a delivery that finds two reservations.
UniqueInMemory(session) == TRUE
Unique(session) == session.code > Table(session.op)
OneHeld(session) == \A g, h \in session.held : g = h

Abort(s) ==
    LET me == sessions[s]
    IN  /\ \/ me.pc = "drawn" /\ (~Unique(me) \/ ~OneHeld(me))
           \/ /\ me.pc = "loaded"
              /\ me.op = "inspect"
              /\ Delivers(me)
              /\ me.rejected > 0
              /\ ~OneHeld(FoundBy(me))
        /\ Becomes(s, Free)
        /\ UNCHANGED vars

-----------------------------------------------------------------------------
(* Fulfilling from stock: one commit *)

ShipFromStock(session) ==
    LET q == IF session.op = "stock" THEN session.request.qty ELSE session.ret.qty
    IN  /\ Len(transfers) < MaxTransfers
        /\ inventory' = Written(session.stock,
                                DecreaseOnHand(ReserveStock(session.stock, q), q), inventory)
        /\ transfers' = Append(transfers, NewTransfer(OwnerOf(session), q,
                IF session.op = "stock" THEN "Warehouse Stock" ELSE "Return Replenishment"))

\* dispatch_to_owner and fulfil_from_stock mark a request alike.
ShippedRequest(session, p) ==
    [requests EXCEPT ![p] = WrittenRequest(session.request,
        [session.request EXCEPT !.type = "stock", !.ref = TransferRef(session.code)], @)]

CommitStock(s) ==
    LET me == sessions[s]
    IN  /\ me.pc = "drawn"
        /\ me.op = "stock"
        /\ Unique(me)
        /\ ShipFromStock(me)
        /\ requests' = ShippedRequest(me, me.id)
        /\ Becomes(s, Free)
        /\ UNCHANGED <<returns, reservations, rfqs, orders, asns, adjusted>>

CommitReplenish(s) ==
    LET me == sessions[s]
    IN  /\ me.pc = "drawn"
        /\ me.op = "replenish"
        /\ Unique(me)
        /\ ShipFromStock(me)
        /\ returns' = [returns EXCEPT ![me.id] =
               Written(me.ret, Replenished([me.ret EXCEPT !.transfer = me.code]), @)]
        /\ Becomes(s, Free)
        /\ UNCHANGED <<requests, reservations, rfqs, orders, asns, adjusted>>

-----------------------------------------------------------------------------
(* Raising an RFQ: create_rfq commits, with the reservation if there is one,   *)
(* and the reference to the RFQ is committed after the vendors were notified   *)
(* and the audit entry written.                                                *)

\* The reservation made with the RFQ, if any.
Taken(session) ==
    LET free == session.stock.available
        q    == IF session.op = "order" THEN session.ret.qty ELSE session.request.qty
    IN  IF session.op = "split" \/ (session.op = "order" /\ free > 0)
        THEN {NewReservation(session.code, OwnerOf(session), free, q)}
        ELSE {}

WholeQuantity(session) ==
    IF session.op = "order" THEN session.ret.qty ELSE session.request.qty
Shortfall(session) ==
    CASE session.op = "rfq" -> session.request.qty
      [] session.op = "split" -> session.request.qty - session.stock.available
      [] session.op = "order" -> session.ret.qty - session.stock.available

CommitRfq(s) ==
    LET me == sessions[s]
    IN  /\ me.pc = "drawn"
        /\ me.op \in {"split", "rfq", "order"}
        /\ Unique(me)
        /\ Len(rfqs) < MaxRfqs
        /\ rfqs' = Append(rfqs, NewRfq(OwnerOf(me), Shortfall(me)))
        /\ reservations' = reservations \cup Taken(me)
        /\ inventory' = IF Taken(me) = {} THEN inventory
                        ELSE Written(me.stock, ReserveStock(me.stock, me.stock.available), inventory)
        /\ Becomes(s, [me EXCEPT !.pc = "marking"])
        /\ UNCHANGED <<requests, returns, orders, asns, transfers, adjusted>>

\* The request or return as the second commit leaves it: its columns expired with the
\* first, so all that are set are written.
MarkedSplits(session) ==
    IF session.op = "split" THEN MarkSplit(session.id, session.code) ELSE requests
MarkedRequests(session) ==
    CASE session.op = "split" -> MarkSplit(session.id, session.code)
      [] session.op = "rfq" -> [requests EXCEPT ![session.id].type = "rfq",
                                                ![session.id].ref = RfqRef(session.code)]
      [] OTHER -> requests
MarkedReturns(session) ==
    IF session.op = "order"
    THEN [returns EXCEPT ![session.id] = Replenished([@ EXCEPT !.rfq = session.code])]
    ELSE returns

MarkOwner(s) ==
    LET me == sessions[s]
    IN  /\ me.pc = "marking"
        /\ requests' = MarkedRequests(me)
        /\ returns' = MarkedReturns(me)
        /\ Becomes(s, Free)
        /\ UNCHANGED <<inventory, reservations, rfqs, orders, asns, transfers, adjusted>>

-----------------------------------------------------------------------------
(* Inspecting a notice *)

Inspected(session) ==
    asns' = [asns EXCEPT ![session.id].receipt = NewReceipt(session.accepted, session.rejected)]

CommitPart(s) ==
    LET me == sessions[s]
    IN  /\ me.pc = "loaded"
        /\ me.op = "inspect"
        /\ ~Delivers(me)
        /\ Inspected(me)
        /\ orders' = [orders EXCEPT ![asns[me.id].po].received = @ + me.accepted]
        /\ inventory' = Written(me.stock, IncreaseOnHand(me.stock, me.accepted), inventory)
        /\ Becomes(s, Free)
        /\ UNCHANGED <<requests, returns, reservations, rfqs, transfers, adjusted>>

\* Once the counts are in, goods go out: a row flushed in between (units were rejected)
\* is written twice, one that is back at its loaded value otherwise not at all.
DeliveredStock(session, q) ==
    LET arrived == IncreaseOnHand(session.stock, session.accepted)
        left    == DecreaseOnHand(arrived, q)
    IN  IF session.rejected > 0
        THEN Written(arrived, left, Written(session.stock, arrived, inventory))
        ELSE Written(session.stock, left, inventory)

CloseKeepingHeld(held, rfq) ==
    /\ UNCHANGED reservations
    /\ rfqs' = [rfqs EXCEPT ![rfq].status = "Closed"]
Close(held, rfq) ==
    /\ reservations' = reservations \ held
    /\ rfqs' = [rfqs EXCEPT ![rfq].status = "Closed"]

\* For a request, the audit entry commits before the reservation is deleted and the RFQ
\* closed; for a return all is one commit.
CommitDelivery(s) ==
    LET loaded == sessions[s]
        me     == IF loaded.rejected > 0 THEN NextCode(FoundBy(loaded)) ELSE loaded
        o      == asns[me.id].po
        total  == orders[o].received + me.accepted
        owner  == OwnerOf(me)
        ships(q, source) ==
            /\ inventory' = DeliveredStock(me, q)
            /\ transfers' = Append(transfers, NewTransfer(owner, q, source))
    IN  /\ loaded.op = "inspect"
        /\ loaded.pc = (IF loaded.rejected > 0 THEN "loaded" ELSE "drawn")
        /\ Delivers(loaded)
        /\ Unique(me)
        /\ OneHeld(me)
        /\ Len(transfers) < MaxTransfers
        /\ Inspected(me)
        /\ orders' = [orders EXCEPT ![o].received = total, ![o].status = "Delivered",
                                    ![o].dispatched = @ + 1]
        /\ \/ \E h \in me.held : ships(h.reserved + h.vendor, "Combined Stock + Vendor")
           \/ me.held = {} /\ ships(total, "Vendor Procurement")
        /\ IF owner.kind = "request"
           THEN /\ requests' = ShippedRequest(me, owner.id)
                /\ Becomes(s, [me EXCEPT !.pc = "closing"])
                /\ UNCHANGED <<returns, reservations, rfqs>>
           ELSE /\ returns' = [returns EXCEPT ![owner.id].transfer = me.code]
                /\ Close(me.held, orders[o].rfq)
                /\ Becomes(s, Free)
                /\ UNCHANGED requests
        /\ UNCHANGED adjusted

CloseRfq(s) ==
    LET me == sessions[s]
    IN  /\ me.pc = "closing"
        /\ Close(me.held, orders[asns[me.id].po].rfq)
        /\ Becomes(s, Free)
        /\ UNCHANGED <<inventory, requests, returns, orders, asns, transfers, adjusted>>

-----------------------------------------------------------------------------
\* The process dies or the connection is lost: what is not committed is gone.
Crash(s) ==
    /\ Crashes
    /\ sessions[s].pc # "idle"
    /\ sessions' = [sessions EXCEPT ![s] = Free]
    /\ cut' = (cut \/ sessions[s].pc \in {"marking", "closing"})
    /\ UNCHANGED vars

\* The handlers of Fulfilment with one commit that change no stock, and the manual
\* correction of stock.
OtherHandlers ==
    /\ Alone => \A s \in Sessions : sessions[s].pc = "idle"
    /\ \/ \E q \in Quantities : CreatePurchaseRequest(q)
       \/ \E t \in DOMAIN transfers, q \in Quantities, d \in {"replenish", "writeoff"} :
               RaiseIssue(t, q, d)
       \/ \E r \in DOMAIN returns : WriteOffReturn(r)
       \/ \E r \in DOMAIN rfqs : SubmitQuotation(r) \/ SelectVendor(r)
       \/ \E o \in DOMAIN orders : AcceptOrder(o) \/ RejectOrder(o)
       \/ \E o \in DOMAIN orders, n \in Shipments : CreateAsn(o, n)
       \/ \E a \in DOMAIN asns : SubmitAsn(a)
       \/ \E a \in DOMAIN asns, n \in Shipments : UpdateAsn(a, n) \/ ResubmitAfterRejection(a, n)
       \/ \E t \in DOMAIN transfers : DispatchTransferOrder(t)
       \/ \E t \in DOMAIN transfers, status \in Statuses : UpdateTransferStatus(t, status)
       \/ \E delta \in Adjustments : AdjustInventory(delta)
    /\ UNCHANGED <<sessions, cut>>

Load(s) ==
    \/ \E p \in DOMAIN requests, op \in {"stock", "split", "rfq"} : LoadRequest(s, p, op)
    \/ \E r \in DOMAIN returns : LoadReturn(s, r)
    \/ \E a \in DOMAIN asns, acc \in 0..MaxCount, rej \in 0..MaxCount : LoadNotice(s, a, acc, rej)

\* The steps of a handler that runs.
Proceed(s) ==
    \/ DrawCode(s) \/ Abort(s)
    \/ CommitStock(s) \/ CommitReplenish(s)
    \/ CommitRfq(s) \/ MarkOwner(s)
    \/ CommitPart(s) \/ CommitDelivery(s) \/ CloseRfq(s)

TxNext ==
    \/ OtherHandlers
    \/ \E s \in Sessions : Load(s) \/ Proceed(s) \/ Crash(s)

TxSpec == TxInit /\ [][TxNext]_txvars

\* A handler that started runs to its end: the server waits for it.
FairTxSpec == TxSpec /\ \A s \in Sessions : WF_txvars(Proceed(s))
-----------------------------------------------------------------------------
(* Properties, beside those of Fulfilment that survive                      *)

\* A delivery that is cut off only by its own second commit: what is held back for an
\* RFQ whose order is delivered is about to be released by the session that delivered.
ReleaseOwed ==
    \A h \in reservations, o \in DOMAIN orders :
        orders[o].rfq = h.id /\ orders[o].status = "Delivered" =>
            \E s \in Sessions : sessions[s].pc = "closing" /\ h \in sessions[s].held

\* A notice is inspected once although two sessions may find it without receipt: a
\* receipt is only ever removed, by a correction, and never replaced, and its units
\* are added to the order once.
InspectedOnce ==
    [][\A a \in DOMAIN asns :
           asns[a].receipt # NoReceipt /\ asns'[a].receipt # NoReceipt =>
               /\ asns'[a].receipt = asns[a].receipt
               /\ orders'[asns[a].po].received = orders[asns[a].po].received]_txvars

\* An RFQ raised for a request or a return is at last recorded there, if no handler dies:
\* its owner does not go on looking as if nothing was done for it.
RecordedAtLast ==
    \A r \in 1..MaxRfqs :
        LET Pending == /\ r \in DOMAIN rfqs
                       /\ IF rfqs[r].owner.kind = "request"
                          THEN requests[rfqs[r].owner.id].type = "none"
                          ELSE returns[rfqs[r].owner.id].status = "pending"
        IN  Pending ~> ~Pending

\* Run one after the other, the handlers taken apart do what those of Fulfilment do: the
\* steps up to the first commit nothing, the first commit all, the second nothing.  A
\* handler may die before its first commit; one that dies after it has done a part.
BetweenCommits(pc) == {s \in Sessions : sessions[s].pc = pc}
HalfDone(pc) == sessions[CHOOSE s \in BetweenCommits(pc) : TRUE]

RequestsDone ==
    IF BetweenCommits("marking") = {} THEN requests ELSE MarkedRequests(HalfDone("marking"))
ReturnsDone ==
    IF BetweenCommits("marking") = {} THEN returns ELSE MarkedReturns(HalfDone("marking"))
ReservationsDone ==
    IF BetweenCommits("closing") = {} THEN reservations
    ELSE reservations \ HalfDone("closing").held
RfqsDone ==
    IF BetweenCommits("closing") = {} THEN rfqs
    ELSE [rfqs EXCEPT ![orders[asns[HalfDone("closing").id].po].rfq].status = "Closed"]

Serial == INSTANCE Fulfilment WITH
    requests     <- RequestsDone,
    returns      <- ReturnsDone,
    reservations <- ReservationsDone,
    rfqs         <- RfqsDone

ImplementsFulfilment == Serial!Init /\ [][Serial!Next \/ cut']_Serial!vars
=============================================================================
