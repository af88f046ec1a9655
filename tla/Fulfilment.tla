------------------------------ MODULE Fulfilment ------------------------------
(***************************************************************************)
(* How one warehouse serves the purchase requests and the returns of its   *)
(* stores, for one SKU variant: from stock, through a request for          *)
(* quotation (RFQ), or from both.  It follows the warehouse and vendor     *)
(* services of the backend (app/services/warehouse, app/services/vendor).  *)
(* One action is one HTTP handler run alone; module FulfilmentTx splits    *)
(* handlers at their commits and interleaves them.                         *)
(*                                                                         *)
(* A table is a sequence of rows and the identity of a row its position.   *)
(* Only the reservation table loses rows, so it is a set of rows that      *)
(* carry their identity.  What a handler does with codes, names, prices,   *)
(* dates, notifications and audit entries is left out.                     *)
(***************************************************************************)
EXTENDS Ledgers, Sequences

CONSTANTS
    Opening,       \* units on hand, all available, after the corrections that stocked it
    Quantities,    \* the quantities a store requests or returns
    Shipments,     \* the quantities a vendor ships
    MaxCount,      \* the most units an inspection counts as accepted, or as rejected
    Discipline,    \* what the clients are assumed to do although no handler checks it
    Adjustments,   \* the manual corrections <<on_hand_delta, available_delta>>
    Statuses,      \* the statuses PATCH /transfer-orders/{id}/status is called with
    MaxAdjustments, MaxRequests, MaxReturns, MaxRfqs, MaxOrders, MaxTransfers,
    MaxItems       \* bounds on the number of rows, of corrections, and of the
                   \* receiving items of one transfer order

(* The disciplines a client may keep:                                       *)
(*   "count"    a vendor ships no more than is outstanding, changes nothing *)
(*              once inspected, and an inspection counts what was shipped;  *)
(*   "select"   a vendor is selected for an RFQ only while every earlier    *)
(*              order for it was rejected;                                  *)
(*   "fulfil"   a purchase request is fulfilled once;                       *)
(*   "resolve"  a return is resolved once;                                  *)
(*   "advance"  a transfer order is dispatched once, while pending, and its *)
(*              status only moves forward.                                  *)
Disciplines == {"count", "select", "fulfil", "resolve", "advance"}

TransferStatuses == {"Pending", "Dispatched", "Delivered", "Completed"}
TransferRank == [Pending |-> 0, Dispatched |-> 1, Delivered |-> 2, Completed |-> 3]

ASSUME FulfilmentAssumption ==
    /\ Opening \in Nat
    /\ Quantities \subseteq Nat \ {0}
    /\ Shipments \subseteq Nat
    /\ MaxCount \in Nat
    /\ Discipline \subseteq Disciplines
    /\ Adjustments \subseteq Int \X Int
    /\ Statuses \subseteq TransferStatuses
    /\ {MaxAdjustments, MaxRequests, MaxReturns, MaxRfqs, MaxOrders, MaxTransfers,
        MaxItems} \subseteq Nat

VARIABLES
    inventory,     \* the inventory row of the warehouse and the variant
    requests,      \* purchase_requests
    returns,       \* store_returns
    reservations,  \* inventory_reservations
    rfqs,          \* rfqs, with whether any quotation came in
    orders,        \* purchase_orders
    asns,          \* asns, each with its goods receipt
    transfers,     \* transfer_orders
    adjusted       \* history: the sum and the number of manual corrections

vars == <<inventory, requests, returns, reservations, rfqs, orders, asns, transfers, adjusted>>

-----------------------------------------------------------------------------
(* Rows *)

RequestOwner(p) == [kind |-> "request", id |-> p]
ReturnOwner(r)  == [kind |-> "return", id |-> r]
Owner == [kind : {"request", "return"}, id : Nat]

\* purchase_requests.fulfilment_ref_type and fulfilment_ref_id, which no
\* foreign key ties to the row they name.
NoRef          == [kind |-> "none", id |-> 0]
TransferRef(t) == [kind |-> "transfer_order", id |-> t]
RfqRef(r)      == [kind |-> "rfq", id |-> r]
Ref == [kind : {"none", "transfer_order", "rfq"}, id : Nat]

Inventory == [onHand : Int, available : Int]

Request == [qty : Quantities, type : {"none", "stock", "rfq", "split"}, ref : Ref]

Return == [qty      : Quantities,
           decision : {"replenish", "writeoff"},
           status   : {"pending", "replenished", "dispatched", "writtenoff"},
           transfer : Nat,     \* resolution_transfer_order_id, 0 when null
           rfq      : Nat]     \* resolution_rfq_id, 0 when null

Reservation == [id : Nat, owner : Owner, reserved : Int, total : Int, vendor : Int]

\* "Responded" stands for Partially Responded and Ready for Comparison, which
\* module Sourcing tells apart.
Rfq == [owner : Owner, qty : Int, quoted : BOOLEAN,
        status : {"Sent", "Responded", "Purchase Order Generated", "Closed"}]

OrderStatuses == {"Pending Acceptance", "Accepted", "In Production", "Ready to Ship",
                  "Delivered", "Rejected"}

\* dispatched is history: how often goods left for the owner on delivery.
Order == [rfq : Nat, qty : Int, received : Nat, status : OrderStatuses, dispatched : Nat]

NoReceipt == [status |-> "none", accepted |-> 0, rejected |-> 0]
GoodsReceipt == [status   : {"none", "accepted", "partial", "rejected"},
                 accepted : Nat,
                 rejected : Nat]

Asn == [po : Nat, shipped : Nat, submitted : BOOLEAN, receipt : GoodsReceipt]

Transfer == [owner  : Owner,
             qty    : Int,
             source : {"Warehouse Stock", "Vendor Procurement", "Return Replenishment",
                       "Combined Stock + Vendor"},
             status : TransferStatuses,
             items  : Nat]       \* how many receiving items the store has for it

-----------------------------------------------------------------------------
(* InventoryService: what each call does to the inventory row *)

CanReserveWithoutCheck(q) == TRUE
CanReserve(q) == inventory.available >= q

ReserveStock(inv, q) == [inv EXCEPT !.available = @ - q]

IncreaseBoth(inv, q) == [inv EXCEPT !.onHand = @ + q, !.available = @ + q]
IncreaseOnHand(inv, q) == [inv EXCEPT !.onHand = @ + q]

KeepOnHand(inv, q) == inv
DecreaseOnHand(inv, q) == [inv EXCEPT !.onHand = @ - q]

(* Rows the services create *)

NewTransfer(owner, q, source) ==
    [owner |-> owner, qty |-> q, source |-> source, status |-> "Pending",
     items |-> 0]

NewRfq(owner, q) == [owner |-> owner, qty |-> q, quoted |-> FALSE, status |-> "Sent"]

\* A reservation is created in the handler that creates the RFQ for the
\* shortfall, so the identity of the RFQ serves as its own.
NewReservation(rfq, owner, free, total) ==
    [id |-> rfq, owner |-> owner, reserved |-> free, total |-> total, vendor |-> total - free]

InspectionStatus(accepted, rejected) ==
    IF accepted = 0 /\ rejected > 0 THEN "rejected"
    ELSE IF rejected > 0 THEN "partial" ELSE "accepted"

NewReceipt(accepted, rejected) ==
    [status   |-> InspectionStatus(accepted, rejected),
     accepted |-> accepted,
     rejected |-> rejected]

-----------------------------------------------------------------------------
Init ==
    /\ inventory = [onHand |-> Opening, available |-> Opening]
    /\ requests = << >>
    /\ returns = << >>
    /\ reservations = {}
    /\ rfqs = << >>
    /\ orders = << >>
    /\ asns = << >>
    /\ transfers = << >>
    /\ adjusted = [onHand |-> 0, available |-> 0, count |-> 0]

-----------------------------------------------------------------------------
(* Purchase requests *)

CreatePurchaseRequest(q) ==
    /\ Len(requests) < MaxRequests
    /\ requests' = Append(requests, [qty |-> q, type |-> "none", ref |-> NoRef])
    /\ UNCHANGED <<inventory, returns, reservations, rfqs, orders, asns, transfers, adjusted>>

\* The handlers check no status of the request: fulfilling it once is left to the
\* caller.
MayFulfil(p) == "fulfil" \in Discipline => requests[p].type = "none"

FulfilFromStock(p) ==
    LET q == requests[p].qty
    IN  /\ MayFulfil(p)
        /\ Len(transfers) < MaxTransfers
        /\ CanReserve(q)
        /\ inventory' = DecreaseOnHand(ReserveStock(inventory, q), q)
        /\ transfers' = Append(transfers, NewTransfer(RequestOwner(p), q, "Warehouse Stock"))
        /\ requests' = [requests EXCEPT ![p].type = "stock",
                                        ![p].ref = TransferRef(Len(transfers) + 1)]
        /\ UNCHANGED <<returns, reservations, rfqs, orders, asns, adjusted>>

MarkRef(p, rfq) == [requests EXCEPT ![p].ref = RfqRef(rfq)]
MarkSplit(p, rfq) == [requests EXCEPT ![p].type = "split", ![p].ref = RfqRef(rfq)]

SplitFulfil(p) ==
    LET free == inventory.available
        q    == requests[p].qty
        rfq  == Len(rfqs) + 1
    IN  /\ MayFulfil(p)
        /\ Len(rfqs) < MaxRfqs
        /\ inventory' = ReserveStock(inventory, free)
        /\ reservations' = reservations \cup {NewReservation(rfq, RequestOwner(p), free, q)}
        /\ rfqs' = Append(rfqs, NewRfq(RequestOwner(p), q - free))
        /\ requests' = MarkSplit(p, rfq)
        /\ UNCHANGED <<returns, orders, asns, transfers, adjusted>>

RaiseRfq(p) ==
    /\ MayFulfil(p)
    /\ Len(rfqs) < MaxRfqs
    /\ rfqs' = Append(rfqs, NewRfq(RequestOwner(p), requests[p].qty))
    /\ requests' = [requests EXCEPT ![p].type = "rfq", ![p].ref = RfqRef(Len(rfqs) + 1)]
    /\ UNCHANGED <<inventory, returns, reservations, orders, asns, transfers, adjusted>>

-----------------------------------------------------------------------------
(* Store returns: a store raises one for an item it received, and the       *)
(* warehouse resolves it, however often it likes.                           *)

RaiseIssue(t, q, decision) ==
    /\ Len(returns) < MaxReturns
    /\ transfers[t].items > 0
    /\ transfers' = [transfers EXCEPT ![t].status = "Delivered"]
    /\ returns' = Append(returns, [qty |-> q, decision |-> decision, status |-> "pending",
                                   transfer |-> 0, rfq |-> 0])
    /\ UNCHANGED <<inventory, requests, reservations, rfqs, orders, asns, adjusted>>

Replenished(ret) == [ret EXCEPT !.status = "replenished"]

MayResolve(r) == "resolve" \in Discipline => returns[r].status = "pending"

WriteOffReturn(r) ==
    /\ MayResolve(r)
    /\ returns[r].decision = "writeoff"
    /\ returns' = [returns EXCEPT ![r].status = "writtenoff"]
    /\ UNCHANGED <<inventory, requests, reservations, rfqs, orders, asns, transfers, adjusted>>

ReplenishFromStock(r) ==
    LET q == returns[r].qty
    IN  /\ MayResolve(r)
        /\ returns[r].decision = "replenish"
        /\ Len(transfers) < MaxTransfers
        /\ CanReserve(q)
        /\ inventory' = DecreaseOnHand(ReserveStock(inventory, q), q)
        /\ transfers' = Append(transfers, NewTransfer(ReturnOwner(r), q, "Return Replenishment"))
        /\ returns' = [returns EXCEPT ![r] = Replenished([@ EXCEPT !.transfer = Len(transfers) + 1])]
        /\ UNCHANGED <<requests, reservations, rfqs, orders, asns, adjusted>>

\* Short of stock: what is free is reserved and an RFQ raised for the rest.  Some
\* vendor is assumed eligible; without one the handler changes nothing.
ReplenishByRfq(r) ==
    LET free == inventory.available
        q    == returns[r].qty
        rfq  == Len(rfqs) + 1
    IN  /\ MayResolve(r)
        /\ returns[r].decision = "replenish"
        /\ Len(rfqs) < MaxRfqs
        /\ free < q
        /\ IF free > 0
           THEN /\ inventory' = ReserveStock(inventory, free)
                /\ reservations' = reservations \cup {NewReservation(rfq, ReturnOwner(r), free, q)}
           ELSE UNCHANGED <<inventory, reservations>>
        /\ rfqs' = Append(rfqs, NewRfq(ReturnOwner(r), q - free))
        /\ returns' = [returns EXCEPT ![r] = Replenished([@ EXCEPT !.rfq = rfq])]
        /\ UNCHANGED <<requests, orders, asns, transfers, adjusted>>

ResolveReturn(r) == WriteOffReturn(r) \/ ReplenishFromStock(r) \/ ReplenishByRfq(r)

-----------------------------------------------------------------------------
(* Procurement, as far as fulfilment depends on it *)

SubmitQuotation(r) ==
    /\ rfqs' = [rfqs EXCEPT ![r].quoted = TRUE, ![r].status = "Responded"]
    /\ UNCHANGED <<inventory, requests, returns, reservations, orders, asns, transfers, adjusted>>

MaySelect(r) == "select" \in Discipline =>
    \A o \in DOMAIN orders : orders[o].rfq = r => orders[o].status = "Rejected"

SelectVendor(r) ==
    /\ MaySelect(r)
    /\ rfqs[r].quoted
    /\ Len(orders) < MaxOrders
    /\ orders' = Append(orders, [rfq |-> r, qty |-> rfqs[r].qty, received |-> 0,
                                 status |-> "Pending Acceptance", dispatched |-> 0])
    /\ rfqs' = [rfqs EXCEPT ![r].status = "Purchase Order Generated"]
    /\ UNCHANGED <<inventory, requests, returns, reservations, asns, transfers, adjusted>>

AcceptOrder(o) ==
    /\ orders[o].status = "Pending Acceptance"
    /\ orders' = [orders EXCEPT ![o].status = "Accepted"]
    /\ UNCHANGED <<inventory, requests, returns, reservations, rfqs, asns, transfers, adjusted>>

RejectOrder(o) ==
    /\ orders[o].status = "Pending Acceptance"
    /\ orders' = [orders EXCEPT ![o].status = "Rejected"]
    /\ UNCHANGED <<inventory, requests, returns, reservations, rfqs, asns, transfers, adjusted>>

-----------------------------------------------------------------------------
(* Shipment notices and their inspection *)

Shippable == {"Accepted", "In Production", "Ready to Ship"}

\* What a vendor may ship against order o; the handlers check nothing.
Outstanding(o, n) == "count" \in Discipline => n <= orders[o].qty - orders[o].received

CanCreateAsn(o) ==
    /\ orders[o].status \in Shippable
    /\ \A a \in DOMAIN asns : asns[a].po # o

CreateAsn(o, n) ==
    /\ CanCreateAsn(o)
    /\ Outstanding(o, n)
    /\ asns' = Append(asns, [po |-> o, shipped |-> n, submitted |-> FALSE, receipt |-> NoReceipt])
    /\ orders' = [orders EXCEPT ![o].status = "Ready to Ship"]
    /\ UNCHANGED <<inventory, requests, returns, reservations, rfqs, transfers, adjusted>>

SubmitAsn(a) ==
    /\ asns' = [asns EXCEPT ![a].submitted = TRUE]
    /\ UNCHANGED <<inventory, requests, returns, reservations, rfqs, orders, transfers, adjusted>>

\* PUT /asn/{id} of the vendor portal's first interface looks at no status.
UpdateAsn(a, n) ==
    /\ "count" \in Discipline => asns[a].receipt = NoReceipt
    /\ Outstanding(asns[a].po, n)
    /\ asns' = [asns EXCEPT ![a].shipped = n]
    /\ UNCHANGED <<inventory, requests, returns, reservations, rfqs, orders, transfers, adjusted>>

CanResubmit(a) == asns[a].receipt.status \in {"partial", "rejected"}

\* The correction path: the same notice, its receipt deleted.
ResubmitAfterRejection(a, n) ==
    /\ CanResubmit(a)
    /\ Outstanding(asns[a].po, n)
    /\ asns' = [asns EXCEPT ![a].shipped = n, ![a].receipt = NoReceipt]
    /\ UNCHANGED <<inventory, requests, returns, reservations, rfqs, orders, transfers, adjusted>>

\* The counts an inspection of notice a may record.
Counted(a, accepted, rejected) == "count" \in Discipline => accepted + rejected = asns[a].shipped

ReservationsOfRequests(owner) ==
    {h \in reservations : h.owner = owner /\ owner.kind = "request"}
ReservationsOf(owner) == {h \in reservations : h.owner = owner}

\* Accepting so many units more makes the order complete.
Completes(o, accepted) == orders[o].received + accepted >= orders[o].qty

\* dispatch_to_owner: the transfer order, and the mark on whoever it is for.
DispatchBeforeFlush(owner, q, source) ==
    /\ transfers' = Append(transfers, NewTransfer(owner, q, source))
    /\ IF owner.kind = "request"
       THEN /\ requests' = [requests EXCEPT ![owner.id].type = "stock",
                                            ![owner.id].ref = TransferRef(Len(transfers))]
            /\ UNCHANGED returns
       ELSE /\ returns' = [returns EXCEPT ![owner.id].transfer = Len(transfers)]
            /\ UNCHANGED requests
DispatchToOwner(owner, q, source) ==
    /\ transfers' = Append(transfers, NewTransfer(owner, q, source))
    /\ IF owner.kind = "request"
       THEN /\ requests' = [requests EXCEPT ![owner.id].type = "stock",
                                            ![owner.id].ref = TransferRef(Len(transfers) + 1)]
            /\ UNCHANGED returns
       ELSE /\ returns' = [returns EXCEPT ![owner.id].transfer = Len(transfers) + 1]
            /\ UNCHANGED requests

\* An inspection that leaves the order short of its quantity.
ReceivePart(a, accepted, rejected) ==
    LET o == asns[a].po
    IN  /\ asns[a].receipt = NoReceipt
        /\ ~Completes(o, accepted)
        /\ asns' = [asns EXCEPT ![a].receipt = NewReceipt(accepted, rejected)]
        /\ orders' = [orders EXCEPT ![o].received = @ + accepted]
        /\ inventory' = IncreaseOnHand(inventory, accepted)
        /\ UNCHANGED <<requests, returns, reservations, rfqs, transfers, adjusted>>

\* An inspection that completes the order, or finds it complete, sends the goods
\* on: with the reservation of the owner when there is one, alone when there is
\* none.  The lookup fails, and the handler with it, when there are two.
ReceiveAndDispatch(a, accepted, rejected) ==
    LET o     == asns[a].po
        total == orders[o].received + accepted
        rfq   == orders[o].rfq
        owner == rfqs[rfq].owner
        held  == ReservationsOf(owner)
        stock == IncreaseOnHand(inventory, accepted)
    IN  /\ asns[a].receipt = NoReceipt
        /\ Len(transfers) < MaxTransfers
        /\ Completes(o, accepted)
        /\ asns' = [asns EXCEPT ![a].receipt = NewReceipt(accepted, rejected)]
        /\ orders' = [orders EXCEPT ![o].received = total, ![o].status = "Delivered",
                                    ![o].dispatched = @ + 1]
        /\ \/ \E h \in held :
                /\ held = {h}
                /\ inventory' = DecreaseOnHand(stock, h.reserved + h.vendor)
                /\ DispatchToOwner(owner, h.reserved + h.vendor, "Combined Stock + Vendor")
                /\ reservations' = reservations \ {h}
           \/ /\ held = {}
              /\ inventory' = DecreaseOnHand(stock, total)
              /\ DispatchToOwner(owner, total, "Vendor Procurement")
              /\ UNCHANGED reservations
        /\ rfqs' = [rfqs EXCEPT ![rfq].status = "Closed"]
        /\ UNCHANGED adjusted

RecordGoodsReceipt(a, accepted, rejected) ==
    /\ Counted(a, accepted, rejected)
    /\ \/ ReceivePart(a, accepted, rejected)
       \/ ReceiveAndDispatch(a, accepted, rejected)

-----------------------------------------------------------------------------
(* Transfer orders and manual corrections *)

MayAdvance(t, status) ==
    "advance" \in Discipline => TransferRank[status] > TransferRank[transfers[t].status]

DispatchTransferOrder(t) ==
    LET owner == transfers[t].owner
    IN  /\ MayAdvance(t, "Dispatched")
        /\ transfers[t].items < MaxItems
        /\ transfers' = [transfers EXCEPT ![t].status = "Dispatched", ![t].items = @ + 1]
        /\ IF owner.kind = "return"
           THEN returns' = [returns EXCEPT ![owner.id].status = "dispatched"]
           ELSE UNCHANGED returns
        /\ UNCHANGED <<inventory, requests, reservations, rfqs, orders, asns, adjusted>>

UpdateTransferStatus(t, status) ==
    /\ MayAdvance(t, status)
    /\ transfers' = [transfers EXCEPT ![t].status = status]
    /\ UNCHANGED <<inventory, requests, returns, reservations, rfqs, orders, asns, adjusted>>

AdjustInventory(delta) ==
    /\ adjusted.count < MaxAdjustments
    /\ inventory' = [onHand |-> inventory.onHand + delta[1],
                     available |-> inventory.available + delta[2]]
    /\ adjusted' = [onHand |-> adjusted.onHand + delta[1],
                    available |-> adjusted.available + delta[2],
                    count |-> adjusted.count + 1]
    /\ UNCHANGED <<requests, returns, reservations, rfqs, orders, asns, transfers>>

-----------------------------------------------------------------------------
Next ==
    \/ \E q \in Quantities : CreatePurchaseRequest(q)
    \/ \E p \in DOMAIN requests : FulfilFromStock(p) \/ SplitFulfil(p) \/ RaiseRfq(p)
    \/ \E t \in DOMAIN transfers, q \in Quantities, d \in {"replenish", "writeoff"} :
            RaiseIssue(t, q, d)
    \/ \E r \in DOMAIN returns : ResolveReturn(r)
    \/ \E r \in DOMAIN rfqs : SubmitQuotation(r) \/ SelectVendor(r)
    \/ \E o \in DOMAIN orders : AcceptOrder(o) \/ RejectOrder(o)
    \/ \E o \in DOMAIN orders, n \in Shipments : CreateAsn(o, n)
    \/ \E a \in DOMAIN asns : SubmitAsn(a)
    \/ \E a \in DOMAIN asns, n \in Shipments : UpdateAsn(a, n) \/ ResubmitAfterRejection(a, n)
    \/ \E a \in DOMAIN asns, acc \in 0..MaxCount, rej \in 0..MaxCount :
            RecordGoodsReceipt(a, acc, rej)
    \/ \E t \in DOMAIN transfers : DispatchTransferOrder(t)
    \/ \E t \in DOMAIN transfers, s \in Statuses : UpdateTransferStatus(t, s)
    \/ \E delta \in Adjustments : AdjustInventory(delta)

Spec == Init /\ [][Next]_vars

-----------------------------------------------------------------------------
(* Properties that need no particular discipline                            *)

\* The tables hold rows of their columns' types.
TypeOK ==
    /\ inventory \in Inventory
    /\ requests \in Seq(Request)
    /\ returns \in Seq(Return)
    /\ reservations \subseteq Reservation
    /\ rfqs \in Seq(Rfq)
    /\ orders \in Seq(Order)
    /\ asns \in Seq(Asn)
    /\ transfers \in Seq(Transfer)
    /\ adjusted \in [onHand : Int, available : Int, count : Nat]

\* The stock checks of reserve_stock, split_fulfil and resolve_return never promise
\* a unit that is not free.  (Manual corrections are checked by nothing, so this
\* is stated for Adjustments = {}.)
AvailableNonNegative == inventory.available >= 0

\* What an owner, a purchase request or a return, asked for.
Wanted(owner) == IF owner.kind = "request" THEN requests[owner.id].qty ELSE returns[owner.id].qty

OwnerExists(owner) ==
    owner.id \in (IF owner.kind = "request" THEN DOMAIN requests ELSE DOMAIN returns)

\* A reservation and the RFQ raised with it add up to what their owner asked for,
\* whatever happened to the stock, the request or the RFQ since.
ReservationSound ==
    \A h \in reservations :
        /\ OwnerExists(h.owner)
        /\ h.id \in DOMAIN rfqs
        /\ rfqs[h.id].owner = h.owner
        /\ rfqs[h.id].qty = h.vendor
        /\ h.total = Wanted(h.owner)
        /\ h.reserved + h.vendor = h.total

\* Once an order for an RFQ is delivered, nothing stays held back for that RFQ,
\* although the delivery looks reservations up by owner and not by RFQ.
DeliveryReleasesStock ==
    \A h \in reservations, o \in DOMAIN orders :
        orders[o].rfq = h.id => orders[o].status # "Delivered"

\* fulfilment_ref_type and fulfilment_ref_id name a row that exists and that was
\* made for this very request.
RequestRefSound ==
    \A p \in DOMAIN requests :
        LET ref == requests[p].ref
        IN  /\ ref.kind = "none" => requests[p].type = "none"
            /\ ref.kind = "rfq" => /\ requests[p].type \in {"rfq", "split"}
                                   /\ ref.id \in DOMAIN rfqs
                                   /\ rfqs[ref.id].owner = RequestOwner(p)
            /\ ref.kind = "transfer_order" => /\ requests[p].type = "stock"
                                              /\ ref.id \in DOMAIN transfers
                                              /\ transfers[ref.id].owner = RequestOwner(p)

\* So do the two references of a return.
ReturnRefSound ==
    \A r \in DOMAIN returns :
        /\ returns[r].transfer # 0 => /\ returns[r].transfer \in DOMAIN transfers
                                      /\ transfers[returns[r].transfer].owner = ReturnOwner(r)
        /\ returns[r].rfq # 0 => /\ returns[r].rfq \in DOMAIN rfqs
                                 /\ rfqs[returns[r].rfq].owner = ReturnOwner(r)
        /\ returns[r].status = "pending" => returns[r].transfer = 0 /\ returns[r].rfq = 0

\* What a request or a return refers to was made for it, whichever of the handlers that
\* share those columns wrote last.
RefsSound == RequestRefSound /\ ReturnRefSound

\* An order has one shipment notice at most, and only once its vendor accepted it.
NoticeSound ==
    /\ \A a \in DOMAIN asns :
        /\ asns[a].po \in DOMAIN orders
        /\ orders[asns[a].po].status \in {"Ready to Ship", "Delivered"}
    /\ \A a, b \in DOMAIN asns : asns[a].po = asns[b].po => a = b

\* Units that inspections accepted, those of orders still short of their quantity, which
\* wait in the warehouse for the rest, those that left, and those that wait for an RFQ.
Received == Tally([o \in DOMAIN orders |-> orders[o].received])
Staged   == Tally([o \in DOMAIN orders |->
                      IF orders[o].status = "Delivered" THEN 0 ELSE orders[o].received])
Shipped  == Tally([t \in DOMAIN transfers |-> transfers[t].qty])
HeldBack == Tally([h \in reservations |-> h.reserved])

\* What is on hand is what there was, what inspections accepted and corrections
\* added, less what transfer orders took: no path counts a unit twice or loses one.
OnHandLedger == inventory.onHand = Opening + adjusted.onHand + Received - Shipped

-----------------------------------------------------------------------------
(* Properties that rest on a discipline of the clients                      *)

\* "count", "fulfil" and "resolve".  Each unit on hand is either free, or reserved, or
\* accepted for an order still short of its quantity.
StockConserved == inventory.onHand = inventory.available + HeldBack + Staged

\* "count", "select", "fulfil" and "resolve".  A request or a return is served by
\* one transfer order at most, for the whole quantity asked for, whichever of
\* the three ways it is served.
ServedOnce ==
    /\ \A t \in DOMAIN transfers :
        /\ OwnerExists(transfers[t].owner)
        /\ transfers[t].qty = Wanted(transfers[t].owner)
    /\ \A t, u \in DOMAIN transfers : transfers[t].owner = transfers[u].owner => t = u

\* The status the warehouse's screens derive for a request.
RequestStatusUntilDelivered(p) ==
    LET ref == requests[p].ref
    IN  CASE ref.kind = "none" -> "pending"
          [] ref.kind = "rfq" -> "forwarded"
          [] ref.kind = "transfer_order" ->
                IF transfers[ref.id].status = "Delivered" THEN "completed" ELSE "fulfilled"
RequestStatus(p) ==
    LET ref == requests[p].ref
    IN  CASE ref.kind = "none" -> "pending"
          [] ref.kind = "rfq" -> "forwarded"
          [] ref.kind = "transfer_order" ->
                IF transfers[ref.id].status \in {"Delivered", "Completed"}
                THEN "completed" ELSE "fulfilled"

RequestRank == [pending |-> 0, forwarded |-> 1, fulfilled |-> 2, completed |-> 3]

\* All disciplines.  The status of a request, derived from the rows of three tables,
\* never goes back.
StatusAdvances ==
    [][\A p \in DOMAIN requests :
           RequestRank[RequestStatus(p)] <= RequestRank[RequestStatus(p)']]_vars
=============================================================================
