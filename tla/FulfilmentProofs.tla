-------------------------- MODULE FulfilmentProofs --------------------------
(***************************************************************************)
(* Theorems about Fulfilment, and about what Screens shows of it, for      *)
(* every value of the constants.                                           *)
(***************************************************************************)
EXTENDS Screens, Tables

-----------------------------------------------------------------------------
(* Types *)

\* The values the handlers write have the types of their columns.
LEMMA ConstantTypes ==
    /\ Opening \in Nat
    /\ Quantities \subseteq Nat
    /\ Shipments \subseteq Nat
    /\ \A delta \in Adjustments : delta[1] \in Int /\ delta[2] \in Int
    /\ Statuses \subseteq TransferStatuses
<1>1. Quantities \subseteq Nat \ {0}
  BY FulfilmentAssumption
<1>2. Opening \in Nat /\ Shipments \subseteq Nat /\ Statuses \subseteq TransferStatuses
  BY FulfilmentAssumption
<1>3. Adjustments \subseteq Int \X Int
  BY FulfilmentAssumption
<1> QED BY <1>1, <1>2, <1>3

LEMMA OwnerTypes ==
    /\ \A i \in Nat : RequestOwner(i) \in Owner /\ ReturnOwner(i) \in Owner
    /\ \A i : RequestOwner(i).kind = "request" /\ RequestOwner(i).id = i
    /\ \A i : ReturnOwner(i).kind = "return" /\ ReturnOwner(i).id = i
    /\ \A owner \in Owner :
          /\ owner.kind \in {"request", "return"}
          /\ owner.id \in Nat
          /\ owner.kind = "request" => owner = RequestOwner(owner.id)
          /\ owner.kind = "return" => owner = ReturnOwner(owner.id)
<1>1. \A i \in Nat : RequestOwner(i) \in Owner /\ ReturnOwner(i) \in Owner
  BY DEF RequestOwner, ReturnOwner, Owner
<1>2. /\ \A i : RequestOwner(i).kind = "request" /\ RequestOwner(i).id = i
      /\ \A i : ReturnOwner(i).kind = "return" /\ ReturnOwner(i).id = i
  BY DEF RequestOwner, ReturnOwner
<1>3. ASSUME NEW owner \in Owner
      PROVE  /\ owner.kind \in {"request", "return"}
             /\ owner.id \in Nat
             /\ owner = [kind |-> owner.kind, id |-> owner.id]
  BY DEF Owner
<1>4. ASSUME NEW owner \in Owner
      PROVE  /\ owner.kind = "request" => owner = RequestOwner(owner.id)
             /\ owner.kind = "return" => owner = ReturnOwner(owner.id)
  BY <1>3 DEF RequestOwner, ReturnOwner
<1> QED BY <1>1, <1>2, <1>3, <1>4

LEMMA ReceiptTypes ==
    /\ NoReceipt \in GoodsReceipt
    /\ \A accepted, rejected \in Nat : NewReceipt(accepted, rejected) \in GoodsReceipt
BY DEF NewReceipt, InspectionStatus, NoReceipt, GoodsReceipt

LEMMA TransferTypes ==
    ASSUME NEW owner \in Owner, NEW q \in Int,
           NEW source \in {"Warehouse Stock", "Vendor Procurement", "Return Replenishment",
                           "Combined Stock + Vendor"}
    PROVE  /\ NewTransfer(owner, q, source) \in Transfer
           /\ NewTransfer(owner, q, source).owner = owner
           /\ NewTransfer(owner, q, source).qty = q
BY DEF NewTransfer, Transfer, TransferStatuses

LEMMA RfqTypes ==
    ASSUME NEW owner \in Owner, NEW q \in Int
    PROVE  /\ NewRfq(owner, q) \in Rfq
           /\ NewRfq(owner, q).owner = owner
           /\ NewRfq(owner, q).qty = q
BY DEF NewRfq, Rfq

LEMMA ReservationTypes ==
    ASSUME NEW i \in Nat, NEW owner \in Owner, NEW free \in Int, NEW total \in Int
    PROVE  NewReservation(i, owner, free, total) \in Reservation
BY DEF NewReservation, Reservation

LEMMA InventoryTypes ==
    ASSUME NEW inv \in Inventory, NEW q \in Int
    PROVE  /\ ReserveStock(inv, q) \in Inventory
           /\ ReserveStock(inv, q).available = inv.available - q
           /\ IncreaseOnHand(inv, q) \in Inventory
           /\ IncreaseOnHand(inv, q).available = inv.available
           /\ DecreaseOnHand(inv, q) \in Inventory
           /\ DecreaseOnHand(inv, q).available = inv.available
BY DEF ReserveStock, IncreaseOnHand, DecreaseOnHand, Inventory

\* The rows the handlers rewrite keep the types of their tables.
LEMMA RequestRow ==
    ASSUME TypeOK, NEW p \in DOMAIN requests
    PROVE  /\ p \in Nat
           /\ requests[p] \in Request
           /\ requests[p].qty \in Quantities
           /\ requests[p].qty \in Int
           /\ \A type \in {"none", "stock", "rfq", "split"}, ref \in Ref :
                LET row == [requests[p] EXCEPT !.type = type, !.ref = ref]
                IN  row \in Request /\ row.qty = requests[p].qty
<1>1. p \in Nat /\ requests[p] \in Request
  BY LenProperties, ElementOfSeq DEF TypeOK
<1>2. requests[p].qty \in Quantities
  BY <1>1 DEF Request
<1>3. requests[p].qty \in Int
  <2>1. requests[p].qty \in Nat
    BY <1>2, ConstantTypes, Zenon
  <2> QED BY <2>1
<1>4. \A type \in {"none", "stock", "rfq", "split"}, ref \in Ref :
        LET row == [requests[p] EXCEPT !.type = type, !.ref = ref]
        IN  row \in Request /\ row.qty = requests[p].qty
  BY <1>1 DEF Request
<1> QED BY <1>1, <1>2, <1>3, <1>4

LEMMA ReturnRow ==
    ASSUME TypeOK, NEW r \in DOMAIN returns
    PROVE  /\ r \in Nat
           /\ returns[r] \in Return
           /\ returns[r].qty \in Int
           /\ \A status \in {"writtenoff", "dispatched"} :
                LET row == [returns[r] EXCEPT !.status = status]
                IN  row \in Return /\ row.qty = returns[r].qty
           /\ \A t \in Nat :
                /\ LET row == [returns[r] EXCEPT !.transfer = t]
                   IN  row \in Return /\ row.qty = returns[r].qty
                /\ LET row == Replenished([returns[r] EXCEPT !.transfer = t])
                   IN  row \in Return /\ row.qty = returns[r].qty
                /\ LET row == Replenished([returns[r] EXCEPT !.rfq = t])
                   IN  row \in Return /\ row.qty = returns[r].qty
<1>1. r \in Nat /\ returns[r] \in Return
  BY LenProperties, ElementOfSeq DEF TypeOK
<1>2. returns[r].qty \in Quantities
  BY <1>1 DEF Return
<1>3. returns[r].qty \in Int
  <2>1. returns[r].qty \in Nat
    BY <1>2, ConstantTypes, Zenon
  <2> QED BY <2>1
<1>4. \A status \in {"writtenoff", "dispatched"} :
        LET row == [returns[r] EXCEPT !.status = status]
        IN  row \in Return /\ row.qty = returns[r].qty
  BY <1>1 DEF Return
<1>5. \A t \in Nat :
        LET row == [returns[r] EXCEPT !.transfer = t]
        IN  row \in Return /\ row.qty = returns[r].qty
  BY <1>1 DEF Return
<1>6. \A t \in Nat :
        LET row == Replenished([returns[r] EXCEPT !.transfer = t])
        IN  row \in Return /\ row.qty = returns[r].qty
  BY <1>1 DEF Return, Replenished
<1>7. \A t \in Nat :
        LET row == Replenished([returns[r] EXCEPT !.rfq = t])
        IN  row \in Return /\ row.qty = returns[r].qty
  BY <1>1 DEF Return, Replenished
<1> QED BY <1>1, <1>3, <1>4, <1>5, <1>6, <1>7

LEMMA RfqRow ==
    ASSUME TypeOK, NEW r \in DOMAIN rfqs
    PROVE  /\ r \in Nat
           /\ rfqs[r] \in Rfq
           /\ rfqs[r].owner \in Owner
           /\ rfqs[r].qty \in Int
           /\ \A quoted \in BOOLEAN,
                 status \in {"Sent", "Responded", "Purchase Order Generated", "Closed"} :
                LET row == [rfqs[r] EXCEPT !.quoted = quoted, !.status = status]
                IN  row \in Rfq /\ row.owner = rfqs[r].owner /\ row.qty = rfqs[r].qty
           /\ \A status \in {"Sent", "Responded", "Purchase Order Generated", "Closed"} :
                LET row == [rfqs[r] EXCEPT !.status = status]
                IN  row \in Rfq /\ row.owner = rfqs[r].owner /\ row.qty = rfqs[r].qty
<1>1. r \in Nat /\ rfqs[r] \in Rfq
  BY LenProperties, ElementOfSeq DEF TypeOK
<1> QED BY <1>1 DEF Rfq

LEMMA OrderRow ==
    ASSUME TypeOK, NEW o \in DOMAIN orders
    PROVE  /\ o \in Nat
           /\ orders[o] \in Order
           /\ orders[o].qty \in Int
           /\ orders[o].received \in Nat
           /\ \A status \in OrderStatuses :
                LET row == [orders[o] EXCEPT !.status = status]
                IN  row \in Order /\ row.rfq = orders[o].rfq /\ row.qty = orders[o].qty
           /\ \A n \in Nat :
                LET row == [orders[o] EXCEPT !.received = n]
                IN  row \in Order /\ row.rfq = orders[o].rfq /\ row.qty = orders[o].qty
           /\ \A n \in Nat :
                LET row == [orders[o] EXCEPT !.received = n, !.status = "Delivered",
                                             !.dispatched = @ + 1]
                IN  row \in Order /\ row.rfq = orders[o].rfq /\ row.qty = orders[o].qty
<1>1. o \in Nat /\ orders[o] \in Order
  BY LenProperties, ElementOfSeq DEF TypeOK
<1>2. orders[o].qty \in Int /\ orders[o].received \in Nat
  BY <1>1 DEF Order
<1>3. \A status \in OrderStatuses :
        LET row == [orders[o] EXCEPT !.status = status]
        IN  row \in Order /\ row.rfq = orders[o].rfq /\ row.qty = orders[o].qty
  BY <1>1 DEF Order
<1>4. \A n \in Nat :
        LET row == [orders[o] EXCEPT !.received = n]
        IN  row \in Order /\ row.rfq = orders[o].rfq /\ row.qty = orders[o].qty
  BY <1>1 DEF Order
<1>5. \A n, d \in Nat :
        LET row == [orders[o] EXCEPT !.received = n, !.status = "Delivered", !.dispatched = d]
        IN  row \in Order /\ row.rfq = orders[o].rfq /\ row.qty = orders[o].qty
  BY <1>1 DEF Order, OrderStatuses
<1>6. orders[o].dispatched + 1 \in Nat
  BY <1>1 DEF Order
<1> QED BY <1>1, <1>2, <1>3, <1>4, <1>5, <1>6

LEMMA AsnRow ==
    ASSUME TypeOK, NEW a \in DOMAIN asns
    PROVE  /\ a \in Nat
           /\ asns[a] \in Asn
           /\ LET row == [asns[a] EXCEPT !.submitted = TRUE]
              IN  row \in Asn /\ row.po = asns[a].po
           /\ \A n \in Nat :
                LET row == [asns[a] EXCEPT !.shipped = n]
                IN  row \in Asn /\ row.po = asns[a].po
           /\ \A n \in Nat :
                LET row == [asns[a] EXCEPT !.shipped = n, !.receipt = NoReceipt]
                IN  row \in Asn /\ row.po = asns[a].po
           /\ \A receipt \in GoodsReceipt :
                LET row == [asns[a] EXCEPT !.receipt = receipt]
                IN  row \in Asn /\ row.po = asns[a].po
<1>1. a \in Nat /\ asns[a] \in Asn
  BY LenProperties, ElementOfSeq DEF TypeOK
<1> QED BY <1>1, ReceiptTypes DEF Asn

LEMMA TransferRow ==
    ASSUME TypeOK, NEW t \in DOMAIN transfers
    PROVE  /\ t \in Nat
           /\ transfers[t] \in Transfer
           /\ transfers[t].owner \in Owner
           /\ \A status \in TransferStatuses :
                /\ LET row == [transfers[t] EXCEPT !.status = status]
                   IN  /\ row \in Transfer
                       /\ row.owner = transfers[t].owner
                       /\ row.qty = transfers[t].qty
                /\ LET row == [transfers[t] EXCEPT !.status = status, !.items = @ + 1]
                   IN  /\ row \in Transfer
                       /\ row.owner = transfers[t].owner
                       /\ row.qty = transfers[t].qty
<1>1. t \in Nat /\ transfers[t] \in Transfer
  BY LenProperties, ElementOfSeq DEF TypeOK
<1>2. transfers[t].owner \in Owner
  BY <1>1 DEF Transfer
<1>3. \A status \in TransferStatuses :
        LET row == [transfers[t] EXCEPT !.status = status]
        IN  /\ row \in Transfer
            /\ row.owner = transfers[t].owner
            /\ row.qty = transfers[t].qty
  BY <1>1 DEF Transfer
<1>4. \A status \in TransferStatuses, n \in Nat :
        LET row == [transfers[t] EXCEPT !.status = status, !.items = n]
        IN  /\ row \in Transfer
            /\ row.owner = transfers[t].owner
            /\ row.qty = transfers[t].qty
  BY <1>1 DEF Transfer
<1>5. transfers[t].items \in Nat
  BY <1>1 DEF Transfer
<1>6. transfers[t].items + 1 \in Nat
  BY <1>5
<1> QED BY <1>1, <1>2, <1>3, <1>4, <1>6

\* The next row of a table can be referred to.
LEMMA NextRows ==
    ASSUME TypeOK
    PROVE  /\ Len(transfers) + 1 \in Nat /\ TransferRef(Len(transfers) + 1) \in Ref
           /\ Len(rfqs) + 1 \in Nat /\ RfqRef(Len(rfqs) + 1) \in Ref
BY LenProperties DEF TypeOK, TransferRef, RfqRef, Ref

-----------------------------------------------------------------------------
(* What every step keeps *)

\* The foreign keys of the tables.
Linked ==
    /\ \A r \in DOMAIN rfqs : OwnerExists(rfqs[r].owner)
    /\ \A o \in DOMAIN orders : orders[o].rfq \in DOMAIN rfqs
    /\ \A a \in DOMAIN asns : asns[a].po \in DOMAIN orders
    /\ \A t \in DOMAIN transfers : OwnerExists(transfers[t].owner)

\* No step deletes a row of these tables, or changes whom and how much it is for.
KeptRequests ==
    \A p \in DOMAIN requests : p \in DOMAIN requests' /\ requests'[p].qty = requests[p].qty
KeptReturns ==
    \A r \in DOMAIN returns : r \in DOMAIN returns' /\ returns'[r].qty = returns[r].qty
KeptRfqs ==
    \A r \in DOMAIN rfqs : /\ r \in DOMAIN rfqs'
                           /\ rfqs'[r].owner = rfqs[r].owner
                           /\ rfqs'[r].qty = rfqs[r].qty
KeptOrders ==
    \A o \in DOMAIN orders : /\ o \in DOMAIN orders'
                             /\ orders'[o].rfq = orders[o].rfq
                             /\ orders'[o].qty = orders[o].qty
KeptAsns ==
    \A a \in DOMAIN asns : a \in DOMAIN asns' /\ asns'[a].po = asns[a].po
KeptTransfers ==
    \A t \in DOMAIN transfers : /\ t \in DOMAIN transfers'
                                /\ transfers'[t].owner = transfers[t].owner
                                /\ transfers'[t].qty = transfers[t].qty
Kept == /\ KeptRequests /\ KeptReturns /\ KeptRfqs
        /\ KeptOrders /\ KeptAsns /\ KeptTransfers

\* Handing goods to their owner adds one transfer order, for that owner, and notes
\* it in the row of the owner.
LEMMA DispatchEffect ==
    ASSUME TypeOK,
           NEW owner \in Owner, OwnerExists(owner), NEW q \in Int,
           NEW source \in {"Vendor Procurement", "Combined Stock + Vendor"},
           DispatchToOwner(owner, q, source)
    PROVE  /\ requests' \in Seq(Request)
           /\ returns' \in Seq(Return)
           /\ transfers' \in Seq(Transfer)
           /\ DOMAIN requests' = DOMAIN requests
           /\ DOMAIN returns' = DOMAIN returns
           /\ \A p \in DOMAIN requests :
                 requests'[p] = IF owner = RequestOwner(p)
                                THEN [requests[p] EXCEPT !.type = "stock",
                                                         !.ref = TransferRef(Len(transfers) + 1)]
                                ELSE requests[p]
           /\ \A r \in DOMAIN returns :
                 returns'[r] = IF owner = ReturnOwner(r)
                               THEN [returns[r] EXCEPT !.transfer = Len(transfers) + 1]
                               ELSE returns[r]
           /\ transfers' = Append(transfers, NewTransfer(owner, q, source))
<1>1. /\ transfers' \in Seq(Transfer)
      /\ transfers' = Append(transfers, NewTransfer(owner, q, source))
  BY TransferTypes, RowAdded DEF TypeOK, DispatchToOwner
<1>2. owner.kind \in {"request", "return"}
  BY OwnerTypes
<1>3. CASE owner.kind = "request"
  <2> DEFINE row == [requests[owner.id] EXCEPT !.type = "stock",
                                              !.ref = TransferRef(Len(transfers) + 1)]
  <2>1. owner.id \in DOMAIN requests
    BY <1>3 DEF OwnerExists
  <2>2. row \in Request
    BY <2>1, NextRows, RequestRow
  <2>3. requests' = [requests EXCEPT ![owner.id] = row] /\ returns' = returns
    BY <1>3 DEF DispatchToOwner
  <2>4. \A p \in DOMAIN requests : owner = RequestOwner(p) <=> p = owner.id
    BY <1>3, OwnerTypes
  <2>5. \A r \in DOMAIN returns : owner # ReturnOwner(r)
    BY <1>3, OwnerTypes
  <2>6. row = [requests[owner.id] EXCEPT !.type = "stock", !.ref = TransferRef(Len(transfers) + 1)]
    OBVIOUS
  <2> HIDE DEF row
  <2>7. requests \in Seq(Request) /\ returns \in Seq(Return)
    BY DEF TypeOK
  <2>8. /\ requests' \in Seq(Request)
        /\ DOMAIN requests' = DOMAIN requests
        /\ \A p \in DOMAIN requests :
              requests'[p] = IF p = owner.id THEN row ELSE requests[p]
    BY <2>1, <2>2, <2>3, <2>7, RowChanged
  <2> QED BY <1>1, <2>3, <2>4, <2>5, <2>6, <2>7, <2>8
<1>4. CASE owner.kind = "return"
  <2> DEFINE row == [returns[owner.id] EXCEPT !.transfer = Len(transfers) + 1]
  <2>1. owner.id \in DOMAIN returns
    BY <1>4 DEF OwnerExists
  <2>2. row \in Return
    BY <2>1, NextRows, ReturnRow
  <2>3. returns' = [returns EXCEPT ![owner.id] = row] /\ requests' = requests
    BY <1>4 DEF DispatchToOwner
  <2>4. \A r \in DOMAIN returns : owner = ReturnOwner(r) <=> r = owner.id
    BY <1>4, OwnerTypes
  <2>5. \A p \in DOMAIN requests : owner # RequestOwner(p)
    BY <1>4, OwnerTypes
  <2>6. row = [returns[owner.id] EXCEPT !.transfer = Len(transfers) + 1]
    OBVIOUS
  <2> HIDE DEF row
  <2>7. requests \in Seq(Request) /\ returns \in Seq(Return)
    BY DEF TypeOK
  <2>8. /\ returns' \in Seq(Return)
        /\ DOMAIN returns' = DOMAIN returns
        /\ \A r \in DOMAIN returns :
              returns'[r] = IF r = owner.id THEN row ELSE returns[r]
    BY <2>1, <2>2, <2>3, <2>7, RowChanged
  <2> QED BY <1>1, <2>3, <2>4, <2>5, <2>6, <2>7, <2>8
<1> QED BY <1>2, <1>3, <1>4

-----------------------------------------------------------------------------
(* What a step does to one table *)

\* A table left alone.
LEMMA Untouched ==
    ASSUME TypeOK
    PROVE  /\ requests' = requests => requests' \in Seq(Request) /\ KeptRequests
           /\ returns' = returns => returns' \in Seq(Return) /\ KeptReturns
           /\ rfqs' = rfqs => rfqs' \in Seq(Rfq) /\ KeptRfqs
           /\ orders' = orders => orders' \in Seq(Order) /\ KeptOrders
           /\ asns' = asns => asns' \in Seq(Asn) /\ KeptAsns
           /\ transfers' = transfers => transfers' \in Seq(Transfer) /\ KeptTransfers
           /\ inventory' = inventory => inventory' \in Inventory
           /\ reservations' = reservations => reservations' \subseteq Reservation
           /\ adjusted' = adjusted => adjusted' \in [onHand : Int, available : Int, count : Nat]
<1>1. requests' = requests => requests' \in Seq(Request) /\ KeptRequests
  BY DEF TypeOK, KeptRequests
<1>2. returns' = returns => returns' \in Seq(Return) /\ KeptReturns
  BY DEF TypeOK, KeptReturns
<1>3. rfqs' = rfqs => rfqs' \in Seq(Rfq) /\ KeptRfqs
  BY DEF TypeOK, KeptRfqs
<1>4. orders' = orders => orders' \in Seq(Order) /\ KeptOrders
  BY DEF TypeOK, KeptOrders
<1>5. asns' = asns => asns' \in Seq(Asn) /\ KeptAsns
  BY DEF TypeOK, KeptAsns
<1>6. transfers' = transfers => transfers' \in Seq(Transfer) /\ KeptTransfers
  BY DEF TypeOK, KeptTransfers
<1>7. /\ inventory' = inventory => inventory' \in Inventory
      /\ reservations' = reservations => reservations' \subseteq Reservation
      /\ adjusted' = adjusted => adjusted' \in [onHand : Int, available : Int, count : Nat]
  BY DEF TypeOK
<1> QED BY <1>1, <1>2, <1>3, <1>4, <1>5, <1>6, <1>7

LEMMA RequestsChanged ==
    ASSUME TypeOK, NEW p \in DOMAIN requests, NEW row \in Request,
           row.qty = requests[p].qty, requests' = [requests EXCEPT ![p] = row]
    PROVE  requests' \in Seq(Request) /\ KeptRequests
<1>1. requests \in Seq(Request)
  BY DEF TypeOK
<1> QED BY <1>1, RowChanged DEF KeptRequests

LEMMA RequestsAdded ==
    ASSUME TypeOK, NEW row \in Request, requests' = Append(requests, row)
    PROVE  requests' \in Seq(Request) /\ KeptRequests
<1>1. requests \in Seq(Request)
  BY DEF TypeOK
<1>2. DOMAIN requests = 1..Len(requests) /\ Len(requests) \in Nat
  BY <1>1, LenProperties
<1> QED BY <1>1, <1>2, RowAdded DEF KeptRequests

LEMMA ReturnsChanged ==
    ASSUME TypeOK, NEW r \in DOMAIN returns, NEW row \in Return,
           row.qty = returns[r].qty, returns' = [returns EXCEPT ![r] = row]
    PROVE  returns' \in Seq(Return) /\ KeptReturns
<1>1. returns \in Seq(Return)
  BY DEF TypeOK
<1> QED BY <1>1, RowChanged DEF KeptReturns

LEMMA ReturnsAdded ==
    ASSUME TypeOK, NEW row \in Return, returns' = Append(returns, row)
    PROVE  returns' \in Seq(Return) /\ KeptReturns
<1>1. returns \in Seq(Return)
  BY DEF TypeOK
<1>2. DOMAIN returns = 1..Len(returns) /\ Len(returns) \in Nat
  BY <1>1, LenProperties
<1> QED BY <1>1, <1>2, RowAdded DEF KeptReturns

LEMMA RfqsChanged ==
    ASSUME TypeOK, NEW r \in DOMAIN rfqs, NEW row \in Rfq,
           row.owner = rfqs[r].owner, row.qty = rfqs[r].qty, rfqs' = [rfqs EXCEPT ![r] = row]
    PROVE  rfqs' \in Seq(Rfq) /\ KeptRfqs
<1>1. rfqs \in Seq(Rfq)
  BY DEF TypeOK
<1> QED BY <1>1, RowChanged DEF KeptRfqs

LEMMA RfqsAdded ==
    ASSUME TypeOK, NEW row \in Rfq, rfqs' = Append(rfqs, row)
    PROVE  rfqs' \in Seq(Rfq) /\ KeptRfqs
<1>1. rfqs \in Seq(Rfq)
  BY DEF TypeOK
<1>2. DOMAIN rfqs = 1..Len(rfqs) /\ Len(rfqs) \in Nat
  BY <1>1, LenProperties
<1> QED BY <1>1, <1>2, RowAdded DEF KeptRfqs

LEMMA OrdersChanged ==
    ASSUME TypeOK, NEW o \in DOMAIN orders, NEW row \in Order,
           row.rfq = orders[o].rfq, row.qty = orders[o].qty, orders' = [orders EXCEPT ![o] = row]
    PROVE  orders' \in Seq(Order) /\ KeptOrders
<1>1. orders \in Seq(Order)
  BY DEF TypeOK
<1> QED BY <1>1, RowChanged DEF KeptOrders

LEMMA OrdersAdded ==
    ASSUME TypeOK, NEW row \in Order, orders' = Append(orders, row)
    PROVE  orders' \in Seq(Order) /\ KeptOrders
<1>1. orders \in Seq(Order)
  BY DEF TypeOK
<1>2. DOMAIN orders = 1..Len(orders) /\ Len(orders) \in Nat
  BY <1>1, LenProperties
<1> QED BY <1>1, <1>2, RowAdded DEF KeptOrders

LEMMA AsnsChanged ==
    ASSUME TypeOK, NEW a \in DOMAIN asns, NEW row \in Asn,
           row.po = asns[a].po, asns' = [asns EXCEPT ![a] = row]
    PROVE  asns' \in Seq(Asn) /\ KeptAsns
<1>1. asns \in Seq(Asn)
  BY DEF TypeOK
<1> QED BY <1>1, RowChanged DEF KeptAsns

LEMMA AsnsAdded ==
    ASSUME TypeOK, NEW row \in Asn, asns' = Append(asns, row)
    PROVE  asns' \in Seq(Asn) /\ KeptAsns
<1>1. asns \in Seq(Asn)
  BY DEF TypeOK
<1>2. DOMAIN asns = 1..Len(asns) /\ Len(asns) \in Nat
  BY <1>1, LenProperties
<1> QED BY <1>1, <1>2, RowAdded DEF KeptAsns

LEMMA TransfersChanged ==
    ASSUME TypeOK, NEW t \in DOMAIN transfers, NEW row \in Transfer,
           row.owner = transfers[t].owner, row.qty = transfers[t].qty,
           transfers' = [transfers EXCEPT ![t] = row]
    PROVE  transfers' \in Seq(Transfer) /\ KeptTransfers
<1>1. transfers \in Seq(Transfer)
  BY DEF TypeOK
<1> QED BY <1>1, RowChanged DEF KeptTransfers

LEMMA TransfersAdded ==
    ASSUME TypeOK, NEW row \in Transfer, transfers' = Append(transfers, row)
    PROVE  transfers' \in Seq(Transfer) /\ KeptTransfers
<1>1. transfers \in Seq(Transfer)
  BY DEF TypeOK
<1>2. DOMAIN transfers = 1..Len(transfers) /\ Len(transfers) \in Nat
  BY <1>1, LenProperties
<1> QED BY <1>1, <1>2, RowAdded DEF KeptTransfers

-----------------------------------------------------------------------------
(* Every action keeps the types, and the rows *)

LEMMA CreatePurchaseRequestKeeps ==
    ASSUME TypeOK, NEW q \in Quantities, CreatePurchaseRequest(q)
    PROVE  TypeOK' /\ Kept
<1> DEFINE row == [qty |-> q, type |-> "none", ref |-> NoRef]
<1>1. row \in Request
  BY DEF Request, NoRef, Ref
<1>2. requests' = Append(requests, row)
  BY DEF CreatePurchaseRequest
<1>3. UNCHANGED <<inventory, returns, reservations, rfqs, orders, asns, transfers, adjusted>>
  BY DEF CreatePurchaseRequest
<1> HIDE DEF row
<1>4. requests' \in Seq(Request) /\ KeptRequests
  BY <1>1, <1>2, RequestsAdded
<1> QED BY <1>3, <1>4, Untouched DEF TypeOK, Kept

LEMMA FulfilFromStockKeeps ==
    ASSUME TypeOK, NEW p \in DOMAIN requests, FulfilFromStock(p)
    PROVE  TypeOK' /\ Kept
<1> DEFINE row == [requests[p] EXCEPT !.type = "stock", !.ref = TransferRef(Len(transfers) + 1)]
           transfer == NewTransfer(RequestOwner(p), requests[p].qty, "Warehouse Stock")
<1>1. p \in Nat /\ requests[p].qty \in Int
  BY RequestRow
<1>2. row \in Request /\ row.qty = requests[p].qty
  BY RequestRow, NextRows
<1>3. transfer \in Transfer
  BY <1>1, OwnerTypes, TransferTypes
<1>4. /\ requests' = [requests EXCEPT ![p] = row]
      /\ transfers' = Append(transfers, transfer)
      /\ inventory' = DecreaseOnHand(ReserveStock(inventory, requests[p].qty), requests[p].qty)
      /\ UNCHANGED <<returns, reservations, rfqs, orders, asns, adjusted>>
  BY DEF FulfilFromStock
<1> HIDE DEF row, transfer
<1>5. requests' \in Seq(Request) /\ KeptRequests
  BY <1>2, <1>4, RequestsChanged
<1>6. transfers' \in Seq(Transfer) /\ KeptTransfers
  BY <1>3, <1>4, TransfersAdded
<1>7. inventory' \in Inventory
  BY <1>1, <1>4, InventoryTypes DEF TypeOK
<1> QED BY <1>4, <1>5, <1>6, <1>7, Untouched DEF TypeOK, Kept

LEMMA SplitFulfilKeeps ==
    ASSUME TypeOK, NEW p \in DOMAIN requests, SplitFulfil(p)
    PROVE  TypeOK' /\ Kept
<1> DEFINE free == inventory.available
           row == [requests[p] EXCEPT !.type = "split", !.ref = RfqRef(Len(rfqs) + 1)]
           rfq == NewRfq(RequestOwner(p), requests[p].qty - free)
           h == NewReservation(Len(rfqs) + 1, RequestOwner(p), free, requests[p].qty)
<1>1. p \in Nat /\ requests[p].qty \in Int /\ free \in Int
  BY RequestRow DEF TypeOK, Inventory
<1>2. row \in Request /\ row.qty = requests[p].qty
  BY RequestRow, NextRows
<1>3. RequestOwner(p) \in Owner /\ requests[p].qty - free \in Int
  BY <1>1, OwnerTypes
<1>4. rfq \in Rfq
  BY <1>3, RfqTypes
<1>5. h \in Reservation
  BY <1>1, <1>3, NextRows, ReservationTypes
<1>6. /\ requests' = [requests EXCEPT ![p] = row]
      /\ rfqs' = Append(rfqs, rfq)
      /\ reservations' = reservations \cup {h}
      /\ inventory' = ReserveStock(inventory, free)
      /\ UNCHANGED <<returns, orders, asns, transfers, adjusted>>
  BY DEF SplitFulfil, MarkSplit
<1> HIDE DEF row, rfq, h, free
<1>7. requests' \in Seq(Request) /\ KeptRequests
  BY <1>2, <1>6, RequestsChanged
<1>8. rfqs' \in Seq(Rfq) /\ KeptRfqs
  BY <1>4, <1>6, RfqsAdded
<1>9. inventory' \in Inventory
  BY <1>1, <1>6, InventoryTypes DEF TypeOK
<1>10. reservations' \subseteq Reservation
  BY <1>5, <1>6 DEF TypeOK
<1> QED BY <1>6, <1>7, <1>8, <1>9, <1>10, Untouched DEF TypeOK, Kept

LEMMA RaiseRfqKeeps ==
    ASSUME TypeOK, NEW p \in DOMAIN requests, RaiseRfq(p)
    PROVE  TypeOK' /\ Kept
<1> DEFINE row == [requests[p] EXCEPT !.type = "rfq", !.ref = RfqRef(Len(rfqs) + 1)]
           rfq == NewRfq(RequestOwner(p), requests[p].qty)
<1>1. p \in Nat /\ requests[p].qty \in Int
  BY RequestRow
<1>2. row \in Request /\ row.qty = requests[p].qty
  BY RequestRow, NextRows
<1>3. rfq \in Rfq
  BY <1>1, OwnerTypes, RfqTypes
<1>4. /\ requests' = [requests EXCEPT ![p] = row]
      /\ rfqs' = Append(rfqs, rfq)
      /\ UNCHANGED <<inventory, returns, reservations, orders, asns, transfers, adjusted>>
  BY DEF RaiseRfq
<1> HIDE DEF row, rfq
<1>5. requests' \in Seq(Request) /\ KeptRequests
  BY <1>2, <1>4, RequestsChanged
<1>6. rfqs' \in Seq(Rfq) /\ KeptRfqs
  BY <1>3, <1>4, RfqsAdded
<1> QED BY <1>4, <1>5, <1>6, Untouched DEF TypeOK, Kept

LEMMA RaiseIssueKeeps ==
    ASSUME TypeOK, NEW t \in DOMAIN transfers, NEW q \in Quantities,
           NEW d \in {"replenish", "writeoff"}, RaiseIssue(t, q, d)
    PROVE  TypeOK' /\ Kept
<1> DEFINE row == [transfers[t] EXCEPT !.status = "Delivered"]
           ret == [qty |-> q, decision |-> d, status |-> "pending", transfer |-> 0, rfq |-> 0]
<1>1. row \in Transfer /\ row.owner = transfers[t].owner /\ row.qty = transfers[t].qty
  BY TransferRow DEF TransferStatuses
<1>2. ret \in Return
  BY DEF Return
<1>3. /\ transfers' = [transfers EXCEPT ![t] = row]
      /\ returns' = Append(returns, ret)
      /\ UNCHANGED <<inventory, requests, reservations, rfqs, orders, asns, adjusted>>
  BY DEF RaiseIssue
<1> HIDE DEF row, ret
<1>4. transfers' \in Seq(Transfer) /\ KeptTransfers
  BY <1>1, <1>3, TransfersChanged
<1>5. returns' \in Seq(Return) /\ KeptReturns
  BY <1>2, <1>3, ReturnsAdded
<1> QED BY <1>3, <1>4, <1>5, Untouched, SMTT(40) DEF TypeOK, Kept

LEMMA WriteOffReturnKeeps ==
    ASSUME TypeOK, NEW r \in DOMAIN returns, WriteOffReturn(r)
    PROVE  TypeOK' /\ Kept
<1> DEFINE row == [returns[r] EXCEPT !.status = "writtenoff"]
<1>1. row \in Return /\ row.qty = returns[r].qty
  BY ReturnRow
<1>2. /\ returns' = [returns EXCEPT ![r] = row]
      /\ UNCHANGED <<inventory, requests, reservations, rfqs, orders, asns, transfers, adjusted>>
  BY DEF WriteOffReturn
<1> HIDE DEF row
<1>3. returns' \in Seq(Return) /\ KeptReturns
  BY <1>1, <1>2, ReturnsChanged
<1> QED BY <1>2, <1>3, Untouched DEF TypeOK, Kept

LEMMA ReplenishFromStockKeeps ==
    ASSUME TypeOK, NEW r \in DOMAIN returns, ReplenishFromStock(r)
    PROVE  TypeOK' /\ Kept
<1> DEFINE row == Replenished([returns[r] EXCEPT !.transfer = Len(transfers) + 1])
           transfer == NewTransfer(ReturnOwner(r), returns[r].qty, "Return Replenishment")
<1>1. r \in Nat /\ returns[r].qty \in Int
  BY ReturnRow
<1>2. row \in Return /\ row.qty = returns[r].qty
  BY ReturnRow, NextRows
<1>3. transfer \in Transfer
  BY <1>1, OwnerTypes, TransferTypes
<1>4. /\ returns' = [returns EXCEPT ![r] = row]
      /\ transfers' = Append(transfers, transfer)
      /\ inventory' = DecreaseOnHand(ReserveStock(inventory, returns[r].qty), returns[r].qty)
      /\ UNCHANGED <<requests, reservations, rfqs, orders, asns, adjusted>>
  BY DEF ReplenishFromStock
<1> HIDE DEF row, transfer
<1>5. returns' \in Seq(Return) /\ KeptReturns
  BY <1>2, <1>4, ReturnsChanged
<1>6. transfers' \in Seq(Transfer) /\ KeptTransfers
  BY <1>3, <1>4, TransfersAdded
<1>7. inventory' \in Inventory
  BY <1>1, <1>4, InventoryTypes DEF TypeOK
<1> QED BY <1>4, <1>5, <1>6, <1>7, Untouched DEF TypeOK, Kept

LEMMA ReplenishByRfqKeeps ==
    ASSUME TypeOK, NEW r \in DOMAIN returns, ReplenishByRfq(r)
    PROVE  TypeOK' /\ Kept
<1> DEFINE free == inventory.available
           row == Replenished([returns[r] EXCEPT !.rfq = Len(rfqs) + 1])
           rfq == NewRfq(ReturnOwner(r), returns[r].qty - free)
           h == NewReservation(Len(rfqs) + 1, ReturnOwner(r), free, returns[r].qty)
<1>1. r \in Nat /\ returns[r].qty \in Int /\ free \in Int
  BY ReturnRow DEF TypeOK, Inventory
<1>2. row \in Return /\ row.qty = returns[r].qty
  BY ReturnRow, NextRows
<1>3. ReturnOwner(r) \in Owner /\ returns[r].qty - free \in Int
  BY <1>1, OwnerTypes
<1>4. rfq \in Rfq
  BY <1>3, RfqTypes
<1>5. h \in Reservation
  BY <1>1, <1>3, NextRows, ReservationTypes
<1>6. /\ returns' = [returns EXCEPT ![r] = row]
      /\ rfqs' = Append(rfqs, rfq)
      /\ \/ /\ reservations' = reservations \cup {h}
            /\ inventory' = ReserveStock(inventory, free)
         \/ UNCHANGED <<inventory, reservations>>
      /\ UNCHANGED <<requests, orders, asns, transfers, adjusted>>
  BY DEF ReplenishByRfq
<1> HIDE DEF row, rfq, h, free
<1>7. returns' \in Seq(Return) /\ KeptReturns
  BY <1>2, <1>6, ReturnsChanged
<1>8. rfqs' \in Seq(Rfq) /\ KeptRfqs
  BY <1>4, <1>6, RfqsAdded
<1>9. inventory' \in Inventory
  BY <1>1, <1>6, InventoryTypes DEF TypeOK
<1>10. reservations' \subseteq Reservation
  BY <1>5, <1>6 DEF TypeOK
<1> QED BY <1>6, <1>7, <1>8, <1>9, <1>10, Untouched DEF TypeOK, Kept

LEMMA SubmitQuotationKeeps ==
    ASSUME TypeOK, NEW r \in DOMAIN rfqs, SubmitQuotation(r)
    PROVE  TypeOK' /\ Kept
<1> DEFINE row == [rfqs[r] EXCEPT !.quoted = TRUE, !.status = "Responded"]
<1>1. row \in Rfq /\ row.owner = rfqs[r].owner /\ row.qty = rfqs[r].qty
  BY RfqRow
<1>2. /\ rfqs' = [rfqs EXCEPT ![r] = row]
      /\ UNCHANGED <<inventory, requests, returns, reservations, orders, asns, transfers, adjusted>>
  BY DEF SubmitQuotation
<1> HIDE DEF row
<1>3. rfqs' \in Seq(Rfq) /\ KeptRfqs
  BY <1>1, <1>2, RfqsChanged
<1> QED BY <1>2, <1>3, Untouched DEF TypeOK, Kept

LEMMA SelectVendorKeeps ==
    ASSUME TypeOK, NEW r \in DOMAIN rfqs, SelectVendor(r)
    PROVE  TypeOK' /\ Kept
<1> DEFINE row == [rfqs[r] EXCEPT !.status = "Purchase Order Generated"]
           order == [rfq |-> r, qty |-> rfqs[r].qty, received |-> 0,
                     status |-> "Pending Acceptance", dispatched |-> 0]
<1>1. row \in Rfq /\ row.owner = rfqs[r].owner /\ row.qty = rfqs[r].qty
  BY RfqRow
<1>2. r \in Nat /\ rfqs[r].qty \in Int
  BY RfqRow
<1>3. order \in Order
  BY <1>2 DEF Order, OrderStatuses
<1>4. /\ rfqs' = [rfqs EXCEPT ![r] = row]
      /\ orders' = Append(orders, order)
      /\ UNCHANGED <<inventory, requests, returns, reservations, asns, transfers, adjusted>>
  BY DEF SelectVendor
<1> HIDE DEF row, order
<1>5. rfqs' \in Seq(Rfq) /\ KeptRfqs
  BY <1>1, <1>4, RfqsChanged
<1>6. orders' \in Seq(Order) /\ KeptOrders
  BY <1>3, <1>4, OrdersAdded
<1> QED BY <1>4, <1>5, <1>6, Untouched DEF TypeOK, Kept

LEMMA AcceptOrderKeeps ==
    ASSUME TypeOK, NEW o \in DOMAIN orders, AcceptOrder(o)
    PROVE  TypeOK' /\ Kept
<1> DEFINE row == [orders[o] EXCEPT !.status = "Accepted"]
<1>1. row \in Order /\ row.rfq = orders[o].rfq /\ row.qty = orders[o].qty
  BY OrderRow DEF OrderStatuses
<1>2. /\ orders' = [orders EXCEPT ![o] = row]
      /\ UNCHANGED <<inventory, requests, returns, reservations, rfqs, asns, transfers, adjusted>>
  BY DEF AcceptOrder
<1> HIDE DEF row
<1>3. orders' \in Seq(Order) /\ KeptOrders
  BY <1>1, <1>2, OrdersChanged
<1> QED BY <1>2, <1>3, Untouched DEF TypeOK, Kept

LEMMA RejectOrderKeeps ==
    ASSUME TypeOK, NEW o \in DOMAIN orders, RejectOrder(o)
    PROVE  TypeOK' /\ Kept
<1> DEFINE row == [orders[o] EXCEPT !.status = "Rejected"]
<1>1. row \in Order /\ row.rfq = orders[o].rfq /\ row.qty = orders[o].qty
  BY OrderRow DEF OrderStatuses
<1>2. /\ orders' = [orders EXCEPT ![o] = row]
      /\ UNCHANGED <<inventory, requests, returns, reservations, rfqs, asns, transfers, adjusted>>
  BY DEF RejectOrder
<1> HIDE DEF row
<1>3. orders' \in Seq(Order) /\ KeptOrders
  BY <1>1, <1>2, OrdersChanged
<1> QED BY <1>2, <1>3, Untouched DEF TypeOK, Kept

LEMMA CreateAsnKeeps ==
    ASSUME TypeOK, NEW o \in DOMAIN orders, NEW n \in Shipments, CreateAsn(o, n)
    PROVE  TypeOK' /\ Kept
<1> DEFINE row == [orders[o] EXCEPT !.status = "Ready to Ship"]
           asn == [po |-> o, shipped |-> n, submitted |-> FALSE, receipt |-> NoReceipt]
<1>1. row \in Order /\ row.rfq = orders[o].rfq /\ row.qty = orders[o].qty
  BY OrderRow DEF OrderStatuses
<1>2. o \in Nat /\ n \in Nat /\ NoReceipt \in GoodsReceipt
  BY OrderRow, ConstantTypes, ReceiptTypes
<1>3. asn \in Asn
  BY <1>2 DEF Asn
<1>4. /\ orders' = [orders EXCEPT ![o] = row]
      /\ asns' = Append(asns, asn)
      /\ UNCHANGED <<inventory, requests, returns, reservations, rfqs, transfers, adjusted>>
  BY DEF CreateAsn
<1> HIDE DEF row, asn
<1>5. orders' \in Seq(Order) /\ KeptOrders
  BY <1>1, <1>4, OrdersChanged
<1>6. asns' \in Seq(Asn) /\ KeptAsns
  BY <1>3, <1>4, AsnsAdded
<1> QED BY <1>4, <1>5, <1>6, Untouched DEF TypeOK, Kept

LEMMA SubmitAsnKeeps ==
    ASSUME TypeOK, NEW a \in DOMAIN asns, SubmitAsn(a)
    PROVE  TypeOK' /\ Kept
<1> DEFINE row == [asns[a] EXCEPT !.submitted = TRUE]
<1>1. row \in Asn /\ row.po = asns[a].po
  BY AsnRow
<1>2. /\ asns' = [asns EXCEPT ![a] = row]
      /\ UNCHANGED <<inventory, requests, returns, reservations, rfqs, orders, transfers, adjusted>>
  BY DEF SubmitAsn
<1> HIDE DEF row
<1>3. asns' \in Seq(Asn) /\ KeptAsns
  BY <1>1, <1>2, AsnsChanged
<1> QED BY <1>2, <1>3, Untouched DEF TypeOK, Kept

LEMMA UpdateAsnKeeps ==
    ASSUME TypeOK, NEW a \in DOMAIN asns, NEW n \in Shipments, UpdateAsn(a, n)
    PROVE  TypeOK' /\ Kept
<1> DEFINE row == [asns[a] EXCEPT !.shipped = n]
<1>1. row \in Asn /\ row.po = asns[a].po
  BY AsnRow, ConstantTypes
<1>2. /\ asns' = [asns EXCEPT ![a] = row]
      /\ UNCHANGED <<inventory, requests, returns, reservations, rfqs, orders, transfers, adjusted>>
  BY DEF UpdateAsn
<1> HIDE DEF row
<1>3. asns' \in Seq(Asn) /\ KeptAsns
  BY <1>1, <1>2, AsnsChanged
<1> QED BY <1>2, <1>3, Untouched DEF TypeOK, Kept

LEMMA ResubmitAfterRejectionKeeps ==
    ASSUME TypeOK, NEW a \in DOMAIN asns, NEW n \in Shipments, ResubmitAfterRejection(a, n)
    PROVE  TypeOK' /\ Kept
<1> DEFINE row == [asns[a] EXCEPT !.shipped = n, !.receipt = NoReceipt]
<1>1. row \in Asn /\ row.po = asns[a].po
  BY AsnRow, ConstantTypes
<1>2. /\ asns' = [asns EXCEPT ![a] = row]
      /\ UNCHANGED <<inventory, requests, returns, reservations, rfqs, orders, transfers, adjusted>>
  BY DEF ResubmitAfterRejection
<1> HIDE DEF row
<1>3. asns' \in Seq(Asn) /\ KeptAsns
  BY <1>1, <1>2, AsnsChanged
<1> QED BY <1>2, <1>3, Untouched DEF TypeOK, Kept

LEMMA ReceivePartKeeps ==
    ASSUME TypeOK, Linked, NEW a \in DOMAIN asns, NEW acc \in Nat, NEW rej \in Nat,
           ReceivePart(a, acc, rej)
    PROVE  TypeOK' /\ Kept
<1> DEFINE o == asns[a].po
           row == [asns[a] EXCEPT !.receipt = NewReceipt(acc, rej)]
           order == [orders[o] EXCEPT !.received = @ + acc]
<1>1. o \in DOMAIN orders
  BY DEF Linked
<1>2. orders[o].received + acc \in Nat
  <2>1. orders[o].received \in Nat
    BY <1>1, OrderRow
  <2> QED BY <2>1
<1>3. order \in Order /\ order.rfq = orders[o].rfq /\ order.qty = orders[o].qty
  BY <1>1, <1>2, OrderRow
<1>4. row \in Asn /\ row.po = asns[a].po
  BY AsnRow, ReceiptTypes
<1>5. /\ asns' = [asns EXCEPT ![a] = row]
      /\ orders' = [orders EXCEPT ![o] = order]
      /\ inventory' = IncreaseOnHand(inventory, acc)
      /\ UNCHANGED <<requests, returns, reservations, rfqs, transfers, adjusted>>
  BY DEF ReceivePart
<1> HIDE DEF o, row, order
<1>6. asns' \in Seq(Asn) /\ KeptAsns
  BY <1>4, <1>5, AsnsChanged
<1>7. orders' \in Seq(Order) /\ KeptOrders
  BY <1>1, <1>3, <1>5, OrdersChanged
<1>8. inventory' \in Inventory
  BY <1>5, InventoryTypes DEF TypeOK
<1> QED BY <1>5, <1>6, <1>7, <1>8, Untouched DEF TypeOK, Kept

\* What an inspection that completes its order does, whichever of its two ways of
\* sending the goods on applies.
LEMMA ReceiveAndDispatchEffect ==
    ASSUME TypeOK, Linked, NEW a \in DOMAIN asns, NEW acc \in Nat, NEW rej \in Nat,
           ReceiveAndDispatch(a, acc, rej)
    PROVE  LET o     == asns[a].po
               rfq   == orders[o].rfq
               owner == rfqs[rfq].owner
           IN  /\ o \in DOMAIN orders
               /\ rfq \in DOMAIN rfqs
               /\ owner \in Owner
               /\ OwnerExists(owner)
               /\ asns' = [asns EXCEPT ![a] = [asns[a] EXCEPT !.receipt = NewReceipt(acc, rej)]]
               /\ orders' = [orders EXCEPT ![o] =
                                [orders[o] EXCEPT !.received = orders[o].received + acc,
                                                  !.status = "Delivered", !.dispatched = @ + 1]]
               /\ rfqs' = [rfqs EXCEPT ![rfq] = [rfqs[rfq] EXCEPT !.status = "Closed"]]
               /\ adjusted' = adjusted
               /\ \E q \in Int, source \in {"Vendor Procurement", "Combined Stock + Vendor"} :
                    /\ inventory' = DecreaseOnHand(IncreaseOnHand(inventory, acc), q)
                    /\ DispatchToOwner(owner, q, source)
               /\ reservations' = reservations \ ReservationsOf(owner)
               /\ reservations' \subseteq reservations
<1> DEFINE o     == asns[a].po
           total == orders[o].received + acc
           rfq   == orders[o].rfq
           owner == rfqs[rfq].owner
           held  == ReservationsOf(owner)
           stock == IncreaseOnHand(inventory, acc)
<1>1. o \in DOMAIN orders
  BY DEF Linked
<1>2. rfq \in DOMAIN rfqs
  BY <1>1 DEF Linked
<1>3. owner \in Owner /\ OwnerExists(owner)
  BY <1>2, RfqRow DEF Linked
<1>4. total \in Int
  <2>1. orders[o].received \in Nat
    BY <1>1, OrderRow
  <2> QED BY <2>1
<1>5. \A h \in held : h \in Reservation /\ h.reserved + h.vendor \in Int
  BY DEF ReservationsOf, TypeOK, Reservation
<1>6. held \subseteq reservations
  BY DEF ReservationsOf
<1>7. /\ asns' = [asns EXCEPT ![a] = [asns[a] EXCEPT !.receipt = NewReceipt(acc, rej)]]
      /\ orders' = [orders EXCEPT ![o] =
                       [orders[o] EXCEPT !.received = total,
                                         !.status = "Delivered", !.dispatched = @ + 1]]
      /\ rfqs' = [rfqs EXCEPT ![rfq] = [rfqs[rfq] EXCEPT !.status = "Closed"]]
      /\ adjusted' = adjusted
  BY DEF ReceiveAndDispatch
<1>8. \/ \E h \in held :
            /\ held = {h}
            /\ inventory' = DecreaseOnHand(stock, h.reserved + h.vendor)
            /\ DispatchToOwner(owner, h.reserved + h.vendor, "Combined Stock + Vendor")
            /\ reservations' = reservations \ {h}
      \/ /\ held = {}
         /\ inventory' = DecreaseOnHand(stock, total)
         /\ DispatchToOwner(owner, total, "Vendor Procurement")
         /\ UNCHANGED reservations
  BY DEF ReceiveAndDispatch
<1>9. /\ \E q \in Int, source \in {"Vendor Procurement", "Combined Stock + Vendor"} :
            /\ inventory' = DecreaseOnHand(stock, q)
            /\ DispatchToOwner(owner, q, source)
      /\ reservations' = reservations \ held
      /\ reservations' \subseteq reservations
  <2> HIDE DEF o, total, rfq, owner, held, stock
  <2>1. CASE \E h \in held :
               /\ held = {h}
               /\ inventory' = DecreaseOnHand(stock, h.reserved + h.vendor)
               /\ DispatchToOwner(owner, h.reserved + h.vendor, "Combined Stock + Vendor")
               /\ reservations' = reservations \ {h}
    BY <1>5, <2>1
  <2>2. CASE /\ held = {}
             /\ inventory' = DecreaseOnHand(stock, total)
             /\ DispatchToOwner(owner, total, "Vendor Procurement")
             /\ UNCHANGED reservations
    BY <1>4, <2>2
  <2> QED BY <1>8, <2>1, <2>2
<1> QED BY <1>1, <1>2, <1>3, <1>7, <1>9

LEMMA ReceiveAndDispatchKeeps ==
    ASSUME TypeOK, Linked, NEW a \in DOMAIN asns, NEW acc \in Nat, NEW rej \in Nat,
           ReceiveAndDispatch(a, acc, rej)
    PROVE  TypeOK' /\ Kept
<1> DEFINE o     == asns[a].po
           rfq   == orders[o].rfq
           owner == rfqs[rfq].owner
           asn   == [asns[a] EXCEPT !.receipt = NewReceipt(acc, rej)]
           order == [orders[o] EXCEPT !.received = orders[o].received + acc,
                                      !.status = "Delivered", !.dispatched = @ + 1]
           row   == [rfqs[rfq] EXCEPT !.status = "Closed"]
<1>1. o \in DOMAIN orders /\ rfq \in DOMAIN rfqs /\ owner \in Owner /\ OwnerExists(owner)
  BY ReceiveAndDispatchEffect
<1>2. /\ asns' = [asns EXCEPT ![a] = asn]
      /\ orders' = [orders EXCEPT ![o] = order]
      /\ rfqs' = [rfqs EXCEPT ![rfq] = row]
      /\ adjusted' = adjusted
      /\ reservations' \subseteq reservations
  <2>1. asns' = [asns EXCEPT ![a] = asn] /\ adjusted' = adjusted
    BY DEF ReceiveAndDispatch
  <2>2. orders' = [orders EXCEPT ![o] = order]
    BY ReceiveAndDispatchEffect
  <2>3. rfqs' = [rfqs EXCEPT ![rfq] = row]
    BY ReceiveAndDispatchEffect
  <2>4. reservations' \subseteq reservations
    BY ReceiveAndDispatchEffect
  <2> QED BY <2>1, <2>2, <2>3, <2>4
<1>3. orders[o].received + acc \in Nat
  <2>1. orders[o].received \in Nat
    BY <1>1, OrderRow
  <2> QED BY <2>1
<1>4. acc \in Int
  OBVIOUS
<1>5. PICK q \in Int, source \in {"Vendor Procurement", "Combined Stock + Vendor"} :
         /\ inventory' = DecreaseOnHand(IncreaseOnHand(inventory, acc), q)
         /\ DispatchToOwner(owner, q, source)
  BY ReceiveAndDispatchEffect
<1>6. asn \in Asn /\ asn.po = asns[a].po
  BY AsnRow, ReceiptTypes
<1>7. order \in Order /\ order.rfq = orders[o].rfq /\ order.qty = orders[o].qty
  BY <1>1, <1>3, OrderRow
<1>8. row \in Rfq /\ row.owner = rfqs[rfq].owner /\ row.qty = rfqs[rfq].qty
  BY <1>1, RfqRow
<1> HIDE DEF asn, order, row, owner, rfq, o
<1>9. asns' \in Seq(Asn) /\ KeptAsns
  BY <1>2, <1>6, AsnsChanged
<1>10. orders' \in Seq(Order) /\ KeptOrders
  BY <1>1, <1>2, <1>7, OrdersChanged
<1>11. rfqs' \in Seq(Rfq) /\ KeptRfqs
  BY <1>1, <1>2, <1>8, RfqsChanged DEF owner
<1>12. inventory' \in Inventory
  <2>1. inventory \in Inventory
    BY DEF TypeOK
  <2>2. IncreaseOnHand(inventory, acc) \in Inventory
    BY <1>4, <2>1, InventoryTypes
  <2> QED BY <1>5, <2>2, InventoryTypes
<1>13. reservations' \subseteq Reservation
  BY <1>2 DEF TypeOK
<1>14. NewTransfer(owner, q, source) \in Transfer
  BY <1>1, TransferTypes
<1>15. /\ requests' \in Seq(Request)
       /\ returns' \in Seq(Return)
       /\ DOMAIN requests' = DOMAIN requests
       /\ DOMAIN returns' = DOMAIN returns
       /\ transfers' = Append(transfers, NewTransfer(owner, q, source))
  BY <1>1, <1>5, DispatchEffect
<1>16. transfers' \in Seq(Transfer) /\ KeptTransfers
  BY <1>14, <1>15, TransfersAdded
<1>17. KeptRequests
  <2> SUFFICES ASSUME NEW p \in DOMAIN requests
               PROVE  requests'[p].qty = requests[p].qty
    BY <1>15 DEF KeptRequests
  <2>1. \/ requests'[p] = [requests[p] EXCEPT !.type = "stock",
                                              !.ref = TransferRef(Len(transfers) + 1)]
        \/ requests'[p] = requests[p]
    BY <1>1, <1>5, DispatchEffect
  <2>2. [requests[p] EXCEPT !.type = "stock", !.ref = TransferRef(Len(transfers) + 1)].qty
           = requests[p].qty
    BY NextRows, RequestRow
  <2> QED BY <2>1, <2>2
<1>18. KeptReturns
  <2> SUFFICES ASSUME NEW r \in DOMAIN returns
               PROVE  returns'[r].qty = returns[r].qty
    BY <1>15 DEF KeptReturns
  <2>1. \/ returns'[r] = [returns[r] EXCEPT !.transfer = Len(transfers) + 1]
        \/ returns'[r] = returns[r]
    BY <1>1, <1>5, DispatchEffect
  <2>2. [returns[r] EXCEPT !.transfer = Len(transfers) + 1].qty = returns[r].qty
    BY NextRows, ReturnRow
  <2> QED BY <2>1, <2>2
<1>19. adjusted' \in [onHand : Int, available : Int, count : Nat]
  BY <1>2 DEF TypeOK
<1>20. TypeOK'
  BY <1>9, <1>10, <1>11, <1>12, <1>13, <1>15, <1>16, <1>19 DEF TypeOK
<1> QED BY <1>9, <1>10, <1>11, <1>16, <1>17, <1>18, <1>20 DEF Kept

LEMMA DispatchTransferOrderKeeps ==
    ASSUME TypeOK, Linked, NEW t \in DOMAIN transfers, DispatchTransferOrder(t)
    PROVE  TypeOK' /\ Kept
<1> DEFINE owner == transfers[t].owner
           row == [transfers[t] EXCEPT !.status = "Dispatched", !.items = @ + 1]
           ret == [returns[owner.id] EXCEPT !.status = "dispatched"]
<1>1. row \in Transfer /\ row.owner = transfers[t].owner /\ row.qty = transfers[t].qty
  BY TransferRow DEF TransferStatuses
<1>2. /\ transfers' = [transfers EXCEPT ![t] = row]
      /\ \/ owner.kind = "return" /\ returns' = [returns EXCEPT ![owner.id] = ret]
         \/ returns' = returns
      /\ UNCHANGED <<inventory, requests, reservations, rfqs, orders, asns, adjusted>>
  BY DEF DispatchTransferOrder
<1>3. owner.kind = "return" => /\ owner.id \in DOMAIN returns
                               /\ ret \in Return
                               /\ ret.qty = returns[owner.id].qty
  BY ReturnRow DEF Linked, OwnerExists
<1> HIDE DEF owner, row, ret
<1>4. transfers' \in Seq(Transfer) /\ KeptTransfers
  BY <1>1, <1>2, TransfersChanged
<1>5. returns' \in Seq(Return) /\ KeptReturns
  BY <1>2, <1>3, ReturnsChanged, Untouched
<1> QED BY <1>2, <1>4, <1>5, Untouched DEF TypeOK, Kept

LEMMA UpdateTransferStatusKeeps ==
    ASSUME TypeOK, NEW t \in DOMAIN transfers, NEW s \in Statuses, UpdateTransferStatus(t, s)
    PROVE  TypeOK' /\ Kept
<1> DEFINE row == [transfers[t] EXCEPT !.status = s]
<1>1. row \in Transfer /\ row.owner = transfers[t].owner /\ row.qty = transfers[t].qty
  BY TransferRow, ConstantTypes
<1>2. /\ transfers' = [transfers EXCEPT ![t] = row]
      /\ UNCHANGED <<inventory, requests, returns, reservations, rfqs, orders, asns, adjusted>>
  BY DEF UpdateTransferStatus
<1> HIDE DEF row
<1>3. transfers' \in Seq(Transfer) /\ KeptTransfers
  BY <1>1, <1>2, TransfersChanged
<1> QED BY <1>2, <1>3, Untouched DEF TypeOK, Kept

LEMMA AdjustInventoryKeeps ==
    ASSUME TypeOK, NEW delta \in Adjustments, AdjustInventory(delta)
    PROVE  TypeOK' /\ Kept
<1>1. delta[1] \in Int /\ delta[2] \in Int
  BY ConstantTypes
<1>2. PICK m \in Int, n \in Int : m = delta[1] /\ n = delta[2]
  BY <1>1
<1>3. /\ inventory' = [onHand |-> inventory.onHand + m, available |-> inventory.available + n]
      /\ adjusted' = [onHand |-> adjusted.onHand + m, available |-> adjusted.available + n,
                      count |-> adjusted.count + 1]
      /\ UNCHANGED <<requests, returns, reservations, rfqs, orders, asns, transfers>>
  BY <1>2 DEF AdjustInventory
<1>4. inventory' \in Inventory
  BY <1>3 DEF TypeOK, Inventory
<1>5. adjusted' \in [onHand : Int, available : Int, count : Nat]
  BY <1>3 DEF TypeOK
<1> QED BY <1>3, <1>4, <1>5, Untouched, SMTT(40) DEF TypeOK, Kept

\* One lemma for all of Next.
LEMMA StepKeeps ==
    ASSUME TypeOK, Linked, [Next]_vars
    PROVE  TypeOK' /\ Kept
<1>1. CASE \E q \in Quantities : CreatePurchaseRequest(q)
  BY <1>1, CreatePurchaseRequestKeeps
<1>2. CASE \E p \in DOMAIN requests : FulfilFromStock(p) \/ SplitFulfil(p) \/ RaiseRfq(p)
  BY <1>2, FulfilFromStockKeeps, SplitFulfilKeeps, RaiseRfqKeeps
<1>3. CASE \E t \in DOMAIN transfers, q \in Quantities, d \in {"replenish", "writeoff"} :
              RaiseIssue(t, q, d)
  BY <1>3, RaiseIssueKeeps
<1>4. CASE \E r \in DOMAIN returns : ResolveReturn(r)
  BY <1>4, WriteOffReturnKeeps, ReplenishFromStockKeeps, ReplenishByRfqKeeps DEF ResolveReturn
<1>5. CASE \E r \in DOMAIN rfqs : SubmitQuotation(r) \/ SelectVendor(r)
  BY <1>5, SubmitQuotationKeeps, SelectVendorKeeps
<1>6. CASE \E o \in DOMAIN orders : AcceptOrder(o) \/ RejectOrder(o)
  BY <1>6, AcceptOrderKeeps, RejectOrderKeeps
<1>7. CASE \E o \in DOMAIN orders, n \in Shipments : CreateAsn(o, n)
  BY <1>7, CreateAsnKeeps
<1>8. CASE \E a \in DOMAIN asns : SubmitAsn(a)
  BY <1>8, SubmitAsnKeeps
<1>9. CASE \E a \in DOMAIN asns, n \in Shipments : UpdateAsn(a, n) \/ ResubmitAfterRejection(a, n)
  BY <1>9, UpdateAsnKeeps, ResubmitAfterRejectionKeeps
<1>10. CASE \E a \in DOMAIN asns, acc \in 0..MaxCount, rej \in 0..MaxCount :
               RecordGoodsReceipt(a, acc, rej)
  <2>1. 0..MaxCount \subseteq Nat
    BY FulfilmentAssumption
  <2>2. PICK a \in DOMAIN asns, acc \in Nat, rej \in Nat :
                ReceivePart(a, acc, rej) \/ ReceiveAndDispatch(a, acc, rej)
    BY <1>10, <2>1 DEF RecordGoodsReceipt
  <2> QED BY <2>2, ReceivePartKeeps, ReceiveAndDispatchKeeps
<1>11. CASE \E t \in DOMAIN transfers : DispatchTransferOrder(t)
  BY <1>11, DispatchTransferOrderKeeps
<1>12. CASE \E t \in DOMAIN transfers, s \in Statuses : UpdateTransferStatus(t, s)
  BY <1>12, UpdateTransferStatusKeeps
<1>13. CASE \E delta \in Adjustments : AdjustInventory(delta)
  BY <1>13, AdjustInventoryKeeps
<1>14. CASE UNCHANGED vars
  BY <1>14, Untouched DEF vars, TypeOK, Kept
<1> QED BY <1>1, <1>2, <1>3, <1>4, <1>5, <1>6, <1>7, <1>8, <1>9, <1>10, <1>11, <1>12, <1>13,
           <1>14 DEF Next

-----------------------------------------------------------------------------
(* Every action ties the rows it adds to rows that are there *)

NewRfqsLinked ==
    \A r \in DOMAIN rfqs' : r \in DOMAIN rfqs \/ OwnerExists(rfqs'[r].owner)
NewOrdersLinked ==
    \A o \in DOMAIN orders' : o \in DOMAIN orders \/ orders'[o].rfq \in DOMAIN rfqs
NewAsnsLinked ==
    \A a \in DOMAIN asns' : a \in DOMAIN asns \/ asns'[a].po \in DOMAIN orders
NewTransfersLinked ==
    \A t \in DOMAIN transfers' : t \in DOMAIN transfers \/ OwnerExists(transfers'[t].owner)
NewLinked == NewRfqsLinked /\ NewOrdersLinked /\ NewAsnsLinked /\ NewTransfersLinked

\* A table whose rows stay as many needs no new link, and one that a row is added
\* to needs one for that row.
LEMMA NoNewRow ==
    /\ DOMAIN rfqs' = DOMAIN rfqs => NewRfqsLinked
    /\ DOMAIN orders' = DOMAIN orders => NewOrdersLinked
    /\ DOMAIN asns' = DOMAIN asns => NewAsnsLinked
    /\ DOMAIN transfers' = DOMAIN transfers => NewTransfersLinked
BY DEF NewRfqsLinked, NewOrdersLinked, NewAsnsLinked, NewTransfersLinked

LEMMA NewRow ==
    ASSUME NEW S, NEW table \in Seq(S), NEW row \in S
    PROVE  \A i \in DOMAIN Append(table, row) :
              i \in DOMAIN table \/ Append(table, row)[i] = row
<1>1. DOMAIN table = 1..Len(table) /\ Len(table) \in Nat
  BY LenProperties
<1>2. \A i \in 1..(Len(table) + 1) : i \in 1..Len(table) \/ i = Len(table) + 1
  BY <1>1
<1> QED BY <1>1, <1>2, RowAdded

LEMMA NewRfqLinked ==
    ASSUME TypeOK, NEW owner \in Owner, OwnerExists(owner), NEW q \in Int,
           rfqs' = Append(rfqs, NewRfq(owner, q))
    PROVE  NewRfqsLinked
<1>1. NewRfq(owner, q) \in Rfq /\ NewRfq(owner, q).owner = owner
  BY RfqTypes
<1>2. rfqs \in Seq(Rfq)
  BY DEF TypeOK
<1>3. \A r \in DOMAIN rfqs' : r \in DOMAIN rfqs \/ rfqs'[r] = NewRfq(owner, q)
  BY <1>1, <1>2, NewRow
<1> QED BY <1>1, <1>3 DEF NewRfqsLinked

LEMMA NewTransferLinked ==
    ASSUME TypeOK, NEW owner \in Owner, OwnerExists(owner), NEW q \in Int,
           NEW source \in {"Warehouse Stock", "Vendor Procurement", "Return Replenishment",
                           "Combined Stock + Vendor"},
           transfers' = Append(transfers, NewTransfer(owner, q, source))
    PROVE  NewTransfersLinked
<1>1. NewTransfer(owner, q, source) \in Transfer /\ NewTransfer(owner, q, source).owner = owner
  BY TransferTypes
<1>2. transfers \in Seq(Transfer)
  BY DEF TypeOK
<1>3. \A t \in DOMAIN transfers' :
         t \in DOMAIN transfers \/ transfers'[t] = NewTransfer(owner, q, source)
  BY <1>1, <1>2, NewRow
<1> QED BY <1>1, <1>3 DEF NewTransfersLinked

\* Purchase requests and returns are owners.
LEMMA Owners ==
    ASSUME TypeOK
    PROVE  /\ \A p \in DOMAIN requests : /\ RequestOwner(p) \in Owner
                                         /\ OwnerExists(RequestOwner(p))
                                         /\ requests[p].qty \in Int
           /\ \A r \in DOMAIN returns : /\ ReturnOwner(r) \in Owner
                                        /\ OwnerExists(ReturnOwner(r))
                                        /\ returns[r].qty \in Int
<1>1. ASSUME NEW p \in DOMAIN requests
      PROVE  RequestOwner(p) \in Owner /\ requests[p].qty \in Int
  BY RequestRow, OwnerTypes
<1>2. ASSUME NEW r \in DOMAIN returns
      PROVE  ReturnOwner(r) \in Owner /\ returns[r].qty \in Int
  BY ReturnRow, OwnerTypes
<1>3. \A p \in DOMAIN requests : OwnerExists(RequestOwner(p))
  BY DEF OwnerExists, RequestOwner
<1>4. \A r \in DOMAIN returns : OwnerExists(ReturnOwner(r))
  BY DEF OwnerExists, ReturnOwner
<1> QED BY <1>1, <1>2, <1>3, <1>4

\* The RFQs that stock falls short of.
LEMMA ShortfallLinked ==
    ASSUME TypeOK
    PROVE  /\ \A p \in DOMAIN requests : SplitFulfil(p) \/ RaiseRfq(p) => NewRfqsLinked
           /\ \A r \in DOMAIN returns : ReplenishByRfq(r) => NewRfqsLinked
<1>1. inventory.available \in Int
  BY DEF TypeOK, Inventory
<1>2. ASSUME NEW p \in DOMAIN requests, SplitFulfil(p)
      PROVE  NewRfqsLinked
  <2>1. requests[p].qty - inventory.available \in Int
    BY <1>1, Owners
  <2>2. rfqs' = Append(rfqs, NewRfq(RequestOwner(p), requests[p].qty - inventory.available))
    BY <1>2 DEF SplitFulfil
  <2> QED BY <2>1, <2>2, Owners, NewRfqLinked
<1>3. ASSUME NEW p \in DOMAIN requests, RaiseRfq(p)
      PROVE  NewRfqsLinked
  <2>1. rfqs' = Append(rfqs, NewRfq(RequestOwner(p), requests[p].qty))
    BY <1>3 DEF RaiseRfq
  <2> QED BY <2>1, Owners, NewRfqLinked
<1>4. ASSUME NEW r \in DOMAIN returns, ReplenishByRfq(r)
      PROVE  NewRfqsLinked
  <2>1. returns[r].qty - inventory.available \in Int
    BY <1>1, Owners
  <2>2. rfqs' = Append(rfqs, NewRfq(ReturnOwner(r), returns[r].qty - inventory.available))
    BY <1>4 DEF ReplenishByRfq
  <2> QED BY <2>1, <2>2, Owners, NewRfqLinked
<1> QED BY <1>2, <1>3, <1>4

\* The transfer orders from stock, and those on delivery.
LEMMA TransferLinked ==
    ASSUME TypeOK, Linked
    PROVE  /\ \A p \in DOMAIN requests : FulfilFromStock(p) => NewTransfersLinked
           /\ \A r \in DOMAIN returns : ReplenishFromStock(r) => NewTransfersLinked
           /\ \A a \in DOMAIN asns, acc, rej \in Nat :
                 ReceiveAndDispatch(a, acc, rej) => NewTransfersLinked
<1>1. ASSUME NEW p \in DOMAIN requests, FulfilFromStock(p)
      PROVE  NewTransfersLinked
  <2>1. transfers' = Append(transfers, NewTransfer(RequestOwner(p), requests[p].qty,
                                                   "Warehouse Stock"))
    BY <1>1 DEF FulfilFromStock
  <2> QED BY <2>1, Owners, NewTransferLinked
<1>2. ASSUME NEW r \in DOMAIN returns, ReplenishFromStock(r)
      PROVE  NewTransfersLinked
  <2>1. transfers' = Append(transfers, NewTransfer(ReturnOwner(r), returns[r].qty,
                                                   "Return Replenishment"))
    BY <1>2 DEF ReplenishFromStock
  <2> QED BY <2>1, Owners, NewTransferLinked
<1>3. ASSUME NEW a \in DOMAIN asns, NEW acc \in Nat, NEW rej \in Nat,
             ReceiveAndDispatch(a, acc, rej)
      PROVE  NewTransfersLinked
  <2> DEFINE owner == rfqs[orders[asns[a].po].rfq].owner
  <2>1. owner \in Owner /\ OwnerExists(owner)
    BY <1>3, ReceiveAndDispatchEffect
  <2>2. PICK q \in Int, source \in {"Vendor Procurement", "Combined Stock + Vendor"} :
           /\ inventory' = DecreaseOnHand(IncreaseOnHand(inventory, acc), q)
           /\ DispatchToOwner(owner, q, source)
    BY <1>3, ReceiveAndDispatchEffect
  <2> HIDE DEF owner
  <2>3. transfers' = Append(transfers, NewTransfer(owner, q, source))
    BY <2>1, <2>2, DispatchEffect
  <2> QED BY <2>1, <2>3, NewTransferLinked
<1> QED BY <1>1, <1>2, <1>3

LEMMA SelectVendorLinked ==
    ASSUME TypeOK, NEW r \in DOMAIN rfqs, SelectVendor(r)
    PROVE  NewOrdersLinked
<1> DEFINE order == [rfq |-> r, qty |-> rfqs[r].qty, received |-> 0,
                     status |-> "Pending Acceptance", dispatched |-> 0]
<1>1. r \in Nat /\ rfqs[r].qty \in Int
  BY RfqRow
<1>2. order \in Order
  BY <1>1 DEF Order, OrderStatuses
<1>3. orders' = Append(orders, order) /\ orders \in Seq(Order)
  BY DEF SelectVendor, TypeOK
<1>4. order.rfq = r
  OBVIOUS
<1> HIDE DEF order
<1>5. \A o \in DOMAIN orders' : o \in DOMAIN orders \/ orders'[o] = order
  BY <1>2, <1>3, NewRow
<1> QED BY <1>4, <1>5 DEF NewOrdersLinked

LEMMA CreateAsnLinked ==
    ASSUME TypeOK, NEW o \in DOMAIN orders, NEW n \in Shipments, CreateAsn(o, n)
    PROVE  NewAsnsLinked
<1> DEFINE asn == [po |-> o, shipped |-> n, submitted |-> FALSE, receipt |-> NoReceipt]
<1>1. o \in Nat /\ n \in Nat /\ NoReceipt \in GoodsReceipt
  BY OrderRow, ConstantTypes, ReceiptTypes
<1>2. asn \in Asn
  BY <1>1 DEF Asn
<1>3. asns' = Append(asns, asn) /\ asns \in Seq(Asn)
  BY DEF CreateAsn, TypeOK
<1>4. asn.po = o
  OBVIOUS
<1> HIDE DEF asn
<1>5. \A a \in DOMAIN asns' : a \in DOMAIN asns \/ asns'[a] = asn
  BY <1>2, <1>3, NewRow
<1> QED BY <1>4, <1>5 DEF NewAsnsLinked

\* The tables that an action adds no row to.
LEMMA SameRows ==
    /\ \A q : CreatePurchaseRequest(q) => UNCHANGED <<rfqs, orders, asns, transfers>>
    /\ \A p : FulfilFromStock(p) => UNCHANGED <<rfqs, orders, asns>>
    /\ \A p : SplitFulfil(p) \/ RaiseRfq(p) => UNCHANGED <<orders, asns, transfers>>
    /\ \A t, q, d : RaiseIssue(t, q, d) =>
          UNCHANGED <<rfqs, orders, asns>> /\ DOMAIN transfers' = DOMAIN transfers
    /\ \A r : WriteOffReturn(r) => UNCHANGED <<rfqs, orders, asns, transfers>>
    /\ \A r : ReplenishFromStock(r) => UNCHANGED <<rfqs, orders, asns>>
    /\ \A r : ReplenishByRfq(r) => UNCHANGED <<orders, asns, transfers>>
    /\ \A r : SubmitQuotation(r) =>
          UNCHANGED <<orders, asns, transfers>> /\ DOMAIN rfqs' = DOMAIN rfqs
    /\ \A r : SelectVendor(r) =>
          UNCHANGED <<asns, transfers>> /\ DOMAIN rfqs' = DOMAIN rfqs
    /\ \A o : AcceptOrder(o) \/ RejectOrder(o) =>
          UNCHANGED <<rfqs, asns, transfers>> /\ DOMAIN orders' = DOMAIN orders
    /\ \A o, n : CreateAsn(o, n) =>
          UNCHANGED <<rfqs, transfers>> /\ DOMAIN orders' = DOMAIN orders
    /\ \A a, n : SubmitAsn(a) \/ UpdateAsn(a, n) \/ ResubmitAfterRejection(a, n) =>
          UNCHANGED <<rfqs, orders, transfers>> /\ DOMAIN asns' = DOMAIN asns
    /\ \A a, acc, rej : ReceivePart(a, acc, rej) =>
          /\ UNCHANGED <<rfqs, transfers>>
          /\ DOMAIN asns' = DOMAIN asns
          /\ DOMAIN orders' = DOMAIN orders
    /\ \A a, acc, rej : ReceiveAndDispatch(a, acc, rej) =>
          /\ DOMAIN rfqs' = DOMAIN rfqs
          /\ DOMAIN asns' = DOMAIN asns
          /\ DOMAIN orders' = DOMAIN orders
    /\ \A t, s : DispatchTransferOrder(t) \/ UpdateTransferStatus(t, s) =>
          UNCHANGED <<rfqs, orders, asns>> /\ DOMAIN transfers' = DOMAIN transfers
    /\ \A delta : AdjustInventory(delta) => UNCHANGED <<rfqs, orders, asns, transfers>>
<1>1. \A q : CreatePurchaseRequest(q) => UNCHANGED <<rfqs, orders, asns, transfers>>
  BY DEF CreatePurchaseRequest
<1>2. \A p : FulfilFromStock(p) => UNCHANGED <<rfqs, orders, asns>>
  BY DEF FulfilFromStock
<1>3. \A p : SplitFulfil(p) \/ RaiseRfq(p) => UNCHANGED <<orders, asns, transfers>>
  BY DEF SplitFulfil, RaiseRfq
<1>4. \A t, q, d : RaiseIssue(t, q, d) =>
         UNCHANGED <<rfqs, orders, asns>> /\ DOMAIN transfers' = DOMAIN transfers
  BY DEF RaiseIssue
<1>5. /\ \A r : WriteOffReturn(r) => UNCHANGED <<rfqs, orders, asns, transfers>>
      /\ \A r : ReplenishFromStock(r) => UNCHANGED <<rfqs, orders, asns>>
      /\ \A r : ReplenishByRfq(r) => UNCHANGED <<orders, asns, transfers>>
  BY DEF WriteOffReturn, ReplenishFromStock, ReplenishByRfq
<1>6. \A r : SubmitQuotation(r) =>
         UNCHANGED <<orders, asns, transfers>> /\ DOMAIN rfqs' = DOMAIN rfqs
  BY DEF SubmitQuotation
<1>7. \A r : SelectVendor(r) => UNCHANGED <<asns, transfers>> /\ DOMAIN rfqs' = DOMAIN rfqs
  BY DEF SelectVendor
<1>8. \A o : AcceptOrder(o) \/ RejectOrder(o) =>
         UNCHANGED <<rfqs, asns, transfers>> /\ DOMAIN orders' = DOMAIN orders
  BY DEF AcceptOrder, RejectOrder
<1>9. \A o, n : CreateAsn(o, n) =>
         UNCHANGED <<rfqs, transfers>> /\ DOMAIN orders' = DOMAIN orders
  BY DEF CreateAsn
<1>10. \A a, n : SubmitAsn(a) \/ UpdateAsn(a, n) \/ ResubmitAfterRejection(a, n) =>
          UNCHANGED <<rfqs, orders, transfers>> /\ DOMAIN asns' = DOMAIN asns
  BY DEF SubmitAsn, UpdateAsn, ResubmitAfterRejection
<1>11. \A a, acc, rej : ReceivePart(a, acc, rej) =>
          /\ UNCHANGED <<rfqs, transfers>>
          /\ DOMAIN asns' = DOMAIN asns
          /\ DOMAIN orders' = DOMAIN orders
  BY DEF ReceivePart
<1>12. \A a, acc, rej : ReceiveAndDispatch(a, acc, rej) =>
          /\ DOMAIN rfqs' = DOMAIN rfqs
          /\ DOMAIN asns' = DOMAIN asns
          /\ DOMAIN orders' = DOMAIN orders
  BY DEF ReceiveAndDispatch
<1>13. \A t, s : DispatchTransferOrder(t) \/ UpdateTransferStatus(t, s) =>
          UNCHANGED <<rfqs, orders, asns>> /\ DOMAIN transfers' = DOMAIN transfers
  BY DEF DispatchTransferOrder, UpdateTransferStatus
<1>14. \A delta : AdjustInventory(delta) => UNCHANGED <<rfqs, orders, asns, transfers>>
  BY DEF AdjustInventory
<1> QED BY <1>1, <1>2, <1>3, <1>4, <1>5, <1>6, <1>7, <1>8, <1>9, <1>10, <1>11, <1>12, <1>13, <1>14

LEMMA StepLinks ==
    ASSUME TypeOK, Linked, [Next]_vars
    PROVE  NewLinked
<1> USE DEF NewLinked
<1>1. CASE \E q \in Quantities : CreatePurchaseRequest(q)
  BY <1>1, SameRows, NoNewRow
<1>2. CASE \E p \in DOMAIN requests : FulfilFromStock(p) \/ SplitFulfil(p) \/ RaiseRfq(p)
  BY <1>2, SameRows, NoNewRow, ShortfallLinked, TransferLinked
<1>3. CASE \E t \in DOMAIN transfers, q \in Quantities, d \in {"replenish", "writeoff"} :
              RaiseIssue(t, q, d)
  BY <1>3, SameRows, NoNewRow
<1>4. CASE \E r \in DOMAIN returns : ResolveReturn(r)
  <2> PICK r \in DOMAIN returns : WriteOffReturn(r) \/ ReplenishFromStock(r) \/ ReplenishByRfq(r)
    BY <1>4 DEF ResolveReturn
  <2> QED BY SameRows, NoNewRow, ShortfallLinked, TransferLinked
<1>5. CASE \E r \in DOMAIN rfqs : SubmitQuotation(r) \/ SelectVendor(r)
  BY <1>5, SameRows, NoNewRow, SelectVendorLinked
<1>6. CASE \E o \in DOMAIN orders : AcceptOrder(o) \/ RejectOrder(o)
  BY <1>6, SameRows, NoNewRow
<1>7. CASE \E o \in DOMAIN orders, n \in Shipments : CreateAsn(o, n)
  BY <1>7, SameRows, NoNewRow, CreateAsnLinked
<1>8. CASE \E a \in DOMAIN asns : SubmitAsn(a)
  BY <1>8, SameRows, NoNewRow
<1>9. CASE \E a \in DOMAIN asns, n \in Shipments : UpdateAsn(a, n) \/ ResubmitAfterRejection(a, n)
  BY <1>9, SameRows, NoNewRow
<1>10. CASE \E a \in DOMAIN asns, acc \in 0..MaxCount, rej \in 0..MaxCount :
               RecordGoodsReceipt(a, acc, rej)
  <2>1. 0..MaxCount \subseteq Nat
    BY FulfilmentAssumption
  <2>2. PICK a \in DOMAIN asns, acc \in Nat, rej \in Nat :
                ReceivePart(a, acc, rej) \/ ReceiveAndDispatch(a, acc, rej)
    BY <1>10, <2>1 DEF RecordGoodsReceipt
  <2>3. CASE ReceivePart(a, acc, rej)
    BY <2>3, SameRows, NoNewRow
  <2>4. CASE ReceiveAndDispatch(a, acc, rej)
    BY <2>4, SameRows, NoNewRow, TransferLinked
  <2> QED BY <2>2, <2>3, <2>4
<1>11. CASE \E t \in DOMAIN transfers : DispatchTransferOrder(t)
  BY <1>11, SameRows, NoNewRow
<1>12. CASE \E t \in DOMAIN transfers, s \in Statuses : UpdateTransferStatus(t, s)
  BY <1>12, SameRows, NoNewRow
<1>13. CASE \E delta \in Adjustments : AdjustInventory(delta)
  BY <1>13, SameRows, NoNewRow
<1>14. CASE UNCHANGED vars
  BY <1>14, NoNewRow DEF vars
<1> QED BY <1>1, <1>2, <1>3, <1>4, <1>5, <1>6, <1>7, <1>8, <1>9, <1>10, <1>11, <1>12, <1>13,
           <1>14 DEF Next

\* An owner stays, and wants what it wanted.
LEMMA OwnerStays ==
    ASSUME Kept, NEW owner, OwnerExists(owner)
    PROVE  OwnerExists(owner)' /\ Wanted(owner)' = Wanted(owner)
BY DEF Kept, KeptRequests, KeptReturns, OwnerExists, Wanted

LEMMA LinkedStep ==
    ASSUME Linked, Kept, NewLinked
    PROVE  Linked'
<1>1. \A r \in DOMAIN rfqs' : OwnerExists(rfqs'[r].owner)
  BY DEF Linked, Kept, KeptRfqs, NewLinked, NewRfqsLinked
<1>2. \A r \in DOMAIN rfqs' : OwnerExists(rfqs[r].owner)'
  BY <1>1, OwnerStays
<1>3. \A o \in DOMAIN orders' : orders'[o].rfq \in DOMAIN rfqs'
  BY DEF Linked, Kept, KeptRfqs, KeptOrders, NewLinked, NewOrdersLinked
<1>4. \A a \in DOMAIN asns' : asns'[a].po \in DOMAIN orders'
  BY DEF Linked, Kept, KeptOrders, KeptAsns, NewLinked, NewAsnsLinked
<1>5. \A t \in DOMAIN transfers' : OwnerExists(transfers'[t].owner)
  BY DEF Linked, Kept, KeptTransfers, NewLinked, NewTransfersLinked
<1>6. \A t \in DOMAIN transfers' : OwnerExists(transfers[t].owner)'
  BY <1>5, OwnerStays
<1> QED BY <1>2, <1>3, <1>4, <1>6 DEF Linked

-----------------------------------------------------------------------------
(* Types and foreign keys *)

LEMMA InitTypes ==
    ASSUME Init
    PROVE  TypeOK /\ Linked
<1>1. \A S : << >> \in Seq(S)
  BY EmptySeq
<1>2. inventory \in Inventory
  BY ConstantTypes DEF Init, Inventory
<1>3. TypeOK
  BY <1>1, <1>2 DEF Init, TypeOK
<1>4. Linked
  BY DEF Init, Linked
<1> QED BY <1>3, <1>4

\* The tables keep the types of their columns whatever the clients do, and every
\* foreign key names a row that is there.
THEOREM TypeCorrect == Spec => [](TypeOK /\ Linked)
<1>1. Init => TypeOK /\ Linked
  BY InitTypes
<1>2. TypeOK /\ Linked /\ [Next]_vars => (TypeOK /\ Linked)'
  BY StepKeeps, StepLinks, LinkedStep
<1> QED BY <1>1, <1>2, PTL DEF Spec

-----------------------------------------------------------------------------
(* Free stock *)

LEMMA AvailableStep ==
    ASSUME TypeOK, Adjustments = {}, AvailableNonNegative, [Next]_vars
    PROVE  AvailableNonNegative'
<1> USE DEF AvailableNonNegative
<1>1. inventory \in Inventory /\ inventory.available \in Int
  BY DEF TypeOK, Inventory
<1>2. ASSUME NEW q \in Int, CanReserve(q),
             inventory' = DecreaseOnHand(ReserveStock(inventory, q), q)
      PROVE  AvailableNonNegative'
  <2>1. inventory'.available = inventory.available - q
    BY <1>1, <1>2, InventoryTypes
  <2> QED BY <1>1, <1>2, <2>1 DEF CanReserve
<1>3. ASSUME inventory' = ReserveStock(inventory, inventory.available)
      PROVE  AvailableNonNegative'
  <2>1. inventory'.available = inventory.available - inventory.available
    BY <1>1, <1>3, InventoryTypes
  <2> QED BY <1>1, <2>1
<1>4. CASE inventory' = inventory
  BY <1>4
<1>5. CASE \E q \in Quantities : CreatePurchaseRequest(q)
  BY <1>4, <1>5 DEF CreatePurchaseRequest
<1>6. CASE \E p \in DOMAIN requests : FulfilFromStock(p) \/ SplitFulfil(p) \/ RaiseRfq(p)
  <2> PICK p \in DOMAIN requests : FulfilFromStock(p) \/ SplitFulfil(p) \/ RaiseRfq(p)
    BY <1>6
  <2>1. requests[p].qty \in Int
    BY RequestRow
  <2>2. CASE FulfilFromStock(p)
    BY <1>2, <2>1, <2>2 DEF FulfilFromStock
  <2>3. CASE SplitFulfil(p)
    BY <1>3, <2>3 DEF SplitFulfil
  <2>4. CASE RaiseRfq(p)
    BY <1>4, <2>4 DEF RaiseRfq
  <2> QED BY <2>2, <2>3, <2>4
<1>7. CASE \E t \in DOMAIN transfers, q \in Quantities, d \in {"replenish", "writeoff"} :
              RaiseIssue(t, q, d)
  BY <1>4, <1>7 DEF RaiseIssue
<1>8. CASE \E r \in DOMAIN returns : ResolveReturn(r)
  <2> PICK r \in DOMAIN returns : WriteOffReturn(r) \/ ReplenishFromStock(r) \/ ReplenishByRfq(r)
    BY <1>8 DEF ResolveReturn
  <2>1. returns[r].qty \in Int
    BY ReturnRow
  <2>2. CASE WriteOffReturn(r)
    BY <1>4, <2>2 DEF WriteOffReturn
  <2>3. CASE ReplenishFromStock(r)
    BY <1>2, <2>1, <2>3 DEF ReplenishFromStock
  <2>4. CASE ReplenishByRfq(r)
    BY <1>3, <1>4, <2>4 DEF ReplenishByRfq
  <2> QED BY <2>2, <2>3, <2>4
<1>9. CASE \E r \in DOMAIN rfqs : SubmitQuotation(r) \/ SelectVendor(r)
  BY <1>4, <1>9 DEF SubmitQuotation, SelectVendor
<1>10. CASE \E o \in DOMAIN orders : AcceptOrder(o) \/ RejectOrder(o)
  BY <1>4, <1>10 DEF AcceptOrder, RejectOrder
<1>11. CASE \E o \in DOMAIN orders, n \in Shipments : CreateAsn(o, n)
  BY <1>4, <1>11 DEF CreateAsn
<1>12. CASE \E a \in DOMAIN asns : SubmitAsn(a)
  BY <1>4, <1>12 DEF SubmitAsn
<1>13. CASE \E a \in DOMAIN asns, n \in Shipments :
               UpdateAsn(a, n) \/ ResubmitAfterRejection(a, n)
  BY <1>4, <1>13 DEF UpdateAsn, ResubmitAfterRejection
<1>14. CASE \E a \in DOMAIN asns, acc \in 0..MaxCount, rej \in 0..MaxCount :
               RecordGoodsReceipt(a, acc, rej)
  <2>1. 0..MaxCount \subseteq Int
    BY FulfilmentAssumption
  <2>2. PICK a \in DOMAIN asns, acc \in Int, rej \in Int :
                ReceivePart(a, acc, rej) \/ ReceiveAndDispatch(a, acc, rej)
    BY <1>14, <2>1 DEF RecordGoodsReceipt
  <2>3. IncreaseOnHand(inventory, acc) \in Inventory
    BY <1>1, InventoryTypes
  <2>4. IncreaseOnHand(inventory, acc).available = inventory.available
    BY <1>1, InventoryTypes
  <2>5. \A q : DecreaseOnHand(IncreaseOnHand(inventory, acc), q).available
                  = inventory.available
    BY <2>3, <2>4 DEF DecreaseOnHand, Inventory
  <2>6. CASE ReceivePart(a, acc, rej)
    BY <2>4, <2>6 DEF ReceivePart
  <2>7. CASE ReceiveAndDispatch(a, acc, rej)
    <3>1. \E q : inventory' = DecreaseOnHand(IncreaseOnHand(inventory, acc), q)
      BY <2>7 DEF ReceiveAndDispatch
    <3> QED BY <2>5, <3>1
  <2> QED BY <2>2, <2>6, <2>7
<1>15. CASE \E t \in DOMAIN transfers : DispatchTransferOrder(t)
  BY <1>4, <1>15 DEF DispatchTransferOrder
<1>16. CASE \E t \in DOMAIN transfers, s \in Statuses : UpdateTransferStatus(t, s)
  BY <1>4, <1>16 DEF UpdateTransferStatus
<1>17. CASE UNCHANGED vars
  BY <1>4, <1>17 DEF vars
<1> QED BY <1>5, <1>6, <1>7, <1>8, <1>9, <1>10, <1>11, <1>12, <1>13, <1>14, <1>15, <1>16, <1>17
        DEF Next

\* Without manual corrections no handler, in any order of calls, promises a unit
\* of stock that is not free.
THEOREM NoOverPromise == Adjustments = {} /\ Spec => []AvailableNonNegative
<1> SUFFICES ASSUME Adjustments = {}
             PROVE  Spec => []AvailableNonNegative
  OBVIOUS
<1>1. Init => AvailableNonNegative
  BY ConstantTypes DEF Init, AvailableNonNegative
<1>2. TypeOK /\ AvailableNonNegative /\ [Next]_vars => AvailableNonNegative'
  BY AvailableStep
<1> QED BY <1>1, <1>2, TypeCorrect, PTL DEF Spec

-----------------------------------------------------------------------------
(* Reservations *)

NoNewReservation == reservations' \subseteq reservations

\* An inspection takes reservations away, and corrects nothing by hand.
LEMMA ReceiptKeeps ==
    ASSUME NEW a, NEW acc, NEW rej, RecordGoodsReceipt(a, acc, rej)
    PROVE  NoNewReservation /\ adjusted' = adjusted
<1>1. CASE ReceivePart(a, acc, rej)
  BY <1>1 DEF ReceivePart, NoNewReservation
<1>2. CASE ReceiveAndDispatch(a, acc, rej)
  <2>1. adjusted' = adjusted
    BY <1>2, ZenonT(60) DEF ReceiveAndDispatch
  <2>2. (\E h : reservations' = reservations \ {h}) \/ reservations' = reservations
    BY <1>2, ZenonT(60) DEF ReceiveAndDispatch
  <2> QED BY <2>1, <2>2 DEF NoNewReservation
<1> QED BY <1>1, <1>2 DEF RecordGoodsReceipt

\* Only a shortfall reserves stock.
LEMMA ReservationsStep ==
    ASSUME [Next]_vars
    PROVE  \/ NoNewReservation
           \/ \E p \in DOMAIN requests : SplitFulfil(p)
           \/ \E r \in DOMAIN returns : ReplenishByRfq(r)
<1> USE DEF NoNewReservation
<1>1. CASE \E q \in Quantities : CreatePurchaseRequest(q)
  BY <1>1 DEF CreatePurchaseRequest
<1>2. CASE \E p \in DOMAIN requests : FulfilFromStock(p) \/ SplitFulfil(p) \/ RaiseRfq(p)
  BY <1>2 DEF FulfilFromStock, RaiseRfq
<1>3. CASE \E t \in DOMAIN transfers, q \in Quantities, d \in {"replenish", "writeoff"} :
              RaiseIssue(t, q, d)
  BY <1>3 DEF RaiseIssue
<1>4. CASE \E r \in DOMAIN returns : ResolveReturn(r)
  BY <1>4 DEF ResolveReturn, WriteOffReturn, ReplenishFromStock
<1>5. CASE \E r \in DOMAIN rfqs : SubmitQuotation(r) \/ SelectVendor(r)
  BY <1>5 DEF SubmitQuotation, SelectVendor
<1>6. CASE \E o \in DOMAIN orders : AcceptOrder(o) \/ RejectOrder(o)
  BY <1>6 DEF AcceptOrder, RejectOrder
<1>7. CASE \E o \in DOMAIN orders, n \in Shipments : CreateAsn(o, n)
  BY <1>7 DEF CreateAsn
<1>8. CASE \E a \in DOMAIN asns : SubmitAsn(a)
  BY <1>8 DEF SubmitAsn
<1>9. CASE \E a \in DOMAIN asns, n \in Shipments : UpdateAsn(a, n) \/ ResubmitAfterRejection(a, n)
  BY <1>9 DEF UpdateAsn, ResubmitAfterRejection
<1>10. CASE \E a \in DOMAIN asns, acc \in 0..MaxCount, rej \in 0..MaxCount :
               RecordGoodsReceipt(a, acc, rej)
  BY <1>10, ReceiptKeeps
<1>11. CASE \E t \in DOMAIN transfers : DispatchTransferOrder(t)
  BY <1>11 DEF DispatchTransferOrder
<1>12. CASE \E t \in DOMAIN transfers, s \in Statuses : UpdateTransferStatus(t, s)
  BY <1>12 DEF UpdateTransferStatus
<1>13. CASE \E delta \in Adjustments : AdjustInventory(delta)
  BY <1>13 DEF AdjustInventory
<1>14. CASE UNCHANGED vars
  BY <1>14 DEF vars
<1> QED BY <1>1, <1>2, <1>3, <1>4, <1>5, <1>6, <1>7, <1>8, <1>9, <1>10, <1>11, <1>12, <1>13,
           <1>14 DEF Next

\* What a shortfall reserves, and for whom.
LEMMA ReservationMade ==
    ASSUME TypeOK, NEW owner \in Owner, OwnerExists(owner), NEW free \in Int,
           NEW q \in Int, q = Wanted(owner), Kept,
           rfqs' = Append(rfqs, NewRfq(owner, q - free))
    PROVE  LET h == NewReservation(Len(rfqs) + 1, owner, free, q)
           IN  /\ OwnerExists(owner)'
               /\ h.owner = owner
               /\ h.id \in DOMAIN rfqs'
               /\ h.id = Len(rfqs) + 1
               /\ rfqs'[h.id].owner = h.owner
               /\ rfqs'[h.id].qty = h.vendor
               /\ Wanted(owner)' = h.total
               /\ h.reserved + h.vendor = h.total
<1> DEFINE h == NewReservation(Len(rfqs) + 1, owner, free, q)
           row == NewRfq(owner, q - free)
<1>1. /\ h.owner = owner
      /\ h.id = Len(rfqs) + 1
      /\ h.reserved = free
      /\ h.vendor = q - free
      /\ h.total = q
  BY DEF NewReservation
<1>2. q - free \in Int
  OBVIOUS
<1>3. row \in Rfq /\ row.owner = owner /\ row.qty = q - free
  BY <1>2, RfqTypes
<1>4. rfqs \in Seq(Rfq) /\ Len(rfqs) \in Nat
  BY LenProperties DEF TypeOK
<1>5. OwnerExists(owner)' /\ Wanted(owner)' = q
  BY OwnerStays
<1> HIDE DEF h, row
<1>6. rfqs' = Append(rfqs, row)
  BY DEF row
<1>7. DOMAIN rfqs' = 1..(Len(rfqs) + 1) /\ rfqs'[Len(rfqs) + 1] = row
  BY <1>3, <1>4, <1>6, RowAdded
<1>8. h.id \in DOMAIN rfqs'
  BY <1>1, <1>4, <1>7
<1>9. h.reserved + h.vendor = h.total
  BY <1>1
<1>10. rfqs'[h.id] = row
  BY <1>1, <1>7
<1> QED BY <1>1, <1>3, <1>5, <1>8, <1>9, <1>10 DEF h

\* A reservation that stays is as sound as it was.
LEMMA ReservationStays ==
    ASSUME ReservationSound, Kept, NEW h \in reservations
    PROVE  /\ OwnerExists(h.owner)'
           /\ h.id \in DOMAIN rfqs'
           /\ rfqs'[h.id].owner = h.owner
           /\ rfqs'[h.id].qty = h.vendor
           /\ h.total = Wanted(h.owner)'
           /\ h.reserved + h.vendor = h.total
<1>1. /\ OwnerExists(h.owner)
      /\ h.id \in DOMAIN rfqs
      /\ rfqs[h.id].owner = h.owner
      /\ rfqs[h.id].qty = h.vendor
      /\ h.total = Wanted(h.owner)
      /\ h.reserved + h.vendor = h.total
  BY DEF ReservationSound
<1>2. OwnerExists(h.owner)' /\ Wanted(h.owner)' = Wanted(h.owner)
  BY <1>1, OwnerStays
<1> QED BY <1>1, <1>2 DEF Kept, KeptRfqs

LEMMA ReservationSoundStep ==
    ASSUME TypeOK, Linked, ReservationSound, [Next]_vars
    PROVE  ReservationSound'
<1>1. Kept
  BY StepKeeps
<1>2. inventory.available \in Int
  BY DEF TypeOK, Inventory
<1>3. ASSUME NEW owner \in Owner, OwnerExists(owner), NEW q \in Int, q = Wanted(owner),
             rfqs' = Append(rfqs, NewRfq(owner, q - inventory.available)),
             reservations' \subseteq
                reservations \cup
                   {NewReservation(Len(rfqs) + 1, owner, inventory.available, q)}
      PROVE  ReservationSound'
  <2> DEFINE new == NewReservation(Len(rfqs) + 1, owner, inventory.available, q)
  <2>1. /\ OwnerExists(owner)'
        /\ new.owner = owner
        /\ new.id \in DOMAIN rfqs'
        /\ rfqs'[new.id].owner = new.owner
        /\ rfqs'[new.id].qty = new.vendor
        /\ Wanted(owner)' = new.total
        /\ new.reserved + new.vendor = new.total
    BY <1>1, <1>2, <1>3, ReservationMade
  <2> SUFFICES ASSUME NEW h \in reservations'
               PROVE  /\ OwnerExists(h.owner)'
                      /\ h.id \in DOMAIN rfqs'
                      /\ rfqs'[h.id].owner = h.owner
                      /\ rfqs'[h.id].qty = h.vendor
                      /\ h.total = Wanted(h.owner)'
                      /\ h.reserved + h.vendor = h.total
    BY DEF ReservationSound
  <2>2. h \in reservations \/ h = new
    BY <1>3
  <2> HIDE DEF new
  <2>3. CASE h = new
    <3>1. h.owner = owner
      BY <2>1, <2>3
    <3>2. OwnerExists(h.owner)' /\ Wanted(h.owner)' = new.total
      BY <2>1, <3>1
    <3> QED BY <2>1, <2>3, <3>2
  <2>4. CASE h \in reservations
    BY <1>1, <2>4, ReservationStays
  <2> QED BY <2>2, <2>3, <2>4
<1>4. CASE NoNewReservation
  BY <1>1, <1>4, ReservationStays DEF NoNewReservation, ReservationSound
<1>5. CASE \E p \in DOMAIN requests : SplitFulfil(p)
  <2> PICK p \in DOMAIN requests : SplitFulfil(p)
    BY <1>5
  <2>1. /\ RequestOwner(p) \in Owner
        /\ OwnerExists(RequestOwner(p))
        /\ requests[p].qty \in Int
        /\ requests[p].qty = Wanted(RequestOwner(p))
    BY Owners DEF Wanted, RequestOwner
  <2>2. /\ rfqs' = Append(rfqs, NewRfq(RequestOwner(p),
                                       requests[p].qty - inventory.available))
        /\ reservations' =
              reservations \cup {NewReservation(Len(rfqs) + 1, RequestOwner(p),
                                                inventory.available, requests[p].qty)}
    BY DEF SplitFulfil
  <2> QED BY <1>3, <2>1, <2>2
<1>6. CASE \E r \in DOMAIN returns : ReplenishByRfq(r)
  <2> PICK r \in DOMAIN returns : ReplenishByRfq(r)
    BY <1>6
  <2>1. /\ ReturnOwner(r) \in Owner
        /\ OwnerExists(ReturnOwner(r))
        /\ returns[r].qty \in Int
        /\ returns[r].qty = Wanted(ReturnOwner(r))
    BY Owners DEF Wanted, ReturnOwner
  <2>2. /\ rfqs' = Append(rfqs, NewRfq(ReturnOwner(r), returns[r].qty - inventory.available))
        /\ \/ reservations' =
                 reservations \cup {NewReservation(Len(rfqs) + 1, ReturnOwner(r),
                                                   inventory.available, returns[r].qty)}
           \/ reservations' = reservations
    BY DEF ReplenishByRfq
  <2> QED BY <1>3, <2>1, <2>2
<1> QED BY <1>4, <1>5, <1>6, ReservationsStep

\* A reservation and the RFQ raised with it add up to what their owner asked for.
THEOREM ReservationsSound == Spec => []ReservationSound
<1>1. Init => ReservationSound
  BY DEF Init, ReservationSound
<1>2. TypeOK /\ Linked /\ ReservationSound /\ [Next]_vars => ReservationSound'
  BY ReservationSoundStep
<1> QED BY <1>1, <1>2, TypeCorrect, PTL DEF Spec

-----------------------------------------------------------------------------
(* Delivery *)

NoNewDelivery ==
    \A o \in DOMAIN orders' :
        orders'[o].status = "Delivered" =>
            o \in DOMAIN orders /\ orders[o].status = "Delivered"

\* An order that is given another status than Delivered, or that is new, is not
\* delivered by that.
LEMMA StatusGiven ==
    ASSUME TypeOK, NEW o \in DOMAIN orders, NEW row, row.status # "Delivered",
           orders' = [orders EXCEPT ![o] = row]
    PROVE  NoNewDelivery
BY DEF NoNewDelivery

\* Only an inspection that completes its order delivers it.
LEMMA DeliveryStep ==
    ASSUME TypeOK, Linked, [Next]_vars
    PROVE  \/ NoNewDelivery
           \/ \E a \in DOMAIN asns, acc, rej \in Nat : ReceiveAndDispatch(a, acc, rej)
<1>1. CASE orders' = orders
  BY <1>1 DEF NoNewDelivery
<1>2. CASE \E r \in DOMAIN rfqs : SelectVendor(r)
  <2> PICK r \in DOMAIN rfqs : SelectVendor(r)
    BY <1>2
  <2> DEFINE order == [rfq |-> r, qty |-> rfqs[r].qty, received |-> 0,
                       status |-> "Pending Acceptance", dispatched |-> 0]
  <2>1. r \in Nat /\ rfqs[r].qty \in Int
    BY RfqRow
  <2>2. order \in Order
    BY <2>1 DEF Order, OrderStatuses
  <2>3. orders' = Append(orders, order) /\ orders \in Seq(Order)
    BY DEF SelectVendor, TypeOK
  <2>4. order.status # "Delivered"
    OBVIOUS
  <2> HIDE DEF order
  <2>5. \A o \in DOMAIN orders' : o \in DOMAIN orders \/ orders'[o] = order
    BY <2>2, <2>3, NewRow
  <2>6. \A o \in DOMAIN orders : orders'[o] = orders[o]
    BY <2>2, <2>3, RowAdded
  <2> QED BY <2>4, <2>5, <2>6 DEF NoNewDelivery
<1>3. CASE \E o \in DOMAIN orders : AcceptOrder(o) \/ RejectOrder(o)
  <2> PICK o \in DOMAIN orders : AcceptOrder(o) \/ RejectOrder(o)
    BY <1>3
  <2>1. orders[o] \in Order
    BY OrderRow
  <2>2. PICK status \in {"Accepted", "Rejected"} :
           orders' = [orders EXCEPT ![o] = [orders[o] EXCEPT !.status = status]]
    BY DEF AcceptOrder, RejectOrder
  <2>3. [orders[o] EXCEPT !.status = status].status # "Delivered"
    BY <2>1 DEF Order
  <2> QED BY <2>2, <2>3, StatusGiven
<1>4. CASE \E o \in DOMAIN orders, n \in Shipments : CreateAsn(o, n)
  <2> PICK o \in DOMAIN orders, n \in Shipments : CreateAsn(o, n)
    BY <1>4
  <2>1. orders[o] \in Order
    BY OrderRow
  <2>2. orders' = [orders EXCEPT ![o] = [orders[o] EXCEPT !.status = "Ready to Ship"]]
    BY DEF CreateAsn
  <2>3. [orders[o] EXCEPT !.status = "Ready to Ship"].status # "Delivered"
    BY <2>1 DEF Order
  <2> QED BY <2>2, <2>3, StatusGiven
<1>5. CASE \E a \in DOMAIN asns, acc \in 0..MaxCount, rej \in 0..MaxCount :
              RecordGoodsReceipt(a, acc, rej)
  <2>1. 0..MaxCount \subseteq Nat
    BY FulfilmentAssumption
  <2>2. PICK a \in DOMAIN asns, acc \in Nat, rej \in Nat :
                ReceivePart(a, acc, rej) \/ ReceiveAndDispatch(a, acc, rej)
    BY <1>5, <2>1 DEF RecordGoodsReceipt
  <2>3. CASE ReceivePart(a, acc, rej)
    <3> DEFINE u == asns[a].po
    <3>1. u \in DOMAIN orders
      BY DEF Linked
    <3>2. orders[u] \in Order
      BY <3>1, OrderRow
    <3>3. orders' = [orders EXCEPT ![u] = [orders[u] EXCEPT !.received = @ + acc]]
      BY <2>3 DEF ReceivePart
    <3>4. [orders[u] EXCEPT !.received = @ + acc].status = orders[u].status
      BY <3>2 DEF Order
    <3> HIDE DEF u
    <3> QED BY <3>1, <3>3, <3>4 DEF NoNewDelivery
  <2> QED BY <2>2, <2>3
<1>6. CASE \E q \in Quantities : CreatePurchaseRequest(q)
  BY <1>1, <1>6 DEF CreatePurchaseRequest
<1>7. CASE \E p \in DOMAIN requests : FulfilFromStock(p) \/ SplitFulfil(p) \/ RaiseRfq(p)
  BY <1>1, <1>7, SameRows
<1>8. CASE \E t \in DOMAIN transfers, q \in Quantities, d \in {"replenish", "writeoff"} :
              RaiseIssue(t, q, d)
  BY <1>1, <1>8, SameRows
<1>9. CASE \E r \in DOMAIN returns : ResolveReturn(r)
  BY <1>1, <1>9, SameRows DEF ResolveReturn
<1>10. CASE \E r \in DOMAIN rfqs : SubmitQuotation(r) \/ SelectVendor(r)
  BY <1>1, <1>2, <1>10, SameRows
<1>11. CASE \E a \in DOMAIN asns : SubmitAsn(a)
  BY <1>1, <1>11, SameRows
<1>12. CASE \E a \in DOMAIN asns, n \in Shipments :
               UpdateAsn(a, n) \/ ResubmitAfterRejection(a, n)
  BY <1>1, <1>12, SameRows
<1>13. CASE \E t \in DOMAIN transfers : DispatchTransferOrder(t)
  BY <1>1, <1>13, SameRows
<1>14. CASE \E t \in DOMAIN transfers, s \in Statuses : UpdateTransferStatus(t, s)
  BY <1>1, <1>14, SameRows
<1>15. CASE \E delta \in Adjustments : AdjustInventory(delta)
  BY <1>1, <1>15, SameRows
<1>16. CASE UNCHANGED vars
  BY <1>1, <1>16 DEF vars
<1> QED BY <1>3, <1>4, <1>5, <1>6, <1>7, <1>8, <1>9, <1>10, <1>11, <1>12, <1>13, <1>14, <1>15,
           <1>16 DEF Next

LEMMA DeliveryReleasesStep ==
    ASSUME TypeOK, Linked, ReservationSound, DeliveryReleasesStock, [Next]_vars
    PROVE  DeliveryReleasesStock'
<1>1. KeptOrders
  BY StepKeeps DEF Kept
<1>2. \A h \in reservations, o \in DOMAIN orders :
         orders[o].rfq = h.id => orders[o].status # "Delivered"
  BY DEF DeliveryReleasesStock
<1>3. \A o \in DOMAIN orders : orders[o].rfq \in 1..Len(rfqs) /\ Len(rfqs) \in Nat
  BY LenProperties DEF TypeOK, Linked
<1> SUFFICES ASSUME NEW h \in reservations', NEW o \in DOMAIN orders', orders'[o].rfq = h.id
             PROVE  orders'[o].status # "Delivered"
  BY DEF DeliveryReleasesStock
<1>4. CASE \E a \in DOMAIN asns, acc, rej \in Nat : ReceiveAndDispatch(a, acc, rej)
  <2> PICK a \in DOMAIN asns, acc \in Nat, rej \in Nat : ReceiveAndDispatch(a, acc, rej)
    BY <1>4
  <2> DEFINE po == asns[a].po
             rfq == orders[po].rfq
  <2>1. /\ h \in reservations
        /\ h.owner # rfqs[rfq].owner
    <3>1. reservations' = reservations \ ReservationsOf(rfqs[rfq].owner)
      BY ReceiveAndDispatchEffect
    <3> QED BY <3>1 DEF ReservationsOf
  <2>2. rfqs[h.id].owner = h.owner
    BY <2>1 DEF ReservationSound
  <2>3. h.id # rfq
    BY <2>1, <2>2
  <2>4. o \in DOMAIN orders
    BY DEF ReceiveAndDispatch
  <2>5. orders'[o].rfq = orders[o].rfq
    BY <1>1, <2>4 DEF KeptOrders
  <2>6. o # po
    BY <2>3, <2>5
  <2>7. orders'[o] = orders[o]
    BY <2>4, <2>6 DEF ReceiveAndDispatch
  <2> QED BY <1>2, <2>1, <2>4, <2>5, <2>7
<1>5. CASE NoNewDelivery /\ NoNewReservation
  BY <1>1, <1>2, <1>5 DEF NoNewDelivery, NoNewReservation, KeptOrders
<1>6. ASSUME orders' = orders,
             \A g \in reservations' : g \in reservations \/ g.id = Len(rfqs) + 1
      PROVE  orders'[o].status # "Delivered"
  <2>1. h.id # Len(rfqs) + 1
    BY <1>3, <1>6
  <2> QED BY <1>2, <1>6, <2>1
<1>7. ASSUME NEW owner, NEW free, NEW q
      PROVE  NewReservation(Len(rfqs) + 1, owner, free, q).id = Len(rfqs) + 1
  BY DEF NewReservation
<1>8. CASE \E p \in DOMAIN requests : SplitFulfil(p)
  <2> PICK p \in DOMAIN requests : SplitFulfil(p)
    BY <1>8
  <2>1. /\ orders' = orders
        /\ reservations' =
              reservations \cup {NewReservation(Len(rfqs) + 1, RequestOwner(p),
                                                inventory.available, requests[p].qty)}
    BY DEF SplitFulfil
  <2> QED BY <1>6, <1>7, <2>1
<1>9. CASE \E r \in DOMAIN returns : ReplenishByRfq(r)
  <2> PICK r \in DOMAIN returns : ReplenishByRfq(r)
    BY <1>9
  <2>1. /\ orders' = orders
        /\ \/ reservations' =
                 reservations \cup {NewReservation(Len(rfqs) + 1, ReturnOwner(r),
                                                   inventory.available, returns[r].qty)}
           \/ reservations' = reservations
    BY DEF ReplenishByRfq
  <2> QED BY <1>6, <1>7, <2>1
<1> QED BY <1>4, <1>5, <1>8, <1>9, DeliveryStep, ReservationsStep

\* Once an order for an RFQ is delivered nothing stays held back for that RFQ,
\* whatever else was fulfilled, resolved or ordered for its owner.
THEOREM DeliveryReleases == Spec => []DeliveryReleasesStock
<1>1. Init => DeliveryReleasesStock
  BY DEF Init, DeliveryReleasesStock
<1>2. TypeOK /\ Linked /\ ReservationSound /\ DeliveryReleasesStock /\ [Next]_vars
         => DeliveryReleasesStock'
  BY DeliveryReleasesStep
<1> QED BY <1>1, <1>2, TypeCorrect, ReservationsSound, PTL DEF Spec

-----------------------------------------------------------------------------
(* Shipment notices *)

Noticed == {"Ready to Ship", "Delivered"}

NoticedStays ==
    \A o \in DOMAIN orders : orders[o].status \in Noticed => orders'[o].status \in Noticed

\* A step that gives one order a status leaves the orders with a notice theirs.
LEMMA NoticedGiven ==
    ASSUME TypeOK, NEW o \in DOMAIN orders, NEW row,
           orders[o].status \in Noticed => row.status \in Noticed,
           orders' = [orders EXCEPT ![o] = row]
    PROVE  NoticedStays
BY DEF NoticedStays

LEMMA NoticedStep ==
    ASSUME TypeOK, Linked, [Next]_vars
    PROVE  NoticedStays
<1>1. CASE orders' = orders
  BY <1>1 DEF NoticedStays
<1>2. CASE \E r \in DOMAIN rfqs : SelectVendor(r)
  <2> PICK r \in DOMAIN rfqs : SelectVendor(r)
    BY <1>2
  <2> DEFINE order == [rfq |-> r, qty |-> rfqs[r].qty, received |-> 0,
                       status |-> "Pending Acceptance", dispatched |-> 0]
  <2>1. r \in Nat /\ rfqs[r].qty \in Int
    BY RfqRow
  <2>2. order \in Order
    BY <2>1 DEF Order, OrderStatuses
  <2>3. orders' = Append(orders, order) /\ orders \in Seq(Order)
    BY DEF SelectVendor, TypeOK
  <2> HIDE DEF order
  <2>4. \A o \in DOMAIN orders : orders'[o] = orders[o]
    BY <2>2, <2>3, RowAdded
  <2> QED BY <2>4 DEF NoticedStays
<1>3. CASE \E o \in DOMAIN orders : AcceptOrder(o) \/ RejectOrder(o)
  <2> PICK o \in DOMAIN orders : AcceptOrder(o) \/ RejectOrder(o)
    BY <1>3
  <2>1. orders[o].status \notin Noticed
    BY DEF AcceptOrder, RejectOrder, Noticed
  <2>2. PICK row : orders' = [orders EXCEPT ![o] = row]
    BY DEF AcceptOrder, RejectOrder
  <2> QED BY <2>1, <2>2, NoticedGiven
<1>4. CASE \E o \in DOMAIN orders, n \in Shipments : CreateAsn(o, n)
  <2> PICK o \in DOMAIN orders, n \in Shipments : CreateAsn(o, n)
    BY <1>4
  <2>1. orders[o] \in Order
    BY OrderRow
  <2>2. orders' = [orders EXCEPT ![o] = [orders[o] EXCEPT !.status = "Ready to Ship"]]
    BY DEF CreateAsn
  <2>3. [orders[o] EXCEPT !.status = "Ready to Ship"].status \in Noticed
    BY <2>1 DEF Order, Noticed
  <2> QED BY <2>2, <2>3, NoticedGiven
<1>5. CASE \E a \in DOMAIN asns, acc \in 0..MaxCount, rej \in 0..MaxCount :
              RecordGoodsReceipt(a, acc, rej)
  <2>1. 0..MaxCount \subseteq Nat
    BY FulfilmentAssumption
  <2>2. PICK a \in DOMAIN asns, acc \in Nat, rej \in Nat :
                ReceivePart(a, acc, rej) \/ ReceiveAndDispatch(a, acc, rej)
    BY <1>5, <2>1 DEF RecordGoodsReceipt
  <2> DEFINE u == asns[a].po
  <2>3. u \in DOMAIN orders
    BY DEF Linked
  <2>4. orders[u] \in Order
    BY <2>3, OrderRow
  <2>5. CASE ReceivePart(a, acc, rej)
    <3>1. orders' = [orders EXCEPT ![u] = [orders[u] EXCEPT !.received = @ + acc]]
      BY <2>5 DEF ReceivePart
    <3>2. [orders[u] EXCEPT !.received = @ + acc].status = orders[u].status
      BY <2>4 DEF Order
    <3> HIDE DEF u
    <3> QED BY <2>3, <3>1, <3>2, NoticedGiven
  <2>6. CASE ReceiveAndDispatch(a, acc, rej)
    <3> DEFINE row == [orders[u] EXCEPT !.received = orders[u].received + acc,
                                        !.status = "Delivered", !.dispatched = @ + 1]
    <3>1. orders' = [orders EXCEPT ![u] = row]
      BY <2>6 DEF ReceiveAndDispatch
    <3>2. row.status \in Noticed
      BY <2>4 DEF Order, Noticed
    <3> HIDE DEF u, row
    <3> QED BY <2>3, <3>1, <3>2, NoticedGiven
  <2> QED BY <2>2, <2>5, <2>6
<1>6. CASE \E q \in Quantities : CreatePurchaseRequest(q)
  BY <1>1, <1>6 DEF CreatePurchaseRequest
<1>7. CASE \E p \in DOMAIN requests : FulfilFromStock(p) \/ SplitFulfil(p) \/ RaiseRfq(p)
  BY <1>1, <1>7, SameRows
<1>8. CASE \E t \in DOMAIN transfers, q \in Quantities, d \in {"replenish", "writeoff"} :
              RaiseIssue(t, q, d)
  BY <1>1, <1>8, SameRows
<1>9. CASE \E r \in DOMAIN returns : ResolveReturn(r)
  BY <1>1, <1>9, SameRows DEF ResolveReturn
<1>10. CASE \E r \in DOMAIN rfqs : SubmitQuotation(r) \/ SelectVendor(r)
  BY <1>1, <1>2, <1>10, SameRows
<1>11. CASE \E a \in DOMAIN asns : SubmitAsn(a)
  BY <1>1, <1>11, SameRows
<1>12. CASE \E a \in DOMAIN asns, n \in Shipments :
               UpdateAsn(a, n) \/ ResubmitAfterRejection(a, n)
  BY <1>1, <1>12, SameRows
<1>13. CASE \E t \in DOMAIN transfers : DispatchTransferOrder(t)
  BY <1>1, <1>13, SameRows
<1>14. CASE \E t \in DOMAIN transfers, s \in Statuses : UpdateTransferStatus(t, s)
  BY <1>1, <1>14, SameRows
<1>15. CASE \E delta \in Adjustments : AdjustInventory(delta)
  BY <1>1, <1>15, SameRows
<1>16. CASE UNCHANGED vars
  BY <1>1, <1>16 DEF vars
<1> QED BY <1>3, <1>4, <1>5, <1>6, <1>7, <1>8, <1>9, <1>10, <1>11, <1>12, <1>13, <1>14, <1>15,
           <1>16 DEF Next

\* Only filing a notice adds one.
LEMMA NoticesStep ==
    ASSUME [Next]_vars
    PROVE  \/ DOMAIN asns' = DOMAIN asns
           \/ \E o \in DOMAIN orders, n \in Shipments : CreateAsn(o, n)
<1>1. CASE asns' = asns
  BY <1>1
<1>2. CASE \E q \in Quantities : CreatePurchaseRequest(q)
  BY <1>1, <1>2, SameRows
<1>3. CASE \E p \in DOMAIN requests : FulfilFromStock(p) \/ SplitFulfil(p) \/ RaiseRfq(p)
  BY <1>1, <1>3, SameRows
<1>4. CASE \E t \in DOMAIN transfers, q \in Quantities, d \in {"replenish", "writeoff"} :
              RaiseIssue(t, q, d)
  BY <1>1, <1>4, SameRows
<1>5. CASE \E r \in DOMAIN returns : ResolveReturn(r)
  BY <1>1, <1>5, SameRows DEF ResolveReturn
<1>6. CASE \E r \in DOMAIN rfqs : SubmitQuotation(r) \/ SelectVendor(r)
  BY <1>1, <1>6, SameRows
<1>7. CASE \E o \in DOMAIN orders : AcceptOrder(o) \/ RejectOrder(o)
  BY <1>1, <1>7, SameRows
<1>8. CASE \E a \in DOMAIN asns : SubmitAsn(a)
  BY <1>8, SameRows
<1>9. CASE \E a \in DOMAIN asns, n \in Shipments : UpdateAsn(a, n) \/ ResubmitAfterRejection(a, n)
  BY <1>9, SameRows
<1>10. CASE \E a \in DOMAIN asns, acc \in 0..MaxCount, rej \in 0..MaxCount :
               RecordGoodsReceipt(a, acc, rej)
  BY <1>10, SameRows DEF RecordGoodsReceipt
<1>11. CASE \E t \in DOMAIN transfers : DispatchTransferOrder(t)
  BY <1>1, <1>11, SameRows
<1>12. CASE \E t \in DOMAIN transfers, s \in Statuses : UpdateTransferStatus(t, s)
  BY <1>1, <1>12, SameRows
<1>13. CASE \E delta \in Adjustments : AdjustInventory(delta)
  BY <1>1, <1>13, SameRows
<1>14. CASE UNCHANGED vars
  BY <1>1, <1>14 DEF vars
<1> QED BY <1>2, <1>3, <1>4, <1>5, <1>6, <1>7, <1>8, <1>9, <1>10, <1>11, <1>12, <1>13, <1>14
        DEF Next

LEMMA NoticeSoundStep ==
    ASSUME TypeOK, Linked, NoticeSound, [Next]_vars
    PROVE  NoticeSound'
<1>1. KeptOrders /\ KeptAsns /\ NoticedStays
  BY StepKeeps, NoticedStep DEF Kept
<1>2. \A a \in DOMAIN asns : asns[a].po \in DOMAIN orders /\ orders[asns[a].po].status \in Noticed
  BY DEF NoticeSound, Noticed
<1>3. \A a, b \in DOMAIN asns : asns[a].po = asns[b].po => a = b
  BY DEF NoticeSound
<1>4. \A a \in DOMAIN asns : /\ a \in DOMAIN asns'
                             /\ asns'[a].po = asns[a].po
                             /\ asns'[a].po \in DOMAIN orders'
                             /\ orders'[asns'[a].po].status \in Noticed
  BY <1>1, <1>2 DEF KeptOrders, KeptAsns, NoticedStays
<1>5. CASE DOMAIN asns' = DOMAIN asns
  BY <1>3, <1>4, <1>5 DEF NoticeSound, Noticed
<1>6. CASE \E o \in DOMAIN orders, n \in Shipments : CreateAsn(o, n)
  <2> PICK o \in DOMAIN orders, n \in Shipments : CreateAsn(o, n)
    BY <1>6
  <2> DEFINE asn == [po |-> o, shipped |-> n, submitted |-> FALSE, receipt |-> NoReceipt]
  <2>1. o \in Nat /\ n \in Nat /\ NoReceipt \in GoodsReceipt
    BY OrderRow, ConstantTypes, ReceiptTypes
  <2>2. asn \in Asn
    BY <2>1 DEF Asn
  <2>3. asns' = Append(asns, asn) /\ asns \in Seq(Asn) /\ Len(asns) \in Nat
    BY LenProperties DEF CreateAsn, TypeOK
  <2>4. asn.po = o
    OBVIOUS
  <2>5. \A a \in DOMAIN asns : asns[a].po # o
    BY DEF CreateAsn, CanCreateAsn
  <2>6. o \in DOMAIN orders' /\ orders'[o].status \in Noticed
    <3>1. orders[o] \in Order
      BY OrderRow
    <3>2. orders'[o] = [orders[o] EXCEPT !.status = "Ready to Ship"]
      BY DEF CreateAsn
    <3>3. [orders[o] EXCEPT !.status = "Ready to Ship"].status \in Noticed
      BY <3>1 DEF Order, Noticed
    <3> QED BY <1>1, <3>2, <3>3 DEF KeptOrders
  <2> HIDE DEF asn
  <2>7. DOMAIN asns = 1..Len(asns) /\ DOMAIN asns' = 1..(Len(asns) + 1)
    BY <2>2, <2>3, RowAdded, LenProperties
  <2>8. asns'[Len(asns) + 1] = asn
    BY <2>2, <2>3, RowAdded
  <2>9. \A a \in DOMAIN asns' : a \in DOMAIN asns \/ a = Len(asns) + 1
    BY <2>3, <2>7
  <2>10. \A a \in DOMAIN asns' : /\ asns'[a].po \in DOMAIN orders'
                                 /\ orders'[asns'[a].po].status \in Noticed
    BY <1>4, <2>4, <2>6, <2>8, <2>9
  <2>11. \A a, b \in DOMAIN asns' : asns'[a].po = asns'[b].po => a = b
    BY <1>3, <1>4, <2>4, <2>5, <2>8, <2>9
  <2> QED BY <2>10, <2>11 DEF NoticeSound, Noticed
<1> QED BY <1>5, <1>6, NoticesStep

\* An order has one shipment notice at most, filed after its vendor accepted it.
THEOREM NoticesSound == Spec => []NoticeSound
<1>1. Init => NoticeSound
  BY DEF Init, NoticeSound
<1>2. TypeOK /\ Linked /\ NoticeSound /\ [Next]_vars => NoticeSound'
  BY NoticeSoundStep
<1> QED BY <1>1, <1>2, TypeCorrect, PTL DEF Spec

-----------------------------------------------------------------------------
(* The three ways to serve an owner *)

\* Nothing was done for the owner yet.
Waiting(owner) ==
    IF owner.kind = "request" THEN requests[owner.id].type = "none"
    ELSE returns[owner.id].status = "pending"

MayServe(owner) ==
    IF owner.kind = "request" THEN MayFulfil(owner.id) ELSE MayResolve(owner.id)

\* From stock: a transfer order for all the owner wants.
Sent(owner) ==
    /\ owner \in Owner /\ OwnerExists(owner)
    /\ MayServe(owner)
    /\ ~Waiting(owner)'
    /\ \E source \in {"Warehouse Stock", "Return Replenishment"} :
          transfers' = Append(transfers, NewTransfer(owner, Wanted(owner), source))
    /\ UNCHANGED <<reservations, rfqs, orders, asns>>

\* By a vendor: an RFQ for all the owner wants, or for what remains after a
\* reservation.
Forwarded(owner) ==
    /\ owner \in Owner /\ OwnerExists(owner)
    /\ MayServe(owner)
    /\ ~Waiting(owner)'
    /\ \E q \in Int :
          /\ rfqs' = Append(rfqs, NewRfq(owner, q))
          /\ \/ /\ reservations' = reservations
                /\ \/ q = Wanted(owner)
                   \/ inventory.available <= 0 /\ q = Wanted(owner) - inventory.available
             \/ \E h \in reservations' :
                   h.id = Len(rfqs) + 1 /\ reservations' = reservations \cup {h}
    /\ UNCHANGED <<orders, asns, transfers>>

LEMMA RequestServed ==
    ASSUME TypeOK, NEW p \in DOMAIN requests
    PROVE  /\ FulfilFromStock(p) => Sent(RequestOwner(p))
           /\ SplitFulfil(p) \/ RaiseRfq(p) => Forwarded(RequestOwner(p))
<1> DEFINE owner == RequestOwner(p)
<1>1. /\ owner \in Owner /\ OwnerExists(owner)
      /\ owner.kind = "request" /\ owner.id = p
      /\ requests[p].qty \in Int /\ inventory.available \in Int
  BY Owners, OwnerTypes DEF TypeOK, Inventory
<1>2. /\ Wanted(owner) = requests[p].qty
      /\ MayServe(owner) = MayFulfil(p)
      /\ Waiting(owner)' = (requests'[p].type = "none")
  BY <1>1 DEF Wanted, MayServe, Waiting
<1>3. requests[p] \in Request
  BY RequestRow
<1>4. ASSUME FulfilFromStock(p) PROVE Sent(owner)
  <2>1. requests'[p].type = "stock"
    BY <1>3, <1>4 DEF FulfilFromStock, Request
  <2>2. transfers' = Append(transfers, NewTransfer(owner, Wanted(owner), "Warehouse Stock"))
    BY <1>2, <1>4 DEF FulfilFromStock
  <2> QED BY <1>1, <1>2, <1>4, <2>1, <2>2 DEF Sent, FulfilFromStock
<1>5. ASSUME SplitFulfil(p) PROVE Forwarded(owner)
  <2> DEFINE h == NewReservation(Len(rfqs) + 1, owner, inventory.available, requests[p].qty)
  <2>1. requests'[p].type = "split"
    BY <1>3, <1>5 DEF SplitFulfil, MarkSplit, Request
  <2>2. /\ rfqs' = Append(rfqs, NewRfq(owner, requests[p].qty - inventory.available))
        /\ reservations' = reservations \cup {h}
        /\ MayFulfil(p)
        /\ UNCHANGED <<orders, asns, transfers>>
    BY <1>5 DEF SplitFulfil
  <2>3. h.id = Len(rfqs) + 1
    BY DEF NewReservation
  <2>4. requests[p].qty - inventory.available \in Int
    BY <1>1
  <2> HIDE DEF h, owner
  <2> QED BY <1>1, <1>2, <2>1, <2>2, <2>3, <2>4 DEF Forwarded
<1>6. ASSUME RaiseRfq(p) PROVE Forwarded(owner)
  <2>1. requests'[p].type = "rfq"
    BY <1>3, <1>6 DEF RaiseRfq, Request
  <2>2. rfqs' = Append(rfqs, NewRfq(owner, Wanted(owner))) /\ Wanted(owner) \in Int
    BY <1>1, <1>2, <1>6 DEF RaiseRfq
  <2>3. reservations' = reservations /\ UNCHANGED <<orders, asns, transfers>> /\ MayFulfil(p)
    BY <1>6 DEF RaiseRfq
  <2> HIDE DEF owner
  <2> QED BY <1>1, <1>2, <2>1, <2>2, <2>3 DEF Forwarded
<1> QED BY <1>4, <1>5, <1>6

LEMMA ReturnServed ==
    ASSUME TypeOK, NEW r \in DOMAIN returns
    PROVE  /\ ReplenishFromStock(r) => Sent(ReturnOwner(r))
           /\ ReplenishByRfq(r) => Forwarded(ReturnOwner(r))
<1> DEFINE owner == ReturnOwner(r)
<1>1. /\ owner \in Owner /\ OwnerExists(owner)
      /\ owner.kind = "return" /\ owner.id = r
      /\ returns[r].qty \in Int /\ inventory.available \in Int
  BY Owners, OwnerTypes DEF TypeOK, Inventory
<1>2. /\ Wanted(owner) = returns[r].qty
      /\ MayServe(owner) = MayResolve(r)
      /\ Waiting(owner)' = (returns'[r].status = "pending")
  BY <1>1 DEF Wanted, MayServe, Waiting
<1>3. returns[r] \in Return
  BY ReturnRow
<1>4. ASSUME ReplenishFromStock(r) PROVE Sent(owner)
  <2>1. returns'[r].status = "replenished"
    BY <1>3, <1>4 DEF ReplenishFromStock, Replenished, Return
  <2>2. transfers' = Append(transfers, NewTransfer(owner, Wanted(owner), "Return Replenishment"))
    BY <1>2, <1>4 DEF ReplenishFromStock
  <2> QED BY <1>1, <1>2, <1>4, <2>1, <2>2 DEF Sent, ReplenishFromStock
<1>5. ASSUME ReplenishByRfq(r) PROVE Forwarded(owner)
  <2> DEFINE h == NewReservation(Len(rfqs) + 1, owner, inventory.available, returns[r].qty)
  <2>1. returns'[r].status = "replenished"
    BY <1>3, <1>5 DEF ReplenishByRfq, Replenished, Return
  <2>2. /\ rfqs' = Append(rfqs, NewRfq(owner, returns[r].qty - inventory.available))
        /\ \/ reservations' = reservations \cup {h}
           \/ inventory.available <= 0 /\ reservations' = reservations
        /\ MayResolve(r)
        /\ UNCHANGED <<orders, asns, transfers>>
    BY <1>1, <1>5 DEF ReplenishByRfq
  <2>3. h.id = Len(rfqs) + 1
    BY DEF NewReservation
  <2>4. returns[r].qty - inventory.available \in Int
    BY <1>1
  <2> HIDE DEF h, owner
  <2> QED BY <1>1, <1>2, <2>1, <2>2, <2>3, <2>4 DEF Forwarded
<1> QED BY <1>4, <1>5

\* A step that serves nobody adds no RFQ and no transfer order.
Quiet ==
    /\ DOMAIN rfqs' = DOMAIN rfqs
    /\ DOMAIN transfers' = DOMAIN transfers
    /\ reservations' = reservations

LEMMA SameReservations ==
    /\ \A q : CreatePurchaseRequest(q) => reservations' = reservations
    /\ \A t, q, d : RaiseIssue(t, q, d) => reservations' = reservations
    /\ \A r : WriteOffReturn(r) => reservations' = reservations
    /\ \A r : SubmitQuotation(r) \/ SelectVendor(r) => reservations' = reservations
    /\ \A o : AcceptOrder(o) \/ RejectOrder(o) => reservations' = reservations
    /\ \A o, n : CreateAsn(o, n) => reservations' = reservations
    /\ \A a, n : SubmitAsn(a) \/ UpdateAsn(a, n) \/ ResubmitAfterRejection(a, n)
                    => reservations' = reservations
    /\ \A a, acc, rej : ReceivePart(a, acc, rej) => reservations' = reservations
    /\ \A t, s : DispatchTransferOrder(t) \/ UpdateTransferStatus(t, s)
                    => reservations' = reservations
    /\ \A delta : AdjustInventory(delta) => reservations' = reservations
<1>1. /\ \A q : CreatePurchaseRequest(q) => reservations' = reservations
      /\ \A t, q, d : RaiseIssue(t, q, d) => reservations' = reservations
      /\ \A r : WriteOffReturn(r) => reservations' = reservations
  BY DEF CreatePurchaseRequest, RaiseIssue, WriteOffReturn
<1>2. /\ \A r : SubmitQuotation(r) \/ SelectVendor(r) => reservations' = reservations
      /\ \A o : AcceptOrder(o) \/ RejectOrder(o) => reservations' = reservations
      /\ \A o, n : CreateAsn(o, n) => reservations' = reservations
  BY DEF SubmitQuotation, SelectVendor, AcceptOrder, RejectOrder, CreateAsn
<1>3. /\ \A a, n : SubmitAsn(a) \/ UpdateAsn(a, n) \/ ResubmitAfterRejection(a, n)
                      => reservations' = reservations
      /\ \A a, acc, rej : ReceivePart(a, acc, rej) => reservations' = reservations
  BY DEF SubmitAsn, UpdateAsn, ResubmitAfterRejection, ReceivePart
<1>4. /\ \A t, s : DispatchTransferOrder(t) \/ UpdateTransferStatus(t, s)
                      => reservations' = reservations
      /\ \A delta : AdjustInventory(delta) => reservations' = reservations
  BY DEF DispatchTransferOrder, UpdateTransferStatus, AdjustInventory
<1> QED BY <1>1, <1>2, <1>3, <1>4

LEMMA StepServes ==
    ASSUME TypeOK, [Next]_vars
    PROVE  \/ Quiet
           \/ \E owner \in Owner : Sent(owner) \/ Forwarded(owner)
           \/ \E a \in DOMAIN asns, acc, rej \in Nat :
                 Counted(a, acc, rej) /\ ReceiveAndDispatch(a, acc, rej)
<1>1. CASE \E p \in DOMAIN requests : FulfilFromStock(p) \/ SplitFulfil(p) \/ RaiseRfq(p)
  BY <1>1, RequestServed, Owners
<1>2. CASE \E r \in DOMAIN returns : ResolveReturn(r)
  <2> PICK r \in DOMAIN returns : WriteOffReturn(r) \/ ReplenishFromStock(r) \/ ReplenishByRfq(r)
    BY <1>2 DEF ResolveReturn
  <2>1. CASE WriteOffReturn(r)
    BY <2>1, SameRows, SameReservations DEF Quiet
  <2> QED BY <2>1, ReturnServed, Owners
<1>3. CASE \E a \in DOMAIN asns, acc \in 0..MaxCount, rej \in 0..MaxCount :
              RecordGoodsReceipt(a, acc, rej)
  <2>1. 0..MaxCount \subseteq Nat
    BY FulfilmentAssumption
  <2>2. PICK a \in DOMAIN asns, acc \in Nat, rej \in Nat :
                /\ Counted(a, acc, rej)
                /\ ReceivePart(a, acc, rej) \/ ReceiveAndDispatch(a, acc, rej)
    BY <1>3, <2>1 DEF RecordGoodsReceipt
  <2>3. CASE ReceivePart(a, acc, rej)
    BY <2>3, SameRows, SameReservations DEF Quiet
  <2> QED BY <2>2, <2>3
<1> USE DEF Quiet
<1>4. CASE \E q \in Quantities : CreatePurchaseRequest(q)
  BY <1>4, SameRows, SameReservations
<1>5. CASE \E t \in DOMAIN transfers, q \in Quantities, d \in {"replenish", "writeoff"} :
              RaiseIssue(t, q, d)
  BY <1>5, SameRows, SameReservations
<1>6. CASE \E r \in DOMAIN rfqs : SubmitQuotation(r) \/ SelectVendor(r)
  BY <1>6, SameRows, SameReservations
<1>7. CASE \E o \in DOMAIN orders : AcceptOrder(o) \/ RejectOrder(o)
  BY <1>7, SameRows, SameReservations
<1>8. CASE \E o \in DOMAIN orders, n \in Shipments : CreateAsn(o, n)
  BY <1>8, SameRows, SameReservations
<1>9. CASE \E a \in DOMAIN asns : SubmitAsn(a)
  BY <1>9, SameRows, SameReservations
<1>10. CASE \E a \in DOMAIN asns, n \in Shipments :
               UpdateAsn(a, n) \/ ResubmitAfterRejection(a, n)
  BY <1>10, SameRows, SameReservations
<1>11. CASE \E t \in DOMAIN transfers : DispatchTransferOrder(t)
  BY <1>11, SameRows, SameReservations
<1>12. CASE \E t \in DOMAIN transfers, s \in Statuses : UpdateTransferStatus(t, s)
  BY <1>12, SameRows, SameReservations
<1>13. CASE \E delta \in Adjustments : AdjustInventory(delta)
  BY <1>13, SameRows, SameReservations
<1>14. CASE UNCHANGED vars
  BY <1>14 DEF vars
<1> QED BY <1>1, <1>2, <1>3, <1>4, <1>5, <1>6, <1>7, <1>8, <1>9, <1>10, <1>11, <1>12, <1>13,
           <1>14 DEF Next

-----------------------------------------------------------------------------
(* What a step writes into the row of an owner *)

MadeTransfer(owner) ==
    /\ Len(transfers) + 1 \in DOMAIN transfers'
    /\ transfers'[Len(transfers) + 1].owner = owner
MadeRfq(owner) ==
    /\ Len(rfqs) + 1 \in DOMAIN rfqs'
    /\ rfqs'[Len(rfqs) + 1].owner = owner

LEMMA LastRow ==
    ASSUME NEW S, NEW table \in Seq(S), NEW row \in S
    PROVE  /\ Len(table) + 1 \in DOMAIN Append(table, row)
           /\ Append(table, row)[Len(table) + 1] = row
<1>1. Len(table) \in Nat
  BY LenProperties
<1>2. Len(table) + 1 \in 1..(Len(table) + 1)
  BY <1>1
<1> QED BY <1>2, RowAdded

LEMMA TransferMade ==
    ASSUME TypeOK, NEW owner \in Owner, NEW q \in Int,
           NEW source \in {"Warehouse Stock", "Vendor Procurement", "Return Replenishment",
                           "Combined Stock + Vendor"},
           transfers' = Append(transfers, NewTransfer(owner, q, source))
    PROVE  MadeTransfer(owner)
<1>1. NewTransfer(owner, q, source) \in Transfer /\ NewTransfer(owner, q, source).owner = owner
  BY TransferTypes
<1>2. transfers \in Seq(Transfer)
  BY DEF TypeOK
<1> QED BY <1>1, <1>2, LastRow DEF MadeTransfer

LEMMA RfqMade ==
    ASSUME TypeOK, NEW owner \in Owner, NEW q \in Int,
           rfqs' = Append(rfqs, NewRfq(owner, q))
    PROVE  MadeRfq(owner)
<1>1. NewRfq(owner, q) \in Rfq /\ NewRfq(owner, q).owner = owner
  BY RfqTypes
<1>2. rfqs \in Seq(Rfq)
  BY DEF TypeOK
<1> QED BY <1>1, <1>2, LastRow DEF MadeRfq

RequestMarked(p) ==
    \/ requests'[p] = requests[p]
    \/ /\ requests'[p].type = "stock"
       /\ requests'[p].ref = TransferRef(Len(transfers) + 1)
       /\ MadeTransfer(RequestOwner(p))
    \/ /\ requests'[p].type \in {"rfq", "split"}
       /\ requests'[p].ref = RfqRef(Len(rfqs) + 1)
       /\ MadeRfq(RequestOwner(p))

RequestsMarked ==
    \A p \in DOMAIN requests' :
        IF p \in DOMAIN requests THEN RequestMarked(p)
        ELSE requests'[p].type = "none" /\ requests'[p].ref = NoRef

\* A return that is on its way from a vendor was resolved already.
Resolved(r) ==
    \/ returns'[r].status # "pending"
    \/ /\ returns'[r].status = returns[r].status
       /\ \E i \in DOMAIN rfqs : rfqs[i].owner = ReturnOwner(r)

ReturnMarked(r) ==
    \/ returns'[r] = returns[r]
    \/ /\ returns'[r].status # "pending"
       /\ returns'[r].transfer = returns[r].transfer
       /\ returns'[r].rfq = returns[r].rfq
    \/ /\ Resolved(r)
       /\ returns'[r].transfer = Len(transfers) + 1
       /\ returns'[r].rfq = returns[r].rfq
       /\ MadeTransfer(ReturnOwner(r))
    \/ /\ returns'[r].status # "pending"
       /\ returns'[r].rfq = Len(rfqs) + 1
       /\ returns'[r].transfer = returns[r].transfer
       /\ MadeRfq(ReturnOwner(r))

ReturnsMarked ==
    \A r \in DOMAIN returns' :
        IF r \in DOMAIN returns THEN ReturnMarked(r)
        ELSE returns'[r].status = "pending" /\ returns'[r].transfer = 0 /\ returns'[r].rfq = 0

LEMMA NothingMarked ==
    /\ requests' = requests => RequestsMarked
    /\ returns' = returns => ReturnsMarked
BY DEF RequestsMarked, RequestMarked, ReturnsMarked, ReturnMarked

\* One row rewritten.
LEMMA RequestRewritten ==
    ASSUME NEW p \in DOMAIN requests, NEW row, requests' = [requests EXCEPT ![p] = row],
           RequestMarked(p)
    PROVE  RequestsMarked
BY DEF RequestsMarked, RequestMarked

LEMMA ReturnRewritten ==
    ASSUME NEW r \in DOMAIN returns, NEW row, returns' = [returns EXCEPT ![r] = row],
           ReturnMarked(r)
    PROVE  ReturnsMarked
BY DEF ReturnsMarked, ReturnMarked

LEMMA RequestsMarkedBy ==
    ASSUME TypeOK
    PROVE  /\ \A q \in Quantities : CreatePurchaseRequest(q) => RequestsMarked
           /\ \A p \in DOMAIN requests :
                 FulfilFromStock(p) \/ SplitFulfil(p) \/ RaiseRfq(p) => RequestsMarked
<1>1. ASSUME NEW q \in Quantities, CreatePurchaseRequest(q)
      PROVE  RequestsMarked
  <2> DEFINE row == [qty |-> q, type |-> "none", ref |-> NoRef]
  <2>1. row \in Request /\ row.type = "none" /\ row.ref = NoRef
    BY DEF Request, NoRef, Ref
  <2>2. requests' = Append(requests, row) /\ requests \in Seq(Request)
    BY <1>1 DEF CreatePurchaseRequest, TypeOK
  <2> HIDE DEF row
  <2>3. \A p \in DOMAIN requests' : p \in DOMAIN requests \/ requests'[p] = row
    BY <2>1, <2>2, NewRow
  <2>4. \A p \in DOMAIN requests : requests'[p] = requests[p]
    BY <2>1, <2>2, RowAdded
  <2> QED BY <2>1, <2>3, <2>4 DEF RequestsMarked, RequestMarked
<1>2. ASSUME NEW p \in DOMAIN requests,
             FulfilFromStock(p) \/ SplitFulfil(p) \/ RaiseRfq(p)
      PROVE  RequestsMarked
  <2>1. requests[p] \in Request /\ requests[p].qty \in Int /\ inventory.available \in Int
    BY RequestRow DEF TypeOK, Inventory
  <2>2. RequestOwner(p) \in Owner
    BY Owners
  <2>3. CASE FulfilFromStock(p)
    <3> DEFINE row == [requests[p] EXCEPT !.type = "stock", !.ref = TransferRef(Len(transfers) + 1)]
    <3>1. requests' = [requests EXCEPT ![p] = row]
      BY <2>3 DEF FulfilFromStock
    <3>2. row.type = "stock" /\ row.ref = TransferRef(Len(transfers) + 1)
      BY <2>1 DEF Request
    <3>3. MadeTransfer(RequestOwner(p))
      BY <2>1, <2>2, <2>3, TransferMade DEF FulfilFromStock
    <3> HIDE DEF row
    <3> QED BY <3>1, <3>2, <3>3, RequestRewritten DEF RequestMarked
  <2>4. CASE SplitFulfil(p)
    <3> DEFINE row == [requests[p] EXCEPT !.type = "split", !.ref = RfqRef(Len(rfqs) + 1)]
    <3>1. requests' = [requests EXCEPT ![p] = row]
      BY <2>4 DEF SplitFulfil, MarkSplit
    <3>2. row.type = "split" /\ row.ref = RfqRef(Len(rfqs) + 1)
      BY <2>1 DEF Request
    <3>3. rfqs' = Append(rfqs, NewRfq(RequestOwner(p), requests[p].qty - inventory.available))
      BY <2>4 DEF SplitFulfil
    <3>4. requests[p].qty - inventory.available \in Int
      BY <2>1
    <3>5. MadeRfq(RequestOwner(p))
      BY <2>2, <3>3, <3>4, RfqMade
    <3> HIDE DEF row
    <3> QED BY <3>1, <3>2, <3>5, RequestRewritten DEF RequestMarked
  <2>5. CASE RaiseRfq(p)
    <3> DEFINE row == [requests[p] EXCEPT !.type = "rfq", !.ref = RfqRef(Len(rfqs) + 1)]
    <3>1. requests' = [requests EXCEPT ![p] = row]
      BY <2>5 DEF RaiseRfq
    <3>2. row.type = "rfq" /\ row.ref = RfqRef(Len(rfqs) + 1)
      BY <2>1 DEF Request
    <3>3. MadeRfq(RequestOwner(p))
      BY <2>1, <2>2, <2>5, RfqMade DEF RaiseRfq
    <3> HIDE DEF row
    <3> QED BY <3>1, <3>2, <3>3, RequestRewritten DEF RequestMarked
  <2> QED BY <1>2, <2>3, <2>4, <2>5
<1> QED BY <1>1, <1>2

LEMMA ReturnsMarkedBy ==
    ASSUME TypeOK, Linked
    PROVE  /\ \A t \in DOMAIN transfers, q \in Quantities, d \in {"replenish", "writeoff"} :
                 RaiseIssue(t, q, d) => ReturnsMarked
           /\ \A r \in DOMAIN returns : ResolveReturn(r) => ReturnsMarked
           /\ \A t \in DOMAIN transfers : DispatchTransferOrder(t) => ReturnsMarked
<1>1. ASSUME NEW t \in DOMAIN transfers, NEW q \in Quantities,
             NEW d \in {"replenish", "writeoff"}, RaiseIssue(t, q, d)
      PROVE  ReturnsMarked
  <2> DEFINE row == [qty |-> q, decision |-> d, status |-> "pending", transfer |-> 0, rfq |-> 0]
  <2>1. row \in Return /\ row.status = "pending" /\ row.transfer = 0 /\ row.rfq = 0
    BY DEF Return
  <2>2. returns' = Append(returns, row) /\ returns \in Seq(Return)
    BY <1>1 DEF RaiseIssue, TypeOK
  <2> HIDE DEF row
  <2>3. \A r \in DOMAIN returns' : r \in DOMAIN returns \/ returns'[r] = row
    BY <2>1, <2>2, NewRow
  <2>4. \A r \in DOMAIN returns : returns'[r] = returns[r]
    BY <2>1, <2>2, RowAdded
  <2> QED BY <2>1, <2>3, <2>4 DEF ReturnsMarked, ReturnMarked
<1>2. ASSUME NEW r \in DOMAIN returns, ResolveReturn(r)
      PROVE  ReturnsMarked
  <2>1. returns[r] \in Return /\ returns[r].qty \in Int /\ inventory.available \in Int
    BY ReturnRow DEF TypeOK, Inventory
  <2>2. ReturnOwner(r) \in Owner
    BY Owners
  <2>3. CASE WriteOffReturn(r)
    <3> DEFINE row == [returns[r] EXCEPT !.status = "writtenoff"]
    <3>1. returns' = [returns EXCEPT ![r] = row]
      BY <2>3 DEF WriteOffReturn
    <3>2. /\ row.status # "pending"
          /\ row.transfer = returns[r].transfer
          /\ row.rfq = returns[r].rfq
      BY <2>1 DEF Return
    <3> HIDE DEF row
    <3> QED BY <3>1, <3>2, ReturnRewritten DEF ReturnMarked
  <2>4. CASE ReplenishFromStock(r)
    <3> DEFINE row == Replenished([returns[r] EXCEPT !.transfer = Len(transfers) + 1])
    <3>1. returns' = [returns EXCEPT ![r] = row]
      BY <2>4 DEF ReplenishFromStock
    <3>2. /\ row.status # "pending"
          /\ row.transfer = Len(transfers) + 1
          /\ row.rfq = returns[r].rfq
      BY <2>1 DEF Return, Replenished
    <3>3. MadeTransfer(ReturnOwner(r))
      BY <2>1, <2>2, <2>4, TransferMade DEF ReplenishFromStock
    <3> HIDE DEF row
    <3> QED BY <3>1, <3>2, <3>3, ReturnRewritten DEF ReturnMarked, Resolved
  <2>5. CASE ReplenishByRfq(r)
    <3> DEFINE row == Replenished([returns[r] EXCEPT !.rfq = Len(rfqs) + 1])
    <3>1. returns' = [returns EXCEPT ![r] = row]
      BY <2>5 DEF ReplenishByRfq
    <3>2. /\ row.status # "pending"
          /\ row.transfer = returns[r].transfer
          /\ row.rfq = Len(rfqs) + 1
      BY <2>1 DEF Return, Replenished
    <3>3. rfqs' = Append(rfqs, NewRfq(ReturnOwner(r), returns[r].qty - inventory.available))
      BY <2>5 DEF ReplenishByRfq
    <3>4. returns[r].qty - inventory.available \in Int
      BY <2>1
    <3>5. MadeRfq(ReturnOwner(r))
      BY <2>2, <3>3, <3>4, RfqMade
    <3> HIDE DEF row
    <3> QED BY <3>1, <3>2, <3>5, ReturnRewritten DEF ReturnMarked
  <2> QED BY <1>2, <2>3, <2>4, <2>5 DEF ResolveReturn
<1>3. ASSUME NEW t \in DOMAIN transfers, DispatchTransferOrder(t)
      PROVE  ReturnsMarked
  <2> DEFINE owner == transfers[t].owner
             row == [returns[owner.id] EXCEPT !.status = "dispatched"]
  <2>1. \/ owner.kind = "return" /\ returns' = [returns EXCEPT ![owner.id] = row]
        \/ returns' = returns
    BY <1>3 DEF DispatchTransferOrder
  <2>2. CASE returns' = returns
    BY <2>2, NothingMarked
  <2>3. CASE owner.kind = "return" /\ returns' = [returns EXCEPT ![owner.id] = row]
    <3>1. owner.id \in DOMAIN returns
      BY <2>3 DEF Linked, OwnerExists
    <3>2. returns[owner.id] \in Return
      BY <3>1, ReturnRow
    <3>3. /\ row.status # "pending"
          /\ row.transfer = returns[owner.id].transfer
          /\ row.rfq = returns[owner.id].rfq
      BY <3>2 DEF Return
    <3> HIDE DEF owner, row
    <3> QED BY <2>3, <3>1, <3>3, ReturnRewritten DEF ReturnMarked
  <2> QED BY <2>1, <2>2, <2>3
<1> QED BY <1>1, <1>2, <1>3

LEMMA DeliveryMarks ==
    ASSUME TypeOK, Linked, NEW a \in DOMAIN asns, NEW acc \in Nat, NEW rej \in Nat,
           ReceiveAndDispatch(a, acc, rej)
    PROVE  RequestsMarked /\ ReturnsMarked
<1> DEFINE rfq == orders[asns[a].po].rfq
           owner == rfqs[rfq].owner
<1>1. rfq \in DOMAIN rfqs /\ owner \in Owner /\ OwnerExists(owner)
  BY ReceiveAndDispatchEffect
<1>2. PICK q \in Int, source \in {"Vendor Procurement", "Combined Stock + Vendor"} :
         /\ inventory' = DecreaseOnHand(IncreaseOnHand(inventory, acc), q)
         /\ DispatchToOwner(owner, q, source)
  BY ReceiveAndDispatchEffect
<1> HIDE DEF owner
<1>3. /\ DOMAIN requests' = DOMAIN requests
      /\ DOMAIN returns' = DOMAIN returns
      /\ \A p \in DOMAIN requests :
            requests'[p] = IF owner = RequestOwner(p)
                           THEN [requests[p] EXCEPT !.type = "stock",
                                                    !.ref = TransferRef(Len(transfers) + 1)]
                           ELSE requests[p]
      /\ \A r \in DOMAIN returns :
            returns'[r] = IF owner = ReturnOwner(r)
                          THEN [returns[r] EXCEPT !.transfer = Len(transfers) + 1]
                          ELSE returns[r]
      /\ transfers' = Append(transfers, NewTransfer(owner, q, source))
  BY <1>1, <1>2, DispatchEffect
<1>4. MadeTransfer(owner)
  BY <1>1, <1>3, TransferMade
<1>5. ASSUME NEW p \in DOMAIN requests
      PROVE  RequestMarked(p)
  <2>1. requests[p] \in Request
    BY RequestRow
  <2>2. CASE owner = RequestOwner(p)
    <3>1. requests'[p] = [requests[p] EXCEPT !.type = "stock",
                                             !.ref = TransferRef(Len(transfers) + 1)]
      BY <1>3, <2>2
    <3>2. requests'[p].type = "stock" /\ requests'[p].ref = TransferRef(Len(transfers) + 1)
      BY <2>1, <3>1 DEF Request
    <3> QED BY <1>4, <2>2, <3>2 DEF RequestMarked
  <2> QED BY <1>3, <2>2 DEF RequestMarked
<1>6. ASSUME NEW r \in DOMAIN returns
      PROVE  ReturnMarked(r)
  <2>1. returns[r] \in Return
    BY ReturnRow
  <2>2. CASE owner = ReturnOwner(r)
    <3>1. returns'[r] = [returns[r] EXCEPT !.transfer = Len(transfers) + 1]
      BY <1>3, <2>2
    <3>2. /\ returns'[r].transfer = Len(transfers) + 1
          /\ returns'[r].status = returns[r].status
          /\ returns'[r].rfq = returns[r].rfq
      BY <2>1, <3>1 DEF Return
    <3>3. Resolved(r)
      BY <1>1, <2>2, <3>2 DEF Resolved, owner
    <3> QED BY <1>4, <2>2, <3>2, <3>3 DEF ReturnMarked
  <2> QED BY <1>3, <2>2 DEF ReturnMarked
<1> QED BY <1>3, <1>5, <1>6 DEF RequestsMarked, ReturnsMarked

\* The tables of the owners that an action leaves alone.
LEMMA SameOwners ==
    /\ \A q : CreatePurchaseRequest(q) => returns' = returns
    /\ \A p : FulfilFromStock(p) \/ SplitFulfil(p) \/ RaiseRfq(p) => returns' = returns
    /\ \A t, q, d : RaiseIssue(t, q, d) => requests' = requests
    /\ \A r : ResolveReturn(r) => requests' = requests
    /\ \A r : SubmitQuotation(r) \/ SelectVendor(r) => UNCHANGED <<requests, returns>>
    /\ \A o : AcceptOrder(o) \/ RejectOrder(o) => UNCHANGED <<requests, returns>>
    /\ \A o, n : CreateAsn(o, n) => UNCHANGED <<requests, returns>>
    /\ \A a, n : SubmitAsn(a) \/ UpdateAsn(a, n) \/ ResubmitAfterRejection(a, n)
                    => UNCHANGED <<requests, returns>>
    /\ \A a, acc, rej : ReceivePart(a, acc, rej) => UNCHANGED <<requests, returns>>
    /\ \A t : DispatchTransferOrder(t) => requests' = requests
    /\ \A t, s : UpdateTransferStatus(t, s) => UNCHANGED <<requests, returns>>
    /\ \A delta : AdjustInventory(delta) => UNCHANGED <<requests, returns>>
<1>1. /\ \A q : CreatePurchaseRequest(q) => returns' = returns
      /\ \A p : FulfilFromStock(p) \/ SplitFulfil(p) \/ RaiseRfq(p) => returns' = returns
  BY DEF CreatePurchaseRequest, FulfilFromStock, SplitFulfil, RaiseRfq
<1>2. /\ \A t, q, d : RaiseIssue(t, q, d) => requests' = requests
      /\ \A r : ResolveReturn(r) => requests' = requests
  BY DEF RaiseIssue, ResolveReturn, WriteOffReturn, ReplenishFromStock, ReplenishByRfq
<1>3. /\ \A r : SubmitQuotation(r) \/ SelectVendor(r) => UNCHANGED <<requests, returns>>
      /\ \A o : AcceptOrder(o) \/ RejectOrder(o) => UNCHANGED <<requests, returns>>
      /\ \A o, n : CreateAsn(o, n) => UNCHANGED <<requests, returns>>
  BY DEF SubmitQuotation, SelectVendor, AcceptOrder, RejectOrder, CreateAsn
<1>4. /\ \A a, n : SubmitAsn(a) \/ UpdateAsn(a, n) \/ ResubmitAfterRejection(a, n)
                      => UNCHANGED <<requests, returns>>
      /\ \A a, acc, rej : ReceivePart(a, acc, rej) => UNCHANGED <<requests, returns>>
  BY DEF SubmitAsn, UpdateAsn, ResubmitAfterRejection, ReceivePart
<1>5. /\ \A t : DispatchTransferOrder(t) => requests' = requests
      /\ \A t, s : UpdateTransferStatus(t, s) => UNCHANGED <<requests, returns>>
      /\ \A delta : AdjustInventory(delta) => UNCHANGED <<requests, returns>>
  BY DEF DispatchTransferOrder, UpdateTransferStatus, AdjustInventory
<1> QED BY <1>1, <1>2, <1>3, <1>4, <1>5

LEMMA StepMarks ==
    ASSUME TypeOK, Linked, [Next]_vars
    PROVE  RequestsMarked /\ ReturnsMarked
<1>1. CASE \E q \in Quantities : CreatePurchaseRequest(q)
  BY <1>1, RequestsMarkedBy, SameOwners, NothingMarked
<1>2. CASE \E p \in DOMAIN requests : FulfilFromStock(p) \/ SplitFulfil(p) \/ RaiseRfq(p)
  BY <1>2, RequestsMarkedBy, SameOwners, NothingMarked
<1>3. CASE \E t \in DOMAIN transfers, q \in Quantities, d \in {"replenish", "writeoff"} :
              RaiseIssue(t, q, d)
  BY <1>3, ReturnsMarkedBy, SameOwners, NothingMarked
<1>4. CASE \E r \in DOMAIN returns : ResolveReturn(r)
  BY <1>4, ReturnsMarkedBy, SameOwners, NothingMarked
<1>5. CASE \E r \in DOMAIN rfqs : SubmitQuotation(r) \/ SelectVendor(r)
  BY <1>5, SameOwners, NothingMarked
<1>6. CASE \E o \in DOMAIN orders : AcceptOrder(o) \/ RejectOrder(o)
  BY <1>6, SameOwners, NothingMarked
<1>7. CASE \E o \in DOMAIN orders, n \in Shipments : CreateAsn(o, n)
  BY <1>7, SameOwners, NothingMarked
<1>8. CASE \E a \in DOMAIN asns : SubmitAsn(a)
  BY <1>8, SameOwners, NothingMarked
<1>9. CASE \E a \in DOMAIN asns, n \in Shipments : UpdateAsn(a, n) \/ ResubmitAfterRejection(a, n)
  BY <1>9, SameOwners, NothingMarked
<1>10. CASE \E a \in DOMAIN asns, acc \in 0..MaxCount, rej \in 0..MaxCount :
               RecordGoodsReceipt(a, acc, rej)
  <2>1. 0..MaxCount \subseteq Nat
    BY FulfilmentAssumption
  <2>2. PICK a \in DOMAIN asns, acc \in Nat, rej \in Nat :
                ReceivePart(a, acc, rej) \/ ReceiveAndDispatch(a, acc, rej)
    BY <1>10, <2>1 DEF RecordGoodsReceipt
  <2> QED BY <2>2, DeliveryMarks, SameOwners, NothingMarked
<1>11. CASE \E t \in DOMAIN transfers : DispatchTransferOrder(t)
  BY <1>11, ReturnsMarkedBy, SameOwners, NothingMarked
<1>12. CASE \E t \in DOMAIN transfers, s \in Statuses : UpdateTransferStatus(t, s)
  BY <1>12, SameOwners, NothingMarked
<1>13. CASE \E delta \in Adjustments : AdjustInventory(delta)
  BY <1>13, SameOwners, NothingMarked
<1>14. CASE UNCHANGED vars
  BY <1>14, NothingMarked DEF vars
<1> QED BY <1>1, <1>2, <1>3, <1>4, <1>5, <1>6, <1>7, <1>8, <1>9, <1>10, <1>11, <1>12, <1>13,
           <1>14 DEF Next

-----------------------------------------------------------------------------
(* References *)

\* Whoever an RFQ or a transfer order was made for is waiting no more.
Engaged ==
    /\ \A r \in DOMAIN rfqs : ~Waiting(rfqs[r].owner)
    /\ \A t \in DOMAIN transfers : ~Waiting(transfers[t].owner)

\* No step puts an owner back among those who wait.
LEMMA WaitingEnds ==
    ASSUME TypeOK, Engaged, RequestsMarked, ReturnsMarked, Kept,
           NEW owner \in Owner, OwnerExists(owner), ~Waiting(owner)
    PROVE  ~Waiting(owner)'
<1>1. CASE owner.kind = "request"
  <2>1. owner.id \in DOMAIN requests /\ owner.id \in DOMAIN requests'
    BY <1>1 DEF OwnerExists, Kept, KeptRequests
  <2>2. RequestMarked(owner.id)
    BY <2>1 DEF RequestsMarked
  <2>3. requests[owner.id].type # "none"
    BY <1>1 DEF Waiting
  <2>4. requests'[owner.id].type # "none"
    BY <2>2, <2>3 DEF RequestMarked
  <2> QED BY <1>1, <2>4 DEF Waiting
<1>2. CASE owner.kind = "return"
  <2>1. owner.id \in DOMAIN returns /\ owner.id \in DOMAIN returns'
    BY <1>2 DEF OwnerExists, Kept, KeptReturns
  <2>2. ReturnMarked(owner.id)
    BY <2>1 DEF ReturnsMarked
  <2>3. returns[owner.id].status # "pending"
    BY <1>2 DEF Waiting
  <2>4. returns'[owner.id].status # "pending"
    BY <2>2, <2>3 DEF ReturnMarked, Resolved
  <2> QED BY <1>2, <2>4 DEF Waiting
<1> QED BY <1>1, <1>2, OwnerTypes

LEMMA RowsEngaged ==
    ASSUME TypeOK, Linked, Engaged,
           \A owner \in Owner : OwnerExists(owner) /\ ~Waiting(owner) => ~Waiting(owner)',
           Kept, [Next]_vars
    PROVE  /\ \A r \in DOMAIN rfqs : ~Waiting(rfqs[r].owner)'
           /\ \A t \in DOMAIN transfers : ~Waiting(transfers[t].owner)'
<1>1. ASSUME NEW r \in DOMAIN rfqs
      PROVE  ~Waiting(rfqs[r].owner)'
  <2>1. PICK owner \in Owner : owner = rfqs[r].owner
    BY RfqRow
  <2>2. OwnerExists(owner) /\ ~Waiting(owner)
    BY <2>1 DEF Linked, Engaged
  <2>3. rfqs'[r].owner = owner
    BY <2>1 DEF Kept, KeptRfqs
  <2> QED BY <2>2, <2>3 DEF Waiting
<1>2. ASSUME NEW t \in DOMAIN transfers
      PROVE  ~Waiting(transfers[t].owner)'
  <2>1. PICK owner \in Owner : owner = transfers[t].owner
    BY TransferRow
  <2>2. OwnerExists(owner) /\ ~Waiting(owner)
    BY <2>1 DEF Linked, Engaged
  <2>3. transfers'[t].owner = owner
    BY <2>1 DEF Kept, KeptTransfers
  <2> QED BY <2>2, <2>3 DEF Waiting
<1> QED BY <1>1, <1>2

LEMMA EngagedStep ==
    ASSUME TypeOK, Linked, Engaged, [Next]_vars
    PROVE  Engaged'
<1>1. Kept /\ RequestsMarked /\ ReturnsMarked
  BY StepKeeps, StepMarks
<1>2. \A owner \in Owner : OwnerExists(owner) /\ ~Waiting(owner) => ~Waiting(owner)'
  BY <1>1, WaitingEnds
<1>3. /\ \A r \in DOMAIN rfqs : ~Waiting(rfqs[r].owner)'
      /\ \A t \in DOMAIN transfers : ~Waiting(transfers[t].owner)'
  BY <1>1, <1>2, RowsEngaged
<1>4. CASE Quiet
  BY <1>3, <1>4 DEF Quiet, Engaged
<1>5. ASSUME NEW owner \in Owner, Sent(owner)
      PROVE  Engaged'
  <2>1. PICK source \in {"Warehouse Stock", "Return Replenishment"} :
           transfers' = Append(transfers, NewTransfer(owner, Wanted(owner), source))
    BY <1>5 DEF Sent
  <2>2. Wanted(owner) \in Int
    BY <1>5, Owners, OwnerTypes DEF Sent, Wanted, OwnerExists
  <2> DEFINE row == NewTransfer(owner, Wanted(owner), source)
  <2>3. row \in Transfer /\ row.owner = owner
    <3>1. source \in {"Warehouse Stock", "Vendor Procurement", "Return Replenishment",
                      "Combined Stock + Vendor"}
      OBVIOUS
    <3> QED BY <2>2, <3>1, TransferTypes
  <2>4. transfers \in Seq(Transfer)
    BY DEF TypeOK
  <2> HIDE DEF row
  <2>5. \A t \in DOMAIN transfers' : t \in DOMAIN transfers \/ transfers'[t] = row
    BY <2>1, <2>3, <2>4, NewRow DEF row
  <2>6. rfqs' = rfqs /\ ~Waiting(owner)'
    BY <1>5 DEF Sent
  <2>7. \A t \in DOMAIN transfers' : ~Waiting(transfers[t].owner)'
    BY <1>3, <2>3, <2>5, <2>6 DEF Waiting
  <2> QED BY <1>3, <2>6, <2>7 DEF Engaged
<1>6. ASSUME NEW owner \in Owner, Forwarded(owner)
      PROVE  Engaged'
  <2>1. PICK q \in Int : rfqs' = Append(rfqs, NewRfq(owner, q))
    BY <1>6 DEF Forwarded
  <2> DEFINE row == NewRfq(owner, q)
  <2>3. row \in Rfq /\ row.owner = owner
    BY RfqTypes
  <2>4. rfqs \in Seq(Rfq)
    BY DEF TypeOK
  <2> HIDE DEF row
  <2>5. \A r \in DOMAIN rfqs' : r \in DOMAIN rfqs \/ rfqs'[r] = row
    BY <2>1, <2>3, <2>4, NewRow DEF row
  <2>6. transfers' = transfers /\ ~Waiting(owner)'
    BY <1>6 DEF Forwarded
  <2>7. \A r \in DOMAIN rfqs' : ~Waiting(rfqs[r].owner)'
    BY <1>3, <2>3, <2>5, <2>6 DEF Waiting
  <2> QED BY <1>3, <2>6, <2>7 DEF Engaged
<1>7. ASSUME NEW a \in DOMAIN asns, NEW acc \in Nat, NEW rej \in Nat,
             ReceiveAndDispatch(a, acc, rej)
      PROVE  Engaged'
  <2>1. orders[asns[a].po].rfq \in DOMAIN rfqs
    BY <1>7, ReceiveAndDispatchEffect
  <2> DEFINE owner == rfqs[orders[asns[a].po].rfq].owner
  <2>2. owner \in Owner
    BY <2>1, RfqRow
  <2>3. OwnerExists(owner) /\ ~Waiting(owner)
    BY <2>1 DEF Linked, Engaged
  <2>4. PICK q \in Int, source \in {"Vendor Procurement", "Combined Stock + Vendor"} :
           /\ inventory' = DecreaseOnHand(IncreaseOnHand(inventory, acc), q)
           /\ DispatchToOwner(owner, q, source)
    BY <1>7, <2>2, ReceiveAndDispatchEffect
  <2>5. PICK o \in Owner : o = owner
    BY <2>2
  <2> DEFINE row == NewTransfer(o, q, source)
  <2>6. transfers' = Append(transfers, row)
    BY <2>2, <2>3, <2>4, <2>5, DispatchEffect
  <2>7. row \in Transfer /\ row.owner = o
    <3>1. source \in {"Warehouse Stock", "Vendor Procurement", "Return Replenishment",
                      "Combined Stock + Vendor"}
      OBVIOUS
    <3> QED BY <3>1, TransferTypes
  <2>8. transfers \in Seq(Transfer)
    BY DEF TypeOK
  <2>9. ~Waiting(o)'
    BY <1>2, <2>3, <2>5
  <2> HIDE DEF row
  <2>10. \A t \in DOMAIN transfers' : t \in DOMAIN transfers \/ transfers'[t] = row
    BY <2>6, <2>7, <2>8, NewRow
  <2>11. DOMAIN rfqs' = DOMAIN rfqs
    BY <1>7, SameRows
  <2>12. \A t \in DOMAIN transfers' : ~Waiting(transfers[t].owner)'
    BY <1>3, <2>7, <2>9, <2>10 DEF Waiting
  <2> QED BY <1>3, <2>11, <2>12 DEF Engaged
<1> QED BY <1>4, <1>5, <1>6, <1>7, StepServes

LEMMA RefsSoundStep ==
    ASSUME TypeOK, Linked, Engaged, RefsSound, [Next]_vars
    PROVE  RefsSound'
<1>1. Kept /\ RequestsMarked /\ ReturnsMarked /\ TypeOK'
  BY StepKeeps, StepMarks
<1>2. Len(transfers) + 1 # 0 /\ Len(rfqs) + 1 # 0
  <2>1. Len(transfers) \in Nat /\ Len(rfqs) \in Nat
    BY LenProperties DEF TypeOK
  <2> QED BY <2>1
<1>3. ASSUME NEW p \in DOMAIN requests'
      PROVE  LET ref == requests'[p].ref
             IN  /\ ref.kind = "none" => requests'[p].type = "none"
                 /\ ref.kind = "rfq" => /\ requests'[p].type \in {"rfq", "split"}
                                        /\ ref.id \in DOMAIN rfqs'
                                        /\ rfqs'[ref.id].owner = RequestOwner(p)
                 /\ ref.kind = "transfer_order" => /\ requests'[p].type = "stock"
                                                   /\ ref.id \in DOMAIN transfers'
                                                   /\ transfers'[ref.id].owner = RequestOwner(p)
  <2>1. CASE p \notin DOMAIN requests
    BY <1>1, <2>1 DEF RequestsMarked, NoRef
  <2>2. CASE p \in DOMAIN requests /\ requests'[p] = requests[p]
    BY <1>1, <2>2 DEF RefsSound, RequestRefSound, Kept, KeptRfqs, KeptTransfers
  <2>3. CASE p \in DOMAIN requests /\ requests'[p] # requests[p]
    <3>1. RequestMarked(p)
      BY <1>1, <2>3 DEF RequestsMarked
    <3> QED BY <2>3, <3>1 DEF RequestMarked, TransferRef, RfqRef, MadeTransfer, MadeRfq
  <2> QED BY <2>1, <2>2, <2>3
<1>4. ASSUME NEW r \in DOMAIN returns'
      PROVE  /\ returns'[r].transfer # 0 =>
                   /\ returns'[r].transfer \in DOMAIN transfers'
                   /\ transfers'[returns'[r].transfer].owner = ReturnOwner(r)
             /\ returns'[r].rfq # 0 => /\ returns'[r].rfq \in DOMAIN rfqs'
                                       /\ rfqs'[returns'[r].rfq].owner = ReturnOwner(r)
             /\ returns'[r].status = "pending" => returns'[r].transfer = 0 /\ returns'[r].rfq = 0
  <2>1. CASE r \notin DOMAIN returns
    BY <1>1, <2>1 DEF ReturnsMarked
  <2>2. CASE r \in DOMAIN returns
    <3>1. /\ returns[r].transfer # 0 => /\ returns[r].transfer \in DOMAIN transfers'
                                        /\ transfers'[returns[r].transfer].owner = ReturnOwner(r)
          /\ returns[r].rfq # 0 => /\ returns[r].rfq \in DOMAIN rfqs'
                                   /\ rfqs'[returns[r].rfq].owner = ReturnOwner(r)
          /\ returns[r].status = "pending" => returns[r].transfer = 0 /\ returns[r].rfq = 0
      BY <1>1, <2>2 DEF RefsSound, ReturnRefSound, Kept, KeptRfqs, KeptTransfers
    <3>2. ReturnMarked(r)
      BY <1>1, <2>2 DEF ReturnsMarked
    <3>3. Resolved(r) => returns'[r].status # "pending"
      BY OwnerTypes DEF Resolved, Engaged, Waiting
    <3>4. CASE returns'[r] = returns[r]
      BY <3>1, <3>4
    <3>5. CASE returns'[r] # returns[r]
      BY <3>1, <3>2, <3>3, <3>5 DEF ReturnMarked, MadeTransfer, MadeRfq
    <3> QED BY <3>4, <3>5
  <2> QED BY <2>1, <2>2
<1> QED BY <1>3, <1>4 DEF RefsSound, RequestRefSound, ReturnRefSound

\* Nothing was made for a request or a return that waits.
LEMMA WhoIsServedWaitsNoMore == Spec => []Engaged
<1>1. Init => Engaged
  BY DEF Init, Engaged
<1>2. TypeOK /\ Linked /\ Engaged /\ [Next]_vars => Engaged'
  BY EngagedStep
<1> QED BY <1>1, <1>2, TypeCorrect, PTL DEF Spec

\* What the derived statuses of a request look at exists and was made for it, whatever
\* the clients do and whichever handler wrote the reference last.
THEOREM ReferencesSound == Spec => []RefsSound
<1>1. Init => RefsSound
  BY DEF Init, RefsSound, RequestRefSound, ReturnRefSound
<1>2. TypeOK /\ Linked /\ Engaged /\ RefsSound /\ [Next]_vars => RefsSound'
  BY RefsSoundStep
<1> QED BY <1>1, <1>2, TypeCorrect, WhoIsServedWaitsNoMore, PTL DEF Spec

\* The three portals read one story out of sound references.
LEMMA PortalsAgreeWhenSound ==
    ASSUME TypeOK, RefsSound
    PROVE  PortalsAgree
<1> SUFFICES ASSUME NEW p \in DOMAIN requests
             PROVE  LET store     == StoreStatus(p)
                        warehouse == RequestStatus(p)
                        office    == HeadOfficeStatus(p)
                    IN  /\ warehouse = "completed" <=> store = "Delivered"
                        /\ warehouse = "completed" <=> office = "Fulfilled"
                        /\ store = "Dispatched" <=> office = "Dispatched"
                        /\ warehouse = "pending" <=> office = "Pending"
                        /\ store # "Preparing" => warehouse \in {"fulfilled", "completed"}
                        /\ "In Transit" \in StagesDone(p)
                               <=> TrackingLabels[warehouse] = "Delivered to Retail"
  BY DEF PortalsAgree
<1> DEFINE ref == requests[p].ref
<1>1. ref \in Ref
  BY RequestRow DEF Request
<1>2. ref.kind \in {"none", "rfq", "transfer_order"}
  BY <1>1 DEF Ref
<1>3. /\ ref.kind = "none" => requests[p].type = "none"
      /\ ref.kind = "rfq" => requests[p].type \in {"rfq", "split"}
      /\ ref.kind = "transfer_order" => /\ requests[p].type = "stock"
                                        /\ ref.id \in DOMAIN transfers
  BY DEF RefsSound, RequestRefSound
<1>4. ref.kind = "transfer_order" => transfers[ref.id].status \in TransferStatuses
  BY <1>3, TransferRow DEF Transfer
<1>5. /\ StoreStatus(p) = "Preparing" => StagesDone(p) = {"Preparing"}
      /\ StoreStatus(p) = "Dispatched" => StagesDone(p) = {"Preparing", "Dispatched"}
      /\ StoreStatus(p) = "Delivered" =>
            StagesDone(p) = {"Preparing", "Dispatched", "In Transit", "Delivered"}
  <2> DEFINE current == CHOOSE i \in DOMAIN Stages : Stages[i] = StoreStatus(p)
  <2>1. /\ Stages[1] = "Preparing" /\ Stages[2] = "Dispatched"
        /\ Stages[3] = "In Transit" /\ Stages[4] = "Delivered"
        /\ \A i : i \in DOMAIN Stages <=> i = 1 \/ i = 2 \/ i = 3 \/ i = 4
    BY DEF Stages
  <2>2. ASSUME NEW i \in DOMAIN Stages, Stages[i] = StoreStatus(p)
        PROVE  Stages[current] = StoreStatus(p) /\ current \in DOMAIN Stages
    BY <2>2
  <2>3. StagesDone(p) = {Stages[i] : i \in 1..current}
    BY DEF StagesDone
  <2> HIDE DEF current
  <2>4. 1..1 = {1} /\ 1..2 = {1, 2} /\ 1..4 = {1, 2, 3, 4}
    OBVIOUS
  <2>5. CASE StoreStatus(p) = "Preparing"
    <3>1. current = 1
      BY <2>1, <2>2, <2>5
    <3> QED BY <2>1, <2>3, <2>4, <2>5, <3>1
  <2>6. CASE StoreStatus(p) = "Dispatched"
    <3>1. 2 \in DOMAIN Stages /\ Stages[2] = StoreStatus(p)
      BY <2>1, <2>6
    <3>2. Stages[current] = StoreStatus(p) /\ current \in DOMAIN Stages
      BY <3>1, <2>2
    <3>3. current = 2
      BY <2>1, <2>6, <3>2
    <3> QED BY <2>1, <2>3, <2>4, <2>6, <3>3
  <2>7. CASE StoreStatus(p) = "Delivered"
    <3>1. 4 \in DOMAIN Stages /\ Stages[4] = StoreStatus(p)
      BY <2>1, <2>7
    <3>2. Stages[current] = StoreStatus(p) /\ current \in DOMAIN Stages
      BY <3>1, <2>2
    <3>3. current = 4
      BY <2>1, <2>7, <3>2
    <3> QED BY <2>1, <2>3, <2>4, <2>7, <3>3
  <2> QED BY <2>5, <2>6, <2>7
<1>9. /\ TrackingLabels["pending"] # "Delivered to Retail"
      /\ TrackingLabels["forwarded"] # "Delivered to Retail"
      /\ TrackingLabels["fulfilled"] # "Delivered to Retail"
      /\ TrackingLabels["completed"] = "Delivered to Retail"
  BY DEF TrackingLabels
<1>6. CASE ref.kind = "none"
  <2>1. /\ RequestStatus(p) = "pending"
        /\ StoreStatus(p) = "Preparing"
        /\ HeadOfficeStatus(p) = "Pending"
    BY <1>3, <1>6 DEF RequestStatus, StoreStatus, HeadOfficeStatus, ServedBy, IsApproved
  <2> QED BY <1>5, <1>9, <2>1
<1>7. CASE ref.kind = "rfq"
  <2>1. /\ RequestStatus(p) = "forwarded"
        /\ StoreStatus(p) = "Preparing"
        /\ HeadOfficeStatus(p) = "Approved"
    BY <1>3, <1>7 DEF RequestStatus, StoreStatus, HeadOfficeStatus, ServedBy, IsApproved
  <2> QED BY <1>5, <1>9, <2>1
<1>8. CASE ref.kind = "transfer_order"
  <2> DEFINE status == transfers[ref.id].status
  <2>1. /\ status \in Arrived => /\ RequestStatus(p) = "completed"
                                 /\ StoreStatus(p) = "Delivered"
                                 /\ HeadOfficeStatus(p) = "Fulfilled"
        /\ status = "Dispatched" => /\ RequestStatus(p) = "fulfilled"
                                    /\ StoreStatus(p) = "Dispatched"
                                    /\ HeadOfficeStatus(p) = "Dispatched"
        /\ status = "Pending" => /\ RequestStatus(p) = "fulfilled"
                                 /\ StoreStatus(p) = "Preparing"
                                 /\ HeadOfficeStatus(p) = "Approved"
    BY <1>3, <1>8 DEF RequestStatus, StoreStatus, HeadOfficeStatus, ServedBy, IsApproved, Arrived
  <2>2. status \in Arrived \/ status = "Dispatched" \/ status = "Pending"
    BY <1>4, <1>8 DEF TransferStatuses, Arrived
  <2> QED BY <1>5, <1>9, <2>1, <2>2
<1> QED BY <1>2, <1>6, <1>7, <1>8

\* The store, the warehouse and the head office tell the same story of every request,
\* for every value of the constants.
THEOREM PortalsAlwaysAgree == Spec => []PortalsAgree
<1>1. TypeOK /\ RefsSound => PortalsAgree
  BY PortalsAgreeWhenSound
<1> QED BY <1>1, TypeCorrect, ReferencesSound, PTL

-----------------------------------------------------------------------------
(* Purchase orders and their inspection *)

\* Only selecting a vendor adds an order.
LEMMA OrdersStep ==
    ASSUME [Next]_vars
    PROVE  DOMAIN orders' = DOMAIN orders \/ \E r \in DOMAIN rfqs : SelectVendor(r)
<1>1. CASE \E q \in Quantities : CreatePurchaseRequest(q)
  BY <1>1, SameRows
<1>2. CASE \E p \in DOMAIN requests : FulfilFromStock(p) \/ SplitFulfil(p) \/ RaiseRfq(p)
  BY <1>2, SameRows
<1>3. CASE \E t \in DOMAIN transfers, q \in Quantities, d \in {"replenish", "writeoff"} :
              RaiseIssue(t, q, d)
  BY <1>3, SameRows
<1>4. CASE \E r \in DOMAIN returns : ResolveReturn(r)
  BY <1>4, SameRows DEF ResolveReturn
<1>5. CASE \E r \in DOMAIN rfqs : SubmitQuotation(r) \/ SelectVendor(r)
  BY <1>5, SameRows
<1>6. CASE \E o \in DOMAIN orders : AcceptOrder(o) \/ RejectOrder(o)
  BY <1>6, SameRows
<1>7. CASE \E o \in DOMAIN orders, n \in Shipments : CreateAsn(o, n)
  BY <1>7, SameRows
<1>8. CASE \E a \in DOMAIN asns : SubmitAsn(a)
  BY <1>8, SameRows
<1>9. CASE \E a \in DOMAIN asns, n \in Shipments : UpdateAsn(a, n) \/ ResubmitAfterRejection(a, n)
  BY <1>9, SameRows
<1>10. CASE \E a \in DOMAIN asns, acc \in 0..MaxCount, rej \in 0..MaxCount :
               RecordGoodsReceipt(a, acc, rej)
  BY <1>10, SameRows DEF RecordGoodsReceipt
<1>11. CASE \E t \in DOMAIN transfers : DispatchTransferOrder(t)
  BY <1>11, SameRows
<1>12. CASE \E t \in DOMAIN transfers, s \in Statuses : UpdateTransferStatus(t, s)
  BY <1>12, SameRows
<1>13. CASE \E delta \in Adjustments : AdjustInventory(delta)
  BY <1>13, SameRows
<1>14. CASE UNCHANGED vars
  BY <1>14 DEF vars
<1> QED BY <1>1, <1>2, <1>3, <1>4, <1>5, <1>6, <1>7, <1>8, <1>9, <1>10, <1>11, <1>12, <1>13, <1>14
        DEF Next

\* A vendor selected: one order more, for all its RFQ asks for.
LEMMA OrderAdded ==
    ASSUME TypeOK, NEW r \in DOMAIN rfqs, SelectVendor(r)
    PROVE  /\ \A o \in DOMAIN orders : o \in DOMAIN orders' /\ orders'[o] = orders[o]
           /\ \A o \in DOMAIN orders' :
                 \/ o \in DOMAIN orders
                 \/ /\ o = Len(orders) + 1
                    /\ orders'[o].rfq = r
                    /\ orders'[o].qty = rfqs[r].qty
                    /\ orders'[o].received = 0
                    /\ orders'[o].status = "Pending Acceptance"
<1> DEFINE order == [rfq |-> r, qty |-> rfqs[r].qty, received |-> 0,
                     status |-> "Pending Acceptance", dispatched |-> 0]
<1>1. r \in Nat /\ rfqs[r].qty \in Int
  BY RfqRow
<1>2. order \in Order
  BY <1>1 DEF Order, OrderStatuses
<1>3. orders' = Append(orders, order) /\ orders \in Seq(Order)
  BY DEF SelectVendor, TypeOK
<1>4. /\ order.rfq = r /\ order.qty = rfqs[r].qty
      /\ order.received = 0 /\ order.status = "Pending Acceptance"
  OBVIOUS
<1> HIDE DEF order
<1>5. /\ DOMAIN orders = 1..Len(orders) /\ Len(orders) \in Nat
      /\ DOMAIN orders' = 1..(Len(orders) + 1)
      /\ \A o \in DOMAIN orders : orders'[o] = orders[o]
      /\ orders'[Len(orders) + 1] = order
  BY <1>2, <1>3, RowAdded
<1>6. \A o \in DOMAIN orders' : o \in DOMAIN orders \/ (o = Len(orders) + 1 /\ orders'[o] = order)
  BY <1>5
<1>7. \A o \in DOMAIN orders : o \in DOMAIN orders'
  BY <1>5
<1> QED BY <1>4, <1>5, <1>6, <1>7

\* An order asks for what its RFQ asked for.
OrdersForRfqs == \A o \in DOMAIN orders : orders[o].qty = rfqs[orders[o].rfq].qty

LEMMA OrdersForRfqsStep ==
    ASSUME TypeOK, Linked, OrdersForRfqs, [Next]_vars
    PROVE  OrdersForRfqs'
<1>1. KeptOrders /\ KeptRfqs
  BY StepKeeps DEF Kept
<1>2. \A o \in DOMAIN orders : orders'[o].qty = rfqs'[orders'[o].rfq].qty
  BY <1>1 DEF Linked, OrdersForRfqs, KeptOrders, KeptRfqs
<1>3. CASE \E r \in DOMAIN rfqs : SelectVendor(r)
  <2> PICK r \in DOMAIN rfqs : SelectVendor(r)
    BY <1>3
  <2>1. \A o \in DOMAIN orders' :
           o \in DOMAIN orders \/ (orders'[o].rfq = r /\ orders'[o].qty = rfqs[r].qty)
    BY OrderAdded
  <2>2. rfqs'[r].qty = rfqs[r].qty
    BY <1>1 DEF KeptRfqs
  <2> QED BY <1>2, <2>1, <2>2 DEF OrdersForRfqs
<1> QED BY <1>2, <1>3, OrdersStep DEF OrdersForRfqs

\* "select".  All the orders for an RFQ but one were rejected.
OneOrder ==
    \A o, p \in DOMAIN orders :
        orders[o].rfq = orders[p].rfq =>
            \/ o = p
            \/ orders[o].status = "Rejected"
            \/ orders[p].status = "Rejected"

Final == {"Rejected", "Delivered"}

\* An order that was rejected, or delivered, stays so.
FinalStays ==
    \A o \in DOMAIN orders : orders[o].status \in Final => orders'[o].status = orders[o].status

LEMMA FinalGiven ==
    ASSUME NEW o \in DOMAIN orders, NEW row,
           orders[o].status \in Final => row.status = orders[o].status,
           orders' = [orders EXCEPT ![o] = row]
    PROVE  FinalStays
BY DEF FinalStays

LEMMA FinalStep ==
    ASSUME TypeOK, Linked, NoticeSound, [Next]_vars
    PROVE  FinalStays
<1>1. CASE orders' = orders
  BY <1>1 DEF FinalStays
<1>2. CASE \E r \in DOMAIN rfqs : SelectVendor(r)
  BY <1>2, OrderAdded DEF FinalStays
<1>3. CASE \E o \in DOMAIN orders : AcceptOrder(o) \/ RejectOrder(o)
  <2> PICK o \in DOMAIN orders : AcceptOrder(o) \/ RejectOrder(o)
    BY <1>3
  <2>1. orders[o].status \notin Final
    BY DEF AcceptOrder, RejectOrder, Final
  <2>2. PICK row : orders' = [orders EXCEPT ![o] = row]
    BY DEF AcceptOrder, RejectOrder
  <2> QED BY <2>1, <2>2, FinalGiven
<1>4. CASE \E o \in DOMAIN orders, n \in Shipments : CreateAsn(o, n)
  <2> PICK o \in DOMAIN orders, n \in Shipments : CreateAsn(o, n)
    BY <1>4
  <2>1. orders[o].status \notin Final
    BY DEF CreateAsn, CanCreateAsn, Shippable, Final
  <2>2. PICK row : orders' = [orders EXCEPT ![o] = row]
    BY DEF CreateAsn
  <2> QED BY <2>1, <2>2, FinalGiven
<1>5. CASE \E a \in DOMAIN asns, acc \in 0..MaxCount, rej \in 0..MaxCount :
              RecordGoodsReceipt(a, acc, rej)
  <2> PICK a \in DOMAIN asns, acc \in 0..MaxCount, rej \in 0..MaxCount :
              ReceivePart(a, acc, rej) \/ ReceiveAndDispatch(a, acc, rej)
    BY <1>5 DEF RecordGoodsReceipt
  <2> DEFINE o == asns[a].po
  <2>1. o \in DOMAIN orders /\ orders[o].status # "Rejected"
    BY DEF NoticeSound
  <2>2. orders[o] \in Order
    BY <2>1, OrderRow
  <2>3. PICK row : /\ orders' = [orders EXCEPT ![o] = row]
                   /\ row.status = "Delivered" \/ row.status = orders[o].status
    <3>1. CASE ReceivePart(a, acc, rej)
      <4> DEFINE row == [orders[o] EXCEPT !.received = @ + acc]
      <4>1. row.status = orders[o].status
        BY <2>2 DEF Order
      <4>2. orders' = [orders EXCEPT ![o] = row]
        BY <3>1 DEF ReceivePart
      <4> HIDE DEF row
      <4> QED BY <4>1, <4>2
    <3>2. CASE ReceiveAndDispatch(a, acc, rej)
      <4> DEFINE row == [orders[o] EXCEPT !.received = orders[o].received + acc,
                                          !.status = "Delivered", !.dispatched = @ + 1]
      <4>1. row.status = "Delivered"
        BY <2>2 DEF Order
      <4>2. orders' = [orders EXCEPT ![o] = row]
        BY <3>2 DEF ReceiveAndDispatch
      <4> HIDE DEF row
      <4> QED BY <4>1, <4>2
    <3> QED BY <3>1, <3>2
  <2> HIDE DEF o
  <2> QED BY <2>1, <2>3, FinalGiven DEF Final
<1>6. CASE \E q \in Quantities : CreatePurchaseRequest(q)
  BY <1>1, <1>6, SameRows
<1>7. CASE \E p \in DOMAIN requests : FulfilFromStock(p) \/ SplitFulfil(p) \/ RaiseRfq(p)
  BY <1>1, <1>7, SameRows
<1>8. CASE \E t \in DOMAIN transfers, q \in Quantities, d \in {"replenish", "writeoff"} :
              RaiseIssue(t, q, d)
  BY <1>1, <1>8, SameRows
<1>9. CASE \E r \in DOMAIN returns : ResolveReturn(r)
  BY <1>1, <1>9, SameRows DEF ResolveReturn
<1>10. CASE \E r \in DOMAIN rfqs : SubmitQuotation(r) \/ SelectVendor(r)
  BY <1>1, <1>2, <1>10, SameRows
<1>11. CASE \E a \in DOMAIN asns : SubmitAsn(a)
  BY <1>1, <1>11, SameRows
<1>12. CASE \E a \in DOMAIN asns, n \in Shipments :
               UpdateAsn(a, n) \/ ResubmitAfterRejection(a, n)
  BY <1>1, <1>12, SameRows
<1>13. CASE \E t \in DOMAIN transfers : DispatchTransferOrder(t)
  BY <1>1, <1>13, SameRows
<1>14. CASE \E t \in DOMAIN transfers, s \in Statuses : UpdateTransferStatus(t, s)
  BY <1>1, <1>14, SameRows
<1>15. CASE \E delta \in Adjustments : AdjustInventory(delta)
  BY <1>1, <1>15, SameRows
<1>16. CASE UNCHANGED vars
  BY <1>1, <1>16 DEF vars
<1> QED BY <1>3, <1>4, <1>5, <1>6, <1>7, <1>8, <1>9, <1>10, <1>11, <1>12, <1>13, <1>14, <1>15,
           <1>16 DEF Next

LEMMA OneOrderStep ==
    ASSUME TypeOK, Linked, NoticeSound, "select" \in Discipline, OneOrder, [Next]_vars
    PROVE  OneOrder'
<1>1. KeptOrders /\ FinalStays
  BY StepKeeps, FinalStep DEF Kept
<1>2. \A o, p \in DOMAIN orders :
         orders'[o].rfq = orders'[p].rfq =>
             \/ o = p
             \/ orders'[o].status = "Rejected"
             \/ orders'[p].status = "Rejected"
  BY <1>1 DEF OneOrder, KeptOrders, FinalStays, Final
<1>3. CASE \E r \in DOMAIN rfqs : SelectVendor(r)
  <2> PICK r \in DOMAIN rfqs : SelectVendor(r)
    BY <1>3
  <2>1. \A o \in DOMAIN orders' :
           o \in DOMAIN orders \/ (orders'[o].rfq = r /\ o = Len(orders) + 1)
    BY OrderAdded
  <2>2. \A o \in DOMAIN orders : orders[o].rfq = r => orders[o].status = "Rejected"
    BY DEF SelectVendor, MaySelect
  <2>3. \A o \in DOMAIN orders : orders'[o].rfq = r => orders'[o].status = "Rejected"
    BY <1>1, <2>2 DEF KeptOrders, FinalStays, Final
  <2> SUFFICES ASSUME NEW o \in DOMAIN orders', NEW p \in DOMAIN orders',
                      orders'[o].rfq = orders'[p].rfq,
                      orders'[o].status # "Rejected", orders'[p].status # "Rejected"
               PROVE  o = p
    BY DEF OneOrder
  <2>4. o = p
    <3>1. CASE o \in DOMAIN orders /\ p \in DOMAIN orders
      BY <1>2, <3>1
    <3>2. CASE o \notin DOMAIN orders
      BY <2>1, <2>3, <3>2
    <3>3. CASE p \notin DOMAIN orders
      BY <2>1, <2>3, <3>3
    <3> QED BY <3>1, <3>2, <3>3
  <2> QED BY <2>4
<1> QED BY <1>2, <1>3, OrdersStep DEF OneOrder

\* "count".  A notice not inspected yet ships no more than is outstanding; one that was
\* inspected with a rejection, or is not inspected, leaves its order undelivered; and an
\* order is delivered in full and no more.
InspectionsCount ==
    /\ \A a \in DOMAIN asns :
          /\ asns[a].receipt = NoReceipt =>
                asns[a].shipped <= orders[asns[a].po].qty - orders[asns[a].po].received
          /\ asns[a].receipt.status # "accepted" => orders[asns[a].po].status # "Delivered"
    /\ \A o \in DOMAIN orders :
          orders[o].status = "Delivered" => orders[o].received = orders[o].qty

LEMMA InspectionsStep ==
    ASSUME TypeOK, Linked, NoticeSound, "count" \in Discipline, InspectionsCount, [Next]_vars
    PROVE  InspectionsCount'
<1> DEFINE Good(a) ==
              /\ asns'[a].receipt = NoReceipt =>
                    asns'[a].shipped <= orders'[asns'[a].po].qty - orders'[asns'[a].po].received
              /\ asns'[a].receipt.status # "accepted" => orders'[asns'[a].po].status # "Delivered"
           Full(o) == orders'[o].status = "Delivered" => orders'[o].received = orders'[o].qty
<1>1. SUFFICES (\A a \in DOMAIN asns' : Good(a)) /\ (\A o \in DOMAIN orders' : Full(o))
  BY DEF InspectionsCount
<1>2. \A a \in DOMAIN asns : asns[a].po \in DOMAIN orders
  BY DEF Linked
<1>3. \A a, b \in DOMAIN asns : asns[a].po = asns[b].po => a = b
  BY DEF NoticeSound
<1>4. /\ \A a \in DOMAIN asns :
            /\ asns[a].receipt = NoReceipt =>
                  asns[a].shipped <= orders[asns[a].po].qty - orders[asns[a].po].received
            /\ asns[a].receipt.status # "accepted" => orders[asns[a].po].status # "Delivered"
      /\ \A o \in DOMAIN orders :
            orders[o].status = "Delivered" => orders[o].received = orders[o].qty
  BY DEF InspectionsCount
<1>5. CASE asns' = asns /\ orders' = orders
  BY <1>4, <1>5
<1>6. CASE \E r \in DOMAIN rfqs : SelectVendor(r)
  <2> PICK r \in DOMAIN rfqs : SelectVendor(r)
    BY <1>6
  <2>1. asns' = asns
    BY DEF SelectVendor
  <2>2. \A o \in DOMAIN orders : orders'[o] = orders[o]
    BY OrderAdded
  <2>3. \A o \in DOMAIN orders' : o \in DOMAIN orders \/ orders'[o].status = "Pending Acceptance"
    BY OrderAdded
  <2> QED BY <1>2, <1>4, <2>1, <2>2, <2>3
\* An order that is not delivered is given another status.
<1>7. ASSUME NEW o \in DOMAIN orders,
             NEW status \in OrderStatuses \ {"Delivered"},
             orders[o].status # "Delivered",
             orders' = [orders EXCEPT ![o] = [orders[o] EXCEPT !.status = status]]
      PROVE  /\ \A p \in DOMAIN orders : /\ orders'[p].qty = orders[p].qty
                                         /\ orders'[p].received = orders[p].received
                                         /\ orders'[p].status = "Delivered" <=> orders[p].status = "Delivered"
             /\ DOMAIN orders' = DOMAIN orders
  <2>1. orders[o] \in Order
    BY OrderRow
  <2> DEFINE row == [orders[o] EXCEPT !.status = status]
  <2>2. row.qty = orders[o].qty /\ row.received = orders[o].received /\ row.status = status
    BY <2>1 DEF Order
  <2>3. orders' = [orders EXCEPT ![o] = row] /\ status # "Delivered"
    BY <1>7
  <2> HIDE DEF row
  <2> QED BY <1>7, <2>2, <2>3
<1>8. CASE \E o \in DOMAIN orders : AcceptOrder(o) \/ RejectOrder(o)
  <2> PICK o \in DOMAIN orders : AcceptOrder(o) \/ RejectOrder(o)
    BY <1>8
  <2>1. PICK status \in OrderStatuses \ {"Delivered"} :
           orders' = [orders EXCEPT ![o] = [orders[o] EXCEPT !.status = status]]
    BY DEF AcceptOrder, RejectOrder, OrderStatuses
  <2>2. orders[o].status # "Delivered" /\ asns' = asns
    BY DEF AcceptOrder, RejectOrder
  <2> QED BY <1>2, <1>4, <1>7, <2>1, <2>2
<1>9. CASE \E o \in DOMAIN orders, n \in Shipments : CreateAsn(o, n)
  <2> PICK o \in DOMAIN orders, n \in Shipments : CreateAsn(o, n)
    BY <1>9
  <2> DEFINE asn == [po |-> o, shipped |-> n, submitted |-> FALSE, receipt |-> NoReceipt]
  <2>1. "Ready to Ship" \in OrderStatuses \ {"Delivered"}
    BY DEF OrderStatuses
  <2>2. /\ orders' = [orders EXCEPT ![o] = [orders[o] EXCEPT !.status = "Ready to Ship"]]
        /\ asns' = Append(asns, asn)
        /\ n <= orders[o].qty - orders[o].received
        /\ orders[o].status # "Delivered"
    BY DEF CreateAsn, CanCreateAsn, Outstanding, Shippable
  <2>3. /\ DOMAIN orders' = DOMAIN orders
        /\ \A p \in DOMAIN orders : /\ orders'[p].qty = orders[p].qty
                                    /\ orders'[p].received = orders[p].received
                                    /\ orders'[p].status = "Delivered" <=> orders[p].status = "Delivered"
    BY <1>7, <2>1, <2>2
  <2>4. o \in Nat /\ n \in Nat /\ NoReceipt \in GoodsReceipt
    BY OrderRow, ConstantTypes, ReceiptTypes
  <2>5. asn \in Asn /\ asns \in Seq(Asn)
    BY <2>4 DEF Asn, TypeOK
  <2>6. asn.po = o /\ asn.shipped = n /\ asn.receipt = NoReceipt
    OBVIOUS
  <2> HIDE DEF asn
  <2>7. /\ \A a \in DOMAIN asns' : a \in DOMAIN asns \/ asns'[a] = asn
        /\ \A a \in DOMAIN asns : asns'[a] = asns[a]
    <3>1. \A a \in DOMAIN asns' : a \in DOMAIN asns \/ asns'[a] = asn
      BY <2>2, <2>5, NewRow
    <3>2. asns' = Append(asns, asn)
      BY <2>2
    <3>3. \A a \in DOMAIN asns : asns'[a] = asns[a]
      BY <2>5, <3>2, RowAdded
    <3> QED BY <3>1, <3>3
  <2>8. \A a \in DOMAIN asns : Good(a)
    BY <1>2, <1>4, <2>3, <2>7
  <2>9. \A a \in DOMAIN asns' : asns'[a] = asn => Good(a)
    BY <2>2, <2>3, <2>6
  <2>10. \A p \in DOMAIN orders' : Full(p)
    BY <1>4, <2>3
  <2> HIDE DEF Good, Full
  <2> QED BY <2>7, <2>8, <2>9, <2>10
<1>10. CASE \E a \in DOMAIN asns : SubmitAsn(a)
  <2> PICK a \in DOMAIN asns : SubmitAsn(a)
    BY <1>10
  <2> DEFINE row == [asns[a] EXCEPT !.submitted = TRUE]
  <2>1. asns[a] \in Asn
    BY AsnRow
  <2>2. row.po = asns[a].po /\ row.shipped = asns[a].shipped /\ row.receipt = asns[a].receipt
    BY <2>1 DEF Asn
  <2>3. asns' = [asns EXCEPT ![a] = row] /\ orders' = orders
    BY DEF SubmitAsn
  <2> HIDE DEF row
  <2> QED BY <1>4, <2>2, <2>3
<1>11. CASE \E a \in DOMAIN asns, n \in Shipments :
               UpdateAsn(a, n) \/ ResubmitAfterRejection(a, n)
  <2> PICK a \in DOMAIN asns, n \in Shipments : UpdateAsn(a, n) \/ ResubmitAfterRejection(a, n)
    BY <1>11
  <2>1. asns[a] \in Asn
    BY AsnRow
  <2>2. PICK row : /\ asns' = [asns EXCEPT ![a] = row]
                   /\ row.po = asns[a].po /\ row.shipped = n /\ row.receipt = NoReceipt
    <3>1. CASE UpdateAsn(a, n)
      <4> DEFINE row == [asns[a] EXCEPT !.shipped = n]
      <4>1. row.po = asns[a].po /\ row.shipped = n /\ row.receipt = asns[a].receipt
        BY <2>1 DEF Asn
      <4>2. asns' = [asns EXCEPT ![a] = row] /\ asns[a].receipt = NoReceipt
        BY <3>1 DEF UpdateAsn
      <4> HIDE DEF row
      <4> QED BY <4>1, <4>2
    <3>2. CASE ResubmitAfterRejection(a, n)
      <4> DEFINE row == [asns[a] EXCEPT !.shipped = n, !.receipt = NoReceipt]
      <4>1. row.po = asns[a].po /\ row.shipped = n /\ row.receipt = NoReceipt
        BY <2>1 DEF Asn
      <4>2. asns' = [asns EXCEPT ![a] = row]
        BY <3>2 DEF ResubmitAfterRejection
      <4> HIDE DEF row
      <4> QED BY <4>1, <4>2
    <3> QED BY <3>1, <3>2
  <2>3. /\ orders' = orders
        /\ n <= orders[asns[a].po].qty - orders[asns[a].po].received
        /\ asns[a].receipt.status # "accepted"
    BY DEF UpdateAsn, ResubmitAfterRejection, Outstanding, CanResubmit, NoReceipt
  <2>4. Good(a)
    BY <1>4, <2>2, <2>3
  <2>5. \A b \in DOMAIN asns : b # a => Good(b)
    BY <1>4, <2>2, <2>3
  <2>6. \A p \in DOMAIN orders' : Full(p)
    BY <1>4, <2>3
  <2>7. DOMAIN asns' = DOMAIN asns
    BY <2>2
  <2> HIDE DEF Good, Full
  <2> QED BY <2>4, <2>5, <2>6, <2>7
<1>12. CASE \E a \in DOMAIN asns, acc \in 0..MaxCount, rej \in 0..MaxCount :
               RecordGoodsReceipt(a, acc, rej)
  <2>1. 0..MaxCount \subseteq Nat
    BY FulfilmentAssumption
  <2>2. PICK a \in DOMAIN asns, acc \in Nat, rej \in Nat :
                /\ Counted(a, acc, rej)
                /\ ReceivePart(a, acc, rej) \/ ReceiveAndDispatch(a, acc, rej)
    BY <1>12, <2>1 DEF RecordGoodsReceipt
  <2> DEFINE o == asns[a].po
             receipt == NewReceipt(acc, rej)
             asn == [asns[a] EXCEPT !.receipt = receipt]
  <2>3. o \in DOMAIN orders /\ asns[a] \in Asn
    BY <1>2, AsnRow
  <2>4. orders[o] \in Order /\ orders[o].qty \in Int /\ orders[o].received \in Nat
    BY <2>3, OrderRow
  <2>5. asn.po = o /\ asn.receipt = receipt
    BY <2>3 DEF Asn
  <2>6. asns' = [asns EXCEPT ![a] = asn] /\ asns[a].receipt = NoReceipt
    BY <2>2 DEF ReceivePart, ReceiveAndDispatch
  <2>7. /\ receipt # NoReceipt
        /\ rej = 0 => receipt.status = "accepted"
    BY DEF NewReceipt, InspectionStatus, NoReceipt
  <2>8. acc + rej <= orders[o].qty - orders[o].received /\ orders[o].status # "Delivered"
    BY <1>4, <2>2, <2>6 DEF Counted, NoReceipt
  <2>9. PICK row : /\ orders' = [orders EXCEPT ![o] = row]
                   /\ \/ row.status # "Delivered"
                      \/ /\ receipt.status = "accepted"
                         /\ row.received = row.qty
    <3>1. CASE ReceivePart(a, acc, rej)
      <4> DEFINE row == [orders[o] EXCEPT !.received = @ + acc]
      <4>1. row.status = orders[o].status
        BY <2>4 DEF Order
      <4>2. orders' = [orders EXCEPT ![o] = row]
        BY <3>1 DEF ReceivePart
      <4> HIDE DEF row
      <4> QED BY <2>8, <4>1, <4>2
    <3>2. CASE ReceiveAndDispatch(a, acc, rej)
      <4> DEFINE row == [orders[o] EXCEPT !.received = orders[o].received + acc,
                                          !.status = "Delivered", !.dispatched = @ + 1]
      <4>1. row.received = orders[o].received + acc /\ row.qty = orders[o].qty
        BY <2>4 DEF Order
      <4>2. /\ orders' = [orders EXCEPT ![o] = row]
            /\ orders[o].received + acc >= orders[o].qty
        BY <3>2 DEF ReceiveAndDispatch, Completes
      <4>3. rej = 0 /\ orders[o].received + acc = orders[o].qty
        BY <2>2, <2>4, <2>8, <4>2
      <4> HIDE DEF row
      <4> QED BY <2>7, <4>1, <4>2, <4>3
    <3> QED BY <2>2, <3>1, <3>2
  <2>10. asns[a].po = o
    OBVIOUS
  <2> HIDE DEF o, receipt, asn
  <2>11. Good(a)
    BY <2>3, <2>5, <2>6, <2>7, <2>9
  <2>12. ASSUME NEW b \in DOMAIN asns, b # a
         PROVE  Good(b)
    <3>1. asns'[b] = asns[b]
      BY <2>6, <2>12
    <3>2. asns[b].po # o /\ asns[b].po \in DOMAIN orders
      BY <1>2, <1>3, <2>10, <2>12
    <3>3. orders'[asns[b].po] = orders[asns[b].po]
      BY <2>9, <3>2
    <3> QED BY <1>4, <3>1, <3>3
  <2>13. \A p \in DOMAIN orders' : Full(p)
    BY <1>4, <2>3, <2>9
  <2>14. DOMAIN asns' = DOMAIN asns
    BY <2>6
  <2> HIDE DEF Good, Full
  <2> QED BY <2>11, <2>12, <2>13, <2>14
<1> HIDE DEF Good, Full
<1>13. CASE \E q \in Quantities : CreatePurchaseRequest(q)
  BY <1>5, <1>13, SameRows
<1>14. CASE \E p \in DOMAIN requests : FulfilFromStock(p) \/ SplitFulfil(p) \/ RaiseRfq(p)
  BY <1>5, <1>14, SameRows
<1>15. CASE \E t \in DOMAIN transfers, q \in Quantities, d \in {"replenish", "writeoff"} :
               RaiseIssue(t, q, d)
  BY <1>5, <1>15, SameRows
<1>16. CASE \E r \in DOMAIN returns : ResolveReturn(r)
  BY <1>5, <1>16, SameRows DEF ResolveReturn
<1>17. CASE \E r \in DOMAIN rfqs : SubmitQuotation(r) \/ SelectVendor(r)
  BY <1>5, <1>6, <1>17, SameRows
<1>18. CASE \E t \in DOMAIN transfers : DispatchTransferOrder(t)
  BY <1>5, <1>18, SameRows
<1>19. CASE \E t \in DOMAIN transfers, s \in Statuses : UpdateTransferStatus(t, s)
  BY <1>5, <1>19, SameRows
<1>20. CASE \E delta \in Adjustments : AdjustInventory(delta)
  BY <1>5, <1>20, SameRows DEF AdjustInventory
<1>21. CASE UNCHANGED vars
  BY <1>5, <1>21 DEF vars
<1> QED BY <1>8, <1>9, <1>10, <1>11, <1>12, <1>13, <1>14, <1>15, <1>16, <1>17, <1>18, <1>19,
           <1>20, <1>21 DEF Next

-----------------------------------------------------------------------------
(* Served once, in full *)

DeliveredRfq(r) == \E o \in DOMAIN orders : orders[o].rfq = r /\ orders[o].status = "Delivered"

\* "fulfil" and "resolve".  One RFQ at most was ever raised for an owner.
OneRfq == \A r, s \in DOMAIN rfqs : rfqs[r].owner = rfqs[s].owner => r = s

\* Whoever an RFQ was raised for gets a transfer order by its delivery alone.
RfqOrTransfer ==
    \A r \in DOMAIN rfqs, t \in DOMAIN transfers :
        rfqs[r].owner = transfers[t].owner => DeliveredRfq(r)

\* Until it is delivered, an RFQ asks for all its owner wants, or a reservation is held
\* with it.
Covered ==
    \A r \in DOMAIN rfqs :
        \/ rfqs[r].qty = Wanted(rfqs[r].owner)
        \/ DeliveredRfq(r)
        \/ \E h \in reservations : h.id = r

FullTransfers == \A t \in DOMAIN transfers : transfers[t].qty = Wanted(transfers[t].owner)
OneTransfer == \A t, u \in DOMAIN transfers : transfers[t].owner = transfers[u].owner => t = u

Served == OneRfq /\ RfqOrTransfer /\ Covered /\ FullTransfers /\ OneTransfer

\* What holds of the rows there were before a step.
StillServed ==
    /\ \A r, s \in DOMAIN rfqs : rfqs'[r].owner = rfqs'[s].owner => r = s
    /\ \A r \in DOMAIN rfqs, t \in DOMAIN transfers :
          rfqs'[r].owner = transfers'[t].owner => DeliveredRfq(r)'
    /\ \A r \in DOMAIN rfqs : \/ rfqs'[r].qty = Wanted(rfqs[r].owner)'
                              \/ DeliveredRfq(r)'
                              \/ \E h \in reservations : h.id = r
    /\ \A t \in DOMAIN transfers : transfers'[t].qty = Wanted(transfers[t].owner)'
    /\ \A t, u \in DOMAIN transfers : transfers'[t].owner = transfers'[u].owner => t = u

LEMMA ServedStays ==
    ASSUME TypeOK, Linked, Kept, FinalStays, Served
    PROVE  StillServed
<1>1. ASSUME NEW r, DeliveredRfq(r) PROVE DeliveredRfq(r)'
  BY <1>1 DEF DeliveredRfq, FinalStays, Final, Kept, KeptOrders
<1>2. ASSUME NEW r \in DOMAIN rfqs PROVE Wanted(rfqs[r].owner)' = Wanted(rfqs[r].owner)
  <2>1. PICK owner \in Owner : owner = rfqs[r].owner
    BY RfqRow
  <2>2. OwnerExists(owner)
    BY <2>1 DEF Linked
  <2>3. Wanted(owner)' = Wanted(owner) /\ rfqs'[r].owner = owner
    BY <2>1, <2>2, OwnerStays DEF Kept, KeptRfqs
  <2> QED BY <2>1, <2>3 DEF Wanted
<1>3. ASSUME NEW t \in DOMAIN transfers
      PROVE  Wanted(transfers[t].owner)' = Wanted(transfers[t].owner)
  <2>1. PICK owner \in Owner : owner = transfers[t].owner
    BY TransferRow
  <2>2. OwnerExists(owner)
    BY <2>1 DEF Linked
  <2>3. Wanted(owner)' = Wanted(owner) /\ transfers'[t].owner = owner
    BY <2>1, <2>2, OwnerStays DEF Kept, KeptTransfers
  <2> QED BY <2>1, <2>3 DEF Wanted
<1>4. \A r, s \in DOMAIN rfqs : rfqs'[r].owner = rfqs'[s].owner => r = s
  BY DEF Served, OneRfq, Kept, KeptRfqs
<1>5. \A r \in DOMAIN rfqs, t \in DOMAIN transfers :
         rfqs'[r].owner = transfers'[t].owner => DeliveredRfq(r)'
  BY <1>1 DEF Served, RfqOrTransfer, Kept, KeptRfqs, KeptTransfers
<1>6. \A r \in DOMAIN rfqs : \/ rfqs'[r].qty = Wanted(rfqs[r].owner)'
                             \/ DeliveredRfq(r)'
                             \/ \E h \in reservations : h.id = r
  BY <1>1, <1>2 DEF Served, Covered, Kept, KeptRfqs
<1>7. \A t \in DOMAIN transfers : transfers'[t].qty = Wanted(transfers[t].owner)'
  BY <1>3 DEF Served, FullTransfers, Kept, KeptTransfers
<1>8. \A t, u \in DOMAIN transfers : transfers'[t].owner = transfers'[u].owner => t = u
  BY DEF Served, OneTransfer, Kept, KeptTransfers
<1> QED BY <1>4, <1>5, <1>6, <1>7, <1>8 DEF StillServed

\* Who may be served waits, when every client keeps its discipline, and nothing was
\* made for who waits.
LEMMA ServedWaits ==
    ASSUME TypeOK, Engaged, {"fulfil", "resolve"} \subseteq Discipline,
           NEW owner \in Owner, OwnerExists(owner), MayServe(owner)
    PROVE  /\ \A r \in DOMAIN rfqs : rfqs[r].owner # owner
           /\ \A t \in DOMAIN transfers : transfers[t].owner # owner
<1>1. Waiting(owner)
  BY DEF MayServe, MayFulfil, MayResolve, Waiting
<1> QED BY <1>1 DEF Engaged

\* The one row a step adds.
LEMMA AddedRow ==
    ASSUME NEW S, NEW table \in Seq(S), NEW row \in S
    PROVE  /\ Len(table) + 1 \notin DOMAIN table
           /\ \A i \in DOMAIN Append(table, row) :
                 i \in DOMAIN table \/ (i = Len(table) + 1 /\ Append(table, row)[i] = row)
<1>1. DOMAIN table = 1..Len(table) /\ Len(table) \in Nat
  BY LenProperties
<1>2. \A i \in 1..(Len(table) + 1) : i \in 1..Len(table) \/ i = Len(table) + 1
  BY <1>1
<1> QED BY <1>1, <1>2, RowAdded

LEMMA NewTransferRow ==
    ASSUME TypeOK, NEW owner \in Owner, NEW q \in Int,
           NEW source \in {"Warehouse Stock", "Vendor Procurement", "Return Replenishment",
                           "Combined Stock + Vendor"},
           transfers' = Append(transfers, NewTransfer(owner, q, source))
    PROVE  \A t \in DOMAIN transfers' :
              \/ t \in DOMAIN transfers
              \/ /\ t = Len(transfers) + 1
                 /\ transfers'[t].owner = owner
                 /\ transfers'[t].qty = q
<1>1. /\ NewTransfer(owner, q, source) \in Transfer
      /\ NewTransfer(owner, q, source).owner = owner
      /\ NewTransfer(owner, q, source).qty = q
  BY TransferTypes
<1>2. transfers \in Seq(Transfer)
  BY DEF TypeOK
<1> QED BY <1>1, <1>2, AddedRow

LEMMA NewRfqRow ==
    ASSUME TypeOK, NEW owner \in Owner, NEW q \in Int,
           rfqs' = Append(rfqs, NewRfq(owner, q))
    PROVE  \A r \in DOMAIN rfqs' :
              \/ r \in DOMAIN rfqs
              \/ /\ r = Len(rfqs) + 1
                 /\ rfqs'[r].owner = owner
                 /\ rfqs'[r].qty = q
<1>1. /\ NewRfq(owner, q) \in Rfq
      /\ NewRfq(owner, q).owner = owner
      /\ NewRfq(owner, q).qty = q
  BY RfqTypes
<1>2. rfqs \in Seq(Rfq)
  BY DEF TypeOK
<1> QED BY <1>1, <1>2, AddedRow

\* Serving from stock whoever waits.
LEMMA SentServes ==
    ASSUME TypeOK, Linked, Engaged, Kept, StillServed,
           {"fulfil", "resolve"} \subseteq Discipline,
           NEW owner \in Owner, Sent(owner)
    PROVE  Served'
<1>1. OwnerExists(owner) /\ MayServe(owner)
  BY DEF Sent
<1>2. /\ \A r \in DOMAIN rfqs : rfqs[r].owner # owner
      /\ \A t \in DOMAIN transfers : transfers[t].owner # owner
  BY <1>1, ServedWaits
<1>3. /\ \A r \in DOMAIN rfqs : rfqs'[r].owner # owner
      /\ \A t \in DOMAIN transfers : transfers'[t].owner # owner
  BY <1>2 DEF Kept, KeptRfqs, KeptTransfers
<1>4. PICK source \in {"Warehouse Stock", "Return Replenishment"} :
         transfers' = Append(transfers, NewTransfer(owner, Wanted(owner), source))
  BY DEF Sent
<1>5. Wanted(owner) \in Int
  BY <1>1, Owners, OwnerTypes DEF Wanted, OwnerExists
<1>6. PICK q \in Int : q = Wanted(owner)
  BY <1>5
<1>7. source \in {"Warehouse Stock", "Vendor Procurement", "Return Replenishment",
                  "Combined Stock + Vendor"}
  OBVIOUS
<1>8. transfers' = Append(transfers, NewTransfer(owner, q, source))
  BY <1>4, <1>6
<1>9. \A t \in DOMAIN transfers' :
         \/ t \in DOMAIN transfers
         \/ /\ t = Len(transfers) + 1
            /\ transfers'[t].owner = owner
            /\ transfers'[t].qty = q
  BY <1>7, <1>8, NewTransferRow
<1>10. Wanted(owner)' = q
  BY <1>1, <1>6, OwnerStays
<1>11. rfqs' = rfqs /\ reservations' = reservations
  BY DEF Sent
<1>12. OneRfq' /\ Covered'
  BY <1>11 DEF StillServed, OneRfq, Covered
<1>13. RfqOrTransfer'
  BY <1>3, <1>9, <1>11 DEF StillServed, RfqOrTransfer
<1>14. OneTransfer'
  BY <1>3, <1>9 DEF StillServed, OneTransfer
<1>15. FullTransfers'
  <2>1. \A t \in DOMAIN transfers' :
           t \notin DOMAIN transfers => transfers'[t].qty = Wanted(transfers[t].owner)'
    BY <1>9, <1>10 DEF Wanted
  <2> QED BY <2>1 DEF StillServed, FullTransfers
<1> QED BY <1>12, <1>13, <1>14, <1>15 DEF Served

\* Serving by a vendor whoever waits.
LEMMA ForwardedServes ==
    ASSUME TypeOK, Linked, Engaged, Kept, StillServed, AvailableNonNegative,
           {"fulfil", "resolve"} \subseteq Discipline,
           NEW owner \in Owner, Forwarded(owner)
    PROVE  Served'
<1>1. OwnerExists(owner) /\ MayServe(owner)
  BY DEF Forwarded
<1>2. /\ \A r \in DOMAIN rfqs : rfqs[r].owner # owner
      /\ \A t \in DOMAIN transfers : transfers[t].owner # owner
  BY <1>1, ServedWaits
<1>3. /\ \A r \in DOMAIN rfqs : rfqs'[r].owner # owner
      /\ \A t \in DOMAIN transfers : transfers'[t].owner # owner
  BY <1>2 DEF Kept, KeptRfqs, KeptTransfers
<1>4. PICK q \in Int :
         /\ rfqs' = Append(rfqs, NewRfq(owner, q))
         /\ \/ /\ reservations' = reservations
               /\ \/ q = Wanted(owner)
                  \/ inventory.available <= 0 /\ q = Wanted(owner) - inventory.available
            \/ \E h \in reservations' :
                  h.id = Len(rfqs) + 1 /\ reservations' = reservations \cup {h}
  BY DEF Forwarded
<1>5. /\ Wanted(owner) \in Int
      /\ inventory.available \in Int
  BY <1>1, Owners, OwnerTypes DEF Wanted, OwnerExists, TypeOK, Inventory
<1>6. \A r \in DOMAIN rfqs' :
         \/ r \in DOMAIN rfqs
         \/ /\ r = Len(rfqs) + 1
            /\ rfqs'[r].owner = owner
            /\ rfqs'[r].qty = q
  BY <1>4, NewRfqRow
<1>7. \/ q = Wanted(owner)
      \/ \E h \in reservations' : h.id = Len(rfqs) + 1
  BY <1>4, <1>5 DEF AvailableNonNegative
<1>8. reservations \subseteq reservations'
  BY <1>4
<1>9. transfers' = transfers
  BY DEF Forwarded
<1>10. FullTransfers' /\ OneTransfer'
  BY <1>9 DEF StillServed, FullTransfers, OneTransfer
<1>11. RfqOrTransfer'
  BY <1>3, <1>6, <1>9 DEF StillServed, RfqOrTransfer
<1>12. OneRfq'
  BY <1>3, <1>6 DEF StillServed, OneRfq
<1>13. Covered'
  <2>1. Wanted(owner)' = Wanted(owner)
    BY <1>1, OwnerStays
  <2>2. ASSUME NEW r \in DOMAIN rfqs', r \notin DOMAIN rfqs
        PROVE  \/ rfqs'[r].qty = Wanted(rfqs[r].owner)'
               \/ \E h \in reservations' : h.id = r
    <3>1. r = Len(rfqs) + 1 /\ rfqs'[r].owner = owner /\ rfqs'[r].qty = q
      BY <1>6, <2>2
    <3> QED BY <1>7, <2>1, <3>1 DEF Wanted
  <2> QED BY <1>8, <2>2 DEF StillServed, Covered
<1> QED BY <1>10, <1>11, <1>12, <1>13 DEF Served

\* A delivery serves its owner in full, and for the first time.
LEMMA DeliveredInFull ==
    ASSUME TypeOK, Linked, NoticeSound, ReservationSound, OrdersForRfqs, OneOrder,
           InspectionsCount, Covered, "count" \in Discipline,
           NEW a \in DOMAIN asns, NEW acc \in Nat, NEW rej \in Nat,
           NEW rfq \in DOMAIN rfqs, rfq = orders[asns[a].po].rfq,
           Counted(a, acc, rej), ReceiveAndDispatch(a, acc, rej)
    PROVE  /\ ~DeliveredRfq(rfq)
           /\ DeliveredRfq(rfq)'
           /\ \E source \in {"Vendor Procurement", "Combined Stock + Vendor"} :
                 DispatchToOwner(rfqs[rfq].owner, Wanted(rfqs[rfq].owner), source)
<1> DEFINE o     == asns[a].po
           owner == rfqs[rfq].owner
           total == orders[o].received + acc
<1>1. /\ o \in DOMAIN orders /\ rfq = orders[o].rfq
      /\ orders' = [orders EXCEPT ![o] =
                        [orders[o] EXCEPT !.received = orders[o].received + acc,
                                          !.status = "Delivered", !.dispatched = @ + 1]]
  BY ReceiveAndDispatchEffect
<1>2. /\ orders[o] \in Order
      /\ orders[o].received \in Nat /\ orders[o].qty \in Int
      /\ asns[a].shipped \in Nat
  BY <1>1, OrderRow, AsnRow, ConstantTypes DEF Order, Asn
<1>3. /\ asns[a].receipt = NoReceipt
      /\ total >= orders[o].qty
      /\ acc + rej = asns[a].shipped
  BY DEF ReceiveAndDispatch, Completes, Counted
<1>4. /\ asns[a].shipped <= orders[o].qty - orders[o].received
      /\ orders[o].status # "Delivered"
  BY <1>3 DEF InspectionsCount, NoReceipt
<1>5. total = orders[o].qty
  BY <1>2, <1>3, <1>4
<1>6. ~DeliveredRfq(rfq)
  <2>1. orders[o].status # "Rejected"
    BY DEF NoticeSound
  <2> QED BY <1>1, <1>4, <2>1 DEF DeliveredRfq, OneOrder
<1>7. DeliveredRfq(rfq)'
  <2> DEFINE row == [orders[o] EXCEPT !.received = orders[o].received + acc,
                                      !.status = "Delivered", !.dispatched = @ + 1]
  <2>1. row.rfq = orders[o].rfq /\ row.status = "Delivered"
    BY <1>2 DEF Order
  <2>2. orders' = [orders EXCEPT ![o] = row]
    BY <1>1
  <2> HIDE DEF row
  <2>3. o \in DOMAIN orders' /\ orders'[o] = row
    BY <1>1, <2>2
  <2> QED BY <2>1, <2>3 DEF DeliveredRfq
<1>8. CASE \E h \in ReservationsOf(owner) :
              DispatchToOwner(owner, h.reserved + h.vendor, "Combined Stock + Vendor")
  <2> PICK h \in ReservationsOf(owner) :
              DispatchToOwner(owner, h.reserved + h.vendor, "Combined Stock + Vendor")
    BY <1>8
  <2>1. h \in reservations /\ h.owner = owner
    BY DEF ReservationsOf
  <2>2. h.reserved + h.vendor = Wanted(owner)
    BY <2>1 DEF ReservationSound
  <2> QED BY <1>6, <1>7, <2>2
<1>9. CASE /\ ReservationsOf(owner) = {}
           /\ DispatchToOwner(owner, total, "Vendor Procurement")
  <2>1. ASSUME NEW h \in reservations, h.id = rfq
        PROVE  FALSE
    <3>1. h.owner = owner
      BY <2>1 DEF ReservationSound
    <3> QED BY <1>9, <3>1 DEF ReservationsOf
  <2>2. rfqs[rfq].qty = Wanted(owner)
    BY <1>1, <1>6, <2>1 DEF Covered
  <2>3. total = Wanted(owner)
    BY <1>1, <1>5, <2>2 DEF OrdersForRfqs
  <2> QED BY <1>6, <1>7, <1>9, <2>3
<1> QED BY <1>8, <1>9 DEF ReceiveAndDispatch

LEMMA DeliveryServes ==
    ASSUME TypeOK, Linked, NoticeSound, ReservationSound, OrdersForRfqs, OneOrder,
           InspectionsCount, Served, Kept, StillServed, "count" \in Discipline,
           NEW a \in DOMAIN asns, NEW acc \in Nat, NEW rej \in Nat,
           Counted(a, acc, rej), ReceiveAndDispatch(a, acc, rej)
    PROVE  Served'
<1>1. PICK rfq \in DOMAIN rfqs : rfq = orders[asns[a].po].rfq
  BY ReceiveAndDispatchEffect
<1>2. PICK owner \in Owner : owner = rfqs[rfq].owner
  BY RfqRow
<1>3. /\ ~DeliveredRfq(rfq)
      /\ DeliveredRfq(rfq)'
      /\ \E source \in {"Vendor Procurement", "Combined Stock + Vendor"} :
            DispatchToOwner(owner, Wanted(owner), source)
  BY <1>1, <1>2, DeliveredInFull DEF Served
<1>4. OwnerExists(owner)
  BY <1>2 DEF Linked
<1>5. Wanted(owner) \in Int
  BY <1>4, Owners, OwnerTypes DEF Wanted, OwnerExists
<1>6. PICK q \in Int : q = Wanted(owner)
  BY <1>5
<1>7. PICK source \in {"Vendor Procurement", "Combined Stock + Vendor"} :
         DispatchToOwner(owner, q, source)
  BY <1>3, <1>6
<1>8. transfers' = Append(transfers, NewTransfer(owner, q, source))
  BY <1>4, <1>7, DispatchEffect
<1>9. source \in {"Warehouse Stock", "Vendor Procurement", "Return Replenishment",
                  "Combined Stock + Vendor"}
  OBVIOUS
<1>10. \A t \in DOMAIN transfers' :
         \/ t \in DOMAIN transfers
         \/ /\ t = Len(transfers) + 1
            /\ transfers'[t].owner = owner
            /\ transfers'[t].qty = q
  BY <1>8, <1>9, NewTransferRow
<1>11. Wanted(owner)' = q
  BY <1>4, <1>6, OwnerStays
<1>12. \A t \in DOMAIN transfers : transfers'[t].owner # owner
  BY <1>2, <1>3 DEF Served, RfqOrTransfer, Kept, KeptTransfers
<1>13. DOMAIN rfqs' = DOMAIN rfqs
  BY SameRows
<1>14. \A r \in DOMAIN rfqs : rfqs'[r].owner = owner => r = rfq
  BY <1>2 DEF Served, OneRfq, Kept, KeptRfqs
<1>15. OneRfq'
  BY <1>13 DEF StillServed, OneRfq
<1>16. RfqOrTransfer'
  BY <1>3, <1>10, <1>13, <1>14 DEF StillServed, RfqOrTransfer
<1>17. Covered'
  <2>1. ASSUME NEW h \in reservations, h \notin reservations'
        PROVE  h.id = rfq
    <3>1. reservations' = reservations \ ReservationsOf(owner)
      BY <1>1, <1>2, ReceiveAndDispatchEffect
    <3>2. h.owner = owner
      BY <2>1, <3>1 DEF ReservationsOf
    <3>3. h.id \in DOMAIN rfqs /\ rfqs[h.id].owner = h.owner
      BY <2>1 DEF ReservationSound
    <3>4. rfqs[h.id].owner = rfqs[rfq].owner
      BY <1>2, <3>2, <3>3
    <3> QED BY <3>3, <3>4 DEF Served, OneRfq
  <2> QED BY <1>3, <1>13, <2>1 DEF StillServed, Covered
<1>18. OneTransfer'
  BY <1>10, <1>12 DEF StillServed, OneTransfer
<1>19. FullTransfers'
  <2>1. \A t \in DOMAIN transfers' :
           t \notin DOMAIN transfers => transfers'[t].qty = Wanted(transfers[t].owner)'
    BY <1>10, <1>11 DEF Wanted
  <2> QED BY <2>1 DEF StillServed, FullTransfers
<1> QED BY <1>15, <1>16, <1>17, <1>18, <1>19 DEF Served

LEMMA ServedStep ==
    ASSUME TypeOK, Linked, AvailableNonNegative, NoticeSound, ReservationSound, Engaged,
           OrdersForRfqs, OneOrder, InspectionsCount, Served,
           {"count", "fulfil", "resolve"} \subseteq Discipline, [Next]_vars
    PROVE  Served'
<1>1. Kept /\ FinalStays
  BY StepKeeps, FinalStep
<1>2. StillServed
  BY <1>1, ServedStays
<1>3. CASE Quiet
  BY <1>2, <1>3 DEF Quiet, StillServed, Served, OneRfq, RfqOrTransfer, Covered, FullTransfers,
                    OneTransfer
<1>4. CASE \E owner \in Owner : Sent(owner) \/ Forwarded(owner)
  BY <1>1, <1>2, <1>4, SentServes, ForwardedServes
<1>5. CASE \E a \in DOMAIN asns, acc, rej \in Nat :
              Counted(a, acc, rej) /\ ReceiveAndDispatch(a, acc, rej)
  BY <1>1, <1>2, <1>5, DeliveryServes
<1> QED BY <1>3, <1>4, <1>5, StepServes

\* What holds of purchase orders and their inspection, and of whoever is served.
Settled == OrdersForRfqs /\ OneOrder /\ InspectionsCount /\ Served

Careful == {"count", "select", "fulfil", "resolve"} \subseteq Discipline

\* Vendors, inspectors and the warehouse's staff being careful, a request or a return is
\* served by one transfer order at most and gets all it asked for, whether from stock, by
\* a vendor or by both, for any quantities and any number of requests.
THEOREM ServedOnceInFull == Adjustments = {} /\ Careful /\ Spec => []ServedOnce
<1> SUFFICES ASSUME Adjustments = {}, Careful PROVE Spec => []ServedOnce
  OBVIOUS
<1>1. Init => Settled
  BY DEF Init, Settled, OrdersForRfqs, OneOrder, InspectionsCount, Served, OneRfq,
         RfqOrTransfer, Covered, FullTransfers, OneTransfer
<1>2. TypeOK /\ Linked /\ Engaged /\ AvailableNonNegative /\ NoticeSound /\ ReservationSound
      /\ Settled /\ [Next]_vars => Settled'
  BY OrdersForRfqsStep, OneOrderStep, InspectionsStep, ServedStep DEF Settled, Careful
<1>3. TypeOK /\ Linked /\ Settled => ServedOnce
  BY DEF Linked, Settled, Served, FullTransfers, OneTransfer, ServedOnce
<1>4. Spec => []AvailableNonNegative
  BY NoOverPromise
<1> QED BY <1>1, <1>2, <1>3, <1>4, TypeCorrect, WhoIsServedWaitsNoMore, NoticesSound,
           ReservationsSound, PTL DEF Spec

-----------------------------------------------------------------------------
(* The status of a request *)

\* "advance".  A transfer order that left has left for good, and so has one that arrived.
ArrivedStays ==
    \A t \in DOMAIN transfers :
        /\ transfers[t].status # "Pending" => transfers'[t].status # "Pending"
        /\ transfers[t].status \in Arrived => transfers'[t].status \in Arrived

LEMMA StatusWritten ==
    ASSUME TypeOK, NEW t \in DOMAIN transfers, NEW row,
           transfers[t].status # "Pending" => row.status # "Pending",
           transfers[t].status \in Arrived => row.status \in Arrived,
           transfers' = [transfers EXCEPT ![t] = row]
    PROVE  ArrivedStays
BY DEF ArrivedStays

LEMMA TransferOrderAdded ==
    ASSUME TypeOK, NEW row \in Transfer, transfers' = Append(transfers, row)
    PROVE  ArrivedStays
<1>1. transfers \in Seq(Transfer)
  BY DEF TypeOK
<1> QED BY <1>1, RowAdded DEF ArrivedStays

LEMMA ArrivedStep ==
    ASSUME TypeOK, Linked, "advance" \in Discipline, [Next]_vars
    PROVE  ArrivedStays
<1>1. CASE transfers' = transfers
  BY <1>1 DEF ArrivedStays
<1>2. ASSUME NEW owner \in Owner, NEW q \in Int,
             NEW source \in {"Warehouse Stock", "Vendor Procurement", "Return Replenishment",
                             "Combined Stock + Vendor"},
             transfers' = Append(transfers, NewTransfer(owner, q, source))
      PROVE  ArrivedStays
  BY <1>2, TransferTypes, TransferOrderAdded
<1>3. CASE \E p \in DOMAIN requests : FulfilFromStock(p) \/ SplitFulfil(p) \/ RaiseRfq(p)
  <2> PICK p \in DOMAIN requests : FulfilFromStock(p) \/ SplitFulfil(p) \/ RaiseRfq(p)
    BY <1>3
  <2>1. CASE FulfilFromStock(p)
    <3>1. RequestOwner(p) \in Owner /\ requests[p].qty \in Int
      BY Owners
    <3>2. transfers' = Append(transfers, NewTransfer(RequestOwner(p), requests[p].qty,
                                                     "Warehouse Stock"))
      BY <2>1 DEF FulfilFromStock
    <3> QED BY <1>2, <3>1, <3>2
  <2> QED BY <1>1, <2>1 DEF SplitFulfil, RaiseRfq
<1>4. CASE \E r \in DOMAIN returns : ResolveReturn(r)
  <2> PICK r \in DOMAIN returns : WriteOffReturn(r) \/ ReplenishFromStock(r) \/ ReplenishByRfq(r)
    BY <1>4 DEF ResolveReturn
  <2>1. CASE ReplenishFromStock(r)
    <3>1. ReturnOwner(r) \in Owner /\ returns[r].qty \in Int
      BY Owners
    <3>2. transfers' = Append(transfers, NewTransfer(ReturnOwner(r), returns[r].qty,
                                                     "Return Replenishment"))
      BY <2>1 DEF ReplenishFromStock
    <3> QED BY <1>2, <3>1, <3>2
  <2> QED BY <1>1, <2>1 DEF WriteOffReturn, ReplenishByRfq
<1>5. CASE \E a \in DOMAIN asns, acc \in 0..MaxCount, rej \in 0..MaxCount :
              RecordGoodsReceipt(a, acc, rej)
  <2>1. 0..MaxCount \subseteq Nat
    BY FulfilmentAssumption
  <2>2. PICK a \in DOMAIN asns, acc \in Nat, rej \in Nat :
                ReceivePart(a, acc, rej) \/ ReceiveAndDispatch(a, acc, rej)
    BY <1>5, <2>1 DEF RecordGoodsReceipt
  <2>3. CASE ReceiveAndDispatch(a, acc, rej)
    <3>1. PICK rfq \in DOMAIN rfqs : rfq = orders[asns[a].po].rfq
      BY <2>3, ReceiveAndDispatchEffect
    <3>2. PICK owner \in Owner : owner = rfqs[rfq].owner
      BY RfqRow
    <3>3. PICK q \in Int, source \in {"Vendor Procurement", "Combined Stock + Vendor"} :
             /\ inventory' = DecreaseOnHand(IncreaseOnHand(inventory, acc), q)
             /\ DispatchToOwner(rfqs[orders[asns[a].po].rfq].owner, q, source)
      BY <2>3, ReceiveAndDispatchEffect
    <3>4. OwnerExists(owner)
      BY <3>2 DEF Linked
    <3>5. transfers' = Append(transfers, NewTransfer(owner, q, source))
      BY <3>1, <3>2, <3>3, <3>4, DispatchEffect
    <3>6. source \in {"Warehouse Stock", "Vendor Procurement", "Return Replenishment",
                      "Combined Stock + Vendor"}
      OBVIOUS
    <3> QED BY <1>2, <3>5, <3>6
  <2> QED BY <1>1, <2>2, <2>3 DEF ReceivePart
<1>6. CASE \E t \in DOMAIN transfers, q \in Quantities, d \in {"replenish", "writeoff"} :
              RaiseIssue(t, q, d)
  <2> PICK t \in DOMAIN transfers, q \in Quantities, d \in {"replenish", "writeoff"} :
              RaiseIssue(t, q, d)
    BY <1>6
  <2> DEFINE row == [transfers[t] EXCEPT !.status = "Delivered"]
  <2>1. row.status \in Arrived /\ row.status # "Pending"
    BY TransferRow DEF Transfer, Arrived
  <2>2. transfers' = [transfers EXCEPT ![t] = row]
    BY DEF RaiseIssue
  <2> HIDE DEF row
  <2> QED BY <2>1, <2>2, StatusWritten
<1>7. CASE \E t \in DOMAIN transfers : DispatchTransferOrder(t)
  <2> PICK t \in DOMAIN transfers : DispatchTransferOrder(t)
    BY <1>7
  <2> DEFINE row == [transfers[t] EXCEPT !.status = "Dispatched", !.items = @ + 1]
  <2>1. transfers[t].status \notin Arrived
    BY DEF DispatchTransferOrder, MayAdvance, TransferRank, Arrived
  <2>2. transfers' = [transfers EXCEPT ![t] = row]
    BY DEF DispatchTransferOrder
  <2>3. row.status # "Pending"
    BY TransferRow DEF Transfer
  <2> HIDE DEF row
  <2> QED BY <2>1, <2>2, <2>3, StatusWritten
<1>8. CASE \E t \in DOMAIN transfers, s \in Statuses : UpdateTransferStatus(t, s)
  <2> PICK t \in DOMAIN transfers, s \in Statuses : UpdateTransferStatus(t, s)
    BY <1>8
  <2> DEFINE row == [transfers[t] EXCEPT !.status = s]
  <2>1. s \in TransferStatuses /\ transfers[t].status \in TransferStatuses
    BY FulfilmentAssumption, TransferRow DEF Transfer
  <2>2. /\ transfers[t].status \in Arrived => s \in Arrived
        /\ s # "Pending"
    BY <2>1 DEF UpdateTransferStatus, MayAdvance, TransferRank, Arrived, TransferStatuses
  <2>3. row.status = s
    BY TransferRow DEF Transfer
  <2>4. transfers' = [transfers EXCEPT ![t] = row]
    BY DEF UpdateTransferStatus
  <2> HIDE DEF row
  <2> QED BY <2>2, <2>3, <2>4, StatusWritten
<1>9. CASE \E q \in Quantities : CreatePurchaseRequest(q)
  BY <1>1, <1>9 DEF CreatePurchaseRequest
<1>10. CASE \E r \in DOMAIN rfqs : SubmitQuotation(r) \/ SelectVendor(r)
  BY <1>1, <1>10 DEF SubmitQuotation, SelectVendor
<1>11. CASE \E o \in DOMAIN orders : AcceptOrder(o) \/ RejectOrder(o)
  BY <1>1, <1>11 DEF AcceptOrder, RejectOrder
<1>12. CASE \E o \in DOMAIN orders, n \in Shipments : CreateAsn(o, n)
  BY <1>1, <1>12 DEF CreateAsn
<1>13. CASE \E a \in DOMAIN asns : SubmitAsn(a)
  BY <1>1, <1>13 DEF SubmitAsn
<1>14. CASE \E a \in DOMAIN asns, n \in Shipments :
               UpdateAsn(a, n) \/ ResubmitAfterRejection(a, n)
  BY <1>1, <1>14 DEF UpdateAsn, ResubmitAfterRejection
<1>15. CASE \E delta \in Adjustments : AdjustInventory(delta)
  BY <1>1, <1>15 DEF AdjustInventory
<1>16. CASE UNCHANGED vars
  BY <1>1, <1>16 DEF vars
<1> QED BY <1>3, <1>4, <1>5, <1>6, <1>7, <1>8, <1>9, <1>10, <1>11, <1>12, <1>13, <1>14, <1>15,
           <1>16 DEF Next

\* An RFQ is raised only for who waits.
LEMMA RfqForWhoWaits ==
    ASSUME TypeOK, Engaged, {"fulfil", "resolve"} \subseteq Discipline,
           NEW owner \in Owner, MadeRfq(owner), [Next]_vars
    PROVE  \A t \in DOMAIN transfers : transfers[t].owner # owner
<1>1. Len(rfqs) + 1 \in DOMAIN rfqs' /\ Len(rfqs) + 1 \notin DOMAIN rfqs
  <2>1. DOMAIN rfqs = 1..Len(rfqs) /\ Len(rfqs) \in Nat
    BY LenProperties DEF TypeOK
  <2> QED BY <2>1 DEF MadeRfq
<1>2. ~Quiet
  BY <1>1 DEF Quiet
<1>3. \A a \in DOMAIN asns, acc, rej \in Nat : ~ReceiveAndDispatch(a, acc, rej)
  BY <1>1, SameRows
<1>4. \A o \in Owner : ~Sent(o)
  BY <1>1 DEF Sent
<1>5. PICK o \in Owner : Forwarded(o)
  BY <1>2, <1>3, <1>4, StepServes
<1>6. PICK q \in Int : rfqs' = Append(rfqs, NewRfq(o, q))
  BY <1>5 DEF Forwarded
<1>7. o = owner
  BY <1>1, <1>6, NewRfqRow DEF MadeRfq
<1> QED BY <1>5, <1>7, ServedWaits DEF Forwarded

LEMMA StatusStep ==
    ASSUME TypeOK, Linked, Engaged, RefsSound, RefsSound', OneTransfer',
           {"fulfil", "resolve", "advance"} \subseteq Discipline, [Next]_vars
    PROVE  \A p \in DOMAIN requests :
               RequestRank[RequestStatus(p)] <= RequestRank[RequestStatus(p)']
<1>1. Kept /\ RequestsMarked /\ ArrivedStays /\ TypeOK'
  BY StepKeeps, StepMarks, ArrivedStep
<1> SUFFICES ASSUME NEW p \in DOMAIN requests
             PROVE  RequestRank[RequestStatus(p)] <= RequestRank[RequestStatus(p)']
  OBVIOUS
<1>2. p \in DOMAIN requests' /\ RequestMarked(p) /\ RequestOwner(p) \in Owner
  BY <1>1, Owners DEF Kept, KeptRequests, RequestsMarked
<1> DEFINE ref == requests[p].ref
<1>3. /\ ref.kind \in {"none", "rfq", "transfer_order"}
      /\ requests'[p].ref.kind \in {"none", "rfq", "transfer_order"}
  <2>1. ref.kind \in {"none", "rfq", "transfer_order"}
    BY RequestRow DEF Request, Ref
  <2> QED BY <1>2, <2>1 DEF RequestMarked, TransferRef, RfqRef
<1>4. /\ ref.kind = "none" => RequestStatus(p) = "pending"
      /\ ref.kind = "rfq" => RequestStatus(p) = "forwarded"
      /\ ref.kind = "transfer_order" =>
            IF transfers[ref.id].status \in Arrived THEN RequestStatus(p) = "completed"
            ELSE RequestStatus(p) = "fulfilled"
  BY <1>3 DEF RequestStatus, Arrived
<1>5. /\ requests'[p].ref.kind = "none" => RequestStatus(p)' = "pending"
      /\ requests'[p].ref.kind = "rfq" => RequestStatus(p)' = "forwarded"
      /\ requests'[p].ref.kind = "transfer_order" =>
            IF transfers'[requests'[p].ref.id].status \in Arrived
            THEN RequestStatus(p)' = "completed" ELSE RequestStatus(p)' = "fulfilled"
  BY <1>3 DEF RequestStatus, Arrived
<1>6. CASE requests'[p] = requests[p]
  <2>1. ref.kind = "transfer_order" => ref.id \in DOMAIN transfers
    BY DEF RefsSound, RequestRefSound
  <2> QED BY <1>1, <1>3, <1>4, <1>5, <1>6, <2>1 DEF ArrivedStays, RequestRank
<1>7. CASE ref.kind = "none"
  BY <1>3, <1>4, <1>5, <1>7 DEF RequestRank
<1>8. CASE ref.kind = "rfq" /\ requests'[p] # requests[p]
  <2>1. requests'[p].ref.kind \in {"rfq", "transfer_order"}
    BY <1>2, <1>8 DEF RequestMarked, TransferRef, RfqRef
  <2> QED BY <1>4, <1>5, <1>8, <2>1 DEF RequestRank
<1>9. CASE ref.kind = "transfer_order" /\ requests'[p] # requests[p]
  <2>1. ref.id \in DOMAIN transfers /\ transfers[ref.id].owner = RequestOwner(p)
    BY <1>9 DEF RefsSound, RequestRefSound
  <2>2. ~MadeRfq(RequestOwner(p))
    BY <1>2, <2>1, RfqForWhoWaits
  <2>3. ~MadeTransfer(RequestOwner(p))
    <3>1. Len(transfers) + 1 \notin DOMAIN transfers
      <4>1. DOMAIN transfers = 1..Len(transfers) /\ Len(transfers) \in Nat
        BY LenProperties DEF TypeOK
      <4> QED BY <4>1
    <3>2. ref.id \in DOMAIN transfers' /\ transfers'[ref.id].owner = RequestOwner(p)
      BY <1>1, <2>1 DEF Kept, KeptTransfers
    <3> QED BY <2>1, <3>1, <3>2 DEF MadeTransfer, OneTransfer
  <2> QED BY <1>2, <1>9, <2>2, <2>3 DEF RequestMarked
<1> QED BY <1>3, <1>6, <1>7, <1>8, <1>9

\* All clients keeping all the disciplines, the status of a request, which no column holds,
\* never goes back, for any quantities and any number of requests.
THEOREM StatusNeverGoesBack ==
    Adjustments = {} /\ Careful /\ "advance" \in Discipline /\ Spec => StatusAdvances
<1> SUFFICES ASSUME Adjustments = {}, Careful, "advance" \in Discipline
             PROVE  Spec => StatusAdvances
  OBVIOUS
<1> DEFINE Advances == \A p \in DOMAIN requests :
                           RequestRank[RequestStatus(p)] <= RequestRank[RequestStatus(p)']
<1>1. Spec => []ServedOnce
  BY ServedOnceInFull
<1>2. TypeOK /\ Linked /\ Engaged /\ RefsSound /\ RefsSound' /\ ServedOnce' /\ [Next]_vars
         => [Advances]_vars
  <2>1. ServedOnce' => OneTransfer'
    BY DEF ServedOnce, OneTransfer
  <2> QED BY <2>1, StatusStep DEF Careful
<1>3. StatusAdvances <=> [][Advances]_vars
  BY DEF StatusAdvances
<1> HIDE DEF Advances
<1> QED BY <1>1, <1>2, <1>3, TypeCorrect, WhoIsServedWaitsNoMore, ReferencesSound, PTL DEF Spec

-----------------------------------------------------------------------------
(* The columns added up *)

ReceivedBy == [o \in DOMAIN orders |-> orders[o].received]
StagedBy   == [o \in DOMAIN orders |->
                  IF orders[o].status = "Delivered" THEN 0 ELSE orders[o].received]
ShippedBy  == [t \in DOMAIN transfers |-> transfers[t].qty]
HeldBy     == [h \in reservations |-> h.reserved]

\* Each column counts finitely many units.
Countable ==
    /\ IsFiniteSet(Units(ReceivedBy))
    /\ IsFiniteSet(Units(StagedBy))
    /\ IsFiniteSet(Units(ShippedBy))
    /\ \A t \in DOMAIN transfers : transfers[t].qty \in Nat

\* What a step adds to the columns.
ReceivedGrows(n) ==
    /\ IsFiniteSet(Units(ReceivedBy))'
    /\ Received \in Int /\ Received' \in Int
    /\ Received' = Received + n
StagedGrows(n) ==
    /\ IsFiniteSet(Units(StagedBy))'
    /\ Staged \in Int /\ Staged' \in Int
    /\ Staged' = Staged + n
ShippedGrows(n) ==
    /\ IsFiniteSet(Units(ShippedBy))'
    /\ Shipped \in Int /\ Shipped' \in Int
    /\ Shipped' = Shipped + n
    /\ \A t \in DOMAIN transfers' : transfers'[t].qty \in Nat

LEMMA Columns ==
    ASSUME Countable
    PROVE  /\ Received \in Nat /\ Received = Tally(ReceivedBy)
           /\ Staged \in Nat /\ Staged = Tally(StagedBy)
           /\ Shipped \in Nat /\ Shipped = Tally(ShippedBy)
BY FS_CardinalityType DEF Countable, Received, Staged, Shipped, Tally, ReceivedBy, StagedBy,
                          ShippedBy

\* Orders whose counts and deliveries stay.
SameOrders ==
    /\ DOMAIN orders' = DOMAIN orders
    /\ \A o \in DOMAIN orders :
          /\ orders'[o].received = orders[o].received
          /\ orders'[o].status = "Delivered" <=> orders[o].status = "Delivered"

LEMMA NothingReceived ==
    ASSUME Countable, SameOrders
    PROVE  ReceivedGrows(0) /\ StagedGrows(0)
<1>1. DOMAIN ReceivedBy' = DOMAIN ReceivedBy
      /\ \A o \in DOMAIN ReceivedBy : ReceivedBy'[o] = ReceivedBy[o]
  BY DEF SameOrders, ReceivedBy
<1>2. DOMAIN StagedBy' = DOMAIN StagedBy
      /\ \A o \in DOMAIN StagedBy : StagedBy'[o] = StagedBy[o]
  BY DEF SameOrders, StagedBy
<1>3. /\ Received' = Tally(ReceivedBy') /\ Staged' = Tally(StagedBy')
  BY DEF Received, Staged, ReceivedBy, StagedBy
<1>4. /\ Units(ReceivedBy') = Units(ReceivedBy) /\ Tally(ReceivedBy') = Tally(ReceivedBy)
      /\ Units(StagedBy') = Units(StagedBy) /\ Tally(StagedBy') = Tally(StagedBy)
  BY <1>1, <1>2, TallySame
<1> QED BY <1>3, <1>4, Columns DEF ReceivedGrows, StagedGrows, Countable

\* One order counts more, or another is there.
LEMMA OrderReceives ==
    ASSUME Countable, NEW o, NEW old \in Nat, NEW new \in Nat,
           IF o \in DOMAIN orders THEN orders[o].received = old ELSE old = 0,
           o \in DOMAIN orders', orders'[o].received = new,
           \A p : p # o => (p \in DOMAIN orders <=> p \in DOMAIN orders'),
           \A p \in DOMAIN orders : p # o => orders'[p] = orders[p]
    PROVE  ReceivedGrows(new - old)
<1>1. PICK c, d : c = ReceivedBy /\ d = ReceivedBy'
  OBVIOUS
<1>2. DifferAt(o, c, old, d, new)
  BY <1>1 DEF DifferAt, ReceivedBy
<1>3. Received = Tally(c) /\ Received' = Tally(d)
  BY <1>1 DEF Received, ReceivedBy
<1>4. IsFiniteSet(Units(c))
  BY <1>1 DEF Countable
<1>5. /\ IsFiniteSet(Units(d))
      /\ Tally(c) \in Nat /\ Tally(d) \in Nat
      /\ Tally(d) - new = Tally(c) - old
  BY <1>2, <1>4, TallyChanged
<1> QED BY <1>1, <1>3, <1>5 DEF ReceivedGrows

LEMMA OrderStages ==
    ASSUME Countable, NEW o, NEW old \in Nat, NEW new \in Nat,
           IF o \in DOMAIN orders
           THEN (IF orders[o].status = "Delivered" THEN 0 ELSE orders[o].received) = old
           ELSE old = 0,
           o \in DOMAIN orders',
           (IF orders'[o].status = "Delivered" THEN 0 ELSE orders'[o].received) = new,
           \A p : p # o => (p \in DOMAIN orders <=> p \in DOMAIN orders'),
           \A p \in DOMAIN orders : p # o => orders'[p] = orders[p]
    PROVE  StagedGrows(new - old)
<1>1. PICK c, d : c = StagedBy /\ d = StagedBy'
  OBVIOUS
<1>2. DifferAt(o, c, old, d, new)
  BY <1>1 DEF DifferAt, StagedBy
<1>3. Staged = Tally(c) /\ Staged' = Tally(d)
  BY <1>1 DEF Staged, StagedBy
<1>4. IsFiniteSet(Units(c))
  BY <1>1 DEF Countable
<1>5. /\ IsFiniteSet(Units(d))
      /\ Tally(c) \in Nat /\ Tally(d) \in Nat
      /\ Tally(d) - new = Tally(c) - old
  BY <1>2, <1>4, TallyChanged
<1> QED BY <1>1, <1>3, <1>5 DEF StagedGrows

\* Transfer orders: none more, or one.
LEMMA NothingShipped ==
    ASSUME Countable, Kept, DOMAIN transfers' = DOMAIN transfers
    PROVE  ShippedGrows(0)
<1>1. DOMAIN ShippedBy' = DOMAIN ShippedBy
      /\ \A t \in DOMAIN ShippedBy : ShippedBy'[t] = ShippedBy[t]
  BY DEF Kept, KeptTransfers, ShippedBy
<1>2. Shipped' = Tally(ShippedBy')
  BY DEF Shipped, ShippedBy
<1>3. /\ Units(ShippedBy') = Units(ShippedBy) /\ Tally(ShippedBy') = Tally(ShippedBy)
  BY <1>1, TallySame
<1>4. \A t \in DOMAIN transfers' : transfers'[t].qty \in Nat
  BY DEF Kept, KeptTransfers, Countable
<1> QED BY <1>2, <1>3, <1>4, Columns DEF ShippedGrows, Countable

LEMMA OneShipped ==
    ASSUME Countable, NEW n, NEW q \in Nat,
           n \notin DOMAIN transfers, n \in DOMAIN transfers', transfers'[n].qty = q,
           \A t : t # n => (t \in DOMAIN transfers <=> t \in DOMAIN transfers'),
           \A t \in DOMAIN transfers : transfers'[t] = transfers[t]
    PROVE  ShippedGrows(q)
<1>1. PICK c, d : c = ShippedBy /\ d = ShippedBy'
  OBVIOUS
<1>2. DifferAt(n, c, 0, d, q)
  BY <1>1 DEF DifferAt, ShippedBy
<1>3. Shipped = Tally(c) /\ Shipped' = Tally(d)
  BY <1>1 DEF Shipped, ShippedBy
<1>4. IsFiniteSet(Units(c))
  BY <1>1 DEF Countable
<1>5. /\ IsFiniteSet(Units(d))
      /\ Tally(c) \in Nat /\ Tally(d) \in Nat
      /\ Tally(d) - q = Tally(c) - 0
  BY <1>2, <1>4, TallyChanged
<1>6. \A t \in DOMAIN transfers' : transfers'[t].qty \in Nat
  BY DEF Countable
<1> QED BY <1>1, <1>3, <1>5, <1>6 DEF ShippedGrows

-----------------------------------------------------------------------------
(* What a step moves *)

\* The row a step adds.
LEMMA OneRowMore ==
    ASSUME NEW S, NEW table \in Seq(S), NEW row \in S
    PROVE  \E n : /\ n \notin DOMAIN table /\ n \in DOMAIN Append(table, row)
                  /\ Append(table, row)[n] = row
                  /\ \A i : i # n => (i \in DOMAIN table <=> i \in DOMAIN Append(table, row))
                  /\ \A i \in DOMAIN table : Append(table, row)[i] = table[i]
<1> DEFINE n == Len(table) + 1
<1>1. /\ DOMAIN table = 1..Len(table) /\ Len(table) \in Nat
      /\ DOMAIN Append(table, row) = 1..(Len(table) + 1)
      /\ Append(table, row)[n] = row
      /\ \A i \in DOMAIN table : Append(table, row)[i] = table[i]
  BY RowAdded
<1>2. ASSUME NEW m \in Nat
      PROVE  /\ m + 1 \notin 1..m /\ m + 1 \in 1..(m + 1)
             /\ \A i \in 1..m : i \in 1..(m + 1)
             /\ \A i \in 1..(m + 1) : i # m + 1 => i \in 1..m
  OBVIOUS
<1>3. /\ n \notin DOMAIN table /\ n \in DOMAIN Append(table, row)
      /\ \A i \in DOMAIN table : i \in DOMAIN Append(table, row)
      /\ \A i \in DOMAIN Append(table, row) : i # n => i \in DOMAIN table
  BY <1>1, <1>2
<1> HIDE DEF n
<1> QED BY <1>1, <1>3

\* A count is a whole number.
LEMMA Whole ==
    ASSUME NEW q \in Nat
    PROVE  q \in Int
OBVIOUS

LEMMA SentShips ==
    ASSUME TypeOK, Countable, NEW owner \in Owner, NEW q \in Nat,
           NEW source \in {"Warehouse Stock", "Vendor Procurement", "Return Replenishment",
                           "Combined Stock + Vendor"},
           transfers' = Append(transfers, NewTransfer(owner, q, source))
    PROVE  ShippedGrows(q)
<1>1. PICK row \in Transfer : row = NewTransfer(owner, q, source) /\ row.qty = q
  <2>1. q \in Int
    BY Whole
  <2> QED BY <2>1, TransferTypes
<1>2. transfers \in Seq(Transfer)
  BY DEF TypeOK
<1>3. transfers' = Append(transfers, row)
  BY <1>1
<1>4. PICK n : /\ n \notin DOMAIN transfers /\ n \in DOMAIN Append(transfers, row)
               /\ Append(transfers, row)[n] = row
               /\ \A t : t # n => (t \in DOMAIN transfers <=> t \in DOMAIN Append(transfers, row))
               /\ \A t \in DOMAIN transfers : Append(transfers, row)[t] = transfers[t]
  BY <1>2, OneRowMore
<1>5. /\ n \in DOMAIN transfers' /\ transfers'[n].qty = q
      /\ \A t : t # n => (t \in DOMAIN transfers <=> t \in DOMAIN transfers')
      /\ \A t \in DOMAIN transfers : transfers'[t] = transfers[t]
  BY <1>1, <1>3, <1>4
<1> QED BY <1>4, <1>5, OneShipped

\* An order given another status than "Delivered".
LEMMA StatusOnly ==
    ASSUME TypeOK, NEW o \in DOMAIN orders, NEW status, status # "Delivered",
           orders[o].status # "Delivered",
           orders' = [orders EXCEPT ![o] = [orders[o] EXCEPT !.status = status]]
    PROVE  SameOrders
<1> DEFINE row == [orders[o] EXCEPT !.status = status]
<1>1. row.received = orders[o].received /\ row.status = status
  BY OrderRow DEF Order
<1>2. orders' = [orders EXCEPT ![o] = row]
  OBVIOUS
<1> HIDE DEF row
<1> QED BY <1>1, <1>2 DEF SameOrders

\* A step that moves no unit.
NothingMoved ==
    /\ SameOrders
    /\ DOMAIN transfers' = DOMAIN transfers
    /\ UNCHANGED <<inventory, reservations, adjusted>>

\* A step that promises free units to an RFQ.
Promises(free) ==
    /\ SameOrders
    /\ DOMAIN transfers' = DOMAIN transfers
    /\ adjusted' = adjusted
    /\ inventory' = ReserveStock(inventory, free)
    /\ \E h : /\ h.reserved = free /\ h.id = Len(rfqs) + 1
              /\ reservations' = reservations \cup {h}

\* A step that sends free units.
Sends(q) ==
    /\ orders' = orders
    /\ UNCHANGED <<reservations, adjusted>>
    /\ inventory' = DecreaseOnHand(ReserveStock(inventory, q), q)
    /\ ShippedGrows(q)

LEMMA RequestMoves ==
    ASSUME TypeOK, Countable, NEW p \in DOMAIN requests,
           FulfilFromStock(p) \/ SplitFulfil(p) \/ RaiseRfq(p)
    PROVE  \/ NothingMoved
           \/ Promises(inventory.available)
           \/ \E q \in Nat : Sends(q)
<1>1. RequestOwner(p) \in Owner /\ requests[p].qty \in Nat
  BY Owners, RequestRow, ConstantTypes DEF Request
<1>2. CASE FulfilFromStock(p)
  <2>1. transfers' = Append(transfers, NewTransfer(RequestOwner(p), requests[p].qty,
                                                   "Warehouse Stock"))
    BY <1>2 DEF FulfilFromStock
  <2>2. ShippedGrows(requests[p].qty)
    BY <1>1, <2>1, SentShips
  <2>3. Sends(requests[p].qty)
    BY <1>2, <2>2 DEF Sends, FulfilFromStock
  <2> QED BY <1>1, <2>3
<1>3. CASE SplitFulfil(p)
  <2> DEFINE h == NewReservation(Len(rfqs) + 1, RequestOwner(p), inventory.available,
                                 requests[p].qty)
  <2>1. h.reserved = inventory.available /\ h.id = Len(rfqs) + 1
    BY DEF NewReservation
  <2>2. /\ reservations' = reservations \cup {h}
        /\ inventory' = ReserveStock(inventory, inventory.available)
        /\ UNCHANGED <<orders, transfers, adjusted>>
    BY <1>3 DEF SplitFulfil
  <2> HIDE DEF h
  <2> QED BY <2>1, <2>2 DEF Promises, SameOrders
<1>4. CASE RaiseRfq(p)
  BY <1>4 DEF RaiseRfq, NothingMoved, SameOrders
<1> QED BY <1>2, <1>3, <1>4

LEMMA ReturnMoves ==
    ASSUME TypeOK, Countable, NEW r \in DOMAIN returns, ResolveReturn(r)
    PROVE  \/ NothingMoved
           \/ Promises(inventory.available)
           \/ \E q \in Nat : Sends(q)
<1>1. ReturnOwner(r) \in Owner /\ returns[r].qty \in Nat
  BY Owners, ReturnRow, ConstantTypes DEF Return
<1>2. CASE ReplenishFromStock(r)
  <2>1. transfers' = Append(transfers, NewTransfer(ReturnOwner(r), returns[r].qty,
                                                   "Return Replenishment"))
    BY <1>2 DEF ReplenishFromStock
  <2>2. ShippedGrows(returns[r].qty)
    BY <1>1, <2>1, SentShips
  <2>3. Sends(returns[r].qty)
    BY <1>2, <2>2 DEF Sends, ReplenishFromStock
  <2> QED BY <1>1, <2>3
<1>3. CASE ReplenishByRfq(r)
  <2> DEFINE h == NewReservation(Len(rfqs) + 1, ReturnOwner(r), inventory.available,
                                 returns[r].qty)
  <2>1. h.reserved = inventory.available /\ h.id = Len(rfqs) + 1
    BY DEF NewReservation
  <2>2. /\ \/ /\ reservations' = reservations \cup {h}
              /\ inventory' = ReserveStock(inventory, inventory.available)
           \/ UNCHANGED <<inventory, reservations>>
        /\ UNCHANGED <<orders, transfers, adjusted>>
    BY <1>3 DEF ReplenishByRfq
  <2> HIDE DEF h
  <2> QED BY <2>1, <2>2 DEF Promises, NothingMoved, SameOrders
<1>4. CASE WriteOffReturn(r)
  BY <1>4 DEF WriteOffReturn, NothingMoved, SameOrders
<1> QED BY <1>2, <1>3, <1>4 DEF ResolveReturn

LEMMA StepMoves ==
    ASSUME TypeOK, Linked, Countable, [Next]_vars
    PROVE  \/ NothingMoved
           \/ Promises(inventory.available)
           \/ \E q \in Nat : Sends(q)
           \/ \E r \in DOMAIN rfqs : SelectVendor(r)
           \/ \E a \in DOMAIN asns, acc, rej \in Nat :
                 /\ Counted(a, acc, rej)
                 /\ ReceivePart(a, acc, rej) \/ ReceiveAndDispatch(a, acc, rej)
           \/ \E delta \in Adjustments : AdjustInventory(delta)
<1>1. CASE \E p \in DOMAIN requests : FulfilFromStock(p) \/ SplitFulfil(p) \/ RaiseRfq(p)
  BY <1>1, RequestMoves
<1>2. CASE \E r \in DOMAIN returns : ResolveReturn(r)
  BY <1>2, ReturnMoves
<1>3. CASE \E a \in DOMAIN asns, acc \in 0..MaxCount, rej \in 0..MaxCount :
              RecordGoodsReceipt(a, acc, rej)
  <2>1. 0..MaxCount \subseteq Nat
    BY FulfilmentAssumption
  <2> QED BY <1>3, <2>1 DEF RecordGoodsReceipt
<1>4. CASE \E q \in Quantities : CreatePurchaseRequest(q)
  BY <1>4 DEF CreatePurchaseRequest, NothingMoved, SameOrders
<1>5. CASE \E t \in DOMAIN transfers, q \in Quantities, d \in {"replenish", "writeoff"} :
              RaiseIssue(t, q, d)
  BY <1>5, SameRows DEF RaiseIssue, NothingMoved, SameOrders
<1>6. CASE \E r \in DOMAIN rfqs : SubmitQuotation(r)
  BY <1>6 DEF SubmitQuotation, NothingMoved, SameOrders
<1>7. CASE \E o \in DOMAIN orders : AcceptOrder(o) \/ RejectOrder(o)
  <2> PICK o \in DOMAIN orders : AcceptOrder(o) \/ RejectOrder(o)
    BY <1>7
  <2>1. PICK status \in {"Accepted", "Rejected"} :
           /\ orders' = [orders EXCEPT ![o] = [orders[o] EXCEPT !.status = status]]
           /\ orders[o].status # "Delivered"
    BY DEF AcceptOrder, RejectOrder
  <2>2. SameOrders
    BY <2>1, StatusOnly
  <2> QED BY <2>2 DEF AcceptOrder, RejectOrder, NothingMoved
<1>8. CASE \E o \in DOMAIN orders, n \in Shipments : CreateAsn(o, n)
  <2> PICK o \in DOMAIN orders, n \in Shipments : CreateAsn(o, n)
    BY <1>8
  <2>1. /\ orders' = [orders EXCEPT ![o] = [orders[o] EXCEPT !.status = "Ready to Ship"]]
        /\ orders[o].status # "Delivered"
    BY DEF CreateAsn, CanCreateAsn, Shippable
  <2>2. SameOrders
    BY <2>1, StatusOnly
  <2> QED BY <2>2 DEF CreateAsn, NothingMoved
<1>9. CASE \E a \in DOMAIN asns : SubmitAsn(a)
  BY <1>9 DEF SubmitAsn, NothingMoved, SameOrders
<1>10. CASE \E a \in DOMAIN asns, n \in Shipments :
               UpdateAsn(a, n) \/ ResubmitAfterRejection(a, n)
  BY <1>10 DEF UpdateAsn, ResubmitAfterRejection, NothingMoved, SameOrders
<1>11. CASE \E t \in DOMAIN transfers : DispatchTransferOrder(t)
  BY <1>11, SameRows DEF DispatchTransferOrder, NothingMoved, SameOrders
<1>12. CASE \E t \in DOMAIN transfers, s \in Statuses : UpdateTransferStatus(t, s)
  BY <1>12, SameRows DEF UpdateTransferStatus, NothingMoved, SameOrders
<1>13. CASE UNCHANGED vars
  BY <1>13 DEF vars, NothingMoved, SameOrders
<1> QED BY <1>1, <1>2, <1>3, <1>4, <1>5, <1>6, <1>7, <1>8, <1>9, <1>10, <1>11, <1>12, <1>13
        DEF Next

-----------------------------------------------------------------------------
(* The stock ledger *)

LEMMA OnHandMoves ==
    ASSUME NEW inv \in Inventory, NEW q \in Int
    PROVE  /\ ReserveStock(inv, q) \in Inventory
           /\ ReserveStock(inv, q).onHand = inv.onHand
           /\ ReserveStock(inv, q).available = inv.available - q
           /\ IncreaseOnHand(inv, q) \in Inventory
           /\ IncreaseOnHand(inv, q).onHand = inv.onHand + q
           /\ IncreaseOnHand(inv, q).available = inv.available
           /\ DecreaseOnHand(inv, q) \in Inventory
           /\ DecreaseOnHand(inv, q).onHand = inv.onHand - q
           /\ DecreaseOnHand(inv, q).available = inv.available
BY DEF ReserveStock, IncreaseOnHand, DecreaseOnHand, Inventory

LEMMA WantedUnits ==
    ASSUME TypeOK, NEW owner \in Owner, OwnerExists(owner)
    PROVE  Wanted(owner) \in Nat
<1>1. CASE owner.kind = "request"
  BY <1>1, RequestRow, ConstantTypes DEF OwnerExists, Wanted
<1>2. CASE owner.kind # "request"
  <2>1. owner.id \in DOMAIN returns
    BY <1>2 DEF OwnerExists
  <2>2. returns[owner.id].qty \in Quantities
    BY <2>1, ReturnRow DEF Return
  <2>3. returns[owner.id].qty \in Nat
    BY <2>2, FulfilmentAssumption
  <2> QED BY <1>2, <2>3 DEF Wanted
<1> QED BY <1>1, <1>2

\* Selecting a vendor adds an order that received nothing.
LEMMA SelectMoves ==
    ASSUME TypeOK, Linked, Countable, NEW r \in DOMAIN rfqs, SelectVendor(r)
    PROVE  ReceivedGrows(0) /\ StagedGrows(0) /\ ShippedGrows(0)
<1> DEFINE order == [rfq |-> r, qty |-> rfqs[r].qty, received |-> 0,
                     status |-> "Pending Acceptance", dispatched |-> 0]
<1>1. r \in Nat /\ rfqs[r].qty \in Int
  BY RfqRow
<1>2. order \in Order /\ order.received = 0 /\ order.status = "Pending Acceptance"
  BY <1>1 DEF Order, OrderStatuses
<1>3. orders' = Append(orders, order) /\ orders \in Seq(Order) /\ transfers' = transfers
  BY DEF SelectVendor, TypeOK
<1> HIDE DEF order
<1>4. PICK o : /\ o \notin DOMAIN orders /\ o \in DOMAIN orders'
               /\ orders'[o] = order
               /\ \A p : p # o => (p \in DOMAIN orders <=> p \in DOMAIN orders')
               /\ \A p \in DOMAIN orders : orders'[p] = orders[p]
  BY <1>2, <1>3, OneRowMore
<1>5. PICK zero \in Nat : zero = 0
  OBVIOUS
<1>6. ReceivedGrows(zero - zero)
  BY <1>2, <1>4, <1>5, OrderReceives
<1>7. StagedGrows(zero - zero)
  BY <1>2, <1>4, <1>5, OrderStages
<1>8. ShippedGrows(0)
  BY <1>3, SelectVendorKeeps, NothingShipped
<1>9. zero - zero = 0
  BY <1>5
<1> QED BY <1>6, <1>7, <1>8, <1>9

\* An inspection counts what it accepts on its order, and on hand.
LEMMA PartMoves ==
    ASSUME TypeOK, Linked, Countable, NEW a \in DOMAIN asns, NEW acc \in Nat, NEW rej \in Nat,
           ReceivePart(a, acc, rej)
    PROVE  /\ ReceivedGrows(acc) /\ ShippedGrows(0)
           /\ StagedGrows(IF orders[asns[a].po].status = "Delivered" THEN 0 ELSE acc)
           /\ inventory' = IncreaseOnHand(inventory, acc)
           /\ UNCHANGED <<reservations, adjusted>>
<1> DEFINE o   == asns[a].po
           n   == orders[o].received
           row == [orders[o] EXCEPT !.received = n + acc]
<1>1. o \in DOMAIN orders
  BY DEF Linked
<1>2. orders[o] \in Order /\ n \in Nat /\ n + acc \in Nat
  <2>1. orders[o] \in Order /\ n \in Nat
    BY <1>1, OrderRow
  <2> QED BY <2>1
<1>3. row.received = n + acc /\ row.status = orders[o].status
  BY <1>2 DEF Order
<1>4. orders' = [orders EXCEPT ![o] = row] /\ transfers' = transfers
  BY DEF ReceivePart
<1> HIDE DEF row, n, o
<1>5. /\ o \in DOMAIN orders' /\ orders'[o] = row
      /\ \A p : p # o => (p \in DOMAIN orders <=> p \in DOMAIN orders')
      /\ \A p \in DOMAIN orders : p # o => orders'[p] = orders[p]
  BY <1>1, <1>4
<1>6. n + acc - n = acc
  BY <1>2
<1>7. ReceivedGrows(acc)
  <2>1. orders[o].received = n /\ orders'[o].received = n + acc
    BY <1>3, <1>5 DEF n
  <2>2. ReceivedGrows(n + acc - n)
    BY <1>1, <1>2, <1>5, <2>1, OrderReceives
  <2> QED BY <1>6, <2>2
<1>8. CASE orders[o].status = "Delivered"
  <2> PICK zero \in Nat : zero = 0
    OBVIOUS
  <2>1. StagedGrows(zero - zero)
    BY <1>1, <1>3, <1>5, <1>8, OrderStages
  <2>2. zero - zero = 0
    OBVIOUS
  <2> QED BY <1>4, <1>7, <1>8, <2>1, <2>2, ReceivePartKeeps, NothingShipped DEF ReceivePart, o
<1>9. CASE orders[o].status # "Delivered"
  <2>1. orders[o].received = n /\ orders'[o].received = n + acc
        /\ orders'[o].status # "Delivered"
    BY <1>3, <1>5, <1>9 DEF n
  <2>2. StagedGrows(n + acc - n)
    BY <1>1, <1>2, <1>5, <1>9, <2>1, OrderStages
  <2> QED BY <1>4, <1>6, <1>7, <1>9, <2>2, ReceivePartKeeps, NothingShipped DEF ReceivePart, o
<1> QED BY <1>8, <1>9

\* A delivery also sends what it delivers, with what was reserved; nothing of its order
\* waits in the warehouse any more.
Awaiting(o) == IF orders[o].status = "Delivered" THEN 0 ELSE orders[o].received

\* What a delivery of so many units in all sends to its owner.
SendsOut(owner, total, q) ==
    \/ ReservationsOf(owner) = {} /\ q = total /\ reservations' = reservations
    \/ \E h \in reservations : /\ ReservationsOf(owner) = {h}
                              /\ q = h.reserved + h.vendor
                              /\ reservations' = reservations \ {h}

LEMMA SentOnDelivery ==
    ASSUME TypeOK, Linked, ReservationSound, NEW a \in DOMAIN asns,
           NEW acc \in Nat, NEW rej \in Nat, NEW owner \in Owner,
           owner = rfqs[orders[asns[a].po].rfq].owner,
           ReceiveAndDispatch(a, acc, rej)
    PROVE  \E q \in Nat, source \in {"Vendor Procurement", "Combined Stock + Vendor"} :
              /\ inventory' = DecreaseOnHand(IncreaseOnHand(inventory, acc), q)
              /\ DispatchToOwner(owner, q, source)
              /\ SendsOut(owner, orders[asns[a].po].received + acc, q)
<1> DEFINE o     == asns[a].po
           total == orders[o].received + acc
<1>1. orders[o].received \in Nat
  BY OrderRow DEF Linked
<1>2. total \in Nat
  BY <1>1
<1>3. ASSUME NEW h \in ReservationsOf(owner)
      PROVE  h \in reservations /\ h.reserved + h.vendor \in Nat
  <2>1. h \in reservations /\ h.owner = owner
    BY DEF ReservationsOf
  <2>2. OwnerExists(owner) /\ h.reserved + h.vendor = Wanted(owner)
    BY <2>1 DEF ReservationSound
  <2> QED BY <2>1, <2>2, WantedUnits
<1>4. CASE \E h \in ReservationsOf(owner) :
              /\ ReservationsOf(owner) = {h}
              /\ inventory' = DecreaseOnHand(IncreaseOnHand(inventory, acc), h.reserved + h.vendor)
              /\ DispatchToOwner(owner, h.reserved + h.vendor, "Combined Stock + Vendor")
              /\ reservations' = reservations \ {h}
  BY <1>3, <1>4 DEF SendsOut
<1>5. CASE /\ ReservationsOf(owner) = {}
           /\ inventory' = DecreaseOnHand(IncreaseOnHand(inventory, acc), total)
           /\ DispatchToOwner(owner, total, "Vendor Procurement")
           /\ reservations' = reservations
  BY <1>2, <1>5 DEF SendsOut
<1> QED BY <1>4, <1>5 DEF ReceiveAndDispatch

LEMMA DeliveryMoves ==
    ASSUME TypeOK, Linked, Countable, NEW a \in DOMAIN asns, NEW acc \in Nat, NEW rej \in Nat,
           NEW o \in DOMAIN orders, o = asns[a].po, ReceiveAndDispatch(a, acc, rej)
    PROVE  ReceivedGrows(acc) /\ StagedGrows(0 - Awaiting(o)) /\ adjusted' = adjusted
<1> DEFINE n   == orders[o].received
           row == [orders[o] EXCEPT !.received = n + acc, !.status = "Delivered",
                                    !.dispatched = @ + 1]
<1>1. orders[o] \in Order /\ n \in Nat
  BY OrderRow
<1>2. n + acc \in Nat /\ n + acc - n = acc /\ Awaiting(o) \in Nat
  BY <1>1 DEF Awaiting
<1>3. row.received = n + acc /\ row.status = "Delivered"
  BY <1>1 DEF Order
<1>4. orders' = [orders EXCEPT ![o] = row] /\ adjusted' = adjusted
  BY ReceiveAndDispatchEffect
<1> HIDE DEF row, n
<1>5. /\ o \in DOMAIN orders' /\ orders'[o] = row
      /\ \A p : p # o => (p \in DOMAIN orders <=> p \in DOMAIN orders')
      /\ \A p \in DOMAIN orders : p # o => orders'[p] = orders[p]
  BY <1>4
<1>6. orders[o].received = n /\ orders'[o].received = n + acc
  BY <1>3, <1>5 DEF n
<1>7. ReceivedGrows(n + acc - n)
  BY <1>1, <1>2, <1>5, <1>6, OrderReceives
<1>8. PICK zero \in Nat : zero = 0
  OBVIOUS
<1>9. PICK m \in Nat : m = Awaiting(o)
  BY <1>2
<1>10. StagedGrows(zero - m)
  BY <1>3, <1>5, <1>8, <1>9, OrderStages DEF Awaiting
<1>11. zero - m = 0 - Awaiting(o)
  BY <1>8, <1>9
<1> QED BY <1>2, <1>4, <1>7, <1>10, <1>11

LEMMA DispatchMoves ==
    ASSUME TypeOK, Countable, NEW owner \in Owner, OwnerExists(owner), NEW q \in Nat,
           NEW source \in {"Vendor Procurement", "Combined Stock + Vendor"},
           DispatchToOwner(owner, q, source)
    PROVE  ShippedGrows(q)
<1>1. source \in {"Warehouse Stock", "Vendor Procurement", "Return Replenishment",
                  "Combined Stock + Vendor"}
  OBVIOUS
<1>2. transfers' = Append(transfers, NewTransfer(owner, q, source))
  BY DEF DispatchToOwner
<1> QED BY <1>1, <1>2, SentShips

\* Units come with an inspection or a correction, and go with a transfer order.
Booked(in, out) ==
    /\ ReceivedGrows(in) /\ ShippedGrows(out)
    /\ IsFiniteSet(Units(StagedBy))'
    /\ inventory'.onHand = inventory.onHand + (adjusted'.onHand - adjusted.onHand) + in - out

LEMMA MovesBooked ==
    ASSUME TypeOK, Linked, ReservationSound, Countable, [Next]_vars
    PROVE  \E in, out \in Nat : Booked(in, out)
<1>1. /\ inventory \in Inventory /\ inventory.onHand \in Int /\ inventory.available \in Int
      /\ adjusted.onHand \in Int /\ Kept
  BY StepKeeps DEF TypeOK, Inventory
<1>2. CASE NothingMoved
  <2>1. Booked(0, 0)
    BY <1>1, <1>2, NothingReceived, NothingShipped DEF Booked, NothingMoved, StagedGrows
  <2> QED BY <2>1
<1>3. CASE Promises(inventory.available)
  <2>1. /\ adjusted' = adjusted
        /\ inventory' = ReserveStock(inventory, inventory.available)
        /\ SameOrders /\ DOMAIN transfers' = DOMAIN transfers
    BY <1>3 DEF Promises
  <2>2. inventory'.onHand = inventory.onHand
    BY <1>1, <2>1, OnHandMoves
  <2>3. Booked(0, 0)
    BY <1>1, <2>1, <2>2, NothingReceived, NothingShipped DEF Booked, StagedGrows
  <2> QED BY <2>3
<1>4. CASE \E q \in Nat : Sends(q)
  <2> PICK q \in Nat : Sends(q)
    BY <1>4
  <2>1. /\ adjusted' = adjusted
        /\ inventory' = DecreaseOnHand(ReserveStock(inventory, q), q)
        /\ SameOrders /\ ShippedGrows(q)
    BY DEF Sends, SameOrders
  <2>2. q \in Int
    BY Whole
  <2>3. inventory'.onHand = inventory.onHand - q
    <3>1. PICK stock \in Inventory : /\ stock = ReserveStock(inventory, q)
                                     /\ stock.onHand = inventory.onHand
      BY <1>1, <2>2, OnHandMoves
    <3>2. inventory' = DecreaseOnHand(stock, q)
      BY <2>1, <3>1
    <3> QED BY <2>2, <3>1, <3>2, OnHandMoves
  <2>4. Booked(0, q)
    BY <1>1, <2>1, <2>3, NothingReceived DEF Booked, StagedGrows
  <2> QED BY <2>4
<1>5. CASE \E r \in DOMAIN rfqs : SelectVendor(r)
  <2>1. /\ ReceivedGrows(0) /\ StagedGrows(0) /\ ShippedGrows(0)
        /\ adjusted' = adjusted /\ inventory' = inventory
    BY <1>5, SelectMoves DEF SelectVendor
  <2>2. Booked(0, 0)
    BY <1>1, <2>1 DEF Booked, StagedGrows
  <2> QED BY <2>2
<1>6. CASE \E a \in DOMAIN asns, acc, rej \in Nat : ReceivePart(a, acc, rej)
  <2> PICK a \in DOMAIN asns, acc \in Nat, rej \in Nat : ReceivePart(a, acc, rej)
    BY <1>6
  <2>1. /\ ReceivedGrows(acc) /\ ShippedGrows(0)
        /\ StagedGrows(IF orders[asns[a].po].status = "Delivered" THEN 0 ELSE acc)
        /\ inventory' = IncreaseOnHand(inventory, acc) /\ adjusted' = adjusted
    BY PartMoves
  <2>2. inventory'.onHand = inventory.onHand + acc
    BY <1>1, <2>1, Whole, OnHandMoves
  <2>3. Booked(acc, 0)
    BY <1>1, <2>1, <2>2 DEF Booked, StagedGrows
  <2> QED BY <2>3
<1>7. CASE \E a \in DOMAIN asns, acc, rej \in Nat : ReceiveAndDispatch(a, acc, rej)
  <2> PICK a \in DOMAIN asns, acc \in Nat, rej \in Nat : ReceiveAndDispatch(a, acc, rej)
    BY <1>7
  <2>1. PICK o \in DOMAIN orders : o = asns[a].po
    BY DEF Linked
  <2>2. PICK owner \in Owner : owner = rfqs[orders[asns[a].po].rfq].owner /\ OwnerExists(owner)
    BY ReceiveAndDispatchEffect
  <2>3. PICK q \in Nat :
           ShippedGrows(q) /\ inventory' = DecreaseOnHand(IncreaseOnHand(inventory, acc), q)
    <3>1. PICK q \in Nat, source \in {"Vendor Procurement", "Combined Stock + Vendor"} :
             /\ inventory' = DecreaseOnHand(IncreaseOnHand(inventory, acc), q)
             /\ DispatchToOwner(owner, q, source)
             /\ SendsOut(owner, orders[asns[a].po].received + acc, q)
      BY <2>2, SentOnDelivery
    <3>2. ShippedGrows(q)
      BY <2>2, <3>1, DispatchMoves
    <3> QED BY <3>1, <3>2
  <2>4. ReceivedGrows(acc) /\ StagedGrows(0 - Awaiting(o)) /\ adjusted' = adjusted
    BY <2>1, DeliveryMoves
  <2>5. inventory'.onHand = inventory.onHand + acc - q
    <3>1. q \in Int /\ acc \in Int
      OBVIOUS
    <3>2. PICK stock \in Inventory : /\ stock = IncreaseOnHand(inventory, acc)
                                     /\ stock.onHand = inventory.onHand + acc
      BY <1>1, <3>1, OnHandMoves
    <3>3. inventory' = DecreaseOnHand(stock, q)
      BY <2>3, <3>2
    <3>4. inventory'.onHand = stock.onHand - q
      BY <3>1, <3>3, OnHandMoves
    <3> QED BY <1>1, <3>1, <3>2, <3>4
  <2>6. IsFiniteSet(Units(StagedBy))'
    BY <2>4 DEF StagedGrows
  <2>7. inventory'.onHand = inventory.onHand + (adjusted'.onHand - adjusted.onHand) + acc - q
    BY <1>1, <2>4, <2>5
  <2>8. Booked(acc, q)
    BY <2>3, <2>4, <2>6, <2>7 DEF Booked
  <2> QED BY <2>8
<1>8. CASE \E delta \in Adjustments : AdjustInventory(delta)
  <2> PICK delta \in Adjustments : AdjustInventory(delta)
    BY <1>8
  <2>1. delta \in Int \X Int
    BY FulfilmentAssumption
  <2>2. /\ inventory'.onHand = inventory.onHand + delta[1]
        /\ adjusted'.onHand = adjusted.onHand + delta[1]
        /\ delta[1] \in Int
    BY <2>1 DEF AdjustInventory
  <2>3. SameOrders /\ DOMAIN transfers' = DOMAIN transfers
    BY DEF AdjustInventory, SameOrders
  <2>4. Booked(0, 0)
    BY <1>1, <2>2, <2>3, NothingReceived, NothingShipped DEF Booked, StagedGrows
  <2> QED BY <2>4
<1> QED BY <1>2, <1>3, <1>4, <1>5, <1>6, <1>7, <1>8, StepMoves

Booking == Countable /\ OnHandLedger

LEMMA LedgerStep ==
    ASSUME TypeOK, Linked, ReservationSound, Booking, [Next]_vars
    PROVE  Booking'
<1>1. PICK in, out \in Nat : Booked(in, out)
  BY MovesBooked DEF Booking
<1>2. Countable'
  BY <1>1 DEF Booked, ReceivedGrows, ShippedGrows, Countable
<1>3. /\ inventory.onHand \in Int /\ adjusted.onHand \in Int /\ Opening \in Int
      /\ inventory'.onHand \in Int /\ adjusted'.onHand \in Int
  <2>1. TypeOK'
    BY StepKeeps
  <2> QED BY <2>1, FulfilmentAssumption DEF TypeOK, Inventory
<1>4. OnHandLedger'
  BY <1>1, <1>3 DEF Booked, ReceivedGrows, ShippedGrows, OnHandLedger, Booking
<1> QED BY <1>2, <1>4 DEF Booking

LEMMA BooksOpen ==
    ASSUME Init
    PROVE  Booking /\ Staged = 0
<1>1. DOMAIN ReceivedBy = {} /\ DOMAIN StagedBy = {} /\ DOMAIN ShippedBy = {}
  BY DEF Init, ReceivedBy, StagedBy, ShippedBy
<1>2. /\ Received = Tally(ReceivedBy) /\ Staged = Tally(StagedBy) /\ Shipped = Tally(ShippedBy)
  BY DEF Received, Staged, Shipped, ReceivedBy, StagedBy, ShippedBy
<1>3. Received = 0 /\ Staged = 0 /\ Shipped = 0
  BY <1>1, <1>2, TallyOfNothing
<1>4. Countable
  <2>1. \A t \in DOMAIN transfers : transfers[t].qty \in Nat
    BY DEF Init
  <2> QED BY <1>1, <2>1, TallyOfNothing DEF Countable
<1>5. inventory.onHand = Opening /\ adjusted.onHand = 0 /\ Opening \in Int
  BY FulfilmentAssumption DEF Init
<1> QED BY <1>3, <1>4, <1>5 DEF Booking, OnHandLedger

\* The stock ledger adds up, whatever the clients do and however many rows there are: what
\* is on hand is what there was, what inspections accepted and corrections added, less what
\* transfer orders took.
THEOREM UnitsAccountedFor == Spec => []OnHandLedger
<1>1. Init => Booking
  BY BooksOpen
<1>2. TypeOK /\ Linked /\ ReservationSound /\ Booking /\ [Next]_vars => Booking'
  BY LedgerStep
<1>3. Booking => OnHandLedger
  BY DEF Booking
<1>4. Spec => []Booking
  BY <1>1, <1>2, TypeCorrect, ReservationsSound, PTL DEF Spec
<1> QED BY <1>3, <1>4, PTL

-----------------------------------------------------------------------------
(* Where the stock is *)

LEMMA OneRfqStep ==
    ASSUME TypeOK, Linked, Engaged, OneRfq, {"fulfil", "resolve"} \subseteq Discipline,
           [Next]_vars
    PROVE  OneRfq'
<1>1. Kept
  BY StepKeeps
<1>2. \A r, s \in DOMAIN rfqs : rfqs'[r].owner = rfqs'[s].owner => r = s
  BY <1>1 DEF OneRfq, Kept, KeptRfqs
<1>3. CASE DOMAIN rfqs' = DOMAIN rfqs
  BY <1>2, <1>3 DEF OneRfq
<1>4. CASE \E owner \in Owner : Forwarded(owner)
  <2> PICK owner \in Owner : Forwarded(owner)
    BY <1>4
  <2>1. \A r \in DOMAIN rfqs : rfqs[r].owner # owner
    BY ServedWaits DEF Forwarded
  <2>2. \A r \in DOMAIN rfqs : rfqs'[r].owner # owner
    BY <1>1, <2>1 DEF Kept, KeptRfqs
  <2>3. PICK q \in Int : rfqs' = Append(rfqs, NewRfq(owner, q))
    BY DEF Forwarded
  <2>4. \A r \in DOMAIN rfqs' :
           r \in DOMAIN rfqs \/ (r = Len(rfqs) + 1 /\ rfqs'[r].owner = owner)
    BY <2>3, NewRfqRow
  <2> QED BY <1>2, <2>2, <2>4 DEF OneRfq
<1>5. CASE Quiet
  BY <1>3, <1>5 DEF Quiet
<1>6. CASE \E owner \in Owner : Sent(owner)
  BY <1>3, <1>6 DEF Sent
<1>7. CASE \E a \in DOMAIN asns, acc, rej \in Nat :
              Counted(a, acc, rej) /\ ReceiveAndDispatch(a, acc, rej)
  BY <1>3, <1>7, SameRows
<1> QED BY <1>4, <1>5, <1>6, <1>7, StepServes

\* What a step adds to what is held back.
HeldFinite == IsFiniteSet(Units(HeldBy)) /\ \A h \in reservations : h.reserved \in Nat
HeldGrows(n) ==
    /\ HeldFinite'
    /\ HeldBack \in Int /\ HeldBack' \in Int
    /\ HeldBack' = HeldBack + n

LEMMA HeldSame ==
    ASSUME HeldFinite, reservations' = reservations
    PROVE  HeldGrows(0)
<1>1. HeldFinite'
  BY DEF HeldFinite, HeldBy
<1>2. HeldBack' = HeldBack
  BY DEF HeldBack
<1>3. HeldBack \in Nat
  BY FS_CardinalityType DEF HeldBack, HeldFinite, HeldBy, Tally
<1> QED BY <1>1, <1>2, <1>3 DEF HeldGrows

LEMMA HeldMore ==
    ASSUME HeldFinite, NEW h, h \notin reservations, NEW n \in Nat, h.reserved = n,
           reservations' = reservations \cup {h}
    PROVE  HeldGrows(n)
<1>1. PICK c, d : c = HeldBy /\ d = HeldBy'
  OBVIOUS
<1>2. PICK zero \in Nat : zero = 0
  OBVIOUS
<1>3. DifferAt(h, c, zero, d, n)
  BY <1>1, <1>2 DEF DifferAt, HeldBy
<1>4. HeldBack = Tally(c) /\ HeldBack' = Tally(d)
  BY <1>1 DEF HeldBack, HeldBy
<1>5. IsFiniteSet(Units(c))
  BY <1>1 DEF HeldFinite
<1>6. /\ IsFiniteSet(Units(d))
      /\ Tally(c) \in Nat /\ Tally(d) \in Nat
      /\ Tally(d) - n = Tally(c) - zero
  BY <1>3, <1>5, TallyChanged
<1>7. HeldFinite'
  BY <1>1, <1>6 DEF HeldFinite
<1> QED BY <1>2, <1>4, <1>6, <1>7 DEF HeldGrows

LEMMA HeldLess ==
    ASSUME HeldFinite, NEW h \in reservations, reservations' = reservations \ {h}
    PROVE  HeldGrows(0 - h.reserved) /\ h.reserved \in Nat
<1>1. PICK c, d : c = HeldBy /\ d = HeldBy'
  OBVIOUS
<1>2. PICK zero \in Nat : zero = 0
  OBVIOUS
<1>3. PICK n \in Nat : n = h.reserved
  BY DEF HeldFinite
<1>4. DifferAt(h, c, n, d, zero)
  BY <1>1, <1>2, <1>3 DEF DifferAt, HeldBy
<1>5. HeldBack = Tally(c) /\ HeldBack' = Tally(d)
  BY <1>1 DEF HeldBack, HeldBy
<1>6. IsFiniteSet(Units(c))
  BY <1>1 DEF HeldFinite
<1>7. /\ IsFiniteSet(Units(d))
      /\ Tally(c) \in Nat /\ Tally(d) \in Nat
      /\ Tally(d) - zero = Tally(c) - n
  BY <1>4, <1>6, TallyChanged
<1>8. HeldFinite'
  BY <1>1, <1>7 DEF HeldFinite
<1>9. HeldBack' = HeldBack + (0 - n)
  BY <1>2, <1>5, <1>7
<1> QED BY <1>3, <1>5, <1>7, <1>8, <1>9 DEF HeldGrows

\* Nothing moved, or every unit that came or went is free, reserved or staged.
Balanced ==
    /\ HeldFinite'
    /\ HeldBack \in Int /\ HeldBack' \in Int
    /\ Staged \in Int /\ Staged' \in Int
    /\ inventory'.onHand - inventory'.available - HeldBack' - Staged'
         = inventory.onHand - inventory.available - HeldBack - Staged

LEMMA PromisesBalance ==
    ASSUME TypeOK, Countable, HeldFinite, ReservationSound, AvailableNonNegative,
           Promises(inventory.available)
    PROVE  Balanced
<1>1. inventory \in Inventory /\ inventory.onHand \in Int /\ inventory.available \in Int
  BY DEF TypeOK, Inventory
<1>2. PICK free \in Nat : free = inventory.available
  BY <1>1 DEF AvailableNonNegative
<1>3. SameOrders /\ inventory' = ReserveStock(inventory, free)
  BY <1>2 DEF Promises
<1>4. PICK h : /\ h.reserved = free /\ h.id = Len(rfqs) + 1
               /\ reservations' = reservations \cup {h}
  BY <1>2 DEF Promises
<1>5. h \notin reservations
  <2>1. DOMAIN rfqs = 1..Len(rfqs) /\ Len(rfqs) \in Nat
    BY LenProperties DEF TypeOK
  <2>2. Len(rfqs) + 1 \notin DOMAIN rfqs
    BY <2>1
  <2> QED BY <1>4, <2>2 DEF ReservationSound
<1>6. HeldGrows(free)
  BY <1>4, <1>5, HeldMore
<1>7. StagedGrows(0)
  BY <1>3, NothingReceived
<1>8. inventory'.onHand = inventory.onHand /\ inventory'.available = inventory.available - free
  <2>1. free \in Int
    OBVIOUS
  <2> QED BY <1>1, <1>3, <2>1, OnHandMoves
<1> QED BY <1>1, <1>2, <1>6, <1>7, <1>8 DEF Balanced, HeldGrows, StagedGrows

LEMMA SendsBalance ==
    ASSUME TypeOK, Countable, HeldFinite, NEW q \in Nat, Sends(q)
    PROVE  Balanced
<1>1. inventory \in Inventory /\ inventory.onHand \in Int /\ inventory.available \in Int
  BY DEF TypeOK, Inventory
<1>2. SameOrders /\ reservations' = reservations
  BY DEF Sends, SameOrders
<1>3. q \in Int
  OBVIOUS
<1>4. PICK stock \in Inventory : /\ stock = ReserveStock(inventory, q)
                                 /\ stock.onHand = inventory.onHand
                                 /\ stock.available = inventory.available - q
  BY <1>1, <1>3, OnHandMoves
<1>5. inventory' = DecreaseOnHand(stock, q)
  BY <1>4 DEF Sends
<1>6. inventory'.onHand = stock.onHand - q /\ inventory'.available = stock.available
  BY <1>3, <1>4, <1>5, OnHandMoves
<1>7. HeldGrows(0) /\ StagedGrows(0)
  BY <1>2, HeldSame, NothingReceived
<1> QED BY <1>1, <1>3, <1>4, <1>6, <1>7 DEF Balanced, HeldGrows, StagedGrows

LEMMA PartBalances ==
    ASSUME TypeOK, Linked, Countable, HeldFinite, InspectionsCount,
           NEW a \in DOMAIN asns, NEW acc \in Nat, NEW rej \in Nat, ReceivePart(a, acc, rej)
    PROVE  Balanced
<1>1. inventory \in Inventory /\ inventory.onHand \in Int /\ inventory.available \in Int
  BY DEF TypeOK, Inventory
<1>2. orders[asns[a].po].status # "Delivered"
  BY DEF ReceivePart, InspectionsCount, NoReceipt
<1>3. /\ StagedGrows(acc) /\ reservations' = reservations
      /\ inventory' = IncreaseOnHand(inventory, acc)
  BY <1>2, PartMoves
<1>4. acc \in Int
  OBVIOUS
<1>5. inventory'.onHand = inventory.onHand + acc /\ inventory'.available = inventory.available
  BY <1>1, <1>3, <1>4, OnHandMoves
<1>6. HeldGrows(0)
  BY <1>3, HeldSame
<1> QED BY <1>1, <1>3, <1>4, <1>5, <1>6 DEF Balanced, HeldGrows, StagedGrows

\* What a delivery sends is what its order staged, what it accepts and what was reserved
\* with its RFQ.
LEMMA DeliveredUnits ==
    ASSUME TypeOK, Linked, NoticeSound, ReservationSound, OrdersForRfqs, OneRfq,
           InspectionsCount, "count" \in Discipline,
           NEW a \in DOMAIN asns, NEW acc \in Nat, NEW rej \in Nat,
           NEW o \in DOMAIN orders, o = asns[a].po,
           NEW owner \in Owner, owner = rfqs[orders[o].rfq].owner,
           Counted(a, acc, rej), ReceiveAndDispatch(a, acc, rej)
    PROVE  /\ orders[o].status # "Delivered"
           /\ \A h \in reservations : h.owner = owner => orders[o].received + acc = h.vendor
<1>1. /\ orders[o].received \in Nat /\ orders[o].qty \in Int /\ asns[a].shipped \in Nat
  BY OrderRow, AsnRow, ConstantTypes DEF Order, Asn
<1>2. /\ asns[a].receipt = NoReceipt
      /\ orders[o].received + acc >= orders[o].qty
      /\ acc + rej = asns[a].shipped
  BY DEF ReceiveAndDispatch, Completes, Counted
<1>3. /\ asns[a].shipped <= orders[o].qty - orders[o].received
      /\ orders[o].status # "Delivered"
  BY <1>2 DEF InspectionsCount, NoReceipt
<1>4. orders[o].received + acc = orders[o].qty
  BY <1>1, <1>2, <1>3
<1>5. ASSUME NEW h \in reservations, h.owner = owner
      PROVE  orders[o].qty = h.vendor
  <2>1. orders[o].rfq \in DOMAIN rfqs /\ orders[o].qty = rfqs[orders[o].rfq].qty
    BY DEF Linked, OrdersForRfqs
  <2>2. h.id = orders[o].rfq /\ rfqs[h.id].qty = h.vendor
    BY <1>5, <2>1 DEF ReservationSound, OneRfq
  <2> QED BY <2>1, <2>2
<1> QED BY <1>3, <1>4, <1>5

LEMMA DeliveryBalances ==
    ASSUME TypeOK, Linked, Countable, HeldFinite, NoticeSound, ReservationSound,
           OrdersForRfqs, OneRfq, InspectionsCount, "count" \in Discipline,
           NEW a \in DOMAIN asns, NEW acc \in Nat, NEW rej \in Nat,
           Counted(a, acc, rej), ReceiveAndDispatch(a, acc, rej)
    PROVE  Balanced
<1>1. inventory \in Inventory /\ inventory.onHand \in Int /\ inventory.available \in Int
  BY DEF TypeOK, Inventory
<1>2. PICK o \in DOMAIN orders : o = asns[a].po
  BY DEF Linked
<1>3. PICK owner \in Owner : owner = rfqs[orders[o].rfq].owner
  BY <1>2, ReceiveAndDispatchEffect
<1>4. /\ orders[o].status # "Delivered"
      /\ \A h \in reservations : h.owner = owner => orders[o].received + acc = h.vendor
  BY <1>2, <1>3, DeliveredUnits
<1>5. PICK n \in Nat : n = orders[o].received /\ n = Awaiting(o)
  BY <1>4, OrderRow DEF Awaiting
<1>6. StagedGrows(0 - n)
  BY <1>2, <1>5, DeliveryMoves
<1>7. PICK q \in Nat : /\ inventory' = DecreaseOnHand(IncreaseOnHand(inventory, acc), q)
                       /\ SendsOut(owner, n + acc, q)
  BY <1>2, <1>3, <1>5, SentOnDelivery
<1>8. inventory'.onHand = inventory.onHand + acc - q /\ inventory'.available = inventory.available
  <2>1. q \in Int /\ acc \in Int
    OBVIOUS
  <2>2. PICK stock \in Inventory : /\ stock = IncreaseOnHand(inventory, acc)
                                   /\ stock.onHand = inventory.onHand + acc
                                   /\ stock.available = inventory.available
    BY <1>1, <2>1, OnHandMoves
  <2>3. inventory' = DecreaseOnHand(stock, q)
    BY <1>7, <2>2
  <2>4. inventory'.onHand = stock.onHand - q /\ inventory'.available = stock.available
    BY <2>1, <2>3, OnHandMoves
  <2> QED BY <1>1, <2>1, <2>2, <2>4
<1>9. CASE q = n + acc /\ reservations' = reservations
  <2>1. HeldGrows(0)
    BY <1>9, HeldSame
  <2> QED BY <1>1, <1>6, <1>8, <1>9, <2>1 DEF Balanced, HeldGrows, StagedGrows
<1>10. CASE \E h \in reservations : /\ ReservationsOf(owner) = {h}
                                    /\ q = h.reserved + h.vendor
                                    /\ reservations' = reservations \ {h}
  <2> PICK h \in reservations : /\ ReservationsOf(owner) = {h}
                                /\ q = h.reserved + h.vendor
                                /\ reservations' = reservations \ {h}
    BY <1>10
  <2>1. h.owner = owner
    BY DEF ReservationsOf
  <2>2. n + acc = h.vendor
    BY <1>4, <1>5, <2>1
  <2>3. HeldGrows(0 - h.reserved) /\ h.reserved \in Nat
    BY HeldLess
  <2>4. PICK held \in Nat : held = h.reserved
    BY <2>3
  <2>5. q = held + (n + acc) /\ HeldGrows(0 - held)
    BY <2>2, <2>3, <2>4
  <2> QED BY <1>1, <1>6, <1>8, <2>5 DEF Balanced, HeldGrows, StagedGrows
<1> QED BY <1>7, <1>9, <1>10 DEF SendsOut

LEMMA BalanceStep ==
    ASSUME TypeOK, Linked, Countable, HeldFinite, StockConserved, NoticeSound,
           ReservationSound, AvailableNonNegative, OrdersForRfqs, OneRfq, InspectionsCount,
           "count" \in Discipline, Adjustments = {}, [Next]_vars
    PROVE  HeldFinite' /\ StockConserved'
<1>1. inventory.onHand \in Int /\ inventory.available \in Int
  BY DEF TypeOK, Inventory
<1>2. CASE NothingMoved
  <2>1. HeldGrows(0) /\ StagedGrows(0) /\ inventory' = inventory
    BY <1>2, HeldSame, NothingReceived DEF NothingMoved
  <2> QED BY <1>1, <2>1 DEF StockConserved, HeldGrows, StagedGrows
<1>3. CASE \E r \in DOMAIN rfqs : SelectVendor(r)
  <2>1. HeldGrows(0) /\ StagedGrows(0) /\ inventory' = inventory
    BY <1>3, HeldSame, SelectMoves DEF SelectVendor
  <2> QED BY <1>1, <2>1 DEF StockConserved, HeldGrows, StagedGrows
<1>4. CASE Balanced
  <2>1. inventory'.onHand \in Int /\ inventory'.available \in Int
    <3>1. TypeOK'
      BY StepKeeps
    <3> QED BY <3>1 DEF TypeOK, Inventory
  <2> QED BY <1>1, <1>4, <2>1 DEF Balanced, StockConserved
<1> QED BY <1>2, <1>3, <1>4, StepMoves, PromisesBalance, SendsBalance, PartBalances,
           DeliveryBalances

\* What holds of the stock, and of what was ordered and promised from it.
Stocked ==
    /\ Countable /\ HeldFinite /\ StockConserved
    /\ OrdersForRfqs /\ OneRfq /\ InspectionsCount

LEMMA AlwaysStocked ==
    Adjustments = {} /\ {"count", "fulfil", "resolve"} \subseteq Discipline /\ Spec
        => []Stocked
<1> SUFFICES ASSUME Adjustments = {}, {"count", "fulfil", "resolve"} \subseteq Discipline
             PROVE  Spec => []Stocked
  OBVIOUS
<1>1. Init => Stocked
  <2> SUFFICES ASSUME Init PROVE Stocked
    OBVIOUS
  <2>1. Countable /\ Staged = 0
    BY BooksOpen DEF Booking
  <2>2. DOMAIN HeldBy = {} /\ HeldBack = Tally(HeldBy)
    BY DEF Init, HeldBy, HeldBack
  <2>3. HeldBack = 0 /\ HeldFinite
    BY <2>2, TallyOfNothing DEF HeldFinite, Init
  <2>4. inventory.onHand = Opening /\ inventory.available = Opening /\ Opening \in Nat
    BY FulfilmentAssumption DEF Init
  <2>5. OrdersForRfqs /\ OneRfq /\ InspectionsCount
    BY DEF Init, OrdersForRfqs, OneRfq, InspectionsCount
  <2> QED BY <2>1, <2>3, <2>4, <2>5 DEF Stocked, StockConserved
<1>2. TypeOK /\ Linked /\ Engaged /\ AvailableNonNegative /\ NoticeSound /\ ReservationSound
      /\ Stocked /\ [Next]_vars => Stocked'
  <2> SUFFICES ASSUME TypeOK, Linked, Engaged, AvailableNonNegative, NoticeSound,
                      ReservationSound, Stocked, [Next]_vars
               PROVE  Stocked'
    OBVIOUS
  <2>1. Countable'
    BY MovesBooked DEF Stocked, Booked, ReceivedGrows, ShippedGrows, Countable
  <2>2. HeldFinite' /\ StockConserved'
    BY BalanceStep DEF Stocked
  <2>3. OrdersForRfqs' /\ OneRfq' /\ InspectionsCount'
    BY OrdersForRfqsStep, OneRfqStep, InspectionsStep DEF Stocked
  <2> QED BY <2>1, <2>2, <2>3 DEF Stocked
<1>3. Spec => []AvailableNonNegative
  BY NoOverPromise
<1> QED BY <1>1, <1>2, <1>3, TypeCorrect, WhoIsServedWaitsNoMore, NoticesSound,
           ReservationsSound, PTL DEF Spec

\* Vendors, inspectors and the warehouse's staff being careful, no unit on hand is lost and
\* none is promised twice: each is free, reserved, or waits for the rest of its order.
THEOREM EveryUnitPlaced ==
    Adjustments = {} /\ {"count", "fulfil", "resolve"} \subseteq Discipline /\ Spec
        => []StockConserved
<1>1. Stocked => StockConserved
  BY DEF Stocked
<1> QED BY <1>1, AlwaysStocked, PTL

-----------------------------------------------------------------------------
(* What inspections counted *)

\* No order loses what was received for it.
ReceivedStays ==
    \A o \in DOMAIN orders : o \in DOMAIN orders' /\ orders'[o].received >= orders[o].received

LEMMA ReceivedGiven ==
    ASSUME TypeOK, NEW o \in DOMAIN orders, NEW row, row.received \in Int,
           row.received >= orders[o].received, orders' = [orders EXCEPT ![o] = row]
    PROVE  ReceivedStays
<1>1. \A p \in DOMAIN orders : orders[p].received \in Nat
  BY OrderRow
<1> QED BY <1>1 DEF ReceivedStays

LEMMA ReceivedStep ==
    ASSUME TypeOK, Linked, [Next]_vars
    PROVE  ReceivedStays
<1>1. \A o \in DOMAIN orders : orders[o] \in Order /\ orders[o].received \in Nat
  BY OrderRow
<1>2. CASE orders' = orders
  BY <1>1, <1>2 DEF ReceivedStays
<1>3. CASE \E r \in DOMAIN rfqs : SelectVendor(r)
  <2>1. \A o \in DOMAIN orders : o \in DOMAIN orders' /\ orders'[o] = orders[o]
    BY <1>3, OrderAdded
  <2> QED BY <1>1, <2>1 DEF ReceivedStays
<1>4. ASSUME NEW o \in DOMAIN orders, NEW status,
             orders' = [orders EXCEPT ![o] = [orders[o] EXCEPT !.status = status]]
      PROVE  ReceivedStays
  <2> DEFINE row == [orders[o] EXCEPT !.status = status]
  <2>1. row.received = orders[o].received
    BY <1>1 DEF Order
  <2>2. orders' = [orders EXCEPT ![o] = row]
    BY <1>4
  <2> HIDE DEF row
  <2>3. row.received \in Int /\ row.received >= orders[o].received
    BY <1>1, <2>1
  <2> QED BY <2>2, <2>3, ReceivedGiven
<1>5. CASE \E o \in DOMAIN orders : AcceptOrder(o) \/ RejectOrder(o)
  <2> PICK o \in DOMAIN orders : AcceptOrder(o) \/ RejectOrder(o)
    BY <1>5
  <2>1. PICK status : orders' = [orders EXCEPT ![o] = [orders[o] EXCEPT !.status = status]]
    BY DEF AcceptOrder, RejectOrder
  <2> QED BY <1>4, <2>1
<1>6. CASE \E o \in DOMAIN orders, n \in Shipments : CreateAsn(o, n)
  <2> PICK o \in DOMAIN orders, n \in Shipments : CreateAsn(o, n)
    BY <1>6
  <2>1. orders' = [orders EXCEPT ![o] = [orders[o] EXCEPT !.status = "Ready to Ship"]]
    BY DEF CreateAsn
  <2> QED BY <1>4, <2>1
<1>7. CASE \E a \in DOMAIN asns, acc \in 0..MaxCount, rej \in 0..MaxCount :
              RecordGoodsReceipt(a, acc, rej)
  <2>1. 0..MaxCount \subseteq Nat
    BY FulfilmentAssumption
  <2>2. PICK a \in DOMAIN asns, acc \in Nat, rej \in Nat :
                ReceivePart(a, acc, rej) \/ ReceiveAndDispatch(a, acc, rej)
    BY <1>7, <2>1 DEF RecordGoodsReceipt
  <2>3. PICK o \in DOMAIN orders : o = asns[a].po
    BY DEF Linked
  <2>4. PICK row : /\ orders' = [orders EXCEPT ![o] = row]
                   /\ row.received = orders[o].received + acc
    <3>1. CASE ReceivePart(a, acc, rej)
      <4> DEFINE row == [orders[o] EXCEPT !.received = @ + acc]
      <4>1. row.received = orders[o].received + acc
        BY <1>1 DEF Order
      <4>2. orders' = [orders EXCEPT ![o] = row]
        BY <2>3, <3>1 DEF ReceivePart
      <4> HIDE DEF row
      <4> QED BY <4>1, <4>2
    <3>2. CASE ReceiveAndDispatch(a, acc, rej)
      <4> DEFINE row == [orders[o] EXCEPT !.received = orders[o].received + acc,
                                          !.status = "Delivered", !.dispatched = @ + 1]
      <4>1. row.received = orders[o].received + acc
        BY <1>1 DEF Order
      <4>2. orders' = [orders EXCEPT ![o] = row]
        BY <2>3, <3>2 DEF ReceiveAndDispatch
      <4> HIDE DEF row
      <4> QED BY <4>1, <4>2
    <3> QED BY <2>2, <3>1, <3>2
  <2>5. row.received \in Int /\ row.received >= orders[o].received
    BY <1>1, <2>4
  <2> QED BY <2>4, <2>5, ReceivedGiven
<1>8. CASE \E q \in Quantities : CreatePurchaseRequest(q)
  BY <1>2, <1>8, SameRows
<1>9. CASE \E p \in DOMAIN requests : FulfilFromStock(p) \/ SplitFulfil(p) \/ RaiseRfq(p)
  BY <1>2, <1>9, SameRows
<1>10. CASE \E t \in DOMAIN transfers, q \in Quantities, d \in {"replenish", "writeoff"} :
               RaiseIssue(t, q, d)
  BY <1>2, <1>10, SameRows
<1>11. CASE \E r \in DOMAIN returns : ResolveReturn(r)
  BY <1>2, <1>11, SameRows DEF ResolveReturn
<1>12. CASE \E r \in DOMAIN rfqs : SubmitQuotation(r) \/ SelectVendor(r)
  BY <1>2, <1>3, <1>12, SameRows
<1>13. CASE \E a \in DOMAIN asns : SubmitAsn(a)
  BY <1>2, <1>13, SameRows
<1>14. CASE \E a \in DOMAIN asns, n \in Shipments :
               UpdateAsn(a, n) \/ ResubmitAfterRejection(a, n)
  BY <1>2, <1>14, SameRows
<1>15. CASE \E t \in DOMAIN transfers : DispatchTransferOrder(t)
  BY <1>2, <1>15, SameRows
<1>16. CASE \E t \in DOMAIN transfers, s \in Statuses : UpdateTransferStatus(t, s)
  BY <1>2, <1>16, SameRows
<1>17. CASE \E delta \in Adjustments : AdjustInventory(delta)
  BY <1>2, <1>17, SameRows
<1>18. CASE UNCHANGED vars
  BY <1>2, <1>18 DEF vars
<1> QED BY <1>5, <1>6, <1>7, <1>8, <1>9, <1>10, <1>11, <1>12, <1>13, <1>14, <1>15, <1>16, <1>17,
           <1>18 DEF Next

\* "count".  A notice's receipt counts no more than was shipped with it, and what it accepts
\* is among what its order received.
ReceiptCounts ==
    \A a \in DOMAIN asns :
        /\ asns[a].receipt.accepted <= orders[asns[a].po].received
        /\ asns[a].receipt.accepted + asns[a].receipt.rejected <= asns[a].shipped

LEMMA ReceiptCountsStep ==
    ASSUME TypeOK, Linked, NoticeSound, "count" \in Discipline, ReceiptCounts, [Next]_vars
    PROVE  ReceiptCounts'
<1> DEFINE Good(a) ==
              /\ asns'[a].receipt.accepted <= orders'[asns'[a].po].received
              /\ asns'[a].receipt.accepted + asns'[a].receipt.rejected <= asns'[a].shipped
<1>1. /\ TypeOK' /\ ReceivedStays
      /\ \A a \in DOMAIN asns : /\ asns[a].po \in DOMAIN orders
                                /\ asns[a] \in Asn
                                /\ asns[a].receipt.accepted \in Nat
                                /\ asns[a].receipt.rejected \in Nat
                                /\ asns[a].shipped \in Nat
  <2>1. TypeOK' /\ ReceivedStays
    BY StepKeeps, ReceivedStep
  <2>2. \A a \in DOMAIN asns : asns[a].po \in DOMAIN orders /\ asns[a] \in Asn
    BY AsnRow DEF Linked
  <2>3. \A n \in Asn : n.receipt.accepted \in Nat /\ n.receipt.rejected \in Nat /\ n.shipped \in Nat
    BY DEF Asn, GoodsReceipt
  <2> QED BY <2>1, <2>2, <2>3
<1>2. /\ \A o \in DOMAIN orders : o \in DOMAIN orders' /\ orders[o].received \in Nat
      /\ \A o \in DOMAIN orders' : orders'[o].received \in Nat
  <2>1. \A o \in DOMAIN orders : o \in DOMAIN orders'
    BY <1>1 DEF ReceivedStays
  <2>2. \A o \in DOMAIN orders : orders[o].received \in Nat
    BY OrderRow
  <2>3. orders' \in Seq(Order)
    BY <1>1 DEF TypeOK
  <2>4. \A o \in DOMAIN orders' : orders'[o] \in Order
    BY <2>3, RowTyped
  <2>5. \A o \in DOMAIN orders' : orders'[o].received \in Nat
    BY <2>4 DEF Order
  <2> QED BY <2>1, <2>2, <2>5
\* Another notice of the same rows.
<1>3. ASSUME NEW a \in DOMAIN asns, asns'[a].po = asns[a].po,
             asns'[a].receipt = asns[a].receipt, asns'[a].shipped = asns[a].shipped
      PROVE  Good(a)
  <2>1. asns[a].po \in DOMAIN orders /\ asns[a].receipt.accepted \in Nat
    BY <1>1
  <2>2. orders'[asns[a].po].received >= orders[asns[a].po].received
    BY <1>1 DEF ReceivedStays
  <2>3. /\ asns[a].receipt.accepted <= orders[asns[a].po].received
        /\ asns[a].receipt.accepted + asns[a].receipt.rejected <= asns[a].shipped
    BY DEF ReceiptCounts
  <2>4. orders'[asns[a].po].received \in Nat /\ orders[asns[a].po].received \in Nat
    BY <1>2, <2>1
  <2>5. asns[a].receipt.accepted <= orders'[asns[a].po].received
    BY <2>1, <2>2, <2>3, <2>4
  <2> QED BY <1>3, <2>3, <2>5
\* Nothing is counted yet.
<1>4. ASSUME NEW a, asns'[a].po \in DOMAIN orders, asns'[a].receipt = NoReceipt,
             asns'[a].shipped \in Nat
      PROVE  Good(a)
  <2>1. orders'[asns'[a].po].received \in Nat
    BY <1>2, <1>4
  <2>2. asns'[a].receipt.accepted = 0 /\ asns'[a].receipt.rejected = 0
    BY <1>4 DEF NoReceipt
  <2> QED BY <1>4, <2>1, <2>2
\* One notice rewritten.
<1>5. ASSUME NEW a \in DOMAIN asns, NEW row, asns' = [asns EXCEPT ![a] = row], Good(a)
      PROVE  ReceiptCounts'
  <2>1. DOMAIN asns' = DOMAIN asns
    BY <1>5
  <2>2. ASSUME NEW b \in DOMAIN asns, b # a
        PROVE  Good(b)
    <3>1. asns'[b] = asns[b]
      BY <1>5, <2>2
    <3> QED BY <1>3, <3>1
  <2> HIDE DEF Good
  <2>3. \A b \in DOMAIN asns' : Good(b)
    BY <1>5, <2>1, <2>2
  <2> QED BY <2>3 DEF ReceiptCounts, Good
<1>6. CASE asns' = asns
  <2>1. \A b \in DOMAIN asns : Good(b)
    BY <1>3, <1>6
  <2> QED BY <1>6, <2>1 DEF ReceiptCounts
<1>7. CASE \E o \in DOMAIN orders, n \in Shipments : CreateAsn(o, n)
  <2> PICK o \in DOMAIN orders, n \in Shipments : CreateAsn(o, n)
    BY <1>7
  <2> DEFINE asn == [po |-> o, shipped |-> n, submitted |-> FALSE, receipt |-> NoReceipt]
  <2>1. o \in Nat /\ n \in Nat /\ NoReceipt \in GoodsReceipt
    BY OrderRow, ConstantTypes, ReceiptTypes
  <2>2. asn \in Asn /\ asns \in Seq(Asn)
    BY <2>1 DEF Asn, TypeOK
  <2>3. asns' = Append(asns, asn)
    BY DEF CreateAsn
  <2>4. asn.po = o /\ asn.shipped = n /\ asn.receipt = NoReceipt
    OBVIOUS
  <2> HIDE DEF asn
  <2>5. \A a \in DOMAIN asns' : a \in DOMAIN asns \/ asns'[a] = asn
    BY <2>2, <2>3, NewRow
  <2>6. \A a \in DOMAIN asns : asns'[a] = asns[a]
    BY <2>2, <2>3, RowAdded
  <2>7. ASSUME NEW a \in DOMAIN asns'
        PROVE  Good(a)
    <3>1. CASE a \in DOMAIN asns
      BY <1>3, <2>6, <3>1
    <3>2. CASE asns'[a] = asn
      BY <1>4, <2>1, <2>4, <3>2
    <3> QED BY <2>5, <3>1, <3>2
  <2> QED BY <2>7 DEF ReceiptCounts
<1>8. CASE \E a \in DOMAIN asns : SubmitAsn(a)
  <2> PICK a \in DOMAIN asns : SubmitAsn(a)
    BY <1>8
  <2> DEFINE row == [asns[a] EXCEPT !.submitted = TRUE]
  <2>1. row.po = asns[a].po /\ row.shipped = asns[a].shipped /\ row.receipt = asns[a].receipt
    BY <1>1 DEF Asn
  <2>2. asns' = [asns EXCEPT ![a] = row]
    BY DEF SubmitAsn
  <2> HIDE DEF row
  <2>3. asns'[a] = row
    BY <2>2
  <2>4. Good(a)
    BY <1>3, <2>1, <2>3
  <2> HIDE DEF Good
  <2> QED BY <1>5, <2>2, <2>4
<1>9. CASE \E a \in DOMAIN asns, n \in Shipments :
              UpdateAsn(a, n) \/ ResubmitAfterRejection(a, n)
  <2> PICK a \in DOMAIN asns, n \in Shipments : UpdateAsn(a, n) \/ ResubmitAfterRejection(a, n)
    BY <1>9
  <2>1. PICK row : /\ asns' = [asns EXCEPT ![a] = row]
                   /\ row.po = asns[a].po /\ row.shipped = n /\ row.receipt = NoReceipt
    <3>1. CASE UpdateAsn(a, n)
      <4> DEFINE row == [asns[a] EXCEPT !.shipped = n]
      <4>1. row.po = asns[a].po /\ row.shipped = n /\ row.receipt = asns[a].receipt
        BY <1>1 DEF Asn
      <4>2. asns' = [asns EXCEPT ![a] = row] /\ asns[a].receipt = NoReceipt
        BY <3>1 DEF UpdateAsn
      <4> HIDE DEF row
      <4> QED BY <4>1, <4>2
    <3>2. CASE ResubmitAfterRejection(a, n)
      <4> DEFINE row == [asns[a] EXCEPT !.shipped = n, !.receipt = NoReceipt]
      <4>1. row.po = asns[a].po /\ row.shipped = n /\ row.receipt = NoReceipt
        BY <1>1 DEF Asn
      <4>2. asns' = [asns EXCEPT ![a] = row]
        BY <3>2 DEF ResubmitAfterRejection
      <4> HIDE DEF row
      <4> QED BY <4>1, <4>2
    <3> QED BY <3>1, <3>2
  <2>2. asns'[a] = row /\ n \in Nat
    BY <2>1, ConstantTypes
  <2>3. asns[a].po \in DOMAIN orders
    BY <1>1
  <2>4. Good(a)
    BY <1>4, <2>1, <2>2, <2>3
  <2> HIDE DEF Good
  <2> QED BY <1>5, <2>1, <2>4
<1>10. CASE \E a \in DOMAIN asns, acc \in 0..MaxCount, rej \in 0..MaxCount :
               RecordGoodsReceipt(a, acc, rej)
  <2>1. 0..MaxCount \subseteq Nat
    BY FulfilmentAssumption
  <2>2. PICK a \in DOMAIN asns, acc \in Nat, rej \in Nat :
                /\ Counted(a, acc, rej)
                /\ ReceivePart(a, acc, rej) \/ ReceiveAndDispatch(a, acc, rej)
    BY <1>10, <2>1 DEF RecordGoodsReceipt
  <2>3. PICK o \in DOMAIN orders : o = asns[a].po
    BY <1>1
  <2>4. orders[o] \in Order /\ orders[o].received \in Nat
    BY OrderRow
  <2>5. orders'[o].received = orders[o].received + acc
    <3>1. CASE ReceivePart(a, acc, rej)
      <4> DEFINE row == [orders[o] EXCEPT !.received = @ + acc]
      <4>1. row.received = orders[o].received + acc
        BY <2>4 DEF Order
      <4>2. orders' = [orders EXCEPT ![o] = row]
        BY <2>3, <3>1 DEF ReceivePart
      <4> HIDE DEF row
      <4> QED BY <4>1, <4>2
    <3>2. CASE ReceiveAndDispatch(a, acc, rej)
      <4> DEFINE row == [orders[o] EXCEPT !.received = orders[o].received + acc,
                                          !.status = "Delivered", !.dispatched = @ + 1]
      <4>1. row.received = orders[o].received + acc
        BY <2>4 DEF Order
      <4>2. orders' = [orders EXCEPT ![o] = row]
        BY <2>3, <3>2 DEF ReceiveAndDispatch
      <4> HIDE DEF row
      <4> QED BY <4>1, <4>2
    <3> QED BY <2>2, <3>1, <3>2
  <2> DEFINE row == [asns[a] EXCEPT !.receipt = NewReceipt(acc, rej)]
  <2>6. row.po = o /\ row.shipped = asns[a].shipped /\ row.receipt = NewReceipt(acc, rej)
    BY <1>1, <2>3 DEF Asn
  <2>7. asns' = [asns EXCEPT ![a] = row]
    BY <2>2 DEF ReceivePart, ReceiveAndDispatch
  <2> HIDE DEF row
  <2>8. asns'[a] = row
    BY <2>7
  <2>9. row.receipt.accepted = acc /\ row.receipt.rejected = rej
    BY <2>6 DEF NewReceipt
  <2>10. acc + rej = asns[a].shipped
    BY <2>2 DEF Counted
  <2>11. acc <= orders'[o].received
    BY <2>4, <2>5
  <2>12. acc + rej <= asns[a].shipped
    BY <2>10
  <2>13. Good(a)
    BY <2>6, <2>8, <2>9, <2>11, <2>12
  <2> HIDE DEF Good
  <2> QED BY <1>5, <2>7, <2>13
<1> HIDE DEF Good
<1>11. CASE \E q \in Quantities : CreatePurchaseRequest(q)
  BY <1>6, <1>11, SameRows
<1>12. CASE \E p \in DOMAIN requests : FulfilFromStock(p) \/ SplitFulfil(p) \/ RaiseRfq(p)
  BY <1>6, <1>12, SameRows
<1>13. CASE \E t \in DOMAIN transfers, q \in Quantities, d \in {"replenish", "writeoff"} :
               RaiseIssue(t, q, d)
  BY <1>6, <1>13, SameRows
<1>14. CASE \E r \in DOMAIN returns : ResolveReturn(r)
  BY <1>6, <1>14, SameRows DEF ResolveReturn
<1>15. CASE \E r \in DOMAIN rfqs : SubmitQuotation(r) \/ SelectVendor(r)
  BY <1>6, <1>15, SameRows
<1>16. CASE \E o \in DOMAIN orders : AcceptOrder(o) \/ RejectOrder(o)
  BY <1>6, <1>16, SameRows
<1>17. CASE \E t \in DOMAIN transfers : DispatchTransferOrder(t)
  BY <1>6, <1>17, SameRows
<1>18. CASE \E t \in DOMAIN transfers, s \in Statuses : UpdateTransferStatus(t, s)
  BY <1>6, <1>18, SameRows
<1>19. CASE \E delta \in Adjustments : AdjustInventory(delta)
  BY <1>6, <1>19, SameRows
<1>20. CASE UNCHANGED vars
  BY <1>6, <1>20 DEF vars
<1> QED BY <1>7, <1>8, <1>9, <1>10, <1>11, <1>12, <1>13, <1>14, <1>15, <1>16, <1>17, <1>18,
           <1>19, <1>20 DEF Next

-----------------------------------------------------------------------------
(* Returns that are sent for *)

\* Returns that are shown as dispatched were, or are of an order dispatched now.
DispatchedBy ==
    \A r \in DOMAIN returns' :
        returns'[r].status = "dispatched" =>
            \/ r \in DOMAIN returns /\ returns[r].status = "dispatched"
            \/ \E t \in DOMAIN transfers :
                   /\ transfers[t].owner = ReturnOwner(r)
                   /\ DispatchTransferOrder(t)

LEMMA NotDispatched ==
    ASSUME NEW r \in DOMAIN returns, NEW row, row.status # "dispatched",
           returns' = [returns EXCEPT ![r] = row]
    PROVE  DispatchedBy
BY DEF DispatchedBy

LEMMA DispatchedStep ==
    ASSUME TypeOK, Linked, [Next]_vars
    PROVE  DispatchedBy
<1>1. CASE returns' = returns
  BY <1>1 DEF DispatchedBy
<1>2. CASE \E t \in DOMAIN transfers, q \in Quantities, d \in {"replenish", "writeoff"} :
              RaiseIssue(t, q, d)
  <2> PICK t \in DOMAIN transfers, q \in Quantities, d \in {"replenish", "writeoff"} :
              RaiseIssue(t, q, d)
    BY <1>2
  <2> DEFINE row == [qty |-> q, decision |-> d, status |-> "pending", transfer |-> 0, rfq |-> 0]
  <2>1. row \in Return /\ row.status = "pending"
    BY DEF Return
  <2>2. returns' = Append(returns, row) /\ returns \in Seq(Return)
    BY DEF RaiseIssue, TypeOK
  <2> HIDE DEF row
  <2>3. \A r \in DOMAIN returns' : r \in DOMAIN returns \/ returns'[r] = row
    BY <2>1, <2>2, NewRow
  <2>4. \A r \in DOMAIN returns : returns'[r] = returns[r]
    BY <2>1, <2>2, RowAdded
  <2> QED BY <2>1, <2>3, <2>4 DEF DispatchedBy
<1>3. CASE \E r \in DOMAIN returns : ResolveReturn(r)
  <2> PICK r \in DOMAIN returns : WriteOffReturn(r) \/ ReplenishFromStock(r) \/ ReplenishByRfq(r)
    BY <1>3 DEF ResolveReturn
  <2>1. returns[r] \in Return
    BY ReturnRow
  <2>2. CASE WriteOffReturn(r)
    <3> DEFINE row == [returns[r] EXCEPT !.status = "writtenoff"]
    <3>1. row.status # "dispatched"
      BY <2>1 DEF Return
    <3>2. returns' = [returns EXCEPT ![r] = row]
      BY <2>2 DEF WriteOffReturn
    <3> HIDE DEF row
    <3> QED BY <3>1, <3>2, NotDispatched
  <2>3. CASE ReplenishFromStock(r)
    <3> DEFINE row == Replenished([returns[r] EXCEPT !.transfer = Len(transfers) + 1])
    <3>1. row.status # "dispatched"
      BY <2>1 DEF Return, Replenished
    <3>2. returns' = [returns EXCEPT ![r] = row]
      BY <2>3 DEF ReplenishFromStock
    <3> HIDE DEF row
    <3> QED BY <3>1, <3>2, NotDispatched
  <2>4. CASE ReplenishByRfq(r)
    <3> DEFINE row == Replenished([returns[r] EXCEPT !.rfq = Len(rfqs) + 1])
    <3>1. row.status # "dispatched"
      BY <2>1 DEF Return, Replenished
    <3>2. returns' = [returns EXCEPT ![r] = row]
      BY <2>4 DEF ReplenishByRfq
    <3> HIDE DEF row
    <3> QED BY <3>1, <3>2, NotDispatched
  <2> QED BY <2>2, <2>3, <2>4
<1>4. CASE \E a \in DOMAIN asns, acc \in 0..MaxCount, rej \in 0..MaxCount :
              RecordGoodsReceipt(a, acc, rej)
  <2>1. 0..MaxCount \subseteq Nat
    BY FulfilmentAssumption
  <2>2. PICK a \in DOMAIN asns, acc \in Nat, rej \in Nat :
                ReceivePart(a, acc, rej) \/ ReceiveAndDispatch(a, acc, rej)
    BY <1>4, <2>1 DEF RecordGoodsReceipt
  <2>3. CASE ReceiveAndDispatch(a, acc, rej)
    <3>5. PICK owner \in Owner :
             owner = rfqs[orders[asns[a].po].rfq].owner /\ OwnerExists(owner)
      BY <2>3, ReceiveAndDispatchEffect
    <3>1. PICK q \in Int, source \in {"Vendor Procurement", "Combined Stock + Vendor"} :
             /\ inventory' = DecreaseOnHand(IncreaseOnHand(inventory, acc), q)
             /\ DispatchToOwner(rfqs[orders[asns[a].po].rfq].owner, q, source)
      BY <2>3, ReceiveAndDispatchEffect
    <3>2. /\ DOMAIN returns' = DOMAIN returns
          /\ \A r \in DOMAIN returns :
                returns'[r] = IF owner = ReturnOwner(r)
                              THEN [returns[r] EXCEPT !.transfer = Len(transfers) + 1]
                              ELSE returns[r]
      BY <3>1, <3>5, DispatchEffect
    <3>3. \A r \in DOMAIN returns : returns[r] \in Return
      BY ReturnRow
    <3>4. \A r \in DOMAIN returns : returns'[r].status = returns[r].status
      BY <3>2, <3>3 DEF Return
    <3> QED BY <3>2, <3>4 DEF DispatchedBy
  <2> QED BY <1>1, <2>2, <2>3, SameOwners
<1>5. CASE \E t \in DOMAIN transfers : DispatchTransferOrder(t)
  <2> PICK t \in DOMAIN transfers : DispatchTransferOrder(t)
    BY <1>5
  <2>1. PICK owner \in Owner : owner = transfers[t].owner
    BY TransferRow
  <2>2. CASE owner.kind = "return"
    <3>1. owner = ReturnOwner(owner.id)
      BY <2>2, OwnerTypes
    <3>2. returns' = [returns EXCEPT ![owner.id] =
                         [returns[owner.id] EXCEPT !.status = "dispatched"]]
      BY <2>1, <2>2 DEF DispatchTransferOrder
    <3>3. /\ DOMAIN returns' = DOMAIN returns
          /\ \A r \in DOMAIN returns : r # owner.id => returns'[r] = returns[r]
      BY <3>2
    <3> QED BY <2>1, <3>1, <3>3 DEF DispatchedBy
  <2>3. CASE owner.kind # "return"
    BY <1>1, <2>1, <2>3 DEF DispatchTransferOrder
  <2> QED BY <2>2, <2>3
<1>6. CASE \E q \in Quantities : CreatePurchaseRequest(q)
  BY <1>1, <1>6, SameOwners
<1>7. CASE \E p \in DOMAIN requests : FulfilFromStock(p) \/ SplitFulfil(p) \/ RaiseRfq(p)
  BY <1>1, <1>7, SameOwners
<1>8. CASE \E r \in DOMAIN rfqs : SubmitQuotation(r) \/ SelectVendor(r)
  BY <1>1, <1>8, SameOwners
<1>9. CASE \E o \in DOMAIN orders : AcceptOrder(o) \/ RejectOrder(o)
  BY <1>1, <1>9, SameOwners
<1>10. CASE \E o \in DOMAIN orders, n \in Shipments : CreateAsn(o, n)
  BY <1>1, <1>10, SameOwners
<1>11. CASE \E a \in DOMAIN asns : SubmitAsn(a)
  BY <1>1, <1>11, SameOwners
<1>12. CASE \E a \in DOMAIN asns, n \in Shipments :
               UpdateAsn(a, n) \/ ResubmitAfterRejection(a, n)
  BY <1>1, <1>12, SameOwners
<1>13. CASE \E t \in DOMAIN transfers, s \in Statuses : UpdateTransferStatus(t, s)
  BY <1>1, <1>13, SameOwners
<1>14. CASE \E delta \in Adjustments : AdjustInventory(delta)
  BY <1>1, <1>14, SameOwners
<1>15. CASE UNCHANGED vars
  BY <1>1, <1>15 DEF vars
<1> QED BY <1>2, <1>3, <1>4, <1>5, <1>6, <1>7, <1>8, <1>9, <1>10, <1>11, <1>12, <1>13, <1>14,
           <1>15 DEF Next

\* "advance".  Goods for a return that is shown as dispatched did leave.
GoodsLeft ==
    \A r \in DOMAIN returns :
        returns[r].status = "dispatched" =>
            \E t \in DOMAIN transfers :
                transfers[t].owner = ReturnOwner(r) /\ transfers[t].status # "Pending"

LEMMA GoodsLeftStep ==
    ASSUME TypeOK, Linked, "advance" \in Discipline, GoodsLeft, [Next]_vars
    PROVE  GoodsLeft'
<1>1. KeptTransfers /\ ArrivedStays /\ DispatchedBy
  BY StepKeeps, ArrivedStep, DispatchedStep DEF Kept
<1>2. SUFFICES ASSUME NEW r \in DOMAIN returns', returns'[r].status = "dispatched"
               PROVE  \E t \in DOMAIN transfers' :
                          transfers'[t].owner = ReturnOwner(r) /\ transfers'[t].status # "Pending"
  BY DEF GoodsLeft, ReturnOwner
<1>3. CASE r \in DOMAIN returns /\ returns[r].status = "dispatched"
  <2>1. PICK t \in DOMAIN transfers :
                transfers[t].owner = ReturnOwner(r) /\ transfers[t].status # "Pending"
    BY <1>3 DEF GoodsLeft
  <2> QED BY <1>1, <2>1 DEF KeptTransfers, ArrivedStays
<1>4. ASSUME NEW t \in DOMAIN transfers, transfers[t].owner = ReturnOwner(r),
             DispatchTransferOrder(t)
      PROVE  transfers'[t].owner = ReturnOwner(r) /\ transfers'[t].status # "Pending"
  <2> DEFINE row == [transfers[t] EXCEPT !.status = "Dispatched", !.items = @ + 1]
  <2>1. row.status = "Dispatched"
    BY TransferRow DEF Transfer
  <2>2. transfers' = [transfers EXCEPT ![t] = row]
    BY <1>4 DEF DispatchTransferOrder
  <2> HIDE DEF row
  <2>3. transfers'[t] = row
    BY <2>2
  <2> QED BY <1>1, <1>4, <2>1, <2>3 DEF KeptTransfers
<1> QED BY <1>1, <1>2, <1>3, <1>4 DEF DispatchedBy, KeptTransfers

\* A request that refers to nothing has the empty reference, and only that.
RefsEmpty == \A p \in DOMAIN requests : requests[p].ref.kind = "none" => requests[p].ref = NoRef

LEMMA RefsEmptyStep ==
    ASSUME TypeOK, Linked, RefsEmpty, [Next]_vars
    PROVE  RefsEmpty'
<1>1. RequestsMarked
  BY StepMarks
<1>2. ASSUME NEW p \in DOMAIN requests', requests'[p].ref.kind = "none"
      PROVE  requests'[p].ref = NoRef
  <2>1. CASE p \in DOMAIN requests
    <3>1. RequestMarked(p)
      BY <1>1, <2>1 DEF RequestsMarked
    <3> QED BY <1>2, <2>1, <3>1 DEF RequestMarked, RefsEmpty, TransferRef, RfqRef
  <2> QED BY <1>1, <2>1 DEF RequestsMarked
<1> QED BY <1>2 DEF RefsEmpty

\* Only a manual correction counts as one.
LEMMA NothingAdjusted ==
    ASSUME Adjustments = {}, [Next]_vars
    PROVE  adjusted' = adjusted
<1>1. CASE \E q \in Quantities : CreatePurchaseRequest(q)
  BY <1>1 DEF CreatePurchaseRequest
<1>2. CASE \E p \in DOMAIN requests : FulfilFromStock(p) \/ SplitFulfil(p) \/ RaiseRfq(p)
  BY <1>2 DEF FulfilFromStock, SplitFulfil, RaiseRfq
<1>3. CASE \E t \in DOMAIN transfers, q \in Quantities, d \in {"replenish", "writeoff"} :
              RaiseIssue(t, q, d)
  BY <1>3 DEF RaiseIssue
<1>4. CASE \E r \in DOMAIN returns : ResolveReturn(r)
  BY <1>4 DEF ResolveReturn, WriteOffReturn, ReplenishFromStock, ReplenishByRfq
<1>5. CASE \E r \in DOMAIN rfqs : SubmitQuotation(r) \/ SelectVendor(r)
  BY <1>5 DEF SubmitQuotation, SelectVendor
<1>6. CASE \E o \in DOMAIN orders : AcceptOrder(o) \/ RejectOrder(o)
  BY <1>6 DEF AcceptOrder, RejectOrder
<1>7. CASE \E o \in DOMAIN orders, n \in Shipments : CreateAsn(o, n)
  BY <1>7 DEF CreateAsn
<1>8. CASE \E a \in DOMAIN asns : SubmitAsn(a)
  BY <1>8 DEF SubmitAsn
<1>9. CASE \E a \in DOMAIN asns, n \in Shipments : UpdateAsn(a, n) \/ ResubmitAfterRejection(a, n)
  BY <1>9 DEF UpdateAsn, ResubmitAfterRejection
<1>10. CASE \E a \in DOMAIN asns, acc \in 0..MaxCount, rej \in 0..MaxCount :
               RecordGoodsReceipt(a, acc, rej)
  BY <1>10, ReceiptKeeps
<1>11. CASE \E t \in DOMAIN transfers : DispatchTransferOrder(t)
  BY <1>11 DEF DispatchTransferOrder
<1>12. CASE \E t \in DOMAIN transfers, s \in Statuses : UpdateTransferStatus(t, s)
  BY <1>12 DEF UpdateTransferStatus
<1>13. CASE UNCHANGED vars
  BY <1>13 DEF vars
<1> QED BY <1>1, <1>2, <1>3, <1>4, <1>5, <1>6, <1>7, <1>8, <1>9, <1>10, <1>11, <1>12, <1>13
        DEF Next

-----------------------------------------------------------------------------
(* What is counted *)

\* The rows that the counters of requests and of orders look at.
LEMMA Counters ==
    /\ Summary.requests = Len(requests)
    /\ Summary.fulfilled = Cardinality({p \in DOMAIN requests : HasRef(requests[p])})
    /\ Summary.pending = Cardinality({p \in DOMAIN requests : ~HasRef(requests[p])})
    /\ Summary.delivered = Cardinality({o \in DOMAIN orders : orders[o].status = "Delivered"})
    /\ Breakdown.stock = Cardinality({p \in DOMAIN requests : requests[p].type = "stock"})
    /\ Breakdown.rfq =
          Cardinality({p \in DOMAIN requests : requests[p].type \in {"rfq", "split"}})
    /\ Breakdown.pending = Summary.pending
    /\ Dashboard.pendingOrders = Summary.pending
    /\ Dashboard.openOrders =
          Cardinality({o \in DOMAIN orders : orders[o].status \in OpenOrderStatuses})
    /\ WarehouseRelations.fulfilled = Summary.fulfilled
    /\ StockRequestStats["Pending"] =
          Cardinality({p \in DOMAIN requests : HeadOfficeStatus(p) = "Pending"})
    /\ StockRequestStats["Fulfilled"] =
          Cardinality({p \in DOMAIN requests : HeadOfficeStatus(p) = "Fulfilled"})
    /\ ShipmentStats["Delivered"] =
          Cardinality({t \in DOMAIN transfers : ShipmentStatus[transfers[t].status] = "Delivered"})
<1>1. /\ Summary.requests = Len(requests)
      /\ Summary.fulfilled = Cardinality({p \in DOMAIN requests : HasRef(requests[p])})
      /\ Summary.pending = Cardinality({p \in DOMAIN requests : ~HasRef(requests[p])})
      /\ Summary.delivered = Cardinality({o \in DOMAIN orders : orders[o].status = "Delivered"})
  BY DEF Summary, Rows
<1>2. /\ Breakdown.stock = Cardinality({p \in DOMAIN requests : requests[p].type = "stock"})
      /\ Breakdown.rfq =
            Cardinality({p \in DOMAIN requests : requests[p].type \in {"rfq", "split"}})
      /\ Breakdown.pending = Summary.pending
  BY DEF Summary, Breakdown, Rows
<1>3. /\ Dashboard.pendingOrders = Summary.pending
      /\ Dashboard.openOrders =
            Cardinality({o \in DOMAIN orders : orders[o].status \in OpenOrderStatuses})
      /\ WarehouseRelations.fulfilled = Summary.fulfilled
  BY DEF Summary, Dashboard, WarehouseRelations, Rows
<1>4. /\ StockRequestStats["Pending"] =
            Cardinality({p \in DOMAIN requests : HeadOfficeStatus(p) = "Pending"})
      /\ StockRequestStats["Fulfilled"] =
            Cardinality({p \in DOMAIN requests : HeadOfficeStatus(p) = "Fulfilled"})
  BY DEF StockRequestStats, HeadOfficeStatuses
<1>5. ShipmentStats["Delivered"] =
            Cardinality({t \in DOMAIN transfers : ShipmentStatus[transfers[t].status] = "Delivered"})
  BY DEF ShipmentStats, ShipmentStatuses, Rows
<1> QED BY <1>1, <1>2, <1>3, <1>4, <1>5

\* A request has a type exactly when it has a reference, and its type is that of the reference.
LEMMA TypedByRef ==
    ASSUME TypeOK, RefsSound, RefsEmpty, NEW p \in DOMAIN requests
    PROVE  /\ ~HasRef(requests[p]) <=> requests[p].type = "none"
           /\ requests[p].type \in {"none", "stock", "rfq", "split"}
           /\ requests[p].type = "none" <=> requests[p].ref.kind = "none"
           /\ requests[p].type = "stock" <=> requests[p].ref.kind = "transfer_order"
<1>1. requests[p] \in Request /\ requests[p].ref \in Ref
  BY RequestRow DEF Request
<1>2. requests[p].ref.kind \in {"none", "rfq", "transfer_order"}
  BY <1>1 DEF Ref
<1>3. /\ requests[p].ref.kind = "none" => requests[p].type = "none" /\ requests[p].ref = NoRef
      /\ requests[p].ref.kind = "rfq" => requests[p].type \in {"rfq", "split"}
      /\ requests[p].ref.kind = "transfer_order" => requests[p].type = "stock"
      /\ requests[p].ref = NoRef => requests[p].ref.kind = "none"
  BY DEF RefsSound, RequestRefSound, RefsEmpty, NoRef
<1> QED BY <1>2, <1>3 DEF HasRef

LEMMA RequestsAddUp ==
    ASSUME TypeOK, RefsSound, RefsEmpty
    PROVE  /\ Summary.fulfilled + Summary.pending = Summary.requests
           /\ Breakdown.stock + Breakdown.rfq + Breakdown.pending = Summary.requests
           /\ Summary.pending = Dashboard.pendingOrders
           /\ Summary.pending = StockRequestStats["Pending"]
           /\ WarehouseRelations.fulfilled = Summary.fulfilled
<1> DEFINE all == DOMAIN requests
           fulfilled == {p \in DOMAIN requests : HasRef(requests[p])}
           pending == {p \in DOMAIN requests : ~HasRef(requests[p])}
           stock == {p \in DOMAIN requests : requests[p].type = "stock"}
           rfq == {p \in DOMAIN requests : requests[p].type \in {"rfq", "split"}}
<1>1. IsFiniteSet(all) /\ Cardinality(all) = Len(requests)
  BY RowsFinite DEF TypeOK
<1>2. \A p \in DOMAIN requests :
         /\ ~HasRef(requests[p]) <=> requests[p].type = "none"
         /\ requests[p].type \in {"none", "stock", "rfq", "split"}
  BY TypedByRef
<1>3. fulfilled \cup pending = all /\ fulfilled \cap pending = {}
  OBVIOUS
<1>4. stock \cup rfq = fulfilled /\ stock \cap rfq = {}
  BY <1>2
<1>5. pending = {p \in DOMAIN requests : HeadOfficeStatus(p) = "Pending"}
  BY <1>2 DEF HeadOfficeStatus, IsApproved
<1>6. /\ fulfilled \in SUBSET all /\ pending \in SUBSET all
      /\ stock \in SUBSET all /\ rfq \in SUBSET all
  OBVIOUS
<1>7. /\ Summary.requests = Cardinality(all)
      /\ Summary.fulfilled = Cardinality(fulfilled)
      /\ Summary.pending = Cardinality(pending)
      /\ Breakdown.stock = Cardinality(stock)
      /\ Breakdown.rfq = Cardinality(rfq)
      /\ Breakdown.pending = Summary.pending
      /\ Dashboard.pendingOrders = Summary.pending
      /\ WarehouseRelations.fulfilled = Summary.fulfilled
  BY <1>1, Counters
<1>8. StockRequestStats["Pending"] = Cardinality(pending)
  BY <1>5, Counters
<1> HIDE DEF all, fulfilled, pending, stock, rfq
<1>9. /\ Cardinality(fulfilled) \in Nat /\ Cardinality(pending) \in Nat
      /\ Cardinality(all) = Cardinality(fulfilled) + Cardinality(pending)
  <2>1. /\ Cardinality(fulfilled) \in Nat /\ Cardinality(pending) \in Nat
        /\ Cardinality(fulfilled \cup pending) = Cardinality(fulfilled) + Cardinality(pending)
    <3>1. fulfilled \cap pending = {}
      BY <1>3
    <3>2. IsFiniteSet(all) /\ fulfilled \in SUBSET all /\ pending \in SUBSET all
      BY <1>1, <1>6
    <3> QED BY <3>1, <3>2, DisjointRows
  <2> QED BY <1>3, <2>1
<1>10. /\ Cardinality(stock) \in Nat /\ Cardinality(rfq) \in Nat
       /\ Cardinality(fulfilled) = Cardinality(stock) + Cardinality(rfq)
  <2>1. IsFiniteSet(all) /\ stock \in SUBSET all /\ rfq \in SUBSET all
    BY <1>1, <1>6
  <2>2. stock \cap rfq = {} /\ stock \cup rfq = fulfilled
    BY <1>4
  <2>3. /\ Cardinality(stock) \in Nat /\ Cardinality(rfq) \in Nat
        /\ Cardinality(stock \cup rfq) = Cardinality(stock) + Cardinality(rfq)
    BY <2>1, <2>2, DisjointRows
  <2> QED BY <2>2, <2>3
<1> QED BY <1>7, <1>8, <1>9, <1>10

LEMMA OrdersAddUp ==
    ASSUME TypeOK, InspectionsCount
    PROVE  /\ Dashboard.openOrders + Summary.delivered <= Len(orders)
           /\ \A o \in DOMAIN orders : PurchaseOrderStatus(o) # "Partially Delivered"
<1> DEFINE all == DOMAIN orders
           open == {o \in DOMAIN orders : orders[o].status \in OpenOrderStatuses}
           delivered == {o \in DOMAIN orders : orders[o].status = "Delivered"}
<1>1. IsFiniteSet(all) /\ Cardinality(all) = Len(orders)
  BY RowsFinite DEF TypeOK
<1>2. open \cap delivered = {}
  BY DEF OpenOrderStatuses
<1>3. open \in SUBSET all /\ delivered \in SUBSET all
  OBVIOUS
<1>4. Dashboard.openOrders = Cardinality(open) /\ Summary.delivered = Cardinality(delivered)
  BY Counters
<1> HIDE DEF all, open, delivered
<1>5. Cardinality(open) + Cardinality(delivered) <= Cardinality(all)
  BY <1>1, <1>2, <1>3, DisjointRows
<1>6. ASSUME NEW o \in DOMAIN orders
      PROVE  PurchaseOrderStatus(o) # "Partially Delivered"
  <2>1. orders[o].qty \in Int /\ orders[o].status \in OrderStatuses
    BY OrderRow DEF Order
  <2>2. orders[o].status = "Delivered" => orders[o].received = orders[o].qty
    BY DEF InspectionsCount
  <2>3. orders[o].status # "Partially Delivered"
    BY <2>1 DEF OrderStatuses
  <2>4. orders[o].status = "Delivered" => orders[o].received >= orders[o].qty
    BY <2>1, <2>2
  <2> QED BY <2>3, <2>4 DEF PurchaseOrderStatus
<1> QED BY <1>1, <1>4, <1>5, <1>6

\* Every request shown as fulfilled has a shipment of its own that arrived.
LEMMA ShipmentsArrived ==
    ASSUME TypeOK, RefsSound
    PROVE  StockRequestStats["Fulfilled"] <= ShipmentStats["Delivered"]
<1> DEFINE S == {p \in DOMAIN requests : HeadOfficeStatus(p) = "Fulfilled"}
           T == {t \in DOMAIN transfers : ShipmentStatus[transfers[t].status] = "Delivered"}
           f == [p \in S |-> requests[p].ref.id]
<1>1. IsFiniteSet(DOMAIN transfers)
  BY RowsFinite DEF TypeOK
<1>2. IsFiniteSet(T)
  <2>1. T \subseteq DOMAIN transfers
    OBVIOUS
  <2> QED BY <1>1, <2>1, FS_Subset
<1>3. ASSUME NEW p \in S
      PROVE  requests[p].ref.id \in T /\ transfers[requests[p].ref.id].owner = RequestOwner(p)
  <2>1. ServedBy(p, Arrived)
    BY DEF HeadOfficeStatus
  <2>2. /\ requests[p].ref.id \in DOMAIN transfers
        /\ transfers[requests[p].ref.id].owner = RequestOwner(p)
    BY <2>1 DEF ServedBy, RefsSound, RequestRefSound
  <2>3. transfers[requests[p].ref.id].status \in {"Delivered", "Completed"}
    BY <2>1 DEF ServedBy, Arrived
  <2> QED BY <2>2, <2>3 DEF ShipmentStatus
<1>4. \A p : RequestOwner(p).id = p
  BY OwnerTypes
<1>5. f \in [S -> T]
  BY <1>3
<1>6. ASSUME NEW p \in S, NEW q \in S, f[p] = f[q]
      PROVE  p = q
  BY <1>3, <1>4, <1>6
<1>7. f \in Injection(S, T)
  BY <1>5, <1>6 DEF Injection, IsInjective
<1>8. Cardinality(S) <= Cardinality(T)
  BY <1>2, <1>7, FS_Injection
<1> QED BY <1>8, Counters

-----------------------------------------------------------------------------
(* The same columns on other screens *)

Receipts == {a \in DOMAIN asns : asns[a].receipt # NoReceipt}
AcceptedBy == [a \in Receipts |-> asns[a].receipt.accepted]
CountedBy == [a \in Receipts |-> asns[a].receipt.accepted + asns[a].receipt.rejected]
NoticedBy == [a \in DOMAIN asns |-> asns[a].shipped]
LeftBy == [t \in DOMAIN transfers |->
              IF transfers[t].status = "Pending" THEN 0 ELSE transfers[t].qty]
RequestedBy == [p \in DOMAIN requests |-> requests[p].qty]
ReturnedBy == [r \in DOMAIN returns |-> returns[r].qty]

LEMMA ColumnsShown ==
    /\ Dashboard.received = Tally(AcceptedBy)
    /\ GoodsFlow.received = Tally(AcceptedBy)
    /\ SumOf(WarehouseExport.goodsReceived, LAMBDA a : a.accepted) = Tally(AcceptedBy)
    /\ SumOf(WarehouseExport.goodsReceived, LAMBDA a : a.accepted + a.rejected) = Tally(CountedBy)
    /\ TopSku.received = Tally(NoticedBy)
    /\ Total(orders, LAMBDA o : TRUE, LAMBDA o : o.received) = Received
    /\ SumOf(WarehouseExport.goodsSent,
             LAMBDA t : IF t.status = "Pending" THEN 0 ELSE t.qty) = Tally(LeftBy)
    /\ SumOf(WarehouseExport.goodsSent, LAMBDA t : t.qty) = Shipped
    /\ SumOf(StoreExport.received, LAMBDA t : t.qty) = Shipped
    /\ StoreDashboard.units = Tally(RequestedBy)
    /\ SumOf(StoreExport.returned, LAMBDA r : r.qty) = Tally(ReturnedBy)
    /\ WarehouseExport.stock.onHand = inventory.onHand
<1>1. Dashboard.received = Tally(AcceptedBy) /\ GoodsFlow.received = Tally(AcceptedBy)
  BY DEF Dashboard, GoodsFlow, GoodsReceived, Total, AcceptedBy, Receipts
<1>2. /\ SumOf(WarehouseExport.goodsReceived, LAMBDA a : a.accepted) = Tally(AcceptedBy)
      /\ SumOf(WarehouseExport.goodsReceived, LAMBDA a : a.accepted + a.rejected)
            = Tally(CountedBy)
  <2> DEFINE section == WarehouseExport.goodsReceived
  <2>1. section = [a \in Receipts |-> [accepted |-> asns[a].receipt.accepted,
                                       rejected |-> asns[a].receipt.rejected]]
    BY DEF WarehouseExport, Receipts
  <2> HIDE DEF section
  <2>2. [i \in DOMAIN section |-> section[i].accepted] = AcceptedBy
    BY <2>1 DEF AcceptedBy
  <2>3. [i \in DOMAIN section |-> section[i].accepted + section[i].rejected] = CountedBy
    BY <2>1 DEF CountedBy
  <2> QED BY <2>2, <2>3 DEF SumOf, section
<1>3. TopSku.received = Tally(NoticedBy)
  <2>1. {a \in DOMAIN asns : TRUE} = DOMAIN asns
    OBVIOUS
  <2> QED BY <2>1 DEF TopSku, Total, NoticedBy
<1>4. Total(orders, LAMBDA o : TRUE, LAMBDA o : o.received) = Received
  <2>1. {o \in DOMAIN orders : TRUE} = DOMAIN orders
    OBVIOUS
  <2> QED BY <2>1 DEF Total, Received
<1>5. /\ SumOf(WarehouseExport.goodsSent,
               LAMBDA t : IF t.status = "Pending" THEN 0 ELSE t.qty) = Tally(LeftBy)
      /\ SumOf(WarehouseExport.goodsSent, LAMBDA t : t.qty) = Shipped
      /\ SumOf(StoreExport.received, LAMBDA t : t.qty) = Shipped
  <2> DEFINE section == [t \in DOMAIN transfers |->
                            [qty |-> transfers[t].qty, status |-> transfers[t].status]]
  <2>1. WarehouseExport.goodsSent = section /\ StoreExport.received = section
    BY DEF WarehouseExport, StoreExport
  <2>2. [i \in DOMAIN section |-> section[i].qty] = [t \in DOMAIN transfers |-> transfers[t].qty]
    OBVIOUS
  <2>3. [i \in DOMAIN section |-> IF section[i].status = "Pending" THEN 0 ELSE section[i].qty]
           = LeftBy
    BY DEF LeftBy
  <2> HIDE DEF section
  <2> QED BY <2>1, <2>2, <2>3 DEF SumOf, Shipped
<1>6. StoreDashboard.units = Tally(RequestedBy)
  <2>1. {p \in DOMAIN requests : TRUE} = DOMAIN requests
    OBVIOUS
  <2> QED BY <2>1 DEF StoreDashboard, RequestedUnits, Total, RequestedBy
<1>7. SumOf(StoreExport.returned, LAMBDA r : r.qty) = Tally(ReturnedBy)
  <2> DEFINE section == [r \in DOMAIN returns |-> [qty |-> returns[r].qty,
                                                   decision |-> returns[r].decision,
                                                   status |-> returns[r].status]]
  <2>1. StoreExport.returned = section
    BY DEF StoreExport
  <2>2. [i \in DOMAIN section |-> section[i].qty] = ReturnedBy
    BY DEF ReturnedBy
  <2> HIDE DEF section
  <2> QED BY <2>1, <2>2 DEF SumOf
<1>8. WarehouseExport.stock.onHand = inventory.onHand
  BY DEF WarehouseExport
<1> QED BY <1>1, <1>2, <1>3, <1>4, <1>5, <1>6, <1>7, <1>8

\* Goods are received for the order they were noticed for, one notice for each.
LEMMA AcceptedWithinReceived ==
    ASSUME TypeOK, NoticeSound, ReceiptCounts, Countable
    PROVE  Tally(AcceptedBy) \in Nat /\ Received \in Nat /\ Tally(AcceptedBy) <= Received
<1> DEFINE f == [a \in Receipts |-> asns[a].po]
<1>1. /\ \A a \in DOMAIN asns : asns[a].po \in DOMAIN orders
      /\ \A a, b \in DOMAIN asns : asns[a].po = asns[b].po => a = b
  BY DEF NoticeSound
<1>2. DOMAIN AcceptedBy = Receipts /\ DOMAIN ReceivedBy = DOMAIN orders
  BY DEF AcceptedBy, ReceivedBy
<1>3. Receipts \subseteq DOMAIN asns
  BY DEF Receipts
<1>4. f \in Injection(DOMAIN AcceptedBy, DOMAIN ReceivedBy)
  BY <1>1, <1>2, <1>3 DEF Injection, IsInjective
<1>5. ASSUME NEW a \in DOMAIN AcceptedBy
      PROVE  /\ AcceptedBy[a] \in Nat /\ ReceivedBy[f[a]] \in Nat
             /\ AcceptedBy[a] <= ReceivedBy[f[a]]
  <2>1. a \in DOMAIN asns /\ a \in Receipts /\ asns[a].po \in DOMAIN orders
    BY <1>1, <1>2, <1>3
  <2>2. asns[a].receipt \in GoodsReceipt /\ orders[asns[a].po].received \in Nat
    BY <2>1, AsnRow, OrderRow DEF Asn
  <2>3. asns[a].receipt.accepted \in Nat
    BY <2>2 DEF GoodsReceipt
  <2>4. asns[a].receipt.accepted <= orders[asns[a].po].received
    BY <2>1 DEF ReceiptCounts
  <2>5. AcceptedBy[a] = asns[a].receipt.accepted
    BY <2>1 DEF AcceptedBy
  <2>6. ReceivedBy[f[a]] = orders[asns[a].po].received
    BY <2>1 DEF ReceivedBy
  <2> QED BY <2>2, <2>3, <2>4, <2>5, <2>6
<1>6. IsFiniteSet(Units(ReceivedBy)) /\ Received = Tally(ReceivedBy)
  BY Columns DEF Countable
<1> HIDE DEF f
<1> QED BY <1>4, <1>5, <1>6, TallyBound

LEMMA CountedWithinNoticed ==
    ASSUME TypeOK, ReceiptCounts
    PROVE  Tally(CountedBy) <= Tally(NoticedBy)
<1>1. \A a \in DOMAIN asns : asns[a].receipt \in GoodsReceipt /\ asns[a].shipped \in Nat
  BY AsnRow DEF Asn
<1>2. \A a \in DOMAIN asns : asns[a].receipt.accepted \in Nat /\ asns[a].receipt.rejected \in Nat
  BY <1>1 DEF GoodsReceipt
<1>3. /\ DOMAIN CountedBy = Receipts /\ DOMAIN NoticedBy = DOMAIN asns
      /\ Receipts \subseteq DOMAIN asns
  BY DEF CountedBy, NoticedBy, Receipts
<1>4. \A a \in DOMAIN NoticedBy : NoticedBy[a] \in Nat
  BY <1>1 DEF NoticedBy
<1>5. IsFiniteSet(DOMAIN asns)
  BY RowsFinite DEF TypeOK
<1>6. IsFiniteSet(Units(NoticedBy))
  BY <1>3, <1>4, <1>5, FiniteColumn
<1>7. ASSUME NEW a \in DOMAIN CountedBy
      PROVE  /\ CountedBy[a] \in Nat /\ NoticedBy[a] \in Nat
             /\ CountedBy[a] <= NoticedBy[a]
  <2>1. a \in DOMAIN asns /\ a \in Receipts
    BY <1>3
  <2>2. CountedBy[a] = asns[a].receipt.accepted + asns[a].receipt.rejected
    BY <2>1 DEF CountedBy
  <2>3. NoticedBy[a] = asns[a].shipped
    BY <2>1 DEF NoticedBy
  <2>4. asns[a].receipt.accepted + asns[a].receipt.rejected <= asns[a].shipped
    BY <2>1 DEF ReceiptCounts
  <2> QED BY <1>1, <1>2, <2>1, <2>2, <2>3, <2>4
<1> QED BY <1>3, <1>6, <1>7, TallyOfSome

\* What was sent is what was counted of orders that left.
LEMMA LeftIsFulfilled ==
    ASSUME TypeOK
    PROVE  Tally(LeftBy) = GoodsFlow.fulfilled
<1> DEFINE S == {t \in DOMAIN transfers : transfers[t].status \in {"Dispatched"} \cup Arrived}
           d == [t \in S |-> transfers[t].qty]
<1>1. GoodsFlow.fulfilled = Tally(d)
  BY DEF GoodsFlow, SentToStores, Total
<1>2. \A t \in DOMAIN transfers : transfers[t].status \in TransferStatuses
  BY TransferRow DEF Transfer
<1>3. \A t \in DOMAIN transfers : t \in S <=> transfers[t].status # "Pending"
  BY <1>2 DEF TransferStatuses, Arrived
<1>4. DOMAIN LeftBy = DOMAIN transfers /\ DOMAIN d = S /\ S \subseteq DOMAIN transfers
  BY DEF LeftBy
<1>5. \A t \in DOMAIN d : d[t] = LeftBy[t]
  BY <1>3 DEF LeftBy
<1>6. \A t \in DOMAIN LeftBy : t \notin DOMAIN d => LeftBy[t] = 0
  BY <1>3, <1>4 DEF LeftBy
<1> HIDE DEF d, S
<1>7. Tally(LeftBy) = Tally(d)
  BY <1>4, <1>5, <1>6, TallyOfCounting
<1> QED BY <1>1, <1>7

\* Transfer orders, one at most for each request and each return and as many units as it
\* asked for, take no more than was asked for.
LEMMA ShippedWithinWanted ==
    ASSUME TypeOK, Countable, ServedOnce
    PROVE  Shipped <= Tally(RequestedBy) + Tally(ReturnedBy)
<1> DEFINE S == {t \in DOMAIN transfers : transfers[t].owner.kind = "request"}
           in == [t \in S |-> transfers[t].qty]
           out == [t \in DOMAIN transfers \ S |-> transfers[t].qty]
           f == [t \in S |-> transfers[t].owner.id]
           g == [t \in DOMAIN transfers \ S |-> transfers[t].owner.id]
<1>1. /\ IsFiniteSet(Units(ShippedBy)) /\ Shipped = Tally(ShippedBy)
      /\ \A t \in DOMAIN transfers : transfers[t].qty \in Nat
  BY Columns DEF Countable
<1>2. /\ DOMAIN ShippedBy = DOMAIN transfers
      /\ \A t \in DOMAIN transfers : ShippedBy[t] = transfers[t].qty
  BY DEF ShippedBy
<1>3. ASSUME NEW t \in DOMAIN transfers
      PROVE  /\ t \in S => /\ transfers[t].owner = RequestOwner(transfers[t].owner.id)
                           /\ transfers[t].owner.id \in DOMAIN requests
                           /\ transfers[t].qty = requests[transfers[t].owner.id].qty
             /\ t \notin S => /\ transfers[t].owner = ReturnOwner(transfers[t].owner.id)
                              /\ transfers[t].owner.id \in DOMAIN returns
                              /\ transfers[t].qty = returns[transfers[t].owner.id].qty
  <2>1. PICK owner \in Owner : owner = transfers[t].owner
    BY TransferRow
  <2>2. OwnerExists(owner) /\ transfers[t].qty = Wanted(owner)
    BY <2>1 DEF ServedOnce
  <2> QED BY <2>1, <2>2, OwnerTypes DEF OwnerExists, Wanted
<1>4. \A t, u \in DOMAIN transfers : transfers[t].owner = transfers[u].owner => t = u
  BY DEF ServedOnce
<1>5. /\ DOMAIN in = DOMAIN ShippedBy \cap S /\ DOMAIN out = DOMAIN ShippedBy \ S
      /\ \A t \in DOMAIN in : in[t] = ShippedBy[t] /\ in[t] = transfers[t].qty
      /\ \A t \in DOMAIN out : out[t] = ShippedBy[t] /\ out[t] = transfers[t].qty
      /\ DOMAIN in = S /\ DOMAIN out = DOMAIN transfers \ S
  BY <1>2
<1>6. /\ DOMAIN RequestedBy = DOMAIN requests /\ DOMAIN ReturnedBy = DOMAIN returns
      /\ \A p \in DOMAIN requests : RequestedBy[p] = requests[p].qty
      /\ \A r \in DOMAIN returns : ReturnedBy[r] = returns[r].qty
  BY DEF RequestedBy, ReturnedBy
<1>7. IsFiniteSet(Units(RequestedBy)) /\ IsFiniteSet(Units(ReturnedBy))
  <2>1. IsFiniteSet(DOMAIN requests) /\ IsFiniteSet(DOMAIN returns)
    BY RowsFinite DEF TypeOK
  <2>4. /\ \A p \in DOMAIN requests : requests[p].qty \in Quantities
        /\ \A r \in DOMAIN returns : returns[r].qty \in Quantities
    BY RequestRow, ReturnRow DEF Request, Return
  <2>2. \A p \in DOMAIN requests : requests[p].qty \in Nat
    BY <2>4, ConstantTypes, Zenon
  <2>3. \A r \in DOMAIN returns : returns[r].qty \in Nat
    BY <2>4, ConstantTypes, Zenon
  <2> QED BY <1>6, <2>1, <2>2, <2>3, FiniteColumn
<1>8. f \in Injection(DOMAIN in, DOMAIN RequestedBy)
  BY <1>3, <1>4, <1>6 DEF Injection, IsInjective
<1>9. g \in Injection(DOMAIN out, DOMAIN ReturnedBy)
  BY <1>3, <1>4, <1>6 DEF Injection, IsInjective
<1>10. \A t \in DOMAIN in : RequestedBy[f[t]] = in[t] /\ in[t] \in Nat
  BY <1>1, <1>3, <1>6
<1>11. \A t \in DOMAIN out : ReturnedBy[g[t]] = out[t] /\ out[t] \in Nat
  BY <1>1, <1>3, <1>6
<1> HIDE DEF S, in, out, f, g
<1>12. \A t \in DOMAIN in : in[t] <= RequestedBy[f[t]] /\ RequestedBy[f[t]] \in Nat
  BY <1>10
<1>13. \A t \in DOMAIN out : out[t] <= ReturnedBy[g[t]] /\ ReturnedBy[g[t]] \in Nat
  BY <1>11
<1>14. Tally(in) <= Tally(RequestedBy) /\ Tally(in) \in Nat /\ Tally(RequestedBy) \in Nat
  BY <1>7, <1>8, <1>10, <1>12, TallyBound
<1>15. Tally(out) <= Tally(ReturnedBy) /\ Tally(out) \in Nat /\ Tally(ReturnedBy) \in Nat
  BY <1>7, <1>9, <1>11, <1>13, TallyBound
<1>16. Tally(ShippedBy) = Tally(in) + Tally(out)
  <2> DEFINE T == DOMAIN transfers \ S
  <2>1. IsPart(in, ShippedBy, S)
    BY <1>5 DEF IsPart
  <2>2. IsPart(out, ShippedBy, T)
    BY <1>5 DEF IsPart
  <2>3. \A t \in DOMAIN ShippedBy : t \in T <=> t \notin S
    BY <1>2
  <2> HIDE DEF T
  <2> QED BY <1>1, <2>1, <2>2, <2>3, TallySplit
<1> QED BY <1>1, <1>14, <1>15, <1>16

-----------------------------------------------------------------------------
(* The numbers on the screens *)

\* The reservations of requests are some of all.
LEMMA ReservedShown ==
    ASSUME HeldFinite
    PROVE  InventoryItem.reserved >= Tally([h \in ReservedRows |-> h.reserved])
<1> DEFINE d == [h \in ReservedRows |-> h.reserved]
<1>1. InventoryItem.reserved = Tally(HeldBy)
  BY DEF InventoryItem, Reserved, HeldBy
<1>2. DOMAIN d = ReservedRows /\ DOMAIN HeldBy = reservations /\ ReservedRows \subseteq reservations
  BY DEF HeldBy, ReservedRows
<1>3. \A h \in DOMAIN d : d[h] \in Nat /\ HeldBy[h] \in Nat /\ d[h] <= HeldBy[h]
  <2>1. \A h \in DOMAIN d : d[h] = h.reserved /\ HeldBy[h] = h.reserved /\ h.reserved \in Nat
    BY <1>2 DEF HeldFinite, HeldBy
  <2> HIDE DEF d
  <2> QED BY <2>1
<1>4. IsFiniteSet(Units(HeldBy))
  BY DEF HeldFinite
<1> HIDE DEF d
<1>5. Tally(d) <= Tally(HeldBy) /\ Tally(d) \in Nat /\ Tally(HeldBy) \in Nat
  BY <1>2, <1>3, <1>4, TallyOfSome
<1> QED BY <1>1, <1>5 DEF d

\* What holds of the tables that the screens are read from.
Shown ==
    /\ RefsSound /\ RefsEmpty /\ NoticeSound
    /\ ReceiptCounts /\ InspectionsCount /\ GoodsLeft
    /\ Countable /\ HeldFinite /\ OnHandLedger /\ adjusted.onHand = 0
    /\ ServedOnce

LEMMA CountersAgreeWhenSound ==
    ASSUME TypeOK, Shown
    PROVE  CountersAgree
<1>1. /\ Summary.fulfilled + Summary.pending = Summary.requests
      /\ Breakdown.stock + Breakdown.rfq + Breakdown.pending = Summary.requests
      /\ Summary.pending = Dashboard.pendingOrders
      /\ Summary.pending = StockRequestStats["Pending"]
      /\ WarehouseRelations.fulfilled = Summary.fulfilled
  BY RequestsAddUp DEF Shown
<1>2. /\ Dashboard.openOrders + Summary.delivered <= Len(orders)
      /\ \A o \in DOMAIN orders : PurchaseOrderStatus(o) # "Partially Delivered"
  BY OrdersAddUp DEF Shown
<1>3. StockRequestStats["Fulfilled"] <= ShipmentStats["Delivered"]
  BY ShipmentsArrived DEF Shown
<1>4. GoodsFlow.received <= Total(orders, LAMBDA o : TRUE, LAMBDA o : o.received)
  <2>1. Tally(AcceptedBy) <= Received
    BY AcceptedWithinReceived DEF Shown
  <2>2. GoodsFlow.received = Tally(AcceptedBy)
    BY ColumnsShown
  <2>3. Total(orders, LAMBDA o : TRUE, LAMBDA o : o.received) = Received
    BY ColumnsShown
  <2> QED BY <2>1, <2>2, <2>3
<1>5. InventoryItem.reserved >= Tally([h \in ReservedRows |-> h.reserved])
  BY ReservedShown DEF Shown
<1> QED BY <1>1, <1>2, <1>3, <1>4, <1>5 DEF CountersAgree

LEMMA ReportsAgreeWhenSound ==
    ASSUME TypeOK, Shown
    PROVE  ReportsAgree
<1> DEFINE received == WarehouseExport.goodsReceived
           sent     == WarehouseExport.goodsSent
           asked    == StoreExport.requests
<1>1. SumOf(received, LAMBDA a : a.accepted) = Dashboard.received
  BY ColumnsShown
<1>2. SumOf(received, LAMBDA a : a.accepted + a.rejected) <= TopSku.received
  BY ColumnsShown, CountedWithinNoticed DEF Shown
<1>3. SumOf(sent, LAMBDA t : IF t.status = "Pending" THEN 0 ELSE t.qty) = GoodsFlow.fulfilled
  BY ColumnsShown, LeftIsFulfilled
<1>4. WarehouseExport.stock.onHand + SumOf(sent, LAMBDA t : t.qty)
         >= Opening + SumOf(received, LAMBDA a : a.accepted)
  <2>1. /\ Tally(AcceptedBy) \in Nat /\ Received \in Nat /\ Tally(AcceptedBy) <= Received
        /\ Shipped \in Nat
    BY AcceptedWithinReceived, Columns DEF Shown
  <2>2. inventory.onHand \in Int /\ Opening \in Nat
    BY FulfilmentAssumption DEF TypeOK, Inventory
  <2>3. inventory.onHand = Opening + 0 + Received - Shipped
    BY DEF Shown, OnHandLedger
  <2>4. inventory.onHand + Shipped >= Opening + Tally(AcceptedBy)
    BY <2>1, <2>2, <2>3
  <2>5. /\ WarehouseExport.stock.onHand = inventory.onHand
        /\ SumOf(sent, LAMBDA t : t.qty) = Shipped
        /\ SumOf(received, LAMBDA a : a.accepted) = Tally(AcceptedBy)
    BY ColumnsShown
  <2> QED BY <2>4, <2>5
<1>5. SumOf(StoreExport.received, LAMBDA t : t.qty)
         <= StoreDashboard.units + SumOf(StoreExport.returned, LAMBDA r : r.qty)
  BY ColumnsShown, ShippedWithinWanted DEF Shown
<1>6. {p \in DOMAIN asked : asked[p].approval = "pending"}
         = {p \in DOMAIN requests : RequestStatus(p) = "pending"}
  <2>1. /\ DOMAIN asked = DOMAIN requests
        /\ \A p \in DOMAIN requests :
              asked[p].approval = IF IsApproved(p) THEN "approved" ELSE "pending"
    BY DEF StoreExport
  <2>2. ASSUME NEW p \in DOMAIN requests
        PROVE  RequestStatus(p) = "pending" <=> ~IsApproved(p)
    <3>1. requests[p].ref.kind \in {"none", "rfq", "transfer_order"}
      BY RequestRow DEF Request, Ref
    <3>2. requests[p].type = "none" <=> requests[p].ref.kind = "none"
      BY TypedByRef DEF Shown
    <3> QED BY <3>1, <3>2 DEF RequestStatus, IsApproved
  <2> HIDE DEF asked
  <2> QED BY <2>1, <2>2
<1>7. ASSUME NEW r \in DOMAIN ReplenishmentReport, ReplenishmentReport[r] = "dispatched"
      PROVE  \E t \in DOMAIN ShipmentReport :
                ~ShipmentReport[t].request /\ ShipmentReport[t].status # "Pending"
  <2>1. r \in DOMAIN returns /\ returns[r].status = "dispatched"
    BY <1>7 DEF ReplenishmentReport
  <2>2. PICK t \in DOMAIN transfers :
                transfers[t].owner = ReturnOwner(r) /\ transfers[t].status # "Pending"
    BY <2>1 DEF Shown, GoodsLeft
  <2>3. transfers[t].owner.kind # "request"
    BY <2>2, OwnerTypes
  <2> QED BY <2>2, <2>3 DEF ShipmentReport
<1> QED BY <1>1, <1>2, <1>3, <1>4, <1>5, <1>6, <1>7 DEF ReportsAgree

\* Everybody being careful, a number that is shown on two screens, or in two spreadsheets, is
\* the same, or one bounds the other, however many rows there are.
THEOREM NumbersAlwaysAgree ==
    Adjustments = {} /\ Careful /\ "advance" \in Discipline /\ Spec => []NumbersAgree
<1> SUFFICES ASSUME Adjustments = {}, Careful, "advance" \in Discipline
             PROVE  Spec => []NumbersAgree
  OBVIOUS
<1> DEFINE Read == RefsEmpty /\ ReceiptCounts /\ GoodsLeft /\ adjusted.onHand = 0
<1>1. Init => Read
  BY DEF Init, RefsEmpty, ReceiptCounts, GoodsLeft
<1>2. TypeOK /\ Linked /\ NoticeSound /\ Read /\ [Next]_vars => Read'
  <2> SUFFICES ASSUME TypeOK, Linked, NoticeSound, Read, [Next]_vars
               PROVE  Read'
    OBVIOUS
  <2>1. RefsEmpty' /\ GoodsLeft'
    BY RefsEmptyStep, GoodsLeftStep
  <2>2. "count" \in Discipline
    BY DEF Careful
  <2>3. ReceiptCounts'
    BY <2>2, ReceiptCountsStep
  <2>4. adjusted'.onHand = 0
    BY NothingAdjusted
  <2> QED BY <2>1, <2>3, <2>4
<1>3. TypeOK /\ RefsSound /\ NoticeSound /\ Read /\ Stocked /\ OnHandLedger /\ ServedOnce
         => NumbersAgree
  BY CountersAgreeWhenSound, ReportsAgreeWhenSound DEF Shown, Stocked, NumbersAgree
<1>4. Spec => []Stocked
  BY AlwaysStocked DEF Careful
<1>5. Spec => []ServedOnce
  BY ServedOnceInFull
<1> HIDE DEF Read
<1> QED BY <1>1, <1>2, <1>3, <1>4, <1>5, TypeCorrect, NoticesSound, ReferencesSound,
           UnitsAccountedFor, PTL DEF Spec

-----------------------------------------------------------------------------
(* Lists, page by page *)

\* Where a row is on its page, and on which page.
LEMMA PageRow ==
    ASSUME NEW S, NEW rows \in Seq(S), NEW page \in Nat \ {0}
    PROVE  /\ Page(rows, page) \in Seq(S)
           /\ DOMAIN Page(rows, page)
                = {i \in 1..PageSize : Offset(page) + i <= Len(rows)}
           /\ \A i \in DOMAIN Page(rows, page) : Page(rows, page)[i] = rows[Offset(page) + i]
<1> DEFINE m == Offset(page) + 1
           n == Min({Offset(page) + PageSize, Len(rows)})
<1>1. PageSize \in Nat \ {0} /\ Len(rows) \in Nat /\ DOMAIN rows = 1..Len(rows)
  BY ScreensAssumption, LenProperties
<1>2. Offset(page) \in Nat
  BY <1>1 DEF Offset
<1>3. n = IF Offset(page) + PageSize <= Len(rows) THEN Offset(page) + PageSize ELSE Len(rows)
  <2> DEFINE S2 == {Offset(page) + PageSize, Len(rows)}
             least == IF Offset(page) + PageSize <= Len(rows) THEN Offset(page) + PageSize ELSE Len(rows)
  <2>1. least \in S2 /\ \A y \in S2 : least <= y
    BY <1>1, <1>2
  <2>2. S2 \subseteq Nat
    BY <1>1, <1>2
  <2> HIDE DEF S2, least
  <2>3. \A x \in S2 : (\A y \in S2 : x <= y) => x = least
    BY <2>1, <2>2
  <2>4. Min(S2) = least
    BY <2>1, <2>3 DEF Min
  <2> QED BY <2>4 DEF S2, least
<1> HIDE DEF n
<1>4. n \in Nat /\ m \in Nat /\ Page(rows, page) = SubSeq(rows, m, n)
  BY <1>1, <1>2, <1>3 DEF Page, n
<1> HIDE DEF m
<1>5. \A i \in m..n : rows[i] \in S
  <2>1. \A i \in m..n : i \in DOMAIN rows
    <3> DEFINE o == Offset(page)
               len == Len(rows)
    <3>1. /\ o \in Nat /\ len \in Nat /\ DOMAIN rows = 1..len /\ m = o + 1 /\ n \in Nat
          /\ n = IF o + PageSize <= len THEN o + PageSize ELSE len
      BY <1>1, <1>2, <1>3, <1>4 DEF m
    <3> HIDE DEF o, len
    <3> QED BY <1>1, <3>1
  <2> QED BY <2>1, RowTyped
<1>6. /\ SubSeq(rows, m, n) \in Seq(S)
      /\ Len(SubSeq(rows, m, n)) = IF m <= n THEN n - m + 1 ELSE 0
      /\ \A i \in 1..(n - m + 1) : SubSeq(rows, m, n)[i] = rows[m + i - 1]
  <2>1. m \in Int /\ n \in Int
    BY <1>4
  <2> QED BY <1>5, <2>1, SubSeqProperties
<1>7. DOMAIN Page(rows, page) = 1..(IF m <= n THEN n - m + 1 ELSE 0)
  BY <1>4, <1>6, LenProperties
<1>8. DOMAIN Page(rows, page) = {i \in 1..PageSize : Offset(page) + i <= Len(rows)}
  <2>1. \A i : i \in 1..(IF m <= n THEN n - m + 1 ELSE 0)
                <=> i \in 1..PageSize /\ Offset(page) + i <= Len(rows)
    <3> DEFINE o == Offset(page)
               len == Len(rows)
    <3>1. /\ o \in Nat /\ len \in Nat /\ m = o + 1 /\ n \in Nat
          /\ n = IF o + PageSize <= len THEN o + PageSize ELSE len
      BY <1>1, <1>2, <1>3, <1>4 DEF m
    <3> HIDE DEF o, len
    <3>2. \A i : i \in 1..(IF m <= n THEN n - m + 1 ELSE 0)
                  <=> i \in 1..PageSize /\ o + i <= len
      <4>1. CASE m <= n
        BY <1>1, <3>1, <4>1
      <4>2. CASE ~ m <= n
        BY <1>1, <3>1, <4>2
      <4> QED BY <4>1, <4>2
    <3> QED BY <3>2 DEF o, len
  <2> QED BY <1>7, <2>1
<1>9. \A i \in DOMAIN Page(rows, page) : Page(rows, page)[i] = rows[Offset(page) + i]
  BY <1>1, <1>2, <1>4, <1>6, <1>7 DEF m
<1> QED BY <1>4, <1>6, <1>8, <1>9

\* No row is on two pages.
LEMMA OnOnePage ==
    ASSUME NEW page \in Nat \ {0}, NEW other \in Nat \ {0}, NEW i \in 1..PageSize,
           NEW j \in 1..PageSize, Offset(page) + i = Offset(other) + j
    PROVE  page = other /\ i = j
<1>1. PageSize \in Nat \ {0}
  BY ScreensAssumption
<1>2. \A p, q \in Nat \ {0} : p < q => Offset(p) + PageSize <= Offset(q)
  <2> SUFFICES ASSUME NEW p \in Nat \ {0}, NEW q \in Nat \ {0}, p < q
               PROVE  Offset(p) + PageSize <= Offset(q)
    OBVIOUS
  <2>1. q - 1 - p \in Nat /\ q - 1 - p >= 0
    OBVIOUS
  <2>2. (q - 1 - p) * PageSize >= 0
    BY <1>1, <2>1
  <2>3. (q - 1) * PageSize = (q - 1 - p) * PageSize + p * PageSize
    BY <1>1
  <2>4. p * PageSize = (p - 1) * PageSize + PageSize
    BY <1>1
  <2>5. (q - 1) * PageSize \in Nat /\ p * PageSize \in Nat /\ (p - 1) * PageSize \in Nat
        /\ (q - 1 - p) * PageSize \in Nat
    BY <1>1, <2>1
  <2> QED BY <1>1, <2>2, <2>3, <2>4, <2>5 DEF Offset
<1>3. Offset(page) \in Nat /\ Offset(other) \in Nat
  BY <1>1 DEF Offset
<1>4. ~ page < other
  BY <1>1, <1>2, <1>3
<1>5. ~ other < page
  BY <1>1, <1>2, <1>3
<1>6. page = other
  BY <1>4, <1>5
<1> QED BY <1>3, <1>6

\* Every row is on one of the pages announced.
LEMMA OnSomePage ==
    ASSUME NEW total \in Nat, NEW n \in 1..total
    PROVE  \E page \in 1..TotalPages(total), i \in 1..PageSize : n = Offset(page) + i
<1> DEFINE page == (n - 1) \div PageSize + 1
           i == ((n - 1) % PageSize) + 1
           pages == (total + PageSize - 1) \div PageSize
<1>1. PageSize \in Nat \ {0}
  BY ScreensAssumption
<1>2. /\ n - 1 = PageSize * ((n - 1) \div PageSize) + ((n - 1) % PageSize)
      /\ (n - 1) \div PageSize \in Nat /\ (n - 1) % PageSize \in 0..(PageSize - 1)
  BY <1>1
<1>3. n = Offset(page) + i /\ i \in 1..PageSize /\ page \in Nat /\ page >= 1
  <2>1. ((n - 1) \div PageSize + 1 - 1) * PageSize = PageSize * ((n - 1) \div PageSize)
    BY <1>1, <1>2
  <2> QED BY <1>1, <1>2, <2>1 DEF Offset
<1>4. page <= pages /\ pages \in Nat
  <2>1. n - 1 + PageSize <= total + PageSize - 1
    BY <1>1
  <2>2. page * PageSize <= total + PageSize - 1
    <3>1. page * PageSize = Offset(page) + PageSize
      BY <1>1, <1>3 DEF Offset
    <3>2. Offset(page) \in Nat
      BY <1>1, <1>3 DEF Offset
    <3> QED BY <1>1, <1>3, <2>1, <3>1, <3>2
  <2> HIDE DEF page
  <2>3. ASSUME NEW x \in Nat, NEW k \in Nat, k * PageSize <= x
        PROVE  k <= x \div PageSize /\ x \div PageSize \in Nat
    <3>1. /\ x = PageSize * (x \div PageSize) + (x % PageSize)
          /\ x \div PageSize \in Nat /\ x % PageSize \in 0..(PageSize - 1)
      BY <1>1
    <3> DEFINE d == x \div PageSize
    <3> HIDE DEF d
    <3>2. SUFFICES ASSUME d < k PROVE FALSE
      BY <3>1 DEF d
    <3>3. k - d - 1 >= 0 /\ k - d - 1 \in Nat
      BY <3>1, <3>2 DEF d
    <3>4. (k - d - 1) * PageSize >= 0
      BY <1>1, <3>3
    <3>5. k * PageSize = (k - d - 1) * PageSize + PageSize * d + PageSize
      BY <1>1, <3>1 DEF d
    <3>6. k * PageSize \in Nat /\ (k - d - 1) * PageSize \in Nat /\ PageSize * d \in Nat
      BY <1>1, <3>1, <3>3 DEF d
    <3> QED BY <1>1, <2>3, <3>1, <3>4, <3>5, <3>6 DEF d
  <2>4. total + PageSize - 1 \in Nat /\ page \in Nat
    BY <1>1, <1>3
  <2> QED BY <2>2, <2>3, <2>4
<1>5. page <= TotalPages(total) /\ TotalPages(total) \in Nat
  <2> HIDE DEF page, pages
  <2> DEFINE S2 == {1, pages}
             most == IF pages >= 1 THEN pages ELSE 1
  <2>1. most \in S2 /\ \A y \in S2 : y <= most
    BY <1>4
  <2>2. \A x \in S2 : (\A y \in S2 : y <= x) => x = most
    BY <1>4
  <2>3. TotalPages(total) = Max(S2)
    BY DEF TotalPages, pages
  <2>4. Max(S2) = most
    BY <2>1, <2>2 DEF Max
  <2> HIDE DEF S2
  <2> QED BY <1>3, <1>4, <2>3, <2>4
<1> QED BY <1>3, <1>5

\* Whatever is filtered out of rows that differ, each row that matches is left once.
LEMMA FilteredOnce ==
    ASSUME NEW S, NEW rows \in Seq(S), NEW matching
    PROVE  /\ Filtered(rows, matching) \in Seq(S)
           /\ \A k \in DOMAIN Filtered(rows, matching) :
                 \E i \in DOMAIN rows : /\ Filtered(rows, matching)[k] = rows[i]
                                        /\ rows[i] \in matching
           /\ \A i \in DOMAIN rows : rows[i] \in matching =>
                 \E k \in DOMAIN Filtered(rows, matching) : Filtered(rows, matching)[k] = rows[i]
           /\ (\A i, j \in DOMAIN rows : rows[i] = rows[j] => i = j) =>
                 \A k, l \in DOMAIN Filtered(rows, matching) :
                    Filtered(rows, matching)[k] = Filtered(rows, matching)[l] => k = l
<1> DEFINE at == {i \in DOMAIN rows : rows[i] \in matching}
           UpTo(i) == at \cap (1..i)
           f == [i \in at |-> Cardinality(UpTo(i))]
           n == Cardinality(at)
           Nth(k) == CHOOSE i \in at : Cardinality(at \cap (1..i)) = k
<1>1. /\ Len(rows) \in Nat /\ DOMAIN rows = 1..Len(rows)
      /\ at \subseteq Nat /\ IsFiniteSet(at) /\ n \in Nat
  <2>1. Len(rows) \in Nat /\ DOMAIN rows = 1..Len(rows)
    BY LenProperties
  <2>2. IsFiniteSet(1..Len(rows))
    BY <2>1, FS_Interval
  <2>3. at \subseteq 1..Len(rows) /\ at \subseteq Nat
    BY <2>1
  <2> HIDE DEF at
  <2> QED BY <2>1, <2>2, <2>3, FS_Subset, FS_CardinalityType
<1>2. \A i \in at : IsFiniteSet(UpTo(i)) /\ f[i] \in 1..n
  <2> SUFFICES ASSUME NEW i \in at PROVE IsFiniteSet(UpTo(i)) /\ f[i] \in 1..n
    OBVIOUS
  <2>1. UpTo(i) \subseteq at /\ i \in UpTo(i)
    BY <1>1
  <2> HIDE DEF at, UpTo
  <2>2. IsFiniteSet(UpTo(i)) /\ Cardinality(UpTo(i)) <= n /\ Cardinality(UpTo(i)) \in Nat
    BY <1>1, <2>1, FS_Subset, FS_CardinalityType
  <2>3. Cardinality(UpTo(i)) # 0
    BY <2>1, <2>2, FS_EmptySet
  <2> HIDE DEF n
  <2> QED BY <1>1, <2>2, <2>3
<1>3. \A i, j \in at : i < j => f[i] < f[j]
  <2> SUFFICES ASSUME NEW i \in at, NEW j \in at, i < j PROVE f[i] < f[j]
    OBVIOUS
  <2>1. UpTo(i) \subseteq UpTo(j) /\ j \in UpTo(j) /\ j \notin UpTo(i)
    BY <1>1
  <2>2. IsFiniteSet(UpTo(j)) /\ f[i] \in Nat /\ f[j] \in Nat
    <3> HIDE DEF at, UpTo, f, n
    <3> QED BY <1>1, <1>2
  <2> HIDE DEF at, UpTo
  <2>3. /\ Cardinality(UpTo(i)) <= Cardinality(UpTo(j))
        /\ Cardinality(UpTo(i)) # Cardinality(UpTo(j))
    BY <2>1, <2>2, FS_Subset
  <2> QED BY <2>2, <2>3
<1>4. \A i, j \in at : f[i] = f[j] => i = j
  <2> HIDE DEF at, UpTo, f, n
  <2> SUFFICES ASSUME NEW i \in at, NEW j \in at, f[i] = f[j] PROVE i = j
    OBVIOUS
  <2>1. f[i] \in Nat /\ f[j] \in Nat /\ i \in Nat /\ j \in Nat
    BY <1>1, <1>2
  <2>2. (i < j => f[i] < f[j]) /\ (j < i => f[j] < f[i])
    BY <1>3
  <2> QED BY <2>1, <2>2
<1>5. \A k \in 1..n : \E i \in at : f[i] = k
  <2>1. f \in [at -> 1..n]
    <3> HIDE DEF at, n
    <3>1. f = [i \in at |-> f[i]]
      OBVIOUS
    <3> HIDE DEF f
    <3> QED BY <1>2, <3>1
  <2>2. IsFiniteSet(1..n) /\ Cardinality(1..n) = n
    <3> HIDE DEF n
    <3> QED BY <1>1, FS_Interval
  <2> HIDE DEF at, f
  <2>3. f \in Injection(at, 1..n)
    BY <2>1, <1>4 DEF Injection, IsInjective
  <2>4. f \in Surjection(at, 1..n)
    BY <2>2, <2>3, FS_Injection
  <2> QED BY <2>4 DEF Surjection
<1>6. \A k \in 1..n : Nth(k) \in at /\ f[Nth(k)] = k
  <2> SUFFICES ASSUME NEW k \in 1..n PROVE Nth(k) \in at /\ f[Nth(k)] = k
    OBVIOUS
  <2>1. PICK i \in at : Cardinality(at \cap (1..i)) = k
    <3> HIDE DEF at, n
    <3> QED BY <1>5
  <2> HIDE DEF at
  <2>2. Nth(k) \in at /\ Cardinality(at \cap (1..Nth(k))) = k
    BY <2>1
  <2> QED BY <2>2
<1>7. Filtered(rows, matching) = [k \in 1..n |-> rows[Nth(k)]]
  BY DEF Filtered
<1>8. \A i \in at : i \in DOMAIN rows /\ rows[i] \in matching /\ rows[i] \in S
  BY RowTyped
<1>9. \A i \in DOMAIN rows : rows[i] \in matching => i \in at
  OBVIOUS
<1>10. \A i \in at : i = Nth(f[i])
  <2> HIDE DEF at, f, n, Nth
  <2> QED BY <1>2, <1>4, <1>6
<1> HIDE DEF at, f, n, Nth
<1>11. /\ Filtered(rows, matching) \in Seq(S)
       /\ DOMAIN Filtered(rows, matching) = 1..n
       /\ \A k \in 1..n : Filtered(rows, matching)[k] = rows[Nth(k)]
  <2>1. Filtered(rows, matching) \in [1..n -> S]
    BY <1>6, <1>7, <1>8
  <2> QED BY <1>1, <1>7, <2>1, RowsMapped
<1>12. \A k, l \in 1..n : Nth(k) = Nth(l) => k = l
  BY <1>6
<1> DEFINE found == Filtered(rows, matching)
<1>13. \A k \in DOMAIN found :
          \E i \in DOMAIN rows : found[k] = rows[i] /\ rows[i] \in matching
  BY <1>6, <1>8, <1>11
<1>14. \A i \in DOMAIN rows : rows[i] \in matching =>
          \E k \in DOMAIN found : found[k] = rows[i]
  BY <1>2, <1>9, <1>10, <1>11
<1>15. ASSUME \A i, j \in DOMAIN rows : rows[i] = rows[j] => i = j
       PROVE  \A k, l \in DOMAIN found : found[k] = found[l] => k = l
  <2> SUFFICES ASSUME NEW k \in DOMAIN found, NEW l \in DOMAIN found, found[k] = found[l]
               PROVE  k = l
    OBVIOUS
  <2>1. /\ k \in 1..n /\ l \in 1..n
        /\ rows[Nth(k)] = rows[Nth(l)]
    BY <1>11
  <2>2. Nth(k) \in DOMAIN rows /\ Nth(l) \in DOMAIN rows
    BY <1>6, <1>8, <2>1
  <2>3. Nth(k) = Nth(l)
    BY <1>15, <2>1, <2>2
  <2> QED BY <1>12, <2>1, <2>3
<1> QED BY <1>11, <1>13, <1>14, <1>15

\* A list of the rows R.
Lists(rows, R) ==
    /\ rows \in Seq(Nat)
    /\ \A k \in DOMAIN rows : rows[k] \in R
    /\ \A row \in R : \E k \in DOMAIN rows : rows[k] = row
    /\ \A k, l \in DOMAIN rows : rows[k] = rows[l] => k = l

\* Pages with the rows R, each in one place.
Show(pages, R) ==
    /\ \A page \in DOMAIN pages : \A i \in DOMAIN pages[page] : pages[page][i] \in R
    /\ \A row \in R :
           \E page \in DOMAIN pages : \E i \in DOMAIN pages[page] : pages[page][i] = row
    /\ \A p, q \in DOMAIN pages : \A i \in DOMAIN pages[p] : \A j \in DOMAIN pages[q] :
           pages[p][i] = pages[q][j] => p = q /\ i = j

\* The newest first, all rows of a table are listed.
LEMMA NewestLists ==
    ASSUME NEW S, NEW table \in Seq(S)
    PROVE  /\ Lists(Newest(table), DOMAIN table)
           /\ Len(Newest(table)) = Len(table)
<1> DEFINE n == Len(table)
           rows == Newest(table)
<1>1. n \in Nat /\ DOMAIN table = 1..n
  BY LenProperties
<1>2. rows = [i \in 1..n |-> n + 1 - i]
  BY <1>1 DEF Newest
<1> HIDE DEF n, rows
<1>3. rows \in [1..n -> Nat]
  BY <1>1, <1>2
<1>4. rows \in Seq(Nat) /\ DOMAIN rows = 1..n /\ Len(rows) = n
  BY <1>1, <1>3, RowsMapped, LenProperties
<1>5. \A k \in 1..n : rows[k] = n + 1 - k /\ rows[k] \in 1..n
  BY <1>1, <1>2
<1>6. \A row \in 1..n : n + 1 - row \in 1..n /\ rows[n + 1 - row] = row
  BY <1>1, <1>2
<1>7. \A k, l \in 1..n : rows[k] = rows[l] => k = l
  BY <1>1, <1>5
<1>8. Lists(rows, 1..n)
  BY <1>4, <1>5, <1>6, <1>7 DEF Lists
<1> QED BY <1>1, <1>4, <1>8 DEF rows, n

\* What is filtered out of a list lists what matches.
LEMMA FilteredLists ==
    ASSUME NEW rows, NEW R, Lists(rows, R), NEW matching
    PROVE  Lists(Filtered(rows, matching), R \cap matching)
<1> DEFINE found == Filtered(rows, matching)
<1>1. rows \in Seq(Nat)
  BY DEF Lists
<1>2. /\ found \in Seq(Nat)
      /\ \A k \in DOMAIN found :
            \E i \in DOMAIN rows : found[k] = rows[i] /\ rows[i] \in matching
      /\ \A i \in DOMAIN rows : rows[i] \in matching =>
            \E k \in DOMAIN found : found[k] = rows[i]
      /\ (\A i, j \in DOMAIN rows : rows[i] = rows[j] => i = j) =>
            \A k, l \in DOMAIN found : found[k] = found[l] => k = l
  BY <1>1, FilteredOnce
<1> HIDE DEF found
<1>3. \A row \in R \cap matching : \E k \in DOMAIN found : found[k] = row
  BY <1>2 DEF Lists
<1> QED BY <1>2, <1>3 DEF Lists, found

\* Pages cut from a list show what it lists.
LEMMA PagesShow ==
    ASSUME NEW rows, NEW R, Lists(rows, R)
    PROVE  Show([page \in 1..TotalPages(Len(rows)) |-> Page(rows, page)], R)
<1> DEFINE last == TotalPages(Len(rows))
           pages == [page \in 1..last |-> Page(rows, page)]
           len == Len(rows)
<1>1. rows \in Seq(Nat) /\ len \in Nat /\ DOMAIN rows = 1..len
  BY LenProperties DEF Lists
<1>2. \A page \in 1..last :
         /\ page \in Nat \ {0}
         /\ Offset(page) \in Nat
         /\ \A i : i \in DOMAIN pages[page] <=> i \in 1..PageSize /\ Offset(page) + i <= len
         /\ \A i \in DOMAIN pages[page] :
               pages[page][i] = rows[Offset(page) + i] /\ Offset(page) + i \in 1..len
  <2> SUFFICES ASSUME NEW page \in 1..last
               PROVE  /\ page \in Nat \ {0}
                      /\ Offset(page) \in Nat
                      /\ \A i : i \in DOMAIN Page(rows, page)
                                  <=> i \in 1..PageSize /\ Offset(page) + i <= len
                      /\ \A i \in DOMAIN Page(rows, page) :
                            /\ Page(rows, page)[i] = rows[Offset(page) + i]
                            /\ Offset(page) + i \in 1..len
    OBVIOUS
  <2>1. page \in Nat \ {0}
    OBVIOUS
  <2>2. Offset(page) \in Nat
    BY <2>1, ScreensAssumption DEF Offset
  <2>3. /\ DOMAIN Page(rows, page) = {i \in 1..PageSize : Offset(page) + i <= len}
        /\ \A i \in DOMAIN Page(rows, page) : Page(rows, page)[i] = rows[Offset(page) + i]
    <3>1. rows \in Seq(Nat)
      BY <1>1
    <3> HIDE DEF last, pages
    <3> QED BY <2>1, <3>1, PageRow, ZenonT(60)
  <2>4. \A i \in DOMAIN Page(rows, page) : Offset(page) + i \in 1..len
    BY <1>1, <2>2, <2>3, ScreensAssumption
  <2> QED BY <2>1, <2>2, <2>3, <2>4
<1>3. DOMAIN pages = 1..last
  OBVIOUS
<1> HIDE DEF pages
<1>4. \A page \in DOMAIN pages : \A i \in DOMAIN pages[page] : pages[page][i] \in R
  BY <1>1, <1>2, <1>3 DEF Lists
<1>5. ASSUME NEW row \in R
      PROVE  \E page \in DOMAIN pages : \E i \in DOMAIN pages[page] : pages[page][i] = row
  <2>1. PICK k \in 1..len : rows[k] = row
    BY <1>1 DEF Lists
  <2>2. PICK page \in 1..last, i \in 1..PageSize : k = Offset(page) + i
    BY <1>1, OnSomePage
  <2> HIDE DEF last, len
  <2>3. i \in DOMAIN pages[page]
    <3>1. Offset(page) + i <= len
      BY <1>1, <2>1, <2>2
    <3> QED BY <1>2, <2>2, <3>1
  <2> QED BY <1>2, <1>3, <2>1, <2>2, <2>3
<1>6. ASSUME NEW p \in DOMAIN pages, NEW q \in DOMAIN pages,
             NEW i \in DOMAIN pages[p], NEW j \in DOMAIN pages[q], pages[p][i] = pages[q][j]
      PROVE  p = q /\ i = j
  <2> HIDE DEF last, len
  <2>1. /\ p \in Nat \ {0} /\ q \in Nat \ {0}
        /\ i \in 1..PageSize /\ j \in 1..PageSize
        /\ rows[Offset(p) + i] = rows[Offset(q) + j]
        /\ Offset(p) + i \in DOMAIN rows /\ Offset(q) + j \in DOMAIN rows
    BY <1>1, <1>2, <1>3, <1>6
  <2>2. Offset(p) + i = Offset(q) + j
    BY <2>1 DEF Lists
  <2> QED BY <2>1, <2>2, OnOnePage
<1>7. Show(pages, R)
  BY <1>4, <1>5, <1>6 DEF Show
<1> QED BY <1>7 DEF pages, last

\* Pages cut from what was filtered show what matches.
LEMMA FilteredFirstShows ==
    ASSUME NEW rows, NEW R, Lists(rows, R), NEW matching
    PROVE  Show(FilteredFirst(rows, matching), R \cap matching)
BY FilteredLists, PagesShow DEF FilteredFirst

\* What is filtered of each page shows what matches.
LEMMA FilteredLastShows ==
    ASSUME NEW rows, NEW R, Lists(rows, R), NEW matching
    PROVE  Show(FilteredLast(rows, matching), R \cap matching)
<1> DEFINE last == TotalPages(Len(rows))
           cut == [page \in 1..last |-> Page(rows, page)]
           pages == FilteredLast(rows, matching)
<1>1. Show(cut, R)
  BY PagesShow
<1>2. pages = [page \in 1..last |-> Filtered(cut[page], matching)]
  BY DEF FilteredLast
<1>3. \A page \in 1..last : cut[page] \in Seq(Nat)
  <2>1. rows \in Seq(Nat)
    BY DEF Lists
  <2>2. \A page \in Nat \ {0} : Page(rows, page) \in Seq(Nat)
    BY <2>1, PageRow
  <2>3. \A page \in 1..last : page \in Nat \ {0}
    OBVIOUS
  <2> QED BY <2>2, <2>3
<1>4. DOMAIN pages = 1..last /\ DOMAIN cut = 1..last
  BY <1>2
<1> HIDE DEF pages, cut, last
<1>5. \A page \in DOMAIN pages : pages[page] = Filtered(cut[page], matching)
  BY <1>2, <1>4
<1>6. \A page \in DOMAIN pages : \A k \in DOMAIN pages[page] :
         \E i \in DOMAIN cut[page] : pages[page][k] = cut[page][i] /\ cut[page][i] \in matching
  BY <1>3, <1>4, <1>5, FilteredOnce
<1>7. \A page \in DOMAIN pages : \A i \in DOMAIN cut[page] : cut[page][i] \in matching =>
         \E k \in DOMAIN pages[page] : pages[page][k] = cut[page][i]
  BY <1>3, <1>4, <1>5, FilteredOnce
<1>8. ASSUME NEW p \in DOMAIN pages, NEW k \in DOMAIN pages[p], NEW l \in DOMAIN pages[p],
             pages[p][k] = pages[p][l]
      PROVE  k = l
  <2>1. \A i, j \in DOMAIN cut[p] : cut[p][i] = cut[p][j] => i = j
    BY <1>1, <1>4 DEF Show
  <2> QED BY <1>3, <1>4, <1>5, <1>8, <2>1, FilteredOnce, SMTT(40)
<1>9. \A page \in DOMAIN pages : \A k \in DOMAIN pages[page] : pages[page][k] \in R \cap matching
  BY <1>1, <1>4, <1>6 DEF Show
<1>10. \A row \in R \cap matching :
          \E page \in DOMAIN pages : \E k \in DOMAIN pages[page] : pages[page][k] = row
  BY <1>1, <1>4, <1>7 DEF Show
<1>11. ASSUME NEW p \in DOMAIN pages, NEW q \in DOMAIN pages,
              NEW k \in DOMAIN pages[p], NEW l \in DOMAIN pages[q], pages[p][k] = pages[q][l]
       PROVE  p = q /\ k = l
  <2>1. PICK i \in DOMAIN cut[p] : pages[p][k] = cut[p][i]
    BY <1>6
  <2>2. PICK j \in DOMAIN cut[q] : pages[q][l] = cut[q][j]
    BY <1>6
  <2>3. p = q
    <3>1. cut[p][i] = cut[q][j]
      BY <1>11, <2>1, <2>2
    <3>2. p \in DOMAIN cut /\ q \in DOMAIN cut
      BY <1>4
    <3> QED BY <1>1, <3>1, <3>2 DEF Show
  <2> QED BY <1>8, <1>11, <2>3
<1>12. Show(pages, R \cap matching)
  BY <1>9, <1>10, <1>11 DEF Show
<1> QED BY <1>12 DEF pages

\* Tabs whose rows are all the rows of a table, none under two, show each once.
LEMMA TabsShowEachOnce ==
    ASSUME NEW S, NEW table \in Seq(S), NEW screen, NEW R,
           DOMAIN R = DOMAIN screen,
           \A tab \in DOMAIN screen : Show(screen[tab], R[tab]),
           \A tab \in DOMAIN screen : R[tab] \subseteq DOMAIN table,
           \A row \in DOMAIN table : \E tab \in DOMAIN screen : row \in R[tab],
           \A t, u \in DOMAIN screen : \A row \in R[t] : row \in R[u] => t = u
    PROVE  ShowsEachOnce(screen, table)
<1> DEFINE places == Places(screen)
           Row(at) == screen[at[1]][at[2]][at[3]]
           f == [at \in places |-> Row(at)]
           len == Len(table)
<1>1. /\ \A tab \in DOMAIN screen : \A page \in DOMAIN screen[tab] :
            \A i \in DOMAIN screen[tab][page] : <<tab, page, i>> \in places
      /\ \A at \in places :
            \E tab \in DOMAIN screen : \E page \in DOMAIN screen[tab] :
               \E i \in DOMAIN screen[tab][page] : at = <<tab, page, i>>
  BY DEF Places
<1>2. len \in Nat /\ DOMAIN table = 1..len
  BY LenProperties
<1>3. \A tab \in DOMAIN screen : \A page \in DOMAIN screen[tab] :
         \A i \in DOMAIN screen[tab][page] : Row(<<tab, page, i>>) = screen[tab][page][i]
  OBVIOUS
<1> HIDE DEF places, Row, len
<1>4. \A at \in places : Row(at) \in DOMAIN table
  <2> SUFFICES ASSUME NEW at \in places PROVE Row(at) \in DOMAIN table
    OBVIOUS
  <2>1. PICK tab \in DOMAIN screen : \E page \in DOMAIN screen[tab] :
           \E i \in DOMAIN screen[tab][page] : at = <<tab, page, i>>
    BY <1>1
  <2>2. PICK page \in DOMAIN screen[tab] :
           \E i \in DOMAIN screen[tab][page] : at = <<tab, page, i>>
    BY <2>1
  <2>3. PICK i \in DOMAIN screen[tab][page] : at = <<tab, page, i>>
    BY <2>2
  <2>4. screen[tab][page][i] \in R[tab]
    BY DEF Show
  <2> QED BY <1>3, <2>3, <2>4
<1>5. \A row \in DOMAIN table : \E at \in places : Row(at) = row
  <2> SUFFICES ASSUME NEW row \in DOMAIN table PROVE \E at \in places : Row(at) = row
    OBVIOUS
  <2>1. PICK tab \in DOMAIN screen : row \in R[tab]
    OBVIOUS
  <2>2. PICK page \in DOMAIN screen[tab] :
           \E i \in DOMAIN screen[tab][page] : screen[tab][page][i] = row
    BY <2>1 DEF Show
  <2>3. PICK i \in DOMAIN screen[tab][page] : screen[tab][page][i] = row
    BY <2>2
  <2>4. <<tab, page, i>> \in places
    BY <1>1
  <2>5. Row(<<tab, page, i>>) = row
    BY <1>3, <2>3
  <2> QED BY <2>4, <2>5
<1>6. \A at, bt \in places : Row(at) = Row(bt) => at = bt
  <2> SUFFICES ASSUME NEW at \in places, NEW bt \in places, Row(at) = Row(bt) PROVE at = bt
    OBVIOUS
  <2>1. PICK t \in DOMAIN screen : \E page \in DOMAIN screen[t] :
           \E i \in DOMAIN screen[t][page] : at = <<t, page, i>>
    BY <1>1
  <2>2. PICK p \in DOMAIN screen[t] : \E i \in DOMAIN screen[t][p] : at = <<t, p, i>>
    BY <2>1
  <2>3. PICK i \in DOMAIN screen[t][p] : at = <<t, p, i>>
    BY <2>2
  <2>4. PICK u \in DOMAIN screen : \E page \in DOMAIN screen[u] :
           \E j \in DOMAIN screen[u][page] : bt = <<u, page, j>>
    BY <1>1
  <2>5. PICK q \in DOMAIN screen[u] : \E j \in DOMAIN screen[u][q] : bt = <<u, q, j>>
    BY <2>4
  <2>6. PICK j \in DOMAIN screen[u][q] : bt = <<u, q, j>>
    BY <2>5
  <2>7. screen[t][p][i] = screen[u][q][j]
    BY <1>3, <2>3, <2>6
  <2>8. screen[t][p][i] \in R[t] /\ screen[u][q][j] \in R[u]
    BY DEF Show
  <2>9. t = u
    BY <2>7, <2>8
  <2>10. p = q /\ i = j
    BY <2>7, <2>9 DEF Show
  <2> QED BY <2>3, <2>6, <2>9, <2>10
<1>7. f \in Injection(places, DOMAIN table) /\ f \in Surjection(places, DOMAIN table)
  <2>1. f \in [places -> DOMAIN table]
    BY <1>4
  <2>2. \A at \in places : f[at] = Row(at)
    OBVIOUS
  <2> HIDE DEF f
  <2> QED BY <1>5, <1>6, <2>1, <2>2 DEF Injection, IsInjective, Surjection
<1>8. Cardinality(places) = Cardinality(DOMAIN table)
  <2>1. IsFiniteSet(DOMAIN table)
    BY RowsFinite
  <2> HIDE DEF f
  <2>2. IsFiniteSet(places)
    BY <1>7, <2>1, FS_Injection
  <2> QED BY <1>7, <2>1, <2>2, FS_Injection, FS_Surjection
<1>9. Cardinality(places) = Len(table)
  BY <1>8, RowsFinite
<1>10. {Row(at) : at \in places} = DOMAIN table
  <2>1. \A row : row \in {Row(at) : at \in places} <=> row \in DOMAIN table
    BY <1>4, <1>5
  <2> QED BY <2>1
<1> QED BY <1>9, <1>10 DEF ShowsEachOnce, places, Row

\* M[tab] are the rows of a table that belong under a tab: each under one.
UnderOneTab(M, D) ==
    /\ \A tab \in DOMAIN M : M[tab] \subseteq D
    /\ \A row \in D : \E tab \in DOMAIN M : row \in M[tab]
    /\ \A t, u \in DOMAIN M : \A row \in M[t] : row \in M[u] => t = u

\* Rows that have one status each, whether it is filtered before the pages are cut or after.
LEMMA FilteredScreens ==
    ASSUME NEW S, NEW table \in Seq(S), NEW M, UnderOneTab(M, DOMAIN table)
    PROVE  /\ ShowsEachOnce([tab \in DOMAIN M |-> FilteredFirst(Newest(table), M[tab])], table)
           /\ ShowsEachOnce([tab \in DOMAIN M |-> FilteredLast(Newest(table), M[tab])], table)
<1> DEFINE first == [tab \in DOMAIN M |-> FilteredFirst(Newest(table), M[tab])]
           last == [tab \in DOMAIN M |-> FilteredLast(Newest(table), M[tab])]
<1>1. Lists(Newest(table), DOMAIN table)
  BY NewestLists
<1>2. \A tab \in DOMAIN M : DOMAIN table \cap M[tab] = M[tab]
  BY DEF UnderOneTab
<1>3. DOMAIN first = DOMAIN M /\ \A tab \in DOMAIN M : Show(first[tab], M[tab])
  BY <1>1, <1>2, FilteredFirstShows
<1>4. DOMAIN last = DOMAIN M /\ \A tab \in DOMAIN M : Show(last[tab], M[tab])
  BY <1>1, <1>2, FilteredLastShows
<1> HIDE DEF first, last
<1>5. ShowsEachOnce(first, table)
  BY <1>3, TabsShowEachOnce DEF UnderOneTab
<1>6. ShowsEachOnce(last, table)
  BY <1>4, TabsShowEachOnce DEF UnderOneTab
<1> QED BY <1>5, <1>6 DEF first, last

\* Each row has one status, of those there are tabs for.
LEMMA StatusUnderOneTab ==
    ASSUME NEW D, NEW T, NEW status, \A row \in D : status[row] \in T
    PROVE  UnderOneTab([tab \in T |-> {row \in D : status[row] = tab}], D)
BY DEF UnderOneTab

\* The status of a request, in the words of each portal, is one there is a tab for.
LEMMA RequestTabs ==
    ASSUME TypeOK, NEW p \in DOMAIN requests
    PROVE  /\ StoreStatus(p) \in ToSet(Stages)
           /\ RequestStatus(p) \in DOMAIN TrackingLabels
           /\ HeadOfficeStatus(p) \in HeadOfficeStatuses
<1>1. ToSet(Stages) = {"Preparing", "Dispatched", "In Transit", "Delivered"}
  <2>1. DOMAIN Stages = 1..4
    BY DEF Stages
  <2>2. 1..4 = {1, 2, 3, 4}
    OBVIOUS
  <2>3. /\ Stages[1] = "Preparing" /\ Stages[2] = "Dispatched"
        /\ Stages[3] = "In Transit" /\ Stages[4] = "Delivered"
    BY DEF Stages
  <2>4. ToSet(Stages) = {Stages[i] : i \in 1..4}
    BY <2>1 DEF ToSet
  <2> QED BY <2>2, <2>3, <2>4
<1>2. requests[p] \in Request
  BY RowTyped DEF TypeOK
<1>3. requests[p].ref.kind \in {"none", "rfq", "transfer_order"}
  BY <1>2 DEF Request, Ref
<1>4. RequestStatus(p) \in {"pending", "forwarded", "fulfilled", "completed"}
  BY <1>3 DEF RequestStatus
<1>5. StoreStatus(p) \in ToSet(Stages)
  BY <1>1 DEF StoreStatus
<1>6. DOMAIN TrackingLabels = {"pending", "forwarded", "fulfilled", "completed", "declined"}
  BY DEF TrackingLabels
<1>7. HeadOfficeStatus(p) \in HeadOfficeStatuses
  BY DEF HeadOfficeStatus, HeadOfficeStatuses
<1> QED BY <1>4, <1>5, <1>6, <1>7

\* So is the status of an order.
LEMMA OrderTabs ==
    ASSUME TypeOK
    PROVE  /\ \A o \in DOMAIN orders : PurchaseOrderStatus(o) \in PurchaseOrderStatuses
           /\ \A t \in DOMAIN transfers : /\ transfers[t].status \in TransferStatuses
                                          /\ ShipmentStatus[transfers[t].status] \in ShipmentStatuses
<1>1. \A o \in DOMAIN orders : orders[o].status \in OrderStatuses
  <2>1. \A o \in DOMAIN orders : orders[o] \in Order
    BY RowTyped DEF TypeOK
  <2> QED BY <2>1 DEF Order
<1>2. \A t \in DOMAIN transfers : transfers[t].status \in TransferStatuses
  <2>1. \A t \in DOMAIN transfers : transfers[t] \in Transfer
    BY RowTyped DEF TypeOK
  <2> QED BY <2>1 DEF Transfer
<1>3. \A s \in TransferStatuses : ShipmentStatus[s] \in ShipmentStatuses
  <2>1. /\ ShipmentStatus["Pending"] = "Packed" /\ ShipmentStatus["Dispatched"] = "Dispatched"
        /\ ShipmentStatus["Delivered"] = "Delivered" /\ ShipmentStatus["Completed"] = "Delivered"
    BY DEF ShipmentStatus
  <2> QED BY <2>1 DEF TransferStatuses, ShipmentStatuses
<1>4. \A o \in DOMAIN orders : PurchaseOrderStatus(o) \in PurchaseOrderStatuses
  BY <1>1 DEF PurchaseOrderStatus, PurchaseOrderStatuses
<1> QED BY <1>2, <1>3, <1>4

\* The tabs of each of the seven screens take every row once.
LEMMA ScreensShowEachOnce ==
    ASSUME TypeOK
    PROVE  EachShownOnce
<1>1. requests \in Seq(Request) /\ orders \in Seq(Order) /\ transfers \in Seq(Transfer)
  BY DEF TypeOK
<1>2. ShowsEachOnce([tab \in ToSet(Stages) |-> StoreRequests(tab)], requests)
  <2> DEFINE status == [p \in DOMAIN requests |-> StoreStatus(p)]
             M == [tab \in ToSet(Stages) |-> {p \in DOMAIN requests : status[p] = tab}]
  <2>1. UnderOneTab(M, DOMAIN requests)
    <3>1. \A p \in DOMAIN requests : status[p] \in ToSet(Stages)
      BY RequestTabs
    <3> HIDE DEF status
    <3> QED BY <3>1, StatusUnderOneTab
  <2>2. \A tab \in DOMAIN M : M[tab] = {p \in DOMAIN requests : StoreStatus(p) = tab}
    OBVIOUS
  <2>3. DOMAIN M = ToSet(Stages)
    OBVIOUS
  <2> HIDE DEF M
  <2>4. ShowsEachOnce([tab \in DOMAIN M |-> FilteredLast(Newest(requests), M[tab])], requests)
    BY <1>1, <2>1, FilteredScreens
  <2>5. \A tab \in DOMAIN M : FilteredLast(Newest(requests), M[tab]) = StoreRequests(tab)
    BY <2>2 DEF StoreRequests
  <2>6. [tab \in DOMAIN M |-> FilteredLast(Newest(requests), M[tab])]
           = [tab \in ToSet(Stages) |-> StoreRequests(tab)]
    BY <2>3, <2>5
  <2> QED BY <2>4, <2>6
<1>3. ShowsEachOnce([tab \in DOMAIN TrackingLabels |-> WarehouseRequests(tab)], requests)
  <2> DEFINE status == [p \in DOMAIN requests |-> RequestStatus(p)]
             M == [tab \in DOMAIN TrackingLabels |-> {p \in DOMAIN requests : status[p] = tab}]
  <2>1. UnderOneTab(M, DOMAIN requests)
    <3>1. \A p \in DOMAIN requests : status[p] \in DOMAIN TrackingLabels
      BY RequestTabs
    <3> HIDE DEF status
    <3> QED BY <3>1, StatusUnderOneTab
  <2>2. \A tab \in DOMAIN M : M[tab] = {p \in DOMAIN requests : RequestStatus(p) = tab}
    OBVIOUS
  <2>3. DOMAIN M = DOMAIN TrackingLabels
    OBVIOUS
  <2> HIDE DEF M
  <2>4. ShowsEachOnce([tab \in DOMAIN M |-> FilteredLast(Newest(requests), M[tab])], requests)
    BY <1>1, <2>1, FilteredScreens
  <2>5. \A tab \in DOMAIN M : FilteredLast(Newest(requests), M[tab]) = WarehouseRequests(tab)
    BY <2>2 DEF WarehouseRequests
  <2>6. [tab \in DOMAIN M |-> FilteredLast(Newest(requests), M[tab])]
           = [tab \in DOMAIN TrackingLabels |-> WarehouseRequests(tab)]
    BY <2>3, <2>5
  <2> QED BY <2>4, <2>6
<1>4. ShowsEachOnce([tab \in {TrackingLabels[s] : s \in DOMAIN TrackingLabels} |->
                        OrderTracking(tab)], requests)
  <2> DEFINE status == [p \in DOMAIN requests |-> TrackingLabels[RequestStatus(p)]]
             labels == {TrackingLabels[s] : s \in DOMAIN TrackingLabels}
             M == [tab \in labels |-> {p \in DOMAIN requests : status[p] = tab}]
  <2>1. UnderOneTab(M, DOMAIN requests)
    <3>1. \A p \in DOMAIN requests : status[p] \in labels
      BY RequestTabs
    <3> HIDE DEF status, labels
    <3> QED BY <3>1, StatusUnderOneTab
  <2>2. \A tab \in DOMAIN M :
           M[tab] = {p \in DOMAIN requests : TrackingLabels[RequestStatus(p)] = tab}
    OBVIOUS
  <2>3. DOMAIN M = labels
    OBVIOUS
  <2> HIDE DEF M
  <2>4. ShowsEachOnce([tab \in DOMAIN M |-> FilteredLast(Newest(requests), M[tab])], requests)
    BY <1>1, <2>1, FilteredScreens
  <2>5. \A tab \in DOMAIN M : FilteredLast(Newest(requests), M[tab]) = OrderTracking(tab)
    BY <2>2 DEF OrderTracking
  <2>6. [tab \in DOMAIN M |-> FilteredLast(Newest(requests), M[tab])]
           = [tab \in labels |-> OrderTracking(tab)]
    BY <2>3, <2>5
  <2> QED BY <2>4, <2>6
<1>5. ShowsEachOnce([tab \in HeadOfficeStatuses |-> StockRequests(tab)], requests)
  <2> DEFINE status == [p \in DOMAIN requests |-> HeadOfficeStatus(p)]
             M == [tab \in HeadOfficeStatuses |-> {p \in DOMAIN requests : status[p] = tab}]
  <2>1. UnderOneTab(M, DOMAIN requests)
    <3>1. \A p \in DOMAIN requests : status[p] \in HeadOfficeStatuses
      BY RequestTabs
    <3> HIDE DEF status
    <3> QED BY <3>1, StatusUnderOneTab
  <2>2. \A tab \in DOMAIN M : M[tab] = {p \in DOMAIN requests : HeadOfficeStatus(p) = tab}
    OBVIOUS
  <2>3. DOMAIN M = HeadOfficeStatuses
    OBVIOUS
  <2> HIDE DEF M
  <2>4. ShowsEachOnce([tab \in DOMAIN M |-> FilteredLast(Newest(requests), M[tab])], requests)
    BY <1>1, <2>1, FilteredScreens
  <2>5. \A tab \in DOMAIN M : FilteredLast(Newest(requests), M[tab]) = StockRequests(tab)
    BY <2>2 DEF StockRequests
  <2>6. [tab \in DOMAIN M |-> FilteredLast(Newest(requests), M[tab])]
           = [tab \in HeadOfficeStatuses |-> StockRequests(tab)]
    BY <2>3, <2>5
  <2> QED BY <2>4, <2>6
<1>6. ShowsEachOnce([tab \in PurchaseOrderStatuses |-> PurchaseOrders(tab)], orders)
  <2> DEFINE status == [o \in DOMAIN orders |-> PurchaseOrderStatus(o)]
             M == [tab \in PurchaseOrderStatuses |-> {o \in DOMAIN orders : status[o] = tab}]
  <2>1. UnderOneTab(M, DOMAIN orders)
    <3>1. \A o \in DOMAIN orders : status[o] \in PurchaseOrderStatuses
      BY OrderTabs
    <3> HIDE DEF status
    <3> QED BY <3>1, StatusUnderOneTab
  <2>2. \A tab \in DOMAIN M : M[tab] = {o \in DOMAIN orders : PurchaseOrderStatus(o) = tab}
    OBVIOUS
  <2>3. DOMAIN M = PurchaseOrderStatuses
    OBVIOUS
  <2> HIDE DEF M
  <2>4. ShowsEachOnce([tab \in DOMAIN M |-> FilteredLast(Newest(orders), M[tab])], orders)
    BY <1>1, <2>1, FilteredScreens
  <2>5. \A tab \in DOMAIN M : FilteredLast(Newest(orders), M[tab]) = PurchaseOrders(tab)
    BY <2>2 DEF PurchaseOrders
  <2>6. [tab \in DOMAIN M |-> FilteredLast(Newest(orders), M[tab])]
           = [tab \in PurchaseOrderStatuses |-> PurchaseOrders(tab)]
    BY <2>3, <2>5
  <2> QED BY <2>4, <2>6
<1>7. ShowsEachOnce([tab \in TransferStatuses |-> TransferOrders(tab)], transfers)
  <2> DEFINE status == [t \in DOMAIN transfers |-> transfers[t].status]
             M == [tab \in TransferStatuses |-> {t \in DOMAIN transfers : status[t] = tab}]
  <2>1. UnderOneTab(M, DOMAIN transfers)
    <3>1. \A t \in DOMAIN transfers : status[t] \in TransferStatuses
      BY OrderTabs
    <3> HIDE DEF status
    <3> QED BY <3>1, StatusUnderOneTab
  <2>2. \A tab \in DOMAIN M : M[tab] = {t \in DOMAIN transfers : transfers[t].status = tab}
    OBVIOUS
  <2>3. DOMAIN M = TransferStatuses
    OBVIOUS
  <2> HIDE DEF M
  <2>4. ShowsEachOnce([tab \in DOMAIN M |-> FilteredFirst(Newest(transfers), M[tab])], transfers)
    BY <1>1, <2>1, FilteredScreens
  <2>5. \A tab \in DOMAIN M : FilteredFirst(Newest(transfers), M[tab]) = TransferOrders(tab)
    BY <2>2 DEF TransferOrders
  <2>6. [tab \in DOMAIN M |-> FilteredFirst(Newest(transfers), M[tab])]
           = [tab \in TransferStatuses |-> TransferOrders(tab)]
    BY <2>3, <2>5
  <2> QED BY <2>4, <2>6
<1>8. ShowsEachOnce([tab \in ShipmentStatuses |-> OutboundShipments(tab)], transfers)
  <2> DEFINE status == [t \in DOMAIN transfers |-> ShipmentStatus[transfers[t].status]]
             M == [tab \in ShipmentStatuses |-> {t \in DOMAIN transfers : status[t] = tab}]
  <2>1. UnderOneTab(M, DOMAIN transfers)
    <3>1. \A t \in DOMAIN transfers : status[t] \in ShipmentStatuses
      BY OrderTabs
    <3> HIDE DEF status
    <3> QED BY <3>1, StatusUnderOneTab
  <2>2. \A tab \in DOMAIN M :
           M[tab] = {t \in DOMAIN transfers : transfers[t].status \in StatusesFor(tab)}
    <3>1. \A t \in DOMAIN transfers : transfers[t].status \in TransferStatuses
      BY OrderTabs
    <3> QED BY <3>1 DEF StatusesFor
  <2>3. DOMAIN M = ShipmentStatuses
    OBVIOUS
  <2> HIDE DEF M
  <2>4. ShowsEachOnce([tab \in DOMAIN M |-> FilteredFirst(Newest(transfers), M[tab])], transfers)
    BY <1>1, <2>1, FilteredScreens
  <2>5. \A tab \in DOMAIN M : FilteredFirst(Newest(transfers), M[tab]) = OutboundShipments(tab)
    BY <2>2 DEF OutboundShipments
  <2>6. [tab \in DOMAIN M |-> FilteredFirst(Newest(transfers), M[tab])]
           = [tab \in ShipmentStatuses |-> OutboundShipments(tab)]
    BY <2>3, <2>5
  <2> QED BY <2>4, <2>6
<1> QED BY <1>2, <1>3, <1>4, <1>5, <1>6, <1>7, <1>8 DEF EachShownOnce

\* Whoever walks through the pages under all tabs of a screen is shown each row once, however
\* many rows there are, whatever the size of a page, and whatever the clients do.
THEOREM EachRowShownOnce == Spec => []EachShownOnce
BY TypeCorrect, ScreensShowEachOnce, PTL

-----------------------------------------------------------------------------
(* Fulfilment implements Tender *)

\* Module Sourcing tells vendors apart; here one stands for all of them.
TheVendor == 1

\* How far an order is, as its vendor and the store see it.
StageOf(status) ==
    CASE status = "Pending Acceptance" -> "pending"
      [] status \in Shippable          -> "accepted"
      [] status = "Rejected"           -> "rejected"
      [] status = "Delivered"          -> "fulfilled"

AwardOf(order) == [rfq |-> order.rfq, vendor |-> TheVendor, state |-> StageOf(order.status)]

Asked  == [r \in DOMAIN rfqs |-> {TheVendor}]
Offers == {<<r, TheVendor>> : r \in {q \in DOMAIN rfqs : rfqs[q].quoted}}
Awards == [o \in DOMAIN orders |-> AwardOf(orders[o])]

Promise == INSTANCE Tender WITH
    Vendors <- {TheVendor},
    asked   <- Asked,
    offers  <- Offers,
    awards  <- Awards

\* What Sourcing keeps of sourcing's promise, fulfilment keeps to the delivery.
ImplementsTender == Promise!Spec

LEMMA StageOfEach ==
    /\ StageOf("Pending Acceptance") = "pending"
    /\ StageOf("Accepted") = "accepted"
    /\ StageOf("Ready to Ship") = "accepted"
    /\ StageOf("Rejected") = "rejected"
    /\ StageOf("Delivered") = "fulfilled"
    /\ \A status \in Shippable : StageOf(status) = "accepted"
BY DEF StageOf, Shippable

LEMMA SameOffers ==
    ASSUME DOMAIN rfqs' = DOMAIN rfqs,
           \A r \in DOMAIN rfqs : rfqs'[r].quoted = rfqs[r].quoted
    PROVE  UNCHANGED <<Asked, Offers>>
BY DEF Asked, Offers

\* An RFQ raised asks the vendor.
LEMMA VendorAsked ==
    ASSUME TypeOK, NEW owner \in Owner, NEW q \in Int,
           rfqs' = Append(rfqs, NewRfq(owner, q)), UNCHANGED orders
    PROVE  Promise!Ask
<1> DEFINE row == NewRfq(owner, q)
           f == [any \in Rfq |-> {TheVendor}]
<1>1. row \in Rfq /\ ~row.quoted
  BY RfqTypes DEF NewRfq
<1>2. rfqs \in Seq(Rfq) /\ rfqs' = Append(rfqs, row)
  BY DEF TypeOK
<1> HIDE DEF row
<1>3. /\ Len(rfqs) \in Nat /\ DOMAIN rfqs = 1..Len(rfqs)
      /\ DOMAIN rfqs' = 1..(Len(rfqs) + 1)
      /\ \A r \in DOMAIN rfqs : rfqs'[r] = rfqs[r]
      /\ rfqs'[Len(rfqs) + 1] = row
      /\ rfqs' \in Seq(Rfq)
  BY <1>1, <1>2, RowAdded
<1>4. Offers' = Offers
  <2>1. {r \in DOMAIN rfqs' : rfqs'[r].quoted} = {r \in DOMAIN rfqs : rfqs[r].quoted}
    BY <1>1, <1>3
  <2> QED BY <2>1 DEF Offers
<1>5. Asked' = Append(Asked, {TheVendor})
  <2>1. /\ \A r \in DOMAIN rfqs : rfqs[r] \in Rfq
        /\ \A r \in DOMAIN rfqs' : rfqs'[r] \in Rfq
    BY <1>2, <1>3, RowTyped
  <2>2. /\ Asked = [r \in DOMAIN rfqs |-> f[rfqs[r]]]
        /\ Asked' = [r \in DOMAIN rfqs' |-> f[rfqs'[r]]]
    BY <2>1 DEF Asked
  <2>3. f[row] = {TheVendor} /\ f \in [Rfq -> {{TheVendor}}]
    BY <1>1
  <2> HIDE DEF f
  <2> QED BY <1>1, <1>2, <2>2, <2>3, AddedMapped
<1>6. Awards' = Awards
  BY DEF Awards
<1>7. {TheVendor} \in SUBSET {TheVendor}
  OBVIOUS
<1> QED BY <1>4, <1>5, <1>6, <1>7 DEF Promise!Ask

\* A quotation is an offer of the vendor who was asked.
LEMMA OfferMade ==
    ASSUME TypeOK, NEW r \in DOMAIN rfqs, SubmitQuotation(r)
    PROVE  Promise!Offer
<1>1. rfqs[r] \in Rfq
  BY RfqRow
<1>2. [rfqs[r] EXCEPT !.quoted = TRUE, !.status = "Responded"].quoted
  BY <1>1 DEF Rfq
<1>3. rfqs' = [rfqs EXCEPT ![r] = [rfqs[r] EXCEPT !.quoted = TRUE, !.status = "Responded"]]
  BY DEF SubmitQuotation
<1>4. /\ DOMAIN rfqs' = DOMAIN rfqs
      /\ rfqs'[r].quoted
      /\ \A i \in DOMAIN rfqs : i # r => rfqs'[i] = rfqs[i]
  BY <1>2, <1>3
<1>5. {i \in DOMAIN rfqs' : rfqs'[i].quoted} = {i \in DOMAIN rfqs : rfqs[i].quoted} \cup {r}
  BY <1>4
<1>6. Offers' = Offers \cup {<<r, TheVendor>>}
  BY <1>5 DEF Offers
<1>7. UNCHANGED <<Asked, Awards>>
  BY <1>4 DEF Asked, Awards, SubmitQuotation
<1>8. r \in DOMAIN Asked /\ TheVendor \in Asked[r]
  BY DEF Asked
<1> QED BY <1>6, <1>7, <1>8 DEF Promise!Offer

\* A vendor selected: an offer taken up.
LEMMA OfferTaken ==
    ASSUME TypeOK, NEW r \in DOMAIN rfqs, SelectVendor(r)
    PROVE  Promise!TakeUp
<1> DEFINE order == [rfq |-> r, qty |-> rfqs[r].qty, received |-> 0,
                     status |-> "Pending Acceptance", dispatched |-> 0]
           f == [row \in Order |-> AwardOf(row)]
           offer == <<r, TheVendor>>
<1>1. r \in Nat /\ rfqs[r].qty \in Int /\ rfqs[r] \in Rfq
  BY RfqRow
<1>2. order \in Order
  BY <1>1 DEF Order, OrderStatuses
<1>3. orders' = Append(orders, order) /\ orders \in Seq(Order)
  BY DEF SelectVendor, TypeOK
<1>4. AwardOf(order) = [rfq |-> offer[1], vendor |-> offer[2], state |-> "pending"]
  <2>1. order.rfq = r /\ order.status = "Pending Acceptance"
    OBVIOUS
  <2> HIDE DEF order
  <2> QED BY <2>1, StageOfEach DEF AwardOf
<1> HIDE DEF order
<1>5. Awards' = Append(Awards, AwardOf(order))
  <2>1. orders' \in Seq(Order)
    BY <1>2, <1>3, RowAdded
  <2>2. /\ \A o \in DOMAIN orders : orders[o] \in Order
        /\ \A o \in DOMAIN orders' : orders'[o] \in Order
    BY <1>3, <2>1, RowTyped
  <2>3. /\ Awards = [o \in DOMAIN orders |-> f[orders[o]]]
        /\ Awards' = [o \in DOMAIN orders' |-> f[orders'[o]]]
    BY <2>2 DEF Awards
  <2>4. f[order] = AwardOf(order) /\ f \in [Order -> {AwardOf(row) : row \in Order}]
    BY <1>2
  <2> HIDE DEF f
  <2> QED BY <1>2, <1>3, <2>3, <2>4, AddedMapped
<1>6. offer \in Offers
  BY DEF Offers, SelectVendor
<1>7. UNCHANGED <<Asked, Offers>>
  <2>1. rfqs' = [rfqs EXCEPT ![r] = [rfqs[r] EXCEPT !.status = "Purchase Order Generated"]]
    BY DEF SelectVendor
  <2>2. [rfqs[r] EXCEPT !.status = "Purchase Order Generated"].quoted = rfqs[r].quoted
    BY <1>1 DEF Rfq
  <2> QED BY <2>1, <2>2, SameOffers
<1> QED BY <1>4, <1>5, <1>6, <1>7 DEF Promise!TakeUp

\* An order changed is an award moved to the stage the order is at.
LEMMA AwardMoved ==
    ASSUME TypeOK, NEW o \in DOMAIN orders, NEW row, row.rfq = orders[o].rfq,
           orders' = [orders EXCEPT ![o] = row]
    PROVE  /\ o \in DOMAIN Awards
           /\ Awards[o].state = StageOf(orders[o].status)
           /\ Awards' = [Awards EXCEPT ![o].state = StageOf(row.status)]
<1>1. /\ DOMAIN orders' = DOMAIN orders
      /\ orders'[o] = row
      /\ \A p \in DOMAIN orders : p # o => orders'[p] = orders[p]
  OBVIOUS
<1>2. /\ Awards = [p \in DOMAIN orders |-> AwardOf(orders[p])]
      /\ Awards' = [p \in DOMAIN orders |-> AwardOf(orders'[p])]
  BY <1>1 DEF Awards
<1>3. AwardOf(row) = [AwardOf(orders[o]) EXCEPT !.state = StageOf(row.status)]
  <2>1. AwardOf(row) = [rfq |-> orders[o].rfq, vendor |-> TheVendor,
                        state |-> StageOf(row.status)]
    BY DEF AwardOf
  <2>2. [AwardOf(orders[o]) EXCEPT !.state = StageOf(row.status)]
            = [rfq |-> orders[o].rfq, vendor |-> TheVendor, state |-> StageOf(row.status)]
    BY DEF AwardOf
  <2> QED BY <2>1, <2>2
<1>4. AwardOf(orders[o]).state = StageOf(orders[o].status)
  BY DEF AwardOf
<1> HIDE DEF AwardOf
<1> QED BY <1>1, <1>2, <1>3, <1>4

\* An order that changes and stays at its stage.
LEMMA AwardStays ==
    ASSUME TypeOK, NEW o \in DOMAIN orders, NEW row, row.rfq = orders[o].rfq,
           StageOf(row.status) = StageOf(orders[o].status),
           orders' = [orders EXCEPT ![o] = row]
    PROVE  Awards' = Awards
<1>1. /\ DOMAIN orders' = DOMAIN orders
      /\ orders'[o] = row
      /\ \A p \in DOMAIN orders : p # o => orders'[p] = orders[p]
  OBVIOUS
<1>2. \A p \in DOMAIN orders : AwardOf(orders'[p]) = AwardOf(orders[p])
  BY <1>1 DEF AwardOf
<1> QED BY <1>1, <1>2 DEF Awards

LEMMA OrderAnswered ==
    ASSUME TypeOK, NEW o \in DOMAIN orders, AcceptOrder(o) \/ RejectOrder(o)
    PROVE  Promise!Move("pending", "accepted") \/ Promise!Move("pending", "rejected")
<1>1. UNCHANGED <<Asked, Offers>> /\ StageOf(orders[o].status) = "pending"
  BY StageOfEach DEF AcceptOrder, RejectOrder, Asked, Offers
<1>2. CASE AcceptOrder(o)
  <2> DEFINE row == [orders[o] EXCEPT !.status = "Accepted"]
  <2>1. row.rfq = orders[o].rfq /\ StageOf(row.status) = "accepted"
    BY OrderRow, StageOfEach DEF Order
  <2>2. orders' = [orders EXCEPT ![o] = row]
    BY <1>2 DEF AcceptOrder
  <2> HIDE DEF row
  <2>3. /\ o \in DOMAIN Awards
        /\ Awards[o].state = StageOf(orders[o].status)
        /\ Awards' = [Awards EXCEPT ![o].state = StageOf(row.status)]
    BY <2>1, <2>2, AwardMoved
  <2> QED BY <1>1, <2>1, <2>3 DEF Promise!Move
<1>3. CASE RejectOrder(o)
  <2> DEFINE row == [orders[o] EXCEPT !.status = "Rejected"]
  <2>1. row.rfq = orders[o].rfq /\ StageOf(row.status) = "rejected"
    BY OrderRow, StageOfEach DEF Order
  <2>2. orders' = [orders EXCEPT ![o] = row]
    BY <1>3 DEF RejectOrder
  <2> HIDE DEF row
  <2>3. /\ o \in DOMAIN Awards
        /\ Awards[o].state = StageOf(orders[o].status)
        /\ Awards' = [Awards EXCEPT ![o].state = StageOf(row.status)]
    BY <2>1, <2>2, AwardMoved
  <2> QED BY <1>1, <2>1, <2>3 DEF Promise!Move
<1> QED BY <1>2, <1>3

LEMMA NoticeFiled ==
    ASSUME TypeOK, NEW o \in DOMAIN orders, NEW n, CreateAsn(o, n)
    PROVE  UNCHANGED <<Asked, Offers, Awards>>
<1> DEFINE row == [orders[o] EXCEPT !.status = "Ready to Ship"]
<1>1. row.rfq = orders[o].rfq /\ StageOf(row.status) = "accepted"
  BY OrderRow, StageOfEach DEF Order
<1>2. orders' = [orders EXCEPT ![o] = row] /\ UNCHANGED rfqs
  BY DEF CreateAsn
<1>3. StageOf(orders[o].status) = "accepted"
  BY StageOfEach DEF CreateAsn, CanCreateAsn
<1> HIDE DEF row
<1>4. Awards' = Awards
  BY <1>1, <1>2, <1>3, AwardStays
<1> QED BY <1>2, <1>4 DEF Asked, Offers

\* The inspection that completes an order delivers what was accepted; one that finds it
\* complete already moves nothing.
LEMMA OrderInspected ==
    ASSUME TypeOK, Linked, NoticeSound, NEW a \in DOMAIN asns, NEW acc \in Nat, NEW rej,
           ReceivePart(a, acc, rej) \/ ReceiveAndDispatch(a, acc, rej)
    PROVE  Promise!Move("accepted", "fulfilled") \/ UNCHANGED <<Asked, Offers, Awards>>
<1> DEFINE o == asns[a].po
           rfq == orders[o].rfq
<1>1. /\ o \in DOMAIN orders
      /\ orders[o].status \in {"Ready to Ship", "Delivered"}
      /\ rfq \in DOMAIN rfqs
  BY DEF NoticeSound, Linked
<1>2. /\ StageOf("Ready to Ship") = "accepted"
      /\ StageOf("Delivered") = "fulfilled"
  BY StageOfEach
<1>3. orders[o] \in Order /\ rfqs[rfq] \in Rfq
  BY <1>1, OrderRow, RfqRow
<1>4. CASE ReceivePart(a, acc, rej)
  <2> DEFINE row == [orders[o] EXCEPT !.received = @ + acc]
  <2>1. row.rfq = orders[o].rfq /\ row.status = orders[o].status
    BY <1>3 DEF Order
  <2>2. orders' = [orders EXCEPT ![o] = row] /\ UNCHANGED rfqs
    BY <1>4 DEF ReceivePart
  <2> HIDE DEF row, o, rfq
  <2>3. Awards' = Awards
    BY <1>1, <2>1, <2>2, AwardStays
  <2> QED BY <2>2, <2>3 DEF Asked, Offers
<1>5. CASE ReceiveAndDispatch(a, acc, rej)
  <2> DEFINE row == [orders[o] EXCEPT !.received = orders[o].received + acc,
                                      !.status = "Delivered", !.dispatched = @ + 1]
  <2>1. row.rfq = orders[o].rfq /\ row.status = "Delivered"
    BY <1>3 DEF Order
  <2>2. /\ orders' = [orders EXCEPT ![o] = row]
        /\ rfqs' = [rfqs EXCEPT ![rfq] = [rfqs[rfq] EXCEPT !.status = "Closed"]]
    BY <1>5 DEF ReceiveAndDispatch
  <2>3. [rfqs[rfq] EXCEPT !.status = "Closed"].quoted = rfqs[rfq].quoted
    BY <1>3 DEF Rfq
  <2> HIDE DEF row, o, rfq
  <2>4. UNCHANGED <<Asked, Offers>>
    BY <1>1, <2>2, <2>3, SameOffers
  <2>5. CASE orders[o].status = "Delivered"
    <3>1. Awards' = Awards
      BY <1>1, <2>1, <2>2, <2>5, AwardStays
    <3> QED BY <2>4, <3>1
  <2>6. CASE orders[o].status = "Ready to Ship"
    <3>1. /\ o \in DOMAIN Awards
          /\ Awards[o].state = StageOf(orders[o].status)
          /\ Awards' = [Awards EXCEPT ![o].state = StageOf(row.status)]
      BY <1>1, <2>1, <2>2, AwardMoved
    <3> QED BY <1>2, <2>1, <2>4, <2>6, <3>1 DEF Promise!Move
  <2> QED BY <1>1, <2>5, <2>6
<1> QED BY <1>4, <1>5

LEMMA RfqAsked ==
    ASSUME TypeOK
    PROVE  /\ \A p \in DOMAIN requests : SplitFulfil(p) \/ RaiseRfq(p) => Promise!Ask
           /\ \A r \in DOMAIN returns : ReplenishByRfq(r) => Promise!Ask
<1>1. ASSUME NEW p \in DOMAIN requests, SplitFulfil(p) \/ RaiseRfq(p)
      PROVE  Promise!Ask
  <2>1. p \in Nat /\ requests[p].qty \in Int
    BY <1>1, RequestRow
  <2>2. RequestOwner(p) \in Owner /\ inventory.available \in Int
    BY <1>1, <2>1, OwnerTypes DEF TypeOK, Inventory
  <2>3. PICK q \in Int : rfqs' = Append(rfqs, NewRfq(RequestOwner(p), q))
    BY <1>1, <2>1, <2>2 DEF SplitFulfil, RaiseRfq
  <2>4. UNCHANGED orders
    BY <1>1, SameRows
  <2> QED BY <1>1, <2>2, <2>3, <2>4, VendorAsked
<1>2. ASSUME NEW r \in DOMAIN returns, ReplenishByRfq(r)
      PROVE  Promise!Ask
  <2>1. r \in Nat /\ returns[r].qty \in Int
    BY <1>2, ReturnRow
  <2>2. ReturnOwner(r) \in Owner /\ inventory.available \in Int
    BY <1>2, <2>1, OwnerTypes DEF TypeOK, Inventory
  <2>3. PICK q \in Int : rfqs' = Append(rfqs, NewRfq(ReturnOwner(r), q))
    BY <1>2, <2>1, <2>2 DEF ReplenishByRfq
  <2>4. UNCHANGED orders
    BY <1>2, SameRows
  <2> QED BY <1>2, <2>2, <2>3, <2>4, VendorAsked
<1> QED BY <1>1, <1>2

\* Each step of Fulfilment is a step of Tender or none at all.
LEMMA TenderStep ==
    ASSUME TypeOK, Linked, NoticeSound, [Next]_vars
    PROVE  [Promise!Next]_(Promise!vars)
<1> USE DEF Promise!Next
<1>1. UNCHANGED <<rfqs, orders>> => UNCHANGED Promise!vars
  BY DEF Promise!vars, Asked, Offers, Awards
<1>2. CASE \E q \in Quantities : CreatePurchaseRequest(q)
  BY <1>1, <1>2, SameRows
<1>3. CASE \E p \in DOMAIN requests : FulfilFromStock(p) \/ SplitFulfil(p) \/ RaiseRfq(p)
  BY <1>1, <1>3, SameRows, RfqAsked
<1>4. CASE \E t \in DOMAIN transfers, q \in Quantities, d \in {"replenish", "writeoff"} :
              RaiseIssue(t, q, d)
  BY <1>1, <1>4, SameRows
<1>5. CASE \E r \in DOMAIN returns : ResolveReturn(r)
  BY <1>1, <1>5, SameRows, RfqAsked DEF ResolveReturn
<1>6. CASE \E r \in DOMAIN rfqs : SubmitQuotation(r) \/ SelectVendor(r)
  BY <1>6, OfferMade, OfferTaken
<1>7. CASE \E o \in DOMAIN orders : AcceptOrder(o) \/ RejectOrder(o)
  BY <1>7, OrderAnswered
<1>8. CASE \E o \in DOMAIN orders, n \in Shipments : CreateAsn(o, n)
  BY <1>8, NoticeFiled DEF Promise!vars
<1>9. CASE \E a \in DOMAIN asns : SubmitAsn(a)
  BY <1>1, <1>9, SameRows
<1>10. CASE \E a \in DOMAIN asns, n \in Shipments : UpdateAsn(a, n) \/ ResubmitAfterRejection(a, n)
  BY <1>1, <1>10, SameRows
<1>11. CASE \E a \in DOMAIN asns, acc \in 0..MaxCount, rej \in 0..MaxCount :
               RecordGoodsReceipt(a, acc, rej)
  <2>1. 0..MaxCount \subseteq Nat
    BY FulfilmentAssumption
  <2>2. PICK a \in DOMAIN asns, acc \in Nat, rej \in Nat :
                ReceivePart(a, acc, rej) \/ ReceiveAndDispatch(a, acc, rej)
    BY <1>11, <2>1 DEF RecordGoodsReceipt
  <2> QED BY <2>2, OrderInspected DEF Promise!vars
<1>12. CASE \E t \in DOMAIN transfers : DispatchTransferOrder(t)
  BY <1>1, <1>12, SameRows
<1>13. CASE \E t \in DOMAIN transfers, s \in Statuses : UpdateTransferStatus(t, s)
  BY <1>1, <1>13, SameRows
<1>14. CASE \E delta \in Adjustments : AdjustInventory(delta)
  BY <1>1, <1>14, SameRows
<1>15. CASE UNCHANGED vars
  BY <1>1, <1>15 DEF vars
<1> QED BY <1>2, <1>3, <1>4, <1>5, <1>6, <1>7, <1>8, <1>9, <1>10, <1>11, <1>12, <1>13, <1>14,
           <1>15 DEF Next

\* Whoever raised an RFQ and whatever the clients do, an order rests on a quotation, its
\* vendor answers it once, and it becomes delivered only if it was accepted, and for good,
\* however often its shipment is inspected, corrected and inspected again.  (How often goods
\* were sent on for it is another matter, which ServedOnce is about.)
THEOREM TenderImplemented == Spec => ImplementsTender
<1>1. Init => Promise!Init
  BY DEF Init, Promise!Init, Asked, Offers, Awards
<1>2. TypeOK /\ Linked /\ NoticeSound /\ [Next]_vars => [Promise!Next]_(Promise!vars)
  BY TenderStep
<1> QED BY <1>1, <1>2, TypeCorrect, NoticesSound, PTL DEF Spec, ImplementsTender, Promise!Spec
=============================================================================
