-------------------------------- MODULE Screens --------------------------------
(***************************************************************************)
(* What the store, the warehouse and the head office are shown of the      *)
(* tables of Fulfilment.                                                   *)
(*                                                                         *)
(* No column holds the status of a request: every portal derives its own   *)
(* from the rows the request refers to, with a vocabulary of its own, and  *)
(* every dashboard and report counts with conditions of its own.  The      *)
(* handlers only read, so each is a state function here.                   *)
(*                                                                         *)
(* There is one warehouse and one variant, and all rows are of the period  *)
(* that is looked at.  Searches by name or code are left out.              *)
(***************************************************************************)
EXTENDS Fulfilment, FiniteSetsExt, SequencesExt

CONSTANT PageSize      \* the limit of a page

ASSUME ScreensAssumption == PageSize \in Nat \ {0}

-----------------------------------------------------------------------------
(* The status of a request *)

\* The handlers that give an unserved request a type set its approval_status, too, and
\* dispatch_to_owner changes the type of a request that has one; none sets "declined".
IsApproved(p) == requests[p].type # "none"

ServedBy(p, statuses) ==
    /\ requests[p].ref.kind = "transfer_order"
    /\ transfers[requests[p].ref.id].status \in statuses

Arrived == {"Delivered", "Completed"}

\* The four stages the store is shown.  No order is ever "In Transit".
Stages == <<"Preparing", "Dispatched", "In Transit", "Delivered">>

StoreStatus(p) ==
    IF ServedBy(p, Arrived) THEN "Delivered"
    ELSE IF ServedBy(p, {"Dispatched"}) THEN "Dispatched" ELSE "Preparing"

\* The stages ticked off when the store tracks a request.
StagesDone(p) ==
    LET current == CHOOSE i \in DOMAIN Stages : Stages[i] = StoreStatus(p)
    IN {Stages[i] : i \in 1..current}

\* The warehouse's tracking of orders: its status of the request in other words.
TrackingLabels ==
    [pending |-> "Pending Stock Check", forwarded |-> "Awaiting Vendor Delivery",
     fulfilled |-> "In Transit to Retail", completed |-> "Delivered to Retail",
     declined |-> "Vendor Declined"]

\* The head office.
HeadOfficeStatusUntilDelivered(p) ==
    IF ~IsApproved(p) THEN "Pending"
    ELSE IF ServedBy(p, {"Delivered"}) THEN "Fulfilled"
    ELSE IF ServedBy(p, {"Dispatched"}) THEN "Dispatched" ELSE "Approved"
HeadOfficeStatus(p) ==
    IF ~IsApproved(p) THEN "Pending"
    ELSE IF ServedBy(p, Arrived) THEN "Fulfilled"
    ELSE IF ServedBy(p, {"Dispatched"}) THEN "Dispatched" ELSE "Approved"
HeadOfficeStatuses == {"Pending", "Approved", "Dispatched", "Fulfilled", "Rejected"}

\* How the head office words the status of a transfer order, and of a purchase order.
ShipmentStatus ==
    [Pending |-> "Packed", Dispatched |-> "Dispatched", Delivered |-> "Delivered",
     Completed |-> "Delivered"]
ShipmentStatuses == {"Packed", "Dispatched", "In Transit", "Delivered"}

PurchaseOrderStatus(o) ==
    IF orders[o].status # "Delivered" THEN orders[o].status
    ELSE IF orders[o].received >= orders[o].qty THEN "Completed" ELSE "Partially Delivered"
PurchaseOrderStatuses == (OrderStatuses \ {"Delivered"}) \cup {"Completed", "Partially Delivered"}

-----------------------------------------------------------------------------
(* Lists, page by page *)

Newest(table) == [i \in DOMAIN table |-> Len(table) + 1 - i]

OffsetFromOne(page) == page * PageSize
Offset(page) == (page - 1) * PageSize

Page(rows, page) == SubSeq(rows, Offset(page) + 1, Min({Offset(page) + PageSize, Len(rows)}))

TotalPages(total) == Max({1, (total + PageSize - 1) \div PageSize})

\* A status that is a column is filtered by the query, and the pages are those of what it
\* finds; a derived one is filtered in what was fetched for a page, and the pages are those
\* of the whole table.  (matching is the set of rows with the status.)  The k-th row found is
\* the one up to which there are k.
Filtered(rows, matching) ==
    LET at     == {i \in DOMAIN rows : rows[i] \in matching}
        Nth(k) == CHOOSE i \in at : Cardinality(at \cap (1..i)) = k
    IN [k \in 1..Cardinality(at) |-> rows[Nth(k)]]

FilteredFirst(rows, matching) ==
    LET found == Filtered(rows, matching)
    IN [page \in 1..TotalPages(Len(found)) |-> Page(found, page)]
FilteredLast(rows, matching) ==
    [page \in 1..TotalPages(Len(rows)) |-> Filtered(Page(rows, page), matching)]

StoreRequests(status) ==
    FilteredLast(Newest(requests), {p \in DOMAIN requests : StoreStatus(p) = status})
WarehouseRequests(status) ==
    FilteredLast(Newest(requests), {p \in DOMAIN requests : RequestStatus(p) = status})
OrderTracking(label) ==
    FilteredLast(Newest(requests),
                 {p \in DOMAIN requests : TrackingLabels[RequestStatus(p)] = label})
StockRequests(status) ==
    FilteredLast(Newest(requests), {p \in DOMAIN requests : HeadOfficeStatus(p) = status})
PurchaseOrders(status) ==
    FilteredLast(Newest(orders), {o \in DOMAIN orders : PurchaseOrderStatus(o) = status})
TransferOrders(status) ==
    FilteredFirst(Newest(transfers), {t \in DOMAIN transfers : transfers[t].status = status})

\* The head office asks for every status it words this way.
StatusesFor(shown) == {s \in TransferStatuses : ShipmentStatus[s] = shown}
OutboundShipments(shown) ==
    FilteredFirst(Newest(transfers),
                  {t \in DOMAIN transfers : transfers[t].status \in StatusesFor(shown)})

\* The reservations listed are those of requests; one of a return is not shown.
ReservedRows == {h \in reservations : h.owner.kind = "request"}

-----------------------------------------------------------------------------
(* Numbers *)

Rows(table, Select(_)) == Cardinality({i \in DOMAIN table : Select(table[i])})

\* The sum of Value(row) over the rows of a table that satisfy Select.  (Nothing that is
\* summed is negative as long as stock is not corrected by hand.)
Total(table, Select(_), Value(_)) ==
    Tally([i \in {j \in DOMAIN table : Select(table[j])} |-> Value(table[i])])

Reserved == Tally([h \in reservations |-> h.reserved])

HasRef(request) == request.ref # NoRef

\* The inventory screen.
InventoryItem ==
    [onHand |-> inventory.onHand, available |-> inventory.available, reserved |-> Reserved]

\* The warehouse's dashboard.
OpenOrderStatuses == {"Pending Acceptance", "Accepted", "In Production", "Ready to Ship"}
OpenRfqStatuses == {"Sent", "Responded"}

GoodsReceived == Total(asns, LAMBDA a : a.receipt # NoReceipt, LAMBDA a : a.receipt.accepted)

Dashboard ==
    [onHand        |-> inventory.onHand,
     received      |-> GoodsReceived,
     openOrders    |-> Rows(orders, LAMBDA o : o.status \in OpenOrderStatuses),
     pendingOrders |-> Rows(requests, LAMBDA r : ~HasRef(r)),
     pendingRfqs   |-> Rows(rfqs, LAMBDA r : r.status \in OpenRfqStatuses)]

SentToStores ==
    Total(transfers, LAMBDA t : t.status \in {"Dispatched"} \cup Arrived, LAMBDA t : t.qty)
GoodsFlow == [received |-> GoodsReceived, fulfilled |-> SentToStores]

\* The warehouse's reports.
Summary ==
    [requests    |-> Len(requests),
     fulfilled   |-> Rows(requests, HasRef),
     pending     |-> Rows(requests, LAMBDA r : ~HasRef(r)),
     undelivered |-> Rows(orders, LAMBDA o : o.status # "Delivered"),
     delivered   |-> Rows(orders, LAMBDA o : o.status = "Delivered")]

BreakdownWithoutSplit ==
    [stock   |-> Rows(requests, LAMBDA r : r.type = "stock"),
     rfq     |-> Rows(requests, LAMBDA r : r.type = "rfq"),
     pending |-> Rows(requests, LAMBDA r : ~HasRef(r))]
Breakdown ==
    [stock   |-> Rows(requests, LAMBDA r : r.type = "stock"),
     rfq     |-> Rows(requests, LAMBDA r : r.type \in {"rfq", "split"}),
     pending |-> Rows(requests, LAMBDA r : ~HasRef(r))]

\* The store's report on its warehouse.
WarehouseRelations == [total |-> Len(requests), fulfilled |-> Rows(requests, HasRef)]

\* The counters of the head office.
StockRequestStats ==
    [status \in HeadOfficeStatuses |->
        Cardinality({p \in DOMAIN requests : HeadOfficeStatus(p) = status})]
ShipmentStats ==
    [shown \in ShipmentStatuses |-> Rows(transfers, LAMBDA t : ShipmentStatus[t.status] = shown)]

\* Per variant, "received" is what the notices say was shipped: receipts do not tell variants
\* apart.
TopSku == [received   |-> Total(asns, LAMBDA a : TRUE, LAMBDA a : a.shipped),
           dispatched |-> SentToStores]

\* The store's dashboard, with the requests of the latest page.
RequestedUnits == Total(requests, LAMBDA r : TRUE, LAMBDA r : r.qty)
StoreDashboard ==
    [total  |-> Len(requests),
     units  |-> RequestedUnits,
     recent |-> [p \in ToSet(Page(Newest(requests), 1)) |-> StoreStatus(p)]]

\* The store's reports: a shipment that is not for a request has no "PR ID"; the report on
\* replenishment lists the returns that ask for it.
ShipmentReport ==
    [t \in DOMAIN transfers |->
        [request |-> transfers[t].owner.kind = "request",
         qty     |-> transfers[t].qty,
         status  |-> transfers[t].status]]
ReplenishmentReport ==
    [r \in {s \in DOMAIN returns : returns[s].decision = "replenish"} |-> returns[r].status]

\* The spreadsheets of the warehouse and of the store, section by section.  (The store's
\* stock on its shelf is in module Store.)
WarehouseExport ==
    [goodsReceived |-> [a \in {b \in DOMAIN asns : asns[b].receipt # NoReceipt} |->
                           [accepted |-> asns[a].receipt.accepted,
                            rejected |-> asns[a].receipt.rejected]],
     goodsSent     |-> [t \in DOMAIN transfers |->
                           [qty |-> transfers[t].qty, status |-> transfers[t].status]],
     stock         |-> inventory]

StoreExport ==
    [received |-> [t \in DOMAIN transfers |->
                      [qty |-> transfers[t].qty, status |-> transfers[t].status]],
     requests |-> [p \in DOMAIN requests |->
                      [qty      |-> requests[p].qty,
                       approval |-> IF IsApproved(p) THEN "approved" ELSE "pending"]],
     returned |-> [r \in DOMAIN returns |->
                      [qty      |-> returns[r].qty,
                       decision |-> returns[r].decision,
                       status   |-> returns[r].status]]]

-----------------------------------------------------------------------------
(* Properties *)

(* The three portals tell the same story of a request, each in its own words, *)
(* in whatever order the clients call and whichever handler wrote the         *)
(* reference last: it arrived for all or for none, was sent for the store and *)
(* the head office alike, and waits for both offices or for neither.  The     *)
(* rows they look at were made for the very request, or return.               *)
PortalsAgree ==
    /\ RefsSound
    /\ \A p \in DOMAIN requests :
           LET store     == StoreStatus(p)
               warehouse == RequestStatus(p)
               office    == HeadOfficeStatus(p)
           IN  /\ warehouse = "completed" <=> store = "Delivered"
               /\ warehouse = "completed" <=> office = "Fulfilled"
               /\ store = "Dispatched" <=> office = "Dispatched"
               /\ warehouse = "pending" <=> office = "Pending"
               /\ store # "Preparing" => warehouse \in {"fulfilled", "completed"}
               /\ "In Transit" \in StagesDone(p) <=> TrackingLabels[warehouse] = "Delivered to Retail"

(* What the dashboards, the reports and the counters say adds up, although    *)
(* each counts other columns: the parts of a whole make the whole, the same   *)
(* thing has one number on every screen, and as many shipments have arrived   *)
(* as there are requests fulfilled, at least.  No order is shown as delivered *)
(* in part, and no more goods are received than were accepted.  ("pending" of *)
(* RFQs does not add up: a quotation that comes late reopens one.)            *)
CountersAgree ==
    /\ Summary.fulfilled + Summary.pending = Summary.requests
    /\ Breakdown.stock + Breakdown.rfq + Breakdown.pending = Summary.requests
    /\ Summary.pending = Dashboard.pendingOrders
    /\ Summary.pending = StockRequestStats["Pending"]
    /\ WarehouseRelations.fulfilled = Summary.fulfilled
    /\ Dashboard.openOrders + Summary.delivered <= Len(orders)
    /\ StockRequestStats["Fulfilled"] <= ShipmentStats["Delivered"]
    /\ \A o \in DOMAIN orders : PurchaseOrderStatus(o) # "Partially Delivered"
    /\ GoodsFlow.received <= Total(orders, LAMBDA o : TRUE, LAMBDA o : o.received)
    /\ InventoryItem.reserved >= Tally([h \in ReservedRows |-> h.reserved])

\* The sum of Value over the rows of a section.
SumOf(section, Value(_)) == Tally([i \in DOMAIN section |-> Value(section[i])])

(* The spreadsheets agree with the screens and with each other.  What was     *)
(* accepted is what the dashboard counts, and no more than the vendor says it *)
(* shipped; what was sent and is not pending is what the flow of goods shows; *)
(* stock and goods sent account for at least the goods received (more after a *)
(* correction, which takes its receipt out of the sheet).  A store is sent no *)
(* more than it asked for, its sheet calls those requests pending that the    *)
(* warehouse does, and returns reported as replenished are sent for, or on    *)
(* their way from a vendor.                                                   *)
ReportsAgree ==
    LET received == WarehouseExport.goodsReceived
        sent     == WarehouseExport.goodsSent
        asked    == StoreExport.requests
        Left(t)  == IF t.status = "Pending" THEN 0 ELSE t.qty
    IN  /\ SumOf(received, LAMBDA a : a.accepted) = Dashboard.received
        /\ SumOf(received, LAMBDA a : a.accepted + a.rejected) <= TopSku.received
        /\ SumOf(sent, Left) = GoodsFlow.fulfilled
        /\ WarehouseExport.stock.onHand + SumOf(sent, LAMBDA t : t.qty)
               >= Opening + SumOf(received, LAMBDA a : a.accepted)
        /\ SumOf(StoreExport.received, LAMBDA t : t.qty)
               <= StoreDashboard.units + SumOf(StoreExport.returned, LAMBDA r : r.qty)
        /\ {p \in DOMAIN asked : asked[p].approval = "pending"}
               = {p \in DOMAIN requests : RequestStatus(p) = "pending"}
        /\ \A r \in DOMAIN ReplenishmentReport :
               ReplenishmentReport[r] = "dispatched" =>
                   \E t \in DOMAIN ShipmentReport :
                       ~ShipmentReport[t].request /\ ShipmentReport[t].status # "Pending"

\* Whatever number is shown in two places is the same, or one bounds the other.
NumbersAgree == CountersAgree /\ ReportsAgree

\* What the pages under the tabs of a screen show: rows of the table, and each in one place.
Places(screen) ==
    UNION {UNION {{<<tab, page, i>> : i \in DOMAIN screen[tab][page]} : page \in DOMAIN screen[tab]}
           : tab \in DOMAIN screen}
ShowsEachOnce(screen, table) ==
    /\ {screen[at[1]][at[2]][at[3]] : at \in Places(screen)} = DOMAIN table
    /\ Cardinality(Places(screen)) = Len(table)

(* Whoever walks through all the pages under every tab of a screen is shown   *)
(* each row once: no status is under no tab or under two, and as many pages   *)
(* are announced as it takes, whether the status is filtered before a page    *)
(* is cut or after it.                                                        *)
EachShownOnce ==
    /\ ShowsEachOnce([tab \in ToSet(Stages) |-> StoreRequests(tab)], requests)
    /\ ShowsEachOnce([tab \in DOMAIN TrackingLabels |-> WarehouseRequests(tab)], requests)
    /\ ShowsEachOnce([tab \in {TrackingLabels[s] : s \in DOMAIN TrackingLabels} |->
                         OrderTracking(tab)], requests)
    /\ ShowsEachOnce([tab \in HeadOfficeStatuses |-> StockRequests(tab)], requests)
    /\ ShowsEachOnce([tab \in PurchaseOrderStatuses |-> PurchaseOrders(tab)], orders)
    /\ ShowsEachOnce([tab \in TransferStatuses |-> TransferOrders(tab)], transfers)
    /\ ShowsEachOnce([tab \in ShipmentStatuses |-> OutboundShipments(tab)], transfers)
=============================================================================
