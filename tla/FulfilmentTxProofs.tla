------------------------- MODULE FulfilmentTxProofs -------------------------
(***************************************************************************)
(* Theorems about FulfilmentTx, the stock handlers of Fulfilment taken     *)
(* apart, for every number of sessions and every value of the constants.   *)
(***************************************************************************)
EXTENDS FulfilmentTx, FulfilmentProofs

-----------------------------------------------------------------------------
(* The handlers taken apart: what sessions hold *)

ForRequest(op) == op \in {"stock", "split", "rfq"}
ForReturn(op)  == op \in {"replenish", "order"}

Session ==
    [pc       : {"idle", "loaded", "drawn", "marking", "closing"},
     op       : {"none", "stock", "split", "rfq", "replenish", "order", "inspect"},
     id       : Nat,
     accepted : Nat,
     rejected : Nat,
     stock    : Inventory,
     request  : Request \cup {NoRequest},
     ret      : Return \cup {NoReturn},
     held     : SUBSET Reservation,
     code     : Nat]

\* The row a session holds of a request, or of a return, is for what the row in the table
\* is for, whatever was written to it since.
SeesRequest(me, p) ==
    /\ p \in DOMAIN requests
    /\ me.request \in Request
    /\ me.request.qty = requests[p].qty
SeesReturn(me, r) ==
    /\ r \in DOMAIN returns
    /\ me.ret \in Return
    /\ me.ret.qty = returns[r].qty

SessionLinked(me) ==
    /\ me.pc = "idle" <=> me.op = "none"
    /\ ForRequest(me.op) => SeesRequest(me, me.id)
    /\ ForReturn(me.op) => SeesReturn(me, me.id)
    /\ me.op = "inspect" => me.id \in DOMAIN asns
    /\ me.pc = "drawn" => me.code \in 1..(Table(me.op) + 1)
    /\ me.pc = "drawn" /\ me.op = "inspect" =>
           LET owner == OwnerOf(me)
           IN owner.kind = "request" => SeesRequest(me, owner.id)
    /\ me.pc = "marking" => me.op \in {"split", "rfq", "order"}
    /\ me.pc = "closing" => me.op = "inspect"

SessionsSound ==
    /\ sessions \in [Sessions -> Session]
    /\ \A s \in Sessions : SessionLinked(sessions[s])

TxTyped == TypeOK /\ Linked /\ SessionsSound

\* Steps that touch no table, and those of the handlers with one commit.
LEMMA OthersAreNext == OtherHandlers => Next /\ UNCHANGED <<sessions, cut>>
BY DEF OtherHandlers, Next, ResolveReturn

LEMMA FreeSession ==
    /\ Free \in Session
    /\ Free.pc = "idle"
    /\ SessionLinked(Free)
<1>1. NoRequest \in Request \cup {NoRequest} /\ NoReturn \in Return \cup {NoReturn}
  OBVIOUS
<1>2. Free \in Session /\ Free.pc = "idle" /\ Free.op = "none"
  BY <1>1 DEF Free, Session, Inventory
<1> QED BY <1>2 DEF SessionLinked, ForRequest, ForReturn

\* What a commit makes of a row has the type of its table.
LEMMA WrittenStock ==
    ASSUME NEW loaded \in Inventory, NEW new \in Inventory, NEW current \in Inventory
    PROVE  /\ Written(loaded, new, current) \in Inventory
           /\ Written(loaded, new, current).available =
                 IF new.available = loaded.available THEN current.available ELSE new.available
BY DEF Written, Inventory

LEMMA WrittenReturn ==
    ASSUME NEW loaded \in Return, NEW new \in Return, NEW current \in Return,
           new.qty = loaded.qty
    PROVE  /\ Written(loaded, new, current) \in Return
           /\ Written(loaded, new, current).qty = current.qty
BY DEF Written, Return

LEMMA WrittenRef ==
    ASSUME NEW loaded \in Ref, NEW new \in Ref, NEW current \in Ref
    PROVE  Written(loaded, new, current) \in Ref
BY DEF Written, Ref

LEMMA WrittenRequestRow ==
    ASSUME NEW loaded \in Request, NEW new \in Request, NEW current \in Request,
           new.qty = loaded.qty
    PROVE  /\ WrittenRequest(loaded, new, current) \in Request
           /\ WrittenRequest(loaded, new, current).qty = current.qty
<1>1. Written(loaded.ref, new.ref, current.ref) \in Ref
  BY WrittenRef DEF Request
<1>2. /\ Written(loaded, new, current) \in Request
      /\ Written(loaded, new, current).qty = current.qty
  BY DEF Written, Request
<1> HIDE DEF Written
<1> QED BY <1>1, <1>2 DEF WrittenRequest, Request

\* The tables only grow.
LEMMA TablesGrow ==
    ASSUME TypeOK, TypeOK', Kept
    PROVE  /\ Len(rfqs) \in Nat /\ Len(rfqs') \in Nat /\ Len(rfqs) <= Len(rfqs')
           /\ Len(transfers) \in Nat /\ Len(transfers') \in Nat
           /\ Len(transfers) <= Len(transfers')
<1>1. ASSUME NEW m \in Nat, NEW n \in Nat, 1..m \subseteq 1..n
      PROVE  m <= n
  <2>1. m > 0 => m \in 1..m
    OBVIOUS
  <2> QED BY <1>1, <2>1
<1>2. /\ DOMAIN rfqs = 1..Len(rfqs) /\ Len(rfqs) \in Nat
      /\ DOMAIN rfqs' = 1..Len(rfqs') /\ Len(rfqs') \in Nat
  BY LenProperties DEF TypeOK
<1>3. /\ DOMAIN transfers = 1..Len(transfers) /\ Len(transfers) \in Nat
      /\ DOMAIN transfers' = 1..Len(transfers') /\ Len(transfers') \in Nat
  BY LenProperties DEF TypeOK
<1>4. DOMAIN rfqs \subseteq DOMAIN rfqs' /\ DOMAIN transfers \subseteq DOMAIN transfers'
  BY DEF Kept, KeptRfqs, KeptTransfers
<1> QED BY <1>1, <1>2, <1>3, <1>4

\* Whom an inspection is for.
LEMMA InspectionFor ==
    ASSUME TypeOK, Linked, NEW me \in Session, me.op = "inspect", me.id \in DOMAIN asns
    PROVE  /\ asns[me.id].po \in DOMAIN orders
           /\ orders[asns[me.id].po].rfq \in DOMAIN rfqs
           /\ OwnerOf(me) = rfqs[orders[asns[me.id].po].rfq].owner
           /\ OwnerOf(me) \in Owner
           /\ OwnerExists(OwnerOf(me))
<1>1. asns[me.id].po \in DOMAIN orders
  BY DEF Linked
<1>2. orders[asns[me.id].po].rfq \in DOMAIN rfqs
  BY <1>1 DEF Linked
<1>3. OwnerOf(me) = rfqs[orders[asns[me.id].po].rfq].owner
  BY DEF OwnerOf
<1>4. OwnerExists(OwnerOf(me))
  BY <1>2, <1>3 DEF Linked
<1> QED BY <1>1, <1>2, <1>3, <1>4, RfqRow

LEMMA InspectionStays ==
    ASSUME TypeOK, Linked, Kept, NEW me \in Session, me.op = "inspect", me.id \in DOMAIN asns
    PROVE  /\ me.id \in DOMAIN asns'
           /\ asns'[me.id].po = asns[me.id].po
           /\ orders'[asns'[me.id].po].rfq = orders[asns[me.id].po].rfq
           /\ OwnerOf(me)' = OwnerOf(me)
<1>1. me.id \in DOMAIN asns' /\ asns'[me.id].po = asns[me.id].po
  BY DEF Kept, KeptAsns
<1>2. orders'[asns'[me.id].po].rfq = orders[asns[me.id].po].rfq
  BY <1>1, InspectionFor DEF Kept, KeptOrders
<1>3. rfqs'[orders'[asns'[me.id].po].rfq].owner = rfqs[orders[asns[me.id].po].rfq].owner
  BY <1>1, <1>2, InspectionFor DEF Kept, KeptRfqs
<1>4. OwnerOf(me)' = rfqs'[orders'[asns'[me.id].po].rfq].owner
  BY DEF OwnerOf
<1> QED BY <1>1, <1>2, <1>3, <1>4, InspectionFor

\* Whatever the other sessions do, what a session holds stays linked to the tables.
LEMMA SessionStays ==
    ASSUME TypeOK, Linked, TypeOK', Kept, NEW me \in Session, SessionLinked(me)
    PROVE  SessionLinked(me)'
<1>1. \A p : SeesRequest(me, p) => SeesRequest(me, p)'
  BY DEF SeesRequest, Kept, KeptRequests
<1>2. \A r : SeesReturn(me, r) => SeesReturn(me, r)'
  BY DEF SeesReturn, Kept, KeptReturns
<1>3. me.op = "inspect" => me.id \in DOMAIN asns' /\ OwnerOf(me)' = OwnerOf(me)
  BY InspectionStays DEF SessionLinked
<1>4. me.pc = "drawn" => me.code \in 1..(Table(me.op)' + 1)
  <2>1. Table(me.op) \in Nat /\ Table(me.op)' \in Nat /\ Table(me.op) <= Table(me.op)'
    BY TablesGrow DEF Table
  <2>2. me.pc = "drawn" => me.code \in 1..(Table(me.op) + 1)
    BY DEF SessionLinked
  <2> QED BY <2>1, <2>2
<1> QED BY <1>1, <1>2, <1>3, <1>4 DEF SessionLinked

LEMMA SessionsStay ==
    ASSUME TxTyped, TypeOK', Kept, UNCHANGED sessions
    PROVE  SessionsSound'
<1>1. \A me \in Session : SessionLinked(me) => SessionLinked(me)'
  BY SessionStays DEF TxTyped
<1>2. ASSUME NEW s \in Sessions
      PROVE  SessionLinked(sessions[s])'
  <2>1. PICK me \in Session : me = sessions[s] /\ me = sessions'[s]
    BY DEF TxTyped, SessionsSound
  <2>2. SessionLinked(me)
    BY <2>1 DEF TxTyped, SessionsSound
  <2>3. SessionLinked(me)'
    BY <1>1, <2>2
  <2> QED BY <2>1, <2>3
<1> QED BY <1>2 DEF TxTyped, SessionsSound

LEMMA SessionMoves ==
    ASSUME TxTyped, TypeOK', Kept, NEW s \in Sessions, NEW new \in Session,
           sessions' = [sessions EXCEPT ![s] = new], SessionLinked(new)
    PROVE  SessionsSound'
<1>1. \A me \in Session : SessionLinked(me) => SessionLinked(me)'
  BY SessionStays DEF TxTyped
<1>2. /\ sessions' \in [Sessions -> Session]
      /\ \A t \in Sessions : sessions'[t] = IF t = s THEN new ELSE sessions[t]
  BY EntryChanged DEF TxTyped, SessionsSound
<1>3. ASSUME NEW t \in Sessions
      PROVE  SessionLinked(sessions[t])'
  <2>1. CASE t = s
    <3>1. SessionLinked(new)' /\ sessions'[t] = new
      BY <1>1, <1>2, <2>1
    <3> QED BY <3>1
  <2>2. CASE t # s
    <3>1. PICK me \in Session : me = sessions[t] /\ me = sessions'[t]
      BY <1>2, <2>2 DEF TxTyped, SessionsSound
    <3>2. SessionLinked(me)
      BY <3>1 DEF TxTyped, SessionsSound
    <3>3. SessionLinked(me)'
      BY <1>1, <3>2
    <3> QED BY <3>1, <3>3
  <2> QED BY <2>1, <2>2
<1> QED BY <1>2, <1>3 DEF SessionsSound

\* Whom a handler is for.
LEMMA HandlerFor ==
    ASSUME TypeOK, Linked, NEW me \in Session, SessionLinked(me), me.op # "none"
    PROVE  /\ OwnerOf(me) \in Owner
           /\ OwnerExists(OwnerOf(me))
           /\ ForRequest(me.op) => OwnerOf(me) = RequestOwner(me.id)
           /\ ForReturn(me.op) => OwnerOf(me) = ReturnOwner(me.id)
<1>1. CASE ForRequest(me.op)
  <2>1. OwnerOf(me) = RequestOwner(me.id) /\ ~ForReturn(me.op)
    BY <1>1 DEF OwnerOf, ForRequest, ForReturn
  <2>2. me.id \in DOMAIN requests
    BY <1>1 DEF SessionLinked, SeesRequest
  <2> QED BY <2>1, <2>2, Owners
<1>2. CASE ForReturn(me.op)
  <2>1. OwnerOf(me) = ReturnOwner(me.id) /\ ~ForRequest(me.op)
    BY <1>2 DEF OwnerOf, ForRequest, ForReturn
  <2>2. me.id \in DOMAIN returns
    BY <1>2 DEF SessionLinked, SeesReturn
  <2> QED BY <2>1, <2>2, Owners
<1>3. CASE me.op = "inspect"
  <2>1. me.id \in DOMAIN asns
    BY <1>3 DEF SessionLinked
  <2>2. ~ForRequest(me.op) /\ ~ForReturn(me.op)
    BY <1>3 DEF ForRequest, ForReturn
  <2> QED BY <1>3, <2>1, <2>2, InspectionFor
<1> QED BY <1>1, <1>2, <1>3 DEF Session, ForRequest, ForReturn

\* A session with a code that is still free has the next one.
LEMMA UniqueIsNext ==
    ASSUME TypeOK, NEW me \in Session, SessionLinked(me), me.pc = "drawn", Unique(me)
    PROVE  me.code = Table(me.op) + 1 /\ me.code \in Nat
<1>1. Table(me.op) \in Nat
  BY LenProperties DEF Table, TypeOK
<1>2. me.code \in 1..(Table(me.op) + 1) /\ me.code > Table(me.op)
  BY DEF SessionLinked, Unique
<1> QED BY <1>1, <1>2

\* The mark of goods sent, in a row that was read earlier.
LEMMA ShippedRequestKeeps ==
    ASSUME TypeOK, NEW me \in Session, NEW p, SeesRequest(me, p),
           requests' = ShippedRequest(me, p)
    PROVE  requests' \in Seq(Request) /\ KeptRequests
<1> DEFINE new == [me.request EXCEPT !.type = "stock", !.ref = TransferRef(me.code)]
           row == WrittenRequest(me.request, new, requests[p])
<1>1. p \in DOMAIN requests /\ me.request \in Request /\ requests[p] \in Request
  BY RequestRow DEF SeesRequest
<1>2. TransferRef(me.code) \in Ref
  BY DEF Session, TransferRef, Ref
<1>3. new \in Request /\ new.qty = me.request.qty
  BY <1>1, <1>2 DEF Request
<1>4. requests' = [requests EXCEPT ![p] = row]
  BY DEF ShippedRequest
<1> HIDE DEF new
<1>5. row \in Request /\ row.qty = requests[p].qty
  BY <1>1, <1>3, WrittenRequestRow
<1> HIDE DEF row
<1> QED BY <1>1, <1>4, <1>5, RequestsChanged

\* The stock that goes out from the warehouse.
LEMMA ShippedStock ==
    ASSUME TypeOK, NEW me \in Session, NEW q \in Int,
           inventory' = Written(me.stock, DecreaseOnHand(ReserveStock(me.stock, q), q), inventory)
    PROVE  /\ inventory' \in Inventory
           /\ inventory'.available = IF me.stock.available - q = me.stock.available
                                     THEN inventory.available ELSE me.stock.available - q
<1>1. me.stock \in Inventory /\ inventory \in Inventory
  BY DEF Session, TypeOK
<1>2. /\ ReserveStock(me.stock, q) \in Inventory
      /\ ReserveStock(me.stock, q).available = me.stock.available - q
  BY <1>1, InventoryTypes
<1>3. /\ DecreaseOnHand(ReserveStock(me.stock, q), q) \in Inventory
      /\ DecreaseOnHand(ReserveStock(me.stock, q), q).available = me.stock.available - q
  BY <1>2, InventoryTypes
<1> QED BY <1>1, <1>3, WrittenStock

\* What a session has in memory, one session's share of SessionsSound.
LEMMA SessionHolds ==
    ASSUME TxTyped, NEW s \in Sessions
    PROVE  sessions[s] \in Session /\ SessionLinked(sessions[s])
BY DEF TxTyped, SessionsSound

\* What every step of a session does for the tables: they keep their types and their rows,
\* and what a new row refers to exists.
TxKeeps == TypeOK' /\ Kept /\ NewLinked

LEMMA CommitStockKeeps ==
    ASSUME TxTyped, NEW s \in Sessions, CommitStock(s)
    PROVE  TxKeeps
<1> DEFINE me == sessions[s]
           q == me.request.qty
           transfer == NewTransfer(RequestOwner(me.id), q, "Warehouse Stock")
<1>1. TypeOK /\ Linked /\ me \in Session /\ SessionLinked(me)
  BY SessionHolds DEF TxTyped
<1>2. me.op = "stock" /\ ForRequest(me.op) /\ SeesRequest(me, me.id)
  BY <1>1 DEF CommitStock, SessionLinked, ForRequest
<1>3. q \in Int /\ OwnerOf(me) = RequestOwner(me.id)
  <2>1. q \in Quantities
    BY <1>2 DEF SeesRequest, Request
  <2>2. Quantities \subseteq Int
    BY FulfilmentAssumption
  <2> QED BY <1>1, <1>2, <2>1, <2>2, HandlerFor
<1>4. /\ transfers' = Append(transfers, transfer)
      /\ inventory' = Written(me.stock, DecreaseOnHand(ReserveStock(me.stock, q), q), inventory)
      /\ requests' = ShippedRequest(me, me.id)
      /\ UNCHANGED <<returns, reservations, rfqs, orders, asns, adjusted>>
  BY <1>2, <1>3 DEF CommitStock, ShipFromStock
<1>5. me.id \in DOMAIN requests
  BY <1>2 DEF SeesRequest
<1>6. RequestOwner(me.id) \in Owner /\ OwnerExists(RequestOwner(me.id))
  BY <1>1, <1>5, Owners
<1>7. NewTransfersLinked
  BY <1>1, <1>3, <1>4, <1>6, NewTransferLinked
<1>8. transfer \in Transfer
  BY <1>3, <1>6, TransferTypes
<1> HIDE DEF me, q, transfer
<1>9. transfers' \in Seq(Transfer) /\ KeptTransfers
  BY <1>1, <1>4, <1>8, TransfersAdded
<1>10. requests' \in Seq(Request) /\ KeptRequests
  BY <1>1, <1>2, <1>4, ShippedRequestKeeps
<1>11. inventory' \in Inventory
  BY <1>1, <1>3, <1>4, ShippedStock
<1>12. TypeOK' /\ Kept
  BY <1>1, <1>4, <1>9, <1>10, <1>11, Untouched DEF TypeOK, Kept
<1> QED BY <1>4, <1>7, <1>12, NoNewRow DEF TxKeeps, NewLinked

LEMMA CommitReplenishKeeps ==
    ASSUME TxTyped, NEW s \in Sessions, CommitReplenish(s)
    PROVE  TxKeeps
<1> DEFINE me == sessions[s]
           q == me.ret.qty
           transfer == NewTransfer(ReturnOwner(me.id), q, "Return Replenishment")
           new == Replenished([me.ret EXCEPT !.transfer = me.code])
           row == Written(me.ret, new, returns[me.id])
<1>1. TypeOK /\ Linked /\ me \in Session /\ SessionLinked(me)
  BY SessionHolds DEF TxTyped
<1>2. me.op = "replenish" /\ ForReturn(me.op) /\ SeesReturn(me, me.id)
  BY <1>1 DEF CommitReplenish, SessionLinked, ForReturn
<1>3. q \in Int /\ OwnerOf(me) = ReturnOwner(me.id)
  <2>1. q \in Quantities
    BY <1>2 DEF SeesReturn, Return
  <2>2. Quantities \subseteq Int
    BY FulfilmentAssumption
  <2> QED BY <1>1, <1>2, <2>1, <2>2, HandlerFor
<1>4. /\ transfers' = Append(transfers, transfer)
      /\ inventory' = Written(me.stock, DecreaseOnHand(ReserveStock(me.stock, q), q), inventory)
      /\ returns' = [returns EXCEPT ![me.id] = row]
      /\ UNCHANGED <<requests, reservations, rfqs, orders, asns, adjusted>>
  BY <1>2, <1>3 DEF CommitReplenish, ShipFromStock
<1>5. me.id \in DOMAIN returns /\ me.ret \in Return /\ me.code \in Nat
  BY <1>1, <1>2 DEF SeesReturn, Session
<1>6. ReturnOwner(me.id) \in Owner /\ OwnerExists(ReturnOwner(me.id))
  BY <1>1, <1>5, Owners
<1>7. NewTransfersLinked
  BY <1>1, <1>3, <1>4, <1>6, NewTransferLinked
<1>8. transfer \in Transfer
  BY <1>3, <1>6, TransferTypes
<1>9. new \in Return /\ new.qty = me.ret.qty
  BY <1>5 DEF Replenished, Return
<1>10. returns[me.id] \in Return
  BY <1>1, <1>5, ReturnRow
<1> HIDE DEF new
<1>11. row \in Return /\ row.qty = returns[me.id].qty
  BY <1>5, <1>9, <1>10, WrittenReturn
<1> HIDE DEF me, q, transfer, row
<1>12. transfers' \in Seq(Transfer) /\ KeptTransfers
  BY <1>1, <1>4, <1>8, TransfersAdded
<1>13. returns' \in Seq(Return) /\ KeptReturns
  BY <1>1, <1>4, <1>5, <1>11, ReturnsChanged
<1>14. inventory' \in Inventory
  BY <1>1, <1>3, <1>4, ShippedStock
<1>15. TypeOK' /\ Kept
  BY <1>1, <1>4, <1>12, <1>13, <1>14, Untouched DEF TypeOK, Kept
<1> QED BY <1>4, <1>7, <1>15, NoNewRow DEF TxKeeps, NewLinked

\* What an RFQ is raised for: the whole quantity, or what is short of it.
LEMMA RaisedFor ==
    ASSUME TypeOK, Linked, NEW me \in Session, SessionLinked(me),
           me.op \in {"split", "rfq", "order"}
    PROVE  /\ OwnerOf(me) \in Owner
           /\ OwnerExists(OwnerOf(me))
           /\ WholeQuantity(me) \in Int
           /\ WholeQuantity(me) = Wanted(OwnerOf(me))
           /\ Shortfall(me) = IF me.op = "rfq" THEN WholeQuantity(me)
                              ELSE WholeQuantity(me) - me.stock.available
           /\ Shortfall(me) \in Int
           /\ Taken(me) = {} \/ /\ me.op \in {"split", "order"}
                                /\ Taken(me) = {NewReservation(me.code, OwnerOf(me),
                                                   me.stock.available, WholeQuantity(me))}
<1>1. OwnerOf(me) \in Owner /\ OwnerExists(OwnerOf(me))
  BY HandlerFor
<1>2. me.stock.available \in Int
  BY DEF Session, Inventory
<1>3. Quantities \subseteq Int
  BY FulfilmentAssumption
<1>4. CASE me.op \in {"split", "rfq"}
  <2>1. OwnerOf(me) = RequestOwner(me.id) /\ SeesRequest(me, me.id)
    BY <1>4, HandlerFor DEF ForRequest, SessionLinked
  <2>2. me.request.qty \in Int /\ WholeQuantity(me) = me.request.qty
    BY <1>3, <1>4, <2>1 DEF SeesRequest, Request, WholeQuantity
  <2>3. WholeQuantity(me) = Wanted(OwnerOf(me))
    BY <2>1, <2>2 DEF Wanted, RequestOwner, SeesRequest
  <2>4. Shortfall(me) = IF me.op = "rfq" THEN WholeQuantity(me)
                        ELSE WholeQuantity(me) - me.stock.available
    BY <1>4, <2>2 DEF Shortfall
  <2>5. \/ me.op = "rfq" /\ Taken(me) = {}
        \/ me.op = "split" /\ Taken(me) = {NewReservation(me.code, OwnerOf(me),
                                               me.stock.available, WholeQuantity(me))}
    BY <1>4, <2>2 DEF Taken
  <2> QED BY <1>1, <1>2, <2>2, <2>3, <2>4, <2>5
<1>5. CASE me.op = "order"
  <2>1. OwnerOf(me) = ReturnOwner(me.id) /\ SeesReturn(me, me.id)
    BY <1>5, HandlerFor DEF ForReturn, SessionLinked
  <2>2. me.ret.qty \in Int /\ WholeQuantity(me) = me.ret.qty
    BY <1>3, <1>5, <2>1 DEF SeesReturn, Return, WholeQuantity
  <2>3. WholeQuantity(me) = Wanted(OwnerOf(me))
    BY <2>1, <2>2 DEF Wanted, ReturnOwner, SeesReturn
  <2>4. Shortfall(me) = WholeQuantity(me) - me.stock.available
    BY <1>5, <2>2 DEF Shortfall
  <2>5. \/ Taken(me) = {}
        \/ Taken(me) = {NewReservation(me.code, OwnerOf(me), me.stock.available, WholeQuantity(me))}
    BY <1>5, <2>2 DEF Taken
  <2> QED BY <1>1, <1>2, <1>5, <2>2, <2>3, <2>4, <2>5
<1> QED BY <1>4, <1>5

LEMMA CommitRfqKeeps ==
    ASSUME TxTyped, NEW s \in Sessions, CommitRfq(s)
    PROVE  TxKeeps
<1> DEFINE me == sessions[s]
           rfq == NewRfq(OwnerOf(me), Shortfall(me))
<1>1. TypeOK /\ Linked /\ me \in Session /\ SessionLinked(me)
  BY SessionHolds DEF TxTyped
<1>2. me.op \in {"split", "rfq", "order"}
  BY DEF CommitRfq
<1>3. /\ OwnerOf(me) \in Owner
      /\ OwnerExists(OwnerOf(me))
      /\ WholeQuantity(me) \in Int
      /\ Shortfall(me) \in Int
      /\ Taken(me) = {} \/ Taken(me) = {NewReservation(me.code, OwnerOf(me),
                                                  me.stock.available, WholeQuantity(me))}
  BY <1>1, <1>2, RaisedFor
<1>4. /\ rfqs' = Append(rfqs, rfq)
      /\ reservations' = reservations \cup Taken(me)
      /\ \/ inventory' = inventory
         \/ inventory' = Written(me.stock, ReserveStock(me.stock, me.stock.available), inventory)
      /\ UNCHANGED <<requests, returns, orders, asns, transfers, adjusted>>
  BY DEF CommitRfq
<1>5. rfq \in Rfq
  BY <1>3, RfqTypes
<1>6. /\ me.stock \in Inventory /\ me.stock.available \in Int /\ me.code \in Nat
      /\ inventory \in Inventory
  BY <1>1 DEF Session, Inventory, TypeOK
<1>7. Taken(me) \subseteq Reservation
  BY <1>3, <1>6, ReservationTypes
<1>8. ReserveStock(me.stock, me.stock.available) \in Inventory
  BY <1>6, InventoryTypes
<1>9. inventory' \in Inventory
  BY <1>4, <1>6, <1>8, WrittenStock
<1>10. NewRfqsLinked
  BY <1>1, <1>3, <1>4, NewRfqLinked
<1> HIDE DEF me, rfq
<1>11. rfqs' \in Seq(Rfq) /\ KeptRfqs
  BY <1>1, <1>4, <1>5, RfqsAdded
<1>12. reservations' \subseteq Reservation
  BY <1>1, <1>4, <1>7 DEF TypeOK
<1>13. TypeOK' /\ Kept
  BY <1>1, <1>4, <1>9, <1>11, <1>12, Untouched DEF TypeOK, Kept
<1> QED BY <1>4, <1>10, <1>13, NoNewRow DEF TxKeeps, NewLinked

\* The mark of an RFQ in the row of its owner.
LEMMA MarkOwnerKeeps ==
    ASSUME TxTyped, NEW s \in Sessions, MarkOwner(s)
    PROVE  TxKeeps
<1> DEFINE me == sessions[s]
<1>1. TypeOK /\ Linked /\ me \in Session /\ SessionLinked(me)
  BY SessionHolds DEF TxTyped
<1>2. /\ requests' = MarkedRequests(me)
      /\ returns' = MarkedReturns(me)
      /\ UNCHANGED <<inventory, reservations, rfqs, orders, asns, transfers, adjusted>>
  BY DEF MarkOwner
<1>3. RfqRef(me.code) \in Ref /\ me.code \in Nat
  BY <1>1 DEF Session, RfqRef, Ref
<1>4. requests' \in Seq(Request) /\ KeptRequests
  <2>1. CASE me.op \in {"split", "rfq"}
    <3> DEFINE row == [requests[me.id] EXCEPT !.type = me.op, !.ref = RfqRef(me.code)]
    <3>1. me.id \in DOMAIN requests
      BY <1>1, <2>1 DEF SessionLinked, ForRequest, SeesRequest
    <3>2. requests[me.id] \in Request
      BY <1>1, <3>1, RequestRow
    <3>3. row \in Request /\ row.qty = requests[me.id].qty
      BY <1>3, <2>1, <3>2 DEF Request
    <3>4. requests' = [requests EXCEPT ![me.id] = row]
      BY <1>2, <2>1 DEF MarkedRequests, MarkSplit
    <3> HIDE DEF row
    <3> QED BY <1>1, <3>1, <3>3, <3>4, RequestsChanged
  <2>2. CASE me.op \notin {"split", "rfq"}
    <3>1. requests' = requests
      BY <1>2, <2>2 DEF MarkedRequests
    <3> QED BY <1>1, <3>1, Untouched
  <2> QED BY <2>1, <2>2
<1>5. returns' \in Seq(Return) /\ KeptReturns
  <2>1. CASE me.op = "order"
    <3> DEFINE row == Replenished([returns[me.id] EXCEPT !.rfq = me.code])
    <3>1. me.id \in DOMAIN returns
      BY <1>1, <2>1 DEF SessionLinked, ForReturn, SeesReturn
    <3>2. returns[me.id] \in Return
      BY <1>1, <3>1, ReturnRow
    <3>3. row \in Return /\ row.qty = returns[me.id].qty
      BY <1>3, <3>2 DEF Replenished, Return
    <3>4. returns' = [returns EXCEPT ![me.id] = row]
      BY <1>2, <2>1 DEF MarkedReturns
    <3> HIDE DEF row
    <3> QED BY <1>1, <3>1, <3>3, <3>4, ReturnsChanged
  <2>2. CASE me.op # "order"
    <3>1. returns' = returns
      BY <1>2, <2>2 DEF MarkedReturns
    <3> QED BY <1>1, <3>1, Untouched
  <2> QED BY <2>1, <2>2
<1>6. TypeOK' /\ Kept
  BY <1>1, <1>2, <1>4, <1>5, Untouched DEF TypeOK, Kept
<1> QED BY <1>2, <1>6, NoNewRow DEF TxKeeps, NewLinked

\* An inspection writes its receipt.
LEMMA InspectedKeeps ==
    ASSUME TypeOK, NEW me \in Session, me.id \in DOMAIN asns, Inspected(me)
    PROVE  /\ asns' \in Seq(Asn)
           /\ KeptAsns
           /\ DOMAIN asns' = DOMAIN asns
           /\ asns'[me.id].receipt = NewReceipt(me.accepted, me.rejected)
           /\ \A a \in DOMAIN asns : a # me.id => asns'[a] = asns[a]
<1> DEFINE row == [asns[me.id] EXCEPT !.receipt = NewReceipt(me.accepted, me.rejected)]
<1>1. me.accepted \in Nat /\ me.rejected \in Nat
  BY DEF Session
<1>2. NewReceipt(me.accepted, me.rejected) \in GoodsReceipt
  BY <1>1, ReceiptTypes
<1>3. asns[me.id] \in Asn
  BY AsnRow
<1>4. /\ row \in Asn
      /\ row.po = asns[me.id].po
      /\ row.receipt = NewReceipt(me.accepted, me.rejected)
  BY <1>2, <1>3 DEF Asn
<1>5. asns' = [asns EXCEPT ![me.id] = row]
  BY DEF Inspected
<1> HIDE DEF row
<1>6. asns' \in Seq(Asn) /\ KeptAsns
  BY <1>4, <1>5, AsnsChanged
<1>7. /\ DOMAIN asns' = DOMAIN asns
      /\ asns'[me.id] = row
      /\ \A a \in DOMAIN asns : a # me.id => asns'[a] = asns[a]
  BY <1>5
<1> QED BY <1>4, <1>6, <1>7

LEMMA CommitPartKeeps ==
    ASSUME TxTyped, NEW s \in Sessions, CommitPart(s)
    PROVE  TxKeeps
<1> DEFINE me == sessions[s]
           o == asns[me.id].po
           row == [orders[o] EXCEPT !.received = @ + me.accepted]
<1>1. TypeOK /\ Linked /\ me \in Session /\ SessionLinked(me)
  BY SessionHolds DEF TxTyped
<1>2. me.op = "inspect" /\ me.id \in DOMAIN asns
  BY <1>1 DEF CommitPart, SessionLinked
<1>3. o \in DOMAIN orders
  BY <1>1, <1>2, InspectionFor
<1>4. /\ Inspected(me)
      /\ orders' = [orders EXCEPT ![o] = row]
      /\ inventory' = Written(me.stock, IncreaseOnHand(me.stock, me.accepted), inventory)
      /\ UNCHANGED <<requests, returns, reservations, rfqs, transfers, adjusted>>
  BY DEF CommitPart
<1>5. me.accepted \in Nat /\ me.stock \in Inventory /\ inventory \in Inventory
  BY <1>1 DEF Session, TypeOK
<1>6. orders[o].received \in Nat
  BY <1>1, <1>3, OrderRow
<1>7. orders[o].received + me.accepted \in Nat
  BY <1>5, <1>6
<1>8. row \in Order /\ row.rfq = orders[o].rfq /\ row.qty = orders[o].qty
  BY <1>1, <1>3, <1>7, OrderRow
<1>9. IncreaseOnHand(me.stock, me.accepted) \in Inventory
  BY <1>5, InventoryTypes, Whole
<1>10. inventory' \in Inventory
  BY <1>4, <1>5, <1>9, WrittenStock
<1>11. asns' \in Seq(Asn) /\ KeptAsns /\ DOMAIN asns' = DOMAIN asns
  BY <1>1, <1>2, <1>4, InspectedKeeps
<1> HIDE DEF me, o, row
<1>12. orders' \in Seq(Order) /\ KeptOrders /\ DOMAIN orders' = DOMAIN orders
  BY <1>1, <1>3, <1>4, <1>8, OrdersChanged
<1>13. TypeOK' /\ Kept
  BY <1>1, <1>4, <1>10, <1>11, <1>12, Untouched DEF TypeOK, Kept
<1> QED BY <1>4, <1>11, <1>12, <1>13, NoNewRow DEF TxKeeps, NewLinked

\* What a delivery finds when it draws its code.
LEMMA FoundSession ==
    ASSUME TypeOK, Linked, NEW loaded \in Session, SessionLinked(loaded),
           loaded.op = "inspect", loaded.pc = "loaded",
           NEW me, me = NextCode(FoundBy(loaded))
    PROVE  /\ me \in Session
           /\ SessionLinked(me)
           /\ me.pc = "drawn"
           /\ me.op = "inspect"
           /\ me.id = loaded.id
           /\ me.accepted = loaded.accepted
           /\ me.rejected = loaded.rejected
           /\ me.stock \in {loaded.stock, inventory}
           /\ me.held = ReservationsOf(OwnerOf(me))
           /\ me.code = Len(transfers) + 1
<1> DEFINE owner == OwnerOf(loaded)
           stock == IF loaded.accepted = 0 THEN inventory ELSE loaded.stock
           held == ReservationsOf(owner)
           request == IF owner.kind = "request" THEN requests[owner.id] ELSE loaded.request
           ret == IF owner.kind = "return" THEN returns[owner.id] ELSE loaded.ret
           code == Len(transfers) + 1
<1>1. loaded.id \in DOMAIN asns
  BY DEF SessionLinked
<1>2. owner \in Owner /\ OwnerExists(owner)
  BY <1>1, InspectionFor
<1>3. stock \in Inventory /\ held \in SUBSET Reservation
  BY DEF Session, TypeOK, ReservationsOf
<1>4. owner.kind = "request" => owner.id \in DOMAIN requests /\ requests[owner.id] \in Request
  BY <1>2, RequestRow DEF OwnerExists
<1>5. owner.kind = "return" => owner.id \in DOMAIN returns /\ returns[owner.id] \in Return
  BY <1>2, ReturnRow DEF OwnerExists, Owner
<1>6. request \in Request \cup {NoRequest} /\ ret \in Return \cup {NoReturn}
  BY <1>4, <1>5 DEF Session
<1>7. code \in Nat /\ code \in 1..(Len(transfers) + 1)
  BY LenProperties DEF TypeOK
<1>8. me = [loaded EXCEPT !.stock = stock, !.held = held, !.request = request, !.ret = ret,
                          !.pc = "drawn", !.code = code]
  <2>1. FoundBy(loaded) = [loaded EXCEPT !.stock = stock, !.held = held, !.request = request,
                                         !.ret = ret]
    BY DEF FoundBy, Session
  <2>2. FoundBy(loaded).op = "inspect"
    BY <2>1 DEF Session
  <2>3. Table(FoundBy(loaded).op) + 1 = code
    BY <2>2 DEF Table
  <2> HIDE DEF owner, stock, held, request, ret, code
  <2>4. NextCode(FoundBy(loaded)) = [FoundBy(loaded) EXCEPT !.pc = "drawn", !.code = code]
    BY <2>3 DEF NextCode
  <2> QED BY <2>1, <2>4 DEF Session
<1>9. owner.kind = "request" => request = requests[owner.id]
  OBVIOUS
<1>10. /\ held = ReservationsOf(owner) /\ code = Len(transfers) + 1 /\ owner = OwnerOf(loaded)
       /\ stock \in {loaded.stock, inventory}
  OBVIOUS
<1> HIDE DEF owner, stock, held, request, ret, code
<1>11. /\ me \in Session
       /\ me.pc = "drawn" /\ me.op = "inspect" /\ me.id = loaded.id
       /\ me.accepted = loaded.accepted /\ me.rejected = loaded.rejected
       /\ me.held = held /\ me.code = code /\ me.request = request
       /\ me.stock = stock
  BY <1>3, <1>6, <1>7, <1>8 DEF Session
<1>12. OwnerOf(me) = owner
  BY <1>1, <1>10, <1>11, InspectionFor
<1>13. owner.kind = "request" => SeesRequest(me, owner.id)
  BY <1>4, <1>9, <1>11 DEF SeesRequest
<1>14. SessionLinked(me)
  BY <1>1, <1>7, <1>11, <1>12, <1>13 DEF SessionLinked, ForRequest, ForReturn, Table
<1> QED BY <1>10, <1>11, <1>12, <1>14

\* What a delivery does, with the session as it is at the commit.
Delivery(s, me) ==
    LET o     == asns[me.id].po
        owner == OwnerOf(me)
    IN  /\ SessionLinked(me)
        /\ me.pc = "drawn" /\ me.op = "inspect"
        /\ me.id = sessions[s].id
        /\ me.stock \in {sessions[s].stock, inventory}
        /\ me = sessions[s] \/ me.held = ReservationsOf(owner)
        /\ Inspected(me)
        /\ orders' = [orders EXCEPT ![o] =
               [orders[o] EXCEPT !.received = orders[o].received + me.accepted,
                                 !.status = "Delivered", !.dispatched = @ + 1]]
        /\ \E q \in Int, source \in {"Vendor Procurement", "Combined Stock + Vendor"} :
              /\ inventory' = DeliveredStock(me, q)
              /\ transfers' = Append(transfers, NewTransfer(owner, q, source))
        /\ \/ /\ owner.kind = "request"
              /\ requests' = ShippedRequest(me, owner.id)
              /\ Becomes(s, [me EXCEPT !.pc = "closing"])
              /\ UNCHANGED <<returns, reservations, rfqs>>
           \/ /\ owner.kind = "return"
              /\ returns' = [returns EXCEPT ![owner.id].transfer = me.code]
              /\ Close(me.held, orders[o].rfq)
              /\ Becomes(s, Free)
              /\ UNCHANGED requests
        /\ UNCHANGED adjusted

LEMMA CommitDeliveryEffect ==
    ASSUME TxTyped, NEW s \in Sessions, CommitDelivery(s)
    PROVE  \E me \in Session : Delivery(s, me)
<1> DEFINE loaded == sessions[s]
           me == IF loaded.rejected > 0 THEN NextCode(FoundBy(loaded)) ELSE loaded
           o == asns[me.id].po
           owner == OwnerOf(me)
           total == orders[o].received + me.accepted
<1>1. TypeOK /\ Linked /\ loaded \in Session /\ SessionLinked(loaded)
  BY SessionHolds DEF TxTyped
<1>2. loaded.op = "inspect" /\ loaded.pc = (IF loaded.rejected > 0 THEN "loaded" ELSE "drawn")
  BY DEF CommitDelivery
<1>3. /\ me \in Session /\ SessionLinked(me)
      /\ me.pc = "drawn" /\ me.op = "inspect" /\ me.id = loaded.id
      /\ me.stock \in {loaded.stock, inventory}
      /\ me = loaded \/ me.held = ReservationsOf(OwnerOf(me))
  BY <1>1, <1>2, FoundSession
<1>4. /\ Inspected(me)
      /\ orders' = [orders EXCEPT ![o].received = total, ![o].status = "Delivered",
                                  ![o].dispatched = @ + 1]
      /\ \/ \E h \in me.held :
               /\ inventory' = DeliveredStock(me, h.reserved + h.vendor)
               /\ transfers' = Append(transfers, NewTransfer(owner, h.reserved + h.vendor,
                                                             "Combined Stock + Vendor"))
         \/ /\ me.held = {}
            /\ inventory' = DeliveredStock(me, total)
            /\ transfers' = Append(transfers, NewTransfer(owner, total, "Vendor Procurement"))
      /\ UNCHANGED adjusted
  <2>1. asns[loaded.id].po = o
    BY <1>3
  <2> QED BY <2>1 DEF CommitDelivery
<1>5. \/ /\ owner.kind = "request"
         /\ requests' = ShippedRequest(me, owner.id)
         /\ Becomes(s, [me EXCEPT !.pc = "closing"])
         /\ UNCHANGED <<returns, reservations, rfqs>>
      \/ /\ owner.kind # "request"
         /\ returns' = [returns EXCEPT ![owner.id].transfer = me.code]
         /\ Close(me.held, orders[o].rfq)
         /\ Becomes(s, Free)
         /\ UNCHANGED requests
  <2>1. asns[loaded.id].po = o
    BY <1>3
  <2> QED BY <2>1 DEF CommitDelivery
<1> HIDE DEF me
<1>6. me.id \in DOMAIN asns
  BY <1>3 DEF SessionLinked
<1>7. o \in DOMAIN orders /\ owner \in Owner
  BY <1>1, <1>3, <1>6, InspectionFor
<1>8. owner.kind \in {"request", "return"}
  BY <1>7 DEF Owner
<1>9. total \in Int
  <2>1. orders[o].received \in Nat /\ me.accepted \in Nat
    BY <1>1, <1>3, <1>7, OrderRow DEF Session
  <2> QED BY <2>1
<1>10. \A h \in me.held : h.reserved + h.vendor \in Int
  BY <1>3 DEF Session, Reservation
<1>11. orders' = [orders EXCEPT ![o] =
          [orders[o] EXCEPT !.received = orders[o].received + me.accepted,
                            !.status = "Delivered", !.dispatched = @ + 1]]
  BY <1>4, <1>7
<1> HIDE DEF o, owner, total
<1>12. \E q \in Int, source \in {"Vendor Procurement", "Combined Stock + Vendor"} :
          /\ inventory' = DeliveredStock(me, q)
          /\ transfers' = Append(transfers, NewTransfer(owner, q, source))
  <2>1. CASE \E h \in me.held :
               /\ inventory' = DeliveredStock(me, h.reserved + h.vendor)
               /\ transfers' = Append(transfers, NewTransfer(owner, h.reserved + h.vendor,
                                                             "Combined Stock + Vendor"))
    BY <1>10, <2>1
  <2>2. CASE /\ inventory' = DeliveredStock(me, total)
             /\ transfers' = Append(transfers, NewTransfer(owner, total, "Vendor Procurement"))
    BY <1>9, <2>2
  <2> QED BY <1>4, <2>1, <2>2
<1>13. Delivery(s, me)
  BY <1>3, <1>4, <1>5, <1>8, <1>11, <1>12 DEF Delivery, o, owner
<1> QED BY <1>3, <1>13

\* A delivery changes what is on hand alone.
LEMMA DeliveredStockKeeps ==
    ASSUME TypeOK, NEW me \in Session, NEW q \in Int
    PROVE  /\ DeliveredStock(me, q) \in Inventory
           /\ DeliveredStock(me, q).available = inventory.available
<1> DEFINE arrived == IncreaseOnHand(me.stock, me.accepted)
           left == DecreaseOnHand(arrived, q)
           flushed == Written(me.stock, arrived, inventory)
<1>1. me.stock \in Inventory /\ inventory \in Inventory /\ me.accepted \in Int
  BY DEF Session, TypeOK
<1>2. arrived \in Inventory /\ arrived.available = me.stock.available
  BY <1>1, InventoryTypes
<1> HIDE DEF arrived
<1>3. left \in Inventory /\ left.available = arrived.available
  BY <1>2, InventoryTypes
<1> HIDE DEF left
<1>4. flushed \in Inventory /\ flushed.available = inventory.available
  BY <1>1, <1>2, WrittenStock
<1> HIDE DEF flushed
<1>5. /\ Written(arrived, left, flushed) \in Inventory
      /\ Written(arrived, left, flushed).available = inventory.available
  BY <1>2, <1>3, <1>4, WrittenStock
<1>6. /\ Written(me.stock, left, inventory) \in Inventory
      /\ Written(me.stock, left, inventory).available = inventory.available
  BY <1>1, <1>2, <1>3, WrittenStock
<1>7. DeliveredStock(me, q) = IF me.rejected > 0 THEN Written(arrived, left, flushed)
                              ELSE Written(me.stock, left, inventory)
  BY DEF DeliveredStock, arrived, left, flushed
<1> QED BY <1>5, <1>6, <1>7

\* The RFQ that is closed.
LEMMA ClosedKeeps ==
    ASSUME TypeOK, NEW r \in DOMAIN rfqs, rfqs' = [rfqs EXCEPT ![r].status = "Closed"]
    PROVE  rfqs' \in Seq(Rfq) /\ KeptRfqs /\ DOMAIN rfqs' = DOMAIN rfqs
<1> DEFINE row == [rfqs[r] EXCEPT !.status = "Closed"]
<1>1. row \in Rfq /\ row.owner = rfqs[r].owner /\ row.qty = rfqs[r].qty
  BY RfqRow
<1>2. rfqs' = [rfqs EXCEPT ![r] = row]
  OBVIOUS
<1> HIDE DEF row
<1> QED BY <1>1, <1>2, RfqsChanged

LEMMA CommitDeliveryKeeps ==
    ASSUME TxTyped, NEW s \in Sessions, CommitDelivery(s)
    PROVE  TxKeeps
<1>1. TypeOK /\ Linked
  BY DEF TxTyped
<1>2. PICK me \in Session : Delivery(s, me)
  BY CommitDeliveryEffect
<1> DEFINE o == asns[me.id].po
           rfq == orders[o].rfq
           owner == OwnerOf(me)
           row == [orders[o] EXCEPT !.received = orders[o].received + me.accepted,
                                    !.status = "Delivered", !.dispatched = @ + 1]
<1>3. /\ SessionLinked(me) /\ me.pc = "drawn" /\ me.op = "inspect"
      /\ Inspected(me)
      /\ orders' = [orders EXCEPT ![o] = row]
      /\ adjusted' = adjusted
  BY <1>2 DEF Delivery
<1>4. me.id \in DOMAIN asns
  BY <1>3 DEF SessionLinked
<1>5. o \in DOMAIN orders /\ rfq \in DOMAIN rfqs /\ owner \in Owner /\ OwnerExists(owner)
  BY <1>1, <1>3, <1>4, InspectionFor
<1>6. row \in Order /\ row.rfq = orders[o].rfq /\ row.qty = orders[o].qty
  <2>1. orders[o].received \in Nat /\ me.accepted \in Nat
    BY <1>1, <1>5, OrderRow DEF Session
  <2>2. orders[o].received + me.accepted \in Nat
    BY <2>1
  <2> QED BY <1>1, <1>5, <2>2, OrderRow
<1>7. PICK q \in Int, source \in {"Vendor Procurement", "Combined Stock + Vendor"} :
         /\ inventory' = DeliveredStock(me, q)
         /\ transfers' = Append(transfers, NewTransfer(owner, q, source))
  BY <1>2 DEF Delivery
<1>8. \/ /\ owner.kind = "request"
         /\ requests' = ShippedRequest(me, owner.id)
         /\ UNCHANGED <<returns, reservations, rfqs>>
      \/ /\ owner.kind = "return"
         /\ returns' = [returns EXCEPT ![owner.id].transfer = me.code]
         /\ reservations' = reservations \ me.held
         /\ rfqs' = [rfqs EXCEPT ![rfq].status = "Closed"]
         /\ UNCHANGED requests
  BY <1>2 DEF Delivery, Close
<1>9. owner.kind = "request" => SeesRequest(me, owner.id)
  BY <1>3 DEF SessionLinked
<1>10. owner.kind = "return" => owner.id \in DOMAIN returns
  BY <1>5 DEF OwnerExists
<1>11. asns' \in Seq(Asn) /\ KeptAsns /\ DOMAIN asns' = DOMAIN asns
  BY <1>1, <1>3, <1>4, InspectedKeeps
<1>12. inventory' \in Inventory
  BY <1>1, <1>7, DeliveredStockKeeps
<1>13. NewTransfer(owner, q, source) \in Transfer
  BY <1>5, TransferTypes
<1>14. NewTransfersLinked
  BY <1>1, <1>7, <1>5, NewTransferLinked
<1>15. transfers' \in Seq(Transfer) /\ KeptTransfers
  BY <1>1, <1>7, <1>13, TransfersAdded
<1> HIDE DEF o, rfq, owner, row
<1>16. orders' \in Seq(Order) /\ KeptOrders /\ DOMAIN orders' = DOMAIN orders
  BY <1>1, <1>3, <1>5, <1>6, OrdersChanged
<1>17. rfqs' \in Seq(Rfq) /\ KeptRfqs /\ DOMAIN rfqs' = DOMAIN rfqs
  <2>1. CASE rfqs' = [rfqs EXCEPT ![rfq].status = "Closed"]
    BY <1>1, <1>5, <2>1, ClosedKeeps
  <2>2. CASE rfqs' = rfqs
    BY <1>1, <2>2, Untouched
  <2> QED BY <1>8, <2>1, <2>2
<1>18. requests' \in Seq(Request) /\ KeptRequests
  <2>1. CASE requests' = requests
    BY <1>1, <2>1, Untouched
  <2>2. CASE owner.kind = "request" /\ requests' = ShippedRequest(me, owner.id)
    BY <1>1, <1>9, <2>2, ShippedRequestKeeps
  <2> QED BY <1>8, <2>1, <2>2
<1>19. returns' \in Seq(Return) /\ KeptReturns
  <2>1. CASE returns' = returns
    BY <1>1, <2>1, Untouched
  <2>2. CASE owner.kind = "return" /\ returns' = [returns EXCEPT ![owner.id].transfer = me.code]
    <3> DEFINE ret == [returns[owner.id] EXCEPT !.transfer = me.code]
    <3>1. owner.id \in DOMAIN returns
      BY <1>10, <2>2
    <3>2. me.code \in Nat /\ returns[owner.id] \in Return
      BY <1>1, <3>1, ReturnRow DEF Session
    <3>3. ret \in Return /\ ret.qty = returns[owner.id].qty
      BY <3>2 DEF Return
    <3>4. returns' = [returns EXCEPT ![owner.id] = ret]
      BY <2>2
    <3> HIDE DEF ret
    <3> QED BY <1>1, <3>1, <3>3, <3>4, ReturnsChanged
  <2> QED BY <1>8, <2>1, <2>2
<1>20. reservations' \subseteq Reservation
  BY <1>1, <1>8 DEF TypeOK
<1>21. adjusted' \in [onHand : Int, available : Int, count : Nat]
  BY <1>1, <1>3 DEF TypeOK
<1>22. TypeOK' /\ Kept
  BY <1>11, <1>12, <1>15, <1>16, <1>17, <1>18, <1>19, <1>20, <1>21 DEF TypeOK, Kept
<1> QED BY <1>11, <1>14, <1>16, <1>17, <1>22, NoNewRow DEF TxKeeps, NewLinked

LEMMA CloseRfqKeeps ==
    ASSUME TxTyped, NEW s \in Sessions, CloseRfq(s)
    PROVE  TxKeeps
<1> DEFINE me == sessions[s]
           rfq == orders[asns[me.id].po].rfq
<1>1. TypeOK /\ Linked /\ me \in Session /\ SessionLinked(me)
  BY SessionHolds DEF TxTyped
<1>2. me.op = "inspect" /\ me.id \in DOMAIN asns
  BY <1>1 DEF CloseRfq, SessionLinked
<1>3. rfq \in DOMAIN rfqs
  BY <1>1, <1>2, InspectionFor
<1>4. /\ reservations' = reservations \ me.held
      /\ rfqs' = [rfqs EXCEPT ![rfq].status = "Closed"]
      /\ UNCHANGED <<inventory, requests, returns, orders, asns, transfers, adjusted>>
  BY DEF CloseRfq, Close
<1> HIDE DEF me, rfq
<1>5. rfqs' \in Seq(Rfq) /\ KeptRfqs /\ DOMAIN rfqs' = DOMAIN rfqs
  BY <1>1, <1>3, <1>4, ClosedKeeps
<1>6. reservations' \subseteq Reservation
  BY <1>1, <1>4 DEF TypeOK
<1>7. TypeOK' /\ Kept
  BY <1>1, <1>4, <1>5, <1>6, Untouched DEF TypeOK, Kept
<1> QED BY <1>4, <1>5, <1>7, NoNewRow DEF TxKeeps, NewLinked

\* Every step of a session leaves the tables typed and tied.
LEMMA TxStepKeeps ==
    ASSUME TxTyped, [TxNext]_txvars
    PROVE  TxKeeps
<1>1. ASSUME [Next]_vars
      PROVE  TxKeeps
  BY <1>1, StepKeeps, StepLinks DEF TxTyped, TxKeeps
<1>2. CASE OtherHandlers
  BY <1>1, <1>2, OthersAreNext
<1>3. CASE UNCHANGED vars
  BY <1>1, <1>3
<1>4. CASE UNCHANGED txvars
  BY <1>3, <1>4 DEF txvars, vars
<1>5. ASSUME NEW s \in Sessions, Load(s) \/ DrawCode(s) \/ Abort(s) \/ Crash(s)
      PROVE  UNCHANGED vars
  BY <1>5 DEF Load, LoadRequest, LoadReturn, LoadNotice, DrawCode, Abort, Crash
<1>6. CASE \E s \in Sessions : Proceed(s)
  <2> PICK s \in Sessions : Proceed(s)
    BY <1>6
  <2>1. CASE DrawCode(s) \/ Abort(s)
    BY <1>3, <1>5, <2>1
  <2>2. CASE CommitStock(s) \/ CommitReplenish(s)
    BY <2>2, CommitStockKeeps, CommitReplenishKeeps
  <2>3. CASE CommitRfq(s) \/ MarkOwner(s)
    BY <2>3, CommitRfqKeeps, MarkOwnerKeeps
  <2>4. CASE CommitPart(s) \/ CommitDelivery(s) \/ CloseRfq(s)
    BY <2>4, CommitPartKeeps, CommitDeliveryKeeps, CloseRfqKeeps
  <2> QED BY <2>1, <2>2, <2>3, <2>4 DEF Proceed
<1> QED BY <1>2, <1>3, <1>4, <1>5, <1>6 DEF TxNext

\* What a session loads: the stock as it is, and a row that may be worked on.
Loaded(new) ==
    /\ new.pc = "loaded"
    /\ new.stock = inventory
    /\ new.op = "stock" => CanReserve(new.request.qty)
    /\ new.op = "replenish" => CanReserve(new.ret.qty)
    /\ new.op = "inspect" => asns[new.id].receipt = NoReceipt /\ ~Inspecting(new.id)

LEMMA LoadedSession ==
    ASSUME TxTyped, NEW s \in Sessions, Load(s)
    PROVE  /\ sessions[s].pc = "idle"
           /\ UNCHANGED vars
           /\ \E new \in Session : Becomes(s, new) /\ SessionLinked(new) /\ Loaded(new)
<1> USE DEF Loaded
<1>1. TypeOK /\ inventory \in Inventory
  BY DEF TxTyped, TypeOK
<1>2. CASE \E p \in DOMAIN requests, op \in {"stock", "split", "rfq"} : LoadRequest(s, p, op)
  <2>1. PICK p \in DOMAIN requests, op \in {"stock", "split", "rfq"} : LoadRequest(s, p, op)
    BY <1>2
  <2> DEFINE new == [Free EXCEPT !.pc = "loaded", !.op = op, !.id = p,
                                 !.stock = inventory, !.request = requests[p]]
  <2>2. p \in Nat /\ requests[p] \in Request
    BY <1>1, RequestRow
  <2>3. /\ new \in Session /\ new.pc = "loaded" /\ new.op = op /\ new.id = p
        /\ new.request = requests[p]
    BY <1>1, <2>2, FreeSession DEF Session
  <2>4. Becomes(s, new)
    BY <2>1 DEF LoadRequest
  <2>5. op = "stock" => CanReserve(requests[p].qty)
    BY <2>1 DEF LoadRequest
  <2>6. new.stock = inventory
    BY FreeSession DEF Session
  <2> HIDE DEF new
  <2>7. SessionLinked(new)
    BY <2>2, <2>3 DEF SessionLinked, ForRequest, ForReturn, SeesRequest
  <2>8. sessions[s].pc = "idle" /\ UNCHANGED vars
    BY <2>1 DEF LoadRequest
  <2> QED BY <2>3, <2>4, <2>5, <2>6, <2>7, <2>8
<1>3. CASE \E r \in DOMAIN returns : LoadReturn(s, r)
  <2>1. PICK r \in DOMAIN returns : LoadReturn(s, r)
    BY <1>3
  <2> DEFINE op == IF CanReserve(returns[r].qty) THEN "replenish" ELSE "order"
             new == [Free EXCEPT !.pc = "loaded", !.id = r, !.stock = inventory,
                                 !.ret = returns[r], !.op = op]
  <2>2. r \in Nat /\ returns[r] \in Return
    BY <1>1, ReturnRow
  <2>3. Becomes(s, new)
    BY <2>1 DEF LoadReturn
  <2>4. op \in {"replenish", "order"} /\ (op = "replenish" => CanReserve(returns[r].qty))
    OBVIOUS
  <2> HIDE DEF op
  <2>5. /\ new \in Session /\ new.pc = "loaded" /\ new.op = op /\ new.id = r
        /\ new.ret = returns[r] /\ new.stock = inventory
    BY <1>1, <2>2, <2>4, FreeSession DEF Session
  <2> HIDE DEF new
  <2>6. SessionLinked(new)
    BY <2>2, <2>4, <2>5 DEF SessionLinked, ForRequest, ForReturn, SeesReturn
  <2>7. sessions[s].pc = "idle" /\ UNCHANGED vars
    BY <2>1 DEF LoadReturn
  <2> QED BY <2>3, <2>4, <2>5, <2>6, <2>7
<1>4. CASE \E a \in DOMAIN asns, acc \in 0..MaxCount, rej \in 0..MaxCount :
              LoadNotice(s, a, acc, rej)
  <2>1. 0..MaxCount \subseteq Nat
    BY FulfilmentAssumption
  <2>2. PICK a \in DOMAIN asns, acc \in Nat, rej \in Nat : LoadNotice(s, a, acc, rej)
    BY <1>4, <2>1
  <2> DEFINE new == [Free EXCEPT !.pc = "loaded", !.op = "inspect", !.id = a,
                                 !.stock = inventory, !.accepted = acc, !.rejected = rej]
  <2>3. a \in Nat
    BY <1>1, AsnRow
  <2>4. /\ new \in Session /\ new.pc = "loaded" /\ new.op = "inspect" /\ new.id = a
        /\ new.stock = inventory
    BY <1>1, <2>3, FreeSession DEF Session
  <2>5. Becomes(s, new)
    BY <2>2 DEF LoadNotice
  <2> HIDE DEF new
  <2>6. SessionLinked(new)
    BY <2>4 DEF SessionLinked, ForRequest, ForReturn
  <2>7. /\ sessions[s].pc = "idle" /\ UNCHANGED vars
        /\ asns[a].receipt = NoReceipt /\ ~Inspecting(a)
    BY <2>2 DEF LoadNotice
  <2> QED BY <2>4, <2>5, <2>6, <2>7
<1> QED BY <1>2, <1>3, <1>4 DEF Load

\* A code drawn for anything but an inspection.
LEMMA DrawnSession ==
    ASSUME TypeOK, NEW me \in Session, SessionLinked(me), me.op # "inspect", me.op # "none"
    PROVE  /\ NextCode(me) \in Session
           /\ SessionLinked(NextCode(me))
           /\ NextCode(me) = [me EXCEPT !.pc = "drawn", !.code = Table(me.op) + 1]
<1> DEFINE new == NextCode(me)
<1>1. Table(me.op) + 1 \in Nat /\ Table(me.op) + 1 \in 1..(Table(me.op) + 1)
  BY LenProperties DEF Table, TypeOK
<1>2. /\ new \in Session /\ new.pc = "drawn" /\ new.op = me.op /\ new.id = me.id
      /\ new.request = me.request /\ new.ret = me.ret /\ new.code = Table(me.op) + 1
  BY <1>1 DEF NextCode, Session
<1> HIDE DEF new
<1>3. SessionLinked(new)
  BY <1>1, <1>2 DEF SessionLinked, ForRequest, ForReturn, SeesRequest, SeesReturn
<1> QED BY <1>2, <1>3 DEF new, NextCode

\* A handler whose first commit is done has the second before it.
LEMMA SecondCommitWaits ==
    ASSUME NEW me \in Session, SessionLinked(me),
           NEW pc \in {"marking", "closing"},
           pc = "marking" => me.op \in {"split", "rfq", "order"},
           pc = "closing" => me.op = "inspect"
    PROVE  [me EXCEPT !.pc = pc] \in Session /\ SessionLinked([me EXCEPT !.pc = pc])
<1> DEFINE new == [me EXCEPT !.pc = pc]
<1>1. /\ new \in Session /\ new.pc = pc /\ new.op = me.op /\ new.id = me.id
      /\ new.request = me.request /\ new.ret = me.ret
  BY DEF Session
<1> HIDE DEF new
<1>2. SessionLinked(new)
  BY <1>1 DEF SessionLinked, ForRequest, ForReturn, SeesRequest, SeesReturn
<1> QED BY <1>1, <1>2 DEF new

LEMMA ProceededSession ==
    ASSUME TxTyped, NEW s \in Sessions, Proceed(s)
    PROVE  \E new \in Session : Becomes(s, new) /\ SessionLinked(new)
<1> DEFINE me == sessions[s]
<1>1. TypeOK /\ Linked /\ me \in Session /\ SessionLinked(me)
  BY SessionHolds DEF TxTyped
<1>2. ASSUME Becomes(s, Free)
      PROVE  \E new \in Session : Becomes(s, new) /\ SessionLinked(new)
  BY <1>2, FreeSession
<1>3. CASE DrawCode(s)
  <2>1. me.pc = "loaded" /\ me.op # "none"
    BY <1>1, <1>3 DEF DrawCode, SessionLinked
  <2>2. CASE me.op = "inspect"
    <3>1. Becomes(s, NextCode(FoundBy(me)))
      BY <1>3, <2>2 DEF DrawCode
    <3>2. NextCode(FoundBy(me)) \in Session /\ SessionLinked(NextCode(FoundBy(me)))
      BY <1>1, <2>1, <2>2, FoundSession
    <3> QED BY <3>1, <3>2
  <2>3. CASE me.op # "inspect"
    <3>1. Becomes(s, NextCode(me))
      BY <1>3, <2>3 DEF DrawCode
    <3> QED BY <1>1, <2>1, <2>3, <3>1, DrawnSession
  <2> QED BY <2>2, <2>3
<1>4. CASE Abort(s)
  BY <1>2, <1>4 DEF Abort
<1>5. CASE CommitStock(s) \/ CommitReplenish(s)
  BY <1>2, <1>5 DEF CommitStock, CommitReplenish
<1>6. CASE CommitRfq(s)
  <2>1. Becomes(s, [me EXCEPT !.pc = "marking"]) /\ me.op \in {"split", "rfq", "order"}
    BY <1>6 DEF CommitRfq
  <2> QED BY <1>1, <2>1, SecondCommitWaits
<1>7. CASE MarkOwner(s) \/ CommitPart(s) \/ CloseRfq(s)
  BY <1>2, <1>7 DEF MarkOwner, CommitPart, CloseRfq
<1>8. CASE CommitDelivery(s)
  <2>1. PICK now \in Session : Delivery(s, now)
    BY <1>8, CommitDeliveryEffect
  <2>2. /\ SessionLinked(now) /\ now.op = "inspect"
        /\ Becomes(s, [now EXCEPT !.pc = "closing"]) \/ Becomes(s, Free)
    BY <2>1 DEF Delivery
  <2> QED BY <1>2, <2>2, SecondCommitWaits
<1> QED BY <1>3, <1>4, <1>5, <1>6, <1>7, <1>8 DEF Proceed

LEMMA TxTypedStep ==
    ASSUME TxTyped, [TxNext]_txvars
    PROVE  TxTyped' /\ Kept
<1>1. TypeOK' /\ Kept /\ NewLinked
  BY TxStepKeeps DEF TxKeeps
<1>2. Linked'
  BY <1>1, LinkedStep DEF TxTyped
<1>3. ASSUME NEW s \in Sessions, NEW new \in Session, SessionLinked(new),
             sessions' = [sessions EXCEPT ![s] = new]
      PROVE  SessionsSound'
  BY <1>1, <1>3, SessionMoves
<1>4. ASSUME sessions' = sessions
      PROVE  SessionsSound'
  BY <1>1, <1>4, SessionsStay
<1>5. ASSUME OtherHandlers \/ UNCHANGED txvars
      PROVE  sessions' = sessions
  BY <1>5 DEF OtherHandlers, txvars
<1>6. ASSUME NEW s \in Sessions, Load(s) \/ Proceed(s) \/ Crash(s)
      PROVE  SessionsSound'
  <2>1. CASE Load(s) \/ Proceed(s)
    <3>1. PICK new \in Session : Becomes(s, new) /\ SessionLinked(new)
      BY <2>1, LoadedSession, ProceededSession
    <3> QED BY <1>3, <3>1 DEF Becomes
  <2>2. CASE Crash(s)
    BY <1>3, <2>2, FreeSession DEF Crash
  <2> QED BY <1>6, <2>1, <2>2
<1>7. SessionsSound'
  BY <1>4, <1>5, <1>6 DEF TxNext
<1> QED BY <1>1, <1>2, <1>7 DEF TxTyped

\* However the sessions interleave and wherever they die, the tables keep their types and
\* foreign keys, and every session holds rows of requests, returns and notices that exist.
THEOREM TxTypeCorrect == TxSpec => []TxTyped
<1>1. TxInit => TxTyped
  BY InitTypes, FreeSession DEF TxInit, TxTyped, SessionsSound
<1>2. TxTyped /\ [TxNext]_txvars => TxTyped'
  BY TxTypedStep
<1> QED BY <1>1, <1>2, PTL DEF TxSpec

-----------------------------------------------------------------------------
(* Free stock, with handlers at work at the same time *)

\* What a session read of the stock covers what it goes on to promise.
Covers(me) ==
    /\ me.stock.available >= 0
    /\ me.op = "stock" => me.stock.available >= me.request.qty
    /\ me.op = "replenish" => me.stock.available >= me.ret.qty

Promised ==
    /\ AvailableNonNegative
    /\ \A s \in Sessions : Covers(sessions[s])

LEMMA LoadCovers ==
    ASSUME TxTyped, Promised, NEW s \in Sessions, Load(s)
    PROVE  \E new \in Session : Becomes(s, new) /\ Covers(new)
<1>1. PICK new \in Session : Becomes(s, new) /\ Loaded(new)
  BY LoadedSession
<1> QED BY <1>1 DEF Loaded, CanReserve, Covers, Promised, AvailableNonNegative

LEMMA CommitsCovered ==
    ASSUME TxTyped, Promised, NEW s \in Sessions, Proceed(s)
    PROVE  AvailableNonNegative'
<1> DEFINE me == sessions[s]
<1>1. TypeOK /\ Linked /\ me \in Session /\ SessionLinked(me) /\ Covers(me)
  BY SessionHolds DEF TxTyped, Promised
<1>2. inventory.available \in Int /\ inventory.available >= 0 /\ me.stock \in Inventory
      /\ me.stock.available \in Int /\ me.stock.available >= 0 /\ inventory \in Inventory
  BY <1>1 DEF TypeOK, Inventory, Session, Promised, AvailableNonNegative, Covers
<1>3. Quantities \subseteq Int
  BY FulfilmentAssumption
<1>4. CASE CommitStock(s)
  <2> DEFINE q == me.request.qty
  <2>1. me.op = "stock"
    BY <1>4 DEF CommitStock
  <2>2. q \in Int
    BY <1>1, <1>3, <2>1 DEF SessionLinked, ForRequest, SeesRequest, Request
  <2>3. inventory' = Written(me.stock, DecreaseOnHand(ReserveStock(me.stock, q), q), inventory)
    BY <1>4, <2>1 DEF CommitStock, ShipFromStock
  <2>4. me.stock.available >= q
    BY <1>1, <2>1 DEF Covers
  <2> HIDE DEF me, q
  <2>5. inventory'.available = IF me.stock.available - q = me.stock.available
                               THEN inventory.available ELSE me.stock.available - q
    BY <1>1, <2>2, <2>3, ShippedStock
  <2>6. inventory'.available >= 0
    BY <1>2, <2>2, <2>4, <2>5
  <2> QED BY <2>6 DEF AvailableNonNegative
<1>5. CASE CommitReplenish(s)
  <2> DEFINE q == me.ret.qty
  <2>1. me.op = "replenish"
    BY <1>5 DEF CommitReplenish
  <2>2. q \in Int
    BY <1>1, <1>3, <2>1 DEF SessionLinked, ForReturn, SeesReturn, Return
  <2>3. inventory' = Written(me.stock, DecreaseOnHand(ReserveStock(me.stock, q), q), inventory)
    BY <1>5, <2>1 DEF CommitReplenish, ShipFromStock
  <2>4. me.stock.available >= q
    BY <1>1, <2>1 DEF Covers
  <2> HIDE DEF me, q
  <2>5. inventory'.available = IF me.stock.available - q = me.stock.available
                               THEN inventory.available ELSE me.stock.available - q
    BY <1>1, <2>2, <2>3, ShippedStock
  <2>6. inventory'.available >= 0
    BY <1>2, <2>2, <2>4, <2>5
  <2> QED BY <2>6 DEF AvailableNonNegative
<1>6. CASE CommitRfq(s)
  <2> DEFINE left == ReserveStock(me.stock, me.stock.available)
  <2>1. inventory' = inventory \/ inventory' = Written(me.stock, left, inventory)
    BY <1>6 DEF CommitRfq
  <2>2. left \in Inventory /\ left.available = me.stock.available - me.stock.available
    BY <1>2, InventoryTypes
  <2>3. left.available = 0
    BY <1>2, <2>2
  <2> HIDE DEF left
  <2>4. \/ inventory' = inventory
        \/ inventory'.available = IF left.available = me.stock.available
                                  THEN inventory.available ELSE left.available
    BY <1>2, <2>1, <2>2, WrittenStock
  <2> QED BY <1>2, <2>3, <2>4 DEF AvailableNonNegative
<1>7. CASE CommitPart(s)
  <2>1. inventory' = Written(me.stock, IncreaseOnHand(me.stock, me.accepted), inventory)
    BY <1>7 DEF CommitPart
  <2>2. me.accepted \in Int
    BY <1>1 DEF Session
  <2>3. /\ IncreaseOnHand(me.stock, me.accepted) \in Inventory
        /\ IncreaseOnHand(me.stock, me.accepted).available = me.stock.available
    BY <1>2, <2>2, InventoryTypes
  <2>4. inventory'.available = inventory.available
    BY <1>2, <2>1, <2>3, WrittenStock
  <2> QED BY <1>2, <2>4 DEF AvailableNonNegative
<1>8. CASE CommitDelivery(s)
  <2>1. PICK now \in Session : Delivery(s, now)
    BY <1>8, CommitDeliveryEffect
  <2>2. PICK q \in Int : inventory' = DeliveredStock(now, q)
    BY <2>1 DEF Delivery
  <2>3. inventory'.available = inventory.available
    BY <1>1, <2>2, DeliveredStockKeeps
  <2> QED BY <1>2, <2>3 DEF AvailableNonNegative
<1>9. CASE DrawCode(s) \/ Abort(s) \/ MarkOwner(s) \/ CloseRfq(s)
  <2>1. inventory' = inventory
    BY <1>9 DEF DrawCode, Abort, MarkOwner, CloseRfq, vars
  <2> QED BY <1>2, <2>1 DEF AvailableNonNegative
<1> QED BY <1>4, <1>5, <1>6, <1>7, <1>8, <1>9 DEF Proceed

LEMMA ProceedCovers ==
    ASSUME TxTyped, Promised, NEW s \in Sessions, Proceed(s)
    PROVE  \E new \in Session : Becomes(s, new) /\ Covers(new)
<1> DEFINE me == sessions[s]
<1>1. TypeOK /\ Linked /\ me \in Session /\ SessionLinked(me) /\ Covers(me)
  BY SessionHolds DEF TxTyped, Promised
<1>2. Covers(Free)
  BY DEF Covers, Free
<1>3. ASSUME Becomes(s, Free)
      PROVE  \E new \in Session : Becomes(s, new) /\ Covers(new)
  BY <1>2, <1>3, FreeSession
<1>4. CASE DrawCode(s)
  <2>1. CASE me.op = "inspect"
    <3> DEFINE new == NextCode(FoundBy(me))
    <3>1. Becomes(s, new)
      BY <1>4, <2>1 DEF DrawCode
    <3>2. new \in Session /\ new.op = "inspect" /\ new.stock \in {me.stock, inventory}
      BY <1>1, <1>4, <2>1, FoundSession DEF DrawCode
    <3>4. new.stock.available >= 0
      BY <1>1, <3>2 DEF Covers, Promised, AvailableNonNegative
    <3> HIDE DEF new
    <3> QED BY <3>1, <3>2, <3>4 DEF Covers
  <2>2. CASE me.op # "inspect"
    <3> DEFINE new == NextCode(me)
    <3>1. Becomes(s, new)
      BY <1>4, <2>2 DEF DrawCode
    <3>2. me.op # "none"
      BY <1>1, <1>4 DEF DrawCode, SessionLinked
    <3>3. new \in Session /\ new = [me EXCEPT !.pc = "drawn", !.code = Table(me.op) + 1]
      BY <1>1, <2>2, <3>2, DrawnSession
    <3>4. new.op = me.op /\ new.stock = me.stock /\ new.request = me.request /\ new.ret = me.ret
      BY <1>1, <3>3 DEF Session
    <3> HIDE DEF new
    <3> QED BY <1>1, <3>1, <3>3, <3>4 DEF Covers
  <2> QED BY <2>1, <2>2
<1>5. CASE Abort(s) \/ CommitStock(s) \/ CommitReplenish(s) \/ MarkOwner(s) \/ CommitPart(s)
           \/ CloseRfq(s)
  BY <1>3, <1>5 DEF Abort, CommitStock, CommitReplenish, MarkOwner, CommitPart, CloseRfq
<1>6. CASE CommitRfq(s)
  <2> DEFINE new == [me EXCEPT !.pc = "marking"]
  <2>1. Becomes(s, new) /\ me.op \in {"split", "rfq", "order"}
    BY <1>6 DEF CommitRfq
  <2>2. new \in Session /\ new.op = me.op /\ new.stock = me.stock
    BY <1>1 DEF Session
  <2> HIDE DEF new
  <2> QED BY <1>1, <2>1, <2>2 DEF Covers
<1>7. CASE CommitDelivery(s)
  <2>1. PICK now \in Session : Delivery(s, now)
    BY <1>7, CommitDeliveryEffect
  <2> DEFINE new == [now EXCEPT !.pc = "closing"]
  <2>2. /\ Becomes(s, new) \/ Becomes(s, Free)
        /\ now.op = "inspect" /\ now.stock \in {me.stock, inventory}
    BY <2>1 DEF Delivery
  <2>3. new \in Session /\ new.op = "inspect" /\ new.stock = now.stock
    BY <2>2 DEF Session
  <2>4. now.stock.available >= 0
    BY <1>1, <2>2 DEF Covers, Promised, AvailableNonNegative
  <2> HIDE DEF new
  <2> QED BY <1>3, <2>2, <2>3, <2>4 DEF Covers
<1> QED BY <1>3, <1>4, <1>5, <1>6, <1>7 DEF Proceed

\* What one step makes of one session, the others keep what they hold.
LEMMA OneMoves ==
    ASSUME TxTyped, NEW s \in Sessions, NEW new \in Session,
           sessions' = [sessions EXCEPT ![s] = new]
    PROVE  \A t \in Sessions : sessions'[t] = IF t = s THEN new ELSE sessions[t]
BY DEF TxTyped, SessionsSound

LEMMA PromisedStep ==
    ASSUME TxTyped, Promised, Adjustments = {}, [TxNext]_txvars
    PROVE  Promised'
<1>1. ASSUME [Next]_vars
      PROVE  AvailableNonNegative'
  BY <1>1, AvailableStep DEF TxTyped, Promised
<1>2. ASSUME NEW s \in Sessions, NEW new \in Session, Covers(new), AvailableNonNegative',
             sessions' = [sessions EXCEPT ![s] = new]
      PROVE  Promised'
  BY <1>2, OneMoves DEF Promised, Covers
<1>3. CASE OtherHandlers
  BY <1>1, <1>3, OthersAreNext DEF Promised, OtherHandlers, Covers
<1>4. CASE UNCHANGED txvars
  BY <1>1, <1>4 DEF Promised, txvars, vars, Covers
<1>5. ASSUME NEW s \in Sessions, Load(s)
      PROVE  Promised'
  BY <1>1, <1>2, <1>5, LoadCovers, LoadedSession DEF Becomes
<1>6. ASSUME NEW s \in Sessions, Proceed(s)
      PROVE  Promised'
  BY <1>2, <1>6, ProceedCovers, CommitsCovered DEF Becomes
<1>7. ASSUME NEW s \in Sessions, Crash(s)
      PROVE  Promised'
  <2>1. Covers(Free)
    BY DEF Covers, Free
  <2> QED BY <1>1, <1>2, <1>7, <2>1, FreeSession DEF Crash
<1> QED BY <1>3, <1>4, <1>5, <1>6, <1>7 DEF TxNext

\* Without manual corrections, no interleaving of handlers that work on stock they read
\* earlier, and no death of one, makes the free stock negative: a handler that overwrites
\* what others wrote to the column leaves at least what its own reading left over.
THEOREM TxNoOverPromise ==
    ASSUME Adjustments = {} PROVE TxSpec => []AvailableNonNegative
<1>1. TxInit => Promised
  <2> SUFFICES ASSUME TxInit PROVE Promised
    OBVIOUS
  <2>1. Init /\ \A s \in Sessions : sessions[s] = Free
    BY DEF TxInit
  <2>2. Covers(Free)
    BY DEF Covers, Free
  <2> QED BY <2>1, <2>2, ConstantTypes DEF Init, Promised, AvailableNonNegative
<1>2. TxTyped /\ Promised /\ [TxNext]_txvars => Promised'
  BY PromisedStep
<1>3. Promised => AvailableNonNegative
  BY DEF Promised
<1> QED BY <1>1, <1>2, <1>3, TxTypeCorrect, PTL DEF TxSpec

-----------------------------------------------------------------------------
(* A notice is inspected once, although two sessions may look at it *)

InspectsNow(me) == me.op = "inspect" /\ me.pc \in {"loaded", "drawn"}

\* A session that inspects a notice is the only one, and finds no receipt until it writes
\* its own.
OneInspection ==
    /\ \A s \in Sessions :
          InspectsNow(sessions[s]) => asns[sessions[s].id].receipt = NoReceipt
    /\ \A s, t \in Sessions :
          /\ InspectsNow(sessions[s]) /\ InspectsNow(sessions[t])
          /\ sessions[s].id = sessions[t].id
          => s = t

\* What the handlers with one commit may do to receipts and to the units received.
ReceiptsKept ==
    /\ \A a \in DOMAIN asns : asns'[a].receipt \in {asns[a].receipt, NoReceipt}
    /\ \A o \in DOMAIN orders : orders'[o].received = orders[o].received

LEMMA OthersKeepReceipts ==
    ASSUME TypeOK, OtherHandlers
    PROVE  ReceiptsKept
<1> USE DEF ReceiptsKept
<1>1. CASE UNCHANGED <<orders, asns>>
  BY <1>1
<1>2. ASSUME NEW o \in DOMAIN orders, NEW row, orders' = [orders EXCEPT ![o] = row],
             row.received = orders[o].received
      PROVE  \A p \in DOMAIN orders : orders'[p].received = orders[p].received
  BY <1>2
<1>3. ASSUME NEW a \in DOMAIN asns, NEW row, asns' = [asns EXCEPT ![a] = row],
             row.receipt \in {asns[a].receipt, NoReceipt}
      PROVE  \A b \in DOMAIN asns : asns'[b].receipt \in {asns[b].receipt, NoReceipt}
  BY <1>3
<1>4. \A o \in DOMAIN orders : orders[o] \in Order
  BY OrderRow
<1>5. \A a \in DOMAIN asns : asns[a] \in Asn
  BY AsnRow
<1>6. CASE \E r \in DOMAIN rfqs : SelectVendor(r)
  <2> PICK r \in DOMAIN rfqs : SelectVendor(r)
    BY <1>6
  <2> DEFINE order == [rfq |-> r, qty |-> rfqs[r].qty, received |-> 0,
                       status |-> "Pending Acceptance", dispatched |-> 0]
  <2>1. r \in Nat /\ rfqs[r].qty \in Int
    BY RfqRow
  <2>2. order \in Order
    BY <2>1 DEF Order, OrderStatuses
  <2>3. orders' = Append(orders, order) /\ orders \in Seq(Order) /\ asns' = asns
    BY DEF SelectVendor, TypeOK
  <2> HIDE DEF order
  <2>4. \A o \in DOMAIN orders : orders'[o] = orders[o]
    BY <2>2, <2>3, RowAdded
  <2> QED BY <2>3, <2>4
<1>7. CASE \E o \in DOMAIN orders : AcceptOrder(o) \/ RejectOrder(o)
  <2> PICK o \in DOMAIN orders : AcceptOrder(o) \/ RejectOrder(o)
    BY <1>7
  <2>1. asns' = asns /\ \/ orders' = [orders EXCEPT ![o] = [orders[o] EXCEPT !.status = "Accepted"]]
                        \/ orders' = [orders EXCEPT ![o] = [orders[o] EXCEPT !.status = "Rejected"]]
    BY DEF AcceptOrder, RejectOrder
  <2>2. /\ [orders[o] EXCEPT !.status = "Accepted"].received = orders[o].received
        /\ [orders[o] EXCEPT !.status = "Rejected"].received = orders[o].received
    BY <1>4 DEF Order
  <2> QED BY <1>2, <2>1, <2>2
<1>8. CASE \E o \in DOMAIN orders, n \in Shipments : CreateAsn(o, n)
  <2> PICK o \in DOMAIN orders, n \in Shipments : CreateAsn(o, n)
    BY <1>8
  <2> DEFINE asn == [po |-> o, shipped |-> n, submitted |-> FALSE, receipt |-> NoReceipt]
  <2>1. o \in Nat /\ n \in Nat /\ NoReceipt \in GoodsReceipt
    BY OrderRow, ConstantTypes, ReceiptTypes
  <2>2. asn \in Asn
    BY <2>1 DEF Asn
  <2>3. asns' = Append(asns, asn) /\ asns \in Seq(Asn)
    BY DEF CreateAsn, TypeOK
  <2>4. orders' = [orders EXCEPT ![o] = [orders[o] EXCEPT !.status = "Ready to Ship"]]
    BY DEF CreateAsn
  <2> HIDE DEF asn
  <2>5. \A a \in DOMAIN asns : asns'[a] = asns[a]
    BY <2>2, <2>3, RowAdded
  <2>6. [orders[o] EXCEPT !.status = "Ready to Ship"].received = orders[o].received
    BY <1>4 DEF Order
  <2> QED BY <1>2, <2>4, <2>5, <2>6
<1>9. CASE \E a \in DOMAIN asns : SubmitAsn(a)
  <2> PICK a \in DOMAIN asns : SubmitAsn(a)
    BY <1>9
  <2>1. asns' = [asns EXCEPT ![a] = [asns[a] EXCEPT !.submitted = TRUE]] /\ orders' = orders
    BY DEF SubmitAsn
  <2>2. [asns[a] EXCEPT !.submitted = TRUE].receipt = asns[a].receipt
    BY <1>5 DEF Asn
  <2> QED BY <1>3, <2>1, <2>2
<1>10. CASE \E a \in DOMAIN asns, n \in Shipments : UpdateAsn(a, n) \/ ResubmitAfterRejection(a, n)
  <2> PICK a \in DOMAIN asns, n \in Shipments : UpdateAsn(a, n) \/ ResubmitAfterRejection(a, n)
    BY <1>10
  <2>1. /\ orders' = orders
        /\ \/ asns' = [asns EXCEPT ![a] = [asns[a] EXCEPT !.shipped = n]]
           \/ asns' = [asns EXCEPT ![a] = [asns[a] EXCEPT !.shipped = n, !.receipt = NoReceipt]]
    BY DEF UpdateAsn, ResubmitAfterRejection
  <2>2. /\ [asns[a] EXCEPT !.shipped = n].receipt = asns[a].receipt
        /\ [asns[a] EXCEPT !.shipped = n, !.receipt = NoReceipt].receipt = NoReceipt
    BY <1>5 DEF Asn
  <2> QED BY <1>3, <2>1, <2>2
<1>11. CASE \E q \in Quantities : CreatePurchaseRequest(q)
  BY <1>1, <1>11 DEF CreatePurchaseRequest
<1>12. CASE \E t \in DOMAIN transfers, q \in Quantities, d \in {"replenish", "writeoff"} :
               RaiseIssue(t, q, d)
  BY <1>1, <1>12 DEF RaiseIssue
<1>13. CASE \E r \in DOMAIN returns : WriteOffReturn(r)
  BY <1>1, <1>13 DEF WriteOffReturn
<1>14. CASE \E r \in DOMAIN rfqs : SubmitQuotation(r)
  BY <1>1, <1>14 DEF SubmitQuotation
<1>15. CASE \E t \in DOMAIN transfers : DispatchTransferOrder(t)
  BY <1>1, <1>15 DEF DispatchTransferOrder
<1>16. CASE \E t \in DOMAIN transfers, status \in Statuses : UpdateTransferStatus(t, status)
  BY <1>1, <1>16 DEF UpdateTransferStatus
<1>17. CASE \E delta \in Adjustments : AdjustInventory(delta)
  BY <1>1, <1>17 DEF AdjustInventory
<1> QED BY <1>6, <1>7, <1>8, <1>9, <1>10, <1>11, <1>12, <1>13, <1>14, <1>15, <1>16, <1>17
        DEF OtherHandlers

\* The one step of a stock handler that writes a receipt: that of the session's own notice,
\* with units for its own order alone.
ReceiptWritten(s) ==
    LET a == sessions[s].id
        o == asns[a].po
    IN  /\ InspectsNow(sessions[s])
        /\ a \in DOMAIN asns /\ o \in DOMAIN orders
        /\ DOMAIN asns' = DOMAIN asns
        /\ \A b \in DOMAIN asns : b # a => asns'[b] = asns[b]
        /\ \A p \in DOMAIN orders : p # o => orders'[p] = orders[p]
        /\ orders'[o].status \in {orders[o].status, "Delivered"}
        /\ \E new \in Session : Becomes(s, new) /\ ~InspectsNow(new)

LEMMA ReceiptsStep ==
    ASSUME TxTyped, NEW s \in Sessions, Load(s) \/ Proceed(s) \/ Crash(s)
    PROVE  UNCHANGED <<orders, asns>> \/ ReceiptWritten(s)
<1> DEFINE me == sessions[s]
           o == asns[me.id].po
<1>1. TypeOK /\ Linked /\ me \in Session /\ SessionLinked(me)
  BY SessionHolds DEF TxTyped
<1>2. CASE CommitPart(s)
  <2> DEFINE row == [orders[o] EXCEPT !.received = @ + me.accepted]
  <2>1. /\ InspectsNow(me) /\ me.op = "inspect"
        /\ Inspected(me)
        /\ orders' = [orders EXCEPT ![o] = row]
        /\ Becomes(s, Free)
    BY <1>2 DEF CommitPart, InspectsNow
  <2>2. me.id \in DOMAIN asns /\ o \in DOMAIN orders
    BY <1>1, <2>1, InspectionFor DEF SessionLinked
  <2>3. DOMAIN asns' = DOMAIN asns /\ \A b \in DOMAIN asns : b # me.id => asns'[b] = asns[b]
    BY <1>1, <2>1, <2>2, InspectedKeeps
  <2>4. orders[o] \in Order
    BY <1>1, <2>2, OrderRow
  <2>5. row.status = orders[o].status
    BY <2>4 DEF Order
  <2> HIDE DEF row
  <2>6. orders'[o] = row /\ \A p \in DOMAIN orders : p # o => orders'[p] = orders[p]
    BY <2>1, <2>2
  <2>7. ~InspectsNow(Free)
    BY FreeSession DEF InspectsNow
  <2> QED BY <2>1, <2>2, <2>3, <2>5, <2>6, <2>7, FreeSession DEF ReceiptWritten
<1>3. CASE CommitDelivery(s)
  <2>1. PICK now \in Session : Delivery(s, now)
    BY <1>3, CommitDeliveryEffect
  <2>2. InspectsNow(me)
    BY <1>3 DEF CommitDelivery, InspectsNow
  <2>3. now.op = "inspect" /\ now.id = me.id /\ Inspected(now)
    BY <2>1 DEF Delivery
  <2> DEFINE row == [orders[o] EXCEPT !.received = orders[o].received + now.accepted,
                                      !.status = "Delivered", !.dispatched = @ + 1]
  <2>4. orders' = [orders EXCEPT ![o] = row]
    BY <2>1, <2>3 DEF Delivery
  <2>5. me.id \in DOMAIN asns /\ o \in DOMAIN orders
    BY <1>1, <2>2, InspectionFor DEF SessionLinked, InspectsNow
  <2>6. DOMAIN asns' = DOMAIN asns /\ \A b \in DOMAIN asns : b # me.id => asns'[b] = asns[b]
    BY <1>1, <2>3, <2>5, InspectedKeeps
  <2>7. orders[o] \in Order
    BY <1>1, <2>5, OrderRow
  <2>8. row.status = "Delivered"
    BY <2>7 DEF Order
  <2> HIDE DEF row
  <2>9. orders'[o] = row /\ \A p \in DOMAIN orders : p # o => orders'[p] = orders[p]
    BY <2>4, <2>5
  <2>10. \E new \in Session : Becomes(s, new) /\ ~InspectsNow(new)
    <3> DEFINE new == [now EXCEPT !.pc = "closing"]
    <3>1. Becomes(s, new) \/ Becomes(s, Free)
      BY <2>1 DEF Delivery
    <3>2. new \in Session /\ new.pc = "closing" /\ Free.pc = "idle" /\ Free \in Session
      BY FreeSession DEF Session
    <3> HIDE DEF new
    <3> QED BY <3>1, <3>2 DEF InspectsNow
  <2> QED BY <2>2, <2>5, <2>6, <2>8, <2>9, <2>10 DEF ReceiptWritten
<1>4. CASE Load(s) \/ Crash(s) \/ DrawCode(s) \/ Abort(s)
  BY <1>4, LoadedSession DEF Crash, DrawCode, Abort, vars
<1>5. CASE CommitStock(s) \/ CommitReplenish(s) \/ CommitRfq(s) \/ MarkOwner(s) \/ CloseRfq(s)
  BY <1>5 DEF CommitStock, CommitReplenish, CommitRfq, MarkOwner, CloseRfq
<1> QED BY <1>2, <1>3, <1>4, <1>5 DEF Proceed

ContinuesInspecting(s, new) == InspectsNow(sessions[s]) /\ new.id = sessions[s].id

\* A handler under way does not turn to another notice.
LEMMA ProceedInspects ==
    ASSUME TxTyped, NEW s \in Sessions, Proceed(s)
    PROVE  \E new \in Session : /\ Becomes(s, new)
                                /\ InspectsNow(new) => ContinuesInspecting(s, new)
<1> DEFINE me == sessions[s]
<1>1. TypeOK /\ Linked /\ me \in Session /\ SessionLinked(me)
  BY SessionHolds DEF TxTyped
<1>2. CASE Becomes(s, Free)
  BY <1>2, FreeSession DEF InspectsNow
<1>3. CASE DrawCode(s)
  <2>1. CASE me.op = "inspect"
    <3> DEFINE new == NextCode(FoundBy(me))
    <3>1. Becomes(s, new) /\ me.pc = "loaded"
      BY <1>3, <2>1 DEF DrawCode
    <3>2. new \in Session /\ new.id = me.id
      BY <1>1, <1>3, <2>1, <3>1, FoundSession
    <3> HIDE DEF new
    <3> QED BY <2>1, <3>1, <3>2 DEF InspectsNow, ContinuesInspecting
  <2>2. CASE me.op # "inspect"
    <3> DEFINE new == NextCode(me)
    <3>1. Becomes(s, new)
      BY <1>3, <2>2 DEF DrawCode
    <3>2. me.op # "none"
      BY <1>1, <1>3 DEF DrawCode, SessionLinked
    <3>3. new \in Session /\ new = [me EXCEPT !.pc = "drawn", !.code = Table(me.op) + 1]
      BY <1>1, <2>2, <3>2, DrawnSession
    <3>4. new.op = me.op
      BY <1>1, <3>3 DEF Session
    <3> HIDE DEF new
    <3> QED BY <2>2, <3>1, <3>3, <3>4 DEF InspectsNow
  <2> QED BY <2>1, <2>2
<1>4. ASSUME NEW now \in Session, NEW pc \in {"marking", "closing"},
             Becomes(s, [now EXCEPT !.pc = pc])
      PROVE  \E new \in Session : Becomes(s, new) /\ ~InspectsNow(new)
  <2> DEFINE new == [now EXCEPT !.pc = pc]
  <2>1. new \in Session /\ new.pc = pc
    BY DEF Session
  <2> HIDE DEF new
  <2> QED BY <1>4, <2>1 DEF InspectsNow, new
<1>5. CASE CommitRfq(s)
  BY <1>1, <1>4, <1>5 DEF CommitRfq
<1>6. CASE CommitDelivery(s)
  <2>1. PICK now \in Session : Delivery(s, now)
    BY <1>6, CommitDeliveryEffect
  <2> QED BY <1>2, <1>4, <2>1 DEF Delivery
<1>7. CASE Abort(s) \/ CommitStock(s) \/ CommitReplenish(s) \/ MarkOwner(s) \/ CommitPart(s)
           \/ CloseRfq(s)
  BY <1>2, <1>7 DEF Abort, CommitStock, CommitReplenish, MarkOwner, CommitPart, CloseRfq
<1> QED BY <1>3, <1>5, <1>6, <1>7 DEF Proceed

\* A session that inspects, and finds no receipt, goes on finding none while others work.
LEMMA OneInspectionStep ==
    ASSUME TxTyped, NoticeSound, OneInspection, [TxNext]_txvars
    PROVE  OneInspection'
<1>1. \A a \in DOMAIN asns : a \in DOMAIN asns'
  BY TxTypedStep DEF Kept, KeptAsns
<1>2. \A s \in Sessions : /\ sessions[s] \in Session
                          /\ InspectsNow(sessions[s]) => sessions[s].id \in DOMAIN asns
  BY DEF TxTyped, SessionsSound, SessionLinked, InspectsNow
<1>3. CASE OtherHandlers
  <2>1. sessions' = sessions /\ ReceiptsKept
    BY <1>3, OthersKeepReceipts DEF OtherHandlers, TxTyped
  <2> QED BY <1>2, <2>1 DEF OneInspection, ReceiptsKept, InspectsNow
<1>4. CASE UNCHANGED txvars
  BY <1>4 DEF txvars, OneInspection, InspectsNow
<1>5. ASSUME NEW s \in Sessions, NEW new \in Session, sessions' = [sessions EXCEPT ![s] = new],
             UNCHANGED asns,
             InspectsNow(new) => /\ asns[new.id].receipt = NoReceipt
                                 /\ \/ ~Inspecting(new.id)
                                    \/ InspectsNow(sessions[s]) /\ new.id = sessions[s].id
      PROVE  OneInspection'
  <2>1. \A t \in Sessions : sessions'[t] = IF t = s THEN new ELSE sessions[t]
    BY <1>5, OneMoves
  <2>2. \A t \in Sessions : InspectsNow(sessions'[t]) => asns'[sessions'[t].id].receipt = NoReceipt
    BY <1>5, <2>1 DEF OneInspection
  <2>3. ASSUME NEW t \in Sessions, NEW u \in Sessions,
               InspectsNow(sessions'[t]), InspectsNow(sessions'[u]),
               sessions'[t].id = sessions'[u].id, t # u
        PROVE  FALSE
    <3>1. ASSUME NEW v \in Sessions, v # s, InspectsNow(new), InspectsNow(sessions[v]),
                 sessions[v].id = new.id
          PROVE  FALSE
      BY <1>5, <3>1 DEF OneInspection, Inspecting, InspectsNow
    <3>2. t # s /\ u # s => FALSE
      BY <2>1, <2>3 DEF OneInspection
    <3> QED BY <2>1, <2>3, <3>1, <3>2
  <2> QED BY <2>2, <2>3 DEF OneInspection, InspectsNow
<1>6. ASSUME NEW s \in Sessions, Load(s)
      PROVE  OneInspection'
  <2>1. UNCHANGED vars /\ \E new \in Session : Becomes(s, new) /\ Loaded(new)
    BY <1>6, LoadedSession
  <2> QED BY <1>5, <2>1 DEF Becomes, Loaded, InspectsNow, vars
<1>7. ASSUME NEW s \in Sessions, Crash(s)
      PROVE  OneInspection'
  <2>1. ~InspectsNow(Free)
    BY FreeSession DEF InspectsNow
  <2> QED BY <1>5, <1>7, <2>1, FreeSession DEF Crash, vars
<1>8. ASSUME NEW s \in Sessions, ReceiptWritten(s)
      PROVE  OneInspection'
  <2>1. PICK new \in Session : Becomes(s, new) /\ ~InspectsNow(new)
    BY <1>8 DEF ReceiptWritten
  <2>2. \A t \in Sessions : sessions'[t] = IF t = s THEN new ELSE sessions[t]
    BY <2>1, OneMoves DEF Becomes
  <2>3. \A t \in Sessions : InspectsNow(sessions'[t]) => t # s /\ sessions'[t] = sessions[t]
    BY <2>1, <2>2
  <2>4. InspectsNow(sessions[s])
    BY <1>8 DEF ReceiptWritten
  <2>5. \A t \in Sessions : InspectsNow(sessions'[t]) =>
            sessions[t].id # sessions[s].id /\ sessions[t].id \in DOMAIN asns
    BY <1>2, <2>3, <2>4 DEF OneInspection
  <2>6. \A b \in DOMAIN asns : b # sessions[s].id => asns'[b] = asns[b]
    BY <1>8 DEF ReceiptWritten
  <2> QED BY <2>3, <2>5, <2>6 DEF OneInspection, InspectsNow
<1>9. ASSUME NEW s \in Sessions, Proceed(s), UNCHANGED asns
      PROVE  OneInspection'
  <2>1. PICK new \in Session : /\ Becomes(s, new)
                               /\ InspectsNow(new) => ContinuesInspecting(s, new)
    BY <1>9, ProceedInspects
  <2>2. InspectsNow(new) => asns[new.id].receipt = NoReceipt
    BY <2>1 DEF OneInspection, ContinuesInspecting
  <2> QED BY <1>5, <1>9, <2>1, <2>2 DEF Becomes, ContinuesInspecting
<1> QED BY <1>3, <1>4, <1>6, <1>7, <1>8, <1>9, ReceiptsStep DEF TxNext

\* Of an order with a notice, inspections leave a notice filed with an accepted order.
LEMMA TxNoticeStep ==
    ASSUME TxTyped, NoticeSound, [TxNext]_txvars
    PROVE  NoticeSound'
<1>1. CASE OtherHandlers
  BY <1>1, NoticeSoundStep, OthersAreNext DEF TxTyped
<1>2. CASE UNCHANGED <<orders, asns>>
  BY <1>2 DEF NoticeSound
<1>3. ASSUME NEW s \in Sessions, ReceiptWritten(s)
      PROVE  NoticeSound'
  <2> DEFINE o == asns[sessions[s].id].po
  <2>1. /\ \A a \in DOMAIN asns : asns'[a].po = asns[a].po
        /\ \A p \in DOMAIN orders : p \in DOMAIN orders'
    BY TxTypedStep DEF Kept, KeptAsns, KeptOrders
  <2>2. /\ DOMAIN asns' = DOMAIN asns
        /\ \A p \in DOMAIN orders : p # o => orders'[p] = orders[p]
        /\ orders'[o].status \in {orders[o].status, "Delivered"}
    BY <1>3 DEF ReceiptWritten
  <2> HIDE DEF o
  <2>3. \A a \in DOMAIN asns : /\ asns[a].po \in DOMAIN orders
                               /\ orders[asns[a].po].status \in {"Ready to Ship", "Delivered"}
    BY DEF NoticeSound
  <2>4. \A a \in DOMAIN asns : orders'[asns[a].po].status \in {"Ready to Ship", "Delivered"}
    BY <2>2, <2>3
  <2> QED BY <2>1, <2>2, <2>3, <2>4 DEF NoticeSound
<1>4. ASSUME NEW s \in Sessions, Load(s) \/ Proceed(s) \/ Crash(s)
      PROVE  NoticeSound'
  BY <1>2, <1>3, <1>4, ReceiptsStep
<1>5. CASE UNCHANGED txvars
  BY <1>2, <1>5 DEF txvars
<1> QED BY <1>1, <1>4, <1>5 DEF TxNext

InspectionKept ==
    \A a \in DOMAIN asns :
        asns[a].receipt # NoReceipt /\ asns'[a].receipt # NoReceipt =>
            /\ asns'[a].receipt = asns[a].receipt
            /\ orders'[asns[a].po].received = orders[asns[a].po].received

LEMMA InspectionKeptStep ==
    ASSUME TxTyped, NoticeSound, OneInspection, [TxNext]_txvars
    PROVE  InspectionKept
<1>1. \A a \in DOMAIN asns : asns[a].po \in DOMAIN orders
  BY DEF NoticeSound
<1>2. CASE OtherHandlers
  BY <1>1, <1>2, OthersKeepReceipts DEF TxTyped, ReceiptsKept, InspectionKept
<1>3. CASE UNCHANGED <<orders, asns>>
  BY <1>3 DEF InspectionKept
<1>4. ASSUME NEW s \in Sessions, ReceiptWritten(s)
      PROVE  InspectionKept
  <2> DEFINE id == sessions[s].id
  <2>1. /\ id \in DOMAIN asns
        /\ \A b \in DOMAIN asns : b # id => asns'[b] = asns[b]
        /\ \A p \in DOMAIN orders : p # asns[id].po => orders'[p] = orders[p]
        /\ asns[id].receipt = NoReceipt
    BY <1>4 DEF ReceiptWritten, OneInspection
  <2>2. \A a \in DOMAIN asns : a # id => asns[a].po # asns[id].po
    BY <2>1 DEF NoticeSound
  <2> HIDE DEF id
  <2> QED BY <1>1, <2>1, <2>2 DEF InspectionKept
<1>5. ASSUME NEW s \in Sessions, Load(s) \/ Proceed(s) \/ Crash(s)
      PROVE  InspectionKept
  BY <1>3, <1>4, <1>5, ReceiptsStep
<1>6. CASE UNCHANGED txvars
  BY <1>3, <1>6 DEF txvars
<1> QED BY <1>2, <1>5, <1>6 DEF TxNext

\* Two people at the dock can open the same notice, and still its receipt is never
\* replaced and its units are added to its order once, whatever else runs or dies.
THEOREM NoticesInspectedOnce == TxSpec => InspectedOnce
<1>1. TxInit => NoticeSound /\ OneInspection
  <2> SUFFICES ASSUME TxInit PROVE NoticeSound /\ OneInspection
    OBVIOUS
  <2>1. Init /\ \A s \in Sessions : sessions[s] = Free
    BY DEF TxInit
  <2>2. ~InspectsNow(Free)
    BY FreeSession DEF InspectsNow
  <2> QED BY <2>1, <2>2 DEF Init, NoticeSound, OneInspection
<1>2. TxTyped /\ NoticeSound /\ OneInspection /\ [TxNext]_txvars => (NoticeSound /\ OneInspection)'
  BY TxNoticeStep, OneInspectionStep
<1>3. TxTyped /\ NoticeSound /\ OneInspection /\ [TxNext]_txvars => InspectionKept
  BY InspectionKeptStep
<1>4. TxSpec => [][InspectionKept]_txvars
  BY <1>1, <1>2, <1>3, TxTypeCorrect, PTL DEF TxSpec
<1> QED BY <1>4 DEF InspectedOnce, InspectionKept

-----------------------------------------------------------------------------
(* Reservations, with handlers at work at the same time *)

LEMMA OthersReserveNothing ==
    ASSUME OtherHandlers
    PROVE  reservations' = reservations
BY DEF OtherHandlers, CreatePurchaseRequest, RaiseIssue, WriteOffReturn, SubmitQuotation,
       SelectVendor, AcceptOrder, RejectOrder, CreateAsn, SubmitAsn, UpdateAsn,
       ResubmitAfterRejection, DispatchTransferOrder, UpdateTransferStatus, AdjustInventory

\* Only the commit of an RFQ makes a reservation.
LEMMA TxReservationsStep ==
    ASSUME [TxNext]_txvars
    PROVE  NoNewReservation \/ \E s \in Sessions : CommitRfq(s)
<1> USE DEF NoNewReservation
<1>1. CASE OtherHandlers
  BY <1>1, OthersReserveNothing
<1>2. CASE UNCHANGED txvars
  BY <1>2 DEF txvars
<1>3. ASSUME NEW s \in Sessions, Load(s) \/ DrawCode(s) \/ Abort(s) \/ Crash(s)
      PROVE  NoNewReservation
  BY <1>3 DEF Load, LoadRequest, LoadReturn, LoadNotice, DrawCode, Abort, Crash, vars
<1>4. ASSUME NEW s \in Sessions,
             CommitStock(s) \/ CommitReplenish(s) \/ MarkOwner(s) \/ CommitPart(s)
      PROVE  NoNewReservation
  BY <1>4 DEF CommitStock, CommitReplenish, MarkOwner, CommitPart
<1>5. ASSUME NEW s \in Sessions, CommitDelivery(s) \/ CloseRfq(s)
      PROVE  NoNewReservation
  BY <1>5 DEF CommitDelivery, CloseRfq, Close
<1> QED BY <1>1, <1>2, <1>3, <1>4, <1>5 DEF TxNext, Proceed

\* What the commit of an RFQ reserves, for whom and next to which RFQ.
LEMMA CommitRfqReserves ==
    ASSUME TxTyped, NEW s \in Sessions, CommitRfq(s), NEW h \in reservations', h \notin reservations
    PROVE  /\ h.id = Len(rfqs) + 1
           /\ OwnerExists(h.owner)'
           /\ h.id \in DOMAIN rfqs'
           /\ rfqs'[h.id].owner = h.owner
           /\ rfqs'[h.id].qty = h.vendor
           /\ h.total = Wanted(h.owner)'
           /\ h.reserved + h.vendor = h.total
<1> DEFINE me == sessions[s]
<1>1. TypeOK /\ Linked /\ me \in Session /\ SessionLinked(me) /\ Kept
  BY SessionHolds, TxTypedStep DEF TxTyped, TxNext, Proceed
<1>2. /\ me.op \in {"split", "rfq", "order"} /\ me.pc = "drawn" /\ Unique(me)
      /\ rfqs' = Append(rfqs, NewRfq(OwnerOf(me), Shortfall(me)))
      /\ reservations' = reservations \cup Taken(me)
  BY DEF CommitRfq
<1>3. me.stock.available \in Int
  BY <1>1 DEF Session, Inventory
<1>4. OwnerOf(me) \in Owner /\ WholeQuantity(me) \in Int
  BY <1>1, <1>2, RaisedFor
<1>5. PICK owner \in Owner, free \in Int, q \in Int :
         owner = OwnerOf(me) /\ free = me.stock.available /\ q = WholeQuantity(me)
  BY <1>3, <1>4
<1> DEFINE new == NewReservation(Len(rfqs) + 1, owner, free, q)
<1>6. me.code = Len(rfqs) + 1
  BY <1>1, <1>2, UniqueIsNext DEF Table
<1>7. /\ OwnerExists(owner) /\ q = Wanted(owner)
      /\ Shortfall(me) = IF me.op = "rfq" THEN q ELSE q - free
      /\ \/ Taken(me) = {}
         \/ me.op \in {"split", "order"} /\ Taken(me) = {NewReservation(me.code, owner, free, q)}
  BY <1>1, <1>2, <1>5, RaisedFor
<1>8. h = new /\ Shortfall(me) = q - free
  BY <1>2, <1>6, <1>7
<1>9. rfqs' = Append(rfqs, NewRfq(owner, q - free))
  BY <1>2, <1>5, <1>8
<1>10. /\ OwnerExists(owner)'
       /\ new.owner = owner
       /\ new.id \in DOMAIN rfqs'
       /\ new.id = Len(rfqs) + 1
       /\ rfqs'[new.id].owner = new.owner
       /\ rfqs'[new.id].qty = new.vendor
       /\ Wanted(owner)' = new.total
       /\ new.reserved + new.vendor = new.total
  BY <1>1, <1>7, <1>9, ReservationMade
<1> HIDE DEF new
<1> QED BY <1>8, <1>10

LEMMA TxReservationSoundStep ==
    ASSUME TxTyped, ReservationSound, [TxNext]_txvars
    PROVE  ReservationSound'
<1>1. Kept
  BY TxTypedStep
<1>2. \A h \in reservations :
          /\ OwnerExists(h.owner)'
          /\ h.id \in DOMAIN rfqs'
          /\ rfqs'[h.id].owner = h.owner
          /\ rfqs'[h.id].qty = h.vendor
          /\ h.total = Wanted(h.owner)'
          /\ h.reserved + h.vendor = h.total
  BY <1>1, ReservationStays
<1>3. CASE NoNewReservation
  BY <1>2, <1>3 DEF NoNewReservation, ReservationSound
<1>4. ASSUME NEW s \in Sessions, CommitRfq(s)
      PROVE  ReservationSound'
  BY <1>2, <1>4, CommitRfqReserves DEF ReservationSound
<1> QED BY <1>3, <1>4, TxReservationsStep

\* A reservation and the RFQ raised with it add up to what their owner asked for, although
\* the handler that wrote them worked with rows and stock that others changed since.
THEOREM TxReservationsSound == TxSpec => []ReservationSound
<1>1. TxInit => ReservationSound
  BY DEF TxInit, Init, ReservationSound
<1>2. TxTyped /\ ReservationSound /\ [TxNext]_txvars => ReservationSound'
  BY TxReservationSoundStep
<1> QED BY <1>1, <1>2, TxTypeCorrect, PTL DEF TxSpec

-----------------------------------------------------------------------------
(* Deliveries in two commits release what was held back *)

\* A session about to deliver found every reservation made with the RFQ of its order.
FindsHeld ==
    \A s \in Sessions :
        sessions[s].op = "inspect" /\ sessions[s].pc = "drawn" =>
            \A h \in reservations :
                h.id = orders[asns[sessions[s].id].po].rfq => h \in sessions[s].held

Releasing == ReservationSound /\ FindsHeld /\ (~cut => ReleaseOwed)

\* The handlers with one commit deliver nothing.
LEMMA OthersDeliverNothing ==
    ASSUME TypeOK, Linked, OtherHandlers
    PROVE  NoNewDelivery
<1>1. ASSUME NEW a \in DOMAIN asns, NEW acc \in Nat, NEW rej \in Nat,
             ReceiveAndDispatch(a, acc, rej)
      PROVE  FALSE
  <2>1. /\ asns[a].receipt = NoReceipt
        /\ asns' = [asns EXCEPT ![a].receipt = NewReceipt(acc, rej)]
    BY <1>1 DEF ReceiveAndDispatch
  <2>2. asns[a] \in Asn
    BY AsnRow
  <2>3. asns'[a].receipt = NewReceipt(acc, rej)
    BY <2>1, <2>2 DEF Asn
  <2>4. NewReceipt(acc, rej) # NoReceipt
    BY DEF NewReceipt, NoReceipt, InspectionStatus
  <2> QED BY <2>1, <2>3, <2>4, OthersKeepReceipts DEF ReceiptsKept
<1>2. [Next]_vars
  BY OthersAreNext
<1> QED BY <1>1, <1>2, DeliveryStep

\* Every reservation made with the RFQ of an order is made for the owner of the order.
LEMMA HeldForOwner ==
    ASSUME TxTyped, ReservationSound, NEW me \in Session, me.op = "inspect",
           me.id \in DOMAIN asns, NEW h \in reservations, h.id = orders[asns[me.id].po].rfq
    PROVE  h \in ReservationsOf(OwnerOf(me))
<1>1. OwnerOf(me) = rfqs[h.id].owner
  BY InspectionFor DEF TxTyped
<1> QED BY <1>1 DEF ReservationSound, ReservationsOf

\* A session that stands before its delivery drew its code in this step, or stood there.
LEMMA DrawnNow ==
    ASSUME TxTyped, NEW s \in Sessions, Load(s) \/ Proceed(s) \/ Crash(s)
    PROVE  \E new \in Session :
              /\ sessions' = [sessions EXCEPT ![s] = new]
              /\ new.op = "inspect" /\ new.pc = "drawn" =>
                    /\ UNCHANGED vars
                    /\ new.id \in DOMAIN asns
                    /\ new.held = ReservationsOf(OwnerOf(new))
<1> DEFINE me == sessions[s]
           Before(new) == ~(new.op = "inspect" /\ new.pc = "drawn")
<1>1. TypeOK /\ Linked /\ me \in Session /\ SessionLinked(me)
  BY SessionHolds DEF TxTyped
<1>2. Before(Free)
  BY FreeSession
<1>3. CASE sessions' = [sessions EXCEPT ![s] = Free]
  BY <1>2, <1>3, FreeSession
<1>4. CASE Load(s)
  <2>1. PICK new \in Session : Becomes(s, new) /\ Loaded(new)
    BY <1>4, LoadedSession
  <2> QED BY <2>1 DEF Becomes, Loaded
<1>5. CASE DrawCode(s)
  <2>1. CASE me.op = "inspect"
    <3> DEFINE new == NextCode(FoundBy(me))
    <3>1. Becomes(s, new) /\ me.pc = "loaded" /\ UNCHANGED vars
      BY <1>5, <2>1 DEF DrawCode
    <3>2. /\ new \in Session /\ new.id = me.id /\ me.id \in DOMAIN asns
          /\ new.held = ReservationsOf(OwnerOf(new))
      BY <1>1, <2>1, <3>1, FoundSession DEF SessionLinked
    <3> HIDE DEF new
    <3> QED BY <3>1, <3>2 DEF Becomes
  <2>2. CASE me.op # "inspect"
    <3> DEFINE new == NextCode(me)
    <3>1. Becomes(s, new)
      BY <1>5, <2>2 DEF DrawCode
    <3>2. me.op # "none"
      BY <1>1, <1>5 DEF DrawCode, SessionLinked
    <3>3. new \in Session /\ new = [me EXCEPT !.pc = "drawn", !.code = Table(me.op) + 1]
      BY <1>1, <2>2, <3>2, DrawnSession
    <3>4. new.op = me.op
      BY <1>1, <3>3 DEF Session
    <3> HIDE DEF new
    <3> QED BY <2>2, <3>1, <3>3, <3>4 DEF Becomes
  <2> QED BY <2>1, <2>2
<1>6. ASSUME NEW now \in Session, NEW pc \in {"marking", "closing"},
             Becomes(s, [now EXCEPT !.pc = pc])
      PROVE  \E new \in Session : sessions' = [sessions EXCEPT ![s] = new] /\ Before(new)
  <2> DEFINE new == [now EXCEPT !.pc = pc]
  <2>1. new \in Session /\ new.pc = pc /\ sessions' = [sessions EXCEPT ![s] = new]
    BY <1>6 DEF Session, Becomes
  <2> HIDE DEF new
  <2> QED BY <2>1
<1>7. CASE CommitRfq(s)
  BY <1>1, <1>6, <1>7 DEF CommitRfq
<1>8. CASE CommitDelivery(s)
  <2>1. PICK now \in Session : Delivery(s, now)
    BY <1>8, CommitDeliveryEffect
  <2> QED BY <1>3, <1>6, <2>1 DEF Delivery, Becomes
<1>9. CASE Abort(s) \/ CommitStock(s) \/ CommitReplenish(s) \/ MarkOwner(s) \/ CommitPart(s)
           \/ CloseRfq(s) \/ Crash(s)
  BY <1>3, <1>9 DEF Abort, CommitStock, CommitReplenish, MarkOwner, CommitPart, CloseRfq, Crash,
        Becomes
<1> QED BY <1>4, <1>5, <1>7, <1>8, <1>9 DEF Proceed

LEMMA FindsHeldStep ==
    ASSUME TxTyped, ReservationSound, FindsHeld, [TxNext]_txvars
    PROVE  FindsHeld'
<1>1. Kept /\ TypeOK /\ Linked
  BY TxTypedStep DEF TxTyped
<1>2. \A h \in reservations' : h \in reservations \/ h.id = Len(rfqs) + 1
  BY TxReservationsStep, CommitRfqReserves DEF NoNewReservation
<1>3. Len(rfqs) + 1 \notin DOMAIN rfqs
  BY <1>1, LenProperties DEF TypeOK
<1>4. ASSUME NEW me \in Session, me.op = "inspect", me.id \in DOMAIN asns,
             NEW h \in reservations', h.id = orders'[asns'[me.id].po].rfq
      PROVE  h \in reservations /\ h.id = orders[asns[me.id].po].rfq
  <2>1. h.id = orders[asns[me.id].po].rfq /\ h.id \in DOMAIN rfqs
    BY <1>1, <1>4, InspectionStays, InspectionFor
  <2> QED BY <1>2, <1>3, <2>1
<1>5. ASSUME NEW t \in Sessions, sessions'[t] = sessions[t],
             sessions'[t].op = "inspect", sessions'[t].pc = "drawn",
             NEW h \in reservations', h.id = orders'[asns'[sessions'[t].id].po].rfq
      PROVE  h \in sessions'[t].held
  <2>1. PICK me \in Session : me = sessions[t] /\ me = sessions'[t] /\ me.id \in DOMAIN asns
    BY <1>5 DEF TxTyped, SessionsSound, SessionLinked
  <2>2. h \in reservations /\ h.id = orders[asns[me.id].po].rfq
    BY <1>4, <1>5, <2>1
  <2> QED BY <1>5, <2>1, <2>2 DEF FindsHeld
<1>6. CASE sessions' = sessions
  BY <1>5, <1>6 DEF FindsHeld
<1>7. ASSUME NEW s \in Sessions, Load(s) \/ Proceed(s) \/ Crash(s)
      PROVE  FindsHeld'
  <2>1. PICK new \in Session :
           /\ sessions' = [sessions EXCEPT ![s] = new]
           /\ new.op = "inspect" /\ new.pc = "drawn" =>
                 /\ UNCHANGED vars
                 /\ new.id \in DOMAIN asns
                 /\ new.held = ReservationsOf(OwnerOf(new))
    BY <1>7, DrawnNow
  <2>2. \A t \in Sessions : sessions'[t] = IF t = s THEN new ELSE sessions[t]
    BY <2>1, OneMoves
  <2>3. ASSUME new.op = "inspect", new.pc = "drawn",
               NEW h \in reservations', h.id = orders'[asns'[new.id].po].rfq
        PROVE  h \in new.held
    <3>1. h \in reservations /\ h.id = orders[asns[new.id].po].rfq
      BY <2>1, <2>3 DEF vars
    <3> QED BY <2>1, <2>3, <3>1, HeldForOwner
  <2>4. ASSUME NEW t \in Sessions, sessions'[t].op = "inspect", sessions'[t].pc = "drawn",
               NEW h \in reservations', h.id = orders'[asns'[sessions'[t].id].po].rfq
        PROVE  h \in sessions'[t].held
    <3>1. CASE t = s
      <4>1. sessions'[t] = new
        BY <2>2, <3>1
      <4> QED BY <2>3, <2>4, <4>1
    <3>2. CASE t # s
      <4>1. sessions'[t] = sessions[t]
        BY <2>2, <3>2
      <4> QED BY <1>5, <2>4, <4>1
    <3> QED BY <3>1, <3>2
  <2> QED BY <2>4 DEF FindsHeld
<1>8. CASE OtherHandlers \/ UNCHANGED txvars
  BY <1>6, <1>8 DEF OtherHandlers, txvars
<1> QED BY <1>7, <1>8 DEF TxNext

\* Some session is about to release a reservation.
Releases(h) == \E s \in Sessions : sessions[s].pc = "closing" /\ h \in sessions[s].held

\* It goes on being about to, while another session moves.
LEMMA StillReleases ==
    ASSUME TxTyped, NEW h, Releases(h), NEW s \in Sessions,
           ~(sessions[s].pc = "closing" /\ h \in sessions[s].held),
           \A t \in Sessions : t # s => sessions'[t] = sessions[t]
    PROVE  Releases(h)'
<1>1. PICK t \in Sessions : sessions[t].pc = "closing" /\ h \in sessions[t].held
  BY DEF Releases
<1> QED BY <1>1 DEF Releases

LEMMA DeliveryOwes ==
    ASSUME TxTyped, ReservationSound, FindsHeld, ReleaseOwed, NEW s \in Sessions, CommitDelivery(s)
    PROVE  ReleaseOwed'
<1>1. PICK me \in Session : Delivery(s, me)
  BY CommitDeliveryEffect
<1> DEFINE po == asns[me.id].po
           row == [orders[po] EXCEPT !.received = orders[po].received + me.accepted,
                                     !.status = "Delivered", !.dispatched = @ + 1]
           closing == [me EXCEPT !.pc = "closing"]
<1>2. /\ me.op = "inspect" /\ me.pc = "drawn" /\ me.id \in DOMAIN asns
      /\ me = sessions[s] \/ me.held = ReservationsOf(OwnerOf(me))
      /\ orders' = [orders EXCEPT ![po] = row]
      /\ \/ Becomes(s, closing) /\ reservations' = reservations
         \/ Becomes(s, Free) /\ reservations' = reservations \ me.held
  BY <1>1 DEF Delivery, Close, SessionLinked
<1>3. /\ closing \in Session /\ closing.pc = "closing" /\ closing.held = me.held
  BY DEF Session
<1>4. \A h \in reservations : h.id = orders[po].rfq => h \in me.held
  BY <1>2, HeldForOwner DEF FindsHeld
<1>5. \A o \in DOMAIN orders' : /\ o \in DOMAIN orders
                                /\ orders'[o].rfq = orders[o].rfq
                                /\ o # po => orders'[o] = orders[o]
  <2>1. orders[po] \in Order
    BY <1>2, InspectionFor, OrderRow DEF TxTyped
  <2>2. row.rfq = orders[po].rfq
    BY <2>1 DEF Order
  <2> HIDE DEF row, po
  <2> QED BY <1>2, <2>2
<1>6. \A t \in Sessions : t # s => sessions'[t] = sessions[t]
  BY <1>2, <1>3, FreeSession, OneMoves DEF Becomes
<1>7. Becomes(s, closing) => sessions'[s] = closing
  BY <1>3, OneMoves DEF Becomes
<1>8. sessions[s].pc # "closing"
  BY DEF CommitDelivery
<1> HIDE DEF po, row, closing
<1>9. ASSUME NEW h \in reservations', NEW o \in DOMAIN orders', orders'[o].rfq = h.id,
             orders'[o].status = "Delivered"
      PROVE  Releases(h)'
  <2>1. h \in reservations /\ o \in DOMAIN orders /\ orders[o].rfq = h.id
    BY <1>2, <1>5, <1>9
  <2>2. CASE o = po
    <3>1. h \in me.held
      BY <1>4, <2>1, <2>2
    <3>2. sessions'[s] = closing
      BY <1>2, <1>7, <1>9, <3>1
    <3> QED BY <1>3, <3>1, <3>2 DEF Releases
  <2>3. CASE o # po
    <3>1. orders[o].status = "Delivered"
      BY <1>5, <1>9, <2>3
    <3>2. Releases(h)
      BY <2>1, <3>1 DEF ReleaseOwed, Releases
    <3> QED BY <1>6, <1>8, <3>2, StillReleases
  <2> QED BY <2>2, <2>3
<1> QED BY <1>9 DEF ReleaseOwed, Releases

LEMMA ReleasingStep ==
    ASSUME TxTyped, Releasing, [TxNext]_txvars
    PROVE  Releasing'
<1>1. TypeOK /\ Linked /\ ReservationSound /\ FindsHeld /\ Kept
  BY TxTypedStep DEF TxTyped, Releasing
<1>2. ReservationSound' /\ FindsHeld'
  BY <1>1, TxReservationSoundStep, FindsHeldStep
<1>3. \A o \in DOMAIN orders : orders[o].rfq \in DOMAIN rfqs /\ orders[o].rfq # Len(rfqs) + 1
  BY <1>1, LenProperties DEF TypeOK, Linked
<1>4. ASSUME NEW h \in reservations, NEW o \in DOMAIN orders, orders[o].rfq = h.id,
             orders[o].status = "Delivered", ~cut
      PROVE  Releases(h)
  BY <1>4 DEF Releasing, ReleaseOwed, Releases
<1>5. ASSUME NoNewDelivery, NoNewReservation, UNCHANGED <<sessions, cut>>
      PROVE  ~cut' => ReleaseOwed'
  BY <1>1, <1>4, <1>5 DEF NoNewDelivery, NoNewReservation, Kept, KeptOrders, ReleaseOwed, Releases
<1>6. CASE OtherHandlers
  <2>1. NoNewDelivery /\ NoNewReservation
    BY <1>1, <1>6, OthersDeliverNothing, OthersReserveNothing DEF NoNewReservation
  <2>2. UNCHANGED <<sessions, cut>>
    BY <1>6 DEF OtherHandlers
  <2> QED BY <1>2, <1>5, <2>1, <2>2 DEF Releasing
<1>7. CASE UNCHANGED txvars
  <2>1. NoNewDelivery /\ NoNewReservation
    BY <1>7 DEF txvars, NoNewDelivery, NoNewReservation
  <2>2. UNCHANGED <<sessions, cut>>
    BY <1>7 DEF txvars
  <2> QED BY <1>2, <1>5, <2>1, <2>2 DEF Releasing
\* A step of one session that delivers nothing, and releases what it lets go of.
<1>8. ASSUME NEW s \in Sessions, NEW new \in Session, sessions' = [sessions EXCEPT ![s] = new],
             ~cut' => ~cut,
             NoNewDelivery,
             \A h \in reservations' : h \in reservations \/ h.id = Len(rfqs) + 1,
             DOMAIN orders' = DOMAIN orders,
             ~cut' /\ sessions[s].pc = "closing" => reservations' \cap sessions[s].held = {}
      PROVE  ~cut' => ReleaseOwed'
  <2> SUFFICES ASSUME ~cut', NEW h \in reservations', NEW o \in DOMAIN orders',
                      orders'[o].rfq = h.id, orders'[o].status = "Delivered"
               PROVE  Releases(h)'
    BY DEF ReleaseOwed, Releases
  <2>1. /\ o \in DOMAIN orders /\ orders[o].rfq = h.id /\ orders[o].status = "Delivered"
    BY <1>1, <1>8 DEF NoNewDelivery, Kept, KeptOrders
  <2>2. h \in reservations
    BY <1>3, <1>8, <2>1
  <2>3. Releases(h)
    BY <1>4, <1>8, <2>1, <2>2
  <2>4. \A t \in Sessions : t # s => sessions'[t] = sessions[t]
    BY <1>8, OneMoves
  <2> QED BY <1>8, <2>3, <2>4, StillReleases
<1>9. ASSUME NEW s \in Sessions, Load(s) \/ Proceed(s) \/ Crash(s)
      PROVE  ~cut' => ReleaseOwed'
  <2>1. CASE CommitDelivery(s)
    <3>1. cut' = cut
      BY <2>1 DEF CommitDelivery, Becomes
    <3> QED BY <1>1, <2>1, <3>1, DeliveryOwes DEF Releasing
  <2>2. PICK new \in Session : sessions' = [sessions EXCEPT ![s] = new]
    BY <1>9, DrawnNow
  <2>3. ASSUME orders' = orders
        PROVE  NoNewDelivery /\ DOMAIN orders' = DOMAIN orders
    BY <2>3 DEF NoNewDelivery
  <2>4. \A h \in reservations' : h \in reservations \/ h.id = Len(rfqs) + 1
    BY <1>9, TxReservationsStep, CommitRfqReserves DEF NoNewReservation, TxNext
  <2>5. CASE Load(s) \/ DrawCode(s) \/ Abort(s) \/ CommitStock(s) \/ CommitReplenish(s)
             \/ CommitRfq(s) \/ MarkOwner(s)
    <3>1. orders' = orders /\ sessions[s].pc # "closing" /\ cut' = cut
      BY <2>5, LoadedSession DEF DrawCode, Abort, CommitStock, CommitReplenish, CommitRfq,
            MarkOwner, Becomes, vars
    <3> QED BY <1>8, <2>2, <2>3, <2>4, <3>1
  <2>6. CASE CommitPart(s)
    <3> DEFINE o == asns[sessions[s].id].po
               row == [orders[o] EXCEPT !.received = @ + sessions[s].accepted]
    <3>1. /\ sessions[s].pc = "loaded" /\ sessions[s].op = "inspect" /\ cut' = cut
          /\ orders' = [orders EXCEPT ![o] = row]
      BY <2>6 DEF CommitPart, Becomes
    <3>2. o \in DOMAIN orders /\ orders[o] \in Order
      BY <1>1, <3>1, SessionHolds, InspectionFor, OrderRow DEF SessionLinked
    <3>3. row.status = orders[o].status
      BY <3>2 DEF Order
    <3> HIDE DEF o, row
    <3>4. NoNewDelivery /\ DOMAIN orders' = DOMAIN orders
      BY <3>1, <3>2, <3>3 DEF NoNewDelivery
    <3> QED BY <1>8, <2>2, <2>4, <3>1, <3>4
  <2>7. CASE CloseRfq(s)
    <3>1. /\ orders' = orders /\ cut' = cut
          /\ reservations' = reservations \ sessions[s].held
      BY <2>7 DEF CloseRfq, Close, Becomes
    <3> QED BY <1>8, <2>2, <2>3, <2>4, <3>1
  <2>8. CASE Crash(s)
    <3>1. orders' = orders /\ (~cut' => ~cut /\ sessions[s].pc # "closing")
      BY <2>8 DEF Crash, vars
    <3> QED BY <1>8, <2>2, <2>3, <2>4, <3>1
  <2> QED BY <1>9, <2>1, <2>5, <2>6, <2>7, <2>8 DEF Proceed
<1> QED BY <1>2, <1>6, <1>7, <1>9 DEF Releasing, TxNext

\* What is held back for an RFQ whose order is delivered is about to be released by the
\* session that delivered, unless a handler died between its two commits.
THEOREM ReleasedUnlessCut == TxSpec => [](~cut => ReleaseOwed)
<1>1. TxInit => Releasing
  <2> SUFFICES ASSUME TxInit PROVE Releasing
    OBVIOUS
  <2>1. Init /\ \A s \in Sessions : sessions[s] = Free
    BY DEF TxInit
  <2> QED BY <2>1, FreeSession DEF Init, Releasing, ReservationSound, FindsHeld, ReleaseOwed
<1>2. TxTyped /\ Releasing /\ [TxNext]_txvars => Releasing'
  BY ReleasingStep
<1>3. Releasing => (~cut => ReleaseOwed)
  BY DEF Releasing
<1> QED BY <1>1, <1>2, <1>3, TxTypeCorrect, PTL DEF TxSpec

LEMMA NeverCut ==
    ASSUME Crashes = FALSE PROVE TxSpec => [](cut = FALSE)
<1>1. TxInit => cut = FALSE
  BY DEF TxInit
<1>2. cut = FALSE /\ [TxNext]_txvars => (cut = FALSE)'
  <2> SUFFICES ASSUME cut = FALSE, [TxNext]_txvars
               PROVE  cut' = cut
    OBVIOUS
  <2>1. CASE OtherHandlers \/ UNCHANGED txvars
    BY <2>1 DEF OtherHandlers, txvars
  <2>2. ASSUME NEW s \in Sessions, Load(s) \/ Proceed(s) \/ Crash(s)
        PROVE  cut' = cut
    BY <2>2 DEF Load, LoadRequest, LoadReturn, LoadNotice, Proceed, DrawCode, Abort, CommitStock,
          CommitReplenish, CommitRfq, MarkOwner, CommitPart, CommitDelivery, CloseRfq, Crash,
          Becomes
  <2> QED BY <2>1, <2>2 DEF TxNext
<1> QED BY <1>1, <1>2, PTL DEF TxSpec

\* If none dies, it is always about to be released.
THEOREM AlwaysReleased ==
    ASSUME Crashes = FALSE PROVE TxSpec => []ReleaseOwed
<1>1. TxSpec => [](cut = FALSE)
  BY NeverCut
<1>2. TxSpec => [](~cut => ReleaseOwed)
  BY ReleasedUnlessCut
<1>3. cut = FALSE /\ (~cut => ReleaseOwed) => ReleaseOwed
  OBVIOUS
<1> QED BY <1>1, <1>2, <1>3, PTL

-----------------------------------------------------------------------------
(* The handlers taken apart, run one after the other: they do what those of   *)
(* Fulfilment do                                                              *)

\* A row that nobody else wrote since it was read becomes what the handler made of it.
LEMMA WrittenAlone ==
    ASSUME NEW loaded, NEW new, new = [c \in DOMAIN loaded |-> new[c]]
    PROVE  Written(loaded, new, loaded) = new
<1>1. Written(loaded, new, loaded) = [c \in DOMAIN loaded |-> new[c]]
  BY DEF Written
<1> QED BY <1>1

LEMMA StockAlone ==
    ASSUME NEW loaded \in Inventory, NEW new \in Inventory
    PROVE  Written(loaded, new, loaded) = new
<1>1. new = [c \in DOMAIN loaded |-> new[c]]
  BY DEF Inventory
<1> QED BY <1>1, WrittenAlone

LEMMA ReturnAlone ==
    ASSUME NEW loaded \in Return, NEW new \in Return
    PROVE  Written(loaded, new, loaded) = new
<1>1. new = [c \in DOMAIN loaded |-> new[c]]
  BY DEF Return
<1> QED BY <1>1, WrittenAlone

LEMMA RequestAlone ==
    ASSUME NEW loaded \in Request, NEW new \in Request
    PROVE  WrittenRequest(loaded, new, loaded) = new
<1>1. new = [c \in DOMAIN loaded |-> new[c]]
  BY DEF Request
<1>2. Written(loaded, new, loaded) = new
  BY <1>1, WrittenAlone
<1>3. loaded.ref \in Ref /\ new.ref \in Ref
  BY DEF Request
<1>4. new.ref = [c \in DOMAIN loaded.ref |-> new.ref[c]]
  BY <1>3 DEF Ref
<1>5. Written(loaded.ref, new.ref, loaded.ref) = new.ref
  BY <1>4, WrittenAlone
<1>6. WrittenRequest(loaded, new, loaded) = [new EXCEPT !.ref = new.ref]
  BY <1>2, <1>5 DEF WrittenRequest
<1>7. [new EXCEPT !.ref = new.ref] = new
  BY DEF Request
<1> QED BY <1>6, <1>7

\* What a session alone at work holds before it commits is what the tables hold, and what
\* it checked when it read them is still so.
RequestCurrent(me) ==
    /\ me.request = requests[me.id]
    /\ MayFulfil(me.id)
    /\ me.op = "stock" => CanReserve(me.request.qty)
ReturnCurrent(me) ==
    /\ me.ret = returns[me.id]
    /\ MayResolve(me.id)
    /\ me.ret.decision = "replenish"
    /\ me.op = "replenish" <=> CanReserve(me.ret.qty)
NoticeCurrent(me) ==
    /\ asns[me.id].receipt = NoReceipt
    /\ Counted(me.id, me.accepted, me.rejected)
    /\ me.accepted \in 0..MaxCount
    /\ me.rejected \in 0..MaxCount
DeliveryCurrent(me) ==
    /\ me.held = ReservationsOf(OwnerOf(me))
    /\ OwnerOf(me).kind = "request" => me.request = requests[OwnerOf(me).id]
Current(me) ==
    /\ me.stock = inventory
    /\ ForRequest(me.op) => RequestCurrent(me)
    /\ ForReturn(me.op) => ReturnCurrent(me)
    /\ me.op = "inspect" => NoticeCurrent(me)
    /\ me.op = "inspect" /\ me.pc = "drawn" => DeliveryCurrent(me)

Writes(me) == me.pc \in {"loaded", "drawn"}
UpToDate == \A s \in Sessions : Writes(sessions[s]) => Current(sessions[s])

OneAtATime == (\A s, t \in Sessions : s = t) /\ Alone = TRUE

LEMMA LoadedCurrent ==
    ASSUME TxTyped, NEW s \in Sessions, Load(s)
    PROVE  \E new : Becomes(s, new) /\ Current(new) /\ UNCHANGED vars
<1>1. TypeOK /\ inventory \in Inventory
  BY DEF TxTyped, TypeOK
<1>2. CASE \E p \in DOMAIN requests, op \in {"stock", "split", "rfq"} : LoadRequest(s, p, op)
  <2>1. PICK p \in DOMAIN requests, op \in {"stock", "split", "rfq"} : LoadRequest(s, p, op)
    BY <1>2
  <2> DEFINE new == [Free EXCEPT !.pc = "loaded", !.op = op, !.id = p,
                                 !.stock = inventory, !.request = requests[p]]
  <2>2. /\ new.pc = "loaded" /\ new.op = op /\ new.id = p
        /\ new.request = requests[p] /\ new.stock = inventory
    BY FreeSession DEF Session
  <2>3. Becomes(s, new) /\ UNCHANGED vars
    BY <2>1 DEF LoadRequest
  <2>4. MayFulfil(p) /\ (op = "stock" => CanReserve(requests[p].qty))
    BY <2>1 DEF LoadRequest
  <2> HIDE DEF new
  <2>5. Current(new)
    BY <2>2, <2>4 DEF Current, RequestCurrent, ForRequest, ForReturn
  <2> QED BY <2>3, <2>5
<1>3. CASE \E r \in DOMAIN returns : LoadReturn(s, r)
  <2>1. PICK r \in DOMAIN returns : LoadReturn(s, r)
    BY <1>3
  <2> DEFINE op == IF CanReserve(returns[r].qty) THEN "replenish" ELSE "order"
             new == [Free EXCEPT !.pc = "loaded", !.id = r, !.stock = inventory,
                                 !.ret = returns[r], !.op = op]
  <2>2. Becomes(s, new) /\ UNCHANGED vars
    BY <2>1 DEF LoadReturn
  <2>3. MayResolve(r) /\ returns[r].decision = "replenish"
    BY <2>1 DEF LoadReturn
  <2>4. op \in {"replenish", "order"} /\ (op = "replenish" <=> CanReserve(returns[r].qty))
    OBVIOUS
  <2> HIDE DEF op
  <2>5. /\ new.pc = "loaded" /\ new.op = op /\ new.id = r
        /\ new.ret = returns[r] /\ new.stock = inventory
    BY FreeSession DEF Session
  <2> HIDE DEF new
  <2>6. Current(new)
    BY <2>3, <2>4, <2>5 DEF Current, ReturnCurrent, ForRequest, ForReturn
  <2> QED BY <2>2, <2>6
<1>4. CASE \E a \in DOMAIN asns, acc \in 0..MaxCount, rej \in 0..MaxCount :
              LoadNotice(s, a, acc, rej)
  <2>1. PICK a \in DOMAIN asns, acc \in 0..MaxCount, rej \in 0..MaxCount :
            LoadNotice(s, a, acc, rej)
    BY <1>4
  <2> DEFINE new == [Free EXCEPT !.pc = "loaded", !.op = "inspect", !.id = a,
                                 !.stock = inventory, !.accepted = acc, !.rejected = rej]
  <2>2. /\ new.pc = "loaded" /\ new.op = "inspect" /\ new.id = a
        /\ new.stock = inventory /\ new.accepted = acc /\ new.rejected = rej
    BY FreeSession DEF Session
  <2>3. Becomes(s, new) /\ UNCHANGED vars
    BY <2>1 DEF LoadNotice
  <2>4. asns[a].receipt = NoReceipt /\ Counted(a, acc, rej)
    BY <2>1 DEF LoadNotice
  <2> HIDE DEF new
  <2>5. Current(new)
    BY <2>2, <2>4 DEF Current, NoticeCurrent, ForRequest, ForReturn
  <2> QED BY <2>3, <2>5
<1> QED BY <1>2, <1>3, <1>4 DEF Load

\* What a delivery reads when it draws its code it reads as it is.
LEMMA FoundCurrent ==
    ASSUME TypeOK, Linked, NEW loaded \in Session, SessionLinked(loaded), Current(loaded),
           loaded.op = "inspect", loaded.pc = "loaded"
    PROVE  Current(NextCode(FoundBy(loaded)))
<1>1. PICK me \in Session : me = NextCode(FoundBy(loaded))
  BY FoundSession
<1>2. /\ SessionLinked(me) /\ me.op = "inspect" /\ me.pc = "drawn" /\ me.id = loaded.id
      /\ me.accepted = loaded.accepted /\ me.rejected = loaded.rejected
      /\ me.stock = inventory
      /\ me.held = ReservationsOf(OwnerOf(me))
  BY <1>1, FoundSession DEF Current
<1>3. OwnerOf(me) = OwnerOf(loaded)
  BY <1>2 DEF OwnerOf
<1>4. OwnerOf(loaded).kind = "request" => me.request = requests[OwnerOf(loaded).id]
  BY <1>1 DEF NextCode, FoundBy, Session
<1>5. NoticeCurrent(me)
  BY <1>2 DEF Current, NoticeCurrent
<1> QED BY <1>1, <1>2, <1>3, <1>4, <1>5 DEF Current, DeliveryCurrent, ForRequest, ForReturn

LEMMA NextCurrent ==
    ASSUME TypeOK, NEW me \in Session, SessionLinked(me), Current(me),
           me.op # "inspect", me.op # "none"
    PROVE  Current(NextCode(me))
<1>1. PICK new \in Session : new = NextCode(me)
  BY DrawnSession
<1>2. /\ new.op = me.op /\ new.id = me.id /\ new.stock = me.stock
      /\ new.request = me.request /\ new.ret = me.ret
  BY <1>1 DEF NextCode, Session
<1> QED BY <1>1, <1>2 DEF Current, RequestCurrent, ReturnCurrent

LEMMA CurrentStays ==
    ASSUME NEW me, Current(me), UNCHANGED vars
    PROVE  Current(me)'
BY DEF Current, RequestCurrent, ReturnCurrent, NoticeCurrent, DeliveryCurrent, vars, MayFulfil,
       CanReserve, MayResolve, Counted, ReservationsOf, OwnerOf

LEMMA UpToDateStep ==
    ASSUME TxTyped, UpToDate, OneAtATime, [TxNext]_txvars
    PROVE  UpToDate'
<1> USE DEF OneAtATime
<1>1. ASSUME NEW s \in Sessions, NEW new, Becomes(s, new), ~Writes(new) \/ Current(new)'
      PROVE  UpToDate'
  <2>1. sessions' = [sessions EXCEPT ![s] = new] /\ sessions \in [Sessions -> Session]
    BY <1>1 DEF Becomes, TxTyped, SessionsSound
  <2>2. \A t \in Sessions : sessions'[t] = new
    BY <2>1
  <2> QED BY <1>1, <2>2 DEF UpToDate, Writes
<1>2. CASE OtherHandlers
  BY <1>2 DEF OtherHandlers, UpToDate, Writes
<1>3. CASE UNCHANGED txvars
  <2>1. UNCHANGED vars /\ UNCHANGED sessions
    BY <1>3 DEF txvars, vars
  <2>2. ASSUME NEW s \in Sessions, Writes(sessions[s])
        PROVE  Current(sessions[s])'
    <3>1. PICK me : me = sessions[s] /\ me = sessions'[s]
      BY <2>1
    <3>2. Current(me)
      BY <2>2, <3>1 DEF UpToDate
    <3>3. Current(me)'
      BY <2>1, <3>2, CurrentStays
    <3> QED BY <3>1, <3>3
  <2> QED BY <2>1, <2>2 DEF UpToDate, Writes
<1>4. ASSUME NEW s \in Sessions, Load(s)
      PROVE  UpToDate'
  <2>1. PICK new : Becomes(s, new) /\ Current(new) /\ UNCHANGED vars
    BY <1>4, LoadedCurrent
  <2> QED BY <1>1, <2>1, CurrentStays
<1>5. ASSUME NEW s \in Sessions, DrawCode(s)
      PROVE  UpToDate'
  <2> DEFINE me == sessions[s]
  <2>1. /\ TypeOK /\ Linked /\ me \in Session /\ SessionLinked(me)
        /\ me.pc = "loaded" /\ UNCHANGED vars
    BY <1>5, SessionHolds DEF TxTyped, DrawCode
  <2>2. Current(me) /\ me.op # "none"
    BY <2>1 DEF UpToDate, Writes, SessionLinked
  <2>3. PICK new : Becomes(s, new) /\ Current(new)
    <3>1. CASE me.op = "inspect"
      BY <1>5, <2>1, <2>2, <3>1, FoundCurrent DEF DrawCode
    <3>2. CASE me.op # "inspect"
      BY <1>5, <2>1, <2>2, <3>2, NextCurrent DEF DrawCode
    <3> QED BY <3>1, <3>2
  <2> QED BY <1>1, <2>1, <2>3, CurrentStays
<1>6. ASSUME NEW s \in Sessions, Proceed(s), ~DrawCode(s)
      PROVE  UpToDate'
  <2>1. ASSUME Becomes(s, Free)
        PROVE  UpToDate'
    BY <1>1, <2>1, FreeSession DEF Writes
  <2>2. CASE CommitRfq(s)
    <3>1. Becomes(s, [sessions[s] EXCEPT !.pc = "marking"])
      BY <2>2 DEF CommitRfq
    <3>2. [sessions[s] EXCEPT !.pc = "marking"].pc = "marking"
      BY SessionHolds DEF Session
    <3> QED BY <1>1, <3>1, <3>2 DEF Writes
  <2>3. CASE CommitDelivery(s)
    <3>1. PICK me \in Session : Delivery(s, me)
      BY <2>3, CommitDeliveryEffect
    <3>2. Becomes(s, [me EXCEPT !.pc = "closing"]) \/ Becomes(s, Free)
      BY <3>1 DEF Delivery
    <3>3. [me EXCEPT !.pc = "closing"].pc = "closing"
      BY DEF Session
    <3> QED BY <1>1, <2>1, <3>2, <3>3 DEF Writes
  <2>4. CASE Abort(s) \/ CommitStock(s) \/ CommitReplenish(s) \/ MarkOwner(s)
             \/ CommitPart(s) \/ CloseRfq(s)
    BY <2>1, <2>4 DEF Abort, CommitStock, CommitReplenish, MarkOwner, CommitPart, CloseRfq
  <2> QED BY <1>6, <2>2, <2>3, <2>4 DEF Proceed
<1>7. ASSUME NEW s \in Sessions, Crash(s)
      PROVE  UpToDate'
  <2>1. sessions' = [sessions EXCEPT ![s] = Free] /\ sessions \in [Sessions -> Session]
    BY <1>7 DEF Crash, TxTyped, SessionsSound
  <2>2. \A t \in Sessions : sessions'[t] = Free
    BY <2>1
  <2> QED BY <2>2, FreeSession DEF UpToDate, Writes
<1> QED BY <1>2, <1>3, <1>4, <1>5, <1>6, <1>7 DEF TxNext

\* Between two handlers the tables are as Fulfilment has them; the handlers with one commit
\* are then its own.
Shows ==
    /\ RequestsDone = requests
    /\ ReturnsDone = returns
    /\ ReservationsDone = reservations
    /\ RfqsDone = rfqs
ShowsAfter ==
    /\ RequestsDone' = requests'
    /\ ReturnsDone' = returns'
    /\ ReservationsDone' = reservations'
    /\ RfqsDone' = rfqs'

LEMMA RequestShown ==
    ASSUME Shows, ShowsAfter, NEW q, CreatePurchaseRequest(q)
    PROVE  Serial!CreatePurchaseRequest(q)
BY DEF Shows, ShowsAfter, CreatePurchaseRequest, Serial!CreatePurchaseRequest, Serial!NoRef, NoRef

LEMMA FulfilShown ==
    ASSUME Shows, ShowsAfter, NEW p, FulfilFromStock(p)
    PROVE  Serial!FulfilFromStock(p)
BY DEF Shows, ShowsAfter, FulfilFromStock, Serial!FulfilFromStock, MayFulfil, Serial!MayFulfil,
       CanReserve, Serial!CanReserve, DecreaseOnHand, Serial!DecreaseOnHand, ReserveStock,
       Serial!ReserveStock, NewTransfer, Serial!NewTransfer, RequestOwner, Serial!RequestOwner,
       TransferRef, Serial!TransferRef

LEMMA IssueShown ==
    ASSUME Shows, ShowsAfter, NEW t, NEW q, NEW d, RaiseIssue(t, q, d)
    PROVE  Serial!RaiseIssue(t, q, d)
BY DEF Shows, ShowsAfter, RaiseIssue, Serial!RaiseIssue

LEMMA WriteOffShown ==
    ASSUME Shows, ShowsAfter, NEW r, WriteOffReturn(r)
    PROVE  Serial!WriteOffReturn(r)
BY DEF Shows, ShowsAfter, WriteOffReturn, Serial!WriteOffReturn, MayResolve, Serial!MayResolve

LEMMA ReplenishShown ==
    ASSUME Shows, ShowsAfter, NEW r, ReplenishFromStock(r)
    PROVE  Serial!ReplenishFromStock(r)
BY DEF Shows, ShowsAfter, ReplenishFromStock, Serial!ReplenishFromStock, MayResolve,
       Serial!MayResolve, CanReserve, Serial!CanReserve, DecreaseOnHand, Serial!DecreaseOnHand,
       ReserveStock, Serial!ReserveStock, NewTransfer, Serial!NewTransfer, ReturnOwner,
       Serial!ReturnOwner, Replenished, Serial!Replenished

LEMMA QuotationShown ==
    ASSUME Shows, ShowsAfter, NEW r, SubmitQuotation(r) \/ SelectVendor(r)
    PROVE  Serial!SubmitQuotation(r) \/ Serial!SelectVendor(r)
<1>1. CASE SubmitQuotation(r)
  BY <1>1 DEF Shows, ShowsAfter, SubmitQuotation, Serial!SubmitQuotation
<1>2. CASE SelectVendor(r)
  BY <1>2 DEF Shows, ShowsAfter, SelectVendor, Serial!SelectVendor, MaySelect, Serial!MaySelect
<1> QED BY <1>1, <1>2

LEMMA OrderShown ==
    ASSUME Shows, ShowsAfter, NEW o, AcceptOrder(o) \/ RejectOrder(o)
    PROVE  Serial!AcceptOrder(o) \/ Serial!RejectOrder(o)
BY DEF Shows, ShowsAfter, AcceptOrder, Serial!AcceptOrder, RejectOrder, Serial!RejectOrder

LEMMA NoticeShown ==
    ASSUME Shows, ShowsAfter
    PROVE  /\ \A o, n : CreateAsn(o, n) => Serial!CreateAsn(o, n)
           /\ \A a : SubmitAsn(a) => Serial!SubmitAsn(a)
           /\ \A a, n : UpdateAsn(a, n) => Serial!UpdateAsn(a, n)
           /\ \A a, n : ResubmitAfterRejection(a, n) => Serial!ResubmitAfterRejection(a, n)
<1>1. ASSUME NEW o, NEW n, CreateAsn(o, n)
      PROVE  Serial!CreateAsn(o, n)
  BY <1>1 DEF Shows, ShowsAfter, CreateAsn, Serial!CreateAsn, CanCreateAsn, Serial!CanCreateAsn,
              Outstanding, Serial!Outstanding, Shippable, Serial!Shippable, NoReceipt,
              Serial!NoReceipt
<1>2. ASSUME NEW a, SubmitAsn(a)
      PROVE  Serial!SubmitAsn(a)
  BY <1>2 DEF Shows, ShowsAfter, SubmitAsn, Serial!SubmitAsn
<1>3. ASSUME NEW a, NEW n, UpdateAsn(a, n)
      PROVE  Serial!UpdateAsn(a, n)
  BY <1>3 DEF Shows, ShowsAfter, UpdateAsn, Serial!UpdateAsn, Outstanding, Serial!Outstanding,
              NoReceipt, Serial!NoReceipt
<1>4. ASSUME NEW a, NEW n, ResubmitAfterRejection(a, n)
      PROVE  Serial!ResubmitAfterRejection(a, n)
  BY <1>4 DEF Shows, ShowsAfter, ResubmitAfterRejection, Serial!ResubmitAfterRejection,
              CanResubmit, Serial!CanResubmit, Outstanding, Serial!Outstanding, NoReceipt,
              Serial!NoReceipt
<1> QED BY <1>1, <1>2, <1>3, <1>4

LEMMA PartShown ==
    ASSUME Shows, ShowsAfter, NEW a, NEW acc, NEW rej, ReceivePart(a, acc, rej)
    PROVE  Serial!ReceivePart(a, acc, rej)
BY DEF Shows, ShowsAfter, ReceivePart, Serial!ReceivePart, Completes, Serial!Completes, NoReceipt,
       Serial!NoReceipt, NewReceipt, Serial!NewReceipt, InspectionStatus, Serial!InspectionStatus,
       IncreaseOnHand, Serial!IncreaseOnHand

LEMMA TransferShown ==
    ASSUME Shows, ShowsAfter
    PROVE  /\ \A t : DispatchTransferOrder(t) => Serial!DispatchTransferOrder(t)
           /\ \A t, status : UpdateTransferStatus(t, status) =>
                                 Serial!UpdateTransferStatus(t, status)
           /\ \A delta : AdjustInventory(delta) => Serial!AdjustInventory(delta)
<1>1. ASSUME NEW t, DispatchTransferOrder(t)
      PROVE  Serial!DispatchTransferOrder(t)
  BY <1>1 DEF Shows, ShowsAfter, DispatchTransferOrder, Serial!DispatchTransferOrder, MayAdvance,
              Serial!MayAdvance, TransferRank, Serial!TransferRank
<1>2. ASSUME NEW t, NEW status, UpdateTransferStatus(t, status)
      PROVE  Serial!UpdateTransferStatus(t, status)
  BY <1>2 DEF Shows, ShowsAfter, UpdateTransferStatus, Serial!UpdateTransferStatus, MayAdvance,
              Serial!MayAdvance, TransferRank, Serial!TransferRank
<1>3. ASSUME NEW delta, AdjustInventory(delta)
      PROVE  Serial!AdjustInventory(delta)
  BY <1>3 DEF Shows, ShowsAfter, AdjustInventory, Serial!AdjustInventory
<1> QED BY <1>1, <1>2, <1>3

LEMMA OthersShown ==
    ASSUME Shows, ShowsAfter, OtherHandlers
    PROVE  Serial!Next
<1>1. CASE \E q \in Quantities : CreatePurchaseRequest(q)
  BY <1>1, RequestShown DEF Serial!Next
<1>2. CASE \E t \in DOMAIN transfers, q \in Quantities, d \in {"replenish", "writeoff"} :
               RaiseIssue(t, q, d)
  BY <1>2, IssueShown DEF Serial!Next
<1>3. CASE \E r \in DOMAIN returns : WriteOffReturn(r)
  BY <1>3, WriteOffShown DEF Serial!Next, Serial!ResolveReturn, Shows
<1>4. CASE \E r \in DOMAIN rfqs : SubmitQuotation(r) \/ SelectVendor(r)
  BY <1>4, QuotationShown DEF Serial!Next, Shows
<1>5. CASE \E o \in DOMAIN orders : AcceptOrder(o) \/ RejectOrder(o)
  BY <1>5, OrderShown DEF Serial!Next
<1>6. CASE \/ \E o \in DOMAIN orders, n \in Shipments : CreateAsn(o, n)
           \/ \E a \in DOMAIN asns : SubmitAsn(a)
           \/ \E a \in DOMAIN asns, n \in Shipments :
                  UpdateAsn(a, n) \/ ResubmitAfterRejection(a, n)
  BY <1>6, NoticeShown DEF Serial!Next
<1>7. CASE \/ \E t \in DOMAIN transfers : DispatchTransferOrder(t)
           \/ \E t \in DOMAIN transfers, status \in Statuses : UpdateTransferStatus(t, status)
           \/ \E delta \in Adjustments : AdjustInventory(delta)
  BY <1>7, TransferShown DEF Serial!Next
<1> QED BY <1>1, <1>2, <1>3, <1>4, <1>5, <1>6, <1>7 DEF OtherHandlers

\* Whose half-done work is shown as done: that of the one session, if it is between its
\* commits.
LEMMA SoleShows ==
    ASSUME OneAtATime, NEW s \in Sessions
    PROVE  /\ sessions[s].pc \notin {"marking", "closing"} => Shows
           /\ sessions[s].pc = "marking" =>
                 /\ RequestsDone = MarkedRequests(sessions[s])
                 /\ ReturnsDone = MarkedReturns(sessions[s])
                 /\ ReservationsDone = reservations
                 /\ RfqsDone = rfqs
           /\ sessions[s].pc = "closing" =>
                 /\ RequestsDone = requests
                 /\ ReturnsDone = returns
                 /\ ReservationsDone = reservations \ sessions[s].held
                 /\ RfqsDone = [rfqs EXCEPT
                        ![orders[asns[sessions[s].id].po].rfq].status = "Closed"]
<1>1. ASSUME NEW pc, sessions[s].pc = pc
      PROVE  BetweenCommits(pc) # {} /\ HalfDone(pc) = sessions[s]
  BY <1>1 DEF OneAtATime, BetweenCommits, HalfDone
<1>2. ASSUME NEW pc, sessions[s].pc # pc
      PROVE  BetweenCommits(pc) = {}
  BY <1>2 DEF OneAtATime, BetweenCommits
<1> HIDE DEF HalfDone, BetweenCommits
<1>3. sessions[s].pc \notin {"marking", "closing"} => Shows
  BY <1>2 DEF Shows, RequestsDone, ReturnsDone, ReservationsDone, RfqsDone
<1>4. CASE sessions[s].pc = "marking"
  <2>1. BetweenCommits("marking") # {} /\ HalfDone("marking") = sessions[s]
    BY <1>1, <1>4
  <2>2. BetweenCommits("closing") = {}
    BY <1>2, <1>4
  <2> QED BY <1>4, <2>1, <2>2 DEF RequestsDone, ReturnsDone, ReservationsDone, RfqsDone
<1>5. CASE sessions[s].pc = "closing"
  <2>1. BetweenCommits("closing") # {} /\ HalfDone("closing") = sessions[s]
    BY <1>1, <1>5
  <2>2. BetweenCommits("marking") = {}
    BY <1>2, <1>5
  <2> QED BY <1>5, <2>1, <2>2 DEF RequestsDone, ReturnsDone, ReservationsDone, RfqsDone
<1> QED BY <1>3, <1>4, <1>5

LEMMA SoleShowsAfter ==
    ASSUME OneAtATime, NEW s \in Sessions, NEW new, sessions'[s] = new
    PROVE  /\ new.pc \notin {"marking", "closing"} => ShowsAfter
           /\ new.pc = "marking" =>
                 /\ RequestsDone' = MarkedRequests(new)'
                 /\ ReturnsDone' = MarkedReturns(new)'
                 /\ ReservationsDone' = reservations'
                 /\ RfqsDone' = rfqs'
           /\ new.pc = "closing" =>
                 /\ RequestsDone' = requests'
                 /\ ReturnsDone' = returns'
                 /\ ReservationsDone' = reservations' \ new.held
                 /\ RfqsDone' = [rfqs' EXCEPT
                        ![orders'[asns'[new.id].po].rfq].status = "Closed"]
<1>1. ASSUME NEW pc, new.pc = pc
      PROVE  BetweenCommits(pc)' # {} /\ HalfDone(pc)' = new
  BY <1>1 DEF OneAtATime, BetweenCommits, HalfDone
<1>2. ASSUME NEW pc, new.pc # pc
      PROVE  BetweenCommits(pc)' = {}
  BY <1>2 DEF OneAtATime, BetweenCommits
<1> HIDE DEF HalfDone, BetweenCommits
<1>3. new.pc \notin {"marking", "closing"} => ShowsAfter
  BY <1>2 DEF ShowsAfter, RequestsDone, ReturnsDone, ReservationsDone, RfqsDone
<1>4. CASE new.pc = "marking"
  <2>1. BetweenCommits("marking")' # {} /\ HalfDone("marking")' = new
    BY <1>1, <1>4
  <2>2. BetweenCommits("closing")' = {}
    BY <1>2, <1>4
  <2>3. RequestsDone' = MarkedRequests(new)' /\ ReturnsDone' = MarkedReturns(new)'
    BY <2>1 DEF RequestsDone, ReturnsDone, MarkedRequests, MarkedReturns, MarkSplit
  <2> QED BY <1>4, <2>2, <2>3 DEF ReservationsDone, RfqsDone
<1>5. CASE new.pc = "closing"
  <2>1. BetweenCommits("closing")' # {} /\ HalfDone("closing")' = new
    BY <1>1, <1>5
  <2>2. BetweenCommits("marking")' = {}
    BY <1>2, <1>5
  <2> QED BY <1>5, <2>1, <2>2 DEF RequestsDone, ReturnsDone, ReservationsDone, RfqsDone
<1> QED BY <1>3, <1>4, <1>5

LEMMA NobodyShows ==
    /\ (\A s \in Sessions : sessions[s].pc = "idle") => Shows
    /\ (\A s \in Sessions : sessions[s].pc = "idle")' => ShowsAfter
<1>1. (\A s \in Sessions : sessions[s].pc = "idle") =>
          BetweenCommits("marking") = {} /\ BetweenCommits("closing") = {}
  BY DEF BetweenCommits
<1>2. (\A s \in Sessions : sessions[s].pc = "idle")' =>
          BetweenCommits("marking")' = {} /\ BetweenCommits("closing")' = {}
  BY DEF BetweenCommits
<1> QED BY <1>1, <1>2 DEF Shows, ShowsAfter, RequestsDone, ReturnsDone, ReservationsDone, RfqsDone

\* A handler that holds current rows and commits once, does what Fulfilment says.
LEMMA CurrentStock ==
    ASSUME TypeOK, NEW me \in Session, Current(me), NEW q \in Int,
           inventory' = Written(me.stock, DecreaseOnHand(ReserveStock(me.stock, q), q), inventory)
    PROVE  inventory' = DecreaseOnHand(ReserveStock(inventory, q), q)
<1>1. inventory \in Inventory /\ me.stock = inventory
  BY DEF TypeOK, Current
<1>2. DecreaseOnHand(ReserveStock(inventory, q), q) \in Inventory
  BY <1>1, InventoryTypes
<1> QED BY <1>1, <1>2, StockAlone

LEMMA CurrentRequest ==
    ASSUME TypeOK, NEW me \in Session, NEW p \in DOMAIN requests, me.request = requests[p],
           requests' = ShippedRequest(me, p)
    PROVE  requests' = [requests EXCEPT ![p].type = "stock", ![p].ref = TransferRef(me.code)]
<1> DEFINE new == [requests[p] EXCEPT !.type = "stock", !.ref = TransferRef(me.code)]
<1>1. requests[p] \in Request /\ requests \in Seq(Request)
  BY RequestRow DEF TypeOK
<1>2. new \in Request
  BY <1>1 DEF Request, TransferRef, Ref, Session
<1>3. requests' = [requests EXCEPT ![p] = WrittenRequest(requests[p], new, requests[p])]
  BY DEF ShippedRequest
<1>4. requests' = [requests EXCEPT ![p] = new]
  BY <1>1, <1>2, <1>3, RequestAlone
<1> QED BY <1>1, <1>4

LEMMA StockAsSerial ==
    ASSUME TxTyped, UpToDate, NEW s \in Sessions, CommitStock(s)
    PROVE  \E p \in DOMAIN requests : FulfilFromStock(p)
<1> DEFINE me == sessions[s]
           p == me.id
<1>1. TypeOK /\ me \in Session /\ SessionLinked(me) /\ me.pc = "drawn" /\ me.op = "stock"
  BY SessionHolds DEF TxTyped, CommitStock
<1>2. Current(me) /\ RequestCurrent(me)
  BY <1>1 DEF UpToDate, Writes, Current, ForRequest
<1>3. p \in DOMAIN requests /\ me.request \in Request /\ OwnerOf(me) = RequestOwner(p)
  BY <1>1 DEF SessionLinked, SeesRequest, ForRequest, OwnerOf
<1>4. /\ me.request = requests[p] /\ MayFulfil(p) /\ CanReserve(requests[p].qty)
      /\ requests[p].qty \in Int
  <2>1. requests[p].qty \in Quantities
    BY <1>2, <1>3 DEF RequestCurrent, Request
  <2>2. requests[p].qty \in Int
    <3>1. Quantities \subseteq Int
      BY FulfilmentAssumption
    <3> QED BY <2>1, <3>1
  <2>3. me.request = requests[p] /\ MayFulfil(p) /\ CanReserve(me.request.qty)
    BY <1>1, <1>2 DEF RequestCurrent
  <2> QED BY <2>2, <2>3
<1>5. /\ me.code = Len(transfers) + 1
      /\ Len(transfers) < MaxTransfers
      /\ transfers' = Append(transfers, NewTransfer(RequestOwner(p), requests[p].qty,
                                                    "Warehouse Stock"))
      /\ inventory' = Written(me.stock, DecreaseOnHand(ReserveStock(me.stock, requests[p].qty),
                                                       requests[p].qty), inventory)
      /\ requests' = ShippedRequest(me, p)
      /\ UNCHANGED <<returns, reservations, rfqs, orders, asns, adjusted>>
  <2>1. me.code = Len(transfers) + 1
    BY <1>1, UniqueIsNext DEF CommitStock, Table
  <2> QED BY <1>1, <1>3, <1>4, <2>1 DEF CommitStock, ShipFromStock
<1> HIDE DEF me, p
<1>6. inventory' = DecreaseOnHand(ReserveStock(inventory, requests[p].qty), requests[p].qty)
  BY <1>1, <1>2, <1>4, <1>5, CurrentStock
<1>7. requests' = [requests EXCEPT ![p].type = "stock", ![p].ref = TransferRef(me.code)]
  BY <1>1, <1>3, <1>4, <1>5, CurrentRequest
<1>8. FulfilFromStock(p)
  BY <1>4, <1>5, <1>6, <1>7 DEF FulfilFromStock
<1> QED BY <1>3, <1>8

LEMMA ReplenishAsSerial ==
    ASSUME TxTyped, UpToDate, NEW s \in Sessions, CommitReplenish(s)
    PROVE  \E r \in DOMAIN returns : ReplenishFromStock(r)
<1> DEFINE me == sessions[s]
           r == me.id
<1>1. TypeOK /\ me \in Session /\ SessionLinked(me) /\ me.pc = "drawn" /\ me.op = "replenish"
  BY SessionHolds DEF TxTyped, CommitReplenish
<1>2. Current(me) /\ ReturnCurrent(me)
  BY <1>1 DEF UpToDate, Writes, Current, ForReturn
<1>3. r \in DOMAIN returns /\ me.ret \in Return /\ OwnerOf(me) = ReturnOwner(r)
  BY <1>1 DEF SessionLinked, SeesReturn, ForReturn, OwnerOf
<1>4. /\ me.ret = returns[r] /\ MayResolve(r) /\ CanReserve(returns[r].qty)
      /\ returns[r].decision = "replenish"
      /\ returns[r].qty \in Int
  <2>1. returns[r].qty \in Quantities
    BY <1>2, <1>3 DEF ReturnCurrent, Return
  <2>2. returns[r].qty \in Int
    <3>1. Quantities \subseteq Int
      BY FulfilmentAssumption
    <3> QED BY <2>1, <3>1
  <2>3. /\ me.ret = returns[r] /\ MayResolve(r) /\ CanReserve(me.ret.qty)
        /\ me.ret.decision = "replenish"
    BY <1>1, <1>2 DEF ReturnCurrent
  <2> QED BY <2>2, <2>3
<1> DEFINE new == Replenished([returns[r] EXCEPT !.transfer = me.code])
<1>5. /\ me.code = Len(transfers) + 1 /\ me.code \in Nat
      /\ Len(transfers) < MaxTransfers
      /\ transfers' = Append(transfers, NewTransfer(ReturnOwner(r), returns[r].qty,
                                                    "Return Replenishment"))
      /\ inventory' = Written(me.stock, DecreaseOnHand(ReserveStock(me.stock, returns[r].qty),
                                                       returns[r].qty), inventory)
      /\ returns' = [returns EXCEPT ![r] = Written(returns[r], new, returns[r])]
      /\ UNCHANGED <<requests, reservations, rfqs, orders, asns, adjusted>>
  <2>1. me.code = Len(transfers) + 1 /\ me.code \in Nat
    BY <1>1, UniqueIsNext DEF CommitReplenish, Table
  <2> QED BY <1>1, <1>3, <1>4, <2>1 DEF CommitReplenish, ShipFromStock
<1> HIDE DEF me, r
<1>6. inventory' = DecreaseOnHand(ReserveStock(inventory, returns[r].qty), returns[r].qty)
  BY <1>1, <1>2, <1>4, <1>5, CurrentStock
<1>7. new \in Return /\ returns[r] \in Return
  BY <1>3, <1>4, <1>5 DEF Return, Replenished
<1>8. new = Replenished([returns[r] EXCEPT !.transfer = Len(transfers) + 1])
  BY <1>5
<1> HIDE DEF new
<1>9. returns' = [returns EXCEPT ![r] = new]
  BY <1>5, <1>7, ReturnAlone
<1>10. returns' = [returns EXCEPT ![r] = Replenished([@ EXCEPT !.transfer = Len(transfers) + 1])]
  BY <1>8, <1>9
<1>11. ReplenishFromStock(r)
  BY <1>4, <1>5, <1>6, <1>10 DEF ReplenishFromStock
<1> QED BY <1>3, <1>11

LEMMA PartAsSerial ==
    ASSUME TxTyped, UpToDate, NEW s \in Sessions, CommitPart(s)
    PROVE  \E a \in DOMAIN asns, acc \in 0..MaxCount, rej \in 0..MaxCount :
               Counted(a, acc, rej) /\ ReceivePart(a, acc, rej)
<1> DEFINE me == sessions[s]
<1>1. /\ TypeOK /\ Linked /\ me \in Session /\ SessionLinked(me)
      /\ me.pc = "loaded" /\ me.op = "inspect"
  BY SessionHolds DEF TxTyped, CommitPart
<1>2. Current(me) /\ NoticeCurrent(me) /\ me.stock = inventory
  BY <1>1 DEF UpToDate, Writes, Current
<1>3. me.id \in DOMAIN asns /\ asns[me.id].po \in DOMAIN orders
  BY <1>1, InspectionFor DEF SessionLinked
<1>4. inventory \in Inventory /\ IncreaseOnHand(inventory, me.accepted) \in Inventory
  <2>1. inventory \in Inventory /\ me.accepted \in Int
    BY <1>1 DEF TypeOK, Session
  <2> QED BY <2>1, InventoryTypes
<1>5. inventory' = IncreaseOnHand(inventory, me.accepted)
  BY <1>2, <1>4, StockAlone DEF CommitPart
<1>6. asns' = [asns EXCEPT ![me.id].receipt = NewReceipt(me.accepted, me.rejected)]
  BY DEF CommitPart, Inspected
<1>7. /\ ~Completes(asns[me.id].po, me.accepted)
      /\ orders' = [orders EXCEPT ![asns[me.id].po].received = @ + me.accepted]
      /\ UNCHANGED <<requests, returns, reservations, rfqs, transfers, adjusted>>
  BY DEF CommitPart, Delivers
<1> HIDE DEF me
<1>8. ReceivePart(me.id, me.accepted, me.rejected)
  BY <1>2, <1>5, <1>6, <1>7 DEF ReceivePart, NoticeCurrent
<1> QED BY <1>2, <1>3, <1>8 DEF NoticeCurrent

\* Raising an RFQ does at its first commit what its handler does.
LEMMA CurrentReserved ==
    ASSUME TypeOK, NEW me \in Session, Current(me),
           inventory' = Written(me.stock, ReserveStock(me.stock, me.stock.available), inventory)
    PROVE  inventory' = ReserveStock(inventory, inventory.available)
<1>1. inventory \in Inventory /\ me.stock = inventory /\ inventory.available \in Int
  BY DEF TypeOK, Current, Inventory
<1>2. ReserveStock(inventory, inventory.available) \in Inventory
  BY <1>1, InventoryTypes
<1> QED BY <1>1, <1>2, StockAlone

LEMMA SplitAsSerial ==
    ASSUME Shows, ReturnsDone' = returns', ReservationsDone' = reservations', RfqsDone' = rfqs',
           NEW p \in DOMAIN requests,
           RequestsDone' = MarkSplit(p, Len(rfqs) + 1),
           MayFulfil(p), Len(rfqs) < MaxRfqs,
           inventory' = ReserveStock(inventory, inventory.available),
           reservations' = reservations \cup {NewReservation(Len(rfqs) + 1, RequestOwner(p),
                                                  inventory.available, requests[p].qty)},
           rfqs' = Append(rfqs, NewRfq(RequestOwner(p), requests[p].qty - inventory.available)),
           UNCHANGED <<returns, orders, asns, transfers, adjusted>>
    PROVE  Serial!SplitFulfil(p)
BY DEF Shows, Serial!SplitFulfil, MarkSplit, Serial!MarkSplit, MayFulfil, Serial!MayFulfil,
       ReserveStock, Serial!ReserveStock, NewReservation, Serial!NewReservation, RequestOwner,
       Serial!RequestOwner, NewRfq, Serial!NewRfq, RfqRef, Serial!RfqRef

LEMMA RfqAsSerial ==
    ASSUME Shows, ReturnsDone' = returns', ReservationsDone' = reservations', RfqsDone' = rfqs',
           NEW p \in DOMAIN requests,
           RequestsDone' = [requests EXCEPT ![p].type = "rfq", ![p].ref = RfqRef(Len(rfqs) + 1)],
           MayFulfil(p), Len(rfqs) < MaxRfqs,
           rfqs' = Append(rfqs, NewRfq(RequestOwner(p), requests[p].qty)),
           UNCHANGED <<inventory, reservations, returns, orders, asns, transfers, adjusted>>
    PROVE  Serial!RaiseRfq(p)
BY DEF Shows, Serial!RaiseRfq, MayFulfil, Serial!MayFulfil, RequestOwner, Serial!RequestOwner,
       NewRfq, Serial!NewRfq, RfqRef, Serial!RfqRef

LEMMA OrderAsSerial ==
    ASSUME Shows, RequestsDone' = requests', ReservationsDone' = reservations', RfqsDone' = rfqs',
           NEW r \in DOMAIN returns,
           ReturnsDone' = [returns EXCEPT ![r] = Replenished([@ EXCEPT !.rfq = Len(rfqs) + 1])],
           MayResolve(r), returns[r].decision = "replenish", Len(rfqs) < MaxRfqs,
           inventory.available < returns[r].qty,
           IF inventory.available > 0
           THEN /\ inventory' = ReserveStock(inventory, inventory.available)
                /\ reservations' = reservations \cup {NewReservation(Len(rfqs) + 1,
                                       ReturnOwner(r), inventory.available, returns[r].qty)}
           ELSE UNCHANGED <<inventory, reservations>>,
           rfqs' = Append(rfqs, NewRfq(ReturnOwner(r), returns[r].qty - inventory.available)),
           UNCHANGED <<requests, orders, asns, transfers, adjusted>>
    PROVE  Serial!ReplenishByRfq(r)
BY DEF Shows, Serial!ReplenishByRfq, MayResolve, Serial!MayResolve, ReserveStock,
       Serial!ReserveStock, NewReservation, Serial!NewReservation, ReturnOwner,
       Serial!ReturnOwner, NewRfq, Serial!NewRfq, Replenished, Serial!Replenished

LEMMA CommitRfqAsSerial ==
    ASSUME TxTyped, UpToDate, OneAtATime, NEW s \in Sessions, CommitRfq(s)
    PROVE  Serial!Next
<1> DEFINE me == sessions[s]
<1>1. /\ TypeOK /\ me \in Session /\ SessionLinked(me) /\ me.pc = "drawn"
      /\ me.op \in {"split", "rfq", "order"}
  BY SessionHolds DEF TxTyped, CommitRfq
<1>2. Current(me)
  BY <1>1 DEF UpToDate, Writes
<1>3. me.code = Len(rfqs) + 1
  BY <1>1, UniqueIsNext DEF CommitRfq, Table
<1>4. PICK new : /\ new.pc = "marking" /\ new.op = me.op /\ new.id = me.id
                 /\ new.code = Len(rfqs) + 1
                 /\ sessions'[s] = new
  BY <1>1, <1>3 DEF CommitRfq, Becomes, TxTyped, SessionsSound, Session
<1>5. Shows
  BY <1>1, SoleShows
<1>6. /\ RequestsDone' = MarkedRequests(new)'
      /\ ReturnsDone' = MarkedReturns(new)'
      /\ ReservationsDone' = reservations'
      /\ RfqsDone' = rfqs'
  BY <1>4, SoleShowsAfter
<1>7. /\ Len(rfqs) < MaxRfqs
      /\ rfqs' = Append(rfqs, NewRfq(OwnerOf(me), Shortfall(me)))
      /\ reservations' = reservations \cup Taken(me)
      /\ inventory' = IF Taken(me) = {} THEN inventory
                      ELSE Written(me.stock, ReserveStock(me.stock, me.stock.available), inventory)
      /\ UNCHANGED <<requests, returns, orders, asns, transfers, adjusted>>
  BY DEF CommitRfq
<1>8. Taken(me) # {} => inventory' = ReserveStock(inventory, inventory.available)
  BY <1>1, <1>2, <1>7, CurrentReserved
<1>9. me.stock = inventory /\ inventory.available \in Int
  BY <1>1, <1>2 DEF Current, TypeOK, Inventory
<1> HIDE DEF me
<1>10. CASE ForRequest(me.op)
  <2>1. /\ me.id \in DOMAIN requests /\ me.request = requests[me.id] /\ MayFulfil(me.id)
        /\ OwnerOf(me) = RequestOwner(me.id)
    BY <1>1, <1>2, <1>10 DEF SessionLinked, SeesRequest, Current, RequestCurrent, OwnerOf,
                             ForRequest
  <2>2. MarkedReturns(new)' = returns'
    BY <1>4, <1>10 DEF MarkedReturns, ForRequest
  <2>3. CASE me.op = "split"
    <3>1. MarkedRequests(new)' = MarkSplit(me.id, Len(rfqs) + 1)
      BY <1>4, <1>7, <2>3 DEF MarkedRequests, MarkSplit
    <3>2. Taken(me) = {NewReservation(Len(rfqs) + 1, RequestOwner(me.id), inventory.available,
                                      requests[me.id].qty)}
      BY <1>3, <1>9, <2>1, <2>3 DEF Taken
    <3>3. Shortfall(me) = requests[me.id].qty - inventory.available
      BY <1>9, <2>1, <2>3 DEF Shortfall
    <3>4. Serial!SplitFulfil(me.id)
      BY <1>5, <1>6, <1>7, <1>8, <2>1, <2>2, <3>1, <3>2, <3>3, SplitAsSerial
    <3> QED BY <1>5, <2>1, <3>4 DEF Serial!Next, Shows
  <2>4. CASE me.op = "rfq"
    <3>1. MarkedRequests(new)' = [requests EXCEPT ![me.id].type = "rfq",
                                                  ![me.id].ref = RfqRef(Len(rfqs) + 1)]
      BY <1>4, <1>7, <2>4 DEF MarkedRequests
    <3>2. Taken(me) = {} /\ Shortfall(me) = requests[me.id].qty
      BY <2>1, <2>4 DEF Taken, Shortfall
    <3>3. UNCHANGED <<inventory, reservations>>
      BY <1>7, <3>2
    <3>4. Serial!RaiseRfq(me.id)
      BY <1>5, <1>6, <1>7, <2>1, <2>2, <3>1, <3>2, <3>3, RfqAsSerial
    <3> QED BY <1>5, <2>1, <3>4 DEF Serial!Next, Shows
  <2> QED BY <1>1, <1>10, <2>3, <2>4 DEF ForRequest
<1>11. CASE me.op = "order"
  <2>1. /\ me.id \in DOMAIN returns /\ me.ret = returns[me.id] /\ MayResolve(me.id)
        /\ returns[me.id].decision = "replenish"
        /\ ~CanReserve(returns[me.id].qty)
        /\ OwnerOf(me) = ReturnOwner(me.id)
        /\ returns[me.id] \in Return
    BY <1>1, <1>2, <1>11 DEF SessionLinked, SeesReturn, Current, ReturnCurrent, OwnerOf,
                             ForReturn
  <2>2. returns[me.id].qty \in Int
    <3>1. Quantities \subseteq Int
      BY FulfilmentAssumption
    <3> QED BY <2>1, <3>1 DEF Return
  <2>3. inventory.available < returns[me.id].qty
    BY <1>9, <2>1, <2>2 DEF CanReserve
  <2>4. MarkedRequests(new)' = requests'
    BY <1>4, <1>11 DEF MarkedRequests
  <2>5. MarkedReturns(new)' =
            [returns EXCEPT ![me.id] = Replenished([@ EXCEPT !.rfq = Len(rfqs) + 1])]
    BY <1>4, <1>7, <1>11 DEF MarkedReturns, Replenished
  <2>6. Taken(me) = IF inventory.available > 0
                    THEN {NewReservation(Len(rfqs) + 1, ReturnOwner(me.id), inventory.available,
                                         returns[me.id].qty)}
                    ELSE {}
    BY <1>3, <1>9, <1>11, <2>1 DEF Taken
  <2>7. Shortfall(me) = returns[me.id].qty - inventory.available
    BY <1>9, <1>11, <2>1 DEF Shortfall
  <2>8. IF inventory.available > 0
        THEN /\ inventory' = ReserveStock(inventory, inventory.available)
             /\ reservations' = reservations \cup {NewReservation(Len(rfqs) + 1,
                                    ReturnOwner(me.id), inventory.available, returns[me.id].qty)}
        ELSE UNCHANGED <<inventory, reservations>>
    BY <1>7, <1>8, <2>6
  <2>9. Serial!ReplenishByRfq(me.id)
    BY <1>5, <1>6, <1>7, <2>1, <2>3, <2>4, <2>5, <2>7, <2>8, OrderAsSerial
  <2> QED BY <1>5, <2>1, <2>9 DEF Serial!Next, Serial!ResolveReturn, Shows
<1> QED BY <1>1, <1>10, <1>11 DEF ForRequest

\* So does a delivery.
LEMMA DeliveryAsSerial ==
    ASSUME Shows, NEW a \in DOMAIN asns, NEW acc, NEW rej, NEW owner, NEW held,
           asns[a].receipt = NoReceipt, Len(transfers) < MaxTransfers,
           Completes(asns[a].po, acc),
           asns' = [asns EXCEPT ![a].receipt = NewReceipt(acc, rej)],
           orders' = [orders EXCEPT ![asns[a].po].received = orders[asns[a].po].received + acc,
                                    ![asns[a].po].status = "Delivered",
                                    ![asns[a].po].dispatched = @ + 1],
           owner = rfqs[orders[asns[a].po].rfq].owner,
           held = ReservationsOf(owner),
           NEW q, NEW source,
           inventory' = DecreaseOnHand(IncreaseOnHand(inventory, acc), q),
           transfers' = Append(transfers, NewTransfer(owner, q, source)),
           \/ \E h \in held : /\ held = {h}
                              /\ q = h.reserved + h.vendor
                              /\ source = "Combined Stock + Vendor"
           \/ /\ held = {}
              /\ q = orders[asns[a].po].received + acc
              /\ source = "Vendor Procurement",
           IF owner.kind = "request"
           THEN /\ RequestsDone' = [requests EXCEPT ![owner.id].type = "stock",
                                        ![owner.id].ref = TransferRef(Len(transfers) + 1)]
                /\ ReturnsDone' = returns
           ELSE /\ ReturnsDone' = [returns EXCEPT ![owner.id].transfer = Len(transfers) + 1]
                /\ RequestsDone' = requests,
           ReservationsDone' = reservations \ held,
           RfqsDone' = [rfqs EXCEPT ![orders[asns[a].po].rfq].status = "Closed"],
           UNCHANGED adjusted
    PROVE  Serial!ReceiveAndDispatch(a, acc, rej)
<1> DEFINE o == asns[a].po
<1>1. /\ Serial!ReservationsOf(owner) = held
      /\ owner = RfqsDone[orders[o].rfq].owner
  BY DEF Shows, Serial!ReservationsOf, ReservationsOf
<1>2. Serial!DispatchToOwner(owner, q, source)
  BY DEF Shows, Serial!DispatchToOwner, NewTransfer, Serial!NewTransfer, TransferRef,
         Serial!TransferRef
<1>3. /\ asns[a].receipt = Serial!NoReceipt
      /\ Serial!Completes(o, acc)
      /\ asns' = [asns EXCEPT ![a].receipt = Serial!NewReceipt(acc, rej)]
      /\ inventory' = Serial!DecreaseOnHand(Serial!IncreaseOnHand(inventory, acc), q)
      /\ RfqsDone' = [RfqsDone EXCEPT ![orders[o].rfq].status = "Closed"]
  BY DEF Shows, NoReceipt, Serial!NoReceipt, Completes, Serial!Completes, NewReceipt,
         Serial!NewReceipt, InspectionStatus, Serial!InspectionStatus, DecreaseOnHand,
         Serial!DecreaseOnHand, IncreaseOnHand, Serial!IncreaseOnHand
<1>4. \/ \E h \in held :
            /\ held = {h}
            /\ inventory' = Serial!DecreaseOnHand(Serial!IncreaseOnHand(inventory, acc),
                                                  h.reserved + h.vendor)
            /\ Serial!DispatchToOwner(owner, h.reserved + h.vendor, "Combined Stock + Vendor")
            /\ ReservationsDone' = ReservationsDone \ {h}
      \/ /\ held = {}
         /\ inventory' = Serial!DecreaseOnHand(Serial!IncreaseOnHand(inventory, acc),
                                               orders[o].received + acc)
         /\ Serial!DispatchToOwner(owner, orders[o].received + acc, "Vendor Procurement")
         /\ ReservationsDone' = ReservationsDone
  <2>1. CASE \E h \in held : /\ held = {h}
                             /\ q = h.reserved + h.vendor
                             /\ source = "Combined Stock + Vendor"
    BY <1>2, <1>3, <2>1 DEF Shows
  <2>2. CASE /\ held = {}
             /\ q = orders[o].received + acc
             /\ source = "Vendor Procurement"
    BY <1>2, <1>3, <2>2 DEF Shows
  <2> QED BY <2>1, <2>2
<1> QED BY <1>1, <1>3, <1>4 DEF Serial!ReceiveAndDispatch

\* A row flushed before the goods went out is written twice, to the same end.
LEMMA CurrentDelivered ==
    ASSUME TypeOK, NEW me \in Session, Current(me), NEW q \in Int
    PROVE  DeliveredStock(me, q) = DecreaseOnHand(IncreaseOnHand(inventory, me.accepted), q)
<1> DEFINE arrived == IncreaseOnHand(inventory, me.accepted)
           left == DecreaseOnHand(arrived, q)
<1>1. me.stock = inventory /\ inventory \in Inventory /\ me.accepted \in Int
  BY DEF TypeOK, Current, Session
<1>2. arrived \in Inventory
  BY <1>1, InventoryTypes
<1>3. DeliveredStock(me, q) = IF me.rejected > 0
                              THEN Written(arrived, left, Written(inventory, arrived, inventory))
                              ELSE Written(inventory, left, inventory)
  BY <1>1 DEF DeliveredStock
<1> HIDE DEF arrived
<1>4. left \in Inventory
  BY <1>2, InventoryTypes
<1> HIDE DEF left
<1>5. /\ Written(inventory, arrived, inventory) = arrived
      /\ Written(inventory, left, inventory) = left
      /\ Written(arrived, left, arrived) = left
  BY <1>1, <1>2, <1>4, StockAlone
<1>6. DeliveredStock(me, q) = left
  BY <1>3, <1>5
<1> QED BY <1>6 DEF left, arrived

\* The session as it is when a delivery commits.
LEMMA DeliveringSession ==
    ASSUME TxTyped, UpToDate, NEW s \in Sessions, CommitDelivery(s)
    PROVE  \E me \in Session :
               /\ me = IF sessions[s].rejected > 0 THEN NextCode(FoundBy(sessions[s]))
                       ELSE sessions[s]
               /\ SessionLinked(me)
               /\ me.pc = "drawn"
               /\ me.op = "inspect"
               /\ me.id = sessions[s].id
               /\ me.accepted = sessions[s].accepted
               /\ Current(me)
<1> DEFINE loaded == sessions[s]
<1>1. /\ TypeOK /\ Linked /\ loaded \in Session /\ SessionLinked(loaded)
      /\ loaded.op = "inspect" /\ loaded.pc = (IF loaded.rejected > 0 THEN "loaded" ELSE "drawn")
  BY SessionHolds DEF TxTyped, CommitDelivery
<1>2. Current(loaded)
  BY <1>1 DEF UpToDate, Writes
<1>3. CASE loaded.rejected > 0
  <2>1. Current(NextCode(FoundBy(loaded)))
    BY <1>1, <1>2, <1>3, FoundCurrent
  <2> QED BY <1>1, <1>3, <2>1, FoundSession
<1>4. CASE ~(loaded.rejected > 0)
  BY <1>1, <1>2, <1>4
<1> QED BY <1>3, <1>4

LEMMA CommitDeliveryAsSerial ==
    ASSUME TxTyped, UpToDate, OneAtATime, NEW s \in Sessions, CommitDelivery(s)
    PROVE  Serial!Next
<1> DEFINE loaded == sessions[s]
<1>1. /\ TypeOK /\ Linked
      /\ loaded.op = "inspect" /\ loaded.pc = (IF loaded.rejected > 0 THEN "loaded" ELSE "drawn")
  BY SessionHolds DEF TxTyped, CommitDelivery
<1>2. PICK me \in Session : /\ me = IF loaded.rejected > 0 THEN NextCode(FoundBy(loaded))
                                    ELSE loaded
                            /\ SessionLinked(me)
                            /\ me.pc = "drawn"
                            /\ me.op = "inspect"
                            /\ me.id = loaded.id
                            /\ me.accepted = loaded.accepted
                            /\ Current(me)
  BY DeliveringSession
<1>3. PICK o : o = asns[me.id].po
  OBVIOUS
<1>4. PICK owner \in Owner : /\ owner = OwnerOf(me)
                             /\ owner = rfqs[orders[o].rfq].owner
                             /\ OwnerExists(owner)
  BY <1>1, <1>2, <1>3, InspectionFor DEF SessionLinked
<1>5. /\ me.id \in DOMAIN asns /\ o \in DOMAIN orders
      /\ orders[o].received \in Nat /\ me.accepted \in Nat /\ me.held \in SUBSET Reservation
  BY <1>1, <1>2, <1>3, InspectionFor, OrderRow DEF SessionLinked, Session
<1>6. Shows
  BY <1>1, SoleShows
<1>7. /\ Completes(o, me.accepted)
      /\ Unique(me) /\ OneHeld(me)
      /\ Len(transfers) < MaxTransfers
      /\ Inspected(me)
      /\ orders' = [orders EXCEPT ![o].received = orders[o].received + me.accepted,
                                  ![o].status = "Delivered", ![o].dispatched = @ + 1]
      /\ \/ \E h \in me.held :
               /\ inventory' = DeliveredStock(me, h.reserved + h.vendor)
               /\ transfers' = Append(transfers, NewTransfer(owner, h.reserved + h.vendor,
                                                             "Combined Stock + Vendor"))
         \/ /\ me.held = {}
            /\ inventory' = DeliveredStock(me, orders[o].received + me.accepted)
            /\ transfers' = Append(transfers, NewTransfer(owner,
                                orders[o].received + me.accepted, "Vendor Procurement"))
      /\ UNCHANGED adjusted
  <2>1. asns[loaded.id].po = o
    BY <1>2, <1>3
  <2> QED BY <1>2, <1>3, <1>4, <2>1 DEF CommitDelivery, Delivers
<1>8. IF owner.kind = "request"
      THEN /\ requests' = ShippedRequest(me, owner.id)
           /\ Becomes(s, [me EXCEPT !.pc = "closing"])
           /\ UNCHANGED <<returns, reservations, rfqs>>
      ELSE /\ returns' = [returns EXCEPT ![owner.id].transfer = me.code]
           /\ Close(me.held, orders[o].rfq)
           /\ Becomes(s, Free)
           /\ UNCHANGED requests
  <2>1. asns[loaded.id].po = o
    BY <1>2, <1>3
  <2> QED BY <1>2, <1>3, <1>4, <2>1 DEF CommitDelivery
<1>9. me.code = Len(transfers) + 1
  BY <1>1, <1>2, <1>7, UniqueIsNext DEF Table
<1>10. /\ me.held = ReservationsOf(owner)
       /\ owner.kind = "request" => me.request = requests[owner.id]
       /\ NoticeCurrent(me)
  BY <1>2, <1>4 DEF Current, DeliveryCurrent
<1>11. asns' = [asns EXCEPT ![me.id].receipt = NewReceipt(me.accepted, me.rejected)]
  BY <1>7 DEF Inspected
<1> HIDE DEF loaded
<1> DEFINE Goes(q, source) ==
          /\ inventory' = DecreaseOnHand(IncreaseOnHand(inventory, me.accepted), q)
          /\ transfers' = Append(transfers, NewTransfer(owner, q, source))
          /\ \/ \E h \in me.held : /\ me.held = {h}
                                   /\ q = h.reserved + h.vendor
                                   /\ source = "Combined Stock + Vendor"
             \/ /\ me.held = {}
                /\ q = orders[o].received + me.accepted
                /\ source = "Vendor Procurement"
<1>12. \E q, source : Goes(q, source)
  <2>1. ASSUME NEW h \in me.held,
               inventory' = DeliveredStock(me, h.reserved + h.vendor),
               transfers' = Append(transfers, NewTransfer(owner, h.reserved + h.vendor,
                                                          "Combined Stock + Vendor"))
        PROVE  \E q, source : Goes(q, source)
    <3>1. me.held = {h}
      BY <1>7, <2>1 DEF OneHeld
    <3>2. h.reserved + h.vendor \in Int
      <4>1. h \in Reservation
        BY <1>5, <2>1
      <4>2. h.reserved \in Int /\ h.vendor \in Int
        BY <4>1 DEF Reservation
      <4> QED BY <4>2
    <3>3. DeliveredStock(me, h.reserved + h.vendor) =
              DecreaseOnHand(IncreaseOnHand(inventory, me.accepted), h.reserved + h.vendor)
      BY <1>1, <1>2, <3>2, CurrentDelivered
    <3> QED BY <2>1, <3>1, <3>3
  <2>2. ASSUME me.held = {},
               inventory' = DeliveredStock(me, orders[o].received + me.accepted),
               transfers' = Append(transfers, NewTransfer(owner,
                                orders[o].received + me.accepted, "Vendor Procurement"))
        PROVE  \E q, source : Goes(q, source)
    <3>1. orders[o].received + me.accepted \in Int
      BY <1>5
    <3>2. DeliveredStock(me, orders[o].received + me.accepted) =
              DecreaseOnHand(IncreaseOnHand(inventory, me.accepted),
                             orders[o].received + me.accepted)
      BY <1>1, <1>2, <3>1, CurrentDelivered
    <3> QED BY <2>2, <3>2
  <2> QED BY <1>7, <2>1, <2>2
<1>13. PICK q, source : Goes(q, source)
  BY <1>12
<1>14. asns'[me.id].po = o /\ orders'[o].rfq = orders[o].rfq
  <2>1. asns \in Seq(Asn) /\ orders \in Seq(Order)
    BY <1>1 DEF TypeOK
  <2>2. asns[me.id] \in Asn /\ orders[o] \in Order
    BY <1>1, <1>5, AsnRow, OrderRow
  <2> QED BY <1>3, <1>5, <1>7, <1>11, <2>1, <2>2 DEF Asn, Order
<1>15. sessions \in [Sessions -> Session]
  BY DEF TxTyped, SessionsSound
<1>16. /\ ReservationsDone' = reservations \ me.held
       /\ RfqsDone' = [rfqs EXCEPT ![orders[o].rfq].status = "Closed"]
       /\ IF owner.kind = "request"
          THEN /\ RequestsDone' = [requests EXCEPT ![owner.id].type = "stock",
                                       ![owner.id].ref = TransferRef(Len(transfers) + 1)]
               /\ ReturnsDone' = returns
          ELSE /\ ReturnsDone' = [returns EXCEPT ![owner.id].transfer = Len(transfers) + 1]
               /\ RequestsDone' = requests
  <2>1. CASE owner.kind = "request"
    <3>1. PICK new : /\ new.pc = "closing" /\ new.held = me.held /\ new.id = me.id
                     /\ sessions'[s] = new
      BY <1>2, <1>8, <1>15, <2>1 DEF Becomes, Session
    <3>2. /\ RequestsDone' = requests'
          /\ ReturnsDone' = returns'
          /\ ReservationsDone' = reservations' \ new.held
          /\ RfqsDone' = [rfqs' EXCEPT ![orders'[asns'[new.id].po].rfq].status = "Closed"]
      BY <3>1, SoleShowsAfter
    <3>3. owner.id \in DOMAIN requests
      BY <1>4, <2>1 DEF OwnerExists
    <3>4. requests' = [requests EXCEPT ![owner.id].type = "stock",
                                       ![owner.id].ref = TransferRef(Len(transfers) + 1)]
      <4>1. requests' = ShippedRequest(me, owner.id) /\ me.request = requests[owner.id]
        BY <1>8, <1>10, <2>1
      <4>2. requests' = [requests EXCEPT ![owner.id].type = "stock",
                                         ![owner.id].ref = TransferRef(me.code)]
        BY <1>1, <3>3, <4>1, CurrentRequest
      <4> QED BY <1>9, <4>2
    <3> QED BY <1>8, <1>14, <2>1, <3>1, <3>2, <3>4
  <2>2. CASE owner.kind # "request"
    <3>1. sessions'[s] = Free
      BY <1>8, <1>15, <2>2 DEF Becomes
    <3>2. ShowsAfter
      BY <3>1, SoleShowsAfter, FreeSession
    <3> QED BY <1>8, <1>9, <2>2, <3>2 DEF ShowsAfter, Close
  <2> QED BY <2>1, <2>2
<1>17. Serial!ReceiveAndDispatch(me.id, me.accepted, me.rejected)
  BY <1>3, <1>4, <1>5, <1>6, <1>7, <1>10, <1>11, <1>13, <1>16, DeliveryAsSerial DEF NoticeCurrent
<1>18. Serial!Counted(me.id, me.accepted, me.rejected)
  BY <1>10 DEF NoticeCurrent, Counted, Serial!Counted
<1> QED BY <1>5, <1>10, <1>17, <1>18 DEF NoticeCurrent, Serial!Next, Serial!RecordGoodsReceipt

\* Where nothing is written and no handler is between its commits, nothing shows.
LEMMA NothingShown ==
    ASSUME Shows, ShowsAfter, UNCHANGED vars
    PROVE  UNCHANGED Serial!vars
BY DEF Shows, ShowsAfter, vars, Serial!vars

LEMMA SecondCommitShown ==
    ASSUME TxTyped, OneAtATime, NEW s \in Sessions, MarkOwner(s) \/ CloseRfq(s)
    PROVE  UNCHANGED Serial!vars
<1>1. sessions \in [Sessions -> Session]
  BY DEF TxTyped, SessionsSound
<1>2. sessions'[s] = Free
  BY <1>1 DEF MarkOwner, CloseRfq, Becomes
<1>3. ShowsAfter
  BY <1>2, SoleShowsAfter, FreeSession
<1>4. CASE MarkOwner(s)
  <2>1. /\ RequestsDone = MarkedRequests(sessions[s]) /\ ReturnsDone = MarkedReturns(sessions[s])
        /\ ReservationsDone = reservations /\ RfqsDone = rfqs
    BY <1>4, SoleShows DEF MarkOwner
  <2> QED BY <1>3, <1>4, <2>1 DEF MarkOwner, ShowsAfter, Serial!vars
<1>5. CASE CloseRfq(s)
  <2>1. /\ RequestsDone = requests /\ ReturnsDone = returns
        /\ ReservationsDone = reservations \ sessions[s].held
        /\ RfqsDone = [rfqs EXCEPT ![orders[asns[sessions[s].id].po].rfq].status = "Closed"]
    BY <1>5, SoleShows DEF CloseRfq
  <2> QED BY <1>3, <1>5, <2>1 DEF CloseRfq, Close, ShowsAfter, Serial!vars
<1> QED BY <1>4, <1>5

LEMMA ProceedShown ==
    ASSUME TxTyped, UpToDate, OneAtATime, NEW s \in Sessions, Proceed(s)
    PROVE  Serial!Next \/ UNCHANGED Serial!vars
<1> DEFINE me == sessions[s]
<1>1. TypeOK /\ Linked /\ me \in Session /\ SessionLinked(me) /\ sessions \in [Sessions -> Session]
  BY SessionHolds DEF TxTyped, SessionsSound
<1>2. me.pc \in {"loaded", "drawn"} => Shows
  BY SoleShows
<1>3. ASSUME NEW new, Becomes(s, new), new.pc \notin {"marking", "closing"}
      PROVE  ShowsAfter
  <2>1. sessions'[s] = new
    BY <1>1, <1>3 DEF Becomes
  <2> QED BY <1>3, <2>1, SoleShowsAfter
<1>4. Becomes(s, Free) => ShowsAfter
  BY <1>3, FreeSession
<1>5. CASE DrawCode(s)
  <2>1. me.pc = "loaded" /\ UNCHANGED vars /\ me.op # "none"
    BY <1>1, <1>5 DEF DrawCode, SessionLinked
  <2>2. PICK new : Becomes(s, new) /\ new.pc = "drawn"
    <3>1. CASE me.op = "inspect"
      <4>1. NextCode(FoundBy(me)).pc = "drawn"
        BY <1>1, <2>1, <3>1, FoundSession
      <4> QED BY <1>5, <3>1, <4>1 DEF DrawCode
    <3>2. CASE me.op # "inspect"
      <4>1. NextCode(me).pc = "drawn"
        BY <1>1 DEF NextCode, Session
      <4> QED BY <1>5, <3>2, <4>1 DEF DrawCode
    <3> QED BY <3>1, <3>2
  <2> QED BY <1>2, <1>3, <2>1, <2>2, NothingShown
<1>6. CASE Abort(s)
  BY <1>2, <1>4, <1>6, NothingShown DEF Abort
<1>7. CASE CommitStock(s)
  <2>1. Shows /\ ShowsAfter
    BY <1>2, <1>4, <1>7 DEF CommitStock
  <2>2. PICK p \in DOMAIN requests : FulfilFromStock(p)
    BY <1>7, StockAsSerial
  <2>3. Serial!FulfilFromStock(p)
    BY <2>1, <2>2, FulfilShown
  <2> QED BY <2>1, <2>3 DEF Serial!Next, Shows
<1>8. CASE CommitReplenish(s)
  <2>1. Shows /\ ShowsAfter
    BY <1>2, <1>4, <1>8 DEF CommitReplenish
  <2>2. PICK r \in DOMAIN returns : ReplenishFromStock(r)
    BY <1>8, ReplenishAsSerial
  <2>3. Serial!ReplenishFromStock(r)
    BY <2>1, <2>2, ReplenishShown
  <2> QED BY <2>1, <2>3 DEF Serial!Next, Serial!ResolveReturn, Shows
<1>9. CASE CommitPart(s)
  <2>1. Shows /\ ShowsAfter
    BY <1>2, <1>4, <1>9 DEF CommitPart
  <2>2. PICK a \in DOMAIN asns, acc \in 0..MaxCount, rej \in 0..MaxCount :
            Counted(a, acc, rej) /\ ReceivePart(a, acc, rej)
    BY <1>9, PartAsSerial
  <2>3. Serial!ReceivePart(a, acc, rej)
    BY <2>1, <2>2, PartShown
  <2>4. Serial!Counted(a, acc, rej)
    BY <2>2 DEF Counted, Serial!Counted
  <2> QED BY <2>3, <2>4 DEF Serial!Next, Serial!RecordGoodsReceipt
<1>10. CASE CommitRfq(s) \/ CommitDelivery(s)
  BY <1>10, CommitRfqAsSerial, CommitDeliveryAsSerial
<1>11. CASE MarkOwner(s) \/ CloseRfq(s)
  BY <1>11, SecondCommitShown
<1> QED BY <1>5, <1>6, <1>7, <1>8, <1>9, <1>10, <1>11 DEF Proceed

LEMMA SerialStep ==
    ASSUME TxTyped, UpToDate, OneAtATime, [TxNext]_txvars
    PROVE  [Serial!Next \/ cut']_Serial!vars
<1>1. CASE UNCHANGED txvars
  BY <1>1 DEF txvars, Serial!vars, RequestsDone, ReturnsDone, ReservationsDone, RfqsDone,
              BetweenCommits, HalfDone, MarkedRequests, MarkedReturns, MarkSplit
<1>2. CASE OtherHandlers
  <2>1. (\A s \in Sessions : sessions[s].pc = "idle") /\ UNCHANGED sessions
    BY <1>2 DEF OtherHandlers, OneAtATime
  <2> QED BY <1>2, <2>1, NobodyShows, OthersShown
<1>3. ASSUME NEW s \in Sessions, Load(s)
      PROVE  UNCHANGED Serial!vars
  <2>1. sessions[s].pc = "idle" /\ UNCHANGED vars
    BY <1>3, LoadedSession
  <2>2. PICK new \in Session : Becomes(s, new) /\ new.pc = "loaded"
    BY <1>3, LoadedSession DEF Loaded
  <2>3. sessions'[s] = new
    BY <2>2 DEF Becomes, TxTyped, SessionsSound
  <2> QED BY <2>1, <2>2, <2>3, SoleShows, SoleShowsAfter, NothingShown
<1>4. ASSUME NEW s \in Sessions, Proceed(s)
      PROVE  Serial!Next \/ UNCHANGED Serial!vars
  BY <1>4, ProceedShown
<1>5. ASSUME NEW s \in Sessions, Crash(s)
      PROVE  cut' \/ UNCHANGED Serial!vars
  <2>1. CASE sessions[s].pc \in {"marking", "closing"}
    BY <1>5, <2>1 DEF Crash
  <2>2. CASE sessions[s].pc \notin {"marking", "closing"}
    <3>1. sessions'[s] = Free /\ UNCHANGED vars
      BY <1>5 DEF Crash, TxTyped, SessionsSound
    <3> QED BY <2>2, <3>1, SoleShows, SoleShowsAfter, FreeSession, NothingShown
  <2> QED BY <2>1, <2>2
<1> QED BY <1>1, <1>2, <1>3, <1>4, <1>5 DEF TxNext

LEMMA SerialInit == TxInit => Serial!Init /\ UpToDate
<1>1. ASSUME TxInit
      PROVE  \A s \in Sessions : sessions[s].pc = "idle"
  BY <1>1, FreeSession DEF TxInit
<1>2. ASSUME TxInit
      PROVE  Serial!Init
  BY <1>1, <1>2, NobodyShows DEF TxInit, Init, Serial!Init, Shows
<1> QED BY <1>1, <1>2 DEF UpToDate, Writes

\* One handler at a time, the steps between reading and the last commit are those of one
\* action of Fulfilment: nothing up to the first commit, all with it, nothing after it,
\* unless a handler dies between its two commits.  So what is proved of Fulfilment holds of
\* the tables as these handlers leave them.
THEOREM AloneImplementsFulfilment ==
    ASSUME \A s, t \in Sessions : s = t, Alone = TRUE
    PROVE  TxSpec => ImplementsFulfilment
<1>1. OneAtATime
  BY DEF OneAtATime
<1>2. TxInit => Serial!Init /\ UpToDate /\ TxTyped
  BY SerialInit, InitTypes, FreeSession DEF TxInit, TxTyped, SessionsSound
<1>3. TxTyped /\ UpToDate /\ [TxNext]_txvars => TxTyped' /\ UpToDate'
  BY <1>1, TxTypedStep, UpToDateStep
<1>4. TxTyped /\ UpToDate /\ [TxNext]_txvars => [Serial!Next \/ cut']_Serial!vars
  BY <1>1, SerialStep
<1> QED BY <1>2, <1>3, <1>4, PTL DEF TxSpec, ImplementsFulfilment

\* If none dies, they are an execution of Fulfilment.
THEOREM AloneIsSerial ==
    ASSUME \A s, t \in Sessions : s = t, Alone = TRUE, Crashes = FALSE
    PROVE  TxSpec => Serial!Spec
<1>1. TxSpec => ImplementsFulfilment
  BY AloneImplementsFulfilment
<1>2. TxSpec => [](cut = FALSE)
  BY NeverCut
<1>3. [Serial!Next \/ cut']_Serial!vars /\ (cut = FALSE)' => [Serial!Next]_Serial!vars
  OBVIOUS
<1> QED BY <1>1, <1>2, <1>3, PTL DEF ImplementsFulfilment, Serial!Spec
=============================================================================
