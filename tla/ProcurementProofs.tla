--------------------------- MODULE ProcurementProofs ---------------------------
(***************************************************************************)
(* Theorems about procurement, for every value of the constants: Sourcing, *)
(* from a request for quotation to the delivery of the order, then Supply, *)
(* from the acceptance of an order to the payment of its invoices.         *)
(***************************************************************************)
EXTENDS Sourcing, Supply, FiniteSetTheorems, Tables

-----------------------------------------------------------------------------
(* What a step does to each table: the actions that write it *)

LEMMA RfqsStep ==
    [Next]_vars =>
        \/ UNCHANGED rfqs
        \/ \E chosen \in SUBSET Vendors : CreateRfq(chosen)
        \/ \E s \in Sessions : CommitQuotation(s) \/ MarkGenerated(s)
        \/ \E o \in DOMAIN orders : Deliver(o)
BY DEF vars, tables, Next, Proceed, SetVendorStatus, OpenQuotation, CountResponders,
       BeginSelection, CommitOrder, SelectionFails, OpenOrder, Accept, Reject, AnswerOrder,
       Crash

LEMMA QuotationsStep ==
    [Next]_vars =>
        \/ UNCHANGED quotations
        \/ \E s \in Sessions : CommitQuotation(s) \/ CommitOrder(s)
BY DEF vars, tables, Next, Proceed, SetVendorStatus, CreateRfq, OpenQuotation, CountResponders,
       BeginSelection, SelectionFails, MarkGenerated, OpenOrder, Accept, Reject, AnswerOrder,
       Deliver, Crash

LEMMA OrdersStep ==
    [Next]_vars =>
        \/ UNCHANGED orders
        \/ \E s \in Sessions : CommitOrder(s) \/ Accept(s) \/ Reject(s)
        \/ \E o \in DOMAIN orders : Deliver(o)
BY DEF vars, tables, Next, Proceed, SetVendorStatus, CreateRfq, OpenQuotation, CountResponders,
       CommitQuotation, BeginSelection, SelectionFails, MarkGenerated, OpenOrder, Crash

\* A session begins to work.
Begins(s) ==
    \/ \E v \in Vendors, r \in DOMAIN rfqs : OpenQuotation(s, v, r)
    \/ \E q \in DOMAIN quotations : BeginSelection(s, q)
    \/ \E o \in DOMAIN orders : OpenOrder(s, o)

\* A session is done, or gone.
Ends(s) ==
    \/ CommitQuotation(s) \/ SelectionFails(s) \/ MarkGenerated(s)
    \/ Accept(s) \/ Reject(s) \/ Crash(s)

LEMMA SessionsStep ==
    [Next]_vars =>
        \/ UNCHANGED sessions
        \/ \E s \in Sessions : Begins(s) \/ CountResponders(s) \/ CommitOrder(s) \/ Ends(s)
BY DEF vars, Next, Proceed, Begins, Ends, SetVendorStatus, CreateRfq, Deliver

LEMMA Ended == ASSUME NEW s \in Sessions, Ends(s) PROVE Go(s, Idle)
BY DEF Ends, CommitQuotation, SelectionFails, MarkGenerated, Accept, Reject, AnswerOrder, Crash,
       Stop

-----------------------------------------------------------------------------
(* Types *)

\* The row a session works on is there; who answers was invited.
Refers(session) ==
    /\ session.pc \in {"counting", "answered"} =>
          session.row \in DOMAIN rfqs /\ session.vendor \in rfqs[session.row].invited
    /\ session.pc \in {"selecting", "marking"} => session.row \in DOMAIN quotations
    /\ session.pc = "deciding" => session.row \in DOMAIN orders

\* Only who was invited quotes.
InvitedQuote ==
    \A q \in DOMAIN quotations : quotations[q].vendor \in rfqs[quotations[q].rfq].invited

Sound ==
    /\ TypeOK
    /\ \A s \in Sessions : Refers(sessions[s])
    /\ InvitedQuote

LEMMA Rows ==
    ASSUME Sound
    PROVE  /\ Len(rfqs) \in Nat /\ DOMAIN rfqs = 1..Len(rfqs)
           /\ Len(quotations) \in Nat /\ DOMAIN quotations = 1..Len(quotations)
           /\ Len(orders) \in Nat /\ DOMAIN orders = 1..Len(orders)
           /\ \A r \in DOMAIN rfqs : rfqs[r] \in Rfq
           /\ \A q \in DOMAIN quotations : quotations[q] \in Quotation
           /\ \A o \in DOMAIN orders : orders[o] \in Order
           /\ \A s \in Sessions : sessions[s] \in Session /\ Refers(sessions[s])
BY LenProperties, ElementOfSeq DEF Sound, TypeOK

LEMMA IdleTyped == Idle \in Session /\ Refers(Idle)
BY DEF Idle, Session, RfqStatuses, Refers

\* An RFQ's status changes, or an RFQ is added; who was invited stays so.
LEMMA RfqChange ==
    ASSUME Sound, [Next]_vars
    PROVE  /\ rfqs' \in Seq(Rfq)
           /\ DOMAIN rfqs \subseteq DOMAIN rfqs'
           /\ \A r \in DOMAIN rfqs : rfqs'[r].invited = rfqs[r].invited
           /\ \/ \E chosen \in SUBSET Vendors : CreateRfq(chosen)
              \/ DOMAIN rfqs' = DOMAIN rfqs
<1>0. rfqs \in Seq(Rfq) /\ DOMAIN rfqs = 1..Len(rfqs) /\ Len(rfqs) \in Nat
  BY Rows DEF Sound, TypeOK
<1>1. CASE \E chosen \in SUBSET Vendors : CreateRfq(chosen)
  <2> PICK chosen \in SUBSET Vendors : CreateRfq(chosen)
    BY <1>1
  <2>1. NewRfq(chosen) \in Rfq
    BY DEF NewRfq, Rfq, RfqStatuses
  <2>2. rfqs' = Append(rfqs, NewRfq(chosen))
    BY DEF CreateRfq
  <2>3. /\ rfqs' \in Seq(Rfq)
        /\ DOMAIN rfqs \subseteq DOMAIN rfqs'
        /\ \A r \in DOMAIN rfqs : rfqs'[r] = rfqs[r]
    BY <1>0, <2>1, <2>2, RowAdded
  <2> QED BY <1>1, <2>3
<1>2. ASSUME NEW r, NEW status \in RfqStatuses, rfqs' = [rfqs EXCEPT ![r].status = status]
      PROVE  /\ rfqs' \in Seq(Rfq)
             /\ DOMAIN rfqs' = DOMAIN rfqs
             /\ \A x \in DOMAIN rfqs : rfqs'[x].invited = rfqs[x].invited
  <2> DEFINE row == [rfqs[r] EXCEPT !.status = status]
  <2>1. rfqs' = [rfqs EXCEPT ![r] = row]
    BY <1>2
  <2>2. r \in DOMAIN rfqs => row \in Rfq /\ row.invited = rfqs[r].invited
    BY Rows DEF Rfq
  <2> HIDE DEF row
  <2>3. CASE r \in DOMAIN rfqs
    BY <1>0, <2>1, <2>2, <2>3, RowChanged
  <2>4. CASE r \notin DOMAIN rfqs
    BY <1>0, <2>1, <2>4, RowMissing
  <2> QED BY <2>3, <2>4
<1>3. CASE \E s \in Sessions : CommitQuotation(s)
  <2> PICK s \in Sessions : CommitQuotation(s)
    BY <1>3
  <2>1. sessions[s].next \in RfqStatuses
    BY Rows DEF Session
  <2>2. \/ UNCHANGED rfqs
        \/ rfqs' = [rfqs EXCEPT ![sessions[s].row].status = sessions[s].next]
    BY DEF CommitQuotation, Written
  <2> QED BY <1>0, <1>2, <2>1, <2>2
<1>4. CASE \E s \in Sessions : MarkGenerated(s)
  <2> PICK s \in Sessions : MarkGenerated(s)
    BY <1>4
  <2> DEFINE r == quotations[sessions[s].row].rfq
  <2>1. rfqs' = [rfqs EXCEPT ![r].status = "Purchase Order Generated"]
    BY DEF MarkGenerated
  <2> QED BY <1>2, <2>1 DEF RfqStatuses
<1>5. CASE \E o \in DOMAIN orders : Deliver(o)
  <2> PICK o \in DOMAIN orders : Deliver(o)
    BY <1>5
  <2>1. rfqs' = [rfqs EXCEPT ![orders[o].rfq].status = "Closed"]
    BY DEF Deliver
  <2> QED BY <1>2, <2>1 DEF RfqStatuses
<1> QED BY <1>0, <1>1, <1>3, <1>4, <1>5, RfqsStep

\* The quotation a session commits.
LEMMA QuotationCommitted ==
    ASSUME Sound, NEW s \in Sessions, CommitQuotation(s)
    PROVE  \E row \in Quotation :
              /\ quotations' = Append(quotations, row)
              /\ row.rfq = sessions[s].row
              /\ row.vendor = sessions[s].vendor
              /\ row.status = "Submitted"
              /\ row.rfq \in DOMAIN rfqs
              /\ row.vendor \in rfqs[row.rfq].invited
<1> DEFINE row == [rfq |-> sessions[s].row, vendor |-> sessions[s].vendor,
                   status |-> "Submitted"]
<1>1. row.rfq \in DOMAIN rfqs /\ row.vendor \in rfqs[row.rfq].invited
  BY Rows DEF CommitQuotation, Refers
<1>2. row \in Quotation
  BY <1>1, Rows DEF Quotation, Rfq
<1>3. quotations' = Append(quotations, row)
  BY DEF CommitQuotation
<1> QED BY <1>1, <1>2, <1>3

\* A quotation is approved.
LEMMA QuotationApproved ==
    ASSUME Sound, NEW q \in DOMAIN quotations
    PROVE  /\ Approved(q) \in Seq(Quotation)
           /\ DOMAIN Approved(q) = DOMAIN quotations
           /\ Approved(q)[q].status = "Approved"
           /\ \A p \in DOMAIN quotations :
                /\ Approved(q)[p].rfq = quotations[p].rfq
                /\ Approved(q)[p].vendor = quotations[p].vendor
                /\ p # q => Approved(q)[p] = quotations[p]
<1> DEFINE row == [quotations[q] EXCEPT !.status = "Approved"]
<1>1. /\ row \in Quotation /\ row.status = "Approved"
      /\ row.rfq = quotations[q].rfq /\ row.vendor = quotations[q].vendor
  BY Rows DEF Quotation
<1>2. Approved(q) = [quotations EXCEPT ![q] = row]
  BY DEF Approved
<1>3. quotations \in Seq(Quotation)
  BY DEF Sound, TypeOK
<1> HIDE DEF row
<1> QED BY <1>1, <1>2, <1>3, RowChanged

LEMMA QuotationChange ==
    ASSUME Sound, [Next]_vars
    PROVE  /\ quotations' \in Seq(Quotation)
           /\ DOMAIN quotations \subseteq DOMAIN quotations'
           /\ \A q \in DOMAIN quotations :
                /\ quotations'[q].rfq = quotations[q].rfq
                /\ quotations'[q].vendor = quotations[q].vendor
           /\ \A q \in DOMAIN quotations' :
                /\ quotations'[q].rfq \in DOMAIN rfqs
                /\ quotations'[q].vendor \in rfqs[quotations'[q].rfq].invited
<1>0. /\ quotations \in Seq(Quotation)
      /\ \A q \in DOMAIN quotations :
            /\ quotations[q].rfq \in DOMAIN rfqs
            /\ quotations[q].vendor \in rfqs[quotations[q].rfq].invited
  BY DEF Sound, TypeOK, InvitedQuote
<1>1. CASE UNCHANGED quotations
  BY <1>0, <1>1
<1>2. CASE \E s \in Sessions : CommitQuotation(s)
  <2>1. PICK row \in Quotation :
               /\ quotations' = Append(quotations, row)
               /\ row.rfq \in DOMAIN rfqs
               /\ row.vendor \in rfqs[row.rfq].invited
    BY <1>2, QuotationCommitted
  <2> QED BY <1>0, <2>1, RowAdded
<1>3. CASE \E s \in Sessions : CommitOrder(s)
  <2> PICK s \in Sessions : CommitOrder(s)
    BY <1>3
  <2>1. sessions[s].row \in DOMAIN quotations /\ quotations' = Approved(sessions[s].row)
    BY Rows DEF CommitOrder, Refers
  <2> QED BY <1>0, <2>1, QuotationApproved
<1> QED BY <1>1, <1>2, <1>3, QuotationsStep

LEMMA NewOrderTyped ==
    ASSUME Sound, NEW q \in DOMAIN quotations
    PROVE  /\ NewOrder(q) \in Order
           /\ NewOrder(q).quotation = q
           /\ NewOrder(q).rfq = quotations[q].rfq
           /\ NewOrder(q).vendor = quotations[q].vendor
           /\ NewOrder(q).status = "Pending Acceptance"
<1>1. q \in Nat /\ quotations[q].rfq \in Nat /\ quotations[q].vendor \in Vendors
  BY Rows DEF Quotation
<1>2. "Pending Acceptance" \in OrderStatuses
  BY DEF OrderStatuses
<1> QED BY <1>1, <1>2 DEF NewOrder, Order

\* The status of an order changes.
LEMMA OrderMoved ==
    ASSUME Sound, NEW o \in DOMAIN orders, NEW status \in OrderStatuses,
           orders' = [orders EXCEPT ![o].status = status]
    PROVE  /\ orders' \in Seq(Order)
           /\ DOMAIN orders' = DOMAIN orders
           /\ orders'[o].status = status
           /\ \A p \in DOMAIN orders :
                /\ orders'[p].rfq = orders[p].rfq
                /\ orders'[p].quotation = orders[p].quotation
                /\ orders'[p].vendor = orders[p].vendor
                /\ p # o => orders'[p] = orders[p]
<1> DEFINE row == [orders[o] EXCEPT !.status = status]
<1>1. /\ row \in Order /\ row.status = status /\ row.rfq = orders[o].rfq
      /\ row.quotation = orders[o].quotation /\ row.vendor = orders[o].vendor
  BY Rows DEF Order
<1>2. orders' = [orders EXCEPT ![o] = row] /\ orders \in Seq(Order)
  BY DEF Sound, TypeOK
<1> HIDE DEF row
<1> QED BY <1>1, <1>2, RowChanged

\* How orders change: one is added, or one moves.
LEMMA OrderChange ==
    ASSUME Sound, [Next]_vars
    PROVE  \/ UNCHANGED orders
           \/ \E s \in Sessions, q \in DOMAIN quotations :
                CommitOrder(s) /\ sessions[s].row = q /\ orders' = Append(orders, NewOrder(q))
           \/ \E s \in Sessions, o \in DOMAIN orders, status \in {"Accepted", "Rejected"} :
                /\ sessions[s].pc = "deciding" /\ sessions[s].row = o
                /\ orders' = [orders EXCEPT ![o].status = status]
                /\ UNCHANGED quotations
                /\ Ends(s)
           \/ \E o \in DOMAIN orders :
                /\ orders[o].status = "Accepted"
                /\ orders' = [orders EXCEPT ![o].status = "Delivered"]
                /\ UNCHANGED <<quotations, sessions>>
<1>1. CASE \E s \in Sessions : CommitOrder(s)
  BY <1>1, Rows DEF CommitOrder, Refers
<1>2. CASE \E s \in Sessions : Accept(s) \/ Reject(s)
  BY <1>2, Rows DEF Accept, Reject, AnswerOrder, Refers, Ends
<1>3. CASE \E o \in DOMAIN orders : Deliver(o)
  BY <1>3 DEF Deliver
<1> QED BY <1>1, <1>2, <1>3, OrdersStep

LEMMA OrdersTyped ==
    ASSUME Sound, [Next]_vars
    PROVE  /\ orders' \in Seq(Order)
           /\ DOMAIN orders \subseteq DOMAIN orders'
           /\ \A o \in DOMAIN orders' : orders'[o].quotation \in DOMAIN quotations
<1>0. orders \in Seq(Order) /\ \A o \in DOMAIN orders : orders[o].quotation \in DOMAIN quotations
  BY DEF Sound, TypeOK
<1>1. CASE UNCHANGED orders
  BY <1>0, <1>1
<1>2. CASE \E q \in DOMAIN quotations : orders' = Append(orders, NewOrder(q))
  <2> PICK q \in DOMAIN quotations : orders' = Append(orders, NewOrder(q))
    BY <1>2
  <2>1. NewOrder(q) \in Order /\ NewOrder(q).quotation = q
    BY NewOrderTyped
  <2> QED BY <1>0, <2>1, RowAdded
<1>3. CASE \E o \in DOMAIN orders, status \in OrderStatuses :
             orders' = [orders EXCEPT ![o].status = status]
  BY <1>0, <1>3, OrderMoved
<1>4. {"Accepted", "Rejected", "Delivered"} \subseteq OrderStatuses
  BY DEF OrderStatuses
<1> QED BY <1>1, <1>2, <1>3, <1>4, OrderChange

\* A session begins with a row that is there.
LEMMA Begun ==
    ASSUME Sound, NEW s \in Sessions, Begins(s)
    PROVE  /\ \E state \in Session :
                /\ Go(s, state) /\ Refers(state)
                /\ state.pc \in {"counting", "selecting", "deciding"}
                /\ state.pc = "deciding" => Pending(state.row) /\ MayAnswer(state.row)
           /\ UNCHANGED tables
<1>0. /\ \A r \in DOMAIN rfqs : r \in Nat /\ rfqs[r].status \in RfqStatuses
      /\ \A q \in DOMAIN quotations : q \in Nat
      /\ \A o \in DOMAIN orders : o \in Nat
      /\ NextCode \in Nat
  BY Rows DEF Rfq, NextCode
<1>1. CASE \E v \in Vendors, r \in DOMAIN rfqs : OpenQuotation(s, v, r)
  <2> PICK v \in Vendors, r \in DOMAIN rfqs : OpenQuotation(s, v, r)
    BY <1>1
  <2> DEFINE state == [Idle EXCEPT !.pc = "counting", !.row = r, !.vendor = v,
                                   !.loaded = rfqs[r].status]
  <2>1. /\ state.pc = "counting" /\ state.row = r /\ state.vendor = v
        /\ state \in Session
    BY <1>0 DEF Idle, Session, RfqStatuses
  <2>2. Go(s, state) /\ UNCHANGED tables /\ v \in rfqs[r].invited
    BY DEF OpenQuotation
  <2> HIDE DEF state
  <2> QED BY <2>1, <2>2 DEF Refers
<1>2. CASE \E q \in DOMAIN quotations : BeginSelection(s, q)
  <2> PICK q \in DOMAIN quotations : BeginSelection(s, q)
    BY <1>2
  <2> DEFINE state == [Idle EXCEPT !.pc = "selecting", !.row = q, !.code = NextCode]
  <2>1. state.pc = "selecting" /\ state.row = q /\ state \in Session
    BY <1>0 DEF Idle, Session, RfqStatuses
  <2>2. Go(s, state) /\ UNCHANGED tables
    BY DEF BeginSelection
  <2> HIDE DEF state
  <2> QED BY <2>1, <2>2 DEF Refers
<1>3. CASE \E o \in DOMAIN orders : OpenOrder(s, o)
  <2> PICK o \in DOMAIN orders : OpenOrder(s, o)
    BY <1>3
  <2> DEFINE state == [Idle EXCEPT !.pc = "deciding", !.row = o]
  <2>1. state.pc = "deciding" /\ state.row = o /\ state \in Session
    BY <1>0 DEF Idle, Session, RfqStatuses
  <2>2. Go(s, state) /\ UNCHANGED tables /\ Pending(o) /\ MayAnswer(o)
    BY DEF OpenOrder
  <2> HIDE DEF state
  <2> QED BY <2>1, <2>2 DEF Refers
<1> QED BY <1>1, <1>2, <1>3 DEF Begins

\* submit_quotation has counted.
LEMMA Answering ==
    ASSUME Sound, NEW s \in Sessions, CountResponders(s)
    PROVE  \E state \in Session :
              /\ Go(s, state) /\ Refers(state)
              /\ state.pc = "answered"
              /\ state.next = StatusByResponse(state.row, state.vendor)
<1> DEFINE state == [sessions[s] EXCEPT !.pc = "answered",
                        !.next = StatusByResponse(sessions[s].row, sessions[s].vendor)]
<1>1. sessions[s] \in Session /\ Refers(sessions[s]) /\ sessions[s].pc = "counting"
  BY Rows DEF CountResponders
<1>2. StatusByResponse(sessions[s].row, sessions[s].vendor) \in RfqStatuses
  BY DEF StatusByResponse, RfqStatuses
<1>3. /\ state \in Session /\ state.pc = "answered"
      /\ state.row = sessions[s].row /\ state.vendor = sessions[s].vendor
      /\ state.next = StatusByResponse(sessions[s].row, sessions[s].vendor)
  BY <1>1, <1>2 DEF Session
<1>4. Go(s, state)
  BY DEF CountResponders
<1> HIDE DEF state
<1> QED BY <1>1, <1>3, <1>4 DEF Refers

\* select_vendor has committed the order.
LEMMA Marking ==
    ASSUME Sound, NEW s \in Sessions, CommitOrder(s)
    PROVE  \E state \in Session : Go(s, state) /\ Refers(state) /\ state.pc = "marking"
<1> DEFINE state == [sessions[s] EXCEPT !.pc = "marking"]
<1>1. sessions[s] \in Session /\ Refers(sessions[s]) /\ sessions[s].pc = "selecting"
  BY Rows DEF CommitOrder
<1>2. state \in Session /\ state.pc = "marking" /\ state.row = sessions[s].row
  BY <1>1 DEF Session
<1>3. Go(s, state)
  BY DEF CommitOrder
<1> HIDE DEF state
<1> QED BY <1>1, <1>2, <1>3 DEF Refers

\* The session of s, and no other, is replaced.
LEMMA SessionGoes ==
    ASSUME Sound, NEW s \in Sessions, NEW state, Go(s, state)
    PROVE  /\ sessions'[s] = state
           /\ \A t \in Sessions \ {s} : sessions'[t] = sessions[t]
BY DEF Sound, TypeOK, Go

LEMMA SessionChange ==
    ASSUME Sound, [Next]_vars
    PROVE  /\ sessions' \in [Sessions -> Session]
           /\ \A s \in Sessions : Refers(sessions'[s])
<1>0. sessions \in [Sessions -> Session] /\ \A s \in Sessions : Refers(sessions[s])
  BY DEF Sound, TypeOK
<1>1. CASE UNCHANGED sessions
  BY <1>0, <1>1
<1>2. CASE \E s \in Sessions : Begins(s) \/ CountResponders(s) \/ CommitOrder(s) \/ Ends(s)
  <2> PICK s \in Sessions : Begins(s) \/ CountResponders(s) \/ CommitOrder(s) \/ Ends(s)
    BY <1>2
  <2>1. PICK state \in Session : Go(s, state) /\ Refers(state)
    BY Begun, Answering, Marking, Ended, IdleTyped
  <2> QED BY <1>0, <2>1, EntryChanged, SessionGoes DEF Go
<1> QED BY <1>1, <1>2, SessionsStep

LEMMA SoundStep == ASSUME Sound, [Next]_vars PROVE Sound'
<1>1. active' \subseteq Vendors
  <2>1. active \subseteq Vendors
    BY DEF Sound, TypeOK
  <2>2. UNCHANGED active \/ \E v \in Vendors : SetVendorStatus(v)
    BY DEF vars, tables, Next, Proceed, CreateRfq, OpenQuotation, CountResponders,
           CommitQuotation, BeginSelection, CommitOrder, SelectionFails, MarkGenerated,
           OpenOrder, Accept, Reject, AnswerOrder, Deliver, Crash
  <2> QED BY <2>1, <2>2 DEF SetVendorStatus
<1>2. /\ rfqs' \in Seq(Rfq) /\ quotations' \in Seq(Quotation) /\ orders' \in Seq(Order)
      /\ sessions' \in [Sessions -> Session]
  BY RfqChange, QuotationChange, OrdersTyped, SessionChange
<1>3. /\ DOMAIN rfqs \subseteq DOMAIN rfqs'
      /\ DOMAIN quotations \subseteq DOMAIN quotations'
      /\ DOMAIN orders \subseteq DOMAIN orders'
      /\ \A r \in DOMAIN rfqs : rfqs'[r].invited = rfqs[r].invited
  BY RfqChange, QuotationChange, OrdersTyped
<1>4. \A q \in DOMAIN quotations' :
         /\ quotations'[q].rfq \in DOMAIN rfqs'
         /\ quotations'[q].vendor \in rfqs'[quotations'[q].rfq].invited
  BY <1>3, QuotationChange
<1>5. \A o \in DOMAIN orders' : orders'[o].quotation \in DOMAIN quotations'
  BY <1>3, OrdersTyped
<1>6. \A s \in Sessions : Refers(sessions[s])'
  BY <1>3, SessionChange DEF Refers
<1> QED BY <1>1, <1>2, <1>4, <1>5, <1>6 DEF Sound, TypeOK, InvitedQuote, Refers

LEMMA SoundAlways == Spec => []Sound
<1>1. Init => Sound
  <2> SUFFICES ASSUME Init PROVE Sound
    OBVIOUS
  <2>1. sessions \in [Sessions -> Session] /\ \A s \in Sessions : Refers(sessions[s])
    BY IdleTyped DEF Init
  <2> QED BY <2>1, EmptySeq DEF Init, Sound, TypeOK, InvitedQuote
<1>2. Sound /\ [Next]_vars => Sound'
  BY SoundStep
<1> QED BY <1>1, <1>2, PTL DEF Spec

\* Every variable keeps its type, and rows and sessions name rows that exist.
THEOREM TypeCorrect == Spec => []TypeOK
<1>1. Sound => TypeOK
  BY DEF Sound
<1> QED BY <1>1, SoundAlways, PTL

-----------------------------------------------------------------------------
(* Approved quotations and orders *)

LEMMA ApprovedStep == ASSUME Sound, ApprovedIsOrdered, [Next]_vars PROVE ApprovedIsOrdered'
<1>0. /\ quotations \in Seq(Quotation) /\ orders \in Seq(Order)
      /\ \A q \in DOMAIN quotations :
            quotations[q].status = "Approved" <=> \E o \in DOMAIN orders : orders[o].quotation = q
      /\ \A o \in DOMAIN orders :
            /\ orders[o].quotation \in DOMAIN quotations
            /\ orders[o].rfq = quotations[orders[o].quotation].rfq
            /\ orders[o].vendor = quotations[orders[o].quotation].vendor
  BY DEF Sound, TypeOK, ApprovedIsOrdered
<1>1. CASE \E s \in Sessions : CommitOrder(s)
  <2> PICK s \in Sessions : CommitOrder(s)
    BY <1>1
  <2> DEFINE q == sessions[s].row
  <2>1. q \in DOMAIN quotations
    BY Rows DEF CommitOrder, Refers
  <2>2. orders' = Append(orders, NewOrder(q)) /\ quotations' = Approved(q)
    BY DEF CommitOrder
  <2> HIDE DEF q
  <2>3. /\ DOMAIN quotations' = DOMAIN quotations
        /\ quotations'[q].status = "Approved"
        /\ \A p \in DOMAIN quotations :
              /\ quotations'[p].rfq = quotations[p].rfq
              /\ quotations'[p].vendor = quotations[p].vendor
              /\ p # q => quotations'[p] = quotations[p]
    BY <2>1, <2>2, QuotationApproved
  <2> DEFINE n == Len(orders) + 1
  <2>4. /\ DOMAIN orders' = DOMAIN orders \cup {n}
        /\ n \notin DOMAIN orders
        /\ orders'[n] = NewOrder(q)
        /\ \A o \in DOMAIN orders : orders'[o] = orders[o]
    <3>1. NewOrder(q) \in Order
      BY <2>1, NewOrderTyped
    <3>2. /\ Len(orders) \in Nat
          /\ DOMAIN orders = 1..Len(orders)
          /\ DOMAIN orders' = 1..(Len(orders) + 1)
          /\ \A o \in DOMAIN orders : orders'[o] = orders[o]
          /\ orders'[n] = NewOrder(q)
      BY <1>0, <2>2, <3>1, RowAdded
    <3> QED BY <3>2
  <2> HIDE DEF n
  <2>5. /\ orders'[n].quotation = q
        /\ orders'[n].rfq = quotations'[q].rfq
        /\ orders'[n].vendor = quotations'[q].vendor
    BY <2>1, <2>3, <2>4, NewOrderTyped
  <2>6. \A p \in DOMAIN quotations :
           quotations'[p].status = "Approved" <=>
               \E o \in DOMAIN orders' : orders'[o].quotation = p
    <3> TAKE p \in DOMAIN quotations
    <3>1. CASE p = q
      BY <2>3, <2>4, <2>5, <3>1
    <3>2. CASE p # q
      BY <1>0, <2>3, <2>4, <2>5, <3>2
    <3> QED BY <3>1, <3>2
  <2>7. \A o \in DOMAIN orders' :
           /\ orders'[o].rfq = quotations'[orders'[o].quotation].rfq
           /\ orders'[o].vendor = quotations'[orders'[o].quotation].vendor
    BY <1>0, <2>1, <2>3, <2>4, <2>5
  <2> QED BY <2>3, <2>6, <2>7 DEF ApprovedIsOrdered
<1>2. CASE UNCHANGED quotations /\ ~ \E s \in Sessions : CommitOrder(s)
  <2>1. /\ DOMAIN orders' = DOMAIN orders
        /\ \A o \in DOMAIN orders :
              /\ orders'[o].rfq = orders[o].rfq
              /\ orders'[o].quotation = orders[o].quotation
              /\ orders'[o].vendor = orders[o].vendor
    <3>1. CASE UNCHANGED orders
      BY <3>1
    <3>2. CASE \E o \in DOMAIN orders, status \in OrderStatuses :
                 orders' = [orders EXCEPT ![o].status = status]
      BY <3>2, OrderMoved
    <3>3. {"Accepted", "Rejected", "Delivered"} \subseteq OrderStatuses
      BY DEF OrderStatuses
    <3> QED BY <1>2, <3>1, <3>2, <3>3, OrderChange
  <2> QED BY <1>0, <1>2, <2>1 DEF ApprovedIsOrdered
<1>3. CASE \E s \in Sessions : CommitQuotation(s)
  <2> PICK s \in Sessions : CommitQuotation(s)
    BY <1>3
  <2>1. UNCHANGED orders
    BY DEF CommitQuotation
  <2>2. PICK row \in Quotation :
               quotations' = Append(quotations, row) /\ row.status = "Submitted"
    BY QuotationCommitted
  <2> DEFINE n == Len(quotations) + 1
  <2>3. /\ DOMAIN quotations' = DOMAIN quotations \cup {n}
        /\ n \notin DOMAIN quotations
        /\ quotations'[n].status = "Submitted"
        /\ \A q \in DOMAIN quotations : quotations'[q] = quotations[q]
    BY <1>0, <2>2, RowAdded
  <2> HIDE DEF n
  <2>4. \A o \in DOMAIN orders : orders[o].quotation # n
    BY <1>0, <2>3
  <2> QED BY <1>0, <2>1, <2>3, <2>4 DEF ApprovedIsOrdered
<1> QED BY <1>1, <1>2, <1>3, QuotationsStep

\* However sessions interleave, the first commit of select_vendor keeps the quotation
\* approved and the order of it together.
THEOREM ApprovedAreOrdered == Spec => []ApprovedIsOrdered
<1>1. Init => ApprovedIsOrdered
  BY DEF Init, ApprovedIsOrdered
<1>2. Sound /\ ApprovedIsOrdered /\ [Next]_vars => ApprovedIsOrdered'
  BY ApprovedStep
<1> QED BY <1>1, <1>2, SoundAlways, PTL DEF Spec

-----------------------------------------------------------------------------
(* Comparisons *)

\* Those who answered are among the finitely many invited.
LEMMA RespondersInvited ==
    ASSUME Sound, NEW r \in DOMAIN rfqs
    PROVE  /\ Responders(r) \subseteq rfqs[r].invited
           /\ IsFiniteSet(rfqs[r].invited)
<1>1. rfqs[r].invited \subseteq Vendors /\ IsFiniteSet(Vendors)
  BY Rows, SourcingAssumption DEF Rfq
<1>2. IsFiniteSet(rfqs[r].invited)
  BY <1>1, FS_Subset
<1> QED BY <1>2 DEF Responders, Sound, InvitedQuote

LEMMA Between == \A m, n \in Nat : m >= n /\ m <= n => n = m
OBVIOUS

\* As many answers as invitations are the answers of all invited.
LEMMA Counted ==
    ASSUME Sound, NEW r \in DOMAIN rfqs, NEW v \in rfqs[r].invited,
           StatusByResponse(r, v) = "Ready for Comparison"
    PROVE  rfqs[r].invited \subseteq Responders(r) \cup {v}
<1> DEFINE I == rfqs[r].invited
           R == Responders(r) \cup {v}
<1>1. R \in SUBSET I /\ IsFiniteSet(I)
  BY RespondersInvited
<1>2. Cardinality(R) >= Cardinality(I)
  BY DEF StatusByResponse
<1>3. /\ Cardinality(R) <= Cardinality(I)
      /\ Cardinality(I) = Cardinality(R) => I = R
  BY <1>1, FS_Subset
<1>4. Cardinality(R) \in Nat /\ Cardinality(I) \in Nat
  BY <1>1, FS_Subset, FS_CardinalityType
<1> HIDE DEF I, R
<1>5. Cardinality(I) = Cardinality(R)
  BY <1>2, <1>3, <1>4, Between
<1>6. I = R
  BY <1>3, <1>5
<1> QED BY <1>6 DEF I, R

\* Answers are not withdrawn.
LEMMA RespondersStay ==
    ASSUME Sound, [Next]_vars, NEW r
    PROVE  Responders(r) \subseteq Responders(r)'
BY QuotationChange DEF Responders

\* A status a session is about to write with its quotation is right with that quotation.
ReadyCurrent ==
    /\ ReadyWhenAnswered
    /\ \A s \in Sessions :
          sessions[s].pc = "answered" /\ sessions[s].next = "Ready for Comparison" =>
              rfqs[sessions[s].row].invited
                  \subseteq Responders(sessions[s].row) \cup {sessions[s].vendor}

LEMMA SessionReady ==
    ASSUME Sound, ReadyCurrent, [Next]_vars, NEW s \in Sessions, NEW r, NEW v,
           sessions'[s].pc = "answered", sessions'[s].next = "Ready for Comparison",
           r = sessions'[s].row, v = sessions'[s].vendor
    PROVE  rfqs'[r].invited \subseteq Responders(r)' \cup {v}
<1>0. Responders(r) \subseteq Responders(r)'
  BY RespondersStay
<1>1. CASE sessions'[s] = sessions[s]
  <2>1. r \in DOMAIN rfqs
    BY <1>1, Rows DEF Refers
  <2>2. rfqs'[r].invited = rfqs[r].invited
    BY <2>1, RfqChange
  <2>3. rfqs[r].invited \subseteq Responders(r) \cup {v}
    BY <1>1 DEF ReadyCurrent
  <2> QED BY <1>0, <2>2, <2>3
<1>2. CASE CountResponders(s)
  <2>1. PICK state \in Session :
               /\ Go(s, state) /\ Refers(state) /\ state.pc = "answered"
               /\ state.next = StatusByResponse(state.row, state.vendor)
    BY <1>2, Answering
  <2>2. sessions'[s] = state
    BY <2>1, SessionGoes
  <2>3. r \in DOMAIN rfqs /\ v \in rfqs[r].invited
    BY <2>1, <2>2 DEF Refers
  <2>4. rfqs[r].invited \subseteq Responders(r) \cup {v}
    BY <2>1, <2>2, <2>3, Counted
  <2>5. rfqs'[r].invited = rfqs[r].invited
    BY <2>3, RfqChange
  <2> QED BY <1>0, <2>4, <2>5
<1>3. ASSUME NEW t \in Sessions, Begins(t) \/ CommitOrder(t) \/ Ends(t)
      PROVE  sessions'[s] = sessions[s]
  <2>1. \E state : Go(t, state) /\ state.pc # "answered"
    <3>1. CASE Begins(t)
      <4>1. PICK state \in Session : Go(t, state) /\ state.pc \in {"counting", "selecting", "deciding"}
        BY <3>1, Begun
      <4> QED BY <4>1
    <3>2. CASE CommitOrder(t)
      BY <3>2, Marking
    <3>3. CASE Ends(t)
      <4>1. Idle.pc # "answered"
        BY DEF Idle
      <4> QED BY <3>3, <4>1, Ended
    <3> QED BY <1>3, <3>1, <3>2, <3>3
  <2> QED BY <2>1, SessionGoes
<1>4. ASSUME NEW t \in Sessions \ {s}, CountResponders(t)
      PROVE  sessions'[s] = sessions[s]
  BY <1>4, SessionGoes DEF CountResponders
<1> QED BY <1>1, <1>2, <1>3, <1>4, SessionsStep

LEMMA ReadyStep == ASSUME Sound, ReadyCurrent, [Next]_vars PROVE ReadyCurrent'
<1>1. ASSUME NEW r \in DOMAIN rfqs', rfqs'[r].status = "Ready for Comparison"
      PROVE  rfqs'[r].invited \subseteq Responders(r)'
  <2>0. /\ Responders(r) \subseteq Responders(r)'
        /\ r \in DOMAIN rfqs => rfqs'[r].invited = rfqs[r].invited
        /\ rfqs \in Seq(Rfq)
    BY RespondersStay, RfqChange DEF Sound, TypeOK
  <2>1. CASE r \in DOMAIN rfqs /\ rfqs[r].status = "Ready for Comparison"
    BY <2>0, <2>1 DEF ReadyCurrent, ReadyWhenAnswered
  <2>2. CASE \E s \in Sessions : CommitQuotation(s)
    <3> PICK s \in Sessions : CommitQuotation(s)
      BY <2>2
    <3>1. \/ UNCHANGED rfqs
          \/ rfqs' = [rfqs EXCEPT ![sessions[s].row].status = sessions[s].next]
      BY DEF CommitQuotation, Written
    <3>2. CASE r = sessions[s].row /\ sessions[s].next = "Ready for Comparison"
      <4>1. r \in DOMAIN rfqs /\ sessions[s].pc = "answered"
        BY <3>2, Rows DEF CommitQuotation, Refers
      <4>2. rfqs[r].invited \subseteq Responders(r) \cup {sessions[s].vendor}
        BY <3>2, <4>1 DEF ReadyCurrent
      <4>3. sessions[s].vendor \in Responders(r)'
        <5>1. PICK row \in Quotation :
                     /\ quotations' = Append(quotations, row)
                     /\ row.rfq = r /\ row.vendor = sessions[s].vendor
          BY <3>2, QuotationCommitted
        <5> DEFINE n == Len(quotations) + 1
        <5>2. n \in DOMAIN quotations' /\ quotations'[n] = row
          BY <5>1, Rows, RowAdded DEF Sound, TypeOK
        <5> HIDE DEF n
        <5> QED BY <5>1, <5>2 DEF Responders
      <4> QED BY <2>0, <4>1, <4>2, <4>3
    <3>3. CASE ~(r = sessions[s].row /\ sessions[s].next = "Ready for Comparison")
      <4>1. r \in DOMAIN rfqs /\ rfqs[r].status = "Ready for Comparison"
        BY <1>1, <2>0, <3>1, <3>3, Rows DEF Rfq
      <4> QED BY <2>1, <4>1
    <3> QED BY <3>2, <3>3
  <2>3. CASE \E chosen \in SUBSET Vendors : CreateRfq(chosen)
    <3> PICK chosen \in SUBSET Vendors : CreateRfq(chosen)
      BY <2>3
    <3>1. NewRfq(chosen) \in Rfq /\ NewRfq(chosen).status = "Sent"
      BY DEF NewRfq, Rfq, RfqStatuses
    <3>2. rfqs' = Append(rfqs, NewRfq(chosen))
      BY DEF CreateRfq
    <3>3. r \in DOMAIN rfqs /\ rfqs[r].status = "Ready for Comparison"
      <4>1. /\ DOMAIN rfqs = 1..Len(rfqs) /\ Len(rfqs) \in Nat
            /\ DOMAIN rfqs' = 1..(Len(rfqs) + 1)
            /\ \A x \in DOMAIN rfqs : rfqs'[x] = rfqs[x]
            /\ rfqs'[Len(rfqs) + 1] = NewRfq(chosen)
        BY <2>0, <3>1, <3>2, RowAdded
      <4>2. r # Len(rfqs) + 1
        BY <1>1, <3>1, <4>1
      <4>3. r \in DOMAIN rfqs
        <5>1. r \in 1..(Len(rfqs) + 1)
          BY <1>1, <4>1
        <5> QED BY <4>1, <4>2, <5>1
      <4>4. rfqs'[r] = rfqs[r]
        BY <4>1, <4>3
      <4> QED BY <1>1, <4>3, <4>4
    <3> QED BY <2>1, <3>3
  <2>4. ASSUME NEW x, NEW status \in {"Purchase Order Generated", "Closed"},
               rfqs' = [rfqs EXCEPT ![x].status = status]
        PROVE  rfqs'[r].invited \subseteq Responders(r)'
    <3>1. r \in DOMAIN rfqs /\ rfqs[r].status = "Ready for Comparison"
      BY <1>1, <2>0, <2>4, Rows DEF Rfq
    <3> QED BY <2>1, <3>1
  <2>5. CASE \E s \in Sessions : MarkGenerated(s)
    <3> PICK s \in Sessions : MarkGenerated(s)
      BY <2>5
    <3> DEFINE x == quotations[sessions[s].row].rfq
    <3>1. rfqs' = [rfqs EXCEPT ![x].status = "Purchase Order Generated"]
      BY DEF MarkGenerated
    <3> QED BY <2>4, <3>1
  <2>6. CASE \E o \in DOMAIN orders : Deliver(o)
    <3> PICK o \in DOMAIN orders : Deliver(o)
      BY <2>6
    <3>1. rfqs' = [rfqs EXCEPT ![orders[o].rfq].status = "Closed"]
      BY DEF Deliver
    <3> QED BY <2>4, <3>1
  <2>7. CASE UNCHANGED rfqs
    BY <1>1, <2>1, <2>7
  <2> QED BY <2>2, <2>3, <2>5, <2>6, <2>7, RfqsStep
<1>2. ReadyWhenAnswered'
  BY <1>1 DEF ReadyWhenAnswered, Responders
<1>3. ASSUME NEW s \in Sessions,
             sessions'[s].pc = "answered", sessions'[s].next = "Ready for Comparison"
      PROVE  rfqs'[sessions'[s].row].invited \subseteq
                 {quotations'[q].vendor : q \in
                     {x \in DOMAIN quotations' : quotations'[x].rfq = sessions'[s].row}}
                 \cup {sessions'[s].vendor}
  <2>1. PICK r, v : r = sessions'[s].row /\ v = sessions'[s].vendor
    OBVIOUS
  <2>2. rfqs'[r].invited \subseteq Responders(r)' \cup {v}
    BY <1>3, <2>1, SessionReady
  <2> QED BY <2>1, <2>2 DEF Responders
<1> QED BY <1>2, <1>3 DEF ReadyCurrent, Responders

\* However answers, selections and crashes interleave, a comparison is not announced before
\* every vendor invited has answered.
THEOREM ReadyWhenAllAnswered == Spec => []ReadyWhenAnswered
<1>1. Init => ReadyCurrent
  <2> SUFFICES ASSUME Init PROVE ReadyCurrent
    OBVIOUS
  <2>1. \A s \in Sessions : sessions[s].pc = "idle"
    BY DEF Init, Idle
  <2>2. DOMAIN rfqs = {}
    BY DEF Init
  <2> QED BY <2>1, <2>2 DEF ReadyCurrent, ReadyWhenAnswered
<1>2. Sound /\ ReadyCurrent /\ [Next]_vars => ReadyCurrent'
  BY ReadyStep
<1>3. ReadyCurrent => ReadyWhenAnswered
  BY DEF ReadyCurrent
<1> QED BY <1>1, <1>2, <1>3, SoundAlways, PTL DEF Spec

-----------------------------------------------------------------------------
(* Sourcing implements Tender *)

\* Tender's variables, as ImplementsTender defines them.
Asked == [r \in DOMAIN rfqs |-> rfqs[r].invited]
Offers == {<<quotations[q].rfq, quotations[q].vendor>> : q \in DOMAIN quotations}
AwardOf(row) == [rfq |-> row.rfq, vendor |-> row.vendor, state |-> StateOf(row.status)]
Awards == [o \in DOMAIN orders |-> [rfq    |-> orders[o].rfq,
                                    vendor |-> orders[o].vendor,
                                    state  |-> StateOf(orders[o].status)]]

\* An order a vendor is answering awaits the answer, in this session only.
AnsweringSound ==
    \A s \in Sessions :
        sessions[s].pc = "deciding" =>
            /\ Pending(sessions[s].row)
            /\ \A t \in Sessions :
                  sessions[t].pc = "deciding" /\ sessions[t].row = sessions[s].row => t = s

\* An order that awaits its answer does so until its session answers it.
LEMMA PendingKept ==
    ASSUME Sound, AnsweringSound, [Next]_vars,
           NEW s \in Sessions, sessions[s].pc = "deciding", sessions'[s] = sessions[s]
    PROVE  orders'[sessions[s].row].status = "Pending Acceptance"
<1> DEFINE r == sessions[s].row
<1>0. orders[r].status = "Pending Acceptance"
  BY DEF AnsweringSound, Pending
<1>5. r \in DOMAIN orders /\ orders \in Seq(Order)
  BY Rows DEF Refers, Sound, TypeOK
<1> HIDE DEF r
<1>1. CASE UNCHANGED orders
  BY <1>0, <1>1 DEF r
<1>2. CASE \E q \in DOMAIN quotations : orders' = Append(orders, NewOrder(q))
  <2>1. PICK row \in Order : orders' = Append(orders, row)
    BY <1>2, NewOrderTyped
  <2>2. Append(orders, row)[r] = orders[r]
    BY <1>5, RowAdded
  <2> QED BY <1>0, <2>1, <2>2 DEF r
<1>3. CASE \E t \in Sessions, o \in DOMAIN orders, status \in {"Accepted", "Rejected"} :
             /\ sessions[t].pc = "deciding" /\ sessions[t].row = o
             /\ orders' = [orders EXCEPT ![o].status = status]
             /\ Ends(t)
  <2> PICK t \in Sessions, o \in DOMAIN orders, status \in {"Accepted", "Rejected"} :
             /\ sessions[t].pc = "deciding" /\ sessions[t].row = o
             /\ orders' = [orders EXCEPT ![o].status = status]
             /\ Ends(t)
    BY <1>3
  <2>1. t # s
    <3>1. sessions'[t] = Idle /\ Idle.pc = "idle"
      BY Ended, SessionGoes DEF Idle
    <3> QED BY <3>1
  <2>2. o # r
    BY <2>1 DEF AnsweringSound, r
  <2>3. orders'[r] = orders[r]
    BY <1>5, <2>2
  <2> QED BY <1>0, <2>3 DEF r
<1>4. CASE \E o \in DOMAIN orders :
             /\ orders[o].status = "Accepted"
             /\ orders' = [orders EXCEPT ![o].status = "Delivered"]
  <2>1. orders'[r] = orders[r]
    BY <1>0, <1>4, <1>5
  <2> QED BY <1>0, <2>1 DEF r
<1> QED BY <1>1, <1>2, <1>3, <1>4, OrderChange

LEMMA AnsweringStep ==
    ASSUME "answer" \in Discipline, Sound, AnsweringSound, [Next]_vars
    PROVE  AnsweringSound'
<1>1. CASE UNCHANGED sessions
  BY <1>1, PendingKept DEF AnsweringSound, Pending
<1>2. CASE \E s \in Sessions : Begins(s)
  <2> PICK s \in Sessions : Begins(s)
    BY <1>2
  <2>1. PICK state \in Session :
               /\ Go(s, state)
               /\ state.pc = "deciding" => Pending(state.row) /\ MayAnswer(state.row)
    BY Begun
  <2>2. UNCHANGED orders
    BY Begun DEF tables
  <2>3. /\ sessions'[s] = state
        /\ \A t \in Sessions \ {s} : sessions'[t] = sessions[t]
    BY <2>1, SessionGoes
  <2> QED BY <2>1, <2>2, <2>3 DEF AnsweringSound, Pending, MayAnswer
<1>3. ASSUME NEW s \in Sessions, NEW state, Go(s, state), state.pc # "deciding"
      PROVE  AnsweringSound'
  <2>1. /\ sessions'[s] = state
        /\ \A t \in Sessions \ {s} : sessions'[t] = sessions[t]
    BY <1>3, SessionGoes
  <2>2. \A t \in Sessions \ {s} : sessions[t].pc = "deciding" =>
           orders'[sessions[t].row].status = "Pending Acceptance"
    BY <2>1, PendingKept
  <2>3. \A t \in Sessions : sessions'[t].pc = "deciding" => t # s /\ sessions'[t] = sessions[t]
    BY <1>3, <2>1
  <2>4. \A t \in Sessions : sessions'[t].pc = "deciding" => Pending(sessions[t].row)'
    BY <2>2, <2>3 DEF Pending
  <2>5. \A t, u \in Sessions :
           /\ sessions'[t].pc = "deciding" /\ sessions'[u].pc = "deciding"
           /\ sessions'[u].row = sessions'[t].row
           => u = t
    BY <2>3 DEF AnsweringSound
  <2> QED BY <2>4, <2>5 DEF AnsweringSound, Pending
<1>4. CASE \E s \in Sessions : CountResponders(s)
  <2> PICK s \in Sessions : CountResponders(s)
    BY <1>4
  <2>1. PICK state \in Session : Go(s, state) /\ state.pc = "answered"
    BY Answering
  <2> QED BY <1>3, <2>1
<1>5. CASE \E s \in Sessions : CommitOrder(s)
  <2> PICK s \in Sessions : CommitOrder(s)
    BY <1>5
  <2>1. PICK state \in Session : Go(s, state) /\ state.pc = "marking"
    BY Marking
  <2> QED BY <1>3, <2>1
<1>6. CASE \E s \in Sessions : Ends(s)
  <2> PICK s \in Sessions : Ends(s)
    BY <1>6
  <2>1. Go(s, Idle) /\ Idle.pc = "idle"
    BY Ended DEF Idle
  <2> QED BY <1>3, <2>1
<1> QED BY <1>1, <1>2, <1>4, <1>5, <1>6, SessionsStep

LEMMA AskedKept ==
    ASSUME Sound, [Next]_vars, ~ \E chosen \in SUBSET Vendors : CreateRfq(chosen)
    PROVE  Asked' = Asked
<1>1. /\ DOMAIN rfqs' = DOMAIN rfqs
      /\ \A r \in DOMAIN rfqs : rfqs'[r].invited = rfqs[r].invited
  BY RfqChange
<1> QED BY <1>1 DEF Asked

LEMMA AskedAdded ==
    ASSUME Sound, NEW chosen \in SUBSET Vendors, CreateRfq(chosen)
    PROVE  Asked' = Append(Asked, chosen)
<1>1. NewRfq(chosen) \in Rfq /\ NewRfq(chosen).invited = chosen
  BY DEF NewRfq, Rfq, RfqStatuses
<1>2. /\ rfqs' \in Seq(Rfq)
      /\ Len(rfqs) \in Nat /\ DOMAIN rfqs = 1..Len(rfqs)
      /\ DOMAIN rfqs' = 1..(Len(rfqs) + 1)
      /\ \A r \in DOMAIN rfqs : rfqs'[r] = rfqs[r]
      /\ rfqs'[Len(rfqs) + 1] = NewRfq(chosen)
  BY <1>1, RowAdded DEF CreateRfq, Sound, TypeOK
<1>3. Asked \in [1..Len(rfqs) -> SUBSET Vendors]
  BY <1>2, Rows DEF Asked, Rfq
<1>4. Asked \in Seq(SUBSET Vendors) /\ Len(Asked) = Len(rfqs)
  <2>1. Asked \in Seq(SUBSET Vendors)
    BY <1>2, <1>3, RowsMapped
  <2> QED BY <1>2, <1>3, <2>1, LenProperties
<1>5. /\ DOMAIN Append(Asked, chosen) = 1..(Len(rfqs) + 1)
      /\ \A r \in DOMAIN rfqs : Append(Asked, chosen)[r] = rfqs[r].invited
      /\ Append(Asked, chosen)[Len(rfqs) + 1] = chosen
      /\ Append(Asked, chosen) \in Seq(SUBSET Vendors)
  BY <1>2, <1>4, RowAdded DEF Asked
<1>6. Append(Asked, chosen) = [r \in 1..(Len(rfqs) + 1) |-> Append(Asked, chosen)[r]]
  BY <1>5, LenProperties
<1>7. \A r \in 1..(Len(rfqs) + 1) : rfqs'[r].invited = Append(Asked, chosen)[r]
  <2> TAKE r \in 1..(Len(rfqs) + 1)
  <2>1. CASE r = Len(rfqs) + 1
    BY <1>1, <1>2, <1>5, <2>1
  <2>2. CASE r # Len(rfqs) + 1
    <3>1. r \in DOMAIN rfqs
      BY <1>2, <2>2
    <3> QED BY <1>2, <1>5, <3>1
  <2> QED BY <2>1, <2>2
<1> QED BY <1>2, <1>6, <1>7 DEF Asked

LEMMA OffersKept ==
    ASSUME Sound, [Next]_vars, ~ \E s \in Sessions : CommitQuotation(s)
    PROVE  Offers' = Offers
<1>1. /\ DOMAIN quotations' = DOMAIN quotations
      /\ \A q \in DOMAIN quotations :
            /\ quotations'[q].rfq = quotations[q].rfq
            /\ quotations'[q].vendor = quotations[q].vendor
  <2>1. CASE UNCHANGED quotations
    BY <2>1
  <2>2. CASE \E s \in Sessions : CommitOrder(s)
    <3> PICK s \in Sessions : CommitOrder(s)
      BY <2>2
    <3>1. sessions[s].row \in DOMAIN quotations /\ quotations' = Approved(sessions[s].row)
      BY Rows DEF CommitOrder, Refers
    <3> QED BY <3>1, QuotationApproved
  <2> QED BY <2>1, <2>2, QuotationsStep
<1> QED BY <1>1 DEF Offers

LEMMA OfferAdded ==
    ASSUME Sound, NEW s \in Sessions, CommitQuotation(s)
    PROVE  \E r \in DOMAIN rfqs : \E v \in rfqs[r].invited : Offers' = Offers \cup {<<r, v>>}
<1>1. PICK row \in Quotation :
             /\ quotations' = Append(quotations, row)
             /\ row.rfq \in DOMAIN rfqs
             /\ row.vendor \in rfqs[row.rfq].invited
  BY QuotationCommitted
<1> DEFINE n == Len(quotations) + 1
<1>2. /\ DOMAIN quotations = 1..Len(quotations) /\ Len(quotations) \in Nat
      /\ DOMAIN quotations' = 1..n
      /\ quotations'[n] = row
      /\ \A q \in DOMAIN quotations : quotations'[q] = quotations[q]
  BY <1>1, RowAdded DEF Sound, TypeOK
<1>3. DOMAIN quotations' = DOMAIN quotations \cup {n}
  BY <1>2
<1> HIDE DEF n
<1>4. Offers' = Offers \cup {<<row.rfq, row.vendor>>}
  BY <1>2, <1>3 DEF Offers
<1> QED BY <1>1, <1>4

LEMMA AwardAdded ==
    ASSUME Sound, NEW s \in Sessions, CommitOrder(s)
    PROVE  \E offer \in Offers :
              Awards' = Append(Awards, [rfq |-> offer[1], vendor |-> offer[2], state |-> "pending"])
<1> DEFINE q == sessions[s].row
           award == [rfq |-> quotations[q].rfq, vendor |-> quotations[q].vendor,
                     state |-> "pending"]
           offer == <<quotations[q].rfq, quotations[q].vendor>>
           n == Len(orders) + 1
           A == {AwardOf(row) : row \in Order} \cup {award}
<1>1. q \in DOMAIN quotations /\ orders' = Append(orders, NewOrder(q))
  BY Rows DEF CommitOrder, Refers
<1>2. NewOrder(q) \in Order /\ AwardOf(NewOrder(q)) = award
  BY <1>1, NewOrderTyped DEF AwardOf, StateOf
<1>3. /\ Len(orders) \in Nat /\ DOMAIN orders = 1..Len(orders)
      /\ DOMAIN orders' = 1..n
      /\ \A o \in DOMAIN orders : orders'[o] = orders[o]
      /\ orders'[n] = NewOrder(q)
  <2> HIDE DEF q
  <2> QED BY <1>1, <1>2, RowAdded DEF Sound, TypeOK
<1>4. /\ Awards = [o \in 1..Len(orders) |-> AwardOf(orders[o])]
      /\ Awards' = [o \in 1..n |-> AwardOf(orders'[o])]
  BY <1>3 DEF Awards, AwardOf
<1>5. Awards \in Seq(A) /\ Len(Awards) = Len(orders)
  <2>1. Awards \in [1..Len(orders) -> A]
    BY <1>3, <1>4, Rows
  <2>2. Awards \in Seq(A)
    BY <1>3, <2>1, RowsMapped
  <2> QED BY <1>3, <2>1, <2>2, LenProperties
<1> HIDE DEF award, A, q, n
<1>6. /\ Append(Awards, award) \in Seq(A)
      /\ DOMAIN Append(Awards, award) = 1..n
      /\ \A o \in DOMAIN orders : Append(Awards, award)[o] = AwardOf(orders[o])
      /\ Append(Awards, award)[n] = award
  <2>1. award \in A
    BY DEF A
  <2>2. DOMAIN Awards = DOMAIN orders
    BY <1>3, <1>4
  <2> QED BY <1>4, <1>5, <2>1, <2>2, RowAdded DEF n
<1>7. \A o \in 1..n : AwardOf(orders'[o]) = Append(Awards, award)[o]
  <2> TAKE o \in 1..n
  <2>1. CASE o = n
    BY <1>2, <1>3, <1>6, <2>1
  <2>2. CASE o # n
    <3>1. o \in DOMAIN orders
      BY <1>3, <2>2 DEF n
    <3> QED BY <1>3, <1>6, <3>1
  <2> QED BY <2>1, <2>2
<1>8. Append(Awards, award) = [o \in 1..n |-> Append(Awards, award)[o]]
  BY <1>6, LenProperties
<1>9. Awards' = Append(Awards, award)
  BY <1>4, <1>7, <1>8
<1>10. offer \in Offers
  BY <1>1 DEF Offers
<1>11. award = [rfq |-> offer[1], vendor |-> offer[2], state |-> "pending"]
  BY DEF award
<1> QED BY <1>9, <1>10, <1>11

LEMMA AwardMoved ==
    ASSUME Sound, NEW o \in DOMAIN orders, NEW status \in OrderStatuses,
           orders' = [orders EXCEPT ![o].status = status]
    PROVE  /\ o \in DOMAIN Awards
           /\ Awards[o].state = StateOf(orders[o].status)
           /\ Awards' = [Awards EXCEPT ![o].state = StateOf(status)]
<1>1. /\ DOMAIN orders' = DOMAIN orders
      /\ orders'[o].status = status
      /\ \A p \in DOMAIN orders :
            /\ orders'[p].rfq = orders[p].rfq
            /\ orders'[p].vendor = orders[p].vendor
            /\ p # o => orders'[p] = orders[p]
  BY OrderMoved
<1>2. /\ Awards' = [p \in DOMAIN orders |-> AwardOf(orders'[p])]
      /\ Awards = [p \in DOMAIN orders |-> AwardOf(orders[p])]
  BY <1>1 DEF Awards, AwardOf
<1>3. AwardOf(orders'[o]) = [AwardOf(orders[o]) EXCEPT !.state = StateOf(status)]
  <2>1. AwardOf(orders'[o]) = [rfq |-> orders[o].rfq, vendor |-> orders[o].vendor,
                               state |-> StateOf(status)]
    BY <1>1 DEF AwardOf
  <2>2. [AwardOf(orders[o]) EXCEPT !.state = StateOf(status)] =
            [rfq |-> orders[o].rfq, vendor |-> orders[o].vendor, state |-> StateOf(status)]
    BY DEF AwardOf
  <2> QED BY <2>1, <2>2
<1>4. \A p \in DOMAIN orders : p # o => AwardOf(orders'[p]) = AwardOf(orders[p])
  BY <1>1
<1>5. AwardOf(orders[o]).state = StateOf(orders[o].status)
  BY DEF AwardOf
<1> HIDE DEF AwardOf
<1> QED BY <1>2, <1>3, <1>4, <1>5

\* Each step of Sourcing is a step of Tender or none at all.
LEMMA TenderStep ==
    ASSUME Sound, AnsweringSound, [Next]_vars
    PROVE  [Promise!Next]_(Promise!vars)
<1> USE DEF Asked, Offers, Awards
<1>1. CASE \E chosen \in SUBSET Vendors : CreateRfq(chosen)
  <2> PICK chosen \in SUBSET Vendors : CreateRfq(chosen)
    BY <1>1
  <2>1. Asked' = Append(Asked, chosen)
    BY AskedAdded
  <2>2. UNCHANGED <<Offers, Awards>>
    BY DEF CreateRfq
  <2>3. Promise!Ask
    BY <2>1, <2>2 DEF Promise!Ask
  <2> QED BY <2>3 DEF Promise!Next
<1>2. CASE \E s \in Sessions : CommitQuotation(s)
  <2> PICK s \in Sessions : CommitQuotation(s)
    BY <1>2
  <2>1. \E r \in DOMAIN Asked : \E v \in Asked[r] : Offers' = Offers \cup {<<r, v>>}
    BY OfferAdded
  <2>2. ~ \E chosen \in SUBSET Vendors : CreateRfq(chosen)
    BY OfferAdded DEF CommitQuotation, CreateRfq
  <2>3. UNCHANGED <<Asked, Awards>>
    BY <2>2, AskedKept DEF CommitQuotation
  <2>4. Promise!Offer
    BY <2>1, <2>3 DEF Promise!Offer
  <2> QED BY <2>4 DEF Promise!Next
<1>3. CASE \E s \in Sessions : CommitOrder(s)
  <2> PICK s \in Sessions : CommitOrder(s)
    BY <1>3
  <2>1. sessions[s].pc = "selecting" /\ UNCHANGED rfqs
    BY DEF CommitOrder
  <2>2. UNCHANGED Asked
    BY <2>1
  <2>3. ~ \E t \in Sessions : CommitQuotation(t)
    <3> SUFFICES ASSUME NEW t \in Sessions, CommitQuotation(t) PROVE FALSE
      OBVIOUS
    <3>1. sessions'[t] = Idle /\ sessions[t].pc = "answered"
      BY SessionGoes DEF CommitQuotation, Stop
    <3>2. PICK state \in Session : Go(s, state) /\ state.pc = "marking"
      BY Marking
    <3>3. sessions'[s] = state /\ (t # s => sessions'[t] = sessions[t])
      BY <3>2, SessionGoes
    <3> QED BY <3>1, <3>2, <3>3 DEF Idle
  <2>4. UNCHANGED Offers
    BY <2>3, OffersKept
  <2>5. Promise!TakeUp
    BY <2>2, <2>4, AwardAdded DEF Promise!TakeUp
  <2> QED BY <2>5 DEF Promise!Next
<1>4. CASE \E s \in Sessions, o \in DOMAIN orders, status \in {"Accepted", "Rejected"} :
             /\ sessions[s].pc = "deciding" /\ sessions[s].row = o
             /\ orders' = [orders EXCEPT ![o].status = status]
             /\ UNCHANGED quotations
             /\ Ends(s)
  <2> PICK s \in Sessions, o \in DOMAIN orders, status \in {"Accepted", "Rejected"} :
             /\ sessions[s].pc = "deciding" /\ sessions[s].row = o
             /\ orders' = [orders EXCEPT ![o].status = status]
             /\ UNCHANGED quotations
             /\ Ends(s)
    BY <1>4
  <2>1. Accept(s) \/ Reject(s) \/ Crash(s)
    BY DEF Ends, CommitQuotation, SelectionFails, MarkGenerated
  <2>2. UNCHANGED <<Asked, Offers>>
    BY <2>1 DEF Accept, Reject, AnswerOrder, Crash, tables
  <2>3. orders[o].status = "Pending Acceptance"
    BY DEF AnsweringSound, Pending
  <2>4. /\ o \in DOMAIN Awards
        /\ Awards[o].state = "pending"
        /\ Awards' = [Awards EXCEPT ![o].state = StateOf(status)]
    BY <2>3, AwardMoved DEF StateOf, OrderStatuses
  <2>5. StateOf(status) \in {"accepted", "rejected"}
    BY DEF StateOf
  <2>6. Promise!Move("pending", "accepted") \/ Promise!Move("pending", "rejected")
    <3>1. CASE StateOf(status) = "accepted"
      BY <2>2, <2>4, <3>1 DEF Promise!Move
    <3>2. CASE StateOf(status) = "rejected"
      BY <2>2, <2>4, <3>2 DEF Promise!Move
    <3> QED BY <2>5, <3>1, <3>2
  <2> QED BY <2>6 DEF Promise!Next
<1>5. CASE \E o \in DOMAIN orders :
             /\ orders[o].status = "Accepted"
             /\ orders' = [orders EXCEPT ![o].status = "Delivered"]
             /\ UNCHANGED <<quotations, sessions>>
  <2> PICK o \in DOMAIN orders :
             /\ orders[o].status = "Accepted"
             /\ orders' = [orders EXCEPT ![o].status = "Delivered"]
             /\ UNCHANGED <<quotations, sessions>>
    BY <1>5
  <2>1. ~ \E chosen \in SUBSET Vendors : CreateRfq(chosen)
    <3> SUFFICES ASSUME NEW chosen \in SUBSET Vendors, CreateRfq(chosen) PROVE FALSE
      OBVIOUS
    <3>1. orders'[o].status = "Delivered"
      BY OrderMoved DEF OrderStatuses
    <3> QED BY <3>1 DEF CreateRfq
  <2>2. UNCHANGED <<Asked, Offers>>
    BY <2>1, AskedKept
  <2>3. /\ o \in DOMAIN Awards
        /\ Awards[o].state = "accepted"
        /\ Awards' = [Awards EXCEPT ![o].state = "fulfilled"]
    BY AwardMoved DEF StateOf, OrderStatuses
  <2>4. Promise!Move("accepted", "fulfilled")
    BY <2>2, <2>3 DEF Promise!Move
  <2> QED BY <2>4 DEF Promise!Next
<1>6. CASE /\ UNCHANGED orders
           /\ ~ \E chosen \in SUBSET Vendors : CreateRfq(chosen)
           /\ ~ \E s \in Sessions : CommitQuotation(s)
  BY <1>6, AskedKept, OffersKept DEF Promise!vars
<1> QED BY <1>1, <1>2, <1>3, <1>4, <1>5, <1>6, OrderChange

\* If a vendor answers an order in one session at a time, then whatever handlers do in
\* between and wherever they die, only those asked offer, only offers are taken up, and
\* an order is answered once and delivered only if accepted.
THEOREM TenderImplemented ==
    ASSUME "answer" \in Discipline PROVE Spec => ImplementsTender
<1>1. Init => AnsweringSound
  BY DEF Init, AnsweringSound, Idle
<1>2. Sound /\ AnsweringSound /\ [Next]_vars => AnsweringSound'
  BY AnsweringStep
<1>3. Init => Promise!Init
  BY DEF Init, Promise!Init
<1>4. Sound /\ AnsweringSound /\ [Next]_vars => [Promise!Next]_(Promise!vars)
  BY TenderStep
<1> QED BY <1>1, <1>2, <1>3, <1>4, SoundAlways, PTL DEF Spec, ImplementsTender, Promise!Spec

-----------------------------------------------------------------------------
(* What a step does to each table: the actions that write it *)

LEMMA OrderStep ==
    [SupplyNext]_supplyVars =>
        \/ UNCHANGED order
        \/ \E q \in Shipped, form \in Form : FileNotice(q, form)
        \/ \E a, r \in Inspected : RecordReceipt(a, r)
BY DEF supplyVars, SupplyNext, Vendor, Inspection, Returning, Settling, EditNotice,
       FileSubmission, FileShipment, FileInvoice, FilingFails, SubmitNotice, CreateShipment,
       UpdateShipment, Resubmit, UploadInvoice, MarkDelivered, InspectionFails, SetReturn,
       ApproveReturn, RejectReturn, ShipReturn, DispatchReturn, CompleteReturn, ReturnArrived,
       ReviewInvoice, PayInvoice, PayFreight

LEMMA NoticeStep ==
    [SupplyNext]_supplyVars =>
        \/ UNCHANGED notice
        \/ \E q \in Shipped, form \in Form : FileNotice(q, form) \/ EditNotice(q, form)
        \/ FileSubmission \/ SubmitNotice
        \/ \E q \in Shipped, ship, freight \in BOOLEAN : Resubmit(q, ship, freight)
BY DEF supplyVars, SupplyNext, Vendor, Inspection, Returning, Settling, FileShipment,
       FileInvoice, FilingFails, CreateShipment, UpdateShipment,
       UploadInvoice, RecordReceipt, MarkDelivered, InspectionFails, SetReturn, ApproveReturn,
       RejectReturn, ShipReturn, DispatchReturn, CompleteReturn, ReturnArrived, ReviewInvoice,
       PayInvoice, PayFreight

LEMMA ReceiptStep ==
    [SupplyNext]_supplyVars =>
        \/ UNCHANGED receipt
        \/ \E q \in Shipped, ship, freight \in BOOLEAN : Resubmit(q, ship, freight)
        \/ \E a, r \in Inspected : RecordReceipt(a, r)
BY DEF supplyVars, SupplyNext, Vendor, Inspection, Returning, Settling, FileNotice, EditNotice,
       FileSubmission, FileShipment, FileInvoice, FilingFails, SubmitNotice, CreateShipment,
       UpdateShipment, UploadInvoice, MarkDelivered, InspectionFails, SetReturn, ApproveReturn,
       RejectReturn, ShipReturn, DispatchReturn, CompleteReturn, ReturnArrived, ReviewInvoice,
       PayInvoice, PayFreight

LEMMA ShipmentsStep ==
    [SupplyNext]_supplyVars =>
        \/ UNCHANGED shipments
        \/ FileShipment \/ CreateShipment
        \/ \E s \in DOMAIN shipments, status \in Progress : UpdateShipment(s, status)
        \/ /\ \/ \E a, r \in Inspected : RecordReceipt(a, r)
              \/ MarkDelivered
           /\ shipments' = Delivered
BY DEF supplyVars, SupplyNext, Vendor, Inspection, Returning, Settling, FileNotice, EditNotice,
       FileSubmission, FileInvoice, FilingFails, SubmitNotice, Resubmit, UploadInvoice,
       RecordReceipt, MarkDelivered, InspectionFails, SetReturn, ApproveReturn, RejectReturn,
       ShipReturn, DispatchReturn, CompleteReturn, ReturnArrived, ReviewInvoice, PayInvoice,
       PayFreight

LEMMA FreightsStep ==
    [SupplyNext]_supplyVars =>
        \/ UNCHANGED freights
        \/ FileInvoice
        \/ \E q \in Shipped, ship, freight \in BOOLEAN : Resubmit(q, ship, freight)
        \/ \E f \in DOMAIN freights : PayFreight(f)
BY DEF supplyVars, SupplyNext, Vendor, Inspection, Returning, Settling, FileNotice, EditNotice,
       FileSubmission, FileShipment, FilingFails, SubmitNotice, CreateShipment, UpdateShipment,
       UploadInvoice, RecordReceipt, MarkDelivered, InspectionFails, SetReturn, ApproveReturn,
       RejectReturn, ShipReturn, DispatchReturn, CompleteReturn, ReturnArrived, ReviewInvoice,
       PayInvoice

LEMMA InvoicesStep ==
    [SupplyNext]_supplyVars =>
        \/ UNCHANGED <<invoices, payments>>
        \/ FileInvoice
        \/ \E number \in Numbers, noticed \in BOOLEAN : UploadInvoice(number, noticed)
        \/ \E i \in DOMAIN invoices, status \in {"accepted", "rejected"} : ReviewInvoice(i, status)
        \/ \E i \in DOMAIN invoices : PayInvoice(i)
BY DEF supplyVars, SupplyNext, Vendor, Inspection, Returning, Settling, FileNotice, EditNotice,
       FileSubmission, FileShipment, FilingFails, SubmitNotice, CreateShipment, UpdateShipment,
       Resubmit, RecordReceipt, MarkDelivered, InspectionFails, SetReturn, ApproveReturn,
       RejectReturn, ShipReturn, DispatchReturn, CompleteReturn, ReturnArrived, PayFreight

\* What may become of a vendor return.
Handled(k) ==
    \/ \E refund \in BOOLEAN : ApproveReturn(k, refund)
    \/ RejectReturn(k) \/ ShipReturn(k) \/ DispatchReturn(k) \/ CompleteReturn(k)
    \/ ReturnArrived(k)

LEMMA ReturnsStep ==
    [SupplyNext]_supplyVars =>
        \/ UNCHANGED vreturns
        \/ \E a, r \in Inspected : RecordReceipt(a, r)
        \/ \E k \in DOMAIN vreturns : Handled(k)
BY DEF supplyVars, SupplyNext, Vendor, Inspection, Returning, Settling, FileNotice, EditNotice,
       FileSubmission, FileShipment, FileInvoice, FilingFails, SubmitNotice, CreateShipment,
       UpdateShipment, Resubmit, UploadInvoice, MarkDelivered, InspectionFails, ReviewInvoice,
       PayInvoice, PayFreight, Handled

LEMMA FilingStep ==
    [SupplyNext]_supplyVars =>
        \/ UNCHANGED filing
        \/ \E q \in Shipped, form \in Form : FileNotice(q, form) \/ EditNotice(q, form)
        \/ FileSubmission \/ FileShipment \/ FileInvoice \/ FilingFails
BY DEF supplyVars, SupplyNext, Vendor, Inspection, Returning, Settling, SubmitNotice,
       CreateShipment, UpdateShipment, Resubmit, UploadInvoice, RecordReceipt, MarkDelivered,
       InspectionFails, SetReturn, ApproveReturn, RejectReturn, ShipReturn, DispatchReturn,
       CompleteReturn, ReturnArrived, ReviewInvoice, PayInvoice, PayFreight

LEMMA InspectingStep ==
    [SupplyNext]_supplyVars =>
        \/ UNCHANGED inspecting
        \/ \E a, r \in Inspected : RecordReceipt(a, r)
        \/ MarkDelivered \/ InspectionFails
BY DEF supplyVars, SupplyNext, Vendor, Inspection, Returning, Settling, FileNotice, EditNotice,
       FileSubmission, FileShipment, FileInvoice, FilingFails, SubmitNotice, CreateShipment,
       UpdateShipment, Resubmit, UploadInvoice, SetReturn, ApproveReturn, RejectReturn,
       ShipReturn, DispatchReturn, CompleteReturn, ReturnArrived, ReviewInvoice, PayInvoice,
       PayFreight

-----------------------------------------------------------------------------
(* Types *)

LEMMA ConstantTypes ==
    /\ Quantity \in Nat /\ Quantity # 0
    /\ Shipped \subseteq Nat /\ Inspected \subseteq Nat
    /\ Progress \subseteq ShipmentStatuses
BY SupplyAssumption

LEMMA Lengths ==
    ASSUME SupplyTypeOK
    PROVE  /\ Len(shipments) \in Nat /\ DOMAIN shipments = 1..Len(shipments)
           /\ Len(freights) \in Nat /\ DOMAIN freights = 1..Len(freights)
           /\ Len(invoices) \in Nat /\ DOMAIN invoices = 1..Len(invoices)
           /\ Len(payments) \in Nat /\ DOMAIN payments = 1..Len(payments)
           /\ Len(vreturns) \in Nat /\ DOMAIN vreturns = 1..Len(vreturns)
BY LenProperties DEF SupplyTypeOK

LEMMA SupplyRows ==
    ASSUME SupplyTypeOK
    PROVE  /\ \A s \in DOMAIN shipments : shipments[s] \in Shipment
           /\ \A f \in DOMAIN freights : freights[f] \in Freight
           /\ \A i \in DOMAIN invoices : invoices[i] \in Invoice
           /\ \A p \in DOMAIN payments : payments[p] \in Payment
           /\ \A k \in DOMAIN vreturns : vreturns[k] \in VendorReturn
BY ElementOfSeq, LenProperties DEF SupplyTypeOK

LEMMA OrderTyped ==
    ASSUME SupplyTypeOK, [SupplyNext]_supplyVars PROVE order' \in OrderRow
<1>1. CASE UNCHANGED order
  BY <1>1 DEF SupplyTypeOK
<1>2. CASE \E q \in Shipped, form \in Form : FileNotice(q, form)
  BY <1>2 DEF FileNotice, SupplyTypeOK, OrderRow
<1>3. CASE \E a, r \in Inspected : RecordReceipt(a, r)
  <2> PICK a \in Inspected, r \in Inspected : RecordReceipt(a, r)
    BY <1>3
  <2>1. a \in Nat
    BY ConstantTypes
  <2>2. order' = [received |-> order.received + a,
                  status |-> IF Completes(a) THEN "Delivered" ELSE order.status]
    BY DEF RecordReceipt
  <2>3. order \in OrderRow
    BY DEF SupplyTypeOK
  <2>4. order.received \in Nat
    BY <2>3 DEF OrderRow
  <2>5. order.received + a \in Nat
    BY <2>1, <2>4
  <2> QED BY <2>2, <2>3, <2>5 DEF OrderRow, Completes
<1> QED BY <1>1, <1>2, <1>3, OrderStep

LEMMA NoticeTyped ==
    ASSUME SupplyTypeOK, [SupplyNext]_supplyVars PROVE notice' \in Notice
<1> USE DEF SupplyTypeOK, Notice
<1>1. CASE UNCHANGED notice
  BY <1>1
<1>2. CASE \E q \in Shipped, form \in Form : FileNotice(q, form)
  <2> PICK q \in Shipped, form \in Form : FileNotice(q, form)
    BY <1>2
  <2>1. q \in Nat
    BY ConstantTypes
  <2> QED BY <2>1 DEF FileNotice
<1>3. CASE \E q \in Shipped, form \in Form : EditNotice(q, form)
  <2> PICK q \in Shipped, form \in Form : EditNotice(q, form)
    BY <1>3
  <2>1. q \in Nat
    BY ConstantTypes
  <2>2. notice' = [draft |-> IF form.submit THEN "Submitted" ELSE notice.draft, shipped |-> q]
    BY DEF EditNotice
  <2> QED BY <2>1, <2>2
<1>4. CASE FileSubmission \/ SubmitNotice
  BY <1>4 DEF FileSubmission, SubmitNotice
<1>5. CASE \E q \in Shipped, ship, freight \in BOOLEAN : Resubmit(q, ship, freight)
  BY <1>5, ConstantTypes DEF Resubmit
<1> QED BY <1>1, <1>2, <1>3, <1>4, <1>5, NoticeStep

LEMMA ReceiptTyped ==
    ASSUME SupplyTypeOK, [SupplyNext]_supplyVars PROVE receipt' \in GoodsReceipt
<1>1. CASE UNCHANGED receipt
  BY <1>1 DEF SupplyTypeOK
<1>2. CASE \E q \in Shipped, ship, freight \in BOOLEAN : Resubmit(q, ship, freight)
  BY <1>2 DEF Resubmit, NoReceipt, GoodsReceipt
<1>3. CASE \E a, r \in Inspected : RecordReceipt(a, r)
  BY <1>3, ConstantTypes DEF RecordReceipt, InspectionStatus, GoodsReceipt
<1> QED BY <1>1, <1>2, <1>3, ReceiptStep

\* Delivered keeps what a shipment is.
LEMMA DeliveredRows ==
    ASSUME SupplyTypeOK
    PROVE  /\ Delivered \in Seq(Shipment)
           /\ DOMAIN Delivered = DOMAIN shipments
           /\ \A s \in DOMAIN shipments : Delivered[s] = [shipments[s] EXCEPT !.status = "Delivered"]
<1>1. \A s \in DOMAIN shipments : [shipments[s] EXCEPT !.status = "Delivered"] \in Shipment
  BY SupplyRows DEF Shipment, ShipmentStatuses
<1>2. Delivered \in [1..Len(shipments) -> Shipment]
  BY <1>1, Lengths DEF Delivered
<1>3. Delivered \in Seq(Shipment)
  BY <1>2, Lengths, RowsMapped
<1> QED BY <1>3 DEF Delivered

\* A shipment is added, or one or all change their status.
LEMMA ShipmentsTyped ==
    ASSUME SupplyTypeOK, [SupplyNext]_supplyVars
    PROVE  /\ shipments' \in Seq(Shipment)
           /\ \/ /\ DOMAIN shipments' = DOMAIN shipments
                 /\ \A s \in DOMAIN shipments : shipments'[s].form = shipments[s].form
              \/ \E row \in Shipment :
                    /\ shipments' = Append(shipments, row)
                    /\ row.status # "Delivered"
                    /\ row.form => shipments = <<>>
<1> USE DEF SupplyTypeOK
<1>1. CASE UNCHANGED shipments
  BY <1>1
<1>2. CASE FileShipment \/ CreateShipment
  <2> DEFINE Row(form) == [status |-> "Dispatched", form |-> form]
  <2>1. \A form \in BOOLEAN : Row(form) \in Shipment /\ Row(form).status # "Delivered"
                              /\ Row(form).form = form
    BY DEF Shipment, ShipmentStatuses
  <2>2. \/ UNCHANGED shipments
        \/ shipments' = Append(shipments, Row(TRUE)) /\ shipments = <<>>
        \/ shipments' = Append(shipments, Row(FALSE))
    BY <1>2, Zenon DEF FileShipment, CreateShipment, FormShips
  <2> HIDE DEF Row
  <2>3. CASE UNCHANGED shipments
    BY <2>3
  <2>4. CASE shipments' = Append(shipments, Row(TRUE)) /\ shipments = <<>>
    BY <2>1, <2>4, RowAdded
  <2>5. CASE shipments' = Append(shipments, Row(FALSE))
    BY <2>1, <2>5, RowAdded
  <2> QED BY <2>2, <2>3, <2>4, <2>5
<1>3. CASE \E s \in DOMAIN shipments, status \in Progress : UpdateShipment(s, status)
  <2> PICK s \in DOMAIN shipments, status \in Progress : UpdateShipment(s, status)
    BY <1>3
  <2> DEFINE row == [shipments[s] EXCEPT !.status = status]
  <2>1. shipments[s] \in Shipment /\ status \in ShipmentStatuses
    BY SupplyRows, ConstantTypes
  <2>2. row \in Shipment /\ row.form = shipments[s].form
    BY <2>1 DEF Shipment
  <2>3. shipments' = [shipments EXCEPT ![s] = row]
    BY DEF UpdateShipment
  <2> HIDE DEF row
  <2> QED BY <2>2, <2>3, RowChanged
<1>4. CASE shipments' = Delivered
  BY <1>4, DeliveredRows, SupplyRows DEF Shipment
<1> QED BY <1>1, <1>2, <1>3, <1>4, ShipmentsStep

\* A freight is added to a shipment, or paid.
FreightAdded(s) ==
    /\ DOMAIN freights' = 1..(Len(freights) + 1)
    /\ \A f \in DOMAIN freights : freights'[f] = freights[f]
    /\ freights'[Len(freights) + 1].shipment = s

FreightPaid ==
    /\ DOMAIN freights' = DOMAIN freights
    /\ \A f \in DOMAIN freights : /\ freights'[f].shipment = freights[f].shipment
                                  /\ freights[f].status = "Paid" => freights'[f] = freights[f]

LEMMA FreightNew ==
    ASSUME SupplyTypeOK, NEW s \in Nat, freights' = NewFreight(s)
    PROVE  freights' \in Seq(Freight) /\ FreightAdded(s)
<1> DEFINE row == [shipment |-> s, status |-> "Pending"]
<1>1. row \in Freight /\ row.shipment = s
  BY DEF Freight
<1>2. freights \in Seq(Freight) /\ freights' = Append(freights, row)
  BY DEF SupplyTypeOK, NewFreight
<1> HIDE DEF row
<1> QED BY <1>1, <1>2, RowAdded DEF FreightAdded

LEMMA FreightsTyped ==
    ASSUME SupplyTypeOK, [SupplyNext]_supplyVars
    PROVE  /\ freights' \in Seq(Freight)
           /\ \/ UNCHANGED freights
              \/ FileInvoice /\ filing.carried # 0 /\ FreightAdded(filing.carried)
              \/ /\ \E q \in Shipped, ship, freight \in BOOLEAN : Resubmit(q, ship, freight)
                 /\ FreightOf(1) = {}
                 /\ FreightAdded(1)
              \/ FreightPaid
<1>1. freights \in Seq(Freight)
  BY DEF SupplyTypeOK
<1>2. CASE UNCHANGED freights
  BY <1>1, <1>2
<1>3. CASE FileInvoice
  <2>1. filing.carried \in Nat
    BY DEF SupplyTypeOK, Filing
  <2>2. CASE filing.carried = 0
    BY <1>2, <1>3, <2>2 DEF FileInvoice
  <2>3. CASE filing.carried # 0
    <3>1. freights' = NewFreight(filing.carried)
      BY <1>3, <2>3 DEF FileInvoice
    <3> QED BY <1>3, <2>1, <2>3, <3>1, FreightNew
  <2> QED BY <2>2, <2>3
<1>4. CASE \E q \in Shipped, ship, freight \in BOOLEAN : Resubmit(q, ship, freight)
  <2>1. \/ UNCHANGED freights
        \/ freights' = NewFreight(1) /\ FreightOf(1) = {}
    BY <1>4 DEF Resubmit, CorrectionFreight
  <2>2. CASE freights' = NewFreight(1) /\ FreightOf(1) = {}
    BY <1>4, <2>2, FreightNew
  <2> QED BY <1>2, <2>1, <2>2
<1>5. CASE \E f \in DOMAIN freights : PayFreight(f)
  <2> PICK f \in DOMAIN freights : PayFreight(f)
    BY <1>5
  <2> DEFINE row == [freights[f] EXCEPT !.status = "Paid"]
  <2>1. row \in Freight /\ row.shipment = freights[f].shipment
    BY SupplyRows DEF Freight
  <2>2. freights' = [freights EXCEPT ![f] = row] /\ freights[f].status = "Pending"
    BY DEF PayFreight
  <2> HIDE DEF row
  <2>3. /\ freights' \in Seq(Freight)
        /\ DOMAIN freights' = DOMAIN freights
        /\ \A g \in DOMAIN freights : freights'[g] = IF g = f THEN row ELSE freights[g]
    BY <1>1, <2>1, <2>2, RowChanged
  <2> QED BY <2>1, <2>2, <2>3 DEF FreightPaid
<1> QED BY <1>2, <1>3, <1>4, <1>5, FreightsStep

\* A payment row opened for an invoice.
PaymentOpened(i, status) ==
    /\ DOMAIN payments' = 1..(Len(payments) + 1)
    /\ \A p \in DOMAIN payments : payments'[p] = payments[p]
    /\ payments'[Len(payments) + 1].invoice = i
    /\ payments'[Len(payments) + 1].status = status

LEMMA PaymentAdded ==
    ASSUME SupplyTypeOK, NEW i \in DOMAIN invoices, NEW status \in {"Pending", "Paid"},
           payments' = NewPayment(i, status)
    PROVE  payments' \in Seq(Payment) /\ PaymentOpened(i, status)
<1> DEFINE row == [invoice |-> i, status |-> status]
<1>1. row \in Payment /\ row.invoice = i /\ row.status = status
  BY Lengths DEF Payment
<1>2. payments \in Seq(Payment) /\ payments' = Append(payments, row)
  BY DEF SupplyTypeOK, NewPayment
<1> HIDE DEF row
<1> QED BY <1>1, <1>2, RowAdded DEF PaymentOpened

\* An invoice whose status changes.
OthersKept(i) ==
    /\ DOMAIN invoices' = DOMAIN invoices
    /\ \A j \in DOMAIN invoices : /\ j # i => invoices'[j] = invoices[j]
                                  /\ invoices'[j].form = invoices[j].form
                                  /\ invoices'[j].noticed = invoices[j].noticed

LEMMA InvoiceChanged ==
    ASSUME SupplyTypeOK, NEW i \in DOMAIN invoices, NEW status \in {"accepted", "rejected"},
           invoices' = [invoices EXCEPT ![i].status = status]
    PROVE  invoices' \in Seq(Invoice) /\ OthersKept(i) /\ invoices'[i].status = status
<1> DEFINE row == [invoices[i] EXCEPT !.status = status]
<1>1. invoices[i] \in Invoice
  BY SupplyRows
<1>2. /\ row \in Invoice /\ row.status = status
      /\ row.form = invoices[i].form /\ row.noticed = invoices[i].noticed
  BY <1>1 DEF Invoice
<1>3. invoices \in Seq(Invoice) /\ invoices' = [invoices EXCEPT ![i] = row]
  BY DEF SupplyTypeOK
<1> HIDE DEF row
<1> QED BY <1>2, <1>3, RowChanged DEF OthersKept

\* An invoice added, by the form or by an upload, is pending.
LEMMA InvoiceAdded ==
    ASSUME SupplyTypeOK, NEW number \in Numbers, NEW noticed \in BOOLEAN, NEW form \in BOOLEAN,
           invoices' = Append(invoices, [number |-> number, noticed |-> noticed,
                                         form |-> form, status |-> "pending"])
    PROVE  /\ invoices' \in Seq(Invoice)
           /\ DOMAIN invoices' = 1..(Len(invoices) + 1)
           /\ \A i \in DOMAIN invoices : invoices'[i] = invoices[i]
           /\ invoices'[Len(invoices) + 1].status = "pending"
           /\ invoices'[Len(invoices) + 1].form = form
           /\ invoices'[Len(invoices) + 1].noticed = noticed
<1> DEFINE row == [number |-> number, noticed |-> noticed, form |-> form, status |-> "pending"]
<1>1. row \in Invoice /\ row.status = "pending" /\ row.form = form /\ row.noticed = noticed
  BY DEF Invoice
<1>2. invoices \in Seq(Invoice) /\ invoices' = Append(invoices, row)
  BY DEF SupplyTypeOK
<1> HIDE DEF row
<1> QED BY <1>1, <1>2, RowAdded

\* What a step may do to the invoices and payments.
InvoicesAdded ==
    /\ DOMAIN invoices' = 1..(Len(invoices) + 1)
    /\ \A i \in DOMAIN invoices : invoices'[i] = invoices[i]
    /\ invoices'[Len(invoices) + 1].status = "pending"
    /\ invoices'[Len(invoices) + 1].form =>
          NoticeInvoices = {} /\ invoices'[Len(invoices) + 1].noticed
    /\ UNCHANGED payments

InvoiceReviewed(i) ==
    /\ OthersKept(i)
    /\ \/ /\ invoices'[i].status = "rejected"
          /\ invoices[i].status = "pending"
          /\ UNCHANGED payments
       \/ /\ invoices'[i].status = "accepted"
          /\ invoices[i].status = "pending"
          /\ PaymentOpened(i, "Pending")
       \/ /\ invoices'[i].status = "accepted"
          /\ invoices[i].status # "rejected"
          /\ PaymentsOf(i) = {}
          /\ PaymentOpened(i, "Paid")

PaymentMade(p) ==
    /\ UNCHANGED invoices
    /\ DOMAIN payments' = DOMAIN payments
    /\ payments[p].status # "Paid"
    /\ \A q \in DOMAIN payments : /\ q # p => payments'[q] = payments[q]
                                  /\ payments'[q].invoice = payments[q].invoice

LEMMA MoneyTyped ==
    ASSUME SupplyTypeOK, [SupplyNext]_supplyVars
    PROVE  /\ invoices' \in Seq(Invoice)
           /\ payments' \in Seq(Payment)
           /\ \/ UNCHANGED <<invoices, payments>>
              \/ InvoicesAdded
              \/ \E i \in DOMAIN invoices : InvoiceReviewed(i)
              \/ \E p \in DOMAIN payments : PaymentMade(p)
<1>0. invoices \in Seq(Invoice) /\ payments \in Seq(Payment)
  BY DEF SupplyTypeOK
<1>1. CASE UNCHANGED <<invoices, payments>>
  BY <1>0, <1>1
<1>2. CASE FileInvoice
  <2>1. filing.form.number \in Numbers \cup {NoNumber} /\ UNCHANGED payments
    BY <1>2 DEF SupplyTypeOK, Filing, Form, FileInvoice
  <2>2. CASE FormBills
    <3>1. filing.form.number \in Numbers /\ NoticeInvoices = {}
      BY <2>1, <2>2 DEF FormBills
    <3>2. invoices' = Append(invoices, [number |-> filing.form.number, noticed |-> TRUE,
                                        form |-> TRUE, status |-> "pending"])
      BY <1>2, <2>2 DEF FileInvoice
    <3>3. InvoicesAdded /\ invoices' \in Seq(Invoice)
      BY <2>1, <3>1, <3>2, InvoiceAdded DEF InvoicesAdded
    <3> QED BY <1>0, <2>1, <3>3
  <2>3. CASE ~FormBills
    BY <1>0, <1>2, <2>1, <2>3 DEF FileInvoice
  <2> QED BY <2>2, <2>3
<1>3. CASE \E number \in Numbers, noticed \in BOOLEAN : UploadInvoice(number, noticed)
  <2> PICK number \in Numbers, noticed \in BOOLEAN : UploadInvoice(number, noticed)
    BY <1>3
  <2>1. /\ invoices' = Append(invoices, [number |-> number, noticed |-> noticed,
                                         form |-> FALSE, status |-> "pending"])
        /\ UNCHANGED payments
    BY DEF UploadInvoice
  <2>2. InvoicesAdded /\ invoices' \in Seq(Invoice)
    BY <2>1, InvoiceAdded DEF InvoicesAdded
  <2> QED BY <1>0, <2>1, <2>2
<1>4. CASE \E i \in DOMAIN invoices, status \in {"accepted", "rejected"} : ReviewInvoice(i, status)
  <2> PICK i \in DOMAIN invoices, status \in {"accepted", "rejected"} : ReviewInvoice(i, status)
    BY <1>4
  <2>1. /\ invoices' = [invoices EXCEPT ![i].status = status]
        /\ payments' = IF status = "accepted" THEN NewPayment(i, "Pending") ELSE payments
        /\ invoices[i].status = "pending"
    BY DEF ReviewInvoice
  <2>2. invoices' \in Seq(Invoice) /\ OthersKept(i) /\ invoices'[i].status = status
    BY <2>1, InvoiceChanged
  <2>3. CASE status = "accepted"
    <3>1. payments' \in Seq(Payment) /\ PaymentOpened(i, "Pending")
      BY <2>1, <2>3, PaymentAdded
    <3> QED BY <2>1, <2>2, <2>3, <3>1 DEF InvoiceReviewed
  <2>4. CASE status = "rejected"
    BY <1>0, <2>1, <2>2, <2>4 DEF InvoiceReviewed
  <2> QED BY <2>3, <2>4
<1>5. CASE \E i \in DOMAIN invoices : PayInvoice(i)
  <2> PICK i \in DOMAIN invoices : PayInvoice(i)
    BY <1>5
  <2>1. CASE NeedsPayment(i)
    <3>1. /\ invoices' = [invoices EXCEPT ![i].status = "accepted"]
          /\ payments' = NewPayment(i, "Paid")
          /\ invoices[i].status # "rejected"
          /\ PaymentsOf(i) = {}
      BY <2>1 DEF PayInvoice, NeedsPayment, CanPay
    <3>2. invoices' \in Seq(Invoice) /\ OthersKept(i) /\ invoices'[i].status = "accepted"
      BY <3>1, InvoiceChanged
    <3>3. payments' \in Seq(Payment) /\ PaymentOpened(i, "Paid")
      BY <3>1, PaymentAdded
    <3> QED BY <3>1, <3>2, <3>3 DEF InvoiceReviewed
  <2>2. CASE ~NeedsPayment(i)
    <3>1. PICK p \in PaymentsOf(i) : /\ payments[p].status # "Paid"
                                     /\ payments' = [payments EXCEPT ![p].status = "Paid"]
      BY <2>2 DEF PayInvoice
    <3> DEFINE row == [payments[p] EXCEPT !.status = "Paid"]
    <3>2. p \in DOMAIN payments /\ payments[p] \in Payment
      BY SupplyRows DEF PaymentsOf
    <3>3. row \in Payment /\ row.invoice = payments[p].invoice
      BY <3>2 DEF Payment
    <3>4. payments' = [payments EXCEPT ![p] = row]
      BY <3>1
    <3> HIDE DEF row
    <3>5. /\ payments' \in Seq(Payment)
          /\ DOMAIN payments' = DOMAIN payments
          /\ \A q \in DOMAIN payments : payments'[q] = IF q = p THEN row ELSE payments[q]
      BY <1>0, <3>2, <3>3, <3>4, RowChanged
    <3>6. UNCHANGED invoices
      BY <2>2 DEF PayInvoice
    <3>7. PaymentMade(p)
      BY <3>1, <3>3, <3>5, <3>6 DEF PaymentMade
    <3> QED BY <1>0, <3>2, <3>5, <3>6, <3>7
  <2> QED BY <2>1, <2>2
<1> QED BY <1>1, <1>2, <1>3, <1>4, <1>5, InvoicesStep

\* A vendor return is made by an inspection that rejects, or one is handled.
ReturnMade(r) ==
    /\ DOMAIN vreturns' = 1..(Len(vreturns) + 1)
    /\ Len(vreturns') = Len(vreturns) + 1
    /\ \A k \in DOMAIN vreturns : vreturns'[k] = vreturns[k]
    /\ vreturns'[Len(vreturns) + 1].qty = r

ReturnHandled ==
    /\ DOMAIN vreturns' = DOMAIN vreturns
    /\ Len(vreturns') = Len(vreturns)
    /\ \A k \in DOMAIN vreturns :
          /\ vreturns'[k].qty = vreturns[k].qty
          /\ vreturns[k].status # "Initiated" => /\ vreturns'[k].status # "Initiated"
                                                 /\ vreturns'[k].refund = vreturns[k].refund

LEMMA ReturnAdded ==
    ASSUME SupplyTypeOK, NEW r \in Nat, vreturns' = NewReturn(r)
    PROVE  vreturns' \in Seq(VendorReturn) /\ ReturnMade(r)
<1> DEFINE row == [qty |-> r, status |-> "Initiated", refund |-> FALSE]
<1>1. row \in VendorReturn /\ row.qty = r
  BY DEF VendorReturn
<1>2. vreturns \in Seq(VendorReturn) /\ vreturns' = Append(vreturns, row)
  BY DEF SupplyTypeOK, NewReturn
<1> HIDE DEF row
<1> QED BY <1>1, <1>2, RowAdded DEF ReturnMade

LEMMA ReturnsHandled ==
    ASSUME SupplyTypeOK, NEW k \in DOMAIN vreturns, Handled(k)
    PROVE  vreturns' \in Seq(VendorReturn) /\ ReturnHandled
<1> DEFINE Row(status, refund) == [vreturns[k] EXCEPT !.status = status, !.refund = refund]
           Now == vreturns[k]
<1>1. Now \in VendorReturn /\ vreturns \in Seq(VendorReturn)
  BY SupplyRows DEF SupplyTypeOK
<1>2. /\ Now.refund \in BOOLEAN
      /\ \A status \in {"Approved", "Rejected", "In Transit", "Received"}, refund \in BOOLEAN :
            /\ Row(status, refund) \in VendorReturn
            /\ Row(status, refund).qty = Now.qty
            /\ Row(status, refund).status = status
            /\ Row(status, refund).refund = refund
  BY <1>1 DEF VendorReturn
<1>3. \A status : [Now EXCEPT !.status = status] = Row(status, Now.refund)
  BY <1>1 DEF VendorReturn
<1>4. \E status \in {"Approved", "Rejected", "In Transit", "Received"}, refund \in BOOLEAN :
        /\ vreturns' = [vreturns EXCEPT ![k] = Row(status, refund)]
        /\ Now.status = "Initiated" \/ refund = Now.refund
  <2> HIDE DEF Row
  <2>1. CASE \E refund \in BOOLEAN : ApproveReturn(k, refund)
    BY <2>1 DEF ApproveReturn, SetReturn, CanReview, Row
  <2>2. CASE RejectReturn(k)
    BY <1>2, <1>3, <2>2 DEF RejectReturn, SetReturn
  <2>3. CASE ShipReturn(k)
    BY <1>2, <1>3, <2>3 DEF ShipReturn, SetReturn
  <2>4. CASE DispatchReturn(k)
    BY <1>2, <1>3, <2>4 DEF DispatchReturn, SetReturn
  <2>5. CASE CompleteReturn(k)
    BY <1>2, <1>3, <2>5 DEF CompleteReturn, SetReturn
  <2>6. CASE ReturnArrived(k)
    BY <1>2, <1>3, <2>6 DEF ReturnArrived, SetReturn
  <2> QED BY <2>1, <2>2, <2>3, <2>4, <2>5, <2>6 DEF Handled
<1>5. PICK status \in {"Approved", "Rejected", "In Transit", "Received"}, refund \in BOOLEAN :
        /\ vreturns' = [vreturns EXCEPT ![k] = Row(status, refund)]
        /\ Now.status = "Initiated" \/ refund = Now.refund
  BY <1>4
<1> HIDE DEF Row
<1> DEFINE R == Row(status, refund)
<1>6. /\ R \in VendorReturn /\ R.qty = Now.qty /\ R.status # "Initiated"
      /\ Now.status # "Initiated" => R.refund = Now.refund
  BY <1>2, <1>5
<1>7. vreturns' = [vreturns EXCEPT ![k] = R]
  BY <1>5
<1> HIDE DEF R
<1>8. /\ vreturns' \in Seq(VendorReturn)
      /\ Len(vreturns') = Len(vreturns)
      /\ DOMAIN vreturns' = DOMAIN vreturns
      /\ \A j \in DOMAIN vreturns :
            vreturns'[j] = IF j = k THEN R ELSE vreturns[j]
  BY <1>1, <1>6, <1>7, RowChanged
<1> QED BY <1>6, <1>8 DEF ReturnHandled

LEMMA ReturnsTyped ==
    ASSUME SupplyTypeOK, [SupplyNext]_supplyVars
    PROVE  /\ vreturns' \in Seq(VendorReturn)
           /\ \/ UNCHANGED vreturns
              \/ \E a, r \in Inspected : RecordReceipt(a, r) /\ ReturnMade(r)
              \/ ReturnHandled
<1>1. CASE UNCHANGED vreturns
  BY <1>1 DEF SupplyTypeOK
<1>2. CASE \E a, r \in Inspected : RecordReceipt(a, r)
  <2> PICK a \in Inspected, r \in Inspected : RecordReceipt(a, r)
    BY <1>2
  <2>1. r \in Nat
    BY ConstantTypes
  <2>2. vreturns' = NewReturn(r) \/ UNCHANGED vreturns
    BY DEF RecordReceipt
  <2>3. CASE vreturns' = NewReturn(r)
    <3>1. vreturns' \in Seq(VendorReturn) /\ ReturnMade(r)
      BY <2>1, <2>3, ReturnAdded
    <3>2. \E a1, r1 \in Inspected : RecordReceipt(a1, r1) /\ ReturnMade(r1)
      BY <3>1, Zenon
    <3> QED BY <3>1, <3>2
  <2> QED BY <1>1, <2>2, <2>3
<1>3. CASE \E k \in DOMAIN vreturns : Handled(k)
  BY <1>3, ReturnsHandled
<1> QED BY <1>1, <1>2, <1>3, ReturnsStep

LEMMA FilingTyped ==
    ASSUME SupplyTypeOK, [SupplyNext]_supplyVars PROVE filing' \in Filing
<1>1. filing \in Filing /\ NotFiling \in Filing /\ Len(shipments) + 1 \in Nat /\ 0 \in Nat
  BY Lengths DEF SupplyTypeOK, Filing, NotFiling, Form
<1>2. \A form \in Form, step \in {"submit", "ship"} :
        [NotFiling EXCEPT !.at = step, !.form = form] \in Filing
  BY <1>1 DEF Filing
<1>3. CASE UNCHANGED filing
  BY <1>1, <1>3
<1>4. CASE \E q \in Shipped, form \in Form : FileNotice(q, form) \/ EditNotice(q, form)
  BY <1>1, <1>2, <1>4 DEF FileNotice, EditNotice, StartFiling
<1>5. CASE FileSubmission
  BY <1>1, <1>5 DEF FileSubmission, Filing
<1>6. CASE FileShipment
  <2>1. PICK carried \in Nat : filing' = [filing EXCEPT !.at = "bill", !.carried = carried]
    BY <1>1, <1>6 DEF FileShipment
  <2> QED BY <1>1, <2>1 DEF Filing
<1>7. CASE FileInvoice \/ FilingFails
  BY <1>1, <1>7 DEF FileInvoice, FilingFails
<1> QED BY <1>3, <1>4, <1>5, <1>6, <1>7, FilingStep

LEMMA InspectingTyped ==
    ASSUME SupplyTypeOK, [SupplyNext]_supplyVars PROVE inspecting' \in BOOLEAN
BY InspectingStep DEF SupplyTypeOK, RecordReceipt, MarkDelivered, InspectionFails

LEMMA InitTypes == SupplyInit => SupplyTypeOK
<1> SUFFICES ASSUME SupplyInit PROVE SupplyTypeOK
  OBVIOUS
<1>1. order \in OrderRow /\ notice \in Notice /\ receipt \in GoodsReceipt
  BY DEF SupplyInit, OrderRow, Notice, NoReceipt, GoodsReceipt
<1>2. filing \in Filing /\ inspecting \in BOOLEAN
  <2>1. NotFiling.form \in Form
    BY DEF NotFiling, Form
  <2> QED BY <2>1 DEF SupplyInit, Filing, NotFiling
<1>3. \A S : <<>> \in Seq(S)
  BY EmptySeq
<1> QED BY <1>1, <1>2, <1>3 DEF SupplyInit, SupplyTypeOK

LEMMA TypeStep == SupplyTypeOK /\ [SupplyNext]_supplyVars => SupplyTypeOK'
BY OrderTyped, NoticeTyped, ReceiptTyped, ShipmentsTyped, FreightsTyped, MoneyTyped, ReturnsTyped,
   FilingTyped, InspectingTyped DEF SupplyTypeOK

\* The rows of every table keep the types of their columns, whatever the vendor and the
\* warehouse call in whatever order.
THEOREM SupplyTypeCorrect == SupplySpec => []SupplyTypeOK
BY InitTypes, TypeStep, PTL DEF SupplySpec

-----------------------------------------------------------------------------
(* Money *)

LEMMA PaidOnceStep ==
    ASSUME SupplyTypeOK, PaidOnce, [SupplyNext]_supplyVars PROVE PaidOnce'
<1> DEFINE n == Len(payments)
<1>1. n \in Nat /\ DOMAIN payments = 1..n /\ Len(invoices) \in Nat
      /\ DOMAIN invoices = 1..Len(invoices)
  BY Lengths
<1>2. \A p \in DOMAIN payments : payments[p].invoice \in DOMAIN invoices
  BY DEF PaidOnce
<1>3. \A i \in DOMAIN invoices :
        /\ \A p, q \in DOMAIN payments :
              payments[p].invoice = i /\ payments[q].invoice = i => p = q
        /\ invoices[i].status = "accepted" <=> \E p \in DOMAIN payments : payments[p].invoice = i
  BY DEF PaidOnce, AtMostOne, PaymentsOf
<1>4. SUFFICES
        /\ \A p \in DOMAIN payments' : payments'[p].invoice \in DOMAIN invoices'
        /\ \A i \in DOMAIN invoices' :
            /\ \A p, q \in DOMAIN payments' :
                  payments'[p].invoice = i /\ payments'[q].invoice = i => p = q
            /\ invoices'[i].status = "accepted" <=>
                  \E p \in DOMAIN payments' : payments'[p].invoice = i
  BY DEF PaidOnce, AtMostOne, PaymentsOf
<1>5. CASE UNCHANGED <<invoices, payments>>
  BY <1>2, <1>3, <1>5
<1>6. CASE InvoicesAdded
  <2>1. /\ DOMAIN invoices \subseteq DOMAIN invoices'
        /\ \A i \in DOMAIN invoices' : i \in DOMAIN invoices \/ i = Len(invoices) + 1
        /\ Len(invoices) + 1 \notin DOMAIN invoices
    BY <1>1, <1>6 DEF InvoicesAdded
  <2> QED BY <1>2, <1>3, <1>6, <2>1 DEF InvoicesAdded
<1>7. CASE \E i \in DOMAIN invoices : InvoiceReviewed(i)
  <2> PICK i \in DOMAIN invoices : InvoiceReviewed(i)
    BY <1>7
  <2>1. /\ DOMAIN invoices' = DOMAIN invoices
        /\ \A j \in DOMAIN invoices : j # i => invoices'[j] = invoices[j]
    BY DEF InvoiceReviewed, OthersKept
  <2>2. CASE invoices'[i].status = "rejected" /\ invoices[i].status = "pending" /\ UNCHANGED payments
    BY <1>2, <1>3, <2>1, <2>2
  <2>3. CASE invoices'[i].status = "accepted" /\ \E status : PaymentOpened(i, status)
    <3>1. \A p \in DOMAIN payments : payments[p].invoice # i
      BY <1>3, <2>3 DEF InvoiceReviewed, PaymentsOf
    <3>2. /\ DOMAIN payments \subseteq DOMAIN payments'
          /\ \A p \in DOMAIN payments' : p \in DOMAIN payments \/ p = n + 1
          /\ n + 1 \in DOMAIN payments'
          /\ payments'[n + 1].invoice = i
          /\ \A p \in DOMAIN payments : payments'[p] = payments[p]
      BY <1>1, <2>3 DEF PaymentOpened
    <3> HIDE DEF n
    <3> QED BY <1>2, <1>3, <2>1, <2>3, <3>1, <3>2
  <2> QED BY <2>2, <2>3 DEF InvoiceReviewed
<1>8. CASE \E p \in DOMAIN payments : PaymentMade(p)
  BY <1>2, <1>3, <1>8 DEF PaymentMade
<1> QED BY <1>5, <1>6, <1>7, <1>8, MoneyTyped

\* Every accepted invoice has one payment and no other invoice has any, although two
\* routes (update_status and mark_paid of InvoiceService) open payments.
THEOREM PaymentsMatch == SupplySpec => []PaidOnce
<1>1. SupplyInit => PaidOnce
  BY DEF SupplyInit, PaidOnce, AtMostOne, PaymentsOf
<1>2. SupplyTypeOK /\ PaidOnce /\ [SupplyNext]_supplyVars => PaidOnce'
  BY PaidOnceStep
<1> QED BY <1>1, <1>2, SupplyTypeCorrect, PTL DEF SupplySpec

LEMMA SettledStep ==
    ASSUME SupplyTypeOK, PaidOnce, [SupplyNext]_supplyVars
    PROVE  /\ \A p \in DOMAIN payments :
                payments[p].status = "Paid" => payments'[p] = payments[p]
           /\ \A f \in DOMAIN freights :
                freights[f].status = "Paid" => freights'[f] = freights[f]
           /\ \A i \in DOMAIN invoices :
                invoices[i].status # "pending" => invoices'[i] = invoices[i]
<1>1. \A f \in DOMAIN freights : freights[f].status = "Paid" => freights'[f] = freights[f]
  BY FreightsTyped DEF FreightAdded, FreightPaid
<1>2. CASE UNCHANGED <<invoices, payments>> \/ InvoicesAdded \/ \E p \in DOMAIN payments : PaymentMade(p)
  BY <1>1, <1>2 DEF InvoicesAdded, PaymentMade
<1>3. CASE \E i \in DOMAIN invoices : InvoiceReviewed(i)
  <2> PICK i \in DOMAIN invoices : InvoiceReviewed(i)
    BY <1>3
  <2>1. invoices[i].status = "accepted" => PaymentsOf(i) # {}
    BY DEF PaidOnce
  <2>2. invoices[i] \in Invoice
    BY SupplyRows
  <2>3. invoices[i].status = "pending"
    BY <2>1, <2>2 DEF InvoiceReviewed, Invoice
  <2>4. \A j \in DOMAIN invoices : invoices[j].status # "pending" => invoices'[j] = invoices[j]
    BY <2>3 DEF InvoiceReviewed, OthersKept
  <2>5. \A p \in DOMAIN payments : payments'[p] = payments[p]
    BY DEF InvoiceReviewed, PaymentOpened
  <2> QED BY <1>1, <2>4, <2>5
<1> QED BY <1>2, <1>3, MoneyTyped

\* What was paid stays paid, what was reviewed stays so: the payment of an accepted
\* invoice (PaidOnce) is what keeps mark_paid from writing it again.
THEOREM Settled == SupplySpec => SettledForGood
<1>1. SupplyTypeOK /\ PaidOnce /\ [SupplyNext]_supplyVars =>
        [/\ \A p \in DOMAIN payments :
              payments[p].status = "Paid" => payments'[p] = payments[p]
         /\ \A f \in DOMAIN freights :
              freights[f].status = "Paid" => freights'[f] = freights[f]
         /\ \A i \in DOMAIN invoices :
              invoices[i].status # "pending" => invoices'[i] = invoices[i]]_supplyVars
  BY SettledStep
<1> QED BY <1>1, SupplyTypeCorrect, PaymentsMatch, PTL DEF SupplySpec, SettledForGood

-----------------------------------------------------------------------------
(* Inspections and vendor returns *)

\* An order is delivered exactly when all of it was accepted.
THEOREM DeliveredExact == SupplySpec => []DeliveredWhenReceived
<1>1. SupplyInit => DeliveredWhenReceived
  BY ConstantTypes DEF SupplyInit, DeliveredWhenReceived
<1>2. ASSUME SupplyTypeOK, DeliveredWhenReceived, [SupplyNext]_supplyVars
      PROVE  DeliveredWhenReceived'
  <2>1. CASE UNCHANGED order
    BY <1>2, <2>1 DEF DeliveredWhenReceived
  <2>2. CASE \E q \in Shipped, form \in Form : FileNotice(q, form)
    BY <1>2, <2>2 DEF DeliveredWhenReceived, FileNotice, SupplyTypeOK, OrderRow
  <2>3. CASE \E a, r \in Inspected : RecordReceipt(a, r)
    <3> PICK a \in Inspected, r \in Inspected : RecordReceipt(a, r)
      BY <2>3
    <3>1. a \in Nat /\ Quantity \in Nat /\ order.received \in Nat
      BY <1>2, ConstantTypes DEF SupplyTypeOK, OrderRow
    <3>2. order'.received = order.received + a
      BY DEF RecordReceipt
    <3>3. order'.status = IF Completes(a) THEN "Delivered" ELSE order.status
      BY DEF RecordReceipt
    <3> QED BY <1>2, <3>1, <3>2, <3>3 DEF DeliveredWhenReceived, Completes
  <2> QED BY <1>2, <2>1, <2>2, <2>3, OrderStep
<1> QED BY <1>1, <1>2, SupplyTypeCorrect, PTL DEF SupplySpec

\* While a notice waits for a correction the latest vendor return is for just the
\* units its receipt rejects, whatever became of that return since.
THEOREM RejectionsReturned == SupplySpec => []RejectionReturned
<1>1. SupplyInit => RejectionReturned
  BY DEF SupplyInit, RejectionReturned, CanCorrect, NoReceipt
<1>2. ASSUME SupplyTypeOK, RejectionReturned, [SupplyNext]_supplyVars PROVE RejectionReturned'
  <2>0. /\ vreturns \in Seq(VendorReturn) /\ vreturns' \in Seq(VendorReturn)
        /\ Len(vreturns) \in Nat /\ DOMAIN vreturns = 1..Len(vreturns)
    BY <1>2, ReturnsTyped, Lengths DEF SupplyTypeOK
  <2>1. CASE UNCHANGED <<receipt, vreturns>>
    BY <1>2, <2>1 DEF RejectionReturned, CanCorrect
  <2>2. CASE \E q \in Shipped, ship, freight \in BOOLEAN : Resubmit(q, ship, freight)
    BY <2>2 DEF Resubmit, RejectionReturned, CanCorrect, NoReceipt
  <2>3. CASE \E a, r \in Inspected : RecordReceipt(a, r)
    <3> PICK a \in Inspected, r \in Inspected : RecordReceipt(a, r)
      BY <2>3
    <3>1. r \in Nat
      BY ConstantTypes
    <3>2. receipt' = [status |-> InspectionStatus(a, r), rejected |-> r]
      BY DEF RecordReceipt
    <3>3. CASE r = 0
      BY <3>2, <3>3 DEF RejectionReturned, CanCorrect, InspectionStatus
    <3>4. CASE r # 0
      <4>1. vreturns' = NewReturn(r)
        BY <3>1, <3>4 DEF RecordReceipt
      <4>2. ReturnMade(r)
        BY <1>2, <3>1, <4>1, ReturnAdded
      <4>3. vreturns' # <<>> /\ vreturns'[Len(vreturns')].qty = r
        BY <2>0, <4>2 DEF ReturnMade
      <4>4. receipt'.rejected = r
        BY <3>2
      <4> QED BY <4>3, <4>4 DEF RejectionReturned
    <3> QED BY <3>3, <3>4
  <2>4. CASE UNCHANGED receipt /\ ReturnHandled
    <3>1. ASSUME CanCorrect PROVE /\ vreturns' # <<>>
                                  /\ vreturns'[Len(vreturns')].qty = receipt.rejected
      <4>1. vreturns # <<>> /\ vreturns[Len(vreturns)].qty = receipt.rejected
        BY <1>2, <3>1 DEF RejectionReturned
      <4>2. Len(vreturns) \in DOMAIN vreturns
        BY <2>0, <4>1
      <4> QED BY <2>0, <2>4, <4>1, <4>2 DEF ReturnHandled
    <3> QED BY <2>4, <3>1 DEF RejectionReturned, CanCorrect
  <2> QED BY <1>2, <2>1, <2>2, <2>3, <2>4, ReceiptStep, ReturnsTyped
<1> QED BY <1>1, <1>2, SupplyTypeCorrect, PTL DEF SupplySpec

\* A vendor return is reviewed once: of the six routes that write its status, none takes
\* it back to Initiated or touches the refund after the review.
THEOREM ReturnsReviewedOnce == SupplySpec => ReviewedOnce
<1>1. ASSUME SupplyTypeOK, [SupplyNext]_supplyVars
      PROVE  \A k \in DOMAIN vreturns :
                vreturns[k].status # "Initiated" =>
                    /\ vreturns'[k].status # "Initiated"
                    /\ vreturns'[k].refund = vreturns[k].refund
  BY <1>1, ReturnsTyped DEF ReturnMade, ReturnHandled
<1>2. SupplyTypeOK /\ [SupplyNext]_supplyVars =>
        [\A k \in DOMAIN vreturns :
            vreturns[k].status # "Initiated" =>
                /\ vreturns'[k].status # "Initiated"
                /\ vreturns'[k].refund = vreturns[k].refund]_supplyVars
  BY <1>1
<1> QED BY <1>2, SupplyTypeCorrect, PTL DEF SupplySpec, ReviewedOnce

-----------------------------------------------------------------------------
(* The form, filed again after it failed *)

\* What makes FiledOnce inductive: the shipment of a form is the notice's first, its
\* invoice was the first of the notice, and the freight a form has still to add is the
\* shipment's first.
Filed ==
    /\ \A s \in DOMAIN shipments : shipments[s].form => s = 1
    /\ \A i \in DOMAIN invoices : invoices[i].form => invoices[i].noticed
    /\ \A i, j \in DOMAIN invoices : invoices[i].form /\ invoices[j].form => i = j
    /\ \A f \in DOMAIN freights : freights[f].shipment \in DOMAIN shipments
    /\ \A f, g \in DOMAIN freights : freights[f].shipment = freights[g].shipment => f = g
    /\ filing.carried # 0 =>
          /\ filing.at = "bill"
          /\ filing.carried \in DOMAIN shipments
          /\ \A f \in DOMAIN freights : freights[f].shipment # filing.carried

LEMMA Positions ==
    ASSUME NEW n \in Nat
    PROVE  /\ n + 1 \in 1..(n + 1) /\ n + 1 \notin 1..n
           /\ n # 0 => 1 \in 1..n
           /\ n = 0 => 1..n = {}
OBVIOUS

LEMMA NoRows == DOMAIN <<>> = {}
<1>1. <<>> \in Seq(Nat)
  OBVIOUS
<1>2. Len(<<>>) = 0
  BY <1>1, EmptySeq
<1>3. DOMAIN <<>> = 1..Len(<<>>)
  BY <1>1, LenProperties
<1> QED BY <1>2, <1>3

\* No step takes a shipment away.
LEMMA ShipmentsStay ==
    ASSUME SupplyTypeOK, [SupplyNext]_supplyVars
    PROVE  /\ DOMAIN shipments \subseteq DOMAIN shipments'
           /\ (\A s \in DOMAIN shipments : shipments[s].form => s = 1)
                => \A s \in DOMAIN shipments' : shipments'[s].form => s = 1
<1>1. CASE /\ DOMAIN shipments' = DOMAIN shipments
           /\ \A s \in DOMAIN shipments : shipments'[s].form = shipments[s].form
  BY <1>1
<1>2. CASE \E row \in Shipment : /\ shipments' = Append(shipments, row)
                                 /\ row.status # "Delivered"
                                 /\ row.form => shipments = <<>>
  <2> PICK row \in Shipment : shipments' = Append(shipments, row) /\ (row.form => shipments = <<>>)
    BY <1>2
  <2>1. shipments \in Seq(Shipment)
    BY DEF SupplyTypeOK
  <2>2. /\ Len(shipments) \in Nat
        /\ DOMAIN shipments = 1..Len(shipments)
        /\ DOMAIN shipments' = 1..(Len(shipments) + 1)
        /\ \A s \in DOMAIN shipments : shipments'[s] = shipments[s]
        /\ shipments'[Len(shipments) + 1] = row
    BY <2>1, RowAdded
  <2>3. row.form => Len(shipments) = 0
    BY LenProperties, EmptySeq
  <2>4. \A s \in DOMAIN shipments' : s \in DOMAIN shipments \/ s = Len(shipments) + 1
    BY <2>2
  <2> QED BY <2>2, <2>3, <2>4
<1> QED BY <1>1, <1>2, ShipmentsTyped

LEMMA FormInvoices ==
    ASSUME SupplyTypeOK, Filed, [SupplyNext]_supplyVars
    PROVE  /\ \A i \in DOMAIN invoices' : invoices'[i].form => invoices'[i].noticed
           /\ \A i, j \in DOMAIN invoices' : invoices'[i].form /\ invoices'[j].form => i = j
<1>1. CASE UNCHANGED invoices
  BY <1>1 DEF Filed
<1>2. CASE InvoicesAdded
  <2>1. /\ Len(invoices) \in Nat
        /\ \A i \in DOMAIN invoices' : i \in DOMAIN invoices \/ i = Len(invoices) + 1
    BY <1>2, Lengths DEF InvoicesAdded
  <2>2. invoices'[Len(invoices) + 1].form => \A i \in DOMAIN invoices : ~invoices[i].form
    BY <1>2 DEF InvoicesAdded, NoticeInvoices, Filed
  <2> QED BY <1>2, <2>1, <2>2 DEF InvoicesAdded, Filed
<1>3. CASE \E i \in DOMAIN invoices : InvoiceReviewed(i)
  BY <1>3 DEF InvoiceReviewed, OthersKept, Filed
<1> QED BY <1>1, <1>2, <1>3, MoneyTyped DEF PaymentMade

\* A freight added to a shipment that has none.
LEMMA FreightsFit ==
    ASSUME SupplyTypeOK, Filed, NEW s \in DOMAIN shipments', FreightAdded(s),
           \A f \in DOMAIN freights : freights[f].shipment # s,
           DOMAIN shipments \subseteq DOMAIN shipments'
    PROVE  /\ \A f \in DOMAIN freights' : freights'[f].shipment \in DOMAIN shipments'
           /\ \A f, g \in DOMAIN freights' : freights'[f].shipment = freights'[g].shipment => f = g
<1>1. /\ Len(freights) \in Nat
      /\ \A f \in DOMAIN freights' : f \in DOMAIN freights \/ f = Len(freights) + 1
  BY Lengths DEF FreightAdded
<1> QED BY <1>1 DEF FreightAdded, Filed

LEMMA FormFreights ==
    ASSUME "one form" \in SupplyDiscipline, SupplyTypeOK, Filed, [SupplyNext]_supplyVars
    PROVE  /\ \A f \in DOMAIN freights' : freights'[f].shipment \in DOMAIN shipments'
           /\ \A f, g \in DOMAIN freights' : freights'[f].shipment = freights'[g].shipment => f = g
<1>1. DOMAIN shipments \subseteq DOMAIN shipments'
  BY ShipmentsStay
<1>2. CASE UNCHANGED freights \/ FreightPaid
  BY <1>1, <1>2 DEF Filed, FreightPaid
<1>3. CASE FileInvoice /\ filing.carried # 0 /\ FreightAdded(filing.carried)
  BY <1>1, <1>3, FreightsFit DEF Filed
<1>4. CASE /\ \E q \in Shipped, ship, freight \in BOOLEAN : Resubmit(q, ship, freight)
           /\ FreightOf(1) = {}
           /\ FreightAdded(1)
  <2>1. /\ Len(freights) \in Nat /\ DOMAIN freights = 1..Len(freights)
        /\ Len(shipments) \in Nat /\ DOMAIN shipments = 1..Len(shipments)
    BY Lengths
  <2>2. freights' # freights
    <3>1. Len(freights) + 1 \in DOMAIN freights' /\ Len(freights) + 1 \notin DOMAIN freights
      BY <1>4, <2>1, Positions DEF FreightAdded
    <3> QED BY <3>1
  <2>3. shipments # <<>>
    BY <1>4, <2>2 DEF Resubmit, CorrectionFreight
  <2>4. 1 \in DOMAIN shipments
    <3>1. shipments \in Seq(Shipment)
      BY DEF SupplyTypeOK
    <3>2. Len(shipments) # 0
      BY <2>3, <3>1, EmptySeq
    <3> QED BY <2>1, <3>2, Positions
  <2>5. \A f \in DOMAIN freights : freights[f].shipment # 1
    BY <1>4 DEF FreightOf
  <2> QED BY <1>1, <1>4, <2>4, <2>5, FreightsFit
<1> QED BY <1>2, <1>3, <1>4, FreightsTyped

LEMMA FormCarries ==
    ASSUME "one form" \in SupplyDiscipline, SupplyTypeOK, Filed, [SupplyNext]_supplyVars
    PROVE  filing'.carried # 0 =>
              /\ filing'.at = "bill"
              /\ filing'.carried \in DOMAIN shipments'
              /\ \A f \in DOMAIN freights' : freights'[f].shipment # filing'.carried
<1>0. filing \in Filing /\ NotFiling.carried = 0
  BY DEF SupplyTypeOK, NotFiling
<1>1. CASE UNCHANGED filing
  <2> SUFFICES ASSUME filing.carried # 0
               PROVE  /\ filing.at = "bill"
                      /\ filing.carried \in DOMAIN shipments'
                      /\ \A f \in DOMAIN freights' : freights'[f].shipment # filing.carried
    BY <1>1
  <2>1. filing.at = "bill" /\ filing.carried \in DOMAIN shipments'
    BY ShipmentsStay DEF Filed
  <2>2. ~\E q \in Shipped, ship, freight \in BOOLEAN : Resubmit(q, ship, freight)
    BY <2>1 DEF Resubmit, VendorFree
  <2>3. ~FileInvoice
    BY <1>0, <1>1 DEF FileInvoice
  <2>4. UNCHANGED freights \/ FreightPaid
    BY <2>2, <2>3, FreightsTyped
  <2> QED BY <2>1, <2>4 DEF Filed, FreightPaid
<1>2. CASE \E q \in Shipped, form \in Form : FileNotice(q, form) \/ EditNotice(q, form)
  <2>1. PICK form \in Form, step \in {"submit", "ship"} : StartFiling(form, step)
    BY <1>2 DEF FileNotice, EditNotice
  <2>2. filing'.carried = 0
    BY <2>1 DEF StartFiling, NotFiling
  <2> QED BY <2>2
<1>3. CASE FileSubmission
  <2>1. filing.at = "submit" /\ filing' = [filing EXCEPT !.at = "ship"]
    BY <1>3 DEF FileSubmission
  <2>2. filing'.carried = filing.carried
    BY <1>0, <2>1 DEF Filing
  <2> QED BY <2>1, <2>2 DEF Filed
<1>4. CASE FileShipment
  <2>1. filing' = [filing EXCEPT !.at = "bill",
                                 !.carried = IF FormShips THEN Len(shipments) + 1 ELSE 0]
    BY <1>4 DEF FileShipment
  <2>2. filing'.at = "bill" /\ filing'.carried = IF FormShips THEN Len(shipments) + 1 ELSE 0
    BY <1>0, <2>1 DEF Filing
  <2>3. CASE FormShips
    <3> DEFINE row == [status |-> "Dispatched", form |-> TRUE]
    <3>1. shipments = <<>> /\ shipments' = Append(shipments, row) /\ UNCHANGED freights
      BY <1>4, <2>3 DEF FileShipment, FormShips
    <3>2. shipments \in Seq(Shipment) /\ row \in Shipment
      BY DEF SupplyTypeOK, Shipment, ShipmentStatuses
    <3> HIDE DEF row
    <3>3. Len(shipments) = 0
      BY <3>1, <3>2, EmptySeq
    <3>4. Len(shipments) \in Nat /\ DOMAIN shipments = 1..Len(shipments)
      BY <3>2, RowAdded
    <3>5. DOMAIN shipments' = 1..(Len(shipments) + 1)
      BY <3>1, <3>2, RowAdded
    <3>6. Len(shipments) + 1 \in DOMAIN shipments' /\ DOMAIN shipments = {}
      <4>1. Len(shipments) + 1 \in 1..(Len(shipments) + 1)
        BY <3>4, Positions
      <4>2. 1..Len(shipments) = {}
        BY <3>3, <3>4, Positions
      <4> QED BY <3>4, <3>5, <4>1, <4>2
    <3>7. DOMAIN freights = {}
      BY <3>6 DEF Filed
    <3> QED BY <2>2, <2>3, <3>1, <3>6, <3>7
  <2>4. CASE ~FormShips
    BY <2>2, <2>4
  <2> QED BY <2>3, <2>4
<1>5. CASE FileInvoice \/ FilingFails
  BY <1>0, <1>5 DEF FileInvoice, FilingFails
<1> QED BY <1>1, <1>2, <1>3, <1>4, <1>5, FilingStep

\* If a vendor sends one request at a time, a form may fail at any of its commits and be
\* sent again, as a correction or a change: the notice still has one shipment and one
\* invoice of the form, and a shipment one freight.
THEOREM FiledAtMostOnce == ASSUME "one form" \in SupplyDiscipline PROVE SupplySpec => []FiledOnce
<1>1. SupplyInit => Filed
  <2>1. \A i : i \notin DOMAIN <<>>
    BY NoRows
  <2>2. NotFiling.carried = 0
    BY DEF NotFiling
  <2> QED BY <2>1, <2>2 DEF SupplyInit, Filed
<1>2. SupplyTypeOK /\ Filed /\ [SupplyNext]_supplyVars => Filed'
  BY ShipmentsStay, FormInvoices, FormFreights, FormCarries DEF Filed
<1>3. Filed => FiledOnce
  BY DEF Filed, FiledOnce, AtMostOne, FreightOf
<1> QED BY <1>1, <1>2, <1>3, SupplyTypeCorrect, PTL DEF SupplySpec

-----------------------------------------------------------------------------
(* Whole shipments, fully counted *)

\* Before its inspection a notice is for all that is outstanding, and an inspection that
\* is not done with completing the order rejected nothing.
WholeNotice ==
    /\ receipt = NoReceipt /\ notice.draft # "none" => notice.shipped = Outstanding
    /\ order.received < Quantity => receipt.status # "accepted"
    /\ inspecting => receipt.status = "accepted"
    /\ filing.at = "submit" => notice.draft # "none"

LEMMA NoticeWritten ==
    ASSUME SupplyTypeOK, NEW q \in Shipped, NEW form \in Form,
           FileNotice(q, form) \/ EditNotice(q, form)
    PROVE  /\ ShipsWhole(q)
           /\ notice'.shipped = q /\ notice'.draft # "none"
           /\ order'.received = order.received
           /\ UNCHANGED <<receipt, inspecting>>
<1>1. CASE FileNotice(q, form)
  <2>1. notice' = [draft |-> "Draft", shipped |-> q]
    BY <1>1 DEF FileNotice
  <2>2. order' = [order EXCEPT !.status = "Ready to Ship"] /\ order \in OrderRow
    BY <1>1 DEF FileNotice, SupplyTypeOK
  <2>3. order'.received = order.received
    BY <2>2 DEF OrderRow
  <2>4. ShipsWhole(q) /\ UNCHANGED <<receipt, inspecting>>
    BY <1>1 DEF FileNotice
  <2>5. notice'.shipped = q /\ notice'.draft # "none"
    BY <2>1
  <2> QED BY <2>3, <2>4, <2>5
<1>2. CASE EditNotice(q, form)
  <2>1. \E draft : draft # "none" /\ notice' = [draft |-> draft, shipped |-> q]
    BY <1>2 DEF EditNotice
  <2> QED BY <1>2, <2>1 DEF EditNotice
<1> QED BY <1>1, <1>2

LEMMA DraftStays ==
    ASSUME SupplyTypeOK, [SupplyNext]_supplyVars, notice.draft # "none"
    PROVE  notice'.draft # "none"
<1>1. CASE FileSubmission \/ SubmitNotice
  BY <1>1 DEF SupplyTypeOK, Notice, FileSubmission, SubmitNotice
<1>2. CASE \E q \in Shipped, form \in Form : FileNotice(q, form) \/ EditNotice(q, form)
  BY <1>2, NoticeWritten
<1>3. CASE \E q \in Shipped, ship, freight \in BOOLEAN : Resubmit(q, ship, freight)
  BY <1>3 DEF SupplyTypeOK, Notice, Resubmit
<1> QED BY <1>1, <1>2, <1>3, NoticeStep

LEMMA SubmitsNotice ==
    ASSUME SupplyTypeOK, WholeNotice, [SupplyNext]_supplyVars
    PROVE  filing'.at = "submit" => notice'.draft # "none"
<1>0. filing \in Filing /\ NotFiling.at = "idle"
  BY DEF SupplyTypeOK, NotFiling
<1>1. CASE UNCHANGED filing
  BY <1>1, DraftStays DEF WholeNotice
<1>2. CASE \E q \in Shipped, form \in Form : FileNotice(q, form) \/ EditNotice(q, form)
  BY <1>2, NoticeWritten
<1>3. CASE FileSubmission \/ FileShipment
  <2>1. \E at \in {"ship", "bill"} : filing'.at = at
    BY <1>0, <1>3 DEF FileSubmission, FileShipment, Filing
  <2> QED BY <2>1
<1>4. CASE FileInvoice \/ FilingFails
  BY <1>0, <1>4 DEF FileInvoice, FilingFails
<1> QED BY <1>1, <1>2, <1>3, <1>4, FilingStep

LEMMA ReceiptFields ==
    ASSUME SupplyTypeOK, NEW a \in Inspected, NEW r \in Inspected, RecordReceipt(a, r)
    PROVE  /\ a \in Nat /\ r \in Nat /\ Quantity \in Nat
           /\ order.received \in Nat /\ notice.shipped \in Nat
           /\ order'.received = order.received + a
           /\ receipt'.status = InspectionStatus(a, r)
           /\ InspectionStatus(a, r) # "none"
           /\ inspecting' => inspecting \/ Completes(a)
           /\ ~inspecting /\ receipt = NoReceipt /\ notice.draft # "none"
           /\ UNCHANGED <<notice, filing>>
<1>1. /\ a \in Nat /\ r \in Nat /\ Quantity \in Nat
      /\ order.received \in Nat /\ notice.shipped \in Nat
  BY ConstantTypes DEF SupplyTypeOK, OrderRow, Notice
<1>2. /\ order'.received = order.received + a
      /\ receipt'.status = InspectionStatus(a, r)
      /\ UNCHANGED <<notice, filing>>
      /\ ~inspecting /\ receipt = NoReceipt /\ notice.draft # "none"
  BY DEF RecordReceipt
<1>3. inspecting' => inspecting \/ Completes(a)
  BY DEF RecordReceipt
<1>4. InspectionStatus(a, r) # "none"
  BY DEF InspectionStatus
<1> QED BY <1>1, <1>2, <1>3, <1>4

LEMMA WholeInspected ==
    ASSUME {"whole", "count"} \subseteq SupplyDiscipline, SupplyTypeOK, WholeNotice,
           NEW a \in Inspected, NEW r \in Inspected, RecordReceipt(a, r)
    PROVE  WholeNotice'
<1>1. a + r = Quantity - order.received
  BY DEF RecordReceipt, CountsShipped, WholeNotice, Outstanding
<1>2. Completes(a) <=> r = 0
  BY <1>1, ReceiptFields DEF Completes
<1>3. order'.received < Quantity <=> r # 0
  BY <1>1, ReceiptFields
<1>4. receipt'.status = "accepted" <=> r = 0
  BY ReceiptFields DEF InspectionStatus
<1>5. receipt'.status # "none"
  BY ReceiptFields
<1>6. receipt' # NoReceipt
  BY <1>5 DEF NoReceipt
<1>7. UNCHANGED <<notice, filing>>
  BY ReceiptFields
<1> QED BY <1>2, <1>3, <1>4, <1>6, <1>7, ReceiptFields DEF WholeNotice

LEMMA WholeStep ==
    ASSUME {"whole", "count"} \subseteq SupplyDiscipline, SupplyTypeOK, WholeNotice,
           [SupplyNext]_supplyVars
    PROVE  WholeNotice'
<1>1. CASE \E a, r \in Inspected : RecordReceipt(a, r)
  BY <1>1, WholeInspected
<1>2. CASE \E q \in Shipped, form \in Form : FileNotice(q, form) \/ EditNotice(q, form)
  <2> PICK q \in Shipped, form \in Form : FileNotice(q, form) \/ EditNotice(q, form)
    BY <1>2
  <2>1. /\ q = Outstanding
        /\ notice'.shipped = q
        /\ order'.received = order.received
        /\ UNCHANGED <<receipt, inspecting>>
    BY NoticeWritten DEF ShipsWhole
  <2> QED BY <2>1, SubmitsNotice DEF WholeNotice, Outstanding
<1>3. CASE \E q \in Shipped, ship, freight \in BOOLEAN : Resubmit(q, ship, freight)
  <2>1. PICK q \in Shipped : /\ q = Outstanding
                             /\ notice'.shipped = q
                             /\ UNCHANGED <<order, inspecting>>
                             /\ receipt.status # "accepted"
                             /\ receipt' = NoReceipt
    BY <1>3 DEF Resubmit, ShipsWhole, CanCorrect, SupplyTypeOK, Notice
  <2> QED BY <2>1, SubmitsNotice DEF WholeNotice, Outstanding, NoReceipt
<1>4. CASE FileSubmission \/ SubmitNotice
  <2>1. /\ notice.draft # "none"
        /\ notice'.shipped = notice.shipped
        /\ UNCHANGED <<order, receipt, inspecting>>
    BY <1>4 DEF FileSubmission, SubmitNotice, SupplyTypeOK, Notice, WholeNotice
  <2> QED BY <2>1, SubmitsNotice DEF WholeNotice, Outstanding
<1>5. CASE UNCHANGED <<order, notice, receipt>> /\ (inspecting' => inspecting)
  BY <1>5, SubmitsNotice DEF WholeNotice, Outstanding
<1>6. MarkDelivered \/ InspectionFails => inspecting' = FALSE
  BY DEF MarkDelivered, InspectionFails
<1> QED BY <1>1, <1>2, <1>3, <1>4, <1>5, <1>6, OrderStep, NoticeStep, ReceiptStep, InspectingStep

\* If vendors ship all that is outstanding and inspections count it, it stays so.
LEMMA WholeAlways ==
    ASSUME {"whole", "count"} \subseteq SupplyDiscipline PROVE SupplySpec => []WholeNotice
<1>1. SupplyInit => WholeNotice
  BY DEF SupplyInit, WholeNotice, NoReceipt, NotFiling
<1>2. SupplyTypeOK /\ WholeNotice /\ [SupplyNext]_supplyVars => WholeNotice'
  BY WholeStep
<1> QED BY <1>1, <1>2, SupplyTypeCorrect, PTL DEF SupplySpec

\* Then an order short of its quantity is never left with an accepted notice,
\* which would let nobody supply the rest.
THEOREM ShortOrdersOpen ==
    ASSUME {"whole", "count"} \subseteq SupplyDiscipline PROVE SupplySpec => []ShortOrderOpen
<1>1. WholeNotice => ShortOrderOpen
  BY DEF WholeNotice, ShortOrderOpen
<1> QED BY <1>1, WholeAlways, PTL

\* And no correction comes between the two commits of an inspection: what it marks
\* delivered was received.
THEOREM DeliveredByReceipts ==
    ASSUME {"whole", "count"} \subseteq SupplyDiscipline PROVE SupplySpec => DeliveredByReceipt
<1>1. ASSUME SupplyTypeOK, WholeNotice, [SupplyNext]_supplyVars,
             NEW s \in DOMAIN shipments, shipments[s].status # "Delivered",
             shipments'[s].status = "Delivered"
      PROVE  receipt'.status # "none"
  <2>1. CASE \E a, r \in Inspected : RecordReceipt(a, r)
    BY <1>1, <2>1, ReceiptFields
  <2>2. CASE MarkDelivered
    BY <1>1, <2>2 DEF MarkDelivered, WholeNotice
  <2>3. CASE FileShipment \/ CreateShipment
    <3>1. shipments'[s] = shipments[s]
      <4>1. shipments \in Seq(Shipment)
        BY <1>1 DEF SupplyTypeOK
      <4>2. \A form \in BOOLEAN : [status |-> "Dispatched", form |-> form] \in Shipment
        BY DEF Shipment, ShipmentStatuses
      <4>3. \/ UNCHANGED shipments
            \/ \E row \in Shipment : shipments' = Append(shipments, row)
        BY <2>3, <4>2 DEF FileShipment, CreateShipment
      <4> QED BY <1>1, <4>1, <4>3, RowAdded
    <3> QED BY <1>1, <3>1
  <2>4. CASE \E t \in DOMAIN shipments, status \in Progress : UpdateShipment(t, status)
    <3> PICK t \in DOMAIN shipments, status \in Progress : UpdateShipment(t, status)
      BY <2>4
    <3>1. status # "Delivered" /\ shipments' = [shipments EXCEPT ![t].status = status]
      BY DEF UpdateShipment, CanReport
    <3>2. shipments[t] \in Shipment
      BY <1>1, SupplyRows
    <3>3. shipments'[t].status = status
      BY <3>1, <3>2 DEF Shipment
    <3>4. s # t => shipments'[s] = shipments[s]
      BY <1>1, <3>1
    <3> QED BY <1>1, <3>1, <3>3, <3>4
  <2> QED BY <1>1, <2>1, <2>2, <2>3, <2>4, ShipmentsStep
<1>2. SupplyTypeOK /\ WholeNotice /\ [SupplyNext]_supplyVars =>
        [\A s \in DOMAIN shipments :
            /\ shipments[s].status # "Delivered"
            /\ shipments'[s].status = "Delivered"
            => receipt'.status # "none"]_supplyVars
  BY <1>1
<1> QED BY <1>2, SupplyTypeCorrect, WholeAlways, PTL DEF SupplySpec, DeliveredByReceipt
=============================================================================
