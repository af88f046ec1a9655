------------------------------- MODULE Sourcing -------------------------------
(***************************************************************************)
(* Requests for quotation, quotations and purchase orders between one      *)
(* warehouse and its vendors, up to the delivery of an order               *)
(* (app/services/vendor/rfq_service.py, quotation_service.py and           *)
(* purchase_order_service.py).                                             *)
(*                                                                         *)
(* A table is a sequence of rows, the identity of a row its position.      *)
(* Handlers run in sessions that interleave (READ COMMITTED, no row        *)
(* locks): a session's row here holds what its handler has in memory, "pc" *)
(* names the step it comes to next.  The ORM writes a column at a commit   *)
(* only when its value is another than the one loaded.                     *)
(***************************************************************************)
EXTENDS Naturals, Sequences, FiniteSets

CONSTANTS
    Vendors,
    Sessions,
    NoVendor,
    Crashes,       \* whether the process may die between two steps
    Discipline,    \* what the clients are assumed to do although no handler checks it
    MaxRfqs, MaxQuotations, MaxOrders   \* bounds

(* "answer": a vendor answers an order in one session at a time.            *)
Disciplines == {"answer"}

RfqStatuses == {"Sent", "Partially Responded", "Ready for Comparison",
                "Purchase Order Generated", "Closed"}
OrderStatuses == {"Pending Acceptance", "Accepted", "Rejected", "Delivered"}

ASSUME SourcingAssumption ==
    /\ IsFiniteSet(Vendors)
    /\ NoVendor \notin Vendors
    /\ Crashes \in BOOLEAN
    /\ Discipline \subseteq Disciplines
    /\ {MaxRfqs, MaxQuotations, MaxOrders} \subseteq Nat

VARIABLES
    active,       \* the vendors whose status is Active
    rfqs,         \* rfqs, with their rfq_invited_vendors
    quotations,   \* quotations
    orders,       \* purchase_orders
    sessions      \* what the handler in each session has in memory

tables == <<active, rfqs, quotations, orders>>
vars == <<active, rfqs, quotations, orders, sessions>>

-----------------------------------------------------------------------------
(* Rows *)

Rfq == [status : RfqStatuses, invited : SUBSET Vendors]
Quotation == [rfq : Nat, vendor : Vendors, status : {"Submitted", "Approved"}]
Order == [rfq : Nat, quotation : Nat, vendor : Vendors, status : OrderStatuses]

\* row: the RFQ, quotation or order the handler works on; loaded: its RFQ's
\* status when it was read; next: the status to write.  code: the reference
\* code drawn for an order.
Session == [pc     : {"idle", "counting", "answered", "selecting", "marking", "deciding"},
            row    : Nat,
            vendor : Vendors \cup {NoVendor},
            loaded : RfqStatuses,
            next   : RfqStatuses,
            code   : Nat]

Idle == [pc |-> "idle", row |-> 0, vendor |-> NoVendor,
         loaded |-> "Sent", next |-> "Sent", code |-> 0]

NewRfq(chosen) == [status |-> "Sent", invited |-> chosen]

\* create_po_from_quotation copies the quotation's vendor.
NewOrder(q) == [rfq |-> quotations[q].rfq, quotation |-> q,
                vendor |-> quotations[q].vendor, status |-> "Pending Acceptance"]

-----------------------------------------------------------------------------
(* Helpers *)

Responders(r) == {quotations[q].vendor : q \in {x \in DOMAIN quotations : quotations[x].rfq = r}}

StatusByQuotations(r, v) ==
    IF Cardinality({q \in DOMAIN quotations : quotations[q].rfq = r}) + 1
           >= Cardinality(rfqs[r].invited)
    THEN "Ready for Comparison" ELSE "Partially Responded"

\* submit_quotation sees the quotations committed and its own, flushed.
StatusByResponse(r, v) ==
    IF Cardinality(Responders(r) \cup {v}) >= Cardinality(rfqs[r].invited)
    THEN "Ready for Comparison" ELSE "Partially Responded"

\* next_sequential_code: one more than the largest code present.
NextCode == Len(orders) + 1

\* A column whose value is the one loaded is not written.
Written(r, s) ==
    IF sessions[s].next = sessions[s].loaded THEN rfqs
    ELSE [rfqs EXCEPT ![r].status = sessions[s].next]

\* What a client that keeps the discipline does not do.
MayAnswer(o) ==
    "answer" \in Discipline =>
        \A s \in Sessions : sessions[s].pc = "deciding" => sessions[s].row # o

Go(s, session) == sessions' = [sessions EXCEPT ![s] = session]
Stop(s) == Go(s, Idle)

-----------------------------------------------------------------------------
(* Handlers *)

Init ==
    /\ active = Vendors
    /\ rfqs = <<>>
    /\ quotations = <<>>
    /\ orders = <<>>
    /\ sessions = [s \in Sessions |-> Idle]

\* The super admin blocks a vendor, or unblocks one.
SetVendorStatus(v) ==
    /\ active' = IF v \in active THEN active \ {v} ELSE active \cup {v}
    /\ UNCHANGED <<rfqs, quotations, orders, sessions>>

\* create_rfq commits an RFQ with its invitations.
CreateRfq(chosen) ==
    /\ Len(rfqs) < MaxRfqs
    /\ rfqs' = Append(rfqs, NewRfq(chosen))
    /\ UNCHANGED <<active, quotations, orders, sessions>>

\* submit_quotation: an active vendor who was invited finds the RFQ.
OpenQuotation(s, v, r) ==
    /\ sessions[s].pc = "idle"
    /\ v \in active
    /\ v \in rfqs[r].invited
    /\ Go(s, [Idle EXCEPT !.pc = "counting", !.row = r, !.vendor = v,
                          !.loaded = rfqs[r].status])
    /\ UNCHANGED tables

CountResponders(s) ==
    /\ sessions[s].pc = "counting"
    /\ Go(s, [sessions[s] EXCEPT !.pc = "answered",
                  !.next = StatusByResponse(sessions[s].row, sessions[s].vendor)])
    /\ UNCHANGED tables

CommitQuotation(s) ==
    /\ sessions[s].pc = "answered"
    /\ Len(quotations) < MaxQuotations
    /\ quotations' = Append(quotations, [rfq |-> sessions[s].row, vendor |-> sessions[s].vendor,
                                         status |-> "Submitted"])
    /\ rfqs' = Written(sessions[s].row, s)
    /\ Stop(s)
    /\ UNCHANGED <<active, orders>>

\* select_vendor: finds RFQ and quotation, draws the order's code.
BeginSelection(s, q) ==
    /\ sessions[s].pc = "idle"
    /\ Go(s, [Idle EXCEPT !.pc = "selecting", !.row = q, !.code = NextCode])
    /\ UNCHANGED tables

Unapproved(q) == quotations
Approved(q) == [quotations EXCEPT ![q].status = "Approved"]

\* The vendor's notification commits the order and the approved quotation.
CommitOrder(s) ==
    /\ sessions[s].pc = "selecting"
    /\ sessions[s].code = NextCode
    /\ Len(orders) < MaxOrders
    /\ orders' = Append(orders, NewOrder(sessions[s].row))
    /\ quotations' = Approved(sessions[s].row)
    /\ Go(s, [sessions[s] EXCEPT !.pc = "marking"])
    /\ UNCHANGED <<active, rfqs>>

\* The unique column refuses a code another session has used meanwhile.
SelectionFails(s) ==
    /\ sessions[s].pc = "selecting"
    /\ sessions[s].code # NextCode
    /\ Stop(s)
    /\ UNCHANGED tables

\* The second commit of select_vendor.
MarkGenerated(s) ==
    /\ sessions[s].pc = "marking"
    /\ rfqs' = [rfqs EXCEPT ![quotations[sessions[s].row].rfq].status = "Purchase Order Generated"]
    /\ Stop(s)
    /\ UNCHANGED <<active, quotations, orders>>

Answerable(o) == orders[o].status # "Delivered"
Pending(o) == orders[o].status = "Pending Acceptance"

\* accept and reject of an order look at its status, then write it.
OpenOrder(s, o) ==
    /\ sessions[s].pc = "idle"
    /\ orders[o].vendor \in active
    /\ Pending(o)
    /\ MayAnswer(o)
    /\ Go(s, [Idle EXCEPT !.pc = "deciding", !.row = o])
    /\ UNCHANGED tables

AnswerOrder(s, answer) ==
    /\ sessions[s].pc = "deciding"
    /\ orders' = [orders EXCEPT ![sessions[s].row].status = answer]
    /\ Stop(s)
    /\ UNCHANGED <<active, rfqs, quotations>>

Accept(s) == AnswerOrder(s, "Accepted")
Reject(s) == AnswerOrder(s, "Rejected")

\* The inspection that completes an order closes its RFQ.
Deliver(o) ==
    /\ orders[o].status = "Accepted"
    /\ orders' = [orders EXCEPT ![o].status = "Delivered"]
    /\ rfqs' = [rfqs EXCEPT ![orders[o].rfq].status = "Closed"]
    /\ UNCHANGED <<active, quotations, sessions>>

\* The process dies: what a session has in memory is gone.
Crash(s) ==
    /\ Crashes
    /\ sessions[s].pc # "idle"
    /\ Stop(s)
    /\ UNCHANGED tables

\* A handler under way takes its next step.
Proceed(s) ==
    \/ CountResponders(s) \/ CommitQuotation(s)
    \/ CommitOrder(s) \/ SelectionFails(s) \/ MarkGenerated(s)
    \/ Accept(s) \/ Reject(s)

Next ==
    \/ \E v \in Vendors : SetVendorStatus(v)
    \/ \E chosen \in SUBSET Vendors : CreateRfq(chosen)
    \/ \E s \in Sessions :
          \/ \E v \in Vendors, r \in DOMAIN rfqs : OpenQuotation(s, v, r)
          \/ \E q \in DOMAIN quotations : BeginSelection(s, q)
          \/ \E o \in DOMAIN orders : OpenOrder(s, o)
          \/ Proceed(s)
          \/ Crash(s)
    \/ \E o \in DOMAIN orders : Deliver(o)

Spec == Init /\ [][Next]_vars

-----------------------------------------------------------------------------
(* Properties *)

\* Rows have their types and name rows that exist.
TypeOK ==
    /\ active \subseteq Vendors
    /\ rfqs \in Seq(Rfq)
    /\ quotations \in Seq(Quotation)
    /\ orders \in Seq(Order)
    /\ sessions \in [Sessions -> Session]
    /\ \A q \in DOMAIN quotations : quotations[q].rfq \in DOMAIN rfqs
    /\ \A o \in DOMAIN orders : orders[o].quotation \in DOMAIN quotations

\* A comparison is never announced before every vendor invited has answered,
\* however their answers, a selection and a crash interleave
\* (quotation_service.submit_quotation counts vendors, not quotations).
ReadyWhenAnswered ==
    \A r \in DOMAIN rfqs :
        rfqs[r].status = "Ready for Comparison" => rfqs[r].invited \subseteq Responders(r)

\* A quotation is approved exactly when an order was made of it, for the vendor
\* and the RFQ of that quotation: no cut between the commits of select_vendor
\* parts the two.
ApprovedIsOrdered ==
    /\ \A q \in DOMAIN quotations :
          quotations[q].status = "Approved" <=> \E o \in DOMAIN orders : orders[o].quotation = q
    /\ \A o \in DOMAIN orders :
          LET q == quotations[orders[o].quotation]
          IN  orders[o].rfq = q.rfq /\ orders[o].vendor = q.vendor

\* Sourcing implements Tender: the order's status is the state of the award.
StateOf(status) ==
    CASE status = "Pending Acceptance" -> "pending"
      [] status = "Accepted" -> "accepted"
      [] status = "Rejected" -> "rejected"
      [] status = "Delivered" -> "fulfilled"

Promise == INSTANCE Tender WITH
    asked  <- [r \in DOMAIN rfqs |-> rfqs[r].invited],
    offers <- {<<quotations[q].rfq, quotations[q].vendor>> : q \in DOMAIN quotations},
    awards <- [o \in DOMAIN orders |-> [rfq    |-> orders[o].rfq,
                                        vendor |-> orders[o].vendor,
                                        state  |-> StateOf(orders[o].status)]]

\* However handlers interleave or die, only those asked offer, only offers are
\* taken up, and an order is answered once and delivered only if accepted.
ImplementsTender == Promise!Spec
=============================================================================
