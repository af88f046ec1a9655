-------------------------------- MODULE Supply --------------------------------
(***************************************************************************)
(* What follows the acceptance of one purchase order: the vendor files a   *)
(* shipment notice (ASN) with its shipment, freight and invoice, the       *)
(* warehouse inspects, the vendor corrects what was rejected, rejected     *)
(* units travel back, invoices and freight are paid.  It follows           *)
(* app/services/vendor and the vendor portal's routers in                  *)
(* app/compat/vendor.                                                      *)
(*                                                                         *)
(* A table is a sequence of rows, the identity of a row its position.      *)
(* An action is a handler up to its commit.  Two handlers commit more than *)
(* once: the vendor portal's ASN form, whose progress is "filing", and the *)
(* inspection that completes an order, of which "inspecting" tells that    *)
(* the second commit is still due.  Requests of others, and a crash, may   *)
(* come between two commits.  What the stock ledger does with accepted     *)
(* units is module Fulfilment.                                             *)
(*                                                                         *)
(* What Sourcing has too is named after this module here, since the        *)
(* theorems about procurement are about both.                              *)
(***************************************************************************)
EXTENDS Integers, Sequences

CONSTANTS
    Quantity,      \* the quantity ordered
    Owner,         \* what the order's RFQ was raised for: "request" or "return"
    Shipped,       \* the quantities a vendor writes on a notice
    Inspected,     \* the quantities an inspection accepts or rejects
    Numbers,       \* the invoice numbers a vendor uses
    NoNumber,      \* no invoice on the form
    Progress,      \* the statuses PATCH /shipments/{id}/status is called with
    SupplyDiscipline,   \* what the clients are assumed to do although no handler checks it
    MaxReceived, MaxShipments, MaxInvoices, MaxReturns   \* bounds

(* The disciplines a client may keep:                                       *)
(*   "one form"  a vendor sends nothing else while a form is being filed;   *)
(*   "whole"     a notice is for all that is outstanding;                   *)
(*   "count"     an inspection counts what was shipped.                     *)
SupplyDisciplines == {"one form", "whole", "count"}

ShipmentStatuses == {"Packed", "Dispatched", "In Transit", "Delayed", "Delivered"}

ASSUME SupplyAssumption ==
    /\ Quantity \in Nat \ {0}
    /\ Owner \in {"request", "return"}
    /\ Shipped \subseteq Nat
    /\ Inspected \subseteq Nat
    /\ NoNumber \notin Numbers
    /\ Progress \subseteq ShipmentStatuses
    /\ SupplyDiscipline \subseteq SupplyDisciplines
    /\ {MaxReceived, MaxShipments, MaxInvoices, MaxReturns} \subseteq Nat

VARIABLES
    order,       \* the purchase_orders row
    notice,      \* the asns row, draft "none" before it exists
    receipt,     \* the goods_receipts row of the notice
    shipments,   \* shipments
    freights,    \* freight_payments
    invoices,    \* invoices
    payments,    \* payments
    vreturns,    \* vendor_returns
    filing,      \* how far the ASN form being filed has come
    inspecting   \* an inspection has still to mark the shipment delivered

supplyVars == <<order, notice, receipt, shipments, freights, invoices, payments,
                vreturns, filing, inspecting>>

-----------------------------------------------------------------------------
(* Rows *)

OrderRow == [status : {"Accepted", "Ready to Ship", "Delivered"}, received : Nat]

Notice == [draft : {"none", "Draft", "Submitted"}, shipped : Nat]

NoReceipt == [status |-> "none", rejected |-> 0]
GoodsReceipt == [status : {"none", "accepted", "partial", "rejected"}, rejected : Nat]

\* form: created by the ASN form, with freight to follow.
Shipment == [status : ShipmentStatuses, form : BOOLEAN]

\* shipment is freight_payments.linked_id, of linked_type "shipment".
Freight == [shipment : Nat, status : {"Pending", "Paid"}]

\* noticed: asn_id is set.  The amounts (the form's come from the
\* order, an upload's from the client) are left out.
Invoice == [number : Numbers, noticed : BOOLEAN, form : BOOLEAN,
            status : {"pending", "accepted", "rejected"}]

Payment == [invoice : Nat, status : {"Pending", "Paid"}]

\* schedule_pickup changes only the carrier's details, which are left out.
VendorReturn == [qty    : Nat,
                 status : {"Initiated", "Approved", "Rejected", "In Transit", "Received"},
                 refund : BOOLEAN]    \* refund_amount is set

\* What the form carries besides the quantity.
Form == [submit : BOOLEAN, ship : BOOLEAN, number : Numbers \cup {NoNumber}]

\* carried: the shipment whose freight this request has still to add, or 0.
Filing == [at : {"idle", "submit", "ship", "bill"}, form : Form, carried : Nat]
NotFiling == [at |-> "idle", form |-> [submit |-> FALSE, ship |-> FALSE, number |-> NoNumber],
              carried |-> 0]

-----------------------------------------------------------------------------
(* Helpers *)

Outstanding == Quantity - order.received

\* What the clients of each discipline keep to.
ShipsWhole(q) == "whole" \in SupplyDiscipline => q = Outstanding
CountsShipped(a, r) == "count" \in SupplyDiscipline => a + r = notice.shipped
VendorFree == "one form" \in SupplyDiscipline => filing.at = "idle"

\* get_for_asn raises when the notice has two shipments.
ShipmentReadable == Len(shipments) <= 1

FreightOf(s) == {f \in DOMAIN freights : freights[f].shipment = s}
NoticeInvoices == {i \in DOMAIN invoices : invoices[i].noticed}
PaymentsOf(i) == {p \in DOMAIN payments : payments[p].invoice = i}

\* scalar_one_or_none raises on two rows.
AtMostOne(rows) == \A x, y \in rows : x = y

NumberUsed(n) == \E i \in DOMAIN invoices : invoices[i].number = n

NewFreight(s) == Append(freights, [shipment |-> s, status |-> "Pending"])

NewPayment(i, status) == Append(payments, [invoice |-> i, status |-> status])

\* ShipmentService.mark_delivered
Delivered == [s \in DOMAIN shipments |-> [shipments[s] EXCEPT !.status = "Delivered"]]

ReturnOfAll(r) == Append(vreturns, [qty |-> notice.shipped, status |-> "Initiated",
                                    refund |-> FALSE])
NewReturn(r) == Append(vreturns, [qty |-> r, status |-> "Initiated", refund |-> FALSE])

StatusByRejection(a, r) == IF r > 0 /\ a = 0 THEN "rejected" ELSE "accepted"
InspectionStatus(a, r) ==
    IF r = 0 THEN "accepted" ELSE IF a = 0 THEN "rejected" ELSE "partial"

\* What dispatching to a purchase request writes to the audit trail commits the
\* inspection half way; dispatching to a return does not.
CommitsInside == Owner = "request"

-----------------------------------------------------------------------------
SupplyInit ==
    /\ order = [status |-> "Accepted", received |-> 0]
    /\ notice = [draft |-> "none", shipped |-> 0]
    /\ receipt = NoReceipt
    /\ shipments = <<>>
    /\ freights = <<>>
    /\ invoices = <<>>
    /\ payments = <<>>
    /\ vreturns = <<>>
    /\ filing = NotFiling
    /\ inspecting = FALSE

-----------------------------------------------------------------------------
(* The ASN form of the vendor portal: POST /purchase-orders/{id}/asn and   *)
(* PUT /asn/{id} *)

\* One form is in process at a time.
StartFiling(form, step) ==
    /\ filing.at = "idle"
    /\ filing' = IF form.submit THEN [NotFiling EXCEPT !.at = step, !.form = form] ELSE NotFiling

CanCreateAsn == notice.draft = "none"

\* create_asn and its commit; with a form that is not submitted, all there is.
FileNotice(q, form) ==
    /\ order.status \in {"Accepted", "Ready to Ship"}
    /\ CanCreateAsn
    /\ ShipsWhole(q)
    /\ notice' = [draft |-> "Draft", shipped |-> q]
    /\ order' = [order EXCEPT !.status = "Ready to Ship"]
    /\ StartFiling(form, "submit")
    /\ UNCHANGED <<receipt, shipments, freights, invoices, payments, vreturns, inspecting>>

\* update_asn writes the quantity whatever became of the notice, and commits it
\* with the submission if there is one.
EditNotice(q, form) ==
    /\ notice.draft # "none"
    /\ ShipsWhole(q)
    /\ notice' = [draft |-> IF form.submit THEN "Submitted" ELSE notice.draft, shipped |-> q]
    /\ StartFiling(form, "ship")
    /\ UNCHANGED <<order, receipt, shipments, freights, invoices, payments, vreturns, inspecting>>

\* submit_asn, within the form (its own route is SubmitNotice).
FileSubmission ==
    /\ filing.at = "submit"
    /\ notice' = [notice EXCEPT !.draft = "Submitted"]
    /\ filing' = [filing EXCEPT !.at = "ship"]
    /\ UNCHANGED <<order, receipt, shipments, freights, invoices, payments, vreturns, inspecting>>

FormShipsAgain == filing.form.ship
FormShips == filing.form.ship /\ shipments = <<>>

\* create_shipment and its commit, unless the notice has a shipment.
FileShipment ==
    /\ filing.at = "ship"
    /\ ShipmentReadable
    /\ shipments' = IF FormShips
                    THEN Append(shipments, [status |-> "Dispatched", form |-> TRUE])
                    ELSE shipments
    /\ filing' = [filing EXCEPT !.at = "bill",
                                !.carried = IF FormShips THEN Len(shipments) + 1 ELSE 0]
    /\ UNCHANGED <<order, notice, receipt, freights, invoices, payments, vreturns, inspecting>>

FormBills == filing.form.number # NoNumber /\ NoticeInvoices = {}

\* The freight of the shipment, flushed before, is committed with the invoice; a
\* number the vendor used before fails the transaction.
FileInvoice ==
    /\ filing.at = "bill"
    /\ AtMostOne(NoticeInvoices)
    /\ FormBills => ~NumberUsed(filing.form.number) /\ Len(invoices) < MaxInvoices
    /\ freights' = IF filing.carried # 0 THEN NewFreight(filing.carried) ELSE freights
    /\ invoices' = IF FormBills
                   THEN Append(invoices, [number |-> filing.form.number, noticed |-> TRUE,
                                          form |-> TRUE, status |-> "pending"])
                   ELSE invoices
    /\ filing' = NotFiling
    /\ UNCHANGED <<order, notice, receipt, shipments, payments, vreturns, inspecting>>

\* The request raises, or the process dies: what it committed stays.
FilingFails ==
    /\ filing.at # "idle"
    /\ filing' = NotFiling
    /\ UNCHANGED <<order, notice, receipt, shipments, freights, invoices, payments, vreturns,
                   inspecting>>

-----------------------------------------------------------------------------
(* Other routes of the vendor *)

SubmitNotice ==
    /\ VendorFree
    /\ notice.draft # "none"
    /\ notice' = [notice EXCEPT !.draft = "Submitted"]
    /\ UNCHANGED <<order, receipt, shipments, freights, invoices, payments, vreturns, filing,
                   inspecting>>

\* POST /shipments adds a shipment, without freight, to a notice that may have one.
CreateShipment ==
    /\ VendorFree
    /\ notice.draft # "none"
    /\ Len(shipments) < MaxShipments
    /\ shipments' = Append(shipments, [status |-> "Dispatched", form |-> FALSE])
    /\ UNCHANGED <<order, notice, receipt, freights, invoices, payments, vreturns, filing,
                   inspecting>>

CanReportAny(status) == TRUE
CanReport(status) == status # "Delivered"

\* PATCH /shipments/{id}/status refuses only "Delivered", before it looks at the row.
UpdateShipment(s, status) ==
    /\ VendorFree
    /\ CanReport(status)
    /\ shipments' = [shipments EXCEPT ![s].status = status]
    /\ UNCHANGED <<order, notice, receipt, freights, invoices, payments, vreturns, filing,
                   inspecting>>

CanCorrect == receipt.status \in {"partial", "rejected"}

\* The freight of a correction goes to the row there is, or a new one.
CorrectionFreight(ship, freight) ==
    IF ship /\ freight /\ shipments # <<>> /\ FreightOf(1) = {} THEN NewFreight(1) ELSE freights

\* resubmit_after_rejection: the receipt goes, the shipment keeps its status.
Resubmit(q, ship, freight) ==
    /\ VendorFree
    /\ CanCorrect
    /\ ShipsWhole(q)
    /\ ship => ShipmentReadable /\ (freight => AtMostOne(FreightOf(1)))
    /\ notice' = [notice EXCEPT !.shipped = q]
    /\ freights' = CorrectionFreight(ship, freight)
    /\ receipt' = NoReceipt
    /\ UNCHANGED <<order, shipments, invoices, payments, vreturns, filing, inspecting>>

\* POST /invoices, with or without the notice.
UploadInvoice(number, noticed) ==
    /\ VendorFree
    /\ ~NumberUsed(number)
    /\ noticed => notice.draft # "none"
    /\ Len(invoices) < MaxInvoices
    /\ invoices' = Append(invoices, [number |-> number, noticed |-> noticed, form |-> FALSE,
                                     status |-> "pending"])
    /\ UNCHANGED <<order, notice, receipt, shipments, freights, payments, vreturns, filing,
                   inspecting>>

-----------------------------------------------------------------------------
(* The warehouse: inspection *)

CompletesLate(a) == order.received + a > Quantity
Completes(a) == order.received + a >= Quantity

\* record_goods_receipt, up to its commit inside the dispatch when it completes
\* the order for a request, and otherwise whole.
RecordReceipt(a, r) ==
    /\ ~inspecting
    /\ notice.draft # "none"
    /\ receipt = NoReceipt
    /\ CountsShipped(a, r)
    /\ order.received + a <= MaxReceived
    /\ r > 0 => Len(vreturns) < MaxReturns
    /\ receipt' = [status |-> InspectionStatus(a, r), rejected |-> r]
    /\ order' = [received |-> order.received + a,
                 status |-> IF Completes(a) THEN "Delivered" ELSE order.status]
    /\ vreturns' = IF r > 0 THEN NewReturn(r) ELSE vreturns
    /\ \/ Completes(a) /\ CommitsInside /\ inspecting' = TRUE /\ UNCHANGED shipments
       \/ /\ ~(Completes(a) /\ CommitsInside)
          /\ ShipmentReadable
          /\ shipments' = Delivered
          /\ UNCHANGED inspecting
    /\ UNCHANGED <<notice, freights, invoices, payments, filing>>

\* The rest of it.
MarkDelivered ==
    /\ inspecting
    /\ ShipmentReadable
    /\ shipments' = Delivered
    /\ inspecting' = FALSE
    /\ UNCHANGED <<order, notice, receipt, freights, invoices, payments, vreturns, filing>>

InspectionFails ==
    /\ inspecting
    /\ inspecting' = FALSE
    /\ UNCHANGED <<order, notice, receipt, shipments, freights, invoices, payments, vreturns,
                   filing>>

-----------------------------------------------------------------------------
(* Rejected units go back: VendorReturnService and the vendor portal's returns *)

SetReturn(k, row) ==
    /\ vreturns' = [vreturns EXCEPT ![k] = row]
    /\ UNCHANGED <<order, notice, receipt, shipments, freights, invoices, payments, filing,
                   inspecting>>

CanReview(k) == vreturns[k].status = "Initiated"

\* The warehouse approves with or without a refund, the vendor without.
ApproveReturn(k, refund) ==
    /\ CanReview(k)
    /\ SetReturn(k, [vreturns[k] EXCEPT !.status = "Approved", !.refund = refund])

RejectReturn(k) ==
    /\ CanReview(k)
    /\ SetReturn(k, [vreturns[k] EXCEPT !.status = "Rejected"])

\* create_return_shipment
ShipReturn(k) ==
    /\ vreturns[k].status = "Approved"
    /\ SetReturn(k, [vreturns[k] EXCEPT !.status = "In Transit"])

\* dispatch and complete look at no status.
DispatchReturn(k) == SetReturn(k, [vreturns[k] EXCEPT !.status = "In Transit"])
CompleteReturn(k) == SetReturn(k, [vreturns[k] EXCEPT !.status = "Received"])

\* VendorReturnService.mark_delivered
ReturnArrived(k) ==
    /\ vreturns[k].status = "In Transit"
    /\ SetReturn(k, [vreturns[k] EXCEPT !.status = "Received"])

-----------------------------------------------------------------------------
(* Money: InvoiceService and FreightPaymentService *)

\* update_status: acceptance opens the payment.
ReviewInvoice(i, status) ==
    /\ invoices[i].status = "pending"
    /\ invoices' = [invoices EXCEPT ![i].status = status]
    /\ payments' = IF status = "accepted" THEN NewPayment(i, "Pending") ELSE payments
    /\ UNCHANGED <<order, notice, receipt, shipments, freights, vreturns, filing, inspecting>>

NeedsPaidPayment(i) == ~\E p \in PaymentsOf(i) : payments[p].status = "Paid"
NeedsPayment(i) == PaymentsOf(i) = {}

CanPayAny(i) == TRUE
CanPay(i) == invoices[i].status # "rejected"

\* mark_paid accepts the invoice and opens the payment if nobody did.
PayInvoice(i) ==
    /\ CanPay(i)
    /\ AtMostOne(PaymentsOf(i))
    /\ \/ /\ NeedsPayment(i)
          /\ invoices' = [invoices EXCEPT ![i].status = "accepted"]
          /\ payments' = NewPayment(i, "Paid")
       \/ /\ ~NeedsPayment(i)
          /\ \E p \in PaymentsOf(i) :
                /\ payments[p].status # "Paid"
                /\ payments' = [payments EXCEPT ![p].status = "Paid"]
          /\ UNCHANGED invoices
    /\ UNCHANGED <<order, notice, receipt, shipments, freights, vreturns, filing, inspecting>>

PayFreight(f) ==
    /\ freights[f].status = "Pending"
    /\ freights' = [freights EXCEPT ![f].status = "Paid"]
    /\ UNCHANGED <<order, notice, receipt, shipments, invoices, payments, vreturns, filing,
                   inspecting>>

-----------------------------------------------------------------------------
Vendor ==
    \/ \E q \in Shipped, form \in Form : FileNotice(q, form) \/ EditNotice(q, form)
    \/ FileSubmission \/ FileShipment \/ FileInvoice \/ FilingFails
    \/ SubmitNotice
    \/ CreateShipment
    \/ \E s \in DOMAIN shipments, status \in Progress : UpdateShipment(s, status)
    \/ \E q \in Shipped, ship, freight \in BOOLEAN : Resubmit(q, ship, freight)
    \/ \E number \in Numbers, noticed \in BOOLEAN : UploadInvoice(number, noticed)

Inspection ==
    \/ \E a, r \in Inspected : RecordReceipt(a, r)
    \/ MarkDelivered
    \/ InspectionFails

Returning ==
    \E k \in DOMAIN vreturns :
        \/ \E refund \in BOOLEAN : ApproveReturn(k, refund)
        \/ RejectReturn(k)
        \/ ShipReturn(k)
        \/ DispatchReturn(k)
        \/ CompleteReturn(k)
        \/ ReturnArrived(k)

Settling ==
    \/ \E i \in DOMAIN invoices, status \in {"accepted", "rejected"} : ReviewInvoice(i, status)
    \/ \E i \in DOMAIN invoices : PayInvoice(i)
    \/ \E f \in DOMAIN freights : PayFreight(f)

SupplyNext == Vendor \/ Inspection \/ Returning \/ Settling

SupplySpec == SupplyInit /\ [][SupplyNext]_supplyVars

-----------------------------------------------------------------------------
(* Properties *)

SupplyTypeOK ==
    /\ order \in OrderRow
    /\ notice \in Notice
    /\ receipt \in GoodsReceipt
    /\ shipments \in Seq(Shipment)
    /\ freights \in Seq(Freight)
    /\ invoices \in Seq(Invoice)
    /\ payments \in Seq(Payment)
    /\ vreturns \in Seq(VendorReturn)
    /\ filing \in Filing
    /\ inspecting \in BOOLEAN

\* Acceptance and payment, through either route and in either order, leave one
\* payment for every accepted invoice and none for any other.
PaidOnce ==
    /\ \A p \in DOMAIN payments : payments[p].invoice \in DOMAIN invoices
    /\ \A i \in DOMAIN invoices :
        /\ AtMostOne(PaymentsOf(i))
        /\ invoices[i].status = "accepted" <=> PaymentsOf(i) # {}

\* Whatever was paid stays paid, and an invoice once reviewed is not reviewed
\* again: a rejected one is never paid.
SettledForGood ==
    [][/\ \A p \in DOMAIN payments :
            payments[p].status = "Paid" => payments'[p] = payments[p]
       /\ \A f \in DOMAIN freights :
            freights[f].status = "Paid" => freights'[f] = freights[f]
       /\ \A i \in DOMAIN invoices :
            invoices[i].status # "pending" => invoices'[i] = invoices[i]]_supplyVars

\* "one form".  However often the form is sent, after a failure at any of its commits or a
\* correction, the notice has one shipment and one invoice of the form, and a
\* shipment one freight.
FiledOnce ==
    /\ AtMostOne({s \in DOMAIN shipments : shipments[s].form})
    /\ AtMostOne({i \in DOMAIN invoices : invoices[i].form})
    /\ \A s \in DOMAIN shipments : AtMostOne(FreightOf(s))

\* The order is delivered exactly when all of it was accepted, over any number
\* of inspections and corrections.
DeliveredWhenReceived == order.status = "Delivered" <=> order.received >= Quantity

\* While a notice waits for a correction, the units rejected are on their way
\* through a vendor return: the latest one is for just them.
RejectionReturned ==
    CanCorrect => /\ vreturns # <<>>
                  /\ vreturns[Len(vreturns)].qty = receipt.rejected

\* A vendor return is reviewed once, and what the review said of a refund stays.
ReviewedOnce ==
    [][\A k \in DOMAIN vreturns :
        vreturns[k].status # "Initiated" =>
            /\ vreturns'[k].status # "Initiated"
            /\ vreturns'[k].refund = vreturns[k].refund]_supplyVars

\* "whole", "count".  A shipment becomes delivered only while the receipt that says so stands.
DeliveredByReceipt ==
    [][\A s \in DOMAIN shipments :
        /\ shipments[s].status # "Delivered"
        /\ shipments'[s].status = "Delivered"
        => receipt'.status # "none"]_supplyVars

\* "whole", "count".  An order short of its quantity can still be supplied: its one notice is not
\* filed, not inspected, or open for correction.
ShortOrderOpen ==
    order.received < Quantity => receipt.status # "accepted"
=============================================================================
