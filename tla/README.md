# A verification project for the BRFID portal backend

The backend serves four portals: stores (retail), warehouses, vendors and a
super admin, with a support desk beside them.  It is a FastAPI application over
PostgreSQL.  Its core is the fulfilment of what stores ask for: a store requests
units of a SKU variant from a warehouse, or returns damaged ones; the warehouse
serves it from stock, from a vendor it asks for quotations, or from both; the
vendor ships against a purchase order; the warehouse inspects; a transfer order
takes the goods to the store, which counts them.

The specifications here follow the code under `src/`.  Where a comment or a test
of the repository says something the code does not do, a run shows it (see
*Findings*).

## 1. Inventory

### How the program runs

* A request handler is a plain function run by FastAPI in a thread pool, with a
  SQLAlchemy session of its own (`autoflush=False`, PostgreSQL's READ COMMITTED).
  No statement takes a row lock (`FOR UPDATE` occurs nowhere), so handlers
  interleave between their statements, and a value read is written back later.
* A handler commits where it, or a service it calls, says so.  Several commit more
  than once: `create_rfq`, every notification and every audit entry commit the
  caller's unfinished work with their own.
* Nothing runs in the background but the SLA sweep of the support desk, a script
  that a scheduler starts in a process of its own.
* Almost no handler checks whether its step was already taken.  The portals'
  screens do not offer such a step; other clients, a second tab or a retry may.

### Components

| component | state | operations | hard behaviour |
|---|---|---|---|
| Purchase requests (`warehouse/purchase_request_service.py`, `retail/purchase_request_service.py`) | `purchase_requests`: quantity, fulfilment type and an untied reference to a transfer order or RFQ | create, fulfil from stock, split, raise RFQ | fulfilled twice; reference rewritten by a delivery; status derived from three tables |
| Inventory (`warehouse/inventory_service.py`) | `inventory`: on hand, available; `inventory_reservations` | reserve, increase, decrease, adjust | read-check-write without lock; two columns that must stay related over five paths |
| Transfer orders (`warehouse/transfer_order_service.py`) | `transfer_orders` | create (four sources), dispatch, set status | status free in any direction; dispatched again after delivery; the store writes the same status |
| Store returns (`retail/store_return_service.py`, `warehouse/store_return_service.py`) | `store_returns`: decision, status, references to a transfer order and an RFQ | raise, resolve (write off, replenish from stock, by RFQ) | resolved twice; resolved while its replacement travels |
| Procurement (`vendor/rfq_service.py`, `quotation_service.py`, `purchase_order_service.py`) | `rfqs`, `rfq_invited_vendors`, `quotations`, `purchase_orders` | raise, quote, select, accept, reject | vendors quote at the same time; a selection cut between its two commits; an order answered twice |
| Shipment notices and inspection (`vendor/asn_service.py`, `compat/vendor/asn_router.py`) | `asns`, `asn_items`, `goods_receipts` | create, submit, update, correct, inspect (which delivers and dispatches) | partial receipts, corrections, one notice per order; several commits in one request |
| Shipments, vendor returns (`vendor/shipment_service.py`, `vendor_return_service.py`, `compat/vendor`) | `shipments`, `vendor_returns` | create, update status; review, dispatch, complete | statuses go back; two portals write one column |
| Invoices, payments, freight (`vendor/invoice_service.py`, `payment_service.py`) | `invoices`, `payments`, `freight_payments` | bill, review, pay | payments opened on two ways; a form billed in part |
| Receiving by stores (`retail/receiving_service.py`) | `receiving_items`, `store_inventory`, the `store_returns` it raises | count, raise issue | two lines counted at once write one shelf row; an issue commits twice |
| Store settings (`retail/store_settings_service.py`) | columns of `stores`, `store_approvals` | change, request, approve | a change stored with a request is applied over what came since |
| Catalogue (`vendor/catalog_service.py`, `super_admin/vendor_admin_service.py`) | `vendor_catalog_submissions`, `skus`, `sku_variants`, suppliers, the stock rows of every location | submit, edit, make a SKU | two super admins make the same SKU; a location opens meanwhile; a submission edited meanwhile |
| Support desk (`support/support_service.py`, `scripts/support_sla_sweep.py`) | `support_tickets`, routing rules | open, assign, answer, resolve, reopen, close; SLA sweep | the sweep acts on rows read some commits earlier; handlers that answer and resolve at once |
| Accounts (`super_admin/*_admin_service.py`, `auth/`) | `vendors`, `stores`, `warehouses`, `users`, `password_reset_tokens` | register, approve, reject, block, unblock; create and manage users; reset passwords | decisions that cross; the last admin of an entity; a token sent in twice; users signed in when their entity is blocked |
| Reference codes (`utils/codes.py`) | the codes present in a table | next code | two sessions draw the same code |
| Rate limiter | hits per client and window, in memory | allow, refuse | window boundary |
| Lists, dashboards, reports, exports (`warehouse/`, `retail/` and `reports/` services, `compat/super_admin`) | none: they read the tables above | list by status and page, count, sum | a request has no status column: three portals derive one each, with words of their own; a derived status is filtered after the page is cut |
| Schema and migrations (`app/models`, `alembic/`) | the schema, its revision, the codes that two revisions renumber | upgrade, downgrade | a statement the rows refuse; what a downgrade leaves behind; a container does not start when an upgrade fails |
| Notifications, audit trail, storage, mail | rows written or read once | | no protocol of their own |

Components interact through the shared tables: a fulfilment handler calls
inventory, procurement and transfer services in its own session; an inspection
of a vendor's notice creates a transfer order for a store; dispatching a transfer
order creates the receiving item the store counts; an issue raised there makes
the return the warehouse resolves, which starts over.  A SKU made from a vendor's
submission adds the inventory rows the rest works on; who may act at all is decided
by the status of the vendor, store or warehouse a user belongs to.

### What makes each correct

* Inventory: no unit promised twice, none lost or counted twice.
* Fulfilment: each request and return served once, for the quantity asked, its
  references naming rows made for it, its derived status never going back.
* Reservations: tied to an RFQ that asks for exactly the rest, released by the
  delivery of that RFQ.
* Orders: delivered and sent on once, at exactly their quantity; never stuck.
* Notices: one per order, locked once submitted.
* Papers: one shipment, invoice and freight for a form, one payment for an accepted
  invoice, a vendor return for what was rejected; what was paid stays paid.
* Sourcing: nobody compares before all have answered; an approved quotation has its
  order; an order is answered once.
* Receiving: a transfer order is delivered exactly when the store settled a line of it,
  unless the warehouse had the last word; what is on the shelf was received good, each
  issue makes one return that its line names.
* Catalogue: one SKU for a product, described as the submissions that have it, shown at
  every active location.
* Support: the sweep closes what is past its window, or what somebody has taken up since it
  looked, and nothing else; a resolution is undone only by a decision, the sweep, or a reply
  begun while the ticket was open; overdue tickets told of, resolved ones closed at last.
* Accounts: nobody is in before an approval; an entity without an admin stays without one;
  a rejection is final once what crossed it is over; a used reset token serves those only
  who held it when it was used.
* Screens: the portals tell the same story of a request; whoever turns all the pages sees
  each row once; a number shown twice is one number.
* Schema: a revision is one schema however it was reached, the head is the one the models
  declare, and upgrades are not refused.
* Across sessions: the same with handlers interleaved, aborted or cut short.

## 2. Modules

| module | what it is |
|---|---|
| `Fulfilment` | requests, returns, inventory, reservations, RFQs, orders, notices and transfer orders of one warehouse and SKU variant; one action per handler |
| `Screens` | what the portals show of `Fulfilment`'s tables: derived statuses, lists by page, dashboards, reports and spreadsheets, as state functions |
| `Ledgers` | the sum of a column, as the number of the units it counts |
| `MCFulfilment` | instances of both for TLC |
| `FulfilmentTx` | the handlers that touch stock taken apart at their reads, writes and commits, in several sessions, with crashes; extends `Fulfilment` and implements it when sessions take turns |
| `MCFulfilmentTx` | its instances for TLC |
| `FulfilmentProofs` | theorems about `Fulfilment` and `Screens`, for all values of their constants; `Fulfilment` implements `Tender` |
| `FulfilmentTxProofs` | theorems about `FulfilmentTx`, for any number of sessions, its refinement among them |
| `Supply` | one purchase order from its acceptance to its payment: notice, shipment, freight, invoice, inspection, correction, vendor returns; the handlers that commit several times are taken apart at their commits |
| `MCSupply` | its instance for TLC |
| `Tender` | the abstract specification of sourcing: goods asked for, offered, taken up, answered once, fulfilled at most once |
| `Sourcing` | RFQs to several vendors, their quotations, selections and answers, with handlers that interleave and die; implements `Tender` |
| `MCSourcing` | its instance for TLC |
| `ProcurementProofs` | theorems about `Sourcing`, its refinement among them, and about `Supply` |
| `Store` | one store: receiving lines, shelf, returns with sessions, while the warehouse writes the statuses of the orders |
| `MCStore`, `StoreProofs` | its instances for TLC; theorems about it |
| `Support` | tickets, staff, customers and the SLA sweep, in time |
| `MCSupport`, `SupportProofs` | its instances for TLC; theorems about it |
| `Accounts` | entities, their users, who is signed in, password resets |
| `MCAccounts`, `AccountsProofs` | its instances for TLC; theorems about it, and about `Migrations` |
| `Catalogue` | submissions and the SKUs made of them |
| `MCCatalogue`, `CatalogueProofs` | its instances for TLC; theorems about it |
| `Models` | the tables that `app/models` declares: foreign keys, enum types, unique columns |
| `Migrations` | the eleven revisions as sequences of statements, the database they are run on, and the rows that get in their way; the theorems about them are in `AccountsProofs` |
| `Tables` | lemmas about tables (sequences of rows) and sessions the proofs share |

`Fulfilment` and `Supply` meet in the order, the notice and the receipt: `Fulfilment`
follows the accepted units into stock and on to a store, for many orders; `Supply`
follows the papers and the rejected units, for one order, because every row it has
hangs on the order or its only notice.  `Sourcing` is what comes before: in
`Fulfilment` an RFQ is answered and decided in one step each, in `Sourcing` by several
vendors at once.  `Store` is what comes after: `Fulfilment` knows only whether a store
has counted an item and raised an issue, `Store` how.

### Fulfilment

A table is a sequence of rows; a row's position is its primary key, a foreign key
is a position, 0 or a `none` reference is null.  Reservations, the only rows that
are deleted (besides receipts), form a set of rows that carry an identity.  One
warehouse and one SKU variant are enough because an inventory row is keyed by the
pair and every row of the model names one pair.

An action is a handler with everything it calls: `FulfilFromStock` is
`fulfil_from_stock` with `reserve_stock`, `create_transfer_order` and
`decrease_on_hand`; `ReceiveAndDispatch` is the part of `record_goods_receipt`
that finds its order complete, with `_dispatch_on_delivery`, the two ways of
creating the transfer order, and `dispatch_to_owner`.  Handlers run alone here.

Prices, dates, names, packages, attachments, notifications and
the audit trail are left out: no guard in the modelled code reads them.
`approval_status` is set by the handlers that give a request its first type, by no other
and to "approved" only, and `dispatch_to_owner` changes the type of a request that has one
already; so `Screens` reads it off the type.  The vendor return rows an inspection with rejections writes, and the shipment it
marks delivered, are in `Supply`: nothing in fulfilment reads them.  RFQ statuses
between Sent and Purchase Order Generated are one (`Sourcing` has them).  An eligible vendor is assumed
to exist when a return needs one (the handler changes nothing otherwise).

**Disciplines.**  What the screens of the portals ensure and no handler checks is a
constant of the model: the set `Discipline` (in `Supply`, `SupplyDiscipline`) of rules the clients
keep.  With
`Discipline = {}` the model has exactly the guards of the code.  A guard that
stands for a client's rule (`MayFulfil`, `MayResolve`, `MaySelect`, `MayAdvance`,
`Outstanding`, `Counted`) is an operator of its own, so that a reader sees which
property rests on the code and which on its clients.

### FulfilmentTx

Each HTTP request has a database session.  Three facts decide what happens when two
overlap: sessions are READ COMMITTED and read no row for update; the ORM flushes
only where `repo.add` or a commit says so and writes the columns whose values
changed, as the absolute values computed in memory (`Written`); and several stock
handlers commit more than once, because `create_rfq`, `notify_user` and
`AuditService.log` commit for themselves.

`sessions[s]` holds what a handler has in memory: the rows it loaded, the code it
drew, the reservation it found, and `pc`, the commit it comes to next: "loaded",
"drawn", then "marking" (an RFQ is committed, its owner not yet marked) or
"closing" (a delivery is committed, its reservation not yet deleted and its RFQ
not yet closed).

| steps | code |
|---|---|
| `LoadRequest`, `LoadReturn`, `LoadNotice` | the queries at the head of a handler and the check of `reserve_stock` |
| `DrawCode` | `next_sequential_code`; for a delivery also the queries of `_dispatch_on_delivery` |
| `CommitStock`, `CommitReplenish`, `CommitPart` | the only commit of their handler |
| `CommitRfq`, then `MarkOwner` | the commit in `create_rfq`, then the one of `split_fulfil`, `raise_rfq` or `resolve_return` |
| `CommitDelivery`, then `CloseRfq` | the commit in `AuditService.log`, then the one of `record_goods_receipt`; for a return there is only one |
| `Abort` | the unique column refuses a code drawn twice, or `scalar_one_or_none` finds two reservations |
| `Crash` | the process dies: uncommitted work is gone, committed work stays |

A flush and the commit after it are one step: what is flushed is invisible, and
whoever wants to write the same row waits.  Drawing the code stays apart from
writing it, because a session that draws while another is about to commit draws
the same code.  The other handlers have one commit and are taken over from
`Fulfilment`; their own gap between read and write (a manual correction has one
too) is left out, and so are codes of rows they create.

With `Alone = TRUE` the model is a sequence of handlers, and `ImplementsFulfilment`
says that it is `Fulfilment`: the refinement mapping shows the tables with the
outstanding second commit applied.  A process that dies between the two commits
makes that second one never happen, and from then on the tables are not what
`Fulfilment` says; the history variable `cut` records it, and the refinement speaks
of every step until then.  Without `Alone` no such mapping exists: a
quotation that arrives between the two commits of a delivery is overwritten by
the "Closed" of the second.

### Screens

The handlers of lists, dashboards and reports only read, so each is an operator over the
tables of `Fulfilment`, and its runs check `Screens` in every state they reach.
`RequestStatus` (in `Fulfilment`), `StoreStatus` and `HeadOfficeStatus` are the three
derivations of a status; `TrackingLabels`, `ShipmentStatus` and `PurchaseOrderStatus` say
the same in other words.  `FilteredFirst` and `FilteredLast` are the two orders in which
the code filters and cuts pages: a status that is a column is part of the query, a
derived one is looked at in what was fetched for the page.  The counters and sums are
written as their queries are, with the columns and conditions of each.  A section of a
spreadsheet is a function from the rows it lists to the columns that matter.

There is one warehouse, store, vendor and variant, and every row is of the period that is
looked at, so grouping, top lists and buckets of time fall together; the order of a
list is the order of creation, and only the outbound side of the head office's
shipments is here (the inbound one lists the shipments of `Supply`).  The levels of
"low stock", amounts, names and the layout of sheets are left out.

### Supply

| variable | table | written by |
|---|---|---|
| `order` | the `purchase_orders` row: status, received quantity | `FileNotice`, `RecordReceipt` |
| `notice` | the `asns` row | the form, `SubmitNotice`, `Resubmit` |
| `receipt` | the `goods_receipts` row (the only one that is deleted) | `RecordReceipt`, `Resubmit` |
| `shipments` | `shipments` | the form, `CreateShipment`, `UpdateShipment`, the inspection |
| `freights` | `freight_payments` | the form, `Resubmit`, `PayFreight` |
| `invoices`, `payments` | the same | the form, `UploadInvoice`, `ReviewInvoice`, `PayInvoice` |
| `vreturns` | `vendor_returns` | `RecordReceipt`, the steps of both portals |
| `filing` | memory of the request that files the ASN form | its four steps |
| `inspecting` | memory of the inspection that completes an order | `RecordReceipt`, `MarkDelivered` |

The vendor portal's ASN form (`compat/vendor/asn_router.py`) calls three services, each
of which commits.  `filing.at` names the commit that is next: "submit" (after
`create_asn`), "ship" (after `submit_asn`, or at once for a changed notice), "bill"
(after `create_shipment`).  The freight row is flushed but waits for the commit of
the invoice, which the unique number of an invoice may refuse; `filing.carried`
names the shipment it is for.  `FilingFails` ends the request at any point.  An
inspection that completes an order raised for a purchase request commits inside
its dispatch (an audit entry), before it marks the shipment delivered:
`inspecting` is true in between.  `scalar_one_or_none` raises on two rows; such a
query is the guard `AtMostOne` or `ShipmentReadable`, and the handler that meets it
changes nothing (more).

Two forms at once, and two handlers of other kinds that interleave before their first
commit, are left out, and so are amounts, files and carriers.  An invoice and a
payment are therefore the fact that they exist, what they name, and a status.

Here, too, what no handler checks is a discipline: "one form" (a vendor sends
nothing else while a form is filed), "whole" (a notice is for all that is
outstanding), "count" (an inspection counts what was shipped), and "full" (shipments
come with forms, and a submitted form is complete).

### Sourcing

`active` is the status of vendors; `rfqs` (with `rfq_invited_vendors`), `quotations`
and `orders` are the tables; `sessions` is what handlers have in memory.
`OpenQuotation`, `CountResponders`, `CommitQuotation` are the reads and the commit of
`submit_quotation`; `BeginSelection`, `CommitOrder`, `MarkGenerated` those of
`select_vendor`, where notifying the vendor commits the order before the RFQ is
marked, and `SelectionFails` the code that was drawn twice; `OpenOrder` and
`AnswerOrder` are `accept` and `reject`.  `Deliver` is what an inspection does to the
two tables, taken apart in `Supply`.  The rule "answer" (a vendor answers an order in
one session at a time) is needed for `ImplementsTender` only: two answers that both
found the order pending overwrite each other.  Prices, dates and the eligibility of
vendors are left out: every set of vendors can be invited.

### Store

`lines` are `receiving_items`, `orders` the status of the transfer orders, `shelf` the one
`store_inventory` row (one store, one variant), `returns` what issues raise.  A store's
handler goes through `LoadForCount` or `LoadForIssue`, `ReadOrder` (the test of
`_mark_delivered`), `ReadShelf`, for an issue `DrawCode`, then `Commit` or `Abort`, for an
issue `LinkReturn`, the second commit.  The warehouse writes the same status:
`DispatchTransferOrder` sets "Dispatched" and adds a line in one commit, whatever the
order was, delivered or not (an order has no second line otherwise); `UpdateStatus` sets
the status it is told to.  `byWarehouse` remembers the orders of which the warehouse
last changed whether they are "Delivered".  The only rule is "settle" (a line is settled
once, by one session).  Two *different* lines are settled at the same time under it as
well, and both write the shelf.

### Support

`now` is a clock; `Hours` and `Window` are the times of the SLA and of reopening, scaled
down.  `work[h]` holds the ticket a handler loaded, and `Flushed` writes the columns it
changed.  `BeginSweep`, `FindBreached`, `Tell`, `PassOver`, `EndSweep` are the two queries
of `run_sla_sweep`, the commits that notifications make, the tickets without an assignee
it passes over (`HasAssignee`: after a commit the rows are read again), and the last
commit.  `CompareRaises` says what Python does with the two kinds of times (see
*Findings*).  Nothing is assumed of clients: any handlers and a sweep may be at work on
one ticket.  `closed_at` and `email_sent_at` are left out; they are shown and decide nothing.

### Accounts

Vendors, stores and warehouses go through the same statuses and are `entities`;
`approved` is `approved_on`.  `signedIn` are the users with a token that is still valid.
Reviews, sign-ins, managements of users (creation included) and resets are a step that looks
(`Begin...`) and one that writes (`Commit...`).  The other handlers have one step.
The status of the entity is looked at when a user signs in and at no request after it, so
`MayManage` asks for a valid token, an active account and the role only.
`AdminsCreatable` are the stores, whose admins may create admins.  A user's
`password` is the reset token it was set with.  Nothing is assumed of clients: reviews
cross, admins manage each other and themselves, tokens are sent in twice.

### Catalogue

A product stands for the six fields that `find_matching_variant` compares (of SKUs that
are active, as all that are made here); a SKU made
here has one variant, so one table `skus` is both.  `stocked` are the keys of
`inventory` and `store_inventory`, all that is at stake.  `Begin`, `FindMatch`,
`ListLocations`, `Commit` are the reads and the commit of `generate_sku`; a unique
column that another session filled meanwhile refuses the commit (`Refused`), which
undoes all.  The queries that list warehouses and stores are one step, and so are
flush and commit.  Style codes are one value when they are one number ("2" and "002" are
two strings), and any code that is not a number the next one counts on from is a word.  Rules: "codes" (nobody types a
code in while another SKU is generated), "edit" (a vendor leaves a submission alone once a SKU is being
generated), "open" (no location becomes active meanwhile).  A location approved later gets
its rows with its first goods (`FirstGoods`).

### Migrations

`rev` counts the revisions a database has been through.  `db` holds its schema (tables, with
columns as far as a revision adds or drops them, and enum types) and, of the rows, what a
statement reads or trips over.  (A style code typed in without leading zeros counts as the
padded one; that can refuse an upgrade in the model that would pass, not the reverse.)  `Upgrades` and `Downgrades` are the statements of
`upgrade()` and `downgrade()`, file by file.  PostgreSQL's grounds for refusing one are
`Fits`, what it finds in the schema, and `RowsAllow`, what it finds in the rows; `Perform` is
what a statement does to both, `Run` the statements of a revision one after the other,
`RunAll` the revisions.  `alembic/env.py` runs all revisions asked
for in one transaction, so `UpgradeTo` and `DowngradeTo` are one step that happens
whole or not.  Between migrations the program registers vendors, warehouses and stores
(`RegisterRow`), publishes SKUs (`Publish`) and links rows to vendors and RFQs (`Link`),
with the codes that the program of that revision gave them.  `Models` is `app/models`,
written down independently: `AsRevised` compares the two.  `rolledBack` is history.

`RevisionsAssumption` says of the revisions as they are written, in databases without rows,
that none is refused, that each leads from one schema to the next and back, and that the
last schema is the one of `Models`.  No constant occurs in it, so it is a computation with
one result, and every run of the module makes it.  What rows do is left to the
properties.

### Notes

**Disciplines** are needed: for each one, the property that rests on it fails in TLC when
the rule is dropped from the configuration (the two rules kept only for size are named
under *Bounds*), and the theorem names it as its assumption.

**Mutants.**  An operator that stands next to a definition and is used nowhere (such as
`FromRejected` beside `From`) is that definition with a bug in it; put in its place,
it makes TLC report the property that `PROJECT.json` lists with it.

**Types.**  Every module states one type invariant, `TypeOK` (`SupplyTypeOK`,
`MigrationsTypeOK` where modules are proved about together).  It is proved for the modules that
have proofs, and not checked by a run of its own.

**History.**  `adjusted` sums the manual corrections, and `dispatched` in an order
counts how often goods left for its owner, `cut` and `byWarehouse` are described above;
in `Support`, `touched` are the tickets that handlers committed on since the running sweep
began and `swept` those it closed, `failed` and `crashes` say what went wrong.  No action
reads any of them, but for the bound on crashes.

## 3. Runs

| run | clients | shows |
|---|---|---|
| `any_client` | any | the stock ledger balances; a delivery releases what was held back for its RFQ; the three portals agree about every request, and what they look at are rows made for it |
| `screen_client` | all rules | each owner is served once in full; each unit on hand is free, reserved or waiting for the rest of its order; derived statuses never go back; the numbers of dashboards, reports and spreadsheets agree; the pages of seven lists show each row once |
| `two_sessions` | fulfil once; two sessions, fair | with stale reads and codes drawn twice, `available` stays non-negative, a reservation fits its RFQ, a notice is inspected once, a delivered order's reservation waits only for the session that delivered it, and an owner that looks pending although its RFQ exists is marked at last |
| `cut_short` | "count"; one session, alone, crashes | the handlers taken apart implement the whole ones of `Fulfilment` until one dies between its commits |
| `supply` | "one form", "whole", "count" | however a form or an inspection is cut short and sent again: one shipment and one invoice of the form, one freight per shipment, one payment per accepted invoice; paid and reviewed things stay so; a shipment is delivered only by a receipt in force, rejected units have their return, an order left short can be corrected |
| `sourcing` | "answer"; two sessions, crashes | an RFQ is ready for comparison only when all invited have answered; a quotation is approved exactly when it has an order; the handlers implement `Tender` |
| `store` | "settle"; two sessions, crashes, the warehouse meanwhile | transfer orders are delivered exactly when a line is settled, unless the warehouse had the last word; a return is its line's and not lost unless a process dies; the shelf holds no more than was received good |
| `support` | any; two handlers, the sweep, one crash, fair | the sweep closes only what is past its window or was written since it looked; only decisions, the sweep and replies to an open ticket undo a resolution; resolved tickets are closed at last, breaches are told at last |
| `reopening` | any; one handler | the finding below |
| `accounts` | any; two sessions, crashes | nobody is in before an approval; an entity without an admin gets none; a rejection is final once what crossed it is over; a used token serves only those who held it |
| `catalogue` | all rules; two sessions, failures | one SKU per product, assigned submissions match it, it is shown everywhere |
| `migrations` | any | a database taken up and down is at every revision what that revision makes of a new one, at the head what the models declare; upgrades are refused only after a downgrade, for the rows it names |

**Bounds.**  A quantity of 2 is the smallest that stock can cover in part, that can be
shipped in two parts, and that an inspection can split into accepted and
rejected.  Opening stock of 2 lets one handler be served in full and the next fall short, and
3 lets one of two requests be served in full and the other in part.  Two RFQs and two orders are
the fewest with which an owner can have a second of each; two transfer orders let
a delivery follow another one.  The properties relate an owner, its RFQs and
their orders, and never three owners, which is why two owners (a request and a
return, or two requests) suffice.  `MaxAdjustments` and `MaxItems` bound steps
that could repeat for ever.  `CHECK_DEADLOCK FALSE` stands in every configuration that
could stop for want of clients or at a bound; `supply` and `migrations` check for
deadlock: the status of a shipment can always be written again, and a database always be
taken down.

A transfer order's status may be set to "Pending" and "Completed" by `any_client`, which with
dispatch and receiving reaches all four from each other.  A page has one row, so that every
list has as many pages as rows and an offset that is wrong by a row shows.

`two_sessions` has one request, because the sessions compete through the one
inventory row and the code sequences whoever their requests are for; two RFQs, so
that one code is drawn twice; and one transfer order.  "fulfil" is there for size: without it
the run finds nothing either, but takes fourteen million states.  `cut_short` has one session,
alone, so that what goes wrong is the crash's doing; "count" is there for size, since
`any_client` counts anything.

`supply` has a quantity of 2 for the same reasons; two shipments make the query for one
raise; two invoice numbers give the form's invoice a rival that took its number, and
one that did not.  `MaxReturns = 1` allows one inspection with rejections, hence one
correction; that a second rejection brings nothing new is what the theorems of
`ProcurementProofs` add, which know no bounds.  The order is for a purchase request, whose
inspection has the extra commit; for a return the inspection is one step, which
`supply` has as well (an inspection that does not complete the order).

`sourcing` has two vendors and two sessions, so that quotations and answers cross; three
quotations, one of which is a second of the same vendor or comes after a selection; two
orders, so that a code is drawn twice.  `store` has two lines of quantity 2, of one
order dispatched twice or of two, for two sessions, and two returns; the statuses set by
hand are one that says delivered and one that does not, the other two come from where
orders begin and from dispatching them.  `support` has one ticket (no handler looks at two,
and the sweep's batches are sets) of one priority that may take no time, so that it is
overdue at the next tick; a window of 1; requests that begin before `Horizon = 2`, which is late
enough for a handler to meet a sweep that closes; and a clock that goes on to 4, when windows
and deadlines have passed.  One agent is enough, since who it is decides nothing but
whether there is one.  One crash hits a handler or the sweep at any step.  `accounts` has
one entity whose admins may create admins and one whose admins may not; two users are an
admin and a colleague, or one of each entity, and one reset token can be sent in by both
sessions.  `catalogue` has two of everything that two sessions can have in
common or not, three submissions so that two are for one product and one is for another,
and of style codes typed in a number, which the next code counts on from, and a word,
which it does not.  `migrations` has up to three rows and lets two
numbers be picked: a bare and a hyphenated code of one table with the same number, two
style codes out of order, or a link whose vendor a downgrade drops, each with a row more.
Symmetry is declared for sets whose members are interchangeable, and
only in runs without liveness.

**Fairness.**  Nothing obliges a client to make its next call, so `Fulfilment`, `Supply`
and the others assume none: that an order is not stuck is stated by what its notice is open
for (`ShortOrderOpen` of `Supply`).  `FairTxSpec` assumes that a handler that has started
proceeds (WF on `Proceed(s)`), which is what the server does unless the process dies;
`two_sessions` therefore has no crashes.  `FairSpec` of `Support` assumes the same of its
handlers (WF on `Finish(h)`) and of a sweep that has started (WF on `SweepOn`), that time
passes (WF on `Tick`), and that the scheduler starts the sweep again and again (WF on
`BeginSweep`, which waits for nothing but the end of the sweep before).

## 4. Proofs

The theorems hold for every value of the constants that satisfies the one `ASSUME` of the
module, which is about their types; a theorem that rests on a rule of the clients
says so in its own `ASSUME`.  They are laid out by table: a lemma for each variable says
which actions write it and what they leave, so that a proof looks at those actions
alone.  The tables are sequences; the lemmas of `Tables` say what a row added or
replaced leaves.

`FulfilmentProofs` proves, for any number of rows, quantities and clients:

* `TypeCorrect`: types and foreign keys (`TypeOK /\ Linked`).  `Linked` is needed
  because an inspection follows notice, order, RFQ and owner before it writes.
* `NoOverPromise`: `available` never becomes negative (without manual
  corrections, which check nothing).
* `ReservationsSound`: a reservation and its RFQ add up to what the owner wants.
* `DeliveryReleases`: after a delivery nothing is held back for its RFQ.  By itself
  this is not inductive: the delivery deletes by owner and the claim is about an
  RFQ; that a reservation has the owner of its RFQ (`ReservationSound`) joins them.
* `NoticesSound`: one notice per order.
* `ReferencesSound` and `PortalsAlwaysAgree`: what a request or a return refers to was
  made for it, and so the three portals agree about it.  The invariant `Engaged` says that
  whoever an RFQ or a transfer order was made for is waiting no more: only then does the
  reference a delivery writes replace one to the RFQ it delivers.
* `ServedOnceInFull`: each owner is served once and gets what it asked for, when
  inspections count what was shipped and nobody fulfils, resolves or selects twice
  (`Careful`).  The invariant `Settled` follows the goods: one order for an RFQ, whose
  notice never asks for more than is outstanding; one RFQ for an owner, which has a transfer
  order only when that RFQ is delivered (`RfqOrTransfer`); an RFQ for less than was asked
  has its reservation until it is delivered (`Covered`).
* `StatusNeverGoesBack` under all rules: a request has one transfer order (from
  `ServedOnceInFull`), whose own status does not go back.
* `UnitsAccountedFor`: `OnHandLedger`, for any client and with corrections.
* `EveryUnitPlaced`: `StockConserved` under "count", "fulfil" and "resolve", without
  corrections.  That a delivery takes out what was promised for it needs that the
  reservation found by owner is the one made with the RFQ (`OneRfq`) and that exactly the
  rest was received (`InspectionsCount`).
* `NumbersAlwaysAgree`: under all rules and without corrections, what one screen or spreadsheet
  counts is what another does, or is bounded by it.  Counts and added-up columns are made
  numbers of units, and compared by taking one set into another: receipts into the orders
  they were for, fulfilled requests into shipments that arrived, transfer orders into the
  requests and returns they serve.  That rows go where this needs them to is what the
  theorems above say (`Stocked`, `ServedOnce`, `NoticesSound`), with two invariants more: a
  receipt counts no more than was shipped, and what it accepted its order has received
  (`ReceiptCounts`); of a return shown as dispatched the goods did leave (`GoodsLeft`).
* `EachRowShownOnce`: `EachShownOnce`, for tables of any length and pages of any size, and for
  any client.  A row is under one tab (`UnderOneTab`); `Offset` and `TotalPages` cut a list
  of any length into pages that together have each place once (`OnSomePage`, and that two
  pages share none); both ways to filter, before the page is cut and after, show a row on
  the page it falls on.
* `TenderImplemented`: each step of `Fulfilment` is one of `Tender` or none, for any client: a
  request forwarded, split or a return replenished from vendors is an ask, a quotation an offer, a
  selection an offer taken up, and the inspection that completes an order its fulfilment.
  One vendor stands for all, and `StageOf` says which stage a status is.  What makes it
  hold is `NoticeSound`: goods are inspected for an order that was accepted, so that an
  inspection finds it "Ready to Ship", and moves it once, or "Delivered", and moves
  nothing, however often a correction has it inspected again.  (That goods can be sent on
  again then, see *Findings*, is below what `Tender` sees.)  No run states this
  refinement; for `Sourcing`, where handlers interleave, `sourcing` does.

The argument is laid out by table.  For each action one lemma shows that types
hold after it and that no row disappears or changes whom and how much it is for
(`Kept`); `StepKeeps` collects them.  `NewLinked` says that rows added name rows
present; with `Kept` it gives `Linked'`.  The other invariants then need only the
few actions that touch what they speak of.

A sum over a table is not defined as a recursion.  `Tally` of `Ledgers` is the number of elements of a set with one pair for
each unit, so that what a row added or changed does to a sum follows from the theorems
about the cardinality of finite sets (`UnitsOfRow` and `TallyChanged` in
`Tables`).  That the sets are finite is part of the invariants (`Countable`, `HeldFinite`).

Of `FulfilmentTx`, `FulfilmentTxProofs` proves, for any number of sessions, any client and
any deaths of handlers, every safety property of the run `two_sessions`:

* `TxTypeCorrect`: the tables as in `TypeCorrect`, although handlers write back rows they
  read earlier.  The invariant `SessionsSound` says what a session knows of a row that may
  have changed since: whom it is for and how much (no handler changes either), and that
  the code it drew was the next one, so that a code that is still free is the next one still
  (`UniqueIsNext`).
* `TxNoOverPromise` (without corrections): `Promised` says that the stock a session read
  covers what it goes on to promise.  Hence what it writes is not negative, whatever
  it overwrites.
* `NoticesInspectedOnce`: `OneInspection` says that a session that inspects a notice is the
  only one that does and finds no receipt until it writes its own; that a notice has an
  order to itself (`NoticeSound`) then keeps others from adding to the order.
* `TxReservationsSound`, from what a session knows of quantities, and the code being the
  next: the reservation is for the RFQ that is added with it.
* `ReleasedUnlessCut`: `FindsHeld` says that a session that is about to deliver holds every
  reservation made with the RFQ of its order, although it read them earlier: reservations
  are added with a new RFQ only.  `AlwaysReleased` is the case without deaths.
* `AloneImplementsFulfilment`: one handler at a time (one session, `Alone = TRUE`) is a
  step of `Fulfilment` or a stutter, under the refinement mapping of the run `cut_short`.
  `UpToDate` is the invariant that makes it so: whatever a session holds before its commit
  is what the tables hold, and what it checked when it read them is still true, so that
  writing absolute values of some columns (`Written`) is changing the row.  The first
  commit of an RFQ or of a delivery is then the whole action, the second a stutter.
  `AloneIsSerial` adds that, if nobody dies, an execution of `FulfilmentTx` is one of
  `Fulfilment`, with every property proved there.

Of `Supply`, `ProcurementProofs` proves every property of the run `supply`, and two more, for any
number of rows:

* `SupplyTypeCorrect`, `PaymentsMatch`, `Settled`, `DeliveredExact`, `RejectionsReturned` and
  `ReturnsReviewedOnce` for any client.  `Settled` (a paid payment is never written
  again) rests on `PaidOnce`: a handler finds a payment through its invoice, and
  that it finds the only one there is makes the claim about rows.
* `FiledAtMostOnce` if a vendor files one form at a time.  The invariant `Filed` says
  that only the first shipment is a form's, that a form's invoice names the notice
  (so the next form finds it), and that the shipment a form carries freight for has
  none yet; the last is what a correction, which adds freight too, would break
  between the form's commits without the rule.
* `ShortOrdersOpen` and `DeliveredByReceipts` under "whole" and "count".  The invariant
  `WholeNotice` says that a notice not inspected is for what is outstanding; then an
  inspection completes the order exactly when it rejects nothing, so none that is
  still to mark the shipment delivered is open for correction.

Of `Sourcing`:

* `ReadyWhenAllAnswered`: a session that has counted may commit much later; the
  invariant `ReadyCurrent` says that what it counted is still so, since quotations are
  never taken back and invitations never added.
* `ApprovedAreOrdered`: the approval and the order are in one commit, and nothing else
  writes either.
* `TenderImplemented` under "answer": `AnsweringSound` says that an order being answered
  is still pending; then each action is a step of `Tender` or none.

Of `Support`, for any handlers at work on one ticket while the sweep runs:

* `WindowIsKept`: the invariant `WindowSound` says that what the sweep is about to close is
  resolved, its window over, or was written since it was selected; and that it closes at its
  first commit and nothing after it.
* `ResolutionsStand`: `Flushed` writes only what a handler changed.  So a handler that loaded
  the ticket before its resolution takes that back only if it was to change the status, and
  of replies those to an open ticket alone are.

Of `Store`:

* `DeliveredAsSettled` for any client, lines settled twice included.  The invariant `Delivery`
  says with the property what handlers in the middle know (`Informed`): one that found its
  order delivered, and will not mark it, is right to, or the warehouse has had the last word
  since; a line that it found settled still is.
* `ReturnsOfLines` and `ReturnsKept` under "settle", from one invariant `Settled`: a line that
  a session works on is as loaded, a return that waits for its link is the last commit of
  its session, and no line names it yet.
* `ShelfIsBacked` under "settle" needs `Shelved`: what a session read of the shelf is no more
  than was received good by then, and the line it settles is not counted among that.

Of `Accounts`, without assuming anything of clients:

* `NobodyIn`: `ApprovalSound` says that whatever is under way at an entity (but for its approval
  and its rejection), and whatever its status is after these, it was approved once, although a
  review overwrites whatever became of the status.
* `NobodyLetsThemIn`: managements belong to the entity of whoever began them (`Belongs`), and only
  an admin begins one; so an entity without an admin, and without a management under
  way, gets none.
* `RejectionsFinal`: sign-in asks for an active entity, every review for another status, and
  every management for a user who is signed in; so nothing begins at an entity that is rejected and
  left by all, and what is under way elsewhere does not concern it (`Belongs`).
* `ResetsOnce`: a handler that sets a password with a token is done with it then, and none
  takes a used one up.

`CatalogueProofs`: `AssignmentsHold` under "edit", `ShownWhenAssigned` under "open", and `OneSku` under
"codes".  Nothing locks a product while its SKU is made.  What makes `OneSku` hold is the
style code: all sessions that generate at once draw the same next one, so that the one to
commit takes it from the others, whose commits the unique column refuses.  The invariant
says of a session that found no match that there still is none, or that its style code
is gone; and of a style code drawn that it is still the next, or is gone.  That the set
of numbers used has a largest, which the next code needs, is an invariant of its own.

Of `Migrations`, `AccountsProofs` also proves everything the run `migrations` checks, for any number of
rows, any numbers in their codes, and any sequence of upgrades and downgrades:

* `MigrationsTypeCorrect`, with the invariant `MigrationsInv`: a database at a revision has
  the schema `SchemaOf` gives the revision (`At`), keeps no bare code at the head (`NoneBare`), and
  before its first downgrade has no reference to a row that is gone and, before the
  revision that numbers them, no style code that is a number.
* `AlwaysAsRevised`.  `RowsApart` is the argument: as long as no statement is refused, rows do
  not change what statements make of the schema, so that a revision run on a full
  database ends where `RevisionsAssumption` says an empty one does (`UpOnce`,
  `DownOnce`), and so do all revisions asked for (`UpgradedAll`, `DowngradedAll`).
* `OnlyRowsRefuse`: of the statements used, three can be refused by rows, and no downgrade has
  one of those; renumbering codes never makes two the same (`NewNumber` begins above all
  that are kept); what is left are the style codes and the lost references.

These proofs go from one number to the next, along the statements of a revision and along the
revisions.  The induction theorems of the library take an operator and cannot be used here.
`LeastNumber` of `Tables` (a set of numbers that is not empty has a least one, which is
proved from the cardinality of finite sets) takes their place: it gives `Counting`, about
the *set* of the numbers a claim holds for.  That a recursive function exists and is
what its definition says follows in the same way (`RunSteps`, `RunAllSteps`).

**Only model-checked:** liveness (`RecordedAtLast`, `ClosedAtLast`, `BreachTold`), which needs
ENABLED, out of the prover's reach.  `RevisionsAssumption` is not proved but computed by TLC.

## 5. Findings

* A resolved ticket cannot be reopened (`reopening`): `support_service.py:152` compares
  `datetime.utcnow()`, which has no time zone, with the value of a
  `DateTime(timezone=True)` column, which PostgreSQL returns with one, and Python raises
  `TypeError`.  No test reopens a ticket.

Seen while modelling, without a run of their own.

Fulfilment and supply:

* Of two handlers that read the same inventory row, the second to commit undoes the
  decrease of the first, against the docstring of `decrease_on_hand`.  The reference code
  hides this in most schedules: two sessions that overlap entirely draw the same code and
  one aborts; the update is lost when the second draws its code after the first committed.
* Two splits of a request leave two reservations of one owner, and `scalar_one_or_none` then
  blocks the inspection that completes its order.
* An order completed by a partial receipt is sent on a second time when the correction is
  inspected, against the comment in `raise_rfq`.
* A form that fails after its shipment was committed leaves the shipment without freight:
  sent again, it finds the shipment and skips both, against the docstring of
  `ShipmentService.mark_delivered` and the one of the router ("all created together in one
  backend transaction").
* A dispatched return goes back to "replenished" when it is resolved again; a submitted
  notice can be changed through the older vendor interface; a second vendor selection makes
  a second order; a shipment that was delivered can be reported in transit again.
* A fulfilment and an RFQ of one request that cross leave it with the type of one reference
  and the id of the other (`RefsSound`, a part of `PortalsAgree`, does not survive two sessions); a delivery cut short
  between its commits leaves its reservation for good (`ReleaseOwed` does not survive
  crashes); manual corrections can take away units that are promised.
* Attachments of a notice are flushed and never committed (`asn_service.py:206`,
  `compat/vendor/asn_router.py:266`); the invoice of a notice is for the quantity of its
  first shipment, although `asn_service.py:70` says it "already covers the full original
  order".

Sourcing:

* Of two vendors who quote at the same time neither is counted by the other, and the RFQ
  stays "Partially Responded" although all have answered (`quotation_service.py:51`).
* A quotation after a selection takes the RFQ back to "Ready for Comparison"; a second order
  for an RFQ makes the query at `rfq_service.py:124` raise.  Eligibility ignores the status
  of the link between vendor and warehouse (`rfq_service.py:18`).

Stores and settings:

* An order that was delivered can be dispatched again: it is "Dispatched" once more and has a
  second line (`transfer_order_service.py:130`); `update_status` (`:153`) sets any status
  but "Cancelled", "Delivered" with nothing counted included.
* Two counts of different lines at once lose one increase of the shelf (hence
  `ShelfBacked` is an inequality), and a line counted or issued again is added again.
* `approve` checks neither the role nor the status of a request, although the docstring of
  the settings service says "applied only once approved"; it overwrites what a manager changed
  since, and can be called again later; `PUT /stock/settings/low-threshold`
  changes a threshold that needs an approval elsewhere, without one.

Support:

* The sweep closes a resolved ticket that was taken up between its query and its commit
  (`support_service.py:209`); a reply to an open ticket that commits after a resolution takes the
  ticket back to "in_progress" (`:120`).
* The sweep notifies of every breached ticket each time it runs, although its docstring
  says "newly"; of one without an assignee nobody learns; a new priority leaves the due time
  as it was; `closed_at` stays when staff take a closed ticket up again.

Accounts and catalogue:

* An approval and a rejection that cross both pass (`store_admin_service.py:42` and `:53`): a
  rejected store becomes active and lets people in.  A reset token sent in twice at once
  sets the password twice.
* Who is signed in when the entity is blocked or rejected goes on managing its users until
  the tokens expire: the status is looked at by sign-in only (`auth_service.py:38`).
* Admins can remove each other, and themselves: `user_management_service.py:91` compares the
  id in the path, a `str`, with the caller's, a `UUID`, and so refuses nobody.
* "Suspended" and "Inactive" are statuses no code sets; `onboard_vendor` leaves out columns
  that may not be null; `set_vendor_password` looks the user up by the contact's address,
  although the login is the admin's.
* Of two stock-status updates of a vendor's goods that interleave, one may be stale; so may
  hiding and restoring a product of a store.
* A product gets two SKUs when a style code is typed in while another is generated for it;
  a submission edited after its SKU was made no longer describes it; the codes of goods and
  submissions are not unique.

Screens:

* Where a derived status is filtered (the requests and the tracking of a warehouse, the
  requests of a store, the head office's stock requests and purchase orders), pages come
  out short or empty and the total is that of all rows; `stock_requests_router.py:85` says
  so, while `compat/super_admin/_common.py:93` says it is never done.
* A quotation that comes after an RFQ was closed makes it a pending one of the dashboard
  again; goods received shrink when a correction deletes the receipt; the "received" of the
  top SKUs counts what was shipped, inspected or not.
* The list of reserved stock joins purchase requests, so what is reserved for a return is
  counted in "reserved" and listed nowhere.  The head office never shows "Partially
  Delivered", and its filter "In Transit" leaves out delayed shipments shown as such.
* The trend of a year covers 360 of the 365 days its totals are about
  (`utils/period.py:10` and `:22`).
* A store that a warehouse has unlinked can still send it requests
  (`retail/purchase_request_service.py:45` does not read `unlinked_at`).

Schema and migrations:

* `models/__init__.py` and `alembic/env.py:9` say that every model is imported; `support`
  is not, so a revision autogenerated at the head would drop the four support tables.
* A downgrade below `0dcb263b355d` leaves links to vendors and RFQs that are gone, and the
  next upgrade is refused; so is a second run of `d1e4f6a08b2c` when style codes typed in
  are out of order.  Two containers that start at once both run the migrations.
* `a7855d58c75b` says in a comment that a unique constraint on `sku_supplying_vendors` is
  missing, which `c139ab39be59:223` creates.
* `scripts/seed.py` looks users up by address and inserts fixed codes, so that it fails
  once a warehouse has registered.

## 6. Plan

Every subsystem with a protocol of its own has its module.  What would come next:

1. `Store` and `Fulfilment` composed: the return a line raises is what the warehouse
   resolves, and its replacement is the next line.
2. The rate limiter, refresh tokens, the rosters of a warehouse (links to vendors and
   stores), and the visibility and discounts of a store's products, each a small module of
   its own.
3. The screens of vendors, over `Supply`, and those with two warehouses.

## 7. Not modelled

* Routers, schemas and repositories: they convert; the checks a router makes are guards of
  the actions.  The layout of spreadsheets, and the screens of vendors.
* Storage and mail: external.  A mail that fails is logged and changes nothing.
* Store settings and their approvals: `approve` checks nothing and applies what was asked for
  over whatever the setting has become, so that there is nothing to state that holds.
* Notifications and the audit trail as data; the commits they make in the middle of other
  handlers are modelled.
* The rate limiter: it refuses requests before they reach a handler.  Refresh tokens and
  the stamp of the last sign-in.
* A vendor's own goods; discounts and visibility of a store's products: rows that one
  person writes.
* Seeds and tests: they are not part of the running system.
