----------------------------- MODULE Migrations -----------------------------
(***************************************************************************)
(* The revisions of the schema (alembic/versions) and the database they    *)
(* are run on.                                                             *)
(*                                                                         *)
(* A revision is two sequences of statements, the one of upgrade and the   *)
(* one of downgrade; alembic/env.py runs those of all the revisions asked  *)
(* for in one transaction, so a refused statement undoes them all.  A      *)
(* statement is refused by what PostgreSQL would find: a table, a type or  *)
(* a constraint that is there already or is missing, a table or a type     *)
(* that is still needed, rows that break the key that is added.            *)
(*                                                                         *)
(* Of the rows only those are kept that a statement reads or trips over:   *)
(* the codes of vendors, warehouses and stores, the style codes of the     *)
(* SKUs, and whether a column that is given a foreign key holds anything.  *)
(* Indexes that are not unique, and columns no revision adds or drops, are *)
(* left out.                                                               *)
(***************************************************************************)
EXTENDS Models, Integers, Sequences, FiniteSets, FiniteSetsExt

CONSTANTS
    MaxRows,      \* bound: the rows that are kept, in all the tables
    MaxNumber     \* bound: the numbers somebody picks for a code

ASSUME MigrationsAssumption == MaxRows \in Nat /\ MaxNumber \in Nat

VARIABLES
    rev,          \* how many revisions the database has been through
    db,           \* the database
    rolledBack    \* whether a downgrade has ever been run (history)

migrationsVars == <<rev, db, rolledBack>>

-----------------------------------------------------------------------------
(* The database *)

\* The tables with a code that b8e3 renumbers.
Prefixed == {"vendors", "warehouses", "stores"}

\* "VEN001" is bare, "VEN-001" is not.
Numbers == 1..(MaxNumber + MaxRows)
Code == [bare : BOOLEAN, n : Numbers]

\* The columns that hold keys of a table which did not exist when they were made.
Targets ==
    LET vendors == {<<"sku_supplying_vendors", "vendor_id">>,
                    <<"warehouse_vendor_links", "vendor_id">>}
        rfqs    == {<<"store_returns", "resolution_rfq_id">>}
    IN [column \in vendors \cup rfqs |-> IF column \in vendors THEN "vendors" ELSE "rfqs"]

\* codes and styles are in the order of created_at and of published_at; a style code that is
\* no number is 0, whatever it is.  links are the columns of Targets that some row has a value
\* in, orphans those where some value refers to nothing.  ok: no statement has been refused.
WithoutRows(schema) ==
    [schema |-> schema, codes |-> [t \in Prefixed |-> <<>>], styles |-> <<>>,
     links |-> {}, orphans |-> {}, ok |-> TRUE]
Empty == WithoutRows([tables |-> <<>>, types |-> {}])

-----------------------------------------------------------------------------
(* Statements *)

Create(table, shape)       == [op |-> "create", table |-> table, shape |-> shape]
Drop(table)                == [op |-> "drop", table |-> table]
AddRef(table, ref)         == [op |-> "add_ref", table |-> table, ref |-> ref]
DropRef(table, name)       == [op |-> "drop_ref", table |-> table, name |-> name]
AddColumn(table, column)   == [op |-> "add_column", table |-> table, column |-> column]
DropColumn(table, column)  == [op |-> "drop_column", table |-> table, column |-> column]
AddUnique(table, columns)  == [op |-> "add_unique", table |-> table, columns |-> columns]
DropUnique(table, columns) == [op |-> "drop_unique", table |-> table, columns |-> columns]
DropType(type)             == [op |-> "drop_type", type |-> type]
Restyle                    == [op |-> "restyle"]
Renumber(table)            == [op |-> "renumber", table |-> table]

Drops(tables)    == [i \in DOMAIN tables |-> Drop(tables[i])]
DropTypes(types) == [i \in DOMAIN types |-> DropType(types[i])]

\* d1e4 gives the SKUs the numbers 1, 2, ... one after the other, under the unique index: a
\* number must be free when its turn comes.  A number typed without its zeros counts as the
\* padded one, which refuses a few rows more than the index does.
StylesFree(styles) ==
    \A i, j \in DOMAIN styles : i < j => styles[j] # i

\* b8e3 gives the bare codes of a table, in order, the numbers above the largest one used.
Hyphenated(codes) == {codes[i].n : i \in {j \in DOMAIN codes : ~codes[j].bare}}
BareBefore(codes, i) == Cardinality({j \in 1..(i - 1) : codes[j].bare})
NewNumberFromOne(codes, i) == 1 + BareBefore(codes, i)
NewNumber(codes, i) == 1 + Max({0} \cup Hyphenated(codes)) + BareBefore(codes, i)
Renumbered(codes) ==
    [i \in DOMAIN codes |->
       IF codes[i].bare THEN [bare |-> FALSE, n |-> NewNumber(codes, i)] ELSE codes[i]]

IsDistinct(codes) == \A i, j \in DOMAIN codes : codes[i] = codes[j] => i = j

ColumnOf(s) == <<s.table, s.ref.column>>

\* What the database lets pass as far as its schema goes.  sa.Enum creates its type with the
\* table, without looking whether there is one.
Fits(schema, s) ==
    LET tables == schema.tables
        Exists == s.table \in DOMAIN tables
        Held   == tables[s.table]
    IN  \/ /\ s.op = "create"
           /\ ~Exists
           /\ s.shape.types \cap schema.types = {}
           /\ \A ref \in s.shape.refs : ref.to \in DOMAIN tables
        \/ /\ s.op = "drop"
           /\ Exists
           /\ \A t \in DOMAIN tables \ {s.table} : \A ref \in tables[t].refs : ref.to # s.table
        \/ /\ s.op = "add_ref"
           /\ Exists /\ s.ref.to \in DOMAIN tables
           /\ \A ref \in Held.refs : ref.name # s.ref.name
        \/ s.op = "drop_ref" /\ Exists /\ \E ref \in Held.refs : ref.name = s.name
        \/ s.op = "add_column" /\ Exists /\ s.column \notin Held.columns
        \/ s.op = "drop_column" /\ Exists /\ s.column \in Held.columns
        \/ s.op = "add_unique" /\ Exists /\ s.columns \notin Held.unique
        \/ s.op = "drop_unique" /\ Exists /\ s.columns \in Held.unique
        \/ s.op = "drop_type" /\ \A t \in DOMAIN tables : s.type \notin tables[t].types
        \/ s.op = "restyle"
        \/ s.op = "renumber" /\ Exists

\* What it lets pass as far as its rows go.
RowsAllow(d, s) ==
    /\ s.op = "add_ref" => ColumnOf(s) \notin d.orphans
    /\ s.op = "restyle" => StylesFree(d.styles)
    /\ s.op = "renumber" => IsDistinct(Renumbered(d.codes[s.table]))

Accepts(d, s) == Fits(d.schema, s) /\ RowsAllow(d, s)

Reshaped(schema, s) ==
    CASE s.op = "create"      -> [tables |-> (s.table :> s.shape) @@ schema.tables,
                                  types  |-> schema.types \cup s.shape.types]
      [] s.op = "drop"        -> [schema EXCEPT !.tables = [t \in DOMAIN @ \ {s.table} |-> @[t]]]
      [] s.op = "add_ref"     -> [schema EXCEPT !.tables[s.table].refs = @ \cup {s.ref}]
      [] s.op = "drop_ref"    ->
            [schema EXCEPT !.tables[s.table].refs = {ref \in @ : ref.name # s.name}]
      [] s.op = "add_column"  -> [schema EXCEPT !.tables[s.table].columns = @ \cup {s.column}]
      [] s.op = "drop_column" -> [schema EXCEPT !.tables[s.table].columns = @ \ {s.column}]
      [] s.op = "add_unique"  -> [schema EXCEPT !.tables[s.table].unique = @ \cup {s.columns}]
      [] s.op = "drop_unique" -> [schema EXCEPT !.tables[s.table].unique = @ \ {s.columns}]
      [] s.op = "drop_type"   -> [schema EXCEPT !.types = @ \ {s.type}]
      [] OTHER                -> schema

\* The rows of a table go with it, and leave behind what refers to them.
CodesAfter(d, s) ==
    [t \in Prefixed |-> CASE s.op = "drop" /\ s.table = t     -> <<>>
                          [] s.op = "renumber" /\ s.table = t -> Renumbered(d.codes[t])
                          [] OTHER                            -> d.codes[t]]
StylesAfter(d, s) ==
    CASE s.op = "drop" /\ s.table = "skus" -> <<>>
      [] s.op = "restyle"                  -> [i \in DOMAIN d.styles |-> i]
      [] OTHER                             -> d.styles
LinksAfter(d, s) == IF s.op = "drop" THEN {c \in d.links : c[1] # s.table} ELSE d.links
OrphansAfter(d, s) ==
    IF s.op = "drop" THEN {c \in LinksAfter(d, s) : c \in d.orphans \/ Targets[c] = s.table}
    ELSE d.orphans

Effect(d, s) ==
    [schema |-> Reshaped(d.schema, s),
     codes  |-> CodesAfter(d, s), styles  |-> StylesAfter(d, s),
     links  |-> LinksAfter(d, s), orphans |-> OrphansAfter(d, s), ok |-> TRUE]

\* After a refused statement none is run.
Perform(d, s) ==
    IF ~d.ok THEN d
    ELSE IF Accepts(d, s) THEN Effect(d, s) ELSE [d EXCEPT !.ok = FALSE]

\* One revision, and several: one statement after the other.
Run(d, statements) ==
    LET run[i \in 0..Len(statements)] ==
            IF i = 0 THEN d ELSE Perform(run[i - 1], statements[i])
    IN run[Len(statements)]
RunAll(d, revisions) ==
    LET run[k \in 0..Len(revisions)] ==
            IF k = 0 THEN d
            ELSE LET before == run[k - 1]
                 IN IF before.ok THEN Run(before, revisions[k]) ELSE before
    IN run[Len(revisions)]

-----------------------------------------------------------------------------
(* 39313222eda2: users, tokens, notifications *)

UpUsers ==
    <<Create("store_notification_mutes", Table({}, {}, {})),
      Create("users", Table({}, {"portal_type", "user_status"},
                            {{"portal_type", "email"}, {"code"}})),
      Create("notifications", Table({Cascading("recipient_user_id", "users")}, {}, {})),
      Create("password_reset_tokens", Table({PerUser}, {}, {{"token_hash"}})),
      Create("refresh_tokens", Table({PerUser}, {}, {{"token_hash"}})),
      Create("user_account_settings", Table({PerUser}, {}, {})),
      Create("user_notification_prefs", Table({PerUser}, {}, {}))>>

DownUsers ==
    Drops(<<"user_notification_prefs", "user_account_settings", "refresh_tokens",
            "password_reset_tokens", "notifications", "users", "store_notification_mutes">>)
    \o DropTypes(<<"user_status", "portal_type">>)

-----------------------------------------------------------------------------
(* c139ab39be59: stores, warehouses and what goes on between them *)

CoreRoots ==
    <<Create("audit_log", Table({Ref("user_id", "users")}, {"audit_portal_type"}, {})),
      Create("skus", Table({Ref("published_by", "users")}, {"sku_status"}, {{"style_code"}})),
      Create("stores", Table({Ref("approved_by", "users"), Ref("manager_user_id", "users")},
                             {"store_type", "store_status"}, {{"code"}})),
      Create("warehouses", Table({Ref("approved_by", "users"), Ref("manager_id", "users")},
                                 {"warehouse_status"}, {{"code"}}))>>

CoreLinks ==
    LET warehouse == Cascading("warehouse_id", "warehouses")
        store     == Cascading("store_id", "stores")
    IN <<Create("sku_variants", Table({Cascading("sku_id", "skus")}, {}, {{"variant_code"}})),
         Create("store_approvals",
                Table({Ref("approved_by", "users"), Ref("requested_by", "users"), store},
                      {"store_approval_status"}, {})),
         Create("warehouse_store_links",
                Table({store, warehouse}, {"warehouse_store_link_status"},
                      {{"warehouse_id", "store_id"}})),
         Create("warehouse_vendor_links",
                Table({warehouse}, {"warehouse_vendor_link_status"},
                      {{"warehouse_id", "vendor_id"}})),
         Create("warehouse_zones", Table({warehouse}, {}, {}))>>

CoreStock ==
    LET warehouse == Cascading("warehouse_id", "warehouses")
        variant   == Cascading("sku_variant_id", "sku_variants")
    IN <<Create("inventory", Table({variant, warehouse}, {}, {})),
         Create("purchase_requests", Table(Trade,
                {"purchase_request_priority", "purchase_request_approval_status",
                 "fulfilment_type", "fulfilment_ref_type"}, {{"ref_code"}})),
         Create("sku_supplying_vendors", Table({variant}, {}, {{"sku_variant_id", "vendor_id"}})),
         Create("store_discounts", Table(PerStoreAndVariant, {}, {})),
         Create("store_inventory", Table(PerStoreAndVariant, {}, {})),
         Create("store_product_settings",
                Table({Ref("removed_by", "users")} \cup PerStoreAndVariant, {}, {})),
         Create("warehouse_sku_status",
                Table({variant, warehouse}, {"warehouse_sku_status_value"}, {})),
         Create("warehouse_stock_movements",
                Table({Ref("sku_variant_id", "sku_variants"), warehouse},
                      {"warehouse_movement_type"}, {}))>>

\* The key between transfer_orders and store_returns that closes the circle comes last.
CoreOrders ==
    <<Create("transfer_orders", Table({Ref("pr_id", "purchase_requests")} \cup Trade,
             {"transfer_order_source_type", "transfer_order_status"}, {{"ref_code"}})),
      Create("store_returns",
             Table({Ref("pr_id", "purchase_requests"),
                    Ref("resolution_transfer_order_id", "transfer_orders")} \cup Trade,
                   {"store_return_decision", "store_return_status"}, {{"ref_code"}})),
      AddRef("transfer_orders",
             Named(Ref("return_id", "store_returns"), "fk_transfer_orders_return_id")),
      Create("inventory_reservations",
             Table({Ref("pr_id", "purchase_requests"), Ref("return_id", "store_returns"),
                    Ref("sku_variant_id", "sku_variants"), Ref("warehouse_id", "warehouses")},
                   {}, {})),
      Create("receiving_items",
             Table({Ref("sku_variant_id", "sku_variants"), Ref("store_return_id", "store_returns"),
                    Ref("transfer_order_id", "transfer_orders")},
                   {"receiving_item_status", "receiving_item_condition",
                    "receiving_return_type"}, {}))>>

UpCore == CoreRoots \o CoreLinks \o CoreStock \o CoreOrders

\* autogenerate leaves the types of dropped tables behind.
CoreTypes ==
    <<"receiving_return_type", "receiving_item_condition", "receiving_item_status",
      "store_return_status", "store_return_decision", "transfer_order_status",
      "transfer_order_source_type", "fulfilment_ref_type", "fulfilment_type",
      "purchase_request_approval_status", "purchase_request_priority",
      "warehouse_movement_type", "warehouse_sku_status_value", "store_approval_status",
      "warehouse_vendor_link_status", "warehouse_store_link_status", "warehouse_status",
      "store_type", "store_status", "sku_status", "audit_portal_type">>

DownCore ==
    Drops(<<"receiving_items", "inventory_reservations">>)
    \o <<DropRef("transfer_orders", "fk_transfer_orders_return_id")>>
    \o Drops(<<"store_returns", "transfer_orders", "warehouse_stock_movements",
               "warehouse_sku_status", "store_product_settings", "store_inventory",
               "store_discounts", "sku_supplying_vendors", "purchase_requests", "inventory",
               "warehouse_zones", "warehouse_vendor_links", "warehouse_store_links",
               "store_approvals", "sku_variants", "warehouses", "stores", "skus", "audit_log">>)
    \o DropTypes(CoreTypes)

-----------------------------------------------------------------------------
(* 0dcb263b355d: vendors and procurement *)

VendorRoots ==
    <<Create("freight_payments", With({"approved_on"}, Table({},
             {"freight_direction", "freight_linked_type", "freight_payer_party",
              "freight_payment_status"}, {}))),
      Create("rfqs",
             With({"delivery_location", "specifications", "terms", "estimated_budget"},
                  Table({Ref("pr_id", "purchase_requests"), Ref("return_id", "store_returns"),
                         Ref("sku_variant_id", "sku_variants"), Ref("warehouse_id", "warehouses")},
                        {"rfq_status"}, {{"ref_code"}}))),
      Create("vendors", Table({Ref("approved_by", "users")}, {"vendor_status"},
                              {{"gst"}, {"pan"}, {"code"}}))>>

VendorOffers ==
    LET vendor == Cascading("vendor_id", "vendors")
        rfq    == Cascading("rfq_id", "rfqs")
    IN <<Create("quotations", Table({rfq, Ref("vendor_id", "vendors")},
                                    {"freight_payer", "quotation_status"}, {})),
         Create("rfq_invited_vendors", Table({rfq, vendor}, {}, {})),
         Create("vendor_categories", Table({vendor}, {}, {})),
         Create("vendor_compliance_documents", Table({vendor}, {"compliance_doc_type"}, {})),
         Create("vendor_goods",
                Table({vendor}, {"goods_category", "goods_unit", "goods_stock_status"}, {})),
         Create("purchase_orders",
                Table({Ref("quotation_id", "quotations"), Ref("rfq_id", "rfqs"),
                       Ref("sku_variant_id", "sku_variants"), Ref("vendor_id", "vendors"),
                       Ref("warehouse_id", "warehouses")},
                      {"purchase_order_status"}, {{"ref_code"}})),
         Create("vendor_catalog_submissions",
                Table({Ref("goods_id", "vendor_goods"), Ref("sku_variant_id", "sku_variants"),
                       vendor}, {"catalog_submission_status"}, {}))>>

VendorNotices ==
    LET notice == Cascading("asn_id", "asns")
        order  == Ref("po_id", "purchase_orders")
    IN <<Create("asns", Table({order}, {"asn_draft_status"}, {{"ref_code"}})),
         Create("vendor_catalog_documents",
                Table({Cascading("submission_id", "vendor_catalog_submissions")}, {}, {})),
         Create("asn_attachments", Table({notice}, {"asn_attachment_uploader_role"}, {})),
         Create("asn_items",
                With({"uom"}, Table({notice, order, Ref("sku_variant_id", "sku_variants")}, {}, {}))),
         Create("goods_receipts",
                Table({notice, order}, {"asn_inspection_status"}, {{"asn_id"}}))>>

VendorBills ==
    LET order == Ref("po_id", "purchase_orders")
    IN <<Create("invoices",
                Table({Ref("asn_id", "asns"), order, Ref("vendor_id", "vendors")},
                      {"invoice_status"}, {{"vendor_id", "invoice_number"}})),
         Create("shipments", Table({Ref("asn_id", "asns")}, {"shipment_status"}, {})),
         Create("vendor_returns",
                Table({Ref("asn_id", "asns"), order, Ref("sku_variant_id", "sku_variants"),
                       Ref("vendor_id", "vendors"), Ref("warehouse_id", "warehouses")},
                      {"vendor_return_status"}, {{"ref_code"}})),
         Create("payments", Table({Ref("invoice_id", "invoices"), order},
                                  {"payment_status", "payment_mode"}, {})),
         Create("shipment_timeline_events",
                Table({Cascading("shipment_id", "shipments")}, {}, {})),
         Create("vendor_return_attachments",
                Table({Cascading("vendor_return_id", "vendor_returns")}, {}, {}))>>

\* The keys into tables that c139 could not refer to.
VendorRefs ==
    <<AddRef("sku_supplying_vendors",
             Named(Cascading("vendor_id", "vendors"), "fk_sku_supplying_vendors_vendor_id")),
      AddRef("store_returns",
             Named(Ref("resolution_rfq_id", "rfqs"), "fk_store_returns_resolution_rfq_id")),
      AddRef("warehouse_vendor_links",
             Named(Cascading("vendor_id", "vendors"), "fk_warehouse_vendor_links_vendor_id"))>>

UpVendors == VendorRoots \o VendorOffers \o VendorNotices \o VendorBills \o VendorRefs

DownVendors ==
    <<DropRef("warehouse_vendor_links", "fk_warehouse_vendor_links_vendor_id"),
      DropRef("store_returns", "fk_store_returns_resolution_rfq_id"),
      DropRef("sku_supplying_vendors", "fk_sku_supplying_vendors_vendor_id")>>
    \o Drops(<<"vendor_return_attachments", "shipment_timeline_events", "payments",
               "vendor_returns", "shipments", "invoices", "goods_receipts", "asn_items",
               "asn_attachments", "vendor_catalog_documents", "asns",
               "vendor_catalog_submissions", "purchase_orders", "vendor_goods",
               "vendor_compliance_documents", "vendor_categories", "rfq_invited_vendors",
               "quotations", "vendors", "rfqs", "freight_payments">>)
    \o DropTypes(<<"vendor_return_status", "freight_payment_status", "freight_payer_party",
               "freight_linked_type", "freight_direction", "payment_mode", "payment_status",
               "invoice_status", "shipment_status", "asn_inspection_status",
               "asn_attachment_uploader_role", "asn_draft_status", "purchase_order_status",
               "freight_payer", "quotation_status", "rfq_status", "catalog_submission_status",
               "goods_stock_status", "goods_unit", "goods_category", "compliance_doc_type",
               "vendor_status">>)

-----------------------------------------------------------------------------
(* The later revisions *)

\* a7855d58c75b.  The names its downgrade gives the keys are those PostgreSQL would choose.
Attachments == Table({Cascading("vendor_return_id", "vendor_returns")}, {}, {})
UpUnused ==
    <<Drop("vendor_return_attachments"), Drop("vendor_categories"),
      DropColumn("asn_items", "uom"), DropColumn("freight_payments", "approved_on")>>
DownUnused ==
    <<AddColumn("freight_payments", "approved_on"), AddColumn("asn_items", "uom"),
      Create("vendor_categories", Table({Cascading("vendor_id", "vendors")}, {}, {})),
      Create("vendor_return_attachments", Attachments)>>

\* f3a1c9d24e6b
UpRfqFields ==
    <<DropColumn("rfqs", "delivery_location"), DropColumn("rfqs", "specifications"),
      DropColumn("rfqs", "terms"), DropColumn("rfqs", "estimated_budget")>>
DownRfqFields ==
    <<AddColumn("rfqs", "estimated_budget"), AddColumn("rfqs", "terms"),
      AddColumn("rfqs", "specifications"), AddColumn("rfqs", "delivery_location")>>

\* c9b7e2a41f3d
UpAttachments   == <<Create("vendor_return_attachments", With({"uploaded_at"}, Attachments))>>
DownAttachments == <<Drop("vendor_return_attachments")>>

\* d1e4f6a08b2c, which cannot be undone.
UpStyles   == <<Restyle>>
DownStyles == <<>>

\* e2f5a9c17d3b.  The shipments there are get the codes ID001, ID002, ... in a new column.
UpShipmentCode   == <<AddColumn("shipments", "code"), AddUnique("shipments", {"code"})>>
DownShipmentCode == <<DropUnique("shipments", {"code"}), DropColumn("shipments", "code")>>

\* f7c2a4b91e0d
UpSupport ==
    LET ticket == Cascading("ticket_id", "support_tickets")
    IN <<Create("support_tickets", With({"related_module_type", "related_module_id"},
                Table({Ref("raised_by_user_id", "users"), Ref("assigned_to_user_id", "users")},
                      {"ticket_priority", "ticket_status"}, {{"ticket_number"}}))),
         Create("support_ticket_messages",
                Table({ticket, Ref("sender_user_id", "users")}, {}, {})),
         Create("support_ticket_attachments",
                Table({ticket, Cascading("message_id", "support_ticket_messages"),
                       Ref("uploaded_by_user_id", "users")}, {}, {})),
         Create("support_routing_rules", With({"default_team"},
                Table({Ref("default_assignee_user_id", "users")}, {}, {{"category"}})))>>
DownSupport ==
    Drops(<<"support_routing_rules", "support_ticket_attachments", "support_ticket_messages",
            "support_tickets">>)
    \o DropTypes(<<"ticket_status", "ticket_priority">>)

\* a3d8f61c9b42
UpSupportFields ==
    <<DropColumn("support_tickets", "related_module_type"),
      DropColumn("support_tickets", "related_module_id"),
      DropColumn("support_routing_rules", "default_team")>>
DownSupportFields ==
    <<AddColumn("support_tickets", "related_module_type"),
      AddColumn("support_tickets", "related_module_id"),
      AddColumn("support_routing_rules", "default_team")>>

\* b8e3f1a67c92, which cannot be undone.
UpCodesOfTwo == <<Renumber("vendors"), Renumber("warehouses")>>
UpCodes   == <<Renumber("vendors"), Renumber("warehouses"), Renumber("stores")>>
DownCodes == <<>>

-----------------------------------------------------------------------------
(* alembic upgrade and downgrade *)

\* In the order of their down_revision.
Upgrades == <<UpUsers, UpCore, UpVendors, UpUnused, UpRfqFields, UpAttachments, UpStyles,
              UpShipmentCode, UpSupport, UpSupportFields, UpCodes>>
Downgrades == <<DownUsers, DownCore, DownVendors, DownUnused, DownRfqFields, DownAttachments,
                DownStyles, DownShipmentCode, DownSupport, DownSupportFields, DownCodes>>

HeadRev == Len(Upgrades)

Upgraded(d, from, to)   == RunAll(d, [i \in 1..(to - from) |-> Upgrades[from + i]])
Downgraded(d, from, to) == RunAll(d, [i \in 1..(from - to) |-> Downgrades[from + 1 - i]])

Rows == db.styles \o db.codes["vendors"] \o db.codes["warehouses"] \o db.codes["stores"]
RoomForRow == Len(Rows) + Cardinality(db.links) < MaxRows

\* A new database.
MigrationsInit ==
    /\ rev = 0
    /\ db = Empty
    /\ rolledBack = FALSE

UpgradeTo(r) ==
    LET after == Upgraded(db, rev, r)
    IN /\ after.ok
       /\ rev' = r
       /\ db' = after
       /\ UNCHANGED rolledBack

DowngradeTo(r) ==
    LET after == Downgraded(db, rev, r)
    IN /\ after.ok
       /\ rev' = r
       /\ db' = after
       /\ rolledBack' = TRUE

-----------------------------------------------------------------------------
(* The program, between migrations *)

\* How far d1e4 and b8e3 are: the programs they came with number rows their way.
StylesNumbered == rev >= 7
CodesHyphenated == rev >= 11

\* next_sequential_code with a prefix that ends in a hyphen, next_style_code.
NextNumber(codes) == 1 + Max({0} \cup {codes[i].n : i \in DOMAIN codes})
NextStyle         == 1 + Max({0} \cup {db.styles[i] : i \in DOMAIN db.styles})

\* Before b8e3 two programs registered these rows, each with numbers of its own.
RegisterRow(table) ==
    LET codes == db.codes[table]
        Free(code) == \A i \in DOMAIN codes : codes[i] # code
    IN /\ table \in DOMAIN db.schema.tables
       /\ RoomForRow
       /\ \E code \in Code :
            /\ IF CodesHyphenated
                 THEN code = [bare |-> FALSE, n |-> NextNumber(codes)]
                 ELSE code.n \in 1..MaxNumber /\ Free(code)
            /\ db' = [db EXCEPT !.codes = [@ EXCEPT ![table] = Append(codes, code)]]
       /\ UNCHANGED <<rev, rolledBack>>

\* A style code is the next number, or one typed in that is not in use.
Publish ==
    /\ "skus" \in DOMAIN db.schema.tables
    /\ RoomForRow
    /\ \E style \in {0} \cup Numbers :
         /\ IF StylesNumbered
              THEN \/ style \in {0, NextStyle}
                   \/ style \in 1..MaxNumber /\ \A i \in DOMAIN db.styles : db.styles[i] # style
              ELSE style = 0
         /\ db' = [db EXCEPT !.styles = Append(@, style)]
    /\ UNCHANGED <<rev, rolledBack>>

Link(column) ==
    /\ {column[1], Targets[column]} \subseteq DOMAIN db.schema.tables
    /\ column \notin db.links
    /\ RoomForRow
    /\ db' = [db EXCEPT !.links = @ \cup {column}]
    /\ UNCHANGED <<rev, rolledBack>>

MigrationsNext ==
    \/ \E r \in (rev + 1)..HeadRev : UpgradeTo(r)
    \/ \E r \in 0..(rev - 1) : DowngradeTo(r)
    \/ \E table \in Prefixed : RegisterRow(table)
    \/ Publish
    \/ \E column \in DOMAIN Targets : Link(column)

MigrationsSpec == MigrationsInit /\ [][MigrationsNext]_migrationsVars

-----------------------------------------------------------------------------
(* Properties *)

IsDatabase(d) ==
    /\ d = [schema |-> d.schema, codes |-> d.codes, styles |-> d.styles,
            links |-> d.links, orphans |-> d.orphans, ok |-> d.ok]
    /\ d.codes \in [Prefixed -> Seq([bare : BOOLEAN, n : Nat])]
    /\ d.styles \in Seq(Nat)
    /\ d.orphans \subseteq d.links /\ d.links \subseteq DOMAIN Targets
    /\ d.ok \in BOOLEAN

MigrationsTypeOK ==
    /\ rev \in 0..HeadRev
    /\ rolledBack \in BOOLEAN
    /\ IsDatabase(db) /\ db.ok

\* The schema a revision stands for is the one a new database has after it.
SchemaOf == [r \in 0..HeadRev |-> Upgraded(Empty, 0, r).schema]

\* The models name some keys that the migrations leave the name of to the database, or the
\* other way round.
Unnamed(tables) ==
    [t \in DOMAIN tables |-> [tables[t] EXCEPT !.refs = {Named(ref, "") : ref \in @}]]

\* What becomes of the schema, where no row is in the way: each revision is refused by none, goes
\* from one schema to the next, and back, and the last is what app/models declares.  (The
\* revisions are as they are: this is TLC's to compute.  That the rows make no difference
\* to the schema, and what they make one to, is proved from it.)
ASSUME RevisionsAssumption ==
    /\ \A r \in 1..HeadRev :
         LET up   == Run(WithoutRows(SchemaOf[r - 1]), Upgrades[r])
             down == Run(WithoutRows(SchemaOf[r]), Downgrades[r])
         IN  /\ up.ok /\ up.schema = SchemaOf[r]
             /\ down.ok /\ down.schema = SchemaOf[r - 1]
    /\ Unnamed(SchemaOf[HeadRev].tables) = Unnamed(Declared)
    /\ SchemaOf[HeadRev].types = UNION {Declared[t].types : t \in DOMAIN Declared}

(* However a database has come to a revision, through whatever upgrades and   *)
(* downgrades, its tables, keys and enum types are those of the revision: no  *)
(* downgrade leaves anything behind or takes too much.  At the head they are  *)
(* what app/models declares, and no code is left in the old format.           *)
AsRevised ==
    /\ db.schema = SchemaOf[rev]
    /\ rev = HeadRev =>
         /\ Unnamed(db.schema.tables) = Unnamed(Declared)
         /\ db.schema.types = UNION {Declared[t].types : t \in DOMAIN Declared}
         /\ \A t \in Prefixed : \A i \in DOMAIN db.codes[t] : ~db.codes[t][i].bare

(* A container runs "alembic upgrade head" before it starts to serve, so a    *)
(* refused upgrade keeps the program down.  No rows make one fail in a        *)
(* database that was never downgraded.  After a downgrade two kinds can:      *)
(* links to vendors or RFQs that the downgrade has dropped, and style codes   *)
(* out of order when they are renumbered again.  A downgrade never fails.     *)
RefusedForRowsOnly ==
    /\ Downgraded(db, rev, 0).ok
    /\ \/ Upgraded(db, rev, HeadRev).ok
       \/ /\ rolledBack
          /\ db.orphans # {} \/ ~StylesFree(db.styles)
=============================================================================
