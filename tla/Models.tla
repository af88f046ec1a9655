------------------------------- MODULE Models -------------------------------
(***************************************************************************)
(* The tables the program declares (app/models): for each the foreign      *)
(* keys, the enum types of its columns and what is unique in it.  Of the   *)
(* other columns only those are kept that some migration adds or drops.    *)
(***************************************************************************)
EXTENDS TLC

\* A column that refers to a table; the rows of a cascading one go with the row they
\* refer to.  "name" is "" for a constraint the database names.
Ref(column, table)       == [column |-> column, to |-> table, cascade |-> FALSE, name |-> ""]
Cascading(column, table) == [Ref(column, table) EXCEPT !.cascade = TRUE]
Named(ref, name)         == [ref EXCEPT !.name = name]

\* What is unique in a table is a set of columns; the primary key is left out.
Table(refs, types, unique) ==
    [refs |-> refs, types |-> types, unique |-> unique, columns |-> {}]
With(columns, table) == [table EXCEPT !.columns = columns]

PerUser == Cascading("user_id", "users")
PerStoreAndVariant == {Cascading("store_id", "stores"),
                       Cascading("sku_variant_id", "sku_variants")}

UserModels ==
    [users |-> Table({}, {"portal_type", "user_status"}, {{"code"}, {"portal_type", "email"}}),
     refresh_tokens          |-> Table({PerUser}, {}, {{"token_hash"}}),
     password_reset_tokens   |-> Table({PerUser}, {}, {{"token_hash"}}),
     user_account_settings   |-> Table({PerUser}, {}, {}),
     user_notification_prefs |-> Table({PerUser}, {}, {})]

NotificationModels ==
    [notifications |-> Table({Cascading("recipient_user_id", "users")}, {}, {}),
     store_notification_mutes |-> Table({}, {}, {})]

AuditModels == [audit_log |-> Table({Ref("user_id", "users")}, {"audit_portal_type"}, {})]

WarehouseModels ==
    LET warehouse == Cascading("warehouse_id", "warehouses")
    IN [warehouses |-> Table({Ref("manager_id", "users"), Ref("approved_by", "users")},
                             {"warehouse_status"}, {{"code"}}),
        warehouse_vendor_links |-> Table({warehouse, Cascading("vendor_id", "vendors")},
            {"warehouse_vendor_link_status"}, {{"warehouse_id", "vendor_id"}}),
        warehouse_store_links |-> Table({warehouse, Cascading("store_id", "stores")},
            {"warehouse_store_link_status"}, {{"warehouse_id", "store_id"}}),
        warehouse_zones |-> Table({warehouse}, {}, {}),
        warehouse_stock_movements |-> Table({warehouse, Ref("sku_variant_id", "sku_variants")},
            {"warehouse_movement_type"}, {})]

CatalogModels ==
    [skus |-> Table({Ref("published_by", "users")}, {"sku_status"}, {{"style_code"}}),
     sku_variants |-> Table({Cascading("sku_id", "skus")}, {}, {{"variant_code"}}),
     warehouse_sku_status |-> Table({Cascading("warehouse_id", "warehouses"),
                                     Cascading("sku_variant_id", "sku_variants")},
                                    {"warehouse_sku_status_value"}, {}),
     sku_supplying_vendors |-> Table({Cascading("sku_variant_id", "sku_variants"),
                                      Cascading("vendor_id", "vendors")},
                                     {}, {{"sku_variant_id", "vendor_id"}})]

StoreModels ==
    [stores |-> Table({Ref("manager_user_id", "users"), Ref("approved_by", "users")},
                      {"store_type", "store_status"}, {{"code"}}),
     store_approvals |-> Table({Cascading("store_id", "stores"), Ref("requested_by", "users"),
                                Ref("approved_by", "users")}, {"store_approval_status"}, {}),
     store_inventory |-> Table(PerStoreAndVariant, {}, {}),
     store_product_settings |-> Table(PerStoreAndVariant \cup {Ref("removed_by", "users")}, {}, {}),
     store_discounts |-> Table(PerStoreAndVariant, {}, {})]

\* What goes on between one store and one warehouse in one variant.
Trade == {Ref("store_id", "stores"), Ref("warehouse_id", "warehouses"),
          Ref("sku_variant_id", "sku_variants")}

ReturnModels ==
    [store_returns |-> Table(Trade \cup {Ref("pr_id", "purchase_requests"),
             Ref("resolution_transfer_order_id", "transfer_orders"),
             Named(Ref("resolution_rfq_id", "rfqs"), "fk_store_returns_resolution_rfq_id")},
         {"store_return_decision", "store_return_status"}, {{"ref_code"}}),
     receiving_items |-> Table({Ref("transfer_order_id", "transfer_orders"),
             Ref("sku_variant_id", "sku_variants"), Ref("store_return_id", "store_returns")},
         {"receiving_item_status", "receiving_item_condition", "receiving_return_type"}, {})]

FulfillmentModels ==
    [purchase_requests |-> Table(Trade,
         {"purchase_request_priority", "purchase_request_approval_status", "fulfilment_type",
          "fulfilment_ref_type"}, {{"ref_code"}}),
     transfer_orders |-> Table(Trade \cup {Ref("pr_id", "purchase_requests"),
             Named(Ref("return_id", "store_returns"), "fk_transfer_orders_return_id")},
         {"transfer_order_source_type", "transfer_order_status"}, {{"ref_code"}}),
     inventory |-> Table({Cascading("warehouse_id", "warehouses"),
                          Cascading("sku_variant_id", "sku_variants")}, {}, {}),
     inventory_reservations |-> Table({Ref("warehouse_id", "warehouses"),
             Ref("sku_variant_id", "sku_variants"), Ref("pr_id", "purchase_requests"),
             Ref("return_id", "store_returns")}, {}, {})]

VendorModels ==
    LET vendor == Cascading("vendor_id", "vendors")
    IN [vendors |-> Table({Ref("approved_by", "users")}, {"vendor_status"},
                          {{"code"}, {"gst"}, {"pan"}}),
        vendor_compliance_documents |-> Table({vendor}, {"compliance_doc_type"}, {}),
        vendor_goods |-> Table({vendor}, {"goods_category", "goods_unit", "goods_stock_status"}, {}),
        vendor_catalog_submissions |-> Table({vendor, Ref("goods_id", "vendor_goods"),
            Ref("sku_variant_id", "sku_variants")}, {"catalog_submission_status"}, {}),
        vendor_catalog_documents |->
            Table({Cascading("submission_id", "vendor_catalog_submissions")}, {}, {})]

ProcurementModels ==
    [rfqs |-> Table({Ref("pr_id", "purchase_requests"), Ref("return_id", "store_returns"),
                     Ref("warehouse_id", "warehouses"), Ref("sku_variant_id", "sku_variants")},
                    {"rfq_status"}, {{"ref_code"}}),
     rfq_invited_vendors |->
         Table({Cascading("rfq_id", "rfqs"), Cascading("vendor_id", "vendors")}, {}, {}),
     quotations |-> Table({Cascading("rfq_id", "rfqs"), Ref("vendor_id", "vendors")},
                          {"freight_payer", "quotation_status"}, {}),
     purchase_orders |-> Table({Ref("rfq_id", "rfqs"), Ref("quotation_id", "quotations"),
             Ref("vendor_id", "vendors"), Ref("warehouse_id", "warehouses"),
             Ref("sku_variant_id", "sku_variants")}, {"purchase_order_status"}, {{"ref_code"}})]

ShippingModels ==
    LET notice == Cascading("asn_id", "asns")
        order  == Ref("po_id", "purchase_orders")
    IN [asns |-> Table({order}, {"asn_draft_status"}, {{"ref_code"}}),
        asn_items |-> Table({notice, order, Ref("sku_variant_id", "sku_variants")}, {}, {}),
        asn_attachments |-> Table({notice}, {"asn_attachment_uploader_role"}, {}),
        goods_receipts |-> Table({notice, order}, {"asn_inspection_status"}, {{"asn_id"}}),
        shipments |-> With({"code"}, Table({Ref("asn_id", "asns")}, {"shipment_status"}, {{"code"}})),
        shipment_timeline_events |-> Table({Cascading("shipment_id", "shipments")}, {}, {}),
        invoices |-> Table({order, Ref("asn_id", "asns"), Ref("vendor_id", "vendors")},
                           {"invoice_status"}, {{"vendor_id", "invoice_number"}})]

PaymentModels ==
    [payments |-> Table({Ref("invoice_id", "invoices"), Ref("po_id", "purchase_orders")},
                        {"payment_status", "payment_mode"}, {}),
     freight_payments |-> Table({}, {"freight_direction", "freight_linked_type",
                                     "freight_payer_party", "freight_payment_status"}, {})]

VendorReturnModels ==
    [vendor_returns |-> Table({Ref("po_id", "purchase_orders"), Ref("asn_id", "asns"),
             Ref("warehouse_id", "warehouses"), Ref("vendor_id", "vendors"),
             Ref("sku_variant_id", "sku_variants")}, {"vendor_return_status"}, {{"ref_code"}}),
     vendor_return_attachments |-> With({"uploaded_at"},
         Table({Cascading("vendor_return_id", "vendor_returns")}, {}, {}))]

SupportModels ==
    LET ticket == Cascading("ticket_id", "support_tickets")
    IN [support_tickets |-> Table({Ref("raised_by_user_id", "users"),
            Ref("assigned_to_user_id", "users")}, {"ticket_priority", "ticket_status"},
            {{"ticket_number"}}),
        support_ticket_messages |-> Table({ticket, Ref("sender_user_id", "users")}, {}, {}),
        support_ticket_attachments |-> Table({ticket, Ref("uploaded_by_user_id", "users"),
            Cascading("message_id", "support_ticket_messages")}, {}, {}),
        support_routing_rules |->
            Table({Ref("default_assignee_user_id", "users")}, {}, {{"category"}})]

\* What app/models/__init__.py imports, and the tables of the whole program: the support
\* desk's are declared only once its repository is imported.
Registered ==
    UserModels @@ NotificationModels @@ AuditModels @@ WarehouseModels @@ CatalogModels
        @@ StoreModels @@ ReturnModels @@ FulfillmentModels @@ VendorModels
        @@ ProcurementModels @@ ShippingModels @@ PaymentModels @@ VendorReturnModels
Declared == Registered @@ SupportModels
=============================================================================
