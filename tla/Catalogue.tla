------------------------------- MODULE Catalogue -------------------------------
(***************************************************************************)
(* What vendors offer, and the SKUs a super admin makes of it              *)
(* (app/services/vendor/catalog_service.py, generate_sku in                *)
(* app/services/super_admin/vendor_admin_service.py).                      *)
(*                                                                         *)
(* A product stands for the six fields find_matching_variant compares; it  *)
(* also asks for an active SKU, which every SKU of this module is.  A SKU  *)
(* made here has one variant, so a position in skus is the identity of     *)
(* both.  Codes with the same number, such as "2" and "002", are one style *)
(* here, for next_style_code reads them alike.                             *)
(* generate_sku reads several tables one after the other and writes all    *)
(* it has found in one commit; a row that another session has inserted     *)
(* meanwhile makes the commit fail.                                        *)
(***************************************************************************)
EXTENDS Naturals, Sequences, FiniteSets, FiniteSetsExt

CONSTANTS
    Vendors, Products,
    Locations,        \* warehouses and stores
    Codes,            \* the style codes a super admin may type in: numbers and words
    Sessions,
    Discipline,       \* what people are assumed to do although no handler checks it
    MaxSubmissions    \* bound

(* "codes"   nobody types a style code in while another SKU is generated;    *)
(* "edit"    a vendor leaves a submission alone from the moment a SKU is     *)
(*           generated for it;                                               *)
(* "open"    no warehouse or store becomes active while a SKU is generated.  *)
Disciplines == {"codes", "edit", "open"}

ASSUME CatalogueAssumption ==
    /\ Discipline \subseteq Disciplines
    /\ MaxSubmissions \in Nat

VARIABLES
    locations,     \* whether warehouses and stores are active
    submissions,   \* vendor_catalog_submissions
    skus,          \* skus, sku_variants
    suppliers,     \* sku_supplying_vendors: <<variant, vendor>>
    stocked,       \* the keys of inventory and store_inventory: <<location, variant>>
    sessions       \* what generate_sku in each session has in memory

vars == <<locations, submissions, skus, suppliers, stocked, sessions>>

-----------------------------------------------------------------------------
(* Rows *)

\* "new": not yet approved; "Blocked": was active once.
LocationStatuses == {"new", "Active", "Blocked"}

Styles == Nat \cup Codes

\* variant: 0 for NULL.
Submission == [vendor : Vendors, product : Products, status : {"Submitted", "SKU Assigned"},
               variant : Nat]
Sku == [style : Styles, product : Products]

\* match: the variant that has the product already, 0 if none; linked: the vendor is among
\* its suppliers; missing: the locations without a row for it.
Session == [pc : {"idle", "matching", "listing", "committing"}, submission : Nat,
            product : Products \cup {"none"}, style : Styles, typed : BOOLEAN,
            match : Nat, linked : BOOLEAN, missing : SUBSET Locations]
Idle == [pc |-> "idle", submission |-> 0, product |-> "none", style |-> 0, typed |-> FALSE,
         match |-> 0, linked |-> FALSE, missing |-> {}]

Generating(s) == sessions[s].pc # "idle"
NobodyGenerates == \A s \in Sessions : ~Generating(s)

-----------------------------------------------------------------------------
(* What generate_sku looks up *)

StylesUsed == {skus[k].style : k \in DOMAIN skus}

\* next_style_code: words do not count.
NextStyle == Max({0} \cup (StylesUsed \cap Nat)) + 1

\* find_matching_variant: any of the SKUs that have the product, 0 if none has.
Matching(p, v) == {k \in DOMAIN skus : skus[k].product = p}
Matches(p, v) == IF Matching(p, v) = {} THEN {0} ELSE Matching(p, v)

\* _ensure_stock_rows_everywhere: active locations that have no row for the variant.
MissingUnlessSeen(k) == {l \in Locations : locations[l] = "Active" /\ \A n \in DOMAIN skus : <<l, n>> \notin stocked}
Missing(k) == {l \in Locations : locations[l] = "Active" /\ <<l, k>> \notin stocked}

\* The variant a session assigns: the one it found, or the one it makes.
Variant(me) == IF me.match = 0 THEN Len(skus) + 1 ELSE me.match

\* The style code of a new SKU.
StyleByThen(me) == IF me.typed THEN me.style ELSE NextStyle
StyleChosen(me) == me.style

\* Unique style codes; one row per variant and supplier, and per variant and location.
Refused(me) ==
    \/ me.match = 0 /\ StyleChosen(me) \in StylesUsed
    \/ ~me.linked /\ <<Variant(me), submissions[me.submission].vendor>> \in suppliers
    \/ \E l \in me.missing : <<l, Variant(me)>> \in stocked

-----------------------------------------------------------------------------
Init ==
    /\ locations = [l \in Locations |-> "new"]
    /\ submissions = <<>>
    /\ skus = <<>>
    /\ suppliers = {}
    /\ stocked = {}
    /\ sessions = [s \in Sessions |-> Idle]

Becomes(s, session) == sessions' = [sessions EXCEPT ![s] = session]

\* Super admins approve, block and unblock warehouses and stores.
Activate(l) ==
    /\ locations[l] # "Active"
    /\ "open" \in Discipline => NobodyGenerates
    /\ locations' = [locations EXCEPT ![l] = "Active"]
    /\ UNCHANGED <<submissions, skus, suppliers, stocked, sessions>>

Block(l) ==
    /\ locations[l] = "Active"
    /\ locations' = [locations EXCEPT ![l] = "Blocked"]
    /\ UNCHANGED <<submissions, skus, suppliers, stocked, sessions>>

\* create.
Submit(v, p) ==
    /\ Len(submissions) < MaxSubmissions
    /\ submissions' = Append(submissions, [vendor |-> v, product |-> p, status |-> "Submitted",
                                           variant |-> 0])
    /\ UNCHANGED <<locations, skus, suppliers, stocked, sessions>>

\* update, whatever the status.
EditSubmission(i, p) ==
    /\ "edit" \in Discipline =>
          /\ submissions[i].status = "Submitted"
          /\ \A s \in Sessions : Generating(s) => sessions[s].submission # i
    /\ submissions' = [submissions EXCEPT ![i].product = p]
    /\ UNCHANGED <<locations, skus, suppliers, stocked, sessions>>

\* get_or_create_inventory and _increase_store_stock: goods come in before the location has
\* a row.  Whether the location is active is asked when people sign in only.
FirstGoods(l, k) ==
    /\ locations[l] # "new"
    /\ stocked' = stocked \cup {<<l, k>>}
    /\ UNCHANGED <<locations, submissions, skus, suppliers, sessions>>

-----------------------------------------------------------------------------
(* generate_sku *)

\* The status is looked at and the style code chosen: one typed in, or the next.
Begin(s, i, style, typed) ==
    /\ sessions[s].pc = "idle"
    /\ submissions[i].status = "Submitted"
    /\ IF typed THEN style \in Codes \ StylesUsed ELSE style = NextStyle
    /\ "codes" \in Discipline =>
          /\ typed => NobodyGenerates
          /\ \A r \in Sessions : Generating(r) => ~sessions[r].typed
    /\ Becomes(s, [Idle EXCEPT !.pc = "matching", !.submission = i,
                               !.product = submissions[i].product,
                               !.style = style, !.typed = typed])
    /\ UNCHANGED <<locations, submissions, skus, suppliers, stocked>>

FindMatch(s, k) ==
    LET me == sessions[s]
        v == submissions[me.submission].vendor
    IN  /\ me.pc = "matching"
        /\ k \in Matches(me.product, v)
        /\ Becomes(s, [me EXCEPT !.pc = "listing", !.match = k,
                                 !.linked = <<k, v>> \in suppliers])
        /\ UNCHANGED <<locations, submissions, skus, suppliers, stocked>>

ListLocations(s) ==
    LET me == sessions[s]
    IN  /\ me.pc = "listing"
        /\ Becomes(s, [me EXCEPT !.pc = "committing", !.missing = Missing(Variant(me))])
        /\ UNCHANGED <<locations, submissions, skus, suppliers, stocked>>

\* The supplier a commit adds.
NewSupplierOfNew(me, v) == IF me.match # 0 THEN {} ELSE {<<Variant(me), v>>}
NewSupplier(me, v) == IF me.linked THEN {} ELSE {<<Variant(me), v>>}

Commit(s) ==
    LET me == sessions[s]
        i == me.submission
    IN  /\ me.pc = "committing"
        /\ ~Refused(me)
        /\ skus' = IF me.match # 0 THEN skus
                   ELSE Append(skus, [style |-> StyleChosen(me), product |-> me.product])
        /\ suppliers' = suppliers \cup NewSupplier(me, submissions[i].vendor)
        /\ stocked' = stocked \cup {<<l, Variant(me)>> : l \in me.missing}
        /\ submissions' = [submissions EXCEPT ![i].variant = Variant(me),
                                              ![i].status = "SKU Assigned"]
        /\ Becomes(s, Idle)
        /\ UNCHANGED locations

\* The commit is refused, or the process dies: nothing was written.
Abort(s) ==
    /\ Generating(s)
    /\ Becomes(s, Idle)
    /\ UNCHANGED <<locations, submissions, skus, suppliers, stocked>>

-----------------------------------------------------------------------------
Next ==
    \/ \E l \in Locations : Activate(l) \/ Block(l)
    \/ \E v \in Vendors, p \in Products : Submit(v, p)
    \/ \E i \in DOMAIN submissions, p \in Products : EditSubmission(i, p)
    \/ \E l \in Locations, k \in DOMAIN skus : FirstGoods(l, k)
    \/ \E s \in Sessions :
          \/ \E i \in DOMAIN submissions :
                \/ Begin(s, i, NextStyle, FALSE)
                \/ \E code \in Codes : Begin(s, i, code, TRUE)
          \/ \E k \in {0} \cup DOMAIN skus : FindMatch(s, k)
          \/ ListLocations(s) \/ Commit(s) \/ Abort(s)

Spec == Init /\ [][Next]_vars

-----------------------------------------------------------------------------
(* Properties *)

\* Rows have their types and name rows that exist.
TypeOK ==
    /\ locations \in [Locations -> LocationStatuses]
    /\ submissions \in Seq(Submission)
    /\ skus \in Seq(Sku)
    /\ suppliers \subseteq (DOMAIN skus) \X Vendors
    /\ stocked \subseteq Locations \X (DOMAIN skus)
    /\ sessions \in [Sessions -> Session]
    /\ \A s \in Sessions :
          /\ Generating(s) => /\ sessions[s].submission \in DOMAIN submissions
                              /\ sessions[s].product \in Products
          /\ sessions[s].match \in {0} \cup DOMAIN skus

\* A product has one SKU however many vendors offer it, although every handler looks for
\* the product first and adds the SKU later: of two that add SKUs at once one is refused,
\* because both chose the same next style code before they looked.
OneSkuPerProduct ==
    \A j, k \in DOMAIN skus : skus[j].product = skus[k].product => j = k

\* A submission that has a SKU describes the SKU's product, and its vendor supplies it.
AssignedMatches ==
    \A i \in DOMAIN submissions :
        submissions[i].status = "SKU Assigned" =>
            /\ submissions[i].variant \in DOMAIN skus
            /\ skus[submissions[i].variant].product = submissions[i].product
            /\ <<submissions[i].variant, submissions[i].vendor>> \in suppliers

\* When a SKU is assigned every active warehouse and store has a row for it.
ShownEverywhere ==
    [][\A i \in DOMAIN submissions :
           submissions'[i].variant # submissions[i].variant =>
               \A l \in Locations :
                   locations'[l] = "Active" => <<l, submissions'[i].variant>> \in stocked']_vars
=============================================================================
