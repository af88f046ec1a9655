---------------------------- MODULE CatalogueProofs ----------------------------
(***************************************************************************)
(* Theorems about Catalogue, for every value of its constants.             *)
(***************************************************************************)
EXTENDS Catalogue, Tables

-----------------------------------------------------------------------------
(* What a step does to each table: the actions that write it *)

\* What generate_sku does before its commit.
Prepares(s) ==
    \/ \E i \in DOMAIN submissions :
          \/ Begin(s, i, NextStyle, FALSE)
          \/ \E code \in Codes : Begin(s, i, code, TRUE)
    \/ \E k \in {0} \cup DOMAIN skus : FindMatch(s, k)
    \/ ListLocations(s)

LEMMA LocationsStep ==
    [Next]_vars =>
        \/ UNCHANGED locations
        \/ \E l \in Locations : Activate(l) \/ Block(l)
BY DEF vars, Next, Submit, EditSubmission, FirstGoods, Begin, FindMatch, ListLocations, Commit, Abort

LEMMA SubmissionsStep ==
    [Next]_vars =>
        \/ UNCHANGED submissions
        \/ \E v \in Vendors, p \in Products : Submit(v, p)
        \/ \E i \in DOMAIN submissions, p \in Products : EditSubmission(i, p)
        \/ \E s \in Sessions : Commit(s)
BY DEF vars, Next, Activate, Block, FirstGoods, Begin, FindMatch, ListLocations, Abort

LEMMA SkusStep ==
    [Next]_vars =>
        \/ UNCHANGED <<skus, suppliers>>
        \/ \E s \in Sessions : Commit(s)
BY DEF vars, Next, Activate, Block, Submit, EditSubmission, FirstGoods, Begin, FindMatch,
       ListLocations, Abort

LEMMA StockedStep ==
    [Next]_vars =>
        \/ UNCHANGED stocked
        \/ \E l \in Locations, k \in DOMAIN skus : FirstGoods(l, k)
        \/ \E s \in Sessions : Commit(s)
BY DEF vars, Next, Activate, Block, Submit, EditSubmission, Begin, FindMatch, ListLocations, Abort

LEMMA SessionsStep ==
    [Next]_vars =>
        \/ UNCHANGED sessions
        \/ \E s \in Sessions : Prepares(s) \/ Commit(s) \/ Abort(s)
BY DEF vars, Next, Prepares, Activate, Block, Submit, EditSubmission, FirstGoods

-----------------------------------------------------------------------------
(* Style codes.  That the numbers in use have a largest one is kept as an  *)
(* invariant: next_style_code is defined by it.                            *)

Numbers == {0} \cup (StylesUsed \cap Nat)
HasLargest == \E m \in Numbers : \A c \in Numbers : m >= c

LEMMA NextStyleIsAbove ==
    ASSUME HasLargest
    PROVE  /\ NextStyle \in Nat \ {0}
           /\ NextStyle \notin StylesUsed
           /\ \A c \in Numbers : c < NextStyle
<1> DEFINE m == CHOOSE x \in Numbers : \A y \in Numbers : x >= y
<1>1. NextStyle = m + 1
  BY DEF NextStyle, Max, Numbers
<1>2. m \in Numbers /\ \A c \in Numbers : m >= c
  BY DEF HasLargest
<1>3. m \in Nat
  BY <1>2 DEF Numbers
<1>4. \A c \in Numbers : c \in Nat
  BY DEF Numbers
<1> HIDE DEF m
<1>5. NextStyle \in Nat \ {0} /\ \A c \in Numbers : c < NextStyle
  BY <1>1, <1>2, <1>3, <1>4
<1>6. NextStyle \notin Numbers
  BY <1>5
<1> QED BY <1>5, <1>6 DEF Numbers

-----------------------------------------------------------------------------
(* Types *)

\* The values of each variable.
RowsTyped ==
    /\ locations \in [Locations -> LocationStatuses]
    /\ submissions \in Seq(Submission)
    /\ skus \in Seq(Sku)
    /\ suppliers \subseteq (DOMAIN skus) \X Vendors
    /\ stocked \subseteq Locations \X (DOMAIN skus)
    /\ sessions \in [Sessions -> Session]

\* What a session names.
NamesRows(s) ==
    /\ Generating(s) => /\ sessions[s].submission \in DOMAIN submissions
                        /\ sessions[s].product \in Products
    /\ sessions[s].match \in {0} \cup DOMAIN skus

TypesKept ==
    /\ RowsTyped
    /\ \A s \in Sessions : NamesRows(s)
    /\ HasLargest

LEMMA Lengths ==
    ASSUME RowsTyped
    PROVE  /\ Len(submissions) \in Nat /\ DOMAIN submissions = 1..Len(submissions)
           /\ Len(skus) \in Nat /\ DOMAIN skus = 1..Len(skus)
           /\ \A i \in DOMAIN submissions : submissions[i] \in Submission
           /\ \A k \in DOMAIN skus : skus[k] \in Sku
           /\ \A s \in Sessions : sessions[s] \in Session
           /\ 0 \notin DOMAIN skus /\ Len(skus) + 1 \notin DOMAIN skus
BY LenProperties, ElementOfSeq DEF RowsTyped

LEMMA IdleTyped == Idle \in Session
BY DEF Idle, Session, Styles

\* A session's row is replaced by one of its type.
LEMMA BecomesTyped ==
    ASSUME RowsTyped, NEW s \in Sessions, NEW me \in Session, Becomes(s, me)
    PROVE  /\ sessions' \in [Sessions -> Session]
           /\ sessions'[s] = me
           /\ \A r \in Sessions : r # s => sessions'[r] = sessions[r]
BY EntryChanged DEF Becomes, RowsTyped

\* What a commit adds to the SKUs.
LEMMA CommitSkus ==
    ASSUME TypesKept, NEW s \in Sessions, Commit(s)
    PROVE  LET me == sessions[s]
           IN  /\ skus' \in Seq(Sku)
               /\ DOMAIN skus \subseteq DOMAIN skus'
               /\ Variant(me) \in DOMAIN skus'
               /\ \A k \in DOMAIN skus : skus'[k] = skus[k]
               /\ me.match # 0 => /\ UNCHANGED skus
                                  /\ Variant(me) = me.match
               /\ me.match = 0 => /\ Variant(me) = Len(skus) + 1
                                  /\ DOMAIN skus' = DOMAIN skus \cup {Len(skus) + 1}
                                  /\ skus'[Len(skus) + 1]
                                        = [style |-> me.style, product |-> me.product]
                                  /\ StylesUsed' = StylesUsed \cup {me.style}
                                  /\ me.style \notin StylesUsed
<1> DEFINE me == sessions[s]
           row == [style |-> me.style, product |-> me.product]
<1>0. RowsTyped /\ NamesRows(s) /\ me \in Session
  BY Lengths DEF TypesKept
<1>1. me.pc = "committing" /\ ~Refused(me)
  BY DEF Commit
<1>2. row \in Sku
  <2>1. me.product \in Products
    BY <1>0, <1>1 DEF NamesRows, Generating
  <2>2. me.style \in Styles
    BY <1>0 DEF Session
  <2> QED BY <2>1, <2>2 DEF Sku
<1>3. CASE me.match # 0
  <2>1. UNCHANGED skus /\ Variant(me) = me.match
    BY <1>3 DEF Commit, Variant
  <2>2. me.match \in DOMAIN skus
    BY <1>0, <1>3 DEF NamesRows
  <2> QED BY <1>0, <1>3, <2>1, <2>2 DEF RowsTyped
<1>4. CASE me.match = 0
  <2>1. skus' = Append(skus, row) /\ Variant(me) = Len(skus) + 1
    BY <1>4 DEF Commit, Variant, StyleChosen
  <2>2. me.style \notin StylesUsed
    BY <1>1, <1>4 DEF Refused, StyleChosen
  <2>3. /\ skus' \in Seq(Sku)
        /\ DOMAIN skus = 1..Len(skus)
        /\ DOMAIN skus' = 1..(Len(skus) + 1)
        /\ \A k \in DOMAIN skus : skus'[k] = skus[k]
        /\ skus'[Len(skus) + 1] = row
    BY <1>0, <1>2, <2>1, RowAdded DEF RowsTyped
  <2>4. DOMAIN skus' = DOMAIN skus \cup {Len(skus) + 1} /\ Len(skus) + 1 \notin DOMAIN skus
    BY <1>0, <2>3, Lengths
  <2>5. StylesUsed' = StylesUsed \cup {me.style}
    BY <2>3, <2>4 DEF StylesUsed
  <2> QED BY <1>4, <2>1, <2>2, <2>3, <2>4, <2>5
<1> QED BY <1>3, <1>4

\* What a commit makes of the submission.
LEMMA CommitSubmission ==
    ASSUME TypesKept, NEW s \in Sessions, Commit(s)
    PROVE  LET me == sessions[s]
               i == me.submission
           IN  /\ i \in DOMAIN submissions
               /\ submissions' \in Seq(Submission)
               /\ DOMAIN submissions' = DOMAIN submissions
               /\ submissions'[i] = [submissions[i] EXCEPT !.variant = Variant(me),
                                                          !.status = "SKU Assigned"]
               /\ submissions'[i].variant = Variant(me)
               /\ submissions'[i].product = submissions[i].product
               /\ submissions'[i].vendor = submissions[i].vendor
               /\ \A j \in DOMAIN submissions : j # i => submissions'[j] = submissions[j]
<1> DEFINE me == sessions[s]
           i == me.submission
           row == [submissions[i] EXCEPT !.variant = Variant(me), !.status = "SKU Assigned"]
<1>0. RowsTyped /\ i \in DOMAIN submissions /\ submissions[i] \in Submission
  <2>1. RowsTyped /\ NamesRows(s) /\ Generating(s)
    BY DEF TypesKept, Commit, Generating
  <2> QED BY <2>1, Lengths DEF NamesRows
<1>1. Variant(me) \in Nat
  <2>1. Len(skus) \in Nat /\ me \in Session
    BY <1>0, Lengths
  <2> QED BY <2>1 DEF Variant, Session
<1>2. /\ row \in Submission /\ row.variant = Variant(me)
      /\ row.product = submissions[i].product /\ row.vendor = submissions[i].vendor
  BY <1>0, <1>1 DEF Submission
<1>3. submissions' = [submissions EXCEPT ![i] = row]
  BY <1>0 DEF Commit
<1> HIDE DEF row
<1>4. /\ submissions' \in Seq(Submission)
      /\ DOMAIN submissions' = DOMAIN submissions
      /\ submissions'[i] = row
      /\ \A j \in DOMAIN submissions : j # i => submissions'[j] = submissions[j]
  BY <1>0, <1>2, <1>3, RowChanged DEF RowsTyped
<1> QED BY <1>0, <1>2, <1>4 DEF row

\* A submission is added that has no SKU.
LEMMA SubmissionAdded ==
    ASSUME RowsTyped, NEW v \in Vendors, NEW p \in Products, Submit(v, p)
    PROVE  /\ submissions' \in Seq(Submission)
           /\ DOMAIN submissions' = DOMAIN submissions \cup {Len(submissions) + 1}
           /\ submissions'[Len(submissions) + 1].status = "Submitted"
           /\ \A i \in DOMAIN submissions : submissions'[i] = submissions[i]
<1> DEFINE row == [vendor |-> v, product |-> p, status |-> "Submitted", variant |-> 0]
<1>1. row \in Submission /\ row.status = "Submitted"
  BY DEF Submission
<1>2. submissions' = Append(submissions, row) /\ submissions \in Seq(Submission)
  BY DEF Submit, RowsTyped
<1> HIDE DEF row
<1>3. /\ submissions' \in Seq(Submission)
      /\ Len(submissions) \in Nat
      /\ DOMAIN submissions = 1..Len(submissions)
      /\ DOMAIN submissions' = 1..(Len(submissions) + 1)
      /\ submissions'[Len(submissions) + 1] = row
      /\ \A i \in DOMAIN submissions : submissions'[i] = submissions[i]
  BY <1>1, <1>2, RowAdded
<1>4. DOMAIN submissions' = DOMAIN submissions \cup {Len(submissions) + 1}
  BY <1>3
<1> QED BY <1>1, <1>3, <1>4

\* Nothing that was inserted is deleted, a SKU stays what it is and a submission its vendor's.
LEMMA Grows ==
    ASSUME TypesKept, [Next]_vars
    PROVE  /\ DOMAIN skus \subseteq DOMAIN skus'
           /\ \A k \in DOMAIN skus : skus'[k] = skus[k]
           /\ StylesUsed \subseteq StylesUsed'
           /\ suppliers \subseteq suppliers'
           /\ stocked \subseteq stocked'
           /\ DOMAIN submissions \subseteq DOMAIN submissions'
           /\ \A i \in DOMAIN submissions : submissions'[i].vendor = submissions[i].vendor
<1>0. RowsTyped
  BY DEF TypesKept
<1>1. /\ DOMAIN skus \subseteq DOMAIN skus'
      /\ \A k \in DOMAIN skus : skus'[k] = skus[k]
      /\ suppliers \subseteq suppliers'
  <2>1. CASE \E s \in Sessions : Commit(s)
    BY <2>1, CommitSkus DEF Commit
  <2> QED BY <2>1, SkusStep
<1>2. StylesUsed \subseteq StylesUsed'
  BY <1>1 DEF StylesUsed
<1>3. stocked \subseteq stocked'
  BY StockedStep DEF FirstGoods, Commit
<1>4. /\ DOMAIN submissions \subseteq DOMAIN submissions'
      /\ \A i \in DOMAIN submissions : submissions'[i].vendor = submissions[i].vendor
  <2>1. CASE \E v \in Vendors, p \in Products : Submit(v, p)
    <3> PICK v \in Vendors, p \in Products : Submit(v, p)
      BY <2>1
    <3> QED BY <1>0, SubmissionAdded
  <2>2. CASE \E i \in DOMAIN submissions, p \in Products : EditSubmission(i, p)
    BY <2>2 DEF EditSubmission
  <2>3. CASE \E s \in Sessions : Commit(s)
    BY <2>3, <1>0, CommitSubmission
  <2> QED BY <2>1, <2>2, <2>3, SubmissionsStep
<1> QED BY <1>1, <1>2, <1>3, <1>4

LEMMA SubmissionsTyped ==
    ASSUME TypesKept, [Next]_vars PROVE submissions' \in Seq(Submission)
<1>0. RowsTyped
  BY DEF TypesKept
<1>1. CASE \E v \in Vendors, p \in Products : Submit(v, p)
  <2> PICK v \in Vendors, p \in Products : Submit(v, p)
    BY <1>1
  <2> QED BY <1>0, SubmissionAdded
<1>2. CASE \E i \in DOMAIN submissions, p \in Products : EditSubmission(i, p)
  <2> PICK i \in DOMAIN submissions, p \in Products : EditSubmission(i, p)
    BY <1>2
  <2>1. [submissions[i] EXCEPT !.product = p] \in Submission
    BY <1>0, Lengths DEF Submission
  <2>2. submissions' = [submissions EXCEPT ![i] = [submissions[i] EXCEPT !.product = p]]
    BY DEF EditSubmission
  <2> QED BY <1>0, <2>1, <2>2, RowChanged DEF RowsTyped
<1>3. CASE \E s \in Sessions : Commit(s)
  BY <1>3, CommitSubmission
<1> QED BY <1>0, <1>1, <1>2, <1>3, SubmissionsStep DEF RowsTyped

\* What is written names variants that exist.
LEMMA KeysTyped ==
    ASSUME TypesKept, [Next]_vars
    PROVE  /\ skus' \in Seq(Sku)
           /\ suppliers' \subseteq (DOMAIN skus') \X Vendors
           /\ stocked' \subseteq Locations \X (DOMAIN skus')
<1>0. RowsTyped /\ DOMAIN skus \subseteq DOMAIN skus'
  BY Grows DEF TypesKept
<1>1. ASSUME NEW s \in Sessions, Commit(s)
      PROVE  /\ skus' \in Seq(Sku)
             /\ suppliers' \subseteq (DOMAIN skus') \X Vendors
             /\ stocked' \subseteq Locations \X (DOMAIN skus')
  <2> DEFINE me == sessions[s]
             v == submissions[me.submission].vendor
  <2>1. skus' \in Seq(Sku) /\ Variant(me) \in DOMAIN skus'
    BY <1>1, CommitSkus
  <2>2. v \in Vendors /\ me.missing \subseteq Locations
    <3>1. me.submission \in DOMAIN submissions
      BY <1>1, CommitSubmission
    <3> QED BY <1>0, <3>1, Lengths DEF Submission, Session
  <2>3. suppliers' = suppliers \cup NewSupplier(me, v)
    BY <1>1 DEF Commit
  <2>4. stocked' = stocked \cup {<<l, Variant(me)>> : l \in me.missing}
    BY <1>1 DEF Commit
  <2> HIDE DEF me, v
  <2> QED BY <1>0, <2>1, <2>2, <2>3, <2>4 DEF RowsTyped, NewSupplier
<1>2. skus' \in Seq(Sku) /\ suppliers' \subseteq (DOMAIN skus') \X Vendors
  BY <1>0, <1>1, SkusStep DEF RowsTyped
<1>3. stocked' \subseteq Locations \X (DOMAIN skus')
  <2>1. CASE \E l \in Locations, k \in DOMAIN skus : FirstGoods(l, k)
    BY <1>0, <2>1 DEF RowsTyped, FirstGoods
  <2> QED BY <1>0, <1>1, <2>1, StockedStep DEF RowsTyped
<1> QED BY <1>2, <1>3

\* The numbers among the style codes go on having a largest one.
LEMMA LargestKept ==
    ASSUME TypesKept, [Next]_vars PROVE HasLargest'
<1>0. PICK m \in Numbers : \A c \in Numbers : m >= c
  BY DEF TypesKept, HasLargest
<1>1. Numbers \subseteq Nat
  BY DEF Numbers
<1>2. ASSUME NEW s \in Sessions, Commit(s), sessions[s].match = 0 PROVE HasLargest'
  <2> DEFINE n == sessions[s].style
  <2>1. StylesUsed' = StylesUsed \cup {n}
    BY <1>2, CommitSkus
  <2> HIDE DEF n
  <2>2. CASE n \in Nat
    <3>1. Numbers' = Numbers \cup {n}
      BY <2>1, <2>2 DEF Numbers
    <3>2. CASE n > m
      BY <1>0, <1>1, <2>2, <3>1, <3>2 DEF HasLargest
    <3>3. CASE ~(n > m)
      BY <1>0, <1>1, <2>2, <3>1, <3>3 DEF HasLargest
    <3> QED BY <3>2, <3>3
  <2>3. CASE n \notin Nat
    <3>1. Numbers' = Numbers
      BY <2>1, <2>3 DEF Numbers
    <3> QED BY <1>0, <3>1 DEF HasLargest
  <2> QED BY <2>2, <2>3
<1>3. CASE UNCHANGED skus
  BY <1>0, <1>3 DEF HasLargest, Numbers, StylesUsed
<1>4. ASSUME NEW s \in Sessions, Commit(s), sessions[s].match # 0 PROVE UNCHANGED skus
  BY <1>4 DEF Commit
<1> QED BY <1>2, <1>3, <1>4, SkusStep

-----------------------------------------------------------------------------
(* What the sessions hold in memory *)

\* Begin leaves what it read of the submission and the style code it chose.
LEMMA BeginSession ==
    ASSUME TypesKept, NEW s \in Sessions, NEW i \in DOMAIN submissions,
           NEW style, NEW typed \in BOOLEAN, Begin(s, i, style, typed)
    PROVE  /\ style \in Styles
           /\ ~typed => style = NextStyle
           /\ UNCHANGED <<locations, submissions, skus, suppliers, stocked>>
           /\ sessions' \in [Sessions -> Session]
           /\ \A r \in Sessions : r # s => sessions'[r] = sessions[r]
           /\ sessions'[s] \in Session
           /\ sessions'[s].pc = "matching"
           /\ sessions'[s].submission = i
           /\ sessions'[s].product = submissions[i].product
           /\ sessions'[s].style = style
           /\ sessions'[s].typed = typed
           /\ sessions'[s].match = 0
           /\ ~sessions'[s].linked
           /\ submissions[i].product \in Products
<1> DEFINE me == [Idle EXCEPT !.pc = "matching", !.submission = i,
                              !.product = submissions[i].product, !.style = style, !.typed = typed]
<1>0. RowsTyped /\ submissions[i] \in Submission /\ i \in Nat
  BY Lengths DEF TypesKept
<1>1. style \in Styles /\ (~typed => style = NextStyle)
  BY NextStyleIsAbove DEF Begin, Styles, TypesKept
<1>2. /\ me \in Session /\ submissions[i].product \in Products
      /\ me.pc = "matching" /\ me.submission = i /\ me.product = submissions[i].product
      /\ me.style = style /\ me.typed = typed /\ me.match = 0 /\ ~me.linked
  BY <1>0, <1>1, IdleTyped DEF Session, Submission, Idle
<1>3. Becomes(s, me)
  BY DEF Begin
<1> HIDE DEF me
<1>4. /\ sessions' \in [Sessions -> Session]
      /\ sessions'[s] = me
      /\ \A r \in Sessions : r # s => sessions'[r] = sessions[r]
  BY <1>0, <1>2, <1>3, BecomesTyped
<1> QED BY <1>1, <1>2, <1>4 DEF Begin

\* FindMatch adds the match and whether the vendor supplies it.
LEMMA FindMatchSession ==
    ASSUME TypesKept, NEW s \in Sessions, NEW k \in {0} \cup DOMAIN skus, FindMatch(s, k)
    PROVE  LET me == sessions[s]
           IN  /\ me.pc = "matching"
               /\ k \in Matches(me.product, submissions[me.submission].vendor)
               /\ UNCHANGED <<locations, submissions, skus, suppliers, stocked>>
               /\ sessions' \in [Sessions -> Session]
               /\ \A r \in Sessions : r # s => sessions'[r] = sessions[r]
               /\ sessions'[s] \in Session
               /\ sessions'[s].pc = "listing"
               /\ sessions'[s].match = k
               /\ sessions'[s].linked <=> <<k, submissions[me.submission].vendor>> \in suppliers
               /\ sessions'[s].submission = me.submission
               /\ sessions'[s].product = me.product
               /\ sessions'[s].style = me.style
               /\ sessions'[s].typed = me.typed
<1> DEFINE me == sessions[s]
           v == submissions[me.submission].vendor
           Entry(b) == [me EXCEPT !.pc = "listing", !.match = k, !.linked = b]
<1>0. RowsTyped /\ me \in Session /\ k \in Nat
  BY Lengths DEF TypesKept
<1>1. \A b \in BOOLEAN :
          /\ Entry(b) \in Session
          /\ Entry(b).pc = "listing" /\ Entry(b).match = k /\ Entry(b).linked = b
          /\ Entry(b).submission = me.submission /\ Entry(b).product = me.product
          /\ Entry(b).style = me.style /\ Entry(b).typed = me.typed
  BY <1>0 DEF Session
<1>2. \E b \in BOOLEAN : Becomes(s, Entry(b)) /\ (b <=> <<k, v>> \in suppliers)
  <2>1. (<<k, v>> \in suppliers) \in BOOLEAN
    OBVIOUS
  <2>2. Becomes(s, Entry(<<k, v>> \in suppliers))
    BY DEF FindMatch
  <2> HIDE DEF Entry
  <2> QED BY <2>1, <2>2
<1> HIDE DEF Entry
<1> PICK b \in BOOLEAN : Becomes(s, Entry(b)) /\ (b <=> <<k, v>> \in suppliers)
  BY <1>2
<1>3. /\ sessions' \in [Sessions -> Session]
      /\ sessions'[s] = Entry(b)
      /\ \A r \in Sessions : r # s => sessions'[r] = sessions[r]
  BY <1>0, <1>1, BecomesTyped
<1> QED BY <1>1, <1>3 DEF FindMatch

\* ListLocations adds the locations without a row.
LEMMA ListLocationsSession ==
    ASSUME TypesKept, NEW s \in Sessions, ListLocations(s)
    PROVE  LET me == sessions[s]
           IN  /\ me.pc = "listing"
               /\ UNCHANGED <<locations, submissions, skus, suppliers, stocked>>
               /\ sessions' \in [Sessions -> Session]
               /\ \A r \in Sessions : r # s => sessions'[r] = sessions[r]
               /\ sessions'[s] \in Session
               /\ sessions'[s].pc = "committing"
               /\ sessions'[s].missing = Missing(Variant(me))
               /\ sessions'[s].match = me.match
               /\ sessions'[s].linked = me.linked
               /\ sessions'[s].submission = me.submission
               /\ sessions'[s].product = me.product
               /\ sessions'[s].style = me.style
               /\ sessions'[s].typed = me.typed
<1> DEFINE me == sessions[s]
           new == [me EXCEPT !.pc = "committing", !.missing = Missing(Variant(me))]
<1>0. RowsTyped /\ me \in Session
  BY Lengths DEF TypesKept
<1>1. Missing(Variant(me)) \subseteq Locations
  BY DEF Missing
<1>2. /\ new \in Session /\ new.pc = "committing" /\ new.missing = Missing(Variant(me))
      /\ new.match = me.match /\ new.linked = me.linked
      /\ new.submission = me.submission /\ new.product = me.product
      /\ new.style = me.style /\ new.typed = me.typed
  BY <1>0, <1>1 DEF Session
<1>3. Becomes(s, new)
  BY DEF ListLocations
<1> HIDE DEF new
<1>4. /\ sessions' \in [Sessions -> Session]
      /\ sessions'[s] = new
      /\ \A r \in Sessions : r # s => sessions'[r] = sessions[r]
  BY <1>0, <1>2, <1>3, BecomesTyped
<1> QED BY <1>2, <1>4 DEF ListLocations

\* A session is done, one way or the other.
LEMMA IdleSession ==
    ASSUME TypesKept, NEW s \in Sessions, Commit(s) \/ Abort(s)
    PROVE  /\ sessions' \in [Sessions -> Session]
           /\ \A r \in Sessions : r # s => sessions'[r] = sessions[r]
           /\ sessions'[s] = Idle
<1>1. Becomes(s, Idle)
  BY DEF Commit, Abort
<1> QED BY <1>1, IdleTyped, BecomesTyped DEF TypesKept

\* A session as it was, begun, a step further, or done.
LEMMA SessionChange ==
    ASSUME TypesKept, [Next]_vars, NEW r \in Sessions
    PROVE  \/ sessions'[r] = sessions[r]
           \/ sessions'[r] = Idle
           \/ \E i \in DOMAIN submissions, typed \in BOOLEAN : \E style :
                Begin(r, i, style, typed)
           \/ \E k \in {0} \cup DOMAIN skus : FindMatch(r, k)
           \/ ListLocations(r)
<1>1. CASE \E s \in Sessions : Commit(s) \/ Abort(s)
  BY <1>1, IdleSession
<1>2. CASE \E s \in Sessions : Prepares(s)
  <2> PICK s \in Sessions : Prepares(s)
    BY <1>2
  <2>1. CASE s = r
    BY <2>1 DEF Prepares
  <2>2. CASE s # r
    <3>1. CASE \E i \in DOMAIN submissions :
                 \/ Begin(s, i, NextStyle, FALSE)
                 \/ \E code \in Codes : Begin(s, i, code, TRUE)
      BY <2>2, <3>1, BeginSession
    <3>2. CASE \E k \in {0} \cup DOMAIN skus : FindMatch(s, k)
      BY <2>2, <3>2, FindMatchSession
    <3>3. CASE ListLocations(s)
      BY <2>2, <3>3, ListLocationsSession
    <3> QED BY <3>1, <3>2, <3>3 DEF Prepares
  <2> QED BY <2>1, <2>2
<1> QED BY <1>1, <1>2, SessionsStep

LEMMA SessionsTyped ==
    ASSUME TypesKept, [Next]_vars PROVE sessions' \in [Sessions -> Session]
<1>1. CASE \E s \in Sessions : Commit(s) \/ Abort(s)
  BY <1>1, IdleSession
<1>2. CASE \E s \in Sessions : Prepares(s)
  BY <1>2, BeginSession, FindMatchSession, ListLocationsSession DEF Prepares
<1> QED BY <1>1, <1>2, SessionsStep DEF TypesKept, RowsTyped

LEMMA NamesKept ==
    ASSUME TypesKept, [Next]_vars, NEW r \in Sessions PROVE NamesRows(r)'
<1>0. /\ NamesRows(r)
      /\ DOMAIN submissions \subseteq DOMAIN submissions'
      /\ DOMAIN skus \subseteq DOMAIN skus'
      /\ sessions[r] \in Session
  BY Grows, Lengths DEF TypesKept
<1>1. CASE sessions'[r] = sessions[r]
  BY <1>0, <1>1 DEF NamesRows, Generating
<1>2. CASE sessions'[r] = Idle
  BY <1>2 DEF NamesRows, Generating, Idle
<1>3. ASSUME NEW i \in DOMAIN submissions, NEW typed \in BOOLEAN, NEW style,
             Begin(r, i, style, typed)
      PROVE  NamesRows(r)'
  <2>1. /\ sessions'[r].submission = i /\ sessions'[r].match = 0
        /\ sessions'[r].product = submissions[i].product
        /\ submissions[i].product \in Products
    BY <1>3, BeginSession
  <2> QED BY <1>0, <2>1 DEF NamesRows, Generating
<1>4. ASSUME NEW k \in {0} \cup DOMAIN skus, FindMatch(r, k) PROVE NamesRows(r)'
  <2>1. /\ sessions[r].pc = "matching" /\ sessions'[r].match = k
        /\ sessions'[r].submission = sessions[r].submission
        /\ sessions'[r].product = sessions[r].product
    BY <1>0, <1>4, FindMatchSession DEF Session
  <2> QED BY <1>0, <2>1 DEF NamesRows, Generating
<1>5. CASE ListLocations(r)
  <2>1. /\ sessions[r].pc = "listing" /\ sessions'[r].match = sessions[r].match
        /\ sessions'[r].submission = sessions[r].submission
        /\ sessions'[r].product = sessions[r].product
    BY <1>0, <1>5, ListLocationsSession DEF Session
  <2> QED BY <1>0, <2>1 DEF NamesRows, Generating
<1> QED BY <1>1, <1>2, <1>3, <1>4, <1>5, SessionChange

LEMMA TypesInitially == Init => TypesKept
<1> SUFFICES ASSUME Init PROVE TypesKept
  OBVIOUS
<1>1. submissions \in Seq(Submission) /\ skus \in Seq(Sku) /\ DOMAIN skus = {}
  BY EmptySeq DEF Init
<1>2. RowsTyped
  BY <1>1, IdleTyped DEF Init, RowsTyped, LocationStatuses
<1>3. \A s \in Sessions : NamesRows(s)
  BY DEF Init, NamesRows, Generating, Idle
<1>4. HasLargest
  BY <1>1 DEF HasLargest, Numbers, StylesUsed
<1> QED BY <1>2, <1>3, <1>4 DEF TypesKept

LEMMA TypesInductive == TypesKept /\ [Next]_vars => TypesKept'
<1> SUFFICES ASSUME TypesKept, [Next]_vars PROVE TypesKept'
  OBVIOUS
<1>1. locations' \in [Locations -> LocationStatuses]
  <2>1. locations \in [Locations -> LocationStatuses]
    BY DEF TypesKept, RowsTyped
  <2> QED BY <2>1, LocationsStep DEF Activate, Block, LocationStatuses
<1>2. RowsTyped'
  BY <1>1, SubmissionsTyped, KeysTyped, SessionsTyped DEF RowsTyped
<1> QED BY <1>2, NamesKept, LargestKept DEF TypesKept

LEMMA TypesAlways == Spec => []TypesKept
BY TypesInitially, TypesInductive, PTL DEF Spec

\* Rows have their types and what they name exists (the columns of models/catalog.py and
\* models/vendor.py, the arguments handlers keep), and next_style_code has a number to
\* count on from.
THEOREM TypeCorrect == Spec => []TypeOK
<1>1. TypesKept => TypeOK
  BY DEF TypesKept, RowsTyped, NamesRows, TypeOK
<1> QED BY <1>1, TypesAlways, PTL

-----------------------------------------------------------------------------
(* What a session found is still so when it commits                        *)

FoundStill(s) ==
    /\ sessions[s].match # 0 => skus[sessions[s].match].product = sessions[s].product
    /\ sessions[s].linked =>
          /\ Generating(s)
          /\ <<sessions[s].match, submissions[sessions[s].submission].vendor>> \in suppliers

LEMMA FoundKept ==
    ASSUME TypesKept, [Next]_vars, NEW r \in Sessions, FoundStill(r) PROVE FoundStill(r)'
<1>0. /\ NamesRows(r)
      /\ \A k \in DOMAIN skus : skus'[k] = skus[k]
      /\ suppliers \subseteq suppliers'
      /\ \A i \in DOMAIN submissions : submissions'[i].vendor = submissions[i].vendor
  BY Grows DEF TypesKept
<1>1. CASE sessions'[r] = sessions[r]
  BY <1>0, <1>1 DEF FoundStill, NamesRows, Generating
<1>2. CASE sessions'[r] = Idle
  BY <1>2 DEF FoundStill, Idle
<1>3. ASSUME NEW i \in DOMAIN submissions, NEW typed \in BOOLEAN, NEW style,
             Begin(r, i, style, typed)
      PROVE  FoundStill(r)'
  <2>1. sessions'[r].match = 0 /\ ~sessions'[r].linked
    BY <1>3, BeginSession
  <2> QED BY <2>1 DEF FoundStill
<1>4. ASSUME NEW k \in {0} \cup DOMAIN skus, FindMatch(r, k) PROVE FoundStill(r)'
  <2> DEFINE me == sessions[r]
             v == submissions[me.submission].vendor
  <2>1. /\ k \in Matches(me.product, v)
        /\ UNCHANGED <<submissions, skus, suppliers>>
        /\ sessions'[r].pc = "listing"
        /\ sessions'[r].match = k
        /\ sessions'[r].linked <=> <<k, v>> \in suppliers
        /\ sessions'[r].submission = me.submission
        /\ sessions'[r].product = me.product
    BY <1>4, FindMatchSession
  <2>2. k # 0 => skus[k].product = me.product
    BY <2>1 DEF Matches, Matching
  <2> QED BY <2>1, <2>2 DEF FoundStill, Generating
<1>5. CASE ListLocations(r)
  <2> DEFINE me == sessions[r]
  <2>1. /\ UNCHANGED <<submissions, skus, suppliers>>
        /\ sessions'[r].pc = "committing"
        /\ sessions'[r].match = me.match
        /\ sessions'[r].linked = me.linked
        /\ sessions'[r].submission = me.submission
        /\ sessions'[r].product = me.product
    BY <1>5, ListLocationsSession
  <2> QED BY <2>1 DEF FoundStill, Generating
<1> QED BY <1>1, <1>2, <1>3, <1>4, <1>5, SessionChange

-----------------------------------------------------------------------------
(* One SKU per product: of two that make SKUs at once the second to commit *)
(* is refused.  Whoever commits a new SKU takes the style code that every  *)
(* other session holds which began before.                                 *)

TypedAlone(s) ==
    Generating(s) /\ sessions[s].typed => \A r \in Sessions : Generating(r) => r = s

StyleNextOrGone(s) ==
    Generating(s) /\ ~sessions[s].typed =>
        sessions[s].style = NextStyle \/ sessions[s].style \in StylesUsed

NotFoundOrGone(s) ==
    sessions[s].pc \in {"listing", "committing"} /\ sessions[s].match = 0 =>
        \/ sessions[s].style \in StylesUsed
        \/ \A k \in DOMAIN skus : skus[k].product # sessions[s].product

OneSkuInv ==
    /\ TypesKept
    /\ \A s \in Sessions : TypedAlone(s) /\ StyleNextOrGone(s) /\ NotFoundOrGone(s)
    /\ OneSkuPerProduct

LEMMA CommitTakesStyle ==
    ASSUME OneSkuInv, NEW r \in Sessions, Commit(r), sessions[r].match = 0,
           NEW s \in Sessions, s # r, Generating(s)
    PROVE  sessions[s].style \in StylesUsed'
<1>1. Generating(r)
  BY DEF Commit, Generating
<1>2. ~sessions[r].typed /\ ~sessions[s].typed
  BY <1>1 DEF OneSkuInv, TypedAlone
<1>3. sessions[r].style \notin StylesUsed /\ StylesUsed' = StylesUsed \cup {sessions[r].style}
  BY CommitSkus DEF OneSkuInv
<1>4. sessions[r].style = NextStyle
  BY <1>1, <1>2, <1>3 DEF OneSkuInv, StyleNextOrGone
<1>5. sessions[s].style = NextStyle \/ sessions[s].style \in StylesUsed
  BY <1>2 DEF OneSkuInv, StyleNextOrGone
<1> QED BY <1>3, <1>4, <1>5

\* A step that is no new SKU leaves the SKUs as they are.
LEMMA NoNewSku ==
    ASSUME [Next]_vars
    PROVE  \/ /\ UNCHANGED skus
              /\ UNCHANGED <<StylesUsed, NextStyle>>
           \/ \E s \in Sessions : Commit(s) /\ sessions[s].match = 0
<1>1. UNCHANGED skus \/ \E s \in Sessions : Commit(s) /\ sessions[s].match = 0
  BY SkusStep DEF Commit
<1> QED BY <1>1 DEF StylesUsed, NextStyle

LEMMA TypedAloneKept ==
    ASSUME "codes" \in Discipline, OneSkuInv, [Next]_vars, NEW s \in Sessions
    PROVE  TypedAlone(s)'
<1>0. TypesKept /\ \A r \in Sessions : TypedAlone(r)
  BY DEF OneSkuInv
<1>1. \A r \in Sessions :
          \/ Generating(r)' => Generating(r) /\ sessions'[r].typed = sessions[r].typed
          \/ \E i \in DOMAIN submissions, typed \in BOOLEAN : \E style :
                Begin(r, i, style, typed)
  <2> SUFFICES ASSUME NEW r \in Sessions
               PROVE  \/ Generating(r)' => Generating(r) /\ sessions'[r].typed = sessions[r].typed
                      \/ \E i \in DOMAIN submissions, typed \in BOOLEAN : \E style :
                            Begin(r, i, style, typed)
    OBVIOUS
  <2>1. CASE sessions'[r] = sessions[r]
    BY <2>1 DEF Generating
  <2>2. CASE sessions'[r] = Idle
    BY <2>2 DEF Generating, Idle
  <2>3. CASE \E k \in {0} \cup DOMAIN skus : FindMatch(r, k)
    BY <1>0, <2>3, FindMatchSession DEF Generating
  <2>4. CASE ListLocations(r)
    BY <1>0, <2>4, ListLocationsSession DEF Generating
  <2> QED BY <1>0, <2>1, <2>2, <2>3, <2>4, SessionChange
<1>2. ASSUME NEW r \in Sessions, NEW i \in DOMAIN submissions, NEW typed \in BOOLEAN, NEW style,
             Begin(r, i, style, typed)
      PROVE  TypedAlone(s)'
  <2>1. /\ typed => NobodyGenerates
        /\ \A q \in Sessions : Generating(q) => ~sessions[q].typed
    BY <1>2 DEF Begin
  <2>2. /\ \A q \in Sessions : q # r => sessions'[q] = sessions[q]
        /\ sessions'[r].typed = typed
    BY <1>0, <1>2, BeginSession
  <2> QED BY <2>1, <2>2 DEF TypedAlone, Generating, NobodyGenerates
<1>3. CASE \A r \in Sessions :
              Generating(r)' => Generating(r) /\ sessions'[r].typed = sessions[r].typed
  BY <1>0, <1>3 DEF TypedAlone
<1> QED BY <1>1, <1>2, <1>3

LEMMA StyleKept ==
    ASSUME "codes" \in Discipline, OneSkuInv, [Next]_vars, NEW s \in Sessions
    PROVE  StyleNextOrGone(s)'
<1>0. TypesKept /\ StyleNextOrGone(s) /\ StylesUsed \subseteq StylesUsed'
  BY Grows DEF OneSkuInv
<1>1. CASE sessions'[s] = sessions[s]
  <2>1. CASE UNCHANGED <<StylesUsed, NextStyle>>
    BY <1>0, <1>1, <2>1 DEF StyleNextOrGone, Generating
  <2>2. ASSUME NEW r \in Sessions, Commit(r), sessions[r].match = 0 PROVE StyleNextOrGone(s)'
    <3>1. CASE s = r
      BY <1>0, <2>2, <3>1, IdleSession DEF StyleNextOrGone, Generating, Idle
    <3>2. CASE s # r
      BY <1>1, <2>2, <3>2, CommitTakesStyle DEF StyleNextOrGone, Generating
    <3> QED BY <3>1, <3>2
  <2> QED BY <2>1, <2>2, NoNewSku
<1>2. CASE sessions'[s] = Idle
  BY <1>2 DEF StyleNextOrGone, Generating, Idle
<1>3. ASSUME NEW i \in DOMAIN submissions, NEW typed \in BOOLEAN, NEW style,
             Begin(s, i, style, typed)
      PROVE  StyleNextOrGone(s)'
  <2>1. /\ ~typed => style = NextStyle
        /\ sessions'[s].typed = typed /\ sessions'[s].style = style
        /\ UNCHANGED skus
    BY <1>0, <1>3, BeginSession
  <2>2. UNCHANGED NextStyle
    BY <2>1 DEF NextStyle, StylesUsed
  <2> QED BY <2>1, <2>2 DEF StyleNextOrGone
<1>4. CASE (\E k \in {0} \cup DOMAIN skus : FindMatch(s, k)) \/ ListLocations(s)
  <2>1. /\ sessions'[s].typed = sessions[s].typed /\ sessions'[s].style = sessions[s].style
        /\ Generating(s)
        /\ UNCHANGED skus
    BY <1>0, <1>4, FindMatchSession, ListLocationsSession DEF Generating
  <2>2. UNCHANGED <<NextStyle, StylesUsed>>
    BY <2>1 DEF NextStyle, StylesUsed
  <2> QED BY <1>0, <2>1, <2>2 DEF StyleNextOrGone
<1> QED BY <1>0, <1>1, <1>2, <1>3, <1>4, SessionChange

LEMMA NotFoundKept ==
    ASSUME "codes" \in Discipline, OneSkuInv, [Next]_vars, NEW s \in Sessions
    PROVE  NotFoundOrGone(s)'
<1>0. TypesKept /\ NotFoundOrGone(s)
  BY DEF OneSkuInv
<1>1. CASE sessions'[s] = sessions[s]
  <2>1. CASE UNCHANGED <<skus, StylesUsed>>
    BY <1>0, <1>1, <2>1 DEF NotFoundOrGone
  <2>2. ASSUME NEW r \in Sessions, Commit(r), sessions[r].match = 0 PROVE NotFoundOrGone(s)'
    <3>1. CASE s = r
      BY <1>0, <2>2, <3>1, IdleSession DEF NotFoundOrGone, Idle
    <3>2. CASE s # r
      BY <1>1, <2>2, <3>2, CommitTakesStyle DEF NotFoundOrGone, Generating
    <3> QED BY <3>1, <3>2
  <2> QED BY <2>1, <2>2, NoNewSku
<1>2. CASE sessions'[s] = Idle
  BY <1>2 DEF NotFoundOrGone, Idle
<1>3. ASSUME NEW i \in DOMAIN submissions, NEW typed \in BOOLEAN, NEW style,
             Begin(s, i, style, typed)
      PROVE  NotFoundOrGone(s)'
  BY <1>0, <1>3, BeginSession DEF NotFoundOrGone
<1>4. ASSUME NEW k \in {0} \cup DOMAIN skus, FindMatch(s, k) PROVE NotFoundOrGone(s)'
  <2> DEFINE me == sessions[s]
  <2>1. /\ k \in Matches(me.product, submissions[me.submission].vendor)
        /\ UNCHANGED skus
        /\ sessions'[s].match = k /\ sessions'[s].product = me.product
    BY <1>0, <1>4, FindMatchSession
  <2>2. k = 0 => \A j \in DOMAIN skus : skus[j].product # me.product
    <3>1. 0 \notin DOMAIN skus
      BY <1>0, Lengths DEF TypesKept
    <3> QED BY <2>1, <3>1 DEF Matches, Matching
  <2> QED BY <2>1, <2>2 DEF NotFoundOrGone
<1>5. CASE ListLocations(s)
  <2>1. /\ sessions[s].pc = "listing"
        /\ UNCHANGED skus
        /\ sessions'[s].match = sessions[s].match /\ sessions'[s].product = sessions[s].product
        /\ sessions'[s].style = sessions[s].style
    BY <1>0, <1>5, ListLocationsSession
  <2> QED BY <1>0, <2>1 DEF NotFoundOrGone, StylesUsed
<1> QED BY <1>0, <1>1, <1>2, <1>3, <1>4, <1>5, SessionChange

LEMMA OneSkuKept ==
    ASSUME OneSkuInv, [Next]_vars PROVE OneSkuPerProduct'
<1>1. CASE UNCHANGED skus
  BY <1>1 DEF OneSkuInv, OneSkuPerProduct
<1>2. ASSUME NEW r \in Sessions, Commit(r), sessions[r].match = 0 PROVE OneSkuPerProduct'
  <2> DEFINE n == Len(skus) + 1
  <2>1. /\ DOMAIN skus' = DOMAIN skus \cup {n}
        /\ \A k \in DOMAIN skus : skus'[k] = skus[k]
        /\ skus'[n] = [style |-> sessions[r].style, product |-> sessions[r].product]
        /\ sessions[r].style \notin StylesUsed
    <3>1. TypesKept
      BY DEF OneSkuInv
    <3> QED BY <1>2, <3>1, CommitSkus
  <2>2. \A k \in DOMAIN skus : skus[k].product # sessions[r].product
    BY <1>2, <2>1 DEF OneSkuInv, NotFoundOrGone, Commit
  <2> HIDE DEF n
  <2> QED BY <2>1, <2>2 DEF OneSkuInv, OneSkuPerProduct
<1> QED BY <1>1, <1>2, NoNewSku

\* A product has one SKU (find_matching_variant says that two submissions of a product
\* become one SKU), whatever handlers run at once, as long as style codes are not typed in
\* meanwhile: unique style codes and the order of generate_sku's reads see to it.
THEOREM OneSku ==
    ASSUME "codes" \in Discipline PROVE Spec => []OneSkuPerProduct
<1>1. Init => OneSkuInv
  <2> SUFFICES ASSUME Init PROVE OneSkuInv
    OBVIOUS
  <2>1. TypesKept
    BY TypesInitially
  <2>2. \A s \in Sessions : sessions[s] = Idle
    BY DEF Init
  <2>3. OneSkuPerProduct
    BY DEF Init, OneSkuPerProduct
  <2> QED BY <2>1, <2>2, <2>3
        DEF OneSkuInv, TypedAlone, StyleNextOrGone, NotFoundOrGone, Generating, Idle
<1>2. OneSkuInv /\ [Next]_vars => OneSkuInv'
  <2> SUFFICES ASSUME OneSkuInv, [Next]_vars PROVE OneSkuInv'
    OBVIOUS
  <2>1. TypesKept'
    BY TypesInductive DEF OneSkuInv
  <2> QED BY <2>1, TypedAloneKept, StyleKept, NotFoundKept, OneSkuKept DEF OneSkuInv
<1>3. OneSkuInv => OneSkuPerProduct
  BY DEF OneSkuInv
<1> QED BY <1>1, <1>2, <1>3, PTL DEF Spec

-----------------------------------------------------------------------------
(* A submission and its SKU describe the same product                      *)

Described(i) ==
    submissions[i].status = "SKU Assigned" =>
        /\ submissions[i].variant \in DOMAIN skus
        /\ skus[submissions[i].variant].product = submissions[i].product
        /\ <<submissions[i].variant, submissions[i].vendor>> \in suppliers

\* The product a session read is still the submission's.
ProductStill(s) ==
    Generating(s) => submissions[sessions[s].submission].product = sessions[s].product

AssignedInv ==
    /\ TypesKept
    /\ \A s \in Sessions : FoundStill(s) /\ ProductStill(s)
    /\ AssignedMatches

LEMMA ProductKept ==
    ASSUME "edit" \in Discipline, AssignedInv, [Next]_vars, NEW s \in Sessions
    PROVE  ProductStill(s)'
<1>0. TypesKept /\ RowsTyped /\ NamesRows(s) /\ ProductStill(s)
  BY DEF AssignedInv, TypesKept
<1>1. CASE sessions'[s] = sessions[s] /\ Generating(s)
  <2> DEFINE i == sessions[s].submission
  <2>0. i \in DOMAIN submissions
    BY <1>0, <1>1 DEF NamesRows
  <2>1. submissions'[i].product = submissions[i].product
    <3>1. CASE \E v \in Vendors, p \in Products : Submit(v, p)
      <4> PICK v \in Vendors, p \in Products : Submit(v, p)
        BY <3>1
      <4> QED BY <1>0, <2>0, SubmissionAdded
    <3>2. CASE \E j \in DOMAIN submissions, p \in Products : EditSubmission(j, p)
      <4> PICK j \in DOMAIN submissions, p \in Products : EditSubmission(j, p)
        BY <3>2
      <4>1. j # i
        BY <1>1 DEF EditSubmission
      <4> QED BY <2>0, <4>1 DEF EditSubmission
    <3>3. CASE \E r \in Sessions : Commit(r)
      BY <1>0, <2>0, <3>3, CommitSubmission
    <3> QED BY <3>1, <3>2, <3>3, SubmissionsStep
  <2> QED BY <1>0, <1>1, <2>1 DEF ProductStill
<1>2. CASE ~Generating(s)'
  BY <1>2 DEF ProductStill, Generating
<1>3. ASSUME NEW i \in DOMAIN submissions, NEW typed \in BOOLEAN, NEW style,
             Begin(s, i, style, typed)
      PROVE  ProductStill(s)'
  <2>1. /\ UNCHANGED submissions
        /\ sessions'[s].submission = i /\ sessions'[s].product = submissions[i].product
    BY <1>0, <1>3, BeginSession
  <2> QED BY <2>1 DEF ProductStill
<1>4. CASE (\E k \in {0} \cup DOMAIN skus : FindMatch(s, k)) \/ ListLocations(s)
  <2>1. /\ UNCHANGED submissions
        /\ sessions'[s].submission = sessions[s].submission
        /\ sessions'[s].product = sessions[s].product
        /\ Generating(s)
    BY <1>0, <1>4, FindMatchSession, ListLocationsSession DEF Generating
  <2> QED BY <1>0, <2>1 DEF ProductStill
<1>5. CASE sessions'[s] = Idle \/ (sessions'[s] = sessions[s] /\ ~Generating(s))
  <2>1. ~Generating(s)'
    BY <1>5 DEF Generating, Idle
  <2> QED BY <1>2, <2>1
<1>6. \/ sessions'[s] = sessions[s]
      \/ sessions'[s] = Idle
      \/ \E i \in DOMAIN submissions, typed \in BOOLEAN : \E style : Begin(s, i, style, typed)
      \/ (\E k \in {0} \cup DOMAIN skus : FindMatch(s, k)) \/ ListLocations(s)
  BY <1>0, SessionChange
<1> QED BY <1>1, <1>3, <1>4, <1>5, <1>6

LEMMA DescribedKept ==
    ASSUME "edit" \in Discipline, AssignedInv, [Next]_vars PROVE AssignedMatches'
<1>0. /\ TypesKept /\ RowsTyped
      /\ \A i \in DOMAIN submissions : Described(i)
      /\ DOMAIN skus \subseteq DOMAIN skus'
      /\ \A k \in DOMAIN skus : skus'[k] = skus[k]
      /\ suppliers \subseteq suppliers'
  BY Grows DEF AssignedInv, TypesKept, AssignedMatches, Described
<1>1. ASSUME NEW i \in DOMAIN submissions, submissions'[i] = submissions[i] PROVE Described(i)'
  BY <1>0, <1>1 DEF Described
<1>2. CASE UNCHANGED submissions
  BY <1>1, <1>2 DEF AssignedMatches, Described
<1>3. CASE \E v \in Vendors, p \in Products : Submit(v, p)
  <2> PICK v \in Vendors, p \in Products : Submit(v, p)
    BY <1>3
  <2> PICK n : n = Len(submissions) + 1
    OBVIOUS
  <2>1. /\ DOMAIN submissions' = DOMAIN submissions \cup {n}
        /\ submissions'[n].status = "Submitted"
        /\ \A i \in DOMAIN submissions : submissions'[i] = submissions[i]
    BY <1>0, SubmissionAdded
  <2>2. Described(n)'
    BY <2>1 DEF Described
  <2>3. \A i \in DOMAIN submissions' : Described(i)'
    BY <1>1, <2>1, <2>2
  <2> QED BY <2>3 DEF AssignedMatches, Described
<1>4. CASE \E j \in DOMAIN submissions, p \in Products : EditSubmission(j, p)
  <2> PICK j \in DOMAIN submissions, p \in Products : EditSubmission(j, p)
    BY <1>4
  <2>1. /\ submissions[j].status = "Submitted"
        /\ submissions' = [submissions EXCEPT ![j].product = p]
    BY DEF EditSubmission
  <2>2. submissions[j] \in Submission
    BY <1>0, Lengths
  <2>3. /\ DOMAIN submissions' = DOMAIN submissions
        /\ submissions'[j].status = "Submitted"
        /\ \A i \in DOMAIN submissions : i # j => submissions'[i] = submissions[i]
    BY <2>1, <2>2 DEF Submission
  <2>4. \A i \in DOMAIN submissions : Described(i)'
    BY <1>1, <2>3 DEF Described
  <2> QED BY <2>3, <2>4 DEF AssignedMatches, Described
<1>5. ASSUME NEW s \in Sessions, Commit(s) PROVE AssignedMatches'
  <2> DEFINE me == sessions[s]
  <2> PICK i, v : i = me.submission /\ v = submissions[i].vendor
    OBVIOUS
  <2>1. /\ i \in DOMAIN submissions
        /\ DOMAIN submissions' = DOMAIN submissions
        /\ submissions'[i].variant = Variant(me)
        /\ submissions'[i].product = submissions[i].product
        /\ submissions'[i].vendor = v
        /\ \A j \in DOMAIN submissions : j # i => submissions'[j] = submissions[j]
    BY <1>0, <1>5, CommitSubmission
  <2>2. Generating(s) /\ submissions[i].product = me.product
    BY <1>5 DEF AssignedInv, ProductStill, Commit, Generating
  <2>3. Variant(me) \in DOMAIN skus' /\ skus'[Variant(me)].product = me.product
    <3>1. CASE me.match = 0
      <4>1. /\ Variant(me) = Len(skus) + 1 /\ Variant(me) \in DOMAIN skus'
            /\ skus'[Len(skus) + 1] = [style |-> me.style, product |-> me.product]
        BY <1>0, <1>5, <3>1, CommitSkus
      <4> QED BY <4>1
    <3>2. CASE me.match # 0
      <4>1. Variant(me) = me.match /\ UNCHANGED skus /\ Variant(me) \in DOMAIN skus'
        BY <1>0, <1>5, <3>2, CommitSkus
      <4>2. skus[me.match].product = me.product
        BY <3>2 DEF AssignedInv, FoundStill
      <4> QED BY <4>1, <4>2
    <3> QED BY <3>1, <3>2
  <2>4. <<Variant(me), v>> \in suppliers'
    <3>1. suppliers' = suppliers \cup NewSupplier(me, v)
      BY <1>5 DEF Commit
    <3>2. CASE me.linked
      <4>1. <<me.match, v>> \in suppliers
        BY <3>2 DEF AssignedInv, FoundStill
      <4>2. me.match # 0
        BY <1>0, <4>1, Lengths DEF RowsTyped
      <4> QED BY <3>1, <4>1, <4>2 DEF Variant
    <3>3. CASE ~me.linked
      BY <3>1, <3>3 DEF NewSupplier
    <3> QED BY <3>2, <3>3
  <2>5. Described(i)'
    BY <2>1, <2>2, <2>3, <2>4 DEF Described
  <2>6. \A j \in DOMAIN submissions' : Described(j)'
    BY <1>1, <2>1, <2>5
  <2> QED BY <2>6 DEF AssignedMatches, Described
<1> QED BY <1>2, <1>3, <1>4, <1>5, SubmissionsStep

\* A submission that was assigned a SKU is described by it and its vendor supplies it,
\* whether generate_sku made the SKU or found it, as long as vendors do not rewrite a
\* submission from then on (update asks for no status).
THEOREM AssignmentsHold ==
    ASSUME "edit" \in Discipline PROVE Spec => []AssignedMatches
<1>1. Init => AssignedInv
  <2> SUFFICES ASSUME Init PROVE AssignedInv
    OBVIOUS
  <2>1. TypesKept
    BY TypesInitially
  <2>2. \A s \in Sessions : sessions[s] = Idle
    BY DEF Init
  <2>3. AssignedMatches
    <3>1. DOMAIN submissions = {}
      BY EmptySeq DEF Init
    <3> QED BY <3>1 DEF AssignedMatches
  <2> QED BY <2>1, <2>2, <2>3 DEF AssignedInv, FoundStill, ProductStill, Generating, Idle
<1>2. AssignedInv /\ [Next]_vars => AssignedInv'
  <2> SUFFICES ASSUME AssignedInv, [Next]_vars PROVE AssignedInv'
    OBVIOUS
  <2>1. TypesKept'
    BY TypesInductive DEF AssignedInv
  <2>2. \A s \in Sessions : FoundStill(s)'
    BY FoundKept DEF AssignedInv
  <2> QED BY <2>1, <2>2, ProductKept, DescribedKept DEF AssignedInv
<1>3. AssignedInv => AssignedMatches
  BY DEF AssignedInv
<1> QED BY <1>1, <1>2, <1>3, PTL DEF Spec

-----------------------------------------------------------------------------
(* Every active warehouse and store has a row for the variant              *)

Accounted(s) ==
    sessions[s].pc = "committing" =>
        \A l \in Locations :
            locations[l] = "Active" =>
                \/ l \in sessions[s].missing
                \/ sessions[s].match # 0 /\ <<l, sessions[s].match>> \in stocked

ShownInv == TypesKept /\ \A s \in Sessions : Accounted(s)

LEMMA AccountedKept ==
    ASSUME "open" \in Discipline, ShownInv, [Next]_vars, NEW s \in Sessions
    PROVE  Accounted(s)'
<1>0. TypesKept /\ RowsTyped /\ Accounted(s) /\ stocked \subseteq stocked'
  BY Grows DEF ShownInv, TypesKept
<1>1. CASE sessions'[s] = sessions[s] /\ Generating(s)
  <2>1. \A l \in Locations : locations'[l] = "Active" => locations[l] = "Active"
    <3>1. \A l \in Locations : ~Activate(l)
      BY <1>1 DEF Activate, NobodyGenerates
    <3> QED BY <1>0, <3>1, LocationsStep DEF Block, RowsTyped
  <2> QED BY <1>0, <1>1, <2>1 DEF Accounted
<1>2. CASE sessions'[s] = Idle \/ (sessions'[s] = sessions[s] /\ ~Generating(s))
  BY <1>2 DEF Accounted, Generating, Idle
<1>3. ASSUME NEW i \in DOMAIN submissions, NEW typed \in BOOLEAN, NEW style,
             Begin(s, i, style, typed)
      PROVE  Accounted(s)'
  BY <1>0, <1>3, BeginSession DEF Accounted
<1>4. ASSUME NEW k \in {0} \cup DOMAIN skus, FindMatch(s, k) PROVE Accounted(s)'
  BY <1>0, <1>4, FindMatchSession DEF Accounted
<1>5. CASE ListLocations(s)
  <2> DEFINE me == sessions[s]
  <2>1. /\ UNCHANGED <<locations, stocked>>
        /\ sessions'[s].missing = Missing(Variant(me)) /\ sessions'[s].match = me.match
    BY <1>0, <1>5, ListLocationsSession
  <2>2. ASSUME NEW l \in Locations, locations[l] = "Active", l \notin Missing(Variant(me))
        PROVE  me.match # 0 /\ <<l, me.match>> \in stocked
    <3>1. <<l, Variant(me)>> \in stocked
      BY <2>2 DEF Missing
    <3>2. Variant(me) \in DOMAIN skus
      BY <1>0, <3>1 DEF RowsTyped
    <3>3. Variant(me) # Len(skus) + 1
      BY <1>0, <3>2, Lengths
    <3> QED BY <3>1, <3>3 DEF Variant
  <2> QED BY <2>1, <2>2 DEF Accounted
<1>6. \/ sessions'[s] = sessions[s]
      \/ sessions'[s] = Idle
      \/ \E i \in DOMAIN submissions, typed \in BOOLEAN : \E style : Begin(s, i, style, typed)
      \/ \E k \in {0} \cup DOMAIN skus : FindMatch(s, k)
      \/ ListLocations(s)
  BY <1>0, SessionChange
<1> QED BY <1>1, <1>2, <1>3, <1>4, <1>5, <1>6

\* When generate_sku assigns a variant every active location has a row for it
\* (_ensure_stock_rows_everywhere), as long as none becomes active meanwhile.
THEOREM ShownWhenAssigned ==
    ASSUME "open" \in Discipline PROVE Spec => ShownEverywhere
<1>1. Init => ShownInv
  <2> SUFFICES ASSUME Init PROVE ShownInv
    OBVIOUS
  <2> QED BY TypesInitially DEF Init, ShownInv, Accounted, Idle
<1>2. ShownInv /\ [Next]_vars => ShownInv'
  BY TypesInductive, AccountedKept DEF ShownInv
<1>3. ShownInv /\ [Next]_vars =>
        [\A i \in DOMAIN submissions :
             submissions'[i].variant # submissions[i].variant =>
                 \A l \in Locations :
                     locations'[l] = "Active" => <<l, submissions'[i].variant>> \in stocked']_vars
  <2> SUFFICES ASSUME ShownInv, [Next]_vars, NEW i \in DOMAIN submissions,
                      submissions'[i].variant # submissions[i].variant,
                      NEW l \in Locations, locations'[l] = "Active"
               PROVE  <<l, submissions'[i].variant>> \in stocked'
    OBVIOUS
  <2>0. TypesKept /\ RowsTyped
    BY DEF ShownInv, TypesKept
  <2>1. ~(\E v \in Vendors, p \in Products : Submit(v, p))
    BY <2>0, SubmissionAdded
  <2>2. ~(\E j \in DOMAIN submissions, p \in Products : EditSubmission(j, p))
    <3> SUFFICES ASSUME NEW j \in DOMAIN submissions, NEW p \in Products, EditSubmission(j, p)
                 PROVE  FALSE
      OBVIOUS
    <3>1. submissions[j] \in Submission
      BY <2>0, Lengths
    <3>2. submissions'[i].variant = submissions[i].variant
      BY <3>1 DEF EditSubmission, Submission
    <3> QED BY <3>2
  <2>3. PICK s \in Sessions : Commit(s)
    BY <2>1, <2>2, SubmissionsStep
  <2>4. submissions'[i].variant = Variant(sessions[s])
    BY <2>0, <2>3, CommitSubmission
  <2>5. /\ sessions[s].pc = "committing"
        /\ UNCHANGED locations
        /\ stocked' = stocked \cup {<<m, Variant(sessions[s])>> : m \in sessions[s].missing}
    BY <2>3 DEF Commit
  <2>6. \/ l \in sessions[s].missing
        \/ sessions[s].match # 0 /\ <<l, sessions[s].match>> \in stocked
    BY <2>5 DEF ShownInv, Accounted
  <2> QED BY <2>4, <2>5, <2>6 DEF Variant
<1> QED BY <1>1, <1>2, <1>3, PTL DEF Spec, ShownEverywhere
=============================================================================
