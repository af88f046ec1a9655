--------------------------------- MODULE Store ---------------------------------
(***************************************************************************)
(* One store taking in one variant: transfer orders on their way to it,    *)
(* the lines it counts, the shelf and the returns it sends back            *)
(* (app/services/retail/receiving_service.py), with what the warehouse     *)
(* does to the same orders meanwhile                                       *)
(* (app/services/warehouse/transfer_order_service.py).                     *)
(*                                                                         *)
(* The store's handlers interleave: each reads a line, its order, the      *)
(* shelf and the next reference code, then writes the columns it changed,  *)
(* as absolute values.  Writing and committing is one step, for what is    *)
(* not committed is seen by no one.  The warehouse's handlers read only    *)
(* the order they overwrite and are one step: one that writes the status   *)
(* it read leaves the column alone, as if it had run when it read it.      *)
(***************************************************************************)
EXTENDS Ledgers, Sequences

CONSTANTS
    Sessions,
    Orders,        \* transfer orders to the store
    Expected,      \* quantities a line may be for
    Updates,       \* the statuses update_status is called with
    Discipline,    \* what clients are assumed to do although no handler checks it
    MaxLines, MaxReturns   \* bounds

(* "settle"    a line is settled once, by one session: counted "Good", or     *)
(*             counted otherwise and then given up in part, of what was      *)
(*             received.                                                     *)
Disciplines == {"settle"}

Statuses == {"Pending", "Dispatched", "Delivered", "Completed"}

ASSUME StoreAssumption ==
    /\ Orders # {}
    /\ Expected \subseteq Nat
    /\ Updates \subseteq Statuses
    /\ Discipline \subseteq Disciplines
    /\ {MaxLines, MaxReturns} \subseteq Nat

VARIABLES
    lines,       \* receiving_items
    orders,      \* transfer_orders.status
    shelf,       \* store_inventory.quantity, or NoRow
    returns,     \* store_returns
    sessions,    \* what the receiving handler in each session has in memory
    byWarehouse  \* history: the orders the warehouse last made, or unmade, Delivered

vars == <<lines, orders, shelf, returns, sessions, byWarehouse>>

-----------------------------------------------------------------------------
(* Rows *)

NoRow == -1
Decisions == {"replenish", "writeoff"}

Line == [order : Orders, expected : Nat, received : Nat,
         condition : {"none", "Good", "Missing/Defective"},
         status : {"Pending", "Verified", "Return Requested", "Written Off"},
         issued : Nat, decision : Decisions \cup {"none"}, ret : Nat]

NewLine(o, q) == [order |-> o, expected |-> q, received |-> 0, condition |-> "none",
                  status |-> "Pending", issued |-> 0, decision |-> "none", ret |-> 0]

\* op: record_count or raise_issue; old: the line as loaded; new: what the handler makes of
\* it; marks: whether it found the order to be made Delivered; added: what goes to the shelf;
\* seen: the shelf as read; code: that of the return.
Session == [pc : {"idle", "loaded", "marked", "seen", "drawn", "linking", "dead"},
            op : {"count", "issue"}, line : Nat, old : Line, new : Line, marks : BOOLEAN,
            added : Int, seen : Nat \cup {NoRow}, code : Nat]

SomeLine == NewLine(CHOOSE o \in Orders : TRUE, 0)
Free == [pc |-> "idle", op |-> "count", line |-> 0, old |-> SomeLine, new |-> SomeLine,
         marks |-> FALSE, added |-> 0, seen |-> 0, code |-> 0]

\* A column is written when its value is another than the one loaded.
Column(loaded, new, current) == IF new = loaded THEN current ELSE new

Written(loaded, new, current) ==
    [order     |-> current.order,
     expected  |-> current.expected,
     received  |-> Column(loaded.received, new.received, current.received),
     condition |-> Column(loaded.condition, new.condition, current.condition),
     status    |-> Column(loaded.status, new.status, current.status),
     issued    |-> Column(loaded.issued, new.issued, current.issued),
     decision  |-> Column(loaded.decision, new.decision, current.decision),
     ret       |-> current.ret]

\* record_count: a line that is not "Good" keeps its status.
Counted(row, n, condition) ==
    [row EXCEPT !.received = n, !.condition = condition,
                !.status = IF condition = "Good" THEN "Verified" ELSE @]

\* raise_issue
Issued(row, q, decision) ==
    [row EXCEPT !.issued = q, !.decision = decision,
                !.status = IF decision = "replenish" THEN "Return Requested" ELSE "Written Off"]

AllReceived(row, q) == row.received

ReturnOfAll(row) == [qty |-> row.received, decision |-> row.decision]
NewReturn(row) == [qty |-> row.issued, decision |-> row.decision]

\* What is left of a line after an issue; _increase_store_stock adds nothing below 1.
GoodQuantity(row, q) == row.received - q

SettlesByIssue(session) == session.op = "issue"
Settles(session) == session.op = "issue" \/ session.new.condition = "Good"
NextCode == Len(returns) + 1

-----------------------------------------------------------------------------
Init ==
    /\ lines = <<>>
    /\ orders = [o \in Orders |-> "Pending"]
    /\ shelf = NoRow
    /\ returns = <<>>
    /\ sessions = [s \in Sessions |-> Free]
    /\ byWarehouse = {}

Becomes(s, session) == sessions' = [sessions EXCEPT ![s] = session]

Alone(l) == \A s \in Sessions : sessions[s].line # l

-----------------------------------------------------------------------------
(* The warehouse *)

\* The warehouse's handlers write a status whatever the order's is.
WarehouseSets(o, status) ==
    /\ orders' = [orders EXCEPT ![o] = status]
    /\ byWarehouse' = IF (status = "Delivered") # (orders[o] = "Delivered")
                      THEN byWarehouse \cup {o}
                      ELSE byWarehouse

\* dispatch_transfer_order, which calls create_receiving_item and commits with it: an order
\* dispatched again, delivered or not, gets another line.
DispatchTransferOrder(o, q) ==
    /\ Len(lines) < MaxLines
    /\ WarehouseSets(o, "Dispatched")
    /\ lines' = Append(lines, NewLine(o, q))
    /\ UNCHANGED <<shelf, returns, sessions>>

\* update_status refuses "Cancelled" only.
UpdateStatus(o, status) ==
    /\ WarehouseSets(o, status)
    /\ UNCHANGED <<lines, shelf, returns, sessions>>

-----------------------------------------------------------------------------
(* Receiving *)

LoadForCount(s, l, n, condition) ==
    /\ sessions[s].pc = "idle"
    /\ n <= lines[l].expected
    /\ "settle" \in Discipline => Alone(l) /\ lines[l].status = "Pending"
    /\ Becomes(s, [Free EXCEPT !.pc = "loaded", !.line = l, !.old = lines[l],
                               !.new = Counted(lines[l], n, condition),
                               !.added = IF condition = "Good" THEN n ELSE 0])
    /\ UNCHANGED <<lines, orders, shelf, returns, byWarehouse>>

LoadForIssue(s, l, q, decision) ==
    /\ sessions[s].pc = "idle"
    /\ "settle" \in Discipline =>
           /\ Alone(l)
           /\ lines[l].status = "Pending"
           /\ lines[l].condition = "Missing/Defective"
           /\ q <= lines[l].received
    /\ Becomes(s, [Free EXCEPT !.pc = "loaded", !.op = "issue", !.line = l,
                               !.old = lines[l], !.new = Issued(lines[l], q, decision),
                               !.added = GoodQuantity(lines[l], q)])
    /\ UNCHANGED <<lines, orders, shelf, returns, byWarehouse>>

\* _mark_delivered writes only to an order it does not find Delivered; a count that is not
\* "Good" does not call it.
ReadOrder(s) ==
    /\ sessions[s].pc = "loaded"
    /\ Becomes(s, [sessions[s] EXCEPT !.pc = "marked",
                       !.marks = Settles(sessions[s]) /\ orders[sessions[s].old.order] # "Delivered"])
    /\ UNCHANGED <<lines, orders, shelf, returns, byWarehouse>>

\* _increase_store_stock looks for the row of the store and the variant.
ReadShelf(s) ==
    /\ sessions[s].pc = "marked"
    /\ Becomes(s, [sessions[s] EXCEPT !.pc = "seen", !.seen = shelf])
    /\ UNCHANGED <<lines, orders, shelf, returns, byWarehouse>>

\* create_store_return draws the next code.
DrawCode(s) ==
    /\ sessions[s].pc = "seen"
    /\ sessions[s].op = "issue"
    /\ Becomes(s, [sessions[s] EXCEPT !.pc = "drawn", !.code = NextCode])
    /\ UNCHANGED <<lines, orders, shelf, returns, byWarehouse>>

\* A row inserted twice, or a code used twice, is refused.
Refused(session) ==
    \/ session.added > 0 /\ session.seen = NoRow /\ shelf # NoRow
    \/ session.op = "issue" /\ session.code # NextCode

Ready(session) == session.pc = (IF session.op = "issue" THEN "drawn" ELSE "seen")

Abort(s) ==
    /\ Ready(sessions[s])
    /\ Refused(sessions[s])
    /\ Becomes(s, Free)
    /\ UNCHANGED <<lines, orders, shelf, returns, byWarehouse>>

IncreaseStoreStock(session) ==
    shelf' = IF session.added <= 0 THEN shelf
             ELSE (IF session.seen = NoRow THEN 0 ELSE session.seen) + session.added

\* The commit of record_count, or the one in create_store_return.
Commit(s) ==
    LET me == sessions[s]
    IN  /\ Ready(me)
        /\ ~Refused(me)
        /\ me.op = "issue" => Len(returns) < MaxReturns
        /\ lines' = [lines EXCEPT ![me.line] = Written(me.old, me.new, @)]
        /\ IF me.marks
           THEN /\ orders' = [orders EXCEPT ![me.old.order] = "Delivered"]
                /\ byWarehouse' = byWarehouse \ {me.old.order}
           ELSE UNCHANGED <<orders, byWarehouse>>
        /\ IncreaseStoreStock(me)
        /\ IF me.op = "issue"
           THEN /\ returns' = Append(returns, NewReturn(me.new))
                /\ Becomes(s, [me EXCEPT !.pc = "linking"])
           ELSE /\ Becomes(s, Free)
                /\ UNCHANGED returns

LinkNone(s) ==
    /\ sessions[s].pc = "linking"
    /\ Becomes(s, Free)
    /\ UNCHANGED <<lines, orders, shelf, returns, byWarehouse>>

\* The second commit of raise_issue.
LinkReturn(s) ==
    /\ sessions[s].pc = "linking"
    /\ lines' = [lines EXCEPT ![sessions[s].line].ret = sessions[s].code]
    /\ Becomes(s, Free)
    /\ UNCHANGED <<orders, shelf, returns, byWarehouse>>

\* The process dies: the session is gone, with what it has not committed.
Crash(s) ==
    /\ sessions[s].pc \notin {"idle", "dead"}
    /\ Becomes(s, [Free EXCEPT !.pc = "dead"])
    /\ UNCHANGED <<lines, orders, shelf, returns, byWarehouse>>

-----------------------------------------------------------------------------
Quantities == UNION {0..q : q \in Expected}

Proceed(s) ==
    ReadOrder(s) \/ ReadShelf(s) \/ DrawCode(s) \/ Abort(s) \/ Commit(s) \/ LinkReturn(s)

Next ==
    \/ \E o \in Orders, q \in Expected : DispatchTransferOrder(o, q)
    \/ \E o \in Orders, status \in Updates : UpdateStatus(o, status)
    \/ \E s \in Sessions, l \in DOMAIN lines, n \in Quantities :
          \/ \E condition \in {"Good", "Missing/Defective"} : LoadForCount(s, l, n, condition)
          \/ \E decision \in Decisions : LoadForIssue(s, l, n, decision)
    \/ \E s \in Sessions : Proceed(s) \/ Crash(s)

Spec == Init /\ [][Next]_vars

-----------------------------------------------------------------------------
(* Properties *)

\* Rows have their types, and what a handler works on exists.
TypeOK ==
    /\ lines \in Seq(Line)
    /\ orders \in [Orders -> Statuses]
    /\ shelf \in Nat \cup {NoRow}
    /\ returns \in Seq([qty : Nat, decision : Decisions])
    /\ sessions \in [Sessions -> Session]
    /\ byWarehouse \subseteq Orders
    /\ \A s \in Sessions :
          sessions[s].pc \notin {"idle", "dead"} => sessions[s].line \in DOMAIN lines

\* The orders the store settled a line of.
SettledOrders == {lines[l].order : l \in {k \in DOMAIN lines : lines[k].status # "Pending"}}

\* A transfer order is Delivered exactly when the store settled a line of it, unless the
\* warehouse had the last word on that (it dispatched a delivered order again, or set a
\* status by hand): handlers that decide to mark it, or not to, on an older reading of its
\* status and are cut off or commit much later leave no order behind.
DeliveredWhenSettled ==
    \A o \in Orders \ byWarehouse : orders[o] = "Delivered" <=> o \in SettledOrders

\* The return a line names is for the quantity and the decision on that line, and for no
\* other line.
ReturnOfLine ==
    \A l \in DOMAIN lines :
        LET r == lines[l].ret
        IN  r # 0 =>
                /\ r \in DOMAIN returns
                /\ returns[r].qty = lines[l].issued
                /\ returns[r].decision = lines[l].decision
                /\ \A k \in DOMAIN lines : lines[k].ret = r => k = l

\* A return no line names is about to be named by its session, unless the process died
\* between the two commits of raise_issue.
NoReturnLost ==
    \A r \in DOMAIN returns :
        \/ \E l \in DOMAIN lines : lines[l].ret = r
        \/ \E s \in Sessions : sessions[s].pc = "linking" /\ sessions[s].code = r
        \/ \E s \in Sessions : sessions[s].pc = "dead"

\* What the store kept of each line, once it is settled.
Kept == [l \in DOMAIN lines |->
            IF lines[l].status = "Pending" THEN 0 ELSE lines[l].received - lines[l].issued]

\* The shelf never holds more than was received and kept: two counts at once can lose
\* units (_increase_store_stock writes the sum of an older reading), never invent them,
\* and neither does a cut between the commits of raise_issue.
ShelfBacked == shelf <= Tally(Kept)
=============================================================================
