------------------------------ MODULE StoreProofs ------------------------------
(***************************************************************************)
(* Theorems about Store, for every value of its constants.                 *)
(***************************************************************************)
EXTENDS Store, Tables

-----------------------------------------------------------------------------
(* What a step does to each table: the actions that write it *)

\* A handler loads a line and makes up its mind.
Loads(s, l) ==
    \/ \E n \in Quantities, condition \in {"Good", "Missing/Defective"} :
          LoadForCount(s, l, n, condition)
    \/ \E q \in Quantities, decision \in Decisions : LoadForIssue(s, l, q, decision)

LEMMA EachStep ==
    [Next]_vars =>
        \/ UNCHANGED vars
        \/ \E o \in Orders, q \in Expected : DispatchTransferOrder(o, q)
        \/ \E o \in Orders, status \in Updates : UpdateStatus(o, status)
        \/ \E s \in Sessions : \E l \in DOMAIN lines : Loads(s, l)
        \/ \E s \in Sessions : Proceed(s) \/ Crash(s)
BY DEF Next, Loads

-----------------------------------------------------------------------------
(* Types *)

Return == [qty : Nat, decision : Decisions]

Active(s) == sessions[s].pc \notin {"idle", "dead"}

LEMMA QuantitiesNat == Quantities \subseteq Nat
BY StoreAssumption DEF Quantities

LEMMA OneMore == ASSUME NEW n \in Nat PROVE 1..(n + 1) = (1..n) \cup {n + 1}
OBVIOUS

LEMMA NewLineTyped ==
    ASSUME NEW o \in Orders, NEW q \in Nat
    PROVE  /\ NewLine(o, q) \in Line
           /\ NewLine(o, q).status = "Pending"
           /\ NewLine(o, q).ret = 0
           /\ NewLine(o, q).order = o
BY DEF NewLine, Line

LEMMA FreeTyped == SomeLine \in Line /\ Free \in Session
<1>1. (CHOOSE o \in Orders : TRUE) \in Orders
  BY StoreAssumption
<1>2. SomeLine \in Line
  BY <1>1, NewLineTyped DEF SomeLine
<1> QED BY <1>2 DEF Free, Session

LEMMA CountedTyped ==
    ASSUME NEW row \in Line, NEW n \in Nat, NEW condition \in {"Good", "Missing/Defective"}
    PROVE  /\ Counted(row, n, condition) \in Line
           /\ Counted(row, n, condition).order = row.order
           /\ Counted(row, n, condition).expected = row.expected
           /\ Counted(row, n, condition).ret = row.ret
           /\ Counted(row, n, condition).condition = condition
           /\ Counted(row, n, condition).status =
                 IF condition = "Good" THEN "Verified" ELSE row.status
BY DEF Counted, Line

LEMMA IssuedTyped ==
    ASSUME NEW row \in Line, NEW q \in Nat, NEW decision \in Decisions
    PROVE  /\ Issued(row, q, decision) \in Line
           /\ Issued(row, q, decision).order = row.order
           /\ Issued(row, q, decision).expected = row.expected
           /\ Issued(row, q, decision).ret = row.ret
           /\ Issued(row, q, decision).issued = q
           /\ Issued(row, q, decision).decision = decision
           /\ Issued(row, q, decision).status # "Pending"
BY DEF Issued, Line, Decisions

LEMMA WrittenTyped ==
    ASSUME NEW loaded \in Line, NEW new \in Line, NEW current \in Line
    PROVE  Written(loaded, new, current) \in Line
BY DEF Written, Column, Line

\* A line written back over what was loaded is what the handler made of it.
LEMMA WrittenBack ==
    ASSUME NEW loaded \in Line, NEW new \in Line,
           new.order = loaded.order, new.expected = loaded.expected, new.ret = loaded.ret
    PROVE  Written(loaded, new, loaded) = new
<1>1. new = [order |-> new.order, expected |-> new.expected, received |-> new.received,
             condition |-> new.condition, status |-> new.status, issued |-> new.issued,
             decision |-> new.decision, ret |-> new.ret]
  BY DEF Line
<1>2. Written(loaded, new, loaded) =
        [order |-> new.order, expected |-> new.expected, received |-> new.received,
         condition |-> new.condition, status |-> new.status, issued |-> new.issued,
         decision |-> new.decision, ret |-> new.ret]
  BY DEF Written, Column
<1> QED BY <1>1, <1>2

LEMMA Rows ==
    ASSUME TypeOK
    PROVE  /\ Len(lines) \in Nat /\ DOMAIN lines = 1..Len(lines)
           /\ Len(returns) \in Nat /\ DOMAIN returns = 1..Len(returns)
           /\ \A l \in DOMAIN lines : lines[l] \in Line
           /\ \A r \in DOMAIN returns : returns[r] \in Return
           /\ \A s \in Sessions : sessions[s] \in Session
           /\ \A s \in Sessions : Active(s) => sessions[s].line \in DOMAIN lines
BY LenProperties, ElementOfSeq DEF TypeOK, Return, Active

LEMMA Memory ==
    ASSUME TypeOK, NEW s \in Sessions
    PROVE  /\ sessions[s].new \in Line /\ sessions[s].old \in Line
           /\ sessions[s].code \in Nat /\ sessions[s].added \in Int
           /\ sessions[s].seen \in Nat \cup {NoRow}
BY Rows DEF Session

LEMMA LineCreated ==
    ASSUME TypeOK, NEW o \in Orders, NEW q \in Expected, DispatchTransferOrder(o, q)
    PROVE  /\ lines' \in Seq(Line)
           /\ DOMAIN lines' = 1..(Len(lines) + 1)
           /\ \A l \in DOMAIN lines : lines'[l] = lines[l]
           /\ lines'[Len(lines) + 1] = NewLine(o, q)
<1> DEFINE row == NewLine(o, q)
<1>1. row \in Line
  BY NewLineTyped, StoreAssumption
<1>2. lines' = Append(lines, row)
  BY DEF DispatchTransferOrder
<1>3. lines \in Seq(Line)
  BY DEF TypeOK
<1> HIDE DEF row
<1>4. /\ lines' \in Seq(Line)
      /\ DOMAIN lines' = 1..(Len(lines) + 1)
      /\ \A l \in DOMAIN lines : lines'[l] = lines[l]
      /\ lines'[Len(lines) + 1] = row
  BY <1>1, <1>2, <1>3, RowAdded
<1> QED BY <1>4 DEF row

\* A handler replaces a row.
LEMMA LineReplaced ==
    ASSUME TypeOK, NEW s \in Sessions, Active(s), NEW row \in Line,
           lines' = [lines EXCEPT ![sessions[s].line] = row]
    PROVE  /\ lines' \in Seq(Line)
           /\ DOMAIN lines' = DOMAIN lines
           /\ \A l \in DOMAIN lines :
                lines'[l] = IF l = sessions[s].line THEN row ELSE lines[l]
<1>1. sessions[s].line \in DOMAIN lines
  BY Rows
<1>2. lines \in Seq(Line)
  BY DEF TypeOK
<1> QED BY <1>1, <1>2, RowChanged

LEMMA CommitLine ==
    ASSUME TypeOK, NEW s \in Sessions, Commit(s)
    PROVE  /\ Active(s)
           /\ Written(sessions[s].old, sessions[s].new, lines[sessions[s].line]) \in Line
           /\ lines' = [lines EXCEPT ![sessions[s].line] =
                           Written(sessions[s].old, sessions[s].new, lines[sessions[s].line])]
<1>1. Active(s)
  BY DEF Commit, Ready, Active
<1>2. lines[sessions[s].line] \in Line
  BY <1>1, Rows
<1>3. Written(sessions[s].old, sessions[s].new, lines[sessions[s].line]) \in Line
  BY <1>2, Memory, WrittenTyped
<1> QED BY <1>1, <1>3 DEF Commit

LEMMA LinkLine ==
    ASSUME TypeOK, NEW s \in Sessions, LinkReturn(s)
    PROVE  /\ Active(s)
           /\ [lines[sessions[s].line] EXCEPT !.ret = sessions[s].code] \in Line
           /\ lines' = [lines EXCEPT ![sessions[s].line] =
                           [lines[sessions[s].line] EXCEPT !.ret = sessions[s].code]]
<1>1. Active(s)
  BY DEF LinkReturn, Active
<1>2. lines[sessions[s].line] \in Line
  BY <1>1, Rows
<1>3. sessions[s].code \in Nat
  BY Memory
<1>4. [lines[sessions[s].line] EXCEPT !.ret = sessions[s].code] \in Line
  BY <1>2, <1>3 DEF Line
<1> QED BY <1>1, <1>4 DEF LinkReturn

LEMMA LinesTyped ==
    ASSUME TypeOK, [Next]_vars
    PROVE  lines' \in Seq(Line) /\ DOMAIN lines \subseteq DOMAIN lines'
<1>1. CASE \E o \in Orders, q \in Expected : DispatchTransferOrder(o, q)
  BY <1>1, LineCreated, Rows
<1>2. CASE \E s \in Sessions : Commit(s)
  BY <1>2, CommitLine, LineReplaced
<1>3. CASE \E s \in Sessions : LinkReturn(s)
  BY <1>3, LinkLine, LineReplaced
<1>4. CASE UNCHANGED lines
  BY <1>4 DEF TypeOK
<1> QED BY <1>1, <1>2, <1>3, <1>4, EachStep
        DEF vars, UpdateStatus, Loads, Proceed, LoadForCount, LoadForIssue, ReadOrder, ReadShelf, DrawCode, Abort, Crash

\* The memory of one session changes.
LEMMA BecomesOne ==
    ASSUME TypeOK, NEW s \in Sessions, NEW state, Becomes(s, state)
    PROVE  \A r \in Sessions : sessions'[r] = IF r = s THEN state ELSE sessions[r]
BY DEF Becomes, TypeOK

\* What a session has in memory when it loaded line l.
LoadsAs(s, l, state) ==
    /\ Becomes(s, state)
    /\ UNCHANGED <<lines, orders, shelf, returns, byWarehouse>>
    /\ state.line = l /\ state.pc = "loaded" /\ state.old = lines[l] /\ ~state.marks
    /\ state.new.order = lines[l].order
    /\ state.new.expected = lines[l].expected
    /\ state.new.ret = lines[l].ret
    /\ state.op = "count" =>
          state.new.status = IF state.new.condition = "Good" THEN "Verified" ELSE lines[l].status
    /\ state.op = "issue" => state.new.status # "Pending" /\ state.new.decision \in Decisions

LEMMA LoadedTyped ==
    ASSUME TypeOK, NEW s \in Sessions, NEW l \in DOMAIN lines, Loads(s, l)
    PROVE  \E state \in Session : LoadsAs(s, l, state)
<1>0. lines[l] \in Line /\ l \in Nat
  BY Rows
<1>1. ASSUME NEW n \in Nat, NEW condition \in {"Good", "Missing/Defective"},
             LoadForCount(s, l, n, condition)
      PROVE  \E state \in Session : LoadsAs(s, l, state)
  <2> DEFINE new == Counted(lines[l], n, condition)
             more == IF condition = "Good" THEN n ELSE 0
             state == [Free EXCEPT !.pc = "loaded", !.line = l, !.old = lines[l], !.new = new,
                                   !.added = more]
  <2>1. /\ new \in Line
        /\ new.order = lines[l].order
        /\ new.expected = lines[l].expected
        /\ new.ret = lines[l].ret
        /\ new.condition = condition
        /\ new.status = IF condition = "Good" THEN "Verified" ELSE lines[l].status
    BY <1>0, CountedTyped
  <2>2. more \in Int
    OBVIOUS
  <2>3. Becomes(s, state) /\ UNCHANGED <<lines, orders, shelf, returns, byWarehouse>>
    BY <1>1 DEF LoadForCount
  <2> HIDE DEF new, more
  <2>4. /\ state \in Session /\ state.line = l /\ state.pc = "loaded"
        /\ state.op = "count" /\ state.old = lines[l] /\ state.new = new /\ ~state.marks
    BY <1>0, <2>1, <2>2, FreeTyped DEF Free, Session
  <2> HIDE DEF state
  <2> QED BY <2>1, <2>3, <2>4 DEF LoadsAs
<1>2. ASSUME NEW q \in Nat, NEW decision \in Decisions, LoadForIssue(s, l, q, decision)
      PROVE  \E state \in Session : LoadsAs(s, l, state)
  <2> DEFINE new == Issued(lines[l], q, decision)
             more == GoodQuantity(lines[l], q)
             state == [Free EXCEPT !.pc = "loaded", !.op = "issue", !.line = l, !.old = lines[l],
                                   !.new = new, !.added = more]
  <2>1. /\ new \in Line
        /\ new.order = lines[l].order
        /\ new.expected = lines[l].expected
        /\ new.ret = lines[l].ret
        /\ new.status # "Pending" /\ new.decision \in Decisions
    BY <1>0, IssuedTyped
  <2>2. more \in Int
    <3>1. lines[l].received \in Nat
      BY <1>0 DEF Line
    <3> QED BY <3>1 DEF GoodQuantity
  <2>3. Becomes(s, state) /\ UNCHANGED <<lines, orders, shelf, returns, byWarehouse>>
    BY <1>2 DEF LoadForIssue
  <2> HIDE DEF new, more
  <2>4. /\ state \in Session /\ state.line = l /\ state.pc = "loaded"
        /\ state.op = "issue" /\ state.old = lines[l] /\ state.new = new /\ ~state.marks
    BY <1>0, <2>1, <2>2, FreeTyped DEF Free, Session
  <2> HIDE DEF state
  <2> QED BY <2>1, <2>3, <2>4 DEF LoadsAs
<1> QED BY <1>1, <1>2, QuantitiesNat DEF Loads

\* The other steps of a receiving handler.
Moves(s, state) ==
    /\ Becomes(s, state)
    /\ state.line = sessions[s].line
    /\ state.op = sessions[s].op
    /\ state.old = sessions[s].old
    /\ state.new = sessions[s].new

LEMMA OrderTyped ==
    ASSUME TypeOK, NEW s \in Sessions, ReadOrder(s)
    PROVE  \E state \in Session : Moves(s, state) /\ state.pc = "marked" /\ state.code = sessions[s].code
<1> DEFINE marks == Settles(sessions[s]) /\ orders[sessions[s].old.order] # "Delivered"
           state == [sessions[s] EXCEPT !.pc = "marked", !.marks = marks]
<1>1. sessions[s] \in Session /\ marks \in BOOLEAN
  BY Rows
<1>2. Becomes(s, state)
  BY DEF ReadOrder
<1> HIDE DEF marks
<1>3. /\ state \in Session /\ state.pc = "marked" /\ state.line = sessions[s].line
      /\ state.op = sessions[s].op /\ state.old = sessions[s].old
      /\ state.new = sessions[s].new /\ state.code = sessions[s].code
  BY <1>1 DEF Session
<1> HIDE DEF state
<1> QED BY <1>2, <1>3 DEF Moves

LEMMA ReadTyped ==
    ASSUME TypeOK, NEW s \in Sessions, ReadShelf(s)
    PROVE  \E state \in Session : Moves(s, state) /\ state.pc = "seen" /\ state.code = sessions[s].code
<1> DEFINE state == [sessions[s] EXCEPT !.pc = "seen", !.seen = shelf]
<1>1. sessions[s] \in Session /\ shelf \in Nat \cup {NoRow}
  BY Rows DEF TypeOK
<1>2. /\ state \in Session /\ state.pc = "seen" /\ state.line = sessions[s].line
      /\ state.op = sessions[s].op /\ state.old = sessions[s].old
      /\ state.new = sessions[s].new /\ state.code = sessions[s].code
  BY <1>1 DEF Session
<1>3. Becomes(s, state)
  BY DEF ReadShelf
<1> HIDE DEF state
<1> QED BY <1>2, <1>3 DEF Moves

LEMMA DrawTyped ==
    ASSUME TypeOK, NEW s \in Sessions, DrawCode(s)
    PROVE  \E state \in Session : Moves(s, state) /\ state.pc = "drawn" /\ state.code = Len(returns) + 1
<1> DEFINE state == [sessions[s] EXCEPT !.pc = "drawn", !.code = Len(returns) + 1]
<1>1. sessions[s] \in Session /\ Len(returns) + 1 \in Nat
  BY Rows
<1>2. /\ state \in Session /\ state.pc = "drawn" /\ state.line = sessions[s].line
      /\ state.op = sessions[s].op /\ state.old = sessions[s].old
      /\ state.new = sessions[s].new /\ state.code = Len(returns) + 1
  BY <1>1 DEF Session
<1>3. Becomes(s, state)
  BY DEF DrawCode, NextCode
<1> HIDE DEF state
<1> QED BY <1>2, <1>3 DEF Moves

LEMMA LinkingTyped ==
    ASSUME TypeOK, NEW s \in Sessions
    PROVE  /\ [sessions[s] EXCEPT !.pc = "linking"] \in Session
           /\ [sessions[s] EXCEPT !.pc = "linking"].pc = "linking"
           /\ [sessions[s] EXCEPT !.pc = "linking"].line = sessions[s].line
           /\ [sessions[s] EXCEPT !.pc = "linking"].code = sessions[s].code
           /\ [sessions[s] EXCEPT !.pc = "linking"].op = sessions[s].op
           /\ [sessions[s] EXCEPT !.pc = "linking"].new = sessions[s].new
BY Rows DEF Session

LEMMA DeadTyped ==
    /\ [Free EXCEPT !.pc = "dead"] \in Session
    /\ [Free EXCEPT !.pc = "dead"].pc = "dead"
BY FreeTyped DEF Free, Session

LEMMA FreeIdle == Free.pc = "idle"
BY DEF Free

\* A session that remains active keeps a line that is there.
LEMMA SessionsTyped ==
    ASSUME TypeOK, [Next]_vars
    PROVE  /\ sessions' \in [Sessions -> Session]
           /\ \A s \in Sessions : Active(s)' => sessions'[s].line \in DOMAIN lines'
<1>0. /\ sessions \in [Sessions -> Session]
      /\ \A s \in Sessions : Active(s) => sessions[s].line \in DOMAIN lines
      /\ DOMAIN lines \subseteq DOMAIN lines'
  BY Rows, LinesTyped DEF TypeOK
<1>a. ASSUME NEW s \in Sessions, NEW state \in Session, Becomes(s, state),
             state.pc \notin {"idle", "dead"} => state.line \in DOMAIN lines
      PROVE  /\ sessions' \in [Sessions -> Session]
             /\ \A r \in Sessions : Active(r)' => sessions'[r].line \in DOMAIN lines'
  BY <1>0, <1>a DEF Becomes, Active
<1>1. CASE UNCHANGED sessions
  BY <1>0, <1>1 DEF Active
<1>2. CASE \E s \in Sessions : \E l \in DOMAIN lines : Loads(s, l)
  BY <1>a, <1>2, LoadedTyped DEF LoadsAs
<1>3. CASE \E s \in Sessions : ReadShelf(s)
  <2> PICK s \in Sessions : ReadShelf(s)
    BY <1>3
  <2>1. Active(s)
    BY DEF ReadShelf, Active
  <2> QED BY <1>0, <1>a, <2>1, ReadTyped DEF Moves
<1>4. CASE \E s \in Sessions : DrawCode(s)
  <2> PICK s \in Sessions : DrawCode(s)
    BY <1>4
  <2>1. Active(s)
    BY DEF DrawCode, Active
  <2> QED BY <1>0, <1>a, <2>1, DrawTyped DEF Moves
<1>8. CASE \E s \in Sessions : ReadOrder(s)
  <2> PICK s \in Sessions : ReadOrder(s)
    BY <1>8
  <2>1. Active(s)
    BY DEF ReadOrder, Active
  <2> QED BY <1>0, <1>a, <2>1, OrderTyped DEF Moves
<1>5. CASE \E s \in Sessions : Becomes(s, Free)
  BY <1>a, <1>5, FreeTyped, FreeIdle
<1>6. CASE \E s \in Sessions : Commit(s)
  <2> PICK s \in Sessions : Commit(s)
    BY <1>6
  <2>1. Becomes(s, Free) \/ Becomes(s, [sessions[s] EXCEPT !.pc = "linking"])
    BY DEF Commit
  <2>2. sessions[s].line \in DOMAIN lines
    BY <1>0, CommitLine
  <2> QED BY <1>a, <1>5, <2>1, <2>2, LinkingTyped
<1>7. CASE \E s \in Sessions : Becomes(s, [Free EXCEPT !.pc = "dead"])
  BY <1>a, <1>7, DeadTyped
<1> QED BY <1>1, <1>2, <1>3, <1>4, <1>5, <1>6, <1>7, <1>8, EachStep
        DEF vars, Proceed, DispatchTransferOrder, UpdateStatus, Abort, LinkReturn, Crash

\* raise_issue names a decision.
Decided == \A s \in Sessions : sessions[s].op = "issue" => sessions[s].new.decision \in Decisions

LEMMA DecidedStep ==
    ASSUME TypeOK, Decided, [Next]_vars
    PROVE  Decided'
<1>a. ASSUME NEW s \in Sessions, NEW state, Becomes(s, state),
             state.op = "issue" => state.new.decision \in Decisions
      PROVE  Decided'
  BY <1>a, BecomesOne DEF Decided
<1>1. CASE UNCHANGED sessions
  BY <1>1 DEF Decided
<1>2. CASE \E s \in Sessions : \E l \in DOMAIN lines : Loads(s, l)
  BY <1>a, <1>2, LoadedTyped DEF LoadsAs
<1>3. CASE \E s \in Sessions : \E state \in Session : Moves(s, state)
  BY <1>a, <1>3 DEF Moves, Decided
<1>4. CASE \E s \in Sessions : Becomes(s, Free) \/ Becomes(s, [Free EXCEPT !.pc = "dead"])
  BY <1>a, <1>4 DEF Free
<1>5. CASE \E s \in Sessions : Becomes(s, [sessions[s] EXCEPT !.pc = "linking"])
  <2> PICK s \in Sessions : Becomes(s, [sessions[s] EXCEPT !.pc = "linking"])
    BY <1>5
  <2> QED BY <1>a, LinkingTyped DEF Decided
<1> QED BY <1>1, <1>2, <1>3, <1>4, <1>5, EachStep, OrderTyped, ReadTyped, DrawTyped
        DEF vars, Proceed, DispatchTransferOrder, UpdateStatus, Abort, LinkReturn, Crash, Commit

\* raise_issue commits a return.
LEMMA ReturnCreated ==
    ASSUME TypeOK, Decided, NEW s \in Sessions, Commit(s), sessions[s].op = "issue"
    PROVE  /\ returns' \in Seq(Return)
           /\ sessions[s].code = Len(returns) + 1
           /\ DOMAIN returns' = 1..(Len(returns) + 1)
           /\ \A r \in DOMAIN returns : returns'[r] = returns[r]
           /\ returns'[Len(returns) + 1].qty = sessions[s].new.issued
           /\ returns'[Len(returns) + 1].decision = sessions[s].new.decision
           /\ Becomes(s, [sessions[s] EXCEPT !.pc = "linking"])
<1> DEFINE row == NewReturn(sessions[s].new)
<1>1. /\ row \in Return /\ row.qty = sessions[s].new.issued
      /\ row.decision = sessions[s].new.decision
  BY Memory DEF NewReturn, Return, Line, Decided
<1>2. returns' = Append(returns, row)
  BY DEF Commit
<1>3. returns \in Seq(Return)
  BY DEF TypeOK, Return
<1>4. sessions[s].code = Len(returns) + 1 /\ Becomes(s, [sessions[s] EXCEPT !.pc = "linking"])
  BY DEF Commit, Refused, NextCode
<1> HIDE DEF row
<1> QED BY <1>1, <1>2, <1>3, <1>4, RowAdded

LEMMA TablesTyped ==
    ASSUME TypeOK, Decided, [Next]_vars
    PROVE  /\ returns' \in Seq(Return)
           /\ shelf' \in Nat \cup {NoRow}
<1>0. returns \in Seq(Return) /\ shelf \in Nat \cup {NoRow}
  BY DEF TypeOK, Return
<1>1. CASE UNCHANGED <<returns, shelf>>
  BY <1>0, <1>1
<1>2. CASE \E s \in Sessions : Commit(s)
  <2> PICK s \in Sessions : Commit(s)
    BY <1>2
  <2>1. returns' \in Seq(Return)
    BY <1>0, ReturnCreated DEF Commit
  <2>2. shelf' \in Nat \cup {NoRow}
    <3>1. sessions[s].added \in Int /\ sessions[s].seen \in Nat \cup {NoRow}
      BY Memory
    <3>2. shelf' = IF sessions[s].added <= 0 THEN shelf
                   ELSE (IF sessions[s].seen = NoRow THEN 0 ELSE sessions[s].seen)
                        + sessions[s].added
      BY DEF Commit, IncreaseStoreStock
    <3> QED BY <1>0, <3>1, <3>2
  <2> QED BY <2>1, <2>2
<1> QED BY <1>1, <1>2, EachStep, LoadedTyped
        DEF vars, Proceed, DispatchTransferOrder, UpdateStatus, LoadsAs, ReadOrder, ReadShelf,
            DrawCode, Abort, LinkReturn, Crash

\* Who writes the status of an order.
LEMMA OrderWritten ==
    [Next]_vars =>
        \/ UNCHANGED <<orders, byWarehouse>>
        \/ \E o \in Orders, status \in Statuses : WarehouseSets(o, status)
        \/ \E s \in Sessions : Commit(s) /\ sessions[s].marks
<1> SUFFICES ASSUME [Next]_vars
             PROVE  \/ UNCHANGED <<orders, byWarehouse>>
                    \/ \E o \in Orders, status \in Statuses : WarehouseSets(o, status)
                    \/ \E s \in Sessions : Commit(s) /\ sessions[s].marks
  OBVIOUS
<1>1. CASE UNCHANGED vars
  BY <1>1 DEF vars
<1>2. CASE \E o \in Orders, q \in Expected : DispatchTransferOrder(o, q)
  BY <1>2 DEF DispatchTransferOrder, Statuses
<1>3. CASE \E o \in Orders, status \in Updates : UpdateStatus(o, status)
  BY <1>3, StoreAssumption DEF UpdateStatus
<1>4. CASE \E s \in Sessions : \E l \in DOMAIN lines : Loads(s, l)
  BY <1>4 DEF Loads, LoadForCount, LoadForIssue
<1>5. CASE \E s \in Sessions : Proceed(s) \/ Crash(s)
  BY <1>5 DEF Proceed, ReadOrder, ReadShelf, DrawCode, Abort, Commit, LinkReturn, Crash
<1> QED BY <1>1, <1>2, <1>3, <1>4, <1>5, EachStep

LEMMA OrdersTyped ==
    ASSUME TypeOK, [Next]_vars
    PROVE  orders' \in [Orders -> Statuses] /\ byWarehouse' \subseteq Orders
<1>0. orders \in [Orders -> Statuses] /\ byWarehouse \subseteq Orders
  BY DEF TypeOK
<1>1. CASE UNCHANGED <<orders, byWarehouse>>
  BY <1>0, <1>1
<1>2. CASE \E o \in Orders, status \in Statuses : WarehouseSets(o, status)
  BY <1>0, <1>2 DEF WarehouseSets
<1>3. CASE \E s \in Sessions : Commit(s) /\ sessions[s].marks
  <2> PICK s \in Sessions : Commit(s) /\ sessions[s].marks
    BY <1>3
  <2>1. /\ orders' = [orders EXCEPT ![sessions[s].old.order] = "Delivered"]
        /\ byWarehouse' = byWarehouse \ {sessions[s].old.order}
    BY DEF Commit
  <2> QED BY <1>0, <2>1 DEF Statuses
<1> QED BY <1>1, <1>2, <1>3, OrderWritten

LEMMA TypedStep ==
    ASSUME TypeOK, Decided, [Next]_vars
    PROVE  TypeOK'
BY LinesTyped, SessionsTyped, TablesTyped, OrdersTyped DEF TypeOK, Return, Active

LEMMA TypedInit == ASSUME Init PROVE TypeOK /\ Decided
<1>1. sessions \in [Sessions -> Session] /\ \A s \in Sessions : sessions[s] = Free
  BY FreeTyped DEF Init
<1>2. orders \in [Orders -> Statuses] /\ byWarehouse \subseteq Orders
  BY DEF Init, Statuses
<1>3. lines \in Seq(Line) /\ shelf \in Nat \cup {NoRow} /\ returns \in Seq(Return)
  BY DEF Init
<1> QED BY <1>1, <1>2, <1>3, FreeIdle DEF TypeOK, Return, Decided, Free

LEMMA TypedAlways == Spec => [](TypeOK /\ Decided)
<1>1. Init => TypeOK /\ Decided
  BY TypedInit
<1>2. TypeOK /\ Decided /\ [Next]_vars => (TypeOK /\ Decided)'
  BY TypedStep, DecidedStep
<1> QED BY <1>1, <1>2, PTL DEF Spec

\* TypeOK holds: rows have their types, and what a handler works on exists, whatever
\* clients do.
THEOREM TypeCorrect == Spec => []TypeOK
BY TypedAlways, PTL
-----------------------------------------------------------------------------
(* Orders delivered when settled, whatever clients do *)

Settling(s) == sessions[s].pc \in {"loaded", "marked", "seen", "drawn"}

Rightly(o) == orders[o] = "Delivered" \/ o \in byWarehouse

\* What a settling handler knows: the order of its line, that a line once settled stays
\* settled, and that an order it decided to leave alone is Delivered, or was until the
\* warehouse had the last word.
Informed(me) ==
    /\ me.old.order = lines[me.line].order
    /\ lines[me.line].status = "Pending" => me.old.status = "Pending"
    /\ me.new.status = "Pending" <=> me.old.status = "Pending" /\ ~Settles(me)
    /\ me.marks => Settles(me)
    /\ me.pc # "loaded" /\ Settles(me) /\ ~me.marks => Rightly(me.old.order)

Delivery ==
    /\ DeliveredWhenSettled
    /\ \A s \in Sessions : Settling(s) => Informed(sessions[s])

LEMMA DeliveryQuiet ==
    ASSUME TypeOK, Delivery, UNCHANGED <<lines, orders, byWarehouse>>,
           NEW s \in Sessions, NEW state, Becomes(s, state),
           state.pc \in {"loaded", "marked", "seen", "drawn"} => Informed(state)
    PROVE  Delivery'
<1>1. \A r \in Sessions : sessions'[r] = IF r = s THEN state ELSE sessions[r]
  BY BecomesOne
<1>2. DeliveredWhenSettled'
  BY DEF Delivery, DeliveredWhenSettled, SettledOrders
<1>3. \A r \in Sessions : Settling(r)' => Informed(sessions[r])'
  BY <1>1 DEF Delivery, Settling, Informed, Settles, Rightly
<1> QED BY <1>2, <1>3 DEF Delivery

LEMMA LoadDelivery ==
    ASSUME TypeOK, Delivery, NEW s \in Sessions, NEW l \in DOMAIN lines, Loads(s, l)
    PROVE  Delivery'
<1> PICK state \in Session : LoadsAs(s, l, state)
  BY LoadedTyped
<1>1. state.op \in {"count", "issue"}
  BY DEF Session
<1>2. Informed(state)
  BY <1>1 DEF LoadsAs, Informed, Settles
<1> QED BY <1>2, DeliveryQuiet DEF LoadsAs

LEMMA MoveDelivery ==
    ASSUME TypeOK, Delivery, NEW s \in Sessions, ReadOrder(s) \/ ReadShelf(s) \/ DrawCode(s)
    PROVE  Delivery'
<1>1. sessions[s] \in Session /\ UNCHANGED <<lines, orders, byWarehouse>>
  BY Rows DEF ReadOrder, ReadShelf, DrawCode
<1>2. Informed(sessions[s])
  BY DEF ReadOrder, ReadShelf, DrawCode, Delivery, Settling
<1>3. CASE ReadOrder(s)
  <2> DEFINE marks == Settles(sessions[s]) /\ orders[sessions[s].old.order] # "Delivered"
             state == [sessions[s] EXCEPT !.pc = "marked", !.marks = marks]
  <2>1. Becomes(s, state)
    BY <1>3 DEF ReadOrder
  <2>2. /\ marks => Settles(sessions[s])
        /\ Settles(sessions[s]) /\ ~marks => Rightly(sessions[s].old.order)
    BY DEF Rightly
  <2> HIDE DEF marks
  <2>3. /\ state.new = sessions[s].new /\ state.old = sessions[s].old
        /\ state.op = sessions[s].op /\ state.line = sessions[s].line /\ state.marks = marks
    BY <1>1 DEF Session
  <2> HIDE DEF state
  <2>4. Informed(state)
    BY <1>2, <2>2, <2>3 DEF Informed, Settles
  <2> QED BY <1>1, <2>1, <2>4, DeliveryQuiet
<1>4. CASE ReadShelf(s)
  <2> DEFINE state == [sessions[s] EXCEPT !.pc = "seen", !.seen = shelf]
  <2>1. Becomes(s, state) /\ sessions[s].pc = "marked"
    BY <1>4 DEF ReadShelf
  <2>2. /\ state.new = sessions[s].new /\ state.old = sessions[s].old
        /\ state.op = sessions[s].op /\ state.line = sessions[s].line
        /\ state.marks = sessions[s].marks
    BY <1>1 DEF Session
  <2> HIDE DEF state
  <2>3. Informed(state)
    BY <1>2, <2>1, <2>2 DEF Informed, Settles
  <2> QED BY <1>1, <2>1, <2>3, DeliveryQuiet
<1>5. CASE DrawCode(s)
  <2> DEFINE state == [sessions[s] EXCEPT !.pc = "drawn", !.code = NextCode]
  <2>1. Becomes(s, state) /\ sessions[s].pc = "seen"
    BY <1>5 DEF DrawCode
  <2>2. /\ state.new = sessions[s].new /\ state.old = sessions[s].old
        /\ state.op = sessions[s].op /\ state.line = sessions[s].line
        /\ state.marks = sessions[s].marks
    BY <1>1 DEF Session
  <2> HIDE DEF state
  <2>3. Informed(state)
    BY <1>2, <2>1, <2>2 DEF Informed, Settles
  <2> QED BY <1>1, <2>1, <2>3, DeliveryQuiet
<1> QED BY <1>3, <1>4, <1>5

\* The warehouse either leaves alone whether an order is Delivered or has the last word.
LEMMA WarehouseDelivery ==
    ASSUME TypeOK, Delivery, NEW o \in Orders, NEW status \in Statuses, WarehouseSets(o, status),
           UNCHANGED sessions, SettledOrders' = SettledOrders,
           \A l \in DOMAIN lines : lines'[l] = lines[l]
    PROVE  Delivery'
<1>1. \A p \in Orders : p \notin byWarehouse' =>
          p \notin byWarehouse /\ (orders'[p] = "Delivered" <=> orders[p] = "Delivered")
  BY DEF WarehouseSets, TypeOK
<1>2. DeliveredWhenSettled'
  BY <1>1 DEF Delivery, DeliveredWhenSettled
<1>3. \A p \in Orders : Rightly(p) => Rightly(p)'
  BY DEF WarehouseSets, TypeOK, Rightly
<1>4. ASSUME NEW s \in Sessions, Settling(s)' PROVE Informed(sessions[s])'
  <2>1. Informed(sessions[s]) /\ sessions[s].line \in DOMAIN lines
    BY <1>4, Rows DEF Delivery, Settling, Active
  <2>2. sessions[s].old.order \in Orders
    BY Memory DEF Line
  <2> QED BY <1>3, <2>1, <2>2 DEF Informed, Settles
<1> QED BY <1>2, <1>4 DEF Delivery

LEMMA DispatchDelivery ==
    ASSUME TypeOK, Delivery, NEW o \in Orders, NEW q \in Expected, DispatchTransferOrder(o, q)
    PROVE  Delivery'
<1> DEFINE n == Len(lines) + 1
<1>1. n \notin DOMAIN lines
  BY Rows
<1>2. DOMAIN lines' = DOMAIN lines \cup {n}
  BY LineCreated, Rows, OneMore
<1>3. /\ \A l \in DOMAIN lines : lines'[l] = lines[l]
      /\ lines'[n].status = "Pending"
  <2>1. NewLine(o, q).status = "Pending"
    BY DEF NewLine
  <2> QED BY <2>1, LineCreated
<1> HIDE DEF n
<1>4. SettledOrders' = SettledOrders
  BY <1>1, <1>2, <1>3 DEF SettledOrders
<1> QED BY <1>3, <1>4, WarehouseDelivery DEF DispatchTransferOrder, Statuses

\* A commit settles the line of a handler that settles, and no other.
LEMMA CommitDelivery ==
    ASSUME TypeOK, Delivery, NEW s \in Sessions, Commit(s)
    PROVE  Delivery'
<1> DEFINE l == sessions[s].line
           me == sessions[s]
           p == me.old.order
<1>1. Settling(s) /\ Active(s) /\ me.pc # "loaded" /\ l \in DOMAIN lines /\ p \in Orders
  BY Memory, Rows DEF Commit, Ready, Settling, Active, Line
<1>2. Informed(me)
  BY <1>1 DEF Delivery
<1>3. /\ DOMAIN lines' = DOMAIN lines
      /\ \A k \in DOMAIN lines \ {l} : lines'[k] = lines[k]
      /\ lines'[l] = Written(me.old, me.new, lines[l])
  BY <1>1, CommitLine, LineReplaced
<1>4. /\ lines'[l].order = p /\ lines[l].order = p
      /\ lines'[l].status = "Pending" <=> lines[l].status = "Pending" /\ ~Settles(me)
  BY <1>2, <1>3 DEF Informed, Written, Column
<1>5. SettledOrders' = IF Settles(me) THEN SettledOrders \cup {p} ELSE SettledOrders
  BY <1>1, <1>3, <1>4 DEF SettledOrders
<1>6. /\ \A o \in Orders : me.marks /\ o = p => orders'[o] = "Delivered" /\ o \notin byWarehouse'
      /\ \A o \in Orders : ~me.marks \/ o # p =>
            orders'[o] = orders[o] /\ (o \in byWarehouse' <=> o \in byWarehouse)
  BY <1>1 DEF Commit, TypeOK
<1>7. DeliveredWhenSettled'
  <2> SUFFICES ASSUME NEW o \in Orders, o \notin byWarehouse'
               PROVE  orders'[o] = "Delivered" <=> o \in SettledOrders'
    BY DEF DeliveredWhenSettled
  <2>1. CASE me.marks /\ o = p
    BY <1>2, <1>5, <1>6, <2>1 DEF Informed
  <2>2. CASE ~(me.marks /\ o = p)
    <3>1. orders'[o] = orders[o] /\ o \notin byWarehouse
      BY <1>6, <2>2
    <3>2. orders[o] = "Delivered" <=> o \in SettledOrders
      BY <3>1 DEF Delivery, DeliveredWhenSettled
    <3>3. o = p /\ Settles(me) => orders[o] = "Delivered"
      BY <1>1, <1>2, <2>2, <3>1 DEF Informed, Rightly
    <3> QED BY <1>5, <3>1, <3>2, <3>3
  <2> QED BY <2>1, <2>2
<1>8. \A o \in Orders : Rightly(o) => Rightly(o)'
  BY <1>6 DEF Rightly
<1>9. PICK state : Becomes(s, state) /\ state.pc \in {"idle", "linking"}
  BY LinkingTyped, FreeIdle DEF Commit
<1>10. \A r \in Sessions : sessions'[r] = IF r = s THEN state ELSE sessions[r]
  BY <1>9, BecomesOne
<1> HIDE DEF l, me, p
<1>11. \A k \in DOMAIN lines : /\ lines'[k].order = lines[k].order
                               /\ lines'[k].status = "Pending" => lines[k].status = "Pending"
  BY <1>3, <1>4
<1>12. ASSUME NEW r \in Sessions, Settling(r)' PROVE Informed(sessions[r])'
  <2>1. sessions'[r] = sessions[r] /\ Settling(r)
    BY <1>9, <1>10, <1>12 DEF Settling
  <2>2. Informed(sessions[r]) /\ sessions[r].line \in DOMAIN lines
    BY <2>1, Rows DEF Delivery, Settling, Active
  <2>3. sessions[r].old.order \in Orders
    BY Memory DEF Line
  <2> QED BY <1>8, <1>11, <2>1, <2>2, <2>3 DEF Informed, Settles
<1> QED BY <1>7, <1>12 DEF Delivery

LEMMA LinkDelivery ==
    ASSUME TypeOK, Delivery, NEW s \in Sessions, LinkReturn(s)
    PROVE  Delivery'
<1> DEFINE row == [lines[sessions[s].line] EXCEPT !.ret = sessions[s].code]
<1>1. /\ Active(s) /\ row \in Line
      /\ lines' = [lines EXCEPT ![sessions[s].line] = row]
      /\ sessions[s].line \in DOMAIN lines
      /\ lines[sessions[s].line] \in Line
  BY LinkLine, Rows
<1>2. /\ row.status = lines[sessions[s].line].status
      /\ row.order = lines[sessions[s].line].order
  BY <1>1 DEF Line
<1> HIDE DEF row
<1>3. /\ DOMAIN lines' = DOMAIN lines
      /\ \A l \in DOMAIN lines : lines'[l].status = lines[l].status /\ lines'[l].order = lines[l].order
  BY <1>1, <1>2, LineReplaced
<1>4. Becomes(s, Free) /\ UNCHANGED <<orders, byWarehouse>>
  BY DEF LinkReturn
<1>5. \A r \in Sessions : sessions'[r] = IF r = s THEN Free ELSE sessions[r]
  BY <1>4, BecomesOne
<1>6. SettledOrders' = SettledOrders
  BY <1>3 DEF SettledOrders
<1>7. DeliveredWhenSettled'
  BY <1>4, <1>6 DEF Delivery, DeliveredWhenSettled
<1>8. ASSUME NEW r \in Sessions, Settling(r)' PROVE Informed(sessions[r])'
  <2>1. sessions'[r] = sessions[r] /\ Settling(r)
    BY <1>5, <1>8, FreeIdle DEF Settling
  <2>2. Informed(sessions[r]) /\ sessions[r].line \in DOMAIN lines
    BY <2>1, Rows DEF Delivery, Settling, Active
  <2> QED BY <1>3, <1>4, <2>1, <2>2 DEF Informed, Settles, Rightly
<1> QED BY <1>7, <1>8 DEF Delivery

LEMMA DeliveryStep ==
    ASSUME TypeOK, Delivery, [Next]_vars
    PROVE  Delivery'
<1>1. CASE UNCHANGED vars
  BY <1>1 DEF vars, Delivery, DeliveredWhenSettled, SettledOrders, Settling, Informed, Settles, Rightly
<1>2. CASE \E o \in Orders, q \in Expected : DispatchTransferOrder(o, q)
  BY <1>2, DispatchDelivery
<1>3. CASE \E o \in Orders, status \in Updates : UpdateStatus(o, status)
  BY <1>3, WarehouseDelivery, StoreAssumption DEF UpdateStatus, SettledOrders
<1>4. CASE \E s \in Sessions : \E l \in DOMAIN lines : Loads(s, l)
  BY <1>4, LoadDelivery
<1>5. CASE \E s \in Sessions : ReadOrder(s) \/ ReadShelf(s) \/ DrawCode(s)
  BY <1>5, MoveDelivery
<1>6. CASE \E s \in Sessions : Abort(s)
  BY <1>6, DeliveryQuiet, FreeIdle DEF Abort
<1>7. CASE \E s \in Sessions : Commit(s)
  BY <1>7, CommitDelivery
<1>8. CASE \E s \in Sessions : LinkReturn(s)
  BY <1>8, LinkDelivery
<1>9. CASE \E s \in Sessions : Crash(s)
  BY <1>9, DeliveryQuiet, DeadTyped DEF Crash
<1> QED BY <1>1, <1>2, <1>3, <1>4, <1>5, <1>6, <1>7, <1>8, <1>9, EachStep DEF Proceed

\* DeliveredWhenSettled holds whatever clients do, lines settled twice or by two sessions at
\* once included: an order is Delivered exactly when the store settled a line of it, unless
\* the warehouse had the last word.
THEOREM DeliveredAsSettled == Spec => []DeliveredWhenSettled
<1>1. Init => Delivery
  <2> SUFFICES ASSUME Init PROVE Delivery
    OBVIOUS
  <2>1. \A s \in Sessions : sessions[s].pc = "idle"
    BY FreeIdle DEF Init
  <2>2. \A o \in Orders : orders[o] # "Delivered"
    BY DEF Init
  <2>3. SettledOrders = {}
    BY DEF Init, SettledOrders
  <2> QED BY <2>1, <2>2, <2>3 DEF Delivery, DeliveredWhenSettled, Settling
<1>2. TypeOK /\ Delivery /\ [Next]_vars => Delivery'
  BY DeliveryStep
<1>3. Delivery => DeliveredWhenSettled
  BY DEF Delivery
<1> QED BY <1>1, <1>2, <1>3, TypeCorrect, PTL DEF Spec

-----------------------------------------------------------------------------
(* A line settled once, by one session *)

Linking(s) == sessions[s].pc = "linking"

\* Sessions work on different lines.
Apart == \A s, r \in Sessions : s # r /\ Active(s) /\ Active(r) => sessions[s].line # sessions[r].line

\* A session that settles a line has it as it is, still pending, and leaves it settled or
\* pending as it says.
SettlingAs(me) ==
    /\ me.old = lines[me.line]
    /\ lines[me.line].status = "Pending"
    /\ me.new.order = me.old.order
    /\ me.new.expected = me.old.expected
    /\ me.new.ret = me.old.ret
    /\ Settles(me) <=> me.new.status # "Pending"

\* A return no line names yet waits for the session that made it.
LinkingAs(me) ==
    /\ me.code \in DOMAIN returns
    /\ returns[me.code].qty = lines[me.line].issued
    /\ returns[me.code].decision = lines[me.line].decision
    /\ lines[me.line].status # "Pending"
    /\ lines[me.line].ret = 0
    /\ \A l \in DOMAIN lines : lines[l].ret # me.code

SettlingSound == \A s \in Sessions : Settling(s) => SettlingAs(sessions[s])
LinkingSound == \A s \in Sessions : Linking(s) => LinkingAs(sessions[s])
LinkingApart == \A s, r \in Sessions : Linking(s) /\ Linking(r) /\ sessions[s].code = sessions[r].code => s = r
PendingUnlinked == \A l \in DOMAIN lines : lines[l].status = "Pending" => lines[l].ret = 0

Settled ==
    /\ Apart
    /\ SettlingSound
    /\ LinkingSound
    /\ LinkingApart
    /\ PendingUnlinked
    /\ ReturnOfLine
    /\ NoReturnLost

\* A step of one session that is not linking, before it writes anything.
LEMMA QuietStep ==
    ASSUME TypeOK, Settled, UNCHANGED <<lines, returns>>,
           NEW s \in Sessions, NEW state, Becomes(s, state),
           sessions[s].pc \notin {"linking", "dead"}, state.pc # "linking",
           state.pc \notin {"idle", "dead"} =>
               \A r \in Sessions \ {s} : Active(r) => sessions[r].line # state.line,
           state.pc \in {"loaded", "marked", "seen", "drawn"} => SettlingAs(state)
    PROVE  Settled'
<1>0. \A r \in Sessions : sessions'[r] = IF r = s THEN state ELSE sessions[r]
  BY BecomesOne
<1>1. Apart'
  BY <1>0 DEF Settled, Apart, Active
<1>2. SettlingSound'
  BY <1>0 DEF Settled, SettlingSound, Settling, SettlingAs, Settles
<1>3. LinkingSound' /\ LinkingApart'
  BY <1>0 DEF Settled, LinkingSound, LinkingApart, Linking, LinkingAs
<1>4. PendingUnlinked' /\ ReturnOfLine'
  BY DEF Settled, PendingUnlinked, ReturnOfLine
<1>5. NoReturnLost'
  BY <1>0 DEF Settled, NoReturnLost
<1> QED BY <1>1, <1>2, <1>3, <1>4, <1>5 DEF Settled

LEMMA LoadSettled ==
    ASSUME TypeOK, Settled, "settle" \in Discipline,
           NEW s \in Sessions, NEW l \in DOMAIN lines, Loads(s, l)
    PROVE  Settled'
<1>1. /\ sessions[s].pc = "idle"
      /\ \A r \in Sessions : sessions[r].line # l
      /\ lines[l].status = "Pending"
  BY DEF Loads, LoadForCount, LoadForIssue, Alone
<1> PICK state \in Session : LoadsAs(s, l, state)
  BY LoadedTyped
<1>2. state.op \in {"count", "issue"}
  BY DEF Session
<1>3. SettlingAs(state)
  BY <1>1, <1>2 DEF LoadsAs, SettlingAs, Settles
<1> QED BY <1>1, <1>3, QuietStep DEF LoadsAs

LEMMA MoveSettled ==
    ASSUME TypeOK, Settled, NEW s \in Sessions, ReadOrder(s) \/ ReadShelf(s) \/ DrawCode(s)
    PROVE  Settled'
<1> PICK state \in Session : Moves(s, state) /\ state.pc \in {"marked", "seen", "drawn"}
  BY OrderTyped, ReadTyped, DrawTyped
<1>1. Settling(s) /\ UNCHANGED <<lines, returns>>
  BY DEF ReadOrder, ReadShelf, DrawCode, Settling
<1>2. SettlingAs(sessions[s])
  BY <1>1 DEF Settled, SettlingSound
<1>3. SettlingAs(state)
  BY <1>2 DEF Moves, SettlingAs, Settles
<1>4. \A r \in Sessions \ {s} : Active(r) => sessions[r].line # state.line
  BY <1>1 DEF Settled, Apart, Active, Settling, Moves
<1> QED BY <1>1, <1>3, <1>4, QuietStep DEF Moves, Settling

LEMMA AbortSettled ==
    ASSUME TypeOK, Settled, NEW s \in Sessions, Abort(s)
    PROVE  Settled'
<1>1. /\ sessions[s].pc \notin {"linking", "dead"}
      /\ UNCHANGED <<lines, returns>>
      /\ Becomes(s, Free)
  BY DEF Abort, Ready
<1> QED BY <1>1, FreeIdle, QuietStep

LEMMA CrashSettled ==
    ASSUME TypeOK, Settled, NEW s \in Sessions, Crash(s)
    PROVE  Settled'
<1> DEFINE state == [Free EXCEPT !.pc = "dead"]
<1>0. /\ Becomes(s, state) /\ state.pc = "dead" /\ Active(s)
      /\ UNCHANGED <<lines, returns>>
  BY DeadTyped DEF Crash, Active
<1> HIDE DEF state
<1>1. \A r \in Sessions : sessions'[r] = IF r = s THEN state ELSE sessions[r]
  BY <1>0, BecomesOne
<1>2. Apart'
  BY <1>0, <1>1 DEF Settled, Apart, Active
<1>3. SettlingSound'
  BY <1>0, <1>1 DEF Settled, SettlingSound, Settling, SettlingAs, Settles
<1>4. LinkingSound' /\ LinkingApart'
  BY <1>0, <1>1 DEF Settled, LinkingSound, LinkingApart, Linking, LinkingAs
<1>5. PendingUnlinked' /\ ReturnOfLine'
  BY <1>0 DEF Settled, PendingUnlinked, ReturnOfLine
<1>6. NoReturnLost'
  BY <1>0, <1>1 DEF NoReturnLost
<1> QED BY <1>2, <1>3, <1>4, <1>5, <1>6 DEF Settled

LEMMA CreateSettled ==
    ASSUME TypeOK, Settled, NEW o \in Orders, NEW q \in Expected, DispatchTransferOrder(o, q)
    PROVE  Settled'
<1>0. UNCHANGED <<returns, sessions>>
  BY DEF DispatchTransferOrder
<1> DEFINE n == Len(lines) + 1
<1>1. /\ DOMAIN lines' = DOMAIN lines \cup {n}
      /\ n \notin DOMAIN lines
      /\ \A l \in DOMAIN lines : lines'[l] = lines[l]
      /\ lines'[n].status = "Pending" /\ lines'[n].ret = 0
  <2>1. n \notin DOMAIN lines
    BY Rows
  <2>2. DOMAIN lines' = DOMAIN lines \cup {n}
    BY LineCreated, Rows, OneMore
  <2>3. NewLine(o, q).status = "Pending" /\ NewLine(o, q).ret = 0
    BY DEF NewLine
  <2> QED BY <2>1, <2>2, <2>3, LineCreated
<1> HIDE DEF n
<1>2. \A s \in Sessions : Active(s) => sessions[s].line \in DOMAIN lines
  BY Rows
<1>3. Apart'
  BY <1>0 DEF Settled, Apart, Active
<1>4. SettlingSound'
  BY <1>0, <1>1, <1>2 DEF Settled, SettlingSound, Settling, SettlingAs, Settles, Active
<1>5. LinkingSound'
  <2> SUFFICES ASSUME NEW s \in Sessions, Linking(s) PROVE LinkingAs(sessions[s])'
    BY <1>0 DEF LinkingSound, Linking
  <2>1. LinkingAs(sessions[s]) /\ sessions[s].line \in DOMAIN lines
    BY <1>2 DEF Settled, LinkingSound, Linking, Active
  <2>2. sessions[s].code # 0
    BY <2>1, Rows DEF LinkingAs
  <2> QED BY <1>0, <1>1, <2>1, <2>2 DEF LinkingAs
<1>6. LinkingApart'
  BY <1>0 DEF Settled, LinkingApart, Linking
<1>7. PendingUnlinked'
  BY <1>1 DEF Settled, PendingUnlinked
<1>8. ReturnOfLine'
  BY <1>0, <1>1 DEF Settled, ReturnOfLine
<1>9. NoReturnLost'
  BY <1>0, <1>1 DEF Settled, NoReturnLost
<1> QED BY <1>3, <1>4, <1>5, <1>6, <1>7, <1>8, <1>9 DEF Settled

\* What a commit makes of the line the session loaded.
LEMMA CommitWrites ==
    ASSUME TypeOK, Settled, NEW s \in Sessions, Commit(s)
    PROVE  LET l == sessions[s].line
               new == sessions[s].new
           IN  /\ Settling(s)
               /\ l \in DOMAIN lines
               /\ DOMAIN lines' = DOMAIN lines
               /\ lines'[l] = new
               /\ \A k \in DOMAIN lines \ {l} : lines'[k] = lines[k]
               /\ lines[l].status = "Pending"
               /\ lines[l].ret = 0 /\ new.ret = 0 /\ new.order = lines[l].order
               /\ sessions[s].op = "issue" => new.status # "Pending"
               /\ \A r \in Sessions \ {s} : Active(r) => sessions[r].line # l
<1> DEFINE l == sessions[s].line
           new == sessions[s].new
           old == sessions[s].old
<1>1. Settling(s) /\ Active(s)
  BY DEF Commit, Ready, Settling, Active
<1>2. l \in DOMAIN lines
  BY <1>1, Rows
<1>3. SettlingAs(sessions[s])
  BY <1>1 DEF Settled, SettlingSound
<1>4. /\ old = lines[l] /\ lines[l].status = "Pending"
      /\ new.order = old.order /\ new.expected = old.expected /\ new.ret = old.ret
      /\ Settles(sessions[s]) <=> new.status # "Pending"
  BY <1>3 DEF SettlingAs
<1>5. old \in Line /\ new \in Line
  BY Memory
<1>6. Written(old, new, old) = new
  BY <1>4, <1>5, WrittenBack
<1>7. lines' = [lines EXCEPT ![l] = new]
  BY <1>4, <1>6, CommitLine
<1>8. /\ DOMAIN lines' = DOMAIN lines
      /\ lines'[l] = new
      /\ \A k \in DOMAIN lines \ {l} : lines'[k] = lines[k]
  BY <1>1, <1>2, <1>5, <1>7, LineReplaced
<1>9. lines[l].ret = 0
  BY <1>2, <1>4 DEF Settled, PendingUnlinked
<1>10. \A r \in Sessions \ {s} : Active(r) => sessions[r].line # l
  BY <1>1 DEF Settled, Apart
<1>11. sessions[s].op = "issue" => Settles(sessions[s])
  BY DEF Settles
<1> QED BY <1>1, <1>2, <1>4, <1>8, <1>9, <1>10, <1>11

\* A line that is still pending after a commit has no return either.
LEMMA CommitUnlinked ==
    ASSUME TypeOK, Settled, NEW s \in Sessions, Commit(s)
    PROVE  PendingUnlinked'
<1> DEFINE l == sessions[s].line
           new == sessions[s].new
<1>1. /\ l \in DOMAIN lines
      /\ DOMAIN lines' = DOMAIN lines
      /\ lines'[l] = new
      /\ \A k \in DOMAIN lines \ {l} : lines'[k] = lines[k]
      /\ new.ret = 0
  BY CommitWrites
<1> HIDE DEF l, new
<1> QED BY <1>1 DEF Settled, PendingUnlinked

LEMMA CountSettled ==
    ASSUME TypeOK, Settled, NEW s \in Sessions, Commit(s), sessions[s].op # "issue"
    PROVE  Settled'
<1> DEFINE l == sessions[s].line
           new == sessions[s].new
<1>0. UNCHANGED returns /\ Becomes(s, Free)
  BY DEF Commit
<1>1. /\ Settling(s)
      /\ l \in DOMAIN lines
      /\ DOMAIN lines' = DOMAIN lines
      /\ lines'[l] = new
      /\ \A k \in DOMAIN lines \ {l} : lines'[k] = lines[k]
      /\ lines[l].ret = 0 /\ new.ret = 0
      /\ \A r \in Sessions \ {s} : Active(r) => sessions[r].line # l
  BY CommitWrites
<1> HIDE DEF l, new
<1>2. \A r \in Sessions : sessions'[r] = IF r = s THEN Free ELSE sessions[r]
  BY <1>0, BecomesOne
<1>3. \A r \in Sessions : Active(r) => sessions[r].line \in DOMAIN lines
  BY Rows
<1>4. Apart'
  BY <1>2, FreeIdle DEF Settled, Apart, Active
<1>5. SettlingSound'
  <2> SUFFICES ASSUME NEW r \in Sessions, Settling(r)' PROVE SettlingAs(sessions[r])'
    BY DEF SettlingSound
  <2>1. r # s /\ sessions'[r] = sessions[r] /\ Active(r) /\ Settling(r)
    BY <1>2, FreeIdle DEF Settling, Active
  <2>2. SettlingAs(sessions[r])
    BY <2>1 DEF Settled, SettlingSound
  <2> QED BY <1>1, <1>3, <2>1, <2>2 DEF SettlingAs, Settles
<1>6. LinkingSound'
  <2> SUFFICES ASSUME NEW r \in Sessions, Linking(r)' PROVE LinkingAs(sessions[r])'
    BY DEF LinkingSound
  <2>1. r # s /\ sessions'[r] = sessions[r] /\ Active(r) /\ Linking(r)
    BY <1>2, FreeIdle DEF Linking, Active
  <2>2. LinkingAs(sessions[r])
    BY <2>1 DEF Settled, LinkingSound
  <2>3. sessions[r].code # 0
    BY <2>2, Rows DEF LinkingAs
  <2> QED BY <1>0, <1>1, <1>3, <2>1, <2>2, <2>3 DEF LinkingAs
<1>7. LinkingApart'
  BY <1>2, FreeIdle DEF Settled, LinkingApart, Linking
<1>8. ReturnOfLine'
  BY <1>0, <1>1 DEF Settled, ReturnOfLine
<1>9. NoReturnLost'
  BY <1>0, <1>1, <1>2 DEF Settled, NoReturnLost, Settling
<1> QED BY <1>4, <1>5, <1>6, <1>7, <1>8, <1>9, CommitUnlinked DEF Settled

LEMMA IssueSettled ==
    ASSUME TypeOK, Decided, Settled, NEW s \in Sessions, Commit(s), sessions[s].op = "issue"
    PROVE  Settled'
<1> DEFINE l == sessions[s].line
           new == sessions[s].new
           n == Len(returns) + 1
           state == [sessions[s] EXCEPT !.pc = "linking"]
<1>0. /\ Len(returns) \in Nat /\ DOMAIN returns = 1..Len(returns)
      /\ n \in Nat \ {0} /\ n \notin DOMAIN returns
  BY Rows
<1>1. /\ Settling(s)
      /\ l \in DOMAIN lines
      /\ DOMAIN lines' = DOMAIN lines
      /\ lines'[l] = new
      /\ \A k \in DOMAIN lines \ {l} : lines'[k] = lines[k]
      /\ lines[l].ret = 0 /\ new.ret = 0 /\ new.status # "Pending"
      /\ \A r \in Sessions \ {s} : Active(r) => sessions[r].line # l
  BY CommitWrites
<1>2. /\ sessions[s].code = n
      /\ \A r \in DOMAIN returns : returns'[r] = returns[r]
      /\ returns'[n].qty = new.issued /\ returns'[n].decision = new.decision
      /\ Becomes(s, state)
  BY ReturnCreated
<1>3. DOMAIN returns' = DOMAIN returns \cup {n}
  BY <1>0, ReturnCreated, OneMore
<1>4. state.pc = "linking" /\ state.line = l /\ state.code = n
  BY <1>2, LinkingTyped
<1> HIDE DEF l, new, n, state
<1>5. \A r \in Sessions : sessions'[r] = IF r = s THEN state ELSE sessions[r]
  BY <1>2, BecomesOne
<1>6. \A r \in Sessions : Active(r) => sessions[r].line \in DOMAIN lines
  BY Rows
<1>7. \A k \in DOMAIN lines : lines[k].ret = 0 \/ lines[k].ret \in DOMAIN returns
  BY DEF Settled, ReturnOfLine
<1>8. \A r \in Sessions : Linking(r) => sessions[r].code \in DOMAIN returns /\ sessions[r].code # 0
  BY <1>0 DEF Settled, LinkingSound, LinkingAs
<1>9. Apart'
  BY <1>1, <1>4, <1>5 DEF Settled, Apart, Active
<1>10. SettlingSound'
  <2> SUFFICES ASSUME NEW r \in Sessions, Settling(r)' PROVE SettlingAs(sessions[r])'
    BY DEF SettlingSound
  <2>1. r # s /\ sessions'[r] = sessions[r] /\ Active(r) /\ Settling(r)
    BY <1>4, <1>5 DEF Settling, Active
  <2>2. SettlingAs(sessions[r])
    BY <2>1 DEF Settled, SettlingSound
  <2> QED BY <1>1, <1>6, <2>1, <2>2 DEF SettlingAs, Settles
<1>11. LinkingSound'
  <2> SUFFICES ASSUME NEW r \in Sessions, Linking(r)' PROVE LinkingAs(sessions[r])'
    BY DEF LinkingSound
  <2>1. CASE r = s
    <3>1. \A k \in DOMAIN lines' : lines'[k].ret # n
      BY <1>0, <1>1, <1>7
    <3> QED BY <1>1, <1>2, <1>3, <1>4, <1>5, <2>1, <3>1 DEF LinkingAs
  <2>2. CASE r # s
    <3>1. sessions'[r] = sessions[r] /\ Active(r) /\ Linking(r)
      BY <1>5, <2>2 DEF Linking, Active
    <3>2. LinkingAs(sessions[r])
      BY <3>1 DEF Settled, LinkingSound
    <3> QED BY <1>1, <1>2, <1>3, <1>6, <1>8, <2>2, <3>1, <3>2 DEF LinkingAs
  <2> QED BY <2>1, <2>2
<1>12. LinkingApart'
  BY <1>0, <1>4, <1>5, <1>8 DEF Settled, LinkingApart, Linking
<1>13. ReturnOfLine'
  BY <1>1, <1>2, <1>3, <1>7 DEF Settled, ReturnOfLine
<1>14. NoReturnLost'
  <2>1. \E r \in Sessions : sessions'[r].pc = "linking" /\ sessions'[r].code = n
    BY <1>4, <1>5
  <2>2. \A r \in Sessions : sessions[r].pc \in {"linking", "dead"} => sessions'[r] = sessions[r]
    BY <1>1, <1>5 DEF Settling
  <2>3. \A r \in DOMAIN returns :
           \/ \E k \in DOMAIN lines : lines[k].ret = r
           \/ \E t \in Sessions : sessions[t].pc = "linking" /\ sessions[t].code = r
           \/ \E t \in Sessions : sessions[t].pc = "dead"
    BY DEF Settled, NoReturnLost
  <2>4. \A r \in DOMAIN returns : r # 0
    BY <1>0
  <2>5. \A r \in DOMAIN returns, k \in DOMAIN lines : lines[k].ret = r => lines'[k].ret = r
    BY <1>1, <2>4
  <2> QED BY <1>1, <1>3, <2>1, <2>2, <2>3, <2>5 DEF NoReturnLost
<1> QED BY <1>9, <1>10, <1>11, <1>12, <1>13, <1>14, CommitUnlinked DEF Settled

LEMMA LinkSettled ==
    ASSUME TypeOK, Settled, NEW s \in Sessions, LinkReturn(s)
    PROVE  Settled'
<1> DEFINE l == sessions[s].line
           c == sessions[s].code
           row == [lines[l] EXCEPT !.ret = c]
<1>0. /\ Linking(s) /\ Active(s) /\ Becomes(s, Free)
      /\ UNCHANGED returns
  BY DEF LinkReturn, Linking, Active
<1>1. l \in DOMAIN lines /\ lines[l] \in Line /\ c \in Nat
  BY <1>0, Rows, Memory
<1>2. /\ row.ret = c /\ row.order = lines[l].order /\ row.status = lines[l].status
      /\ row.issued = lines[l].issued /\ row.decision = lines[l].decision
  BY <1>1 DEF Line
<1>3. /\ DOMAIN lines' = DOMAIN lines
      /\ lines'[l] = row
      /\ \A k \in DOMAIN lines \ {l} : lines'[k] = lines[k]
  BY <1>1, LinkLine, LineReplaced
<1>4. LinkingAs(sessions[s])
  BY <1>0 DEF Settled, LinkingSound
<1>5. /\ c \in DOMAIN returns
      /\ returns[c].qty = lines[l].issued /\ returns[c].decision = lines[l].decision
      /\ lines[l].status # "Pending" /\ lines[l].ret = 0
      /\ \A k \in DOMAIN lines : lines[k].ret # c
  BY <1>4 DEF LinkingAs
<1>6. \A r \in Sessions \ {s} : Active(r) => sessions[r].line # l /\ sessions[r].line \in DOMAIN lines
  BY <1>0, Rows DEF Settled, Apart
<1>7. \A r \in Sessions \ {s} : Linking(r) => sessions[r].code # c
  BY <1>0 DEF Settled, LinkingApart
<1> HIDE DEF l, c, row
<1>8. \A r \in Sessions : sessions'[r] = IF r = s THEN Free ELSE sessions[r]
  BY <1>0, BecomesOne
<1>9. Apart'
  BY <1>8, FreeIdle DEF Settled, Apart, Active
<1>10. SettlingSound'
  <2> SUFFICES ASSUME NEW r \in Sessions, Settling(r)' PROVE SettlingAs(sessions[r])'
    BY DEF SettlingSound
  <2>1. r # s /\ sessions'[r] = sessions[r] /\ Active(r) /\ Settling(r)
    BY <1>8, FreeIdle DEF Settling, Active
  <2>2. SettlingAs(sessions[r])
    BY <2>1 DEF Settled, SettlingSound
  <2> QED BY <1>3, <1>6, <2>1, <2>2 DEF SettlingAs, Settles
<1>11. LinkingSound'
  <2> SUFFICES ASSUME NEW r \in Sessions, Linking(r)' PROVE LinkingAs(sessions[r])'
    BY DEF LinkingSound
  <2>1. r # s /\ sessions'[r] = sessions[r] /\ Active(r) /\ Linking(r)
    BY <1>8, FreeIdle DEF Linking, Active
  <2>2. LinkingAs(sessions[r])
    BY <2>1 DEF Settled, LinkingSound
  <2>3. sessions[r].code # c
    BY <1>7, <2>1
  <2> QED BY <1>0, <1>2, <1>3, <1>6, <2>1, <2>2, <2>3 DEF LinkingAs
<1>12. LinkingApart'
  BY <1>8, FreeIdle DEF Settled, LinkingApart, Linking
<1>13. PendingUnlinked'
  BY <1>2, <1>3, <1>5 DEF Settled, PendingUnlinked
<1>14. ReturnOfLine'
  BY <1>0, <1>1, <1>2, <1>3, <1>5 DEF Settled, ReturnOfLine
<1>15. NoReturnLost'
  <2>1. \A r \in DOMAIN returns :
           \/ \E k \in DOMAIN lines : lines[k].ret = r
           \/ \E t \in Sessions : sessions[t].pc = "linking" /\ sessions[t].code = r
           \/ \E t \in Sessions : sessions[t].pc = "dead"
    BY DEF Settled, NoReturnLost
  <2>2. \A r \in DOMAIN returns : r # 0
    BY Rows
  <2>3. \A r \in DOMAIN returns, k \in DOMAIN lines : lines[k].ret = r => lines'[k].ret = r
    BY <1>3, <1>5, <2>2
  <2>4. \A t \in Sessions \ {s} : sessions'[t] = sessions[t]
    BY <1>8
  <2>5. sessions[s].pc = "linking" /\ sessions[s].code = c
    BY <1>0 DEF Linking, c
  <2>6. lines'[l].ret = c
    BY <1>2, <1>3
  <2> QED BY <1>0, <1>1, <1>3, <2>1, <2>3, <2>4, <2>5, <2>6 DEF NoReturnLost
<1> QED BY <1>9, <1>10, <1>11, <1>12, <1>13, <1>14, <1>15 DEF Settled

LEMMA SettledStep ==
    ASSUME TypeOK, Decided, Settled, "settle" \in Discipline, [Next]_vars
    PROVE  Settled'
<1>1. CASE \E o \in Orders, q \in Expected : DispatchTransferOrder(o, q)
  BY <1>1, CreateSettled
<1>2. CASE \E s \in Sessions : \E l \in DOMAIN lines : Loads(s, l)
  BY <1>2, LoadSettled
<1>3. CASE \E s \in Sessions : ReadOrder(s) \/ ReadShelf(s) \/ DrawCode(s)
  BY <1>3, MoveSettled
<1>4. CASE \E s \in Sessions : Abort(s)
  BY <1>4, AbortSettled
<1>5. CASE \E s \in Sessions : Commit(s)
  BY <1>5, CountSettled, IssueSettled
<1>6. CASE \E s \in Sessions : LinkReturn(s)
  BY <1>6, LinkSettled
<1>7. CASE \E s \in Sessions : Crash(s)
  BY <1>7, CrashSettled
<1>8. CASE UNCHANGED <<lines, returns, sessions>>
  BY <1>8 DEF Settled, Apart, Active, SettlingSound, Settling, SettlingAs, Settles,
              LinkingSound, Linking, LinkingAs, LinkingApart, PendingUnlinked, ReturnOfLine,
              NoReturnLost
<1> QED BY <1>1, <1>2, <1>3, <1>4, <1>5, <1>6, <1>7, <1>8, EachStep DEF Proceed, UpdateStatus, vars

LEMMA SettledAlways ==
    ASSUME "settle" \in Discipline PROVE Spec => []Settled
<1>1. Init => Settled
  <2>1. Init => \A s \in Sessions : sessions[s].pc = "idle"
    BY FreeIdle DEF Init
  <2> QED BY <2>1 DEF Init, Settled, Apart, Active, SettlingSound, Settling, LinkingSound, Linking,
                      LinkingApart, PendingUnlinked, ReturnOfLine,
                      NoReturnLost
<1>2. TypeOK /\ Decided /\ Settled /\ [Next]_vars => Settled'
  BY SettledStep
<1> QED BY <1>1, <1>2, TypedAlways, PTL DEF Spec

\* ReturnOfLine holds when a line is settled once, by one session: the return a line names is
\* for what that line gave up.
THEOREM ReturnsOfLines ==
    ASSUME "settle" \in Discipline PROVE Spec => []ReturnOfLine
<1>1. Settled => ReturnOfLine
  BY DEF Settled
<1> QED BY <1>1, SettledAlways, PTL

\* And NoReturnLost: between the two commits of raise_issue a return waits for its session,
\* and only the death of a process can leave it without a line.
THEOREM ReturnsKept ==
    ASSUME "settle" \in Discipline PROVE Spec => []NoReturnLost
<1>1. Settled => NoReturnLost
  BY DEF Settled
<1> QED BY <1>1, SettledAlways, PTL

-----------------------------------------------------------------------------
(* What is on the shelf *)

\* What a handler adds to the shelf is what its line keeps once it is settled.
AddsKept(me) ==
    IF me.new.status = "Pending"
    THEN me.added = 0 /\ me.new.issued = 0
    ELSE me.added \in Nat /\ me.added = me.new.received - me.new.issued

SeesKept(me) == me.seen <= Tally(Kept)

\* What was kept are finitely many units, and no handler took more than that for what is
\* on the shelf.
Shelved ==
    /\ IsFiniteSet(Units(Kept))
    /\ \A l \in DOMAIN lines : /\ Kept[l] \in Nat
                               /\ lines[l].status = "Pending" => lines[l].issued = 0
    /\ ShelfBacked
    /\ \A s \in Sessions : Settling(s) => AddsKept(sessions[s])
    /\ \A s \in Sessions : sessions[s].pc \in {"seen", "drawn"} => SeesKept(sessions[s])

LEMMA KeptCount ==
    ASSUME Shelved
    PROVE  Tally(Kept) \in Nat
BY FS_CardinalityType DEF Shelved, Tally

\* Steps that write no line and nothing on the shelf.
LEMMA QuietShelved ==
    ASSUME TypeOK, Shelved, UNCHANGED <<lines, shelf>>,
           NEW s \in Sessions, NEW state, Becomes(s, state),
           state.pc \in {"loaded", "marked", "seen", "drawn"} => AddsKept(state),
           state.pc \in {"seen", "drawn"} => SeesKept(state)
    PROVE  Shelved'
<1>0. \A r \in Sessions : sessions'[r] = IF r = s THEN state ELSE sessions[r]
  BY BecomesOne
<1>1. Kept' = Kept
  BY DEF Kept
<1>2. ShelfBacked'
  BY <1>1 DEF Shelved, ShelfBacked, Tally, Units
<1>3. \A r \in Sessions : Settling(r)' => AddsKept(sessions[r])'
  BY <1>0 DEF Shelved, Settling, AddsKept
<1>4. \A r \in Sessions : sessions'[r].pc \in {"seen", "drawn"} => SeesKept(sessions[r])'
  <2> SUFFICES ASSUME NEW r \in Sessions, sessions'[r].pc \in {"seen", "drawn"}
               PROVE  sessions'[r].seen <= Tally(Kept')
    BY DEF SeesKept, Tally, Units
  <2>1. sessions'[r].seen <= Tally(Kept)
    BY <1>0 DEF Shelved, SeesKept
  <2> QED BY <1>1, <2>1
<1> QED BY <1>1, <1>2, <1>3, <1>4 DEF Shelved, Units

LEMMA CountedKeeps ==
    ASSUME NEW row \in Line, NEW n \in Nat, NEW condition \in {"Good", "Missing/Defective"}
    PROVE  /\ Counted(row, n, condition).received = n
           /\ Counted(row, n, condition).issued = row.issued
BY DEF Counted, Line

LEMMA IssuedKeeps ==
    ASSUME NEW row \in Line, NEW q \in Nat, NEW decision \in Decisions
    PROVE  Issued(row, q, decision).received = row.received
BY DEF Issued, Line, Decisions

LEMMA LoadShelved ==
    ASSUME TypeOK, Shelved, "settle" \in Discipline,
           NEW s \in Sessions, NEW l \in DOMAIN lines, Loads(s, l)
    PROVE  Shelved'
<1>0. lines[l] \in Line /\ l \in Nat
  BY Rows
<1>1. lines[l].status = "Pending" /\ UNCHANGED <<lines, shelf>>
  BY DEF Loads, LoadForCount, LoadForIssue
<1>2. lines[l].issued = 0
  BY <1>1 DEF Shelved
<1>3. ASSUME NEW n \in Nat, NEW condition \in {"Good", "Missing/Defective"},
             LoadForCount(s, l, n, condition)
      PROVE  Shelved'
  <2> DEFINE new == Counted(lines[l], n, condition)
             more == IF condition = "Good" THEN n ELSE 0
             state == [Free EXCEPT !.pc = "loaded", !.line = l, !.old = lines[l], !.new = new,
                                   !.added = more]
  <2>1. /\ new.status = IF condition = "Good" THEN "Verified" ELSE "Pending"
        /\ new.received = n /\ new.issued = 0
    BY <1>0, <1>1, <1>2, CountedTyped, CountedKeeps
  <2>2. more = IF condition = "Good" THEN n ELSE 0
    OBVIOUS
  <2>3. Becomes(s, state)
    BY <1>3 DEF LoadForCount
  <2> HIDE DEF new, more
  <2>4. state.pc = "loaded" /\ state.added = more /\ state.new = new
    BY DEF Free
  <2> HIDE DEF state
  <2>5. AddsKept(state)
    BY <2>1, <2>2, <2>4 DEF AddsKept
  <2> QED BY <1>1, <2>3, <2>4, <2>5, QuietShelved
<1>4. ASSUME NEW q \in Nat, NEW decision \in Decisions, LoadForIssue(s, l, q, decision)
      PROVE  Shelved'
  <2> DEFINE new == Issued(lines[l], q, decision)
             more == GoodQuantity(lines[l], q)
             state == [Free EXCEPT !.pc = "loaded", !.op = "issue", !.line = l, !.old = lines[l],
                                   !.new = new, !.added = more]
  <2>1. /\ new.status # "Pending"
        /\ new.received = lines[l].received /\ new.issued = q
    BY <1>0, IssuedTyped, IssuedKeeps
  <2>2. more = lines[l].received - q /\ more \in Nat
    <3>1. lines[l].received \in Nat /\ q <= lines[l].received
      BY <1>0, <1>4 DEF Line, LoadForIssue
    <3> QED BY <3>1 DEF GoodQuantity
  <2>3. Becomes(s, state)
    BY <1>4 DEF LoadForIssue
  <2> HIDE DEF new, more
  <2>4. state.pc = "loaded" /\ state.added = more /\ state.new = new
    BY DEF Free
  <2> HIDE DEF state
  <2>5. AddsKept(state)
    BY <2>1, <2>2, <2>4 DEF AddsKept
  <2> QED BY <1>1, <2>3, <2>4, <2>5, QuietShelved
<1> QED BY <1>3, <1>4, QuantitiesNat DEF Loads

LEMMA MoveShelved ==
    ASSUME TypeOK, Shelved, NEW s \in Sessions, ReadOrder(s) \/ ReadShelf(s) \/ DrawCode(s)
    PROVE  Shelved'
<1>1. sessions[s] \in Session /\ UNCHANGED <<lines, shelf>>
  BY Rows DEF ReadOrder, ReadShelf, DrawCode
<1>2. AddsKept(sessions[s])
  BY DEF ReadOrder, ReadShelf, DrawCode, Shelved, Settling
<1>3. CASE ReadShelf(s)
  <2> DEFINE state == [sessions[s] EXCEPT !.pc = "seen", !.seen = shelf]
  <2>1. Becomes(s, state)
    BY <1>3 DEF ReadShelf
  <2>2. state.seen = shelf /\ state.new = sessions[s].new /\ state.added = sessions[s].added
    BY <1>1 DEF Session
  <2> HIDE DEF state
  <2>3. AddsKept(state) /\ SeesKept(state)
    BY <1>2, <2>2 DEF AddsKept, SeesKept, Shelved, ShelfBacked
  <2> QED BY <1>1, <2>1, <2>3, QuietShelved
<1>4. CASE DrawCode(s)
  <2> DEFINE state == [sessions[s] EXCEPT !.pc = "drawn", !.code = NextCode]
  <2>1. Becomes(s, state) /\ sessions[s].pc = "seen"
    BY <1>4 DEF DrawCode
  <2>2. state.seen = sessions[s].seen /\ state.new = sessions[s].new
        /\ state.added = sessions[s].added
    BY <1>1 DEF Session
  <2> HIDE DEF state
  <2>3. SeesKept(sessions[s])
    BY <2>1 DEF Shelved
  <2>4. AddsKept(state) /\ SeesKept(state)
    BY <1>2, <2>2, <2>3 DEF AddsKept, SeesKept
  <2> QED BY <1>1, <2>1, <2>4, QuietShelved
<1>5. CASE ReadOrder(s)
  <2> DEFINE marks == Settles(sessions[s]) /\ orders[sessions[s].old.order] # "Delivered"
             state == [sessions[s] EXCEPT !.pc = "marked", !.marks = marks]
  <2>1. Becomes(s, state)
    BY <1>5 DEF ReadOrder
  <2> HIDE DEF marks
  <2>2. /\ state.pc = "marked" /\ state.new = sessions[s].new
        /\ state.added = sessions[s].added
    BY <1>1 DEF Session
  <2> HIDE DEF state
  <2>3. AddsKept(state)
    BY <1>2, <2>2 DEF AddsKept
  <2> QED BY <1>1, <2>1, <2>2, <2>3, QuietShelved
<1> QED BY <1>3, <1>4, <1>5

\* A line changed, or added: what was kept grows by so much, and the shelf by no more.
LEMMA LinesShelved ==
    ASSUME TypeOK, Shelved, NEW l, NEW n \in Nat, NEW x,
           l \in DOMAIN lines => lines[l].status = "Pending",
           l \in DOMAIN lines', Kept'[l] = n,
           lines'[l].status = "Pending" => lines'[l].issued = 0,
           \A k : k # l => (k \in DOMAIN lines <=> k \in DOMAIN lines'),
           \A k \in DOMAIN lines : k # l => lines'[k] = lines[k],
           shelf' \in Int, shelf' <= Tally(Kept) + n,
           \A s \in Sessions : \/ sessions'[s] = sessions[s]
                               \/ sessions'[s].pc \notin {"loaded", "marked", "seen", "drawn"}
    PROVE  Shelved'
<1>1. PICK c, d : c = Kept /\ d = Kept'
  OBVIOUS
<1>2. PICK zero \in Nat : zero = 0
  OBVIOUS
<1>3. DOMAIN c = DOMAIN lines /\ DOMAIN d = DOMAIN lines'
  BY <1>1 DEF Kept
<1>4. /\ l \in DOMAIN c => c[l] = zero
      /\ \A k \in DOMAIN c : k # l => d[k] = c[k]
  BY <1>1, <1>2 DEF Kept
<1>5. DifferAt(l, c, zero, d, n)
  BY <1>1, <1>2, <1>3, <1>4 DEF DifferAt
<1>6. IsFiniteSet(Units(c))
  BY <1>1 DEF Shelved
<1>7. /\ IsFiniteSet(Units(d)) /\ Tally(c) \in Nat /\ Tally(d) \in Nat
      /\ Tally(d) - n = Tally(c) - zero
  BY <1>5, <1>6, TallyChanged
<1>8. Tally(Kept) = Tally(c) /\ Tally(Kept)' = Tally(d) /\ Units(Kept)' = Units(d)
  BY <1>1 DEF Tally, Units
<1>9. IsFiniteSet(Units(Kept))'
  BY <1>7, <1>8
<1>10. \A k \in DOMAIN lines' : Kept'[k] \in Nat
  BY <1>1, <1>3, <1>4 DEF Shelved
<1>11. \A k \in DOMAIN lines' : lines'[k].status = "Pending" => lines'[k].issued = 0
  BY DEF Shelved
<1>12. ShelfBacked'
  BY <1>2, <1>7, <1>8 DEF ShelfBacked
<1>13. \A s \in Sessions : Settling(s)' => AddsKept(sessions[s])'
  BY DEF Shelved, Settling, AddsKept
<1>14. \A s \in Sessions : sessions'[s].pc \in {"seen", "drawn"} => SeesKept(sessions[s])'
  <2> SUFFICES ASSUME NEW s \in Sessions, sessions'[s].pc \in {"seen", "drawn"}
               PROVE  SeesKept(sessions[s])'
    OBVIOUS
  <2>1. sessions'[s] = sessions[s] /\ sessions[s].pc \in {"seen", "drawn"}
    OBVIOUS
  <2>2. sessions[s].seen <= Tally(c) /\ sessions[s].seen \in Int
    BY <1>8, <2>1, Memory DEF Shelved, SeesKept, NoRow
  <2>3. sessions'[s].seen <= Tally(d)
    BY <1>2, <1>7, <2>1, <2>2
  <2> QED BY <1>8, <2>3 DEF SeesKept
<1> QED BY <1>9, <1>10, <1>11, <1>12, <1>13, <1>14 DEF Shelved

LEMMA CommitShelved ==
    ASSUME TypeOK, Decided, Settled, Shelved, NEW s \in Sessions, Commit(s)
    PROVE  Shelved'
<1>1. PICK l \in DOMAIN lines, new \in Line : l = sessions[s].line /\ new = sessions[s].new
  BY CommitWrites, Memory
<1>2. /\ Settling(s)
      /\ DOMAIN lines' = DOMAIN lines
      /\ lines'[l] = new
      /\ \A k \in DOMAIN lines \ {l} : lines'[k] = lines[k]
      /\ lines[l].status = "Pending"
  BY <1>1, CommitWrites
<1>3. AddsKept(sessions[s])
  BY <1>2 DEF Shelved
<1>4. PICK n \in Nat : /\ n = sessions[s].added
                       /\ n = IF new.status = "Pending" THEN 0 ELSE new.received - new.issued
                       /\ new.status = "Pending" => new.issued = 0
  BY <1>1, <1>3 DEF AddsKept
<1>5. Kept'[l] = n
  BY <1>2, <1>4 DEF Kept
<1>6. shelf' \in Int /\ shelf' <= Tally(Kept) + n
  <2>1. shelf' = IF n <= 0 THEN shelf
                 ELSE (IF sessions[s].seen = NoRow THEN 0 ELSE sessions[s].seen) + n
    BY <1>4 DEF Commit, IncreaseStoreStock
  <2>2. shelf <= Tally(Kept) /\ Tally(Kept) \in Nat /\ shelf \in Int
    BY KeptCount DEF Shelved, ShelfBacked, TypeOK, NoRow
  <2>3. sessions[s].seen <= Tally(Kept) /\ sessions[s].seen \in Int
    <3>1. sessions[s].pc \in {"seen", "drawn"}
      BY DEF Commit, Ready
    <3> QED BY <3>1, Memory DEF Shelved, SeesKept, NoRow
  <2>4. PICK kept \in Nat : kept = Tally(Kept)
    BY <2>2
  <2> QED BY <2>1, <2>2, <2>3, <2>4
<1>7. \A r \in Sessions : \/ sessions'[r] = sessions[r]
                          \/ sessions'[r].pc \notin {"loaded", "marked", "seen", "drawn"}
  <2>1. Becomes(s, Free) \/ Becomes(s, [sessions[s] EXCEPT !.pc = "linking"])
    BY DEF Commit
  <2>2. PICK state : Becomes(s, state) /\ state.pc \notin {"loaded", "marked", "seen", "drawn"}
    BY <2>1, FreeIdle, LinkingTyped
  <2> QED BY <2>2, BecomesOne
<1>8. lines'[l].status = "Pending" => lines'[l].issued = 0
  BY <1>2, <1>4
<1> QED BY <1>2, <1>5, <1>6, <1>7, <1>8, LinesShelved

LEMMA CreateShelved ==
    ASSUME TypeOK, Shelved, NEW o \in Orders, NEW q \in Expected, DispatchTransferOrder(o, q)
    PROVE  Shelved'
<1> DEFINE l == Len(lines) + 1
<1>1. /\ DOMAIN lines' = DOMAIN lines \cup {l}
      /\ l \notin DOMAIN lines
      /\ \A k \in DOMAIN lines : lines'[k] = lines[k]
      /\ lines'[l].status = "Pending" /\ lines'[l].issued = 0
  <2>1. l \notin DOMAIN lines
    BY Rows
  <2>2. DOMAIN lines' = DOMAIN lines \cup {l}
    BY LineCreated, Rows, OneMore
  <2>3. NewLine(o, q).status = "Pending" /\ NewLine(o, q).issued = 0
    BY DEF NewLine
  <2> QED BY <2>1, <2>2, <2>3, LineCreated
<1>2. UNCHANGED <<shelf, sessions>>
  BY DEF DispatchTransferOrder
<1> HIDE DEF l
<1>3. PICK zero \in Nat : zero = 0
  OBVIOUS
<1>4. Kept'[l] = zero
  BY <1>1, <1>3 DEF Kept
<1>5. shelf' \in Int /\ shelf' <= Tally(Kept) + zero
  BY <1>2, <1>3, KeptCount DEF Shelved, ShelfBacked, TypeOK, NoRow
<1> QED BY <1>1, <1>2, <1>4, <1>5, LinesShelved

LEMMA LinkShelved ==
    ASSUME TypeOK, Shelved, NEW s \in Sessions, LinkReturn(s)
    PROVE  Shelved'
<1> DEFINE row == [lines[sessions[s].line] EXCEPT !.ret = sessions[s].code]
<1>1. /\ Active(s) /\ row \in Line
      /\ lines' = [lines EXCEPT ![sessions[s].line] = row]
      /\ sessions[s].line \in DOMAIN lines
      /\ lines[sessions[s].line] \in Line
  BY LinkLine, Rows
<1>2. /\ row.status = lines[sessions[s].line].status
      /\ row.received = lines[sessions[s].line].received
      /\ row.issued = lines[sessions[s].line].issued
  BY <1>1 DEF Line
<1> HIDE DEF row
<1>3. /\ DOMAIN lines' = DOMAIN lines
      /\ \A l \in DOMAIN lines :
            lines'[l] = IF l = sessions[s].line THEN row ELSE lines[l]
  BY <1>1, LineReplaced
<1>4. \A l \in DOMAIN lines : /\ lines'[l].status = lines[l].status
                              /\ lines'[l].received = lines[l].received
                              /\ lines'[l].issued = lines[l].issued
  BY <1>2, <1>3
<1>5. PICK c, d : c = Kept /\ d = Kept'
  OBVIOUS
<1>6. DOMAIN d = DOMAIN c /\ \A l \in DOMAIN c : d[l] = c[l]
  BY <1>3, <1>4, <1>5 DEF Kept
<1>7. Units(d) = Units(c) /\ Tally(d) = Tally(c)
  BY <1>6, TallySame
<1>8. /\ Units(Kept)' = Units(Kept) /\ Tally(Kept)' = Tally(Kept)
      /\ \A l \in DOMAIN lines : Kept'[l] = Kept[l]
  <2>1. DOMAIN c = DOMAIN lines
    BY <1>5 DEF Kept
  <2>2. Units(Kept) = Units(c) /\ Tally(Kept) = Tally(c)
    BY <1>5
  <2>3. Units(Kept)' = Units(d) /\ Tally(Kept)' = Tally(d)
    BY <1>5 DEF Units, Tally
  <2> QED BY <1>5, <1>6, <1>7, <2>1, <2>2, <2>3
<1>9. UNCHANGED shelf /\ Becomes(s, Free)
  BY DEF LinkReturn
<1>10. \A r \in Sessions : sessions'[r] = IF r = s THEN Free ELSE sessions[r]
  BY <1>9, BecomesOne
<1>11. \A r \in Sessions : Settling(r)' => AddsKept(sessions[r])'
  BY <1>10, FreeIdle DEF Shelved, Settling, AddsKept
<1>12. \A r \in Sessions : sessions'[r].pc \in {"seen", "drawn"} => SeesKept(sessions[r])'
  BY <1>8, <1>10, FreeIdle DEF Shelved, SeesKept
<1>13. ShelfBacked'
  BY <1>8, <1>9 DEF Shelved, ShelfBacked
<1> QED BY <1>3, <1>4, <1>8, <1>11, <1>12, <1>13 DEF Shelved

LEMMA ShelvedStep ==
    ASSUME TypeOK, Decided, Settled, Shelved, "settle" \in Discipline, [Next]_vars
    PROVE  Shelved'
<1>1. CASE UNCHANGED <<lines, shelf, sessions>>
  BY <1>1 DEF Shelved, Kept, ShelfBacked, Settling, AddsKept, SeesKept, Tally, Units
<1>2. CASE \E o \in Orders, q \in Expected : DispatchTransferOrder(o, q)
  BY <1>2, CreateShelved
<1>3. CASE \E s \in Sessions : \E l \in DOMAIN lines : Loads(s, l)
  BY <1>3, LoadShelved
<1>4. CASE \E s \in Sessions : ReadOrder(s) \/ ReadShelf(s) \/ DrawCode(s)
  BY <1>4, MoveShelved
<1>5. CASE \E s \in Sessions : Abort(s)
  BY <1>5, QuietShelved, FreeIdle DEF Abort
<1>6. CASE \E s \in Sessions : Commit(s)
  BY <1>6, CommitShelved
<1>7. CASE \E s \in Sessions : LinkReturn(s)
  BY <1>7, LinkShelved
<1>8. CASE \E s \in Sessions : Crash(s)
  BY <1>8, QuietShelved, DeadTyped DEF Crash
<1> QED BY <1>1, <1>2, <1>3, <1>4, <1>5, <1>6, <1>7, <1>8, EachStep DEF Proceed, UpdateStatus, vars

\* ShelfBacked holds then too, however counts and issues of different lines interleave and
\* whichever process dies: the sum of an older reading loses units and never invents one.
THEOREM ShelfIsBacked ==
    ASSUME "settle" \in Discipline PROVE Spec => []ShelfBacked
<1>1. Init => Shelved
  <2> SUFFICES ASSUME Init PROVE Shelved
    OBVIOUS
  <2>1. DOMAIN Kept = {} /\ DOMAIN lines = {} /\ shelf = NoRow
    BY DEF Init, Kept
  <2>2. IsFiniteSet(Units(Kept)) /\ Tally(Kept) = 0
    BY <2>1, TallyOfNothing
  <2>3. \A s \in Sessions : sessions[s].pc = "idle"
    BY FreeIdle DEF Init
  <2> QED BY <2>1, <2>2, <2>3 DEF Shelved, ShelfBacked, NoRow, Settling
<1>2. TypeOK /\ Decided /\ Settled /\ Shelved /\ [Next]_vars => Shelved'
  BY ShelvedStep
<1>3. Shelved => ShelfBacked
  BY DEF Shelved
<1> QED BY <1>1, <1>2, <1>3, TypedAlways, SettledAlways, PTL DEF Spec
=============================================================================
