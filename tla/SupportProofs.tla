----------------------------- MODULE SupportProofs -----------------------------
(***************************************************************************)
(* Theorems about Support, for every value of its constants.               *)
(***************************************************************************)
EXTENDS Support, Tables

-----------------------------------------------------------------------------
(* The actions, and what a step does to each variable *)

\* update_ticket with whatever the form holds.
Updates(h) ==
    \E status \in (Statuses \ {"reopened"}) \cup {"keep"}, p \in Priorities,
       agent \in Agents \cup {work[h].loaded.assignee} : UpdateTicket(h, status, p, agent)

LEMMA TicketsStep ==
    [Next]_vars =>
        \/ UNCHANGED tickets
        \/ \E p \in Priorities : CreateTicket(p)
        \/ \E h \in Handlers : AddMessage(h) \/ Updates(h) \/ ReopenTicket(h)
        \/ (\E t \in sweep.breached : Tell(t)) \/ EndSweep
BY DEF vars, Next, Begin, Finish, SweepOn, UpsertRoutingRule, Load, BeginSweep, FindBreached,
       PassOver, CrashHandler, CrashSweep, Tick, Updates

LEMMA WorkStep ==
    [Next]_vars =>
        \/ UNCHANGED work
        \/ \E h \in Handlers, t \in DOMAIN tickets, pc \in {"replying", "updating"} : Load(h, t, pc)
        \/ \E h \in Handlers : Becomes(h, Free)
BY DEF vars, Next, Begin, Finish, SweepOn, UpsertRoutingRule, CreateTicket, AddMessage,
       UpdateTicket, ReopenTicket, Commit, BeginSweep, FindBreached, Tell, PassOver, EndSweep,
       CrashHandler, CrashSweep, Tick

LEMMA SweepStep ==
    [Next]_vars =>
        \/ UNCHANGED <<sweep, told, swept>>
        \/ BeginSweep \/ FindBreached \/ EndSweep \/ CrashSweep
        \/ \E t \in sweep.breached : Tell(t) \/ PassOver(t)
BY DEF vars, Next, Begin, Finish, SweepOn, UpsertRoutingRule, CreateTicket, Load,
       AddMessage, UpdateTicket, ReopenTicket, Commit, CrashHandler, Tick

LEMMA TouchedStep ==
    [Next]_vars =>
        \/ UNCHANGED touched
        \/ \E h \in Handlers :
              work[h].pc # "idle" /\ touched' = touched \cup {work[h].ticket}
        \/ touched' = {} /\ sweep'.pc = "idle"
<1>1. ASSUME NEW h \in Handlers, NEW new, work[h].pc # "idle", Commit(h, new)
      PROVE  \/ touched' = touched \cup {work[h].ticket}
             \/ touched' = {} /\ sweep'.pc = "idle"
  BY <1>1 DEF Commit
<1>2. ASSUME NEW h \in Handlers, AddMessage(h) \/ Updates(h) \/ ReopenTicket(h)
      PROVE  \/ UNCHANGED touched
             \/ touched' = touched \cup {work[h].ticket}
             \/ touched' = {} /\ sweep'.pc = "idle"
  <2>1. work[h].pc # "idle"
    BY <1>2 DEF AddMessage, Updates, UpdateTicket, ReopenTicket
  <2>2. UNCHANGED touched \/ \E new : Commit(h, new)
    BY <1>2 DEF AddMessage, Updates, UpdateTicket, ReopenTicket
  <2> QED BY <1>1, <2>1, <2>2
<1>3. ASSUME NEW h \in Handlers, AddMessage(h) \/ Updates(h) \/ ReopenTicket(h)
      PROVE  work[h].pc # "idle"
  BY <1>3 DEF AddMessage, Updates, UpdateTicket, ReopenTicket
<1>4. CASE EndSweep \/ CrashSweep
  BY <1>4 DEF EndSweep, CrashSweep, SweepOver, Asleep
<1>5. [Next]_vars =>
         \/ UNCHANGED touched
         \/ \E h \in Handlers : AddMessage(h) \/ Updates(h) \/ ReopenTicket(h)
         \/ EndSweep \/ CrashSweep
  BY DEF vars, Next, Begin, Finish, SweepOn, UpsertRoutingRule, CreateTicket, Load, Updates,
         BeginSweep, FindBreached, Tell, PassOver, CrashHandler, Tick
<1> QED BY <1>2, <1>3, <1>4, <1>5

LEMMA ScalarsStep ==
    ASSUME [Next]_vars
    PROVE  /\ now' \in {now, now + 1}
           /\ routing' = routing \/ routing' \in Agents \cup {Nobody}
           /\ failed' = failed \/ failed' \in BOOLEAN
           /\ crashes' \in {crashes, crashes + 1}
<1>1. now' \in {now, now + 1}
  BY DEF vars, histories, Next, Begin, Finish, SweepOn, UpsertRoutingRule, CreateTicket,
         Load, AddMessage, UpdateTicket, ReopenTicket, Commit, BeginSweep,
         FindBreached, Tell, PassOver, EndSweep, SweepOver, CrashHandler, CrashSweep, Tick
<1>2. routing' = routing \/ routing' \in Agents \cup {Nobody}
  BY DEF vars, histories, Next, Begin, Finish, SweepOn, UpsertRoutingRule, CreateTicket,
         Load, AddMessage, UpdateTicket, ReopenTicket, Commit, BeginSweep,
         FindBreached, Tell, PassOver, EndSweep, SweepOver, CrashHandler, CrashSweep, Tick
<1>3. failed' = failed \/ failed' \in BOOLEAN
  BY DEF vars, histories, Next, Begin, Finish, SweepOn, UpsertRoutingRule, CreateTicket,
         Load, AddMessage, UpdateTicket, ReopenTicket, Commit, BeginSweep,
         FindBreached, Tell, PassOver, EndSweep, SweepOver, CrashHandler, CrashSweep, Tick
<1>4. crashes' \in {crashes, crashes + 1}
  BY DEF vars, histories, Next, Begin, Finish, SweepOn, UpsertRoutingRule, CreateTicket,
         Load, AddMessage, UpdateTicket, ReopenTicket, Commit, BeginSweep,
         FindBreached, Tell, PassOver, EndSweep, SweepOver, CrashHandler, CrashSweep, Tick
<1> QED BY <1>1, <1>2, <1>3, <1>4

-----------------------------------------------------------------------------
(* Types *)

LEMMA ConstantTypes ==
    /\ Priorities # {} /\ Window \in Nat
    /\ \A p \in Priorities : Hours[p] \in Nat
BY SupportAssumption DEF Priorities

\* What a handler or the sweep has at hand is there.
Sound ==
    /\ TypeOK
    /\ \A h \in Handlers : work[h].pc # "idle" => work[h].ticket \in DOMAIN tickets
    /\ sweep.breached \cup sweep.closing \subseteq DOMAIN tickets

LEMMA Rows ==
    ASSUME Sound
    PROVE  /\ Len(tickets) \in Nat /\ DOMAIN tickets = 1..Len(tickets)
           /\ \A t \in DOMAIN tickets : tickets[t] \in Ticket
           /\ \A h \in Handlers :
                /\ work[h] \in Work
                /\ work[h].loaded \in Ticket
                /\ work[h].pc # "idle" => work[h].ticket \in DOMAIN tickets
BY LenProperties, ElementOfSeq DEF Sound, TypeOK, Work

LEMMA FreeTyped == Free \in Work /\ NoTicket \in Ticket
<1>1. (CHOOSE p \in Priorities : TRUE) \in Priorities
  BY ConstantTypes
<1>2. NoTicket \in Ticket
  BY <1>1 DEF NoTicket, Ticket, Statuses, Times
<1> QED BY <1>2 DEF Free, Work

LEMMA NewTicketTyped ==
    ASSUME Sound, NEW p \in Priorities
    PROVE  NewTicket(p) \in Ticket /\ NewTicket(p).status = "open"
<1>1. now + Hours[p] \in Nat
  BY ConstantTypes DEF Sound, TypeOK
<1>2. routing \in Agents \cup {Nobody}
  BY DEF Sound, TypeOK
<1> QED BY <1>1, <1>2 DEF NewTicket, DueAt, Ticket, Statuses, Times

LEMMA FlushedTyped ==
    ASSUME NEW loaded \in Ticket, NEW new \in Ticket, NEW current \in Ticket
    PROVE  /\ Flushed(loaded, new, current) \in Ticket
           /\ Flushed(loaded, new, current).status =
                 IF new.status = loaded.status THEN current.status ELSE new.status
BY DEF Flushed, Column, Ticket

LEMMA StampedTyped ==
    ASSUME Sound, NEW ticket \in Ticket, NEW status \in Statuses \cup {"keep"}
    PROVE  Stamped(ticket, status) \in Ticket
<1>1. now \in Times
  BY DEF Sound, TypeOK, Times
<1>2. CASE status = "keep"
  BY <1>2 DEF Stamped
<1>3. CASE status = "resolved"
  BY <1>1, <1>3 DEF Stamped, Ticket, Statuses
<1>5. CASE status \notin {"keep", "resolved"}
  <2>1. Stamped(ticket, status) = [ticket EXCEPT !.status = status]
    BY <1>5 DEF Stamped
  <2> QED BY <1>5, <2>1 DEF Ticket
<1> QED BY <1>2, <1>3, <1>5

LEMMA AnsweredTyped ==
    ASSUME NEW ticket \in Ticket
    PROVE  /\ Answered(ticket) \in Ticket
           /\ Answered(ticket).status # ticket.status => ticket.status = "open"
BY DEF Answered, Ticket, Statuses

LEMMA ClosedTyped ==
    ASSUME NEW row \in Ticket
    PROVE  /\ [row EXCEPT !.status = "closed"] \in Ticket
           /\ [row EXCEPT !.status = "closed"].status = "closed"
BY DEF Ticket, Statuses

LEMMA ClosedAllTyped ==
    ASSUME Sound, NEW batch
    PROVE  /\ ClosedAll(batch) \in Seq(Ticket)
           /\ DOMAIN ClosedAll(batch) = DOMAIN tickets
           /\ \A t \in DOMAIN tickets :
                IF t \in batch THEN ClosedAll(batch)[t].status = "closed"
                               ELSE ClosedAll(batch)[t] = tickets[t]
<1>1. \A t \in DOMAIN tickets :
         /\ [tickets[t] EXCEPT !.status = "closed"] \in Ticket
         /\ [tickets[t] EXCEPT !.status = "closed"].status = "closed"
  BY Rows, ClosedTyped
<1>2. ClosedAll(batch) \in [1..Len(tickets) -> Ticket]
  BY <1>1, Rows DEF ClosedAll
<1>3. ClosedAll(batch) \in Seq(Ticket)
  BY <1>2, Rows, RowsMapped
<1> QED BY <1>1, <1>3 DEF ClosedAll

\* What handler h can make of the ticket it works on: only a decision on the ticket it
\* loaded, or a reply to an open one, changes the status.
Write(h, row) ==
    /\ work[h].pc # "idle"
    /\ row \in Ticket
    /\ tickets' = [tickets EXCEPT ![work[h].ticket] = row]
    /\ Becomes(h, Free)
    /\ UNCHANGED <<now, sweep, told, swept>>
    /\ touched' = IF sweep.pc = "idle" THEN {} ELSE touched \cup {work[h].ticket}
    /\ row.status # tickets[work[h].ticket].status =>
          \/ work[h].pc = "updating" /\ row.status # work[h].loaded.status
          \/ work[h].pc = "replying" /\ work[h].loaded.status = "open"

\* The commit of a handler that changes the status of the ticket it loaded only as Write
\* says.
LEMMA CommitWrites ==
    ASSUME Sound, NEW h \in Handlers, NEW new \in Ticket, Commit(h, new),
           work[h].pc # "idle",
           new.status # work[h].loaded.status =>
              \/ work[h].pc = "updating"
              \/ work[h].pc = "replying" /\ work[h].loaded.status = "open"
    PROVE  \E row \in Ticket : Write(h, row)
<1> DEFINE t == work[h].ticket
           row == Flushed(work[h].loaded, new, tickets[t])
<1>1. t \in DOMAIN tickets /\ tickets[t] \in Ticket /\ work[h].loaded \in Ticket
  BY Rows
<1>2. /\ row \in Ticket
      /\ row.status = IF new.status = work[h].loaded.status THEN tickets[t].status
                      ELSE new.status
  BY <1>1, FlushedTyped
<1>3. tickets' = [tickets EXCEPT ![t] = row]
  BY DEF Commit
<1>4. Write(h, row)
  BY <1>2, <1>3 DEF Write, Commit
<1> QED BY <1>2, <1>4

LEMMA MessageWrites ==
    ASSUME Sound, NEW h \in Handlers, AddMessage(h)
    PROVE  \E row \in Ticket : Write(h, row)
<1>1. work[h].loaded \in Ticket
  BY Rows
<1>2. /\ Answered(work[h].loaded) \in Ticket
      /\ Answered(work[h].loaded).status # work[h].loaded.status =>
            work[h].loaded.status = "open"
  BY <1>1, AnsweredTyped
<1> QED BY <1>2, CommitWrites DEF AddMessage

LEMMA UpdateWrites ==
    ASSUME Sound, NEW h \in Handlers, Updates(h)
    PROVE  \E row \in Ticket : Write(h, row)
<1> PICK status \in (Statuses \ {"reopened"}) \cup {"keep"}, p \in Priorities,
         agent \in Agents \cup {work[h].loaded.assignee} : UpdateTicket(h, status, p, agent)
  BY DEF Updates
<1> DEFINE form == [work[h].loaded EXCEPT !.priority = p, !.assignee = agent]
<1>1. work[h].loaded \in Ticket
  BY Rows
<1>2. form \in Ticket
  BY <1>1 DEF Ticket
<1>3. Stamped(form, status) \in Ticket
  BY <1>2, StampedTyped
<1>4. Commit(h, Stamped(form, status)) /\ work[h].pc = "updating"
  BY DEF UpdateTicket
<1> HIDE DEF form
<1> QED BY <1>3, <1>4, CommitWrites

LEMMA ReopenWrites ==
    ASSUME Sound, NEW h \in Handlers, ReopenTicket(h)
    PROVE  UNCHANGED tickets \/ \E row \in Ticket : Write(h, row)
<1> DEFINE new == [work[h].loaded EXCEPT !.status = "reopened", !.resolvedAt = Never]
<1>1. work[h].loaded \in Ticket
  BY Rows
<1>2. new \in Ticket
  BY <1>1 DEF Ticket, Statuses, Times
<1>3. UNCHANGED tickets \/ Commit(h, new)
  BY DEF ReopenTicket
<1>4. work[h].pc = "updating"
  BY DEF ReopenTicket
<1> HIDE DEF new
<1> QED BY <1>2, <1>3, <1>4, CommitWrites

\* Tickets are added, written by a handler, or closed by the sweep.
LEMMA TicketChange ==
    ASSUME Sound, [Next]_vars
    PROVE  \/ UNCHANGED tickets
           \/ \E p \in Priorities : CreateTicket(p)
           \/ \E h \in Handlers : \E row \in Ticket : Write(h, row)
           \/ sweep' # sweep /\ tickets' = ClosedAll(sweep.closing)
<1>2. CASE \E h \in Handlers : AddMessage(h)
  BY <1>2, MessageWrites
<1>3. CASE \E h \in Handlers : Updates(h)
  BY <1>3, UpdateWrites
<1>4. CASE \E h \in Handlers : ReopenTicket(h)
  BY <1>4, ReopenWrites
<1>5. CASE \E t \in sweep.breached : Tell(t)
  <2> PICK t \in sweep.breached : Tell(t)
    BY <1>5
  <2>1. sweep'.breached = sweep.breached \ {t}
    BY DEF Tell, Sound, TypeOK, Sweep
  <2> QED BY <2>1 DEF Tell
<1>6. CASE EndSweep
  BY <1>6 DEF EndSweep, SweepOver, Asleep
<1> QED BY <1>2, <1>3, <1>4, <1>5, <1>6, TicketsStep

LEMMA WriteRows ==
    ASSUME Sound, NEW h \in Handlers, NEW row \in Ticket, Write(h, row)
    PROVE  /\ work[h].ticket \in DOMAIN tickets
           /\ tickets' \in Seq(Ticket)
           /\ DOMAIN tickets' = DOMAIN tickets
           /\ \A t \in DOMAIN tickets :
                tickets'[t] = IF t = work[h].ticket THEN row ELSE tickets[t]
<1>1. work[h].ticket \in DOMAIN tickets
  BY Rows DEF Write
<1>2. tickets \in Seq(Ticket)
  BY DEF Sound, TypeOK
<1>3. tickets' = [tickets EXCEPT ![work[h].ticket] = row]
  BY DEF Write
<1> QED BY <1>1, <1>2, <1>3, RowChanged

\* Tickets keep their type, and none is deleted.
LEMMA TicketsTyped ==
    ASSUME Sound, [Next]_vars
    PROVE  tickets' \in Seq(Ticket) /\ DOMAIN tickets \subseteq DOMAIN tickets'
<1>0. tickets \in Seq(Ticket)
  BY DEF Sound, TypeOK
<1>1. CASE \E p \in Priorities : CreateTicket(p)
  <2> PICK p \in Priorities : CreateTicket(p)
    BY <1>1
  <2>1. tickets' = Append(tickets, NewTicket(p)) /\ NewTicket(p) \in Ticket
    BY NewTicketTyped DEF CreateTicket
  <2> DEFINE row == NewTicket(p)
  <2> HIDE DEF row
  <2>2. tickets' = Append(tickets, row) /\ row \in Ticket
    BY <2>1 DEF row
  <2> QED BY <1>0, <2>2, RowAdded
<1>2. CASE \E h \in Handlers : \E row \in Ticket : Write(h, row)
  BY <1>2, WriteRows
<1>3. CASE tickets' = ClosedAll(sweep.closing)
  BY <1>3, ClosedAllTyped
<1> QED BY <1>0, <1>1, <1>2, <1>3, TicketChange

\* The value each handler's memory can take, and that its ticket exists.
LEMMA WorkTyped ==
    ASSUME Sound, [Next]_vars
    PROVE  /\ work' \in [Handlers -> Work]
           /\ \A h \in Handlers : work'[h].pc # "idle" => work'[h].ticket \in DOMAIN tickets'
<1>0. /\ work \in [Handlers -> Work]
      /\ \A h \in Handlers : work[h].pc # "idle" => work[h].ticket \in DOMAIN tickets
      /\ DOMAIN tickets \subseteq DOMAIN tickets'
  BY TicketsTyped DEF Sound, TypeOK
<1>a. ASSUME NEW h \in Handlers, NEW state \in Work, Becomes(h, state),
             state.pc # "idle" => state.ticket \in DOMAIN tickets'
      PROVE  /\ work' \in [Handlers -> Work]
             /\ \A g \in Handlers : work'[g].pc # "idle" => work'[g].ticket \in DOMAIN tickets'
  BY <1>0, <1>a DEF Becomes
<1>2. CASE \E h \in Handlers, t \in DOMAIN tickets, pc \in {"replying", "updating"} : Load(h, t, pc)
  <2> PICK h \in Handlers, t \in DOMAIN tickets, pc \in {"replying", "updating"} : Load(h, t, pc)
    BY <1>2
  <2> DEFINE state == [pc |-> pc, ticket |-> t, loaded |-> tickets[t]]
  <2>1. tickets[t] \in Ticket /\ t \in Nat
    BY Rows
  <2>2. state \in Work /\ state.ticket = t
    BY <2>1 DEF Work
  <2>3. Becomes(h, state)
    BY DEF Load
  <2> HIDE DEF state
  <2> QED BY <1>0, <1>a, <2>2, <2>3
<1>3. CASE \E h \in Handlers : Becomes(h, Free)
  <2>1. Free \in Work /\ Free.pc = "idle"
    BY FreeTyped DEF Free
  <2> QED BY <1>3, <1>a, <2>1
<1>4. CASE UNCHANGED work
  BY <1>0, <1>4
<1> QED BY <1>2, <1>3, <1>4, WorkStep

LEMMA SweepTyped ==
    ASSUME Sound, [Next]_vars
    PROVE  /\ sweep' \in Sweep
           /\ sweep'.breached \cup sweep'.closing \subseteq DOMAIN tickets'
           /\ told' \cup swept' \subseteq DOMAIN tickets'
<1>0. /\ sweep \in Sweep /\ sweep.breached \cup sweep.closing \subseteq DOMAIN tickets
      /\ told \cup swept \subseteq DOMAIN tickets
      /\ DOMAIN tickets \subseteq DOMAIN tickets'
      /\ DOMAIN tickets \subseteq Nat
  BY TicketsTyped, Rows DEF Sound, TypeOK
<1>1. CASE BeginSweep
  <2> DEFINE closing == ResolvedBefore(now - Window)
  <2>1. closing \subseteq DOMAIN tickets
    BY DEF ResolvedBefore
  <2>2. sweep' = [pc |-> "reading", closing |-> closing, breached |-> {}, named |-> {}]
    BY <1>1 DEF BeginSweep, Asleep
  <2>3. UNCHANGED <<told, swept>>
    BY <1>1 DEF BeginSweep
  <2> HIDE DEF closing
  <2> QED BY <1>0, <2>1, <2>2, <2>3 DEF Sweep
<1>2. CASE FindBreached
  <2> DEFINE late == {t \in DOMAIN tickets : Breached(tickets[t])}
             known == {t \in late : tickets[t].assignee # Nobody}
  <2>1. late \subseteq DOMAIN tickets /\ known \subseteq DOMAIN tickets
    OBVIOUS
  <2>2. sweep' = [sweep EXCEPT !.pc = "telling", !.breached = late, !.named = known]
    BY <1>2 DEF FindBreached
  <2>3. UNCHANGED <<told, swept>>
    BY <1>2 DEF FindBreached
  <2> HIDE DEF late, known
  <2> QED BY <1>0, <2>1, <2>2, <2>3 DEF Sweep
<1>3. CASE \E t \in sweep.breached : Tell(t) \/ PassOver(t)
  <2> PICK t \in sweep.breached : Tell(t) \/ PassOver(t)
    BY <1>3
  <2> QED BY <1>0 DEF Tell, PassOver, Sweep
<1>4. CASE EndSweep \/ CrashSweep
  BY <1>0, <1>4 DEF EndSweep, CrashSweep, SweepOver, Asleep, Sweep
<1> QED BY <1>0, <1>1, <1>2, <1>3, <1>4, SweepStep

LEMMA TouchedTyped ==
    ASSUME Sound, [Next]_vars PROVE touched' \subseteq DOMAIN tickets'
<1>0. touched \subseteq DOMAIN tickets /\ DOMAIN tickets \subseteq DOMAIN tickets'
  BY TicketsTyped DEF Sound, TypeOK
<1> QED BY <1>0, TouchedStep DEF Sound

LEMMA SoundStep == ASSUME Sound, [Next]_vars PROVE Sound'
<1>1. now \in Nat /\ crashes \in Nat /\ routing \in Agents \cup {Nobody} /\ failed \in BOOLEAN
  BY DEF Sound, TypeOK
<1>2. now' \in Nat /\ crashes' \in Nat
  BY <1>1, ScalarsStep
<1>3. routing' \in Agents \cup {Nobody} /\ failed' \in BOOLEAN
  BY <1>1, ScalarsStep, ZenonT(30)
<1> QED BY <1>2, <1>3, TicketsTyped, WorkTyped, SweepTyped, TouchedTyped DEF Sound, TypeOK

LEMMA SoundInit == ASSUME Init PROVE Sound
<1>1. work \in [Handlers -> Work] /\ \A h \in Handlers : work[h].pc = "idle"
  BY FreeTyped DEF Init, Free
<1>2. tickets \in Seq(Ticket) /\ DOMAIN tickets = {}
  BY DEF Init
<1> QED BY <1>1, <1>2 DEF Init, Sound, TypeOK, Sweep, Asleep

\* TypeOK holds: each variable holds rows of its table, whatever handlers and sweeps do.
THEOREM TypeCorrect == Spec => []TypeOK
<1>1. Init => Sound
  BY SoundInit
<1>2. Sound /\ [Next]_vars => Sound'
  BY SoundStep
<1>3. Sound => TypeOK
  BY DEF Sound
<1> QED BY <1>1, <1>2, <1>3, PTL DEF Spec
-----------------------------------------------------------------------------
(* What the sweep closes *)

\* What the sweep is about to close is resolved, its window over, or was written since;
\* none of it was closed by this sweep, which closes only at its first commit.
WindowSound ==
    /\ sweep.pc # "committed" => swept = {}
    /\ sweep.pc = "committed" => sweep.closing = {}
    /\ sweep.pc # "idle" =>
          \A t \in sweep.closing :
              \/ t \in touched
              \/ tickets[t].status = "resolved" /\ tickets[t].resolvedAt + Window < now

LEMMA LaterStill ==
    ASSUME NEW a \in Int, NEW b \in Nat, NEW c \in Nat, NEW d \in {c, c + 1}
    PROVE  (a < c - b => a + b < c) /\ (a + b < c => a + b < d)
OBVIOUS

\* A ticket whose window is over remains so.
LEMMA WindowStaysOver ==
    ASSUME Sound, [Next]_vars, NEW t \in DOMAIN tickets,
           tickets[t].resolvedAt + Window < now
    PROVE  tickets[t].resolvedAt + Window < now'
<1>1. tickets[t] \in Ticket
  BY Rows
<1>2. tickets[t].resolvedAt \in Int
  BY <1>1 DEF Ticket, Times, Never
<1>3. now \in Nat /\ Window \in Nat
  BY ConstantTypes DEF Sound, TypeOK
<1>4. now' \in {now, now + 1}
  BY ScalarsStep
<1> DEFINE stamp == tickets[t].resolvedAt
<1>5. stamp \in Int /\ stamp + Window < now
  BY <1>2
<1> HIDE DEF stamp
<1>6. stamp + Window < now'
  BY <1>3, <1>4, <1>5, LaterStill
<1> QED BY <1>6 DEF stamp

LEMMA SelectedAreOver ==
    ASSUME Sound, NEW t \in ResolvedBefore(now - Window)
    PROVE  /\ t \in DOMAIN tickets
           /\ tickets[t].status = "resolved"
           /\ tickets[t].resolvedAt + Window < now
<1>1. t \in DOMAIN tickets /\ tickets[t].status = "resolved"
      /\ tickets[t].resolvedAt < now - Window
  BY DEF ResolvedBefore
<1>2. tickets[t] \in Ticket
  BY <1>1, Rows
<1>3. tickets[t].resolvedAt \in Int
  BY <1>2 DEF Ticket, Times, Never
<1>4. now \in Nat /\ Window \in Nat
  BY ConstantTypes DEF Sound, TypeOK
<1> DEFINE stamp == tickets[t].resolvedAt
<1>5. stamp \in Int /\ stamp < now - Window
  BY <1>1, <1>3
<1> HIDE DEF stamp
<1>6. stamp + Window < now
  BY <1>4, <1>5, LaterStill
<1> QED BY <1>1, <1>6 DEF stamp

LEMMA RowsKept ==
    ASSUME Sound, NEW p \in Priorities, CreateTicket(p)
    PROVE  \A t \in DOMAIN tickets : tickets'[t] = tickets[t]
<1> DEFINE row == NewTicket(p)
<1>1. tickets' = Append(tickets, row) /\ row \in Ticket
  BY NewTicketTyped DEF CreateTicket
<1> HIDE DEF row
<1>2. tickets \in Seq(Ticket)
  BY DEF Sound, TypeOK
<1> QED BY <1>1, <1>2, RowAdded

\* A ticket stays as it is unless a handler writes it, which is recorded while a sweep
\* runs, or a step of the sweep closes it.
LEMMA RowChange ==
    ASSUME Sound, [Next]_vars, UNCHANGED sweep, sweep.pc # "idle", NEW t \in DOMAIN tickets
    PROVE  tickets'[t] = tickets[t] \/ t \in touched'
<1>1. CASE \E p \in Priorities : CreateTicket(p)
  BY <1>1, RowsKept
<1>2. CASE \E h \in Handlers : \E row \in Ticket : Write(h, row)
  <2> PICK h \in Handlers, row \in Ticket : Write(h, row)
    BY <1>2
  <2>1. work[h].ticket \in touched'
    BY DEF Write
  <2> QED BY <2>1, WriteRows
<1> QED BY <1>1, <1>2, TicketChange

LEMMA WindowStep ==
    ASSUME Sound, WindowSound, [Next]_vars
    PROVE  WindowSound'
<1>0. sweep \in Sweep
  BY DEF Sound, TypeOK
<1>1. CASE BeginSweep
  <2>1. /\ sweep'.closing = ResolvedBefore(now - Window) /\ sweep'.pc = "reading"
        /\ swept = {}
        /\ UNCHANGED <<tickets, now, swept>>
    BY <1>1 DEF BeginSweep, Asleep, WindowSound
  <2> QED BY <2>1, SelectedAreOver DEF WindowSound
<1>2. CASE FindBreached
  <2>1. sweep'.closing = sweep.closing /\ sweep'.pc = "telling" /\ sweep.pc = "reading"
    BY <1>0, <1>2 DEF FindBreached, Sweep
  <2>2. UNCHANGED <<tickets, now, touched, swept>>
    BY <1>2 DEF FindBreached
  <2> QED BY <2>1, <2>2 DEF WindowSound
<1>3. CASE \E t \in sweep.breached : Tell(t)
  <2>1. sweep'.closing = {} /\ sweep'.pc = "committed"
    BY <1>0, <1>3 DEF Tell, Sweep
  <2> QED BY <2>1 DEF WindowSound
<1>4. CASE \E t \in sweep.breached : PassOver(t)
  <2>1. sweep'.closing = sweep.closing /\ sweep'.pc = sweep.pc /\ sweep.pc # "idle"
    BY <1>0, <1>4 DEF PassOver, Sweep
  <2>2. UNCHANGED <<tickets, now, touched, swept>>
    BY <1>4 DEF PassOver
  <2> QED BY <2>1, <2>2 DEF WindowSound
<1>5. CASE EndSweep \/ CrashSweep
  BY <1>5 DEF EndSweep, CrashSweep, SweepOver, Asleep, WindowSound
<1>6. CASE UNCHANGED <<sweep, told, swept>>
  <2>1. ASSUME sweep.pc # "idle", NEW t \in sweep.closing
        PROVE  \/ t \in touched'
               \/ tickets'[t].status = "resolved" /\ tickets'[t].resolvedAt + Window < now'
    <3>1. t \in DOMAIN tickets
      BY <2>1 DEF Sound
    <3>2. t \in touched => t \in touched'
      BY <1>6, <2>1, TouchedStep
    <3>3. t \in touched' \/ tickets'[t] = tickets[t]
      BY <1>6, <2>1, <3>1, RowChange
    <3> QED BY <2>1, <3>1, <3>2, <3>3, WindowStaysOver DEF WindowSound
  <2> QED BY <1>6, <2>1 DEF WindowSound
<1> QED BY <1>1, <1>2, <1>3, <1>4, <1>5, <1>6, SweepStep

LEMMA WindowHolds == Spec => [](Sound /\ WindowSound)
<1>1. Init => Sound /\ WindowSound
  <2>1. Init => WindowSound
    BY DEF Init, WindowSound, Asleep
  <2> QED BY <2>1, SoundInit
<1>2. Sound /\ WindowSound /\ [Next]_vars => (Sound /\ WindowSound)'
  BY SoundStep, WindowStep
<1> QED BY <1>1, <1>2, PTL DEF Spec

\* WindowKept holds, with any handlers at work on the tickets while the sweep runs: it
\* closes none twice, and none before its window is over but one that was written since
\* it was selected.
THEOREM WindowIsKept == Spec => WindowKept
<1>1. ASSUME Sound, WindowSound, [Next]_vars, NEW t \in DOMAIN tickets, sweep' # sweep,
             tickets'[t] # tickets[t]
      PROVE  /\ t \notin swept
             /\ \/ t \in touched
                \/ tickets[t].status = "resolved" /\ tickets[t].resolvedAt + Window < now
  <2>1. ~\E p \in Priorities : CreateTicket(p)
    BY <1>1 DEF CreateTicket
  <2>2. ~\E h \in Handlers : \E row \in Ticket : Write(h, row)
    BY <1>1 DEF Write
  <2>3. tickets' = ClosedAll(sweep.closing)
    BY <1>1, <2>1, <2>2, TicketChange
  <2>4. t \in sweep.closing
    BY <1>1, <2>3, ClosedAllTyped
  <2>5. (\E u \in sweep.breached : Tell(u)) \/ EndSweep
    <3>1. ~\E h \in Handlers : AddMessage(h) \/ Updates(h) \/ ReopenTicket(h)
      BY <1>1 DEF AddMessage, Updates, UpdateTicket, ReopenTicket, Commit
    <3> QED BY <1>1, <2>1, <3>1, TicketsStep
  <2>6. sweep.pc # "idle"
    BY <2>5 DEF Tell, EndSweep
  <2> QED BY <1>1, <2>4, <2>6 DEF WindowSound
<1>2. Sound /\ WindowSound /\ [Next]_vars =>
        [\A t \in DOMAIN tickets :
           sweep' # sweep /\ tickets'[t] # tickets[t] =>
               /\ t \notin swept
               /\ \/ t \in touched
                  \/ /\ tickets[t].status = "resolved"
                     /\ tickets[t].resolvedAt + Window < now]_vars
  BY <1>1
<1> QED BY <1>2, WindowHolds, PTL DEF Spec, WindowKept

-----------------------------------------------------------------------------
(* What undoes a resolution *)

\* ResolutionStands holds, with any number of handlers at work on one ticket: of those
\* that loaded it before its resolution, only replies to an open ticket, and updates that
\* were to change its status, take the resolution back.
THEOREM ResolutionsStand == Spec => ResolutionStands
<1>0. ASSUME Sound PROVE \A h \in Handlers : \A state : Becomes(h, state) => work'[h] = state
  BY <1>0 DEF Becomes, Sound, TypeOK
<1>1. ASSUME Sound, [Next]_vars, NEW t \in DOMAIN tickets,
             tickets[t].status = "resolved", tickets'[t].status # "resolved",
             sweep' = sweep
      PROVE  \E h \in Handlers :
                 /\ work[h].ticket = t
                 /\ \/ Decides(h)
                    \/ work[h].pc = "replying" /\ work[h].loaded.status = "open"
  <2>1. ~\E p \in Priorities : CreateTicket(p)
    BY <1>1, RowsKept
  <2>2. PICK h \in Handlers, row \in Ticket : Write(h, row)
    BY <1>1, <2>1, TicketChange
  <2>3. work[h].ticket = t /\ row.status # tickets[t].status /\ tickets'[t] = row
    BY <1>1, <2>2, WriteRows
  <2>4. \/ work[h].pc = "updating" /\ row.status # work[h].loaded.status
        \/ work[h].pc = "replying" /\ work[h].loaded.status = "open"
    BY <2>2, <2>3 DEF Write
  <2>5. work'[h].pc = "idle"
    BY <1>0, <1>1, <2>2 DEF Write, Free
  <2> QED BY <2>3, <2>4, <2>5 DEF Decides
<1>2. Sound /\ [Next]_vars =>
        [\A t \in DOMAIN tickets :
           tickets[t].status = "resolved" /\ tickets'[t].status # "resolved" =>
               \/ sweep' # sweep
               \/ \E h \in Handlers :
                      /\ work[h].ticket = t
                      /\ \/ Decides(h)
                         \/ work[h].pc = "replying" /\ work[h].loaded.status = "open"]_vars
  BY <1>1
<1> QED BY <1>2, WindowHolds, PTL DEF Spec, ResolutionStands
=============================================================================
