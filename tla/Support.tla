-------------------------------- MODULE Support --------------------------------
(***************************************************************************)
(* The support desk: tickets users raise, staff work on, and the periodic  *)
(* sweep closes or reports (app/services/support/support_service.py,       *)
(* scripts/support_sla_sweep.py).                                          *)
(*                                                                         *)
(* A handler loads a ticket and commits later; the ORM then writes the     *)
(* columns it changed and no others.  The sweep is a process of its own    *)
(* that a scheduler starts again and again.  Any handlers and a sweep may  *)
(* be at work on one ticket.  Texts, messages and attachments are left     *)
(* out, and so are closed_at and email_sent_at, which are shown and decide *)
(* nothing.                                                                *)
(***************************************************************************)
EXTENDS Integers, Sequences

CONSTANTS
    Handlers,      \* the sessions in which requests run
    Agents,        \* whom a ticket can be assigned to
    Nobody,
    Hours,         \* SLA_HOURS_BY_PRIORITY: how long each priority may take
    Window,        \* SUPPORT_TICKET_REOPEN_WINDOW_DAYS
    MaxTickets, MaxCrashes,   \* bounds
    Horizon,       \* bound: requests begin before this time, and are over when it passes
    LastTick       \* bound: the clock stops here

Priorities == DOMAIN Hours
Statuses == {"open", "in_progress", "resolved", "reopened", "closed"}
ReopenAllowed == {"resolved"}
Never == -1
Times == Nat \cup {Never}

ASSUME SupportAssumption ==
    /\ Nobody \notin Agents
    /\ Priorities # {}
    /\ Hours \in [Priorities -> Nat]
    /\ Window \in Nat
    /\ {MaxTickets, MaxCrashes, Horizon, LastTick} \subseteq Nat

VARIABLES
    now,        \* the clock
    routing,    \* support_routing_rules: who gets new tickets
    tickets,    \* support_tickets
    work,       \* per handler, the ticket it loaded
    sweep,      \* what the running sweep has in memory
    told,       \* the tickets whose assignee was notified of a breach
    touched,    \* history: the tickets handlers committed on since the running sweep began
    swept,      \* history: the tickets the running sweep has closed
    failed,     \* history: whether a reopening within the window raised
    crashes     \* history: how often a process died

vars == <<now, routing, tickets, work, sweep, told, touched, swept, failed, crashes>>
histories == <<failed, crashes>>

-----------------------------------------------------------------------------
(* Rows *)

Ticket == [priority : Priorities, status : Statuses, assignee : Agents \cup {Nobody},
           due : Times, resolvedAt : Times]

DueAt(p) == now + Hours[p]

NewTicket(p) == [priority |-> p, status |-> "open", assignee |-> routing,
                 due |-> DueAt(p), resolvedAt |-> Never]

NoTicket == [priority |-> CHOOSE p \in Priorities : TRUE, status |-> "open",
             assignee |-> Nobody, due |-> Never, resolvedAt |-> Never]

Work == [pc : {"idle", "replying", "updating"}, ticket : Nat, loaded : Ticket]
Free == [pc |-> "idle", ticket |-> 0, loaded |-> NoTicket]

\* closing: the tickets it closes at its next commit; breached: those to tell of, named:
\* those of them that had an assignee when they were loaded.
Sweep == [pc : {"idle", "reading", "telling", "committed"},
          closing : SUBSET Nat, breached : SUBSET Nat, named : SUBSET Nat]
Asleep == [pc |-> "idle", closing |-> {}, breached |-> {}, named |-> {}]

\* A column is written when its value is another than the one loaded.
Column(loaded, new, current) == IF new = loaded THEN current ELSE new

AllFlushed(loaded, new, current) == [new EXCEPT !.due = current.due]

Flushed(loaded, new, current) ==
    [priority   |-> Column(loaded.priority, new.priority, current.priority),
     status     |-> Column(loaded.status, new.status, current.status),
     assignee   |-> Column(loaded.assignee, new.assignee, current.assignee),
     due        |-> current.due,
     resolvedAt |-> Column(loaded.resolvedAt, new.resolvedAt, current.resolvedAt)]

-----------------------------------------------------------------------------
(* What the handlers make of the ticket they loaded *)

\* add_message by staff takes an open ticket up.
Answered(ticket) ==
    IF ticket.status = "open" THEN [ticket EXCEPT !.status = "in_progress"] ELSE ticket

\* update_ticket by staff with a status, or none ("keep"); "reopened" goes another way.
Stamped(ticket, status) ==
    CASE status = "keep"     -> ticket
      [] status = "resolved" -> [ticket EXCEPT !.status = status, !.resolvedAt = now]
      [] OTHER               -> [ticket EXCEPT !.status = status]

\* The expiry of the window is tested by comparing utcnow(), which has no time zone, with
\* the stamp a timestamptz column returns, which has one: Python raises TypeError.
CompareRaises(ticket) == ticket.resolvedAt # Never

ResolvedUntil(cutoff) ==
    {t \in DOMAIN tickets : tickets[t].status = "resolved" /\ tickets[t].resolvedAt <= cutoff}

\* The rows run_sla_sweep selects.
ResolvedBefore(cutoff) ==
    {t \in DOMAIN tickets : tickets[t].status = "resolved" /\ tickets[t].resolvedAt < cutoff}

Breached(ticket) == ticket.status \in {"open", "in_progress"} /\ ticket.due < now

ClosedAll(batch) ==
    [t \in DOMAIN tickets |->
        IF t \in batch THEN [tickets[t] EXCEPT !.status = "closed"] ELSE tickets[t]]

-----------------------------------------------------------------------------
(* Handlers *)

Init ==
    /\ now = 0
    /\ routing = Nobody
    /\ tickets = <<>>
    /\ work = [h \in Handlers |-> Free]
    /\ sweep = Asleep
    /\ told = {}
    /\ touched = {}
    /\ swept = {}
    /\ failed = FALSE
    /\ crashes = 0

Becomes(h, state) == work' = [work EXCEPT ![h] = state]

\* The rule for the category at hand; whom it names stands in for "no rule" too.
UpsertRoutingRule(agent) ==
    /\ now < Horizon
    /\ routing' = agent
    /\ UNCHANGED <<now, tickets, work, sweep, told, touched, swept, histories>>

\* create_ticket; the mail to the support address is sent after its commit, and a failure
\* of it swallowed.
CreateTicket(p) ==
    /\ now < Horizon
    /\ Len(tickets) < MaxTickets
    /\ tickets' = Append(tickets, NewTicket(p))
    /\ UNCHANGED <<now, routing, work, sweep, told, touched, swept, histories>>

Load(h, t, pc) ==
    /\ work[h].pc = "idle"
    /\ now < Horizon
    /\ Becomes(h, [pc |-> pc, ticket |-> t, loaded |-> tickets[t]])
    /\ UNCHANGED <<now, routing, tickets, sweep, told, touched, swept, histories>>

Commit(h, new) ==
    /\ tickets' = [tickets EXCEPT ![work[h].ticket] = Flushed(work[h].loaded, new, @)]
    /\ Becomes(h, Free)
    /\ touched' = IF sweep.pc = "idle" THEN {} ELSE touched \cup {work[h].ticket}
    /\ UNCHANGED <<now, routing, sweep, told, swept, histories>>

AddMessage(h) ==
    /\ work[h].pc = "replying"
    /\ Commit(h, Answered(work[h].loaded))

\* update_ticket by staff: a status or none, a priority and an assignee, perhaps the old ones.
UpdateTicket(h, status, p, agent) ==
    /\ work[h].pc = "updating"
    /\ Commit(h, Stamped([work[h].loaded EXCEPT !.priority = p, !.assignee = agent], status))

\* update_ticket with "reopened", by the raiser or by staff.
ReopenTicket(h) ==
    /\ work[h].pc = "updating"
    /\ work[h].loaded.status \in ReopenAllowed
    /\ IF CompareRaises(work[h].loaded)
       THEN /\ failed' = (failed \/ now <= work[h].loaded.resolvedAt + Window)
            /\ Becomes(h, Free)
            /\ UNCHANGED <<now, routing, tickets, sweep, told, touched, swept, crashes>>
       ELSE Commit(h, [work[h].loaded EXCEPT !.status = "reopened", !.resolvedAt = Never])

-----------------------------------------------------------------------------
(* run_sla_sweep *)

\* The first query; its rows are closed in memory.
BeginSweep ==
    /\ sweep.pc = "idle"
    /\ sweep' = [Asleep EXCEPT !.pc = "reading", !.closing = ResolvedBefore(now - Window)]
    /\ UNCHANGED <<now, routing, tickets, work, told, touched, swept, histories>>

\* The second query does not flush them.
FindBreached ==
    /\ sweep.pc = "reading"
    /\ LET breached == {t \in DOMAIN tickets : Breached(tickets[t])}
       IN  sweep' = [sweep EXCEPT !.pc = "telling", !.breached = breached,
                         !.named = {t \in breached : tickets[t].assignee # Nobody}]
    /\ UNCHANGED <<now, routing, tickets, work, told, touched, swept, histories>>

\* A commit makes the session read its rows again when it needs them.
HasAssignee(t) ==
    IF sweep.pc = "telling" THEN t \in sweep.named ELSE tickets[t].assignee # Nobody

\* Each notification commits, the first one the closures as well.
Tell(t) ==
    /\ sweep.pc \in {"telling", "committed"}
    /\ t \in sweep.breached
    /\ HasAssignee(t)
    /\ tickets' = ClosedAll(sweep.closing)
    /\ told' = told \cup {t}
    /\ sweep' = [sweep EXCEPT !.pc = "committed", !.closing = {}, !.breached = @ \ {t}]
    /\ swept' = swept \cup sweep.closing
    /\ UNCHANGED <<now, routing, work, touched, histories>>

PassOver(t) ==
    /\ sweep.pc \in {"telling", "committed"}
    /\ t \in sweep.breached
    /\ ~HasAssignee(t)
    /\ sweep' = [sweep EXCEPT !.breached = @ \ {t}]
    /\ UNCHANGED <<now, routing, tickets, work, told, touched, swept, histories>>

\* The session is gone, and with it what was not committed.
SweepOver == sweep' = Asleep /\ touched' = {} /\ swept' = {}

EndSweepUncommitted ==
    /\ sweep.pc \in {"telling", "committed"}
    /\ sweep.breached = {}
    /\ SweepOver
    /\ UNCHANGED <<now, routing, tickets, work, told, histories>>

EndSweepEarly ==
    /\ sweep.pc \in {"telling", "committed"}
    /\ tickets' = ClosedAll(sweep.closing)
    /\ SweepOver
    /\ UNCHANGED <<now, routing, work, told, histories>>

\* The last commit.
EndSweep ==
    /\ sweep.pc \in {"telling", "committed"}
    /\ sweep.breached = {}
    /\ tickets' = ClosedAll(sweep.closing)
    /\ SweepOver
    /\ UNCHANGED <<now, routing, work, told, histories>>

-----------------------------------------------------------------------------
Tick ==
    /\ now < LastTick
    /\ now = Horizon => \A h \in Handlers : work[h].pc = "idle"
    /\ now' = now + 1
    /\ UNCHANGED <<routing, tickets, work, sweep, told, touched, swept, histories>>

\* A process dies: what it has not committed is gone.
CrashHandler(h) ==
    /\ work[h].pc # "idle"
    /\ crashes < MaxCrashes
    /\ crashes' = crashes + 1
    /\ Becomes(h, Free)
    /\ UNCHANGED <<now, routing, tickets, sweep, told, touched, swept, failed>>

CrashSweep ==
    /\ sweep.pc # "idle"
    /\ crashes < MaxCrashes
    /\ crashes' = crashes + 1
    /\ SweepOver
    /\ UNCHANGED <<now, routing, tickets, work, told, failed>>

Begin(h) == \E t \in DOMAIN tickets, pc \in {"replying", "updating"} : Load(h, t, pc)

Finish(h) ==
    \/ AddMessage(h)
    \/ \E status \in (Statuses \ {"reopened"}) \cup {"keep"}, p \in Priorities,
          agent \in Agents \cup {work[h].loaded.assignee} : UpdateTicket(h, status, p, agent)
    \/ ReopenTicket(h)

SweepOn == FindBreached \/ (\E t \in sweep.breached : Tell(t) \/ PassOver(t)) \/ EndSweep

Next ==
    \/ \E agent \in Agents \cup {Nobody} : UpsertRoutingRule(agent)
    \/ \E p \in Priorities : CreateTicket(p)
    \/ \E h \in Handlers : Begin(h) \/ Finish(h) \/ CrashHandler(h)
    \/ BeginSweep \/ SweepOn \/ CrashSweep
    \/ Tick

Spec == Init /\ [][Next]_vars

\* Time passes, the server runs a handler to its end, and the scheduler starts the sweep
\* again and again.
Fairness ==
    /\ WF_vars(Tick)
    /\ \A h \in Handlers : WF_vars(Finish(h))
    /\ WF_vars(BeginSweep)
    /\ WF_vars(SweepOn)

FairSpec == Spec /\ Fairness

-----------------------------------------------------------------------------
(* Properties *)

\* Each variable holds rows of its table.
TypeOK ==
    /\ now \in Nat
    /\ routing \in Agents \cup {Nobody}
    /\ tickets \in Seq(Ticket)
    /\ work \in [Handlers -> Work]
    /\ sweep \in Sweep
    /\ told \cup touched \cup swept \subseteq DOMAIN tickets
    /\ failed \in BOOLEAN
    /\ crashes \in Nat

\* A sweep closes a ticket once, and it closes one that is still resolved, its window over,
\* unless a handler has committed on the ticket since the sweep selected it: it may have
\* been taken up again meanwhile, and is closed all the same, for the commit checks nothing.
WindowKept ==
    [][\A t \in DOMAIN tickets :
           sweep' # sweep /\ tickets'[t] # tickets[t] =>
               /\ t \notin swept
               /\ \/ t \in touched
                  \/ /\ tickets[t].status = "resolved"
                     /\ tickets[t].resolvedAt + Window < now]_vars

\* Handler h ends, giving its ticket another status than it had when h loaded it.
Decides(h) ==
    /\ work[h].pc = "updating"
    /\ work'[h].pc = "idle"
    /\ tickets'[work[h].ticket].status # work[h].loaded.status

\* A resolution is undone by a sweep, by an update that was to change the status, or by a
\* reply begun when the ticket was open - which does so although it knows nothing of the
\* resolution.  Updates of priority or assignee and all other replies, begun before the
\* resolution and committed after it, leave it alone.
ResolutionStands ==
    [][\A t \in DOMAIN tickets :
           tickets[t].status = "resolved" /\ tickets'[t].status # "resolved" =>
               \/ sweep' # sweep
               \/ \E h \in Handlers :
                      /\ work[h].ticket = t
                      /\ \/ Decides(h)
                         \/ work[h].pc = "replying" /\ work[h].loaded.status = "open"]_vars

\* A resolved ticket does not stay so: the sweep closes it at last unless someone takes it
\* up again, even if sweeps die.
ClosedAtLast ==
    \A t \in 1..MaxTickets :
        LET Resolved == t \in DOMAIN tickets /\ tickets[t].status = "resolved"
        IN  Resolved ~> ~Resolved

\* An assignee learns at last of a ticket that is overdue, unless it is dealt with.
BreachTold ==
    \A t \in 1..MaxTickets :
        LET Overdue == /\ t \in DOMAIN tickets \ told
                       /\ Breached(tickets[t])
                       /\ tickets[t].assignee # Nobody
        IN  Overdue ~> ~Overdue

\* update_ticket refuses to reopen a resolved ticket when the "Reopen window has expired",
\* and for no other reason: within the window a reopening does not fail.
ReopenedWithinWindow == ~failed
=============================================================================
