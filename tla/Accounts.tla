-------------------------------- MODULE Accounts --------------------------------
(***************************************************************************)
(* Vendors, warehouses and stores from their registration on, the people   *)
(* who sign in for them, and how passwords are reset                       *)
(* (app/services/super_admin/*_admin_service.py, auth/auth_service.py,     *)
(* auth/user_management_service.py, dependencies/auth.py).                 *)
(*                                                                         *)
(* The three kinds of entities go through the same states.  Every handler  *)
(* here looks at a row, then writes it, in a session of its own: the two   *)
(* are steps that interleave, and no row is locked by the first.  The ORM  *)
(* writes the columns a handler changed; a new value overwrites whatever   *)
(* has become of the column since.  Nothing is assumed of the clients.     *)
(***************************************************************************)
EXTENDS Naturals, Sequences

CONSTANTS
    Entities,
    AdminsCreatable,   \* the entities whose admins may create admins: stores
    Sessions,
    MaxUsers, MaxResets   \* bounds

ASSUME AccountsAssumption ==
    /\ AdminsCreatable \subseteq Entities
    /\ "none" \notin Entities
    /\ {MaxUsers, MaxResets} \subseteq Nat

VARIABLES
    entities,   \* the status of vendors, warehouses and stores, and their approved_on
    users,      \* users
    signedIn,   \* the users who hold a token, of access or to refresh it, that is still valid
    resets,     \* password_reset_tokens
    sessions    \* what the handler in each session has in memory

vars == <<entities, users, signedIn, resets, sessions>>

-----------------------------------------------------------------------------
(* Rows *)

\* "Suspended" and "Inactive" are values no code sets.
Statuses == {"unregistered", "Pending Approval", "Active", "Rejected", "Blocked"}
Roles == {"admin", "manager"}

Entity == [status : Statuses, approved : BOOLEAN]

\* password: the reset token it was set with, 0 if otherwise.
User == [entity : Entities, role : Roles, active : BOOLEAN, password : Nat]
Reset == [user : Nat, used : BOOLEAN]

NewUser(e, role) == [entity |-> e, role |-> role, active |-> TRUE, password |-> 0]

Reviews == {"approve", "reject", "block", "unblock"}
Managements == {"create", "role", "status"}
Operations == Reviews \cup Managements \cup {"sign in", "reset"}

\* entity: the one concerned; row: the user or the reset token; role, active: what a
\* management gives the user.
Session == [op : Operations \cup {"none"}, entity : Entities \cup {"none"},
            row : Nat, role : Roles, active : BOOLEAN]
Free == [op |-> "none", entity |-> "none", row |-> 0, role |-> "manager", active |-> FALSE]

-----------------------------------------------------------------------------
(* What the handlers look at *)

FromRejected(op) ==
    CASE op = "reject" -> "Pending Approval"
      [] op = "approve" -> "Rejected"
      [] op = "block" -> "Active"
      [] op = "unblock" -> "Blocked"

From(op) ==
    CASE op \in {"approve", "reject"} -> "Pending Approval"
      [] op = "block" -> "Active"
      [] op = "unblock" -> "Blocked"

To(op) ==
    CASE op \in {"approve", "unblock"} -> "Active"
      [] op = "reject" -> "Rejected"
      [] op = "block" -> "Blocked"

Reviewed(entity, op) ==
    [status |-> To(op), approved |-> entity.approved \/ op = "approve"]

\* authenticate lets an active user in whose entity is active.
NotTurnedAway(u) ==
    users[u].active /\ entities[users[u].entity].status \notin {"Rejected", "Blocked"}

Admitted(u) ==
    users[u].active /\ entities[users[u].entity].status = "Active"

\* What the token says.
MayManageByToken(u) == u \in signedIn

\* get_current_user and require_role look at the user's row at every request, and nobody
\* at the entity's: that was done at sign-in, and refresh_access_token does not either.
MayManage(u) ==
    /\ u \in signedIn
    /\ users[u].active
    /\ users[u].role = "admin"

Creatable(e) == IF e \in AdminsCreatable THEN Roles ELSE {"manager"}

Busy(ops, e) == \E s \in Sessions : sessions[s].op \in ops /\ sessions[s].entity = e

-----------------------------------------------------------------------------
Init ==
    /\ entities = [e \in Entities |-> [status |-> "unregistered", approved |-> FALSE]]
    /\ users = <<>>
    /\ signedIn = {}
    /\ resets = <<>>
    /\ sessions = [s \in Sessions |-> Free]

Becomes(s, session) == sessions' = [sessions EXCEPT ![s] = session]

\* One commit makes the entity and its first admin.
Register(e) ==
    /\ entities[e].status = "unregistered"
    /\ Len(users) < MaxUsers
    /\ entities' = [entities EXCEPT ![e].status = "Pending Approval"]
    /\ users' = Append(users, NewUser(e, "admin"))
    /\ UNCHANGED <<signedIn, resets, sessions>>

-----------------------------------------------------------------------------
(* The super admin: approve, reject, block, unblock *)

BeginReview(s, e, op) ==
    /\ sessions[s].op = "none"
    /\ entities[e].status = From(op)
    /\ Becomes(s, [Free EXCEPT !.op = op, !.entity = e])
    /\ UNCHANGED <<entities, users, signedIn, resets>>

CommitReview(s) ==
    LET me == sessions[s]
    IN  /\ me.op \in Reviews
        /\ entities' = [entities EXCEPT ![me.entity] = Reviewed(@, me.op)]
        /\ Becomes(s, Free)
        /\ UNCHANGED <<users, signedIn, resets>>

-----------------------------------------------------------------------------
(* login and logout *)

\* The commits are that of last_login_at, which is left out, and that of the tokens.
BeginSignIn(s, u) ==
    /\ sessions[s].op = "none"
    /\ Admitted(u)
    /\ Becomes(s, [Free EXCEPT !.op = "sign in", !.entity = users[u].entity, !.row = u])
    /\ UNCHANGED <<entities, users, signedIn, resets>>

CommitSignIn(s) ==
    /\ sessions[s].op = "sign in"
    /\ signedIn' = signedIn \cup {sessions[s].row}
    /\ Becomes(s, Free)
    /\ UNCHANGED <<entities, users, resets>>

\* The last tokens of a user are revoked or expire.
SignOut(u) ==
    /\ u \in signedIn
    /\ signedIn' = signedIn \ {u}
    /\ UNCHANGED <<entities, users, resets, sessions>>

-----------------------------------------------------------------------------
(* An entity's admins: create_user, update_user, update_status *)

BeginManagement(s, u, session) ==
    /\ sessions[s].op = "none"
    /\ MayManage(u)
    /\ Becomes(s, [session EXCEPT !.entity = users[u].entity])
    /\ UNCHANGED <<entities, users, signedIn, resets>>

BeginCreateUser(s, u, role) ==
    /\ role \in Creatable(users[u].entity)
    /\ BeginManagement(s, u, [Free EXCEPT !.op = "create", !.role = role])

Colleague(u, v) == users[v].entity = users[u].entity

\* update_user takes any role, the caller's own account included.
BeginUpdateUser(s, u, v, role) ==
    /\ Colleague(u, v)
    /\ BeginManagement(s, u, [Free EXCEPT !.op = "role", !.row = v, !.role = role])

\* update_status compares the id in the path, a str, with the caller's, a UUID, to keep
\* him from making himself inactive: they are never equal, and nothing is refused.
BeginUpdateStatus(s, u, v, active) ==
    /\ Colleague(u, v)
    /\ BeginManagement(s, u, [Free EXCEPT !.op = "status", !.row = v, !.active = active])

CommitManagement(s) ==
    LET me == sessions[s]
    IN  /\ me.op \in Managements
        /\ me.op = "create" => Len(users) < MaxUsers
        /\ users' = CASE me.op = "create" -> Append(users, NewUser(me.entity, me.role))
                      [] me.op = "role"   -> [users EXCEPT ![me.row].role = me.role]
                      [] me.op = "status" -> [users EXCEPT ![me.row].active = me.active]
        /\ Becomes(s, Free)
        /\ UNCHANGED <<entities, signedIn, resets>>

-----------------------------------------------------------------------------
(* Passwords *)

\* request_password_reset, or an admin's trigger_password_reset.
RequestReset(u) ==
    /\ Len(resets) < MaxResets
    /\ resets' = Append(resets, [user |-> u, used |-> FALSE])
    /\ UNCHANGED <<entities, users, signedIn, sessions>>

AnyToken(t) == TRUE

\* expires_at is left out: a token may be too old at any time without this making a difference.
Usable(t) == ~resets[t].used

BeginReset(s, t) ==
    /\ sessions[s].op = "none"
    /\ Usable(t)
    /\ Becomes(s, [Free EXCEPT !.op = "reset", !.row = t])
    /\ UNCHANGED <<entities, users, signedIn, resets>>

\* reset_password sets the password and uses the token up in one commit.
CommitReset(s) ==
    LET t == sessions[s].row
    IN  /\ sessions[s].op = "reset"
        /\ users' = [users EXCEPT ![resets[t].user].password = t]
        /\ resets' = [resets EXCEPT ![t].used = TRUE]
        /\ Becomes(s, Free)
        /\ UNCHANGED <<entities, signedIn>>

\* change_password, or set_vendor_password by the super admin.
ChangePassword(u) ==
    /\ users' = [users EXCEPT ![u].password = 0]
    /\ UNCHANGED <<entities, signedIn, resets, sessions>>

-----------------------------------------------------------------------------
\* The process dies.
Crash(s) ==
    /\ sessions[s].op # "none"
    /\ Becomes(s, Free)
    /\ UNCHANGED <<entities, users, signedIn, resets>>

Begin(s) ==
    \/ \E e \in Entities, op \in Reviews : BeginReview(s, e, op)
    \/ \E u \in DOMAIN users : BeginSignIn(s, u)
    \/ \E u \in DOMAIN users, role \in Roles : BeginCreateUser(s, u, role)
    \/ \E u, v \in DOMAIN users :
          \/ \E role \in Roles : BeginUpdateUser(s, u, v, role)
          \/ \E active \in BOOLEAN : BeginUpdateStatus(s, u, v, active)
    \/ \E t \in DOMAIN resets : BeginReset(s, t)

End(s) == CommitReview(s) \/ CommitSignIn(s) \/ CommitManagement(s) \/ CommitReset(s) \/ Crash(s)

Next ==
    \/ \E e \in Entities : Register(e)
    \/ \E s \in Sessions : Begin(s) \/ End(s)
    \/ \E u \in DOMAIN users : SignOut(u) \/ RequestReset(u) \/ ChangePassword(u)

Spec == Init /\ [][Next]_vars

-----------------------------------------------------------------------------
(* Properties *)

\* Rows have their types and name rows that exist.
TypeOK ==
    /\ entities \in [Entities -> Entity]
    /\ users \in Seq(User)
    /\ signedIn \subseteq DOMAIN users
    /\ resets \in Seq(Reset)
    /\ sessions \in [Sessions -> Session]
    /\ \A t \in DOMAIN resets : resets[t].user \in DOMAIN users
    /\ \A s \in Sessions :
          /\ sessions[s].op \in Reviews \cup Managements => sessions[s].entity \in Entities
          /\ sessions[s].op \in {"sign in", "role", "status"} => sessions[s].row \in DOMAIN users
          /\ sessions[s].op = "reset" => sessions[s].row \in DOMAIN resets

\* An entity that was never approved has its first account and no other, and nobody is
\* signed in to it, however approvals, rejections, blocks, sign-ins and managements of
\* accounts cross.
NobodyBeforeApproval ==
    \A u \in DOMAIN users :
        ~entities[users[u].entity].approved =>
            /\ u \notin signedIn
            /\ \A v \in DOMAIN users : users[v].entity = users[u].entity => v = u

HasAdmin(e) ==
    \E u \in DOMAIN users : users[u].entity = e /\ users[u].role = "admin" /\ users[u].active

\* No admin is left, and no management that one of them began.
LockedOut(e) ==
    /\ entities[e].status # "unregistered"
    /\ ~HasAdmin(e)
    /\ ~Busy(Managements, e)

\* An entity whose last admin was made inactive or a manager - by himself, or by another
\* one whom he was removing at the same time - has none ever after: nothing its users, or
\* the super admin, can do gives it one.
LockedOutForGood == [][\A e \in Entities : LockedOut(e) => LockedOut(e)']_vars

\* A rejected entity: nothing that began before is under way, and nobody is signed in.
ShutOut(e) ==
    /\ entities[e].status = "Rejected"
    /\ \A s \in Sessions : sessions[s].entity # e
    /\ \A u \in signedIn : users[u].entity # e

\* A rejection is final from the moment on at which no review that crossed it can commit
\* any more (approve and reject each write over what the other did) and those whom such
\* a review let in are gone: nobody gets in again, and its accounts stay what they are.
RejectedForGood ==
    [][\A e \in Entities :
           ShutOut(e) =>
               /\ ShutOut(e)'
               /\ \A u \in DOMAIN users' :
                     users'[u].entity = e =>
                         /\ u \in DOMAIN users
                         /\ users'[u].role = users[u].role
                         /\ users'[u].active = users[u].active]_vars

Holds(s, t) == sessions[s].op = "reset" /\ sessions[s].row = t

\* Once a reset token was used, its password is set again only by handlers that found it
\* unused (it was sent in twice at once), by each of them once: nobody takes it up any more.
ResetOnce ==
    [][\A t \in DOMAIN resets :
           resets[t].used =>
               /\ \A s \in Sessions : Holds(s, t)' => Holds(s, t)
               /\ \A u \in DOMAIN users :
                     users'[u].password = t /\ users[u].password # t =>
                         \E s \in Sessions : Holds(s, t) /\ ~Holds(s, t)']_vars
=============================================================================
