---------------------------- MODULE AccountsProofs ----------------------------
(***************************************************************************)
(* Theorems about Accounts and, in the second half, about Migrations, for  *)
(* every value of their constants.  The two have nothing in common but     *)
(* Tables; no proof about the one cites the other.                         *)
(***************************************************************************)
EXTENDS Accounts, Migrations, Tables

-----------------------------------------------------------------------------
(* What a step does to each table: the actions that write it *)

LEMMA EntitiesStep ==
    [Next]_vars =>
        \/ UNCHANGED entities
        \/ \E e \in Entities : Register(e)
        \/ \E s \in Sessions : CommitReview(s)
BY DEF vars, Next, Begin, End, BeginReview, BeginSignIn, BeginManagement, BeginCreateUser,
       BeginUpdateUser, BeginUpdateStatus, BeginReset, CommitSignIn, CommitManagement, CommitReset,
       Crash, SignOut, RequestReset, ChangePassword

LEMMA UsersStep ==
    [Next]_vars =>
        \/ UNCHANGED users
        \/ \E e \in Entities : Register(e)
        \/ \E s \in Sessions : CommitManagement(s) \/ CommitReset(s)
        \/ \E u \in DOMAIN users : ChangePassword(u)
BY DEF vars, Next, Begin, End, BeginReview, BeginSignIn, BeginManagement, BeginCreateUser,
       BeginUpdateUser, BeginUpdateStatus, BeginReset, CommitReview, CommitSignIn, Crash, SignOut,
       RequestReset

LEMMA SignedInStep ==
    [Next]_vars =>
        \/ signedIn' \subseteq signedIn
        \/ \E s \in Sessions : CommitSignIn(s)
BY DEF vars, Next, Begin, End, Register, BeginReview, BeginSignIn, BeginManagement, BeginCreateUser,
       BeginUpdateUser, BeginUpdateStatus, BeginReset, CommitReview, CommitManagement, CommitReset,
       Crash, SignOut, RequestReset, ChangePassword

LEMMA ResetsStep ==
    [Next]_vars =>
        \/ UNCHANGED resets
        \/ \E u \in DOMAIN users : RequestReset(u)
        \/ \E s \in Sessions : CommitReset(s)
BY DEF vars, Next, Begin, End, Register, BeginReview, BeginSignIn, BeginManagement, BeginCreateUser,
       BeginUpdateUser, BeginUpdateStatus, BeginReset, CommitReview, CommitSignIn, CommitManagement,
       Crash, SignOut, ChangePassword

LEMMA SessionsStep ==
    [Next]_vars =>
        \/ UNCHANGED sessions
        \/ \E s \in Sessions : Begin(s) \/ End(s)
BY DEF vars, Next, Register, SignOut, RequestReset, ChangePassword

LEMMA Freed == ASSUME NEW s \in Sessions, End(s) PROVE Becomes(s, Free)
BY DEF End, CommitReview, CommitSignIn, CommitManagement, CommitReset, Crash

-----------------------------------------------------------------------------
(* Types *)

\* The values of each variable.
RowsTyped ==
    /\ entities \in [Entities -> Entity]
    /\ users \in Seq(User)
    /\ resets \in Seq(Reset)
    /\ sessions \in [Sessions -> Session]

LEMMA Lengths ==
    ASSUME RowsTyped
    PROVE  /\ Len(users) \in Nat /\ DOMAIN users = 1..Len(users)
           /\ Len(resets) \in Nat /\ DOMAIN resets = 1..Len(resets)
           /\ \A u \in DOMAIN users : users[u] \in User
           /\ \A t \in DOMAIN resets : resets[t] \in Reset
           /\ \A s \in Sessions : sessions[s] \in Session
BY LenProperties, ElementOfSeq DEF RowsTyped

LEMMA TypedRows == ASSUME TypeOK PROVE RowsTyped
BY DEF TypeOK, RowsTyped

LEMMA FreeTyped == Free \in Session /\ Free.op = "none" /\ Free.entity = "none"
BY DEF Free, Session, Roles

LEMMA EntitiesTyped ==
    ASSUME RowsTyped, [Next]_vars PROVE entities' \in [Entities -> Entity]
<1>0. entities \in [Entities -> Entity]
  BY DEF RowsTyped
<1>1. CASE \E e \in Entities : Register(e)
  BY <1>0, <1>1 DEF Register, Entity, Statuses
<1>2. CASE \E s \in Sessions : CommitReview(s)
  <2> PICK s \in Sessions : CommitReview(s)
    BY <1>2
  <2> DEFINE e == sessions[s].entity
             row == Reviewed(entities[e], sessions[s].op)
  <2>1. entities' = [entities EXCEPT ![e] = row] /\ sessions[s].op \in Reviews
    BY DEF CommitReview
  <2>2. To(sessions[s].op) \in Statuses
    BY <2>1 DEF To, Reviews, Statuses
  <2>3. e \in Entities => row \in Entity
    BY <1>0, <2>2 DEF Reviewed, Entity
  <2> QED BY <1>0, <2>1, <2>3
<1> QED BY <1>0, <1>1, <1>2, EntitiesStep

\* A new user.
LEMMA NewUserTyped ==
    ASSUME NEW e \in Entities, NEW role \in Roles
    PROVE  /\ NewUser(e, role) \in User
           /\ NewUser(e, role).entity = e
           /\ NewUser(e, role).role = role
           /\ NewUser(e, role).active
           /\ NewUser(e, role).password = 0
BY DEF NewUser, User

\* One user's row becomes another row of its entity.
Rewrites(u, row) ==
    /\ users' = [users EXCEPT ![u] = row]
    /\ row.entity = users[u].entity

\* A management of accounts adds a user to the entity of the session, or gives one of its
\* users a role or a status.
LEMMA ManagementWrites ==
    ASSUME TypeOK, NEW s \in Sessions, CommitManagement(s)
    PROVE  \/ /\ sessions[s].op = "create"
              /\ users' = Append(users, NewUser(sessions[s].entity, sessions[s].role))
              /\ NewUser(sessions[s].entity, sessions[s].role) \in User
              /\ NewUser(sessions[s].entity, sessions[s].role).entity = sessions[s].entity
           \/ /\ sessions[s].op \in {"role", "status"}
              /\ sessions[s].row \in DOMAIN users
              /\ \E row \in User :
                    /\ Rewrites(sessions[s].row, row)
                    /\ row.password = users[sessions[s].row].password
<1> DEFINE me == sessions[s]
<1>0. me \in Session /\ me.op \in Managements /\ me.entity \in Entities
  BY Lengths DEF CommitManagement, TypeOK, RowsTyped
<1>1. CASE me.op = "create"
  BY <1>0, <1>1, NewUserTyped DEF CommitManagement, Session
<1>2. CASE me.op = "role"
  <2> DEFINE row == [users[me.row] EXCEPT !.role = me.role]
  <2>1. me.row \in DOMAIN users /\ users[me.row] \in User
    BY <1>2, Lengths DEF TypeOK, RowsTyped
  <2>2. users' = [users EXCEPT ![me.row] = row]
    BY <1>2 DEF CommitManagement
  <2>3. /\ row \in User /\ row.entity = users[me.row].entity
        /\ row.password = users[me.row].password
    BY <1>0, <2>1 DEF User, Session
  <2> QED BY <1>2, <2>1, <2>2, <2>3 DEF Rewrites
<1>3. CASE me.op = "status"
  <2> DEFINE row == [users[me.row] EXCEPT !.active = me.active]
  <2>1. me.row \in DOMAIN users /\ users[me.row] \in User
    BY <1>3, Lengths DEF TypeOK, RowsTyped
  <2>2. users' = [users EXCEPT ![me.row] = row]
    BY <1>3 DEF CommitManagement
  <2>3. /\ row \in User /\ row.entity = users[me.row].entity
        /\ row.password = users[me.row].password
    BY <1>0, <2>1 DEF User, Session
  <2> QED BY <1>3, <2>1, <2>2, <2>3 DEF Rewrites
<1> QED BY <1>0, <1>1, <1>2, <1>3 DEF Managements

\* A password is all that changes of its user.
LEMMA PasswordWrites ==
    ASSUME TypeOK, NEW u \in DOMAIN users, NEW t \in Nat,
           users' = [users EXCEPT ![u].password = t]
    PROVE  \E row \in User :
              /\ Rewrites(u, row)
              /\ row.role = users[u].role /\ row.active = users[u].active /\ row.password = t
<1> DEFINE row == [users[u] EXCEPT !.password = t]
<1>1. users[u] \in User
  BY Lengths DEF TypeOK, RowsTyped
<1>2. /\ row \in User /\ row.entity = users[u].entity
      /\ row.role = users[u].role /\ row.active = users[u].active /\ row.password = t
  BY <1>1 DEF User
<1>3. users' = [users EXCEPT ![u] = row]
  OBVIOUS
<1> QED BY <1>2, <1>3 DEF Rewrites

\* Users are added, or change in role, activity or password.
LEMMA UserChange ==
    ASSUME TypeOK, [Next]_vars
    PROVE  \/ UNCHANGED users
           \/ \E e \in Entities : Register(e) /\ users' = Append(users, NewUser(e, "admin"))
           \/ \E s \in Sessions : CommitManagement(s)
           \/ \E u \in DOMAIN users, t \in Nat :
                /\ users' = [users EXCEPT ![u].password = t]
                /\ t = 0 \/ \E s \in Sessions : CommitReset(s) /\ t = sessions[s].row
<1>1. CASE \E e \in Entities : Register(e)
  BY <1>1 DEF Register
<1>2. CASE \E s \in Sessions : CommitReset(s)
  <2> PICK s \in Sessions : CommitReset(s)
    BY <1>2
  <2>1. /\ sessions[s].row \in DOMAIN resets
        /\ users' = [users EXCEPT ![resets[sessions[s].row].user].password = sessions[s].row]
    BY DEF CommitReset, TypeOK
  <2>2. sessions[s].row \in Nat
    BY <2>1, TypedRows, Lengths
  <2>3. resets[sessions[s].row].user \in DOMAIN users
    BY <2>1 DEF TypeOK
  <2> QED BY <2>1, <2>2, <2>3
<1>3. CASE \E u \in DOMAIN users : ChangePassword(u)
  <2> PICK u \in DOMAIN users : ChangePassword(u)
    BY <1>3
  <2>1. users' = [users EXCEPT ![u].password = 0]
    BY DEF ChangePassword
  <2> QED BY <2>1
<1> QED BY <1>1, <1>2, <1>3, UsersStep

LEMMA Added ==
    ASSUME TypeOK, NEW row \in User, users' = Append(users, row)
    PROVE  /\ users' \in Seq(User)
           /\ DOMAIN users' = DOMAIN users \cup {Len(users) + 1}
           /\ Len(users) + 1 \notin DOMAIN users
           /\ \A u \in DOMAIN users : users'[u] = users[u]
           /\ users'[Len(users) + 1] = row
<1>1. users \in Seq(User) /\ Len(users) \in Nat /\ DOMAIN users = 1..Len(users)
  BY Lengths DEF TypeOK, RowsTyped
<1> QED BY <1>1, RowAdded

LEMMA Rewritten ==
    ASSUME TypeOK, NEW u \in DOMAIN users, NEW row \in User, Rewrites(u, row)
    PROVE  /\ users' \in Seq(User)
           /\ DOMAIN users' = DOMAIN users
           /\ users'[u] = row
           /\ \A v \in DOMAIN users : v # u => users'[v] = users[v]
           /\ \A v \in DOMAIN users : users'[v].entity = users[v].entity
<1>1. users \in Seq(User)
  BY DEF TypeOK
<1> QED BY <1>1, RowChanged DEF Rewrites

LEMMA UsersTyped ==
    ASSUME TypeOK, [Next]_vars
    PROVE  /\ users' \in Seq(User)
           /\ DOMAIN users \subseteq DOMAIN users'
           /\ \A u \in DOMAIN users : users'[u].entity = users[u].entity
<1>1. CASE UNCHANGED users
  BY <1>1 DEF TypeOK
<1>2. CASE \E e \in Entities : Register(e) /\ users' = Append(users, NewUser(e, "admin"))
  BY <1>2, NewUserTyped, Added DEF Roles
<1>3. CASE \E s \in Sessions : CommitManagement(s)
  BY <1>3, ManagementWrites, Added, Rewritten
<1>4. CASE \E u \in DOMAIN users, t \in Nat : users' = [users EXCEPT ![u].password = t]
  BY <1>4, PasswordWrites, Rewritten
<1> QED BY <1>1, <1>2, <1>3, <1>4, UserChange

LEMMA ResetsTyped ==
    ASSUME TypeOK, [Next]_vars
    PROVE  /\ resets' \in Seq(Reset)
           /\ DOMAIN resets \subseteq DOMAIN resets'
           /\ \A t \in DOMAIN resets : resets'[t].user = resets[t].user
           /\ \A t \in DOMAIN resets' : resets'[t].user \in DOMAIN users
<1>0. /\ resets \in Seq(Reset) /\ Len(resets) \in Nat /\ DOMAIN resets = 1..Len(resets)
      /\ \A t \in DOMAIN resets : resets[t] \in Reset /\ resets[t].user \in DOMAIN users
  BY Lengths DEF RowsTyped, TypeOK
<1>1. CASE UNCHANGED resets
  BY <1>0, <1>1
<1>2. CASE \E u \in DOMAIN users : RequestReset(u)
  <2> PICK u \in DOMAIN users : RequestReset(u)
    BY <1>2
  <2> DEFINE row == [user |-> u, used |-> FALSE]
  <2>1. u \in Nat
    BY TypedRows, Lengths
  <2>2. row \in Reset /\ row.user = u
    BY <2>1 DEF Reset
  <2>3. resets' = Append(resets, row)
    BY DEF RequestReset
  <2> HIDE DEF row
  <2> QED BY <1>0, <2>2, <2>3, RowAdded
<1>3. CASE \E s \in Sessions : CommitReset(s)
  <2> PICK s \in Sessions : CommitReset(s)
    BY <1>3
  <2> DEFINE t == sessions[s].row
             row == [resets[t] EXCEPT !.used = TRUE]
  <2>1. t \in DOMAIN resets
    BY DEF CommitReset, TypeOK
  <2>2. row \in Reset /\ row.user = resets[t].user
    BY <1>0, <2>1 DEF Reset
  <2>3. resets' = [resets EXCEPT ![t] = row]
    BY DEF CommitReset
  <2> HIDE DEF row
  <2> QED BY <1>0, <2>1, <2>2, <2>3, RowChanged
<1> QED BY <1>1, <1>2, <1>3, ResetsStep

\* The entity, user or token a session works on is there.
Refers(session) ==
    /\ session.op \in Reviews \cup Managements => session.entity \in Entities
    /\ session.op \in {"sign in", "role", "status"} => session.row \in DOMAIN users
    /\ session.op = "reset" => session.row \in DOMAIN resets

\* What the handler that begins an operation has made sure of.
Checked(session) ==
    /\ session.op \in Reviews => entities[session.entity].status = From(session.op)
    /\ session.op = "sign in" => Admitted(session.row)
    /\ session.op \in Managements =>
          \E u \in DOMAIN users : MayManage(u) /\ session.entity = users[u].entity
    /\ session.op = "reset" => Usable(session.row)
    /\ session.op \in {"sign in", "role", "status"} => users[session.row].entity = session.entity
    /\ session.op \notin Reviews \cup Managements \cup {"sign in"} => session.entity = "none"

\* One of an entity's admins begins to manage its accounts.
LEMMA ManagementBegun ==
    ASSUME TypeOK, NEW s \in Sessions, NEW u \in DOMAIN users, NEW state \in Session,
           MayManage(u), Becomes(s, state), state.op \in Managements, state.entity = users[u].entity,
           state.op \in {"role", "status"} => state.row \in DOMAIN users /\ Colleague(u, state.row)
    PROVE  Refers(state) /\ Checked(state)
<1>1. users[u].entity \in Entities
  BY Lengths DEF TypeOK, RowsTyped, User
<1> QED BY <1>1 DEF Refers, Checked, Colleague, Managements, Reviews

LEMMA Begun ==
    ASSUME TypeOK, NEW s \in Sessions, Begin(s)
    PROVE  /\ \E state \in Session : Becomes(s, state) /\ Refers(state) /\ Checked(state)
           /\ sessions[s].op = "none"
           /\ UNCHANGED <<entities, users, signedIn, resets>>
<1>0. /\ \A u \in DOMAIN users : u \in Nat /\ users[u].entity \in Entities
      /\ \A t \in DOMAIN resets : t \in Nat
  BY TypedRows, Lengths DEF User
<1>1. CASE \E e \in Entities, op \in Reviews : BeginReview(s, e, op)
  <2> PICK e \in Entities, op \in Reviews : BeginReview(s, e, op)
    BY <1>1
  <2> DEFINE state == [Free EXCEPT !.op = op, !.entity = e]
  <2>1. state.op = op /\ state.entity = e /\ state \in Session
    BY DEF Free, Session, Roles, Operations
  <2>2. /\ Becomes(s, state) /\ entities[e].status = From(op) /\ sessions[s].op = "none"
        /\ UNCHANGED <<entities, users, signedIn, resets>>
    BY DEF BeginReview
  <2> HIDE DEF state
  <2> QED BY <2>1, <2>2 DEF Refers, Checked, Reviews, Managements
<1>2. CASE \E u \in DOMAIN users : BeginSignIn(s, u)
  <2> PICK u \in DOMAIN users : BeginSignIn(s, u)
    BY <1>2
  <2> DEFINE state == [Free EXCEPT !.op = "sign in", !.entity = users[u].entity, !.row = u]
  <2>1. /\ state.op = "sign in" /\ state.entity = users[u].entity /\ state.row = u
        /\ state \in Session
    BY <1>0 DEF Free, Session, Roles, Operations
  <2>2. /\ Becomes(s, state) /\ Admitted(u) /\ sessions[s].op = "none"
        /\ UNCHANGED <<entities, users, signedIn, resets>>
    BY DEF BeginSignIn
  <2> HIDE DEF state
  <2> QED BY <2>1, <2>2 DEF Refers, Checked, Reviews, Managements
<1>3. CASE \E u \in DOMAIN users, role \in Roles : BeginCreateUser(s, u, role)
  <2> PICK u \in DOMAIN users, role \in Roles : BeginCreateUser(s, u, role)
    BY <1>3
  <2> DEFINE state == [[Free EXCEPT !.op = "create", !.role = role] EXCEPT !.entity = users[u].entity]
  <2>1. state.op = "create" /\ state.entity = users[u].entity /\ state \in Session
    BY <1>0 DEF Free, Session, Roles, Operations, Managements
  <2>2. /\ Becomes(s, state) /\ MayManage(u) /\ sessions[s].op = "none"
        /\ UNCHANGED <<entities, users, signedIn, resets>>
    BY DEF BeginCreateUser, BeginManagement
  <2> HIDE DEF state
  <2> QED BY <2>1, <2>2, ManagementBegun DEF Managements
<1>4. CASE \E u, v \in DOMAIN users, role \in Roles : BeginUpdateUser(s, u, v, role)
  <2> PICK u \in DOMAIN users, v \in DOMAIN users, role \in Roles : BeginUpdateUser(s, u, v, role)
    BY <1>4
  <2> DEFINE state == [[Free EXCEPT !.op = "role", !.row = v, !.role = role]
                           EXCEPT !.entity = users[u].entity]
  <2>1. /\ state.op = "role" /\ state.entity = users[u].entity /\ state.row = v
        /\ state \in Session
    BY <1>0 DEF Free, Session, Roles, Operations, Managements
  <2>2. /\ Becomes(s, state) /\ MayManage(u) /\ Colleague(u, v) /\ sessions[s].op = "none"
        /\ UNCHANGED <<entities, users, signedIn, resets>>
    BY DEF BeginUpdateUser, BeginManagement
  <2> HIDE DEF state
  <2> QED BY <2>1, <2>2, ManagementBegun DEF Managements
<1>5. CASE \E u, v \in DOMAIN users, active \in BOOLEAN : BeginUpdateStatus(s, u, v, active)
  <2> PICK u \in DOMAIN users, v \in DOMAIN users, active \in BOOLEAN :
             BeginUpdateStatus(s, u, v, active)
    BY <1>5
  <2> DEFINE state == [[Free EXCEPT !.op = "status", !.row = v, !.active = active]
                           EXCEPT !.entity = users[u].entity]
  <2>1. /\ state.op = "status" /\ state.entity = users[u].entity /\ state.row = v
        /\ state \in Session
    BY <1>0 DEF Free, Session, Roles, Operations, Managements
  <2>2. /\ Becomes(s, state) /\ MayManage(u) /\ Colleague(u, v) /\ sessions[s].op = "none"
        /\ UNCHANGED <<entities, users, signedIn, resets>>
    BY DEF BeginUpdateStatus, BeginManagement
  <2> HIDE DEF state
  <2> QED BY <2>1, <2>2, ManagementBegun DEF Managements
<1>6. CASE \E t \in DOMAIN resets : BeginReset(s, t)
  <2> PICK t \in DOMAIN resets : BeginReset(s, t)
    BY <1>6
  <2> DEFINE state == [Free EXCEPT !.op = "reset", !.row = t]
  <2>1. state.op = "reset" /\ state.row = t /\ state.entity = "none" /\ state \in Session
    BY <1>0 DEF Free, Session, Roles, Operations
  <2>2. /\ Becomes(s, state) /\ Usable(t) /\ sessions[s].op = "none"
        /\ UNCHANGED <<entities, users, signedIn, resets>>
    BY DEF BeginReset
  <2> HIDE DEF state
  <2> QED BY <2>1, <2>2 DEF Refers, Checked, Reviews, Managements
<1> QED BY <1>1, <1>2, <1>3, <1>4, <1>5, <1>6 DEF Begin

LEMMA SessionsTyped ==
    ASSUME TypeOK, [Next]_vars
    PROVE  /\ sessions' \in [Sessions -> Session]
           /\ \A s \in Sessions : Refers(sessions'[s])
<1>0. /\ sessions \in [Sessions -> Session]
      /\ \A s \in Sessions : Refers(sessions[s])
  BY DEF TypeOK, Refers
<1>1. CASE UNCHANGED sessions
  BY <1>0, <1>1
<1>2. CASE \E s \in Sessions : Begin(s) \/ End(s)
  <2> PICK s \in Sessions : Begin(s) \/ End(s)
    BY <1>2
  <2>1. Refers(Free)
    BY FreeTyped DEF Refers, Reviews, Managements
  <2>2. PICK state \in Session : Becomes(s, state) /\ Refers(state)
    BY <2>1, Begun, Freed, FreeTyped
  <2> QED BY <1>0, <2>2, EntryChanged DEF Becomes
<1> QED BY <1>1, <1>2, SessionsStep

LEMMA SignedInTyped ==
    ASSUME TypeOK, [Next]_vars
    PROVE  signedIn' \subseteq DOMAIN users
<1>0. signedIn \subseteq DOMAIN users
  BY DEF TypeOK
<1>1. CASE signedIn' \subseteq signedIn
  BY <1>0, <1>1
<1>2. CASE \E s \in Sessions : CommitSignIn(s)
  <2> PICK s \in Sessions : CommitSignIn(s)
    BY <1>2
  <2>1. sessions[s].row \in DOMAIN users
    BY DEF CommitSignIn, TypeOK
  <2> QED BY <1>0, <2>1 DEF CommitSignIn
<1> QED BY <1>1, <1>2, SignedInStep

\* Every variable keeps its type, and rows and sessions name rows that exist.
THEOREM TypeCorrect == Spec => []TypeOK
<1>1. Init => TypeOK
  <2> SUFFICES ASSUME Init PROVE TypeOK
    OBVIOUS
  <2>1. entities \in [Entities -> Entity]
    BY DEF Init, Entity, Statuses
  <2>2. sessions \in [Sessions -> Session] /\ \A s \in Sessions : sessions[s].op = "none"
    BY FreeTyped DEF Init, Free
  <2>3. users = <<>> /\ resets = <<>> /\ signedIn = {}
    BY DEF Init
  <2>4. users \in Seq(User) /\ resets \in Seq(Reset) /\ DOMAIN resets = {}
    BY <2>3, EmptySeq
  <2>5. \A s \in Sessions : Refers(sessions[s])
    BY <2>2 DEF Refers, Reviews, Managements
  <2> QED BY <2>1, <2>2, <2>3, <2>4, <2>5 DEF TypeOK, Refers
<1>2. TypeOK /\ [Next]_vars => TypeOK'
  <2> SUFFICES ASSUME TypeOK, [Next]_vars PROVE TypeOK'
    OBVIOUS
  <2>1. /\ entities' \in [Entities -> Entity]
        /\ users' \in Seq(User)
        /\ resets' \in Seq(Reset)
        /\ sessions' \in [Sessions -> Session]
    BY EntitiesTyped, UsersTyped, ResetsTyped, SessionsTyped DEF TypeOK, RowsTyped
  <2>2. DOMAIN users \subseteq DOMAIN users' /\ DOMAIN resets \subseteq DOMAIN resets'
    BY UsersTyped, ResetsTyped
  <2>3. signedIn' \subseteq DOMAIN users'
    BY <2>2, SignedInTyped
  <2>4. \A t \in DOMAIN resets' : resets'[t].user \in DOMAIN users'
    BY <2>2, ResetsTyped
  <2> QED BY <2>1, <2>2, <2>3, <2>4, SessionsTyped DEF TypeOK, Refers
<1> QED BY <1>1, <1>2, PTL DEF Spec

\* The session of s, and no other, is replaced.
LEMMA SessionBecomes ==
    ASSUME TypeOK, NEW s \in Sessions, NEW state, Becomes(s, state)
    PROVE  /\ sessions'[s] = state
           /\ \A t \in Sessions \ {s} : sessions'[t] = sessions[t]
BY DEF TypeOK, Becomes

\* What a session holds after a step: what it held, something it checked and began in a
\* step that changes nothing else, or nothing.
LEMMA SessionChange ==
    ASSUME TypeOK, [Next]_vars, NEW s \in Sessions
    PROVE  \/ sessions'[s] = sessions[s]
           \/ sessions'[s] = Free
           \/ /\ sessions'[s] \in Session /\ Refers(sessions'[s]) /\ Checked(sessions'[s])
              /\ UNCHANGED <<entities, users, signedIn, resets>>
<1>1. CASE UNCHANGED sessions
  BY <1>1
<1>2. CASE \E r \in Sessions : Begin(r)
  <2> PICK r \in Sessions : Begin(r)
    BY <1>2
  <2>1. PICK state \in Session : Becomes(r, state) /\ Refers(state) /\ Checked(state)
    BY Begun
  <2> QED BY <2>1, Begun, SessionBecomes
<1>3. CASE \E r \in Sessions : End(r)
  BY <1>3, Freed, SessionBecomes
<1> QED BY <1>1, <1>2, <1>3, SessionsStep

-----------------------------------------------------------------------------
(* Sessions and accounts *)

\* What a step makes of an entity.
LEMMA EntityChange ==
    ASSUME TypeOK, [Next]_vars, NEW e \in Entities
    PROVE  \/ entities'[e] = entities[e]
           \/ /\ entities[e].status = "unregistered"
              /\ entities'[e].status = "Pending Approval"
              /\ entities'[e].approved = entities[e].approved
           \/ \E s \in Sessions :
                /\ CommitReview(s) /\ sessions[s].entity = e
                /\ entities'[e].status = To(sessions[s].op)
                /\ entities'[e].approved = (entities[e].approved \/ sessions[s].op = "approve")
<1>0. entities \in [Entities -> Entity]
  BY DEF TypeOK
<1>1. CASE UNCHANGED entities
  BY <1>1
<1>2. CASE \E d \in Entities : Register(d)
  <2> PICK d \in Entities : Register(d)
    BY <1>2
  <2> QED BY <1>0 DEF Register, Entity
<1>3. CASE \E s \in Sessions : CommitReview(s)
  <2> PICK s \in Sessions : CommitReview(s)
    BY <1>3
  <2>1. entities' = [entities EXCEPT ![sessions[s].entity] =
                        Reviewed(entities[sessions[s].entity], sessions[s].op)]
    BY DEF CommitReview
  <2>2. CASE sessions[s].entity = e
    BY <1>0, <2>1, <2>2 DEF Reviewed
  <2>3. CASE sessions[s].entity # e
    BY <1>0, <2>1, <2>3
  <2> QED BY <2>2, <2>3
<1> QED BY <1>1, <1>2, <1>3, EntitiesStep

\* A handler works on users of the entity it is about; what it concerns is no entity
\* only if it is a reset.
Belongs ==
    \A s \in Sessions :
        /\ sessions[s].op \in {"sign in", "role", "status"} =>
              users[sessions[s].row].entity = sessions[s].entity
        /\ sessions[s].op \notin Reviews \cup Managements \cup {"sign in"} =>
              sessions[s].entity = "none"

LEMMA BelongsKept ==
    ASSUME TypeOK, Belongs, [Next]_vars PROVE Belongs'
<1> SUFFICES ASSUME NEW s \in Sessions
             PROVE  /\ sessions'[s].op \in {"sign in", "role", "status"} =>
                          users'[sessions'[s].row].entity = sessions'[s].entity
                    /\ sessions'[s].op \notin Reviews \cup Managements \cup {"sign in"} =>
                          sessions'[s].entity = "none"
  BY DEF Belongs
<1>1. CASE sessions'[s] = sessions[s]
  <2>1. sessions[s].op \in {"sign in", "role", "status"} => sessions[s].row \in DOMAIN users
    BY DEF TypeOK
  <2> QED BY <1>1, <2>1, UsersTyped DEF Belongs
<1>2. CASE sessions'[s] = Free
  BY <1>2, FreeTyped
<1>3. CASE Checked(sessions'[s]) /\ UNCHANGED users
  BY <1>3 DEF Checked
<1> QED BY <1>1, <1>2, <1>3, SessionChange

THEOREM SessionsBelong == Spec => []Belongs
<1>1. Init => Belongs
  BY FreeTyped DEF Init, Belongs
<1>2. TypeOK /\ Belongs /\ [Next]_vars => Belongs'
  BY BelongsKept
<1> QED BY <1>1, <1>2, TypeCorrect, PTL DEF Spec

\* Only its registration and managements that are under way change an entity's accounts.
LEMMA AccountsKept ==
    ASSUME TypeOK, Belongs, [Next]_vars, NEW e \in Entities,
           entities[e].status # "unregistered", ~Busy(Managements, e),
           NEW u \in DOMAIN users', users'[u].entity = e
    PROVE  /\ u \in DOMAIN users
           /\ users[u].entity = e
           /\ users'[u].role = users[u].role
           /\ users'[u].active = users[u].active
<1>1. CASE UNCHANGED users
  BY <1>1
<1>2. CASE \E d \in Entities : Register(d) /\ users' = Append(users, NewUser(d, "admin"))
  <2> PICK d \in Entities : Register(d) /\ users' = Append(users, NewUser(d, "admin"))
    BY <1>2
  <2>1. d # e
    BY DEF Register
  <2>2. NewUser(d, "admin") \in User /\ NewUser(d, "admin").entity = d
    BY NewUserTyped DEF Roles
  <2> QED BY <2>1, <2>2, Added
<1>3. CASE \E s \in Sessions : CommitManagement(s)
  <2> PICK s \in Sessions : CommitManagement(s)
    BY <1>3
  <2>1. sessions[s].op \in Managements /\ sessions[s].entity # e
    BY DEF CommitManagement, Busy
  <2>2. CASE /\ users' = Append(users, NewUser(sessions[s].entity, sessions[s].role))
             /\ NewUser(sessions[s].entity, sessions[s].role) \in User
             /\ NewUser(sessions[s].entity, sessions[s].role).entity = sessions[s].entity
    BY <2>1, <2>2, Added
  <2>3. CASE /\ sessions[s].op \in {"role", "status"}
             /\ sessions[s].row \in DOMAIN users
             /\ \E row \in User : Rewrites(sessions[s].row, row)
    <3> PICK row \in User : Rewrites(sessions[s].row, row)
      BY <2>3
    <3>1. users[sessions[s].row].entity # e
      BY <2>1, <2>3 DEF Belongs
    <3> QED BY <2>3, <3>1, Rewritten
  <2> QED BY <2>2, <2>3, ManagementWrites
<1>4. CASE \E v \in DOMAIN users, t \in Nat : users' = [users EXCEPT ![v].password = t]
  <2> PICK v \in DOMAIN users, t \in Nat : users' = [users EXCEPT ![v].password = t]
    BY <1>4
  <2> PICK row \in User : /\ Rewrites(v, row)
                          /\ row.role = users[v].role /\ row.active = users[v].active
    BY PasswordWrites
  <2> QED BY Rewritten
<1> QED BY <1>1, <1>2, <1>3, <1>4, UserChange

\* Who is signed in after a step was, or was let in by a session that ends.
LEMMA SignedInChange ==
    ASSUME TypeOK, [Next]_vars, NEW u \in signedIn'
    PROVE  \/ u \in signedIn
           \/ \E s \in Sessions : sessions[s].op = "sign in" /\ sessions[s].row = u
BY SignedInStep DEF CommitSignIn

-----------------------------------------------------------------------------
(* Before the approval *)

\* Whatever is under way at an entity, and whatever its status is but for the first two
\* and "Rejected", it was approved; before its registration it has no account.
ApprovalSound ==
    /\ \A e \in Entities : entities[e].status \in {"Active", "Blocked"} => entities[e].approved
    /\ \A e \in Entities :
          entities[e].status = "unregistered" =>
              ~entities[e].approved /\ \A u \in DOMAIN users : users[u].entity # e
    /\ \A s \in Sessions :
          sessions[s].op \in {"block", "unblock", "sign in"} \cup Managements =>
              sessions[s].entity \in Entities /\ entities[sessions[s].entity].approved
    /\ NobodyBeforeApproval

LEMMA ApprovedKept ==
    ASSUME TypeOK, [Next]_vars, NEW e \in Entities, entities[e].approved
    PROVE  entities'[e].approved
BY EntityChange

\* An approved entity has the accounts and signed-in users it may.
LEMMA ApprovalKept ==
    ASSUME TypeOK, Belongs, ApprovalSound, [Next]_vars
    PROVE  ApprovalSound'
<1>0. /\ \A u \in DOMAIN users : users[u].entity \in Entities
      /\ \A u \in signedIn : u \in DOMAIN users
      /\ \A s \in Sessions : sessions[s].op \in Operations \cup {"none"}
  <2>1. signedIn \subseteq DOMAIN users
    BY DEF TypeOK
  <2> QED BY <2>1, TypedRows, Lengths DEF User, Session
<1>1. ASSUME NEW e \in Entities, entities'[e].status \in {"Active", "Blocked"}
      PROVE  entities'[e].approved
  <2>1. CASE entities'[e] = entities[e]
    BY <1>1, <2>1 DEF ApprovalSound
  <2>2. CASE entities'[e].status = "Pending Approval"
    BY <1>1, <2>2
  <2>3. ASSUME NEW s \in Sessions, CommitReview(s), sessions[s].entity = e,
               entities'[e].status = To(sessions[s].op),
               entities'[e].approved = (entities[e].approved \/ sessions[s].op = "approve")
        PROVE  entities'[e].approved
    <3>1. sessions[s].op \in {"approve", "reject", "block", "unblock"}
      BY <2>3 DEF CommitReview, Reviews
    <3>2. sessions[s].op # "reject"
      BY <1>1, <2>3 DEF To
    <3>3. sessions[s].op \in {"block", "unblock"} => entities[e].approved
      BY <2>3 DEF ApprovalSound
    <3> QED BY <2>3, <3>1, <3>2, <3>3
  <2> QED BY <2>1, <2>2, <2>3, EntityChange
<1>2. ASSUME NEW s \in Sessions,
             sessions'[s].op \in {"block", "unblock", "sign in"} \cup Managements
      PROVE  sessions'[s].entity \in Entities /\ entities'[sessions'[s].entity].approved
  <2>1. CASE sessions'[s] = sessions[s]
    BY <1>2, <2>1, ApprovedKept DEF ApprovalSound
  <2>2. CASE sessions'[s] = Free
    BY <1>2, <2>2, FreeTyped DEF Managements
  <2>3. CASE Refers(sessions'[s]) /\ Checked(sessions'[s]) /\ UNCHANGED entities
    <3> DEFINE me == sessions'[s]
    <3>1. CASE me.op \in {"block", "unblock"}
      <4>1. me.entity \in Entities /\ entities[me.entity].status = From(me.op)
        BY <2>3, <3>1 DEF Refers, Checked, Reviews
      <4>2. From(me.op) \in {"Active", "Blocked"}
        BY <3>1 DEF From
      <4> QED BY <2>3, <4>1, <4>2 DEF ApprovalSound
    <3>2. CASE me.op = "sign in"
      <4>1. /\ me.row \in DOMAIN users
            /\ users[me.row].entity = me.entity
            /\ entities[users[me.row].entity].status = "Active"
        BY <2>3, <3>2 DEF Refers, Checked, Admitted
      <4> QED BY <1>0, <2>3, <4>1 DEF ApprovalSound
    <3>3. CASE me.op \in Managements
      <4> PICK u \in DOMAIN users : u \in signedIn /\ me.entity = users[u].entity
        BY <2>3, <3>3 DEF Checked, MayManage
      <4>1. entities[users[u].entity].approved
        BY DEF ApprovalSound, NobodyBeforeApproval
      <4> QED BY <1>0, <2>3, <4>1
    <3> QED BY <1>2, <3>1, <3>2, <3>3
  <2> QED BY <2>1, <2>2, <2>3, SessionChange
<1>3. ASSUME NEW u \in signedIn', u \in DOMAIN users
      PROVE  entities'[users'[u].entity].approved
  <2>1. users'[u].entity = users[u].entity /\ users[u].entity \in Entities
    BY <1>0, <1>3, UsersTyped
  <2>2. CASE u \in signedIn
    BY <2>1, <2>2, <1>3, ApprovedKept DEF ApprovalSound, NobodyBeforeApproval
  <2>3. CASE \E s \in Sessions : sessions[s].op = "sign in" /\ sessions[s].row = u
    <3> PICK s \in Sessions : sessions[s].op = "sign in" /\ sessions[s].row = u
      BY <2>3
    <3>1. users[u].entity = sessions[s].entity
      BY DEF Belongs
    <3>2. entities[sessions[s].entity].approved
      BY DEF ApprovalSound
    <3> QED BY <2>1, <3>1, <3>2, ApprovedKept
  <2> QED BY <1>3, <2>2, <2>3, SignedInChange
<1>4. ASSUME NEW e \in Entities, entities'[e].status = "unregistered", NEW u \in DOMAIN users'
      PROVE  users'[u].entity # e
  <2>1. entities'[e] = entities[e] /\ entities[e].status = "unregistered"
    <3>1. ASSUME NEW s \in Sessions, CommitReview(s)
          PROVE  To(sessions[s].op) # "unregistered"
      BY <3>1 DEF CommitReview, To, Reviews
    <3>2. CASE entities'[e] = entities[e]
      BY <1>4, <3>2
    <3>3. CASE entities'[e].status = "Pending Approval"
      BY <1>4, <3>3
    <3>4. CASE \E s \in Sessions : CommitReview(s) /\ entities'[e].status = To(sessions[s].op)
      BY <1>4, <3>1, <3>4
    <3> QED BY <3>2, <3>3, <3>4, EntityChange
  <2>2. \A v \in DOMAIN users : users[v].entity # e
    BY <2>1 DEF ApprovalSound
  <2>3. CASE \E d \in Entities : Register(d) /\ users' = Append(users, NewUser(d, "admin"))
    <3> PICK d \in Entities : Register(d) /\ users' = Append(users, NewUser(d, "admin"))
      BY <2>3
    <3>1. entities \in [Entities -> Entity]
      BY DEF TypeOK
    <3>2. d # e
      BY <1>4, <3>1 DEF Register, Entity
    <3>3. NewUser(d, "admin") \in User /\ NewUser(d, "admin").entity = d
      BY NewUserTyped DEF Roles
    <3> QED BY <2>2, <3>2, <3>3, Added
  <2>4. CASE \E s \in Sessions : CommitManagement(s)
    <3> PICK s \in Sessions : CommitManagement(s)
      BY <2>4
    <3>1. CASE /\ sessions[s].op = "create"
               /\ users' = Append(users, NewUser(sessions[s].entity, sessions[s].role))
               /\ NewUser(sessions[s].entity, sessions[s].role) \in User
               /\ NewUser(sessions[s].entity, sessions[s].role).entity = sessions[s].entity
      <4>1. sessions[s].entity # e
        BY <2>1, <3>1 DEF ApprovalSound, Managements
      <4> QED BY <2>2, <3>1, <4>1, Added
    <3>2. CASE sessions[s].row \in DOMAIN users /\ \E row \in User : Rewrites(sessions[s].row, row)
      BY <2>2, <3>2, Rewritten
    <3> QED BY <3>1, <3>2, ManagementWrites
  <2>5. CASE \E v \in DOMAIN users, t \in Nat : users' = [users EXCEPT ![v].password = t]
    BY <2>2, <2>5, PasswordWrites, Rewritten
  <2>6. CASE UNCHANGED users
    BY <2>2, <2>6
  <2> QED BY <2>3, <2>4, <2>5, <2>6, UserChange
<1>5. ASSUME NEW u \in DOMAIN users', NEW v \in DOMAIN users',
             users'[u].entity = users'[v].entity, u # v
      PROVE  entities'[users'[u].entity].approved
  <2>1. CASE u \in DOMAIN users /\ v \in DOMAIN users
    <3>1. users'[u].entity = users[u].entity /\ users'[v].entity = users[v].entity
      BY <2>1, UsersTyped
    <3>2. entities[users[u].entity].approved
      BY <1>5, <2>1, <3>1 DEF ApprovalSound, NobodyBeforeApproval
    <3> QED BY <1>0, <2>1, <3>1, <3>2, ApprovedKept
  <2>2. CASE \E d \in Entities : Register(d) /\ users' = Append(users, NewUser(d, "admin"))
    <3> PICK d \in Entities : Register(d) /\ users' = Append(users, NewUser(d, "admin"))
      BY <2>2
    <3>1. \A w \in DOMAIN users : users[w].entity # d
      BY DEF Register, ApprovalSound
    <3>2. NewUser(d, "admin") \in User /\ NewUser(d, "admin").entity = d
      BY NewUserTyped DEF Roles
    <3>3. u \in DOMAIN users /\ v \in DOMAIN users
      BY <1>5, <3>1, <3>2, Added
    <3> QED BY <2>1, <3>3
  <2>3. CASE \E s \in Sessions : CommitManagement(s)
    <3> PICK s \in Sessions : CommitManagement(s)
      BY <2>3
    <3>1. CASE /\ sessions[s].op = "create"
               /\ users' = Append(users, NewUser(sessions[s].entity, sessions[s].role))
               /\ NewUser(sessions[s].entity, sessions[s].role) \in User
               /\ NewUser(sessions[s].entity, sessions[s].role).entity = sessions[s].entity
      <4>1. sessions[s].entity \in Entities /\ entities[sessions[s].entity].approved
        BY <3>1 DEF ApprovalSound, Managements
      <4>2. CASE users'[u].entity = sessions[s].entity
        BY <4>1, <4>2, ApprovedKept
      <4>3. CASE users'[u].entity # sessions[s].entity
        BY <1>5, <2>1, <3>1, <4>3, Added
      <4> QED BY <4>2, <4>3
    <3>2. CASE sessions[s].row \in DOMAIN users /\ \E row \in User : Rewrites(sessions[s].row, row)
      BY <1>5, <2>1, <3>2, Rewritten
    <3> QED BY <3>1, <3>2, ManagementWrites
  <2>4. CASE \E w \in DOMAIN users, t \in Nat : users' = [users EXCEPT ![w].password = t]
    BY <1>5, <2>1, <2>4, PasswordWrites, Rewritten
  <2>5. CASE UNCHANGED users
    BY <1>5, <2>1, <2>5
  <2> QED BY <2>2, <2>3, <2>4, <2>5, UserChange
<1>6. NobodyBeforeApproval'
  BY <1>3, <1>5, SignedInTyped DEF NobodyBeforeApproval
<1>7. ASSUME NEW e \in Entities, entities'[e].status = "unregistered"
      PROVE  ~entities'[e].approved /\ \A u \in DOMAIN users' : users'[u].entity # e
  <2>1. entities'[e] = entities[e]
    <3>1. ASSUME NEW s \in Sessions, CommitReview(s)
          PROVE  To(sessions[s].op) # "unregistered"
      BY <3>1 DEF CommitReview, To, Reviews
    <3>2. CASE entities'[e].status = "Pending Approval"
      BY <1>7, <3>2
    <3>3. CASE \E s \in Sessions : CommitReview(s) /\ entities'[e].status = To(sessions[s].op)
      BY <1>7, <3>1, <3>3
    <3> QED BY <3>2, <3>3, EntityChange
  <2>2. ~entities'[e].approved
    BY <1>7, <2>1 DEF ApprovalSound
  <2> QED BY <1>4, <1>7, <2>2
<1> QED BY <1>1, <1>2, <1>6, <1>7 DEF ApprovalSound

\* Until a vendor, warehouse or store was approved, nobody is signed in to it, and the
\* account it registered with is its only one.
THEOREM NobodyIn == Spec => []NobodyBeforeApproval
<1>1. Init => ApprovalSound
  <2> SUFFICES ASSUME Init PROVE ApprovalSound
    OBVIOUS
  <2>1. \A e \in Entities : entities[e].status = "unregistered" /\ entities[e].approved = FALSE
    BY DEF Init
  <2>2. DOMAIN users = {}
    BY EmptySeq DEF Init
  <2>3. \A s \in Sessions : sessions[s].op = "none"
    BY FreeTyped DEF Init
  <2> QED BY <2>1, <2>2, <2>3 DEF ApprovalSound, NobodyBeforeApproval, Managements
<1>2. TypeOK /\ Belongs /\ ApprovalSound /\ [Next]_vars => ApprovalSound'
  BY ApprovalKept
<1>3. ApprovalSound => NobodyBeforeApproval
  BY DEF ApprovalSound
<1> QED BY <1>1, <1>2, <1>3, TypeCorrect, SessionsBelong, PTL DEF Spec

-----------------------------------------------------------------------------
(* Who is locked out *)

\* An entity that lost its last admin never has one again: only an admin of its own makes
\* admins.
THEOREM NobodyLetsThemIn == Spec => LockedOutForGood
<1>1. ASSUME TypeOK, Belongs, [Next]_vars, NEW e \in Entities, LockedOut(e)
      PROVE  LockedOut(e)'
  <2>0. entities[e].status # "unregistered" /\ ~HasAdmin(e) /\ ~Busy(Managements, e)
    BY <1>1 DEF LockedOut
  <2>1. entities'[e].status # "unregistered"
    <3>1. ASSUME NEW s \in Sessions, CommitReview(s)
          PROVE  To(sessions[s].op) # "unregistered"
      BY <3>1 DEF CommitReview, To, Reviews
    <3>2. CASE entities'[e] = entities[e]
      BY <2>0, <3>2
    <3>3. CASE entities'[e].status = "Pending Approval"
      BY <3>3
    <3>4. CASE \E s \in Sessions : CommitReview(s) /\ entities'[e].status = To(sessions[s].op)
      BY <3>1, <3>4
    <3> QED BY <1>1, <3>2, <3>3, <3>4, EntityChange
  <2>2. ~HasAdmin(e)'
    BY <1>1, <2>0, AccountsKept DEF HasAdmin
  <2>3. ASSUME NEW s \in Sessions, sessions'[s].op \in Managements PROVE sessions'[s].entity # e
    <3>1. CASE sessions'[s] = sessions[s]
      BY <2>0, <2>3, <3>1 DEF Busy
    <3>2. CASE sessions'[s] = Free
      BY <2>3, <3>2, FreeTyped DEF Managements
    <3>3. CASE Checked(sessions'[s])
      BY <2>0, <2>3, <3>3 DEF Checked, MayManage, HasAdmin
    <3> QED BY <1>1, <3>1, <3>2, <3>3, SessionChange
  <2> QED BY <2>1, <2>2, <2>3 DEF LockedOut, Busy
<1>2. TypeOK /\ Belongs /\ [Next]_vars => [\A e \in Entities : LockedOut(e) => LockedOut(e)']_vars
  BY <1>1
<1> QED BY <1>2, TypeCorrect, SessionsBelong, PTL DEF Spec, LockedOutForGood

\* A rejected entity at which nothing is under way and nobody is signed in stays that way,
\* and its accounts keep their roles and stay active or not.
THEOREM RejectionsFinal == Spec => RejectedForGood
<1> DEFINE Kept(e) == /\ ShutOut(e)'
                      /\ \A u \in DOMAIN users' :
                            users'[u].entity = e =>
                                /\ u \in DOMAIN users
                                /\ users'[u].role = users[u].role
                                /\ users'[u].active = users[u].active
<1>1. ASSUME TypeOK, Belongs, [Next]_vars, NEW e \in Entities, ShutOut(e)
      PROVE  Kept(e)
  <2>0. /\ entities[e].status = "Rejected"
        /\ \A s \in Sessions : sessions[s].entity # e
        /\ \A u \in signedIn : users[u].entity # e
    BY <1>1 DEF ShutOut
  <2>1. entities'[e].status = "Rejected"
    BY <1>1, <2>0, EntityChange
  <2>2. ASSUME NEW s \in Sessions PROVE sessions'[s].entity # e
    <3> DEFINE me == sessions'[s]
    <3>1. CASE me = sessions[s]
      BY <2>0, <3>1
    <3>2. CASE me = Free
      BY <3>2, FreeTyped, AccountsAssumption
    <3>3. CASE Checked(me)
      <4>1. CASE me.op \in Reviews
        <5>1. From(me.op) # "Rejected"
          BY <4>1 DEF From, Reviews
        <5> QED BY <2>0, <3>3, <4>1, <5>1 DEF Checked
      <4>2. CASE me.op = "sign in"
        <5>1. entities[users[me.row].entity].status = "Active" /\ users[me.row].entity = me.entity
          BY <3>3, <4>2 DEF Checked, Admitted
        <5> QED BY <2>0, <5>1
      <4>3. CASE me.op \in Managements
        BY <2>0, <3>3, <4>3 DEF Checked, MayManage
      <4>4. CASE me.op \notin Reviews \cup Managements \cup {"sign in"}
        BY <3>3, <4>4, AccountsAssumption DEF Checked
      <4> QED BY <4>1, <4>2, <4>3, <4>4
    <3> QED BY <1>1, <3>1, <3>2, <3>3, SessionChange
  <2>3. ASSUME NEW u \in signedIn' PROVE users'[u].entity # e
    <3>1. u \in DOMAIN users
      BY <1>1, SignedInTyped
    <3>2. users'[u].entity = users[u].entity
      BY <1>1, <3>1, UsersTyped
    <3>3. \A s \in Sessions : sessions[s].op = "sign in" => users[sessions[s].row].entity # e
      BY <1>1, <2>0 DEF Belongs
    <3> QED BY <1>1, <2>0, <3>2, <3>3, SignedInChange
  <2>4. ~Busy(Managements, e)
    BY <2>0 DEF Busy
  <2> QED BY <1>1, <2>0, <2>1, <2>2, <2>3, <2>4, AccountsKept DEF ShutOut
<1>2. TypeOK /\ Belongs /\ [Next]_vars => [\A e \in Entities : ShutOut(e) => Kept(e)]_vars
  BY <1>1
<1> QED BY <1>2, TypeCorrect, SessionsBelong, PTL DEF Spec, RejectedForGood

-----------------------------------------------------------------------------
(* Passwords *)

\* No handler takes a reset token up that was used, and its password is written only by
\* those that had taken it up, each of which is done with it then.
THEOREM ResetsOnce == Spec => ResetOnce
<1> DEFINE Once(t) == /\ \A s \in Sessions : Holds(s, t)' => Holds(s, t)
                      /\ \A u \in DOMAIN users :
                            users'[u].password = t /\ users[u].password # t =>
                                \E s \in Sessions : Holds(s, t) /\ ~Holds(s, t)'
<1>1. ASSUME TypeOK, [Next]_vars, NEW t \in DOMAIN resets, resets[t].used
      PROVE  Once(t)
  <2>1. ASSUME NEW s \in Sessions, Holds(s, t)' PROVE Holds(s, t)
    <3>1. CASE sessions'[s] = sessions[s]
      BY <2>1, <3>1 DEF Holds
    <3>2. CASE sessions'[s] = Free
      BY <2>1, <3>2, FreeTyped DEF Holds
    <3>3. CASE Checked(sessions'[s])
      BY <1>1, <2>1, <3>3 DEF Holds, Checked, Usable
    <3> QED BY <1>1, <3>1, <3>2, <3>3, SessionChange
  <2>2. ASSUME NEW u \in DOMAIN users, users'[u].password = t, users[u].password # t
        PROVE  \E s \in Sessions : Holds(s, t) /\ ~Holds(s, t)'
    <3>1. CASE UNCHANGED users
      BY <2>2, <3>1
    <3>2. CASE \E d \in Entities : Register(d) /\ users' = Append(users, NewUser(d, "admin"))
      BY <1>1, <2>2, <3>2, NewUserTyped, Added DEF Roles
    <3>3. CASE \E s \in Sessions : CommitManagement(s)
      BY <1>1, <2>2, <3>3, ManagementWrites, Added, Rewritten
    <3>4. CASE \E v \in DOMAIN users, w \in Nat :
                 /\ users' = [users EXCEPT ![v].password = w]
                 /\ w = 0 \/ \E s \in Sessions : CommitReset(s) /\ w = sessions[s].row
      <4> PICK v \in DOMAIN users, w \in Nat :
                 /\ users' = [users EXCEPT ![v].password = w]
                 /\ w = 0 \/ \E s \in Sessions : CommitReset(s) /\ w = sessions[s].row
        BY <3>4
      <4>1. w = t
        <5> PICK row \in User : Rewrites(v, row) /\ row.password = w
          BY <1>1, PasswordWrites
        <5> QED BY <1>1, <2>2, Rewritten
      <4>2. t # 0
        BY <1>1, TypedRows, Lengths
      <4> PICK s \in Sessions : CommitReset(s) /\ w = sessions[s].row
        BY <4>1, <4>2
      <4>3. Holds(s, t)
        BY <4>1 DEF CommitReset, Holds
      <4>4. sessions'[s] = Free
        BY <1>1, SessionBecomes DEF CommitReset
      <4> QED BY <4>3, <4>4, FreeTyped DEF Holds
    <3> QED BY <1>1, <3>1, <3>2, <3>3, <3>4, UserChange
  <2> QED BY <2>1, <2>2
<1>2. TypeOK /\ [Next]_vars => [\A t \in DOMAIN resets : resets[t].used => Once(t)]_vars
  BY <1>1
<1> QED BY <1>2, TypeCorrect, PTL DEF Spec, ResetOnce
-----------------------------------------------------------------------------
(* Migrations: codes, and what b8e3 makes of them *)

\* A code with any number.
AnyCode == [bare : BOOLEAN, n : Nat]

\* A code's two fields.
LEMMA CodeFields ==
    ASSUME NEW codes \in Seq(AnyCode)
    PROVE  \A i \in DOMAIN codes : /\ codes[i] \in AnyCode
                                   /\ codes[i].n \in Nat
                                   /\ codes[i].bare \in BOOLEAN
<1>1. \A i \in DOMAIN codes : codes[i] \in AnyCode
  BY RowTyped
<1> QED BY <1>1 DEF AnyCode

\* The numbers of a table's codes have a largest one.
LEMMA LargestNumber ==
    ASSUME NEW codes \in Seq(AnyCode), NEW S, S \subseteq {codes[i].n : i \in DOMAIN codes}
    PROVE  /\ Max({0} \cup S) \in Nat
           /\ \A n \in S : n <= Max({0} \cup S)
<1> DEFINE len == Len(codes)
           Bounds == {m \in Nat : \A n \in S : n <= m}
<1>1. len \in Nat /\ DOMAIN codes = 1..len /\ \A i \in 1..len : codes[i].n \in Nat
  BY LenProperties, CodeFields
<1> HIDE DEF len
<1>2. \E m \in Nat : \A i \in 1..len : codes[i].n <= m
  <2> DEFINE Bounded(k) == \E m \in Nat : \A i \in 1..k : i <= len => codes[i].n <= m
             T == {k \in Nat : Bounded(k)}
  <2>1. Bounded(0)
    OBVIOUS
  <2>2. ASSUME NEW k \in Nat, Bounded(k)
        PROVE  Bounded(k + 1)
    <3>1. PICK m \in Nat : \A i \in 1..k : i <= len => codes[i].n <= m
      BY <2>2
    <3>2. CASE k + 1 <= len
      <4> DEFINE c == codes[k + 1].n
      <4>1. c \in Nat /\ m + c \in Nat
        BY <1>1, <3>2
      <4>2. \A i \in 1..(k + 1) : i <= len => codes[i].n <= m + c
        <5> SUFFICES ASSUME NEW i \in 1..(k + 1), i <= len PROVE codes[i].n <= m + c
          OBVIOUS
        <5>1. codes[i].n \in Nat
          BY <1>1
        <5>2. CASE i \in 1..k
          <6>1. codes[i].n <= m
            BY <3>1, <5>2
          <6> HIDE DEF c
          <6> QED BY <4>1, <5>1, <6>1
        <5>3. CASE i = k + 1
          BY <4>1, <5>3
        <5> QED BY <5>2, <5>3
      <4> HIDE DEF c
      <4> QED BY <4>1, <4>2
    <3>3. CASE ~ k + 1 <= len
      <4>1. \A i \in 1..(k + 1) : i <= len => codes[i].n <= m
        BY <1>1, <3>1, <3>3
      <4> QED BY <4>1
    <3> QED BY <3>2, <3>3
  <2> HIDE DEF Bounded
  <2>3. 0 \in T /\ \A k \in Nat : k \in T => k + 1 \in T
    BY <2>1, <2>2
  <2>4. Bounded(len)
    <3> HIDE DEF T
    <3>1. Nat \subseteq T
      BY <2>3, Counting
    <3> QED BY <1>1, <3>1 DEF T
  <2>5. PICK m \in Nat : \A i \in 1..len : i <= len => codes[i].n <= m
    BY <2>4 DEF Bounded
  <2>6. \A i \in 1..len : i <= len
    BY <1>1
  <2>7. \A i \in 1..len : codes[i].n <= m
    BY <2>5, <2>6
  <2> QED BY <2>7
<1>3. S \subseteq Nat
  BY <1>1
<1>4. Bounds \subseteq Nat /\ Bounds # {}
  BY <1>1, <1>2
<1>5. PICK least \in Bounds : \A m \in Bounds : least <= m
  <2> HIDE DEF Bounds
  <2> QED BY <1>4, LeastNumber
<1>6. least \in {0} \cup S
  <2> SUFFICES ASSUME least # 0, least \notin S PROVE FALSE
    OBVIOUS
  <2>1. least - 1 \in Nat /\ \A n \in S : n <= least - 1
    BY <1>3, <1>5
  <2>2. least - 1 \in Bounds /\ least \in Nat
    BY <2>1, <1>5
  <2> QED BY <1>5, <2>2
<1>7. \A n \in {0} \cup S : least >= n
  BY <1>3, <1>5
<1>8. Max({0} \cup S) \in {0} \cup S /\ \A n \in {0} \cup S : Max({0} \cup S) >= n
  BY <1>6, <1>7 DEF Max
<1> DEFINE most == Max({0} \cup S)
<1> HIDE DEF most
<1>9. most \in {0} \cup S /\ \A n \in S : most >= n
  BY <1>8 DEF most
<1>10. most \in Nat
  BY <1>3, <1>9
<1>11. \A n \in S : n <= most
  BY <1>3, <1>9, <1>10
<1> QED BY <1>10, <1>11 DEF most

\* b8e3 gives no code twice, and leaves none bare.
LEMMA RenumberedDistinct ==
    ASSUME NEW codes \in Seq(AnyCode)
    PROVE  /\ Renumbered(codes) \in Seq(AnyCode)
           /\ \A i \in DOMAIN Renumbered(codes) : ~Renumbered(codes)[i].bare
           /\ IsDistinct(codes) => IsDistinct(Renumbered(codes))
<1> DEFINE len == Len(codes)
           used == Hyphenated(codes)
           most == Max({0} \cup used)
           Before(i) == {j \in 1..(i - 1) : codes[j].bare}
           after == Renumbered(codes)
<1>1. len \in Nat /\ DOMAIN codes = 1..len
  BY LenProperties
<1>2. \A i \in 1..len : codes[i] \in AnyCode /\ codes[i].n \in Nat /\ codes[i].bare \in BOOLEAN
  BY <1>1, CodeFields
<1>3. used \subseteq {codes[i].n : i \in DOMAIN codes}
  BY DEF Hyphenated
<1>4. most \in Nat /\ \A n \in used : n <= most
  <2> HIDE DEF used
  <2> QED BY <1>3, LargestNumber
<1>5. \A i \in 1..len : ~codes[i].bare => codes[i].n <= most
  <2>1. \A i \in 1..len : ~codes[i].bare => codes[i].n \in used
    BY <1>1 DEF Hyphenated
  <2> HIDE DEF used
  <2> QED BY <1>4, <2>1
<1> HIDE DEF used, len, most
<1>6. \A i \in 1..len : /\ IsFiniteSet(Before(i)) /\ BareBefore(codes, i) = Cardinality(Before(i))
                        /\ BareBefore(codes, i) \in Nat
  <2> SUFFICES ASSUME NEW i \in 1..len
               PROVE  /\ IsFiniteSet(Before(i)) /\ BareBefore(codes, i) = Cardinality(Before(i))
                      /\ BareBefore(codes, i) \in Nat
    OBVIOUS
  <2>1. IsFiniteSet(1..(i - 1)) /\ Before(i) \subseteq 1..(i - 1)
    <3>1. i - 1 \in Int /\ 1 \in Int
      BY <1>1
    <3> QED BY <3>1, FS_Interval
  <2>2. BareBefore(codes, i) = Cardinality(Before(i))
    BY DEF BareBefore
  <2> HIDE DEF Before
  <2> QED BY <2>1, <2>2, FS_Subset, FS_CardinalityType
<1>7. \A i, j \in 1..len : i < j /\ codes[i].bare => BareBefore(codes, i) < BareBefore(codes, j)
  <2> SUFFICES ASSUME NEW i \in 1..len, NEW j \in 1..len, i < j, codes[i].bare
               PROVE  BareBefore(codes, i) < BareBefore(codes, j)
    OBVIOUS
  <2>1. Before(i) \subseteq Before(j) /\ i \in Before(j) /\ i \notin Before(i)
    BY <1>1
  <2>2. IsFiniteSet(Before(j))
    BY <1>6
  <2>3. Cardinality(Before(i)) <= Cardinality(Before(j)) /\ Cardinality(Before(i)) # Cardinality(Before(j))
    <3> HIDE DEF Before
    <3> QED BY <2>1, <2>2, FS_Subset
  <2> HIDE DEF Before
  <2> QED BY <1>6, <2>3
<1> HIDE DEF Before
<1>8. /\ DOMAIN after = 1..len
      /\ \A i \in 1..len : codes[i].bare =>
            after[i] = [bare |-> FALSE, n |-> 1 + most + BareBefore(codes, i)]
      /\ \A i \in 1..len : ~codes[i].bare => after[i] = codes[i]
  BY <1>1 DEF Renumbered, NewNumber, most, used
<1> HIDE DEF after
<1>9. after \in Seq(AnyCode)
  <2>1. \A i \in 1..len : after[i] \in AnyCode
    <3> SUFFICES ASSUME NEW i \in 1..len PROVE after[i] \in AnyCode
      OBVIOUS
    <3> DEFINE n == 1 + most + BareBefore(codes, i)
    <3>1. n \in Nat
      BY <1>4, <1>6
    <3>2. CASE codes[i].bare
      <4>1. after[i] = [bare |-> FALSE, n |-> n]
        BY <1>8, <3>2
      <4> HIDE DEF n
      <4> QED BY <3>1, <4>1 DEF AnyCode
    <3>3. CASE ~codes[i].bare
      BY <1>2, <1>8, <3>3
    <3> QED BY <3>2, <3>3
  <2>2. after = [i \in 1..len |-> after[i]]
    BY <1>1, <1>8 DEF Renumbered, after
  <2>3. after \in [1..len -> AnyCode]
    BY <2>1, <2>2
  <2> QED BY <1>1, <2>3, RowsMapped
<1>10. \A i \in DOMAIN after : ~after[i].bare
  BY <1>8
<1>11. ASSUME IsDistinct(codes), NEW i \in DOMAIN after, NEW j \in DOMAIN after, after[i] = after[j]
       PROVE  i = j
  <2>1. i \in 1..len /\ j \in 1..len /\ i \in Nat /\ j \in Nat
    BY <1>1, <1>8
  <2>2. CASE ~codes[i].bare /\ ~codes[j].bare
    BY <1>1, <1>8, <1>11, <2>1, <2>2 DEF IsDistinct
  <2>3. CASE codes[i].bare /\ codes[j].bare
    <3>1. BareBefore(codes, i) = BareBefore(codes, j)
      <4>1. after[i].n = 1 + most + BareBefore(codes, i) /\ after[j].n = 1 + most + BareBefore(codes, j)
        BY <1>8, <2>1, <2>3
      <4> QED BY <1>4, <1>6, <1>11, <2>1, <4>1
    <3> QED BY <1>6, <1>7, <2>1, <2>3, <3>1
  <2>4. CASE codes[i].bare /\ ~codes[j].bare
    <3>1. after[i].n = 1 + most + BareBefore(codes, i) /\ after[j].n <= most
      BY <1>5, <1>8, <2>1, <2>4
    <3> QED BY <1>2, <1>4, <1>6, <1>8, <1>11, <2>1, <2>4, <3>1
  <2>5. CASE ~codes[i].bare /\ codes[j].bare
    <3>1. after[j].n = 1 + most + BareBefore(codes, j) /\ after[i].n <= most
      BY <1>5, <1>8, <2>1, <2>5
    <3> QED BY <1>2, <1>4, <1>6, <1>8, <1>11, <2>1, <2>5, <3>1
  <2>6. codes[i].bare \in BOOLEAN /\ codes[j].bare \in BOOLEAN
    BY <1>2, <2>1
  <2> QED BY <2>2, <2>3, <2>4, <2>5, <2>6
<1>12. IsDistinct(codes) => IsDistinct(after)
  BY <1>11 DEF IsDistinct
<1> QED BY <1>9, <1>10, <1>12 DEF after

-----------------------------------------------------------------------------
(* A statement and the rows *)

\* A database as the program keeps it: no code is given twice in a table.
Sound(d) == IsDatabase(d) /\ \A t \in Prefixed : IsDistinct(d.codes[t])

\* The tables whose rows are kept, or that the links kept are from or to.
KeptTables == Prefixed \cup {"skus", "sku_supplying_vendors", "store_returns", "warehouse_vendor_links",
                       "rfqs"}

\* The columns of Targets are of such tables, and refer to such tables.
LEMMA TargetsKept ==
    \A c \in DOMAIN Targets : c[1] \in KeptTables /\ Targets[c] \in KeptTables
<1>1. \A c \in DOMAIN Targets : c \in {<<"sku_supplying_vendors", "vendor_id">>,
                                        <<"store_returns", "resolution_rfq_id">>,
                                        <<"warehouse_vendor_links", "vendor_id">>}
  BY DEF Targets
<1>2. \A c \in DOMAIN Targets : Targets[c] \in {"vendors", "rfqs"}
  BY DEF Targets
<1> QED BY <1>1, <1>2 DEF KeptTables, Prefixed

\* A database without rows.
LEMMA EmptySound ==
    ASSUME NEW schema
    PROVE  LET d == WithoutRows(schema)
           IN  /\ Sound(d) /\ d.ok /\ d.schema = schema /\ d.orphans = {}
               /\ \A i \in DOMAIN d.styles : d.styles[i] = 0
<1> DEFINE d == WithoutRows(schema)
           none == [t \in Prefixed |-> <<>>]
<1>1. <<>> \in Seq(AnyCode) /\ <<>> \in Seq(Nat) /\ DOMAIN <<>> = {}
  OBVIOUS
<1>2. none \in [Prefixed -> Seq(AnyCode)] /\ \A t \in Prefixed : none[t] = <<>>
  BY <1>1
<1>3. \A t \in Prefixed : IsDistinct(none[t])
  BY <1>1, <1>2 DEF IsDistinct
<1>4. d = [schema |-> schema, codes |-> none, styles |-> <<>>, links |-> {}, orphans |-> {},
           ok |-> TRUE]
  BY DEF WithoutRows
<1> HIDE DEF none, d
<1>5. Sound(d) /\ d.ok /\ d.schema = schema /\ d.orphans = {} /\ d.styles = <<>>
  BY <1>1, <1>2, <1>3, <1>4 DEF Sound, IsDatabase, AnyCode
<1> QED BY <1>1, <1>5 DEF d

\* A statement leaves a database of the same kind.
LEMMA EffectSound ==
    ASSUME NEW d, Sound(d), NEW s
    PROVE  Sound(Effect(d, s))
<1> DEFINE e == Effect(d, s)
<1>1. /\ d.codes \in [Prefixed -> Seq(AnyCode)]
      /\ \A t \in Prefixed : d.codes[t] \in Seq(AnyCode) /\ IsDistinct(d.codes[t])
      /\ d.styles \in Seq(Nat)
      /\ d.orphans \subseteq d.links /\ d.links \subseteq DOMAIN Targets
  BY DEF Sound, IsDatabase, AnyCode
<1>2. /\ e = [schema |-> e.schema, codes |-> e.codes, styles |-> e.styles,
              links |-> e.links, orphans |-> e.orphans, ok |-> e.ok]
      /\ e.codes = CodesAfter(d, s) /\ e.styles = StylesAfter(d, s)
      /\ e.links = LinksAfter(d, s) /\ e.orphans = OrphansAfter(d, s) /\ e.ok = TRUE
  BY DEF Effect
<1> HIDE DEF e
<1>3. <<>> \in Seq(AnyCode) /\ <<>> \in Seq(Nat) /\ IsDistinct(<<>>)
  BY DEF IsDistinct
<1>4. ASSUME NEW t \in Prefixed
      PROVE  e.codes[t] \in Seq(AnyCode) /\ IsDistinct(e.codes[t])
  <2>1. Renumbered(d.codes[t]) \in Seq(AnyCode) /\ IsDistinct(Renumbered(d.codes[t]))
    BY <1>1, RenumberedDistinct
  <2>2. e.codes[t] \in {<<>>, Renumbered(d.codes[t]), d.codes[t]}
    BY <1>2 DEF CodesAfter
  <2> QED BY <1>1, <1>3, <2>1, <2>2
<1>5. e.codes = [t \in Prefixed |-> e.codes[t]]
  BY <1>2 DEF CodesAfter
<1>6. e.styles \in Seq(Nat)
  <2> DEFINE numbered == [i \in DOMAIN d.styles |-> i]
  <2>1. Len(d.styles) \in Nat /\ DOMAIN d.styles = 1..Len(d.styles)
    BY <1>1, LenProperties
  <2>2. numbered \in [1..Len(d.styles) -> Nat]
    BY <2>1
  <2>3. numbered \in Seq(Nat)
    <3> HIDE DEF numbered
    <3> QED BY <2>1, <2>2, RowsMapped
  <2>4. e.styles \in {<<>>, numbered, d.styles}
    BY <1>2 DEF StylesAfter
  <2> QED BY <1>1, <1>3, <2>3, <2>4
<1>7. e.orphans \subseteq e.links /\ e.links \subseteq DOMAIN Targets
  BY <1>1, <1>2 DEF LinksAfter, OrphansAfter
<1>8. e.codes \in [Prefixed -> Seq(AnyCode)]
  BY <1>4, <1>5
<1> QED BY <1>2, <1>4, <1>6, <1>7, <1>8 DEF Sound, IsDatabase, AnyCode, e

-----------------------------------------------------------------------------
(* One statement, and the statements of a revision *)

\* What becomes of a database by one statement.
LEMMA PerformStep ==
    ASSUME NEW d, Sound(d), NEW s
    PROVE  LET e == Perform(d, s)
           IN  /\ Sound(e)
               /\ e.ok => d.ok /\ Fits(d.schema, s) /\ RowsAllow(d, s) /\ e = Effect(d, s)
               /\ d.ok /\ Fits(d.schema, s) /\ RowsAllow(d, s) => e.ok
               /\ ~e.ok => /\ e.codes = d.codes /\ e.styles = d.styles
                           /\ e.links = d.links /\ e.orphans = d.orphans
<1> DEFINE e == Perform(d, s)
           refused == [d EXCEPT !.ok = FALSE]
           Claim(x) == /\ Sound(x)
                       /\ x.ok => /\ d.ok /\ Fits(d.schema, s) /\ RowsAllow(d, s)
                                  /\ x = Effect(d, s)
                       /\ d.ok /\ Fits(d.schema, s) /\ RowsAllow(d, s) => x.ok
                       /\ ~x.ok => /\ x.codes = d.codes /\ x.styles = d.styles
                                   /\ x.links = d.links /\ x.orphans = d.orphans
<1> SUFFICES Claim(e)
  OBVIOUS
<1>1. /\ d = [schema |-> d.schema, codes |-> d.codes, styles |-> d.styles,
              links |-> d.links, orphans |-> d.orphans, ok |-> d.ok]
      /\ d.ok \in BOOLEAN
  BY DEF Sound, IsDatabase
<1>2. refused = [schema |-> d.schema, codes |-> d.codes, styles |-> d.styles,
                 links |-> d.links, orphans |-> d.orphans, ok |-> FALSE]
  <2>1. ASSUME NEW a, NEW b, NEW c, NEW l, NEW o, NEW k, NEW x,
               d = [schema |-> a, codes |-> b, styles |-> c, links |-> l, orphans |-> o, ok |-> k]
        PROVE  [d EXCEPT !.ok = x] = [schema |-> a, codes |-> b, styles |-> c, links |-> l,
                                      orphans |-> o, ok |-> x]
    BY <2>1
  <2> DEFINE x == FALSE
  <2> HIDE DEF x
  <2>2. [d EXCEPT !.ok = x] = [schema |-> d.schema, codes |-> d.codes, styles |-> d.styles,
                               links |-> d.links, orphans |-> d.orphans, ok |-> x]
    BY <1>1, <2>1
  <2> QED BY <2>2 DEF x
<1> HIDE DEF refused
<1>3. /\ ~refused.ok /\ refused.codes = d.codes /\ refused.styles = d.styles
      /\ refused.links = d.links /\ refused.orphans = d.orphans
  BY <1>2
<1>4. Sound(refused)
  <2>1. refused = [schema |-> refused.schema, codes |-> refused.codes, styles |-> refused.styles,
                   links |-> refused.links, orphans |-> refused.orphans, ok |-> refused.ok]
    BY <1>2
  <2>2. refused.ok \in BOOLEAN
    BY <1>2
  <2> QED BY <1>3, <2>1, <2>2 DEF Sound, IsDatabase
<1>5. Sound(Effect(d, s)) /\ Effect(d, s).ok
  BY EffectSound DEF Effect
<1>6. e = IF ~d.ok THEN d
          ELSE IF Fits(d.schema, s) /\ RowsAllow(d, s) THEN Effect(d, s) ELSE refused
  BY DEF Perform, Accepts, refused
<1> HIDE DEF e
<1>7. CASE ~d.ok
  BY <1>6, <1>7
<1>8. CASE d.ok /\ Fits(d.schema, s) /\ RowsAllow(d, s)
  BY <1>5, <1>6, <1>8
<1>9. CASE d.ok /\ ~(Fits(d.schema, s) /\ RowsAllow(d, s))
  <2>1. e = refused
    BY <1>6, <1>9
  <2> QED BY <1>3, <1>4, <1>9, <2>1
<1> QED BY <1>7, <1>8, <1>9

\* The databases between the statements of a revision.
Between(f, d, statements) ==
    f = [i \in 0..Len(statements) |-> IF i = 0 THEN d ELSE Perform(f[i - 1], statements[i])]

\* They are defined by recursion: that there are such databases is shown by counting.
LEMMA RunSteps ==
    ASSUME NEW d, NEW statements, Len(statements) \in Nat
    PROVE  \E f : /\ Between(f, d, statements)
                  /\ Run(d, statements) = f[Len(statements)]
<1> DEFINE len == Len(statements)
           Good(n) == \E f : f = [i \in 0..n |-> IF i = 0 THEN d ELSE Perform(f[i - 1], statements[i])]
           T == {n \in Nat : Good(n)}
<1>1. Good(0)
  <2> DEFINE f == [i \in 0..0 |-> d]
  <2>1. f = [i \in 0..0 |-> IF i = 0 THEN d ELSE Perform(f[i - 1], statements[i])]
    OBVIOUS
  <2> QED BY <2>1
<1>2. ASSUME NEW n \in Nat, Good(n)
      PROVE  Good(n + 1)
  <2>1. PICK f : f = [i \in 0..n |-> IF i = 0 THEN d ELSE Perform(f[i - 1], statements[i])]
    BY <1>2
  <2> DEFINE g == [i \in 0..(n + 1) |-> IF i = n + 1 THEN Perform(f[n], statements[n + 1]) ELSE f[i]]
  <2>2. ASSUME NEW i \in 0..(n + 1)
        PROVE  g[i] = IF i = 0 THEN d ELSE Perform(g[i - 1], statements[i])
    <3>1. CASE i = n + 1
      <4>1. n \in 0..(n + 1) /\ n # n + 1 /\ i # 0 /\ i - 1 = n
        BY <3>1
      <4> QED BY <3>1, <4>1
    <3>2. CASE i # n + 1
      <4>1. i \in 0..n /\ g[i] = f[i]
        BY <3>2
      <4>2. f[i] = IF i = 0 THEN d ELSE Perform(f[i - 1], statements[i])
        BY <2>1, <4>1
      <4>3. i # 0 => i - 1 \in 0..(n + 1) /\ i - 1 # n + 1
        BY <3>2
      <4>4. i # 0 => g[i - 1] = f[i - 1]
        BY <4>3
      <4> HIDE DEF g
      <4> QED BY <4>1, <4>2, <4>4
    <3> QED BY <3>1, <3>2
  <2>3. g = [i \in 0..(n + 1) |-> g[i]]
    OBVIOUS
  <2> HIDE DEF g
  <2>4. g = [i \in 0..(n + 1) |-> IF i = 0 THEN d ELSE Perform(g[i - 1], statements[i])]
    BY <2>2, <2>3
  <2> QED BY <2>4
<1> HIDE DEF Good
<1>3. 0 \in T /\ \A n \in Nat : n \in T => n + 1 \in T
  BY <1>1, <1>2
<1>4. Good(len)
  <2> HIDE DEF T
  <2>1. Nat \subseteq T
    BY <1>3, Counting
  <2> QED BY <2>1 DEF T
<1>5. \E f : Between(f, d, statements)
  BY <1>4 DEF Good, Between
<1>6. Run(d, statements) = (CHOOSE f : Between(f, d, statements))[len]
  BY DEF Run, Between
<1> QED BY <1>5, <1>6

\* How the databases between the statements follow on each other.
Followed(f, d, statements) ==
    /\ f[0] = d
    /\ \A i \in 0..Len(statements) : Sound(f[i])
    /\ \A i \in 1..Len(statements) :
         /\ f[i].ok => /\ f[i - 1].ok /\ Fits(f[i - 1].schema, statements[i])
                       /\ RowsAllow(f[i - 1], statements[i])
                       /\ f[i] = Effect(f[i - 1], statements[i])
         /\ f[i - 1].ok /\ Fits(f[i - 1].schema, statements[i])
              /\ RowsAllow(f[i - 1], statements[i]) => f[i].ok
         /\ ~f[i].ok => /\ f[i].codes = f[i - 1].codes /\ f[i].styles = f[i - 1].styles
                        /\ f[i].links = f[i - 1].links /\ f[i].orphans = f[i - 1].orphans

\* The statements of a revision, run one after the other.
LEMMA RunFollowed ==
    ASSUME NEW d, Sound(d), NEW statements, Len(statements) \in Nat
    PROVE  \E f : Followed(f, d, statements) /\ Run(d, statements) = f[Len(statements)]
<1> DEFINE len == Len(statements)
<1>1. PICK f : Between(f, d, statements) /\ Run(d, statements) = f[len]
  BY RunSteps
<1>2. /\ f[0] = d
      /\ \A i \in 1..len : f[i] = Perform(f[i - 1], statements[i])
  BY <1>1 DEF Between
<1> DEFINE T == {i \in 0..len : Sound(f[i])}
<1>3. 0 \in T
  BY <1>2
<1>4. \A i \in 1..len : i - 1 \in T => i \in T
  <2> SUFFICES ASSUME NEW i \in 1..len, Sound(f[i - 1]) PROVE Sound(f[i])
    OBVIOUS
  <2> QED BY <1>2, PerformStep
<1>5. \A i \in 0..len : Sound(f[i])
  <2> HIDE DEF T
  <2>1. 0..len \subseteq T
    BY <1>3, <1>4, CountingUpTo
  <2> QED BY <2>1 DEF T
<1>6. ASSUME NEW i \in 1..len
      PROVE  /\ f[i].ok => /\ f[i - 1].ok /\ Fits(f[i - 1].schema, statements[i])
                           /\ RowsAllow(f[i - 1], statements[i])
                           /\ f[i] = Effect(f[i - 1], statements[i])
             /\ f[i - 1].ok /\ Fits(f[i - 1].schema, statements[i])
                  /\ RowsAllow(f[i - 1], statements[i]) => f[i].ok
             /\ ~f[i].ok => /\ f[i].codes = f[i - 1].codes /\ f[i].styles = f[i - 1].styles
                            /\ f[i].links = f[i - 1].links /\ f[i].orphans = f[i - 1].orphans
  <2>1. i - 1 \in 0..len
    OBVIOUS
  <2>2. Sound(f[i - 1]) /\ f[i] = Perform(f[i - 1], statements[i])
    BY <1>2, <1>5, <2>1
  <2> QED BY <2>2, PerformStep
<1>7. Followed(f, d, statements)
  BY <1>2, <1>5, <1>6 DEF Followed
<1> QED BY <1>1, <1>7

\* Where the statements are run to the end, none before has been refused.
LEMMA FollowedAll ==
    ASSUME NEW d, NEW f, NEW statements, Len(statements) \in Nat, Followed(f, d, statements),
           f[Len(statements)].ok
    PROVE  \A i \in 0..Len(statements) : f[i].ok
<1> DEFINE len == Len(statements)
           T == {i \in 0..len : f[len - i].ok}
<1>1. 0 \in T
  OBVIOUS
<1>2. \A i \in 1..len : i - 1 \in T => i \in T
  <2> SUFFICES ASSUME NEW i \in 1..len, f[len - (i - 1)].ok PROVE f[len - i].ok
    OBVIOUS
  <2>1. len - (i - 1) \in 1..len /\ len - (i - 1) - 1 = len - i
    OBVIOUS
  <2> QED BY <2>1 DEF Followed
<1>3. 0..len \subseteq T
  <2> HIDE DEF T
  <2> QED BY <1>1, <1>2, CountingUpTo
<1> SUFFICES ASSUME NEW i \in 0..len PROVE f[i].ok
  OBVIOUS
<1>4. len - i \in T
  <2>1. len - i \in 0..len
    OBVIOUS
  <2> HIDE DEF T
  <2> QED BY <1>3, <2>1
<1>5. len - (len - i) = i
  OBVIOUS
<1>6. f[len - (len - i)].ok
  BY <1>4
<1> QED BY <1>5, <1>6

\* The rows make no difference to the schema; the schema none to whether they are in the way.
LEMMA RowsApart ==
    ASSUME NEW d, Sound(d), d.ok, NEW statements, Len(statements) \in Nat,
           NEW bare, bare = Run(WithoutRows(d.schema), statements), bare.ok
    PROVE  \E f : /\ Followed(f, d, statements) /\ Run(d, statements) = f[Len(statements)]
                  /\ \A i \in 1..Len(statements) :
                        f[i - 1].ok /\ RowsAllow(f[i - 1], statements[i]) => f[i].ok
                  /\ f[Len(statements)].ok => f[Len(statements)].schema = bare.schema
<1> DEFINE len == Len(statements)
           empty == WithoutRows(d.schema)
<1>1. PICK f : Followed(f, d, statements) /\ Run(d, statements) = f[len]
  BY RunFollowed
<1>2. Sound(empty) /\ empty.schema = d.schema
  BY EmptySound
<1> HIDE DEF empty
<1>3. PICK b : Followed(b, empty, statements) /\ Run(empty, statements) = b[len]
  BY <1>2, RunFollowed
<1>4. bare = b[len]
  BY <1>3 DEF empty
<1>5. \A i \in 0..len : b[i].ok
  BY <1>3, <1>4, FollowedAll
<1> DEFINE T == {i \in 0..len : f[i].ok => f[i].schema = b[i].schema}
<1>6. 0 \in T
  BY <1>1, <1>2, <1>3 DEF Followed
<1>7. ASSUME NEW i \in 1..len, i - 1 \in T
      PROVE  i \in T
  <2>1. i - 1 \in 0..len /\ i \in 0..len
    OBVIOUS
  <2>2. CASE f[i].ok
    <3>1. f[i - 1].ok /\ f[i] = Effect(f[i - 1], statements[i])
      BY <1>1, <2>2 DEF Followed
    <3>2. b[i] = Effect(b[i - 1], statements[i])
      BY <1>3, <1>5, <2>1 DEF Followed
    <3>3. f[i].schema = Reshaped(f[i - 1].schema, statements[i])
      BY <3>1 DEF Effect
    <3>4. b[i].schema = Reshaped(b[i - 1].schema, statements[i])
      BY <3>2 DEF Effect
    <3>5. f[i - 1].schema = b[i - 1].schema
      BY <1>7, <3>1
    <3> QED BY <2>1, <3>3, <3>4, <3>5
  <2>3. CASE ~f[i].ok
    BY <2>1, <2>3
  <2> QED BY <2>2, <2>3
<1>8. \A i \in 0..len : f[i].ok => f[i].schema = b[i].schema
  <2> HIDE DEF T
  <2>1. 0..len \subseteq T
    BY <1>6, <1>7, CountingUpTo
  <2> QED BY <2>1 DEF T
<1>9. ASSUME NEW i \in 1..len, f[i - 1].ok, RowsAllow(f[i - 1], statements[i])
      PROVE  f[i].ok
  <2>1. i - 1 \in 0..len /\ i \in 0..len
    OBVIOUS
  <2>2. Fits(b[i - 1].schema, statements[i])
    BY <1>3, <1>5, <2>1 DEF Followed
  <2>3. Fits(f[i - 1].schema, statements[i])
    BY <1>8, <1>9, <2>1, <2>2
  <2> QED BY <1>1, <1>9, <2>3 DEF Followed
<1>10. f[len].ok => f[len].schema = bare.schema
  BY <1>4, <1>8
<1> QED BY <1>1, <1>9, <1>10

-----------------------------------------------------------------------------
(* What kinds of statements the revisions are made of *)

\* Statements none of which is of the kinds, or drops one of the tables.
Without(statements, kinds, tables) ==
    /\ statements \in Seq({statements[i] : i \in DOMAIN statements})
    /\ \A i \in 1..Len(statements) :
         /\ statements[i].op \notin kinds
         /\ statements[i].op = "drop" => statements[i].table \notin tables

\* Two such lists, one after the other.
LEMMA WithoutJoined ==
    ASSUME NEW kinds, NEW tables, NEW s, Without(s, kinds, tables), NEW t, Without(t, kinds, tables)
    PROVE  Without(s \o t, kinds, tables)
<1> DEFINE S == {s[i] : i \in DOMAIN s} \cup {t[i] : i \in DOMAIN t}
           both == s \o t
<1>1. s \in Seq(S) /\ t \in Seq(S)
  BY DEF Without
<1>2. Len(s) \in Nat /\ Len(t) \in Nat
  BY <1>1, LenProperties
<1> HIDE DEF S, both
<1>3. /\ both \in Seq(S)
      /\ Len(both) = Len(s) + Len(t)
      /\ \A i \in 1..(Len(s) + Len(t)) : both[i] = IF i <= Len(s) THEN s[i] ELSE t[i - Len(s)]
  BY <1>1, ConcatProperties DEF both
<1>4. DOMAIN both = 1..Len(both) /\ Len(both) \in Nat
  BY <1>3, LenProperties
<1>5. both = [i \in 1..Len(both) |-> both[i]]
  BY <1>3, LenProperties
<1>6. both \in Seq({both[i] : i \in DOMAIN both})
  <2> DEFINE R == {both[i] : i \in DOMAIN both}
  <2>1. both \in [1..Len(both) -> R]
    BY <1>4, <1>5
  <2> HIDE DEF R
  <2>2. both \in Seq(R)
    BY <1>4, <2>1, RowsMapped
  <2> QED BY <2>2 DEF R
<1>7. ASSUME NEW i \in 1..Len(both)
      PROVE  both[i].op \notin kinds /\ (both[i].op = "drop" => both[i].table \notin tables)
  <2>1. CASE i <= Len(s)
    BY <1>2, <1>3, <1>7, <2>1 DEF Without
  <2>2. CASE ~(i <= Len(s))
    <3>1. i - Len(s) \in 1..Len(t) /\ both[i] = t[i - Len(s)]
      BY <1>2, <1>3, <1>7, <2>2
    <3> QED BY <3>1 DEF Without
  <2> QED BY <2>1, <2>2
<1> QED BY <1>6, <1>7 DEF Without, both

\* The kinds of statements no downgrade has.
Undoable == {"add_ref", "restyle", "renumber"}

\* Drops of tables and of types are no such statements.
LEMMA DropsWithout ==
    ASSUME NEW names, names \in Seq({names[i] : i \in DOMAIN names})
    PROVE  Without(Drops(names), Undoable, {}) /\ Without(DropTypes(names), Undoable, {})
<1> DEFINE len == Len(names)
           a == Drops(names)
           b == DropTypes(names)
           A == {a[i] : i \in DOMAIN a}
           B == {b[i] : i \in DOMAIN b}
           S == {names[i] : i \in DOMAIN names}
<1>1. len \in Nat /\ DOMAIN names = 1..len
  <2> HIDE DEF S
  <2>1. names \in Seq(S)
    BY DEF S
  <2> QED BY <2>1, LenProperties
<1>2. a = [i \in 1..len |-> Drop(names[i])] /\ b = [i \in 1..len |-> DropType(names[i])]
  BY <1>1 DEF Drops, DropTypes
<1> HIDE DEF a, b
<1>3. a \in [1..len -> A] /\ b \in [1..len -> B]
  BY <1>2
<1> HIDE DEF A, B
<1>4. a \in Seq(A) /\ b \in Seq(B)
  BY <1>1, <1>3, RowsMapped
<1>5. Len(a) = len /\ Len(b) = len
  BY <1>1, <1>2, <1>4, LenProperties
<1>6. \A i \in 1..len : a[i].op = "drop" /\ b[i].op = "drop_type"
  BY <1>2 DEF Drop, DropType
<1> QED BY <1>4, <1>5, <1>6 DEF Without, Undoable, A, B, a, b

\* The kinds of statements that number rows.
Changing == {"restyle", "renumber"}

\* The revisions, and the parts of the long ones, that create tables.
LEMMA CreatesWithout ==
    /\ Without(UpUsers, Changing, KeptTables)
    /\ Without(CoreRoots, Changing, KeptTables)
    /\ Without(CoreLinks, Changing, KeptTables)
    /\ Without(CoreStock, Changing, KeptTables)
    /\ Without(CoreOrders, Changing, KeptTables)
    /\ Without(VendorRoots, Changing, KeptTables)
    /\ Without(VendorOffers, Changing, KeptTables)
    /\ Without(VendorNotices, Changing, KeptTables)
    /\ Without(VendorBills, Changing, KeptTables)
    /\ Without(VendorRefs, Changing, KeptTables)
    /\ Without(UpAttachments, Changing, KeptTables)
    /\ Without(UpSupport, Changing, KeptTables)
<1>1. Without(UpUsers, Changing, KeptTables)
  BY DEF Without, Changing, UpUsers, Create
<1>2. Without(CoreRoots, Changing, KeptTables)
  BY DEF Without, Changing, CoreRoots, Create
<1>3. Without(CoreLinks, Changing, KeptTables)
  BY DEF Without, Changing, CoreLinks, Create
<1>4. Without(CoreStock, Changing, KeptTables)
  BY DEF Without, Changing, CoreStock, Create
<1>5. Without(CoreOrders, Changing, KeptTables)
  BY DEF Without, Changing, CoreOrders, Create, AddRef
<1>6. Without(VendorRoots, Changing, KeptTables)
  BY DEF Without, Changing, VendorRoots, Create
<1>7. Without(VendorOffers, Changing, KeptTables)
  BY DEF Without, Changing, VendorOffers, Create
<1>8. Without(VendorNotices, Changing, KeptTables)
  BY DEF Without, Changing, VendorNotices, Create
<1>9. Without(VendorBills, Changing, KeptTables)
  BY DEF Without, Changing, VendorBills, Create
<1>10. Without(VendorRefs, Changing, KeptTables)
  BY DEF Without, Changing, VendorRefs, AddRef
<1>11. Without(UpAttachments, Changing, KeptTables)
  BY DEF Without, Changing, UpAttachments, Create
<1>12. Without(UpSupport, Changing, KeptTables)
  BY DEF Without, Changing, UpSupport, Create
<1> QED BY <1>1, <1>2, <1>3, <1>4, <1>5, <1>6, <1>7, <1>8, <1>9, <1>10, <1>11, <1>12

\* The revisions that change them.
LEMMA ChangesWithout ==
    /\ Without(UpUnused, Changing, KeptTables)
    /\ Without(UpRfqFields, Changing, KeptTables)
    /\ Without(UpShipmentCode, Changing, KeptTables)
    /\ Without(UpSupportFields, Changing, KeptTables)
    /\ Without(UpStyles, {"renumber"}, KeptTables)
    /\ Without(UpCodes, {"restyle"}, KeptTables)
<1>1. Without(UpUnused, Changing, KeptTables)
  BY DEF Without, Changing, UpUnused, Drop, DropColumn, KeptTables, Prefixed
<1>2. Without(UpRfqFields, Changing, KeptTables)
  BY DEF Without, Changing, UpRfqFields, DropColumn
<1>3. Without(UpShipmentCode, Changing, KeptTables)
  BY DEF Without, Changing, UpShipmentCode, AddColumn, AddUnique
<1>4. Without(UpSupportFields, Changing, KeptTables)
  BY DEF Without, Changing, UpSupportFields, DropColumn
<1>5. Without(UpStyles, {"renumber"}, KeptTables)
  BY DEF Without, UpStyles, Restyle
<1>6. Without(UpCodes, {"restyle"}, KeptTables)
  BY DEF Without, UpCodes, Renumber
<1> QED BY <1>1, <1>2, <1>3, <1>4, <1>5, <1>6

\* d1e4 alone numbers the styles, b8e3 alone the codes, and no upgrade drops a table kept.
LEMMA UpgradesWithout ==
    /\ HeadRev = 11
    /\ \A r \in 1..HeadRev :
         /\ Without(Upgrades[r], {}, KeptTables)
         /\ r # 7 => Without(Upgrades[r], {"restyle"}, KeptTables)
         /\ r # 11 => Without(Upgrades[r], {"renumber"}, KeptTables)
    /\ Upgrades[11] = UpCodes
<1>1. HeadRev = 11
  BY DEF HeadRev, Upgrades
<1>2. Without(UpCore, Changing, KeptTables)
  BY CreatesWithout, WithoutJoined DEF UpCore
<1>3. Without(UpVendors, Changing, KeptTables)
  BY CreatesWithout, WithoutJoined DEF UpVendors
<1>4. /\ Upgrades[1] = UpUsers /\ Upgrades[2] = UpCore /\ Upgrades[3] = UpVendors
      /\ Upgrades[4] = UpUnused /\ Upgrades[5] = UpRfqFields /\ Upgrades[6] = UpAttachments
      /\ Upgrades[7] = UpStyles /\ Upgrades[8] = UpShipmentCode /\ Upgrades[9] = UpSupport
      /\ Upgrades[10] = UpSupportFields /\ Upgrades[11] = UpCodes
  BY DEF Upgrades
<1>5. \A r \in 1..11 : r \in {1, 2, 3, 4, 5, 6, 7, 8, 9, 10, 11}
  OBVIOUS
<1>6. \A r \in 1..11 : r # 7 /\ r # 11 => Without(Upgrades[r], Changing, KeptTables)
  BY <1>2, <1>3, <1>4, <1>5, CreatesWithout, ChangesWithout
<1>7. Without(Upgrades[7], {"renumber"}, KeptTables) /\ Without(Upgrades[11], {"restyle"}, KeptTables)
  BY <1>4, ChangesWithout
<1>8. \A s, tables : /\ Without(s, Changing, tables) => /\ Without(s, {"restyle"}, tables)
                                                        /\ Without(s, {"renumber"}, tables)
                     /\ Without(s, {"restyle"}, tables) => Without(s, {}, tables)
                     /\ Without(s, {"renumber"}, tables) => Without(s, {}, tables)
  BY DEF Without, Changing
<1> QED BY <1>1, <1>4, <1>6, <1>7, <1>8

\* A downgrade never meets a row that is in its way.
LEMMA DowngradesWithout ==
    /\ Len(Downgrades) = 11
    /\ \A r \in 1..HeadRev : Without(Downgrades[r], Undoable, {})
<1>1. Len(Downgrades) = 11 /\ HeadRev = 11
  BY UpgradesWithout DEF Downgrades
<1>2. Without(DownUsers, Undoable, {})
  <2> DEFINE tables == <<"user_notification_prefs", "user_account_settings", "refresh_tokens",
                         "password_reset_tokens", "notifications", "users",
                         "store_notification_mutes">>
             types == <<"user_status", "portal_type">>
  <2>1. Without(Drops(tables), Undoable, {})
    <3>1. tables \in Seq({tables[i] : i \in DOMAIN tables})
      OBVIOUS
    <3> HIDE DEF tables
    <3> QED BY <3>1, DropsWithout
  <2>2. Without(DropTypes(types), Undoable, {})
    <3>1. types \in Seq({types[i] : i \in DOMAIN types})
      OBVIOUS
    <3> HIDE DEF types
    <3> QED BY <3>1, DropsWithout
  <2>3. DownUsers = Drops(tables) \o DropTypes(types)
    BY DEF DownUsers
  <2> HIDE DEF tables, types
  <2> QED BY <2>1, <2>2, <2>3, WithoutJoined
<1>3. Without(DownCore, Undoable, {})
  <2> DEFINE some == <<"receiving_items", "inventory_reservations">>
             ref == <<DropRef("transfer_orders", "fk_transfer_orders_return_id")>>
             rest == <<"store_returns", "transfer_orders", "warehouse_stock_movements",
               "warehouse_sku_status", "store_product_settings", "store_inventory",
               "store_discounts", "sku_supplying_vendors", "purchase_requests", "inventory",
               "warehouse_zones", "warehouse_vendor_links", "warehouse_store_links",
               "store_approvals", "sku_variants", "warehouses", "stores", "skus", "audit_log">>
  <2>1. Without(Drops(some), Undoable, {})
    <3>1. some \in Seq({some[i] : i \in DOMAIN some})
      OBVIOUS
    <3> HIDE DEF some
    <3> QED BY <3>1, DropsWithout
  <2>2. Without(ref, Undoable, {})
    BY DEF Without, Undoable, DropRef
  <2>3. Without(Drops(rest), Undoable, {})
    <3>1. rest \in Seq({rest[i] : i \in DOMAIN rest})
      OBVIOUS
    <3> HIDE DEF rest
    <3> QED BY <3>1, DropsWithout
  <2>4. Without(DropTypes(CoreTypes), Undoable, {})
    <3>1. CoreTypes \in Seq({CoreTypes[i] : i \in DOMAIN CoreTypes})
      BY DEF CoreTypes
    <3> QED BY <3>1, DropsWithout
  <2>5. DownCore = Drops(some) \o ref \o Drops(rest) \o DropTypes(CoreTypes)
    BY DEF DownCore
  <2> HIDE DEF some, ref, rest
  <2>6. Without(Drops(some) \o ref, Undoable, {})
    BY <2>1, <2>2, WithoutJoined
  <2>7. Without(Drops(some) \o ref \o Drops(rest), Undoable, {})
    BY <2>3, <2>6, WithoutJoined
  <2> QED BY <2>4, <2>5, <2>7, WithoutJoined
<1>4. Without(DownVendors, Undoable, {})
  <2> DEFINE refs == <<DropRef("warehouse_vendor_links", "fk_warehouse_vendor_links_vendor_id"),
                       DropRef("store_returns", "fk_store_returns_resolution_rfq_id"),
                       DropRef("sku_supplying_vendors", "fk_sku_supplying_vendors_vendor_id")>>
             tables == <<"vendor_return_attachments", "shipment_timeline_events", "payments",
               "vendor_returns", "shipments", "invoices", "goods_receipts", "asn_items",
               "asn_attachments", "vendor_catalog_documents", "asns",
               "vendor_catalog_submissions", "purchase_orders", "vendor_goods",
               "vendor_compliance_documents", "vendor_categories", "rfq_invited_vendors",
               "quotations", "vendors", "rfqs", "freight_payments">>
             types == <<"vendor_return_status", "freight_payment_status", "freight_payer_party",
               "freight_linked_type", "freight_direction", "payment_mode", "payment_status",
               "invoice_status", "shipment_status", "asn_inspection_status",
               "asn_attachment_uploader_role", "asn_draft_status", "purchase_order_status",
               "freight_payer", "quotation_status", "rfq_status", "catalog_submission_status",
               "goods_stock_status", "goods_unit", "goods_category", "compliance_doc_type",
               "vendor_status">>
  <2>1. Without(refs, Undoable, {})
    BY DEF Without, Undoable, DropRef
  <2>2. Without(Drops(tables), Undoable, {})
    <3>1. tables \in Seq({tables[i] : i \in DOMAIN tables})
      OBVIOUS
    <3> HIDE DEF tables
    <3> QED BY <3>1, DropsWithout
  <2>3. Without(DropTypes(types), Undoable, {})
    <3>1. types \in Seq({types[i] : i \in DOMAIN types})
      OBVIOUS
    <3> HIDE DEF types
    <3> QED BY <3>1, DropsWithout
  <2>4. DownVendors = refs \o Drops(tables) \o DropTypes(types)
    BY DEF DownVendors
  <2> HIDE DEF refs, tables, types
  <2>5. Without(refs \o Drops(tables), Undoable, {})
    BY <2>1, <2>2, WithoutJoined
  <2> QED BY <2>3, <2>4, <2>5, WithoutJoined
<1>5. Without(DownUnused, Undoable, {})
  BY DEF Without, Undoable, DownUnused, AddColumn, Create
<1>6. Without(DownRfqFields, Undoable, {})
  BY DEF Without, Undoable, DownRfqFields, AddColumn
<1>7. Without(DownAttachments, Undoable, {})
  BY DEF Without, Undoable, DownAttachments, Drop
<1>8. Without(DownStyles, Undoable, {}) /\ Without(DownCodes, Undoable, {})
  BY DEF Without, DownStyles, DownCodes
<1>9. Without(DownShipmentCode, Undoable, {})
  BY DEF Without, Undoable, DownShipmentCode, DropUnique, DropColumn
<1>10. Without(DownSupport, Undoable, {})
  <2> DEFINE tables == <<"support_routing_rules", "support_ticket_attachments",
                         "support_ticket_messages", "support_tickets">>
             types == <<"ticket_status", "ticket_priority">>
  <2>1. Without(Drops(tables), Undoable, {})
    <3>1. tables \in Seq({tables[i] : i \in DOMAIN tables})
      OBVIOUS
    <3> HIDE DEF tables
    <3> QED BY <3>1, DropsWithout
  <2>2. Without(DropTypes(types), Undoable, {})
    <3>1. types \in Seq({types[i] : i \in DOMAIN types})
      OBVIOUS
    <3> HIDE DEF types
    <3> QED BY <3>1, DropsWithout
  <2>3. DownSupport = Drops(tables) \o DropTypes(types)
    BY DEF DownSupport
  <2> HIDE DEF tables, types
  <2> QED BY <2>1, <2>2, <2>3, WithoutJoined
<1>11. Without(DownSupportFields, Undoable, {})
  BY DEF Without, Undoable, DownSupportFields, AddColumn
<1>12. /\ Downgrades[1] = DownUsers /\ Downgrades[2] = DownCore /\ Downgrades[3] = DownVendors
      /\ Downgrades[4] = DownUnused /\ Downgrades[5] = DownRfqFields
      /\ Downgrades[6] = DownAttachments /\ Downgrades[7] = DownStyles
      /\ Downgrades[8] = DownShipmentCode /\ Downgrades[9] = DownSupport
      /\ Downgrades[10] = DownSupportFields /\ Downgrades[11] = DownCodes
  BY DEF Downgrades
<1>13. \A r \in 1..11 : r \in {1, 2, 3, 4, 5, 6, 7, 8, 9, 10, 11}
  OBVIOUS
<1> QED BY <1>1, <1>2, <1>3, <1>4, <1>5, <1>6, <1>7, <1>8, <1>9, <1>10, <1>11, <1>12, <1>13

-----------------------------------------------------------------------------
(* The rows along a revision of an upgrade *)

\* What one statement of an upgrade leaves of the rows.
LEMMA EffectRows ==
    ASSUME NEW d, Sound(d), NEW s, s.op = "drop" => s.table \notin KeptTables
    PROVE  /\ Effect(d, s).links = d.links /\ Effect(d, s).orphans = d.orphans
           /\ s.op # "renumber" => Effect(d, s).codes = d.codes
           /\ s.op # "restyle" => Effect(d, s).styles = d.styles
           /\ StylesFree(d.styles) => StylesFree(Effect(d, s).styles)
<1>1. /\ Effect(d, s).codes = CodesAfter(d, s) /\ Effect(d, s).styles = StylesAfter(d, s)
      /\ Effect(d, s).links = LinksAfter(d, s) /\ Effect(d, s).orphans = OrphansAfter(d, s)
  BY DEF Effect
<1>2. /\ d.codes = [t \in Prefixed |-> d.codes[t]]
      /\ d.styles \in Seq(Nat)
      /\ d.orphans \subseteq d.links /\ d.links \subseteq DOMAIN Targets
  BY DEF Sound, IsDatabase
<1>3. s.op = "drop" => s.table \notin Prefixed /\ s.table # "skus"
  BY DEF KeptTables
<1>4. s.op # "renumber" => CodesAfter(d, s) = d.codes
  BY <1>2, <1>3 DEF CodesAfter
<1>5. s.op # "restyle" => StylesAfter(d, s) = d.styles
  BY <1>3 DEF StylesAfter
<1>6. LinksAfter(d, s) = d.links
  BY <1>2, TargetsKept DEF LinksAfter
<1>7. OrphansAfter(d, s) = d.orphans
  BY <1>2, <1>6, TargetsKept DEF OrphansAfter
<1>8. ASSUME StylesFree(d.styles) PROVE StylesFree(StylesAfter(d, s))
  <2>1. CASE s.op = "restyle"
    <3> DEFINE numbered == [i \in DOMAIN d.styles |-> i]
    <3>1. DOMAIN d.styles = 1..Len(d.styles) /\ Len(d.styles) \in Nat
      BY <1>2, LenProperties
    <3>2. StylesAfter(d, s) = numbered
      BY <2>1 DEF StylesAfter
    <3>3. StylesFree(numbered)
      BY <3>1 DEF StylesFree
    <3> QED BY <3>2, <3>3
  <2>2. CASE s.op # "restyle"
    BY <1>5, <1>8, <2>2
  <2> QED BY <2>1, <2>2
<1> QED BY <1>1, <1>4, <1>5, <1>6, <1>7, <1>8

\* And a whole revision.
LEMMA RevisionRows ==
    ASSUME NEW d, NEW statements, Len(statements) \in Nat, NEW f, Followed(f, d, statements),
           Without(statements, {}, KeptTables), NEW i \in 0..Len(statements)
    PROVE  /\ f[i].links = d.links /\ f[i].orphans = d.orphans
           /\ Without(statements, {"renumber"}, KeptTables) => f[i].codes = d.codes
           /\ Without(statements, {"restyle"}, KeptTables) => f[i].styles = d.styles
           /\ StylesFree(d.styles) => StylesFree(f[i].styles)
<1> DEFINE len == Len(statements)
           Same(x) == /\ x.links = d.links /\ x.orphans = d.orphans
                      /\ Without(statements, {"renumber"}, KeptTables) => x.codes = d.codes
                      /\ Without(statements, {"restyle"}, KeptTables) => x.styles = d.styles
                      /\ StylesFree(d.styles) => StylesFree(x.styles)
           T == {k \in 0..len : Same(f[k])}
<1>1. 0 \in T
  BY DEF Followed
<1>2. ASSUME NEW k \in 1..len, Same(f[k - 1])
      PROVE  Same(f[k])
  <2>1. k - 1 \in 0..len
    OBVIOUS
  <2>2. Sound(f[k - 1])
    BY <2>1 DEF Followed
  <2>3. CASE ~f[k].ok
    <3>1. /\ f[k].codes = f[k - 1].codes /\ f[k].styles = f[k - 1].styles
          /\ f[k].links = f[k - 1].links /\ f[k].orphans = f[k - 1].orphans
      BY <2>3 DEF Followed
    <3> QED BY <1>2, <3>1
  <2>4. CASE f[k].ok
    <3>1. f[k] = Effect(f[k - 1], statements[k])
      BY <2>4 DEF Followed
    <3>2. statements[k].op = "drop" => statements[k].table \notin KeptTables
      BY DEF Without
    <3>3. /\ f[k].links = f[k - 1].links /\ f[k].orphans = f[k - 1].orphans
          /\ statements[k].op # "renumber" => f[k].codes = f[k - 1].codes
          /\ statements[k].op # "restyle" => f[k].styles = f[k - 1].styles
          /\ StylesFree(f[k - 1].styles) => StylesFree(f[k].styles)
      BY <2>2, <3>1, <3>2, EffectRows
    <3>4. /\ Without(statements, {"renumber"}, KeptTables) => statements[k].op # "renumber"
          /\ Without(statements, {"restyle"}, KeptTables) => statements[k].op # "restyle"
      BY DEF Without
    <3> QED BY <1>2, <3>3, <3>4
  <2> QED BY <2>3, <2>4
<1> HIDE DEF Same
<1>3. \A k \in 1..len : k - 1 \in T => k \in T
  BY <1>2
<1>4. Same(f[i])
  <2> HIDE DEF T
  <2>1. 0..len \subseteq T
    BY <1>1, <1>3, CountingUpTo
  <2> QED BY <2>1 DEF T
<1> QED BY <1>4 DEF Same

\* No rows are in the way of an upgrade that finds what it refers to and the styles in order.
LEMMA RevisionRuns ==
    ASSUME NEW d, Sound(d), d.ok, NEW statements, Len(statements) \in Nat,
           Without(statements, {}, KeptTables),
           d.orphans = {}, StylesFree(d.styles) \/ Without(statements, {"restyle"}, KeptTables),
           \A i \in 1..Len(statements) : statements[i].op = "renumber" => statements[i].table \in Prefixed,
           NEW f, Followed(f, d, statements),
           \A i \in 1..Len(statements) :
              f[i - 1].ok /\ RowsAllow(f[i - 1], statements[i]) => f[i].ok
    PROVE  f[Len(statements)].ok
<1> DEFINE len == Len(statements)
           T == {k \in 0..len : f[k].ok}
<1>1. 0 \in T
  BY DEF Followed
<1>2. ASSUME NEW k \in 1..len, f[k - 1].ok
      PROVE  f[k].ok
  <2> DEFINE s == statements[k]
             e == f[k - 1]
  <2>1. k - 1 \in 0..len
    OBVIOUS
  <2>2. Sound(e)
    BY <2>1 DEF Followed
  <2>3. e.orphans = {} /\ (StylesFree(d.styles) => StylesFree(e.styles))
    BY <2>1, RevisionRows
  <2>4. s.op = "restyle" => StylesFree(e.styles)
    BY <2>3 DEF Without
  <2>5. s.op = "renumber" => IsDistinct(Renumbered(e.codes[s.table]))
    <3> SUFFICES ASSUME s.table \in Prefixed PROVE IsDistinct(Renumbered(e.codes[s.table]))
      OBVIOUS
    <3>1. e.codes[s.table] \in Seq(AnyCode) /\ IsDistinct(e.codes[s.table])
      BY <2>2 DEF Sound, IsDatabase, AnyCode
    <3> QED BY <3>1, RenumberedDistinct
  <2> HIDE DEF s, e
  <2>6. RowsAllow(e, s)
    BY <2>3, <2>4, <2>5 DEF RowsAllow
  <2> QED BY <1>2, <2>6 DEF s, e
<1>3. \A k \in 1..len : k - 1 \in T => k \in T
  BY <1>2
<1> HIDE DEF T
<1>4. 0..len \subseteq T
  BY <1>1, <1>3, CountingUpTo
<1> QED BY <1>4 DEF T

-----------------------------------------------------------------------------
(* One revision *)

\* No code is in the old format.
NoneBare(d) == \A t \in Prefixed : \A i \in DOMAIN d.codes[t] : ~d.codes[t][i].bare

\* b8e3 leaves no code in the old format.
LEMMA CodesRenumbered ==
    ASSUME NEW d, NEW f, Followed(f, d, UpCodes), f[Len(UpCodes)].ok
    PROVE  NoneBare(f[Len(UpCodes)])
<1>1. /\ Len(UpCodes) = 3 /\ UpCodes[1] = Renumber("vendors")
      /\ UpCodes[2] = Renumber("warehouses") /\ UpCodes[3] = Renumber("stores")
  BY DEF UpCodes
<1>2. \A i \in 0..3 : f[i].ok
  <2>1. Len(UpCodes) \in Nat
    BY <1>1
  <2>2. \A i \in 0..Len(UpCodes) : f[i].ok
    BY <2>1, FollowedAll
  <2> QED BY <1>1, <2>2
<1>3. ASSUME NEW i \in 1..3, NEW t \in Prefixed, UpCodes[i] = Renumber(t)
      PROVE  /\ f[i].codes[t] = Renumbered(f[i - 1].codes[t])
             /\ \A u \in Prefixed \ {t} : f[i].codes[u] = f[i - 1].codes[u]
             /\ \A k \in DOMAIN f[i].codes[t] : ~f[i].codes[t][k].bare
  <2>1. i - 1 \in 0..3 /\ i \in 0..3
    OBVIOUS
  <2>2. Sound(f[i - 1]) /\ f[i] = Effect(f[i - 1], UpCodes[i])
    BY <1>1, <1>2, <2>1 DEF Followed
  <2>3. f[i].codes = CodesAfter(f[i - 1], Renumber(t))
    BY <1>3, <2>2 DEF Effect
  <2>4. Renumber(t).op = "renumber" /\ Renumber(t).table = t
    BY DEF Renumber
  <2>5. /\ f[i].codes[t] = Renumbered(f[i - 1].codes[t])
        /\ \A u \in Prefixed \ {t} : f[i].codes[u] = f[i - 1].codes[u]
    BY <2>3, <2>4 DEF CodesAfter
  <2>6. f[i - 1].codes[t] \in Seq(AnyCode)
    BY <2>2 DEF Sound, IsDatabase, AnyCode
  <2> QED BY <2>5, <2>6, RenumberedDistinct
<1>4. Prefixed = {"vendors", "warehouses", "stores"}
  BY DEF Prefixed
<1>5. /\ \A k \in DOMAIN f[1].codes["vendors"] : ~f[1].codes["vendors"][k].bare
      /\ f[2].codes["vendors"] = f[1].codes["vendors"]
      /\ \A k \in DOMAIN f[2].codes["warehouses"] : ~f[2].codes["warehouses"][k].bare
      /\ f[3].codes["vendors"] = f[2].codes["vendors"]
      /\ f[3].codes["warehouses"] = f[2].codes["warehouses"]
      /\ \A k \in DOMAIN f[3].codes["stores"] : ~f[3].codes["stores"][k].bare
  BY <1>1, <1>3, <1>4
<1> QED BY <1>1, <1>4, <1>5 DEF NoneBare

\* One revision of an upgrade, of any database that is at the one before.
LEMMA UpOnce ==
    ASSUME NEW r \in 1..HeadRev, NEW d, Sound(d), d.ok, d.schema = SchemaOf[r - 1],
           NEW e, e = Run(d, Upgrades[r])
    PROVE  /\ Sound(e)
           /\ e.ok => e.schema = SchemaOf[r]
           /\ e.orphans = d.orphans
           /\ r # 7 => e.styles = d.styles
           /\ StylesFree(d.styles) => StylesFree(e.styles)
           /\ r = 11 /\ e.ok => NoneBare(e)
           /\ d.orphans = {} /\ (StylesFree(d.styles) \/ r # 7) => e.ok
<1> DEFINE statements == Upgrades[r]
           len == Len(statements)
           bare == Run(WithoutRows(d.schema), statements)
<1>1. /\ Without(statements, {}, KeptTables)
      /\ r # 7 => Without(statements, {"restyle"}, KeptTables)
      /\ r # 11 => Without(statements, {"renumber"}, KeptTables)
      /\ r = 11 => statements = UpCodes
  BY UpgradesWithout
<1>2. len \in Nat
  <2> DEFINE S == {statements[i] : i \in DOMAIN statements}
  <2>1. statements \in Seq(S)
    BY <1>1 DEF Without
  <2> HIDE DEF S, statements
  <2> QED BY <2>1, LenProperties
<1>3. bare.ok /\ bare.schema = SchemaOf[r]
  BY RevisionsAssumption
<1>4. \A i \in 1..len : statements[i].op = "renumber" => statements[i].table \in Prefixed
  <2>1. CASE r # 11
    BY <1>1, <2>1 DEF Without
  <2>2. CASE r = 11
    <3>1. \A i \in 1..Len(UpCodes) : UpCodes[i].table \in {"vendors", "warehouses", "stores"}
      BY DEF UpCodes, Renumber
    <3> QED BY <1>1, <2>2, <3>1 DEF Prefixed
  <2> QED BY <2>1, <2>2
<1> HIDE DEF bare
<1>5. PICK f : /\ Followed(f, d, statements) /\ Run(d, statements) = f[len]
               /\ \A i \in 1..len : f[i - 1].ok /\ RowsAllow(f[i - 1], statements[i]) => f[i].ok
               /\ f[len].ok => f[len].schema = bare.schema
  <2>1. bare = Run(WithoutRows(d.schema), statements)
    BY DEF bare
  <2> HIDE DEF statements
  <2> QED BY <1>2, <1>3, <2>1, RowsApart
<1>6. e = f[len]
  BY <1>5
<1> HIDE DEF statements
<1>7. len \in 0..len
  BY <1>2
<1>8. Sound(e)
  BY <1>5, <1>6, <1>7 DEF Followed
<1>9. /\ e.orphans = d.orphans
      /\ r # 7 => e.styles = d.styles
      /\ StylesFree(d.styles) => StylesFree(e.styles)
  BY <1>1, <1>2, <1>5, <1>6, <1>7, RevisionRows
<1>10. r = 11 /\ e.ok => NoneBare(e)
  BY <1>1, <1>5, <1>6, CodesRenumbered
<1>11. ASSUME d.orphans = {}, StylesFree(d.styles) \/ r # 7 PROVE e.ok
  BY <1>1, <1>2, <1>4, <1>5, <1>6, <1>11, RevisionRuns
<1> QED BY <1>3, <1>5, <1>6, <1>8, <1>9, <1>10, <1>11

\* One revision of a downgrade is never refused.
LEMMA DownOnce ==
    ASSUME NEW r \in 1..HeadRev, NEW d, Sound(d), d.ok, d.schema = SchemaOf[r],
           NEW e, e = Run(d, Downgrades[r])
    PROVE  Sound(e) /\ e.ok /\ e.schema = SchemaOf[r - 1]
<1> DEFINE statements == Downgrades[r]
           len == Len(statements)
           bare == Run(WithoutRows(d.schema), statements)
<1>1. Without(statements, Undoable, {})
  BY DowngradesWithout
<1>2. len \in Nat
  <2> DEFINE S == {statements[i] : i \in DOMAIN statements}
  <2>1. statements \in Seq(S)
    BY <1>1 DEF Without
  <2> HIDE DEF S, statements
  <2> QED BY <2>1, LenProperties
<1>3. bare.ok /\ bare.schema = SchemaOf[r - 1]
  BY RevisionsAssumption
<1> HIDE DEF bare
<1>5. PICK f : /\ Followed(f, d, statements) /\ Run(d, statements) = f[len]
               /\ \A i \in 1..len : f[i - 1].ok /\ RowsAllow(f[i - 1], statements[i]) => f[i].ok
               /\ f[len].ok => f[len].schema = bare.schema
  <2>1. bare = Run(WithoutRows(d.schema), statements)
    BY DEF bare
  <2> HIDE DEF statements
  <2> QED BY <1>2, <1>3, <2>1, RowsApart
<1>6. e = f[len]
  BY <1>5
<1> HIDE DEF statements
<1>7. len \in 0..len
  BY <1>2
<1>8. Sound(e)
  BY <1>5, <1>6, <1>7 DEF Followed
<1> DEFINE T == {k \in 0..len : f[k].ok}
<1>9. 0 \in T
  BY <1>2, <1>5 DEF Followed
<1>10. \A k \in 1..len : k - 1 \in T => k \in T
  <2> SUFFICES ASSUME NEW k \in 1..len, f[k - 1].ok PROVE f[k].ok
    OBVIOUS
  <2>1. statements[k].op \notin Undoable
    BY <1>1 DEF Without
  <2>2. RowsAllow(f[k - 1], statements[k])
    BY <2>1 DEF RowsAllow, Undoable
  <2> QED BY <1>5, <2>2
<1>11. f[len].ok
  <2> HIDE DEF T
  <2>1. 0..len \subseteq T
    BY <1>2, <1>9, <1>10, CountingUpTo
  <2> QED BY <1>7, <2>1 DEF T
<1> QED BY <1>3, <1>5, <1>6, <1>8, <1>11

-----------------------------------------------------------------------------
(* The revisions of a migration *)

\* The databases between the revisions.
Among(h, d, revisions) ==
    h = [k \in 0..Len(revisions) |->
           IF k = 0 THEN d
           ELSE LET before == h[k - 1]
                IN IF before.ok THEN Run(before, revisions[k]) ELSE before]

\* There are such databases, and the last is what becomes of the first.
LEMMA RunAllSteps ==
    ASSUME NEW d, NEW revisions, Len(revisions) \in Nat
    PROVE  \E h : /\ h[0] = d
                  /\ \A k \in 1..Len(revisions) :
                        h[k] = IF h[k - 1].ok THEN Run(h[k - 1], revisions[k]) ELSE h[k - 1]
                  /\ RunAll(d, revisions) = h[Len(revisions)]
<1> DEFINE len == Len(revisions)
           Following(before, k) == IF before.ok THEN Run(before, revisions[k]) ELSE before
           Good(n) == \E h : h = [k \in 0..n |-> IF k = 0 THEN d ELSE Following(h[k - 1], k)]
           T == {n \in Nat : Good(n)}
<1> HIDE DEF Following
<1>1. Good(0)
  <2> DEFINE h == [k \in 0..0 |-> d]
  <2>1. h = [k \in 0..0 |-> IF k = 0 THEN d ELSE Following(h[k - 1], k)]
    OBVIOUS
  <2> QED BY <2>1
<1>2. ASSUME NEW n \in Nat, Good(n)
      PROVE  Good(n + 1)
  <2>1. PICK h : h = [k \in 0..n |-> IF k = 0 THEN d ELSE Following(h[k - 1], k)]
    BY <1>2
  <2> DEFINE g == [k \in 0..(n + 1) |-> IF k = n + 1 THEN Following(h[n], n + 1) ELSE h[k]]
  <2>2. ASSUME NEW k \in 0..(n + 1)
        PROVE  g[k] = IF k = 0 THEN d ELSE Following(g[k - 1], k)
    <3>1. CASE k = n + 1
      <4>1. n \in 0..(n + 1) /\ n # n + 1 /\ k # 0 /\ k - 1 = n
        BY <3>1
      <4> QED BY <3>1, <4>1
    <3>2. CASE k # n + 1
      <4>1. k \in 0..n /\ g[k] = h[k]
        BY <3>2
      <4>2. h[k] = IF k = 0 THEN d ELSE Following(h[k - 1], k)
        BY <2>1, <4>1
      <4>3. k # 0 => k - 1 \in 0..(n + 1) /\ k - 1 # n + 1
        BY <3>2
      <4>4. k # 0 => g[k - 1] = h[k - 1]
        BY <4>3
      <4> HIDE DEF g
      <4> QED BY <4>1, <4>2, <4>4
    <3> QED BY <3>1, <3>2
  <2>3. g = [k \in 0..(n + 1) |-> g[k]]
    OBVIOUS
  <2> HIDE DEF g
  <2>4. g = [k \in 0..(n + 1) |-> IF k = 0 THEN d ELSE Following(g[k - 1], k)]
    BY <2>2, <2>3
  <2> QED BY <2>4
<1> HIDE DEF Good
<1>3. 0 \in T /\ \A n \in Nat : n \in T => n + 1 \in T
  BY <1>1, <1>2
<1>4. Good(len)
  <2> HIDE DEF T
  <2>1. Nat \subseteq T
    BY <1>3, Counting
  <2> QED BY <2>1 DEF T
<1>5. \E h : Among(h, d, revisions)
  BY <1>4 DEF Good, Among, Following
<1>6. RunAll(d, revisions) = (CHOOSE h : Among(h, d, revisions))[len]
  BY DEF RunAll, Among
<1>7. PICK h : Among(h, d, revisions) /\ RunAll(d, revisions) = h[len]
  BY <1>5, <1>6
<1>8. /\ h[0] = d
      /\ \A k \in 1..len : h[k] = IF h[k - 1].ok THEN Run(h[k - 1], revisions[k]) ELSE h[k - 1]
  BY <1>7 DEF Among
<1> QED BY <1>7, <1>8

\* A database at a revision.
At(d, r) == Sound(d) /\ d.schema = SchemaOf[r]

\* An upgrade of a database at a revision, to any later one: where it is not refused the
\* database is at that one, and where no row is in the way it is not refused.
LEMMA UpgradedAll ==
    ASSUME NEW from \in 0..HeadRev, NEW to \in from..HeadRev, NEW d, At(d, from), d.ok,
           NEW e, e = Upgraded(d, from, to)
    PROVE  /\ e.ok => At(e, to)
           /\ e.ok => e.orphans = d.orphans
           /\ e.ok /\ to < 7 => e.styles = d.styles
           /\ e.ok /\ from < 11 /\ to = 11 => NoneBare(e)
           /\ e.ok /\ from = to => e = d
           /\ d.orphans = {} /\ (StylesFree(d.styles) \/ from >= 7) => e.ok
<1>1. HeadRev = 11
  BY UpgradesWithout
<1> DEFINE revisions == [i \in 1..(to - from) |-> Upgrades[from + i]]
           len == to - from
<1>2. len \in Nat /\ \A k \in 1..len : from + k \in 1..HeadRev
  BY <1>1
<1>3. Len(revisions) = len /\ \A k \in 1..len : revisions[k] = Upgrades[from + k]
  BY <1>2
<1>4. e = RunAll(d, revisions)
  BY DEF Upgraded
<1> HIDE DEF revisions, len
<1>5. PICK h : /\ h[0] = d
               /\ \A k \in 1..len :
                     h[k] = IF h[k - 1].ok THEN Run(h[k - 1], revisions[k]) ELSE h[k - 1]
               /\ e = h[len]
  <2>1. Len(revisions) \in Nat
    BY <1>2, <1>3
  <2> QED BY <1>3, <1>4, <2>1, RunAllSteps
<1> DEFINE Claim(x, k) ==
              /\ x.ok \in BOOLEAN
              /\ x.ok => At(x, from + k)
              /\ x.ok => x.orphans = d.orphans
              /\ x.ok /\ from + k < 7 => x.styles = d.styles
              /\ x.ok /\ k > 0 /\ from + k = 11 => NoneBare(x)
              /\ d.orphans = {} /\ (StylesFree(d.styles) \/ from >= 7) =>
                    x.ok /\ (StylesFree(x.styles) \/ from >= 7)
           T == {k \in 0..len : Claim(h[k], k)}
<1>6. Claim(d, 0)
  BY DEF At, Sound, IsDatabase
<1>7. ASSUME NEW k \in 1..len, Claim(h[k - 1], k - 1)
      PROVE  Claim(h[k], k)
  <2> DEFINE x == h[k - 1]
             y == h[k]
             r == from + k
  <2>1. r \in 1..HeadRev /\ from + (k - 1) = r - 1 /\ revisions[k] = Upgrades[r] /\ k > 0
    BY <1>2, <1>3
  <2>2. CASE ~x.ok
    BY <1>5, <1>7, <2>2
  <2>3. CASE x.ok
    <3>1. y = Run(x, Upgrades[r])
      BY <1>5, <2>1, <2>3
    <3>2. At(x, r - 1)
      BY <1>7, <2>1, <2>3
    <3> HIDE DEF x, y, r
    <3>3. /\ Sound(y)
          /\ y.ok => y.schema = SchemaOf[r]
          /\ y.orphans = x.orphans
          /\ r # 7 => y.styles = x.styles
          /\ StylesFree(x.styles) => StylesFree(y.styles)
          /\ r = 11 /\ y.ok => NoneBare(y)
          /\ x.orphans = {} /\ (StylesFree(x.styles) \/ r # 7) => y.ok
      BY <2>1, <2>3, <3>1, <3>2, UpOnce DEF At
    <3>4. y.ok \in BOOLEAN
      BY <3>3 DEF Sound, IsDatabase
    <3>5. y.ok => At(y, r)
      BY <3>3 DEF At
    <3>6. r < 7 => y.styles = x.styles /\ r - 1 < 7
      BY <2>1, <3>3
    <3>7. from >= 7 => r # 7
      BY <2>1 DEF r
    <3>8. Claim(x, k - 1)
      BY <1>7 DEF x
    <3>9. x.orphans = d.orphans /\ (r < 7 => x.styles = d.styles)
      BY <2>1, <2>3, <3>6, <3>8
    <3>10. d.orphans = {} /\ (StylesFree(d.styles) \/ from >= 7) =>
              y.ok /\ (StylesFree(y.styles) \/ from >= 7)
      BY <3>3, <3>7, <3>8, <3>9
    <3>11. Claim(y, k)
      BY <3>3, <3>4, <3>5, <3>6, <3>9, <3>10 DEF r
    <3> QED BY <3>11 DEF y
  <2> QED BY <1>7, <2>2, <2>3
<1> HIDE DEF Claim
<1>8. Claim(e, len)
  <2>1. 0 \in T
    BY <1>2, <1>5, <1>6
  <2>2. \A k \in 1..len : k - 1 \in T => k \in T
    BY <1>7
  <2> HIDE DEF T
  <2>3. 0..len \subseteq T
    BY <1>2, <2>1, <2>2, CountingUpTo
  <2>4. len \in 0..len
    BY <1>2
  <2> QED BY <1>5, <2>3, <2>4 DEF T
<1>9. from + len = to /\ (from = to => len = 0) /\ (from < to => len > 0)
  BY <1>1 DEF len
<1>10. e.ok /\ from = to => e = d
  BY <1>5, <1>9
<1> QED BY <1>1, <1>8, <1>9, <1>10 DEF Claim

\* A downgrade is never refused, and leads to the revision asked for.
LEMMA DowngradedAll ==
    ASSUME NEW from \in 0..HeadRev, NEW to \in 0..from, NEW d, At(d, from), d.ok,
           NEW e, e = Downgraded(d, from, to)
    PROVE  e.ok /\ At(e, to)
<1>1. HeadRev = 11
  BY UpgradesWithout
<1> DEFINE revisions == [i \in 1..(from - to) |-> Downgrades[from + 1 - i]]
           len == from - to
<1>2. len \in Nat /\ \A k \in 1..len : from + 1 - k \in 1..HeadRev
  BY <1>1
<1>3. Len(revisions) = len /\ \A k \in 1..len : revisions[k] = Downgrades[from + 1 - k]
  BY <1>2
<1>4. e = RunAll(d, revisions)
  BY DEF Downgraded
<1> HIDE DEF revisions, len
<1>5. PICK h : /\ h[0] = d
               /\ \A k \in 1..len :
                     h[k] = IF h[k - 1].ok THEN Run(h[k - 1], revisions[k]) ELSE h[k - 1]
               /\ e = h[len]
  <2>1. Len(revisions) \in Nat
    BY <1>2, <1>3
  <2> QED BY <1>3, <1>4, <2>1, RunAllSteps
<1> DEFINE T == {k \in 0..len : h[k].ok /\ At(h[k], from - k)}
<1>6. 0 \in T
  BY <1>2, <1>5
<1>7. \A k \in 1..len : k - 1 \in T => k \in T
  <2> SUFFICES ASSUME NEW k \in 1..len, h[k - 1].ok, At(h[k - 1], from - (k - 1))
               PROVE  h[k].ok /\ At(h[k], from - k)
    OBVIOUS
  <2> DEFINE r == from + 1 - k
  <2>1. r \in 1..HeadRev /\ from - (k - 1) = r /\ from - k = r - 1 /\ revisions[k] = Downgrades[r]
    BY <1>2, <1>3
  <2>2. h[k] = Run(h[k - 1], Downgrades[r])
    BY <1>5, <2>1
  <2> HIDE DEF r
  <2>3. At(h[k - 1], r)
    BY <2>1
  <2> QED BY <2>1, <2>2, <2>3, DownOnce DEF At
<1> HIDE DEF T
<1>8. 0..len \subseteq T
  BY <1>2, <1>6, <1>7, CountingUpTo
<1>9. len \in 0..len /\ from - len = to
  BY <1>1, <1>2 DEF len
<1> QED BY <1>5, <1>8, <1>9 DEF T

-----------------------------------------------------------------------------
(* The invariant *)

\* At 0 a database is as it was made.
LEMMA AtFirst == At(Empty, 0) /\ Empty.ok /\ Empty.orphans = {} /\ Empty.styles = <<>>
<1> DEFINE none == [i \in 1..(0 - 0) |-> Upgrades[0 + i]]
<1>1. Len(none) = 0
  OBVIOUS
<1>2. Upgraded(Empty, 0, 0) = RunAll(Empty, none)
  BY DEF Upgraded
<1> HIDE DEF none
<1>3. RunAll(Empty, none) = Empty
  <2>1. Len(none) \in Nat
    BY <1>1
  <2> QED BY <1>1, <2>1, RunAllSteps
<1>4. SchemaOf[0] = Upgraded(Empty, 0, 0).schema
  <2>1. 0 \in 0..HeadRev
    BY UpgradesWithout
  <2> QED BY <2>1 DEF SchemaOf
<1> DEFINE schema == [tables |-> <<>>, types |-> {}]
<1>5. Empty = WithoutRows(schema)
  BY DEF Empty
<1> HIDE DEF schema
<1>6. Sound(Empty) /\ Empty.ok /\ Empty.orphans = {}
  BY <1>5, EmptySound
<1>7. Empty.styles = <<>>
  BY <1>5 DEF WithoutRows
<1> QED BY <1>2, <1>3, <1>4, <1>6, <1>7 DEF At

\* One column of a database is written.
LEMMA FieldPut ==
    ASSUME NEW d, IsDatabase(d), NEW x
    PROVE  /\ [d EXCEPT !.codes = x] = [schema |-> d.schema, codes |-> x, styles |-> d.styles,
                                        links |-> d.links, orphans |-> d.orphans, ok |-> d.ok]
           /\ [d EXCEPT !.styles = x] = [schema |-> d.schema, codes |-> d.codes, styles |-> x,
                                         links |-> d.links, orphans |-> d.orphans, ok |-> d.ok]
           /\ [d EXCEPT !.links = x] = [schema |-> d.schema, codes |-> d.codes,
                                        styles |-> d.styles, links |-> x,
                                        orphans |-> d.orphans, ok |-> d.ok]
<1>1. ASSUME NEW a, NEW b, NEW c, NEW l, NEW o, NEW k,
             d = [schema |-> a, codes |-> b, styles |-> c, links |-> l, orphans |-> o, ok |-> k]
      PROVE  /\ [d EXCEPT !.codes = x] = [schema |-> a, codes |-> x, styles |-> c, links |-> l,
                                          orphans |-> o, ok |-> k]
             /\ [d EXCEPT !.styles = x] = [schema |-> a, codes |-> b, styles |-> x, links |-> l,
                                           orphans |-> o, ok |-> k]
             /\ [d EXCEPT !.links = x] = [schema |-> a, codes |-> b, styles |-> c, links |-> x,
                                          orphans |-> o, ok |-> k]
  BY <1>1
<1>2. d = [schema |-> d.schema, codes |-> d.codes, styles |-> d.styles,
           links |-> d.links, orphans |-> d.orphans, ok |-> d.ok]
  BY DEF IsDatabase
<1> QED BY <1>1, <1>2

\* What migrations, and the program between them, keep.
MigrationsInv ==
    /\ rev \in 0..HeadRev
    /\ rolledBack \in BOOLEAN
    /\ At(db, rev) /\ db.ok
    /\ rev = HeadRev => NoneBare(db)
    /\ ~rolledBack => /\ db.orphans = {}
                      /\ rev < 7 => \A i \in DOMAIN db.styles : db.styles[i] = 0

\* A code registered is given to no other row of the table.
LEMMA CodeAppended ==
    ASSUME NEW codes \in Seq(AnyCode), IsDistinct(codes), NEW code \in AnyCode,
           \A i \in DOMAIN codes : codes[i] # code
    PROVE  /\ Append(codes, code) \in Seq(AnyCode) /\ IsDistinct(Append(codes, code))
           /\ ~code.bare /\ (\A i \in DOMAIN codes : ~codes[i].bare) =>
                 \A i \in DOMAIN Append(codes, code) : ~Append(codes, code)[i].bare
<1> DEFINE after == Append(codes, code)
<1>1. /\ after \in Seq(AnyCode) /\ Len(codes) \in Nat
      /\ DOMAIN codes = 1..Len(codes) /\ DOMAIN after = 1..(Len(codes) + 1)
      /\ \A i \in DOMAIN codes : after[i] = codes[i]
      /\ after[Len(codes) + 1] = code
  BY RowAdded
<1> HIDE DEF after
<1>2. \A i \in DOMAIN after : i \in DOMAIN codes \/ i = Len(codes) + 1
  BY <1>1
<1>3. IsDistinct(after)
  <2> SUFFICES ASSUME NEW i \in DOMAIN after, NEW j \in DOMAIN after, after[i] = after[j]
               PROVE  i = j
    BY DEF IsDistinct
  <2> QED BY <1>1, <1>2 DEF IsDistinct
<1>4. ~code.bare /\ (\A i \in DOMAIN codes : ~codes[i].bare) => \A i \in DOMAIN after : ~after[i].bare
  BY <1>1, <1>2
<1> QED BY <1>1, <1>3, <1>4 DEF after

\* Each step keeps it.
LEMMA MigrationsInvRegisterRow ==
    ASSUME MigrationsInv, NEW table \in Prefixed, RegisterRow(table)
    PROVE  MigrationsInv'
<1> DEFINE codes == db.codes[table]
<1>1. PICK code \in Code :
         /\ IF CodesHyphenated
              THEN code = [bare |-> FALSE, n |-> NextNumber(codes)]
              ELSE code.n \in 1..MaxNumber /\ \A i \in DOMAIN codes : codes[i] # code
         /\ db' = [db EXCEPT !.codes = [@ EXCEPT ![table] = Append(codes, code)]]
  BY DEF RegisterRow
<1>2. UNCHANGED <<rev, rolledBack>>
  BY DEF RegisterRow
<1>3. /\ IsDatabase(db) /\ db.codes \in [Prefixed -> Seq(AnyCode)]
      /\ \A t \in Prefixed : IsDistinct(db.codes[t])
  BY DEF MigrationsInv, At, Sound, IsDatabase, AnyCode
<1>4. codes \in Seq(AnyCode) /\ IsDistinct(codes)
  BY <1>3
<1>5. code \in AnyCode
  <2>1. Numbers \subseteq Nat
    BY MigrationsAssumption DEF Numbers
  <2> QED BY <2>1 DEF Code, AnyCode
<1>6. \A i \in DOMAIN codes : codes[i] # code
  <2>1. CASE ~CodesHyphenated
    BY <1>1, <2>1
  <2>2. CASE CodesHyphenated
    <3> DEFINE S == {codes[i].n : i \in DOMAIN codes}
               most == Max({0} \cup S)
    <3>1. most \in Nat /\ \A n \in S : n <= most
      <4> HIDE DEF codes
      <4>1. S \subseteq {codes[i].n : i \in DOMAIN codes}
        OBVIOUS
      <4> HIDE DEF S
      <4> QED BY <1>4, <4>1, LargestNumber
    <3>2. code.n = 1 + most
      BY <1>1, <2>2 DEF NextNumber
    <3>3. \A i \in DOMAIN codes : codes[i].n \in S /\ codes[i].n \in Nat
      <4> HIDE DEF codes
      <4> QED BY <1>4, CodeFields
    <3> HIDE DEF most, S, codes
    <3> QED BY <3>1, <3>2, <3>3
  <2> QED BY <2>1, <2>2
<1> DEFINE after == [db.codes EXCEPT ![table] = Append(codes, code)]
<1>7. /\ db' = [schema |-> db.schema, codes |-> after, styles |-> db.styles,
                links |-> db.links, orphans |-> db.orphans, ok |-> db.ok]
  <2>1. db' = [db EXCEPT !.codes = after]
    BY <1>1
  <2> HIDE DEF after
  <2> QED BY <1>3, <2>1, FieldPut
<1>8. /\ Append(codes, code) \in Seq(AnyCode) /\ IsDistinct(Append(codes, code))
      /\ ~code.bare /\ (\A i \in DOMAIN codes : ~codes[i].bare) =>
            \A i \in DOMAIN Append(codes, code) : ~Append(codes, code)[i].bare
  <2> HIDE DEF codes
  <2> QED BY <1>4, <1>5, <1>6, CodeAppended
<1>9. /\ after \in [Prefixed -> Seq(AnyCode)]
      /\ after[table] = Append(codes, code)
      /\ \A t \in Prefixed \ {table} : after[t] = db.codes[t]
  BY <1>3, <1>8
<1>10. \A t \in Prefixed : IsDistinct(after[t])
  <2> HIDE DEF after
  <2> QED BY <1>3, <1>8, <1>9
<1>11. rev = HeadRev => \A t \in Prefixed : \A i \in DOMAIN after[t] : ~after[t][i].bare
  <2> SUFFICES ASSUME rev = HeadRev PROVE \A t \in Prefixed : \A i \in DOMAIN after[t] : ~after[t][i].bare
    OBVIOUS
  <2>1. CodesHyphenated
    BY UpgradesWithout DEF CodesHyphenated
  <2>2. ~code.bare
    BY <1>1, <2>1
  <2>3. \A t \in Prefixed : \A i \in DOMAIN db.codes[t] : ~db.codes[t][i].bare
    BY DEF MigrationsInv, NoneBare
  <2> HIDE DEF after
  <2> QED BY <1>8, <1>9, <2>2, <2>3
<1> HIDE DEF after, codes
<1>12. /\ db'.schema = db.schema /\ db'.codes = after /\ db'.styles = db.styles
       /\ db'.links = db.links /\ db'.orphans = db.orphans /\ db'.ok = db.ok
       /\ db' = [schema |-> db'.schema, codes |-> db'.codes, styles |-> db'.styles,
                 links |-> db'.links, orphans |-> db'.orphans, ok |-> db'.ok]
  BY <1>7
<1>13. Sound(db')
  BY <1>3, <1>9, <1>10, <1>12 DEF Sound, IsDatabase, AnyCode
<1>14. rev = HeadRev => NoneBare(db')
  BY <1>11, <1>12 DEF NoneBare
<1> QED BY <1>2, <1>12, <1>13, <1>14 DEF MigrationsInv, At

LEMMA MigrationsInvPublish ==
    ASSUME MigrationsInv, Publish
    PROVE  MigrationsInv'
<1>1. PICK style \in {0} \cup Numbers :
         /\ ~StylesNumbered => style = 0
         /\ db' = [db EXCEPT !.styles = Append(@, style)]
  BY DEF Publish
<1>2. UNCHANGED <<rev, rolledBack>>
  BY DEF Publish
<1>3. IsDatabase(db) /\ db.styles \in Seq(Nat)
  BY DEF MigrationsInv, At, Sound, IsDatabase
<1>4. style \in Nat
  BY MigrationsAssumption DEF Numbers
<1> DEFINE after == Append(db.styles, style)
<1>5. db' = [schema |-> db.schema, codes |-> db.codes, styles |-> after,
             links |-> db.links, orphans |-> db.orphans, ok |-> db.ok]
  <2>1. db' = [db EXCEPT !.styles = after]
    BY <1>1
  <2> HIDE DEF after
  <2> QED BY <1>3, <2>1, FieldPut
<1>6. /\ after \in Seq(Nat) /\ Len(db.styles) \in Nat
      /\ DOMAIN db.styles = 1..Len(db.styles) /\ DOMAIN after = 1..(Len(db.styles) + 1)
      /\ \A i \in DOMAIN db.styles : after[i] = db.styles[i]
      /\ after[Len(db.styles) + 1] = style
  BY <1>3, <1>4, RowAdded
<1> HIDE DEF after
<1>7. ASSUME ~rolledBack, rev < 7 PROVE \A i \in DOMAIN after : after[i] = 0
  <2>1. ~StylesNumbered
    BY <1>7 DEF MigrationsInv, StylesNumbered
  <2>2. style = 0 /\ \A i \in DOMAIN db.styles : db.styles[i] = 0
    BY <1>1, <1>7, <2>1 DEF MigrationsInv
  <2>3. \A i \in DOMAIN after : i \in DOMAIN db.styles \/ i = Len(db.styles) + 1
    BY <1>6
  <2> QED BY <1>6, <2>2, <2>3
<1>8. /\ db'.schema = db.schema /\ db'.codes = db.codes /\ db'.styles = after
      /\ db'.links = db.links /\ db'.orphans = db.orphans /\ db'.ok = db.ok
      /\ db' = [schema |-> db'.schema, codes |-> db'.codes, styles |-> db'.styles,
                links |-> db'.links, orphans |-> db'.orphans, ok |-> db'.ok]
  BY <1>5
<1>9. Sound(db')
  BY <1>3, <1>6, <1>8 DEF MigrationsInv, At, Sound, IsDatabase
<1> QED BY <1>2, <1>7, <1>8, <1>9 DEF MigrationsInv, At, NoneBare

LEMMA MigrationsInvLink ==
    ASSUME MigrationsInv, NEW column \in DOMAIN Targets, Link(column)
    PROVE  MigrationsInv'
<1> DEFINE after == db.links \cup {column}
<1>1. db' = [db EXCEPT !.links = after] /\ UNCHANGED <<rev, rolledBack>>
  BY DEF Link
<1>2. IsDatabase(db) /\ db.links \subseteq DOMAIN Targets /\ db.orphans \subseteq db.links
  BY DEF MigrationsInv, At, Sound, IsDatabase
<1>3. after \subseteq DOMAIN Targets /\ db.orphans \subseteq after
  BY <1>2
<1> HIDE DEF after
<1>4. db' = [schema |-> db.schema, codes |-> db.codes, styles |-> db.styles,
             links |-> after, orphans |-> db.orphans, ok |-> db.ok]
  BY <1>1, <1>2, FieldPut
<1>5. /\ db'.schema = db.schema /\ db'.codes = db.codes /\ db'.styles = db.styles
      /\ db'.links = after /\ db'.orphans = db.orphans /\ db'.ok = db.ok
      /\ db' = [schema |-> db'.schema, codes |-> db'.codes, styles |-> db'.styles,
                links |-> db'.links, orphans |-> db'.orphans, ok |-> db'.ok]
  BY <1>4
<1>6. Sound(db')
  BY <1>2, <1>3, <1>5 DEF MigrationsInv, At, Sound, IsDatabase
<1> QED BY <1>1, <1>5, <1>6 DEF MigrationsInv, At, NoneBare

LEMMA MigrationsInvUpgradeTo ==
    ASSUME MigrationsInv, NEW r \in (rev + 1)..HeadRev, UpgradeTo(r)
    PROVE  MigrationsInv'
<1> DEFINE after == Upgraded(db, rev, r)
<1>1. after.ok /\ rev' = r /\ db' = after /\ rolledBack' = rolledBack
  BY DEF UpgradeTo
<1>2. HeadRev = 11 /\ rev \in 0..HeadRev
  BY UpgradesWithout DEF MigrationsInv
<1>3. r \in rev..HeadRev /\ r \in 0..HeadRev /\ rev < r
  BY <1>2
<1>4. At(db, rev) /\ db.ok
  BY DEF MigrationsInv
<1>5. /\ At(after, r) /\ after.orphans = db.orphans /\ (r < 7 => after.styles = db.styles)
      /\ r = 11 => NoneBare(after)
  BY <1>1, <1>2, <1>3, <1>4, UpgradedAll
<1> HIDE DEF after
<1>6. ~rolledBack /\ r < 7 => \A i \in DOMAIN after.styles : after.styles[i] = 0
  BY <1>2, <1>3, <1>5 DEF MigrationsInv
<1> QED BY <1>1, <1>2, <1>3, <1>5, <1>6 DEF MigrationsInv

LEMMA MigrationsInvDowngradeTo ==
    ASSUME MigrationsInv, NEW r \in 0..(rev - 1), DowngradeTo(r)
    PROVE  MigrationsInv'
<1> DEFINE after == Downgraded(db, rev, r)
<1>1. after.ok /\ rev' = r /\ db' = after /\ rolledBack' = TRUE
  BY DEF DowngradeTo
<1>2. HeadRev = 11 /\ rev \in 0..HeadRev
  BY UpgradesWithout DEF MigrationsInv
<1>3. r \in 0..rev /\ r \in 0..HeadRev /\ r # HeadRev
  BY <1>2
<1>4. At(after, r)
  BY <1>2, <1>3, DowngradedAll DEF MigrationsInv
<1> HIDE DEF after
<1> QED BY <1>1, <1>3, <1>4 DEF MigrationsInv

LEMMA MigrationsInvInit == MigrationsInit => MigrationsInv
<1> SUFFICES ASSUME MigrationsInit PROVE MigrationsInv
  OBVIOUS
<1>1. rev = 0 /\ db = Empty /\ rolledBack = FALSE
  BY DEF MigrationsInit
<1>2. 0 \in 0..HeadRev /\ 0 # HeadRev
  BY UpgradesWithout
<1>3. \A i \in DOMAIN <<>> : <<>>[i] = 0
  OBVIOUS
<1> QED BY <1>1, <1>2, <1>3, AtFirst DEF MigrationsInv

LEMMA MigrationsInvNext == MigrationsInv /\ [MigrationsNext]_migrationsVars => MigrationsInv'
<1> SUFFICES ASSUME MigrationsInv, [MigrationsNext]_migrationsVars PROVE MigrationsInv'
  OBVIOUS
<1>1. CASE \E r \in (rev + 1)..HeadRev : UpgradeTo(r)
  BY <1>1, MigrationsInvUpgradeTo
<1>2. CASE \E r \in 0..(rev - 1) : DowngradeTo(r)
  BY <1>2, MigrationsInvDowngradeTo
<1>3. CASE \E table \in Prefixed : RegisterRow(table)
  BY <1>3, MigrationsInvRegisterRow
<1>4. CASE Publish
  BY <1>4, MigrationsInvPublish
<1>5. CASE \E column \in DOMAIN Targets : Link(column)
  BY <1>5, MigrationsInvLink
<1>6. CASE UNCHANGED migrationsVars
  BY <1>6 DEF migrationsVars, MigrationsInv, At, Sound, IsDatabase, NoneBare
<1> QED BY <1>1, <1>2, <1>3, <1>4, <1>5, <1>6 DEF MigrationsNext

LEMMA MigrationsInvAlways == MigrationsSpec => []MigrationsInv
BY MigrationsInvInit, MigrationsInvNext, PTL DEF MigrationsSpec

\* The database between migrations: its codes are sequences per table, its style codes
\* numbers, and what refers to nothing is among what refers to something.
THEOREM MigrationsTypeCorrect == MigrationsSpec => []MigrationsTypeOK
<1>1. MigrationsInv => MigrationsTypeOK
  BY DEF MigrationsInv, MigrationsTypeOK, At, Sound
<1> QED BY <1>1, MigrationsInvAlways, PTL

\* However a database has come to a revision, by whatever upgrades and downgrades with whatever
\* rows in it, its schema is the one of the revision; at the head it is what app/models declares,
\* and no code is in the old format.
THEOREM AlwaysAsRevised == MigrationsSpec => []AsRevised
<1>1. MigrationsInv => AsRevised
  BY RevisionsAssumption DEF MigrationsInv, AsRevised, At, NoneBare
<1> QED BY <1>1, MigrationsInvAlways, PTL

\* "alembic upgrade head", which a container runs before it serves, fails for no rows in a
\* database that was never downgraded, and after a downgrade only for links to nothing or
\* for style codes out of order; a downgrade never fails.
THEOREM OnlyRowsRefuse == MigrationsSpec => []RefusedForRowsOnly
<1>1. MigrationsInv => RefusedForRowsOnly
  <2> SUFFICES ASSUME MigrationsInv PROVE RefusedForRowsOnly
    OBVIOUS
  <2>1. HeadRev = 11 /\ rev \in 0..HeadRev /\ At(db, rev) /\ db.ok
    BY UpgradesWithout DEF MigrationsInv
  <2>2. Downgraded(db, rev, 0).ok
    <3>1. 0 \in 0..rev
      BY <2>1
    <3> QED BY <2>1, <3>1, DowngradedAll
  <2>3. db.orphans = {} /\ (StylesFree(db.styles) \/ rev >= 7) => Upgraded(db, rev, HeadRev).ok
    <3>1. HeadRev \in rev..HeadRev
      BY <2>1
    <3> QED BY <2>1, <3>1, UpgradedAll
  <2>4. ~rolledBack => db.orphans = {} /\ (StylesFree(db.styles) \/ rev >= 7)
    <3>1. CASE rev < 7 /\ ~rolledBack
      <4>1. DOMAIN db.styles = 1..Len(db.styles) /\ Len(db.styles) \in Nat
        BY <2>1, LenProperties DEF At, Sound, IsDatabase
      <4>2. \A i \in DOMAIN db.styles : db.styles[i] = 0
        BY <3>1 DEF MigrationsInv
      <4>3. StylesFree(db.styles)
        BY <4>1, <4>2 DEF StylesFree
      <4> QED BY <3>1, <4>3 DEF MigrationsInv
    <3> QED BY <2>1, <3>1 DEF MigrationsInv
  <2> QED BY <2>2, <2>3, <2>4 DEF RefusedForRowsOnly
<1> QED BY <1>1, MigrationsInvAlways, PTL
=============================================================================
