------------------------------ MODULE Accounts ------------------------------
(***************************************************************************)
(* Accounts, their roles and their sessions (src/src/api/auth.rs,          *)
(* src/src/db/user.rs, src/src/module/session.rs, src/src/api/admin/user.rs*)
(* and src/src/middleware/privilege.rs).                                   *)
(*                                                                         *)
(* The sessions of a user are a list, pushed and cut in two commands, to   *)
(* the length that the setting has then: Root may change the setting, and  *)
(* that cuts no list.  Whoever knows the password of an account logs in.   *)
(* What an administrator may do is decided with the role that the          *)
(* middleware has read, which others may have changed since.  Accounts     *)
(* that register themselves are made in Registration.                      *)
(***************************************************************************)
EXTENDS Integers, Sequences, FiniteSets, SequencesExt

CONSTANTS
  User, Root,     \* whoever has an address; Root is id 0
  Browser, None,
  SessionLimits,  \* what the setting max_sessions is at one time or another
  MaxSession, MaxFaults   \* bounds of the model: session ids of a browser

\* Banned is 0, a user 1, a moderator 2.
Admin    == 3
RootRole == 4
Player   == 1
Role     == 0..RootRole

\* Assumed of the constants
ConstantAssumption ==
  /\ Root \in User /\ None \notin User /\ None \notin Role
  /\ SessionLimits \subseteq Nat \ {0} /\ MaxSession \in Nat /\ MaxFaults \in Nat

VARIABLES
  account,       \* rb_user: role and must_change_password
  list,          \* session:v1:user:{id}
  cookie,        \* the session of each browser: user_id and session_id
  call,          \* the request of each browser
  faults,
  cap            \* (history) the setting that the last login to cut a list had read

sessions == <<list, cookie, cap>>
vars     == <<account, sessions, call, faults>>

NoAccount == [role |-> None, temporary |-> FALSE]
NoCall    == [pc |-> "idle", user |-> None, role |-> None]

Exists(u)   == account[u].role # None
Sid(b)      == <<b, cookie[b].id>>
Answer(b)   == call' = [call EXCEPT ![b] = NoCall]
Goto(b, where) == call' = [call EXCEPT ![b].pc = where]
Begin(b, where, u, r) ==
  call[b].pc = "idle" /\ call' = [call EXCEPT ![b] = [pc |-> where, user |-> u, role |-> r]]

\* ensure_root has run before anything is served.
Init ==
  /\ account = [u \in User |-> IF u = Root THEN [role |-> RootRole, temporary |-> FALSE] ELSE NoAccount]
  /\ list = [u \in User |-> <<>>]
  /\ cookie = [b \in Browser |-> [user |-> None, id |-> 0]]
  /\ call = [b \in Browser |-> NoCall]
  /\ faults = 0
  /\ cap = [u \in User |-> 0]
-----------------------------------------------------------------------------
(* Sessions. *)

Login(b, u) ==
  /\ Exists(u) /\ Begin(b, "push", u, None)
  /\ UNCHANGED <<account, sessions, faults>>

\* A browser that still has a session id keeps it, and is in the list twice.
Push(b) ==
  /\ call[b].pc = "push" /\ Goto(b, "trim")
  /\ list' = [list EXCEPT ![call[b].user] = <<Sid(b)>> \o @]
  /\ UNCHANGED <<account, cookie, cap, faults>>

Trim(b, most) ==
  /\ call[b].pc = "trim" /\ Answer(b)
  /\ list' = [list EXCEPT ![call[b].user] = SubSeq(@, 1, IF Len(@) < most THEN Len(@) ELSE most)]
  /\ cap' = [cap EXCEPT ![call[b].user] = most]
  /\ cookie' = [cookie EXCEPT ![b].user = call[b].user]
  /\ UNCHANGED <<account, faults>>

Purge(b) == cookie' = [cookie EXCEPT ![b] = [user |-> None, id |-> @.id + 1]]

Valid(b) == cookie[b].user # None /\ Contains(list[cookie[b].user], Sid(b))

Logout(b) ==
  /\ call[b].pc = "idle" /\ cookie[b].user # None /\ cookie[b].id < MaxSession
  /\ list' = [list EXCEPT ![cookie[b].user] = RemoveFirst(@, Sid(b))]
  /\ Purge(b)
  /\ UNCHANGED <<account, call, cap, faults>>

\* A request with a session that is no longer in the list.
Refuse(b) ==
  /\ call[b].pc = "idle" /\ cookie[b].user # None /\ ~Valid(b) /\ cookie[b].id < MaxSession
  /\ Purge(b) /\ UNCHANGED <<account, list, call, cap, faults>>
-----------------------------------------------------------------------------
(* What the middleware lets through, with the role it has read. *)

Actor(b) == account[cookie[b].user]

Enter(b, u, what) ==
  /\ Valid(b) /\ Actor(b).role >= Admin /\ ~Actor(b).temporary
  /\ Begin(b, what, u, Actor(b).role)
  /\ UNCHANGED <<account, sessions, faults>>

\* The one request for which a temporary password is enough.
EnterPassword(b) ==
  /\ Valid(b) /\ Actor(b).role >= Player
  /\ Begin(b, "password", cookie[b].user, None)
  /\ UNCHANGED <<account, sessions, faults>>

\* An account that a transaction has read FOR UPDATE is held until that one ends.
Free(u) == \A b \in Browser : ~(call[b].pc = "write" /\ call[b].user = u)

ChangePassword(b) ==
  /\ call[b].pc = "password" /\ Free(call[b].user) /\ Answer(b)
  /\ account' = [account EXCEPT ![call[b].user].temporary = FALSE]
  /\ UNCHANGED <<sessions, faults>>

CanChangeRole(actor, current, requested) ==
  \/ current = requested
  \/ /\ current # RootRole /\ requested # RootRole
     /\ actor = RootRole \/ (current < Admin /\ requested < Admin)

CanManageCredentials(actor, target) == target < actor

\* The account is read without FOR UPDATE.
UpdateLookUnlocked(b, r) ==
  LET u == call[b].user IN
  /\ call[b].pc = "update"
  /\ IF /\ Exists(u) /\ (cookie[b].user = u => r = account[u].role)
        /\ CanChangeRole(call[b].role, account[u].role, r)
     THEN call' = [call EXCEPT ![b].pc = "write", ![b].role = r]
     ELSE Answer(b)
  /\ UNCHANGED <<account, sessions, faults>>

\* The check of an update, in the transaction that writes: from here on call[b].role
\* is the role that is asked for.
UpdateLook(b, r) ==
  LET u == call[b].user IN
  /\ call[b].pc = "update" /\ Free(u)
  /\ IF /\ Exists(u) /\ (cookie[b].user = u => r = account[u].role)
        /\ CanChangeRole(call[b].role, account[u].role, r)
     THEN call' = [call EXCEPT ![b].pc = "write", ![b].role = r]
     ELSE Answer(b)
  /\ UNCHANGED <<account, sessions, faults>>

UpdateUser(b) ==
  /\ call[b].pc = "write" /\ Answer(b)
  /\ account' = [account EXCEPT ![call[b].user].role = call[b].role]
  /\ UNCHANGED <<sessions, faults>>

\* Nothing is written when somebody has the address.
CreateUser(b, r) ==
  LET u == call[b].user IN
  /\ call[b].pc = "create" /\ Answer(b)
  /\ account' = IF ~Exists(u) /\ r # RootRole /\ (call[b].role = RootRole \/ r < Admin)
                THEN [account EXCEPT ![u] = [role |-> r, temporary |-> TRUE]] ELSE account
  /\ UNCHANGED <<sessions, faults>>

ResetPassword(b) ==
  LET u == call[b].user IN
  /\ call[b].pc = "reset" /\ Free(u)
  /\ IF Exists(u) /\ CanManageCredentials(call[b].role, account[u].role)
     THEN account' = [account EXCEPT ![u].temporary = TRUE] /\ Goto(b, "invalidate")
     ELSE Answer(b) /\ UNCHANGED account
  /\ UNCHANGED <<sessions, faults>>

InvalidateAll(b) ==
  /\ call[b].pc = "invalidate" /\ Answer(b)
  /\ list' = [list EXCEPT ![call[b].user] = <<>>]
  /\ UNCHANGED <<account, cookie, cap, faults>>

\* The process stops, or Redis cannot be reached, between two steps.
Drop(b) ==
  /\ call[b].pc # "idle" /\ faults < MaxFaults /\ faults' = faults + 1
  /\ Answer(b) /\ UNCHANGED <<account, sessions>>

Step(b) ==
  \/ Push(b) \/ (\E most \in SessionLimits : Trim(b, most)) \/ ChangePassword(b)
  \/ \E r \in Role : UpdateLook(b, r) \/ CreateUser(b, r)
  \/ UpdateUser(b) \/ ResetPassword(b) \/ InvalidateAll(b)

Request(b) ==
  \/ \E u \in User : Login(b, u) \/ \E what \in {"create", "update", "reset"} : Enter(b, u, what)
  \/ Logout(b) \/ Refuse(b) \/ EnterPassword(b)

\* Somebody registers.
Registered(u) ==
  /\ ~Exists(u) /\ account' = [account EXCEPT ![u] = [role |-> Player, temporary |-> FALSE]]
  /\ UNCHANGED <<sessions, call, faults>>

Next ==
  \/ \E b \in Browser : Request(b) \/ Step(b) \/ Drop(b)
  \/ \E u \in User : Registered(u)

Spec == Init /\ [][Next]_vars
-----------------------------------------------------------------------------
(* Properties *)

TypeOK ==
  /\ account \in [User -> [role: Role \cup {None}, temporary: BOOLEAN]]
  /\ cookie \in [Browser -> [user: User \cup {None}, id: 0..MaxSession]]
  /\ call \in [Browser -> [pc: {"idle", "push", "trim", "password", "create", "update", "write",
                                "reset", "invalidate"},
                            user: User \cup {None}, role: Role \cup {None}]]
  /\ \A u \in User : Range(list[u]) \subseteq Browser \X (0..MaxSession)
  /\ cap \in [User -> SessionLimits \cup {0}]
  /\ faults \in 0..MaxFaults

\* The user with id 0, and nobody else, is Root: a process refuses to start
\* when id 0 is anything else (ensure_root, can_change_role).
OneRoot == \A u \in User : account[u].role = RootRole <=> u = Root

\* Once the logins of a user that are under way have ended, and unless one was cut off
\* (append), the list is no longer than the setting was for the last of them to cut it.
\* The setting that is in force may be less: lowering it cuts no list, and the sessions
\* go on until the user's next login (ltrim in append).
SessionsBounded == \A u \in User :
  (faults = 0 /\ \A b \in Browser : call[b].pc = "trim" => call[b].user # u)
    => Len(list[u]) <= cap[u]

Administrates(role) == role \in {Admin, RootRole}

\* What the request of b does to the account of u is something that b's user may do,
\* whatever role the middleware has read and whoever has changed it since.
Entitled(b, u) ==
  LET me == cookie[b].user IN
  /\ account'[u].role # account[u].role => me # u
  /\ Administrates(account[u].role) \/ Administrates(account'[u].role)
       => me = Root \/ (me = u /\ account'[u] = [account[u] EXCEPT !.temporary = FALSE])

\* Nobody becomes an administrator, ceases to be one or has their password reset but by
\* Root, and nobody changes their own role: an administrator who was demoted after the
\* middleware had read the role has no more than the accounts below (admin_update and
\* admin_reset_password read the account FOR UPDATE).
RolesGuarded == [][\A u \in User : account'[u] # account[u] =>
  \/ ~Exists(u) /\ account'[u] = [role |-> Player, temporary |-> FALSE]
  \/ \E b \in Browser : call'[b] # call[b] /\ Entitled(b, u)]_vars
=============================================================================
