--------------------------- MODULE TeamMembership ---------------------------
(***************************************************************************)
(* The teams of one game and their members (src/src/db/team.rs,            *)
(* src/src/api/team.rs, src/src/api/admin/team.rs).                        *)
(*                                                                         *)
(* A handler is cut into steps between its statements, where it waits for  *)
(* a row lock or for a connection of the pool.  user_create and            *)
(* user_update lock the rb_game row FOR UPDATE, and then a team's row;     *)
(* join, disband and the administrator's form lock the team's row, and     *)
(* then write rows that reference rb_game, which waits for its lock.       *)
(* What a transaction writes is visible when it commits, so that its last  *)
(* write and its commit are one step.                                      *)
(*                                                                         *)
(* An element of Call is one call of a handler.  Names are normalized      *)
(* ones: LOWER(BTRIM(name)).                                               *)
(***************************************************************************)
EXTENDS Integers, Sequences, FiniteSets

CONSTANTS
  User, Team, Call, Name, Pass,
  None,
  Menus,            \* the bound on what calls come together: operations for each
  Members0,         \* the members of the first team at the start, the oldest first
  FirstTeam, FirstName, FirstPass,
  MaxMembers,       \* settings.team.max_members
  AllowDuplicates,  \* settings.team.allow_duplicate_names
  Pool              \* connections of the pool

Operation == {"join", "create", "leave", "update", "disband", "kick", "promote", "start",
              "admin_create", "admin_update", "admin_add", "admin_remove", "admin_promote",
              "admin_delete"}

ASSUME ConstantAssumption ==
  /\ Menus \subseteq [Call -> SUBSET Operation]
  /\ FirstTeam \in Team /\ FirstName \in Name /\ FirstPass \in Pass
  /\ IsFiniteSet(User) /\ Members0 \in Seq(User) /\ Members0 # <<>>
  /\ MaxMembers \in Nat \ {0} /\ Pool \in Nat \ {0}
  /\ AllowDuplicates \in BOOLEAN
  /\ None \notin Team \cup User \cup Name \cup Pass \cup Call \cup Operation

VARIABLES
  team,      \* rb_team
  member,    \* the row of rb_team_member of each user (unique by game and user)
  serial,    \* rows inserted into rb_team_member so far: their order is that of ctime_at
  open,      \* the feature that lets users form teams
  gameLock,  \* the call that holds the rb_game row
  teamLock,  \* the call that holds a team's row
  call,      \* the calls and their locals
  byStaff,   \* HISTORY: teams that an administrator named
  raced      \* HISTORY: teams that got a member while a promotion was under way

rows  == <<team, member, serial>>
locks == <<gameLock, teamLock>>
past  == <<byStaff, raced>>
vars  == <<rows, open, locks, call, past>>

Phase == {"idle", "leader", "lock", "limit", "insert", "game", "names", "write", "find",
          "row", "save", "members", "delete", "log", "remove", "target", "captain", "count",
          "heir", "conflict", "add", "done"}

Roster == SUBSET (User \X Nat)

TypeOK ==
  /\ team \in [Team -> [status: {"new", "live", "gone"}, banned: BOOLEAN, locked: BOOLEAN,
                        name: Name \cup {None}, pass: Pass \cup {None}]]
  /\ member \in [User -> [team: Team \cup {None}, captain: BOOLEAN, row: Nat]]
  /\ serial \in Nat /\ open \in BOOLEAN
  /\ gameLock \in Call \cup {None} /\ teamLock \in [Team -> Call \cup {None}]
  /\ call \in [Call -> [pc: Phase, op: Operation \cup {None}, by: User \cup {None},
                        user: User \cup {None}, team: Team \cup {None},
                        name: Name \cup {None}, pass: Pass \cup {None},
                        flag: {"keep", "ban", "lock"}, seen: Roster]]
  /\ byStaff \subseteq Team /\ raced \subseteq Team

Blank == [status |-> "new", banned |-> FALSE, locked |-> FALSE, name |-> None, pass |-> None]
NoRow == [team |-> None, captain |-> FALSE, row |-> 0]
NoCall == [pc |-> "idle", op |-> None, by |-> None, user |-> None, team |-> None,
           name |-> None, pass |-> None, flag |-> "keep", seen |-> {}]

Init ==
  /\ team = [[t \in Team |-> Blank] EXCEPT
               ![FirstTeam] = [Blank EXCEPT !.status = "live", !.name = FirstName,
                                            !.pass = FirstPass]]
  /\ \E captain \in DOMAIN Members0 :
       member = [u \in User |->
                   IF \E i \in DOMAIN Members0 : Members0[i] = u
                   THEN LET i == CHOOSE j \in DOMAIN Members0 : Members0[j] = u
                        IN  [team |-> FirstTeam, captain |-> i = captain, row |-> i]
                   ELSE NoRow]
  /\ serial = Len(Members0) /\ open = TRUE
  /\ gameLock = None /\ teamLock = [t \in Team |-> None]
  /\ call = [c \in Call |-> NoCall]
  /\ byStaff = {} /\ raced = {}

-----------------------------------------------------------------------------
In(t)       == {u \in User : member[u].team = t}
Live(t)     == team[t].status = "live"
Captains(t) == {u \in In(t) : member[u].captain}
RosterOf(t) == {<<u, member[u].row>> : u \in In(t)}
Left        == {u \in User : member[u].team = None}

\* duplicate_team_name_exists_conn
Duplicate(n, t) == \E s \in Team \ {t} : Live(s) /\ team[s].name = n

At(c, s)   == call[c].pc = s
Goto(c, s) == call' = [call EXCEPT ![c].pc = s]

\* A transaction holds its connection from its begin to its end, a statement while it waits.
Outside == {"idle", "leader", "remove", "target", "done"}
Free    == Pool - Cardinality({c \in Call : call[c].pc \notin Outside})

\* The end of a call: its transaction gives back the locks and the connection.
End(c) ==
  /\ Goto(c, "done")
  /\ gameLock' = IF gameLock = c THEN None ELSE gameLock
  /\ teamLock' = [t \in Team |-> IF teamLock[t] = c THEN None ELSE teamLock[t]]

Refuse(c) == End(c) /\ UNCHANGED <<rows, open, past>>

\* A row that references rb_game or rb_team waits for a lock of that row.
GameFree(c)    == gameLock \in {None, c}
TeamFree(c, t) == teamLock[t] \in {None, c}

\* The rows of the members of a team whose deletion is not committed are locked with it.
Deleting(t) == \E c \in Call : teamLock[t] = c /\ At(c, "log") /\ call[c].op = "disband"

Enter(u, t, captain) ==
  /\ member' = [member EXCEPT ![u] = [team |-> t, captain |-> captain, row |-> serial + 1]]
  /\ serial' = serial + 1
  /\ raced' = IF \E c \in Call : At(c, "captain") /\ call[c].team = t
              THEN raced \cup {t} ELSE raced

Expel(us) == member' = [u \in User |-> IF u \in us THEN NoRow ELSE member[u]]

-----------------------------------------------------------------------------
(* The requests.  The middleware has read the team of the user who asks.   *)
Ask(c, request) ==
  /\ \E menu \in Menus :
       request.op \in menu[c] /\ \A d \in Call : ~At(d, "idle") => call[d].op \in menu[d]
  /\ call' = [call EXCEPT ![c] = request]
  /\ UNCHANGED <<rows, open, locks, past>>

\* Such a request begins a transaction at once, with a connection of the pool.
Begin(c, request) == Free > 0 /\ Ask(c, request)

AskJoin(c) ==
  \E u \in User, t \in {s \in Team : team[s].status # "new"}, p \in Pass :
    Begin(c, [NoCall EXCEPT !.op = "join", !.pc = "lock", !.by = u, !.team = t, !.pass = p])

AskCreate(c) ==
  \E u \in User, n \in Name, p \in Pass :
    Begin(c, [NoCall EXCEPT !.op = "create", !.pc = "game", !.by = u, !.name = n, !.pass = p])

AskLeave(c) ==
  \E u \in User \ Left :
    Ask(c, [NoCall EXCEPT !.op = "leave", !.pc = "remove", !.by = u, !.user = u,
                          !.team = member[u].team])

AskUpdate(c) ==
  \E u \in User, n \in Name \cup {None}, p \in Pass \cup {None} :
    /\ n # None \/ p # None
    /\ Ask(c, [NoCall EXCEPT !.op = "update", !.pc = "leader", !.by = u, !.name = n,
                             !.pass = p])

AskDisband(c) ==
  \E u \in User \ Left :
    Ask(c, [NoCall EXCEPT !.op = "disband", !.pc = "leader", !.by = u, !.team = member[u].team])

AskTarget(c) ==
  \E op \in {"kick", "promote"}, u \in User \ Left : \E v \in User \ {u} :
    Ask(c, [NoCall EXCEPT !.op = op, !.pc = "leader", !.by = u, !.user = v,
                          !.team = member[u].team])

\* check_leader_middleware
Leader(c) ==
  /\ At(c, "leader")
  /\ LET u == call[c].by
         next == CASE call[c].op = "update"  -> "game"
                   [] call[c].op = "disband" -> "members"
                   [] call[c].op = "kick"    -> "remove"
                   [] call[c].op = "promote" -> "target"
     IN  IF member[u].captain
         THEN /\ Free > 0 /\ Goto(c, next)
              /\ UNCHANGED <<rows, open, locks, past>>
         ELSE Refuse(c)

-----------------------------------------------------------------------------
(* join                                                                    *)
\* join reads the team without FOR UPDATE.
JoinRead(c) ==
  LET t == call[c].team IN
  /\ At(c, "lock") /\ call[c].op = "join"
  /\ IF Live(t) /\ open /\ ~team[t].banned /\ team[t].pass = call[c].pass
     THEN Goto(c, "limit") /\ UNCHANGED <<rows, open, locks, past>>
     ELSE Refuse(c)

JoinLock(c) ==
  LET t == call[c].team IN
  /\ At(c, "lock") /\ call[c].op = "join" /\ teamLock[t] = None
  /\ IF Live(t) /\ open /\ ~team[t].banned /\ team[t].pass = call[c].pass
     THEN /\ teamLock' = [teamLock EXCEPT ![t] = c] /\ Goto(c, "limit")
          /\ UNCHANGED <<rows, open, gameLock, past>>
     ELSE Refuse(c)

\* The members are not counted.
JoinUnlimited(c) ==
  At(c, "limit") /\ Free > 0 /\ Goto(c, "insert") /\ UNCHANGED <<rows, open, locks, past>>

\* The limit is read on a second connection, while the first holds the team's row.
JoinLimit(c) ==
  /\ At(c, "limit") /\ Free > 0
  /\ IF Cardinality(In(call[c].team)) < MaxMembers
     THEN Goto(c, "insert") /\ UNCHANGED <<rows, open, locks, past>>
     ELSE Refuse(c)

\* The pool waits for a connection without end.
PoolWaits(c) == FALSE /\ Refuse(c)

PoolTimeout(c) == At(c, "limit") /\ Free = 0 /\ Refuse(c)

\* The unique index on game and user turns a second row into an error.
JoinInsert(c) ==
  /\ At(c, "insert") /\ GameFree(c)
  /\ IF call[c].by \in Left
     THEN /\ Enter(call[c].by, call[c].team, FALSE) /\ End(c)
          /\ UNCHANGED <<team, open, byStaff>>
     ELSE Refuse(c)

-----------------------------------------------------------------------------
(* user_create, user_update                                                *)

\* lock_duplicate_name_policy_conn
LockGame(c) ==
  /\ At(c, "game") /\ gameLock = None
  /\ gameLock' = c
  /\ Goto(c, IF call[c].op = "create" THEN "names" ELSE "find")
  /\ UNCHANGED <<rows, open, teamLock, past>>

CreateNames(c) ==
  /\ At(c, "names")
  /\ IF open /\ (AllowDuplicates \/ ~Duplicate(call[c].name, None))
     THEN Goto(c, "write") /\ UNCHANGED <<rows, open, locks, past>>
     ELSE Refuse(c)

\* ON CONFLICT (game_id, user_id) DO NOTHING: a user with a team rolls it all back.
CreateWrite(c) ==
  /\ At(c, "write")
  /\ \/ /\ call[c].by \in Left
        /\ \E t \in {s \in Team : team[s].status = "new"} :
             /\ team' = [team EXCEPT ![t] = [Blank EXCEPT !.status = "live",
                                              !.name = call[c].name, !.pass = call[c].pass]]
             /\ Enter(call[c].by, t, TRUE)
        /\ End(c) /\ UNCHANGED <<open, byStaff>>
     \/ call[c].by \notin Left /\ Refuse(c)

\* The statement finds the team of the captain, and then waits for the team's row.
UpdateFind(c) ==
  /\ At(c, "find")
  /\ LET u == call[c].by IN
     IF member[u].captain
     THEN /\ call' = [call EXCEPT ![c].pc = "row", ![c].team = member[u].team]
          /\ UNCHANGED <<rows, open, locks, past>>
     ELSE Refuse(c)

UpdateRow(c) ==
  LET t == call[c].team
      n == call[c].name
  IN
  /\ At(c, "row") /\ teamLock[t] = None
  /\ IF /\ Live(t)
        /\ n # None => /\ ~team[t].locked
                       /\ n = team[t].name \/ AllowDuplicates \/ ~Duplicate(n, t)
     THEN /\ teamLock' = [teamLock EXCEPT ![t] = c] /\ Goto(c, "save")
          /\ UNCHANGED <<rows, open, gameLock, past>>
     ELSE Refuse(c)

\* COALESCE: what the form leaves out stays.
Filled(c, row) ==
  [row EXCEPT !.name = IF call[c].name = None THEN @ ELSE call[c].name,
              !.pass = IF call[c].pass = None THEN @ ELSE call[c].pass]

UpdateSave(c) ==
  /\ At(c, "save")
  /\ team' = [team EXCEPT ![call[c].team] = Filled(c, @)]
  /\ byStaff' = IF call[c].name \in {None, team[call[c].team].name}
                THEN byStaff ELSE byStaff \ {call[c].team}
  /\ End(c) /\ UNCHANGED <<member, serial, open, raced>>

-----------------------------------------------------------------------------
(* leave, kick_member: one statement, which only takes members of a team   *)
(* that is not locked.                                                     *)

Remove(c) ==
  LET t == call[c].team IN
  /\ At(c, "remove") /\ ~Deleting(t)
  /\ IF call[c].user \in In(t) /\ ~team[t].locked
     THEN Expel({call[c].user}) /\ End(c) /\ UNCHANGED <<team, serial, open, past>>
     ELSE Refuse(c)

-----------------------------------------------------------------------------
(* disband                                                                 *)
DisbandRead(c) ==
  LET t == call[c].team IN
  /\ At(c, "members") /\ call[c].op = "disband"
  /\ IF In(t) # {} /\ ~team[t].locked
     THEN Goto(c, "delete") /\ UNCHANGED <<rows, open, locks, past>>
     ELSE Refuse(c)

\* The rows that go with the team wait for the commit.
DisbandDelete(c) ==
  LET t == call[c].team IN
  /\ At(c, "delete") /\ call[c].op = "disband" /\ teamLock[t] = None
  /\ IF Live(t)
     THEN /\ teamLock' = [teamLock EXCEPT ![t] = c] /\ Goto(c, "log")
          /\ UNCHANGED <<rows, open, gameLock, past>>
     ELSE Refuse(c)

Drop(t) == /\ team' = [team EXCEPT ![t] = [Blank EXCEPT !.status = "gone"]]
           /\ Expel(In(t))

DisbandCommit(c) ==
  /\ At(c, "log") /\ call[c].op = "disband" /\ GameFree(c)
  /\ Drop(call[c].team) /\ End(c)
  /\ UNCHANGED <<serial, open, past>>

-----------------------------------------------------------------------------
(* promote_member: the statement sees the rows of its snapshot, and updates *)
(* those that are still there when it gets to them.                        *)
PromoteTarget(c) ==
  LET t == call[c].team IN
  /\ At(c, "target") /\ Free > 0
  /\ IF call[c].user \in In(t)
     THEN /\ call' = [call EXCEPT ![c].pc = "captain", ![c].seen = RosterOf(t)]
          /\ UNCHANGED <<rows, open, locks, past>>
     ELSE Refuse(c)

\* promote_member does not take the mark from the others.
PromoteOnly(c) ==
  /\ At(c, "captain") /\ ~Deleting(call[c].team)
  /\ member' = [u \in User |->
                  IF <<u, member[u].row>> \in call[c].seen /\ u = call[c].user
                  THEN [member[u] EXCEPT !.captain = TRUE] ELSE member[u]]
  /\ End(c) /\ UNCHANGED <<team, serial, open, past>>

PromoteWrite(c) ==
  LET t == call[c].team IN
  /\ At(c, "captain") /\ ~Deleting(t)
  /\ member' = [u \in User |->
                  IF <<u, member[u].row>> \in call[c].seen
                  THEN [member[u] EXCEPT !.captain = (u = call[c].user)]
                  ELSE member[u]]
  /\ End(c) /\ UNCHANGED <<team, serial, open, past>>

-----------------------------------------------------------------------------
(* A judge starts the game for the team (RbJudgeAction::StartGame).        *)
AskStart(c) ==
  \E t \in {s \in Team : Live(s)} :
    Begin(c, [NoCall EXCEPT !.op = "start", !.pc = "lock", !.team = t])

StartLock(c) ==
  LET t == call[c].team IN
  /\ At(c, "lock") /\ call[c].op = "start" /\ teamLock[t] = None
  /\ IF Live(t)
     THEN /\ teamLock' = [teamLock EXCEPT ![t] = c] /\ Goto(c, "log")
          /\ UNCHANGED <<rows, open, gameLock, past>>
     ELSE Refuse(c)

StartCommit(c) ==
  /\ At(c, "log") /\ call[c].op = "start" /\ GameFree(c)
  /\ team' = [team EXCEPT ![call[c].team].locked = TRUE]
  /\ End(c) /\ UNCHANGED <<member, serial, open, past>>

-----------------------------------------------------------------------------
(* The operations of the staff.                                            *)
AskAdminCreate(c) ==
  \E u \in User, n \in Name, p \in Pass :
    Begin(c, [NoCall EXCEPT !.op = "admin_create", !.pc = "conflict", !.by = u, !.name = n,
                            !.pass = p])

AdminConflict(c) ==
  /\ At(c, "conflict")
  /\ IF call[c].by \in Left
     THEN Goto(c, "add") /\ UNCHANGED <<rows, open, locks, past>>
     ELSE Refuse(c)

\* No check of the name, and a row that came in between is an error.
AdminInsert(c) ==
  /\ At(c, "add") /\ call[c].op = "admin_create" /\ GameFree(c)
  /\ \/ /\ call[c].by \in Left
        /\ \E t \in {s \in Team : team[s].status = "new"} :
             /\ team' = [team EXCEPT ![t] = [Blank EXCEPT !.status = "live",
                                              !.name = call[c].name, !.pass = call[c].pass]]
             /\ Enter(call[c].by, t, TRUE)
             /\ byStaff' = byStaff \cup {t}
        /\ End(c) /\ UNCHANGED open
     \/ call[c].by \notin Left /\ Refuse(c)

AskAdminUpdate(c) ==
  \E t \in {s \in Team : Live(s)}, n \in Name \cup {None}, f \in {"keep", "ban", "lock"} :
    /\ n # None \/ f # "keep"
    /\ Begin(c, [NoCall EXCEPT !.op = "admin_update", !.pc = "lock", !.team = t, !.name = n,
                               !.flag = f])

AdminLock(c) ==
  LET t == call[c].team IN
  /\ At(c, "lock") /\ call[c].op = "admin_update" /\ teamLock[t] = None
  /\ IF Live(t)
     THEN /\ teamLock' = [teamLock EXCEPT ![t] = c] /\ Goto(c, "log")
          /\ UNCHANGED <<rows, open, gameLock, past>>
     ELSE Refuse(c)

\* "ban" and "lock" set or clear the column; a change is logged, in a row of the game.
AdminCommit(c) ==
  LET t == call[c].team
      f == call[c].flag
  IN
  /\ At(c, "log") /\ call[c].op = "admin_update"
  /\ f # "keep" => GameFree(c)
  /\ \E b \in BOOLEAN :
       /\ f = "keep" => b
       /\ team' = [team EXCEPT ![t] = [Filled(c, team[t]) EXCEPT
                     !.banned = IF f = "ban" THEN b ELSE @,
                     !.locked = IF f = "lock" THEN b ELSE @]]
  /\ byStaff' = IF call[c].name = None THEN byStaff ELSE byStaff \cup {t}
  /\ End(c) /\ UNCHANGED <<member, serial, open, raced>>

\* admin_add_member: neither the limit nor the state of the team is looked at.
AskAdminAdd(c) ==
  \E u \in User, t \in {s \in Team : Live(s)} :
    Begin(c, [NoCall EXCEPT !.op = "admin_add", !.pc = "add", !.by = u, !.team = t])

AdminAdd(c) ==
  LET t == call[c].team IN
  /\ At(c, "add") /\ call[c].op = "admin_add" /\ GameFree(c) /\ TeamFree(c, t)
  /\ IF Live(t) /\ call[c].by \in Left
     THEN /\ Enter(call[c].by, t, FALSE) /\ End(c)
          /\ UNCHANGED <<team, open, byStaff>>
     ELSE Refuse(c)

AskAdminRemove(c) ==
  \E u \in User \ Left :
    Begin(c, [NoCall EXCEPT !.op = "admin_remove", !.pc = "count", !.user = u,
                            !.team = member[u].team])

AdminCount(c) ==
  /\ At(c, "count")
  /\ IF Cardinality(In(call[c].team)) > 1
     THEN Goto(c, "heir") /\ UNCHANGED <<rows, open, locks, past>>
     ELSE Refuse(c)

\* A team that loses its captain gets its oldest member as captain.
AdminRemove(c) ==
  LET t      == call[c].team
      rest   == In(t) \ {call[c].user}
      oldest == {u \in rest : \A v \in rest : member[u].row <= member[v].row}
      heirs  == IF Captains(t) \cap rest = {} THEN oldest ELSE {}
  IN
  /\ At(c, "heir") /\ ~Deleting(t)
  /\ IF call[c].user \in In(t)
     THEN /\ member' = [u \in User |-> CASE u = call[c].user -> NoRow
                                         [] u \in heirs -> [member[u] EXCEPT !.captain = TRUE]
                                         [] OTHER -> member[u]]
          /\ End(c) /\ UNCHANGED <<team, serial, open, past>>
     ELSE Refuse(c)

AskAdminPromote(c) ==
  \E u \in User \ Left :
    Ask(c, [NoCall EXCEPT !.op = "admin_promote", !.pc = "target", !.user = u,
                          !.team = member[u].team])

AskAdminDelete(c) ==
  \E t \in {s \in Team : Live(s)} :
    Begin(c, [NoCall EXCEPT !.op = "admin_delete", !.pc = "members", !.team = t])

\* A team without members is not deleted.
AdminDeleteRead(c) ==
  /\ At(c, "members") /\ call[c].op = "admin_delete"
  /\ IF In(call[c].team) # {}
     THEN Goto(c, "delete") /\ UNCHANGED <<rows, open, locks, past>>
     ELSE Refuse(c)

AdminDelete(c) ==
  LET t == call[c].team IN
  /\ At(c, "delete") /\ call[c].op = "admin_delete" /\ teamLock[t] = None
  /\ IF Live(t) THEN Drop(t) /\ End(c) /\ UNCHANGED <<serial, open, past>>
                ELSE Refuse(c)

-----------------------------------------------------------------------------
\* PostgreSQL ends one of two transactions that wait for each other: user_update holds
\* rb_game and waits for a team's row, whose holder waits for rb_game.
Deadlock(c) ==
  /\ \E g, h \in Call :
       /\ gameLock = g /\ At(g, "row")
       /\ teamLock[call[g].team] = h /\ h # g
       /\ \/ At(h, "insert")
          \/ At(h, "log") /\ ~(call[h].op = "admin_update" /\ call[h].flag = "keep")
       /\ c \in {g, h}
  /\ Refuse(c)

\* A scheduled phase closes the forming of teams.
CloseFeature == open /\ open' = FALSE /\ UNCHANGED <<rows, locks, call, past>>

Request(c) ==
  \/ AskJoin(c) \/ AskCreate(c) \/ AskLeave(c) \/ AskUpdate(c) \/ AskDisband(c) \/ AskTarget(c)
  \/ AskStart(c) \/ AskAdminCreate(c) \/ AskAdminUpdate(c) \/ AskAdminAdd(c)
  \/ AskAdminRemove(c) \/ AskAdminPromote(c) \/ AskAdminDelete(c)

Step(c) ==
  \/ Leader(c) \/ JoinLock(c) \/ JoinLimit(c) \/ PoolTimeout(c) \/ JoinInsert(c)
  \/ LockGame(c) \/ CreateNames(c) \/ CreateWrite(c)
  \/ UpdateFind(c) \/ UpdateRow(c) \/ UpdateSave(c)
  \/ Remove(c) \/ DisbandRead(c) \/ DisbandDelete(c) \/ DisbandCommit(c)
  \/ PromoteTarget(c) \/ PromoteWrite(c) \/ StartLock(c) \/ StartCommit(c)
  \/ AdminConflict(c) \/ AdminInsert(c) \/ AdminLock(c) \/ AdminCommit(c) \/ AdminAdd(c)
  \/ AdminCount(c) \/ AdminRemove(c) \/ AdminDeleteRead(c) \/ AdminDelete(c)
  \/ Deadlock(c)

Next == CloseFeature \/ \E c \in Call : (At(c, "idle") /\ Request(c)) \/ Step(c)

Spec == Init /\ [][Next]_vars

\* A statement that can go on does, and one that waits for a lock goes on when it is free.
FairSpec == Spec /\ \A c \in Call : WF_vars(Step(c))
-----------------------------------------------------------------------------
\* Two teams of the game never have one name, unless the settings allow it or the staff
\* named one of them: creations and renamings go one at a time under the rb_game row.
NamesUnique ==
  \A s, t \in Team : s # t /\ Live(s) /\ Live(t) /\ team[s].name = team[t].name =>
    AllowDuplicates \/ {s, t} \cap byStaff # {}

\* A team never has two captains, whatever promotions, removals and joins meet; the one
\* exception is a member who joins while a promotion has its snapshot (is promoted as well).
OneCaptain == \A t \in Team \ raced : Cardinality(Captains(t)) <= 1

\* What the rows are at any time, between any two statements of overlapping calls.
RowsSound == TypeOK /\ NamesUnique /\ OneCaptain

\* At the moment a player becomes a member the team is there, is not banned, has that
\* password and has a place left: the row lock of join spans all its checks.
JoinAdmitted ==
  [][\A c \in Call :
       LET t == call[c].team IN
       (call[c].op = "join" /\ member' # member /\ At(c, "insert") /\ At(c, "done")') =>
         /\ Live(t) /\ ~team[t].banned /\ team[t].pass = call[c].pass
         /\ Cardinality(In(t)) < MaxMembers]_vars

\* From the moment the game has started for a team, its players can neither rename it nor
\* leave it nor be kicked: the staff can, and so can a disbanding (team.rs:444) that had
\* read the team as not locked.
StartedStays ==
  [][\A t \in Team : Live(t) /\ team[t].locked =>
       \/ team'[t].name = team[t].name /\ \A u \in In(t) : member'[u].team = t
       \/ \E c \in Call : /\ ~At(c, "done") /\ At(c, "done")'
                          /\ call[c].op \in {"disband", "admin_update", "admin_remove",
                                             "admin_delete"}]_vars

\* What a call has checked still holds when it writes.
WritesSound == JoinAdmitted /\ StartedStays

\* Every call gets its answer, although joins hold one connection and wait for another, and
\* transactions lock rb_game and rb_team in both orders.
CallsEnd == \A c \in Call : ~At(c, "idle") ~> At(c, "done")
=============================================================================
