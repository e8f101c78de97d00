------------------------ MODULE TeamMembershipProofs ------------------------
(***************************************************************************)
(* Proofs about TeamMembership: names and captains are unique, and what a  *)
(* call has checked still holds when it writes, for any number of calls,   *)
(* teams and users.                                                        *)
(***************************************************************************)
EXTENDS TeamMembership, FiniteSetTheorems, TLAPS

TeamRow   == [status: {"new", "live", "gone"}, banned: BOOLEAN, locked: BOOLEAN,
              name: Name \cup {None}, pass: Pass \cup {None}]
MemberRow == [team: Team \cup {None}, captain: BOOLEAN, row: Nat]
CallRow   == [pc: Phase, op: Operation \cup {None}, by: User \cup {None},
              user: User \cup {None}, team: Team \cup {None},
              name: Name \cup {None}, pass: Pass \cup {None},
              flag: {"keep", "ban", "lock"}, seen: Roster]

(* The operation behind a phase, and what a call is about.                 *)
ShapedRow(row) ==
  LET op == row.op
      pc == row.pc
  IN  /\ pc = "leader" => op \in {"update", "disband", "kick", "promote"}
      /\ pc = "game" => op \in {"create", "update"}
      /\ pc \in {"limit", "insert"} => op = "join"
      /\ pc \in {"names", "write"} => op = "create" /\ row.name # None
      /\ pc \in {"find", "row", "save"} => op = "update"
      /\ pc = "log" => op \in {"disband", "start", "admin_update"}
      /\ pc \in {"target", "captain"} => op \in {"promote", "admin_promote"}
      /\ pc \in {"count", "heir"} => op = "admin_remove"
      /\ pc \in {"lock", "limit", "insert", "row", "save", "log", "remove", "members", "delete",
                 "target", "captain", "count", "heir"} => row.team \in Team
      /\ op \in {"create", "admin_create"} => row.name # None
      /\ op = "admin_add" => row.team \in Team
      /\ op \in {"disband", "kick", "promote"} => row.team \in Team
      /\ op = "update" => row.by \in User

Shaped(c) == ShapedRow(call[c])

(* The locks behind the phases. *)
Held(c) ==
  /\ call[c].pc \in {"names", "write", "find", "row", "save"} => gameLock = c
  /\ call[c].pc \in {"limit", "insert", "save", "log"} => teamLock[call[c].team] = c

(* No team but those in but has the name n, but for those the staff named. *)
Vacant(n, but) ==
  AllowDuplicates \/ \A s \in Team \ but : Live(s) /\ team[s].name = n => s \in byStaff

(* What a call has found is still so. *)
Found(c) ==
  LET t == call[c].team
      n == call[c].name
  IN  /\ call[c].pc \in {"limit", "insert", "save", "log"} => Live(t)
      /\ call[c].pc \in {"limit", "insert"} => ~team[t].banned /\ team[t].pass = call[c].pass
      /\ At(c, "insert") => Cardinality(In(t)) < MaxMembers
      /\ At(c, "write") => Vacant(n, {})
      /\ At(c, "save") /\ n # None =>
           ~team[t].locked /\ (n = team[t].name \/ Vacant(n, {t}))

(* A promotion has seen every member but those who raced it.               *)
Sighted(c) ==
  LET t == call[c].team
  IN  At(c, "captain") =>
        /\ t \notin raced => \A u \in In(t) : <<u, member[u].row>> \in call[c].seen
        /\ \A u \in User, r \in Nat : <<u, r>> \in call[c].seen =>
             r # 0 /\ r <= serial /\ (member[u].row = r => member[u].team = t)

Fit(c) == Shaped(c) /\ Held(c) /\ Found(c) /\ Sighted(c)

(* The rows of the members, and their order.                               *)
Rowed ==
  /\ \A u \in User :
       /\ member[u].team # None => Live(member[u].team)
       /\ member[u].team # None <=> member[u].row # 0
       /\ member[u].row <= serial
       /\ member[u].captain => member[u].team # None
  /\ \A u, v \in User : u # v /\ member[u].row = member[v].row => member[u].team = None

OneCap == \A t \in Team \ raced : \A u, v \in Captains(t) : u = v

Rows == Rowed /\ OneCap /\ NamesUnique

IInv == TypeOK /\ Rows /\ \A c \in Call : Fit(c)

-----------------------------------------------------------------------------
(* Facts about the operators.                                              *)

LEMMA Typed ==
  ASSUME TypeOK
  PROVE  /\ team \in [Team -> TeamRow] /\ member \in [User -> MemberRow]
         /\ call \in [Call -> CallRow] /\ serial \in Nat
         /\ gameLock \in Call \cup {None} /\ teamLock \in [Team -> Call \cup {None}]
BY DEF TypeOK, TeamRow, MemberRow, CallRow

LEMMA NoneIsNone ==
  /\ None \notin Team /\ None \notin User /\ None \notin Name /\ None \notin Pass
  /\ None \notin Call
BY ConstantAssumption

LEMMA RosterHas ==
  ASSUME NEW t, NEW u, NEW r
  PROVE  <<u, r>> \in RosterOf(t) <=> u \in In(t) /\ r = member[u].row
BY DEF RosterOf

(* The members of a team are finitely many, and fewer when some go.        *)
LEMMA FewerMembers ==
  ASSUME NEW t, In(t)' \subseteq In(t)
  PROVE  Cardinality(In(t)') <= Cardinality(In(t))
         /\ Cardinality(In(t)') \in Nat /\ Cardinality(In(t)) \in Nat
<1>1. IsFiniteSet(In(t))
  <2>1. In(t) \subseteq User /\ IsFiniteSet(User)
    BY ConstantAssumption DEF In
  <2> QED BY <2>1, FS_Subset
<1>2. IsFiniteSet(In(t)')
  BY <1>1, FS_Subset
<1> QED BY <1>1, <1>2, FS_Subset, FS_CardinalityType

-----------------------------------------------------------------------------
(* What a step leaves to a call that does not take it.                     *)

Stays(d) ==
  /\ call'[d] = call[d]
  /\ gameLock = d => gameLock' = d
  /\ \A t \in Team : teamLock[t] = d => teamLock'[t] = d

(* Names come to stand beside those there are by the staff alone.          *)
NamesKept ==
  \A s \in Team : Live(s)' =>
    s \in byStaff' \/ (Live(s) /\ team'[s].name = team[s].name /\ s \notin byStaff)

(* A member stays, goes, or is new.                                        *)
MemberKept(u, d) ==
  \/ member'[u].row = member[u].row /\ member'[u].team = member[u].team
  \/ member'[u].row = 0 /\ member'[u].team = None
  \/ member'[u].row > serial
     /\ (At(d, "captain") /\ member'[u].team = call[d].team => call[d].team \in raced')

Keeps(d) ==
  /\ Stays(d)
  /\ serial' \in Nat /\ serial <= serial' /\ raced \subseteq raced'
  /\ gameLock = d => NamesKept
  /\ \A t \in Team : teamLock[t] = d /\ Live(t) => team'[t] = team[t] /\ In(t)' \subseteq In(t)
  /\ \A u \in User : MemberKept(u, d)

LEMMA VacantKept ==
  ASSUME NEW n, NEW but, NamesKept, Vacant(n, but)
  PROVE  Vacant(n, but)'
BY DEF NamesKept, Vacant

LEMMA KeepsFit ==
  ASSUME TypeOK, TypeOK', NEW d \in Call, Fit(d), Keeps(d)
  PROVE  Fit(d)'
<1>1. call'[d] = call[d]
  BY DEF Keeps, Stays
<1>2. Shaped(d)'
  BY <1>1 DEF Fit, Shaped
<1>3. Held(d)'
  BY <1>1 DEF Fit, Held, Shaped, ShapedRow, Keeps, Stays
<1>4. PICK t, n : t = call[d].team /\ n = call[d].name
  OBVIOUS
<1>5. Found(d)'
  <2>1. ASSUME call[d].pc \in {"limit", "insert", "save", "log"}
        PROVE  t \in Team /\ Live(t) /\ team'[t] = team[t] /\ In(t)' \subseteq In(t)
    BY <1>4, <2>1 DEF Fit, Shaped, ShapedRow, Held, Found, Keeps
  <2>2. ASSUME At(d, "insert") PROVE Cardinality(In(t)') < MaxMembers
    <3>1. Cardinality(In(t)) < MaxMembers /\ In(t)' \subseteq In(t)
      BY <1>4, <2>1, <2>2 DEF Fit, Found, At
    <3> QED BY <3>1, FewerMembers, ConstantAssumption
  <2>3. ASSUME At(d, "write") PROVE Vacant(n, {})'
    <3>1. NamesKept /\ Vacant(n, {})
      BY <1>4, <2>3 DEF Fit, Held, Found, At, Keeps
    <3> QED BY <3>1, VacantKept
  <2>4. ASSUME At(d, "save"), n # None
        PROVE  ~team'[t].locked /\ (n = team'[t].name \/ Vacant(n, {t})')
    <3>1. NamesKept /\ ~team[t].locked /\ (n = team[t].name \/ Vacant(n, {t}))
      BY <1>4, <2>4 DEF Fit, Held, Found, At, Keeps
    <3>2. team'[t] = team[t]
      BY <2>1, <2>4 DEF At
    <3> QED BY <3>1, <3>2, VacantKept
  <2>5. \A s : At(d, s)' <=> At(d, s)
    BY <1>1 DEF At
  <2>6. ASSUME call[d].pc \in {"limit", "insert"}
        PROVE  ~team'[t].banned /\ team'[t].pass = call[d].pass
    BY <1>4, <2>1, <2>6 DEF Fit, Found
  <2>7. ASSUME call[d].pc \in {"limit", "insert", "save", "log"} PROVE Live(t)'
    BY <2>1, <2>7 DEF Live
  <2> QED BY <1>1, <1>4, <2>2, <2>3, <2>4, <2>5, <2>6, <2>7 DEF Found
<1>6. Sighted(d)'
  <2> SUFFICES ASSUME At(d, "captain")
               PROVE  /\ t \notin raced' => \A u \in In(t)' : <<u, member'[u].row>> \in call[d].seen
                      /\ \A u \in User, r \in Nat : <<u, r>> \in call[d].seen =>
                           r # 0 /\ r <= serial' /\ (member'[u].row = r => member'[u].team = t)
    BY <1>1, <1>4 DEF Sighted, At
  <2>1. /\ t \notin raced => \A u \in In(t) : <<u, member[u].row>> \in call[d].seen
        /\ \A u \in User, r \in Nat : <<u, r>> \in call[d].seen =>
             r # 0 /\ r <= serial /\ (member[u].row = r => member[u].team = t)
        /\ t \in Team /\ t # None
    BY <1>4, NoneIsNone DEF Fit, Sighted, Shaped, ShapedRow, At
  <2>2. /\ \A u \in User : MemberKept(u, d)
        /\ serial <= serial' /\ serial \in Nat /\ serial' \in Nat /\ raced \subseteq raced'
    BY Typed DEF Keeps
  <2>3. ASSUME t \notin raced', NEW u \in In(t)' PROVE <<u, member'[u].row>> \in call[d].seen
    <3>1. u \in User /\ member'[u].team = t
      BY <2>3 DEF In
    <3>2. member'[u].row = member[u].row /\ member[u].team = t
      BY <1>4, <2>1, <2>2, <2>3, <3>1 DEF MemberKept
    <3>3. u \in In(t)
      BY <3>1, <3>2 DEF In
    <3> QED BY <2>1, <2>2, <2>3, <3>2, <3>3
  <2>4. ASSUME NEW u \in User, NEW r \in Nat, <<u, r>> \in call[d].seen
        PROVE  r # 0 /\ r <= serial' /\ (member'[u].row = r => member'[u].team = t)
    <3>1. r # 0 /\ r <= serial /\ (member[u].row = r => member[u].team = t)
      BY <2>1, <2>4
    <3> QED BY <2>2, <3>1 DEF MemberKept
  <2> QED BY <2>3, <2>4
<1> QED BY <1>2, <1>3, <1>5, <1>6 DEF Fit

LEMMA Everyone ==
  ASSUME IInv, TypeOK', Rows', \A d \in Call : Keeps(d)
  PROVE  IInv'
BY KeepsFit DEF IInv

LEMMA Inductive ==
  ASSUME IInv, TypeOK', Rows', NEW c \in Call, Fit(c)', \A d \in Call \ {c} : Keeps(d)
  PROVE  IInv'
<1>1. ASSUME NEW d \in Call PROVE Fit(d)'
  BY KeepsFit DEF IInv
<1> QED BY <1>1 DEF IInv

(* A step that leaves the rows alone.                                      *)
LEMMA RowsSame ==
  ASSUME TypeOK, UNCHANGED rows, UNCHANGED past
  PROVE  /\ Rows => Rows'
         /\ \A d \in Call : Stays(d) => Keeps(d)
<1>1. team' = team /\ member' = member /\ serial' = serial /\ byStaff' = byStaff /\ raced' = raced
  BY DEF rows, past
<1>2. Rows => Rows'
  BY <1>1 DEF Rows, Rowed, OneCap, NamesUnique, Captains, In, Live
<1>3. NamesKept /\ \A d : \A u \in User : MemberKept(u, d)
  BY <1>1 DEF NamesKept, MemberKept, Live
<1>4. serial \in Nat
  BY Typed
<1> QED BY <1>1, <1>2, <1>3, <1>4 DEF Keeps, In

LEMMA Local ==
  ASSUME IInv, UNCHANGED rows, UNCHANGED past, TypeOK', NEW c \in Call, Fit(c)',
         \A d \in Call \ {c} : Stays(d)
  PROVE  IInv'
BY RowsSame, Inductive DEF IInv

(* A call ends.                                                            *)
LEMMA Ended ==
  ASSUME TypeOK, NEW c \in Call, Shaped(c), End(c)
  PROVE  /\ call' \in [Call -> CallRow] /\ gameLock' \in Call \cup {None}
         /\ teamLock' \in [Team -> Call \cup {None}]
         /\ At(c, "done")' /\ \A d \in Call \ {c} : Stays(d)
         /\ Fit(c)'
<1>1. /\ call' \in [Call -> CallRow] /\ call'[c] = [call[c] EXCEPT !.pc = "done"]
      /\ \A d \in Call \ {c} : call'[d] = call[d]
  BY Typed DEF End, Goto, CallRow, Phase
<1>2. gameLock' \in Call \cup {None} /\ \A d \in Call \ {c} : gameLock = d => gameLock' = d
  BY Typed DEF End
<1>3. teamLock' \in [Team -> Call \cup {None}]
      /\ \A d \in Call \ {c}, t \in Team : teamLock[t] = d => teamLock'[t] = d
  BY Typed DEF End
<1>4. /\ call'[c].pc = "done" /\ call'[c].op = call[c].op /\ call'[c].name = call[c].name
      /\ call'[c].team = call[c].team /\ call'[c].by = call[c].by
  BY <1>1, Typed DEF CallRow
<1>5. Fit(c)'
  BY <1>4 DEF Fit, Shaped, ShapedRow, Held, Found, Sighted, At
<1> QED BY <1>1, <1>2, <1>3, <1>4, <1>5 DEF Stays, At

LEMMA Refused == ASSUME IInv, NEW c \in Call, Refuse(c) PROVE IInv'
<1>1. End(c) /\ UNCHANGED rows /\ UNCHANGED open /\ UNCHANGED past /\ TypeOK /\ Shaped(c)
  BY DEF Refuse, IInv, Fit
<1>2. TypeOK'
  BY <1>1, Ended DEF TypeOK, rows, past, CallRow
<1> QED BY <1>1, <1>2, Ended, Local

-----------------------------------------------------------------------------
(* Steps that leave the rows alone: a call arrives, takes a lock, reads.   *)

LocksTyped ==
  /\ gameLock \in Call \cup {None}
  /\ teamLock \in [Team -> Call \cup {None}]

Unlocked == {"idle", "leader", "lock", "game", "remove", "members", "delete", "target", "count",
             "heir", "conflict", "add", "done"}

LEMMA Moved ==
  ASSUME IInv, NEW c \in Call, NEW new \in CallRow, call' = [call EXCEPT ![c] = new],
         ShapedRow(new), UNCHANGED <<rows, open, past>>, LocksTyped',
         \A d \in Call \ {c} :
           /\ gameLock = d => gameLock' = d
           /\ \A t \in Team : teamLock[t] = d => teamLock'[t] = d,
         Held(c)', Found(c)', Sighted(c)'
  PROVE  IInv'
<1>1. call \in [Call -> CallRow] /\ TypeOK
  BY Typed DEF IInv
<1>2. call' \in [Call -> CallRow] /\ call'[c] = new /\ \A d \in Call \ {c} : call'[d] = call[d]
  BY <1>1
<1>3. TypeOK'
  BY <1>1, <1>2 DEF TypeOK, CallRow, rows, past, LocksTyped
<1>4. Fit(c)'
  BY <1>2 DEF Fit, Shaped
<1>5. \A d \in Call \ {c} : Stays(d)
  BY <1>2 DEF Stays
<1> QED BY <1>3, <1>4, <1>5, Local

LEMMA LocksOk == ASSUME TypeOK PROVE LocksTyped
BY DEF TypeOK, LocksTyped

(* A phase without a lock and without anything found.                      *)
LEMMA MovedFreely ==
  ASSUME IInv, NEW c \in Call, NEW new \in CallRow, call' = [call EXCEPT ![c] = new],
         ShapedRow(new), new.pc \in Unlocked, UNCHANGED <<rows, open, locks, past>>
  PROVE  IInv'
<1>1. call \in [Call -> CallRow] /\ LocksTyped
  BY Typed, LocksOk DEF IInv
<1>2. call'[c] = new
  BY <1>1
<1>3. Held(c)' /\ Found(c)' /\ Sighted(c)'
  BY <1>2 DEF Held, Found, Sighted, At, Unlocked
<1>4. LocksTyped' /\ UNCHANGED <<gameLock, teamLock>>
  BY <1>1 DEF LocksTyped, locks
<1> QED BY <1>3, <1>4, Moved

LEMMA NoCallTyped == NoCall \in CallRow
BY DEF NoCall, CallRow, Phase, Roster

LEMMA Request1 ==
  ASSUME IInv, NEW c \in Call,
         AskJoin(c) \/ AskCreate(c) \/ AskLeave(c) \/ AskUpdate(c) \/ AskDisband(c) \/ AskTarget(c)
  PROVE  IInv'
<1>0. TypeOK /\ member \in [User -> MemberRow]
      /\ \A u \in User \ Left : member[u].team \in Team
  BY Typed DEF IInv, Left, MemberRow
<1>1. CASE AskJoin(c)
  <2>1. PICK u \in User, t \in Team, p \in Pass :
          Ask(c, [NoCall EXCEPT !.op = "join", !.pc = "lock", !.by = u, !.team = t, !.pass = p])
    BY <1>1 DEF AskJoin, Begin
  <2>2. PICK r : r = [NoCall EXCEPT !.op = "join", !.pc = "lock", !.by = u, !.team = t, !.pass = p]
    OBVIOUS
  <2>3. r \in CallRow /\ ShapedRow(r) /\ r.pc \in Unlocked
    BY <2>2 DEF NoCall, CallRow, Phase, Roster, Operation, ShapedRow, Unlocked
  <2> QED BY <2>1, <2>2, <2>3, MovedFreely DEF Ask
<1>2. CASE AskCreate(c)
  <2>1. PICK u \in User, n \in Name, p \in Pass :
          Ask(c, [NoCall EXCEPT !.op = "create", !.pc = "game", !.by = u, !.name = n, !.pass = p])
    BY <1>2 DEF AskCreate, Begin
  <2>2. PICK r : r = [NoCall EXCEPT !.op = "create", !.pc = "game", !.by = u, !.name = n, !.pass = p]
    OBVIOUS
  <2>3. r \in CallRow /\ ShapedRow(r) /\ r.pc \in Unlocked
    BY <2>2, NoneIsNone DEF NoCall, CallRow, Phase, Roster, Operation, ShapedRow, Unlocked
  <2> QED BY <2>1, <2>2, <2>3, MovedFreely DEF Ask
<1>3. CASE AskLeave(c)
  <2>1. PICK u \in User, t \in Team :
          Ask(c, [NoCall EXCEPT !.op = "leave", !.pc = "remove", !.by = u, !.user = u, !.team = t])
    BY <1>0, <1>3 DEF AskLeave
  <2>2. PICK r : r = [NoCall EXCEPT !.op = "leave", !.pc = "remove", !.by = u, !.user = u, !.team = t]
    OBVIOUS
  <2>3. r \in CallRow /\ ShapedRow(r) /\ r.pc \in Unlocked
    BY <2>2 DEF NoCall, CallRow, Phase, Roster, Operation, ShapedRow, Unlocked
  <2> QED BY <2>1, <2>2, <2>3, MovedFreely DEF Ask
<1>4. CASE AskUpdate(c)
  <2>1. PICK u \in User, n \in Name \cup {None}, p \in Pass \cup {None} :
          Ask(c, [NoCall EXCEPT !.op = "update", !.pc = "leader", !.by = u, !.name = n, !.pass = p])
    BY <1>4 DEF AskUpdate
  <2>2. PICK r : r = [NoCall EXCEPT !.op = "update", !.pc = "leader", !.by = u, !.name = n, !.pass = p]
    OBVIOUS
  <2>3. r \in CallRow /\ ShapedRow(r) /\ r.pc \in Unlocked
    BY <2>2 DEF NoCall, CallRow, Phase, Roster, Operation, ShapedRow, Unlocked
  <2> QED BY <2>1, <2>2, <2>3, MovedFreely DEF Ask
<1>5. CASE AskDisband(c)
  <2>1. PICK u \in User, t \in Team :
          Ask(c, [NoCall EXCEPT !.op = "disband", !.pc = "leader", !.by = u, !.team = t])
    BY <1>0, <1>5 DEF AskDisband
  <2>2. PICK r : r = [NoCall EXCEPT !.op = "disband", !.pc = "leader", !.by = u, !.team = t]
    OBVIOUS
  <2>3. r \in CallRow /\ ShapedRow(r) /\ r.pc \in Unlocked
    BY <2>2 DEF NoCall, CallRow, Phase, Roster, Operation, ShapedRow, Unlocked
  <2> QED BY <2>1, <2>2, <2>3, MovedFreely DEF Ask
<1>6. CASE AskTarget(c)
  <2>1. PICK op \in {"kick", "promote"}, u \in User, v \in User, t \in Team :
          Ask(c, [NoCall EXCEPT !.op = op, !.pc = "leader", !.by = u, !.user = v, !.team = t])
    BY <1>0, <1>6 DEF AskTarget
  <2>2. PICK r : r = [NoCall EXCEPT !.op = op, !.pc = "leader", !.by = u, !.user = v, !.team = t]
    OBVIOUS
  <2>3. r \in CallRow /\ ShapedRow(r) /\ r.pc \in Unlocked
    BY <2>2 DEF NoCall, CallRow, Phase, Roster, Operation, ShapedRow, Unlocked
  <2> QED BY <2>1, <2>2, <2>3, MovedFreely DEF Ask
<1> QED BY <1>1, <1>2, <1>3, <1>4, <1>5, <1>6

LEMMA Request2 ==
  ASSUME IInv, NEW c \in Call,
         AskStart(c) \/ AskAdminCreate(c) \/ AskAdminUpdate(c) \/ AskAdminAdd(c)
           \/ AskAdminRemove(c) \/ AskAdminPromote(c) \/ AskAdminDelete(c)
  PROVE  IInv'
<1>0. TypeOK /\ member \in [User -> MemberRow]
      /\ \A u \in User \ Left : member[u].team \in Team
  BY Typed DEF IInv, Left, MemberRow
<1>1. CASE AskStart(c)
  <2>1. PICK t \in Team : Ask(c, [NoCall EXCEPT !.op = "start", !.pc = "lock", !.team = t])
    BY <1>1 DEF AskStart, Begin
  <2>2. PICK r : r = [NoCall EXCEPT !.op = "start", !.pc = "lock", !.team = t]
    OBVIOUS
  <2>3. r \in CallRow /\ ShapedRow(r) /\ r.pc \in Unlocked
    BY <2>2 DEF NoCall, CallRow, Phase, Roster, Operation, ShapedRow, Unlocked
  <2> QED BY <2>1, <2>2, <2>3, MovedFreely DEF Ask
<1>2. CASE AskAdminCreate(c)
  <2>1. PICK u \in User, n \in Name, p \in Pass :
          Ask(c, [NoCall EXCEPT !.op = "admin_create", !.pc = "conflict", !.by = u, !.name = n, !.pass = p])
    BY <1>2 DEF AskAdminCreate, Begin
  <2>2. PICK r : r = [NoCall EXCEPT !.op = "admin_create", !.pc = "conflict", !.by = u, !.name = n, !.pass = p]
    OBVIOUS
  <2>3. r \in CallRow /\ ShapedRow(r) /\ r.pc \in Unlocked
    BY <2>2, NoneIsNone DEF NoCall, CallRow, Phase, Roster, Operation, ShapedRow, Unlocked
  <2> QED BY <2>1, <2>2, <2>3, MovedFreely DEF Ask
<1>3. CASE AskAdminUpdate(c)
  <2>1. PICK t \in Team, n \in Name \cup {None}, f \in {"keep", "ban", "lock"} :
          Ask(c, [NoCall EXCEPT !.op = "admin_update", !.pc = "lock", !.team = t, !.name = n, !.flag = f])
    BY <1>3 DEF AskAdminUpdate, Begin
  <2>2. PICK r : r = [NoCall EXCEPT !.op = "admin_update", !.pc = "lock", !.team = t, !.name = n, !.flag = f]
    OBVIOUS
  <2>3. r \in CallRow /\ ShapedRow(r) /\ r.pc \in Unlocked
    BY <2>2 DEF NoCall, CallRow, Phase, Roster, Operation, ShapedRow, Unlocked
  <2> QED BY <2>1, <2>2, <2>3, MovedFreely DEF Ask
<1>4. CASE AskAdminAdd(c)
  <2>1. PICK u \in User, t \in Team :
          Ask(c, [NoCall EXCEPT !.op = "admin_add", !.pc = "add", !.by = u, !.team = t])
    BY <1>4 DEF AskAdminAdd, Begin
  <2>2. PICK r : r = [NoCall EXCEPT !.op = "admin_add", !.pc = "add", !.by = u, !.team = t]
    OBVIOUS
  <2>3. r \in CallRow /\ ShapedRow(r) /\ r.pc \in Unlocked
    BY <2>2 DEF NoCall, CallRow, Phase, Roster, Operation, ShapedRow, Unlocked
  <2> QED BY <2>1, <2>2, <2>3, MovedFreely DEF Ask
<1>5. CASE AskAdminRemove(c)
  <2>1. PICK u \in User, t \in Team :
          Ask(c, [NoCall EXCEPT !.op = "admin_remove", !.pc = "count", !.user = u, !.team = t])
    BY <1>0, <1>5 DEF AskAdminRemove, Begin
  <2>2. PICK r : r = [NoCall EXCEPT !.op = "admin_remove", !.pc = "count", !.user = u, !.team = t]
    OBVIOUS
  <2>3. r \in CallRow /\ ShapedRow(r) /\ r.pc \in Unlocked
    BY <2>2 DEF NoCall, CallRow, Phase, Roster, Operation, ShapedRow, Unlocked
  <2> QED BY <2>1, <2>2, <2>3, MovedFreely DEF Ask
<1>6. CASE AskAdminPromote(c)
  <2>1. PICK u \in User, t \in Team :
          Ask(c, [NoCall EXCEPT !.op = "admin_promote", !.pc = "target", !.user = u, !.team = t])
    BY <1>0, <1>6 DEF AskAdminPromote
  <2>2. PICK r : r = [NoCall EXCEPT !.op = "admin_promote", !.pc = "target", !.user = u, !.team = t]
    OBVIOUS
  <2>3. r \in CallRow /\ ShapedRow(r) /\ r.pc \in Unlocked
    BY <2>2 DEF NoCall, CallRow, Phase, Roster, Operation, ShapedRow, Unlocked
  <2> QED BY <2>1, <2>2, <2>3, MovedFreely DEF Ask
<1>7. CASE AskAdminDelete(c)
  <2>1. PICK t \in Team :
          Ask(c, [NoCall EXCEPT !.op = "admin_delete", !.pc = "members", !.team = t])
    BY <1>7 DEF AskAdminDelete, Begin
  <2>2. PICK r : r = [NoCall EXCEPT !.op = "admin_delete", !.pc = "members", !.team = t]
    OBVIOUS
  <2>3. r \in CallRow /\ ShapedRow(r) /\ r.pc \in Unlocked
    BY <2>2 DEF NoCall, CallRow, Phase, Roster, Operation, ShapedRow, Unlocked
  <2> QED BY <2>1, <2>2, <2>3, MovedFreely DEF Ask
<1> QED BY <1>1, <1>2, <1>3, <1>4, <1>5, <1>6, <1>7

LEMMA RequestKeeps == ASSUME IInv, NEW c \in Call, Request(c) PROVE IInv'
BY Request1, Request2 DEF Request

LEMMA Went ==
  ASSUME TypeOK, NEW c \in Call, NEW s \in Phase, Goto(c, s)
  PROVE  \E new \in CallRow :
           /\ call' = [call EXCEPT ![c] = new] /\ call'[c] = new
           /\ new.pc = s /\ new.op = call[c].op /\ new.by = call[c].by /\ new.user = call[c].user
           /\ new.team = call[c].team /\ new.name = call[c].name /\ new.pass = call[c].pass
           /\ new.seen = call[c].seen
<1> DEFINE new == [call[c] EXCEPT !.pc = s]
<1>1. call \in [Call -> CallRow] /\ call[c] \in CallRow
  BY Typed
<1>2. call' = [call EXCEPT ![c] = new]
  BY <1>1 DEF Goto
<1>3. /\ new \in CallRow /\ new.pc = s /\ new.op = call[c].op /\ new.by = call[c].by
      /\ new.user = call[c].user /\ new.team = call[c].team /\ new.name = call[c].name
      /\ new.pass = call[c].pass /\ new.seen = call[c].seen
  BY <1>1 DEF CallRow
<1> HIDE DEF new
<1> QED BY <1>1, <1>2, <1>3

LEMMA FreeKeeps ==
  ASSUME IInv, NEW c \in Call,
         Leader(c) \/ DisbandRead(c) \/ AdminConflict(c) \/ AdminCount(c) \/ AdminDeleteRead(c)
  PROVE  IInv'
<1>0. TypeOK /\ ShapedRow(call[c]) /\ call[c] \in CallRow
  BY Typed DEF IInv, Fit, Shaped
<1>1. CASE Refuse(c)
  BY <1>1, Refused
<1>2. ASSUME NEW s \in {"game", "members", "remove", "target", "delete", "heir", "add"}, Goto(c, s),
             UNCHANGED <<rows, open, locks, past>>,
             s = "game" => call[c].op \in {"create", "update"},
             s = "target" => call[c].op \in {"promote", "admin_promote"},
             s = "heir" => call[c].op = "admin_remove",
             s \notin {"game", "add"} => call[c].team \in Team
      PROVE  IInv'
  <2>1. s \in Phase /\ s \in Unlocked
    BY DEF Phase, Unlocked
  <2>2. PICK new \in CallRow :
           /\ call' = [call EXCEPT ![c] = new] /\ call'[c] = new
           /\ new.pc = s /\ new.op = call[c].op /\ new.by = call[c].by /\ new.user = call[c].user
           /\ new.team = call[c].team /\ new.name = call[c].name /\ new.pass = call[c].pass
           /\ new.seen = call[c].seen
    BY <1>0, <1>2, <2>1, Went
  <2>3. ShapedRow(new)
    BY <1>0, <1>2, <2>2 DEF ShapedRow
  <2> QED BY <1>2, <2>1, <2>2, <2>3, MovedFreely
<1>3. CASE Leader(c) /\ ~Refuse(c)
  <2>1. PICK s : s = CASE call[c].op = "update"  -> "game"
                       [] call[c].op = "disband" -> "members"
                       [] call[c].op = "kick"    -> "remove"
                       [] call[c].op = "promote" -> "target"
    OBVIOUS
  <2>2. Goto(c, s) /\ UNCHANGED <<rows, open, locks, past>> /\ call[c].pc = "leader"
    BY <1>3, <2>1 DEF Leader, At
  <2>3. call[c].op \in {"update", "disband", "kick", "promote"}
        /\ (call[c].op # "update" => call[c].team \in Team)
    BY <1>0, <2>2 DEF ShapedRow
  <2>4. CASE call[c].op = "update"
    BY <1>2, <2>1, <2>2, <2>4
  <2>5. CASE call[c].op = "disband"
    BY <1>2, <2>1, <2>2, <2>3, <2>5
  <2>6. CASE call[c].op = "kick"
    BY <1>2, <2>1, <2>2, <2>3, <2>6
  <2>7. CASE call[c].op = "promote"
    BY <1>2, <2>1, <2>2, <2>3, <2>7
  <2> QED BY <2>3, <2>4, <2>5, <2>6, <2>7
<1>4. CASE DisbandRead(c) /\ ~Refuse(c)
  BY <1>0, <1>2, <1>4 DEF DisbandRead, At, ShapedRow
<1>5. CASE AdminConflict(c) /\ ~Refuse(c)
  BY <1>0, <1>2, <1>5 DEF AdminConflict, At, ShapedRow
<1>6. CASE AdminCount(c) /\ ~Refuse(c)
  <2>1. call[c].op = "admin_remove"
    BY <1>0, <1>6 DEF AdminCount, At, ShapedRow
  <2> QED BY <1>0, <1>2, <1>6, <2>1 DEF AdminCount, At, ShapedRow
<1>7. CASE AdminDeleteRead(c) /\ ~Refuse(c)
  BY <1>0, <1>2, <1>7 DEF AdminDeleteRead, At, ShapedRow
<1> QED BY <1>1, <1>3, <1>4, <1>5, <1>6, <1>7

(* A team is locked by a call that found it there.                         *)
LEMMA TeamLocked ==
  ASSUME IInv, NEW c \in Call, NEW s \in {"limit", "save", "log"}, Goto(c, s),
         call[c].team \in Team, teamLock[call[c].team] = None, Live(call[c].team),
         teamLock' = [teamLock EXCEPT ![call[c].team] = c], UNCHANGED <<rows, open, gameLock, past>>,
         s = "limit" => /\ call[c].op = "join" /\ ~team[call[c].team].banned
                        /\ team[call[c].team].pass = call[c].pass,
         s = "log" => call[c].op \in {"disband", "start", "admin_update"},
         s = "save" =>
           /\ call[c].op = "update" /\ gameLock = c
           /\ call[c].name # None =>
                /\ ~team[call[c].team].locked
                /\ call[c].name = team[call[c].team].name \/ Vacant(call[c].name, {call[c].team})
  PROVE  IInv'
<1>0. TypeOK /\ ShapedRow(call[c]) /\ gameLock \in Call \cup {None}
      /\ teamLock \in [Team -> Call \cup {None}] /\ s \in Phase
  BY Typed DEF IInv, Fit, Shaped, Phase
<1>1. PICK new \in CallRow :
           /\ call' = [call EXCEPT ![c] = new] /\ call'[c] = new
           /\ new.pc = s /\ new.op = call[c].op /\ new.by = call[c].by /\ new.user = call[c].user
           /\ new.team = call[c].team /\ new.name = call[c].name /\ new.pass = call[c].pass
           /\ new.seen = call[c].seen
  BY <1>0, Went
<1>2. ShapedRow(new)
  BY <1>0, <1>1 DEF ShapedRow
<1>3. team' = team /\ byStaff' = byStaff /\ gameLock' = gameLock
  BY DEF rows, past
<1>4. LocksTyped'
  BY <1>0, <1>3 DEF LocksTyped
<1>5. \A d \in Call \ {c}, t \in Team : teamLock[t] = d => teamLock'[t] = d
  BY <1>0, NoneIsNone
<1>6. Held(c)'
  BY <1>0, <1>1, <1>3 DEF Held
<1>7. Found(c)' /\ Sighted(c)'
  BY <1>1, <1>3 DEF Found, Sighted, At, Live, Vacant
<1> QED BY <1>1, <1>2, <1>3, <1>4, <1>5, <1>6, <1>7, Moved

LEMMA LockKeeps ==
  ASSUME IInv, NEW c \in Call,
         JoinLock(c) \/ UpdateRow(c) \/ DisbandDelete(c) \/ StartLock(c) \/ AdminLock(c)
  PROVE  IInv'
<1>0. TypeOK /\ ShapedRow(call[c]) /\ Held(c)
  BY DEF IInv, Fit, Shaped
<1>1. CASE Refuse(c)
  BY <1>1, Refused
<1>2. CASE JoinLock(c) /\ ~Refuse(c)
  <2>1. call[c].team \in Team
    BY <1>0, <1>2 DEF JoinLock, At, ShapedRow
  <2> QED BY <1>2, <2>1, TeamLocked DEF JoinLock
<1>3. CASE UpdateRow(c) /\ ~Refuse(c)
  <2>1. call[c].team \in Team /\ call[c].op = "update" /\ gameLock = c
    BY <1>0, <1>3 DEF UpdateRow, At, ShapedRow, Held
  <2>2. /\ Live(call[c].team) /\ teamLock[call[c].team] = None /\ Goto(c, "save")
        /\ teamLock' = [teamLock EXCEPT ![call[c].team] = c] /\ UNCHANGED <<rows, open, gameLock, past>>
        /\ call[c].name # None =>
             /\ ~team[call[c].team].locked
             /\ call[c].name = team[call[c].team].name \/ AllowDuplicates
                  \/ ~Duplicate(call[c].name, call[c].team)
    BY <1>3 DEF UpdateRow
  <2>3. ~Duplicate(call[c].name, call[c].team) => Vacant(call[c].name, {call[c].team})
    BY DEF Duplicate, Vacant
  <2>4. AllowDuplicates => Vacant(call[c].name, {call[c].team})
    BY DEF Vacant
  <2> QED BY <2>1, <2>2, <2>3, <2>4, TeamLocked
<1>4. CASE DisbandDelete(c) /\ ~Refuse(c)
  <2>1. call[c].team \in Team
    BY <1>0, <1>4 DEF DisbandDelete, At, ShapedRow
  <2> QED BY <1>4, <2>1, TeamLocked DEF DisbandDelete
<1>5. CASE StartLock(c) /\ ~Refuse(c)
  <2>1. call[c].team \in Team
    BY <1>0, <1>5 DEF StartLock, At, ShapedRow
  <2> QED BY <1>5, <2>1, TeamLocked DEF StartLock
<1>6. CASE AdminLock(c) /\ ~Refuse(c)
  <2>1. call[c].team \in Team
    BY <1>0, <1>6 DEF AdminLock, At, ShapedRow
  <2> QED BY <1>6, <2>1, TeamLocked DEF AdminLock
<1> QED BY <1>1, <1>2, <1>3, <1>4, <1>5, <1>6

(* A place is left for the one who joins, and the name for the new team.   *)
LEMMA ReadKeeps ==
  ASSUME IInv, NEW c \in Call, JoinLimit(c) \/ CreateNames(c) \/ LockGame(c)
  PROVE  IInv'
<1>0. TypeOK /\ ShapedRow(call[c]) /\ Held(c) /\ Found(c) /\ LocksTyped
  BY LocksOk DEF IInv, Fit, Shaped
<1>1. CASE Refuse(c)
  BY <1>1, Refused
<1>2. CASE JoinLimit(c) /\ ~Refuse(c)
  <2>1. /\ call[c].pc = "limit" /\ Cardinality(In(call[c].team)) < MaxMembers
        /\ Goto(c, "insert") /\ UNCHANGED <<rows, open, locks, past>>
    BY <1>2 DEF JoinLimit, At
  <2>2. PICK new \in CallRow :
           /\ call' = [call EXCEPT ![c] = new] /\ call'[c] = new
           /\ new.pc = "insert" /\ new.op = call[c].op /\ new.by = call[c].by
           /\ new.user = call[c].user /\ new.team = call[c].team /\ new.name = call[c].name
           /\ new.pass = call[c].pass /\ new.seen = call[c].seen
    BY <1>0, <2>1, Went DEF Phase
  <2>3. ShapedRow(new)
    BY <1>0, <2>1, <2>2 DEF ShapedRow
  <2>4. LocksTyped' /\ Held(c)' /\ UNCHANGED <<gameLock, teamLock>>
    BY <1>0, <2>1, <2>2 DEF LocksTyped, Held, locks
  <2>5. Found(c)' /\ Sighted(c)'
    BY <1>0, <2>1, <2>2 DEF Found, Sighted, At, Live, In, rows, past
  <2> QED BY <2>1, <2>2, <2>3, <2>4, <2>5, Moved
<1>3. CASE CreateNames(c) /\ ~Refuse(c)
  <2>1. /\ call[c].pc = "names" /\ (AllowDuplicates \/ ~Duplicate(call[c].name, None))
        /\ Goto(c, "write") /\ UNCHANGED <<rows, open, locks, past>>
    BY <1>3 DEF CreateNames, At
  <2>2. PICK new \in CallRow :
           /\ call' = [call EXCEPT ![c] = new] /\ call'[c] = new
           /\ new.pc = "write" /\ new.op = call[c].op /\ new.by = call[c].by
           /\ new.user = call[c].user /\ new.team = call[c].team /\ new.name = call[c].name
           /\ new.pass = call[c].pass /\ new.seen = call[c].seen
    BY <1>0, <2>1, Went DEF Phase
  <2>3. ShapedRow(new)
    BY <1>0, <2>1, <2>2 DEF ShapedRow
  <2>4. LocksTyped' /\ Held(c)' /\ UNCHANGED <<gameLock, teamLock>>
    BY <1>0, <2>1, <2>2 DEF LocksTyped, Held, locks
  <2>5. Vacant(call[c].name, {})
    BY <2>1, NoneIsNone DEF Vacant, Duplicate
  <2>6. Found(c)' /\ Sighted(c)'
    BY <1>0, <2>1, <2>2, <2>5 DEF Found, Sighted, At, Live, Vacant, rows, past
  <2> QED BY <2>1, <2>2, <2>3, <2>4, <2>6, Moved
<1>4. CASE LockGame(c) /\ ~Refuse(c)
  <2>1. PICK s \in {"names", "find"} :
          /\ Goto(c, s) /\ (call[c].op = "create" <=> s = "names")
    BY <1>4 DEF LockGame
  <2>2. /\ call[c].pc = "game" /\ gameLock = None /\ gameLock' = c
        /\ UNCHANGED <<rows, open, teamLock, past>>
    BY <1>4 DEF LockGame, At
  <2>3. PICK new \in CallRow :
           /\ call' = [call EXCEPT ![c] = new] /\ call'[c] = new
           /\ new.pc = s /\ new.op = call[c].op /\ new.by = call[c].by
           /\ new.user = call[c].user /\ new.team = call[c].team /\ new.name = call[c].name
           /\ new.pass = call[c].pass /\ new.seen = call[c].seen
    BY <1>0, <2>1, Went DEF Phase
  <2>4. ShapedRow(new)
    BY <1>0, <2>1, <2>2, <2>3 DEF ShapedRow
  <2>5. LocksTyped' /\ Held(c)' /\ \A d \in Call \ {c} : gameLock # d
    BY <1>0, <2>1, <2>2, <2>3, NoneIsNone DEF LocksTyped, Held
  <2>6. Found(c)' /\ Sighted(c)'
    BY <2>1, <2>3 DEF Found, Sighted, At
  <2> QED BY <2>2, <2>3, <2>4, <2>5, <2>6, Moved
<1> QED BY <1>1, <1>2, <1>3, <1>4

LEMMA FindKeeps == ASSUME IInv, NEW c \in Call, UpdateFind(c) PROVE IInv'
<1>0. TypeOK /\ ShapedRow(call[c]) /\ Held(c) /\ LocksTyped /\ Rowed
  BY LocksOk DEF IInv, Fit, Shaped, Rows
<1>1. CASE Refuse(c)
  BY <1>1, Refused
<1>2. CASE ~Refuse(c)
  <2>1. /\ call[c].pc = "find" /\ UNCHANGED <<rows, open, locks, past>>
        /\ member[call[c].by].captain
        /\ call' = [call EXCEPT ![c].pc = "row", ![c].team = member[call[c].by].team]
    BY <1>2 DEF UpdateFind, At
  <2>2. PICK t \in Team : t = member[call[c].by].team
    <3>1. call[c].by \in User
      BY <1>0, <2>1 DEF ShapedRow
    <3> QED BY <1>0, <2>1, <3>1, Typed DEF Rowed, MemberRow
  <2>3. PICK new : new = [call[c] EXCEPT !.pc = "row", !.team = t]
    OBVIOUS
  <2>4. call \in [Call -> CallRow] /\ call[c] \in CallRow
    BY <1>0, Typed
  <2>5. call' = [call EXCEPT ![c] = new]
    BY <2>1, <2>2, <2>3, <2>4
  <2>6. new \in CallRow /\ new.pc = "row" /\ new.op = call[c].op /\ new.team = t
        /\ new.by = call[c].by /\ new.name = call[c].name
    BY <2>3, <2>4 DEF CallRow, Phase
  <2>7. ShapedRow(new)
    BY <1>0, <2>1, <2>6 DEF ShapedRow
  <2>8. call'[c] = new
    BY <2>4, <2>5
  <2>9. LocksTyped' /\ Held(c)' /\ UNCHANGED <<gameLock, teamLock>>
    BY <1>0, <2>1, <2>6, <2>8 DEF LocksTyped, Held, locks
  <2>10. Found(c)' /\ Sighted(c)'
    BY <2>6, <2>8 DEF Found, Sighted, At
  <2> QED BY <2>1, <2>5, <2>6, <2>7, <2>9, <2>10, Moved
<1> QED BY <1>1, <1>2

(* A promotion sees the members of its snapshot.                           *)
LEMMA TargetKeeps == ASSUME IInv, NEW c \in Call, PromoteTarget(c) PROVE IInv'
<1>0. TypeOK /\ ShapedRow(call[c]) /\ LocksTyped /\ Rowed
  BY LocksOk DEF IInv, Fit, Shaped, Rows
<1>1. CASE Refuse(c)
  BY <1>1, Refused
<1>2. CASE ~Refuse(c)
  <2>1. PICK t : t = call[c].team
    OBVIOUS
  <2>2. /\ call[c].pc = "target" /\ UNCHANGED <<rows, open, locks, past>>
        /\ call' = [call EXCEPT ![c].pc = "captain", ![c].seen = RosterOf(t)]
    BY <1>2, <2>1 DEF PromoteTarget, At
  <2>3. PICK seen : seen = RosterOf(t)
    OBVIOUS
  <2>4. PICK new : new = [call[c] EXCEPT !.pc = "captain", !.seen = seen]
    OBVIOUS
  <2>5. call \in [Call -> CallRow] /\ call[c] \in CallRow
    BY <1>0, Typed
  <2>6. call' = [call EXCEPT ![c] = new]
    BY <2>2, <2>3, <2>4, <2>5
  <2>7. seen \in Roster /\ t \in Team /\ t # None
    <3>1. \A u \in In(t) : u \in User /\ member[u].row \in Nat
      BY <1>0, Typed DEF In, MemberRow
    <3> QED BY <1>0, <2>1, <2>2, <2>3, <3>1, NoneIsNone DEF Roster, RosterOf, ShapedRow
  <2>8. new \in CallRow /\ new.pc = "captain" /\ new.op = call[c].op /\ new.team = t
        /\ new.by = call[c].by /\ new.name = call[c].name /\ new.seen = seen
    BY <2>1, <2>4, <2>5, <2>7 DEF CallRow, Phase
  <2>9. ShapedRow(new)
    BY <1>0, <2>2, <2>7, <2>8 DEF ShapedRow
  <2>10. call'[c] = new
    BY <2>5, <2>6
  <2>11. LocksTyped' /\ Held(c)' /\ Found(c)' /\ UNCHANGED <<gameLock, teamLock>>
    BY <1>0, <2>2, <2>8, <2>10 DEF LocksTyped, Held, Found, At, locks
  <2>12. Sighted(c)'
    <3>1. member' = member /\ serial' = serial /\ raced' = raced
      BY <2>2 DEF rows, past
    <3>2. \A u \in In(t) : <<u, member[u].row>> \in seen
      BY <2>3, RosterHas
    <3>3. \A u \in User, r \in Nat : <<u, r>> \in seen =>
            r # 0 /\ r <= serial /\ (member[u].row = r => member[u].team = t)
      BY <1>0, <2>3, <2>7, RosterHas DEF Rowed, In
    <3> QED BY <2>8, <2>10, <3>1, <3>2, <3>3 DEF Sighted, In, At
  <2> QED BY <2>2, <2>6, <2>8, <2>9, <2>11, <2>12, Moved
<1> QED BY <1>1, <1>2

-----------------------------------------------------------------------------
(* Steps that write the rows.                                              *)

(* A user without a team becomes a member of one that is there.            *)
LEMMA Entered ==
  ASSUME TypeOK, Rowed, OneCap, NEW u \in User, member[u].team = None, NEW t \in Team,
         NEW captain \in BOOLEAN, Enter(u, t, captain),
         Live(t)', \A s \in Team : Live(s) => Live(s)',
         captain => In(t) = {}
  PROVE  /\ member' \in [User -> MemberRow] /\ serial' \in Nat /\ serial <= serial'
         /\ raced \subseteq raced' /\ raced' \subseteq Team
         /\ Rowed' /\ OneCap'
         /\ \A s \in Team \ {t} : In(s)' = In(s)
         /\ \A d \in Call, v \in User : MemberKept(v, d)
<1>0. /\ member \in [User -> MemberRow] /\ serial \in Nat /\ raced \subseteq Team /\ t # None
      /\ \A v \in User : member[v].row \in Nat
  BY Typed, NoneIsNone DEF TypeOK, MemberRow
<1>1. PICK new : new = [team |-> t, captain |-> captain, row |-> serial + 1]
  OBVIOUS
<1>2. new \in MemberRow /\ new.team = t /\ new.captain = captain /\ new.row = serial + 1
  BY <1>0, <1>1 DEF MemberRow
<1>3. /\ member' \in [User -> MemberRow] /\ serial' = serial + 1
      /\ \A v \in User : member'[v] = IF v = u THEN new ELSE member[v]
  BY <1>0, <1>1, <1>2 DEF Enter
<1>4. /\ raced \subseteq raced' /\ raced' \subseteq Team
      /\ \A d \in Call : At(d, "captain") /\ call[d].team = t => t \in raced'
  BY <1>0 DEF Enter
<1>5. Rowed'
  <2>1. ASSUME NEW v \in User
        PROVE  /\ member'[v].team # None => team'[member'[v].team].status = "live"
               /\ member'[v].team # None <=> member'[v].row # 0
               /\ member'[v].row <= serial'
               /\ member'[v].captain => member'[v].team # None
    <3>1. CASE v = u
      <4>1. new.row # 0 /\ new.row <= serial'
        BY <1>0, <1>2, <1>3
      <4>2. team'[t].status = "live"
        BY DEF Live
      <4> QED BY <1>0, <1>2, <1>3, <3>1, <4>1, <4>2
    <3>2. CASE v # u
      <4>1. /\ member[v].team # None => Live(member[v].team)
            /\ member[v].team # None <=> member[v].row # 0
            /\ member[v].row <= serial
            /\ member[v].captain => member[v].team # None
        BY <1>0 DEF Rowed
      <4>2. member[v].team # None => member[v].team \in Team
        BY <1>0 DEF MemberRow
      <4>3. member[v].team # None => team'[member[v].team].status = "live"
        BY <4>1, <4>2 DEF Live
      <4>4. member[v].row <= serial'
        BY <1>0, <1>3, <4>1
      <4> QED BY <1>3, <3>2, <4>1, <4>3, <4>4
    <3> QED BY <3>1, <3>2
  <2>2. ASSUME NEW v \in User, NEW w \in User, v # w, member'[v].row = member'[w].row
        PROVE  member'[v].team = None
    <3>1. CASE v = u
      <4>1. member[w].row <= serial /\ member'[w] = member[w] /\ member[w].row \in Nat
        BY <1>0, <1>3, <2>2, <3>1 DEF Rowed
      <4> QED BY <1>0, <1>2, <1>3, <2>2, <3>1, <4>1
    <3>2. CASE w = u
      <4>1. member[v].row <= serial /\ member'[v] = member[v] /\ member[v].row \in Nat
        BY <1>0, <1>3, <2>2, <3>2 DEF Rowed
      <4> QED BY <1>0, <1>2, <1>3, <2>2, <3>2, <4>1
    <3>3. CASE v # u /\ w # u
      <4>1. member'[v] = member[v] /\ member'[w] = member[w]
        BY <1>3, <2>2, <3>3
      <4> QED BY <2>2, <4>1 DEF Rowed
    <3> QED BY <3>1, <3>2, <3>3
  <2> QED BY <2>1, <2>2 DEF Rowed, Live
<1>6. \A s \in Team \ {t} : In(s)' = In(s)
  BY <1>2, <1>3, NoneIsNone DEF In
<1>7. OneCap'
  <2>1. SUFFICES ASSUME NEW s \in Team \ raced', NEW v \in Captains(s)', NEW w \in Captains(s)'
                 PROVE  v = w
    BY DEF OneCap
  <2>2. v \in User /\ w \in User /\ v \in In(s)' /\ w \in In(s)' /\ member'[v].captain /\ member'[w].captain
    BY DEF Captains, In
  <2>3. s \notin raced
    BY <1>4
  <2>4. CASE s # t
    <3>1. v \in In(s) /\ w \in In(s)
      BY <1>6, <2>1, <2>2, <2>4
    <3>2. v # u /\ w # u
      BY <3>1, NoneIsNone DEF In
    <3> QED BY <1>3, <2>1, <2>2, <2>3, <3>1, <3>2 DEF OneCap, Captains
  <2>5. CASE s = t /\ captain
    <3>1. \A x \in User : x \in In(t)' => x = u
      BY <1>3, <2>5 DEF In
    <3> QED BY <2>2, <2>5, <3>1
  <2>6. CASE s = t /\ ~captain
    <3>1. v # u /\ w # u
      BY <1>2, <1>3, <2>2, <2>6
    <3>2. v \in Captains(s) /\ w \in Captains(s)
      BY <1>3, <2>2, <3>1 DEF Captains, In
    <3> QED BY <2>1, <2>3, <3>2 DEF OneCap
  <2> QED BY <2>4, <2>5, <2>6
<1>8. ASSUME NEW d \in Call, NEW v \in User PROVE MemberKept(v, d)
  BY <1>0, <1>2, <1>3, <1>4 DEF MemberKept
<1> QED BY <1>0, <1>3, <1>4, <1>5, <1>6, <1>7, <1>8

LEMMA NamesSame ==
  ASSUME UNCHANGED team, byStaff \subseteq byStaff'
  PROVE  NamesKept /\ (NamesUnique => NamesUnique')
BY DEF NamesKept, NamesUnique, Live

(* A member is added to a team that is there.                              *)
LEMMA AddKeeps == ASSUME IInv, NEW c \in Call, JoinInsert(c) \/ AdminAdd(c) PROVE IInv'
<1>0. TypeOK /\ Shaped(c) /\ Rowed /\ OneCap /\ NamesUnique
  BY DEF IInv, Fit, Rows
<1>1. CASE Refuse(c)
  BY <1>1, Refused
<1>2. CASE ~Refuse(c)
  <2>1. PICK t, u : t = call[c].team /\ u = call[c].by
    OBVIOUS
  <2>2. /\ u \in User /\ member[u].team = None /\ t \in Team /\ Live(t)
        /\ \A d \in Call \ {c} : teamLock[t] # d
        /\ Enter(u, t, FALSE) /\ End(c) /\ UNCHANGED <<team, open, byStaff>>
    <3>1. CASE JoinInsert(c)
      BY <1>0, <1>2, <2>1, <3>1 DEF JoinInsert, IInv, Fit, Shaped, ShapedRow, Held, Found, At, Left
    <3>2. CASE AdminAdd(c)
      BY <1>0, <1>2, <2>1, <3>2, NoneIsNone DEF AdminAdd, Shaped, ShapedRow, At, Left, TeamFree
    <3> QED BY <3>1, <3>2
  <2>3. /\ member' \in [User -> MemberRow] /\ serial' \in Nat /\ serial <= serial'
        /\ raced \subseteq raced' /\ raced' \subseteq Team
        /\ Rowed' /\ OneCap'
        /\ \A s \in Team \ {t} : In(s)' = In(s)
        /\ \A d \in Call, v \in User : MemberKept(v, d)
    BY <1>0, <2>2, Entered DEF Live
  <2>4. NamesKept /\ NamesUnique'
    BY <1>0, <2>2, NamesSame
  <2>5. Rows'
    BY <2>3, <2>4 DEF Rows
  <2>6. TypeOK'
    BY <1>0, <2>2, <2>3, Ended DEF TypeOK, CallRow, MemberRow
  <2>7. ASSUME NEW d \in Call \ {c} PROVE Keeps(d)
    BY <1>0, <2>2, <2>3, <2>4, <2>7, Ended DEF Keeps
  <2> QED BY <1>0, <2>2, <2>5, <2>6, <2>7, Ended, Inductive
<1> QED BY <1>1, <1>2

(* A team comes into being with its captain.                               *)
LEMMA TeamMade ==
  ASSUME IInv, NEW c \in Call, End(c), UNCHANGED open,
         NEW u \in User, member[u].team = None, NEW t \in Team, team[t].status = "new",
         NEW n \in Name, NEW p \in Pass \cup {None},
         team' = [team EXCEPT ![t] = [Blank EXCEPT !.status = "live", !.name = n, !.pass = p]],
         Enter(u, t, TRUE), byStaff \subseteq byStaff', byStaff' \subseteq Team,
         \/ gameLock = c /\ Vacant(n, {})
         \/ t \in byStaff'
  PROVE  IInv'
<1>0. TypeOK /\ Shaped(c) /\ Rowed /\ OneCap /\ NamesUnique /\ team \in [Team -> TeamRow]
  BY Typed DEF IInv, Fit, Rows
<1>1. PICK row : row = [Blank EXCEPT !.status = "live", !.name = n, !.pass = p]
  OBVIOUS
<1>2. row \in TeamRow /\ row.status = "live" /\ row.name = n
  BY <1>1 DEF TeamRow, Blank
<1>3. /\ team' \in [Team -> TeamRow] /\ team'[t] = row
      /\ \A s \in Team \ {t} : team'[s] = team[s]
  BY <1>0, <1>1, <1>2
<1>4. Live(t)' /\ ~Live(t) /\ \A s \in Team \ {t} : Live(s)' <=> Live(s)
  BY <1>2, <1>3 DEF Live
<1>5. In(t) = {}
  BY <1>4, NoneIsNone, <1>0 DEF In, Rowed
<1>6. /\ member' \in [User -> MemberRow] /\ serial' \in Nat /\ serial <= serial'
      /\ raced \subseteq raced' /\ raced' \subseteq Team
      /\ Rowed' /\ OneCap'
      /\ \A s \in Team \ {t} : In(s)' = In(s)
      /\ \A d \in Call, v \in User : MemberKept(v, d)
  BY <1>0, <1>4, <1>5, Entered
<1>7. NamesUnique'
  <2> SUFFICES ASSUME NEW r \in Team, NEW s \in Team, r # s, Live(r)', Live(s)',
                      team'[r].name = team'[s].name, ~AllowDuplicates
               PROVE  r \in byStaff' \/ s \in byStaff'
    BY DEF NamesUnique
  <2>1. CASE r # t /\ s # t
    BY <1>0, <1>3, <1>4, <2>1 DEF NamesUnique
  <2>2. CASE r = t
    BY <1>2, <1>3, <1>4, <2>2 DEF Vacant
  <2>3. CASE s = t
    BY <1>2, <1>3, <1>4, <2>3 DEF Vacant
  <2> QED BY <2>1, <2>2, <2>3
<1>8. TypeOK'
  BY <1>0, <1>3, <1>6, Ended DEF TypeOK, CallRow, MemberRow, TeamRow
<1>9. ASSUME NEW d \in Call \ {c} PROVE Keeps(d)
  <2>1. gameLock = d => NamesKept
    <3>1. gameLock = d => t \in byStaff'
      BY <1>9
    <3> QED BY <1>3, <1>4, <3>1 DEF NamesKept
  <2> QED BY <1>0, <1>3, <1>4, <1>6, <2>1, Ended DEF Keeps
<1>10. Rows'
  BY <1>6, <1>7 DEF Rows
<1> QED BY <1>0, <1>8, <1>9, <1>10, Ended, Inductive

LEMMA CreateKeeps == ASSUME IInv, NEW c \in Call, CreateWrite(c) \/ AdminInsert(c) PROVE IInv'
<1>0. TypeOK /\ Shaped(c) /\ call[c] \in CallRow
  BY Typed DEF IInv, Fit
<1>1. CASE Refuse(c)
  BY <1>1, Refused
<1>2. CASE CreateWrite(c) /\ ~Refuse(c)
  <2>1. PICK u \in User, n \in Name, p \in Pass \cup {None} :
          u = call[c].by /\ n = call[c].name /\ p = call[c].pass /\ member[u].team = None
    BY <1>0, <1>2 DEF CreateWrite, At, Shaped, ShapedRow, CallRow, Left
  <2>2. PICK t \in Team :
          /\ team[t].status = "new"
          /\ team' = [team EXCEPT ![t] = [Blank EXCEPT !.status = "live", !.name = n, !.pass = p]]
          /\ Enter(u, t, TRUE)
    BY <1>2, <2>1 DEF CreateWrite
  <2>3. gameLock = c /\ Vacant(n, {})
    BY <1>2, <2>1 DEF CreateWrite, IInv, Fit, Held, Found, At
  <2>4. End(c) /\ UNCHANGED <<open, byStaff>> /\ byStaff \subseteq Team
    BY <1>0, <1>2 DEF CreateWrite, TypeOK
  <2> QED BY <2>1, <2>2, <2>3, <2>4, TeamMade
<1>3. CASE AdminInsert(c) /\ ~Refuse(c)
  <2>1. PICK u \in User, n \in Name, p \in Pass \cup {None} :
          u = call[c].by /\ n = call[c].name /\ p = call[c].pass /\ member[u].team = None
    BY <1>0, <1>3 DEF AdminInsert, At, Shaped, ShapedRow, CallRow, Left
  <2>2. PICK t \in Team :
          /\ team[t].status = "new"
          /\ team' = [team EXCEPT ![t] = [Blank EXCEPT !.status = "live", !.name = n, !.pass = p]]
          /\ Enter(u, t, TRUE) /\ byStaff' = byStaff \cup {t}
    BY <1>3, <2>1 DEF AdminInsert
  <2>3. End(c) /\ UNCHANGED open /\ byStaff \subseteq Team
    BY <1>0, <1>3 DEF AdminInsert, TypeOK
  <2> QED BY <2>1, <2>2, <2>3, TeamMade
<1> QED BY <1>1, <1>2, <1>3

(* One team's row is written.                                              *)
LEMMA TeamWritten ==
  ASSUME IInv, NEW c \in Call, End(c), UNCHANGED <<member, serial, open, raced>>,
         NEW t \in Team, Live(t), \A d \in Call \ {c} : teamLock[t] # d,
         NEW row \in TeamRow, row.status = "live", team' = [team EXCEPT ![t] = row],
         \/ row.name = team[t].name /\ byStaff' = byStaff
         \/ byStaff' = byStaff \cup {t}
         \/ gameLock = c /\ Vacant(row.name, {t}) /\ byStaff' = byStaff \ {t}
  PROVE  IInv'
<1>0. TypeOK /\ Shaped(c) /\ Rowed /\ OneCap /\ NamesUnique /\ team \in [Team -> TeamRow]
      /\ byStaff \subseteq Team /\ serial \in Nat
  BY Typed DEF IInv, Fit, Rows, TypeOK
<1>1. /\ team' \in [Team -> TeamRow] /\ team'[t] = row
      /\ \A s \in Team \ {t} : team'[s] = team[s]
  BY <1>0
<1>2. \A s \in Team : Live(s)' <=> Live(s)
  BY <1>1 DEF Live
<1>3. \A s : In(s)' = In(s)
  BY DEF In
<1>4. Rowed'
  <2>1. \A u \in User : member[u].team # None => member[u].team \in Team
    BY <1>0, Typed DEF MemberRow
  <2>2. \A u \in User : member[u].team # None => team'[member[u].team].status = "live"
    BY <1>0, <1>2, <2>1 DEF Rowed, Live
  <2> QED BY <1>0, <2>2 DEF Rowed, Live
<1>5. OneCap'
  BY <1>0, <1>3 DEF OneCap, Captains
<1>6. NamesUnique'
  <2> SUFFICES ASSUME NEW r \in Team, NEW s \in Team, r # s, Live(r)', Live(s)',
                      team'[r].name = team'[s].name, ~AllowDuplicates
               PROVE  r \in byStaff' \/ s \in byStaff'
    BY DEF NamesUnique
  <2>0. Live(r) /\ Live(s)
    BY <1>2
  <2>1. CASE r # t /\ s # t
    <3>1. r \in byStaff \/ s \in byStaff
      BY <1>0, <1>1, <2>0, <2>1 DEF NamesUnique
    <3> QED BY <2>1, <3>1
  <2>2. CASE row.name = team[t].name
    <3>1. r \in byStaff \/ s \in byStaff
      BY <1>0, <1>1, <2>0, <2>2 DEF NamesUnique
    <3>2. CASE gameLock = c /\ Vacant(row.name, {t}) /\ byStaff' = byStaff \ {t}
      BY <1>1, <2>0, <3>1, <3>2 DEF Vacant
    <3> QED BY <3>1, <3>2
  <2>3. CASE row.name # team[t].name /\ (r = t \/ s = t)
    BY <1>1, <2>0, <2>3 DEF Vacant
  <2> QED BY <2>1, <2>2, <2>3
<1>7. TypeOK'
  BY <1>0, <1>1, Ended DEF TypeOK, CallRow, TeamRow
<1>8. ASSUME NEW d \in Call \ {c} PROVE Keeps(d)
  <2>1. gameLock = d => NamesKept
    <3>1. SUFFICES ASSUME gameLock = d PROVE NamesKept
      OBVIOUS
    <3>2. CASE row.name = team[t].name /\ byStaff' = byStaff
      BY <1>1, <1>2, <3>2 DEF NamesKept
    <3>3. CASE byStaff' = byStaff \cup {t}
      BY <1>1, <1>2, <3>3 DEF NamesKept
    <3> QED BY <1>8, <3>1, <3>2, <3>3
  <2>2. \A u \in User : MemberKept(u, d)
    BY DEF MemberKept
  <2>3. \A s \in Team : teamLock[s] = d => team'[s] = team[s] /\ In(s)' \subseteq In(s)
    BY <1>1, <1>3, <1>8
  <2> QED BY <1>0, <2>1, <2>2, <2>3, Ended DEF Keeps
<1>9. Rows'
  BY <1>4, <1>5, <1>6 DEF Rows
<1> QED BY <1>0, <1>7, <1>8, <1>9, Ended, Inductive

LEMMA SaveKeeps == ASSUME IInv, NEW c \in Call, UpdateSave(c) PROVE IInv'
<1>0. TypeOK /\ ShapedRow(call[c]) /\ Held(c) /\ Found(c) /\ team \in [Team -> TeamRow]
      /\ call[c] \in CallRow
  BY Typed DEF IInv, Fit, Shaped
<1>1. PICK t, n, p : t = call[c].team /\ n = call[c].name /\ p = call[c].pass
  OBVIOUS
<1>2. /\ t \in Team /\ gameLock = c /\ teamLock[t] = c /\ Live(t)
      /\ n # None => n = team[t].name \/ Vacant(n, {t})
  BY <1>0, <1>1 DEF UpdateSave, At, ShapedRow, Held, Found
<1>3. n \in Name \cup {None} /\ p \in Pass \cup {None} /\ team[t] \in TeamRow
  BY <1>0, <1>1, <1>2 DEF CallRow
<1>4. PICK row : row = Filled(c, team[t])
  OBVIOUS
<1>5. /\ row \in TeamRow /\ row.status = team[t].status
      /\ row.name = IF n = None THEN team[t].name ELSE n
  BY <1>1, <1>3, <1>4 DEF Filled, TeamRow
<1>6. team' = [team EXCEPT ![t] = row]
  BY <1>0, <1>1, <1>2, <1>4 DEF UpdateSave
<1>7. /\ byStaff' = IF n \in {None, team[t].name} THEN byStaff ELSE byStaff \ {t}
      /\ End(c) /\ UNCHANGED <<member, serial, open, raced>>
  BY <1>1 DEF UpdateSave
<1>8. row.status = "live"
  BY <1>2, <1>5 DEF Live
<1>9. \/ row.name = team[t].name /\ byStaff' = byStaff
      \/ gameLock = c /\ Vacant(row.name, {t}) /\ byStaff' = byStaff \ {t}
  BY <1>2, <1>5, <1>7
<1> QED BY <1>2, <1>5, <1>6, <1>7, <1>8, <1>9, TeamWritten

LEMMA StartKeeps == ASSUME IInv, NEW c \in Call, StartCommit(c) PROVE IInv'
<1>0. TypeOK /\ ShapedRow(call[c]) /\ Held(c) /\ Found(c) /\ team \in [Team -> TeamRow]
  BY Typed DEF IInv, Fit, Shaped
<1>1. PICK t : t = call[c].team
  OBVIOUS
<1>2. t \in Team /\ teamLock[t] = c /\ Live(t)
  BY <1>0, <1>1 DEF StartCommit, At, ShapedRow, Held, Found
<1>3. PICK row : row = [team[t] EXCEPT !.locked = TRUE]
  OBVIOUS
<1>4. row \in TeamRow /\ row.status = "live" /\ row.name = team[t].name
  BY <1>0, <1>2, <1>3 DEF TeamRow, Live
<1>5. team' = [team EXCEPT ![t] = row]
  BY <1>0, <1>1, <1>2, <1>3 DEF StartCommit
<1>6. End(c) /\ UNCHANGED <<member, serial, open, raced>> /\ byStaff' = byStaff
  BY DEF StartCommit, past
<1> QED BY <1>2, <1>4, <1>5, <1>6, TeamWritten

LEMMA AdminKeeps == ASSUME IInv, NEW c \in Call, AdminCommit(c) PROVE IInv'
<1>0. TypeOK /\ ShapedRow(call[c]) /\ Held(c) /\ Found(c) /\ team \in [Team -> TeamRow]
      /\ call[c] \in CallRow
  BY Typed DEF IInv, Fit, Shaped
<1>1. PICK t, n, p, f : t = call[c].team /\ n = call[c].name /\ p = call[c].pass /\ f = call[c].flag
  OBVIOUS
<1>2. t \in Team /\ teamLock[t] = c /\ Live(t)
  BY <1>0, <1>1 DEF AdminCommit, At, ShapedRow, Held, Found
<1>3. PICK b \in BOOLEAN :
        team' = [team EXCEPT ![t] = [Filled(c, team[t]) EXCEPT
                   !.banned = IF f = "ban" THEN b ELSE @,
                   !.locked = IF f = "lock" THEN b ELSE @]]
  BY <1>1 DEF AdminCommit
<1>4. n \in Name \cup {None} /\ p \in Pass \cup {None} /\ team[t] \in TeamRow
  BY <1>0, <1>1, <1>2 DEF CallRow
<1>5. PICK filled : filled = Filled(c, team[t])
  OBVIOUS
<1>6. /\ filled \in TeamRow /\ filled.status = team[t].status
      /\ filled.name = IF n = None THEN team[t].name ELSE n
  BY <1>1, <1>4, <1>5 DEF Filled, TeamRow
<1>7. PICK row : row = [filled EXCEPT !.banned = IF f = "ban" THEN b ELSE @,
                                      !.locked = IF f = "lock" THEN b ELSE @]
  OBVIOUS
<1>8. row \in TeamRow /\ row.status = "live" /\ row.name = filled.name
  BY <1>2, <1>6, <1>7 DEF TeamRow, Live
<1>9. team' = [team EXCEPT ![t] = row]
  BY <1>3, <1>5, <1>7
<1>10. /\ byStaff' = IF n = None THEN byStaff ELSE byStaff \cup {t}
       /\ End(c) /\ UNCHANGED <<member, serial, open, raced>>
  BY <1>1 DEF AdminCommit
<1> QED BY <1>2, <1>6, <1>8, <1>9, <1>10, TeamWritten

-----------------------------------------------------------------------------
(* Members go or are marked.                                               *)
LEMMA Thinned ==
  ASSUME TypeOK, Rowed, member' \in [User -> MemberRow], UNCHANGED <<serial, raced>>,
         \A u \in User :
           \/ member'[u] = NoRow
           \/ /\ member'[u].team = member[u].team /\ member'[u].row = member[u].row
              /\ member'[u].captain => member[u].team # None
              /\ member[u].team # None => team'[member[u].team].status = "live"
  PROVE  /\ Rowed'
         /\ \A s \in Team : In(s)' \subseteq In(s)
         /\ \A d \in Call, u \in User : MemberKept(u, d)
<1>0. /\ serial \in Nat /\ NoRow.team = None /\ NoRow.row = 0 /\ NoRow.captain = FALSE
  BY Typed DEF NoRow
<1>1. \A d \in Call, u \in User : MemberKept(u, d)
  BY <1>0 DEF MemberKept
<1>2. \A s \in Team : In(s)' \subseteq In(s)
  BY <1>0, NoneIsNone DEF In
<1>3. ASSUME NEW u \in User
      PROVE  /\ member'[u].team # None => team'[member'[u].team].status = "live"
             /\ member'[u].team # None <=> member'[u].row # 0
             /\ member'[u].row <= serial
             /\ member'[u].captain => member'[u].team # None
  <2>1. CASE member'[u] = NoRow
    BY <1>0, <2>1
  <2>2. CASE member'[u] # NoRow
    <3>1. (member[u].team # None <=> member[u].row # 0) /\ member[u].row <= serial
      BY DEF Rowed
    <3> QED BY <2>2, <3>1
  <2> QED BY <2>1, <2>2
<1>4. ASSUME NEW u \in User, NEW v \in User, u # v, member'[u].row = member'[v].row
      PROVE  member'[u].team = None
  <2>1. CASE member'[u] = NoRow \/ member'[v] = NoRow
    BY <1>0, <1>3, <1>4, <2>1
  <2>2. CASE member'[u] # NoRow /\ member'[v] # NoRow
    BY <1>4, <2>2 DEF Rowed
  <2> QED BY <2>1, <2>2
<1>5. Rowed'
  BY <1>3, <1>4 DEF Rowed, Live
<1> QED BY <1>1, <1>2, <1>5

LEMMA MembersWritten ==
  ASSUME IInv, NEW c \in Call, End(c), UNCHANGED <<team, serial, open, past>>,
         member' \in [User -> MemberRow],
         \A u \in User :
           \/ member'[u] = NoRow
           \/ /\ member'[u].team = member[u].team /\ member'[u].row = member[u].row
              /\ member'[u].captain => member[u].team # None,
         OneCap'
  PROVE  IInv'
<1>0. TypeOK /\ Shaped(c) /\ Rowed /\ NamesUnique /\ byStaff' = byStaff /\ raced' = raced
      /\ serial \in Nat
  BY Typed DEF IInv, Fit, Rows, past
<1>1. \A u \in User : member[u].team # None => team'[member[u].team].status = "live"
  BY <1>0 DEF Rowed, Live
<1>2. /\ Rowed' /\ \A s \in Team : In(s)' \subseteq In(s)
      /\ \A d \in Call, u \in User : MemberKept(u, d)
  BY <1>0, <1>1, Thinned
<1>3. NamesKept /\ NamesUnique'
  BY <1>0, NamesSame
<1>4. TypeOK'
  BY <1>0, Ended DEF TypeOK, CallRow, MemberRow
<1>5. ASSUME NEW d \in Call \ {c} PROVE Keeps(d)
  BY <1>0, <1>2, <1>3, Ended DEF Keeps
<1>6. Rows'
  BY <1>2, <1>3 DEF Rows
<1> QED BY <1>0, <1>4, <1>5, <1>6, Ended, Inductive

LEMMA RemoveKeeps == ASSUME IInv, NEW c \in Call, Remove(c) PROVE IInv'
<1>0. TypeOK /\ OneCap /\ Rowed /\ member \in [User -> MemberRow] /\ NoRow \in MemberRow
  BY Typed DEF IInv, Rows, NoRow, MemberRow
<1>1. CASE Refuse(c)
  BY <1>1, Refused
<1>2. CASE ~Refuse(c)
  <2>1. PICK w : w = call[c].user
    OBVIOUS
  <2>2. Expel({w}) /\ End(c) /\ UNCHANGED <<team, serial, open, past>>
    BY <1>2, <2>1 DEF Remove
  <2>3. member' \in [User -> MemberRow]
        /\ \A u \in User : member'[u] = IF u = w THEN NoRow ELSE member[u]
    BY <1>0, <2>2 DEF Expel
  <2>4. \A u \in User : member'[u].captain => member'[u] = member[u]
    BY <2>3 DEF NoRow
  <2>5. OneCap'
    BY <1>0, <2>2, <2>4 DEF OneCap, Captains, In, past
  <2>6. \A u \in User : member[u].captain => member[u].team # None
    BY <1>0 DEF Rowed
  <2> QED BY <2>2, <2>3, <2>5, <2>6, MembersWritten
<1> QED BY <1>1, <1>2

(* A promotion leaves one captain, if nobody raced it.                     *)
LEMMA PromoteKeeps == ASSUME IInv, NEW c \in Call, PromoteWrite(c) PROVE IInv'
<1>0. TypeOK /\ OneCap /\ Rowed /\ member \in [User -> MemberRow] /\ Sighted(c)
      /\ \A u \in User : member[u].row \in Nat
  BY Typed DEF IInv, Rows, MemberRow, Fit
<1>1. PICK t, w, seen : t = call[c].team /\ w = call[c].user /\ seen = call[c].seen
  OBVIOUS
<1>2. /\ member' = [u \in User |-> IF <<u, member[u].row>> \in seen
                                    THEN [member[u] EXCEPT !.captain = (u = w)]
                                    ELSE member[u]]
      /\ End(c) /\ UNCHANGED <<team, serial, open, past>> /\ At(c, "captain")
  BY <1>1 DEF PromoteWrite
<1>3. /\ t \notin raced => \A u \in In(t) : <<u, member[u].row>> \in seen
      /\ \A u \in User : <<u, member[u].row>> \in seen => member[u].row # 0 /\ member[u].team = t
  BY <1>0, <1>1, <1>2 DEF Sighted
<1>4. ASSUME NEW u \in User
      PROVE  /\ member'[u] \in MemberRow
             /\ member'[u].team = member[u].team /\ member'[u].row = member[u].row
             /\ <<u, member[u].row>> \in seen => (member'[u].captain <=> u = w)
             /\ <<u, member[u].row>> \notin seen => member'[u] = member[u]
  <2>1. member[u] \in MemberRow
    BY <1>0
  <2>2. CASE <<u, member[u].row>> \in seen
    <3>1. PICK b \in BOOLEAN : b <=> u = w
      OBVIOUS
    <3>2. member'[u] = [member[u] EXCEPT !.captain = b]
      <4>1. CASE u = w
        BY <1>2, <2>2, <3>1, <4>1
      <4>2. CASE u # w
        BY <1>2, <2>2, <3>1, <4>2
      <4> QED BY <4>1, <4>2
    <3> QED BY <2>1, <2>2, <3>1, <3>2 DEF MemberRow
  <2>3. CASE <<u, member[u].row>> \notin seen
    BY <1>2, <2>1, <2>3
  <2> QED BY <2>2, <2>3
<1>5. member' \in [User -> MemberRow]
  BY <1>2, <1>4
<1>6. \A u \in User : member'[u].captain => member[u].team # None
  BY <1>0, <1>3, <1>4 DEF Rowed
<1>7. OneCap'
  <2> SUFFICES ASSUME NEW s \in Team \ raced, NEW u \in User, NEW v \in User,
                      member[u].team = s, member[v].team = s,
                      member'[u].captain, member'[v].captain
               PROVE  u = v
    BY <1>2, <1>4 DEF OneCap, Captains, In, past
  <2>1. CASE s = t
    BY <1>3, <1>4, <2>1 DEF In
  <2>2. CASE s # t
    <3>1. member'[u] = member[u] /\ member'[v] = member[v]
      BY <1>3, <1>4, <2>2
    <3> QED BY <1>0, <3>1 DEF OneCap, Captains, In
  <2> QED BY <2>1, <2>2
<1> QED BY <1>2, <1>4, <1>5, <1>6, <1>7, MembersWritten

(* The heir of a captain who is removed is the oldest member, and only one. *)
LEMMA HeirKeeps == ASSUME IInv, NEW c \in Call, AdminRemove(c) PROVE IInv'
<1>0. TypeOK /\ OneCap /\ Rowed /\ member \in [User -> MemberRow] /\ NoRow \in MemberRow
      /\ \A u \in User : member[u].row \in Nat
  BY Typed DEF IInv, Rows, NoRow, MemberRow
<1>1. CASE Refuse(c)
  BY <1>1, Refused
<1>2. CASE ~Refuse(c)
  <2>1. PICK t, w : t = call[c].team /\ w = call[c].user
    OBVIOUS
  <2>2. PICK rest : rest = In(t) \ {w}
    OBVIOUS
  <2>3. PICK oldest : oldest = {u \in rest : \A v \in rest : member[u].row <= member[v].row}
    OBVIOUS
  <2>4. PICK heirs : heirs = IF Captains(t) \cap rest = {} THEN oldest ELSE {}
    OBVIOUS
  <2>5. /\ member' = [u \in User |-> CASE u = w -> NoRow
                                       [] u \in heirs -> [member[u] EXCEPT !.captain = TRUE]
                                       [] OTHER -> member[u]]
        /\ End(c) /\ UNCHANGED <<team, serial, open, past>>
    BY <1>2, <2>1, <2>2, <2>3, <2>4 DEF AdminRemove
  <2>6. t \in Team /\ t # None
    BY <1>2, <2>1, NoneIsNone DEF AdminRemove, At, IInv, Fit, Shaped, ShapedRow
  <2>7. heirs \subseteq rest /\ \A u \in rest : u \in User /\ u # w /\ member[u].team = t
    BY <2>2, <2>3, <2>4 DEF In
  <2>8. ASSUME NEW u \in User
        PROVE  /\ u = w => member'[u] = NoRow
               /\ u \in heirs => member'[u] = [member[u] EXCEPT !.captain = TRUE]
               /\ u # w /\ u \notin heirs => member'[u] = member[u]
    BY <2>5, <2>7
  <2>9. ASSUME NEW u \in User
        PROVE  /\ member'[u] \in MemberRow
               /\ u # w => member'[u].team = member[u].team /\ member'[u].row = member[u].row
    BY <1>0, <2>7, <2>8 DEF MemberRow
  <2>10. member' \in [User -> MemberRow]
    BY <2>5, <2>9
  <2>11. \A u \in User : u # w => (member'[u].captain => member[u].team # None)
    BY <1>0, <2>6, <2>7, <2>8 DEF Rowed
  <2>12. OneCap'
    <3> SUFFICES ASSUME NEW s \in Team \ raced, NEW u \in User, NEW v \in User,
                        member'[u].team = s, member'[v].team = s,
                        member'[u].captain, member'[v].captain
                 PROVE  u = v
      BY <2>5 DEF OneCap, Captains, In, past
    <3>1. u # w /\ v # w
      <4>1. NoRow.captain = FALSE
        BY DEF NoRow
      <4> QED BY <2>8, <4>1
    <3>2. member[u].team = s /\ member[v].team = s
      BY <2>9, <3>1
    <3>3. CASE u \notin heirs /\ v \notin heirs
      <4>1. member[u].captain /\ member[v].captain
        BY <2>8, <3>1, <3>3
      <4> QED BY <1>0, <3>2, <4>1 DEF OneCap, Captains, In
    <3>4. CASE u \in heirs \/ v \in heirs
      <4>1. s = t /\ u \in rest /\ v \in rest /\ Captains(t) \cap rest = {} /\ heirs = oldest
        BY <2>2, <2>4, <2>7, <3>1, <3>2, <3>4 DEF In
      <4>2. u \in heirs /\ v \in heirs
        BY <2>8, <3>1, <3>2, <4>1 DEF Captains, In
      <4>3. member[u].row = member[v].row
        BY <1>0, <2>3, <4>1, <4>2
      <4> QED BY <1>0, <2>6, <3>2, <4>1, <4>3 DEF Rowed
    <3> QED BY <3>3, <3>4
  <2> QED BY <2>5, <2>8, <2>9, <2>10, <2>11, <2>12, MembersWritten
<1> QED BY <1>1, <1>2

(* A team goes with all its members.                                       *)
LEMMA Dropped ==
  ASSUME IInv, NEW c \in Call, End(c), UNCHANGED <<serial, open, past>>, NEW t \in Team, Drop(t),
         Live(t), \A d \in Call \ {c} : teamLock[t] # d
  PROVE  IInv'
<1>0. TypeOK /\ Shaped(c) /\ Rowed /\ OneCap /\ NamesUnique /\ team \in [Team -> TeamRow]
      /\ member \in [User -> MemberRow] /\ NoRow \in MemberRow /\ serial \in Nat
      /\ byStaff' = byStaff /\ raced' = raced /\ \A u \in User : member[u].team \in Team \cup {None}
  BY Typed DEF IInv, Fit, Rows, NoRow, MemberRow, past
<1>1. PICK row : row = [Blank EXCEPT !.status = "gone"]
  OBVIOUS
<1>2. row \in TeamRow /\ row.status = "gone"
  BY <1>1 DEF TeamRow, Blank
<1>3. /\ team' \in [Team -> TeamRow] /\ team'[t] = row
      /\ \A s \in Team \ {t} : team'[s] = team[s]
  BY <1>0, <1>1, <1>2 DEF Drop
<1>4. ~Live(t)' /\ \A s \in Team \ {t} : Live(s)' <=> Live(s)
  BY <1>2, <1>3 DEF Live
<1>5. member' \in [User -> MemberRow]
      /\ \A u \in User : member'[u] = IF member[u].team = t THEN NoRow ELSE member[u]
  BY <1>0 DEF Drop, Expel, In
<1>6. \A u \in User :
        \/ member'[u] = NoRow
        \/ /\ member'[u].team = member[u].team /\ member'[u].row = member[u].row
           /\ member'[u].captain => member[u].team # None
           /\ member[u].team # None => team'[member[u].team].status = "live"
  BY <1>0, <1>3, <1>5 DEF Rowed, Live
<1>7. /\ Rowed' /\ \A s \in Team : In(s)' \subseteq In(s)
      /\ \A d \in Call, u \in User : MemberKept(u, d)
  BY <1>0, <1>5, <1>6, Thinned
<1>8. OneCap'
  <2>1. \A u \in User : member'[u].captain => member'[u] = member[u]
    BY <1>5 DEF NoRow
  <2> QED BY <1>0, <2>1 DEF OneCap, Captains, In
<1>9. NamesUnique' /\ NamesKept
  BY <1>0, <1>3, <1>4 DEF NamesUnique, NamesKept
<1>10. TypeOK'
  BY <1>0, <1>3, <1>5, Ended DEF TypeOK, CallRow, MemberRow, TeamRow
<1>11. ASSUME NEW d \in Call \ {c} PROVE Keeps(d)
  BY <1>0, <1>3, <1>7, <1>9, <1>11, Ended DEF Keeps
<1>12. Rows'
  BY <1>7, <1>8, <1>9 DEF Rows
<1> QED BY <1>0, <1>10, <1>11, <1>12, Ended, Inductive

LEMMA DropKeeps == ASSUME IInv, NEW c \in Call, DisbandCommit(c) \/ AdminDelete(c) PROVE IInv'
<1>0. ShapedRow(call[c]) /\ Held(c) /\ Found(c)
  BY DEF IInv, Fit, Shaped
<1>1. PICK t : t = call[c].team
  OBVIOUS
<1>2. CASE Refuse(c)
  BY <1>2, Refused
<1>3. CASE DisbandCommit(c)
  BY <1>0, <1>1, <1>3, Dropped DEF DisbandCommit, At, ShapedRow, Held, Found
<1>4. CASE AdminDelete(c) /\ ~Refuse(c)
  BY <1>0, <1>1, <1>4, Dropped, NoneIsNone DEF AdminDelete, At, ShapedRow
<1> QED BY <1>2, <1>3, <1>4

-----------------------------------------------------------------------------
(* The inductive invariant.                                                *)
LEMMA StepKeeps == ASSUME IInv, NEW c \in Call, Step(c) PROVE IInv'
BY FreeKeeps, LockKeeps, ReadKeeps, FindKeeps, TargetKeeps, AddKeeps, CreateKeeps, SaveKeeps,
   StartKeeps, AdminKeeps, RemoveKeeps, PromoteKeeps, HeirKeeps, DropKeeps, Refused
   DEF Step, PoolTimeout, Deadlock

LEMMA CloseKeeps == ASSUME IInv, CloseFeature PROVE IInv'
<1>1. UNCHANGED <<rows, past>> /\ UNCHANGED <<gameLock, teamLock, call>> /\ TypeOK /\ Rows
      /\ open' \in BOOLEAN
  BY DEF CloseFeature, locks, IInv
<1>2. TypeOK'
  BY <1>1 DEF TypeOK, rows, past
<1> QED BY <1>1, <1>2, RowsSame, Everyone DEF Stays

LEMMA StutterKeeps == ASSUME IInv, UNCHANGED vars PROVE IInv'
<1>1. UNCHANGED <<rows, past>> /\ UNCHANGED <<gameLock, teamLock, call, open>> /\ TypeOK /\ Rows
  BY DEF vars, locks, IInv
<1>2. TypeOK'
  BY <1>1 DEF TypeOK, rows, past
<1> QED BY <1>1, <1>2, RowsSame, Everyone DEF Stays

LEMMA NextKeeps == ASSUME IInv, [Next]_vars PROVE IInv'
BY RequestKeeps, StepKeeps, CloseKeeps, StutterKeeps DEF Next

LEMMA InitIInv == ASSUME Init PROVE IInv
<1>0. /\ Members0 \in Seq(User) /\ Len(Members0) \in Nat /\ DOMAIN Members0 = 1..Len(Members0)
      /\ FirstTeam \in Team /\ FirstName \in Name /\ FirstPass \in Pass
  BY ConstantAssumption
<1>1. PICK captain \in DOMAIN Members0 :
        member = [u \in User |->
                   IF \E i \in DOMAIN Members0 : Members0[i] = u
                   THEN LET i == CHOOSE j \in DOMAIN Members0 : Members0[j] = u
                        IN  [team |-> FirstTeam, captain |-> i = captain, row |-> i]
                   ELSE NoRow]
  BY DEF Init
<1>2. ASSUME NEW u \in User
      PROVE  /\ member[u] \in MemberRow
             /\ \/ member[u] = NoRow
                \/ \E i \in DOMAIN Members0 :
                     /\ Members0[i] = u /\ member[u].row = i /\ member[u].team = FirstTeam
                     /\ (member[u].captain => i = captain)
  <2>1. CASE \E i \in DOMAIN Members0 : Members0[i] = u
    <3>1. PICK i \in DOMAIN Members0 : i = CHOOSE j \in DOMAIN Members0 : Members0[j] = u
      BY <2>1
    <3>2. Members0[i] = u
      BY <2>1, <3>1
    <3>3. PICK b \in BOOLEAN : b <=> i = captain
      OBVIOUS
    <3>4. member[u] = [team |-> FirstTeam, captain |-> b, row |-> i]
      BY <1>1, <2>1, <3>1, <3>3
    <3> QED BY <1>0, <3>2, <3>3, <3>4 DEF MemberRow
  <2>2. CASE ~\E i \in DOMAIN Members0 : Members0[i] = u
    BY <1>1, <2>2 DEF NoRow, MemberRow
  <2> QED BY <2>1, <2>2
<1>3. member \in [User -> MemberRow]
  BY <1>1, <1>2
<1>4. PICK row : row = [Blank EXCEPT !.status = "live", !.name = FirstName, !.pass = FirstPass]
  OBVIOUS
<1>5. row \in TeamRow /\ row.status = "live" /\ Blank \in TeamRow /\ Blank.status = "new"
  BY <1>0, <1>4 DEF TeamRow, Blank
<1>6. /\ team \in [Team -> TeamRow] /\ Live(FirstTeam)
      /\ \A s \in Team : Live(s) => s = FirstTeam
  BY <1>0, <1>4, <1>5 DEF Init, Live
<1>7. /\ call \in [Call -> CallRow] /\ gameLock = None /\ teamLock \in [Team -> Call \cup {None}]
      /\ serial = Len(Members0) /\ open = TRUE /\ byStaff = {} /\ raced = {}
      /\ \A c \in Call : call[c] = NoCall
  BY NoCallTyped DEF Init
<1>8. TypeOK
  BY <1>0, <1>3, <1>6, <1>7 DEF TypeOK, TeamRow, MemberRow, CallRow
<1>9. /\ NoRow.team = None /\ NoRow.row = 0 /\ NoRow.captain = FALSE
      /\ FirstTeam # None /\ \A i \in DOMAIN Members0 : i # 0 /\ i <= Len(Members0)
  BY <1>0, NoneIsNone DEF NoRow
<1>10. Rowed
  <2>1. ASSUME NEW u \in User
        PROVE  /\ member[u].team # None => Live(member[u].team)
               /\ member[u].team # None <=> member[u].row # 0
               /\ member[u].row <= serial
               /\ member[u].captain => member[u].team # None
    <3>1. CASE member[u] = NoRow
      BY <1>0, <1>7, <1>9, <3>1
    <3>2. CASE member[u] # NoRow
      BY <1>2, <1>6, <1>7, <1>9, <3>2
    <3> QED BY <3>1, <3>2
  <2>2. ASSUME NEW u \in User, NEW v \in User, u # v, member[u].row = member[v].row
        PROVE  member[u].team = None
    BY <1>2, <1>9, <2>2
  <2> QED BY <2>1, <2>2 DEF Rowed
<1>11. OneCap
  <2>1. \A u \in User : member[u].captain => Members0[captain] = u
    BY <1>2, <1>9
  <2> QED BY <2>1 DEF OneCap, Captains, In
<1>12. NamesUnique
  BY <1>6 DEF NamesUnique
<1>13. ASSUME NEW c \in Call PROVE Fit(c)
  <2>1. call[c].pc = "idle" /\ call[c].op = None /\ None \notin Operation
    BY <1>7, ConstantAssumption DEF NoCall
  <2> QED BY <2>1 DEF Fit, Shaped, ShapedRow, Held, Found, Sighted, At, Operation
<1> QED BY <1>8, <1>10, <1>11, <1>12, <1>13 DEF IInv, Rows

-----------------------------------------------------------------------------
(* What team.rs and its locks maintain: what is said of the calls makes    *)
(* what is said of the rows inductive.                                     *)
THEOREM Invariance == Spec => []IInv
<1>1. Init => IInv
  BY InitIInv
<1>2. IInv /\ [Next]_vars => IInv'
  BY NextKeeps
<1> QED BY <1>1, <1>2, PTL DEF Spec

LEMMA OneCapCounted == ASSUME OneCap PROVE OneCaptain
<1> SUFFICES ASSUME NEW t \in Team \ raced PROVE Cardinality(Captains(t)) <= 1
  BY DEF OneCaptain
<1>1. PICK s : s = Captains(t)
  OBVIOUS
<1>2. \A u, v \in s : u = v
  BY <1>1 DEF OneCap
<1>3. Cardinality(s) <= 1
  <2>1. CASE s = {}
    <3>1. Cardinality({}) = 0
      BY FS_EmptySet
    <3>2. Cardinality(s) = 0
      BY <2>1, <3>1, Zenon
    <3> QED BY <3>2
  <2>2. CASE s # {}
    <3>1. PICK u : u \in s
      BY <2>2
    <3>2. s = {u}
      BY <1>2, <3>1
    <3>3. Cardinality({u}) = 1
      BY FS_Singleton
    <3>4. Cardinality(s) = 1
      BY <3>2, <3>3, Zenon
    <3> QED BY <3>4
  <2> QED BY <2>1, <2>2
<1> QED BY <1>1, <1>3

(* Between any two statements of overlapping calls the rows are typed, two  *)
(* teams have one name only if the settings or the staff allow it           *)
(* (duplicate_team_name_exists_conn under the rb_game row), and a team that *)
(* nobody joined during a promotion has at most one captain.                *)
THEOREM RowsAlwaysSound == Spec => []RowsSound
<1>1. IInv => RowsSound
  BY OneCapCounted DEF IInv, Rows, RowsSound
<1> QED BY <1>1, Invariance, PTL

(* When join writes the row of a member, all it has checked still holds:   *)
(* the team is there and not banned, has that password, has a place left.  *)
THEOREM JoinsAdmitted == Spec => JoinAdmitted
<1> DEFINE A == \A c \in Call :
                  LET t == call[c].team IN
                  (call[c].op = "join" /\ member' # member /\ At(c, "insert") /\ At(c, "done")') =>
                    /\ Live(t) /\ ~team[t].banned /\ team[t].pass = call[c].pass
                    /\ Cardinality(In(t)) < MaxMembers
<1>1. IInv => A
  BY DEF IInv, Fit, Found, At
<1>2. IInv /\ [Next]_vars => [A]_vars
  BY <1>1
<1> HIDE DEF A
<1>3. Spec => [][A]_vars
  BY <1>2, Invariance, PTL DEF Spec
<1> QED BY <1>3 DEF JoinAdmitted, A

-----------------------------------------------------------------------------
(* What a step may do to a team for which the game has started.            *)
StaysStarted(t) ==
  Live(t) /\ team[t].locked =>
    \/ team'[t].name = team[t].name /\ \A u \in In(t) : member'[u].team = t
    \/ \E c \in Call : /\ ~At(c, "done") /\ At(c, "done")'
                       /\ call[c].op \in {"disband", "admin_update", "admin_remove", "admin_delete"}

LEMMA RowsStay ==
  ASSUME NEW t \in Team, UNCHANGED <<team, member>>
  PROVE  StaysStarted(t)
BY DEF StaysStarted, In

LEMMA EnterStays ==
  ASSUME TypeOK, NEW u \in User, member[u].team = None, NEW s \in Team, NEW captain \in BOOLEAN,
         Enter(u, s, captain), NEW t \in Team, team'[t].name = team[t].name
  PROVE  StaysStarted(t)
<1>1. member \in [User -> MemberRow] /\ t # None
  BY Typed, NoneIsNone
<1>2. \A v \in User : v # u => member'[v] = member[v]
  BY <1>1 DEF Enter
<1>3. \A v \in In(t) : v \in User /\ v # u /\ member[v].team = t
  BY <1>1 DEF In
<1> QED BY <1>2, <1>3 DEF StaysStarted

LEMMA StepStays ==
  ASSUME IInv, NEW c \in Call, Step(c), NEW t \in Team
  PROVE  StaysStarted(t)
<1>0. /\ TypeOK /\ ShapedRow(call[c]) /\ Found(c) /\ Held(c)
      /\ team \in [Team -> TeamRow] /\ member \in [User -> MemberRow] /\ call[c] \in CallRow
  BY Typed DEF IInv, Fit, Shaped
<1>1. CASE UNCHANGED rows
  BY <1>1, RowsStay DEF rows
<1>2. CASE Refuse(c)
  BY <1>2, RowsStay DEF Refuse, rows
<1>3. CASE End(c) /\ ~At(c, "done") /\
           call[c].op \in {"disband", "admin_update", "admin_remove", "admin_delete"}
  BY <1>0, <1>3, Ended DEF StaysStarted, Shaped
<1>4. CASE \/ Leader(c) \/ JoinLock(c) \/ JoinLimit(c) \/ PoolTimeout(c) \/ LockGame(c)
           \/ CreateNames(c) \/ UpdateFind(c) \/ UpdateRow(c) \/ DisbandRead(c) \/ DisbandDelete(c)
           \/ PromoteTarget(c) \/ StartLock(c) \/ AdminConflict(c) \/ AdminLock(c) \/ AdminCount(c)
           \/ AdminDeleteRead(c) \/ Deadlock(c)
  BY <1>1, <1>2, <1>4 DEF Leader, JoinLock, JoinLimit, PoolTimeout, LockGame, CreateNames, UpdateFind,
     UpdateRow, DisbandRead, DisbandDelete, PromoteTarget, StartLock, AdminConflict, AdminLock,
     AdminCount, AdminDeleteRead, Deadlock
<1>5. CASE (JoinInsert(c) \/ AdminAdd(c)) /\ ~Refuse(c)
  <2>1. PICK u, s : u = call[c].by /\ s = call[c].team
    OBVIOUS
  <2>2. u \in User /\ member[u].team = None /\ s \in Team /\ Enter(u, s, FALSE) /\ team' = team
    BY <1>0, <1>5, <2>1 DEF JoinInsert, AdminAdd, At, ShapedRow, Left
  <2> QED BY <1>0, <2>2, EnterStays
<1>6. CASE (CreateWrite(c) \/ AdminInsert(c)) /\ ~Refuse(c)
  <2>1. PICK u : u = call[c].by
    OBVIOUS
  <2>0. PICK s \in Team :
          \E row : /\ team[s].status = "new" /\ team' = [team EXCEPT ![s] = row]
                   /\ u \in User /\ member[u].team = None /\ Enter(u, s, TRUE)
    BY <1>6, <2>1 DEF CreateWrite, AdminInsert, Left
  <2>2. PICK row :
          /\ team[s].status = "new" /\ team' = [team EXCEPT ![s] = row]
          /\ u \in User /\ member[u].team = None /\ Enter(u, s, TRUE)
    BY <2>0
  <2>3. CASE t = s
    BY <2>2, <2>3 DEF StaysStarted, Live
  <2>4. CASE t # s
    BY <1>0, <2>2, <2>4, EnterStays
  <2> QED BY <2>3, <2>4
<1>7. CASE UpdateSave(c)
  <2>1. PICK s, n : s = call[c].team /\ n = call[c].name
    OBVIOUS
  <2>2. s \in Team /\ (n # None => ~team[s].locked) /\ member' = member
    BY <1>0, <1>7, <2>1 DEF UpdateSave, At, ShapedRow, Found
  <2>3. team' = [team EXCEPT ![s] = Filled(c, team[s])]
    BY <1>7, <2>1 DEF UpdateSave
  <2>4. n = None => Filled(c, team[s]).name = team[s].name
    BY <1>0, <2>1, <2>2 DEF Filled, TeamRow
  <2> QED BY <1>0, <2>2, <2>3, <2>4 DEF StaysStarted, In
<1>8. CASE Remove(c) /\ ~Refuse(c)
  <2>1. PICK s, w : s = call[c].team /\ w = call[c].user
    OBVIOUS
  <2>2. /\ w \in In(s) /\ ~team[s].locked /\ team' = team
        /\ member' = [u \in User |-> IF u = w THEN NoRow ELSE member[u]]
    BY <1>8, <2>1 DEF Remove, Expel
  <2> QED BY <1>0, <2>2 DEF StaysStarted, In
<1>9. CASE DisbandCommit(c)
  BY <1>3, <1>9 DEF DisbandCommit, At
<1>10. CASE PromoteWrite(c)
  <2>1. /\ team' = team
        /\ \A u \in User : member'[u] = IF <<u, member[u].row>> \in call[c].seen
                                        THEN [member[u] EXCEPT !.captain = (u = call[c].user)]
                                        ELSE member[u]
    BY <1>10 DEF PromoteWrite
  <2>2. \A u \in User : member'[u].team = member[u].team
    BY <1>0, <2>1 DEF MemberRow
  <2> QED BY <2>1, <2>2 DEF StaysStarted, In
<1>11. CASE StartCommit(c)
  <2>1. PICK s : s = call[c].team
    OBVIOUS
  <2>2. s \in Team /\ team' = [team EXCEPT ![s].locked = TRUE] /\ member' = member
    BY <1>0, <1>11, <2>1 DEF StartCommit, At, ShapedRow
  <2>3. team'[t].name = team[t].name
    BY <1>0, <2>2 DEF TeamRow
  <2> QED BY <2>2, <2>3 DEF StaysStarted, In
<1>12. CASE AdminCommit(c)
  BY <1>3, <1>12 DEF AdminCommit, At
<1>13. CASE AdminRemove(c) /\ ~Refuse(c)
  BY <1>0, <1>3, <1>13 DEF AdminRemove, At, ShapedRow
<1>14. CASE AdminDelete(c) /\ ~Refuse(c)
  BY <1>3, <1>14 DEF AdminDelete, At
<1> QED BY <1>2, <1>4, <1>5, <1>6, <1>7, <1>8, <1>9, <1>10, <1>11, <1>12, <1>13, <1>14 DEF Step

LEMMA NextStays ==
  ASSUME IInv, [Next]_vars
  PROVE  \A t \in Team : StaysStarted(t)
<1> SUFFICES ASSUME NEW t \in Team PROVE StaysStarted(t)
  OBVIOUS
<1>1. CASE UNCHANGED rows
  BY <1>1, RowsStay DEF rows
<1>2. CASE UNCHANGED vars \/ CloseFeature
  BY <1>1, <1>2 DEF vars, CloseFeature
<1>3. ASSUME NEW c \in Call, Request(c) PROVE StaysStarted(t)
  <2>1. \E request : Ask(c, request)
    BY <1>3 DEF Request, Begin, AskJoin, AskCreate, AskLeave, AskUpdate, AskDisband, AskTarget,
       AskStart, AskAdminCreate, AskAdminUpdate, AskAdminAdd, AskAdminRemove, AskAdminPromote,
       AskAdminDelete
  <2> QED BY <1>1, <2>1 DEF Ask
<1>4. ASSUME NEW c \in Call, Step(c) PROVE StaysStarted(t)
  BY <1>4, StepStays
<1> QED BY <1>2, <1>3, <1>4 DEF Next

(* Once a judge has started the game for a team, only the staff and a      *)
(* disbanding rename it or take members from it: leave, kick and the form  *)
(* of the captain look at the row they write.                              *)
THEOREM StartedTeamsStay == Spec => StartedStays
<1> DEFINE A == \A t \in Team : StaysStarted(t)
<1>1. IInv /\ [Next]_vars => [A]_vars
  BY NextStays
<1> HIDE DEF A
<1>2. Spec => [][A]_vars
  BY <1>1, Invariance, PTL DEF Spec
<1> QED BY <1>2 DEF StartedStays, A, StaysStarted

(* What a call has checked still holds when it writes.                     *)
THEOREM WritesAlwaysSound == Spec => WritesSound
BY JoinsAdmitted, StartedTeamsStay DEF WritesSound
=============================================================================
