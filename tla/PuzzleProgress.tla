--------------------------- MODULE PuzzleProgress ---------------------------
(***************************************************************************)
(* The progress of one team (src/src/db/puzzle.rs, src/src/db/content.rs): *)
(* answers are judged, puzzles are solved and unlocked, triggers fire,     *)
(* hints are bought and content blocks appear, by concurrent requests of   *)
(* its members, of puzzle backends and of administrators.                  *)
(*                                                                         *)
(* A handler is cut into steps where it lets others in: at the end of a    *)
(* transaction, between statements outside one, and where it waits for a   *)
(* row lock.  The rb_team row is locked FOR UPDATE by most transactions;   *)
(* an INSERT into a table that references it waits for that lock too.      *)
(* The locked rb_team_currency row is the other lock.                      *)
(*                                                                         *)
(* An element of Request is one call of a handler.  Unlock conditions are  *)
(* the sets of gate states in which they hold.                             *)
(***************************************************************************)
EXTENDS Integers, FiniteSets

CONSTANTS
  Request, Puzzle, Answer, Trigger, Hint, Block,
  None,
  Owner,          \* the puzzle a trigger, a hint or a block belongs to
  Unconditional,  \* the puzzles without unlock_cond
  UnlockCond,     \* unlock_cond of the other puzzles
  HintCond,       \* enable_cond of the hints
  BlockCond,      \* visibility_cond of the blocks
  Rules,          \* what the judge rules of a puzzle can make of an answer
  Added,          \* the submissions that puzzle backends add
  MaxSubmit,      \* max_submit of every puzzle, the team's extra ones included
  Minimum,        \* submit_requirements: the currency needed to submit
  Penalty,        \* currency penalty of a failed submission
  Cooldown,       \* the puzzles with a time penalty
  Cost,           \* cost_amount of a hint
  HintTriggers,   \* triggers of a hint
  InitAmount,     \* init_amount of the currency
  MaxAmount       \* max_amount of the currency

\* What a condition can see of a team (RbPuzzleStates).
GateState == [solved: SUBSET Puzzle, triggers: SUBSET Trigger, started: BOOLEAN]

JudgeAction == {"fail", "correct", "milestone", "start", "finish", "error"}
Verdict     == [action: JudgeAction, ignored: BOOLEAN, triggers: SUBSET Trigger]

\* A condition without Not, that more progress never makes false.
Monotone(cond) ==
  \A s \in cond, t \in GateState :
     /\ s.solved \subseteq t.solved /\ s.triggers \subseteq t.triggers
     /\ s.started => t.started
     => t \in cond

ASSUME ConstantAssumption ==
  /\ Owner \in [Trigger \cup Hint \cup Block -> Puzzle]
  /\ Unconditional \subseteq Puzzle
  /\ UnlockCond \in [Puzzle \ Unconditional -> SUBSET GateState]
  /\ HintCond \in [Hint -> SUBSET GateState]
  /\ BlockCond \in [Block -> SUBSET GateState]
  /\ Rules \in [Puzzle \X Answer -> SUBSET Verdict]
  /\ Added \subseteq [action: JudgeAction, ignored: BOOLEAN]
  /\ MaxSubmit \in Nat /\ InitAmount \in Int /\ MaxAmount \in Int
  /\ Minimum \in [Puzzle -> Int] /\ Penalty \in [Puzzle -> Nat]
  /\ Cooldown \subseteq Puzzle
  /\ Cost \in [Hint -> Nat] /\ HintTriggers \in [Hint -> SUBSET Trigger]
  /\ None \notin Request \cup Puzzle \cup Answer \cup Hint

Phase == {"idle",
          "checking",  \* submit_answer holds the team row
          "judging",   \* ... has inserted the submission and runs the rules
          "backend",   \* a puzzle backend has added a submission
          "charging",  \* purchase_hint found the hint available
          "granting",  \* ... holds the currency row
          "unlock",    \* unlock_new_puzzles is next
          "triggers",  \* ... has read the solved puzzles
          "check",     \* admin_unlock_puzzle_for_eligible_teams is next
          "candidates", \* ... has read the triggers
          "insert",    \* either of them has read all
          "mark",      \* either has inserted rows and marks the content dirty
          "done"}

VARIABLES
  state,    \* rb_team_puzzle.state; "none": no row
  triggers, \* rb_team_puzzle_trigger
  started,  \* start_at is set
  finished, \* finish_at is set
  banned,   \* is_banned
  subs,     \* rb_submission
  cooling,  \* cooldown_till is in the future
  dirty,    \* content_blocks_dirty
  blocks,   \* rb_team_content_block_unlock
  enabled,  \* rb_team_hint_enable
  bought,   \* rb_team_hint
  funded,   \* the team has an rb_team_currency row
  balance,  \* its current amount
  lock,     \* the request that holds the rb_team row
  purse,    \* the request that holds the rb_team_currency row
  req,      \* what each request is doing
  missed    \* what the steps that failed after a commit have left undone

game    == <<started, finished, banned>>
record  == <<subs, cooling>>
content == <<dirty, blocks>>
shop    == <<enabled, bought, funded, balance>>
locks   == <<lock, purse>>
vars == <<state, triggers, game, record, content, shop, locks, req, missed>>

Submission == [puzzle: Puzzle, answer: Answer, action: JudgeAction, ignored: BOOLEAN]

At(phase) ==
  [pc |-> phase, puzzle |-> None, answer |-> None, hint |-> None, verdict |-> None,
   seen |-> [solved |-> {}, triggers |-> {}, started |-> FALSE], stale |-> FALSE]

TypeOK ==
  /\ state \in [Puzzle -> {"none", "open", "solved"}]
  /\ triggers \subseteq Trigger
  /\ started \in BOOLEAN /\ finished \in BOOLEAN /\ banned \in BOOLEAN
  /\ subs \subseteq Submission
  /\ cooling \subseteq Puzzle
  /\ dirty \in BOOLEAN /\ blocks \subseteq Block
  /\ enabled \subseteq Hint /\ bought \subseteq Hint
  /\ funded \in BOOLEAN /\ balance \in Int
  /\ lock \in Request \cup {None} /\ purse \in Request \cup {None}
  /\ req \in [Request -> [pc: Phase, puzzle: Puzzle \cup {None},
                          answer: Answer \cup {None}, hint: Hint \cup {None},
                          verdict: Verdict \cup {None}, seen: GateState,
                          stale: BOOLEAN]]
  /\ missed \subseteq {"unlock", "content"}

\* A team that has just been created.
Init ==
  /\ state = [p \in Puzzle |-> IF p \in Unconditional THEN "open" ELSE "none"]
  /\ triggers = {} /\ started = FALSE /\ finished = FALSE /\ banned = FALSE
  /\ subs = {} /\ cooling = {}
  /\ dirty = TRUE /\ blocks = {}
  /\ enabled = {} /\ bought = {} /\ funded = FALSE /\ balance = 0
  /\ lock = None /\ purse = None
  /\ req = [r \in Request |-> At("idle")]
  /\ missed = {}

-----------------------------------------------------------------------------
Solved == {p \in Puzzle : state[p] = "solved"}
Gate   == [solved |-> Solved, triggers |-> triggers, started |-> started]

Pc(r)       == req[r].pc
Goto(r, s)  == req' = [req EXCEPT ![r] = s]
Free(l, r)  == l \in {None, r}

\* The end of a transaction frees its row locks.
Unlocked(l, r) == IF l = r THEN None ELSE l
EndTx(r) == lock' = Unlocked(lock, r) /\ purse' = Unlocked(purse, r)

Counted(p)  == {s \in subs : s.puzzle = p /\ s.action = "fail" /\ ~s.ignored}
Taken(p, a) == \E s \in subs : s.puzzle = p /\ s.answer = a /\ ~s.ignored

-----------------------------------------------------------------------------
(* submit_answer.                                                          *)

\* Mutant: the team row is read without a lock.
SubmitUnlocked(r) ==
  /\ Pc(r) = "idle" /\ lock = None
  /\ \E p \in Puzzle, a \in Answer :
       Goto(r, [At("checking") EXCEPT !.puzzle = p, !.answer = a])
  /\ UNCHANGED <<state, triggers, game, record, content, shop, locks, missed>>

\* The transaction begins with SELECT ... FROM rb_team FOR UPDATE.
SubmitLock(r) ==
  /\ Pc(r) = "idle" /\ lock = None
  /\ \E p \in Puzzle, a \in Answer :
       Goto(r, [At("checking") EXCEPT !.puzzle = p, !.answer = a])
  /\ lock' = r
  /\ UNCHANGED <<state, triggers, game, record, content, shop, purse, missed>>

\* NotFound, Locked and Duplicate; a requirement locks the currency row.
Allowed(p, a) ==
  /\ state[p] # "none" /\ ~banned
  /\ p \notin cooling /\ Cardinality(Counted(p)) < MaxSubmit
  /\ Minimum[p] > 0 => funded /\ balance >= Minimum[p]
  /\ ~Taken(p, a)

SubmitCheck(r) ==
  LET p == req[r].puzzle  a == req[r].answer IN
  /\ Pc(r) = "checking"
  /\ Minimum[p] > 0 => Free(purse, r)
  /\ \/ /\ Allowed(p, a)
        /\ \E v \in Rules[p, a] : Goto(r, [req[r] EXCEPT !.pc = "judging", !.verdict = v])
        /\ purse' = IF Minimum[p] > 0 THEN r ELSE purse
        /\ UNCHANGED lock
     \/ /\ ~Allowed(p, a)
        /\ Goto(r, At("done"))
        /\ EndTx(r)
  /\ UNCHANGED <<state, triggers, game, record, content, shop, missed>>

\* The triggers that the verdict adds; none if it is ignored or an error.
Fired(v) == IF v.ignored \/ v.action = "error" THEN {} ELSE v.triggers \ triggers
Solves(p, v) == v.action \in {"correct", "finish"} /\ state[p] = "open"
Starts(v)    == v.action = "start" /\ ~started

\* A failed submission is charged if the team has the currency.
Charged(p, v) == v.action = "fail" /\ Penalty[p] > 0 /\ funded

\* Mutant: a trigger alone unlocks nothing.
UnlockOnSolve(p, v) == Solves(p, v) \/ Starts(v)

\* The first start gives the currency, a failure costs the penalty.
Balance(p, v) == CASE v.action = "start" /\ ~funded -> InitAmount
                   [] Charged(p, v) -> balance - Penalty[p]
                   [] OTHER -> balance

\* A failure may close the puzzle for a time, longer with each.
Cooled(p, v) == IF v.action = "fail" /\ p \in Cooldown THEN cooling \cup {p} ELSE cooling

\* do_unlock of submit_answer.
DoUnlock(p, v) == Solves(p, v) \/ Starts(v) \/ Fired(v) # {}

\* The verdict is carried out and the transaction commits.  Then the leaderboard
\* is told, which may fail, and the unlocks follow.
SubmitCommit(r) ==
  LET p == req[r].puzzle  v == req[r].verdict IN
  /\ Pc(r) = "judging"
  /\ Charged(p, v) => Free(purse, r)
  /\ subs' = subs \cup {[puzzle |-> p, answer |-> req[r].answer, action |-> v.action,
                         ignored |-> v.ignored \/ v.action = "error"]}
  /\ triggers' = triggers \cup Fired(v)
  /\ state' = IF Solves(p, v) THEN [state EXCEPT ![p] = "solved"] ELSE state
  /\ started' = (started \/ v.action = "start")
  /\ finished' = (finished \/ (v.action = "finish" /\ started))
  /\ funded' = (funded \/ v.action = "start")
  /\ balance' = Balance(p, v)
  /\ cooling' = Cooled(p, v)
  /\ dirty' = (dirty \/ DoUnlock(p, v))
  /\ Goto(r, At(IF DoUnlock(p, v) THEN "unlock" ELSE "done"))
  /\ EndTx(r)
  /\ UNCHANGED <<banned, blocks, enabled, bought, missed>>

\* Mutant: the connection of a failed judge keeps its transaction.
JudgeErrorLeaks(r) ==
  /\ Pc(r) = "judging"
  /\ Goto(r, At("done"))
  /\ UNCHANGED <<state, triggers, game, record, content, shop, locks, missed>>

\* A custom judge fails, or returns an invalid trigger: the transaction is dropped.
JudgeError(r) ==
  /\ Pc(r) = "judging"
  /\ Goto(r, At("done"))
  /\ EndTx(r)
  /\ UNCHANGED <<state, triggers, game, record, content, shop, missed>>

-----------------------------------------------------------------------------
(* A function of the puzzle backend: $this.submission.add, then $this.solve. *)

BackendAdd(r) ==
  /\ Pc(r) = "idle" /\ lock = None
  /\ \E p \in Puzzle, a \in Answer, add \in Added :
       IF ~add.ignored /\ Taken(p, a)
       THEN Goto(r, At("done")) /\ UNCHANGED subs
       ELSE /\ Goto(r, [At("backend") EXCEPT !.puzzle = p, !.answer = a])
            /\ subs' = subs \cup {[puzzle |-> p, answer |-> a, action |-> add.action,
                                   ignored |-> add.ignored]}
  /\ UNCHANGED <<state, triggers, game, cooling, content, shop, locks, missed>>

\* solve_backend_puzzle, in one transaction; the submission may be gone.
BackendSolve(r) ==
  LET p == req[r].puzzle IN
  /\ Pc(r) = "backend" /\ lock = None
  /\ \/ \E s \in subs :
          /\ s.puzzle = p /\ s.answer = req[r].answer
          /\ finished' = (finished \/ (s.action = "finish" /\ started))
          /\ state' = IF state[p] = "open" THEN [state EXCEPT ![p] = "solved"] ELSE state
          /\ dirty' = (dirty \/ state[p] = "open")
          /\ Goto(r, At(IF state[p] = "open" THEN "unlock" ELSE "done"))
     \/ /\ ~ \E s \in subs : s.puzzle = p /\ s.answer = req[r].answer
        /\ Goto(r, At("done"))
        /\ UNCHANGED <<finished, state, dirty>>
  /\ UNCHANGED <<triggers, started, banned, record, blocks, shop, locks, missed>>

-----------------------------------------------------------------------------
(* purchase_hint.                                                          *)

\* The hints of an open puzzle that wait for their enable_cond.
Waiting(p) == {h \in Hint : Owner[h] = p /\ state[p] # "none" /\ h \notin enabled \cup bought}

\* refresh_team_hint_states for one puzzle.
Enabled(p) == enabled \cup {h \in Waiting(p) : Gate \in HintCond[h]}

\* The availability and the balance are read before the transaction, and the
\* backend function of the hint runs there.
PurchaseRead(r) ==
  /\ Pc(r) = "idle"
  /\ \E h \in Hint :
       /\ enabled' = Enabled(Owner[h])
       /\ enabled' # enabled => lock = None
       /\ Goto(r, IF /\ state[Owner[h]] # "none" /\ h \notin bought /\ h \in enabled'
                     /\ funded /\ balance >= Cost[h]
                  THEN [At("charging") EXCEPT !.hint = h] ELSE At("done"))
  /\ UNCHANGED <<state, triggers, game, record, content, bought, funded, balance,
                 locks, missed>>

\* Mutant: the balance is not looked at again.
PurchaseChargeBlindly(r) ==
  /\ Pc(r) = "charging" /\ purse = None
  /\ Goto(r, [req[r] EXCEPT !.pc = "granting"])
  /\ purse' = r
  /\ UNCHANGED <<state, triggers, game, record, content, shop, lock, missed>>

\* The transaction locks the currency row and looks at the balance again.
PurchaseCharge(r) ==
  /\ Pc(r) = "charging" /\ purse = None
  /\ \/ /\ funded /\ balance >= Cost[req[r].hint]
        /\ Goto(r, [req[r] EXCEPT !.pc = "granting"])
        /\ purse' = r
     \/ /\ ~(funded /\ balance >= Cost[req[r].hint])
        /\ Goto(r, At("done"))
        /\ UNCHANGED purse
  /\ UNCHANGED <<state, triggers, game, record, content, shop, lock, missed>>

\* The inserts reference the team row.
PurchaseGrant(r) ==
  LET h == req[r].hint  new == HintTriggers[h] \ triggers IN
  /\ Pc(r) = "granting" /\ lock = None
  /\ balance' = balance - Cost[h]
  /\ bought' = bought \cup {h}
  /\ triggers' = triggers \cup new
  /\ dirty' = (dirty \/ new # {})
  /\ Goto(r, At(IF new # {} THEN "unlock" ELSE "done"))
  /\ EndTx(r)
  /\ UNCHANGED <<state, game, record, blocks, enabled, funded, missed>>

-----------------------------------------------------------------------------
(* unlock_new_puzzles and admin_unlock_puzzle_for_eligible_teams, statement *)
(* by statement: neither runs in a transaction.                            *)

\* Mutant: tp.state >= 0 for tp.state >= 1.
ReadOpened(r) ==
  /\ Pc(r) = "unlock"
  /\ Goto(r, [req[r] EXCEPT !.pc = "triggers", !.seen.started = started,
                            !.seen.solved = {p \in Puzzle : state[p] # "none"}])
  /\ UNCHANGED <<state, triggers, game, record, content, shop, locks, missed>>

ReadSolved(r) ==
  /\ Pc(r) = "unlock"
  /\ Goto(r, [req[r] EXCEPT !.pc = "triggers", !.seen.solved = Solved,
                            !.seen.started = started])
  /\ UNCHANGED <<state, triggers, game, record, content, shop, locks, missed>>

ReadTriggers(r) ==
  /\ Pc(r) = "triggers"
  /\ Goto(r, [req[r] EXCEPT !.pc = "insert", !.seen.triggers = triggers])
  /\ UNCHANGED <<state, triggers, game, record, content, shop, locks, missed>>

CheckTriggers(r) ==
  /\ Pc(r) = "check"
  /\ Goto(r, [req[r] EXCEPT !.pc = "candidates", !.seen.triggers = triggers])
  /\ UNCHANGED <<state, triggers, game, record, content, shop, locks, missed>>

\* A team that has a row for the puzzle is no candidate.
CheckCandidates(r) ==
  /\ Pc(r) = "candidates"
  /\ Goto(r, IF state[req[r].puzzle] = "none"
             THEN [req[r] EXCEPT !.pc = "insert", !.seen.solved = Solved,
                                 !.seen.started = started]
             ELSE At("done"))
  /\ UNCHANGED <<state, triggers, game, record, content, shop, locks, missed>>

\* What the pass finds to unlock in the gate state s; an administrator's pass is
\* for one puzzle, and opens one without a condition.
ToUnlock(q, s) ==
  IF q.puzzle = None
  THEN {p \in Puzzle \ (Unconditional \cup s.solved) : s \in UnlockCond[p]}
  ELSE {p \in {q.puzzle} : p \notin Unconditional => s \in UnlockCond[p]}

InsertUnlocked(r) ==
  LET new == {p \in ToUnlock(req[r], req[r].seen) : state[p] = "none"} IN
  /\ Pc(r) = "insert"
  /\ new # {} => lock = None
  /\ state' = [p \in Puzzle |-> IF p \in new THEN "open" ELSE state[p]]
  /\ Goto(r, At(IF new # {} THEN "mark" ELSE "done"))
  /\ UNCHANGED <<triggers, game, record, content, shop, locks, missed>>

\* Mutant: the rows are inserted and the content is left as it is.
MarkNothing(r) ==
  /\ Pc(r) = "mark" /\ lock = None
  /\ Goto(r, At("done"))
  /\ UNCHANGED <<state, triggers, game, record, content, shop, locks, missed>>

MarkDirty(r) ==
  /\ Pc(r) = "mark" /\ lock = None
  /\ dirty' = TRUE
  /\ Goto(r, At("done"))
  /\ UNCHANGED <<state, triggers, game, record, blocks, shop, locks, missed>>

-----------------------------------------------------------------------------
(* Administration.                                                         *)

\* What a pass has read may no longer be so.
Outdated == [q \in Request |->
  IF Pc(q) \in {"triggers", "candidates", "insert"} THEN [req[q] EXCEPT !.stale = TRUE]
  ELSE req[q]]

\* clear_states of one puzzle: a transaction, then a check unless it is declined.
Clear(r) ==
  /\ Pc(r) = "idle"
  /\ \E p \in Puzzle, check \in BOOLEAN :
       LET rows == state[p] # "none" \/ \E t \in triggers : Owner[t] = p IN
       /\ rows => lock = None
       /\ state' = [state EXCEPT ![p] = "none"]
       /\ triggers' = {t \in triggers : Owner[t] # p}
       /\ subs' = {s \in subs : s.puzzle # p}
       /\ cooling' = cooling \ {p}
       /\ enabled' = {h \in enabled : Owner[h] # p}
       /\ bought' = {h \in bought : Owner[h] # p}
       /\ dirty' = (dirty \/ rows)
       /\ req' = [Outdated EXCEPT ![r] =
                    IF check THEN [At("check") EXCEPT !.puzzle = p] ELSE At("done")]
       /\ missed' = IF check THEN missed ELSE missed \cup {"unlock"}
  /\ UNCHANGED <<game, blocks, funded, balance, locks>>

\* unlock_check.
UnlockCheck(r) ==
  /\ Pc(r) = "idle"
  /\ \E p \in Puzzle : Goto(r, [At("check") EXCEPT !.puzzle = p])
  /\ UNCHANGED <<state, triggers, game, record, content, shop, locks, missed>>

\* admin_update of the team: banned and start_at.
AdminUpdate(r) ==
  /\ Pc(r) = "idle" /\ lock = None
  /\ \E start \in BOOLEAN :
       /\ started' = start
       /\ dirty' = (dirty \/ start # started)
       /\ req' = [IF start THEN req ELSE Outdated
                  EXCEPT ![r] = At(IF start THEN "unlock" ELSE "done")]
  /\ banned' \in BOOLEAN
  /\ UNCHANGED <<state, triggers, finished, record, blocks, shop, locks, missed>>

-----------------------------------------------------------------------------
\* refresh_team_unlocks_if_dirty, one transaction that locks the team row.
Due(b) == state[Owner[b]] # "none" /\ Gate \in BlockCond[b]

ViewBlocks ==
  /\ lock = None /\ dirty
  /\ blocks' = blocks \cup {b \in Block : Due(b)}
  /\ dirty' = FALSE
  /\ UNCHANGED <<state, triggers, game, record, shop, locks, req, missed>>

\* cooldown_till passes.
CooldownEnds ==
  /\ cooling # {}
  /\ \E p \in cooling : cooling' = cooling \ {p}
  /\ UNCHANGED <<state, triggers, game, subs, content, shop, locks, req, missed>>

\* The amount grows with time, up to max_amount.
Grow ==
  /\ funded /\ balance < MaxAmount
  /\ balance' = balance + 1
  /\ UNCHANGED <<state, triggers, game, record, content, enabled, bought, funded,
                 locks, req, missed>>

-----------------------------------------------------------------------------
(* What goes wrong.                                                        *)

\* The owner of the team row waits for the currency row, or the reverse.
WantsPurse(r) ==
  \/ Pc(r) = "checking" /\ Minimum[req[r].puzzle] > 0
  \/ Pc(r) = "judging" /\ Charged(req[r].puzzle, req[r].verdict)

\* PostgreSQL breaks a deadlock by aborting one of the two transactions.
Deadlock(r) ==
  /\ r \in {lock, purse} /\ lock # None /\ purse # None /\ lock # purse
  /\ WantsPurse(lock) /\ Pc(purse) = "granting"
  /\ Goto(r, At("done"))
  /\ EndTx(r)
  /\ UNCHANGED <<state, triggers, game, record, content, shop, missed>>

\* A statement fails, or the process dies: an open transaction is rolled back, and
\* nobody takes up what was to follow a committed one.
Fail(r) ==
  /\ Pc(r) \notin {"idle", "done"}
  /\ missed' = missed \cup (CASE Pc(r) \in {"unlock", "triggers", "check", "candidates",
                                            "insert"} -> {"unlock"}
                              [] Pc(r) = "mark" -> {"content"}
                              [] OTHER -> {})
  /\ Goto(r, At("done"))
  /\ EndTx(r)
  /\ UNCHANGED <<state, triggers, game, record, content, shop>>

-----------------------------------------------------------------------------
Begin(r) ==
  \/ SubmitLock(r) \/ BackendAdd(r) \/ PurchaseRead(r)
  \/ Clear(r) \/ UnlockCheck(r) \/ AdminUpdate(r)

\* The next statement of a request that has begun.
Proceed(r) ==
  \/ SubmitCheck(r) \/ SubmitCommit(r) \/ BackendSolve(r)
  \/ PurchaseCharge(r) \/ PurchaseGrant(r)
  \/ ReadSolved(r) \/ ReadTriggers(r) \/ CheckTriggers(r) \/ CheckCandidates(r)
  \/ InsertUnlocked(r) \/ MarkDirty(r)

Next ==
  \/ \E r \in Request : Begin(r) \/ Proceed(r) \/ JudgeError(r) \/ Deadlock(r) \/ Fail(r)
  \/ ViewBlocks \/ CooldownEnds \/ Grow

Spec == Init /\ [][Next]_vars

\* Statements are executed, row locks are granted in the order of the requests,
\* and PostgreSQL looks for deadlocks.
Fairness == \A r \in Request : SF_vars(Proceed(r)) /\ WF_vars(Deadlock(r))

FairSpec == Spec /\ Fairness
-----------------------------------------------------------------------------
(* Properties.                                                             *)

\* A puzzle is opened only while its condition holds, although the gate state was
\* read in several statements; only an administrator's reset between the reads
\* and the insert can make it untrue (unlock_new_puzzles).
UnlockSound ==
  [][\A p \in Puzzle \ Unconditional :
       state[p] = "none" /\ state'[p] = "open" /\ Monotone(UnlockCond[p]) =>
          \/ Gate \in UnlockCond[p]
          \/ \E r \in Request : req[r].stale /\ Pc(r) = "insert" /\ req'[r].pc = "mark"]_vars

\* The gate state that the pass of r will have read if nothing changes any more.
WillSee(r) ==
  CASE Pc(r) \in {"unlock", "check"} -> Gate
    [] Pc(r) = "triggers" -> [req[r].seen EXCEPT !.triggers = triggers]
    [] Pc(r) = "candidates" -> [Gate EXCEPT !.triggers = req[r].seen.triggers]
    [] OTHER -> req[r].seen

Passing(r) == Pc(r) \in {"unlock", "triggers", "check", "candidates", "insert"}

\* A puzzle whose condition holds is open, or a request that is still running will
\* open it, whatever requests overlap; unless one failed on the way, or an
\* administrator asked for no check (do_unlock of submit_answer, purchase_hint,
\* solve_backend_puzzle).
UnlockComplete ==
  \A p \in Puzzle \ Unconditional :
     state[p] = "none" /\ Monotone(UnlockCond[p]) /\ Gate \in UnlockCond[p] =>
        \/ "unlock" \in missed
        \/ \E r \in Request : Passing(r) /\ p \in ToUnlock(req[r], WillSee(r))

\* A team whose content is not dirty sees every block that is due
\* (content_blocks_dirty, refresh_team_unlocks_if_dirty).
ContentComplete ==
  ~dirty => \A b \in Block :
     Due(b) => \/ b \in blocks \/ "content" \in missed
               \/ \E r \in Request : Pc(r) = "mark"

\* A submission of the team counts as a failure only within max_submit and outside
\* the cooldown, however many members submit at once.
SubmitLimit ==
  [][\A p \in Puzzle, r \in Request :
       Pc(r) = "judging" /\ Counted(p)' # Counted(p) /\ req'[r].pc # "judging" =>
          Cardinality(Counted(p)) < MaxSubmit /\ p \notin cooling]_vars

\* Buying a hint never overdraws the currency, although the balance was first read
\* outside the transaction (purchase_hint).
NoOverdraft ==
  [][\A r \in Request :
       Pc(r) = "granting" /\ balance' < balance => balance' >= 0]_vars

\* Every request comes to an end: the two row locks leave nobody waiting for ever.
RequestsEnd == \A r \in Request : Pc(r) # "idle" ~> Pc(r) = "done"
=============================================================================
