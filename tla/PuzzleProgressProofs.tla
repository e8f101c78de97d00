------------------------ MODULE PuzzleProgressProofs ------------------------
(***************************************************************************)
(* The safety properties of PuzzleProgress, for any number of requests,    *)
(* puzzles, answers, triggers, hints and blocks, any rules and conditions. *)
(*                                                                         *)
(* Two row locks carry the limits: a request that judges an answer holds   *)
(* the team's row and one that grants a hint the row of the currency       *)
(* (Holding), so that what it found before stays true until it writes      *)
(* (Within, Funds).  Nothing is locked by an unlock pass.  What it has     *)
(* read is still reached, or was marked as reset (Fresh); and each gate    *)
(* state that the team has reached is left to a pass that will have seen   *)
(* at least that much (Covered).                                           *)
(***************************************************************************)
EXTENDS PuzzleProgress, FiniteSetTheorems, TLAPS

\* The row of a request, and what it has at hand in each phase.
Row == [pc: Phase, puzzle: Puzzle \cup {None}, answer: Answer \cup {None},
        hint: Hint \cup {None}, verdict: Verdict \cup {None}, seen: GateState,
        stale: BOOLEAN]

Equipped(q) ==
  /\ q.pc \in {"checking", "judging", "backend"} => q.puzzle \in Puzzle /\ q.answer \in Answer
  /\ q.pc = "judging" => q.verdict \in Verdict
  /\ q.pc \in {"charging", "granting"} => q.hint \in Hint
  /\ q.pc \in {"check", "candidates"} => q.puzzle \in Puzzle

AllEquipped == \A r \in Request : Equipped(req[r])

Types == TypeOK /\ AllEquipped

\* A request's own step, whatever it is.
Act(r) == Begin(r) \/ Proceed(r) \/ JudgeError(r) \/ Deadlock(r) \/ Fail(r)

-----------------------------------------------------------------------------
\* The rows that the steps make.
LEMMA AtRow ==
  ASSUME NEW s \in Phase \ {"checking", "judging", "backend", "charging", "granting",
                            "check", "candidates"}
  PROVE  At(s) \in Row /\ Equipped(At(s)) /\ At(s).pc = s
BY DEF At, Row, GateState, Equipped

\* The row of a submission, and that of a call from a puzzle backend.
LEMMA AtPuzzleRow ==
  ASSUME NEW p \in Puzzle, NEW a \in Answer, NEW s \in {"checking", "backend"}
  PROVE  LET q == [At(s) EXCEPT !.puzzle = p, !.answer = a]
         IN  q \in Row /\ Equipped(q) /\ q.pc = s
<1>1. At(s) \in Row
  BY DEF At, Row, GateState, Phase
<1> QED BY <1>1 DEF At, Row, Equipped

\* The row of a check that an administrator asks for.
LEMMA CheckRow ==
  ASSUME NEW p \in Puzzle
  PROVE  LET q == [At("check") EXCEPT !.puzzle = p]
         IN  q \in Row /\ Equipped(q) /\ q.pc = "check"
<1>1. At("check") \in Row
  BY DEF At, Row, GateState, Phase
<1> QED BY <1>1 DEF At, Row, Equipped

\* The row of a purchase.
LEMMA HintRow ==
  ASSUME NEW h \in Hint
  PROVE  LET q == [At("charging") EXCEPT !.hint = h]
         IN  q \in Row /\ Equipped(q) /\ q.pc = "charging"
<1>1. At("charging") \in Row
  BY DEF At, Row, GateState, Phase
<1> QED BY <1>1 DEF At, Row, Equipped

\* A request's row changes to one that fits: the rows keep their types.
LEMMA GotoTypes ==
  ASSUME Types, NEW r \in Request, NEW s \in Row, Equipped(s), Goto(r, s)
  PROVE  req' \in [Request -> Row] /\ AllEquipped'
<1>1. req \in [Request -> Row]
  BY DEF Types, TypeOK, Row
<1>2. req' = [req EXCEPT ![r] = s]
  BY DEF Goto
<1>3. \A q \in Request : req'[q] = IF q = r THEN s ELSE req[q]
  BY <1>1, <1>2
<1> QED BY <1>1, <1>2, <1>3 DEF Types, AllEquipped

\* What happens to the row locks in a transaction's end.
LEMMA EndTxTypes ==
  ASSUME TypeOK, NEW r \in Request, EndTx(r)
  PROVE  lock' \in Request \cup {None} /\ purse' \in Request \cup {None}
BY DEF TypeOK, EndTx, Unlocked

\* Marking a row stale changes nothing else in it.
LEMMA StaleRow ==
  ASSUME NEW q \in Row, Equipped(q)
  PROVE  LET s == [q EXCEPT !.stale = TRUE]
         IN  /\ s \in Row /\ Equipped(s)
             /\ s.pc = q.pc /\ s.puzzle = q.puzzle /\ s.answer = q.answer
             /\ s.hint = q.hint /\ s.verdict = q.verdict /\ s.seen = q.seen /\ s.stale
BY DEF Row, Equipped


\* TypeOK without the rows of the requests.
Rest ==
  /\ state \in [Puzzle -> {"none", "open", "solved"}]
  /\ triggers \subseteq Trigger
  /\ subs \subseteq Submission /\ cooling \subseteq Puzzle
  /\ blocks \subseteq Block /\ enabled \subseteq Hint /\ bought \subseteq Hint
  /\ balance \in Int
  /\ lock \in Request \cup {None} /\ purse \in Request \cup {None}
  /\ missed \subseteq {"unlock", "content"}

Flags ==
  /\ started \in BOOLEAN /\ finished \in BOOLEAN /\ banned \in BOOLEAN
  /\ dirty \in BOOLEAN /\ funded \in BOOLEAN

\* Types, in three parts: most steps change only one of them.
LEMMA TypesSplit ==
  Types <=> Rest /\ Flags /\ req \in [Request -> Row] /\ AllEquipped
BY DEF Types, TypeOK, Rest, Flags, Row

\* The same of the next state.
LEMMA TypesJoin ==
  ASSUME Rest', Flags', req' \in [Request -> Row], AllEquipped'
  PROVE  Types'
BY DEF Types, TypeOK, Rest, Flags, Row

\* A new team's rows have their types.
LEMMA InitTypes == ASSUME Init PROVE Types
<1>1. At("idle") \in Row /\ Equipped(At("idle"))
  BY AtRow DEF Phase
<1>2. req \in [Request -> Row] /\ AllEquipped
  BY <1>1 DEF Init, AllEquipped
<1>3. Flags
  BY Zenon DEF Init, Flags
<1>4. Rest
  BY DEF Init, Rest
<1> QED BY <1>2, <1>3, <1>4, TypesSplit

\* submit_answer keeps the types.
LEMMA SubmitLockTypes ==
  ASSUME Types, NEW r \in Request, SubmitLock(r)
  PROVE  Types'
<1>1. PICK p \in Puzzle, a \in Answer :
         Goto(r, [At("checking") EXCEPT !.puzzle = p, !.answer = a])
  BY DEF SubmitLock
<1>2. req' \in [Request -> Row] /\ AllEquipped'
  BY <1>1, AtPuzzleRow, GotoTypes
<1>3. Rest'
  BY TypesSplit DEF SubmitLock, Rest, record, content, shop
<1>4. Flags'
  BY TypesSplit DEF SubmitLock, Flags, game, content, shop
<1> QED BY <1>2, <1>3, <1>4, TypesJoin

\* The second step of submit_answer: the checks under the team row.
LEMMA SubmitCheckTypes ==
  ASSUME Types, NEW r \in Request, SubmitCheck(r)
  PROVE  Types'
<1> DEFINE p == req[r].puzzle  a == req[r].answer
<1>0. req[r] \in Row /\ p \in Puzzle /\ a \in Answer
  BY TypesSplit DEF SubmitCheck, Pc, AllEquipped, Equipped
<1>1. req' \in [Request -> Row] /\ AllEquipped'
  <2>1. CASE \E v \in Rules[p, a] : Goto(r, [req[r] EXCEPT !.pc = "judging", !.verdict = v])
    <3>1. PICK v \in Rules[p, a] : Goto(r, [req[r] EXCEPT !.pc = "judging", !.verdict = v])
      BY <2>1
    <3>2. v \in Verdict
      BY <1>0, <3>1, ConstantAssumption
    <3> DEFINE q == [req[r] EXCEPT !.pc = "judging", !.verdict = v]
    <3>3. q \in Row
      BY <1>0, <3>2 DEF Row, Phase
    <3>4. q.pc = "judging" /\ q.puzzle = p /\ q.answer = a /\ q.verdict = v
      BY <1>0 DEF Row
    <3>5. Equipped(q)
      BY <1>0, <3>2, <3>4 DEF Equipped
    <3> QED BY <3>1, <3>3, <3>5, GotoTypes
  <2>2. CASE Goto(r, At("done"))
    BY <2>2, AtRow, GotoTypes DEF Phase
  <2> QED BY <2>1, <2>2 DEF SubmitCheck
<1>2. Rest'
  <2>1. lock' \in Request \cup {None} /\ purse' \in Request \cup {None}
    BY TypesSplit, EndTxTypes DEF SubmitCheck, Rest, Types
  <2> QED BY <2>1, TypesSplit DEF SubmitCheck, Rest, record, content, shop
<1>3. Flags'
  BY TypesSplit DEF SubmitCheck, Flags, game, content, shop
<1> QED BY <1>1, <1>2, <1>3, TypesJoin

\* The third step of submit_answer: what it writes.
LEMMA SubmitCommitTypes ==
  ASSUME Types, NEW r \in Request, SubmitCommit(r)
  PROVE  Types'
<1> DEFINE p == req[r].puzzle  a == req[r].answer  v == req[r].verdict
<1>0. p \in Puzzle /\ a \in Answer /\ v \in Verdict
  BY TypesSplit DEF SubmitCommit, Pc, AllEquipped, Equipped
<1>1. req' \in [Request -> Row] /\ AllEquipped'
  BY AtRow, GotoTypes DEF SubmitCommit, Phase
<1>2. Rest'
  <2>1. lock' \in Request \cup {None} /\ purse' \in Request \cup {None}
    BY TypesSplit, EndTxTypes DEF SubmitCommit, Types
  <2>3. [puzzle |-> p, answer |-> a, action |-> v.action,
         ignored |-> v.ignored \/ v.action = "error"] \in Submission
    BY <1>0 DEF Submission, Verdict
  <2>4. subs' \subseteq Submission
    BY <2>3, TypesSplit DEF SubmitCommit, Rest
  <2>5. triggers' \subseteq Trigger
    BY <1>0, TypesSplit DEF SubmitCommit, Rest, Fired, Verdict
  <2>6. state' \in [Puzzle -> {"none", "open", "solved"}]
    BY <1>0, TypesSplit DEF SubmitCommit, Rest
  <2>7. balance' \in Int
    BY <1>0, TypesSplit, ConstantAssumption DEF SubmitCommit, Rest, Balance
  <2>8. cooling' \subseteq Puzzle
    BY <1>0, TypesSplit DEF SubmitCommit, Rest, Cooled
  <2> QED BY <2>1, <2>4, <2>5, <2>6, <2>7, <2>8, TypesSplit DEF SubmitCommit, Rest
<1>3. Flags'
  BY TypesSplit, Zenon DEF SubmitCommit, Flags
<1> QED BY <1>1, <1>2, <1>3, TypesJoin

\* The steps after which the request is done, and nothing else but the locks changes.
LEMMA EndTypes ==
  ASSUME Types, NEW r \in Request, JudgeError(r) \/ Deadlock(r) \/ Fail(r)
  PROVE  Types'
<1>1. Goto(r, At("done")) /\ EndTx(r)
  BY DEF JudgeError, Deadlock, Fail
<1>2. UNCHANGED <<state, triggers, game, record, content, shop>>
  BY DEF JudgeError, Deadlock, Fail
<1>3. missed' \subseteq {"unlock", "content"}
  BY TypesSplit DEF JudgeError, Deadlock, Fail, Rest
<1>4. req' \in [Request -> Row] /\ AllEquipped'
  BY <1>1, AtRow, GotoTypes DEF Phase
<1>5. Rest'
  BY <1>1, <1>2, <1>3, TypesSplit, EndTxTypes DEF Types, Rest, record, content, shop
<1>6. Flags'
  BY <1>2, TypesSplit DEF Flags, game, content, shop
<1> QED BY <1>4, <1>5, <1>6, TypesJoin

\* A puzzle backend keeps the types.
LEMMA BackendTypes ==
  ASSUME Types, NEW r \in Request, BackendAdd(r) \/ BackendSolve(r)
  PROVE  Types'
<1>1. CASE BackendAdd(r)
  <2>1. PICK p \in Puzzle, a \in Answer, add \in Added :
          IF ~add.ignored /\ Taken(p, a)
          THEN Goto(r, At("done")) /\ UNCHANGED subs
          ELSE /\ Goto(r, [At("backend") EXCEPT !.puzzle = p, !.answer = a])
               /\ subs' = subs \cup {[puzzle |-> p, answer |-> a, action |-> add.action,
                                      ignored |-> add.ignored]}
    BY <1>1 DEF BackendAdd
  <2>2. req' \in [Request -> Row] /\ AllEquipped'
    <3>1. CASE Goto(r, At("done"))
      BY <3>1, AtRow, GotoTypes DEF Phase
    <3>2. CASE Goto(r, [At("backend") EXCEPT !.puzzle = p, !.answer = a])
      BY <3>2, AtPuzzleRow, GotoTypes
    <3> QED BY <2>1, <3>1, <3>2
  <2>3. [puzzle |-> p, answer |-> a, action |-> add.action,
         ignored |-> add.ignored] \in Submission
    BY ConstantAssumption DEF Submission
  <2>4. subs' \subseteq Submission
    BY <2>1, <2>3, TypesSplit DEF Rest
  <2>5. Rest'
    BY <1>1, <2>4, TypesSplit DEF BackendAdd, Rest, content, shop, locks
  <2>6. Flags'
    BY <1>1, TypesSplit DEF BackendAdd, Flags, game, content, shop
  <2> QED BY <2>2, <2>5, <2>6, TypesJoin
<1>2. CASE BackendSolve(r)
  <2>1. req[r].puzzle \in Puzzle
    BY <1>2, TypesSplit DEF BackendSolve, Pc, AllEquipped, Equipped
  <2>2. req' \in [Request -> Row] /\ AllEquipped'
    BY <1>2, AtRow, GotoTypes DEF BackendSolve, Phase
  <2>3. state' \in [Puzzle -> {"none", "open", "solved"}]
    BY <1>2, <2>1, TypesSplit DEF BackendSolve, Rest
  <2>4. Rest'
    BY <1>2, <2>3, TypesSplit DEF BackendSolve, Rest, record, shop, locks
  <2>5. finished' \in BOOLEAN /\ dirty' \in BOOLEAN
    BY <1>2, TypesSplit, Zenon DEF BackendSolve, Flags
  <2>6. Flags'
    BY <1>2, <2>5, TypesSplit DEF BackendSolve, Flags, shop
  <2> QED BY <2>2, <2>4, <2>6, TypesJoin
<1> QED BY <1>1, <1>2

\* purchase_hint keeps the types.
LEMMA PurchaseTypes ==
  ASSUME Types, NEW r \in Request, PurchaseRead(r) \/ PurchaseCharge(r) \/ PurchaseGrant(r)
  PROVE  Types'
<1>1. CASE PurchaseRead(r)
  <2>1. PICK h \in Hint :
          /\ enabled' = Enabled(Owner[h])
          /\ \/ Goto(r, [At("charging") EXCEPT !.hint = h])
             \/ Goto(r, At("done"))
    BY <1>1, Zenon DEF PurchaseRead
  <2>2. req' \in [Request -> Row] /\ AllEquipped'
    <3>1. CASE Goto(r, [At("charging") EXCEPT !.hint = h])
      BY <3>1, HintRow, GotoTypes
    <3>2. CASE Goto(r, At("done"))
      BY <3>2, AtRow, GotoTypes DEF Phase
    <3> QED BY <2>1, <3>1, <3>2
  <2>3. enabled' \subseteq Hint
    BY <2>1, TypesSplit DEF Rest, Enabled, Waiting
  <2>4. Rest'
    BY <1>1, <2>3, TypesSplit DEF PurchaseRead, Rest, record, content, locks
  <2>5. Flags'
    BY <1>1, TypesSplit DEF PurchaseRead, Flags, game, content
  <2> QED BY <2>2, <2>4, <2>5, TypesJoin
<1>2. CASE PurchaseCharge(r)
  <2>1. req' \in [Request -> Row] /\ AllEquipped'
    <3>1. CASE Goto(r, [req[r] EXCEPT !.pc = "granting"])
      <4> DEFINE q == [req[r] EXCEPT !.pc = "granting"]
      <4>1. req[r] \in Row /\ req[r].hint \in Hint
        BY <1>2, TypesSplit DEF PurchaseCharge, Pc, AllEquipped, Equipped
      <4>2. q \in Row
        BY <4>1 DEF Row, Phase
      <4>3. q.pc = "granting" /\ q.hint = req[r].hint
        BY <4>1 DEF Row
      <4>4. Equipped(q)
        BY <4>1, <4>3 DEF Equipped
      <4> QED BY <3>1, <4>2, <4>4, GotoTypes
    <3>2. CASE Goto(r, At("done"))
      BY <3>2, AtRow, GotoTypes DEF Phase
    <3> QED BY <1>2, <3>1, <3>2 DEF PurchaseCharge
  <2>2. Rest'
    BY <1>2, TypesSplit DEF PurchaseCharge, Rest, record, content, shop
  <2>3. Flags'
    BY <1>2, TypesSplit DEF PurchaseCharge, Flags, game, content, shop
  <2> QED BY <2>1, <2>2, <2>3, TypesJoin
<1>3. CASE PurchaseGrant(r)
  <2>1. req[r].hint \in Hint
    BY <1>3, TypesSplit DEF PurchaseGrant, Pc, AllEquipped, Equipped
  <2>2. req' \in [Request -> Row] /\ AllEquipped'
    BY <1>3, AtRow, GotoTypes DEF PurchaseGrant, Phase
  <2>3. lock' \in Request \cup {None} /\ purse' \in Request \cup {None}
    BY <1>3, TypesSplit, EndTxTypes DEF PurchaseGrant, Types
  <2>4. balance' \in Int /\ bought' \subseteq Hint /\ triggers' \subseteq Trigger
    BY <1>3, <2>1, TypesSplit, ConstantAssumption DEF PurchaseGrant, Rest
  <2>5. Rest'
    BY <1>3, <2>3, <2>4, TypesSplit DEF PurchaseGrant, Rest, record
  <2>6. Flags'
    BY <1>3, TypesSplit, Zenon DEF PurchaseGrant, Flags, game
  <2> QED BY <2>2, <2>5, <2>6, TypesJoin
<1> QED BY <1>1, <1>2, <1>3

\* The unlock passes keep the types.
LEMMA GateType == ASSUME Types PROVE Gate \in GateState
<1>1. Solved \in SUBSET Puzzle /\ triggers \in SUBSET Trigger
  BY TypesSplit DEF Solved, Rest
<1>2. started \in BOOLEAN
  BY TypesSplit DEF Flags
<1> QED BY <1>1, <1>2 DEF Gate, GateState

\* The reading steps of unlock_new_puzzles, and those of an administrator's check.
LEMMA ReadTypes ==
  ASSUME Types, NEW r \in Request,
         ReadSolved(r) \/ ReadTriggers(r) \/ CheckTriggers(r) \/ CheckCandidates(r)
  PROVE  Types'
<1>1. req[r] \in Row /\ Equipped(req[r])
  BY TypesSplit DEF AllEquipped
<1>2. Solved \in SUBSET Puzzle /\ triggers \in SUBSET Trigger /\ started \in BOOLEAN
  BY TypesSplit DEF Solved, Rest, Flags
<1>3. req' \in [Request -> Row] /\ AllEquipped'
  <2>1. CASE ReadSolved(r)
    <3> DEFINE q == [req[r] EXCEPT !.pc = "triggers", !.seen.solved = Solved,
                                   !.seen.started = started]
    <3>1. q \in Row
      BY <1>1, <1>2 DEF Row, Phase, GateState
    <3>2. q.pc = "triggers"
      BY <1>1 DEF Row
    <3>3. Equipped(q) /\ Goto(r, q)
      BY <2>1, <3>2 DEF Equipped, ReadSolved
    <3> QED BY <3>1, <3>3, GotoTypes
  <2>2. CASE ReadTriggers(r)
    <3> DEFINE q == [req[r] EXCEPT !.pc = "insert", !.seen.triggers = triggers]
    <3>1. q \in Row
      BY <1>1, <1>2 DEF Row, Phase, GateState
    <3>2. q.pc = "insert"
      BY <1>1 DEF Row
    <3>3. Equipped(q) /\ Goto(r, q)
      BY <2>2, <3>2 DEF Equipped, ReadTriggers
    <3> QED BY <3>1, <3>3, GotoTypes
  <2>3. CASE CheckTriggers(r)
    <3> DEFINE q == [req[r] EXCEPT !.pc = "candidates", !.seen.triggers = triggers]
    <3>1. q \in Row
      BY <1>1, <1>2 DEF Row, Phase, GateState
    <3>2. q.pc = "candidates" /\ q.puzzle = req[r].puzzle /\ req[r].puzzle \in Puzzle
      BY <1>1, <2>3 DEF Row, Equipped, CheckTriggers, Pc
    <3>3. Equipped(q) /\ Goto(r, q)
      BY <2>3, <3>2 DEF Equipped, CheckTriggers
    <3> QED BY <3>1, <3>3, GotoTypes
  <2>4. CASE CheckCandidates(r)
    <3> DEFINE q == [req[r] EXCEPT !.pc = "insert", !.seen.solved = Solved,
                                   !.seen.started = started]
    <3>1. q \in Row
      BY <1>1, <1>2 DEF Row, Phase, GateState
    <3>2. q.pc = "insert"
      BY <1>1 DEF Row
    <3>3. Equipped(q)
      BY <3>2 DEF Equipped
    <3>4. CASE Goto(r, q)
      BY <3>1, <3>3, <3>4, GotoTypes
    <3>5. CASE Goto(r, At("done"))
      BY <3>5, AtRow, GotoTypes DEF Phase
    <3> QED BY <2>4, <3>4, <3>5 DEF CheckCandidates
  <2> QED BY <2>1, <2>2, <2>3, <2>4
<1>4. UNCHANGED <<state, triggers, game, record, content, shop, locks, missed>>
  BY DEF ReadSolved, ReadTriggers, CheckTriggers, CheckCandidates
<1>5. Rest'
  BY <1>4, TypesSplit DEF Rest, record, content, shop, locks
<1>6. Flags'
  BY <1>4, TypesSplit DEF Flags, game, content, shop
<1> QED BY <1>3, <1>5, <1>6, TypesJoin

\* The writing steps of unlock_new_puzzles.
LEMMA InsertTypes ==
  ASSUME Types, NEW r \in Request, InsertUnlocked(r) \/ MarkDirty(r)
  PROVE  Types'
<1>1. req' \in [Request -> Row] /\ AllEquipped'
  BY AtRow, GotoTypes DEF InsertUnlocked, MarkDirty, Phase
<1>2. Rest'
  BY TypesSplit DEF InsertUnlocked, MarkDirty, Rest, record, content, shop, locks
<1>3. Flags'
  BY TypesSplit DEF InsertUnlocked, MarkDirty, Flags, game, content, shop
<1> QED BY <1>1, <1>2, <1>3, TypesJoin

\* A reset marks the rows of the others as stale; they keep their types.
LEMMA OutdatedTypes ==
  ASSUME Types, NEW r \in Request, NEW s \in Row, Equipped(s),
         req' = [Outdated EXCEPT ![r] = s]
  PROVE  req' \in [Request -> Row] /\ AllEquipped'
<1>1. req \in [Request -> Row] /\ AllEquipped
  BY TypesSplit
<1>2. Outdated \in [Request -> Row] /\ \A q \in Request : Equipped(Outdated[q])
  BY <1>1, StaleRow DEF Outdated, AllEquipped
<1>3. \A q \in Request : req'[q] = IF q = r THEN s ELSE Outdated[q]
  BY <1>2
<1> QED BY <1>2, <1>3 DEF AllEquipped

\* The three requests of administrators keep the types.
LEMMA AdminTypes ==
  ASSUME Types, NEW r \in Request, Clear(r) \/ UnlockCheck(r) \/ AdminUpdate(r)
  PROVE  Types'
<1>1. CASE Clear(r)
  <2>1. PICK p \in Puzzle, check \in BOOLEAN :
          /\ state' = [state EXCEPT ![p] = "none"]
          /\ triggers' = {t \in triggers : Owner[t] # p}
          /\ subs' = {s \in subs : s.puzzle # p}
          /\ cooling' = cooling \ {p}
          /\ enabled' = {h \in enabled : Owner[h] # p}
          /\ bought' = {h \in bought : Owner[h] # p}
          /\ dirty' = (dirty \/ (state[p] # "none" \/ \E t \in triggers : Owner[t] = p))
          /\ req' = [Outdated EXCEPT ![r] =
                       IF check THEN [At("check") EXCEPT !.puzzle = p] ELSE At("done")]
          /\ missed' = IF check THEN missed ELSE missed \cup {"unlock"}
    BY <1>1, Zenon DEF Clear
  <2>2. req' \in [Request -> Row] /\ AllEquipped'
    BY <2>1, AtRow, CheckRow, OutdatedTypes DEF Phase
  <2>3. state' \in [Puzzle -> {"none", "open", "solved"}]
    BY <2>1, TypesSplit DEF Rest
  <2>4. Rest'
    BY <1>1, <2>1, <2>3, TypesSplit DEF Clear, Rest, locks
  <2>5. dirty' \in BOOLEAN
    BY <2>1, Zenon
  <2>6. Flags'
    BY <1>1, <2>5, TypesSplit DEF Clear, Flags, game
  <2> QED BY <2>2, <2>4, <2>6, TypesJoin
<1>2. CASE UnlockCheck(r)
  <2>1. req' \in [Request -> Row] /\ AllEquipped'
    BY <1>2, CheckRow, GotoTypes DEF UnlockCheck
  <2>2. Rest'
    BY <1>2, TypesSplit DEF UnlockCheck, Rest, record, content, shop, locks
  <2>3. Flags'
    BY <1>2, TypesSplit DEF UnlockCheck, Flags, game, content, shop
  <2> QED BY <2>1, <2>2, <2>3, TypesJoin
<1>3. CASE AdminUpdate(r)
  <2>1. PICK start \in BOOLEAN :
          /\ started' = start
          /\ dirty' = (dirty \/ start # started)
          /\ req' = [IF start THEN req ELSE Outdated
                     EXCEPT ![r] = At(IF start THEN "unlock" ELSE "done")]
    BY <1>3 DEF AdminUpdate
  <2>2. req' \in [Request -> Row] /\ AllEquipped'
    <3>1. CASE start
      BY <2>1, <3>1, AtRow, GotoTypes DEF Phase, Goto
    <3>2. CASE ~start
      BY <2>1, <3>2, AtRow, OutdatedTypes DEF Phase
    <3> QED BY <3>1, <3>2
  <2>3. Rest'
    BY <1>3, TypesSplit DEF AdminUpdate, Rest, record, shop, locks
  <2>4. dirty' \in BOOLEAN /\ started' \in BOOLEAN
    BY <2>1, Zenon
  <2>5. Flags'
    BY <1>3, <2>4, TypesSplit DEF AdminUpdate, Flags, shop
  <2> QED BY <2>2, <2>3, <2>5, TypesJoin
<1> QED BY <1>1, <1>2, <1>3

\* So do the steps that no request makes.
LEMMA WorldTypes ==
  ASSUME Types, ViewBlocks \/ CooldownEnds \/ Grow
  PROVE  Types'
<1>1. req' = req
  BY DEF ViewBlocks, CooldownEnds, Grow
<1>2. Rest'
  BY TypesSplit DEF ViewBlocks, CooldownEnds, Grow, Rest, record, content, shop, locks
<1>3. dirty' \in BOOLEAN
  BY TypesSplit DEF ViewBlocks, CooldownEnds, Grow, Flags, content
<1>4. Flags'
  BY <1>3, TypesSplit DEF ViewBlocks, CooldownEnds, Grow, Flags, game, content, shop
<1> QED BY <1>1, <1>2, <1>4, TypesSplit, TypesJoin DEF AllEquipped

\* So does a step that changes nothing.
LEMMA StutterTypes == ASSUME Types, UNCHANGED vars PROVE Types'
<1>1. req' = req
  BY DEF vars
<1>2. Rest'
  BY TypesSplit DEF vars, Rest, record, content, shop, locks
<1>3. Flags'
  BY TypesSplit DEF vars, Flags, game, content, shop
<1> QED BY <1>1, <1>2, <1>3, TypesSplit, TypesJoin DEF AllEquipped

\* Thus every step keeps the types.
LEMMA NextTypes == ASSUME Types, [Next]_vars PROVE Types'
<1>1. ASSUME NEW r \in Request, Begin(r) PROVE Types'
  BY <1>1, SubmitLockTypes, BackendTypes, PurchaseTypes, AdminTypes DEF Begin
<1>2. ASSUME NEW r \in Request, Proceed(r) PROVE Types'
  BY <1>2, SubmitCheckTypes, SubmitCommitTypes, BackendTypes, PurchaseTypes, ReadTypes,
     InsertTypes DEF Proceed
<1> QED BY <1>1, <1>2, EndTypes, WorldTypes, StutterTypes DEF Next

\* The variables have their types (the rows and columns that submit_answer, purchase_hint,
\* the unlock passes and the administrative handlers write).
THEOREM TypeCorrect == Spec => []TypeOK
<1>1. Types => TypeOK
  BY DEF Types
<1> QED BY <1>1, InitTypes, NextTypes, PTL DEF Spec

-----------------------------------------------------------------------------
(* What a request's step leaves to the others.                             *)

\* The locals of a request, but for the mark that they are stale.
Keeps(q) ==
  /\ req'[q].pc = req[q].pc /\ req'[q].puzzle = req[q].puzzle
  /\ req'[q].hint = req[q].hint /\ req'[q].seen = req[q].seen

\* A step that moves its own row leaves the others alone.
LEMMA GotoKeeps ==
  ASSUME Types, NEW r \in Request, NEW q \in Request \ {r}, NEW s, Goto(r, s)
  PROVE  Keeps(q)
BY TypesSplit DEF Goto, Keeps

\* A reset leaves them alone but for the mark.
LEMMA OutdatedKeeps ==
  ASSUME Types, NEW r \in Request, NEW q \in Request \ {r}, NEW s,
         req' = [Outdated EXCEPT ![r] = s]
  PROVE  Keeps(q)
<1>1. req[q] \in Row /\ Equipped(req[q])
  BY TypesSplit DEF AllEquipped
<1>2. req'[q] \in {req[q], [req[q] EXCEPT !.stale = TRUE]}
  BY DEF Outdated
<1> QED BY <1>1, <1>2, StaleRow DEF Keeps

\* Thus no request changes the locals of another.
LEMMA Others ==
  ASSUME Types, NEW r \in Request, NEW q \in Request \ {r}, Act(r)
  PROVE  Keeps(q)
<1>1. CASE Clear(r)
  BY <1>1, OutdatedKeeps, Zenon DEF Clear
<1>2. CASE AdminUpdate(r)
  <2>1. PICK start \in BOOLEAN :
          req' = [IF start THEN req ELSE Outdated
                  EXCEPT ![r] = At(IF start THEN "unlock" ELSE "done")]
    BY <1>2 DEF AdminUpdate
  <2>2. CASE start
    BY <2>1, <2>2, GotoKeeps DEF Goto
  <2>3. CASE ~start
    BY <2>1, <2>3, OutdatedKeeps
  <2> QED BY <2>2, <2>3
<1>3. CASE ~Clear(r) /\ ~AdminUpdate(r)
  <2>1. \E s : Goto(r, s)
    BY <1>3, Zenon DEF Act, Begin, Proceed, SubmitLock, BackendAdd, PurchaseRead, UnlockCheck,
       SubmitCheck, SubmitCommit, BackendSolve, PurchaseCharge, PurchaseGrant, ReadSolved,
       ReadTriggers, CheckTriggers, CheckCandidates, InsertUnlocked, MarkDirty,
       JudgeError, Deadlock, Fail
  <2> QED BY <2>1, GotoKeeps
<1> QED BY <1>1, <1>2, <1>3

\* A row lock is kept by the request that holds it.
LEMMA LocksKept ==
  ASSUME NEW r \in Request, NEW q \in Request \ {r}, Act(r)
  PROVE  (lock = q => lock' = q) /\ (purse = q => purse' = q)
<1>1. CASE Begin(r)
  BY <1>1, ConstantAssumption DEF Begin, SubmitLock, BackendAdd, PurchaseRead, Clear, UnlockCheck,
     AdminUpdate, locks
<1>2. CASE Proceed(r)
  BY <1>2, ConstantAssumption DEF Proceed, SubmitCheck, SubmitCommit, BackendSolve, PurchaseCharge,
     PurchaseGrant, ReadSolved, ReadTriggers, CheckTriggers, CheckCandidates, InsertUnlocked,
     MarkDirty, EndTx, Unlocked, locks, Free
<1>3. CASE JudgeError(r) \/ Deadlock(r) \/ Fail(r)
  BY <1>3 DEF JudgeError, Deadlock, Fail, EndTx, Unlocked
<1> QED BY <1>1, <1>2, <1>3 DEF Act

-----------------------------------------------------------------------------
(* The two row locks.                                                      *)

\* A submission is checked and judged under the team row, a hint granted under the
\* currency row.
Holding ==
  \A r \in Request :
    /\ Pc(r) \in {"checking", "judging"} => lock = r
    /\ Pc(r) = "granting" => purse = r

\* Where a step of its own takes a request.
LEMMA Lands ==
  ASSUME Types, NEW r \in Request, NEW s, Goto(r, s)
  PROVE  req'[r] = s
BY TypesSplit DEF Goto

\* The phase of a row that a step makes.
LEMMA AtPc == \A s : At(s).pc = s
BY DEF At

\* Where the first step of a request leads; it judges nothing and grants nothing yet.
LEMMA BeginPc ==
  ASSUME Types, NEW r \in Request, Begin(r)
  PROVE  /\ Pc(r)' \in {"checking", "backend", "charging", "check", "unlock", "done"}
         /\ Pc(r)' = "checking" => SubmitLock(r)
<1>1. CASE SubmitLock(r)
  <2>1. PICK p \in Puzzle, a \in Answer :
          Goto(r, [At("checking") EXCEPT !.puzzle = p, !.answer = a])
    BY <1>1 DEF SubmitLock
  <2> QED BY <1>1, <2>1, Lands, AtPuzzleRow DEF Pc
<1>2. CASE BackendAdd(r)
  <2>1. PICK p \in Puzzle, a \in Answer :
          \/ Goto(r, [At("backend") EXCEPT !.puzzle = p, !.answer = a])
          \/ Goto(r, At("done"))
    BY <1>2, Zenon DEF BackendAdd
  <2>2. [At("backend") EXCEPT !.puzzle = p, !.answer = a].pc = "backend"
    BY AtPuzzleRow
  <2>3. req'[r].pc \in {"backend", "done"}
    BY <2>1, <2>2, Lands, AtPc
  <2> QED BY <1>2, <2>3 DEF Pc
<1>3. CASE PurchaseRead(r)
  <2>1. PICK h \in Hint : \/ Goto(r, [At("charging") EXCEPT !.hint = h])
                          \/ Goto(r, At("done"))
    BY <1>3, Zenon DEF PurchaseRead
  <2> QED BY <2>1, Lands, AtPc, HintRow DEF Pc
<1>4. CASE Clear(r)
  <2>1. PICK p \in Puzzle : \/ req' = [Outdated EXCEPT ![r] = [At("check") EXCEPT !.puzzle = p]]
                            \/ req' = [Outdated EXCEPT ![r] = At("done")]
    BY <1>4, Zenon DEF Clear
  <2>2. req'[r] \in {[At("check") EXCEPT !.puzzle = p], At("done")}
    BY <2>1 DEF Outdated
  <2> QED BY <2>2, AtPc, CheckRow DEF Pc
<1>5. CASE UnlockCheck(r)
  <2>1. PICK p \in Puzzle : Goto(r, [At("check") EXCEPT !.puzzle = p])
    BY <1>5 DEF UnlockCheck
  <2> QED BY <2>1, Lands, CheckRow DEF Pc
<1>6. CASE AdminUpdate(r)
  <2>1. PICK start \in BOOLEAN :
          req' = [IF start THEN req ELSE Outdated
                  EXCEPT ![r] = At(IF start THEN "unlock" ELSE "done")]
    BY <1>6 DEF AdminUpdate
  <2>2. req'[r] \in {At("unlock"), At("done")}
    BY <2>1, TypesSplit DEF Outdated
  <2> QED BY <2>2, AtPc DEF Pc
<1> QED BY <1>1, <1>2, <1>3, <1>4, <1>5, <1>6 DEF Begin

\* An answer is judged only when it is allowed, and under the team row.
LEMMA CheckPc ==
  ASSUME Types, NEW r \in Request, SubmitCheck(r)
  PROVE  /\ Pc(r)' \in {"judging", "done"}
         /\ Pc(r)' = "judging" => /\ Allowed(req[r].puzzle, req[r].answer)
                                  /\ req'[r].puzzle = req[r].puzzle
                                  /\ UNCHANGED lock
<1>1. req[r] \in Row
  BY TypesSplit
<1>2. CASE Allowed(req[r].puzzle, req[r].answer)
  <2>1. PICK v \in Rules[req[r].puzzle, req[r].answer] :
          Goto(r, [req[r] EXCEPT !.pc = "judging", !.verdict = v])
    BY <1>2, Zenon DEF SubmitCheck
  <2>2. req'[r] = [req[r] EXCEPT !.pc = "judging", !.verdict = v]
    BY <2>1, Lands
  <2>3. req'[r].pc = "judging" /\ req'[r].puzzle = req[r].puzzle
    BY <1>1, <2>2 DEF Row
  <2> QED BY <1>2, <2>3 DEF SubmitCheck, Pc
<1>3. CASE ~Allowed(req[r].puzzle, req[r].answer)
  BY <1>3, Lands, AtPc DEF SubmitCheck, Pc
<1> QED BY <1>2, <1>3

\* A hint is granted only when it is paid for, and under the currency row.
LEMMA ChargePc ==
  ASSUME Types, NEW r \in Request, PurchaseCharge(r)
  PROVE  /\ Pc(r)' \in {"granting", "done"}
         /\ Pc(r)' = "granting" => /\ funded /\ balance >= Cost[req[r].hint]
                                   /\ req'[r].hint = req[r].hint
                                   /\ purse' = r
<1>1. req[r] \in Row
  BY TypesSplit
<1>2. CASE Goto(r, [req[r] EXCEPT !.pc = "granting"]) /\ funded
           /\ balance >= Cost[req[r].hint] /\ purse' = r
  <2>1. req'[r] = [req[r] EXCEPT !.pc = "granting"]
    BY <1>2, Lands
  <2>2. req'[r].pc = "granting" /\ req'[r].hint = req[r].hint
    BY <1>1, <2>1 DEF Row
  <2> QED BY <1>2, <2>2 DEF Pc
<1>3. CASE Goto(r, At("done"))
  BY <1>3, Lands, AtPc DEF Pc
<1> QED BY <1>2, <1>3 DEF PurchaseCharge

\* No other step leads to one of these phases.
LEMMA ProceedPc ==
  ASSUME Types, NEW r \in Request, Act(r), ~Begin(r), ~SubmitCheck(r), ~PurchaseCharge(r)
  PROVE  Pc(r)' \notin {"checking", "judging", "granting"}
<1>1. req[r] \in Row
  BY TypesSplit
<1>2. CASE \E s \in {"unlock", "done", "mark"} : Goto(r, At(s))
  BY <1>2, Lands, AtPc DEF Pc
<1>3. CASE ReadSolved(r) \/ ReadTriggers(r) \/ CheckTriggers(r)
           \/ CheckCandidates(r)
  <2>1. \/ req'[r] = [req[r] EXCEPT !.pc = "triggers", !.seen.solved = Solved,
                                    !.seen.started = started]
        \/ req'[r] = [req[r] EXCEPT !.pc = "insert", !.seen.triggers = triggers]
        \/ req'[r] = [req[r] EXCEPT !.pc = "candidates", !.seen.triggers = triggers]
        \/ req'[r] = [req[r] EXCEPT !.pc = "insert", !.seen.solved = Solved,
                                    !.seen.started = started]
        \/ req'[r] = At("done")
    BY <1>3, Lands DEF ReadSolved, ReadTriggers, CheckTriggers, CheckCandidates
  <2>2. req'[r].pc \in {"triggers", "insert", "candidates", "done"}
    BY <1>1, <2>1, AtPc DEF Row
  <2> QED BY <2>2 DEF Pc
<1>4. \/ \E s \in {"unlock", "done", "mark"} : Goto(r, At(s))
      \/ ReadSolved(r) \/ ReadTriggers(r) \/ CheckTriggers(r) \/ CheckCandidates(r)
  BY DEF Act, Proceed, SubmitCommit, BackendSolve, PurchaseGrant, InsertUnlocked, MarkDirty,
     JudgeError, Deadlock, Fail
<1> QED BY <1>2, <1>3, <1>4

\* Whoever checks or judges keeps the team row, whoever grants the currency row.
LEMMA NextHolding == ASSUME Types, Holding, [Next]_vars PROVE Holding'
<1>1. ASSUME NEW r \in Request, Act(r) PROVE Holding'
  <2>1. ASSUME NEW q \in Request \ {r}
        PROVE  /\ Pc(q)' \in {"checking", "judging"} => lock' = q
               /\ Pc(q)' = "granting" => purse' = q
    BY <1>1, <2>1, Others, LocksKept DEF Holding, Keeps, Pc
  <2>2. /\ Pc(r)' \in {"checking", "judging"} => lock' = r
        /\ Pc(r)' = "granting" => purse' = r
    <3>1. CASE Begin(r)
      BY <3>1, BeginPc DEF SubmitLock
    <3>2. CASE SubmitCheck(r)
      BY <3>2, CheckPc DEF Holding, SubmitCheck
    <3>3. CASE PurchaseCharge(r)
      BY <3>3, ChargePc
    <3> QED BY <1>1, <3>1, <3>2, <3>3, ProceedPc
  <2> QED BY <2>1, <2>2 DEF Holding
<1>2. CASE UNCHANGED <<req, locks>>
  BY <1>2 DEF Holding, Pc, locks
<1> QED BY <1>1, <1>2 DEF Next, Act, ViewBlocks, CooldownEnds, Grow, vars

-----------------------------------------------------------------------------
(* The payment of a hint.                                                  *)

\* What is checked under the currency row stays so until the hint is granted.
Funds ==
  \A r \in Request : Pc(r) = "granting" => funded /\ balance >= Cost[req[r].hint]

\* The balance of a team whose currency row is locked does not fall.
LEMMA PurseKept ==
  ASSUME Types, Holding, Funds, NEW r \in Request, NEW q \in Request \ {r}, Act(r),
         Pc(q) = "granting"
  PROVE  funded' /\ balance' >= balance
<1>1. purse = q /\ funded /\ balance \in Int
  BY TypesSplit DEF Holding, Funds, Rest
<1>2. CASE SubmitCommit(r)
  <2>1. ~Charged(req[r].puzzle, req[r].verdict)
    BY <1>1, <1>2, ConstantAssumption DEF SubmitCommit, Free
  <2>2. balance' = balance
    BY <1>1, <1>2, <2>1 DEF SubmitCommit, Balance
  <2>3. funded'
    BY <1>1, <1>2, Zenon DEF SubmitCommit
  <2> QED BY <1>1, <2>2, <2>3
<1>3. CASE PurchaseGrant(r)
  BY <1>1, <1>3 DEF PurchaseGrant, Holding
<1>4. CASE ~SubmitCommit(r) /\ ~PurchaseGrant(r)
  <2>1. UNCHANGED <<funded, balance>>
    BY <1>4, Zenon DEF Act, Begin, Proceed, SubmitLock, BackendAdd, PurchaseRead, Clear,
       UnlockCheck, AdminUpdate, SubmitCheck, BackendSolve, PurchaseCharge, ReadSolved,
       ReadTriggers, CheckTriggers, CheckCandidates, InsertUnlocked, MarkDirty, JudgeError,
       Deadlock, Fail, shop
  <2> QED BY <1>1, <2>1
<1> QED BY <1>2, <1>3, <1>4

\* While a hint is granted, no other request spends.
LEMMA NextFunds == ASSUME Types, Holding, Funds, [Next]_vars PROVE Funds'
<1>0. balance \in Int
  BY TypesSplit DEF Rest
<1>1. ASSUME NEW r \in Request, Act(r) PROVE Funds'
  <2>1. ASSUME NEW q \in Request \ {r}, Pc(q)' = "granting"
        PROVE  funded' /\ balance' >= Cost[req'[q].hint]
    <3>1. Pc(q) = "granting" /\ req'[q].hint = req[q].hint
      BY <1>1, <2>1, Others DEF Keeps, Pc
    <3>2. Cost[req[q].hint] \in Int
      BY <3>1, TypesSplit, ConstantAssumption DEF AllEquipped, Equipped, Pc
    <3>3. funded' /\ balance' >= balance
      BY <1>1, <3>1, PurseKept
    <3>4. balance' \in Int
      BY NextTypes, TypesSplit DEF Types, TypeOK
    <3> QED BY <1>0, <3>1, <3>2, <3>3, <3>4 DEF Funds
  <2>2. ASSUME Pc(r)' = "granting" PROVE funded' /\ balance' >= Cost[req'[r].hint]
    <3>1. PurchaseCharge(r)
      BY <1>1, <2>2, BeginPc, CheckPc, ProceedPc
    <3> QED BY <2>2, <3>1, ChargePc DEF PurchaseCharge, shop
  <2> QED BY <2>1, <2>2 DEF Funds
<1>2. CASE UNCHANGED req /\ UNCHANGED funded /\ (balance' = balance \/ balance' = balance + 1)
  <2>1. ASSUME NEW q \in Request, Pc(q) = "granting"
        PROVE  funded /\ balance' >= Cost[req[q].hint]
    <3>1. Cost[req[q].hint] \in Int
      BY <2>1, TypesSplit, ConstantAssumption DEF AllEquipped, Equipped, Pc
    <3> QED BY <1>0, <1>2, <2>1, <3>1 DEF Funds
  <2> QED BY <1>2, <2>1 DEF Funds, Pc
<1> QED BY <1>1, <1>2 DEF Next, Act, ViewBlocks, CooldownEnds, Grow, vars, shop

-----------------------------------------------------------------------------
(* The limit of submissions.                                               *)

\* What SubmitCheck found under the team row stays so until the verdict is carried out.
Within ==
  /\ IsFiniteSet(subs)
  /\ \A r \in Request :
       Pc(r) = "judging" => /\ Cardinality(Counted(req[r].puzzle)) < MaxSubmit
                            /\ req[r].puzzle \notin cooling

\* With fewer submissions, no more of them count.
LEMMA FewerCounted ==
  ASSUME NEW p, NEW A, NEW B, IsFiniteSet(B), A \subseteq B,
         Cardinality({s \in B : s.puzzle = p /\ s.action = "fail" /\ ~s.ignored}) < MaxSubmit
  PROVE  Cardinality({s \in A : s.puzzle = p /\ s.action = "fail" /\ ~s.ignored}) < MaxSubmit
<1> DEFINE CA == {s \in A : s.puzzle = p /\ s.action = "fail" /\ ~s.ignored}
           CB == {s \in B : s.puzzle = p /\ s.action = "fail" /\ ~s.ignored}
<1>1. CA \subseteq CB /\ CB \subseteq B
  OBVIOUS
<1>2. IsFiniteSet(CB) /\ IsFiniteSet(CA)
  BY <1>1, FS_Subset
<1>3. Cardinality(CA) <= Cardinality(CB)
  BY <1>1, <1>2, FS_Subset
<1>4. Cardinality(CA) \in Nat /\ Cardinality(CB) \in Nat
  BY <1>2, FS_CardinalityType
<1> QED BY <1>3, <1>4, ConstantAssumption

\* While an answer is judged, nobody else records a failure or begins a cooldown.
LEMMA RecordKept ==
  ASSUME Types, Holding, NEW r \in Request, NEW q \in Request \ {r}, Act(r),
         Pc(q) = "judging"
  PROVE  subs' \subseteq subs /\ cooling' \subseteq cooling
<1>1. lock = q
  BY DEF Holding
<1>2. ~SubmitCommit(r) /\ ~BackendAdd(r)
  BY <1>1, ConstantAssumption DEF SubmitCommit, BackendAdd, Holding
<1>3. CASE Clear(r)
  BY <1>3 DEF Clear
<1>4. CASE ~Clear(r)
  <2>1. UNCHANGED record
    BY <1>2, <1>4, Zenon DEF Act, Begin, Proceed, SubmitLock, PurchaseRead, UnlockCheck,
       AdminUpdate, SubmitCheck, BackendSolve, PurchaseCharge, PurchaseGrant, ReadSolved,
       ReadTriggers, CheckTriggers, CheckCandidates, InsertUnlocked, MarkDirty, JudgeError,
       Deadlock, Fail
  <2> QED BY <2>1 DEF record
<1> QED BY <1>3, <1>4

\* There are finitely many submissions.
LEMMA NextFinite == ASSUME Types, IsFiniteSet(subs), [Next]_vars PROVE IsFiniteSet(subs')
<1>1. ASSUME NEW r \in Request, Act(r) PROVE \/ subs' \subseteq subs
                                              \/ \E s : subs' = subs \cup {s}
  <2>1. CASE SubmitCommit(r)
    BY <2>1, Zenon DEF SubmitCommit
  <2>2. CASE BackendAdd(r)
    BY <2>2, Zenon DEF BackendAdd
  <2>3. CASE Clear(r)
    BY <2>3 DEF Clear
  <2>4. CASE ~SubmitCommit(r) /\ ~BackendAdd(r) /\ ~Clear(r)
    <3>1. UNCHANGED record
      BY <1>1, <2>4, Zenon DEF Act, Begin, Proceed, SubmitLock, PurchaseRead, UnlockCheck,
         AdminUpdate, SubmitCheck, BackendSolve, PurchaseCharge, PurchaseGrant, ReadSolved,
         ReadTriggers, CheckTriggers, CheckCandidates, InsertUnlocked, MarkDirty, JudgeError,
         Deadlock, Fail
    <3> QED BY <3>1 DEF record
  <2> QED BY <2>1, <2>2, <2>3, <2>4
<1>2. \/ subs' \subseteq subs
      \/ \E s : subs' = subs \cup {s}
  BY <1>1 DEF Next, Act, ViewBlocks, CooldownEnds, Grow, vars, record
<1> QED BY <1>2, FS_Subset, FS_AddElement

\* While an answer is judged, the limit is not reached and no cooldown begins.
LEMMA NextWithin == ASSUME Types, Holding, Within, [Next]_vars PROVE Within'
<1>1. ASSUME NEW q \in Request, Pc(q) = "judging", subs' \subseteq subs,
             cooling' \subseteq cooling, req'[q].puzzle = req[q].puzzle
      PROVE  /\ Cardinality(Counted(req[q].puzzle)') < MaxSubmit
             /\ req[q].puzzle \notin cooling'
  <2> DEFINE p == req[q].puzzle
  <2>1. Cardinality(Counted(p)) < MaxSubmit /\ p \notin cooling /\ IsFiniteSet(subs)
    BY <1>1 DEF Within
  <2>2. Cardinality({s \in subs' : s.puzzle = p /\ s.action = "fail" /\ ~s.ignored}) < MaxSubmit
    BY <1>1, <2>1, FewerCounted DEF Counted
  <2> QED BY <1>1, <2>1, <2>2 DEF Counted
<1>2. IsFiniteSet(subs')
  BY NextFinite DEF Within
<1>3. ASSUME NEW r \in Request, Act(r) PROVE Within'
  <2>1. ASSUME NEW q \in Request \ {r}, Pc(q)' = "judging"
        PROVE  /\ Cardinality(Counted(req[q].puzzle)') < MaxSubmit
               /\ req'[q].puzzle \notin cooling'
    <3>1. Pc(q) = "judging" /\ req'[q].puzzle = req[q].puzzle
      BY <1>3, <2>1, Others DEF Keeps, Pc
    <3> QED BY <1>1, <1>3, <3>1, RecordKept
  <2>2. ASSUME Pc(r)' = "judging"
        PROVE  /\ Cardinality(Counted(req[r].puzzle)') < MaxSubmit
               /\ req'[r].puzzle \notin cooling'
    <3>1. SubmitCheck(r)
      BY <1>3, <2>2, BeginPc, ChargePc, ProceedPc
    <3>2. UNCHANGED record /\ req'[r].puzzle = req[r].puzzle
      BY <2>2, <3>1, CheckPc DEF SubmitCheck
    <3>3. Allowed(req[r].puzzle, req[r].answer)
      BY <2>2, <3>1, CheckPc
    <3> QED BY <3>2, <3>3 DEF Allowed, Counted, record
  <2> QED BY <1>2, <2>1, <2>2 DEF Within
<1>4. CASE UNCHANGED <<req, subs>> /\ cooling' \subseteq cooling
  BY <1>2, <1>4 DEF Within, Pc, Counted
<1> QED BY <1>3, <1>4 DEF Next, Act, ViewBlocks, CooldownEnds, Grow, vars, record

-----------------------------------------------------------------------------
\* All of it, and the properties that follow.
Inv == Types /\ Holding /\ Funds /\ Within

\* The locks' invariant holds of a new team.
LEMMA InitInv == ASSUME Init PROVE Inv
<1>1. \A r \in Request : Pc(r) = "idle"
  BY AtPc DEF Init, Pc
<1>2. IsFiniteSet(subs)
  BY FS_EmptySet DEF Init
<1> QED BY <1>1, <1>2, InitTypes DEF Inv, Holding, Funds, Within

\* Every step keeps it.
LEMMA NextInv == ASSUME Inv, [Next]_vars PROVE Inv'
BY NextTypes, NextHolding, NextFunds, NextWithin DEF Inv

\* Thus it always holds.
LEMMA Invariant == Spec => []Inv
BY InitInv, NextInv, PTL DEF Spec

\* A request that leaves a phase does so by a step of its own.
LEMMA OwnStep ==
  ASSUME Types, [Next]_vars, NEW r \in Request, req'[r].pc # req[r].pc
  PROVE  Act(r)
<1>1. ASSUME NEW q \in Request, Act(q) PROVE q = r
  BY <1>1, Others DEF Keeps
<1> QED BY <1>1 DEF Next, Act, ViewBlocks, CooldownEnds, Grow, vars

\* However many members submit at once, a failure is recorded only within the limit and
\* outside a cooldown: submit_answer checks and records under the team row.
THEOREM SubmissionsWithinLimit == Spec => SubmitLimit
<1>1. ASSUME Inv, [Next]_vars, NEW p \in Puzzle, NEW r \in Request,
             Pc(r) = "judging", Counted(p)' # Counted(p), req'[r].pc # "judging"
      PROVE  Cardinality(Counted(p)) < MaxSubmit /\ p \notin cooling
  <2>1. Act(r)
    BY <1>1, OwnStep DEF Inv, Pc
  <2>2. SubmitCommit(r)
    <3>1. subs' # subs
      BY <1>1 DEF Counted
    <3> QED BY <1>1, <2>1, <3>1 DEF Act, Begin, Proceed, SubmitLock, BackendAdd, PurchaseRead,
       Clear, UnlockCheck, AdminUpdate, SubmitCheck, BackendSolve, PurchaseCharge,
       PurchaseGrant, ReadSolved, ReadTriggers, CheckTriggers, CheckCandidates,
       InsertUnlocked, MarkDirty, JudgeError, Deadlock, Fail, record
  <2>3. p = req[r].puzzle
    BY <1>1, <2>2 DEF SubmitCommit, Counted
  <2> QED BY <1>1, <2>3 DEF Inv, Within
<1>2. Inv /\ [Next]_vars =>
        [\A p \in Puzzle, r \in Request :
           Pc(r) = "judging" /\ Counted(p)' # Counted(p) /\ req'[r].pc # "judging" =>
             Cardinality(Counted(p)) < MaxSubmit /\ p \notin cooling]_vars
  BY <1>1
<1> QED BY <1>2, Invariant, PTL DEF Spec, SubmitLimit

\* Granting a hint never makes the balance negative, though the price was compared with
\* the balance before: purchase_hint compares again under the currency row.
THEOREM HintsPaid == Spec => NoOverdraft
<1>1. ASSUME Inv, [Next]_vars, NEW r \in Request, Pc(r) = "granting", balance' < balance
      PROVE  balance' >= 0
  <2>1. balance \in Int /\ balance >= Cost[req[r].hint] /\ purse = r
    BY <1>1, TypesSplit DEF Inv, Funds, Holding, Rest
  <2>2. PICK q \in Request : Act(q)
    BY <1>1, <2>1 DEF Next, Act, ViewBlocks, CooldownEnds, Grow, vars, shop
  <2>3. q = r
    <3>1. ASSUME q # r PROVE FALSE
      <4>1. balance' >= balance
        BY <1>1, <2>2, <3>1, PurseKept DEF Inv
      <4>2. balance' \in Int
        BY <1>1, NextTypes, TypesSplit DEF Inv, Types, TypeOK
      <4> QED BY <1>1, <2>1, <4>1, <4>2
    <3> QED BY <3>1
  <2>4. PurchaseGrant(r)
    <3>1. balance' # balance
      BY <1>1, <2>1
    <3> QED BY <1>1, <2>2, <2>3, <3>1 DEF Act, Begin, Proceed, SubmitLock, BackendAdd,
       PurchaseRead, Clear, UnlockCheck, AdminUpdate, SubmitCheck, SubmitCommit, BackendSolve,
       PurchaseCharge, ReadSolved, ReadTriggers, CheckTriggers, CheckCandidates,
       InsertUnlocked, MarkDirty, JudgeError, Deadlock, Fail, shop, Pc
  <2>5. Cost[req[r].hint] \in Int
    BY <1>1, TypesSplit, ConstantAssumption DEF Inv, AllEquipped, Equipped, Pc
  <2> QED BY <2>1, <2>4, <2>5 DEF PurchaseGrant
<1>2. Inv /\ [Next]_vars =>
        [\A r \in Request : Pc(r) = "granting" /\ balance' < balance => balance' >= 0]_vars
  BY <1>1
<1> QED BY <1>2, Invariant, PTL DEF Spec, NoOverdraft

-----------------------------------------------------------------------------
(* The content of the team.                                                *)

\* What was missed stays so.
LEMMA MissedKept == ASSUME [Next]_vars PROVE missed \subseteq missed'
<1>1. ASSUME NEW r \in Request, Act(r) PROVE missed \subseteq missed'
  <2>1. CASE Begin(r)
    BY <2>1 DEF Begin, SubmitLock, BackendAdd, PurchaseRead, Clear, UnlockCheck, AdminUpdate
  <2>2. CASE Proceed(r)
    BY <2>2 DEF Proceed, SubmitCheck, SubmitCommit, BackendSolve, PurchaseCharge, PurchaseGrant,
       ReadSolved, ReadTriggers, CheckTriggers, CheckCandidates, InsertUnlocked, MarkDirty
  <2>3. CASE JudgeError(r) \/ Deadlock(r) \/ Fail(r)
    BY <2>3 DEF JudgeError, Deadlock, Fail
  <2> QED BY <1>1, <2>1, <2>2, <2>3 DEF Act
<1> QED BY <1>1 DEF Next, Act, ViewBlocks, CooldownEnds, Grow, vars

\* A request marks the content before it is through with its step, or has yet to do so.
LEMMA ProgressMarked ==
  ASSUME Types, NEW r \in Request, Act(r), ~dirty'
  PROVE  /\ ~dirty /\ blocks' = blocks
         /\ Pc(r)' = "mark" \/ UNCHANGED <<state, triggers, started>>
<1>0. /\ state \in [Puzzle -> {"none", "open", "solved"}]
      /\ started \in BOOLEAN /\ dirty \in BOOLEAN
  BY TypesSplit DEF Rest, Flags
<1>1. CASE SubmitCommit(r)
  <2>1. ~dirty /\ ~DoUnlock(req[r].puzzle, req[r].verdict) /\ blocks' = blocks
    BY <1>1, Zenon DEF SubmitCommit
  <2>2. state' = state /\ triggers' = triggers
    BY <1>1, <2>1 DEF SubmitCommit, DoUnlock
  <2>3. started' = started
    BY <1>0, <1>1, <2>1, Zenon DEF SubmitCommit, DoUnlock, Starts
  <2> QED BY <2>1, <2>2, <2>3
<1>2. CASE BackendSolve(r)
  <2>1. blocks' = blocks /\ triggers' = triggers /\ started' = started
    BY <1>2 DEF BackendSolve
  <2>2. \/ /\ dirty' = (dirty \/ state[req[r].puzzle] = "open")
           /\ state' = IF state[req[r].puzzle] = "open"
                       THEN [state EXCEPT ![req[r].puzzle] = "solved"] ELSE state
        \/ dirty' = dirty /\ state' = state
    BY <1>2, Zenon DEF BackendSolve
  <2>3. ~dirty
    BY <2>2, Zenon
  <2>4. state' = state
    <3>1. CASE state[req[r].puzzle] = "open"
      BY <2>2, <3>1, Zenon
    <3>2. CASE state[req[r].puzzle] # "open"
      BY <2>2, <3>2
    <3> QED BY <3>1, <3>2
  <2> QED BY <2>1, <2>3, <2>4
<1>3. CASE PurchaseGrant(r)
  BY <1>3 DEF PurchaseGrant, game
<1>4. CASE Clear(r)
  <2>1. PICK p \in Puzzle :
          /\ state' = [state EXCEPT ![p] = "none"]
          /\ triggers' = {t \in triggers : Owner[t] # p}
          /\ dirty' = (dirty \/ (state[p] # "none" \/ \E t \in triggers : Owner[t] = p))
    BY <1>4, Zenon DEF Clear
  <2>2. ~dirty /\ state[p] = "none" /\ \A t \in triggers : Owner[t] # p
    BY <2>1, Zenon
  <2>3. state' = state /\ triggers' = triggers
    BY <1>0, <2>1, <2>2
  <2> QED BY <1>4, <2>2, <2>3 DEF Clear, game
<1>5. CASE AdminUpdate(r)
  <2>1. ~dirty /\ started' = started
    BY <1>5, Zenon DEF AdminUpdate
  <2> QED BY <1>5, <2>1 DEF AdminUpdate
<1>6. CASE InsertUnlocked(r)
  <2> DEFINE new == {p \in ToUnlock(req[r], req[r].seen) : state[p] = "none"}
  <2>1. CASE new # {}
    <3>1. Goto(r, At("mark"))
      BY <1>6, <2>1 DEF InsertUnlocked
    <3> QED BY <1>6, <3>1, Lands, AtPc DEF InsertUnlocked, content, Pc
  <2>2. CASE new = {}
    <3>1. state' = [p \in Puzzle |-> IF p \in new THEN "open" ELSE state[p]]
      BY <1>6 DEF InsertUnlocked
    <3>2. state' = state
      BY <1>0, <2>2, <3>1
    <3> QED BY <1>6, <3>2 DEF InsertUnlocked, game, content
  <2> QED BY <2>1, <2>2
<1>7. CASE ~SubmitCommit(r) /\ ~BackendSolve(r) /\ ~PurchaseGrant(r) /\ ~Clear(r)
           /\ ~AdminUpdate(r) /\ ~InsertUnlocked(r)
  <2>1. UNCHANGED <<state, triggers, game, content>> \/ MarkDirty(r)
    BY <1>7, Zenon DEF Act, Begin, Proceed, SubmitLock, BackendAdd, PurchaseRead, UnlockCheck,
       SubmitCheck, PurchaseCharge, ReadSolved, ReadTriggers, CheckTriggers, CheckCandidates,
       JudgeError, Deadlock, Fail
  <2>2. ~MarkDirty(r)
    BY Zenon DEF MarkDirty
  <2> QED BY <2>1, <2>2 DEF game, content
<1> QED BY <1>1, <1>2, <1>3, <1>4, <1>5, <1>6, <1>7

\* A request that has yet to mark the content does so, or fails.
LEMMA MarkLeft ==
  ASSUME NEW r \in Request, Act(r), Pc(r) = "mark"
  PROVE  dirty' \/ "content" \in missed'
<1>1. ~Begin(r)
  BY DEF Begin, SubmitLock, BackendAdd, PurchaseRead, Clear, UnlockCheck, AdminUpdate
<1>2. CASE Proceed(r)
  <2>1. MarkDirty(r)
    BY <1>2 DEF Proceed, SubmitCheck, SubmitCommit, BackendSolve, PurchaseCharge, PurchaseGrant,
       ReadSolved, ReadTriggers, CheckTriggers, CheckCandidates, InsertUnlocked
  <2> QED BY <2>1, Zenon DEF MarkDirty
<1>3. ~JudgeError(r) /\ ~Deadlock(r)
  BY DEF JudgeError, Deadlock, WantsPurse, Pc
<1>4. CASE Fail(r)
  BY <1>4 DEF Fail
<1> QED BY <1>1, <1>2, <1>3, <1>4 DEF Act

\* Every step keeps the content complete.
LEMMA NextContent ==
  ASSUME Types, ContentComplete, [Next]_vars
  PROVE  ContentComplete'
<1>1. ASSUME NEW r \in Request, Act(r), ~dirty', NEW b \in Block, Due(b)'
      PROVE  b \in blocks' \/ "content" \in missed' \/ \E q \in Request : Pc(q)' = "mark"
  <2>1. ~dirty /\ blocks' = blocks
    BY <1>1, ProgressMarked
  <2>2. CASE Pc(r)' = "mark"
    BY <2>2
  <2>3. CASE UNCHANGED <<state, triggers, started>>
    <3>1. Due(b)
      BY <1>1, <2>3 DEF Due, Gate, Solved
    <3>2. CASE b \in blocks \/ "content" \in missed
      BY <1>1, <2>1, <3>2, MissedKept DEF Next, Act
    <3>3. ASSUME NEW q \in Request, Pc(q) = "mark"
          PROVE  "content" \in missed' \/ Pc(q)' = "mark"
      <4>1. CASE q = r
        BY <1>1, <3>3, <4>1, MarkLeft
      <4>2. CASE q # r
        BY <1>1, <3>3, <4>2, Others DEF Keeps, Pc
      <4> QED BY <4>1, <4>2
    <3> QED BY <2>1, <3>1, <3>2, <3>3 DEF ContentComplete
  <2> QED BY <1>1, <2>2, <2>3, ProgressMarked
<1>2. CASE ViewBlocks
  BY <1>2 DEF ViewBlocks, ContentComplete, Due, Gate, Solved, game
<1>3. CASE UNCHANGED <<state, triggers, started, content, req, missed>>
  BY <1>3 DEF ContentComplete, Due, Gate, Solved, Pc, content
<1> QED BY <1>1, <1>2, <1>3 DEF Next, Act, ContentComplete, CooldownEnds, Grow, vars, game

\* A team whose content is not marked dirty has every block that is due, whoever made it
\* due, unless the request that should have marked it failed (refresh_team_unlocks_if_dirty).
THEOREM ContentIsComplete == Spec => []ContentComplete
<1>1. Init => ContentComplete
  BY DEF Init, ContentComplete
<1>2. Types /\ ContentComplete /\ [Next]_vars => ContentComplete'
  BY NextContent
<1>3. Inv => Types
  BY DEF Inv
<1> QED BY <1>1, <1>2, <1>3, Invariant, PTL DEF Spec

-----------------------------------------------------------------------------
(* What the unlock passes have seen.                                       *)

\* The parts of a pass's gate state that it has read are still reached, unless they
\* were reset after that.
Fresh ==
  \A r \in Request : ~req[r].stale =>
    /\ Pc(r) \in {"triggers", "insert"} =>
         req[r].seen.solved \subseteq Solved /\ (req[r].seen.started => started)
    /\ Pc(r) \in {"candidates", "insert"} => req[r].seen.triggers \subseteq triggers

GateGrows ==
  /\ Solved \subseteq Solved' /\ triggers \subseteq triggers'
  /\ started => started'

\* A step either only adds to what the conditions see, or marks what was read as stale.
LEMMA GrowsOrOutdates ==
  ASSUME Types, NEW r \in Request, Act(r)
  PROVE  \/ GateGrows /\ \A q \in Request \ {r} : req'[q] = req[q]
         \/ \A q \in Request \ {r} : req'[q] = Outdated[q]
<1>0. req \in [Request -> Row] /\ state \in [Puzzle -> {"none", "open", "solved"}]
  BY TypesSplit DEF Rest
<1>1. CASE Clear(r)
  <2>1. \E s : req' = [Outdated EXCEPT ![r] = s]
    BY <1>1, Zenon DEF Clear
  <2> QED BY <2>1 DEF Outdated
<1>2. CASE AdminUpdate(r)
  <2>1. PICK start \in BOOLEAN :
          /\ started' = start
          /\ req' = [IF start THEN req ELSE Outdated
                     EXCEPT ![r] = At(IF start THEN "unlock" ELSE "done")]
    BY <1>2 DEF AdminUpdate
  <2>2. CASE start
    <3>1. \A q \in Request \ {r} : req'[q] = req[q]
      BY <1>0, <2>1, <2>2
    <3>2. Solved \subseteq Solved' /\ triggers \subseteq triggers' /\ started'
      BY <1>2, <2>1, <2>2 DEF AdminUpdate, Solved
    <3> QED BY <3>1, <3>2 DEF GateGrows
  <2>3. CASE ~start
    BY <2>1, <2>3 DEF Outdated
  <2> QED BY <2>2, <2>3
<1>3. CASE ~Clear(r) /\ ~AdminUpdate(r)
  <2>1. \A q \in Request \ {r} : req'[q] = req[q]
    <3>1. \E s : Goto(r, s)
      BY <1>3, Zenon DEF Act, Begin, Proceed, SubmitLock, BackendAdd, PurchaseRead, UnlockCheck,
         SubmitCheck, SubmitCommit, BackendSolve, PurchaseCharge, PurchaseGrant, ReadSolved,
         ReadTriggers, CheckTriggers, CheckCandidates, InsertUnlocked, MarkDirty,
         JudgeError, Deadlock, Fail
    <3> QED BY <1>0, <3>1 DEF Goto
  <2>2. GateGrows
    <3>1. CASE SubmitCommit(r)
      <4>1. Solved \subseteq Solved' /\ triggers \subseteq triggers'
        BY <1>0, <3>1 DEF SubmitCommit, Solved
      <4>2. started => started'
        BY <3>1, Zenon DEF SubmitCommit
      <4> QED BY <4>1, <4>2 DEF GateGrows
    <3>2. CASE BackendSolve(r)
      <4>1. Solved \subseteq Solved'
        BY <1>0, <3>2 DEF BackendSolve, Solved
      <4> QED BY <3>2, <4>1 DEF BackendSolve, GateGrows
    <3>3. CASE PurchaseGrant(r)
      BY <3>3 DEF PurchaseGrant, GateGrows, Solved, game
    <3>4. CASE InsertUnlocked(r)
      <4>1. Solved \subseteq Solved'
        BY <1>0, <3>4 DEF InsertUnlocked, Solved
      <4> QED BY <3>4, <4>1 DEF InsertUnlocked, GateGrows, game
    <3>5. CASE ~SubmitCommit(r) /\ ~BackendSolve(r) /\ ~PurchaseGrant(r) /\ ~InsertUnlocked(r)
      <4>1. UNCHANGED <<state, triggers, game>>
        BY <1>3, <3>5, Zenon DEF Act, Begin, Proceed, SubmitLock, BackendAdd, PurchaseRead,
           UnlockCheck, SubmitCheck, PurchaseCharge, ReadSolved, ReadTriggers, CheckTriggers,
           CheckCandidates, MarkDirty, JudgeError, Deadlock, Fail
      <4> QED BY <4>1 DEF GateGrows, Solved, game
    <3> QED BY <3>1, <3>2, <3>3, <3>4, <3>5
  <2> QED BY <2>1, <2>2
<1> QED BY <1>1, <1>2, <1>3

\* The row that a read of the solved puzzles makes.
SolvedRow(q, s, S, b) == [q EXCEPT !.pc = s, !.seen.solved = S, !.seen.started = b]

\* The fields of a row that has read the solved puzzles.
LEMMA SolvedRowFields ==
  ASSUME NEW q \in Row, NEW s, NEW S, NEW b, NEW z, z = SolvedRow(q, s, S, b)
  PROVE  /\ z.pc = s /\ z.puzzle = q.puzzle /\ z.stale = q.stale
         /\ z.seen.solved = S /\ z.seen.started = b /\ z.seen.triggers = q.seen.triggers
<1> DEFINE y == [q EXCEPT !.pc = s]
           x == [y EXCEPT !.seen.solved = S]
<1>1. /\ y.pc = s /\ y.puzzle = q.puzzle /\ y.stale = q.stale /\ y.seen = q.seen
      /\ DOMAIN y = DOMAIN q
  BY DEF Row
<1>2. DOMAIN q = {"pc", "puzzle", "answer", "hint", "verdict", "seen", "stale"}
      /\ DOMAIN q.seen = {"solved", "triggers", "started"}
  BY DEF Row, GateState
<1> HIDE DEF y
<1>3. /\ x.pc = s /\ x.puzzle = q.puzzle /\ x.stale = q.stale
      /\ x.seen = [q.seen EXCEPT !.solved = S] /\ DOMAIN x = DOMAIN q
  BY <1>1, <1>2
<1>4. z = [x EXCEPT !.seen.started = b]
  BY Zenon DEF SolvedRow, y
<1> HIDE DEF x
<1>5. /\ z.pc = s /\ z.puzzle = q.puzzle /\ z.stale = q.stale
      /\ z.seen = [x.seen EXCEPT !.started = b]
  BY <1>2, <1>3, <1>4
<1> QED BY <1>2, <1>3, <1>5

\* The steps of a pass, by what they leave in its row; the other steps of a request
\* end somewhere else.
LEMMA PassStep ==
  ASSUME Types, NEW r \in Request, Act(r)
  PROVE  LET q == req'[r] IN
         /\ ReadSolved(r) =>
              /\ q.pc = "triggers" /\ q.puzzle = req[r].puzzle
              /\ q.seen.solved = Solved /\ q.seen.started = started
         /\ ReadTriggers(r) =>
              /\ q.pc = "insert" /\ q.puzzle = req[r].puzzle /\ q.stale = req[r].stale
              /\ q.seen.solved = req[r].seen.solved /\ q.seen.started = req[r].seen.started
              /\ q.seen.triggers = triggers
         /\ CheckTriggers(r) =>
              /\ q.pc = "candidates" /\ q.puzzle = req[r].puzzle
              /\ q.seen.triggers = triggers
         /\ CheckCandidates(r) =>
              \/ /\ q.pc = "insert" /\ q.puzzle = req[r].puzzle /\ q.stale = req[r].stale
                 /\ q.seen.solved = Solved /\ q.seen.started = started
                 /\ q.seen.triggers = req[r].seen.triggers
              \/ q.pc = "done" /\ state[req[r].puzzle] # "none"
         /\ ~ReadSolved(r) /\ ~ReadTriggers(r) /\ ~CheckTriggers(r) /\ ~CheckCandidates(r) =>
              q.pc \notin {"triggers", "candidates", "insert"}
<1>0. req[r] \in Row
  BY TypesSplit
<1>1. ASSUME ReadSolved(r)
      PROVE  /\ req'[r].pc = "triggers" /\ req'[r].puzzle = req[r].puzzle
             /\ req'[r].seen.solved = Solved /\ req'[r].seen.started = started
  <2>1. Goto(r, SolvedRow(req[r], "triggers", Solved, started))
    BY <1>1, Zenon DEF ReadSolved, SolvedRow
  <2>2. req'[r] = SolvedRow(req[r], "triggers", Solved, started)
    BY <2>1, Lands
  <2> QED BY <1>0, <2>2, SolvedRowFields
<1>2. ASSUME ReadTriggers(r)
      PROVE  /\ req'[r].pc = "insert" /\ req'[r].puzzle = req[r].puzzle
             /\ req'[r].stale = req[r].stale
             /\ req'[r].seen.solved = req[r].seen.solved
             /\ req'[r].seen.started = req[r].seen.started
             /\ req'[r].seen.triggers = triggers
  <2>1. req'[r] = [req[r] EXCEPT !.pc = "insert", !.seen.triggers = triggers]
    BY <1>2, Lands DEF ReadTriggers
  <2> QED BY <1>0, <2>1 DEF Row, GateState
<1>3. ASSUME CheckTriggers(r)
      PROVE  /\ req'[r].pc = "candidates" /\ req'[r].puzzle = req[r].puzzle
             /\ req'[r].seen.triggers = triggers
  <2>1. req'[r] = [req[r] EXCEPT !.pc = "candidates", !.seen.triggers = triggers]
    BY <1>3, Lands DEF CheckTriggers
  <2> QED BY <1>0, <2>1 DEF Row, GateState
<1>4. ASSUME CheckCandidates(r)
      PROVE  \/ /\ req'[r].pc = "insert" /\ req'[r].puzzle = req[r].puzzle
                /\ req'[r].stale = req[r].stale
                /\ req'[r].seen.solved = Solved /\ req'[r].seen.started = started
                /\ req'[r].seen.triggers = req[r].seen.triggers
             \/ req'[r].pc = "done" /\ state[req[r].puzzle] # "none"
  <2>1. CASE state[req[r].puzzle] = "none"
    <3>1. Goto(r, SolvedRow(req[r], "insert", Solved, started))
      BY <1>4, <2>1, Zenon DEF CheckCandidates, SolvedRow
    <3>2. req'[r] = SolvedRow(req[r], "insert", Solved, started)
      BY <3>1, Lands
    <3> QED BY <1>0, <3>2, SolvedRowFields
  <2>2. CASE state[req[r].puzzle] # "none"
    <3>1. Goto(r, At("done"))
      BY <1>4, <2>2, Zenon DEF CheckCandidates
    <3> QED BY <2>2, <3>1, Lands, AtPc
  <2> QED BY <2>1, <2>2
<1>5. ASSUME ~ReadSolved(r), ~ReadTriggers(r), ~CheckTriggers(r), ~CheckCandidates(r)
      PROVE  req'[r].pc \notin {"triggers", "candidates", "insert"}
  <2>1. CASE Begin(r)
    BY <2>1, BeginPc DEF Pc
  <2>2. CASE SubmitCheck(r) \/ PurchaseCharge(r)
    BY <2>2, CheckPc, ChargePc DEF Pc
  <2>3. CASE \E s \in {"unlock", "done", "mark"} : Goto(r, At(s))
    BY <2>3, Lands, AtPc
  <2>4. \/ Begin(r) \/ SubmitCheck(r) \/ PurchaseCharge(r)
        \/ \E s \in {"unlock", "done", "mark"} : Goto(r, At(s))
    BY <1>5 DEF Act, Proceed, SubmitCommit, BackendSolve, PurchaseGrant, InsertUnlocked,
       MarkDirty, JudgeError, Deadlock, Fail
  <2> QED BY <2>1, <2>2, <2>3, <2>4
<1> QED BY <1>1, <1>2, <1>3, <1>4, <1>5

\* Every step keeps what the passes have read reached, or marks it stale.
LEMMA NextFresh == ASSUME Types, Fresh, [Next]_vars PROVE Fresh'
<1> DEFINE Known(q) ==
      ~req[q].stale =>
        /\ Pc(q) \in {"triggers", "insert"} =>
             req[q].seen.solved \subseteq Solved /\ (req[q].seen.started => started)
        /\ Pc(q) \in {"candidates", "insert"} => req[q].seen.triggers \subseteq triggers
<1>1. ASSUME NEW r \in Request, Act(r), NEW q \in Request \ {r} PROVE Known(q)'
  <2>1. Known(q)
    BY DEF Fresh
  <2>2. CASE GateGrows /\ req'[q] = req[q]
    BY <2>1, <2>2 DEF GateGrows, Pc
  <2>3. CASE req'[q] = Outdated[q]
    <3>1. CASE Pc(q) \in {"triggers", "candidates", "insert"}
      <4>1. req'[q] = [req[q] EXCEPT !.stale = TRUE]
        BY <2>3, <3>1 DEF Outdated
      <4>2. req[q] \in Row /\ Equipped(req[q])
        BY TypesSplit DEF AllEquipped
      <4>3. req'[q].stale
        BY <4>1, <4>2, StaleRow
      <4> QED BY <4>3
    <3>2. CASE Pc(q) \notin {"triggers", "candidates", "insert"}
      <4>1. req'[q] = req[q]
        BY <2>3, <3>2 DEF Outdated
      <4> QED BY <3>2, <4>1 DEF Pc
    <3> QED BY <3>1, <3>2
  <2> QED BY <1>1, <2>2, <2>3, GrowsOrOutdates
<1>2. ASSUME NEW r \in Request, Act(r) PROVE Known(r)'
  <2>1. Known(r)
    BY DEF Fresh
  <2>2. CASE Pc(r)' \notin {"triggers", "candidates", "insert"}
    BY <2>2
  <2>3. CASE ReadSolved(r) /\ req'[r].pc = "triggers" /\ req'[r].seen.solved = Solved
             /\ req'[r].seen.started = started
    BY <2>3 DEF ReadSolved, Solved, game, Pc
  <2>4. CASE ReadTriggers(r) /\ req'[r].pc = "insert" /\ req'[r].stale = req[r].stale
             /\ req'[r].seen.solved = req[r].seen.solved
             /\ req'[r].seen.started = req[r].seen.started
             /\ req'[r].seen.triggers = triggers
    <3>1. UNCHANGED <<state, triggers, started>> /\ Pc(r) = "triggers"
      BY <2>4 DEF ReadTriggers, game
    <3> QED BY <2>1, <2>4, <3>1 DEF Solved, Pc
  <2>5. CASE CheckTriggers(r) /\ req'[r].pc = "candidates" /\ req'[r].seen.triggers = triggers
    BY <2>5 DEF CheckTriggers, Pc
  <2>6. CASE CheckCandidates(r) /\ req'[r].pc = "insert" /\ req'[r].stale = req[r].stale
             /\ req'[r].seen.solved = Solved /\ req'[r].seen.started = started
             /\ req'[r].seen.triggers = req[r].seen.triggers
    <3>1. UNCHANGED <<state, triggers, started>> /\ Pc(r) = "candidates"
      BY <2>6 DEF CheckCandidates, game
    <3> QED BY <2>1, <2>6, <3>1 DEF Solved, Pc
  <2>7. CASE CheckCandidates(r) /\ req'[r].pc = "done"
    BY <2>7 DEF Pc
  <2> QED BY <1>2, <2>2, <2>3, <2>4, <2>5, <2>6, <2>7, PassStep DEF Pc
<1>3. CASE UNCHANGED <<state, triggers, started, req>>
  BY <1>3 DEF Fresh, Solved, Pc
<1>4. Fresh' \/ \E r \in Request : Act(r)
  BY <1>3 DEF Next, Act, ViewBlocks, CooldownEnds, Grow, vars, game
<1> QED BY <1>1, <1>2, <1>4 DEF Fresh

\* Gate states in order: what more progress adds to.
Below(s, t) ==
  /\ s.solved \subseteq t.solved /\ s.triggers \subseteq t.triggers
  /\ s.started => t.started

\* A monotone condition that holds goes on holding when more is reached.
LEMMA MonotoneAbove ==
  ASSUME NEW cond \in SUBSET GateState, Monotone(cond), NEW s \in cond, NEW t \in GateState,
         Below(s, t)
  PROVE  t \in cond
BY DEF Monotone, Below

\* The puzzle that a pass opens had its condition met in what the pass has seen.
LEMMA Opens ==
  ASSUME Types, [Next]_vars, NEW p \in Puzzle \ Unconditional,
         state[p] = "none", state'[p] = "open"
  PROVE  \E r \in Request :
           /\ Pc(r) = "insert" /\ req'[r].pc = "mark"
           /\ req[r].seen \in UnlockCond[p]
<1>0. state \in [Puzzle -> {"none", "open", "solved"}]
  BY TypesSplit DEF Rest
<1>1. PICK r \in Request : Act(r)
  BY DEF Next, Act, ViewBlocks, CooldownEnds, Grow, vars
<1>2. InsertUnlocked(r)
  <2>1. ~SubmitCommit(r) /\ ~BackendSolve(r) /\ ~Clear(r)
    BY <1>0 DEF SubmitCommit, BackendSolve, Clear
  <2>2. CASE ~InsertUnlocked(r)
    <3>1. UNCHANGED state
      BY <1>1, <2>1, <2>2, Zenon DEF Act, Begin, Proceed, SubmitLock, BackendAdd, PurchaseRead,
         UnlockCheck, AdminUpdate, SubmitCheck, PurchaseCharge, PurchaseGrant, ReadSolved,
         ReadTriggers, CheckTriggers, CheckCandidates, MarkDirty, JudgeError, Deadlock, Fail
    <3> QED BY <3>1
  <2> QED BY <2>2
<1>3. p \in ToUnlock(req[r], req[r].seen)
  BY <1>0, <1>2 DEF InsertUnlocked
<1>4. Goto(r, At("mark"))
  BY <1>2, <1>3 DEF InsertUnlocked
<1> QED BY <1>2, <1>3, <1>4, Lands, AtPc DEF InsertUnlocked, ToUnlock

\* A puzzle opens only while its condition holds, unless the pass read what was then
\* reset (unlock_new_puzzles).
THEOREM UnlocksSound == Spec => UnlockSound
<1>1. ASSUME Types, Fresh, [Next]_vars, NEW p \in Puzzle \ Unconditional,
             state[p] = "none", state'[p] = "open", Monotone(UnlockCond[p])
      PROVE  \/ Gate \in UnlockCond[p]
             \/ \E r \in Request : req[r].stale /\ Pc(r) = "insert" /\ req'[r].pc = "mark"
  <2>1. PICK r \in Request : Pc(r) = "insert" /\ req'[r].pc = "mark"
                             /\ req[r].seen \in UnlockCond[p]
    BY <1>1, Opens
  <2>2. CASE req[r].stale
    BY <2>1, <2>2
  <2>3. CASE ~req[r].stale
    <3>1. Below(req[r].seen, Gate)
      BY <1>1, <2>1, <2>3 DEF Fresh, Below, Gate
    <3>2. UnlockCond[p] \in SUBSET GateState /\ Gate \in GateState
      BY <1>1, ConstantAssumption, GateType
    <3> QED BY <1>1, <2>1, <3>1, <3>2, MonotoneAbove
  <2> QED BY <2>2, <2>3
<1>2. Types /\ Fresh /\ [Next]_vars =>
        [\A p \in Puzzle \ Unconditional :
           state[p] = "none" /\ state'[p] = "open" /\ Monotone(UnlockCond[p]) =>
             \/ Gate \in UnlockCond[p]
             \/ \E r \in Request : req[r].stale /\ Pc(r) = "insert" /\ req'[r].pc = "mark"]_vars
  BY <1>1
<1>3. Init => Fresh
  BY AtPc DEF Init, Fresh, Pc
<1>4. Types /\ Fresh /\ [Next]_vars => Fresh'
  BY NextFresh
<1>5. Inv => Types
  BY DEF Inv
<1> QED BY <1>2, <1>3, <1>4, <1>5, Invariant, PTL DEF Spec, UnlockSound

-----------------------------------------------------------------------------
(* The passes open everything that is due.                                 *)

\* The parts of WillSee, field by field.
WillSolved(r)   == IF Pc(r) \in {"triggers", "insert"} THEN req[r].seen.solved ELSE Solved
WillTriggers(r) == IF Pc(r) \in {"candidates", "insert"} THEN req[r].seen.triggers ELSE triggers
WillStarted(r)  == IF Pc(r) \in {"triggers", "insert"} THEN req[r].seen.started ELSE started

\* The pass of r is about puzzle p, and will have seen at least s.
Covers(r, p, s) ==
  /\ Passing(r)
  /\ req[r].puzzle = p \/ (req[r].puzzle = None /\ p \notin WillSolved(r))
  /\ s.solved \subseteq WillSolved(r) /\ s.triggers \subseteq WillTriggers(r)
  /\ s.started => WillStarted(r)

\* For every gate state that the team has reached, and not only for the last one: a
\* reset may bring it back to any of them.
Covered ==
  \/ "unlock" \in missed
  \/ \A p \in Puzzle \ Unconditional, s \in GateState :
       /\ state[p] = "none" /\ Monotone(UnlockCond[p])
       /\ s \in UnlockCond[p] /\ Below(s, Gate)
       => \E r \in Request : Covers(r, p, s)

\* WillSee, taken apart.
LEMMA WillSeeParts ==
  ASSUME Types, NEW r \in Request, Passing(r)
  PROVE  /\ WillSee(r) \in GateState
         /\ WillSee(r).solved = WillSolved(r) /\ WillSee(r).triggers = WillTriggers(r)
         /\ WillSee(r).started = WillStarted(r)
<1>1. req[r].seen \in GateState /\ Gate \in GateState
  BY TypesSplit, GateType DEF Row
<1>2. triggers \in SUBSET Trigger
  BY TypesSplit DEF Rest
<1>3. CASE Pc(r) \in {"unlock", "check"}
  BY <1>1, <1>3 DEF WillSee, WillSolved, WillTriggers, WillStarted, Gate
<1>4. CASE Pc(r) = "triggers"
  <2>1. WillSee(r) = [req[r].seen EXCEPT !.triggers = triggers]
    BY <1>4 DEF WillSee
  <2> QED BY <1>1, <1>2, <1>4, <2>1 DEF WillSolved, WillTriggers, WillStarted, GateState
<1>5. CASE Pc(r) = "candidates"
  <2>1. WillSee(r) = [Gate EXCEPT !.triggers = req[r].seen.triggers]
    BY <1>5 DEF WillSee
  <2>2. req[r].seen.triggers \in SUBSET Trigger
    BY <1>1 DEF GateState
  <2>3. Gate.solved = Solved /\ Gate.started = started
    BY DEF Gate
  <2> QED BY <1>1, <1>5, <2>1, <2>2, <2>3 DEF WillSolved, WillTriggers, WillStarted, GateState
<1>6. CASE Pc(r) = "insert"
  BY <1>1, <1>6 DEF WillSee, WillSolved, WillTriggers, WillStarted
<1> QED BY <1>3, <1>4, <1>5, <1>6 DEF Passing

\* A pass that covers a puzzle will find it.
LEMMA CoversFinds ==
  ASSUME Types, NEW r \in Request, NEW p \in Puzzle \ Unconditional, NEW s \in UnlockCond[p],
         Monotone(UnlockCond[p]), Covers(r, p, s)
  PROVE  Passing(r) /\ p \in ToUnlock(req[r], WillSee(r)) /\ WillSee(r) \in UnlockCond[p]
<1>1. WillSee(r) \in GateState /\ Below(s, WillSee(r))
  BY WillSeeParts DEF Covers, Below
<1>2. WillSee(r) \in UnlockCond[p]
  BY <1>1, MonotoneAbove, ConstantAssumption
<1>3. CASE req[r].puzzle = None
  <2>1. p \notin WillSee(r).solved
    BY <1>3, WillSeeParts, ConstantAssumption DEF Covers
  <2> QED BY <1>2, <1>3, <2>1 DEF Covers, ToUnlock
<1>4. CASE req[r].puzzle # None
  <2>1. req[r].puzzle = p
    BY <1>4 DEF Covers
  <2> QED BY <1>2, <1>4, <2>1 DEF Covers, ToUnlock
<1> QED BY <1>3, <1>4

\* The pass of another request covers what it did, whatever happens to the gate state,
\* if the state in question is still reached.
LEMMA OthersCover ==
  ASSUME Types, NEW r \in Request, Act(r), NEW q \in Request \ {r},
         NEW p \in Puzzle, NEW s, Covers(q, p, s), state'[p] = "none", Below(s, Gate)'
  PROVE  Covers(q, p, s)'
<1>1. Keeps(q)
  BY Others
<1>2. p \notin Solved'
  BY DEF Solved
<1>3. s.solved \subseteq Solved' /\ s.triggers \subseteq triggers' /\ (s.started => started')
  BY DEF Below, Gate
<1> QED BY <1>1, <1>2, <1>3 DEF Keeps, Covers, Passing, Pc, WillSolved, WillTriggers, WillStarted

\* A pass goes on, opens the puzzle, or fails.
LEMMA PassCovers ==
  ASSUME Types, NEW r \in Request, Act(r), NEW p \in Puzzle \ Unconditional,
         NEW s \in UnlockCond[p], Monotone(UnlockCond[p]), Covers(r, p, s),
         state[p] = "none", state'[p] = "none"
  PROVE  Covers(r, p, s)' \/ "unlock" \in missed'
<1>0. Pc(r) \in {"unlock", "triggers", "check", "candidates", "insert"} /\ ~Begin(r)
  BY DEF Covers, Passing, Begin, SubmitLock, BackendAdd, PurchaseRead, Clear, UnlockCheck,
     AdminUpdate
<1>1. CASE ReadSolved(r) \/ ReadTriggers(r) \/ CheckTriggers(r) \/ CheckCandidates(r)
  <2>1. UNCHANGED <<state, triggers, started>>
    BY <1>1 DEF ReadSolved, ReadTriggers, CheckTriggers, CheckCandidates, game
  <2>2. Solved' = Solved
    BY <2>1 DEF Solved
  <2>3. CASE ReadSolved(r)
    <3>1. req'[r].pc = "triggers" /\ req'[r].puzzle = req[r].puzzle
          /\ req'[r].seen.solved = Solved /\ req'[r].seen.started = started
      BY <2>3, PassStep
    <3>2. Pc(r) = "unlock"
      BY <2>3 DEF ReadSolved
    <3> QED BY <2>1, <3>1, <3>2 DEF Covers, Passing, Pc, WillSolved, WillTriggers, WillStarted
  <2>4. CASE ReadTriggers(r)
    <3>1. req'[r].pc = "insert" /\ req'[r].puzzle = req[r].puzzle
          /\ req'[r].seen.solved = req[r].seen.solved
          /\ req'[r].seen.started = req[r].seen.started /\ req'[r].seen.triggers = triggers
      BY <2>4, PassStep
    <3>2. Pc(r) = "triggers"
      BY <2>4 DEF ReadTriggers
    <3> QED BY <3>1, <3>2 DEF Covers, Passing, Pc, WillSolved, WillTriggers, WillStarted
  <2>5. CASE CheckTriggers(r)
    <3>1. req'[r].pc = "candidates" /\ req'[r].puzzle = req[r].puzzle
          /\ req'[r].seen.triggers = triggers
      BY <2>5, PassStep
    <3>2. Pc(r) = "check"
      BY <2>5 DEF CheckTriggers
    <3> QED BY <2>1, <2>2, <3>1, <3>2
        DEF Covers, Passing, Pc, WillSolved, WillTriggers, WillStarted
  <2>6. CASE CheckCandidates(r)
    <3>1. Pc(r) = "candidates" /\ req[r].puzzle \in Puzzle
      BY <2>6, TypesSplit DEF CheckCandidates, AllEquipped, Equipped, Pc
    <3>2. req[r].puzzle = p
      BY <3>1, ConstantAssumption DEF Covers
    <3>3. req'[r].pc = "insert" /\ req'[r].puzzle = req[r].puzzle
          /\ req'[r].seen.solved = Solved /\ req'[r].seen.started = started
          /\ req'[r].seen.triggers = req[r].seen.triggers
      BY <2>6, <3>2, PassStep
    <3> QED BY <3>1, <3>3 DEF Covers, Passing, Pc, WillSolved, WillTriggers, WillStarted
  <2> QED BY <1>1, <2>3, <2>4, <2>5, <2>6
<1>2. CASE InsertUnlocked(r)
  <2>1. Pc(r) = "insert" /\ WillSee(r) = req[r].seen
    BY <1>2 DEF InsertUnlocked, WillSee
  <2>2. p \in ToUnlock(req[r], req[r].seen)
    BY <2>1, CoversFinds
  <2>3. state'[p] = "open"
    BY <1>2, <2>2 DEF InsertUnlocked
  <2> QED BY <2>3
<1>3. CASE Fail(r)
  BY <1>0, <1>3 DEF Fail
<1>4. ReadSolved(r) \/ ReadTriggers(r) \/ CheckTriggers(r) \/ CheckCandidates(r)
      \/ InsertUnlocked(r) \/ Fail(r)
  BY <1>0 DEF Act, Proceed, SubmitCheck, SubmitCommit, BackendSolve, PurchaseCharge,
     PurchaseGrant, MarkDirty, JudgeError, Deadlock, WantsPurse, Pc
<1> QED BY <1>1, <1>2, <1>3, <1>4

\* A step that reaches a new gate state, or closes a puzzle, begins a pass.
LEMMA StartsPass ==
  ASSUME Types, NEW r \in Request, Act(r), NEW p \in Puzzle, NEW s,
         state'[p] = "none", Below(s, Gate)', ~(state[p] = "none" /\ Below(s, Gate))
  PROVE  \/ Pc(r)' = "unlock" /\ req'[r].puzzle = None
         \/ Pc(r)' = "check" /\ req'[r].puzzle = p
         \/ "unlock" \in missed'
<1>0. /\ req \in [Request -> Row] /\ state \in [Puzzle -> {"none", "open", "solved"}]
      /\ started \in BOOLEAN
  BY TypesSplit DEF Rest, Flags
<1>1. At("unlock").pc = "unlock" /\ At("unlock").puzzle = None
  BY DEF At
<1>2. SUFFICES ASSUME ~Goto(r, At("unlock"))
               PROVE  \/ Pc(r)' = "check" /\ req'[r].puzzle = p
                      \/ "unlock" \in missed'
  BY <1>1, Lands DEF Pc
<1>3. ASSUME Solved' \subseteq Solved, triggers' \subseteq triggers, started' => started
      PROVE  state[p] # "none"
  BY <1>3 DEF Below, Gate
<1>4. CASE Clear(r)
  <2>1. PICK c \in Puzzle, check \in BOOLEAN :
          /\ state' = [state EXCEPT ![c] = "none"]
          /\ triggers' = {t \in triggers : Owner[t] # c}
          /\ req' = [Outdated EXCEPT ![r] =
                       IF check THEN [At("check") EXCEPT !.puzzle = c] ELSE At("done")]
          /\ missed' = IF check THEN missed ELSE missed \cup {"unlock"}
    BY <1>4, Zenon DEF Clear
  <2>2. Solved' \subseteq Solved /\ triggers' \subseteq triggers /\ started' = started
    BY <1>0, <1>4, <2>1 DEF Clear, Solved, game
  <2>3. state[p] # "none"
    BY <1>3, <2>2
  <2>4. c = p
    BY <1>0, <2>1, <2>3
  <2>5. CASE check
    <3>1. req'[r] = [At("check") EXCEPT !.puzzle = c]
      BY <2>1, <2>5 DEF Outdated
    <3>2. At("check") \in Row
      BY DEF At, Row, GateState, Phase
    <3>3. req'[r].pc = "check" /\ req'[r].puzzle = c
      BY <3>1, <3>2 DEF At, Row
    <3> QED BY <2>4, <3>3 DEF Pc
  <2>6. CASE ~check
    BY <2>1, <2>6
  <2> QED BY <2>5, <2>6
<1>5. CASE ~Clear(r)
  <2>1. CASE SubmitCommit(r)
    <3>1. ~DoUnlock(req[r].puzzle, req[r].verdict)
      BY <1>2, <2>1 DEF SubmitCommit
    <3>2. state' = state /\ triggers' = triggers
      BY <2>1, <3>1 DEF SubmitCommit, DoUnlock
    <3>3. started' => started
      BY <2>1, <3>1, Zenon DEF SubmitCommit, DoUnlock, Starts
    <3> QED BY <1>3, <3>2, <3>3 DEF Solved
  <2>2. CASE BackendSolve(r)
    <3>1. state' = state /\ triggers' = triggers /\ started' = started
      BY <1>2, <2>2 DEF BackendSolve
    <3> QED BY <1>3, <3>1 DEF Solved
  <2>3. CASE PurchaseGrant(r)
    <3>1. state' = state /\ triggers' = triggers /\ started' = started
      BY <1>2, <2>3 DEF PurchaseGrant, game
    <3> QED BY <1>3, <3>1 DEF Solved
  <2>4. CASE AdminUpdate(r)
    <3>1. PICK start \in BOOLEAN :
            /\ started' = start
            /\ req' = [IF start THEN req ELSE Outdated
                       EXCEPT ![r] = At(IF start THEN "unlock" ELSE "done")]
      BY <2>4 DEF AdminUpdate
    <3>2. ~start
      BY <1>2, <3>1 DEF Goto
    <3>3. state' = state /\ triggers' = triggers /\ ~started'
      BY <2>4, <3>1, <3>2 DEF AdminUpdate
    <3> QED BY <1>3, <3>3 DEF Solved
  <2>5. CASE InsertUnlocked(r)
    <3>1. Solved' \subseteq Solved /\ (state'[p] = "none" => state[p] = "none")
      BY <1>0, <2>5 DEF InsertUnlocked, Solved
    <3>2. triggers' = triggers /\ started' = started
      BY <2>5 DEF InsertUnlocked, game
    <3> QED BY <1>3, <3>1, <3>2
  <2>6. CASE ~SubmitCommit(r) /\ ~BackendSolve(r) /\ ~PurchaseGrant(r) /\ ~AdminUpdate(r)
             /\ ~InsertUnlocked(r)
    <3>1. UNCHANGED <<state, triggers, game>>
      BY <1>5, <2>6, Zenon DEF Act, Begin, Proceed, SubmitLock, BackendAdd, PurchaseRead,
         UnlockCheck, SubmitCheck, PurchaseCharge, ReadSolved, ReadTriggers, CheckTriggers,
         CheckCandidates, MarkDirty, JudgeError, Deadlock, Fail
    <3> QED BY <1>3, <3>1 DEF Solved, game
  <2> QED BY <2>1, <2>2, <2>3, <2>4, <2>5, <2>6
<1> QED BY <1>4, <1>5

\* Every step leaves each reached gate state to some pass.
LEMMA NextCovered == ASSUME Types, Covered, [Next]_vars PROVE Covered'
<1>1. CASE "unlock" \in missed
  BY <1>1, MissedKept DEF Covered
<1>2. CASE "unlock" \notin missed
  <2>1. ASSUME NEW r \in Request, Act(r), NEW p \in Puzzle \ Unconditional,
               NEW s \in UnlockCond[p], s \in GateState,
               state'[p] = "none", Monotone(UnlockCond[p]), Below(s, Gate)'
        PROVE  "unlock" \in missed' \/ \E q \in Request : Covers(q, p, s)'
    <3>1. CASE state[p] = "none" /\ Below(s, Gate)
      <4>1. PICK q \in Request : Covers(q, p, s)
        BY <1>2, <2>1, <3>1 DEF Covered
      <4>2. CASE q = r
        BY <2>1, <3>1, <4>1, <4>2, PassCovers
      <4>3. CASE q # r
        BY <2>1, <4>1, <4>3, OthersCover
      <4> QED BY <4>2, <4>3
    <3>2. CASE ~(state[p] = "none" /\ Below(s, Gate))
      <4>1. CASE Pc(r)' \in {"unlock", "check"}
                 /\ (req'[r].puzzle = None \/ req'[r].puzzle = p)
        <5>1. p \notin Solved'
          BY <2>1 DEF Solved
        <5>2. s.solved \subseteq Solved' /\ s.triggers \subseteq triggers'
              /\ (s.started => started')
          BY <2>1 DEF Below, Gate
        <5>3. Covers(r, p, s)'
          BY <4>1, <5>1, <5>2
             DEF Covers, Passing, Pc, WillSolved, WillTriggers, WillStarted
        <5> QED BY <5>3
      <4> QED BY <2>1, <3>2, <4>1, StartsPass
    <3> QED BY <3>1, <3>2
  <2>2. ASSUME NEW r \in Request, Act(r) PROVE Covered'
    <3> SUFFICES ASSUME "unlock" \notin missed',
                        NEW p \in Puzzle \ Unconditional, NEW s \in GateState,
                        state'[p] = "none", Monotone(UnlockCond[p]),
                        s \in UnlockCond[p], Below(s, Gate)'
                 PROVE  \E q \in Request : Covers(q, p, s)'
      BY DEF Covered
    <3> QED BY <2>1, <2>2
  <2>3. CASE UNCHANGED <<state, triggers, started, req, missed>>
    BY <2>3 DEF Covered, Covers, Passing, Pc, WillSolved, WillTriggers, WillStarted, Below, Gate,
       Solved
  <2> QED BY <2>2, <2>3 DEF Next, Act, ViewBlocks, CooldownEnds, Grow, vars, game
<1> QED BY <1>1, <1>2

\* What a condition sees of a new team.
NothingYet == [solved |-> {}, triggers |-> {}, started |-> FALSE]

\* A puzzle whose condition holds is open, or a running request will open it, however the
\* requests overlap, unless one failed or no check was asked for (submit_answer,
\* purchase_hint and solve_backend_puzzle call unlock_new_puzzles after what they change).
\* A condition that a new team meets at once is for its first pass to find.
THEOREM UnlocksComplete ==
  ASSUME \A p \in Puzzle \ Unconditional :
           Monotone(UnlockCond[p]) => NothingYet \notin UnlockCond[p]
  PROVE  Spec => []UnlockComplete
<1>1. ASSUME Init PROVE Covered
  <2>1. Solved = {} /\ triggers = {} /\ started = FALSE
    BY <1>1 DEF Init, Solved
  <2>2. ASSUME NEW s \in GateState, Below(s, Gate) PROVE s = NothingYet
    <3>1. s.solved = {} /\ s.triggers = {}
      BY <2>1, <2>2 DEF Below, Gate
    <3>2. s.started = FALSE
      <4>1. s.started \in BOOLEAN /\ (s.started => started)
        BY <2>2 DEF Below, Gate, GateState
      <4> QED BY <2>1, <4>1
    <3> QED BY <2>2, <3>1, <3>2 DEF GateState, NothingYet
  <2> QED BY <2>2 DEF Covered
<1>2. Types /\ Covered /\ [Next]_vars => Covered'
  BY NextCovered
<1>3. ASSUME Types, Covered PROVE UnlockComplete
  <2>1. ASSUME NEW p \in Puzzle \ Unconditional, state[p] = "none", Monotone(UnlockCond[p]),
               Gate \in UnlockCond[p], "unlock" \notin missed
        PROVE  \E r \in Request : Passing(r) /\ p \in ToUnlock(req[r], WillSee(r))
    <3>1. Gate \in GateState /\ Below(Gate, Gate)
      BY <1>3, GateType DEF Below
    <3>2. PICK r \in Request : Covers(r, p, Gate)
      BY <1>3, <2>1, <3>1 DEF Covered
    <3> QED BY <1>3, <2>1, <3>2, CoversFinds
  <2> QED BY <2>1 DEF UnlockComplete
<1>4. Inv => Types
  BY DEF Inv
<1> QED BY <1>1, <1>2, <1>3, <1>4, Invariant, PTL DEF Spec

=============================================================================
