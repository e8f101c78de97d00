-------------------------- MODULE MCPuzzleProgress --------------------------
(* Model checking of PuzzleProgress: a first puzzle whose answers start the  *)
(* game or fire a trigger, a second that a solve and the trigger open.       *)
EXTENDS PuzzleProgress, TLC

CONSTANTS p1, p2, a1, a2, t1, h1, b1, r1, r2

MCOwner == (t1 :> p1) @@ (h1 :> p1) @@ (b1 :> p2)

MCUnlockCond ==
  (p2 :> {s \in GateState : p1 \in s.solved /\ (t1 \in s.triggers \/ s.started)})

MCHintCond  == (h1 :> GateState)
MCBlockCond == (b1 :> {s \in GateState : p1 \in s.solved /\ s.started})

Says(action, fired) == [action |-> action, ignored |-> FALSE, triggers |-> fired]

MCRules == [pa \in Puzzle \X Answer |->
  CASE pa = <<p1, a1>> -> {Says("fail", {}), Says("start", {}), Says("milestone", {t1})}
    [] pa = <<p1, a2>> -> {Says("fail", {}), Says("correct", {})}
    [] pa = <<p2, a1>> -> {Says("finish", {})}
    [] OTHER -> {Says("fail", {}), Says("error", {t1}), [Says("milestone", {}) EXCEPT !.ignored = TRUE]}]

MCAdded == {[action |-> "finish", ignored |-> FALSE],
            [action |-> "fail", ignored |-> TRUE]}

MCMinimum == (p1 :> 0) @@ (p2 :> 1)
MCPenalty == (p1 :> 1) @@ (p2 :> 0)
MCCost    == (h1 :> 1)
MCHintTriggers == (h1 :> {t1})

\* The same team after its first submission has started the game.
Playing ==
  /\ state = [p \in Puzzle |-> IF p = p1 THEN "open" ELSE "none"]
  /\ triggers = {} /\ started = TRUE /\ finished = FALSE /\ banned = FALSE
  /\ subs = {[puzzle |-> p1, answer |-> a1, action |-> "start", ignored |-> FALSE]}
  /\ cooling = {} /\ dirty = FALSE /\ blocks = {}
  /\ enabled = {} /\ bought = {} /\ funded = TRUE /\ balance = InitAmount
  /\ lock = None /\ purse = None
  /\ req = [r \in Request |-> At("idle")]
  /\ missed = {}

MCSpec == (Init \/ Playing) /\ [][Next]_vars /\ Fairness

=============================================================================
