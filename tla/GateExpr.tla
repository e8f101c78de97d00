------------------------------ MODULE GateExpr ------------------------------
(***************************************************************************)
(* The language of conditions: what opens a puzzle or shows a hint, as a   *)
(* function of the team's progress (src/src/expr).                         *)
(*                                                                         *)
(* A text is a sequence of tokens.  It is parsed into a tree, the tree is  *)
(* compiled, which simplifies it, and the result is evaluated.             *)
(***************************************************************************)
EXTENDS Integers, Sequences, FiniteSets, SequencesExt

CONSTANTS
  Numeral,       \* the atoms that are numbers, as a function to their value
  TriggerKey,    \* the atoms that may name a trigger
  PuzzleRow,     \* the puzzles of the game in order: id, slug, round, and
                 \* whether it is the puzzle of the round itself
  RoundRow,      \* its rounds: id and slug
  None

Comparison == {"gt", "ge", "lt", "le", "eq", "ne"}
Error == [op |-> "error"]
True  == [op |-> "true"]
False == [op |-> "false"]
-----------------------------------------------------------------------------
(* Parsing: a tree is an atom or a list of trees. *)

NoTree    == [tree |-> None, next |-> 0]
IsAtom(t) == "atom" \in DOMAIN t

RECURSIVE ParseAt(_, _), ParseItems(_, _, _)

\* The tree that begins at a token, and the token after it.
ParseAt(tokens, i) ==
  IF i > Len(tokens) \/ tokens[i] = ")" THEN NoTree
  ELSE IF tokens[i] = "(" THEN ParseItems(tokens, i + 1, <<>>)
  ELSE [tree |-> [atom |-> tokens[i]], next |-> i + 1]

ParseItems(tokens, i, items) ==
  IF i > Len(tokens) THEN NoTree
  ELSE IF tokens[i] = ")" THEN [tree |-> [list |-> items], next |-> i + 1]
  ELSE LET item == ParseAt(tokens, i) IN
       IF item = NoTree THEN NoTree ELSE ParseItems(tokens, item.next, Append(items, item.tree))

\* Tokens after the tree are an error.
Parse(tokens) ==
  LET parsed == ParseAt(tokens, 1) IN
  IF parsed # NoTree /\ parsed.next = Len(tokens) + 1 THEN parsed.tree ELSE None
-----------------------------------------------------------------------------
(* Compilation. *)

\* An atom that is not a number is a slug.
Reference(t) == IF t.atom \in DOMAIN Numeral THEN [id |-> Numeral[t.atom]] ELSE [slug |-> t.atom]

IsForm(t)  == ~IsAtom(t) /\ t.list # <<>> /\ IsAtom(t.list[1])
Form(t)    == t.list[1].atom
IsNumber(t) == IsAtom(t) /\ t.atom \in DOMAIN Numeral

CompileSet(t) ==
  IF ~IsForm(t) THEN Error
  ELSE LET args == Tail(t.list) IN
    CASE Form(t) = "puzzles" /\ (\A i \in DOMAIN args : IsAtom(args[i])) ->
           [op |-> "puzzles", puzzles |-> [i \in DOMAIN args |-> Reference(args[i])]]
      [] Form(t) = "puzzle-range" /\ Len(args) = 2 /\ (\A i \in DOMAIN args : IsNumber(args[i])) ->
           [op |-> "range", from |-> Numeral[args[1].atom], to |-> Numeral[args[2].atom]]
      [] Form(t) = "round" /\ Len(args) = 1 /\ (\A i \in DOMAIN args : IsAtom(args[i])) ->
           [op |-> "round", round |-> Reference(args[1])]
      [] OTHER -> Error

CompileValue(t) ==
  IF IsNumber(t) THEN [op |-> "number", value |-> Numeral[t.atom]]
  ELSE IF IsForm(t) /\ Form(t) = "solved-count" /\ Len(t.list) = 2 /\ CompileSet(t.list[2]) # Error
  THEN [op |-> "count", set |-> CompileSet(t.list[2])]
  ELSE Error

\* "and" and "or" drop what is neutral, absorb, and take in their own kind.
Junction(op, parts, unit, zero) ==
  LET inner == [i \in DOMAIN parts |-> IF parts[i] = unit THEN <<>>
                                       ELSE IF parts[i].op = op THEN parts[i].args
                                       ELSE <<parts[i]>>]
      flat  == FlattenSeq(inner)
  IN IF \E i \in DOMAIN parts : parts[i] = Error THEN Error
     ELSE IF \E i \in DOMAIN parts : parts[i] = zero THEN zero
     ELSE IF flat = <<>> THEN unit
     ELSE IF Len(flat) = 1 THEN flat[1]
     ELSE [op |-> op, args |-> flat]

Negation(e, true, false) ==
  IF e = Error THEN Error
  ELSE IF e = true THEN false
  ELSE IF e = false THEN true
  ELSE IF e.op = "not" THEN e.arg
  ELSE [op |-> "not", arg |-> e]

RECURSIVE CompileGate(_), CompileHint(_)

CompileGate(t) ==
  IF ~IsForm(t) THEN Error
  ELSE LET args == Tail(t.list)
           n    == Len(args)
           set  == CompileSet(args[1])
           lhs  == CompileValue(args[1])
           rhs  == CompileValue(args[2])
       IN
    CASE Form(t) \in {"true", "false", "game-started"} /\ n = 0 -> [op |-> Form(t)]
      [] Form(t) = "and" -> Junction("and", [i \in 1..n |-> CompileGate(args[i])], True, False)
      [] Form(t) = "or"  -> Junction("or", [i \in 1..n |-> CompileGate(args[i])], False, True)
      [] Form(t) = "not" /\ n = 1 -> Negation(CompileGate(args[1]), True, False)
      [] Form(t) = "solved" /\ n = 1 /\ IsAtom(args[1]) ->
           [op |-> "solved", puzzle |-> Reference(args[1])]
      [] Form(t) \in {"all-solved", "any-solved"} /\ n = 1 /\ set # Error -> [op |-> Form(t), set |-> set]
      [] Form(t) = "triggered" /\ n = 2 /\ (\A i \in 1..n : IsAtom(args[i])) /\ args[2].atom \in TriggerKey ->
           [op |-> "triggered", puzzle |-> Reference(args[1]), key |-> args[2].atom]
      [] Form(t) \in Comparison /\ n = 2 /\ lhs # Error /\ rhs # Error ->
           [op |-> Form(t), lhs |-> lhs, rhs |-> rhs]
      [] OTHER -> Error

\* The display of a hint knows two conditions more.
Gate(e) == IF e = Error THEN Error ELSE [op |-> "gate", gate |-> e]

CompileHint(t) ==
  IF ~IsForm(t) THEN Error
  ELSE LET args == Tail(t.list)
           n    == Len(args)
       IN
    CASE Form(t) \in {"hint-enabled", "hint-cooled-down"} ->
           IF n = 0 THEN [op |-> Form(t)] ELSE Error
      [] Form(t) = "and" -> Junction("and", [i \in 1..n |-> CompileHint(args[i])], Gate(True), Gate(False))
      [] Form(t) = "or"  -> Junction("or", [i \in 1..n |-> CompileHint(args[i])], Gate(False), Gate(True))
      [] Form(t) = "not" ->
           IF n = 1 THEN Negation(CompileHint(args[1]), Gate(True), Gate(False)) ELSE Error
      [] OTHER -> Gate(CompileGate(t))

Compile(kind, tokens) ==
  LET tree == Parse(tokens) IN
  IF tree = None THEN Error ELSE IF kind = "gate" THEN CompileGate(tree) ELSE CompileHint(tree)
-----------------------------------------------------------------------------
(* Evaluation, for a team: what it solved and triggered, whether it started,*)
(* and whether the hint is enabled and its time is over.                   *)

\* What is looked up by slug, and the puzzles of each round that has some: the
\* puzzle of the round itself is not among them.
Slugs(rows) == {p \in Range(rows) : p.slug # None}

IdOfSlug(rows) ==
  [s \in {p.slug : p \in Slugs(rows)} |-> (CHOOSE p \in Slugs(rows) : p.slug = s).id]

PuzzleSlug == IdOfSlug(PuzzleRow)
RoundSlug  == IdOfSlug(RoundRow)

RoundPuzzles ==
  LET listed == SelectSeq(PuzzleRow, LAMBDA p : ~p.head) IN
  [r \in {p.round : p \in Range(listed)} |->
     LET own == SelectSeq(listed, LAMBDA p : p.round = r) IN [i \in DOMAIN own |-> own[i].id]]

\* None if there is no such puzzle or round.
Puzzle(r) == IF "id" \in DOMAIN r THEN r.id
             ELSE IF r.slug \in DOMAIN PuzzleSlug THEN PuzzleSlug[r.slug] ELSE None

RoundOf(r) ==
  LET id == IF "id" \in DOMAIN r THEN r.id
            ELSE IF r.slug \in DOMAIN RoundSlug THEN RoundSlug[r.slug] ELSE None
  IN IF id \in DOMAIN RoundPuzzles THEN RoundPuzzles[id] ELSE <<None>>

\* A set with a puzzle that does not exist is no set.
Members(set) ==
  LET lo == IF set.from <= set.to THEN set.from ELSE set.to
      hi == IF set.from <= set.to THEN set.to ELSE set.from
  IN CASE set.op = "puzzles" -> [i \in DOMAIN set.puzzles |-> Puzzle(set.puzzles[i])]
       [] set.op = "range"   -> [i \in 1..hi - lo + 1 |-> lo + i - 1]
       [] set.op = "round"   -> RoundOf(set.round)

Known(ids) == \A i \in DOMAIN ids : ids[i] # None

Value(team, v) ==
  LET ids == Members(v.set) IN
  IF v.op = "number" THEN v.value
  ELSE IF Known(ids) THEN Cardinality({i \in DOMAIN ids : ids[i] \in team.solved}) ELSE 0

Compare(op, a, b) ==
  CASE op = "gt" -> a > b [] op = "ge" -> a >= b [] op = "lt" -> a < b
    [] op = "le" -> a <= b [] op = "eq" -> a = b [] op = "ne" -> a # b

\* The forms that are not made of others.
Holds(team, e) ==
  LET ids == Members(e.set) IN
  CASE e.op \in {"true", "false"} -> e.op = "true"
    [] e.op = "game-started" -> team.started
    [] e.op = "solved"     -> Puzzle(e.puzzle) \in team.solved
    [] e.op = "triggered"  -> <<Puzzle(e.puzzle), e.key>> \in team.triggered
    [] e.op = "all-solved" -> Known(ids) /\ \A i \in DOMAIN ids : ids[i] \in team.solved
    [] e.op = "any-solved" -> Known(ids) /\ \E i \in DOMAIN ids : ids[i] \in team.solved
    [] e.op = "hint-enabled"     -> team.enabled
    [] e.op = "hint-cooled-down" -> team.cooled
    [] e.op \in Comparison -> Compare(e.op, Value(team, e.lhs), Value(team, e.rhs))

RECURSIVE Eval(_, _), UsesCooldown(_)

Eval(team, e) ==
  CASE e.op = "and"  -> \A i \in DOMAIN e.args : Eval(team, e.args[i])
    [] e.op = "or"   -> \E i \in DOMAIN e.args : Eval(team, e.args[i])
    [] e.op = "not"  -> ~Eval(team, e.arg)
    [] e.op = "gate" -> Eval(team, e.gate)
    [] OTHER -> Holds(team, e)

UsesCooldown(e) ==
  CASE e.op \in {"and", "or"} -> \E i \in DOMAIN e.args : UsesCooldown(e.args[i])
    [] e.op = "not" -> UsesCooldown(e.arg)
    [] OTHER -> e.op = "hint-cooled-down"
=============================================================================
