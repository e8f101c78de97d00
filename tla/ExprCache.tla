----------------------------- MODULE ExprCache -----------------------------
(***************************************************************************)
(* The caches of compiled conditions, one for each language, that the      *)
(* threads of a process share (src/src/expr/mod.rs).                       *)
(*                                                                         *)
(* A thread looks a text up under the lock for readers, compiles it under  *)
(* no lock, and inserts the result, an error as well, under the lock for   *)
(* writers.                                                                *)
(***************************************************************************)
EXTENDS GateExpr

CONSTANTS
  Thread,
  Written,    \* the sets of conditions that may be in use, each with its language
  Team,       \* what a team may have done
  Capacity    \* COMPILE_CACHE_CAPACITY, 4096 in the code

VARIABLES
  written,    \* the conditions in use
  values,     \* of each cache, what each text compiled to
  order,      \* and the order of insertion
  call        \* what each thread evaluates

vars == <<written, values, order, call>>

Kind == {"gate", "hint"}
Idle == [pc |-> "idle", text |-> None, compiled |-> Error]

Init ==
  /\ written \in Written
  /\ values = [k \in Kind |-> <<>>] /\ order = [k \in Kind |-> <<>>]
  /\ call = [t \in Thread |-> Idle]

\* A text is <<kind, tokens>>.
Lookup(t, text) ==
  LET cached == values[text[1]] IN
  /\ call[t].pc = "idle"
  /\ call' = [call EXCEPT ![t] =
       IF text \in DOMAIN cached
       THEN [pc |-> "evaluate", text |-> text, compiled |-> cached[text]]
       ELSE [pc |-> "insert", text |-> text, compiled |-> Compile(text[1], text[2])]]
  /\ UNCHANGED <<written, values, order>>

\* Whoever comes later replaces what is there.
StoreAnyway(cached, queue, text, compiled) ==
  LET full == Cardinality(DOMAIN cached) >= Capacity
      kept == IF full THEN DOMAIN cached \ {queue[1]} ELSE DOMAIN cached IN
  [values |-> [x \in kept \cup {text} |-> IF x = text THEN compiled ELSE cached[x]],
   order  |-> Append(IF full THEN Tail(queue) ELSE queue, text)]

\* Another thread may have inserted the text meanwhile.
Store(cached, queue, text, compiled) ==
  LET full == Cardinality(DOMAIN cached) >= Capacity
      kept == IF full THEN DOMAIN cached \ {queue[1]} ELSE DOMAIN cached IN
  IF text \in DOMAIN cached THEN [values |-> cached, order |-> queue]
  ELSE [values |-> [x \in kept \cup {text} |-> IF x = text THEN compiled ELSE cached[x]],
        order  |-> Append(IF full THEN Tail(queue) ELSE queue, text)]

Insert(t) ==
  LET text == call[t].text
      k    == text[1]
      new  == Store(values[k], order[k], text, call[t].compiled)
  IN
  /\ call[t].pc = "insert"
  /\ values' = [values EXCEPT ![k] = new.values] /\ order' = [order EXCEPT ![k] = new.order]
  /\ call' = [call EXCEPT ![t].pc = "evaluate", ![t].compiled = new.values[text]]
  /\ UNCHANGED written

Evaluate(t) ==
  /\ call[t].pc = "evaluate" /\ call' = [call EXCEPT ![t] = Idle]
  /\ UNCHANGED <<written, values, order>>

Next == \E t \in Thread :
  \/ \E text \in written : Lookup(t, text)
  \/ Insert(t) \/ Evaluate(t)

Spec == Init /\ [][Next]_vars
-----------------------------------------------------------------------------
(* What a text means, without compiling it. *)

\* Every token but the last leaves a list open.
Balanced(tokens) ==
  LET Depth(i) == Cardinality({j \in 1..i : tokens[j] = "("}) - Cardinality({j \in 1..i : tokens[j] = ")"})
      n == Len(tokens)
  IN n > 0 /\ Depth(n) = 0 /\ \A i \in 1..n - 1 : Depth(i) > 0

RECURSIVE Tokens(_), WellFormed(_, _), Means(_, _)

Tokens(t) ==
  IF IsAtom(t) THEN <<t.atom>>
  ELSE <<"(">> \o FlattenSeq([i \in DOMAIN t.list |-> Tokens(t.list[i])]) \o <<")">>

Operands(t)  == [i \in 1..Len(t.list) - 1 |-> t.list[i + 1]]
Junctions    == {"and", "or", "not"}
OfHints      == {"hint-enabled", "hint-cooled-down"}

\* A condition is well-formed when all of its parts are, those as well that
\* cannot change its value.
WellFormed(kind, t) ==
  /\ IsForm(t)
  /\ IF Form(t) \in Junctions
     THEN /\ \A i \in DOMAIN Operands(t) : WellFormed(kind, Operands(t)[i])
          /\ Form(t) = "not" => Len(t.list) = 2
     ELSE IF kind = "hint" /\ Form(t) \in OfHints THEN Len(t.list) = 1
     ELSE CompileGate(t) # Error

Means(team, t) ==
  CASE Form(t) = "and" -> \A i \in DOMAIN Operands(t) : Means(team, Operands(t)[i])
    [] Form(t) = "or"  -> \E i \in DOMAIN Operands(t) : Means(team, Operands(t)[i])
    [] Form(t) = "not" -> ~Means(team, Operands(t)[1])
    [] Form(t) \in OfHints -> Holds(team, [op |-> Form(t)])
    [] OTHER -> Holds(team, CompileGate(t))
-----------------------------------------------------------------------------
(* Properties *)

\* What a thread evaluates, cached or not, is an error exactly when the text
\* is malformed, and otherwise decides as the text means, whatever was dropped,
\* absorbed, taken in or negated twice (compile_gate, compile_hint_display).
Faithful == \A t \in Thread : call[t].pc = "evaluate" =>
  LET kind   == call[t].text[1]
      tokens == call[t].text[2]
      e      == call[t].compiled
      tree   == Parse(tokens)
  IN /\ (tree # None) = Balanced(tokens) /\ (tree # None => Tokens(tree) = tokens)
     /\ e # Error <=> tree # None /\ WellFormed(kind, tree)
     /\ e # Error => \A team \in Team : Eval(team, e) = Means(team, tree)

\* A hint whose display does not name its cooldown may be shown before the
\* cooldown is known (hint_display_uses_cooldown), also where the name was
\* simplified away.
CooldownSeen == \A t \in Thread :
  call[t].pc = "evaluate" /\ call[t].compiled # Error /\ ~UsesCooldown(call[t].compiled) =>
    \A team \in Team : Eval([team EXCEPT !.cooled = ~@], call[t].compiled) = Eval(team, call[t].compiled)

\* The queue names every cached text once, whoever compiled it meanwhile: an
\* entry it forgot would never be evicted (CompileCache::insert).
CacheWhole == \A k \in Kind :
  /\ IsInjective(order[k]) /\ Range(order[k]) = DOMAIN values[k]
  /\ Cardinality(DOMAIN values[k]) <= Capacity
  /\ \A text \in DOMAIN values[k] : values[k][text] = Compile(k, text[2])
=============================================================================
