----------------------------- MODULE MCAllParts -----------------------------
(* Model checking of the parts of MCParts and of the language of           *)
(* conditions.  A behaviour is one of the part that its first state names, *)
(* and the others stay as they are.                                        *)
(*   backend      two judges, or a judge and a call through the API        *)
(*   pool         the same with so few connections that a judge who wants  *)
(*                a second one may find none                               *)
(*   sessions     two browsers log in and out as a user and as Root, who   *)
(*                resets passwords                                         *)
(*   administrators   Root and an administrator, both logged in, change a  *)
(*                third account and each other's                           *)
(*   group        two requests move two files between two folders          *)
(*   expressions  two threads share the caches of two conditions; every    *)
(*                text is compiled somewhere                               *)
EXTENDS MCParts, Sequences, SequencesExt, TLC

CONSTANTS
  Thread,
  Small,   \* connections in the part `pool`
  b2,      \* one of the browsers
  u1, u2   \* who is not Root

VARIABLES moving, written, values, order, asked

inExpressions == <<written, values, order, asked>>

Cramped == INSTANCE PuzzleBackend WITH
  None <- Nothing, lock <- held, pc <- stage, told <- heard, Pool <- Small

-----------------------------------------------------------------------------
(* What the functions of the backends do.                                  *)
Host(op, k, x) == [op |-> op, key |-> k, expiry |-> x]
MCMenu == [e \in Execution |->
  CASE e = "j1" -> {Host("set", "m", "permanent"), Host("set", "k", "ttl")}
    [] e = "j2" -> {Host("delete", "k", "none"), Host("increment", "k", "none"),
                    Host("increment", "m", "preserve"), Host("insert", "k", "none")}
    [] e = "a1" -> {Host("get", "k", "none"), Host("compareAndSet", "k", "preserve"),
                    Host("setIfAbsent", "k", "permanent"), Host("emit", "k", "none")}]

-----------------------------------------------------------------------------
(* The conditions.                                                         *)
MCNumeral == [n \in {"1", "2", "3"} |-> CASE n = "1" -> 1 [] n = "2" -> 2 [] n = "3" -> 3]
MCPuzzles == <<[id |-> 3, slug |-> "meta", round |-> 1, head |-> TRUE],
               [id |-> 1, slug |-> "intro", round |-> 1, head |-> FALSE],
               [id |-> 2, slug |-> "alpha", round |-> 1, head |-> FALSE]>>
MCRounds  == <<[id |-> 1, slug |-> "first"], [id |-> 2, slug |-> Nothing]>>

Wrap(form, parts) == <<"(", form>> \o parts \o <<")">>
Two(s) == {a \o b : a, b \in s}

Leaves == {Wrap("true", <<>>), Wrap("false", <<>>), Wrap("solved", <<"1">>),
           Wrap("hint-cooled-down", <<>>)}
Nest(s) == s \cup {Wrap("not", a) : a \in s}
             \cup UNION {{Wrap(j, a) : a \in s \cup Two(s) \cup {<<>>}} : j \in {"and", "or"}}
Deep == Nest(Leaves) \cup Nest(Nest(Leaves))

\* One of each form, and its malformed neighbours.
Sets == {<<"(", "puzzles", "1", "alpha", ")">>, <<"(", "puzzles", "1", "nowhere", ")">>,
         <<"(", "puzzle-range", "3", "1", ")">>, <<"(", "puzzle-range", "1", ")">>,
         <<"(", "round", "first", ")">>, <<"(", "round", "2", ")">>}
Ordering == {"gt", "ge", "lt", "le", "eq", "ne"}
Forms == {Wrap(f, s) : f \in {"all-solved", "any-solved", "unknown"}, s \in Sets}
  \cup {Wrap(c, Wrap("solved-count", s) \o <<n>>) : c \in Ordering, s \in Sets, n \in {"1", "intro"}}
  \cup {Wrap("triggered", <<"intro", k>>) : k \in {"key", "1"}}
  \cup {Wrap("game-started", <<>>), Wrap("game-started", <<"1">>), Wrap("solved", <<"nowhere">>),
        <<"1">>}

\* Any few tokens.
Loose == UNION {[1..n -> {"(", ")", "true"}] : n \in 0..6}

MCTeam == [solved: {{}, {1}, {1, 2}}, triggered: {{}, {<<1, "key">>}}, started: BOOLEAN,
           enabled: {TRUE}, cooled: BOOLEAN]

Shared == {<<"gate", Wrap("true", <<>>)>>, <<"gate", Wrap("not", Wrap("false", <<>>))>>,
           <<"gate", <<"1">>>>, <<"hint", Wrap("hint-enabled", <<>>)>>}
MCWritten == {Shared} \cup {{<<k, s>>} : k \in {"gate", "hint"}, s \in Deep \cup Forms \cup Loose}

Expressions == INSTANCE ExprCache WITH
  None <- Nothing, Numeral <- MCNumeral, TriggerKey <- {"key"}, PuzzleRow <- MCPuzzles,
  RoundRow <- MCRounds, Written <- MCWritten, Team <- MCTeam, Capacity <- 2, call <- asked

-----------------------------------------------------------------------------
\* One of the calls has failed before the others begin.
BackendInit(absent) ==
  /\ now = 1
  /\ rows = [k \in Key |-> Backend!NoRow] /\ committed = rows
  /\ held = [k \in Key |-> Nothing] /\ docs = {}
  /\ stage = [e \in Execution |-> IF e = absent THEN "failed" ELSE "idle"]
  /\ work = [e \in Execution |-> Backend!Local]
  /\ heard = {}

\* Root has made u1 an administrator, and each has logged in.
Administered ==
  LET home == [b \in Browser |-> IF b = b2 THEN u1 ELSE Root] IN
  /\ person = [p \in Person |->
       IF p = u2 THEN People!NoAccount
       ELSE [role |-> IF p = Root THEN People!RootRole ELSE People!Admin, temporary |-> FALSE]]
  /\ cookie = [b \in Browser |-> [user |-> home[b], id |-> 0]]
  /\ list = [p \in Person |-> SetToSeq({<<b, 0>> : b \in {b \in Browser : home[b] = p}})]
  /\ cap = [p \in Person |-> IF p = u2 THEN 0 ELSE 1]
  /\ request = [b \in Browser |-> People!NoCall] /\ breaks = 0

AllInit ==
  /\ moving \in {"backend", "pool", "sessions", "administrators", "group", "expressions"}
  /\ \E absent \in {"j2", "a1"} :
       (moving # "backend" => absent = "a1") /\ BackendInit(absent)
  /\ IF moving = "administrators" THEN Administered ELSE People!Init
  /\ Files!Init /\ Expressions!Init /\ (moving # "expressions" => written = Shared)

\* A request is cut off only where no other browser has begun to act.
OneBrowser == cookie[b2] = [user |-> Nothing, id |-> 0] /\ request[b2] = People!NoCall

\* Of the requests of administrators, only the one that ends sessions.
Sessions == /\ person'[u2] = person[u2] /\ person'[u1].role \in {Nothing, People!Player}
            /\ \A b \in Browser :
                 /\ request'[b].pc \in {"idle", "push", "trim", "reset", "invalidate"}
                 /\ request'[b].user # u2
                 /\ request'[b].user = Root => request'[b].pc # "reset" /\ b # b2

NobodyLogsIn == \A b \in Browser : request'[b].pc # "push"

\* Nor does a request begin where others have met on a path.
NobodyNew == \A d \in Editor : job[d].pc = "idle" => job'[d] = job[d]

AllNext ==
  \/ moving = "backend" /\ Backend!Next /\ UNCHANGED <<moving, inAccounts, inGroup, inExpressions>>
  \/ moving = "pool" /\ Cramped!Next /\ UNCHANGED <<moving, inAccounts, inGroup, inExpressions>>
  \/ moving = "sessions" /\ People!Next /\ Sessions /\ (breaks' = 1 => OneBrowser')
     /\ UNCHANGED <<moving, inBackend, inGroup, inExpressions>>
  \/ moving = "administrators" /\ People!Next /\ NobodyLogsIn
     /\ (breaks' = 1 => request[b2].pc = "idle")
     /\ UNCHANGED <<moving, inBackend, inGroup, inExpressions>>
  \/ moving = "group" /\ Files!Next /\ (met = 2 => NobodyNew)
     /\ UNCHANGED <<moving, inBackend, inAccounts, inExpressions>>
  \/ moving = "expressions" /\ Expressions!Next
     /\ UNCHANGED <<moving, inBackend, inAccounts, inGroup>>

AllSpec == AllInit /\ [][AllNext]_<<moving, inBackend, inAccounts, inGroup, inExpressions>>

\* Names that the parts do not tell apart.
Interchangeable == UNION {Permutations(s) : s \in {Item, Folder, Name, Editor}}

-----------------------------------------------------------------------------
\* No two executions of backend functions wait for each other for ever, be it for rows
\* or for connections.
SomeoneMoves == /\ moving = "backend" => Backend!SomeoneMoves
                /\ moving = "pool" => Cramped!SomeoneMoves

\* A condition means what its text says, cached or not, and the caches stay within bounds.
ExpressionsSound ==
  moving = "expressions" => /\ Expressions!Faithful /\ Expressions!CooldownSeen
                            /\ Expressions!CacheWhole
=============================================================================
