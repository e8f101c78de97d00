------------------------------ MODULE Currency ------------------------------
(***************************************************************************)
(* One currency of one team (src/src/db/team.rs, src/src/db/feature.rs,    *)
(* src/src/db/game.rs, and the purchases and penalties of                  *)
(* src/src/db/puzzle.rs and src/src/db/ticket.rs).                         *)
(*                                                                         *)
(* The row holds an amount and the time it was right at.  Growth by the    *)
(* minute is added when it is read: NOW() is the time at which the         *)
(* transaction began, which may be long before it gets the row.  Amounts   *)
(* are 64 bits wide: here from MinInt to MaxInt.                           *)
(***************************************************************************)
EXTENDS Integers

CONSTANTS
  Tx,           \* transactions
  None,
  Minute,       \* time units of a minute
  Growths,      \* growth per minute that the staff may set, game's and team's together
  InitAmount, Max,
  MinInt, MaxInt,
  Price, Gift,
  MaxTime       \* bound on the clock

ASSUME ConstantAssumption ==
  /\ Minute \in Nat \ {0} /\ Growths \subseteq Nat
  /\ \E g \in Growths : \A h \in Growths : h <= g
  /\ MinInt \in Int /\ MinInt < 0 /\ MaxInt \in Nat
  /\ Max \in 0..MaxInt /\ InitAmount \in 0..Max
  /\ Price \subseteq 1..MaxInt /\ Gift \subseteq 1..MaxInt /\ MaxTime \in Nat
  /\ None \notin Tx

VARIABLES
  now,       \* the clock of the database
  row,       \* rb_team_currency: amount and utime_at
  growth,    \* rb_currency.growth + rb_team_currency.growth
  feature,   \* rb_game_feature: is the currency open, and since when
  tx,        \* the transactions
  rowLock,   \* who holds the rows of the team and of the currency
  gfLock,    \* who holds the row of the feature
  cause,     \* HISTORY: what changed the row last
  credited,  \* HISTORY: growth added to the amount so far
  due,       \* HISTORY: growth times time while the currency was open
  spilled,   \* HISTORY: growth added by purchases and penalties while it was closed
  back       \* HISTORY: growth times the time since NOW() that a transaction gave again

data == <<row, growth, feature>>
past == <<cause, credited, due, spilled, back>>
vars == <<now, data, tx, rowLock, gfLock, past>>

Op == {"cost", "add", "set", "adjust", "penalty", "purchase", "toggle", "growth"}

TypeOK ==
  /\ now \in 0..MaxTime
  /\ row \in [amount: MinInt..MaxInt, utime: 0..MaxTime]
  /\ growth \in Growths
  /\ feature \in [open: BOOLEAN, since: 0..MaxTime]
  /\ tx \in [Tx -> [pc: {"idle", "begun", "holds", "done"}, op: Op \cup {None},
                    start: 0..MaxTime, current: MinInt..MaxInt]]
  /\ rowLock \in Tx \cup {None} /\ gfLock \in Tx \cup {None}

Init ==
  /\ now = 0 /\ row = [amount |-> InitAmount, utime |-> 0]
  /\ growth \in Growths /\ feature = [open |-> TRUE, since |-> 0]
  /\ tx = [x \in Tx |-> [pc |-> "idle", op |-> None, start |-> 0, current |-> 0]]
  /\ rowLock = None /\ gfLock = None
  /\ cause = "start" /\ credited = 0 /\ due = 0 /\ spilled = 0 /\ back = 0

-----------------------------------------------------------------------------
Least(x, y)    == IF x <= y THEN x ELSE y
Greatest(x, y) == IF x >= y THEN x ELSE y
Fits(x)        == x \in MinInt..MaxInt

\* FLOOR(EXTRACT(EPOCH FROM (at - utime_at)) / 60): negative when the row is newer.
Minutes(at) == (at - row.utime) \div Minute

\* What a purchase or a penalty takes for the amount.
Settled(at) == Least(row.amount + Minutes(at) * growth, Max)

\* What the functions of team.rs take for it, and what the team is shown.
Current(at) == IF feature.open
               THEN Greatest(Least(row.amount, 0), Settled(at))
               ELSE row.amount

\* currency_cost_change
CostChange(current, amount) ==
  IF Fits(-amount) /\ Fits(current - amount) /\ (amount > 0 => current - amount >= 0)
                   /\ (amount < 0 => current - amount <= Max)
  THEN {current - amount} ELSE {}

\* strict_currency_next
StrictNext(current, delta) ==
  IF Fits(current + delta) /\ current + delta <= Max THEN {current + delta} ELSE {}

\* add_currency_locked_conn: saturating_add, and then clamp
Added(current, delta) ==
  LET next == Greatest(MinInt, Least(MaxInt, current + delta))
  IN  Greatest(Least(current, 0), Least(next, Max))

-----------------------------------------------------------------------------
Tick ==
  /\ now < MaxTime /\ now' = now + 1
  /\ due' = IF feature.open THEN due + growth ELSE due
  /\ UNCHANGED <<data, tx, rowLock, gfLock, cause, credited, spilled, back>>

Begin(x, op) ==
  /\ tx[x].pc = "idle"
  /\ tx' = [tx EXCEPT ![x].pc = "begun", ![x].op = op, ![x].start = now]
  /\ UNCHANGED <<now, data, rowLock, gfLock, past>>

End(x) ==
  /\ tx' = [tx EXCEPT ![x].pc = "done"]
  /\ rowLock' = IF rowLock = x THEN None ELSE rowLock
  /\ gfLock' = IF gfLock = x THEN None ELSE gfLock
  /\ UNCHANGED now

Refuse(x) == End(x) /\ UNCHANGED <<data, past>>

\* The rows are read without FOR UPDATE.
ReadRuntime(x) ==
  /\ tx[x].pc = "begun" /\ tx[x].op \in {"cost", "add", "set", "adjust"}
  /\ rowLock = None /\ gfLock = None
  /\ tx' = [tx EXCEPT ![x].pc = "holds", ![x].current = Current(tx[x].start)]
  /\ UNCHANGED <<now, data, rowLock, gfLock, past>>

\* lock_currency_runtime_conn locks the rows of the team, the currency and the feature.
LockRuntime(x) ==
  /\ tx[x].pc = "begun" /\ tx[x].op \in {"cost", "add", "set", "adjust"}
  /\ rowLock = None /\ gfLock = None
  /\ rowLock' = x /\ gfLock' = x
  /\ tx' = [tx EXCEPT ![x].pc = "holds", ![x].current = Current(tx[x].start)]
  /\ UNCHANGED <<now, data, past>>

\* The statement of a purchase or of a penalty does not look at the feature.  A sum that
\* does not fit is an error.
LockPurchase(x) ==
  /\ tx[x].pc = "begun" /\ tx[x].op \in {"penalty", "purchase"} /\ rowLock = None
  /\ IF Fits(Settled(tx[x].start))
     THEN /\ rowLock' = x
          /\ tx' = [tx EXCEPT ![x].pc = "holds", ![x].current = Settled(tx[x].start)]
          /\ UNCHANGED <<now, data, gfLock, past>>
     ELSE Refuse(x)

\* set_state_conn locks the feature, update_currency of the game also the currency.
LockFeature(x) ==
  /\ tx[x].pc = "begun" /\ tx[x].op \in {"toggle", "growth"} /\ gfLock = None
  /\ tx[x].op = "growth" => rowLock = None
  /\ gfLock' = x /\ rowLock' = IF tx[x].op = "growth" THEN x ELSE rowLock
  /\ tx' = [tx EXCEPT ![x].pc = "holds"]
  /\ UNCHANGED <<now, data, past>>

\* UPDATE rb_team_currency SET amount = ..., utime_at = NOW(), and the commit.
Write(x, why, amount, g) ==
  LET extra == tx[x].current - row.amount IN
  /\ row' = [amount |-> amount, utime |-> tx[x].start]
  /\ cause' = IF tx[x].start < row.utime THEN "overtaken" ELSE why
  /\ credited' = credited + extra
  /\ spilled' = IF feature.open \/ extra < 0 THEN spilled ELSE spilled + extra
  /\ back' = back + growth * Greatest(0, row.utime - tx[x].start)
                  + Greatest(0, g - growth) * (now - tx[x].start)
  /\ growth' = g /\ UNCHANGED <<feature, due>>
  /\ End(x)

Holds(x, op) == tx[x].pc = "holds" /\ tx[x].op = op

\* cost_currency_locked_conn
Cost(x) ==
  /\ Holds(x, "cost")
  /\ \E p \in Price :
       \/ \E next \in CostChange(tx[x].current, p) :
            Write(x, "spend", next, growth)
       \/ CostChange(tx[x].current, p) = {} /\ Refuse(x)

Add(x) ==
  /\ Holds(x, "add")
  /\ \E g \in Gift : Write(x, "reward", Added(tx[x].current, g), growth)

\* apply_currency_update_conn: a new growth settles the old one.
Update(x) ==
  /\ Holds(x, "set")
  /\ \/ \E a \in Price \cup Gift : Write(x, "staff", Least(a, Max), growth)
     \/ \E g \in Growths : Write(x, "staff", Least(tx[x].current, Max), g)

\* staff_adjust_currency, which must not be done on a closed currency
Adjust(x) ==
  /\ Holds(x, "adjust")
  /\ \E d \in Gift \cup {-p : p \in Price} :
       LET next == IF feature.open THEN StrictNext(tx[x].current, d) ELSE {} IN
       \/ \E a \in next : Write(x, "staff", a, growth)
       \/ next = {} /\ Refuse(x)

\* purchase_hint, purchase_ticket_message
Purchase(x) ==
  /\ Holds(x, "purchase")
  /\ \E p \in Price :
       \/ /\ tx[x].current >= p
          /\ Write(x, IF feature.open THEN "spend" ELSE "purchase", tx[x].current - p, growth)
       \/ tx[x].current < p /\ Refuse(x)

\* A failed answer costs its penalty, also into debt; out of range is an error.
Penalty(x) ==
  /\ Holds(x, "penalty")
  /\ \E p \in Price :
       \/ /\ Fits(tx[x].current - p)
          /\ Write(x, "penalty", tx[x].current - p, growth)
       \/ ~Fits(tx[x].current - p) /\ Refuse(x)

-----------------------------------------------------------------------------
\* settle_currency_growth_conn as of a time
SettleAt(at) ==
  LET amount == Greatest(Least(row.amount, 0),
                         Least(row.amount + Greatest(Minutes(at), 0) * growth, Max))
  IN  /\ row' = [amount |-> amount, utime |-> Greatest(row.utime, at)]
      /\ credited' = credited + (amount - row.amount)

\* Opening leaves the time of the row alone.
EnableStale(at) == UNCHANGED <<row, credited>>

\* enable_currency_growth_conn
Enable(at) == row' = [row EXCEPT !.utime = Greatest(@, at)] /\ UNCHANGED credited

\* set_state_conn: by hand it counts from now, of a phase from the time that was planned,
\* which is past.  The rows are written when their locks are free.
Toggle(x) ==
  /\ Holds(x, "toggle") /\ rowLock = None
  /\ \E at \in feature.since..now :
       /\ feature' = [open |-> ~feature.open, since |-> at]
       /\ IF feature.open THEN SettleAt(at) ELSE Enable(at)
       /\ due' = IF feature.open THEN due ELSE due + growth * (now - at)
  /\ cause' = "feature" /\ UNCHANGED <<growth, spilled, back>>
  /\ End(x)

\* update_currency of the game: a change of the growth settles first, if it is open.
ChangeGrowth(x) ==
  /\ Holds(x, "growth")
  /\ \E g \in Growths \ {growth} : growth' = g
  /\ IF feature.open THEN SettleAt(now) ELSE UNCHANGED <<row, credited>>
  /\ cause' = "staff" /\ UNCHANGED <<feature, due, spilled, back>>
  /\ End(x)

Next ==
  \/ Tick
  \/ \E x \in Tx :
       \/ \E op \in Op : Begin(x, op)
       \/ LockRuntime(x) \/ LockPurchase(x) \/ LockFeature(x)
       \/ Cost(x) \/ Add(x) \/ Update(x) \/ Adjust(x) \/ Purchase(x) \/ Penalty(x)
       \/ Toggle(x) \/ ChangeGrowth(x)

Spec == Init /\ [][Next]_vars

-----------------------------------------------------------------------------
\* The growth that a team gets is never more than the time the currency was open is worth.
\* What goes beyond comes from purchases and penalties while it was closed (puzzle.rs:1570,
\* puzzle.rs:2955, ticket.rs:1749), and from a transaction that waited for the row, whose
\* NOW() sets utime_at back.
GrowthBounded == (credited - spilled) * Minute <= due + back
GrowthSound   == TypeOK /\ GrowthBounded

\* Nobody spends more than the team is shown, spending makes no debt, a closed currency
\* does not grow and opening or closing takes nothing but a minute that has begun: the
\* row, settled lazily, is a wallet.
MaxGrowth == CHOOSE g \in Growths : \A h \in Growths : h <= g
Shown == INSTANCE Wallet WITH
           balance <- Current(now), open <- feature.open, Rounding <- MaxGrowth
ShownWallet == Shown!Spec
=============================================================================
