------------------------------- MODULE Wallet -------------------------------
(***************************************************************************)
(* What a team sees of one currency: a balance that grows by itself while  *)
(* the currency is open, and is spent, added to or set.  Module Currency   *)
(* shows that the row of rb_team_currency, whose growth is only settled    *)
(* when somebody touches it, behaves like this.                            *)
(***************************************************************************)
EXTENDS Integers

CONSTANTS
  Price,     \* what things cost
  Gift,      \* what is added at a time
  Max,       \* the ceiling
  Rounding   \* the growth of a minute that has begun, lost when it is settled

VARIABLES
  balance,   \* what the team is shown
  open,      \* does the currency grow
  cause      \* who changed it last

vars == <<balance, open, cause>>

Init == balance \in Nat /\ open \in BOOLEAN /\ cause = "start"

Grow == open /\ balance' >= balance /\ UNCHANGED <<open, cause>>

\* A payment is made as of a little earlier.  At the ceiling growth is lost, and the growth
\* since that time takes its place.
Less(p) == IF balance = Max THEN Max ELSE balance - p

\* Nobody spends what he is not shown to have, and no debt comes from spending.
Spend ==
  /\ cause' = "spend" /\ UNCHANGED open
  /\ \E p \in Price :
       /\ balance >= p
       /\ balance' \in (balance - p - Rounding)..Less(p) /\ balance' >= 0

\* A purchase while the currency is closed settles growth that nobody is shown.
SpendClosed ==
  /\ cause' = "purchase" /\ ~open /\ UNCHANGED open
  /\ balance' >= 0 /\ \E p \in Price : balance' >= balance - p

\* A payment that another one overtook may give growth twice or take some back.
Overtaken == cause' = "overtaken" /\ balance' <= Max /\ UNCHANGED open

\* A penalty takes what it takes.
Pay ==
  /\ cause' = "penalty" /\ UNCHANGED open
  /\ \E p \in Price : /\ balance' >= balance - p - Rounding
                      /\ open => balance' <= Less(p)

Receive ==
  /\ cause' = "reward" /\ UNCHANGED open
  /\ \E g \in Gift : balance' \in (balance - Rounding)..(balance + g) /\ balance' <= Max

\* The staff sets it to what it wants.
Set == cause' = "staff" /\ UNCHANGED open

Open  == cause' = "feature" /\ open' = TRUE /\ balance' >= balance
Close == cause' = "feature" /\ open' = FALSE /\ balance' <= balance

Next == Grow \/ Spend \/ SpendClosed \/ Overtaken \/ Pay \/ Receive \/ Set \/ Open \/ Close

Spec == Init /\ [][Next]_vars
=============================================================================
