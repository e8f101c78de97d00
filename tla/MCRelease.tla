------------------------------ MODULE MCRelease ------------------------------
(* A small instance of Release: a phase that closes the features at time 1, *)
(* and a second one that opens them, closes them or is still to be made.    *)
EXTENDS Release, TLC

CONSTANTS p1, p2, a, ed, i, s2

Planned(row, at, s) == [row |-> row, at |-> at, changes |-> [f \in Feature |-> s]]

Second(row, s) ==
  [p \in Phase |-> IF p = p1 THEN Planned("row", 1, "closed") ELSE Planned(row, 2, s)]

MCPlan == {Second("row", "open"), Second("row", "closed"), Second("new", "open")}

\* Not all take part at once: a scheduler has ended, or an administrator, an
\* editor or the immediate release is done.
Without(absent) ==
  /\ now = 0
  /\ phase \in Plan
  /\ id = [x \in Event |-> IF x \in absent THEN 1 ELSE 0]
  /\ open = [x \in Immediate |-> 0]
  /\ sequence = IF i \in absent THEN 1 ELSE 0
  /\ notified = Immediate \cap absent
  /\ state = [f \in Feature |-> "open"] /\ source = [f \in Feature |-> None]
  /\ applied = {}
  /\ lock = None /\ held = [f \in Feature |-> None]
  /\ pc = [w \in Worker |-> IF w \in absent THEN "done" ELSE "idle"]
  /\ work = [w \in Worker |-> Idle]
  /\ edit = [x \in Editor |-> [Free EXCEPT !.pc = IF x \in absent THEN "done" ELSE "new"]]
  /\ done = [x \in Event |-> IF x \in absent THEN {"content", "hints", "told"} ELSE {}]
  /\ unmarked = 0 /\ settled = [f \in Feature |-> {}] /\ late = {}
  /\ lost = 0 /\ faults = 0

MCInit ==
  \/ Without({a, ed}) /\ phase[p2].row = "row"
  \/ Without({i, ed, s2})
  \/ Without({i, a, s2}) /\ phase[p2].changes[1] = "open"

MCSpec == MCInit /\ [][Next]_vars /\ Fairness

=============================================================================
