------------------------------- MODULE Release -------------------------------
(***************************************************************************)
(* Scheduled releases and the features of one game                         *)
(* (src/src/module/release.rs, src/src/db/release.rs, src/src/db/feature.rs, *)
(* src/src/api/admin/release.rs, src/src/api/admin/feature.rs).            *)
(*                                                                         *)
(* A phase that is due gets an event.  A pass, which one worker at a time  *)
(* makes under an advisory lock, works off the events that have not been   *)
(* notified: it applies the phase's changes of features in a transaction,  *)
(* marks the leaderboard, flags the content of the teams, refreshes their  *)
(* hints, tells the clients and only then marks the event.  An error ends  *)
(* the pass; the next one begins again with the first event not notified.  *)
(*                                                                         *)
(* An element of Scheduler is the scheduler of a process, of Admin one     *)
(* request that sets a feature by hand, of Editor one request that changes *)
(* a phase, of Immediate one request that releases puzzles at once.        *)
(***************************************************************************)
EXTENDS Integers, FiniteSets

CONSTANTS
  Phase, Immediate, Scheduler, Admin, Editor,
  Feature,      \* the values of GameFeature
  Leaderboard,  \* the one whose change freezes or thaws the board
  Plan,         \* the phases a game can begin with
  None,
  MaxTime,      \* bounds the clock
  MaxFaults     \* bounds what goes wrong in a behaviour

Worker == Scheduler \cup Admin
Event  == Phase \cup Immediate
Time   == 1..MaxTime

State   == {"open", "closed"}  \* of the leaderboard: live and locked
Change  == {"open", "closed", "same"}
Changes == [Feature -> Change]
Nothing == [f \in Feature |-> "same"]

\* A row of rb_release_phase with its rb_release_phase_feature_change.
PhaseRow == [row: {"new", "row", "deleted"}, at: Time, changes: Changes]

ASSUME ConstantAssumption ==
  /\ Feature \subseteq Nat /\ IsFiniteSet(Feature) /\ Leaderboard \in Feature
  /\ Scheduler \cap Admin = {} /\ Phase \cap Immediate = {}
  /\ IsFiniteSet(Phase)
  /\ None \notin Worker \cup Event
  /\ MaxTime \in Nat \ {0} /\ MaxFaults \in Nat
  /\ Plan \subseteq [Phase -> PhaseRow]

VARIABLES
  now,
  phase,     \* rb_release_phase, rb_release_phase_feature_change
  id,        \* rb_release_event: the id of each event; 0: no row
  open,      \* ids in transactions that have not been committed
  sequence,  \* the sequence of the ids
  notified,  \* the events with notified_at
  state,     \* rb_game_feature.state
  source,    \* rb_game_feature.source_phase_id
  applied,   \* rb_game_feature_history: <<phase_id, feature_type>>
  lock,      \* the worker that holds the advisory lock
  held,      \* the worker that holds the row of each feature
  pc,        \* next statement of each worker
  work,      \* its local variables
  edit,      \* the requests of the editors
  done,      \* HISTORY: what was done for each event
  unmarked,  \* HISTORY: freezes and thaws committed since the leaderboard was marked
  settled,   \* HISTORY: per feature, the phases due when the last request that set
             \* it by hand came in
  late,      \* HISTORY: the phases that were written at or after their time
  lost,      \* HISTORY: a worker failed between such a commit and its mark
  faults     \* HISTORY: number of faults so far

tables  == <<phase, id, open, sequence, notified>>
feature == <<state, source, applied>>
locks   == <<lock, held>>
history == <<unmarked, settled, late, lost, faults>>
vars == <<now, tables, feature, locks, pc, work, edit, done, history>>

Row(p) == phase[p].row = "row"
Due(p) == Row(p) /\ phase[p].at <= now

Least(S) == CHOOSE n \in S : \A m \in S : n <= m

Idle == [todo |-> {}, event |-> None, changes |-> Nothing, left |-> {},
         writes |-> {}, due |-> {}, wish |-> Nothing]

Free == [pc |-> "new", kind |-> "none", phase |-> None, at |-> 1, changes |-> Nothing]

Init ==
  /\ now = 0
  /\ phase \in Plan
  /\ id = [e \in Event |-> 0] /\ open = [i \in Immediate |-> 0] /\ sequence = 0
  /\ notified = {}
  /\ state = [f \in Feature |-> "open"] /\ source = [f \in Feature |-> None]
  /\ applied = {}
  /\ lock = None /\ held = [f \in Feature |-> None]
  /\ pc = [w \in Worker |-> "idle"] /\ work = [w \in Worker |-> Idle]
  /\ edit = [e \in Editor |-> Free]
  /\ done = [e \in Event |-> {}]
  /\ unmarked = 0 /\ settled = [f \in Feature |-> {}] /\ late = {}
  /\ lost = 0 /\ faults = 0

-----------------------------------------------------------------------------
(* The clock, and the requests that change the schedule.                   *)

Tick == /\ now < MaxTime
        /\ now' = now + 1
        /\ UNCHANGED <<tables, feature, locks, pc, work, edit, done, history>>

\* append and edit check the request; edit reads whether the phase is released, and may
\* leave the time alone.
CheckEdit(e) ==
  /\ edit[e].pc = "new"
  /\ \E p \in Phase, at \in Time, changes \in Changes, kind \in {"create", "edit", "keep"} :
       /\ IF kind = "keep" THEN at = phase[p].at ELSE at > now
       /\ IF kind = "create" THEN phase[p].row = "new" ELSE Row(p) /\ id[p] = 0
       /\ edit' = [edit EXCEPT ![e] = [pc |-> "checked", kind |-> kind, phase |-> p,
                                       at |-> at, changes |-> changes]]
  /\ UNCHANGED <<now, tables, feature, locks, pc, work, done, history>>

\* A transaction refers to p: rb_game_feature and its history have foreign keys.
Referred(p) == \E w \in Worker : work[w].event = p /\ work[w].writes # {}

\* create_admin, update_admin.  A time another phase has is a conflict.
WriteEdit(e) ==
  LET p  == edit[e].phase
      at == IF edit[e].kind = "keep" THEN phase[p].at ELSE edit[e].at IN
  /\ edit[e].pc = "checked"
  /\ edit' = [edit EXCEPT ![e].pc = "done"]
  /\ IF \/ phase[p].row # (IF edit[e].kind = "create" THEN "new" ELSE "row")
        \/ \E q \in Phase \ {p} : Row(q) /\ phase[q].at = at
       THEN UNCHANGED <<phase, late>>
       ELSE /\ at # phase[p].at => ~Referred(p)
            /\ phase' = [phase EXCEPT ![p] = [row |-> "row", at |-> at,
                                              changes |-> edit[e].changes]]
            /\ late' = IF at <= now \/ Due(p) \/ id[p] # 0 THEN late \cup {p} ELSE late
  /\ UNCHANGED <<now, id, open, sequence, notified, feature, locks, pc, work, done,
                 unmarked, settled, lost, faults>>

\* delete_admin.  The event goes with the phase; the history and the features keep
\* their rows without it.  A phase that puzzles refer to is not deleted.
Delete(e) ==
  /\ edit[e].pc = "new"
  /\ edit' = [edit EXCEPT ![e].pc = "done"]
  /\ \E p \in Phase :
       /\ Row(p) /\ ~Referred(p)
       /\ phase' = [phase EXCEPT ![p].row = "deleted"]
       /\ id' = [id EXCEPT ![p] = 0] /\ notified' = notified \ {p}
       /\ applied' = {a \in applied : a[1] # p}
       /\ source' = [f \in Feature |-> IF source[f] = p THEN None ELSE source[f]]
  /\ UNCHANGED <<now, open, sequence, state, locks, pc, work, done, history>>

\* create_immediate_release_event_conn: the id is taken before the commit.
OpenEvent(i) ==
  /\ open[i] = 0 /\ id[i] = 0
  /\ sequence' = sequence + 1
  /\ open' = [open EXCEPT ![i] = sequence + 1]
  /\ UNCHANGED <<now, phase, id, notified, feature, locks, pc, work, edit, done,
                 history>>

CommitEvent(i) ==
  /\ open[i] # 0
  /\ id' = [id EXCEPT ![i] = open[i]]
  /\ open' = [open EXCEPT ![i] = 0]
  /\ UNCHANGED <<now, phase, sequence, notified, feature, locks, pc, work, edit, done,
                 history>>

-----------------------------------------------------------------------------
(* A pass: process_due_releases_locked.                                    *)

Goto(w, next) == pc' = [pc EXCEPT ![w] = next]

\* Where a worker is when its pass, or its request, has ended.
Rest(w) == IF w \in Scheduler THEN "idle" ELSE "done"

End(w) == Goto(w, Rest(w)) /\ work' = [work EXCEPT ![w] = Idle]

Frees(w) == held' = [f \in Feature |-> IF held[f] = w THEN None ELSE held[f]]

\* A feature is set by hand: update comes in ...
Request(w) ==
  /\ w \in Admin /\ pc[w] = "idle"
  /\ \E f \in Feature, s \in State :
       work' = [work EXCEPT ![w].wish = [Nothing EXCEPT ![f] = s],
                            ![w].due = {p \in Phase : Due(p)}]
  /\ Goto(w, "wait")
  /\ UNCHANGED <<now, tables, feature, locks, edit, done, history>>

Begins(w) == pc[w] = IF w \in Scheduler THEN "idle" ELSE "wait"

\* Mutant: update does not wait for the pass another worker makes.
StartOrSkip(w) ==
  /\ Begins(w)
  /\ IF lock = None
       THEN lock' = w /\ Goto(w, "materialize") /\ UNCHANGED work
       ELSE /\ w \in Admin /\ UNCHANGED lock /\ Goto(w, "lock")
            /\ work' = [work EXCEPT ![w].changes = work[w].wish,
                          ![w].left = {f \in Feature : work[w].wish[f] # "same"}]
  /\ UNCHANGED <<now, tables, feature, held, edit, done, history>>

\* ... and waits for the lock; a scheduler only tries to take it.
Start(w) ==
  /\ Begins(w)
  /\ lock = None /\ lock' = w
  /\ Goto(w, "materialize")
  /\ UNCHANGED <<now, tables, feature, held, work, edit, done, history>>

\* materialize_due: an event for every phase that is due and has none, by time.
Materialize(w) ==
  LET fresh == {p \in Phase : Due(p) /\ id[p] = 0} IN
  /\ pc[w] = "materialize"
  /\ id' = [e \in Event |->
              IF e \in fresh
              THEN sequence + Cardinality({p \in fresh : phase[p].at <= phase[e].at})
              ELSE id[e]]
  /\ sequence' = sequence + Cardinality(fresh)
  /\ Goto(w, "list")
  /\ UNCHANGED <<now, phase, open, notified, feature, locks, work, edit, done, history>>

\* pending_notifications
List(w) ==
  /\ pc[w] = "list"
  /\ work' = [work EXCEPT ![w].todo = {e \in Event : id[e] # 0 /\ e \notin notified}]
  /\ Goto(w, "next")
  /\ UNCHANGED <<now, tables, feature, locks, edit, done, history>>

\* Mutant: the event is marked before it is dealt with.
MarkFirst(w) ==
  /\ pc[w] = "next"
  /\ \E e \in work[w].todo :
       /\ \A d \in work[w].todo : id[e] <= id[d]
       /\ work' = [work EXCEPT ![w].event = e, ![w].todo = @ \ {e}]
       /\ notified' = IF id[e] = 0 THEN notified ELSE notified \cup {e}
       /\ Goto(w, IF e \in Phase THEN "changes" ELSE "flag")
  /\ UNCHANGED <<now, phase, id, open, sequence, feature, locks, edit, done, history>>

\* The next event of the list.  An immediate one has no changes.
NextEvent(w) ==
  /\ pc[w] = "next"
  /\ \E e \in work[w].todo :
       /\ \A d \in work[w].todo : id[e] <= id[d]
       /\ work' = [work EXCEPT ![w].event = e, ![w].todo = @ \ {e}]
       /\ Goto(w, IF e \in Phase THEN "changes" ELSE "flag")
  /\ UNCHANGED <<now, tables, feature, locks, edit, done, history>>

\* apply_phase_changes reads the changes ...
ReadChanges(w) ==
  LET p == work[w].event
      changes == IF Row(p) THEN phase[p].changes ELSE Nothing IN
  /\ pc[w] = "changes"
  /\ work' = [work EXCEPT ![w].changes = changes,
                          ![w].left = {f \in Feature : changes[f] # "same"}]
  /\ Goto(w, "check")
  /\ UNCHANGED <<now, tables, feature, locks, edit, done, history>>

\* ... and set_state_conn skips a feature that the history shows the phase has changed.
CheckHistory(w) ==
  LET f == Least(work[w].left) IN
  /\ pc[w] = "check" /\ work[w].left # {}
  /\ IF <<work[w].event, f>> \in applied
       THEN work' = [work EXCEPT ![w].left = @ \ {f}] /\ UNCHANGED pc
       ELSE Goto(w, "lock") /\ UNCHANGED work
  /\ UNCHANGED <<now, tables, feature, locks, edit, done, history>>

\* What rolls the transaction back: the phase is gone, or the history has got the row.
Refused(w) == LET p == work[w].event IN
  p # None /\ (~Row(p) \/ <<p, Least(work[w].left)>> \in applied)

\* SELECT ... FOR UPDATE, and the statements that the transaction's commit makes visible.
LockFeature(w) ==
  LET f == Least(work[w].left) IN
  /\ pc[w] = "lock" /\ held[f] = None /\ ~Refused(w)
  /\ held' = [held EXCEPT ![f] = w]
  /\ work' = [work EXCEPT ![w].left = @ \ {f}, ![w].writes = @ \cup {f}]
  /\ Goto(w, "check")
  /\ UNCHANGED <<now, tables, feature, lock, edit, done, history>>

Unlocks(w) == lock' = IF lock = w THEN None ELSE lock

\* The error ends the pass.
Refuse(w) ==
  /\ pc[w] = "lock" /\ held[Least(work[w].left)] = None /\ Refused(w)
  /\ Frees(w) /\ Unlocks(w)
  /\ End(w)
  /\ UNCHANGED <<now, tables, feature, edit, done, history>>

Writes(w) ==
  LET p == work[w].event
      W == work[w].writes IN
  /\ state'  = [f \in Feature |-> IF f \in W THEN work[w].changes[f] ELSE state[f]]
  /\ source' = [f \in Feature |-> IF f \in W THEN p ELSE source[f]]
  /\ applied' = IF p = None THEN applied ELSE applied \cup {<<p, f>> : f \in W}
  /\ settled' = [f \in Feature |->
                   IF f \in W /\ p = None THEN work[w].due ELSE settled[f]]
  /\ Frees(w)

\* What a change of the board, or of any feature by hand, is followed by.
MustMark(w) == \/ Leaderboard \in work[w].writes
               \/ /\ work[w].event = None
                  /\ \E f \in work[w].writes : state[f] # work[w].changes[f]

Commit(w) ==
  /\ pc[w] = "check" /\ work[w].left = {}
  /\ Writes(w)
  /\ unmarked' = IF Leaderboard \in work[w].writes THEN 1 ELSE unmarked
  /\ work' = [work EXCEPT ![w].writes = {}]
  /\ Goto(w, IF MustMark(w) THEN "mark"
             ELSE IF work[w].event = None THEN "done" ELSE "flag")
  /\ UNCHANGED <<now, tables, lock, edit, done, late, lost, faults>>

\* invalidate_game; the refresh it asks for is module Leaderboard's.
Mark(w) ==
  /\ pc[w] = "mark"
  /\ unmarked' = 0
  /\ Goto(w, IF work[w].event = None THEN "done" ELSE "flag")
  /\ UNCHANGED <<now, tables, feature, locks, work, edit, done, settled, late, lost,
                 faults>>

\* mark_content_blocks_dirty, the refreshed hints of the teams, and the message to the
\* clients, one after the other.
Serves(w, from, what, next) ==
  /\ pc[w] = from
  /\ done' = [done EXCEPT ![work[w].event] = @ \cup {what}]
  /\ Goto(w, next)
  /\ UNCHANGED <<now, tables, feature, locks, work, edit, history>>

Flag(w)    == Serves(w, "flag", "content", "hints")
Refresh(w) == Serves(w, "hints", "hints", "tell")
Tell(w)    == Serves(w, "tell", "told", "notified")

\* mark_notified
MarkNotified(w) ==
  LET e == work[w].event IN
  /\ pc[w] = "notified"
  /\ notified' = IF id[e] = 0 THEN notified ELSE notified \cup {e}
  /\ Goto(w, "next")
  /\ UNCHANGED <<now, phase, id, open, sequence, feature, locks, work, edit, done,
                 history>>

\* The rollback that gives the lock back fails when its connection is lost.  An admin's
\* request goes on to set_manual_state.
Unlock(w) ==
  /\ pc[w] = "next" /\ work[w].todo = {}
  /\ Unlocks(w)
  /\ IF w \in Admin /\ lock = w
       THEN /\ work' = [work EXCEPT ![w].event = None, ![w].changes = work[w].wish,
                          ![w].left = {f \in Feature : work[w].wish[f] # "same"}]
            /\ Goto(w, "lock")
       ELSE End(w)
  /\ UNCHANGED <<now, tables, feature, held, edit, done, history>>

-----------------------------------------------------------------------------
(* What goes wrong.                                                        *)

Fault == faults < MaxFaults /\ faults' = faults + 1

\* The lock goes with its connection; the pass does not notice.
LoseLock(w) ==
  /\ Fault /\ lock = w
  /\ lock' = None
  /\ UNCHANGED <<now, tables, feature, held, pc, work, edit, done, unmarked, settled,
                 late, lost>>

\* Mutant: a pass that fails leaves the event to the next pass and goes on.
FailOne(w) ==
  /\ Fault /\ pc[w] \notin {"idle", "wait", "done"}
  /\ lost' = IF pc[w] = "mark" /\ unmarked = 1 THEN 1 ELSE lost
  /\ Frees(w)
  /\ work' = [work EXCEPT ![w].left = {}, ![w].writes = {}]
  /\ Goto(w, "next")
  /\ UNCHANGED <<now, tables, feature, lock, edit, done, unmarked, settled, late>>

\* Mutant: the lock is a session's and is not given back.
FailLocked(w) ==
  /\ Fault /\ pc[w] \notin {"idle", "wait", "done"}
  /\ lost' = IF pc[w] = "mark" /\ unmarked = 1 THEN 1 ELSE lost
  /\ Frees(w)
  /\ End(w)
  /\ UNCHANGED <<now, tables, feature, lock, edit, done, unmarked, settled, late>>

\* A statement fails, or the process ends: transactions are rolled back.
Fail(w) ==
  /\ Fault /\ pc[w] \notin {"idle", "wait", "done"}
  /\ lost' = IF pc[w] = "mark" /\ unmarked = 1 THEN 1 ELSE lost
  /\ Frees(w) /\ Unlocks(w)
  /\ End(w)
  /\ UNCHANGED <<now, tables, feature, edit, done, unmarked, settled, late>>

\* The transaction is committed, its answer is lost.
CommitUnheard(w) ==
  /\ Fault /\ pc[w] = "check" /\ work[w].left = {} /\ work[w].writes # {}
  /\ Writes(w) /\ Unlocks(w)
  /\ unmarked' = IF Leaderboard \in work[w].writes THEN 1 ELSE unmarked
  /\ lost' = IF Leaderboard \in work[w].writes THEN 1 ELSE lost
  /\ End(w)
  /\ UNCHANGED <<now, tables, edit, done, late>>

-----------------------------------------------------------------------------
\* A statement of a worker, which follows the one before without further ado.
Step(w) ==
  \/ Materialize(w) \/ List(w) \/ NextEvent(w) \/ ReadChanges(w) \/ CheckHistory(w)
  \/ LockFeature(w) \/ Refuse(w) \/ Commit(w) \/ Mark(w) \/ Flag(w) \/ Refresh(w)
  \/ Tell(w) \/ MarkNotified(w) \/ Unlock(w)

Next ==
  \/ Tick
  \/ \E e \in Editor : CheckEdit(e) \/ WriteEdit(e) \/ Delete(e)
  \/ \E i \in Immediate : OpenEvent(i) \/ CommitEvent(i)
  \/ \E w \in Worker : \/ Request(w) \/ Start(w) \/ Step(w)
                       \/ LoseLock(w) \/ Fail(w) \/ CommitUnheard(w)

Spec == Init /\ [][Next]_vars

\* Statements end.  A scheduler that sleeps wakes within 60 seconds: some worker takes
\* the lock when it is free.
Fairness ==
  /\ \A w \in Worker : WF_vars(Step(w))
  /\ WF_vars(\E w \in Scheduler : Start(w))

FairSpec == Spec /\ Fairness

-----------------------------------------------------------------------------
(* Properties.                                                             *)

PC == {"idle", "wait", "materialize", "list", "next", "changes", "check", "lock",
       "mark", "flag", "hints", "tell", "notified", "done"}

\* The variables have their types; what refers to a phase refers to a row that is there
\* (the foreign keys that delete_admin relies on).
TypeOK ==
  /\ now \in 0..MaxTime
  /\ phase \in [Phase -> PhaseRow]
  /\ id \in [Event -> Nat] /\ open \in [Immediate -> Nat] /\ sequence \in Nat
  /\ notified \subseteq {e \in Event : id[e] # 0}
  /\ state \in [Feature -> State]
  /\ source \in [Feature -> {None} \cup {p \in Phase : Row(p)}]
  /\ applied \subseteq {p \in Phase : Row(p)} \X Feature
  /\ lock \in Worker \cup {None} /\ held \in [Feature -> Worker \cup {None}]
  /\ pc \in [Worker -> PC]
  /\ work \in [Worker -> [todo: SUBSET Event, event: Event \cup {None},
                          changes: Changes, left: SUBSET Feature,
                          writes: SUBSET Feature, due: SUBSET Phase, wish: Changes]]
  /\ edit \in [Editor -> [pc: {"new", "checked", "done"},
                          kind: {"none", "create", "edit", "keep"}, phase: Phase \cup {None},
                          at: Time, changes: Changes]]
  /\ done \in [Event -> SUBSET {"content", "hints", "told"}]
  /\ unmarked \in 0..1 /\ settled \in [Feature -> SUBSET Phase]
  /\ late \subseteq Phase /\ lost \in 0..1 /\ faults \in 0..MaxFaults

\* What a phase has set is never what an earlier phase wanted: features change in the
\* order of release_at, though passes fail, are repeated and overlap when the lock is
\* lost.  Phases that were written at or after their time are exempt.
InOrder ==
  \A f \in Feature : LET p == source[f] IN
    p # None /\ p \notin late =>
      \A q \in Phase \ late : <<q, f>> \in applied => phase[q].at <= phase[p].at

\* What an admin has set by hand is not undone by a phase that was due when the request
\* came in: update makes a pass first, and fails when the pass does.
ManualStands ==
  \A f \in Feature : source[f] \in late \/ source[f] \notin settled[f]

\* An event that counts as notified has been dealt with in full: the changes of its phase
\* are applied, the content of the teams flagged, their hints refreshed, the clients told.
NotifiedInFull ==
  \A e \in notified :
    /\ done[e] = {"content", "hints", "told"}
    /\ e \in Phase \ late =>
         \A f \in Feature : phase[e].changes[f] # "same" => <<e, f>> \in applied

\* The rows at any time, between the statements of passes that overlap.
EventsSound == TypeOK /\ NotifiedInFull

\* A phase that is due, and an immediate event, is notified eventually although passes
\* fail, unless the phase is deleted or moved.
Announced ==
  /\ \A p \in Phase : Due(p) ~> (p \in notified \/ ~Due(p))
  /\ \A i \in Immediate : id[i] # 0 ~> i \in notified

\* A freeze or thaw of the leaderboard is marked eventually, unless the worker that
\* committed it fails before (no later pass marks it: the history says it is applied).
Marked == unmarked = 1 ~> unmarked = 0 \/ lost = 1

\* What is due is done, whatever fails on the way: every event is announced, and every
\* change of the board reaches the leaderboard.
Completes == Announced /\ Marked

=============================================================================
