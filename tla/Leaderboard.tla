---------------------------- MODULE Leaderboard ----------------------------
(***************************************************************************)
(* The leaderboard of one game (src/src/db/board.rs and                    *)
(* src/src/module/leaderboard.rs).                                         *)
(*                                                                         *)
(* Handlers commit a change of a team, or freeze, thaw or remove, and then *)
(* mark it in PostgreSQL.  A scheduler in every process works the marks    *)
(* off under an advisory lock: it builds a snapshot with a new version and *)
(* publishes it to Redis.  A reader takes the latest snapshot from Redis,  *)
(* rebuilds it when there is none, and falls back on its process's cache.  *)
(*                                                                         *)
(* What the board shows of a team is a number that every change increases. *)
(* An element of Change is one call of a handler, of Scheduler the refresh  *)
(* task of a process, of Reader a task that serves get_info.                *)
(***************************************************************************)
EXTENDS Integers, FiniteSets

CONSTANTS
  Team, Change, Scheduler, Reader, Process,
  Home,       \* the process of a scheduler or a reader
  Gone,       \* what the board shows of a removed team
  None,
  MaxFaults   \* bounds what goes wrong in a behaviour

Worker == Scheduler \cup Reader

Value == Nat \cup {Gone}
Rows  == [Team -> Value]

State    == {"live", "locked"}
Snapshot == [version: Nat, rows: Rows, state: State]

ASSUME ConstantAssumption ==
  /\ Home \in [Worker -> Process]
  /\ Scheduler \cap Reader = {}
  /\ Gone \notin Nat /\ None \notin Rows \cup Worker \cup Team \cup Snapshot
  /\ MaxFaults \in Nat

VARIABLES
  live,      \* what rb_team and its tables say of each team
  frozen,    \* rb_leaderboard_lock_team; None: no rb_leaderboard_lock
  sequence,  \* rb_leaderboard_dirty_revision_seq
  dirty,     \* revision in rb_leaderboard_dirty_team; 0: no row
  full,      \* full_rebuild; "none": no rb_leaderboard_refresh_state
  version,   \* next_version
  lock,      \* the worker that holds the advisory lock
  leaked,    \* the process whose connection pool holds the advisory lock, unused
  latest,    \* the latest key
  cache,     \* LEADER_BOARD_CACHE of each process
  made,      \* HISTORY: every snapshot that was built; what a client got, and what
             \* the snapshot:<version> keys hold until they expire, are among them
  call,      \* the calls of the handlers
  pc,        \* next statement of each worker
  work,      \* its local variables
  lost,      \* HISTORY: "mark" of the game, or "handler" that never marked its change
  faults     \* HISTORY: number of faults so far

database == <<live, frozen, sequence, dirty, full, version>>
locks    == <<lock, leaked>>
history  == <<made, lost, faults>>
vars == <<database, locks, latest, cache, call, pc, work, history>>

Phase == {"idle", "keep", "polling",
          "max", "version", "flag", "rows", "locked_at",
          "store", "latest", "cache", "delete", "clear", "unlock"}

Idle == [max |-> 0, version |-> 0, flag |-> "live", rows |-> None, was |-> "no",
         snapshot |-> None]

\* The calls of the handlers.
New  == [pc |-> "new", kind |-> None, team |-> None, revision |-> 0]
Done == [New EXCEPT !.pc = "done"]

Init ==
  /\ live = [t \in Team |-> 0] /\ frozen = None
  /\ sequence = 0 /\ dirty = [t \in Team |-> 0] /\ full = "none" /\ version = 0
  /\ lock = None /\ leaked = None
  /\ made = {} /\ latest = None /\ cache = [p \in Process |-> None]
  /\ call = [c \in Change |-> New]
  /\ pc = [w \in Worker |-> "idle"] /\ work = [w \in Worker |-> Idle]
  /\ lost = {} /\ faults = 0

-----------------------------------------------------------------------------
(* The handlers: the change is committed, then it is marked.               *)

Committed(c, kind, t) ==
  call' = [call EXCEPT ![c] = [New EXCEPT !.pc = "owed", !.kind = kind, !.team = t]]

Advance(c, next) == call' = [call EXCEPT ![c] = next]

\* A solve, a new name, a member, a ban ...
ChangeTeam(c) ==
  /\ call[c].pc = "new"
  /\ \E t \in Team : /\ live[t] # Gone
                    /\ live' = [live EXCEPT ![t] = @ + 1]
                    /\ Committed(c, "team", t)
  /\ UNCHANGED <<frozen, sequence, dirty, full, version, locks, latest, cache, pc,
                 work, history>>

\* set_state_conn: lock_leaderboard_conn does nothing when there is a lock.
Freeze(c) ==
  /\ call[c].pc = "new"
  /\ frozen' = IF frozen = None THEN live ELSE frozen
  /\ Committed(c, "game", None)
  /\ UNCHANGED <<live, sequence, dirty, full, version, locks, latest, cache, pc,
                 work, history>>

Thaw(c) ==
  /\ call[c].pc = "new"
  /\ frozen' = None
  /\ Committed(c, "game", None)
  /\ UNCHANGED <<live, sequence, dirty, full, version, locks, latest, cache, pc,
                 work, history>>

\* The rows that refer to the team go with it.
RemoveTeam(c) ==
  /\ call[c].pc = "new"
  /\ \E t \in Team :
       /\ live[t] # Gone
       /\ live' = [live EXCEPT ![t] = Gone]
       /\ frozen' = IF frozen = None THEN None ELSE [frozen EXCEPT ![t] = Gone]
       /\ dirty' = [dirty EXCEPT ![t] = 0]
  /\ Committed(c, "game", None)
  /\ UNCHANGED <<sequence, full, version, locks, latest, cache, pc, work, history>>

\* mark_team_dirty takes a revision from the sequence, after any other statement
\* that holds the row of the team has been committed ...
TakeRevision(c) ==
  /\ call[c].pc = "owed" /\ call[c].kind = "team"
  /\ \A d \in Change : call[d].pc = "marking" => call[d].team # call[c].team
  /\ sequence' = sequence + 1
  /\ call' = [call EXCEPT ![c].pc = "marking", ![c].revision = sequence + 1]
  /\ UNCHANGED <<live, frozen, dirty, full, version, locks, latest, cache, pc,
                 work, history>>

\* ... and then is committed itself.
MarkTeam(c) ==
  LET t == call[c].team IN
  /\ call[c].pc = "marking"
  /\ dirty' = IF live[t] = Gone THEN dirty ELSE [dirty EXCEPT ![t] = call[c].revision]
  /\ full' = IF full = "none" /\ live[t] # Gone THEN "yes" ELSE full
  /\ Advance(c, Done)
  /\ UNCHANGED <<live, frozen, sequence, version, locks, latest, cache, pc, work,
                 history>>

\* A refresh has begun to read and will clear full_rebuild once more.
Underway(w) ==
  /\ w \in Scheduler
  /\ pc[w] \in {"rows", "locked_at", "store", "latest", "cache", "delete", "clear"}

\* mark_game_dirty, and the removal from the cache of the process that handles c.
MarkGame(c) ==
  /\ call[c].pc = "owed" /\ call[c].kind = "game"
  /\ full' = "yes"
  /\ \E p \in Process : cache' = [cache EXCEPT ![p] = None]
  /\ lost' = IF \E w \in Worker : Underway(w) THEN lost \cup {"mark"} ELSE lost
  /\ Advance(c, Done)
  /\ UNCHANGED <<live, frozen, sequence, dirty, version, locks, latest, pc, work,
                 made, faults>>

-----------------------------------------------------------------------------
(* Refreshing: refresh_game, and rebuild_and_publish on behalf of a reader. *)

Goto(w, next) == pc' = [pc EXCEPT ![w] = next]
Finish(w) == Goto(w, "idle") /\ work' = [work EXCEPT ![w] = Idle]

\* pg_try_advisory_lock.  A worker may be given the very connection that still
\* holds a leaked lock.
Locks(w) == lock = None /\ leaked \in {None, Home[w]} /\ lock' = w

\* dirty_games
Dirty == full = "yes" \/ \E t \in Team : dirty[t] # 0

StartRefresh(w) ==
  /\ pc[w] = "idle" /\ Dirty
  /\ Locks(w)
  /\ Goto(w, "max")
  /\ UNCHANGED <<database, leaked, latest, cache, call, work, history>>

\* SELECT MAX(revision)
ReadMax(w) ==
  /\ pc[w] = "max"
  /\ \E m \in {0} \cup {dirty[t] : t \in Team} :
       /\ \A t \in Team : dirty[t] <= m
       /\ work' = [work EXCEPT ![w].max = m]
  /\ Goto(w, "version")
  /\ UNCHANGED <<database, locks, latest, cache, call, history>>

\* A row that is inserted keeps the column's default, full_rebuild = TRUE.
NextVersion(w) ==
  /\ pc[w] = "version"
  /\ version' = version + 1
  /\ full' = IF full = "none" THEN "yes" ELSE "no"
  /\ work' = [work EXCEPT ![w].version = version + 1, ![w].was = full]
  /\ Goto(w, "flag")
  /\ UNCHANGED <<live, frozen, sequence, dirty, locks, latest, cache, call, history>>

\* Whether rb_leaderboard_lock has a row for the game.
LockState == IF frozen = None THEN "live" ELSE "locked"

\* fetch_teams asks whether the board is locked ...
ReadFlag(w) ==
  /\ pc[w] = "flag"
  /\ work' = [work EXCEPT ![w].flag = LockState]
  /\ Goto(w, "rows")
  /\ UNCHANGED <<database, locks, latest, cache, call, history>>

\* ... then for the rows, which may have been deleted in between ...
ReadRows(w) ==
  /\ pc[w] = "rows"
  /\ work' = [work EXCEPT ![w].flag = "live", ![w].rows =
        CASE work[w].flag = "live" -> live
          [] work[w].flag = "locked" /\ frozen # None -> frozen
          [] OTHER -> [t \in Team |-> Gone]]
  /\ Goto(w, "locked_at")
  /\ UNCHANGED <<database, locks, latest, cache, call, history>>

\* ... and build_snapshot for locked_at.
ReadLockedAt(w) ==
  /\ pc[w] = "locked_at"
  /\ work' = [work EXCEPT ![w].rows = None, ![w].version = 0, ![w].snapshot =
        [version |-> work[w].version, rows |-> work[w].rows, state |-> LockState]]
  /\ made' = made \cup {work'[w].snapshot}
  /\ Goto(w, "store")
  /\ UNCHANGED <<database, locks, latest, cache, call, lost, faults>>

\* publish_snapshot: SET snapshot:<version> ...
StoreSnapshot(w) ==
  /\ pc[w] = "store"
  /\ Goto(w, "latest")
  /\ UNCHANGED <<database, locks, latest, cache, call, work, history>>

\* ... SET latest ...
SetLatest(w) ==
  /\ pc[w] = "latest"
  /\ latest' = work[w].snapshot
  /\ work' = [work EXCEPT ![w].was = "no"]
  /\ Goto(w, "cache")
  /\ UNCHANGED <<database, locks, cache, call, history>>

\* ... and the cache of the process.  A reader has its snapshot.
CacheSnapshot(w) ==
  /\ pc[w] = "cache"
  /\ cache' = [cache EXCEPT ![Home[w]] = work[w].snapshot]
  /\ Goto(w, IF w \in Scheduler THEN "delete" ELSE "unlock")
  /\ work' = [work EXCEPT ![w].snapshot = None]
  /\ UNCHANGED <<database, locks, latest, call, history>>

\* Mutant: every mark is deleted.
DeleteAllMarks(w) ==
  /\ pc[w] = "delete"
  /\ dirty' = [t \in Team |-> 0]
  /\ work' = [work EXCEPT ![w].max = 0]
  /\ Goto(w, "clear")
  /\ UNCHANGED <<live, frozen, sequence, full, version, locks, latest, cache, call,
                 history>>

DeleteMarks(w) ==
  /\ pc[w] = "delete"
  /\ dirty' = [t \in Team |-> IF dirty[t] <= work[w].max THEN 0 ELSE dirty[t]]
  /\ work' = [work EXCEPT ![w].max = 0]
  /\ Goto(w, "clear")
  /\ UNCHANGED <<live, frozen, sequence, full, version, locks, latest, cache, call,
                 history>>

\* UPDATE ... SET full_rebuild = FALSE
ClearFull(w) ==
  /\ pc[w] = "clear"
  /\ full' = "no"
  /\ Goto(w, "unlock")
  /\ UNCHANGED <<live, frozen, sequence, dirty, version, locks, latest, cache, call,
                 work, history>>

\* advisory_unlock
Unlock(w) ==
  /\ pc[w] = "unlock"
  /\ lock' = None
  /\ Finish(w)
  /\ UNCHANGED <<database, leaked, latest, cache, call, history>>

-----------------------------------------------------------------------------
(* Reading: get_info.  A later page of a snapshot is read from its own key *)
(* and changes nothing.                                                    *)

\* GET latest, for a first page or when the snapshot of a later one is gone ...
LoadLatest(w) ==
  /\ pc[w] = "idle" /\ latest # None
  /\ work' = [work EXCEPT ![w].snapshot = latest]
  /\ Goto(w, "keep")
  /\ UNCHANGED <<database, locks, latest, cache, call, history>>

\* ... and then the cache of the process.
Keep(w) ==
  /\ pc[w] = "keep"
  /\ cache' = [cache EXCEPT ![Home[w]] = work[w].snapshot]
  /\ Finish(w)
  /\ UNCHANGED <<database, locks, latest, call, history>>

\* Mutant: a reader that does not get the lock builds a snapshot all the same.
RebuildUnlocked(w) ==
  /\ pc[w] = "idle" /\ latest = None
  /\ Goto(w, "version")
  /\ UNCHANGED <<database, locks, latest, cache, call, work, history>>

\* rebuild_and_publish, when Redis has no snapshot or does not answer.
StartRebuild(w) ==
  /\ pc[w] = "idle"
  /\ \/ latest = None /\ UNCHANGED faults
     \/ faults < MaxFaults /\ faults' = faults + 1
  /\ \/ Locks(w) /\ Goto(w, "version")
     \/ (lock # None \/ leaked # None) /\ Goto(w, "polling") /\ UNCHANGED lock
  /\ UNCHANGED <<database, leaked, latest, cache, call, work, made, lost>>

\* Another worker has the lock: the latest snapshot appears ...
PollLatest(w) ==
  /\ pc[w] = "polling" /\ latest # None
  /\ work' = [work EXCEPT ![w].snapshot = latest]
  /\ Goto(w, "keep")
  /\ UNCHANGED <<database, locks, latest, cache, call, history>>

\* ... or the cache has to do.
GiveUp(w) ==
  /\ pc[w] = "polling"
  /\ Finish(w)
  /\ UNCHANGED <<database, locks, latest, cache, call, history>>

-----------------------------------------------------------------------------
(* What goes wrong.                                                        *)

Fault == faults < MaxFaults /\ faults' = faults + 1

\* The mark that next_version cleared for w is in no published snapshot.
Forgets(w) == work[w].was = "yes" /\ pc[w] \in {"flag", "rows", "locked_at", "store", "latest"}

\* Mutant: the error leaves before advisory_unlock.
FailLocked(w) ==
  /\ Fault
  /\ pc[w] \in {"max", "version", "flag", "rows", "locked_at"}
       \cup (IF w \in Scheduler THEN {"store", "latest", "delete", "clear"} ELSE {})
  /\ Finish(w)
  /\ lost' = IF Forgets(w) THEN lost \cup {"mark"} ELSE lost
  /\ UNCHANGED <<database, locks, latest, cache, call, made>>

\* A statement fails: nothing but the unlock follows.
FailStatement(w) ==
  /\ Fault
  /\ pc[w] \in {"max", "version", "flag", "rows", "locked_at"}
       \cup (IF w \in Scheduler THEN {"store", "latest", "delete", "clear"} ELSE {})
  /\ Goto(w, "unlock")
  /\ work' = [work EXCEPT ![w] = Idle]
  /\ lost' = IF Forgets(w) THEN lost \cup {"mark"} ELSE lost
  /\ UNCHANGED <<database, locks, latest, cache, call, made>>

\* A reader's snapshot that cannot be published is only cached.
PublishFails(w) ==
  /\ Fault
  /\ pc[w] \in {"store", "latest"} /\ w \in Reader
  /\ Goto(w, "cache")
  /\ work' = [work EXCEPT ![w].was = "no"]
  /\ lost' = IF Forgets(w) THEN lost \cup {"mark"} ELSE lost
  /\ UNCHANGED <<database, locks, latest, cache, call, made>>

\* The client goes away and the future of its request is dropped: the connection
\* returns to the pool, its session still holds the lock.
Cancel(w) ==
  /\ Fault
  /\ lock = w /\ w \in Reader
  /\ lock' = None /\ leaked' = Home[w]
  /\ Finish(w)
  /\ lost' = IF Forgets(w) THEN lost \cup {"mark"} ELSE lost
  /\ UNCHANGED <<database, latest, cache, call, made>>

\* The pool closes a connection that is idle or old.
Recycle ==
  /\ leaked # None /\ lock = None
  /\ leaked' = None
  /\ UNCHANGED <<database, lock, latest, cache, call, pc, work, history>>

\* A process dies, its sessions end.
Crash(p) ==
  LET dead == {w \in Worker : Home[w] = p} IN
  /\ Fault
  /\ pc' = [w \in Worker |-> IF w \in dead THEN "idle" ELSE pc[w]]
  /\ work' = [w \in Worker |-> IF w \in dead THEN Idle ELSE work[w]]
  /\ lock' = IF lock \in dead THEN None ELSE lock
  /\ leaked' = IF leaked = p THEN None ELSE leaked
  /\ cache' = [cache EXCEPT ![p] = None]
  /\ lost' = IF \E w \in dead : Forgets(w) THEN lost \cup {"mark"} ELSE lost
  /\ UNCHANGED <<database, latest, call, made>>

\* A handler fails or dies between its commit and its mark.
HandlerFails(c) ==
  /\ Fault
  /\ call[c].pc \in {"owed", "marking"}
  /\ Advance(c, Done)
  /\ lost' = lost \cup {"handler"}
  /\ UNCHANGED <<database, locks, latest, cache, pc, work, made>>

\* Redis loses its data.
Flush ==
  /\ Fault
  /\ latest' = None
  /\ UNCHANGED <<database, locks, cache, call, pc, work, made, lost>>

-----------------------------------------------------------------------------
\* The next statement of a handler that has committed.
Mark(c) == TakeRevision(c) \/ MarkTeam(c) \/ MarkGame(c)

\* The next statement of a worker.
Step(w) ==
  \/ ReadMax(w) \/ NextVersion(w) \/ ReadFlag(w) \/ ReadRows(w) \/ ReadLockedAt(w)
  \/ StoreSnapshot(w) \/ SetLatest(w) \/ CacheSnapshot(w)
  \/ DeleteMarks(w) \/ ClearFull(w) \/ Unlock(w)
  \/ Keep(w) \/ PollLatest(w) \/ GiveUp(w)

WorkerFault(w) == FailStatement(w) \/ PublishFails(w) \/ Cancel(w)

Next ==
  \/ \E c \in Change :
       \/ ChangeTeam(c) \/ Freeze(c) \/ Thaw(c) \/ RemoveTeam(c)
       \/ Mark(c) \/ HandlerFails(c)
  \/ \E w \in Scheduler : StartRefresh(w)
  \/ \E w \in Reader : LoadLatest(w) \/ StartRebuild(w)
  \/ \E w \in Worker : Step(w) \/ WorkerFault(w)
  \/ \E p \in Process : Crash(p)
  \/ Recycle \/ Flush

Spec == Init /\ [][Next]_vars

\* Statements are executed, the scheduler of a process wakes up again and again
\* (run_scheduler), and the pool closes connections after a while.
Fairness ==
  /\ \A c \in Change : WF_vars(Mark(c))
  /\ \A w \in Worker : WF_vars(Step(w))
  /\ \A w \in Scheduler : WF_vars(leaked = None /\ StartRefresh(w))
  /\ WF_vars(Recycle)

FairSpec == Spec /\ Fairness

-----------------------------------------------------------------------------
(* Properties.                                                             *)

\* Phases in which a worker holds the advisory lock.
Holding == {"max", "version", "flag", "rows", "locked_at", "store", "latest", "cache",
            "delete", "clear", "unlock"}

Call  == [pc: {"new", "owed", "marking", "done"}, kind: {"team", "game", None},
          team: Team \cup {None}, revision: Nat]
Local == [max: Nat, version: Nat, flag: State, rows: Rows \cup {None},
          was: {"none", "no", "yes"}, snapshot: made \cup {None}]

Held ==
  \A w \in Worker :
     /\ pc[w] \in Holding <=> lock = w
     /\ pc[w] = "locked_at" => work[w].rows # None
     /\ pc[w] \in {"store", "latest", "cache", "keep"} => work[w].snapshot # None

\* The variables have their types; exactly the worker that holds the lock is in a
\* phase that needs it, and it has a snapshot when it comes to publish
\* (refresh_game, rebuild_and_publish).
TypeOK ==
  /\ live \in Rows /\ frozen \in Rows \cup {None}
  /\ sequence \in Nat /\ dirty \in [Team -> Nat] /\ full \in {"none", "no", "yes"}
  /\ version \in Nat
  /\ lock \in Worker \cup {None} /\ leaked \in Process \cup {None}
  /\ made \subseteq Snapshot /\ latest \in made \cup {None}
  /\ cache \in [Process -> made \cup {None}]
  /\ call \in [Change -> Call]
  /\ pc \in [Worker -> Phase]
  /\ work \in [Worker -> Local]
  /\ lost \subseteq {"mark", "handler"} /\ faults \in 0 .. MaxFaults
  /\ Held

\* A version names one snapshot: the pages that a client asks for by version belong
\* together, and "not modified" is true, although versions are taken, snapshots
\* built and published in separate statements (next_version, get_info).
PagesAgree ==
  \A s, u \in made : s.version = u.version => s = u

\* What the board should show.
Board == IF frozen # None THEN frozen ELSE live

\* A handler has changed the game or the team and will mark it.
Owes(c, t) ==
  /\ call[c].pc \in {"owed", "marking"}
  /\ call[c].kind = "team" => call[c].team = t

\* A worker will publish what is right for the team.
Publishing(w, t) ==
  \/ pc[w] \in {"flag", "rows"}
  \/ pc[w] = "locked_at" /\ work[w].rows[t] = Board[t]
  \/ pc[w] \in {"store", "latest"} /\ work[w].snapshot.rows[t] = Board[t]

\* The published board shows the last change of every team, or a mark says that it
\* does not, or somebody is at work on it: unless a handler did not come to mark
\* its change, or the mark of the game got lost.  That happens in two ways only:
\* the mark is made while a refresh has begun to read, or the snapshot before
\* which next_version cleared it is not published (refresh_game,
\* rebuild_and_publish, mark_team_dirty, mark_game_dirty).
BoardCurrent ==
  latest # None /\ lost = {} =>
     \A t \in Team :
        \/ latest.rows[t] = Board[t]
        \/ dirty[t] # 0 \/ full = "yes"
        \/ \E c \in Change : Owes(c, t)
        \/ \E w \in Worker : Publishing(w, t)

\* The published board never goes back to an older version, whichever workers
\* build and publish at the same time (publish_snapshot compares nothing, the
\* advisory lock has to do).
NeverOlder ==
  [][latest # None /\ latest' # None => latest'.version >= latest.version]_vars

\* In the end every change is on the board, or Redis has no board and the next
\* reader builds one (process_dirty_leaderboards).
Converges ==
  <>[](lost # {} \/ latest = None \/ latest.rows = Board)
=============================================================================
