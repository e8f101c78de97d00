-------------------------- MODULE LeaderboardProofs --------------------------
(***************************************************************************)
(* The leaderboard's type invariant, the uniqueness of versions, the order *)
(* of publication and the accounting of the marks, for any number of       *)
(* teams, calls, schedulers, readers, processes and faults.                *)
(*                                                                         *)
(* The argument of the first part: a version is taken under the advisory   *)
(* lock, so that while a worker builds and publishes, the version it took  *)
(* is still the last one, and every snapshot that was built before it has  *)
(* a smaller version.  The second part has its own, below.                 *)
(***************************************************************************)
EXTENDS Leaderboard, TLAPS

\* The phases between next_version and the end of the build, and from there to the
\* end of the publication.
Building   == {"flag", "rows", "locked_at"}
Publication == {"store", "latest", "cache"}

\* Snapshots are numbered by next_version ...
VersionsTaken == \A s \in made : s.version <= version

\* ... and while a worker builds one, its version is the last and is not used yet.
VersionFresh ==
  \A w \in Worker : pc[w] \in Building =>
     work[w].version = version /\ \A s \in made : s.version < version

\* What a worker publishes has the last version.
PublishesLast ==
  \A w \in Worker : pc[w] \in Publication => work[w].snapshot.version = version

VersionInv == VersionsTaken /\ VersionFresh /\ PublishesLast /\ PagesAgree

-----------------------------------------------------------------------------
LEMMA InitTypeOK == ASSUME Init PROVE TypeOK
<1>1. live \in Rows
  BY DEF Init, Rows, Value
<1>2. /\ frozen = None /\ sequence \in Nat /\ dirty \in [Team -> Nat]
      /\ full \in {"none", "no", "yes"} /\ version \in Nat
      /\ lock \in Worker \cup {None} /\ leaked \in Process \cup {None}
      /\ made \subseteq Snapshot /\ latest \in made \cup {None}
      /\ cache \in [Process -> made \cup {None}]
  BY DEF Init
<1>3. call \in [Change -> Call]
  BY DEF Init, New, Call
<1>4. /\ pc \in [Worker -> Phase]
      /\ work \in [Worker -> Local]
  BY DEF Init, Idle, Phase, State, Local
<1>5. lost \subseteq {"mark", "handler"} /\ faults \in 0 .. MaxFaults
  BY ConstantAssumption DEF Init
<1>6. Held
  BY ConstantAssumption DEF Init, Held, Holding
<1> QED BY <1>1, <1>2, <1>3, <1>4, <1>5, <1>6 DEF TypeOK

\* The worker that Home knows is a scheduler or a reader of that process.
LEMMA HomeType == \A w \in Worker : Home[w] \in Process
  BY ConstantAssumption

\* The handlers' statements keep the types (invalidate_team_info, set_state_conn,
\* mark_team_dirty, mark_game_dirty).
LEMMA CallTypeOK ==
  ASSUME TypeOK, NEW c \in Change,
         \/ ChangeTeam(c) \/ Freeze(c) \/ Thaw(c) \/ RemoveTeam(c) \/ Mark(c)
         \/ HandlerFails(c)
  PROVE  TypeOK'
<1>1. CASE ChangeTeam(c)
  <2>1. PICK t \in Team : live[t] # Gone /\ live' = [live EXCEPT ![t] = @ + 1]
                          /\ Committed(c, "team", t)
    BY <1>1 DEF ChangeTeam
  <2>2. live' \in Rows
    BY <2>1 DEF TypeOK, Held, Rows, Value
  <2> QED BY <1>1, <2>1, <2>2 DEF ChangeTeam, Committed, New, Call, Local, TypeOK, Held, locks, history
<1>2. CASE Freeze(c)
  BY <1>2 DEF Freeze, Committed, New, Call, Local, TypeOK, Held, locks, history
<1>3. CASE Thaw(c)
  BY <1>3 DEF Thaw, Committed, New, Call, Local, TypeOK, Held, locks, history
<1>4. CASE RemoveTeam(c)
  <2>1. PICK t \in Team :
          /\ live' = [live EXCEPT ![t] = Gone]
          /\ frozen' = IF frozen = None THEN None ELSE [frozen EXCEPT ![t] = Gone]
          /\ dirty' = [dirty EXCEPT ![t] = 0]
    BY <1>4 DEF RemoveTeam
  <2>2. live' \in Rows /\ frozen' \in Rows \cup {None}
    BY <2>1 DEF TypeOK, Held, Rows, Value
  <2>3. dirty' \in [Team -> Nat]
    BY <2>1 DEF TypeOK
  <2> QED BY <1>4, <2>2, <2>3 DEF RemoveTeam, Committed, New, Call, Local, TypeOK, Held, locks, history
<1>5. CASE TakeRevision(c)
  <2> DEFINE marking == [call EXCEPT ![c].pc = "marking"]
  <2>1. marking \in [Change -> Call]
    BY DEF TypeOK, Call
  <2>2. call' = [marking EXCEPT ![c].revision = sequence + 1]
    BY <1>5 DEF TakeRevision, TypeOK, Call
  <2>3. sequence + 1 \in Nat
    BY DEF TypeOK
  <2> HIDE DEF marking
  <2>4. call' \in [Change -> Call]
    BY <2>1, <2>2, <2>3 DEF Call
  <2> QED BY <1>5, <2>3, <2>4 DEF TakeRevision, TypeOK, Held, Local, locks, history
<1>6. CASE MarkTeam(c)
  BY <1>6 DEF MarkTeam, Advance, New, Done, Call, Local, TypeOK, Held, locks, history
<1>7. CASE MarkGame(c)
  BY <1>7 DEF MarkGame, Advance, New, Done, Call, Local, TypeOK, Held, locks
<1>8. CASE HandlerFails(c)
  BY <1>8, ConstantAssumption DEF HandlerFails, Fault, Advance, New, Done, Call, Local, TypeOK, Held, database, locks
<1> QED BY <1>1, <1>2, <1>3, <1>4, <1>5, <1>6, <1>7, <1>8 DEF Mark

\* The statements of a refresh or a rebuild keep the types.
LEMMA StepTypeOK ==
  ASSUME TypeOK, NEW w \in Worker, Step(w)
  PROVE  TypeOK'
<1>1. CASE ReadMax(w)
  <2>1. PICK m \in {0} \cup {dirty[t] : t \in Team} : work' = [work EXCEPT ![w].max = m]
    BY <1>1 DEF ReadMax
  <2>2. m \in Nat
    BY DEF TypeOK
  <2> QED BY <1>1, <2>1, <2>2 DEF ReadMax, Goto, Phase, Holding, Local, TypeOK, Held, database, locks,
                                  history
<1>2. CASE NextVersion(w)
  <2> DEFINE taken == [work EXCEPT ![w].version = version + 1]
  <2>4. taken \in [Worker -> Local]
    BY DEF TypeOK, Local
  <2>5. work' = [taken EXCEPT ![w].was = full]
    BY <1>2 DEF NextVersion, TypeOK, Local
  <2> HIDE DEF taken
  <2>6. \A x \in Local : [x EXCEPT !.was = full] \in Local
    BY DEF TypeOK, Local
  <2>7. work' \in [Worker -> Local]
    BY <2>4, <2>5, <2>6
  <2>1. work' \in [Worker -> Local']
    BY <1>2, <2>7 DEF NextVersion, Local, history
  <2>2. pc' \in [Worker -> Phase]
    BY <1>2 DEF NextVersion, Finish, Goto, Phase, TypeOK
  <2>3. Held'
    BY <1>2 DEF NextVersion, Goto, Phase, Holding, Held, TypeOK, Local, locks
  <2> QED BY <1>2, <2>1, <2>2, <2>3 DEF NextVersion, TypeOK, locks, history
<1>3. CASE ReadFlag(w)
  <2>1. work' \in [Worker -> Local']
    BY <1>3 DEF ReadFlag, LockState, State, Local, TypeOK, history
  <2>2. pc' \in [Worker -> Phase]
    BY <1>3 DEF ReadFlag, Finish, Goto, Phase, TypeOK
  <2>3. Held'
    BY <1>3 DEF ReadFlag, LockState, State, Goto, Phase, Holding, Held, TypeOK, Local, locks
  <2> QED BY <1>3, <2>1, <2>2, <2>3 DEF ReadFlag, TypeOK, database, locks, history
<1>4. CASE ReadRows(w)
  <2> DEFINE r == CASE work[w].flag = "live" -> live
                    [] work[w].flag = "locked" /\ frozen # None -> frozen
                    [] OTHER -> [t \in Team |-> Gone]
  <2>1. r \in Rows /\ r # None
    BY ConstantAssumption DEF TypeOK, Rows, Value
  <2>2. work' = [work EXCEPT ![w].flag = "live", ![w].rows = r]
    BY <1>4 DEF ReadRows
  <2> HIDE DEF r
  <2> DEFINE live0 == [work EXCEPT ![w].flag = "live"]
  <2>6. live0 \in [Worker -> Local]
    BY DEF TypeOK, Local, State
  <2>7. work' = [live0 EXCEPT ![w].rows = r]
    BY <2>2 DEF TypeOK, Local
  <2> HIDE DEF live0
  <2>8. \A x \in Local : [x EXCEPT !.rows = r] \in Local
    BY <2>1 DEF Local
  <2>9. work' \in [Worker -> Local]
    BY <2>6, <2>7, <2>8
  <2>3. work' \in [Worker -> Local']
    BY <1>4, <2>9 DEF ReadRows, Local, history
  <2>4. pc' \in [Worker -> Phase]
    BY <1>4 DEF ReadRows, Goto, Phase, TypeOK
  <2>5. Held'
    BY <1>4, <2>1, <2>2 DEF ReadRows, Goto, Phase, Holding, Held, TypeOK, Local, locks
  <2> QED BY <1>4, <2>3, <2>4, <2>5 DEF ReadRows, TypeOK, database, locks, history
<1>5. CASE ReadLockedAt(w)
  <2> DEFINE s == [version |-> work[w].version, rows |-> work[w].rows, state |-> LockState]
  <2>1. s \in Snapshot /\ s # None
    BY <1>5, ConstantAssumption
       DEF ReadLockedAt, TypeOK, Local, Held, Snapshot, LockState, State
  <2>2. /\ work' = [work EXCEPT ![w].rows = None, ![w].version = 0, ![w].snapshot = s]
        /\ made' = made \cup {s}
    BY <1>5 DEF ReadLockedAt, TypeOK, Local
  <2> HIDE DEF s
  <2> DEFINE built == [work EXCEPT ![w].rows = None]
             numbered == [built EXCEPT ![w].version = 0]
  <2>6. built \in [Worker -> Local]
    BY DEF TypeOK, Local
  <2>7. work' = [numbered EXCEPT ![w].snapshot = s]
    BY <2>2 DEF TypeOK, Local
  <2> HIDE DEF built
  <2>8. numbered \in [Worker -> Local]
    BY <2>6 DEF Local
  <2> HIDE DEF numbered
  <2>9. \A v \in Worker : work'[v] = IF v = w THEN [numbered[w] EXCEPT !.snapshot = s]
                                    ELSE numbered[v]
    BY <2>7, <2>8
  <2>10. \A x \in Local : x \in Local' /\ [x EXCEPT !.snapshot = s] \in Local'
    BY <2>2 DEF Local
  <2>3. work' \in [Worker -> Local']
    BY <2>7, <2>8, <2>9, <2>10
  <2>4. pc' \in [Worker -> Phase]
    BY <1>5 DEF ReadLockedAt, Goto, Phase, TypeOK
  <2>5. Held'
    BY <1>5, <2>1, <2>2 DEF ReadLockedAt, Goto, Phase, Holding, Held, TypeOK, Local, locks
  <2> QED BY <1>5, <2>1, <2>2, <2>3, <2>4, <2>5 DEF ReadLockedAt, TypeOK, database, locks
<1>6. CASE StoreSnapshot(w)
  BY <1>6 DEF StoreSnapshot, Goto, Phase, Holding, Local, TypeOK, Held, database, locks, history
<1>7. CASE SetLatest(w)
  <2>1. work' \in [Worker -> Local']
    BY <1>7 DEF SetLatest, Local, TypeOK, history
  <2>2. pc' \in [Worker -> Phase]
    BY <1>7 DEF SetLatest, Finish, Goto, Phase, TypeOK
  <2>3. Held'
    BY <1>7 DEF SetLatest, Goto, Phase, Holding, Held, TypeOK, Local, locks
  <2>4. work[w].snapshot \in made
    BY <1>7 DEF SetLatest, TypeOK, Local, Held
  <2> QED BY <1>7, <2>1, <2>2, <2>3, <2>4 DEF SetLatest, TypeOK, database, locks, history
<1>8. CASE CacheSnapshot(w)
  <2>5. work' = [work EXCEPT ![w].snapshot = None] /\ made' = made
    BY <1>8 DEF CacheSnapshot, history
  <2>6. \A x \in Local : x \in Local' /\ [x EXCEPT !.snapshot = None] \in Local'
    BY <2>5 DEF Local
  <2>1. work' \in [Worker -> Local']
    BY <2>5, <2>6 DEF TypeOK
  <2>2. pc' \in [Worker -> Phase]
    BY <1>8 DEF CacheSnapshot, Finish, Goto, Phase, TypeOK
  <2>3. Held'
    BY <1>8 DEF CacheSnapshot, Goto, Phase, Holding, Held, TypeOK, Local, locks
  <2>4. work[w].snapshot \in made
    BY <1>8 DEF CacheSnapshot, TypeOK, Local, Held
  <2> QED BY <1>8, HomeType, <2>1, <2>2, <2>3, <2>4 DEF CacheSnapshot, TypeOK, database, locks, history
<1>9. CASE DeleteMarks(w)
  <2>1. work' \in [Worker -> Local']
    BY <1>9 DEF DeleteMarks, Local, TypeOK, history
  <2>2. pc' \in [Worker -> Phase]
    BY <1>9 DEF DeleteMarks, Finish, Goto, Phase, TypeOK
  <2>3. Held'
    BY <1>9 DEF DeleteMarks, Goto, Phase, Holding, Held, TypeOK, Local, locks
  <2> QED BY <1>9, <2>1, <2>2, <2>3 DEF DeleteMarks, TypeOK, locks, history
<1>10. CASE ClearFull(w)
  BY <1>10 DEF ClearFull, Goto, Phase, Holding, Local, TypeOK, Held, locks, history
<1>11. CASE Unlock(w)
  <2>1. work' \in [Worker -> Local']
    BY <1>11 DEF Unlock, Finish, Idle, State, Local, TypeOK, history
  <2>2. pc' \in [Worker -> Phase]
    BY <1>11 DEF Unlock, Finish, Goto, Phase, TypeOK
  <2>3. Held'
    BY <1>11, ConstantAssumption
       DEF Unlock, Finish, Idle, Goto, Phase, Holding, Held, TypeOK, Local
  <2> QED BY <1>11, <2>1, <2>2, <2>3 DEF Unlock, TypeOK, database, history
<1>12. CASE Keep(w)
  <2>1. work' \in [Worker -> Local']
    BY <1>12 DEF Keep, Finish, Idle, State, Local, TypeOK, history
  <2>2. pc' \in [Worker -> Phase]
    BY <1>12 DEF Keep, Finish, Goto, Phase, TypeOK
  <2>3. Held'
    BY <1>12 DEF Keep, Finish, Idle, State, Goto, Phase, Holding, Held, TypeOK, Local, locks
  <2>4. work[w].snapshot \in made
    BY <1>12 DEF Keep, TypeOK, Local, Held
  <2> QED BY <1>12, HomeType, <2>1, <2>2, <2>3, <2>4 DEF Keep, TypeOK, database, locks, history
<1>13. CASE PollLatest(w)
  BY <1>13 DEF PollLatest, Goto, Phase, Holding, Local, TypeOK, Held, database, locks, history
<1>14. CASE GiveUp(w)
  <2>1. work' \in [Worker -> Local']
    BY <1>14 DEF GiveUp, Finish, Idle, State, Local, TypeOK, history
  <2>2. pc' \in [Worker -> Phase]
    BY <1>14 DEF GiveUp, Finish, Goto, Phase, TypeOK
  <2>3. Held'
    BY <1>14 DEF GiveUp, Finish, Idle, State, Goto, Phase, Holding, Held, TypeOK, Local, locks
  <2> QED BY <1>14, <2>1, <2>2, <2>3 DEF GiveUp, TypeOK, database, locks, history
<1> QED BY <1>1, <1>2, <1>3, <1>4, <1>5, <1>6, <1>7, <1>8, <1>9, <1>10, <1>11, <1>12,
           <1>13, <1>14 DEF Step
\* Beginning a refresh, a read or a rebuild keeps the types.
LEMMA StartTypeOK ==
  ASSUME TypeOK, NEW w \in Worker,
         \/ StartRefresh(w) \/ LoadLatest(w) \/ StartRebuild(w)
  PROVE  TypeOK'
<1>1. CASE StartRefresh(w)
  BY <1>1, ConstantAssumption DEF StartRefresh, Locks, Goto, Phase, Holding, Held, TypeOK, Local, database,
              history
<1>2. CASE LoadLatest(w)
  <2>1. work' \in [Worker -> Local']
    BY <1>2 DEF LoadLatest, Local, TypeOK, history
  <2>2. pc' \in [Worker -> Phase]
    BY <1>2 DEF LoadLatest, Goto, Phase, TypeOK
  <2>3. Held'
    BY <1>2 DEF LoadLatest, Goto, Phase, Holding, Held, TypeOK, Local, locks
  <2> QED BY <1>2, <2>1, <2>2, <2>3 DEF LoadLatest, TypeOK, database, locks, history
<1>3. CASE StartRebuild(w)
  <2>1. faults' \in 0 .. MaxFaults
    BY <1>3, ConstantAssumption DEF StartRebuild, TypeOK
  <2>2. lock' \in Worker \cup {None} /\ Held'
    BY <1>3, ConstantAssumption DEF StartRebuild, Locks, Goto, Phase, Holding, Held, TypeOK
  <2>3. pc' \in [Worker -> Phase]
    BY <1>3 DEF StartRebuild, Goto, Phase, TypeOK
  <2> QED BY <1>3, <2>1, <2>2, <2>3 DEF StartRebuild, TypeOK, Local, database
<1> QED BY <1>1, <1>2, <1>3

\* A fault keeps the types, and nobody holds a lock it does not need afterwards.
LEMMA FaultTypeOK ==
  ASSUME TypeOK, \/ \E w \in Worker : WorkerFault(w)
                 \/ \E p \in Process : Crash(p)
                 \/ Recycle \/ Flush
  PROVE  TypeOK'
<1>1. ASSUME NEW w \in Worker, FailStatement(w) PROVE TypeOK'
  <2>1. faults' \in 0 .. MaxFaults /\ lost' \subseteq {"mark", "handler"}
    BY <1>1, ConstantAssumption DEF FailStatement, Fault, TypeOK
  <2>2. work' \in [Worker -> Local'] /\ pc' \in [Worker -> Phase]
    BY <1>1 DEF FailStatement, Goto, Idle, State, Phase, Local, TypeOK
  <2>3. Held'
    BY <1>1 DEF FailStatement, Goto, Idle, Phase, Holding, Held, TypeOK, Local, locks
  <2> QED BY <1>1, <2>1, <2>2, <2>3 DEF FailStatement, TypeOK, database, locks
<1>2. ASSUME NEW w \in Worker, PublishFails(w) PROVE TypeOK'
  <2>1. faults' \in 0 .. MaxFaults /\ lost' \subseteq {"mark", "handler"}
    BY <1>2, ConstantAssumption DEF PublishFails, Fault, TypeOK
  <2>2. work' \in [Worker -> Local'] /\ pc' \in [Worker -> Phase]
    BY <1>2 DEF PublishFails, Goto, Phase, Local, TypeOK
  <2>3. Held'
    BY <1>2 DEF PublishFails, Goto, Phase, Holding, Held, TypeOK, Local, locks
  <2> QED BY <1>2, <2>1, <2>2, <2>3 DEF PublishFails, TypeOK, database, locks
<1>3. ASSUME NEW w \in Worker, Cancel(w) PROVE TypeOK'
  <2>1. faults' \in 0 .. MaxFaults /\ lost' \subseteq {"mark", "handler"}
    BY <1>3, ConstantAssumption DEF Cancel, Fault, TypeOK
  <2>2. work' \in [Worker -> Local'] /\ pc' \in [Worker -> Phase]
    BY <1>3 DEF Cancel, Finish, Goto, Idle, State, Phase, Local, TypeOK
  <2>3. Held'
    BY <1>3, ConstantAssumption
       DEF Cancel, Finish, Goto, Idle, Phase, Holding, Held, TypeOK, Local
  <2> QED BY <1>3, <2>1, <2>2, <2>3, HomeType DEF Cancel, TypeOK, database
<1>4. ASSUME NEW p \in Process, Crash(p) PROVE TypeOK'
  <2> DEFINE dead == {w \in Worker : Home[w] = p}
  <2>1. faults' \in 0 .. MaxFaults /\ lost' \subseteq {"mark", "handler"}
    BY <1>4, ConstantAssumption DEF Crash, Fault, TypeOK
  <2>2. /\ pc' = [w \in Worker |-> IF w \in dead THEN "idle" ELSE pc[w]]
        /\ work' = [w \in Worker |-> IF w \in dead THEN Idle ELSE work[w]]
        /\ lock' = IF lock \in dead THEN None ELSE lock
    BY <1>4 DEF Crash
  <2> HIDE DEF dead
  <2>3. pc' \in [Worker -> Phase]
    BY <2>2 DEF Phase, TypeOK
  <2>4. Idle \in Local
    BY DEF Idle, Local, State
  <2>5. work' \in [Worker -> Local']
    BY <1>4, <2>2, <2>4 DEF Crash, Local, TypeOK
  <2>6. Held'
    BY <2>2, ConstantAssumption DEF Idle, Phase, Holding, Held, TypeOK
  <2>7. cache' \in [Process -> made' \cup {None}]
    BY <1>4 DEF Crash, TypeOK
  <2> QED BY <1>4, <2>1, <2>2, <2>3, <2>5, <2>6, <2>7 DEF Crash, TypeOK, database
<1>5. CASE Recycle
  BY <1>5 DEF Recycle, TypeOK, Local, Held, database, history
<1>6. CASE Flush
  <2>1. faults' \in 0 .. MaxFaults
    BY <1>6, ConstantAssumption DEF Flush, Fault, TypeOK
  <2> QED BY <1>6, <2>1 DEF Flush, TypeOK, Local, Held, database, locks
<1> QED BY <1>1, <1>2, <1>3, <1>4, <1>5, <1>6 DEF WorkerFault

LEMMA TypeStep == TypeOK /\ [Next]_vars => TypeOK'
<1> SUFFICES ASSUME TypeOK, [Next]_vars PROVE TypeOK'
  OBVIOUS
<1>1. ASSUME NEW c \in Change,
             \/ ChangeTeam(c) \/ Freeze(c) \/ Thaw(c) \/ RemoveTeam(c) \/ Mark(c)
             \/ HandlerFails(c)
      PROVE  TypeOK'
  BY <1>1, CallTypeOK
<1>2. ASSUME NEW w \in Worker,
             StartRefresh(w) \/ LoadLatest(w) \/ StartRebuild(w)
      PROVE  TypeOK'
  BY <1>2, StartTypeOK
<1>3. ASSUME NEW w \in Worker, Step(w) PROVE TypeOK'
  BY <1>3, StepTypeOK
<1>4. CASE (\E w \in Worker : WorkerFault(w)) \/ (\E p \in Process : Crash(p))
           \/ Recycle \/ Flush
  BY <1>4, FaultTypeOK
<1>5. CASE UNCHANGED vars
  BY <1>5 DEF vars, database, locks, history, TypeOK, Local, Held
<1> QED BY <1>1, <1>2, <1>3, <1>4, <1>5 DEF Next, Worker

\* The types, the holder of the lock, and the snapshot in hand: for every value of
\* the constants (refresh_game, rebuild_and_publish).
THEOREM TypeCorrect == Spec => []TypeOK
<1>1. Init => TypeOK
  BY InitTypeOK
<1>2. TypeOK /\ [Next]_vars => TypeOK'
  BY TypeStep
<1> QED BY <1>1, <1>2, PTL DEF Spec
-----------------------------------------------------------------------------
\* A step that takes no version and builds no snapshot, and lets nobody into the
\* building or the publication that was not in it.
Uninvolved ==
  /\ version' = version /\ made' = made
  /\ \A v \in Worker :
       /\ pc'[v] \in Building => pc[v] \in Building /\ work'[v].version = work[v].version
       /\ pc'[v] \in Publication =>
            pc[v] \in Publication /\ work'[v].snapshot = work[v].snapshot

LEMMA UninvolvedKeeps ==
  ASSUME VersionInv, Uninvolved
  PROVE  VersionInv'
  BY DEF VersionInv, Uninvolved, VersionsTaken, VersionFresh, PublishesLast, PagesAgree

\* The steps outside the building and the publication (handlers, starts, faults).
LEMMA OthersUninvolved ==
  ASSUME TypeOK,
         \/ \E c \in Change : \/ ChangeTeam(c) \/ Freeze(c) \/ Thaw(c) \/ RemoveTeam(c)
                             \/ Mark(c) \/ HandlerFails(c)
         \/ \E w \in Worker : \/ StartRefresh(w) \/ LoadLatest(w) \/ StartRebuild(w)
                             \/ WorkerFault(w)
         \/ \E p \in Process : Crash(p)
         \/ Recycle \/ Flush
  PROVE  Uninvolved \/ \E w \in Worker : PublishFails(w)
<1>1. ASSUME NEW c \in Change, \/ ChangeTeam(c) \/ Freeze(c) \/ Thaw(c) \/ RemoveTeam(c)
                              \/ Mark(c) \/ HandlerFails(c)
      PROVE  Uninvolved
  BY <1>1 DEF ChangeTeam, Freeze, Thaw, RemoveTeam, Mark, TakeRevision, MarkTeam, MarkGame,
              HandlerFails, database, history, Uninvolved
<1>2. ASSUME NEW w \in Worker, StartRefresh(w) PROVE Uninvolved
  BY <1>2 DEF StartRefresh, Goto, TypeOK, database, history, Uninvolved, Building,
              Publication
<1>3. ASSUME NEW w \in Worker, LoadLatest(w) PROVE Uninvolved
  BY <1>3 DEF LoadLatest, Goto, TypeOK, Local, database, history, Uninvolved, Building,
              Publication
<1>4. ASSUME NEW w \in Worker, StartRebuild(w) PROVE Uninvolved
  BY <1>4 DEF StartRebuild, Goto, TypeOK, database, history, Uninvolved, Building,
              Publication
<1>5. ASSUME NEW w \in Worker, FailStatement(w) PROVE Uninvolved
  BY <1>5 DEF FailStatement, Goto, TypeOK, database, Uninvolved, Building, Publication
<1>6. ASSUME NEW w \in Worker, Cancel(w) PROVE Uninvolved
  BY <1>6 DEF Cancel, Finish, Goto, TypeOK, database, Uninvolved, Building, Publication
<1>7. ASSUME NEW p \in Process, Crash(p) PROVE Uninvolved
  BY <1>7 DEF Crash, TypeOK, database, Uninvolved, Building, Publication
<1>8. CASE Recycle \/ Flush
  BY <1>8 DEF Recycle, Flush, database, history, Uninvolved
<1> QED BY <1>1, <1>2, <1>3, <1>4, <1>5, <1>6, <1>7, <1>8 DEF WorkerFault

\* Only the holder of the lock builds and publishes.
LEMMA OnlyHolder ==
  ASSUME TypeOK, NEW v \in Worker, NEW w \in Worker,
         pc[v] \in Building \cup Publication, pc[w] \in Holding
  PROVE  v = w
  BY DEF TypeOK, Held, Holding, Building, Publication

\* The statements of a refresh or a rebuild keep the versions in order.
LEMMA StepVersionInv ==
  ASSUME TypeOK, VersionInv, NEW w \in Worker, Step(w) \/ PublishFails(w)
  PROVE  VersionInv'
<1> USE DEF Building, Publication
<1>1. CASE NextVersion(w)
  <2>1. pc[w] \in Holding
    BY <1>1 DEF NextVersion, Holding
  <2>2. /\ version' = version + 1 /\ made' = made
        /\ work'[w].version = version + 1
        /\ \A v \in Worker \ {w} : pc'[v] = pc[v]
        /\ pc'[w] = "flag"
    BY <1>1 DEF NextVersion, Goto, TypeOK, Local, history
  <2>3. \A v \in Worker \ {w} : pc'[v] \notin Building \cup Publication
    BY <2>1, <2>2, OnlyHolder
  <2>4. version \in Nat /\ \A s \in made : s.version \in Nat
    BY DEF TypeOK, Snapshot
  <2> QED BY <2>2, <2>3, <2>4 DEF VersionInv, VersionsTaken, VersionFresh, PublishesLast,
                                  PagesAgree
<1>2. CASE ReadLockedAt(w)
  <2> DEFINE s == [version |-> work[w].version, rows |-> work[w].rows, state |-> LockState]
  <2>1. /\ pc[w] = "locked_at"
        /\ \A v \in Worker \ {w} : pc'[v] = pc[v]
        /\ pc'[w] = "store" /\ work'[w].snapshot = s
        /\ version' = version /\ made' = made \cup {s}
    BY <1>2 DEF ReadLockedAt, Goto, TypeOK, Local, database
  <2>2. s.version = version /\ \A u \in made : u.version < version
    BY <2>1 DEF VersionInv, VersionFresh
  <2>3. \A v \in Worker \ {w} : pc'[v] \notin Building \cup Publication
    BY <2>1, OnlyHolder DEF Holding
  <2>4. version \in Nat /\ \A u \in made : u.version \in Nat
    BY DEF TypeOK, Snapshot
  <2> HIDE DEF s
  <2>5. VersionsTaken'
    BY <2>1, <2>2, <2>4 DEF VersionsTaken
  <2>6. VersionFresh' /\ PublishesLast'
    BY <2>1, <2>2, <2>3 DEF VersionFresh, PublishesLast
  <2>7. PagesAgree'
    BY <2>1, <2>2, <2>4 DEF VersionInv, PagesAgree
  <2> QED BY <2>5, <2>6, <2>7 DEF VersionInv
<1>3. CASE ReadMax(w)
  <2>1. Uninvolved
    BY <1>3 DEF ReadMax, Goto, TypeOK, Local, database, history, Uninvolved
  <2> QED BY <2>1, UninvolvedKeeps
<1>4. CASE ReadFlag(w)
  <2>1. Uninvolved
    BY <1>4 DEF ReadFlag, Goto, TypeOK, Local, database, history, Uninvolved
  <2> QED BY <2>1, UninvolvedKeeps
<1>5. CASE ReadRows(w)
  <2>1. Uninvolved
    BY <1>5 DEF ReadRows, Goto, TypeOK, Local, database, history, Uninvolved
  <2> QED BY <2>1, UninvolvedKeeps
<1>6. CASE StoreSnapshot(w) \/ SetLatest(w) \/ CacheSnapshot(w) \/ PublishFails(w)
  <2>1. Uninvolved
    BY <1>6 DEF StoreSnapshot, SetLatest, CacheSnapshot, PublishFails, Goto, TypeOK, Local,
                database, history, Uninvolved
  <2> QED BY <2>1, UninvolvedKeeps
<1>7. CASE DeleteMarks(w) \/ ClearFull(w) \/ Unlock(w)
  <2>1. Uninvolved
    BY <1>7 DEF DeleteMarks, ClearFull, Unlock, Finish, Goto, TypeOK, Local, database,
                history, Uninvolved
  <2> QED BY <2>1, UninvolvedKeeps
<1>8. CASE Keep(w) \/ PollLatest(w) \/ GiveUp(w)
  <2>1. Uninvolved
    BY <1>8 DEF Keep, PollLatest, GiveUp, Finish, Goto, TypeOK, Local, database, history,
                Uninvolved
  <2> QED BY <2>1, UninvolvedKeeps
<1> QED BY <1>1, <1>2, <1>3, <1>4, <1>5, <1>6, <1>7, <1>8 DEF Step

LEMMA VersionInvInductive ==
  ASSUME TypeOK, VersionInv, [Next]_vars
  PROVE  VersionInv'
<1>1. CASE \E w \in Worker : Step(w) \/ PublishFails(w)
  BY <1>1, StepVersionInv
<1>2. CASE Uninvolved
  BY <1>2, UninvolvedKeeps
<1>3. CASE UNCHANGED vars
  BY <1>3, UninvolvedKeeps DEF Uninvolved, vars, database, history
<1> QED BY <1>1, <1>2, <1>3, OthersUninvolved DEF Next, Worker

\* The snapshots are numbered in the order in which they are built, for any number
\* of workers and faults.
THEOREM VersionsInOrder == Spec => [](TypeOK /\ VersionInv)
<1>1. Init => TypeOK /\ VersionInv
  <2> SUFFICES ASSUME Init PROVE VersionInv
    BY InitTypeOK
  <2> QED BY DEF Init, VersionInv, VersionsTaken, VersionFresh, PublishesLast, PagesAgree,
                 Building, Publication
<1>2. TypeOK /\ VersionInv /\ [Next]_vars => TypeOK' /\ VersionInv'
  BY VersionInvInductive, TypeStep
<1> QED BY <1>1, <1>2, PTL DEF Spec

\* A version names one snapshot (next_version, get_info).
THEOREM VersionNamesSnapshot == Spec => []PagesAgree
<1>1. TypeOK /\ VersionInv => PagesAgree
  BY DEF VersionInv
<1> QED BY <1>1, VersionsInOrder, PTL

\* The published board never goes back (publish_snapshot).
THEOREM PublishedInOrder == Spec => NeverOlder
<1>1. ASSUME TypeOK, VersionInv, [Next]_vars, latest # None, latest' # None
      PROVE  latest'.version >= latest.version
  <2>1. latest.version \in Nat /\ latest.version <= version
    BY <1>1 DEF TypeOK, Snapshot, VersionInv, VersionsTaken
  <2>2. ASSUME NEW w \in Worker, SetLatest(w) PROVE latest'.version = version
    BY <1>1, <2>2 DEF SetLatest, VersionInv, PublishesLast, Publication
  <2>3. latest' = latest \/ latest' = None \/ \E w \in Worker : SetLatest(w)
    BY <1>1 DEF Next, vars, Worker, ChangeTeam, Freeze, Thaw, RemoveTeam, Mark, TakeRevision,
         MarkTeam, MarkGame, HandlerFails, StartRefresh, LoadLatest, StartRebuild, Step,
         WorkerFault, ReadMax, NextVersion, ReadFlag, ReadRows, ReadLockedAt, StoreSnapshot,
         CacheSnapshot, DeleteMarks, ClearFull, Unlock, Keep, PollLatest, GiveUp,
         FailStatement, PublishFails, Cancel, Crash, Recycle, Flush
  <2>4. version \in Nat
    BY <1>1 DEF TypeOK
  <2> QED BY <1>1, <2>1, <2>2, <2>3, <2>4
<1>2. TypeOK /\ VersionInv /\ [Next]_vars =>
        [latest # None /\ latest' # None => latest'.version >= latest.version]_vars
  BY <1>1
<1> QED BY <1>2, VersionsInOrder, PTL DEF Spec, NeverOlder
-----------------------------------------------------------------------------
(* The board is current or somebody knows that it is not.                  *)
(*                                                                         *)
(* A mark is good for a change if the refresh that is at work will leave   *)
(* it: its revision is above the MAX(revision) that this refresh has read. *)

GameOwed == \E c \in Change : call[c].kind = "game" /\ call[c].pc = "owed"

\* The call will mark the team with a revision above m.
TeamOwed(c, t, m) ==
  /\ call[c].kind = "team" /\ call[c].team = t /\ live[t] # Gone
  /\ call[c].pc = "owed" \/ (call[c].pc = "marking" /\ call[c].revision > m)

Pending(t, m) == dirty[t] > m \/ GameOwed \/ \E c \in Change : TeamOwed(c, t, m)

\* The rows are right, or something that w will not clear says that they are not.
Told(w, t, rows) ==
  \/ rows[t] = Board[t]
  \/ Pending(t, work[w].max)
  \/ w \in Reader /\ full = "yes"

\* What w has in hand, or has published, at each statement of a refresh.
Covered(w) ==
  /\ pc[w] = "rows" =>
       work[w].flag = LockState \/ GameOwed \/ (w \in Reader /\ full = "yes")
  /\ pc[w] = "locked_at" => \A t \in Team : Told(w, t, work[w].rows)
  /\ pc[w] \in {"store", "latest"} => \A t \in Team : Told(w, t, work[w].snapshot.rows)
  /\ pc[w] \in {"cache", "delete", "clear"} /\ w \in Scheduler /\ latest # None =>
       \A t \in Team : Told(w, t, latest.rows)

\* What the published board does not show is marked or will be, or the worker that
\* cleared the mark of the game has not failed yet.
Known(t) ==
  \/ latest.rows[t] = Board[t] \/ full = "yes" \/ Pending(t, 0)
  \/ \E w \in Worker : Forgets(w)

\* Revisions grow, and a team has one mark underway.
Marks ==
  /\ \A t \in Team : dirty[t] <= sequence
  /\ \A w \in Worker :
       /\ work[w].max <= sequence
       /\ w \in Reader => work[w].max = 0 /\ pc[w] \notin {"max", "delete", "clear"}
  /\ \A c \in Change :
       /\ call[c].pc \in {"owed", "marking"} /\ call[c].kind = "team" => call[c].team \in Team
       /\ call[c].pc = "owed" => call[c].kind \in {"team", "game"}
       /\ call[c].pc = "marking" => /\ call[c].kind = "team"
                                    /\ call[c].revision \in 1..sequence
                                    /\ dirty[call[c].team] < call[c].revision
  /\ \A c, d \in Change :
       call[c].pc = "marking" /\ call[d].pc = "marking" /\ call[c].team = call[d].team => c = d

CurrentInv ==
  lost = {} => /\ \A w \in Worker : Covered(w)
               /\ latest # None => \A t \in Team : Known(t)

-----------------------------------------------------------------------------
LEMMA Typed ==
  TypeOK => /\ live \in Rows /\ frozen \in Rows \cup {None} /\ Board \in Rows
            /\ sequence \in Nat /\ dirty \in [Team -> Nat] /\ full \in {"none", "no", "yes"}
            /\ call \in [Change -> Call]
            /\ pc \in [Worker -> Phase] /\ work \in [Worker -> Local]
            /\ \A s \in made : s.rows \in Rows
            /\ latest \in made \cup {None}
BY DEF TypeOK, Board, Snapshot

\* What a call leaves of what a worker knows: a row that was right is, or the call owes a
\* mark; and what it owed it owes, or has marked.
CallKeeps ==
  /\ \A t \in Team, m \in 0..sequence, x \in Value :
       x = Board[t] \/ Pending(t, m) => (x = Board[t])' \/ Pending(t, m)'
  /\ LockState' = LockState \/ GameOwed'
  /\ GameOwed => GameOwed'
  /\ full = "yes" => full' = "yes"
  /\ UNCHANGED <<latest, pc, work, lost>>

LEMMA GameCallKeeps ==
  ASSUME TypeOK, NEW c \in Change, Freeze(c) \/ Thaw(c) \/ RemoveTeam(c)
  PROVE  CallKeeps
<1>1. GameOwed'
  <2>1. call'[c].kind = "game" /\ call'[c].pc = "owed"
    BY Typed DEF Freeze, Thaw, RemoveTeam, Committed, New
  <2> QED BY <2>1 DEF GameOwed
<1>2. UNCHANGED <<full, latest, pc, work, lost>>
  BY DEF Freeze, Thaw, RemoveTeam, history
<1> QED BY <1>1, <1>2 DEF CallKeeps, Pending

LEMMA ChangeKeeps ==
  ASSUME TypeOK, NEW c \in Change, ChangeTeam(c)
  PROVE  CallKeeps
<1>1. PICK u \in Team : /\ live[u] # Gone /\ live' = [live EXCEPT ![u] = @ + 1]
                        /\ Committed(c, "team", u)
  BY DEF ChangeTeam
<1>2. /\ call[c].pc = "new" /\ UNCHANGED <<frozen, dirty, full, latest, pc, work, lost>>
      /\ call' = [call EXCEPT ![c] = call'[c]]
      /\ call'[c].pc = "owed" /\ call'[c].kind = "team" /\ call'[c].team = u
  BY <1>1, Typed DEF ChangeTeam, Committed, New, history
<1>3. live'[u] # Gone /\ \A t \in Team \ {u} : live'[t] = live[t]
  BY <1>1, Typed, ConstantAssumption DEF Rows, Value
<1>4. ASSUME NEW t \in Team, NEW m \in Nat, NEW d \in Change, TeamOwed(d, t, m)
      PROVE  TeamOwed(d, t, m)'
  BY <1>2, <1>3, <1>4, Typed DEF TeamOwed
<1>5. \A m \in Nat : TeamOwed(c, u, m)'
  BY <1>2, <1>3 DEF TeamOwed
<1>6. \A t \in Team \ {u} : (Board[t])' = Board[t]
  BY <1>2, <1>3, Typed DEF Board
<1>7. GameOwed => GameOwed'
  BY <1>2, Typed DEF GameOwed
<1>8. \A t \in Team, m \in Nat : Pending(t, m) => Pending(t, m)'
  BY <1>2, <1>4, <1>7 DEF Pending
<1>9. \A m \in Nat : Pending(u, m)'
  BY <1>5 DEF Pending
<1> QED BY <1>2, <1>6, <1>7, <1>8, <1>9, Typed DEF CallKeeps, LockState

LEMMA TakeKeeps ==
  ASSUME TypeOK, NEW c \in Change, TakeRevision(c)
  PROVE  CallKeeps
<1>1. /\ call[c].pc = "owed" /\ call[c].kind = "team"
      /\ call' = [call EXCEPT ![c].pc = "marking", ![c].revision = sequence + 1]
      /\ UNCHANGED <<live, frozen, dirty, full, latest, pc, work, lost>>
  BY DEF TakeRevision, history
<1>2. /\ call'[c].pc = "marking" /\ call'[c].kind = "team" /\ call'[c].team = call[c].team
      /\ call'[c].revision = sequence + 1
      /\ \A d \in Change \ {c} : call'[d] = call[d]
  BY <1>1, Typed DEF Call
<1>3. ASSUME NEW t \in Team, NEW m \in 0..sequence, NEW d \in Change, TeamOwed(d, t, m)
      PROVE  TeamOwed(d, t, m)'
  BY <1>1, <1>2, <1>3, Typed DEF TeamOwed
<1>4. GameOwed => GameOwed'
  BY <1>1, <1>2 DEF GameOwed
<1>5. \A t \in Team, m \in 0..sequence : Pending(t, m) => Pending(t, m)'
  BY <1>1, <1>3, <1>4 DEF Pending
<1> QED BY <1>1, <1>4, <1>5 DEF CallKeeps, LockState, Board

LEMMA MarkKeeps ==
  ASSUME TypeOK, Marks, NEW c \in Change, MarkTeam(c)
  PROVE  CallKeeps
<1>1. /\ call[c].pc = "marking" /\ call[c].kind = "team" /\ call[c].team \in Team
      /\ call[c].revision \in 1..sequence /\ dirty[call[c].team] < call[c].revision
      /\ call' = [call EXCEPT ![c] = Done]
      /\ UNCHANGED <<live, frozen, latest, pc, work, lost>>
  BY DEF MarkTeam, Advance, Marks, history
<1>2. PICK u \in Team, n \in Nat : u = call[c].team /\ n = call[c].revision
  BY <1>1, Typed
<1>3. /\ dirty' = IF live[u] = Gone THEN dirty ELSE [dirty EXCEPT ![u] = n]
      /\ full = "yes" => full' = "yes"
  BY <1>2 DEF MarkTeam
<1>4. GameOwed => GameOwed'
  BY <1>1 DEF GameOwed
<1>5. ASSUME NEW t \in Team, NEW m \in 0..sequence, NEW d \in Change, TeamOwed(d, t, m)
      PROVE  TeamOwed(d, t, m)' \/ dirty'[t] > m
  <2>1. CASE d = c
    <3>1. t = u /\ n > m /\ live[u] # Gone
      BY <1>1, <1>2, <1>5, <2>1 DEF TeamOwed
    <3> QED BY <1>3, <3>1, Typed
  <2>2. CASE d # c
    BY <1>1, <1>5, <2>2 DEF TeamOwed
  <2> QED BY <2>1, <2>2
<1>6. \A t \in Team : dirty'[t] >= dirty[t]
  BY <1>1, <1>2, <1>3, Typed
<1>7. \A t \in Team : dirty'[t] \in Nat /\ dirty[t] \in Nat
  BY <1>1, <1>2, <1>3, Typed
<1>8. ASSUME NEW t \in Team, NEW m \in 0..sequence, Pending(t, m) PROVE Pending(t, m)'
  <2>1. CASE dirty[t] > m
    BY <1>6, <1>7, <2>1, Typed DEF Pending
  <2> QED BY <1>4, <1>5, <1>8, <2>1 DEF Pending
<1> QED BY <1>1, <1>3, <1>4, <1>8 DEF CallKeeps, LockState, Board

\* The rows that a worker has in hand.
LEMMA InHand ==
  TypeOK => \A w \in Worker :
              /\ pc[w] = "locked_at" => work[w].rows \in Rows
              /\ pc[w] \in {"store", "latest"} => work[w].snapshot.rows \in Rows
              /\ latest # None => latest.rows \in Rows
BY Typed DEF TypeOK, Held, Local

\* What a call keeps is all that the workers need.
LEMMA KeptCurrent ==
  ASSUME TypeOK, Marks, CurrentInv, CallKeeps
  PROVE  CurrentInv'
<1> SUFFICES ASSUME lost' = {} PROVE CurrentInv'
  BY DEF CurrentInv
<1>1. /\ \A w \in Worker : Covered(w) /\ work[w].max \in 0..sequence
      /\ latest # None => \A t \in Team : Known(t)
      /\ UNCHANGED <<latest, pc, work>>
  BY Typed DEF CurrentInv, CallKeeps, Marks, Local
<1>2. ASSUME NEW w \in Worker, NEW t \in Team, NEW rows \in Rows, Told(w, t, rows)
      PROVE  Told(w, t, rows)'
  <2>1. rows[t] \in Value
    BY DEF Rows
  <2>2. rows[t] = Board[t] \/ Pending(t, work[w].max) =>
          (rows[t] = Board[t])' \/ Pending(t, work[w].max)'
    BY <1>1, <2>1 DEF CallKeeps
  <2> QED BY <1>1, <1>2, <2>2 DEF Told, CallKeeps
<1>3. ASSUME NEW w \in Worker PROVE Covered(w)'
  <2>1. Covered(w) /\ UNCHANGED <<latest, pc, work>>
    BY <1>1
  <2>2. pc'[w] = "rows" =>
          (work[w].flag = LockState)' \/ GameOwed' \/ (w \in Reader /\ full' = "yes")
    BY <2>1 DEF Covered, CallKeeps
  <2>3. pc'[w] = "locked_at" => \A t \in Team : Told(w, t, work[w].rows)'
    BY <1>2, <2>1, InHand DEF Covered
  <2>4. pc'[w] \in {"store", "latest"} => \A t \in Team : Told(w, t, work[w].snapshot.rows)'
    BY <1>2, <2>1, InHand DEF Covered
  <2>5. pc'[w] \in {"cache", "delete", "clear"} /\ w \in Scheduler /\ latest' # None =>
          \A t \in Team : Told(w, t, latest.rows)'
    BY <1>2, <2>1, InHand DEF Covered
  <2> QED BY <2>2, <2>3, <2>4, <2>5 DEF Covered
<1>4. ASSUME latest' # None, NEW t \in Team PROVE Known(t)'
  <2>1. Known(t) /\ latest.rows[t] \in Value /\ UNCHANGED <<latest, pc, work>>
    BY <1>1, <1>4, Typed DEF Rows
  <2>2. latest.rows[t] = Board[t] \/ Pending(t, 0) =>
          (latest.rows[t] = Board[t])' \/ Pending(t, 0)'
    BY <2>1, Typed DEF CallKeeps
  <2> QED BY <2>1, <2>2 DEF Known, CallKeeps, Forgets
<1> QED BY <1>3, <1>4 DEF CurrentInv

\* A worker's step that changes nothing of the teams and their marks.
LEMMA AsideCurrent ==
  ASSUME TypeOK, CurrentInv, NEW w \in Worker,
         UNCHANGED <<live, frozen, dirty, full, call>>, latest' \in {latest, None},
         lost' = {} => lost = {},
         \A v \in Worker \ {w} : pc'[v] = pc[v] /\ work'[v] = work[v],
         lost' = {} => Covered(w)',
         lost' = {} /\ Forgets(w) => Forgets(w)'
  PROVE  CurrentInv'
<1> SUFFICES ASSUME lost' = {} PROVE CurrentInv'
  BY DEF CurrentInv
<1>1. /\ \A v \in Worker : Covered(v)
      /\ latest # None => \A t \in Team : Known(t)
  BY DEF CurrentInv
<1>2. UNCHANGED <<Board, LockState, GameOwed>>
  BY DEF Board, LockState, GameOwed
<1>3. \A t \in Team, m \in Nat : Pending(t, m)' = Pending(t, m)
  BY <1>2 DEF Pending, TeamOwed
<1>4. ASSUME NEW v \in Worker \ {w} PROVE Covered(v)'
  <2>1. Covered(v) /\ work[v].max \in Nat /\ pc'[v] = pc[v] /\ work'[v] = work[v]
    BY <1>1, Typed DEF Local
  <2>2. \A t \in Team, rows \in Rows : Told(v, t, rows)' <=> Told(v, t, rows)
    BY <1>2, <1>3, <2>1 DEF Told
  <2> QED BY <1>2, <2>1, <2>2, InHand DEF Covered
<1>5. ASSUME latest' # None, NEW t \in Team PROVE Known(t)'
  <2>1. Known(t) /\ latest' = latest
    BY <1>1, <1>5
  <2>2. Pending(t, 0)' = Pending(t, 0)
    BY <1>3
  <2>3. \A v \in Worker : Forgets(v) => Forgets(v)'
    BY DEF Forgets
  <2> QED BY <1>2, <2>1, <2>2, <2>3 DEF Known
<1> QED BY <1>4, <1>5 DEF CurrentInv

\* Only one worker is at a statement of a refresh.
LEMMA OthersOut ==
  ASSUME TypeOK, NEW w \in Worker, pc[w] \in Holding
  PROVE  \A v \in Worker \ {w} : pc[v] \notin Holding
BY DEF TypeOK, Held

\* So that its step needs to be right for itself.
LEMMA HolderCurrent ==
  ASSUME TypeOK, NEW w \in Worker, pc[w] \in Holding,
         \A v \in Worker \ {w} : pc'[v] = pc[v],
         lost' = {} => Covered(w)' /\ (latest' # None => \A t \in Team : Known(t)')
  PROVE  CurrentInv'
<1>1. \A v \in Worker \ {w} : pc'[v] \notin Holding
  BY OthersOut
<1>2. \A v \in Worker \ {w} : Covered(v)'
  BY <1>1 DEF Covered, Holding
<1> QED BY <1>2 DEF CurrentInv

\* The steps of a worker between its lock and its unlock.
LEMMA StepCurrent ==
  ASSUME TypeOK, Marks, CurrentInv, NEW w \in Worker, Step(w)
  PROVE  CurrentInv'
<1> USE DEF Goto
<1>1. CASE ReadMax(w)
  <2>1. /\ UNCHANGED <<live, frozen, dirty, full, call, latest, lost>> /\ pc'[w] = "version"
        /\ \A v \in Worker \ {w} : pc'[v] = pc[v] /\ work'[v] = work[v]
        /\ pc[w] = "max"
    BY <1>1, Typed DEF ReadMax, database, history
  <2> QED BY <2>1, AsideCurrent DEF Covered, Forgets
<1>2. CASE NextVersion(w)
  <2>1. /\ UNCHANGED <<live, frozen, dirty, call, latest, lost>> /\ pc'[w] = "flag"
        /\ full' = (IF full = "none" THEN "yes" ELSE "no") /\ work'[w].was = full
        /\ \A v \in Worker \ {w} : pc'[v] = pc[v]
        /\ pc[w] = "version"
    BY <1>2, Typed DEF NextVersion, Local, history
  <2>2. ASSUME lost = {}, latest # None, NEW t \in Team PROVE Known(t)'
    <3>1. Known(t)
      BY <2>2 DEF CurrentInv
    <3>2. ~ \E v \in Worker : Forgets(v)
      BY <2>1, OthersOut DEF Forgets, Holding
    <3>3. CASE full = "yes"
      BY <2>1, <3>3 DEF Known, Forgets
    <3>4. CASE full # "yes" /\ full # "none"
      BY <2>1, <3>1, <3>2, <3>4 DEF Known, Pending, GameOwed, TeamOwed, Board
    <3>5. CASE full = "none"
      BY <2>1, <3>5 DEF Known
    <3> QED BY <3>3, <3>4, <3>5
  <2> QED BY <2>1, <2>2, HolderCurrent DEF Covered, Holding
<1>3. CASE ReadFlag(w)
  <2>1. /\ UNCHANGED <<live, frozen, dirty, full, call, latest, lost>> /\ pc'[w] = "rows"
        /\ \A v \in Worker \ {w} : pc'[v] = pc[v] /\ work'[v] = work[v]
        /\ pc[w] = "flag" /\ work'[w].flag = LockState /\ work'[w].was = work[w].was
    BY <1>3, Typed DEF ReadFlag, Local, database, history
  <2> QED BY <2>1, AsideCurrent DEF Covered, Forgets, LockState
<1>4. CASE ReadRows(w)
  <2>1. /\ UNCHANGED <<live, frozen, dirty, full, call, latest, lost>> /\ pc'[w] = "locked_at"
        /\ \A v \in Worker \ {w} : pc'[v] = pc[v] /\ work'[v] = work[v]
        /\ pc[w] = "rows" /\ work'[w].was = work[w].was
        /\ work[w].flag = "live" => work'[w].rows = live
        /\ work[w].flag = "locked" /\ frozen # None => work'[w].rows = frozen
    BY <1>4, Typed DEF ReadRows, Local, database, history
  <2>2. lost = {} => work'[w].rows = Board \/ GameOwed \/ (w \in Reader /\ full = "yes")
    BY <2>1 DEF CurrentInv, Covered, LockState, Board
  <2>3. lost = {} => Covered(w)'
    BY <2>1, <2>2 DEF Covered, Told, Pending, GameOwed, Board
  <2> QED BY <2>1, <2>3, AsideCurrent DEF Forgets
<1>5. CASE ReadLockedAt(w)
  <2>1. /\ UNCHANGED <<live, frozen, dirty, full, call, latest, lost>> /\ pc'[w] = "store"
        /\ \A v \in Worker \ {w} : pc'[v] = pc[v] /\ work'[v] = work[v]
        /\ pc[w] = "locked_at" /\ work'[w].was = work[w].was /\ work'[w].max = work[w].max
        /\ work'[w].snapshot.rows = work[w].rows
    BY <1>5, Typed DEF ReadLockedAt, Local, database, history
  <2>2. lost = {} => Covered(w)'
    BY <2>1 DEF CurrentInv, Covered, Told, Pending, GameOwed, TeamOwed, Board
  <2> QED BY <2>1, <2>2, AsideCurrent DEF Forgets
<1>6. CASE StoreSnapshot(w)
  <2>1. /\ UNCHANGED <<live, frozen, dirty, full, call, latest, lost, work>>
        /\ pc'[w] = "latest"
        /\ \A v \in Worker \ {w} : pc'[v] = pc[v]
        /\ pc[w] = "store"
    BY <1>6, Typed DEF StoreSnapshot, database, history
  <2>2. lost = {} => Covered(w)'
    BY <2>1 DEF CurrentInv, Covered, Told, Pending, GameOwed, TeamOwed, Board
  <2> QED BY <2>1, <2>2, AsideCurrent DEF Forgets
<1>7. CASE SetLatest(w)
  <2>1. /\ UNCHANGED <<live, frozen, dirty, full, call, lost>> /\ pc'[w] = "cache"
        /\ \A v \in Worker \ {w} : pc'[v] = pc[v]
        /\ pc[w] = "latest" /\ latest' = work[w].snapshot /\ work'[w].max = work[w].max
    BY <1>7, Typed DEF SetLatest, Local, database, history
  <2>2. ASSUME lost = {}, NEW t \in Team PROVE Told(w, t, work[w].snapshot.rows)
    BY <2>1, <2>2 DEF CurrentInv, Covered
  <2>3. lost = {} => Covered(w)'
    BY <2>1, <2>2 DEF Covered, Told, Pending, GameOwed, TeamOwed, Board
  <2>4. ASSUME lost = {}, NEW t \in Team PROVE Known(t)'
    <3>1. Pending(t, work[w].max) => Pending(t, 0)
      BY Typed DEF Pending, TeamOwed, Local, Call
    <3>2. Told(w, t, work[w].snapshot.rows)
      BY <2>2, <2>4
    <3> QED BY <2>1, <3>1, <3>2 DEF Known, Told, Pending, GameOwed, TeamOwed, Board
  <2> QED BY <2>1, <2>3, <2>4, HolderCurrent DEF Holding
<1>8. CASE CacheSnapshot(w)
  <2>1. /\ UNCHANGED <<live, frozen, dirty, full, call, latest, lost>>
        /\ pc'[w] = IF w \in Scheduler THEN "delete" ELSE "unlock"
        /\ \A v \in Worker \ {w} : pc'[v] = pc[v] /\ work'[v] = work[v]
        /\ pc[w] = "cache" /\ work'[w].max = work[w].max
    BY <1>8, Typed DEF CacheSnapshot, Local, database, history
  <2>2. lost = {} => Covered(w)'
    BY <2>1 DEF CurrentInv, Covered, Told, Pending, GameOwed, TeamOwed, Board
  <2> QED BY <2>1, <2>2, AsideCurrent DEF Forgets
<1>9. CASE DeleteMarks(w)
  <2>1. /\ UNCHANGED <<live, frozen, full, call, latest, lost>> /\ pc'[w] = "clear"
        /\ \A v \in Worker \ {w} : pc'[v] = pc[v]
        /\ pc[w] = "delete" /\ work'[w].max = 0
        /\ \A t \in Team : dirty[t] > work[w].max => dirty'[t] = dirty[t]
    BY <1>9, Typed DEF DeleteMarks, Local, history
  <2>2. w \in Scheduler
    BY <2>1 DEF Marks, Worker
  <2>3. ASSUME NEW t \in Team, Pending(t, work[w].max) PROVE Pending(t, 0)'
    BY <2>1, <2>3, Typed DEF Pending, GameOwed, TeamOwed, Local, Call
  <2>4. ASSUME lost = {}, latest # None, NEW t \in Team
        PROVE  latest.rows[t] = Board[t] \/ Pending(t, work[w].max)
    BY <2>1, <2>2, <2>4, ConstantAssumption DEF CurrentInv, Covered, Told
  <2>5. ASSUME lost = {}, latest # None, NEW t \in Team
        PROVE  (latest.rows[t] = Board[t])' \/ Pending(t, 0)'
    BY <2>1, <2>3, <2>4, <2>5 DEF Board
  <2>6. lost = {} => Covered(w)'
    BY <2>1, <2>5 DEF Covered, Told
  <2>7. ASSUME lost = {}, latest # None, NEW t \in Team PROVE Known(t)'
    BY <2>5, <2>7 DEF Known
  <2> QED BY <2>1, <2>6, <2>7, HolderCurrent DEF Holding
<1>10. CASE ClearFull(w)
  <2>1. /\ UNCHANGED <<live, frozen, dirty, call, latest, lost>> /\ pc'[w] = "unlock"
        /\ \A v \in Worker \ {w} : pc'[v] = pc[v]
        /\ pc[w] = "clear"
    BY <1>10, Typed DEF ClearFull, history
  <2>2. w \in Scheduler
    BY <2>1 DEF Marks, Worker
  <2>3. ASSUME NEW t \in Team, Pending(t, work[w].max) PROVE Pending(t, 0)'
    BY <2>1, <2>3, Typed DEF Pending, GameOwed, TeamOwed, Local, Call
  <2>4. ASSUME lost = {}, latest # None, NEW t \in Team
        PROVE  latest.rows[t] = Board[t] \/ Pending(t, work[w].max)
    BY <2>1, <2>2, <2>4, ConstantAssumption DEF CurrentInv, Covered, Told
  <2>5. ASSUME lost = {}, latest # None, NEW t \in Team PROVE Known(t)'
    BY <2>1, <2>3, <2>4, <2>5 DEF Known, Board
  <2> QED BY <2>1, <2>5, HolderCurrent DEF Covered, Holding
<1>11. CASE Unlock(w)
  <2>1. /\ UNCHANGED <<live, frozen, dirty, full, call, latest, lost>> /\ pc'[w] = "idle"
        /\ \A v \in Worker \ {w} : pc'[v] = pc[v] /\ work'[v] = work[v]
        /\ pc[w] = "unlock"
    BY <1>11, Typed DEF Unlock, Finish, database, history
  <2> QED BY <2>1, AsideCurrent DEF Covered, Forgets
<1>12. CASE Keep(w) \/ PollLatest(w) \/ GiveUp(w)
  <2>1. /\ UNCHANGED <<live, frozen, dirty, full, call, latest, lost>>
        /\ pc'[w] \in {"idle", "keep"} /\ pc[w] \in {"keep", "polling"}
        /\ \A v \in Worker \ {w} : pc'[v] = pc[v] /\ work'[v] = work[v]
    BY <1>12, Typed DEF Keep, PollLatest, GiveUp, Finish, database, history
  <2> QED BY <2>1, AsideCurrent DEF Covered, Forgets
<1> QED BY <1>1, <1>2, <1>3, <1>4, <1>5, <1>6, <1>7, <1>8, <1>9, <1>10, <1>11, <1>12 DEF Step

\* The statements of the handlers.
LEMMA CallCurrent ==
  ASSUME TypeOK, Marks, CurrentInv, NEW c \in Change,
         \/ ChangeTeam(c) \/ Freeze(c) \/ Thaw(c) \/ RemoveTeam(c) \/ Mark(c)
         \/ HandlerFails(c)
  PROVE  CurrentInv'
<1>1. CASE \/ ChangeTeam(c) \/ Freeze(c) \/ Thaw(c) \/ RemoveTeam(c)
           \/ TakeRevision(c) \/ MarkTeam(c)
  BY <1>1, ChangeKeeps, GameCallKeeps, TakeKeeps, MarkKeeps, KeptCurrent
<1>2. CASE HandlerFails(c)
  <2>1. lost' # {}
    BY <1>2 DEF HandlerFails
  <2> QED BY <2>1 DEF CurrentInv
<1>3. CASE MarkGame(c)
  <2>1. /\ call[c].kind = "game" /\ call[c].pc = "owed" /\ full' = "yes"
        /\ call' = [call EXCEPT ![c] = Done]
        /\ UNCHANGED <<live, frozen, dirty, latest, pc, work>>
        /\ (\E v \in Worker : Underway(v)) => lost' # {}
        /\ lost' = {} => lost = {}
    BY <1>3 DEF MarkGame, Advance
  <2>2. ASSUME NEW v \in Worker, lost' = {} PROVE Covered(v)'
    <3>1. pc[v] \in {"rows", "locked_at", "store", "latest", "cache", "delete", "clear"} =>
            v \in Reader
      BY <2>1, <2>2 DEF Underway, Worker
    <3> QED BY <2>1, <3>1, ConstantAssumption DEF Covered, Told
  <2>3. \A t \in Team : Known(t)'
    BY <2>1 DEF Known
  <2> QED BY <2>2, <2>3 DEF CurrentInv
<1> QED BY <1>1, <1>2, <1>3 DEF Mark

\* A worker begins, or fails.
LEMMA WorkerCurrent ==
  ASSUME TypeOK, CurrentInv, NEW w \in Worker,
         StartRefresh(w) \/ LoadLatest(w) \/ StartRebuild(w) \/ WorkerFault(w)
  PROVE  CurrentInv'
<1> USE DEF Goto
<1>1. CASE StartRefresh(w) \/ LoadLatest(w) \/ StartRebuild(w)
  <2>1. /\ UNCHANGED <<live, frozen, dirty, full, call, latest, lost>> /\ pc[w] = "idle"
        /\ pc'[w] \in {"max", "version", "keep", "polling"}
        /\ \A v \in Worker \ {w} : pc'[v] = pc[v] /\ work'[v] = work[v]
    BY <1>1, Typed DEF StartRefresh, LoadLatest, StartRebuild, database, history
  <2> QED BY <2>1, AsideCurrent DEF Covered, Forgets
<1>2. CASE FailStatement(w) \/ PublishFails(w) \/ Cancel(w)
  <2>1. /\ UNCHANGED <<live, frozen, dirty, full, call, latest>>
        /\ lost' = IF Forgets(w) THEN lost \cup {"mark"} ELSE lost
        /\ pc'[w] \in {"unlock", "idle"} \/ (pc'[w] = "cache" /\ w \in Reader)
        /\ \A v \in Worker \ {w} : pc'[v] = pc[v] /\ work'[v] = work[v]
    BY <1>2, Typed DEF FailStatement, PublishFails, Cancel, Finish, database
  <2>2. (lost' = {} => lost = {}) /\ ~(lost' = {} /\ Forgets(w))
    BY <2>1
  <2>3. Covered(w)'
    BY <2>1, ConstantAssumption DEF Covered
  <2> QED BY <2>1, <2>2, <2>3, AsideCurrent
<1> QED BY <1>1, <1>2 DEF WorkerFault

\* A process dies, or Redis loses its data.
LEMMA FaultCurrent ==
  ASSUME TypeOK, CurrentInv, (\E p \in Process : Crash(p)) \/ Recycle \/ Flush \/ UNCHANGED vars
  PROVE  CurrentInv'
<1>1. UNCHANGED <<live, frozen, dirty, full, call>> /\ latest' \in {latest, None}
  BY DEF Crash, Recycle, Flush, vars, database, history
<1>2. \A v \in Worker : \/ pc'[v] = pc[v] /\ work'[v] = work[v]
                        \/ pc'[v] = "idle" /\ (lost' = {} => ~Forgets(v))
  BY DEF Crash, Recycle, Flush, vars
<1>3. lost' = {} => lost = {}
  BY DEF Crash, Recycle, Flush, vars, history
<1> SUFFICES ASSUME lost' = {} PROVE CurrentInv'
  BY DEF CurrentInv
<1>4. /\ \A v \in Worker : Covered(v)
      /\ latest # None => \A t \in Team : Known(t)
  BY <1>3 DEF CurrentInv
<1>5. UNCHANGED <<Board, LockState, GameOwed>>
  BY <1>1 DEF Board, LockState, GameOwed
<1>6. \A t \in Team, m \in Nat : Pending(t, m)' = Pending(t, m)
  BY <1>1, <1>5 DEF Pending, TeamOwed
<1>7. ASSUME NEW v \in Worker PROVE Covered(v)'
  <2>1. CASE pc'[v] = "idle"
    BY <2>1 DEF Covered
  <2>2. CASE pc'[v] = pc[v] /\ work'[v] = work[v]
    <3>1. Covered(v) /\ work[v].max \in Nat
      BY <1>4, Typed DEF Local
    <3>2. \A t \in Team, rows \in Rows : Told(v, t, rows)' <=> Told(v, t, rows)
      BY <1>1, <1>5, <1>6, <2>2, <3>1 DEF Told
    <3> QED BY <1>1, <1>5, <2>2, <3>1, <3>2, InHand DEF Covered
  <2> QED BY <1>2, <2>1, <2>2
<1>8. ASSUME latest' # None, NEW t \in Team PROVE Known(t)'
  <2>1. Known(t) /\ latest' = latest
    BY <1>1, <1>4, <1>8
  <2>2. Pending(t, 0)' = Pending(t, 0)
    BY <1>6
  <2>3. \A v \in Worker : Forgets(v) => Forgets(v)'
    BY <1>2 DEF Forgets
  <2> QED BY <1>1, <1>5, <2>1, <2>2, <2>3 DEF Known
<1> QED BY <1>7, <1>8 DEF CurrentInv
-----------------------------------------------------------------------------
\* A step that takes no revision, and reads none.
LEMMA MarksFrame ==
  ASSUME TypeOK, Marks, UNCHANGED <<sequence, call>>,
         \A t \in Team : dirty'[t] <= dirty[t] /\ dirty'[t] \in Nat,
         \A w \in Worker :
            /\ work'[w].max \in {0, work[w].max}
            /\ w \in Reader => pc'[w] \notin {"max", "delete", "clear"}
  PROVE  Marks'
<1>1. \A t \in Team : dirty'[t] <= sequence'
  <2>1. \A t \in Team : dirty[t] <= sequence /\ dirty[t] \in Nat
    BY Typed DEF Marks
  <2> QED BY <2>1, Typed
<1>2. \A w \in Worker :
        /\ work'[w].max <= sequence'
        /\ w \in Reader => work'[w].max = 0 /\ pc'[w] \notin {"max", "delete", "clear"}
  BY Typed DEF Marks
<1>3. ASSUME NEW c \in Change, call[c].pc = "marking"
      PROVE  dirty'[call[c].team] < call[c].revision
  <2>1. PICK u \in Team, n \in Nat : u = call[c].team /\ n = call[c].revision /\ dirty[u] < n
    BY <1>3, Typed DEF Marks
  <2> QED BY <2>1, Typed
<1> QED BY <1>1, <1>2, <1>3 DEF Marks

\* Revisions only grow.
LEMMA MarksKept ==
  ASSUME TypeOK, Marks, [Next]_vars
  PROVE  Marks'
<1>1. ASSUME NEW c \in Change, ChangeTeam(c) \/ Freeze(c) \/ Thaw(c) \/ RemoveTeam(c)
      PROVE  Marks'
  <2>1. /\ \A d \in Change \ {c} : call'[d] = call[d]
        /\ call'[c].pc = "owed" /\ call'[c].kind \in {"team", "game"}
        /\ call'[c].kind = "team" => call'[c].team \in Team
    <3>1. CASE ChangeTeam(c)
      <4>1. PICK t \in Team : Committed(c, "team", t)
        BY <3>1 DEF ChangeTeam
      <4> QED BY <4>1, Typed DEF Committed, New
    <3>2. CASE Freeze(c) \/ Thaw(c) \/ RemoveTeam(c)
      <4>1. Committed(c, "game", None)
        BY <3>2 DEF Freeze, Thaw, RemoveTeam
      <4> QED BY <4>1, Typed DEF Committed, New
    <3> QED BY <1>1, <3>1, <3>2
  <2>2. /\ UNCHANGED <<sequence, work, pc>>
        /\ \A t \in Team : dirty'[t] <= dirty[t] /\ dirty'[t] \in Nat
    BY <1>1, Typed DEF ChangeTeam, Freeze, Thaw, RemoveTeam
  <2> QED BY <2>1, <2>2, Typed DEF Marks, Call
<1>2. ASSUME NEW c \in Change, TakeRevision(c) PROVE Marks'
  <2>1. /\ call[c].pc = "owed" /\ call[c].kind = "team" /\ call[c].team \in Team
        /\ \A d \in Change : call[d].pc = "marking" => call[d].team # call[c].team
    BY <1>2 DEF TakeRevision, Marks
  <2>2. /\ sequence' = sequence + 1 /\ UNCHANGED <<dirty, pc, work>>
        /\ call'[c].pc = "marking" /\ call'[c].kind = "team" /\ call'[c].team = call[c].team
        /\ call'[c].revision = sequence + 1
        /\ \A d \in Change \ {c} : call'[d] = call[d]
    BY <1>2, <2>1, Typed DEF TakeRevision, Call
  <2> QED BY <2>1, <2>2, Typed DEF Marks, Call, Local
<1>3. ASSUME NEW c \in Change, MarkTeam(c) PROVE Marks'
  <2>1. PICK u \in Team, n \in 1..sequence :
          u = call[c].team /\ n = call[c].revision /\ call[c].pc = "marking" /\ dirty[u] < n
    BY <1>3 DEF MarkTeam, Marks
  <2>2. /\ dirty' = IF live[u] = Gone THEN dirty ELSE [dirty EXCEPT ![u] = n]
        /\ UNCHANGED <<sequence, pc, work>> /\ call'[c].pc = "done"
        /\ \A d \in Change \ {c} : call'[d] = call[d]
    BY <1>3, <2>1, Typed DEF MarkTeam, Advance, Done, New
  <2>3. \A d \in Change \ {c} : call[d].pc = "marking" => call[d].team # u
    BY <2>1 DEF Marks
  <2> QED BY <2>1, <2>2, <2>3, Typed DEF Marks, Call
<1>4. ASSUME NEW c \in Change, MarkGame(c) \/ HandlerFails(c) PROVE Marks'
  <2>1. /\ UNCHANGED <<sequence, dirty, pc, work>> /\ call'[c].pc = "done"
        /\ \A d \in Change \ {c} : call'[d] = call[d]
    BY <1>4, Typed DEF MarkGame, HandlerFails, Advance, Done, New, database
  <2> QED BY <2>1, Typed DEF Marks, Call
<1>5. ASSUME NEW w \in Worker, ReadMax(w) PROVE Marks'
  <2>1. PICK m \in {0} \cup {dirty[t] : t \in Team} : work' = [work EXCEPT ![w].max = m]
    BY <1>5 DEF ReadMax
  <2>2. m \in Nat /\ m <= sequence
    BY <2>1, Typed DEF Marks
  <2>3. /\ w \notin Reader /\ pc' = [pc EXCEPT ![w] = "version"]
        /\ UNCHANGED <<sequence, dirty, call>>
    BY <1>5 DEF ReadMax, Goto, Marks, database
  <2> QED BY <2>1, <2>2, <2>3, Typed DEF Marks, Local
<1>6. ASSUME NEW w \in Worker, Step(w), ~ReadMax(w) PROVE Marks'
  <2> USE DEF Goto, Finish
  <2>1. \A t \in Team : dirty[t] \in Nat
    BY Typed
  <2>2. /\ UNCHANGED <<sequence, call>>
        /\ \A t \in Team : dirty'[t] <= dirty[t] /\ dirty'[t] \in Nat
    <3>1. CASE DeleteMarks(w)
      BY <2>1, <3>1 DEF DeleteMarks
    <3>2. CASE ~DeleteMarks(w)
      BY <1>6, <2>1, <3>2 DEF Step, NextVersion,
         ReadFlag, ReadRows, ReadLockedAt, StoreSnapshot,
         SetLatest, CacheSnapshot, ClearFull, Unlock, Keep, PollLatest, GiveUp, database
    <3> QED BY <3>1, <3>2
  <2>3. /\ \A v \in Worker \ {w} : pc'[v] = pc[v] /\ work'[v].max = work[v].max
        /\ work'[w].max \in {0, work[w].max}
    <3>1. CASE \/ NextVersion(w) \/ ReadFlag(w) \/ ReadRows(w)
               \/ ReadLockedAt(w) \/ StoreSnapshot(w)
      BY <3>1, Typed DEF NextVersion, ReadFlag, ReadRows, ReadLockedAt, StoreSnapshot, Local
    <3>2. CASE SetLatest(w) \/ CacheSnapshot(w) \/ DeleteMarks(w) \/ ClearFull(w) \/ Unlock(w)
      BY <3>2, Typed DEF SetLatest, CacheSnapshot, DeleteMarks, ClearFull, Unlock, Idle, Local
    <3>3. CASE Keep(w) \/ PollLatest(w) \/ GiveUp(w)
      BY <3>3, Typed DEF Keep, PollLatest, GiveUp, Idle, Local
    <3> QED BY <1>6, <3>1, <3>2, <3>3 DEF Step
  <2>4. pc'[w] \in {"max", "delete", "clear"} => w \in Scheduler \/ pc[w] = "delete"
    BY <1>6, Typed DEF Step, NextVersion, ReadFlag, ReadRows, ReadLockedAt, StoreSnapshot,
       SetLatest, CacheSnapshot, DeleteMarks, ClearFull, Unlock, Keep, PollLatest, GiveUp
  <2>5. \A v \in Reader : pc'[v] \notin {"max", "delete", "clear"}
    BY <2>3, <2>4, ConstantAssumption DEF Marks, Worker
  <2> QED BY <2>2, <2>3, <2>5, MarksFrame
<1>7. ASSUME NEW w \in Worker,
             \/ StartRebuild(w) \/ LoadLatest(w) \/ WorkerFault(w)
             \/ w \in Scheduler /\ StartRefresh(w)
      PROVE  Marks'
  <2>1. UNCHANGED <<sequence, call, dirty>>
    BY <1>7 DEF StartRebuild, LoadLatest, WorkerFault, FailStatement, PublishFails, Cancel,
       StartRefresh, database
  <2>2. /\ \A v \in Worker \ {w} : pc'[v] = pc[v] /\ work'[v].max = work[v].max
        /\ work'[w].max \in {0, work[w].max}
        /\ pc'[w] \in {"max", "delete", "clear"} => w \in Scheduler
    BY <1>7, Typed DEF StartRebuild, LoadLatest, WorkerFault, FailStatement, PublishFails,
       Cancel, StartRefresh, Goto, Finish, Idle, Local
  <2>3. \A v \in Reader : pc'[v] \notin {"max", "delete", "clear"}
    BY <2>2, ConstantAssumption DEF Marks, Worker
  <2> QED BY <2>1, <2>2, <2>3, Typed, MarksFrame
<1>8. CASE UNCHANGED vars \/ Recycle \/ Flush \/ \E p \in Process : Crash(p)
  <2>1. UNCHANGED <<sequence, call, dirty>>
    BY <1>8 DEF vars, database, Recycle, Flush, Crash
  <2>2. \A v \in Worker : \/ pc'[v] = pc[v] /\ work'[v] = work[v]
                          \/ pc'[v] = "idle" /\ work'[v].max = 0
    BY <1>8 DEF vars, Recycle, Flush, Crash, Idle
  <2>3. \A v \in Reader : pc'[v] \notin {"max", "delete", "clear"}
    BY <2>2 DEF Marks, Worker
  <2> QED BY <2>1, <2>2, <2>3, Typed, MarksFrame
<1> QED BY <1>1, <1>2, <1>3, <1>4, <1>5, <1>6, <1>7, <1>8 DEF Next, Mark, Worker

LEMMA CurrentKept ==
  ASSUME TypeOK, Marks, CurrentInv, [Next]_vars
  PROVE  CurrentInv'
BY CallCurrent, WorkerCurrent, StepCurrent, FaultCurrent DEF Next, Worker

LEMMA InitCurrent == ASSUME Init PROVE Marks /\ CurrentInv
BY DEF Init, New, Idle, Marks, CurrentInv, Covered

\* While no mark was lost, the published board is current, or a mark, a handler or
\* a worker stands for what it does not show: for any number of teams, calls,
\* workers, processes and faults (refresh_game, rebuild_and_publish).
THEOREM BoardAlwaysCurrent == Spec => []BoardCurrent
<1>1. Init => TypeOK /\ Marks /\ CurrentInv
  BY InitTypeOK, InitCurrent
<1>2. TypeOK /\ Marks /\ CurrentInv /\ [Next]_vars => (TypeOK /\ Marks /\ CurrentInv)'
  BY TypeStep, MarksKept, CurrentKept
<1>3. TypeOK /\ Marks /\ CurrentInv => BoardCurrent
  <2> SUFFICES ASSUME TypeOK, Marks, CurrentInv, lost = {}, latest # None, NEW t \in Team
               PROVE  \/ latest.rows[t] = Board[t] \/ dirty[t] # 0 \/ full = "yes"
                      \/ \E c \in Change : Owes(c, t)
                      \/ \E w \in Worker : Publishing(w, t)
    BY DEF BoardCurrent
  <2>1. Known(t)
    BY DEF CurrentInv
  <2>2. ASSUME NEW m \in Nat, Pending(t, m)
        PROVE  dirty[t] # 0 \/ \E c \in Change : Owes(c, t)
    BY <2>2, Typed DEF Pending, GameOwed, TeamOwed, Owes
  <2>3. ASSUME NEW w \in Worker, Forgets(w)
        PROVE  \/ Publishing(w, t) \/ dirty[t] # 0 \/ full = "yes"
               \/ \E c \in Change : Owes(c, t)
    <3>1. Covered(w) /\ work[w].max \in Nat
      BY Typed DEF CurrentInv, Local
    <3> QED BY <2>2, <2>3, <3>1 DEF Forgets, Covered, Told, Publishing
  <2> QED BY <2>1, <2>2, <2>3 DEF Known
<1> QED BY <1>1, <1>2, <1>3, PTL DEF Spec
=============================================================================
