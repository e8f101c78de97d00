--------------------------- MODULE ServicesProofs ---------------------------
(* Proofs about what serves the whole installation.                         *)
(*   ClusterLease   for any processes, configurations, schema versions and  *)
(*                  durations that meet TimingAssumption                    *)
(*   MCServices     asset uploads, system settings and registration, for    *)
(*                  any connections, workers, files, contents, processes,   *)
(*                  addresses and bounds                                    *)
(*   SyncHub        as MCSyncHub instantiates it, for any hubs, users,      *)
(*                  connections and limits                                  *)
(*   MCParts        backends of puzzles and accounts, for any executions,   *)
(*                  judges, entries, users and browsers                     *)
EXTENDS TLAPS, Integers, Sequences, FiniteSets, FiniteSetTheorems, WellFoundedInduction,
        ClusterLease, MCServices, MCSyncHub, MCParts

-----------------------------------------------------------------------------
\* The process starts from values of the right types.
LEMMA InitTypeOK == Init => TypeOK
  BY TimingAssumption, ConstantAssumption DEF Init, TypeOK, Phase, RenewState, Config

\* Every variable keeps its type: what all the arguments below start from.
THEOREM TypeCorrect == Spec => []TypeOK
<1>1. Init => TypeOK
  BY InitTypeOK
<1>2. TypeOK /\ [Next]_vars => TypeOK'
  <2> SUFFICES ASSUME TypeOK, [Next]_vars
               PROVE  TypeOK'
    OBVIOUS
  <2> USE TimingAssumption, ConstantAssumption DEF TypeOK, Phase, RenewState
  <2>1. CASE UNCHANGED vars
    BY <2>1 DEF vars
  <2>2. CASE Tick
    BY <2>2 DEF Tick, Countdown, gateVars
  <2>3. ASSUME NEW i \in Instance, Step(i)
        PROVE  TypeOK'
    <3>1. CASE Boot(i)
      BY <3>1 DEF Boot, gateVars
    <3>2. CASE AcquireGate(i)
      BY <3>2 DEF AcquireGate
    <3>3. CASE InspectSchema(i)
      BY <3>3 DEF InspectSchema, gateVars
    <3>4. CASE Migrate(i)
      BY <3>4 DEF Migrate
    <3>5. CASE Register(i)
      <4>1. NextBaseline(config[i]) \in [config: Config \cup {None}, generation: Nat]
        BY DEF NextBaseline
      <4>2. NextBaseline(config[i]).generation \in Nat
        BY DEF NextBaseline
      <4>3. CASE RegisterFirst(i)
        BY <3>5, <4>1, <4>2, <4>3 DEF Register, RegisterFirst, InsertRow
      <4>4. CASE RegisterNext(i)
        <5>1. PICK j \in Instance :
                 \/ InsertRow(i, generation[j]) /\ UNCHANGED baseline
                 \/ /\ pc' = [pc EXCEPT ![i] = "refused"]
                    /\ UNCHANGED <<baseline, generation, lease>>
          BY <4>4 DEF RegisterNext, Active
        <5> QED BY <3>5, <5>1 DEF Register, InsertRow
      <4> QED BY <3>5, <4>3, <4>4 DEF Register
    <3>6. CASE ReleaseGate(i)
      BY <3>6 DEF ReleaseGate
    <3>7. CASE StartRenew(i)
      BY <3>7 DEF StartRenew, gateVars
    <3>8. CASE ApplyRenew(i)
      BY <3>8 DEF ApplyRenew, gateVars
    <3>9. CASE ApplyOrphan(i)
      BY <3>9 DEF ApplyOrphan, gateVars
    <3>10. CASE RenewOk(i)
      BY <3>10 DEF RenewOk, gateVars
    <3>11. CASE RenewGone(i)
      BY <3>11 DEF RenewGone, MarkLost, gateVars
    <3>12. CASE RenewFail(i)
      <4>1. CASE MarkLost(i)
        BY <3>12, <4>1 DEF RenewFail, MarkLost, gateVars
      <4>2. CASE timer' = [timer EXCEPT ![i] = RenewRetry] /\ UNCHANGED <<pc, ready, drain>>
        BY <3>12, <4>2 DEF RenewFail, gateVars
      <4> QED BY <3>12, <4>1, <4>2 DEF RenewFail
    <3>13. CASE Admit(i)
      BY <3>13 DEF Admit, gateVars
    <3>14. CASE Respond(i)
      BY <3>14 DEF Respond, gateVars
    <3>15. CASE Terminate(i)
      BY <3>15 DEF Terminate, gateVars
    <3>16. CASE Stop(i)
      BY <3>16 DEF Stop, Exit
    <3>17. CASE Crash(i)
      BY <3>17 DEF Crash, Exit
    <3> QED BY <2>3, <3>1, <3>2, <3>3, <3>4, <3>5, <3>6, <3>7, <3>8, <3>9,
               <3>10, <3>11, <3>12, <3>13, <3>14, <3>15, <3>16, <3>17 DEF Step
  <2> QED BY <2>1, <2>2, <2>3 DEF Next
<1> QED BY <1>1, <1>2, PTL DEF Spec

\* Start-up runs under the gate: at most one process is between the two gate
\* statements of migrate_and_register, and it is the holder.
THEOREM GateIsExclusive == Spec => []GateExclusion
<1>1. Init => GateExclusion
  BY TimingAssumption DEF Init, ShutdownBudget, GateExclusion, Phase, Looping, Leaving, Member, Active
<1>2. TypeOK /\ TypeOK' /\ GateExclusion /\ [Next]_vars => GateExclusion'
  <2> SUFFICES ASSUME TypeOK, TypeOK', GateExclusion, [Next]_vars
               PROVE  GateExclusion'
    OBVIOUS
  <2> USE ConstantAssumption DEF TypeOK, GateExclusion, Phase, Looping, Leaving, Member, Active
  <2>1. CASE UNCHANGED vars
    BY <2>1 DEF vars
  <2>2. CASE Tick
    BY <2>2 DEF Tick, Countdown, gateVars, Looping, Leaving, Member, Active
  <2>3. ASSUME NEW i \in Instance, Step(i)
        PROVE  GateExclusion'
    <3>1. CASE Boot(i)
      BY <3>1 DEF Boot, gateVars
    <3>2. CASE AcquireGate(i)
      BY <3>2 DEF AcquireGate
    <3>3. CASE InspectSchema(i)
      BY <3>3 DEF InspectSchema, gateVars
    <3>4. CASE Migrate(i)
      BY <3>4 DEF Migrate
    <3>5. CASE Register(i)
      BY <3>5 DEF Register, RegisterFirst, RegisterNext, InsertRow
    <3>6. CASE ReleaseGate(i)
      BY <3>6 DEF ReleaseGate
    <3>7. CASE StartRenew(i)
      BY <3>7 DEF StartRenew, gateVars
    <3>8. CASE ApplyRenew(i)
      BY <3>8 DEF ApplyRenew, gateVars
    <3>9. CASE ApplyOrphan(i)
      BY <3>9 DEF ApplyOrphan, gateVars
    <3>10. CASE RenewOk(i)
      BY <3>10 DEF RenewOk, gateVars
    <3>11. CASE RenewGone(i)
      BY <3>11 DEF RenewGone, MarkLost, gateVars
    <3>12. CASE RenewFail(i)
      BY <3>12 DEF RenewFail, MarkLost, gateVars
    <3>13. CASE Admit(i)
      BY <3>13 DEF Admit, gateVars
    <3>14. CASE Respond(i)
      BY <3>14 DEF Respond, gateVars
    <3>15. CASE Terminate(i)
      BY <3>15 DEF Terminate, gateVars
    <3>16. CASE Stop(i)
      BY <3>16 DEF Stop, Exit
    <3>17. CASE Crash(i)
      BY <3>17 DEF Crash, Exit
    <3> QED BY <2>3, <3>1, <3>2, <3>3, <3>4, <3>5, <3>6, <3>7, <3>8, <3>9,
               <3>10, <3>11, <3>12, <3>13, <3>14, <3>15, <3>16, <3>17 DEF Step
  <2> QED BY <2>1, <2>2, <2>3 DEF Next
<1> QED BY <1>1, <1>2, TypeCorrect, PTL DEF Spec

\* Rows appear only at the end of a start-up, and none is live during a migration.
THEOREM RowsOnlyAfterJoin == Spec => []RowsAfterJoin
<1>1. Init => RowsAfterJoin
  BY InitTypeOK DEF Init, TypeOK, RowsAfterJoin, Live
<1>2. TypeOK /\ TypeOK' /\ GateExclusion /\ RowsAfterJoin /\ [Next]_vars => RowsAfterJoin'
  <2> SUFFICES ASSUME TypeOK, TypeOK', GateExclusion, RowsAfterJoin, [Next]_vars
               PROVE  RowsAfterJoin'
    OBVIOUS
  <2> USE DEF TypeOK, RowsAfterJoin, Live, GateExclusion, Active, Looping, Leaving, Member
  <2>1. CASE UNCHANGED vars
    BY <2>1 DEF vars
  <2>2. CASE Tick
    BY <2>2 DEF Tick, Countdown, gateVars, GateExclusion, Active, Looping, Leaving, Member
  <2>3. ASSUME NEW i \in Instance, Step(i)
        PROVE  RowsAfterJoin'
    <3>1. CASE Boot(i)
      BY <3>1 DEF Boot, gateVars
    <3>2. CASE AcquireGate(i)
      BY <3>2 DEF AcquireGate
    <3>3. CASE InspectSchema(i)
      BY <3>3 DEF InspectSchema, gateVars
    <3>4. CASE Migrate(i)
      BY <3>4 DEF Migrate
    <3>5. CASE Register(i)
      BY <3>5 DEF Register, RegisterFirst, RegisterNext, InsertRow
    <3>6. CASE ReleaseGate(i)
      BY <3>6 DEF ReleaseGate
    <3>7. CASE StartRenew(i)
      BY <3>7 DEF StartRenew, gateVars
    <3>8. CASE ApplyRenew(i)
      BY <3>8 DEF ApplyRenew, gateVars
    <3>9. CASE ApplyOrphan(i)
      BY <3>9 DEF ApplyOrphan, gateVars
    <3>10. CASE RenewOk(i)
      BY <3>10 DEF RenewOk, gateVars
    <3>11. CASE RenewGone(i)
      BY <3>11 DEF RenewGone, MarkLost, gateVars
    <3>12. CASE RenewFail(i)
      BY <3>12 DEF RenewFail, MarkLost, gateVars
    <3>13. CASE Admit(i)
      BY <3>13 DEF Admit, gateVars
    <3>14. CASE Respond(i)
      BY <3>14 DEF Respond, gateVars
    <3>15. CASE Terminate(i)
      BY <3>15 DEF Terminate, gateVars
    <3>16. CASE Stop(i)
      BY <3>16 DEF Stop, Exit
    <3>17. CASE Crash(i)
      BY <3>17 DEF Crash, Exit
    <3> QED BY <2>3, <3>1, <3>2, <3>3, <3>4, <3>5, <3>6, <3>7, <3>8, <3>9,
               <3>10, <3>11, <3>12, <3>13, <3>14, <3>15, <3>16, <3>17 DEF Step
  <2> QED BY <2>1, <2>2, <2>3 DEF Next
<1> QED BY <1>1, <1>2, TypeCorrect, GateIsExclusive, PTL DEF Spec

\* Whoever has a live row was built for the schema as it is.
THEOREM SchemaFitsRows == Spec => []SchemaOfRows
<1>1. Init => SchemaOfRows
  BY InitTypeOK DEF Init, TypeOK, SchemaOfRows, Live
<1>2. TypeOK /\ TypeOK' /\ GateExclusion /\ RowsAfterJoin /\ SchemaOfRows /\ [Next]_vars => SchemaOfRows'
  <2> SUFFICES ASSUME TypeOK, TypeOK', GateExclusion, RowsAfterJoin, SchemaOfRows, [Next]_vars
               PROVE  SchemaOfRows'
    OBVIOUS
  <2> USE DEF TypeOK, SchemaOfRows, Live, GateExclusion, RowsAfterJoin, Active, Looping, Leaving, Member
  <2>1. CASE UNCHANGED vars
    BY <2>1 DEF vars
  <2>2. CASE Tick
    BY <2>2 DEF Tick, Countdown, gateVars, GateExclusion, RowsAfterJoin, Active, Looping, Leaving, Member
  <2>3. ASSUME NEW i \in Instance, Step(i)
        PROVE  SchemaOfRows'
    <3>1. CASE Boot(i)
      BY <3>1 DEF Boot, gateVars
    <3>2. CASE AcquireGate(i)
      BY <3>2 DEF AcquireGate
    <3>3. CASE InspectSchema(i)
      BY <3>3 DEF InspectSchema, gateVars
    <3>4. CASE Migrate(i)
      BY <3>4 DEF Migrate
    <3>5. CASE Register(i)
      BY <3>5 DEF Register, RegisterFirst, RegisterNext, InsertRow
    <3>6. CASE ReleaseGate(i)
      BY <3>6 DEF ReleaseGate
    <3>7. CASE StartRenew(i)
      BY <3>7 DEF StartRenew, gateVars
    <3>8. CASE ApplyRenew(i)
      BY <3>8 DEF ApplyRenew, gateVars
    <3>9. CASE ApplyOrphan(i)
      BY <3>9 DEF ApplyOrphan, gateVars
    <3>10. CASE RenewOk(i)
      BY <3>10 DEF RenewOk, gateVars
    <3>11. CASE RenewGone(i)
      BY <3>11 DEF RenewGone, MarkLost, gateVars
    <3>12. CASE RenewFail(i)
      BY <3>12 DEF RenewFail, MarkLost, gateVars
    <3>13. CASE Admit(i)
      BY <3>13 DEF Admit, gateVars
    <3>14. CASE Respond(i)
      BY <3>14 DEF Respond, gateVars
    <3>15. CASE Terminate(i)
      BY <3>15 DEF Terminate, gateVars
    <3>16. CASE Stop(i)
      BY <3>16 DEF Stop, Exit
    <3>17. CASE Crash(i)
      BY <3>17 DEF Crash, Exit
    <3> QED BY <2>3, <3>1, <3>2, <3>3, <3>4, <3>5, <3>6, <3>7, <3>8, <3>9,
               <3>10, <3>11, <3>12, <3>13, <3>14, <3>15, <3>16, <3>17 DEF Step
  <2> QED BY <2>1, <2>2, <2>3 DEF Next
<1> QED BY <1>1, <1>2, TypeCorrect, GateIsExclusive, RowsOnlyAfterJoin, PTL DEF Spec

\* The renewal loop and the shutdown keep the age of the last renewal within the
\* budget, because no timer fires late.
THEOREM AgeIsBounded == Spec => []AgeBound
<1>1. Init => AgeBound
  BY TimingAssumption DEF Init, ShutdownBudget, AgeBound, Phase, RenewState, Looping, Leaving, Member, vars, IsReady
<1>2. TypeOK /\ TypeOK' /\ AgeBound /\ [Next]_vars => AgeBound'
  <2> SUFFICES ASSUME TypeOK, TypeOK', AgeBound, [Next]_vars
               PROVE  AgeBound'
    OBVIOUS
  <2> USE TimingAssumption DEF TypeOK, AgeBound, ShutdownBudget, Phase, RenewState, Looping, Leaving, Member, IsReady
  <2>1. CASE UNCHANGED vars
    BY <2>1 DEF vars
  <2>2. CASE Tick
    BY <2>2 DEF Tick, Countdown, gateVars, vars, IsReady
  <2>3. ASSUME NEW i \in Instance, Step(i)
        PROVE  AgeBound'
    <3>1. CASE Boot(i)
      BY <3>1 DEF Boot, gateVars
    <3>2. CASE AcquireGate(i)
      BY <3>2 DEF AcquireGate
    <3>3. CASE InspectSchema(i)
      BY <3>3 DEF InspectSchema, gateVars
    <3>4. CASE Migrate(i)
      BY <3>4 DEF Migrate
    <3>5. CASE Register(i)
      BY <3>5 DEF Register, RegisterFirst, RegisterNext, InsertRow
    <3>6. CASE ReleaseGate(i)
      BY <3>6 DEF ReleaseGate
    <3>7. CASE StartRenew(i)
      BY <3>7 DEF StartRenew, gateVars
    <3>8. CASE ApplyRenew(i)
      BY <3>8 DEF ApplyRenew, gateVars
    <3>9. CASE ApplyOrphan(i)
      BY <3>9 DEF ApplyOrphan, gateVars
    <3>10. CASE RenewOk(i)
      BY <3>10 DEF RenewOk, gateVars
    <3>11. CASE RenewGone(i)
      BY <3>11 DEF RenewGone, MarkLost, gateVars
    <3>12. CASE RenewFail(i)
      BY <3>12 DEF RenewFail, MarkLost, gateVars
    <3>13. CASE Admit(i)
      BY <3>13 DEF Admit, gateVars
    <3>14. CASE Respond(i)
      BY <3>14 DEF Respond, gateVars
    <3>15. CASE Terminate(i)
      BY <3>15 DEF Terminate, gateVars
    <3>16. CASE Stop(i)
      BY <3>16 DEF Stop, Exit
    <3>17. CASE Crash(i)
      BY <3>17 DEF Crash, Exit
    <3> QED BY <2>3, <3>1, <3>2, <3>3, <3>4, <3>5, <3>6, <3>7, <3>8, <3>9,
               <3>10, <3>11, <3>12, <3>13, <3>14, <3>15, <3>16, <3>17 DEF Step
  <2> QED BY <2>1, <2>2, <2>3 DEF Next
<1> QED BY <1>1, <1>2, TypeCorrect, PTL DEF Spec

\* An answer arrives within RENEW_TIMEOUT of the statement, so that a ready process
\* knows a lower bound of its lease.
THEOREM LeaseIsBounded == Spec => []LeaseBound
<1>1. Init => LeaseBound
  BY TimingAssumption DEF Init, ShutdownBudget, LeaseBound, Phase, RenewState, Looping, Leaving, Member, Live, AgeBound, vars, IsReady
<1>2. TypeOK /\ TypeOK' /\ AgeBound /\ LeaseBound /\ [Next]_vars => LeaseBound'
  <2> SUFFICES ASSUME TypeOK, TypeOK', AgeBound, LeaseBound, [Next]_vars
               PROVE  LeaseBound'
    OBVIOUS
  <2> USE TimingAssumption DEF TypeOK, LeaseBound, ShutdownBudget, Phase, RenewState, Looping, Leaving, Member, Live, AgeBound, IsReady
  <2>1. CASE UNCHANGED vars
    BY <2>1 DEF vars
  <2>2. CASE Tick
    <3> TAKE i \in Instance
    <3>1. /\ lease'[i] + 1 >= lease[i] /\ lease'[i] \in Nat
          /\ Member(i) => age'[i] = age[i] + 1
      BY <2>2 DEF Tick, Countdown
    <3>2. Looping(i) => timer'[i] = timer[i] - 1
      BY <2>2 DEF Tick, Countdown
    <3>3. UNCHANGED <<pc, renew, ready, inflight>>
      BY <2>2 DEF Tick
    <3>4. renew[i] = "renewed" => Looping(i)
      BY DEF AgeBound
    <3> QED BY <3>1, <3>2, <3>3, <3>4
  <2>3. ASSUME NEW i \in Instance, Step(i)
        PROVE  LeaseBound'
    <3>1. CASE Boot(i)
      BY <3>1 DEF Boot, gateVars
    <3>2. CASE AcquireGate(i)
      BY <3>2 DEF AcquireGate
    <3>3. CASE InspectSchema(i)
      BY <3>3 DEF InspectSchema, gateVars
    <3>4. CASE Migrate(i)
      BY <3>4 DEF Migrate
    <3>5. CASE Register(i)
      BY <3>5 DEF Register, RegisterFirst, RegisterNext, InsertRow
    <3>6. CASE ReleaseGate(i)
      BY <3>6 DEF ReleaseGate
    <3>7. CASE StartRenew(i)
      BY <3>7 DEF StartRenew, gateVars
    <3>8. CASE ApplyRenew(i)
      BY <3>8 DEF ApplyRenew, gateVars
    <3>9. CASE ApplyOrphan(i)
      BY <3>9 DEF ApplyOrphan, gateVars
    <3>10. CASE RenewOk(i)
      BY <3>10 DEF RenewOk, gateVars
    <3>11. CASE RenewGone(i)
      BY <3>11 DEF RenewGone, MarkLost, gateVars
    <3>12. CASE RenewFail(i)
      BY <3>12 DEF RenewFail, MarkLost, gateVars
    <3>13. CASE Admit(i)
      BY <3>13 DEF Admit, gateVars
    <3>14. CASE Respond(i)
      BY <3>14 DEF Respond, gateVars
    <3>15. CASE Terminate(i)
      BY <3>15 DEF Terminate, gateVars
    <3>16. CASE Stop(i)
      BY <3>16 DEF Stop, Exit
    <3>17. CASE Crash(i)
      BY <3>17 DEF Crash, Exit
    <3> QED BY <2>3, <3>1, <3>2, <3>3, <3>4, <3>5, <3>6, <3>7, <3>8, <3>9,
               <3>10, <3>11, <3>12, <3>13, <3>14, <3>15, <3>16, <3>17 DEF Step
  <2> QED BY <2>1, <2>2, <2>3 DEF Next
<1> QED BY <1>1, <1>2, TypeCorrect, AgeIsBounded, PTL DEF Spec

\* All active instances are of one deployment, and a single instance is alone.
THEOREM OneDeployment == Spec => []SameDeployment
<1>1. Init => SameDeployment
  BY TimingAssumption DEF Init, ShutdownBudget, SameDeployment, Live, Active, GateExclusion, RowsAfterJoin, Looping, Leaving, Member
<1>2. TypeOK /\ TypeOK' /\ GateExclusion /\ RowsAfterJoin /\ SameDeployment /\ [Next]_vars => SameDeployment'
  <2> SUFFICES ASSUME TypeOK, TypeOK', GateExclusion, RowsAfterJoin, SameDeployment, [Next]_vars
               PROVE  SameDeployment'
    OBVIOUS
  <2> USE DEF TypeOK, SameDeployment, Live, Active, GateExclusion, RowsAfterJoin, Looping, Leaving, Member
  <2>1. CASE UNCHANGED vars
    BY <2>1 DEF vars
  <2>2. CASE Tick
    BY <2>2 DEF Tick, Countdown, gateVars, GateExclusion, RowsAfterJoin, Looping, Leaving, Member
  <2>3. ASSUME NEW i \in Instance, Step(i)
        PROVE  SameDeployment'
    <3>1. CASE Boot(i)
      BY <3>1 DEF Boot, gateVars
    <3>2. CASE AcquireGate(i)
      BY <3>2 DEF AcquireGate
    <3>3. CASE InspectSchema(i)
      BY <3>3 DEF InspectSchema, gateVars
    <3>4. CASE Migrate(i)
      BY <3>4 DEF Migrate
    <3>5. CASE Register(i)
      <4>1. ~Live(i) /\ pc[i] = "joining"
        BY <3>5 DEF Register, RowsAfterJoin
      <4>2. CASE RegisterFirst(i)
        BY <3>5, <4>1, <4>2, TimingAssumption DEF Register, RegisterFirst, InsertRow, NextBaseline
      <4>3. CASE RegisterNext(i)
        BY <3>5, <4>1, <4>3 DEF Register, RegisterNext, InsertRow, Unjoinable
      <4> QED BY <3>5, <4>2, <4>3 DEF Register
    <3>6. CASE ReleaseGate(i)
      BY <3>6 DEF ReleaseGate
    <3>7. CASE StartRenew(i)
      BY <3>7 DEF StartRenew, gateVars
    <3>8. CASE ApplyRenew(i)
      BY <3>8 DEF ApplyRenew, gateVars
    <3>9. CASE ApplyOrphan(i)
      BY <3>9 DEF ApplyOrphan, gateVars
    <3>10. CASE RenewOk(i)
      BY <3>10 DEF RenewOk, gateVars
    <3>11. CASE RenewGone(i)
      BY <3>11 DEF RenewGone, MarkLost, gateVars
    <3>12. CASE RenewFail(i)
      BY <3>12 DEF RenewFail, MarkLost, gateVars
    <3>13. CASE Admit(i)
      BY <3>13 DEF Admit, gateVars
    <3>14. CASE Respond(i)
      BY <3>14 DEF Respond, gateVars
    <3>15. CASE Terminate(i)
      BY <3>15 DEF Terminate, gateVars
    <3>16. CASE Stop(i)
      BY <3>16 DEF Stop, Exit
    <3>17. CASE Crash(i)
      BY <3>17 DEF Crash, Exit
    <3> QED BY <2>3, <3>1, <3>2, <3>3, <3>4, <3>5, <3>6, <3>7, <3>8, <3>9,
               <3>10, <3>11, <3>12, <3>13, <3>14, <3>15, <3>16, <3>17 DEF Step
  <2> QED BY <2>1, <2>2, <2>3 DEF Next
<1> QED BY <1>1, <1>2, TypeCorrect, GateIsExclusive, RowsOnlyAfterJoin, PTL DEF Spec

\* The shutdown budget is enough: while a process serves a request or runs its
\* background tasks its row is live.
THEOREM WorksUnderLease == Spec => []WorkUnderLease
<1>1. TypeOK /\ AgeBound /\ LeaseBound => WorkUnderLease
  BY TimingAssumption DEF TypeOK, AgeBound, LeaseBound, WorkUnderLease, Working,
     Live, Looping, Leaving, Member, ShutdownBudget, Phase, RenewState
<1> QED BY <1>1, TypeCorrect, AgeIsBounded, LeaseIsBounded, PTL

\* Hence nobody works during a migration or on a schema of another build.
THEOREM WorksOnOwnSchema == Spec => []WorkOnOwnSchema
<1>1. WorkUnderLease /\ RowsAfterJoin /\ SchemaOfRows => WorkOnOwnSchema
  BY DEF WorkUnderLease, RowsAfterJoin, SchemaOfRows, WorkOnOwnSchema, Active
<1> QED BY <1>1, WorksUnderLease, RowsOnlyAfterJoin, SchemaFitsRows, PTL

\* Only the registration of a process gives its row a lease: the renewals, the
\* abandoned ones included, cannot bring an expired or deleted row back.
THEOREM LeasesStayDead == Spec => NoResurrection
<1>1. TypeOK /\ [Next]_vars =>
        [\A i \in Instance : lease[i] = 0 /\ lease'[i] > 0 => pc[i] = "joining"]_vars
  <2> SUFFICES ASSUME TypeOK, Next, NEW i \in Instance, lease[i] = 0, lease'[i] > 0
               PROVE  pc[i] = "joining"
    BY DEF vars
  <2>1. lease'[i] # lease[i]
    BY DEF TypeOK
  <2>2. ~Tick
    BY <2>1 DEF Tick, Countdown
  <2>3. PICK j \in Instance : Step(j)
    BY <2>2 DEF Next
  <2>4. ~Live(i)
    BY DEF Live
  <2>5. CASE Register(j)
    BY <2>1, <2>5 DEF Register, RegisterFirst, RegisterNext, InsertRow, TypeOK
  <2>6. CASE Stop(j)
    BY <2>1, <2>6 DEF Stop, TypeOK
  <2>7. CASE ApplyRenew(j) \/ ApplyOrphan(j)
    BY <2>1, <2>4, <2>7 DEF ApplyRenew, ApplyOrphan, TypeOK
  <2>8. CASE UNCHANGED lease
    BY <2>1, <2>8
  <2>9. Register(j) \/ Stop(j) \/ ApplyRenew(j) \/ ApplyOrphan(j) \/ UNCHANGED lease
    BY <2>3 DEF Step, Boot, AcquireGate, InspectSchema, Migrate, ReleaseGate, StartRenew,
       RenewOk, RenewGone, RenewFail, Admit, Respond, Terminate, Crash
  <2> QED BY <2>5, <2>6, <2>7, <2>8, <2>9
<1> QED BY <1>1, TypeCorrect, PTL DEF Spec, NoResurrection

-----------------------------------------------------------------------------
(* Asset uploads: AssetUpload, for any connections, workers, files and      *)
(* contents.                                                                *)
\* The names of the component that the arguments below are about.
UploadAssumption == Upload!ConstantAssumption
UploadNext  == Upload!Next
Uploader    == Upload!Caller
UploadPhase == Upload!Phase
UploadState == Upload!State
UploadFile  == Upload!FileState
Editing     == Upload!Editing
Judging     == Upload!Judging
Cleaning    == Upload!Cleaning
NoUpload    == Upload!NoRow
Resting     == Upload!NoCall
OpenParts(f) == Upload!Open(f)
UploadWithFile(r, f, x) == Upload!WithFile(r, f, x)
UploadGoto(c, p, r) == Upload!Goto(c, p, r)
UploadRow   == [state: UploadState, files: [File -> UploadFile], expires: 0..MaxDay + 1]
UploadCall  == [pc: UploadPhase, row: UploadRow, file: File \cup {Nil}]
Part        == [open: BOOLEAN, part: Content \cup {Nil}]

\* The types; and the bound of the model on multipart uploads is never passed.
UploadTypes ==
  /\ row \in UploadRow /\ group \in {"none", "registered", "deleted"}
  /\ lock \in Uploader \cup {Nil} /\ rowLock \in Worker \cup {Nil, "in flight"}
  /\ call \in [Uploader -> UploadCall]
  /\ multi \in [File -> Seq(Part)] /\ \A f \in File : Len(multi[f]) <= MaxMultipart
  /\ object \in [File -> Content \cup {Nil}]
  /\ day \in 0..MaxDay /\ faults \in 0..MaxFaults
  /\ overtaken \in BOOLEAN /\ lost \in BOOLEAN

\* A function on 1 .. n is a sequence of that length.
LEMMA SequenceIs ==
  ASSUME NEW T, NEW n \in Nat, NEW s \in [1..n -> T]
  PROVE  s \in Seq(T) /\ Len(s) = n
  OBVIOUS

LEMMA UploadSets ==
  /\ Upload!Row = UploadRow
  /\ Upload!TypeOK /\ (\A f \in File : Len(multi[f]) <= MaxMultipart) <=> UploadTypes
<1>1. Upload!Row = UploadRow
  BY Zenon DEF Upload!Row, UploadRow, UploadState, UploadFile
<1> QED
  BY <1>1, Zenon DEF Upload!TypeOK, UploadTypes, UploadCall, Part, Uploader, UploadPhase

LEMMA UploadBounds ==
  ASSUME UploadAssumption
  PROVE  Life \in Nat /\ MaxDay \in Nat /\ MaxMultipart \in Nat /\ MaxFaults \in Nat
<1>1. {Life, MaxDay, MaxMultipart, MaxFaults} \subseteq Nat
  BY Zenon DEF UploadAssumption, Upload!ConstantAssumption
<1> QED BY <1>1

LEMMA UploadNames ==
  ASSUME UploadAssumption
  PROVE  /\ Request \cap Worker = {} /\ Uploader = Request \cup Worker
         /\ Nil \notin Uploader \cup Content /\ "in flight" \notin Uploader \cup {Nil}
  BY DEF UploadAssumption, Upload!ConstantAssumption, Uploader, Upload!Caller

\* Rows: what becomes of their fields.
LEMMA FileRow ==
  ASSUME NEW r \in UploadRow, NEW f \in File, NEW x \in UploadFile
  PROVE  /\ Upload!WithFile(r, f, x) \in UploadRow
         /\ Upload!WithFile(r, f, x).files = [r.files EXCEPT ![f] = x]
         /\ Upload!WithFile(r, f, x).state = r.state
  BY DEF Upload!WithFile, UploadRow

LEMMA StateRow ==
  ASSUME NEW r \in UploadRow, NEW s \in UploadState
  PROVE  /\ [r EXCEPT !.state = s] \in UploadRow
         /\ [r EXCEPT !.state = s].files = r.files
         /\ [r EXCEPT !.state = s].state = s
         /\ [r EXCEPT !.state = s].expires = r.expires
  BY DEF UploadRow

LEMMA TouchedRow ==
  ASSUME UploadAssumption, day \in 0..MaxDay, NEW r \in UploadRow
  PROVE  /\ Upload!Touched(r) \in UploadRow
         /\ Upload!Touched(r).files = r.files
         /\ Upload!Touched(r).state = r.state
<1>1. Life \in Nat /\ MaxDay \in Nat
  BY UploadBounds
<1>2. (IF day + 1 < Life THEN day + 1 ELSE Life) \in 0..MaxDay + 1
  BY <1>1
<1> QED BY <1>2 DEF Upload!Touched, UploadRow

LEMMA EmptyRow ==
  ASSUME UploadAssumption
  PROVE  /\ NoUpload \in UploadRow /\ Upload!NoFile \in UploadFile
         /\ NoUpload.state = "none" /\ NoUpload.files = [f \in File |-> Upload!NoFile]
         /\ Resting \in UploadCall /\ Resting.pc = "idle" /\ Resting.row = NoUpload
         /\ Resting.file = Nil
<1>0. MaxDay \in Nat /\ MaxMultipart \in Nat
  BY UploadBounds
<1>1. 0 \in 0..MaxMultipart /\ 0 \in 0..MaxDay + 1
  BY <1>0
<1>2. Upload!NoFile \in UploadFile
  BY <1>1 DEF Upload!NoFile, UploadFile, Upload!FileState
<1>3. NoUpload = [state |-> "none", files |-> [f \in File |-> Upload!NoFile], expires |-> 0]
  BY Zenon DEF NoUpload, Upload!NoRow
<1>4. "none" \in UploadState /\ "idle" \in UploadPhase
  BY DEF UploadState, Upload!State, UploadPhase, Upload!Phase
<1>5. [f \in File |-> Upload!NoFile] \in [File -> UploadFile]
  BY <1>2, Zenon
<1> DEFINE none == [f \in File |-> Upload!NoFile]
<1> HIDE DEF none
<1>6. /\ [state |-> "none", files |-> none, expires |-> 0] \in UploadRow
      /\ [state |-> "none", files |-> none, expires |-> 0].state = "none"
      /\ [state |-> "none", files |-> none, expires |-> 0].files = none
  <2>1. none \in [File -> UploadFile]
    BY <1>5, Zenon DEF none
  <2> QED BY <1>1, <1>4, <2>1 DEF UploadRow
<1>7. /\ NoUpload \in UploadRow /\ NoUpload.state = "none"
      /\ NoUpload.files = [f \in File |-> Upload!NoFile]
  BY <1>3, <1>6, Zenon DEF none
<1>8. Resting = [pc |-> "idle", row |-> NoUpload, file |-> Nil]
  BY Zenon DEF Resting, Upload!NoCall, NoUpload
<1> HIDE DEF none
<1>9. Resting \in UploadCall /\ Resting.pc = "idle" /\ Resting.row = NoUpload /\ Resting.file = Nil
  BY <1>4, <1>7, <1>8, Zenon DEF UploadCall
<1> QED BY <1>2, <1>7, <1>9, Zenon

-----------------------------------------------------------------------------
(* The inductive invariant.                                                *)

\* The row of a file is written in this order: upload, digest, completion.
UploadWhole(r) == \A f \in File :
  /\ r.files[f].complete => r.files[f].completing
  /\ r.files[f].completing => r.files[f].sha # Nil /\ r.files[f].upload # 0
  /\ r.files[f].upload <= Len(multi[f])

\* The multipart upload of a file never changes once the row names one.
UploadKeeps(r) == \A f \in File :
  row.files[f].upload # 0 => r.files[f].upload = row.files[f].upload

\* What a request that completes a file knows of it, with or without the lock.
UploadFinishing(k) ==
  /\ k.pc \in {"initiate", "completing", "finish", "head"} => k.file \in File
  /\ k.pc = "initiate" => k.row.files[k.file].upload = 0
  /\ k.pc \in {"completing", "finish", "head"} =>
       /\ k.row.files[k.file].completing
       /\ row.files[k.file].upload = k.row.files[k.file].upload

\* The copy of who holds the lock is what the row was when it took the lock.
UploadCopy(k) ==
  /\ k.pc # "idle"
  /\ k.pc \in Editing =>
       row.state = "Uploading" /\ k.row.state = "Uploading" /\ UploadKeeps(k.row)
  /\ k.pc \notin Editing => k.row.files = row.files
  /\ k.pc = "confirm" => row.state \in {"Uploading", "Failed"} /\ k.row.state = "Confirming"
  /\ k.pc = "cancel" => row.state \notin {"none", "Complete"} /\ k.row.state = "Cancelled"
  /\ k.pc \in Judging => row.state \in {"Confirming", "Complete"}
  /\ k.pc = "failed" => row.state = "Confirming" /\ k.row.state = "Failed"
  /\ k.pc \in Cleaning => row.state \in {"Cancelled", "Uploading", "Failed"}

\* An object comes from the upload that its row names, which it has closed.
UploadOrigin == \A f \in File :
  object[f] # Nil => row.files[f].upload # 0 /\ row.files[f].upload \notin OpenParts(f)

\* A worker registers what was confirmed and has the files of the row, lock or not.
UploadJudged ==
  /\ \A w \in Uploader : call[w].pc \in Judging => call[w].row.files = row.files
  /\ rowLock # Nil \/ (\E w \in Uploader : call[w].pc \in Judging)
       => row.state \notin {"none", "Uploading"}

\* The session is waiting for its worker, or its owner may still complete it again.
UploadAlive ==
  \/ row.state = "Confirming"
  \/ /\ row.state = "Failed"
     /\ row.expires > day \/ \E c \in Uploader : lock = c /\ call[c].pc = "confirm"

\* Nothing can revive a session that somebody has begun to clean up.
UploadDoomed ==
  \/ row.state \in {"Cancelled", "Cleaned"}
  \/ row.state \in {"Uploading", "Failed"} /\ row.expires <= day

UploadCleaning ==
  (\E w \in Uploader : call[w].pc \in Cleaning) =>
    /\ UploadDoomed
    /\ \A c \in Uploader : lock = c => call[c].pc = "cancel" \/ call[c].pc \in Cleaning

UploadKept == \A f \in File : row.files[f].complete /\ object[f] = row.files[f].sha

\* What was verified stays so for as long as it may be registered as it is.
UploadVerified ==
  (rowLock = "in flight" \/ \E w \in Uploader : call[w].pc \in {"register", "commit"})
    => (UploadAlive => UploadKept)

UploadCommits == \A w \in Uploader : call[w].pc = "commit" <=> rowLock = w

UploadRegistered == group = "registered" => row.state = "Complete" /\ UploadKept

UploadFresh == row.state = "none" => row.files = NoUpload.files

UploadCalls == \A c \in Uploader :
  /\ UploadWhole(call[c].row) /\ UploadFinishing(call[c])
  /\ lock = c => UploadCopy(call[c])

\* What holds until a registration surprises somebody.
UploadCoherent ==
  /\ UploadWhole(row) /\ UploadCalls /\ UploadOrigin /\ UploadJudged /\ UploadCleaning
  /\ UploadVerified /\ UploadCommits /\ UploadRegistered /\ UploadFresh

\* While no lock is lost, one caller acts at a time; nobody has a copy of a cleaned session.
UploadAlone ==
  /\ \A c \in Uploader : call[c].row.state # "Cleaned"
  /\ \A c \in Uploader : call[c].pc # "idle" => lock = c
  /\ \A c \in Uploader : call[c].pc = "delete" => \A f \in File : OpenParts(f) = {}
  /\ row.state = "Cleaned" => /\ \A c \in Uploader : call[c].pc = "idle"
                              /\ \A f \in File : object[f] = Nil /\ OpenParts(f) = {}

UploadInv == UploadTypes /\ (~overtaken => UploadCoherent) /\ (~lost => UploadAlone)

\* The kinds of work are apart.
LEMMA UploadKinds ==
  /\ Editing = {"initiate", "part", "list", "completing", "finish", "head"}
  /\ Judging = {"verify", "register", "commit", "reread", "failed"}
  /\ Cleaning = {"abort", "delete"}
  BY Zenon DEF Editing, Judging, Cleaning, Upload!Editing, Upload!Judging, Upload!Cleaning

\* An answer leaves nothing to be known of its caller.
LEMMA RestingWhole ==
  ASSUME UploadAssumption, UploadTypes
  PROVE  /\ UploadWhole(Resting.row)
         /\ UploadFinishing(Resting) /\ UploadFinishing(Resting)'
<1>1. /\ Resting.pc = "idle" /\ Resting.row.files = [f \in File |-> Upload!NoFile]
  BY EmptyRow, Zenon
<1>2. \A f \in File : Resting.row.files[f] = Upload!NoFile
  BY <1>1, Zenon
<1>3. /\ Upload!NoFile.upload = 0 /\ Upload!NoFile.complete = FALSE
      /\ Upload!NoFile.completing = FALSE
  BY DEF Upload!NoFile
<1>4. \A f \in File : /\ Resting.row.files[f].upload = 0 /\ ~Resting.row.files[f].complete
                       /\ ~Resting.row.files[f].completing
  BY <1>2, <1>3, Zenon
<1>5. \A f \in File : Len(multi[f]) \in Nat
  <2>1. multi \in [File -> Seq(Part)]
    BY Zenon DEF UploadTypes
  <2> QED BY <2>1
<1> QED BY <1>1, <1>4, <1>5 DEF UploadWhole, UploadFinishing

\* A call changes, the lock with it, and what is stored stays.
UploadAdmissible(c, k) ==
  /\ UploadWhole(k.row) /\ UploadFinishing(k)
  /\ k.pc \in Judging => k.row.files = row.files /\ row.state \notin {"none", "Uploading"}
  /\ k.pc = "confirm" /\ row.state = "Failed" => row.expires > day
  /\ k.pc \in Cleaning => UploadDoomed /\ lock = Nil
  /\ (\E w \in Uploader : call[w].pc \in Cleaning) /\ k.pc # "idle" /\ lock' = c
       => k.pc = "cancel" \/ k.pc \in Cleaning

LEMMA UploadCallChanges ==
  ASSUME UploadAssumption, UploadTypes, UploadCoherent, NEW c \in Uploader,
         NEW k \in UploadCall,
         UNCHANGED <<row, group, multi, object, day>>, call' = [call EXCEPT ![c] = k],
         UploadAdmissible(c, k),
         \/ k.pc = "idle" /\ lock' = (IF lock = c THEN Nil ELSE lock)
         \/ k.pc # "idle" /\ lock = Nil /\ lock' = c /\ UploadCopy(k)
         \/ k.pc # "idle" /\ lock' = lock /\ (lock = c => UploadCopy(k)),
         rowLock' \in {rowLock, Nil} \/ call[c].pc \in Judging,
         k.pc = "commit" <=> rowLock' = c,
         \A w \in Uploader : w # c => (rowLock' = w <=> rowLock = w),
         rowLock' = "in flight" \/ k.pc \in {"register", "commit"} => (UploadAlive => UploadKept)
  PROVE  UploadCoherent'
<1>0. Nil \notin Uploader
  BY UploadNames
<1> USE DEF UploadTypes
<1>1. /\ \A d \in Uploader : call'[d] = IF d = c THEN k ELSE call[d]
      /\ row' = row /\ group' = group /\ multi' = multi /\ object' = object /\ day' = day
  BY DEF UploadCall
<1>2. \A r : UploadWhole(r)' <=> UploadWhole(r)
  BY <1>1 DEF UploadWhole
<1>3. \A l : UploadFinishing(l)' <=> UploadFinishing(l)
  BY <1>1 DEF UploadFinishing
<1>4. \A l : UploadCopy(l)' <=> UploadCopy(l)
  BY <1>1 DEF UploadCopy, UploadKeeps
<1>5. UploadKept' <=> UploadKept
  BY <1>1 DEF UploadKept
<1>6. UploadDoomed' <=> UploadDoomed
  BY <1>1 DEF UploadDoomed
<1>7. \A d \in Uploader : lock' = d /\ d # c => lock = d
  BY <1>0
<1>8. UploadAlive' => UploadAlive
  <2>1. CASE \E d \in Uploader : lock' = d /\ call'[d].pc = "confirm"
    <3>1. PICK d \in Uploader : lock' = d /\ call'[d].pc = "confirm"
      BY <2>1
    <3>2. row.state = "Failed" /\ d = c => row.expires > day
      BY <1>1, <3>1 DEF UploadAdmissible
    <3>3. d # c => lock = d /\ call[d].pc = "confirm"
      BY <1>1, <1>7, <3>1
    <3> QED BY <1>1, <3>2, <3>3 DEF UploadAlive
  <2>2. CASE ~ \E d \in Uploader : lock' = d /\ call'[d].pc = "confirm"
    BY <1>1, <2>2 DEF UploadAlive
  <2> QED BY <2>1, <2>2
<1> HIDE DEF UploadTypes
<1>9. UploadWhole(row)'
  BY <1>1, <1>2 DEF UploadCoherent, UploadWhole
<1>10. UploadCalls'
  BY <1>0, <1>1, <1>2, <1>3, <1>4, <1>7 DEF UploadCalls, UploadCoherent, UploadAdmissible
<1>11. UploadOrigin'
  <2>1. \A f \in File : OpenParts(f)' = OpenParts(f)
    BY <1>1 DEF OpenParts, Upload!Open
  <2> QED BY <1>1, <2>1 DEF UploadOrigin, UploadCoherent
<1>12. UploadJudged'
  BY <1>1 DEF UploadJudged, UploadCoherent, UploadAdmissible
<1>13. UploadCleaning'
  <2>1. k.pc = "idle" => lock' # c
    BY <1>0
  <2> QED BY <1>0, <1>1, <1>6, <1>7, <2>1 DEF UploadCleaning, UploadCoherent, UploadAdmissible
<1>14. UploadVerified'
  BY <1>1, <1>5, <1>8 DEF UploadVerified, UploadCoherent
<1>15. UploadCommits'
  BY <1>1 DEF UploadCommits, UploadCoherent
<1>16. UploadRegistered'
  BY <1>1, <1>5 DEF UploadRegistered, UploadCoherent
<1>17. UploadFresh'
  BY <1>1 DEF UploadFresh, UploadCoherent
<1> QED
  BY <1>9, <1>10, <1>11, <1>12, <1>13, <1>14, <1>15, <1>16, <1>17 DEF UploadCoherent

\* The holder of the lock writes the row from its copy; a request that completes a
\* file goes on with the lock, the others answer.
LEMMA UploadRowChanges ==
  ASSUME UploadAssumption, UploadTypes, UploadCoherent, NEW c \in Uploader,
         NEW k \in UploadCall, NEW r \in UploadRow, lock = c, rowLock = Nil,
         UNCHANGED <<group, rowLock, multi, object, day>>,
         row' = r, call' = [call EXCEPT ![c] = k],
         UploadWhole(r), UploadWhole(k.row), UploadFinishing(k)', UploadKeeps(r),
         \/ k.pc = "idle" /\ lock' = Nil
         \/ k.pc \in Editing /\ lock' = c /\ r.state = "Uploading" /\ UploadCopy(k)',
         \/ r.state = "Uploading" /\ call[c].pc \in Editing
         \/ /\ r.files = row.files /\ k.pc = "idle"
            /\ \/ r.state = "Confirming" /\ call[c].pc = "confirm"
               \/ r.state = "Cancelled" /\ call[c].pc = "cancel"
               \/ r.state = "Failed" /\ call[c].pc = "failed"
               \/ r.state = "Cleaned" /\ call[c].pc \in Cleaning
  PROVE  UploadCoherent'
<1>0. Nil \notin Uploader /\ "in flight" # Nil
  BY UploadNames
<1>1. /\ \A d \in Uploader : call'[d] = IF d = c THEN k ELSE call[d]
      /\ row' = r /\ group' = group /\ multi' = multi /\ object' = object /\ day' = day
      /\ rowLock' = Nil /\ rowLock = Nil /\ \A d \in Uploader : lock' = d => d = c
  BY <1>0 DEF UploadCall, UploadTypes
<1>2. \A x : UploadWhole(x)' <=> UploadWhole(x)
  BY <1>1 DEF UploadWhole
<1>3. UploadCopy(call[c]) /\ UploadCalls /\ UploadWhole(row)
  BY DEF UploadCoherent, UploadCalls
<1>4. UploadWhole(row)'
  BY <1>1, <1>2 DEF UploadWhole
<1>5. UploadCalls'
  <2> SUFFICES ASSUME NEW d \in Uploader
               PROVE  /\ UploadWhole(call[d].row)' /\ UploadFinishing(call[d])'
                      /\ lock' = d => UploadCopy(call[d])'
    BY DEF UploadCalls
  <2>1. CASE d = c
    <3>1. call'[d] = k
      BY <1>1, <2>1
    <3>2. UploadFinishing(call[d])'
      BY <3>1 DEF UploadFinishing
    <3>3. k.pc # "idle" => UploadCopy(call[d])'
      BY <3>1 DEF UploadCopy, UploadKeeps
    <3>4. lock' = d => k.pc # "idle"
      BY <1>0, <2>1, UploadKinds
    <3> QED BY <1>2, <3>1, <3>2, <3>3, <3>4
  <2>2. CASE d # c
    <3>1. call'[d] = call[d] /\ lock' # d
      BY <1>1, <2>2
    <3>2. UploadWhole(call[d].row) /\ UploadFinishing(call[d])
      BY <1>3 DEF UploadCalls
    <3>3. UploadFinishing(call[d])'
      <4>1. CASE call[d].pc \in {"completing", "finish", "head"}
        <5>1. call[d].file \in File
          BY <3>2, <4>1 DEF UploadFinishing
        <5>2. row.files[call[d].file].upload # 0
          BY <3>2, <4>1, <5>1 DEF UploadFinishing, UploadWhole
        <5>3. r.files[call[d].file].upload = row.files[call[d].file].upload
          BY <5>1, <5>2 DEF UploadKeeps
        <5> QED BY <1>1, <3>1, <3>2, <4>1, <5>3 DEF UploadFinishing
      <4>2. CASE call[d].pc \notin {"completing", "finish", "head"}
        BY <3>1, <3>2, <4>2 DEF UploadFinishing
      <4> QED BY <4>1, <4>2
    <3> QED BY <1>2, <3>1, <3>2, <3>3
  <2> QED BY <2>1, <2>2
<1>6. UploadOrigin'
  <2>1. \A f \in File : OpenParts(f)' = OpenParts(f)
    BY <1>1 DEF OpenParts, Upload!Open
  <2> QED BY <1>1, <2>1 DEF UploadOrigin, UploadCoherent, UploadKeeps
<1>7. k.pc = "idle" \/ k.pc \in Editing
  OBVIOUS
<1>8. UploadJudged'
  BY <1>1, <1>3, <1>7, UploadKinds DEF UploadJudged, UploadCoherent, UploadCopy
<1>9. UploadCleaning'
  <2> SUFFICES ASSUME NEW w \in Uploader, call'[w].pc \in Cleaning
               PROVE  /\ UploadDoomed'
                      /\ \A d \in Uploader : lock' = d =>
                           call'[d].pc = "cancel" \/ call'[d].pc \in Cleaning
    BY DEF UploadCleaning
  <2>1. call[w].pc \in Cleaning /\ w # c
    BY <1>1, <1>7, UploadKinds
  <2>2. call[c].pc = "cancel" \/ call[c].pc \in Cleaning
    BY <2>1 DEF UploadCoherent, UploadCleaning
  <2>3. r.state \in {"Cancelled", "Cleaned"} /\ k.pc = "idle"
    BY <2>2, UploadKinds
  <2>4. UploadDoomed'
    BY <1>1, <2>3 DEF UploadDoomed
  <2>5. lock' = Nil
    BY <2>3, UploadKinds
  <2> QED BY <1>0, <2>4, <2>5
<1>10. UploadVerified'
  <2> SUFFICES ASSUME (rowLock = "in flight" \/ \E w \in Uploader : call[w].pc \in {"register", "commit"})',
                      UploadAlive'
               PROVE  UploadKept'
    BY DEF UploadVerified
  <2>1. \E w \in Uploader : call[w].pc \in {"register", "commit"}
    BY <1>0, <1>1, <1>7, UploadKinds
  <2>2. row.state \notin {"none", "Uploading"}
    BY <2>1, UploadKinds DEF UploadCoherent, UploadJudged
  <2>3. r.files = row.files
    BY <1>3, <2>2 DEF UploadCopy
  <2>4. UploadAlive
    BY <1>1, <1>3, <2>2, UploadKinds DEF UploadAlive, UploadCopy
  <2>5. UploadKept
    BY <2>1, <2>4 DEF UploadCoherent, UploadVerified
  <2> QED BY <1>1, <2>3, <2>5 DEF UploadKept
<1>11. UploadCommits'
  BY <1>1, <1>7, UploadKinds DEF UploadCommits, UploadCoherent
<1>12. UploadRegistered'
  BY <1>1, <1>3, UploadKinds DEF UploadRegistered, UploadCoherent, UploadCopy
<1>13. UploadFresh'
  BY <1>1 DEF UploadFresh
<1> QED
  BY <1>4, <1>5, <1>6, <1>8, <1>9, <1>10, <1>11, <1>12, <1>13 DEF UploadCoherent

\* What is confirmed is registered, by the worker that has verified it or by the
\* transaction that outlived its worker.
LEMMA UploadRegisters ==
  ASSUME UploadAssumption, UploadTypes, UploadCoherent, NEW r \in UploadRow,
         UNCHANGED <<multi, object, day>>, group' = "registered", rowLock' = Nil,
         row' = r, r.files = row.files, r.state = "Complete", row.state = "Confirming",
         \A d \in Uploader : lock = d => call[d].pc \notin {"cancel", "failed"},
         \A d \in Uploader : lock' = d => lock = d /\ call'[d] = call[d],
         \A d \in Uploader : call'[d] \in {call[d], Resting},
         \/ rowLock = "in flight"
         \/ \E c \in Uploader : call[c].pc = "commit" /\ call'[c] = Resting
  PROVE  UploadCoherent'
<1>1. /\ Resting.pc = "idle" /\ Resting.row.files = [f \in File |-> Upload!NoFile]
      /\ "in flight" \notin Uploader
  BY EmptyRow, UploadNames, Zenon
<1>2. \A x : UploadWhole(x)' <=> UploadWhole(x)
  BY DEF UploadWhole
<1>3. UploadWhole(row) /\ UploadCalls
  BY DEF UploadCoherent
<1>4. UploadWhole(row)'
  BY <1>2, <1>3 DEF UploadWhole
<1>5. UploadCalls'
  <2> SUFFICES ASSUME NEW d \in Uploader
               PROVE  /\ UploadWhole(call[d].row)' /\ UploadFinishing(call[d])'
                      /\ lock' = d => UploadCopy(call[d])'
    BY DEF UploadCalls
  <2>1. CASE call'[d] = call[d]
    <3>1. UploadWhole(call[d].row) /\ UploadFinishing(call[d])
      BY <1>3 DEF UploadCalls
    <3>2. UploadFinishing(call[d])'
      BY <2>1, <3>1 DEF UploadFinishing
    <3>3. lock = d => UploadCopy(call[d])'
      BY <1>3, <2>1, UploadKinds DEF UploadCalls, UploadCopy
    <3> QED BY <1>2, <2>1, <3>1, <3>2, <3>3
  <2>2. CASE call'[d] = Resting
    <3>1. UploadWhole(Resting.row)
      BY Zenon, RestingWhole
    <3>2. UploadFinishing(call[d])'
      BY <1>1, <2>2 DEF UploadFinishing
    <3>3. lock' = d => UploadCopy(call[d])'
      BY <1>1, <1>3, <2>2 DEF UploadCalls, UploadCopy
    <3> QED BY <1>2, <2>2, <3>1, <3>2, <3>3
  <2> QED BY <2>1, <2>2
<1>6. UploadOrigin'
  <2>1. \A f \in File : OpenParts(f)' = OpenParts(f)
    BY DEF OpenParts, Upload!Open
  <2> QED BY <2>1 DEF UploadOrigin, UploadCoherent
<1>7. UploadJudged'
  BY <1>1, UploadKinds DEF UploadJudged, UploadCoherent
<1>8. UploadCleaning'
  BY <1>1, UploadKinds DEF UploadCleaning, UploadCoherent, UploadDoomed
<1>9. UploadVerified'
  BY DEF UploadVerified, UploadAlive
<1>10. UploadCommits'
  <2>1. \A d \in Uploader : call[d].pc = "commit" <=> rowLock = d
    BY DEF UploadCommits, UploadCoherent
  <2>2. \A d \in Uploader : call'[d].pc # "commit"
    BY <1>1, <2>1
  <2>3. Nil \notin Uploader
    BY UploadNames
  <2> QED BY <2>2, <2>3 DEF UploadCommits
<1>11. UploadRegistered'
  <2>1. UploadKept
    BY DEF UploadCoherent, UploadVerified, UploadAlive
  <2> QED BY <2>1 DEF UploadRegistered, UploadKept
<1>12. UploadFresh'
  BY DEF UploadFresh
<1> QED
  BY <1>4, <1>5, <1>6, <1>7, <1>8, <1>9, <1>10, <1>11, <1>12 DEF UploadCoherent

\* The store changes: an upload that is closed stays closed, an object appears only from
\* the upload that its row names, and what was verified is not touched.
LEMMA UploadStoreChanges ==
  ASSUME UploadAssumption, UploadTypes, UploadCoherent, NEW c, NEW k,
         multi' \in [File -> Seq(Part)], UNCHANGED <<row, lock, rowLock, day>>,
         \A d \in Uploader : call'[d] = IF d = c THEN k ELSE call[d],
         \A f \in File : Len(multi[f]) <= Len(multi'[f]),
         \A f \in File, i \in Nat : i \in OpenParts(f)' /\ i <= Len(multi[f]) => i \in OpenParts(f),
         \A f \in File : object'[f] \in {object[f], Nil}
           \/ (row.files[f].upload # 0 /\ row.files[f].upload \notin OpenParts(f)'),
         UploadKept /\ (UploadAlive \/ group' = "registered") => UploadKept',
         group' = "registered" => group = "registered",
         \/ c \notin Uploader
         \/ /\ UploadWhole(k.row)' /\ UploadFinishing(k)
            /\ \/ call[c].pc \in Editing /\ k.pc \in Editing /\ (lock = c => UploadCopy(k))
               \/ call[c].pc \in Cleaning /\ k.pc \in Cleaning /\ k.row = call[c].row
  PROVE  UploadCoherent'
<1>0. "in flight" # Nil /\ Nil \notin Uploader
  BY UploadNames
<1>1. /\ multi \in [File -> Seq(Part)] /\ row \in UploadRow
      /\ call \in [Uploader -> UploadCall]
  BY Zenon DEF UploadTypes
<1>2. \A f \in File : Len(multi[f]) \in Nat /\ Len(multi'[f]) \in Nat
  BY <1>1
<1>3. \A x \in UploadRow, f \in File : x.files[f].upload \in Nat
  <2>1. \A y \in UploadFile : y.upload \in Nat
    <3>1. MaxMultipart \in Nat
      BY UploadBounds
    <3> QED BY <3>1 DEF UploadFile, Upload!FileState
  <2> QED BY <2>1 DEF UploadRow
<1>4. \A x \in UploadRow : UploadWhole(x) => UploadWhole(x)'
  BY <1>2, <1>3 DEF UploadWhole
<1>5. \A d \in Uploader : call[d].row \in UploadRow
  BY <1>1 DEF UploadCall
<1>6. UploadWhole(row) /\ UploadCalls
  BY DEF UploadCoherent
<1>7. UploadWhole(row)'
  BY <1>1, <1>4, <1>6 DEF UploadWhole
<1>8. \A l : UploadFinishing(l)' <=> UploadFinishing(l)
  BY DEF UploadFinishing
<1>9. \A l : UploadCopy(l)' <=> UploadCopy(l)
  BY DEF UploadCopy, UploadKeeps
<1>10. c \in Uploader => lock # c \/ UploadCopy(k)
  <2>1. SUFFICES ASSUME c \in Uploader, lock = c, call[c].pc \in Cleaning, k.pc \in Cleaning,
                        k.row = call[c].row
                 PROVE  UploadCopy(k)
    OBVIOUS
  <2>2. UploadCopy(call[c])
    BY <1>6, <2>1 DEF UploadCalls
  <2> QED BY <2>1, <2>2, UploadKinds DEF UploadCopy
<1>11. UploadCalls'
  <2> SUFFICES ASSUME NEW d \in Uploader
               PROVE  /\ UploadWhole(call[d].row)' /\ UploadFinishing(call[d])'
                      /\ lock' = d => UploadCopy(call[d])'
    BY DEF UploadCalls
  <2>1. UploadWhole(call[d].row) /\ UploadFinishing(call[d]) /\ (lock = d => UploadCopy(call[d]))
    BY <1>6 DEF UploadCalls
  <2>2. CASE d # c
    <3>1. call'[d] = call[d]
      BY <2>2
    <3>2. UploadWhole(call[d].row)'
      BY <1>4, <1>5, <2>1, <3>1 DEF UploadWhole
    <3>3. UploadFinishing(call[d])'
      BY <2>1, <3>1 DEF UploadFinishing
    <3>4. lock' = d => UploadCopy(call[d])'
      BY <2>1, <3>1 DEF UploadCopy, UploadKeeps
    <3> QED BY <3>2, <3>3, <3>4
  <2>3. CASE d = c
    <3>1. call'[d] = k
      BY <2>3
    <3>2. UploadWhole(call[d].row)'
      BY <2>3, <3>1 DEF UploadWhole
    <3>3. UploadFinishing(call[d])'
      BY <2>3, <3>1 DEF UploadFinishing
    <3>4. lock' = d => UploadCopy(call[d])'
      BY <1>10, <2>3, <3>1 DEF UploadCopy, UploadKeeps
    <3> QED BY <3>2, <3>3, <3>4
  <2> QED BY <2>2, <2>3
<1>12. UploadOrigin'
  <2> SUFFICES ASSUME NEW f \in File, object'[f] # Nil
               PROVE  row.files[f].upload # 0 /\ row.files[f].upload \notin OpenParts(f)'
    BY DEF UploadOrigin
  <2>1. row.files[f].upload <= Len(multi[f]) /\ row.files[f].upload \in Nat
    BY <1>1, <1>3, <1>6 DEF UploadWhole
  <2>2. object[f] # Nil => row.files[f].upload # 0 /\ row.files[f].upload \notin OpenParts(f)
    BY DEF UploadCoherent, UploadOrigin
  <2> QED BY <2>1, <2>2
<1>13. UploadJudged'
  <2>1. \A d \in Uploader : call'[d].pc \in Judging => call'[d] = call[d]
    BY UploadKinds
  <2> QED BY <2>1 DEF UploadJudged, UploadCoherent
<1>14. UploadCleaning'
  <2>1. UploadDoomed' <=> UploadDoomed
    BY DEF UploadDoomed
  <2>2. \A d \in Uploader : /\ call'[d].pc \in Cleaning => call[d].pc \in Cleaning
                            /\ call[d].pc \in Cleaning => call'[d].pc \in Cleaning
                            /\ call[d].pc = "cancel" => call'[d].pc = "cancel"
    BY UploadKinds
  <2>3. (\E w \in Uploader : call[w].pc \in Cleaning) =>
          /\ UploadDoomed
          /\ \A d \in Uploader : lock = d => call[d].pc = "cancel" \/ call[d].pc \in Cleaning
    BY DEF UploadCoherent, UploadCleaning
  <2> QED BY <2>1, <2>2, <2>3 DEF UploadCleaning
<1>15. UploadAlive' => UploadAlive
  <2>1. \A d \in Uploader : call'[d].pc = "confirm" => call[d].pc = "confirm"
    BY UploadKinds
  <2> QED BY <2>1 DEF UploadAlive
<1>16. UploadVerified'
  <2>1. \A d \in Uploader : call'[d].pc \in {"register", "commit"} => call[d].pc \in {"register", "commit"}
    BY UploadKinds
  <2> QED BY <1>15, <2>1 DEF UploadVerified, UploadCoherent
<1>17. UploadCommits'
  BY UploadKinds DEF UploadCommits, UploadCoherent
<1>18. UploadRegistered'
  BY DEF UploadRegistered, UploadCoherent
<1>19. UploadFresh'
  BY DEF UploadFresh, UploadCoherent
<1> QED
  BY <1>7, <1>11, <1>12, <1>13, <1>14, <1>16, <1>17, <1>18, <1>19 DEF UploadCoherent

\* A day passes, and sessions expire.
LEMMA UploadDayPasses ==
  ASSUME UploadAssumption, UploadTypes, UploadCoherent, day' = day + 1,
         UNCHANGED <<row, group, lock, rowLock, call, multi, object>>
  PROVE  UploadCoherent'
<1>1. row.expires \in Nat /\ day \in Nat
  <2>1. MaxDay \in Nat
    BY UploadBounds
  <2>2. row \in UploadRow /\ day \in 0..MaxDay
    BY Zenon DEF UploadTypes
  <2> QED BY <2>1, <2>2 DEF UploadRow
<1>2. UploadWhole(row)' /\ UploadCalls'
  BY DEF UploadCoherent, UploadWhole, UploadCalls, UploadFinishing, UploadCopy, UploadKeeps
<1>3. UploadOrigin'
  <2>1. \A f \in File : OpenParts(f)' = OpenParts(f)
    BY DEF OpenParts, Upload!Open
  <2> QED BY <2>1 DEF UploadOrigin, UploadCoherent
<1>4. UploadJudged' /\ UploadCommits' /\ UploadFresh'
  BY DEF UploadCoherent, UploadJudged, UploadCommits, UploadFresh
<1>5. UploadKept' <=> UploadKept
  BY DEF UploadKept
<1>6. UploadRegistered'
  BY <1>5 DEF UploadCoherent, UploadRegistered
<1>7. UploadAlive' => UploadAlive
  BY <1>1 DEF UploadAlive
<1>8. UploadVerified'
  BY <1>5, <1>7 DEF UploadCoherent, UploadVerified
<1>9. UploadDoomed => UploadDoomed'
  BY <1>1 DEF UploadDoomed
<1>10. UploadCleaning'
  BY <1>9 DEF UploadCoherent, UploadCleaning
<1> QED BY <1>2, <1>3, <1>4, <1>6, <1>8, <1>10 DEF UploadCoherent

-----------------------------------------------------------------------------
(* The steps.                                                              *)

\* What every step does.
UploadPreserved ==
  /\ UploadTypes'
  /\ UploadCoherent /\ ~overtaken' => UploadCoherent'
  /\ UploadAlone /\ ~lost' => UploadAlone'
  /\ (overtaken => overtaken') /\ (lost => lost')

\* A record of a call is made of its fields.
LEMMA CallIs ==
  ASSUME NEW p \in UploadPhase, NEW r \in UploadRow, NEW f \in File \cup {Nil}
  PROVE  /\ [pc |-> p, row |-> r, file |-> f] \in UploadCall
         /\ [pc |-> p, row |-> r, file |-> f].pc = p
         /\ [pc |-> p, row |-> r, file |-> f].row = r
         /\ [pc |-> p, row |-> r, file |-> f].file = f
  BY DEF UploadCall

LEMMA OpenSame ==
  ASSUME multi' = multi
  PROVE  \A f \in File : OpenParts(f)' = OpenParts(f)
  BY DEF OpenParts, Upload!Open

\* Two kinds of step: a caller takes the lock with what it has read; the holder of the
\* lock writes the row and answers.
UploadTakes(c, k) ==
  /\ lock = Nil /\ lock' = c /\ call[c].pc = "idle" /\ row.state # "none"
  /\ call' = [call EXCEPT ![c] = k]
  /\ UNCHANGED <<row, group, rowLock, multi, object, day, faults, overtaken, lost>>

UploadPuts(c, r) ==
  /\ lock = c /\ lock' = Nil /\ rowLock = Nil /\ row' = r
  /\ call' = [call EXCEPT ![c] = Resting]
  /\ UNCHANGED <<group, rowLock, multi, object, day, faults, overtaken, lost>>

\* Somebody takes the lock.
LEMMA UploadStarts ==
  ASSUME UploadAssumption, UploadTypes, NEW c \in Uploader, NEW k \in UploadCall,
         UploadTakes(c, k),
         k.pc \in {"initiate", "part", "list", "completing", "head", "confirm", "cancel",
                   "verify", "abort"},
         row.state # "Cleaned", k.row.state # "Cleaned",
         UploadCoherent => UploadAdmissible(c, k) /\ UploadCopy(k)
  PROVE  UploadPreserved
<1> USE DEF UploadTakes
<1>1. UploadTypes'
  BY DEF UploadTypes
<1>2. ASSUME UploadCoherent PROVE UploadCoherent'
  <2>0. Nil # "in flight"
    BY UploadNames
  <2>1. ~(k.pc \in {"register", "commit"}) /\ k.pc # "idle"
    OBVIOUS
  <2>2. \A w \in Uploader : w # c => (rowLock' = w <=> rowLock = w)
    OBVIOUS
  <2>4. rowLock' # c
    BY <1>2 DEF UploadCoherent, UploadCommits
  <2>3. rowLock' = "in flight" \/ k.pc \in {"register", "commit"} => (UploadAlive => UploadKept)
    BY <1>2, <2>1 DEF UploadCoherent, UploadVerified
  <2> QED BY <1>2, <2>1, <2>2, <2>3, <2>4, UploadCallChanges
<1>3. ASSUME UploadAlone PROVE UploadAlone'
  <2>1. \A d \in Uploader : call[d].pc = "idle"
    BY <1>3, UploadNames DEF UploadAlone
  <2>2. \A d \in Uploader : call'[d] = IF d = c THEN k ELSE call[d]
    BY DEF UploadTypes
  <2>3. \A d \in Uploader : call'[d].row.state # "Cleaned"
    BY <1>3, <2>2 DEF UploadAlone
  <2> QED BY <2>1, <2>2, <2>3 DEF UploadAlone
<1> QED BY <1>1, <1>2, <1>3 DEF UploadPreserved

\* The holder of the lock writes the row and answers.
LEMMA UploadSaves ==
  ASSUME UploadAssumption, UploadTypes, NEW c \in Uploader, NEW r \in UploadRow,
         UploadPuts(c, r),
         UploadAlone /\ r.state = "Cleaned" =>
           call[c].pc = "delete" /\ \A f \in File : object[f] = Nil,
         UploadCoherent =>
           /\ UploadWhole(r) /\ UploadKeeps(r)
           /\ \/ r.state = "Uploading" /\ call[c].pc \in Editing
              \/ /\ r.files = row.files
                 /\ \/ r.state = "Confirming" /\ call[c].pc = "confirm"
                    \/ r.state = "Cancelled" /\ call[c].pc = "cancel"
                    \/ r.state = "Failed" /\ call[c].pc = "failed"
                    \/ r.state = "Cleaned" /\ call[c].pc \in Cleaning
  PROVE  UploadPreserved
<1> USE DEF UploadPuts
<1>0. Resting \in UploadCall /\ Resting.pc = "idle" /\ Resting.row.state # "Cleaned"
  <2>1. Resting.row = NoUpload /\ NoUpload.state = "none"
    BY EmptyRow
  <2> QED BY <2>1, EmptyRow
<1>1. UploadTypes'
  BY <1>0 DEF UploadTypes
<1>2. ASSUME UploadCoherent PROVE UploadCoherent'
  <2>1. UploadWhole(Resting.row) /\ UploadFinishing(Resting)'
    BY RestingWhole
  <2> QED BY <1>0, <1>2, <2>1, UploadRowChanges
<1>3. ASSUME UploadAlone PROVE UploadAlone'
  <2>1. \A d \in Uploader : d # c => call[d].pc = "idle"
    BY <1>3 DEF UploadAlone
  <2>2. \A d \in Uploader : call'[d] = IF d = c THEN Resting ELSE call[d]
    BY DEF UploadTypes
  <2>3. \A d \in Uploader : call'[d].pc = "idle"
    BY <1>0, <2>1, <2>2
  <2>4. \A f \in File : OpenParts(f)' = OpenParts(f)
    BY OpenSame
  <2>5. \A d \in Uploader : call'[d].row.state # "Cleaned"
    BY <1>0, <1>3, <2>2 DEF UploadAlone
  <2>6. r.state = "Cleaned" => \A f \in File : object[f] = Nil /\ OpenParts(f) = {}
    BY <1>3 DEF UploadAlone
  <2> QED BY <2>3, <2>4, <2>5, <2>6 DEF UploadAlone
<1> QED BY <1>1, <1>2, <1>3 DEF UploadPreserved

\* A call ends without another word to the database.
LEMMA UploadEnds ==
  ASSUME UploadAssumption, UploadTypes, NEW c \in Uploader,
         lock' = (IF lock = c THEN Nil ELSE lock), call' = [call EXCEPT ![c] = Resting],
         UNCHANGED <<row, group, multi, object, day, overtaken, lost>>,
         faults' \in 0..MaxFaults,
         \/ rowLock' = rowLock /\ call[c].pc # "commit"
         \/ rowLock' = rowLock /\ rowLock # c
         \/ rowLock' \in {Nil, "in flight"} /\ rowLock = c
  PROVE  UploadPreserved
<1>0. /\ Resting \in UploadCall /\ Resting.pc = "idle" /\ Resting.row.state # "Cleaned"
      /\ Nil \notin Uploader /\ "in flight" \notin Uploader \cup {Nil}
  <2>1. Resting.row = NoUpload /\ NoUpload.state = "none"
    BY EmptyRow
  <2> QED BY <2>1, EmptyRow, UploadNames
<1>1. UploadTypes'
  BY <1>0 DEF UploadTypes
<1>2. ASSUME UploadCoherent PROVE UploadCoherent'
  <2>1. UploadAdmissible(c, Resting)
    BY <1>0, RestingWhole, UploadKinds DEF UploadAdmissible
  <2>5. call[c].pc = "commit" <=> rowLock = c
    BY <1>2 DEF UploadCoherent, UploadCommits
  <2>2. rowLock' \in {rowLock, Nil} \/ call[c].pc \in Judging
    BY <2>5, UploadKinds
  <2>3. rowLock' # c /\ \A w \in Uploader : w # c => (rowLock' = w <=> rowLock = w)
    BY <1>0, <2>5
  <2>4. rowLock' = "in flight" => (UploadAlive => UploadKept)
    BY <1>2, <1>0, <2>5 DEF UploadCoherent, UploadVerified
  <2> QED BY <1>0, <1>2, <2>1, <2>2, <2>3, <2>4, UploadCallChanges
<1>3. ASSUME UploadAlone PROVE UploadAlone'
  <2>1. \A d \in Uploader : d # c => call[d].pc = "idle" \/ lock = d
    BY <1>3 DEF UploadAlone
  <2>2. \A d \in Uploader : call'[d] = IF d = c THEN Resting ELSE call[d]
    BY DEF UploadTypes
  <2>4. \A f \in File : OpenParts(f)' = OpenParts(f)
    BY OpenSame
  <2>5. \A d \in Uploader : call'[d].pc # "idle" => lock' = d
    BY <1>0, <2>1, <2>2
  <2>6. \A d \in Uploader : call'[d].pc = "delete" => call[d].pc = "delete"
    BY <1>0, <2>2
  <2>7. (\A d \in Uploader : call[d].pc = "idle") => \A d \in Uploader : call'[d].pc = "idle"
    BY <1>0, <2>2
  <2>8. \A d \in Uploader : call'[d].row.state # "Cleaned"
    BY <1>0, <1>3, <2>2 DEF UploadAlone
  <2> QED BY <1>3, <2>4, <2>5, <2>6, <2>7, <2>8 DEF UploadAlone
<1> QED BY <1>1, <1>2, <1>3 DEF UploadPreserved

-----------------------------------------------------------------------------
(* The owner's requests.                                                   *)

LEMMA UploadFields ==
  ASSUME UploadAssumption, UploadTypes
  PROVE  /\ row \in UploadRow /\ call \in [Uploader -> UploadCall]
         /\ \A c \in Uploader : /\ call[c].row \in UploadRow /\ call[c].pc \in UploadPhase
                                /\ call[c].file \in File \cup {Nil}
         /\ \A r \in UploadRow : /\ r.files \in [File -> UploadFile] /\ r.state \in UploadState
                                 /\ r.expires \in Int
         /\ \A r \in UploadRow, f \in File : r.files[f].upload \in Nat
         /\ day \in 0..MaxDay /\ day \in Int
         /\ multi \in [File -> Seq(Part)] /\ \A f \in File : Len(multi[f]) \in Nat
<1>1. /\ multi \in [File -> Seq(Part)] /\ row \in UploadRow
      /\ call \in [Uploader -> UploadCall] /\ day \in 0..MaxDay
  BY Zenon DEF UploadTypes
<1>2. MaxMultipart \in Nat /\ MaxDay \in Nat
  BY UploadBounds
<1>3. \A y \in UploadFile : y.upload \in Nat
  BY <1>2 DEF UploadFile, Upload!FileState
<1>4. \A r \in UploadRow, f \in File : r.files[f].upload \in Nat
  BY <1>3 DEF UploadRow
<1>5. \A r \in UploadRow : r.files \in [File -> UploadFile] /\ r.state \in UploadState
  BY DEF UploadRow
<1>6. \A r \in UploadRow : r.expires \in Int
  BY <1>2 DEF UploadRow
<1>7. \A c \in Uploader : /\ call[c].row \in UploadRow /\ call[c].pc \in UploadPhase
                          /\ call[c].file \in File \cup {Nil}
  BY <1>1 DEF UploadCall
<1>8. \A f \in File : Len(multi[f]) \in Nat
  BY <1>1
<1>9. day \in Int
  BY <1>1, <1>2
<1> QED BY <1>1, <1>4, <1>5, <1>6, <1>7, <1>8, <1>9

LEMMA UploadPhases ==
  /\ UploadPhase = {"idle", "confirm", "cancel"} \cup Editing \cup Judging \cup Cleaning
  /\ UploadState = {"none", "Uploading", "Confirming", "Failed", "Complete", "Cancelled",
                    "Cleaned"}
  BY Zenon DEF UploadPhase, Upload!Phase, Editing, Judging, Cleaning, UploadState, Upload!State

\* Who finds the session writable finds nobody who cleans it up, or registers it.
LEMMA UploadWritable ==
  ASSUME UploadAssumption, UploadTypes, UploadCoherent, row.expires > day
  PROVE  /\ row.state = "Uploading" =>
              /\ \A w \in Uploader : call[w].pc \notin Judging \cup Cleaning
              /\ rowLock = Nil
         /\ row.state = "Failed" => \A w \in Uploader : call[w].pc \notin Cleaning
<1>1. row.expires \in Int /\ day \in Int
  BY UploadFields
<1>2. row.state \in {"Uploading", "Failed"} => ~UploadDoomed
  BY <1>1 DEF UploadDoomed
<1> QED BY <1>2 DEF UploadCoherent, UploadCleaning, UploadJudged

\* list_parts: the copy is the row.
LEMMA ListPartsStep ==
  ASSUME UploadAssumption, UploadTypes, NEW c \in Request
  PROVE  Upload!ListParts(c) => UploadPreserved
<1>1. ASSUME Upload!ListParts(c) PROVE UploadPreserved
  <2>1. PICK k : k = [pc |-> "list", row |-> row, file |-> Nil]
    OBVIOUS
  <2>2. k \in UploadCall /\ k.pc = "list" /\ k.row = row /\ c \in Uploader
    BY <2>1, UploadFields, UploadPhases, UploadKinds, UploadNames DEF UploadCall
  <2>3. UploadTakes(c, k) /\ row.state = "Uploading" /\ row.expires > day
    BY <1>1, <2>1, Zenon DEF Upload!ListParts, Upload!Writable, Upload!Lock, UploadTakes,
       Upload!rows, Upload!store, Upload!ghost
  <2>4. ASSUME UploadCoherent PROVE UploadAdmissible(c, k) /\ UploadCopy(k)
    <3>1. \A w \in Uploader : call[w].pc \notin Judging \cup Cleaning
      BY <2>3, <2>4, UploadWritable
    <3>2. UploadWhole(row)
      BY <2>4 DEF UploadCoherent
    <3> QED BY <2>2, <2>3, <3>1, <3>2, UploadKinds
        DEF UploadAdmissible, UploadCopy, UploadKeeps, UploadFinishing, UploadWhole
  <2> QED BY <2>2, <2>3, <2>4, UploadStarts
<1> QED BY <1>1, Zenon

\* A file's part of the row, when one field changes.
LEMMA FilePart ==
  ASSUME NEW s \in UploadFile, NEW x \in Content, NEW t, t = [s EXCEPT !.part = x]
  PROVE  /\ t \in UploadFile /\ t.upload = s.upload /\ t.sha = s.sha
         /\ t.completing = s.completing /\ t.complete = s.complete
  BY DEF UploadFile, Upload!FileState

LEMMA FileUpload ==
  ASSUME NEW s \in UploadFile, NEW u \in 0..MaxMultipart, NEW t, t = [s EXCEPT !.upload = u]
  PROVE  /\ t \in UploadFile /\ t.upload = u /\ t.sha = s.sha
         /\ t.completing = s.completing /\ t.complete = s.complete
  BY DEF UploadFile, Upload!FileState

LEMMA FileComplete ==
  ASSUME NEW s \in UploadFile, NEW t, t = [s EXCEPT !.complete = TRUE]
  PROVE  /\ t \in UploadFile /\ t.upload = s.upload /\ t.sha = s.sha
         /\ t.completing = s.completing /\ t.complete = TRUE
  BY DEF UploadFile, Upload!FileState

\* parts: the file keeps its upload, and no file that is complete or completing is announced.
LEMMA AskPartStep ==
  ASSUME UploadAssumption, UploadTypes, NEW c \in Request, NEW f \in File, NEW x \in Content
  PROVE  Upload!AskPart(c, f, x) => UploadPreserved
<1>1. ASSUME Upload!AskPart(c, f, x) PROVE UploadPreserved
  <2>1. PICK s : s = [row.files[f] EXCEPT !.part = x]
    OBVIOUS
  <2>2. PICK r : r = Upload!WithFile(row, f, s)
    OBVIOUS
  <2>3. PICK p : p = IF row.files[f].upload = 0 THEN "initiate" ELSE "part"
    OBVIOUS
  <2>4. PICK k : k = [pc |-> p, row |-> r, file |-> f]
    OBVIOUS
  <2>5. /\ s \in UploadFile /\ s.upload = row.files[f].upload /\ s.sha = row.files[f].sha
        /\ s.completing = row.files[f].completing /\ s.complete = row.files[f].complete
    <3>1. PICK o : o = row.files[f]
      OBVIOUS
    <3>2. o \in UploadFile
      BY <3>1, UploadFields
    <3>3. s = [o EXCEPT !.part = x]
      BY <2>1, <3>1
    <3>4. /\ s \in UploadFile /\ s.upload = o.upload /\ s.sha = o.sha
          /\ s.completing = o.completing /\ s.complete = o.complete
      BY <3>2, <3>3, FilePart, Zenon
    <3> QED BY <3>1, <3>4
  <2>6. r \in UploadRow /\ r.files = [row.files EXCEPT ![f] = s] /\ r.state = row.state
    <3>1. row \in UploadRow
      BY UploadFields
    <3> QED BY <2>2, <2>5, <3>1, FileRow, Zenon
  <2>7. p \in {"initiate", "part"}
    BY <2>3
  <2>8. /\ k \in UploadCall /\ k.pc \in {"initiate", "part"} /\ k.row = r /\ k.file = f
        /\ c \in Uploader
    BY <2>4, <2>6, <2>7, UploadPhases, UploadKinds, UploadNames DEF UploadCall
  <2>9. UploadTakes(c, k) /\ row.state = "Uploading" /\ row.expires > day
    BY <1>1, <2>1, <2>2, <2>3, <2>4, Zenon DEF Upload!AskPart, Upload!Writable, Upload!Lock,
       UploadTakes, Upload!rows, Upload!store, Upload!ghost
  <2>10. ASSUME UploadCoherent PROVE UploadAdmissible(c, k) /\ UploadCopy(k)
    <3>1. \A w \in Uploader : call[w].pc \notin Judging \cup Cleaning
      BY <2>9, <2>10, UploadWritable
    <3>2. UploadWhole(row)
      BY <2>10 DEF UploadCoherent
    <3>3. \A g \in File : /\ r.files[g].upload = row.files[g].upload
                          /\ r.files[g].sha = row.files[g].sha
                          /\ r.files[g].completing = row.files[g].completing
                          /\ r.files[g].complete = row.files[g].complete
      BY <2>5, <2>6, UploadFields
    <3>4. UploadWhole(r) /\ UploadKeeps(r)
      BY <3>2, <3>3 DEF UploadWhole, UploadKeeps
    <3>5. UploadFinishing(k)
      <4>1. p = "initiate" => r.files[f].upload = 0
        BY <2>3, <3>3
      <4>2. k.pc = p /\ k.row = r /\ k.file = f
        BY <2>4
      <4> QED BY <2>7, <4>1, <4>2 DEF UploadFinishing
    <3> QED BY <2>6, <2>8, <2>9, <3>1, <3>4, <3>5, UploadKinds
        DEF UploadAdmissible, UploadCopy
  <2>11. row.state # "Cleaned" /\ k.row.state # "Cleaned"
    BY <2>6, <2>8, <2>9
  <2> QED BY <2>8, <2>9, <2>10, <2>11, UploadStarts
<1> QED BY <1>1, Zenon

\* complete_file: the object is there already, or the parts are those announced.
LEMMA AskFinishStep ==
  ASSUME UploadAssumption, UploadTypes, NEW c \in Request, NEW f \in File, NEW x \in Content
  PROVE  Upload!AskFinish(c, f, x) => UploadPreserved
<1>0. row \in UploadRow /\ row.files[f] \in UploadFile /\ c \in Uploader
  BY UploadFields, UploadNames
<1>1. ASSUME Upload!AskFinish(c, f, x) PROVE UploadPreserved
  <2>0. row.state = "Uploading" /\ row.expires > day
    BY <1>1, Zenon DEF Upload!AskFinish, Upload!Writable
  <2>1. CASE row.files[f].completing /\ object[f] # Nil
    <3>1. PICK k : k = [pc |-> "head", row |-> row, file |-> f]
      OBVIOUS
    <3>2. k \in UploadCall /\ k.pc = "head" /\ k.row = row /\ k.file = f
      BY <1>0, <3>1, UploadPhases, UploadKinds DEF UploadCall
    <3>3. UploadTakes(c, k)
      BY <1>1, <2>1, <3>1, Zenon DEF Upload!AskFinish, Upload!Lock, UploadTakes, Upload!rows,
         Upload!store, Upload!ghost
    <3>4. ASSUME UploadCoherent PROVE UploadAdmissible(c, k) /\ UploadCopy(k)
      <4>1. \A w \in Uploader : call[w].pc \notin Judging \cup Cleaning
        BY <2>0, <3>4, UploadWritable
      <4>2. UploadWhole(row)
        BY <3>4 DEF UploadCoherent
      <4> QED BY <2>0, <2>1, <3>2, <4>1, <4>2, UploadKinds
          DEF UploadAdmissible, UploadCopy, UploadKeeps, UploadFinishing, UploadWhole
    <3> QED BY <1>0, <2>0, <3>2, <3>3, <3>4, UploadStarts
  <2>2. CASE ~(row.files[f].completing /\ object[f] # Nil)
    <3>1. PICK s : s = [row.files[f] EXCEPT !.sha = x, !.completing = TRUE]
      OBVIOUS
    <3>2. PICK r : r = Upload!WithFile(row, f, s)
      OBVIOUS
    <3>3. PICK k : k = [pc |-> "completing", row |-> r, file |-> f]
      OBVIOUS
    <3>4. /\ s \in UploadFile /\ s.upload = row.files[f].upload /\ s.sha = x
          /\ s.completing = TRUE /\ s.complete = row.files[f].complete
      <4>1. PICK o : o = row.files[f]
        OBVIOUS
      <4>2. o \in UploadFile /\ s = [o EXCEPT !.sha = x, !.completing = TRUE]
        BY <1>0, <3>1, <4>1
      <4>3. /\ s \in UploadFile /\ s.upload = o.upload /\ s.sha = x
            /\ s.completing = TRUE /\ s.complete = o.complete
        BY <4>2 DEF UploadFile, Upload!FileState
      <4> QED BY <4>1, <4>3
    <3>5. r \in UploadRow /\ r.files = [row.files EXCEPT ![f] = s] /\ r.state = row.state
      BY <1>0, <3>2, <3>4, FileRow, Zenon
    <3>6. k \in UploadCall /\ k.pc = "completing" /\ k.row = r /\ k.file = f
      BY <3>3, <3>5, UploadPhases, UploadKinds DEF UploadCall
    <3>7. UploadTakes(c, k) /\ row.files[f].upload \in OpenParts(f)
      BY <1>1, <2>2, <3>1, <3>2, <3>3, Zenon DEF Upload!AskFinish, Upload!Lock, UploadTakes,
         Upload!rows, Upload!store, Upload!ghost, OpenParts
    <3>8. row.files[f].upload # 0
      <4>1. multi \in [File -> Seq(Part)]
        BY UploadFields
      <4>2. row.files[f].upload \in DOMAIN multi[f]
        BY <3>7, Zenon DEF OpenParts, Upload!Open
      <4> QED BY <4>1, <4>2
    <3>9. ASSUME UploadCoherent PROVE UploadAdmissible(c, k) /\ UploadCopy(k)
      <4>1. \A w \in Uploader : call[w].pc \notin Judging \cup Cleaning
        BY <2>0, <3>9, UploadWritable
      <4>2. UploadWhole(row)
        BY <3>9 DEF UploadCoherent
      <4>3. \A g \in File : /\ r.files[g].upload = row.files[g].upload
                            /\ g # f => r.files[g] = row.files[g]
                            /\ g = f => r.files[g] = s
        BY <3>4, <3>5, UploadFields
      <4>4. x # Nil
        BY UploadNames
      <4>5. UploadWhole(r) /\ UploadKeeps(r)
        BY <3>4, <3>8, <4>2, <4>3, <4>4 DEF UploadWhole, UploadKeeps
      <4>6. UploadFinishing(k)
        BY <3>4, <3>6, <4>3 DEF UploadFinishing
      <4> QED BY <2>0, <3>5, <3>6, <4>1, <4>5, <4>6, UploadKinds
          DEF UploadAdmissible, UploadCopy
    <3>10. row.state # "Cleaned" /\ k.row.state # "Cleaned"
      BY <2>0, <3>5, <3>6
    <3> QED BY <1>0, <3>6, <3>7, <3>9, <3>10, UploadStarts
  <2> QED BY <2>1, <2>2
<1> QED BY <1>1, Zenon

\* A copy with the files of the row is whole.
LEMMA UploadSameFiles ==
  ASSUME UploadCoherent, NEW r, r.files = row.files
  PROVE  UploadWhole(r)
  BY DEF UploadCoherent, UploadWhole

\* complete: who confirms finds a session that is being uploaded, or has failed in time.
LEMMA AskCompleteStep ==
  ASSUME UploadAssumption, UploadTypes, NEW c \in Request
  PROVE  Upload!AskComplete(c) => UploadPreserved
<1>0. row \in UploadRow /\ c \in Uploader
  BY UploadFields, UploadNames
<1>1. ASSUME Upload!AskComplete(c) PROVE UploadPreserved
  <2>1. PICK q : q = IF row.state = "Failed" THEN [row EXCEPT !.state = "Uploading"] ELSE row
    OBVIOUS
  <2>2. PICK r : r = [q EXCEPT !.state = "Confirming"]
    OBVIOUS
  <2>3. PICK k : k = [pc |-> "confirm", row |-> r, file |-> Nil]
    OBVIOUS
  <2>4. UploadTakes(c, k) /\ q.state = "Uploading" /\ q.expires > day
    BY <1>1, <2>1, <2>2, <2>3, Zenon DEF Upload!AskComplete, Upload!Writable, Upload!Lock,
       UploadTakes, Upload!rows, Upload!store, Upload!ghost
  <2>5. /\ q \in UploadRow /\ q.files = row.files /\ q.expires = row.expires
        /\ q.state = IF row.state = "Failed" THEN "Uploading" ELSE row.state
    BY <1>0, <2>1, UploadPhases DEF UploadRow
  <2>6. r \in UploadRow /\ r.files = row.files /\ r.state = "Confirming"
    BY <2>2, <2>5, UploadPhases DEF UploadRow
  <2>7. k \in UploadCall /\ k.pc = "confirm" /\ k.row = r /\ k.file = Nil
    BY <2>3, <2>6, UploadPhases DEF UploadCall
  <2>8. row.state \in {"Uploading", "Failed"} /\ row.expires > day
    BY <2>4, <2>5
  <2>9. ASSUME UploadCoherent PROVE UploadAdmissible(c, k) /\ UploadCopy(k)
    <3>1. \A w \in Uploader : call[w].pc \notin Cleaning
      BY <2>8, <2>9, UploadWritable
    <3>2. UploadWhole(r)
      BY <2>6, <2>9, UploadSameFiles
    <3> QED BY <2>6, <2>7, <2>8, <3>1, <3>2, UploadKinds
        DEF UploadAdmissible, UploadCopy, UploadFinishing
  <2>10. row.state # "Cleaned" /\ k.row.state # "Cleaned"
    BY <2>6, <2>7, <2>8
  <2> QED BY <1>0, <2>4, <2>7, <2>9, <2>10, UploadStarts
<1> QED BY <1>1, Zenon

\* cancel: nothing that is registered is cancelled.
LEMMA AskCancelStep ==
  ASSUME UploadAssumption, UploadTypes, NEW c \in Request
  PROVE  Upload!AskCancel(c) => UploadPreserved
<1>0. row \in UploadRow /\ c \in Uploader
  BY UploadFields, UploadNames
<1>1. ASSUME Upload!AskCancel(c) PROVE UploadPreserved
  <2>1. PICK r : r = [row EXCEPT !.state = "Cancelled"]
    OBVIOUS
  <2>2. PICK k : k = [pc |-> "cancel", row |-> r, file |-> Nil]
    OBVIOUS
  <2>3. UploadTakes(c, k) /\ row.state \notin {"Complete", "Cleaned"}
    BY <1>1, <2>1, <2>2, Zenon DEF Upload!AskCancel, Upload!Lock, UploadTakes, Upload!rows,
       Upload!store, Upload!ghost
  <2>4. r \in UploadRow /\ r.files = row.files /\ r.state = "Cancelled"
    BY <1>0, <2>1, UploadPhases DEF UploadRow
  <2>5. k \in UploadCall /\ k.pc = "cancel" /\ k.row = r /\ k.file = Nil
    BY <2>2, <2>4, UploadPhases DEF UploadCall
  <2>6. row.state # "none"
    BY <2>3 DEF UploadTakes
  <2>7. ASSUME UploadCoherent PROVE UploadAdmissible(c, k) /\ UploadCopy(k)
    <3>1. UploadWhole(r)
      BY <2>4, <2>7, UploadSameFiles
    <3> QED BY <2>3, <2>4, <2>5, <2>6, <3>1, UploadKinds
        DEF UploadAdmissible, UploadCopy, UploadFinishing
  <2>8. row.state # "Cleaned" /\ k.row.state # "Cleaned"
    BY <2>3, <2>4, <2>5
  <2> QED BY <1>0, <2>3, <2>5, <2>7, <2>8, UploadStarts
<1> QED BY <1>1, Zenon

-----------------------------------------------------------------------------
(* The worker.                                                             *)

\* A worker takes a session that is confirmed.
LEMMA TakeConfirmingStep ==
  ASSUME UploadAssumption, UploadTypes, NEW c \in Worker
  PROVE  Upload!TakeConfirming(c) => UploadPreserved
<1>0. row \in UploadRow /\ c \in Uploader
  BY UploadFields, UploadNames
<1>1. ASSUME Upload!TakeConfirming(c) PROVE UploadPreserved
  <2>1. PICK k : k = [pc |-> "verify", row |-> row, file |-> Nil]
    OBVIOUS
  <2>2. UploadTakes(c, k) /\ row.state = "Confirming"
    BY <1>1, <2>1, Zenon DEF Upload!TakeConfirming, Upload!Lock, UploadTakes, Upload!rows,
       Upload!store, Upload!ghost
  <2>3. k \in UploadCall /\ k.pc = "verify" /\ k.row = row /\ k.file = Nil
    BY <1>0, <2>1, UploadPhases, UploadKinds DEF UploadCall
  <2>4. ASSUME UploadCoherent PROVE UploadAdmissible(c, k) /\ UploadCopy(k)
    <3>1. \A w \in Uploader : call[w].pc \notin Cleaning
      BY <2>2, <2>4 DEF UploadCoherent, UploadCleaning, UploadDoomed
    <3>2. UploadWhole(row)
      BY <2>4 DEF UploadCoherent
    <3> QED BY <2>2, <2>3, <3>1, <3>2, UploadKinds
        DEF UploadAdmissible, UploadCopy, UploadFinishing
  <2> QED BY <1>0, <2>2, <2>3, <2>4, UploadStarts
<1> QED BY <1>1, Zenon

\* A worker takes a session that was cancelled or has expired: nothing revives it.
LEMMA TakeCleaningStep ==
  ASSUME UploadAssumption, UploadTypes, NEW c \in Worker
  PROVE  Upload!TakeCleaning(c) => UploadPreserved
<1>0. row \in UploadRow /\ c \in Uploader
  BY UploadFields, UploadNames
<1>1. ASSUME Upload!TakeCleaning(c) PROVE UploadPreserved
  <2>1. PICK k : k = [pc |-> "abort", row |-> row, file |-> Nil]
    OBVIOUS
  <2>2. /\ UploadTakes(c, k)
        /\ \/ row.state = "Cancelled"
           \/ row.state \in {"Uploading", "Failed"} /\ row.expires <= day
    BY <1>1, <2>1, Zenon DEF Upload!TakeCleaning, Upload!Lock, UploadTakes, Upload!rows,
       Upload!store, Upload!ghost
  <2>3. k \in UploadCall /\ k.pc = "abort" /\ k.row = row /\ k.file = Nil
    BY <1>0, <2>1, UploadPhases, UploadKinds DEF UploadCall
  <2>4. ASSUME UploadCoherent PROVE UploadAdmissible(c, k) /\ UploadCopy(k)
    <3>1. UploadWhole(row)
      BY <2>4 DEF UploadCoherent
    <3>2. lock = Nil /\ UploadDoomed /\ row.state \in {"Cancelled", "Uploading", "Failed"}
      BY <2>2 DEF UploadTakes, UploadDoomed
    <3> QED BY <2>3, <3>1, <3>2, UploadKinds DEF UploadAdmissible, UploadCopy, UploadFinishing
  <2>5. row.state # "Cleaned"
    BY <2>2
  <2> QED BY <1>0, <2>2, <2>3, <2>4, <2>5, UploadStarts
<1> QED BY <1>1, Zenon

-----------------------------------------------------------------------------
(* The holder of the lock writes the row and answers.                      *)

\* What a holder who writes the row knows.
LEMMA UploadHolds ==
  ASSUME UploadCoherent, NEW c \in Uploader, lock = c
  PROVE  UploadWhole(call[c].row) /\ UploadFinishing(call[c]) /\ UploadCopy(call[c])
  BY DEF UploadCoherent, UploadCalls

\* parts and list_parts: the session is prolonged.
LEMMA TouchStep ==
  ASSUME UploadAssumption, UploadTypes, NEW c \in Request
  PROVE  Upload!Authorize(c) \/ Upload!Prolong(c) => UploadPreserved
<1>0. c \in Uploader /\ call[c].row \in UploadRow /\ day \in 0..MaxDay
  BY UploadFields, UploadNames
<1>1. ASSUME Upload!Authorize(c) \/ Upload!Prolong(c) PROVE UploadPreserved
  <2>1. PICK q : q = call[c].row
    OBVIOUS
  <2>2. PICK r : r = Upload!Touched(q)
    OBVIOUS
  <2>3. UploadPuts(c, r) /\ call[c].pc \in {"part", "list"}
    BY <1>1, <2>1, <2>2, Zenon DEF Upload!Authorize, Upload!Prolong, Upload!At, Upload!Save,
       Upload!Unlock, UploadPuts, Resting, Upload!store, Upload!ghost
  <2>4. r \in UploadRow /\ r.files = q.files /\ r.state = q.state
    BY <1>0, <2>1, <2>2, TouchedRow, Zenon
  <2>5. ASSUME UploadCoherent PROVE /\ UploadWhole(r) /\ UploadKeeps(r)
                                    /\ r.state = "Uploading" /\ call[c].pc \in Editing
    <3>1. lock = c
      BY <2>3 DEF UploadPuts
    <3>2. UploadWhole(call[c].row) /\ UploadCopy(call[c])
      BY <1>0, <2>5, <3>1, UploadHolds
    <3>3. call[c].pc \in Editing
      BY <2>3, UploadKinds
    <3> QED BY <2>1, <2>4, <3>2, <3>3 DEF UploadWhole, UploadKeeps, UploadCopy
  <2>7. UploadAlone => r.state # "Cleaned"
    BY <1>0, <2>1, <2>4 DEF UploadAlone
  <2> QED BY <1>0, <2>3, <2>4, <2>5, <2>7, UploadSaves
<1> QED BY <1>1, Zenon

\* complete_file: the file of the copy is complete, and the session is prolonged.
LEMMA FinishFileStep ==
  ASSUME UploadAssumption, UploadTypes, NEW c \in Request
  PROVE  Upload!FinishFile(c) => UploadPreserved
<1>0. c \in Uploader /\ call[c].row \in UploadRow /\ day \in 0..MaxDay
  BY UploadFields, UploadNames
<1>1. ASSUME Upload!FinishFile(c) PROVE UploadPreserved
  <2>1. PICK q : q = call[c].row
    OBVIOUS
  <2>2. PICK f : f = call[c].file
    OBVIOUS
  <2>3. PICK s : s = [q.files[f] EXCEPT !.complete = TRUE]
    OBVIOUS
  <2>4. PICK p : p = Upload!WithFile(q, f, s)
    OBVIOUS
  <2>5. PICK r : r = Upload!Touched(p)
    OBVIOUS
  <2>6. UploadPuts(c, r) /\ call[c].pc = "head"
    BY <1>1, <2>1, <2>2, <2>3, <2>4, <2>5, Zenon DEF Upload!FinishFile, Upload!At, Upload!Save,
       Upload!Unlock, UploadPuts, Resting, Upload!store, Upload!ghost
  <2>7. q \in UploadRow
    BY <1>0, <2>1
  <2>8. /\ p \in UploadRow /\ p.state = q.state
        /\ f \in File =>
             /\ p.files = [q.files EXCEPT ![f] = s] /\ s \in UploadFile
             /\ s.upload = q.files[f].upload /\ s.sha = q.files[f].sha
             /\ s.completing = q.files[f].completing /\ s.complete = TRUE
    <3>1. CASE f \in File
      <4>1. PICK o : o = q.files[f]
        OBVIOUS
      <4>2. o \in UploadFile /\ s = [o EXCEPT !.complete = TRUE]
        BY <2>3, <2>7, <3>1, <4>1, UploadFields
      <4>3. /\ s \in UploadFile /\ s.upload = o.upload /\ s.sha = o.sha
            /\ s.completing = o.completing /\ s.complete = TRUE
        BY <4>2, FileComplete
      <4>4. p \in UploadRow /\ p.files = [q.files EXCEPT ![f] = s] /\ p.state = q.state
        BY <2>4, <2>7, <3>1, <4>3, FileRow, Zenon
      <4> QED BY <4>1, <4>3, <4>4
    <3>2. CASE f \notin File
      <4>1. q.files \in [File -> UploadFile]
        BY <2>7, UploadFields
      <4>2. [q.files EXCEPT ![f] = s] = q.files
        BY <3>2, <4>1
      <4>3. p = [q EXCEPT !.files = [q.files EXCEPT ![f] = s]]
        BY <2>4 DEF Upload!WithFile
      <4>4. p = [q EXCEPT !.files = q.files]
        BY <4>2, <4>3
      <4> QED BY <2>7, <3>2, <4>4 DEF UploadRow
    <3> QED BY <3>1, <3>2
  <2>9. r \in UploadRow /\ r.files = p.files /\ r.state = p.state
    BY <1>0, <2>5, <2>8, TouchedRow, Zenon
  <2>10. ASSUME UploadCoherent PROVE /\ UploadWhole(r) /\ UploadKeeps(r)
                                     /\ r.state = "Uploading" /\ call[c].pc \in Editing
    <3>1. lock = c
      BY <2>6 DEF UploadPuts
    <3>2. UploadWhole(q) /\ UploadCopy(call[c]) /\ UploadFinishing(call[c])
      BY <1>0, <2>1, <2>10, <3>1, UploadHolds
    <3>3. call[c].pc \in Editing
      BY <2>6, UploadKinds
    <3>4. f \in File /\ q.files[f].completing
      BY <2>1, <2>2, <2>6, <3>2 DEF UploadFinishing
    <3>5. \A g \in File : /\ g # f => p.files[g] = q.files[g]
                          /\ p.files[f] = s
      BY <2>7, <2>8, <3>4, UploadFields
    <3>6. UploadWhole(r)
      <4>1. ASSUME NEW g \in File
            PROVE  /\ p.files[g].complete => p.files[g].completing
                   /\ p.files[g].completing => p.files[g].sha # Nil /\ p.files[g].upload # 0
                   /\ p.files[g].upload <= Len(multi[g])
        <5>1. CASE g = f
          <6>1. /\ q.files[f].sha # Nil /\ q.files[f].upload # 0
                /\ q.files[f].upload <= Len(multi[f])
            BY <3>2, <3>4 DEF UploadWhole
          <6>2. p.files[g] = s
            BY <3>5, <5>1
          <6> QED BY <2>8, <3>4, <5>1, <6>1, <6>2
        <5>2. CASE g # f
          BY <3>2, <3>5, <5>2 DEF UploadWhole
        <5> QED BY <5>1, <5>2
      <4> QED BY <2>9, <4>1, Zenon DEF UploadWhole
    <3>7. UploadKeeps(q) /\ q.state = "Uploading"
      BY <2>1, <3>2, <3>3 DEF UploadCopy
    <3>8. UploadKeeps(r)
      BY <2>8, <2>9, <3>4, <3>5, <3>7 DEF UploadKeeps
    <3> QED BY <2>8, <2>9, <3>3, <3>6, <3>7, <3>8
  <2>11. UploadAlone => r.state # "Cleaned"
    BY <1>0, <2>1, <2>8, <2>9 DEF UploadAlone
  <2> QED BY <1>0, <2>6, <2>9, <2>10, <2>11, UploadSaves
<1> QED BY <1>1, Zenon

\* complete: the session is confirmed, with the files of the row.
LEMMA ConfirmStep ==
  ASSUME UploadAssumption, UploadTypes, NEW c \in Request
  PROVE  Upload!Confirm(c) => UploadPreserved
<1>0. c \in Uploader /\ call[c].row \in UploadRow /\ day \in 0..MaxDay
  BY UploadFields, UploadNames
<1>1. ASSUME Upload!Confirm(c) PROVE UploadPreserved
  <2>1. PICK q : q = call[c].row
    OBVIOUS
  <2>2. PICK r : r = Upload!Touched(q)
    OBVIOUS
  <2>3. UploadPuts(c, r) /\ call[c].pc = "confirm"
    BY <1>1, <2>1, <2>2, Zenon DEF Upload!Confirm, Upload!At, Upload!Save, Upload!Unlock,
       UploadPuts, Resting, Upload!store, Upload!ghost
  <2>4. r \in UploadRow /\ r.files = q.files /\ r.state = q.state
    BY <1>0, <2>1, <2>2, TouchedRow, Zenon
  <2>5. ASSUME UploadCoherent PROVE /\ UploadWhole(r) /\ UploadKeeps(r)
                                    /\ r.files = row.files /\ r.state = "Confirming"
    <3>1. lock = c
      BY <2>3 DEF UploadPuts
    <3>2. UploadWhole(q) /\ UploadCopy(call[c])
      BY <1>0, <2>1, <2>5, <3>1, UploadHolds
    <3>3. r.files = row.files /\ r.state = "Confirming"
      BY <2>1, <2>3, <2>4, <3>2, UploadKinds DEF UploadCopy
    <3> QED BY <2>4, <3>2, <3>3 DEF UploadWhole, UploadKeeps
  <2>6. UploadAlone => r.state # "Cleaned"
    BY <1>0, <2>1, <2>4 DEF UploadAlone
  <2> QED BY <1>0, <2>3, <2>4, <2>5, <2>6, UploadSaves
<1> QED BY <1>1, Zenon

\* cancel, and the worker's refusal: the copy is written as it is.
LEMMA WriteStep ==
  ASSUME UploadAssumption, UploadTypes, NEW c \in Uploader
  PROVE  Upload!Cancel(c) \/ Upload!SaveFailed(c) => UploadPreserved
<1>0. call[c].row \in UploadRow
  BY UploadFields
<1>1. ASSUME Upload!Cancel(c) \/ Upload!SaveFailed(c) PROVE UploadPreserved
  <2>1. PICK r : r = call[c].row
    OBVIOUS
  <2>2. UploadPuts(c, r) /\ call[c].pc \in {"cancel", "failed"}
    BY <1>1, <2>1, Zenon DEF Upload!Cancel, Upload!SaveFailed, Upload!At, Upload!Save,
       Upload!Unlock, UploadPuts, Resting, Upload!store, Upload!ghost
  <2>3. ASSUME UploadCoherent
        PROVE  /\ UploadWhole(r) /\ UploadKeeps(r) /\ r.files = row.files
               /\ \/ r.state = "Cancelled" /\ call[c].pc = "cancel"
                  \/ r.state = "Failed" /\ call[c].pc = "failed"
    <3>1. lock = c
      BY <2>2 DEF UploadPuts
    <3>2. UploadWhole(r) /\ UploadCopy(call[c])
      BY <2>1, <2>3, <3>1, UploadHolds
    <3>3. r.files = row.files
      BY <2>1, <2>2, <3>2, UploadKinds DEF UploadCopy
    <3> QED BY <2>1, <2>2, <3>2, <3>3 DEF UploadKeeps, UploadCopy
  <2>4. UploadAlone => r.state # "Cleaned"
    BY <2>1 DEF UploadAlone
  <2> QED BY <1>0, <2>1, <2>2, <2>3, <2>4, UploadSaves
<1> QED BY <1>1, Zenon

\* cleanup: nothing is left when the session is cleaned.
LEMMA CleanStep ==
  ASSUME UploadAssumption, UploadTypes, NEW c \in Uploader
  PROVE  Upload!Clean(c) => UploadPreserved
<1>0. call[c].row \in UploadRow
  BY UploadFields
<1>1. ASSUME Upload!Clean(c) PROVE UploadPreserved
  <2>1. PICK q : q = call[c].row
    OBVIOUS
  <2>2. PICK r : r = [q EXCEPT !.state = "Cleaned"]
    OBVIOUS
  <2>3. UploadPuts(c, r) /\ call[c].pc = "delete" /\ \A f \in File : object[f] = Nil
    BY <1>1, <2>1, <2>2, Zenon DEF Upload!Clean, Upload!At, Upload!Save, Upload!Unlock,
       UploadPuts, Resting, Upload!store, Upload!ghost
  <2>4. r \in UploadRow /\ r.files = q.files /\ r.state = "Cleaned"
    BY <1>0, <2>1, <2>2, UploadPhases DEF UploadRow
  <2>5. ASSUME UploadCoherent PROVE /\ UploadWhole(r) /\ UploadKeeps(r) /\ r.files = row.files
                                    /\ call[c].pc \in Cleaning
    <3>1. lock = c
      BY <2>3 DEF UploadPuts
    <3>2. UploadWhole(q) /\ UploadCopy(call[c])
      BY <2>1, <2>5, <3>1, UploadHolds
    <3>3. r.files = row.files
      BY <2>1, <2>3, <2>4, <3>2, UploadKinds DEF UploadCopy
    <3> QED BY <2>3, <2>4, <3>2, <3>3, UploadKinds DEF UploadWhole, UploadKeeps
  <2> QED BY <2>3, <2>4, <2>5, UploadSaves
<1> QED BY <1>1, Zenon

-----------------------------------------------------------------------------
(* A call goes on.                                                         *)

\* The phase and the copy of a call are replaced, its file stays.
LEMMA CallGoes ==
  ASSUME UploadTypes, NEW c \in Uploader, NEW p, NEW r, NEW k,
         k = [pc |-> p, row |-> r, file |-> call[c].file], UploadGoto(c, p, r)
  PROVE  call' = [call EXCEPT ![c] = k]
<1>1. call' = [call EXCEPT ![c].pc = p, ![c].row = r]
  BY Zenon DEF UploadGoto, Upload!Goto
<1>2. call \in [Uploader -> UploadCall]
  BY Zenon DEF UploadTypes
<1>3. DOMAIN call' = Uploader /\ \A d \in Uploader \ {c} : call'[d] = call[d]
  BY <1>1, <1>2
<1>4. call'[c] = k
  BY <1>1, <1>2 DEF UploadCall
<1>5. call' = [d \in Uploader |-> IF d = c THEN k ELSE call[d]]
  BY <1>1, <1>2, <1>3, <1>4
<1> QED BY <1>2, <1>5

\* While it is alone, a caller that goes on finds no session that is cleaned.
LEMMA AloneGoesOn ==
  ASSUME UploadAssumption, UploadTypes, UploadAlone, NEW c \in Uploader, NEW k,
         call' = [call EXCEPT ![c] = k], lock' = lock,
         call[c].pc # "idle", k.row.state # "Cleaned",
         row'.state = "Cleaned" => row.state = "Cleaned",
         k.pc = "delete" => \A f \in File : OpenParts(f)' = {}
  PROVE  UploadAlone'
<1>1. \A d \in Uploader : call'[d] = IF d = c THEN k ELSE call[d]
  BY DEF UploadTypes
<1>2. lock = c /\ (\A d \in Uploader : d # c => call[d].pc = "idle") /\ row.state # "Cleaned"
  BY DEF UploadAlone
<1>3. \A d \in Uploader : call[d].row.state # "Cleaned"
  BY DEF UploadAlone
<1> QED BY <1>1, <1>2, <1>3 DEF UploadAlone

\* A worker that registers goes on.
LEMMA UploadGoesOn ==
  ASSUME UploadAssumption, UploadTypes, NEW c \in Uploader, NEW k \in UploadCall,
         UNCHANGED <<row, group, lock, multi, object, day, overtaken, lost>>,
         call' = [call EXCEPT ![c] = k], faults' \in 0..MaxFaults,
         rowLock' \in Worker \cup {Nil, "in flight"},
         call[c].pc \in Judging, k.pc \in Judging,
         k.row.files = call[c].row.files, k.row.state \in {call[c].row.state, "Failed"},
         k.pc = "failed" => row.state # "Complete" /\ k.row.state = "Failed",
         UploadCoherent =>
           /\ k.pc = "commit" <=> rowLock' = c
           /\ \A w \in Uploader : w # c => (rowLock' = w <=> rowLock = w)
           /\ rowLock' = "in flight" \/ k.pc \in {"register", "commit"}
                => (UploadAlive => UploadKept)
  PROVE  UploadPreserved
<1>1. UploadTypes'
  BY DEF UploadTypes
<1>2. ASSUME UploadCoherent PROVE UploadCoherent'
  <2>1. /\ call[c].row.files = row.files /\ row.state \notin {"none", "Uploading"}
        /\ UploadWhole(call[c].row)
    BY <1>2 DEF UploadCoherent, UploadJudged, UploadCalls
  <2>2. UploadWhole(k.row) /\ UploadFinishing(k)
    BY <2>1, UploadKinds DEF UploadWhole, UploadFinishing
  <2>3. (\E w \in Uploader : call[w].pc \in Cleaning) => lock # c
    BY <1>2, UploadKinds DEF UploadCoherent, UploadCleaning
  <2>4. UploadAdmissible(c, k)
    BY <2>1, <2>2, <2>3, UploadKinds DEF UploadAdmissible
  <2>5. lock = c => UploadCopy(k)
    <3>1. lock = c => UploadCopy(call[c])
      BY <1>2 DEF UploadCoherent, UploadCalls
    <3> QED BY <2>1, <3>1, UploadKinds DEF UploadCopy
  <2>6. k.pc # "idle"
    BY UploadKinds
  <2> QED BY <1>2, <2>4, <2>5, <2>6, UploadCallChanges
<1>3. ASSUME UploadAlone PROVE UploadAlone'
  <2>1. call[c].row.state # "Cleaned"
    BY <1>3 DEF UploadAlone
  <2>2. call[c].pc # "idle" /\ k.pc # "delete" /\ k.row.state # "Cleaned"
    BY <2>1, UploadKinds
  <2> QED BY <1>3, <2>2, AloneGoesOn
<1> QED BY <1>1, <1>2, <1>3 DEF UploadPreserved

\* What a worker that registers knows of the transactions.
LEMMA UploadBusy ==
  ASSUME UploadAssumption, UploadTypes
  PROVE  /\ rowLock \in Worker \cup {Nil, "in flight"} /\ faults \in 0..MaxFaults
         /\ MaxFaults \in Nat
         /\ \A c \in Uploader : UploadCoherent =>
              /\ call[c].pc = "commit" <=> rowLock = c
              /\ call[c].pc \in Judging => call[c].row.files = row.files
              /\ rowLock = "in flight" \/ call[c].pc \in {"register", "commit"}
                   => (UploadAlive => UploadKept)
<1>1. MaxFaults \in Nat
  BY UploadBounds
<1>2. rowLock \in Worker \cup {Nil, "in flight"} /\ faults \in 0..MaxFaults
  BY Zenon DEF UploadTypes
<1>3. \A c \in Uploader : UploadCoherent =>
        /\ call[c].pc = "commit" <=> rowLock = c
        /\ call[c].pc \in Judging => call[c].row.files = row.files
        /\ rowLock = "in flight" \/ call[c].pc \in {"register", "commit"}
             => (UploadAlive => UploadKept)
  BY DEF UploadCoherent, UploadCommits, UploadJudged, UploadVerified
<1> QED BY <1>1, <1>2, <1>3

\* register: the files that were hashed are those of the row.
LEMMA VerifyStep ==
  ASSUME UploadAssumption, UploadTypes, NEW c \in Worker
  PROVE  Upload!Verify(c) => UploadPreserved
<1>0. c \in Uploader /\ call[c].row \in UploadRow /\ call[c].file \in File \cup {Nil}
  BY UploadFields, UploadNames
<1>1. ASSUME Upload!Verify(c) PROVE UploadPreserved
  <2>1. PICK q : q = call[c].row
    OBVIOUS
  <2>2. PICK p : p = IF Upload!Verified(q) THEN "register" ELSE "reread"
    OBVIOUS
  <2>3. PICK k : k = [pc |-> p, row |-> q, file |-> call[c].file]
    OBVIOUS
  <2>4. /\ call[c].pc = "verify" /\ UploadGoto(c, p, q)
        /\ UNCHANGED <<row, group, lock, rowLock, multi, object, day, faults, overtaken, lost>>
    BY <1>1, <2>1, <2>2, Zenon DEF Upload!Verify, UploadGoto, Upload!At, Upload!rows, Upload!store,
       Upload!ghost
  <2>5. call' = [call EXCEPT ![c] = k]
    BY <1>0, <2>3, <2>4, CallGoes
  <2>6. p \in {"register", "reread"}
    BY <2>2
  <2>7. k \in UploadCall /\ k.pc = p /\ k.row = q
    BY <1>0, <2>1, <2>3, <2>6, UploadPhases, UploadKinds DEF UploadCall
  <2>8. p = "register" => \A f \in File : q.files[f].complete /\ object[f] = q.files[f].sha
    BY <2>2, Zenon DEF Upload!Verified
  <2>9. /\ call[c].pc = "verify"
        /\ UNCHANGED <<row, group, lock, rowLock, multi, object, day, faults, overtaken, lost>>
    BY <2>4, Zenon
  <2>10. UploadCoherent =>
           /\ k.pc = "commit" <=> rowLock' = c
           /\ \A w \in Uploader : w # c => (rowLock' = w <=> rowLock = w)
           /\ rowLock' = "in flight" \/ k.pc \in {"register", "commit"}
                => (UploadAlive => UploadKept)
    <3>1. SUFFICES ASSUME UploadCoherent
                   PROVE  /\ rowLock # c
                          /\ rowLock = "in flight" \/ p = "register" => (UploadAlive => UploadKept)
      BY <2>6, <2>7, <2>9
    <3>2. q.files = row.files
      <4>1. call[c].pc \in Judging
        BY <2>9, UploadKinds
      <4> QED BY <1>0, <2>1, <3>1, <4>1, UploadBusy
    <3>3. p = "register" => UploadKept
      BY <2>8, <3>2 DEF UploadKept
    <3> QED BY <1>0, <2>9, <3>1, <3>3, UploadBusy
  <2>11. call[c].pc \in Judging /\ k.pc \in Judging /\ k.pc # "failed"
    BY <2>6, <2>7, <2>9, UploadKinds
  <2>12. faults' \in 0..MaxFaults /\ rowLock' \in Worker \cup {Nil, "in flight"}
    BY <2>9, UploadBusy
  <2> QED BY <1>0, <2>1, <2>5, <2>7, <2>9, <2>10, <2>11, <2>12, UploadGoesOn
<1> QED BY <1>1, Zenon

\* ... its transaction locks the row, or finds the key of the group taken.
LEMMA RegisterStep ==
  ASSUME UploadAssumption, UploadTypes, NEW c \in Worker
  PROVE  Upload!Register(c) => UploadPreserved
<1>a. c \in Uploader
  BY UploadNames
<1>0. /\ c \in Uploader /\ call[c].row \in UploadRow /\ call[c].file \in File \cup {Nil}
      /\ Nil \notin Uploader /\ "in flight" \notin Uploader
  BY UploadFields, UploadNames
<1>1. ASSUME Upload!Register(c) PROVE UploadPreserved
  <2>1. PICK q : q = call[c].row
    OBVIOUS
  <2>2. PICK p : p = IF group = "registered" THEN "reread" ELSE "commit"
    OBVIOUS
  <2>3. PICK k : k = [pc |-> p, row |-> q, file |-> call[c].file]
    OBVIOUS
  <2>4. UploadGoto(c, p, q)
    BY <1>1, <2>1, <2>2, Zenon DEF Upload!Register, UploadGoto
  <2>5. call' = [call EXCEPT ![c] = k]
    BY <1>a, <2>3, <2>4, CallGoes
  <2>6. p \in {"reread", "commit"}
    BY <2>2
  <2>7. k \in UploadCall /\ k.pc = p /\ k.row = q
    BY <1>0, <2>1, <2>3, <2>6, UploadPhases, UploadKinds DEF UploadCall
  <2>8. /\ call[c].pc = "register" /\ rowLock = Nil
        /\ rowLock' = IF p = "commit" THEN c ELSE rowLock
        /\ UNCHANGED <<row, group, lock, multi, object, day, faults, overtaken, lost>>
    <3>1. /\ call[c].pc = "register" /\ rowLock = Nil
          /\ group = "registered" => rowLock' = rowLock
          /\ group # "registered" => rowLock' = c
          /\ UNCHANGED <<row, group, lock, multi, object, day, faults, overtaken, lost>>
      BY <1>1, Zenon DEF Upload!Register, Upload!At, Upload!rows, Upload!store, Upload!ghost
    <3> QED BY <2>2, <3>1
  <2>9. UploadCoherent =>
           /\ k.pc = "commit" <=> rowLock' = c
           /\ \A w \in Uploader : w # c => (rowLock' = w <=> rowLock = w)
           /\ rowLock' = "in flight" \/ k.pc \in {"register", "commit"}
                => (UploadAlive => UploadKept)
    BY <1>0, <2>6, <2>7, <2>8, UploadBusy
  <2>10. call[c].pc \in Judging /\ k.pc \in Judging /\ k.pc # "failed"
    BY <2>6, <2>7, <2>8, UploadKinds
  <2>11. faults' \in 0..MaxFaults /\ rowLock' \in Worker \cup {Nil, "in flight"}
    BY <2>8, UploadBusy
  <2> QED BY <1>0, <2>1, <2>5, <2>7, <2>8, <2>9, <2>10, <2>11, UploadGoesOn
<1> QED BY <1>1, Zenon

\* The transaction ends without an answer, or goes on without its worker.
LEMMA CommitFailsStep ==
  ASSUME UploadAssumption, UploadTypes, NEW c \in Worker
  PROVE  Upload!CommitFails(c) => UploadPreserved
<1>a. c \in Uploader
  BY UploadNames
<1>0. /\ c \in Uploader /\ call[c].row \in UploadRow /\ call[c].file \in File \cup {Nil}
      /\ Nil \notin Uploader /\ "in flight" \notin Uploader
  BY UploadFields, UploadNames
<1>1. ASSUME Upload!CommitFails(c) PROVE UploadPreserved
  <2>1. PICK q : q = call[c].row
    OBVIOUS
  <2>2. PICK k : k = [pc |-> "reread", row |-> q, file |-> call[c].file]
    OBVIOUS
  <2>3. UploadGoto(c, "reread", q)
    BY <1>1, <2>1, Zenon DEF Upload!CommitFails, UploadGoto
  <2>4. call' = [call EXCEPT ![c] = k]
    BY <1>a, <2>2, <2>3, CallGoes
  <2>5. k \in UploadCall /\ k.pc = "reread" /\ k.row = q
    BY <1>0, <2>1, <2>2, UploadPhases, UploadKinds DEF UploadCall
  <2>6. /\ call[c].pc = "commit" /\ rowLock' \in {Nil, "in flight"}
        /\ faults < MaxFaults /\ faults' = faults + 1
        /\ UNCHANGED <<row, group, lock, multi, object, day, overtaken, lost>>
    BY <1>1, Zenon DEF Upload!CommitFails, Upload!At, Upload!rows, Upload!store, Upload!ghost
  <2>7. UploadCoherent =>
           /\ k.pc = "commit" <=> rowLock' = c
           /\ \A w \in Uploader : w # c => (rowLock' = w <=> rowLock = w)
           /\ rowLock' = "in flight" \/ k.pc \in {"register", "commit"}
                => (UploadAlive => UploadKept)
    BY <1>0, <2>5, <2>6, UploadBusy
  <2>8. call[c].pc \in Judging /\ k.pc \in Judging /\ k.pc # "failed"
    BY <2>5, <2>6, UploadKinds
  <2>9. faults' \in 0..MaxFaults /\ rowLock' \in Worker \cup {Nil, "in flight"}
    <3>1. faults \in 0..MaxFaults /\ MaxFaults \in Nat
      BY UploadBusy
    <3>2. faults' \in 0..MaxFaults
      <4>1. faults < MaxFaults /\ faults' = faults + 1
        BY <2>6
      <4> QED BY <3>1, <4>1
    <3>3. rowLock' \in {Nil, "in flight"}
      BY <2>6
    <3> QED BY <3>2, <3>3
  <2> QED BY <1>0, <2>1, <2>4, <2>5, <2>6, <2>7, <2>8, <2>9, UploadGoesOn
<1> QED BY <1>1, Zenon

\* "Re-read after an ambiguous commit before changing state."
LEMMA RereadStep ==
  ASSUME UploadAssumption, UploadTypes, NEW c \in Worker
  PROVE  Upload!Reread(c) => UploadPreserved
<1>a. c \in Uploader
  BY UploadNames
<1>0. /\ c \in Uploader /\ call[c].row \in UploadRow /\ call[c].file \in File \cup {Nil}
      /\ faults \in 0..MaxFaults /\ rowLock \in Worker \cup {Nil, "in flight"}
  BY UploadFields, UploadNames, UploadBusy
<1>1. ASSUME Upload!Reread(c) PROVE UploadPreserved
  <2>0. /\ call[c].pc = "reread"
        /\ UNCHANGED <<row, group, rowLock, multi, object, day, faults, overtaken, lost>>
    BY <1>1, Zenon DEF Upload!Reread, Upload!At, Upload!rows, Upload!store, Upload!ghost
  <2>1. CASE row.state = "Complete"
    <3>1. lock' = (IF lock = c THEN Nil ELSE lock) /\ call' = [call EXCEPT ![c] = Resting]
      BY <1>1, <2>1, Zenon DEF Upload!Reread, Upload!Unlock, Resting
    <3> QED BY <1>0, <2>0, <3>1, UploadEnds
  <2>2. CASE row.state # "Complete"
    <3>1. PICK q : q = [call[c].row EXCEPT !.state = "Failed"]
      OBVIOUS
    <3>2. PICK k : k = [pc |-> "failed", row |-> q, file |-> call[c].file]
      OBVIOUS
    <3>3. UploadGoto(c, "failed", q) /\ lock' = lock
      BY <1>1, <2>2, <3>1, Zenon DEF Upload!Reread, UploadGoto
    <3>4. call' = [call EXCEPT ![c] = k] /\ lock' = lock
      BY <1>a, <3>2, <3>3, CallGoes
    <3>5. q \in UploadRow /\ q.files = call[c].row.files /\ q.state = "Failed"
      <4>1. PICK o : o = call[c].row
        OBVIOUS
      <4> QED BY <1>0, <3>1, <4>1, UploadPhases DEF UploadRow
    <3>6. k \in UploadCall /\ k.pc = "failed" /\ k.row = q
      BY <1>0, <3>2, <3>5, UploadPhases, UploadKinds DEF UploadCall
    <3>7. UploadCoherent =>
             /\ k.pc = "commit" <=> rowLock' = c
             /\ \A w \in Uploader : w # c => (rowLock' = w <=> rowLock = w)
             /\ rowLock' = "in flight" \/ k.pc \in {"register", "commit"}
                  => (UploadAlive => UploadKept)
      BY <1>0, <2>0, <3>6, UploadBusy
    <3>8. call[c].pc \in Judging /\ k.pc \in Judging
      BY <2>0, <3>6, UploadKinds
    <3> QED BY <1>0, <2>0, <2>2, <3>4, <3>5, <3>6, <3>7, <3>8, UploadGoesOn
  <2> QED BY <2>1, <2>2
<1> QED BY <1>1, Zenon

-----------------------------------------------------------------------------
(* What breaks, and what needs no call.                                    *)

\* A request ends early, and its transaction may go on without it.
LEMMA DropStep ==
  ASSUME UploadAssumption, UploadTypes, NEW c \in Uploader
  PROVE  Upload!Drop(c) => UploadPreserved
<1>1. ASSUME Upload!Drop(c) PROVE UploadPreserved
  <2>1. /\ lock' = (IF lock = c THEN Nil ELSE lock) /\ call' = [call EXCEPT ![c] = Resting]
        /\ UNCHANGED <<row, group, multi, object, day, overtaken, lost>>
        /\ faults < MaxFaults /\ faults' = faults + 1
        /\ rowLock' \in (IF rowLock = c THEN {Nil, "in flight"} ELSE {rowLock})
    BY <1>1, Zenon DEF Upload!Drop, Upload!Unlock, Upload!rows, Upload!store, Upload!ghost, Resting
  <2>2. faults' \in 0..MaxFaults
    <3>1. faults \in 0..MaxFaults /\ MaxFaults \in Nat
      BY UploadBusy
    <3>2. faults < MaxFaults /\ faults' = faults + 1
      BY <2>1
    <3> QED BY <3>1, <3>2
  <2>3. \/ rowLock' = rowLock /\ rowLock # c
        \/ rowLock' \in {Nil, "in flight"} /\ rowLock = c
    BY <2>1
  <2> QED BY <2>1, <2>2, <2>3, UploadEnds
<1> QED BY <1>1, Zenon

\* A call that cannot go on ends.
LEMMA GiveUpStep ==
  ASSUME UploadAssumption, UploadTypes, NEW c \in Uploader
  PROVE  Upload!GiveUp(c) => UploadPreserved
<1>1. ASSUME Upload!GiveUp(c) PROVE UploadPreserved
  <2>1. /\ lock' = (IF lock = c THEN Nil ELSE lock) /\ call' = [call EXCEPT ![c] = Resting]
        /\ UNCHANGED <<row, group, rowLock, multi, object, day, faults, overtaken, lost>>
    BY <1>1, Zenon DEF Upload!GiveUp, Upload!Unlock, Upload!rows, Upload!store, Upload!ghost,
       Resting
  <2>2. call[c].pc \in {"part", "list", "completing", "head", "confirm", "cancel", "reread",
                        "failed", "delete", "finish"}
    BY <1>1, Zenon DEF Upload!GiveUp, Upload!Broken, Upload!At
  <2>3. call[c].pc # "commit"
    BY <2>2
  <2>4. faults' \in 0..MaxFaults
    BY <2>1, UploadBusy
  <2> QED BY <2>1, <2>3, <2>4, UploadEnds
<1> QED BY <1>1, Zenon

\* A lock is given back, or a transaction is over, and nothing else happens.
LEMMA UploadReleases ==
  ASSUME UploadAssumption, UploadTypes, UploadCoherent,
         UNCHANGED <<row, group, call, multi, object, day>>, lock' \in {lock, Nil},
         \/ rowLock' = rowLock
         \/ rowLock = "in flight" /\ rowLock' = Nil
  PROVE  UploadCoherent'
<1>0. Nil \notin Uploader /\ "in flight" \notin Uploader /\ "in flight" # Nil
  BY UploadNames
<1>1. \A d \in Uploader : lock' = d => lock = d
  BY <1>0
<1>2. UploadWhole(row)' /\ UploadCalls'
  BY <1>1 DEF UploadCoherent, UploadWhole, UploadCalls, UploadFinishing, UploadCopy, UploadKeeps
<1>3. UploadOrigin'
  BY OpenSame DEF UploadOrigin, UploadCoherent
<1>4. UploadJudged' /\ UploadFresh' /\ UploadCommits'
  BY <1>0 DEF UploadCoherent, UploadJudged, UploadCommits, UploadFresh
<1>5. UploadKept' <=> UploadKept
  BY DEF UploadKept
<1>6. UploadAlive' => UploadAlive
  BY <1>1 DEF UploadAlive
<1>7. UploadRegistered' /\ UploadVerified'
  BY <1>0, <1>5, <1>6 DEF UploadCoherent, UploadRegistered, UploadVerified
<1>8. UploadCleaning'
  BY <1>1 DEF UploadCoherent, UploadCleaning, UploadDoomed
<1> QED BY <1>2, <1>3, <1>4, <1>7, <1>8 DEF UploadCoherent

\* PostgreSQL ends the connection that held the lock.
LEMMA LoseLockStep ==
  ASSUME UploadAssumption, UploadTypes, NEW c \in Uploader
  PROVE  Upload!LoseLock(c) => UploadPreserved
<1>1. ASSUME Upload!LoseLock(c) PROVE UploadPreserved
  <2>1. /\ UNCHANGED <<row, group, rowLock, call, multi, object, day, overtaken>>
        /\ lock' = Nil /\ lost' = TRUE /\ faults < MaxFaults /\ faults' = faults + 1
    BY <1>1, Zenon DEF Upload!LoseLock, Upload!rows, Upload!store
  <2>2. faults' \in 0..MaxFaults
    <3>1. faults \in 0..MaxFaults /\ MaxFaults \in Nat
      BY UploadBusy
    <3>2. faults < MaxFaults /\ faults' = faults + 1
      BY <2>1
    <3> QED BY <3>1, <3>2
  <2>3. UploadTypes'
    BY <2>1, <2>2 DEF UploadTypes
  <2>4. UploadCoherent => UploadCoherent'
    BY <2>1, UploadReleases
  <2> QED BY <2>1, <2>3, <2>4 DEF UploadPreserved
<1> QED BY <1>1, Zenon

\* A registration takes effect: who expects it finds the files that were verified.
LEMMA RegisteredStep ==
  ASSUME UploadAssumption, UploadTypes, NEW c,
         \/ rowLock = "in flight" /\ call' = call /\ lock' = lock
         \/ /\ c \in Uploader /\ call[c].pc = "commit"
            /\ call' = [call EXCEPT ![c] = Resting]
            /\ lock' = IF lock = c THEN Nil ELSE lock,
         rowLock' = Nil, UNCHANGED <<multi, object, day, faults, lost>>
  PROVE  Upload!Registered => UploadPreserved
<1>0. /\ row \in UploadRow /\ call \in [Uploader -> UploadCall]
      /\ Resting \in UploadCall /\ Resting.pc = "idle" /\ Resting.row.state # "Cleaned"
      /\ Nil \notin Uploader
  <2>1. Resting.row = NoUpload /\ NoUpload.state = "none"
    BY EmptyRow
  <2> QED BY <2>1, EmptyRow, UploadFields, UploadNames
<1>1. ASSUME Upload!Registered PROVE UploadPreserved
  <2>1. PICK r : r = [row EXCEPT !.state = "Complete"]
    OBVIOUS
  <2>2. PICK o : o = Upload!Overtakes
    OBVIOUS
  <2>3. row' = r /\ group' = "registered" /\ overtaken' = (overtaken \/ o)
    BY <1>1, <2>1, <2>2, Zenon DEF Upload!Registered
  <2>4. r \in UploadRow /\ r.files = row.files /\ r.state = "Complete"
    BY <1>0, <2>1, UploadPhases DEF UploadRow
  <2>5. \A d \in Uploader : call'[d] = call[d] \/ (d = c /\ call'[d] = Resting)
    BY <1>0
  <2>6. \A d \in Uploader : lock' = d => lock = d /\ call'[d] = call[d]
    BY <1>0, <2>5
  <2>7. overtaken' \in BOOLEAN
    <3>1. o \in BOOLEAN
      BY <2>2, Zenon DEF Upload!Overtakes
    <3>2. overtaken \in BOOLEAN
      BY Zenon DEF UploadTypes
    <3> QED BY <2>3, <3>1, <3>2
  <2>8. UploadTypes'
    <3>1. call' \in [Uploader -> UploadCall]
      BY <1>0
    <3>2. lock' \in Uploader \cup {Nil}
      BY DEF UploadTypes
    <3> QED BY <2>3, <2>4, <2>7, <3>1, <3>2 DEF UploadTypes
  <2>9. ASSUME UploadCoherent, ~overtaken' PROVE UploadCoherent'
    <3>1. ~o
      BY <2>3, <2>9, Zenon
    <3>2. /\ row.state = "Confirming"
          /\ \A d \in Uploader : lock = d => call[d].pc \notin {"cancel", "failed"}
      BY <2>2, <3>1, Zenon DEF Upload!Overtakes, Uploader
    <3>3. \/ rowLock = "in flight"
          \/ \E d \in Uploader : call[d].pc = "commit" /\ call'[d] = Resting
      <4>1. \/ rowLock = "in flight"
            \/ c \in Uploader /\ call[c].pc = "commit" /\ call'[c] = Resting
        BY <1>0
      <4> QED BY <4>1
    <3>6. \A d \in Uploader : call'[d] \in {call[d], Resting}
      BY <2>5
    <3>4. UploadCoherent /\ group' = "registered" /\ row' = r
      BY <2>3, <2>9
    <3>5. UNCHANGED <<multi, object, day>> /\ rowLock' = Nil
      OBVIOUS
    <3> QED BY <2>4, <2>6, <3>2, <3>3, <3>4, <3>5, <3>6, UploadRegisters
  <2>10. ASSUME UploadAlone PROVE UploadAlone'
    <3>1. \A d \in Uploader : call'[d].pc # "idle" => lock' = d
      <4>1. \A d \in Uploader : call[d].pc # "idle" => lock = d
        BY <2>10 DEF UploadAlone
      <4> QED BY <1>0, <4>1
    <3>2. \A d \in Uploader : call'[d].row.state # "Cleaned"
      BY <1>0, <2>5, <2>10 DEF UploadAlone
    <3>3. \A d \in Uploader : call'[d].pc = "delete" => call[d].pc = "delete"
      BY <1>0, <2>5
    <3>4. \A f \in File : OpenParts(f)' = OpenParts(f)
      BY OpenSame
    <3> QED BY <2>3, <2>4, <2>10, <3>1, <3>2, <3>3, <3>4 DEF UploadAlone
  <2>11. (overtaken => overtaken') /\ (lost => lost')
    BY <2>3
  <2> QED BY <2>8, <2>9, <2>10, <2>11 DEF UploadPreserved
<1> QED BY <1>1, Zenon

LEMMA CommitStep ==
  ASSUME UploadAssumption, UploadTypes, NEW c \in Worker
  PROVE  Upload!Commit(c) => UploadPreserved
<1>1. ASSUME Upload!Commit(c) PROVE UploadPreserved
  <2>1. c \in Uploader
    BY UploadNames
  <2>2. /\ call[c].pc = "commit" /\ Upload!Registered /\ rowLock' = Nil
        /\ call' = [call EXCEPT ![c] = Resting] /\ lock' = (IF lock = c THEN Nil ELSE lock)
        /\ UNCHANGED <<multi, object, day, faults, lost>>
    BY <1>1, Zenon DEF Upload!Commit, Upload!At, Upload!Unlock, Upload!store, Resting
  <2> QED BY <2>1, <2>2, RegisteredStep, Zenon
<1> QED BY <1>1, Zenon

LEMMA InFlightStep ==
  ASSUME UploadAssumption, UploadTypes
  PROVE  Upload!InFlight => UploadPreserved
<1>1. ASSUME Upload!InFlight PROVE UploadPreserved
  <2>1. /\ rowLock = "in flight" /\ rowLock' = Nil
        /\ UNCHANGED <<lock, call, multi, object, day, faults, lost>>
    BY <1>1, Zenon DEF Upload!InFlight, Upload!store
  <2>2. CASE Upload!Registered
    BY <2>1, <2>2, RegisteredStep, Zenon
  <2>3. CASE UNCHANGED <<row, group, overtaken>>
    <3>1. UploadTypes'
      BY <2>1, <2>3 DEF UploadTypes
    <3>2. UploadCoherent => UploadCoherent'
      BY <2>1, <2>3, UploadReleases
    <3>3. UploadAlone => UploadAlone'
      BY <2>1, <2>3, OpenSame DEF UploadAlone
    <3> QED BY <2>1, <2>3, <3>1, <3>2, <3>3 DEF UploadPreserved
  <2> QED BY <1>1, <2>2, <2>3, Zenon DEF Upload!InFlight, Upload!rows
<1> QED BY <1>1, Zenon

LEMMA NextDayStep ==
  ASSUME UploadAssumption, UploadTypes
  PROVE  Upload!NextDay => UploadPreserved
<1>1. ASSUME Upload!NextDay PROVE UploadPreserved
  <2>1. /\ day < MaxDay /\ day' = day + 1
        /\ UNCHANGED <<row, group, lock, rowLock, call, multi, object, faults, overtaken, lost>>
    BY <1>1, Zenon DEF Upload!NextDay, Upload!rows, Upload!store, Upload!ghost
  <2>2. day' \in 0..MaxDay
    <3>1. day < MaxDay /\ day' = day + 1
      BY <2>1
    <3>2. day \in 0..MaxDay /\ MaxDay \in Nat
      BY UploadFields, UploadBounds
    <3> QED BY <3>1, <3>2
  <2>3. UploadTypes'
    BY <2>1, <2>2 DEF UploadTypes
  <2>4. UploadCoherent => UploadCoherent'
    BY <2>1, UploadDayPasses
  <2>5. UploadAlone => UploadAlone'
    BY <2>1, OpenSame DEF UploadAlone
  <2> QED BY <2>1, <2>3, <2>4, <2>5 DEF UploadPreserved
<1> QED BY <1>1, Zenon

\* A call goes on while the store changes.
LEMMA UploadStores ==
  ASSUME UploadAssumption, UploadTypes, NEW c \in Uploader, NEW k \in UploadCall,
         call' = [call EXCEPT ![c] = k], k.row.state = call[c].row.state,
         UNCHANGED <<row, group, lock, rowLock, day, faults, overtaken, lost>>,
         multi' \in [File -> Seq(Part)], object' \in [File -> Content \cup {Nil}],
         \A f \in File : Len(multi[f]) <= Len(multi'[f]) /\ Len(multi'[f]) <= MaxMultipart,
         \/ call[c].pc \in Editing /\ k.pc \in Editing
         \/ call[c].pc \in Cleaning /\ k.pc \in Cleaning /\ k.row = call[c].row,
         UploadAlone /\ k.pc = "delete" => \A f \in File : OpenParts(f)' = {},
         UploadCoherent =>
           /\ \A f \in File, i \in Nat :
                i \in OpenParts(f)' /\ i <= Len(multi[f]) => i \in OpenParts(f)
           /\ \A f \in File : object'[f] \in {object[f], Nil}
                \/ (row.files[f].upload # 0 /\ row.files[f].upload \notin OpenParts(f)')
           /\ UploadKept /\ (UploadAlive \/ group = "registered") => UploadKept'
           /\ UploadWhole(k.row)' /\ UploadFinishing(k)
           /\ call[c].pc \in Editing /\ lock = c => UploadCopy(k)
  PROVE  UploadPreserved
<1>1. UploadTypes'
  BY DEF UploadTypes
<1>2. ASSUME UploadCoherent PROVE UploadCoherent'
  <2>1. \A d \in Uploader : call'[d] = IF d = c THEN k ELSE call[d]
    BY DEF UploadTypes
  <2>2. \A f \in File : Len(multi[f]) <= Len(multi'[f])
    OBVIOUS
  <2>3. /\ UploadWhole(k.row)' /\ UploadFinishing(k)
        /\ \/ call[c].pc \in Editing /\ k.pc \in Editing /\ (lock = c => UploadCopy(k))
           \/ call[c].pc \in Cleaning /\ k.pc \in Cleaning /\ k.row = call[c].row
    BY <1>2
  <2> QED BY <1>2, <2>1, <2>2, <2>3, UploadStoreChanges
<1>3. ASSUME UploadAlone PROVE UploadAlone'
  <2>1. call[c].pc # "idle"
    BY UploadKinds
  <2>2. k.row.state # "Cleaned"
    BY <1>3 DEF UploadAlone
  <2> QED BY <1>3, <2>1, <2>2, AloneGoesOn
<1> QED BY <1>1, <1>2, <1>3 DEF UploadPreserved

\* The uploads that are open, of a store of the right type.
LEMMA OpenIs ==
  /\ multi \in [File -> Seq(Part)] =>
       \A f \in File : OpenParts(f) = {i \in 1..Len(multi[f]) : multi[f][i].open}
  /\ multi' \in [File -> Seq(Part)] =>
       \A f \in File : OpenParts(f)' = {i \in 1..Len(multi'[f]) : multi'[f][i].open}
  BY DEF OpenParts, Upload!Open

\* cleanup closes what is open.
LEMMA AbortPartsStep ==
  ASSUME UploadAssumption, UploadTypes, NEW c \in Worker
  PROVE  Upload!AbortParts(c) => UploadPreserved
<1>0. /\ c \in Uploader /\ call[c].row \in UploadRow /\ call[c].file \in File \cup {Nil}
      /\ multi \in [File -> Seq(Part)] /\ \A f \in File : Len(multi[f]) \in Nat
  BY UploadFields, UploadNames
<1>1. ASSUME Upload!AbortParts(c) PROVE UploadPreserved
  <2>1. PICK q : q = call[c].row
    OBVIOUS
  <2>2. PICK k : k = [pc |-> "delete", row |-> q, file |-> call[c].file]
    OBVIOUS
  <2>3. /\ call[c].pc = "abort" /\ UploadGoto(c, "delete", q)
        /\ multi' = [f \in File |-> [i \in DOMAIN multi[f] |-> [multi[f][i] EXCEPT !.open = FALSE]]]
        /\ UNCHANGED <<row, group, lock, rowLock, object, day, faults, overtaken, lost>>
    BY <1>1, <2>1, Zenon DEF Upload!AbortParts, Upload!At, UploadGoto, Upload!rows, Upload!ghost
  <2>4. c \in Uploader
    BY <1>0
  <2>5. call' = [call EXCEPT ![c] = k]
    BY <2>2, <2>3, <2>4, CallGoes
  <2>6. k \in UploadCall /\ k.pc = "delete" /\ k.row = q
    BY <1>0, <2>1, <2>2, UploadPhases, UploadKinds DEF UploadCall
  <2>7. ASSUME NEW f \in File
        PROVE  /\ multi'[f] \in Seq(Part) /\ Len(multi'[f]) = Len(multi[f])
               /\ \A i \in 1..Len(multi'[f]) : ~multi'[f][i].open
    <3>1. PICK m : m = multi[f]
      OBVIOUS
    <3>2. PICK n : n = [i \in 1..Len(m) |-> [m[i] EXCEPT !.open = FALSE]]
      OBVIOUS
    <3>3. m \in Seq(Part) /\ Len(m) \in Nat /\ DOMAIN m = 1..Len(m)
      BY <1>0, <3>1
    <3>4. multi'[f] = n
      BY <2>3, <3>1, <3>2, <3>3
    <3>5. ASSUME NEW i \in 1..Len(m)
          PROVE  /\ [m[i] EXCEPT !.open = FALSE] \in Part
                 /\ ~[m[i] EXCEPT !.open = FALSE].open
      <4>1. PICK e : e = m[i]
        OBVIOUS
      <4>2. e \in Part
        BY <3>3, <4>1
      <4>3. [e EXCEPT !.open = FALSE] \in Part /\ ~[e EXCEPT !.open = FALSE].open
        BY <4>2 DEF Part
      <4> QED BY <4>1, <4>3
    <3>6. n \in [1..Len(m) -> Part]
      BY <3>2, <3>5
    <3>7. \A i \in 1..Len(m) : ~n[i].open
      BY <3>2, <3>5
    <3>8. n \in Seq(Part) /\ Len(n) = Len(m)
      BY <3>3, <3>6, SequenceIs
    <3> QED BY <3>1, <3>4, <3>7, <3>8
  <2>8. multi' \in [File -> Seq(Part)]
    <3>1. DOMAIN multi' = File /\ multi' = [f \in File |-> multi'[f]]
      BY <2>3
    <3> QED BY <2>7, <3>1
  <2>9. \A f \in File : OpenParts(f)' = {}
    BY <2>7, <2>8, OpenIs
  <2>10. \A f \in File : Len(multi[f]) <= Len(multi'[f]) /\ Len(multi'[f]) <= MaxMultipart
    <3>1. \A f \in File : Len(multi[f]) <= MaxMultipart
      BY Zenon DEF UploadTypes
    <3> QED BY <1>0, <2>7, <3>1
  <2>11. UploadCoherent => UploadWhole(k.row)' /\ UploadFinishing(k)
    <3>1. UploadCoherent => UploadWhole(q)
      BY <2>1, <2>4 DEF UploadCoherent, UploadCalls
    <3> QED BY <2>6, <2>7, <3>1 DEF UploadWhole, UploadFinishing
  <2>12. /\ call[c].pc \in Cleaning /\ k.pc \in Cleaning /\ k.row = call[c].row
         /\ call[c].pc \notin Editing
    BY <2>1, <2>3, <2>6, UploadKinds
  <2>13. UploadKept => UploadKept'
    BY <2>3 DEF UploadKept
  <2>14. /\ UNCHANGED <<row, group, lock, rowLock, object, day, faults, overtaken, lost>>
         /\ object \in [File -> Content \cup {Nil}]
    <3>1. object \in [File -> Content \cup {Nil}]
      BY Zenon DEF UploadTypes
    <3> QED BY <2>3, <3>1
  <2> QED
    BY <2>4, <2>5, <2>6, <2>8, <2>9, <2>10, <2>11, <2>12, <2>13, <2>14, UploadStores
<1> QED BY <1>1, Zenon

\* ... and deletes the objects, which nobody can register any more.
LEMMA DeleteFileStep ==
  ASSUME UploadAssumption, UploadTypes, NEW c \in Worker, NEW g \in File
  PROVE  Upload!DeleteFile(c, g) => UploadPreserved
<1>0. /\ c \in Uploader /\ multi \in [File -> Seq(Part)] /\ call[c] \in UploadCall
      /\ call \in [Uploader -> UploadCall] /\ \A f \in File : Len(multi[f]) \in Nat
  BY UploadFields, UploadNames
<1>1. ASSUME Upload!DeleteFile(c, g) PROVE UploadPreserved
  <2>1. PICK k : k = call[c]
    OBVIOUS
  <2>2. /\ call[c].pc = "delete" /\ object' = [object EXCEPT ![g] = Nil]
        /\ UNCHANGED <<row, group, lock, rowLock, call, multi, day, faults, overtaken, lost>>
    BY <1>1, Zenon DEF Upload!DeleteFile, Upload!At, Upload!rows, Upload!ghost
  <2>3. /\ call' = [call EXCEPT ![c] = k] /\ k \in UploadCall /\ k.pc = "delete"
        /\ k.row = call[c].row
    BY <1>0, <2>1, <2>2
  <2>4. k.pc \in Cleaning /\ call[c].pc \in Cleaning /\ call[c].pc \notin Editing
    BY <2>2, <2>3, UploadKinds
  <2>5. /\ object' \in [File -> Content \cup {Nil}]
        /\ \A f \in File : object'[f] \in {object[f], Nil}
    <3>1. object \in [File -> Content \cup {Nil}]
      BY Zenon DEF UploadTypes
    <3> QED BY <2>2, <3>1
  <2>6. \A f \in File : OpenParts(f)' = OpenParts(f)
    BY <2>2, OpenSame
  <2>7. \A f \in File : Len(multi[f]) <= Len(multi'[f]) /\ Len(multi'[f]) <= MaxMultipart
    <3>1. \A f \in File : Len(multi[f]) <= MaxMultipart
      BY Zenon DEF UploadTypes
    <3> QED BY <1>0, <2>2, <3>1
  <2>8. ASSUME UploadCoherent
        PROVE  /\ UploadWhole(k.row)' /\ UploadFinishing(k)
               /\ ~(UploadAlive \/ group = "registered")
    <3>1. /\ UploadDoomed
          /\ \A d \in Uploader : lock = d => call[d].pc = "cancel" \/ call[d].pc \in Cleaning
      BY <1>0, <2>4, <2>8 DEF UploadCoherent, UploadCleaning
    <3>2. row.expires \in Int /\ day \in Int
      BY UploadFields
    <3>3. ~UploadAlive
      BY <3>1, <3>2, UploadKinds DEF UploadAlive, UploadDoomed
    <3>4. group # "registered"
      BY <2>8, <3>1 DEF UploadCoherent, UploadRegistered, UploadDoomed
    <3>5. UploadWhole(k.row) /\ UploadFinishing(k)
      BY <1>0, <2>1, <2>8 DEF UploadCoherent, UploadCalls
    <3> QED BY <2>2, <3>3, <3>4, <3>5 DEF UploadWhole
  <2>9. UploadAlone => \A f \in File : OpenParts(f)' = {}
    BY <1>0, <2>2, <2>6 DEF UploadAlone
  <2>10. /\ UNCHANGED <<row, group, lock, rowLock, day, faults, overtaken, lost>>
         /\ multi' \in [File -> Seq(Part)]
    BY <1>0, <2>2
  <2> QED
    BY <1>0, <2>3, <2>4, <2>5, <2>6, <2>7, <2>8, <2>9, <2>10, UploadStores
<1> QED BY <1>1, Zenon

\* One part of a sequence changes.
LEMMA PartChanges ==
  ASSUME NEW m \in Seq(Part), NEW i \in 1..Len(m), NEW n, n = [m EXCEPT ![i].open = FALSE]
  PROVE  /\ n \in Seq(Part) /\ Len(n) = Len(m) /\ ~n[i].open
         /\ \A j \in 1..Len(m) : n[j].open => m[j].open
<1>1. PICK e : e = [m[i] EXCEPT !.open = FALSE]
  OBVIOUS
<1>2. e \in Part /\ ~e.open
  <2>1. PICK o : o = m[i]
    OBVIOUS
  <2>2. o \in Part /\ e = [o EXCEPT !.open = FALSE]
    BY <1>1, <2>1
  <2> QED BY <2>2 DEF Part
<1>3. n = [m EXCEPT ![i] = e]
  BY <1>1
<1>4. n \in [1..Len(m) -> Part] /\ n[i] = e /\ \A j \in 1..Len(m) : j # i => n[j] = m[j]
  <2>1. DOMAIN m = 1..Len(m) /\ Len(m) \in Nat /\ \A j \in 1..Len(m) : m[j] \in Part
    OBVIOUS
  <2>2. n = [j \in 1..Len(m) |-> IF j = i THEN e ELSE m[j]]
    BY <1>3, <2>1
  <2> QED BY <1>2, <2>1, <2>2
<1>5. n \in Seq(Part) /\ Len(n) = Len(m)
  BY <1>4, SequenceIs
<1> QED BY <1>2, <1>4, <1>5

\* complete_file: the row says that the file is being completed.
LEMMA MarkCompletingStep ==
  ASSUME UploadAssumption, UploadTypes, NEW c \in Request
  PROVE  Upload!MarkCompleting(c) => UploadPreserved
<1>0. c \in Uploader /\ call[c].row \in UploadRow /\ call[c].file \in File \cup {Nil}
  BY UploadFields, UploadNames
<1>1. ASSUME Upload!MarkCompleting(c) PROVE UploadPreserved
  <2>1. PICK q : q = call[c].row
    OBVIOUS
  <2>2. PICK k : k = [pc |-> "finish", row |-> q, file |-> call[c].file]
    OBVIOUS
  <2>3. /\ call[c].pc = "completing" /\ UploadGoto(c, "finish", q) /\ row' = q
        /\ lock = c /\ rowLock = Nil /\ lock' = lock
        /\ UNCHANGED <<group, rowLock, multi, object, day, faults, overtaken, lost>>
    BY <1>1, <2>1, Zenon DEF Upload!MarkCompleting, Upload!At, Upload!Save, UploadGoto,
       Upload!store, Upload!ghost
  <2>4. c \in Uploader
    BY <1>0
  <2>5. call' = [call EXCEPT ![c] = k]
    BY <2>2, <2>3, <2>4, CallGoes
  <2>6. k \in UploadCall /\ k.pc = "finish" /\ k.row = q /\ k.file = call[c].file /\ q \in UploadRow
    BY <1>0, <2>1, <2>2, UploadPhases, UploadKinds DEF UploadCall
  <2>7. UploadTypes'
    BY <2>3, <2>5, <2>6 DEF UploadTypes
  <2>8. ASSUME UploadCoherent PROVE UploadCoherent'
    <3>1. UploadWhole(q) /\ UploadFinishing(call[c]) /\ UploadCopy(call[c])
      BY <2>1, <2>3, <2>4, <2>8, UploadHolds
    <3>2. UploadKeeps(q) /\ q.state = "Uploading"
      BY <2>1, <2>3, <3>1, UploadKinds DEF UploadCopy
    <3>3. UploadFinishing(k)'
      BY <2>1, <2>3, <2>6, <3>1 DEF UploadFinishing
    <3>4. UploadCopy(k)'
      BY <2>3, <2>6, <3>2, UploadKinds DEF UploadCopy, UploadKeeps
    <3>5. k.pc \in Editing /\ call[c].pc \in Editing
      BY <2>3, <2>6, UploadKinds
    <3>6. /\ lock' = c /\ UNCHANGED <<group, rowLock, multi, object, day>>
      BY <2>3
    <3> QED
      BY <2>3, <2>4, <2>5, <2>6, <2>8, <3>1, <3>2, <3>3, <3>4, <3>5, <3>6, UploadRowChanges
  <2>9. ASSUME UploadAlone PROVE UploadAlone'
    <3>1. q.state # "Cleaned"
      BY <2>1, <2>4, <2>9 DEF UploadAlone
    <3>2. /\ lock' = lock /\ call[c].pc # "idle" /\ k.row.state # "Cleaned" /\ row'.state # "Cleaned"
          /\ k.pc # "delete"
      BY <2>3, <2>6, <3>1
    <3> QED BY <2>4, <2>5, <2>9, <3>2, AloneGoesOn
  <2> QED BY <2>3, <2>7, <2>8, <2>9 DEF UploadPreserved
<1> QED BY <1>1, Zenon

\* The store joins the parts of the upload that the row names.
LEMMA FinishStep ==
  ASSUME UploadAssumption, UploadTypes, NEW c \in Request
  PROVE  Upload!Finish(c) => UploadPreserved
<1>0. /\ c \in Uploader /\ call[c].row \in UploadRow /\ call[c].file \in File \cup {Nil}
      /\ multi \in [File -> Seq(Part)] /\ \A f \in File : Len(multi[f]) \in Nat
  BY UploadFields, UploadNames
<1>1. ASSUME Upload!Finish(c) PROVE UploadPreserved
  <2>1. PICK q : q = call[c].row
    OBVIOUS
  <2>2. PICK f : f = call[c].file
    OBVIOUS
  <2>3. PICK i : i = q.files[f].upload
    OBVIOUS
  <2>4. PICK k : k = [pc |-> "head", row |-> q, file |-> call[c].file]
    OBVIOUS
  <2>5. /\ call[c].pc = "finish" /\ UploadGoto(c, "head", q) /\ i \in OpenParts(f)
        /\ multi' = [multi EXCEPT ![f][i].open = FALSE]
        /\ object' = [object EXCEPT ![f] = multi[f][i].part]
        /\ UNCHANGED <<row, group, lock, rowLock, day, faults, overtaken, lost>>
    BY <1>1, <2>1, <2>2, <2>3, Zenon DEF Upload!Finish, Upload!At, UploadGoto, OpenParts,
       Upload!rows, Upload!ghost
  <2>6. c \in Uploader
    BY <1>0
  <2>7. call' = [call EXCEPT ![c] = k]
    BY <2>4, <2>5, <2>6, CallGoes
  <2>8. k \in UploadCall /\ k.pc = "head" /\ k.row = q /\ k.file = f
    BY <1>0, <2>1, <2>2, <2>4, UploadPhases, UploadKinds DEF UploadCall
  <2>9. /\ multi' \in [File -> Seq(Part)]
        /\ \A g \in File : Len(multi'[g]) = Len(multi[g])
        /\ \A g \in File, j \in Nat : j \in OpenParts(g)' => j \in OpenParts(g)
        /\ f \in File => i \notin OpenParts(f)'
    <3>1. CASE f \in File
      <4>1. PICK m : m = multi[f]
        OBVIOUS
      <4>2. PICK n : n = [m EXCEPT ![i].open = FALSE]
        OBVIOUS
      <4>3. m \in Seq(Part) /\ Len(m) \in Nat
        BY <1>0, <3>1, <4>1
      <4>4. i \in 1..Len(m) /\ m[i].open
        BY <1>0, <2>5, <3>1, <4>1, OpenIs
      <4>5. /\ n \in Seq(Part) /\ Len(n) = Len(m) /\ ~n[i].open
            /\ \A j \in 1..Len(m) : n[j].open => m[j].open
        BY <4>2, <4>3, <4>4, PartChanges
      <4>6. multi' = [multi EXCEPT ![f] = n]
        BY <2>5, <4>1, <4>2
      <4>7. /\ multi' \in [File -> Seq(Part)] /\ multi'[f] = n
            /\ \A g \in File : g # f => multi'[g] = multi[g]
        BY <1>0, <3>1, <4>5, <4>6
      <4>8. \A g \in File : Len(multi'[g]) = Len(multi[g])
        BY <4>1, <4>5, <4>7
      <4>9. \A g \in File : OpenParts(g) = {j \in 1..Len(multi[g]) : multi[g][j].open}
        BY <1>0, OpenIs
      <4>10. \A g \in File : OpenParts(g)' = {j \in 1..Len(multi'[g]) : multi'[g][j].open}
        BY <4>7, OpenIs
      <4>11. i \notin OpenParts(f)'
        BY <3>1, <4>5, <4>7, <4>10
      <4>12. \A g \in File, j \in Nat : j \in OpenParts(g)' => j \in OpenParts(g)
        BY <3>1, <4>1, <4>5, <4>7, <4>9, <4>10
      <4> QED BY <4>7, <4>8, <4>11, <4>12
    <3>2. CASE f \notin File
      <4>1. multi' = multi
        BY <1>0, <2>5, <3>2
      <4> QED BY <1>0, <3>2, <4>1, OpenSame
    <3> QED BY <3>1, <3>2
  <2>10. /\ object' \in [File -> Content \cup {Nil}]
         /\ \A g \in File : g # f => object'[g] = object[g]
    <3>1. object \in [File -> Content \cup {Nil}]
      BY Zenon DEF UploadTypes
    <3>2. f \in File => multi[f][i].part \in Content \cup {Nil}
      <4>1. ASSUME f \in File PROVE multi[f][i] \in Part
        <5>1. i \in 1..Len(multi[f]) /\ multi[f] \in Seq(Part)
          BY <1>0, <2>5, <4>1, OpenIs
        <5> QED BY <5>1
      <4> QED BY <4>1 DEF Part
    <3> QED BY <2>5, <3>1, <3>2
  <2>11. ASSUME UploadCoherent
         PROVE  /\ f \in File /\ row.files[f].upload = i /\ i # 0
                /\ UploadWhole(k.row)' /\ UploadFinishing(k) /\ ~UploadKept
                /\ lock = c => UploadCopy(k)
    <3>1. UploadWhole(q) /\ UploadFinishing(call[c])
      BY <2>1, <2>6, <2>11 DEF UploadCoherent, UploadCalls
    <3>2. f \in File /\ row.files[f].upload = i /\ q.files[f].completing
      BY <2>1, <2>2, <2>3, <2>5, <3>1 DEF UploadFinishing
    <3>3. i # 0
      BY <2>3, <3>1, <3>2 DEF UploadWhole
    <3>4. UploadWhole(k.row)'
      BY <2>8, <2>9, <3>1 DEF UploadWhole
    <3>5. UploadFinishing(k)
      BY <2>1, <2>2, <2>5, <2>8, <3>1 DEF UploadFinishing
    <3>6. ~UploadKept
      <4>1. object[f] = Nil
        BY <2>5, <2>11, <3>2 DEF UploadCoherent, UploadOrigin
      <4>2. row.files[f].complete => row.files[f].sha # Nil
        BY <2>11, <3>2 DEF UploadCoherent, UploadWhole
      <4> QED BY <3>2, <4>1, <4>2 DEF UploadKept
    <3>7. lock = c => UploadCopy(k)
      <4>1. lock = c => UploadCopy(call[c])
        BY <2>6, <2>11 DEF UploadCoherent, UploadCalls
      <4> QED BY <2>1, <2>5, <2>8, <4>1, UploadKinds DEF UploadCopy
    <3> QED BY <3>2, <3>3, <3>4, <3>5, <3>6, <3>7
  <2>12. call[c].pc \in Editing /\ k.pc \in Editing /\ k.pc # "delete" /\ k.row.state = call[c].row.state
    BY <2>1, <2>5, <2>8, UploadKinds
  <2>13. \A g \in File : Len(multi[g]) <= Len(multi'[g]) /\ Len(multi'[g]) <= MaxMultipart
    <3>1. \A g \in File : Len(multi[g]) <= MaxMultipart
      BY Zenon DEF UploadTypes
    <3> QED BY <1>0, <2>9, <3>1
  <2>14. UploadCoherent => \A g \in File : object'[g] \in {object[g], Nil}
                \/ (row.files[g].upload # 0 /\ row.files[g].upload \notin OpenParts(g)')
    BY <2>9, <2>10, <2>11
  <2>15. UNCHANGED <<row, group, lock, rowLock, day, faults, overtaken, lost>>
    BY <2>5
  <2>16. multi' \in [File -> Seq(Part)] /\ object' \in [File -> Content \cup {Nil}]
    BY <2>9, <2>10
  <2>17. \A g \in File, j \in Nat : j \in OpenParts(g)' /\ j <= Len(multi[g]) => j \in OpenParts(g)
    BY <2>9
  <2> QED
    BY <2>6, <2>7, <2>8, <2>11, <2>12, <2>13, <2>14, <2>15, <2>16, <2>17, UploadStores
<1> QED BY <1>1, Zenon

\* The browser puts a part: what is open stays open.
LEMMA PutPartStep ==
  ASSUME UploadAssumption, UploadTypes, NEW f \in File
  PROVE  Upload!PutPart(f) => UploadPreserved
<1>0. /\ row \in UploadRow /\ multi \in [File -> Seq(Part)] /\ \A g \in File : Len(multi[g]) \in Nat
      /\ call \in [Uploader -> UploadCall] /\ row.files[f] \in UploadFile /\ Nil \notin Uploader
  BY UploadFields, UploadNames
<1>1. ASSUME Upload!PutPart(f) PROVE UploadPreserved
  <2>1. PICK i : i = row.files[f].upload
    OBVIOUS
  <2>2. PICK x : x = row.files[f].part
    OBVIOUS
  <2>3. PICK m : m = multi[f]
    OBVIOUS
  <2>4. PICK e : e = [m[i] EXCEPT !.part = x]
    OBVIOUS
  <2>5. PICK n : n = [m EXCEPT ![i] = e]
    OBVIOUS
  <2>6. /\ i \in OpenParts(f) /\ multi' = [multi EXCEPT ![f][i].part = x]
        /\ UNCHANGED <<row, group, lock, rowLock, call, object, day, faults, overtaken, lost>>
    BY <1>1, <2>1, <2>2, Zenon DEF Upload!PutPart, OpenParts, Upload!rows, Upload!ghost
  <2>7. m \in Seq(Part) /\ Len(m) \in Nat /\ i \in 1..Len(m) /\ m[i] \in Part
    BY <1>0, <2>3, <2>6, OpenIs
  <2>8. x \in Content \cup {Nil}
    BY <1>0, <2>2 DEF UploadFile, Upload!FileState
  <2>9. e \in Part /\ e.open = m[i].open
    <3>1. PICK o : o = m[i]
      OBVIOUS
    <3>2. o \in Part /\ e = [o EXCEPT !.part = x]
      BY <2>4, <2>7, <3>1
    <3>3. e \in Part /\ e.open = o.open
      BY <2>8, <3>2 DEF Part
    <3> QED BY <3>1, <3>3
  <2>10. /\ n \in [1..Len(m) -> Part]
         /\ \A j \in 1..Len(m) : n[j] = IF j = i THEN e ELSE m[j]
    <3>1. DOMAIN m = 1..Len(m) /\ \A j \in 1..Len(m) : m[j] \in Part
      BY <2>7
    <3>2. n = [j \in 1..Len(m) |-> IF j = i THEN e ELSE m[j]]
      BY <2>5, <3>1
    <3> QED BY <2>9, <3>1, <3>2
  <2>11. n \in Seq(Part) /\ Len(n) = Len(m) /\ \A j \in 1..Len(m) : n[j].open = m[j].open
    <3>1. n \in Seq(Part) /\ Len(n) = Len(m)
      BY <2>7, <2>10, SequenceIs
    <3> QED BY <2>9, <2>10, <3>1
  <2>12. multi' = [multi EXCEPT ![f] = n]
    BY <2>3, <2>4, <2>5, <2>6
  <2>13. /\ multi' \in [File -> Seq(Part)] /\ multi'[f] = n
         /\ \A g \in File : g # f => multi'[g] = multi[g]
    BY <1>0, <2>11, <2>12
  <2>14. \A g \in File : Len(multi'[g]) = Len(multi[g])
    BY <2>3, <2>11, <2>13
  <2>15. \A g \in File : OpenParts(g)' = OpenParts(g)
    <3>1. \A g \in File : OpenParts(g) = {j \in 1..Len(multi[g]) : multi[g][j].open}
      BY <1>0, OpenIs
    <3>2. \A g \in File : OpenParts(g)' = {j \in 1..Len(multi'[g]) : multi'[g][j].open}
      BY <2>13, OpenIs
    <3>3. \A g \in File : g # f => OpenParts(g)' = OpenParts(g)
      BY <2>13, <3>1, <3>2
    <3>4. OpenParts(f)' = {j \in 1..Len(n) : n[j].open}
      BY <2>13, <3>2
    <3>5. OpenParts(f) = {j \in 1..Len(m) : m[j].open}
      BY <2>3, <3>1
    <3>6. OpenParts(f)' = OpenParts(f)
      BY <2>11, <3>4, <3>5
    <3> QED BY <3>3, <3>6
  <2>16. UploadTypes'
    <3>1. \A g \in File : Len(multi'[g]) <= MaxMultipart
      BY <2>14 DEF UploadTypes
    <3> QED BY <2>6, <2>13, <3>1 DEF UploadTypes
  <2>17. ASSUME UploadCoherent PROVE UploadCoherent'
    <3>1. PICK c : c = Nil
      OBVIOUS
    <3>2. c \notin Uploader /\ \A d \in Uploader : call'[d] = IF d = c THEN c ELSE call[d]
      BY <1>0, <2>6, <3>1
    <3>3. \A g \in File : Len(multi[g]) <= Len(multi'[g])
      BY <1>0, <2>14
    <3>4. UploadKept => UploadKept'
      BY <2>6 DEF UploadKept
    <3>5. /\ UNCHANGED <<row, lock, rowLock, day>> /\ \A g \in File : object'[g] = object[g]
          /\ group' = group
      BY <2>6
    <3> QED BY <2>13, <2>15, <2>17, <3>2, <3>3, <3>4, <3>5, UploadStoreChanges
  <2>18. UploadAlone => UploadAlone'
    BY <2>6, <2>15 DEF UploadAlone
  <2> QED BY <2>6, <2>16, <2>17, <2>18 DEF UploadPreserved
<1> QED BY <1>1, Zenon

\* delete: the rows of the group go first, and its objects with them or not.
LEMMA DeleteGroupStep ==
  ASSUME UploadAssumption, UploadTypes
  PROVE  Upload!DeleteGroup => UploadPreserved
<1>0. /\ multi \in [File -> Seq(Part)] /\ \A g \in File : Len(multi[g]) \in Nat
      /\ Nil \notin Uploader
  BY UploadFields, UploadNames
<1>1. ASSUME Upload!DeleteGroup PROVE UploadPreserved
  <2>1. /\ group = "registered" /\ group' = "deleted"
        /\ object' = object \/ object' = [f \in File |-> Nil]
        /\ UNCHANGED <<row, lock, rowLock, call, multi, day, faults, overtaken, lost>>
    BY <1>1, Zenon DEF Upload!DeleteGroup, Upload!ghost
  <2>2. \A g \in File : OpenParts(g)' = OpenParts(g)
    BY <2>1, OpenSame
  <2>3. \A g \in File : object'[g] \in {object[g], Nil}
    BY <2>1
  <2>4. UploadTypes'
    <3>1. object \in [File -> Content \cup {Nil}]
      BY Zenon DEF UploadTypes
    <3>2. object' \in [File -> Content \cup {Nil}]
      BY <2>1, <3>1
    <3> QED BY <2>1, <3>2 DEF UploadTypes
  <2>5. ASSUME UploadCoherent PROVE UploadCoherent'
    <3>1. PICK c : c = Nil
      OBVIOUS
    <3>2. c \notin Uploader /\ \A d \in Uploader : call'[d] = IF d = c THEN c ELSE call[d]
      BY <1>0, <2>1, <3>1
    <3>3. \A g \in File : Len(multi[g]) <= Len(multi'[g])
      BY <1>0, <2>1
    <3>4. ~UploadAlive
      BY <2>1, <2>5 DEF UploadCoherent, UploadRegistered, UploadAlive
    <3>5. /\ UNCHANGED <<row, lock, rowLock, day>> /\ group' # "registered"
          /\ multi' \in [File -> Seq(Part)]
      BY <1>0, <2>1
    <3> QED BY <2>2, <2>3, <2>5, <3>2, <3>3, <3>4, <3>5, UploadStoreChanges
  <2>6. UploadAlone => UploadAlone'
    BY <2>1, <2>2, <2>3 DEF UploadAlone
  <2> QED BY <2>1, <2>4, <2>5, <2>6 DEF UploadPreserved
<1> QED BY <1>1, Zenon

\* A session begins where nobody is at work.
LEMMA CreateStep ==
  ASSUME UploadAssumption, UploadTypes
  PROVE  Upload!Create => UploadPreserved
<1>0. /\ Nil \notin Uploader /\ "in flight" # Nil /\ NoUpload \in UploadRow
      /\ call \in [Uploader -> UploadCall]
  BY UploadNames, EmptyRow, UploadFields
<1>1. ASSUME Upload!Create PROVE UploadPreserved
  <2>1. PICK z : z = NoUpload
    OBVIOUS
  <2>2. PICK r : r = [z EXCEPT !.state = "Uploading", !.expires = 1]
    OBVIOUS
  <2>3. /\ row.state = "none" /\ row' = r
        /\ UNCHANGED <<group, lock, rowLock, call, multi, object, day, faults, overtaken, lost>>
    BY <1>1, <2>1, <2>2, Zenon DEF Upload!Create, Upload!store, Upload!ghost, NoUpload
  <2>4. r \in UploadRow /\ r.state = "Uploading" /\ r.files = z.files
    <3>1. MaxDay \in Nat
      BY UploadBounds
    <3>2. 1 \in 0..MaxDay + 1
      BY <3>1
    <3>3. z \in UploadRow
      BY <1>0, <2>1
    <3>4. "Uploading" \in UploadState
      BY UploadPhases
    <3> QED BY <2>2, <3>2, <3>3, <3>4 DEF UploadRow
  <2>5. UploadTypes'
    BY <2>3, <2>4 DEF UploadTypes
  <2>6. \A g \in File : OpenParts(g)' = OpenParts(g)
    BY <2>3, OpenSame
  <2>7. ASSUME UploadCoherent PROVE UploadCoherent'
    <3>1. row.files = r.files
      BY <2>1, <2>3, <2>4, <2>7 DEF UploadCoherent, UploadFresh
    <3>2. UploadCalls /\ UploadWhole(row) /\ UploadOrigin /\ UploadCommits
      BY <2>7 DEF UploadCoherent
    <3>3. rowLock = Nil /\ \A d \in Uploader : call[d].pc \notin Judging
      BY <2>3, <2>7 DEF UploadCoherent, UploadJudged
    <3>4. \A d \in Uploader : call[d].pc \notin Cleaning
      BY <2>3, <2>7 DEF UploadCoherent, UploadCleaning, UploadDoomed
    <3>5. \A d \in Uploader : lock # d
      <4> SUFFICES ASSUME NEW d \in Uploader, lock = d PROVE FALSE
        OBVIOUS
      <4>1. UploadCopy(call[d])
        BY <3>2 DEF UploadCalls
      <4>2. call[d].pc \in UploadPhase
        BY UploadFields
      <4> QED BY <2>3, <3>3, <3>4, <4>1, <4>2, UploadPhases DEF UploadCopy
    <3>6. UploadWhole(row)'
      BY <2>3, <3>1, <3>2 DEF UploadWhole
    <3>7. UploadCalls'
      BY <2>3, <3>1, <3>2, <3>5 DEF UploadCalls, UploadWhole, UploadFinishing
    <3>8. UploadOrigin'
      BY <2>3, <2>6, <3>1, <3>2 DEF UploadOrigin
    <3>9. UploadJudged' /\ UploadCleaning'
      BY <2>3, <3>3, <3>4 DEF UploadJudged, UploadCleaning
    <3>10. UploadVerified'
      BY <1>0, <2>3, <3>3, UploadKinds DEF UploadVerified
    <3>11. UploadCommits'
      BY <2>3, <3>2 DEF UploadCommits
    <3>12. UploadRegistered'
      BY <2>3, <2>7 DEF UploadCoherent, UploadRegistered
    <3>13. UploadFresh'
      BY <2>3, <2>4 DEF UploadFresh
    <3> QED BY <3>6, <3>7, <3>8, <3>9, <3>10, <3>11, <3>12, <3>13 DEF UploadCoherent
  <2>8. UploadAlone => UploadAlone'
    BY <2>3, <2>4, <2>6 DEF UploadAlone
  <2> QED BY <2>3, <2>5, <2>7, <2>8 DEF UploadPreserved
<1> QED BY <1>1, Zenon

\* parts: the file goes on with the upload i, and n is what becomes of its uploads.
UploadInitiates(c, i, n) ==
  /\ call[c].pc = "initiate"
  /\ UploadGoto(c, "part", UploadWithFile(call[c].row, call[c].file,
                             [call[c].row.files[call[c].file] EXCEPT !.upload = i]))
  /\ multi' = [multi EXCEPT ![call[c].file] = n]
  /\ UNCHANGED <<row, group, lock, rowLock, object, day, faults, overtaken, lost>>

LEMMA InitiatesStep ==
  ASSUME UploadAssumption, UploadTypes, NEW c \in Request, NEW i, NEW n,
         UploadInitiates(c, i, n),
         call[c].file \in File =>
           /\ n \in Seq(Part) /\ i \in 1..Len(n)
           /\ Len(multi[call[c].file]) <= Len(n) /\ Len(n) <= MaxMultipart
           /\ \A j \in 1..Len(multi[call[c].file]) : n[j].open => multi[call[c].file][j].open
  PROVE  UploadPreserved
<1>0. /\ c \in Uploader /\ call[c].row \in UploadRow /\ call[c].file \in File \cup {Nil}
      /\ multi \in [File -> Seq(Part)] /\ \A g \in File : Len(multi[g]) \in Nat
      /\ MaxMultipart \in Nat /\ object \in [File -> Content \cup {Nil}]
      /\ \A g \in File : Len(multi[g]) <= MaxMultipart
  <2>1. object \in [File -> Content \cup {Nil}] /\ \A g \in File : Len(multi[g]) <= MaxMultipart
    BY Zenon DEF UploadTypes
  <2> QED BY <2>1, UploadFields, UploadNames, UploadBounds
<1>1. PICK q : q = call[c].row
  OBVIOUS
<1>2. PICK f : f = call[c].file
  OBVIOUS
<1>3. PICK s : s = [q.files[f] EXCEPT !.upload = i]
  OBVIOUS
<1>4. PICK r : r = UploadWithFile(q, f, s)
  OBVIOUS
<1>5. PICK k : k = [pc |-> "part", row |-> r, file |-> call[c].file]
  OBVIOUS
<1>6. /\ call[c].pc = "initiate" /\ UploadGoto(c, "part", r) /\ multi' = [multi EXCEPT ![f] = n]
      /\ UNCHANGED <<row, group, lock, rowLock, object, day, faults, overtaken, lost>>
  BY <1>1, <1>2, <1>3, <1>4 DEF UploadInitiates
<1>7. f \in File =>
        /\ n \in Seq(Part) /\ i \in 1..Len(n) /\ Len(multi[f]) <= Len(n) /\ Len(n) <= MaxMultipart
        /\ \A j \in 1..Len(multi[f]) : n[j].open => multi[f][j].open
  BY <1>2
<1>8. c \in Uploader
  BY <1>0
<1>9. call' = [call EXCEPT ![c] = k]
  BY <1>5, <1>6, <1>8, CallGoes
<1>10. /\ r \in UploadRow /\ r.state = q.state
       /\ f \in File =>
            /\ r.files = [q.files EXCEPT ![f] = s] /\ s \in UploadFile
            /\ s.upload = i /\ s.sha = q.files[f].sha
            /\ s.completing = q.files[f].completing /\ s.complete = q.files[f].complete
  <2>0. q \in UploadRow
    BY <1>0, <1>1
  <2>1. CASE f \in File
    <3>1. PICK o : o = q.files[f]
      OBVIOUS
    <3>2. o \in UploadFile /\ s = [o EXCEPT !.upload = i]
      BY <1>3, <2>0, <2>1, <3>1, UploadFields
    <3>3. i \in 0..MaxMultipart
      BY <1>0, <1>7, <2>1
    <3>4. /\ s \in UploadFile /\ s.upload = i /\ s.sha = o.sha
          /\ s.completing = o.completing /\ s.complete = o.complete
      BY <3>2, <3>3, FileUpload
    <3>5. r \in UploadRow /\ r.files = [q.files EXCEPT ![f] = s] /\ r.state = q.state
      BY <1>4, <2>0, <2>1, <3>4, FileRow, Zenon DEF UploadWithFile
    <3> QED BY <3>1, <3>4, <3>5
  <2>2. CASE f \notin File
    <3>1. q.files \in [File -> UploadFile]
      BY <2>0, UploadFields
    <3>2. [q.files EXCEPT ![f] = s] = q.files
      BY <2>2, <3>1
    <3>3. r = [q EXCEPT !.files = [q.files EXCEPT ![f] = s]]
      BY <1>4 DEF UploadWithFile, Upload!WithFile
    <3>4. r = [q EXCEPT !.files = q.files]
      BY <3>2, <3>3
    <3> QED BY <2>0, <2>2, <3>4 DEF UploadRow
  <2> QED BY <2>1, <2>2
<1>11. k \in UploadCall /\ k.pc = "part" /\ k.row = r
  BY <1>0, <1>5, <1>10, UploadPhases, UploadKinds DEF UploadCall
<1>12. /\ multi' \in [File -> Seq(Part)]
       /\ \A g \in File : g # f => multi'[g] = multi[g]
       /\ f \in File => multi'[f] = n
  BY <1>0, <1>6, <1>7
<1>13. \A g \in File : Len(multi[g]) <= Len(multi'[g]) /\ Len(multi'[g]) <= MaxMultipart
  BY <1>0, <1>7, <1>12
<1>14. \A g \in File, j \in Nat : j \in OpenParts(g)' /\ j <= Len(multi[g]) => j \in OpenParts(g)
  <2>1. \A g \in File : OpenParts(g) = {j \in 1..Len(multi[g]) : multi[g][j].open}
    BY <1>0, OpenIs
  <2>2. \A g \in File : OpenParts(g)' = {j \in 1..Len(multi'[g]) : multi'[g][j].open}
    BY <1>12, OpenIs
  <2>3. \A g \in File : g # f => OpenParts(g)' = OpenParts(g)
    BY <1>12, <2>1, <2>2
  <2>4. ASSUME f \in File, NEW j \in Nat, j \in OpenParts(f)', j <= Len(multi[f])
        PROVE  j \in OpenParts(f)
    <3>1. j \in 1..Len(n) /\ n[j].open
      BY <1>12, <2>2, <2>4
    <3>2. j \in 1..Len(multi[f])
      BY <1>0, <2>4, <3>1
    <3> QED BY <1>7, <2>1, <2>4, <3>1, <3>2
  <2> QED BY <2>3, <2>4
<1>15. ASSUME UploadCoherent
       PROVE  UploadWhole(k.row)' /\ UploadFinishing(k) /\ (lock = c => UploadCopy(k))
  <2>1. UploadWhole(q) /\ UploadFinishing(call[c]) /\ (lock = c => UploadCopy(call[c]))
    BY <1>1, <1>8, <1>15 DEF UploadCoherent, UploadCalls
  <2>2. f \in File /\ q.files[f].upload = 0
    BY <1>1, <1>2, <1>6, <2>1 DEF UploadFinishing
  <2>3. q.files \in [File -> UploadFile] /\ i \in Nat /\ i # 0 /\ i <= Len(multi'[f])
    BY <1>0, <1>1, <1>7, <1>12, <2>2, UploadFields
  <2>4. r.files[f] = s /\ \A g \in File : g # f => r.files[g] = q.files[g]
    BY <1>10, <2>2, <2>3
  <2>5. UploadWhole(k.row)'
    <3> SUFFICES ASSUME NEW g \in File
                 PROVE /\ r.files[g].complete => r.files[g].completing
                       /\ r.files[g].completing => r.files[g].sha # Nil /\ r.files[g].upload # 0
                       /\ r.files[g].upload <= Len(multi'[g])
      BY <1>11 DEF UploadWhole
    <3>1. CASE g = f
      <4>1. /\ q.files[f].complete => q.files[f].completing
            /\ q.files[f].completing => q.files[f].sha # Nil
        BY <2>1, <2>2 DEF UploadWhole
      <4> QED BY <1>10, <2>2, <2>3, <2>4, <3>1, <4>1
    <3>2. CASE g # f
      BY <1>12, <2>1, <2>4, <3>2 DEF UploadWhole
    <3> QED BY <3>1, <3>2
  <2>6. UploadFinishing(k)
    BY <1>11 DEF UploadFinishing
  <2>7. ASSUME lock = c PROVE UploadCopy(k)
    <3>1. row.state = "Uploading" /\ q.state = "Uploading" /\ UploadKeeps(q)
      BY <1>1, <1>6, <2>1, <2>7, UploadKinds DEF UploadCopy
    <3>2. row.files[f].upload = 0
      BY <2>2, <3>1 DEF UploadKeeps
    <3>3. UploadKeeps(r)
      BY <2>4, <3>1, <3>2 DEF UploadKeeps
    <3> QED BY <1>10, <1>11, <3>1, <3>3, UploadKinds DEF UploadCopy
  <2> QED BY <2>5, <2>6, <2>7
<1>16. /\ call[c].pc \in Editing /\ k.pc \in Editing /\ k.pc # "delete"
       /\ k.row.state = call[c].row.state
  BY <1>1, <1>6, <1>10, <1>11, UploadKinds
<1>17. UploadKept => UploadKept'
  BY <1>6 DEF UploadKept
<1>18. /\ UNCHANGED <<row, group, lock, rowLock, day, faults, overtaken, lost>>
       /\ object' = object /\ object' \in [File -> Content \cup {Nil}]
  BY <1>0, <1>6
<1> QED
  BY <1>8, <1>9, <1>11, <1>12, <1>13, <1>14, <1>15, <1>16, <1>17, <1>18, UploadStores

LEMMA InitiateStep ==
  ASSUME UploadAssumption, UploadTypes, NEW c \in Request
  PROVE  Upload!Initiate(c) => UploadPreserved
<1>0. multi \in [File -> Seq(Part)] /\ \A g \in File : Len(multi[g]) \in Nat /\ Len(multi[g]) <= MaxMultipart
  <2>1. \A g \in File : Len(multi[g]) <= MaxMultipart
    BY Zenon DEF UploadTypes
  <2> QED BY <2>1, UploadFields
<1>1. ASSUME Upload!Initiate(c) PROVE UploadPreserved
  <2>1. CASE \E i \in OpenParts(call[c].file) :
               UploadInitiates(c, i, [j \in DOMAIN multi[call[c].file] |->
                                        [multi[call[c].file][j] EXCEPT !.open = j = i]])
    <3>1. PICK i \in OpenParts(call[c].file) :
               UploadInitiates(c, i, [j \in DOMAIN multi[call[c].file] |->
                                        [multi[call[c].file][j] EXCEPT !.open = j = i]])
      BY <2>1
    <3>2. PICK m : m = multi[call[c].file]
      OBVIOUS
    <3>3. PICK n : n = [j \in DOMAIN m |-> [m[j] EXCEPT !.open = j = i]]
      OBVIOUS
    <3>4. UploadInitiates(c, i, n)
      BY <3>1, <3>2, <3>3
    <3>5. ASSUME call[c].file \in File
          PROVE  /\ n \in Seq(Part) /\ i \in 1..Len(n) /\ Len(m) <= Len(n) /\ Len(n) <= MaxMultipart
                 /\ \A j \in 1..Len(m) : n[j].open => m[j].open
      <4>1. /\ m \in Seq(Part) /\ Len(m) \in Nat /\ DOMAIN m = 1..Len(m) /\ Len(m) <= MaxMultipart
            /\ i \in 1..Len(m) /\ m[i].open
        BY <1>0, <3>2, <3>5, OpenIs
      <4>2. ASSUME NEW j \in 1..Len(m)
            PROVE  /\ [m[j] EXCEPT !.open = j = i] \in Part
                   /\ [m[j] EXCEPT !.open = j = i].open = (j = i)
        <5>1. PICK e : e = m[j]
          OBVIOUS
        <5>2. PICK b \in BOOLEAN : b = (j = i)
          OBVIOUS
        <5>3. e \in Part
          BY <4>1, <5>1
        <5>4. [e EXCEPT !.open = b] \in Part /\ [e EXCEPT !.open = b].open = b
          BY <5>3 DEF Part
        <5> QED BY <5>1, <5>2, <5>4
      <4>3. n \in [1..Len(m) -> Part] /\ \A j \in 1..Len(m) : n[j].open = (j = i)
        BY <3>3, <4>1, <4>2
      <4>4. n \in Seq(Part) /\ Len(n) = Len(m)
        BY <4>1, <4>3, SequenceIs
      <4>5. ASSUME NEW j \in 1..Len(m), n[j].open PROVE m[j].open
        <5>1. j = i
          BY <4>3, <4>5
        <5> QED BY <4>1, <5>1
      <4>6. i \in 1..Len(n) /\ Len(m) <= Len(n) /\ Len(n) <= MaxMultipart
        BY <4>1, <4>4
      <4> QED BY <4>4, <4>5, <4>6
    <3> QED BY <3>2, <3>4, <3>5, InitiatesStep
  <2>2. CASE /\ Len(multi[call[c].file]) < MaxMultipart
             /\ UploadInitiates(c, Len(multi[call[c].file]) + 1,
                                Append(multi[call[c].file], [open |-> TRUE, part |-> Nil]))
             /\ OpenParts(call[c].file) = {}
    <3>1. PICK m : m = multi[call[c].file]
      OBVIOUS
    <3>2. PICK n : n = Append(m, [open |-> TRUE, part |-> Nil])
      OBVIOUS
    <3>3. PICK i : i = Len(m) + 1
      OBVIOUS
    <3>4. UploadInitiates(c, i, n) /\ Len(m) < MaxMultipart
      BY <2>2, <3>1, <3>2, <3>3
    <3>5. ASSUME call[c].file \in File
          PROVE  /\ n \in Seq(Part) /\ i \in 1..Len(n) /\ Len(m) <= Len(n) /\ Len(n) <= MaxMultipart
                 /\ \A j \in 1..Len(m) : n[j].open => m[j].open
      <4>1. m \in Seq(Part) /\ Len(m) \in Nat
        BY <1>0, <3>1, <3>5
      <4>2. [open |-> TRUE, part |-> Nil] \in Part
        BY DEF Part
      <4>3. /\ n \in Seq(Part) /\ Len(n) = Len(m) + 1
            /\ \A j \in 1..Len(m) : n[j] = m[j]
        BY <3>2, <4>1, <4>2
      <4>4. MaxMultipart \in Nat
        BY UploadBounds
      <4> QED BY <3>3, <3>4, <4>1, <4>3, <4>4
    <3> QED BY <3>1, <3>4, <3>5, InitiatesStep
  <2> QED
    BY <1>1, <2>1, <2>2, Zenon DEF Upload!Initiate, Upload!At, UploadGoto, UploadWithFile,
       UploadInitiates, OpenParts, Upload!rows, Upload!ghost
<1> QED BY <1>1, Zenon

-----------------------------------------------------------------------------
(* What the invariant says of the session.                                 *)

LEMMA UploadInitial ==
  ASSUME UploadAssumption
  PROVE  Upload!Init => UploadInv
<1>0. /\ Nil \notin Uploader /\ "in flight" \notin Uploader \cup {Nil}
      /\ Life \in Nat /\ MaxDay \in Nat /\ MaxMultipart \in Nat /\ MaxFaults \in Nat
      /\ NoUpload \in UploadRow /\ NoUpload.state = "none"
      /\ NoUpload.files = [f \in File |-> Upload!NoFile]
      /\ Resting \in UploadCall /\ Resting.pc = "idle" /\ Resting.row = NoUpload
  BY UploadNames, UploadBounds, EmptyRow, Zenon
<1>1. ASSUME Upload!Init PROVE UploadInv
  <2>1. /\ row = NoUpload /\ group = "none" /\ lock = Nil /\ rowLock = Nil
        /\ call = [c \in Uploader |-> Resting]
        /\ multi = [f \in File |-> <<>>] /\ object = [f \in File |-> Nil]
        /\ day = 0 /\ faults = 0 /\ overtaken = FALSE /\ lost = FALSE
    BY <1>1, Zenon DEF Upload!Init, NoUpload, Resting, Uploader
  <2>2. /\ Nil \notin Uploader /\ "in flight" # Nil
        /\ MaxDay \in Nat /\ MaxMultipart \in Nat /\ MaxFaults \in Nat
        /\ NoUpload \in UploadRow /\ NoUpload.state = "none"
        /\ Resting \in UploadCall /\ Resting.pc = "idle" /\ Resting.row = NoUpload
    BY <1>0, Zenon
  <2>3. \A f \in File : multi[f] \in Seq(Part) /\ Len(multi[f]) = 0
    BY <2>1
  <2>4. multi \in [File -> Seq(Part)]
    BY <2>1, <2>3
  <2>5. UploadTypes
    <3>0. MaxDay \in Nat /\ MaxMultipart \in Nat /\ MaxFaults \in Nat
      BY <2>2
    <3>1. /\ 0 \in 0..MaxDay /\ 0 \in 0..MaxFaults /\ 0 <= MaxMultipart
      BY <3>0
    <3> QED BY <2>1, <2>2, <2>3, <2>4, <3>1 DEF UploadTypes
  <2>6. \A f \in File : OpenParts(f) = {}
    BY <2>3, <2>4, OpenIs
  <2>7. \A c \in Uploader : call[c] = Resting
    BY <2>1
  <2>8. UploadWhole(Resting.row) /\ UploadFinishing(Resting)
    BY <2>5, RestingWhole
  <2>9. UploadCoherent
    <3>1. UploadWhole(row)
      BY <2>1, <2>2, <2>8
    <3>2. UploadCalls
      BY <2>1, <2>2, <2>7, <2>8 DEF UploadCalls
    <3>3. UploadOrigin
      BY <2>1 DEF UploadOrigin
    <3>4. UploadJudged /\ UploadCleaning
      BY <2>1, <2>2, <2>7, UploadKinds DEF UploadJudged, UploadCleaning
    <3>5. UploadVerified /\ UploadCommits
      BY <2>1, <2>2, <2>7 DEF UploadVerified, UploadCommits
    <3>6. UploadRegistered /\ UploadFresh
      BY <2>1 DEF UploadRegistered, UploadFresh
    <3> QED BY <3>1, <3>2, <3>3, <3>4, <3>5, <3>6 DEF UploadCoherent
  <2>10. UploadAlone
    BY <2>1, <2>2, <2>6, <2>7 DEF UploadAlone
  <2> QED BY <2>5, <2>9, <2>10 DEF UploadInv
<1> QED BY <1>1, Zenon

LEMMA UploadSteps ==
  ASSUME UploadAssumption, UploadTypes
  PROVE  UploadNext => UploadPreserved
<1>1. Request \subseteq Uploader /\ Worker \subseteq Uploader
  BY UploadNames
<1>2. ASSUME NEW c \in Uploader PROVE Upload!Cancel(c) => UploadPreserved
  BY <1>2, WriteStep, Zenon
<1>3. ASSUME NEW c \in Uploader PROVE Upload!SaveFailed(c) => UploadPreserved
  BY <1>3, WriteStep, Zenon
<1>4. ASSUME NEW c \in Request PROVE Upload!RequestStep(c) => UploadPreserved
  <2>1. c \in Uploader
    BY <1>1
  <2> QED
    BY <2>1, <1>2, InitiateStep, TouchStep, MarkCompletingStep, FinishStep, FinishFileStep,
       ConfirmStep, GiveUpStep, Zenon DEF Upload!RequestStep
<1>5. ASSUME NEW w \in Worker PROVE Upload!WorkerStep(w) => UploadPreserved
  <2>1. w \in Uploader
    BY <1>1
  <2> QED
    BY <2>1, <1>3, VerifyStep, RegisterStep, CommitStep, RereadStep, AbortPartsStep, CleanStep,
       DeleteFileStep, GiveUpStep, Zenon DEF Upload!WorkerStep
<1>6. Uploader = Upload!Caller
  BY Zenon DEF Uploader
<1> QED
  BY <1>4, <1>5, <1>6, CreateStep, InFlightStep, DeleteGroupStep, NextDayStep, PutPartStep,
     ListPartsStep, AskCompleteStep, AskCancelStep, AskPartStep, AskFinishStep,
     TakeConfirmingStep, TakeCleaningStep, CommitFailsStep, DropStep, LoseLockStep, Zenon
     DEF UploadNext, Upload!Next

LEMMA UploadStutters ==
  ASSUME UploadAssumption, UploadTypes, UNCHANGED Upload!vars
  PROVE  UploadPreserved
<1>1. UNCHANGED <<row, group, lock, rowLock, call, multi, object, day, faults, overtaken, lost>>
  BY Zenon DEF Upload!vars, Upload!rows, Upload!store, Upload!ghost
<1>2. \A f \in File : OpenParts(f)' = OpenParts(f)
  BY <1>1, OpenSame
<1>3. UploadTypes'
  BY <1>1 DEF UploadTypes
<1>4. UploadAlone => UploadAlone'
  BY <1>1, <1>2 DEF UploadAlone
<1>5. UploadCoherent => UploadCoherent'
  BY <1>1, UploadReleases
<1> QED BY <1>1, <1>3, <1>4, <1>5 DEF UploadPreserved

LEMMA UploadInvariant ==
  ASSUME UploadAssumption
  PROVE  Upload!Spec => []UploadInv
<1>1. Upload!Init => UploadInv
  BY UploadInitial, Zenon
<1>2. UploadInv /\ [UploadNext]_Upload!vars => UploadInv'
  <2>1. UploadPreserved /\ UploadInv => UploadInv'
    BY DEF UploadInv, UploadPreserved
  <2>2. ASSUME UploadInv, UploadNext PROVE UploadInv'
    <3>1. UploadTypes
      BY <2>2 DEF UploadInv
    <3>2. UploadPreserved
      BY <2>2, <3>1, UploadSteps
    <3> QED BY <2>1, <2>2, <3>2
  <2>3. ASSUME UploadInv, UNCHANGED Upload!vars PROVE UploadInv'
    <3>1. UploadTypes
      BY <2>3, Zenon DEF UploadInv
    <3>2. UploadPreserved
      BY <2>3, <3>1, UploadStutters, Zenon
    <3> QED BY <2>1, <2>3, <3>2, Zenon
  <2> QED BY <2>2, <2>3, Zenon
<1> QED BY <1>1, <1>2, PTL DEF Upload!Spec, UploadNext

\* Every value that the uploads keep has its type; no bound of the model is passed.
THEOREM UploadTypeCorrect == Upload!Spec => []Upload!TypeOK
<1>0. UploadAssumption
  BY ServicesAssumption, Zenon DEF UploadAssumption
<1>1. UploadInv => Upload!TypeOK
  <2>1. UploadInv => UploadTypes
    BY Zenon DEF UploadInv
  <2> QED BY <2>1, UploadSets, Zenon
<1>2. Upload!Spec => []UploadInv
  BY <1>0, UploadInvariant, Zenon
<1> QED BY <1>1, <1>2, PTL

\* What is registered stays in the store with the content whose digest was claimed, and its
\* session never leaves Complete: the worker's row lock, and the second read of the row
\* after an ambiguous commit, keep a cancellation and the cleaning away from it.
THEOREM UploadRegisteredKept == Upload!Spec => []Upload!RegisteredKept
<1>0. UploadAssumption
  BY ServicesAssumption, Zenon DEF UploadAssumption
<1>1. UploadInv => Upload!RegisteredKept
  <2>1. ASSUME UploadInv, group = "registered", ~overtaken
        PROVE  row.state = "Complete" /\ \A f \in File : object[f] # Nil /\ object[f] = row.files[f].sha
    <3>1. row.state = "Complete" /\ UploadKept /\ UploadWhole(row)
      BY <2>1 DEF UploadInv, UploadCoherent, UploadRegistered
    <3> QED BY <3>1 DEF UploadKept, UploadWhole
  <2> QED BY <2>1, Zenon DEF Upload!RegisteredKept
<1>2. Upload!Spec => []UploadInv
  BY <1>0, UploadInvariant, Zenon
<1> QED BY <1>1, <1>2, PTL

\* A session that was cleaned has left neither an object nor a multipart upload in the
\* store, for as long as no connection loses the session's advisory lock.
THEOREM UploadNothingLeft == Upload!Spec => []Upload!NothingLeft
<1>0. UploadAssumption
  BY ServicesAssumption, Zenon DEF UploadAssumption
<1>1. UploadInv => Upload!NothingLeft
  <2>1. ASSUME UploadInv, row.state = "Cleaned", ~lost
        PROVE  \A f \in File : object[f] = Nil /\ OpenParts(f) = {}
    BY <2>1 DEF UploadInv, UploadAlone
  <2> QED BY <2>1, Zenon DEF Upload!NothingLeft, OpenParts
<1>2. Upload!Spec => []UploadInv
  BY <1>0, UploadInvariant, Zenon
<1> QED BY <1>1, <1>2, PTL

-----------------------------------------------------------------------------
(* System settings and registration: SystemSettings and Registration, as    *)
(* MCServices puts them beside the uploads.                                  *)

\* A stamp that was given is never 0, and the row has one that was given.
SettingsInv ==
  /\ saved \in 1..MaxUpdates + 1 /\ clock \in 1..MaxUpdates + 1
  /\ up \subseteq Process /\ subscribed \subseteq up /\ inbox \subseteq subscribed
  /\ cache \in [Process -> 0..MaxUpdates + 1]
  /\ update \in [Process -> [pc: {"idle", "sent", "adopt", "publish"}, stamp: 0..MaxUpdates + 1]]
  /\ \A p \in Process : update[p].pc # "idle" => update[p].stamp # 0
  /\ hand \in [Process -> [{"subscriber", "reconciler"} -> 0..MaxUpdates + 1]]
  /\ outdated \in BOOLEAN /\ stops \in 0..MaxFaults

AccountPhase == {"idle", "asked", "putUser", "putEmail", "send", "insert", "deleteEmail"}
AccountVisit == [pc: AccountPhase, email: Email \cup {Nil}, token: Token \cup {Nil}]
AccountNoKey == [email |-> Nil, left |-> 0]
AccountKeys  == [email: Email, left: 1..TTL] \cup {AccountNoKey}

\* The address of a token outlives it, or needs no reservation.
AccountReserved(t) ==
  \/ pendingEmail[pendingUser[t].email] >= pendingUser[t].left
  \/ pendingUser[t].email \in account \cup freed

\* What a request has done so far.
AccountCall(k) ==
  /\ k.pc # "idle" => k.email \in Email
  /\ k.pc \in {"putEmail", "send"} =>
       /\ k.token \in Token
       /\ pendingUser[k.token] = AccountNoKey \/ pendingUser[k.token].email = k.email
  /\ k.pc = "send" => pendingUser[k.token] = AccountNoKey \/ AccountReserved(k.token)
  /\ k.pc = "deleteEmail" => k.email \in account \cup freed

AccountStore ==
  /\ account \subseteq Email /\ freed \subseteq Email
  /\ pendingUser \in [Token -> AccountKeys] /\ pendingEmail \in [Email -> 0..TTL]
  /\ mail \subseteq {t \in Token : pendingUser[t] # AccountNoKey}
  /\ failures \in 0..1

\* The links that were sent have their address reserved for as long as they last, and those
\* about to be sent will.
AccountInv ==
  /\ AccountStore /\ visit \in [Visitor -> AccountVisit]
  /\ \A t \in mail : AccountReserved(t)
  /\ \A c \in Visitor : AccountCall(visit[c])

LEMMA SettingsInitial ==
  ASSUME MaxUpdates \in Nat, MaxFaults \in Nat
  PROVE  Settings!Init => SettingsInv
<1>1. ASSUME Settings!Init PROVE SettingsInv
  <2>1. /\ saved = 1 /\ clock = 1 /\ up = {} /\ subscribed = {} /\ inbox = {}
        /\ cache = [p \in Process |-> 0]
        /\ update = [p \in Process |-> [pc |-> "idle", stamp |-> 0]]
        /\ hand = [p \in Process |-> [t \in {"subscriber", "reconciler"} |-> 0]]
        /\ outdated = FALSE /\ stops = 0
    BY <1>1, Zenon DEF Settings!Init, Settings!Nothing, Settings!Idle,
       Settings!Task
  <2>2. 0 \in 0..MaxUpdates + 1 /\ 1 \in 1..MaxUpdates + 1 /\ 0 \in 0..MaxFaults
    OBVIOUS
  <2>3. update \in [Process -> [pc: {"idle", "sent", "adopt", "publish"}, stamp: 0..MaxUpdates + 1]]
    BY <2>1, <2>2
  <2>4. \A p \in Process : update[p].pc = "idle"
    BY <2>1
  <2>5. hand \in [Process -> [{"subscriber", "reconciler"} -> 0..MaxUpdates + 1]]
    BY <2>1, <2>2
  <2> QED BY <2>1, <2>2, <2>3, <2>4, <2>5 DEF SettingsInv
<1> QED BY <1>1, Zenon

LEMMA SettingsStep ==
  ASSUME MaxUpdates \in Nat, MaxFaults \in Nat, SettingsInv
  PROVE  Settings!Next => SettingsInv'
<1> USE DEF SettingsInv, Settings!Nothing, Settings!Idle, Settings!Task
<1>1. ASSUME NEW p \in Process, Settings!Boot(p) PROVE SettingsInv'
  <2>1. saved' \in 1..MaxUpdates + 1 /\ clock' \in 1..MaxUpdates + 1
    BY <1>1 DEF Settings!Boot
  <2>2. cache' = [cache EXCEPT ![p] = saved'] /\ up' = up \cup {p}
        /\ UNCHANGED <<update, subscribed, inbox, hand, outdated, stops>>
    BY <1>1, Zenon DEF Settings!Boot
  <2> QED BY <2>1, <2>2
<1>2. ASSUME NEW p \in Process, Settings!Crash(p) PROVE SettingsInv'
  BY <1>2 DEF Settings!Crash
<1>3. ASSUME NEW p \in Process, Settings!Update(p) PROVE SettingsInv'
  BY <1>3 DEF Settings!Update
<1>4. ASSUME NEW p \in Process, Settings!Commit(p) PROVE SettingsInv'
  BY <1>4 DEF Settings!Commit
<1>5. ASSUME NEW p \in Process, Settings!Adopt(p) PROVE SettingsInv'
  BY <1>5 DEF Settings!Adopt
<1>6. ASSUME NEW p \in Process, Settings!Publish(p) PROVE SettingsInv'
  BY <1>6 DEF Settings!Publish
<1>7. ASSUME NEW p \in Process, Settings!Subscribe(p) PROVE SettingsInv'
  BY <1>7 DEF Settings!Subscribe
<1>8. ASSUME NEW p \in Process, Settings!Disconnect(p) PROVE SettingsInv'
  BY <1>8 DEF Settings!Disconnect
<1>9. ASSUME NEW p \in Process, NEW t \in {"subscriber", "reconciler"},
             Settings!Read(p, t)
      PROVE  SettingsInv'
  BY <1>9 DEF Settings!Read
<1>10. ASSUME NEW p \in Process, NEW t \in {"subscriber", "reconciler"},
              Settings!Apply(p, t)
       PROVE  SettingsInv'
  BY <1>10 DEF Settings!Apply
<1> HIDE DEF SettingsInv
<1>11. "subscriber" \in {"subscriber", "reconciler"} /\ "reconciler" \in {"subscriber", "reconciler"}
  OBVIOUS
<1> QED
  BY <1>1, <1>2, <1>3, <1>4, <1>5, <1>6, <1>7, <1>8, <1>9, <1>10, <1>11, Zenon
  DEF Settings!Next, Settings!Answering, Settings!Listen,
      Settings!Reconcile

LEMMA AccountNumbers == TTL \in Nat \ {0} /\ Nil \notin Email
  BY ServicesAssumption, Zenon DEF Account!RegistrationAssumption

LEMMA AccountInitial == Account!Init => AccountInv
<1>1. ASSUME Account!Init PROVE AccountInv
  <2>1. /\ account = {} /\ mail = {} /\ freed = {} /\ failures = 0
        /\ pendingUser = [t \in Token |-> AccountNoKey] /\ pendingEmail = [e \in Email |-> 0]
        /\ visit = [c \in Visitor |-> [pc |-> "idle", email |-> Nil, token |-> Nil]]
    BY <1>1, Zenon DEF Account!Init, Account!NoCall, Account!NoKey, AccountNoKey
  <2>2. AccountStore
    BY <2>1, AccountNumbers DEF AccountStore, AccountKeys
  <2>3. "idle" \in AccountPhase
    BY DEF AccountPhase
  <2>4. visit \in [Visitor -> AccountVisit] /\ \A c \in Visitor : visit[c].pc = "idle"
    BY <2>1, <2>3 DEF AccountVisit
  <2> QED BY <2>1, <2>2, <2>4 DEF AccountInv, AccountCall
<1> QED BY <1>1, Zenon

\* A token is given up, or what it says and its reservation stay.
AccountKept(t) ==
  \/ pendingUser'[t] = AccountNoKey
  \/ /\ pendingUser[t] # AccountNoKey /\ pendingUser'[t].email = pendingUser[t].email
     /\ AccountReserved(t) => AccountReserved(t)'

\* So it is of every token as long as no address is given up that has no account.
LEMMA AccountKeeps ==
  ASSUME AccountInv, pendingUser' = pendingUser, account \cup freed \subseteq account' \cup freed',
         \A e \in Email : pendingEmail'[e] >= pendingEmail[e] \/ e \in account \cup freed,
         pendingEmail' \in [Email -> 0..TTL]
  PROVE  \A t \in Token : AccountKept(t)
<1> SUFFICES ASSUME NEW t \in Token, pendingUser[t] # AccountNoKey, AccountReserved(t)
             PROVE  AccountReserved(t)'
  BY DEF AccountKept
<1>1. PICK o : o = pendingUser[t]
  OBVIOUS
<1>2. o.email \in Email /\ o.left \in 1..TTL
  BY <1>1 DEF AccountInv, AccountStore, AccountKeys
<1>3. pendingEmail[o.email] \in 0..TTL /\ pendingEmail'[o.email] \in 0..TTL
  BY <1>2 DEF AccountInv, AccountStore
<1>4. pendingEmail[o.email] >= o.left \/ o.email \in account \cup freed
  BY <1>1 DEF AccountReserved
<1>5. pendingEmail'[o.email] >= o.left \/ o.email \in account' \cup freed'
  BY <1>2, <1>3, <1>4, AccountNumbers
<1> QED BY <1>1, <1>5 DEF AccountReserved

\* What a request has done stays done.
LEMMA AccountCalls ==
  ASSUME NEW k, AccountCall(k), account \cup freed \subseteq account' \cup freed',
         k.token \in Token => AccountKept(k.token)
  PROVE  AccountCall(k)'
  BY DEF AccountCall, AccountKept

\* A step in which one request goes on, or answers.
LEMMA AccountGoes ==
  ASSUME AccountInv, NEW c \in Visitor, NEW k \in AccountVisit, visit' = [visit EXCEPT ![c] = k],
         AccountStore', account \cup freed \subseteq account' \cup freed',
         \A t \in Token : AccountKept(t),
         AccountCall(k)', \A t \in mail' : t \in mail \/ AccountReserved(t)'
  PROVE  AccountInv'
<1>1. ASSUME NEW t \in mail' PROVE AccountReserved(t)'
  <2>1. t \in Token /\ pendingUser'[t] # AccountNoKey
    BY <1>1 DEF AccountStore
  <2>2. AccountReserved(t) => AccountReserved(t)'
    BY <2>1 DEF AccountKept
  <2> QED BY <1>1, <2>2 DEF AccountInv
<1>2. ASSUME NEW d \in Visitor PROVE AccountCall(visit[d])'
  <2>1. CASE d = c
    <3>1. visit'[d] = k
      BY <2>1 DEF AccountInv
    <3> QED BY <3>1 DEF AccountCall
  <2>2. CASE d # c
    <3>1. PICK o : o = visit[d]
      OBVIOUS
    <3>2. visit'[d] = o /\ AccountCall(o)
      BY <2>2, <3>1 DEF AccountInv
    <3>3. AccountCall(o)'
      BY <3>2, AccountCalls, Zenon
    <3> QED BY <3>2, <3>3 DEF AccountCall
  <2> QED BY <2>1, <2>2
<1>3. visit' \in [Visitor -> AccountVisit]
  BY DEF AccountInv
<1> QED BY <1>1, <1>2, <1>3 DEF AccountInv

\* A step that is of no request.
LEMMA AccountStays ==
  ASSUME AccountInv, visit' = visit, AccountStore', account \cup freed \subseteq account' \cup freed',
         \A t \in Token : AccountKept(t), mail' \subseteq mail
  PROVE  AccountInv'
<1>1. ASSUME NEW t \in mail' PROVE AccountReserved(t)'
  <2>1. t \in Token /\ pendingUser'[t] # AccountNoKey
    BY <1>1 DEF AccountStore
  <2> QED BY <1>1, <2>1 DEF AccountKept, AccountInv
<1>2. ASSUME NEW d \in Visitor PROVE AccountCall(visit[d])'
  <2>1. PICK o : o = visit[d]
    OBVIOUS
  <2>2. AccountCall(o)'
    BY <2>1, AccountCalls, Zenon DEF AccountInv
  <2> QED BY <2>1, <2>2 DEF AccountCall
<1> QED BY <1>1, <1>2 DEF AccountInv

\* The answer to a request.
LEMMA AccountAnswer ==
  /\ Account!NoCall = [pc |-> "idle", email |-> Nil, token |-> Nil]
  /\ Account!NoCall \in AccountVisit /\ AccountCall(Account!NoCall)'
<1>1. Account!NoCall = [pc |-> "idle", email |-> Nil, token |-> Nil]
  BY Zenon DEF Account!NoCall
<1> QED BY <1>1 DEF AccountVisit, AccountPhase, AccountCall

\* A request that goes on from one place to another.
LEMMA AccountMoves ==
  ASSUME AccountInv, NEW c \in Visitor, NEW w \in AccountPhase
  PROVE  \E k \in AccountVisit : /\ [visit EXCEPT ![c].pc = w] = [visit EXCEPT ![c] = k]
                                 /\ k.pc = w /\ k.email = visit[c].email
                                 /\ k.token = visit[c].token
<1>1. PICK o \in AccountVisit : o = visit[c]
  BY DEF AccountInv
<1>2. PICK k : k = [o EXCEPT !.pc = w]
  OBVIOUS
<1>3. k \in AccountVisit /\ k.pc = w /\ k.email = o.email /\ k.token = o.token
  BY <1>1, <1>2 DEF AccountVisit
<1>4. [visit EXCEPT ![c].pc = w] = [visit EXCEPT ![c] = k]
  BY <1>1, <1>2
<1> QED BY <1>1, <1>3, <1>4

\* The steps that write no key.
LEMMA AccountLooks ==
  ASSUME AccountInv, NEW c \in Visitor
  PROVE  /\ \A e \in Email : Account!Register(c, e) => AccountInv'
         /\ Account!RegisterAtOnce(c) \/ Account!PendingExists(c) => AccountInv'
         /\ Account!Insert(c) \/ Account!Drop(c) => AccountInv'
<1> USE AccountNumbers DEF Account!Answer, Account!Goto, Account!Begin, Account!keys
<1>a. /\ AccountStore /\ visit \in [Visitor -> AccountVisit] /\ AccountCall(visit[c])
      /\ visit[c] \in AccountVisit
  BY DEF AccountInv
<1>b. ASSUME NEW k \in AccountVisit, visit' = [visit EXCEPT ![c] = k], AccountCall(k)',
             UNCHANGED <<pendingUser, pendingEmail, mail, freed>>, failures' \in 0..1,
             account \subseteq account', account' \subseteq Email
      PROVE  AccountInv'
  <2>1. AccountStore'
    BY <1>a, <1>b DEF AccountStore
  <2>2. \A t \in Token : AccountKept(t)
    BY <1>a, <1>b, AccountKeeps DEF AccountStore
  <2> QED BY <1>b, <2>1, <2>2, AccountGoes
<1>1. ASSUME NEW e \in Email, Account!Register(c, e) PROVE AccountInv'
  <2>1. PICK k : k = [pc |-> "asked", email |-> e, token |-> Nil]
    OBVIOUS
  <2>2. /\ visit' = [visit EXCEPT ![c] = k]
        /\ UNCHANGED <<account, pendingUser, pendingEmail, mail, freed, failures>>
    BY <1>1, <2>1, Zenon DEF Account!Register
  <2>3. k \in AccountVisit /\ AccountCall(k)'
    BY <2>1 DEF AccountVisit, AccountPhase, AccountCall
  <2> QED BY <1>a, <1>b, <2>2, <2>3 DEF AccountStore
<1>2. ASSUME Account!RegisterAtOnce(c) PROVE AccountInv'
  <2>1. /\ visit' = [visit EXCEPT ![c] = Account!NoCall] /\ visit[c].pc = "asked"
        /\ account' = account \cup {visit[c].email}
        /\ UNCHANGED <<pendingUser, pendingEmail, mail, freed, failures>>
    BY <1>2, Zenon DEF Account!RegisterAtOnce
  <2>2. visit[c].email \in Email
    BY <1>a, <2>1 DEF AccountCall
  <2> QED BY <1>a, <1>b, <2>1, <2>2, AccountAnswer DEF AccountStore
<1>3. ASSUME Account!PendingExists(c) PROVE AccountInv'
  <2>1. /\ \/ visit' = [visit EXCEPT ![c] = Account!NoCall]
           \/ visit' = [visit EXCEPT ![c].pc = "putUser"]
        /\ visit[c].pc = "asked"
        /\ UNCHANGED <<account, pendingUser, pendingEmail, mail, freed, failures>>
    BY <1>3, Zenon DEF Account!PendingExists
  <2>2. "putUser" \in AccountPhase
    BY DEF AccountPhase
  <2>3. PICK k \in AccountVisit : /\ [visit EXCEPT ![c].pc = "putUser"] = [visit EXCEPT ![c] = k]
                                  /\ k.pc = "putUser" /\ k.email = visit[c].email
                                  /\ k.token = visit[c].token
    BY <2>2, AccountMoves
  <2>4. AccountCall(k)'
    BY <1>a, <2>1, <2>3 DEF AccountCall
  <2> QED BY <1>a, <1>b, <2>1, <2>3, <2>4, AccountAnswer DEF AccountStore
<1>4. ASSUME Account!Insert(c) PROVE AccountInv'
  <2>1. /\ \/ visit' = [visit EXCEPT ![c] = Account!NoCall] /\ account' = account
           \/ /\ visit' = [visit EXCEPT ![c].pc = "deleteEmail"]
              /\ account' = account \cup {visit[c].email}
        /\ visit[c].pc = "insert"
        /\ UNCHANGED <<pendingUser, pendingEmail, mail, freed, failures>>
    BY <1>4, Zenon DEF Account!Insert
  <2>2. "deleteEmail" \in AccountPhase
    BY DEF AccountPhase
  <2>3. PICK k \in AccountVisit :
          /\ [visit EXCEPT ![c].pc = "deleteEmail"] = [visit EXCEPT ![c] = k]
          /\ k.pc = "deleteEmail" /\ k.email = visit[c].email /\ k.token = visit[c].token
    BY <2>2, AccountMoves
  <2>4. visit[c].email \in Email
    BY <1>a, <2>1 DEF AccountCall
  <2>5. account' = account \cup {visit[c].email} => AccountCall(k)'
    BY <2>3, <2>4 DEF AccountCall
  <2> QED BY <1>a, <1>b, <2>1, <2>3, <2>4, <2>5, AccountAnswer DEF AccountStore
<1>5. ASSUME Account!Drop(c) PROVE AccountInv'
  <2>1. /\ visit' = [visit EXCEPT ![c] = Account!NoCall]
        /\ failures < 1 /\ failures' = failures + 1
        /\ UNCHANGED <<account, pendingUser, pendingEmail, mail, freed>>
    BY <1>5, Zenon DEF Account!Drop
  <2>2. failures' \in 0..1 /\ account' \subseteq Email /\ account \subseteq account'
    BY <1>a, <2>1 DEF AccountStore
  <2>3. PICK k \in AccountVisit : k = Account!NoCall /\ AccountCall(k)'
    BY AccountAnswer
  <2>4. visit' = [visit EXCEPT ![c] = k]
    BY <2>1, <2>3
  <2> QED BY <1>b, <2>1, <2>2, <2>3, <2>4
<1> QED BY <1>1, <1>2, <1>3, <1>4, <1>5, Zenon

\* The token is written: its key is new, and no other request has it in hand.
LEMMA AccountPutUser ==
  ASSUME AccountInv, NEW c \in Visitor, NEW t \in Token, Account!PutUser(c, t)
  PROVE  AccountInv'
<1>0. PICK e, o, k : /\ e = visit[c].email /\ o = [email |-> e, left |-> TTL]
                     /\ k = [visit[c] EXCEPT !.pc = "putEmail", !.token = t]
  OBVIOUS
<1>1. /\ visit[c].pc = "putUser" /\ pendingUser[t] = AccountNoKey
      /\ \A d \in Visitor : visit[d].token # t
      /\ visit' = [visit EXCEPT ![c].pc = "putEmail", ![c].token = t]
      /\ pendingUser' = [pendingUser EXCEPT ![t] = o]
      /\ UNCHANGED <<account, pendingEmail, mail, freed, failures>>
  BY <1>0, Zenon DEF Account!PutUser, Account!NoKey, AccountNoKey
<1>2. /\ AccountStore /\ visit \in [Visitor -> AccountVisit] /\ AccountCall(visit[c])
      /\ visit[c] \in AccountVisit
  BY DEF AccountInv
<1>3. e \in Email /\ o \in AccountKeys /\ o.email = e
  BY <1>0, <1>1, <1>2, AccountNumbers DEF AccountCall, AccountKeys
<1>4. k \in AccountVisit /\ k.pc = "putEmail" /\ k.token = t /\ k.email = e
  BY <1>0, <1>2 DEF AccountVisit, AccountPhase
<1>5. visit' = [visit EXCEPT ![c] = k]
  BY <1>0, <1>1, <1>2 DEF AccountVisit
<1>6. pendingUser'[t] = o /\ \A u \in Token \ {t} : pendingUser'[u] = pendingUser[u]
  BY <1>1, <1>2 DEF AccountStore
<1>7. AccountStore'
  <2>1. pendingUser' \in [Token -> AccountKeys]
    BY <1>1, <1>2, <1>3 DEF AccountStore
  <2>2. t \notin mail
    BY <1>1, <1>2 DEF AccountStore
  <2> QED BY <1>1, <1>2, <1>6, <2>1, <2>2 DEF AccountStore
<1>8. \A u \in Token \ {t} : AccountReserved(u) => AccountReserved(u)'
  BY <1>1, <1>6 DEF AccountReserved
<1>9. \A u \in mail' : AccountReserved(u)'
  <2>1. \A u \in mail : u \in Token \ {t} /\ AccountReserved(u)
    BY <1>1, <1>2 DEF AccountStore, AccountInv
  <2> QED BY <1>1, <1>8, <2>1
<1>10. AccountCall(k)'
  BY <1>3, <1>4, <1>6 DEF AccountCall
<1>11. ASSUME NEW d \in Visitor PROVE AccountCall(visit[d])'
  <2>1. CASE d = c
    <3>1. visit'[d] = k
      BY <1>2, <1>5, <2>1
    <3> QED BY <1>10, <3>1 DEF AccountCall
  <2>2. CASE d # c
    <3>1. PICK q : q = visit[d]
      OBVIOUS
    <3>2. visit'[d] = q /\ AccountCall(q) /\ q.token # t
      BY <1>1, <1>2, <1>5, <2>2, <3>1 DEF AccountInv
    <3>3. AccountCall(q)'
      BY <1>1, <1>6, <1>8, <3>2 DEF AccountCall
    <3> QED BY <3>2, <3>3 DEF AccountCall
  <2> QED BY <2>1, <2>2
<1>12. visit' \in [Visitor -> AccountVisit]
  BY <1>2, <1>4, <1>5
<1> QED BY <1>7, <1>9, <1>11, <1>12 DEF AccountInv

\* The address is written, for as long as a token lasts at most; given up when it has its account.
LEMMA AccountAddress ==
  ASSUME AccountInv, NEW c \in Visitor
  PROVE  Account!PutEmail(c) \/ Account!DeleteEmail(c) => AccountInv'
<1>2. /\ AccountStore /\ visit \in [Visitor -> AccountVisit] /\ AccountCall(visit[c])
  BY DEF AccountInv
<1>3. ASSUME Account!PutEmail(c) PROVE AccountInv'
  <2>1. /\ visit' = [visit EXCEPT ![c].pc = "send"] /\ visit[c].pc = "putEmail"
        /\ pendingEmail' = [pendingEmail EXCEPT ![visit[c].email] = TTL]
        /\ UNCHANGED <<account, pendingUser, mail, freed, failures>>
    BY <1>3, Zenon DEF Account!PutEmail, Account!Goto
  <2>2. "send" \in AccountPhase
    BY DEF AccountPhase
  <2>3. PICK k \in AccountVisit : /\ [visit EXCEPT ![c].pc = "send"] = [visit EXCEPT ![c] = k]
                                  /\ k.pc = "send" /\ k.email = visit[c].email
                                  /\ k.token = visit[c].token
    BY <2>2, AccountMoves
  <2>4. /\ k.email \in Email /\ k.token \in Token
        /\ pendingUser[k.token] = AccountNoKey \/ pendingUser[k.token].email = k.email
    BY <1>2, <2>1, <2>3 DEF AccountCall
  <2>5. /\ pendingEmail' \in [Email -> 0..TTL] /\ pendingEmail'[k.email] = TTL
        /\ \A e \in Email : pendingEmail'[e] >= pendingEmail[e]
    BY <1>2, <2>1, <2>3, <2>4, AccountNumbers DEF AccountStore
  <2>6. AccountStore' /\ \A t \in Token : AccountKept(t)
    BY <1>2, <2>1, <2>5, AccountKeeps DEF AccountStore
  <2>7. AccountCall(k)'
    <3>1. PICK o : o = pendingUser[k.token]
      OBVIOUS
    <3>2. o \in AccountKeys /\ (o = AccountNoKey \/ o.email = k.email)
      BY <1>2, <2>4, <3>1 DEF AccountStore
    <3>3. o = AccountNoKey \/ pendingEmail'[o.email] >= o.left
      BY <2>5, <3>2, AccountNumbers DEF AccountKeys
    <3> QED BY <2>1, <2>3, <2>4, <3>1, <3>3 DEF AccountCall, AccountReserved
  <2> QED BY <2>1, <2>3, <2>6, <2>7, AccountGoes
<1>4. ASSUME Account!DeleteEmail(c) PROVE AccountInv'
  <2>1. /\ visit' = [visit EXCEPT ![c] = Account!NoCall] /\ visit[c].pc = "deleteEmail"
        /\ pendingEmail' = [pendingEmail EXCEPT ![visit[c].email] = 0]
        /\ UNCHANGED <<account, pendingUser, mail, freed, failures>>
    BY <1>4, Zenon DEF Account!DeleteEmail, Account!Answer
  <2>2. visit[c].email \in account \cup freed
    BY <1>2, <2>1 DEF AccountCall
  <2>3. /\ pendingEmail' \in [Email -> 0..TTL]
        /\ \A e \in Email : pendingEmail'[e] >= pendingEmail[e] \/ e \in account \cup freed
    BY <1>2, <2>1, <2>2, AccountNumbers DEF AccountStore
  <2>4. AccountStore' /\ \A t \in Token : AccountKept(t)
    BY <1>2, <2>1, <2>3, AccountKeeps DEF AccountStore
  <2> QED BY <2>1, <2>4, AccountAnswer, AccountGoes
<1> QED BY <1>3, <1>4, Zenon

\* The link is sent when both keys are written, and redeemed once.
LEMMA AccountLinks ==
  ASSUME AccountInv, NEW c \in Visitor
  PROVE  /\ Account!Send(c) => AccountInv'
         /\ \A t \in Token : Account!Verify(c, t) => AccountInv'
<1>2. /\ AccountStore /\ visit \in [Visitor -> AccountVisit] /\ AccountCall(visit[c])
  BY DEF AccountInv
<1>3. ASSUME Account!Send(c) PROVE AccountInv'
  <2>1. /\ visit' = [visit EXCEPT ![c] = Account!NoCall] /\ visit[c].pc = "send"
        /\ \/ /\ mail' = mail \cup {t \in {visit[c].token} : pendingUser[t].left > 0}
              /\ failures' = failures
           \/ failures < 1 /\ failures' = failures + 1 /\ mail' = mail
        /\ UNCHANGED <<account, pendingUser, pendingEmail, freed>>
    BY <1>3, Zenon DEF Account!Send, Account!Answer
  <2>2. PICK t : t = visit[c].token
    OBVIOUS
  <2>3. t \in Token /\ (pendingUser[t] = AccountNoKey \/ AccountReserved(t))
    BY <1>2, <2>1, <2>2 DEF AccountCall
  <2>4. \A u \in mail' : u \in mail \/ (u = t /\ pendingUser[t].left > 0)
    BY <2>1, <2>2
  <2>5. pendingUser[t].left > 0 => pendingUser[t] # AccountNoKey
    BY DEF AccountNoKey
  <2>6. AccountStore'
    BY <1>2, <2>1, <2>3, <2>4, <2>5 DEF AccountStore
  <2>7. \A u \in Token : AccountKept(u)
    BY <1>2, <2>1, AccountKeeps DEF AccountStore
  <2>8. \A u \in mail' : u \in mail \/ AccountReserved(u)'
    <3>1. AccountReserved(t) => AccountReserved(t)'
      BY <2>1 DEF AccountReserved
    <3> QED BY <2>3, <2>4, <2>5, <3>1
  <2> QED BY <2>1, <2>6, <2>7, <2>8, AccountAnswer, AccountGoes
<1>4. ASSUME NEW t \in Token, Account!Verify(c, t) PROVE AccountInv'
  <2>1. PICK k : k = [pc |-> "insert", email |-> pendingUser[t].email, token |-> Nil]
    OBVIOUS
  <2>2. /\ t \in mail /\ mail' = mail \ {t} /\ visit' = [visit EXCEPT ![c] = k]
        /\ pendingUser' = [pendingUser EXCEPT ![t] = AccountNoKey]
        /\ UNCHANGED <<account, pendingEmail, freed, failures>>
    BY <1>4, <2>1, Zenon DEF Account!Verify, Account!Begin, Account!NoKey, AccountNoKey
  <2>3. pendingUser[t].email \in Email
    BY <1>2, <2>2 DEF AccountStore, AccountKeys
  <2>4. k \in AccountVisit /\ AccountCall(k)'
    BY <2>1, <2>3 DEF AccountVisit, AccountPhase, AccountCall
  <2>5. pendingUser' \in [Token -> AccountKeys]
    BY <1>2, <2>2 DEF AccountStore, AccountKeys
  <2>6. \A u \in Token : pendingUser'[u] = IF u = t THEN AccountNoKey ELSE pendingUser[u]
    BY <1>2, <2>2 DEF AccountStore
  <2>7. AccountStore'
    BY <1>2, <2>2, <2>5, <2>6 DEF AccountStore
  <2>8. ASSUME NEW u \in Token PROVE AccountKept(u)
    BY <2>2, <2>6 DEF AccountKept, AccountReserved
  <2> QED BY <2>2, <2>4, <2>7, <2>8, AccountGoes
<1> QED BY <1>3, <1>4, Zenon

\* Time passes for both keys alike.
LEMMA AccountTick ==
  ASSUME AccountInv, Account!Tick
  PROVE  AccountInv'
<1>1. /\ pendingUser' = [t \in Token |-> IF pendingUser[t].left > 1
                                          THEN [pendingUser[t] EXCEPT !.left = @ - 1]
                                          ELSE AccountNoKey]
      /\ pendingEmail' = [e \in Email |-> IF pendingEmail[e] > 1 THEN pendingEmail[e] - 1 ELSE 0]
      /\ mail' = {t \in mail : pendingUser[t].left > 1}
      /\ UNCHANGED <<account, freed, visit, failures>>
  BY Zenon DEF Account!Tick, Account!NoKey, AccountNoKey
<1>2. AccountStore
  BY DEF AccountInv
<1>3. ASSUME NEW t \in Token
      PROVE  /\ pendingUser'[t] \in AccountKeys
             /\ pendingUser[t].left > 1 =>
                  /\ pendingUser[t] # AccountNoKey /\ pendingUser'[t] # AccountNoKey
                  /\ pendingUser[t].email \in Email /\ pendingUser[t].left \in 1..TTL
                  /\ pendingUser'[t].email = pendingUser[t].email
                  /\ pendingUser'[t].left = pendingUser[t].left - 1
             /\ ~(pendingUser[t].left > 1) => pendingUser'[t] = AccountNoKey
  <2>1. PICK o : o = pendingUser[t]
    OBVIOUS
  <2>2. o \in AccountKeys
    BY <1>2, <2>1 DEF AccountStore
  <2>3. pendingUser'[t] = IF o.left > 1 THEN [o EXCEPT !.left = @ - 1] ELSE AccountNoKey
    BY <1>1, <2>1
  <2>4. CASE o.left > 1
    <3>1. o \in [email: Email, left: 1..TTL]
      BY <2>2, <2>4 DEF AccountKeys, AccountNoKey
    <3>2. PICK q : q = [o EXCEPT !.left = @ - 1]
      OBVIOUS
    <3>3. q \in [email: Email, left: 1..TTL] /\ q.email = o.email /\ q.left = o.left - 1
      BY <2>4, <3>1, <3>2, AccountNumbers
    <3>4. q.left > 0 /\ o # AccountNoKey /\ q # AccountNoKey
      BY <2>4, <3>1, <3>3, AccountNumbers DEF AccountNoKey
    <3> QED BY <2>1, <2>3, <2>4, <3>1, <3>2, <3>3, <3>4 DEF AccountKeys
  <2>5. CASE ~(o.left > 1)
    BY <2>1, <2>3, <2>5 DEF AccountKeys
  <2> QED BY <2>4, <2>5
<1>4. /\ pendingEmail' \in [Email -> 0..TTL]
      /\ \A e \in Email : pendingEmail'[e] >= pendingEmail[e] - 1
  BY <1>1, <1>2, AccountNumbers DEF AccountStore
<1>5. AccountStore'
  <2>1. pendingUser' \in [Token -> AccountKeys]
    <3>1. pendingUser' = [t \in Token |-> pendingUser'[t]]
      BY <1>1
    <3> QED BY <1>3, <3>1
  <2>2. mail' \subseteq {t \in Token : pendingUser'[t] # AccountNoKey}
    BY <1>1, <1>2, <1>3 DEF AccountStore
  <2> QED BY <1>1, <1>2, <1>4, <2>1, <2>2 DEF AccountStore
<1>6. ASSUME NEW t \in Token PROVE AccountKept(t)
  <2>1. CASE pendingUser[t].left > 1
    <3>1. PICK o, q : o = pendingUser[t] /\ q = pendingUser'[t]
      OBVIOUS
    <3>2. /\ o # AccountNoKey /\ o.email \in Email /\ o.left \in 1..TTL
          /\ q.email = o.email /\ q.left = o.left - 1
      BY <1>3, <2>1, <3>1
    <3>3. pendingEmail[o.email] \in 0..TTL /\ pendingEmail'[o.email] \in 0..TTL
      BY <1>2, <1>4, <3>2 DEF AccountStore
    <3>4. pendingEmail[o.email] >= o.left => pendingEmail'[q.email] >= q.left
      BY <1>4, <3>2, <3>3, AccountNumbers
    <3> QED BY <1>1, <3>1, <3>2, <3>4 DEF AccountKept, AccountReserved
  <2>2. CASE ~(pendingUser[t].left > 1)
    BY <1>3, <2>2 DEF AccountKept
  <2> QED BY <2>1, <2>2
<1> QED BY <1>1, <1>5, <1>6, AccountStays

LEMMA AccountStep ==
  ASSUME AccountInv
  PROVE  Account!Next => AccountInv'
<1>1. ASSUME NEW c \in Visitor,
             \/ \E e \in Email : Account!Register(c, e)
             \/ \E t \in Token : Account!Verify(c, t)
             \/ Account!Step(c) \/ Account!Drop(c)
      PROVE  AccountInv'
  <2>1. ASSUME NEW t \in Token, Account!PutUser(c, t) PROVE AccountInv'
    BY <2>1, AccountPutUser, Zenon
  <2> QED
    BY <1>1, <2>1, AccountLooks, AccountAddress, AccountLinks, Zenon DEF Account!Step
<1>2. ASSUME NEW e \in Email, Account!AdminCreate(e) \/ Account!AdminRename(e)
      PROVE  AccountInv'
  <2>1. /\ UNCHANGED <<pendingUser, pendingEmail, mail, visit, failures>>
        /\ account' \subseteq Email /\ freed' \subseteq Email
        /\ account \cup freed \subseteq account' \cup freed'
    BY <1>2 DEF Account!AdminCreate, Account!AdminRename, Account!keys, AccountInv, AccountStore
  <2>2. AccountStore' /\ \A t \in Token : AccountKept(t)
    <3>1. AccountStore
      BY DEF AccountInv
    <3> QED BY <2>1, <3>1, AccountKeeps, AccountNumbers DEF AccountStore
  <2> QED BY <2>1, <2>2, AccountStays
<1>3. ASSUME Account!Tick PROVE AccountInv'
  BY <1>3, AccountTick, Zenon
<1> QED BY <1>1, <1>2, <1>3, Zenon DEF Account!Next

-----------------------------------------------------------------------------
(* The three of them, as MCServices checks them.                             *)

ServicesInv == UploadInv /\ SettingsInv /\ AccountInv

LEMMA ServicesNumbers == UploadAssumption /\ MaxUpdates \in Nat /\ MaxFaults \in Nat
<1>1. UploadAssumption /\ MaxUpdates \in Nat
  BY ServicesAssumption, Zenon DEF UploadAssumption
<1> QED BY <1>1, UploadBounds, Zenon

LEMMA ServicesTypes ==
  ASSUME ServicesInv
  PROVE  Settings!TypeOK /\ Account!TypeOK
<1>1. SettingsInv /\ AccountInv
  BY Zenon DEF ServicesInv
<1>2. Settings!TypeOK
  BY <1>1, Zenon DEF SettingsInv, Settings!TypeOK, Settings!Task
<1>3. Account!TypeOK
  BY <1>1, Zenon DEF AccountInv, AccountStore, AccountPhase, AccountVisit, AccountKeys,
     AccountNoKey, Account!TypeOK, Account!Phase, Account!NoKey
<1> QED BY <1>2, <1>3, Zenon

\* Of the three, those that a step is not about stay as they are.
LEMMA ServicesSteps ==
  ASSUME ServicesInv
  PROVE  [ServicesNext]_all => ServicesInv'
<1>0. UploadInv /\ SettingsInv /\ AccountInv /\ UploadTypes /\ UploadAssumption
  BY ServicesNumbers, Zenon DEF ServicesInv, UploadInv
<1>a. ASSUME UNCHANGED inUpload PROVE UploadInv'
  <2>1. UNCHANGED Upload!vars
    BY <1>a, Zenon DEF inUpload, Upload!vars, Upload!rows, Upload!store, Upload!ghost
  <2>2. UploadPreserved
    BY <1>0, <2>1, UploadStutters, Zenon
  <2> QED BY <1>0, <2>2 DEF UploadInv, UploadPreserved
<1>b. ASSUME UNCHANGED inSettings PROVE SettingsInv'
  BY <1>0, <1>b DEF inSettings, SettingsInv
<1>c. ASSUME UNCHANGED inRegistration PROVE AccountInv'
  BY <1>0, <1>c DEF inRegistration, AccountInv, AccountStore, AccountCall, AccountReserved
<1>1. ASSUME UploadNext, UNCHANGED <<part, inSettings, inRegistration>>
      PROVE  ServicesInv'
  <2>1. UploadPreserved
    BY <1>0, <1>1, UploadSteps, Zenon
  <2>2. UploadInv'
    BY <1>0, <2>1 DEF UploadInv, UploadPreserved
  <2>3. UNCHANGED inSettings /\ UNCHANGED inRegistration
    BY <1>1, Zenon
  <2> QED BY <1>b, <1>c, <2>2, <2>3, Zenon DEF ServicesInv
<1>2. ASSUME Settings!Next, UNCHANGED <<part, inUpload, inRegistration>>
      PROVE  ServicesInv'
  <2>1. SettingsInv'
    BY <1>0, <1>2, ServicesNumbers, SettingsStep, Zenon
  <2>2. UNCHANGED inUpload /\ UNCHANGED inRegistration
    BY <1>2, Zenon
  <2> QED BY <1>a, <1>c, <2>1, <2>2, Zenon DEF ServicesInv
<1>3. ASSUME Account!Next, UNCHANGED <<part, inUpload, inSettings>>
      PROVE  ServicesInv'
  <2>1. AccountInv'
    BY <1>0, <1>3, AccountStep, Zenon
  <2>2. UNCHANGED inUpload /\ UNCHANGED inSettings
    BY <1>3, Zenon
  <2> QED BY <1>a, <1>b, <2>1, <2>2, Zenon DEF ServicesInv
<1>4. ASSUME UNCHANGED all PROVE ServicesInv'
  <2>1. UNCHANGED inUpload /\ UNCHANGED inSettings /\ UNCHANGED inRegistration
    BY <1>4, Zenon DEF all
  <2> QED BY <1>a, <1>b, <1>c, <2>1, Zenon DEF ServicesInv
<1>5. ASSUME ServicesNext PROVE ServicesInv'
  <2>1. \/ UploadNext /\ UNCHANGED <<part, inSettings, inRegistration>>
        \/ Settings!Next /\ UNCHANGED <<part, inUpload, inRegistration>>
        \/ Account!Next /\ UNCHANGED <<part, inUpload, inSettings>>
    BY <1>5, Zenon DEF ServicesNext, UploadNext
  <2> QED BY <1>1, <1>2, <1>3, <2>1, Zenon
<1> QED BY <1>4, <1>5, Zenon

\* The invariant the run checks, for every instance: beside what an upload keeps and leaves,
\* no process holds settings of a later stamp than the clock has given and only who runs
\* listens, and every link in a mail has its token.
THEOREM ServicesAreSound == ServicesSpec => []ServicesSound
<1>1. ServicesInit => ServicesInv
  <2>1. ASSUME ServicesInit PROVE ServicesInv
    <3>1. Upload!Init /\ Settings!Init /\ Account!Init
      BY <2>1, Zenon DEF ServicesInit
    <3> QED
      BY <3>1, ServicesNumbers, UploadInitial, SettingsInitial, AccountInitial, Zenon
      DEF ServicesInv
  <2> QED BY <2>1, Zenon
<1>2. ServicesInv /\ [ServicesNext]_all => ServicesInv'
  BY ServicesSteps, Zenon
<1>3. ServicesSpec => []ServicesInv
  BY <1>1, <1>2, PTL DEF ServicesSpec
<1>4. ServicesSpec => Upload!Spec
  <2>1. ServicesInit => Upload!Init
    BY Zenon DEF ServicesInit
  <2>2. [ServicesNext]_all => [Upload!Next]_Upload!vars
    BY Zenon
    DEF ServicesNext, all, inUpload, Upload!vars, Upload!rows, Upload!store, Upload!ghost
  <2> QED BY <2>1, <2>2, PTL DEF ServicesSpec, Upload!Spec
<1>5. ServicesInv => Settings!TypeOK /\ Account!TypeOK
  BY ServicesTypes, Zenon
<1> QED
  BY <1>3, <1>4, <1>5, UploadTypeCorrect, UploadRegisteredKept, UploadNothingLeft, PTL
  DEF ServicesSound

\* A link that was sent keeps its address from being asked for again, until it has its account:
\* the address is written after the token and lasts as long, and is given up for an account only
\* (put_pending, verify_pending).
THEOREM LinksStayReserved == ServicesSpec => []LinksReserved
<1>1. ServicesInit => ServicesInv
  <2>1. ASSUME ServicesInit PROVE ServicesInv
    <3>1. Upload!Init /\ Settings!Init /\ Account!Init
      BY <2>1, Zenon DEF ServicesInit
    <3> QED
      BY <3>1, ServicesNumbers, UploadInitial, SettingsInitial, AccountInitial, Zenon
      DEF ServicesInv
  <2> QED BY <2>1, Zenon
<1>2. ServicesInv /\ [ServicesNext]_all => ServicesInv'
  BY ServicesSteps, Zenon
<1>3. ServicesInv => LinksReserved
  <2> SUFFICES ASSUME ServicesInv, NEW t \in mail
               PROVE  \/ pendingEmail[pendingUser[t].email] > 0
                      \/ pendingUser[t].email \in account \cup freed
    BY Zenon DEF LinksReserved, Account!LinksReserved
  <2>1. PICK o : o = pendingUser[t]
    OBVIOUS
  <2>2. o \in AccountKeys /\ o # AccountNoKey /\ pendingEmail \in [Email -> 0..TTL]
    BY <2>1 DEF ServicesInv, AccountInv, AccountStore
  <2>3. o.email \in Email /\ o.left \in 1..TTL
    BY <2>2 DEF AccountKeys
  <2>4. pendingEmail[o.email] >= o.left \/ o.email \in account \cup freed
    BY <2>1 DEF ServicesInv, AccountInv, AccountReserved
  <2> QED BY <2>1, <2>2, <2>3, <2>4, AccountNumbers
<1> QED BY <1>1, <1>2, <1>3, PTL DEF ServicesSpec

-----------------------------------------------------------------------------
(* The WebSocket hubs: SyncHub, for any hubs, users, connections and limits. *)

HubPhase == {"free", "accepted", "registered", "spawned", "running", "sending", "leaving",
             "emptied", "unlisted", "gone"}

HubsTypes ==
  /\ phase \in [Conn -> HubPhase] /\ want \in [Conn -> Limits]
  /\ evicted \in [Conn \cup Hub -> SUBSET Conn]
  /\ listed \subseteq Conn /\ closing \subseteq Conn
  /\ cut \in [Conn -> {"free", "spawned", "running", "sending"}]
  /\ holder \in [Conn -> Hub \cup {NoHub}]
  /\ registrations \in Nat /\ score \in [Conn -> 0 .. registrations]
  /\ told \subseteq Conn
  /\ bus \in [Hub -> {"off", "ready", "broken"}]
  /\ alive \in [Hub -> {"up", "stopping", "down"}]
  /\ limit \in [Hub -> Limits] /\ trims \in [Hub -> SUBSET User]
  /\ events \in 0 .. MaxEvents

\* What the phases say of the maps and of Redis.
HubsMaps ==
  /\ \A c \in listed :
       phase[c] \notin {"free", "accepted", "registered", "emptied", "unlisted", "gone"}
  /\ \A c \in Conn : phase[c] \in {"free", "accepted"} => holder[c] = NoHub
  /\ \A c \in Conn : holder[c] # NoHub => score[c] # 0
  /\ \A c \in Conn : holder[c] \in {NoHub, Home[c]}

HubsInv == HubsTypes /\ HubsMaps /\ IsFiniteSet({c \in Conn : score[c] # 0})

\* A step that neither registers a connection nor trims a user.
HubsQuiet ==
  /\ \A d \in Conn : phase[d] = "accepted" => phase'[d] # "registered"
  /\ \A h \in Hub, u \in User : u \in trims[h] /\ u \notin trims'[h] => holder' = holder

\* At most one connection comes into the sorted sets.
HubsGrow == \E c \in Conn : \A d \in Conn \ {c} : score'[d] # 0 => score[d] # 0

HubsKept == HubsTypes' /\ HubsMaps' /\ (score' = score \/ HubsGrow)

LEMMA HubsConstants ==
  /\ Home \in [Conn -> Hub] /\ UserOf \in [Conn -> User]
  /\ Limits \subseteq Nat \ {0} /\ NoHub \notin Hub /\ MaxEvents \in Nat
  BY HubsAssumption, Zenon DEF Hubs!ConstantAssumption

LEMMA HubsFinite ==
  ASSUME HubsInv, HubsKept
  PROVE  HubsInv'
<1>1. IsFiniteSet({c \in Conn : score'[c] # 0})
  <2>1. CASE score' = score
    BY <2>1 DEF HubsInv
  <2>2. CASE HubsGrow
    <3>1. PICK c \in Conn : \A d \in Conn \ {c} : score'[d] # 0 => score[d] # 0
      BY <2>2 DEF HubsGrow
    <3>2. IsFiniteSet({d \in Conn : score[d] # 0} \cup {c})
      BY FS_AddElement DEF HubsInv
    <3>3. {d \in Conn : score'[d] # 0} \subseteq {d \in Conn : score[d] # 0} \cup {c}
      BY <3>1
    <3> QED BY <3>2, <3>3, FS_Subset
  <2> QED BY <2>1, <2>2 DEF HubsKept
<1> QED BY <1>1 DEF HubsInv, HubsKept

LEMMA HubsInitial == Hubs!Init => HubsInv
<1>1. ASSUME Hubs!Init PROVE HubsInv
  <2>1. /\ phase = [c \in Conn |-> "free"]
        /\ \E m \in Limits : limit = [h \in Hub |-> m] /\ want = [c \in Conn |-> m]
        /\ evicted = [x \in Conn \cup Hub |-> {}] /\ listed = {} /\ closing = {}
        /\ cut = [c \in Conn |-> "free"] /\ holder = [c \in Conn |-> NoHub]
        /\ score = [c \in Conn |-> 0] /\ registrations = 0 /\ told = {}
        /\ bus = [h \in Hub |-> "off"] /\ alive = [h \in Hub |-> "up"]
        /\ trims = [h \in Hub |-> {}] /\ events = 0
    BY <1>1, Zenon DEF Hubs!Init
  <2>2. HubsTypes
    BY <2>1, HubsConstants DEF HubsTypes, HubPhase
  <2>3. HubsMaps
    BY <2>1 DEF HubsMaps
  <2>4. {c \in Conn : score[c] # 0} = {}
    BY <2>1
  <2> QED BY <2>2, <2>3, <2>4, FS_EmptySet DEF HubsInv
<1> QED BY <1>1, Zenon

\* What the steps of a connection leave behind, but for its registration.
LEMMA ConnectionSteps ==
  ASSUME HubsInv, NEW c \in Conn
  PROVE  /\ Hubs!Accept(c) => HubsKept /\ HubsQuiet
         /\ Hubs!RegisterFails(c) \/ Hubs!RegisterAnswerLost(c) => HubsKept /\ HubsQuiet
         /\ Hubs!Spawn(c) \/ Hubs!Run(c) \/ Hubs!Send(c) \/ Hubs!Sent(c) => HubsKept /\ HubsQuiet
         /\ Hubs!PublishEvicted(c) => HubsKept /\ HubsQuiet
         /\ Hubs!Overflow(c) \/ Hubs!Dispatch(c) \/ Hubs!Renew(c) => HubsKept /\ HubsQuiet
         /\ Hubs!Leave(c) => HubsKept /\ HubsQuiet
         /\ Hubs!TaskEnd(c) => HubsKept /\ HubsQuiet
         /\ Hubs!Expire(c) \/ Hubs!Release(c) => HubsKept /\ HubsQuiet
<1> USE HubsConstants DEF HubsInv, HubsTypes, HubsMaps, HubsKept, HubsQuiet, HubPhase, HubsGrow,
        Hubs!To, Hubs!RequestClose, Hubs!Event, Hubs!redis, Hubs!local, Hubs!hubs,
        Hubs!Subscribed, Hubs!Ready, Hubs!Mapped, Hubs!Begun, Hubs!Ended
<1>1. ASSUME Hubs!Accept(c) PROVE HubsKept /\ HubsQuiet
  BY <1>1 DEF Hubs!Accept
<1>2. ASSUME Hubs!RegisterFails(c) PROVE HubsKept /\ HubsQuiet
  BY <1>2 DEF Hubs!RegisterFails
<1>3. ASSUME Hubs!RegisterAnswerLost(c) PROVE HubsKept /\ HubsQuiet
  BY <1>3 DEF Hubs!RegisterAnswerLost
<1>4. ASSUME Hubs!Spawn(c) PROVE HubsKept /\ HubsQuiet
  BY <1>4 DEF Hubs!Spawn
<1>5. ASSUME Hubs!Run(c) PROVE HubsKept /\ HubsQuiet
  BY <1>5 DEF Hubs!Run
<1>16. ASSUME Hubs!Send(c) PROVE HubsKept /\ HubsQuiet
  BY <1>16 DEF Hubs!Send
<1>17. ASSUME Hubs!Sent(c) PROVE HubsKept /\ HubsQuiet
  BY <1>17 DEF Hubs!Sent
<1>6. ASSUME Hubs!PublishEvicted(c) PROVE HubsKept /\ HubsQuiet
  BY <1>6 DEF Hubs!PublishEvicted, Hubs!Publish
<1>7. ASSUME Hubs!Overflow(c) PROVE HubsKept /\ HubsQuiet
  BY <1>7 DEF Hubs!Overflow
<1>8. ASSUME Hubs!Dispatch(c) PROVE HubsKept /\ HubsQuiet
  BY <1>8 DEF Hubs!Dispatch
<1>9. ASSUME Hubs!Renew(c) PROVE HubsKept /\ HubsQuiet
  BY <1>9 DEF Hubs!Renew
<1>10. ASSUME Hubs!Leave(c) PROVE HubsKept /\ HubsQuiet
  BY <1>10 DEF Hubs!Leave
<1>11. ASSUME Hubs!Unlist(c) PROVE HubsKept /\ HubsQuiet
  BY <1>11 DEF Hubs!Unlist, Hubs!Beside
<1>12. ASSUME Hubs!DropUser(c) PROVE HubsKept /\ HubsQuiet
  BY <1>12 DEF Hubs!DropUser, Hubs!Beside
<1>13. ASSUME Hubs!Unregister(c) PROVE HubsKept /\ HubsQuiet
  <2>1. /\ phase[c] = "unlisted" /\ phase' = [phase EXCEPT ![c] = "gone"]
        /\ UNCHANGED <<want, evicted, listed, closing, told, bus, alive, limit, trims, cut, events>>
        /\ \/ /\ holder' = [holder EXCEPT ![c] = IF @ = Home[c] THEN NoHub ELSE @]
              /\ score' = [score EXCEPT ![c] = 0] /\ registrations' = registrations
           \/ holder' = holder /\ score' = score /\ registrations' = registrations
    BY <1>13, Zenon DEF Hubs!Unregister, Hubs!UnregisterScript
  <2>2. PICK x : x = holder'[c]
    OBVIOUS
  <2>4. PICK n : n = score'[c]
    OBVIOUS
  <2>3. holder' = [holder EXCEPT ![c] = x] /\ x \in {holder[c], NoHub}
    BY <2>1, <2>2
  <2>5. score' = [score EXCEPT ![c] = n] /\ n \in {0, score[c]} /\ (x # NoHub => n = score[c])
    BY <2>1, <2>2, <2>4
  <2>6. phase[c] = "unlisted" /\ phase' = [phase EXCEPT ![c] = "gone"]
    BY <2>1
  <2>7. HubsMaps'
    BY <2>1, <2>3, <2>5, <2>6
  <2>8. HubsTypes'
    BY <2>1, <2>3, <2>5, <2>6
  <2>9. HubsGrow
    BY <2>5
  <2>10. HubsQuiet
    BY <2>1
  <2> QED BY <2>7, <2>8, <2>9, <2>10, Zenon
<1>14. ASSUME Hubs!Expire(c) PROVE HubsKept /\ HubsQuiet
  BY <1>14 DEF Hubs!Expire
<1>15. ASSUME Hubs!Release(c) PROVE HubsKept /\ HubsQuiet
  BY <1>15 DEF Hubs!Release, Hubs!UnregisterScript
<1> QED
  BY <1>1, <1>2, <1>3, <1>4, <1>5, <1>6, <1>7, <1>8, <1>9, <1>10, <1>11, <1>12, <1>13, <1>14,
     <1>15, <1>16, <1>17, Zenon DEF Hubs!TaskEnd

\* What the steps of a hub leave behind, but for its trimming.
LEMMA HubSteps ==
  ASSUME HubsInv, NEW h \in Hub
  PROVE  /\ Hubs!Subscribe(h) \/ Hubs!Disconnect(h) => HubsKept /\ HubsQuiet
         /\ Hubs!MarkUnavailable(h) => HubsKept /\ HubsQuiet
         /\ Hubs!Sweep(h) \/ Hubs!PublishTrimmed(h) => HubsKept /\ HubsQuiet
         /\ Hubs!Stop(h) \/ Hubs!Exit(h) => HubsKept /\ HubsQuiet
         /\ \A m \in Limits : Hubs!ApplyLimit(h, m) => HubsKept /\ HubsQuiet
<1> USE HubsConstants DEF HubsInv, HubsTypes, HubsMaps, HubsKept, HubsQuiet, HubPhase, HubsGrow,
        Hubs!To, Hubs!RequestClose, Hubs!Event, Hubs!redis, Hubs!local, Hubs!hubs,
        Hubs!Subscribed, Hubs!Mapped, Hubs!Begun, Hubs!Ended
<1>1. ASSUME Hubs!Subscribe(h) PROVE HubsKept /\ HubsQuiet
  BY <1>1 DEF Hubs!Subscribe
<1>2. ASSUME Hubs!Disconnect(h) PROVE HubsKept /\ HubsQuiet
  BY <1>2 DEF Hubs!Disconnect
<1>3. ASSUME Hubs!MarkUnavailable(h) PROVE HubsKept /\ HubsQuiet
  BY <1>3 DEF Hubs!MarkUnavailable
<1>4. ASSUME Hubs!Sweep(h) PROVE HubsKept /\ HubsQuiet
  BY <1>4 DEF Hubs!Sweep
<1>5. ASSUME Hubs!PublishTrimmed(h) PROVE HubsKept /\ HubsQuiet
  BY <1>5 DEF Hubs!PublishTrimmed, Hubs!Publish
<1>6. ASSUME Hubs!Stop(h) PROVE HubsKept /\ HubsQuiet
  BY <1>6 DEF Hubs!Stop
<1>7. ASSUME Hubs!Exit(h) PROVE HubsKept /\ HubsQuiet
  BY <1>7 DEF Hubs!Exit
<1>8. ASSUME NEW m \in Limits, Hubs!ApplyLimit(h, m) PROVE HubsKept /\ HubsQuiet
  BY <1>8 DEF Hubs!ApplyLimit
<1> QED BY <1>1, <1>2, <1>3, <1>4, <1>5, <1>6, <1>7, <1>8, Zenon

HubsLeased(u) == {c \in Conn : UserOf[c] = u /\ holder[c] # NoHub}

\* Whoever has a lease has a place in the sorted set, so the scripts count the leases.
LEMMA LivingIs ==
  ASSUME HubsInv, NEW u \in User
  PROVE  /\ Hubs!Living(u) = HubsLeased(u) /\ Hubs!Leased(u) = HubsLeased(u)
         /\ IsFiniteSet(HubsLeased(u)) /\ HubsLeased(u) \subseteq Conn
<1>1. Hubs!Living(u) = HubsLeased(u)
  BY DEF Hubs!Living, HubsLeased, HubsInv, HubsMaps
<1>2. Hubs!Leased(u) = HubsLeased(u)
  BY Zenon DEF Hubs!Leased, HubsLeased
<1>3. HubsLeased(u) \subseteq {c \in Conn : score[c] # 0}
  BY DEF HubsLeased, HubsInv, HubsMaps
<1>4. IsFiniteSet(HubsLeased(u))
  BY <1>3, FS_Subset DEF HubsInv
<1> QED BY <1>1, <1>2, <1>4, Zenon DEF HubsLeased

HubsExcess(n, m) == IF n > m THEN n - m ELSE 0
HubsLeast(n, m)  == IF n < m THEN n ELSE m

\* Taking what is too many away leaves as many as there may be.
LEMMA Evicting ==
  ASSUME NEW cs, IsFiniteSet(cs), NEW m \in Nat, NEW out \in SUBSET cs,
         Cardinality(out) = HubsExcess(Cardinality(cs), m)
  PROVE  Cardinality(cs \ out) = HubsLeast(m, Cardinality(cs))
<1>1. Cardinality(cs) \in Nat
  BY FS_CardinalityType
<1>2. cs \cap out = out
  OBVIOUS
<1>3. Cardinality(cs \ out) = Cardinality(cs) - Cardinality(out)
  BY <1>2, FS_Difference
<1> QED BY <1>1, <1>3 DEF HubsExcess, HubsLeast

\* The module of the hubs counts as this one does.
LEMMA HubsCount == \A S : Hubs!Cardinality(S) = Cardinality(S)
  BY DEF Hubs!Cardinality, Cardinality

LEMMA OldestAre ==
  \A cs, at, m, out :
    out \in Hubs!Oldest(cs, at, m)
      => /\ out \in SUBSET cs /\ Cardinality(out) = HubsExcess(Cardinality(cs), m)
         /\ \A d \in out, e \in cs \ out : at[d] < at[e]
<1>1. ASSUME NEW cs, NEW at, NEW m, NEW out, out \in Hubs!Oldest(cs, at, m)
      PROVE  /\ out \in SUBSET cs /\ Cardinality(out) = HubsExcess(Cardinality(cs), m)
             /\ \A d \in out, e \in cs \ out : at[d] < at[e]
  <2>1. /\ out \in SUBSET cs /\ Hubs!Cardinality(out) = Hubs!Excess(cs, m)
        /\ \A d \in out, e \in cs \ out : at[d] < at[e]
    BY <1>1, Zenon DEF Hubs!Oldest
  <2>2. Hubs!Excess(cs, m) = HubsExcess(Cardinality(cs), m)
    BY HubsCount, Zenon DEF Hubs!Excess, HubsExcess
  <2> QED BY <2>1, <2>2, HubsCount, Zenon
<1> QED BY <1>1, Zenon

\* REGISTER_CONNECTION_SCRIPT leaves the new connection, and as many as the limit allows: the
\* new one has the highest score, and a limit is not 0.
HubsRegistered(c) ==
  /\ holder'[c] = Home[c]
  /\ Cardinality(HubsLeased(UserOf[c])')
       = HubsLeast(want[c], Cardinality(HubsLeased(UserOf[c])) + 1)
  /\ HubsGrow
  /\ holder' \in [Conn -> Hub \cup {NoHub}] /\ registrations' \in Nat
  /\ score' \in [Conn -> 0 .. registrations'] /\ evicted' \in [Conn \cup Hub -> SUBSET Conn]
  /\ \A d \in Conn : holder'[d] # NoHub => score'[d] # 0
  /\ \A d \in Conn \ {c} : holder'[d] \in {NoHub, holder[d]}

\* The script takes the oldest away of those with a lease and the new one.
HubsRegisters(c, out) ==
  LET u  == UserOf[c]
      cs == HubsLeased(u) \cup {c}
      at == [score EXCEPT ![c] = registrations + 1]
  IN  /\ out \in SUBSET cs /\ Cardinality(out) = HubsExcess(Cardinality(cs), want[c])
      /\ \A d \in out, e \in cs \ out : at[d] < at[e]
      /\ holder' = [d \in Conn |-> IF d \in out THEN NoHub
                                   ELSE IF d = c THEN Home[c] ELSE holder[d]]
      /\ score' = [d \in Conn |-> IF UserOf[d] = u /\ d \notin cs \ out THEN 0 ELSE at[d]]
      /\ registrations' = registrations + 1 /\ evicted' = [evicted EXCEPT ![c] = out]

LEMMA RegisterIs ==
  ASSUME HubsInv, NEW c \in Conn
  PROVE  Hubs!RegisterScript(c) => \E out : HubsRegisters(c, out)
<1>1. ASSUME Hubs!RegisterScript(c) PROVE \E out : HubsRegisters(c, out)
  <2>1. UserOf[c] \in User
    BY HubsConstants
  <2>2. Hubs!Living(UserOf[c]) = HubsLeased(UserOf[c])
    BY <2>1, LivingIs, Zenon
  <2> DEFINE cs == HubsLeased(UserOf[c]) \cup {c}
             at == [score EXCEPT ![c] = registrations + 1]
  <2>3. PICK out \in Hubs!Oldest(cs, at, want[c]) :
          /\ holder' = [d \in Conn |-> IF d \in out THEN NoHub
                                       ELSE IF d = c THEN Home[c] ELSE holder[d]]
          /\ Hubs!Keep(UserOf[c], cs \ out, at) /\ registrations' = registrations + 1
          /\ evicted' = [evicted EXCEPT ![c] = out]
    BY <1>1, <2>2, Zenon DEF Hubs!RegisterScript
  <2> HIDE DEF cs, at
  <2>4. /\ out \in SUBSET cs /\ Cardinality(out) = HubsExcess(Cardinality(cs), want[c])
        /\ \A d \in out, e \in cs \ out : at[d] < at[e]
    <3>1. PICK m : m = want[c]
      BY Zenon
    <3>2. out \in Hubs!Oldest(cs, at, m)
      BY <2>3, <3>1, Zenon
    <3>3. /\ out \in SUBSET cs /\ Cardinality(out) = HubsExcess(Cardinality(cs), m)
          /\ \A d \in out, e \in cs \ out : at[d] < at[e]
      BY <3>2, OldestAre, Zenon
    <3> QED BY <3>1, <3>3
  <2>5. score' = [d \in Conn |-> IF UserOf[d] = UserOf[c] /\ d \notin cs \ out THEN 0 ELSE at[d]]
    BY <2>3, Zenon DEF Hubs!Keep
  <2>6. HubsRegisters(c, out)
    BY <2>3, <2>4, <2>5, Zenon DEF HubsRegisters, cs, at
  <2> QED BY <2>6, Zenon
<1> QED BY <1>1, Zenon

LEMMA Registering ==
  ASSUME HubsInv, NEW c \in Conn, phase[c] = "accepted", NEW out, HubsRegisters(c, out)
  PROVE  HubsRegistered(c)
<1> DEFINE u == UserOf[c]
           leased == HubsLeased(u)
           cs == leased \cup {c}
           at == [score EXCEPT ![c] = registrations + 1]
<1>1. /\ u \in User /\ Home[c] \in Hub /\ want[c] \in Nat \ {0} /\ NoHub \notin Hub
      /\ Home[c] # NoHub
  <2>1. u \in User /\ Home[c] \in Hub /\ NoHub \notin Hub
    BY HubsConstants
  <2>2. want[c] \in Limits
    BY DEF HubsInv, HubsTypes
  <2> QED BY <2>1, <2>2, HubsConstants
<1>2. IsFiniteSet(leased) /\ leased \subseteq Conn
  BY <1>1, LivingIs, Zenon
<1>3. holder[c] = NoHub /\ c \notin leased
  BY DEF HubsInv, HubsMaps, HubsLeased
<1>4. /\ out \in SUBSET cs /\ Cardinality(out) = HubsExcess(Cardinality(cs), want[c])
      /\ \A d \in out, e \in cs \ out : at[d] < at[e]
      /\ holder' = [d \in Conn |-> IF d \in out THEN NoHub
                                   ELSE IF d = c THEN Home[c] ELSE holder[d]]
      /\ score' = [d \in Conn |-> IF UserOf[d] = u /\ d \notin cs \ out THEN 0 ELSE at[d]]
      /\ registrations' = registrations + 1 /\ evicted' = [evicted EXCEPT ![c] = out]
  BY Zenon DEF HubsRegisters
<1> HIDE DEF u, leased, cs, at
<1>5. /\ IsFiniteSet(cs) /\ Cardinality(cs) = Cardinality(leased) + 1
      /\ Cardinality(leased) \in Nat /\ Cardinality(cs) \in Nat
  BY <1>2, <1>3, FS_AddElement, FS_CardinalityType DEF cs
<1>6. /\ at \in [Conn -> 0..registrations + 1] /\ at[c] = registrations + 1
      /\ \A d \in Conn \ {c} : at[d] = score[d] /\ at[d] <= registrations
  BY DEF at, HubsInv, HubsTypes
<1>7. c \notin out
  <2> SUFFICES ASSUME c \in out PROVE FALSE
    OBVIOUS
  <2>1. IsFiniteSet(out)
    BY <1>4, <1>5, FS_Subset
  <2>2. CASE Cardinality(cs) <= want[c]
    <3>1. Cardinality(out) = 0
      BY <1>1, <1>4, <1>5, <2>2 DEF HubsExcess
    <3> QED BY <2>1, <3>1, FS_EmptySet
  <2>3. CASE Cardinality(cs) > want[c]
    <3>1. Cardinality(out) # Cardinality(cs)
      BY <1>1, <1>4, <1>5, <2>3 DEF HubsExcess
    <3>2. PICK e \in cs : e \notin out
      BY <1>4, <3>1
    <3>3. e \in Conn \ {c} /\ at[c] < at[e]
      BY <1>2, <1>4, <3>2 DEF cs
    <3> QED BY <1>6, <3>3 DEF HubsInv, HubsTypes
  <2> QED BY <1>1, <1>5, <2>2, <2>3
<1>8. holder'[c] = Home[c]
  BY <1>4, <1>7
<1>9. HubsLeased(u)' = cs \ out
  <2>1. UserOf[c] = u /\ u' = u
    BY DEF u
  <2>2. ASSUME NEW d \in Conn
        PROVE  (UserOf[d] = u /\ holder'[d] # NoHub) <=> d \in cs \ out
    BY <1>1, <1>3, <1>4, <1>7, <2>1 DEF cs, leased, HubsLeased
  <2>3. cs \ out \subseteq Conn
    BY <1>2 DEF cs
  <2> QED BY <2>1, <2>2, <2>3 DEF HubsLeased
<1>10. Cardinality(HubsLeased(u)') = HubsLeast(want[c], Cardinality(leased) + 1)
  BY <1>1, <1>4, <1>5, <1>9, Evicting
<1>11. HubsGrow
  <2>1. \A d \in Conn \ {c} : score'[d] # 0 => score[d] # 0
    BY <1>4, <1>6
  <2> QED BY <2>1 DEF HubsGrow
<1>12. holder' \in [Conn -> Hub \cup {NoHub}]
  BY <1>1, <1>4 DEF HubsInv, HubsTypes
<1>13. registrations' \in Nat /\ score' \in [Conn -> 0 .. registrations']
  <2>1. registrations' \in Nat /\ registrations' = registrations + 1
    BY <1>4 DEF HubsInv, HubsTypes
  <2>2. \A d \in Conn : score'[d] = 0 \/ score'[d] = at[d]
    BY <1>4
  <2>3. \A d \in Conn : score'[d] \in 0..registrations'
    BY <1>6, <2>1, <2>2
  <2>4. score' = [d \in Conn |-> score'[d]]
    BY <1>4
  <2> QED BY <2>1, <2>3, <2>4
<1>14. evicted' \in [Conn \cup Hub -> SUBSET Conn]
  <2>1. out \in SUBSET Conn
    BY <1>2, <1>4 DEF cs
  <2> QED BY <1>4, <2>1 DEF HubsInv, HubsTypes
<1>15. \A d \in Conn : holder'[d] # NoHub => score'[d] # 0
  <2>1. \A d \in Conn : at[d] = IF d = c THEN registrations + 1 ELSE score[d]
    BY DEF at, HubsInv, HubsTypes
  <2>2. registrations + 1 # 0
    BY DEF HubsInv, HubsTypes
  <2>3. ASSUME NEW d \in Conn, holder'[d] # NoHub PROVE score'[d] # 0
    <3>1. d \notin out
      BY <1>4, <2>3
    <3>2. at[d] # 0
      BY <1>4, <2>1, <2>2, <2>3, <3>1 DEF HubsInv, HubsMaps
    <3>3. UserOf[d] = u => d \in cs
      BY <1>4, <2>3, <3>1 DEF cs, leased, HubsLeased
    <3> QED BY <1>4, <3>1, <3>2, <3>3
  <2> QED BY <2>3
<1>16. \A d \in Conn \ {c} : holder'[d] \in {NoHub, holder[d]}
  BY <1>4
<1> QED BY <1>8, <1>10, <1>11, <1>12, <1>13, <1>14, <1>15, <1>16 DEF u, leased, HubsRegistered

\* TRIM_CONNECTIONS_SCRIPT leaves as many as the limit allows.
HubsTrimmed(h, u) ==
  /\ Cardinality(HubsLeased(u)') = HubsLeast(limit[h], Cardinality(HubsLeased(u)))
  /\ HubsGrow \/ score' = score
  /\ holder' \in [Conn -> Hub \cup {NoHub}] /\ registrations' \in Nat
  /\ score' \in [Conn -> 0 .. registrations'] /\ evicted' \in [Conn \cup Hub -> SUBSET Conn]
  /\ \A d \in Conn : holder'[d] # NoHub => score'[d] # 0
  /\ \A d \in Conn : holder'[d] \in {NoHub, holder[d]}

HubsTrims(h, u, out) ==
  LET cs == HubsLeased(u) IN
  /\ out \in SUBSET cs /\ Cardinality(out) = HubsExcess(Cardinality(cs), limit[h])
  /\ holder' = [d \in Conn |-> IF d \in out THEN NoHub ELSE holder[d]]
  /\ score' = [d \in Conn |-> IF UserOf[d] = u /\ d \notin cs \ out THEN 0 ELSE score[d]]
  /\ registrations' = registrations /\ evicted' = [evicted EXCEPT ![h] = @ \cup out]

LEMMA TrimIs ==
  ASSUME HubsInv, NEW h \in Hub, NEW u \in User
  PROVE  Hubs!TrimScript(h, u) => \E out : HubsTrims(h, u, out)
<1>1. ASSUME Hubs!TrimScript(h, u) PROVE \E out : HubsTrims(h, u, out)
  <2> DEFINE cs == HubsLeased(u)
  <2>1. Hubs!Living(u) = cs
    BY LivingIs, Zenon
  <2>2. PICK out \in Hubs!Oldest(cs, score, limit[h]) :
          /\ holder' = [d \in Conn |-> IF d \in out THEN NoHub ELSE holder[d]]
          /\ Hubs!Keep(u, cs \ out, score) /\ registrations' = registrations
          /\ evicted' = [evicted EXCEPT ![h] = @ \cup out]
    BY <1>1, <2>1, Zenon DEF Hubs!TrimScript
  <2> HIDE DEF cs
  <2>3. out \in SUBSET cs /\ Cardinality(out) = HubsExcess(Cardinality(cs), limit[h])
    <3>1. PICK a, m : a = score /\ m = limit[h]
      BY Zenon
    <3>2. out \in Hubs!Oldest(cs, a, m)
      BY <2>2, <3>1, Zenon
    <3>3. out \in SUBSET cs /\ Cardinality(out) = HubsExcess(Cardinality(cs), m)
      BY <3>2, OldestAre, Zenon
    <3> QED BY <3>1, <3>3
  <2>4. score' = [d \in Conn |-> IF UserOf[d] = u /\ d \notin cs \ out THEN 0 ELSE score[d]]
    BY <2>2, Zenon DEF Hubs!Keep
  <2>5. HubsTrims(h, u, out)
    BY <2>2, <2>3, <2>4, Zenon DEF HubsTrims, cs
  <2> QED BY <2>5, Zenon
<1> QED BY <1>1, Zenon

LEMMA Trimming ==
  ASSUME HubsInv, NEW h \in Hub, NEW u \in User, NEW out, HubsTrims(h, u, out)
  PROVE  HubsTrimmed(h, u)
<1> DEFINE leased == HubsLeased(u)
<1>1. limit[h] \in Nat /\ NoHub \notin Hub
  BY HubsConstants DEF HubsInv, HubsTypes
<1>2. IsFiniteSet(leased) /\ leased \subseteq Conn
  BY LivingIs, Zenon
<1>3. /\ out \in SUBSET leased
      /\ Cardinality(out) = HubsExcess(Cardinality(leased), limit[h])
      /\ holder' = [d \in Conn |-> IF d \in out THEN NoHub ELSE holder[d]]
      /\ score' = [d \in Conn |-> IF UserOf[d] = u /\ d \notin leased \ out THEN 0 ELSE score[d]]
      /\ registrations' = registrations /\ evicted' = [evicted EXCEPT ![h] = @ \cup out]
  BY Zenon DEF HubsTrims
<1>4. HubsLeased(u)' = leased \ out
  <2>1. ASSUME NEW d \in Conn
        PROVE  (UserOf[d] = u /\ holder'[d] # NoHub) <=> d \in leased \ out
    BY <1>3 DEF HubsLeased
  <2> QED BY <1>2, <2>1 DEF HubsLeased
<1> HIDE DEF leased
<1>5. Cardinality(HubsLeased(u)') = HubsLeast(limit[h], Cardinality(leased))
  BY <1>1, <1>2, <1>3, <1>4, Evicting
<1>6. HubsGrow \/ score' = score
  <2>1. \A d \in Conn : score'[d] # 0 => score[d] # 0
    BY <1>3
  <2>2. CASE Conn = {}
    <3>1. score' = score
      BY <1>3, <2>2 DEF HubsInv, HubsTypes
    <3> QED BY <3>1
  <2>3. CASE Conn # {}
    BY <2>1, <2>3 DEF HubsGrow
  <2> QED BY <2>2, <2>3
<1>7. holder' \in [Conn -> Hub \cup {NoHub}]
  BY <1>3 DEF HubsInv, HubsTypes
<1>8. registrations' \in Nat /\ score' \in [Conn -> 0 .. registrations']
  BY <1>3 DEF HubsInv, HubsTypes
<1>9. evicted' \in [Conn \cup Hub -> SUBSET Conn]
  <2>1. out \in SUBSET Conn
    BY <1>2, <1>3
  <2> QED BY <1>3, <2>1 DEF HubsInv, HubsTypes
<1>10. \A d \in Conn : (holder'[d] # NoHub => score'[d] # 0) /\ holder'[d] \in {NoHub, holder[d]}
  BY <1>3 DEF HubsInv, HubsMaps, leased, HubsLeased
<1> QED BY <1>5, <1>6, <1>7, <1>8, <1>9, <1>10 DEF leased, HubsTrimmed

LEMMA HubsRegisterStep ==
  ASSUME HubsInv, NEW c \in Conn
  PROVE  Hubs!Register(c) =>
           /\ HubsKept /\ HubsRegistered(c) /\ trims' = trims
           /\ phase' = [phase EXCEPT ![c] = "registered"]
<1>1. ASSUME Hubs!Register(c)
      PROVE  /\ HubsKept /\ HubsRegistered(c) /\ trims' = trims
             /\ phase' = [phase EXCEPT ![c] = "registered"]
  <2>1. /\ phase[c] = "accepted" /\ phase' = [phase EXCEPT ![c] = "registered"]
        /\ Hubs!RegisterScript(c)
        /\ UNCHANGED <<want, listed, closing, told, bus, alive, limit, trims, cut, events>>
    BY <1>1, Zenon DEF Hubs!Register, Hubs!To, Hubs!local, Hubs!hubs
  <2>2. PICK out : HubsRegisters(c, out)
    BY <2>1, RegisterIs, Zenon
  <2>3. HubsRegistered(c)
    BY <2>1, <2>2, Registering, Zenon
  <2>4. /\ phase[c] = "accepted" /\ phase' = [phase EXCEPT ![c] = "registered"]
        /\ UNCHANGED <<want, listed, closing, told, bus, alive, limit, trims, cut, events>>
    BY <2>1, Zenon
  <2>5. HubsTypes'
    BY <2>3, <2>4 DEF HubsInv, HubsTypes, HubsRegistered, HubPhase
  <2>6. HubsMaps'
    BY <2>3, <2>4 DEF HubsInv, HubsTypes, HubsMaps, HubsRegistered
  <2>7. HubsGrow
    BY <2>3, Zenon DEF HubsRegistered
  <2> QED BY <2>3, <2>4, <2>5, <2>6, <2>7, Zenon DEF HubsKept
<1> QED BY <1>1, Zenon

\* Only the user it trims leaves the list of a hub.
LEMMA HubsTrimStep ==
  ASSUME HubsInv, NEW h \in Hub, NEW u \in User
  PROVE  Hubs!Trim(h, u) =>
           /\ HubsKept /\ phase' = phase /\ trims' = [trims EXCEPT ![h] = @ \ {u}]
           /\ holder' = holder \/ HubsTrimmed(h, u)
<1>1. ASSUME Hubs!Trim(h, u)
      PROVE  /\ HubsKept /\ phase' = phase /\ trims' = [trims EXCEPT ![h] = @ \ {u}]
             /\ holder' = holder \/ HubsTrimmed(h, u)
  <2>1. /\ trims' = [trims EXCEPT ![h] = @ \ {u}]
        /\ UNCHANGED <<phase, want, listed, closing, told, bus, alive, limit, cut, events>>
        /\ \/ Hubs!TrimScript(h, u)
           \/ UNCHANGED <<holder, score, registrations, evicted>>
    BY <1>1, Zenon DEF Hubs!Trim, Hubs!local, Hubs!redis
  <2>2. /\ trims' = [trims EXCEPT ![h] = @ \ {u}]
        /\ UNCHANGED <<phase, want, listed, closing, told, bus, alive, limit, cut, events>>
    BY <2>1, Zenon
  <2>3. CASE Hubs!TrimScript(h, u)
    <3>1. PICK out : HubsTrims(h, u, out)
      BY <2>3, TrimIs, Zenon
    <3>2. HubsTrimmed(h, u)
      BY <3>1, Trimming, Zenon
    <3>3. HubsTypes'
      BY <2>2, <3>2 DEF HubsInv, HubsTypes, HubsTrimmed
    <3>4. HubsMaps'
      BY <2>2, <3>2 DEF HubsInv, HubsTypes, HubsMaps, HubsTrimmed
    <3>5. score' = score \/ HubsGrow
      BY <3>2, Zenon DEF HubsTrimmed
    <3> QED BY <2>2, <3>2, <3>3, <3>4, <3>5, Zenon DEF HubsKept
  <2>4. CASE UNCHANGED <<holder, score, registrations, evicted>>
    <3>1. HubsTypes'
      BY <2>2, <2>4 DEF HubsInv, HubsTypes
    <3>2. HubsMaps'
      BY <2>2, <2>4 DEF HubsInv, HubsMaps
    <3> QED BY <2>2, <2>4, <3>1, <3>2, Zenon DEF HubsKept
  <2> QED BY <2>1, <2>3, <2>4, Zenon
<1> QED BY <1>1, Zenon

\* What a step is.
HubsMoves ==
  \/ HubsQuiet
  \/ \E c \in Conn : /\ HubsRegistered(c) /\ trims' = trims
                     /\ phase' = [phase EXCEPT ![c] = "registered"]
  \/ \E h \in Hub, u \in User :
       /\ phase' = phase /\ trims' = [trims EXCEPT ![h] = @ \ {u}]
       /\ holder' = holder \/ HubsTrimmed(h, u)

LEMMA HubsSteps ==
  ASSUME HubsInv
  PROVE  [Hubs!Next]_Hubs!vars => HubsInv' /\ HubsMoves
<1>1. ASSUME NEW c \in Conn, Hubs!ConnStep(c) PROVE HubsKept /\ HubsMoves
  <2>1. ASSUME Hubs!Register(c) PROVE HubsKept /\ HubsMoves
    BY <2>1, HubsRegisterStep, Zenon DEF HubsMoves
  <2>2. \/ Hubs!Register(c)
        \/ HubsKept /\ HubsQuiet
    BY <1>1, ConnectionSteps, Zenon DEF Hubs!ConnStep, Hubs!HandlerStep
  <2> QED BY <2>1, <2>2, Zenon DEF HubsMoves
<1>2. ASSUME NEW h \in Hub, Hubs!HubStep(h) PROVE HubsKept /\ HubsMoves
  <2>1. ASSUME NEW u \in User, Hubs!Trim(h, u) PROVE HubsKept /\ HubsMoves
    BY <2>1, HubsTrimStep, Zenon DEF HubsMoves
  <2>2. \/ \E u \in User : Hubs!Trim(h, u)
        \/ HubsKept /\ HubsQuiet
    BY <1>2, HubSteps, Zenon DEF Hubs!HubStep
  <2> QED BY <2>1, <2>2, Zenon DEF HubsMoves
<1>3. ASSUME UNCHANGED Hubs!vars PROVE HubsKept /\ HubsMoves
  <2>1. UNCHANGED <<phase, want, evicted, listed, closing, holder, score, registrations, told, bus,
                    alive, limit, trims, cut, events>>
    BY <1>3, Zenon DEF Hubs!vars, Hubs!redis
  <2>2. HubsTypes'
    BY <2>1 DEF HubsInv, HubsTypes
  <2>3. HubsMaps'
    BY <2>1 DEF HubsInv, HubsMaps
  <2>4. HubsQuiet
    BY <2>1 DEF HubsQuiet
  <2> QED BY <2>1, <2>2, <2>3, <2>4, Zenon DEF HubsKept, HubsMoves
<1>4. ASSUME HubsKept /\ HubsMoves PROVE HubsInv' /\ HubsMoves
  BY <1>4, HubsFinite, Zenon
<1> QED BY <1>1, <1>2, <1>3, <1>4, Zenon DEF Hubs!Next

\* Every variable of the hubs keeps its type, and what the phases say of the shared maps and of
\* Redis holds: no handle of a connection that has not come that far or has left, and no lease
\* without a place in its user's sorted set, which the scripts count.
THEOREM HubsTypeCorrect == Hubs!Spec => []HubsTyped
<1>1. HubsInv => HubsTyped
  BY Zenon DEF HubsInv, HubsTypes, HubsMaps, HubPhase, HubsTyped, Hubs!TypeOK, Hubs!Phase, Hubs!Begun
<1>2. HubsInv /\ [Hubs!Next]_Hubs!vars => HubsInv'
  BY HubsSteps, Zenon
<1> QED BY <1>1, <1>2, HubsInitial, PTL DEF Hubs!Spec

\* What LimitExact says of a step.
HubsLimit ==
  /\ \A c \in Conn : phase[c] = "accepted" /\ phase'[c] = "registered"
       => /\ holder'[c] = Home[c]
          /\ Hubs!Cardinality(Hubs!Leased(UserOf[c])')
               = Hubs!Least(want[c], Hubs!Cardinality(Hubs!Leased(UserOf[c])) + 1)
  /\ \A h \in Hub, u \in User :
       u \in trims[h] /\ u \notin trims'[h] /\ holder' # holder
         => Hubs!Cardinality(Hubs!Leased(u)') = Hubs!Least(limit[h], Hubs!Cardinality(Hubs!Leased(u)))

\* The same in the terms of this module.
HubsExact ==
  /\ \A c \in Conn : phase[c] = "accepted" /\ phase'[c] = "registered"
       => /\ holder'[c] = Home[c]
          /\ Cardinality(HubsLeased(UserOf[c])')
               = HubsLeast(want[c], Cardinality(HubsLeased(UserOf[c])) + 1)
  /\ \A h \in Hub, u \in User :
       u \in trims[h] /\ u \notin trims'[h] /\ holder' # holder
         => Cardinality(HubsLeased(u)') = HubsLeast(limit[h], Cardinality(HubsLeased(u)))

\* The limit of connections is exact across the hubs: each registration and each trim leaves its
\* user with as many leases as the limit allows, however many entries of dead connections there are.
THEOREM LimitIsExact == Hubs!Spec => LimitExact
<1>1. HubsInv /\ HubsMoves => HubsExact
  <2> SUFFICES ASSUME HubsInv, HubsMoves PROVE HubsExact
    OBVIOUS
  <2>1. CASE HubsQuiet
    BY <2>1 DEF HubsQuiet, HubsExact
  <2>2. ASSUME NEW c \in Conn, HubsRegistered(c), trims' = trims,
               phase' = [phase EXCEPT ![c] = "registered"]
        PROVE  HubsExact
    <3>1. \A d \in Conn : phase[d] = "accepted" /\ phase'[d] = "registered" => d = c
      BY <2>2 DEF HubsInv, HubsTypes
    <3> QED BY <2>2, <3>1, Zenon DEF HubsRegistered, HubsExact
  <2>3. ASSUME NEW h \in Hub, NEW u \in User, phase' = phase,
               trims' = [trims EXCEPT ![h] = @ \ {u}],
               holder' = holder \/ HubsTrimmed(h, u)
        PROVE  HubsExact
    <3>1. \A k \in Hub, v \in User : v \in trims[k] /\ v \notin trims'[k] => k = h /\ v = u
      BY <2>3 DEF HubsInv, HubsTypes
    <3>2. \A d \in Conn : phase[d] = "accepted" => phase'[d] # "registered"
      BY <2>3
    <3> QED BY <2>3, <3>1, <3>2, Zenon DEF HubsTrimmed, HubsExact
  <2> QED BY <2>1, <2>2, <2>3, Zenon DEF HubsMoves
<1>2. HubsExact /\ HubsInv => HubsLimit
  BY HubsCount, Zenon
  DEF HubsExact, HubsLimit, HubsLeased, HubsLeast, Hubs!Leased, Hubs!Least
<1>3. HubsInv /\ [Hubs!Next]_Hubs!vars => HubsInv' /\ HubsLimit
  BY <1>1, <1>2, HubsSteps, Zenon
<1>5. Hubs!Spec => [][HubsLimit]_Hubs!vars
  BY <1>3, HubsInitial, PTL DEF Hubs!Spec
<1> QED BY <1>5, PTL DEF LimitExact, Hubs!LimitExact, HubsLimit

\* The limit is exact, and what the hubs list are connections that are theirs.
THEOREM HubsAreSound == Hubs!Spec => HubsSound
  BY HubsTypeCorrect, LimitIsExact, PTL DEF HubsSound

-----------------------------------------------------------------------------
(* The functions of puzzle backends: PuzzleBackend, for any executions, judges, entries, menus *)
(* and bounds.                                                                                 *)

BkStage == {"idle", "lookup", "run", "waiting", "reread", "log", "commit", "rollback", "tell",
            "done", "failed"}
BkExpiries == {"permanent", "ttl", "preserve", "none"}
BkMutation == {"set", "increment", "setIfAbsent", "compareAndSet", "delete"}
BkCalls == [op: {"set", "increment", "setIfAbsent", "compareAndSet", "delete", "get", "insert",
                 "emit"}, key: Key, expiry: BkExpiries]
BkMarks == Execution \X Nat
BkNoRow == [by |-> Nothing, born |-> Nothing, version |-> 0, value |-> 0, expires |-> 0]
BkRow   == [by: BkMarks, born: BkMarks, version: Nat \ {0}, value: Int \cup {Text}, expires: Nat]
BkRows  == BkRow \cup {BkNoRow}
BkNoCall == [op |-> Nothing]
BkWork  == [call: BkCalls \cup {BkNoCall}, at: Nat, target: BkMarks \cup {Nothing},
            key: Key \cup {Nothing}, seen: BkRows, calls: Nat, event: BOOLEAN, ok: BOOLEAN,
            aborted: BOOLEAN]

BkTypes ==
  /\ now \in 1..MaxNow /\ stage \in [Execution -> BkStage]
  /\ held \in [Key -> Judge \cup {Nothing}]
  /\ heard \subseteq Execution /\ docs \subseteq Execution
  /\ rows \in [Key -> BkRows] /\ committed \in [Key -> BkRows]
  /\ work \in [Execution -> BkWork]

\* While it runs it makes calls; before that it has made none.
BkLive   == {"run", "waiting", "reread"}
BkActive == {"idle", "lookup", "run", "waiting", "reread"}
BkOpen   == {"run", "waiting", "reread", "log", "commit", "rollback"}

BkStands(d)  == stage[d] \in {"tell", "done"}
BkSettled(d) == d \in Judge => BkStands(d)

\* The number of the next call that may write, or of the one that waits.
BkNext(d) == IF stage[d] = "waiting" THEN work[d].calls ELSE work[d].calls + 1

BkRowOf(e, k) == IF held[k] = e THEN rows[k] ELSE committed[k]

\* Locks are of judges that are at work, and keep what is not committed from everybody else.
BkLocks ==
  /\ \A k \in Key : held[k] = Nothing => rows[k] = committed[k]
  /\ \A k \in Key : held[k] # Nothing => stage[held[k]] \in BkOpen
  /\ \A e \in heard : stage[e] = "done"
  /\ \A e \in docs : e \in Judge => stage[e] \notin {"idle", "failed"}

BkWritten ==
  /\ \A k \in Key : committed[k] # BkNoRow
       => BkSettled(committed[k].by[1]) /\ BkSettled(committed[k].born[1])
  /\ \A k \in Key : rows[k] # BkNoRow
       => /\ BkSettled(rows[k].by[1]) \/ held[k] = rows[k].by[1]
          /\ BkSettled(rows[k].born[1]) \/ held[k] = rows[k].born[1]

\* What a call that is under way is about.
BkUnderWay ==
  \A e \in Execution :
    /\ stage[e] \in {"idle", "lookup"} => work[e].seen = BkNoRow
    /\ stage[e] \in {"waiting", "reread"}
         => work[e].call \in BkCalls /\ work[e].call.op \in BkMutation
    /\ stage[e] = "waiting" /\ work[e].call.op = "compareAndSet"
         => work[e].key = work[e].call.key /\ work[e].seen # BkNoRow

BkAtomic == BkTypes /\ BkLocks /\ BkWritten /\ BkUnderWay

\* No version is younger than the call that comes next.
BkFresh(r) ==
  r # BkNoRow /\ stage[r.born[1]] \in BkActive => r.born[2] < BkNext(r.born[1])

\* Of two versions of one entry the second is the first or has a higher number.
BkOlder(r, s) ==
  r # BkNoRow /\ s # BkNoRow /\ r.born = s.born
    => r.version <= s.version /\ (r.version = s.version => r.by = s.by)

BkNumbered ==
  \A k \in Key : BkFresh(rows[k]) /\ BkFresh(committed[k]) /\ BkOlder(committed[k], rows[k])

\* What a transaction has inserted is its own; else it has the row that was committed.
BkInserted ==
  \A k \in Key : held[k] # Nothing /\ rows[k] # BkNoRow
    => \/ rows[k].born[1] = held[k]
       \/ committed[k] # BkNoRow /\ rows[k].born = committed[k].born

\* What an execution has seen is no younger than what it would see now.
BkKnows(e) ==
  stage[e] \in BkLive
    => /\ BkFresh(work[e].seen)
       /\ work[e].seen # BkNoRow
            => work[e].seen.born[1] = e \/ BkSettled(work[e].seen.born[1])
       /\ \A k \in Key : work[e].key = k => BkOlder(work[e].seen, BkRowOf(e, k))

BkVersions == BkNumbered /\ BkInserted /\ \A e \in Execution : BkKnows(e)

BkInv == BkAtomic /\ BkVersions

LEMMA BkConstants ==
  /\ Judge \subseteq Execution /\ Nothing \notin Execution /\ Nothing \notin Judge
  /\ Nothing \notin Execution \X Nat /\ Menu \in [Execution -> SUBSET BkCalls]
  /\ Nothing \notin BkMutation
  /\ Pool \in Nat /\ Ttl \in Nat /\ MaxNow \in Nat \ {0} /\ MaxCalls \in Nat
<1>1. /\ Judge \subseteq Execution /\ Nothing \notin Execution
      /\ Nothing \notin Execution \X Nat /\ Menu \in [Execution -> SUBSET BkCalls]
      /\ Nothing \notin BkMutation
      /\ Pool \in Nat /\ Ttl \in Nat /\ MaxNow \in Nat \ {0} /\ MaxCalls \in Nat
  BY PartsAssumption, Zenon
  DEF Backend!ConstantAssumption, Backend!Calls, Backend!Expiries, BkCalls, BkExpiries, BkMutation
<1> QED BY <1>1

-----------------------------------------------------------------------------
(* The kinds of steps. *)

BkGo(e, w, s) == /\ w \in BkWork /\ work' = [work EXCEPT ![e] = w]
                 /\ stage' = [stage EXCEPT ![e] = s]

\* A host call fails, or waits.
BkErrs(e) == \E w \in BkWork :
  /\ stage[e] \in {"run", "waiting"} /\ BkGo(e, w, "run")
  /\ w.calls = BkNext(e) /\ w.key = work[e].key /\ w.seen = work[e].seen
  /\ UNCHANGED <<now, rows, committed, held, docs, heard>>

BkWaits(e) == \E w \in BkWork :
  /\ stage[e] = "run" /\ BkGo(e, w, "waiting")
  /\ w.calls = BkNext(e) /\ w.key = work[e].key /\ w.seen = work[e].seen
  /\ w.call \in BkCalls /\ w.call.op \in BkMutation
  /\ w.call.op = "compareAndSet" => w.key = w.call.key /\ w.seen # BkNoRow
  /\ UNCHANGED <<now, rows, committed, held, docs, heard>>

\* It reads an entry; with calls it makes none of those that write.
BkReads(e) == \E w \in BkWork, k \in Key :
  /\ stage[e] \in {"run", "reread"} /\ BkGo(e, w, "run")
  /\ w.calls \in {work[e].calls, work[e].calls + 1} /\ w.key = k
  /\ w.seen \in {BkNoRow, BkRowOf(e, k)}
  /\ UNCHANGED <<now, rows, committed, held, docs, heard>>

BkNewer(e, r, x) ==
  \/ x = BkNoRow
  \/ /\ x \in BkRow /\ x.by = <<e, BkNext(e)>>
     /\ IF r = BkNoRow THEN x.born = <<e, BkNext(e)>>
                       ELSE x.born = r.born /\ x.version = r.version + 1

BkStores(e, k, x) ==
  /\ rows' = [rows EXCEPT ![k] = x]
  /\ IF e \in Judge THEN held' = [held EXCEPT ![k] = e] /\ committed' = committed
                    ELSE committed' = [committed EXCEPT ![k] = x] /\ held' = held

\* It writes the row that it sees, which nobody else has locked.
BkWrites(e) == \E w \in BkWork, k \in Key, x \in BkRows :
  /\ stage[e] \in {"run", "waiting"} /\ BkGo(e, w, "run")
  /\ held[k] \in {Nothing, e} /\ BkNewer(e, rows[k], x) /\ BkStores(e, k, x)
  /\ w.calls = BkNext(e) /\ w.key = k /\ w.seen = x
  /\ UNCHANGED <<now, docs, heard>>

\* It changes nothing, but may have locked the row.
BkTouches(e) == \E w \in BkWork, k \in Key :
  /\ stage[e] \in {"run", "waiting"}
  /\ \/ held' = held
     \/ e \in Judge /\ held[k] \in {Nothing, e} /\ held' = [held EXCEPT ![k] = e]
  /\ w.calls = BkNext(e)
  /\ \/ BkGo(e, w, "run") /\ w.seen = BkNoRow
     \/ /\ BkGo(e, w, "reread") /\ w.key = work[e].key /\ w.seen = work[e].seen
        /\ w.call \in BkCalls /\ w.call.op \in BkMutation
  /\ UNCHANGED <<now, rows, committed, docs, heard>>

\* It counts a call that no entry is about.
BkCounts(e) == \E w \in BkWork :
  /\ stage[e] = "run" /\ BkGo(e, w, "run")
  /\ w.calls = work[e].calls + 1 /\ w.key = work[e].key /\ w.seen = work[e].seen
  /\ docs' = docs \/ docs' = docs \cup {e}
  /\ UNCHANGED <<now, rows, committed, held, heard>>

BkReturns(e) == \E w \in BkWork :
  /\ stage[e] = "run" /\ BkGo(e, w, "log") /\ w.seen = BkNoRow
  /\ UNCHANGED <<now, rows, committed, held, docs, heard>>

\* It goes on without having done anything.
BkMoves(e) == \E s \in BkStage :
  /\ stage' = [stage EXCEPT ![e] = s]
  /\ \/ stage[e] = "idle" /\ s \in {"lookup", "run", "failed"}
     \/ stage[e] = "lookup" /\ s \in {"run", "rollback"}
     \/ stage[e] = "log" /\ e \in Judge /\ s \in {"commit", "rollback"}
     \/ stage[e] = "log" /\ e \notin Judge /\ s \in {"tell", "failed"}
  /\ UNCHANGED <<now, rows, committed, held, docs, work, heard>>

BkCommits(e) ==
  /\ stage[e] = "commit" /\ stage' = [stage EXCEPT ![e] = "tell"]
  /\ committed' = [k \in Key |-> IF held[k] = e THEN rows[k] ELSE committed[k]]
  /\ held' = [k \in Key |-> IF held[k] = e THEN Nothing ELSE held[k]]
  /\ UNCHANGED <<now, rows, docs, work, heard>>

BkRollsBack(e) ==
  /\ stage[e] \in {"commit", "rollback"} /\ stage' = [stage EXCEPT ![e] = "failed"]
  /\ rows' = [k \in Key |-> IF held[k] = e THEN committed[k] ELSE rows[k]]
  /\ held' = [k \in Key |-> IF held[k] = e THEN Nothing ELSE held[k]]
  /\ docs' = docs \ {e}
  /\ UNCHANGED <<now, committed, work, heard>>

BkTells(e) ==
  /\ stage[e] = "tell" /\ stage' = [stage EXCEPT ![e] = "done"]
  /\ heard' = heard \/ heard' = heard \cup {e}
  /\ UNCHANGED <<now, rows, committed, held, docs, work>>

BkClears ==
  /\ \A k \in Key : held[k] = Nothing \/ committed[k] = BkNoRow
  /\ rows' = [k \in Key |-> IF held[k] = Nothing THEN BkNoRow ELSE rows[k]]
  /\ committed' = [k \in Key |-> BkNoRow]
  /\ UNCHANGED <<now, held, docs, stage, work, heard>>

BkTicks ==
  /\ now < MaxNow /\ now' = now + 1
  /\ UNCHANGED <<rows, committed, held, docs, stage, work, heard>>

BkActs(e) == \/ BkErrs(e) \/ BkWaits(e) \/ BkReads(e) \/ BkWrites(e) \/ BkTouches(e)
             \/ BkCounts(e) \/ BkReturns(e) \/ BkMoves(e) \/ BkCommits(e) \/ BkRollsBack(e)
             \/ BkTells(e)

-----------------------------------------------------------------------------
(* Every step is of one of the kinds. *)

\* What the statements make of a row.
BkFails(r, c, t) == c.op = "increment" /\ r # BkNoRow /\ ~(r.expires # 0 /\ r.expires <= t)
                    /\ r.value = Text

LEMMA BkMark ==
  ASSUME NEW e \in Execution, stage[e] \in {"run", "waiting"}
  PROVE  Backend!Mark(e) = <<e, BkNext(e)>>
  BY DEF Backend!Mark, BkNext

LEMMA BkResult ==
  ASSUME BkTypes, NEW e \in Execution, stage[e] \in {"run", "waiting"}, NEW r \in BkRows,
         NEW c \in BkCalls, c.op \in BkMutation, NEW t \in Nat, ~BkFails(r, c, t),
         c.op = "compareAndSet" => r # BkNoRow
  PROVE  Backend!Result(e, r, c, t) \in BkRows /\ BkNewer(e, r, Backend!Result(e, r, c, t))
<1>1. PICK m : m = <<e, BkNext(e)>>
  OBVIOUS
<1>2. m \in BkMarks /\ Ttl \in Nat
  BY <1>1, BkConstants DEF BkTypes, BkWork, BkMarks, BkNext
<1>3. Backend!Mark(e) = m
  BY <1>1, BkMark, Zenon
<1>4. PICK x : x = Backend!Expiry(c, t)
  BY Zenon
<1>5. x \in Nat
  BY <1>2, <1>4 DEF Backend!Expiry, Backend!Never
<1>6. PICK y : y = Backend!Kept(c, r, t)
  BY Zenon
<1>7. r # BkNoRow => y \in Nat
  BY <1>4, <1>5, <1>6 DEF Backend!Kept, Backend!Expiry, Backend!Never, BkRows, BkRow
<1>8. Backend!NoRow = BkNoRow
  BY DEF Backend!NoRow, BkNoRow, Backend!Never
<1> DEFINE Ins(v) == [by |-> m, born |-> m, version |-> 1, value |-> v, expires |-> x]
           Upd(v, z) == [by |-> m, born |-> r.born, version |-> r.version + 1, value |-> v,
                         expires |-> z]
<1>9. \A v \in Int \cup {Text} :
         Ins(v) \in BkRow /\ Ins(v).by = m /\ Ins(v).born = m
  BY <1>2, <1>5 DEF BkRow
<1>10. ASSUME r # BkNoRow
       PROVE  \A v \in Int \cup {Text}, z \in Nat :
                /\ Upd(v, z) \in BkRow /\ Upd(v, z).by = m /\ Upd(v, z).born = r.born
                /\ Upd(v, z).version = r.version + 1
  <2>1. r.born \in BkMarks /\ r.version + 1 \in Nat \ {0}
    BY <1>10 DEF BkRows, BkRow
  <2> QED BY <1>2, <2>1 DEF BkRow
<1>11. \A v : Backend!Inserted(e, v, c, t) = Ins(v)
  BY <1>3, <1>4, Zenon DEF Backend!Inserted
<1>12. \A v, z : Backend!Updated(e, r, v, z) = Upd(v, z)
  BY <1>3, Zenon DEF Backend!Updated
<1> HIDE DEF Ins, Upd
<1>13. PICK res : res = Backend!Result(e, r, c, t)
  BY Zenon
<1>14. \/ res = BkNoRow
       \/ r = BkNoRow /\ \E v \in Int \cup {Text} : res = Ins(v)
       \/ r # BkNoRow /\ \E v \in Int \cup {Text}, z \in Nat : res = Upd(v, z)
  <2>1. CASE c.op = "set"
    <3>1. res = IF r = BkNoRow THEN Ins(Text) ELSE Upd(Text, y)
      BY <1>6, <1>8, <1>11, <1>12, <1>13, <2>1, Zenon DEF Backend!Result, Backend!SetKv
    <3> QED BY <1>7, <3>1
  <2>2. CASE c.op = "increment"
    <3>1. PICK b \in BOOLEAN : b = Backend!Expired(r, t)
      BY DEF Backend!Expired, Backend!Never
    <3>2. res = IF r = BkNoRow THEN Ins(1) ELSE IF b THEN Upd(1, x) ELSE Upd(r.value + 1, y)
      BY <1>4, <1>6, <1>8, <1>11, <1>12, <1>13, <2>2, <3>1, Zenon
      DEF Backend!Result, Backend!IncrementKv
    <3>3. r # BkNoRow /\ ~b => r.value \in Int
      BY <2>2, <3>1 DEF BkFails, BkRows, BkRow, Backend!Expired, Backend!Never
    <3> QED BY <1>5, <1>7, <3>2, <3>3
  <2>3. CASE c.op = "setIfAbsent"
    <3>1. res = IF r = BkNoRow THEN Ins(Text) ELSE Upd(Text, x)
      BY <1>4, <1>8, <1>11, <1>12, <1>13, <2>3, Zenon DEF Backend!Result, Backend!SetKvIfAbsent
    <3> QED BY <1>5, <3>1
  <2>4. CASE c.op = "compareAndSet" /\ r # BkNoRow
    <3>1. res = Upd(Text, y)
      BY <1>6, <1>12, <1>13, <2>4, Zenon DEF Backend!Result, Backend!CompareAndSetKv
    <3> QED BY <1>7, <2>4, <3>1
  <2>5. CASE c.op = "delete"
    BY <1>8, <1>13, <2>5, Zenon DEF Backend!Result
  <2> QED BY <2>1, <2>2, <2>3, <2>4, <2>5 DEF BkMutation
<1> QED BY <1>1, <1>9, <1>10, <1>13, <1>14, Zenon DEF BkRows, BkNewer

\* The local state of a call that has been answered.
LEMMA BkDone ==
  ASSUME NEW w \in BkWork, NEW d, d = Backend!Done(w)
  PROVE  d \in BkWork /\ d.calls = w.calls /\ d.key = w.key /\ d.seen = w.seen
  BY DEF Backend!Done, Backend!NoCall, BkNoCall, BkWork

BkReply(w, k, s) == [Backend!Done(w) EXCEPT !.key = k, !.seen = s]

LEMMA BkAnswered ==
  ASSUME NEW w \in BkWork, NEW k \in Key \cup {Nothing}, NEW s \in BkRows
  PROVE  /\ BkReply(w, k, s) \in BkWork /\ BkReply(w, k, s).calls = w.calls
         /\ BkReply(w, k, s).key = k /\ BkReply(w, k, s).seen = s
<1>1. PICK d : d = Backend!Done(w)
  BY Zenon
<1>2. d \in BkWork /\ d.calls = w.calls /\ d.key = w.key /\ d.seen = w.seen
  BY <1>1, BkDone, Zenon
<1>3. PICK a : a = [d EXCEPT !.key = k, !.seen = s]
  OBVIOUS
<1>4. a \in BkWork /\ a.calls = d.calls /\ a.key = k /\ a.seen = s
  BY <1>2, <1>3 DEF BkWork
<1>5. a = BkReply(w, k, s)
  BY <1>1, <1>3, Zenon DEF BkReply
<1> QED BY <1>2, <1>4, <1>5, Zenon

LEMMA BkThrown ==
  ASSUME NEW w \in BkWork, NEW b \in BOOLEAN
  PROVE  /\ [Backend!Done(w) EXCEPT !.aborted = b] \in BkWork
         /\ [Backend!Done(w) EXCEPT !.aborted = b].calls = w.calls
         /\ [Backend!Done(w) EXCEPT !.aborted = b].key = w.key
         /\ [Backend!Done(w) EXCEPT !.aborted = b].seen = w.seen
<1>1. PICK d : d = Backend!Done(w)
  BY Zenon
<1>2. d \in BkWork /\ d.calls = w.calls /\ d.key = w.key /\ d.seen = w.seen
  BY <1>1, BkDone, Zenon
<1>3. PICK f : f = [d EXCEPT !.aborted = b]
  OBVIOUS
<1>4. f \in BkWork /\ f.calls = d.calls /\ f.key = d.key /\ f.seen = d.seen
  BY <1>2, <1>3 DEF BkWork
<1> QED BY <1>1, <1>2, <1>3, <1>4, Zenon

BkApplies(e, r, c, t) == Backend!Applies(e, r, c, t)

\* A statement fails, is applied to the row it is about, or changes nothing.
LEMMA BkPerforms ==
  ASSUME BkTypes, NEW e \in Execution, stage[e] \in {"run", "waiting"},
         NEW w \in BkWork, w.calls = BkNext(e), w.key = work[e].key, w.seen = work[e].seen,
         w.call \in BkCalls, w.call.op \in BkMutation,
         NEW r \in BkRows, NEW waited \in BOOLEAN,
         \/ r = rows[w.call.key] /\ held[w.call.key] \in {Nothing, e}
         \/ w.call.op \in {"compareAndSet", "delete"}
            /\ ~BkApplies(e, r, w.call, w.at) /\ (~waited \/ r = BkNoRow),
         UNCHANGED <<now, docs, heard>>
  PROVE  Backend!Perform(e, w, r, waited) => BkErrs(e) \/ BkWrites(e) \/ BkTouches(e)
<1>1. ASSUME Backend!Perform(e, w, r, waited) PROVE BkErrs(e) \/ BkWrites(e) \/ BkTouches(e)
  <2>1. Backend!NoRow = BkNoRow
    BY DEF Backend!NoRow, BkNoRow, Backend!Never
  <2>2. (e \in Judge) \in BOOLEAN /\ Nothing \in Key \cup {Nothing} /\ BkNoRow \in BkRows
    BY DEF BkRows
  <2>3. PICK f \in BkWork : /\ f = [Backend!Done(w) EXCEPT !.aborted = e \in Judge]
                            /\ f.calls = w.calls /\ f.key = w.key /\ f.seen = w.seen
    BY <2>2, BkThrown, Zenon
  <2>4. w.call.key \in Key /\ w.call.key \in Key \cup {Nothing} /\ w.at \in Nat
    BY DEF BkWork, BkCalls
  <2>5. \/ /\ work' = [work EXCEPT ![e] = f] /\ stage' = [stage EXCEPT ![e] = "run"]
           /\ UNCHANGED <<rows, committed, held>>
        \/ /\ ~Backend!Fails(r, w.call, w.at) /\ Backend!Applies(e, r, w.call, w.at)
           /\ Backend!Write(e, w.call.key, Backend!Result(e, r, w.call, w.at))
           /\ Backend!Answer(e, w, w.call.key, Backend!Result(e, r, w.call, w.at))
           /\ Backend!Goto(e, "run")
        \/ /\ ~Backend!Applies(e, r, w.call, w.at) /\ Backend!Touch(e, w.call, r, waited)
           /\ \/ Backend!Answer(e, w, Nothing, BkNoRow) /\ Backend!Goto(e, "run")
              \/ work' = [work EXCEPT ![e] = w] /\ Backend!Goto(e, "reread")
    BY <1>1, <2>1, <2>3, Zenon
    DEF Backend!Perform, Backend!Error, Backend!Goto, Backend!entries
  <2>6. CASE /\ work' = [work EXCEPT ![e] = f] /\ stage' = [stage EXCEPT ![e] = "run"]
             /\ UNCHANGED <<rows, committed, held>>
    <3>1. BkErrs(e)
      BY <2>3, <2>6, Zenon DEF BkErrs, BkGo
    <3> QED BY <3>1, Zenon
  <2>7. CASE /\ ~Backend!Fails(r, w.call, w.at) /\ Backend!Applies(e, r, w.call, w.at)
             /\ Backend!Write(e, w.call.key, Backend!Result(e, r, w.call, w.at))
             /\ Backend!Answer(e, w, w.call.key, Backend!Result(e, r, w.call, w.at))
             /\ Backend!Goto(e, "run")
    <3>1. PICK x : x = Backend!Result(e, r, w.call, w.at)
      BY Zenon
    <3>2. r = rows[w.call.key] /\ held[w.call.key] \in {Nothing, e}
      BY <2>7, Zenon DEF BkApplies
    <3>3. ~BkFails(r, w.call, w.at)
      BY <2>1, <2>7, Zenon DEF Backend!Fails, Backend!Visible, Backend!Expired, Backend!Never, BkFails
    <3>4. w.call.op = "compareAndSet" => r # BkNoRow
      BY <2>1, <2>7, Zenon DEF Backend!Applies, Backend!Visible
    <3>5. x \in BkRows /\ BkNewer(e, r, x)
      BY <2>4, <3>1, <3>3, <3>4, BkResult, Zenon
    <3>a. PICK k : k = w.call.key
      OBVIOUS
    <3>b. k \in Key \cup {Nothing} /\ x \in BkRows
      BY <2>4, <3>5, <3>a, Zenon
    <3>6. PICK y \in BkWork : /\ y = BkReply(w, k, x)
                              /\ y.calls = w.calls /\ y.key = k /\ y.seen = x
      BY <3>b, BkAnswered
    <3>7. /\ work' = [work EXCEPT ![e] = y] /\ stage' = [stage EXCEPT ![e] = "run"]
          /\ BkStores(e, w.call.key, x)
      BY <2>7, <3>1, <3>a, <3>6, Zenon
      DEF BkReply, Backend!Answer, Backend!Goto, Backend!Write, BkStores
    <3>8. BkWrites(e)
      BY <2>4, <3>2, <3>5, <3>a, <3>6, <3>7, Zenon DEF BkWrites, BkGo
    <3> QED BY <3>8, Zenon
  <2>8. CASE /\ ~Backend!Applies(e, r, w.call, w.at) /\ Backend!Touch(e, w.call, r, waited)
             /\ \/ Backend!Answer(e, w, Nothing, BkNoRow) /\ Backend!Goto(e, "run")
                \/ work' = [work EXCEPT ![e] = w] /\ Backend!Goto(e, "reread")
    <3>1. PICK y \in BkWork : /\ y = BkReply(w, Nothing, BkNoRow)
                              /\ y.calls = w.calls /\ y.key = Nothing /\ y.seen = BkNoRow
      BY <2>2, BkAnswered
    <3>2. \/ work' = [work EXCEPT ![e] = y] /\ stage' = [stage EXCEPT ![e] = "run"]
          \/ work' = [work EXCEPT ![e] = w] /\ stage' = [stage EXCEPT ![e] = "reread"]
      BY <2>8, <3>1, Zenon DEF BkReply, Backend!Answer, Backend!Goto
    <3>3. /\ rows' = rows /\ committed' = committed
          /\ held' = IF e \in Judge /\ r # BkNoRow /\ (waited \/ w.call.op = "setIfAbsent")
                     THEN [held EXCEPT ![w.call.key] = e] ELSE held
      BY <2>1, <2>8, Zenon DEF Backend!Touch
    <3>4. \/ held' = held
          \/ /\ e \in Judge /\ held[w.call.key] \in {Nothing, e}
             /\ held' = [held EXCEPT ![w.call.key] = e]
      BY <3>3, Zenon
    <3>5. BkTouches(e)
      BY <2>4, <3>1, <3>2, <3>3, <3>4, Zenon DEF BkTouches, BkGo
    <3> QED BY <3>5, Zenon
  <2> QED BY <2>5, <2>6, <2>7, <2>8, Zenon
<1> QED BY <1>1, Zenon

BkIssue(e, c) == [work[e] EXCEPT !.calls = @ + 1, !.call = c, !.at = now,
                                 !.target = committed[c.key].born]

LEMMA BkIssued ==
  ASSUME BkTypes, NEW e \in Execution, NEW c \in BkCalls
  PROVE  /\ BkIssue(e, c) \in BkWork /\ BkIssue(e, c).calls = work[e].calls + 1
         /\ BkIssue(e, c).call = c /\ BkIssue(e, c).at = now
         /\ BkIssue(e, c).key = work[e].key /\ BkIssue(e, c).seen = work[e].seen
<1>0. PICK w : w = BkIssue(e, c)
  OBVIOUS
<1>1. PICK b : b = committed[c.key].born
  OBVIOUS
<1>2. b \in BkMarks \cup {Nothing} /\ now \in Nat
  BY <1>1 DEF BkTypes, BkRows, BkRow, BkNoRow, BkCalls
<1>3. PICK d : d = work[e]
  OBVIOUS
<1>4. d \in BkWork
  BY <1>3 DEF BkTypes
<1>5. PICK n : n = d.calls + 1
  OBVIOUS
<1>6. n \in Nat
  BY <1>4, <1>5 DEF BkWork
<1>7. w = [d EXCEPT !.calls = n, !.call = c, !.at = now, !.target = b]
  BY <1>0, <1>1, <1>3, <1>5 DEF BkIssue
<1>8. /\ w \in BkWork /\ w.calls = n /\ w.call = c /\ w.at = now /\ w.key = d.key
      /\ w.seen = d.seen
  BY <1>2, <1>4, <1>6, <1>7 DEF BkWork
<1> QED BY <1>0, <1>3, <1>5, <1>8

LEMMA BkIssues ==
  ASSUME BkTypes, BkLocks, NEW e \in Execution, NEW c \in Menu[e]
  PROVE  Backend!Issue(e, c) => BkErrs(e) \/ BkWaits(e) \/ BkWrites(e) \/ BkTouches(e)
<1>1. c \in BkCalls
  BY BkConstants
<1>2. PICK w : w = BkIssue(e, c)
  OBVIOUS
<1>3. /\ w \in BkWork /\ w.calls = work[e].calls + 1 /\ w.call = c /\ w.at = now
      /\ w.key = work[e].key /\ w.seen = work[e].seen
  BY <1>1, <1>2, BkIssued
<1>4. Backend!NoRow = BkNoRow /\ Backend!Mutation = BkMutation
  BY DEF Backend!NoRow, BkNoRow, Backend!Never, Backend!Mutation, BkMutation
<1>5. c.key \in Key /\ now \in Nat
  BY <1>1 DEF BkCalls, BkTypes
<1>6. ASSUME Backend!Issue(e, c) PROVE BkErrs(e) \/ BkWaits(e) \/ BkWrites(e) \/ BkTouches(e)
  <2>1. /\ c.op \in BkMutation /\ stage[e] = "run"
        /\ c.op = "compareAndSet" => work[e].key = c.key /\ work[e].seen # BkNoRow
        /\ UNCHANGED <<now, docs, heard>>
        /\ \/ Backend!Error(e, w)
           \/ Backend!Waits(e, c) /\ work' = [work EXCEPT ![e] = w] /\ Backend!Goto(e, "waiting")
              /\ UNCHANGED Backend!entries
           \/ ~Backend!Waits(e, c) /\ Backend!Perform(e, w, Backend!Row(e, c.key), FALSE)
    BY <1>2, <1>4, <1>6, Zenon DEF Backend!Issue, BkIssue
  <2>a. c.op \in BkMutation /\ stage[e] = "run"
    BY <2>1, Zenon
  <2>2. w.calls = BkNext(e)
    BY <1>3, <2>a DEF BkNext
  <2>3. CASE Backend!Error(e, w)
    <3>1. (e \in Judge) \in BOOLEAN
      OBVIOUS
    <3>2. PICK f \in BkWork : /\ f = [Backend!Done(w) EXCEPT !.aborted = e \in Judge]
                              /\ f.calls = w.calls /\ f.key = w.key /\ f.seen = w.seen
      BY <1>3, <3>1, BkThrown, Zenon
    <3>3. BkErrs(e)
      BY <1>3, <2>1, <2>2, <2>3, <3>2, Zenon
      DEF BkErrs, BkGo, Backend!Error, Backend!Goto, Backend!entries
    <3> QED BY <3>3, Zenon
  <2>4. CASE Backend!Waits(e, c) /\ work' = [work EXCEPT ![e] = w]
             /\ Backend!Goto(e, "waiting") /\ UNCHANGED Backend!entries
    <3>1. BkWaits(e)
      BY <1>1, <1>3, <2>1, <2>2, <2>4, Zenon DEF BkWaits, BkGo, Backend!Goto, Backend!entries
    <3> QED BY <3>1, Zenon
  <2>5. CASE ~Backend!Waits(e, c) /\ Backend!Perform(e, w, Backend!Row(e, c.key), FALSE)
    <3>1. PICK r : r = Backend!Row(e, c.key)
      BY Zenon
    <3>2. r = BkRowOf(e, c.key)
      BY <3>1, Zenon DEF Backend!Row, BkRowOf
    <3>3. r \in BkRows
      BY <1>5, <3>2 DEF BkRowOf, BkTypes
    <3>4. \/ held[c.key] \in {Nothing, e}
          \/ /\ c.op \in {"compareAndSet", "delete"}
             /\ ~Backend!Applies(e, committed[c.key], c, now)
      <4>1. \/ held[c.key] \in {Nothing, e}
            \/ /\ c.op \notin {"set", "increment", "setIfAbsent"}
               /\ ~(c.op \in {"compareAndSet", "delete"}
                    /\ Backend!Applies(e, committed[c.key], c, now))
        BY <2>5, Zenon DEF Backend!Waits
      <4>2. c.op \in {"set", "increment", "setIfAbsent"} \/ c.op \in {"compareAndSet", "delete"}
        BY <2>a DEF BkMutation
      <4> QED BY <4>1, <4>2, Zenon
    <3>5. \/ r = rows[c.key] /\ held[c.key] \in {Nothing, e}
          \/ /\ c.op \in {"compareAndSet", "delete"} /\ ~BkApplies(e, r, c, now)
             /\ (~FALSE \/ r = BkNoRow)
      <4>1. CASE held[c.key] \in {Nothing, e}
        <5>1. r = rows[c.key]
          BY <1>5, <3>2, <4>1 DEF BkRowOf, BkLocks
        <5> QED BY <4>1, <5>1, Zenon
      <4>2. CASE ~(held[c.key] \in {Nothing, e})
        <5>1. r = committed[c.key]
          BY <3>2, <4>2, Zenon DEF BkRowOf
        <5> QED BY <3>4, <4>2, <5>1, Zenon DEF BkApplies
      <4> QED BY <4>1, <4>2, Zenon
    <3>6. Backend!Perform(e, w, r, FALSE)
      BY <2>5, <3>1, Zenon
    <3>7. stage[e] \in {"run", "waiting"} /\ FALSE \in BOOLEAN
      BY <2>a
    <3>8. w.call \in BkCalls /\ w.call.op \in BkMutation /\ w.at = now /\ w.call.key = c.key
      BY <1>1, <1>3, <2>1, Zenon
    <3>9. \/ r = rows[w.call.key] /\ held[w.call.key] \in {Nothing, e}
          \/ w.call.op \in {"compareAndSet", "delete"}
             /\ ~BkApplies(e, r, w.call, w.at) /\ (~FALSE \/ r = BkNoRow)
      BY <1>3, <3>5, Zenon
    <3> QED BY <1>3, <2>1, <2>2, <3>3, <3>6, <3>7, <3>8, <3>9, BkPerforms, Zenon
  <2> QED BY <2>1, <2>3, <2>4, <2>5, Zenon
<1> QED BY <1>6, Zenon

LEMMA BkWakes ==
  ASSUME BkTypes, BkLocks, BkUnderWay, NEW e \in Execution
  PROVE  Backend!Wake(e) => BkErrs(e) \/ BkWrites(e) \/ BkTouches(e)
<1>1. ASSUME Backend!Wake(e) PROVE BkErrs(e) \/ BkWrites(e) \/ BkTouches(e)
  <2>1. PICK w : w = work[e]
    OBVIOUS
  <2>2. PICK k : k = w.call.key
    OBVIOUS
  <2>3. PICK r : r = IF w.call.op \in {"compareAndSet", "delete"} /\ rows[k].born # w.target
                     THEN BkNoRow ELSE rows[k]
    OBVIOUS
  <2>4. Backend!NoRow = BkNoRow
    BY DEF Backend!NoRow, BkNoRow, Backend!Never
  <2>5. /\ stage[e] = "waiting" /\ held[k] = Nothing /\ UNCHANGED <<now, docs, heard>>
        /\ Backend!Perform(e, w, r, TRUE)
    BY <1>1, <2>1, <2>2, <2>3, <2>4, Zenon DEF Backend!Wake
  <2>6. stage[e] = "waiting" /\ held[k] = Nothing /\ UNCHANGED <<now, docs, heard>>
    BY <2>5, Zenon
  <2>7. /\ w \in BkWork /\ w.calls = BkNext(e) /\ w.call \in BkCalls /\ w.call.op \in BkMutation
    BY <2>1, <2>6 DEF BkTypes, BkUnderWay, BkNext
  <2>8. k \in Key
    BY <2>2, <2>7 DEF BkCalls
  <2>9. r \in BkRows
    BY <2>3, <2>8 DEF BkTypes, BkRows
  <2>10. \/ r = rows[w.call.key] /\ held[w.call.key] \in {Nothing, e}
         \/ /\ w.call.op \in {"compareAndSet", "delete"} /\ ~BkApplies(e, r, w.call, w.at)
            /\ (~TRUE \/ r = BkNoRow)
    <3>1. CASE w.call.op \in {"compareAndSet", "delete"} /\ rows[k].born # w.target
      <4>1. r = BkNoRow
        BY <2>3, <3>1
      <4>2. ~BkApplies(e, BkNoRow, w.call, w.at)
        BY <2>4, <3>1, Zenon DEF BkApplies, Backend!Applies, Backend!Visible
      <4> QED BY <3>1, <4>1, <4>2, Zenon
    <3>2. CASE ~(w.call.op \in {"compareAndSet", "delete"} /\ rows[k].born # w.target)
      BY <2>2, <2>3, <2>6, <3>2, Zenon
    <3> QED BY <3>1, <3>2, Zenon
  <2>11. stage[e] \in {"run", "waiting"} /\ TRUE \in BOOLEAN
    BY <2>6
  <2> QED BY <2>1, <2>5, <2>6, <2>7, <2>9, <2>10, <2>11, BkPerforms, Zenon
<1> QED BY <1>1, Zenon

LEMMA BkTimesOut ==
  ASSUME BkTypes, NEW e \in Execution
  PROVE  Backend!LockTimeout(e) => BkErrs(e)
<1>1. ASSUME Backend!LockTimeout(e) PROVE BkErrs(e)
  <2>1. PICK w : w = work[e]
    OBVIOUS
  <2>2. stage[e] = "waiting" /\ UNCHANGED <<now, docs, heard>> /\ Backend!Error(e, w)
    BY <1>1, <2>1, Zenon DEF Backend!LockTimeout
  <2>3. stage[e] = "waiting"
    BY <2>2, Zenon
  <2>4. w \in BkWork /\ w.calls = BkNext(e) /\ (e \in Judge) \in BOOLEAN
    BY <2>1, <2>3 DEF BkTypes, BkNext
  <2>5. PICK f \in BkWork : /\ f = [Backend!Done(w) EXCEPT !.aborted = e \in Judge]
                            /\ f.calls = w.calls /\ f.key = w.key /\ f.seen = w.seen
    BY <2>4, BkThrown, Zenon
  <2> QED BY <2>1, <2>2, <2>4, <2>5, Zenon
      DEF BkErrs, BkGo, Backend!Error, Backend!Goto, Backend!entries
<1> QED BY <1>1, Zenon

\* What a call that reads answers with.
LEMMA BkAnswers ==
  ASSUME BkTypes, NEW e \in Execution, stage[e] \in {"run", "reread"}, NEW k \in Key,
         NEW w \in BkWork, w.calls \in {work[e].calls, work[e].calls + 1},
         NEW s \in {BkNoRow, BkRowOf(e, k)},
         stage' = [stage EXCEPT ![e] = "run"],
         UNCHANGED <<now, rows, committed, held, docs, heard>>
  PROVE  work' = [work EXCEPT ![e] = BkReply(w, k, s)] => BkReads(e)
<1>1. s \in BkRows /\ k \in Key \cup {Nothing}
  BY DEF BkRowOf, BkTypes, BkRows
<1>2. /\ BkReply(w, k, s) \in BkWork /\ BkReply(w, k, s).calls = w.calls
      /\ BkReply(w, k, s).key = k /\ BkReply(w, k, s).seen = s
  BY <1>1, BkAnswered
<1> QED BY <1>2 DEF BkReads, BkGo

LEMMA BkRereads ==
  ASSUME BkTypes, BkUnderWay, NEW e \in Execution
  PROVE  Backend!Reread(e) => BkReads(e)
<1>1. ASSUME Backend!Reread(e) PROVE BkReads(e)
  <2>1. PICK w : w = work[e]
    OBVIOUS
  <2>2. PICK k : k = w.call.key
    OBVIOUS
  <2>3. Backend!NoRow = BkNoRow
    BY DEF Backend!NoRow, BkNoRow, Backend!Never
  <2>4. PICK s : /\ s \in {BkNoRow, BkRowOf(e, k)}
                 /\ work' = [work EXCEPT ![e] = BkReply(w, k, s)]
    BY <1>1, <2>1, <2>2, <2>3, Zenon
    DEF Backend!Reread, Backend!Answer, Backend!Row, BkRowOf, BkReply
  <2>5. /\ stage[e] = "reread" /\ stage' = [stage EXCEPT ![e] = "run"]
        /\ UNCHANGED <<now, rows, committed, held, docs, heard>>
    BY <1>1, Zenon DEF Backend!Reread, Backend!Goto, Backend!entries
  <2>6. w \in BkWork /\ w.calls \in {work[e].calls, work[e].calls + 1} /\ k \in Key
    BY <2>1, <2>2, <2>5 DEF BkTypes, BkUnderWay, BkCalls
  <2>7. stage[e] \in {"run", "reread"}
    BY <2>5
  <2> QED BY <2>4, <2>5, <2>6, <2>7, BkAnswers
<1> QED BY <1>1, Zenon

LEMMA BkGets ==
  ASSUME BkTypes, NEW e \in Execution, NEW c \in Menu[e]
  PROVE  Backend!GetKvEntry(e, c) => BkReads(e)
<1>1. ASSUME Backend!GetKvEntry(e, c) PROVE BkReads(e)
  <2>1. PICK w : w = [work[e] EXCEPT !.calls = @ + 1]
    OBVIOUS
  <2>2. PICK k : k = c.key
    OBVIOUS
  <2>3. Backend!NoRow = BkNoRow
    BY DEF Backend!NoRow, BkNoRow, Backend!Never
  <2>4. PICK s : /\ s \in {BkNoRow, BkRowOf(e, k)}
                 /\ work' = [work EXCEPT ![e] = BkReply(w, k, s)]
    BY <1>1, <2>1, <2>2, <2>3, Zenon
    DEF Backend!GetKvEntry, Backend!Answer, Backend!Row, BkRowOf, BkReply
  <2>5. /\ stage[e] = "run" /\ stage' = stage
        /\ UNCHANGED <<now, rows, committed, held, docs, heard>>
    BY <1>1, Zenon DEF Backend!GetKvEntry, Backend!entries
  <2>6. w \in BkWork /\ w.calls \in {work[e].calls, work[e].calls + 1} /\ k \in Key
    <3>1. work[e] \in BkWork /\ c \in BkCalls
      BY BkConstants DEF BkTypes
    <3> QED BY <2>1, <2>2, <3>1 DEF BkWork, BkCalls
  <2>7. stage[e] \in {"run", "reread"} /\ stage' = [stage EXCEPT ![e] = "run"]
    BY <2>5 DEF BkTypes
  <2> QED BY <2>4, <2>5, <2>6, <2>7, BkAnswers
<1> QED BY <1>1, Zenon

LEMMA BkCountsUp ==
  ASSUME BkTypes, NEW e \in Execution
  PROVE  Backend!InsertStoreDoc(e) \/ Backend!EmitEvent(e) => BkCounts(e)
<1>1. work[e] \in BkWork
  BY DEF BkTypes
<1>2. ASSUME Backend!InsertStoreDoc(e) PROVE BkCounts(e)
  <2>1. /\ stage[e] = "run" /\ stage' = stage /\ docs' = docs \cup {e}
        /\ work' = [work EXCEPT ![e].calls = @ + 1]
        /\ UNCHANGED <<now, rows, committed, held, heard>>
    BY <1>2, Zenon DEF Backend!InsertStoreDoc, Backend!entries
  <2>2. PICK w : w = [work[e] EXCEPT !.calls = @ + 1]
    OBVIOUS
  <2>3. /\ w \in BkWork /\ w.calls = work[e].calls + 1 /\ w.key = work[e].key
        /\ w.seen = work[e].seen
    BY <1>1, <2>2 DEF BkWork
  <2>4. work' = [work EXCEPT ![e] = w] /\ stage' = [stage EXCEPT ![e] = "run"]
    BY <2>1, <2>2 DEF BkTypes
  <2> QED BY <2>1, <2>3, <2>4 DEF BkCounts, BkGo
<1>3. ASSUME Backend!EmitEvent(e) PROVE BkCounts(e)
  <2>1. /\ stage[e] = "run" /\ stage' = stage
        /\ work' = [work EXCEPT ![e].calls = @ + 1, ![e].event = TRUE]
        /\ UNCHANGED <<now, rows, committed, held, docs, heard>>
    BY <1>3, Zenon DEF Backend!EmitEvent, Backend!entries
  <2>2. PICK w : w = [work[e] EXCEPT !.calls = @ + 1, !.event = TRUE]
    OBVIOUS
  <2>3. /\ w \in BkWork /\ w.calls = work[e].calls + 1 /\ w.key = work[e].key
        /\ w.seen = work[e].seen
    <3>1. PICK d : d = work[e]
      OBVIOUS
    <3>2. PICK n : n = d.calls + 1
      OBVIOUS
    <3>3. d \in BkWork /\ n \in Nat
      BY <1>1, <3>1, <3>2 DEF BkWork
    <3>4. w = [d EXCEPT !.calls = n, !.event = TRUE]
      BY <2>2, <3>1, <3>2
    <3>5. w \in BkWork /\ w.calls = n /\ w.key = d.key /\ w.seen = d.seen
      BY <3>3, <3>4 DEF BkWork
    <3> QED BY <3>1, <3>2, <3>5
  <2>4. work' = [work EXCEPT ![e] = w] /\ stage' = [stage EXCEPT ![e] = "run"]
    BY <2>1, <2>2 DEF BkTypes
  <2> QED BY <2>1, <2>3, <2>4 DEF BkCounts, BkGo
<1> QED BY <1>2, <1>3, Zenon

LEMMA BkReturned ==
  ASSUME BkTypes, NEW e \in Execution
  PROVE  Backend!Return(e) => BkReturns(e)
<1>1. ASSUME Backend!Return(e) PROVE BkReturns(e)
  <2>1. PICK ok \in BOOLEAN : work' = [work EXCEPT ![e] =
           [Backend!Local EXCEPT !.ok = ok, !.event = ok /\ work[e].event,
                                 !.aborted = work[e].aborted]]
    BY <1>1, Zenon DEF Backend!Return
  <2>2. /\ stage[e] = "run" /\ stage' = [stage EXCEPT ![e] = "log"]
        /\ UNCHANGED <<now, rows, committed, held, docs, heard>>
    BY <1>1, Zenon DEF Backend!Return, Backend!Goto, Backend!entries
  <2>3. PICK v : v = (ok /\ work[e].event)
    OBVIOUS
  <2>4. PICK a : a = work[e].aborted
    OBVIOUS
  <2>5. v \in BOOLEAN /\ a \in BOOLEAN
    BY <2>3, <2>4 DEF BkTypes, BkWork
  <2>6. PICK w : w = [Backend!Local EXCEPT !.ok = ok, !.event = v, !.aborted = a]
    BY Zenon
  <2>7. w \in BkWork /\ w.seen = BkNoRow
    BY <2>5, <2>6 DEF BkWork, BkRows, BkNoRow, Backend!Local, Backend!NoRow, Backend!NoCall,
       BkNoCall, Backend!Never
  <2>8. work' = [work EXCEPT ![e] = w]
    BY <2>1, <2>3, <2>4, <2>6, Zenon
  <2> QED BY <2>2, <2>7, <2>8 DEF BkReturns, BkGo
<1> QED BY <1>1, Zenon

LEMMA BkMoved ==
  ASSUME BkTypes, NEW e \in Execution
  PROVE  /\ Backend!Start(e) \/ Backend!Lookup(e) => BkMoves(e)
         /\ Backend!PoolTimeout(e) \/ Backend!FinishExecution(e) => BkMoves(e)
<1>1. ASSUME Backend!Start(e) PROVE BkMoves(e)
  <2>1. /\ stage[e] = "idle" /\ \E s \in {"lookup", "run", "failed"} : stage' = [stage EXCEPT ![e] = s]
        /\ UNCHANGED <<now, rows, committed, held, docs, work, heard>>
    BY <1>1, Zenon DEF Backend!Start, Backend!Goto, Backend!entries
  <2> QED BY <2>1 DEF BkMoves, BkStage
<1>2. ASSUME Backend!Lookup(e) PROVE BkMoves(e)
  <2>1. /\ stage[e] = "lookup" /\ \E s \in {"rollback", "run"} : stage' = [stage EXCEPT ![e] = s]
        /\ UNCHANGED <<now, rows, committed, held, docs, work, heard>>
    BY <1>2, Zenon DEF Backend!Lookup, Backend!Goto, Backend!entries
  <2> QED BY <2>1 DEF BkMoves, BkStage
<1>3. PICK s : s = Backend!AfterLog(e)
  BY Zenon
<1>4. IF e \in Judge THEN s \in {"commit", "rollback"} ELSE s \in {"tell", "failed"}
  BY <1>3, Zenon DEF Backend!AfterLog
<1>5. ASSUME Backend!FinishExecution(e) PROVE BkMoves(e)
  <2>1. /\ stage[e] = "log" /\ stage' = [stage EXCEPT ![e] = s]
        /\ UNCHANGED <<now, rows, committed, held, docs, work, heard>>
    BY <1>3, <1>5, Zenon DEF Backend!FinishExecution, Backend!Goto, Backend!entries
  <2> QED BY <1>4, <2>1 DEF BkMoves, BkStage
<1>6. ASSUME Backend!PoolTimeout(e) PROVE BkMoves(e)
  <2>1. /\ \/ stage[e] = "idle" /\ stage' = [stage EXCEPT ![e] = "failed"]
           \/ stage[e] = "lookup" /\ stage' = [stage EXCEPT ![e] = "rollback"]
           \/ stage[e] = "log" /\ stage' = [stage EXCEPT ![e] = s]
        /\ UNCHANGED <<now, rows, committed, held, docs, work, heard>>
    BY <1>3, <1>6, Zenon DEF Backend!PoolTimeout, Backend!Goto, Backend!entries
  <2> QED BY <1>4, <2>1 DEF BkMoves, BkStage
<1> QED BY <1>1, <1>2, <1>5, <1>6, Zenon

LEMMA BkEnds ==
  ASSUME NEW e \in Execution
  PROVE  /\ Backend!Commit(e) => BkCommits(e)
         /\ Backend!Rollback(e) => BkRollsBack(e)
         /\ Backend!Tell(e) => BkTells(e)
<1>1. Backend!Commit(e) => BkCommits(e)
  BY Zenon DEF Backend!Commit, BkCommits, Backend!Goto
<1>2. Backend!Rollback(e) => BkRollsBack(e)
  BY Zenon DEF Backend!Rollback, BkRollsBack, Backend!Goto
<1>3. Backend!Tell(e) => BkTells(e)
  BY Zenon DEF Backend!Tell, BkTells, Backend!Goto, Backend!entries
<1> QED BY <1>1, <1>2, <1>3, Zenon

LEMMA BkKinds ==
  ASSUME BkTypes, BkLocks, BkUnderWay
  PROVE  /\ \A e \in Execution : Backend!Step(e) => BkActs(e)
         /\ Backend!Tick => BkTicks
         /\ Backend!ClearKv => BkClears
<1>1. ASSUME NEW e \in Execution, Backend!Step(e) PROVE BkActs(e)
  BY <1>1, BkIssues, BkWakes, BkTimesOut, BkRereads, BkGets, BkCountsUp, BkReturned, BkMoved,
     BkEnds, Zenon DEF Backend!Step, BkActs
<1>2. Backend!Tick => BkTicks
  BY Zenon DEF Backend!Tick, BkTicks, Backend!entries
<1>3. Backend!NoRow = BkNoRow
  BY DEF Backend!NoRow, BkNoRow, Backend!Never
<1>4. Backend!ClearKv => BkClears
  BY <1>3, Zenon DEF Backend!ClearKv, BkClears
<1> QED BY <1>1, <1>2, <1>4, Zenon

-----------------------------------------------------------------------------
(* Types, locks and what is written: each kind of step keeps them. *)

LEMMA BkKeepsTypes ==
  ASSUME BkTypes, NEW e \in Execution, BkActs(e)
  PROVE  BkTypes'
<1> USE BkConstants DEF BkTypes, BkStage, BkGo
<1>1. CASE BkErrs(e)
  BY <1>1 DEF BkErrs
<1>2. CASE BkWaits(e)
  BY <1>2 DEF BkWaits
<1>3. CASE BkReads(e)
  BY <1>3 DEF BkReads
<1>4. CASE BkWrites(e)
  BY <1>4 DEF BkWrites, BkStores
<1>5. CASE BkTouches(e)
  BY <1>5 DEF BkTouches
<1>6. CASE BkCounts(e)
  BY <1>6 DEF BkCounts
<1>7. CASE BkReturns(e)
  BY <1>7 DEF BkReturns
<1>8. CASE BkMoves(e)
  BY <1>8 DEF BkMoves
<1>9. CASE BkCommits(e)
  BY <1>9 DEF BkCommits
<1>10. CASE BkRollsBack(e)
  BY <1>10 DEF BkRollsBack
<1>11. CASE BkTells(e)
  BY <1>11 DEF BkTells
<1> QED BY <1>1, <1>2, <1>3, <1>4, <1>5, <1>6, <1>7, <1>8, <1>9, <1>10, <1>11, Zenon DEF BkActs

LEMMA BkKeepsLocks ==
  ASSUME BkTypes, BkLocks, NEW e \in Execution, BkActs(e)
  PROVE  BkLocks'
<1> USE BkConstants DEF BkTypes, BkLocks, BkOpen, BkGo
<1>1. CASE BkErrs(e)
  BY <1>1 DEF BkErrs
<1>2. CASE BkWaits(e)
  BY <1>2 DEF BkWaits
<1>3. CASE BkReads(e)
  BY <1>3 DEF BkReads
<1>4. CASE BkWrites(e)
  BY <1>4 DEF BkWrites, BkStores
<1>5. CASE BkTouches(e)
  BY <1>5 DEF BkTouches
<1>6. CASE BkCounts(e)
  BY <1>6 DEF BkCounts
<1>7. CASE BkReturns(e)
  BY <1>7 DEF BkReturns
<1>8. CASE BkMoves(e)
  BY <1>8 DEF BkMoves
<1>9. CASE BkCommits(e)
  BY <1>9 DEF BkCommits
<1>10. CASE BkRollsBack(e)
  BY <1>10 DEF BkRollsBack
<1>11. CASE BkTells(e)
  BY <1>11 DEF BkTells
<1> QED BY <1>1, <1>2, <1>3, <1>4, <1>5, <1>6, <1>7, <1>8, <1>9, <1>10, <1>11, Zenon DEF BkActs

LEMMA BkKeepsUnderWay ==
  ASSUME BkTypes, BkUnderWay, NEW e \in Execution, BkActs(e)
  PROVE  BkUnderWay'
<1> USE DEF BkTypes, BkUnderWay, BkGo
<1>1. CASE BkErrs(e)
  BY <1>1 DEF BkErrs
<1>2. CASE BkWaits(e)
  BY <1>2 DEF BkWaits
<1>3. CASE BkReads(e)
  BY <1>3 DEF BkReads
<1>4. CASE BkWrites(e)
  BY <1>4 DEF BkWrites
<1>5. CASE BkTouches(e)
  BY <1>5 DEF BkTouches
<1>6. CASE BkCounts(e)
  BY <1>6 DEF BkCounts
<1>7. CASE BkReturns(e)
  BY <1>7 DEF BkReturns
<1>8. CASE BkMoves(e)
  BY <1>8 DEF BkMoves
<1>9. CASE BkCommits(e)
  BY <1>9 DEF BkCommits
<1>10. CASE BkRollsBack(e)
  BY <1>10 DEF BkRollsBack
<1>11. CASE BkTells(e)
  BY <1>11 DEF BkTells
<1> QED BY <1>1, <1>2, <1>3, <1>4, <1>5, <1>6, <1>7, <1>8, <1>9, <1>10, <1>11, Zenon DEF BkActs

\* Whoever is done stays so; whoever is not has not begun again.
BkOnward ==
  \A d \in Execution :
    /\ BkStands(d) => BkStands(d)'
    /\ stage'[d] \in BkActive => stage[d] \in BkActive /\ BkNext(d) <= BkNext(d)'

LEMMA BkGoesOn ==
  ASSUME BkTypes, NEW e \in Execution, BkActs(e)
  PROVE  BkOnward
<1>0. \A d \in Execution : work[d].calls \in Nat
  BY DEF BkTypes, BkWork
<1> USE <1>0 DEF BkTypes, BkOnward, BkStands, BkActive, BkNext, BkGo
<1>1. CASE BkErrs(e)
  BY <1>1 DEF BkErrs
<1>2. CASE BkWaits(e)
  BY <1>2 DEF BkWaits
<1>3. CASE BkReads(e)
  BY <1>3 DEF BkReads
<1>4. CASE BkWrites(e)
  BY <1>4 DEF BkWrites
<1>5. CASE BkTouches(e)
  BY <1>5 DEF BkTouches
<1>6. CASE BkCounts(e)
  BY <1>6 DEF BkCounts
<1>7. CASE BkReturns(e)
  BY <1>7 DEF BkReturns
<1>8. CASE BkMoves(e)
  BY <1>8 DEF BkMoves
<1>9. CASE BkCommits(e)
  BY <1>9 DEF BkCommits
<1>10. CASE BkRollsBack(e)
  BY <1>10 DEF BkRollsBack
<1>11. CASE BkTells(e)
  BY <1>11 DEF BkTells
<1> QED BY <1>1, <1>2, <1>3, <1>4, <1>5, <1>6, <1>7, <1>8, <1>9, <1>10, <1>11, Zenon DEF BkActs

-----------------------------------------------------------------------------
(* Who wrote the rows. *)

LEMMA BkMarked ==
  ASSUME NEW r \in BkRows, r # BkNoRow
  PROVE  /\ r.by \in BkMarks /\ r.by[1] \in Execution /\ r.by[2] \in Nat
         /\ r.born \in BkMarks /\ r.born[1] \in Execution /\ r.born[2] \in Nat
         /\ r.version \in Nat \ {0} /\ r.value \in Int \cup {Text} /\ r.expires \in Nat
  BY DEF BkRows, BkRow, BkMarks

\* Whoever wrote a row has committed it, or holds the row.
BkAuthor(r, h) ==
  r # BkNoRow => /\ BkSettled(r.by[1]) \/ h = r.by[1]
                 /\ BkSettled(r.born[1]) \/ h = r.born[1]

LEMMA BkAuthorKept ==
  ASSUME BkOnward, NEW r \in BkRows, NEW h, BkAuthor(r, h)
  PROVE  BkAuthor(r, h)'
<1>1. r # BkNoRow => r.by[1] \in Execution /\ r.born[1] \in Execution
  BY BkMarked
<1> QED BY <1>1 DEF BkAuthor, BkSettled, BkOnward

LEMMA BkKeepsWritten ==
  ASSUME BkTypes, BkLocks, BkWritten, NEW e \in Execution, BkActs(e)
  PROVE  BkWritten'
<1>1. BkTypes' /\ BkOnward
  BY BkKeepsTypes, BkGoesOn, Zenon
<1>2. \A k \in Key : BkAuthor(committed[k], Nothing) /\ BkAuthor(rows[k], held[k])
  BY DEF BkWritten, BkAuthor
<1>3. \A k \in Key : /\ rows[k] \in BkRows /\ committed[k] \in BkRows
                     /\ rows'[k] \in BkRows /\ committed'[k] \in BkRows
  BY <1>1 DEF BkTypes
<1>4. \A r \in BkRows : r # BkNoRow =>
         r.by[1] \in Execution /\ r.born[1] \in Execution /\ r.by[1] # Nothing /\ r.born[1] # Nothing
  BY BkMarked, BkConstants
<1>5. SUFFICES ASSUME NEW k \in Key
               PROVE  BkAuthor(committed[k], Nothing)' /\ BkAuthor(rows[k], held[k])'
  BY <1>3, <1>4 DEF BkWritten, BkAuthor
<1>6. BkAuthor(committed[k], Nothing) /\ BkAuthor(rows[k], held[k])
  BY <1>2
<1>7. ASSUME UNCHANGED <<rows, committed>>,
             \/ held'[k] = held[k]
             \/ held[k] \in {Nothing, e} /\ held'[k] = e
      PROVE  BkAuthor(committed[k], Nothing)' /\ BkAuthor(rows[k], held[k])'
  <2>1. rows[k] # BkNoRow => BkAuthor(rows[k], held'[k])
    BY <1>3, <1>4, <1>6, <1>7 DEF BkAuthor
  <2> QED BY <1>1, <1>3, <1>4, <1>6, <1>7, <2>1 DEF BkAuthor, BkSettled, BkOnward
<1> USE DEF BkTypes, BkGo
<1>8. CASE BkErrs(e)
  BY <1>7, <1>8 DEF BkErrs
<1>9. CASE BkWaits(e)
  BY <1>7, <1>9 DEF BkWaits
<1>10. CASE BkReads(e)
  BY <1>7, <1>10 DEF BkReads
<1>11. CASE BkWrites(e)
  <2>1. PICK j \in Key, x \in BkRows : /\ held[j] \in {Nothing, e} /\ BkNewer(e, rows[j], x)
                                       /\ BkStores(e, j, x)
    BY <1>11 DEF BkWrites
  <2>2. CASE j # k
    <3>1. rows'[k] = rows[k] /\ committed'[k] = committed[k] /\ held'[k] = held[k]
      BY <2>1, <2>2 DEF BkStores
    <3> QED BY <1>1, <1>3, <1>4, <1>6, <3>1 DEF BkAuthor, BkSettled, BkOnward
  <2>3. CASE j = k
    <3>1. x # BkNoRow => x.by[1] = e /\ (x.born[1] = e \/ (rows[k] # BkNoRow /\ x.born = rows[k].born))
      BY <2>1, <2>3 DEF BkNewer
    <3>2. CASE e \in Judge
      <4>1. rows'[k] = x /\ committed'[k] = committed[k] /\ held'[k] = e
        BY <2>1, <2>3, <3>2 DEF BkStores
      <4>2. BkAuthor(x, e)
        BY <1>4, <1>6, <2>1, <2>3, <3>1 DEF BkAuthor
      <4> QED BY <1>1, <1>3, <1>4, <1>6, <4>1, <4>2 DEF BkAuthor, BkSettled, BkOnward
    <3>3. CASE e \notin Judge
      <4>1. rows'[k] = x /\ committed'[k] = x /\ held'[k] = held[k]
        BY <2>1, <2>3, <3>3 DEF BkStores
      <4>2. held[k] = Nothing
        BY <2>1, <2>3, <3>3, BkConstants
      <4>3. BkAuthor(x, Nothing)
        BY <1>4, <1>6, <3>1, <3>3, <4>2 DEF BkAuthor, BkSettled
      <4> QED BY <1>1, <1>3, <1>4, <1>6, <4>1, <4>2, <4>3 DEF BkAuthor, BkSettled, BkOnward
    <3> QED BY <3>2, <3>3
  <2> QED BY <2>2, <2>3
<1>12. CASE BkTouches(e)
  BY <1>7, <1>12 DEF BkTouches
<1>13. CASE BkCounts(e)
  BY <1>7, <1>13 DEF BkCounts
<1>14. CASE BkReturns(e)
  BY <1>7, <1>14 DEF BkReturns
<1>15. CASE BkMoves(e)
  BY <1>7, <1>15 DEF BkMoves
<1>16. CASE BkCommits(e)
  <2>1. /\ rows'[k] = rows[k]
        /\ IF held[k] = e THEN committed'[k] = rows[k] /\ held'[k] = Nothing
                          ELSE committed'[k] = committed[k] /\ held'[k] = held[k]
        /\ BkStands(e)'
    BY <1>16 DEF BkCommits, BkStands
  <2>2. held[k] = e => BkAuthor(rows[k], Nothing)'
    BY <1>1, <1>3, <1>4, <1>6, <2>1 DEF BkAuthor, BkSettled, BkOnward
  <2> QED BY <1>1, <1>3, <1>4, <1>6, <2>1, <2>2 DEF BkAuthor, BkSettled, BkOnward
<1>17. CASE BkRollsBack(e)
  <2>1. /\ committed'[k] = committed[k]
        /\ IF held[k] = e THEN rows'[k] = committed[k] /\ held'[k] = Nothing
                          ELSE rows'[k] = rows[k] /\ held'[k] = held[k]
    BY <1>17 DEF BkRollsBack
  <2> QED BY <1>1, <1>3, <1>4, <1>6, <2>1 DEF BkAuthor, BkSettled, BkOnward
<1>18. CASE BkTells(e)
  BY <1>7, <1>18 DEF BkTells
<1> QED BY <1>8, <1>9, <1>10, <1>11, <1>12, <1>13, <1>14, <1>15, <1>16, <1>17, <1>18, Zenon DEF BkActs

-----------------------------------------------------------------------------
(* The versions of the rows, and what the executions know of them. *)

LEMMA BkFreshKept ==
  ASSUME BkTypes, BkTypes', BkOnward, NEW r \in BkRows, BkFresh(r)
  PROVE  BkFresh(r)'
<1>1. r # BkNoRow => r.born[1] \in Execution /\ r.born[2] \in Nat
  BY BkMarked
<1>2. \A d \in Execution : BkNext(d) \in Nat /\ (BkNext(d))' \in Nat
  BY DEF BkTypes, BkWork, BkNext
<1>3. CASE r # BkNoRow /\ stage'[r.born[1]] \in BkActive
  <2>1. PICK d \in Execution : d = r.born[1]
    BY <1>1, <1>3
  <2>2. stage[d] \in BkActive /\ BkNext(d) <= (BkNext(d))'
    BY <1>3, <2>1 DEF BkOnward
  <2>3. r.born[2] < BkNext(d)
    BY <1>3, <2>1, <2>2 DEF BkFresh
  <2>4. r.born[2] < (BkNext(d))'
    BY <1>1, <1>2, <1>3, <2>2, <2>3
  <2> QED BY <2>1, <2>4 DEF BkFresh
<1> QED BY <1>3 DEF BkFresh

\* The rows are as they were; perhaps e has locked one.
BkSame(e) ==
  /\ UNCHANGED <<rows, committed>>
  /\ \A k \in Key : held'[k] = held[k] \/ (held[k] \in {Nothing, e} /\ held'[k] = e)

\* What another execution has seen is still no younger than what it sees.
BkOthers(e) ==
  \A d \in Execution \ {e} : stage'[d] \in BkLive =>
    /\ stage'[d] = stage[d] /\ work'[d] = work[d]
    /\ \A k \in Key : BkOlder(work[d].seen, BkRowOf(d, k))
                        => BkOlder(work[d].seen, (BkRowOf(d, k))')

LEMMA BkSameRows ==
  ASSUME BkTypes, BkTypes', BkLocks, BkOnward, NEW e \in Execution, BkSame(e),
         BkNumbered, BkInserted
  PROVE  /\ BkNumbered' /\ BkInserted'
         /\ \A d \in Execution, k \in Key : (BkRowOf(d, k))' = BkRowOf(d, k)
<1>1. \A k \in Key : rows[k] \in BkRows /\ committed[k] \in BkRows
  BY DEF BkTypes
<1>2. \A k \in Key : (BkFresh(rows[k]))' /\ (BkFresh(committed[k]))'
  <2>1. \A r \in BkRows : BkFresh(r) => (BkFresh(r))'
    BY BkFreshKept
  <2> QED BY <1>1, <2>1 DEF BkNumbered, BkSame, BkFresh
<1>3. BkNumbered'
  BY <1>2 DEF BkNumbered, BkSame
<1>4. BkInserted'
  BY DEF BkInserted, BkSame, BkLocks, BkOlder
<1>5. \A d \in Execution, k \in Key : (BkRowOf(d, k))' = BkRowOf(d, k)
  BY BkConstants DEF BkRowOf, BkSame, BkLocks
<1> QED BY <1>3, <1>4, <1>5

LEMMA BkOthersKnow ==
  ASSUME BkTypes, BkTypes', BkOnward, NEW e \in Execution, BkOthers(e),
         NEW d \in Execution \ {e}, BkKnows(d)
  PROVE  BkKnows(d)'
<1>1. SUFFICES ASSUME stage'[d] \in BkLive PROVE BkKnows(d)'
  BY DEF BkKnows
<1>2. stage'[d] = stage[d] /\ work'[d] = work[d]
  BY <1>1 DEF BkOthers
<1>3. work[d].seen \in BkRows
  BY DEF BkTypes, BkWork
<1>4. (BkFresh(work[d].seen))'
  <2>1. PICK r \in BkRows : r = work[d].seen
    BY <1>3
  <2>2. BkFresh(r)
    BY <1>1, <1>2, <2>1 DEF BkKnows
  <2>3. BkFresh(r)'
    BY <2>2, BkFreshKept
  <2> QED BY <1>2, <2>1, <2>3 DEF BkFresh
<1>5. work[d].seen # BkNoRow
        => work[d].seen.born[1] = d \/ (BkSettled(work[d].seen.born[1]))'
  <2>1. work[d].seen # BkNoRow => work[d].seen.born[1] \in Execution
    BY <1>3, BkMarked
  <2> QED BY <1>1, <1>2, <2>1 DEF BkKnows, BkSettled, BkOnward
<1>6. \A k \in Key : work[d].key = k => BkOlder(work[d].seen, (BkRowOf(d, k))')
  BY <1>1, <1>2 DEF BkKnows, BkOthers
<1>7. (BkSettled(work[d].seen.born[1]))' <=> (work[d].seen.born[1] \in Judge => stage'[work[d].seen.born[1]] \in {"tell", "done"})
  BY <1>2 DEF BkSettled, BkStands
<1> QED BY <1>1, <1>2, <1>4, <1>5, <1>6, <1>7 DEF BkKnows, BkSettled, BkStands

\* What an execution has seen is no younger than what it sees, if it has just seen it.
LEMMA BkKnowsNow ==
  ASSUME BkTypes, BkTypes', BkWritten', NEW e \in Execution, NEW k \in Key,
         work'[e].key = k,
         work'[e].seen = BkNoRow \/ work'[e].seen = (BkRowOf(e, k))',
         work'[e].seen # BkNoRow => (BkFresh(rows[k]))' /\ (BkFresh(committed[k]))'
  PROVE  BkKnows(e)'
<1>1. /\ rows'[k] \in BkRows /\ committed'[k] \in BkRows
      /\ \A d \in Judge : d # Nothing
  BY BkConstants DEF BkTypes
<1>2. PICK s \in BkRows : s = work'[e].seen
  BY DEF BkTypes, BkWork
<1>3. CASE s = BkNoRow
  BY <1>2, <1>3 DEF BkKnows, BkFresh, BkOlder
<1>4. CASE s # BkNoRow
  <2>1. s = IF held'[k] = e THEN rows'[k] ELSE committed'[k]
    BY <1>2, <1>4 DEF BkRowOf
  <2>2. (BkFresh(s))'
    BY <1>2, <1>4, <2>1 DEF BkFresh
  <2>3. s.born[1] = e \/ (BkSettled(s.born[1]))'
    BY <1>1, <1>4, <2>1 DEF BkWritten, BkSettled
  <2>4. s.version \in Nat
    BY <1>4, BkMarked
  <2>5. \A j \in Key : work'[e].key = j => BkOlder(s, (BkRowOf(e, j))')
    BY <1>2, <1>4, <2>4 DEF BkOlder
  <2> QED BY <1>2, <2>2, <2>3, <2>5 DEF BkKnows, BkFresh, BkSettled, BkStands
<1> QED BY <1>3, <1>4

\* Steps that write no entry.
LEMMA BkQuiet ==
  ASSUME BkTypes, BkTypes', BkLocks, BkWritten', BkUnderWay, BkVersions, BkOnward,
         NEW e \in Execution,
         BkErrs(e) \/ BkWaits(e) \/ BkReads(e) \/ BkTouches(e) \/ BkCounts(e) \/ BkReturns(e)
           \/ BkMoves(e) \/ BkTells(e)
  PROVE  BkVersions'
<1> USE DEF BkTypes, BkGo
<1>1. BkSame(e)
  BY DEF BkSame, BkErrs, BkWaits, BkReads, BkTouches, BkCounts, BkReturns, BkMoves, BkTells
<1>2. \A d \in Execution \ {e} : stage'[d] = stage[d] /\ work'[d] = work[d]
  BY DEF BkErrs, BkWaits, BkReads, BkTouches, BkCounts, BkReturns, BkMoves, BkTells
<1> USE DEF BkVersions
<1>3. /\ BkNumbered' /\ BkInserted'
      /\ \A d \in Execution, k \in Key : (BkRowOf(d, k))' = BkRowOf(d, k)
  BY <1>1, BkSameRows
<1>4. \A d \in Execution \ {e} : (BkKnows(d))'
  <2>1. BkOthers(e)
    BY <1>2, <1>3 DEF BkOthers
  <2> QED BY <2>1, BkOthersKnow
<1>5. (BkKnows(e))'
  <2>1. SUFFICES ASSUME stage'[e] \in BkLive PROVE BkKnows(e)'
    BY DEF BkKnows
  <2>2. CASE work'[e].seen = BkNoRow
    BY <2>2 DEF BkKnows, BkFresh, BkOlder
  <2>3. CASE stage[e] \in BkLive /\ work'[e].seen = work[e].seen /\ work'[e].key = work[e].key
    <3>1. PICK s \in BkRows : s = work[e].seen
      BY DEF BkWork
    <3>2. BkFresh(s)
      BY <2>3, <3>1 DEF BkKnows
    <3>3. BkFresh(s)'
      BY <3>2, BkFreshKept
    <3>4. s # BkNoRow => s.born[1] \in Execution
      BY BkMarked
    <3>5. s # BkNoRow => s.born[1] = e \/ (BkSettled(s.born[1]))'
      BY <2>3, <3>1, <3>4 DEF BkKnows, BkSettled, BkOnward
    <3>6. \A k \in Key : work[e].key = k => BkOlder(s, (BkRowOf(e, k))')
      BY <1>3, <2>3, <3>1 DEF BkKnows
    <3> QED BY <2>3, <3>1, <3>3, <3>5, <3>6 DEF BkKnows, BkFresh, BkSettled, BkStands
  <2>4. CASE BkReads(e)
    <3>1. PICK k \in Key : /\ work'[e].key = k
                           /\ work'[e].seen = BkNoRow \/ work'[e].seen = BkRowOf(e, k)
      BY <2>4 DEF BkReads
    <3>2. (BkFresh(rows[k]))' /\ (BkFresh(committed[k]))'
      BY <1>3 DEF BkNumbered
    <3> QED BY <1>3, <3>1, <3>2, BkKnowsNow
  <2>5. CASE BkErrs(e) \/ BkWaits(e) \/ BkTouches(e) \/ BkCounts(e)
    BY <2>2, <2>3, <2>5 DEF BkErrs, BkWaits, BkTouches, BkCounts, BkLive
  <2>6. CASE BkReturns(e) \/ BkTells(e) \/ BkMoves(e)
    BY <2>1, <2>2, <2>6 DEF BkReturns, BkTells, BkMoves, BkUnderWay, BkLive
  <2> QED BY <2>4, <2>5, <2>6
<1> QED BY <1>3, <1>4, <1>5

\* A version that is written is the entry's youngest.
LEMMA BkWriteKeeps ==
  ASSUME BkTypes, BkTypes', BkLocks, BkWritten, BkWritten', BkVersions, BkOnward,
         NEW e \in Execution, BkWrites(e)
  PROVE  BkVersions'
<1>1. PICK j \in Key, x \in BkRows :
        /\ stage[e] \in {"run", "waiting"} /\ stage'[e] = "run"
        /\ work'[e].calls = BkNext(e) /\ work'[e].key = j /\ work'[e].seen = x
        /\ held[j] \in {Nothing, e} /\ BkNewer(e, rows[j], x) /\ BkStores(e, j, x)
        /\ \A d \in Execution \ {e} : stage'[d] = stage[d] /\ work'[d] = work[d]
  BY DEF BkWrites, BkGo, BkTypes
<1>2. /\ \A k \in Key \ {j} : rows'[k] = rows[k] /\ committed'[k] = committed[k] /\ held'[k] = held[k]
      /\ rows'[j] = x
      /\ e \in Judge => held'[j] = e /\ committed'[j] = committed[j]
      /\ e \notin Judge => held[j] = Nothing /\ held'[j] = held[j] /\ committed'[j] = x
  BY <1>1, BkConstants DEF BkStores, BkTypes
<1>3. /\ \A k \in Key : rows[k] \in BkRows /\ committed[k] \in BkRows
      /\ held[j] = Nothing => rows[j] = committed[j]
  BY DEF BkTypes, BkLocks
<1>4. BkNext(e) \in Nat /\ (BkNext(e))' = BkNext(e) + 1
  BY <1>1 DEF BkNext, BkTypes, BkWork
<1>5. \A r \in BkRows : BkFresh(r) => (BkFresh(r))'
  BY BkFreshKept
<1>6. x # BkNoRow => /\ x.born = <<e, BkNext(e)>> /\ rows[j] = BkNoRow
                     \/ /\ rows[j] # BkNoRow /\ x.born = rows[j].born
                        /\ x.version = rows[j].version + 1
  BY <1>1 DEF BkNewer
<1>7. (BkFresh(x))'
  <2>1. CASE x.born = <<e, BkNext(e)>>
    <3>1. x.born[1] = e /\ x.born[2] = BkNext(e)
      BY <2>1
    <3> QED BY <1>4, <3>1 DEF BkFresh
  <2>2. CASE rows[j] # BkNoRow /\ x.born = rows[j].born
    <3>1. (BkFresh(rows[j]))
      BY DEF BkVersions, BkNumbered
    <3>2. PICK r \in BkRows : r = rows[j]
      BY <1>3
    <3>3. BkFresh(r)'
      BY <1>5, <3>1, <3>2
    <3> QED BY <2>2, <3>2, <3>3 DEF BkFresh
  <2> QED BY <1>6, <2>1, <2>2 DEF BkFresh
\* Nobody has seen the version before.
<1>8. ASSUME NEW s \in BkRows, BkFresh(s), BkOlder(s, rows[j]) PROVE BkOlder(s, x)
  <2>1. CASE x # BkNoRow /\ x.born = <<e, BkNext(e)>>
    <3>1. x.born[1] = e /\ x.born[2] = BkNext(e)
      BY <2>1
    <3>2. s # BkNoRow /\ s.born = x.born => BkNext(e) < BkNext(e)
      BY <1>1, <1>8, <3>1 DEF BkFresh, BkActive
    <3> QED BY <1>4, <3>2 DEF BkOlder
  <2>2. CASE x # BkNoRow /\ rows[j] # BkNoRow /\ x.born = rows[j].born
             /\ x.version = rows[j].version + 1
    <3>1. rows[j].version \in Nat
      BY <1>3, <2>2, BkMarked
    <3>2. s # BkNoRow => s.version \in Nat
      BY BkMarked
    <3> QED BY <1>8, <2>2, <3>1, <3>2 DEF BkOlder
  <2>3. CASE x = BkNoRow
    BY <2>3 DEF BkOlder
  <2> QED BY <1>6, <2>1, <2>2, <2>3
<1>9. BkNumbered'
  <2>1. SUFFICES ASSUME NEW k \in Key
                 PROVE  (BkFresh(rows[k]))' /\ (BkFresh(committed[k]))' /\ BkOlder(committed'[k], rows'[k])
    BY DEF BkNumbered
  <2>2. BkFresh(rows[k]) /\ BkFresh(committed[k]) /\ BkOlder(committed[k], rows[k])
    BY DEF BkVersions, BkNumbered
  <2>3. PICK r \in BkRows, c \in BkRows : r = rows[k] /\ c = committed[k]
    BY <1>3
  <2>4. (BkFresh(r))' /\ (BkFresh(c))'
    BY <1>5, <2>2, <2>3
  <2>5. CASE k # j
    BY <1>2, <2>2, <2>3, <2>4, <2>5 DEF BkFresh
  <2>6. CASE k = j
    <3>1. BkOlder(c, x)
      BY <1>8, <2>2, <2>3, <2>6
    <3>2. BkOlder(x, x)
      <4>1. x # BkNoRow => x.version \in Nat
        BY BkMarked
      <4> QED BY <4>1 DEF BkOlder
    <3> QED BY <1>2, <1>7, <2>3, <2>4, <2>6, <3>1, <3>2 DEF BkFresh
  <2> QED BY <2>5, <2>6
<1>10. BkInserted'
  <2>1. SUFFICES ASSUME NEW k \in Key, held'[k] # Nothing, rows'[k] # BkNoRow
                 PROVE  \/ rows'[k].born[1] = held'[k]
                        \/ committed'[k] # BkNoRow /\ rows'[k].born = committed'[k].born
    BY DEF BkInserted
  <2>2. CASE k # j
    BY <1>2, <2>1, <2>2 DEF BkVersions, BkInserted
  <2>3. CASE k = j
    <3>1. e \in Judge /\ rows'[k] = x /\ held'[k] = e /\ committed'[k] = committed[k]
      BY <1>2, <2>1, <2>3
    <3>2. CASE x.born = <<e, BkNext(e)>>
      BY <3>1, <3>2
    <3>3. CASE rows[j] # BkNoRow /\ x.born = rows[j].born
      BY <1>1, <1>3, <2>3, <3>1, <3>3 DEF BkVersions, BkInserted
    <3> QED BY <1>6, <2>1, <3>1, <3>2, <3>3
  <2> QED BY <2>2, <2>3
<1>11. ASSUME NEW d \in Execution \ {e} PROVE (BkKnows(d))'
  <2>1. CASE stage'[d] \notin BkLive
    BY <2>1 DEF BkKnows
  <2>2. CASE stage'[d] \in BkLive
    <3>1. stage[d] \in BkLive /\ BkKnows(d) /\ d # e /\ d # Nothing
      BY <1>1, <2>2, BkConstants DEF BkVersions
    <3>2. PICK s \in BkRows : s = work[d].seen
      BY DEF BkTypes, BkWork
    <3>3. BkFresh(s) /\ \A k \in Key : work[d].key = k => BkOlder(s, BkRowOf(d, k))
      BY <3>1, <3>2 DEF BkKnows
    <3>4. ASSUME NEW k \in Key, BkOlder(s, BkRowOf(d, k)) PROVE BkOlder(s, (BkRowOf(d, k))')
      <4>1. CASE k # j
        BY <1>2, <3>4, <4>1 DEF BkRowOf
      <4>2. CASE k = j
        <5>1. BkRowOf(d, k) = committed[j] /\ (BkRowOf(d, k))' = committed'[j]
          BY <1>1, <1>2, <3>1, <4>2 DEF BkRowOf
        <5>2. CASE e \in Judge
          BY <1>2, <3>4, <5>1, <5>2
        <5>3. CASE e \notin Judge
          BY <1>2, <1>3, <1>8, <3>3, <3>4, <5>1, <5>3
        <5> QED BY <5>2, <5>3
      <4> QED BY <4>1, <4>2
    <3>5. /\ stage'[d] = stage[d] /\ work'[d] = work[d]
          /\ work[d].seen = s
      BY <1>1, <3>2
    <3>6. (BkFresh(s))'
      BY <1>5, <3>3
    <3>7. s # BkNoRow => s.born[1] = d \/ (BkSettled(s.born[1]))'
      <4>1. s # BkNoRow => s.born[1] \in Execution
        BY BkMarked
      <4> QED BY <3>1, <3>2, <4>1 DEF BkKnows, BkSettled, BkOnward
    <3>8. \A k \in Key : work[d].key = k => BkOlder(s, (BkRowOf(d, k))')
      BY <3>3, <3>4
    <3> QED BY <3>5, <3>6, <3>7, <3>8 DEF BkKnows, BkFresh, BkSettled, BkStands
  <2> QED BY <2>1, <2>2
<1>12. (BkKnows(e))'
  <2>1. x = (BkRowOf(e, j))'
    BY <1>1, <1>2, BkConstants DEF BkRowOf
  <2>2. (BkFresh(rows[j]))' /\ (BkFresh(committed[j]))'
    BY <1>9 DEF BkNumbered
  <2> QED BY <1>1, <2>1, <2>2, BkKnowsNow
<1> QED BY <1>9, <1>10, <1>11, <1>12 DEF BkVersions

\* What a transaction commits, others have not seen, or have seen no more than was there.
LEMMA BkCommitKeeps ==
  ASSUME BkTypes, BkTypes', BkLocks, BkVersions, BkOnward, NEW e \in Execution, BkCommits(e)
  PROVE  BkVersions'
<1>1. /\ stage[e] = "commit" /\ stage'[e] = "tell" /\ rows' = rows /\ work' = work
      /\ \A d \in Execution \ {e} : stage'[d] = stage[d]
      /\ \A k \in Key : IF held[k] = e THEN committed'[k] = rows[k] /\ held'[k] = Nothing
                        ELSE committed'[k] = committed[k] /\ held'[k] = held[k]
  BY DEF BkCommits, BkTypes
<1>2. \A k \in Key : rows[k] \in BkRows /\ committed[k] \in BkRows
  BY DEF BkTypes
<1>3. \A r \in BkRows : BkFresh(r) => (BkFresh(r))'
  BY BkFreshKept
<1>4. \A r \in BkRows : BkOlder(r, r) /\ (r # BkNoRow => r.version \in Nat)
  BY BkMarked DEF BkOlder
<1>5. BkNumbered'
  <2>1. \A k \in Key : (committed'[k] = rows[k] \/ committed'[k] = committed[k])
    BY <1>1
  <2>2. \A k \in Key : BkOlder(committed'[k], rows'[k])
    BY <1>1, <1>2, <1>4, <2>1 DEF BkVersions, BkNumbered
  <2>3. ASSUME NEW k \in Key PROVE (BkFresh(rows[k]))' /\ (BkFresh(committed[k]))'
    <3>1. PICK r \in BkRows, c \in BkRows : r = rows[k] /\ c = committed[k]
      BY <1>2
    <3>2. (BkFresh(r))' /\ (BkFresh(c))'
      BY <1>3, <3>1 DEF BkVersions, BkNumbered
    <3> QED BY <1>1, <2>1, <3>1, <3>2 DEF BkFresh
  <2> QED BY <2>2, <2>3 DEF BkNumbered
<1>6. BkInserted'
  BY <1>1 DEF BkVersions, BkInserted
<1>7. ASSUME NEW d \in Execution \ {e}, NEW k \in Key, stage'[d] \in BkLive, work[d].key = k,
             BkOlder(work[d].seen, BkRowOf(d, k))
      PROVE  BkOlder(work[d].seen, (BkRowOf(d, k))')
  <2>1. stage[d] \in BkLive /\ BkKnows(d) /\ d # e /\ d # Nothing
    BY <1>1, <1>7, BkConstants DEF BkVersions
  <2>2. CASE held[k] # e
    BY <1>1, <1>7, <2>2 DEF BkRowOf
  <2>3. CASE held[k] = e
    <3>1. BkRowOf(d, k) = committed[k] /\ (BkRowOf(d, k))' = rows[k]
      BY <1>1, <2>1, <2>3 DEF BkRowOf
    <3>2. PICK s \in BkRows : s = work[d].seen
      BY DEF BkTypes, BkWork
    <3>3. SUFFICES ASSUME s # BkNoRow, rows[k] # BkNoRow, s.born = rows[k].born
                   PROVE  BkOlder(s, rows[k])
      BY <3>1, <3>2 DEF BkOlder
    <3>4. e \in Judge /\ ~BkSettled(e)
      <4>1. e \in Judge
        BY <2>3, BkConstants DEF BkTypes
      <4> QED BY <1>1, <4>1 DEF BkSettled, BkStands
    <3>5. rows[k].born[1] # e
      BY <2>1, <3>2, <3>3, <3>4 DEF BkKnows
    <3>6. committed[k] # BkNoRow /\ rows[k].born = committed[k].born
      BY <2>1, <2>3, <3>3, <3>5, BkConstants DEF BkVersions, BkInserted
    <3>7. BkOlder(s, committed[k]) /\ BkOlder(committed[k], rows[k])
      BY <1>7, <3>1, <3>2 DEF BkVersions, BkNumbered
    <3>8. s.version \in Nat /\ rows[k].version \in Nat /\ committed[k].version \in Nat
      BY <1>2, <1>4, <3>3, <3>6
    <3> QED BY <3>3, <3>6, <3>7, <3>8 DEF BkOlder
  <2> QED BY <2>2, <2>3
<1>8. ASSUME NEW d \in Execution \ {e} PROVE (BkKnows(d))'
  <2>1. SUFFICES ASSUME stage'[d] \in BkLive PROVE BkKnows(d)'
    BY DEF BkKnows
  <2>2. stage[d] \in BkLive /\ BkKnows(d)
    BY <1>1, <2>1 DEF BkVersions
  <2>3. PICK s \in BkRows : s = work[d].seen
    BY DEF BkTypes, BkWork
  <2>4. (BkFresh(s))'
    BY <1>3, <2>2, <2>3 DEF BkKnows
  <2>5. s # BkNoRow => s.born[1] = d \/ (BkSettled(s.born[1]))'
    <3>1. s # BkNoRow => s.born[1] \in Execution
      BY BkMarked
    <3> QED BY <2>2, <2>3, <3>1 DEF BkKnows, BkSettled, BkOnward
  <2>6. \A k \in Key : work[d].key = k => BkOlder(s, (BkRowOf(d, k))')
    BY <1>7, <2>1, <2>2, <2>3 DEF BkKnows
  <2> QED BY <1>1, <2>3, <2>4, <2>5, <2>6 DEF BkKnows, BkFresh, BkSettled, BkStands
<1>9. (BkKnows(e))'
  BY <1>1 DEF BkKnows, BkLive
<1> QED BY <1>5, <1>6, <1>8, <1>9 DEF BkVersions

LEMMA BkRollbackKeeps ==
  ASSUME BkTypes, BkTypes', BkLocks, BkVersions, BkOnward, NEW e \in Execution, BkRollsBack(e)
  PROVE  BkVersions'
<1>1. /\ stage'[e] = "failed" /\ committed' = committed /\ work' = work
      /\ \A d \in Execution \ {e} : stage'[d] = stage[d]
      /\ \A k \in Key : IF held[k] = e THEN rows'[k] = committed[k] /\ held'[k] = Nothing
                        ELSE rows'[k] = rows[k] /\ held'[k] = held[k]
  BY DEF BkRollsBack, BkTypes
<1>2. \A k \in Key : rows[k] \in BkRows /\ committed[k] \in BkRows
  BY DEF BkTypes
<1>3. \A r \in BkRows : BkFresh(r) => (BkFresh(r))'
  BY BkFreshKept
<1>4. \A r \in BkRows : BkOlder(r, r)
  BY BkMarked DEF BkOlder
<1>5. BkNumbered'
  <2>1. \A k \in Key : BkOlder(committed'[k], rows'[k])
    BY <1>1, <1>2, <1>4 DEF BkVersions, BkNumbered
  <2>2. ASSUME NEW k \in Key PROVE (BkFresh(rows[k]))' /\ (BkFresh(committed[k]))'
    <3>1. PICK r \in BkRows, c \in BkRows : r = rows[k] /\ c = committed[k]
      BY <1>2
    <3>2. (BkFresh(r))' /\ (BkFresh(c))'
      BY <1>3, <3>1 DEF BkVersions, BkNumbered
    <3> QED BY <1>1, <3>1, <3>2 DEF BkFresh
  <2> QED BY <2>1, <2>2 DEF BkNumbered
<1>6. BkInserted'
  BY <1>1 DEF BkVersions, BkInserted
<1>7. BkOthers(e)
  BY <1>1, BkConstants DEF BkOthers, BkRowOf
<1>8. \A d \in Execution \ {e} : (BkKnows(d))'
  BY <1>7, BkOthersKnow DEF BkVersions
<1>9. (BkKnows(e))'
  BY <1>1 DEF BkKnows, BkLive
<1> QED BY <1>5, <1>6, <1>8, <1>9 DEF BkVersions

-----------------------------------------------------------------------------
(* The invariant. *)

LEMMA BkStepKeeps ==
  ASSUME BkInv, NEW e \in Execution, BkActs(e)
  PROVE  BkInv'
<1>1. BkTypes /\ BkLocks /\ BkWritten /\ BkUnderWay /\ BkVersions
  BY DEF BkInv, BkAtomic
<1>2. BkTypes' /\ BkLocks' /\ BkWritten' /\ BkUnderWay' /\ BkOnward
  BY <1>1, BkKeepsTypes, BkKeepsLocks, BkKeepsWritten, BkKeepsUnderWay, BkGoesOn, Zenon
<1>3. BkVersions'
  <2>1. CASE BkWrites(e)
    BY <1>1, <1>2, <2>1, BkWriteKeeps
  <2>2. CASE BkCommits(e)
    BY <1>1, <1>2, <2>2, BkCommitKeeps
  <2>3. CASE BkRollsBack(e)
    BY <1>1, <1>2, <2>3, BkRollbackKeeps
  <2>4. CASE ~BkWrites(e) /\ ~BkCommits(e) /\ ~BkRollsBack(e)
    <3>1. BkErrs(e) \/ BkWaits(e) \/ BkReads(e) \/ BkTouches(e) \/ BkCounts(e) \/ BkReturns(e)
           \/ BkMoves(e) \/ BkTells(e)
      BY <2>4, Zenon DEF BkActs
    <3> QED BY <1>1, <1>2, <3>1, BkQuiet
  <2> QED BY <2>1, <2>2, <2>3, <2>4, Zenon
<1> QED BY <1>2, <1>3, Zenon DEF BkInv, BkAtomic

LEMMA BkClearKeeps ==
  ASSUME BkInv, BkClears
  PROVE  BkInv'
<1>1. BkTypes /\ BkLocks /\ BkWritten /\ BkUnderWay /\ BkVersions
  BY DEF BkInv, BkAtomic
<1>2. /\ UNCHANGED <<now, held, docs, stage, work, heard>>
      /\ \A k \in Key : /\ committed'[k] = BkNoRow /\ (held[k] = Nothing \/ committed[k] = BkNoRow)
                        /\ rows'[k] = IF held[k] = Nothing THEN BkNoRow ELSE rows[k]
  BY DEF BkClears
<1>3. BkTypes'
  BY <1>1 DEF BkTypes, BkClears, BkRows
<1>4. BkLocks'
  BY <1>1, <1>2 DEF BkLocks
<1>5. BkWritten'
  BY <1>1, <1>2 DEF BkWritten, BkSettled, BkStands
<1>6. BkUnderWay'
  BY <1>1, <1>2 DEF BkUnderWay
<1>7. BkNumbered'
  BY <1>1, <1>2 DEF BkVersions, BkNumbered, BkFresh, BkNext, BkOlder
<1>8. BkInserted'
  BY <1>1, <1>2 DEF BkVersions, BkInserted
<1>9. ASSUME NEW d \in Execution PROVE (BkKnows(d))'
  <2>1. BkKnows(d)
    BY <1>1 DEF BkVersions
  <2>2. ASSUME NEW k \in Key, BkOlder(work[d].seen, BkRowOf(d, k))
        PROVE  BkOlder(work[d].seen, (BkRowOf(d, k))')
    BY <1>2, <2>2, BkConstants DEF BkRowOf, BkOlder
  <2> QED BY <1>2, <2>1, <2>2 DEF BkKnows, BkFresh, BkNext, BkSettled, BkStands
<1> QED BY <1>3, <1>4, <1>5, <1>6, <1>7, <1>8, <1>9 DEF BkInv, BkAtomic, BkVersions

LEMMA BkUnchanged ==
  ASSUME BkInv, UNCHANGED <<rows, committed, held, docs, stage, work, heard>>, now' \in 1..MaxNow
  PROVE  BkInv'
<1>1. BkTypes /\ BkLocks /\ BkWritten /\ BkUnderWay /\ BkVersions
  BY DEF BkInv, BkAtomic
<1>2. BkTypes'
  BY <1>1 DEF BkTypes
<1>3. BkLocks' /\ BkWritten'
  BY <1>1 DEF BkLocks, BkWritten, BkSettled, BkStands
<1>4. BkUnderWay'
  BY <1>1 DEF BkUnderWay
<1>5. BkNumbered' /\ BkInserted'
  BY <1>1 DEF BkVersions, BkNumbered, BkInserted, BkFresh, BkNext, BkOlder
<1>6. \A d \in Execution : (BkKnows(d))'
  <2>1. SUFFICES ASSUME NEW d \in Execution PROVE (BkKnows(d))'
    OBVIOUS
  <2>2. BkKnows(d) /\ \A k \in Key : (BkRowOf(d, k))' = BkRowOf(d, k)
    BY <1>1 DEF BkVersions, BkRowOf
  <2> QED BY <2>2 DEF BkKnows, BkFresh, BkNext, BkSettled, BkStands
<1> QED BY <1>2, <1>3, <1>4, <1>5, <1>6 DEF BkInv, BkAtomic, BkVersions

LEMMA BkBegins == Backend!Init => BkInv
<1>1. ASSUME Backend!Init PROVE BkInv
  <2>1. Backend!NoRow = BkNoRow
    BY DEF Backend!NoRow, BkNoRow, Backend!Never
  <2>2. PICK w : w = Backend!Local
    BY Zenon
  <2>3. w \in BkWork /\ w.seen = BkNoRow
    BY <2>1, <2>2 DEF Backend!Local, Backend!NoCall, BkNoCall, BkWork, BkRows
  <2>4. /\ now = 1 /\ rows = [k \in Key |-> BkNoRow] /\ committed = rows
        /\ held = [k \in Key |-> Nothing] /\ docs = {}
        /\ stage = [e \in Execution |-> "idle"] /\ work = [e \in Execution |-> w] /\ heard = {}
    BY <1>1, <2>1, <2>2, Zenon DEF Backend!Init
  <2>5. BkTypes
    BY <2>3, <2>4, BkConstants DEF BkTypes, BkStage, BkRows
  <2>6. BkAtomic
    BY <2>3, <2>4, <2>5 DEF BkAtomic, BkLocks, BkWritten, BkUnderWay
  <2>7. BkVersions
    BY <2>3, <2>4 DEF BkVersions, BkNumbered, BkInserted, BkKnows, BkFresh, BkOlder, BkLive
  <2> QED BY <2>6, <2>7 DEF BkInv
<1> QED BY <1>1, Zenon

LEMMA BkStays ==
  ASSUME BkInv, [Backend!Next]_(Backend!vars)
  PROVE  BkInv'
<1>1. BkTypes /\ BkLocks /\ BkUnderWay
  BY DEF BkInv, BkAtomic
<1>2. \/ BkTicks \/ BkClears \/ \E e \in Execution : BkActs(e)
      \/ UNCHANGED <<now, rows, committed, held, docs, stage, work, heard>>
  BY <1>1, BkKinds, Zenon DEF Backend!Next, Backend!vars, Backend!entries
<1>3. ASSUME BkTicks PROVE BkInv'
  <2>1. now' \in 1..MaxNow
    BY <1>1, <1>3, BkConstants DEF BkTicks, BkTypes
  <2> QED BY <1>3, <2>1, BkUnchanged DEF BkTicks
<1>4. ASSUME UNCHANGED <<now, rows, committed, held, docs, stage, work, heard>> PROVE BkInv'
  <2>1. now' \in 1..MaxNow
    BY <1>1, <1>4 DEF BkTypes
  <2> QED BY <1>4, <2>1, BkUnchanged
<1> QED BY <1>2, <1>3, <1>4, BkClearKeeps, BkStepKeeps, Zenon

LEMMA BkInvariant == Backend!Spec => []BkInv
<1>1. BkInv /\ [Backend!Next]_(Backend!vars) => BkInv'
  BY BkStays
<1> QED BY BkBegins, <1>1, PTL DEF Backend!Spec

LEMMA BkAreSound == BkInv => BackendSound
<1>1. ASSUME BkInv PROVE BackendSound
  <2>1. /\ BkTypes /\ BkLocks /\ BkWritten
        /\ \A e \in Judge : e # Nothing
    BY <1>1, BkConstants DEF BkInv, BkAtomic
  <2>2. /\ stage \in [Execution -> {"idle", "lookup", "run", "waiting", "reread", "log", "commit",
                                    "rollback", "tell", "done", "failed"}]
        /\ now \in 1..MaxNow /\ held \in [Key -> Judge \cup {Nothing}] /\ heard \subseteq Execution
        /\ \A k \in Key : held[k] = Nothing => rows[k] = committed[k]
    BY <2>1 DEF BkTypes, BkStage, BkLocks
  <2>3. /\ heard \subseteq {e \in Execution : stage[e] = "done"}
        /\ \A e \in docs \cap Judge : stage[e] # "failed"
    BY <2>1 DEF BkTypes, BkLocks
  <2>4. \A k \in Key, e \in Judge :
          /\ committed[k].by # Nothing /\ committed[k].by[1] = e => stage[e] \in {"tell", "done"}
          /\ rows[k].by # Nothing /\ rows[k].by[1] = e => stage[e] \in {"tell", "done"} \/ held[k] = e
          /\ held[k] = e => stage[e] \notin {"done", "failed"} /\ stage[e] \notin {"tell", "done"}
    <3>1. \A k \in Key : /\ committed[k].by # Nothing => committed[k] # BkNoRow
                         /\ rows[k].by # Nothing => rows[k] # BkNoRow
      BY DEF BkNoRow
    <3> QED BY <2>1, <3>1 DEF BkWritten, BkLocks, BkOpen, BkSettled, BkStands
  <2>5. Backend!TypeOK
    BY <2>2, Zenon DEF Backend!TypeOK
  <2>6. Backend!JudgeAtomic
    BY <2>3, <2>4, Zenon DEF Backend!JudgeAtomic, Backend!Stands, Backend!Ended
  <2> QED BY <2>5, <2>6, Zenon DEF BackendSound
<1> QED BY <1>1, Zenon

\* What a judge function writes, and the events that it collects, are seen by others when, and
\* only when, its submission is committed (execute_judge_conn, run_puzzle_backend_judge).
THEOREM JudgesAreAtomic == Backend!Spec => []BackendSound
  BY BkInvariant, BkAreSound, PTL

-----------------------------------------------------------------------------
(* Compare-and-set. *)

\* The row is at the version that was seen, in the same life of the entry.
LEMMA BkSameVersion ==
  ASSUME BkInv, NEW e \in Execution, stage[e] \in {"run", "waiting"}, NEW k \in Key,
         work[e].key = k, work[e].seen # BkNoRow, held[k] \in {Nothing, e},
         rows[k] # BkNoRow, rows[k].version = work[e].seen.version,
         rows[k].born = work[e].seen.born
  PROVE  rows[k].by = work[e].seen.by
<1>1. BkKnows(e) /\ BkLocks /\ stage[e] \in BkLive
  BY DEF BkInv, BkAtomic, BkVersions, BkLive
<1>2. BkRowOf(e, k) = rows[k]
  BY <1>1 DEF BkRowOf, BkLocks
<1>3. BkOlder(work[e].seen, rows[k])
  BY <1>1, <1>2 DEF BkKnows
<1> QED BY <1>3 DEF BkOlder

BkReplaces(e, c) ==
  Backend!CasStep(e, c) /\ rows'[c.key] # rows[c.key] /\ rows[c.key].born = work[e].seen.born

LEMMA BkCompares ==
  ASSUME BkInv, NEW e \in Execution, NEW c \in Menu[e], BkReplaces(e, c)
  PROVE  rows[c.key].by = work[e].seen.by
<1>1. BkTypes /\ BkLocks /\ BkUnderWay
  BY DEF BkInv, BkAtomic
<1>2. Backend!NoRow = BkNoRow
  BY DEF Backend!NoRow, BkNoRow, Backend!Never
<1>3. c \in BkCalls /\ c.key \in Key
  BY BkConstants DEF BkCalls
<1>4. /\ c.op = "compareAndSet" /\ rows' # rows /\ rows[c.key].born = work[e].seen.born
      /\ Backend!Issue(e, c) \/ (work[e].call = c /\ Backend!Wake(e))
  BY Zenon DEF BkReplaces, Backend!CasStep
<1>5. ASSUME NEW w, NEW r, NEW waited, Backend!Perform(e, w, r, waited), w.call = c
      PROVE  r # BkNoRow /\ r.version = work[e].seen.version
  <2>1. Backend!Applies(e, r, c, w.at)
    BY <1>4, <1>5, Zenon DEF Backend!Perform, Backend!Error, Backend!Touch, Backend!entries
  <2> QED BY <1>2, <1>4, <2>1, Zenon DEF Backend!Applies, Backend!Visible
<1>6. CASE Backend!Issue(e, c)
  <2>1. PICK w : w = [work[e] EXCEPT !.calls = @ + 1, !.call = c, !.at = now,
                           !.target = committed[c.key].born]
    OBVIOUS
  <2>2. w.call = c /\ w.at = now
    BY <1>1, <2>1 DEF BkTypes, BkWork
  <2>3. /\ stage[e] = "run" /\ work[e].key = c.key /\ work[e].seen # BkNoRow
        /\ ~Backend!Waits(e, c) /\ Backend!Perform(e, w, Backend!Row(e, c.key), FALSE)
    BY <1>2, <1>4, <1>6, <2>1, Zenon
    DEF Backend!Issue, Backend!Error, Backend!entries
  <2>4. PICK r : r = Backend!Row(e, c.key)
    BY Zenon
  <2>5. r # BkNoRow /\ r.version = work[e].seen.version
    BY <1>5, <2>2, <2>3, <2>4, Zenon
  <2>6. r = IF held[c.key] = e THEN rows[c.key] ELSE committed[c.key]
    BY <2>4, Zenon DEF Backend!Row
  <2>7. Backend!Applies(e, r, c, now)
    BY <1>4, <2>2, <2>3, <2>4, Zenon DEF Backend!Perform, Backend!Error, Backend!Touch, Backend!entries
  <2>8. held[c.key] \in {Nothing, e}
    <3>1. SUFFICES ASSUME held[c.key] \notin {Nothing, e} PROVE FALSE
      OBVIOUS
    <3>2. r = committed[c.key]
      BY <2>6, <3>1
    <3> QED BY <1>4, <2>3, <2>7, <3>1, <3>2, Zenon DEF Backend!Waits
  <2>9. r = rows[c.key]
    BY <1>1, <1>3, <2>6, <2>8 DEF BkLocks
  <2> QED BY <1>3, <1>4, <2>3, <2>5, <2>8, <2>9, BkSameVersion
<1>7. CASE work[e].call = c /\ Backend!Wake(e)
  <2>1. PICK r : r = IF c.op \in {"compareAndSet", "delete"} /\ rows[c.key].born # work[e].target
                     THEN BkNoRow ELSE rows[c.key]
    OBVIOUS
  <2>2. /\ stage[e] = "waiting" /\ held[c.key] = Nothing
        /\ Backend!Perform(e, work[e], r, TRUE)
    BY <1>2, <1>7, <2>1, Zenon DEF Backend!Wake
  <2>3. r # BkNoRow /\ r.version = work[e].seen.version
    BY <1>5, <1>7, <2>2, Zenon
  <2>4. r = rows[c.key]
    BY <2>1, <2>3
  <2>5. work[e].key = c.key /\ work[e].seen # BkNoRow
    BY <1>1, <1>4, <1>7, <2>2 DEF BkUnderWay
  <2> QED BY <1>3, <1>4, <2>2, <2>3, <2>4, <2>5, BkSameVersion
<1> QED BY <1>4, <1>6, <1>7, Zenon

\* A compare-and-set that is applied replaces the version that its caller has seen, written by
\* whom it was then, unless the entry was deleted in between (compare_and_set_kv_conn).
THEOREM CasIsCurrent == Backend!Spec => CasCurrent
<1>1. ASSUME BkInv
      PROVE  \A e \in Execution : \A c \in Menu[e] : BkReplaces(e, c) => rows[c.key].by = work[e].seen.by
  BY <1>1, BkCompares
<1>2. BkInv => \A e \in Execution : \A c \in Menu[e] :
        Backend!CasStep(e, c) /\ rows'[c.key] # rows[c.key] /\ rows[c.key].born = work[e].seen.born
          => rows[c.key].by = work[e].seen.by
  BY <1>1, Zenon DEF BkReplaces
<1> QED BY BkInvariant, <1>2, PTL DEF CasCurrent, Backend!CasCurrent

-----------------------------------------------------------------------------
(* Accounts and their sessions: Accounts, for any users, browsers and bounds. *)

AcRole    == 0..4
AcSession == Browser \X (0..MaxSession)
AcAccount == [role: AcRole \cup {Nothing}, temporary: BOOLEAN]
AcStage   == {"idle", "push", "trim", "password", "create", "update", "write", "reset", "invalidate"}
AcCalls   == [pc: AcStage, user: Person \cup {Nothing}, role: AcRole \cup {Nothing}]
AcCookie  == [user: Person \cup {Nothing}, id: 0..MaxSession]

AcTypes ==
  /\ person \in [Person -> AcAccount]
  /\ list \in [Person -> Seq(AcSession)]
  /\ cookie \in [Browser -> AcCookie]
  /\ request \in [Browser -> AcCalls]
  /\ cap \in [Person -> SessionLimits \cup {0}]
  /\ breaks \in 0..1
  /\ \A b \in Browser : request[b].pc # "idle" => request[b].user \in Person

AcRoot == \A u \in Person : person[u].role = 4 <=> u = Root

\* A list that no login is about to cut is short enough.
AcBounded == \A u \in Person :
  breaks = 0 /\ (\A b \in Browser : request[b].pc = "trim" => request[b].user # u)
    => Len(list[u]) <= cap[u]

\* What me may make of the role of u, who is held.
AcMay(me, u, r) ==
  /\ r \in AcRole /\ person[u].role \in AcRole
  /\ r # person[u].role =>
       /\ me # u /\ person[u].role # 4 /\ r # 4
       /\ me = Root \/ (person[u].role < 3 /\ r < 3)

\* The request x is one that a browser of me may have reached.
AcFits(me, x) ==
  /\ x.pc \in {"push", "trim"} => person[x.user].role # Nothing
  /\ x.pc \in {"create", "update", "reset"} => me \in Person /\ x.role \in AcRole /\ (x.role = 4 => me = Root)
  /\ x.pc = "password" => x.user = me
  /\ x.pc = "write" => AcMay(me, x.user, x.role)

AcWriting(b, u) == request[b].pc = "write" /\ request[b].user = u

\* Whoever acts has an account, and one request at a time holds it.
AcHolds ==
  /\ \A b \in Browser : AcFits(cookie[b].user, request[b])
  /\ \A b \in Browser : cookie[b].user \in Person => person[cookie[b].user].role # Nothing
  /\ \A b, c \in Browser : \A u \in Person : AcWriting(b, u) /\ AcWriting(c, u) => b = c

AcInv == AcTypes /\ AcRoot /\ AcBounded /\ AcHolds

LEMMA AcConstants ==
  /\ Root \in Person /\ Nothing \notin Person /\ Nothing \notin AcRole
  /\ SessionLimits \subseteq Nat \ {0} /\ MaxSession \in Nat
<1>1. People!ConstantAssumption
  BY PartsAssumption
<1>2. People!Role = AcRole
  BY DEF People!Role, People!RootRole, AcRole
<1> QED BY <1>1, <1>2, Zenon DEF People!ConstantAssumption

-----------------------------------------------------------------------------
(* The lists. *)

LEMMA AcLeast ==
  ASSUME NEW S, S \subseteq Nat, S # {}, NEW n, n = People!Min(S)
  PROVE  n \in S
<1>2. OpToRel(<, Nat) = {ss \in Nat \X Nat : ss[1] < ss[2]}
  BY Zenon DEF OpToRel
<1> DEFINE less == {ss \in Nat \X Nat : ss[1] < ss[2]}
<1>3. IsWellFoundedOn(less, Nat)
  BY <1>2, NatLessThanWellFounded, Zenon
<1> HIDE DEF less
<1>4. PICK m \in S : \A k \in S : ~ <<k, m>> \in less
  BY <1>3, WFMin
<1>5. ASSUME NEW k \in S PROVE m <= k
  <2>1. ~(k < m)
    <3> SUFFICES ASSUME k < m PROVE <<k, m>> \in less
      BY <1>4
    <3> QED BY DEF less
  <2> QED BY <2>1
<1> QED BY <1>5 DEF People!Min

LEMMA AcRemoves ==
  ASSUME NEW S, NEW s \in Seq(S), NEW x, NEW t, t = People!RemoveFirst(s, x)
  PROVE  t \in Seq(S) /\ Len(t) <= Len(s)
<1>1. CASE \E i \in 1..Len(s) : s[i] = x
  <2>1. PICK n : n = People!Min({i \in 1..Len(s) : s[i] = x})
    BY Zenon
  <2>2. n \in {i \in 1..Len(s) : s[i] = x}
    <3>1. {i \in 1..Len(s) : s[i] = x} \subseteq Nat /\ {i \in 1..Len(s) : s[i] = x} # {}
      BY <1>1
    <3> QED BY <2>1, <3>1, AcLeast
  <2>3. t = SubSeq(s, 1, n - 1) \o SubSeq(s, n + 1, Len(s))
    BY <1>1, <2>1, <2>2, Zenon DEF People!RemoveFirst, People!SelectInSeq, People!RemoveAt
  <2>4. PICK p, q : p = SubSeq(s, 1, n - 1) /\ q = SubSeq(s, n + 1, Len(s))
    OBVIOUS
  <2>5. p \in Seq(S) /\ Len(p) = n - 1
    BY <2>2, <2>4
  <2>6. q \in Seq(S) /\ Len(q) = Len(s) - n
    BY <2>2, <2>4
  <2>7. t \in Seq(S) /\ Len(t) = Len(p) + Len(q)
    BY <2>3, <2>4, <2>5, <2>6
  <2> QED BY <2>2, <2>5, <2>6, <2>7
<1>2. CASE ~ \E i \in 1..Len(s) : s[i] = x
  <2>1. t = s
    BY <1>2, Zenon DEF People!RemoveFirst
  <2> QED BY <2>1
<1> QED BY <1>1, <1>2

-----------------------------------------------------------------------------
(* The kinds of steps. *)

\* A request goes on to x, and is not one that is to cut a list.
AcGoes(b, x) ==
  /\ x \in AcCalls /\ x.pc # "trim" /\ (x.pc # "idle" => x.user \in Person)
  /\ AcFits(cookie[b].user, x)
  /\ x.pc = "write" => \A c \in Browser : ~AcWriting(c, x.user)
  /\ request' = [request EXCEPT ![b] = x]

AcBegins(b) == \E x \in AcCalls :
  request[b].pc # "trim" /\ AcGoes(b, x) /\ UNCHANGED <<person, list, cookie, cap, breaks>>

AcPushes(b) == \E x \in AcCalls, s \in AcSession :
  /\ request[b].pc = "push" /\ x.pc = "trim" /\ x.user = request[b].user
  /\ request' = [request EXCEPT ![b] = x]
  /\ list' = [list EXCEPT ![request[b].user] = <<s>> \o @]
  /\ UNCHANGED <<person, cookie, cap, breaks>>

AcTrims(b) == \E x \in AcCalls, l \in Seq(AcSession), y \in AcCookie, most \in SessionLimits :
  /\ request[b].pc = "trim" /\ x.pc = "idle" /\ request' = [request EXCEPT ![b] = x]
  /\ Len(l) <= most /\ cap' = [cap EXCEPT ![request[b].user] = most]
  /\ list' = [list EXCEPT ![request[b].user] = l]
  /\ y.user = request[b].user /\ cookie' = [cookie EXCEPT ![b] = y]
  /\ UNCHANGED <<person, breaks>>

\* A list becomes no longer.
AcShortens(b) == \E u \in Person, l \in Seq(AcSession) :
  /\ request[b].pc = "idle"
  /\ Len(l) <= Len(list[u]) /\ list' = [list EXCEPT ![u] = l]
  /\ cookie[b].id < MaxSession
  /\ cookie' = [cookie EXCEPT ![b] = [user |-> Nothing, id |-> cookie[b].id + 1]]
  /\ UNCHANGED <<person, request, cap, breaks>>

AcEmpties(b) == \E x \in AcCalls :
  /\ request[b].pc = "invalidate" /\ AcGoes(b, x)
  /\ list' = [list EXCEPT ![request[b].user] = <<>>]
  /\ UNCHANGED <<person, cookie, cap, breaks>>

AcDrops(b) == \E x \in AcCalls :
  /\ breaks < 1 /\ breaks' = breaks + 1 /\ AcGoes(b, x)
  /\ UNCHANGED <<person, list, cookie, cap>>

AcEntitled(me, u, a) ==
  /\ a.role # person[u].role => me # u
  /\ person[u].role \in {3, 4} \/ a.role \in {3, 4}
       => me = Root \/ (me = u /\ a = [person[u] EXCEPT !.temporary = FALSE])

\* An account becomes what b may make of it, and nobody becomes Root or ceases to be.
AcWrites(b) == \E x \in AcCalls, u \in Person, a \in AcAccount :
  /\ request[b].pc \in {"password", "create", "write", "reset"} /\ x.pc \in {"idle", "invalidate"}
  /\ AcGoes(b, x)
  /\ \A c \in Browser : AcWriting(c, u) => c = b
  /\ a.role # Nothing /\ (a.role = 4 <=> u = Root)
  /\ a # person[u] => AcEntitled(cookie[b].user, u, a)
  /\ person' = [person EXCEPT ![u] = a]
  /\ UNCHANGED <<list, cookie, cap, breaks>>

AcAppears == \E u \in Person, a \in AcAccount :
  /\ person[u].role = Nothing /\ a = [role |-> 1, temporary |-> FALSE]
  /\ person' = [person EXCEPT ![u] = a]
  /\ UNCHANGED <<list, cookie, request, cap, breaks>>

AcMoves == \/ \E b \in Browser : \/ AcBegins(b) \/ AcPushes(b) \/ AcTrims(b) \/ AcShortens(b)
                                 \/ AcEmpties(b) \/ AcDrops(b) \/ AcWrites(b)
           \/ AcAppears

LEMMA AcKeepsLists ==
  ASSUME AcInv, AcMoves
  PROVE  AcTypes' /\ AcRoot' /\ AcBounded'
<1>1. AcTypes /\ AcRoot /\ AcBounded
  BY DEF AcInv
<1>2. SessionLimits \subseteq Nat \ {0} /\ MaxSession \in Nat
  BY AcConstants
<1>3. \A u \in Person : list[u] \in Seq(AcSession) /\ Len(list[u]) \in Nat
  BY <1>1 DEF AcTypes
<1>b. ASSUME NEW u \in Person PROVE cap[u] \in Nat
  <2>1. cap[u] \in SessionLimits \/ cap[u] = 0
    BY <1>1 DEF AcTypes
  <2>2. 0 \in Nat
    OBVIOUS
  <2>3. \A n \in SessionLimits : n \in Nat
    BY <1>2
  <2> QED BY <2>1, <2>2, <2>3
<1>4. ASSUME NEW b \in Browser, AcBegins(b) PROVE AcTypes' /\ AcRoot' /\ AcBounded'
  BY <1>1, <1>4 DEF AcTypes, AcRoot, AcBounded, AcBegins, AcGoes
<1>5. ASSUME NEW b \in Browser, AcPushes(b) PROVE AcTypes' /\ AcRoot' /\ AcBounded'
  <2>1. PICK x \in AcCalls, s \in AcSession :
          /\ request[b].pc = "push" /\ x.pc = "trim" /\ x.user = request[b].user
          /\ request' = [request EXCEPT ![b] = x]
          /\ list' = [list EXCEPT ![request[b].user] = <<s>> \o list[request[b].user]]
          /\ UNCHANGED <<person, cookie, cap, breaks>>
    BY <1>5 DEF AcPushes
  <2>2. PICK u \in Person : u = request[b].user
    BY <1>1, <2>1 DEF AcTypes
  <2>a. PICK one \in Seq(AcSession) : one = <<s>>
    <3>1. <<s>> \in Seq(AcSession)
      OBVIOUS
    <3> QED BY <3>1, Zenon
  <2>b. one \o list[u] \in Seq(AcSession)
    BY <1>3, <2>a
  <2>3. PICK l \in Seq(AcSession) : l = <<s>> \o list[u]
    BY <2>a, <2>b, Zenon
  <2>4. list' = [list EXCEPT ![u] = l]
    BY <2>1, <2>2, <2>3
  <2>5. AcTypes'
    BY <1>1, <2>1, <2>2, <2>3, <2>4 DEF AcTypes
  <2>6. AcBounded'
    BY <1>1, <2>1, <2>2, <2>4 DEF AcTypes, AcBounded
  <2> QED BY <1>1, <2>1, <2>5, <2>6 DEF AcRoot
<1>6. ASSUME NEW b \in Browser, AcTrims(b) PROVE AcTypes' /\ AcRoot' /\ AcBounded'
  <2>1. PICK x \in AcCalls, l \in Seq(AcSession), y \in AcCookie, most \in SessionLimits :
          /\ request[b].pc = "trim" /\ x.pc = "idle" /\ request' = [request EXCEPT ![b] = x]
          /\ Len(l) <= most /\ cap' = [cap EXCEPT ![request[b].user] = most]
          /\ list' = [list EXCEPT ![request[b].user] = l]
          /\ y.user = request[b].user /\ cookie' = [cookie EXCEPT ![b] = y]
          /\ UNCHANGED <<person, breaks>>
    BY <1>6 DEF AcTrims
  <2>2. PICK u \in Person : u = request[b].user
    BY <1>1, <2>1 DEF AcTypes
  <2>3. AcTypes'
    BY <1>1, <2>1, <2>2 DEF AcTypes
  <2>a. \A v \in Person : /\ list'[v] = IF v = u THEN l ELSE list[v]
                          /\ cap'[v] = IF v = u THEN most ELSE cap[v]
    BY <1>1, <2>1, <2>2 DEF AcTypes
  <2>4. AcBounded'
    <3>1. \A c \in Browser : request[c].pc = "trim" => c = b \/ request'[c] = request[c]
      BY <1>1, <2>1 DEF AcTypes
    <3>2. SUFFICES ASSUME NEW v \in Person, breaks' = 0,
                          \A c \in Browser : request'[c].pc = "trim" => request'[c].user # v
                   PROVE  Len(list'[v]) <= cap'[v]
      BY DEF AcBounded
    <3>3. CASE v = u
      BY <2>1, <2>a, <3>3
    <3>4. CASE v # u
      <4>1. \A c \in Browser : request[c].pc = "trim" => request[c].user # v
        BY <2>2, <3>1, <3>2, <3>4
      <4> QED BY <1>1, <2>1, <2>a, <3>2, <3>4, <4>1 DEF AcBounded
    <3> QED BY <3>3, <3>4
  <2> QED BY <1>1, <2>1, <2>3, <2>4 DEF AcRoot
<1>7. ASSUME NEW b \in Browser, AcShortens(b) PROVE AcTypes' /\ AcRoot' /\ AcBounded'
  <2>1. PICK u \in Person, l \in Seq(AcSession) :
          /\ Len(l) <= Len(list[u]) /\ list' = [list EXCEPT ![u] = l]
          /\ cookie[b].id < MaxSession
          /\ cookie' = [cookie EXCEPT ![b] = [user |-> Nothing, id |-> cookie[b].id + 1]]
          /\ UNCHANGED <<person, request, cap, breaks>>
    BY <1>7 DEF AcShortens
  <2>2. AcTypes'
    BY <1>1, <1>2, <2>1 DEF AcTypes, AcCookie
  <2>3. Len(l) \in Nat
    OBVIOUS
  <2>4. AcBounded'
    BY <1>1, <1>b, <1>3, <2>1, <2>3 DEF AcTypes, AcBounded
  <2> QED BY <1>1, <2>1, <2>2, <2>4 DEF AcRoot
<1>8. ASSUME NEW b \in Browser, AcEmpties(b) PROVE AcTypes' /\ AcRoot' /\ AcBounded'
  <2>1. PICK u \in Person : u = request[b].user
    BY <1>1, <1>8 DEF AcTypes, AcEmpties
  <2>a. <<>> \in Seq(AcSession) /\ Len(<<>>) = 0
    OBVIOUS
  <2>2. PICK l \in Seq(AcSession) : l = <<>> /\ Len(l) = 0
    BY <2>a, Zenon
  <2>3. list' = [list EXCEPT ![u] = l]
    BY <1>8, <2>1, <2>2 DEF AcEmpties
  <2>c. PICK x \in AcCalls : /\ request[b].pc = "invalidate" /\ AcGoes(b, x)
                             /\ UNCHANGED <<person, cookie, cap, breaks>>
    BY <1>8 DEF AcEmpties
  <2>d. AcTypes'
    BY <1>1, <2>1, <2>2, <2>3, <2>c DEF AcTypes, AcGoes
  <2>e. \A v \in Person : list'[v] = IF v = u THEN l ELSE list[v]
    BY <1>1, <2>3 DEF AcTypes
  <2>f. AcBounded'
    <3>1. \A c \in Browser : request[c].pc = "trim" => request'[c] = request[c]
      BY <1>1, <2>c DEF AcTypes, AcGoes
    <3>2. SUFFICES ASSUME NEW v \in Person, breaks' = 0,
                          \A c \in Browser : request'[c].pc = "trim" => request'[c].user # v
                   PROVE  Len(list'[v]) <= cap'[v]
      BY DEF AcBounded
    <3>3. \A c \in Browser : request[c].pc = "trim" => request[c].user # v
      BY <3>1, <3>2
    <3>4. CASE v = u
      <4>1. list'[v] = l
        BY <2>e, <3>4
      <4> QED BY <1>b, <2>2, <2>c, <4>1
    <3>5. CASE v # u
      BY <1>1, <2>c, <2>e, <3>2, <3>3, <3>5 DEF AcBounded
    <3> QED BY <3>4, <3>5
  <2> QED BY <1>1, <2>c, <2>d, <2>f DEF AcRoot
<1>9. ASSUME NEW b \in Browser, AcDrops(b) PROVE AcTypes' /\ AcRoot' /\ AcBounded'
  BY <1>1, <1>9 DEF AcTypes, AcRoot, AcBounded, AcDrops, AcGoes
<1>10. ASSUME NEW b \in Browser, AcWrites(b) PROVE AcTypes' /\ AcRoot' /\ AcBounded'
  BY <1>1, <1>10 DEF AcTypes, AcRoot, AcBounded, AcWrites, AcGoes
<1>11. ASSUME AcAppears PROVE AcTypes' /\ AcRoot' /\ AcBounded'
  <2>1. Nothing # 4
    BY AcConstants DEF AcRole
  <2> QED BY <1>1, <1>11, <2>1 DEF AcTypes, AcRoot, AcBounded, AcAppears
<1> QED BY <1>4, <1>5, <1>6, <1>7, <1>8, <1>9, <1>10, <1>11 DEF AcMoves

LEMMA AcKeepsHolders ==
  ASSUME AcInv, AcMoves
  PROVE  AcHolds'
<1>1. AcTypes /\ AcRoot /\ AcHolds
  BY DEF AcInv
<1>0. Nothing \notin Person
  BY AcConstants
\* A step of one request that leaves the accounts alone.
<1>2. ASSUME NEW b \in Browser, NEW x \in AcCalls, UNCHANGED <<person, cookie>>,
             request' = [request EXCEPT ![b] = x], AcFits(cookie[b].user, x),
             x.pc = "write" => \A c \in Browser : ~AcWriting(c, x.user)
      PROVE  AcHolds'
  <2>1. \A c \in Browser : request'[c] = IF c = b THEN x ELSE request[c]
    BY <1>1, <1>2 DEF AcTypes
  <2>2. \A c \in Browser : AcFits(cookie[c].user, request'[c])
    BY <1>1, <1>2, <2>1 DEF AcHolds
  <2>3. \A c \in Browser : AcFits(cookie[c].user, request[c])'
    BY <1>2, <2>2 DEF AcFits, AcMay
  <2>4. \A c, d \in Browser : \A u \in Person :
          AcWriting(c, u)' /\ AcWriting(d, u)' => c = d
    BY <1>1, <1>2, <2>1 DEF AcHolds, AcWriting
  <2> QED BY <1>1, <1>2, <2>3, <2>4 DEF AcHolds
<1>3. ASSUME NEW b \in Browser, AcBegins(b) PROVE AcHolds'
  BY <1>2, <1>3, Zenon DEF AcBegins, AcGoes
<1>4. ASSUME NEW b \in Browser, AcPushes(b) PROVE AcHolds'
  <2>1. PICK x \in AcCalls :
          /\ request[b].pc = "push" /\ x.pc = "trim" /\ x.user = request[b].user
          /\ request' = [request EXCEPT ![b] = x] /\ UNCHANGED <<person, cookie>>
    BY <1>4 DEF AcPushes
  <2>2. AcFits(cookie[b].user, x)
    BY <1>1, <2>1 DEF AcHolds, AcFits
  <2> QED BY <1>2, <2>1, <2>2
<1>5. ASSUME NEW b \in Browser, AcTrims(b) PROVE AcHolds'
  <2>1. PICK x \in AcCalls, y \in AcCookie :
          /\ request[b].pc = "trim" /\ x.pc = "idle" /\ request' = [request EXCEPT ![b] = x]
          /\ y.user = request[b].user /\ cookie' = [cookie EXCEPT ![b] = y]
          /\ UNCHANGED person
    BY <1>5 DEF AcTrims
  <2>2. person[y.user].role # Nothing
    BY <1>1, <2>1 DEF AcHolds, AcFits
  <2>3. \A c \in Browser : /\ request'[c] = IF c = b THEN x ELSE request[c]
                           /\ cookie'[c] = IF c = b THEN y ELSE cookie[c]
    BY <1>1, <2>1 DEF AcTypes
  <2>4. \A c \in Browser : AcFits(cookie[c].user, request[c])'
    BY <1>1, <2>1, <2>3 DEF AcHolds, AcFits, AcMay
  <2>5. \A c \in Browser : cookie'[c].user \in Person => person'[cookie'[c].user].role # Nothing
    BY <1>1, <2>1, <2>2, <2>3 DEF AcHolds
  <2>6. \A c, d \in Browser : \A u \in Person : AcWriting(c, u)' /\ AcWriting(d, u)' => c = d
    BY <1>1, <2>1, <2>3 DEF AcHolds, AcWriting
  <2> QED BY <2>4, <2>5, <2>6 DEF AcHolds
<1>6. ASSUME NEW b \in Browser, AcShortens(b) PROVE AcHolds'
  <2>1. PICK y : y = [user |-> Nothing, id |-> cookie[b].id + 1]
    OBVIOUS
  <2>2. /\ request[b].pc = "idle" /\ y.user \notin Person
        /\ cookie' = [cookie EXCEPT ![b] = y] /\ UNCHANGED <<person, request>>
    BY <1>0, <1>6, <2>1 DEF AcShortens
  <2>3. \A c \in Browser : cookie'[c] = IF c = b THEN y ELSE cookie[c]
    BY <1>1, <2>2 DEF AcTypes
  <2>4. \A c \in Browser : AcFits(cookie[c].user, request[c])'
    BY <1>1, <2>2, <2>3 DEF AcHolds, AcFits, AcMay
  <2>5. \A c \in Browser : cookie'[c].user \in Person => person'[cookie'[c].user].role # Nothing
    BY <1>1, <2>2, <2>3 DEF AcHolds
  <2>6. \A c, d \in Browser : \A u \in Person : AcWriting(c, u)' /\ AcWriting(d, u)' => c = d
    BY <1>1, <2>2 DEF AcHolds, AcWriting
  <2> QED BY <2>4, <2>5, <2>6 DEF AcHolds
<1>7. ASSUME NEW b \in Browser, AcEmpties(b) \/ AcDrops(b) PROVE AcHolds'
  BY <1>2, <1>7, Zenon DEF AcEmpties, AcDrops, AcGoes
<1>8. ASSUME NEW b \in Browser, AcWrites(b) PROVE AcHolds'
  <2>1. PICK x \in AcCalls, u \in Person, a \in AcAccount :
          /\ x.pc \in {"idle", "invalidate"} /\ request' = [request EXCEPT ![b] = x]
          /\ \A c \in Browser : AcWriting(c, u) => c = b
          /\ a.role # Nothing /\ person' = [person EXCEPT ![u] = a] /\ UNCHANGED cookie
    BY <1>8 DEF AcWrites, AcGoes
  <2>2. /\ \A c \in Browser : request'[c] = IF c = b THEN x ELSE request[c]
        /\ \A v \in Person : person'[v] = IF v = u THEN a ELSE person[v]
    BY <1>1, <2>1 DEF AcTypes
  <2>3. ASSUME NEW c \in Browser PROVE AcFits(cookie[c].user, request[c])'
    <3>1. CASE c = b
      BY <2>1, <2>2, <3>1 DEF AcFits
    <3>2. CASE c # b
      <4>1. AcFits(cookie[c].user, request[c]) /\ request'[c] = request[c]
        BY <1>1, <2>2, <3>2 DEF AcHolds
      <4>2. request[c].pc # "idle" => request[c].user \in Person
        BY <1>1 DEF AcTypes
      <4>3. request[c].pc = "write" => request[c].user # u
        BY <2>1, <3>2 DEF AcWriting
      <4> QED BY <2>1, <2>2, <4>1, <4>2, <4>3 DEF AcFits, AcMay
    <3> QED BY <3>1, <3>2
  <2>4. \A c \in Browser : cookie'[c].user \in Person => person'[cookie'[c].user].role # Nothing
    BY <1>1, <2>1, <2>2 DEF AcHolds
  <2>5. \A c, d \in Browser : \A v \in Person : AcWriting(c, v)' /\ AcWriting(d, v)' => c = d
    BY <1>1, <2>1, <2>2 DEF AcHolds, AcWriting
  <2> QED BY <2>1, <2>3, <2>4, <2>5 DEF AcHolds
<1>9. ASSUME AcAppears PROVE AcHolds'
  <2>1. PICK u \in Person, a \in AcAccount :
          /\ person[u].role = Nothing /\ a = [role |-> 1, temporary |-> FALSE]
          /\ person' = [person EXCEPT ![u] = a] /\ UNCHANGED <<cookie, request>>
    BY <1>9 DEF AcAppears
  <2>2. a.role # Nothing /\ Nothing \notin AcRole
    BY <2>1, AcConstants DEF AcRole
  <2>3. \A v \in Person : person'[v] = IF v = u THEN a ELSE person[v]
    BY <1>1, <2>1 DEF AcTypes
  <2>4. ASSUME NEW c \in Browser PROVE AcFits(cookie[c].user, request[c])'
    <3>1. AcFits(cookie[c].user, request[c])
      BY <1>1 DEF AcHolds
    <3>2. request[c].pc # "idle" => request[c].user \in Person
      BY <1>1 DEF AcTypes
    <3> QED BY <2>1, <2>2, <2>3, <3>1, <3>2 DEF AcFits, AcMay
  <2>5. \A c \in Browser : cookie'[c].user \in Person => person'[cookie'[c].user].role # Nothing
    BY <1>1, <2>1, <2>2, <2>3 DEF AcHolds
  <2>6. \A c, d \in Browser : \A v \in Person : AcWriting(c, v)' /\ AcWriting(d, v)' => c = d
    BY <1>1, <2>1 DEF AcHolds, AcWriting
  <2> QED BY <2>1, <2>4, <2>5, <2>6 DEF AcHolds
<1> QED BY <1>3, <1>4, <1>5, <1>6, <1>7, <1>8, <1>9, Zenon DEF AcMoves

\* Who changes an account is entitled to, or it is new.
LEMMA AcGuards ==
  ASSUME AcInv, AcMoves, NEW u \in Person, person'[u] # person[u]
  PROVE  \/ person[u].role = Nothing /\ person'[u] = [role |-> 1, temporary |-> FALSE]
         \/ \E b \in Browser : request'[b] # request[b] /\ AcEntitled(cookie[b].user, u, person'[u])
<1>1. AcTypes
  BY DEF AcInv
<1>2. \/ AcAppears
      \/ \E b \in Browser : AcWrites(b)
  BY Zenon DEF AcMoves, AcBegins, AcPushes, AcTrims, AcShortens, AcEmpties, AcDrops
<1>3. CASE AcAppears
  BY <1>1, <1>3 DEF AcAppears, AcTypes
<1>4. ASSUME NEW b \in Browser, AcWrites(b)
      PROVE  request'[b] # request[b] /\ AcEntitled(cookie[b].user, u, person'[u])
  <2>1. PICK x \in AcCalls, v \in Person, a \in AcAccount :
          /\ request[b].pc \in {"password", "create", "write", "reset"} /\ x.pc \in {"idle", "invalidate"}
          /\ request' = [request EXCEPT ![b] = x]
          /\ a # person[v] => AcEntitled(cookie[b].user, v, a)
          /\ person' = [person EXCEPT ![v] = a]
    BY <1>4, Zenon DEF AcWrites, AcGoes
  <2>2. request'[b] = x
    BY <1>1, <2>1 DEF AcTypes
  <2>3. v = u /\ person'[u] = a
    BY <1>1, <2>1 DEF AcTypes
  <2>4. AcEntitled(cookie[b].user, u, person'[u])
    BY <2>1, <2>3, Zenon
  <2> QED BY <2>1, <2>2, <2>4
<1> QED BY <1>2, <1>3, <1>4, Zenon

-----------------------------------------------------------------------------
(* Every step is of one of the kinds. *)

LEMMA AcIdle ==
  /\ People!NoCall = [pc |-> "idle", user |-> Nothing, role |-> Nothing]
  /\ People!NoCall \in AcCalls /\ People!NoCall.pc = "idle"
<1>1. People!NoCall = [pc |-> "idle", user |-> Nothing, role |-> Nothing]
  BY DEF People!NoCall
<1>2. PICK x : x = [pc |-> "idle", user |-> Nothing, role |-> Nothing]
  OBVIOUS
<1>3. x \in AcCalls /\ x.pc = "idle"
  BY <1>2 DEF AcCalls, AcStage
<1> QED BY <1>1, <1>2, <1>3, Zenon

LEMMA AcAnswers ==
  ASSUME NEW b \in Browser, People!Answer(b)
  PROVE  \E x \in AcCalls : x.pc = "idle" /\ AcGoes(b, x) /\ request' = [request EXCEPT ![b] = x]
<1>1. PICK x \in AcCalls : x.pc = "idle" /\ request' = [request EXCEPT ![b] = x]
  BY AcIdle, Zenon DEF People!Answer
<1> QED BY <1>1 DEF AcGoes, AcFits

LEMMA AcGoto ==
  ASSUME AcTypes, NEW b \in Browser, NEW s \in AcStage, People!Goto(b, s)
  PROVE  \E x \in AcCalls : /\ x.pc = s /\ x.user = request[b].user
                            /\ request' = [request EXCEPT ![b] = x]
<1>1. request' = [request EXCEPT ![b].pc = s]
  BY Zenon DEF People!Goto
<1>2. PICK x : x = [request[b] EXCEPT !.pc = s]
  OBVIOUS
<1>3. x \in AcCalls /\ x.pc = s /\ x.user = request[b].user
  BY <1>2 DEF AcTypes, AcCalls
<1> QED BY <1>1, <1>2, <1>3

LEMMA AcBeginning ==
  ASSUME NEW b \in Browser, NEW s \in AcStage \ {"idle", "trim", "write"}, NEW u \in Person,
         NEW r \in AcRole \cup {Nothing}, People!Begin(b, s, u, r)
  PROVE  request[b].pc = "idle" /\ \E x \in AcCalls :
           /\ x.pc = s /\ x.user = u /\ x.role = r
           /\ AcFits(cookie[b].user, x) => AcGoes(b, x)
<1>1. PICK x : x = [pc |-> s, user |-> u, role |-> r]
  OBVIOUS
<1>2. x \in AcCalls /\ x.pc = s /\ x.user = u /\ x.role = r
  BY <1>1 DEF AcCalls
<1>3. request[b].pc = "idle" /\ request' = [request EXCEPT ![b] = x]
  BY <1>1, Zenon DEF People!Begin
<1> QED BY <1>2, <1>3 DEF AcGoes

\* Whose session is valid has an account.
LEMMA AcActs ==
  ASSUME AcTypes, AcHolds, NEW b \in Browser, People!Valid(b)
  PROVE  /\ cookie[b].user \in Person
         /\ People!Actor(b).role = person[cookie[b].user].role
         /\ person[cookie[b].user].role \in AcRole
<1>1. cookie[b].user # Nothing
  BY Zenon DEF People!Valid
<1>2. cookie[b].user \in Person
  BY <1>1 DEF AcTypes, AcCookie
<1>3. person[cookie[b].user].role # Nothing
  BY <1>2 DEF AcHolds
<1>4. person[cookie[b].user].role \in AcRole
  BY <1>2, <1>3 DEF AcTypes, AcAccount
<1>5. People!Actor(b).role = person[cookie[b].user].role
  BY Zenon DEF People!Actor
<1> QED BY <1>2, <1>4, <1>5

\* A request is let through with the role that was read.
LEMMA AcEnters ==
  ASSUME AcTypes, AcRoot, AcHolds, NEW b \in Browser, NEW u \in Person
  PROVE  /\ People!Login(b, u) => AcBegins(b)
         /\ \A s \in {"create", "update", "reset"} : People!Enter(b, u, s) => AcBegins(b)
         /\ People!EnterPassword(b) => AcBegins(b)
<1>0. \A s \in {"push", "password", "create", "update", "reset"} : s \in AcStage \ {"idle", "trim", "write"}
  BY DEF AcStage
<1>1. ASSUME People!Login(b, u) PROVE AcBegins(b)
  <2>1. /\ People!Begin(b, "push", u, Nothing) /\ person[u].role # Nothing
        /\ UNCHANGED <<person, list, cookie, cap, breaks>>
    BY <1>1, Zenon DEF People!Login, People!sessions, People!Exists
  <2>2. "push" \in AcStage \ {"idle", "trim", "write"}
    BY <1>0
  <2>3. request[b].pc = "idle" /\ \E x \in AcCalls :
          /\ x.pc = "push" /\ x.user = u /\ x.role = Nothing
          /\ AcFits(cookie[b].user, x) => AcGoes(b, x)
    BY <2>1, <2>2, AcBeginning
  <2>4. \A x \in AcCalls : x.pc = "push" /\ x.user = u => AcFits(cookie[b].user, x)
    BY <2>1 DEF AcFits
  <2>5. request[b].pc # "trim" /\ \E x \in AcCalls : AcGoes(b, x)
    BY <2>3, <2>4
  <2> QED BY <2>1, <2>5, Zenon DEF AcBegins
<1>2. ASSUME NEW s \in {"create", "update", "reset"}, People!Enter(b, u, s) PROVE AcBegins(b)
  <2>1. PICK r : r = People!Actor(b).role
    BY Zenon
  <2>2. /\ People!Begin(b, s, u, r) /\ People!Valid(b)
        /\ UNCHANGED <<person, list, cookie, cap, breaks>>
    BY <1>2, <2>1, Zenon DEF People!Enter, People!sessions
  <2>3. cookie[b].user \in Person /\ r = person[cookie[b].user].role /\ r \in AcRole
    BY <2>1, <2>2, AcActs
  <2>4. s \in AcStage \ {"idle", "trim", "write"}
    BY <1>0
  <2>5. request[b].pc = "idle" /\ \E x \in AcCalls :
          /\ x.pc = s /\ x.user = u /\ x.role = r
          /\ AcFits(cookie[b].user, x) => AcGoes(b, x)
    BY <2>2, <2>3, <2>4, AcBeginning
  <2>6. \A x \in AcCalls : x.pc = s /\ x.role = r => AcFits(cookie[b].user, x)
    BY <2>3 DEF AcFits, AcRoot
  <2>7. request[b].pc # "trim" /\ \E x \in AcCalls : AcGoes(b, x)
    BY <2>5, <2>6
  <2> QED BY <2>2, <2>7, Zenon DEF AcBegins
<1>3. ASSUME People!EnterPassword(b) PROVE AcBegins(b)
  <2>1. PICK me : me = cookie[b].user
    OBVIOUS
  <2>2. /\ People!Begin(b, "password", me, Nothing) /\ People!Valid(b)
        /\ UNCHANGED <<person, list, cookie, cap, breaks>>
    BY <1>3, <2>1, Zenon DEF People!EnterPassword, People!sessions
  <2>3. me \in Person
    BY <2>1, <2>2, AcActs
  <2>4. "password" \in AcStage \ {"idle", "trim", "write"}
    BY <1>0
  <2>5. request[b].pc = "idle" /\ \E x \in AcCalls :
          /\ x.pc = "password" /\ x.user = me /\ x.role = Nothing
          /\ AcFits(cookie[b].user, x) => AcGoes(b, x)
    BY <2>2, <2>3, <2>4, AcBeginning
  <2>6. \A x \in AcCalls : x.pc = "password" /\ x.user = me => AcFits(cookie[b].user, x)
    BY <2>1 DEF AcFits
  <2>7. request[b].pc # "trim" /\ \E x \in AcCalls : AcGoes(b, x)
    BY <2>5, <2>6
  <2> QED BY <2>2, <2>7, Zenon DEF AcBegins
<1> QED BY <1>1, <1>2, <1>3

LEMMA AcSessions ==
  ASSUME AcTypes, NEW b \in Browser
  PROVE  /\ People!Push(b) => AcPushes(b)
         /\ (\A most \in SessionLimits : People!Trim(b, most) => AcTrims(b))
         /\ People!Logout(b) \/ People!Refuse(b) => AcShortens(b)
         /\ People!InvalidateAll(b) => AcEmpties(b)
         /\ People!Drop(b) => AcDrops(b)
<1>0. SessionLimits \subseteq Nat \ {0} /\ MaxSession \in Nat /\ cookie[b].id \in 0..MaxSession
  BY AcConstants DEF AcTypes, AcCookie
<1>1. ASSUME People!Push(b) PROVE AcPushes(b)
  <2>1. PICK s : s = People!Sid(b)
    BY Zenon
  <2>2. s \in AcSession
    <3>1. s = <<b, cookie[b].id>>
      BY <2>1, Zenon DEF People!Sid
    <3> QED BY <1>0, <3>1 DEF AcSession
  <2>3. /\ request[b].pc = "push" /\ People!Goto(b, "trim")
        /\ list' = [list EXCEPT ![request[b].user] = <<s>> \o @]
        /\ UNCHANGED <<person, cookie, cap, breaks>>
    BY <1>1, <2>1, Zenon DEF People!Push
  <2>4. "trim" \in AcStage
    BY DEF AcStage
  <2>5. PICK x \in AcCalls : /\ x.pc = "trim" /\ x.user = request[b].user
                            /\ request' = [request EXCEPT ![b] = x]
    BY <2>3, <2>4, AcGoto, Zenon
  <2> QED BY <2>2, <2>3, <2>5, Zenon DEF AcPushes
<1>2. ASSUME NEW most \in SessionLimits, People!Trim(b, most) PROVE AcTrims(b)
  <2>1. /\ request[b].pc = "trim" /\ People!Answer(b)
        /\ list' = [list EXCEPT ![request[b].user] =
             SubSeq(@, 1, IF Len(@) < most THEN Len(@) ELSE most)]
        /\ cookie' = [cookie EXCEPT ![b].user = request[b].user]
        /\ cap' = [cap EXCEPT ![request[b].user] = most]
        /\ UNCHANGED <<person, breaks>>
    BY <1>2, Zenon DEF People!Trim
  <2>2. PICK u \in Person : u = request[b].user
    BY <2>1 DEF AcTypes, AcCookie
  <2>3. PICK s \in Seq(AcSession) : s = list[u]
    BY DEF AcTypes, AcCookie
  <2>4. PICK n \in Nat : n = IF Len(s) < most THEN Len(s) ELSE most
    BY <1>0, <2>3
  <2>5. n <= Len(s) /\ n <= most
    BY <1>0, <2>3, <2>4
  <2>6. PICK l : l = SubSeq(s, 1, n)
    OBVIOUS
  <2>7. l \in Seq(AcSession) /\ Len(l) = n
    BY <2>5, <2>6
  <2>8. list' = [list EXCEPT ![request[b].user] = l]
    BY <2>1, <2>2, <2>3, <2>4, <2>6 DEF AcTypes, AcCookie
  <2>9. PICK x \in AcCalls : x.pc = "idle" /\ request' = [request EXCEPT ![b] = x]
    BY <2>1, AcAnswers, Zenon
  <2>10. PICK y \in AcCookie : y.user = request[b].user /\ cookie' = [cookie EXCEPT ![b] = y]
    <3>1. PICK y : y = [cookie[b] EXCEPT !.user = u]
      OBVIOUS
    <3>2. y \in AcCookie /\ y.user = u
      BY <3>1 DEF AcTypes, AcCookie
    <3> QED BY <2>1, <2>2, <3>1, <3>2
  <2> QED BY <2>1, <2>5, <2>7, <2>8, <2>9, <2>10, Zenon DEF AcTrims
<1>3. cookie' = [cookie EXCEPT ![b] = [user |-> Nothing, id |-> @.id + 1]]
        => cookie' = [cookie EXCEPT ![b] = [user |-> Nothing, id |-> cookie[b].id + 1]]
  BY DEF AcTypes, AcCookie
<1>4. ASSUME People!Logout(b) PROVE AcShortens(b)
  <2>1. PICK s : s = People!Sid(b)
    BY Zenon
  <2>2. /\ request[b].pc = "idle" /\ cookie[b].user # Nothing /\ cookie[b].id < MaxSession
        /\ list' = [list EXCEPT ![cookie[b].user] = People!RemoveFirst(@, s)]
        /\ cookie' = [cookie EXCEPT ![b] = [user |-> Nothing, id |-> @.id + 1]]
        /\ UNCHANGED <<person, request, cap, breaks>>
    BY <1>4, <2>1, Zenon DEF People!Logout, People!Purge
  <2>3. PICK u \in Person : u = cookie[b].user
    BY <2>2 DEF AcTypes, AcCookie
  <2>4. list[u] \in Seq(AcSession)
    BY DEF AcTypes, AcCookie
  <2>5. PICK l : l = People!RemoveFirst(list[u], s)
    BY Zenon
  <2>6. l \in Seq(AcSession) /\ Len(l) <= Len(list[u])
    BY <2>4, <2>5, AcRemoves, Zenon
  <2>7. list' = [list EXCEPT ![u] = l]
    BY <2>2, <2>3, <2>5, Zenon
  <2> QED BY <1>3, <2>2, <2>6, <2>7, Zenon DEF AcShortens
<1>5. ASSUME People!Refuse(b) PROVE AcShortens(b)
  <2>1. /\ request[b].pc = "idle" /\ cookie[b].user # Nothing /\ cookie[b].id < MaxSession
        /\ cookie' = [cookie EXCEPT ![b] = [user |-> Nothing, id |-> @.id + 1]]
        /\ UNCHANGED <<person, list, request, cap, breaks>>
    BY <1>5, Zenon DEF People!Refuse, People!Purge
  <2>2. PICK u \in Person : u = cookie[b].user
    BY <2>1 DEF AcTypes, AcCookie
  <2>3. PICK l \in Seq(AcSession) : l = list[u]
    BY DEF AcTypes, AcCookie
  <2>4. list' = [list EXCEPT ![u] = l] /\ Len(l) <= Len(list[u])
    BY <2>1, <2>3 DEF AcTypes, AcCookie
  <2> QED BY <1>3, <2>1, <2>4, Zenon DEF AcShortens
<1>6. ASSUME People!InvalidateAll(b) PROVE AcEmpties(b)
  <2>1. /\ request[b].pc = "invalidate" /\ People!Answer(b)
        /\ list' = [list EXCEPT ![request[b].user] = <<>>]
        /\ UNCHANGED <<person, cookie, cap, breaks>>
    BY <1>6, Zenon DEF People!InvalidateAll
  <2>2. PICK x \in AcCalls : AcGoes(b, x)
    BY <2>1, AcAnswers, Zenon
  <2> QED BY <2>1, <2>2, Zenon DEF AcEmpties
<1>7. ASSUME People!Drop(b) PROVE AcDrops(b)
  <2>1. /\ breaks < 1 /\ breaks' = breaks + 1 /\ People!Answer(b)
        /\ UNCHANGED <<person, list, cookie, cap>>
    BY <1>7, Zenon DEF People!Drop, People!sessions
  <2>2. PICK x \in AcCalls : AcGoes(b, x)
    BY <2>1, AcAnswers, Zenon
  <2> QED BY <2>1, <2>2, Zenon DEF AcDrops
<1> QED BY <1>1, <1>2, <1>4, <1>5, <1>6, <1>7, Zenon

\* The check of an update and the update itself.
LEMMA AcUpdates ==
  ASSUME AcTypes, AcRoot, AcHolds, NEW b \in Browser
  PROVE  /\ \A r \in AcRole : People!UpdateLook(b, r) => AcBegins(b)
         /\ People!UpdateUser(b) => AcWrites(b)
<1>0. Nothing \notin AcRole /\ Root \in Person
  BY AcConstants
<1>a. People!RootRole = 4 /\ People!Admin = 3
  BY DEF People!RootRole, People!Admin
<1>1. ASSUME NEW r \in AcRole, People!UpdateLook(b, r) PROVE AcBegins(b)
  <2>1. PICK u : u = request[b].user
    OBVIOUS
  <2>2. /\ request[b].pc = "update" /\ People!Free(u)
        /\ \/ /\ person[u].role # Nothing /\ (cookie[b].user = u => r = person[u].role)
              /\ People!CanChangeRole(request[b].role, person[u].role, r)
              /\ request' = [request EXCEPT ![b].pc = "write", ![b].role = r]
           \/ People!Answer(b)
        /\ UNCHANGED <<person, list, cookie, cap, breaks>>
    BY <1>1, <2>1, Zenon DEF People!UpdateLook, People!Exists, People!sessions
  <2>3. u \in Person
    BY <2>1, <2>2 DEF AcTypes
  <2>4. CASE People!Answer(b)
    <3>1. PICK x \in AcCalls : AcGoes(b, x)
      BY <2>4, AcAnswers, Zenon
    <3>2. request[b].pc # "trim"
      BY <2>2
    <3> QED BY <2>2, <3>1, <3>2, Zenon DEF AcBegins
  <2>5. CASE /\ person[u].role # Nothing /\ (cookie[b].user = u => r = person[u].role)
             /\ People!CanChangeRole(request[b].role, person[u].role, r)
             /\ request' = [request EXCEPT ![b].pc = "write", ![b].role = r]
    <3>1. PICK x : x = [request[b] EXCEPT !.pc = "write", !.role = r]
      OBVIOUS
    <3>2. x \in AcCalls /\ x.pc = "write" /\ x.user = u /\ x.role = r
      BY <2>1, <3>1 DEF AcTypes, AcCalls, AcStage
    <3>3. request' = [request EXCEPT ![b] = x]
      BY <2>5, <3>1 DEF AcTypes
    <3>4. person[u].role \in AcRole
      BY <2>3, <2>5 DEF AcTypes, AcAccount
    <3>5. request[b].role = 4 => cookie[b].user = Root
      BY <2>2 DEF AcHolds, AcFits
    <3>6. \/ person[u].role = r
          \/ /\ person[u].role # 4 /\ r # 4
             /\ request[b].role = 4 \/ (person[u].role < 3 /\ r < 3)
      BY <1>a, <2>5, Zenon DEF People!CanChangeRole
    <3>7. AcMay(cookie[b].user, u, r)
      BY <2>5, <3>4, <3>5, <3>6 DEF AcMay
    <3>8. \A c \in Browser : ~AcWriting(c, u)
      BY <2>2, Zenon DEF People!Free, AcWriting
    <3>9. AcFits(cookie[b].user, x)
      BY <3>2, <3>7 DEF AcFits
    <3>10. AcGoes(b, x)
      BY <2>3, <3>2, <3>3, <3>8, <3>9 DEF AcGoes
    <3>11. request[b].pc # "trim"
      BY <2>2
    <3> QED BY <2>2, <3>2, <3>10, <3>11, Zenon DEF AcBegins
  <2> QED BY <2>2, <2>4, <2>5
<1>2. ASSUME People!UpdateUser(b) PROVE AcWrites(b)
  <2>1. PICK u, r : u = request[b].user /\ r = request[b].role
    OBVIOUS
  <2>2. /\ request[b].pc = "write" /\ People!Answer(b)
        /\ person' = [person EXCEPT ![u].role = r]
        /\ UNCHANGED <<list, cookie, cap, breaks>>
    BY <1>2, <2>1, Zenon DEF People!UpdateUser, People!sessions
  <2>3. u \in Person /\ AcMay(cookie[b].user, u, r)
    BY <2>1, <2>2 DEF AcTypes, AcHolds, AcFits
  <2>4. PICK a : a = [person[u] EXCEPT !.role = r]
    OBVIOUS
  <2>5. a \in AcAccount /\ a.role = r /\ a.role # Nothing
    BY <1>0, <2>3, <2>4 DEF AcTypes, AcAccount, AcMay
  <2>6. person' = [person EXCEPT ![u] = a]
    BY <2>2, <2>4
  <2>7. a.role = 4 <=> u = Root
    BY <2>3, <2>5 DEF AcMay, AcRoot
  <2>8. r = person[u].role => a = person[u]
    BY <2>3, <2>4 DEF AcTypes, AcAccount
  <2>9. a # person[u] => AcEntitled(cookie[b].user, u, a)
    BY <2>3, <2>5, <2>8 DEF AcMay, AcEntitled, AcRole
  <2>10. \A c \in Browser : AcWriting(c, u) => c = b
    BY <2>1, <2>2, <2>3 DEF AcHolds, AcWriting
  <2>11. PICK x \in AcCalls : x.pc = "idle" /\ AcGoes(b, x)
    BY <2>2, AcAnswers, Zenon
  <2> QED BY <2>2, <2>3, <2>5, <2>6, <2>7, <2>9, <2>10, <2>11 DEF AcWrites
<1> QED BY <1>1, <1>2

\* Nobody becomes Root, and Root stays what it is.
LEMMA AcChanges ==
  ASSUME AcTypes, AcRoot, AcHolds, NEW b \in Browser
  PROVE  /\ People!ChangePassword(b) => AcWrites(b)
         /\ \A r \in AcRole : People!CreateUser(b, r) => AcWrites(b) \/ AcBegins(b)
         /\ People!ResetPassword(b) => AcWrites(b) \/ AcBegins(b)
<1>0. Nothing \notin AcRole /\ Root \in Person
  BY AcConstants
<1>a. People!RootRole = 4 /\ People!Admin = 3
  BY DEF People!RootRole, People!Admin
<1>b. \A u \in Person : People!Free(u) => \A c \in Browser : ~AcWriting(c, u)
  BY Zenon DEF People!Free, AcWriting
<1>1. ASSUME People!ChangePassword(b) PROVE AcWrites(b)
  <2>1. PICK u : u = request[b].user
    OBVIOUS
  <2>2. /\ request[b].pc = "password" /\ People!Free(u) /\ People!Answer(b)
        /\ person' = [person EXCEPT ![u].temporary = FALSE]
        /\ UNCHANGED <<list, cookie, cap, breaks>>
    BY <1>1, <2>1, Zenon DEF People!ChangePassword, People!sessions
  <2>3. u \in Person /\ cookie[b].user = u
    BY <2>1, <2>2 DEF AcTypes, AcHolds, AcFits
  <2>4. person[u].role # Nothing
    BY <2>3 DEF AcHolds
  <2>5. PICK a : a = [person[u] EXCEPT !.temporary = FALSE]
    OBVIOUS
  <2>6. a \in AcAccount /\ a.role = person[u].role
    BY <2>3, <2>5 DEF AcTypes, AcAccount
  <2>7. person' = [person EXCEPT ![u] = a] /\ (a.role = 4 <=> u = Root)
    BY <2>2, <2>3, <2>5, <2>6 DEF AcRoot
  <2>8. AcEntitled(cookie[b].user, u, a)
    BY <2>3, <2>5, <2>6 DEF AcEntitled
  <2>9. PICK x \in AcCalls : x.pc = "idle" /\ AcGoes(b, x)
    BY <2>2, AcAnswers, Zenon
  <2>10. \A c \in Browser : AcWriting(c, u) => c = b
    BY <1>b, <2>2, <2>3, Zenon
  <2> QED BY <2>2, <2>3, <2>4, <2>6, <2>7, <2>8, <2>9, <2>10 DEF AcWrites
<1>2. ASSUME NEW r \in AcRole, People!CreateUser(b, r) PROVE AcWrites(b) \/ AcBegins(b)
  <2>1. PICK u : u = request[b].user
    OBVIOUS
  <2>2. /\ request[b].pc = "create" /\ People!Answer(b)
        /\ \/ /\ person[u].role = Nothing /\ r # 4 /\ (request[b].role = 4 \/ r < 3)
              /\ person' = [person EXCEPT ![u] = [role |-> r, temporary |-> TRUE]]
           \/ person' = person
        /\ UNCHANGED <<list, cookie, cap, breaks>>
    BY <1>2, <1>a, <2>1, Zenon DEF People!CreateUser, People!Exists, People!sessions
  <2>3. PICK x \in AcCalls : x.pc = "idle" /\ AcGoes(b, x)
    BY <2>2, AcAnswers, Zenon
  <2>4. CASE person' = person
    BY <2>2, <2>3, <2>4 DEF AcBegins
  <2>5. CASE /\ person[u].role = Nothing /\ r # 4 /\ (request[b].role = 4 \/ r < 3)
             /\ person' = [person EXCEPT ![u] = [role |-> r, temporary |-> TRUE]]
    <3>1. PICK a : a = [role |-> r, temporary |-> TRUE]
      OBVIOUS
    <3>2. a \in AcAccount /\ a.role = r /\ a.role # Nothing
      BY <1>0, <3>1 DEF AcAccount
    <3>3. u \in Person /\ u # Root
      BY <1>0, <2>1, <2>2, <2>5 DEF AcTypes, AcRoot, AcRole
    <3>4. cookie[b].user # u /\ (request[b].role = 4 => cookie[b].user = Root)
      BY <2>2, <2>5 DEF AcHolds, AcFits
    <3>5. AcEntitled(cookie[b].user, u, a)
      BY <1>0, <2>5, <3>2, <3>4 DEF AcEntitled, AcRole
    <3>6. \A c \in Browser : ~AcWriting(c, u)
      BY <1>0, <2>5 DEF AcHolds, AcFits, AcMay, AcWriting
    <3>7. person' = [person EXCEPT ![u] = a] /\ (a.role = 4 <=> u = Root)
      BY <2>5, <3>1, <3>2, <3>3
    <3>8. AcWrites(b)
      BY <2>2, <2>3, <3>2, <3>3, <3>5, <3>6, <3>7 DEF AcWrites
    <3> QED BY <3>8
  <2> QED BY <2>2, <2>4, <2>5
<1>3. ASSUME People!ResetPassword(b) PROVE AcWrites(b) \/ AcBegins(b)
  <2>1. PICK u : u = request[b].user
    OBVIOUS
  <2>2. /\ request[b].pc = "reset" /\ People!Free(u)
        /\ \/ /\ person[u].role # Nothing /\ person[u].role < request[b].role
              /\ person' = [person EXCEPT ![u].temporary = TRUE] /\ People!Goto(b, "invalidate")
           \/ person' = person /\ People!Answer(b)
        /\ UNCHANGED <<list, cookie, cap, breaks>>
    BY <1>3, <2>1, Zenon DEF People!ResetPassword, People!Exists, People!CanManageCredentials, People!sessions
  <2>3. u \in Person
    BY <2>1, <2>2 DEF AcTypes
  <2>4. CASE person' = person /\ People!Answer(b)
    <3>1. PICK x \in AcCalls : AcGoes(b, x)
      BY <2>4, AcAnswers, Zenon
    <3> QED BY <2>2, <2>4, <3>1 DEF AcBegins
  <2>5. CASE /\ person[u].role # Nothing /\ person[u].role < request[b].role
             /\ person' = [person EXCEPT ![u].temporary = TRUE] /\ People!Goto(b, "invalidate")
    <3>1. PICK a : a = [person[u] EXCEPT !.temporary = TRUE]
      OBVIOUS
    <3>2. a \in AcAccount /\ a.role = person[u].role
      BY <2>3, <3>1 DEF AcTypes, AcAccount
    <3>3. person' = [person EXCEPT ![u] = a] /\ (a.role = 4 <=> u = Root)
      BY <2>3, <2>5, <3>1, <3>2 DEF AcRoot
    <3>4. request[b].role \in AcRole /\ (request[b].role = 4 => cookie[b].user = Root)
      BY <2>2 DEF AcHolds, AcFits
    <3>5. person[u].role \in AcRole
      BY <2>3, <2>5 DEF AcTypes, AcAccount
    <3>6. AcEntitled(cookie[b].user, u, a)
      BY <2>5, <3>2, <3>4, <3>5 DEF AcEntitled, AcRole
    <3>7. "invalidate" \in AcStage
      BY DEF AcStage
    <3>8. PICK x \in AcCalls : /\ x.pc = "invalidate" /\ x.user = request[b].user
                              /\ request' = [request EXCEPT ![b] = x]
      BY <2>5, <3>7, AcGoto, Zenon
    <3>9. AcGoes(b, x)
      BY <2>1, <2>3, <3>8 DEF AcGoes, AcFits
    <3>10. \A c \in Browser : AcWriting(c, u) => c = b
      BY <1>b, <2>2, <2>3, Zenon
    <3>11. AcWrites(b)
      BY <2>2, <2>3, <2>5, <3>2, <3>3, <3>6, <3>8, <3>9, <3>10 DEF AcWrites
    <3> QED BY <3>11
  <2> QED BY <2>2, <2>4, <2>5
<1> QED BY <1>1, <1>2, <1>3

LEMMA AcRegisters ==
  ASSUME AcTypes, AcRoot, NEW u \in Person, People!Registered(u)
  PROVE  AcAppears
<1>1. People!Player = 1
  BY DEF People!Player
<1>2. /\ person[u].role = Nothing
      /\ person' = [person EXCEPT ![u] = [role |-> 1, temporary |-> FALSE]]
      /\ UNCHANGED <<list, cookie, request, cap, breaks>>
  BY <1>1, Zenon DEF People!Registered, People!Exists, People!sessions
<1>3. PICK a : a = [role |-> 1, temporary |-> FALSE]
  OBVIOUS
<1>4. a \in AcAccount /\ a.role = 1
  BY <1>3 DEF AcAccount, AcRole
<1> QED BY <1>2, <1>3, <1>4, Zenon DEF AcAppears

LEMMA AcKinds ==
  ASSUME AcTypes, AcRoot, AcHolds, People!Next
  PROVE  AcMoves
<1>1. People!Role = AcRole
  BY DEF People!Role, People!RootRole, AcRole
<1>2. ASSUME NEW b \in Browser, People!Step(b) PROVE AcMoves
  BY <1>1, <1>2, AcSessions, AcUpdates, AcChanges, Zenon DEF People!Step, AcMoves
<1>3. ASSUME NEW b \in Browser, People!Request(b) PROVE AcMoves
  BY <1>3, AcConstants, AcEnters, AcSessions, Zenon DEF People!Request, AcMoves
<1>4. ASSUME NEW b \in Browser, People!Drop(b) PROVE AcMoves
  BY <1>4, AcSessions, Zenon DEF AcMoves
<1>5. \/ \E b \in Browser : People!Request(b) \/ People!Step(b) \/ People!Drop(b)
      \/ \E u \in Person : People!Registered(u)
  BY Zenon DEF People!Next
<1>6. ASSUME NEW u \in Person, People!Registered(u) PROVE AcMoves
  BY <1>6, AcRegisters, Zenon DEF AcMoves
<1> QED BY <1>2, <1>3, <1>4, <1>5, <1>6, Zenon

-----------------------------------------------------------------------------
(* The invariant. *)

LEMMA AcBegin == People!Init => AcInv
<1>1. ASSUME People!Init PROVE AcInv
  <2>1. PICK x \in AcCalls : x = People!NoCall /\ x.pc = "idle"
    BY AcIdle, Zenon
  <2>2. People!RootRole = 4
    BY DEF People!RootRole
  <2>3. PICK n : n = People!NoAccount
    BY Zenon
  <2>4. n \in AcAccount /\ n.role = Nothing
    BY <2>3 DEF People!NoAccount, AcAccount
  <2>5. PICK a : a = [role |-> 4, temporary |-> FALSE]
    OBVIOUS
  <2>6. a \in AcAccount /\ a.role = 4
    BY <2>5 DEF AcAccount, AcRole
  <2>7. /\ person = [u \in Person |-> IF u = Root THEN a ELSE n]
        /\ list = [u \in Person |-> <<>>]
        /\ cookie = [b \in Browser |-> [user |-> Nothing, id |-> 0]]
        /\ request = [b \in Browser |-> x] /\ breaks = 0
        /\ cap = [u \in Person |-> 0]
    BY <1>1, <2>1, <2>2, <2>3, <2>5, Zenon DEF People!Init
  <2>8. PICK y \in AcCookie : y = [user |-> Nothing, id |-> 0]
    <3>1. PICK y : y = [user |-> Nothing, id |-> 0]
      OBVIOUS
    <3>2. y \in AcCookie
      BY <3>1, AcConstants DEF AcCookie
    <3> QED BY <3>1, <3>2
  <2>9. \A u \in Person : list[u] = <<>> /\ Len(list[u]) = 0
    BY <2>7
  <2>10. list \in [Person -> Seq(AcSession)]
    BY <2>7
  <2>11. AcTypes
    BY <2>1, <2>4, <2>6, <2>7, <2>8, <2>10 DEF AcTypes
  <2>12. AcRoot
    BY <2>4, <2>6, <2>7, AcConstants DEF AcRoot, AcRole
  <2>13. AcBounded
    BY <2>7, <2>9 DEF AcBounded
  <2>14. AcHolds
    <3>1. \A b \in Browser : request[b].pc = "idle" /\ cookie[b].user \notin Person
      BY <2>1, <2>7, AcConstants
    <3> QED BY <3>1 DEF AcHolds, AcFits, AcWriting
  <2> QED BY <2>11, <2>12, <2>13, <2>14 DEF AcInv
<1> QED BY <1>1, Zenon

LEMMA AcInvariant == People!Spec => []AcInv
<1>1. AcInv /\ [People!Next]_(People!vars) => AcInv'
  <2>1. ASSUME AcInv, People!Next PROVE AcInv'
    <3>1. AcMoves
      BY <2>1, AcKinds, Zenon DEF AcInv
    <3> QED BY <2>1, <3>1, AcKeepsLists, AcKeepsHolders, Zenon DEF AcInv
  <2>2. ASSUME AcInv, UNCHANGED People!vars PROVE AcInv'
    <3>1. UNCHANGED <<person, list, cookie, request, cap, breaks>>
      BY <2>2, Zenon DEF People!vars, People!sessions
    <3> QED BY <2>2, <3>1 DEF AcInv, AcTypes, AcRoot, AcBounded, AcHolds, AcFits, AcMay, AcWriting
  <2> QED BY <2>1, <2>2, Zenon
<1> QED BY AcBegin, <1>1, PTL DEF People!Spec

LEMMA AcAreSound == AcInv => People!TypeOK /\ People!OneRoot /\ People!SessionsBounded
<1>1. ASSUME AcInv PROVE People!TypeOK /\ People!OneRoot /\ People!SessionsBounded
  <2>1. AcTypes /\ AcRoot /\ AcBounded
    BY <1>1 DEF AcInv
  <2>2. People!Role = AcRole /\ People!RootRole = 4
    BY DEF People!Role, People!RootRole, AcRole
  <2>3. person \in [Person -> [role: AcRole \cup {Nothing}, temporary: BOOLEAN]]
    BY <2>1 DEF AcTypes, AcAccount
  <2>4. cookie \in [Browser -> [user: Person \cup {Nothing}, id: 0..MaxSession]]
    BY <2>1 DEF AcTypes, AcCookie
  <2>5. request \in [Browser -> [pc: {"idle", "push", "trim", "password", "create", "update",
                                          "write", "reset", "invalidate"},
                                 user: Person \cup {Nothing}, role: AcRole \cup {Nothing}]]
    BY <2>1 DEF AcTypes, AcCalls, AcStage
  <2>6. \A u \in Person : People!Range(list[u]) \subseteq Browser \X (0..MaxSession)
    <3>1. SUFFICES ASSUME NEW u \in Person
                   PROVE  People!Range(list[u]) \subseteq Browser \X (0..MaxSession)
      BY Zenon
    <3>2. PICK s \in Seq(AcSession) : s = list[u]
      BY <2>1 DEF AcTypes
    <3>3. {s[i] : i \in DOMAIN s} \subseteq AcSession
      OBVIOUS
    <3> QED BY <3>2, <3>3, Zenon DEF People!Range, AcSession
  <2>7. breaks \in 0..1 /\ cap \in [Person -> SessionLimits \cup {0}]
    BY <2>1 DEF AcTypes
  <2>8. People!TypeOK
    BY <2>2, <2>3, <2>4, <2>5, <2>6, <2>7, Zenon DEF People!TypeOK
  <2>9. People!OneRoot
    BY <2>1, <2>2, Zenon DEF People!OneRoot, AcRoot
  <2>10. People!SessionsBounded
    BY <2>1, Zenon DEF People!SessionsBounded, AcBounded
  <2> QED BY <2>8, <2>9, <2>10, Zenon
<1> QED BY <1>1, Zenon

LEMMA AcAreGuarded ==
  ASSUME AcInv, People!Next, NEW u \in Person, person'[u] # person[u]
  PROVE  \/ ~People!Exists(u) /\ person'[u] = [role |-> People!Player, temporary |-> FALSE]
         \/ \E b \in Browser : request'[b] # request[b] /\ People!Entitled(b, u)
<1>1. AcMoves
  BY AcKinds, Zenon DEF AcInv
<1>2. People!Player = 1 /\ People!Admin = 3 /\ People!RootRole = 4
  BY DEF People!Player, People!Admin, People!RootRole
<1>3. ASSUME NEW b \in Browser, AcEntitled(cookie[b].user, u, person'[u])
      PROVE  People!Entitled(b, u)
  BY <1>2, <1>3, Zenon DEF AcEntitled, People!Entitled, People!Administrates
<1>4. \/ person[u].role = Nothing /\ person'[u] = [role |-> 1, temporary |-> FALSE]
      \/ \E b \in Browser : request'[b] # request[b] /\ AcEntitled(cookie[b].user, u, person'[u])
  BY <1>1, AcGuards
<1> QED BY <1>2, <1>3, <1>4, Zenon DEF People!Exists

\* Root is who has id 0 and nobody else (ensure_root, can_change_role); a list has no more
\* sessions than the setting that the last login to cut it had read, when no login is under way
\* and none was cut off (session::append); and whatever role the middleware had read, only Root
\* makes administrators, unmakes them or resets their passwords (admin_update,
\* admin_reset_password).
THEOREM AccountsAreSound == People!Spec => AccountsSound
<1>1. AcInv /\ People!Next => \A u \in Person : person'[u] # person[u] =>
        \/ ~People!Exists(u) /\ person'[u] = [role |-> People!Player, temporary |-> FALSE]
        \/ \E b \in Browser : request'[b] # request[b] /\ People!Entitled(b, u)
  BY AcAreGuarded, Zenon
<1> QED BY AcInvariant, AcAreSound, <1>1, PTL DEF AccountsSound, People!RolesGuarded, People!Spec

=============================================================================
