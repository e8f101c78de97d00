---------------------------- MODULE ClusterLease ----------------------------
(***************************************************************************)
(* Cluster membership (src/src/module/cluster.rs, the readiness middleware *)
(* and the start and stop sequence of src/src/main.rs).                    *)
(*                                                                         *)
(* Every server process takes the deployment gate (a PostgreSQL advisory   *)
(* lock), brings the schema to the version of its build, inserts a leased  *)
(* row into rb_cluster_instance, and from then on renews the lease.  It    *)
(* serves requests while it is "ready", and must have stopped serving      *)
(* before its lease ends: another build may migrate the schema as soon as  *)
(* no lease is live.                                                       *)
(*                                                                         *)
(* An element of Instance is one process: instance_id is a fresh UUID, so  *)
(* a restart is another element.  Time is discrete, and every duration is  *)
(* held as what is left of it: lease[i] = 0 says that the row is expired   *)
(* or deleted, which no statement of the code can tell apart.              *)
(***************************************************************************)
EXTENDS Integers

CONSTANTS
  Instance,       \* the processes that are ever started
  Fingerprint,    \* hashes of the cluster configuration
  MaxVersion,     \* schema versions are 0 .. MaxVersion
  None,           \* no holder of the deployment gate, no stored configuration
  Lease,          \* LEASE_SECONDS
  RenewInterval,  \* RENEW_INTERVAL
  RenewRetry,     \* RENEW_RETRY
  RenewTimeout,   \* RENEW_TIMEOUT
  SafetyWindow,   \* LEASE_SAFETY_WINDOW
  HttpShutdown    \* HTTP_SHUTDOWN_TIMEOUT_SECONDS

\* The time from the last acknowledged renewal to the end of the shutdown.
ShutdownBudget == SafetyWindow + RenewRetry + RenewTimeout + HttpShutdown

\* The relations between the durations that the constants of cluster.rs meet
\* (60, 15, 3, 3, 30 and 10 seconds) and that the design depends on.
ASSUME TimingAssumption ==
  /\ Lease \in Nat /\ RenewInterval \in Nat /\ RenewRetry \in Nat
  /\ RenewTimeout \in Nat /\ SafetyWindow \in Nat /\ HttpShutdown \in Nat
  /\ RenewInterval < SafetyWindow + RenewRetry
  /\ RenewTimeout + ShutdownBudget <= Lease

ASSUME ConstantAssumption == None \notin Instance /\ MaxVersion \in Nat

Mode   == {"single", "cluster"}
Config == [mode: Mode, fingerprint: Fingerprint]

Phase == {"new",        \* not started
          "waiting",    \* waits for the deployment gate
          "inspecting", \* holds the gate, has not looked at the schema
          "migrating",  \* holds the gate, found no active instance
          "joining",    \* holds the gate, schema is current
          "joined",     \* holds the gate, its row is committed
          "refused",    \* holds the gate, start-up failed
          "running", "closing", "draining",
          "stopped", "crashed"}

RenewState == {"idle", "sent", "renewed", "gone"}

VARIABLES
  gate,       \* holder of the advisory lock
  schema,     \* MAX(version) of _sqlx_migrations
  baseline,   \* the rb_cluster_config row; generation 0: no row yet
  pc,         \* phase of each process
  build,      \* newest migration embedded in the process's build
  config,     \* deployment mode and fingerprint of the process
  generation, \* generation the process registered with
  lease,      \* what is left of the row's lease_until
  ready,      \* ClusterMembership.ready
  age,        \* time since last_success
  renew,      \* state of the renewal loop
  timer,      \* what is left of its sleep or of its timeout
  drain,      \* what is left of the HTTP shutdown timeout
  inflight,   \* a request admitted by the middleware is being served
  orphan      \* an abandoned renewal statement may still reach the database

vars == <<gate, schema, baseline, pc, build, config, generation, lease, ready,
          age, renew, timer, drain, inflight, orphan>>

gateVars == <<gate, schema, baseline, build, config, generation>>

\* The renewal task runs, and time matters to the process.
Looping(i) == pc[i] \in {"running", "closing"}
Leaving(i) == pc[i] \in {"closing", "draining"}
Member(i)  == Looping(i) \/ Leaving(i)

\* lease_until > clock_timestamp()
Live(i) == lease[i] > 0
Active  == {i \in Instance : Live(i)}

TypeOK ==
  /\ gate \in Instance \cup {None}
  /\ schema \in 0 .. MaxVersion
  /\ baseline \in [config: Config \cup {None}, generation: Nat]
  /\ pc \in [Instance -> Phase]
  /\ build \in [Instance -> 0 .. MaxVersion]
  /\ config \in [Instance -> Config]
  /\ generation \in [Instance -> Nat]
  /\ lease \in [Instance -> 0 .. Lease]
  /\ ready \in [Instance -> BOOLEAN]
  /\ age \in [Instance -> Nat]
  /\ renew \in [Instance -> RenewState]
  /\ timer \in [Instance -> Nat]
  /\ drain \in [Instance -> Nat]
  /\ inflight \in [Instance -> BOOLEAN]
  /\ orphan \in [Instance -> BOOLEAN]

\* cluster_fingerprint hashes the build and its schema generation too.
OneBuildPerFingerprint ==
  \A i, j \in Instance :
     config[i].fingerprint = config[j].fingerprint => build[i] = build[j]

\* The schema may have been migrated by earlier deployments; rb_cluster_config
\* is empty, its contents being what the first registration makes of them.
Init ==
  /\ gate = None
  /\ schema \in 0 .. MaxVersion
  /\ build \in [Instance -> 1 .. MaxVersion]
  /\ config \in [Instance -> Config]
  /\ OneBuildPerFingerprint
  /\ baseline = [config |-> None, generation |-> 0]
  /\ pc = [i \in Instance |-> "new"]
  /\ generation = [i \in Instance |-> 0]
  /\ lease = [i \in Instance |-> 0]
  /\ ready = [i \in Instance |-> FALSE]
  /\ age = [i \in Instance |-> 0]
  /\ renew = [i \in Instance |-> "idle"]
  /\ timer = [i \in Instance |-> 0]
  /\ drain = [i \in Instance |-> 0]
  /\ inflight = [i \in Instance |-> FALSE]
  /\ orphan = [i \in Instance |-> FALSE]

-----------------------------------------------------------------------------
(* Start-up: migrate_and_register, on one connection that holds the gate.  *)

\* main reaches migrate_and_register.
Boot(i) ==
  /\ pc[i] = "new"
  /\ pc' = [pc EXCEPT ![i] = "waiting"]
  /\ UNCHANGED <<gateVars, lease, ready, age, renew, timer, drain, inflight,
                 orphan>>

AcquireGate(i) ==
  /\ pc[i] = "waiting" /\ gate = None
  /\ gate' = i
  /\ pc' = [pc EXCEPT ![i] = "inspecting"]
  /\ UNCHANGED <<schema, baseline, build, config, generation, lease, ready,
                 age, renew, timer, drain, inflight, orphan>>

\* Mutant: migrates without ensure_no_active_instances.
InspectSchemaOnly(i) ==
  /\ pc[i] = "inspecting"
  /\ pc' = [pc EXCEPT ![i] = IF schema = build[i] THEN "joining"
                             ELSE IF schema < build[i] THEN "migrating" ELSE "refused"]
  /\ UNCHANGED <<gateVars, lease, ready, age, renew, timer, drain, inflight,
                 orphan>>

\* inspect_schema_state and, when the schema is behind, ensure_no_active_instances.
InspectSchema(i) ==
  /\ pc[i] = "inspecting"
  /\ \/ /\ schema = build[i]
        /\ pc' = [pc EXCEPT ![i] = "joining"]
     \/ /\ schema < build[i] /\ Active = {}
        /\ pc' = [pc EXCEPT ![i] = "migrating"]
     \/ /\ schema > build[i] \/ (schema < build[i] /\ Active # {})
        /\ pc' = [pc EXCEPT ![i] = "refused"]
  /\ UNCHANGED <<gateVars, lease, ready, age, renew, timer, drain, inflight,
                 orphan>>

\* migrator.run_direct applies one migration, in a transaction of its own.
Migrate(i) ==
  /\ pc[i] = "migrating" /\ schema < build[i]
  /\ schema' = schema + 1
  /\ pc' = IF schema' = build[i] THEN [pc EXCEPT ![i] = "joining"] ELSE pc
  /\ UNCHANGED <<gate, baseline, build, config, generation, lease, ready, age,
                 renew, timer, drain, inflight, orphan>>

\* The upsert of rb_cluster_config when no instance is active.
NextBaseline(c) ==
  [config |-> c,
   generation |-> IF baseline.config = c
                  THEN baseline.generation ELSE baseline.generation + 1]

\* register_instance refuses to join the active instances.
Unjoinable(i, g) ==
  \/ config[i].mode = "single"
  \/ \E j \in Active : config[j] # config[i]
  \/ baseline # [config |-> config[i], generation |-> g]

\* The row that register_instance inserts.
InsertRow(i, g) ==
  /\ generation' = [generation EXCEPT ![i] = g]
  /\ lease' = [lease EXCEPT ![i] = Lease]
  /\ pc' = [pc EXCEPT ![i] = "joined"]

RegisterFirst(i) ==
  /\ Active = {}
  /\ baseline' = NextBaseline(config[i])
  /\ InsertRow(i, NextBaseline(config[i]).generation)

\* active[0] is the oldest row; every row is of one generation (SameDeployment),
\* so any active row stands for it.
RegisterNext(i) ==
  \E j \in Active :
     \/ ~Unjoinable(i, generation[j]) /\ InsertRow(i, generation[j]) /\ UNCHANGED baseline
     \/ /\ Unjoinable(i, generation[j])
        /\ pc' = [pc EXCEPT ![i] = "refused"]
        /\ UNCHANGED <<baseline, generation, lease>>

\* The transaction of register_instance.
Register(i) ==
  /\ pc[i] = "joining"
  /\ RegisterFirst(i) \/ RegisterNext(i)
  /\ UNCHANGED <<gate, schema, build, config, ready, age, renew, timer, drain,
                 inflight, orphan>>

\* Mutant: an error returns before the unlock.
ReleaseGateOnSuccess(i) ==
  /\ pc[i] = "joined"
  /\ gate' = None
  /\ pc' = [pc EXCEPT ![i] = "running"]
  /\ UNCHANGED <<schema, baseline, build, config, generation, lease, ready,
                 age, renew, timer, drain, inflight, orphan>>

\* release_deployment_gate; main then exits or spawns the renewal task, whose
\* first renewal is due at once.
ReleaseGate(i) ==
  /\ pc[i] \in {"joined", "refused"}
  /\ gate' = None
  /\ pc' = [pc EXCEPT ![i] = IF @ = "joined" THEN "running" ELSE "stopped"]
  /\ UNCHANGED <<schema, baseline, build, config, generation, lease, ready,
                 age, renew, timer, drain, inflight, orphan>>

-----------------------------------------------------------------------------
(* The renewal loop (run, renew, mark_lost).                               *)

\* The sleep has ended: the loop calls renew under a timeout.
StartRenew(i) ==
  /\ Looping(i) /\ renew[i] = "idle" /\ timer[i] = 0
  /\ renew' = [renew EXCEPT ![i] = "sent"]
  /\ timer' = [timer EXCEPT ![i] = RenewTimeout]
  /\ UNCHANGED <<gateVars, pc, lease, ready, age, drain, inflight, orphan>>

\* The database executes the UPDATE; a row that is not live is not renewed.
ApplyRenew(i) ==
  /\ Looping(i) /\ renew[i] = "sent"
  /\ renew' = [renew EXCEPT ![i] = IF Live(i) THEN "renewed" ELSE "gone"]
  /\ lease' = [lease EXCEPT ![i] = IF Live(i) THEN Lease ELSE @]
  /\ UNCHANGED <<gateVars, pc, ready, age, timer, drain, inflight, orphan>>

\* An UPDATE that the loop no longer waits for.
ApplyOrphan(i) ==
  /\ orphan[i]
  /\ orphan' = [orphan EXCEPT ![i] = FALSE]
  /\ lease' = [lease EXCEPT ![i] = IF Live(i) THEN Lease ELSE @]
  /\ UNCHANGED <<gateVars, pc, ready, age, renew, timer, drain, inflight>>

\* Ok(Ok(true)): the stamp is that of the answer, not of the question.
RenewOk(i) ==
  /\ Looping(i) /\ renew[i] = "renewed"
  /\ age' = [age EXCEPT ![i] = 0]
  /\ ready' = [ready EXCEPT ![i] = TRUE]
  /\ renew' = [renew EXCEPT ![i] = "idle"]
  /\ timer' = [timer EXCEPT ![i] = RenewInterval]
  /\ UNCHANGED <<gateVars, pc, lease, drain, inflight, orphan>>

\* mark_lost wakes main, which cancels the background tasks and stops the
\* server gracefully; a shutdown that is already under way keeps its deadline.
MarkLost(i) ==
  /\ ready' = [ready EXCEPT ![i] = FALSE]
  /\ pc' = [pc EXCEPT ![i] = "draining"]
  /\ drain' = [drain EXCEPT ![i] = IF pc[i] = "closing" THEN @ ELSE HttpShutdown]
  /\ timer' = [timer EXCEPT ![i] = 0]

\* Ok(Ok(false)).
RenewGone(i) ==
  /\ Looping(i) /\ renew[i] = "gone"
  /\ MarkLost(i)
  /\ renew' = [renew EXCEPT ![i] = "idle"]
  /\ UNCHANGED <<gateVars, lease, age, inflight, orphan>>

\* Mutant: failures are retried for ever.
RenewRetryForever(i) ==
  /\ Looping(i) /\ renew[i] # "idle"
  /\ orphan' = [orphan EXCEPT ![i] = @ \/ renew[i] = "sent"]
  /\ renew' = [renew EXCEPT ![i] = "idle"]
  /\ timer' = [timer EXCEPT ![i] = RenewRetry]
  /\ UNCHANGED <<gateVars, pc, ready, drain, lease, age, inflight>>

\* An error, or the timeout; the statement may have been executed, or may be later.
RenewFail(i) ==
  /\ Looping(i) /\ renew[i] # "idle"
  /\ orphan' = [orphan EXCEPT ![i] = @ \/ renew[i] = "sent"]
  /\ renew' = [renew EXCEPT ![i] = "idle"]
  /\ \/ /\ age[i] >= SafetyWindow
        /\ MarkLost(i)
     \/ /\ age[i] < SafetyWindow
        /\ timer' = [timer EXCEPT ![i] = RenewRetry]
        /\ UNCHANGED <<pc, ready, drain>>
  /\ UNCHANGED <<gateVars, lease, age, inflight>>

-----------------------------------------------------------------------------
(* Requests and shutdown.                                                  *)

\* ClusterMembership::is_ready; terminal is set exactly from mark_lost on.
IsReady(i) == Looping(i) /\ ready[i] /\ age[i] < SafetyWindow

\* The readiness middleware lets a request in.
Admit(i) ==
  /\ IsReady(i)
  /\ inflight' = [inflight EXCEPT ![i] = TRUE]
  /\ UNCHANGED <<gateVars, pc, lease, ready, age, renew, timer, drain, orphan>>

Respond(i) ==
  /\ inflight[i]
  /\ inflight' = [inflight EXCEPT ![i] = FALSE]
  /\ UNCHANGED <<gateVars, pc, lease, ready, age, renew, timer, drain, orphan>>

\* A termination signal: the server stops gracefully, the renewals go on.
Terminate(i) ==
  /\ pc[i] = "running"
  /\ pc' = [pc EXCEPT ![i] = "closing"]
  /\ drain' = [drain EXCEPT ![i] = HttpShutdown]
  /\ UNCHANGED <<gateVars, lease, ready, age, renew, timer, inflight, orphan>>

\* The memory of the process is gone; a statement it has sent may still run.
Exit(i, phase) ==
  /\ pc' = [pc EXCEPT ![i] = phase]
  /\ inflight' = [inflight EXCEPT ![i] = FALSE]
  /\ ready' = [ready EXCEPT ![i] = FALSE]
  /\ orphan' = [orphan EXCEPT ![i] = @ \/ renew[i] = "sent"]
  /\ renew' = [renew EXCEPT ![i] = "idle"]
  /\ age' = [age EXCEPT ![i] = 0]
  /\ timer' = [timer EXCEPT ![i] = 0]
  /\ drain' = [drain EXCEPT ![i] = 0]
  /\ UNCHANGED <<schema, baseline, build, config, generation>>

\* The server has stopped, when its requests have ended or the timeout cut them
\* off; ClusterMembership::shutdown deletes the row, or only logs the failure.
Stop(i) ==
  /\ Leaving(i) /\ (inflight[i] => drain[i] = 0)
  /\ Exit(i, "stopped")
  /\ lease' \in {lease, [lease EXCEPT ![i] = 0]}
  /\ UNCHANGED gate

\* The process dies; closing its connection frees the gate, the row stays.
Crash(i) ==
  /\ pc[i] \notin {"new", "stopped", "crashed"}
  /\ Exit(i, "crashed")
  /\ gate' = IF gate = i THEN None ELSE gate
  /\ UNCHANGED lease

-----------------------------------------------------------------------------

Countdown(n) == IF n > 0 THEN n - 1 ELSE 0

\* One unit of time.  A timer of a running process fires on time: the clock does
\* not move past a due sleep, renewal timeout or shutdown timeout.
Tick ==
  /\ \A i \in Instance : /\ Looping(i) => timer[i] > 0
                         /\ Leaving(i) => drain[i] > 0
  /\ lease' = [i \in Instance |-> Countdown(lease[i])]
  /\ age' = [i \in Instance |-> IF Member(i) THEN age[i] + 1 ELSE age[i]]
  /\ timer' = [i \in Instance |-> Countdown(timer[i])]
  /\ drain' = [i \in Instance |-> Countdown(drain[i])]
  /\ UNCHANGED <<gateVars, pc, ready, renew, inflight, orphan>>

Step(i) ==
  \/ Boot(i) \/ AcquireGate(i) \/ InspectSchema(i) \/ Migrate(i)
  \/ Register(i) \/ ReleaseGate(i)
  \/ StartRenew(i) \/ ApplyRenew(i) \/ ApplyOrphan(i)
  \/ RenewOk(i) \/ RenewGone(i) \/ RenewFail(i)
  \/ Admit(i) \/ Respond(i) \/ Terminate(i) \/ Stop(i) \/ Crash(i)

Next == Tick \/ \E i \in Instance : Step(i)

Spec == Init /\ [][Next]_vars

\* Time passes, the database answers or the connection fails, timers fire, and
\* PostgreSQL grants an advisory lock in the order of the requests.
Fairness ==
  /\ WF_vars(Tick)
  /\ \A i \in Instance :
       /\ SF_vars(AcquireGate(i))
       /\ WF_vars(InspectSchema(i) \/ Migrate(i) \/ Register(i) \/ ReleaseGate(i))
       /\ WF_vars(StartRenew(i) \/ RenewOk(i) \/ RenewGone(i) \/ RenewFail(i))
       /\ WF_vars(Stop(i))

FairSpec == Spec /\ Fairness

-----------------------------------------------------------------------------
(* Properties.                                                             *)

\* The process serves a request, or runs its schedulers and subscribers.
Working(i) == inflight[i] \/ (Looping(i) /\ ready[i])

\* A process that works holds a live lease, whatever delays, lost answers and
\* shutdowns there are (the budget of LEASE_SAFETY_WINDOW and of the test
\* shutdown_budget_finishes_well_before_lease_expiry).
WorkUnderLease == \A i \in Instance : Working(i) => Live(i)

\* A process works on the schema of its own build, and no process works while
\* another one migrates (ensure_no_active_instances, the SchemaState checks).
WorkOnOwnSchema ==
  \A i \in Instance :
     Working(i) => /\ schema = build[i]
                   /\ \A j \in Instance : pc[j] # "migrating"

\* The live rows belong to one deployment: one configuration, one generation,
\* that of rb_cluster_config; and a "single" instance is alone.
SameDeployment ==
  \A i \in Active :
     /\ baseline = [config |-> config[i], generation |-> generation[i]]
     /\ config[i].mode = "single" => Active = {i}

\* A lease that has expired or was deleted is never renewed
\* (expired_lease_cannot_be_resurrected_and_loss_notification_is_sticky).
NoResurrection ==
  [][\A i \in Instance : lease[i] = 0 /\ lease'[i] > 0 => pc[i] = "joining"]_vars

\* Nobody keeps the deployment gate for ever.
GateReleased == \A i \in Instance : gate = i ~> gate # i

\* A process that has lost its membership ends, and its row stops counting as
\* active: a deployment that was refused because of it can go on.
LossEnds == \A i \in Instance :
  pc[i] \in {"draining", "crashed"} ~> pc[i] \in {"stopped", "crashed"} /\ ~Live(i)

\* A deployment never blocks the next one: neither the gate nor the row of a process that
\* went wrong stays.
NothingStuck == GateReleased /\ LossEnds

-----------------------------------------------------------------------------
(* The inductive invariant behind them.                                    *)

\* Start-up is sequential: a process between the two gate statements holds it.
GateExclusion ==
  \A i \in Instance :
     pc[i] \in {"inspecting", "migrating", "joining", "joined", "refused"} => gate = i

\* A process has no row before it registers, and none while another migrates.
RowsAfterJoin ==
  \A i \in Instance :
     /\ pc[i] \in {"new", "waiting", "inspecting", "migrating", "joining"} => ~Live(i)
     /\ pc[i] = "migrating" => Active = {}

\* The schema cannot move under a live row.
SchemaOfRows ==
  \A i \in Instance :
     /\ Live(i) => schema = build[i]
     /\ pc[i] \in {"joining", "joined"} => schema = build[i]

\* How old the last renewal can be in each state of the loop and of the shutdown.
AgeBound ==
  \A i \in Instance :
     /\ Looping(i) /\ renew[i] = "idle" => age[i] + timer[i] < SafetyWindow + RenewRetry
     /\ Looping(i) /\ renew[i] # "idle" =>
          /\ timer[i] <= RenewTimeout
          /\ age[i] + timer[i] < SafetyWindow + RenewRetry + RenewTimeout
     /\ ~Looping(i) => renew[i] = "idle" /\ timer[i] = 0
     /\ ~Member(i) => age[i] = 0
     /\ pc[i] = "closing" => drain[i] <= HttpShutdown
     /\ pc[i] = "draining" => age[i] + drain[i] < ShutdownBudget

\* What a process that works knows of its row from the age of its last renewal.
LeaseBound ==
  \A i \in Instance :
     /\ renew[i] = "renewed" => lease[i] >= Lease - RenewTimeout + timer[i]
     /\ ready[i] => Looping(i)
     /\ inflight[i] => Member(i)
     /\ ready[i] \/ inflight[i] => lease[i] + age[i] >= Lease - RenewTimeout

=============================================================================
