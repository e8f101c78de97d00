--------------------------- MODULE SystemSettings ---------------------------
(***************************************************************************)
(* The one row of settings and the copy every process keeps of it          *)
(* (src/src/db/system_settings.rs, src/src/module/system_settings.rs,      *)
(* src/src/api/admin/system_settings.rs).                                  *)
(*                                                                         *)
(* An update takes the time its statement began as its stamp, so a stamp   *)
(* stands for the settings it wrote.  The process that updated keeps what  *)
(* it wrote; the others learn of it over Redis, whose messages may be lost,*)
(* and read the row every 30 s; they keep what has the later stamp.        *)
(***************************************************************************)
EXTENDS Integers

CONSTANTS
  Process,
  MaxUpdates, MaxFaults   \* bounds of the model

VARIABLES
  row,        \* updated_at of rb_system_settings
  clock,      \* the last stamp given
  up,         \* the processes that run
  cache,      \* AppState.system_settings
  update,     \* an administrator's request at each process
  subscribed, inbox,   \* the subscription, and whether messages wait in it
  hand,       \* what the subscriber and the reconciler have read
  overtaken,  \* history: an update replaced one with a later stamp
  faults

vars == <<row, clock, up, cache, update, subscribed, inbox, hand, overtaken, faults>>

Task == {"subscriber", "reconciler"}
Nothing == 0
Idle == [pc |-> "idle", stamp |-> Nothing]

TypeOK ==
  /\ row \in 1..MaxUpdates + 1 /\ clock \in 1..MaxUpdates + 1
  /\ up \subseteq Process /\ subscribed \subseteq up /\ inbox \subseteq subscribed
  /\ cache \in [Process -> 0..MaxUpdates + 1]
  /\ update \in [Process -> [pc: {"idle", "sent", "adopt", "publish"}, stamp: 0..MaxUpdates + 1]]
  /\ hand \in [Process -> [Task -> 0..MaxUpdates + 1]]
  /\ overtaken \in BOOLEAN /\ faults \in 0..MaxFaults

Init ==
  /\ row = 1 /\ clock = 1 /\ up = {}
  /\ cache = [p \in Process |-> Nothing] /\ update = [p \in Process |-> Idle]
  /\ subscribed = {} /\ inbox = {}
  /\ hand = [p \in Process |-> [t \in Task |-> Nothing]]
  /\ overtaken = FALSE /\ faults = 0
-----------------------------------------------------------------------------
(* A process starts, and may stop at any moment. *)

\* In a cluster a process reads the row; one that is alone first turns off what
\* it cannot provide, and tells nobody (disable_unavailable_auth_features).
Boot(p) ==
  /\ p \notin up /\ up' = up \cup {p}
  /\ \/ UNCHANGED <<row, clock>>
     \/ up = {} /\ clock <= MaxUpdates /\ clock' = clock + 1 /\ row' = clock + 1
  /\ cache' = [cache EXCEPT ![p] = row']
  /\ UNCHANGED <<update, subscribed, inbox, hand, overtaken, faults>>

Crash(p) ==
  /\ p \in up /\ faults < MaxFaults /\ faults' = faults + 1
  /\ up' = up \ {p} /\ subscribed' = subscribed \ {p} /\ inbox' = inbox \ {p}
  /\ cache' = [cache EXCEPT ![p] = Nothing] /\ update' = [update EXCEPT ![p] = Idle]
  /\ hand' = [hand EXCEPT ![p] = [t \in Task |-> Nothing]]
  /\ UNCHANGED <<row, clock, overtaken>>
-----------------------------------------------------------------------------
(* An administrator's update. *)

Update(p) ==
  /\ p \in up /\ update[p].pc = "idle" /\ clock <= MaxUpdates
  /\ clock' = clock + 1
  /\ update' = [update EXCEPT ![p] = [pc |-> "sent", stamp |-> clock']]
  /\ UNCHANGED <<row, up, cache, subscribed, inbox, hand, overtaken, faults>>

\* PostgreSQL takes the statements one after the other, in any order.
Commit(p) ==
  /\ update[p].pc = "sent"
  /\ row' = update[p].stamp /\ overtaken' = (overtaken \/ row' < row)
  /\ update' = [update EXCEPT ![p].pc = "adopt"]
  /\ UNCHANGED <<clock, up, cache, subscribed, inbox, hand, faults>>

Adopt(p) ==
  /\ update[p].pc = "adopt"
  /\ cache' = [cache EXCEPT ![p] = update[p].stamp]
  /\ update' = [update EXCEPT ![p].pc = "publish"]
  /\ UNCHANGED <<row, clock, up, subscribed, inbox, hand, overtaken, faults>>

\* Redis delivers to whoever is subscribed, or cannot be reached.
Publish(p) ==
  /\ update[p].pc = "publish" /\ update' = [update EXCEPT ![p] = Idle]
  /\ \/ inbox' = subscribed /\ UNCHANGED faults
     \/ faults < MaxFaults /\ faults' = faults + 1 /\ UNCHANGED inbox
  /\ UNCHANGED <<row, clock, up, cache, subscribed, hand, overtaken>>
-----------------------------------------------------------------------------
(* The tasks of a process. *)

Subscribe(p) ==
  /\ p \in up \ subscribed /\ subscribed' = subscribed \cup {p}
  /\ UNCHANGED <<row, clock, up, cache, update, inbox, hand, overtaken, faults>>

Disconnect(p) ==
  /\ p \in subscribed /\ hand[p]["subscriber"] = Nothing
  /\ faults < MaxFaults /\ faults' = faults + 1
  /\ subscribed' = subscribed \ {p} /\ inbox' = inbox \ {p}
  /\ UNCHANGED <<row, clock, up, cache, update, hand, overtaken>>

\* Nobody looks at the row unless told to.
ReadOnMessage(p, t) == p \in up /\ t = "subscriber" /\ hand[p][t] = Nothing /\ p \in inbox /\ inbox' = inbox \ {p} /\ hand' = [hand EXCEPT ![p][t] = row] /\ UNCHANGED <<row, clock, up, cache, update, subscribed, overtaken, faults>>

\* apply_latest_from_db reads the row, on a message or every 30 s ...
Read(p, t) ==
  /\ p \in up /\ hand[p][t] = Nothing
  /\ IF t = "subscriber" THEN p \in inbox /\ inbox' = inbox \ {p} ELSE UNCHANGED inbox
  /\ hand' = [hand EXCEPT ![p][t] = row]
  /\ UNCHANGED <<row, clock, up, cache, update, subscribed, overtaken, faults>>

\* ... and keeps the later of the two.
Apply(p, t) ==
  /\ hand[p][t] # Nothing /\ hand' = [hand EXCEPT ![p][t] = Nothing]
  /\ cache' = [cache EXCEPT ![p] = IF @ >= hand[p][t] THEN @ ELSE hand[p][t]]
  /\ UNCHANGED <<row, clock, up, update, subscribed, inbox, overtaken, faults>>

Answering(p) == Commit(p) \/ Adopt(p) \/ Publish(p)
Listen(p)  == Subscribe(p) \/ Read(p, "subscriber") \/ Apply(p, "subscriber")
Reconcile(p) == Read(p, "reconciler") \/ Apply(p, "reconciler")

Next == \E p \in Process :
  \/ Boot(p) \/ Crash(p) \/ Update(p) \/ Answering(p)
  \/ Listen(p) \/ Disconnect(p) \/ Reconcile(p)

\* A process that stopped is started again; its tasks and requests go on.
Fairness == \A p \in Process :
  WF_vars(Boot(p)) /\ WF_vars(Answering(p)) /\ WF_vars(Listen(p)) /\ WF_vars(Reconcile(p))

Spec == Init /\ [][Next]_vars /\ Fairness
-----------------------------------------------------------------------------
(* Properties *)

\* After the last update every process comes to work by the settings in the
\* row, whatever messages were lost and whichever process was started
\* meanwhile (run_reconciler), unless an update was overtaken: its stamp is
\* earlier than one that some process has, and that process ignores it.
SettingsConverge == <>[](overtaken \/ \A p \in Process : cache[p] = row)
=============================================================================
