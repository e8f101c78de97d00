------------------------------- MODULE SyncHub -------------------------------
(***************************************************************************)
(* The WebSocket hub of the backend (src/module/sync.rs).  Every process   *)
(* runs one hub; a connection belongs to the hub that accepted it.  Redis  *)
(* keeps, per user, the connections in the order in which they registered  *)
(* and a lease per connection, and carries the commands that one hub       *)
(* publishes for the connections of all of them.  The hubs share nothing   *)
(* else: the limit of connections per user is kept by four Lua scripts     *)
(* (each one atomic), by commands that may be lost, and by a periodic      *)
(* renewal that finds what was missed.                                     *)
(*                                                                         *)
(* A connection is followed from the request that opens it to the last     *)
(* statement of its task.  What is sent to the clients is left out, but    *)
(* not that sending may find the queue of a slow client full.              *)
(***************************************************************************)
EXTENDS Naturals, FiniteSets

CONSTANTS
  Hub,         \* the processes, each with its hub
  User,        \* the users
  Conn,        \* the requests for a connection
  Home,        \* Home[c]: the hub that request c reaches
  UserOf,      \* UserOf[c]: the user that makes request c
  Slow,        \* the requests whose client may, for a while or for good, not read
  None,        \* no lease
  Limits,      \* the values that max_websocket_connections may take
  MaxEvents    \* bound: how often, in all, Redis fails a hub for long, a process
               \* ends, or a hub applies a new limit

\* Assumed of the constants
ConstantAssumption ==
  /\ Home \in [Conn -> Hub] /\ UserOf \in [Conn -> User]
  /\ Limits # {} /\ Limits \subseteq Nat \ {0} /\ Slow \subseteq Conn
  /\ None \notin Hub /\ MaxEvents \in Nat

VARIABLES
  phase,    \* phase[c]: where the request or the task of c is
  want,     \* want[c]: the limit that the request of c read when it began
  evicted,  \* evicted[x]: connections that handler x has yet to publish as evicted
  listed,   \* the connections whose handle is in "users" of their hub
  closing,  \* the connections whose task has a close request to act on
  lease,    \* Redis: the hub that holds the lease of a connection, or None
  score,    \* Redis: the score of a connection in the sorted set of its user, 0 if
            \* it is not in it
  clock,    \* Redis: TIME, which gives the scores, counted in registrations: it has
            \* microseconds, and does not go back
  inbox,    \* connections with a close command on its way to their hub
  bus,      \* bus[h]: the subscription of hub h
  alive,    \* alive[h]: the process of hub h
  limit,    \* limit[h]: the limit in the settings that process h has
  trims,    \* trims[h]: the users that hub h has yet to trim to a new limit
  cut,      \* history: where a connection that goes on was when its hub closed all
  events    \* the counter of MaxEvents

redis  == <<lease, score, clock>>
local  == <<listed, closing>>
hubs   == <<inbox, bus, alive, limit, trims>>
vars   == <<phase, want, evicted, listed, closing, redis, inbox, bus,
            alive, limit, trims, cut, events>>

Phase ==
  { "free",        \* no request yet
    "accepted",    \* create_ws saw that the hub is ready
    "registered",  \* the registration script has answered
    "spawned",     \* its handle is in "users" and "connections", its task is spawned
    "running",     \* its task has begun, and watches for close requests
    "sending",     \* its task writes to the client, and waits until that one reads
    "leaving",     \* its task has left the loop
    "emptied",     \* and removed its handle, where it was the user's last
    "unlisted",    \* and, if so, removed the user's entry
    "gone" }       \* refused, or its task has ended

Init ==
  /\ phase = [c \in Conn |-> "free"]
  /\ \E m \in Limits : limit = [h \in Hub |-> m] /\ want = [c \in Conn |-> m]
  /\ evicted = [x \in Conn \cup Hub |-> {}]
  /\ listed = {} /\ closing = {}
  /\ cut = [c \in Conn |-> "free"]
  /\ lease = [c \in Conn |-> None]
  /\ score = [c \in Conn |-> 0] /\ clock = 0
  /\ inbox = {}
  /\ bus = [h \in Hub |-> "off"]
  /\ alive = [h \in Hub |-> "up"]
  /\ trims = [h \in Hub |-> {}]
  /\ events = 0

\* The phases in which the task of a connection is subscribed to close requests.
Begun == {"running", "sending"}

\* WsSessionHandle::close sets a watched value.  The task of a connection
\* subscribes to it when it begins to run, and takes what was set before for
\* seen: a request to close a connection that is only spawned is not noticed.
RequestClose(cs) == closing' = closing \cup {c \in cs : phase[c] \in Begun}

\* The task of c has left its loop, or will never run.
Ended == {"leaving", "emptied", "unlisted", "gone"}

Leased(u) == {c \in Conn : UserOf[c] = u /\ lease[c] # None}

-----------------------------------------------------------------------------
(* Redis: the scripts                                                       *)

\* Mutant: the scripts count the entries of dead connections.
LivingAll(u) == {c \in Conn : UserOf[c] = u /\ score[c] # 0}

\* The connections of u that hold a lease: the scripts drop the others from the
\* sorted set before they count.
Living(u) == {c \in Conn : UserOf[c] = u /\ score[c] # 0 /\ lease[c] # None}

\* The end of both scripts that evict: of the connections in cs the oldest that
\* are more than m lose their lease and their place.
Excess(cs, m) == IF Cardinality(cs) > m THEN Cardinality(cs) - m ELSE 0
Oldest(cs, at, m) ==
  {out \in SUBSET cs : /\ Cardinality(out) = Excess(cs, m)
                       /\ \A d \in out, e \in cs \ out : at[d] < at[e]}
Keep(u, cs, at) == score' = [d \in Conn |-> IF UserOf[d] = u /\ d \notin cs THEN 0 ELSE at[d]]

\* REGISTER_CONNECTION_SCRIPT
RegisterScript(c) ==
  LET cs == Living(UserOf[c]) \cup {c}
      at == [score EXCEPT ![c] = clock + 1]
  IN  \E out \in Oldest(cs, at, want[c]) :
        /\ lease' = [d \in Conn |-> IF d \in out THEN None
                                    ELSE IF d = c THEN Home[c] ELSE lease[d]]
        /\ Keep(UserOf[c], cs \ out, at) /\ clock' = clock + 1
        /\ evicted' = [evicted EXCEPT ![c] = out]

\* TRIM_CONNECTIONS_SCRIPT
TrimScript(h, u) ==
  \E out \in Oldest(Living(u), score, limit[h]) :
    /\ lease' = [d \in Conn |-> IF d \in out THEN None ELSE lease[d]]
    /\ Keep(u, Living(u) \ out, score) /\ UNCHANGED clock
    /\ evicted' = [evicted EXCEPT ![h] = @ \cup out]

\* UNREGISTER_CONNECTION_SCRIPT
UnregisterScript(c) ==
  /\ lease' = [lease EXCEPT ![c] = IF @ = Home[c] THEN None ELSE @]
  /\ score' = [score EXCEPT ![c] = 0] /\ UNCHANGED clock

\* Mutant: remove_connection leaves the connection in "connections", and it is renewed.
MappedForever(h) == {c \in Conn : Home[c] = h /\ phase[c] \in {"spawned"} \cup Begun \cup Ended}

\* The connections in the map "connections" of hub h.
Mapped(h) == {c \in Conn : Home[c] = h /\ phase[c] \in {"spawned", "leaving"} \cup Begun}

\* One more of the bounded events.
Event == events < MaxEvents /\ events' = events + 1

\* A lease that no renewal reached for CONNECTION_LEASE_SECONDS is gone.  The
\* lease of a mapped connection is renewed every 20 seconds, so that it takes
\* an outage of Redis to lose it.
Expire(c) ==
  /\ lease[c] # None
  /\ lease' = [lease EXCEPT ![c] = None]
  /\ IF c \in Mapped(Home[c]) /\ alive[Home[c]] = "up"
       THEN Event
       ELSE UNCHANGED events
  /\ UNCHANGED <<phase, want, evicted, local, score, clock, hubs, cut>>

\* publish_command: the command reaches the hubs that are subscribed at that
\* moment, and does nothing at those that do not have the connection (any more).
\* An error, or no subscriber, is only logged.
Subscribed(h) == bus[h] = "ready"
Publish(x) ==
  /\ evicted' = [evicted EXCEPT ![x] = {}]
  /\ \/ inbox' = inbox \cup {c \in evicted[x] : Subscribed(Home[c]) /\ phase[c] \notin Ended}
     \/ UNCHANGED inbox

-----------------------------------------------------------------------------
(* A connection: create_ws, its task, remove_connection                     *)

To(c, p) == phase' = [phase EXCEPT ![c] = p]

\* is_ready, after the handler has read the limit from the settings.
Ready(h) == alive[h] = "up" /\ bus[h] \in {"ready", "broken"}
Accept(c) ==
  /\ phase[c] = "free" /\ Ready(Home[c])
  /\ To(c, "accepted")
  /\ want' = [want EXCEPT ![c] = limit[Home[c]]]
  /\ UNCHANGED <<evicted, local, redis, hubs, cut, events>>

Register(c) ==
  /\ phase[c] = "accepted"
  /\ To(c, "registered")
  /\ RegisterScript(c)
  /\ UNCHANGED <<want, local, hubs, cut, events>>

\* The script fails, or has run and its answer is lost: the request ends with
\* 503, and nobody publishes what was evicted.
RegisterFails(c) ==
  /\ phase[c] = "accepted"
  /\ To(c, "gone")
  /\ UNCHANGED <<want, evicted, local, redis, hubs, cut, events>>

RegisterAnswerLost(c) ==
  /\ phase[c] = "registered"
  /\ To(c, "gone")
  /\ evicted' = [evicted EXCEPT ![c] = {}]
  /\ UNCHANGED <<want, local, redis, hubs, cut, events>>

\* The two maps are filled, and the task spawned, without an await in between.
Spawn(c) ==
  /\ phase[c] = "registered"
  /\ To(c, "spawned")
  /\ listed' = listed \cup {c}
  /\ UNCHANGED <<want, evicted, closing, redis, hubs, cut, events>>

\* The handler publishes the evicted connections while the task runs.
PublishEvicted(c) ==
  /\ evicted[c] # {} /\ phase[c] # "registered"
  /\ Publish(c)
  /\ UNCHANGED <<phase, want, local, redis, bus, alive, limit, trims, cut, events>>

Run(c) ==
  /\ phase[c] = "spawned"
  /\ To(c, "running")
  /\ UNCHANGED <<want, evicted, local, redis, hubs, cut, events>>

\* A push that finds the queue of a listed connection full (dispatch, push).
Overflow(c) ==
  /\ c \in listed \cup Mapped(Home[c]) /\ Subscribed(Home[c]) /\ alive[Home[c]] = "up"
  /\ RequestClose({c})
  /\ UNCHANGED <<phase, want, evicted, listed, redis, hubs, cut, events>>

\* The task writes a message, a pong or a close frame, and the client has not
\* read what it was sent before: the arm of the select waits, and no other is
\* looked at.
Send(c) ==
  /\ phase[c] = "running" /\ c \in Slow
  /\ To(c, "sending")
  /\ UNCHANGED <<want, evicted, local, redis, hubs, cut, events>>

\* The client reads.  A task that was about to close still has its request.
Sent(c) ==
  /\ phase[c] = "sending"
  /\ To(c, "running")
  /\ UNCHANGED <<want, evicted, local, redis, hubs, cut, events>>

\* The client closes, the stream fails or writing to it does, or the client has
\* been silent for CLIENT_TIMEOUT when check_alive asks.
Leave(c) ==
  /\ phase[c] \in Begun
  /\ To(c, "leaving")
  /\ closing' = closing \ {c}
  /\ inbox' = inbox \ {c}                                  \* without effect from now on
  /\ cut' = [cut EXCEPT ![c] = "free"]
  /\ UNCHANGED <<want, evicted, listed, redis, bus, alive, limit, trims, events>>

\* The task acts on a close request, when it comes to look at it.
Close(c) == phase[c] = "running" /\ c \in closing /\ Leave(c)

\* The other handles that "users" has for the user of c on its hub.
Beside(c) == {d \in listed \ {c} : Home[d] = Home[c] /\ UserOf[d] = UserOf[c]}

\* Mutant: remove_connection removes only the last handle of a user.
UnlistLast(c) ==
  /\ phase[c] = "leaving"
  /\ To(c, IF c \in listed /\ Beside(c) = {} THEN "emptied" ELSE "unlisted")
  /\ listed' = IF Beside(c) = {} THEN listed \ {c} ELSE listed
  /\ UNCHANGED <<want, evicted, closing, redis, hubs, cut, events>>

Unlist(c) ==
  /\ phase[c] = "leaving"
  /\ To(c, IF c \in listed /\ Beside(c) = {} THEN "emptied" ELSE "unlisted")
  /\ listed' = listed \ {c}
  /\ UNCHANGED <<want, evicted, closing, redis, hubs, cut, events>>

\* The entry was released in between: handles pushed since then go with it.
DropUser(c) ==
  /\ phase[c] = "emptied"
  /\ To(c, "unlisted")
  /\ listed' = listed \ Beside(c)
  /\ UNCHANGED <<want, evicted, closing, redis, hubs, cut, events>>

Unregister(c) ==
  /\ phase[c] = "unlisted"
  /\ To(c, "gone")
  /\ \/ UnregisterScript(c)
     \/ UNCHANGED redis
  /\ UNCHANGED <<want, evicted, local, hubs, cut, events>>

-----------------------------------------------------------------------------
(* A hub: subscriber, cleanup, settings, shutdown                           *)

\* subscribe_once: what arrives between the subscription and bus_ready waits in
\* the stream until the first dispatch.
Subscribe(h) ==
  /\ alive[h] = "up" /\ bus[h] = "off"
  /\ bus' = [bus EXCEPT ![h] = "ready"]
  /\ UNCHANGED <<phase, want, evicted, local, redis, inbox, alive, limit, trims, cut, events>>

\* dispatch of a CloseConnections command, for one of its targets.
Dispatch(c) ==
  /\ alive[Home[c]] = "up" /\ bus[Home[c]] = "ready" /\ c \in inbox
  /\ inbox' = inbox \ {c}
  /\ RequestClose({c})
  /\ UNCHANGED <<phase, want, evicted, listed, redis, bus, alive, limit, trims, cut, events>>

\* The subscription breaks, and what was on its way is lost.
Disconnect(h) ==
  /\ alive[h] = "up" /\ Subscribed(h)
  /\ bus' = [bus EXCEPT ![h] = "broken"]
  /\ inbox' = {c \in inbox : Home[c] # h}
  /\ Event
  /\ UNCHANGED <<phase, want, evicted, local, redis, alive, limit, trims, cut>>

\* mark_bus_unavailable
MarkUnavailable(h) ==
  /\ alive[h] = "up" /\ bus[h] = "broken"
  /\ bus' = [bus EXCEPT ![h] = "off"]
  /\ RequestClose(Mapped(h))
  /\ cut' = [c \in Conn |-> IF c \in Mapped(h) /\ phase[c] \notin Ended THEN phase[c] ELSE cut[c]]
  /\ UNCHANGED <<phase, want, evicted, listed, redis, inbox, alive, limit, trims, events>>

\* cleanup: the handles whose task has ended leave "users" ...
Sweep(h) ==
  /\ alive[h] = "up"
  /\ listed' = {c \in listed : Home[c] = h => phase[c] # "leaving"}
  /\ UNCHANGED <<phase, want, evicted, closing, redis, hubs, cut, events>>

\* ... and RENEW_CONNECTIONS_SCRIPT renews the lease of a connection that
\* still has it; the others are asked to close.
Renew(c) ==
  /\ alive[Home[c]] = "up" /\ c \in Mapped(Home[c]) /\ lease[c] # Home[c]
  /\ RequestClose({c})
  /\ UNCHANGED <<phase, want, evicted, listed, redis, hubs, cut, events>>

\* A new limit arrives with the settings: enforce_connection_limit trims the
\* users that have a handle here.
ApplyLimit(h, m) ==
  /\ alive[h] = "up" /\ trims[h] = {} /\ evicted[h] = {} /\ m # limit[h]
  /\ limit' = [limit EXCEPT ![h] = m]
  /\ trims' = [trims EXCEPT ![h] = {UserOf[c] : c \in {d \in listed : Home[d] = h}}]
  /\ Event
  /\ UNCHANGED <<phase, want, evicted, local, redis, inbox, bus, alive, cut>>

Trim(h, u) ==
  /\ alive[h] = "up" /\ u \in trims[h]
  /\ trims' = [trims EXCEPT ![h] = @ \ {u}]
  /\ \/ TrimScript(h, u)
     \/ UNCHANGED <<redis, evicted>>                        \* the script fails
  /\ UNCHANGED <<phase, want, local, inbox, bus, alive, limit, cut, events>>

PublishTrimmed(h) ==
  /\ alive[h] = "up" /\ trims[h] = {} /\ evicted[h] # {}
  /\ Publish(h)
  /\ UNCHANGED <<phase, want, local, redis, bus, alive, limit, trims, cut, events>>

\* The process ends: shutdown, after the background tasks have stopped, asks
\* its connections to close ...
Stop(h) ==
  /\ alive[h] = "up"
  /\ alive' = [alive EXCEPT ![h] = "stopping"]
  /\ bus' = [bus EXCEPT ![h] = "off"]
  /\ inbox' = {c \in inbox : Home[c] # h}
  /\ trims' = [trims EXCEPT ![h] = {}]
  /\ evicted' = [evicted EXCEPT ![h] = {}]
  /\ RequestClose(Mapped(h))
  /\ Event
  /\ UNCHANGED <<phase, want, listed, redis, limit, cut>>

\* ... gives up their leases one by one ...
Release(c) ==
  /\ alive[Home[c]] = "stopping" /\ lease[c] = Home[c] /\ c \in Mapped(Home[c])
  /\ UnregisterScript(c)
  /\ UNCHANGED <<phase, want, evicted, local, hubs, cut, events>>

\* ... and exits; a process that is killed does only this.
Exit(h) ==
  /\ alive[h] # "down"
  /\ alive' = [alive EXCEPT ![h] = "down"]
  /\ phase' = [c \in Conn |-> IF Home[c] = h THEN "gone" ELSE phase[c]]
  /\ evicted' = [x \in Conn \cup Hub |->
                   IF x = h \/ (x \in Conn /\ Home[x] = h) THEN {} ELSE evicted[x]]
  /\ listed' = {c \in listed : Home[c] # h}
  /\ closing' = {c \in closing : Home[c] # h}
  /\ bus' = [bus EXCEPT ![h] = "off"]
  /\ inbox' = {c \in inbox : Home[c] # h}
  /\ trims' = [trims EXCEPT ![h] = {}]
  /\ cut' = [c \in Conn |-> IF Home[c] = h THEN "free" ELSE cut[c]]
  /\ IF alive[h] = "up" THEN Event ELSE UNCHANGED events
  /\ UNCHANGED <<want, redis, limit>>

-----------------------------------------------------------------------------
HandlerStep(c) ==
  \/ Register(c) \/ RegisterFails(c) \/ RegisterAnswerLost(c) \/ Spawn(c)
  \/ Run(c)
TaskEnd(c) == Unlist(c) \/ DropUser(c) \/ Unregister(c)
ConnStep(c) ==
  \/ Accept(c) \/ HandlerStep(c) \/ PublishEvicted(c) \/ Overflow(c) \/ Dispatch(c)
  \/ Send(c) \/ Sent(c) \/ Leave(c) \/ TaskEnd(c) \/ Expire(c) \/ Renew(c) \/ Release(c)
HubStep(h) ==
  \/ Subscribe(h) \/ Disconnect(h) \/ MarkUnavailable(h) \/ Sweep(h)
  \/ PublishTrimmed(h) \/ Stop(h) \/ Exit(h)
  \/ \E m \in Limits : ApplyLimit(h, m)
  \/ \E u \in User : Trim(h, u)

Next == (\E c \in Conn : ConnStep(c)) \/ (\E h \in Hub : HubStep(h))

Spec == Init /\ [][Next]_vars

\* Handlers and ending tasks go on (their awaits end, with errors if need be);
\* the subscriber notices a broken stream and the renewal runs every 20 seconds;
\* a lease that no hub renews any more runs out.  A task that comes back to its
\* select again and again takes a close request in the end: select! looks at the
\* arms that are ready in a random order.  Clients need not do anything, reading
\* what they are sent included, and no fault need happen.
Unrenewed(c) == c \notin Mapped(Home[c])
Fairness ==
  /\ \A c \in Conn :
       /\ WF_vars(HandlerStep(c)) /\ SF_vars(Close(c)) /\ WF_vars(TaskEnd(c))
       /\ WF_vars(Renew(c)) /\ WF_vars(Unrenewed(c) /\ Expire(c))
  /\ \A h \in Hub : WF_vars(MarkUnavailable(h)) /\ WF_vars(alive[h] = "stopping" /\ Exit(h))

FairSpec == Spec /\ Fairness

-----------------------------------------------------------------------------
(* Properties                                                               *)

\* Types, and what the phases say of the shared maps: only a connection whose
\* handler has come that far is listed or in Redis, a handle leaves "users"
\* before its task ends, and every lease has a place in its user's set.
TypeOK ==
  /\ phase \in [Conn -> Phase] /\ want \in [Conn -> Limits]
  /\ evicted \in [Conn \cup Hub -> SUBSET Conn]
  /\ listed \subseteq Conn /\ closing \subseteq Conn
  /\ cut \in [Conn -> {"free", "spawned"} \cup Begun]
  /\ lease \in [Conn -> Hub \cup {None}]
  /\ clock \in Nat /\ score \in [Conn -> 0 .. clock]
  /\ inbox \subseteq Conn
  /\ bus \in [Hub -> {"off", "ready", "broken"}]
  /\ alive \in [Hub -> {"up", "stopping", "down"}]
  /\ limit \in [Hub -> Limits] /\ trims \in [Hub -> SUBSET User]
  /\ events \in 0 .. MaxEvents
  /\ \A c \in listed : phase[c] \notin {"free", "accepted", "registered", "emptied", "unlisted", "gone"}
  /\ \A c \in Conn : phase[c] \in {"free", "accepted"} => lease[c] = None
  /\ \A c \in Conn : lease[c] # None => score[c] # 0

Least(m, n) == IF m < n THEN m ELSE n

\* The limit is exact across the hubs.  A registration leaves its user with as
\* many leases as the limit that its handler read allows, its own among them; a
\* trim that does anything leaves as many as the new limit allows.  They take
\* leases away only when living connections exceed the limit, however many
\* entries of dead ones the set still has.
LimitExact ==
  [][/\ \A c \in Conn : phase[c] = "accepted" /\ phase'[c] = "registered"
          => /\ lease'[c] = Home[c]
             /\ Cardinality(Leased(UserOf[c])')
                  = Least(want[c], Cardinality(Leased(UserOf[c])) + 1)
     /\ \A h \in Hub, u \in User :
          u \in trims[h] /\ u \notin trims'[h] /\ lease' # lease
            => Cardinality(Leased(u)') = Least(limit[h], Cardinality(Leased(u)))]_vars

\* The task of c runs, although c has lost its lease, or its hub the bus: the
\* client of a hub that lost the bus has missed messages and must connect again.
Forsaken(c) ==
  /\ phase[c] \in Begun
  /\ \/ lease[c] # Home[c]
     \/ cut[c] \in Begun

\* A forsaken connection ends, also when the command that should close it was
\* lost, came before its task ran, or was never published.  If its client stops
\* reading for good, its task need never look.
ForsakenEnds ==
  \A c \in Conn :
    []<>(phase[c] # "sending") => (Forsaken(c) ~> (phase[c] \notin Begun))

\* A connection that has ended does not count against its user for ever.
LeaseEnds == \A c \in Conn : phase[c] = "gone" ~> lease[c] = None

\* Whatever takes the ground from a connection, it ends once its client reads on,
\* and the lease of one that has ended goes whatever the clients do.
ConnectionsEnd == ForsakenEnds /\ LeaseEnds

\* What the test of mark_bus_unavailable says: the connections that the hub
\* has when it loses the bus are closed.
OutageCloses ==
  \A c \in Conn : cut[c] # "free" /\ phase[c] \in Begun => c \in closing
=============================================================================
