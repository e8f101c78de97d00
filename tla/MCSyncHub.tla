------------------------------ MODULE MCSyncHub ------------------------------
(* Model checking of SyncHub: two requests of one user, at two hubs or at   *)
(* the same.                                                                *)
EXTENDS TLC

CONSTANTS Hub, User, Conn, Home, UserOf, Slow, NoHub, Limits, MaxEvents,
          h1, h2, u1, c1, c2, c3

VARIABLES phase, want, evicted, listed, closing, holder, score, registrations,
          told, bus, alive, limit, trims, cut, events

Hubs == INSTANCE SyncHub WITH
  None <- NoHub, lease <- holder, clock <- registrations, inbox <- told

ASSUME HubsAssumption == Hubs!ConstantAssumption

MCHome == [c \in Conn |-> IF c = c2 THEN h2 ELSE h1]
MCUserOf == [c \in Conn |-> u1]

\* The other one of the same hub, or of the other hub, has come and gone; without
\* it, the other hub has stopped.
HubsInit ==
  \E absent \in {c2, c3} :
    /\ phase = [c \in Conn |-> IF c = absent THEN "gone" ELSE "free"]
    /\ \E m \in Limits : limit = [h \in Hub |-> m] /\ want = [c \in Conn |-> m]
    /\ evicted = [x \in Conn \cup Hub |-> {}]
    /\ listed = {} /\ closing = {}
    /\ cut = [c \in Conn |-> "free"]
    /\ holder = [c \in Conn |-> NoHub]
    /\ score = [c \in Conn |-> 0] /\ registrations = 0
    /\ told = {}
    /\ bus = [h \in Hub |-> "off"]
    /\ alive = [h \in Hub |-> IF absent = c2 /\ h = h2 THEN "down" ELSE "up"]
    /\ trims = [h \in Hub |-> {}]
    /\ events = 0

HubsSpec   == HubsInit /\ [][Hubs!Next]_Hubs!vars /\ Hubs!Fairness
HubsUnfair == Hubs!Spec

-----------------------------------------------------------------------------
\* Every variable of the hubs, and of Redis, keeps its type and its phase's meaning.
HubsTyped == Hubs!TypeOK

\* Registering and trimming leave as many leases as the limit allows, across hubs.
LimitExact == Hubs!LimitExact

\* Both: the limit is exact, and what the hubs list are connections that are theirs.
HubsSound == []HubsTyped /\ LimitExact

\* What was evicted or cut off ends once its client reads, and its lease with it.
ConnectionsEnd == Hubs!ConnectionsEnd

\* A hub that loses the bus closes the connections that it has.
OutageCloses == Hubs!OutageCloses
=============================================================================
