--------------------------- MODULE MCClusterLease ---------------------------
(* Model checking of ClusterLease: short durations that keep the order of   *)
(* the real ones, two builds and two configurations.                        *)
EXTENDS ClusterLease, TLC

\* A cluster that is deployed for the first time, by processes of the same
\* configuration or of two; the first has the newest build, the other any.
Deployed ==
  /\ Init /\ schema = 0
  /\ \A i \in Instance : config[i].mode = "cluster"
  /\ LET first == CHOOSE i \in Instance : TRUE
     IN  /\ config[first].fingerprint = CHOOSE f \in Fingerprint : TRUE
         /\ build[first] = MaxVersion

MCSpec == Deployed /\ [][Next]_vars /\ Fairness

=============================================================================
