------------------------- MODULE MCTeamMembership -------------------------
(* One game with a team of two, which has one place left, and two users    *)
(* without a team.  Any two calls meet, and a join meets two calls that    *)
(* choose the captain.                                                     *)
EXTENDS TeamMembership

CONSTANTS c1, c2, c3, u1, u2, u3, u4

MCMembers == <<u1, u2>>

Choosing == {"promote", "admin_promote", "admin_remove"}

MCMenus ==
  {[c \in Call |-> IF c = c3 THEN {} ELSE Operation],
   [c \in Call |-> CASE c = c1 -> {"promote"} [] c = c2 -> Choosing [] c = c3 -> {"join"}]}

Listed == <<"promote", "admin_promote", "admin_remove", "join", "create", "leave", "update",
            "disband", "kick", "start", "admin_create", "admin_update", "admin_add",
            "admin_delete">>

\* Calls differ in name only: of two operations c1 makes the one that is listed first.
Ordered == At(c1, "idle") \/ At(c2, "idle")
           \/ \E m, n \in DOMAIN Listed : m <= n /\ call[c1].op = Listed[m] /\ call[c2].op = Listed[n]

\* Users without a team differ in name only: u3 is the first that a call is about.
Asked(u) == \E c \in Call : u \in {call[c].by, call[c].user}
Named    == Asked(u4) => Asked(u3)

MCSpec == /\ Init /\ [][Next /\ Ordered' /\ Named']_vars
          /\ \A c \in Call : WF_vars(Step(c))
=============================================================================
