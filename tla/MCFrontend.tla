----------------------------- MODULE MCFrontend -----------------------------
(* Instance of Frontend for TLC: one admin and one reader at a time work   *)
(* on the third revision, any two on the first and the second.             *)
EXTENDS Frontend, TLC

MCOffers == {[page |-> TRUE, feature |-> TRUE], [page |-> FALSE, feature |-> TRUE]}
Symmetry == Permutations(Admin)

Alone == revision[MaxRevision] # "none" => \E c \in Admin : call[c].pc \in {"idle", "store"}

MCSpec == Init /\ [][Next /\ Alone']_vars
=============================================================================
