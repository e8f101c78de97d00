----------------------------- MODULE MCTickets -----------------------------
(* Two requests at a time on the tickets of a team, two of the staff.      *)
EXTENDS Tickets, TLC

MCAsked == {[cost |-> TRUE, wait |-> "running"]}
MCMenus == {{"open", "solve"}, {"send", "dm"}, {"send", "close"}, {"send", "solve"},
            {"close", "solve"}, {"buy", "solve"}, {"buy", "send"}, {"buy", "close"}}
Symmetry == Permutations(Call)
=============================================================================
