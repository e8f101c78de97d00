--------------------------- MODULE MCLeaderboard ---------------------------
(* Model checking of Leaderboard: a scheduler and a reader in two processes, *)
(* two calls that change the teams or the game, one fault.                   *)
EXTENDS Leaderboard, TLC

CONSTANTS s1, r1, m1, m2

MCHome == (s1 :> m1) @@ (r1 :> m2)

=============================================================================
