----------------------------- MODULE MCCurrency -----------------------------
(* One currency and three transactions of any kind.                        *)
EXTENDS Currency, TLC

MCMinInt == -4
Symmetry == Permutations(Tx)
=============================================================================
