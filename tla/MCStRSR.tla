------------------------------ MODULE MCStRSR -------------------------------
(* Small instances of StRSR for TLC. *)
EXTENDS StRSR, TLC

CONSTANTS a1, a2

AccountSymmetry == Permutations(Accounts)
=============================================================================
