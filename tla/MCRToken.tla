------------------------------ MODULE MCRToken ------------------------------
(* Small instances of RToken for TLC. *)
EXTENDS RToken, TLC

CONSTANTS a1, a2, t1, t2

\* The second basket replaces a token of the first.
MCBasketTokens == <<{t1}, {t2}>>

\* One token only.
MCOneBasket == <<{t1}>>

AccountSymmetry == Permutations(Accounts)
=============================================================================
