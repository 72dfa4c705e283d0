------------------------------- MODULE MCAuth --------------------------------
(* A small instance of Auth for TLC. *)
EXTENDS Auth

CONSTANTS a1, a2
=============================================================================
