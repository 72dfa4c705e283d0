---------------------------- MODULE MCDeployment -----------------------------
(* A small instance of Deployment and Verification for TLC. *)
EXTENDS Verification
=============================================================================
