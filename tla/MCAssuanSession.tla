-------------------------- MODULE MCAssuanSession --------------------------
(* A session small enough for TLC. *)
EXTENDS AssuanSession
=============================================================================
