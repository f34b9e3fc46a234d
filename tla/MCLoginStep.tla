---------------------------- MODULE MCLoginStep ----------------------------
(* LoginStep for TLC: a right code and a wrong one. *)
EXTENDS LoginStep
CONSTANTS right, wrong
=============================================================================
