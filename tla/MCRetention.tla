---------------------------- MODULE MCRetention -----------------------------
(* Small instances of Retention for TLC.                                   *)
EXTENDS Retention
=============================================================================
