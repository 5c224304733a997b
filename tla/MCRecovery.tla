------------------------------- MODULE MCRecovery -------------------------------
(***************************************************************************)
(* Recovery for TLC: a first run, and the ones started after it ended or    *)
(* was killed.                                                             *)
(***************************************************************************)
EXTENDS Recovery
===============================================================================
