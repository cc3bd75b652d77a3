----------------------------- MODULE MCScripts -----------------------------
(* Instances of Scripts for TLC. *)
EXTENDS Scripts

CONSTANTS check, job
=============================================================================
