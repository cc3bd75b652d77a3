------------------------------- MODULE Flags -------------------------------
(***************************************************************************)
(* The operational flags of core/flags.py, and how the flag board reads an *)
(* instrument that has no row.                                             *)
(***************************************************************************)

\* InstrumentOperationFlag.
Flag == {"unset", "ready", "operating", "close", "lock", "error"}

\* An instrument that was never registered nor written has no row.
NoRow == "no_row"

\* What get_flag answers for a stored row: a missing one reads UNSET and the
\* read registers nothing.
ReadFlag(row) == IF row = NoRow THEN "unset" ELSE row
=============================================================================
