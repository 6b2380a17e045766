----------------------------- MODULE MCSubagents -----------------------------
(***************************************************************************)
(* Small instances of Subagents for TLC.                                   *)
(***************************************************************************)
EXTENDS Subagents

=============================================================================
