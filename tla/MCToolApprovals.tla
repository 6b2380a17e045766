---------------------------- MODULE MCToolApprovals ----------------------------
(* An instance of ToolApprovals for TLC: a chat session and the session of a *)
(* sub-agent it spawns.                                                      *)
EXTENDS ToolApprovals, TLC

CONSTANTS chat, child

ChildOnly == child :> chat
=============================================================================
