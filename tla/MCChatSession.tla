---------------------------- MODULE MCChatSession ----------------------------
(***************************************************************************)
(* Requests of one session without its events, for TLC.                    *)
(***************************************************************************)
EXTENDS ChatSession

=============================================================================
