------------------------------ MODULE MCPollLoop ------------------------------
(***************************************************************************)
(* PollLoop for TLC.                                                       *)
(***************************************************************************)
EXTENDS PollLoop

=============================================================================
