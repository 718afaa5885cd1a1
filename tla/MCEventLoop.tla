---------------------------- MODULE MCEventLoop ----------------------------
(***************************************************************************)
(* EventLoop with few events and lists for TLC.                             *)
(***************************************************************************)
EXTENDS EventLoop

MCPoll == -1
=============================================================================
