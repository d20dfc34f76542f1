---------------------------- MODULE MCPipeReader ----------------------------
(* Constants for checking PipeReader with TLC. *)
EXTENDS PipeReader

AnyReturn == {"true", "false", "nil"}
=============================================================================
