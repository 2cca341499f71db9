---------------------------- MODULE MCPipeSystem ----------------------------
(* An instance of PipeSystem for TLC.                                      *)
EXTENDS PipeSystem

CONSTANTS trexec, child, grandchild, out, err
=============================================================================
