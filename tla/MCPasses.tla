------------------------------ MODULE MCPasses -------------------------------
(***************************************************************************)
(* An instance of Passes for TLC.                                          *)
(***************************************************************************)
EXTENDS Passes
=============================================================================
