---------------------------- MODULE MCWireServer ----------------------------
(***************************************************************************)
(* Model-checking instances of WireServer.                                 *)
(***************************************************************************)
EXTENDS WireServer
=============================================================================
