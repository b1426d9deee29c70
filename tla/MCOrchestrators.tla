---------------------------- MODULE MCOrchestrators ----------------------------
(***************************************************************************)
(* Instance of Orchestrators over the policies and plans of MCControlLoop. *)
(***************************************************************************)
EXTENDS Orchestrators, MCControlLoop
=============================================================================
