-------------------------- MODULE MCClassification --------------------------
(***************************************************************************)
(* The instance of Classification for TLC: its constants are model values  *)
(* and numbers, all given in the configuration.                            *)
(***************************************************************************)
EXTENDS Classification
=============================================================================
