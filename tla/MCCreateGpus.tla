---------------------------- MODULE MCCreateGpus ----------------------------
(***************************************************************************)
(* Instances of CreateGpus for TLC.                                        *)
(***************************************************************************)
EXTENDS CreateGpus
=============================================================================
