---------------------------- MODULE MCGpuConfig -----------------------------
(* GpuConfig on two GPUs of the wsl back end, with one caller and the      *)
(* resets.                                                                 *)
EXTENDS GpuConfig

ConfigMaxIds == [c \in Callers |-> 2]
=============================================================================
