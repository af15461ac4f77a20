---------------------------- MODULE MCGpuRecords ----------------------------
(* GpuRecords with more error records than one round returns.              *)
EXTENDS GpuRecords
=============================================================================
