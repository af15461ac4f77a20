------------------------------ MODULE GpuReads ------------------------------
(***************************************************************************)
(* What the three back ends have in common for their callers (smi_api.hpp):*)
(* a GPU, and the fields that its creation and each part of a GPUGet fill. *)
(***************************************************************************)
EXTENDS WslReads, GimReads

\* A device; first: a partition 0, or not a partition.  d.rdna: see g_rdna_gpus.
Device(backend, role, rdna, sentinels, lacks) ==
    [backend |-> backend, parent |-> role = "parent", partitioned |-> role \in {"first", "other"},
     first |-> role # "other", rdna |-> rdna, sentinels |-> sentinels, lacks |-> lacks,
     skip |-> {}, fails |-> {}]

\* The sets of at most n of S.
Upto(n, S) == {{}} \union {{t[i] : i \in 1 .. n} : t \in [1 .. n -> S]}

\* gpu_entry::init_attrs
Created(d) ==
    CASE d.backend = "amdsmi" -> AmdsmiCreate(d)
      [] d.backend = "wsl" -> WslCreate(d)
      [] d.backend = "gim" -> GimCreate(d)

\* gpu_entry::fill_spec_: amdsmi and wsl fetch the metrics, and fill nothing.
SpecOf(d) == When(d.backend = "gim", GimSpecFields(d))

\* gpu_entry::fill_status_, for the reply as it is then.
StatusOf(d, info) ==
    CASE d.backend = "amdsmi" -> AmdsmiStatus(d, AmdsmiCached(d), AmdsmiMetrics(d), info)
      [] d.backend = "wsl" -> WslStatus(d, WslCached(d), WslMetrics(d), info)
      [] d.backend = "gim" -> GimStatus(d)

\* gpu_entry::fill_stats_
StatsOf(d) ==
    CASE d.backend = "amdsmi" -> LET m == AmdsmiMetrics(d) IN AmdsmiStats(d, AmdsmiCached(d), m, m, m)
      [] d.backend = "wsl" -> WslStats(d)
      [] d.backend = "gim" -> GimStats(d)
=============================================================================
