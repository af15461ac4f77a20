------------------------------- MODULE GpuGet -------------------------------
(***************************************************************************)
(* GPUGet and the cache of GPU metrics it shares with every other GPUGet   *)
(* (g_gpu_metrics, amdsmi/smi_api.cc).  A read fills the specification,    *)
(* the status and the statistics one after the other: the first fetches    *)
(* metrics from the device, before it takes the lock, and caches them; the *)
(* others copy what the cache has by then.                                 *)
(*                                                                         *)
(* Samples are numbered in the order in which the device took them; 0 is   *)
(* no sample.                                                              *)
(***************************************************************************)
EXTENDS Naturals, FiniteSetsExt

CONSTANTS
    Getters,       \* gRPC threads that serve a GPUGet
    Handles,       \* GPU handles; the first partition of a device, and others
    Partitioned,   \* handles of partitions
    First,         \* the handle of partition 0
    MaxSamples     \* bound: samples the devices take

ASSUME GetAssumption ==
    /\ Partitioned \subseteq Handles
    /\ First \in Handles
    /\ MaxSamples \in Nat

VARIABLES
    g_gpu_metrics,   \* the cached sample of each handle
    sampled,         \* samples taken so far
    get              \* the GPUGet of each thread

getVars == <<g_gpu_metrics, sampled, get>>

NoGet == [pc |-> "idle"]
GetPcs == {"fetch", "cache", "status", "stats", "partition", "primary", "done"}

GetTypeOK ==
    /\ sampled \in 0 .. MaxSamples
    /\ g_gpu_metrics \in [Handles -> 0 .. sampled]
    /\ \A h, k \in Handles : g_gpu_metrics[h] = g_gpu_metrics[k] /\ h # k => g_gpu_metrics[h] = 0
    /\ \A c \in Getters : get[c].pc \in GetPcs \union {"idle"}

\* Threads in the middle of a GPUGet of handle h.
Getting(h) == {c \in Getters : get[c].pc # "idle" /\ get[c].handle = h}

-----------------------------------------------------------------------------
\* gpu_entry::read: the three parts are filled one after the other.  `since' is
\* the number of samples taken when the oldest read of the GPU under way began,
\* `alone' that no other one overlaps.
GetStart(c, h) ==
    /\ get[c] = NoGet
    /\ get' = [x \in Getters |->
                 IF x = c
                 THEN [pc |-> "fetch", handle |-> h, since |-> Min({sampled} \union
                         {get[y].began : y \in Getting(h)}), began |-> sampled,
                       alone |-> Getting(h) = {}, skip |-> FALSE, own |-> 0,
                       clock |-> 0, power |-> 0, usage |-> 0, busy |-> 0]
                 ELSE IF x \in Getting(h) THEN [get[x] EXCEPT !.alone = FALSE] ELSE get[x]]
    /\ UNCHANGED <<g_gpu_metrics, sampled>>

\* smi_gpu_fill_spec: amdsmi_get_gpu_metrics_info, with no lock held.
FillSpecFetch(c) ==
    /\ get[c].pc = "fetch"
    /\ \/ /\ sampled < MaxSamples
          /\ sampled' = sampled + 1
          /\ get' = [get EXCEPT ![c] = [@ EXCEPT !.pc = "cache", !.own = sampled + 1]]
       \/ /\ get' = [get EXCEPT ![c].pc = "cache"]     \* the call fails
          /\ UNCHANGED sampled
    /\ UNCHANGED g_gpu_metrics

\* Mutant of FillSpecCache: a call that failed leaves the cache as it was.
FillSpecCacheMutant(c) ==
    /\ get[c].pc = "cache"
    /\ g_gpu_metrics' = IF get[c].own = 0 THEN g_gpu_metrics
                        ELSE [g_gpu_metrics EXCEPT ![get[c].handle] = get[c].own]
    /\ get' = [get EXCEPT ![c].pc = "status"]
    /\ UNCHANGED sampled

\* ... and under the lock: the old sample is erased, the new one, if the call
\* succeeded, is cached.
FillSpecCache(c) ==
    /\ get[c].pc = "cache"
    /\ g_gpu_metrics' = [g_gpu_metrics EXCEPT ![get[c].handle] = get[c].own]
    /\ get' = [get EXCEPT ![c].pc = "status"]
    /\ UNCHANGED sampled

\* smi_gpu_fill_status: clocks, throttling, xgmi and vram bandwidth, from the
\* cache, unless the filter skips them.
FillStatus(c, skip) ==
    /\ get[c].pc = "status"
    /\ get' = [get EXCEPT ![c] = [@ EXCEPT !.pc = "stats",
                                           !.clock = IF skip THEN 0 ELSE g_gpu_metrics[get[c].handle]]]
    /\ UNCHANGED <<g_gpu_metrics, sampled>>

\* smi_gpu_fill_stats: power, temperature, pcie and energy from the cache, and,
\* unless the filter skips them, the activities of a GPU that is not a partition:
\* those of gfx and umc (`usage'), and mm, the accumulated ones, the busy engines
\* (`busy').
FillStats(c, skip) ==
    /\ get[c].pc = "stats"
    /\ LET h == get[c].handle
           s == g_gpu_metrics[h]
           a == IF skip \/ h \in Partitioned THEN 0 ELSE s
       IN  get' = [get EXCEPT ![c] =
                     [@ EXCEPT !.pc = IF h \in Partitioned THEN "partition" ELSE "primary",
                               !.skip = skip, !.power = s, !.usage = a, !.busy = a]]
    /\ UNCHANGED <<g_gpu_metrics, sampled>>

\* The activities of a partition, partition 0 too, come from the metrics of the
\* partition, fetched with no lock held.  They are fetched, for the violations,
\* even if the filter skips the activities.
FillPartition(c) ==
    /\ get[c].pc = "partition"
    /\ LET pc == IF get[c].handle = First THEN "primary" ELSE "done" IN
       \/ /\ sampled < MaxSamples
          /\ sampled' = sampled + 1
          /\ get' = [get EXCEPT ![c] = IF get[c].skip THEN [@ EXCEPT !.pc = pc]
                                       ELSE [@ EXCEPT !.pc = pc, !.usage = sampled + 1,
                                                                 !.busy = sampled + 1]]
       \/ /\ get' = [get EXCEPT ![c].pc = pc]     \* the call fails, or all is skipped
          /\ UNCHANGED sampled
    /\ UNCHANGED g_gpu_metrics

\* The gfx and umc activity of partition 0 and of a GPU without partitions are
\* taken from the cache at last, under the lock, if there is a sample.
FillUsage(c) ==
    /\ get[c].pc = "primary"
    /\ LET s == g_gpu_metrics[get[c].handle] IN
       get' = [get EXCEPT ![c] =
                 [@ EXCEPT !.pc = "done",
                           !.usage = IF get[c].skip \/ s = 0 THEN get[c].usage ELSE s]]
    /\ UNCHANGED <<g_gpu_metrics, sampled>>

\* The response goes out.
GetDone(c) ==
    /\ get[c].pc = "done"
    /\ get' = [get EXCEPT ![c] = NoGet]
    /\ UNCHANGED <<g_gpu_metrics, sampled>>

GetInit ==
    /\ g_gpu_metrics = [h \in Handles |-> 0]
    /\ sampled = 0
    /\ get = [c \in Getters |-> NoGet]

GetNext ==
    \E c \in Getters :
        \/ \E h \in Handles : GetStart(c, h)
        \/ FillSpecFetch(c) \/ FillSpecCache(c) \/ FillPartition(c) \/ FillUsage(c)
        \/ GetDone(c)
        \/ \E skip \in BOOLEAN : FillStatus(c, skip) \/ FillStats(c, skip)

GetSpec == GetInit /\ [][GetNext]_getVars

-----------------------------------------------------------------------------
Reported(c) == {get[c].clock, get[c].power, get[c].usage, get[c].busy} \ {0}

\* The cache is refilled with no regard to order, so a GPUGet may report metrics
\* older than its own; but never older than the GPUGets of that GPU that were
\* under way when it began, and never those of an earlier one because the device
\* did not answer (smi_gpu_fill_spec, smi_gpu_fill_stats).
NeverOlderThanOverlap ==
    \A c \in Getters : get[c].pc = "done" => \A s \in Reported(c) : s > get[c].since

\* "cache GPU metrics so that we don't do repeated calls while filling spec,
\* status and statistics" (smi_api.cc:53): in a GPUGet that no other one of the
\* GPU overlaps, all parts of the response tell of the one sample it took, or,
\* where the device did not answer, of none.  The activities of a partition are of
\* a second sample; partition 0 mixes the two: its gfx and umc activity are of the
\* first sample, as the comment at smi_api.cc:1573 has it, unless that failed.
QuietGetIsOneSample ==
    \A c \in Getters : get[c].pc = "done" /\ get[c].alone =>
        /\ {get[c].clock, get[c].power} \subseteq {0, get[c].own}
        /\ get[c].handle \notin Partitioned => {get[c].usage, get[c].busy} \subseteq {0, get[c].own}
        /\ get[c].handle = First /\ get[c].own # 0 => get[c].usage \in {0, get[c].own}
        /\ get[c].usage \in {get[c].own, get[c].busy}

\* What a GPUGet reports of the metrics (smi_gpu_fill_spec, smi_gpu_fill_status,
\* smi_gpu_fill_stats) is of its time, and of one sample, or for a partition of
\* two, unless others overlap.
GetReportsItsSample == NeverOlderThanOverlap /\ QuietGetIsOneSample
=============================================================================
